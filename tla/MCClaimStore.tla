------------------------------ MODULE MCClaimStore ------------------------------
EXTENDS ClaimStore, TLC

CONSTANTS a, b, p1, p2, p3

AgentSymmetry == Permutations({a, b})
Symmetry == AgentSymmetry \cup Permutations({p1, p2, p3})

Area == {"area"}
AreaAndStory == {"area", "story"}

SameScope == [id \in Ids |-> id]

\* The root of the repository, a directory, and a file in it spelled with a detour.
RootReq == [id |-> "area", paths |-> {<<".">>}, ttl |-> 2]
DirReq == [id |-> "area", paths |-> {<<"src">>}, ttl |-> 1]
FileReq == [id |-> "story", paths |-> {<<"doc", "..", "src", "lib">>}, ttl |-> 2]
FarReq == [id |-> "story", paths |-> {<<"doc">>}, ttl |-> 4]

AllRequests == {RootReq, DirReq, FileReq, FarReq}
AreaRequests == {DirReq, RootReq}
Overlapping == {DirReq, FileReq}

SomeTargets == {<<"src">>, <<"src", ".", "lib">>, <<"doc", "x">>, <<"..", "src">>}
=============================================================================
