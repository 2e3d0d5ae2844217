--------------------------- MODULE MCGovernanceLedger ---------------------------
(***************************************************************************)
(* Instance of GovernanceLedger for TLC: the histories a behaviour starts  *)
(* from, and the requests that are made of each.                           *)
(***************************************************************************)
EXTENDS GovernanceLedger, TLC

Objective == Entry(0, [k |-> "objective", rev |-> 1, on |-> 1, kind |-> "initial"])

Advanced(n, from, to) == Entry(n, [k |-> "phase", from |-> from, to |-> to])

Solo == Prepare(Genesis("solo"), <<Objective>>)

\* A solo project that has come to build_verify.
Built == Prepare(Solo, <<Advanced(1, "discovery", "specification"),
                         Advanced(2, "specification", "plan"),
                         Advanced(3, "plan", "build_verify")>>)

\* An old project with a broker action from before strict replay identities.
Native == Prepare(Genesis("none"),
                  <<Entry(0, [k |-> "action", i |-> "old", on |-> 1]),
                    Entry(0, [k |-> "origin", i |-> "old", packet |-> <<1, "action">>,
                              on |-> 2, strict |-> FALSE])>>)

\* Two processes may die where a replacement takes several steps, so that one can
\* die while it repairs what the other left; else one.
Menu(platform, start, kinds) ==
    [platform |-> platform, start |-> start, kinds |-> kinds,
     deaths |-> IF platform = "other" THEN 2 ELSE 1]

AllMenus ==
    {Menu("other", <<>>, {"initialize", "objective", "activate"}),
     Menu("posix", <<>>, {"initialize", "authorised"}),
     Menu("other", Genesis("strict"), {"broker", "historical", "activate"}),
     Menu("posix", Genesis("strict"), {"broker", "activate"}),
     Menu("posix", Genesis("none"), {"adopt", "release", "coordination", "objective"}),
     Menu("posix", Native, {"broker", "adopt", "coordination"}),
     Menu("posix", Solo, {"evidence", "objective", "focus"}),
     Menu("posix", Built, {"episode", "objective", "completion", "coordination"}),
     Menu("other", Genesis("strict"), {"activate", "rebase", "coordination", "next"}),
     Menu("posix", Genesis("strict"), {"activate", "release", "rebase", "completion"})}

Symmetries == Permutations(Interactions) \cup Permutations(Offers)
                  \cup Permutations(Digests) \cup Permutations(FocusIds)

=================================================================================
