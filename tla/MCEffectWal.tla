---------------------------- MODULE MCEffectWal ----------------------------
(***************************************************************************)
(* Instances of EffectWal: the host of the MCP server, a command that      *)
(* executes operations, an administrator's command that backs up or        *)
(* compacts; targets f1, which exists, and f2, which does not.             *)
(***************************************************************************)
EXTENDS EffectWal, TLC

CONSTANTS f1, f2, host, command, admin, old, none, e1, e2, e3

MCFiles == {f1, f2}
MCValues == {none, old, e1, e2, e3}
MCContent == f1 :> old @@ f2 :> none

MCWrites ==
    e1 :> <<[file |-> f1, mode |-> "Write"], [file |-> f2, mode |-> "Create"]>>
 @@ e2 :> <<[file |-> f2, mode |-> "Append"], [file |-> f1, mode |-> "Delete"]>>
 @@ e3 :> <<[file |-> f1, mode |-> "Append"]>>

Restricted(E) == [e \in E |-> MCWrites[e]]

ThreeExecs == {e1, e2, e3}
ThreeIds == [e \in ThreeExecs |-> e]
WritesThree == Restricted(ThreeExecs)
TwoExecs == {e1, e2}
WritesTwo == Restricted({e1, e2})
WritesUndone == Restricted({e1, e3})
OwnIds == [e \in TwoExecs |-> e]
UndoneExecs == {e1, e3}
UndoneIds == [e \in UndoneExecs |-> e]

HostOps == host :> {"commit", "activate"}
HostAndAdminOps == host :> {"commit", "activate"} @@ admin :> {"recover", "compact"}
HostAndCompactOps == host :> {"commit", "activate"} @@ admin :> {"compact"}
AllOps ==
    host :> {"commit", "activate"} @@ command :> {"execute"} @@ admin :> {"recover", "compact"}

=============================================================================
