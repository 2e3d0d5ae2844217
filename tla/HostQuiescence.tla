--------------------------- MODULE HostQuiescence ---------------------------
(***************************************************************************)
(* What the producer boundary promises, without its locks, registry and    *)
(* reference counts: leases of three kinds on one state root, and a        *)
(* quiescing party that first closes admission, so that only leases        *)
(* granted before can delay it, and then holds the root alone.             *)
(***************************************************************************)

CONSTANTS
    Leases,     \* everything that can hold a lease
    NoLease

VARIABLES
    held,       \* the kind of lease each holder has, or "none"
    closer      \* the one for whom admission is closed

vars == <<held, closer>>

Kinds == {"Shared", "Effect", "Exclusive"}

TypeOK ==
    /\ held \in [Leases -> Kinds \cup {"none"}]
    /\ closer \in Leases \cup {NoLease}

Init ==
    /\ held = [l \in Leases |-> "none"]
    /\ closer = NoLease

\* Kinds of leases that may be held at the same time.
Together(j, k) == j = "none" \/ (j = "Shared" /\ k = "Shared")

\* Close admission.
Close(l) ==
    /\ closer = NoLease
    /\ closer' = l
    /\ UNCHANGED held

\* Grant a lease. Only the closer gets one after the close, and the exclusive
\* lease is granted to nobody else.
Grant(l, k) ==
    /\ held[l] = "none"
    /\ closer \in {NoLease, l}
    /\ k = "Exclusive" => closer = l
    /\ \A m \in Leases \ {l} : Together(held[m], k)
    /\ held' = [held EXCEPT ![l] = k]
    /\ UNCHANGED closer

\* Leases end, one by one or all those of a process that died.
End(L) ==
    /\ held' = [l \in Leases |-> IF l \in L THEN "none" ELSE held[l]]
    /\ UNCHANGED closer

\* The closer gives up, is done or dies: admission opens, and its lease, like
\* those in L, is over.
Open(L) ==
    /\ closer # NoLease
    /\ held' = [l \in Leases |-> IF l \in L THEN "none" ELSE held[l]]
    /\ held'[closer] = "none"
    /\ closer' = NoLease

Next ==
    \/ \E l \in Leases : Close(l)
    \/ \E l \in Leases, k \in Kinds : Grant(l, k)
    \/ \E L \in SUBSET Leases : End(L) \/ Open(L)

Spec == Init /\ [][Next]_vars

=============================================================================
