------------------------- MODULE MCProducerBoundary -------------------------
(* Two processes, the first with two threads, the second with one.         *)
EXTENDS ProducerBoundary, TLC

CONSTANTS a, b, a1, a2, b1

MCThreads == {a1, a2, b1}
MCProcs == {a, b}
MCProcOf == (a1 :> a) @@ (a2 :> a) @@ (b1 :> b)

\* Everybody does everything.
AllCalls == [t \in MCThreads |-> Requests]

\* Producers in one process, the backup command in the other.
BackupCalls ==
    (a1 :> {"admit", "effect"}) @@ (a2 :> {"effect"}) @@ (b1 :> {"quiesce"})

\* Pins are interchangeable names of open descriptors.
PinSymmetry == Permutations(Pins)

\* The same for the run with temporal properties, where TLC's symmetry is not
\* sound: open the first free pin. Begin is under no fairness.
FirstFreePin ==
    \A t \in Threads :
        pc[t] = "idle" /\ pc'[t] = "decide"
            => pin'[t] = CHOOSE p \in Pins : p \notin InUse

=============================================================================
