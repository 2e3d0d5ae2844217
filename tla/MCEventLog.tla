----------------------------- MODULE MCEventLog -----------------------------
(* Two threads of one process and one of another.                          *)
EXTENDS EventLog, TLC

CONSTANTS a, b, a1, a2, b1

MCThreads == {a1, a2, b1}
MCProcs == {a, b}
MCProcOf == (a1 :> a) @@ (a2 :> a) @@ (b1 :> b)

\* Memory and governance operations of one process against each other and
\* against another process; and writers of a stream that is backed up.
AllCalls ==
    (a1 :> MemoryOps \cup {"admit_source"})
        @@ (a2 :> {"promote", "forget"} \cup GovernanceOps \cup {"admit_source"})
        @@ (b1 :> GovernanceOps \cup {"capture", "project"})

Backed == {"admit_source", "capture", "project"}

\* The streams share no file and no lock, so one is exercised at a time. A
\* backup and torn appends are put against the simplest of them.
OneScenario ==
    LET ops == {call[t].op : t \in {u \in Threads : pc[u] # "idle"}}
        used == {s \in Streams : log[s].made}
                    \cup {StreamOf(o) : o \in ops \ {"capture", "project"}}
    IN  /\ Cardinality(used) <= 1
        /\ \/ torn = 0 /\ ops \cap Backed = {}
           \/ /\ ops \subseteq Backed /\ used \subseteq {"Research"}
              /\ Len(log["Research"].lines) <= 2

=============================================================================
