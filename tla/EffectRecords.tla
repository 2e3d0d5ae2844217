--------------------------- MODULE EffectRecords ---------------------------
(***************************************************************************)
(* The effect write-ahead log of the store (crates/forge-core-store,       *)
(* lib.rs): its records, the JSONL file they are appended to, and what its *)
(* readers conclude from them.                                             *)
(*                                                                         *)
(* A file is its lines and whether it ends in a newline. A line is one     *)
(* record or it does not parse.                                            *)
(***************************************************************************)
EXTENDS Integers, Sequences, SequencesExt

CONSTANTS
    TxIds,          \* transaction ids
    Files,          \* effect targets
    Values,         \* contents of a target
    Absent,         \* the content of a target that does not exist
    NoFile

ASSUME AbsentAssumption == Absent \in Values
ASSUME NoFileAssumption == NoFile \notin Files

RollbackStages == {"RollbackComplete", "RecoveredRollback"}
ClosedStages == RollbackStages \cup {"Commit"}
Stages == ClosedStages \cup {"Begin", "BeforeImage", "WriteApplied", "ReplayConsumed"}

\* bound: the Begin record carries provenance and a replay binding.
\* known: the record names the effect that its transaction began with.
\* original: the content that a BeforeImage saves.
Records == [tx : TxIds, stage : Stages, bound : BOOLEAN, known : BOOLEAN,
            file : Files \cup {NoFile}, original : Values]

Marker(i, s) ==
    [tx |-> i, stage |-> s, bound |-> FALSE, known |-> TRUE,
     file |-> NoFile, original |-> Absent]

BeginRecord(i, b) == [Marker(i, "Begin") EXCEPT !.bound = b]

BeforeImage(i, f, v) ==
    [Marker(i, "BeforeImage") EXCEPT !.file = f, !.original = v]

WriteApplied(i, f) == [Marker(i, "WriteApplied") EXCEPT !.file = f]

-----------------------------------------------------------------------------
(***************************************************************************)
(* The file.                                                               *)
(***************************************************************************)

Broken == [broken |-> TRUE]
IsRecord(l) == l # Broken

EmptyWal == [lines |-> <<>>, ended |-> TRUE]

\* How much of an append reaches the file: nothing, a part of the record, the
\* record without its newline, all of it.
Cuts == {"nothing", "part", "bare", "full"}

\* The file after an append of r at its end. Whatever follows a line that has
\* no newline becomes part of that line.
Write(w, r, cut) ==
    IF cut = "nothing" THEN w
    ELSE [lines |-> IF w.ended
                      THEN Append(w.lines, IF cut = "part" THEN Broken ELSE r)
                      ELSE Append(Front(w.lines), Broken),
          ended |-> (cut = "full")]

\* repair_effect_wal_tail: a complete final record gets its newline, an
\* incomplete one is cut off.
Repaired(w) ==
    IF w.ended THEN w
    ELSE [lines |-> IF IsRecord(Last(w.lines)) THEN w.lines ELSE Front(w.lines),
          ended |-> TRUE]

\* The recovery's parser forgives a final line that was cut short.
Recoverable(w) ==
    \A k \in DOMAIN w.lines :
        IsRecord(w.lines[k]) \/ (k = Len(w.lines) /\ ~w.ended)

\* The parsers of compaction and of reconciliation, which also asks for the
\* final newline, do not.
Parses(w) == \A k \in DOMAIN w.lines : IsRecord(w.lines[k])
Strict(w) == w.ended /\ Parses(w)

\* The elements of s that are in S, in their order.
Only(s, S) ==
    LET sub[n \in 0 .. Len(s)] ==
          IF n = 0 THEN <<>>
          ELSE IF s[n] \in S THEN Append(sub[n - 1], s[n]) ELSE sub[n - 1]
    IN  sub[Len(s)]

RecordsOf(w) == Only(w.lines, Range(w.lines) \ {Broken})

-----------------------------------------------------------------------------
(***************************************************************************)
(* What the records say.                                                   *)
(***************************************************************************)

Has(rs, i, S) == \E k \in DOMAIN rs : rs[k].tx = i /\ rs[k].stage \in S

\* Mutation: a Commit does not close its transaction.
IncompleteMutant(rs) ==
    LET next(ids, r) ==
          IF r.stage = "Begin" /\ ~Has(rs, r.tx, RollbackStages) /\ r.tx \notin Range(ids)
            THEN Append(ids, r.tx) ELSE ids
    IN  FoldLeft(next, <<>>, rs)

\* incomplete_wal_transactions: begun and not closed, oldest first.
Incomplete(rs) ==
    LET next(ids, r) ==
          IF r.stage = "Begin" /\ ~Has(rs, r.tx, ClosedStages) /\ r.tx \notin Range(ids)
            THEN Append(ids, r.tx) ELSE ids
    IN  FoldLeft(next, <<>>, rs)

\* The saved contents of a transaction, in the order they were recorded.
BeforeImages(rs, i) ==
    Only(rs, {r \in Range(rs) : r.tx = i /\ r.stage = "BeforeImage"})

\* The recovery takes the effect from a before-image. When there is none, the
\* marker names "unknown_effect".
RecoveryMarker(rs, i) ==
    [Marker(i, "RecoveredRollback") EXCEPT !.known = (BeforeImages(rs, i) # <<>>)]

IsBound(rs, i) == \E k \in DOMAIN rs : rs[k].tx = i /\ rs[k].bound

\* The records of a bound transaction from its Begin on. A reader of replay
\* commits ignores all others.
Track(rs, i) ==
    LET mine == Only(rs, {r \in Range(rs) : r.tx = i})
        start == SelectInSeq(mine, LAMBDA r : r.bound)
    IN  IF start = 0 THEN <<>> ELSE SubSeq(mine, start, Len(mine))

\* Two records of a track that project_pending_effect_replay_commits does not
\* accept in this order.
Conflicting(r, s) ==
    \/ r.bound /\ s.bound
    \/ r.stage \in ClosedStages /\ s.stage = "Commit"
    \/ r.stage \in {"Commit", "ReplayConsumed"} /\ s.stage \in RollbackStages
    \/ r.stage = "ReplayConsumed" /\ s.stage = "ReplayConsumed"

\* The records t of transaction i make one history. A completion needs a commit.
Coherent(t, i) ==
    /\ \A j, k \in DOMAIN t : j < k => ~Conflicting(t[j], t[k])
    /\ \A k \in DOMAIN t :
         /\ t[k].known
         /\ t[k].stage = "ReplayConsumed" => Has(SubSeq(t, 1, k - 1), i, {"Commit"})

Consistent(rs) ==
    \A i \in {rs[k].tx : k \in DOMAIN rs} : \A t \in {Track(rs, i)} :
        /\ Coherent(t, i)
        /\ t = <<>> => ~Has(rs, i, {"ReplayConsumed"})

\* Mutation: a transaction whose rollback is recorded is still pending.
PendingMutant(rs) ==
    {i \in {rs[k].tx : k \in DOMAIN rs} :
        IsBound(rs, i) /\ ~Has(Track(rs, i), i, {"ReplayConsumed"})}

\* Committed transactions whose replay key is still to be consumed.
Pending(rs) ==
    {i \in {rs[k].tx : k \in DOMAIN rs} : \E t \in {Track(rs, i)} :
        /\ Has(t, i, {"Commit"})
        /\ ~Has(t, i, RollbackStages \cup {"ReplayConsumed"})}

\* Mutation: compaction keeps only what is incomplete.
RetainedMutant(rs) ==
    Only(rs, {r \in Range(rs) : r.tx \in Range(Incomplete(rs))})

\* compact_effect_wal: the records of incomplete and of bound transactions.
Retained(rs) ==
    Only(rs, {r \in Range(rs) : r.tx \in Range(Incomplete(rs)) \/ IsBound(rs, r.tx)})

=============================================================================
