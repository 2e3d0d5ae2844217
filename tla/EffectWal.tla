----------------------------- MODULE EffectWal -----------------------------
(***************************************************************************)
(* File effects under the write-ahead log of the store: the transaction of *)
(* crates/forge-core-store/src/lib.rs, its rollback, the recovery of       *)
(* interrupted transactions, compaction; and the prepared execution of     *)
(* crates/forge-core-kernel/src/prepared_execution.rs, which consumes a    *)
(* replay key once its effect has committed and reconciles what a crash    *)
(* left pending before the host serves requests again.                     *)
(*                                                                         *)
(* An execution installs a content of its own in each of its targets, so a *)
(* content is named after the execution that wrote it. All operations run  *)
(* under the exclusive effect lock, from beginning to end; what a process  *)
(* does is therefore kept in variables of the lock's holder. The producer  *)
(* boundary around it is ProducerBoundary.                                 *)
(*                                                                         *)
(* Left out: the validation of contracts and payloads (an execution may be *)
(* blocked), writers that do not take the lock, replaced directories, the  *)
(* metadata index, split-root promotion, WalDurability::NoSync. Replacing  *)
(* or removing one file is atomic.                                         *)
(***************************************************************************)
EXTENDS EffectRecords, FiniteSets

CONSTANTS
    Procs,
    OpsOf,          \* the operations each process may call
    Execs,          \* executions of an effect
    IdOf,           \* the transaction id each execution has
    Writes,         \* the targets of each execution, in order, and their modes
    InitialContent,
    MaxCrashes,     \* bound on processes that die
    MaxFaults,      \* bound on writes that return an error
    NoProc, NoExec, NoTx

Modes == {"Create", "Write", "Append", "Delete"}
Ops == {"execute", "commit", "activate", "recover", "compact"}

ASSUME OpsAssumption == OpsOf \in [Procs -> SUBSET Ops]
ASSUME ExecsAssumption == Execs \subseteq Values \ {Absent} /\ NoExec \notin Execs
ASSUME IdsAssumption == IdOf \in [Execs -> TxIds] /\ NoTx \notin TxIds
ASSUME ProcsAssumption == NoProc \notin Procs
ASSUME ContentAssumption == InitialContent \in [Files -> Values \ Execs]
ASSUME BoundsAssumption == MaxCrashes \in Nat /\ MaxFaults \in Nat
ASSUME WritesAssumption ==
    /\ DOMAIN Writes = Execs
    /\ \A e \in Execs :
         /\ Writes[e] \in Seq([file : Files, mode : Modes]) \ {<<>>}
         /\ \A j, k \in DOMAIN Writes[e] :
              Writes[e][j].file = Writes[e][k].file => j = k

VARIABLES
    content,        \* the targets
    wal,            \* the effect WAL
    consumed,       \* the replay keys that are consumed, by transaction id
    live,           \* the hosts that have reconciled since they started
    holder, op,     \* the holder of the effect lock and what it does
    pc,             \* where it is
    exec, at,       \* the execution, and the write of it, that it is at
    saved,          \* the contents the execution found
    tx,             \* the transaction it consumes a replay key for
    script,         \* what it has still to do to undo transactions
    todo,           \* the transactions it has still to reconcile
    ok, bad,        \* no step of this undo, some step of any, has failed
    outcome,        \* what became of each execution
    acked,          \* ghost: the executions whose Commit is in the log
    truth,          \* ghost: the targets if exactly those had happened
    commanded,      \* ghost: an effect was applied by a command, not by a host
    crashes, faults

files == <<content, wal, consumed>>
locals == <<exec, at, saved, tx, script, todo, ok, bad>>
control == <<holder, op, pc>>
ghosts == <<acked, truth>>
bounds == <<commanded, crashes, faults>>
vars == <<files, live, control, locals, outcome, ghosts, bounds>>

Id == IdOf[exec]
Target(k) == Writes[exec][k].file

\* The content that write w of execution e leaves.
Installed(e, w) == IF w.mode = "Delete" THEN Absent ELSE e

\* The contents s with all writes of e in place.
Overlay(s, e) ==
    [f \in Files |->
        IF \E k \in DOMAIN Writes[e] : Writes[e][k].file = f
          THEN Installed(e, CHOOSE w \in Range(Writes[e]) : w.file = f)
          ELSE s[f]]

Init ==
    /\ content = InitialContent
    /\ wal = EmptyWal
    /\ consumed = {}
    /\ live = {}
    /\ holder = NoProc /\ op = "none" /\ pc = "idle"
    /\ exec = NoExec /\ at = 0 /\ saved = InitialContent /\ tx = NoTx
    /\ script = <<>> /\ todo = {} /\ ok = TRUE /\ bad = FALSE
    /\ outcome = [e \in Execs |-> "new"]
    /\ acked = {}
    /\ truth = InitialContent
    /\ commanded = FALSE
    /\ crashes = 0 /\ faults = 0

-----------------------------------------------------------------------------
(***************************************************************************)
(* The lock.                                                               *)
(***************************************************************************)

Acquire(p, o, stage) ==
    /\ o \in OpsOf[p]
    /\ holder = NoProc
    /\ holder' = p /\ op' = o /\ pc' = stage

Goto(stage) == pc' = stage /\ UNCHANGED <<holder, op>>

\* The lock is dropped and nothing of the operation is left.
Release ==
    /\ holder' = NoProc /\ op' = "none" /\ pc' = "idle"
    /\ exec' = NoExec /\ at' = 0 /\ saved' = InitialContent /\ tx' = NoTx
    /\ script' = <<>> /\ todo' = {} /\ ok' = TRUE /\ bad' = FALSE

\* The application of the effect ends with this status.
Return(status) ==
    /\ outcome' = [outcome EXCEPT ![exec] = status]
    /\ Release

Fault == /\ faults' = faults + 1 /\ faults' <= MaxFaults
         /\ UNCHANGED <<commanded, crashes>>

\* An append that returns Ok.
Appended(r) == wal' = Write(wal, r, "full")

\* An append that returns an error: how much of it is in the file is unknown.
AppendFails(r) == (\E cut \in Cuts : wal' = Write(wal, r, cut)) /\ Fault

-----------------------------------------------------------------------------
(***************************************************************************)
(* apply_file_effect_transaction: by a command that executes an operation, *)
(* or by a reconciled host for a prepared execution whose replay key is    *)
(* reserved.                                                               *)
(***************************************************************************)

Start(p, e, o) ==
    /\ outcome[e] = "new"
    /\ Acquire(p, o, "capture")
    /\ exec' = e
    /\ outcome' = [outcome EXCEPT ![e] = "running"]
    /\ commanded' = (commanded \/ o = "execute")
    /\ UNCHANGED <<files, live, at, saved, tx, script, todo, ok, bad, ghosts,
                   crashes, faults>>

\* execute_operation
StartCommand(p, e) == Start(p, e, "execute")

\* AdmittedExecutionTransaction::commit
StartCommit(p, e) ==
    /\ p \in live
    /\ IdOf[e] \notin consumed
    /\ Start(p, e, "commit")

\* The producer boundary or the effect lock was not to be had in time.
LockTimeout(p, e) ==
    /\ outcome[e] = "new"
    /\ holder \notin {NoProc, p}
    /\ OpsOf[p] \cap {"execute", "commit"} # {}
    /\ outcome' = [outcome EXCEPT ![e] = "Blocked"]
    /\ UNCHANGED <<files, live, control, locals, ghosts, bounds>>

\* Create wants the target absent, Write and Delete want it present.
Present(w) ==
    CASE w.mode = "Create" -> content[w.file] = Absent
      [] w.mode \in {"Write", "Delete"} -> content[w.file] # Absent
      [] w.mode = "Append" -> TRUE

\* capture_originals_retained
Capture ==
    /\ pc = "capture"
    /\ \A k \in DOMAIN Writes[exec] : Present(Writes[exec][k])
    /\ saved' = content
    /\ at' = 1
    /\ Goto("begin")
    /\ UNCHANGED <<files, live, exec, tx, script, todo, ok, bad, outcome, ghosts, bounds>>

\* The contract, a payload, the presence or the digest of a target is not as
\* expected.
Blocked ==
    /\ pc = "capture"
    /\ Return("Blocked")
    /\ UNCHANGED <<files, live, ghosts, bounds>>

\* What the transaction appends next.
NextRecord ==
    CASE pc = "begin"   -> BeginRecord(Id, op = "commit")
      [] pc = "image"   -> BeforeImage(Id, Target(at), saved[Target(at)])
      [] pc = "written" -> WriteApplied(Id, Target(at))
      [] pc = "commit"  -> Marker(Id, "Commit")

Log(stage, next) ==
    /\ pc = stage
    /\ Appended(NextRecord)
    /\ Goto(next)
    /\ UNCHANGED <<content, consumed, live, exec, saved, tx, script, todo, ok, bad,
                   outcome, bounds>>

LogBegin == Log("begin", "image") /\ UNCHANGED <<at, ghosts>>

LogBeforeImage == Log("image", "write") /\ UNCHANGED <<at, ghosts>>

LogWriteApplied ==
    /\ Log("written", IF at = Len(Writes[exec]) THEN "commit" ELSE "image")
    /\ at' = at + 1
    /\ UNCHANGED ghosts

\* The execution is committed.
Ack == acked' = acked \cup {exec} /\ truth' = Overlay(truth, exec)

\* A prepared execution goes on to consume its replay key.
LogCommit ==
    /\ pc = "commit"
    /\ Appended(NextRecord)
    /\ Ack
    /\ IF op = "commit"
         THEN /\ Goto("consume")
              /\ tx' = Id
              /\ outcome' = [outcome EXCEPT ![exec] = "Applied"]
              /\ UNCHANGED <<exec, at, saved, script, todo, ok, bad>>
         ELSE Return("Applied")
    /\ UNCHANGED <<content, consumed, live, bounds>>

\* apply_prepared_write compares the target with the content it captured.
ApplyWrite ==
    /\ pc = "write"
    /\ content[Target(at)] = saved[Target(at)]
    /\ content' = [content EXCEPT ![Target(at)] = Installed(exec, Writes[exec][at])]
    /\ Goto("written")
    /\ UNCHANGED <<wal, consumed, live, locals, outcome, ghosts, bounds>>

\* Put the content "to" back in f, which must now be "to" or in "from". The
\* code refuses any other content; RollbackIsExact is why there is none.
RestoreStep(f, to, from) == [file |-> f, to |-> to, from |-> from \cup {to}]

\* Mutation: the targets are not restored once all of them are written.
UndoMutant ==
    LET ws == SubSeq(Writes[exec], 1, Len(Writes[exec]) - 1)
        step(w) == RestoreStep(w.file, saved[w.file], {Installed(exec, w)})
    IN  [k \in DOMAIN ws |-> step(ws[k])]

\* Mutation: the content a Delete is said to install is the payload.
UndoDeleteMutant ==
    LET ws == Reverse(Writes[exec])
    IN  [k \in DOMAIN ws |-> RestoreStep(ws[k].file, saved[ws[k].file], {exec})]

\* rollback_originals_for_publication: all targets of the execution, last
\* first.
Undo ==
    LET ws == Reverse(Writes[exec])
    IN  [k \in DOMAIN ws |->
            RestoreStep(ws[k].file, saved[ws[k].file], {Installed(exec, ws[k])})]

\* Undo, then the RollbackComplete record, whether or not all was undone.
UndoAndRecord ==
    /\ script' = Undo \o <<[mark |-> Marker(Id, "RollbackComplete"), always |-> TRUE]>>
    /\ Goto("undo")

LogBeginFails ==
    /\ pc = "begin"
    /\ AppendFails(NextRecord)
    /\ Return("Blocked")
    /\ UNCHANGED <<content, consumed, live, ghosts>>

\* Here nothing is recorded after the rollback.
LogBeforeImageFails ==
    /\ pc = "image"
    /\ AppendFails(NextRecord)
    /\ script' = Undo
    /\ Goto("undo")
    /\ UNCHANGED <<content, consumed, live, exec, at, saved, tx, todo, ok, bad, outcome, ghosts>>

LogWriteAppliedFails ==
    /\ pc = "written"
    /\ AppendFails(NextRecord)
    /\ UndoAndRecord
    /\ UNCHANGED <<content, consumed, live, exec, at, saved, tx, todo, ok, bad, outcome, ghosts>>

LogCommitFails ==
    /\ pc = "commit"
    /\ AppendFails(NextRecord)
    /\ UndoAndRecord
    /\ UNCHANGED <<content, consumed, live, exec, at, saved, tx, todo, ok, bad, outcome, ghosts>>

\* The replacement fails, before or after the target has its new content.
ApplyWriteFails ==
    /\ pc = "write"
    /\ content' \in {content,
                     [content EXCEPT ![Target(at)] = Installed(exec, Writes[exec][at])]}
    /\ Fault
    /\ UndoAndRecord
    /\ UNCHANGED <<wal, consumed, live, exec, at, saved, tx, todo, ok, bad, outcome, ghosts>>

-----------------------------------------------------------------------------
(***************************************************************************)
(* Undoing, for a transaction that fails and for the recovery. One that    *)
(* was interrupted is marked only when all its targets are restored.       *)
(***************************************************************************)

Current == Head(script)
Restoring == pc = "undo" /\ script # <<>> /\ "file" \in DOMAIN Current
Marking == pc = "undo" /\ script # <<>> /\ "mark" \in DOMAIN Current

Restore ==
    /\ Restoring
    /\ content' = [content EXCEPT ![Current.file] = Current.to]
    /\ script' = Tail(script)
    /\ UNCHANGED <<wal, consumed, live, control, exec, at, saved, tx, todo, ok, bad,
                   outcome, ghosts, bounds>>

RestoreFails ==
    /\ Restoring
    /\ content[Current.file] # Current.to
    /\ content' \in {content, [content EXCEPT ![Current.file] = Current.to]}
    /\ Fault
    /\ script' = Tail(script)
    /\ ok' = FALSE /\ bad' = TRUE
    /\ UNCHANGED <<wal, consumed, live, control, exec, at, saved, tx, todo, outcome, ghosts>>

LogMark ==
    /\ Marking
    /\ ok \/ Current.always
    /\ Appended(Current.mark)
    /\ script' = Tail(script)
    /\ ok' = TRUE
    /\ UNCHANGED <<content, consumed, live, control, exec, at, saved, tx, todo, bad,
                   outcome, ghosts, bounds>>

LogMarkFails ==
    /\ Marking
    /\ ok \/ Current.always
    /\ AppendFails(Current.mark)
    /\ script' = Tail(script)
    /\ ok' = TRUE /\ bad' = TRUE
    /\ UNCHANGED <<content, consumed, live, control, exec, at, saved, tx, todo, outcome, ghosts>>

SkipMark ==
    /\ Marking
    /\ ~(ok \/ Current.always)
    /\ script' = Tail(script)
    /\ ok' = TRUE
    /\ UNCHANGED <<files, live, control, exec, at, saved, tx, todo, bad,
                   outcome, ghosts, bounds>>

\* The end of a rollback.
RolledBack ==
    /\ pc = "undo" /\ script = <<>>
    /\ op \in {"execute", "commit"}
    /\ Return(IF bad THEN "RollbackFailed" ELSE "RolledBack")
    /\ UNCHANGED <<files, live, ghosts, bounds>>

-----------------------------------------------------------------------------
(***************************************************************************)
(* The recovery: alone, as a backup runs it, or as the second step of a    *)
(* host's activation, which repairs the log first.                         *)
(***************************************************************************)

StartRecovery(p) ==
    /\ Acquire(p, "recover", "read")
    /\ UNCHANGED <<files, live, locals, outcome, ghosts, bounds>>

StartActivation(p) ==
    /\ Acquire(p, "activate", "repair")
    /\ p \notin live
    /\ UNCHANGED <<files, live, locals, outcome, ghosts, bounds>>

Repair ==
    /\ pc = "repair"
    /\ wal' = Repaired(wal)
    /\ Goto("read")
    /\ UNCHANGED <<content, consumed, live, locals, outcome, ghosts, bounds>>

\* Activation gives up: the host does not serve.
RepairFails ==
    /\ pc = "repair"
    /\ ~wal.ended
    /\ wal' \in {wal, Repaired(wal)}
    /\ Fault
    /\ Release
    /\ UNCHANGED <<content, consumed, live, outcome, ghosts>>

\* Mutation: a transaction that has recorded no write needs no undo.
UndoIncompleteMutant(rs, i) ==
    IF Has(rs, i, {"WriteApplied"})
      THEN LET images == Reverse(BeforeImages(rs, i))
           IN  Append([k \in DOMAIN images |->
                          RestoreStep(images[k].file, images[k].original, Values)],
                      [mark |-> RecoveryMarker(rs, i), always |-> FALSE])
      ELSE <<[mark |-> RecoveryMarker(rs, i), always |-> FALSE]>>

\* rollback_wal_before_images_retained: whatever the target is now. Then the
\* marker, if all of it was undone.
UndoIncomplete(rs, i) ==
    LET images == Reverse(BeforeImages(rs, i))
    IN  Append([k \in DOMAIN images |->
                   RestoreStep(images[k].file, images[k].original, Values)],
               [mark |-> RecoveryMarker(rs, i), always |-> FALSE])

\* The transactions that are begun and not closed, oldest first.
ReadWal ==
    /\ pc = "read"
    /\ Recoverable(wal)
    /\ \E rs \in {RecordsOf(wal)} : \E ids \in {Incomplete(rs)} :
         script' = FlattenSeq([k \in DOMAIN ids |-> UndoIncomplete(rs, ids[k])])
    /\ Goto("undo")
    /\ UNCHANGED <<files, live, exec, at, saved, tx, todo, ok, bad, outcome, ghosts, bounds>>

\* WalParseFailed
ReadWalFails ==
    /\ pc = "read"
    /\ ~Recoverable(wal)
    /\ Release
    /\ UNCHANGED <<files, live, outcome, ghosts, bounds>>

\* Recovered or Noop, or RecoveryFailed: a backup or an activation then stops.
Recovered ==
    /\ pc = "undo" /\ script = <<>>
    /\ op \in {"recover", "activate"}
    /\ IF op = "activate" /\ ~bad
         THEN Goto("inspect") /\ UNCHANGED locals
         ELSE Release
    /\ UNCHANGED <<files, live, outcome, ghosts, bounds>>

-----------------------------------------------------------------------------
(***************************************************************************)
(* Replay keys: consumed after the Commit, then recorded in the log.       *)
(***************************************************************************)

\* pending_effect_replay_commits_under_lock
Inspect ==
    /\ pc = "inspect"
    /\ wal' = Repaired(wal)
    /\ \E rs \in {RecordsOf(wal')} :
         IF Strict(wal') /\ Consistent(rs)
           THEN todo' = Pending(rs) /\ Goto("reconcile")
                /\ UNCHANGED <<exec, at, saved, tx, script, ok, bad>>
           ELSE Release
    /\ UNCHANGED <<content, consumed, live, outcome, ghosts, bounds>>

\* The next transaction to reconcile.
Reconcile ==
    /\ pc = "reconcile"
    /\ \E i \in todo : tx' = i /\ todo' = todo \ {i}
    /\ Goto("consume")
    /\ UNCHANGED <<files, live, exec, at, saved, script, ok, bad, outcome, ghosts, bounds>>

\* All is reconciled: the host serves.
Activated ==
    /\ pc = "reconcile" /\ todo = {}
    /\ live' = live \cup {holder}
    /\ Release
    /\ UNCHANGED <<files, outcome, ghosts, bounds>>

\* Consuming a consumed key again changes nothing.
ConsumeReplay ==
    /\ pc = "consume"
    /\ consumed' = consumed \cup {tx}
    /\ Goto("complete")
    /\ UNCHANGED <<content, wal, live, locals, outcome, ghosts, bounds>>

\* The outcome stays Applied, EffectCommittedReplayPending; an activation stops.
ConsumeReplayFails ==
    /\ pc = "consume"
    /\ consumed' \in {consumed, consumed \cup {tx}}
    /\ Fault
    /\ Release
    /\ UNCHANGED <<content, wal, live, outcome, ghosts>>

\* append_effect_replay_completion_under_lock wants the transaction pending.
Completable(w) ==
    Strict(w) /\ \E rs \in {RecordsOf(w)} : Consistent(rs) /\ tx \in Pending(rs)

LogCompletion ==
    LET w == Repaired(wal) IN
    /\ pc = "complete"
    /\ Completable(w)
    /\ wal' = Write(w, Marker(tx, "ReplayConsumed"), "full")
    /\ IF op = "activate"
         THEN Goto("reconcile") /\ UNCHANGED locals
         ELSE Release
    /\ UNCHANGED <<content, consumed, live, outcome, ghosts, bounds>>

LogCompletionFails ==
    LET w == Repaired(wal) IN
    /\ pc = "complete"
    /\ \/ ~Completable(w) /\ wal' = w /\ UNCHANGED bounds
       \/ /\ Completable(w)
          /\ \E cut \in Cuts : wal' = Write(w, Marker(tx, "ReplayConsumed"), cut)
          /\ Fault
    /\ Release
    /\ UNCHANGED <<content, consumed, live, outcome, ghosts>>

-----------------------------------------------------------------------------
(***************************************************************************)
(* compact_effect_wal: the log is replaced by what it still needs. Its     *)
(* manifest is only a notice.                                              *)
(***************************************************************************)

Compact(p) ==
    /\ "compact" \in OpsOf[p]
    /\ holder = NoProc
    /\ Parses(wal)
    /\ Retained(RecordsOf(wal)) # RecordsOf(wal)
    /\ wal' = [lines |-> Retained(RecordsOf(wal)), ended |-> TRUE]
    /\ UNCHANGED <<content, consumed, live, control, locals, outcome, ghosts, bounds>>

-----------------------------------------------------------------------------

\* What the holder is appending, if anything.
Appending ==
    IF pc \in {"begin", "image", "written", "commit"} THEN {NextRecord}
    ELSE IF Marking /\ (ok \/ Current.always) THEN {Current.mark}
    ELSE IF pc = "complete" /\ Completable(Repaired(wal)) THEN {Marker(tx, "ReplayConsumed")}
    ELSE {}

\* A Commit is in the log although its append failed, and nothing of the
\* execution has been taken back yet.
CommitLanded ==
    /\ pc = "undo" /\ op \in {"execute", "commit"}
    /\ Has(RecordsOf(wal), Id, {"Commit"})
    /\ content = Overlay(content, exec)

\* A process dies, perhaps in the middle of an append. A Commit that is in the
\* log counts.
Crash(p) ==
    /\ p \in live \cup {holder}
    /\ crashes < MaxCrashes
    /\ crashes' = crashes + 1
    /\ live' = live \ {p}
    /\ IF holder # p
         THEN UNCHANGED <<wal, consumed, outcome, ghosts, control, locals>>
         ELSE /\ \/ wal' = wal /\ IF CommitLanded THEN Ack ELSE UNCHANGED ghosts
                 \/ \E r \in Appending, cut \in Cuts \ {"nothing"} :
                      /\ wal' = Write(IF pc = "complete" THEN Repaired(wal) ELSE wal, r, cut)
                      /\ IF r.stage = "Commit" /\ cut # "part" THEN Ack
                                                              ELSE UNCHANGED ghosts
              /\ \/ UNCHANGED consumed
                 \/ pc = "consume" /\ consumed' = consumed \cup {tx}
              /\ outcome' = [e \in Execs |->
                    IF outcome[e] = "running" THEN "lost" ELSE outcome[e]]
              /\ Release
    /\ UNCHANGED <<content, commanded, faults>>

\* A step of the lock's holder that succeeds, or fails because of what it reads.
HolderStep ==
    \/ Capture \/ Blocked \/ LogBegin \/ LogBeforeImage \/ ApplyWrite
    \/ LogWriteApplied \/ LogCommit
    \/ Restore \/ LogMark \/ SkipMark \/ RolledBack
    \/ Repair \/ ReadWal \/ ReadWalFails \/ Recovered
    \/ Inspect \/ Reconcile \/ Activated \/ ConsumeReplay \/ LogCompletion

Failure ==
    \/ LogBeginFails \/ LogBeforeImageFails \/ LogWriteAppliedFails \/ LogCommitFails
    \/ ApplyWriteFails \/ RestoreFails \/ LogMarkFails \/ RepairFails
    \/ ConsumeReplayFails \/ LogCompletionFails

Next ==
    \/ \E p \in Procs, e \in Execs : StartCommand(p, e) \/ StartCommit(p, e) \/ LockTimeout(p, e)
    \/ \E p \in Procs : StartRecovery(p) \/ StartActivation(p) \/ Compact(p) \/ Crash(p)
    \/ HolderStep
    \/ Failure

Spec == Init /\ [][Next]_vars

\* The holder of the lock goes on, and a host that is down is started again.
FairSpec ==
    /\ Spec
    /\ WF_vars(HolderStep \/ LogCompletionFails)
    /\ \A p \in Procs : WF_vars(StartActivation(p))

-----------------------------------------------------------------------------
(***************************************************************************)
(* Properties.                                                             *)
(***************************************************************************)

\* Whatever fails, the status tells the truth: Applied means that all targets
\* have their new content, RolledBack that all have the one they had before,
\* Blocked that none was touched.
HonestOutcome ==
    [][\A e \in Execs :
        outcome[e] = "running" =>
            CASE outcome'[e] = "Applied" -> content' = Overlay(content', e)
              [] outcome'[e] = "RolledBack" ->
                    \A w \in Range(Writes[e]) : content'[w.file] = saved[w.file]
              [] outcome'[e] = "Blocked" -> \A f \in Files : content'[f] # e
              [] OTHER -> TRUE]_vars

\* What the guarantees below need: no append failed with part of a record in the
\* log, and no command, which does not recover first, ran where processes die.
Sheltered == faults = 0 /\ (crashes = 0 \/ ~commanded)

\* All or nothing: when nobody is at work and the log can be read and holds
\* no interrupted transaction, the targets are what the committed executions
\* left, and nothing of any other.
QuietIsCommitted ==
    Sheltered /\ holder = NoProc
    /\ Recoverable(wal) /\ Incomplete(RecordsOf(wal)) = <<>>
        => content = truth

\* The recovery never takes back what a committed execution left, while no append
\* fails and no command runs where processes die.
RecoveryKeepsCommitted ==
    [][\A f \in Files :
        Sheltered /\ op \in {"recover", "activate"} /\ content[f] = truth[f]
            => content'[f] = content[f]]_vars

\* "Losing the RollbackComplete marker would cause the next recovery pass to undo
\* work that was already committed": hosts, which recover first, keep committed
\* work also when an append fails.
RecoveryNeverUndoes ==
    [][\A f \in Files :
        op \in {"recover", "activate"} /\ content[f] = truth[f]
            => content'[f] = content[f]]_vars

\* A replay key is consumed only for an execution that is committed, and then
\* the execution never counts as rolled back; a failing append excepted, whose
\* record may be in the log all the same.
NoAmbiguousSuccess ==
    \A e \in Execs :
        faults = 0 /\ IdOf[e] \in consumed => e \in acked /\ outcome[e] # "RolledBack"

\* A target that is undone has its original content, or the one the undone
\* transaction gave it: the branch that refuses to restore is never taken.
RollbackIsExact == Restoring => content[Current.file] \in Current.from

\* A committed prepared execution ends up with its replay key consumed and
\* the completion recorded, wherever the host died in between.
EveryCommitCompletes ==
    \A e \in Execs : e \in acked ~> Has(RecordsOf(wal), IdOf[e], {"ReplayConsumed"})

=============================================================================
