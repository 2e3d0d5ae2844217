------------------------------ MODULE ReplayStore ------------------------------
(***************************************************************************)
(* The replay WAL (replay_wal.rs), the anchor an operator keeps outside    *)
(* the state root to notice a state root that was put back                 *)
(* (replay_anchor.rs), and the trusted MCP hosts that start up, execute    *)
(* calls and answer them over both (trusted_runtime.rs).                   *)
(*                                                                         *)
(* Processes meet at three locks.  The producer boundary lets shared       *)
(* holders in together and an effect holder in alone; the replay lock is   *)
(* kept from the guard to the consume; the anchor lock is kept from the    *)
(* comparison to the replacement.  Who holds what follows from where each  *)
(* process is.  The effect transaction itself is module EffectWal's: here  *)
(* it is one step that commits or does not.                                *)
(***************************************************************************)
EXTENDS Integers, SequencesExt

CONSTANTS
    Hosts,            \* trusted MCP servers of one deployment
    Operators,        \* processes that run forge-core mcp replay-anchor
    Keys,             \* nonce key hashes: one per signed call
    AdvanceRetries,   \* ADVANCE_RETRIES
    MaxRecords,       \* REPLAY_WAL_MAX_RECORDS
    MaxCalls,         \* bound on calls handed to the hosts
    MaxCommands,      \* bound on the operators' commands
    MaxCrashes,       \* bound on processes that die
    MaxFaults,        \* bound on I/O errors
    MaxRestores       \* bound on state roots put back

ASSUME ReplayStoreAssumption ==
    /\ Hosts \cap Operators = {}
    /\ {AdvanceRetries, MaxRecords} \subseteq Nat \ {0}
    /\ {MaxCalls, MaxCommands, MaxCrashes, MaxFaults, MaxRestores} \subseteq Nat

VARIABLES
    files,      \* how far initialisation got: "none", "wal", "torn" (manifest), "ready"
    log,        \* the complete records of the replay WAL
    tail,       \* what follows them: "clean", "torn", or "corrupt" once records follow a tear
    fx,         \* what the effect WAL says of each key's transaction
    anchor,     \* the anchor file: its state and the WAL it vouches for
    proc,       \* what each process is doing
    acked,      \* the keys whose call was answered Applied
    done,       \* how often each key's effect was committed
    restored,   \* was the state root ever put back?
    alarmed,    \* did a process report a rollback or a divergence?
    spent       \* calls, commands, crashes, faults and restores so far

vars == <<files, log, tail, fx, anchor, proc, acked, done, restored, alarmed, spent>>
disk == <<files, log, tail, fx>>
ghosts == <<acked, done, restored, alarmed>>

-----------------------------------------------------------------------------
Procs == Hosts \cup Operators

Record(n, o, k) == [seq |-> n, op |-> o, key |-> k]

NoAnchor == [state |-> "absent", head |-> <<>>]

\* stage: what an advance of the anchor is part of; head: the captured WAL, or
\* for verify the anchored one; ok: the call committed, consumed and completed.
Rest(p) == [pc |-> IF p \in Hosts THEN "down" ELSE "idle", stage |-> "none",
            key |-> "none", head |-> <<>>, tries |-> 0, ok |-> FALSE]

Init ==
    /\ files = "none"
    /\ log = <<>>
    /\ tail = "clean"
    /\ fx = [k \in Keys |-> "none"]
    /\ anchor = NoAnchor
    /\ proc = [p \in Procs |-> Rest(p)]
    /\ acked = {}
    /\ done = [k \in Keys |-> 0]
    /\ restored = FALSE
    /\ alarmed = FALSE
    /\ spent = [calls |-> 0, commands |-> 0, crashes |-> 0, faults |-> 0, restores |-> 0]

Spend(what, max) ==
    /\ spent[what] < max
    /\ spent' = [spent EXCEPT ![what] = @ + 1]

Set(p, r) == proc' = [proc EXCEPT ![p] = r]

Goto(p, pc) == Set(p, [proc[p] EXCEPT !.pc = pc])

-----------------------------------------------------------------------------
(***************************************************************************)
(* Locks.                                                                  *)
(***************************************************************************)
Shared == {"capture", "compare", "replace", "create", "manifest"}

Guarded == {"late", "commit", "consume"}

Effect == Guarded \cup {"reserve", "guard", "complete", "settle", "settled"}

\* admit_producer: other shared holders do not matter.
CanAdmit(p) == \A q \in Procs \ {p} : proc[q].pc \notin Effect

CanAdmitEffectEarly(p) == \A q \in Procs \ {p} : proc[q].pc \notin Effect

\* admit_effect_producer: alone.
CanAdmitEffect(p) == \A q \in Procs \ {p} : proc[q].pc \notin Effect \cup Shared

\* acquire_replay_wal_retained_lock: a blocking lock.
ReplayLockFree(p) == \A q \in Procs \ {p} : proc[q].pc \notin Guarded \cup {"manifest"}

AnchorLockFree(p) == \A q \in Procs \ {p} : proc[q].pc \notin {"replace", "create"}

-----------------------------------------------------------------------------
(***************************************************************************)
(* The replay WAL.                                                         *)
(***************************************************************************)
Has(s, o, k) == \E i \in DOMAIN s : s[i].op = o /\ s[i].key = k

\* apply_record: a key is reserved once, then consumed once.
AppliesTo(r, s) ==
    IF r.op = "Reserve" THEN ~ Has(s, "Reserve", r.key)
                        ELSE Has(s, "Reserve", r.key) /\ ~ Has(s, "Consume", r.key)

\* decode_prefix reads s to its end.
Decodes(s) ==
    /\ Len(s) <= MaxRecords
    /\ \A i \in DOMAIN s : s[i].seq = i /\ AppliesTo(s[i], SubSeq(s, 1, i - 1))

\* Recovery with repair leaves a WAL that can be appended to: a torn tail is cut
\* off, anything else stops it.
Appendable == files = "ready" /\ tail # "corrupt" /\ Decodes(log)

\* is_clean without repair.
Readable == Appendable /\ tail = "clean"

\* ensure_append_capacity.
HasRoom == Len(log) + 1 <= MaxRecords

NextRecord(o, k) == Record(Len(log) + 1, o, k)

\* append_wal at the end of the file as it is.
Append1(r, t) ==
    /\ log' = IF t = "clean" THEN Append(log, r) ELSE log
    /\ tail' = IF t = "clean" THEN "clean" ELSE "corrupt"

\* An append that fails leaves nothing or the beginning of a record.
AppendFails(t) ==
    /\ tail' \in IF t = "clean" THEN {"clean", "torn"} ELSE {"corrupt"}
    /\ UNCHANGED log

-----------------------------------------------------------------------------
(***************************************************************************)
(* Initialising the replay WAL: the empty WAL first, then the manifest.    *)
(* One without the other is refused for ever.                              *)
(***************************************************************************)
InitializeReplayWal(p) ==
    /\ proc[p].pc = "idle"
    /\ CanAdmit(p) /\ ReplayLockFree(p)
    /\ Spend("commands", MaxCommands)
    /\ IF files = "none"
         THEN files' = "wal" /\ Goto(p, "manifest")
         ELSE UNCHANGED <<files, proc>>
    /\ UNCHANGED <<log, tail, fx, anchor, ghosts>>

WriteManifest(p) ==
    /\ proc[p].pc = "manifest"
    /\ files' = "ready"
    /\ Goto(p, "idle")
    /\ UNCHANGED <<log, tail, fx, anchor, ghosts, spent>>

-----------------------------------------------------------------------------
(***************************************************************************)
(* The anchor.                                                             *)
(***************************************************************************)
\* compare_anchor: the current WAL is shorter than the anchored one, or does not
\* begin with it.
RolledBack(anchored, current) == Len(current) < Len(anchored)

Diverged(anchored, current) == ~ RolledBack(anchored, current) /\ ~ IsPrefix(anchored, current)

\* Where a host or an operator goes on after an advance that succeeded or failed.
\* A host that fails to start exits; a call goes on, is rejected or is answered.
Resume(p, advanced) ==
    LET me == proc[p]
    IN  CASE me.stage = "starting" -> IF advanced THEN [me EXCEPT !.pc = "repair"] ELSE Rest(p)
          [] me.stage = "settling" -> IF advanced THEN [Rest(p) EXCEPT !.pc = "active"] ELSE Rest(p)
          [] me.stage = "before"   -> IF advanced THEN [me EXCEPT !.pc = "prepare"]
                                                  ELSE [Rest(p) EXCEPT !.pc = "active"]
          [] me.stage = "after"    -> [Rest(p) EXCEPT !.pc = "active"]
          [] OTHER                 -> Rest(p)

\* A call is answered Applied when it went through and so did the advance after it.
Answer(p, advanced) ==
    acked' = IF proc[p].stage = "after" /\ advanced /\ proc[p].ok
               THEN acked \cup {proc[p].key} ELSE acked

EndAdvance(p, advanced) ==
    /\ Set(p, Resume(p, advanced))
    /\ Answer(p, advanced)

\* advance_replay_anchor_inner takes a producer admission for all its attempts.
AdmitAdvance(p) ==
    /\ proc[p].pc = "admit"
    /\ CanAdmit(p)
    /\ Goto(p, "capture")
    /\ UNCHANGED <<disk, anchor, ghosts, spent>>

\* capture_replay_head_with_bytes: under the replay lock, without repair.
CaptureHead(p) ==
    /\ proc[p].pc = "capture"
    /\ ReplayLockFree(p)
    /\ IF Readable
         THEN /\ Set(p, [proc[p] EXCEPT !.pc = "compare", !.head = log])
              /\ UNCHANGED acked
         ELSE EndAdvance(p, FALSE)
    /\ UNCHANGED <<disk, anchor, done, restored, alarmed, spent>>

\* attempt + 1 < ADVANCE_RETRIES
MayRetry(p) == proc[p].tries + 1 < AdvanceRetries

\* The anchor may be ahead of a WAL captured before the lock: capture again.
CompareAnchor(p) ==
    LET me == proc[p]
    IN  /\ me.pc = "compare" /\ me.stage # "provision"
        /\ AnchorLockFree(p)
        /\ IF anchor.state # "ok"
             THEN EndAdvance(p, FALSE) /\ UNCHANGED alarmed
           ELSE IF RolledBack(anchor.head, me.head) /\ MayRetry(p)
             THEN /\ Set(p, [me EXCEPT !.pc = "capture", !.tries = @ + 1])
                  /\ UNCHANGED <<acked, alarmed>>
           ELSE IF RolledBack(anchor.head, me.head) \/ Diverged(anchor.head, me.head)
             THEN EndAdvance(p, FALSE) /\ alarmed' = TRUE
           ELSE IF me.head = anchor.head
             THEN EndAdvance(p, TRUE) /\ UNCHANGED alarmed
           ELSE Goto(p, "replace") /\ UNCHANGED <<acked, alarmed>>
        /\ UNCHANGED <<disk, anchor, done, restored, spent>>

\* write_anchor_replace: a new file, then a rename, so the old anchor stays whole.
ReplaceAnchor(p) ==
    /\ proc[p].pc = "replace"
    /\ anchor' = [anchor EXCEPT !.head = proc[p].head]
    /\ EndAdvance(p, TRUE)
    /\ UNCHANGED <<disk, done, restored, alarmed, spent>>

ReplaceFails(p) ==
    /\ proc[p].pc = "replace"
    /\ Spend("faults", MaxFaults)
    /\ EndAdvance(p, FALSE)
    /\ UNCHANGED <<disk, anchor, done, restored, alarmed>>

\* The operator's commands.  provision captures the head before it takes the lock.
StartCommand(p, what) ==
    /\ proc[p].pc = "idle"
    /\ Spend("commands", MaxCommands)
    /\ Set(p, [proc[p] EXCEPT !.pc = IF what = "verify" THEN "read" ELSE "admit", !.stage = what])
    /\ UNCHANGED <<disk, anchor, ghosts>>

\* An anchor that exists, whole or not, is never written over.
ProvisionAnchor(p) ==
    /\ proc[p].pc = "compare" /\ proc[p].stage = "provision"
    /\ AnchorLockFree(p)
    /\ IF anchor.state # "absent" THEN Set(p, Rest(p)) ELSE Goto(p, "create")
    /\ UNCHANGED <<disk, anchor, ghosts, spent>>

CreateAnchor(p) ==
    /\ proc[p].pc = "create"
    /\ anchor' = [state |-> "ok", head |-> proc[p].head]
    /\ Set(p, Rest(p))
    /\ UNCHANGED <<disk, ghosts, spent>>

\* verify_replay_anchor reads the anchor with no lock, then the WAL.
ReadAnchor(p) ==
    /\ proc[p].pc = "read"
    /\ Set(p, IF anchor.state = "ok"
                THEN [proc[p] EXCEPT !.pc = "check", !.head = anchor.head] ELSE Rest(p))
    /\ UNCHANGED <<disk, anchor, ghosts, spent>>

CheckHead(p) ==
    /\ proc[p].pc = "check"
    /\ CanAdmit(p) /\ ReplayLockFree(p)
    /\ alarmed' = (alarmed \/ (Readable /\ ~ IsPrefix(proc[p].head, log)))
    /\ Set(p, Rest(p))
    /\ UNCHANGED <<disk, anchor, acked, done, restored, spent>>

-----------------------------------------------------------------------------
(***************************************************************************)
(* A host starts: advance the anchor, repair the WAL, finish what committed*)
(* without being consumed, advance the anchor again.                       *)
(***************************************************************************)
\* A start without a whole anchor fails at once and changes nothing.
StartHost(h) ==
    /\ proc[h].pc = "down"
    /\ anchor.state = "ok"
    /\ Set(h, [proc[h] EXCEPT !.pc = "admit", !.stage = "starting"])
    /\ UNCHANGED <<disk, anchor, ghosts, spent>>

\* recover_replay_wal(.., true)
RepairLog(h) ==
    /\ proc[h].pc = "repair"
    /\ CanAdmit(h) /\ ReplayLockFree(h)
    /\ IF Appendable
         THEN tail' = "clean" /\ Goto(h, "reconcile")
         ELSE Set(h, Rest(h)) /\ UNCHANGED tail
    /\ UNCHANGED <<files, log, fx, anchor, ghosts, spent>>

\* reconcile_prepared_execution_commits takes the boundary and the effect lock.
BeginReconcile(h) ==
    /\ proc[h].pc = "reconcile"
    /\ CanAdmitEffect(h)
    /\ Goto(h, "settle")
    /\ UNCHANGED <<disk, anchor, ghosts, spent>>

Pending == {k \in Keys : fx[k] = "committed"}

\* consume_replay_key_hash_under_effect_lock: a missing reservation or a full WAL
\* ends the start; a consumed key stays consumed.
SettleConsume(h) ==
    \E k \in Pending :
        /\ proc[h].pc = "settle"
        /\ IF ~ Appendable \/ ~ Has(log, "Reserve", k)
             THEN Set(h, Rest(h)) /\ UNCHANGED <<log, tail>>
           ELSE IF Has(log, "Consume", k)
             THEN /\ tail' = "clean" /\ UNCHANGED log
                  /\ Set(h, [proc[h] EXCEPT !.pc = "settled", !.key = k])
           ELSE IF ~ HasRoom
             THEN tail' = "clean" /\ UNCHANGED log /\ Set(h, Rest(h))
           ELSE /\ Append1(NextRecord("Consume", k), "clean")
                /\ Set(h, [proc[h] EXCEPT !.pc = "settled", !.key = k])
        /\ UNCHANGED <<files, fx, anchor, ghosts, spent>>

SettleFails(h) ==
    /\ \/ /\ proc[h].pc = "settle" /\ Appendable /\ HasRoom
          /\ \E k \in Pending : Has(log, "Reserve", k) /\ ~ Has(log, "Consume", k)
          /\ AppendFails("clean")
       \/ proc[h].pc = "settled" /\ UNCHANGED <<log, tail>>
    /\ Spend("faults", MaxFaults)
    /\ Set(h, Rest(h))
    /\ UNCHANGED <<files, fx, anchor, ghosts>>

SettleComplete(h) ==
    /\ proc[h].pc = "settled"
    /\ fx' = [fx EXCEPT ![proc[h].key] = "completed"]
    /\ Goto(h, "settle")
    /\ UNCHANGED <<files, log, tail, anchor, ghosts, spent>>

EndReconcile(h) ==
    /\ proc[h].pc = "settle" /\ Pending = {}
    /\ Goto(h, "recheck")
    /\ UNCHANGED <<disk, anchor, ghosts, spent>>

\* recover_replay_wal(.., false), then the second advance.
RecheckLog(h) ==
    /\ proc[h].pc = "recheck"
    /\ CanAdmit(h) /\ ReplayLockFree(h)
    /\ Set(h, IF Readable THEN [Rest(h) EXCEPT !.pc = "admit", !.stage = "settling"] ELSE Rest(h))
    /\ UNCHANGED <<disk, anchor, ghosts, spent>>

-----------------------------------------------------------------------------
(***************************************************************************)
(* A call: advance the anchor, reserve the nonce, hold the replay lock     *)
(* over late admission, effect commit and consume, complete, advance the   *)
(* anchor, answer.                                                         *)
(***************************************************************************)
Call(h, k) ==
    /\ proc[h].pc = "active"
    /\ Spend("calls", MaxCalls)
    /\ Set(h, [proc[h] EXCEPT !.pc = "admit", !.stage = "before", !.key = k])
    /\ UNCHANGED <<disk, anchor, ghosts>>

Prepare(h) ==
    /\ proc[h].pc = "prepare"
    /\ CanAdmitEffect(h)
    /\ Goto(h, "reserve")
    /\ UNCHANGED <<disk, anchor, ghosts, spent>>

\* Whatever came of the call, the guards are dropped and the anchor is advanced.
EndCall(h, applied) ==
    Set(h, [proc[h] EXCEPT !.pc = "admit", !.stage = "after", !.head = <<>>,
                           !.tries = 0, !.ok = applied])

ReserveUnrepaired(h) ==
    /\ proc[h].pc = "reserve"
    /\ ReplayLockFree(h)
    /\ IF ~ Appendable \/ Has(log, "Reserve", proc[h].key) \/ ~ HasRoom
         THEN EndCall(h, FALSE) /\ UNCHANGED <<log, tail>>
         ELSE /\ Append1(NextRecord("Reserve", proc[h].key), tail)
              /\ Goto(h, "guard")
    /\ UNCHANGED <<files, fx, anchor, ghosts, spent>>

ReserveAgain(h) ==
    /\ proc[h].pc = "reserve"
    /\ ReplayLockFree(h)
    /\ IF ~ Appendable \/ Has(log, "Consume", proc[h].key) \/ ~ HasRoom
         THEN EndCall(h, FALSE) /\ UNCHANGED <<log, tail>>
       ELSE IF Has(log, "Reserve", proc[h].key)
         THEN Goto(h, "guard") /\ tail' = "clean" /\ UNCHANGED log
       ELSE /\ Append1(NextRecord("Reserve", proc[h].key), "clean")
            /\ Goto(h, "guard")
    /\ UNCHANGED <<files, fx, anchor, ghosts, spent>>

\* reserve_replay_nonce_under_effect_lock: a key seen before is refused for ever.
ReserveNonce(h) ==
    LET k == proc[h].key
    IN  /\ proc[h].pc = "reserve"
        /\ ReplayLockFree(h)
        /\ IF ~ Appendable
             THEN EndCall(h, FALSE) /\ UNCHANGED <<log, tail>>
           ELSE IF Has(log, "Reserve", k) \/ ~ HasRoom
             THEN EndCall(h, FALSE) /\ tail' = "clean" /\ UNCHANGED log
           ELSE /\ Append1(NextRecord("Reserve", k), "clean")
                /\ Goto(h, "guard")
        /\ UNCHANGED <<files, fx, anchor, ghosts, spent>>

ReserveFails(h) ==
    /\ proc[h].pc = "reserve"
    /\ ReplayLockFree(h)
    /\ Appendable /\ ~ Has(log, "Reserve", proc[h].key) /\ HasRoom
    /\ Spend("faults", MaxFaults)
    /\ AppendFails("clean")
    /\ EndCall(h, FALSE)
    /\ UNCHANGED <<files, fx, anchor, ghosts>>

\* acquire_owned_replay_commit_guard: the room for the consume record is checked
\* before anything else happens.
TakeGuard(h) ==
    LET k == proc[h].key
    IN  /\ proc[h].pc = "guard"
        /\ ReplayLockFree(h)
        /\ tail' = IF Appendable THEN "clean" ELSE tail
        /\ IF Appendable /\ Has(log, "Reserve", k) /\ ~ Has(log, "Consume", k) /\ HasRoom
             THEN Set(h, [proc[h] EXCEPT !.pc = "late", !.head = <<NextRecord("Consume", k)>>])
             ELSE EndCall(h, FALSE)
        /\ UNCHANGED <<files, log, fx, anchor, ghosts, spent>>

\* evaluate_late, and again at commit: Blocked leaves the nonce reserved.
LateAdmission(h) ==
    /\ proc[h].pc = "late"
    /\ Goto(h, "commit") \/ EndCall(h, FALSE)
    /\ UNCHANGED <<disk, anchor, ghosts, spent>>

\* apply_file_effect_transaction_with_provenance_under_lock: committed, or not.
CommitEffect(h) ==
    /\ proc[h].pc = "commit"
    /\ \/ /\ fx' = [fx EXCEPT ![proc[h].key] = "committed"]
          /\ done' = [done EXCEPT ![proc[h].key] = @ + 1]
          /\ Goto(h, "consume")
       \/ EndCall(h, FALSE) /\ UNCHANGED <<fx, done>>
    /\ UNCHANGED <<files, log, tail, anchor, acked, restored, alarmed, spent>>

\* consume_retaining_effect_lock appends the record built under the guard.
ConsumeNonce(h) ==
    /\ proc[h].pc = "consume"
    /\ Append1(Head(proc[h].head), tail)
    /\ Goto(h, "complete")
    /\ UNCHANGED <<files, fx, anchor, ghosts, spent>>

\* EffectCommittedReplayPending
ConsumeFails(h) ==
    /\ proc[h].pc = "consume"
    /\ Spend("faults", MaxFaults)
    /\ AppendFails(tail)
    /\ EndCall(h, FALSE)
    /\ UNCHANGED <<files, fx, anchor, ghosts>>

\* append_effect_replay_completion_under_lock
CompleteCall(h) ==
    /\ proc[h].pc = "complete"
    /\ fx' = [fx EXCEPT ![proc[h].key] = "completed"]
    /\ EndCall(h, TRUE)
    /\ UNCHANGED <<files, log, tail, anchor, ghosts, spent>>

\* EffectCommittedCompletionPending
CompleteFails(h) ==
    /\ proc[h].pc = "complete"
    /\ Spend("faults", MaxFaults)
    /\ EndCall(h, FALSE)
    /\ UNCHANGED <<disk, anchor, ghosts>>

-----------------------------------------------------------------------------
(***************************************************************************)
(* Faults.                                                                 *)
(***************************************************************************)
\* A process dies: its locks are gone, and a file it was writing may be cut.
Die(p) ==
    LET pc == proc[p].pc
    IN  /\ pc \notin {"idle", "down"}
        /\ Spend("crashes", MaxCrashes)
        /\ Set(p, Rest(p))
        /\ IF pc \in {"reserve", "consume"}
                \/ (pc = "settle" /\ \E k \in Pending : ~ Has(log, "Consume", k))
             THEN tail' \in {tail, IF tail = "clean" THEN "torn" ELSE tail}
             ELSE UNCHANGED tail
        /\ files' \in IF pc = "manifest" THEN {files, "torn"} ELSE {files}
        /\ anchor' \in IF pc = "create" THEN {anchor, [NoAnchor EXCEPT !.state = "torn"]} ELSE {anchor}
        /\ UNCHANGED <<log, fx, ghosts>>

\* Someone puts an earlier copy of the state root back while nothing runs: the WAL
\* is as it was n records in, and the effect WAL as it was at some point then.
RestoreStateRoot ==
    /\ \A p \in Procs : proc[p].pc \in {"down", "idle"}
    /\ files = "ready"
    /\ Spend("restores", MaxRestores)
    /\ \E n \in 0 .. Len(log) :
         LET old == SubSeq(log, 1, n)
         IN  /\ log' = old
             /\ fx' \in {f \in [Keys -> {"none", "committed", "completed"}] :
                          \A k \in Keys :
                            IF ~ Has(old, "Reserve", k) THEN f[k] = "none"
                            ELSE IF ~ Has(old, "Consume", k)
                              THEN f[k] \in {"none", IF fx[k] = "none" THEN "none" ELSE "committed"}
                            ELSE f[k] \in {"committed", fx[k]}}
    /\ tail' = "clean"
    /\ restored' = TRUE
    /\ UNCHANGED <<files, anchor, proc, acked, done, alarmed>>

-----------------------------------------------------------------------------
Advance(p) ==
    \/ AdmitAdvance(p) \/ CaptureHead(p) \/ CompareAnchor(p) \/ ReplaceAnchor(p) \/ ReplaceFails(p)

Command(p) ==
    \/ InitializeReplayWal(p) \/ WriteManifest(p)
    \/ \E what \in {"advance", "verify", "provision"} : StartCommand(p, what)
    \/ ProvisionAnchor(p) \/ CreateAnchor(p)
    \/ ReadAnchor(p) \/ CheckHead(p)

Activate(h) ==
    \/ StartHost(h) \/ RepairLog(h) \/ BeginReconcile(h) \/ SettleConsume(h) \/ SettleFails(h)
    \/ SettleComplete(h) \/ EndReconcile(h) \/ RecheckLog(h)

Execute(h) ==
    \/ \E k \in Keys : Call(h, k)
    \/ Prepare(h) \/ ReserveNonce(h) \/ ReserveFails(h) \/ TakeGuard(h) \/ LateAdmission(h)
    \/ CommitEffect(h) \/ ConsumeNonce(h) \/ ConsumeFails(h) \/ CompleteCall(h) \/ CompleteFails(h)

Next ==
    \/ \E p \in Procs : Advance(p) \/ Die(p)
    \/ \E p \in Operators : Command(p)
    \/ \E h \in Hosts : Activate(h) \/ Execute(h)
    \/ RestoreStateRoot

Spec == Init /\ [][Next]_vars

-----------------------------------------------------------------------------
(***************************************************************************)
(* Properties.                                                             *)
(***************************************************************************)
\* The replay WAL can always be read back: sequence numbers without gaps, each key
\* reserved and then consumed at most once, within the capacity that recovery
\* accepts, and no record after the stump of another. In particular the record a
\* commit guard builds early is still the right one when it is appended.
LogReadable == tail # "corrupt" /\ Decodes(log)

\* A signed call takes effect at most once, whatever crashes, fails or is called
\* again; and a call that was answered Applied takes no effect again even after
\* someone puts an old state root back.
NoReexecution ==
    [][\A k \in Keys : done'[k] # done[k] => k \notin acked /\ (done[k] = 0 \/ restored)]_done

\* Whoever compares WAL and anchor while hosts are working never reports a
\* rollback or a divergence that did not happen.
NoFalseAlarm == alarmed => restored

================================================================================
