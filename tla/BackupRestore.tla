---------------------------- MODULE BackupRestore ----------------------------
(***************************************************************************)
(* Backup and restore of a project (crates/forge-core-store/src/backup.rs  *)
(* and restore.rs) with the replay anchor that outlives the project's      *)
(* state root, and a host that keeps using that root: it appends to the    *)
(* replay WAL and advances the anchor, which is its promise that the calls *)
(* up to there are never forgotten.                                        *)
(*                                                                         *)
(* A state root is its replay WAL, a number of calls; an archive is named  *)
(* by the WAL it holds, and so is the manifest its receipt is kept under.  *)
(* The project is backed up and lost, and restore processes try to bring   *)
(* it back, one step at a time: each step may fail, and each process may   *)
(* die, between any two of them.                                           *)
(*                                                                         *)
(* The producer boundary is HostQuiescence. Its locks are in the state     *)
(* root, so they come into being with the tree that is published, and      *)
(* leave with one that is isolated. The restore transaction lock is taken  *)
(* right after the anchor's lock and released with it by the same callers; *)
(* here they are one. Left out: members of the archive other than the WAL  *)
(* (their number is kept), signatures, registries, and parties that        *)
(* tamper with files.                                                      *)
(***************************************************************************)
EXTENDS Naturals, FiniteSets

CONSTANTS
    Procs,
    Calls,          \* what each process may be asked to do
    Members,        \* the number of members of an archive
    MaxWal,         \* the capacity of the replay WAL
    MaxCalls, MaxCrashes, MaxFaults,
    NoProc

Ops == {"host", "backup", "restore"}

ASSUME ProcsAssumption == NoProc \notin Procs
ASSUME CallsAssumption == Calls \in [Procs -> SUBSET Ops]
ASSUME BoundsAssumption ==
    Members \in Nat \ {0} /\ {MaxWal, MaxCalls, MaxCrashes, MaxFaults} \subseteq Nat

VARIABLES
    held, closer,   \* the producer boundary of the destination (HostQuiescence)
    anchor,         \* the calls that the protected anchor vouches for
    anchorLock,     \* who has its lock
    dest, staging,  \* what is at the destination's name, and at the staging name
    archive,        \* the archive at the backup's name, if any
    vouched,        \* the manifests with a backup receipt
    paper,          \* the protected documents of the restore, by operation
    pc, op, reply,
    seen,           \* the WAL that a process captured, or read from the archive
    nonce,          \* the operation it works for
    calls, crashes, faults,
    lost,           \* the project has been lost
    base,           \* ghost: the anchor when it was
    orphaned        \* ghost: a restore died, or could not isolate, an uncertified tree

boundary == <<held, closer>>
project == <<dest, staging>>
backups == <<archive, vouched>>
locals == <<seen, nonce>>
history == <<calls, crashes, faults, lost, base, orphaned>>
vars == <<boundary, anchor, anchorLock, project, backups, paper, pc, op, reply,
          locals, history>>

Boundary == INSTANCE HostQuiescence WITH Leases <- Procs, NoLease <- NoProc

\* A directory: nothing, one that is not a sidecar, or a sidecar with some
\* members in place, the next one perhaps half-written.
Dir(kind, n, k, t) == [kind |-> kind, wal |-> n, members |-> k, torn |-> t]
Vacant == Dir("vacant", 0, 0, FALSE)
Blocked == Dir("blocked", 0, 0, FALSE)
Staged(n, k) == Dir("tree", n, k, FALSE)
Tree(n) == Staged(n, Members)

IsTree(d) == d.kind = "tree"

Documents == {"journal", "receipt", "record", "selector"}

Init ==
    /\ Boundary!Init
    /\ anchor = 0
    /\ anchorLock = NoProc
    /\ dest = Tree(0)
    /\ staging = Vacant
    /\ archive = {}
    /\ vouched = {}
    /\ paper = [d \in Documents |-> 0]
    /\ pc = [p \in Procs |-> "idle"]
    /\ op = [p \in Procs |-> "host"]
    /\ reply = [p \in Procs |-> ""]
    /\ seen = [p \in Procs |-> 0]
    /\ nonce = [p \in Procs |-> 0]
    /\ calls = 0 /\ crashes = 0 /\ faults = 0
    /\ lost = FALSE
    /\ base = 0
    /\ orphaned = FALSE

Goto(p, stage) == pc' = [pc EXCEPT ![p] = stage] /\ UNCHANGED <<op, reply>>

\* The call has its answer; what it holds is dropped when it leaves.
Answer(p, status) ==
    /\ pc' = [pc EXCEPT ![p] = "leave"]
    /\ reply' = [reply EXCEPT ![p] = status]
    /\ UNCHANGED op

\* The calls go on at this stage, or end with that answer.
Decide(p, good, stage, status) ==
    IF good THEN Goto(p, stage) ELSE Answer(p, status)

See(p, n) == seen' = [seen EXCEPT ![p] = n] /\ UNCHANGED nonce

Start == [host |-> "admit", backup |-> "b_close", restore |-> "plan"]

Begin(p) ==
    /\ pc[p] = "idle"
    /\ calls < MaxCalls
    /\ calls' = calls + 1
    /\ \E o \in Calls[p] :
         /\ op' = [op EXCEPT ![p] = o]
         /\ pc' = [pc EXCEPT ![p] = Start[o]]
    /\ reply' = [reply EXCEPT ![p] = ""]
    /\ UNCHANGED <<boundary, anchor, anchorLock, project, backups, paper, locals,
                   crashes, faults, lost, base, orphaned>>

\* Guards and locks are dropped.
Leave(p) ==
    /\ pc[p] = "leave"
    /\ IF closer = p THEN Boundary!Open({p}) ELSE Boundary!End({p})
    /\ anchorLock' = IF anchorLock = p THEN NoProc ELSE anchorLock
    /\ pc' = [pc EXCEPT ![p] = "idle"]
    /\ op' = [op EXCEPT ![p] = "host"]
    /\ reply' = [reply EXCEPT ![p] = ""]
    /\ seen' = [seen EXCEPT ![p] = 0]
    /\ nonce' = [nonce EXCEPT ![p] = 0]
    /\ UNCHANGED <<anchor, project, backups, paper, history>>

-----------------------------------------------------------------------------
(***************************************************************************)
(* The anchor's lock, which each party takes in its own way.               *)
(***************************************************************************)

\* Mutation: the root is not looked up again once the lock is had.
LockAnchorBlind(p, from, to) ==
    /\ pc[p] = from
    /\ anchorLock = NoProc
    /\ anchorLock' = p
    /\ Goto(p, to)
    /\ UNCHANGED <<boundary, anchor, project, backups, paper, locals, history>>

\* acquire_replay_anchor_retained_lock of a producer or a backup: it waits, and
\* then looks whether the state root's name still leads to the root its lease
\* is for.
LockAnchor(p, from, to) ==
    /\ pc[p] = from
    /\ anchorLock = NoProc
    /\ IF IsTree(dest)
         THEN anchorLock' = p /\ Goto(p, to)
         ELSE UNCHANGED anchorLock /\ Answer(p, "StateRootChanged")
    /\ UNCHANGED <<boundary, anchor, project, backups, paper, locals, history>>

-----------------------------------------------------------------------------
(***************************************************************************)
(* The host: a call is appended to the replay WAL, then the anchor is      *)
(* advanced, each under a lease of its own.                                *)
(***************************************************************************)

Admit(p) ==
    /\ pc[p] = "admit"
    /\ IsTree(dest)
    /\ Boundary!Grant(p, "Effect")
    /\ Goto(p, "append")
    /\ UNCHANGED <<anchor, anchorLock, project, backups, paper, locals, history>>

\* The call's record is in the WAL, if there is room and the root is in place.
Append(p) ==
    /\ pc[p] = "append"
    /\ dest' = IF IsTree(dest) /\ dest.wal < MaxWal THEN [dest EXCEPT !.wal = @ + 1]
                                                    ELSE dest
    /\ Boundary!End({p})
    /\ Goto(p, "capture")
    /\ UNCHANGED <<anchor, anchorLock, staging, backups, paper, locals, history>>

\* advance_replay_anchor: the head is captured before the lock is taken.
CaptureHead(p) ==
    /\ pc[p] = "capture"
    /\ IsTree(dest)
    /\ Boundary!Grant(p, "Shared")
    /\ See(p, dest.wal)
    /\ Goto(p, "lock")
    /\ UNCHANGED <<anchor, anchorLock, project, backups, paper, history>>

\* The boundary refuses, or there is no state root.
Refused(p) ==
    /\ pc[p] \in {"admit", "capture"}
    /\ Answer(p, "Refused")
    /\ UNCHANGED <<boundary, anchor, anchorLock, project, backups, paper, locals, history>>

LockToAdvance(p) == LockAnchor(p, "lock", "advance")

\* The new anchor for the WAL that was captured. A log that moved on in between is
\* captured again (ADVANCE_RETRIES); a single host meets no such log, and ReplayStore
\* has the retries.
Advance(p) ==
    /\ pc[p] = "advance"
    /\ anchor' = IF seen[p] > anchor THEN seen[p] ELSE anchor
    /\ Answer(p, IF seen[p] < anchor THEN "RollbackDetected" ELSE "Done")
    /\ UNCHANGED <<boundary, anchorLock, project, backups, paper, locals, history>>

-----------------------------------------------------------------------------
(***************************************************************************)
(* Quiescing the destination: of a backup, of a restore that finds a tree  *)
(* there, and of a restore that has just published one.                    *)
(***************************************************************************)

Close(p, from, to) ==
    /\ pc[p] = from
    /\ IsTree(dest)
    /\ Boundary!Close(p)
    /\ Goto(p, to)
    /\ UNCHANGED <<anchor, anchorLock, project, backups, paper, locals, history>>

Drained(p, from, to) ==
    /\ pc[p] = from
    /\ Boundary!Grant(p, "Exclusive")
    /\ Goto(p, to)
    /\ UNCHANGED <<anchor, anchorLock, project, backups, paper, locals, history>>

\* Mutation: a tree that could not be quiesced is left where it is.
DeadlineLeavesTree(p) ==
    /\ pc[p] \in {"b_close", "b_drain", "closeOld", "drainOld", "closeNew", "drainNew"}
    /\ IF closer = p THEN Boundary!Open({p}) ELSE UNCHANGED boundary
    /\ Answer(p, "NotQuiesced")
    /\ UNCHANGED <<anchor, anchorLock, project, backups, paper, locals, history>>

\* Mutation: the tree just published is quiesced without a deadline.
DeadlineNotForNew(p) ==
    /\ pc[p] \in {"b_close", "b_drain", "closeOld", "drainOld"}
    /\ IF closer = p THEN Boundary!Open({p}) ELSE UNCHANGED boundary
    /\ Answer(p, "NotQuiesced")
    /\ UNCHANGED <<anchor, anchorLock, project, backups, paper, locals, history>>

\* QUIESCENCE_DEADLINE passes: admission is opened again. A tree that was
\* published and could not be quiesced is isolated.
Deadline(p) ==
    /\ pc[p] \in {"b_close", "b_drain", "closeOld", "drainOld", "closeNew", "drainNew"}
    /\ IF closer = p THEN Boundary!Open({p}) ELSE UNCHANGED boundary
    /\ IF pc[p] \in {"closeNew", "drainNew"} THEN Goto(p, "isolate")
                                             ELSE Answer(p, "NotQuiesced")
    /\ UNCHANGED <<anchor, anchorLock, project, backups, paper, locals, history>>

-----------------------------------------------------------------------------
(***************************************************************************)
(* create_project_backup                                                   *)
(***************************************************************************)

\* capture_stable_source, alone in the state root.
Capture(p) ==
    /\ pc[p] = "b_capture"
    /\ See(p, dest.wal)
    /\ Decide(p, IsTree(dest), "b_lock", "StateRootChanged")
    /\ UNCHANGED <<boundary, anchor, anchorLock, project, backups, paper, history>>

LockToBackup(p) == LockAnchor(p, "b_lock", "b_verify")

\* The WAL that was captured must be the one the anchor vouches for.
VerifyAnchor(p) ==
    /\ pc[p] = "b_verify"
    /\ Decide(p, anchor = seen[p], "b_archive", "AdvanceRequired")
    /\ UNCHANGED <<boundary, anchor, anchorLock, project, backups, paper, locals, history>>

\* publish_captured_snapshot: a new archive; or one that is there already, with
\* its receipt, or without it because whoever wrote it died in between.
PublishArchive(p) ==
    /\ pc[p] = "b_archive"
    /\ \/ /\ archive = {} /\ seen[p] \notin vouched
          /\ archive' = {seen[p]}
          /\ Goto(p, "b_receipt")
       \/ /\ archive = {seen[p]}
          /\ UNCHANGED archive
          /\ Goto(p, IF seen[p] \in vouched THEN "b_final" ELSE "b_receipt")
       \/ /\ archive # {seen[p]}
          /\ archive # {} \/ seen[p] \in vouched
          /\ UNCHANGED archive
          /\ Answer(p, "ExistingDifferent")
    /\ UNCHANGED <<boundary, anchor, anchorLock, project, vouched, paper, locals, history>>

PublishBackupReceipt(p) ==
    /\ pc[p] = "b_receipt"
    /\ vouched' = vouched \cup {seen[p]}
    /\ Goto(p, "b_final")
    /\ UNCHANGED <<boundary, anchor, anchorLock, project, archive, paper, locals, history>>

\* verify_project_backup_under_retained_authority
VerifyBackup(p) ==
    /\ pc[p] = "b_final"
    /\ Answer(p, IF anchor = dest.wal /\ anchor = seen[p] THEN "BackedUp" ELSE "Error")
    /\ UNCHANGED <<boundary, anchor, anchorLock, project, backups, paper, locals, history>>

\* The sidecar is lost, while nothing runs; and its name may be taken.
Lose ==
    /\ ~lost /\ IsTree(dest)
    /\ \A p \in Procs : pc[p] = "idle"
    /\ lost' = TRUE
    /\ base' = anchor
    /\ dest' = Vacant
    /\ UNCHANGED <<boundary, anchor, anchorLock, staging, backups, paper, pc, op, reply,
                   locals, calls, crashes, faults, orphaned>>

Occupy ==
    /\ dest = Vacant
    /\ dest' = Blocked
    /\ UNCHANGED <<boundary, anchor, anchorLock, staging, backups, paper, pc, op, reply,
                   locals, history>>

-----------------------------------------------------------------------------
(***************************************************************************)
(* plan_project_restore and preflight_project_restore                      *)
(***************************************************************************)

\* The archive has its receipt, and the anchor is the one it was taken under.
Plan(p) ==
    /\ pc[p] = "plan"
    /\ \/ \E n \in archive \cap vouched :
            /\ anchor = n
            /\ See(p, n)
            /\ Goto(p, "quiesce")
       \/ /\ archive \cap vouched \cap {anchor} = {}
          /\ UNCHANGED locals
          /\ Answer(p, "Refused")
    /\ UNCHANGED <<boundary, anchor, anchorLock, project, backups, paper, history>>

\* A state root that is there already is quiesced.
Look(p) ==
    /\ pc[p] = "quiesce"
    /\ Goto(p, IF IsTree(dest) THEN "closeOld" ELSE "authority")
    /\ UNCHANGED <<boundary, anchor, anchorLock, project, backups, paper, locals, history>>

\* retain_protected_replay_anchor_authority does not wait for the lock. The
\* anchor is compared again under it.
RetainAuthority(p) ==
    /\ pc[p] = "authority"
    /\ IF anchorLock = NoProc
         THEN anchorLock' = p /\ Decide(p, anchor = seen[p], "inspect", "Rollback")
         ELSE UNCHANGED anchorLock /\ Answer(p, "Collision")
    /\ UNCHANGED <<boundary, anchor, project, backups, paper, locals, history>>

\* Mutation: the members are counted, and not compared.
ExactCount(d, n) == IsTree(d) /\ d.members = Members

\* verify_sidecar_exact_retained: nothing but the archive's members.
Exact(d, n) == d = Tree(n)

\* inspect_destination: whatever is at the name, it is what the archive holds and
\* is quiesced.
Published(p) == IsTree(dest) /\ held[p] = "Exclusive" /\ Exact(dest, seen[p])

\* verify_staging_prefix_retained
IsPrefixOfArchive(d) == d = Vacant \/ (IsTree(d) /\ ~d.torn)

\* inspect_interrupted_state: the documents say that nothing was published yet,
\* or that a restore was completed.
Resumable ==
    /\ \A d \in Documents \ {"journal"} : paper[d] = 0
    /\ dest = Vacant
    /\ IF paper["journal"] = 0 THEN staging = Vacant ELSE IsPrefixOfArchive(staging)

Completed(p) ==
    /\ \A d \in Documents : paper[d] = paper["journal"] /\ paper[d] # 0
    /\ Published(p)
    /\ IsPrefixOfArchive(staging)

Inspect(p) ==
    /\ pc[p] = "inspect"
    /\ \/ /\ Resumable /\ Goto(p, "journal")
       \/ /\ Completed(p) /\ Goto(p, "select")
       \/ /\ ~Resumable /\ ~Completed(p) /\ Answer(p, "Interrupted")
    /\ nonce' = [nonce EXCEPT ![p] = IF paper["journal"] = 0 THEN calls ELSE paper["journal"]]
    /\ UNCHANGED <<boundary, anchor, anchorLock, project, backups, paper, seen, history>>

-----------------------------------------------------------------------------
(***************************************************************************)
(* apply_project_restore                                                   *)
(***************************************************************************)

\* A protected document is published for the operation, where there is none.
Publish(p, d) == paper' = [paper EXCEPT ![d] = nonce[p]]

\* Mutation: the journal is left until there is something in staging.
JournalLate(p) ==
    /\ pc[p] = "journal"
    /\ IF staging # Vacant THEN Publish(p, "journal") ELSE UNCHANGED paper
    /\ Goto(p, "stage")
    /\ UNCHANGED <<boundary, anchor, anchorLock, project, backups, locals, history>>

Journal(p) ==
    /\ pc[p] = "journal"
    /\ IF paper["journal"] = 0 THEN Publish(p, "journal") ELSE UNCHANGED paper
    /\ Goto(p, "stage")
    /\ UNCHANGED <<boundary, anchor, anchorLock, project, backups, locals, history>>

\* stage_restore_retained, a member at a time, from where staging is.
Stage(p) ==
    /\ pc[p] = "stage"
    /\ staging.members < Members
    /\ staging' = Staged(seen[p], staging.members + 1)
    /\ UNCHANGED <<boundary, anchor, anchorLock, dest, backups, paper, pc, op, reply,
                   locals, history>>

\* restore_publish_retained_directory_noreplace: the tree is exchanged with an
\* empty placeholder ...
Exchange(p) ==
    /\ pc[p] = "stage"
    /\ staging.members = Members
    /\ staging' = Staged(seen[p], 0)
    /\ Goto(p, "rename")
    /\ UNCHANGED <<boundary, anchor, anchorLock, dest, backups, paper, locals, history>>

\* ... and renamed to the destination, which must not exist; if it does, the
\* exchange is taken back.
Rename(p) ==
    /\ pc[p] = "rename"
    /\ IF dest = Vacant
         THEN dest' = Tree(seen[p]) /\ UNCHANGED staging /\ Goto(p, "finalize")
         ELSE staging' = Tree(seen[p]) /\ UNCHANGED dest /\ Answer(p, "Collision")
    /\ UNCHANGED <<boundary, anchor, anchorLock, backups, paper, locals, history>>

\* The placeholder is removed.
Finalize(p) ==
    /\ pc[p] = "finalize"
    /\ staging' = Vacant
    /\ Goto(p, "closeNew")
    /\ UNCHANGED <<boundary, anchor, anchorLock, dest, backups, paper, locals, history>>

\* The tree, alone in it at last, is compared with the archive.
Verify(p) ==
    /\ pc[p] = "verify"
    /\ Goto(p, IF Exact(dest, seen[p]) /\ anchor = seen[p] THEN "receipt" ELSE "isolate")
    /\ UNCHANGED <<boundary, anchor, anchorLock, project, backups, paper, locals, history>>

\* The receipt, then the completion record ...
Certify(p) ==
    /\ pc[p] \in {"receipt", "record"}
    /\ Publish(p, pc[p])
    /\ Goto(p, IF pc[p] = "receipt" THEN "record" ELSE "selector")
    /\ UNCHANGED <<boundary, anchor, anchorLock, project, backups, locals, history>>

\* ... and the selector, with which the restore has succeeded.
Succeed(p) ==
    /\ pc[p] = "selector"
    /\ Publish(p, "selector")
    /\ Answer(p, "Restored")
    /\ UNCHANGED <<boundary, anchor, anchorLock, project, backups, locals, history>>

\* The restore was completed before.
Select(p) ==
    /\ pc[p] = "select"
    /\ staging' = IF staging = Tree(seen[p]) THEN Vacant ELSE staging
    /\ Answer(p, IF staging' = Vacant THEN "AlreadyRestored" ELSE "Interrupted")
    /\ UNCHANGED <<boundary, anchor, anchorLock, dest, backups, paper, locals, history>>

\* restore_vacate_retained_publication: the name gets a placeholder, the tree
\* is kept under another one.
Isolate(p) ==
    /\ pc[p] = "isolate"
    /\ dest' = Blocked
    /\ Answer(p, "Isolated")
    /\ UNCHANGED <<boundary, anchor, anchorLock, staging, backups, paper, locals, history>>

-----------------------------------------------------------------------------
(***************************************************************************)
(* Failures.                                                               *)
(***************************************************************************)

\* A sidecar with a member half-written, or put aside under another name in it.
Spoiled(n, d) == Dir("tree", n, d.members, TRUE)

\* Stages at which a tree is at the destination that nothing vouches for yet.
Uncertified == {"finalize", "closeNew", "drainNew", "verify",
                "receipt", "record", "selector", "isolate"}

Faulty == faults < MaxFaults /\ faults' = faults + 1

\* A backup's write fails, perhaps after it has taken effect.
BackupFails(p) ==
    /\ pc[p] \in {"b_archive", "b_receipt"}
    /\ Faulty
    /\ IF pc[p] = "b_archive" /\ archive = {} /\ seen[p] \notin vouched
         THEN archive' \in {archive, {seen[p]}} ELSE UNCHANGED archive
    /\ IF pc[p] = "b_receipt"
         THEN vouched' \in {vouched, vouched \cup {seen[p]}} ELSE UNCHANGED vouched
    /\ Answer(p, "Error")
    /\ UNCHANGED <<boundary, anchor, anchorLock, project, paper, locals,
                   calls, crashes, lost, base, orphaned>>

\* Before publication: rollback_staging_after_error_retained removes a staging
\* tree that it can verify, and keeps any other; a failed rename is taken back.
StagingFails(p) ==
    /\ pc[p] \in {"journal", "stage", "rename"}
    /\ Faulty
    /\ CASE pc[p] = "journal" -> UNCHANGED staging
         [] pc[p] = "stage" -> staging' \in {Vacant, Spoiled(seen[p], staging)}
         [] pc[p] = "rename" -> staging' = Tree(seen[p])
    /\ Answer(p, "Error")
    /\ UNCHANGED <<boundary, anchor, anchorLock, dest, backups, paper, locals,
                   calls, crashes, lost, base, orphaned>>

\* After it: the tree is isolated, also where a completed restore is only checked
\* again, unless the check fails before it gets to the completion documents. A
\* document whose publication fails is taken away again, but a part of the
\* completion record may stay.
PublishedFails(p) ==
    /\ pc[p] \in (Uncertified \cup {"select"}) \ {"isolate", "closeNew", "drainNew"}
    /\ Faulty
    /\ IF pc[p] = "record" THEN Publish(p, "record") \/ UNCHANGED paper ELSE UNCHANGED paper
    /\ Goto(p, "isolate") \/ (pc[p] = "select" /\ Answer(p, "Error"))
    /\ UNCHANGED <<boundary, anchor, anchorLock, project, backups, locals,
                   calls, crashes, lost, base, orphaned>>

\* Isolation, tried three times, fails.
IsolateFails(p) ==
    /\ pc[p] = "isolate"
    /\ Faulty
    /\ orphaned' = TRUE
    /\ Answer(p, "NotIsolated")
    /\ UNCHANGED <<boundary, anchor, anchorLock, project, backups, paper, locals,
                   calls, crashes, lost, base>>

\* A process dies; its leases and locks are gone with it.
Crash(p) ==
    /\ pc[p] # "idle"
    /\ crashes < MaxCrashes
    /\ crashes' = crashes + 1
    /\ IF pc[p] = "stage" /\ staging.members < Members
         THEN staging' \in {staging, Staged(seen[p], staging.members), Spoiled(seen[p], staging)}
         ELSE UNCHANGED staging
    /\ orphaned' = (orphaned \/ pc[p] \in Uncertified)
    /\ IF closer = p THEN Boundary!Open({p}) ELSE Boundary!End({p})
    /\ anchorLock' = IF anchorLock = p THEN NoProc ELSE anchorLock
    /\ pc' = [pc EXCEPT ![p] = "idle"]
    /\ op' = [op EXCEPT ![p] = "host"]
    /\ reply' = [reply EXCEPT ![p] = ""]
    /\ seen' = [seen EXCEPT ![p] = 0]
    /\ nonce' = [nonce EXCEPT ![p] = 0]
    /\ UNCHANGED <<anchor, dest, backups, paper, calls, faults, lost, base>>

-----------------------------------------------------------------------------

HostStep(p) ==
    Admit(p) \/ Append(p) \/ CaptureHead(p) \/ Refused(p) \/ LockToAdvance(p) \/ Advance(p)

QuiesceStep(p) ==
    \/ Close(p, "b_close", "b_drain") \/ Drained(p, "b_drain", "b_capture")
    \/ Close(p, "closeOld", "drainOld") \/ Drained(p, "drainOld", "authority")
    \/ Close(p, "closeNew", "drainNew") \/ Drained(p, "drainNew", "verify")
    \/ Deadline(p)

BackupStep(p) ==
    \/ Capture(p) \/ LockToBackup(p) \/ VerifyAnchor(p)
    \/ PublishArchive(p) \/ PublishBackupReceipt(p) \/ VerifyBackup(p)

RestoreStep(p) ==
    \/ Plan(p) \/ Look(p) \/ RetainAuthority(p) \/ Inspect(p)
    \/ Journal(p) \/ Stage(p) \/ Exchange(p) \/ Rename(p) \/ Finalize(p)
    \/ Verify(p) \/ Certify(p) \/ Succeed(p) \/ Select(p) \/ Isolate(p)

Step(p) == HostStep(p) \/ QuiesceStep(p) \/ BackupStep(p) \/ RestoreStep(p) \/ Leave(p)

Fails(p) == BackupFails(p) \/ StagingFails(p) \/ PublishedFails(p) \/ IsolateFails(p)

Next ==
    \/ \E p \in Procs : Begin(p) \/ Step(p) \/ Fails(p) \/ Crash(p)
    \/ Lose \/ Occupy

Spec == Init /\ [][Next]_vars

\* A process that can go on does; in particular a deadline passes.
FairSpec == Spec /\ \A p \in Procs : WF_vars(Step(p))

-----------------------------------------------------------------------------
(***************************************************************************)
(* Properties.                                                             *)
(***************************************************************************)

\* A backup that succeeds holds what the project holds and the anchor vouches
\* for; a restore that succeeds has brought back that archive, with every call
\* that the anchor ever vouched for, under one operation's documents, while
\* nobody else is in the state root.
SuccessIsCurrent ==
    \A p \in Procs :
        /\ reply[p] = "BackedUp" => archive = {anchor} /\ dest = Tree(anchor)
        /\ reply[p] \in {"Restored", "AlreadyRestored"} =>
             /\ archive = {anchor} /\ dest = Tree(anchor)
             /\ held[p] = "Exclusive"
             /\ \A d \in Documents : paper[d] = nonce[p]

\* What the anchor came to vouch for while a project was at the destination
\* stays there: no restore isolates a tree that the anchor has moved on with, and
\* no host advances the anchor over a tree that has been isolated meanwhile.
AnchoredIsVisible ==
    ~lost \/ anchor > base => IsTree(dest) /\ dest.wal >= anchor

\* After the loss, a tree at the destination is certified, or somebody is still
\* working on it, or whoever published it died or said that it could not be
\* isolated.
FailsClosed ==
    lost /\ IsTree(dest) =>
        paper["selector"] # 0 \/ orphaned \/ \E p \in Procs : pc[p] \in Uncertified

\* An interrupted restore that has published nothing can be taken up by the next
\* one, unless a member was left half-written in staging.
InterruptedIsResumable ==
    dest = Vacant /\ ~staging.torn /\ (\A p \in Procs : pc[p] = "idle") =>
        Resumable

\* Every call returns: a host that waits for the anchor's lock, with a lease, and
\* a restore that has the lock and waits for the lease to end, are parted by the
\* deadline.
EveryCallReturns == \A p \in Procs : pc[p] # "idle" ~> pc[p] = "idle"
=============================================================================
