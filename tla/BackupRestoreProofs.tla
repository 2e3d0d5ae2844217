------------------------- MODULE BackupRestoreProofs -------------------------
(***************************************************************************)
(* The safety properties of BackupRestore, for every number of processes,  *)
(* members, calls, deaths and failing steps.                               *)
(***************************************************************************)
EXTENDS BackupRestore, TLAPS

Stages ==
    {"idle", "leave", "admit", "append", "capture", "lock", "advance",
     "b_close", "b_drain", "b_capture", "b_lock", "b_verify", "b_archive",
     "b_receipt", "b_final", "plan", "quiesce", "closeOld", "drainOld",
     "authority", "inspect", "journal", "stage", "rename", "finalize",
     "closeNew", "drainNew", "verify", "receipt", "record", "selector",
     "select", "isolate"}

\* Stages that are reached with the anchor's lock, or alone in the state root.
Locked ==
    {"advance", "b_verify", "b_archive", "b_receipt", "b_final", "inspect",
     "journal", "stage", "rename", "select"} \cup Uncertified
Alone ==
    {"b_capture", "b_lock", "b_verify", "b_archive", "b_receipt", "b_final",
     "verify", "receipt", "record", "selector", "select"}

\* Stages of a restore: with an archive, with the anchor compared, and with its
\* journal published.
Archived ==
    {"quiesce", "closeOld", "drainOld", "authority", "inspect", "journal",
     "stage", "rename", "select"} \cup Uncertified
Compared ==
    {"b_archive", "b_receipt", "b_final", "inspect", "journal", "stage",
     "rename", "select"} \cup Uncertified
Journaled == {"stage", "rename", "select"} \cup Uncertified

Successes == {"BackedUp", "Restored", "AlreadyRestored"}
Replies ==
    Successes \cup
    {"", "StateRootChanged", "Refused", "RollbackDetected", "Done", "NotQuiesced",
     "AdvanceRequired", "ExistingDifferent", "Rollback", "Collision", "Interrupted",
     "Isolated", "NotIsolated", "Error"}

ControlTyped ==
    /\ pc \in [Procs -> Stages]
    /\ op \in [Procs -> Ops]
    /\ reply \in [Procs -> Replies]

DataTyped ==
    /\ held \in [Procs -> {"Shared", "Effect", "Exclusive", "none"}]
    /\ closer \in Procs \cup {NoProc}
    /\ anchor \in Nat
    /\ anchorLock \in Procs \cup {NoProc}
    /\ archive \in SUBSET Nat
    /\ vouched \in SUBSET Nat
    /\ paper \in [Documents -> Nat]
    /\ seen \in [Procs -> Nat]
    /\ nonce \in [Procs -> Nat]
    /\ calls \in Nat
    /\ crashes \in Nat
    /\ faults \in Nat
    /\ lost \in BOOLEAN
    /\ base \in Nat
    /\ orphaned \in BOOLEAN

\* What is at the destination is whole; staging is a sidecar or nothing.
Sidecars == [kind : {"tree"}, wal : Nat, members : 0..Members, torn : BOOLEAN]

DirsOK ==
    /\ dest \in {Vacant, Blocked} \/ (dest.wal \in Nat /\ dest = Tree(dest.wal))
    /\ staging = Vacant \/ staging \in Sidecars

\* The exclusive lease is the closer's and excludes all others.
LeasesOK ==
    \A p \in Procs : held[p] = "Exclusive" =>
        closer = p /\ \A q \in Procs \ {p} : held[q] = "none"

StageLeases ==
    \A p \in Procs :
        /\ pc[p] = "append" => held[p] = "Effect"
        /\ pc[p] \in Alone => held[p] = "Exclusive"

StageLocks == \A p \in Procs : pc[p] \in Locked => anchorLock = p

\* What a process has captured or read is still what it stands for.
HostSeen ==
    \A p \in Procs :
        /\ pc[p] \in {"lock", "advance"} /\ IsTree(dest) => seen[p] <= dest.wal
        /\ pc[p] = "lock" => dest # Vacant
        /\ pc[p] = "advance" => IsTree(dest)

OneArchive == \A m, n \in archive : m = n

ArchiveSeen ==
    \A p \in Procs :
        /\ pc[p] \in Archived \cup {"b_receipt", "b_final"} => seen[p] \in archive
        /\ pc[p] \in Compared => anchor = seen[p]

\* A restore gets to its journal only after the loss, with an anchor that has
\* not moved since.
RestoreLost ==
    \A p \in Procs :
        pc[p] \in Journaled \cup {"journal"} => lost /\ anchor <= base

JournalLost ==
    paper["journal"] # 0 => lost /\ archive # {} /\ \A n \in archive : n <= base

\* The tree that a restore works on is at the destination.
TreeThere ==
    \A p \in Procs :
        /\ pc[p] \in Uncertified \cup {"select"} => IsTree(dest)
        /\ pc[p] \in {"b_verify", "b_archive", "b_receipt", "b_final"} => IsTree(dest)
        /\ pc[p] \in {"receipt", "record", "selector", "select"} => dest = Tree(seen[p])

\* The documents that a restore has published bear its operation.
PapersOK ==
    \A p \in Procs :
        /\ pc[p] # "idle" => calls # 0
        /\ pc[p] \in Journaled \cup {"journal"} => nonce[p] # 0
        /\ pc[p] = "journal" => paper["journal"] \in {0, nonce[p]}
        /\ pc[p] \in Journaled => paper["journal"] = nonce[p]
        /\ pc[p] \in {"record", "selector", "select"} => paper["receipt"] = nonce[p]
        /\ pc[p] \in {"selector", "select"} => paper["record"] = nonce[p]
        /\ pc[p] = "select" => paper["selector"] = nonce[p]

PapersLate ==
    \A d \in Documents \ {"journal"} : paper[d] # 0 => lost /\ dest # Vacant

StagedLate == paper["journal"] = 0 => staging = Vacant

\* An answer is given once, and a good one with the locks still held.
AnswersLeave == \A p \in Procs : reply[p] # "" => pc[p] = "leave"

SuccessHolds ==
    \A p \in Procs : reply[p] \in Successes =>
        /\ anchorLock = p
        /\ held[p] = "Exclusive"
        /\ anchor \in archive
        /\ dest = Tree(anchor)

RestoredHolds ==
    \A p \in Procs : reply[p] \in {"Restored", "AlreadyRestored"} =>
        \A d \in Documents : paper[d] = nonce[p]

IInv ==
    /\ ControlTyped
    /\ DataTyped
    /\ DirsOK
    /\ LeasesOK
    /\ StageLeases
    /\ StageLocks
    /\ HostSeen
    /\ OneArchive
    /\ ArchiveSeen
    /\ RestoreLost
    /\ JournalLost
    /\ TreeThere
    /\ PapersOK
    /\ PapersLate
    /\ StagedLate
    /\ AnswersLeave
    /\ SuccessHolds
    /\ RestoredHolds
    /\ AnchoredIsVisible
    /\ FailsClosed

-----------------------------------------------------------------------------

LEMMA GotoTyped ==
    ASSUME ControlTyped, NEW p \in Procs, NEW s \in Stages, Goto(p, s)
    PROVE  ControlTyped'
  BY DEF ControlTyped, Goto

LEMMA AnswerTyped ==
    ASSUME ControlTyped, NEW p \in Procs, NEW r \in Replies, Answer(p, r)
    PROVE  ControlTyped'
  BY DEF ControlTyped, Answer, Stages

LEMMA NewWal ==
    ASSUME NEW d \in Sidecars, NEW n \in Nat
    PROVE  [d EXCEPT !.wal = n] = Dir("tree", n, d.members, d.torn)
  BY DEF Sidecars, Dir

LEMMA TreeFacts ==
    ASSUME NEW n \in Nat
    PROVE  /\ Tree(n).wal = n
           /\ IsTree(Tree(n))
           /\ Tree(n) # Vacant
           /\ Tree(n) # Blocked
           /\ Tree(n) \in Sidecars
           /\ [Tree(n) EXCEPT !.wal = @ + 1] = Tree(n + 1)
<1>1. Members \in 0..Members
  BY BoundsAssumption
<1>2. /\ Tree(n).wal = n
      /\ IsTree(Tree(n))
      /\ Tree(n) # Vacant
      /\ Tree(n) # Blocked
  BY DEF Tree, Staged, Dir, IsTree, Vacant, Blocked
<1>3. Tree(n) \in Sidecars
  BY <1>1 DEF Tree, Staged, Dir, Sidecars
<1>4. [Tree(n) EXCEPT !.wal = @ + 1] = Tree(n + 1)
  <2>1. Tree(n).members = Members /\ Tree(n).torn = FALSE
    BY DEF Tree, Staged, Dir
  <2>2. [Tree(n) EXCEPT !.wal = n + 1] = Tree(n + 1)
    BY <1>3, <2>1, NewWal, n + 1 \in Nat DEF Tree, Staged
  <2>. QED
    BY <1>2, <2>2
<1>. QED
  BY <1>2, <1>3, <1>4

LEMMA SidecarFacts ==
    ASSUME NEW d, d = Vacant \/ d \in Sidecars, NEW n \in Nat
    PROVE  /\ Staged(n, d.members) \in Sidecars
           /\ Staged(n, 0) \in Sidecars
           /\ d.members < Members => Staged(n, d.members + 1) \in Sidecars
           /\ Spoiled(n, d) \in Sidecars
<1>1. \A k \in 0..Members : Staged(n, k) \in Sidecars
  BY DEF Staged, Dir, Sidecars
<1>2. d.members \in 0..Members
  BY BoundsAssumption DEF Vacant, Dir, Sidecars
<1>4. Spoiled(n, d) \in Sidecars
  BY <1>2 DEF Spoiled, Dir, Sidecars
<1>5. 0 \in 0..Members /\ (d.members < Members => d.members + 1 \in 0..Members)
  BY <1>2, BoundsAssumption
<1>. QED
  BY <1>1, <1>2, <1>4, <1>5

LEMMA NoTreeFacts == ~IsTree(Vacant) /\ ~IsTree(Blocked) /\ Vacant # Blocked
  BY DEF IsTree, Vacant, Blocked, Dir

LEMMA BeginKeeps ==
    ASSUME IInv, NEW p \in Procs, Begin(p)
    PROVE  IInv'
<1>a. PICK o \in Ops : op' = [op EXCEPT ![p] = o] /\ pc' = [pc EXCEPT ![p] = Start[o]]
  BY CallsAssumption DEF Begin
<1>b. PICK s \in {"admit", "b_close", "plan"} : pc' = [pc EXCEPT ![p] = s]
  <2>1. Start[o] \in {"admit", "b_close", "plan"}
    BY DEF Start, Ops
  <2>. QED
    BY <1>a, <2>1
<1>c. pc[p] = "idle" /\ reply' = [reply EXCEPT ![p] = ""]
  BY DEF Begin
<1>d. UNCHANGED <<boundary, anchor, anchorLock, project, backups, paper, locals,
                  crashes, faults, lost, base, orphaned>>
  BY DEF Begin
<1>f. calls' \in Nat /\ calls' # 0
  <2>1. calls \in Nat
    BY DEF IInv, DataTyped
  <2>2. calls' = calls + 1
    BY DEF Begin
  <2>. QED
    BY <2>1, <2>2
<1>e. op' = [op EXCEPT ![p] = o]
  BY <1>a
<1> USE <1>b, <1>c, <1>d, <1>e, <1>f DEF IInv, boundary, project, backups, locals
<1>1. /\ DirsOK' /\ LeasesOK' /\ OneArchive' /\ JournalLost' /\ PapersLate'
      /\ StagedLate' /\ AnchoredIsVisible'
  BY DEF DirsOK, LeasesOK, OneArchive, JournalLost, PapersLate, StagedLate,
       AnchoredIsVisible
<1>2. ControlTyped'
  BY DEF ControlTyped, Stages, Replies, Successes, Ops
<1>3. DataTyped'
  BY DEF DataTyped, Documents
<1>4. StageLeases'
  BY DEF StageLeases, Alone, ControlTyped
<1>5. StageLocks'
  BY DEF StageLocks, DataTyped, Locked, Uncertified, ControlTyped
<1>6. HostSeen'
  BY DEF HostSeen, ControlTyped
<1>7. ArchiveSeen'
  BY DEF ArchiveSeen, Archived, Compared, Uncertified, ControlTyped
<1>8. RestoreLost'
  BY DEF RestoreLost, Journaled, Uncertified, ControlTyped
<1>9. TreeThere'
  BY DEF TreeThere, Uncertified, ControlTyped
<1>10. PapersOK'
  BY DEF PapersOK, DataTyped, StageLocks, Locked, Documents, Journaled,
       Uncertified, ControlTyped
<1>11. AnswersLeave'
  BY DEF AnswersLeave, ControlTyped
<1>12. SuccessHolds'
  BY DEF SuccessHolds, AnswersLeave, Successes, ControlTyped
<1>13. RestoredHolds'
  BY DEF RestoredHolds, AnswersLeave, ControlTyped
<1>14. FailsClosed'
  BY DEF FailsClosed, Uncertified, ControlTyped
<1>. QED
  BY <1>1, <1>2, <1>3, <1>4, <1>5, <1>6, <1>7, <1>8, <1>9, <1>10, <1>11,
       <1>12, <1>13, <1>14
  DEF IInv

LEMMA LeaveKeeps ==
    ASSUME IInv, NEW p \in Procs, Leave(p)
    PROVE  IInv'
<1>a. /\ held' = [l \in Procs |-> IF l = p THEN "none" ELSE held[l]]
      /\ closer' = IF closer = p THEN NoProc ELSE closer
      /\ anchorLock' = IF anchorLock = p THEN NoProc ELSE anchorLock
  BY ProcsAssumption DEF Leave, Boundary!Open, Boundary!End
<1>b. /\ pc[p] = "leave"
      /\ pc' = [pc EXCEPT ![p] = "idle"]
      /\ op' = [op EXCEPT ![p] = "host"]
      /\ reply' = [reply EXCEPT ![p] = ""]
      /\ seen' = [seen EXCEPT ![p] = 0]
      /\ nonce' = [nonce EXCEPT ![p] = 0]
      /\ UNCHANGED <<anchor, project, backups, paper, history>>
  BY DEF Leave
<1> USE <1>a, <1>b DEF IInv, project, backups, history
<1>1. /\ DirsOK' /\ OneArchive' /\ JournalLost' /\ PapersLate'
      /\ StagedLate' /\ AnchoredIsVisible'
  BY DEF DirsOK, OneArchive, JournalLost, PapersLate, StagedLate,
       AnchoredIsVisible
<1>2. ControlTyped'
  BY DEF ControlTyped, Stages, Replies, Successes, Ops
<1>3. DataTyped'
  BY DEF DataTyped, Documents
<1>4. LeasesOK'
  BY DEF LeasesOK, DataTyped
<1>5. StageLeases'
  BY DEF StageLeases, DataTyped, LeasesOK, Alone, ControlTyped
<1>6. StageLocks'
  BY DEF StageLocks, DataTyped, Locked, Uncertified, ControlTyped
<1>7. HostSeen'
  BY DEF HostSeen, DataTyped, ControlTyped
<1>8. ArchiveSeen'
  BY DEF ArchiveSeen, DataTyped, OneArchive, StageLocks, Locked, Archived,
       Compared, Uncertified, ControlTyped
<1>9. RestoreLost'
  BY DEF RestoreLost, Journaled, Uncertified, ControlTyped
<1>10. TreeThere'
  BY DEF TreeThere, Uncertified, DataTyped, ControlTyped
<1>11. PapersOK'
  BY DEF PapersOK, DataTyped, StageLocks, Locked, Documents, Journaled,
       Uncertified, ControlTyped
<1>12. AnswersLeave'
  BY DEF AnswersLeave, ControlTyped
<1>13. SuccessHolds'
  BY DEF SuccessHolds, AnswersLeave, Successes, ControlTyped, LeasesOK
<1>14. RestoredHolds'
  BY DEF RestoredHolds, AnswersLeave, DataTyped, ControlTyped
<1>15. FailsClosed'
  BY DEF FailsClosed, Uncertified, ControlTyped
<1>. QED
  BY <1>1, <1>2, <1>3, <1>4, <1>5, <1>6, <1>7, <1>8, <1>9, <1>10, <1>11,
       <1>12, <1>13, <1>14, <1>15
  DEF IInv

LEMMA LockAnchorKeeps ==
    ASSUME IInv, NEW p \in Procs, NEW from, NEW to,
           <<from, to>> \in {<<"lock", "advance">>, <<"b_lock", "b_verify">>},
           LockAnchor(p, from, to)
    PROVE  IInv'
<1> USE DEF IInv, LockAnchor, boundary, project, backups, locals, history
<1>1. /\ DirsOK' /\ LeasesOK' /\ OneArchive' /\ JournalLost' /\ PapersLate'
      /\ StagedLate' /\ AnchoredIsVisible'
  BY DEF DirsOK, LeasesOK, OneArchive, JournalLost, PapersLate, StagedLate,
       AnchoredIsVisible
<1>2. ControlTyped'
  BY GotoTyped, AnswerTyped
  DEF Stages, Replies, Successes
<1>3. DataTyped'
  BY DEF DataTyped, Documents
<1>4. StageLeases'
  BY DEF StageLeases, Alone, ControlTyped, Goto, Answer
<1>5. StageLocks'
  BY ProcsAssumption
  DEF StageLocks, DataTyped, Locked, Uncertified, ControlTyped, Goto, Answer
<1>6. HostSeen'
  BY DEF HostSeen, ControlTyped, Goto, Answer
<1>7. ArchiveSeen'
  BY DEF ArchiveSeen, Archived, Compared, Uncertified, ControlTyped, Goto,
       Answer
<1>8. RestoreLost'
  BY DEF RestoreLost, Journaled, Uncertified, ControlTyped, Goto, Answer
<1>9. TreeThere'
  BY DEF TreeThere, Uncertified, ControlTyped, Goto, Answer
<1>10. PapersOK'
  BY DEF PapersOK, Journaled, Uncertified, Documents, ControlTyped, Goto,
       Answer
<1>11. AnswersLeave'
  BY DEF AnswersLeave, ControlTyped, Goto, Answer
<1>12. SuccessHolds'
  BY ProcsAssumption
  DEF SuccessHolds, AnswersLeave, Successes, ControlTyped, Goto, Answer
<1>13. RestoredHolds'
  BY DEF RestoredHolds, AnswersLeave, ControlTyped, Goto, Answer
<1>14. FailsClosed'
  BY DEF FailsClosed, Uncertified, ControlTyped, Goto, Answer
<1>. QED
  BY <1>1, <1>2, <1>3, <1>4, <1>5, <1>6, <1>7, <1>8, <1>9, <1>10, <1>11,
       <1>12, <1>13, <1>14
  DEF IInv

LEMMA AdmitKeeps ==
    ASSUME IInv, NEW p \in Procs, Admit(p)
    PROVE  IInv'
<1> USE DEF IInv, Admit, Boundary!Grant, Boundary!Together, boundary, project,
        backups, locals, history
<1>1. /\ DirsOK' /\ OneArchive' /\ JournalLost' /\ PapersLate'
      /\ StagedLate' /\ RestoredHolds' /\ AnchoredIsVisible'
  BY DEF DirsOK, OneArchive, JournalLost, PapersLate, StagedLate,
       RestoredHolds, AnchoredIsVisible, Goto
<1>2. ControlTyped'
  BY GotoTyped
  DEF Stages
<1>3. DataTyped'
  BY DEF DataTyped, Documents
<1>4. LeasesOK'
  BY DEF LeasesOK, DataTyped
<1>5. StageLeases'
  BY DEF StageLeases, DataTyped, LeasesOK, Alone, ControlTyped, Goto
<1>6. StageLocks'
  BY DEF StageLocks, DataTyped, Locked, Uncertified, ControlTyped, Goto
<1>7. HostSeen'
  BY DEF HostSeen, ControlTyped, Goto
<1>8. ArchiveSeen'
  BY DEF ArchiveSeen, Archived, Compared, Uncertified, ControlTyped, Goto
<1>9. RestoreLost'
  BY DEF RestoreLost, Journaled, Uncertified, ControlTyped, Goto
<1>10. TreeThere'
  BY DEF TreeThere, Uncertified, ControlTyped, Goto
<1>11. PapersOK'
  BY DEF PapersOK, Journaled, Uncertified, Documents, ControlTyped, Goto
<1>12. AnswersLeave'
  BY DEF AnswersLeave, ControlTyped, Goto
<1>13. SuccessHolds'
  BY DEF SuccessHolds, AnswersLeave, Successes, ControlTyped, Goto, LeasesOK
<1>14. FailsClosed'
  BY DEF FailsClosed, Uncertified, ControlTyped, Goto
<1>. QED
  BY <1>1, <1>2, <1>3, <1>4, <1>5, <1>6, <1>7, <1>8, <1>9, <1>10, <1>11,
       <1>12, <1>13, <1>14
  DEF IInv

LEMMA AppendKeeps ==
    ASSUME IInv, NEW p \in Procs, Append(p)
    PROVE  IInv'
<1>a. /\ pc[p] = "append"
      /\ held' = [l \in Procs |-> IF l = p THEN "none" ELSE held[l]]
      /\ Goto(p, "capture")
      /\ UNCHANGED <<closer, anchor, anchorLock, staging, backups, paper, locals, history>>
  BY DEF Append, Boundary!End
<1>b. \/ dest' = dest
      \/ /\ IsTree(dest) /\ dest.wal \in Nat
         /\ dest'.wal = dest.wal + 1
         /\ dest' = Tree(dest'.wal) /\ IsTree(dest') /\ dest' # Vacant
  <2>1. CASE dest' = dest
    BY <2>1
  <2>2. CASE dest' # dest
    <3>1. dest.wal \in Nat /\ IsTree(dest) /\ dest = Tree(dest.wal)
      BY <2>2, NoTreeFacts DEF IInv, Append, DirsOK
    <3>2. dest' = Tree(dest.wal + 1)
      BY <2>2, <3>1, TreeFacts DEF Append
    <3>. QED
      BY <3>1, <3>2, TreeFacts, dest.wal + 1 \in Nat
  <2>. QED
    BY <2>1, <2>2
<1> USE <1>a DEF IInv, backups, locals, history
<1>1. /\ OneArchive' /\ JournalLost' /\ StagedLate' /\ RestoredHolds'
  BY DEF OneArchive, JournalLost, StagedLate, RestoredHolds, Goto
<1>2. ControlTyped'
  BY GotoTyped
  DEF Stages
<1>3. DataTyped'
  BY DEF DataTyped, Documents
<1>4. DirsOK'
  BY <1>b, TreeFacts DEF DirsOK
<1>5. LeasesOK'
  BY DEF LeasesOK, DataTyped
<1>6. StageLeases'
  BY DEF StageLeases, DataTyped, LeasesOK, Alone, ControlTyped, Goto
<1>7. StageLocks'
  BY DEF StageLocks, DataTyped, Locked, Uncertified, ControlTyped, Goto
<1>8. HostSeen'
  BY <1>b, TreeFacts, NoTreeFacts DEF HostSeen, Goto, ControlTyped, DataTyped
<1>9. ArchiveSeen'
  BY DEF ArchiveSeen, Archived, Compared, Uncertified, ControlTyped, Goto
<1>10. RestoreLost'
  BY DEF RestoreLost, Journaled, Uncertified, ControlTyped, Goto
<1>11. TreeThere'
  BY <1>b, TreeFacts DEF TreeThere, Uncertified, StageLeases, LeasesOK, Alone, Goto, ControlTyped
<1>12. PapersOK'
  BY DEF PapersOK, Journaled, Uncertified, Documents, ControlTyped, Goto
<1>13. PapersLate'
  BY <1>b, TreeFacts DEF PapersLate
<1>14. AnswersLeave'
  BY DEF AnswersLeave, ControlTyped, Goto
<1>15. SuccessHolds'
  BY <1>b DEF SuccessHolds, StageLeases, LeasesOK, Alone, Goto, ControlTyped
<1>16. AnchoredIsVisible'
  BY <1>b, TreeFacts DEF AnchoredIsVisible, DataTyped
<1>17. FailsClosed'
  BY <1>b, TreeFacts DEF FailsClosed, Uncertified, Goto, ControlTyped
<1>. QED
  BY <1>1, <1>2, <1>3, <1>4, <1>5, <1>6, <1>7, <1>8, <1>9, <1>10, <1>11,
       <1>12, <1>13, <1>14, <1>15, <1>16, <1>17
  DEF IInv

LEMMA CaptureHeadKeeps ==
    ASSUME IInv, NEW p \in Procs, CaptureHead(p)
    PROVE  IInv'
<1> USE DEF IInv, CaptureHead, See, Boundary!Grant, Boundary!Together,
        boundary, project, backups, locals, history
<1>1. /\ DirsOK' /\ OneArchive' /\ JournalLost' /\ PapersLate'
      /\ StagedLate' /\ RestoredHolds' /\ AnchoredIsVisible'
  BY DEF DirsOK, OneArchive, JournalLost, PapersLate, StagedLate,
       RestoredHolds, AnchoredIsVisible, Goto
<1>2. ControlTyped'
  BY GotoTyped
  DEF Stages
<1>3. DataTyped'
  BY TreeFacts, NoTreeFacts DEF DataTyped, DirsOK, Documents
<1>4. LeasesOK'
  BY DEF LeasesOK, DataTyped
<1>5. StageLeases'
  BY DEF StageLeases, DataTyped, LeasesOK, Alone, ControlTyped, Goto
<1>6. StageLocks'
  BY DEF StageLocks, DataTyped, Locked, Uncertified, ControlTyped, Goto
<1>7. HostSeen'
  BY TreeFacts, NoTreeFacts
  DEF HostSeen, DataTyped, DirsOK, StageLocks, Locked, Uncertified,
       ControlTyped, Goto
<1>8. ArchiveSeen'
  BY DEF ArchiveSeen, DataTyped, OneArchive, StageLocks, Locked, Archived,
       Compared, Uncertified, ControlTyped, Goto
<1>9. RestoreLost'
  BY DEF RestoreLost, Journaled, Uncertified, ControlTyped, Goto
<1>10. TreeThere'
  BY DEF TreeThere, Uncertified, DataTyped, ControlTyped, Goto
<1>11. PapersOK'
  BY DEF PapersOK, Journaled, Uncertified, Documents, ControlTyped, Goto
<1>12. AnswersLeave'
  BY DEF AnswersLeave, ControlTyped, Goto
<1>13. SuccessHolds'
  BY DEF SuccessHolds, AnswersLeave, Successes, ControlTyped, Goto, LeasesOK
<1>14. FailsClosed'
  BY DEF FailsClosed, Uncertified, ControlTyped, Goto
<1>. QED
  BY <1>1, <1>2, <1>3, <1>4, <1>5, <1>6, <1>7, <1>8, <1>9, <1>10, <1>11,
       <1>12, <1>13, <1>14
  DEF IInv

LEMMA RefusedKeeps ==
    ASSUME IInv, NEW p \in Procs, Refused(p)
    PROVE  IInv'
<1> USE DEF IInv, Refused, boundary, project, backups, locals, history
<1>1. /\ DataTyped' /\ DirsOK' /\ LeasesOK' /\ OneArchive' /\ JournalLost'
      /\ PapersLate' /\ StagedLate' /\ AnchoredIsVisible'
  BY DEF DataTyped, DirsOK, LeasesOK, OneArchive, JournalLost, PapersLate,
       StagedLate, AnchoredIsVisible
<1>2. ControlTyped'
  BY AnswerTyped
  DEF Stages, Replies, Successes
<1>3. StageLeases'
  BY DEF StageLeases, Alone, ControlTyped, Answer
<1>4. StageLocks'
  BY DEF StageLocks, DataTyped, Locked, Uncertified, ControlTyped, Answer
<1>5. HostSeen'
  BY DEF HostSeen, ControlTyped, Answer
<1>6. ArchiveSeen'
  BY DEF ArchiveSeen, Archived, Compared, Uncertified, ControlTyped, Answer
<1>7. RestoreLost'
  BY DEF RestoreLost, Journaled, Uncertified, ControlTyped, Answer
<1>8. TreeThere'
  BY DEF TreeThere, Uncertified, ControlTyped, Answer
<1>9. PapersOK'
  BY DEF PapersOK, Journaled, Uncertified, Documents, ControlTyped, Answer
<1>10. AnswersLeave'
  BY DEF AnswersLeave, ControlTyped, Answer
<1>11. SuccessHolds'
  BY DEF SuccessHolds, AnswersLeave, Successes, ControlTyped, Answer
<1>12. RestoredHolds'
  BY DEF RestoredHolds, AnswersLeave, ControlTyped, Answer
<1>13. FailsClosed'
  BY DEF FailsClosed, Uncertified, ControlTyped, Answer
<1>. QED
  BY <1>1, <1>2, <1>3, <1>4, <1>5, <1>6, <1>7, <1>8, <1>9, <1>10, <1>11,
       <1>12, <1>13
  DEF IInv

LEMMA AdvanceKeeps ==
    ASSUME IInv, NEW p \in Procs, Advance(p)
    PROVE  IInv'
<1> USE DEF IInv, Advance, boundary, project, backups, locals, history
<1>1. /\ DirsOK' /\ LeasesOK' /\ OneArchive' /\ JournalLost' /\ PapersLate'
      /\ StagedLate'
  BY DEF DirsOK, LeasesOK, OneArchive, JournalLost, PapersLate, StagedLate
<1>2. ControlTyped'
  BY AnswerTyped
  DEF Stages, Replies, Successes
<1>3. DataTyped'
  BY DEF DataTyped, Documents
<1>4. StageLeases'
  BY DEF StageLeases, Alone, ControlTyped, Answer
<1>5. StageLocks'
  BY DEF StageLocks, DataTyped, Locked, Uncertified, ControlTyped, Answer
<1>6. HostSeen'
  BY DEF HostSeen, ControlTyped, Answer
<1>7. ArchiveSeen'
  BY DEF ArchiveSeen, DataTyped, OneArchive, StageLocks, Locked, Archived,
       Compared, Uncertified, ControlTyped, Answer
<1>8. RestoreLost'
  BY TreeFacts, NoTreeFacts
  DEF RestoreLost, DataTyped, AnchoredIsVisible, JournalLost, ArchiveSeen,
       StageLocks, Locked, Archived, Compared, Journaled, Uncertified,
       ControlTyped, Answer
<1>9. TreeThere'
  BY DEF TreeThere, Uncertified, ControlTyped, Answer
<1>10. PapersOK'
  BY DEF PapersOK, Journaled, Uncertified, Documents, ControlTyped, Answer
<1>11. AnswersLeave'
  BY DEF AnswersLeave, ControlTyped, Answer
<1>12. SuccessHolds'
  BY DEF SuccessHolds, AnswersLeave, Successes, ControlTyped, Answer,
       StageLocks, Locked, Uncertified
<1>13. RestoredHolds'
  BY DEF RestoredHolds, AnswersLeave, ControlTyped, Answer
<1>14. AnchoredIsVisible'
  BY TreeFacts, NoTreeFacts
  DEF AnchoredIsVisible, DataTyped, DirsOK, HostSeen, RestoreLost, Journaled,
       Uncertified
<1>15. FailsClosed'
  BY DEF FailsClosed, Uncertified, ControlTyped, Answer
<1>. QED
  BY <1>1, <1>2, <1>3, <1>4, <1>5, <1>6, <1>7, <1>8, <1>9, <1>10, <1>11,
       <1>12, <1>13, <1>14, <1>15
  DEF IInv

LEMMA CloseKeeps ==
    ASSUME IInv, NEW p \in Procs, NEW from, NEW to,
           <<from, to>> \in {<<"b_close", "b_drain">>, <<"closeOld", "drainOld">>, <<"closeNew", "drainNew">>},
           Close(p, from, to)
    PROVE  IInv'
<1> USE DEF IInv, Close, Boundary!Close, boundary, project, backups, locals,
        history
<1>1. /\ DirsOK' /\ OneArchive' /\ JournalLost' /\ PapersLate'
      /\ StagedLate' /\ SuccessHolds' /\ RestoredHolds' /\ AnchoredIsVisible'
  BY DEF DirsOK, OneArchive, JournalLost, PapersLate, StagedLate,
       SuccessHolds, RestoredHolds, AnchoredIsVisible, Goto
<1>2. ControlTyped'
  BY GotoTyped
  DEF Stages
<1>3. DataTyped'
  BY DEF DataTyped, Documents
<1>4. LeasesOK'
  BY ProcsAssumption
  DEF LeasesOK, DataTyped
<1>5. StageLeases'
  BY DEF StageLeases, Alone, ControlTyped, Goto
<1>6. StageLocks'
  BY DEF StageLocks, DataTyped, Locked, Uncertified, ControlTyped, Goto
<1>7. HostSeen'
  BY DEF HostSeen, ControlTyped, Goto
<1>8. ArchiveSeen'
  BY DEF ArchiveSeen, Archived, Compared, Uncertified, ControlTyped, Goto
<1>9. RestoreLost'
  BY DEF RestoreLost, Journaled, Uncertified, ControlTyped, Goto
<1>10. TreeThere'
  BY DEF TreeThere, Uncertified, ControlTyped, Goto
<1>11. PapersOK'
  BY DEF PapersOK, Journaled, Uncertified, Documents, ControlTyped, Goto
<1>12. AnswersLeave'
  BY DEF AnswersLeave, ControlTyped, Goto
<1>13. FailsClosed'
  BY DEF FailsClosed, Uncertified, ControlTyped, Goto
<1>. QED
  BY <1>1, <1>2, <1>3, <1>4, <1>5, <1>6, <1>7, <1>8, <1>9, <1>10, <1>11,
       <1>12, <1>13
  DEF IInv

LEMMA DrainedKeeps ==
    ASSUME IInv, NEW p \in Procs, NEW from, NEW to,
           <<from, to>> \in {<<"b_drain", "b_capture">>, <<"drainOld", "authority">>, <<"drainNew", "verify">>},
           Drained(p, from, to)
    PROVE  IInv'
<1> USE DEF IInv, Drained, Boundary!Grant, Boundary!Together, boundary,
        project, backups, locals, history
<1>1. /\ DirsOK' /\ OneArchive' /\ JournalLost' /\ PapersLate'
      /\ StagedLate' /\ RestoredHolds' /\ AnchoredIsVisible'
  BY DEF DirsOK, OneArchive, JournalLost, PapersLate, StagedLate,
       RestoredHolds, AnchoredIsVisible, Goto
<1>2. ControlTyped'
  BY GotoTyped
  DEF Stages
<1>3. DataTyped'
  BY DEF DataTyped, Documents
<1>4. LeasesOK'
  BY DEF LeasesOK, DataTyped
<1>5. StageLeases'
  BY DEF StageLeases, DataTyped, LeasesOK, Alone, ControlTyped, Goto
<1>6. StageLocks'
  BY DEF StageLocks, DataTyped, Locked, Uncertified, ControlTyped, Goto
<1>7. HostSeen'
  BY DEF HostSeen, ControlTyped, Goto
<1>8. ArchiveSeen'
  BY DEF ArchiveSeen, Archived, Compared, Uncertified, ControlTyped, Goto
<1>9. RestoreLost'
  BY DEF RestoreLost, Journaled, Uncertified, ControlTyped, Goto
<1>10. TreeThere'
  BY DEF TreeThere, Uncertified, ControlTyped, Goto
<1>11. PapersOK'
  BY DEF PapersOK, Journaled, Uncertified, Documents, ControlTyped, Goto
<1>12. AnswersLeave'
  BY DEF AnswersLeave, ControlTyped, Goto
<1>13. SuccessHolds'
  BY DEF SuccessHolds, AnswersLeave, Successes, ControlTyped, Goto, LeasesOK
<1>14. FailsClosed'
  BY DEF FailsClosed, Uncertified, ControlTyped, Goto
<1>. QED
  BY <1>1, <1>2, <1>3, <1>4, <1>5, <1>6, <1>7, <1>8, <1>9, <1>10, <1>11,
       <1>12, <1>13, <1>14
  DEF IInv

LEMMA DeadlineKeeps ==
    ASSUME IInv, NEW p \in Procs, Deadline(p)
    PROVE  IInv'
<1> USE DEF IInv, Deadline, Boundary!Open, boundary, project, backups, locals,
        history
<1>1. /\ DirsOK' /\ OneArchive' /\ JournalLost' /\ PapersLate'
      /\ StagedLate' /\ AnchoredIsVisible'
  BY DEF DirsOK, OneArchive, JournalLost, PapersLate, StagedLate,
       AnchoredIsVisible
<1>2. ControlTyped'
  BY GotoTyped, AnswerTyped
  DEF Stages, Replies, Successes
<1>3. DataTyped'
  BY DEF DataTyped, Documents
<1>4. LeasesOK'
  BY DEF LeasesOK, DataTyped
<1>5. StageLeases'
  BY DEF StageLeases, DataTyped, LeasesOK, Alone, ControlTyped, Goto, Answer
<1>6. StageLocks'
  BY DEF StageLocks, DataTyped, Locked, Uncertified, ControlTyped, Goto,
       Answer
<1>7. HostSeen'
  BY DEF HostSeen, ControlTyped, Goto, Answer
<1>8. ArchiveSeen'
  BY DEF ArchiveSeen, Archived, Compared, Uncertified, ControlTyped, Goto,
       Answer
<1>9. RestoreLost'
  BY DEF RestoreLost, Journaled, Uncertified, ControlTyped, Goto, Answer
<1>10. TreeThere'
  BY DEF TreeThere, Uncertified, ControlTyped, Goto, Answer
<1>11. PapersOK'
  BY DEF PapersOK, Journaled, Uncertified, Documents, ControlTyped, Goto,
       Answer
<1>12. AnswersLeave'
  BY DEF AnswersLeave, ControlTyped, Goto, Answer
<1>13. SuccessHolds'
  BY DEF SuccessHolds, AnswersLeave, Successes, ControlTyped, Goto, Answer,
       LeasesOK
<1>14. RestoredHolds'
  BY DEF RestoredHolds, AnswersLeave, ControlTyped, Goto, Answer
<1>15. FailsClosed'
  BY DEF FailsClosed, Uncertified, ControlTyped, Goto, Answer
<1>. QED
  BY <1>1, <1>2, <1>3, <1>4, <1>5, <1>6, <1>7, <1>8, <1>9, <1>10, <1>11,
       <1>12, <1>13, <1>14, <1>15
  DEF IInv

LEMMA CaptureKeeps ==
    ASSUME IInv, NEW p \in Procs, Capture(p)
    PROVE  IInv'
<1> USE DEF IInv, Capture, See, Decide, boundary, project, backups, locals,
        history
<1>1. /\ DirsOK' /\ LeasesOK' /\ OneArchive' /\ JournalLost' /\ PapersLate'
      /\ StagedLate' /\ AnchoredIsVisible'
  BY DEF DirsOK, LeasesOK, OneArchive, JournalLost, PapersLate, StagedLate,
       AnchoredIsVisible
<1>2. ControlTyped'
  BY GotoTyped, AnswerTyped
  DEF Stages, Replies, Successes
<1>3. DataTyped'
  <2>1. dest.wal \in Nat
    BY DEF DirsOK, Vacant, Blocked, Dir
  <2>. QED
    BY <2>1 DEF DataTyped
<1>4. StageLeases'
  BY DEF StageLeases, Alone, ControlTyped, Goto, Answer
<1>5. StageLocks'
  BY DEF StageLocks, DataTyped, Locked, Uncertified, ControlTyped, Goto,
       Answer
<1>6. HostSeen'
  BY DEF HostSeen, DataTyped, ControlTyped, Goto, Answer
<1>7. ArchiveSeen'
  BY DEF ArchiveSeen, DataTyped, OneArchive, StageLocks, Locked, Archived,
       Compared, Uncertified, ControlTyped, Goto, Answer
<1>8. RestoreLost'
  BY DEF RestoreLost, Journaled, Uncertified, ControlTyped, Goto, Answer
<1>9. TreeThere'
  BY DEF TreeThere, Uncertified, DataTyped, ControlTyped, Goto, Answer
<1>10. PapersOK'
  BY DEF PapersOK, Journaled, Uncertified, Documents, ControlTyped, Goto,
       Answer
<1>11. AnswersLeave'
  BY DEF AnswersLeave, ControlTyped, Goto, Answer
<1>12. SuccessHolds'
  BY DEF SuccessHolds, AnswersLeave, Successes, ControlTyped, Goto, Answer
<1>13. RestoredHolds'
  BY DEF RestoredHolds, AnswersLeave, ControlTyped, Goto, Answer
<1>14. FailsClosed'
  BY DEF FailsClosed, Uncertified, ControlTyped, Goto, Answer
<1>. QED
  BY <1>1, <1>2, <1>3, <1>4, <1>5, <1>6, <1>7, <1>8, <1>9, <1>10, <1>11,
       <1>12, <1>13, <1>14
  DEF IInv

LEMMA VerifyAnchorKeeps ==
    ASSUME IInv, NEW p \in Procs, VerifyAnchor(p)
    PROVE  IInv'
<1> USE DEF IInv, VerifyAnchor, Decide, boundary, project, backups, locals,
        history
<1>1. /\ DataTyped' /\ DirsOK' /\ LeasesOK' /\ OneArchive' /\ JournalLost'
      /\ PapersLate' /\ StagedLate' /\ AnchoredIsVisible'
  BY DEF DataTyped, DirsOK, LeasesOK, OneArchive, JournalLost, PapersLate,
       StagedLate, AnchoredIsVisible
<1>2. ControlTyped'
  BY GotoTyped, AnswerTyped
  DEF Stages, Replies, Successes
<1>3. StageLeases'
  BY DEF StageLeases, Alone, ControlTyped, Goto, Answer
<1>4. StageLocks'
  BY DEF StageLocks, DataTyped, Locked, Uncertified, ControlTyped, Goto,
       Answer
<1>5. HostSeen'
  BY DEF HostSeen, ControlTyped, Goto, Answer
<1>6. ArchiveSeen'
  BY DEF ArchiveSeen, DataTyped, OneArchive, StageLocks, Locked, Archived,
       Compared, Uncertified, ControlTyped, Goto, Answer
<1>7. RestoreLost'
  BY DEF RestoreLost, Journaled, Uncertified, ControlTyped, Goto, Answer
<1>8. TreeThere'
  BY DEF TreeThere, Uncertified, ControlTyped, Goto, Answer
<1>9. PapersOK'
  BY DEF PapersOK, Journaled, Uncertified, Documents, ControlTyped, Goto,
       Answer
<1>10. AnswersLeave'
  BY DEF AnswersLeave, ControlTyped, Goto, Answer
<1>11. SuccessHolds'
  BY DEF SuccessHolds, AnswersLeave, Successes, ControlTyped, Goto, Answer
<1>12. RestoredHolds'
  BY DEF RestoredHolds, AnswersLeave, ControlTyped, Goto, Answer
<1>13. FailsClosed'
  BY DEF FailsClosed, Uncertified, ControlTyped, Goto, Answer
<1>. QED
  BY <1>1, <1>2, <1>3, <1>4, <1>5, <1>6, <1>7, <1>8, <1>9, <1>10, <1>11,
       <1>12, <1>13
  DEF IInv

LEMMA PublishArchiveKeeps ==
    ASSUME IInv, NEW p \in Procs, PublishArchive(p)
    PROVE  IInv'
<1> USE DEF IInv, PublishArchive, boundary, project, backups, locals, history
<1>1. /\ DirsOK' /\ LeasesOK' /\ PapersLate' /\ StagedLate'
      /\ AnchoredIsVisible'
  BY DEF DirsOK, LeasesOK, PapersLate, StagedLate, AnchoredIsVisible
<1>2. ControlTyped'
  BY GotoTyped, AnswerTyped
  DEF Stages, Replies, Successes
<1>3. DataTyped'
  BY DEF DataTyped, Documents
<1>4. StageLeases'
  BY DEF StageLeases, Alone, ControlTyped, Goto, Answer
<1>5. StageLocks'
  BY DEF StageLocks, DataTyped, Locked, Uncertified, ControlTyped, Goto,
       Answer
<1>6. HostSeen'
  BY DEF HostSeen, ControlTyped, Goto, Answer
<1>7. OneArchive'
  BY DEF OneArchive, DataTyped, ArchiveSeen, Archived, Uncertified
<1>8. ArchiveSeen'
  BY DEF ArchiveSeen, DataTyped, OneArchive, StageLocks, Locked, Archived,
       Compared, Uncertified, ControlTyped, Goto, Answer
<1>9. RestoreLost'
  BY DEF RestoreLost, Journaled, Uncertified, ControlTyped, Goto, Answer
<1>10. JournalLost'
  BY DEF JournalLost, DataTyped, RestoreLost, ArchiveSeen, OneArchive,
       Archived, Compared, Journaled, Uncertified
<1>11. TreeThere'
  BY DEF TreeThere, Uncertified, ControlTyped, Goto, Answer
<1>12. PapersOK'
  BY DEF PapersOK, Journaled, Uncertified, Documents, ControlTyped, Goto,
       Answer
<1>13. AnswersLeave'
  BY DEF AnswersLeave, ControlTyped, Goto, Answer
<1>14. SuccessHolds'
  BY DEF SuccessHolds, AnswersLeave, Successes, ControlTyped, Goto, Answer,
       StageLocks, Locked, Uncertified
<1>15. RestoredHolds'
  BY DEF RestoredHolds, AnswersLeave, ControlTyped, Goto, Answer
<1>16. FailsClosed'
  BY DEF FailsClosed, Uncertified, ControlTyped, Goto, Answer
<1>. QED
  BY <1>1, <1>2, <1>3, <1>4, <1>5, <1>6, <1>7, <1>8, <1>9, <1>10, <1>11,
       <1>12, <1>13, <1>14, <1>15, <1>16
  DEF IInv

LEMMA PublishBackupReceiptKeeps ==
    ASSUME IInv, NEW p \in Procs, PublishBackupReceipt(p)
    PROVE  IInv'
<1> USE DEF IInv, PublishBackupReceipt, boundary, project, backups, locals,
        history
<1>1. /\ DirsOK' /\ LeasesOK' /\ OneArchive' /\ JournalLost' /\ PapersLate'
      /\ StagedLate' /\ SuccessHolds' /\ RestoredHolds' /\ AnchoredIsVisible'
  BY DEF DirsOK, LeasesOK, OneArchive, JournalLost, PapersLate, StagedLate,
       SuccessHolds, RestoredHolds, AnchoredIsVisible, Goto
<1>2. ControlTyped'
  BY GotoTyped
  DEF Stages
<1>3. DataTyped'
  BY DEF DataTyped, Documents
<1>4. StageLeases'
  BY DEF StageLeases, Alone, ControlTyped, Goto
<1>5. StageLocks'
  BY DEF StageLocks, DataTyped, Locked, Uncertified, ControlTyped, Goto
<1>6. HostSeen'
  BY DEF HostSeen, ControlTyped, Goto
<1>7. ArchiveSeen'
  BY DEF ArchiveSeen, DataTyped, OneArchive, StageLocks, Locked, Archived,
       Compared, Uncertified, ControlTyped, Goto
<1>8. RestoreLost'
  BY DEF RestoreLost, Journaled, Uncertified, ControlTyped, Goto
<1>9. TreeThere'
  BY DEF TreeThere, Uncertified, ControlTyped, Goto
<1>10. PapersOK'
  BY DEF PapersOK, Journaled, Uncertified, Documents, ControlTyped, Goto
<1>11. AnswersLeave'
  BY DEF AnswersLeave, ControlTyped, Goto
<1>12. FailsClosed'
  BY DEF FailsClosed, Uncertified, ControlTyped, Goto
<1>. QED
  BY <1>1, <1>2, <1>3, <1>4, <1>5, <1>6, <1>7, <1>8, <1>9, <1>10, <1>11, <1>12
  DEF IInv

LEMMA VerifyBackupKeeps ==
    ASSUME IInv, NEW p \in Procs, VerifyBackup(p)
    PROVE  IInv'
<1> USE DEF IInv, VerifyBackup, boundary, project, backups, locals, history
<1>1. /\ DataTyped' /\ DirsOK' /\ LeasesOK' /\ OneArchive' /\ JournalLost'
      /\ PapersLate' /\ StagedLate' /\ AnchoredIsVisible'
  BY DEF DataTyped, DirsOK, LeasesOK, OneArchive, JournalLost, PapersLate,
       StagedLate, AnchoredIsVisible
<1>2. ControlTyped'
  BY AnswerTyped
  DEF Stages, Replies, Successes
<1>3. StageLeases'
  BY DEF StageLeases, Alone, ControlTyped, Answer
<1>4. StageLocks'
  BY DEF StageLocks, DataTyped, Locked, Uncertified, ControlTyped, Answer
<1>5. HostSeen'
  BY DEF HostSeen, ControlTyped, Answer
<1>6. ArchiveSeen'
  BY DEF ArchiveSeen, Archived, Compared, Uncertified, ControlTyped, Answer
<1>7. RestoreLost'
  BY DEF RestoreLost, Journaled, Uncertified, ControlTyped, Answer
<1>8. TreeThere'
  BY DEF TreeThere, Uncertified, ControlTyped, Answer
<1>9. PapersOK'
  BY DEF PapersOK, Journaled, Uncertified, Documents, ControlTyped, Answer
<1>10. AnswersLeave'
  BY DEF AnswersLeave, ControlTyped, Answer
<1>11. SuccessHolds'
  BY NoTreeFacts DEF SuccessHolds, AnswersLeave, Successes, Answer, ControlTyped, StageLocks,
     Locked, StageLeases, Alone, ArchiveSeen, Archived, DirsOK, TreeThere
<1>12. RestoredHolds'
  BY DEF RestoredHolds, AnswersLeave, ControlTyped, Answer
<1>13. FailsClosed'
  BY DEF FailsClosed, Uncertified, ControlTyped, Answer
<1>. QED
  BY <1>1, <1>2, <1>3, <1>4, <1>5, <1>6, <1>7, <1>8, <1>9, <1>10, <1>11,
       <1>12, <1>13
  DEF IInv

LEMMA PlanKeeps ==
    ASSUME IInv, NEW p \in Procs, Plan(p)
    PROVE  IInv'
<1> USE DEF IInv, Plan, See, boundary, project, backups, locals, history
<1>1. /\ DirsOK' /\ LeasesOK' /\ OneArchive' /\ JournalLost' /\ PapersLate'
      /\ StagedLate' /\ AnchoredIsVisible'
  BY DEF DirsOK, LeasesOK, OneArchive, JournalLost, PapersLate, StagedLate,
       AnchoredIsVisible
<1>2. ControlTyped'
  BY GotoTyped, AnswerTyped
  DEF Stages, Replies, Successes
<1>3. DataTyped'
  BY DEF DataTyped, Documents
<1>4. StageLeases'
  BY DEF StageLeases, Alone, ControlTyped, Goto, Answer
<1>5. StageLocks'
  BY DEF StageLocks, DataTyped, Locked, Uncertified, ControlTyped, Goto,
       Answer
<1>6. HostSeen'
  BY DEF HostSeen, DataTyped, ControlTyped, Goto, Answer
<1>7. ArchiveSeen'
  BY DEF ArchiveSeen, DataTyped, OneArchive, StageLocks, Locked, Archived,
       Compared, Uncertified, ControlTyped, Goto, Answer
<1>8. RestoreLost'
  BY DEF RestoreLost, Journaled, Uncertified, ControlTyped, Goto, Answer
<1>9. TreeThere'
  BY DEF TreeThere, Uncertified, DataTyped, ControlTyped, Goto, Answer
<1>10. PapersOK'
  BY DEF PapersOK, Journaled, Uncertified, Documents, ControlTyped, Goto,
       Answer
<1>11. AnswersLeave'
  BY DEF AnswersLeave, ControlTyped, Goto, Answer
<1>12. SuccessHolds'
  BY DEF SuccessHolds, AnswersLeave, Successes, ControlTyped, Goto, Answer
<1>13. RestoredHolds'
  BY DEF RestoredHolds, AnswersLeave, ControlTyped, Goto, Answer
<1>14. FailsClosed'
  BY DEF FailsClosed, Uncertified, ControlTyped, Goto, Answer
<1>. QED
  BY <1>1, <1>2, <1>3, <1>4, <1>5, <1>6, <1>7, <1>8, <1>9, <1>10, <1>11,
       <1>12, <1>13, <1>14
  DEF IInv

LEMMA LookKeeps ==
    ASSUME IInv, NEW p \in Procs, Look(p)
    PROVE  IInv'
<1> USE DEF IInv, Look, boundary, project, backups, locals, history
<1>1. /\ DataTyped' /\ DirsOK' /\ LeasesOK' /\ OneArchive' /\ JournalLost'
      /\ PapersLate' /\ StagedLate' /\ SuccessHolds' /\ RestoredHolds'
      /\ AnchoredIsVisible'
  BY DEF DataTyped, DirsOK, LeasesOK, OneArchive, JournalLost, PapersLate,
       StagedLate, SuccessHolds, RestoredHolds, AnchoredIsVisible, Goto
<1>2. ControlTyped'
  BY GotoTyped
  DEF Stages
<1>3. StageLeases'
  BY DEF StageLeases, Alone, ControlTyped, Goto
<1>4. StageLocks'
  BY DEF StageLocks, DataTyped, Locked, Uncertified, ControlTyped, Goto
<1>5. HostSeen'
  BY DEF HostSeen, ControlTyped, Goto
<1>6. ArchiveSeen'
  BY DEF ArchiveSeen, Archived, Compared, Uncertified, ControlTyped, Goto
<1>7. RestoreLost'
  BY DEF RestoreLost, Journaled, Uncertified, ControlTyped, Goto
<1>8. TreeThere'
  BY DEF TreeThere, Uncertified, ControlTyped, Goto
<1>9. PapersOK'
  BY DEF PapersOK, Journaled, Uncertified, Documents, ControlTyped, Goto
<1>10. AnswersLeave'
  BY DEF AnswersLeave, ControlTyped, Goto
<1>11. FailsClosed'
  BY DEF FailsClosed, Uncertified, ControlTyped, Goto
<1>. QED
  BY <1>1, <1>2, <1>3, <1>4, <1>5, <1>6, <1>7, <1>8, <1>9, <1>10, <1>11
  DEF IInv

LEMMA RetainAuthorityKeeps ==
    ASSUME IInv, NEW p \in Procs, RetainAuthority(p)
    PROVE  IInv'
<1> USE DEF IInv, RetainAuthority, Decide, boundary, project, backups, locals,
        history
<1>1. /\ DirsOK' /\ LeasesOK' /\ OneArchive' /\ JournalLost' /\ PapersLate'
      /\ StagedLate' /\ AnchoredIsVisible'
  BY DEF DirsOK, LeasesOK, OneArchive, JournalLost, PapersLate, StagedLate,
       AnchoredIsVisible
<1>2. ControlTyped'
  BY GotoTyped, AnswerTyped
  DEF Stages, Replies, Successes
<1>3. DataTyped'
  BY DEF DataTyped, Documents
<1>4. StageLeases'
  BY DEF StageLeases, Alone, ControlTyped, Goto, Answer
<1>5. StageLocks'
  BY ProcsAssumption
  DEF StageLocks, DataTyped, Locked, Uncertified, ControlTyped, Goto, Answer
<1>6. HostSeen'
  BY DEF HostSeen, ControlTyped, Goto, Answer
<1>7. ArchiveSeen'
  BY DEF ArchiveSeen, DataTyped, OneArchive, StageLocks, Locked, Archived,
       Compared, Uncertified, ControlTyped, Goto, Answer
<1>8. RestoreLost'
  BY DEF RestoreLost, Journaled, Uncertified, ControlTyped, Goto, Answer
<1>9. TreeThere'
  BY DEF TreeThere, Uncertified, ControlTyped, Goto, Answer
<1>10. PapersOK'
  BY DEF PapersOK, Journaled, Uncertified, Documents, ControlTyped, Goto,
       Answer
<1>11. AnswersLeave'
  BY DEF AnswersLeave, ControlTyped, Goto, Answer
<1>12. SuccessHolds'
  BY ProcsAssumption
  DEF SuccessHolds, AnswersLeave, Successes, ControlTyped, Goto, Answer
<1>13. RestoredHolds'
  BY DEF RestoredHolds, AnswersLeave, ControlTyped, Goto, Answer
<1>14. FailsClosed'
  BY DEF FailsClosed, Uncertified, ControlTyped, Goto, Answer
<1>. QED
  BY <1>1, <1>2, <1>3, <1>4, <1>5, <1>6, <1>7, <1>8, <1>9, <1>10, <1>11,
       <1>12, <1>13, <1>14
  DEF IInv

LEMMA InspectKeeps ==
    ASSUME IInv, NEW p \in Procs, Inspect(p)
    PROVE  IInv'
<1> USE DEF IInv, Inspect, Resumable, Completed, Published, Exact, boundary,
        project, backups, locals, history
<1>1. /\ DirsOK' /\ LeasesOK' /\ OneArchive' /\ JournalLost' /\ PapersLate'
      /\ StagedLate' /\ AnchoredIsVisible'
  BY DEF DirsOK, LeasesOK, OneArchive, JournalLost, PapersLate, StagedLate,
       AnchoredIsVisible
<1>2. ControlTyped'
  BY GotoTyped, AnswerTyped
  DEF Stages, Replies, Successes
<1>3. DataTyped'
  BY DEF DataTyped, Documents
<1>4. StageLeases'
  BY DEF StageLeases, Alone, ControlTyped, Goto, Answer
<1>5. StageLocks'
  BY DEF StageLocks, DataTyped, Locked, Uncertified, ControlTyped, Goto,
       Answer
<1>6. HostSeen'
  BY DEF HostSeen, ControlTyped, Goto, Answer
<1>7. ArchiveSeen'
  BY DEF ArchiveSeen, Archived, Compared, Uncertified, ControlTyped, Goto,
       Answer
<1>8. RestoreLost'
  <2>1. CASE Resumable /\ Goto(p, "journal")
    <3>1. lost /\ anchor <= base
      BY <2>1, NoTreeFacts DEF AnchoredIsVisible, DataTyped
    <3>. QED
      BY <2>1, <3>1 DEF RestoreLost, Goto, ControlTyped
  <2>2. CASE Completed(p) /\ Goto(p, "select")
    <3>1. lost /\ anchor <= base
      BY <2>2 DEF Documents, JournalLost, ArchiveSeen, Archived, Compared
    <3>. QED
      BY <2>2, <3>1 DEF RestoreLost, Goto, ControlTyped
  <2>3. CASE Answer(p, "Interrupted")
    BY <2>3 DEF RestoreLost, Answer, ControlTyped, Journaled, Uncertified
  <2>. QED
    BY <2>1, <2>2, <2>3
<1>9. TreeThere'
  BY TreeFacts, NoTreeFacts
  DEF TreeThere, DataTyped, DirsOK, StageLocks, StageLeases, LeasesOK, Alone,
       Locked, Uncertified, ControlTyped, Goto, Answer
<1>10. PapersOK'
  BY DEF PapersOK, DataTyped, StageLocks, Locked, Documents, Journaled,
       Uncertified, ControlTyped, Goto, Answer
<1>11. AnswersLeave'
  BY DEF AnswersLeave, ControlTyped, Goto, Answer
<1>12. SuccessHolds'
  BY DEF SuccessHolds, AnswersLeave, Successes, ControlTyped, Goto, Answer
<1>13. RestoredHolds'
  BY DEF RestoredHolds, AnswersLeave, DataTyped, ControlTyped, Goto, Answer,
       SuccessHolds, Successes
<1>14. FailsClosed'
  BY DEF FailsClosed, Uncertified, ControlTyped, Goto, Answer
<1>. QED
  BY <1>1, <1>2, <1>3, <1>4, <1>5, <1>6, <1>7, <1>8, <1>9, <1>10, <1>11,
       <1>12, <1>13, <1>14
  DEF IInv

LEMMA JournalKeeps ==
    ASSUME IInv, NEW p \in Procs, Journal(p)
    PROVE  IInv'
<1> USE DEF IInv, Journal, Publish, boundary, project, backups, locals,
        history
<1>1. /\ DirsOK' /\ LeasesOK' /\ OneArchive' /\ SuccessHolds'
      /\ AnchoredIsVisible'
  BY DEF DirsOK, LeasesOK, OneArchive, SuccessHolds, AnchoredIsVisible, Goto
<1>2. ControlTyped'
  BY GotoTyped
  DEF Stages
<1>3. DataTyped'
  BY DEF DataTyped, Documents
<1>4. StageLeases'
  BY DEF StageLeases, Alone, ControlTyped, Goto
<1>5. StageLocks'
  BY DEF StageLocks, DataTyped, Locked, Uncertified, ControlTyped, Goto
<1>6. HostSeen'
  BY DEF HostSeen, ControlTyped, Goto
<1>7. ArchiveSeen'
  BY DEF ArchiveSeen, Archived, Compared, Uncertified, ControlTyped, Goto
<1>8. RestoreLost'
  BY DEF RestoreLost, Journaled, Uncertified, ControlTyped, Goto
<1>9. JournalLost'
  BY DEF JournalLost, DataTyped, RestoreLost, ArchiveSeen, OneArchive,
       Archived, Compared, Journaled, Uncertified
<1>10. TreeThere'
  BY DEF TreeThere, Uncertified, ControlTyped, Goto
<1>11. PapersOK'
  BY DEF PapersOK, DataTyped, StageLocks, Locked, Documents, Journaled,
       Uncertified, ControlTyped, Goto
<1>12. PapersLate'
  BY TreeFacts, NoTreeFacts
  DEF PapersLate, DataTyped, TreeThere, RestoreLost, Documents, Journaled,
       Uncertified
<1>13. StagedLate'
  BY DEF StagedLate, DataTyped, PapersOK, Documents, Journaled, Uncertified
<1>14. AnswersLeave'
  BY DEF AnswersLeave, ControlTyped, Goto
<1>15. RestoredHolds'
  BY DEF RestoredHolds, AnswersLeave, DataTyped, ControlTyped, Goto,
       SuccessHolds, Successes, StageLocks, Locked, Uncertified, PapersOK,
       Documents, Journaled
<1>16. FailsClosed'
  BY DEF FailsClosed, Uncertified, DataTyped, ControlTyped, Goto, Documents
<1>. QED
  BY <1>1, <1>2, <1>3, <1>4, <1>5, <1>6, <1>7, <1>8, <1>9, <1>10, <1>11,
       <1>12, <1>13, <1>14, <1>15, <1>16
  DEF IInv

LEMMA StageKeeps ==
    ASSUME IInv, NEW p \in Procs, Stage(p)
    PROVE  IInv'
<1>a. UNCHANGED <<boundary, anchor, anchorLock, dest, backups, paper, pc, op, reply,
                  locals, history>>
  BY DEF Stage
<1>b. pc[p] = "stage" /\ staging.members < Members
      /\ staging' = Staged(seen[p], staging.members + 1)
  BY DEF Stage
<1> USE <1>a DEF IInv, boundary, backups, locals, history
<1>1. /\ ControlTyped' /\ DataTyped' /\ LeasesOK' /\ StageLeases'
      /\ StageLocks' /\ HostSeen' /\ OneArchive' /\ ArchiveSeen'
  BY DEF ControlTyped, DataTyped, LeasesOK, StageLeases, StageLocks, HostSeen,
       OneArchive, ArchiveSeen
<1>2. /\ RestoreLost' /\ JournalLost' /\ TreeThere' /\ PapersOK' /\ PapersLate'
  BY DEF RestoreLost, JournalLost, TreeThere, PapersOK, PapersLate
<1>3. /\ AnswersLeave' /\ SuccessHolds' /\ RestoredHolds'
      /\ AnchoredIsVisible' /\ FailsClosed'
  BY DEF AnswersLeave, SuccessHolds, RestoredHolds, AnchoredIsVisible,
       FailsClosed
<1>4. DirsOK'
  <2>1. seen[p] \in Nat
    BY DEF DataTyped
  <2>. QED
    BY <1>b, <2>1, SidecarFacts DEF DirsOK
<1>5. StagedLate'
  BY <1>b DEF StagedLate, PapersOK, Journaled
<1>. QED
  BY <1>1, <1>2, <1>3, <1>4, <1>5
  DEF IInv

LEMMA ExchangeKeeps ==
    ASSUME IInv, NEW p \in Procs, Exchange(p)
    PROVE  IInv'
<1> USE DEF IInv, Exchange, boundary, project, backups, locals, history
<1>1. /\ DataTyped' /\ LeasesOK' /\ OneArchive' /\ JournalLost'
      /\ PapersLate' /\ SuccessHolds' /\ RestoredHolds' /\ AnchoredIsVisible'
  BY DEF DataTyped, LeasesOK, OneArchive, JournalLost, PapersLate,
       SuccessHolds, RestoredHolds, AnchoredIsVisible, Goto
<1>2. ControlTyped'
  BY GotoTyped
  DEF Stages
<1>3. DirsOK'
  BY TreeFacts, NoTreeFacts, SidecarFacts
  DEF DirsOK, DataTyped
<1>4. StageLeases'
  BY DEF StageLeases, Alone, ControlTyped, Goto
<1>5. StageLocks'
  BY DEF StageLocks, DataTyped, Locked, Uncertified, ControlTyped, Goto
<1>6. HostSeen'
  BY DEF HostSeen, ControlTyped, Goto
<1>7. ArchiveSeen'
  BY DEF ArchiveSeen, Archived, Compared, Uncertified, ControlTyped, Goto
<1>8. RestoreLost'
  BY DEF RestoreLost, Journaled, Uncertified, ControlTyped, Goto
<1>9. TreeThere'
  BY DEF TreeThere, Uncertified, ControlTyped, Goto
<1>10. PapersOK'
  BY DEF PapersOK, Journaled, Uncertified, Documents, ControlTyped, Goto
<1>11. StagedLate'
  BY DEF StagedLate, DataTyped, PapersOK, Documents, Journaled, Uncertified
<1>12. AnswersLeave'
  BY DEF AnswersLeave, ControlTyped, Goto
<1>13. FailsClosed'
  BY DEF FailsClosed, Uncertified, ControlTyped, Goto
<1>. QED
  BY <1>1, <1>2, <1>3, <1>4, <1>5, <1>6, <1>7, <1>8, <1>9, <1>10, <1>11,
       <1>12, <1>13
  DEF IInv

LEMMA RenameKeeps ==
    ASSUME IInv, NEW p \in Procs, Rename(p)
    PROVE  IInv'
<1> USE DEF IInv, Rename, boundary, project, backups, locals, history
<1>1. /\ DataTyped' /\ LeasesOK' /\ OneArchive' /\ JournalLost'
  BY DEF DataTyped, LeasesOK, OneArchive, JournalLost
<1>2. ControlTyped'
  BY GotoTyped, AnswerTyped
  DEF Stages, Replies, Successes
<1>3. DirsOK'
  BY TreeFacts, NoTreeFacts
  DEF DirsOK, DataTyped
<1>4. StageLeases'
  BY DEF StageLeases, Alone, ControlTyped, Goto, Answer
<1>5. StageLocks'
  BY DEF StageLocks, DataTyped, Locked, Uncertified, ControlTyped, Goto,
       Answer
<1>6. HostSeen'
  BY TreeFacts, NoTreeFacts
  DEF HostSeen, DataTyped, DirsOK, StageLocks, Locked, Uncertified,
       ControlTyped, Goto, Answer
<1>7. ArchiveSeen'
  BY DEF ArchiveSeen, Archived, Compared, Uncertified, ControlTyped, Goto,
       Answer
<1>8. RestoreLost'
  BY DEF RestoreLost, Journaled, Uncertified, ControlTyped, Goto, Answer
<1>9. TreeThere'
  <2>1. seen[p] \in Nat
    BY DEF DataTyped
  <2>2. CASE dest = Vacant
    <3>1. dest' = Tree(seen[p]) /\ IsTree(dest') /\ Goto(p, "finalize")
      BY <2>1, <2>2, TreeFacts
    <3>2. ~IsTree(dest)
      BY <2>2, NoTreeFacts
    <3>. QED
      BY <3>1, <3>2 DEF TreeThere, Uncertified, Goto, ControlTyped
  <2>3. CASE dest # Vacant
    BY <2>3 DEF TreeThere, Uncertified, Answer, ControlTyped
  <2>. QED
    BY <2>2, <2>3
<1>10. PapersOK'
  BY DEF PapersOK, Journaled, Uncertified, Documents, ControlTyped, Goto,
       Answer
<1>11. PapersLate'
  BY TreeFacts, NoTreeFacts
  DEF PapersLate, DataTyped, TreeThere, RestoreLost, Documents, Journaled,
       Uncertified
<1>12. StagedLate'
  BY DEF StagedLate, DataTyped, PapersOK, Documents, Journaled, Uncertified
<1>13. AnswersLeave'
  BY DEF AnswersLeave, ControlTyped, Goto, Answer
<1>14. SuccessHolds'
  BY DEF SuccessHolds, AnswersLeave, Successes, ControlTyped, Goto, Answer,
       StageLocks, Locked, Uncertified
<1>15. RestoredHolds'
  BY DEF RestoredHolds, AnswersLeave, ControlTyped, Goto, Answer
<1>16. AnchoredIsVisible'
  BY TreeFacts, NoTreeFacts
  DEF AnchoredIsVisible, DataTyped, DirsOK, HostSeen, RestoreLost, Journaled,
       Uncertified
<1>17. FailsClosed'
  BY TreeFacts, NoTreeFacts
  DEF FailsClosed, DataTyped, PapersOK, Documents, Journaled, Uncertified,
       ControlTyped, Goto, Answer
<1>. QED
  BY <1>1, <1>2, <1>3, <1>4, <1>5, <1>6, <1>7, <1>8, <1>9, <1>10, <1>11,
       <1>12, <1>13, <1>14, <1>15, <1>16, <1>17
  DEF IInv

LEMMA FinalizeKeeps ==
    ASSUME IInv, NEW p \in Procs, Finalize(p)
    PROVE  IInv'
<1> USE DEF IInv, Finalize, boundary, project, backups, locals, history
<1>1. /\ DataTyped' /\ LeasesOK' /\ OneArchive' /\ JournalLost'
      /\ PapersLate' /\ SuccessHolds' /\ RestoredHolds' /\ AnchoredIsVisible'
  BY DEF DataTyped, LeasesOK, OneArchive, JournalLost, PapersLate,
       SuccessHolds, RestoredHolds, AnchoredIsVisible, Goto
<1>2. ControlTyped'
  BY GotoTyped
  DEF Stages
<1>3. DirsOK'
  BY TreeFacts, NoTreeFacts
  DEF DirsOK, DataTyped
<1>4. StageLeases'
  BY DEF StageLeases, Alone, ControlTyped, Goto
<1>5. StageLocks'
  BY DEF StageLocks, DataTyped, Locked, Uncertified, ControlTyped, Goto
<1>6. HostSeen'
  BY DEF HostSeen, ControlTyped, Goto
<1>7. ArchiveSeen'
  BY DEF ArchiveSeen, Archived, Compared, Uncertified, ControlTyped, Goto
<1>8. RestoreLost'
  BY DEF RestoreLost, Journaled, Uncertified, ControlTyped, Goto
<1>9. TreeThere'
  BY DEF TreeThere, Uncertified, ControlTyped, Goto
<1>10. PapersOK'
  BY DEF PapersOK, Journaled, Uncertified, Documents, ControlTyped, Goto
<1>11. StagedLate'
  BY DEF StagedLate, DataTyped, PapersOK, Documents, Journaled, Uncertified
<1>12. AnswersLeave'
  BY DEF AnswersLeave, ControlTyped, Goto
<1>13. FailsClosed'
  BY DEF FailsClosed, Uncertified, ControlTyped, Goto
<1>. QED
  BY <1>1, <1>2, <1>3, <1>4, <1>5, <1>6, <1>7, <1>8, <1>9, <1>10, <1>11,
       <1>12, <1>13
  DEF IInv

LEMMA VerifyKeeps ==
    ASSUME IInv, NEW p \in Procs, Verify(p)
    PROVE  IInv'
<1> USE DEF IInv, Verify, Exact, boundary, project, backups, locals, history
<1>1. /\ DataTyped' /\ DirsOK' /\ LeasesOK' /\ OneArchive' /\ JournalLost'
      /\ PapersLate' /\ StagedLate' /\ SuccessHolds' /\ RestoredHolds'
      /\ AnchoredIsVisible'
  BY DEF DataTyped, DirsOK, LeasesOK, OneArchive, JournalLost, PapersLate,
       StagedLate, SuccessHolds, RestoredHolds, AnchoredIsVisible, Goto
<1>2. ControlTyped'
  BY GotoTyped
  DEF Stages
<1>3. StageLeases'
  BY DEF StageLeases, Alone, ControlTyped, Goto
<1>4. StageLocks'
  BY DEF StageLocks, DataTyped, Locked, Uncertified, ControlTyped, Goto
<1>5. HostSeen'
  BY DEF HostSeen, ControlTyped, Goto
<1>6. ArchiveSeen'
  BY DEF ArchiveSeen, Archived, Compared, Uncertified, ControlTyped, Goto
<1>7. RestoreLost'
  BY DEF RestoreLost, Journaled, Uncertified, ControlTyped, Goto
<1>8. TreeThere'
  BY TreeFacts, NoTreeFacts
  DEF TreeThere, DataTyped, DirsOK, StageLocks, StageLeases, LeasesOK, Alone,
       Locked, Uncertified, ControlTyped, Goto
<1>9. PapersOK'
  BY DEF PapersOK, Journaled, Uncertified, Documents, ControlTyped, Goto
<1>10. AnswersLeave'
  BY DEF AnswersLeave, ControlTyped, Goto
<1>11. FailsClosed'
  BY DEF FailsClosed, Uncertified, ControlTyped, Goto
<1>. QED
  BY <1>1, <1>2, <1>3, <1>4, <1>5, <1>6, <1>7, <1>8, <1>9, <1>10, <1>11
  DEF IInv

LEMMA CertifyKeeps ==
    ASSUME IInv, NEW p \in Procs, Certify(p)
    PROVE  IInv'
<1> USE DEF IInv, Certify, Publish, boundary, project, backups, locals,
        history
<1>1. /\ DirsOK' /\ LeasesOK' /\ OneArchive' /\ SuccessHolds'
      /\ AnchoredIsVisible'
  BY DEF DirsOK, LeasesOK, OneArchive, SuccessHolds, AnchoredIsVisible, Goto
<1>2. ControlTyped'
  BY GotoTyped
  DEF Stages
<1>3. DataTyped'
  BY DEF DataTyped, Documents
<1>4. StageLeases'
  BY DEF StageLeases, Alone, ControlTyped, Goto
<1>5. StageLocks'
  BY DEF StageLocks, DataTyped, Locked, Uncertified, ControlTyped, Goto
<1>6. HostSeen'
  BY DEF HostSeen, ControlTyped, Goto
<1>7. ArchiveSeen'
  BY DEF ArchiveSeen, Archived, Compared, Uncertified, ControlTyped, Goto
<1>8. RestoreLost'
  BY DEF RestoreLost, Journaled, Uncertified, ControlTyped, Goto
<1>9. JournalLost'
  BY DEF JournalLost, DataTyped, RestoreLost, ArchiveSeen, OneArchive,
       Archived, Compared, Journaled, Uncertified
<1>10. TreeThere'
  BY DEF TreeThere, Uncertified, ControlTyped, Goto
<1>11. PapersOK'
  BY DEF PapersOK, DataTyped, StageLocks, Locked, Documents, Journaled,
       Uncertified, ControlTyped, Goto
<1>12. PapersLate'
  BY TreeFacts, NoTreeFacts
  DEF PapersLate, DataTyped, TreeThere, RestoreLost, Documents, Journaled,
       Uncertified
<1>13. StagedLate'
  BY DEF StagedLate, DataTyped, PapersOK, Documents, Journaled, Uncertified
<1>14. AnswersLeave'
  BY DEF AnswersLeave, ControlTyped, Goto
<1>15. RestoredHolds'
  BY DEF RestoredHolds, AnswersLeave, DataTyped, ControlTyped, Goto,
       SuccessHolds, Successes, StageLocks, Locked, Uncertified, PapersOK,
       Documents, Journaled
<1>16. FailsClosed'
  BY DEF FailsClosed, Uncertified, DataTyped, ControlTyped, Goto
<1>. QED
  BY <1>1, <1>2, <1>3, <1>4, <1>5, <1>6, <1>7, <1>8, <1>9, <1>10, <1>11,
       <1>12, <1>13, <1>14, <1>15, <1>16
  DEF IInv

LEMMA SucceedKeeps ==
    ASSUME IInv, NEW p \in Procs, Succeed(p)
    PROVE  IInv'
<1> USE DEF IInv, Succeed, Publish, boundary, project, backups, locals,
        history
<1>1. /\ DirsOK' /\ LeasesOK' /\ OneArchive' /\ AnchoredIsVisible'
  BY DEF DirsOK, LeasesOK, OneArchive, AnchoredIsVisible
<1>2. ControlTyped'
  BY AnswerTyped
  DEF Stages, Replies, Successes
<1>3. DataTyped'
  BY DEF DataTyped, Documents
<1>4. StageLeases'
  BY DEF StageLeases, Alone, ControlTyped, Answer
<1>5. StageLocks'
  BY DEF StageLocks, DataTyped, Locked, Uncertified, ControlTyped, Answer
<1>6. HostSeen'
  BY DEF HostSeen, ControlTyped, Answer
<1>7. ArchiveSeen'
  BY DEF ArchiveSeen, Archived, Compared, Uncertified, ControlTyped, Answer
<1>8. RestoreLost'
  BY DEF RestoreLost, Journaled, Uncertified, ControlTyped, Answer
<1>9. JournalLost'
  BY DEF JournalLost, DataTyped, RestoreLost, ArchiveSeen, OneArchive,
       Archived, Compared, Journaled, Uncertified
<1>10. TreeThere'
  BY DEF TreeThere, Uncertified, ControlTyped, Answer
<1>11. PapersOK'
  BY DEF PapersOK, DataTyped, StageLocks, Locked, Documents, Journaled,
       Uncertified, ControlTyped, Answer
<1>12. PapersLate'
  BY TreeFacts, NoTreeFacts
  DEF PapersLate, DataTyped, TreeThere, RestoreLost, Documents, Journaled,
       Uncertified
<1>13. StagedLate'
  BY DEF StagedLate, DataTyped, PapersOK, Documents, Journaled, Uncertified
<1>14. AnswersLeave'
  BY DEF AnswersLeave, ControlTyped, Answer
<1>15. SuccessHolds'
  BY DEF SuccessHolds, AnswersLeave, Successes, ControlTyped, Answer,
       StageLocks, Locked, Uncertified, StageLeases, Alone, ArchiveSeen,
       Archived, Compared, TreeThere
<1>16. RestoredHolds'
  <2>1. \A q \in Procs \ {p} : reply'[q] \notin Successes
    BY DEF SuccessHolds, StageLocks, Locked, Uncertified, Answer, ControlTyped
  <2>2. \A d \in Documents : paper'[d] = nonce[p]
    BY DEF PapersOK, Documents, DataTyped, Journaled, Uncertified
  <2>. QED
    BY <2>1, <2>2 DEF RestoredHolds, Successes
<1>17. FailsClosed'
  BY TreeFacts, NoTreeFacts
  DEF FailsClosed, DataTyped, PapersOK, Documents, Journaled, Uncertified,
       ControlTyped, Answer
<1>. QED
  BY <1>1, <1>2, <1>3, <1>4, <1>5, <1>6, <1>7, <1>8, <1>9, <1>10, <1>11,
       <1>12, <1>13, <1>14, <1>15, <1>16, <1>17
  DEF IInv

LEMMA SelectKeeps ==
    ASSUME IInv, NEW p \in Procs, Select(p)
    PROVE  IInv'
<1> USE DEF IInv, Select, boundary, project, backups, locals, history
<1>1. /\ DataTyped' /\ LeasesOK' /\ OneArchive' /\ JournalLost'
      /\ PapersLate' /\ AnchoredIsVisible'
  BY DEF DataTyped, LeasesOK, OneArchive, JournalLost, PapersLate,
       AnchoredIsVisible
<1>2. ControlTyped'
  BY AnswerTyped
  DEF Stages, Replies, Successes
<1>3. DirsOK'
  BY TreeFacts, NoTreeFacts
  DEF DirsOK, DataTyped
<1>4. StageLeases'
  BY DEF StageLeases, Alone, ControlTyped, Answer
<1>5. StageLocks'
  BY DEF StageLocks, DataTyped, Locked, Uncertified, ControlTyped, Answer
<1>6. HostSeen'
  BY DEF HostSeen, ControlTyped, Answer
<1>7. ArchiveSeen'
  BY DEF ArchiveSeen, Archived, Compared, Uncertified, ControlTyped, Answer
<1>8. RestoreLost'
  BY DEF RestoreLost, Journaled, Uncertified, ControlTyped, Answer
<1>9. TreeThere'
  BY DEF TreeThere, Uncertified, ControlTyped, Answer
<1>10. PapersOK'
  BY DEF PapersOK, Journaled, Uncertified, Documents, ControlTyped, Answer
<1>11. StagedLate'
  BY DEF StagedLate, DataTyped, PapersOK, Documents, Journaled, Uncertified
<1>12. AnswersLeave'
  BY DEF AnswersLeave, ControlTyped, Answer
<1>13. SuccessHolds'
  BY DEF SuccessHolds, AnswersLeave, Successes, ControlTyped, Answer,
       StageLocks, Locked, Uncertified, StageLeases, Alone, ArchiveSeen,
       Archived, Compared, TreeThere
<1>14. RestoredHolds'
  BY DEF RestoredHolds, AnswersLeave, ControlTyped, Answer, PapersOK,
       Documents, Journaled
<1>15. FailsClosed'
  BY TreeFacts, NoTreeFacts
  DEF FailsClosed, DataTyped, PapersOK, Documents, Journaled, Uncertified,
       ControlTyped, Answer
<1>. QED
  BY <1>1, <1>2, <1>3, <1>4, <1>5, <1>6, <1>7, <1>8, <1>9, <1>10, <1>11,
       <1>12, <1>13, <1>14, <1>15
  DEF IInv

LEMMA IsolateKeeps ==
    ASSUME IInv, NEW p \in Procs, Isolate(p)
    PROVE  IInv'
<1> USE DEF IInv, Isolate, boundary, project, backups, locals, history
<1>1. /\ DataTyped' /\ LeasesOK' /\ OneArchive' /\ JournalLost' /\ StagedLate'
  BY DEF DataTyped, LeasesOK, OneArchive, JournalLost, StagedLate
<1>2. ControlTyped'
  BY AnswerTyped
  DEF Stages, Replies, Successes
<1>3. DirsOK'
  BY TreeFacts, NoTreeFacts
  DEF DirsOK, DataTyped
<1>4. StageLeases'
  BY DEF StageLeases, Alone, ControlTyped, Answer
<1>5. StageLocks'
  BY DEF StageLocks, DataTyped, Locked, Uncertified, ControlTyped, Answer
<1>6. HostSeen'
  BY TreeFacts, NoTreeFacts
  DEF HostSeen, DataTyped, DirsOK, StageLocks, Locked, Uncertified,
       ControlTyped, Answer
<1>7. ArchiveSeen'
  BY DEF ArchiveSeen, Archived, Compared, Uncertified, ControlTyped, Answer
<1>8. RestoreLost'
  BY DEF RestoreLost, Journaled, Uncertified, ControlTyped, Answer
<1>9. TreeThere'
  BY TreeFacts, NoTreeFacts
  DEF TreeThere, DataTyped, DirsOK, StageLocks, StageLeases, LeasesOK, Alone,
       Locked, Uncertified, ControlTyped, Answer
<1>10. PapersOK'
  BY DEF PapersOK, Journaled, Uncertified, Documents, ControlTyped, Answer
<1>11. PapersLate'
  BY TreeFacts, NoTreeFacts
  DEF PapersLate, DataTyped, TreeThere, RestoreLost, Documents, Journaled,
       Uncertified
<1>12. AnswersLeave'
  BY DEF AnswersLeave, ControlTyped, Answer
<1>13. SuccessHolds'
  BY DEF SuccessHolds, AnswersLeave, Successes, ControlTyped, Answer,
       StageLocks, Locked, Uncertified
<1>14. RestoredHolds'
  BY DEF RestoredHolds, AnswersLeave, ControlTyped, Answer
<1>15. AnchoredIsVisible'
  BY TreeFacts, NoTreeFacts
  DEF AnchoredIsVisible, DataTyped, DirsOK, HostSeen, RestoreLost, Journaled,
       Uncertified
<1>16. FailsClosed'
  BY TreeFacts, NoTreeFacts
  DEF FailsClosed, DataTyped, PapersOK, Documents, Journaled, Uncertified,
       ControlTyped, Answer
<1>. QED
  BY <1>1, <1>2, <1>3, <1>4, <1>5, <1>6, <1>7, <1>8, <1>9, <1>10, <1>11,
       <1>12, <1>13, <1>14, <1>15, <1>16
  DEF IInv

LEMMA BackupFailsKeeps ==
    ASSUME IInv, NEW p \in Procs, BackupFails(p)
    PROVE  IInv'
<1> USE DEF IInv, BackupFails, Faulty, boundary, project, backups, locals,
        history
<1>1. /\ DirsOK' /\ LeasesOK' /\ PapersLate' /\ StagedLate'
      /\ AnchoredIsVisible'
  BY DEF DirsOK, LeasesOK, PapersLate, StagedLate, AnchoredIsVisible
<1>2. ControlTyped'
  BY AnswerTyped
  DEF Stages, Replies, Successes
<1>3. DataTyped'
  <2>1. archive' \in {archive, {seen[p]}} /\ vouched' \in {vouched, vouched \cup {seen[p]}}
    OBVIOUS
  <2>2. archive' \in SUBSET Nat /\ vouched' \in SUBSET Nat
    BY <2>1 DEF DataTyped
  <2>3. faults' \in Nat
    BY DEF DataTyped
  <2>. QED
    BY <2>2, <2>3 DEF DataTyped
<1>4. StageLeases'
  BY DEF StageLeases, Alone, ControlTyped, Answer
<1>5. StageLocks'
  BY DEF StageLocks, DataTyped, Locked, Uncertified, ControlTyped, Answer
<1>6. HostSeen'
  BY DEF HostSeen, ControlTyped, Answer
<1>7. OneArchive'
  BY DEF OneArchive, DataTyped, ArchiveSeen, Archived, Uncertified
<1>8. ArchiveSeen'
  BY DEF ArchiveSeen, DataTyped, OneArchive, StageLocks, Locked, Archived,
       Compared, Uncertified, ControlTyped, Answer
<1>9. RestoreLost'
  BY DEF RestoreLost, Journaled, Uncertified, ControlTyped, Answer
<1>10. JournalLost'
  BY DEF JournalLost, DataTyped, RestoreLost, ArchiveSeen, OneArchive,
       Archived, Compared, Journaled, Uncertified
<1>11. TreeThere'
  BY DEF TreeThere, Uncertified, ControlTyped, Answer
<1>12. PapersOK'
  BY DEF PapersOK, Journaled, Uncertified, Documents, ControlTyped, Answer
<1>13. AnswersLeave'
  BY DEF AnswersLeave, ControlTyped, Answer
<1>14. SuccessHolds'
  BY DEF SuccessHolds, AnswersLeave, Successes, ControlTyped, Answer,
       StageLocks, Locked, Uncertified
<1>15. RestoredHolds'
  BY DEF RestoredHolds, AnswersLeave, ControlTyped, Answer
<1>16. FailsClosed'
  BY DEF FailsClosed, Uncertified, ControlTyped, Answer
<1>. QED
  BY <1>1, <1>2, <1>3, <1>4, <1>5, <1>6, <1>7, <1>8, <1>9, <1>10, <1>11,
       <1>12, <1>13, <1>14, <1>15, <1>16
  DEF IInv

LEMMA StagingFailsKeeps ==
    ASSUME IInv, NEW p \in Procs, StagingFails(p)
    PROVE  IInv'
<1> USE DEF IInv, StagingFails, Faulty, boundary, project, backups, locals,
        history
<1>1. /\ LeasesOK' /\ OneArchive' /\ JournalLost' /\ PapersLate'
      /\ AnchoredIsVisible'
  BY DEF LeasesOK, OneArchive, JournalLost, PapersLate, AnchoredIsVisible
<1>2. ControlTyped'
  BY AnswerTyped
  DEF Stages, Replies, Successes
<1>3. DataTyped'
  BY DEF DataTyped, Documents
<1>4. DirsOK'
  <2>1. seen[p] \in Nat
    BY DEF DataTyped
  <2>2. staging' \in {staging, Vacant, Spoiled(seen[p], staging), Tree(seen[p])}
    OBVIOUS
  <2>3. Spoiled(seen[p], staging) \in Sidecars
    BY <2>1, SidecarFacts DEF DirsOK
  <2>4. Tree(seen[p]) \in Sidecars
    BY <2>1, TreeFacts
  <2>. QED
    BY <2>2, <2>3, <2>4 DEF DirsOK
<1>5. StageLeases'
  BY DEF StageLeases, Alone, ControlTyped, Answer
<1>6. StageLocks'
  BY DEF StageLocks, DataTyped, Locked, Uncertified, ControlTyped, Answer
<1>7. HostSeen'
  BY DEF HostSeen, ControlTyped, Answer
<1>8. ArchiveSeen'
  BY DEF ArchiveSeen, Archived, Compared, Uncertified, ControlTyped, Answer
<1>9. RestoreLost'
  BY DEF RestoreLost, Journaled, Uncertified, ControlTyped, Answer
<1>10. TreeThere'
  BY DEF TreeThere, Uncertified, ControlTyped, Answer
<1>11. PapersOK'
  BY DEF PapersOK, Journaled, Uncertified, Documents, ControlTyped, Answer
<1>12. StagedLate'
  BY DEF StagedLate, DataTyped, PapersOK, Documents, Journaled, Uncertified
<1>13. AnswersLeave'
  BY DEF AnswersLeave, ControlTyped, Answer
<1>14. SuccessHolds'
  BY DEF SuccessHolds, AnswersLeave, Successes, ControlTyped, Answer
<1>15. RestoredHolds'
  BY DEF RestoredHolds, AnswersLeave, ControlTyped, Answer
<1>16. FailsClosed'
  BY DEF FailsClosed, Uncertified, ControlTyped, Answer
<1>. QED
  BY <1>1, <1>2, <1>3, <1>4, <1>5, <1>6, <1>7, <1>8, <1>9, <1>10, <1>11,
       <1>12, <1>13, <1>14, <1>15, <1>16
  DEF IInv

LEMMA PublishedFailsKeeps ==
    ASSUME IInv, NEW p \in Procs, PublishedFails(p)
    PROVE  IInv'
<1> USE DEF IInv, PublishedFails, Faulty, Publish, boundary, project, backups,
        locals, history
<1>1. /\ DirsOK' /\ LeasesOK' /\ OneArchive' /\ AnchoredIsVisible'
  BY DEF DirsOK, LeasesOK, OneArchive, AnchoredIsVisible
<1>2. ControlTyped'
  BY GotoTyped, AnswerTyped
  DEF Stages, Replies, Successes
<1>3. DataTyped'
  BY DEF DataTyped, Documents
<1>4. StageLeases'
  BY DEF StageLeases, Alone, ControlTyped, Goto, Answer
<1>5. StageLocks'
  BY DEF StageLocks, DataTyped, Locked, Uncertified, ControlTyped, Goto,
       Answer
<1>6. HostSeen'
  BY DEF HostSeen, ControlTyped, Goto, Answer
<1>7. ArchiveSeen'
  BY DEF ArchiveSeen, Archived, Compared, Uncertified, ControlTyped, Goto,
       Answer
<1>8. RestoreLost'
  BY DEF RestoreLost, Journaled, Uncertified, ControlTyped, Goto, Answer
<1>9. JournalLost'
  BY DEF JournalLost, DataTyped, RestoreLost, ArchiveSeen, OneArchive,
       Archived, Compared, Journaled, Uncertified
<1>10. TreeThere'
  BY DEF TreeThere, Uncertified, ControlTyped, Goto, Answer
<1>11. PapersOK'
  BY DEF PapersOK, DataTyped, StageLocks, Locked, Documents, Journaled,
       Uncertified, ControlTyped, Goto, Answer
<1>12. PapersLate'
  BY TreeFacts, NoTreeFacts
  DEF PapersLate, DataTyped, TreeThere, RestoreLost, Documents, Journaled,
       Uncertified
<1>13. StagedLate'
  BY DEF StagedLate, DataTyped, PapersOK, Documents, Journaled, Uncertified
<1>14. AnswersLeave'
  <2>1. CASE Goto(p, "isolate")
    BY <2>1 DEF AnswersLeave, Goto, ControlTyped, Uncertified
  <2>2. CASE Answer(p, "Error")
    BY <2>2 DEF AnswersLeave, Answer, ControlTyped
  <2>. QED
    BY <2>1, <2>2
<1>15. SuccessHolds'
  BY DEF SuccessHolds, AnswersLeave, Successes, ControlTyped, Goto, Answer
<1>16. RestoredHolds'
  <2>1. \A q \in Procs \ {p} : reply[q] \notin Successes
    BY DEF SuccessHolds, StageLocks, Locked, Uncertified
  <2>2. reply[p] = ""
    BY DEF AnswersLeave, ControlTyped, Uncertified
  <2>3. \A q \in Procs : reply'[q] \notin Successes
    BY <2>1, <2>2 DEF Goto, Answer, ControlTyped, Successes
  <2>. QED
    BY <2>3 DEF RestoredHolds, Successes
<1>17. FailsClosed'
  BY TreeFacts, NoTreeFacts
  DEF FailsClosed, DataTyped, PapersOK, Documents, Journaled, Uncertified,
       ControlTyped, Goto, Answer
<1>. QED
  BY <1>1, <1>2, <1>3, <1>4, <1>5, <1>6, <1>7, <1>8, <1>9, <1>10, <1>11,
       <1>12, <1>13, <1>14, <1>15, <1>16, <1>17
  DEF IInv

LEMMA IsolateFailsKeeps ==
    ASSUME IInv, NEW p \in Procs, IsolateFails(p)
    PROVE  IInv'
<1> USE DEF IInv, IsolateFails, Faulty, boundary, project, backups, locals,
        history
<1>1. /\ DirsOK' /\ LeasesOK' /\ OneArchive' /\ JournalLost' /\ PapersLate'
      /\ StagedLate' /\ AnchoredIsVisible'
  BY DEF DirsOK, LeasesOK, OneArchive, JournalLost, PapersLate, StagedLate,
       AnchoredIsVisible
<1>2. ControlTyped'
  BY AnswerTyped
  DEF Stages, Replies, Successes
<1>3. DataTyped'
  BY DEF DataTyped, Documents
<1>4. StageLeases'
  BY DEF StageLeases, Alone, ControlTyped, Answer
<1>5. StageLocks'
  BY DEF StageLocks, DataTyped, Locked, Uncertified, ControlTyped, Answer
<1>6. HostSeen'
  BY DEF HostSeen, ControlTyped, Answer
<1>7. ArchiveSeen'
  BY DEF ArchiveSeen, Archived, Compared, Uncertified, ControlTyped, Answer
<1>8. RestoreLost'
  BY DEF RestoreLost, Journaled, Uncertified, ControlTyped, Answer
<1>9. TreeThere'
  BY DEF TreeThere, Uncertified, ControlTyped, Answer
<1>10. PapersOK'
  BY DEF PapersOK, Journaled, Uncertified, Documents, ControlTyped, Answer
<1>11. AnswersLeave'
  BY DEF AnswersLeave, ControlTyped, Answer
<1>12. SuccessHolds'
  BY DEF SuccessHolds, AnswersLeave, Successes, ControlTyped, Answer
<1>13. RestoredHolds'
  BY DEF RestoredHolds, AnswersLeave, ControlTyped, Answer
<1>14. FailsClosed'
  BY TreeFacts, NoTreeFacts
  DEF FailsClosed, DataTyped, PapersOK, Documents, Journaled, Uncertified,
       ControlTyped, Answer
<1>. QED
  BY <1>1, <1>2, <1>3, <1>4, <1>5, <1>6, <1>7, <1>8, <1>9, <1>10, <1>11,
       <1>12, <1>13, <1>14
  DEF IInv

LEMMA CrashKeeps ==
    ASSUME IInv, NEW p \in Procs, Crash(p)
    PROVE  IInv'
<1>a. /\ held' = [l \in Procs |-> IF l = p THEN "none" ELSE held[l]]
      /\ closer' = IF closer = p THEN NoProc ELSE closer
      /\ anchorLock' = IF anchorLock = p THEN NoProc ELSE anchorLock
  BY ProcsAssumption DEF Crash, Boundary!Open, Boundary!End
<1>b. /\ pc' = [pc EXCEPT ![p] = "idle"]
      /\ op' = [op EXCEPT ![p] = "host"]
      /\ reply' = [reply EXCEPT ![p] = ""]
      /\ seen' = [seen EXCEPT ![p] = 0]
      /\ nonce' = [nonce EXCEPT ![p] = 0]
      /\ orphaned' = (orphaned \/ pc[p] \in Uncertified)
      /\ UNCHANGED <<anchor, dest, backups, paper, calls, faults, lost, base>>
  BY DEF Crash
<1>c. \/ staging' = staging
      \/ /\ pc[p] = "stage"
         /\ staging' \in {Staged(seen[p], staging.members), Spoiled(seen[p], staging)}
  BY DEF Crash
<1>d. crashes' \in Nat
  <2>1. crashes \in Nat
    BY DEF IInv, DataTyped
  <2>2. crashes' = crashes + 1
    BY DEF Crash
  <2>. QED
    BY <2>1, <2>2
<1> USE <1>a, <1>b DEF IInv, backups
<1>1. /\ OneArchive' /\ JournalLost' /\ PapersLate' /\ AnchoredIsVisible'
  BY DEF OneArchive, JournalLost, PapersLate, AnchoredIsVisible
<1>2. ControlTyped'
  BY DEF ControlTyped, Stages, Replies, Successes, Ops
<1>3. DataTyped'
  BY <1>d
  DEF DataTyped, Documents
<1>4. DirsOK'
  <2>1. seen[p] \in Nat
    BY DEF DataTyped
  <2>. QED
    BY <1>c, <2>1, SidecarFacts DEF DirsOK
<1>5. LeasesOK'
  BY DEF LeasesOK, DataTyped
<1>6. StageLeases'
  BY DEF StageLeases, DataTyped, LeasesOK, Alone, ControlTyped
<1>7. StageLocks'
  BY DEF StageLocks, DataTyped, Locked, Uncertified, ControlTyped
<1>8. HostSeen'
  BY DEF HostSeen, DataTyped, ControlTyped
<1>9. ArchiveSeen'
  BY DEF ArchiveSeen, DataTyped, OneArchive, StageLocks, Locked, Archived,
       Compared, Uncertified, ControlTyped
<1>10. RestoreLost'
  BY DEF RestoreLost, Journaled, Uncertified, ControlTyped
<1>11. TreeThere'
  BY DEF TreeThere, Uncertified, DataTyped, ControlTyped
<1>12. PapersOK'
  BY DEF PapersOK, DataTyped, StageLocks, Locked, Documents, Journaled,
       Uncertified, ControlTyped
<1>13. StagedLate'
  BY <1>c
  DEF StagedLate, DataTyped, PapersOK, Documents, Journaled, Uncertified
<1>14. AnswersLeave'
  BY DEF AnswersLeave, ControlTyped
<1>15. SuccessHolds'
  BY DEF SuccessHolds, AnswersLeave, Successes, ControlTyped, LeasesOK
<1>16. RestoredHolds'
  BY DEF RestoredHolds, AnswersLeave, DataTyped, ControlTyped
<1>17. FailsClosed'
  BY TreeFacts, NoTreeFacts
  DEF FailsClosed, DataTyped, PapersOK, Documents, Journaled, Uncertified,
       ControlTyped
<1>. QED
  BY <1>1, <1>2, <1>3, <1>4, <1>5, <1>6, <1>7, <1>8, <1>9, <1>10, <1>11,
       <1>12, <1>13, <1>14, <1>15, <1>16, <1>17
  DEF IInv

LEMMA LoseKeeps ==
    ASSUME IInv, Lose
    PROVE  IInv'
<1> USE DEF IInv, Lose, boundary, backups, locals
<1>1. /\ ControlTyped' /\ LeasesOK' /\ OneArchive' /\ StagedLate' /\ AnswersLeave' /\ RestoredHolds'
  BY DEF ControlTyped, LeasesOK, OneArchive, StagedLate, AnswersLeave, RestoredHolds
<1>2. DataTyped'
  BY DEF DataTyped
<1>3. DirsOK'
  BY DEF DirsOK
\* Nothing runs, so what is said of processes under way is said of none.
<1>4. StageLeases' /\ StageLocks' /\ HostSeen' /\ ArchiveSeen' /\ RestoreLost' /\ TreeThere' /\ PapersOK'
  BY DEF StageLeases, StageLocks, HostSeen, ArchiveSeen, RestoreLost, TreeThere, PapersOK,
         Alone, Locked, Archived, Compared, Journaled, Uncertified
<1>5. JournalLost' /\ PapersLate'
  BY DEF JournalLost, PapersLate
<1>6. SuccessHolds'
  <2>1. \A p \in Procs : reply[p] = ""
    BY DEF AnswersLeave
  <2>. QED
    BY <2>1 DEF SuccessHolds, Successes
<1>7. AnchoredIsVisible'
  BY DEF AnchoredIsVisible, DataTyped
<1>8. FailsClosed'
  BY NoTreeFacts DEF FailsClosed
<1>. QED
  BY <1>1, <1>2, <1>3, <1>4, <1>5, <1>6, <1>7, <1>8 DEF IInv

LEMMA OccupyKeeps ==
    ASSUME IInv, Occupy
    PROVE  IInv'
<1> USE DEF IInv, Occupy, boundary, backups, locals, history
<1>1. /\ ControlTyped' /\ DataTyped' /\ LeasesOK' /\ StageLeases' /\ StageLocks'
      /\ OneArchive' /\ ArchiveSeen'
  BY DEF ControlTyped, DataTyped, LeasesOK, StageLeases, StageLocks, OneArchive, ArchiveSeen
<1>2. /\ RestoreLost' /\ JournalLost' /\ PapersOK' /\ StagedLate' /\ AnswersLeave'
      /\ RestoredHolds'
  BY DEF RestoreLost, JournalLost, PapersOK, StagedLate, AnswersLeave, RestoredHolds
<1>3. DirsOK'
  BY DEF DirsOK
\* A name that is vacant has no tree that anything is said of.
<1>4. HostSeen'
  BY NoTreeFacts DEF HostSeen
<1>5. TreeThere'
  BY NoTreeFacts DEF TreeThere, Uncertified
<1>6. PapersLate'
  BY NoTreeFacts DEF PapersLate
<1>7. SuccessHolds'
  BY TreeFacts DEF SuccessHolds, DataTyped
<1>8. AnchoredIsVisible' /\ FailsClosed'
  BY NoTreeFacts DEF AnchoredIsVisible, FailsClosed
<1>. QED
  BY <1>1, <1>2, <1>3, <1>4, <1>5, <1>6, <1>7, <1>8 DEF IInv

LEMMA StutterKeeps ==
    ASSUME IInv, UNCHANGED vars
    PROVE  IInv'
<1> USE DEF IInv, vars, boundary, project, backups, locals, history
<1>1. /\ ControlTyped' /\ DataTyped' /\ DirsOK' /\ LeasesOK' /\ StageLeases' /\ StageLocks'
      /\ HostSeen'
  BY DEF ControlTyped, DataTyped, DirsOK, LeasesOK, StageLeases, StageLocks, HostSeen
<1>2. OneArchive' /\ ArchiveSeen' /\ RestoreLost' /\ JournalLost' /\ TreeThere' /\ PapersOK'
  BY DEF OneArchive, ArchiveSeen, RestoreLost, JournalLost, TreeThere, PapersOK
<1>3. PapersLate' /\ StagedLate' /\ AnswersLeave' /\ SuccessHolds' /\ RestoredHolds'
  BY DEF PapersLate, StagedLate, AnswersLeave, SuccessHolds, RestoredHolds
<1>4. AnchoredIsVisible' /\ FailsClosed'
  BY DEF AnchoredIsVisible, FailsClosed
<1>. QED
  BY <1>1, <1>2, <1>3, <1>4 DEF IInv

LEMMA InitHolds ==
    ASSUME Init
    PROVE  IInv
<1>0. /\ dest = Tree(0) /\ dest.wal = 0 /\ IsTree(dest)
      /\ staging = Vacant /\ anchor = 0 /\ lost = FALSE
  BY TreeFacts, 0 \in Nat DEF Init
<1>2. DirsOK
  BY <1>0 DEF DirsOK
<1>7. AnchoredIsVisible /\ FailsClosed
  BY <1>0 DEF AnchoredIsVisible, FailsClosed
<1> USE DEF Init, Boundary!Init
<1>1. ControlTyped /\ DataTyped
  BY DEF ControlTyped, DataTyped, Stages, Ops, Replies, Documents
<1>3. LeasesOK /\ StageLeases /\ StageLocks /\ HostSeen /\ OneArchive
  BY DEF LeasesOK, StageLeases, StageLocks, HostSeen, OneArchive, Alone, Locked, Uncertified
<1>4. ArchiveSeen /\ RestoreLost /\ TreeThere
  BY DEF ArchiveSeen, RestoreLost, TreeThere, Archived, Compared, Journaled, Uncertified
<1>5. PapersOK /\ AnswersLeave /\ SuccessHolds /\ RestoredHolds
  BY DEF PapersOK, AnswersLeave, SuccessHolds, RestoredHolds, Journaled, Uncertified, Successes
<1>6. JournalLost /\ PapersLate /\ StagedLate
  BY DEF JournalLost, PapersLate, StagedLate, Documents
<1>. QED
  BY <1>1, <1>2, <1>3, <1>4, <1>5, <1>6, <1>7 DEF IInv

LEMMA NextKeeps ==
    ASSUME IInv, [Next]_vars
    PROVE  IInv'
<1>1. ASSUME NEW p \in Procs, HostStep(p) PROVE IInv'
  BY <1>1, AdmitKeeps, AppendKeeps, CaptureHeadKeeps, RefusedKeeps, LockAnchorKeeps, AdvanceKeeps
  DEF HostStep, LockToAdvance
<1>2. ASSUME NEW p \in Procs, QuiesceStep(p) PROVE IInv'
  BY <1>2, CloseKeeps, DrainedKeeps, DeadlineKeeps DEF QuiesceStep
<1>3. ASSUME NEW p \in Procs, BackupStep(p) PROVE IInv'
  BY <1>3, CaptureKeeps, LockAnchorKeeps, VerifyAnchorKeeps, PublishArchiveKeeps,
     PublishBackupReceiptKeeps, VerifyBackupKeeps
  DEF BackupStep, LockToBackup
<1>4. ASSUME NEW p \in Procs, RestoreStep(p) PROVE IInv'
  BY <1>4, PlanKeeps, LookKeeps, RetainAuthorityKeeps, InspectKeeps, JournalKeeps, StageKeeps,
     ExchangeKeeps, RenameKeeps, FinalizeKeeps, VerifyKeeps, CertifyKeeps, SucceedKeeps,
     SelectKeeps, IsolateKeeps
  DEF RestoreStep
<1>5. ASSUME NEW p \in Procs, Fails(p) PROVE IInv'
  BY <1>5, BackupFailsKeeps, StagingFailsKeeps, PublishedFailsKeeps, IsolateFailsKeeps DEF Fails
<1>. QED
  BY <1>1, <1>2, <1>3, <1>4, <1>5, BeginKeeps, LeaveKeeps, CrashKeeps, LoseKeeps, OccupyKeeps,
     StutterKeeps
  DEF Next, Step

LEMMA Inductive == Spec => []IInv
<1>1. Init => IInv
  BY InitHolds
<1>2. IInv /\ [Next]_vars => IInv'
  BY NextKeeps
<1>. QED
  BY <1>1, <1>2, PTL DEF Spec

-----------------------------------------------------------------------------
(***************************************************************************)
(* Theorems.                                                               *)
(***************************************************************************)

\* Every variable of backup, restore and the host stays in its type: in
\* particular the calls are at a stage and have an answer that the model knows,
\* what is at the destination is whole, and what is in staging is a sidecar.
THEOREM TypeCorrect == Spec => [](ControlTyped /\ DataTyped /\ DirsOK)
<1>1. IInv => ControlTyped /\ DataTyped /\ DirsOK
  BY DEF IInv
<1>. QED
  BY <1>1, Inductive, PTL

\* create_project_backup and apply_project_restore succeed only with what the
\* anchor vouches for, whoever else runs, fails or dies.
THEOREM SuccessesAreCurrent == Spec => []SuccessIsCurrent
<1>1. IInv => SuccessIsCurrent
  <2> SUFFICES ASSUME IInv, NEW p \in Procs, reply[p] \in Successes
               PROVE  /\ archive = {anchor} /\ dest = Tree(anchor)
                      /\ held[p] = "Exclusive"
                      /\ reply[p] \in {"Restored", "AlreadyRestored"} =>
                           \A d \in Documents : paper[d] = nonce[p]
    BY DEF SuccessIsCurrent, Successes
  <2>1. anchor \in archive /\ dest = Tree(anchor) /\ held[p] = "Exclusive"
    BY DEF IInv, SuccessHolds
  <2>2. archive = {anchor}
    BY <2>1 DEF IInv, OneArchive
  <2>3. reply[p] \in {"Restored", "AlreadyRestored"} => \A d \in Documents : paper[d] = nonce[p]
    BY DEF IInv, RestoredHolds
  <2>. QED
    BY <2>1, <2>2, <2>3
<1>. QED
  BY <1>1, Inductive, PTL

\* What the anchor came to vouch for over a tree at the destination is not
\* isolated by a restore, nor is the anchor advanced over an isolated tree.
THEOREM AnchoredStaysVisible == Spec => []AnchoredIsVisible
<1>1. IInv => AnchoredIsVisible
  BY DEF IInv
<1>. QED
  BY <1>1, Inductive, PTL

\* A restore that fails after its rename leaves no tree that nothing vouches
\* for, unless it dies or reports that it could not isolate it.
THEOREM RestoreFailsClosed == Spec => []FailsClosed
<1>1. IInv => FailsClosed
  BY DEF IInv
<1>. QED
  BY <1>1, Inductive, PTL

\* However often restores were interrupted before publication, inspect_interrupted_state
\* takes up what they left, unless a member was left half-written.
THEOREM InterruptedCanResume == Spec => []InterruptedIsResumable
<1>1. IInv => InterruptedIsResumable
  <2> SUFFICES ASSUME IInv, dest = Vacant, ~staging.torn PROVE Resumable
    BY DEF InterruptedIsResumable
  <2>1. \A d \in Documents \ {"journal"} : paper[d] = 0
    BY DEF IInv, PapersLate
  <2>2. paper["journal"] = 0 => staging = Vacant
    BY DEF IInv, StagedLate
  <2>3. IsPrefixOfArchive(staging)
    BY DEF IInv, DirsOK, Sidecars, IsPrefixOfArchive, IsTree
  <2>. QED
    BY <2>1, <2>2, <2>3 DEF Resumable
<1>. QED
  BY <1>1, Inductive, PTL
=============================================================================
