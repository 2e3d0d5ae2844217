------------------------------- MODULE ClaimStore -------------------------------
(***************************************************************************)
(* The claim commands over their files: the directory lock that serialises *)
(* them (io_util.rs), the claim WAL that is the authority and its rotation *)
(* (claim_wal.rs), the state derived from it (derive_state.rs), the YAML   *)
(* cache and the handoff artifacts (claim.rs).                             *)
(*                                                                         *)
(* A process runs one command at a time: it reads the clock, takes the     *)
(* lock by creating a file, derives the claims, decides, appends a record, *)
(* saves the cache, and removes the lock file.  The append runs under the  *)
(* WAL's own file lock, so it is one step; everything before and after     *)
(* interleaves with other processes, and a process can die at any point.   *)
(* A command's arguments are first used when the claims are loaded, so     *)
(* they are chosen there.                                                  *)
(***************************************************************************)
EXTENDS ClaimEngine, FiniteSets

CONSTANTS
    Procs,        \* operating-system processes; one that died stays dead
    Loopers,      \* the ones that run claim reconcile --loop
    Requests,     \* what claim acquire may ask for: [id, paths, ttl]
    ScopeOf,      \* the scope id of a claim id, without the scope's kind
    Targets,      \* paths handed to claim check-write
    StaleAfter,   \* DIR_LOCK_STALE_AFTER
    MaxTries,     \* DIR_LOCK_RETRY_ATTEMPTS
    MaxRecords,   \* DEFAULT_ROTATE_MAX_RECORDS
    MaxClock,     \* bound on the clock
    MaxCommands,  \* bound on commands other than the ticks of a loop
    MaxCrashes,   \* bound on processes that die
    MaxFaults     \* bound on I/O errors

ASSUME ClaimStoreAssumption ==
    /\ Loopers \subseteq Procs
    /\ "nobody" \notin Procs
    /\ {MaxTries, MaxRecords, StaleAfter} \subseteq Nat \ {0}
    /\ {MaxClock, MaxCommands, MaxCrashes, MaxFaults} \subseteq Nat
    /\ MaxClock <= LastRfc3339

\* A directory holds finitely many claims, a ttl is unsigned, and a path has parts.
ASSUME RequestsAssumption ==
    /\ IsFiniteSet(Ids)
    /\ \A r \in Requests : r.id \in Ids /\ r.ttl \in Nat
    /\ \A raw \in Targets \cup UNION {r.paths : r \in Requests} : raw \in Seq(Range(raw))

VARIABLES
    clock,      \* seconds
    lock,       \* the lock file: its creator, whether it was signed, its age mark
    proc,       \* what each process is doing
    wal,        \* the active WAL and the checkpoint files around it
    table,      \* the claims every record appended so far adds up to
    cache,      \* claims-active/*.yaml
    artifacts,  \* handoffs/expired-claims/*.yaml: name |-> the claim handed off
    spent       \* commands started, processes died, errors injected; and a history
                \* bit: a reclaim took the lock file of a process that runs

vars == <<clock, lock, proc, wal, table, cache, artifacts, spent>>

-----------------------------------------------------------------------------
ArtifactRefs == {ScopeOf[id] : id \in Ids} \X (0 .. MaxClock)

NoLock == [owner |-> "nobody", signed |-> FALSE, made |-> 0]

Idle == [pc |-> "idle", now |-> 0, tries |-> 0, todo |-> <<>>]

Init ==
    /\ clock = 0
    /\ lock = NoLock
    /\ proc = [p \in Procs |-> Idle]
    /\ wal = [snapshot |-> [id \in Ids |-> NoClaim], tail |-> <<>>,
              generation |-> FALSE, residue |-> FALSE]
    /\ table = [id \in Ids |-> NoClaim]
    /\ cache = [id \in Ids |-> NoClaim]
    /\ artifacts = [name \in ArtifactRefs |-> NoClaim]
    /\ spent = [commands |-> 0, crashes |-> 0, faults |-> 0, usurped |-> FALSE]

Alive(p) == proc[p].pc \notin {"dead", "exited"}

At(p, label) == proc[p].pc = label

\* Process p moves on to label and changes nothing else of what it knows.
Goto(p, label) == proc' = [proc EXCEPT ![p].pc = label]

\* A command that fails returns through DirLock's Drop when it holds the lock,
\* and a loop ends on the first command that fails.
Fails(p) == IF p \in Loopers THEN "exited" ELSE "idle"

Return(p, label) == proc' = [proc EXCEPT ![p] = [Idle EXCEPT !.pc = label]]

Fault == /\ spent.faults < MaxFaults
         /\ spent' = [spent EXCEPT !.faults = @ + 1]

-----------------------------------------------------------------------------
(* Reading the WAL *)

\* A record cut short by a death: the decoder stops there.
Torn == [operation |-> "torn", id |-> CHOOSE id \in Ids : TRUE, claim |-> NoClaim]

IsTorn(rec) == rec.operation = "torn"

\* decode_prefix: the records before the first one that cannot be read.
DecodePrefix(tail) ==
    LET whole(n) == \A i \in 1 .. n : ~IsTorn(tail[i])
        n == CHOOSE k \in 0 .. Len(tail) :
                whole(k) /\ (k = Len(tail) \/ IsTorn(tail[k + 1]))
    IN  SubSeq(tail, 1, n)

\* Checkpoint files no active WAL selects: recovery asks for a namespace that was
\* never used unless the WAL's first record names a generation.
Wedged == wal.residue /\ ~wal.generation

Repaired == [wal EXCEPT !.tail = DecodePrefix(@)]

\* valid_record_count counts the checkpoint record too.
RecordCount(w) == Len(w.tail) + (IF w.generation THEN 1 ELSE 0)

RotatedMutant(w) == [snapshot |-> Project(w.snapshot, Front(w.tail)),
                     tail |-> <<>>, generation |-> TRUE, residue |-> TRUE]

\* rotate_claim_wal_under_lock: the projection becomes the snapshot of a new
\* generation, and one atomic replacement leaves its checkpoint record alone in
\* the active WAL.
Rotated(w) == [snapshot |-> Project(w.snapshot, DecodePrefix(w.tail)),
               tail |-> <<>>, generation |-> TRUE, residue |-> TRUE]

Appended(w, rec) == [w EXCEPT !.tail = Append(@, rec)]

MaybeRotate(w) == IF RecordCount(w) > MaxRecords THEN Rotated(w) ELSE w

-----------------------------------------------------------------------------
(* DirLock *)

\* The clock is read on the command line, before the lock is asked for.
Start(p) ==
    /\ At(p, "idle")
    /\ p \in Loopers \/ spent.commands < MaxCommands
    /\ proc' = [proc EXCEPT ![p] = [Idle EXCEPT !.pc = "create", !.now = clock]]
    /\ spent' = IF p \in Loopers THEN spent
                ELSE [spent EXCEPT !.commands = @ + 1]
    /\ UNCHANGED <<clock, lock, wal, table, cache, artifacts>>

\* create_new on the lock file, or the loop's last attempt used up.
CreateLock(p) ==
    /\ At(p, "create")
    /\ \/ /\ proc[p].tries = MaxTries
          /\ Return(p, Fails(p))
          /\ UNCHANGED lock
       \/ /\ proc[p].tries < MaxTries /\ lock = NoLock
          /\ lock' = [owner |-> p, signed |-> FALSE, made |-> clock]
          /\ Goto(p, "sign")
       \/ /\ proc[p].tries < MaxTries /\ lock # NoLock
          /\ Goto(p, "inspect")
          /\ UNCHANGED lock
    /\ UNCHANGED <<clock, wal, table, cache, artifacts, spent>>

\* inspect_lock's verdict on the file as it is now.
Inspection ==
    IF lock # NoLock /\ lock.signed
    THEN IF Alive(lock.owner) THEN "held" ELSE "reclaim"
    ELSE IF lock # NoLock /\ clock - lock.made >= StaleAfter THEN "reclaim"
    ELSE "contended"

InspectLockMutant(p) ==
    /\ At(p, "inspect")
    /\ \/ Inspection = "held" /\ Return(p, Fails(p))
       \/ Inspection = "reclaim" /\ Goto(p, "reclaim")
       \/ Inspection = "contended" /\ Goto(p, "create")
    /\ UNCHANGED <<clock, lock, wal, table, cache, artifacts, spent>>

InspectLock(p) ==
    /\ At(p, "inspect")
    /\ \/ Inspection = "held" /\ Return(p, Fails(p))
       \/ Inspection = "reclaim" /\ Goto(p, "reclaim")
       \/ /\ Inspection = "contended"
          /\ proc' = [proc EXCEPT ![p].pc = "create", ![p].tries = @ + 1]
    /\ UNCHANGED <<clock, lock, wal, table, cache, artifacts, spent>>

\* Removal by name: whatever file has the name by then goes, even the new one of
\* a process that reclaimed the same lock first.
ReclaimLock(p) ==
    /\ At(p, "reclaim")
    /\ lock' = NoLock
    /\ proc' = [proc EXCEPT ![p].pc = "create", ![p].tries = @ + 1]
    /\ spent' = [spent EXCEPT !.usurped = @ \/ (lock # NoLock /\ Alive(lock.owner))]
    /\ UNCHANGED <<clock, wal, table, cache, artifacts>>

\* write_lock_state goes through the open file, which may have lost its name; when
\* it fails the file of that name is removed.
SignLock(p) ==
    /\ At(p, "sign")
    /\ \/ /\ lock' = IF lock.owner = p THEN [lock EXCEPT !.signed = TRUE] ELSE lock
          /\ Goto(p, "load")
          /\ UNCHANGED spent
       \/ /\ Fault
          /\ lock' = NoLock
          /\ Return(p, Fails(p))
    /\ UNCHANGED <<clock, wal, table, cache, artifacts>>

\* Drop reads the file first, and removes it by name if the token is its own.
CheckToken(p) ==
    /\ proc[p].pc \in {"drop", "fail"}
    /\ IF lock.owner = p /\ lock.signed
       THEN Goto(p, IF At(p, "drop") THEN "unlink" ELSE "fail_unlink")
       ELSE Return(p, IF At(p, "drop") THEN "idle" ELSE Fails(p))
    /\ UNCHANGED <<clock, lock, wal, table, cache, artifacts, spent>>

DropLock(p) ==
    /\ proc[p].pc \in {"unlink", "fail_unlink"}
    /\ lock' = NoLock
    /\ Return(p, IF At(p, "unlink") THEN "idle" ELSE Fails(p))
    /\ UNCHANGED <<clock, wal, table, cache, artifacts, spent>>

-----------------------------------------------------------------------------
(* The commands *)

\* Every record some command would write for the claims in the table, decided at
\* the time the command started.
Decisions(p) ==
    LET now == proc[p].now
        one(operation, id, claim) ==
            <<[operation |-> operation, id |-> id, claim |-> claim]>>
    IN  UNION {
          {one("acquire", q.id, Acquired(a, q, now)) :
             a \in Agents, q \in {r \in Requests : CanAcquire(table, r.id, r, now)}},
          {one("heartbeat", id, Heartbeaten(table[id], now)) :
             id \in {i \in Ids : \E a \in Agents : CanHeartbeat(table[i], a, now)}},
          {one("release", id, Released(table[id])) :
             id \in {i \in Ids : \E a \in Agents : CanRelease(table[i], a, now)}},
          {one("handoff", id, HandoffRecorded(table[id])) :
             id \in {i \in Ids : CanRecordHandoff(table[i], now)}}}

\* load_claims and the engine's verdict.  A torn tail is cut off first; a rejected
\* command, like one whose WAL cannot be read, only gives the lock back.
Load(p) ==
    /\ At(p, "load")
    /\ IF Wedged
       THEN Goto(p, "fail") /\ UNCHANGED wal
       ELSE /\ wal' = Repaired
            /\ \/ /\ p \notin Loopers
                  /\ \E todo \in Decisions(p) :
                        proc' = [proc EXCEPT
                           ![p].todo = todo,
                           ![p].pc = IF todo[1].operation = "handoff"
                                     THEN "artifact" ELSE "append"]
               \/ /\ p \notin Loopers
                  /\ Goto(p, "drop")
               \/ LET todo == ReconcileClaims(table, proc[p].now)
                  IN  proc' = [proc EXCEPT
                         ![p].todo = todo,
                         ![p].pc = IF todo = <<>> THEN "drop" ELSE "append"]
    /\ UNCHANGED <<clock, lock, table, cache, artifacts, spent>>

\* The artifact of a handoff is named after the scope and the second.
HandoffArtifactRef(p) == <<ScopeOf[Head(proc[p].todo).id], proc[p].now>>

SaveHandoffArtifactMutant(p) ==
    /\ At(p, "artifact")
    /\ \/ /\ artifacts' = [artifacts EXCEPT
                ![HandoffArtifactRef(p)] = Head(proc[p].todo).claim]
          /\ UNCHANGED spent
       \/ Fault /\ UNCHANGED artifacts
    /\ Goto(p, "append")
    /\ UNCHANGED <<clock, lock, wal, table, cache>>

SaveHandoffArtifact(p) ==
    /\ At(p, "artifact")
    /\ \/ /\ artifacts' = [artifacts EXCEPT
                ![HandoffArtifactRef(p)] = Head(proc[p].todo).claim]
          /\ Goto(p, "append")
          /\ UNCHANGED spent
       \/ /\ Fault
          /\ Goto(p, "fail")
          /\ UNCHANGED artifacts
    /\ UNCHANGED <<clock, lock, wal, table, cache>>

\* append_claim_wal_record: recover, append, rotate when the WAL grew too long.
AppendRecord(p) ==
    /\ At(p, "append")
    /\ IF Wedged
       THEN Goto(p, "fail") /\ UNCHANGED <<wal, table>>
       ELSE /\ wal' = MaybeRotate(Appended(Repaired, Head(proc[p].todo)))
            /\ table' = ApplyRecord(table, Head(proc[p].todo))
            /\ Goto(p, "save")
    /\ UNCHANGED <<clock, lock, cache, artifacts, spent>>

\* What an append that does not finish leaves behind: part of the record, the whole
\* record (a failed sync), or the whole record and the files of a rotation whose
\* last step, the replacement of the active WAL, did not happen.
Leftovers(rec) ==
    LET whole == Appended(Repaired, rec)
    IN  {<<Appended(Repaired, Torn), FALSE>>, <<whole, TRUE>>} \union
        (IF RecordCount(whole) > MaxRecords
         THEN {<<[whole EXCEPT !.residue = TRUE], TRUE>>} ELSE {})

AppendCutShort(p) ==
    /\ At(p, "append")
    /\ ~Wedged
    /\ \E left \in Leftovers(Head(proc[p].todo)) :
          /\ wal' = left[1]
          /\ table' = IF left[2] THEN ApplyRecord(table, Head(proc[p].todo)) ELSE table
    /\ UNCHANGED <<clock, lock, cache, artifacts>>

\* The write, the sync or the rotation returns an error.
AppendFails(p) ==
    /\ Fault
    /\ AppendCutShort(p)
    /\ Goto(p, "fail")

\* save_claim, then the next transition of a reconcile pass.
SaveClaim(p) ==
    /\ At(p, "save")
    /\ \/ /\ cache' = [cache EXCEPT ![Head(proc[p].todo).id] = Head(proc[p].todo).claim]
          /\ proc' = [proc EXCEPT
                ![p].todo = Tail(@),
                ![p].pc = IF Len(proc[p].todo) = 1 THEN "drop" ELSE "append"]
          /\ UNCHANGED spent
       \/ /\ Fault
          /\ Goto(p, "fail")
          /\ UNCHANGED cache
    /\ UNCHANGED <<clock, lock, wal, table, artifacts>>

\* status and check-write derive the claims without the directory lock; like any
\* reader they cut a torn tail off.
Status ==
    /\ ~Wedged
    /\ wal # Repaired
    /\ wal' = Repaired
    /\ UNCHANGED <<clock, lock, proc, table, cache, artifacts, spent>>

-----------------------------------------------------------------------------
Die(p) ==
    /\ spent.crashes < MaxCrashes
    /\ spent' = [spent EXCEPT !.crashes = @ + 1]
    /\ Return(p, "dead")

\* A process dies between two steps, or in the middle of an append.
Crash(p) ==
    /\ Alive(p) /\ ~At(p, "idle")
    /\ Die(p)
    /\ UNCHANGED <<clock, lock, wal, table, cache, artifacts>>

CrashInAppend(p) == Die(p) /\ AppendCutShort(p)

\* Creating the lock file and signing it are two writes in a row: no live process
\* is taken to spend StaleAfter between them.
Tick ==
    /\ clock < MaxClock
    /\ \A p \in Procs : ~At(p, "sign")
    /\ clock' = clock + 1
    /\ UNCHANGED <<lock, proc, wal, table, cache, artifacts, spent>>

\* One step of the command a process is running.
Step(p) ==
    \/ CreateLock(p) \/ InspectLock(p) \/ ReclaimLock(p) \/ SignLock(p)
    \/ Load(p) \/ SaveHandoffArtifact(p) \/ AppendRecord(p) \/ AppendFails(p)
    \/ SaveClaim(p) \/ CheckToken(p) \/ DropLock(p)

Next ==
    \/ \E p \in Procs : Start(p) \/ Step(p) \/ Crash(p) \/ CrashInAppend(p)
    \/ Status
    \/ Tick

Spec == Init /\ [][Next]_vars

\* A process that is running is scheduled, and the ticker of a loop fires again.
Fairness == \A p \in Procs : /\ WF_vars(Step(p))
                             /\ p \in Loopers => WF_vars(Start(p))

FairSpec == Spec /\ Fairness

-----------------------------------------------------------------------------
\* The reclaim by name can take the lock of a running process; after that two
\* commands run at once and the claims answer for nothing (see OneLiveOwner, which
\* a run violates).  The properties of the table below are about every history in
\* which that has not happened, however many processes died or reclaimed a lock.

\* Every path of a live claim passes the write gate for its holder.
Effective(id) ==
    \A t \in Targets :
       LET target == NormalizeSegments(t)
       IN  ~EscapesRepoRoot(target) /\ Governs(table[id], target, clock)
              => ClassifyTarget(table, table[id].agent, t, clock) = "governed_by_self"

\* A claim does what it is for: as long as no reclaim took a live lock, whoever
\* holds a live claim passes the write gate for every path the claim covers.  It
\* fails as soon as acquire (whose overlap test compares two claimed paths) lets in
\* a claim the gate (whose test compares a claimed path with a target) sees as a
\* peer's.
ClaimIsEffective == ~spent.usurped => \A id \in Ids : Effective(id)

\* "A repo path has one live owner": no two live claims name overlapping paths.
\* Stated as the code's comment states it, with no condition: the race of two
\* reclaims violates it.
OneLiveOwner ==
    \A i, j \in Ids :
       i # j /\ IsLive(table[i], clock) /\ IsLive(table[j], clock)
          => ~FirstOverlappingPath(table[i].paths, table[j].paths)

\* Authority changes hands only through a release or a recorded handoff: as long
\* as no reclaim took a live lock, no step gives a scope to another agent while the
\* last claim on it is open, or expired and not handed off, whatever clocks the
\* commands read, whoever died and however often a dead one's lock was reclaimed.
AuthorityIsNeverStolen ==
    [][~spent.usurped =>
         \A id \in Ids : table'[id].agent # table[id].agent =>
            table[id].status \in {"none", "released", "handoff_recorded"}]_vars

\* Reading the files back gives what the records add up to: a torn tail, the repair
\* of it, a rotation or one that was cut short loses nothing and revives nothing.
ReplayMatchesTable ==
    ~Wedged => Project(wal.snapshot, DecodePrefix(wal.tail)) = table

\* The artifact of a recorded handoff is in the handoffs directory.
Evidenced(id) ==
    table[id].status = "handoff_recorded" =>
       \E n \in 0 .. MaxClock : artifacts[<<ScopeOf[id], n>>] = table[id]

\* A scope is free after an expiry only when the evidence of the handoff is on disk,
\* as long as no reclaim took a live lock.
HandoffIsEvidenced == ~spent.usurped => \A id \in Ids : Evidenced(id)

\* Every command comes back, whatever became of the lock it waits for.
CommandsReturn ==
    \A p \in Procs : At(p, "create") ~> proc[p].pc \in {"idle", "exited", "dead"}

LoopEnded == \A p \in Loopers : ~Alive(p)

\* As long as the loop runs, a claim whose lease ran out is taken out of the open
\* claims: the next agent finds it asking for a handoff.
ExpiredIsReconciled ==
    \A id \in Ids :
       table[id].status \in Open /\ IsExpired(table[id], clock)
          ~> \/ table[id].status \notin Open
             \/ ~IsExpired(table[id], clock)
             \/ LoopEnded
=============================================================================
