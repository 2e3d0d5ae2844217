----------------------------- MODULE EventLog ------------------------------
(***************************************************************************)
(* The EventLog runtime (crates/forge-core-eventlog): the policy           *)
(* enforcement points of the Memory, Research and Governance streams, each *)
(* of which decides on the projection of its stream and appends the events *)
(* it decided on, all under the stream's lock and an effect producer guard *)
(* of the host; and the backup's capture of all three streams under host   *)
(* quiescence.                                                             *)
(*                                                                         *)
(* The producer boundary is HostQuiescence, what ProducerBoundary is shown *)
(* to implement. An effect lease belongs to one thread: siblings wait for  *)
(* its end like everybody else. The exclusive lease is the quiescing       *)
(* thread's.                                                               *)
(*                                                                         *)
(* Left out: the pure policy gates (a gated call may be denied), replaced  *)
(* roots, lock files and hard links (out of the code's cooperative model), *)
(* reads that fail, and the text of events.                                *)
(***************************************************************************)
EXTENDS EventStream, FiniteSets

CONSTANTS
    Procs, Threads,
    ProcOf,         \* the process of each thread
    Calls,          \* the operations each thread may call
    MaxTorn,        \* bound on appends that leave a part of an event
    NoThread, NoId

ASSUME ThreadsAssumption == ProcOf \in [Threads -> Procs]
ASSUME TornAssumption == MaxTorn \in Nat
ASSUME NullsAssumption == NoThread \notin Threads /\ NoId \notin Ids

VARIABLES
    held, closer,   \* the producer boundary (see HostQuiescence)
    lock,           \* the thread that has the lock of each stream
    log,            \* the file of each stream
    pc, call,       \* where each thread is, in which call
    seq,            \* the sequence number a transaction has reached
    todo,           \* the payloads it has still to append
    reply,          \* the outcome of the call
    first,          \* what a capture read in its first pass
    acked,          \* ghost: the events of the appends that returned Ok
    torn            \* ghost: the number of appends torn so far

boundary == <<held, closer>>
files == <<lock, log, acked>>
locals == <<pc, call, seq, todo, reply, first>>
vars == <<boundary, files, locals, torn>>

Boundary == INSTANCE HostQuiescence WITH Leases <- Threads, NoLease <- NoThread

MemoryOps == {"admit", "promote", "forget", "list_now"}
GovernanceOps == {"record", "arbitrate", "escalate"}
Ops == MemoryOps \cup GovernanceOps \cup {"admit_source", "project", "capture"}

\* The operations whose policy gate is asked before the stream is locked.
Gated == {"admit", "admit_source", "arbitrate", "escalate"}

\* project is the reader of each stream; the memory stream stands for all.
StreamOf(o) ==
    IF o \in GovernanceOps THEN "Governance"
    ELSE IF o = "admit_source" THEN "Research"
    ELSE "Memory"

ASSUME CallsTypeAssumption == Calls \in [Threads -> SUBSET Ops]

Stages == {"idle", "called", "lock", "project", "append",
           "closed", "locks", "again", "done", "leave"}

NoFiles == [s \in Streams |-> NoFile]

NoCall == [op |-> "project", id |-> NoId]

Init ==
    /\ held = [t \in Threads |-> "none"]
    /\ closer = NoThread
    /\ lock = [s \in Streams |-> NoThread]
    /\ log = NoFiles
    /\ pc = [t \in Threads |-> "idle"]
    /\ call = [t \in Threads |-> NoCall]
    /\ seq = [t \in Threads |-> 0]
    /\ todo = [t \in Threads |-> {}]
    /\ reply = [t \in Threads |-> ""]
    /\ first = [t \in Threads |-> NoFiles]
    /\ acked = [s \in Streams |-> {}]
    /\ torn = 0

Goto(t, stage) == pc' = [pc EXCEPT ![t] = stage]

\* The call has its outcome, its guard and locks are still held.
Finish(t, status) ==
    /\ Goto(t, "done")
    /\ reply' = [reply EXCEPT ![t] = status]

-----------------------------------------------------------------------------
(***************************************************************************)
(* A transaction: begin, project, decide, append, and the drop at return.  *)
(***************************************************************************)

Begin(t) ==
    /\ pc[t] = "idle"
    /\ \E o \in Calls[t] :
         \E i \in IF o \in {"list_now", "project", "capture"} THEN {NoId} ELSE Ids :
            call' = [call EXCEPT ![t] = [op |-> o, id |-> i]]
    /\ Goto(t, "called")
    /\ UNCHANGED <<boundary, files, seq, todo, reply, first, torn>>

\* The policy does not allow the call.
Deny(t) ==
    /\ pc[t] = "called"
    /\ call[t].op \in Gated
    /\ Finish(t, "DeniedByGate")
    /\ UNCHANGED <<boundary, files, call, seq, todo, first, torn>>

\* Mutation: a thread also uses the effect lease of a sibling.
EnterMutant(t) ==
    /\ pc[t] = "called"
    /\ call[t].op # "capture"
    /\ \/ Boundary!Grant(t, "Effect")
       \/ /\ \E u \in Threads : ProcOf[u] = ProcOf[t] /\ held[u] = "Effect"
          /\ UNCHANGED boundary
    /\ Goto(t, "lock")
    /\ UNCHANGED <<files, call, seq, todo, reply, first, torn>>

\* admit_effect_producer
Enter(t) ==
    /\ pc[t] = "called"
    /\ call[t].op # "capture"
    /\ Boundary!Grant(t, "Effect")
    /\ Goto(t, "lock")
    /\ UNCHANGED <<files, call, seq, todo, reply, first, torn>>

\* The boundary refuses: it is quiescing, or busy until the deadline.
EnterRefused(t) ==
    /\ pc[t] = "called"
    /\ Finish(t, "StoreError")
    /\ UNCHANGED <<boundary, files, call, seq, todo, first, torn>>

\* The locks of these threads, released.
Unlocked(T) == [s \in Streams |-> IF lock[s] \in T THEN NoThread ELSE lock[s]]

\* The stream lock, and the log opened, or created, under it. The lock is tried
\* 60 times; LocksUncontended is why the first attempt succeeds.
LockStream(t) ==
    LET s == StreamOf(call[t].op) IN
    /\ pc[t] = "lock"
    /\ lock[s] = NoThread
    /\ lock' = [lock EXCEPT ![s] = t]
    /\ log' = [log EXCEPT ![s].made = TRUE]
    /\ Goto(t, "project")
    /\ UNCHANGED <<boundary, acked, call, seq, todo, reply, first, torn>>

\* The outcome of a call on projection p: its status, once the payloads, if
\* any, are appended. can_promote is asked under the lock and may say no.
Done(status) == [status |-> status, todo |-> {}]
Emit(status, kind, i) == [status |-> status, todo |-> {[kind |-> kind, id |-> i]}]
EmitImage(status, kind, i, e) ==
    [status |-> status, todo |-> {[kind |-> kind, id |-> i, entry |-> e]}]

Admit(i, p) == {EmitImage("Admitted", "Admitted", i, [auth |-> "Raw", stale |-> FALSE])}

Promote(i, p) ==
    IF i \notin DOMAIN p.items THEN {Done("NotFound")}
    ELSE {Done("DeniedByGate"), EmitImage("Promoted", "Promoted", i, p.items[i])}

Forget(i, p) ==
    IF i \in p.superseded THEN {Done("AlreadyForgotten")}
    ELSE IF i \notin DOMAIN p.items THEN {Done("NotFound")}
    ELSE {EmitImage("Forgotten", "Forgotten", i, p.items[i])}

\* The lazy sweep: entries whose TTL has run out by now are admitted again,
\* as stale. The clock decides which.
ListNow(p) ==
    {[status |-> "Ok",
      todo |-> {[kind |-> "Admitted", id |-> i,
                 entry |-> [p.items[i] EXCEPT !.stale = TRUE]] : i \in elapsed}] :
        elapsed \in SUBSET {i \in DOMAIN p.items : ~p.items[i].stale}}

Record(i, p) ==
    IF i \in DOMAIN p.items THEN {Done("AlreadyRecorded")}
    ELSE {Emit("Recorded", "Detected", i)}

\* What arbitrate and escalate do with the conflict they are given.
DecideConflict(i, p, kind) ==
    IF i \notin DOMAIN p.items THEN {Done("ConflictNotFound")}
    ELSE IF p.items[i] # "Pending" THEN {Done("NotPending")}
    ELSE {Emit(kind, kind, i)}

Arbitrate(i, p) == DecideConflict(i, p, "Resolved")
Escalate(i, p) == DecideConflict(i, p, "Escalated")

AdmitSource(i) == {Emit("Admitted", "SourceAdded", i)}

Outcomes(c, p) ==
    CASE c.op = "admit"        -> Admit(c.id, p)
      [] c.op = "promote"      -> Promote(c.id, p)
      [] c.op = "forget"       -> Forget(c.id, p)
      [] c.op = "list_now"     -> ListNow(p)
      [] c.op = "admit_source" -> AdmitSource(c.id)
      [] c.op = "record"       -> Record(c.id, p)
      [] c.op = "arbitrate"    -> Arbitrate(c.id, p)
      [] c.op = "escalate"     -> Escalate(c.id, p)
      [] c.op = "project"      -> {Done("Ok")}

\* Mutation: the guards are dropped once the projection is read.
ProjectMutant(t) ==
    LET f == log[StreamOf(call[t].op)] IN
    /\ pc[t] = "project"
    /\ Readable(f)
    /\ \E o \in Outcomes(call[t], Replay(f)) :
         /\ seq' = [seq EXCEPT ![t] = Replay(f).seq]
         /\ todo' = [todo EXCEPT ![t] = o.todo]
         /\ reply' = [reply EXCEPT ![t] = o.status]
         /\ Goto(t, IF o.todo = {} THEN "done" ELSE "append")
    /\ lock' = Unlocked({t})
    /\ Boundary!End({t})
    /\ UNCHANGED <<log, acked, call, first, torn>>

\* StreamTxn::project and the decision on what it returns.
Project(t) ==
    LET f == log[StreamOf(call[t].op)] IN
    /\ pc[t] = "project"
    /\ Readable(f)
    /\ \E o \in Outcomes(call[t], Replay(f)) :
         /\ seq' = [seq EXCEPT ![t] = Replay(f).seq]
         /\ todo' = [todo EXCEPT ![t] = o.todo]
         /\ reply' = [reply EXCEPT ![t] = o.status]
         /\ Goto(t, IF o.todo = {} THEN "done" ELSE "append")
    /\ UNCHANGED <<boundary, files, call, first, torn>>

\* EventLogError::Parse
ProjectFails(t) ==
    /\ pc[t] = "project"
    /\ ~Readable(log[StreamOf(call[t].op)])
    /\ Finish(t, "StoreError")
    /\ UNCHANGED <<boundary, files, call, seq, todo, first, torn>>

\* StreamTxn::append of one event, numbered next.
AppendEvent(t) ==
    LET s == StreamOf(call[t].op) IN
    /\ pc[t] = "append"
    /\ ~Exhausted(seq[t])
    /\ \E d \in todo[t] :
         /\ log' = [log EXCEPT ![s] = Write(@, EventOf(seq[t] + 1, d), "full")]
         /\ acked' = [acked EXCEPT ![s] = @ \cup {EventOf(seq[t] + 1, d)}]
         /\ todo' = [todo EXCEPT ![t] = @ \ {d}]
         /\ Goto(t, IF todo[t] = {d} THEN "done" ELSE "append")
    /\ seq' = [seq EXCEPT ![t] = @ + 1]
    /\ UNCHANGED <<boundary, lock, call, reply, first, torn>>

\* SequenceExhausted
AppendExhausted(t) ==
    /\ pc[t] = "append"
    /\ Exhausted(seq[t])
    /\ Finish(t, "StoreError")
    /\ todo' = [todo EXCEPT ![t] = {}]
    /\ UNCHANGED <<boundary, files, call, seq, first, torn>>

\* Some part of the thread's current append reaches the file.
Tear(t) ==
    LET s == StreamOf(call[t].op) IN
    \E d \in todo[t], cut \in Cuts :
        /\ log' = [log EXCEPT ![s] = Write(@, EventOf(seq[t] + 1, d), cut)]
        /\ torn' = IF cut \in {"nothing", "full"} THEN torn ELSE torn + 1
        /\ torn' <= MaxTorn

\* The write or the sync fails: its effect on the file is indeterminate, and
\* nothing undoes it.
AppendFails(t) ==
    /\ pc[t] = "append"
    /\ ~Exhausted(seq[t])
    /\ Tear(t)
    /\ Finish(t, "StoreError")
    /\ todo' = [todo EXCEPT ![t] = {}]
    /\ UNCHANGED <<boundary, lock, acked, call, seq, first>>

\* Nothing of the calls of these threads is left.
Cleared(T) ==
    /\ pc' = [t \in Threads |-> IF t \in T THEN "idle" ELSE pc[t]]
    /\ call' = [t \in Threads |-> IF t \in T THEN NoCall ELSE call[t]]
    /\ seq' = [t \in Threads |-> IF t \in T THEN 0 ELSE seq[t]]
    /\ todo' = [t \in Threads |-> IF t \in T THEN {} ELSE todo[t]]
    /\ reply' = [t \in Threads |-> IF t \in T THEN "" ELSE reply[t]]
    /\ first' = [t \in Threads |-> IF t \in T THEN NoFiles ELSE first[t]]

\* The stream locks are dropped, and with each its share of the lease ...
Unlock(t) ==
    /\ pc[t] = "done"
    /\ lock' = Unlocked({t})
    /\ Goto(t, "leave")
    /\ UNCHANGED <<boundary, log, acked, call, seq, todo, reply, first, torn>>

\* Mutation: a call that fails does not give its lease back.
LeaveMutant(t) ==
    /\ pc[t] = "leave"
    /\ IF closer = t THEN Boundary!Open({t})
       ELSE IF reply[t] # "StoreError" THEN Boundary!End({t})
       ELSE UNCHANGED boundary
    /\ Cleared({t})
    /\ UNCHANGED <<files, torn>>

\* ... whose last share ends it.
Leave(t) ==
    /\ pc[t] = "leave"
    /\ IF closer = t THEN Boundary!Open({t}) ELSE Boundary!End({t})
    /\ Cleared({t})
    /\ UNCHANGED <<files, torn>>

-----------------------------------------------------------------------------
(***************************************************************************)
(* capture_quiesced_event_logs, in the process of the backup command.      *)
(***************************************************************************)

\* quiesce_host_producers closes admission ...
CloseAdmission(t) ==
    /\ pc[t] = "called"
    /\ call[t].op = "capture"
    /\ Boundary!Close(t)
    /\ Goto(t, "closed")
    /\ UNCHANGED <<files, call, seq, todo, reply, first, torn>>

\* ... and waits for the leases that are out.
Quiesce(t) ==
    /\ pc[t] = "closed"
    /\ Boundary!Grant(t, "Exclusive")
    /\ Goto(t, "locks")
    /\ UNCHANGED <<files, call, seq, todo, reply, first, torn>>

QuiesceCancelled(t) ==
    /\ pc[t] = "closed"
    /\ Finish(t, "StoreError")
    /\ UNCHANGED <<boundary, files, call, seq, todo, first, torn>>

\* SnapshotLocks::acquire, and the first pass over the three files. The locks
\* are taken one after the other; LocksUncontended is why that can be one
\* step.
FirstPass(t) ==
    /\ pc[t] = "locks"
    /\ \A s \in Streams : lock[s] = NoThread
    /\ lock' = [s \in Streams |-> t]
    /\ IF \A s \in Streams : Strict(log[s])
         THEN /\ first' = [first EXCEPT ![t] = log]
              /\ Goto(t, "again")
              /\ UNCHANGED reply
         ELSE /\ Finish(t, "StoreError")
              /\ UNCHANGED first
    /\ UNCHANGED <<boundary, log, acked, call, seq, todo, torn>>

\* The second pass must find the same.
SecondPass(t) ==
    /\ pc[t] = "again"
    /\ Finish(t, IF log = first[t] THEN "Captured" ELSE "StoreError")
    /\ UNCHANGED <<boundary, files, call, seq, todo, first, torn>>

-----------------------------------------------------------------------------

\* A process dies, perhaps in the middle of an append (of one of its threads).
\* Its leases and locks are gone with it.
Crash(p) ==
    LET dead == {t \in Threads : ProcOf[t] = p}
        writing == {t \in dead : pc[t] = "append" /\ ~Exhausted(seq[t])}
    IN
    /\ \E t \in dead : pc[t] # "idle"
    /\ \/ \E t \in writing : Tear(t)
       \/ UNCHANGED <<log, torn>>
    /\ lock' = Unlocked(dead)
    /\ IF closer \in dead THEN Boundary!Open(dead) ELSE Boundary!End(dead)
    /\ Cleared(dead)
    /\ UNCHANGED acked

\* What a thread does once it has called, except giving up on quiescence: its
\* deadline may pass, and calls return although it never does.
Step(t) ==
    \/ Deny(t) \/ Enter(t) \/ EnterRefused(t)
    \/ LockStream(t) \/ Project(t) \/ ProjectFails(t)
    \/ AppendEvent(t) \/ AppendExhausted(t) \/ AppendFails(t)
    \/ CloseAdmission(t) \/ Quiesce(t) \/ FirstPass(t) \/ SecondPass(t)
    \/ Unlock(t) \/ Leave(t)

Next ==
    \/ \E t \in Threads : Begin(t) \/ Step(t) \/ QuiesceCancelled(t)
    \/ \E p \in Procs : Crash(p)

Spec == Init /\ [][Next]_vars

\* A thread that can go on does, unless its process dies.
FairSpec == Spec /\ \A t \in Threads : WF_vars(Step(t))

-----------------------------------------------------------------------------
(***************************************************************************)
(* Properties.                                                             *)
(***************************************************************************)

\* What the code decides an event on, given the projection of the events
\* before it: the next sequence number, and the state the event presumes.
Follows(p, e) ==
    /\ e.seq = p.seq + 1
    /\ LET d == e.data
           live == d.id \in DOMAIN p.items
       IN  CASE d.kind = "Admitted" ->
                    d.entry.stale => live /\ p.items[d.id] = [d.entry EXCEPT !.stale = FALSE]
             [] d.kind = "Promoted" -> live /\ p.items[d.id] = d.entry
             [] d.kind = "Forgotten" ->
                    live /\ p.items[d.id] = d.entry /\ d.id \notin p.superseded
             [] d.kind = "Detected" -> ~live
             [] d.kind \in {"Resolved", "Escalated"} -> live /\ p.items[d.id] = "Pending"
             [] OTHER -> TRUE

\* A run of events, each decided on those before it.
Chained(es) == \A n \in DOMAIN es : Follows(Fold(SubSeq(es, 1, n - 1)), es[n])

\* Every event that a replay returns was decided on the events before it: no
\* two writers used the same sequence number, a before-image is the entry as
\* it was, a sweep restates only live entries, a conflict is recorded once and
\* decided once. That is what the read-decide-append section under the effect
\* lease and the stream lock is for. (A file that no longer replays may hold
\* more: a sweep that began on a torn line goes on after its first event has
\* been glued to that line.)
EventsFollowState ==
    \A s \in Streams : Readable(log[s]) => Chained(EventsOf(log[s]))

\* A replay that succeeds has every event whose append returned Ok, however
\* earlier appends were torn: what is skipped as a torn write was never
\* acknowledged.
NoSilentLoss ==
    \A s \in Streams : Readable(log[s]) => acked[s] \subseteq Range(EventsOf(log[s]))

\* A capture succeeds only with the three files as they are at one moment,
\* every acknowledged event in them, and with files that a restored project
\* can carry on: the next event appended to them can be read.
CaptureIsRestorable ==
    \A t \in Threads :
        pc[t] = "done" /\ reply[t] = "Captured" =>
            \A s \in Streams :
                LET f == first[t][s]
                    e == EventOf(Replay(f).seq + 1, [kind |-> "SourceAdded", id |-> NoId])
                IN  /\ f = log[s]
                    /\ acked[s] \subseteq Range(f.lines)
                    /\ Len(f.lines) = Replay(f).seq
                    /\ Readable(Write(f, e, "full"))

\* The lease comes before the lock and outlives it, so the stream locks are
\* free for whoever needs them: neither a transaction nor a capture, which
\* takes all three, waits for one or times out on it.
LocksUncontended ==
    \A t \in Threads :
        /\ pc[t] = "lock" => lock[StreamOf(call[t].op)] = NoThread
        /\ pc[t] = "locks" => \A s \in Streams : lock[s] = NoThread

\* Every call returns, a capture too: the transactions it waits for end.
CallsReturn == \A t \in Threads : pc[t] # "idle" ~> pc[t] = "idle"
=============================================================================
