-------------------------- MODULE ProducerBoundary --------------------------
(***************************************************************************)
(* Cross-process admission of durable state producers                      *)
(* (crates/forge-core-store/src/producer_quiescence.rs).                   *)
(*                                                                         *)
(* Every process that writes a state root holds a lease on it: a shared    *)
(* lease (a plain producer), an effect lease (the one publisher of file    *)
(* effects) or the exclusive lease of host quiescence (backup, restore).   *)
(* Leases are made of three OS file locks taken in the order gate,         *)
(* authority, drain; inside a process a registry entry per root makes all  *)
(* threads share one lease through reference counting.                     *)
(*                                                                         *)
(* What the model leaves out                                               *)
(*  - One state root. A pin (RootPin) is an opened set of lock files; the  *)
(*    OS locks belong to the pin, not to the thread or the process.        *)
(*  - Registry ids (next_registry_id) are 64-bit and never recycled while  *)
(*    in use: the pin an id was issued for stands for the id.              *)
(*  - Time: a deadline or a cancellation may strike at every check_wait,   *)
(*    and validate_pin may fail whenever it is called (Abandon).           *)
(*  - A thread's nested guards of one kind on one lease count once: only   *)
(*    the first and the last of them change what anybody can observe.      *)
(***************************************************************************)
EXTENDS FiniteSets

CONSTANTS
    Procs,      \* operating-system processes
    Threads,    \* threads of all processes
    ProcOf,     \* the process of a thread
    Calls,      \* the operations the program of a thread calls
    Pins,       \* opened RootPins (and so registry ids)
    NoPin,      \* no pin
    NoThread    \* no thread

\* admit_producer, admit_effect_producer (try_only = false, true) and
\* quiesce_host_producers.
Requests == {"admit", "effect", "tryEffect", "quiesce"}

ASSUME ProcOfAssumption == ProcOf \in [Threads -> Procs]
ASSUME CallsAssumption == Calls \in [Threads -> SUBSET Requests]
ASSUME NullAssumption == NoPin \notin Pins /\ NoThread \notin Threads

VARIABLES
    pc,         \* where each thread is in an operation of the boundary
    op,         \* the operation a thread is executing
    pin,        \* the pin the operation opened, or the lease being dropped
    guards,     \* the strong references a thread owns: <<pin, kind>>
    registry,   \* per process: the registry entry of the root
    mutex,      \* per process: the thread that holds the registry mutex
    gate,       \* the pin that holds the gate lock (always exclusive)
    authority,  \* mode in which each pin holds the root-authority lock
    drain       \* mode in which each pin holds the drain lock

vars == <<pc, op, pin, guards, registry, mutex, gate, authority, drain>>

locks == <<gate, authority, drain>>

-----------------------------------------------------------------------------
(* Operations, leases and registry entries                                 *)

\* The BoundaryLeaseInner variants a guard can carry.
GuardKinds == {"Shared", "SharedUnderEffect", "Effect", "Exclusive"}

LeaseKinds == {"Shared", "Effect", "Exclusive"}

\* The kind of lease a request acquires when it cannot reuse one.
LeaseKind(o) ==
    CASE o = "admit" -> "Shared"
      [] o \in {"effect", "tryEffect"} -> "Effect"
      [] o = "quiesce" -> "Exclusive"

\* The guard a request gets when it reuses the process's lease of kind k.
ReuseKind(o, k) ==
    IF o = "admit" /\ k = "Effect" THEN "SharedUnderEffect" ELSE LeaseKind(o)

Entries ==
    [state : LeaseKinds \cup {"Admitting"}, id : Pins, owner : Threads]

NoEntry == [state |-> "None", id |-> NoPin, owner |-> NoThread]

Holds(t, p, k) == <<p, k>> \in guards[t]

\* The Weak lease in the registry of t's process has a strong reference left.
Live(t, p) ==
    \E u \in Threads, k \in GuardKinds : ProcOf[u] = ProcOf[t] /\ Holds(u, p, k)

\* A pin is in use from pin_state_root until its files are closed.
InUse ==
    {p \in Pins : \E t \in Threads :
        pin[t] = p \/ \E k \in GuardKinds : Holds(t, p, k)}

\* Mutation: an exclusive lock requested with try_lock_shared.
CompatibleSharedMutant(lock, p, mode) ==
    \A q \in Pins \ {p} : lock[q] # "exclusive"

\* flock compatibility: can p take the lock in this mode?
Compatible(lock, p, mode) ==
    \A q \in Pins \ {p} :
        \/ lock[q] = "unlocked"
        \/ mode = "shared" /\ lock[q] = "shared"

\* Mutation: effect producers retain the authority lock shared.
AuthorityModeMutant(o) == IF o = "quiesce" THEN "exclusive" ELSE "shared"

AuthorityMode(o) == IF o = "admit" THEN "shared" ELSE "exclusive"
DrainMode(o) == IF o = "quiesce" THEN "exclusive" ELSE "shared"

Registered(t) == registry[ProcOf[t]]

\* Return from the operation, with or without a guard.
Return(t) ==
    /\ pc' = [pc EXCEPT ![t] = "idle"]
    /\ op' = [op EXCEPT ![t] = "none"]
    /\ pin' = [pin EXCEPT ![t] = NoPin]

Goto(t, from, to) ==
    /\ pc[t] = from
    /\ pc' = [pc EXCEPT ![t] = to]

MutexFree(t) == mutex[ProcOf[t]] = NoThread

SetEntry(t, e) == registry' = [registry EXCEPT ![ProcOf[t]] = e]

-----------------------------------------------------------------------------
Init ==
    /\ pc = [t \in Threads |-> "idle"]
    /\ op = [t \in Threads |-> "none"]
    /\ pin = [t \in Threads |-> NoPin]
    /\ guards = [t \in Threads |-> {}]
    /\ registry = [P \in Procs |-> NoEntry]
    /\ mutex = [P \in Procs |-> NoThread]
    /\ gate = NoPin
    /\ authority = [p \in Pins |-> "unlocked"]
    /\ drain = [p \in Pins |-> "unlocked"]

-----------------------------------------------------------------------------
(* The registry decision, one pass of the loop of admit_pinned,            *)
(* admit_effect_pinned and quiesce_pinned                                  *)

\* Open a pin on the root and enter the operation.
Begin(t, o, p) ==
    /\ pc[t] = "idle"
    /\ o \in Calls[t]
    /\ p \notin InUse
    /\ pc' = [pc EXCEPT ![t] = "decide"]
    /\ op' = [op EXCEPT ![t] = o]
    /\ pin' = [pin EXCEPT ![t] = p]
    /\ UNCHANGED <<guards, registry, mutex, locks>>

\* The entry is a lease the request may share. admit_pinned takes the Effect
\* branch without looking at the strong count.
Reuses(t, e) ==
    \/ op[t] = "admit" /\ e.state = "Shared" /\ Live(t, e.id)
    \/ op[t] = "admit" /\ e.state = "Effect"
    \/ /\ op[t] \in {"effect", "tryEffect"}
       /\ e.state = "Effect"
       /\ Live(t, e.id)
       /\ e.owner = t

\* The entry is a live lease the request may neither share nor wait for.
Refuses(t, e) ==
    /\ e.state \in LeaseKinds
    /\ Live(t, e.id)
    /\ \/ op[t] = "admit" /\ e.state = "Exclusive"
       \/ op[t] = "effect" /\ e.state \in {"Shared", "Exclusive"}
       \/ op[t] = "tryEffect" /\ (e.state # "Effect" \/ e.owner # t)
       \/ op[t] = "quiesce"

\* There is no entry, or one whose lease is dead and which the request removes.
Vacant(t, e) ==
    \/ e = NoEntry
    \/ e.state \in LeaseKinds /\ ~Live(t, e.id) /\ ~Reuses(t, e)

Admitting(t) == [state |-> "Admitting", id |-> pin[t], owner |-> t]

\* Insert Admitting and leave the registry to take the locks. An Admitting
\* entry of a sibling, or for "effect" a sibling's live effect lease, is waited
\* for: the loop goes round until this, DecideRefuse or Abandon applies.
DecideAcquire(t) ==
    /\ Goto(t, "decide", "gate")
    /\ MutexFree(t)
    /\ Vacant(t, Registered(t))
    /\ SetEntry(t, Admitting(t))
    /\ UNCHANGED <<op, pin, guards, mutex, locks>>

\* ReentrantUpgrade, NestedExclusive, Quiescing or EffectAuthorityHeld.
DecideRefuse(t) ==
    /\ pc[t] = "decide"
    /\ MutexFree(t)
    /\ Refuses(t, Registered(t))
    /\ Return(t)
    /\ UNCHANGED <<guards, registry, mutex, locks>>

\* try_lock_gate_for_reuse takes the gate; the registry mutex stays locked.
ProbeGate(t) ==
    /\ Goto(t, "decide", "probe")
    /\ MutexFree(t)
    /\ Reuses(t, Registered(t))
    /\ gate = NoPin
    /\ gate' = pin[t]
    /\ mutex' = [mutex EXCEPT ![ProcOf[t]] = t]
    /\ UNCHANGED <<op, pin, guards, registry, authority, drain>>

\* Mutation: reuse goes ahead although the gate is closed.
ProbeRefuseMutant(t) ==
    /\ pc[t] = "decide"
    /\ MutexFree(t)
    /\ Reuses(t, Registered(t))
    /\ Live(t, Registered(t).id)
    /\ gate # NoPin
    /\ guards' = [guards EXCEPT ![t] =
            @ \cup {<<Registered(t).id, ReuseKind(op[t], Registered(t).state)>>}]
    /\ Return(t)
    /\ UNCHANGED <<registry, mutex, locks>>

\* try_lock_gate_for_reuse finds the gate locked and returns Quiescing.
ProbeRefuse(t) ==
    /\ pc[t] = "decide"
    /\ MutexFree(t)
    /\ Reuses(t, Registered(t))
    /\ gate # NoPin
    /\ Return(t)
    /\ UNCHANGED <<guards, registry, mutex, locks>>

\* lease.upgrade() succeeds: unlock the gate and return one more guard. When
\* validate_pin of the reused lease fails, the guard is dropped again at once.
ReuseLease(t) ==
    /\ pc[t] = "probe"
    /\ Live(t, Registered(t).id)
    /\ guards' = [guards EXCEPT ![t] =
            @ \cup {<<Registered(t).id, ReuseKind(op[t], Registered(t).state)>>}]
    /\ gate' = NoPin
    /\ mutex' = [mutex EXCEPT ![ProcOf[t]] = NoThread]
    /\ Return(t)
    /\ UNCHANGED <<registry, authority, drain>>

\* Mutation: the registry mutex is not released on the way back to the loop.
ReuseLostMutant(t) ==
    /\ pc[t] = "probe"
    /\ ~Live(t, Registered(t).id)
    /\ gate' = NoPin
    /\ IF op[t] = "admit" /\ Registered(t).state = "Effect"
       THEN Goto(t, "probe", "gate") /\ SetEntry(t, Admitting(t))
       ELSE Goto(t, "probe", "decide") /\ SetEntry(t, NoEntry)
    /\ UNCHANGED <<op, pin, guards, mutex, authority, drain>>

\* lease.upgrade() fails, the last guard went away meanwhile: unlock the gate
\* and remove the entry. Every caller then goes round the loop, except a plain
\* admission over an effect lease, which falls through to Admitting.
ReuseLost(t) ==
    /\ pc[t] = "probe"
    /\ ~Live(t, Registered(t).id)
    /\ gate' = NoPin
    /\ mutex' = [mutex EXCEPT ![ProcOf[t]] = NoThread]
    /\ IF op[t] = "admit" /\ Registered(t).state = "Effect"
       THEN Goto(t, "probe", "gate") /\ SetEntry(t, Admitting(t))
       ELSE Goto(t, "probe", "decide") /\ SetEntry(t, NoEntry)
    /\ UNCHANGED <<op, pin, guards, authority, drain>>

-----------------------------------------------------------------------------
(* acquire_shared_lease, acquire_effect_lease, acquire_exclusive_lease     *)

AcquireGate(t) ==
    /\ Goto(t, "gate", "authority")
    /\ gate = NoPin
    /\ gate' = pin[t]
    /\ UNCHANGED <<op, pin, guards, registry, mutex, authority, drain>>

AcquireAuthority(t) ==
    /\ Goto(t, "authority", "drain")
    /\ Compatible(authority, pin[t], AuthorityMode(op[t]))
    /\ authority' = [authority EXCEPT ![pin[t]] = AuthorityMode(op[t])]
    /\ UNCHANGED <<op, pin, guards, registry, mutex, gate, drain>>

\* try_acquire_effect_root_authority_lock does not wait: EffectAuthorityHeld.
TryAuthorityRefuse(t) ==
    /\ Goto(t, "authority", "unlockGate")
    /\ op[t] = "tryEffect"
    /\ ~Compatible(authority, pin[t], "exclusive")
    /\ UNCHANGED <<op, pin, guards, registry, mutex, locks>>

AcquireDrain(t) ==
    /\ Goto(t, "drain", "validate")
    /\ Compatible(drain, pin[t], DrainMode(op[t]))
    /\ drain' = [drain EXCEPT ![pin[t]] = DrainMode(op[t])]
    /\ UNCHANGED <<op, pin, guards, registry, mutex, gate, authority>>

\* Mutation: quiescence gives the gate back as producers do.
ValidateLeaseMutant(t) ==
    /\ Goto(t, "validate", "publish")
    /\ gate' = NoPin
    /\ UNCHANGED <<op, pin, guards, registry, mutex, authority, drain>>

\* The last validate_pin succeeds; only quiescence keeps the gate.
ValidateLease(t) ==
    /\ Goto(t, "validate", "publish")
    /\ gate' = IF op[t] = "quiesce" THEN gate ELSE NoPin
    /\ UNCHANGED <<op, pin, guards, registry, mutex, authority, drain>>

\* Replace the Admitting entry by the lease and return its first guard.
Publish(t) ==
    /\ pc[t] = "publish"
    /\ MutexFree(t)
    /\ SetEntry(t, [state |-> LeaseKind(op[t]), id |-> pin[t], owner |-> t])
    /\ guards' = [guards EXCEPT ![t] = @ \cup {<<pin[t], LeaseKind(op[t])>>}]
    /\ Return(t)
    /\ UNCHANGED <<mutex, locks>>

-----------------------------------------------------------------------------
(* Giving up and dropping                                                  *)

\* Mutation: a failed drain lock forgets the authority lock.
UnwindMutant(stage) ==
    CASE stage = "gate" -> "unregister"
      [] stage \in {"authority", "drain"} -> "unlockGate"
      [] stage = "validate" -> "unlockDrain"

\* The step that undoes the last lock taken at each stage.
Unwind(stage) ==
    CASE stage = "gate" -> "unregister"
      [] stage = "authority" -> "unlockGate"
      [] stage = "drain" -> "unlockAuthority"
      [] stage = "validate" -> "unlockDrain"

\* Cancelled, DeadlineExceeded, a changed root or a lock error, at the checks
\* every attempt of acquire_file_lock and every pass of the loop begin with.
Abandon(t) ==
    \/ /\ pc[t] = "decide"
       /\ Return(t)
       /\ UNCHANGED <<guards, registry, mutex, locks>>
    \/ /\ pc[t] \in {"gate", "authority", "drain", "validate"}
       /\ Goto(t, pc[t], Unwind(pc[t]))
       /\ UNCHANGED <<op, pin, guards, registry, mutex, locks>>

\* Drop one guard. The last strong reference runs the lease's Drop, which
\* begins with the drain lock; from then on the Weak in the registry is dead.
DropGuard(t, g) ==
    /\ pc[t] = "idle"
    /\ g \in guards[t]
    /\ guards' = [guards EXCEPT ![t] = @ \ {g}]
    /\ IF \E u \in Threads, k \in GuardKinds :
            ProcOf[u] = ProcOf[t] /\ <<g[1], k>> \in guards'[u]
       THEN UNCHANGED <<pc, op, pin>>
       ELSE /\ pc' = [pc EXCEPT ![t] = "unlockDrain"]
            /\ op' = [op EXCEPT ![t] = "drop"]
            /\ pin' = [pin EXCEPT ![t] = g[1]]
    /\ UNCHANGED <<registry, mutex, locks>>

UnlockDrain(t) ==
    /\ Goto(t, "unlockDrain", "unlockAuthority")
    /\ drain' = [drain EXCEPT ![pin[t]] = "unlocked"]
    /\ UNCHANGED <<op, pin, guards, registry, mutex, gate, authority>>

\* A dropped shared or effect lease gave the gate back when it was acquired.
UnlockAuthority(t) ==
    /\ Goto(t, "unlockAuthority",
            IF gate = pin[t] THEN "unlockGate" ELSE "unregister")
    /\ authority' = [authority EXCEPT ![pin[t]] = "unlocked"]
    /\ UNCHANGED <<op, pin, guards, registry, mutex, gate, drain>>

UnlockGate(t) ==
    /\ Goto(t, "unlockGate", "unregister")
    /\ gate' = NoPin
    /\ UNCHANGED <<op, pin, guards, registry, mutex, authority, drain>>

\* Mutation: the entry is removed whatever its id.
UnregisterMutant(t) ==
    /\ pc[t] = "unregister"
    /\ MutexFree(t)
    /\ SetEntry(t, NoEntry)
    /\ Return(t)
    /\ UNCHANGED <<guards, mutex, locks>>

\* Remove the registry entry, but only the one with this id: a sibling may
\* have replaced the dead entry already. The pin's files are closed.
Unregister(t) ==
    /\ pc[t] = "unregister"
    /\ MutexFree(t)
    /\ IF Registered(t).id = pin[t]
       THEN SetEntry(t, NoEntry)
       ELSE UNCHANGED registry
    /\ Return(t)
    /\ UNCHANGED <<guards, mutex, locks>>

-----------------------------------------------------------------------------
\* The operating system ends a process: its descriptors close, its locks go.
Crash(P) ==
    LET gone == {p \in Pins : \E t \in Threads : ProcOf[t] = P /\
                    (pin[t] = p \/ \E k \in GuardKinds : Holds(t, p, k))}
        Mine(t) == ProcOf[t] = P
    IN  /\ pc' = [t \in Threads |-> IF Mine(t) THEN "idle" ELSE pc[t]]
        /\ op' = [t \in Threads |-> IF Mine(t) THEN "none" ELSE op[t]]
        /\ pin' = [t \in Threads |-> IF Mine(t) THEN NoPin ELSE pin[t]]
        /\ guards' = [t \in Threads |-> IF Mine(t) THEN {} ELSE guards[t]]
        /\ registry' = [registry EXCEPT ![P] = NoEntry]
        /\ mutex' = [mutex EXCEPT ![P] = NoThread]
        /\ gate' = IF gate \in gone THEN NoPin ELSE gate
        /\ authority' =
            [p \in Pins |-> IF p \in gone THEN "unlocked" ELSE authority[p]]
        /\ drain' = [p \in Pins |-> IF p \in gone THEN "unlocked" ELSE drain[p]]

-----------------------------------------------------------------------------
\* A thread's own progress, without the choices of its caller.
Step(t) ==
    \/ DecideAcquire(t)
    \/ DecideRefuse(t)
    \/ ProbeGate(t)
    \/ ProbeRefuse(t)
    \/ ReuseLease(t)
    \/ ReuseLost(t)
    \/ AcquireGate(t)
    \/ AcquireAuthority(t)
    \/ TryAuthorityRefuse(t)
    \/ AcquireDrain(t)
    \/ ValidateLease(t)
    \/ Publish(t)
    \/ UnlockDrain(t)
    \/ UnlockAuthority(t)
    \/ UnlockGate(t)
    \/ Unregister(t)

Next ==
    \/ \E t \in Threads :
        \/ Step(t)
        \/ Abandon(t)
        \/ \E o \in Requests, p \in Pins : Begin(t, o, p)
        \/ \E p \in Pins, k \in GuardKinds : DropGuard(t, <<p, k>>)
    \/ \E P \in Procs : Crash(P)

Spec == Init /\ [][Next]_vars

\* Every thread is scheduled, and a blocked lock of the registry mutex, which
\* is only ever held for a few steps, succeeds in the end. Callers hold their
\* guards for a bounded piece of work and then drop them, whatever other
\* requests they make meanwhile (RAII guards).
FairSpec ==
    /\ Spec
    /\ \A t \in Threads :
        /\ WF_vars(Step(t))
        /\ SF_vars(Publish(t) \/ Unregister(t))
        /\ SF_vars(\E p \in Pins, k \in GuardKinds : DropGuard(t, <<p, k>>))

\* The deadlines of producers pass (PRODUCER_DEADLINE, EFFECT_DEADLINE), while
\* nothing is said about the deadline of quiescence. A passed deadline stays
\* passed: a thread that checks it again and again gives up.
DrainSpec ==
    FairSpec /\ \A t \in Threads : SF_vars(Abandon(t) /\ op[t] # "quiesce")

-----------------------------------------------------------------------------
(* Properties                                                              *)

Stages == {"idle", "decide", "probe", "gate", "authority", "drain", "validate",
           "publish", "unlockDrain", "unlockAuthority", "unlockGate",
           "unregister"}

Modes == {"unlocked", "shared", "exclusive"}

\* Type invariant of the boundary's state.
TypeOK ==
    /\ pc \in [Threads -> Stages]
    /\ op \in [Threads -> Requests \cup {"none", "drop"}]
    /\ pin \in [Threads -> Pins \cup {NoPin}]
    /\ guards \in [Threads -> SUBSET (Pins \X GuardKinds)]
    /\ registry \in [Procs -> Entries \cup {NoEntry}]
    /\ mutex \in [Procs -> Threads \cup {NoThread}]
    /\ gate \in Pins \cup {NoPin}
    /\ authority \in [Pins -> Modes]
    /\ drain \in [Pins -> Modes]

\* Quiescence is alone: while a thread holds a HostQuiescenceGuard no other
\* thread of any process holds a guard of any kind (quiesce_host_producers
\* "drain all already-admitted producers").
QuiescenceAlone ==
    \A t, u \in Threads, p, q \in Pins, k \in GuardKinds :
        Holds(t, p, "Exclusive") /\ Holds(u, q, k)
            => t = u /\ p = q /\ k = "Exclusive"

\* One effect publisher: while a thread holds an EffectProducerGuard no other
\* lease exists in any process, and no other thread, not even one of the same
\* process that shares the lease, has effect authority
\* (require_effect_authority accepts only Effect and Exclusive).
OneEffectPublisher ==
    \A t, u \in Threads, p, q \in Pins, k \in GuardKinds :
        Holds(t, p, "Effect") /\ Holds(u, q, k)
            => p = q /\ k \in {"Effect", "SharedUnderEffect"}
                     /\ (k = "Effect" => t = u)

\* The registry never forgets a lease: as long as a guard lives, its process's
\* entry names that very lease, although entries are removed by siblings that
\* found a dead one and by the Drop of older leases (remove_registry_entry).
RegistryNamesLease ==
    \A t \in Threads, p \in Pins, k \in GuardKinds :
        Holds(t, p, k) =>
            /\ Registered(t).id = p
            /\ Registered(t).state =
                    IF k = "SharedUnderEffect" THEN "Effect" ELSE k

Waiting(t) == pc[t] \in {"gate", "authority", "drain"}

\* No hold and wait: while any thread of a process holds a guard, none of its
\* threads polls for an OS lock, so no cycle of waiting processes can form
\* (reuse probes the gate without waiting, upgrades are refused).
NoHoldAndWait ==
    \A t, u \in Threads :
        guards[t] # {} /\ ProcOf[u] = ProcOf[t] => ~Waiting(u)

\* No lock outlives its users: a locked pin belongs to a live lease or to a
\* thread that is acquiring or releasing it, after every order of
\* cancellations, deadlines, drops and crashes.
NoLockLeak ==
    \A p \in Pins :
        (gate = p \/ authority[p] # "unlocked" \/ drain[p] # "unlocked")
            => p \in InUse

\* t has closed the gate on behalf of quiescence.
Closing(t) == op[t] = "quiesce" /\ gate # NoPin /\ gate = pin[t]

\* Writer preference: from the moment a quiescing thread holds the gate, no
\* other thread takes the drain lock, and the only guards that still appear
\* are those of admissions that had all their locks before the gate closed.
AdmissionCloses ==
    \A t, u \in Threads :
        Closing(t) /\ Closing(t)' /\ u # t =>
            /\ pc[u] # "publish" => guards'[u] \subseteq guards[u]
            /\ \A p \in Pins \ {pin[t]} :
                    drain[p] = "unlocked" => drain'[p] = "unlocked"

NoLateAdmission == [][AdmissionCloses]_vars

\* Quiescence drains: a quiescing thread that closed the gate gets its
\* exclusive lease, or gives up, once callers drop the guards they hold.
QuiescenceDrains ==
    \A t \in Threads :
        Closing(t) ~> (pc[t] = "idle" \/ \E p \in Pins : Holds(t, p, "Exclusive"))

\* Every admission and every drop returns once the producers' deadlines pass,
\* while a quiescence waits as long as it likes: nobody waits for ever on a
\* lock, on the registry mutex or on a sibling's Admitting entry.
OperationsReturn ==
    \A t \in Threads :
        pc[t] # "idle" /\ op[t] # "quiesce" ~> pc[t] = "idle"

-----------------------------------------------------------------------------
(* Refinement of HostQuiescence: a lease is held while its drain lock is,  *)
(* and admission is closed while a quiescing pin has the gate.             *)

HeldKind(p) ==
    IF drain[p] = "unlocked" THEN "none"
    ELSE IF drain[p] = "exclusive" THEN "Exclusive"
    ELSE IF authority[p] = "exclusive" THEN "Effect" ELSE "Shared"

\* p belongs to a quiescence: being acquired, held or being released.
Quiescer(p) ==
    \E t \in Threads :
        \/ pin[t] = p /\ op[t] \in {"quiesce", "drop"}
        \/ Holds(t, p, "Exclusive")

Held == [p \in Pins |-> HeldKind(p)]

Closer == IF gate \in Pins /\ Quiescer(gate) THEN gate ELSE NoPin

Abstract == INSTANCE HostQuiescence WITH
    Leases <- Pins, NoLease <- NoPin, held <- Held, closer <- Closer

\* The boundary implements HostQuiescence.
RefinesHostQuiescence == Abstract!Spec

=============================================================================
