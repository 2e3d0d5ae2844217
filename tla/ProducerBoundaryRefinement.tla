--------------------- MODULE ProducerBoundaryRefinement ---------------------
(***************************************************************************)
(* ProducerBoundary implements HostQuiescence, for any number of           *)
(* processes, threads and pins.                                            *)
(***************************************************************************)
EXTENDS ProducerBoundaryProofs

\* Steps that take and release neither a drain lock nor the gate of a
\* quiescence are invisible.
LEMMA Invisible ==
    ASSUME \A p \in Pins : HeldKind(p)' = HeldKind(p),
           gate \in Pins /\ Quiescer(gate) => gate' = gate /\ Quiescer(gate)',
           gate' \in Pins /\ Quiescer(gate)' => gate' = gate /\ Quiescer(gate)
    PROVE  UNCHANGED Abstract!vars
<1>1. Held' = Held
  BY DEF Held
<1>2. Closer' = Closer
  BY DEF Closer
<1> QED
  BY <1>1, <1>2 DEF Abstract!vars

\* A pin that is acquired for a producer, or only probed, is no quiescer.
LEMMA NotQuiescer ==
    ASSUME IInv, NEW t \in Threads, pin[t] \in Pins,
           op[t] \in {"admit", "effect", "tryEffect"}
    PROVE  ~Quiescer(pin[t])
  BY DEF IInv, PinsOwned, Quiescer, GuardKinds

LEMMA RefinesInit == Init => Abstract!Init
<1> SUFFICES ASSUME Init PROVE Abstract!Init
  OBVIOUS
<1>1. \A p \in Pins : HeldKind(p) = "none"
  BY DEF Init, HeldKind
<1>2. Closer = NoPin
  BY NullAssumption DEF Init, Closer
<1> QED
  BY <1>1, <1>2 DEF Abstract!Init, Held

\* Steps with the same locks, in which whoever has the gate stays, or stays
\* no, quiescer.
LEMMA SameLocks ==
    ASSUME UNCHANGED locks,
           gate \in Pins => (Quiescer(gate)' <=> Quiescer(gate))
    PROVE  UNCHANGED Abstract!vars
<1>1. \A p \in Pins : HeldKind(p)' = HeldKind(p)
  BY DEF HeldKind, locks
<1> QED
  BY <1>1, Invisible DEF locks

\* Return, Begin, Abandon and the like: the pin of t has no gate before or
\* after, and no other thread moves.
LEMMA OwnPinOnly ==
    ASSUME IInv, NEW t \in Threads, UNCHANGED <<guards, locks>>,
           gate \in Pins => pin[t] # gate /\ pin'[t] # gate,
           \A u \in Threads : u # t => pin'[u] = pin[u] /\ op'[u] = op[u]
    PROVE  UNCHANGED Abstract!vars
<1>1. gate \in Pins => (Quiescer(gate)' <=> Quiescer(gate))
  <2> SUFFICES ASSUME gate \in Pins PROVE Quiescer(gate)' <=> Quiescer(gate)
    OBVIOUS
  <2>1. gate' = gate
    BY DEF locks
  <2> QED
    BY <2>1 DEF Quiescer, Holds
<1> QED
  BY <1>1, SameLocks

\* Steps along an operation that keep its pin, its operation and the locks.
LEMMA SameOperation ==
    ASSUME UNCHANGED <<op, pin, guards, locks>>
    PROVE  UNCHANGED Abstract!vars
<1>1. gate \in Pins => (Quiescer(gate)' <=> Quiescer(gate))
  BY DEF Quiescer, Holds, locks
<1> QED
  BY <1>1, SameLocks

\* The gate is taken: by a quiescing thread it closes admission.
LEMMA RefinesAcquireGate ==
    ASSUME IInv, NEW t \in Threads, AcquireGate(t)
    PROVE  Abstract!Next \/ UNCHANGED Abstract!vars
<1> USE NullAssumption
<1>1. op[t] \in Requests /\ pin[t] \in Pins
  BY DEF AcquireGate, Goto, IInv, OpOK, Acquiring
<1>2. Held' = Held
  BY DEF AcquireGate, Held, HeldKind
<1>3. Closer = NoPin
  BY DEF AcquireGate, Closer
<1>4. Quiescer(pin[t])' <=> Quiescer(pin[t])
  BY DEF AcquireGate, Quiescer, Holds
<1>5. gate' = pin[t] /\ pin' = pin
  BY DEF AcquireGate
<1>6. CASE op[t] = "quiesce"
  <2>1. Quiescer(pin[t])
    BY <1>6 DEF Quiescer
  <2>2. Quiescer(gate)'
    BY <2>1, <1>4, <1>5
  <2>3. Closer' = pin[t]
    BY <2>2, <1>1, <1>5 DEF Closer
  <2> QED
    BY <2>3, <1>1, <1>2, <1>3 DEF Abstract!Next, Abstract!Close
<1>7. CASE op[t] # "quiesce"
  <2>1. ~Quiescer(pin[t])
    BY <1>1, <1>7, NotQuiescer DEF Requests
  <2>2. Closer' = NoPin
    BY <2>1, <1>4, <1>5 DEF Closer
  <2> QED
    BY <2>2, <1>2, <1>3 DEF Abstract!vars
<1> QED
  BY <1>6, <1>7

\* A probe of the gate is invisible.
LEMMA RefinesProbeGate ==
    ASSUME IInv, NEW t \in Threads, ProbeGate(t)
    PROVE  UNCHANGED Abstract!vars
<1>1. op[t] \in {"admit", "effect", "tryEffect"} /\ pin[t] \in Pins
  BY DEF ProbeGate, Goto, Reuses, IInv, OpOK, Acquiring
<1>2. ~Quiescer(pin[t])
  BY <1>1, NotQuiescer
<1>3. gate' = pin[t] /\ gate = NoPin /\ UNCHANGED <<pin, op, guards, drain, authority>>
  BY DEF ProbeGate
<1>4. ~Quiescer(gate)'
  BY <1>2, <1>3 DEF Quiescer, Holds
<1>5. \A p \in Pins : HeldKind(p)' = HeldKind(p)
  BY <1>3 DEF HeldKind
<1> QED
  BY <1>3, <1>4, <1>5, NullAssumption, Invisible

\* A thread other than a quiescing one gives the gate back.
LEMMA ReleaseGateInvisible ==
    ASSUME IInv, NEW t \in Threads, pin[t] \in Pins, gate = pin[t], gate' = NoPin,
           op[t] \in {"admit", "effect", "tryEffect"},
           UNCHANGED <<authority, drain>>
    PROVE  UNCHANGED Abstract!vars
<1>1. ~Quiescer(gate)
  BY NotQuiescer
<1>2. \A p \in Pins : HeldKind(p)' = HeldKind(p)
  BY DEF HeldKind
<1> QED
  BY <1>1, <1>2, NullAssumption, Invisible

\* Reuse, whether it finds the lease or not, returns a probed gate.
LEMMA RefinesReuse ==
    ASSUME IInv, NEW t \in Threads, ReuseLease(t) \/ ReuseLost(t)
    PROVE  UNCHANGED Abstract!vars
<1>1. pc[t] = "probe" /\ gate' = NoPin /\ UNCHANGED <<authority, drain>>
  BY DEF ReuseLease, ReuseLost
<1>2. pin[t] \in Pins /\ gate = pin[t] /\ op[t] \in {"admit", "effect", "tryEffect"}
  BY <1>1 DEF IInv, OpOK, StageLocks, Probing, Acquiring
<1> QED
  BY <1>1, <1>2, ReleaseGateInvisible

LEMMA RefinesValidate ==
    ASSUME IInv, NEW t \in Threads, ValidateLease(t)
    PROVE  UNCHANGED Abstract!vars
<1>1. pin[t] \in Pins /\ gate = pin[t] /\ op[t] \in Requests
  BY DEF ValidateLease, Goto, IInv, OpOK, StageLocks, Acquiring
<1>2. CASE op[t] = "quiesce"
  BY <1>2, SameOperation DEF ValidateLease, locks
<1>3. CASE op[t] # "quiesce"
  BY <1>1, <1>3, ReleaseGateInvisible DEF ValidateLease, Requests
<1> QED
  BY <1>2, <1>3

\* The authority lock alone grants nothing.
LEMMA RefinesAuthority ==
    ASSUME IInv, NEW t \in Threads, AcquireAuthority(t) \/ UnlockAuthority(t)
    PROVE  UNCHANGED Abstract!vars
<1>1. drain[pin[t]] = "unlocked" /\ pin[t] \in Pins
  BY DEF AcquireAuthority, UnlockAuthority, Goto, IInv, StageLocks, OpOK,
         Acquiring, Releasing
<1>2. \A p \in Pins : p # pin[t] => authority'[p] = authority[p]
  BY DEF AcquireAuthority, UnlockAuthority, IInv, TypeOK
<1>3. UNCHANGED <<drain, gate, pin, op, guards>>
  BY DEF AcquireAuthority, UnlockAuthority
<1>4. \A p \in Pins : HeldKind(p)' = HeldKind(p)
  BY <1>1, <1>2, <1>3 DEF HeldKind
<1>5. Quiescer(gate)' <=> Quiescer(gate)
  BY <1>3 DEF Quiescer, Holds
<1> QED
  BY <1>3, <1>4, <1>5, Invisible

\* The drain lock is the lease: it is granted next to compatible leases only,
\* and to nobody but the quiescer once admission is closed.
LEMMA RefinesAcquireDrain ==
    ASSUME IInv, NEW t \in Threads, AcquireDrain(t)
    PROVE  Abstract!Next
<1> USE NullAssumption
<1> DEFINE l == pin[t]
           k == LeaseKind(op[t])
<1>1. /\ op[t] \in Requests /\ l \in Pins /\ gate = l
      /\ drain[l] = "unlocked" /\ authority[l] = AuthorityMode(op[t])
  BY DEF AcquireDrain, Goto, IInv, OpOK, StageLocks, Acquiring
<1>2. /\ Compatible(drain, l, DrainMode(op[t]))
      /\ drain' = [drain EXCEPT ![l] = DrainMode(op[t])]
      /\ UNCHANGED <<authority, gate, pin, op, guards>>
  BY DEF AcquireDrain
<1>3. Closer' = Closer
  BY <1>2 DEF Closer, Quiescer, Holds
<1>4. Closer \in {NoPin, l} /\ (k = "Exclusive" => Closer = l)
  BY <1>1 DEF Closer, Quiescer, LeaseKind, Requests
<1>5. HeldKind(l) = "none" /\ \A p \in Pins : p = l => HeldKind(p)' = k
  <2>1. drain'[l] = DrainMode(op[t]) /\ authority'[l] = AuthorityMode(op[t])
    BY <1>1, <1>2 DEF IInv, TypeOK
  <2> QED
    BY <2>1, <1>1, <1>2 DEF HeldKind, LeaseKind, DrainMode, AuthorityMode, Requests
<1>6. \A p \in Pins \ {l} : HeldKind(p)' = HeldKind(p)
  BY <1>2 DEF HeldKind, IInv, TypeOK
<1>7. \A p \in Pins \ {l} : Abstract!Together(HeldKind(p), k)
  <2> SUFFICES ASSUME NEW p \in Pins \ {l}, drain[p] # "unlocked"
               PROVE  Abstract!Together(HeldKind(p), k)
    BY DEF Abstract!Together, HeldKind
  <2>1. drain[p] = "shared" /\ DrainMode(op[t]) = "shared"
    BY <1>2 DEF Compatible
  <2>2. authority[p] # "unlocked"
    <3>1. p \in InUse
      BY DEF IInv, NoLockLeak
    <3> QED
      BY <3>1, <2>1 DEF IInv, InUse, GuardLocks, StageLocks, AuthorityMode,
                        OpOK, TypeOK, Stages
  <2> QED
    BY <2>1, <2>2, <1>1
    DEF IInv, LockCompat, Abstract!Together, HeldKind, LeaseKind, DrainMode,
        AuthorityMode, Requests
<1>8. k \in Abstract!Kinds
  BY <1>1 DEF Abstract!Kinds, LeaseKind, Requests
<1>9. Abstract!Grant(l, k)
  <2>1. Held' = [Held EXCEPT ![l] = k]
    BY <1>1, <1>5, <1>6 DEF Held
  <2> QED
    BY <2>1, <1>1, <1>3, <1>4, <1>5, <1>7 DEF Abstract!Grant, Held
<1> QED
  BY <1>1, <1>8, <1>9 DEF Abstract!Next

\* A published quiescence keeps admission closed.
LEMMA RefinesPublish ==
    ASSUME IInv, NEW t \in Threads, Publish(t)
    PROVE  UNCHANGED Abstract!vars
<1> USE NullAssumption
<1>1. /\ op[t] \in Requests /\ pin[t] \in Pins /\ pc[t] = "publish"
      /\ gate = pin[t] <=> op[t] = "quiesce"
  BY DEF Publish, IInv, OpOK, StageLocks, Acquiring
<1>2. /\ pin' = [pin EXCEPT ![t] = NoPin] /\ op' = [op EXCEPT ![t] = "none"]
      /\ guards' = [guards EXCEPT ![t] = @ \cup {<<pin[t], LeaseKind(op[t])>>}]
      /\ gate' = gate /\ UNCHANGED locks
  BY DEF Publish, Return, locks
<1>3. ASSUME gate \in Pins PROVE Quiescer(gate)' <=> Quiescer(gate)
  <2>1. CASE gate = pin[t]
    <3>1. Quiescer(gate)
      BY <2>1, <1>1 DEF Quiescer
    <3>2. <<gate, "Exclusive">> \in guards'[t]
      BY <2>1, <1>1, <1>2 DEF IInv, TypeOK, LeaseKind
    <3>3. Quiescer(gate)'
      BY <3>2, <1>2 DEF Quiescer, Holds
    <3> QED
      BY <3>1, <3>3
  <2>2. CASE gate # pin[t]
    <3>1. \A v \in Threads :
            /\ pin'[v] = gate /\ op'[v] \in {"quiesce", "drop"} <=>
               pin[v] = gate /\ op[v] \in {"quiesce", "drop"}
            /\ <<gate, "Exclusive">> \in guards'[v] <=>
               <<gate, "Exclusive">> \in guards[v]
      BY <2>2, <1>3, <1>2 DEF IInv, TypeOK
    <3> QED
      BY <3>1, <1>2 DEF Quiescer, Holds
  <2> QED
    BY <2>1, <2>2
<1> QED
  BY <1>2, <1>3, SameLocks

\* Dropping the quiescence guard leaves admission closed until the gate is
\* unlocked.
LEMMA RefinesDropGuard ==
    ASSUME IInv, NEW t \in Threads, NEW l \in Pins, NEW r \in GuardKinds,
           DropGuard(t, <<l, r>>)
    PROVE  UNCHANGED Abstract!vars
<1> USE NullAssumption
<1>1. /\ pin[t] = NoPin /\ op[t] = "none" /\ Holds(t, l, r)
      /\ gate = l <=> r = "Exclusive"
      /\ guards' = [guards EXCEPT ![t] = @ \ {<<l, r>>}]
      /\ gate' = gate /\ UNCHANGED locks
  BY DEF DropGuard, IInv, OpOK, GuardLocks, Holds, locks
<1>2. \/ /\ UNCHANGED <<op, pin>>
         /\ \E v \in Threads, j \in GuardKinds : <<l, j>> \in guards'[v]
      \/ op' = [op EXCEPT ![t] = "drop"] /\ pin' = [pin EXCEPT ![t] = l]
  BY DEF DropGuard
<1>3. ASSUME gate \in Pins PROVE Quiescer(gate)' <=> Quiescer(gate)
  <2>1. CASE gate = l
    <3>1. Quiescer(gate)
      BY <2>1, <1>1 DEF Quiescer
    <3>2. CASE UNCHANGED <<op, pin>>
               /\ \E v \in Threads, j \in GuardKinds : <<l, j>> \in guards'[v]
      <4>1. PICK v \in Threads, j \in GuardKinds : <<l, j>> \in guards'[v]
        BY <3>2
      <4>2. Holds(v, l, j)
        BY <4>1, <1>1 DEF IInv, TypeOK, Holds
      <4>3. j = "Exclusive"
        BY <4>2, <2>1 DEF IInv, GuardLocks
      <4> QED
        BY <3>1, <4>1, <4>3, <2>1, <1>1 DEF Quiescer, Holds
    <3>3. CASE op' = [op EXCEPT ![t] = "drop"] /\ pin' = [pin EXCEPT ![t] = l]
      BY <3>1, <3>3, <2>1, <1>1 DEF Quiescer, IInv, TypeOK
    <3> QED
      BY <3>2, <3>3, <1>2
  <2>2. CASE gate # l
    <3>1. \A v \in Threads :
            /\ pin'[v] = gate /\ op'[v] \in {"quiesce", "drop"} <=>
               pin[v] = gate /\ op[v] \in {"quiesce", "drop"}
            /\ <<gate, "Exclusive">> \in guards'[v] <=>
               <<gate, "Exclusive">> \in guards[v]
      BY <2>2, <1>1, <1>2, <1>3 DEF IInv, TypeOK
    <3> QED
      BY <3>1, <1>1 DEF Quiescer, Holds
  <2> QED
    BY <2>1, <2>2
<1> QED
  BY <1>1, <1>3, SameLocks

\* The drain lock is unlocked: the lease is over.
LEMMA RefinesUnlockDrain ==
    ASSUME IInv, NEW t \in Threads, UnlockDrain(t)
    PROVE  Abstract!Next
<1>1. pin[t] \in Pins
  BY DEF UnlockDrain, Goto, IInv, OpOK, Releasing
<1>2. /\ drain' = [drain EXCEPT ![pin[t]] = "unlocked"]
      /\ UNCHANGED <<authority, gate, pin, op, guards>>
  BY DEF UnlockDrain
<1>3. Closer' = Closer
  BY <1>2 DEF Closer, Quiescer, Holds
<1>4. \A p \in Pins :
        HeldKind(p)' = IF p \in {pin[t]} THEN "none" ELSE HeldKind(p)
  BY <1>2 DEF HeldKind, IInv, TypeOK
<1>5. Held' = [p \in Pins |-> IF p \in {pin[t]} THEN "none" ELSE Held[p]]
  BY <1>4 DEF Held
<1>6. Abstract!End({pin[t]})
  BY <1>3, <1>5 DEF Abstract!End
<1>7. {pin[t]} \in SUBSET Pins
  BY <1>1
<1> QED
  BY <1>6, <1>7 DEF Abstract!Next

\* The gate of a quiescence is unlocked: admission opens again.
LEMMA RefinesUnlockGate ==
    ASSUME IInv, NEW t \in Threads, UnlockGate(t)
    PROVE  Abstract!Next \/ UNCHANGED Abstract!vars
<1> USE NullAssumption
<1>1. pin[t] \in Pins /\ gate = pin[t] /\ drain[pin[t]] = "unlocked"
  BY DEF UnlockGate, Goto, IInv, OpOK, StageLocks, Releasing
<1>2. gate' = NoPin /\ UNCHANGED <<authority, drain, pin, op, guards>>
  BY DEF UnlockGate
<1>3. Held' = Held
  BY <1>2 DEF Held, HeldKind
<1>4. Closer' = NoPin
  BY <1>2 DEF Closer
<1>5. CASE Closer = NoPin
  BY <1>3, <1>4, <1>5 DEF Abstract!vars
<1>6. CASE Closer # NoPin
  <2>1. Closer = pin[t]
    BY <1>1, <1>6 DEF Closer
  <2>2. Held[pin[t]] = "none"
    BY <1>1 DEF Held, HeldKind
  <2>3. Held' = [p \in Pins |-> IF p \in {} THEN "none" ELSE Held[p]]
    BY <1>3 DEF Held
  <2>4. Abstract!Open({})
    BY <2>1, <2>2, <2>3, <1>3, <1>4, <1>6 DEF Abstract!Open
  <2> QED
    BY <2>4 DEF Abstract!Next
<1> QED
  BY <1>5, <1>6

\* A crash ends the leases of one process, and its quiescence with them.
LEMMA RefinesCrash ==
    ASSUME IInv, NEW P \in Procs, Crash(P)
    PROVE  Abstract!Next
<1> USE NullAssumption
<1> DEFINE gone == {p \in Pins : \E t \in Threads : ProcOf[t] = P /\
                    (pin[t] = p \/ \E k \in GuardKinds : Holds(t, p, k))}
<1>1. /\ gate' = IF gate \in gone THEN NoPin ELSE gate
      /\ authority' = [p \in Pins |-> IF p \in gone THEN "unlocked" ELSE authority[p]]
      /\ drain' = [p \in Pins |-> IF p \in gone THEN "unlocked" ELSE drain[p]]
  BY DEF Crash
<1>2. \A p \in Pins : HeldKind(p)' = IF p \in gone THEN "none" ELSE HeldKind(p)
  <2> HIDE DEF gone
  <2> QED
    BY <1>1 DEF HeldKind
<1>3. Held' = [p \in Pins |-> IF p \in gone THEN "none" ELSE Held[p]]
  <2> HIDE DEF gone
  <2> QED
    BY <1>2 DEF Held
<1>4. CASE Closer \in gone
  <2>1. Closer = gate /\ Closer # NoPin
    BY <1>4 DEF Closer
  <2>2. Closer' = NoPin
    BY <2>1, <1>4, <1>1 DEF Closer
  <2>3. Held'[Closer] = "none"
    <3> HIDE DEF gone
    <3>1. Closer \in Pins
      BY <1>4 DEF gone
    <3> QED
      BY <3>1, <1>3, <1>4
  <2>4. Abstract!Open(gone)
    BY <2>1, <2>2, <2>3, <1>3 DEF Abstract!Open
  <2> QED
    BY <2>4 DEF Abstract!Next
<1>5. CASE Closer \notin gone
  <2>1. ASSUME gate \in Pins, gate \notin gone
        PROVE  Quiescer(gate)' <=> Quiescer(gate)
    <3>1. gate' = gate
      BY <1>1, <2>1
    <3>2. \A v \in Threads : ProcOf[v] # P =>
            /\ pin'[v] = pin[v] /\ op'[v] = op[v] /\ guards'[v] = guards[v]
      BY DEF Crash
    <3>3. \A v \in Threads : ProcOf[v] = P =>
            /\ pin[v] # gate /\ pin'[v] # gate
            /\ <<gate, "Exclusive">> \notin guards[v]
            /\ <<gate, "Exclusive">> \notin guards'[v]
      BY <2>1 DEF Crash, Holds, GuardKinds
    <3> HIDE DEF gone
    <3> QED
      BY <3>1, <3>2, <3>3 DEF Quiescer, Holds
  <2>2. Closer' = Closer
    <3> HIDE DEF gone
    <3>1. CASE gate \in gone
      BY <3>1, <1>1, <1>5 DEF Closer
    <3>2. CASE gate \notin gone
      BY <3>2, <1>1, <2>1 DEF Closer
    <3> QED
      BY <3>1, <3>2
  <2>3. Abstract!End(gone)
    BY <2>2, <1>3 DEF Abstract!End
  <2> QED
    BY <2>3 DEF Abstract!Next
<1> QED
  BY <1>4, <1>5

\* The remaining steps only move the pin and the program counter of one thread.
LEMMA RefinesBookkeeping ==
    ASSUME IInv, NEW t \in Threads,
           \/ DecideAcquire(t) \/ DecideRefuse(t) \/ ProbeRefuse(t)
           \/ TryAuthorityRefuse(t) \/ Unregister(t) \/ Abandon(t)
           \/ \E o \in Requests, p \in Pins : Begin(t, o, p)
    PROVE  UNCHANGED Abstract!vars
<1> USE NullAssumption DEF IInv
<1>1. CASE DecideAcquire(t) \/ TryAuthorityRefuse(t)
           \/ (Abandon(t) /\ pc[t] # "decide")
  BY <1>1, SameOperation DEF DecideAcquire, TryAuthorityRefuse, Abandon
<1>2. CASE DecideRefuse(t) \/ ProbeRefuse(t) \/ Unregister(t)
           \/ (Abandon(t) /\ pc[t] = "decide")
  <2>1. pc[t] \in {"decide", "unregister"} /\ Return(t) /\ UNCHANGED <<guards, locks>>
    BY <1>2 DEF DecideRefuse, ProbeRefuse, Unregister, Abandon
  <2>2. pin[t] # gate /\ pin'[t] = NoPin
    BY <2>1 DEF StageLocks, Return, TypeOK
  <2> QED
    BY <2>1, <2>2, OwnPinOnly DEF Return, TypeOK
<1>3. CASE \E o \in Requests, p \in Pins : Begin(t, o, p)
  <2>1. PICK o \in Requests, p \in Pins : Begin(t, o, p)
    BY <1>3
  <2>2. gate # p /\ pin[t] = NoPin /\ pin'[t] = p /\ UNCHANGED <<guards, locks>>
    BY <2>1 DEF Begin, NoLockLeak, OpOK, TypeOK
  <2> QED
    BY <2>1, <2>2, OwnPinOnly DEF Begin, TypeOK
<1> QED
  BY <1>1, <1>2, <1>3

LEMMA RefinesNext ==
    IInv /\ [Next]_vars => Abstract!Next \/ UNCHANGED Abstract!vars
<1> SUFFICES ASSUME IInv, [Next]_vars
             PROVE  Abstract!Next \/ UNCHANGED Abstract!vars
  OBVIOUS
<1>1. ASSUME NEW t \in Threads, Step(t)
      PROVE  Abstract!Next \/ UNCHANGED Abstract!vars
  BY <1>1, RefinesBookkeeping, RefinesProbeGate, RefinesReuse, RefinesAcquireGate,
     RefinesAuthority, RefinesAcquireDrain, RefinesValidate, RefinesPublish,
     RefinesUnlockDrain, RefinesUnlockGate DEF Step
<1>2. ASSUME NEW t \in Threads,
             Abandon(t) \/ \E o \in Requests, p \in Pins : Begin(t, o, p)
      PROVE  UNCHANGED Abstract!vars
  BY <1>2, RefinesBookkeeping
<1>3. ASSUME NEW t \in Threads, NEW p \in Pins, NEW k \in GuardKinds,
             DropGuard(t, <<p, k>>)
      PROVE  UNCHANGED Abstract!vars
  BY <1>3, RefinesDropGuard
<1>4. ASSUME NEW P \in Procs, Crash(P) PROVE Abstract!Next
  BY <1>4, RefinesCrash
<1>5. CASE UNCHANGED vars
  BY <1>5, SameOperation DEF vars, locks
<1> QED
  BY <1>1, <1>2, <1>3, <1>4, <1>5 DEF Next

\* The boundary, with its registry, polling locks, lost races and crashes,
\* implements the writer-preferring lease service.
THEOREM Refinement == Spec => RefinesHostQuiescence
<1>1. IInv /\ [Next]_vars => [Abstract!Next]_(Abstract!vars)
  BY RefinesNext
<1> QED
  BY <1>1, RefinesInit, Invariance, PTL DEF Spec, RefinesHostQuiescence, Abstract!Spec

=============================================================================
