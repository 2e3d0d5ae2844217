----------------------- MODULE ProducerBoundaryProofs -----------------------
(***************************************************************************)
(* The safety properties of ProducerBoundary for any number of processes,  *)
(* threads and pins, from one inductive invariant.                         *)
(***************************************************************************)
EXTENDS ProducerBoundary, TLAPS

Acquiring == {"gate", "authority", "drain", "validate", "publish"}
Releasing == {"unlockDrain", "unlockAuthority", "unlockGate", "unregister"}

\* A thread that is not idle has an operation and its pin.
OpOK ==
    \A t \in Threads :
        /\ pc[t] = "idle" => op[t] = "none" /\ pin[t] = NoPin
        /\ pc[t] \in Acquiring \cup {"decide", "probe"} =>
                op[t] \in Requests /\ pin[t] \in Pins
        /\ pc[t] \in Releasing =>
                op[t] \in Requests \cup {"drop"} /\ pin[t] \in Pins

\* A pin is the pin of one operation at most, and never also a live lease;
\* a lease stays within one process.
PinsOwned ==
    /\ \A t, u \in Threads : pin[t] = pin[u] /\ pin[t] \in Pins => t = u
    /\ \A t, u \in Threads, p \in Pins, k \in GuardKinds :
            Holds(u, p, k) => pin[t] # p
    /\ \A t, u \in Threads, p \in Pins, j, k \in GuardKinds :
            Holds(t, p, j) /\ Holds(u, p, k) => ProcOf[t] = ProcOf[u]

\* The locks an operation's pin has at each stage.
StageLocks ==
    \A t \in Threads :
        /\ pc[t] \in {"decide", "gate", "unregister"} =>
                gate # pin[t] /\ authority[pin[t]] = "unlocked"
                              /\ drain[pin[t]] = "unlocked"
        /\ pc[t] \in {"probe", "authority", "unlockGate"} =>
                gate = pin[t] /\ authority[pin[t]] = "unlocked"
                              /\ drain[pin[t]] = "unlocked"
        /\ pc[t] \in {"drain", "validate"} => gate = pin[t]
        /\ pc[t] \in {"drain", "validate", "publish"} =>
                authority[pin[t]] = AuthorityMode(op[t])
        /\ pc[t] \in {"drain", "unlockAuthority"} => drain[pin[t]] = "unlocked"
        /\ pc[t] \in {"validate", "publish"} => drain[pin[t]] = DrainMode(op[t])
        /\ pc[t] = "publish" => (gate = pin[t] <=> op[t] = "quiesce")
        /\ pc[t] = "unlockDrain" => authority[pin[t]] # "unlocked"

\* The locks of a live lease.
GuardLocks ==
    \A t \in Threads, p \in Pins, k \in GuardKinds :
        Holds(t, p, k) =>
            /\ authority[p] = IF k = "Shared" THEN "shared" ELSE "exclusive"
            /\ drain[p] = IF k = "Exclusive" THEN "exclusive" ELSE "shared"
            /\ gate = p <=> k = "Exclusive"

\* Exclusive means exclusive, for both of the shared-or-exclusive locks.
LockCompat ==
    \A p, q \in Pins :
        /\ authority[p] = "exclusive" /\ p # q => authority[q] = "unlocked"
        /\ drain[p] = "exclusive" /\ p # q => drain[q] = "unlocked"

\* An acquiring thread has announced itself; the entry stays until it is
\* replaced or removed by that thread.
Announced ==
    \A t \in Threads :
        pc[t] \in Acquiring =>
            Registered(t).state = "Admitting" /\ Registered(t).id = pin[t]

\* The mutex is held during a probe, and the entry is the one being reused.
Probing ==
    \A t \in Threads :
        pc[t] = "probe" =>
            /\ mutex[ProcOf[t]] = t
            /\ \/ op[t] = "admit" /\ Registered(t).state \in {"Shared", "Effect"}
               \/ /\ op[t] \in {"effect", "tryEffect"}
                  /\ Registered(t).state = "Effect"
                  /\ Registered(t).owner = t

\* Effect authority and quiescence stay with the thread that acquired them.
GuardOwner ==
    \A t \in Threads, p \in Pins, k \in {"Effect", "Exclusive"} :
        Holds(t, p, k) => Registered(t).owner = t

IInv ==
    /\ TypeOK
    /\ OpOK
    /\ PinsOwned
    /\ StageLocks
    /\ GuardLocks
    /\ LockCompat
    /\ NoLockLeak
    /\ Announced
    /\ Probing
    /\ RegistryNamesLease
    /\ GuardOwner

-----------------------------------------------------------------------------
(* The lemmas: one per action                                              *)

\* Where a request may insert its Admitting entry, no guard of the process
\* is left.
LEMMA VacantMeansFree ==
    ASSUME IInv, NEW t \in Threads, Vacant(t, Registered(t)),
           NEW u \in Threads, ProcOf[u] = ProcOf[t],
           NEW p \in Pins, NEW k \in GuardKinds, Holds(u, p, k)
    PROVE  FALSE
<1>1. Registered(u).id = p
  BY DEF IInv, RegistryNamesLease
<1>2. Live(t, p)
  BY DEF Live
<1>3. Registered(t) = Registered(u)
  BY DEF Registered
<1> QED
  BY <1>1, <1>2, <1>3, NullAssumption DEF Vacant, NoEntry

\* While a thread acquires a lease, its process has no guard.
LEMMA AnnouncedMeansFree ==
    ASSUME IInv, NEW t \in Threads, pc[t] \in Acquiring,
           NEW u \in Threads, ProcOf[u] = ProcOf[t],
           NEW p \in Pins, NEW k \in GuardKinds, Holds(u, p, k)
    PROVE  FALSE
<1>1. Registered(u).state # "Admitting"
  BY DEF IInv, RegistryNamesLease, GuardKinds
<1> QED
  BY <1>1 DEF IInv, Announced, Registered

\* A dead lease in the registry has no guard in the process.
LEMMA DeadMeansFree ==
    ASSUME IInv, NEW t \in Threads, ~Live(t, Registered(t).id),
           NEW u \in Threads, ProcOf[u] = ProcOf[t],
           NEW p \in Pins, NEW k \in GuardKinds, Holds(u, p, k)
    PROVE  FALSE
  BY DEF IInv, RegistryNamesLease, Registered, Live

\* The lease in the registry that t may reuse, its kind and its locks.
LEMMA LiveLease ==
    ASSUME IInv, NEW t \in Threads, Live(t, Registered(t).id)
    PROVE  \E u \in Threads, k \in GuardKinds :
            /\ ProcOf[u] = ProcOf[t]
            /\ Registered(t).id \in Pins
            /\ Holds(u, Registered(t).id, k)
            /\ Registered(t).state = IF k = "SharedUnderEffect" THEN "Effect" ELSE k
<1>1. PICK u \in Threads, k \in GuardKinds :
            ProcOf[u] = ProcOf[t] /\ Holds(u, Registered(t).id, k)
  BY DEF Live
<1>2. Registered(t).id \in Pins
  BY <1>1 DEF IInv, TypeOK, Holds
<1>3. Registered(t).state = IF k = "SharedUnderEffect" THEN "Effect" ELSE k
  BY <1>1, <1>2 DEF IInv, RegistryNamesLease, Registered
<1> QED
  BY <1>1, <1>2, <1>3

\* Returning with an unlocked pin leaks nothing.
LEMMA ReturnUnlocked ==
    ASSUME IInv, NEW t \in Threads, pc[t] \in {"decide", "unregister"},
           Return(t), UNCHANGED <<guards, locks>>
    PROVE  NoLockLeak'
<1>1. /\ pin[t] \in Pins /\ gate # pin[t]
      /\ authority[pin[t]] = "unlocked" /\ drain[pin[t]] = "unlocked"
  BY DEF IInv, OpOK, StageLocks, Acquiring, Releasing
<1>2. \A q \in Pins : q \in InUse /\ q # pin[t] => q \in InUse'
  BY DEF InUse, Holds, Return, IInv, TypeOK
<1>3. gate' = gate /\ authority' = authority /\ drain' = drain
  BY DEF locks
<1> QED
  BY <1>1, <1>2, <1>3 DEF IInv, NoLockLeak

LEMMA BeginStep ==
    ASSUME IInv, NEW t \in Threads, NEW o \in Requests, NEW p \in Pins, Begin(t, o, p)
    PROVE  IInv'
<1> USE ProcOfAssumption, NullAssumption DEF IInv
<1>1. TypeOK'
    BY DEF Begin, TypeOK, OpOK, Acquiring, Releasing, Stages, Requests, locks
<1>2. OpOK'
    BY DEF Begin, TypeOK, OpOK, Acquiring, Releasing, Requests, locks
<1>3. PinsOwned'
    BY DEF Begin, TypeOK, OpOK, PinsOwned, Holds, Acquiring, Releasing, InUse,
        locks
<1>4. StageLocks'
    BY DEF Begin, TypeOK, OpOK, PinsOwned, StageLocks, Acquiring, Releasing,
        NoLockLeak, InUse, locks
<1>5. GuardLocks'
    BY DEF Begin, TypeOK, GuardLocks, Holds, PinsOwned, locks
<1>6. LockCompat'
    BY DEF Begin, TypeOK, OpOK, LockCompat, Acquiring, Releasing, locks
<1>7. NoLockLeak'
  <2>1. \A q \in Pins : q \in InUse => q \in InUse'
    BY DEF Begin, InUse, Holds, OpOK, TypeOK
  <2> QED
    BY <2>1 DEF Begin, NoLockLeak, locks
<1>8. Announced'
    BY DEF Begin, TypeOK, OpOK, PinsOwned, Announced, Registered, Acquiring,
        Releasing, locks
<1>9. Probing'
    BY DEF Begin, TypeOK, Probing, Registered, locks
<1>10. RegistryNamesLease'
    BY DEF Begin, TypeOK, RegistryNamesLease, Holds, Registered, locks
<1>11. GuardOwner'
    BY DEF Begin, TypeOK, GuardOwner, Holds, Registered, locks
<1> QED
  BY <1>1, <1>2, <1>3, <1>4, <1>5, <1>6, <1>7, <1>8, <1>9, <1>10, <1>11

LEMMA DecideAcquireStep ==
    ASSUME IInv, NEW t \in Threads, DecideAcquire(t)
    PROVE  IInv'
<1> USE ProcOfAssumption, NullAssumption DEF IInv
<1>1. TypeOK'
    BY DEF DecideAcquire, Goto, MutexFree, SetEntry, Admitting, TypeOK, OpOK,
        Acquiring, Releasing, Stages, Requests, Entries, LeaseKinds, Modes,
        locks
<1>2. OpOK'
    BY DEF DecideAcquire, Goto, MutexFree, SetEntry, Admitting, TypeOK, OpOK,
        Acquiring, Releasing, Requests, locks
<1>3. PinsOwned'
    BY DEF DecideAcquire, Goto, MutexFree, SetEntry, Admitting, TypeOK, OpOK,
        PinsOwned, Holds, Acquiring, Releasing, locks
<1>4. StageLocks'
    BY DEF DecideAcquire, Goto, MutexFree, SetEntry, Admitting, TypeOK, OpOK,
        PinsOwned, StageLocks, Acquiring, Releasing, locks
<1>5. GuardLocks'
    BY DEF DecideAcquire, Goto, MutexFree, SetEntry, Admitting, TypeOK,
        GuardLocks, Holds, PinsOwned, locks
<1>6. LockCompat'
    BY DEF DecideAcquire, Goto, MutexFree, SetEntry, Admitting, TypeOK, OpOK,
        LockCompat, Acquiring, Releasing, locks
<1>7. NoLockLeak'
    BY DEF DecideAcquire, Goto, MutexFree, SetEntry, Admitting, TypeOK, OpOK,
        NoLockLeak, InUse, Holds, Acquiring, Releasing, locks
<1>8. Announced'
  <2> SUFFICES ASSUME NEW v \in Threads, pc'[v] \in Acquiring
               PROVE  Registered(v)'.state = "Admitting" /\ Registered(v)'.id = pin'[v]
    BY DEF Announced
  <2>1. CASE v = t
    BY <2>1 DEF DecideAcquire, SetEntry, Admitting, Registered, TypeOK
  <2>2. CASE v # t
    <3>1. pc[v] \in Acquiring /\ pin'[v] = pin[v]
      BY <2>2 DEF DecideAcquire, Goto, TypeOK
    <3>2. Registered(v).state = "Admitting" /\ Registered(v).id = pin[v]
      BY <3>1 DEF Announced
    <3>3. ProcOf[v] # ProcOf[t]
      BY <3>2 DEF DecideAcquire, Vacant, Registered, NoEntry, LeaseKinds
    <3> QED
      BY <3>1, <3>2, <3>3 DEF DecideAcquire, SetEntry, Registered, TypeOK
  <2> QED
    BY <2>1, <2>2
<1>9. Probing'
    BY DEF DecideAcquire, Goto, MutexFree, SetEntry, Admitting, TypeOK,
        Probing, Registered, locks
<1>10. RegistryNamesLease'
    BY VacantMeansFree DEF DecideAcquire, Goto, MutexFree, SetEntry,
        Admitting, TypeOK, RegistryNamesLease, Holds, Registered, locks
<1>11. GuardOwner'
    BY VacantMeansFree DEF DecideAcquire, Goto, MutexFree, SetEntry,
        Admitting, TypeOK, GuardOwner, Holds, Registered, GuardKinds, locks
<1> QED
  BY <1>1, <1>2, <1>3, <1>4, <1>5, <1>6, <1>7, <1>8, <1>9, <1>10, <1>11

LEMMA DecideRefuseStep ==
    ASSUME IInv, NEW t \in Threads, DecideRefuse(t)
    PROVE  IInv'
<1> USE ProcOfAssumption, NullAssumption DEF IInv
<1>1. TypeOK'
    BY DEF DecideRefuse, Return, TypeOK, OpOK, Acquiring, Releasing, Stages,
        Requests, locks
<1>2. OpOK'
    BY DEF DecideRefuse, Return, TypeOK, OpOK, Acquiring, Releasing, Requests,
        locks
<1>3. PinsOwned'
    BY DEF DecideRefuse, Return, TypeOK, OpOK, PinsOwned, Holds, Acquiring,
        Releasing, locks
<1>4. StageLocks'
    BY DEF DecideRefuse, Return, TypeOK, OpOK, PinsOwned, StageLocks,
        Acquiring, Releasing, locks
<1>5. GuardLocks'
    BY DEF DecideRefuse, Return, TypeOK, GuardLocks, Holds, PinsOwned, locks
<1>6. LockCompat'
    BY DEF DecideRefuse, Return, TypeOK, OpOK, LockCompat, Acquiring,
        Releasing, locks
<1>7. NoLockLeak'
  BY ReturnUnlocked DEF DecideRefuse
<1>8. Announced'
    BY DEF DecideRefuse, Return, TypeOK, OpOK, PinsOwned, Announced,
        Registered, Acquiring, Releasing, locks
<1>9. Probing'
    BY DEF DecideRefuse, Return, TypeOK, Probing, Registered, locks
<1>10. RegistryNamesLease'
    BY DEF DecideRefuse, Return, TypeOK, RegistryNamesLease, Holds,
        Registered, locks
<1>11. GuardOwner'
    BY DEF DecideRefuse, Return, TypeOK, GuardOwner, Holds, Registered, locks
<1> QED
  BY <1>1, <1>2, <1>3, <1>4, <1>5, <1>6, <1>7, <1>8, <1>9, <1>10, <1>11

LEMMA ProbeGateStep ==
    ASSUME IInv, NEW t \in Threads, ProbeGate(t)
    PROVE  IInv'
<1> USE ProcOfAssumption, NullAssumption DEF IInv
<1>1. TypeOK'
    BY DEF ProbeGate, Goto, MutexFree, TypeOK, OpOK, Acquiring, Releasing,
        Stages, Requests, locks
<1>2. OpOK'
    BY DEF ProbeGate, Goto, MutexFree, TypeOK, OpOK, Acquiring, Releasing,
        Requests, locks
<1>3. PinsOwned'
    BY DEF ProbeGate, Goto, MutexFree, TypeOK, OpOK, PinsOwned, Holds,
        Acquiring, Releasing, locks
<1>4. StageLocks'
    BY DEF ProbeGate, Goto, MutexFree, TypeOK, OpOK, PinsOwned, StageLocks,
        Acquiring, Releasing, locks
<1>5. GuardLocks'
    BY DEF ProbeGate, Goto, MutexFree, TypeOK, GuardLocks, Holds, PinsOwned,
        locks
<1>6. LockCompat'
    BY DEF ProbeGate, Goto, MutexFree, TypeOK, OpOK, LockCompat, Acquiring,
        Releasing, locks
<1>7. NoLockLeak'
    BY DEF ProbeGate, Goto, MutexFree, TypeOK, OpOK, NoLockLeak, InUse, Holds,
        Acquiring, Releasing, locks
<1>8. Announced'
    BY DEF ProbeGate, Goto, MutexFree, TypeOK, OpOK, PinsOwned, Announced,
        Registered, Acquiring, Releasing, locks
<1>9. Probing'
  <2> SUFFICES ASSUME NEW v \in Threads, pc'[v] = "probe"
               PROVE  /\ mutex'[ProcOf[v]] = v
                      /\ \/ op'[v] = "admit" /\ Registered(v)'.state \in {"Shared", "Effect"}
                         \/ /\ op'[v] \in {"effect", "tryEffect"}
                            /\ Registered(v)'.state = "Effect"
                            /\ Registered(v)'.owner = v
    BY DEF Probing
  <2>1. CASE v = t
    BY <2>1 DEF ProbeGate, Reuses, Registered, TypeOK
  <2>2. CASE v # t
    <3>1. pc[v] = "probe" /\ mutex[ProcOf[v]] = v
      BY <2>2 DEF ProbeGate, Goto, TypeOK, Probing
    <3>2. ProcOf[v] # ProcOf[t]
      BY <3>1 DEF ProbeGate, MutexFree
    <3> QED
      BY <3>1, <3>2 DEF ProbeGate, Registered, TypeOK, Probing
  <2> QED
    BY <2>1, <2>2
<1>10. RegistryNamesLease'
    BY DEF ProbeGate, Goto, MutexFree, TypeOK, RegistryNamesLease, Holds,
        Registered, locks
<1>11. GuardOwner'
    BY DEF ProbeGate, Goto, MutexFree, TypeOK, GuardOwner, Holds, Registered,
        locks
<1> QED
  BY <1>1, <1>2, <1>3, <1>4, <1>5, <1>6, <1>7, <1>8, <1>9, <1>10, <1>11

LEMMA ProbeRefuseStep ==
    ASSUME IInv, NEW t \in Threads, ProbeRefuse(t)
    PROVE  IInv'
<1> USE ProcOfAssumption, NullAssumption DEF IInv
<1>1. TypeOK'
    BY DEF ProbeRefuse, Return, TypeOK, OpOK, Acquiring, Releasing, Stages,
        Requests, locks
<1>2. OpOK'
    BY DEF ProbeRefuse, Return, TypeOK, OpOK, Acquiring, Releasing, Requests,
        locks
<1>3. PinsOwned'
    BY DEF ProbeRefuse, Return, TypeOK, OpOK, PinsOwned, Holds, Acquiring,
        Releasing, locks
<1>4. StageLocks'
    BY DEF ProbeRefuse, Return, TypeOK, OpOK, PinsOwned, StageLocks,
        Acquiring, Releasing, locks
<1>5. GuardLocks'
    BY DEF ProbeRefuse, Return, TypeOK, GuardLocks, Holds, PinsOwned, locks
<1>6. LockCompat'
    BY DEF ProbeRefuse, Return, TypeOK, OpOK, LockCompat, Acquiring,
        Releasing, locks
<1>7. NoLockLeak'
  BY ReturnUnlocked DEF ProbeRefuse
<1>8. Announced'
    BY DEF ProbeRefuse, Return, TypeOK, OpOK, PinsOwned, Announced,
        Registered, Acquiring, Releasing, locks
<1>9. Probing'
    BY DEF ProbeRefuse, Return, TypeOK, Probing, Registered, locks
<1>10. RegistryNamesLease'
    BY DEF ProbeRefuse, Return, TypeOK, RegistryNamesLease, Holds, Registered,
        locks
<1>11. GuardOwner'
    BY DEF ProbeRefuse, Return, TypeOK, GuardOwner, Holds, Registered, locks
<1> QED
  BY <1>1, <1>2, <1>3, <1>4, <1>5, <1>6, <1>7, <1>8, <1>9, <1>10, <1>11

\* Reuse gives t one more guard of the lease of its process, of a kind that
\* fits the lease and, for effect authority, only to its owner.
LEMMA ReuseLeaseStep ==
    ASSUME IInv, NEW t \in Threads, ReuseLease(t)
    PROVE  IInv'
<1> USE ProcOfAssumption, NullAssumption DEF IInv
<1> DEFINE l == Registered(t).id
           r == ReuseKind(op[t], Registered(t).state)
<1>a. PICK u \in Threads, k \in GuardKinds :
            /\ ProcOf[u] = ProcOf[t]
            /\ l \in Pins
            /\ Holds(u, l, k)
            /\ Registered(t).state = IF k = "SharedUnderEffect" THEN "Effect" ELSE k
  BY LiveLease DEF ReuseLease
<1>b. /\ r \in {"Shared", "SharedUnderEffect", "Effect"}
      /\ Registered(t).state = IF r = "SharedUnderEffect" THEN "Effect" ELSE r
      /\ r = "Effect" => Registered(t).owner = t
  BY DEF ReuseLease, Probing, ReuseKind, LeaseKind
<1>c. k = r \/ {k, r} = {"Effect", "SharedUnderEffect"}
  BY <1>a, <1>b DEF GuardKinds
<1>d. \A v \in Threads, q \in Pins, j \in GuardKinds :
            Holds(v, q, j)' <=> Holds(v, q, j) \/ (v = t /\ q = l /\ j = r)
  BY <1>a DEF ReuseLease, Holds, TypeOK
<1>e. pin[t] \in Pins /\ gate = pin[t] /\ authority[pin[t]] = "unlocked"
                      /\ drain[pin[t]] = "unlocked"
  BY DEF ReuseLease, OpOK, StageLocks, Acquiring
<1>f. /\ pc' = [pc EXCEPT ![t] = "idle"] /\ op' = [op EXCEPT ![t] = "none"]
      /\ pin' = [pin EXCEPT ![t] = NoPin]
      /\ gate' = NoPin /\ authority' = authority /\ drain' = drain
      /\ registry' = registry /\ mutex' = [mutex EXCEPT ![ProcOf[t]] = NoThread]
      /\ pc[t] = "probe"
  BY DEF ReuseLease, Return
<1>g. \A v \in Threads : pin[v] # l
  BY <1>a DEF PinsOwned
<1> HIDE DEF r, l
<1>1. TypeOK'
  <2>1. guards' \in [Threads -> SUBSET (Pins \X GuardKinds)]
    BY <1>a, <1>b DEF ReuseLease, TypeOK, GuardKinds, l, r
  <2> QED
    BY <2>1, <1>f DEF TypeOK, Stages
<1>2. OpOK'
  BY <1>f DEF OpOK, TypeOK, Acquiring, Releasing
<1>3. PinsOwned'
  <2>1. \A v, w \in Threads : pin'[v] = pin'[w] /\ pin'[v] \in Pins => v = w
    BY <1>f DEF PinsOwned, TypeOK
  <2>2. \A v, w \in Threads, q \in Pins, j \in GuardKinds :
            Holds(w, q, j)' => pin'[v] # q
    BY <1>d, <1>f, <1>g DEF PinsOwned, TypeOK
  <2>3. \A v, w \in Threads, q \in Pins, i, j \in GuardKinds :
            Holds(v, q, i)' /\ Holds(w, q, j)' => ProcOf[v] = ProcOf[w]
    BY <1>d, <1>a DEF PinsOwned
  <2> QED
    BY <2>1, <2>2, <2>3 DEF PinsOwned
<1>4. StageLocks'
  BY <1>e, <1>f DEF StageLocks, OpOK, PinsOwned, TypeOK, Acquiring, Releasing
<1>5. GuardLocks'
  <2>1. \A v \in Threads, q \in Pins, j \in GuardKinds :
            Holds(v, q, j) => q # pin[t] /\ j # "Exclusive"
    BY <1>e DEF GuardLocks, PinsOwned
  <2>2. k # "Exclusive"
    BY <2>1, <1>a
  <2> QED
    BY <2>1, <2>2, <1>a, <1>b, <1>c, <1>d, <1>f DEF GuardLocks
<1>6. LockCompat'
  BY <1>f DEF LockCompat
<1>7. NoLockLeak'
  BY <1>d, <1>e, <1>f DEF NoLockLeak, InUse, TypeOK
<1>8. Announced'
  BY <1>f DEF Announced, Registered, TypeOK, Acquiring
<1>9. Probing'
  BY <1>f DEF Probing, Registered, TypeOK
<1>10. RegistryNamesLease'
  BY <1>b, <1>d, <1>f DEF RegistryNamesLease, Registered, l
<1>11. GuardOwner'
  BY <1>b, <1>d, <1>f DEF GuardOwner, Registered, GuardKinds
<1> QED
  BY <1>1, <1>2, <1>3, <1>4, <1>5, <1>6, <1>7, <1>8, <1>9, <1>10, <1>11

LEMMA ReuseLostStep ==
    ASSUME IInv, NEW t \in Threads, ReuseLost(t)
    PROVE  IInv'
<1> USE ProcOfAssumption, NullAssumption DEF IInv
<1>1. TypeOK'
    BY DEF ReuseLost, Goto, SetEntry, Admitting, TypeOK, OpOK, Acquiring,
        Releasing, Stages, Requests, Entries, NoEntry, locks
<1>2. OpOK'
    BY DEF ReuseLost, Goto, SetEntry, Admitting, TypeOK, OpOK, Acquiring,
        Releasing, Requests, locks
<1>3. PinsOwned'
    BY DEF ReuseLost, Goto, SetEntry, Admitting, TypeOK, OpOK, PinsOwned,
        Holds, Acquiring, Releasing, locks
<1>4. StageLocks'
    BY DEF ReuseLost, Goto, SetEntry, Admitting, TypeOK, OpOK, PinsOwned,
        StageLocks, Acquiring, Releasing, locks
<1>5. GuardLocks'
    BY DEF ReuseLost, Goto, SetEntry, Admitting, TypeOK, GuardLocks, Holds,
        PinsOwned, StageLocks, OpOK, Acquiring, locks
<1>6. LockCompat'
    BY DEF ReuseLost, Goto, SetEntry, Admitting, TypeOK, OpOK, LockCompat,
        Acquiring, Releasing, locks
<1>7. NoLockLeak'
    BY DEF ReuseLost, Goto, SetEntry, Admitting, TypeOK, OpOK, NoLockLeak,
        InUse, Holds, Acquiring, Releasing, locks
<1>8. Announced'
  <2> SUFFICES ASSUME NEW v \in Threads, pc'[v] \in Acquiring
               PROVE  Registered(v)'.state = "Admitting" /\ Registered(v)'.id = pin'[v]
    BY DEF Announced
  <2>1. CASE v = t
    BY <2>1 DEF ReuseLost, Goto, SetEntry, Admitting, Registered, TypeOK, Acquiring
  <2>2. CASE v # t
    <3>1. pc[v] \in Acquiring /\ pin'[v] = pin[v]
      BY <2>2 DEF ReuseLost, Goto, TypeOK
    <3>2. Registered(v).state = "Admitting" /\ Registered(v).id = pin[v]
      BY <3>1 DEF Announced
    <3>3. ProcOf[v] # ProcOf[t]
      BY <3>2 DEF ReuseLost, Probing, Registered
    <3> QED
      BY <3>1, <3>2, <3>3 DEF ReuseLost, SetEntry, Registered, TypeOK
  <2> QED
    BY <2>1, <2>2
<1>9. Probing'
    BY DEF ReuseLost, Goto, SetEntry, Admitting, TypeOK, Probing, Registered,
        locks
<1>10. RegistryNamesLease'
    BY DeadMeansFree DEF ReuseLost, Goto, SetEntry, Admitting, TypeOK,
        RegistryNamesLease, Holds, Registered, locks
<1>11. GuardOwner'
  <2> SUFFICES ASSUME NEW v \in Threads, NEW q \in Pins,
                      NEW k \in {"Effect", "Exclusive"}, Holds(v, q, k)'
               PROVE  Registered(v)'.owner = v
    BY DEF GuardOwner
  <2>1. Holds(v, q, k) /\ k \in GuardKinds
    BY DEF ReuseLost, Holds, GuardKinds
  <2>2. ProcOf[v] # ProcOf[t]
    BY <2>1, DeadMeansFree DEF ReuseLost
  <2>3. Registered(v)' = Registered(v)
    BY <2>2 DEF ReuseLost, SetEntry, Registered, TypeOK
  <2> QED
    BY <2>1, <2>3 DEF GuardOwner
<1> QED
  BY <1>1, <1>2, <1>3, <1>4, <1>5, <1>6, <1>7, <1>8, <1>9, <1>10, <1>11

LEMMA AcquireGateStep ==
    ASSUME IInv, NEW t \in Threads, AcquireGate(t)
    PROVE  IInv'
<1> USE ProcOfAssumption, NullAssumption DEF IInv
<1>1. TypeOK'
    BY DEF AcquireGate, Goto, TypeOK, OpOK, Acquiring, Releasing, Stages,
        Requests, locks
<1>2. OpOK'
    BY DEF AcquireGate, Goto, TypeOK, OpOK, Acquiring, Releasing, Requests,
        locks
<1>3. PinsOwned'
    BY DEF AcquireGate, Goto, TypeOK, OpOK, PinsOwned, Holds, Acquiring,
        Releasing, locks
<1>4. StageLocks'
    BY DEF AcquireGate, Goto, TypeOK, OpOK, PinsOwned, StageLocks, Acquiring,
        Releasing, locks
<1>5. GuardLocks'
    BY DEF AcquireGate, Goto, TypeOK, GuardLocks, Holds, PinsOwned, locks
<1>6. LockCompat'
    BY DEF AcquireGate, Goto, TypeOK, OpOK, LockCompat, Acquiring, Releasing,
        locks
<1>7. NoLockLeak'
    BY DEF AcquireGate, Goto, TypeOK, OpOK, NoLockLeak, InUse, Holds,
        Acquiring, Releasing, locks
<1>8. Announced'
    BY DEF AcquireGate, Goto, TypeOK, OpOK, PinsOwned, Announced, Registered,
        Acquiring, Releasing, locks
<1>9. Probing'
    BY DEF AcquireGate, Goto, TypeOK, Probing, Registered, locks
<1>10. RegistryNamesLease'
    BY DEF AcquireGate, Goto, TypeOK, RegistryNamesLease, Holds, Registered,
        locks
<1>11. GuardOwner'
    BY DEF AcquireGate, Goto, TypeOK, GuardOwner, Holds, Registered, locks
<1> QED
  BY <1>1, <1>2, <1>3, <1>4, <1>5, <1>6, <1>7, <1>8, <1>9, <1>10, <1>11

LEMMA AcquireAuthorityStep ==
    ASSUME IInv, NEW t \in Threads, AcquireAuthority(t)
    PROVE  IInv'
<1> USE ProcOfAssumption, NullAssumption DEF IInv
<1>1. TypeOK'
    BY DEF AcquireAuthority, Goto, TypeOK, OpOK, Acquiring, Releasing, Stages,
        Requests, AuthorityMode, Modes, locks
<1>2. OpOK'
    BY DEF AcquireAuthority, Goto, TypeOK, OpOK, Acquiring, Releasing,
        Requests, locks
<1>3. PinsOwned'
    BY DEF AcquireAuthority, Goto, TypeOK, OpOK, PinsOwned, Holds, Acquiring,
        Releasing, locks
<1>4. StageLocks'
    BY DEF AcquireAuthority, Goto, TypeOK, OpOK, PinsOwned, StageLocks,
        Acquiring, Releasing, locks
<1>5. GuardLocks'
    BY DEF AcquireAuthority, Goto, TypeOK, GuardLocks, Holds, PinsOwned, locks
<1>6. LockCompat'
    BY DEF AcquireAuthority, Goto, TypeOK, OpOK, LockCompat, Acquiring,
        Releasing, Compatible, locks
<1>7. NoLockLeak'
    BY DEF AcquireAuthority, Goto, TypeOK, OpOK, NoLockLeak, InUse, Holds,
        Acquiring, Releasing, locks
<1>8. Announced'
    BY DEF AcquireAuthority, Goto, TypeOK, OpOK, PinsOwned, Announced,
        Registered, Acquiring, Releasing, locks
<1>9. Probing'
    BY DEF AcquireAuthority, Goto, TypeOK, Probing, Registered, locks
<1>10. RegistryNamesLease'
    BY DEF AcquireAuthority, Goto, TypeOK, RegistryNamesLease, Holds,
        Registered, locks
<1>11. GuardOwner'
    BY DEF AcquireAuthority, Goto, TypeOK, GuardOwner, Holds, Registered,
        locks
<1> QED
  BY <1>1, <1>2, <1>3, <1>4, <1>5, <1>6, <1>7, <1>8, <1>9, <1>10, <1>11

LEMMA TryAuthorityRefuseStep ==
    ASSUME IInv, NEW t \in Threads, TryAuthorityRefuse(t)
    PROVE  IInv'
<1> USE ProcOfAssumption, NullAssumption DEF IInv
<1>1. TypeOK'
    BY DEF TryAuthorityRefuse, Goto, TypeOK, OpOK, Acquiring, Releasing,
        Stages, Requests, locks
<1>2. OpOK'
    BY DEF TryAuthorityRefuse, Goto, TypeOK, OpOK, Acquiring, Releasing,
        Requests, locks
<1>3. PinsOwned'
    BY DEF TryAuthorityRefuse, Goto, TypeOK, OpOK, PinsOwned, Holds,
        Acquiring, Releasing, locks
<1>4. StageLocks'
    BY DEF TryAuthorityRefuse, Goto, TypeOK, OpOK, PinsOwned, StageLocks,
        Acquiring, Releasing, locks
<1>5. GuardLocks'
    BY DEF TryAuthorityRefuse, Goto, TypeOK, GuardLocks, Holds, PinsOwned,
        locks
<1>6. LockCompat'
    BY DEF TryAuthorityRefuse, Goto, TypeOK, OpOK, LockCompat, Acquiring,
        Releasing, locks
<1>7. NoLockLeak'
    BY DEF TryAuthorityRefuse, Goto, TypeOK, OpOK, NoLockLeak, InUse, Holds,
        Acquiring, Releasing, locks
<1>8. Announced'
    BY DEF TryAuthorityRefuse, Goto, TypeOK, OpOK, PinsOwned, Announced,
        Registered, Acquiring, Releasing, locks
<1>9. Probing'
    BY DEF TryAuthorityRefuse, Goto, TypeOK, Probing, Registered, locks
<1>10. RegistryNamesLease'
    BY DEF TryAuthorityRefuse, Goto, TypeOK, RegistryNamesLease, Holds,
        Registered, locks
<1>11. GuardOwner'
    BY DEF TryAuthorityRefuse, Goto, TypeOK, GuardOwner, Holds, Registered,
        locks
<1> QED
  BY <1>1, <1>2, <1>3, <1>4, <1>5, <1>6, <1>7, <1>8, <1>9, <1>10, <1>11

LEMMA AcquireDrainStep ==
    ASSUME IInv, NEW t \in Threads, AcquireDrain(t)
    PROVE  IInv'
<1> USE ProcOfAssumption, NullAssumption DEF IInv
<1>1. TypeOK'
    BY DEF AcquireDrain, Goto, TypeOK, OpOK, Acquiring, Releasing, Stages,
        Requests, DrainMode, Modes, locks
<1>2. OpOK'
    BY DEF AcquireDrain, Goto, TypeOK, OpOK, Acquiring, Releasing, Requests,
        locks
<1>3. PinsOwned'
    BY DEF AcquireDrain, Goto, TypeOK, OpOK, PinsOwned, Holds, Acquiring,
        Releasing, locks
<1>4. StageLocks'
    BY DEF AcquireDrain, Goto, TypeOK, OpOK, PinsOwned, StageLocks, Acquiring,
        Releasing, locks
<1>5. GuardLocks'
    BY DEF AcquireDrain, Goto, TypeOK, GuardLocks, Holds, PinsOwned, locks
<1>6. LockCompat'
    BY DEF AcquireDrain, Goto, TypeOK, OpOK, LockCompat, Acquiring, Releasing,
        Compatible, locks
<1>7. NoLockLeak'
    BY DEF AcquireDrain, Goto, TypeOK, OpOK, NoLockLeak, InUse, Holds,
        Acquiring, Releasing, locks
<1>8. Announced'
    BY DEF AcquireDrain, Goto, TypeOK, OpOK, PinsOwned, Announced, Registered,
        Acquiring, Releasing, locks
<1>9. Probing'
    BY DEF AcquireDrain, Goto, TypeOK, Probing, Registered, locks
<1>10. RegistryNamesLease'
    BY DEF AcquireDrain, Goto, TypeOK, RegistryNamesLease, Holds, Registered,
        locks
<1>11. GuardOwner'
    BY DEF AcquireDrain, Goto, TypeOK, GuardOwner, Holds, Registered, locks
<1> QED
  BY <1>1, <1>2, <1>3, <1>4, <1>5, <1>6, <1>7, <1>8, <1>9, <1>10, <1>11

LEMMA ValidateLeaseStep ==
    ASSUME IInv, NEW t \in Threads, ValidateLease(t)
    PROVE  IInv'
<1> USE ProcOfAssumption, NullAssumption DEF IInv
<1>1. TypeOK'
    BY DEF ValidateLease, Goto, TypeOK, OpOK, Acquiring, Releasing, Stages,
        Requests, locks
<1>2. OpOK'
    BY DEF ValidateLease, Goto, TypeOK, OpOK, Acquiring, Releasing, Requests,
        locks
<1>3. PinsOwned'
    BY DEF ValidateLease, Goto, TypeOK, OpOK, PinsOwned, Holds, Acquiring,
        Releasing, locks
<1>4. StageLocks'
    BY DEF ValidateLease, Goto, TypeOK, OpOK, PinsOwned, StageLocks,
        Acquiring, Releasing, locks
<1>5. GuardLocks'
    BY DEF ValidateLease, Goto, TypeOK, GuardLocks, Holds, PinsOwned,
        StageLocks, locks
<1>6. LockCompat'
    BY DEF ValidateLease, Goto, TypeOK, OpOK, LockCompat, Acquiring,
        Releasing, locks
<1>7. NoLockLeak'
    BY DEF ValidateLease, Goto, TypeOK, OpOK, NoLockLeak, InUse, Holds,
        Acquiring, Releasing, locks
<1>8. Announced'
    BY DEF ValidateLease, Goto, TypeOK, OpOK, PinsOwned, Announced,
        Registered, Acquiring, Releasing, locks
<1>9. Probing'
    BY DEF ValidateLease, Goto, TypeOK, Probing, Registered, locks
<1>10. RegistryNamesLease'
    BY DEF ValidateLease, Goto, TypeOK, RegistryNamesLease, Holds, Registered,
        locks
<1>11. GuardOwner'
    BY DEF ValidateLease, Goto, TypeOK, GuardOwner, Holds, Registered, locks
<1> QED
  BY <1>1, <1>2, <1>3, <1>4, <1>5, <1>6, <1>7, <1>8, <1>9, <1>10, <1>11

\* Publishing turns the pin of the operation, with its locks, into a lease.
LEMMA PublishStep ==
    ASSUME IInv, NEW t \in Threads, Publish(t)
    PROVE  IInv'
<1> USE ProcOfAssumption, NullAssumption DEF IInv
<1> DEFINE l == pin[t]
           r == LeaseKind(op[t])
<1>a. op[t] \in Requests /\ l \in Pins /\ pc[t] \in Acquiring
  BY DEF Publish, OpOK, Acquiring
<1>b. r \in {"Shared", "Effect", "Exclusive"}
  BY <1>a DEF LeaseKind, Requests
<1>c. /\ authority[l] = IF r = "Shared" THEN "shared" ELSE "exclusive"
      /\ drain[l] = IF r = "Exclusive" THEN "exclusive" ELSE "shared"
      /\ gate = l <=> r = "Exclusive"
  BY <1>a DEF Publish, StageLocks, LeaseKind, AuthorityMode, DrainMode, Requests
<1>d. \A v \in Threads, q \in Pins, j \in GuardKinds :
            Holds(v, q, j)' <=> Holds(v, q, j) \/ (v = t /\ q = l /\ j = r)
  BY <1>a DEF Publish, Holds, TypeOK
<1>e. \A v \in Threads, q \in Pins, j \in GuardKinds :
            Holds(v, q, j) => ProcOf[v] # ProcOf[t] /\ q # l
  BY <1>a, AnnouncedMeansFree DEF PinsOwned
<1>f. /\ pc' = [pc EXCEPT ![t] = "idle"] /\ op' = [op EXCEPT ![t] = "none"]
      /\ pin' = [pin EXCEPT ![t] = NoPin]
      /\ gate' = gate /\ authority' = authority /\ drain' = drain /\ mutex' = mutex
      /\ registry' = [registry EXCEPT ![ProcOf[t]] =
                            [state |-> r, id |-> l, owner |-> t]]
      /\ pc[t] = "publish" /\ mutex[ProcOf[t]] = NoThread
  BY DEF Publish, Return, SetEntry, MutexFree, locks
<1>g. \A v \in Threads : v # t => pin[v] # l
  BY <1>a DEF PinsOwned
<1> HIDE DEF r, l
<1>1. TypeOK'
  <2>1. guards' \in [Threads -> SUBSET (Pins \X GuardKinds)]
    BY <1>a, <1>b DEF Publish, TypeOK, GuardKinds, l, r
  <2>2. registry' \in [Procs -> Entries \cup {NoEntry}]
    BY <1>a, <1>b, <1>f DEF TypeOK, Entries, LeaseKinds
  <2> QED
    BY <2>1, <2>2, <1>f DEF TypeOK, Stages
<1>2. OpOK'
  BY <1>f DEF OpOK, TypeOK, Acquiring, Releasing
<1>3. PinsOwned'
  <2>1. \A v, w \in Threads : pin'[v] = pin'[w] /\ pin'[v] \in Pins => v = w
    BY <1>f DEF PinsOwned, TypeOK
  <2>2. \A v, w \in Threads, q \in Pins, j \in GuardKinds :
            Holds(w, q, j)' => pin'[v] # q
    BY <1>d, <1>f, <1>g DEF PinsOwned, TypeOK
  <2>3. \A v, w \in Threads, q \in Pins, i, j \in GuardKinds :
            Holds(v, q, i)' /\ Holds(w, q, j)' => ProcOf[v] = ProcOf[w]
    BY <1>d, <1>e DEF PinsOwned
  <2> QED
    BY <2>1, <2>2, <2>3 DEF PinsOwned
<1>4. StageLocks'
  BY <1>f DEF StageLocks, OpOK, PinsOwned, TypeOK, Acquiring, Releasing
<1>5. GuardLocks'
  BY <1>c, <1>d, <1>e, <1>f DEF GuardLocks
<1>6. LockCompat'
  BY <1>f DEF LockCompat
<1>7. NoLockLeak'
  <2>1. \A q \in InUse : q \in InUse'
    <3>1. <<l, r>> \in guards'[t] /\ r \in GuardKinds
      BY <1>b DEF Publish, TypeOK, GuardKinds, l, r
    <3> QED
      <4>1. l \in InUse'
        BY <3>1, <1>a DEF InUse, Holds
      <4>2. \A v \in Threads, q \in Pins, j \in GuardKinds :
                Holds(v, q, j) => Holds(v, q, j)'
        BY <1>d
      <4>3. \A v \in Threads, q \in Pins : pin[v] = q => q = l \/ pin'[v] = q
        BY <1>f DEF TypeOK, l
      <4> QED
        BY <4>1, <4>2, <4>3 DEF InUse
  <2> QED
    BY <2>1, <1>f DEF NoLockLeak
<1>8. Announced'
  <2> SUFFICES ASSUME NEW v \in Threads, pc'[v] \in Acquiring
               PROVE  Registered(v).state' = "Admitting" /\ Registered(v)'.id = pin'[v]
    BY DEF Announced
  <2>1. v # t /\ pc[v] \in Acquiring /\ pin'[v] = pin[v]
    BY <1>f DEF TypeOK, Acquiring
  <2>2. ProcOf[v] # ProcOf[t]
    BY <2>1, <1>a, <1>g DEF Announced, Registered, l
  <2> QED
    BY <2>1, <2>2, <1>f DEF Announced, Registered, TypeOK
<1>9. Probing'
  BY <1>f DEF Probing, Registered, TypeOK
<1>10. RegistryNamesLease'
  BY <1>b, <1>d, <1>e, <1>f DEF RegistryNamesLease, Registered, TypeOK
<1>11. GuardOwner'
  BY <1>b, <1>d, <1>e, <1>f DEF GuardOwner, Registered, GuardKinds, TypeOK
<1> QED
  BY <1>1, <1>2, <1>3, <1>4, <1>5, <1>6, <1>7, <1>8, <1>9, <1>10, <1>11

LEMMA AbandonStep ==
    ASSUME IInv, NEW t \in Threads, Abandon(t)
    PROVE  IInv'
<1> USE ProcOfAssumption, NullAssumption DEF IInv
<1>1. TypeOK'
    BY DEF Abandon, Return, Goto, Unwind, TypeOK, OpOK, Acquiring, Releasing,
        Stages, Requests, locks
<1>2. OpOK'
    BY DEF Abandon, Return, Goto, Unwind, TypeOK, OpOK, Acquiring, Releasing,
        Requests, locks
<1>3. PinsOwned'
    BY DEF Abandon, Return, Goto, Unwind, TypeOK, OpOK, PinsOwned, Holds,
        Acquiring, Releasing, locks
<1>4. StageLocks'
  <2>1. CASE pc[t] = "decide"
    BY <2>1 DEF Abandon, Return, locks, StageLocks, OpOK, PinsOwned, TypeOK, Acquiring, Releasing
  <2>2. CASE pc[t] \in {"gate", "authority", "drain", "validate"}
    <3>1. /\ pc' = [pc EXCEPT ![t] = Unwind(pc[t])]
          /\ UNCHANGED <<op, pin, locks>>
      BY <2>2 DEF Abandon, Goto
    <3> QED
      BY <2>2, <3>1 DEF Unwind, StageLocks, AuthorityMode, TypeOK, locks
  <2> QED
    BY <2>1, <2>2 DEF Abandon
<1>5. GuardLocks'
    BY DEF Abandon, Return, Goto, Unwind, TypeOK, GuardLocks, Holds,
        PinsOwned, locks
<1>6. LockCompat'
    BY DEF Abandon, Return, Goto, Unwind, TypeOK, OpOK, LockCompat, Acquiring,
        Releasing, locks
<1>7. NoLockLeak'
  <2>1. CASE pc[t] = "decide"
    BY <2>1, ReturnUnlocked DEF Abandon
  <2>2. CASE pc[t] # "decide"
    BY <2>2 DEF Abandon, Goto, NoLockLeak, InUse, Holds, locks
  <2> QED
    BY <2>1, <2>2
<1>8. Announced'
    BY DEF Abandon, Return, Goto, Unwind, TypeOK, OpOK, PinsOwned, Announced,
        Registered, Acquiring, Releasing, locks
<1>9. Probing'
    BY DEF Abandon, Return, Goto, Unwind, TypeOK, Probing, Registered, locks
<1>10. RegistryNamesLease'
    BY DEF Abandon, Return, Goto, Unwind, TypeOK, RegistryNamesLease, Holds,
        Registered, locks
<1>11. GuardOwner'
    BY DEF Abandon, Return, Goto, Unwind, TypeOK, GuardOwner, Holds,
        Registered, locks
<1> QED
  BY <1>1, <1>2, <1>3, <1>4, <1>5, <1>6, <1>7, <1>8, <1>9, <1>10, <1>11

LEMMA UnlockDrainStep ==
    ASSUME IInv, NEW t \in Threads, UnlockDrain(t)
    PROVE  IInv'
<1> USE ProcOfAssumption, NullAssumption DEF IInv
<1>1. TypeOK'
    BY DEF UnlockDrain, Goto, TypeOK, OpOK, Acquiring, Releasing, Stages,
        Requests, Modes, locks
<1>2. OpOK'
    BY DEF UnlockDrain, Goto, TypeOK, OpOK, Acquiring, Releasing, Requests,
        locks
<1>3. PinsOwned'
    BY DEF UnlockDrain, Goto, TypeOK, OpOK, PinsOwned, Holds, Acquiring,
        Releasing, locks
<1>4. StageLocks'
    BY DEF UnlockDrain, Goto, TypeOK, OpOK, PinsOwned, StageLocks, Acquiring,
        Releasing, locks
<1>5. GuardLocks'
    BY DEF UnlockDrain, Goto, TypeOK, GuardLocks, Holds, PinsOwned, locks
<1>6. LockCompat'
    BY DEF UnlockDrain, Goto, TypeOK, OpOK, LockCompat, Acquiring, Releasing,
        locks
<1>7. NoLockLeak'
    BY DEF UnlockDrain, Goto, TypeOK, OpOK, NoLockLeak, InUse, Holds,
        Acquiring, Releasing, locks
<1>8. Announced'
    BY DEF UnlockDrain, Goto, TypeOK, OpOK, PinsOwned, Announced, Registered,
        Acquiring, Releasing, locks
<1>9. Probing'
    BY DEF UnlockDrain, Goto, TypeOK, Probing, Registered, locks
<1>10. RegistryNamesLease'
    BY DEF UnlockDrain, Goto, TypeOK, RegistryNamesLease, Holds, Registered,
        locks
<1>11. GuardOwner'
    BY DEF UnlockDrain, Goto, TypeOK, GuardOwner, Holds, Registered, locks
<1> QED
  BY <1>1, <1>2, <1>3, <1>4, <1>5, <1>6, <1>7, <1>8, <1>9, <1>10, <1>11

LEMMA UnlockAuthorityStep ==
    ASSUME IInv, NEW t \in Threads, UnlockAuthority(t)
    PROVE  IInv'
<1> USE ProcOfAssumption, NullAssumption DEF IInv
<1>1. TypeOK'
    BY DEF UnlockAuthority, Goto, TypeOK, OpOK, Acquiring, Releasing, Stages,
        Requests, Modes, locks
<1>2. OpOK'
    BY DEF UnlockAuthority, Goto, TypeOK, OpOK, Acquiring, Releasing,
        Requests, locks
<1>3. PinsOwned'
    BY DEF UnlockAuthority, Goto, TypeOK, OpOK, PinsOwned, Holds, Acquiring,
        Releasing, locks
<1>4. StageLocks'
    BY DEF UnlockAuthority, Goto, TypeOK, OpOK, PinsOwned, StageLocks,
        Acquiring, Releasing, locks
<1>5. GuardLocks'
    BY DEF UnlockAuthority, Goto, TypeOK, GuardLocks, Holds, PinsOwned, locks
<1>6. LockCompat'
    BY DEF UnlockAuthority, Goto, TypeOK, OpOK, LockCompat, Acquiring,
        Releasing, locks
<1>7. NoLockLeak'
    BY DEF UnlockAuthority, Goto, TypeOK, OpOK, NoLockLeak, InUse, Holds,
        Acquiring, Releasing, locks
<1>8. Announced'
    BY DEF UnlockAuthority, Goto, TypeOK, OpOK, PinsOwned, Announced,
        Registered, Acquiring, Releasing, locks
<1>9. Probing'
    BY DEF UnlockAuthority, Goto, TypeOK, Probing, Registered, locks
<1>10. RegistryNamesLease'
    BY DEF UnlockAuthority, Goto, TypeOK, RegistryNamesLease, Holds,
        Registered, locks
<1>11. GuardOwner'
    BY DEF UnlockAuthority, Goto, TypeOK, GuardOwner, Holds, Registered, locks
<1> QED
  BY <1>1, <1>2, <1>3, <1>4, <1>5, <1>6, <1>7, <1>8, <1>9, <1>10, <1>11

LEMMA UnlockGateStep ==
    ASSUME IInv, NEW t \in Threads, UnlockGate(t)
    PROVE  IInv'
<1> USE ProcOfAssumption, NullAssumption DEF IInv
<1>1. TypeOK'
    BY DEF UnlockGate, Goto, TypeOK, OpOK, Acquiring, Releasing, Stages,
        Requests, locks
<1>2. OpOK'
    BY DEF UnlockGate, Goto, TypeOK, OpOK, Acquiring, Releasing, Requests,
        locks
<1>3. PinsOwned'
    BY DEF UnlockGate, Goto, TypeOK, OpOK, PinsOwned, Holds, Acquiring,
        Releasing, locks
<1>4. StageLocks'
    BY DEF UnlockGate, Goto, TypeOK, OpOK, PinsOwned, StageLocks, Acquiring,
        Releasing, locks
<1>5. GuardLocks'
    BY DEF UnlockGate, Goto, TypeOK, GuardLocks, Holds, PinsOwned, StageLocks,
        locks
<1>6. LockCompat'
    BY DEF UnlockGate, Goto, TypeOK, OpOK, LockCompat, Acquiring, Releasing,
        locks
<1>7. NoLockLeak'
    BY DEF UnlockGate, Goto, TypeOK, OpOK, NoLockLeak, InUse, Holds,
        Acquiring, Releasing, locks
<1>8. Announced'
    BY DEF UnlockGate, Goto, TypeOK, OpOK, PinsOwned, Announced, Registered,
        Acquiring, Releasing, locks
<1>9. Probing'
    BY DEF UnlockGate, Goto, TypeOK, Probing, Registered, locks
<1>10. RegistryNamesLease'
    BY DEF UnlockGate, Goto, TypeOK, RegistryNamesLease, Holds, Registered,
        locks
<1>11. GuardOwner'
    BY DEF UnlockGate, Goto, TypeOK, GuardOwner, Holds, Registered, locks
<1> QED
  BY <1>1, <1>2, <1>3, <1>4, <1>5, <1>6, <1>7, <1>8, <1>9, <1>10, <1>11

LEMMA UnregisterStep ==
    ASSUME IInv, NEW t \in Threads, Unregister(t)
    PROVE  IInv'
<1> USE ProcOfAssumption, NullAssumption DEF IInv
<1>a. \A v \in Threads :
        registry'[ProcOf[v]] = registry[ProcOf[v]]
            \/ (ProcOf[v] = ProcOf[t] /\ registry[ProcOf[v]].id = pin[t])
  BY DEF Unregister, SetEntry, Registered, TypeOK
<1>b. /\ pc' = [pc EXCEPT ![t] = "idle"] /\ op' = [op EXCEPT ![t] = "none"]
      /\ pin' = [pin EXCEPT ![t] = NoPin] /\ guards' = guards /\ mutex' = mutex
      /\ pc[t] = "unregister" /\ mutex[ProcOf[t]] = NoThread
  BY DEF Unregister, Return, MutexFree
<1>c. \A v \in Threads, q \in Pins, k \in GuardKinds :
        Holds(v, q, k) => Registered(v).id = q /\ Registered(v)' = Registered(v)
  BY <1>a DEF RegistryNamesLease, PinsOwned, Registered
<1>1. TypeOK'
    BY DEF Unregister, Return, SetEntry, TypeOK, OpOK, Acquiring, Releasing,
        Stages, Requests, locks
<1>2. OpOK'
    BY DEF Unregister, Return, SetEntry, TypeOK, OpOK, Acquiring, Releasing,
        Requests, locks
<1>3. PinsOwned'
    BY DEF Unregister, Return, SetEntry, TypeOK, OpOK, PinsOwned, Holds,
        Acquiring, Releasing, locks
<1>4. StageLocks'
    BY DEF Unregister, Return, SetEntry, TypeOK, OpOK, PinsOwned, StageLocks,
        Acquiring, Releasing, locks
<1>5. GuardLocks'
    BY DEF Unregister, Return, SetEntry, TypeOK, GuardLocks, Holds, PinsOwned,
        locks
<1>6. LockCompat'
    BY DEF Unregister, Return, SetEntry, TypeOK, OpOK, LockCompat, Acquiring,
        Releasing, locks
<1>7. NoLockLeak'
  BY ReturnUnlocked DEF Unregister
<1>8. Announced'
  BY <1>a, <1>b DEF Announced, Registered, Acquiring, OpOK, PinsOwned, TypeOK
<1>9. Probing'
  BY <1>a, <1>b DEF Probing, Registered, TypeOK, Unregister, SetEntry
<1>10. RegistryNamesLease'
  BY <1>b, <1>c DEF RegistryNamesLease, Holds
<1>11. GuardOwner'
  BY <1>b, <1>c DEF GuardOwner, Holds, GuardKinds
<1> QED
  BY <1>1, <1>2, <1>3, <1>4, <1>5, <1>6, <1>7, <1>8, <1>9, <1>10, <1>11

\* Dropping the last guard hands the lease to the thread that unlocks it.
LEMMA DropGuardStep ==
    ASSUME IInv, NEW t \in Threads, NEW l \in Pins, NEW r \in GuardKinds,
           DropGuard(t, <<l, r>>)
    PROVE  IInv'
<1> USE ProcOfAssumption, NullAssumption DEF IInv
<1>a. /\ pc[t] = "idle" /\ op[t] = "none" /\ pin[t] = NoPin /\ Holds(t, l, r)
      /\ registry' = registry /\ mutex' = mutex
      /\ gate' = gate /\ authority' = authority /\ drain' = drain
  BY DEF DropGuard, OpOK, Holds, locks
<1>b. \A v \in Threads, q \in Pins, j \in GuardKinds :
            Holds(v, q, j)' <=> Holds(v, q, j) /\ ~(v = t /\ q = l /\ j = r)
  BY DEF DropGuard, Holds, TypeOK
<1>c. \/ /\ UNCHANGED <<pc, op, pin>>
         /\ \E v \in Threads, j \in GuardKinds : Holds(v, l, j)'
      \/ /\ pc' = [pc EXCEPT ![t] = "unlockDrain"]
         /\ op' = [op EXCEPT ![t] = "drop"]
         /\ pin' = [pin EXCEPT ![t] = l]
         /\ \A v \in Threads, j \in GuardKinds :
                ProcOf[v] = ProcOf[t] => ~Holds(v, l, j)'
  BY DEF DropGuard, Holds
<1>d. \A v \in Threads : pin[v] # l
  BY <1>a DEF PinsOwned
<1>1. TypeOK'
  <2>1. guards' \in [Threads -> SUBSET (Pins \X GuardKinds)]
    BY DEF DropGuard, TypeOK
  <2> QED
    BY <2>1, <1>a, <1>c DEF TypeOK, Stages
<1>2. OpOK'
  BY <1>c DEF OpOK, TypeOK, Acquiring, Releasing
<1>3. PinsOwned'
  <2>1. \A v, w \in Threads : pin'[v] = pin'[w] /\ pin'[v] \in Pins => v = w
    BY <1>c, <1>d DEF PinsOwned, TypeOK
  <2>2. \A v, w \in Threads, q \in Pins, j \in GuardKinds :
            Holds(w, q, j)' => pin'[v] # q
    BY <1>a, <1>b, <1>c DEF PinsOwned, TypeOK
  <2>3. \A v, w \in Threads, q \in Pins, i, j \in GuardKinds :
            Holds(v, q, i)' /\ Holds(w, q, j)' => ProcOf[v] = ProcOf[w]
    BY <1>b DEF PinsOwned
  <2> QED
    BY <2>1, <2>2, <2>3 DEF PinsOwned
<1>4. StageLocks'
  BY <1>a, <1>c DEF StageLocks, GuardLocks, TypeOK
<1>5. GuardLocks'
  BY <1>a, <1>b DEF GuardLocks
<1>6. LockCompat'
  BY <1>a DEF LockCompat
<1>7. NoLockLeak'
  <2>1. \A q \in Pins : q \in InUse => q \in InUse'
    <3> SUFFICES ASSUME NEW q \in Pins, q \in InUse
                 PROVE  q \in InUse'
      OBVIOUS
    <3>1. CASE q = l
      BY <3>1, <1>c DEF InUse, TypeOK
    <3>2. CASE q # l
      <4>1. \A v \in Threads, j \in GuardKinds : Holds(v, q, j) => Holds(v, q, j)'
        BY <3>2, <1>b
      <4>2. \A v \in Threads : pin[v] = q => pin'[v] = q
        BY <1>a, <1>c DEF TypeOK
      <4> QED
        BY <4>1, <4>2 DEF InUse
    <3> QED
      BY <3>1, <3>2
  <2> QED
    BY <2>1, <1>a DEF NoLockLeak
<1>8. Announced'
  BY <1>a, <1>c DEF Announced, Registered, TypeOK, Acquiring
<1>9. Probing'
  BY <1>a, <1>c DEF Probing, Registered, TypeOK
<1>10. RegistryNamesLease'
  BY <1>a, <1>b DEF RegistryNamesLease, Registered
<1>11. GuardOwner'
  BY <1>a, <1>b DEF GuardOwner, Registered, GuardKinds
<1> QED
  BY <1>1, <1>2, <1>3, <1>4, <1>5, <1>6, <1>7, <1>8, <1>9, <1>10, <1>11

\* A crash takes everything of one process and nothing of the others.
LEMMA CrashStep ==
    ASSUME IInv, NEW P \in Procs, Crash(P)
    PROVE  IInv'
<1> USE ProcOfAssumption, NullAssumption DEF IInv
<1> DEFINE gone == {p \in Pins : \E t \in Threads : ProcOf[t] = P /\
                    (pin[t] = p \/ \E k \in GuardKinds : Holds(t, p, k))}
<1>a. \A t \in Threads : ProcOf[t] = P =>
        /\ pc'[t] = "idle" /\ op'[t] = "none" /\ pin'[t] = NoPin /\ guards'[t] = {}
  BY DEF Crash
<1>b. \A t \in Threads : ProcOf[t] # P =>
        /\ pc'[t] = pc[t] /\ op'[t] = op[t] /\ pin'[t] = pin[t]
        /\ guards'[t] = guards[t]
        /\ registry'[ProcOf[t]] = registry[ProcOf[t]]
        /\ mutex'[ProcOf[t]] = mutex[ProcOf[t]]
  BY DEF Crash, TypeOK
<1>c. \A p \in Pins :
        /\ p \in gone =>
            gate' # p /\ authority'[p] = "unlocked" /\ drain'[p] = "unlocked"
        /\ p \notin gone =>
            (gate' = p <=> gate = p) /\ authority'[p] = authority[p]
                                     /\ drain'[p] = drain[p]
  BY DEF Crash
<1>d. \A t \in Threads, p \in Pins, k \in GuardKinds :
        Holds(t, p, k)' <=> Holds(t, p, k) /\ ProcOf[t] # P
  BY <1>a, <1>b DEF Holds
<1>e. \A t \in Threads : ProcOf[t] # P => pin[t] \notin gone
  BY DEF PinsOwned
<1>f. \A t \in Threads, p \in Pins, k \in GuardKinds :
        Holds(t, p, k) /\ ProcOf[t] # P => p \notin gone
  BY DEF PinsOwned
<1>1. TypeOK'
  <2>1. guards' \in [Threads -> SUBSET (Pins \X GuardKinds)]
    BY DEF Crash, TypeOK
  <2>2. registry' \in [Procs -> Entries \cup {NoEntry}]
        /\ mutex' \in [Procs -> Threads \cup {NoThread}]
    BY DEF Crash, TypeOK
  <2>3. gate' \in Pins \cup {NoPin} /\ authority' \in [Pins -> Modes]
        /\ drain' \in [Pins -> Modes]
    BY DEF Crash, TypeOK, Modes
  <2>4. pc' \in [Threads -> Stages]
        /\ op' \in [Threads -> Requests \cup {"none", "drop"}]
        /\ pin' \in [Threads -> Pins \cup {NoPin}]
    BY DEF Crash, TypeOK, Stages
  <2> QED
    BY <2>1, <2>2, <2>3, <2>4 DEF TypeOK
<1>2. OpOK'
  BY <1>a, <1>b DEF OpOK, Acquiring, Releasing
<1> HIDE DEF gone
<1>3. PinsOwned'
  <2>1. \A v, w \in Threads : pin'[v] = pin'[w] /\ pin'[v] \in Pins => v = w
    BY <1>a, <1>b DEF PinsOwned
  <2>2. \A v, w \in Threads, q \in Pins, j \in GuardKinds :
            Holds(w, q, j)' => pin'[v] # q
    BY <1>a, <1>b, <1>d DEF PinsOwned
  <2>3. \A v, w \in Threads, q \in Pins, i, j \in GuardKinds :
            Holds(v, q, i)' /\ Holds(w, q, j)' => ProcOf[v] = ProcOf[w]
    BY <1>d DEF PinsOwned
  <2> QED
    BY <2>1, <2>2, <2>3 DEF PinsOwned
<1>4. StageLocks'
  <2> SUFFICES ASSUME NEW t \in Threads, pc'[t] # "idle"
               PROVE  /\ pc[t] = pc'[t] /\ op'[t] = op[t] /\ pin'[t] = pin[t]
                      /\ gate' = pin[t] <=> gate = pin[t]
                      /\ authority'[pin[t]] = authority[pin[t]]
                      /\ drain'[pin[t]] = drain[pin[t]]
    BY DEF StageLocks
  <2>1. ProcOf[t] # P
    BY <1>a
  <2>2. pin[t] \in Pins /\ pin[t] \notin gone
    BY <2>1, <1>b, <1>e DEF OpOK, TypeOK, Stages, Acquiring, Releasing
  <2> QED
    BY <2>1, <2>2, <1>b, <1>c
<1>5. GuardLocks'
  BY <1>c, <1>d, <1>f DEF GuardLocks
<1>6. LockCompat'
  BY <1>c DEF LockCompat
<1>7. NoLockLeak'
  <2> SUFFICES ASSUME NEW p \in Pins, p \notin gone, p \in InUse
               PROVE  p \in InUse'
    BY <1>c DEF NoLockLeak
  <2>1. PICK t \in Threads : pin[t] = p \/ \E k \in GuardKinds : Holds(t, p, k)
    BY DEF InUse
  <2>2. ProcOf[t] # P
    BY <2>1 DEF gone
  <2> QED
    BY <2>1, <2>2, <1>b, <1>d DEF InUse
<1>8. Announced'
  BY <1>a, <1>b DEF Announced, Registered, Acquiring
<1>9. Probing'
  BY <1>a, <1>b DEF Probing, Registered
<1>10. RegistryNamesLease'
  BY <1>b, <1>d DEF RegistryNamesLease, Registered
<1>11. GuardOwner'
  BY <1>b, <1>d DEF GuardOwner, Registered, GuardKinds
<1> QED
  BY <1>1, <1>2, <1>3, <1>4, <1>5, <1>6, <1>7, <1>8, <1>9, <1>10, <1>11

-----------------------------------------------------------------------------
(* The theorems                                                            *)

LEMMA InductiveInit == Init => IInv
<1> SUFFICES ASSUME Init PROVE IInv
  OBVIOUS
<1> USE ProcOfAssumption, NullAssumption DEF Init
<1>1. TypeOK
  BY DEF TypeOK, Stages, Modes
<1>2. OpOK /\ PinsOwned /\ StageLocks /\ LockCompat /\ NoLockLeak
  BY DEF OpOK, PinsOwned, StageLocks, LockCompat, NoLockLeak, Holds, Acquiring,
         Releasing
<1>3. GuardLocks /\ Announced /\ Probing /\ RegistryNamesLease /\ GuardOwner
  BY DEF GuardLocks, Announced, Probing, RegistryNamesLease, GuardOwner, Holds,
         Acquiring
<1> QED
  BY <1>1, <1>2, <1>3 DEF IInv

LEMMA InductiveNext == IInv /\ [Next]_vars => IInv'
<1> SUFFICES ASSUME IInv, [Next]_vars PROVE IInv'
  OBVIOUS
<1>1. ASSUME NEW t \in Threads, Step(t) PROVE IInv'
  BY <1>1, DecideAcquireStep, DecideRefuseStep, ProbeGateStep, ProbeRefuseStep,
     ReuseLeaseStep, ReuseLostStep, AcquireGateStep, AcquireAuthorityStep,
     TryAuthorityRefuseStep, AcquireDrainStep, ValidateLeaseStep, PublishStep,
     UnlockDrainStep, UnlockAuthorityStep, UnlockGateStep, UnregisterStep
     DEF Step
<1>2. ASSUME NEW t \in Threads, Abandon(t) PROVE IInv'
  BY <1>2, AbandonStep
<1>3. ASSUME NEW t \in Threads, NEW o \in Requests, NEW p \in Pins, Begin(t, o, p)
      PROVE  IInv'
  BY <1>3, BeginStep
<1>4. ASSUME NEW t \in Threads, NEW p \in Pins, NEW k \in GuardKinds,
             DropGuard(t, <<p, k>>)
      PROVE  IInv'
  BY <1>4, DropGuardStep
<1>5. ASSUME NEW P \in Procs, Crash(P) PROVE IInv'
  BY <1>5, CrashStep
<1>6. CASE UNCHANGED vars
  <2> USE <1>6 DEF vars, IInv, Holds, Registered
  <2>1. TypeOK' /\ OpOK'
    BY DEF TypeOK, OpOK
  <2>2. PinsOwned' /\ StageLocks'
    BY DEF PinsOwned, StageLocks
  <2>3. GuardLocks' /\ LockCompat'
    BY DEF GuardLocks, LockCompat
  <2>4. NoLockLeak' /\ Announced'
    BY DEF NoLockLeak, InUse, Announced
  <2>5. Probing' /\ RegistryNamesLease' /\ GuardOwner'
    BY DEF Probing, RegistryNamesLease, GuardOwner
  <2> QED
    BY <2>1, <2>2, <2>3, <2>4, <2>5
<1> QED
  BY <1>1, <1>2, <1>3, <1>4, <1>5, <1>6 DEF Next

\* The inductive invariant holds in every reachable state, whatever processes
\* and threads there are and whenever they crash or give up.
THEOREM Invariance == Spec => []IInv
  BY InductiveInit, InductiveNext, PTL DEF Spec

\* Type correctness of the boundary's state.
THEOREM TypeCorrect == Spec => []TypeOK
<1>1. IInv => TypeOK
  BY DEF IInv
<1> QED
  BY <1>1, Invariance, PTL

\* Quiescence is alone: nobody else holds a guard while a
\* HostQuiescenceGuard exists.
THEOREM QuiescenceIsAlone == Spec => []QuiescenceAlone
<1>1. IInv => QuiescenceAlone
  <2> SUFFICES ASSUME IInv, NEW t \in Threads, NEW u \in Threads,
                      NEW p \in Pins, NEW q \in Pins, NEW k \in GuardKinds,
                      Holds(t, p, "Exclusive"), Holds(u, q, k)
               PROVE  t = u /\ p = q /\ k = "Exclusive"
    BY DEF QuiescenceAlone
  <2>1. p = q
    BY DEF IInv, GuardLocks, LockCompat, GuardKinds
  <2>2. k = "Exclusive"
    BY <2>1 DEF IInv, GuardLocks, GuardKinds
  <2>3. ProcOf[t] = ProcOf[u]
    BY <2>1 DEF IInv, PinsOwned, GuardKinds
  <2>4. Registered(t).owner = t /\ Registered(u).owner = u
    BY <2>2 DEF IInv, GuardOwner
  <2> QED
    BY <2>1, <2>2, <2>3, <2>4 DEF Registered
<1> QED
  BY <1>1, Invariance, PTL

\* Effect authority is exclusive among all processes and, inside the process
\* that has it, belongs to one thread.
THEOREM EffectPublisherIsOne == Spec => []OneEffectPublisher
<1>1. IInv => OneEffectPublisher
  <2> SUFFICES ASSUME IInv, NEW t \in Threads, NEW u \in Threads,
                      NEW p \in Pins, NEW q \in Pins, NEW k \in GuardKinds,
                      Holds(t, p, "Effect"), Holds(u, q, k)
               PROVE  /\ p = q /\ k \in {"Effect", "SharedUnderEffect"}
                      /\ k = "Effect" => t = u
    BY DEF OneEffectPublisher
  <2>1. p = q
    BY DEF IInv, GuardLocks, LockCompat, GuardKinds
  <2>2. k \in {"Effect", "SharedUnderEffect"}
    BY <2>1 DEF IInv, GuardLocks, GuardKinds
  <2>3. ProcOf[t] = ProcOf[u]
    BY <2>1 DEF IInv, PinsOwned, GuardKinds
  <2>4. k = "Effect" => Registered(t).owner = t /\ Registered(u).owner = u
    BY DEF IInv, GuardOwner
  <2> QED
    BY <2>1, <2>2, <2>3, <2>4 DEF Registered
<1> QED
  BY <1>1, Invariance, PTL

\* The registry of a process names the lease its threads hold.
THEOREM RegistryIsTruthful == Spec => []RegistryNamesLease
<1>1. IInv => RegistryNamesLease
  BY DEF IInv
<1> QED
  BY <1>1, Invariance, PTL

\* A process never waits for an OS lock while one of its threads has a guard.
THEOREM NobodyHoldsAndWaits == Spec => []NoHoldAndWait
<1>1. IInv => NoHoldAndWait
  <2> SUFFICES ASSUME IInv, NEW t \in Threads, NEW u \in Threads,
                      guards[t] # {}, ProcOf[u] = ProcOf[t], Waiting(u)
               PROVE  FALSE
    BY DEF NoHoldAndWait
  <2>1. PICK p \in Pins, k \in GuardKinds : Holds(t, p, k)
    BY DEF IInv, TypeOK, Holds
  <2>2. pc[u] \in Acquiring
    BY DEF Waiting, Acquiring
  <2> QED
    BY <2>1, <2>2, AnnouncedMeansFree
<1> QED
  BY <1>1, Invariance, PTL

\* No lock survives the guards and operations it was taken for.
THEOREM NoLockLeaks == Spec => []NoLockLeak
<1>1. IInv => NoLockLeak
  BY DEF IInv
<1> QED
  BY <1>1, Invariance, PTL

\* Once a quiescing thread has the gate, nobody else gets a guard, except
\* through an admission that had all its locks before.
THEOREM AdmissionStaysClosed == Spec => NoLateAdmission
<1>1. IInv /\ [Next]_vars => AdmissionCloses
  <2> SUFFICES ASSUME IInv, [Next]_vars, NEW t \in Threads, NEW u \in Threads,
                      Closing(t), u # t
               PROVE  /\ pc[u] # "publish" => guards'[u] \subseteq guards[u]
                      /\ \A p \in Pins \ {pin[t]} :
                            drain[p] = "unlocked" => drain'[p] = "unlocked"
    BY DEF AdmissionCloses
  <2> USE DEF IInv
  <2>a. \A v \in Threads : pc[v] \in {"probe", "drain"} => v = t
    BY DEF Closing, StageLocks, PinsOwned, OpOK, Acquiring
  <2>1. ASSUME NEW v \in Threads, Step(v) \/ Abandon(v) 
        PROVE  \/ drain' = drain
               \/ \E m \in Modes : drain' = [drain EXCEPT ![pin[t]] = m]
               \/ \E q \in Pins : drain' = [drain EXCEPT ![q] = "unlocked"]
    <3>1. CASE AcquireDrain(v)
      <4>1. v = t /\ DrainMode(op[v]) \in Modes
        BY <3>1, <2>a DEF AcquireDrain, Goto, DrainMode, Modes
      <4> QED
        BY <3>1, <4>1 DEF AcquireDrain
    <3>2. CASE UnlockDrain(v)
      <4>1. pin[v] \in Pins
        BY <3>2 DEF UnlockDrain, Goto, OpOK, Releasing
      <4>2. drain' = [drain EXCEPT ![pin[v]] = "unlocked"]
        BY <3>2 DEF UnlockDrain
      <4> QED
        BY <4>1, <4>2
    <3>3. CASE drain' = drain
      BY <3>3
    <3> QED
      BY <2>1, <3>1, <3>2, <3>3 DEF Step, Abandon, DecideAcquire, DecideRefuse,
         ProbeGate, ProbeRefuse, ReuseLease, ReuseLost, AcquireGate,
         AcquireAuthority, TryAuthorityRefuse, ValidateLease, Publish,
         UnlockAuthority, UnlockGate, Unregister, locks
  <2>2. ASSUME NEW v \in Threads, Step(v) \/ Abandon(v), pc[u] # "publish"
        PROVE  guards'[u] \subseteq guards[u]
    <3>1. CASE ReuseLease(v)
      BY <3>1, <2>a DEF ReuseLease, TypeOK
    <3>2. CASE Publish(v)
      BY <3>2, <2>2 DEF Publish, TypeOK
    <3>3. CASE guards' = guards
      BY <3>3
    <3> QED
      BY <2>2, <3>1, <3>2, <3>3 DEF Step, Abandon, DecideAcquire, DecideRefuse,
         ProbeGate, ProbeRefuse, ReuseLost, AcquireGate, AcquireAuthority,
         TryAuthorityRefuse, AcquireDrain, ValidateLease, UnlockDrain,
         UnlockAuthority, UnlockGate, Unregister
  <2>3. ASSUME NEW v \in Threads, Step(v) \/ Abandon(v)
        PROVE  \A p \in Pins \ {pin[t]} :
                    drain[p] = "unlocked" => drain'[p] = "unlocked"
    BY <2>1, <2>3 DEF TypeOK
  <2>4. ASSUME NEW v \in Threads, NEW o \in Requests, NEW p \in Pins, Begin(v, o, p)
        PROVE  guards' = guards /\ drain' = drain
    BY <2>4 DEF Begin, locks
  <2>5. ASSUME NEW v \in Threads, NEW p \in Pins, NEW k \in GuardKinds,
               DropGuard(v, <<p, k>>)
        PROVE  guards'[u] \subseteq guards[u] /\ drain' = drain
    BY <2>5 DEF DropGuard, TypeOK, locks
  <2>6. ASSUME NEW P \in Procs, Crash(P)
        PROVE  /\ guards'[u] \subseteq guards[u]
               /\ \A p \in Pins : drain[p] = "unlocked" => drain'[p] = "unlocked"
    BY <2>6 DEF Crash
  <2>7. CASE UNCHANGED vars
    BY <2>7 DEF vars
  <2> QED
    BY <2>2, <2>3, <2>4, <2>5, <2>6, <2>7 DEF Next
<1> QED
  BY <1>1, Invariance, PTL DEF Spec, NoLateAdmission

=============================================================================
