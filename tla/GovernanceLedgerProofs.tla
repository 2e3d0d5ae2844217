------------------------- MODULE GovernanceLedgerProofs -------------------------
(***************************************************************************)
(* Proofs about GovernanceLedger, for every menu of starting points and    *)
(* requests and every bound.                                               *)
(*                                                                         *)
(* What the four files of a replacement say, whatever a crash or a failed  *)
(* step left of them, is one ledger, the durable one; a step leaves it as  *)
(* it is or puts in its place the one that the request in hand prepared    *)
(* under the lock, which extends it.  From this: records are never lost    *)
(* (RecordsAreNeverLost), a denial is true (FailuresAreHonest), a native   *)
(* interaction is applied once and on the head it was decided on           *)
(* (ActionsApplyOnce, ActionsStandOnTheirHead), the replay WAL can always  *)
(* be repaired (ReplayCanBeRepaired), and no handler commits between a     *)
(* lifecycle and a ledger of different cores (MixedPairsCommitNothing).    *)
(*                                                                         *)
(* What a handler accepts against its projection of the ledger, recovery   *)
(* accepts when it reads the ledger line by line (AcceptedIsRead): the     *)
(* state that recovery folds up agrees with what the projection looks up   *)
(* (Projects), so the conditions of each line are the ones the handler     *)
(* checked.                                                                *)
(***************************************************************************)
EXTENDS GovernanceLedger, SequenceTheorems, WellFoundedInduction, TLAPS

-----------------------------------------------------------------------------
(***************************************************************************)
(* The inductive invariant.                                                *)
(***************************************************************************)
\* A ledger as a value: a sequence of records.
IsLedger(L) == L \in Seq(Range(L))

\* W goes on where L ends.
Extends(L, W) == Len(L) <= Len(W) /\ \A n \in 1..Len(L) : W[n] = L[n]

\* The records of strict broker origins.
StrictOrigins(L) == {n \in Origins(L) : Ev(L, n).strict}

\* No two of them share an interaction or a packet, and each was decided on the
\* head it names.
OriginsOK(L) ==
    /\ \A n \in StrictOrigins(L) : Ev(L, n).packet[1] = Ev(L, n).on - 1
    /\ \A m, n \in StrictOrigins(L) :
           Ev(L, m).i = Ev(L, n).i \/ Ev(L, m).packet = Ev(L, n).packet => m = n

\* What every ledger, durable or prepared, satisfies.
LedgerOK(L) == IsLedger(L) /\ OriginsOK(L)

\* The stages of a replacement.
Replacing == {"swap", "write", "mark", "retire", "install", "sweep", "unmark"}

\* Those of a request.
Stages == {"idle", "recover", "replay", "manifest", "reserve", "settle"} \cup Replacing

\* Types.
FilesTyped ==
    /\ DOMAIN files = {"target", "next", "prev", "marker"}
    /\ DOMAIN files.marker = {"st", "prev", "next"}
    /\ files.marker.st \in {"none", "torn", "whole"}

OpTyped ==
    /\ DOMAIN op = {"pc", "kind", "env", "want", "stage", "reread"}
    /\ op.pc \in Stages
    /\ op.env.kind \in {"action", "intent", "none"}
    /\ op.reread \in BOOLEAN

ReplayTyped == DOMAIN replay = {"st", "log", "torn"} /\ IsLedger(replay.log)

TypeOK == FilesTyped /\ OpTyped /\ ReplayTyped

\* What the files can look like: without a whole marker nothing is set aside;
\* with one, the replacement it names has not touched the target, or has set it
\* aside, or has put the new ledger in its place.
Untouched(m) == files.target = m.prev /\ files.prev = <<>> /\ files.next \in {<<>>, m.next}
SetAside(m) == files.target = <<>> /\ files.prev = m.prev /\ files.next = m.next
Replaced(m) == files.target = m.next /\ files.next = <<>> /\ files.prev \in {<<>>, m.prev}

Layout ==
    IF files.marker.st = "whole"
      THEN LET m == files.marker
           IN  /\ m.next # <<>>
               /\ \/ Untouched(m) /\ files.target # <<>>
                  \/ SetAside(m)
                  \/ Replaced(m)
      ELSE files.prev = <<>>

\* Where a replacement in progress is.
Marked == files.marker.st = "whole" /\ files.marker.next = op.want

\* At each stage, what the steps before it left in the files.
Progress ==
    /\ op.pc \in {"swap", "write", "reserve", "settle"} => Clean
    /\ op.pc = "mark" => files.next = op.want /\ files.prev = <<>> /\ files.marker.st = "none"
    /\ op.pc = "retire" => /\ Marked /\ files.marker.prev = files.target /\ files.target # <<>>
                           /\ files.next = op.want /\ files.prev = <<>>
    /\ op.pc = "install" => Marked /\ SetAside(files.marker)
    /\ op.pc = "sweep" => Marked /\ Replaced(files.marker)
    /\ op.pc = "unmark" => Marked /\ Replaced(files.marker) /\ files.prev = <<>>

\* The ledger being written is the durable one, or extends it; and then the
\* lifecycle is joined to the core of the durable one, unless there was none.
Pending ==
    op.pc \in Replacing =>
        /\ op.want # <<>> /\ LedgerOK(op.want)
        /\ \/ Durable = op.want
           \/ /\ Extends(Durable, op.want) /\ Len(Durable) < Len(op.want)
              /\ \/ op.kind \in NoDomainLock \cup {"rebase"}
                 \/ CoreJoined(Durable) \/ Durable = <<>>

\* Looking again after a failed commit, either the ledger is there or a shorter one.
LooksAgain ==
    op.reread =>
        /\ op.pc = "recover"
        /\ op.stage = "epoch" \/ op.kind = "release"
        /\ Durable = op.want \/ Len(Durable) < Len(op.want)

\* A broker action on its way to the replay WAL is in the ledger.
InLedger(L) == \E n \in StrictOrigins(L) : Ev(L, n).i = op.env.i

\* So it is from its commit to the last line.
Brokered ==
    /\ op.pc \in Replacing /\ op.kind = "broker" /\ op.stage = "final" => InLedger(op.want)
    /\ op.pc \in {"reserve", "settle"} => InLedger(files.target)

\* What was denied was denied by the last request.
Denied == denied # 0 => op.pc = "idle" /\ Len(Durable) < denied

\* Every line of the replay WAL is about a broker action in the ledger.
LinesKnown ==
    \A l \in Lines : \E n \in StrictOrigins(Durable) :
        l \in {Line("reserve", BindingOf(Durable, n)), Line("commit", BindingOf(Durable, n))}

\* All of it.
IInv ==
    /\ TypeOK
    /\ Layout
    /\ Progress
    /\ LedgerOK(Durable)
    /\ Pending
    /\ LooksAgain
    /\ Brokered
    /\ Denied
    /\ LinesKnown

-----------------------------------------------------------------------------
(***************************************************************************)
(* Batches, by induction over their length.                                *)
(***************************************************************************)
\* Induction over the natural numbers, for a set.
LEMMA NatSetInduction ==
    ASSUME NEW S, 0 \in S, \A n \in Nat : n \in S => n + 1 \in S
    PROVE  \A n \in Nat : n \in S
<1> SUFFICES ASSUME NEW m \in Nat, m \notin S PROVE FALSE
  OBVIOUS
<1> DEFINE T == Nat \ S
           R == {ss \in Nat \X Nat : ss[1] < ss[2]}
<1>1. T \subseteq Nat /\ T # {}
  OBVIOUS
<1>2. IsWellFoundedOn(R, Nat)
  BY NatLessThanWellFounded DEF OpToRel
<1>3. PICK x \in T : \A y \in T : ~ (<<y, x>> \in R)
  <2> HIDE DEF R, T
  <2>. QED
    BY <1>1, <1>2, WFMin
<1>4. x \in Nat /\ x # 0 /\ \A y \in T : ~ (y < x)
  BY <1>3
<1>5. x - 1 \in Nat /\ x - 1 < x /\ (x - 1) + 1 = x
  BY <1>4
<1>6. x - 1 \in S
  BY <1>4, <1>5
<1>. QED
  BY <1>5, <1>6

\* One event more, or the end of the batch.
Pushed(L, W, e) ==
    IF W # <<>> /\ Admits(W, e, W = L) THEN Append(W, RecordOf(W, e)) ELSE <<>>

\* g is the function, recursive over sets of positions, that FoldLeft chooses.
Preparing(g, S, L, s) ==
    g = [x \in SUBSET S |-> IF x = {} THEN L ELSE Pushed(L, g[x \ {Max(x)}], s[Max(x)])]

\* A prepared ledger, in terms of the function over sets of positions that
\* FoldLeft is defined by.
LEMMA PrepareIs ==
    ASSUME NEW L, NEW s
    PROVE  Prepare(L, s) = (CHOOSE g : Preparing(g, DOMAIN s, L, s))[DOMAIN s]
  BY DEF Prepare, FoldLeft, MapThenFoldSet, Preparing, Pushed

\* The largest of a set of positions that reaches m + 1.
LEMMA MaxIs ==
    ASSUME NEW m \in Nat, NEW x \in SUBSET (1..(m + 1)), m + 1 \in x
    PROVE  Max(x) = m + 1
<1>1. \A y \in x : y \in Int /\ m + 1 >= y
  OBVIOUS
<1>2. \A y \in x : (\A z \in x : y >= z) => y = m + 1
  BY <1>1
<1>3. Max(x) \in x /\ \A z \in x : Max(x) >= z
  BY <1>1 DEF Max
<1>. QED
  BY <1>2, <1>3

\* That function exists, for a batch of any length.
LEMMA PreparingExists ==
    ASSUME NEW L, NEW s
    PROVE  \A m \in Nat : \E g : Preparing(g, 1..m, L, s)
<1> DEFINE S == {m \in Nat : \E g : Preparing(g, 1..m, L, s)}
<1>1. 0 \in S
  <2> DEFINE h == [x \in SUBSET (1..0) |-> L]
  <2>1. \A x \in SUBSET (1..0) : x = {}
    OBVIOUS
  <2>2. Preparing(h, 1..0, L, s)
    BY <2>1 DEF Preparing
  <2>. QED
    BY <2>2
<1>2. ASSUME NEW m \in Nat, m \in S PROVE m + 1 \in S
  <2>1. PICK g : Preparing(g, 1..m, L, s)
    BY <1>2
  <2> DEFINE h == [x \in SUBSET (1..(m + 1)) |->
                     IF m + 1 \in x THEN Pushed(L, g[x \ {m + 1}], s[m + 1]) ELSE g[x]]
             k == [x \in SUBSET (1..(m + 1)) |->
                     IF x = {} THEN L ELSE Pushed(L, h[x \ {Max(x)}], s[Max(x)])]
  <2>2. \A x \in SUBSET (1..m) : g[x] = IF x = {} THEN L
                                        ELSE Pushed(L, g[x \ {Max(x)}], s[Max(x)])
    BY <2>1 DEF Preparing
  <2>3. ASSUME NEW x \in SUBSET (1..(m + 1)), m + 1 \notin x PROVE x \in SUBSET (1..m)
    BY <2>3
  <2>4. ASSUME NEW x \in SUBSET (1..(m + 1)) PROVE h[x] = k[x]
    <3>1. CASE m + 1 \in x
      <4>1. Max(x) = m + 1 /\ x # {} /\ x \ {m + 1} \in SUBSET (1..(m + 1)) /\ m + 1 \notin x \ {m + 1}
        BY <3>1, MaxIs
      <4>2. h[x \ {m + 1}] = g[x \ {m + 1}]
        BY <4>1
      <4>. QED
        BY <3>1, <4>1, <4>2
    <3>2. CASE m + 1 \notin x
      <4>1. x \in SUBSET (1..m) /\ h[x] = g[x]
        BY <2>3, <3>2
      <4>2. x \ {Max(x)} \in SUBSET (1..(m + 1)) /\ m + 1 \notin x \ {Max(x)}
        BY <3>2
      <4>3. h[x \ {Max(x)}] = g[x \ {Max(x)}]
        BY <4>2
      <4>. QED
        BY <2>2, <4>1, <4>3
    <3>. QED
      BY <3>1, <3>2
  <2>5. h = k
    BY <2>4
  <2>6. Preparing(h, 1..(m + 1), L, s)
    BY <2>5 DEF Preparing
  <2>. QED
    BY <2>6
<1> HIDE DEF S
<1>3. \A m \in Nat : m \in S
  BY <1>1, <1>2, NatSetInduction
<1>. QED
  BY <1>3 DEF S

\* It takes the events of a batch in order.
LEMMA PreparingStep ==
    ASSUME NEW L, NEW s, NEW N \in Nat, NEW m \in Nat, m + 1 <= N, NEW g, Preparing(g, 1..N, L, s)
    PROVE  g[1..(m + 1)] = Pushed(L, g[1..m], s[m + 1])
<1>1. /\ 1..(m + 1) \in SUBSET (1..N) /\ 1..(m + 1) # {}
      /\ m + 1 \in 1..(m + 1) /\ (1..(m + 1)) \ {m + 1} = 1..m
      /\ 1..(m + 1) \in SUBSET (1..(m + 1))
  OBVIOUS
<1>2. Max(1..(m + 1)) = m + 1
  BY <1>1, MaxIs
<1>3. \A x \in SUBSET (1..N) : x # {} => g[x] = Pushed(L, g[x \ {Max(x)}], s[Max(x)])
  BY DEF Preparing
<1>4. g[1..(m + 1)] = Pushed(L, g[(1..(m + 1)) \ {Max(1..(m + 1))}], s[Max(1..(m + 1))])
  BY <1>1, <1>3
<1>. QED
  BY <1>1, <1>2, <1>4

-----------------------------------------------------------------------------
(***************************************************************************)
(* Ledgers.                                                                *)
(***************************************************************************)
\* What a ledger is as a sequence.
LEMMA LedgerFacts ==
    ASSUME NEW L, IsLedger(L)
    PROVE  Len(L) \in Nat /\ DOMAIN L = 1..Len(L) /\ (L = <<>> <=> Len(L) = 0)
<1>1. L \in Seq(Range(L))
  BY DEF IsLedger
<1>. QED
  BY <1>1, LenProperties, EmptySeq

\* Every sequence is one.
LEMMA SequenceIsLedger ==
    ASSUME NEW T, NEW L \in Seq(T)
    PROVE  IsLedger(L)
<1>1. Len(L) \in Nat /\ DOMAIN L = 1..Len(L) /\ L = [i \in 1..Len(L) |-> L[i]]
  BY LenProperties
<1>2. \A i \in 1..Len(L) : L[i] \in Range(L)
  BY <1>1 DEF Range
<1>. QED
  BY <1>1, <1>2 DEF IsLedger

\* One record more.
LEMMA LedgerAppend ==
    ASSUME NEW L, IsLedger(L), NEW r
    PROVE  /\ IsLedger(Append(L, r)) /\ Len(Append(L, r)) = Len(L) + 1
           /\ \A i \in 1..Len(L) : Append(L, r)[i] = L[i]
           /\ Append(L, r)[Len(L) + 1] = r
<1> DEFINE T == Range(L) \cup {r}
<1>1. L \in Seq(T) /\ r \in T
  BY DEF IsLedger
<1> HIDE DEF T
<1>2. /\ Append(L, r) \in Seq(T) /\ Len(Append(L, r)) = Len(L) + 1
      /\ \A i \in 1..Len(L) : Append(L, r)[i] = L[i]
      /\ Append(L, r)[Len(L) + 1] = r
  BY <1>1, AppendProperties, LenProperties
<1>. QED
  BY <1>2, SequenceIsLedger

\* A ledger that goes on from another has it as a prefix.
LEMMA PrefixDef ==
    ASSUME NEW L, NEW W, IsLedger(L), IsLedger(W), Extends(L, W)
    PROVE  IsPrefix(L, W)
<1> DEFINE T == Range(L) \cup Range(W)
<1>1. L \in Seq(T) /\ W \in Seq(T)
  BY DEF IsLedger
<1> HIDE DEF T
<1>2. Len(L) \in Nat /\ Len(W) \in Nat /\ Len(L) <= Len(W) /\ \A n \in 1..Len(L) : W[n] = L[n]
  BY LedgerFacts DEF Extends
<1> DEFINE a == SubSeq(L, 1, Len(L))
           b == SubSeq(W, 1, Len(L))
<1>3. a \in Seq(T) /\ Len(a) = Len(L) /\ \A i \in 1..Len(L) : a[i] = L[i]
  BY <1>1, <1>2
<1>4. b \in Seq(T) /\ Len(b) = Len(L) /\ \A i \in 1..Len(L) : b[i] = W[i]
  BY <1>1, <1>2
<1> HIDE DEF a, b
<1>5. a = b
  BY <1>2, <1>3, <1>4, SeqEqual
<1>. QED
  BY <1>2, <1>5 DEF IsPrefix, a, b

\* Every ledger goes on from itself.
LEMMA ExtendsSelf ==
    ASSUME NEW L, IsLedger(L)
    PROVE  Extends(L, L)
  BY LedgerFacts DEF Extends

\* Prepare appends the events of its batch, in order, and changes no record.
LEMMA PrepareExtends ==
    ASSUME NEW L, IsLedger(L), NEW T, NEW es \in Seq(T), Prepare(L, es) # <<>>
    PROVE  LET W == Prepare(L, es)
           IN  /\ IsLedger(W) /\ Len(W) = Len(L) + Len(es) /\ Extends(L, W)
               /\ \A k \in 1..Len(es) : W[Len(L) + k].ev = es[k].ev
<1> DEFINE N == Len(es)
           g == CHOOSE g : Preparing(g, 1..N, L, es)
<1>1. N \in Nat /\ DOMAIN es = 1..N
  BY LenProperties
<1>2. Preparing(g, 1..N, L, es)
  <2>1. \E x : Preparing(x, 1..N, L, es)
    BY <1>1, PreparingExists
  <2>. QED
    BY <2>1
<1>3. Prepare(L, es) = g[1..N]
  BY <1>1, PrepareIs
<1> HIDE DEF N, g
<1> DEFINE Good(W, m) == /\ IsLedger(W) /\ Len(W) = Len(L) + m /\ Extends(L, W)
                         /\ \A k \in 1..m : W[Len(L) + k].ev = es[k].ev
           S == {m \in Nat : m <= N => g[1..m] = <<>> \/ Good(g[1..m], m)}
<1>4. Len(L) \in Nat
  BY LedgerFacts
<1>5. 0 \in S
  <2>1. 1..0 = {} /\ {} \in SUBSET (1..N)
    OBVIOUS
  <2>2. g[{}] = L
    BY <1>2, <2>1 DEF Preparing
  <2>3. Good(L, 0)
    BY <1>4, ExtendsSelf
  <2>. QED
    BY <2>1, <2>2, <2>3
<1>6. ASSUME NEW m \in Nat, m \in S PROVE m + 1 \in S
  <2>1. SUFFICES ASSUME m + 1 <= N, g[1..(m + 1)] # <<>> PROVE Good(g[1..(m + 1)], m + 1)
    OBVIOUS
  <2>2. m <= N
    BY <1>1, <2>1
  <2> DEFINE W == g[1..m]
             e == es[m + 1]
  <2>3. g[1..(m + 1)] = Pushed(L, W, e)
    BY <1>1, <1>2, <2>1, PreparingStep
  <2>4. W # <<>> /\ g[1..(m + 1)] = Append(W, RecordOf(W, e))
    BY <2>1, <2>3 DEF Pushed
  <2>5. Good(W, m)
    BY <1>6, <2>2, <2>4
  <2> HIDE DEF W
  <2> DEFINE r == RecordOf(W, e)
             V == Append(W, r)
  <2>6. r.ev = e.ev
    BY DEF RecordOf
  <2> HIDE DEF e, r
  <2>7. /\ IsLedger(V) /\ Len(V) = Len(W) + 1 /\ V[Len(W) + 1] = r
        /\ \A i \in 1..Len(W) : V[i] = W[i]
    BY <2>5, LedgerAppend
  <2> HIDE DEF V
  <2>8. Len(W) = Len(L) + m /\ Len(V) = Len(L) + (m + 1)
    BY <1>4, <2>5, <2>7
  <2>9. Extends(L, V)
    BY <1>4, <2>5, <2>7, <2>8 DEF Extends
  <2>10. ASSUME NEW k \in 1..(m + 1) PROVE V[Len(L) + k].ev = es[k].ev
    <3>1. CASE k = m + 1
      <4>1. Len(L) + k = Len(W) + 1
        BY <1>4, <2>8, <3>1
      <4>. QED
        BY <2>6, <2>7, <3>1, <4>1 DEF e
    <3>2. CASE k # m + 1
      <4>1. k \in 1..m /\ Len(L) + k \in 1..Len(W)
        BY <1>4, <2>8, <3>2
      <4>. QED
        BY <2>5, <2>7, <4>1
    <3>. QED
      BY <3>1, <3>2
  <2>11. Good(V, m + 1)
    BY <2>7, <2>8, <2>9, <2>10
  <2>. QED
    BY <2>4, <2>11 DEF V, r
<1> HIDE DEF S
<1>7. \A m \in Nat : m \in S
  BY <1>5, <1>6, NatSetInduction
<1>8. N \in S /\ N <= N
  BY <1>1, <1>7
<1>9. Good(g[1..N], N)
  BY <1>3, <1>8 DEF S
<1>. QED
  BY <1>3, <1>9 DEF N

\* A strict origin stays one, under the same binding, in a longer ledger.
LEMMA OriginsExtend ==
    ASSUME NEW L, NEW W, IsLedger(L), IsLedger(W), Extends(L, W), NEW n \in StrictOrigins(L)
    PROVE  n \in StrictOrigins(W) /\ Ev(W, n) = Ev(L, n) /\ BindingOf(W, n) = BindingOf(L, n)
<1>1. n \in 1..Len(L) /\ Ev(L, n).k \in {"origin"} /\ Ev(L, n).strict
  BY LedgerFacts DEF StrictOrigins, Origins, OfKind
<1>2. n \in DOMAIN W /\ W[n] = L[n]
  <2>1. Len(L) \in Nat /\ Len(W) \in Nat /\ DOMAIN W = 1..Len(W)
    BY LedgerFacts
  <2>. QED
    BY <1>1, <2>1 DEF Extends
<1>3. Ev(W, n) = Ev(L, n)
  BY <1>2 DEF Ev
<1>. QED
  BY <1>1, <1>2, <1>3 DEF StrictOrigins, Origins, OfKind, BindingOf

-----------------------------------------------------------------------------
(***************************************************************************)
(* What a step leaves in place.                                            *)
(***************************************************************************)
\* The ledger that the next lock holder finds: what it was, or the one that is
\* being put in its place.
Advance == Durable' = Durable \/ (op.pc \in Replacing /\ Durable' = op.want)

\* What every step does.
Keeps == IInv' /\ Advance

\* The durable ledger only grows, and stays in order.
LEMMA AdvanceExtends ==
    ASSUME IInv, Advance
    PROVE  LedgerOK(Durable') /\ Extends(Durable, Durable') /\ Len(Durable) <= Len(Durable')
<1>1. LedgerOK(Durable) /\ IsLedger(Durable) /\ Len(Durable) \in Nat
  BY LedgerFacts DEF IInv, LedgerOK
<1>2. CASE Durable' = Durable
  BY <1>1, <1>2, ExtendsSelf
<1>3. CASE Durable' # Durable
  <2>1. op.pc \in Replacing /\ Durable' = op.want
    BY <1>3 DEF Advance
  <2>2. LedgerOK(op.want) /\ Extends(Durable, op.want) /\ Len(Durable) < Len(op.want)
    BY <1>3, <2>1 DEF IInv, Pending
  <2>3. Len(op.want) \in Nat
    BY <2>2, LedgerFacts DEF LedgerOK
  <2>. QED
    BY <1>1, <2>1, <2>2, <2>3
<1>. QED
  BY <1>2, <1>3

\* So the lines of the replay WAL stay lines about actions in the ledger.
LEMMA LinesStay ==
    ASSUME IInv, Advance, Lines' = Lines
    PROVE  LinesKnown'
<1>1. IsLedger(Durable) /\ IsLedger(Durable') /\ Extends(Durable, Durable')
  BY AdvanceExtends DEF IInv, LedgerOK
<1> SUFFICES ASSUME NEW l \in Lines
             PROVE  \E n \in StrictOrigins(Durable') :
                        l \in {Line("reserve", BindingOf(Durable', n)), Line("commit", BindingOf(Durable', n))}
  BY DEF LinesKnown
<1>2. PICK n \in StrictOrigins(Durable) :
        l \in {Line("reserve", BindingOf(Durable, n)), Line("commit", BindingOf(Durable, n))}
  BY DEF IInv, LinesKnown
<1>3. n \in StrictOrigins(Durable') /\ BindingOf(Durable', n) = BindingOf(Durable, n)
  BY <1>1, OriginsExtend
<1>. QED
  BY <1>2, <1>3

\* Without leftovers the durable ledger is the target.
LEMMA CleanDurable ==
    ASSUME Clean
    PROVE  Durable = files.target
  BY DEF Clean, Durable

\* A step that leaves the files alone.
LEMMA FilesSame ==
    ASSUME IInv, files' = files
    PROVE  FilesTyped' /\ Layout' /\ Durable' = Durable /\ Advance /\ Clean' = Clean
  BY DEF IInv, TypeOK, FilesTyped, Layout, Untouched, SetAside, Replaced, Durable, Advance, Clean

\* A step that leaves the replay WAL alone.
LEMMA ReplaySame ==
    ASSUME IInv, replay' = replay
    PROVE  ReplayTyped' /\ Lines' = Lines
  BY DEF IInv, TypeOK, ReplayTyped, Lines

\* Nothing is denied while a request runs.
LEMMA NotDenied ==
    ASSUME IInv, op.pc # "idle"
    PROVE  denied = 0
  BY DEF IInv, Denied

\* What has to be shown of a step.
LEMMA StepKeeps ==
    ASSUME IInv, FilesTyped', Layout', Advance, ReplayTyped', LinesKnown',
           OpTyped', Progress', Pending', LooksAgain', Brokered', Denied'
    PROVE  Keeps
<1>1. LedgerOK(Durable')
  BY AdvanceExtends
<1>. QED
  BY <1>1 DEF Keeps, IInv, TypeOK

\* Nothing is in progress afterwards, but for what the next step finds in the files.
Rests == op.pc \in {"idle", "recover", "replay", "manifest"} /\ op.reread = FALSE

\* What has to be shown of one that leaves no replacement in progress.
LEMMA RestKeeps ==
    ASSUME IInv, FilesTyped', Layout', Advance, ReplayTyped', LinesKnown',
           OpTyped', Rests', Denied'
    PROVE  Keeps
<1>1. Progress' /\ Pending' /\ LooksAgain' /\ Brokered'
  BY DEF Rests, Progress, Pending, LooksAgain, Brokered, Replacing
<1>. QED
  BY <1>1, StepKeeps

\* One that ends the request is such a step.
LEMMA IdleRests ==
    ASSUME op' = Idle
    PROVE  OpTyped' /\ Rests'
  BY DEF Idle, OpTyped, Rests, Stages, NoEnvelope

\* What has to be shown of a step that ends the request.
LEMMA EndKeeps ==
    ASSUME IInv, op.pc # "idle", FilesTyped', Layout', Advance, ReplayTyped', Lines' = Lines,
           op' = Idle, denied' = denied
    PROVE  Keeps
<1>1. LinesKnown' /\ OpTyped' /\ Rests'
  BY LinesStay, IdleRests
<1>2. Denied'
  BY NotDenied DEF Denied
<1>. QED
  BY <1>1, <1>2, RestKeeps

-----------------------------------------------------------------------------
(***************************************************************************)
(* The files.                                                              *)
(***************************************************************************)
\* reconcile_wal_replacement, one file operation: the ledger it leads to stays
\* the same whichever leftover it finds.
LEMMA ReconcileFiles ==
    ASSUME FilesTyped, Layout, ~ Clean, ~ Stuck, files' = Resolved
    PROVE  FilesTyped' /\ Layout' /\ Durable' = Durable
<1> USE DEF FilesTyped
<1>1. CASE files.marker.st = "none"
  <2>1. files.prev = <<>> /\ files.next # <<>> /\ files.target # <<>>
    BY <1>1 DEF Layout, Clean, Stuck, StuckUnmarked
  <2>2. files' = [files EXCEPT !.next = <<>>]
    BY <2>1 DEF Resolved, CleanedUp
  <2>3. FilesTyped' /\ files.target' = files.target /\ files.prev' = <<>> /\ files.marker' = files.marker
    BY <2>1, <2>2
  <2>. QED
    BY <1>1, <2>1, <2>3 DEF Layout, Durable
<1>2. CASE files.marker.st = "torn"
  BY <1>2 DEF Stuck
<1>3. CASE files.marker.st = "whole"
  <2> DEFINE m == files.marker
  <2>1. m.next # <<>> /\ ((Untouched(m) /\ files.target # <<>>) \/ SetAside(m) \/ Replaced(m))
    BY <1>3 DEF Layout
  <2>2. CASE SetAside(m)
    <3>1. files.target = <<>> /\ files.prev = m.prev /\ files.next = m.next /\ files' = TargetRestored
      BY <2>2 DEF SetAside, Resolved
    <3>2. CASE m.prev # <<>>
      <4>1. files' = [files EXCEPT !.target = files.prev, !.prev = <<>>]
        BY <3>1, <3>2 DEF TargetRestored
      <4>2. /\ FilesTyped' /\ files.target' = files.prev /\ files.prev' = <<>>
            /\ files.next' = files.next /\ files.marker' = files.marker
        BY <4>1
      <4>. QED
        BY <1>3, <2>1, <3>1, <3>2, <4>2 DEF Layout, Untouched, Durable
    <3>3. CASE m.prev = <<>>
      <4>1. files' = [files EXCEPT !.target = files.next, !.next = <<>>]
        BY <3>1, <3>3 DEF TargetRestored
      <4>2. /\ FilesTyped' /\ files.target' = files.next /\ files.next' = <<>>
            /\ files.prev' = files.prev /\ files.marker' = files.marker
        BY <4>1
      <4>. QED
        BY <1>3, <2>1, <3>1, <3>3, <4>2 DEF Layout, Replaced, Durable
    <3>. QED
      BY <3>2, <3>3
  <2>3. CASE ~ SetAside(m)
    <3>1. files.target # <<>> /\ files' = CleanedUp
      BY <2>1, <2>3 DEF Resolved, Replaced
    <3>2. CASE files.prev # <<>>
      <4>1. files' = [files EXCEPT !.prev = <<>>]
        BY <2>1, <2>3, <3>1, <3>2 DEF CleanedUp, Untouched, Replaced
      <4>2. /\ FilesTyped' /\ files.target' = files.target /\ files.prev' = <<>>
            /\ files.next' = files.next /\ files.marker' = files.marker
        BY <4>1
      <4>. QED
        BY <1>3, <2>1, <2>3, <3>1, <3>2, <4>2 DEF Layout, Untouched, Replaced, Durable
    <3>3. CASE files.prev = <<>> /\ files.next # <<>>
      <4>1. files' = [files EXCEPT !.next = <<>>]
        BY <3>1, <3>3 DEF CleanedUp
      <4>2. /\ FilesTyped' /\ files.target' = files.target /\ files.next' = <<>>
            /\ files.prev' = files.prev /\ files.marker' = files.marker
        BY <4>1
      <4>. QED
        BY <1>3, <2>1, <2>3, <3>1, <3>3, <4>2 DEF Layout, Untouched, Replaced, Durable
    <3>4. CASE files.prev = <<>> /\ files.next = <<>>
      <4>1. files' = [files EXCEPT !.marker = NoMarker]
        BY <3>1, <3>4 DEF CleanedUp
      <4>2. /\ FilesTyped' /\ files.target' = files.target /\ files.prev' = <<>>
            /\ files.marker'.st = "none"
        BY <3>4, <4>1 DEF NoMarker
      <4>. QED
        BY <3>1, <4>2 DEF Layout, Durable
    <3>. QED
      BY <3>2, <3>3, <3>4
  <2>. QED
    BY <2>2, <2>3
<1>. QED
  BY <1>1, <1>2, <1>3

\* The rename on Unix puts the wanted ledger in place.
LEMMA SwapFiles ==
    ASSUME FilesTyped, Clean, op.want # <<>>, files' = [files EXCEPT !.target = op.want]
    PROVE  FilesTyped' /\ Layout' /\ Clean' /\ files.target' = op.want /\ Durable' = op.want
<1>1. /\ FilesTyped' /\ files.target' = op.want /\ files.prev' = files.prev
      /\ files.next' = files.next /\ files.marker' = files.marker
  BY DEF FilesTyped
<1>. QED
  BY <1>1 DEF Clean, Layout, Durable

\* Writing the new ledger beside the target leaves the durable one.
LEMMA NextFiles ==
    ASSUME FilesTyped, Clean, files' = [files EXCEPT !.next = op.want]
    PROVE  /\ FilesTyped' /\ Layout' /\ Durable' = Durable
           /\ files'.next = op.want /\ files'.prev = <<>> /\ files'.marker.st = "none"
<1>1. /\ FilesTyped' /\ files.next' = op.want /\ files.target' = files.target
      /\ files.prev' = files.prev /\ files.marker' = files.marker
  BY DEF FilesTyped
<1>. QED
  BY <1>1 DEF Clean, Layout, Durable

\* Writing the marker commits a first ledger, and no other.
LEMMA MarkerFiles ==
    ASSUME FilesTyped, files.next = op.want, files.prev = <<>>, files.marker.st = "none", op.want # <<>>,
           op'.want = op.want,
           files' = [files EXCEPT !.marker = [st |-> "whole", prev |-> files.target, next |-> op.want]]
    PROVE  /\ FilesTyped' /\ Layout' /\ Marked'
           /\ files'.next = op.want /\ files'.prev = <<>> /\ files'.target = files.target
           /\ files'.marker.prev = files.target
           /\ files.target = <<>> => SetAside(files.marker)' /\ Durable' = op.want
           /\ files.target # <<>> => Durable' = Durable
<1>1. /\ FilesTyped' /\ files.next' = files.next /\ files.target' = files.target
      /\ files.prev' = files.prev
      /\ files'.marker = [st |-> "whole", prev |-> files.target, next |-> op.want]
  BY DEF FilesTyped
<1>2. files'.marker.st = "whole" /\ files'.marker.prev = files.target /\ files'.marker.next = op.want
  BY <1>1
<1>3. files.target = <<>> => SetAside(files.marker)'
  BY <1>1, <1>2 DEF SetAside
<1>4. files.target # <<>> => Untouched(files.marker)'
  BY <1>1, <1>2 DEF Untouched
<1>5. Layout'
  BY <1>1, <1>2, <1>3, <1>4 DEF Layout
<1>. QED
  BY <1>1, <1>2, <1>3, <1>5 DEF Marked, Durable

\* Setting the target aside leaves it the durable ledger.
LEMMA RetireFiles ==
    ASSUME FilesTyped, Marked, files.marker.prev = files.target, files.target # <<>>, op.want # <<>>,
           files.next = op.want, files.prev = <<>>, op'.want = op.want,
           files' = [files EXCEPT !.prev = files.target, !.target = <<>>]
    PROVE  FilesTyped' /\ Layout' /\ Marked' /\ SetAside(files.marker)' /\ Durable' = Durable
<1>1. /\ FilesTyped' /\ files.next' = files.next /\ files.target' = <<>>
      /\ files.prev' = files.target /\ files.marker' = files.marker
  BY DEF FilesTyped
<1>2. SetAside(files.marker)' /\ Marked'
  BY <1>1 DEF SetAside, Marked
<1>. QED
  BY <1>1, <1>2 DEF Marked, Layout, Durable

\* Installing the new ledger commits it.
LEMMA InstallFiles ==
    ASSUME FilesTyped, Marked, SetAside(files.marker), op.want # <<>>, op'.want = op.want,
           files' = [files EXCEPT !.target = files.next, !.next = <<>>]
    PROVE  FilesTyped' /\ Layout' /\ Marked' /\ Replaced(files.marker)' /\ Durable' = op.want
<1>1. /\ FilesTyped' /\ files.target' = files.next /\ files.next' = <<>>
      /\ files.prev' = files.prev /\ files.marker' = files.marker
  BY DEF FilesTyped
<1>2. Replaced(files.marker)' /\ Marked'
  BY <1>1 DEF SetAside, Replaced, Marked
<1>. QED
  BY <1>1, <1>2 DEF Marked, Replaced, Layout, Durable

\* Removing the ledger that was set aside.
LEMMA SweepFiles ==
    ASSUME FilesTyped, Marked, Replaced(files.marker), op.want # <<>>, op'.want = op.want,
           files' = [files EXCEPT !.prev = <<>>]
    PROVE  /\ FilesTyped' /\ Layout' /\ Marked' /\ Replaced(files.marker)' /\ files'.prev = <<>>
           /\ Durable' = Durable
<1>1. /\ FilesTyped' /\ files.target' = files.target /\ files.next' = files.next
      /\ files.prev' = <<>> /\ files.marker' = files.marker
  BY DEF FilesTyped
<1>2. Replaced(files.marker)' /\ Marked'
  BY <1>1 DEF Replaced, Marked
<1>. QED
  BY <1>1, <1>2 DEF Marked, Replaced, Layout, Durable

\* Removing the marker leaves the new ledger and nothing else.
LEMMA DropFiles ==
    ASSUME FilesTyped, Marked, Replaced(files.marker), files.prev = <<>>, op.want # <<>>,
           files' = [files EXCEPT !.marker = NoMarker]
    PROVE  /\ FilesTyped' /\ Layout' /\ Clean' /\ files.target' = op.want
           /\ Durable' = Durable
<1>1. /\ FilesTyped' /\ files.target' = files.target /\ files.next' = files.next
      /\ files.prev' = files.prev /\ files.marker' = NoMarker
  BY DEF FilesTyped, NoMarker
<1>2. files.marker'.st = "none"
  BY <1>1 DEF NoMarker
<1>. QED
  BY <1>1, <1>2 DEF Marked, Replaced, Clean, Layout, Durable

\* Undoing what was written before the target was touched.
LEMMA UndoneFiles ==
    ASSUME FilesTyped, files.prev = <<>>, files.target # <<>> \/ files.marker.st = "none",
           files' = [files EXCEPT !.next = <<>>, !.marker = NoMarker]
    PROVE  FilesTyped' /\ Layout' /\ Durable' = Durable
<1>1. FilesTyped' /\ files.target' = files.target /\ files.prev' = files.prev /\ files.marker' = NoMarker
  BY DEF FilesTyped, NoMarker
<1>2. files.marker'.st = "none"
  BY <1>1 DEF NoMarker
<1>. QED
  BY <1>1, <1>2 DEF Layout, Durable

\* A marker cut short leaves the durable ledger.
LEMMA TornFiles ==
    ASSUME FilesTyped, files.prev = <<>>, files.marker.st = "none",
           files' = [files EXCEPT !.marker.st = "torn"]
    PROVE  FilesTyped' /\ Layout' /\ Durable' = Durable
<1>1. /\ FilesTyped' /\ files.target' = files.target /\ files.prev' = files.prev
      /\ files.marker'.st = "torn"
  BY DEF FilesTyped
<1>. QED
  BY <1>1 DEF Layout, Durable

-----------------------------------------------------------------------------
(***************************************************************************)
(* A request and its replacement.                                          *)
(***************************************************************************)
\* Only its stage moves.
LEMMA GotoOp ==
    ASSUME OpTyped, NEW pc \in Stages, op' = [op EXCEPT !.pc = pc]
    PROVE  /\ OpTyped' /\ op'.pc = pc /\ op'.want = op.want /\ op'.kind = op.kind
           /\ op'.env = op.env /\ op'.stage = op.stage /\ op'.reread = op.reread
  BY DEF OpTyped

\* What is known of a request that replaces the ledger.
LEMMA ReplacingOp ==
    ASSUME IInv, op.pc \in Replacing
    PROVE  op.pc # "idle" /\ op.pc # "recover" /\ op.reread = FALSE /\ op.want # <<>> /\ OpTyped /\ FilesTyped /\ denied = 0
<1>1. op.pc # "idle" /\ op.pc # "recover"
  BY DEF Replacing
<1>2. op.reread \in BOOLEAN /\ OpTyped /\ FilesTyped
  BY DEF IInv, TypeOK, OpTyped
<1>. QED
  BY <1>1, <1>2, NotDenied DEF IInv, LooksAgain, Pending

\* A replacement that goes on.
LEMMA GoesOn ==
    ASSUME IInv, op.pc \in Replacing, NEW pc \in Replacing, op' = [op EXCEPT !.pc = pc],
           UNCHANGED <<world, denied>>, FilesTyped', Layout', Advance, Progress'
    PROVE  Keeps
<1>1. /\ OpTyped' /\ op'.pc = pc /\ op'.want = op.want /\ op'.kind = op.kind
      /\ op'.env = op.env /\ op'.stage = op.stage /\ op'.reread = op.reread
  <2>1. pc \in Stages
    BY DEF Stages
  <2>. QED
    BY <2>1, ReplacingOp, GotoOp
<1>2. replay' = replay /\ domain' = domain
  BY DEF world
<1>3. ReplayTyped' /\ LinesKnown'
  BY <1>2, ReplaySame, LinesStay
<1>4. op.want # <<>> /\ LedgerOK(op.want)
  BY DEF IInv, Pending
<1>5. Pending'
  <2>1. CASE Durable' = Durable
    <3>1. CoreJoined(Durable)' <=> CoreJoined(Durable)
      BY <1>2, <2>1 DEF CoreJoined
    <3>. QED
      BY <1>1, <1>4, <2>1, <3>1 DEF IInv, Pending
  <2>2. CASE Durable' = op.want
    BY <1>1, <1>4, <2>2 DEF Pending
  <2>. QED
    BY <2>1, <2>2 DEF Advance
<1>6. LooksAgain' /\ Denied'
  BY <1>1, ReplacingOp DEF LooksAgain, Denied
<1>7. Brokered'
  <2>1. op.kind = "broker" /\ op.stage = "final" => InLedger(op.want)
    BY DEF IInv, Brokered
  <2>2. InLedger(op.want)' <=> InLedger(op.want)
    BY <1>1 DEF InLedger
  <2>3. pc \notin {"reserve", "settle"}
    BY DEF Replacing
  <2>. QED
    BY <1>1, <2>1, <2>2, <2>3 DEF Brokered
<1>. QED
  BY <1>1, <1>3, <1>5, <1>6, <1>7, StepKeeps

\* A replacement that ends well.
LEMMA CommittedKeeps ==
    ASSUME IInv, op.pc \in Replacing, Committed, UNCHANGED <<world, denied>>,
           FilesTyped', Layout', Advance, Clean', files.target' = op.want
    PROVE  Keeps
<1>1. ReplayTyped' /\ LinesKnown' /\ Lines' = Lines
  BY ReplaySame, LinesStay DEF world
<1>2. OpTyped /\ op.reread = FALSE /\ op.pc # "idle" /\ denied' = 0
  BY ReplacingOp
<1>3. CASE op.stage # "final"
  <2>1. op' = [op EXCEPT !.pc = "recover", !.want = <<>>, !.stage = "start", !.reread = FALSE]
    BY <1>3 DEF Committed
  <2>2. OpTyped' /\ Rests'
    BY <1>2, <2>1 DEF OpTyped, Stages, Rests
  <2>3. Denied'
    BY <1>2 DEF Denied
  <2>. QED
    BY <1>1, <2>2, <2>3, RestKeeps
<1>4. CASE op.stage = "final" /\ op.kind = "broker"
  <2>1. op' = [op EXCEPT !.pc = "reserve"]
    BY <1>4 DEF Committed
  <2>2. OpTyped' /\ op'.pc = "reserve" /\ op'.env = op.env /\ op'.reread = FALSE
    BY <1>2, <2>1 DEF OpTyped, Stages
  <2>3. InLedger(op.want)
    BY <1>4 DEF IInv, Brokered
  <2>4. InLedger(files.target)'
    BY <2>2, <2>3 DEF InLedger
  <2>5. Progress' /\ Pending' /\ LooksAgain' /\ Denied'
    BY <1>2, <2>2 DEF Progress, Pending, LooksAgain, Denied, Replacing
  <2>6. Brokered'
    BY <2>2, <2>4 DEF Brokered, Replacing
  <2>. QED
    BY <1>1, <2>2, <2>5, <2>6, StepKeeps
<1>5. CASE op.stage = "final" /\ op.kind # "broker"
  <2>1. op' = Idle
    BY <1>5 DEF Committed
  <2>. QED
    BY <1>1, <1>2, <2>1, EndKeeps
<1>. QED
  BY <1>3, <1>4, <1>5

\* One that does not: the request ends, or looks again.
LEMMA NotCommittedKeeps ==
    ASSUME IInv, op.pc \in Replacing, NotCommitted, UNCHANGED world,
           FilesTyped', Layout', Advance
    PROVE  Keeps
<1>1. ReplayTyped' /\ LinesKnown' /\ Lines' = Lines
  BY ReplaySame, LinesStay DEF world
<1>2. OpTyped /\ op.pc # "idle" /\ denied = 0
  BY ReplacingOp
<1>3. CASE op.stage = "epoch" \/ op.kind = "release"
  <2>1. op' = [op EXCEPT !.pc = "recover", !.reread = TRUE] /\ denied' = denied
    BY <1>3 DEF NotCommitted
  <2>2. /\ OpTyped' /\ op'.pc = "recover" /\ op'.want = op.want /\ op'.stage = op.stage
        /\ op'.kind = op.kind
    BY <1>2, <2>1 DEF OpTyped, Stages
  <2>3. Durable' = op.want \/ Len(Durable') < Len(op.want)
    BY DEF Advance, IInv, Pending
  <2>4. LooksAgain'
    BY <1>3, <2>2, <2>3 DEF LooksAgain
  <2>5. Progress' /\ Pending' /\ Brokered' /\ Denied'
    BY <1>2, <2>1, <2>2 DEF Progress, Pending, Brokered, Denied, Replacing
  <2>. QED
    BY <1>1, <2>2, <2>4, <2>5, StepKeeps
<1>4. CASE ~ (op.stage = "epoch" \/ op.kind = "release")
  <2>1. op' = Idle /\ denied' = denied
    BY <1>4 DEF NotCommitted
  <2>. QED
    BY <1>1, <1>2, <2>1, EndKeeps
<1>. QED
  BY <1>3, <1>4

\* A replacement that begins, with a ledger that goes on from the durable one.
LEMMA ReplaceKeeps ==
    ASSUME IInv, Clean, op.pc = "recover", op.reread = FALSE, UNCHANGED <<world, files, denied>>,
           NEW W, NEW stage, Replace(W, stage),
           W # <<>>, LedgerOK(W), Extends(files.target, W), Len(files.target) < Len(W),
           \/ op.kind \in NoDomainLock \cup {"rebase"}
           \/ CoreJoined(files.target) \/ files.target = <<>>,
           op.kind = "broker" /\ stage = "final" => InLedger(W)
    PROVE  Keeps
<1>1. /\ FilesTyped' /\ Layout' /\ Advance /\ Clean' /\ Durable' = Durable
      /\ Durable = files.target /\ denied' = 0
  BY FilesSame, CleanDurable, NotDenied
<1>2. ReplayTyped' /\ LinesKnown' /\ domain' = domain
  BY <1>1, ReplaySame, LinesStay DEF world
<1>3. /\ OpTyped' /\ op'.pc \in {"swap", "write"} /\ op'.want = W /\ op'.stage = stage
      /\ op'.kind = op.kind /\ op'.env = op.env /\ op'.reread = op.reread
  <2>1. PICK pc \in {"swap", "write"} : op' = [op EXCEPT !.pc = pc, !.want = W, !.stage = stage]
    BY DEF Replace
  <2>2. OpTyped
    BY DEF IInv, TypeOK
  <2>. QED
    BY <2>1, <2>2 DEF OpTyped, Stages, Replacing
<1>4. op'.pc \in Replacing /\ op'.pc \notin {"mark", "retire", "install", "sweep", "unmark", "reserve", "settle", "idle"}
  BY <1>3 DEF Replacing
<1>5. Progress' /\ LooksAgain' /\ Denied'
  BY <1>1, <1>3, <1>4 DEF Progress, LooksAgain, Denied
<1>6. Pending'
  <2>1. CoreJoined(Durable)' <=> CoreJoined(files.target)
    BY <1>1, <1>2 DEF CoreJoined
  <2>. QED
    BY <1>1, <1>3, <2>1 DEF Pending
<1>7. Brokered'
  <2>1. InLedger(op.want)' <=> InLedger(W)
    BY <1>3 DEF InLedger
  <2>. QED
    BY <1>3, <1>4, <2>1 DEF Brokered
<1>. QED
  BY <1>1, <1>2, <1>3, <1>5, <1>6, <1>7, StepKeeps

-----------------------------------------------------------------------------
(***************************************************************************)
(* Batches.                                                                *)
(***************************************************************************)
\* A batch without an origin.
Ordinary(es) == IsLedger(es) /\ \A k \in 1..Len(es) : es[k].ev.k # "origin"

\* One event that is no origin.
LEMMA OrdinaryEntry ==
    ASSUME NEW sv, NEW ev, ev.k # "origin"
    PROVE  Ordinary(<<Entry(sv, ev)>>) /\ Len(<<Entry(sv, ev)>>) = 1
<1> DEFINE e == Entry(sv, ev)
<1>1. e.ev = ev
  BY DEF Entry
<1> HIDE DEF e
<1>2. <<e>> \in Seq({e}) /\ Len(<<e>>) = 1 /\ <<e>>[1] = e
  OBVIOUS
<1>3. IsLedger(<<e>>)
  BY <1>2, SequenceIsLedger
<1>4. \A k \in 1..Len(<<e>>) : <<e>>[k].ev.k # "origin"
  BY <1>1, <1>2
<1>. QED
  BY <1>2, <1>3, <1>4 DEF Ordinary, e

\* Two such batches.
LEMMA OrdinaryConcat ==
    ASSUME NEW a, NEW b, Ordinary(a), Ordinary(b)
    PROVE  Ordinary(a \o b) /\ Len(a \o b) = Len(a) + Len(b)
<1> DEFINE T == Range(a) \cup Range(b)
<1>1. a \in Seq(T) /\ b \in Seq(T) /\ Len(a) \in Nat /\ Len(b) \in Nat
  BY LedgerFacts DEF Ordinary, IsLedger
<1> HIDE DEF T
<1>2. /\ a \o b \in Seq(T) /\ Len(a \o b) = Len(a) + Len(b)
      /\ \A i \in 1..(Len(a) + Len(b)) : (a \o b)[i] = IF i <= Len(a) THEN a[i] ELSE b[i - Len(a)]
  BY <1>1, ConcatProperties
<1>3. ASSUME NEW i \in 1..(Len(a) + Len(b)) PROVE (a \o b)[i].ev.k # "origin"
  <2>1. CASE i <= Len(a)
    BY <1>1, <1>2, <2>1 DEF Ordinary
  <2>2. CASE ~ (i <= Len(a))
    <3>1. i - Len(a) \in 1..Len(b)
      BY <1>1, <2>2
    <3>. QED
      BY <1>2, <2>2, <3>1 DEF Ordinary
  <2>. QED
    BY <2>1, <2>2
<1>. QED
  BY <1>2, <1>3, SequenceIsLedger DEF Ordinary

\* The phase that may follow.
LEMMA OrdinaryAdvance ==
    ASSUME NEW L, NEW sv, NEW wanted
    PROVE  Ordinary(PhaseAdvance(L, sv, wanted)) /\ Len(PhaseAdvance(L, sv, wanted)) \in Nat
<1>1. Ordinary(<<>>) /\ Len(<<>>) \in Nat
  <2>1. <<>> \in Seq({}) /\ Len(<<>>) = 0 /\ 1..0 = {}
    OBVIOUS
  <2>. QED
    BY <2>1, SequenceIsLedger DEF Ordinary
<1>2. CASE wanted /\ Successor(Phase(L)) # "none"
  <2> DEFINE ev == [k |-> "phase", from |-> Phase(L), to |-> Successor(Phase(L))]
  <2>1. ev.k # "origin"
    OBVIOUS
  <2> HIDE DEF ev
  <2>2. Ordinary(<<Entry(sv, ev)>>) /\ Len(<<Entry(sv, ev)>>) = 1
    BY <2>1, OrdinaryEntry
  <2>3. PhaseAdvance(L, sv, wanted) = <<Entry(sv, ev)>>
    BY <1>2 DEF PhaseAdvance, ev
  <2>. QED
    BY <2>2, <2>3
<1>3. CASE ~ (wanted /\ Successor(Phase(L)) # "none")
  BY <1>1, <1>3 DEF PhaseAdvance
<1>. QED
  BY <1>2, <1>3

\* An entry, and perhaps a phase after it.
LEMMA OrdinaryBatch ==
    ASSUME NEW sv, NEW ev, ev.k # "origin", NEW L, NEW sw, NEW wanted
    PROVE  LET es == <<Entry(sv, ev)>> \o PhaseAdvance(L, sw, wanted)
           IN  Ordinary(es) /\ Len(es) \in Nat /\ Len(es) > 0
<1> DEFINE a == <<Entry(sv, ev)>>
           b == PhaseAdvance(L, sw, wanted)
<1>1. Ordinary(a) /\ Len(a) = 1
  BY OrdinaryEntry
<1>2. Ordinary(b) /\ Len(b) \in Nat
  BY OrdinaryAdvance
<1> HIDE DEF a, b
<1>3. Ordinary(a \o b) /\ Len(a \o b) = Len(a) + Len(b)
  BY <1>1, <1>2, OrdinaryConcat
<1>4. Len(a \o b) \in Nat /\ Len(a \o b) > 0
  BY <1>1, <1>2, <1>3
<1>. QED
  BY <1>3, <1>4 DEF a, b

\* The records of a prepared ledger: those before it, then those of the batch.
LEMMA PreparedRecord ==
    ASSUME NEW L, IsLedger(L), NEW es, IsLedger(es), Prepare(L, es) # <<>>,
           NEW n \in DOMAIN Prepare(L, es)
    PROVE  \/ n \in DOMAIN L /\ Ev(Prepare(L, es), n) = Ev(L, n)
           \/ n - Len(L) \in 1..Len(es) /\ Ev(Prepare(L, es), n) = es[n - Len(L)].ev
<1> DEFINE W == Prepare(L, es)
<1>1. /\ IsLedger(W) /\ Len(W) = Len(L) + Len(es) /\ Extends(L, W)
      /\ \A k \in 1..Len(es) : W[Len(L) + k].ev = es[k].ev
  BY PrepareExtends DEF IsLedger
<1>2. n \in DOMAIN W
  OBVIOUS
<1> HIDE DEF W
<1>3. Len(L) \in Nat /\ Len(es) \in Nat /\ DOMAIN L = 1..Len(L) /\ DOMAIN W = 1..Len(W)
  BY <1>1, LedgerFacts
<1>4. CASE n \in 1..Len(L)
  BY <1>1, <1>3, <1>4 DEF Extends, Ev, W
<1>5. CASE n \notin 1..Len(L)
  <2>1. n - Len(L) \in 1..Len(es) /\ Len(L) + (n - Len(L)) = n
    BY <1>1, <1>2, <1>3, <1>5
  <2>. QED
    BY <1>1, <2>1 DEF Ev, W
<1>. QED
  BY <1>4, <1>5

\* A batch without an origin keeps the ledger in order.
LEMMA OrdinaryOK ==
    ASSUME NEW L, LedgerOK(L), NEW es, Ordinary(es), Prepare(L, es) # <<>>
    PROVE  LedgerOK(Prepare(L, es))
<1> DEFINE W == Prepare(L, es)
<1>1. IsLedger(L) /\ IsLedger(es) /\ IsLedger(W)
  BY PrepareExtends DEF LedgerOK, Ordinary, IsLedger
<1>2. ASSUME NEW n \in StrictOrigins(W) PROVE n \in StrictOrigins(L) /\ Ev(W, n) = Ev(L, n)
  <2>1. n \in DOMAIN W /\ Ev(W, n).k = "origin" /\ Ev(W, n).strict
    BY DEF StrictOrigins, Origins, OfKind
  <2>2. n \in DOMAIN L /\ Ev(W, n) = Ev(L, n)
    BY <1>1, <2>1, PreparedRecord DEF Ordinary
  <2>. QED
    BY <2>1, <2>2 DEF StrictOrigins, Origins, OfKind
<1> HIDE DEF W
<1>3. OriginsOK(W)
  BY <1>2 DEF LedgerOK, OriginsOK
<1>. QED
  BY <1>1, <1>3 DEF LedgerOK, W

\* The ledger that a batch makes of one it may be appended to.
LEMMA CommitKeeps ==
    ASSUME IInv, Recovered, NEW es, Ordinary(es), Len(es) > 0, Commit(es), op.kind # "broker",
           op.kind \in NoDomainLock \cup {"rebase"} \/ CoreJoined(files.target)
    PROVE  Keeps
<1> DEFINE L == files.target
           W == Prepare(L, es)
<1>1. W # <<>> /\ Replace(W, "final") /\ UNCHANGED <<world, files, denied, spent>>
  BY DEF Commit
<1>2. op.pc = "recover" /\ Clean /\ op.reread = FALSE
  BY DEF Recovered, IInv, TypeOK, OpTyped
<1>3. LedgerOK(L)
  BY <1>2, CleanDurable DEF IInv
<1>4. LedgerOK(W)
  BY <1>1, <1>3, OrdinaryOK
<1>5. Extends(L, W) /\ Len(W) = Len(L) + Len(es) /\ Len(L) \in Nat /\ Len(es) \in Nat
  BY <1>1, <1>3, PrepareExtends, LedgerFacts DEF LedgerOK, Ordinary, IsLedger
<1> HIDE DEF L, W
<1>6. Len(L) < Len(W)
  BY <1>5
<1>. QED
  BY <1>1, <1>2, <1>4, <1>5, <1>6, ReplaceKeeps DEF L

-----------------------------------------------------------------------------
(***************************************************************************)
(* The handlers.                                                           *)
(***************************************************************************)
\* Where a handler decides.
LEMMA ReadyFacts ==
    ASSUME NEW kinds, Ready(kinds)
    PROVE  /\ Recovered /\ op.kind \in kinds
           /\ op.kind \in EpochKinds \cup StrictEpochKinds => CoreJoined(files.target)
  BY DEF Ready, EpochCurrent

\* A handler that appends one event.
LEMMA EntryKeeps ==
    ASSUME IInv, Recovered, NEW sv, NEW ev, ev.k # "origin", Commit(<<Entry(sv, ev)>>), op.kind # "broker",
           op.kind \in NoDomainLock \cup {"rebase"} \/ CoreJoined(files.target)
    PROVE  Keeps
<1> DEFINE es == <<Entry(sv, ev)>>
<1>1. Ordinary(es) /\ Len(es) = 1
  BY OrdinaryEntry
<1>2. Commit(es)
  OBVIOUS
<1> HIDE DEF es
<1>3. Len(es) > 0
  BY <1>1
<1>. QED
  BY <1>1, <1>2, <1>3, CommitKeeps

\* A handler that appends one event and perhaps moves the phase.
LEMMA EntryAndPhaseKeeps ==
    ASSUME IInv, Recovered, NEW sv, NEW ev, ev.k # "origin", NEW L, NEW sw, NEW wanted,
           Commit(<<Entry(sv, ev)>> \o PhaseAdvance(L, sw, wanted)), op.kind # "broker",
           op.kind \in NoDomainLock \cup {"rebase"} \/ CoreJoined(files.target)
    PROVE  Keeps
<1> DEFINE es == <<Entry(sv, ev)>> \o PhaseAdvance(L, sw, wanted)
<1>1. Ordinary(es) /\ Len(es) > 0
  BY OrdinaryBatch
<1>2. Commit(es)
  OBVIOUS
<1> HIDE DEF es
<1>. QED
  BY <1>1, <1>2, CommitKeeps

\* accept_cooperative_objective.
LEMMA AcceptObjectiveKeeps ==
    ASSUME IInv, AcceptObjective
    PROVE  Keeps
<1> DEFINE L == files.target
           sv == StateVersion(L)
           rev == IF LatestObjective(L) = 0 THEN 0 ELSE Ev(L, LatestObjective(L)).rev
           ev(kind) == [k |-> "objective", rev |-> rev + 1, on |-> Len(L), kind |-> kind]
           back == [k |-> "phase", from |-> "evolve", to |-> "discovery"]
           after(kind) == IF kind = "material" /\ Phase(L) = "evolve" THEN <<Entry(sv + 1, back)>> ELSE <<>>
<1>1. Ready({"objective"})
  BY DEF AcceptObjective
<1>2. Recovered /\ op.kind = "objective" /\ CoreJoined(files.target)
  BY <1>1, ReadyFacts DEF EpochKinds
<1>3. PICK kind \in {"initial", "material", "clarify"} : Commit(<<Entry(sv, ev(kind))>> \o after(kind))
  BY DEF AcceptObjective
<1> DEFINE a == <<Entry(sv, ev(kind))>>
           b == after(kind)
<1>4. Ordinary(a) /\ Len(a) = 1
  <2>1. ev(kind).k # "origin"
    OBVIOUS
  <2> HIDE DEF ev, sv
  <2>. QED
    BY <2>1, OrdinaryEntry
<1>5. Ordinary(b) /\ Len(b) \in Nat
  <2>1. back.k # "origin"
    OBVIOUS
  <2> HIDE DEF back
  <2>2. Ordinary(<<Entry(sv + 1, back)>>) /\ Len(<<Entry(sv + 1, back)>>) = 1
    BY <2>1, OrdinaryEntry
  <2>3. Ordinary(<<>>) /\ Len(<<>>) \in Nat
    <3>1. <<>> \in Seq({}) /\ Len(<<>>) = 0 /\ 1..0 = {}
      OBVIOUS
    <3>. QED
      BY <3>1, SequenceIsLedger DEF Ordinary
  <2> HIDE DEF sv, L
  <2>. QED
    BY <2>2, <2>3
<1>6. Commit(a \o b)
  BY <1>3
<1> HIDE DEF a, b
<1>7. Ordinary(a \o b) /\ Len(a \o b) > 0
  <2>1. Ordinary(a \o b) /\ Len(a \o b) = Len(a) + Len(b)
    BY <1>4, <1>5, OrdinaryConcat
  <2>. QED
    BY <1>4, <1>5, <2>1
<1>. QED
  BY <1>2, <1>6, <1>7, CommitKeeps

\* observe_cooperative_evidence.
LEMMA ObserveEvidenceKeeps ==
    ASSUME IInv, ObserveEvidence
    PROVE  Keeps
<1> DEFINE L == files.target
           sv == StateVersion(L)
           bundle == IF domain.gen # 0 THEN <<"pack", domain.gen>> ELSE <<"core", Core(L)>>
           event(offer, digest, verdict, prior) ==
               [k |-> "evidence", offer |-> offer, digest |-> digest, verdict |-> verdict,
                prior |-> prior, obj |-> LatestObjective(L), bundle |-> bundle, on |-> Len(L), at |-> sv]
<1>1. Ready({"evidence"})
  BY DEF ObserveEvidence
<1>2. Recovered /\ op.kind = "evidence" /\ CoreJoined(files.target)
  BY <1>1, ReadyFacts DEF EpochKinds
<1>3. \A offer, digest, verdict, prior : event(offer, digest, verdict, prior).k # "origin"
  OBVIOUS
<1>4. PICK offer \in Offers \cup {"none"}, digest \in Digests,
           verdict \in {"admitted", "rejected", "conflict"}, prior \in BOOLEAN, wanted \in BOOLEAN :
               Commit(<<Entry(sv, event(offer, digest, verdict, prior))>> \o PhaseAdvance(L, sv + 1, wanted))
  <2> DEFINE Seen(d) == \E n \in OfKind(L, {"evidence"}) : Ev(L, n).digest = d
             Taken(o, d) == \E n \in OfKind(L, {"evidence"}) : Ev(L, n).offer = o /\ Ev(L, n).digest # d
  <2>1. \E offer \in Offers \cup {"none"}, digest \in Digests,
           verdict \in {"admitted", "rejected", "conflict"}, prior, wanted \in BOOLEAN :
               /\ ~ Seen(digest)
               /\ (verdict = "conflict") <=> (offer # "none" /\ Taken(offer, digest))
               /\ offer = "none" => verdict = "rejected"
               /\ prior => verdict = "admitted" /\ AdmittedEvidence(L) # {}
               /\ wanted => verdict = "admitted"
               /\ Commit(<<Entry(sv, event(offer, digest, verdict, prior))>>
                         \o PhaseAdvance(L, sv + 1, wanted))
    BY Zenon DEF ObserveEvidence
  <2> HIDE DEF Seen, Taken, event, L, sv
  <2>. QED
    BY <2>1, Zenon
<1> HIDE DEF event, L, sv
<1>. QED
  BY <1>2, <1>3, <1>4, EntryAndPhaseKeeps

\* start, supersede.
LEMMA BeginFocusKeeps ==
    ASSUME IInv, BeginFocus
    PROVE  Keeps
<1>1. Ready({"focus"})
  BY DEF BeginFocus
<1>2. Recovered /\ op.kind = "focus" /\ CoreJoined(files.target)
  BY <1>1, ReadyFacts DEF StrictEpochKinds
<1>3. \E id, c : Commit(<<Entry(StateVersion(files.target), FreshFocus(files.target, id, c))>>)
  BY DEF BeginFocus
<1>4. \A id, c : FreshFocus(files.target, id, c).k # "origin"
  BY DEF FreshFocus
<1>5. PICK ev : ev.k # "origin" /\ Commit(<<Entry(StateVersion(files.target), ev)>>)
  BY <1>3, <1>4
<1>. QED
  BY <1>2, <1>5, EntryKeeps

\* checkpoint, bind references, complete.
LEMMA ContinueFocusKeeps ==
    ASSUME IInv, ContinueFocus
    PROVE  Keeps
<1> DEFINE L == files.target
           f == LatestFocus(L)
           event(c, state) == [FreshFocus(L, Ev(L, f).id, c) EXCEPT !.state = state]
<1>1. Ready({"focus"})
  BY DEF ContinueFocus
<1>2. Recovered /\ op.kind = "focus" /\ CoreJoined(files.target)
  BY <1>1, ReadyFacts DEF StrictEpochKinds
<1>3. \E c, state : Commit(<<Entry(StateVersion(L), event(c, state))>>)
  BY DEF ContinueFocus
<1>4. \A c, state : event(c, state).k # "origin"
  BY DEF FreshFocus
<1> HIDE DEF event, L
<1>5. PICK ev : ev.k # "origin" /\ Commit(<<Entry(StateVersion(L), ev)>>)
  BY <1>3, <1>4
<1>. QED
  BY <1>2, <1>5, EntryKeeps

\* The signed observations of one event.
LEMMA RecordAuthorisedKeeps ==
    ASSUME IInv, NEW what \in {"capability", "evaluation", "decision", "waiver"}, RecordAuthorised(what)
    PROVE  Keeps
<1> DEFINE ev == [k |-> what]
<1>1. Ready({"authorised"}) /\ Commit(<<Entry(StateVersion(files.target), ev)>>)
  BY DEF RecordAuthorised, Fact
<1>2. Recovered /\ op.kind = "authorised" /\ CoreJoined(files.target)
  BY <1>1, ReadyFacts DEF EpochKinds
<1>3. ev.k # "origin"
  OBVIOUS
<1> HIDE DEF ev
<1>. QED
  BY <1>1, <1>2, <1>3, EntryKeeps

\* An assessment, which may end the phase.
LEMMA RecordApplicabilityKeeps ==
    ASSUME IInv, RecordApplicability
    PROVE  Keeps
<1> DEFINE ev == [k |-> "applicability"]
           L == files.target
           sv == StateVersion(L)
<1>1. Ready({"authorised"})
  BY DEF RecordApplicability
<1>2. Recovered /\ op.kind = "authorised" /\ CoreJoined(files.target)
  BY <1>1, ReadyFacts DEF EpochKinds
<1>3. PICK wanted \in BOOLEAN : Commit(<<Entry(sv, ev)>> \o PhaseAdvance(L, sv + 1, wanted))
  BY DEF RecordApplicability, Fact
<1>4. ev.k # "origin"
  OBVIOUS
<1> HIDE DEF ev, L, sv
<1>. QED
  BY <1>2, <1>3, <1>4, EntryAndPhaseKeeps

\* A signal, which may end the phase.
LEMMA RecordSignalKeeps ==
    ASSUME IInv, RecordSignal
    PROVE  Keeps
<1> DEFINE L == files.target
           sv == StateVersion(L)
           i == LastOf(L, {"signal"})
           was == IF i = 0 THEN [active |-> FALSE, gen |-> 0] ELSE Ev(L, i)
           ev == [k |-> "signal", active |-> ~ was.active,
                  gen |-> IF was.active THEN was.gen ELSE was.gen + 1]
<1>1. Ready({"authorised"})
  BY DEF RecordSignal
<1>2. Recovered /\ op.kind = "authorised" /\ CoreJoined(files.target)
  BY <1>1, ReadyFacts DEF EpochKinds
<1>3. PICK wanted \in BOOLEAN : Commit(<<Entry(sv, ev)>> \o PhaseAdvance(L, sv + 1, wanted))
  BY DEF RecordSignal
<1>4. ev.k # "origin"
  OBVIOUS
<1> HIDE DEF ev, L, sv
<1>. QED
  BY <1>2, <1>3, <1>4, EntryAndPhaseKeeps

\* complete_workflow.
LEMMA CompleteWorkflowKeeps ==
    ASSUME IInv, CompleteWorkflow
    PROVE  Keeps
<1> DEFINE L == files.target
           sv == StateVersion(L) + 1
           done == [k |-> "completed"]
           more == [k |-> "continuity"]
           a(wanted) == <<Entry(sv, done)>> \o PhaseAdvance(L, sv + 1, wanted)
           b(wanted) == <<Entry(sv + Len(PhaseAdvance(L, sv + 1, wanted)), more)>>
<1>1. Ready({"completion"})
  BY DEF CompleteWorkflow
<1>2. Recovered /\ op.kind = "completion" /\ CoreJoined(files.target)
  BY <1>1, ReadyFacts DEF EpochKinds
<1>3. PICK wanted \in BOOLEAN : Commit(a(wanted) \o b(wanted))
  BY DEF CompleteWorkflow, Fact
<1>4. done.k # "origin" /\ more.k # "origin"
  OBVIOUS
<1> HIDE DEF done, more, L, sv
<1>5. Ordinary(a(wanted)) /\ Len(a(wanted)) \in Nat /\ Len(a(wanted)) > 0
  BY <1>4, OrdinaryBatch
<1>6. Ordinary(b(wanted)) /\ Len(b(wanted)) = 1
  BY <1>4, OrdinaryEntry
<1> HIDE DEF a, b
<1>7. Ordinary(a(wanted) \o b(wanted)) /\ Len(a(wanted) \o b(wanted)) = Len(a(wanted)) + Len(b(wanted))
  BY <1>5, <1>6, OrdinaryConcat
<1>8. Len(a(wanted) \o b(wanted)) > 0
  BY <1>5, <1>6, <1>7
<1>. QED
  BY <1>2, <1>3, <1>7, <1>8, CommitKeeps

\* apply_post_build_verify_episode.
LEMMA ApplyEpisodeKeeps ==
    ASSUME IInv, ApplyEpisode
    PROVE  Keeps
<1> DEFINE L == files.target
           event(route) == [k |-> "episode", gen |-> Episode(L) + 1, subject |-> Core(L),
                            from |-> route[1], to |-> route[2], whole |-> TRUE,
                            on |-> Len(L), at |-> StateVersion(L)]
<1>1. Ready({"episode"})
  BY DEF ApplyEpisode
<1>2. Recovered /\ op.kind = "episode" /\ CoreJoined(files.target)
  BY <1>1, ReadyFacts DEF EpochKinds
<1>3. PICK route \in EpisodeRoutes : Commit(<<Entry(StateVersion(L) + 1, event(route))>>)
  BY DEF ApplyEpisode
<1>4. event(route).k # "origin"
  OBVIOUS
<1> HIDE DEF event, L
<1>. QED
  BY <1>2, <1>3, <1>4, EntryKeeps

\* Coordination, without the domain lock.
LEMMA ApplyCoordinationKeeps ==
    ASSUME IInv, ApplyCoordination
    PROVE  Keeps
<1> DEFINE L == files.target
           event(status) == [k |-> "coord", status |-> status, prior |-> Request(L),
                             on |-> Len(L), at |-> StateVersion(L)]
<1>1. Ready({"coordination"})
  BY DEF ApplyCoordination
<1>2. Recovered /\ op.kind = "coordination"
  BY <1>1, ReadyFacts
<1>3. op.kind \in NoDomainLock
  BY <1>2 DEF NoDomainLock
<1>4. \E status : Commit(<<Entry(StateVersion(L) + 1, event(status))>>)
  BY DEF ApplyCoordination
<1>5. \A status : event(status).k # "origin"
  OBVIOUS
<1> HIDE DEF event, L
<1>6. PICK ev : ev.k # "origin" /\ Commit(<<Entry(StateVersion(L) + 1, ev)>>)
  BY <1>4, <1>5
<1>. QED
  BY <1>2, <1>3, <1>6, EntryKeeps

\* Adoption, without the domain lock.
LEMMA AdoptLegacySoloKeeps ==
    ASSUME IInv, AdoptLegacySolo
    PROVE  Keeps
<1> DEFINE ev == [k |-> "adopt", on |-> Len(files.target)]
<1>1. Ready({"adopt"}) /\ Commit(<<Entry(StateVersion(files.target) + 1, ev)>>)
  BY DEF AdoptLegacySolo
<1>2. Recovered /\ op.kind = "adopt" /\ op.kind \in NoDomainLock
  BY <1>1, ReadyFacts DEF NoDomainLock
<1>3. ev.k # "origin"
  OBVIOUS
<1> HIDE DEF ev
<1>. QED
  BY <1>1, <1>2, <1>3, EntryKeeps

\* release_upgrade, while no generation is active.
LEMMA UpgradeReleaseKeeps ==
    ASSUME IInv, UpgradeRelease
    PROVE  Keeps
<1> DEFINE L == files.target
           ev == [k |-> "release", from |-> Core(L), to |-> Core(L) + 1, on |-> Len(L)]
<1>1. Ready({"release"}) /\ domain.gen = 0 /\ Commit(<<Entry(StateVersion(L) + 1, ev)>>)
  BY DEF UpgradeRelease
<1>2. Recovered /\ op.kind = "release" /\ CoreJoined(files.target)
  BY <1>1, ReadyFacts DEF CoreJoined
<1>3. ev.k # "origin"
  OBVIOUS
<1> HIDE DEF ev, L
<1>. QED
  BY <1>1, <1>2, <1>3, EntryKeeps

\* complete_release_rebase, the joined event.
LEMMA CompleteRebaseKeeps ==
    ASSUME IInv, CompleteRebase
    PROVE  Keeps
<1> DEFINE L == files.target
           ev == [k |-> "rebase", from |-> Core(L), to |-> domain.core,
                  fromGen |-> Effective(L), gen |-> domain.gen, on |-> Len(L)]
<1>1. Ready({"rebase"}) /\ Commit(<<Entry(StateVersion(L) + 1, ev)>>)
  BY DEF CompleteRebase
<1>2. Recovered /\ op.kind = "rebase"
  BY <1>1, ReadyFacts
<1>3. ev.k # "origin"
  OBVIOUS
<1> HIDE DEF ev, L
<1>. QED
  BY <1>1, <1>2, <1>3, EntryKeeps

\* A broker batch: an action, its origin, and what may follow.
LEMMA BrokerBatch ==
    ASSUME NEW sv, NEW act, act.k # "origin", NEW org, NEW rest, Ordinary(rest)
    PROVE  LET es == <<Entry(sv, act), Entry(sv, org)>> \o rest
           IN  /\ IsLedger(es) /\ Len(es) \in Nat /\ Len(es) > 1 /\ es[2].ev = org
               /\ \A k \in 1..Len(es) : k # 2 => es[k].ev.k # "origin"
<1> DEFINE a == Entry(sv, act)
           b == Entry(sv, org)
           h == <<a, b>>
           es == h \o rest
<1>1. a.ev = act /\ b.ev = org
  BY DEF Entry
<1> HIDE DEF a, b
<1> DEFINE T == {a, b} \cup Range(rest)
<1>2. h \in Seq(T) /\ Len(h) = 2 /\ h[1] = a /\ h[2] = b
  OBVIOUS
<1>3. rest \in Seq(T) /\ Len(rest) \in Nat
  BY LedgerFacts DEF Ordinary, IsLedger
<1> HIDE DEF h, T
<1>4. /\ es \in Seq(T) /\ Len(es) = 2 + Len(rest)
      /\ \A i \in 1..(2 + Len(rest)) : es[i] = IF i <= 2 THEN h[i] ELSE rest[i - 2]
  <2>1. /\ h \o rest \in Seq(T) /\ Len(h \o rest) = Len(h) + Len(rest)
        /\ \A i \in 1..(Len(h) + Len(rest)) :
               (h \o rest)[i] = IF i <= Len(h) THEN h[i] ELSE rest[i - Len(h)]
    BY <1>2, <1>3, ConcatProperties
  <2>. QED
    BY <1>2, <2>1
<1> HIDE DEF es
<1>5. ASSUME NEW k \in 1..Len(es), k # 2 PROVE es[k].ev.k # "origin"
  <2>1. CASE k = 1
    BY <1>1, <1>2, <1>4, <2>1
  <2>2. CASE k # 1
    <3>1. k - 2 \in 1..Len(rest) /\ ~ (k <= 2)
      BY <1>3, <1>4, <1>5, <2>2
    <3>2. es[k] = rest[k - 2]
      BY <1>4, <3>1
    <3>. QED
      BY <3>1, <3>2 DEF Ordinary
  <2>. QED
    BY <2>1, <2>2
<1>6. es[2].ev = org /\ Len(es) \in Nat /\ Len(es) > 1
  BY <1>1, <1>2, <1>3, <1>4
<1>7. IsLedger(es)
  BY <1>4, SequenceIsLedger
<1>. QED
  BY <1>5, <1>6, <1>7 DEF es, h, a, b

\* A ledger stays in order when its one new origin has a new interaction and a new
\* packet, issued for the head it is appended to.
LEMMA BrokerOK ==
    ASSUME NEW L, LedgerOK(L), NEW es, IsLedger(es), Len(es) > 1, Prepare(L, es) # <<>>,
           NEW env, env.head = Len(L), Applied(L, env) = {},
           es[2].ev = [k |-> "origin", i |-> env.i, packet |-> <<env.head, env.kind>>,
                       on |-> Len(L) + 1, strict |-> TRUE],
           \A k \in 1..Len(es) : k # 2 => es[k].ev.k # "origin"
    PROVE  /\ LedgerOK(Prepare(L, es))
           /\ \E n \in StrictOrigins(Prepare(L, es)) : Ev(Prepare(L, es), n).i = env.i
<1> DEFINE W == Prepare(L, es)
           p == Len(L) + 2
<1>1. /\ IsLedger(L) /\ IsLedger(W) /\ Len(L) \in Nat /\ Len(es) \in Nat
      /\ Len(W) = Len(L) + Len(es) /\ DOMAIN W = 1..Len(W) /\ DOMAIN L = 1..Len(L)
      /\ \A k \in 1..Len(es) : W[Len(L) + k].ev = es[k].ev
  BY PrepareExtends, LedgerFacts DEF LedgerOK, IsLedger
<1>2. ASSUME NEW n \in StrictOrigins(W)
      PROVE  n = p \/ (n \in StrictOrigins(L) /\ Ev(W, n) = Ev(L, n))
  <2>1. n \in DOMAIN W /\ Ev(W, n).k = "origin" /\ Ev(W, n).strict
    BY DEF StrictOrigins, Origins, OfKind
  <2>2. CASE n \in DOMAIN L /\ Ev(W, n) = Ev(L, n)
    BY <2>1, <2>2 DEF StrictOrigins, Origins, OfKind
  <2>3. CASE n - Len(L) \in 1..Len(es) /\ Ev(W, n) = es[n - Len(L)].ev
    <3>1. n - Len(L) = 2
      BY <2>1, <2>3
    <3>. QED
      BY <1>1, <2>1, <3>1
  <2>. QED
    BY <1>1, <2>1, <2>2, <2>3, PreparedRecord
<1>3. /\ p \in DOMAIN W /\ Ev(W, p).i = env.i /\ Ev(W, p).packet = <<env.head, env.kind>>
      /\ Ev(W, p).on = Len(L) + 1 /\ Ev(W, p).strict /\ Ev(W, p).k = "origin"
  <2>1. 2 \in 1..Len(es) /\ p \in 1..Len(W)
    BY <1>1
  <2>2. Ev(W, p) = es[2].ev
    BY <1>1, <2>1 DEF Ev
  <2>. QED
    BY <1>1, <2>1, <2>2
<1> HIDE DEF W, p
<1>4. p \in StrictOrigins(W)
  BY <1>3 DEF StrictOrigins, Origins, OfKind
<1>5. \A m \in StrictOrigins(L) : Ev(L, m).i # env.i /\ Ev(L, m).packet # <<env.head, env.kind>>
  BY DEF Applied, SameCoordinate, StrictOrigins
<1>6. Ev(W, p).packet[1] = Ev(W, p).on - 1
  BY <1>1, <1>3
<1>7. \A n \in StrictOrigins(W) : Ev(W, n).packet[1] = Ev(W, n).on - 1
  BY <1>2, <1>6 DEF LedgerOK, OriginsOK
<1>8. ASSUME NEW m \in StrictOrigins(W), NEW n \in StrictOrigins(W),
             Ev(W, m).i = Ev(W, n).i \/ Ev(W, m).packet = Ev(W, n).packet
      PROVE  m = n
  <2>1. CASE m = p
    BY <1>2, <1>3, <1>5, <1>8, <2>1
  <2>2. CASE n = p
    BY <1>2, <1>3, <1>5, <1>8, <2>2
  <2>3. CASE m # p /\ n # p
    BY <1>2, <1>8, <2>3 DEF LedgerOK, OriginsOK
  <2>. QED
    BY <2>1, <2>2, <2>3
<1>9. OriginsOK(W)
  BY <1>7, <1>8 DEF OriginsOK
<1>. QED
  BY <1>1, <1>3, <1>4, <1>9 DEF LedgerOK, W

\* apply_verified_broker_action_inner: nothing in the ledger shares a coordinate.
LEMMA ApplyBrokerActionKeeps ==
    ASSUME IInv, ApplyBrokerAction
    PROVE  Keeps
<1> DEFINE L == files.target
           env == op.env
           sv == StateVersion(L)
           act == [k |-> env.kind, i |-> env.i, on |-> env.head]
           org == [k |-> "origin", i |-> env.i, packet |-> <<env.head, env.kind>>,
                   on |-> Len(L) + 1, strict |-> TRUE]
           batch(wanted) == <<Entry(sv, act), Entry(sv, org)>>
                            \o PhaseAdvance(L, sv + 1, wanted /\ env.kind = "action")
<1>1. Ready({"broker"}) /\ Applied(L, env) = {} /\ env.head = Len(L)
  BY DEF ApplyBrokerAction, CurrentPacket
<1>2. Recovered /\ op.kind = "broker" /\ CoreJoined(L)
  BY <1>1, ReadyFacts DEF EpochKinds
<1>3. PICK wanted \in BOOLEAN : Commit(batch(wanted))
  BY DEF ApplyBrokerAction
<1> DEFINE es == batch(wanted)
           W == Prepare(L, es)
<1>4. W # <<>> /\ Replace(W, "final") /\ UNCHANGED <<world, files, denied, spent>>
  BY <1>3 DEF Commit
<1>5. op.pc = "recover" /\ Clean /\ op.reread = FALSE
  BY <1>2 DEF Recovered, IInv, TypeOK, OpTyped
<1>6. LedgerOK(L) /\ IsLedger(L)
  BY <1>5, CleanDurable DEF IInv, LedgerOK
<1>7. /\ IsLedger(es) /\ Len(es) \in Nat /\ Len(es) > 1 /\ es[2].ev = org
      /\ \A k \in 1..Len(es) : k # 2 => es[k].ev.k # "origin"
  <2>1. act.k # "origin"
    BY DEF IInv, TypeOK, OpTyped
  <2> DEFINE rest == PhaseAdvance(L, sv + 1, wanted /\ env.kind = "action")
  <2>2. Ordinary(rest)
    BY OrdinaryAdvance
  <2> HIDE DEF act, org, rest, L, sv
  <2>3. es = <<Entry(sv, act), Entry(sv, org)>> \o rest
    BY DEF rest
  <2> HIDE DEF es
  <2>. QED
    BY <2>1, <2>2, <2>3, BrokerBatch
<1> HIDE DEF es
<1>8. LedgerOK(W) /\ \E n \in StrictOrigins(W) : Ev(W, n).i = env.i
  <2> HIDE DEF L, env
  <2>. QED
    BY <1>1, <1>4, <1>6, <1>7, BrokerOK
<1>9. Extends(L, W) /\ Len(W) = Len(L) + Len(es) /\ Len(L) \in Nat
  BY <1>4, <1>6, <1>7, PrepareExtends, LedgerFacts DEF IsLedger
<1> HIDE DEF L, W
<1>10. Len(L) < Len(W) /\ InLedger(W)
  BY <1>7, <1>8, <1>9 DEF InLedger
<1>. QED
  BY <1>2, <1>4, <1>5, <1>8, <1>9, <1>10, ReplaceKeeps DEF L

\* import on an empty ledger.
LEMMA ImportKeeps ==
    ASSUME IInv, Import
    PROVE  Keeps
<1>1. /\ op.kind = "initialize" /\ op.pc = "recover" /\ Clean /\ files.target = <<>>
      /\ op.reread = FALSE /\ UNCHANGED <<world, files, denied>>
  BY DEF Import, IInv, TypeOK, OpTyped
<1>2. PICK profile \in {"solo", "strict"} : Replace(Genesis(profile), "import")
  BY DEF Import
<1> DEFINE W == Genesis(profile)
           ev == [k |-> "imported", profile |-> profile]
           r == [ev |-> ev, sv |-> 0, core |-> 0, schema |-> WireSchema(<<>>, ev)]
<1>3. W = <<r>> /\ r.ev.k = "imported"
  BY DEF Genesis
<1> HIDE DEF W, r
<1>4. W \in Seq({r}) /\ Len(W) = 1 /\ DOMAIN W = {1} /\ W[1] = r /\ W # <<>>
  BY <1>3
<1>5. IsLedger(W) /\ OriginsOK(W)
  <2>1. StrictOrigins(W) = {}
    BY <1>3, <1>4 DEF StrictOrigins, Origins, OfKind, Ev
  <2>. QED
    BY <1>4, <2>1, SequenceIsLedger DEF OriginsOK
<1>6. Len(files.target) = 0 /\ Extends(files.target, W)
  BY <1>1, <1>4 DEF Extends
<1>7. Replace(W, "import")
  BY <1>2 DEF W
<1>8. LedgerOK(W) /\ Len(files.target) < Len(W)
  BY <1>4, <1>5, <1>6 DEF LedgerOK
<1>. QED
  BY <1>1, <1>4, <1>6, <1>7, <1>8, ReplaceKeeps

\* reconcile_effective_epoch.
LEMMA ReconcileEpochKeeps ==
    ASSUME IInv, ReconcileEpoch
    PROVE  Keeps
<1> DEFINE L == files.target
           sv == StateVersion(L) + 1
           ev == PackEvent(L)
           es == <<Entry(sv, ev)>>
           W == Prepare(L, es)
<1>1. /\ op.kind \in EpochKinds /\ Recovered /\ CoreJoined(L)
      /\ W # <<>> /\ Replace(W, "epoch") /\ UNCHANGED <<world, files, denied, spent>>
  BY DEF ReconcileEpoch
<1>2. op.pc = "recover" /\ Clean /\ op.reread = FALSE
  BY <1>1 DEF Recovered, IInv, TypeOK, OpTyped
<1>3. LedgerOK(L) /\ IsLedger(L)
  BY <1>2, CleanDurable DEF IInv, LedgerOK
<1>4. ev.k # "origin"
  BY DEF PackEvent
<1> HIDE DEF ev, sv
<1>5. Ordinary(es) /\ Len(es) = 1 /\ IsLedger(es)
  BY <1>4, OrdinaryEntry DEF Ordinary
<1> HIDE DEF es
<1>6. LedgerOK(W)
  BY <1>1, <1>3, <1>5, OrdinaryOK
<1>7. Extends(L, W) /\ Len(W) = Len(L) + Len(es) /\ Len(L) \in Nat
  BY <1>1, <1>3, <1>5, PrepareExtends, LedgerFacts DEF IsLedger
<1> HIDE DEF L, W
<1>8. Len(L) < Len(W)
  BY <1>5, <1>7
<1>. QED
  BY <1>1, <1>2, <1>6, <1>7, <1>8, ReplaceKeeps DEF L

-----------------------------------------------------------------------------
(***************************************************************************)
(* The other steps.                                                        *)
(***************************************************************************)
\* A request takes the lock.
LEMMA LockKeeps ==
    ASSUME IInv, NEW kind, Lock(kind)
    PROVE  Keeps
<1>1. /\ FilesTyped' /\ Layout' /\ Advance /\ ReplayTyped' /\ Lines' = Lines /\ Denied'
  BY FilesSame, ReplaySame DEF Lock, world, Denied
<1>2. PICK env \in IF kind \in {"broker", "historical"} THEN Envelopes ELSE {NoEnvelope} :
        op' = [Idle EXCEPT !.kind = kind, !.env = env,
                           !.pc = IF kind = "initialize" THEN "replay" ELSE "recover"]
  BY DEF Lock
<1>3. env.kind \in {"action", "intent", "none"}
  BY DEF Envelopes, NoEnvelope
<1>4. OpTyped' /\ Rests'
  BY <1>2, <1>3 DEF Idle, OpTyped, Rests, Stages
<1>. QED
  BY <1>1, <1>4, LinesStay, RestKeeps

\* ensure_initialized, the WAL.
LEMMA InitializeReplayKeeps ==
    ASSUME IInv, InitializeReplay
    PROVE  Keeps
<1>1. op.pc = "replay" /\ FilesTyped' /\ Layout' /\ Advance
  BY FilesSame DEF InitializeReplay
<1>2. OpTyped /\ op.reread = FALSE /\ denied' = 0
  BY <1>1, NotDenied DEF InitializeReplay, IInv, TypeOK, OpTyped, LooksAgain
<1>3. ReplayTyped' /\ Lines' = Lines
  <2>1. ReplayTyped
    BY DEF IInv, TypeOK
  <2>2. DOMAIN replay' = DOMAIN replay /\ replay'.log = replay.log
    BY <2>1 DEF InitializeReplay, ReplayTyped
  <2>. QED
    BY <2>1, <2>2 DEF ReplayTyped, Lines
<1>4. CASE op' = Idle
  BY <1>1, <1>2, <1>3, <1>4, EndKeeps DEF InitializeReplay
<1>5. ASSUME NEW pc \in {"manifest", "recover"}, op' = [op EXCEPT !.pc = pc] PROVE Keeps
  <2>1. OpTyped' /\ Rests' /\ Denied'
    BY <1>2, <1>5 DEF OpTyped, Rests, Stages, Denied
  <2>. QED
    BY <1>1, <1>3, <2>1, LinesStay, RestKeeps
<1>. QED
  BY <1>4, <1>5 DEF InitializeReplay

\* ensure_initialized, the manifest.
LEMMA WriteManifestKeeps ==
    ASSUME IInv, WriteManifest
    PROVE  Keeps
<1>1. op.pc = "manifest" /\ FilesTyped' /\ Layout' /\ Advance
  BY FilesSame DEF WriteManifest
<1>2. OpTyped /\ op.reread = FALSE /\ denied' = 0 /\ op' = [op EXCEPT !.pc = "recover"]
  BY <1>1, NotDenied DEF WriteManifest, IInv, TypeOK, OpTyped, LooksAgain, Goto
<1>3. ReplayTyped' /\ Lines' = Lines
  <2>1. ReplayTyped
    BY DEF IInv, TypeOK
  <2>2. DOMAIN replay' = DOMAIN replay /\ replay'.log = replay.log
    BY <2>1 DEF WriteManifest, ReplayTyped
  <2>. QED
    BY <2>1, <2>2 DEF ReplayTyped, Lines
<1>4. OpTyped' /\ Rests' /\ Denied'
  BY <1>2 DEF OpTyped, Rests, Stages, Denied
<1>. QED
  BY <1>1, <1>3, <1>4, LinesStay, RestKeeps

\* reconcile_wal_replacement under the lock.
LEMMA ReconcileKeeps ==
    ASSUME IInv, Reconcile
    PROVE  Keeps
<1>1. op.pc = "recover" /\ UNCHANGED <<world, op, denied>>
  BY DEF Reconcile
<1>2. FilesTyped' /\ Layout' /\ Durable' = Durable
  BY ReconcileFiles DEF Reconcile, IInv, TypeOK
<1>3. Advance /\ ReplayTyped' /\ Lines' = Lines
  BY <1>1, <1>2, ReplaySame DEF Advance, world
<1>4. OpTyped' /\ LooksAgain' /\ Denied'
  BY <1>1, <1>2 DEF IInv, TypeOK, OpTyped, LooksAgain, Denied
<1>5. Progress' /\ Pending' /\ Brokered'
  BY <1>1 DEF Progress, Pending, Brokered, Replacing
<1>. QED
  BY <1>2, <1>3, <1>4, <1>5, LinesStay, StepKeeps

\* A refusal, a read, a reconciliation that fails.
LEMMA EndingsKeep ==
    ASSUME IInv, ReconcileFails \/ Return
    PROVE  Keeps
<1>1. op.pc # "idle" /\ op' = Idle /\ UNCHANGED <<world, files, denied>>
  BY DEF ReconcileFails, Return
<1>2. FilesTyped' /\ Layout' /\ Advance /\ ReplayTyped' /\ Lines' = Lines
  BY <1>1, FilesSame, ReplaySame DEF world
<1>. QED
  BY <1>1, <1>2, EndKeeps

\* Looking again after a failed commit: what is denied is not there.
LEMMA RereadKeeps ==
    ASSUME IInv, Reread
    PROVE  Keeps
<1>1. op.pc = "recover" /\ Clean /\ op.reread /\ UNCHANGED <<world, files>>
  BY DEF Reread
<1>2. /\ FilesTyped' /\ Layout' /\ Advance /\ ReplayTyped' /\ Lines' = Lines /\ Durable' = Durable
      /\ Durable = files.target
  BY <1>1, FilesSame, ReplaySame, CleanDurable DEF world
<1>3. /\ op.stage = "epoch" \/ op.kind = "release"
      /\ Durable = op.want \/ Len(Durable) < Len(op.want)
  BY <1>1 DEF IInv, LooksAgain
<1>4. OpTyped /\ denied = 0
  BY <1>1, NotDenied DEF IInv, TypeOK
<1>5. CASE files.target = op.want
  <2>1. Committed /\ denied' = denied
    BY <1>5 DEF Reread
  <2>2. CASE op.stage # "final"
    <3>1. op' = [op EXCEPT !.pc = "recover", !.want = <<>>, !.stage = "start", !.reread = FALSE]
      BY <2>1, <2>2 DEF Committed
    <3>2. OpTyped' /\ Rests' /\ Denied'
      BY <1>4, <2>1, <3>1 DEF OpTyped, Stages, Rests, Denied
    <3>. QED
      BY <1>2, <3>2, LinesStay, RestKeeps
  <2>3. CASE op.stage = "final"
    <3>1. op' = Idle
      BY <1>3, <2>1, <2>3 DEF Committed
    <3>. QED
      BY <1>1, <1>2, <2>1, <3>1, EndKeeps
  <2>. QED
    BY <2>2, <2>3
<1>6. CASE files.target # op.want
  <2>1. op' = Idle /\ denied' = Len(op.want)
    BY <1>6 DEF Reread
  <2>2. OpTyped' /\ Rests'
    BY <2>1, IdleRests
  <2>3. Denied'
    <3>1. Len(Durable') < denied'
      BY <1>2, <1>3, <1>6, <2>1
    <3>. QED
      BY <2>1, <3>1 DEF Denied, Idle
  <2>. QED
    BY <1>2, <2>2, <2>3, LinesStay, RestKeeps
<1>. QED
  BY <1>5, <1>6

\* ensure_broker_replay_committed, for an action in the ledger.
LEMMA RepairReplayKeeps ==
    ASSUME IInv, RepairReplay
    PROVE  Keeps
<1> DEFINE L == files.target
<1>1. Ready({"broker", "historical"}) /\ op' = [op EXCEPT !.pc = "reserve"] /\ UNCHANGED <<world, files, denied>>
  BY DEF RepairReplay, Goto
<1>2. PICK n \in Applied(L, op.env) : Exact(Ev(L, n), op.env)
  BY DEF RepairReplay
<1>3. op.pc = "recover" /\ Clean /\ op.reread = FALSE /\ OpTyped /\ denied' = 0
  BY <1>1, ReadyFacts, NotDenied DEF Recovered, IInv, TypeOK, OpTyped
<1>4. /\ FilesTyped' /\ Layout' /\ Advance /\ Clean' /\ ReplayTyped' /\ Lines' = Lines
  BY <1>1, <1>3, FilesSame, ReplaySame DEF world
<1>5. OpTyped' /\ op'.pc = "reserve" /\ op'.env = op.env /\ op'.reread = FALSE
  BY <1>1, <1>3 DEF OpTyped, Stages
<1>6. n \in StrictOrigins(L) /\ Ev(L, n).i = op.env.i
  BY <1>2 DEF Applied, Exact, StrictOrigins
<1>7. InLedger(files.target)'
  BY <1>1, <1>5, <1>6 DEF InLedger
<1>8. Progress' /\ Pending' /\ LooksAgain' /\ Brokered' /\ Denied'
  BY <1>3, <1>4, <1>5, <1>7 DEF Progress, Pending, LooksAgain, Brokered, Denied, Replacing
<1>. QED
  BY <1>4, <1>5, <1>8, LinesStay, StepKeeps

\* The rename succeeds.
LEMMA SwapKeeps ==
    ASSUME IInv, Swap
    PROVE  Keeps
<1>1. op.pc = "swap" /\ op.pc \in Replacing /\ Committed /\ UNCHANGED <<world, denied>>
  BY DEF Swap, Replacing
<1>2. FilesTyped /\ op.want # <<>> /\ Clean
  BY <1>1, ReplacingOp DEF IInv, Progress
<1>3. FilesTyped' /\ Layout' /\ Clean' /\ files.target' = op.want /\ Durable' = op.want
  BY <1>2, SwapFiles DEF Swap
<1>4. Advance
  BY <1>1, <1>3 DEF Advance
<1>. QED
  BY <1>1, <1>3, <1>4, CommittedKeeps

\* The rename fails, or the sync after it.
LEMMA SwapFailsKeeps ==
    ASSUME IInv, SwapFails
    PROVE  Keeps
<1>1. op.pc = "swap" /\ op.pc \in Replacing /\ NotCommitted /\ UNCHANGED world
  BY DEF SwapFails, Replacing
<1>2. FilesTyped /\ op.want # <<>> /\ Clean
  BY <1>1, ReplacingOp DEF IInv, Progress
<1>3. FilesTyped' /\ Layout' /\ Advance
  <2>1. CASE files' = files
    BY <2>1, FilesSame
  <2>2. CASE files' = [files EXCEPT !.target = op.want]
    BY <1>1, <1>2, <2>2, SwapFiles DEF Advance
  <2>. QED
    BY <2>1, <2>2 DEF SwapFails
<1>. QED
  BY <1>1, <1>3, NotCommittedKeeps

\* atomic_replace_file elsewhere: the new ledger.
LEMMA WriteNextKeeps ==
    ASSUME IInv, WriteNext
    PROVE  Keeps
<1>1. /\ op.pc = "write" /\ op.pc \in Replacing /\ "mark" \in Replacing
      /\ op' = [op EXCEPT !.pc = "mark"] /\ UNCHANGED <<world, denied>>
  BY DEF WriteNext, Replacing, Goto
<1>2. OpTyped /\ FilesTyped /\ Clean
  BY <1>1, ReplacingOp DEF IInv, Progress
<1>3. op'.pc = "mark" /\ op'.want = op.want
  BY <1>1, <1>2 DEF OpTyped
<1>4. /\ FilesTyped' /\ Layout' /\ Durable' = Durable
      /\ files'.next = op.want /\ files'.prev = <<>> /\ files'.marker.st = "none"
  BY <1>2, NextFiles DEF WriteNext
<1>5. Progress' /\ Advance
  BY <1>3, <1>4 DEF Progress, Advance
<1>. QED
  BY <1>1, <1>4, <1>5, GoesOn

\* Then its marker.
LEMMA WriteMarkerKeeps ==
    ASSUME IInv, WriteMarker
    PROVE  Keeps
<1> DEFINE pc == IF files.target = <<>> THEN "install" ELSE "retire"
<1>1. /\ op.pc = "mark" /\ op.pc \in Replacing /\ pc \in Replacing
      /\ op' = [op EXCEPT !.pc = pc] /\ UNCHANGED <<world, denied>>
  BY DEF WriteMarker, Replacing, Goto
<1>2. /\ OpTyped /\ FilesTyped /\ op.want # <<>>
      /\ files.next = op.want /\ files.prev = <<>> /\ files.marker.st = "none"
  BY <1>1, ReplacingOp DEF IInv, Progress
<1>3. op'.pc = pc /\ op'.want = op.want
  BY <1>1, <1>2 DEF OpTyped
<1>4. /\ FilesTyped' /\ Layout' /\ Marked'
      /\ files'.next = op.want /\ files'.prev = <<>> /\ files'.target = files.target
      /\ files'.marker.prev = files.target
      /\ files.target = <<>> => SetAside(files.marker)' /\ Durable' = op.want
      /\ files.target # <<>> => Durable' = Durable
  BY <1>2, <1>3, MarkerFiles DEF WriteMarker
<1>5. Advance
  BY <1>1, <1>4 DEF Advance
<1>6. Progress'
  BY <1>3, <1>4 DEF Progress
<1> HIDE DEF pc
<1>. QED
  BY <1>1, <1>4, <1>5, <1>6, GoesOn

\* Then the target is set aside.
LEMMA RetireTargetKeeps ==
    ASSUME IInv, RetireTarget
    PROVE  Keeps
<1>1. /\ op.pc = "retire" /\ op.pc \in Replacing /\ "install" \in Replacing
      /\ op' = [op EXCEPT !.pc = "install"] /\ UNCHANGED <<world, denied>>
  BY DEF RetireTarget, Replacing, Goto
<1>2. /\ OpTyped /\ FilesTyped /\ op.want # <<>>
      /\ Marked /\ files.marker.prev = files.target /\ files.target # <<>>
      /\ files.next = op.want /\ files.prev = <<>>
  BY <1>1, ReplacingOp DEF IInv, Progress
<1>3. op'.pc = "install" /\ op'.want = op.want
  BY <1>1, <1>2 DEF OpTyped
<1>4. FilesTyped' /\ Layout' /\ Marked' /\ SetAside(files.marker)' /\ Durable' = Durable
  BY <1>2, <1>3, RetireFiles DEF RetireTarget
<1>5. Advance /\ Progress'
  BY <1>3, <1>4 DEF Advance, Progress
<1>. QED
  BY <1>1, <1>4, <1>5, GoesOn

\* Then the new ledger is installed.
LEMMA InstallNextKeeps ==
    ASSUME IInv, InstallNext
    PROVE  Keeps
<1>1. /\ op.pc = "install" /\ op.pc \in Replacing /\ "sweep" \in Replacing
      /\ op' = [op EXCEPT !.pc = "sweep"] /\ UNCHANGED <<world, denied>>
  BY DEF InstallNext, Replacing, Goto
<1>2. OpTyped /\ FilesTyped /\ op.want # <<>> /\ Marked /\ SetAside(files.marker)
  BY <1>1, ReplacingOp DEF IInv, Progress
<1>3. op'.pc = "sweep" /\ op'.want = op.want
  BY <1>1, <1>2 DEF OpTyped
<1>4. FilesTyped' /\ Layout' /\ Marked' /\ Replaced(files.marker)' /\ Durable' = op.want
  BY <1>2, <1>3, InstallFiles DEF InstallNext
<1>5. Advance /\ Progress'
  BY <1>1, <1>3, <1>4 DEF Advance, Progress
<1>. QED
  BY <1>1, <1>4, <1>5, GoesOn

\* Then the old one is removed.
LEMMA SweepPreviousKeeps ==
    ASSUME IInv, SweepPrevious
    PROVE  Keeps
<1>1. /\ op.pc = "sweep" /\ op.pc \in Replacing /\ "unmark" \in Replacing
      /\ op' = [op EXCEPT !.pc = "unmark"] /\ UNCHANGED <<world, denied>>
  BY DEF SweepPrevious, Replacing, Goto
<1>2. OpTyped /\ FilesTyped /\ op.want # <<>> /\ Marked /\ Replaced(files.marker)
  BY <1>1, ReplacingOp DEF IInv, Progress
<1>3. op'.pc = "unmark" /\ op'.want = op.want
  BY <1>1, <1>2 DEF OpTyped
<1>4. /\ FilesTyped' /\ Layout' /\ Marked' /\ Replaced(files.marker)' /\ files'.prev = <<>>
      /\ Durable' = Durable
  BY <1>2, <1>3, SweepFiles DEF SweepPrevious
<1>5. Advance /\ Progress'
  BY <1>3, <1>4 DEF Advance, Progress
<1>. QED
  BY <1>1, <1>4, <1>5, GoesOn

\* Then the marker.
LEMMA DropMarkerKeeps ==
    ASSUME IInv, DropMarker
    PROVE  Keeps
<1>1. op.pc = "unmark" /\ op.pc \in Replacing /\ Committed /\ UNCHANGED <<world, denied>>
  BY DEF DropMarker, Replacing
<1>2. FilesTyped /\ op.want # <<>> /\ Marked /\ Replaced(files.marker) /\ files.prev = <<>>
  BY <1>1, ReplacingOp DEF IInv, Progress
<1>3. FilesTyped' /\ Layout' /\ Clean' /\ files.target' = op.want /\ Durable' = Durable
  BY <1>2, DropFiles DEF DropMarker
<1>4. Advance
  BY <1>3 DEF Advance
<1>. QED
  BY <1>1, <1>3, <1>4, CommittedKeeps

\* A replacement that fails on a platform without an atomic rename.
LEMMA ReplaceFailsKeeps ==
    ASSUME IInv, ReplaceFails
    PROVE  Keeps
<1>1. op.pc \in Replacing /\ NotCommitted /\ UNCHANGED world
  BY DEF ReplaceFails, Replacing
<1>2. FilesTyped /\ Progress
  BY DEF IInv, TypeOK
<1>3. FilesTyped' /\ Layout' /\ Advance
  <2>1. CASE files' = files
    BY <2>1, FilesSame
  <2>2. CASE op.pc = "write" /\ files' = [files EXCEPT !.next = op.want]
    BY <1>2, <2>2, NextFiles DEF Progress, Advance
  <2>3. CASE op.pc \in {"mark", "retire"} /\ files' = [files EXCEPT !.next = <<>>, !.marker = NoMarker]
    <3>1. files.prev = <<>> /\ (files.target # <<>> \/ files.marker.st = "none")
      BY <1>2, <2>3 DEF Progress
    <3>. QED
      BY <1>2, <2>3, <3>1, UndoneFiles DEF Advance
  <2>. QED
    BY <2>1, <2>2, <2>3 DEF ReplaceFails
<1>. QED
  BY <1>1, <1>3, NotCommittedKeeps

\* The origin in hand is one of the ledger's.
LEMMA MyOriginIsStrict ==
    ASSUME NEW L, InLedger(L)
    PROVE  MyOrigin(L) \in StrictOrigins(L) /\ Ev(L, MyOrigin(L)).i = op.env.i
<1>1. \E i \in Origins(L) : Ev(L, i).i = op.env.i /\ Ev(L, i).strict
  BY DEF InLedger, StrictOrigins
<1>2. MyOrigin(L) \in Origins(L) /\ Ev(L, MyOrigin(L)).i = op.env.i /\ Ev(L, MyOrigin(L)).strict
  BY <1>1 DEF MyOrigin
<1>. QED
  BY <1>2 DEF StrictOrigins

\* A line of the replay WAL, about the origin in hand.
LEMMA AppendLineKeeps ==
    ASSUME IInv, NEW o \in {"reserve", "commit"}, NEW last \in BOOLEAN, op.pc \in {"reserve", "settle"},
           AppendLine(o, BindingOf(files.target, MyOrigin(files.target)), last),
           UNCHANGED <<files, denied>>
    PROVE  Keeps
<1> DEFINE L == files.target
           n == MyOrigin(L)
           l == Line(o, BindingOf(L, n))
<1>1. Clean /\ InLedger(L) /\ Durable = L /\ OpTyped /\ op.reread = FALSE /\ denied = 0
  <2>1. Clean /\ InLedger(L)
    BY DEF IInv, Progress, Brokered
  <2>2. op.pc # "idle" /\ op.pc # "recover"
    OBVIOUS
  <2>. QED
    BY <2>1, <2>2, CleanDurable, NotDenied DEF IInv, TypeOK, OpTyped, LooksAgain
<1>2. FilesTyped' /\ Layout' /\ Advance /\ Clean' /\ Durable' = Durable
  BY <1>1, FilesSame
<1>3. n \in StrictOrigins(Durable)
  BY <1>1, MyOriginIsStrict
<1>4. replay' = (IF l \in Lines THEN replay ELSE [replay EXCEPT !.log = Append(replay.log, l)])
  BY DEF AppendLine
<1>5. l \in {Line("reserve", BindingOf(Durable, n)), Line("commit", BindingOf(Durable, n))}
  BY <1>1
<1>6. op' = IF last THEN Idle ELSE [op EXCEPT !.pc = "settle"]
  BY DEF AppendLine
<1> HIDE DEF L, n, l
<1>7. ReplayTyped' /\ Lines' \subseteq Lines \cup {l}
  <2>1. ReplayTyped
    BY DEF IInv, TypeOK
  <2>2. CASE l \in Lines
    <3>1. replay' = replay
      BY <1>4, <2>2
    <3>. QED
      BY <3>1, ReplaySame
  <2>3. CASE l \notin Lines
    <3> DEFINE log == replay.log
    <3>1. IsLedger(log) /\ replay' = [replay EXCEPT !.log = Append(log, l)]
      BY <1>4, <2>1, <2>3 DEF ReplayTyped
    <3> HIDE DEF log
    <3>2. /\ IsLedger(Append(log, l)) /\ Len(Append(log, l)) = Len(log) + 1 /\ Len(log) \in Nat
          /\ \A i \in 1..Len(log) : Append(log, l)[i] = log[i]
          /\ Append(log, l)[Len(log) + 1] = l /\ DOMAIN log = 1..Len(log)
          /\ DOMAIN Append(log, l) = 1..Len(Append(log, l))
      BY <3>1, LedgerAppend, LedgerFacts
    <3>3. DOMAIN replay' = DOMAIN replay /\ replay'.log = Append(log, l)
      BY <2>1, <3>1 DEF ReplayTyped
    <3>4. ASSUME NEW i \in DOMAIN Append(log, l) PROVE Append(log, l)[i] \in Lines \cup {l}
      <4>1. i \in 1..Len(log) \/ i = Len(log) + 1
        BY <3>2
      <4>2. \A j \in 1..Len(log) : log[j] \in Lines
        BY <3>2 DEF Lines, log
      <4>. QED
        BY <3>2, <4>1, <4>2
    <3>5. ReplayTyped'
      BY <2>1, <3>2, <3>3 DEF ReplayTyped
    <3>. QED
      BY <3>3, <3>4, <3>5 DEF Lines
  <2>. QED
    BY <2>2, <2>3
<1>8. LinesKnown'
  <2> SUFFICES ASSUME NEW x \in Lines'
               PROVE  \E m \in StrictOrigins(Durable) :
                          x \in {Line("reserve", BindingOf(Durable, m)), Line("commit", BindingOf(Durable, m))}
    BY <1>2 DEF LinesKnown
  <2>1. CASE x \in Lines
    BY <2>1 DEF IInv, LinesKnown
  <2>2. CASE x = l
    BY <1>3, <1>5, <2>2
  <2>. QED
    BY <1>7, <2>1, <2>2
<1>9. CASE last
  <2>1. op' = Idle
    BY <1>6, <1>9
  <2>2. OpTyped' /\ Rests' /\ Denied'
    BY <1>1, <2>1, IdleRests DEF Denied
  <2>. QED
    BY <1>2, <1>7, <1>8, <2>2, RestKeeps
<1>10. CASE ~ last
  <2>1. op' = [op EXCEPT !.pc = "settle"]
    BY <1>6, <1>10
  <2>2. OpTyped' /\ op'.pc = "settle" /\ op'.env = op.env /\ op'.reread = FALSE
    BY <1>1, <2>1 DEF OpTyped, Stages
  <2>3. InLedger(files.target)'
    BY <1>1, <2>2 DEF InLedger, L
  <2>4. Progress' /\ Pending' /\ LooksAgain' /\ Brokered' /\ Denied'
    BY <1>1, <1>2, <2>2, <2>3 DEF Progress, Pending, LooksAgain, Brokered, Denied, Replacing
  <2>. QED
    BY <1>2, <1>7, <1>8, <2>2, <2>4, StepKeeps
<1>. QED
  BY <1>9, <1>10

\* commit_after_authoritative_ledger.
LEMMA ReplayWritesKeep ==
    ASSUME IInv, WriteReservation \/ WriteSettlement
    PROVE  Keeps
<1>1. CASE WriteReservation
  BY <1>1, AppendLineKeeps DEF WriteReservation
<1>2. CASE WriteSettlement
  BY <1>2, AppendLineKeeps DEF WriteSettlement
<1>. QED
  BY <1>1, <1>2

\* A line that was cut short is not a line.
LEMMA TornReplay ==
    ASSUME IInv, NEW torn, replay' = [replay EXCEPT !.torn = torn]
    PROVE  ReplayTyped' /\ Lines' = Lines
<1>1. ReplayTyped
  BY DEF IInv, TypeOK
<1>2. DOMAIN replay' = DOMAIN replay /\ replay'.log = replay.log
  BY <1>1 DEF ReplayTyped
<1>. QED
  BY <1>1, <1>2 DEF ReplayTyped, Lines

\* It fails and may leave half a line.
LEMMA ReplayWriteFailsKeeps ==
    ASSUME IInv, ReplayWriteFails
    PROVE  Keeps
<1>1. op.pc # "idle" /\ op' = Idle /\ denied' = denied /\ FilesTyped' /\ Layout' /\ Advance
  BY FilesSame DEF ReplayWriteFails
<1>2. PICK torn \in BOOLEAN : replay' = [replay EXCEPT !.torn = torn]
  BY DEF ReplayWriteFails
<1>3. ReplayTyped' /\ Lines' = Lines
  BY <1>2, TornReplay
<1>. QED
  BY <1>1, <1>3, EndKeeps

\* The lifecycle moves only where no handler relies on it.
LEMMA LifecycleKeeps ==
    ASSUME IInv, UNCHANGED <<files, replay, op, denied>>, domain' = domain \/ DomainFree
    PROVE  Keeps
<1>1. FilesTyped' /\ Layout' /\ Advance /\ Durable' = Durable /\ Clean' = Clean
  BY FilesSame
<1>2. ReplayTyped' /\ LinesKnown'
  BY <1>1, ReplaySame, LinesStay
<1>3. OpTyped' /\ LooksAgain' /\ Denied'
  BY <1>1 DEF IInv, TypeOK, OpTyped, LooksAgain, Denied
<1>4. Progress'
  BY <1>1 DEF IInv, Progress, Marked, SetAside, Replaced
<1>5. Brokered'
  BY DEF IInv, Brokered, InLedger
<1>6. Pending'
  <2>1. CASE domain' = domain
    <3>1. CoreJoined(Durable)' <=> CoreJoined(Durable)
      BY <1>1, <2>1 DEF CoreJoined
    <3>. QED
      BY <1>1, <3>1 DEF IInv, Pending
  <2>2. CASE DomainFree
    <3>1. op.pc \in Replacing => op.kind \in NoDomainLock
      BY <2>2 DEF DomainFree, Replacing
    <3>. QED
      BY <1>1, <3>1 DEF IInv, Pending
  <2>. QED
    BY <2>1, <2>2
<1>. QED
  BY <1>1, <1>2, <1>3, <1>4, <1>5, <1>6, StepKeeps

\* A process dies, in the middle of a write or not.
LEMMA CrashKeeps ==
    ASSUME IInv, Crash
    PROVE  Keeps
<1>1. op.pc # "idle" /\ op' = Idle /\ denied' = denied
  BY DEF Crash
<1>2. FilesTyped /\ Progress
  BY DEF IInv, TypeOK
<1>3. FilesTyped' /\ Layout' /\ Advance
  <2>1. CASE files' = files
    BY <2>1, FilesSame
  <2>2. CASE op.pc = "mark" /\ files' = [files EXCEPT !.marker.st = "torn"]
    BY <1>2, <2>2, TornFiles DEF Progress, Advance
  <2>3. CASE op.pc = "swap" /\ files' = [files EXCEPT !.target = op.want]
    <3>1. op.pc \in Replacing /\ Clean
      BY <1>2, <2>3 DEF Replacing, Progress
    <3>2. op.want # <<>>
      BY <3>1, ReplacingOp
    <3>3. FilesTyped' /\ Layout' /\ Durable' = op.want
      BY <1>2, <2>3, <3>1, <3>2, SwapFiles
    <3>. QED
      BY <3>1, <3>3 DEF Advance
  <2>. QED
    BY <2>1, <2>2, <2>3 DEF Crash
<1>4. ReplayTyped' /\ Lines' = Lines
  <2>1. CASE replay' = replay
    BY <2>1, ReplaySame
  <2>2. CASE replay' = [replay EXCEPT !.torn = TRUE]
    BY <2>2, TornReplay
  <2>. QED
    BY <2>1, <2>2 DEF Crash
<1>. QED
  BY <1>1, <1>3, <1>4, EndKeeps

-----------------------------------------------------------------------------
(***************************************************************************)
(* The theorems.                                                           *)
(***************************************************************************)
\* The invariant holds at first.
LEMMA InitOK == Init => IInv
<1> SUFFICES ASSUME Init PROVE IInv
  OBVIOUS
<1>1. PICK L : /\ files = [target |-> L, next |-> <<>>, prev |-> <<>>, marker |-> NoMarker]
               /\ IsLedger(L) /\ ~ StrictSeen(L)
  BY StartsAssumption DEF Init, IsLedger
<1>2. /\ DOMAIN files = {"target", "next", "prev", "marker"} /\ files.target = L /\ files.next = <<>>
      /\ files.prev = <<>> /\ files.marker = NoMarker
  BY <1>1
<1>3. DOMAIN NoMarker = {"st", "prev", "next"} /\ NoMarker.st = "none"
  BY DEF NoMarker
<1>4. FilesTyped /\ Layout /\ Durable = L
  BY <1>2, <1>3 DEF FilesTyped, Layout, Durable
<1>5. op = Idle /\ denied = 0 /\ replay.log = <<>> /\ DOMAIN replay = {"st", "log", "torn"}
  BY DEF Init
<1>6. OpTyped /\ op.pc = "idle" /\ op.reread = FALSE
  BY <1>5 DEF OpTyped, Idle, Stages, NoEnvelope
<1>7. ReplayTyped /\ LinesKnown
  <2>1. IsLedger(<<>>) /\ DOMAIN replay.log = {}
    <3>1. IsLedger(<<>>)
      <4>1. <<>> \in Seq({})
        OBVIOUS
      <4>. QED
        BY <4>1, SequenceIsLedger
    <3>2. Len(<<>>) = 0 /\ 1..0 = {}
      OBVIOUS
    <3>3. DOMAIN <<>> = {}
      BY <3>1, <3>2, LedgerFacts
    <3>. QED
      BY <1>5, <3>1, <3>3
  <2>. QED
    BY <1>5, <2>1 DEF ReplayTyped, LinesKnown, Lines
<1>8. LedgerOK(Durable)
  <2>1. StrictOrigins(L) = {}
    BY <1>1 DEF StrictSeen, StrictOrigins, Origins
  <2>. QED
    BY <1>1, <1>4, <2>1 DEF LedgerOK, OriginsOK
<1>9. Progress /\ Pending /\ LooksAgain /\ Brokered /\ Denied
  BY <1>5, <1>6 DEF Progress, Pending, LooksAgain, Brokered, Denied, Replacing
<1>. QED
  BY <1>4, <1>6, <1>7, <1>8, <1>9 DEF IInv, TypeOK

\* Every step keeps it, and only advances the durable ledger.
LEMMA NextOK ==
    ASSUME IInv, [Next]_vars
    PROVE  Keeps
<1>1. ASSUME NEW kind, Lock(kind) PROVE Keeps
  BY <1>1, LockKeeps
<1>2. CASE InitializeReplay
  BY <1>2, InitializeReplayKeeps
<1>3. CASE WriteManifest
  BY <1>3, WriteManifestKeeps
<1>4. CASE Reconcile
  BY <1>4, ReconcileKeeps
<1>5. CASE ReconcileFails \/ Return
  BY <1>5, EndingsKeep
<1>6. CASE Import
  BY <1>6, ImportKeeps
<1>7. CASE ReconcileEpoch
  BY <1>7, ReconcileEpochKeeps
<1>8. CASE Reread
  BY <1>8, RereadKeeps
<1>9. CASE ApplyBrokerAction
  BY <1>9, ApplyBrokerActionKeeps
<1>10. CASE RepairReplay
  BY <1>10, RepairReplayKeeps
<1>11. CASE AcceptObjective
  BY <1>11, AcceptObjectiveKeeps
<1>12. CASE ObserveEvidence
  BY <1>12, ObserveEvidenceKeeps
<1>13. CASE BeginFocus
  BY <1>13, BeginFocusKeeps
<1>14. CASE ContinueFocus
  BY <1>14, ContinueFocusKeeps
<1>15. CASE RecordApplicability
  BY <1>15, RecordApplicabilityKeeps
<1>16. CASE RecordCapability
  BY <1>16, RecordAuthorisedKeeps DEF RecordCapability
<1>17. CASE RecordEvidence
  BY <1>17, RecordAuthorisedKeeps DEF RecordEvidence
<1>18. CASE RecordDecision
  BY <1>18, RecordAuthorisedKeeps DEF RecordDecision
<1>19. CASE RecordWaiver
  BY <1>19, RecordAuthorisedKeeps DEF RecordWaiver
<1>20. CASE RecordSignal
  BY <1>20, RecordSignalKeeps
<1>21. CASE CompleteWorkflow
  BY <1>21, CompleteWorkflowKeeps
<1>22. CASE ApplyEpisode
  BY <1>22, ApplyEpisodeKeeps
<1>23. CASE ApplyCoordination
  BY <1>23, ApplyCoordinationKeeps
<1>24. CASE AdoptLegacySolo
  BY <1>24, AdoptLegacySoloKeeps
<1>25. CASE UpgradeRelease
  BY <1>25, UpgradeReleaseKeeps
<1>26. CASE CompleteRebase
  BY <1>26, CompleteRebaseKeeps
<1>27. CASE Swap
  BY <1>27, SwapKeeps
<1>28. CASE SwapFails
  BY <1>28, SwapFailsKeeps
<1>29. CASE WriteNext
  BY <1>29, WriteNextKeeps
<1>30. CASE WriteMarker
  BY <1>30, WriteMarkerKeeps
<1>31. CASE RetireTarget
  BY <1>31, RetireTargetKeeps
<1>32. CASE InstallNext
  BY <1>32, InstallNextKeeps
<1>33. CASE SweepPrevious
  BY <1>33, SweepPreviousKeeps
<1>34. CASE DropMarker
  BY <1>34, DropMarkerKeeps
<1>35. CASE ReplaceFails
  BY <1>35, ReplaceFailsKeeps
<1>36. CASE WriteReservation \/ WriteSettlement
  BY <1>36, ReplayWritesKeep
<1>37. CASE ReplayWriteFails
  BY <1>37, ReplayWriteFailsKeeps
<1>38. CASE InstallGeneration \/ ChangeGeneration
  BY <1>38, LifecycleKeeps DEF InstallGeneration, ChangeGeneration
<1>39. CASE DerivePlan \/ PersistPlan
  BY <1>39, LifecycleKeeps DEF DerivePlan, PersistPlan
<1>40. CASE CommitLifecycle
  BY <1>40, LifecycleKeeps DEF CommitLifecycle
<1>41. CASE Crash
  BY <1>41, CrashKeeps
<1>42. CASE UNCHANGED vars
  BY <1>42, LifecycleKeeps DEF vars
<1>. QED
  BY <1>1, <1>2, <1>3, <1>4, <1>5, <1>6, <1>7, <1>8, <1>9, <1>10, <1>11, <1>12, <1>13, <1>14,
     <1>15, <1>16, <1>17, <1>18, <1>19, <1>20, <1>21, <1>22, <1>23, <1>24, <1>25, <1>26, <1>27,
     <1>28, <1>29, <1>30, <1>31, <1>32, <1>33, <1>34, <1>35, <1>36, <1>37, <1>38, <1>39, <1>40,
     <1>41, <1>42 DEF Next

\* The inductive invariant of the ledger's disk protocol and of the broker path.
LEMMA Invariance == Spec => []IInv
<1>1. Init => IInv
  BY InitOK
<1>2. IInv /\ [Next]_vars => IInv'
  BY NextOK DEF Keeps
<1>. QED
  BY <1>1, <1>2, PTL DEF Spec

\* Type correctness of the files, the request and the replay WAL.
THEOREM TypeCorrect == Spec => []TypeOK
<1>1. IInv => TypeOK
  BY DEF IInv
<1>. QED
  BY <1>1, Invariance, PTL

\* No step takes a record out of the ledger or changes one.
\* (replace_wal_atomically, reconcile_replacement)
THEOREM RecordsAreNeverLost == Spec => LedgerOnlyExtends
<1>1. IInv /\ [Next]_vars => [IsPrefix(Durable, Durable')]_vars
  <2> SUFFICES ASSUME IInv, [Next]_vars PROVE IsPrefix(Durable, Durable')
    OBVIOUS
  <2>1. Advance
    BY NextOK DEF Keeps
  <2>2. IsLedger(Durable) /\ IsLedger(Durable') /\ Extends(Durable, Durable')
    BY <2>1, AdvanceExtends DEF IInv, LedgerOK
  <2>. QED
    BY <2>2, PrefixDef
<1>. QED
  BY <1>1, Invariance, PTL DEF Spec, LedgerOnlyExtends

\* A native interaction is applied at most once. (matching_broker_origin_retry)
THEOREM ActionsApplyOnce == Spec => []NoActionTwice
<1>1. IInv => NoActionTwice
  BY DEF IInv, LedgerOK, OriginsOK, NoActionTwice, StrictOrigins
<1>. QED
  BY <1>1, Invariance, PTL

\* A broker action stands on the head its packet was issued for.
\* (apply_verified_broker_action_inner)
THEOREM ActionsStandOnTheirHead == Spec => []DecidedOnHead
<1>1. IInv => DecidedOnHead
  BY DEF IInv, LedgerOK, OriginsOK, DecidedOnHead, StrictOrigins
<1>. QED
  BY <1>1, Invariance, PTL

\* The replay WAL still takes the lines of every action in the ledger.
\* (ensure_broker_replay_committed)
THEOREM ReplayCanBeRepaired == Spec => []RepairIsPossible
<1>1. IInv => RepairIsPossible
  <2> SUFFICES ASSUME IInv, replay.st = "ready", ~ replay.torn, Len(replay.log) + 2 <= MaxReplayRecords,
                      NEW n \in StrictOrigins(Durable)
               PROVE  ReplayAccepts(BindingOf(Durable, n))
    BY DEF RepairIsPossible, StrictOrigins, BindingOf
  <2> DEFINE b == BindingOf(Durable, n)
  <2>1. Len(replay.log) + 1 <= MaxReplayRecords
    <3>1. Len(replay.log) \in Nat /\ MaxReplayRecords \in Nat
      BY LedgerFacts, GovernanceLedgerAssumption DEF IInv, TypeOK, ReplayTyped
    <3>. QED
      BY <3>1
  <2>2. ASSUME NEW l \in Lines, l.b.packet = b.packet \/ l.b.i = b.i
        PROVE  l \in {Line("reserve", b), Line("commit", b)}
    <3>1. PICK m \in StrictOrigins(Durable) :
            l \in {Line("reserve", BindingOf(Durable, m)), Line("commit", BindingOf(Durable, m))}
      BY DEF IInv, LinesKnown
    <3>2. l.b = BindingOf(Durable, m)
      BY <3>1 DEF Line
    <3>3. Ev(Durable, m).packet = Ev(Durable, n).packet \/ Ev(Durable, m).i = Ev(Durable, n).i
      BY <2>2, <3>2 DEF BindingOf
    <3>4. m = n
      BY <3>3 DEF IInv, LedgerOK, OriginsOK
    <3>. QED
      BY <3>1, <3>4
  <2> HIDE DEF b
  <2>3. Line("commit", b) \notin Lines /\ Line("reserve", b) \notin Lines =>
          \A l \in Lines : l.b.packet # b.packet /\ l.b.i # b.i
    BY <2>2
  <2>4. ReplayAccepts(b)
    BY <2>1, <2>3 DEF ReplayAccepts
  <2>. QED
    BY <2>4 DEF b
<1>. QED
  BY <1>1, Invariance, PTL

\* What was reported as not committed is not in the ledger.
\* (reconcile_effective_epoch, release_upgrade)
THEOREM FailuresAreHonest == Spec => []FailureIsHonest
<1>1. IInv => FailureIsHonest
  BY DEF IInv, Denied, FailureIsHonest
<1>. QED
  BY <1>1, Invariance, PTL

\* Nothing but the joined event is committed while lifecycle and ledger disagree
\* about the core, except the first record of a new project, which is written before
\* the generation is admitted. (admit_effective, complete_release_rebase, import)
THEOREM MixedPairsCommitNothing == Spec => MixedPairNotAdmitted
<1> DEFINE A == Len(Durable') > Len(Durable) /\ domain.gen # 0 /\ domain.core # Core(Durable) =>
                    Durable = <<>> \/ op.kind \in NoDomainLock \cup {"rebase"}
<1>1. IInv /\ [Next]_vars => [A]_vars
  <2> SUFFICES ASSUME IInv, [Next]_vars, Len(Durable') > Len(Durable),
                      domain.gen # 0, domain.core # Core(Durable)
               PROVE  Durable = <<>> \/ op.kind \in NoDomainLock \cup {"rebase"}
    OBVIOUS
  <2>1. Len(Durable) \in Nat
    BY LedgerFacts DEF IInv, LedgerOK
  <2>2. Durable' # Durable
    BY <2>1
  <2>3. op.pc \in Replacing /\ Durable' = op.want
    BY <2>2, NextOK DEF Keeps, Advance
  <2>4. ~ CoreJoined(Durable)
    BY DEF CoreJoined
  <2>. QED
    BY <2>2, <2>3, <2>4 DEF IInv, Pending
<1>. QED
  BY <1>1, Invariance, PTL DEF Spec, MixedPairNotAdmitted

-----------------------------------------------------------------------------
(***************************************************************************)
(* The projection and the fold.                                            *)
(***************************************************************************)
\* Every feature that a ledger uses.
Features(L) == UNION {EventFeatures(Ev(L, i)) : i \in DOMAIN L}

\* What a focus event uses.
FocusFlags == {"focus", "bindings", "quick", "collab"}
HasFlag(ev, f) ==
    /\ ev.k = "focus"
    /\ \/ f = "focus"
       \/ f = "bindings" /\ ev.refs # {}
       \/ f = "quick" /\ ev.quick # 0
       \/ f = "collab" /\ ev.collab

\* The features that are remembered as they are.
PlainFeatures == {"prior", "adopt", "evidence", "revision", "objective", "continuity", "episode",
                  "strict", "native", "rebase", "intent"}

\* The identity part of the state is that of the projection.
SameIdentity(L, st) ==
    /\ st.core = Core(L)
    /\ st.released <=> Released(L)
    /\ st.eff \in Nat /\ st.eff = Effective(L)
    /\ st.eff # 0 <=> "effective" \in Features(L)

\* So is what decides about the cooperative events.
SameReadiness(L, st) ==
    /\ L # <<>> => st.profile = ReadinessProfile(L)
    /\ L # <<>> => (st.legacy <=> Ev(L, 1).profile = "none")
    /\ st.adopted <=> OfKind(L, {"adopt"}) # {}
    /\ st.legacy /\ OfKind(L, {"imported", "release"}) = DOMAIN L => st.supported

\* So are the features, but for what a focus or an adoption brings with it.
SameFeatures(L, st) ==
    /\ "effective" \notin st.seen
    /\ \A f \in PlainFeatures : f \in st.seen <=> f \in Features(L)
    /\ "profile" \in Features(L) => "profile" \in st.seen
    /\ "profile" \in st.seen => "profile" \in Features(L) \/ "adopt" \in Features(L)
    /\ \A f \in FocusFlags : f \in st.seen <=> \E i \in DOMAIN L : HasFlag(Ev(L, i), f)

\* So is the work: objective, focus, phase, episode and request.
SameWork(L, st) ==
    /\ st.objective = LatestObjective(L)
    /\ st.rev = IF LatestObjective(L) = 0 THEN 0 ELSE Ev(L, LatestObjective(L)).rev
    /\ st.focus = LatestFocus(L)
    /\ L # <<>> => st.phase = Phase(L)
    /\ st.episode = Episode(L)
    /\ st.request = Request(L)

\* So are the offers.
SameOffers(L, st) ==
    /\ \A p \in st.offers : p[2] # "none"
    /\ \A o : o # "none" => RecoveredOffer(st, o) = OriginalOffer(L, o)

\* All of it.
Projects(L, st) ==
    /\ DOMAIN st = DOMAIN Unread
    /\ L = <<>> => st = Unread
    /\ L # <<>> => Ev(L, 1).k = "imported"
    /\ st.sv \in Nat /\ (L # <<>> => st.sv = StateVersion(L))
    /\ SameIdentity(L, st)
    /\ SameReadiness(L, st)
    /\ SameFeatures(L, st)
    /\ SameWork(L, st)
    /\ SameOffers(L, st)


-----------------------------------------------------------------------------
\* A set of natural numbers has a least one.
LEMMA MinExists ==
    ASSUME NEW X \in SUBSET Nat, X # {}
    PROVE  Min(X) \in X /\ \A y \in X : Min(X) <= y
<1> DEFINE R == {ss \in Nat \X Nat : ss[1] < ss[2]}
<1>1. IsWellFoundedOn(R, Nat)
  BY NatLessThanWellFounded DEF OpToRel
<1>2. PICK x \in X : \A y \in X : ~ (<<y, x>> \in R)
  <2> HIDE DEF R
  <2>. QED
    BY <1>1, WFMin
<1>3. x \in Nat /\ \A y \in X : y \in Nat
  OBVIOUS
<1>4. \A y \in X : ~ (y < x)
  BY <1>2, <1>3
<1>5. \A y \in X : x <= y
  BY <1>3, <1>4
<1>. QED
  BY <1>5 DEF Min

\* A bounded one has a greatest.
LEMMA MaxExists ==
    ASSUME NEW m \in Nat, NEW X \in SUBSET (0..m), X # {}
    PROVE  Max(X) \in X /\ \A y \in X : Max(X) >= y
<1> DEFINE Y == {m - x : x \in X}
<1>1. Y \in SUBSET Nat /\ Y # {}
  <2>1. \A x \in X : x \in 0..m
    OBVIOUS
  <2>2. \A x \in X : m - x \in Nat
    BY <2>1
  <2>. QED
    BY <2>2
<1>2. Min(Y) \in Y /\ \A y \in Y : Min(Y) <= y
  <2> HIDE DEF Y
  <2>. QED
    BY <1>1, MinExists
<1>3. PICK x \in X : Min(Y) = m - x
  BY <1>2
<1>4. \A y \in X : m - y \in Y
  OBVIOUS
<1> HIDE DEF Y
<1>5. \A y \in X : x >= y
  BY <1>2, <1>3, <1>4
<1>. QED
  BY <1>5 DEF Max

\* The greatest is the one that bounds the others.
LEMMA MaxTop ==
    ASSUME NEW m \in Nat, NEW X \in SUBSET (0..m), m \in X
    PROVE  Max(X) = m
<1>1. Max(X) \in X /\ \A y \in X : Max(X) >= y
  BY MaxExists
<1>2. Max(X) \in 0..m /\ Max(X) >= m
  BY <1>1
<1>. QED
  BY <1>2

-----------------------------------------------------------------------------
(***************************************************************************)
(* The projection of a ledger with one record more.                        *)
(***************************************************************************)
\* A record r at the end of L.
LEMMA AppendEv ==
    ASSUME NEW L, IsLedger(L), NEW r
    PROVE  /\ Len(L) \in Nat /\ DOMAIN L = 1..Len(L)
           /\ DOMAIN Append(L, r) = 1..(Len(L) + 1) /\ DOMAIN Append(L, r) = DOMAIN L \cup {Len(L) + 1}
           /\ Append(L, r) # <<>>
           /\ \A i \in DOMAIN L : Append(L, r)[i] = L[i] /\ Ev(Append(L, r), i) = Ev(L, i)
           /\ Ev(Append(L, r), Len(L) + 1) = r.ev
<1> DEFINE W == Append(L, r)
<1>1. /\ Len(L) \in Nat /\ DOMAIN L = 1..Len(L)
      /\ IsLedger(W) /\ Len(W) = Len(L) + 1
      /\ \A i \in 1..Len(L) : W[i] = L[i]
      /\ W[Len(L) + 1] = r
  BY LedgerFacts, LedgerAppend
<1> HIDE DEF W
<1>2. DOMAIN W = 1..(Len(L) + 1) /\ W # <<>> /\ 1..(Len(L) + 1) = 1..Len(L) \cup {Len(L) + 1}
  BY <1>1, LedgerFacts
<1>. QED
  BY <1>1, <1>2 DEF Ev, W

\* The records of some kinds.
LEMMA AppendOfKind ==
    ASSUME NEW L, IsLedger(L), NEW r, NEW kinds
    PROVE  /\ OfKind(L, kinds) \subseteq 1..Len(L)
           /\ r.ev.k \in kinds => OfKind(Append(L, r), kinds) = OfKind(L, kinds) \cup {Len(L) + 1}
           /\ r.ev.k \notin kinds => OfKind(Append(L, r), kinds) = OfKind(L, kinds)
  BY AppendEv DEF OfKind

\* The last of a set of positions, or 0.
LEMMA LastIn ==
    ASSUME NEW m \in Nat, NEW X \in SUBSET (1..m)
    PROVE  /\ Max({0} \cup X) \in {0} \cup X
           /\ Max({0} \cup (X \cup {m + 1})) = m + 1
<1>1. {0} \cup X \in SUBSET (0..m) /\ {0} \cup X # {}
  OBVIOUS
<1>2. {0} \cup (X \cup {m + 1}) \in SUBSET (0..(m + 1)) /\ m + 1 \in Nat
  OBVIOUS
<1>3. Max({0} \cup X) \in {0} \cup X
  BY <1>1, MaxExists
<1>4. Max({0} \cup (X \cup {m + 1})) = m + 1
  BY <1>2, MaxTop
<1>. QED
  BY <1>3, <1>4

\* The last record of some kinds.
LEMMA AppendLastOf ==
    ASSUME NEW L, IsLedger(L), NEW r, NEW kinds
    PROVE  /\ LastOf(L, kinds) \in 0..Len(L)
           /\ LastOf(L, kinds) # 0 => LastOf(L, kinds) \in DOMAIN L
           /\ r.ev.k \in kinds => LastOf(Append(L, r), kinds) = Len(L) + 1
           /\ r.ev.k \notin kinds => LastOf(Append(L, r), kinds) = LastOf(L, kinds)
<1>1. /\ OfKind(L, kinds) \subseteq 1..Len(L) /\ Len(L) \in Nat /\ DOMAIN L = 1..Len(L)
      /\ r.ev.k \in kinds => OfKind(Append(L, r), kinds) = OfKind(L, kinds) \cup {Len(L) + 1}
      /\ r.ev.k \notin kinds => OfKind(Append(L, r), kinds) = OfKind(L, kinds)
  BY AppendOfKind, LedgerFacts
<1> DEFINE X == OfKind(L, kinds)
<1> HIDE DEF X
<1>2. Max({0} \cup X) \in {0} \cup X /\ Max({0} \cup (X \cup {Len(L) + 1})) = Len(L) + 1
  BY <1>1, LastIn DEF X
<1>. QED
  BY <1>1, <1>2 DEF LastOf, X

\* The core release.
LEMMA AppendCore ==
    ASSUME NEW L, IsLedger(L), NEW r
    PROVE  Core(Append(L, r)) = IF r.ev.k \in {"release", "rebase"} THEN r.ev.to ELSE Core(L)
<1> DEFINE W == Append(L, r)
           K == {"release", "rebase"}
<1>1. /\ LastOf(L, K) \in 0..Len(L) /\ Len(L) \in Nat
      /\ LastOf(L, K) # 0 => LastOf(L, K) \in DOMAIN L
      /\ r.ev.k \in K => LastOf(W, K) = Len(L) + 1
      /\ r.ev.k \notin K => LastOf(W, K) = LastOf(L, K)
      /\ \A i \in DOMAIN L : Ev(W, i) = Ev(L, i)
      /\ Ev(W, Len(L) + 1) = r.ev
  BY AppendLastOf, AppendEv
<1> HIDE DEF W, K
<1>2. Core(W) = IF LastOf(W, K) = 0 THEN 0 ELSE Ev(W, LastOf(W, K)).to
  BY DEF Core, K
<1>3. Core(L) = IF LastOf(L, K) = 0 THEN 0 ELSE Ev(L, LastOf(L, K)).to
  BY DEF Core, K
<1>4. Core(W) = IF r.ev.k \in K THEN r.ev.to ELSE Core(L)
  BY <1>1, <1>2, <1>3
<1>. QED
  BY <1>4 DEF W, K

\* The generation.
LEMMA AppendEffective ==
    ASSUME NEW L, IsLedger(L), NEW r
    PROVE  Effective(Append(L, r)) = IF r.ev.k \in {"pack", "rebase"} THEN r.ev.gen ELSE Effective(L)
<1> DEFINE W == Append(L, r)
           K == {"pack", "rebase"}
<1>1. /\ LastOf(L, K) \in 0..Len(L) /\ Len(L) \in Nat
      /\ LastOf(L, K) # 0 => LastOf(L, K) \in DOMAIN L
      /\ r.ev.k \in K => LastOf(W, K) = Len(L) + 1
      /\ r.ev.k \notin K => LastOf(W, K) = LastOf(L, K)
      /\ \A i \in DOMAIN L : Ev(W, i) = Ev(L, i)
      /\ Ev(W, Len(L) + 1) = r.ev
  BY AppendLastOf, AppendEv
<1> HIDE DEF W, K
<1>2. Effective(W) = IF LastOf(W, K) = 0 THEN 0 ELSE Ev(W, LastOf(W, K)).gen
  BY DEF Effective, K
<1>3. Effective(L) = IF LastOf(L, K) = 0 THEN 0 ELSE Ev(L, LastOf(L, K)).gen
  BY DEF Effective, K
<1>4. Effective(W) = IF r.ev.k \in K THEN r.ev.gen ELSE Effective(L)
  BY <1>1, <1>2, <1>3
<1>. QED
  BY <1>4 DEF W, K

\* The episode.
LEMMA AppendEpisode ==
    ASSUME NEW L, IsLedger(L), NEW r
    PROVE  Episode(Append(L, r)) = IF r.ev.k = "episode" THEN r.ev.gen ELSE Episode(L)
<1> DEFINE W == Append(L, r)
           K == {"episode"}
<1>1. /\ LastOf(L, K) \in 0..Len(L) /\ Len(L) \in Nat
      /\ LastOf(L, K) # 0 => LastOf(L, K) \in DOMAIN L
      /\ r.ev.k \in K => LastOf(W, K) = Len(L) + 1
      /\ r.ev.k \notin K => LastOf(W, K) = LastOf(L, K)
      /\ \A i \in DOMAIN L : Ev(W, i) = Ev(L, i)
      /\ Ev(W, Len(L) + 1) = r.ev
  BY AppendLastOf, AppendEv
<1> HIDE DEF W, K
<1>2. Episode(W) = IF LastOf(W, K) = 0 THEN 0 ELSE Ev(W, LastOf(W, K)).gen
  BY DEF Episode, K
<1>3. Episode(L) = IF LastOf(L, K) = 0 THEN 0 ELSE Ev(L, LastOf(L, K)).gen
  BY DEF Episode, K
<1>4. Episode(W) = IF r.ev.k \in K THEN r.ev.gen ELSE Episode(L)
  BY <1>1, <1>2, <1>3
<1>. QED
  BY <1>4 DEF W, K

\* The objective and its revision.
LEMMA AppendObjective ==
    ASSUME NEW L, IsLedger(L), NEW r
    PROVE  LET W == Append(L, r)
               rev(M) == IF LatestObjective(M) = 0 THEN 0 ELSE Ev(M, LatestObjective(M)).rev
           IN  /\ LatestObjective(W) = IF r.ev.k = "objective" THEN Len(L) + 1 ELSE LatestObjective(L)
               /\ rev(W) = IF r.ev.k = "objective" THEN r.ev.rev ELSE rev(L)
<1> DEFINE W == Append(L, r)
           rev(M) == IF LatestObjective(M) = 0 THEN 0 ELSE Ev(M, LatestObjective(M)).rev
<1>1. /\ LatestObjective(L) \in 0..Len(L) /\ Len(L) \in Nat
      /\ LatestObjective(L) # 0 => LatestObjective(L) \in DOMAIN L
      /\ r.ev.k \in {"objective"} => LatestObjective(W) = Len(L) + 1
      /\ r.ev.k \notin {"objective"} => LatestObjective(W) = LatestObjective(L)
      /\ \A i \in DOMAIN L : Ev(W, i) = Ev(L, i)
      /\ Ev(W, Len(L) + 1) = r.ev
  BY AppendLastOf, AppendEv DEF LatestObjective
<1> HIDE DEF W
<1>2. LatestObjective(W) = IF r.ev.k = "objective" THEN Len(L) + 1 ELSE LatestObjective(L)
  BY <1>1
<1>3. rev(W) = IF r.ev.k = "objective" THEN r.ev.rev ELSE rev(L)
  BY <1>1
<1>. QED
  BY <1>2, <1>3 DEF W

\* The focus.
LEMMA AppendFocus ==
    ASSUME NEW L, IsLedger(L), NEW r
    PROVE  /\ LatestFocus(Append(L, r)) = IF r.ev.k = "focus" THEN Len(L) + 1 ELSE LatestFocus(L)
           /\ LatestFocus(L) \in 0..Len(L)
           /\ LatestFocus(L) # 0 => Ev(Append(L, r), LatestFocus(L)) = Ev(L, LatestFocus(L))
  BY AppendLastOf, AppendEv DEF LatestFocus

\* The coordination request.
LEMMA AppendRequest ==
    ASSUME NEW L, IsLedger(L), NEW r
    PROVE  Request(Append(L, r)) =
             IF r.ev.k = "coord" /\ r.ev.status # "report" THEN r.ev.status ELSE Request(L)
<1> DEFINE W == Append(L, r)
           X(M) == {j \in OfKind(M, {"coord"}) : Ev(M, j).status # "report"}
           last(M) == Max({0} \cup X(M))
<1>1. /\ Len(L) \in Nat /\ DOMAIN L = 1..Len(L)
      /\ DOMAIN W = DOMAIN L \cup {Len(L) + 1}
      /\ \A i \in DOMAIN L : Ev(W, i) = Ev(L, i)
      /\ Ev(W, Len(L) + 1) = r.ev
  BY AppendEv
<1> HIDE DEF W
<1>2. X(L) \in SUBSET (1..Len(L))
  BY <1>1 DEF OfKind
<1>3. r.ev.k = "coord" /\ r.ev.status # "report" => X(W) = X(L) \cup {Len(L) + 1}
  BY <1>1 DEF OfKind
<1>4. ~ (r.ev.k = "coord" /\ r.ev.status # "report") => X(W) = X(L)
  BY <1>1 DEF OfKind
<1>5. \A M : Request(M) = IF last(M) = 0 THEN "none" ELSE Ev(M, last(M)).status
  BY DEF Request
<1> HIDE DEF X
<1>6. last(L) \in {0} \cup X(L) /\ Max({0} \cup (X(L) \cup {Len(L) + 1})) = Len(L) + 1
  BY <1>1, <1>2, LastIn
<1>7. last(W) = IF r.ev.k = "coord" /\ r.ev.status # "report" THEN Len(L) + 1 ELSE last(L)
  BY <1>3, <1>4, <1>6
<1>8. last(L) # 0 => last(L) \in DOMAIN L
  BY <1>1, <1>2, <1>6
<1> HIDE DEF last
<1>9. Request(W) = IF r.ev.k = "coord" /\ r.ev.status # "report" THEN r.ev.status ELSE Request(L)
  BY <1>1, <1>5, <1>7, <1>8
<1>. QED
  BY <1>9 DEF W

\* The phase.
LEMMA AppendPhase ==
    ASSUME NEW L, IsLedger(L), NEW r, L = <<>> => r.ev.k = "imported",
           L # <<>> => Ev(L, 1).k = "imported", r.ev.k = "phase" => r.ev.to # "none"
    PROVE  Phase(Append(L, r)) = IF r.ev.k = "imported" THEN "discovery"
                                 ELSE IF r.ev.k \in {"phase", "episode"} /\ r.ev.to # "none"
                                   THEN r.ev.to ELSE Phase(L)
<1> DEFINE W == Append(L, r)
           moves(ev) == ev.k \in {"imported", "phase"} \/ (ev.k = "episode" /\ ev.to # "none")
           X(M) == {j \in DOMAIN M : moves(Ev(M, j))}
           at(ev) == IF ev.k = "imported" THEN "discovery" ELSE ev.to
<1>1. /\ Len(L) \in Nat /\ DOMAIN L = 1..Len(L) /\ (L = <<>> <=> Len(L) = 0)
      /\ DOMAIN W = DOMAIN L \cup {Len(L) + 1}
      /\ \A i \in DOMAIN L : Ev(W, i) = Ev(L, i)
      /\ Ev(W, Len(L) + 1) = r.ev
  BY AppendEv, LedgerFacts
<1> HIDE DEF W
<1>2. \A M : Phase(M) = at(Ev(M, Max(X(M))))
  BY DEF Phase
<1>3. X(L) \in SUBSET (0..Len(L)) /\ (L # <<>> => 1 \in X(L))
  BY <1>1
<1>4. CASE moves(r.ev)
  <2>1. X(W) \in SUBSET (0..(Len(L) + 1)) /\ Len(L) + 1 \in X(W) /\ Len(L) + 1 \in Nat
    BY <1>1, <1>4
  <2> HIDE DEF X
  <2>2. Max(X(W)) = Len(L) + 1
    BY <2>1, MaxTop
  <2>3. Phase(W) = at(r.ev)
    BY <1>1, <1>2, <2>2
  <2>4. Phase(W) = IF r.ev.k = "imported" THEN "discovery"
                   ELSE IF r.ev.k \in {"phase", "episode"} /\ r.ev.to # "none"
                     THEN r.ev.to ELSE Phase(L)
    BY <1>4, <2>3
  <2>. QED
    BY <2>4 DEF W
<1>5. CASE ~ moves(r.ev)
  <2>1. X(W) = X(L) /\ X(L) # {}
    BY <1>1, <1>3, <1>5
  <2>2. X(L) \subseteq DOMAIN L
    OBVIOUS
  <2> HIDE DEF X
  <2>3. Max(X(L)) \in X(L)
    BY <1>1, <1>3, <2>1, MaxExists
  <2>4. Ev(W, Max(X(L))) = Ev(L, Max(X(L)))
    BY <1>1, <2>2, <2>3
  <2>5. Phase(W) = Phase(L)
    BY <1>2, <2>1, <2>4
  <2>6. Phase(W) = IF r.ev.k = "imported" THEN "discovery"
                   ELSE IF r.ev.k \in {"phase", "episode"} /\ r.ev.to # "none"
                     THEN r.ev.to ELSE Phase(L)
    BY <1>5, <2>5
  <2>. QED
    BY <2>6 DEF W
<1>. QED
  BY <1>4, <1>5

\* The fields of the state.
LEMMA StateFields ==
    ASSUME NEW st, DOMAIN st = DOMAIN Unread
    PROVE  DOMAIN st = {"ok", "sv", "core", "released", "eff", "profile", "legacy", "adopted",
               "supported", "seen", "objective", "rev", "focus", "offers", "phase", "episode", "request"}
  BY DEF Unread

\* The conditions of one line, which RecoverLine asks for.
LineOK(L, st, n) ==
    /\ st.ok
    /\ n <= MaxRecords
    /\ (n = 1) <=> (Ev(L, n).k = "imported")
    /\ L[n].schema = ExpectedSchema(st, Ev(L, n))
    /\ Ev(L, n).k = "origin" /\ "strict" \in st.seen => Ev(L, n).strict
    /\ L[n].core = st.core
    /\ L[n].sv >= st.sv
    /\ RecoveredTransition(st, Ev(L, n), n, L[n].sv)
    /\ RecoveredSemantics(L, st, n)

\* A line is read when its conditions hold, and is refused otherwise.
LEMMA RecoverLineIs ==
    ASSUME NEW L, NEW st, NEW n
    PROVE  RecoverLine(L, st, n) = IF LineOK(L, st, n) THEN Remember(st, Ev(L, n), L[n].sv, n)
                                   ELSE [st EXCEPT !.ok = FALSE]
  BY DEF RecoverLine, LineOK

\* The features of an event.
LEMMA FeaturesOfEvent ==
    ASSUME NEW ev
    PROVE  /\ EventFeatures(ev) \subseteq PlainFeatures \cup {"profile", "effective"}
           /\ "effective" \in EventFeatures(ev) <=> ev.k \in {"pack", "rebase"}
           /\ "adopt" \in EventFeatures(ev) <=> ev.k = "adopt"
           /\ "intent" \in EventFeatures(ev) <=> ev.k = "intent"
           /\ "strict" \in EventFeatures(ev) <=> ev.k = "origin" /\ ev.strict
           /\ "profile" \in EventFeatures(ev) => ev.k = "imported"
           /\ ev.k \in {"focus", "phase"} => EventFeatures(ev) = {}
<1> USE DEF EventFeatures, PlainFeatures
<1>1. CASE ev.k = "imported"
  BY <1>1
<1>2. CASE ev.k = "adopt"
  BY <1>2
<1>3. CASE ev.k = "objective"
  BY <1>3
<1>4. CASE ev.k = "evidence"
  BY <1>4
<1>5. CASE ev.k = "episode"
  BY <1>5
<1>6. CASE ev.k = "coord"
  BY <1>6
<1>7. CASE ev.k = "origin"
  BY <1>7
<1>8. CASE ev.k = "rebase"
  BY <1>8
<1>9. CASE ev.k = "intent"
  BY <1>9
<1>10. CASE ev.k = "pack"
  BY <1>10
<1>11. CASE ev.k \notin {"imported", "adopt", "objective", "evidence", "episode", "coord", "origin",
                         "rebase", "intent", "pack"}
  <2>1. EventFeatures(ev) = {}
    BY <1>11
  <2>. QED
    BY <1>11, <2>1
<1>. QED
  BY <1>1, <1>2, <1>3, <1>4, <1>5, <1>6, <1>7, <1>8, <1>9, <1>10, <1>11

\* The features of a ledger, and what its focus events use.
LEMMA AppendFeatures ==
    ASSUME NEW L, IsLedger(L), NEW r
    PROVE  /\ Features(Append(L, r)) = Features(L) \cup EventFeatures(r.ev)
           /\ \A f : (\E i \in DOMAIN Append(L, r) : HasFlag(Ev(Append(L, r), i), f))
                      <=> HasFlag(r.ev, f) \/ \E i \in DOMAIN L : HasFlag(Ev(L, i), f)
<1> DEFINE W == Append(L, r)
<1>1. /\ DOMAIN W = DOMAIN L \cup {Len(L) + 1}
      /\ \A i \in DOMAIN L : Ev(W, i) = Ev(L, i)
      /\ Ev(W, Len(L) + 1) = r.ev
  BY AppendEv
<1> HIDE DEF W
<1>2. \A f : f \in Features(W) <=> f \in Features(L) \/ f \in EventFeatures(r.ev)
  <2>1. \A f : f \in Features(W) <=> \E i \in DOMAIN W : f \in EventFeatures(Ev(W, i))
    BY DEF Features
  <2>2. \A f : f \in Features(L) <=> \E i \in DOMAIN L : f \in EventFeatures(Ev(L, i))
    BY DEF Features
  <2>. QED
    BY <1>1, <2>1, <2>2
<1>3. Features(W) = Features(L) \cup EventFeatures(r.ev)
  BY <1>2
<1>4. ASSUME NEW f
      PROVE  (\E i \in DOMAIN W : HasFlag(Ev(W, i), f))
                <=> HasFlag(r.ev, f) \/ \E i \in DOMAIN L : HasFlag(Ev(L, i), f)
  BY <1>1
<1>. QED
  BY <1>3, <1>4 DEF W

\* The state version.
LEMMA AppendVersion ==
    ASSUME NEW L, IsLedger(L), NEW r
    PROVE  StateVersion(Append(L, r)) = r.sv
<1>1. Len(Append(L, r)) = Len(L) + 1 /\ Append(L, r)[Len(L) + 1] = r
  BY LedgerAppend
<1>. QED
  BY <1>1 DEF StateVersion, Last

\* The first digest recorded for an offer.
LEMMA AppendOffer ==
    ASSUME NEW L, IsLedger(L), AllTyped(L), NEW r, NEW o, o # "none"
    PROVE  OriginalOffer(Append(L, r), o) =
             IF OriginalOffer(L, o) = "none" /\ r.ev.k = "evidence" /\ r.ev.offer = o THEN r.ev.digest
             ELSE OriginalOffer(L, o)
<1> DEFINE W == Append(L, r)
           X(M) == {i \in OfKind(M, {"evidence"}) : Ev(M, i).offer = o}
           n == Len(L) + 1
<1>1. /\ Len(L) \in Nat /\ DOMAIN L = 1..Len(L)
      /\ DOMAIN W = DOMAIN L \cup {n}
      /\ \A i \in DOMAIN L : Ev(W, i) = Ev(L, i)
      /\ Ev(W, n) = r.ev
  BY AppendEv
<1> HIDE DEF W
<1>2. \A M : OriginalOffer(M, o) = IF X(M) = {} THEN "none" ELSE Ev(M, Min(X(M))).digest
  BY DEF OriginalOffer
<1>3. /\ X(L) \subseteq DOMAIN L
      /\ \A i \in X(L) : Ev(L, i).k = "evidence"
      /\ r.ev.k = "evidence" /\ r.ev.offer = o => X(W) = X(L) \cup {n}
      /\ ~ (r.ev.k = "evidence" /\ r.ev.offer = o) => X(W) = X(L)
  BY <1>1 DEF OfKind
<1> HIDE DEF X
<1>4. X(L) \in SUBSET Nat
  BY <1>1, <1>3
<1>5. CASE X(L) = {}
  <2>1. OriginalOffer(L, o) = "none"
    BY <1>2, <1>5
  <2>2. CASE r.ev.k = "evidence" /\ r.ev.offer = o
    <3>1. X(W) = {n} /\ {n} \in SUBSET Nat
      BY <1>1, <1>3, <1>5, <2>2
    <3>2. Min({n}) = n
      BY <3>1, MinExists
    <3>3. OriginalOffer(W, o) = r.ev.digest
      BY <1>1, <1>2, <3>1, <3>2
    <3>. QED
      BY <2>1, <2>2, <3>3 DEF W
  <2>3. CASE ~ (r.ev.k = "evidence" /\ r.ev.offer = o)
    <3>1. OriginalOffer(W, o) = "none"
      BY <1>2, <1>3, <1>5, <2>3
    <3>. QED
      BY <2>1, <2>3, <3>1 DEF W
  <2>. QED
    BY <2>2, <2>3
<1>6. CASE X(L) # {}
  <2>1. Min(X(L)) \in X(L) /\ \A y \in X(L) : Min(X(L)) <= y
    BY <1>4, <1>6, MinExists
  <2>2. Min(X(L)) \in DOMAIN L /\ Min(X(L)) \in 1..Len(L)
    BY <1>1, <1>3, <2>1
  <2>3. X(W) # {} /\ X(W) \in SUBSET Nat /\ X(W) \in SUBSET (X(L) \cup {n})
    BY <1>1, <1>3, <1>4, <1>6
  <2>4. Min(X(W)) \in X(W) /\ \A y \in X(W) : Min(X(W)) <= y
    BY <2>3, MinExists
  <2>5. Min(X(L)) \in X(W)
    BY <1>3, <2>1
  <2>6. Min(X(W)) = Min(X(L))
    <3>1. Min(X(W)) <= Min(X(L)) /\ Min(X(W)) \in Nat
      BY <2>3, <2>4, <2>5
    <3>2. Min(X(W)) # n
      BY <1>1, <2>2, <3>1
    <3>3. Min(X(W)) \in X(L)
      BY <2>3, <2>4, <3>2
    <3>. QED
      BY <2>1, <2>2, <3>1, <3>3
  <2>7. OriginalOffer(W, o) = OriginalOffer(L, o)
    BY <1>1, <1>2, <1>6, <2>2, <2>3, <2>6
  <2>8. OriginalOffer(L, o) # "none"
    BY <1>2, <1>3, <1>6, <2>1, <2>2 DEF AllTyped, Typed, Ev
  <2>. QED
    BY <2>7, <2>8 DEF W
<1>. QED
  BY <1>5, <1>6

\* A line that recovery takes, at the end of a ledger it has read.
AfterLine(L, st, r) == Remember(st, r.ev, r.sv, Len(L) + 1)

\* Reading a line keeps the agreement on core, release and domain generation.
LEMMA IdentityStep ==
    ASSUME NEW L, IsLedger(L), NEW st, Projects(L, st), NEW r, Typed(r),
           LineOK(Append(L, r), st, Len(L) + 1)
    PROVE  SameIdentity(Append(L, r), AfterLine(L, st, r))
<1> DEFINE W == Append(L, r)
           M == AfterLine(L, st, r)
           n == Len(L) + 1
<1>1. /\ M.core = IF r.ev.k \in {"release", "rebase"} THEN r.ev.to ELSE st.core
      /\ M.released <=> st.released \/ r.ev.k \in {"release", "rebase"}
      /\ M.eff = IF r.ev.k \in {"pack", "rebase"} THEN r.ev.gen ELSE st.eff
  <2>1. DOMAIN st = DOMAIN Unread
    BY DEF Projects
  <2>. QED
    BY <2>1, StateFields DEF AfterLine, Remember
<1>2. Core(W) = IF r.ev.k \in {"release", "rebase"} THEN r.ev.to ELSE Core(L)
  BY AppendCore
<1>3. Effective(W) = IF r.ev.k \in {"pack", "rebase"} THEN r.ev.gen ELSE Effective(L)
  BY AppendEffective
<1>4. Released(W) <=> Released(L) \/ r.ev.k \in {"release", "rebase"}
  <2>1. /\ r.ev.k \in {"release", "rebase"} =>
             OfKind(W, {"release", "rebase"}) = OfKind(L, {"release", "rebase"}) \cup {Len(L) + 1}
        /\ r.ev.k \notin {"release", "rebase"} =>
             OfKind(W, {"release", "rebase"}) = OfKind(L, {"release", "rebase"})
    BY AppendOfKind
  <2>. QED
    BY <2>1 DEF Released
<1>5. "effective" \in Features(W) <=> "effective" \in Features(L) \/ r.ev.k \in {"pack", "rebase"}
  BY AppendFeatures, FeaturesOfEvent
<1>6. SameIdentity(L, st)
  BY DEF Projects
<1>7. r.ev.k \in {"pack", "rebase"} => r.ev.gen \in Nat /\ r.ev.gen # 0
  <2>1. Ev(W, n) = r.ev /\ W[n] = r
    BY AppendEv, LedgerAppend
  <2>2. RecoveredTransition(st, r.ev, n, r.sv)
    BY <2>1 DEF LineOK
  <2>3. r.ev.k \in {"pack", "rebase"} => r.ev.gen > st.eff
    BY <2>2 DEF RecoveredTransition, ValidPack, ValidRebase
  <2>. QED
    BY <1>6, <2>3 DEF Typed, SameIdentity
<1> HIDE DEF W, M
<1>8. SameIdentity(W, M)
  BY <1>1, <1>2, <1>3, <1>4, <1>5, <1>6, <1>7 DEF SameIdentity
<1>. QED
  BY <1>8 DEF W, M

\* Reading a line keeps the agreement on profile, legacy and adoption.
LEMMA ReadinessStep ==
    ASSUME NEW L, IsLedger(L), NEW st, Projects(L, st), NEW r, Typed(r),
           LineOK(Append(L, r), st, Len(L) + 1)
    PROVE  SameReadiness(Append(L, r), AfterLine(L, st, r))
<1> DEFINE W == Append(L, r)
           M == AfterLine(L, st, r)
           n == Len(L) + 1
<1>1. /\ M.profile = IF r.ev.k = "adopt" THEN "solo"
                    ELSE IF r.ev.k = "imported" /\ r.ev.profile = "solo" THEN "solo" ELSE st.profile
      /\ M.legacy <=> IF r.ev.k = "imported" THEN r.ev.profile = "none" ELSE st.legacy
      /\ M.adopted <=> st.adopted \/ r.ev.k = "adopt"
      /\ M.supported <=> IF r.ev.k = "imported" THEN r.ev.profile = "none"
                      ELSE st.supported /\ (st.adopted \/ r.ev.k \in {"release", "adopt"})
  <2>1. DOMAIN st = DOMAIN Unread
    BY DEF Projects
  <2>. QED
    BY <2>1, StateFields DEF AfterLine, Remember
<1>2. /\ Len(L) \in Nat /\ (L = <<>> <=> Len(L) = 0) /\ DOMAIN L = 1..Len(L)
      /\ DOMAIN W = DOMAIN L \cup {n}
      /\ \A i \in DOMAIN L : Ev(W, i) = Ev(L, i)
      /\ Ev(W, n) = r.ev /\ W # <<>>
  BY AppendEv, LedgerFacts
<1>3. (n = 1) <=> (r.ev.k = "imported")
  BY <1>2 DEF LineOK
<1>4. OfKind(W, {"adopt"}) = IF r.ev.k = "adopt" THEN OfKind(L, {"adopt"}) \cup {n} ELSE OfKind(L, {"adopt"})
  BY AppendOfKind
<1>5. SameReadiness(L, st)
  BY DEF Projects
<1> HIDE DEF M, W
<1>6. M.adopted <=> OfKind(W, {"adopt"}) # {}
  BY <1>1, <1>4, <1>5 DEF SameReadiness
<1>7. CASE L = <<>>
  <2>1. r.ev.k = "imported" /\ Ev(W, 1) = r.ev /\ DOMAIN L = {}
    BY <1>2, <1>3, <1>7
  <2>2. OfKind(W, {"adopt"}) = {}
    BY <1>4, <2>1 DEF OfKind
  <2>3. st.profile = "strict"
    BY <1>7 DEF Projects, Unread
  <2>4. M.profile = ReadinessProfile(W)
    BY <1>1, <2>1, <2>2, <2>3 DEF ReadinessProfile
  <2>5. M.legacy <=> Ev(W, 1).profile = "none"
    BY <1>1, <2>1
  <2>6. M.legacy => M.supported
    BY <1>1, <2>1
  <2>7. SameReadiness(W, M)
    BY <1>6, <2>4, <2>5, <2>6 DEF SameReadiness
  <2>. QED
    BY <2>7 DEF W, M
<1>8. CASE L # <<>>
  <2>1. r.ev.k # "imported" /\ Ev(W, 1) = Ev(L, 1)
    BY <1>2, <1>3, <1>8
  <2>2. M.profile = ReadinessProfile(W)
    BY <1>1, <1>4, <1>5, <1>8, <2>1 DEF ReadinessProfile, SameReadiness
  <2>3. M.legacy <=> Ev(W, 1).profile = "none"
    BY <1>1, <1>5, <1>8, <2>1 DEF SameReadiness
  <2>4. ASSUME M.legacy, OfKind(W, {"imported", "release"}) = DOMAIN W PROVE M.supported
    <3>1. n \in OfKind(W, {"imported", "release"})
      BY <1>2, <2>4
    <3>2. r.ev.k = "release"
      BY <1>2, <2>1, <3>1 DEF OfKind
    <3>3. OfKind(L, {"imported", "release"}) = DOMAIN L
      BY <1>2, <2>4 DEF OfKind
    <3>4. st.legacy
      BY <1>1, <2>1, <2>4
    <3>5. st.supported
      BY <1>5, <3>3, <3>4 DEF SameReadiness
    <3>. QED
      BY <1>1, <2>1, <3>2, <3>5
  <2>5. SameReadiness(W, M)
    BY <1>6, <2>2, <2>3, <2>4 DEF SameReadiness
  <2>. QED
    BY <2>5 DEF W, M
<1>. QED
  BY <1>7, <1>8

\* Reading a line keeps the agreement on the features seen.
LEMMA FeaturesStep ==
    ASSUME NEW L, IsLedger(L), NEW st, Projects(L, st), NEW r
    PROVE  SameFeatures(Append(L, r), AfterLine(L, st, r))
<1> DEFINE W == Append(L, r)
           M == AfterLine(L, st, r)
<1>1. M.seen = SeenAfter(st, r.ev)
  <2>1. DOMAIN st = DOMAIN Unread
    BY DEF Projects
  <2>. QED
    BY <2>1, StateFields DEF AfterLine, Remember
<1>2. SameFeatures(L, st)
  BY DEF Projects
<1>3. Features(W) = Features(L) \cup EventFeatures(r.ev)
  BY AppendFeatures
<1>4. \A f : (\E i \in DOMAIN W : HasFlag(Ev(W, i), f))
                 <=> HasFlag(r.ev, f) \/ \E i \in DOMAIN L : HasFlag(Ev(L, i), f)
  BY AppendFeatures
<1>5. \A f : f \in SeenAfter(st, r.ev) <=>
               \/ f \in st.seen
               \/ f \in EventFeatures(r.ev) /\ f # "effective"
               \/ r.ev.k = "adopt" /\ f = "profile"
               \/ f \in FocusFlags /\ HasFlag(r.ev, f)
  BY DEF SeenAfter, HasFlag, FocusFlags
<1>6. EventFeatures(r.ev) \subseteq PlainFeatures \cup {"profile", "effective"}
  BY FeaturesOfEvent
<1>7. "adopt" \in EventFeatures(r.ev) <=> r.ev.k = "adopt"
  BY FeaturesOfEvent
<1> HIDE DEF W, M
<1>8. \A f \in FocusFlags : f \notin EventFeatures(r.ev) /\ f # "profile"
  BY <1>6 DEF FocusFlags, PlainFeatures
<1>9. \A f \in PlainFeatures : f \notin FocusFlags /\ f # "profile" /\ f # "effective"
  BY DEF FocusFlags, PlainFeatures
<1>10. "profile" \notin FocusFlags /\ "effective" \notin FocusFlags
  BY DEF FocusFlags
<1>11. \A f \in FocusFlags : f \in M.seen <=> \E i \in DOMAIN W : HasFlag(Ev(W, i), f)
  BY <1>1, <1>2, <1>4, <1>5, <1>8 DEF SameFeatures
<1>12. \A f \in PlainFeatures : f \in M.seen <=> f \in Features(W)
  BY <1>1, <1>2, <1>3, <1>5, <1>9 DEF SameFeatures
<1>13. "effective" \notin M.seen
  BY <1>1, <1>2, <1>5, <1>10 DEF SameFeatures
<1>14. /\ "profile" \in Features(W) => "profile" \in M.seen
       /\ "profile" \in M.seen => "profile" \in Features(W) \/ "adopt" \in Features(W)
  BY <1>1, <1>2, <1>3, <1>5, <1>7, <1>10 DEF SameFeatures
<1>15. SameFeatures(W, M)
  BY <1>11, <1>12, <1>13, <1>14 DEF SameFeatures
<1>. QED
  BY <1>15 DEF W, M

\* Reading a line keeps the agreement on objective, focus, episode and phase.
LEMMA WorkStep ==
    ASSUME NEW L, IsLedger(L), NEW st, Projects(L, st), NEW r, Typed(r),
           LineOK(Append(L, r), st, Len(L) + 1)
    PROVE  SameWork(Append(L, r), AfterLine(L, st, r))
<1> DEFINE W == Append(L, r)
           M == AfterLine(L, st, r)
           n == Len(L) + 1
           rev(X) == IF LatestObjective(X) = 0 THEN 0 ELSE Ev(X, LatestObjective(X)).rev
<1>1. /\ M.objective = IF r.ev.k = "objective" THEN n ELSE st.objective
      /\ M.rev = IF r.ev.k = "objective" THEN r.ev.rev ELSE st.rev
      /\ M.focus = IF r.ev.k = "focus" THEN n ELSE st.focus
      /\ M.phase = IF r.ev.k = "imported" THEN "discovery"
                   ELSE IF r.ev.k \in {"phase", "episode"} /\ r.ev.to # "none" THEN r.ev.to ELSE st.phase
      /\ M.episode = IF r.ev.k = "episode" THEN r.ev.gen ELSE st.episode
      /\ M.request = IF r.ev.k = "coord" /\ r.ev.status # "report" THEN r.ev.status ELSE st.request
  <2>1. DOMAIN st = DOMAIN Unread
    BY DEF Projects
  <2>. QED
    BY <2>1, StateFields DEF AfterLine, Remember
<1>2. SameWork(L, st)
  BY DEF Projects
<1>3. /\ LatestObjective(W) = IF r.ev.k = "objective" THEN n ELSE LatestObjective(L)
      /\ rev(W) = IF r.ev.k = "objective" THEN r.ev.rev ELSE rev(L)
  BY AppendObjective
<1>4. LatestFocus(W) = IF r.ev.k = "focus" THEN n ELSE LatestFocus(L)
  BY AppendFocus
<1>5. Episode(W) = IF r.ev.k = "episode" THEN r.ev.gen ELSE Episode(L)
  BY AppendEpisode
<1>6. Request(W) = IF r.ev.k = "coord" /\ r.ev.status # "report" THEN r.ev.status ELSE Request(L)
  BY AppendRequest
<1>7. M.phase = Phase(W)
  <2>1. Len(L) \in Nat /\ (L = <<>> <=> Len(L) = 0) /\ Ev(W, n) = r.ev
    BY AppendEv, LedgerFacts
  <2>2. (n = 1) <=> (r.ev.k = "imported")
    BY <2>1 DEF LineOK
  <2>3. /\ L = <<>> => r.ev.k = "imported"
        /\ L # <<>> => Ev(L, 1).k = "imported"
        /\ r.ev.k = "phase" => r.ev.to # "none"
    BY <2>1, <2>2 DEF Projects, Typed
  <2>4. Phase(W) = IF r.ev.k = "imported" THEN "discovery"
                   ELSE IF r.ev.k \in {"phase", "episode"} /\ r.ev.to # "none"
                     THEN r.ev.to ELSE Phase(L)
    BY <2>3, AppendPhase
  <2> HIDE DEF W, M
  <2>. QED
    BY <1>1, <1>2, <2>3, <2>4 DEF SameWork
<1>8. st.rev = rev(L)
  BY <1>2 DEF SameWork
<1>9. M.rev = rev(W)
  <2> HIDE DEF rev, W, M
  <2>. QED
    BY <1>1, <1>3, <1>8
<1> HIDE DEF W, M
<1>10. SameWork(W, M)
  BY <1>1, <1>2, <1>3, <1>4, <1>5, <1>6, <1>7, <1>9 DEF SameWork
<1>. QED
  BY <1>10 DEF W, M

\* Reading a line keeps the agreement on the offers.
LEMMA OffersStep ==
    ASSUME NEW L, IsLedger(L), AllTyped(L), NEW st, Projects(L, st), NEW r, Typed(r)
    PROVE  SameOffers(Append(L, r), AfterLine(L, st, r))
<1> DEFINE W == Append(L, r)
           M == AfterLine(L, st, r)
           fresh == r.ev.k = "evidence" /\ r.ev.offer # "none" /\ RecoveredOffer(st, r.ev.offer) = "none"
           pair == <<r.ev.offer, r.ev.digest>>
           those(s, o) == {p \in s.offers : p[1] = o}
<1>1. M.offers = IF fresh THEN st.offers \cup {pair} ELSE st.offers
  <2>1. DOMAIN st = DOMAIN Unread
    BY DEF Projects
  <2>. QED
    BY <2>1, StateFields DEF AfterLine, Remember
<1>2. SameOffers(L, st)
  BY DEF Projects
<1>3. \A s, o : RecoveredOffer(s, o) = IF those(s, o) = {} THEN "none" ELSE (CHOOSE p \in those(s, o) : TRUE)[2]
  BY DEF RecoveredOffer
<1>4. \A o : o # "none" =>
        OriginalOffer(W, o) =
             IF OriginalOffer(L, o) = "none" /\ r.ev.k = "evidence" /\ r.ev.offer = o THEN r.ev.digest
             ELSE OriginalOffer(L, o)
  BY AppendOffer
<1>5. r.ev.k = "evidence" => r.ev.digest # "none"
  BY DEF Typed
<1>6. pair[1] = r.ev.offer /\ pair[2] = r.ev.digest
  OBVIOUS
<1> HIDE DEF W, M, pair
<1>7. \A p \in M.offers : p[2] # "none"
  BY <1>1, <1>2, <1>5, <1>6 DEF SameOffers
<1>8. ASSUME NEW o, o # "none" PROVE RecoveredOffer(M, o) = OriginalOffer(W, o)
  <2>1. RecoveredOffer(st, o) = OriginalOffer(L, o)
    BY <1>2, <1>8 DEF SameOffers
  <2>2. CASE fresh /\ r.ev.offer = o
    <3>1. those(st, o) = {}
      <4>1. ASSUME those(st, o) # {} PROVE FALSE
        <5>1. (CHOOSE p \in those(st, o) : TRUE) \in those(st, o)
          BY <4>1
        <5>2. (CHOOSE p \in those(st, o) : TRUE) \in st.offers
          BY <5>1
        <5> HIDE DEF those
        <5>. QED
          BY <1>2, <1>3, <2>2, <4>1, <5>2 DEF SameOffers
      <4>. QED
        BY <4>1
    <3>2. those(M, o) = {pair}
      BY <1>1, <1>6, <2>2, <3>1
    <3> HIDE DEF those
    <3>3. RecoveredOffer(M, o) = pair[2]
      BY <1>3, <3>2
    <3>4. OriginalOffer(W, o) = r.ev.digest
      BY <1>4, <1>8, <2>1, <2>2
    <3>. QED
      BY <1>6, <3>3, <3>4
  <2>3. CASE ~ (fresh /\ r.ev.offer = o)
    <3>1. those(M, o) = those(st, o)
      BY <1>1, <1>6, <2>3
    <3>2. RecoveredOffer(M, o) = RecoveredOffer(st, o)
      <4> HIDE DEF those
      <4>. QED
        BY <1>3, <3>1
    <3>3. OriginalOffer(W, o) = OriginalOffer(L, o)
      BY <1>4, <1>8, <2>1, <2>3
    <3>. QED
      BY <2>1, <3>2, <3>3
  <2>. QED
    BY <2>2, <2>3
<1>9. SameOffers(W, M)
  BY <1>7, <1>8 DEF SameOffers
<1>. QED
  BY <1>9 DEF W, M

\* One line more, and the state is still that of the projection.
LEMMA ProjectsStep ==
    ASSUME NEW L, IsLedger(L), AllTyped(L), NEW st, Projects(L, st), NEW r, Typed(r),
           LineOK(Append(L, r), st, Len(L) + 1)
    PROVE  Projects(Append(L, r), AfterLine(L, st, r))
<1> DEFINE W == Append(L, r)
           M == AfterLine(L, st, r)
<1>1. DOMAIN M = DOMAIN Unread /\ M.sv = r.sv
  <2>1. DOMAIN st = DOMAIN Unread
    BY DEF Projects
  <2>2. DOMAIN M = DOMAIN st
    BY DEF AfterLine, Remember
  <2>3. M.sv = r.sv
    BY <2>1, StateFields DEF AfterLine, Remember
  <2>. QED
    BY <2>1, <2>2, <2>3
<1>2. StateVersion(W) = r.sv /\ r.sv \in Nat
  BY AppendVersion DEF Typed
<1>3. W # <<>> /\ Ev(W, 1).k = "imported"
  <2>1. /\ Len(L) \in Nat /\ (L = <<>> <=> Len(L) = 0) /\ DOMAIN L = 1..Len(L)
        /\ \A i \in DOMAIN L : Ev(W, i) = Ev(L, i)
        /\ Ev(W, Len(L) + 1) = r.ev /\ W # <<>>
    BY AppendEv, LedgerFacts
  <2>2. (Len(L) + 1 = 1) <=> (r.ev.k = "imported")
    BY <2>1 DEF LineOK
  <2>3. L # <<>> => Ev(L, 1).k = "imported"
    BY DEF Projects
  <2> HIDE DEF W
  <2>. QED
    BY <2>1, <2>2, <2>3
<1>4. SameIdentity(W, M) /\ SameReadiness(W, M) /\ SameFeatures(W, M) /\ SameWork(W, M) /\ SameOffers(W, M)
  BY IdentityStep, ReadinessStep, FeaturesStep, WorkStep, OffersStep
<1> HIDE DEF W, M
<1>5. Projects(W, M)
  BY <1>1, <1>2, <1>3, <1>4 DEF Projects
<1>. QED
  BY <1>5 DEF W, M

-----------------------------------------------------------------------------
(***************************************************************************)
(* Recovery, by induction over the lines.                                  *)
(***************************************************************************)
\* The positions of a ledger, in order.
Positions(L) == [n \in DOMAIN L |-> n]

\* g is the function, recursive over sets of positions, that FoldLeft chooses.
Recovering(g, S, L) ==
    g = [x \in SUBSET S |-> IF x = {} THEN Unread
                            ELSE RecoverLine(L, g[x \ {Max(x)}], Positions(L)[Max(x)])]

\* Recovery is the recursive function over sets of positions that the fold is.
LEMMA RecoverIs ==
    ASSUME NEW L
    PROVE  Recover(L) = (CHOOSE g : Recovering(g, DOMAIN L, L))[DOMAIN L]
<1>1. DOMAIN Positions(L) = DOMAIN L
  BY DEF Positions
<1>2. Recover(L) = FoldLeft(LAMBDA st, n : RecoverLine(L, st, n), Unread, Positions(L))
  BY DEF Recover, Positions
<1>3. FoldLeft(LAMBDA st, n : RecoverLine(L, st, n), Unread, Positions(L))
        = (CHOOSE g : Recovering(g, DOMAIN Positions(L), L))[DOMAIN Positions(L)]
  BY DEF FoldLeft, MapThenFoldSet, Recovering
<1>. QED
  BY <1>1, <1>2, <1>3

\* It exists, for a ledger of any length.
LEMMA RecoveringExists ==
    ASSUME NEW L
    PROVE  \A m \in Nat : \E g : Recovering(g, 1..m, L)
<1> DEFINE id == Positions(L)
           S == {m \in Nat : \E g : Recovering(g, 1..m, L)}
<1> HIDE DEF id
<1>1. 0 \in S
  <2> DEFINE h == [x \in SUBSET (1..0) |-> Unread]
  <2>1. \A x \in SUBSET (1..0) : x = {}
    OBVIOUS
  <2>2. Recovering(h, 1..0, L)
    BY <2>1 DEF Recovering
  <2>. QED
    BY <2>2
<1>2. ASSUME NEW m \in Nat, m \in S PROVE m + 1 \in S
  <2>1. PICK g : Recovering(g, 1..m, L)
    BY <1>2
  <2> DEFINE h == [x \in SUBSET (1..(m + 1)) |->
                     IF m + 1 \in x THEN RecoverLine(L, g[x \ {m + 1}], id[m + 1]) ELSE g[x]]
             k == [x \in SUBSET (1..(m + 1)) |->
                     IF x = {} THEN Unread ELSE RecoverLine(L, h[x \ {Max(x)}], id[Max(x)])]
  <2>2. \A x \in SUBSET (1..m) : g[x] = IF x = {} THEN Unread
                                        ELSE RecoverLine(L, g[x \ {Max(x)}], id[Max(x)])
    BY <2>1 DEF Recovering, id
  <2>3. ASSUME NEW x \in SUBSET (1..(m + 1)), m + 1 \notin x PROVE x \in SUBSET (1..m)
    BY <2>3
  <2>4. ASSUME NEW x \in SUBSET (1..(m + 1)) PROVE h[x] = k[x]
    <3>1. CASE m + 1 \in x
      <4>1. Max(x) = m + 1 /\ x # {} /\ x \ {m + 1} \in SUBSET (1..(m + 1)) /\ m + 1 \notin x \ {m + 1}
        BY <3>1, MaxIs
      <4>2. h[x \ {m + 1}] = g[x \ {m + 1}]
        BY <4>1
      <4>. QED
        BY <3>1, <4>1, <4>2
    <3>2. CASE m + 1 \notin x
      <4>1. x \in SUBSET (1..m) /\ h[x] = g[x]
        BY <2>3, <3>2
      <4>2. x \ {Max(x)} \in SUBSET (1..(m + 1)) /\ m + 1 \notin x \ {Max(x)}
        BY <3>2
      <4>3. h[x \ {Max(x)}] = g[x \ {Max(x)}]
        BY <4>2
      <4>. QED
        BY <2>2, <4>1, <4>3
    <3>. QED
      BY <3>1, <3>2
  <2>5. h = k
    BY <2>4
  <2>6. Recovering(h, 1..(m + 1), L)
    BY <2>5 DEF Recovering, id
  <2>. QED
    BY <2>6
<1> HIDE DEF S
<1>3. \A m \in Nat : m \in S
  BY <1>1, <1>2, NatSetInduction
<1>. QED
  BY <1>3 DEF S

\* It takes the lines in order.
LEMMA RecoveringStep ==
    ASSUME NEW L, IsLedger(L), NEW m \in Nat, m + 1 <= Len(L), NEW g, Recovering(g, DOMAIN L, L)
    PROVE  g[1..(m + 1)] = RecoverLine(L, g[1..m], m + 1)
<1> DEFINE N == Len(L)
<1>0. N \in Nat /\ DOMAIN L = 1..N /\ m + 1 <= N
  BY LedgerFacts
<1> HIDE DEF N
<1>1. /\ 1..(m + 1) \in SUBSET (1..N) /\ 1..(m + 1) # {}
      /\ m + 1 \in 1..(m + 1) /\ (1..(m + 1)) \ {m + 1} = 1..m
      /\ 1..(m + 1) \in SUBSET (1..(m + 1)) /\ m + 1 \in 1..N
  BY <1>0
<1>2. Max(1..(m + 1)) = m + 1
  BY <1>1, MaxIs
<1>3. \A x \in SUBSET (1..N) : x # {} => g[x] = RecoverLine(L, g[x \ {Max(x)}], Positions(L)[Max(x)])
  BY <1>0 DEF Recovering
<1>4. g[1..(m + 1)] = RecoverLine(L, g[(1..(m + 1)) \ {Max(1..(m + 1))}], Positions(L)[Max(1..(m + 1))])
  BY <1>1, <1>3
<1>5. Positions(L)[m + 1] = m + 1
  BY <1>0, <1>1 DEF Positions
<1>. QED
  BY <1>1, <1>2, <1>4, <1>5

\* The state after each line, of a ledger and of one that goes on from it.
LEMMA RecoveringAgrees ==
    ASSUME NEW L, IsLedger(L), NEW r, NEW g, Recovering(g, DOMAIN L, L),
           NEW h, Recovering(h, DOMAIN Append(L, r), Append(L, r))
    PROVE  \A m \in 0..Len(L) : h[1..m] = g[1..m]
<1> DEFINE W == Append(L, r)
           N == Len(L)
           S == {m \in Nat : m <= N => /\ h[1..m] = g[1..m] /\ DOMAIN g[1..m] = DOMAIN Unread
                                       /\ g[1..m].focus \in 0..m}
<1>1. /\ N \in Nat /\ DOMAIN L = 1..N /\ IsLedger(W) /\ Len(W) = N + 1 /\ DOMAIN W = 1..(N + 1)
      /\ \A i \in 1..N : W[i] = L[i] /\ Ev(W, i) = Ev(L, i)
  BY AppendEv, LedgerAppend
<1>2. Recovering(h, DOMAIN W, W)
  OBVIOUS
<1> HIDE DEF N, W
<1>3. 0 \in S
  <2>1. 1..0 = {} /\ {} \in SUBSET (1..N) /\ {} \in SUBSET (1..(N + 1))
    OBVIOUS
  <2>2. g[{}] = Unread /\ h[{}] = Unread
    BY <1>1, <1>2, <2>1 DEF Recovering
  <2>3. Unread.focus = 0
    BY DEF Unread
  <2>. QED
    BY <2>1, <2>2, <2>3
<1>4. ASSUME NEW m \in Nat, m \in S PROVE m + 1 \in S
  <2>1. SUFFICES ASSUME m + 1 <= N
                 PROVE  /\ h[1..(m + 1)] = g[1..(m + 1)] /\ DOMAIN g[1..(m + 1)] = DOMAIN Unread
                        /\ g[1..(m + 1)].focus \in 0..(m + 1)
    OBVIOUS
  <2> DEFINE st == g[1..m]
  <2>2. h[1..m] = st /\ DOMAIN st = DOMAIN Unread /\ st.focus \in 0..m
    BY <1>1, <1>4, <2>1
  <2>3. g[1..(m + 1)] = RecoverLine(L, st, m + 1)
    BY <2>1, RecoveringStep DEF N
  <2>4. h[1..(m + 1)] = RecoverLine(W, st, m + 1)
    <3>1. m + 1 <= Len(W)
      BY <1>1, <2>1
    <3>. QED
      BY <1>1, <1>2, <2>2, <3>1, RecoveringStep
  <2> HIDE DEF st
  <2>5. m + 1 \in 1..N /\ W[m + 1] = L[m + 1] /\ Ev(W, m + 1) = Ev(L, m + 1)
    BY <1>1, <2>1
  <2>6. LineOK(W, st, m + 1) <=> LineOK(L, st, m + 1)
    <3>1. st.focus # 0 => Ev(W, st.focus) = Ev(L, st.focus)
      <4>1. st.focus # 0 => st.focus \in 1..N
        BY <1>1, <2>1, <2>2
      <4>. QED
        BY <1>1, <4>1
    <3>2. SubSeq(W, 1, (m + 1) - 1) = SubSeq(L, 1, (m + 1) - 1)
      <4> DEFINE T == Range(L) \cup Range(W)
      <4>1. L \in Seq(T) /\ W \in Seq(T)
        BY <1>1 DEF IsLedger
      <4> HIDE DEF T
      <4>2. Len(L) = N /\ m <= N /\ m <= Len(W) /\ (m + 1) - 1 = m
        BY <1>1, <2>1 DEF N
      <4> DEFINE a == SubSeq(L, 1, m)
                 b == SubSeq(W, 1, m)
      <4>3. a \in Seq(T) /\ Len(a) = m /\ \A i \in 1..m : a[i] = L[i]
        BY <4>1, <4>2, <1>1
      <4>4. b \in Seq(T) /\ Len(b) = m /\ \A i \in 1..m : b[i] = W[i]
        BY <4>1, <4>2, <1>1
      <4>5. \A i \in 1..m : W[i] = L[i]
        BY <1>1, <4>2
      <4> HIDE DEF a, b
      <4>6. a = b
        BY <4>3, <4>4, <4>5, SeqEqual
      <4>. QED
        BY <4>2, <4>6 DEF a, b
    <3>3. \A ev, sv : RecoveredFocus(W, st, ev, m + 1, sv) <=> RecoveredFocus(L, st, ev, m + 1, sv)
      BY <3>1, <3>2 DEF RecoveredFocus
    <3>4. RecoveredSemantics(W, st, m + 1) <=> RecoveredSemantics(L, st, m + 1)
      BY <2>5, <3>3 DEF RecoveredSemantics
    <3>. QED
      BY <2>5, <3>4 DEF LineOK
  <2>7. h[1..(m + 1)] = g[1..(m + 1)]
    BY <2>3, <2>4, <2>5, <2>6, RecoverLineIs
  <2> DEFINE next == RecoverLine(L, st, m + 1)
  <2>8. DOMAIN next = DOMAIN Unread /\ next.focus \in 0..(m + 1)
    <3>1. CASE next = Remember(st, Ev(L, m + 1), L[m + 1].sv, m + 1)
      <4>1. DOMAIN next = DOMAIN st
        BY <3>1 DEF Remember
      <4> HIDE DEF next
      <4>2. next.focus = IF Ev(L, m + 1).k = "focus" THEN m + 1 ELSE st.focus
        BY <2>2, <3>1, StateFields DEF Remember
      <4>. QED
        BY <2>2, <4>1, <4>2
    <3>2. CASE next = [st EXCEPT !.ok = FALSE]
      <4> HIDE DEF next
      <4>1. DOMAIN next = DOMAIN st /\ next.focus = st.focus
        BY <2>2, <3>2, StateFields
      <4>. QED
        BY <2>2, <4>1
    <3>. QED
      BY <3>1, <3>2, RecoverLineIs
  <2>. QED
    BY <2>3, <2>7, <2>8
<1> HIDE DEF S
<1>5. \A m \in Nat : m \in S
  BY <1>3, <1>4, NatSetInduction
<1>. QED
  BY <1>1, <1>5 DEF S, N

\* Nothing recovers.
LEMMA RecoverNothing == Recover(<<>>) = Unread
<1>1. PICK g : Recovering(g, 1..0, <<>>)
  BY RecoveringExists
<1>2. 1..0 = {} /\ DOMAIN <<>> = {}
  OBVIOUS
<1>3. Recovering(CHOOSE x : Recovering(x, {}, <<>>), {}, <<>>)
  BY <1>1, <1>2
<1> DEFINE f == CHOOSE x : Recovering(x, {}, <<>>)
<1>4. Recover(<<>>) = f[{}]
  BY <1>2, RecoverIs
<1> HIDE DEF f
<1>5. f[{}] = Unread
  <2>1. {} \in SUBSET {}
    OBVIOUS
  <2>. QED
    BY <1>3, <2>1 DEF Recovering, f
<1>. QED
  BY <1>4, <1>5

\* Recovery reads the record that was appended last where it stopped before.
LEMMA RecoverAppend ==
    ASSUME NEW L, IsLedger(L), NEW r
    PROVE  Recover(Append(L, r)) = RecoverLine(Append(L, r), Recover(L), Len(L) + 1)
<1> DEFINE W == Append(L, r)
           N == Len(L)
           g == CHOOSE x : Recovering(x, DOMAIN L, L)
           h == CHOOSE x : Recovering(x, DOMAIN W, W)
<1>1. /\ N \in Nat /\ DOMAIN L = 1..N /\ IsLedger(W) /\ Len(W) = N + 1 /\ DOMAIN W = 1..(N + 1)
  BY AppendEv, LedgerAppend
<1> HIDE DEF W
<1>2. Recovering(g, DOMAIN L, L) /\ Recovering(h, DOMAIN W, W)
  <2>1. \E x : Recovering(x, 1..N, L)
    BY <1>1, RecoveringExists
  <2>2. \E x : Recovering(x, 1..(N + 1), W)
    BY <1>1, RecoveringExists
  <2>. QED
    BY <1>1, <2>1, <2>2
<1>3. Recover(L) = g[DOMAIN L] /\ Recover(W) = h[DOMAIN W]
  BY RecoverIs
<1> HIDE DEF g, h, N
<1>4. h[1..N] = g[1..N]
  BY <1>1, <1>2, RecoveringAgrees DEF W, N
<1>5. h[1..(N + 1)] = RecoverLine(W, h[1..N], N + 1)
  BY <1>1, <1>2, RecoveringStep
<1>6. Recover(W) = RecoverLine(W, Recover(L), N + 1)
  BY <1>1, <1>3, <1>4, <1>5
<1>. QED
  BY <1>6 DEF W, N

\* A ledger that is not empty is what was there before its last record, and that.
LEMMA LastRecord ==
    ASSUME NEW L, IsLedger(L), NEW m \in Nat, Len(L) = m + 1
    PROVE  \E F : /\ IsLedger(F) /\ Len(F) = m /\ L = Append(F, L[m + 1])
                  /\ \A i \in 1..m : F[i] = L[i]
<1> DEFINE F == SubSeq(L, 1, m)
           W == Append(F, L[m + 1])
           T == Range(L)
<1>1. L \in Seq(T) /\ DOMAIN L = 1..(m + 1)
  BY LedgerFacts DEF IsLedger
<1>2. L[m + 1] \in T
  BY <1>1 DEF Range
<1> HIDE DEF T
<1>3. F \in Seq(T) /\ Len(F) = m /\ \A i \in 1..m : F[i] = L[i]
  BY <1>1
<1> HIDE DEF F
<1>4. W \in Seq(T) /\ Len(W) = m + 1 /\ W[m + 1] = L[m + 1] /\ \A i \in 1..m : W[i] = F[i]
  BY <1>2, <1>3, AppendProperties
<1>5. \A i \in 1..(m + 1) : W[i] = L[i]
  BY <1>3, <1>4
<1>6. L = W
  BY <1>1, <1>4, <1>5, SeqEqual
<1>7. IsLedger(F)
  BY <1>3, SequenceIsLedger
<1>. QED
  BY <1>3, <1>6, <1>7

\* One line of recovery, from a state it came to.
LEMMA RecoverLineOK ==
    ASSUME NEW L, NEW st, DOMAIN st = DOMAIN Unread, NEW n
    PROVE  /\ DOMAIN RecoverLine(L, st, n) = DOMAIN Unread
           /\ RecoverLine(L, st, n).ok <=> LineOK(L, st, n)
           /\ LineOK(L, st, n) => st.ok /\ RecoverLine(L, st, n) = Remember(st, Ev(L, n), L[n].sv, n)
<1> DEFINE M == Remember(st, Ev(L, n), L[n].sv, n)
           X == [st EXCEPT !.ok = FALSE]
<1>1. RecoverLine(L, st, n) = IF LineOK(L, st, n) THEN M ELSE X
  BY RecoverLineIs
<1>2. LineOK(L, st, n) => st.ok
  BY DEF LineOK
<1>3. "ok" \in DOMAIN st
  BY StateFields
<1>4. DOMAIN M = DOMAIN st
  BY DEF Remember
<1>5. M.ok = st.ok
  BY StateFields DEF Remember
<1>6. DOMAIN X = DOMAIN st /\ X.ok = FALSE
  BY <1>3
<1> HIDE DEF M, X
<1>. QED
  BY <1>1, <1>2, <1>4, <1>5, <1>6 DEF M

\* What recovery knows of a ledger it accepts is what the projection says.
LEMMA RecoveryProjects ==
    ASSUME NEW L, IsLedger(L)
    PROVE  /\ DOMAIN Recover(L) = DOMAIN Unread
           /\ AllTyped(L) /\ Recovers(L) => Projects(L, Recover(L))
<1> DEFINE Good(X) == /\ DOMAIN Recover(X) = DOMAIN Unread
                      /\ AllTyped(X) /\ Recovers(X) => Projects(X, Recover(X))
           S == {m \in Nat : \A X : IsLedger(X) /\ Len(X) = m => Good(X)}
<1>1. 0 \in S
  <2> SUFFICES ASSUME NEW X, IsLedger(X), Len(X) = 0 PROVE Good(X)
    OBVIOUS
  <2>1. X = <<>> /\ DOMAIN X = {}
    BY LedgerFacts
  <2>2. Recover(X) = Unread
    BY <2>1, RecoverNothing
  <2> DEFINE st == Unread
  <2>3. \A K : OfKind(X, K) = {} /\ LastOf(X, K) = 0
    <3>1. \A K : OfKind(X, K) = {}
      BY <2>1 DEF OfKind
    <3>2. Max({0} \cup {}) = 0
      BY MaxTop
    <3>. QED
      BY <3>1, <3>2 DEF LastOf
  <2>4. Features(X) = {}
    BY <2>1 DEF Features
  <2>5. SameIdentity(X, Unread)
    BY <2>3, <2>4 DEF SameIdentity, Unread, Core, Released, Effective
  <2>6. SameReadiness(X, Unread)
    BY <2>1, <2>3 DEF SameReadiness, Unread
  <2>7. SameFeatures(X, Unread)
    BY <2>1, <2>4 DEF SameFeatures, Unread
  <2>8. SameWork(X, Unread)
    <3>1. {j \in OfKind(X, {"coord"}) : Ev(X, j).status # "report"} = {}
      BY <2>3
    <3>2. Max({0} \cup {}) = 0
      BY MaxTop
    <3>3. Request(X) = "none"
      BY <3>1, <3>2 DEF Request
    <3>4. LatestObjective(X) = 0 /\ LatestFocus(X) = 0 /\ Episode(X) = 0
      BY <2>3 DEF LatestObjective, LatestFocus, Episode
    <3>. QED
      BY <2>1, <3>3, <3>4 DEF SameWork, Unread
  <2>9. SameOffers(X, Unread)
    <3>1. Unread.offers = {}
      BY DEF Unread
    <3>2. \A o : RecoveredOffer(Unread, o) = "none"
      BY <3>1 DEF RecoveredOffer
    <3>3. \A o : OriginalOffer(X, o) = "none"
      BY <2>3 DEF OriginalOffer
    <3>. QED
      BY <3>1, <3>2, <3>3 DEF SameOffers
  <2>10. Unread.sv = 0
    BY DEF Unread
  <2>11. Projects(X, Unread)
    BY <2>1, <2>5, <2>6, <2>7, <2>8, <2>9, <2>10 DEF Projects
  <2>. QED
    BY <2>2, <2>11
<1>2. ASSUME NEW m \in Nat, m \in S PROVE m + 1 \in S
  <2> SUFFICES ASSUME NEW X, IsLedger(X), Len(X) = m + 1 PROVE Good(X)
    OBVIOUS
  <2> DEFINE r == X[m + 1]
  <2>1. PICK F : IsLedger(F) /\ Len(F) = m /\ X = Append(F, r) /\ \A i \in 1..m : F[i] = X[i]
    BY LastRecord
  <2> DEFINE st == Recover(F)
  <2>2. Good(F)
    BY <1>2, <2>1
  <2>3. Recover(X) = RecoverLine(X, st, m + 1)
    BY <2>1, RecoverAppend
  <2>4. DOMAIN st = DOMAIN Unread
    BY <2>2
  <2>5. DOMAIN X = 1..(m + 1) /\ DOMAIN F = 1..m /\ Ev(X, m + 1) = r.ev
    BY <2>1, LedgerFacts DEF Ev
  <2> HIDE DEF st, r
  <2>6. DOMAIN Recover(X) = DOMAIN Unread /\ (Recovers(X) <=> LineOK(X, st, m + 1))
    <3>1. DOMAIN RecoverLine(X, st, m + 1) = DOMAIN Unread
      BY <2>4, RecoverLineOK
    <3>2. RecoverLine(X, st, m + 1).ok <=> LineOK(X, st, m + 1)
      BY <2>4, RecoverLineOK
    <3>3. Recover(X).ok <=> LineOK(X, st, m + 1)
      BY <2>3, <3>2, Zenon
    <3>. QED
      BY <2>3, <3>1, <3>3 DEF Recovers
  <2>7. ASSUME AllTyped(X), Recovers(X) PROVE Projects(X, Recover(X))
    <3>1. LineOK(X, st, m + 1) /\ st.ok /\ Recover(X) = Remember(st, r.ev, r.sv, m + 1)
      BY <2>3, <2>4, <2>5, <2>6, <2>7, RecoverLineOK DEF r
    <3>2. AllTyped(F) /\ Typed(r)
      BY <2>1, <2>5, <2>7 DEF AllTyped, r
    <3>3. Projects(F, st)
      BY <2>2, <3>1, <3>2 DEF Recovers, st
    <3>4. LineOK(Append(F, r), st, Len(F) + 1)
      BY <2>1, <3>1
    <3>5. Projects(Append(F, r), AfterLine(F, st, r))
      BY <2>1, <3>2, <3>3, <3>4, ProjectsStep
    <3>6. AfterLine(F, st, r) = Recover(X)
      BY <2>1, <3>1 DEF AfterLine
    <3>. QED
      BY <2>1, <3>5, <3>6
  <2>. QED
    BY <2>6, <2>7
<1>3. \A m \in Nat : m \in S
  <2> HIDE DEF S
  <2>. QED
    BY <1>1, <1>2, NatSetInduction
<1>4. Len(L) \in Nat
  BY LedgerFacts
<1>5. Good(L)
  <2> HIDE DEF Good
  <2>. QED
    BY <1>3, <1>4
<1>. QED
  BY <1>5

-----------------------------------------------------------------------------
(***************************************************************************)
(* The wire schema.                                                        *)
(***************************************************************************)
\* The newest feature is the first of the order that is there.
LEMMA NewestIs ==
    ASSUME NEW order, NEW X, DOMAIN order \in SUBSET Nat, NEW n \in DOMAIN order, order[n] \in X,
           \A i \in DOMAIN order : i < n => order[i] \notin X
    PROVE  Newest(order, X) = order[n]
<1> DEFINE there == {i \in DOMAIN order : order[i] \in X}
<1>1. there \in SUBSET Nat /\ n \in there /\ n \in Nat
  OBVIOUS
<1>2. \A i \in there : i \in DOMAIN order /\ order[i] \in X
  OBVIOUS
<1>3. Newest(order, X) = IF there = {} THEN "base" ELSE order[Min(there)]
  BY DEF Newest
<1> HIDE DEF there
<1>4. Min(there) \in there /\ Min(there) <= n
  BY <1>1, MinExists
<1>5. ~ (Min(there) < n) /\ Min(there) \in Nat
  BY <1>1, <1>2, <1>4
<1>6. Min(there) = n
  BY <1>1, <1>4, <1>5
<1>. QED
  BY <1>1, <1>3, <1>6

\* The two orders: the second has the four of a focus before the first.
LEMMA Orders ==
    /\ DOMAIN WireOrder = 1..13 /\ DOMAIN ExpectedOrder = 1..17
    /\ ExpectedOrder[1] = "collab" /\ ExpectedOrder[2] = "quick"
    /\ ExpectedOrder[3] = "bindings" /\ ExpectedOrder[4] = "focus"
    /\ \A i \in 1..13 : /\ ExpectedOrder[i + 4] = WireOrder[i]
                        /\ WireOrder[i] \in PlainFeatures \cup {"profile", "effective"}
                        /\ WireOrder[i] = "profile" => i = 6
    /\ WireOrder[2] = "adopt"
<1>1. DOMAIN WireOrder = 1..13
  BY DEF WireOrder
<1>2. DOMAIN ExpectedOrder = 1..17
  BY DEF ExpectedOrder
<1>3. /\ ExpectedOrder[1] = "collab" /\ ExpectedOrder[2] = "quick"
      /\ ExpectedOrder[3] = "bindings" /\ ExpectedOrder[4] = "focus"
  BY DEF ExpectedOrder
<1>4. ASSUME NEW i \in 1..13
      PROVE /\ ExpectedOrder[i + 4] = WireOrder[i]
            /\ WireOrder[i] \in PlainFeatures \cup {"profile", "effective"}
            /\ WireOrder[i] = "profile" => i = 6
  <2>1. i \in {1, 2, 3, 4, 5, 6, 7, 8, 9, 10, 11, 12, 13}
    OBVIOUS
  <2>. QED
    BY <2>1 DEF ExpectedOrder, WireOrder, PlainFeatures
<1>5. WireOrder[2] = "adopt"
  BY DEF WireOrder
<1>. QED
  BY <1>1, <1>2, <1>3, <1>4, <1>5

\* The level of a focus event, by what it uses.
LEMMA LevelFlags ==
    ASSUME NEW ev
    PROVE  /\ FocusLevel(ev) \in 0..4
           /\ FocusLevel(ev) = 4 <=> HasFlag(ev, "collab")
           /\ FocusLevel(ev) = 3 <=> HasFlag(ev, "quick") /\ ~ HasFlag(ev, "collab")
           /\ FocusLevel(ev) = 2 <=> HasFlag(ev, "bindings") /\ ~ HasFlag(ev, "quick") /\ ~ HasFlag(ev, "collab")
           /\ FocusLevel(ev) = 0 <=> ~ HasFlag(ev, "focus")
           /\ \A f : HasFlag(ev, f) => HasFlag(ev, "focus")
  BY DEF FocusLevel, HasFlag

\* What the schema of a focus event counts as.
LEMMA FocusIs ==
    ASSUME NEW ev
    PROVE  /\ "collab" \in IsFocus(ev) <=> HasFlag(ev, "collab")
           /\ "quick" \in IsFocus(ev) <=> HasFlag(ev, "quick") /\ ~ HasFlag(ev, "collab")
           /\ "bindings" \in IsFocus(ev) <=> FocusLevel(ev) \in {2, 3, 4}
           /\ "focus" \in IsFocus(ev) <=> HasFlag(ev, "focus")
           /\ \A f : f \in IsFocus(ev) => f \in FocusFlags
<1>1. /\ "collab" \in IsFocus(ev) <=> FocusLevel(ev) = 4
      /\ "quick" \in IsFocus(ev) <=> FocusLevel(ev) = 3
      /\ "bindings" \in IsFocus(ev) <=> FocusLevel(ev) >= 2
      /\ "focus" \in IsFocus(ev) <=> FocusLevel(ev) >= 1
      /\ \A f : f \in IsFocus(ev) => f \in FocusFlags
  BY DEF IsFocus, FocusFlags
<1>. QED
  BY <1>1, LevelFlags

\* The append side and the recovery side agree on the schema of a record.
LEMMA SchemaAgrees ==
    ASSUME NEW L, IsLedger(L), NEW st, Projects(L, st), NEW ev
    PROVE  WireSchema(L, ev) = ExpectedSchema(st, ev)
<1> DEFINE X == EventFeatures(ev) \cup Features(L)
           Y == IsFocus(ev) \cup EventFeatures(ev) \cup st.seen \cup IF st.eff # 0 THEN {"effective"} ELSE {}
           Uses(f) == HasFlag(ev, f) \/ \E i \in DOMAIN L : HasFlag(Ev(L, i), f)
           S == {FocusLevel(ev)} \cup {FocusLevel(Ev(L, i)) : i \in DOMAIN L}
<1>1. WireSchema(L, ev) = IF Max(S) > 0 THEN FocusSchemas[Max(S)] ELSE Newest(WireOrder, X)
  BY DEF WireSchema, Features
<1>2. ExpectedSchema(st, ev) = Newest(ExpectedOrder, Y)
  BY DEF ExpectedSchema
<1>3. SameFeatures(L, st) /\ SameIdentity(L, st)
  BY DEF Projects
<1>4. EventFeatures(ev) \subseteq PlainFeatures \cup {"profile", "effective"}
  BY FeaturesOfEvent
<1>5. \A f \in FocusFlags : f \notin EventFeatures(ev) /\ f # "effective"
  BY <1>4 DEF FocusFlags, PlainFeatures
<1>6. \A f \in FocusFlags : f \in Y <=> f \in IsFocus(ev) \/ \E i \in DOMAIN L : HasFlag(Ev(L, i), f)
  BY <1>3, <1>5 DEF SameFeatures
<1>7. \A x : x \in S <=> x = FocusLevel(ev) \/ \E i \in DOMAIN L : x = FocusLevel(Ev(L, i))
  OBVIOUS
<1>8. FocusSchemas[1] = "focus" /\ FocusSchemas[2] = "bindings" /\ FocusSchemas[3] = "quick"
      /\ FocusSchemas[4] = "collab"
  BY DEF FocusSchemas
<1>9. {"focus", "bindings", "quick", "collab"} = FocusFlags
  BY DEF FocusFlags
<1>10. S \in SUBSET (0..4)
  BY <1>7, LevelFlags
<1>11. DOMAIN ExpectedOrder \in SUBSET Nat
  BY Orders
<1> HIDE DEF S, X, Y
<1>12. CASE Uses("collab")
  <2>1. 4 \in S
    BY <1>7, <1>12, LevelFlags
  <2>2. Max(S) = 4
    BY <1>10, <2>1, MaxTop
  <2>3. "collab" \in Y
    BY <1>6, <1>9, <1>12, FocusIs
  <2>4. Newest(ExpectedOrder, Y) = ExpectedOrder[1]
    <3>1. 1 \in DOMAIN ExpectedOrder /\ ExpectedOrder[1] \in Y
          /\ \A i \in DOMAIN ExpectedOrder : i < 1 => ExpectedOrder[i] \notin Y
      BY <2>3, Orders
    <3>. QED
      BY <1>11, <3>1, NewestIs
  <2>. QED
    BY <1>1, <1>2, <1>8, <2>2, <2>4, Orders
<1>13. CASE ~ Uses("collab") /\ Uses("quick")
  <2>1. 3 \in S /\ 4 \notin S
    BY <1>7, <1>13, LevelFlags
  <2>2. S \in SUBSET (0..3)
    BY <1>10, <2>1
  <2>3. Max(S) = 3
    BY <2>1, <2>2, MaxTop
  <2>4. "collab" \notin Y /\ "quick" \in Y
    BY <1>6, <1>9, <1>13, FocusIs
  <2>5. Newest(ExpectedOrder, Y) = ExpectedOrder[2]
    <3>1. 2 \in DOMAIN ExpectedOrder /\ ExpectedOrder[2] \in Y
          /\ \A i \in DOMAIN ExpectedOrder : i < 2 => i = 1
      BY <2>4, Orders
    <3>. QED
      BY <1>11, <2>4, <3>1, NewestIs, Orders
  <2>. QED
    BY <1>1, <1>2, <1>8, <2>3, <2>5, Orders
<1>14. CASE ~ Uses("collab") /\ ~ Uses("quick") /\ Uses("bindings")
  <2>1. 2 \in S /\ 4 \notin S /\ 3 \notin S
    BY <1>7, <1>14, LevelFlags
  <2>2. S \in SUBSET (0..2)
    BY <1>10, <2>1
  <2>3. Max(S) = 2
    BY <2>1, <2>2, MaxTop
  <2>4. "collab" \notin Y /\ "quick" \notin Y /\ "bindings" \in Y
    BY <1>6, <1>9, <1>14, FocusIs, LevelFlags
  <2>5. Newest(ExpectedOrder, Y) = ExpectedOrder[3]
    <3>1. 3 \in DOMAIN ExpectedOrder /\ ExpectedOrder[3] \in Y
          /\ \A i \in DOMAIN ExpectedOrder : i < 3 => i \in {1, 2}
      BY <2>4, Orders
    <3>. QED
      BY <1>11, <2>4, <3>1, NewestIs, Orders
  <2>. QED
    BY <1>1, <1>2, <1>8, <2>3, <2>5, Orders
<1>15. CASE ~ Uses("collab") /\ ~ Uses("quick") /\ ~ Uses("bindings") /\ Uses("focus")
  <2>1. 4 \notin S /\ 3 \notin S /\ 2 \notin S
    BY <1>7, <1>15, LevelFlags
  <2>2. S \in SUBSET (0..1)
    BY <1>10, <2>1
  <2>3. \E x \in S : x # 0
    BY <1>7, <1>15, LevelFlags
  <2>4. Max(S) = 1
    BY <2>2, <2>3, MaxTop
  <2>5. "collab" \notin Y /\ "quick" \notin Y /\ "bindings" \notin Y /\ "focus" \in Y
    BY <1>6, <1>9, <1>15, FocusIs, LevelFlags
  <2>6. Newest(ExpectedOrder, Y) = ExpectedOrder[4]
    <3>1. 4 \in DOMAIN ExpectedOrder /\ ExpectedOrder[4] \in Y
          /\ \A i \in DOMAIN ExpectedOrder : i < 4 => i \in {1, 2, 3}
      BY <2>5, Orders
    <3>. QED
      BY <1>11, <2>5, <3>1, NewestIs, Orders
  <2>. QED
    BY <1>1, <1>2, <1>8, <2>4, <2>6, Orders
<1>16. CASE ~ Uses("focus")
  <2>1. \A x \in S : x = 0
    BY <1>7, <1>16, LevelFlags
  <2>2. 0 \in S /\ S \in SUBSET (0..0)
    <3>1. FocusLevel(ev) \in S
      BY <1>7
    <3>2. 0..0 = {0}
      OBVIOUS
    <3>. QED
      BY <2>1, <3>1, <3>2
  <2>3. Max(S) = 0
    BY <2>2, MaxTop
  <2>4. \A f \in FocusFlags : f \notin Y
    <3>1. \A f : ~ Uses(f)
      BY <1>16, LevelFlags
    <3>2. IsFocus(ev) = {}
      BY <1>9, <3>1, FocusIs, LevelFlags DEF FocusFlags
    <3>. QED
      BY <1>6, <3>1, <3>2
  <2>5. \A f \in PlainFeatures : f \in X <=> f \in Y
    <3>1. \A f \in PlainFeatures : f \notin FocusFlags /\ f # "effective"
      BY DEF PlainFeatures, FocusFlags
    <3>. QED
      BY <1>3, <3>1, FocusIs DEF X, Y, SameFeatures
  <2>6. "effective" \in X <=> "effective" \in Y
    <3>1. "effective" \notin FocusFlags
      BY DEF FocusFlags
    <3>. QED
      BY <1>3, <3>1, FocusIs DEF X, Y, SameFeatures, SameIdentity
  <2>7. ("profile" \in X => "profile" \in Y) /\ ("profile" \in Y => "profile" \in X \/ "adopt" \in X)
    <3>1. "profile" \notin FocusFlags
      BY DEF FocusFlags
    <3>. QED
      BY <1>3, <3>1, FocusIs DEF X, Y, SameFeatures
  <2>8. \A i \in 1..17 : i \in {1, 2, 3, 4} \/ i - 4 \in 1..13
    OBVIOUS
  <2>9. \A i \in {1, 2, 3, 4} : ExpectedOrder[i] \notin Y
    BY <1>9, <2>4, Orders
  <2>10. CASE \A i \in 1..13 : WireOrder[i] \notin X
    <3>1. Newest(WireOrder, X) = "base"
      BY <2>10, Orders DEF Newest
    <3>2. "adopt" \notin X
      BY <2>10, Orders
    <3>3. \A i \in 1..13 : ExpectedOrder[i + 4] \notin Y
      BY <2>5, <2>6, <2>7, <2>10, <3>2, Orders
    <3>4. ASSUME NEW i \in 1..17 PROVE ExpectedOrder[i] \notin Y
      <4>1. CASE i \in {1, 2, 3, 4}
        BY <2>9, <4>1
      <4>2. CASE i - 4 \in 1..13
        <5>1. (i - 4) + 4 = i
          OBVIOUS
        <5>. QED
          BY <3>3, <4>2, <5>1
      <4>. QED
        BY <2>8, <4>1, <4>2
    <3>5. Newest(ExpectedOrder, Y) = "base"
      BY <3>4, Orders DEF Newest
    <3>. QED
      BY <1>1, <1>2, <2>3, <3>1, <3>5
  <2>11. CASE \E i \in 1..13 : WireOrder[i] \in X
    <3> DEFINE there == {i \in 1..13 : WireOrder[i] \in X}
    <3>1. there \in SUBSET Nat /\ there # {} /\ there \in SUBSET (1..13)
      BY <2>11
    <3>2. \A i : i \in there <=> i \in 1..13 /\ WireOrder[i] \in X
      OBVIOUS
    <3> DEFINE m == Min(there)
    <3> HIDE DEF there
    <3>3. m \in there /\ \A y \in there : m <= y
      BY <3>1, MinExists
    <3>4. m \in 1..13 /\ WireOrder[m] \in X
      BY <3>2, <3>3
    <3> HIDE DEF m
    <3>5. Newest(WireOrder, X) = WireOrder[m]
      <4>1. \A i \in 1..13 : i < m => WireOrder[i] \notin X
        BY <3>2, <3>3, <3>4
      <4>2. DOMAIN WireOrder \in SUBSET Nat /\ DOMAIN WireOrder = 1..13
        BY Orders
      <4>. QED
        BY <3>4, <4>1, <4>2, NewestIs
    <3>6. ExpectedOrder[m + 4] = WireOrder[m] /\ WireOrder[m] \in Y
      <4>1. ExpectedOrder[m + 4] = WireOrder[m] /\ WireOrder[m] \in PlainFeatures \cup {"profile", "effective"}
        BY <3>4, Orders
      <4>. QED
        BY <2>5, <2>6, <2>7, <3>4, <4>1
    <3>7. ASSUME NEW i \in 1..17, i < m + 4 PROVE ExpectedOrder[i] \notin Y
      <4>1. CASE i \in {1, 2, 3, 4}
        BY <2>9, <4>1
      <4>2. CASE i - 4 \in 1..13
        <5> DEFINE j == i - 4
        <5>1. j + 4 = i /\ j < m /\ j \in 1..13
          BY <3>4, <3>7, <4>2
        <5> HIDE DEF j
        <5>2. /\ ExpectedOrder[i] = WireOrder[j]
              /\ WireOrder[j] \in PlainFeatures \cup {"profile", "effective"}
              /\ WireOrder[j] = "profile" => j = 6
          BY <5>1, Orders
        <5>3. WireOrder[j] \notin X
          BY <3>2, <3>3, <3>4, <5>1
        <5>4. CASE WireOrder[j] = "profile"
          <6>1. m > 6
            BY <3>4, <5>1, <5>2, <5>4
          <6>2. 2 \notin there
            BY <3>3, <3>4, <6>1
          <6>3. "adopt" \notin X
            BY <3>2, <6>2, Orders
          <6>. QED
            BY <2>7, <5>2, <5>3, <5>4, <6>3
        <5>. QED
          BY <2>5, <2>6, <5>2, <5>3, <5>4
      <4>. QED
        BY <2>8, <4>1, <4>2
    <3>8. Newest(ExpectedOrder, Y) = ExpectedOrder[m + 4]
      <4>1. m + 4 \in 1..17 /\ ExpectedOrder[m + 4] \in Y /\ DOMAIN ExpectedOrder = 1..17
        BY <3>4, <3>6, Orders
      <4>. QED
        BY <1>11, <3>7, <4>1, NewestIs
    <3>. QED
      BY <1>1, <1>2, <2>3, <3>5, <3>6, <3>8
  <2>. QED
    BY <2>10, <2>11
<1>. QED
  BY <1>12, <1>13, <1>14, <1>15, <1>16

-----------------------------------------------------------------------------
(***************************************************************************)
(* What is appended is recovered.                                          *)
(***************************************************************************)
\* An entry of a batch that a handler prepares on L: typed, not an import, and an
\* objective or an evidence record at the state version it was decided on, which
\* the append side does not check.
Proper(L, e) ==
    /\ Typed(e)
    /\ e.ev.k # "imported"
    /\ e.ev.k \in {"objective", "evidence"} => e.sv = StateVersion(L)

\* The evidence that a focus refers to is the one recovery has read.
LEMMA EvidenceBefore ==
    ASSUME NEW L, IsLedger(L), NEW r
    PROVE  AdmittedEvidence(SubSeq(Append(L, r), 1, (Len(L) + 1) - 1)) = AdmittedEvidence(L)
<1> DEFINE W == Append(L, r)
           T == Range(L) \cup Range(W)
           N == Len(L)
<1>1. /\ N \in Nat /\ IsLedger(W) /\ Len(W) = N + 1 /\ \A i \in 1..N : W[i] = L[i]
      /\ DOMAIN L = 1..N
  BY AppendEv, LedgerAppend
<1>2. L \in Seq(T) /\ W \in Seq(T)
  BY <1>1 DEF IsLedger
<1> HIDE DEF W, T
<1> DEFINE b == SubSeq(W, 1, N)
<1>3. b \in Seq(T) /\ Len(b) = N /\ \A i \in 1..N : b[i] = W[i]
  BY <1>1, <1>2
<1> HIDE DEF b
<1>4. b = L
  BY <1>1, <1>2, <1>3, SeqEqual
<1>5. (N + 1) - 1 = N
  BY <1>1
<1>. QED
  BY <1>4, <1>5 DEF b, W

\* Each kind of event: the rule of the append side gives that of the recovery side.
LEMMA TransitionAccepted ==
    ASSUME NEW L, IsLedger(L), L # <<>>, NEW st, Projects(L, st), NEW e, Proper(L, e),
           NEW first, Admits(L, e, first)
    PROVE  e.sv >= st.sv /\ RecoveredTransition(st, e.ev, Len(L) + 1, e.sv)
<1> DEFINE n == Len(L) + 1
<1>1. /\ st.sv \in Nat /\ st.sv = StateVersion(L) /\ e.sv \in Nat
      /\ SameIdentity(L, st) /\ SameWork(L, st)
  BY DEF Projects, Proper, Typed
<1>2. /\ st.core = Core(L) /\ (st.released <=> Released(L)) /\ st.eff = Effective(L)
      /\ st.phase = Phase(L) /\ st.episode = Episode(L) /\ st.request = Request(L)
  BY <1>1 DEF SameIdentity, SameWork
<1>3. n - 1 = Len(L)
  BY LedgerFacts
<1> HIDE DEF n
<1>4. CASE e.ev.k = "release"
  <2>1. PushReleaseTransition(L, e.sv, e.ev)
    BY <1>4 DEF Admits
  <2>2. e.sv = st.sv + 1 /\ st.eff = 0 /\ ValidRelease(e.ev, st.core, n - 1)
    BY <1>1, <1>2, <1>3, <2>1 DEF PushReleaseTransition
  <2>3. e.sv >= st.sv
    BY <1>1, <2>2
  <2>4. RecoveredTransition(st, e.ev, n, e.sv)
    BY <1>4, <2>2 DEF RecoveredTransition
  <2>. QED
    BY <2>3, <2>4 DEF n
<1>5. CASE e.ev.k = "pack"
  <2>1. PushDomainPackTransition(L, e.sv, e.ev)
    BY <1>5 DEF Admits
  <2>2. e.sv = st.sv + 1 /\ ValidPack(e.ev, st.core, st.eff, n - 1)
    BY <1>1, <1>2, <1>3, <2>1 DEF PushDomainPackTransition
  <2>3. e.sv >= st.sv
    BY <1>1, <2>2
  <2>4. RecoveredTransition(st, e.ev, n, e.sv)
    BY <1>5, <2>2 DEF RecoveredTransition
  <2>. QED
    BY <2>3, <2>4 DEF n
<1>6. CASE e.ev.k = "rebase"
  <2>1. PushCoreDomainPackRebase(L, e.sv, e.ev)
    BY <1>6 DEF Admits
  <2>2. e.sv = st.sv + 1 /\ ValidRebase(e.ev, st.core, st.eff, n - 1)
    BY <1>1, <1>2, <1>3, <2>1 DEF PushCoreDomainPackRebase
  <2>3. e.sv >= st.sv
    BY <1>1, <2>2
  <2>4. RecoveredTransition(st, e.ev, n, e.sv)
    BY <1>6, <2>2 DEF RecoveredTransition
  <2>. QED
    BY <2>3, <2>4 DEF n
<1>7. CASE e.ev.k = "episode"
  <2>1. PushPostBuildVerifyEpisode(L, e.sv, e.ev)
    BY <1>7 DEF Admits
  <2>2. e.sv = st.sv + 1
    BY <1>1, <2>1 DEF PushPostBuildVerifyEpisode
  <2>3. ValidEpisode(e.ev, st.phase, st.released, st.core, n - 1, st.sv, st.episode, FALSE)
    BY <1>1, <1>2, <1>3, <2>1 DEF PushPostBuildVerifyEpisode, ValidEpisode
  <2>4. e.sv >= st.sv
    BY <1>1, <2>2
  <2>5. RecoveredTransition(st, e.ev, n, e.sv)
    BY <1>7, <2>2, <2>3 DEF RecoveredTransition
  <2>. QED
    BY <2>4, <2>5 DEF n
<1>8. CASE e.ev.k = "coord"
  <2>1. PushCoordinationState(L, e.sv, e.ev)
    BY <1>8 DEF Admits
  <2>2. e.sv = st.sv + 1 /\ ValidCoordination(e.ev, n - 1, st.sv, st.request)
    BY <1>1, <1>2, <1>3, <2>1 DEF PushCoordinationState
  <2>3. e.sv >= st.sv
    BY <1>1, <2>2
  <2>4. RecoveredTransition(st, e.ev, n, e.sv)
    BY <1>8, <2>2 DEF RecoveredTransition
  <2>. QED
    BY <2>3, <2>4 DEF n
<1>9. CASE e.ev.k \notin {"release", "pack", "rebase", "episode", "coord"}
  <2>1. e.sv >= st.sv
    <3>1. CASE e.ev.k \in {"action", "intent"}
      BY <1>1, <3>1 DEF Admits, PushVerifiedBrokerAction
    <3>2. CASE e.ev.k = "adopt"
      BY <1>1, <3>2 DEF Admits, PushLegacySoloAdoption
    <3>3. CASE e.ev.k \in {"objective", "evidence"}
      BY <1>1, <3>3 DEF Proper
    <3>4. CASE e.ev.k = "focus"
      BY <1>1, <3>4 DEF Admits, PushWorkFocus
    <3>5. CASE e.ev.k \notin {"action", "intent", "adopt", "objective", "evidence", "focus"}
      <4>1. PushEvent(L, e.sv, e.ev)
        BY <1>9, <3>5 DEF Admits
      <4>. QED
        BY <1>1, <4>1 DEF PushEvent
    <3>. QED
      BY <3>1, <3>2, <3>3, <3>4, <3>5
  <2>2. e.ev.k = "phase" => ValidPhaseSource(e.ev, st.phase)
    BY <1>2 DEF Admits, PushEvent
  <2>3. RecoveredTransition(st, e.ev, n, e.sv)
    BY <1>9, <2>2 DEF RecoveredTransition
  <2>. QED
    BY <2>1, <2>3 DEF n
<1>. QED
  BY <1>4, <1>5, <1>6, <1>7, <1>8, <1>9

\* So for the cooperative events.
LEMMA SemanticsAccepted ==
    ASSUME NEW L, IsLedger(L), L # <<>>, NEW st, Projects(L, st), NEW e, Proper(L, e),
           NEW first, Admits(L, e, first), NEW r, r.ev = e.ev, r.sv = e.sv
    PROVE  RecoveredSemantics(Append(L, r), st, Len(L) + 1)
<1> DEFINE n == Len(L) + 1
           W == Append(L, r)
<1>1. /\ st.sv \in Nat /\ st.sv = StateVersion(L) /\ e.sv \in Nat
      /\ SameIdentity(L, st) /\ SameWork(L, st) /\ SameReadiness(L, st) /\ SameFeatures(L, st)
      /\ SameOffers(L, st)
  BY DEF Projects, Proper, Typed
<1>2. /\ st.core = Core(L) /\ st.eff = Effective(L) /\ st.phase = Phase(L)
      /\ st.objective = LatestObjective(L) /\ st.focus = LatestFocus(L)
      /\ st.rev = (IF LatestObjective(L) = 0 THEN 0 ELSE Ev(L, LatestObjective(L)).rev)
      /\ st.profile = ReadinessProfile(L)
  BY <1>1 DEF SameIdentity, SameWork, SameReadiness
<1>3. n - 1 = Len(L)
  BY LedgerFacts
<1>4. Ev(W, n) = e.ev /\ W[n].sv = e.sv
  BY AppendEv, LedgerAppend
<1>5. AdmittedEvidence(SubSeq(W, 1, n - 1)) = AdmittedEvidence(L)
  BY EvidenceBefore
<1>6. LatestFocus(L) # 0 => Ev(W, LatestFocus(L)) = Ev(L, LatestFocus(L))
  BY AppendFocus
<1> HIDE DEF n, W
<1>7. CASE e.ev.k = "adopt"
  <2>1. PushLegacySoloAdoption(L, e.sv, e.ev)
    BY <1>7 DEF Admits
  <2>2. st.legacy
    BY <1>1, <2>1 DEF PushLegacySoloAdoption, SameReadiness
  <2>3. ~ st.adopted
    BY <1>1, <2>1 DEF PushLegacySoloAdoption, SameReadiness, ReadinessProfile
  <2>4. st.supported
    BY <1>1, <2>1, <2>2 DEF PushLegacySoloAdoption, SameReadiness
  <2>5. RecoveredAdoption(st, e.ev, n, e.sv)
    BY <1>1, <1>2, <1>3, <2>1, <2>2, <2>3, <2>4 DEF PushLegacySoloAdoption, RecoveredAdoption
  <2>6. RecoveredSemantics(W, st, n)
    BY <1>4, <1>7, <2>5 DEF RecoveredSemantics
  <2>. QED
    BY <2>6 DEF n, W
<1>8. CASE e.ev.k = "objective"
  <2>1. PushCooperativeObjective(L, e.sv, e.ev)
    BY <1>8 DEF Admits
  <2>2. "intent" \notin st.seen
    <3>1. "intent" \notin Features(L)
      <4>1. \A i \in DOMAIN L : Ev(L, i).k # "intent"
        BY <2>1 DEF PushCooperativeObjective, OfKind
      <4>. QED
        BY <4>1, FeaturesOfEvent DEF Features
    <3>. QED
      BY <1>1, <3>1 DEF SameFeatures, PlainFeatures
  <2>3. RecoveredObjective(st, e.ev, n)
    BY <1>2, <1>3, <2>1, <2>2 DEF PushCooperativeObjective, RecoveredObjective
  <2>4. RecoveredSemantics(W, st, n)
    BY <1>4, <1>8, <2>3 DEF RecoveredSemantics
  <2>. QED
    BY <2>4 DEF n, W
<1>9. CASE e.ev.k = "evidence"
  <2>1. PushCooperativeEvidence(L, e.sv, e.ev) /\ e.sv = StateVersion(L)
    BY <1>9 DEF Admits, Proper
  <2>2. ValidOffer(e.ev, RecoveredOffer(st, e.ev.offer))
    BY <1>1, <2>1 DEF PushCooperativeEvidence, ValidOffer, SameOffers
  <2>3. RecoveredEvidence(st, e.ev, n, e.sv)
    BY <1>2, <1>3, <2>1, <2>2 DEF PushCooperativeEvidence, RecoveredEvidence
  <2>4. RecoveredSemantics(W, st, n)
    BY <1>4, <1>9, <2>3 DEF RecoveredSemantics
  <2>. QED
    BY <2>4 DEF n, W
<1>10. CASE e.ev.k = "focus"
  <2>1. PushWorkFocus(L, e.sv, e.ev)
    BY <1>10 DEF Admits
  <2>2. (IF st.focus = 0 THEN e.ev ELSE Ev(W, st.focus))
           = (IF LatestFocus(L) = 0 THEN e.ev ELSE Ev(L, LatestFocus(L)))
    BY <1>2, <1>6
  <2>3. RecoveredFocus(W, st, e.ev, n, e.sv)
    BY <1>2, <1>3, <1>5, <2>1, <2>2 DEF PushWorkFocus, RecoveredFocus
  <2>4. RecoveredSemantics(W, st, n)
    BY <1>4, <1>10, <2>3 DEF RecoveredSemantics
  <2>. QED
    BY <2>4 DEF n, W
<1>11. CASE e.ev.k \notin {"adopt", "objective", "evidence", "focus"}
  BY <1>4, <1>11 DEF RecoveredSemantics, n, W
<1>. QED
  BY <1>7, <1>8, <1>9, <1>10, <1>11

\* An entry that the append side admits is one that the recovery side accepts.
LEMMA EntryAccepted ==
    ASSUME NEW L, IsLedger(L), L # <<>>, AllTyped(L), Recovers(L), NEW e, Proper(L, e),
           NEW first, Admits(L, e, first)
    PROVE  LET W == Append(L, RecordOf(L, e))
           IN  IsLedger(W) /\ AllTyped(W) /\ Recovers(W) /\ StateVersion(W) = e.sv
<1> DEFINE r == RecordOf(L, e)
           W == Append(L, r)
           st == Recover(L)
           n == Len(L) + 1
<1>1. r.ev = e.ev /\ r.sv = e.sv /\ r.core = Core(L) /\ r.schema = WireSchema(L, e.ev)
  BY DEF RecordOf
<1>2. Projects(L, st) /\ DOMAIN st = DOMAIN Unread
  BY RecoveryProjects
<1>3. st.ok
  BY DEF Recovers
<1> HIDE DEF r, st
<1>4. /\ Len(L) \in Nat /\ Len(L) # 0 /\ DOMAIN L = 1..Len(L) /\ Ev(W, n) = e.ev /\ W[n] = r
      /\ IsLedger(W) /\ DOMAIN W = DOMAIN L \cup {n} /\ \A i \in DOMAIN L : W[i] = L[i]
  BY <1>1, AppendEv, LedgerFacts, LedgerAppend
<1>5. n <= MaxRecords
  BY <1>4, MaxRecordsAssumption DEF Admits, HasRoom
<1>6. (n = 1) <=> (e.ev.k = "imported")
  BY <1>4 DEF Proper
<1>7. r.schema = ExpectedSchema(st, e.ev)
  BY <1>1, <1>2, SchemaAgrees
<1>8. e.ev.k = "origin" /\ "strict" \in st.seen => e.ev.strict
  <2> SUFFICES ASSUME e.ev.k = "origin", "strict" \in st.seen PROVE e.ev.strict
    OBVIOUS
  <2>1. "strict" \in Features(L)
    BY <1>2 DEF Projects, SameFeatures, PlainFeatures
  <2>2. \E i \in DOMAIN L : "strict" \in EventFeatures(Ev(L, i))
    BY <2>1 DEF Features
  <2>3. StrictSeen(L)
    BY <2>2, FeaturesOfEvent DEF StrictSeen, OfKind
  <2>. QED
    BY <2>3 DEF Admits, PushEvent
<1>9. r.core = st.core
  BY <1>1, <1>2 DEF Projects, SameIdentity
<1>10. e.sv >= st.sv /\ RecoveredTransition(st, e.ev, n, e.sv)
  BY <1>2, TransitionAccepted
<1>11. RecoveredSemantics(W, st, n)
  BY <1>1, <1>2, SemanticsAccepted
<1>12. LineOK(W, st, n)
  <2> HIDE DEF W, n
  <2>. QED
    BY <1>1, <1>3, <1>4, <1>5, <1>6, <1>7, <1>8, <1>9, <1>10, <1>11 DEF LineOK
<1>13. Recover(W) = RecoverLine(W, st, n)
  BY RecoverAppend DEF st
<1>14. Recovers(W)
  <2>1. RecoverLine(W, st, n).ok <=> LineOK(W, st, n)
    BY <1>2, RecoverLineOK
  <2>2. Recover(W).ok
    BY <1>12, <1>13, <2>1, Zenon
  <2>. QED
    BY <2>2 DEF Recovers
<1>15. AllTyped(W)
  <2>1. Typed(r)
    BY <1>1 DEF Proper, Typed
  <2> HIDE DEF W
  <2>. QED
    BY <1>4, <2>1 DEF AllTyped
<1>16. StateVersion(W) = e.sv
  BY <1>1, AppendVersion
<1>. QED
  BY <1>4, <1>14, <1>15, <1>16 DEF r

\* An entry that may stand anywhere in a batch.
Plain(e) == Typed(e) /\ e.ev.k \notin {"imported", "objective", "evidence"}

\* A batch as the handlers prepare them: only its first event may be an objective or
\* an evidence record.
ProperBatch(L, es) ==
    IsLedger(es) /\ \A k \in 1..Len(es) : Plain(es[k]) \/ (k = 1 /\ Proper(L, es[k]))

\* A whole batch that the append side admits is recovered.
LEMMA BatchAccepted ==
    ASSUME NEW L, IsLedger(L), L # <<>>, Readable(L), NEW es, ProperBatch(L, es), Prepare(L, es) # <<>>
    PROVE  Readable(Prepare(L, es))
<1> DEFINE N == Len(es)
           g == CHOOSE g : Preparing(g, 1..N, L, es)
<1>1. N \in Nat /\ DOMAIN es = 1..N
  BY LedgerFacts DEF ProperBatch
<1>2. Preparing(g, 1..N, L, es)
  <2>1. \E x : Preparing(x, 1..N, L, es)
    BY <1>1, PreparingExists
  <2>. QED
    BY <2>1
<1>3. Prepare(L, es) = g[1..N]
  BY <1>1, PrepareIs
<1>4. \A k \in 1..N : Plain(es[k]) \/ (k = 1 /\ Proper(L, es[k]))
  BY DEF ProperBatch
<1> HIDE DEF N, g
<1> DEFINE Good(W, m) == IsLedger(W) /\ AllTyped(W) /\ Recovers(W) /\ (m = 0 => W = L)
           S == {m \in Nat : m <= N => g[1..m] = <<>> \/ Good(g[1..m], m)}
<1>5. 0 \in S
  <2>1. 1..0 = {} /\ {} \in SUBSET (1..N)
    OBVIOUS
  <2>2. g[{}] = L
    BY <1>2, <2>1 DEF Preparing
  <2>3. Good(L, 0)
    BY DEF Readable
  <2>. QED
    BY <2>1, <2>2, <2>3
<1>6. ASSUME NEW m \in Nat, m \in S PROVE m + 1 \in S
  <2>1. SUFFICES ASSUME m + 1 <= N, g[1..(m + 1)] # <<>> PROVE Good(g[1..(m + 1)], m + 1)
    OBVIOUS
  <2>2. m <= N /\ m + 1 \in 1..N /\ m + 1 # 0
    BY <1>1, <2>1
  <2> DEFINE W == g[1..m]
             e == es[m + 1]
  <2>3. g[1..(m + 1)] = Pushed(L, W, e)
    BY <1>1, <1>2, <2>1, PreparingStep
  <2>4. W # <<>> /\ Admits(W, e, W = L) /\ g[1..(m + 1)] = Append(W, RecordOf(W, e))
    BY <2>1, <2>3 DEF Pushed
  <2>5. Good(W, m)
    BY <1>6, <2>2, <2>4
  <2>6. Proper(W, e)
    <3>1. CASE Plain(e)
      BY <3>1 DEF Plain, Proper
    <3>2. CASE m + 1 = 1 /\ Proper(L, e)
      <4>1. m = 0
        BY <3>2
      <4>. QED
        BY <2>5, <3>2, <4>1
    <3>. QED
      BY <1>4, <2>2, <3>1, <3>2
  <2> HIDE DEF W, e
  <2> DEFINE V == Append(W, RecordOf(W, e))
  <2>7. IsLedger(V) /\ AllTyped(V) /\ Recovers(V)
    BY <2>4, <2>5, <2>6, EntryAccepted
  <2> HIDE DEF V
  <2>8. Good(V, m + 1)
    BY <2>2, <2>7
  <2>. QED
    BY <2>4, <2>8 DEF V
<1> HIDE DEF S
<1>7. \A m \in Nat : m \in S
  BY <1>5, <1>6, NatSetInduction
<1>8. N \in S /\ N <= N
  BY <1>1, <1>7
<1>9. Good(g[1..N], N)
  BY <1>3, <1>8 DEF S
<1>. QED
  BY <1>3, <1>9 DEF Readable

\* Two entries, or one.
LEMMA ProperOne ==
    ASSUME NEW L, NEW e, Proper(L, e)
    PROVE  ProperBatch(L, <<e>>) /\ Len(<<e>>) = 1
<1>1. <<e>> \in Seq({e}) /\ Len(<<e>>) = 1 /\ <<e>>[1] = e
  OBVIOUS
<1>2. IsLedger(<<e>>)
  BY <1>1, SequenceIsLedger
<1> DEFINE s == <<e>>
<1> HIDE DEF s
<1>3. \A k \in 1..1 : k = 1
  OBVIOUS
<1>4. IsLedger(s) /\ Len(s) = 1 /\ s[1] = e
  BY <1>1, <1>2 DEF s
<1>5. ProperBatch(L, s) /\ Len(s) = 1
  BY <1>3, <1>4 DEF ProperBatch
<1>. QED
  BY <1>5 DEF s

\* All entries of a batch may stand anywhere.
PlainBatch(es) == IsLedger(es) /\ \A k \in 1..Len(es) : Plain(es[k])

\* One plain entry is a plain batch.
LEMMA PlainOne ==
    ASSUME NEW e, Plain(e)
    PROVE  PlainBatch(<<e>>)
<1> DEFINE s == <<e>>
<1>1. <<e>> \in Seq({e}) /\ Len(<<e>>) = 1 /\ <<e>>[1] = e
  OBVIOUS
<1>2. IsLedger(s) /\ Len(s) = 1 /\ s[1] = e
  BY <1>1, SequenceIsLedger
<1> HIDE DEF s
<1>3. \A k \in 1..1 : k = 1
  OBVIOUS
<1>4. PlainBatch(s)
  BY <1>2, <1>3 DEF PlainBatch
<1>. QED
  BY <1>4 DEF s

\* So is no entry.
LEMMA PlainNone == PlainBatch(<<>>)
<1>1. <<>> \in Seq({}) /\ Len(<<>>) = 0 /\ 1..0 = {}
  OBVIOUS
<1>. QED
  BY <1>1, SequenceIsLedger DEF PlainBatch

\* What a request appends to advance the phase is a plain batch.
LEMMA PlainAdvance ==
    ASSUME NEW L, NEW sv \in Nat, NEW wanted
    PROVE  PlainBatch(PhaseAdvance(L, sv, wanted))
<1>1. CASE wanted /\ Successor(Phase(L)) # "none"
  <2> DEFINE e == Entry(sv, [k |-> "phase", from |-> Phase(L), to |-> Successor(Phase(L))])
  <2>1. Plain(e)
    BY <1>1 DEF Plain, Typed, Entry
  <2>2. PhaseAdvance(L, sv, wanted) = <<e>>
    BY <1>1 DEF PhaseAdvance
  <2> HIDE DEF e
  <2>. QED
    BY <2>1, <2>2, PlainOne
<1>2. CASE ~ (wanted /\ Successor(Phase(L)) # "none")
  BY <1>2, PlainNone DEF PhaseAdvance
<1>. QED
  BY <1>1, <1>2

\* What follows the first part of a batch.
LEMMA ProperThenPlain ==
    ASSUME NEW L, NEW a, ProperBatch(L, a), NEW b, PlainBatch(b)
    PROVE  ProperBatch(L, a \o b)
<1> DEFINE T == Range(a) \cup Range(b)
<1>1. a \in Seq(T) /\ b \in Seq(T) /\ Len(a) \in Nat /\ Len(b) \in Nat
  BY LedgerFacts DEF ProperBatch, PlainBatch, IsLedger
<1> HIDE DEF T
<1>2. /\ a \o b \in Seq(T) /\ Len(a \o b) = Len(a) + Len(b)
      /\ \A i \in 1..(Len(a) + Len(b)) : (a \o b)[i] = IF i <= Len(a) THEN a[i] ELSE b[i - Len(a)]
  BY <1>1, ConcatProperties
<1> DEFINE c == a \o b
<1> HIDE DEF c
<1>3. ASSUME NEW i \in 1..(Len(a) + Len(b)) PROVE Plain(c[i]) \/ (i = 1 /\ Proper(L, c[i]))
  <2>1. CASE i <= Len(a)
    <3>1. c[i] = a[i] /\ i \in 1..Len(a)
      BY <1>1, <1>2, <2>1 DEF c
    <3>. QED
      BY <3>1 DEF ProperBatch
  <2>2. CASE ~ (i <= Len(a))
    <3>1. i - Len(a) \in 1..Len(b) /\ c[i] = b[i - Len(a)]
      BY <1>1, <1>2, <2>2 DEF c
    <3>. QED
      BY <3>1 DEF PlainBatch
  <2>. QED
    BY <2>1, <2>2
<1>4. IsLedger(c) /\ Len(c) = Len(a) + Len(b)
  BY <1>2, SequenceIsLedger DEF c
<1>5. ProperBatch(L, c)
  BY <1>3, <1>4 DEF ProperBatch
<1>. QED
  BY <1>5 DEF c

-----------------------------------------------------------------------------
(***************************************************************************)
(* The handlers again: the ledger each wants is one that is recovered.     *)
(***************************************************************************)
\* What every step keeps, beside IInv.
Legible == Readable(Durable) /\ Readable(op.want) /\ domain.gen \in Nat

\* What a handler does.
WantsReadable == Readable(op'.want) /\ domain' = domain

\* The empty ledger is readable.
LEMMA NothingReadable == Readable(<<>>)
<1>1. DOMAIN <<>> = {}
  OBVIOUS
<1>2. AllTyped(<<>>)
  BY <1>1 DEF AllTyped
<1>3. Recovers(<<>>)
  BY RecoverNothing DEF Recovers, Unread
<1>. QED
  BY <1>2, <1>3 DEF Readable

\* The state version of a ledger.
LEMMA VersionTyped ==
    ASSUME NEW L, IsLedger(L), L # <<>>, AllTyped(L)
    PROVE  StateVersion(L) \in Nat
<1>1. Len(L) \in Nat /\ DOMAIN L = 1..Len(L) /\ Len(L) # 0
  BY LedgerFacts
<1>2. Len(L) \in DOMAIN L
  BY <1>1
<1>. QED
  BY <1>2 DEF StateVersion, Last, AllTyped, Typed

\* The ledger a handler looks at.
LEMMA HandlerLedger ==
    ASSUME IInv, Legible, Recovered
    PROVE  /\ IsLedger(files.target) /\ Readable(files.target)
           /\ files.target # <<>> => StateVersion(files.target) \in Nat
<1>1. Durable = files.target /\ IsLedger(files.target)
  BY CleanDurable DEF Recovered, IInv, LedgerOK
<1>. QED
  BY <1>1, VersionTyped DEF Legible, Readable

\* A replacement by a readable ledger wants a readable ledger.
LEMMA ReplaceReadable ==
    ASSUME IInv, NEW W, Readable(W), NEW stage, Replace(W, stage), UNCHANGED world
    PROVE  WantsReadable
<1>1. PICK pc : op' = [op EXCEPT !.pc = pc, !.want = W, !.stage = stage]
  BY DEF Replace
<1>2. op'.want = W
  BY <1>1 DEF IInv, TypeOK, OpTyped
<1>. QED
  BY <1>2 DEF WantsReadable, world

\* A handler that commits a proper batch wants a readable ledger.
LEMMA CommitReadable ==
    ASSUME IInv, Legible, Recovered, files.target # <<>>, NEW es, ProperBatch(files.target, es), Commit(es)
    PROVE  WantsReadable
<1> DEFINE L == files.target
           W == Prepare(L, es)
<1>1. W # <<>> /\ Replace(W, "final") /\ UNCHANGED world
  BY DEF Commit
<1>2. IsLedger(L) /\ Readable(L)
  BY HandlerLedger
<1>3. Readable(W)
  BY <1>1, <1>2, BatchAccepted
<1>. QED
  BY <1>1, <1>3, ReplaceReadable

\* So does one that commits a proper entry,
LEMMA EntryReadable ==
    ASSUME IInv, Legible, Recovered, files.target # <<>>, NEW e, Proper(files.target, e), Commit(<<e>>)
    PROVE  WantsReadable
  BY ProperOne, CommitReadable

\* and one that commits a proper entry and a phase advance.
LEMMA EntryAndPhaseReadable ==
    ASSUME IInv, Legible, Recovered, files.target # <<>>, NEW e, Proper(files.target, e),
           NEW L, NEW sw \in Nat, NEW wanted, Commit(<<e>> \o PhaseAdvance(L, sw, wanted))
    PROVE  WantsReadable
<1>1. ProperBatch(files.target, <<e>> \o PhaseAdvance(L, sw, wanted))
  BY ProperOne, PlainAdvance, ProperThenPlain
<1>. QED
  BY <1>1, CommitReadable

\* What a handler that is ready may rely on.
LEMMA ReadyLedger ==
    ASSUME IInv, Legible, NEW kinds, Ready(kinds)
    PROVE  Recovered /\ files.target # <<>> /\ StateVersion(files.target) \in Nat
  BY HandlerLedger DEF Ready

\* accept_cooperative_objective: at the state version it was decided on.
LEMMA ObjectiveReadable ==
    ASSUME IInv, Legible, AcceptObjective
    PROVE  WantsReadable
<1> DEFINE L == files.target
           sv == StateVersion(L)
           rev == IF LatestObjective(L) = 0 THEN 0 ELSE Ev(L, LatestObjective(L)).rev
           first(kind) == Entry(sv, [k |-> "objective", rev |-> rev + 1, on |-> Len(L), kind |-> kind])
           back == Entry(sv + 1, [k |-> "phase", from |-> "evolve", to |-> "discovery"])
           after(kind) == IF kind = "material" /\ Phase(L) = "evolve" THEN <<back>> ELSE <<>>
<1>1. Ready({"objective"})
  BY DEF AcceptObjective
<1>2. Recovered /\ L # <<>> /\ sv \in Nat
  BY <1>1, ReadyLedger
<1>3. PICK kind \in {"initial", "material", "clarify"} : Commit(<<first(kind)>> \o after(kind))
  BY DEF AcceptObjective
<1>4. Proper(L, first(kind))
  BY <1>2 DEF Proper, Typed, Entry
<1>5. Plain(back)
  BY <1>2 DEF Plain, Typed, Entry
<1> HIDE DEF first, back
<1>6. PlainBatch(after(kind))
  BY <1>5, PlainOne, PlainNone
<1> HIDE DEF after
<1>7. ProperBatch(L, <<first(kind)>> \o after(kind))
  BY <1>4, <1>6, ProperOne, ProperThenPlain
<1>. QED
  BY <1>2, <1>3, <1>7, CommitReadable

\* observe_cooperative_evidence: so too.
LEMMA EvidenceReadable ==
    ASSUME IInv, Legible, ObserveEvidence
    PROVE  WantsReadable
<1> DEFINE L == files.target
           sv == StateVersion(L)
           bundle == IF domain.gen # 0 THEN <<"pack", domain.gen>> ELSE <<"core", Core(L)>>
           event(offer, digest, verdict, prior) ==
               [k |-> "evidence", offer |-> offer, digest |-> digest, verdict |-> verdict,
                prior |-> prior, obj |-> LatestObjective(L), bundle |-> bundle, on |-> Len(L), at |-> sv]
<1>1. Ready({"evidence"})
  BY DEF ObserveEvidence
<1>2. Recovered /\ L # <<>> /\ sv \in Nat
  BY <1>1, ReadyLedger
<1>3. PICK offer \in Offers \cup {"none"}, digest \in Digests,
           verdict \in {"admitted", "rejected", "conflict"}, prior \in BOOLEAN, wanted \in BOOLEAN :
               Commit(<<Entry(sv, event(offer, digest, verdict, prior))>> \o PhaseAdvance(L, sv + 1, wanted))
  <2> DEFINE Seen(d) == \E n \in OfKind(L, {"evidence"}) : Ev(L, n).digest = d
             Taken(o, d) == \E n \in OfKind(L, {"evidence"}) : Ev(L, n).offer = o /\ Ev(L, n).digest # d
  <2>1. \E offer \in Offers \cup {"none"}, digest \in Digests,
           verdict \in {"admitted", "rejected", "conflict"}, prior, wanted \in BOOLEAN :
               /\ ~ Seen(digest)
               /\ (verdict = "conflict") <=> (offer # "none" /\ Taken(offer, digest))
               /\ offer = "none" => verdict = "rejected"
               /\ prior => verdict = "admitted" /\ AdmittedEvidence(L) # {}
               /\ wanted => verdict = "admitted"
               /\ Commit(<<Entry(sv, event(offer, digest, verdict, prior))>>
                         \o PhaseAdvance(L, sv + 1, wanted))
    BY Zenon DEF ObserveEvidence
  <2> HIDE DEF Seen, Taken, event, L, sv
  <2>. QED
    BY <2>1, Zenon
<1> DEFINE e == Entry(sv, event(offer, digest, verdict, prior))
<1>4. digest # "none"
  BY GovernanceLedgerAssumption
<1>5. Proper(L, e)
  BY <1>2, <1>4 DEF Proper, Typed, Entry
<1>6. sv + 1 \in Nat
  BY <1>2
<1>7. Commit(<<e>> \o PhaseAdvance(L, sv + 1, wanted))
  BY <1>3
<1> HIDE DEF e, sv
<1>. QED
  BY <1>2, <1>5, <1>6, <1>7, EntryAndPhaseReadable

\* start, supersede; checkpoint, bind references, complete.
LEMMA FocusReadable ==
    ASSUME IInv, Legible, BeginFocus \/ ContinueFocus
    PROVE  WantsReadable
<1> DEFINE L == files.target
<1>1. Ready({"focus"})
  BY DEF BeginFocus, ContinueFocus
<1>2. Recovered /\ L # <<>> /\ StateVersion(L) \in Nat
  BY <1>1, ReadyLedger
<1>3. PICK ev : ev.k = "focus" /\ Commit(<<Entry(StateVersion(L), ev)>>)
  <2>1. CASE BeginFocus
    <3>1. \E id, c : Commit(<<Entry(StateVersion(L), FreshFocus(L, id, c))>>)
      BY <2>1 DEF BeginFocus
    <3>2. \A id, c : FreshFocus(L, id, c).k = "focus"
      BY DEF FreshFocus
    <3>. QED
      BY <3>1, <3>2
  <2>2. CASE ContinueFocus
    <3> DEFINE event(c, state) == [FreshFocus(L, Ev(L, LatestFocus(L)).id, c) EXCEPT !.state = state]
    <3>1. \E c, state : Commit(<<Entry(StateVersion(L), event(c, state))>>)
      BY <2>2 DEF ContinueFocus
    <3>2. \A c, state : event(c, state).k = "focus"
      BY DEF FreshFocus
    <3> HIDE DEF event
    <3>. QED
      BY <3>1, <3>2
  <2>. QED
    BY <2>1, <2>2
<1> DEFINE e == Entry(StateVersion(L), ev)
<1>4. Proper(L, e)
  BY <1>2, <1>3 DEF Proper, Typed, Entry
<1> HIDE DEF e
<1>. QED
  BY <1>2, <1>3, <1>4, EntryReadable DEF e

\* The signed observations.
LEMMA AuthorisedReadable ==
    ASSUME IInv, Legible, NEW what \in {"capability", "evaluation", "decision", "waiver"}, RecordAuthorised(what)
    PROVE  WantsReadable
<1> DEFINE L == files.target
           e == Fact(StateVersion(L), what)
<1>1. Ready({"authorised"}) /\ Commit(<<e>>)
  BY DEF RecordAuthorised
<1>2. Recovered /\ L # <<>> /\ StateVersion(L) \in Nat
  BY <1>1, ReadyLedger
<1>3. Proper(L, e)
  BY <1>2 DEF Proper, Typed, Fact, Entry
<1> HIDE DEF e
<1>. QED
  BY <1>1, <1>2, <1>3, EntryReadable

\* An applicability decision wants a readable ledger.
LEMMA ApplicabilityReadable ==
    ASSUME IInv, Legible, RecordApplicability
    PROVE  WantsReadable
<1> DEFINE L == files.target
           sv == StateVersion(L)
           e == Fact(sv, "applicability")
<1>1. Ready({"authorised"})
  BY DEF RecordApplicability
<1>2. Recovered /\ L # <<>> /\ sv \in Nat /\ sv + 1 \in Nat
  BY <1>1, ReadyLedger
<1>3. PICK wanted \in BOOLEAN : Commit(<<e>> \o PhaseAdvance(L, sv + 1, wanted))
  BY DEF RecordApplicability
<1>4. Proper(L, e)
  BY <1>2 DEF Proper, Typed, Fact, Entry
<1> HIDE DEF e, sv
<1>. QED
  BY <1>2, <1>3, <1>4, EntryAndPhaseReadable

\* A signal wants a readable ledger.
LEMMA SignalReadable ==
    ASSUME IInv, Legible, RecordSignal
    PROVE  WantsReadable
<1> DEFINE L == files.target
           sv == StateVersion(L)
           i == LastOf(L, {"signal"})
           was == IF i = 0 THEN [active |-> FALSE, gen |-> 0] ELSE Ev(L, i)
           ev == [k |-> "signal", active |-> ~ was.active,
                  gen |-> IF was.active THEN was.gen ELSE was.gen + 1]
           e == Entry(sv, ev)
<1>1. Ready({"authorised"})
  BY DEF RecordSignal
<1>2. Recovered /\ L # <<>> /\ sv \in Nat /\ sv + 1 \in Nat
  BY <1>1, ReadyLedger
<1>3. PICK wanted \in BOOLEAN : Commit(<<e>> \o PhaseAdvance(L, sv + 1, wanted))
  BY DEF RecordSignal
<1>4. ev.k = "signal"
  OBVIOUS
<1> HIDE DEF ev
<1>5. Proper(L, e)
  BY <1>2, <1>4 DEF Proper, Typed, Entry
<1> HIDE DEF e, sv
<1>. QED
  BY <1>2, <1>3, <1>5, EntryAndPhaseReadable

\* complete_workflow.
LEMMA CompletionReadable ==
    ASSUME IInv, Legible, CompleteWorkflow
    PROVE  WantsReadable
<1> DEFINE L == files.target
           sv == StateVersion(L) + 1
           advance(wanted) == PhaseAdvance(L, sv + 1, wanted)
           e == Fact(sv, "completed")
           f(wanted) == Fact(sv + Len(advance(wanted)), "continuity")
<1>1. Ready({"completion"})
  BY DEF CompleteWorkflow
<1>2. Recovered /\ L # <<>> /\ sv \in Nat /\ sv + 1 \in Nat
  BY <1>1, ReadyLedger
<1>3. PICK wanted \in BOOLEAN : Commit(<<e>> \o advance(wanted) \o <<f(wanted)>>)
  BY DEF CompleteWorkflow
<1>4. Proper(L, e)
  BY <1>2 DEF Proper, Typed, Fact, Entry
<1>5. PlainBatch(advance(wanted))
  <2> HIDE DEF sv
  <2>. QED
    BY <1>2, PlainAdvance
<1>6. Len(advance(wanted)) \in Nat
  <2> HIDE DEF advance
  <2>. QED
    BY <1>5, LedgerFacts DEF PlainBatch
<1>7. Plain(f(wanted))
  <2> HIDE DEF advance, sv
  <2>1. sv + Len(advance(wanted)) \in Nat
    BY <1>2, <1>6
  <2>. QED
    BY <2>1 DEF Plain, Typed, Fact, Entry
<1> HIDE DEF e, f, advance
<1>8. ProperBatch(L, <<e>> \o advance(wanted))
  BY <1>4, <1>5, ProperOne, ProperThenPlain
<1>9. PlainBatch(<<f(wanted)>>)
  BY <1>7, PlainOne
<1>10. ProperBatch(L, (<<e>> \o advance(wanted)) \o <<f(wanted)>>)
  BY <1>8, <1>9, ProperThenPlain
<1>. QED
  BY <1>2, <1>3, <1>10, CommitReadable

\* The handlers whose event moves the state version.
LEMMA TransitionsReadable ==
    ASSUME IInv, Legible,
           ApplyEpisode \/ ApplyCoordination \/ AdoptLegacySolo \/ UpgradeRelease \/ CompleteRebase
    PROVE  WantsReadable
<1> DEFINE L == files.target
           sv == StateVersion(L) + 1
<1>1. \E kinds : Ready(kinds)
  BY DEF ApplyEpisode, ApplyCoordination, AdoptLegacySolo, UpgradeRelease, CompleteRebase
<1>2. Recovered /\ L # <<>> /\ sv \in Nat
  BY <1>1, ReadyLedger
<1>3. \E ev : /\ ev.k \in {"episode", "coord", "adopt", "release", "rebase"}
              /\ ev.k = "rebase" => ev.gen = domain.gen
              /\ Commit(<<Entry(sv, ev)>>)
  <2>1. CASE ApplyEpisode
    <3> DEFINE event(route) == [k |-> "episode", gen |-> Episode(L) + 1, subject |-> Core(L),
                                from |-> route[1], to |-> route[2], whole |-> TRUE,
                                on |-> Len(L), at |-> StateVersion(L)]
    <3>1. PICK route \in EpisodeRoutes : Commit(<<Entry(sv, event(route))>>)
      BY <2>1 DEF ApplyEpisode
    <3>2. event(route).k = "episode"
      OBVIOUS
    <3> HIDE DEF event
    <3>. QED
      BY <3>1, <3>2
  <2>2. CASE ApplyCoordination
    <3> DEFINE event(status) == [k |-> "coord", status |-> status, prior |-> Request(L),
                                 on |-> Len(L), at |-> StateVersion(L)]
    <3>1. PICK status : Commit(<<Entry(sv, event(status))>>)
      BY <2>2 DEF ApplyCoordination
    <3>2. event(status).k = "coord"
      OBVIOUS
    <3> HIDE DEF event
    <3>. QED
      BY <3>1, <3>2
  <2>3. CASE AdoptLegacySolo
    <3> DEFINE event == [k |-> "adopt", on |-> Len(L)]
    <3>1. Commit(<<Entry(sv, event)>>)
      BY <2>3 DEF AdoptLegacySolo
    <3>2. event.k = "adopt"
      OBVIOUS
    <3> HIDE DEF event
    <3>. QED
      BY <3>1, <3>2
  <2>4. CASE UpgradeRelease
    <3> DEFINE event == [k |-> "release", from |-> Core(L), to |-> Core(L) + 1, on |-> Len(L)]
    <3>1. Commit(<<Entry(sv, event)>>)
      BY <2>4 DEF UpgradeRelease
    <3>2. event.k = "release"
      OBVIOUS
    <3> HIDE DEF event
    <3>. QED
      BY <3>1, <3>2
  <2>5. CASE CompleteRebase
    <3> DEFINE event == [k |-> "rebase", from |-> Core(L), to |-> domain.core,
                         fromGen |-> Effective(L), gen |-> domain.gen, on |-> Len(L)]
    <3>1. Commit(<<Entry(sv, event)>>)
      BY <2>5 DEF CompleteRebase
    <3>2. event.k = "rebase" /\ event.gen = domain.gen
      OBVIOUS
    <3> HIDE DEF event
    <3>. QED
      BY <3>1, <3>2
  <2>. QED
    BY <2>1, <2>2, <2>3, <2>4, <2>5
<1>4. PICK ev : /\ ev.k \in {"episode", "coord", "adopt", "release", "rebase"}
                /\ ev.k = "rebase" => ev.gen = domain.gen
                /\ Commit(<<Entry(sv, ev)>>)
  BY <1>3
<1> DEFINE e == Entry(sv, ev)
<1>5. Proper(L, e)
  BY <1>2, <1>4 DEF Proper, Typed, Entry, Legible
<1> HIDE DEF e
<1>. QED
  BY <1>2, <1>4, <1>5, EntryReadable DEF e

\* apply_verified_broker_action_inner.
LEMMA BrokerReadable ==
    ASSUME IInv, Legible, ApplyBrokerAction
    PROVE  WantsReadable
<1> DEFINE L == files.target
           env == op.env
           sv == StateVersion(L)
           a == Entry(sv, [k |-> env.kind, i |-> env.i, on |-> env.head])
           b == Entry(sv, [k |-> "origin", i |-> env.i, packet |-> <<env.head, env.kind>>,
                           on |-> Len(L) + 1, strict |-> TRUE])
           rest(wanted) == PhaseAdvance(L, sv + 1, wanted /\ env.kind = "action")
<1>1. Ready({"broker"})
  BY DEF ApplyBrokerAction
<1>2. Recovered /\ L # <<>> /\ sv \in Nat /\ sv + 1 \in Nat
  BY <1>1, ReadyLedger
<1>3. PICK wanted \in BOOLEAN : Commit(<<a, b>> \o rest(wanted))
  BY DEF ApplyBrokerAction
<1>4. Proper(L, a) /\ Plain(b)
  BY <1>2 DEF Proper, Plain, Typed, Entry, IInv, TypeOK, OpTyped
<1>5. PlainBatch(rest(wanted))
  <2> HIDE DEF sv
  <2>. QED
    BY <1>2, PlainAdvance
<1> HIDE DEF a, b, rest
<1>6. <<a, b>> = <<a>> \o <<b>>
  <2> DEFINE T == {a, b}
             x == <<a>>
             y == <<b>>
             z == <<a, b>>
  <2>1. x \in Seq(T) /\ Len(x) = 1 /\ x[1] = a
    OBVIOUS
  <2>2. y \in Seq(T) /\ Len(y) = 1 /\ y[1] = b
    OBVIOUS
  <2>3. z \in Seq(T) /\ Len(z) = 2 /\ z[1] = a /\ z[2] = b
    OBVIOUS
  <2> HIDE DEF T, x, y, z
  <2>4. /\ x \o y \in Seq(T) /\ Len(x \o y) = Len(x) + Len(y)
        /\ \A i \in 1..(Len(x) + Len(y)) : (x \o y)[i] = IF i <= Len(x) THEN x[i] ELSE y[i - Len(x)]
    BY <2>1, <2>2, ConcatProperties
  <2>5. Len(x \o y) = 2 /\ (x \o y)[1] = a /\ (x \o y)[2] = b
    BY <2>1, <2>2, <2>4
  <2>6. \A i \in 1..2 : (x \o y)[i] = z[i]
    <3>1. \A i \in 1..2 : i = 1 \/ i = 2
      OBVIOUS
    <3>. QED
      BY <2>3, <2>5, <3>1
  <2>7. x \o y = z
    BY <2>3, <2>4, <2>5, <2>6, SeqEqual
  <2>. QED
    BY <2>7 DEF x, y, z
<1>7. ProperBatch(L, <<a>> \o <<b>>)
  BY <1>4, ProperOne, PlainOne, ProperThenPlain
<1>8. ProperBatch(L, <<a, b>> \o rest(wanted))
  BY <1>5, <1>6, <1>7, ProperThenPlain
<1>. QED
  BY <1>2, <1>3, <1>8, CommitReadable

\* import.
LEMMA ImportReadable ==
    ASSUME IInv, Import
    PROVE  WantsReadable
<1>1. PICK profile \in {"solo", "strict"} : Replace(Genesis(profile), "import")
  BY DEF Import
<1> DEFINE ev == [k |-> "imported", profile |-> profile]
           r == [ev |-> ev, sv |-> 0, core |-> 0, schema |-> WireSchema(<<>>, ev)]
           W == Append(<<>>, r)
<1>2. ev.k = "imported" /\ r.ev = ev /\ r.sv = 0 /\ r.core = 0 /\ r.schema = WireSchema(<<>>, ev)
  OBVIOUS
<1>3. Genesis(profile) = <<r>>
  BY DEF Genesis
<1> HIDE DEF ev, r
<1>4. W = <<r>> /\ Len(<<>>) = 0 /\ IsLedger(<<>>)
  <2>1. <<>> \in Seq({})
    OBVIOUS
  <2>2. IsLedger(<<>>)
    BY <2>1, SequenceIsLedger
  <2>. QED
    BY <2>2
<1>5. Recover(<<>>) = Unread /\ Projects(<<>>, Unread)
  <2>1. Recover(<<>>) = Unread
    BY RecoverNothing
  <2>2. AllTyped(<<>>) /\ Recovers(<<>>)
    BY NothingReadable DEF Readable
  <2>. QED
    BY <1>4, <2>1, <2>2, RecoveryProjects
<1>6. Ev(W, 1) = ev /\ W[1] = r /\ DOMAIN W = {1}
  BY <1>2, <1>4 DEF Ev
<1>7. r.schema = ExpectedSchema(Unread, ev)
  BY <1>2, <1>4, <1>5, SchemaAgrees
<1>8. Unread.ok /\ Unread.sv = 0 /\ Unread.core = 0
  BY DEF Unread
<1>9. RecoveredTransition(Unread, ev, 1, 0)
  BY <1>2 DEF RecoveredTransition
<1>10. RecoveredSemantics(W, Unread, 1)
  BY <1>2, <1>6 DEF RecoveredSemantics
<1> HIDE DEF W
<1>11. LineOK(W, Unread, 1)
  BY <1>2, <1>6, <1>7, <1>8, <1>9, <1>10, MaxRecordsAssumption DEF LineOK
<1>12. Recover(W) = RecoverLine(W, Unread, 1)
  <2>1. Recover(Append(<<>>, r)) = RecoverLine(Append(<<>>, r), Recover(<<>>), Len(<<>>) + 1)
    BY <1>4, RecoverAppend
  <2>2. Len(<<>>) + 1 = 1
    OBVIOUS
  <2>. QED
    BY <1>5, <2>1, <2>2 DEF W
<1>13. Recovers(W)
  <2>1. RecoverLine(W, Unread, 1).ok <=> LineOK(W, Unread, 1)
    BY RecoverLineOK
  <2>2. Recover(W).ok
    BY <1>11, <1>12, <2>1, Zenon
  <2>. QED
    BY <2>2 DEF Recovers
<1>14. AllTyped(W)
  BY <1>2, <1>6 DEF AllTyped, Typed
<1>15. Readable(Genesis(profile))
  BY <1>3, <1>4, <1>13, <1>14 DEF Readable
<1>. QED
  BY <1>1, <1>15, ReplaceReadable DEF Import

\* reconcile_effective_epoch.
LEMMA EpochReadable ==
    ASSUME IInv, Legible, ReconcileEpoch
    PROVE  WantsReadable
<1> DEFINE L == files.target
           e == Entry(StateVersion(L) + 1, PackEvent(L))
           W == Prepare(L, <<e>>)
<1>1. Recovered /\ L # <<>> /\ W # <<>> /\ Replace(W, "epoch") /\ UNCHANGED world
  BY DEF ReconcileEpoch
<1>2. IsLedger(L) /\ Readable(L) /\ StateVersion(L) \in Nat
  BY <1>1, HandlerLedger
<1>3. Proper(L, e)
  BY <1>2 DEF Proper, Typed, Entry, PackEvent, Legible
<1> HIDE DEF e
<1>4. ProperBatch(L, <<e>>)
  BY <1>3, ProperOne
<1>5. Readable(W)
  BY <1>1, <1>2, <1>4, BatchAccepted
<1>. QED
  BY <1>1, <1>5, ReplaceReadable

\* A step that keeps what is wanted, or gives it up.
WantKept == op'.want \in {<<>>, op.want} /\ domain' = domain

\* Where a step leaves the request.
LEMMA OpKept ==
    ASSUME IInv, domain' = domain,
           \/ op' = op \/ op' = Idle \/ Committed
           \/ \E pc, reread : op' = [op EXCEPT !.pc = pc, !.reread = reread]
           \/ \E pc : op' = [op EXCEPT !.pc = pc]
    PROVE  WantKept
<1>1. DOMAIN op = {"pc", "kind", "env", "want", "stage", "reread"}
  BY DEF IInv, TypeOK, OpTyped
<1>2. Idle.want = <<>>
  BY DEF Idle
<1>3. CASE op' = op \/ op' = Idle
  BY <1>2, <1>3 DEF WantKept
<1>4. CASE Committed
  <2>1. CASE op' = [op EXCEPT !.pc = "recover", !.want = <<>>, !.stage = "start", !.reread = FALSE]
    <3>1. op'.want = <<>>
      BY <1>1, <2>1
    <3>. QED
      BY <3>1 DEF WantKept
  <2>2. CASE op' = [op EXCEPT !.pc = "reserve"]
    <3>1. op'.want = op.want
      BY <1>1, <2>2
    <3>. QED
      BY <3>1 DEF WantKept
  <2>3. CASE op' = Idle
    BY <1>2, <2>3 DEF WantKept
  <2>. QED
    BY <1>4, <2>1, <2>2, <2>3 DEF Committed
<1>5. ASSUME NEW pc, NEW reread, op' = [op EXCEPT !.pc = pc, !.reread = reread] PROVE WantKept
  <2>1. op'.want = op.want
    BY <1>1, <1>5
  <2>. QED
    BY <2>1 DEF WantKept
<1>6. ASSUME NEW pc, op' = [op EXCEPT !.pc = pc] PROVE WantKept
  <2>1. op'.want = op.want
    BY <1>1, <1>6
  <2>. QED
    BY <2>1 DEF WantKept
<1>. QED
  BY <1>3, <1>4, <1>5, <1>6

\* A commit that failed.
LEMMA FailedKept ==
    ASSUME IInv, domain' = domain, NotCommitted
    PROVE  WantKept
<1>1. op' = [op EXCEPT !.pc = "recover", !.reread = TRUE] \/ op' = Idle
  BY DEF NotCommitted
<1>. QED
  BY <1>1, OpKept

\* The steps of requests, replacements and the replay WAL, and a crash.
LEMMA ProtocolKept ==
    ASSUME IInv,
           \/ InitializeReplay \/ WriteManifest \/ Reconcile \/ ReconcileFails \/ Return \/ Reread
           \/ RepairReplay \/ Swap \/ SwapFails \/ WriteNext \/ WriteMarker \/ RetireTarget
           \/ InstallNext \/ SweepPrevious \/ DropMarker \/ ReplaceFails
           \/ WriteReservation \/ WriteSettlement \/ ReplayWriteFails \/ Crash
    PROVE  WantKept
<1>1. CASE InitializeReplay
  <2>1. op' = Idle \/ op' = [op EXCEPT !.pc = "manifest"] \/ op' = [op EXCEPT !.pc = "recover"]
    BY <1>1 DEF InitializeReplay
  <2>2. domain' = domain
    BY <1>1 DEF InitializeReplay
  <2>. QED
    BY <2>1, <2>2, OpKept
<1>2. CASE WriteManifest \/ RepairReplay \/ WriteNext \/ WriteMarker \/ RetireTarget \/ InstallNext
           \/ SweepPrevious
  <2>1. domain' = domain
    BY <1>2 DEF WriteManifest, RepairReplay, WriteNext, WriteMarker, RetireTarget, InstallNext,
                SweepPrevious, world
  <2>2. \E pc : op' = [op EXCEPT !.pc = pc]
    BY <1>2 DEF WriteManifest, RepairReplay, WriteNext, WriteMarker, RetireTarget, InstallNext,
                SweepPrevious, Goto
  <2>. QED
    BY <2>1, <2>2, OpKept
<1>3. CASE Reconcile \/ ReconcileFails \/ Return \/ ReplayWriteFails \/ Crash
  <2>1. domain' = domain /\ (op' = op \/ op' = Idle)
    BY <1>3 DEF Reconcile, ReconcileFails, Return, ReplayWriteFails, Crash, world
  <2>. QED
    BY <2>1, OpKept
<1>4. CASE Reread
  <2>1. domain' = domain /\ (Committed \/ op' = Idle)
    BY <1>4 DEF Reread, world
  <2>. QED
    BY <2>1, OpKept
<1>5. CASE Swap \/ DropMarker
  <2>1. domain' = domain /\ Committed
    BY <1>5 DEF Swap, DropMarker, world
  <2>. QED
    BY <2>1, OpKept
<1>6. CASE SwapFails \/ ReplaceFails
  <2>1. domain' = domain /\ NotCommitted
    BY <1>6 DEF SwapFails, ReplaceFails, world
  <2>. QED
    BY <2>1, FailedKept
<1>7. CASE WriteReservation \/ WriteSettlement
  <2>1. domain' = domain /\ (op' = Idle \/ op' = [op EXCEPT !.pc = "settle"])
    BY <1>7 DEF WriteReservation, WriteSettlement, AppendLine
  <2>. QED
    BY <2>1, OpKept
<1>. QED
  BY <1>1, <1>2, <1>3, <1>4, <1>5, <1>6, <1>7

\* A request takes the lock and wants nothing yet.
LEMMA LockWants ==
    ASSUME NEW kind, Lock(kind)
    PROVE  WantKept
<1>1. PICK env, pc : op' = [Idle EXCEPT !.kind = kind, !.env = env, !.pc = pc]
  BY DEF Lock
<1>2. op'.want = <<>>
  BY <1>1 DEF Idle
<1>3. domain' = domain
  BY DEF Lock, world
<1>. QED
  BY <1>2, <1>3 DEF WantKept

\* The lifecycle.
LEMMA LifecycleGeneration ==
    ASSUME Legible,
           \/ InstallGeneration \/ ChangeGeneration
           \/ DerivePlan \/ PersistPlan \/ CommitLifecycle
    PROVE  op' = op /\ domain'.gen \in Nat
<1>1. op' = op
  BY DEF InstallGeneration, ChangeGeneration, DerivePlan, PersistPlan, CommitLifecycle
<1>2. domain.gen \in Nat
  BY DEF Legible
<1>3. CASE InstallGeneration \/ ChangeGeneration
  <2>1. domain'.gen = 1 \/ domain'.gen = domain.gen + 1
    BY <1>3 DEF InstallGeneration, ChangeGeneration
  <2>. QED
    BY <1>1, <1>2, <2>1
<1>4. CASE DerivePlan \/ PersistPlan
  BY <1>1, <1>2, <1>4 DEF DerivePlan, PersistPlan
<1>5. CASE CommitLifecycle
  <2>1. domain.gen = plan.gen /\ domain'.gen = plan.gen + 1
    BY <1>5 DEF CommitLifecycle
  <2>. QED
    BY <1>1, <1>2, <2>1
<1>. QED
  BY <1>3, <1>4, <1>5

\* Every step wants what is recovered, or what it wanted before.
LEMMA NextWants ==
    ASSUME IInv, Legible, [Next]_vars
    PROVE  Readable(op'.want) /\ domain'.gen \in Nat
<1>1. Readable(op.want) /\ domain.gen \in Nat /\ Readable(<<>>)
  BY NothingReadable DEF Legible
<1>2. ASSUME WantKept \/ WantsReadable PROVE Readable(op'.want) /\ domain'.gen \in Nat
  BY <1>1, <1>2 DEF WantKept, WantsReadable
<1>3. ASSUME NEW kind, Lock(kind) PROVE WantKept
  BY <1>3, LockWants
<1>4. CASE InitializeReplay \/ WriteManifest \/ Reconcile \/ ReconcileFails \/ Return \/ Reread
           \/ RepairReplay \/ Swap \/ SwapFails \/ WriteNext \/ WriteMarker \/ RetireTarget
           \/ InstallNext \/ SweepPrevious \/ DropMarker \/ ReplaceFails
           \/ WriteReservation \/ WriteSettlement \/ ReplayWriteFails \/ Crash
  BY <1>2, <1>4, ProtocolKept
<1>5. CASE Import
  BY <1>2, <1>5, ImportReadable
<1>6. CASE ReconcileEpoch
  BY <1>2, <1>6, EpochReadable
<1>7. CASE ApplyBrokerAction
  BY <1>2, <1>7, BrokerReadable
<1>8. CASE AcceptObjective
  BY <1>2, <1>8, ObjectiveReadable
<1>9. CASE ObserveEvidence
  BY <1>2, <1>9, EvidenceReadable
<1>10. CASE BeginFocus \/ ContinueFocus
  BY <1>2, <1>10, FocusReadable
<1>11. CASE RecordApplicability
  BY <1>2, <1>11, ApplicabilityReadable
<1>12. CASE RecordCapability \/ RecordEvidence \/ RecordDecision \/ RecordWaiver
  BY <1>2, <1>12, AuthorisedReadable DEF RecordCapability, RecordEvidence, RecordDecision, RecordWaiver
<1>13. CASE RecordSignal
  BY <1>2, <1>13, SignalReadable
<1>14. CASE CompleteWorkflow
  BY <1>2, <1>14, CompletionReadable
<1>15. CASE ApplyEpisode \/ ApplyCoordination \/ AdoptLegacySolo \/ UpgradeRelease \/ CompleteRebase
  BY <1>2, <1>15, TransitionsReadable
<1>16. CASE \/ InstallGeneration \/ ChangeGeneration
            \/ DerivePlan \/ PersistPlan \/ CommitLifecycle
  BY <1>1, <1>16, LifecycleGeneration
<1>17. CASE UNCHANGED vars
  BY <1>1, <1>17 DEF vars
<1>. QED
  BY <1>2, <1>3, <1>4, <1>5, <1>6, <1>7, <1>8, <1>9, <1>10, <1>11, <1>12, <1>13, <1>14, <1>15,
     <1>16, <1>17 DEF Next

\* It is legible from the start and stays so.
LEMMA LegibleInvariance == Spec => []Legible
<1>1. Init => Legible
  <2> SUFFICES ASSUME Init PROVE Legible
    OBVIOUS
  <2>1. PICK L : /\ files = [target |-> L, next |-> <<>>, prev |-> <<>>, marker |-> NoMarker]
                 /\ Readable(L)
    BY StartsAssumption DEF Init
  <2>2. files.target = L /\ files.marker = NoMarker /\ files.next = <<>> /\ files.prev = <<>>
    BY <2>1
  <2>3. NoMarker.st = "none"
    BY DEF NoMarker
  <2>4. Durable = L
    BY <2>2, <2>3 DEF Durable
  <2>5. op.want = <<>> /\ domain.gen = 0
    BY DEF Init, Idle
  <2>. QED
    BY <2>1, <2>4, <2>5, NothingReadable DEF Legible
<1>2. IInv /\ Legible /\ [Next]_vars => Legible'
  <2> SUFFICES ASSUME IInv, Legible, [Next]_vars PROVE Legible'
    OBVIOUS
  <2>1. Durable' = Durable \/ Durable' = op.want
    BY NextOK DEF Keeps, Advance
  <2>2. Readable(op'.want) /\ domain'.gen \in Nat
    BY NextWants
  <2>3. Readable(Durable')
    BY <2>1 DEF Legible
  <2>. QED
    BY <2>2, <2>3 DEF Legible
<1>. QED
  BY <1>1, <1>2, Invariance, PTL DEF Spec

\* Whatever the append side let into a batch, the recovery side reads, on disk and on
\* its way there. (push_* against recover_from_reader)
THEOREM AcceptedIsRead == Spec => []AcceptedIsRecoverable
<1>1. Legible => AcceptedIsRecoverable
  BY DEF Legible, Readable, AcceptedIsRecoverable
<1>. QED
  BY <1>1, LegibleInvariance, PTL
=============================================================================
