---------------------------- MODULE EffectWalProofs ----------------------------
(***************************************************************************)
(* What EffectWal promises for any processes, executions, targets and      *)
(* contents, and any number of deaths and failing writes.                  *)
(***************************************************************************)
EXTENDS EffectWal, SequenceTheorems, WellFoundedInduction, TLAPS

-----------------------------------------------------------------------------
(***************************************************************************)
(* The inductive invariant.                                                *)
(***************************************************************************)

\* What is in the log, and what is still to be done in an undo. A before-image
\* has a target; a mark closes a transaction and saves nothing.
RecordLines == {r \in Records : r.stage = "BeforeImage" => r.file \in Files}
Lines == RecordLines \cup {Broken}
Wals == {w \in [lines : Seq(Lines), ended : BOOLEAN] : w.ended \/ w.lines # <<>>}

Marks == {r \in Records : r.stage \in RollbackStages /\ r.original = Absent}
RestoreSteps == [file : Files, to : Values, from : SUBSET Values]
MarkSteps == [mark : Marks, always : BOOLEAN]
Steps == RestoreSteps \cup MarkSteps

TxStages == {"capture", "begin", "image", "write", "written", "commit"}
PcStages ==
    TxStages \cup
    {"idle", "undo", "repair", "read", "inspect", "reconcile", "consume", "complete"}
Statuses ==
    {"new", "running", "Blocked", "Applied", "RolledBack", "RollbackFailed", "lost"}

FilesTyped == content \in [Files -> Values] /\ wal \in Wals

LockTyped ==
    /\ holder \in Procs \cup {NoProc}
    /\ op \in Ops \cup {"none"}
    /\ pc \in PcStages

LocalsTyped ==
    /\ exec \in Execs \cup {NoExec}
    /\ at \in Nat
    /\ saved \in [Files -> Values]
    /\ tx \in TxIds \cup {NoTx}
    /\ script \in Seq(Steps)
    /\ todo \subseteq TxIds
    /\ ok \in BOOLEAN /\ bad \in BOOLEAN

RestTyped ==
    /\ consumed \subseteq TxIds
    /\ live \subseteq Procs
    /\ outcome \in [Execs -> Statuses]
    /\ acked \subseteq Execs
    /\ truth \in [Files -> Values]
    /\ commanded \in BOOLEAN
    /\ crashes \in Nat /\ faults \in Nat

TypeOK == FilesTyped /\ LockTyped /\ LocalsTyped /\ RestTyped

\* The holder is in an execution, or takes one back.
Applying == pc \in TxStages
RollingBack == pc = "undo" /\ op \in {"execute", "commit"}

\* What the stage says of the rest.
Staged ==
    /\ holder = NoProc => pc = "idle" /\ exec = NoExec /\ saved = InitialContent
    /\ holder # NoProc => pc # "idle"
    /\ holder = NoProc \/ Applying => script = <<>> /\ ok /\ ~bad
    /\ Applying => op \in {"execute", "commit"}
    /\ Applying \/ RollingBack => exec \in Execs /\ outcome[exec] = "running"
    /\ pc \in {"repair", "read", "inspect", "reconcile"} => op \in {"recover", "activate"}
    /\ pc \in {"consume", "complete"} => tx \in TxIds
    /\ \A e \in Execs : outcome[e] = "running" => e = exec /\ (Applying \/ RollingBack)

\* The write a transaction is at.
Placed ==
    /\ pc = "begin" => at = 1
    /\ pc \in {"image", "write", "written"} => at \in DOMAIN Writes[exec]
    /\ pc = "commit" => at = Len(Writes[exec]) + 1

\* Its targets before that one are written, the others are as they were found.
Written ==
    Applying /\ pc # "capture" =>
        \A k \in DOMAIN Writes[exec] :
            content[Target(k)] =
                IF k < at \/ (k = at /\ pc = "written")
                  THEN Installed(exec, Writes[exec][k]) ELSE saved[Target(k)]

IsRestore(s) == "file" \in DOMAIN s

\* A rollback meets its targets as they were found or as the execution left them,
\* and still has to restore those it has not, unless a step of it has failed.
Undoing ==
    RollingBack =>
        /\ \A k \in DOMAIN Writes[exec] :
              content[Target(k)] \in {saved[Target(k)], Installed(exec, Writes[exec][k])}
        /\ \A j \in DOMAIN script : IsRestore(script[j]) =>
              \E k \in DOMAIN Writes[exec] :
                 script[j] = RestoreStep(Target(k), saved[Target(k)],
                                         {Installed(exec, Writes[exec][k])})
        /\ ~bad => \A k \in DOMAIN Writes[exec] :
              \/ content[Target(k)] = saved[Target(k)]
              \/ \E j \in DOMAIN script : IsRestore(script[j]) /\ script[j].file = Target(k)

\* The recovery restores whatever it finds.
Recovering ==
    pc = "undo" /\ ~RollingBack =>
        \A j \in DOMAIN script : IsRestore(script[j]) => script[j].from = Values

\* An execution that has logged nothing has left nothing: its content is not in the
\* targets, not in what was found in them, not in the log, not in what is put back.
Unused(e) == outcome[e] = "new" \/ (e = exec /\ pc \in {"capture", "begin"})
Clean(v) == \A e \in Execs : Unused(e) => v # e

Fresh ==
    /\ \A f \in Files : Clean(content[f]) /\ Clean(saved[f])
    /\ \A l \in Range(wal.lines) : l # Broken => Clean(l.original)
    /\ \A s \in Range(script) : IsRestore(s) => Clean(s.to)

\* Only a write that fails is a reason to roll back.
Faultless ==
    faults = 0 => ~RollingBack /\ \A e \in Execs : outcome[e] # "RolledBack"

UniqueIds == \A d, e \in Execs : IdOf[d] = IdOf[e] => d = e

\* Without one, what the log says is committed is, and so is all that is or will be
\* consumed, as long as executions have ids of their own.
Vouched(i) == \A e \in Execs : IdOf[e] = i => e \in acked

Committed ==
    UniqueIds /\ faults = 0 =>
        /\ \A l \in Range(wal.lines) : l # Broken /\ l.stage = "Commit" => Vouched(l.tx)
        /\ pc \in {"consume", "complete"} => Vouched(tx)
        /\ \A i \in todo \cup consumed : Vouched(i)

IInv ==
    /\ TypeOK
    /\ Staged
    /\ Placed
    /\ Written
    /\ Undoing
    /\ Recovering
    /\ Fresh
    /\ Faultless
    /\ Committed

-----------------------------------------------------------------------------
(***************************************************************************)
(* Folds over the log.                                                     *)
(***************************************************************************)

\* Induction over the natural numbers, for a set in place of a predicate.
LEMMA NatSetInduction ==
    ASSUME NEW S, 0 \in S, \A n \in Nat : n \in S => n + 1 \in S
    PROVE  \A n \in Nat : n \in S
<1> SUFFICES ASSUME NEW m \in Nat, m \notin S PROVE FALSE
  OBVIOUS
<1> DEFINE T == Nat \ S
           R == {ss \in Nat \X Nat : ss[1] < ss[2]}
<1>1. T \subseteq Nat /\ T # {}
  OBVIOUS
<1>2. IsWellFoundedOn(R, Nat)
  BY NatLessThanWellFounded DEF OpToRel
<1>3. PICK x \in T : \A y \in T : ~ (<<y, x>> \in R)
  <2> HIDE DEF R, T
  <2>. QED
    BY <1>1, <1>2, WFMin
<1>4. x \in Nat /\ x # 0 /\ \A y \in T : ~ (y < x)
  BY <1>3
<1>5. x - 1 \in Nat /\ x - 1 < x /\ (x - 1) + 1 = x
  BY <1>4
<1>6. x - 1 \in S
  BY <1>4, <1>5
<1>. QED
  BY <1>5, <1>6

\* sub is the function that Only is defined by, up to position N.
Selecting(sub, N, s, S) ==
    sub = [n \in 0 .. N |->
              IF n = 0 THEN <<>>
              ELSE IF s[n] \in S THEN Append(sub[n - 1], s[n]) ELSE sub[n - 1]]

LEMMA SelectingExists ==
    ASSUME NEW s, NEW S
    PROVE  \A N \in Nat : \E sub : Selecting(sub, N, s, S)
<1> DEFINE P == {N \in Nat : \E sub : Selecting(sub, N, s, S)}
<1>1. 0 \in P
  <2> DEFINE h == [n \in 0 .. 0 |-> <<>>]
  <2>1. \A n \in 0 .. 0 : n = 0
    OBVIOUS
  <2>2. Selecting(h, 0, s, S)
    BY <2>1 DEF Selecting
  <2>. QED
    BY <2>2
<1>2. ASSUME NEW N \in Nat, N \in P PROVE N + 1 \in P
  <2>1. PICK g : Selecting(g, N, s, S)
    BY <1>2
  <2> DEFINE h == [n \in 0 .. (N + 1) |->
                     IF n = N + 1
                       THEN IF s[N + 1] \in S THEN Append(g[N], s[N + 1]) ELSE g[N]
                       ELSE g[n]]
             k == [n \in 0 .. (N + 1) |->
                     IF n = 0 THEN <<>>
                     ELSE IF s[n] \in S THEN Append(h[n - 1], s[n]) ELSE h[n - 1]]
  <2>2. \A n \in 0 .. N : g[n] = IF n = 0 THEN <<>>
                                 ELSE IF s[n] \in S THEN Append(g[n - 1], s[n]) ELSE g[n - 1]
    BY <2>1 DEF Selecting
  <2>3. ASSUME NEW n \in 0 .. (N + 1) PROVE h[n] = k[n]
    <3>1. CASE n = N + 1
      <4>1. n # 0 /\ n - 1 = N /\ N \in 0 .. (N + 1) /\ N # N + 1
        BY <3>1
      <4>2. h[N] = g[N]
        BY <4>1
      <4>. QED
        BY <3>1, <4>1, <4>2
    <3>2. CASE n # N + 1
      <4>1. n \in 0 .. N /\ h[n] = g[n]
        BY <3>2
      <4>2. n # 0 => n - 1 \in 0 .. (N + 1) /\ n - 1 # N + 1
        BY <3>2
      <4>3. n # 0 => h[n - 1] = g[n - 1]
        BY <4>2
      <4>. QED
        BY <2>2, <4>1, <4>3
    <3>. QED
      BY <3>1, <3>2
  <2>4. h = k
    BY <2>3
  <2>5. Selecting(h, N + 1, s, S)
    BY <2>4 DEF Selecting
  <2>. QED
    BY <2>5
<1> HIDE DEF P
<1>3. \A N \in Nat : N \in P
  BY <1>1, <1>2, NatSetInduction
<1>. QED
  BY <1>3 DEF P

\* What is selected was there, and is in the set.
LEMMA OnlyFacts ==
    ASSUME NEW T, NEW s \in Seq(T), NEW S
    PROVE  /\ Only(s, S) \in Seq(T)
           /\ Range(Only(s, S)) \subseteq Range(s) \cap S
<1> DEFINE U == {x \in T : x \in Range(s) /\ x \in S}
           sub == CHOOSE sub : Selecting(sub, Len(s), s, S)
<1>1. Len(s) \in Nat /\ DOMAIN s = 1 .. Len(s)
  OBVIOUS
<1>2. Selecting(sub, Len(s), s, S)
  <2>1. \E x : Selecting(x, Len(s), s, S)
    BY <1>1, SelectingExists
  <2>. QED
    BY <2>1
<1>3. Only(s, S) = sub[Len(s)]
  BY DEF Only, Selecting
<1> HIDE DEF sub
<1>4. \A n \in 0 .. Len(s) :
         sub[n] = IF n = 0 THEN <<>>
                  ELSE IF s[n] \in S THEN Append(sub[n - 1], s[n]) ELSE sub[n - 1]
  BY <1>2 DEF Selecting
<1> DEFINE P == {n \in Nat : n <= Len(s) => sub[n] \in Seq(U)}
<1>5. 0 \in P
  <2>1. 0 \in 0 .. Len(s)
    BY <1>1
  <2>2. sub[0] = <<>>
    BY <1>4, <2>1
  <2> HIDE DEF U
  <2>3. <<>> \in Seq(U)
    OBVIOUS
  <2>. QED
    BY <2>2, <2>3
<1>6. ASSUME NEW n \in Nat, n \in P PROVE n + 1 \in P
  <2>1. CASE n + 1 <= Len(s)
    <3>1. n <= Len(s) /\ n + 1 \in 0 .. Len(s) /\ n + 1 # 0 /\ (n + 1) - 1 = n /\ n + 1 \in 1 .. Len(s)
      BY <1>1, <2>1
    <3>2. sub[n] \in Seq(U)
      BY <1>6, <3>1
    <3>3. s[n + 1] \in T /\ s[n + 1] \in Range(s)
      BY <1>1, <3>1 DEF Range
    <3>4. sub[n + 1] = IF s[n + 1] \in S THEN Append(sub[n], s[n + 1]) ELSE sub[n]
      BY <1>4, <3>1
    <3>5. s[n + 1] \in S => Append(sub[n], s[n + 1]) \in Seq(U)
      <4>1. s[n + 1] \in S => s[n + 1] \in U
        BY <3>3
      <4> HIDE DEF U
      <4>. QED
        BY <3>2, <4>1
    <3>6. sub[n + 1] \in Seq(U)
      <4> HIDE DEF U
      <4>. QED
        BY <3>2, <3>4, <3>5
    <3> HIDE DEF U
    <3>. QED
      BY <3>6
  <2>2. CASE ~(n + 1 <= Len(s))
    BY <2>2
  <2>. QED
    BY <2>1, <2>2
<1> HIDE DEF P
<1>7. Len(s) \in P
  BY <1>1, <1>5, <1>6, NatSetInduction
<1>8. Only(s, S) \in Seq(U)
  BY <1>1, <1>3, <1>7 DEF P
<1>9. \A x \in U : x \in T /\ x \in Range(s) /\ x \in S
  OBVIOUS
<1> HIDE DEF U
<1>. QED
  BY <1>8, <1>9 DEF Range

\* flat is the function that FlattenSeq is defined by, up to position N.
Flattening(flat, N, t) ==
    flat = [i \in 1 .. N |-> IF i = 1 THEN t[i] ELSE flat[i - 1] \o t[i]]

LEMMA FlatteningExists ==
    ASSUME NEW t
    PROVE  \A N \in Nat : \E flat : Flattening(flat, N, t)
<1> DEFINE P == {N \in Nat : \E flat : Flattening(flat, N, t)}
<1>1. 0 \in P
  <2> DEFINE h == [i \in 1 .. 0 |-> <<>>]
  <2>1. \A i \in 1 .. 0 : FALSE
    OBVIOUS
  <2>2. Flattening(h, 0, t)
    BY <2>1 DEF Flattening
  <2>. QED
    BY <2>2
<1>2. ASSUME NEW N \in Nat, N \in P PROVE N + 1 \in P
  <2>1. PICK g : Flattening(g, N, t)
    BY <1>2
  <2> DEFINE h == [i \in 1 .. (N + 1) |->
                     IF i = N + 1
                       THEN IF i = 1 THEN t[i] ELSE g[N] \o t[i]
                       ELSE g[i]]
             k == [i \in 1 .. (N + 1) |-> IF i = 1 THEN t[i] ELSE h[i - 1] \o t[i]]
  <2>2. \A i \in 1 .. N : g[i] = IF i = 1 THEN t[i] ELSE g[i - 1] \o t[i]
    BY <2>1 DEF Flattening
  <2>3. ASSUME NEW i \in 1 .. (N + 1) PROVE h[i] = k[i]
    <3>1. CASE i = N + 1
      <4>1. i # 1 => i - 1 = N /\ N \in 1 .. (N + 1) /\ N # N + 1
        BY <3>1
      <4>2. i # 1 => h[N] = g[N]
        BY <4>1
      <4>. QED
        BY <3>1, <4>1, <4>2
    <3>2. CASE i # N + 1
      <4>1. i \in 1 .. N /\ h[i] = g[i]
        BY <3>2
      <4>2. i # 1 => i - 1 \in 1 .. (N + 1) /\ i - 1 # N + 1
        BY <3>2
      <4>3. i # 1 => h[i - 1] = g[i - 1]
        BY <4>2
      <4>. QED
        BY <2>2, <4>1, <4>3
    <3>. QED
      BY <3>1, <3>2
  <2>4. h = k
    BY <2>3
  <2>5. Flattening(h, N + 1, t)
    BY <2>4 DEF Flattening
  <2>. QED
    BY <2>5
<1> HIDE DEF P
<1>3. \A N \in Nat : N \in P
  BY <1>1, <1>2, NatSetInduction
<1>. QED
  BY <1>3 DEF P

LEMMA FlattenTyped ==
    ASSUME NEW T, NEW t \in Seq(Seq(T))
    PROVE  FlattenSeq(t) \in Seq(T)
<1>1. CASE Len(t) = 0
  <2>1. t = <<>> /\ <<>> \in Seq(T)
    BY <1>1
  <2>. QED
    BY <1>1, <2>1 DEF FlattenSeq
<1>2. CASE Len(t) # 0
  <2> DEFINE flat == CHOOSE flat : Flattening(flat, Len(t), t)
  <2>1. Len(t) \in Nat /\ \A i \in 1 .. Len(t) : t[i] \in Seq(T)
    OBVIOUS
  <2>2. Flattening(flat, Len(t), t)
    <3>1. \E x : Flattening(x, Len(t), t)
      BY <2>1, FlatteningExists
    <3>. QED
      BY <3>1
  <2>3. FlattenSeq(t) = flat[Len(t)]
    BY <1>2 DEF FlattenSeq, Flattening
  <2> HIDE DEF flat
  <2>4. \A i \in 1 .. Len(t) : flat[i] = IF i = 1 THEN t[i] ELSE flat[i - 1] \o t[i]
    BY <2>2 DEF Flattening
  <2> DEFINE P == {n \in Nat : n \in 1 .. Len(t) => flat[n] \in Seq(T)}
  <2>5. 0 \in P
    OBVIOUS
  <2>6. ASSUME NEW n \in Nat, n \in P PROVE n + 1 \in P
    <3>1. CASE n + 1 \in 1 .. Len(t) /\ n # 0
      <4>1. n \in 1 .. Len(t) /\ n + 1 # 1 /\ (n + 1) - 1 = n
        BY <2>1, <3>1
      <4>2. flat[n] \in Seq(T) /\ t[n + 1] \in Seq(T)
        BY <2>1, <2>6, <3>1, <4>1
      <4>3. flat[n + 1] = flat[n] \o t[n + 1]
        BY <2>4, <3>1, <4>1
      <4>4. flat[n] \o t[n + 1] \in Seq(T)
        BY <4>2
      <4>5. flat[n + 1] \in Seq(T)
        BY <4>3, <4>4
      <4>. QED
        BY <4>5
    <3>2. CASE n = 0 /\ 1 \in 1 .. Len(t)
      <4>1. flat[1] = t[1] /\ t[1] \in Seq(T) /\ n + 1 = 1
        BY <2>1, <2>4, <3>2
      <4>2. 1 \in P
        BY <4>1
      <4>. QED
        BY <4>1, <4>2
    <3>3. CASE ~(n + 1 \in 1 .. Len(t))
      BY <3>3
    <3>. QED
      BY <3>1, <3>2, <3>3
  <2> HIDE DEF P
  <2>7. Len(t) \in P
    BY <2>1, <2>5, <2>6, NatSetInduction
  <2>8. Len(t) \in 1 .. Len(t)
    BY <1>2, <2>1
  <2>. QED
    BY <2>3, <2>7, <2>8 DEF P
<1>. QED
  BY <1>1, <1>2

\* One record more is looked at for the transactions that are begun and not closed.
Gather(rs, ids, r) ==
    IF r.stage = "Begin" /\ ~Has(rs, r.tx, ClosedStages) /\ r.tx \notin Range(ids)
      THEN Append(ids, r.tx) ELSE ids

\* g is the function, recursive over sets of positions, that FoldLeft chooses.
Folding(g, S, rs) ==
    g = [x \in SUBSET S |-> IF x = {} THEN <<>> ELSE Gather(rs, g[x \ {Max(x)}], rs[Max(x)])]

LEMMA IncompleteIs ==
    ASSUME NEW rs
    PROVE  Incomplete(rs) = (CHOOSE g : Folding(g, DOMAIN rs, rs))[DOMAIN rs]
  BY DEF Incomplete, FoldLeft, MapThenFoldSet, Folding, Gather

\* The last position of a set of positions.
LEMMA MaxIs ==
    ASSUME NEW m \in Nat, NEW x \in SUBSET (1..(m + 1)), m + 1 \in x
    PROVE  Max(x) = m + 1
<1>1. \A y \in x : y \in Int /\ m + 1 >= y
  OBVIOUS
<1>2. \A y \in x : (\A z \in x : y >= z) => y = m + 1
  BY <1>1
<1>3. Max(x) \in x /\ \A z \in x : Max(x) >= z
  BY <1>1 DEF Max
<1>. QED
  BY <1>2, <1>3

LEMMA FoldingExists ==
    ASSUME NEW rs
    PROVE  \A m \in Nat : \E g : Folding(g, 1..m, rs)
<1> DEFINE S == {m \in Nat : \E g : Folding(g, 1..m, rs)}
<1>1. 0 \in S
  <2> DEFINE h == [x \in SUBSET (1..0) |-> <<>>]
  <2>1. \A x \in SUBSET (1..0) : x = {}
    OBVIOUS
  <2>2. Folding(h, 1..0, rs)
    BY <2>1 DEF Folding
  <2>. QED
    BY <2>2
<1>2. ASSUME NEW m \in Nat, m \in S PROVE m + 1 \in S
  <2>1. PICK g : Folding(g, 1..m, rs)
    BY <1>2
  <2> DEFINE h == [x \in SUBSET (1..(m + 1)) |->
                     IF m + 1 \in x THEN Gather(rs, g[x \ {m + 1}], rs[m + 1]) ELSE g[x]]
             k == [x \in SUBSET (1..(m + 1)) |->
                     IF x = {} THEN <<>> ELSE Gather(rs, h[x \ {Max(x)}], rs[Max(x)])]
  <2>2. \A x \in SUBSET (1..m) : g[x] = IF x = {} THEN <<>>
                                        ELSE Gather(rs, g[x \ {Max(x)}], rs[Max(x)])
    BY <2>1 DEF Folding
  <2>3. ASSUME NEW x \in SUBSET (1..(m + 1)), m + 1 \notin x PROVE x \in SUBSET (1..m)
    BY <2>3
  <2>4. ASSUME NEW x \in SUBSET (1..(m + 1)) PROVE h[x] = k[x]
    <3>1. CASE m + 1 \in x
      <4>1. /\ Max(x) = m + 1 /\ x # {}
            /\ x \ {m + 1} \in SUBSET (1..(m + 1)) /\ m + 1 \notin x \ {m + 1}
        BY <3>1, MaxIs
      <4>2. h[x \ {m + 1}] = g[x \ {m + 1}]
        BY <4>1
      <4>. QED
        BY <3>1, <4>1, <4>2
    <3>2. CASE m + 1 \notin x
      <4>1. x \in SUBSET (1..m) /\ h[x] = g[x]
        BY <2>3, <3>2
      <4>2. x \ {Max(x)} \in SUBSET (1..(m + 1)) /\ m + 1 \notin x \ {Max(x)}
        BY <3>2
      <4>3. h[x \ {Max(x)}] = g[x \ {Max(x)}]
        BY <4>2
      <4>. QED
        BY <2>2, <4>1, <4>3
    <3>. QED
      BY <3>1, <3>2
  <2>5. h = k
    BY <2>4
  <2>6. Folding(h, 1..(m + 1), rs)
    BY <2>5 DEF Folding
  <2>. QED
    BY <2>6
<1> HIDE DEF S
<1>3. \A m \in Nat : m \in S
  BY <1>1, <1>2, NatSetInduction
<1>. QED
  BY <1>3 DEF S

LEMMA IncompleteTyped ==
    ASSUME NEW rs \in Seq(RecordLines)
    PROVE  Incomplete(rs) \in Seq(TxIds)
<1> DEFINE n == Len(rs)
           g == CHOOSE g : Folding(g, 1..n, rs)
<1>1. n \in Nat /\ DOMAIN rs = 1..n /\ \A i \in 1..n : rs[i] \in RecordLines
  OBVIOUS
<1>2. Folding(g, 1..n, rs)
  <2>1. \E x : Folding(x, 1..n, rs)
    BY <1>1, FoldingExists
  <2>. QED
    BY <2>1
<1>3. Incomplete(rs) = g[1..n]
  BY <1>1, IncompleteIs
<1> HIDE DEF n, g
<1> DEFINE S == {m \in Nat : m <= n => g[1..m] \in Seq(TxIds)}
<1>4. 0 \in S
  <2>1. 1..0 = {} /\ {} \in SUBSET (1..n)
    OBVIOUS
  <2>2. g[{}] = <<>> /\ <<>> \in Seq(TxIds)
    BY <1>2, <2>1 DEF Folding
  <2>3. g[1..0] \in Seq(TxIds)
    BY <2>1, <2>2
  <2>. QED
    BY <2>3
<1>5. ASSUME NEW m \in Nat, m \in S, m + 1 <= n PROVE g[1..(m + 1)] \in Seq(TxIds)
  <2>1. /\ 1..(m + 1) \in SUBSET (1..n) /\ 1..(m + 1) # {}
        /\ m + 1 \in 1..(m + 1) /\ (1..(m + 1)) \ {m + 1} = 1..m
        /\ 1..(m + 1) \in SUBSET (1..(m + 1))
        /\ m <= n /\ m + 1 \in 1..n
    <3>1. m <= n /\ m + 1 \in 1..n
      BY <1>1, <1>5
    <3>2. 1..(m + 1) \in SUBSET (1..n)
      BY <1>1, <1>5
    <3>. QED
      BY <3>1, <3>2
  <2>2. Max(1..(m + 1)) = m + 1
    BY <2>1, MaxIs
  <2>3. \A x \in SUBSET (1..n) : x # {} => g[x] = Gather(rs, g[x \ {Max(x)}], rs[Max(x)])
    BY <1>2 DEF Folding
  <2>4. g[1..(m + 1)] = Gather(rs, g[(1..(m + 1)) \ {Max(1..(m + 1))}], rs[Max(1..(m + 1))])
    BY <2>1, <2>3
  <2>5. g[1..(m + 1)] = Gather(rs, g[1..m], rs[m + 1])
    BY <2>1, <2>2, <2>4
  <2>6. g[1..m] \in Seq(TxIds) /\ rs[m + 1].tx \in TxIds
    BY <1>1, <1>5, <2>1 DEF RecordLines, Records
  <2>7. Append(g[1..m], rs[m + 1].tx) \in Seq(TxIds)
    BY <2>6
  <2>. QED
    BY <2>5, <2>6, <2>7 DEF Gather
<1>6. \A m \in Nat : m \in S => m + 1 \in S
  BY <1>5
<1> HIDE DEF S
<1>7. \A m \in Nat : m \in S
  BY <1>4, <1>6, NatSetInduction
<1>. QED
  BY <1>1, <1>3, <1>7 DEF S

-----------------------------------------------------------------------------
(***************************************************************************)
(* The log and its readers.                                                *)
(***************************************************************************)

LEMMA RecordFacts ==
    ASSUME NEW r \in Records
    PROVE  /\ r # Broken
           /\ r.tx \in TxIds /\ r.stage \in Stages /\ r.file \in Files \cup {NoFile}
           /\ r.original \in Values
<1>1. "tx" \in DOMAIN r
  BY DEF Records
<1>2. "tx" \notin DOMAIN Broken
  BY DEF Broken
<1>. QED
  BY <1>1, <1>2 DEF Records

\* What the transactions and the undo append.
LEMMA MarkersAreRecords ==
    ASSUME NEW i \in TxIds, NEW b \in BOOLEAN, NEW f \in Files
    PROVE  /\ \A s \in Stages \ {"BeforeImage"} :
                /\ Marker(i, s) \in RecordLines
                /\ Marker(i, s).tx = i /\ Marker(i, s).stage = s /\ Marker(i, s).original = Absent
           /\ BeginRecord(i, b) \in RecordLines /\ BeginRecord(i, b).stage = "Begin"
           /\ BeginRecord(i, b).original = Absent
           /\ WriteApplied(i, f) \in RecordLines /\ WriteApplied(i, f).stage = "WriteApplied"
           /\ WriteApplied(i, f).original = Absent
<1> DEFINE m(s) == [tx |-> i, stage |-> s, bound |-> FALSE, known |-> TRUE,
                    file |-> NoFile, original |-> Absent]
<1>1. \A s : Marker(i, s) = m(s)
  BY DEF Marker
<1>2. \A s \in Stages : m(s) \in Records /\ m(s).tx = i /\ m(s).stage = s /\ m(s).original = Absent
  BY AbsentAssumption DEF Records
<1>3. "Begin" \in Stages /\ "BeforeImage" \in Stages /\ "WriteApplied" \in Stages
  BY DEF Stages
<1>4. \A s \in Stages \ {"BeforeImage"} :
        /\ Marker(i, s) \in RecordLines
        /\ Marker(i, s).tx = i /\ Marker(i, s).stage = s /\ Marker(i, s).original = Absent
  BY <1>1, <1>2 DEF RecordLines
<1>5. /\ BeginRecord(i, b) \in Records /\ BeginRecord(i, b).stage = "Begin"
      /\ BeginRecord(i, b).original = Absent
  <2>1. /\ [m("Begin") EXCEPT !.bound = b] \in Records
        /\ [m("Begin") EXCEPT !.bound = b].stage = "Begin"
        /\ [m("Begin") EXCEPT !.bound = b].original = Absent
    BY <1>3, AbsentAssumption DEF Records
  <2>. QED
    BY <2>1 DEF BeginRecord, Marker
<1>6. /\ WriteApplied(i, f) \in Records /\ WriteApplied(i, f).stage = "WriteApplied"
      /\ WriteApplied(i, f).original = Absent
  <2> DEFINE x == [m("WriteApplied") EXCEPT !.file = f]
  <2>1. x \in Records /\ x.stage = "WriteApplied" /\ x.original = Absent
    BY <1>3, AbsentAssumption DEF Records
  <2>. QED
    BY <2>1 DEF WriteApplied, Marker
<1>. QED
  BY <1>4, <1>5, <1>6 DEF RecordLines

LEMMA ImageIsRecord ==
    ASSUME NEW i \in TxIds, NEW f \in Files, NEW v \in Values
    PROVE  /\ BeforeImage(i, f, v) \in RecordLines /\ BeforeImage(i, f, v).stage = "BeforeImage"
           /\ BeforeImage(i, f, v).original = v
<1> DEFINE m == [tx |-> i, stage |-> "BeforeImage", bound |-> FALSE, known |-> TRUE,
                 file |-> NoFile, original |-> Absent]
           x == [m EXCEPT !.file = f, !.original = v]
<1>1. x \in Records /\ x.stage = "BeforeImage" /\ x.original = v /\ x.file = f
  BY AbsentAssumption DEF Records, Stages
<1>2. BeforeImage(i, f, v) = x
  BY DEF BeforeImage, Marker
<1>. QED
  BY <1>1, <1>2 DEF RecordLines

LEMMA WalFacts ==
    ASSUME NEW w \in Wals
    PROVE  /\ w.lines \in Seq(Lines) /\ w.ended \in BOOLEAN
           /\ w.ended \/ w.lines # <<>>
  BY DEF Wals

LEMMA MakeWal ==
    ASSUME NEW ls \in Seq(Lines), NEW b \in BOOLEAN, b \/ ls # <<>>
    PROVE  /\ [lines |-> ls, ended |-> b] \in Wals
           /\ [lines |-> ls, ended |-> b].lines = ls
  BY DEF Wals

\* The lines of an appended sequence, and of one without its last.
LEMMA LinesOf ==
    ASSUME NEW T, NEW s \in Seq(T), NEW x \in T
    PROVE  /\ Append(s, x) \in Seq(T) /\ Append(s, x) # <<>>
           /\ Range(Append(s, x)) = Range(s) \cup {x}
           /\ s # <<>> => Front(s) \in Seq(T) /\ Range(Front(s)) \subseteq Range(s)
<1>1. Append(s, x) \in Seq(T) /\ Append(s, x) # <<>>
  BY AppendProperties
<1>2. /\ DOMAIN s = 1 .. Len(s) /\ DOMAIN Append(s, x) = 1 .. Len(s) + 1 /\ Len(s) \in Nat
      /\ \A i \in 1 .. Len(s) : Append(s, x)[i] = s[i]
      /\ Append(s, x)[Len(s) + 1] = x
  BY AppendProperties, LenProperties
<1>3. Range(Append(s, x)) = Range(s) \cup {x}
  <2>1. ASSUME NEW y, y \in Range(Append(s, x)) PROVE y \in Range(s) \cup {x}
    BY <1>2, <2>1 DEF Range
  <2>2. ASSUME NEW y, y \in Range(s) PROVE y \in Range(Append(s, x))
    BY <1>2, <2>2 DEF Range
  <2>3. x \in Range(Append(s, x))
    BY <1>2 DEF Range
  <2>. QED
    BY <2>1, <2>2, <2>3
<1>4. ASSUME s # <<>> PROVE Front(s) \in Seq(T) /\ Range(Front(s)) \subseteq Range(s)
  <2>1. Len(s) # 0 /\ Len(s) - 1 \in Nat
    BY <1>2, <1>4
  <2>2. \A i \in 1 .. (Len(s) - 1) : s[i] \in T /\ i \in 1 .. Len(s)
    BY <1>2
  <2>3. Front(s) = [i \in 1 .. (Len(s) - 1) |-> s[i]]
    BY <1>2, <2>1 DEF Front
  <2>4. Front(s) \in Seq(T)
    BY <2>1, <2>2, <2>3
  <2>. QED
    BY <1>2, <2>2, <2>3, <2>4 DEF Range
<1>. QED
  BY <1>1, <1>3, <1>4

\* An append leaves the lines there were, the record, or a broken line.
LEMMA WriteFacts ==
    ASSUME NEW w \in Wals, NEW r \in RecordLines, NEW cut \in Cuts
    PROVE  /\ Write(w, r, cut) \in Wals
           /\ \A l \in Range(Write(w, r, cut).lines) :
                 l # Broken => l \in Range(w.lines) \/ (l = r /\ cut # "part" /\ cut # "nothing")
<1> DEFINE x == IF cut = "part" THEN Broken ELSE r
           ls == IF w.ended THEN Append(w.lines, x) ELSE Append(Front(w.lines), Broken)
           e == (cut = "full")
<1>1. w.lines \in Seq(Lines) /\ (w.ended \/ w.lines # <<>>)
  BY WalFacts
<1>2. x \in Lines /\ Broken \in Lines
  BY DEF Lines
<1>3. ls \in Seq(Lines) /\ ls # <<>> /\ e \in BOOLEAN
  <2> HIDE DEF x
  <2>. QED
    BY <1>1, <1>2, LinesOf
<1>4. ASSUME NEW l \in Range(ls), l # Broken, cut # "nothing"
      PROVE  l \in Range(w.lines) \/ (l = r /\ cut # "part" /\ cut # "nothing")
  <2>1. CASE w.ended
    <3>1. Range(ls) = Range(w.lines) \cup {x}
      <4> HIDE DEF x
      <4>. QED
        BY <1>1, <1>2, <2>1, LinesOf
    <3>. QED
      BY <1>4, <3>1
  <2>2. CASE ~w.ended
    <3>1. Front(w.lines) \in Seq(Lines) /\ Range(Front(w.lines)) \subseteq Range(w.lines)
      BY <1>1, <1>2, <2>2, LinesOf
    <3>2. Range(ls) = Range(Front(w.lines)) \cup {Broken}
      BY <1>2, <2>2, <3>1, LinesOf
    <3>. QED
      BY <1>4, <3>1, <3>2
  <2>. QED
    BY <2>1, <2>2
<1>5. cut # "nothing" => Write(w, r, cut) = [lines |-> ls, ended |-> e]
  BY DEF Write
<1>6. cut = "nothing" => Write(w, r, cut) = w
  BY DEF Write
<1> HIDE DEF ls, e, x
<1>. QED
  BY <1>3, <1>4, <1>5, <1>6, MakeWal

LEMMA RepairedFacts ==
    ASSUME NEW w \in Wals
    PROVE  /\ Repaired(w) \in Wals
           /\ Range(Repaired(w).lines) \subseteq Range(w.lines)
<1> DEFINE ls == IF IsRecord(Last(w.lines)) THEN w.lines ELSE Front(w.lines)
<1>1. w.lines \in Seq(Lines) /\ (w.ended \/ w.lines # <<>>) /\ Broken \in Lines
  BY WalFacts DEF Lines
<1>2. ~w.ended => ls \in Seq(Lines) /\ Range(ls) \subseteq Range(w.lines)
  BY <1>1, LinesOf
<1>3. Repaired(w) = IF w.ended THEN w ELSE [lines |-> ls, ended |-> TRUE]
  BY DEF Repaired
<1> HIDE DEF ls
<1>. QED
  BY <1>2, <1>3, MakeWal

LEMMA RecordsOfFacts ==
    ASSUME NEW w \in Wals
    PROVE  /\ RecordsOf(w) \in Seq(RecordLines)
           /\ Range(RecordsOf(w)) \subseteq Range(w.lines)
           /\ \A r \in Range(RecordsOf(w)) : r # Broken
<1> DEFINE rs == RecordsOf(w)
<1>1. w.lines \in Seq(Lines)
  BY WalFacts
<1>2. rs \in Seq(Lines) /\ Range(rs) \subseteq Range(w.lines) \cap (Range(w.lines) \ {Broken})
  BY <1>1, OnlyFacts DEF RecordsOf
<1> HIDE DEF rs
<1>3. \A i \in 1 .. Len(rs) : rs[i] \in RecordLines
  <2>1. \A i \in 1 .. Len(rs) : rs[i] \in Lines /\ rs[i] \in Range(rs)
    BY <1>2 DEF Range
  <2>. QED
    BY <1>2, <2>1 DEF Lines
<1>4. rs \in Seq(RecordLines)
  <2>1. Len(rs) \in Nat /\ rs = [i \in 1 .. Len(rs) |-> rs[i]]
    BY <1>2
  <2>. QED
    BY <1>3, <2>1
<1>. QED
  BY <1>2, <1>4 DEF rs

\* Some number of a set of numbers is the smallest.
LEMMA MinIs ==
    ASSUME NEW I \in SUBSET Nat, I # {}
    PROVE  Min(I) \in I
<1> DEFINE R == {ss \in Nat \X Nat : ss[1] < ss[2]}
<1>1. IsWellFoundedOn(R, Nat)
  BY NatLessThanWellFounded DEF OpToRel
<1>2. PICK x \in I : \A y \in I : ~ (<<y, x>> \in R)
  <2> HIDE DEF R
  <2>. QED
    BY <1>1, WFMin
<1>3. ASSUME NEW y \in I PROVE x <= y
  <2>1. x \in Nat /\ y \in Nat /\ ~ (<<y, x>> \in R)
    BY <1>2
  <2>2. ~ (y < x)
    BY <2>1
  <2>. QED
    BY <2>1, <2>2
<1>. QED
  BY <1>2, <1>3 DEF Min

\* A track is made of records.
LEMMA TrackFacts ==
    ASSUME NEW rs \in Seq(RecordLines), NEW i
    PROVE  \A k \in DOMAIN Track(rs, i) : Track(rs, i)[k] \in Range(rs)
<1> DEFINE mine == Only(rs, {r \in Range(rs) : r.tx = i})
           I == {k \in 1 .. Len(mine) : mine[k].bound}
           start == IF I # {} THEN Min(I) ELSE 0
<1>1. mine \in Seq(RecordLines) /\ Range(mine) \subseteq Range(rs)
  BY OnlyFacts
<1>2. Track(rs, i) = IF start = 0 THEN <<>> ELSE SubSeq(mine, start, Len(mine))
  BY DEF Track, SelectInSeq
<1> HIDE DEF mine
<1>3. Len(mine) \in Nat /\ \A k \in 1 .. Len(mine) : mine[k] \in Range(mine)
  BY <1>1 DEF Range
<1>4. start # 0 => start \in 1 .. Len(mine)
  <2>1. I \in SUBSET Nat /\ I \subseteq 1 .. Len(mine)
    OBVIOUS
  <2> HIDE DEF I
  <2>. QED
    BY <2>1, MinIs
<1> HIDE DEF start
<1>5. CASE start = 0
  BY <1>2, <1>5
<1>6. CASE start # 0
  <2>1. /\ DOMAIN SubSeq(mine, start, Len(mine)) = 1 .. (Len(mine) - start + 1)
        /\ \A k \in 1 .. (Len(mine) - start + 1) :
              SubSeq(mine, start, Len(mine))[k] = mine[start + k - 1]
    BY <1>1, <1>3, <1>4, <1>6
  <2>2. \A k \in 1 .. (Len(mine) - start + 1) : start + k - 1 \in 1 .. Len(mine)
    BY <1>3, <1>4, <1>6
  <2>. QED
    BY <1>1, <1>2, <1>3, <1>6, <2>1, <2>2
<1>. QED
  BY <1>5, <1>6

\* What is pending has its Commit in the log.
LEMMA PendingFacts ==
    ASSUME NEW rs \in Seq(RecordLines), NEW i \in Pending(rs)
    PROVE  i \in TxIds /\ \E r \in Range(rs) : r.tx = i /\ r.stage = "Commit"
<1>1. PICK k \in DOMAIN rs : rs[k].tx = i
  BY DEF Pending
<1>2. i \in TxIds
  BY <1>1 DEF RecordLines, Records
<1>3. PICK j \in DOMAIN Track(rs, i) : Track(rs, i)[j].tx = i /\ Track(rs, i)[j].stage = "Commit"
  BY DEF Pending, Has
<1>. QED
  BY <1>2, <1>3, TrackFacts

\* Compaction only leaves records out.
LEMMA RetainedFacts ==
    ASSUME NEW rs \in Seq(RecordLines)
    PROVE  Retained(rs) \in Seq(RecordLines) /\ Range(Retained(rs)) \subseteq Range(rs)
  BY OnlyFacts DEF Retained

\* A sequence the other way round.
LEMMA ReverseFacts ==
    ASSUME NEW T, NEW s \in Seq(T)
    PROVE  /\ Reverse(s) \in Seq(T) /\ Len(Reverse(s)) = Len(s) /\ DOMAIN Reverse(s) = 1 .. Len(s)
           /\ \A k \in 1 .. Len(s) : Len(s) - k + 1 \in 1 .. Len(s)
           /\ \A k \in 1 .. Len(s) : Reverse(s)[k] = s[Len(s) - k + 1]
           /\ \A k \in 1 .. Len(s) : Reverse(s)[Len(s) - k + 1] = s[k]
<1>1. Len(s) \in Nat /\ \A k \in 1 .. Len(s) : s[k] \in T
  OBVIOUS
<1>2. \A k \in 1 .. Len(s) : Len(s) - k + 1 \in 1 .. Len(s) /\ Len(s) - (Len(s) - k + 1) + 1 = k
  BY <1>1
<1>3. Reverse(s) = [k \in 1 .. Len(s) |-> s[(Len(s) - k) + 1]]
  BY DEF Reverse
<1>4. \A k \in 1 .. Len(s) : Reverse(s)[k] = s[Len(s) - k + 1]
  BY <1>3
<1>5. Reverse(s) \in Seq(T)
  BY <1>1, <1>2, <1>3
<1>6. Len(Reverse(s)) = Len(s) /\ DOMAIN Reverse(s) = 1 .. Len(s)
  BY <1>1, <1>3, <1>5
<1>. QED
  BY <1>2, <1>4, <1>5, <1>6

\* The two kinds of steps of an undo.
LEMMA StepFacts ==
    /\ \A f, to, from : /\ IsRestore(RestoreStep(f, to, from))
                        /\ RestoreStep(f, to, from).file = f
                        /\ RestoreStep(f, to, from).to = to
                        /\ RestoreStep(f, to, from).from = from \cup {to}
    /\ \A m, a : ~IsRestore([mark |-> m, always |-> a])
    /\ \A s \in Steps : /\ IsRestore(s) => s \in RestoreSteps
                        /\ ~IsRestore(s) => s \in MarkSteps
                        /\ "mark" \in DOMAIN s => s \in MarkSteps
    /\ \A s \in RestoreSteps : s.file \in Files /\ s.to \in Values
    /\ \A s \in MarkSteps : s.mark \in Marks
<1>1. \A f, to, from : /\ IsRestore(RestoreStep(f, to, from))
                       /\ RestoreStep(f, to, from).file = f
                       /\ RestoreStep(f, to, from).to = to
                       /\ RestoreStep(f, to, from).from = from \cup {to}
  BY DEF RestoreStep, IsRestore
<1>2. \A m, a : ~IsRestore([mark |-> m, always |-> a])
  BY DEF IsRestore
<1>3. \A s \in RestoreSteps : /\ IsRestore(s) /\ "mark" \notin DOMAIN s
                              /\ s.file \in Files /\ s.to \in Values
  BY DEF RestoreSteps, IsRestore
<1>4. \A s \in MarkSteps : ~IsRestore(s) /\ s.mark \in Marks
  BY DEF MarkSteps, IsRestore
<1>. QED
  BY <1>1, <1>2, <1>3, <1>4 DEF Steps

\* What the recovery does with the records rs: it restores, whatever it finds, the
\* contents that they save.
Recoveries(rs) ==
    {s \in Steps : IsRestore(s) => s.from = Values /\ \E r \in Range(rs) : s.to = r.original}

LEMMA UndoIncompleteFacts ==
    ASSUME NEW rs \in Seq(RecordLines), NEW i \in TxIds
    PROVE  UndoIncomplete(rs, i) \in Seq(Recoveries(rs))
<1> DEFINE bs == BeforeImages(rs, i)
           images == Reverse(bs)
           u == [k \in DOMAIN images |->
                    RestoreStep(images[k].file, images[k].original, Values)]
           m == [mark |-> RecoveryMarker(rs, i), always |-> FALSE]
<1>1. /\ bs \in Seq(RecordLines)
      /\ Range(bs) \subseteq Range(rs) \cap {r \in Range(rs) : r.tx = i /\ r.stage = "BeforeImage"}
  BY OnlyFacts DEF BeforeImages
<1> HIDE DEF bs
<1>2. /\ images \in Seq(RecordLines) /\ DOMAIN images = 1 .. Len(bs) /\ Len(bs) \in Nat
      /\ \A k \in 1 .. Len(bs) : images[k] \in Range(bs)
  <2>1. \A k \in 1 .. Len(bs) : bs[k] \in Range(bs)
    BY <1>1 DEF Range
  <2>. QED
    BY <1>1, <2>1, ReverseFacts
<1> HIDE DEF images
<1>3. ASSUME NEW k \in 1 .. Len(bs)
      PROVE  RestoreStep(images[k].file, images[k].original, Values) \in Recoveries(rs)
  <2>1. /\ images[k] \in RecordLines /\ images[k] \in Range(rs)
        /\ images[k].stage = "BeforeImage"
    BY <1>1, <1>2
  <2>2. images[k].file \in Files /\ images[k].original \in Values
    BY <2>1 DEF RecordLines, Records
  <2> DEFINE x == RestoreStep(images[k].file, images[k].original, Values)
  <2>3. x.to = images[k].original /\ x.from = Values
    <3>1. Values \cup {images[k].original} = Values
      BY <2>2
    <3>. QED
      BY <3>1 DEF RestoreStep
  <2>4. x \in RestoreSteps
    <3>1. Values \cup {images[k].original} \in SUBSET Values
      BY <2>2
    <3>. QED
      BY <2>2, <3>1 DEF RestoreStep, RestoreSteps
  <2>5. x \in Steps
    BY <2>4 DEF Steps
  <2> HIDE DEF x
  <2>. QED
    BY <2>1, <2>3, <2>5 DEF Recoveries, x
<1>4. m \in Recoveries(rs)
  <2>1. RecoveryMarker(rs, i) \in Marks
    <3> DEFINE b == BeforeImages(rs, i) # <<>>
    <3>1. b \in BOOLEAN
      OBVIOUS
    <3> HIDE DEF b
    <3>2. [Marker(i, "RecoveredRollback") EXCEPT !.known = b] \in Marks
      BY <3>1, AbsentAssumption DEF Marker, Marks, Records, Stages, ClosedStages, RollbackStages
    <3>. QED
      BY <3>2 DEF RecoveryMarker, b
  <2> HIDE DEF u
  <2>2. m \in MarkSteps
    BY <2>1 DEF MarkSteps
  <2>3. m \in Steps /\ ~IsRestore(m)
    BY <2>2, StepFacts DEF Steps
  <2> HIDE DEF m
  <2>. QED
    BY <2>3 DEF Recoveries
<1>5. UndoIncomplete(rs, i) = Append(u, m)
  BY DEF UndoIncomplete, images, bs
<1>6. u \in Seq(Recoveries(rs))
  BY <1>2, <1>3
<1> HIDE DEF u, m
<1>. QED
  BY <1>4, <1>5, <1>6

LEMMA RecoveryScript ==
    ASSUME NEW rs \in Seq(RecordLines)
    PROVE  FlattenSeq([k \in DOMAIN Incomplete(rs) |-> UndoIncomplete(rs, Incomplete(rs)[k])])
              \in Seq(Recoveries(rs))
<1> DEFINE ids == Incomplete(rs)
           t == [k \in DOMAIN ids |-> UndoIncomplete(rs, ids[k])]
<1>1. ids \in Seq(TxIds)
  BY IncompleteTyped
<1> HIDE DEF ids
<1>2. /\ DOMAIN ids = 1 .. Len(ids) /\ Len(ids) \in Nat
      /\ \A k \in 1 .. Len(ids) : ids[k] \in TxIds
  BY <1>1
<1>3. \A k \in 1 .. Len(ids) : UndoIncomplete(rs, ids[k]) \in Seq(Recoveries(rs))
  BY <1>2, UndoIncompleteFacts
<1>4. t \in Seq(Seq(Recoveries(rs)))
  BY <1>2, <1>3
<1> HIDE DEF t
<1>5. FlattenSeq(t) \in Seq(Recoveries(rs))
  BY <1>4, FlattenTyped
<1>. QED
  BY <1>5 DEF t, ids

-----------------------------------------------------------------------------
(***************************************************************************)
(* Executions and their rollback.                                          *)
(***************************************************************************)

LEMMA WriteSet ==
    ASSUME NEW e \in Execs
    PROVE  /\ Writes[e] \in Seq([file : Files, mode : Modes])
           /\ Len(Writes[e]) \in Nat \ {0} /\ DOMAIN Writes[e] = 1 .. Len(Writes[e])
           /\ \A k \in DOMAIN Writes[e] : /\ Writes[e][k].file \in Files
                                          /\ Installed(e, Writes[e][k]) \in {Absent, e}
                                          /\ Installed(e, Writes[e][k]) \in Values
           /\ \A j, k \in DOMAIN Writes[e] : Writes[e][j].file = Writes[e][k].file => j = k
           /\ e \in Values /\ e # Absent
<1>1. /\ Writes[e] \in Seq([file : Files, mode : Modes]) /\ Writes[e] # <<>>
      /\ \A j, k \in DOMAIN Writes[e] : Writes[e][j].file = Writes[e][k].file => j = k
  BY WritesAssumption
<1>2. Len(Writes[e]) \in Nat /\ DOMAIN Writes[e] = 1 .. Len(Writes[e])
  BY <1>1
<1>3. Len(Writes[e]) # 0
  BY <1>1
<1>4. \A k \in DOMAIN Writes[e] : Writes[e][k] \in [file : Files, mode : Modes]
  <2> DEFINE W == [file : Files, mode : Modes]
  <2>1. Writes[e] \in Seq(W)
    BY <1>1
  <2> HIDE DEF W
  <2>2. \A k \in DOMAIN Writes[e] : Writes[e][k] \in W
    BY <2>1
  <2>. QED
    BY <2>2 DEF W
<1>5. e \in Values /\ e # Absent
  BY ExecsAssumption
<1>6. \A w : Installed(e, w) \in {Absent, e} /\ Installed(e, w) \in Values
  BY <1>5, AbsentAssumption DEF Installed
<1>. QED
  BY <1>1, <1>2, <1>3, <1>4, <1>5, <1>6

LEMMA OverlayFacts ==
    ASSUME NEW e \in Execs, NEW s \in [Files -> Values]
    PROVE  /\ Overlay(s, e) \in [Files -> Values]
           /\ (\A k \in DOMAIN Writes[e] : s[Writes[e][k].file] = Installed(e, Writes[e][k]))
                 => s = Overlay(s, e)
<1>1. \A w : Installed(e, w) \in Values
  BY ExecsAssumption, AbsentAssumption DEF Installed
<1>2. Overlay(s, e) \in [Files -> Values]
  BY <1>1 DEF Overlay
<1>3. ASSUME \A k \in DOMAIN Writes[e] : s[Writes[e][k].file] = Installed(e, Writes[e][k])
      PROVE  s = Overlay(s, e)
  <2>1. ASSUME NEW f \in Files, NEW k \in DOMAIN Writes[e], Writes[e][k].file = f
        PROVE  Installed(e, CHOOSE w \in Range(Writes[e]) : w.file = f) = s[f]
    <3> DEFINE w == CHOOSE w \in Range(Writes[e]) : w.file = f
    <3>1. \E x \in Range(Writes[e]) : x.file = f
      BY <2>1 DEF Range
    <3>2. w \in Range(Writes[e]) /\ w.file = f
      BY <3>1
    <3> HIDE DEF w
    <3>3. PICK j \in DOMAIN Writes[e] : w = Writes[e][j]
      BY <3>2 DEF Range
    <3>4. w = Writes[e][k]
      BY <2>1, <3>2, <3>3, WriteSet
    <3>. QED
      BY <1>3, <2>1, <3>4 DEF w
  <2>2. \A f \in Files : Overlay(s, e)[f] = s[f]
    BY <2>1 DEF Overlay
  <2>. QED
    BY <1>2, <2>2
<1>. QED
  BY <1>2, <1>3

\* The restoring steps of a rollback, one for each target.
LEMMA UndoFacts ==
    ASSUME exec \in Execs, saved \in [Files -> Values]
    PROVE  /\ Undo \in Seq(Steps)
           /\ \A j \in DOMAIN Undo : \E k \in DOMAIN Writes[exec] :
                 Undo[j] = RestoreStep(Target(k), saved[Target(k)],
                                       {Installed(exec, Writes[exec][k])})
           /\ \A k \in DOMAIN Writes[exec] :
                 \E j \in DOMAIN Undo : IsRestore(Undo[j]) /\ Undo[j].file = Target(k)
<1> DEFINE ws == Reverse(Writes[exec])
           n == Len(Writes[exec])
           step(w) == RestoreStep(w.file, saved[w.file], {Installed(exec, w)})
<1>1. /\ Writes[exec] \in Seq([file : Files, mode : Modes])
      /\ n \in Nat /\ DOMAIN Writes[exec] = 1 .. n
      /\ \A k \in 1 .. n : Writes[exec][k].file \in Files /\ Installed(exec, Writes[exec][k]) \in Values
  BY WriteSet
<1>2. /\ DOMAIN ws = 1 .. n
      /\ \A k \in 1 .. n : n - k + 1 \in 1 .. n /\ ws[k] = Writes[exec][n - k + 1]
      /\ \A k \in 1 .. n : ws[n - k + 1] = Writes[exec][k]
  BY <1>1, ReverseFacts
<1>3. Undo = [k \in DOMAIN ws |-> step(ws[k])]
  BY DEF Undo
<1> HIDE DEF ws, n
<1>4. ASSUME NEW k \in 1 .. n PROVE step(Writes[exec][k]) \in Steps
  <2> DEFINE w == Writes[exec][k]
  <2>1. w.file \in Files /\ saved[w.file] \in Values /\ Installed(exec, w) \in Values
    BY <1>1
  <2> HIDE DEF w
  <2>2. {Installed(exec, w)} \cup {saved[w.file]} \in SUBSET Values
    BY <2>1
  <2>3. step(w) \in RestoreSteps
    BY <2>1, <2>2 DEF RestoreStep, RestoreSteps
  <2>. QED
    BY <2>3 DEF w, Steps
<1>5. \A k \in 1 .. n : Undo[k] = step(Writes[exec][n - k + 1]) /\ n - k + 1 \in 1 .. n
  BY <1>2, <1>3
<1>6. DOMAIN Undo = 1 .. n
  BY <1>2, <1>3
<1>7. Undo \in Seq(Steps)
  <2>1. \A k \in 1 .. n : Undo[k] \in Steps
    <3> HIDE DEF step
    <3>. QED
      BY <1>4, <1>5
  <2>2. Undo = [k \in 1 .. n |-> Undo[k]]
    BY <1>2, <1>3
  <2> DEFINE u == Undo
  <2>3. n \in Nat /\ u = [k \in 1 .. n |-> u[k]] /\ \A k \in 1 .. n : u[k] \in Steps
    BY <1>1, <2>1, <2>2
  <2> HIDE DEF u
  <2>4. u \in Seq(Steps)
    BY <2>3
  <2>. QED
    BY <2>4 DEF u
<1>8. \A k \in 1 .. n : step(Writes[exec][k]) =
         RestoreStep(Target(k), saved[Target(k)], {Installed(exec, Writes[exec][k])})
  BY DEF Target
<1>9. \A j \in DOMAIN Undo : \E k \in DOMAIN Writes[exec] :
         Undo[j] = RestoreStep(Target(k), saved[Target(k)], {Installed(exec, Writes[exec][k])})
  <2> HIDE DEF step
  <2>. QED
    BY <1>1, <1>5, <1>6, <1>8
<1>10. ASSUME NEW k \in 1 .. n
       PROVE  \E j \in DOMAIN Undo : IsRestore(Undo[j]) /\ Undo[j].file = Target(k)
  <2>1. n - k + 1 \in 1 .. n /\ Undo[n - k + 1] = step(Writes[exec][k])
    BY <1>2, <1>3
  <2>2. IsRestore(step(Writes[exec][k])) /\ step(Writes[exec][k]).file = Target(k)
    BY StepFacts DEF Target
  <2> HIDE DEF step
  <2>. QED
    BY <1>6, <2>1, <2>2
<1>. QED
  BY <1>1, <1>7, <1>9, <1>10

-----------------------------------------------------------------------------
(***************************************************************************)
(* What the steps have in common.                                          *)
(***************************************************************************)

\* The log has its lines, broken ones, and records of R.
Logs(R) ==
    /\ wal' \in Wals
    /\ \A l \in Range(wal'.lines) : l # Broken => l \in Range(wal.lines) \/ l \in R

LEMMA LogSteps ==
    ASSUME wal \in Wals, NEW r \in RecordLines
    PROVE  /\ UNCHANGED wal => Logs({})
           /\ wal' = Repaired(wal) => Logs({})
           /\ Appended(r) => Logs({r})
           /\ AppendFails(r) => Logs({r})
           /\ \A cut \in Cuts : wal' = Write(Repaired(wal), r, cut) => Logs({r})
           /\ \A cut \in Cuts : wal' = Write(wal, r, cut) =>
                 Logs(IF cut \in {"part", "nothing"} THEN {} ELSE {r})
<1>1. UNCHANGED wal => Logs({})
  BY DEF Logs
<1>2. wal' = Repaired(wal) => Logs({})
  BY RepairedFacts DEF Logs
<1>3. \A cut \in Cuts : wal' = Write(wal, r, cut) =>
         Logs(IF cut \in {"part", "nothing"} THEN {} ELSE {r})
  BY WriteFacts DEF Logs
<1>4. \A cut \in Cuts : wal' = Write(wal, r, cut) => Logs({r})
  BY WriteFacts DEF Logs
<1>5. \A cut \in Cuts : wal' = Write(Repaired(wal), r, cut) => Logs({r})
  <2>1. Repaired(wal) \in Wals /\ Range(Repaired(wal).lines) \subseteq Range(wal.lines)
    BY RepairedFacts
  <2>. QED
    BY <2>1, WriteFacts DEF Logs
<1>6. "full" \in Cuts
  BY DEF Cuts
<1>. QED
  BY <1>1, <1>2, <1>3, <1>4, <1>5, <1>6 DEF Appended, AppendFails

LEMMA CleanFacts ==
    /\ Clean(Absent)
    /\ \A f \in Files : Clean(InitialContent[f])
    /\ \A e \in Execs : ~Unused(e) => Clean(e)
  BY ExecsAssumption, ContentAssumption DEF Clean

LEMMA FreshKept ==
    ASSUME Fresh, NEW R, Logs(R),
           \A e \in Execs : Unused(e)' => Unused(e),
           \A r \in R : Clean(r.original),
           \A f \in Files : Clean(content'[f]) /\ Clean(saved'[f]),
           \A s \in Range(script') : IsRestore(s) => Clean(s.to)
    PROVE  Fresh'
<1>1. \A l \in Range(wal'.lines) : l # Broken => Clean(l.original)
  BY DEF Fresh, Logs
<1> DEFINE StillClean(v) == \A e \in Execs : Unused(e)' => v # e
<1>2. \A v : Clean(v) => StillClean(v)
  BY DEF Clean
<1>3. /\ \A f \in Files : StillClean(content'[f]) /\ StillClean(saved'[f])
      /\ \A l \in Range(wal'.lines) : l # Broken => StillClean(l.original)
      /\ \A s \in Range(script') : IsRestore(s) => StillClean(s.to)
  <2> HIDE DEF StillClean
  <2>. QED
    BY <1>1, <1>2
<1>. QED
  BY <1>3 DEF Fresh, Clean, IsRestore

VouchedNext(i) == \A e \in Execs : IdOf[e] = i => e \in acked'

LEMMA CommittedKept ==
    ASSUME Committed, NEW R, Logs(R), acked \subseteq acked', faults' = 0 => faults = 0,
           \A r \in R : UniqueIds /\ r.stage = "Commit" => VouchedNext(r.tx),
           UniqueIds /\ faults' = 0 =>
              /\ pc' \in {"consume", "complete"} => VouchedNext(tx') \/ Vouched(tx')
              /\ \A i \in todo' \cup consumed' : VouchedNext(i) \/ Vouched(i)
    PROVE  Committed'
<1> SUFFICES ASSUME UniqueIds, faults' = 0
             PROVE  /\ \A l \in Range(wal'.lines) : l # Broken /\ l.stage = "Commit" => VouchedNext(l.tx)
                    /\ pc' \in {"consume", "complete"} => VouchedNext(tx')
                    /\ \A i \in todo' \cup consumed' : VouchedNext(i)
  BY DEF Committed, Vouched, VouchedNext, UniqueIds
<1>1. \A i : Vouched(i) => VouchedNext(i)
  BY DEF Vouched, VouchedNext
<1>2. \A l \in Range(wal.lines) : l # Broken /\ l.stage = "Commit" => Vouched(l.tx)
  BY DEF Committed
<1>3. \A l \in Range(wal'.lines) : l # Broken /\ l.stage = "Commit" => VouchedNext(l.tx)
  BY <1>1, <1>2 DEF Logs
<1>. QED
  BY <1>1, <1>3

LEMMA FaultFacts ==
    ASSUME RestTyped, Fault
    PROVE  /\ faults' \in Nat /\ faults' # 0 /\ Faultless' /\ Committed'
           /\ commanded' \in BOOLEAN /\ crashes' \in Nat
<1>1. faults' \in Nat /\ faults' # 0 /\ commanded' \in BOOLEAN /\ crashes' \in Nat
  BY DEF RestTyped, Fault
<1>. QED
  BY <1>1 DEF Faultless, Committed

LEMMA RestKept ==
    ASSUME RestTyped, UNCHANGED <<consumed, live, outcome, acked, truth, commanded, crashes, faults>>
    PROVE  RestTyped'
  BY DEF RestTyped

\* A step that ends with nobody in an execution or its rollback, and no undo.
LEMMA OffKeeps ==
    ASSUME IInv, NEW R, Logs(R), \A r \in R : Clean(r.original),
           pc' \in PcStages \ (TxStages \cup {"undo"}),
           LockTyped', LocalsTyped', RestTyped', Faultless', Committed',
           content' = content,
           saved' \in {saved, InitialContent}, script' \in {script, <<>>},
           \A e \in Execs : outcome'[e] # "running" /\ (outcome'[e] = "new" => outcome[e] = "new"),
           holder' = NoProc => /\ pc' = "idle" /\ exec' = NoExec /\ saved' = InitialContent
                               /\ script' = <<>> /\ ok' /\ ~bad',
           holder' # NoProc => pc' # "idle",
           pc' \in {"repair", "read", "inspect", "reconcile"} => op' \in {"recover", "activate"},
           pc' \in {"consume", "complete"} => tx' \in TxIds
    PROVE  IInv'
<1>1. FilesTyped'
  BY DEF IInv, TypeOK, FilesTyped, Logs
<1>2. ~Applying' /\ ~RollingBack' /\ pc' # "undo"
  BY DEF Applying, RollingBack, PcStages, TxStages
<1>3. Staged'
  BY <1>2 DEF Staged
<1>4. Placed' /\ Written' /\ Undoing' /\ Recovering'
  BY <1>2 DEF Placed, Written, Undoing, Recovering, Applying, TxStages
<1>5. Fresh'
  <2>1. \A e \in Execs : Unused(e)' => Unused(e)
    BY <1>2 DEF Unused, Applying, TxStages
  <2>2. Fresh
    BY DEF IInv
  <2>3. \A f \in Files : Clean(content'[f]) /\ Clean(saved'[f])
    BY <2>2, CleanFacts DEF Fresh
  <2>4. \A s \in Range(script') : IsRestore(s) => Clean(s.to)
    <3>1. Range(<<>>) = {}
      BY DEF Range
    <3>. QED
      BY <2>2, <3>1 DEF Fresh
  <2>. QED
    BY <2>1, <2>2, <2>3, <2>4, FreshKept
<1>. QED
  BY <1>1, <1>3, <1>4, <1>5 DEF IInv, TypeOK

\* The lock is dropped.
LEMMA ReleaseKeeps ==
    ASSUME IInv, NEW R, Logs(R), \A r \in R : Clean(r.original),
           Release, content' = content, RestTyped', Faultless', Committed',
           \A e \in Execs : outcome'[e] # "running" /\ (outcome'[e] = "new" => outcome[e] = "new")
    PROVE  IInv'
<1>1. /\ holder' = NoProc /\ op' = "none" /\ pc' = "idle"
      /\ exec' = NoExec /\ at' = 0 /\ saved' = InitialContent /\ tx' = NoTx
      /\ script' = <<>> /\ todo' = {} /\ ok' = TRUE /\ bad' = FALSE
  BY DEF Release
<1>2. pc' \in PcStages \ (TxStages \cup {"undo"}) /\ LockTyped'
  BY <1>1 DEF PcStages, TxStages, LockTyped
<1>3. LocalsTyped'
  <2>1. InitialContent \in [Files -> Values]
    BY ContentAssumption
  <2>2. <<>> \in Seq(Steps)
    OBVIOUS
  <2>. QED
    BY <1>1, <2>1, <2>2 DEF LocalsTyped
<1>. QED
  BY <1>1, <1>2, <1>3, OffKeeps

\* Nobody is in an execution.
LEMMA NobodyRuns ==
    ASSUME IInv, ~Applying, ~RollingBack
    PROVE  \A e \in Execs : outcome[e] # "running"
  BY DEF IInv, Staged

LEMMA Parts ==
    ASSUME IInv
    PROVE  /\ content \in [Files -> Values] /\ wal \in Wals
           /\ LockTyped /\ LocalsTyped /\ RestTyped
           /\ Staged /\ Fresh /\ Faultless /\ Committed
  BY DEF IInv, TypeOK, FilesTyped

\* The outcomes after an execution has ended with status s.
LEMMA Ended ==
    ASSUME IInv, Applying \/ RollingBack, NEW s \in Statuses \ {"running", "new"},
           outcome' = [outcome EXCEPT ![exec] = s]
    PROVE  /\ outcome' \in [Execs -> Statuses] /\ exec \in Execs
           /\ \A e \in Execs : outcome'[e] = IF e = exec THEN s ELSE outcome[e]
           /\ \A e \in Execs :
                 outcome'[e] # "running" /\ (outcome'[e] = "new" => outcome[e] = "new")
<1>1. outcome \in [Execs -> Statuses] /\ Staged
  BY Parts DEF RestTyped
<1>2. exec \in Execs
  BY <1>1 DEF Staged
<1>3. \A e \in Execs : outcome'[e] = IF e = exec THEN s ELSE outcome[e]
  BY <1>1
<1>4. \A e \in Execs : outcome[e] = "running" => e = exec
  BY <1>1 DEF Staged
<1>. QED
  BY <1>1, <1>2, <1>3, <1>4

\* A step of a transaction that does not end it.
LEMMA TxKeeps ==
    ASSUME IInv, NEW R, Logs(R), \A r \in R : Clean(r.original) /\ r.stage # "Commit",
           pc \in TxStages, pc' \in TxStages \ {"capture"}, pc' = "begin" => pc = "capture",
           UNCHANGED <<consumed, live, holder, op, exec, tx, script, todo, ok, bad, outcome,
                       acked, truth, commanded, crashes, faults>>,
           at' \in Nat, content' \in [Files -> Values], saved' \in [Files -> Values],
           \A f \in Files : Clean(content'[f]) /\ Clean(saved'[f]),
           Placed', Written'
    PROVE  IInv'
<1>1. wal' \in Wals /\ TypeOK /\ Staged /\ Applying /\ Fresh
  BY DEF Logs, IInv, Applying
<1>2. /\ pc' \in PcStages /\ Applying' /\ ~RollingBack' /\ pc' # "undo" /\ pc' # "idle"
      /\ pc' \notin {"repair", "read", "inspect", "reconcile", "consume", "complete"}
  BY DEF PcStages, TxStages, Applying, RollingBack
<1>3. TypeOK'
  BY <1>1, <1>2 DEF TypeOK, FilesTyped, LockTyped, LocalsTyped, RestTyped
<1>4. holder # NoProc
  BY <1>1 DEF Staged, TxStages
<1>5. Staged'
  BY <1>1, <1>2, <1>4 DEF Staged
<1>6. Undoing' /\ Recovering'
  BY <1>2 DEF Undoing, Recovering
<1>7. Fresh'
  <2>1. \A e \in Execs : Unused(e)' => Unused(e)
    BY <1>2 DEF Unused, TxStages
  <2>. QED
    BY <1>1, <2>1, FreshKept DEF Fresh
<1>8. Faultless'
  BY <1>2 DEF IInv, Faultless
<1>9. Committed'
  <2>1. Committed
    BY DEF IInv
  <2>2. UniqueIds /\ faults' = 0 => \A i \in todo' \cup consumed' : Vouched(i)
    BY <2>1 DEF Committed
  <2>. QED
    BY <1>2, <2>1, <2>2, CommittedKept
<1>. QED
  BY <1>3, <1>5, <1>6, <1>7, <1>8, <1>9 DEF IInv

\* A transaction fails and is rolled back.
LEMMA RollbackKeeps ==
    ASSUME IInv, NEW R, Logs(R), \A r \in R : Clean(r.original),
           pc \in {"image", "write", "written", "commit"}, Goto("undo"),
           script' \in {Undo, Undo \o <<[mark |-> Marker(Id, "RollbackComplete"), always |-> TRUE]>>},
           UNCHANGED <<consumed, live, exec, at, saved, tx, todo, ok, bad, outcome, acked, truth>>,
           Fault, content' \in [Files -> Values],
           \A k \in DOMAIN Writes[exec] :
              content'[Target(k)] \in {saved[Target(k)], Installed(exec, Writes[exec][k])},
           \A f \in Files : Clean(content'[f])
    PROVE  IInv'
<1> DEFINE m == [mark |-> Marker(Id, "RollbackComplete"), always |-> TRUE]
<1>1. wal' \in Wals /\ TypeOK /\ Staged /\ Fresh /\ Applying
  BY DEF Logs, IInv, Applying, TxStages
<1>2. exec \in Execs /\ op \in {"execute", "commit"} /\ holder # NoProc /\ outcome[exec] = "running"
      /\ ok /\ ~bad
  BY <1>1 DEF Staged
<1>3. pc' = "undo" /\ RollingBack' /\ ~Applying' /\ UNCHANGED <<holder, op>>
  BY <1>2 DEF Goto, RollingBack, Applying, TxStages
<1>4. m \in Steps /\ ~IsRestore(m)
  <2>1. Marker(Id, "RollbackComplete") \in Marks
    <3>1. Id \in TxIds
      BY <1>2, IdsAssumption DEF Id
    <3>. QED
      BY <3>1, AbsentAssumption
      DEF Marker, Marks, Records, Stages, ClosedStages, RollbackStages
  <2>2. m \in MarkSteps
    BY <2>1 DEF MarkSteps
  <2>. QED
    BY <2>2, StepFacts DEF Steps
<1> HIDE DEF m
<1>5. saved \in [Files -> Values]
  BY <1>1 DEF TypeOK, LocalsTyped
<1>6. /\ script' \in Seq(Steps)
      /\ \A j \in DOMAIN script' : IsRestore(script'[j]) => j \in DOMAIN Undo /\ script'[j] = Undo[j]
      /\ \A j \in DOMAIN Undo : j \in DOMAIN script' /\ script'[j] = Undo[j]
  <2>1. Undo \in Seq(Steps)
    BY <1>2, <1>5, UndoFacts
  <2>2. CASE script' = Undo
    BY <2>1, <2>2
  <2>3. CASE script' = Undo \o <<m>>
    <3> DEFINE u == Undo
    <3> HIDE DEF u
    <3>1. u \in Seq(Steps) /\ script' = u \o <<m>>
      BY <2>1, <2>3 DEF u
    <3>2. /\ script' \in Seq(Steps) /\ DOMAIN u = 1 .. Len(u) /\ Len(u) \in Nat
          /\ DOMAIN script' = 1 .. (Len(u) + 1)
          /\ \A j \in 1 .. Len(u) : script'[j] = u[j]
          /\ script'[Len(u) + 1] = m
      BY <1>4, <3>1
    <3>3. \A j \in 1 .. (Len(u) + 1) : j = Len(u) + 1 \/ j \in 1 .. Len(u)
      BY <3>2
    <3>. QED
      BY <1>4, <3>2, <3>3 DEF u
  <2>. QED
    BY <2>2, <2>3 DEF m
<1>7. TypeOK'
  <2>1. RestTyped'
    BY <1>1, FaultFacts DEF TypeOK, RestTyped
  <2>2. LocalsTyped'
    BY <1>1, <1>6 DEF TypeOK, LocalsTyped
  <2>. QED
    BY <1>1, <1>3, <2>1, <2>2 DEF TypeOK, FilesTyped, LockTyped, PcStages
<1>8. Staged'
  BY <1>1, <1>2, <1>3 DEF Staged
<1>9. Placed' /\ Written' /\ Recovering'
  BY <1>3 DEF Placed, Written, Recovering
<1>10. Undoing'
  <2>1. \A j \in DOMAIN script' : IsRestore(script'[j]) => \E k \in DOMAIN Writes[exec] :
           script'[j] = RestoreStep(Target(k), saved[Target(k)],
                                    {Installed(exec, Writes[exec][k])})
    BY <1>2, <1>5, <1>6, UndoFacts
  <2>2. \A k \in DOMAIN Writes[exec] :
           \E j \in DOMAIN script' : IsRestore(script'[j]) /\ script'[j].file = Target(k)
    BY <1>2, <1>5, <1>6, UndoFacts
  <2>. QED
    BY <2>1, <2>2 DEF Undoing, Target, IsRestore
<1>11. Fresh'
  <2>1. \A e \in Execs : Unused(e)' => Unused(e)
    BY <1>3 DEF Unused
  <2>2. ASSUME NEW s \in Range(script'), IsRestore(s) PROVE Clean(s.to)
    <3>1. PICK j \in DOMAIN script' : s = script'[j]
      BY DEF Range
    <3>2. PICK k \in DOMAIN Writes[exec] :
             s = RestoreStep(Target(k), saved[Target(k)], {Installed(exec, Writes[exec][k])})
      BY <1>2, <1>5, <1>6, <2>2, <3>1, UndoFacts
    <3>3. s.to = saved[Target(k)] /\ Target(k) \in Files
      BY <1>2, <3>2, StepFacts, WriteSet DEF Target
    <3>. QED
      BY <1>1, <3>3 DEF Fresh
  <2>3. \A f \in Files : Clean(saved'[f])
    BY <1>1 DEF Fresh
  <2>. QED
    BY <1>1, <2>1, <2>2, <2>3, FreshKept
<1>12. Faultless' /\ Committed'
  BY <1>1, FaultFacts DEF TypeOK
<1>. QED
  BY <1>7, <1>8, <1>9, <1>10, <1>11, <1>12 DEF IInv

\* A step of an undo, of a rollback or of the recovery.
LEMMA UndoStepKeeps ==
    ASSUME IInv, NEW R, Logs(R), \A r \in R : Clean(r.original) /\ r.stage # "Commit",
           pc = "undo", script # <<>>, script' = Tail(script),
           UNCHANGED <<consumed, live, holder, op, pc, exec, at, saved, tx, todo, outcome,
                       acked, truth>>,
           ok' \in BOOLEAN, bad' \in BOOLEAN, bad => bad',
           \/ content' = content /\ (bad' \/ ~IsRestore(Current))
           \/ IsRestore(Current) /\ content' = [content EXCEPT ![Current.file] = Current.to],
           UNCHANGED <<commanded, crashes, faults>> \/ Fault
    PROVE  IInv'
<1>1. wal' \in Wals /\ TypeOK /\ Staged /\ Fresh
  BY DEF Logs, IInv
<1>2. script \in Seq(Steps) /\ content \in [Files -> Values] /\ saved \in [Files -> Values]
  BY <1>1 DEF TypeOK, LocalsTyped, FilesTyped
<1>3. /\ Current \in Steps /\ Current = script[1] /\ 1 \in DOMAIN script /\ Len(script) \in Nat
      /\ script' \in Seq(Steps)
      /\ \A j \in DOMAIN script' : j + 1 \in DOMAIN script /\ script'[j] = script[j + 1]
      /\ \A j \in DOMAIN script : j # 1 => j - 1 \in DOMAIN script' /\ script'[j - 1] = script[j]
  <2>1. /\ Len(script) \in Nat /\ Len(script) # 0 /\ DOMAIN script = 1 .. Len(script)
        /\ script' \in Seq(Steps) /\ DOMAIN script' = 1 .. (Len(script) - 1)
        /\ \A j \in 1 .. (Len(script) - 1) : script'[j] = script[j + 1]
    BY <1>2
  <2>2. 1 \in DOMAIN script /\ script[1] \in Steps /\ Current = script[1]
    BY <1>2, <2>1 DEF Current
  <2>3. \A j \in DOMAIN script : j # 1 => j - 1 \in 1 .. (Len(script) - 1) /\ (j - 1) + 1 = j
    BY <2>1
  <2>. QED
    BY <2>1, <2>2, <2>3
<1>4. IsRestore(Current) => Current.file \in Files /\ Current.to \in Values /\ Clean(Current.to)
  <2>1. Current \in Range(script)
    BY <1>3 DEF Range
  <2>. QED
    BY <1>1, <1>3, <2>1, StepFacts DEF Fresh
<1>5. content' \in [Files -> Values]
  BY <1>2, <1>4
<1>6. \A f \in Files : content'[f] = content[f] \/ (IsRestore(Current) /\ content'[f] = Current.to)
  BY <1>2, <1>4
<1>7. TypeOK'
  <2>1. RestTyped'
    BY <1>1, FaultFacts DEF TypeOK, RestTyped
  <2>2. LocalsTyped'
    BY <1>1, <1>3 DEF TypeOK, LocalsTyped
  <2>. QED
    BY <1>1, <1>5, <2>1, <2>2 DEF TypeOK, FilesTyped, LockTyped
<1>8. ~Applying /\ ~Applying' /\ (RollingBack' <=> RollingBack) /\ holder # NoProc
  BY <1>1 DEF Applying, TxStages, RollingBack, Staged
<1>9. Staged'
  BY <1>1, <1>8 DEF Staged
<1>10. Placed' /\ Written'
  BY <1>8 DEF Placed, Written
<1>11. Undoing'
  <2> SUFFICES ASSUME RollingBack
               PROVE  /\ \A k \in DOMAIN Writes[exec] :
                            content'[Target(k)] \in {saved[Target(k)], Installed(exec, Writes[exec][k])}
                      /\ \A j \in DOMAIN script' : IsRestore(script'[j]) =>
                            \E k \in DOMAIN Writes[exec] :
                               script'[j] = RestoreStep(Target(k), saved[Target(k)],
                                                        {Installed(exec, Writes[exec][k])})
                      /\ ~bad' => \A k \in DOMAIN Writes[exec] :
                            \/ content'[Target(k)] = saved[Target(k)]
                            \/ \E j \in DOMAIN script' :
                                  IsRestore(script'[j]) /\ script'[j].file = Target(k)
    BY <1>8 DEF Undoing, Target, IsRestore
  <2>1. exec \in Execs
    BY <1>1 DEF Staged
  <2>2. \A k \in DOMAIN Writes[exec] : Target(k) \in Files
    BY <2>1, WriteSet DEF Target
  <2>3. /\ \A k \in DOMAIN Writes[exec] :
              content[Target(k)] \in {saved[Target(k)], Installed(exec, Writes[exec][k])}
        /\ \A j \in DOMAIN script : IsRestore(script[j]) =>
              \E k \in DOMAIN Writes[exec] :
                 script[j] = RestoreStep(Target(k), saved[Target(k)],
                                         {Installed(exec, Writes[exec][k])})
        /\ ~bad => \A k \in DOMAIN Writes[exec] :
              \/ content[Target(k)] = saved[Target(k)]
              \/ \E j \in DOMAIN script : IsRestore(script[j]) /\ script[j].file = Target(k)
    BY DEF IInv, Undoing
  <2>4. IsRestore(Current) => \E i \in DOMAIN Writes[exec] :
           Current.file = Target(i) /\ Current.to = saved[Target(i)]
    <3> SUFFICES ASSUME IsRestore(Current)
                 PROVE  \E i \in DOMAIN Writes[exec] :
                           Current.file = Target(i) /\ Current.to = saved[Target(i)]
      OBVIOUS
    <3>1. PICK i \in DOMAIN Writes[exec] :
             script[1] = RestoreStep(Target(i), saved[Target(i)], {Installed(exec, Writes[exec][i])})
      BY <1>3, <2>3
    <3>2. Current.file = Target(i) /\ Current.to = saved[Target(i)]
      BY <1>3, <3>1, StepFacts
    <3>. QED
      BY <3>2
  <2>5. ASSUME NEW k \in DOMAIN Writes[exec]
        PROVE  \/ content'[Target(k)] = content[Target(k)]
               \/ content'[Target(k)] = saved[Target(k)]
    <3>1. CASE IsRestore(Current) /\ Current.file = Target(k)
                /\ content' = [content EXCEPT ![Current.file] = Current.to]
      <4>1. Current.to = saved[Target(k)]
        BY <2>4, <3>1
      <4>. QED
        BY <1>2, <2>2, <3>1, <4>1
    <3>2. CASE Current.file # Target(k) \/ content' = content
      BY <1>2, <2>2, <3>2
    <3>. QED
      BY <3>1, <3>2
  <2>6. ASSUME ~bad', NEW k \in DOMAIN Writes[exec], content'[Target(k)] # saved[Target(k)]
        PROVE  \E j \in DOMAIN script' : IsRestore(script'[j]) /\ script'[j].file = Target(k)
    <3>1. content[Target(k)] # saved[Target(k)] /\ ~bad
      BY <2>5, <2>6
    <3>2. PICK j \in DOMAIN script : IsRestore(script[j]) /\ script[j].file = Target(k)
      BY <2>3, <3>1
    <3>3. CASE j = 1
      <4>1. IsRestore(Current) /\ Current.file = Target(k)
        BY <1>3, <3>2, <3>3
      <4>2. content' = [content EXCEPT ![Current.file] = Current.to]
        BY <2>6, <4>1
      <4>3. content'[Target(k)] = saved[Target(k)]
        BY <1>2, <2>2, <2>4, <4>1, <4>2
      <4>. QED
        BY <2>6, <4>3
    <3>4. CASE j # 1
      BY <1>3, <3>2, <3>4
    <3>. QED
      BY <3>3, <3>4
  <2>7. \A k \in DOMAIN Writes[exec] :
           content'[Target(k)] \in {saved[Target(k)], Installed(exec, Writes[exec][k])}
    BY <2>3, <2>5
  <2>8. \A j \in DOMAIN script' : IsRestore(script'[j]) =>
           \E k \in DOMAIN Writes[exec] :
              script'[j] = RestoreStep(Target(k), saved[Target(k)],
                                       {Installed(exec, Writes[exec][k])})
    <3> SUFFICES ASSUME NEW j \in DOMAIN script', IsRestore(script'[j])
                 PROVE  \E k \in DOMAIN Writes[exec] :
                           script'[j] = RestoreStep(Target(k), saved[Target(k)],
                                                    {Installed(exec, Writes[exec][k])})
      OBVIOUS
    <3>1. j + 1 \in DOMAIN script /\ script'[j] = script[j + 1]
      BY <1>3
    <3>2. IsRestore(script[j + 1])
      BY <3>1
    <3>. QED
      BY <2>3, <3>1, <3>2
  <2>. QED
    BY <2>6, <2>7, <2>8
<1>12. Recovering'
  <2>1. ASSUME ~RollingBack
        PROVE  \A j \in DOMAIN script' : IsRestore(script'[j]) => script'[j].from = Values
    BY <1>3, <2>1 DEF IInv, Recovering
  <2>. QED
    BY <1>8, <2>1 DEF Recovering, IsRestore
<1>13. Fresh'
  <2>1. \A e \in Execs : Unused(e)' => Unused(e)
    BY DEF Unused
  <2>2. ASSUME NEW s \in Range(script'), IsRestore(s) PROVE Clean(s.to)
    <3>1. s \in Range(script)
      BY <1>3 DEF Range
    <3>. QED
      BY <1>1, <2>2, <3>1 DEF Fresh
  <2>3. \A f \in Files : Clean(content'[f]) /\ Clean(saved'[f])
    BY <1>1, <1>4, <1>6 DEF Fresh
  <2>. QED
    BY <1>1, <2>1, <2>2, <2>3, FreshKept
<1>14. Faultless' /\ Committed'
  <2>1. CASE Fault
    BY <1>1, <2>1, FaultFacts DEF TypeOK
  <2>2. CASE UNCHANGED <<commanded, crashes, faults>>
    <3>1. Faultless'
      BY <1>8, <2>2 DEF IInv, Faultless
    <3>2. Committed
      BY DEF IInv
    <3>3. UniqueIds /\ faults' = 0 => \A i \in todo' \cup consumed' : Vouched(i)
      BY <2>2, <3>2 DEF Committed
    <3>4. Committed'
      BY <2>2, <3>2, <3>3, CommittedKept
    <3>. QED
      BY <3>1, <3>4
  <2>. QED
    BY <2>1, <2>2
<1>. QED
  BY <1>7, <1>9, <1>10, <1>11, <1>12, <1>13, <1>14 DEF IInv

-----------------------------------------------------------------------------
(***************************************************************************)
(* The transaction.                                                        *)
(***************************************************************************)

LEMMA StartKeeps ==
    ASSUME IInv, NEW p \in Procs, NEW e \in Execs, NEW o \in {"execute", "commit"}, Start(p, e, o)
    PROVE  IInv'
<1>1. /\ outcome[e] = "new" /\ holder = NoProc /\ holder' = p /\ op' = o /\ pc' = "capture"
      /\ exec' = e /\ outcome' = [outcome EXCEPT ![e] = "running"]
      /\ commanded' = (commanded \/ o = "execute")
      /\ UNCHANGED <<content, wal, consumed, live, at, saved, tx, script, todo, ok, bad, acked, truth,
                     crashes, faults>>
  BY DEF Start, Acquire, files, ghosts
<1>2. TypeOK /\ Staged /\ Fresh /\ outcome \in [Execs -> Statuses]
  BY DEF IInv, TypeOK, RestTyped
<1>3. /\ pc = "idle" /\ script = <<>> /\ ok /\ ~bad /\ ~Applying /\ ~RollingBack
      /\ \A d \in Execs : outcome[d] # "running"
  BY <1>1, <1>2 DEF Staged, Applying, RollingBack, TxStages
<1>4. \A d \in Execs : outcome'[d] = IF d = e THEN "running" ELSE outcome[d]
  BY <1>1, <1>2
<1>5. Applying' /\ ~RollingBack' /\ p # NoProc
  BY <1>1, ProcsAssumption DEF Applying, RollingBack, TxStages
<1>6. TypeOK'
  <2>1. outcome' \in [Execs -> Statuses]
    BY <1>1, <1>2 DEF Statuses
  <2>2. RestTyped'
    BY <1>1, <1>2, <2>1 DEF TypeOK, RestTyped
  <2>. QED
    BY <1>1, <1>2, <2>2 DEF TypeOK, FilesTyped, LockTyped, LocalsTyped, Ops, PcStages, TxStages
<1>7. Staged'
  BY <1>1, <1>2, <1>3, <1>4, <1>5 DEF Staged
<1>8. Placed' /\ Written' /\ Undoing' /\ Recovering'
  BY <1>1, <1>5 DEF Placed, Written, Undoing, Recovering
<1>9. Fresh'
  <2>1. \A d \in Execs : Unused(d)' => Unused(d)
    BY <1>1, <1>4 DEF Unused
  <2>2. wal \in Wals
    BY <1>2 DEF TypeOK, FilesTyped
  <2>3. Logs({})
    BY <1>1, <2>2 DEF Logs
  <2>4. \A f \in Files : Clean(content'[f]) /\ Clean(saved'[f])
    BY <1>1, <1>2 DEF Fresh
  <2>5. \A s \in Range(script') : IsRestore(s) => Clean(s.to)
    BY <1>1, <1>2 DEF Fresh
  <2>. QED
    BY <1>2, <2>1, <2>3, <2>4, <2>5, FreshKept
<1>10. Faultless'
  BY <1>1, <1>4, <1>5 DEF IInv, Faultless
<1>11. Committed'
  BY <1>1 DEF IInv, Committed, Vouched
<1>. QED
  BY <1>6, <1>7, <1>8, <1>9, <1>10, <1>11 DEF IInv

LEMMA LockTimeoutKeeps ==
    ASSUME IInv, NEW p \in Procs, NEW e \in Execs, LockTimeout(p, e)
    PROVE  IInv'
<1>1. /\ outcome[e] = "new" /\ holder # NoProc /\ outcome' = [outcome EXCEPT ![e] = "Blocked"]
      /\ UNCHANGED <<content, wal, consumed, live, holder, op, pc, exec, at, saved, tx, script, todo, ok, bad, acked,
                     truth, commanded, crashes, faults>>
  BY DEF LockTimeout, files, control, locals, ghosts, bounds
<1>2. TypeOK /\ Staged /\ outcome \in [Execs -> Statuses]
  BY DEF IInv, TypeOK, RestTyped
<1>3. \A d \in Execs : outcome'[d] = IF d = e THEN "Blocked" ELSE outcome[d]
  BY <1>1, <1>2
<1>4. (Applying' <=> Applying) /\ (RollingBack' <=> RollingBack)
  BY <1>1 DEF Applying, RollingBack
<1>5. TypeOK'
  <2>1. outcome' \in [Execs -> Statuses]
    BY <1>1, <1>2 DEF Statuses
  <2>. QED
    BY <1>1, <1>2, <2>1 DEF TypeOK, FilesTyped, LockTyped, LocalsTyped, RestTyped
<1>6. Staged'
  BY <1>1, <1>2, <1>3, <1>4 DEF Staged
<1>7. Placed' /\ Written' /\ Undoing' /\ Recovering'
  BY <1>1, <1>4 DEF IInv, Placed, Written, Undoing, Recovering, Target, IsRestore
<1>8. Fresh'
  <2>1. \A d \in Execs : Unused(d)' => Unused(d)
    BY <1>1, <1>3 DEF Unused
  <2>2. wal \in Wals /\ Fresh
    BY <1>2 DEF IInv, TypeOK, FilesTyped
  <2>3. Logs({})
    BY <1>1, <2>2 DEF Logs
  <2>4. \A f \in Files : Clean(content'[f]) /\ Clean(saved'[f])
    BY <1>1, <2>2 DEF Fresh
  <2>5. \A s \in Range(script') : IsRestore(s) => Clean(s.to)
    BY <1>1, <2>2 DEF Fresh
  <2>. QED
    BY <2>1, <2>2, <2>3, <2>4, <2>5, FreshKept
<1>9. Faultless'
  BY <1>1, <1>3, <1>4 DEF IInv, Faultless
<1>10. Committed'
  BY <1>1 DEF IInv, Committed, Vouched
<1>. QED
  BY <1>5, <1>6, <1>7, <1>8, <1>9, <1>10 DEF IInv

LEMMA NextRecordFacts ==
    ASSUME IInv, pc \in {"begin", "image", "written", "commit"}
    PROVE  /\ NextRecord \in RecordLines /\ Clean(NextRecord.original)
           /\ NextRecord.stage = "Commit" <=> pc = "commit"
           /\ pc = "commit" => NextRecord.tx = Id
           /\ exec \in Execs /\ Id \in TxIds
<1>1. Applying /\ Staged /\ Fresh /\ saved \in [Files -> Values]
  BY Parts DEF Applying, TxStages, LocalsTyped
<1>2. exec \in Execs /\ Id \in TxIds
  BY <1>1, IdsAssumption DEF Staged, Id
<1>3. pc \in {"image", "written"} => Target(at) \in Files
  BY <1>2, WriteSet DEF IInv, Placed, Target
<1>4. "Commit" \in Stages \ {"BeforeImage"}
  BY DEF Stages, ClosedStages
<1>5. Files # {}
  BY <1>2, WriteSet
<1>6. Clean(Absent)
  BY CleanFacts
<1>7. CASE pc = "begin"
  <2>1. NextRecord = BeginRecord(Id, op = "commit") /\ (op = "commit") \in BOOLEAN
    BY <1>7 DEF NextRecord
  <2> DEFINE b == (op = "commit")
  <2> HIDE DEF b
  <2>2. NextRecord = BeginRecord(Id, b) /\ b \in BOOLEAN
    BY <2>1 DEF b
  <2>3. BeginRecord(Id, b) \in RecordLines /\ BeginRecord(Id, b).stage = "Begin"
        /\ BeginRecord(Id, b).original = Absent
    BY <1>2, <1>5, <2>2, AbsentAssumption, MarkersAreRecords
  <2>. QED
    BY <1>2, <1>6, <1>7, <2>2, <2>3
<1>8. CASE pc = "image"
  <2> DEFINE v == saved[Target(at)]
             x == BeforeImage(Id, Target(at), v)
  <2>1. NextRecord = x
    BY <1>8 DEF NextRecord
  <2>2. v \in Values /\ Clean(v) /\ Target(at) \in Files
    BY <1>1, <1>3, <1>8 DEF Fresh
  <2> HIDE DEF v
  <2>3. x \in RecordLines /\ x.stage = "BeforeImage" /\ x.original = v
    BY <1>2, <2>2, ImageIsRecord
  <2> HIDE DEF x
  <2>. QED
    BY <1>2, <1>8, <2>1, <2>2, <2>3
<1>9. CASE pc = "written"
  <2> DEFINE x == WriteApplied(Id, Target(at))
  <2>1. NextRecord = x
    BY <1>9 DEF NextRecord
  <2>2. x \in RecordLines /\ x.stage = "WriteApplied" /\ x.original = Absent
    BY <1>2, <1>3, <1>9, AbsentAssumption, MarkersAreRecords
  <2> HIDE DEF x
  <2>. QED
    BY <1>2, <1>6, <1>9, <2>1, <2>2
<1>10. CASE pc = "commit"
  <2> DEFINE x == Marker(Id, "Commit")
  <2>1. NextRecord = x
    BY <1>10 DEF NextRecord
  <2>2. x \in RecordLines /\ x.stage = "Commit" /\ x.original = Absent /\ x.tx = Id
    BY <1>2, <1>4, <1>5, AbsentAssumption, MarkersAreRecords
  <2> HIDE DEF x
  <2>. QED
    BY <1>2, <1>6, <1>10, <2>1, <2>2
<1>. QED
  BY <1>7, <1>8, <1>9, <1>10

LEMMA CaptureKeeps ==
    ASSUME IInv, Capture
    PROVE  IInv'
<1>1. /\ pc = "capture" /\ pc' = "begin" /\ at' = 1 /\ saved' = content
      /\ UNCHANGED <<content, wal, consumed, live, holder, op, exec, tx, script, todo, ok, bad, outcome,
                     acked, truth, commanded, crashes, faults>>
  BY DEF Capture, Goto, files, ghosts, bounds
<1>2. content \in [Files -> Values] /\ wal \in Wals /\ Fresh
  BY Parts
<1>3. Logs({})
  BY <1>1, <1>2 DEF Logs
<1>4. \A f \in Files : Clean(content'[f]) /\ Clean(saved'[f])
  BY <1>1, <1>2 DEF Fresh
<1>5. Placed'
  BY <1>1 DEF Placed
<1>6. exec \in Execs
  BY <1>1, Parts DEF Staged, Applying, TxStages
<1>7. Written'
  <2>1. \A k \in DOMAIN Writes[exec] : ~(k < 1)
    BY <1>6, WriteSet
  <2>. QED
    BY <1>1, <2>1 DEF Written, Target
<1>8. pc \in TxStages /\ pc' \in TxStages \ {"capture"}
  BY <1>1 DEF TxStages
<1>. QED
  BY <1>1, <1>2, <1>3, <1>4, <1>5, <1>7, <1>8, TxKeeps

\* The appends of a transaction up to its Commit.
LEMMA LogKeeps ==
    ASSUME IInv, LogBegin \/ LogBeforeImage \/ LogWriteApplied
    PROVE  IInv'
<1>1. /\ pc \in {"begin", "image", "written"} /\ pc' \in {"image", "write", "commit"}
      /\ Appended(NextRecord)
      /\ pc = "begin" => pc' = "image" /\ at' = at
      /\ pc = "image" => pc' = "write" /\ at' = at
      /\ pc = "written" => /\ pc' = IF at = Len(Writes[exec]) THEN "commit" ELSE "image"
                           /\ at' = at + 1
      /\ UNCHANGED <<content, consumed, live, holder, op, exec, saved, tx, script, todo, ok, bad, outcome,
                     acked, truth, commanded, crashes, faults>>
  BY DEF LogBegin, LogBeforeImage, LogWriteApplied, Log, Goto, ghosts, bounds
<1>2. /\ content \in [Files -> Values] /\ wal \in Wals /\ Fresh /\ at \in Nat
      /\ saved \in [Files -> Values]
  BY Parts DEF LocalsTyped
<1>3. /\ NextRecord \in RecordLines /\ Clean(NextRecord.original) /\ NextRecord.stage # "Commit"
      /\ exec \in Execs
  BY <1>1, NextRecordFacts
<1>4. Logs({NextRecord})
  BY <1>1, <1>2, <1>3, LogSteps
<1>5. \A f \in Files : Clean(content'[f]) /\ Clean(saved'[f])
  BY <1>1, <1>2 DEF Fresh
<1>6. Len(Writes[exec]) \in Nat \ {0} /\ DOMAIN Writes[exec] = 1 .. Len(Writes[exec])
  BY <1>3, WriteSet
<1>7. Placed /\ Written
  BY DEF IInv
<1>8. Placed'
  BY <1>1, <1>2, <1>6, <1>7 DEF Placed
<1>9. Written'
  <2>1. /\ pc = "begin" => at = 1
        /\ pc \in {"image", "written"} => at \in DOMAIN Writes[exec]
        /\ \A k \in DOMAIN Writes[exec] :
              content[Target(k)] =
                 IF k < at \/ (k = at /\ pc = "written")
                   THEN Installed(exec, Writes[exec][k]) ELSE saved[Target(k)]
    BY <1>1, <1>7 DEF Placed, Written, Applying, TxStages
  <2>2. \A k \in DOMAIN Writes[exec] :
           (k < at \/ (k = at /\ pc = "written")) <=> (k < at' \/ (k = at' /\ pc' = "written"))
    BY <1>1, <1>2, <1>6
  <2>3. \A k \in DOMAIN Writes[exec] :
           content[Target(k)] =
              IF k < at' \/ (k = at' /\ pc' = "written")
                THEN Installed(exec, Writes[exec][k]) ELSE saved[Target(k)]
    BY <2>1, <2>2
  <2>. QED
    BY <1>1, <2>3 DEF Written, Target
<1>10. pc \in TxStages /\ pc' \in TxStages \ {"capture"} /\ pc' # "begin" /\ at' \in Nat
  BY <1>1, <1>2 DEF TxStages
<1>. QED
  BY <1>1, <1>2, <1>3, <1>4, <1>5, <1>8, <1>9, <1>10, TxKeeps

\* One more target is written.
LEMMA ApplyWriteKeeps ==
    ASSUME IInv, ApplyWrite
    PROVE  IInv'
<1>1. /\ pc = "write" /\ pc' = "written"
      /\ content' = [content EXCEPT ![Target(at)] = Installed(exec, Writes[exec][at])]
      /\ UNCHANGED <<wal, consumed, live, holder, op, exec, at, saved, tx, script, todo, ok, bad, outcome,
                     acked, truth, commanded, crashes, faults>>
  BY DEF ApplyWrite, Goto, locals, ghosts, bounds
<1>2. /\ content \in [Files -> Values] /\ wal \in Wals /\ Fresh /\ at \in Nat
      /\ saved \in [Files -> Values] /\ Staged
  BY Parts DEF LocalsTyped
<1>3. exec \in Execs /\ outcome[exec] = "running"
  BY <1>1, <1>2 DEF Staged, Applying, TxStages
<1>4. at \in DOMAIN Writes[exec] /\ at \in 1 .. Len(Writes[exec]) /\ Len(Writes[exec]) \in Nat
  BY <1>1, <1>3, WriteSet DEF IInv, Placed
<1>5. /\ Target(at) \in Files
      /\ Installed(exec, Writes[exec][at]) \in Values
      /\ Installed(exec, Writes[exec][at]) \in {Absent, exec}
      /\ \A k \in DOMAIN Writes[exec] : Target(k) = Target(at) => k = at
      /\ \A k \in DOMAIN Writes[exec] : Target(k) \in Files
  BY <1>3, <1>4, WriteSet DEF Target
<1>6. Logs({})
  BY <1>1, <1>2 DEF Logs
<1>7. content' \in [Files -> Values]
  BY <1>1, <1>2, <1>5
<1>8. \A f \in Files : Clean(content'[f]) /\ Clean(saved'[f])
  <2>1. ~Unused(exec)
    BY <1>1, <1>3 DEF Unused
  <2>2. Clean(Absent) /\ Clean(exec)
    BY <1>3, <2>1, CleanFacts
  <2>3. \A f \in Files : content'[f] = content[f] \/ content'[f] \in {Absent, exec}
    BY <1>1, <1>2, <1>5
  <2>. QED
    BY <1>1, <1>2, <2>2, <2>3 DEF Fresh
<1>9. Placed'
  BY <1>1, <1>4 DEF Placed
<1>10. Written'
  <2>1. \A k \in DOMAIN Writes[exec] :
           content[Target(k)] =
              IF k < at THEN Installed(exec, Writes[exec][k]) ELSE saved[Target(k)]
    BY <1>1 DEF IInv, Written, Applying, TxStages
  <2>2. ASSUME NEW k \in DOMAIN Writes[exec]
        PROVE  content'[Target(k)] =
                  IF k < at \/ k = at THEN Installed(exec, Writes[exec][k]) ELSE saved[Target(k)]
    <3>1. CASE k = at
      BY <1>1, <1>2, <1>5, <3>1
    <3>2. CASE k # at
      BY <1>1, <1>2, <1>5, <2>1, <3>2
    <3>. QED
      BY <3>1, <3>2
  <2>. QED
    BY <1>1, <2>2 DEF Written, Target
<1>11. pc \in TxStages /\ pc' \in TxStages \ {"capture"} /\ pc' # "begin"
  BY <1>1 DEF TxStages
<1>. QED
  BY <1>1, <1>2, <1>6, <1>7, <1>8, <1>9, <1>10, <1>11, TxKeeps

\* A transaction ends without a target touched.
LEMMA BlockedKeeps ==
    ASSUME IInv, Blocked \/ LogBeginFails
    PROVE  IInv'
<1>1. /\ pc \in {"capture", "begin"} /\ Return("Blocked")
      /\ UNCHANGED <<content, consumed, live, acked, truth>>
      /\ \/ UNCHANGED <<wal, commanded, crashes, faults>>
         \/ pc = "begin" /\ AppendFails(NextRecord)
  BY DEF Blocked, LogBeginFails, files, ghosts, bounds
<1>2. wal \in Wals /\ RestTyped /\ Applying /\ Faultless /\ Committed
  BY <1>1, Parts DEF Applying, TxStages
<1>3. "Blocked" \in Statuses \ {"running", "new"}
  BY DEF Statuses
<1>4. /\ outcome' \in [Execs -> Statuses]
      /\ \A e \in Execs : outcome'[e] # "RolledBack" \/ outcome[e] = "RolledBack"
      /\ \A e \in Execs : outcome'[e] # "running" /\ (outcome'[e] = "new" => outcome[e] = "new")
  BY <1>1, <1>2, <1>3, Ended DEF Return
<1>5. Release /\ pc' = "idle" /\ todo' = {}
  BY <1>1 DEF Return, Release
<1>6. CASE UNCHANGED <<wal, commanded, crashes, faults>>
  <2>1. RestTyped' /\ Logs({})
    BY <1>1, <1>2, <1>4, <1>6 DEF RestTyped, Logs
  <2>2. Faultless'
    BY <1>2, <1>4, <1>5, <1>6 DEF Faultless, RollingBack
  <2>3. UniqueIds /\ faults' = 0 => \A i \in todo' \cup consumed' : Vouched(i)
    BY <1>1, <1>2, <1>5, <1>6 DEF Committed
  <2>4. Committed'
    BY <1>1, <1>2, <1>5, <1>6, <2>1, <2>3, CommittedKept
  <2>. QED
    BY <1>1, <1>4, <1>5, <2>1, <2>2, <2>4, ReleaseKeeps
<1>7. CASE pc = "begin" /\ AppendFails(NextRecord)
  <2>1. NextRecord \in RecordLines /\ Clean(NextRecord.original)
    BY <1>7, NextRecordFacts
  <2>2. Logs({NextRecord}) /\ Fault
    BY <1>2, <1>7, <2>1, LogSteps DEF AppendFails
  <2>3. RestTyped' /\ Faultless' /\ Committed'
    BY <1>1, <1>2, <1>4, <2>2, FaultFacts DEF RestTyped
  <2>. QED
    BY <1>1, <1>4, <1>5, <2>1, <2>2, <2>3, ReleaseKeeps
<1>. QED
  BY <1>1, <1>6, <1>7

\* The executions that are acknowledged once exec is.
LEMMA AckFacts ==
    ASSUME RestTyped, exec \in Execs, Ack
    PROVE  /\ acked' \subseteq Execs /\ truth' \in [Files -> Values]
           /\ acked \subseteq acked' /\ exec \in acked'
           /\ UniqueIds => VouchedNext(Id)
<1>1. truth \in [Files -> Values] /\ acked \subseteq Execs
  BY DEF RestTyped
<1>2. Overlay(truth, exec) \in [Files -> Values]
  BY <1>1, OverlayFacts
<1>3. UniqueIds => \A e \in Execs : IdOf[e] = Id => e = exec
  BY DEF UniqueIds, Id
<1>. QED
  BY <1>1, <1>2, <1>3 DEF Ack, VouchedNext

LEMMA LogCommitKeeps ==
    ASSUME IInv, LogCommit
    PROVE  IInv'
<1>1. /\ pc = "commit" /\ Appended(NextRecord) /\ Ack
      /\ outcome' = [outcome EXCEPT ![exec] = "Applied"]
      /\ UNCHANGED <<content, consumed, live, commanded, crashes, faults>>
  BY DEF LogCommit, Return, bounds
<1>2. /\ wal \in Wals /\ RestTyped /\ LocalsTyped /\ LockTyped /\ Applying /\ Faultless /\ Committed
      /\ Staged
  BY <1>1, Parts DEF Applying, TxStages
<1>3. "Applied" \in Statuses \ {"running", "new"}
  BY DEF Statuses
<1>4. /\ outcome' \in [Execs -> Statuses] /\ exec \in Execs
      /\ \A e \in Execs : outcome'[e] # "RolledBack" \/ outcome[e] = "RolledBack"
      /\ \A e \in Execs : outcome'[e] # "running" /\ (outcome'[e] = "new" => outcome[e] = "new")
  BY <1>1, <1>2, <1>3, Ended
<1>5. /\ NextRecord \in RecordLines /\ Clean(NextRecord.original) /\ NextRecord.tx = Id
      /\ Id \in TxIds
  BY <1>1, NextRecordFacts
<1>6. Logs({NextRecord})
  BY <1>1, <1>2, <1>5, LogSteps
<1>7. /\ acked' \subseteq Execs /\ truth' \in [Files -> Values] /\ acked \subseteq acked'
      /\ UniqueIds => VouchedNext(Id)
  BY <1>1, <1>2, <1>4, AckFacts
<1>8. RestTyped'
  BY <1>1, <1>2, <1>4, <1>7 DEF RestTyped
<1>9. pc' # "undo" => Faultless'
  BY <1>1, <1>2, <1>4 DEF Faultless, RollingBack
<1>10. CASE op = "commit"
  <2>1. /\ pc' = "consume" /\ tx' = Id
        /\ UNCHANGED <<holder, op, exec, at, saved, script, todo, ok, bad>>
    BY <1>10 DEF LogCommit, Goto
  <2>2. UniqueIds /\ faults' = 0 => \A i \in todo' \cup consumed' : Vouched(i)
    BY <1>1, <1>2, <2>1 DEF Committed
  <2>3. Committed'
    BY <1>1, <1>2, <1>5, <1>6, <1>7, <2>1, <2>2, CommittedKept
  <2>4. LockTyped' /\ LocalsTyped' /\ pc' \in PcStages \ (TxStages \cup {"undo"})
    BY <1>2, <1>5, <2>1 DEF LockTyped, LocalsTyped, PcStages, TxStages
  <2>5. holder' # NoProc
    BY <1>1, <1>2, <2>1 DEF Staged
  <2>. QED
    BY <1>1, <1>4, <1>5, <1>6, <1>8, <1>9, <2>1, <2>3, <2>4, <2>5, OffKeeps
<1>11. CASE op # "commit"
  <2>1. Release /\ pc' = "idle" /\ todo' = {}
    BY <1>11 DEF LogCommit, Return, Release
  <2>2. UniqueIds /\ faults' = 0 => \A i \in todo' \cup consumed' : Vouched(i)
    BY <1>1, <1>2, <2>1 DEF Committed
  <2>3. Committed'
    BY <1>1, <1>2, <1>5, <1>6, <1>7, <2>1, <2>2, CommittedKept
  <2>. QED
    BY <1>1, <1>4, <1>5, <1>6, <1>8, <1>9, <2>1, <2>3, ReleaseKeeps
<1>. QED
  BY <1>10, <1>11

\* The targets of a transaction, wherever it is, are as they were found or as it
\* leaves them.
LEMMA Between ==
    ASSUME IInv, pc \in {"image", "write", "written", "commit"}
    PROVE  \A k \in DOMAIN Writes[exec] :
              content[Target(k)] \in {saved[Target(k)], Installed(exec, Writes[exec][k])}
  BY DEF IInv, Written, Applying, TxStages

LEMMA FailingWritesKeep ==
    ASSUME IInv,
           LogBeforeImageFails \/ LogWriteAppliedFails \/ LogCommitFails \/ ApplyWriteFails
    PROVE  IInv'
<1>1. /\ Goto("undo") /\ Fault
      /\ script' \in {Undo, Undo \o <<[mark |-> Marker(Id, "RollbackComplete"), always |-> TRUE]>>}
      /\ UNCHANGED <<consumed, live, exec, at, saved, tx, todo, ok, bad, outcome, acked, truth>>
      /\ \/ /\ pc \in {"image", "written", "commit"}
            /\ AppendFails(NextRecord) /\ content' = content
         \/ /\ pc = "write" /\ wal' = wal
            /\ content' \in {content,
                             [content EXCEPT ![Target(at)] = Installed(exec, Writes[exec][at])]}
  BY DEF LogBeforeImageFails, LogWriteAppliedFails, LogCommitFails, ApplyWriteFails,
         UndoAndRecord, AppendFails, ghosts
<1>2. content \in [Files -> Values] /\ wal \in Wals /\ Fresh /\ Staged
  BY Parts
<1>3. CASE pc \in {"image", "written", "commit"} /\ AppendFails(NextRecord) /\ content' = content
  <2>1. NextRecord \in RecordLines /\ Clean(NextRecord.original)
    BY <1>3, NextRecordFacts
  <2>2. Logs({NextRecord})
    BY <1>2, <1>3, <2>1, LogSteps
  <2>3. \A k \in DOMAIN Writes[exec] :
           content'[Target(k)] \in {saved[Target(k)], Installed(exec, Writes[exec][k])}
    BY <1>3, Between
  <2>4. \A f \in Files : Clean(content'[f])
    BY <1>2, <1>3 DEF Fresh
  <2>. QED
    BY <1>1, <1>2, <1>3, <2>1, <2>2, <2>3, <2>4, RollbackKeeps
<1>4. CASE /\ pc = "write" /\ wal' = wal
           /\ content' \in {content,
                            [content EXCEPT ![Target(at)] = Installed(exec, Writes[exec][at])]}
  <2>1. exec \in Execs /\ outcome[exec] = "running"
    BY <1>2, <1>4 DEF Staged, Applying, TxStages
  <2>2. at \in DOMAIN Writes[exec]
    BY <1>4 DEF IInv, Placed
  <2>3. /\ Target(at) \in Files
        /\ Installed(exec, Writes[exec][at]) \in Values
        /\ Installed(exec, Writes[exec][at]) \in {Absent, exec}
        /\ \A k \in DOMAIN Writes[exec] : Target(k) = Target(at) => k = at
        /\ \A k \in DOMAIN Writes[exec] : Target(k) \in Files
    BY <2>1, <2>2, WriteSet DEF Target
  <2>4. Logs({})
    BY <1>2, <1>4 DEF Logs
  <2>5. content' \in [Files -> Values]
    BY <1>2, <1>4, <2>3
  <2>6. \A k \in DOMAIN Writes[exec] :
           content'[Target(k)] \in {saved[Target(k)], Installed(exec, Writes[exec][k])}
    <3>1. ASSUME NEW k \in DOMAIN Writes[exec]
          PROVE  \/ content'[Target(k)] = content[Target(k)]
                 \/ k = at /\ content'[Target(k)] = Installed(exec, Writes[exec][at])
      BY <1>2, <1>4, <2>3
    <3>. QED
      BY <1>4, <3>1, Between
  <2>7. \A f \in Files : Clean(content'[f])
    <3>1. ~Unused(exec)
      BY <1>4, <2>1 DEF Unused
    <3>2. Clean(Absent) /\ Clean(exec)
      BY <2>1, <3>1, CleanFacts
    <3>3. \A f \in Files : content'[f] = content[f] \/ content'[f] \in {Absent, exec}
      BY <1>2, <1>4, <2>3
    <3>. QED
      BY <1>2, <3>2, <3>3 DEF Fresh
  <2>. QED
    BY <1>1, <1>4, <2>4, <2>5, <2>6, <2>7, RollbackKeeps
<1>. QED
  BY <1>1, <1>3, <1>4

-----------------------------------------------------------------------------
(***************************************************************************)
(* The undo.                                                               *)
(***************************************************************************)

\* The record of a mark.
LEMMA MarkFacts ==
    ASSUME IInv, Marking
    PROVE  /\ Current.mark \in RecordLines /\ Clean(Current.mark.original)
           /\ Current.mark.stage # "Commit" /\ ~IsRestore(Current)
<1>1. script \in Seq(Steps) /\ script # <<>> /\ "mark" \in DOMAIN Current
  BY Parts DEF Marking, LocalsTyped
<1>2. Current \in Steps
  BY <1>1 DEF Current
<1>3. Current \in MarkSteps
  BY <1>1, <1>2, StepFacts
<1>4. Current.mark \in Marks /\ ~IsRestore(Current)
  BY <1>3, StepFacts DEF MarkSteps, IsRestore
<1>5. /\ Current.mark \in Records /\ Current.mark.original = Absent
      /\ Current.mark.stage \in RollbackStages
  BY <1>4 DEF Marks
<1>. QED
  BY <1>4, <1>5, CleanFacts DEF RecordLines, RollbackStages

LEMMA RestoreKeeps ==
    ASSUME IInv, Restore \/ RestoreFails
    PROVE  IInv'
<1>1. /\ pc = "undo" /\ script # <<>> /\ IsRestore(Current) /\ script' = Tail(script)
      /\ content' \in {content, [content EXCEPT ![Current.file] = Current.to]}
      /\ UNCHANGED <<wal, consumed, live, holder, op, pc, exec, at, saved, tx, todo, outcome,
                     acked, truth>>
  BY DEF Restore, RestoreFails, Restoring, IsRestore, control, ghosts
<1>2. \/ /\ content' = [content EXCEPT ![Current.file] = Current.to]
         /\ UNCHANGED <<ok, bad, commanded, crashes, faults>>
      \/ ok' = FALSE /\ bad' = TRUE /\ Fault
  BY DEF Restore, RestoreFails, bounds
<1>3. wal \in Wals /\ ok \in BOOLEAN /\ bad \in BOOLEAN
  BY Parts DEF LocalsTyped
<1>4. Logs({})
  BY <1>1, <1>3 DEF Logs
<1>5. ok' \in BOOLEAN /\ bad' \in BOOLEAN /\ (bad => bad')
  BY <1>2, <1>3
<1>6. \/ content' = content /\ (bad' \/ ~IsRestore(Current))
      \/ IsRestore(Current) /\ content' = [content EXCEPT ![Current.file] = Current.to]
  BY <1>1, <1>2
<1>7. UNCHANGED <<commanded, crashes, faults>> \/ Fault
  BY <1>2
<1>. QED
  BY <1>1, <1>4, <1>5, <1>6, <1>7, UndoStepKeeps

LEMMA MarkKeeps ==
    ASSUME IInv, LogMark \/ LogMarkFails \/ SkipMark
    PROVE  IInv'
<1>1. /\ Marking /\ pc = "undo" /\ script # <<>> /\ script' = Tail(script) /\ ok' = TRUE
      /\ UNCHANGED <<content, consumed, live, holder, op, pc, exec, at, saved, tx, todo, outcome,
                     acked, truth>>
  BY DEF LogMark, LogMarkFails, SkipMark, Marking, files, control, ghosts
<1>2. \/ Appended(Current.mark) /\ UNCHANGED <<bad, commanded, crashes, faults>>
      \/ AppendFails(Current.mark) /\ bad' = TRUE
      \/ UNCHANGED <<wal, bad, commanded, crashes, faults>>
  BY DEF LogMark, LogMarkFails, SkipMark, files, bounds
<1>3. wal \in Wals /\ bad \in BOOLEAN
  BY Parts DEF LocalsTyped
<1>4. /\ Current.mark \in RecordLines /\ Clean(Current.mark.original)
      /\ Current.mark.stage # "Commit" /\ ~IsRestore(Current)
  BY <1>1, MarkFacts
<1>5. Logs({}) \/ Logs({Current.mark})
  BY <1>2, <1>3, <1>4, LogSteps
<1>6. \E R \in {{}, {Current.mark}} : Logs(R) /\ \A r \in R : Clean(r.original) /\ r.stage # "Commit"
  BY <1>4, <1>5
<1>7. bad' \in BOOLEAN /\ (bad => bad') /\ ok' \in BOOLEAN
  BY <1>1, <1>2, <1>3
<1>8. UNCHANGED <<commanded, crashes, faults>> \/ Fault
  BY <1>2 DEF AppendFails
<1>. QED
  BY <1>1, <1>4, <1>6, <1>7, <1>8, UndoStepKeeps

LEMMA RolledBackKeeps ==
    ASSUME IInv, RolledBack
    PROVE  IInv'
<1> DEFINE s == IF bad THEN "RollbackFailed" ELSE "RolledBack"
<1>1. /\ pc = "undo" /\ op \in {"execute", "commit"} /\ Return(s)
      /\ UNCHANGED <<content, wal, consumed, live, acked, truth, commanded, crashes, faults>>
  BY DEF RolledBack, files, ghosts, bounds
<1>2. RollingBack /\ wal \in Wals /\ RestTyped /\ Faultless
  BY <1>1, Parts DEF RollingBack
<1>3. s \in Statuses \ {"running", "new"}
  BY DEF Statuses
<1> HIDE DEF s
<1>4. /\ outcome' \in [Execs -> Statuses]
      /\ \A e \in Execs : outcome'[e] # "running" /\ (outcome'[e] = "new" => outcome[e] = "new")
  BY <1>1, <1>2, <1>3, Ended DEF Return
<1>5. faults' # 0
  BY <1>1, <1>2 DEF Faultless
<1>6. Faultless' /\ Committed' /\ RestTyped' /\ Logs({}) /\ Release
  BY <1>1, <1>2, <1>4, <1>5 DEF Faultless, Committed, RestTyped, Logs, Return
<1>. QED
  BY <1>1, <1>4, <1>6, ReleaseKeeps

-----------------------------------------------------------------------------
(***************************************************************************)
(* The recovery and the replay keys.                                       *)
(***************************************************************************)

\* The holder goes on outside an execution.
Elsewhere ==
    /\ pc' \in {"repair", "read", "inspect", "reconcile", "consume", "complete"}
    /\ holder' \in Procs /\ op' \in Ops \cup {"none"}
    /\ pc' \in {"repair", "read", "inspect", "reconcile"} => op' \in {"recover", "activate"}
    /\ UNCHANGED <<exec, at, saved, script, ok, bad>>
    /\ tx' \in TxIds \cup {NoTx} /\ todo' \subseteq TxIds
    /\ pc' \in {"consume", "complete"} => tx' \in TxIds

LEMMA QuietKeeps ==
    ASSUME IInv, ~Applying, ~RollingBack, NEW R, Logs(R),
           \A r \in R : Clean(r.original) /\ r.stage # "Commit",
           UNCHANGED <<content, outcome, acked, truth>>,
           live' \subseteq Procs, consumed' \subseteq TxIds,
           UNCHANGED <<commanded, crashes, faults>> \/ Fault,
           Release \/ Elsewhere,
           UniqueIds /\ faults' = 0 =>
              /\ pc' \in {"consume", "complete"} => Vouched(tx')
              /\ \A i \in todo' \cup consumed' : Vouched(i)
    PROVE  IInv'
<1>1. /\ wal \in Wals /\ RestTyped /\ LocalsTyped /\ LockTyped /\ Faultless /\ Committed
      /\ Staged /\ \A e \in Execs : outcome'[e] # "running"
  BY Parts, NobodyRuns
<1>2. RestTyped'
  BY <1>1, FaultFacts DEF RestTyped
<1>3. pc' # "undo"
  BY DEF Release, Elsewhere
<1>4. Faultless' /\ Committed'
  <2>1. CASE Fault
    BY <1>1, <2>1, FaultFacts
  <2>2. CASE UNCHANGED <<commanded, crashes, faults>>
    <3>1. Faultless'
      BY <1>1, <1>3, <2>2 DEF Faultless, RollingBack
    <3>2. Committed'
      BY <1>1, <2>2, CommittedKept
    <3>. QED
      BY <3>1, <3>2
  <2>. QED
    BY <2>1, <2>2
<1>5. CASE Release
  BY <1>1, <1>2, <1>4, <1>5, ReleaseKeeps
<1>6. CASE Elsewhere
  <2>1. LockTyped' /\ LocalsTyped'
    BY <1>1, <1>6 DEF Elsewhere, LockTyped, LocalsTyped, PcStages
  <2>2. pc' \in PcStages \ (TxStages \cup {"undo"}) /\ holder' # NoProc /\ pc' # "idle"
    BY <1>6, ProcsAssumption DEF Elsewhere, PcStages, TxStages
  <2>3. /\ saved' \in {saved, InitialContent} /\ script' \in {script, <<>>}
        /\ pc' \in {"repair", "read", "inspect", "reconcile"} => op' \in {"recover", "activate"}
        /\ pc' \in {"consume", "complete"} => tx' \in TxIds
    BY <1>6 DEF Elsewhere
  <2>. QED
    BY <1>1, <1>2, <1>4, <2>1, <2>2, <2>3, OffKeeps
<1>. QED
  BY <1>5, <1>6

\* What is known where nobody is in an execution.
LEMMA Outside ==
    ASSUME IInv, \/ holder = NoProc
                 \/ pc \in {"repair", "read", "inspect", "reconcile", "consume", "complete"}
                 \/ pc = "undo" /\ op \in {"recover", "activate"}
    PROVE  /\ ~Applying /\ ~RollingBack
           /\ wal \in Wals /\ live \subseteq Procs /\ consumed \subseteq TxIds /\ todo \subseteq TxIds
           /\ tx \in TxIds \cup {NoTx} /\ holder \in Procs \cup {NoProc} /\ op \in Ops \cup {"none"}
           /\ pc # "idle" => holder \in Procs
           /\ pc \in {"repair", "read", "inspect", "reconcile"} => op \in {"recover", "activate"}
           /\ pc \in {"consume", "complete"} => tx \in TxIds
           /\ UniqueIds /\ faults = 0 =>
                 /\ pc \in {"consume", "complete"} => Vouched(tx)
                 /\ \A i \in todo \cup consumed : Vouched(i)
<1>1. LockTyped /\ LocalsTyped /\ RestTyped /\ Staged /\ Committed /\ wal \in Wals
  BY Parts
<1>2. ~Applying /\ ~RollingBack
  BY <1>1 DEF Staged, Applying, RollingBack, TxStages
<1>. QED
  BY <1>1, <1>2 DEF LockTyped, LocalsTyped, RestTyped, Staged, Committed

LEMMA ActivationsStart ==
    ASSUME IInv, NEW p \in Procs, StartRecovery(p) \/ StartActivation(p)
    PROVE  IInv'
<1>1. /\ holder = NoProc /\ holder' = p
      /\ \/ op' = "recover" /\ pc' = "read"
         \/ op' = "activate" /\ pc' = "repair"
      /\ UNCHANGED <<content, wal, consumed, live, exec, at, saved, tx, script, todo, ok, bad, outcome,
                     acked, truth, commanded, crashes, faults>>
  BY DEF StartRecovery, StartActivation, Acquire, files, locals, ghosts, bounds
<1>2. Elsewhere
  BY <1>1, Outside DEF Elsewhere, Ops
<1>3. Logs({})
  BY <1>1, Outside DEF Logs
<1>. QED
  BY <1>1, <1>2, <1>3, Outside, QuietKeeps

LEMMA RepairKeeps ==
    ASSUME IInv, Repair \/ RepairFails
    PROVE  IInv'
<1>1. /\ pc = "repair" /\ wal' \in {wal, Repaired(wal)}
      /\ UNCHANGED <<content, consumed, live, outcome, acked, truth>>
      /\ UNCHANGED <<commanded, crashes, faults>> \/ Fault
      /\ \/ /\ pc' = "read"
            /\ UNCHANGED <<holder, op, exec, at, saved, tx, script, todo, ok, bad>>
         \/ Release
  BY DEF Repair, RepairFails, Goto, locals, ghosts, bounds
<1>2. /\ ~Applying /\ ~RollingBack /\ wal \in Wals /\ live \subseteq Procs /\ consumed \subseteq TxIds
      /\ todo \subseteq TxIds /\ tx \in TxIds \cup {NoTx} /\ holder \in Procs
      /\ op \in {"recover", "activate"}
      /\ UniqueIds /\ faults = 0 => \A i \in todo \cup consumed : Vouched(i)
  BY <1>1, Outside
<1>3. Release \/ Elsewhere
  BY <1>1, <1>2 DEF Elsewhere, Ops
<1>4. Logs({})
  BY <1>1, <1>2, RepairedFacts DEF Logs
<1>5. UniqueIds /\ faults' = 0 =>
         /\ pc' \in {"consume", "complete"} => Vouched(tx')
         /\ \A i \in todo' \cup consumed' : Vouched(i)
  <2>1. faults' = 0 => faults = 0
    BY <1>1, FaultFacts, Parts
  <2>2. pc' \notin {"consume", "complete"} /\ todo' \cup consumed' \subseteq todo \cup consumed
    BY <1>1 DEF Release
  <2>. QED
    BY <1>2, <2>1, <2>2
<1>. QED
  BY <1>1, <1>2, <1>3, <1>4, <1>5, QuietKeeps

LEMMA ReadWalKeeps ==
    ASSUME IInv, ReadWal
    PROVE  IInv'
<1> DEFINE rs == RecordsOf(wal)
<1>1. /\ pc = "read" /\ pc' = "undo"
      /\ script' = FlattenSeq([k \in DOMAIN Incomplete(rs) |-> UndoIncomplete(rs, Incomplete(rs)[k])])
      /\ UNCHANGED <<content, wal, consumed, live, holder, op, exec, at, saved, tx, todo, ok, bad, outcome,
                     acked, truth, commanded, crashes, faults>>
  BY DEF ReadWal, Goto, files, ghosts, bounds
<1>2. TypeOK /\ Staged /\ Fresh /\ wal \in Wals
  BY Parts DEF IInv
<1>3. /\ rs \in Seq(RecordLines) /\ Range(rs) \subseteq Range(wal.lines)
      /\ \A r \in Range(rs) : r # Broken
  BY <1>2, RecordsOfFacts
<1>4. script' \in Seq(Recoveries(rs))
  BY <1>1, <1>3, RecoveryScript
<1> HIDE DEF rs
<1>5. \A s \in Recoveries(rs) :
         /\ s \in Steps
         /\ IsRestore(s) => s.from = Values /\ \E r \in Range(rs) : s.to = r.original
  BY DEF Recoveries
<1>6. /\ script' \in Seq(Steps)
      /\ \A j \in DOMAIN script' : IsRestore(script'[j]) =>
            script'[j].from = Values /\ \E r \in Range(rs) : script'[j].to = r.original
  <2> DEFINE T == Recoveries(rs)
  <2> HIDE DEF T
  <2>1. script' \in Seq(T) /\ Len(script') \in Nat /\ DOMAIN script' = 1 .. Len(script')
    BY <1>4 DEF T
  <2>2. \A j \in 1 .. Len(script') : script'[j] \in T
    BY <2>1
  <2>3. script' = [j \in 1 .. Len(script') |-> script'[j]]
    BY <2>1
  <2>4. \A j \in 1 .. Len(script') : script'[j] \in Steps
    BY <1>5, <2>2 DEF T
  <2>5. script' \in Seq(Steps)
    BY <2>1, <2>3, <2>4
  <2>. QED
    BY <1>5, <2>1, <2>2, <2>5 DEF T
<1>7. op \in {"recover", "activate"} /\ ~RollingBack' /\ ~Applying' /\ ~Applying /\ ~RollingBack
      /\ holder # NoProc
  BY <1>1, <1>2 DEF Staged, RollingBack, Applying, TxStages
<1>8. TypeOK'
  BY <1>1, <1>2, <1>6 DEF TypeOK, FilesTyped, LockTyped, LocalsTyped, RestTyped, PcStages
<1>9. Staged'
  BY <1>1, <1>2, <1>7 DEF Staged
<1>10. Placed' /\ Written' /\ Undoing'
  BY <1>1, <1>7 DEF Placed, Written, Undoing
<1>11. Recovering'
  BY <1>6 DEF Recovering, IsRestore
<1>12. Fresh'
  <2>1. \A e \in Execs : Unused(e)' => Unused(e)
    BY <1>1 DEF Unused
  <2>2. Logs({})
    BY <1>1, <1>2 DEF Logs
  <2>3. ASSUME NEW s \in Range(script'), IsRestore(s) PROVE Clean(s.to)
    <3>1. PICK j \in DOMAIN script' : s = script'[j]
      BY DEF Range
    <3>2. PICK r \in Range(rs) : s.to = r.original
      BY <1>6, <2>3, <3>1
    <3>. QED
      BY <1>2, <1>3, <3>2 DEF Fresh
  <2>4. \A f \in Files : Clean(content'[f]) /\ Clean(saved'[f])
    BY <1>1, <1>2 DEF Fresh
  <2>. QED
    BY <1>2, <2>1, <2>2, <2>3, <2>4, FreshKept
<1>13. Faultless' /\ Committed'
  BY <1>1, <1>7 DEF IInv, Faultless, Committed, Vouched
<1>. QED
  BY <1>8, <1>9, <1>10, <1>11, <1>12, <1>13 DEF IInv

\* The steps in which the recovery or the activation goes on or ends, and the log is
\* not written.
LEMMA RecoveredKeeps ==
    ASSUME IInv, ReadWalFails \/ Recovered \/ Reconcile \/ Activated
    PROVE  IInv'
<1>1. UNCHANGED <<content, wal, consumed, outcome, acked, truth, commanded, crashes, faults>>
  BY DEF ReadWalFails, Recovered, Reconcile, Activated, files, ghosts, bounds
<1>2. \/ pc \in {"read", "reconcile"}
      \/ pc = "undo" /\ op \in {"recover", "activate"}
  BY DEF ReadWalFails, Recovered, Reconcile, Activated
<1>3. /\ ~Applying /\ ~RollingBack /\ wal \in Wals /\ live \subseteq Procs /\ consumed \subseteq TxIds
      /\ todo \subseteq TxIds /\ tx \in TxIds \cup {NoTx} /\ holder \in Procs
      /\ op \in {"recover", "activate"}
      /\ UniqueIds /\ faults = 0 => \A i \in todo \cup consumed : Vouched(i)
  BY <1>2, Outside
<1>4. Logs({})
  BY <1>1, <1>3 DEF Logs
<1>5. CASE Release
  <2>1. live' \subseteq Procs
    BY <1>3 DEF ReadWalFails, Recovered, Reconcile, Activated
  <2>2. pc' = "idle" /\ todo' = {}
    BY <1>5 DEF Release
  <2>. QED
    BY <1>1, <1>3, <1>4, <1>5, <2>1, <2>2, QuietKeeps
<1>6. CASE Recovered /\ pc' = "inspect" /\ UNCHANGED <<holder, op, locals, live>>
  <2>1. UNCHANGED <<exec, at, saved, tx, script, todo, ok, bad>>
    BY <1>6 DEF locals
  <2>2. Elsewhere
    BY <1>3, <1>6, <2>1 DEF Elsewhere, Ops
  <2>. QED
    BY <1>1, <1>3, <1>4, <1>6, <2>1, <2>2, QuietKeeps
<1>7. CASE Reconcile
  <2>1. PICK i \in todo : tx' = i /\ todo' = todo \ {i}
    BY <1>7 DEF Reconcile
  <2>2. pc' = "consume" /\ UNCHANGED <<holder, op, live, exec, at, saved, script, ok, bad>>
    BY <1>7 DEF Reconcile, Goto
  <2>3. Elsewhere
    BY <1>3, <2>1, <2>2 DEF Elsewhere, Ops
  <2>4. UniqueIds /\ faults' = 0 => Vouched(tx') /\ \A j \in todo' \cup consumed' : Vouched(j)
    BY <1>1, <1>3, <2>1
  <2>. QED
    BY <1>1, <1>3, <1>4, <2>2, <2>3, <2>4, QuietKeeps
<1>. QED
  BY <1>5, <1>6, <1>7 DEF ReadWalFails, Recovered, Activated, Goto

LEMMA InspectKeeps ==
    ASSUME IInv, Inspect
    PROVE  IInv'
<1>1. /\ pc = "inspect" /\ wal' = Repaired(wal)
      /\ UNCHANGED <<content, consumed, live, outcome, acked, truth, commanded, crashes, faults>>
      /\ \/ /\ todo' = Pending(RecordsOf(wal')) /\ pc' = "reconcile"
            /\ UNCHANGED <<holder, op, exec, at, saved, tx, script, ok, bad>>
         \/ Release
  BY DEF Inspect, Goto, ghosts, bounds
<1>2. /\ ~Applying /\ ~RollingBack /\ wal \in Wals /\ live \subseteq Procs /\ consumed \subseteq TxIds
      /\ tx \in TxIds \cup {NoTx} /\ holder \in Procs
      /\ op \in {"recover", "activate"}
      /\ UniqueIds /\ faults = 0 => \A i \in todo \cup consumed : Vouched(i)
  BY <1>1, Outside
<1>3. wal' \in Wals /\ Range(wal'.lines) \subseteq Range(wal.lines)
  BY <1>1, <1>2, RepairedFacts
<1>4. Logs({})
  BY <1>3 DEF Logs
<1>5. CASE Release
  <2>1. pc' = "idle" /\ todo' = {}
    BY <1>5 DEF Release
  <2>. QED
    BY <1>1, <1>2, <1>4, <1>5, <2>1, QuietKeeps
<1>6. CASE todo' = Pending(RecordsOf(wal')) /\ pc' = "reconcile"
           /\ UNCHANGED <<holder, op, exec, at, saved, tx, script, ok, bad>>
  <2> DEFINE rs == RecordsOf(wal')
  <2>1. rs \in Seq(RecordLines) /\ Range(rs) \subseteq Range(wal'.lines) /\ \A r \in Range(rs) : r # Broken
    BY <1>3, RecordsOfFacts
  <2>2. todo' = Pending(rs)
    BY <1>6
  <2> HIDE DEF rs
  <2>3. \A i \in todo' : i \in TxIds /\ \E r \in Range(rs) : r.tx = i /\ r.stage = "Commit"
    BY <2>1, <2>2, PendingFacts
  <2>4. Elsewhere
    BY <1>2, <1>6, <2>3 DEF Elsewhere, Ops
  <2>5. UniqueIds /\ faults' = 0 => \A i \in todo' \cup consumed' : Vouched(i)
    <3>1. UniqueIds /\ faults = 0 =>
             \A l \in Range(wal.lines) : l # Broken /\ l.stage = "Commit" => Vouched(l.tx)
      BY DEF IInv, Committed
    <3>. QED
      BY <1>1, <1>2, <1>3, <2>1, <2>3, <3>1
  <2>. QED
    BY <1>1, <1>2, <1>4, <1>6, <2>4, <2>5, QuietKeeps
<1>. QED
  BY <1>1, <1>5, <1>6

LEMMA ConsumeKeeps ==
    ASSUME IInv, ConsumeReplay \/ ConsumeReplayFails
    PROVE  IInv'
<1>1. /\ pc = "consume" /\ consumed' \in {consumed, consumed \cup {tx}}
      /\ UNCHANGED <<content, wal, live, outcome, acked, truth>>
      /\ UNCHANGED <<commanded, crashes, faults>> \/ Fault
      /\ \/ /\ pc' = "complete"
            /\ UNCHANGED <<holder, op, exec, at, saved, tx, script, todo, ok, bad>>
         \/ Release
  BY DEF ConsumeReplay, ConsumeReplayFails, Goto, locals, ghosts, bounds
<1>2. /\ ~Applying /\ ~RollingBack /\ wal \in Wals /\ live \subseteq Procs /\ consumed \subseteq TxIds
      /\ todo \subseteq TxIds /\ tx \in TxIds /\ holder \in Procs /\ op \in Ops \cup {"none"}
      /\ UniqueIds /\ faults = 0 => Vouched(tx) /\ \A i \in todo \cup consumed : Vouched(i)
  BY <1>1, Outside
<1>3. Release \/ Elsewhere
  BY <1>1, <1>2 DEF Elsewhere
<1>4. Logs({})
  BY <1>1, <1>2 DEF Logs
<1>5. UniqueIds /\ faults' = 0 =>
         /\ pc' \in {"consume", "complete"} => Vouched(tx')
         /\ \A i \in todo' \cup consumed' : Vouched(i)
  <2>1. faults' = 0 => faults = 0
    BY <1>1, FaultFacts, Parts
  <2>2. /\ todo' \cup consumed' \subseteq todo \cup consumed \cup {tx}
        /\ pc' \in {"consume", "complete"} => tx' = tx
    BY <1>1 DEF Release
  <2>. QED
    BY <1>2, <2>1, <2>2
<1>6. consumed' \subseteq TxIds
  BY <1>1, <1>2
<1>. QED
  BY <1>1, <1>2, <1>3, <1>4, <1>5, <1>6, QuietKeeps

LEMMA CompletionKeeps ==
    ASSUME IInv, LogCompletion \/ LogCompletionFails
    PROVE  IInv'
<1> DEFINE r == Marker(tx, "ReplayConsumed")
<1>1. /\ pc = "complete"
      /\ wal' = Repaired(wal) \/ \E cut \in Cuts : wal' = Write(Repaired(wal), r, cut)
      /\ UNCHANGED <<content, consumed, live, outcome, acked, truth>>
      /\ UNCHANGED <<commanded, crashes, faults>> \/ Fault
      /\ \/ /\ pc' = "reconcile" /\ op = "activate"
            /\ UNCHANGED <<holder, op, exec, at, saved, tx, script, todo, ok, bad>>
         \/ Release
  BY DEF LogCompletion, LogCompletionFails, Goto, locals, ghosts, bounds, Cuts
<1>2. /\ ~Applying /\ ~RollingBack /\ wal \in Wals /\ live \subseteq Procs /\ consumed \subseteq TxIds
      /\ todo \subseteq TxIds /\ tx \in TxIds /\ holder \in Procs
      /\ UniqueIds /\ faults = 0 => \A i \in todo \cup consumed : Vouched(i)
  BY <1>1, Outside
<1>3. r \in RecordLines /\ Clean(r.original) /\ r.stage # "Commit"
  <2>1. r \in Records /\ r.stage = "ReplayConsumed" /\ r.original = Absent
    BY <1>2, AbsentAssumption DEF Marker, Records, Stages
  <2>. QED
    BY <2>1, CleanFacts DEF RecordLines
<1> HIDE DEF r
<1>4. Logs({}) \/ Logs({r})
  BY <1>1, <1>2, <1>3, LogSteps
<1>5. PICK R : Logs(R) /\ \A x \in R : Clean(x.original) /\ x.stage # "Commit"
  BY <1>3, <1>4
<1>6. Release \/ Elsewhere
  BY <1>1, <1>2 DEF Elsewhere, Ops
<1>7. UniqueIds /\ faults' = 0 =>
         /\ pc' \in {"consume", "complete"} => Vouched(tx')
         /\ \A i \in todo' \cup consumed' : Vouched(i)
  <2>1. faults' = 0 => faults = 0
    BY <1>1, FaultFacts, Parts
  <2>2. /\ todo' \cup consumed' \subseteq todo \cup consumed
        /\ pc' \notin {"consume", "complete"}
    BY <1>1 DEF Release
  <2>. QED
    BY <1>2, <2>1, <2>2
<1>. QED
  BY <1>1, <1>2, <1>5, <1>6, <1>7, QuietKeeps

LEMMA CompactKeeps ==
    ASSUME IInv, NEW p \in Procs, Compact(p)
    PROVE  IInv'
<1>1. /\ holder = NoProc /\ wal' = [lines |-> Retained(RecordsOf(wal)), ended |-> TRUE]
      /\ UNCHANGED <<content, consumed, live, holder, op, pc, exec, at, saved, tx, script, todo, ok, bad, outcome,
                     acked, truth, commanded, crashes, faults>>
  BY DEF Compact, control, locals, ghosts, bounds
<1>2. /\ wal \in Wals /\ RestTyped /\ LocalsTyped /\ LockTyped /\ Faultless /\ Committed /\ Staged
      /\ ~Applying /\ ~RollingBack
      /\ UniqueIds /\ faults = 0 => \A i \in todo \cup consumed : Vouched(i)
  BY <1>1, Parts, Outside
<1>3. pc = "idle" /\ exec = NoExec /\ saved = InitialContent /\ script = <<>> /\ ok /\ ~bad
  BY <1>1, <1>2 DEF Staged
<1>4. Logs({})
  <2> DEFINE rs == RecordsOf(wal)
  <2>1. rs \in Seq(RecordLines) /\ Range(rs) \subseteq Range(wal.lines)
    BY <1>2, RecordsOfFacts
  <2> HIDE DEF rs
  <2>2. Retained(rs) \in Seq(RecordLines) /\ Range(Retained(rs)) \subseteq Range(rs)
    BY <2>1, RetainedFacts
  <2> DEFINE ls == Retained(rs)
  <2> HIDE DEF ls
  <2>3. ls \in Seq(Lines)
    <3>1. \A i \in 1 .. Len(ls) : ls[i] \in RecordLines
      BY <2>2 DEF ls
    <3>2. Len(ls) \in Nat /\ ls = [i \in 1 .. Len(ls) |-> ls[i]]
      BY <2>2 DEF ls
    <3>. QED
      BY <3>1, <3>2 DEF Lines
  <2>4. wal' = [lines |-> ls, ended |-> TRUE]
    BY <1>1 DEF ls, rs
  <2>5. wal' \in Wals /\ wal'.lines = ls
    BY <2>3, <2>4, MakeWal
  <2>. QED
    BY <2>1, <2>2, <2>5 DEF Logs, ls
<1>5. LockTyped' /\ LocalsTyped' /\ RestTyped'
  BY <1>1, <1>2 DEF LockTyped, LocalsTyped, RestTyped
<1>6. Faultless'
  BY <1>1, <1>2 DEF Faultless, RollingBack
<1>7. Committed'
  BY <1>1, <1>2, <1>3, <1>4, CommittedKept
<1>8. pc' \in PcStages \ (TxStages \cup {"undo"})
  BY <1>1, <1>3 DEF PcStages, TxStages
<1>9. \A e \in Execs : outcome'[e] # "running" /\ (outcome'[e] = "new" => outcome[e] = "new")
  BY <1>1, <1>2, NobodyRuns
<1>. QED
  BY <1>1, <1>3, <1>4, <1>5, <1>6, <1>7, <1>8, <1>9, OffKeeps

\* Another process than the holder dies, or nothing happens.
LEMMA BystanderKeeps ==
    ASSUME IInv, live' \subseteq Procs, crashes' \in Nat,
           UNCHANGED <<content, wal, consumed, holder, op, pc, exec, at, saved, tx, script, todo, ok, bad, outcome,
                       acked, truth, commanded, faults>>
    PROVE  IInv'
<1>1. (Applying' <=> Applying) /\ (RollingBack' <=> RollingBack)
  BY DEF Applying, RollingBack
<1>2. TypeOK'
  BY DEF IInv, TypeOK, FilesTyped, LockTyped, LocalsTyped, RestTyped
<1>3. Staged'
  BY <1>1 DEF IInv, Staged
<1>4. Placed' /\ Written' /\ Undoing' /\ Recovering'
  BY <1>1 DEF IInv, Placed, Written, Undoing, Recovering, Target, IsRestore
<1>5. Fresh'
  BY DEF IInv, Fresh, Clean, Unused, IsRestore
<1>6. Faultless' /\ Committed'
  BY <1>1 DEF IInv, Faultless, Committed, Vouched
<1>. QED
  BY <1>2, <1>3, <1>4, <1>5, <1>6 DEF IInv

\* What the holder may be appending.
LEMMA AppendingFacts ==
    ASSUME IInv, NEW r \in Appending
    PROVE  /\ r \in RecordLines /\ Clean(r.original)
           /\ r.stage = "Commit" => pc = "commit" /\ exec \in Execs /\ r.tx = Id
<1>1. CASE pc \in {"begin", "image", "written", "commit"}
  BY <1>1, NextRecordFacts DEF Appending
<1>2. CASE pc \notin {"begin", "image", "written", "commit"} /\ Marking
  <2>1. r = Current.mark
    BY <1>2 DEF Appending, Marking
  <2>. QED
    BY <1>2, <2>1, MarkFacts
<1>3. CASE pc \notin {"begin", "image", "written", "commit"} /\ ~Marking
  <2>1. pc = "complete" /\ r = Marker(tx, "ReplayConsumed")
    BY <1>3 DEF Appending
  <2>2. tx \in TxIds
    BY <2>1, Outside
  <2>3. r \in Records /\ r.stage = "ReplayConsumed" /\ r.original = Absent
    BY <2>1, <2>2, AbsentAssumption DEF Marker, Records, Stages
  <2>. QED
    BY <2>3, CleanFacts DEF RecordLines
<1>. QED
  BY <1>1, <1>2, <1>3

LEMMA CrashKeeps ==
    ASSUME IInv, NEW p \in Procs, Crash(p)
    PROVE  IInv'
<1>1. content' = content /\ commanded' = commanded /\ faults' = faults
      /\ crashes' = crashes + 1 /\ live' = live \ {p}
  BY DEF Crash
<1>2. /\ wal \in Wals /\ RestTyped /\ LocalsTyped /\ LockTyped /\ Faultless /\ Committed /\ Staged
  BY Parts
<1>3. live' \subseteq Procs /\ crashes' \in Nat
  BY <1>1, <1>2 DEF RestTyped
<1>4. CASE holder # p
  <2>1. UNCHANGED <<wal, consumed, outcome, acked, truth, holder, op, pc, exec, at, saved, tx, script,
                    todo, ok, bad>>
    BY <1>4 DEF Crash, ghosts, control, locals
  <2>. QED
    BY <1>1, <1>3, <2>1, BystanderKeeps
<1>5. CASE holder = p
  <2>1. /\ \/ wal' = wal /\ IF CommitLanded THEN Ack ELSE UNCHANGED <<acked, truth>>
           \/ \E r \in Appending, cut \in Cuts \ {"nothing"} :
                /\ wal' = Write(IF pc = "complete" THEN Repaired(wal) ELSE wal, r, cut)
                /\ IF r.stage = "Commit" /\ cut # "part" THEN Ack ELSE UNCHANGED <<acked, truth>>
        /\ \/ UNCHANGED consumed
           \/ pc = "consume" /\ consumed' = consumed \cup {tx}
        /\ outcome' = [e \in Execs |-> IF outcome[e] = "running" THEN "lost" ELSE outcome[e]]
        /\ Release
    BY <1>5 DEF Crash, ghosts
  <2>2. /\ outcome' \in [Execs -> Statuses]
        /\ \A e \in Execs : outcome'[e] = IF outcome[e] = "running" THEN "lost" ELSE outcome[e]
    BY <1>2, <2>1 DEF RestTyped, Statuses
  <2>3. \A e \in Execs : outcome'[e] # "running" /\ (outcome'[e] = "new" => outcome[e] = "new")
    BY <2>2
  <2>4. CommitLanded => exec \in Execs
    BY <1>2 DEF CommitLanded, Staged, RollingBack
  <2>5. \E R : /\ Logs(R) /\ acked \subseteq acked' /\ acked' \subseteq Execs
               /\ truth' \in [Files -> Values]
               /\ \A r \in R : /\ Clean(r.original)
                               /\ UniqueIds /\ r.stage = "Commit" => VouchedNext(r.tx)
    <3>1. CASE wal' = wal /\ IF CommitLanded THEN Ack ELSE UNCHANGED <<acked, truth>>
      <4>1. Logs({})
        BY <1>2, <3>1 DEF Logs
      <4>2. acked \subseteq acked' /\ acked' \subseteq Execs /\ truth' \in [Files -> Values]
        BY <1>2, <2>4, <3>1, AckFacts DEF RestTyped
      <4>. QED
        BY <4>1, <4>2
    <3>2. ASSUME NEW r \in Appending, NEW cut \in Cuts \ {"nothing"},
                 wal' = Write(IF pc = "complete" THEN Repaired(wal) ELSE wal, r, cut),
                 IF r.stage = "Commit" /\ cut # "part" THEN Ack ELSE UNCHANGED <<acked, truth>>
          PROVE  \E R : /\ Logs(R) /\ acked \subseteq acked' /\ acked' \subseteq Execs
                        /\ truth' \in [Files -> Values]
                        /\ \A x \in R : /\ Clean(x.original)
                                        /\ UniqueIds /\ x.stage = "Commit" => VouchedNext(x.tx)
      <4>1. /\ r \in RecordLines /\ Clean(r.original)
            /\ r.stage = "Commit" => pc = "commit" /\ exec \in Execs /\ r.tx = Id
        BY AppendingFacts
      <4>2. /\ acked \subseteq acked' /\ acked' \subseteq Execs /\ truth' \in [Files -> Values]
            /\ UniqueIds /\ r.stage = "Commit" /\ cut # "part" => VouchedNext(r.tx)
        BY <1>2, <3>2, <4>1, AckFacts DEF RestTyped
      <4>3. CASE r.stage = "Commit" /\ cut = "part"
        <5>1. wal' = Write(wal, r, cut)
          BY <3>2, <4>1, <4>3
        <5>2. Logs({})
          BY <1>2, <4>1, <4>3, <5>1, LogSteps
        <5>. QED
          BY <4>2, <5>2
      <4>4. CASE ~(r.stage = "Commit" /\ cut = "part")
        <5>1. Logs({r})
          <6>1. CASE pc = "complete"
            BY <1>2, <3>2, <4>1, <6>1, LogSteps
          <6>2. CASE pc # "complete"
            BY <1>2, <3>2, <4>1, <6>2, WriteFacts DEF Logs
          <6>. QED
            BY <6>1, <6>2
        <5>2. \A x \in {r} : Clean(x.original) /\ (UniqueIds /\ x.stage = "Commit" => VouchedNext(x.tx))
          BY <4>1, <4>2, <4>4
        <5>. QED
          BY <4>2, <5>1, <5>2
      <4>. QED
        BY <4>3, <4>4
    <3>. QED
      BY <2>1, <3>1, <3>2
  <2>6. PICK R : /\ Logs(R) /\ acked \subseteq acked' /\ acked' \subseteq Execs
                 /\ truth' \in [Files -> Values]
                 /\ \A r \in R : /\ Clean(r.original)
                                 /\ UniqueIds /\ r.stage = "Commit" => VouchedNext(r.tx)
    BY <2>5
  <2>7. /\ consumed' \subseteq TxIds
        /\ UniqueIds /\ faults = 0 => \A i \in consumed' : Vouched(i)
    BY <1>2, <2>1 DEF RestTyped, Staged, Committed
  <2>8. pc' = "idle" /\ todo' = {}
    BY <2>1 DEF Release
  <2>9. RestTyped'
    BY <1>1, <1>2, <1>3, <2>2, <2>6, <2>7 DEF RestTyped
  <2>10. Faultless'
    BY <1>1, <1>2, <2>2, <2>8 DEF Faultless, RollingBack
  <2>11. Committed'
    BY <1>1, <1>2, <2>6, <2>7, <2>8, CommittedKept
  <2>. QED
    BY <1>1, <2>1, <2>3, <2>6, <2>9, <2>10, <2>11, ReleaseKeeps
<1>. QED
  BY <1>4, <1>5

-----------------------------------------------------------------------------
(***************************************************************************)
(* The theorems.                                                           *)
(***************************************************************************)

LEMMA InitHolds == Init => IInv
<1> SUFFICES ASSUME Init PROVE IInv
  OBVIOUS
<1>1. /\ content = InitialContent /\ wal = EmptyWal /\ consumed = {} /\ live = {}
      /\ holder = NoProc /\ op = "none" /\ pc = "idle"
      /\ exec = NoExec /\ at = 0 /\ saved = InitialContent /\ tx = NoTx
      /\ script = <<>> /\ todo = {} /\ ok = TRUE /\ bad = FALSE
      /\ outcome = [e \in Execs |-> "new"] /\ acked = {} /\ truth = InitialContent
      /\ commanded = FALSE /\ crashes = 0 /\ faults = 0
  BY DEF Init
<1>2. InitialContent \in [Files -> Values] /\ \A f \in Files : InitialContent[f] \notin Execs
  BY ContentAssumption
<1>3. wal \in Wals /\ Range(wal.lines) = {}
  <2>1. <<>> \in Seq(Lines) /\ Range(<<>>) = {}
    BY DEF Range
  <2>2. wal = [lines |-> <<>>, ended |-> TRUE]
    BY <1>1 DEF EmptyWal
  <2>3. wal \in Wals /\ wal.lines = <<>>
    BY <2>1, <2>2, MakeWal
  <2>. QED
    BY <2>1, <2>3
<1>4. TypeOK
  <2>1. RestTyped
    BY <1>1, <1>2 DEF RestTyped, Statuses
  <2>2. LocalsTyped
    <3>1. <<>> \in Seq(Steps)
      OBVIOUS
    <3>. QED
      BY <1>1, <1>2, <3>1 DEF LocalsTyped
  <2>. QED
    BY <1>1, <1>2, <1>3, <2>1, <2>2 DEF TypeOK, FilesTyped, LockTyped, PcStages
<1>5. ~Applying /\ ~RollingBack /\ \A e \in Execs : outcome[e] = "new"
  BY <1>1 DEF Applying, RollingBack, TxStages
<1>6. Staged
  BY <1>1, <1>5 DEF Staged
<1>7. Placed /\ Written /\ Undoing /\ Recovering
  BY <1>1, <1>5 DEF Placed, Written, Undoing, Recovering
<1>8. Fresh
  <2>1. Range(script) = {}
    BY <1>1 DEF Range
  <2>. QED
    BY <1>1, <1>2, <1>3, <2>1 DEF Fresh, Clean
<1>9. Faultless /\ Committed
  BY <1>1, <1>3, <1>5 DEF Faultless, Committed
<1>. QED
  BY <1>4, <1>6, <1>7, <1>8, <1>9 DEF IInv

LEMMA NextKeeps == IInv /\ [Next]_vars => IInv'
<1> SUFFICES ASSUME IInv, [Next]_vars PROVE IInv'
  OBVIOUS
<1>1. ASSUME NEW p \in Procs, NEW e \in Execs,
             StartCommand(p, e) \/ StartCommit(p, e) \/ LockTimeout(p, e)
      PROVE  IInv'
  BY <1>1, StartKeeps, LockTimeoutKeeps DEF StartCommand, StartCommit
<1>2. ASSUME NEW p \in Procs,
             StartRecovery(p) \/ StartActivation(p) \/ Compact(p) \/ Crash(p)
      PROVE  IInv'
  BY <1>2, ActivationsStart, CompactKeeps, CrashKeeps
<1>3. CASE HolderStep
  BY <1>3, CaptureKeeps, BlockedKeeps, LogKeeps, ApplyWriteKeeps, LogCommitKeeps, RestoreKeeps,
     MarkKeeps, RolledBackKeeps, RepairKeeps, ReadWalKeeps, RecoveredKeeps, InspectKeeps,
     ConsumeKeeps, CompletionKeeps
  DEF HolderStep
<1>4. CASE Failure
  BY <1>4, BlockedKeeps, FailingWritesKeep, RestoreKeeps, MarkKeeps, RepairKeeps, ConsumeKeeps,
     CompletionKeeps
  DEF Failure
<1>5. CASE UNCHANGED vars
  <2>1. UNCHANGED <<content, wal, consumed, live, holder, op, pc, exec, at, saved, tx, script, todo, ok, bad,
                    outcome, acked, truth, commanded, crashes, faults>>
    BY <1>5 DEF vars, files, control, locals, ghosts, bounds
  <2>2. live' \subseteq Procs /\ crashes' \in Nat
    BY <2>1, Parts DEF RestTyped
  <2>. QED
    BY <2>1, <2>2, BystanderKeeps
<1>. QED
  BY <1>1, <1>2, <1>3, <1>4, <1>5 DEF Next

LEMMA Invariance == Spec => []IInv
  BY InitHolds, NextKeeps, PTL DEF Spec

\* Every variable keeps its type: the log stays a sequence of records and broken lines,
\* what is to be undone stays a sequence of restores and marks.
THEOREM TypeCorrect == Spec => []TypeOK
<1>1. IInv => TypeOK
  BY DEF IInv
<1>. QED
  BY <1>1, Invariance, PTL

\* rollback_originals_for_publication and the recovery find in every target they
\* restore the content it had before or the one that the undone transaction gave it,
\* whatever was written, failed or died before: their refusal is never needed.
THEOREM TargetsAreRestorable == Spec => []RollbackIsExact
<1>1. IInv => RollbackIsExact
  <2> SUFFICES ASSUME IInv, Restoring PROVE content[Current.file] \in Current.from
    BY DEF RollbackIsExact
  <2>1. /\ pc = "undo" /\ script # <<>> /\ IsRestore(Current) /\ script \in Seq(Steps)
        /\ content \in [Files -> Values]
    BY Parts DEF Restoring, IsRestore, LocalsTyped
  <2>2. 1 \in DOMAIN script /\ Current = script[1] /\ Current \in Steps
    BY <2>1 DEF Current
  <2>3. CASE RollingBack
    <3>1. PICK k \in DOMAIN Writes[exec] :
             script[1] = RestoreStep(Target(k), saved[Target(k)], {Installed(exec, Writes[exec][k])})
      BY <2>1, <2>2, <2>3 DEF IInv, Undoing
    <3>2. content[Target(k)] \in {saved[Target(k)], Installed(exec, Writes[exec][k])}
      BY <2>3 DEF IInv, Undoing
    <3>3. /\ Current.file = Target(k)
          /\ Current.from = {Installed(exec, Writes[exec][k])} \cup {saved[Target(k)]}
      BY <2>2, <3>1, StepFacts
    <3>. QED
      BY <3>2, <3>3
  <2>4. CASE ~RollingBack
    <3>1. Current.from = Values
      BY <2>1, <2>2, <2>4 DEF IInv, Recovering
    <3>2. Current.file \in Files
      BY <2>1, <2>2, StepFacts
    <3>. QED
      BY <2>1, <3>1, <3>2
  <2>. QED
    BY <2>3, <2>4
<1>. QED
  BY <1>1, Invariance, PTL

\* A replay key is consumed only for an execution whose Commit is in the log, and which
\* is not reported rolled back, while no write fails. It needs that executions have ids
\* of their own, as those of the prepared executions are derived from their request.
THEOREM KeysAreConsumedForCommits == UniqueIds => (Spec => []NoAmbiguousSuccess)
<1> SUFFICES ASSUME UniqueIds PROVE Spec => []NoAmbiguousSuccess
  OBVIOUS
<1>1. IInv => NoAmbiguousSuccess
  BY DEF IInv, NoAmbiguousSuccess, Committed, Vouched, Faultless
<1>. QED
  BY <1>1, Invariance, PTL

\* The holder's status when an execution stops running, and where it was.
LEMMA EndOfExecution ==
    ASSUME IInv, [Next]_vars, NEW e \in Execs, outcome[e] = "running"
    PROVE  \/ outcome'[e] \in {"running", "lost", "RollbackFailed"}
           \/ outcome'[e] = "Applied" /\ pc = "commit" /\ content' = content
           \/ /\ outcome'[e] = "RolledBack" /\ content' = content
              /\ RollingBack /\ script = <<>> /\ ~bad
           \/ outcome'[e] = "Blocked" /\ pc \in {"capture", "begin"} /\ content' = content
<1>1. /\ outcome \in [Execs -> Statuses] /\ e = exec
  BY Parts DEF RestTyped, Staged
<1>2. CASE UNCHANGED outcome
  BY <1>2
<1>3. ASSUME NEW p \in Procs, NEW d \in Execs, NEW s \in Statuses, outcome[d] = "new",
             outcome' = [outcome EXCEPT ![d] = s]
      PROVE  outcome'[e] = "running"
  BY <1>1, <1>3
<1>4. ASSUME NEW p \in Procs, NEW d \in Execs,
             StartCommand(p, d) \/ StartCommit(p, d) \/ LockTimeout(p, d)
      PROVE  outcome'[e] = "running"
  <2>1. "running" \in Statuses /\ "Blocked" \in Statuses
    BY DEF Statuses
  <2>. QED
    BY <1>3, <1>4, <2>1 DEF StartCommand, StartCommit, Start, LockTimeout
<1>5. ASSUME NEW p \in Procs, Crash(p)
      PROVE  outcome'[e] \in {"running", "lost"}
  BY <1>5, <1>1 DEF Crash
<1>6. CASE LogCommit
  <2>1. outcome' = [outcome EXCEPT ![exec] = "Applied"] /\ pc = "commit" /\ content' = content
    BY <1>6 DEF LogCommit, Return
  <2>. QED
    BY <1>1, <2>1
<1>7. CASE RolledBack
  <2>1. /\ outcome' = [outcome EXCEPT ![exec] = IF bad THEN "RollbackFailed" ELSE "RolledBack"]
        /\ content' = content /\ RollingBack /\ script = <<>>
    BY <1>7 DEF RolledBack, Return, RollingBack, files
  <2>. QED
    BY <1>1, <2>1
<1>8. CASE Blocked \/ LogBeginFails
  <2>1. /\ outcome' = [outcome EXCEPT ![exec] = "Blocked"] /\ pc \in {"capture", "begin"}
        /\ content' = content
    BY <1>8 DEF Blocked, LogBeginFails, Return, files
  <2>. QED
    BY <1>1, <2>1
<1>9. ASSUME NEW p \in Procs, StartRecovery(p) \/ StartActivation(p) \/ Compact(p)
      PROVE  UNCHANGED outcome
  BY <1>9 DEF StartRecovery, StartActivation, Compact
<1>10. ASSUME HolderStep, ~LogCommit, ~RolledBack, ~Blocked
       PROVE  UNCHANGED outcome
  BY <1>10 DEF HolderStep, Capture, LogBegin, LogBeforeImage, LogWriteApplied, Log, ApplyWrite,
     Restore, LogMark, SkipMark, Repair, ReadWal, ReadWalFails, Recovered, Inspect, Reconcile,
     Activated, ConsumeReplay, LogCompletion
<1>11. ASSUME Failure, ~LogBeginFails
       PROVE  UNCHANGED outcome
  BY <1>11 DEF Failure, LogBeforeImageFails, LogWriteAppliedFails, LogCommitFails, ApplyWriteFails,
     RestoreFails, LogMarkFails, RepairFails, ConsumeReplayFails, LogCompletionFails
<1>12. UNCHANGED vars => UNCHANGED outcome
  BY DEF vars
<1>. QED
  BY <1>2, <1>4, <1>5, <1>6, <1>7, <1>8, <1>9, <1>10, <1>11, <1>12 DEF Next

\* What apply_file_effect_transaction reports is so, whatever fails: Applied, all
\* targets have their new content; RolledBack, all have the one they had; Blocked, none
\* was touched.
THEOREM OutcomesAreHonest == Spec => HonestOutcome
<1>1. IInv /\ [Next]_vars =>
         [\A e \in Execs :
             outcome[e] = "running" =>
                 CASE outcome'[e] = "Applied" -> content' = Overlay(content', e)
                   [] outcome'[e] = "RolledBack" ->
                         \A w \in Range(Writes[e]) : content'[w.file] = saved[w.file]
                   [] outcome'[e] = "Blocked" -> \A f \in Files : content'[f] # e
                   [] OTHER -> TRUE]_vars
  <2> SUFFICES ASSUME IInv, [Next]_vars, NEW e \in Execs, outcome[e] = "running"
               PROVE  CASE outcome'[e] = "Applied" -> content' = Overlay(content', e)
                        [] outcome'[e] = "RolledBack" ->
                              \A w \in Range(Writes[e]) : content'[w.file] = saved[w.file]
                        [] outcome'[e] = "Blocked" -> \A f \in Files : content'[f] # e
                        [] OTHER -> TRUE
    OBVIOUS
  <2>1. e = exec /\ content \in [Files -> Values] /\ Fresh
    BY Parts DEF Staged
  <2>2. CASE outcome'[e] = "Applied"
    <3>1. pc = "commit" /\ content' = content
      BY <2>2, EndOfExecution
    <3>2. Len(Writes[e]) \in Nat /\ DOMAIN Writes[e] = 1 .. Len(Writes[e])
      BY WriteSet
    <3>3. \A k \in DOMAIN Writes[e] : content[Writes[e][k].file] = Installed(e, Writes[e][k])
      <4>1. at = Len(Writes[e]) + 1
        BY <2>1, <3>1 DEF IInv, Placed
      <4>2. \A k \in DOMAIN Writes[e] : k < at
        BY <3>2, <4>1
      <4>. QED
        BY <2>1, <3>1, <4>2 DEF IInv, Written, Applying, TxStages, Target
    <3>4. content' = Overlay(content', e)
      BY <2>1, <3>1, <3>3, OverlayFacts
    <3>. QED
      BY <2>2, <3>4
  <2>3. CASE outcome'[e] = "RolledBack"
    <3>1. RollingBack /\ script = <<>> /\ ~bad /\ content' = content
      BY <2>3, EndOfExecution
    <3>2. \A k \in DOMAIN Writes[e] : content[Writes[e][k].file] = saved[Writes[e][k].file]
      <4>1. DOMAIN script = {}
        BY <3>1
      <4>. QED
        BY <2>1, <3>1, <4>1 DEF IInv, Undoing, Target
    <3>3. \A w \in Range(Writes[e]) : content'[w.file] = saved[w.file]
      BY <3>1, <3>2 DEF Range
    <3>. QED
      BY <2>3, <3>3
  <2>4. CASE outcome'[e] = "Blocked"
    <3>1. pc \in {"capture", "begin"} /\ content' = content
      BY <2>4, EndOfExecution
    <3>2. Unused(e)
      BY <2>1, <3>1 DEF Unused
    <3>3. \A f \in Files : content'[f] # e
      BY <2>1, <3>1, <3>2 DEF Fresh, Clean
    <3>. QED
      BY <2>4, <3>3
  <2>5. CASE outcome'[e] \notin {"Applied", "RolledBack", "Blocked"}
    BY <2>5
  <2>. QED
    BY <2>2, <2>3, <2>4, <2>5
<1>. QED
  BY <1>1, Invariance, PTL DEF Spec, HonestOutcome

-----------------------------------------------------------------------------
(***************************************************************************)
(* All or nothing: the invariant.                                          *)
(***************************************************************************)
\* At most one process is a host that commits prepared executions.
OneHost == \A p, q \in Procs : "commit" \in OpsOf[p] /\ "commit" \in OpsOf[q] => p = q

\* What a log holds that can be read.
Held(w) == {l \in Range(w.lines) : l # Broken}

\* Transaction i is begun in the records L, and not closed.
OpenIn(L, i) ==
    /\ \E l \in L : l.tx = i /\ l.stage = "Begin"
    /\ \A l \in L : l.tx = i => l.stage \notin ClosedStages

NoneOpen(L) == \A i \in TxIds : ~OpenIn(L, i)

IsImage(l) == l.stage = "BeforeImage"

\* One transaction is open at most, its images save what is committed, and what is
\* not as committed has an image.
Sound(L, c, t) ==
    /\ \A i, j \in TxIds : OpenIn(L, i) /\ OpenIn(L, j) => i = j
    /\ \A l \in L : IsImage(l) /\ OpenIn(L, l.tx) => l.original = t[l.file]
    /\ \A f \in Files : c[f] # t[f] =>
          \E l \in L : IsImage(l) /\ OpenIn(L, l.tx) /\ l.file = f

\* The last record can be lost when it has no newline: nothing depends on it while a
\* transaction is open.
TailSafe(w, c, t) ==
    ~w.ended /\ Last(w.lines) # Broken =>
        /\ Last(w.lines).stage \in ClosedStages => NoneOpen(Held(w))
        /\ Last(w.lines).stage = "Begin" => \A f \in Files : c[f] = t[f]
        /\ IsImage(Last(w.lines)) => c[Last(w.lines).file] = t[Last(w.lines).file]

\* Where an execution may start: nothing is open, and only the completion of a replay
\* key has no newline.
Settled(w) ==
    /\ NoneOpen(Held(w))
    /\ ~w.ended => Last(w.lines) = Broken \/ Last(w.lines).stage = "ReplayConsumed"

Ready == crashes = 0 \/ \E p \in live : "commit" \in OpsOf[p]

\* The holder restores what a recovery found.
Recovery == pc = "undo" /\ ~RollingBack

\* What has logged nothing is not in the log.
Unlogged == \A e \in Execs : Unused(e) => \A l \in Held(wal) : l.tx # IdOf[e]

\* A transaction is on top of what is committed, and saves it before it writes.
OnTop ==
    /\ pc \in {"capture", "begin"} => Settled(wal)
    /\ Applying /\ pc # "capture" =>
          /\ saved = truth
          /\ \A f \in Files :
                (\A k \in DOMAIN Writes[exec] : Target(k) # f) => content[f] = truth[f]
    /\ pc \in {"image", "write", "written", "commit"} => OpenIn(Held(wal), Id) /\ wal.ended
    /\ pc = "write" =>
          \E l \in Held(wal) : IsImage(l) /\ l.tx = Id /\ l.file = Target(at)

\* The recovery restores all that the open transaction saved, and then closes it.
Restored ==
    Recovery =>
        /\ script = <<>> => NoneOpen(Held(wal))
        /\ script # <<>> =>
              /\ ~IsRestore(Last(script))
              /\ OpenIn(Held(wal), Last(script).mark.tx)
              /\ \A k \in 1 .. (Len(script) - 1) : IsRestore(script[k])
              /\ \A l \in Held(wal) : IsImage(l) /\ l.tx = Last(script).mark.tx =>
                    \/ content[l.file] = truth[l.file]
                    \/ \E k \in 1 .. (Len(script) - 1) : script[k].file = l.file

\* After it, nothing is open.
Activating ==
    op = "activate" =>
        /\ pc \in {"inspect", "reconcile", "consume", "complete"} => NoneOpen(Held(wal))
        /\ pc \in {"reconcile", "consume", "complete"} => wal.ended

Logical ==
    /\ Sound(Held(wal), content, truth)
    /\ TailSafe(wal, content, truth)
    /\ Unlogged
    /\ Ready /\ ~Applying => Settled(wal)
    /\ OnTop
    /\ Restored
    /\ Activating

\* Nothing failed, so an undo is a recovery and finishes; only a host that has
\* recovered commits.
Smooth ==
    /\ ok /\ ~bad
    /\ op = "execute" => commanded
    /\ pc \in {"inspect", "reconcile"} => op = "activate"
    /\ Applying /\ op = "commit" => holder \in live /\ "commit" \in OpsOf[holder]
    /\ Recovery => \A k \in DOMAIN script : IsRestore(script[k]) =>
                      script[k].to = truth[script[k].file]

Sane == Smooth /\ (Recoverable(wal) => Logical)

QInv == Sheltered => Sane

-----------------------------------------------------------------------------
(***************************************************************************)
(* What a log holds.                                                       *)
(***************************************************************************)

LEMMA HeldFacts ==
    ASSUME NEW w \in Wals
    PROVE  /\ Held(w) \subseteq RecordLines
           /\ \A l \in Held(w) : l # Broken /\ l.tx \in TxIds /\ l.stage \in Stages
           /\ \A l \in Held(w) : IsImage(l) => l.file \in Files /\ l.original \in Values
<1>1. w.lines \in Seq(Lines)
  BY WalFacts
<1>2. Range(w.lines) \subseteq Lines
  BY <1>1 DEF Range
<1>3. Held(w) \subseteq RecordLines
  BY <1>2 DEF Held, Lines
<1>. QED
  BY <1>3, RecordFacts DEF RecordLines, IsImage

\* The last line of a sequence, and the others.
LEMMA LastFacts ==
    ASSUME NEW T, NEW s \in Seq(T), s # <<>>
    PROVE  /\ Last(s) \in T /\ Last(s) = s[Len(s)] /\ Len(s) \in DOMAIN s
           /\ Front(s) \in Seq(T) /\ Len(Front(s)) = Len(s) - 1
           /\ \A k \in 1 .. (Len(s) - 1) : k \in DOMAIN s /\ Front(s)[k] = s[k]
           /\ Range(s) = Range(Front(s)) \cup {Last(s)}
<1>1. DOMAIN s = 1 .. Len(s) /\ Len(s) \in Nat /\ Len(s) # 0 /\ Len(s) \in 1 .. Len(s)
  OBVIOUS
<1>2. Last(s) = s[Len(s)] /\ Last(s) \in T
  BY <1>1 DEF Last
<1>3. /\ Front(s) = [i \in 1 .. (Len(s) - 1) |-> s[i]] /\ Len(s) - 1 \in Nat
      /\ \A i \in 1 .. (Len(s) - 1) : i \in 1 .. Len(s) /\ s[i] \in T
  BY <1>1 DEF Front
<1>4. Front(s) \in Seq(T) /\ Len(Front(s)) = Len(s) - 1 /\ DOMAIN Front(s) = 1 .. (Len(s) - 1)
  BY <1>3
<1>5. ASSUME NEW x, x \in Range(s) PROVE x \in Range(Front(s)) \cup {Last(s)}
  <2>1. PICK k \in 1 .. Len(s) : x = s[k]
    BY <1>1, <1>5 DEF Range
  <2>2. CASE k = Len(s)
    BY <1>2, <2>1, <2>2
  <2>3. CASE k # Len(s)
    <3>1. k \in 1 .. (Len(s) - 1)
      <4>1. \A n \in Nat : \A j \in 1 .. n : j # n => j \in 1 .. (n - 1)
        OBVIOUS
      <4>. QED
        BY <1>1, <2>1, <2>3, <4>1
    <3>2. Front(s)[k] = x
      BY <1>3, <2>1, <3>1
    <3>. QED
      BY <1>4, <3>1, <3>2 DEF Range
  <2>. QED
    BY <2>2, <2>3
<1>6. ASSUME NEW x, x \in Range(Front(s)) PROVE x \in Range(s)
  <2>1. PICK k \in 1 .. (Len(s) - 1) : x = s[k]
    BY <1>3, <1>4, <1>6 DEF Range
  <2>. QED
    BY <1>1, <1>3, <2>1 DEF Range
<1>7. Last(s) \in Range(s)
  BY <1>1, <1>2 DEF Range
<1>. QED
  BY <1>1, <1>2, <1>3, <1>4, <1>5, <1>6, <1>7

\* The last line of a log without a newline is one of its records, or broken.
LEMMA LastIsHeld ==
    ASSUME NEW w \in Wals, ~w.ended, Last(w.lines) # Broken
    PROVE  Last(w.lines) \in Held(w)
<1>1. w.lines \in Seq(Lines) /\ w.lines # <<>>
  BY WalFacts
<1>2. Last(w.lines) \in Range(w.lines)
  BY <1>1, LastFacts
<1>. QED
  BY <1>2 DEF Held

\* An append after a newline adds the record, or a broken line; one after a line without
\* a newline takes that line with it, and when it is complete no reader accepts the log.
LEMMA HeldWritten ==
    ASSUME NEW w \in Wals, NEW r \in RecordLines, NEW cut \in Cuts \ {"nothing"}
    PROVE  /\ Write(w, r, cut) \in Wals
           /\ Write(w, r, cut).ended = (cut = "full")
           /\ w.ended /\ cut # "part" =>
                 Held(Write(w, r, cut)) = Held(w) \cup {r} /\ Last(Write(w, r, cut).lines) = r
           /\ w.ended /\ cut = "part" =>
                 Held(Write(w, r, cut)) = Held(w) /\ Last(Write(w, r, cut).lines) = Broken
           /\ ~w.ended =>
                 /\ Held(w) \ {Last(w.lines)} \subseteq Held(Write(w, r, cut))
                 /\ Held(Write(w, r, cut)) \subseteq Held(w)
                 /\ Last(Write(w, r, cut).lines) = Broken
                 /\ cut = "full" => ~Recoverable(Write(w, r, cut))
           /\ Recoverable(Write(w, r, cut)) => Recoverable(w)
<1> DEFINE x == IF cut = "part" THEN Broken ELSE r
           ls == IF w.ended THEN Append(w.lines, x) ELSE Append(Front(w.lines), Broken)
           v == [lines |-> ls, ended |-> (cut = "full")]
<1>1. w.lines \in Seq(Lines) /\ (w.ended \/ w.lines # <<>>) /\ Len(w.lines) \in Nat
      /\ DOMAIN w.lines = 1 .. Len(w.lines)
  BY WalFacts
<1>2. x \in Lines /\ Broken \in Lines /\ r # Broken
  BY RecordFacts DEF Lines, RecordLines
<1>3. Write(w, r, cut) = v /\ v.lines = ls /\ v.ended = (cut = "full")
  BY DEF Write
<1>4. v \in Wals
  BY <1>3, WriteFacts
<1>5. CASE w.ended
  <2> HIDE DEF x
  <2>1. ls = Append(w.lines, x)
    BY <1>5
  <2> HIDE DEF ls, v
  <2>2. /\ Range(ls) = Range(w.lines) \cup {x} /\ ls \in Seq(Lines) /\ Len(ls) = Len(w.lines) + 1
        /\ ls[Len(w.lines) + 1] = x /\ \A k \in 1 .. Len(w.lines) : ls[k] = w.lines[k]
    <3>1. Range(ls) = Range(w.lines) \cup {x} /\ ls \in Seq(Lines)
      <4>1. w.lines \in Seq(Lines) /\ x \in Lines
        BY <1>1, <1>2
      <4>2. Range(Append(w.lines, x)) = Range(w.lines) \cup {x} /\ Append(w.lines, x) \in Seq(Lines)
        BY <4>1, LinesOf
      <4>. QED
        BY <2>1, <4>2
    <3>2. /\ Len(ls) = Len(w.lines) + 1 /\ ls[Len(w.lines) + 1] = x
          /\ \A k \in 1 .. Len(w.lines) : ls[k] = w.lines[k]
      BY <1>1, <1>2, <2>1, AppendProperties
    <3>. QED
      BY <3>1, <3>2
  <2>3. Last(ls) = x
    BY <2>2 DEF Last
  <2>4. cut # "part" => x = r
    BY DEF x
  <2>5. cut = "part" => x = Broken
    BY DEF x
  <2>6. Held(v) = IF cut = "part" THEN Held(w) ELSE Held(w) \cup {r}
    BY <1>2, <1>3, <2>2, <2>4, <2>5 DEF Held
  <2>7. ASSUME Recoverable(v), NEW k \in DOMAIN w.lines PROVE IsRecord(w.lines[k])
    <3>1. k \in DOMAIN ls /\ k # Len(ls) /\ ls[k] = w.lines[k]
      BY <1>1, <2>2
    <3>. QED
      BY <1>3, <2>7, <3>1 DEF Recoverable
  <2>8. Recoverable(v) => Recoverable(w)
    BY <2>7 DEF Recoverable
  <2>. QED
    BY <1>3, <1>4, <1>5, <2>3, <2>4, <2>5, <2>6, <2>8
<1>6. CASE ~w.ended
  <2> DEFINE fr == Front(w.lines)
  <2>1. ls = Append(fr, Broken)
    BY <1>6
  <2>2. /\ fr \in Seq(Lines) /\ Len(fr) = Len(w.lines) - 1
        /\ \A k \in 1 .. (Len(w.lines) - 1) : k \in DOMAIN w.lines /\ fr[k] = w.lines[k]
        /\ Range(w.lines) = Range(fr) \cup {Last(w.lines)}
    BY <1>1, <1>6, LastFacts
  <2> HIDE DEF fr
  <2>3. /\ Range(ls) = Range(fr) \cup {Broken} /\ ls \in Seq(Lines) /\ Len(ls) = Len(w.lines)
        /\ ls[Len(w.lines)] = Broken /\ \A k \in 1 .. (Len(w.lines) - 1) : ls[k] = w.lines[k]
    <3>1. Range(ls) = Range(fr) \cup {Broken} /\ ls \in Seq(Lines)
      BY <1>2, <2>1, <2>2, LinesOf
    <3>2. /\ Len(ls) = Len(fr) + 1 /\ ls[Len(fr) + 1] = Broken
          /\ \A k \in 1 .. Len(fr) : ls[k] = fr[k]
      BY <1>2, <2>1, <2>2
    <3>. QED
      BY <1>1, <2>2, <3>1, <3>2
  <2>4. Last(ls) = Broken
    BY <2>3 DEF Last
  <2>5. Len(ls) \in DOMAIN ls /\ DOMAIN ls = 1 .. Len(w.lines)
    BY <1>1, <1>6, <2>3
  <2> HIDE DEF ls
  <2>6. Held(w) \ {Last(w.lines)} \subseteq Held(v) /\ Held(v) \subseteq Held(w)
    BY <1>3, <2>2, <2>3 DEF Held
  <2>7. cut = "full" => ~Recoverable(v)
    BY <1>3, <2>3, <2>5 DEF Recoverable, IsRecord
  <2>8. ASSUME Recoverable(v), NEW k \in DOMAIN w.lines, k # Len(w.lines)
        PROVE  IsRecord(w.lines[k])
    <3>1. k \in 1 .. (Len(w.lines) - 1) /\ k \in DOMAIN ls /\ k # Len(ls)
      BY <1>1, <2>3, <2>5, <2>8
    <3>2. ls[k] = w.lines[k]
      BY <2>3, <3>1
    <3>. QED
      BY <1>3, <2>8, <3>1, <3>2 DEF Recoverable
  <2>9. Recoverable(v) => Recoverable(w)
    BY <1>6, <2>8 DEF Recoverable
  <2> HIDE DEF v
  <2>. QED
    BY <1>3, <1>4, <1>6, <2>4, <2>6, <2>7, <2>9
<1>. QED
  BY <1>5, <1>6

LEMMA HeldRepaired ==
    ASSUME NEW w \in Wals
    PROVE  /\ Repaired(w) \in Wals /\ Repaired(w).ended
           /\ Held(Repaired(w)) = Held(w)
           /\ Recoverable(Repaired(w)) => Recoverable(w)
<1>1. w.lines \in Seq(Lines) /\ (w.ended \/ w.lines # <<>>) /\ Len(w.lines) \in Nat
      /\ DOMAIN w.lines = 1 .. Len(w.lines)
  BY WalFacts
<1>2. Repaired(w) \in Wals
  BY RepairedFacts
<1>3. CASE w.ended
  BY <1>2, <1>3 DEF Repaired
<1>4. CASE ~w.ended /\ IsRecord(Last(w.lines))
  <2> DEFINE v == [lines |-> w.lines, ended |-> TRUE]
  <2>1. Repaired(w) = v /\ v.lines = w.lines /\ v.ended
    BY <1>4 DEF Repaired
  <2> HIDE DEF v
  <2>. QED
    BY <1>2, <2>1 DEF Held, Recoverable
<1>5. CASE ~w.ended /\ ~IsRecord(Last(w.lines))
  <2> DEFINE fr == Front(w.lines)
             v == [lines |-> fr, ended |-> TRUE]
  <2>1. Repaired(w) = v /\ v.lines = fr /\ v.ended
    BY <1>5 DEF Repaired
  <2>2. /\ fr \in Seq(Lines) /\ Len(fr) = Len(w.lines) - 1
        /\ \A k \in 1 .. (Len(w.lines) - 1) : k \in DOMAIN w.lines /\ fr[k] = w.lines[k]
        /\ Range(w.lines) = Range(fr) \cup {Broken}
    BY <1>1, <1>5, LastFacts DEF IsRecord
  <2> HIDE DEF fr, v
  <2>3. Held(v) = Held(w)
    BY <2>1, <2>2 DEF Held
  <2>4. ASSUME Recoverable(v), NEW k \in DOMAIN w.lines, k # Len(w.lines)
        PROVE  IsRecord(w.lines[k])
    <3>1. k \in 1 .. (Len(w.lines) - 1) /\ k \in DOMAIN fr
      BY <1>1, <2>2, <2>4
    <3>. QED
      BY <2>1, <2>2, <2>4, <3>1 DEF Recoverable
  <2>5. Recoverable(v) => Recoverable(w)
    BY <1>5, <2>4 DEF Recoverable
  <2>. QED
    BY <1>2, <2>1, <2>3, <2>5
<1>. QED
  BY <1>3, <1>4, <1>5

-----------------------------------------------------------------------------
(***************************************************************************)
(* What its readers find.                                                  *)
(***************************************************************************)

\* Nothing of S is left out.
LEMMA OnlyAll ==
    ASSUME NEW T, NEW s \in Seq(T), NEW S
    PROVE  Only(s, S) \in Seq(T) /\ Range(Only(s, S)) = Range(s) \cap S
<1> DEFINE sub == CHOOSE sub : Selecting(sub, Len(s), s, S)
<1>1. Len(s) \in Nat /\ DOMAIN s = 1 .. Len(s)
  OBVIOUS
<1>2. Selecting(sub, Len(s), s, S)
  <2>1. \E x : Selecting(x, Len(s), s, S)
    BY <1>1, SelectingExists
  <2>. QED
    BY <2>1
<1>3. Only(s, S) = sub[Len(s)]
  BY DEF Only, Selecting
<1> HIDE DEF sub
<1>4. /\ sub[0] = <<>>
      /\ \A n \in 0 .. Len(s) : n # 0 =>
            sub[n] = IF s[n] \in S THEN Append(sub[n - 1], s[n]) ELSE sub[n - 1]
  <2>1. \A n \in 0 .. Len(s) :
           sub[n] = IF n = 0 THEN <<>>
                    ELSE IF s[n] \in S THEN Append(sub[n - 1], s[n]) ELSE sub[n - 1]
    BY <1>2 DEF Selecting
  <2>2. 0 \in 0 .. Len(s)
    BY <1>1
  <2>. QED
    BY <2>1, <2>2
<1> DEFINE P == {n \in Nat : n <= Len(s) =>
                    /\ sub[n] \in Seq(T)
                    /\ \A k \in 1 .. n : s[k] \in S => s[k] \in Range(sub[n])}
<1>5. 0 \in P
  <2>1. <<>> \in Seq(T) /\ \A k \in 1 .. 0 : FALSE
    OBVIOUS
  <2>. QED
    BY <1>4, <2>1
<1>6. ASSUME NEW n \in Nat, n \in P PROVE n + 1 \in P
  <2>1. CASE n + 1 <= Len(s)
    <3>1. n <= Len(s) /\ n + 1 \in 0 .. Len(s) /\ n + 1 # 0 /\ (n + 1) - 1 = n /\ n + 1 \in 1 .. Len(s)
      BY <1>1, <2>1
    <3>2. sub[n] \in Seq(T) /\ \A k \in 1 .. n : s[k] \in S => s[k] \in Range(sub[n])
      BY <1>6, <3>1
    <3>3. s[n + 1] \in T
      BY <1>1, <3>1
    <3>4. sub[n + 1] = IF s[n + 1] \in S THEN Append(sub[n], s[n + 1]) ELSE sub[n]
      BY <1>4, <3>1
    <3>5. /\ Append(sub[n], s[n + 1]) \in Seq(T)
          /\ Range(Append(sub[n], s[n + 1])) = Range(sub[n]) \cup {s[n + 1]}
      BY <3>2, <3>3, LinesOf
    <3>6. sub[n + 1] \in Seq(T)
      BY <3>2, <3>4, <3>5
    <3>7. ASSUME NEW k \in 1 .. (n + 1), s[k] \in S PROVE s[k] \in Range(sub[n + 1])
      <4>1. CASE k = n + 1
        BY <3>4, <3>5, <3>7, <4>1
      <4>2. CASE k # n + 1
        <5>1. k \in 1 .. n
          BY <4>2
        <5>. QED
          BY <3>2, <3>4, <3>5, <3>7, <5>1
      <4>. QED
        BY <4>1, <4>2
    <3>. QED
      BY <3>6, <3>7
  <2>2. CASE ~(n + 1 <= Len(s))
    BY <2>2
  <2>. QED
    BY <2>1, <2>2
<1> HIDE DEF P
<1>7. Len(s) \in P
  BY <1>1, <1>5, <1>6, NatSetInduction
<1>8. \A k \in 1 .. Len(s) : s[k] \in S => s[k] \in Range(sub[Len(s)])
  BY <1>1, <1>7 DEF P
<1>9. ASSUME NEW x, x \in Range(s) \cap S PROVE x \in Range(Only(s, S))
  <2>1. PICK k \in 1 .. Len(s) : x = s[k]
    BY <1>1, <1>9 DEF Range
  <2>. QED
    BY <1>3, <1>8, <1>9, <2>1
<1>10. Only(s, S) \in Seq(T) /\ Range(Only(s, S)) \subseteq Range(s) \cap S
  BY OnlyFacts
<1>. QED
  BY <1>9, <1>10

LEMMA ReadsHeld ==
    ASSUME NEW w \in Wals
    PROVE  RecordsOf(w) \in Seq(RecordLines) /\ Range(RecordsOf(w)) = Held(w)
<1>1. w.lines \in Seq(Lines)
  BY WalFacts
<1>2. Range(RecordsOf(w)) = Range(w.lines) \cap (Range(w.lines) \ {Broken})
  BY <1>1, OnlyAll DEF RecordsOf
<1>. QED
  BY <1>2, RecordsOfFacts DEF Held

\* Closed transactions, in a sequence of records and in the set of them.
LEMMA HasIs ==
    ASSUME NEW rs \in Seq(RecordLines), NEW i, NEW S
    PROVE  Has(rs, i, S) <=> \E l \in Range(rs) : l.tx = i /\ l.stage \in S
  BY DEF Has, Range

\* With at most one transaction open, that one is all that incomplete_wal_transactions
\* finds.
LEMMA IncompleteOne ==
    ASSUME NEW rs \in Seq(RecordLines),
           \A i, j \in TxIds : OpenIn(Range(rs), i) /\ OpenIn(Range(rs), j) => i = j
    PROVE  \/ Incomplete(rs) = <<>> /\ NoneOpen(Range(rs))
           \/ \E i \in TxIds : Incomplete(rs) = <<i>> /\ OpenIn(Range(rs), i)
<1> DEFINE n == Len(rs)
           g == CHOOSE g : Folding(g, 1..n, rs)
           L == Range(rs)
<1>1. n \in Nat /\ DOMAIN rs = 1..n /\ \A k \in 1..n : rs[k] \in RecordLines /\ rs[k] \in L
  BY DEF Range
<1>2. Folding(g, 1..n, rs)
  <2>1. \E x : Folding(x, 1..n, rs)
    BY <1>1, FoldingExists
  <2>. QED
    BY <2>1
<1>3. Incomplete(rs) = g[1..n]
  BY <1>1, IncompleteIs
<1>4. \A l \in L : l.tx \in TxIds
  BY <1>1 DEF Range, RecordLines, Records
<1>5. \A i : Has(rs, i, ClosedStages) <=> \E l \in L : l.tx = i /\ l.stage \in ClosedStages
  BY HasIs
<1>6. \A i : OpenIn(L, i) <=> /\ \E l \in L : l.tx = i /\ l.stage = "Begin"
                              /\ ~Has(rs, i, ClosedStages)
  BY <1>5 DEF OpenIn
<1>7. \A x \in L : \E k \in 1..n : x = rs[k]
  BY <1>1 DEF Range
<1> HIDE DEF n, g, L
<1> DEFINE Opens(k) == rs[k].stage = "Begin" /\ ~Has(rs, rs[k].tx, ClosedStages)
           Some(m) == \E i \in TxIds : g[1..m] = <<i>> /\ OpenIn(L, i)
           None(m) == g[1..m] = <<>> /\ \A k \in 1..m : ~Opens(k)
           S == {m \in Nat : m <= n => None(m) \/ Some(m)}
<1>8. 0 \in S
  <2>1. 1..0 = {} /\ {} \in SUBSET (1..n)
    OBVIOUS
  <2>2. g[{}] = <<>>
    BY <1>2, <2>1 DEF Folding
  <2>3. None(0)
    BY <2>1, <2>2
  <2> HIDE DEF None, Some
  <2>. QED
    BY <2>3
<1>9. ASSUME NEW m \in Nat, m \in S, m + 1 <= n PROVE None(m + 1) \/ Some(m + 1)
  <2>1. /\ 1..(m + 1) \in SUBSET (1..n) /\ 1..(m + 1) # {}
        /\ m + 1 \in 1..(m + 1) /\ (1..(m + 1)) \ {m + 1} = 1..m
        /\ 1..(m + 1) \in SUBSET (1..(m + 1))
        /\ m <= n /\ m + 1 \in 1..n
    <3>1. m <= n /\ m + 1 \in 1..n
      BY <1>1, <1>9
    <3>2. 1..(m + 1) \in SUBSET (1..n)
      BY <1>1, <1>9
    <3>3. (1..(m + 1)) \ {m + 1} = 1..m /\ m + 1 \in 1..(m + 1)
      OBVIOUS
    <3>. QED
      BY <3>1, <3>2, <3>3
  <2>2. Max(1..(m + 1)) = m + 1
    BY <2>1, MaxIs
  <2>3. \A x \in SUBSET (1..n) : x # {} => g[x] = Gather(rs, g[x \ {Max(x)}], rs[Max(x)])
    BY <1>2 DEF Folding
  <2>4. g[1..(m + 1)] = Gather(rs, g[(1..(m + 1)) \ {Max(1..(m + 1))}], rs[Max(1..(m + 1))])
    BY <2>1, <2>3
  <2>5. g[1..(m + 1)] = Gather(rs, g[1..m], rs[m + 1])
    BY <2>1, <2>2, <2>4
  <2>6. rs[m + 1] \in L /\ rs[m + 1].tx \in TxIds
    BY <1>1, <1>4, <2>1
  <2>7. Opens(m + 1) => OpenIn(L, rs[m + 1].tx)
    BY <1>6, <2>6
  <2>8. None(m) \/ Some(m)
    <3> HIDE DEF None, Some
    <3>. QED
      BY <1>9, <2>1
  <2>9. CASE None(m) /\ Opens(m + 1)
    <3>1. Range(<<>>) = {}
      BY DEF Range
    <3>2. g[1..(m + 1)] = Append(<<>>, rs[m + 1].tx)
      BY <2>5, <2>9, <3>1 DEF Gather
    <3>3. Append(<<>>, rs[m + 1].tx) = <<rs[m + 1].tx>>
      OBVIOUS
    <3>4. Some(m + 1)
      BY <2>6, <2>7, <2>9, <3>2, <3>3
    <3>. QED
      BY <3>4
  <2>10. CASE None(m) /\ ~Opens(m + 1)
    <3>1. g[1..(m + 1)] = <<>>
      BY <2>5, <2>10 DEF Gather
    <3>2. \A k \in 1..(m + 1) : k = m + 1 \/ k \in 1..m
      OBVIOUS
    <3>3. \A k \in 1..(m + 1) : ~Opens(k)
      <4> HIDE DEF Opens
      <4>. QED
        BY <2>10, <3>2
    <3>4. None(m + 1)
      BY <3>1, <3>3
    <3>. QED
      BY <3>4
  <2>11. CASE Some(m)
    <3>1. PICK i \in TxIds : g[1..m] = <<i>> /\ OpenIn(L, i)
      BY <2>11
    <3>2. i \in Range(<<i>>)
      <4>1. 1 \in DOMAIN <<i>> /\ <<i>>[1] = i
        OBVIOUS
      <4>. QED
        BY <4>1 DEF Range
    <3>3. Opens(m + 1) => rs[m + 1].tx = i
      BY <2>6, <2>7, <3>1 DEF L
    <3>4. g[1..(m + 1)] = <<i>>
      BY <2>5, <3>1, <3>2, <3>3 DEF Gather
    <3>5. Some(m + 1)
      BY <3>1, <3>4
    <3>. QED
      BY <3>5
  <2>. QED
    BY <2>8, <2>9, <2>10, <2>11
<1>10. \A m \in Nat : m \in S => m + 1 \in S
  <2> HIDE DEF None, Some
  <2>. QED
    BY <1>9
<1> HIDE DEF S
<1>11. n \in S
  BY <1>1, <1>8, <1>10, NatSetInduction
<1>12. None(n) \/ Some(n)
  <2> HIDE DEF None, Some
  <2>. QED
    BY <1>1, <1>11 DEF S
<1>13. ASSUME None(n) PROVE Incomplete(rs) = <<>> /\ NoneOpen(L)
  <2>1. \A i : ~OpenIn(L, i)
    BY <1>6, <1>7, <1>13
  <2>. QED
    BY <1>3, <1>13, <2>1 DEF NoneOpen
<1>. QED
  BY <1>3, <1>12, <1>13 DEF L

LEMMA FlattenFew ==
    /\ FlattenSeq(<<>>) = <<>>
    /\ \A x : FlattenSeq(<<x>>) = x
<1>1. FlattenSeq(<<>>) = <<>>
  BY DEF FlattenSeq
<1>2. ASSUME NEW x PROVE FlattenSeq(<<x>>) = x
  <2> DEFINE t == <<x>>
             flat == CHOOSE flat : Flattening(flat, 1, t)
  <2>1. Len(t) = 1 /\ t[1] = x
    OBVIOUS
  <2>2. Flattening(flat, 1, t)
    <3>1. \E y : Flattening(y, 1, t)
      <4> HIDE DEF t
      <4>. QED
        BY FlatteningExists
    <3>. QED
      BY <3>1
  <2>3. FlattenSeq(t) = flat[1]
    <3> HIDE DEF t
    <3>. QED
      BY <2>1 DEF FlattenSeq, Flattening
  <2> HIDE DEF flat, t
  <2>4. flat[1] = t[1]
    BY <2>2 DEF Flattening
  <2>. QED
    BY <2>1, <2>3, <2>4 DEF t
<1>. QED
  BY <1>1, <1>2

\* A script that restores what the images of transaction i in L save, each of them,
\* and then marks the transaction.
Undoes(x, L, i) ==
    /\ x # <<>> /\ ~IsRestore(Last(x)) /\ Last(x).mark.tx = i
    /\ \A k \in 1 .. (Len(x) - 1) :
          /\ IsRestore(x[k])
          /\ \E l \in L : /\ IsImage(l) /\ l.tx = i
                          /\ x[k].file = l.file /\ x[k].to = l.original
    /\ \A l \in L : IsImage(l) /\ l.tx = i => \E k \in 1 .. (Len(x) - 1) : x[k].file = l.file

\* rollback_wal_before_images_retained leaves out no image.
LEMMA UndoIncompleteUndoes ==
    ASSUME NEW rs \in Seq(RecordLines), NEW i \in TxIds
    PROVE  Undoes(UndoIncomplete(rs, i), Range(rs), i)
<1> DEFINE bs == BeforeImages(rs, i)
           images == Reverse(bs)
           u == [k \in DOMAIN images |->
                    RestoreStep(images[k].file, images[k].original, Values)]
           m == [mark |-> RecoveryMarker(rs, i), always |-> FALSE]
           x == UndoIncomplete(rs, i)
<1>1. /\ bs \in Seq(RecordLines)
      /\ Range(bs) = Range(rs) \cap {r \in Range(rs) : r.tx = i /\ r.stage = "BeforeImage"}
  BY OnlyAll DEF BeforeImages
<1>2. x = Append(u, m)
  BY DEF UndoIncomplete
<1>3. ~IsRestore(m) /\ m.mark.tx = i
  <2>1. m.mark = RecoveryMarker(rs, i) /\ ~IsRestore(m)
    BY StepFacts
  <2>2. RecoveryMarker(rs, i).tx = i
    BY DEF RecoveryMarker, Marker
  <2>. QED
    BY <2>1, <2>2
<1> HIDE DEF bs, m
<1>4. /\ images \in Seq(RecordLines) /\ DOMAIN images = 1 .. Len(bs) /\ Len(bs) \in Nat
      /\ \A k \in 1 .. Len(bs) : Len(bs) - k + 1 \in 1 .. Len(bs)
      /\ \A k \in 1 .. Len(bs) : images[k] = bs[Len(bs) - k + 1]
      /\ \A k \in 1 .. Len(bs) : images[Len(bs) - k + 1] = bs[k]
  BY <1>1, ReverseFacts
<1>5. /\ \A k \in 1 .. Len(bs) : images[k] \in Range(bs)
      /\ \A l \in Range(bs) : \E k \in 1 .. Len(bs) : images[k] = l
  <2>1. DOMAIN bs = 1 .. Len(bs)
    BY <1>1
  <2>. QED
    BY <1>4, <2>1 DEF Range
<1> HIDE DEF images
<1>6. /\ u = [k \in 1 .. Len(bs) |-> RestoreStep(images[k].file, images[k].original, Values)]
      /\ \A k \in 1 .. Len(bs) : /\ IsRestore(u[k]) /\ u[k].file = images[k].file
                                 /\ u[k].to = images[k].original
  BY <1>4, StepFacts
<1>7. /\ Len(x) = Len(bs) + 1 /\ x[Len(bs) + 1] = m
      /\ \A k \in 1 .. Len(bs) : x[k] = u[k]
  <2> DEFINE T == {u[k] : k \in 1 .. Len(bs)} \cup {m}
  <2>1. u \in Seq(T) /\ m \in T /\ Len(u) = Len(bs)
    <3> HIDE DEF u
    <3>1. \A k \in 1 .. Len(bs) : u[k] \in T
      OBVIOUS
    <3>2. u = [k \in 1 .. Len(bs) |-> u[k]]
      BY <1>6
    <3> HIDE DEF T
    <3>3. u \in Seq(T)
      BY <1>4, <3>1, <3>2
    <3>4. Len(u) = Len(bs)
      BY <1>4, <3>2, <3>3
    <3>5. m \in T
      BY DEF T
    <3>. QED
      BY <3>3, <3>4, <3>5
  <2> HIDE DEF u, T, x
  <2>. QED
    BY <1>2, <2>1, AppendProperties
<1> HIDE DEF u, x
<1>8. x # <<>> /\ Last(x) = m /\ Len(x) - 1 = Len(bs)
  BY <1>4, <1>7 DEF Last
<1>9. ASSUME NEW k \in 1 .. Len(bs)
      PROVE  /\ IsRestore(x[k])
             /\ \E l \in Range(rs) : /\ IsImage(l) /\ l.tx = i
                                     /\ x[k].file = l.file /\ x[k].to = l.original
  BY <1>1, <1>5, <1>6, <1>7 DEF IsImage
<1>10. ASSUME NEW l \in Range(rs), IsImage(l), l.tx = i
       PROVE  \E k \in 1 .. Len(bs) : x[k].file = l.file
  <2>1. l \in Range(bs)
    BY <1>1, <1>10 DEF IsImage
  <2>2. PICK k \in 1 .. Len(bs) : images[k] = l
    BY <1>5, <2>1
  <2>. QED
    BY <1>6, <1>7, <2>2
<1>11. Undoes(x, Range(rs), i)
  BY <1>3, <1>8, <1>9, <1>10 DEF Undoes
<1>. QED
  BY <1>11 DEF x

\* What the recovery then has to do.
LEMMA ScriptIs ==
    ASSUME NEW rs \in Seq(RecordLines),
           \A i, j \in TxIds : OpenIn(Range(rs), i) /\ OpenIn(Range(rs), j) => i = j,
           NEW x,
           x = FlattenSeq([k \in DOMAIN Incomplete(rs) |-> UndoIncomplete(rs, Incomplete(rs)[k])])
    PROVE  \/ x = <<>> /\ NoneOpen(Range(rs))
           \/ \E i \in TxIds : OpenIn(Range(rs), i) /\ Undoes(x, Range(rs), i)
<1> DEFINE ids == Incomplete(rs)
<1>1. \/ ids = <<>> /\ NoneOpen(Range(rs))
      \/ \E i \in TxIds : ids = <<i>> /\ OpenIn(Range(rs), i)
  BY IncompleteOne
<1>2. x = FlattenSeq([k \in DOMAIN ids |-> UndoIncomplete(rs, ids[k])])
  OBVIOUS
<1> HIDE DEF ids
<1>3. CASE ids = <<>> /\ NoneOpen(Range(rs))
  <2>1. [k \in DOMAIN ids |-> UndoIncomplete(rs, ids[k])] = <<>>
    BY <1>3
  <2>. QED
    BY <1>2, <1>3, <2>1, FlattenFew
<1>4. ASSUME NEW i \in TxIds, ids = <<i>>, OpenIn(Range(rs), i)
      PROVE  \E j \in TxIds : OpenIn(Range(rs), j) /\ Undoes(x, Range(rs), j)
  <2>1. [k \in DOMAIN ids |-> UndoIncomplete(rs, ids[k])] = <<UndoIncomplete(rs, i)>>
    BY <1>4
  <2>2. x = UndoIncomplete(rs, i)
    BY <1>2, <2>1, FlattenFew
  <2>. QED
    BY <1>4, <2>2, UndoIncompleteUndoes
<1>. QED
  BY <1>1, <1>3, <1>4

\* Compaction keeps all records of what is open.
LEMMA RetainedOpen ==
    ASSUME NEW rs \in Seq(RecordLines),
           \A i, j \in TxIds : OpenIn(Range(rs), i) /\ OpenIn(Range(rs), j) => i = j
    PROVE  /\ Retained(rs) \in Seq(RecordLines) /\ Range(Retained(rs)) \subseteq Range(rs)
           /\ \A l \in Range(rs) : OpenIn(Range(rs), l.tx) => l \in Range(Retained(rs))
           /\ \A i \in TxIds : OpenIn(Range(Retained(rs)), i) <=> OpenIn(Range(rs), i)
<1> DEFINE ids == Incomplete(rs)
           kept(i) == i \in Range(ids) \/ IsBound(rs, i)
           L == Range(rs)
           K == Range(Retained(rs))
<1>1. \/ ids = <<>> /\ NoneOpen(L)
      \/ \E i \in TxIds : ids = <<i>> /\ OpenIn(L, i)
  BY IncompleteOne
<1>2. Retained(rs) \in Seq(RecordLines) /\ K = L \cap {r \in L : kept(r.tx)}
  BY OnlyAll DEF Retained
<1>3. \A l \in L : l.tx \in TxIds
  BY DEF Range, RecordLines, Records
<1>4. ASSUME NEW i \in TxIds, OpenIn(L, i) PROVE i \in Range(ids)
  <2>1. ids = <<i>>
    <3> HIDE DEF ids
    <3>. QED
      BY <1>1, <1>4 DEF NoneOpen
  <2>2. 1 \in DOMAIN <<i>> /\ <<i>>[1] = i
    OBVIOUS
  <2>. QED
    BY <2>1, <2>2 DEF Range
<1> HIDE DEF ids, L, K
<1>5. \A i \in TxIds : OpenIn(L, i) => kept(i)
  BY <1>4
<1> HIDE DEF kept
<1>6. \A l \in L : OpenIn(L, l.tx) => l \in K
  BY <1>2, <1>3, <1>5
<1>7. ASSUME NEW i \in TxIds, OpenIn(L, i) PROVE OpenIn(K, i)
  <2>1. \A l \in L : l.tx = i => l \in K
    BY <1>6, <1>7
  <2>. QED
    BY <1>2, <1>7, <2>1 DEF OpenIn
<1>8. ASSUME NEW i \in TxIds, OpenIn(K, i) PROVE OpenIn(L, i)
  <2>1. PICK b \in K : b.tx = i /\ b.stage = "Begin"
    BY <1>8 DEF OpenIn
  <2>2. kept(i)
    BY <1>2, <2>1
  <2>3. \A l \in L : l.tx = i => l \in K
    BY <1>2, <2>2
  <2>. QED
    BY <1>2, <1>8, <2>3 DEF OpenIn
<1>. QED
  BY <1>2, <1>6, <1>7, <1>8 DEF L, K

-----------------------------------------------------------------------------
(***************************************************************************)
(* How appending, and losing, a record changes what is open.               *)
(***************************************************************************)

\* A record that neither begins nor closes.
LEMMA NeutralAdded ==
    ASSUME NEW L, NEW r, r.stage \notin ClosedStages \cup {"Begin"}
    PROVE  \A i : OpenIn(L \cup {r}, i) <=> OpenIn(L, i)
  BY DEF OpenIn

LEMMA ClosingAdded ==
    ASSUME NEW L, NEW r, r.stage \in ClosedStages,
           \A i \in TxIds : OpenIn(L, i) => i = r.tx
    PROVE  NoneOpen(L \cup {r})
<1>1. "Begin" \notin ClosedStages
  BY DEF ClosedStages, RollbackStages
<1>2. ASSUME NEW i \in TxIds, OpenIn(L \cup {r}, i) PROVE FALSE
  <2>1. i # r.tx
    BY <1>2 DEF OpenIn
  <2>2. OpenIn(L, i)
    BY <1>1, <1>2, <2>1 DEF OpenIn
  <2>. QED
    BY <2>1, <2>2
<1>. QED
  BY <1>2 DEF NoneOpen

LEMMA BeginAdded ==
    ASSUME NEW L, NEW r, r.stage = "Begin", \A l \in L : l.tx # r.tx, NoneOpen(L)
    PROVE  /\ OpenIn(L \cup {r}, r.tx)
           /\ \A i \in TxIds : OpenIn(L \cup {r}, i) => i = r.tx
<1>1. "Begin" \notin ClosedStages
  BY DEF ClosedStages, RollbackStages
<1>2. OpenIn(L \cup {r}, r.tx)
  BY <1>1 DEF OpenIn
<1>3. ASSUME NEW i \in TxIds, OpenIn(L \cup {r}, i), i # r.tx PROVE FALSE
  <2>1. OpenIn(L, i)
    BY <1>3 DEF OpenIn
  <2>. QED
    BY <2>1 DEF NoneOpen
<1>. QED
  BY <1>2, <1>3

\* With nothing open, the targets are as committed, and the other way round.
LEMMA SoundNone ==
    ASSUME NEW L, NEW c \in [Files -> Values], NEW t \in [Files -> Values],
           NoneOpen(L), \A l \in L : l.tx \in TxIds
    PROVE  Sound(L, c, t) <=> c = t
<1>1. \A l \in L : ~OpenIn(L, l.tx)
  BY DEF NoneOpen
<1>2. \A i, j \in TxIds : OpenIn(L, i) /\ OpenIn(L, j) => i = j
  BY DEF NoneOpen
<1>3. Sound(L, c, t) => \A f \in Files : c[f] = t[f]
  BY <1>1 DEF Sound
<1>4. c = t => Sound(L, c, t)
  BY <1>1, <1>2 DEF Sound
<1>. QED
  BY <1>3, <1>4

LEMMA SoundNeutral ==
    ASSUME NEW L, NEW c, NEW t, NEW r, Sound(L, c, t),
           r.stage \notin ClosedStages \cup {"Begin"},
           IsImage(r) => r.original = t[r.file]
    PROVE  Sound(L \cup {r}, c, t)
<1>1. \A i : OpenIn(L \cup {r}, i) <=> OpenIn(L, i)
  BY NeutralAdded
<1>. QED
  BY <1>1 DEF Sound

\* Losing the last record when it has no newline.
LEMMA SoundLost ==
    ASSUME NEW L, NEW K, NEW x, NEW c, NEW t, Sound(L, c, t),
           L \ {x} \subseteq K, K \subseteq L,
           x \in L => /\ x.stage \notin ClosedStages
                      /\ x.stage = "Begin" => \A f \in Files : c[f] = t[f]
                      /\ IsImage(x) => c[x.file] = t[x.file]
    PROVE  /\ Sound(K, c, t)
           /\ \A i : OpenIn(K, i) => OpenIn(L, i)
<1>1. ASSUME NEW i, OpenIn(K, i) PROVE OpenIn(L, i)
  BY <1>1 DEF OpenIn
<1>2. ASSUME NEW f \in Files, c[f] # t[f]
      PROVE  \E l \in K : IsImage(l) /\ OpenIn(K, l.tx) /\ l.file = f
  <2>1. PICK l \in L : IsImage(l) /\ OpenIn(L, l.tx) /\ l.file = f
    BY <1>2 DEF Sound
  <2>2. l # x /\ l \in K
    BY <1>2, <2>1
  <2>3. OpenIn(K, l.tx)
    BY <1>2, <2>1 DEF OpenIn
  <2>. QED
    BY <2>1, <2>2, <2>3
<1>. QED
  BY <1>1, <1>2 DEF Sound

-----------------------------------------------------------------------------
(***************************************************************************)
(* What the steps have in common.                                          *)
(***************************************************************************)

LEMMA SaneParts ==
    ASSUME IInv, QInv, Sheltered
    PROVE  /\ Smooth /\ (Recoverable(wal) => Logical) /\ ~RollingBack
           /\ faults = 0 /\ crashes \in Nat
           /\ content \in [Files -> Values] /\ truth \in [Files -> Values] /\ wal \in Wals
           /\ \A l \in Held(wal) : l.tx \in TxIds
<1>1. RestTyped /\ Faultless /\ content \in [Files -> Values] /\ wal \in Wals
  BY Parts
<1>. QED
  BY <1>1, HeldFacts DEF QInv, Sane, Sheltered, RestTyped, Faultless

\* Once it is not sheltered, it stays so.
LEMMA ShelterKept ==
    ASSUME IInv, Sheltered', faults' = faults, commanded => commanded',
           crashes' = crashes \/ crashes' = crashes + 1
    PROVE  Sheltered
  BY Parts DEF Sheltered, RestTyped

LEMMA UnloggedKept ==
    ASSUME Unlogged, \A e \in Execs : Unused(e)' => Unused(e),
           \A l \in Held(wal') : \/ l \in Held(wal)
                                 \/ \A e \in Execs : Unused(e)' => IdOf[e] # l.tx
    PROVE  Unlogged'
  BY DEF Unlogged

\* A record of the running execution is of no other one.
LEMMA OwnRecord ==
    ASSUME UniqueIds, exec \in Execs, NEW r, r.tx = Id,
           \A e \in Execs : Unused(e)' => e # exec
    PROVE  \A e \in Execs : Unused(e)' => IdOf[e] # r.tx
<1> SUFFICES ASSUME NEW e \in Execs, Unused(e)', IdOf[e] = r.tx PROVE FALSE
  OBVIOUS
<1>1. e = exec
  BY DEF UniqueIds, Id
<1>. QED
  BY <1>1

\* A step after which nobody is in an execution, and no undo goes on.
LEMMA OffSane ==
    ASSUME pc' \in PcStages \ (TxStages \cup {"undo"}),
           ok' /\ ~bad', op' = "execute" => commanded', pc' \in {"inspect", "reconcile"} => op' = "activate",
           Recoverable(wal') =>
              /\ Sound(Held(wal'), content', truth')
              /\ TailSafe(wal', content', truth')
              /\ Unlogged'
              /\ Ready' => Settled(wal')
              /\ Activating'
    PROVE  Sane'
<1>1. /\ pc' \notin TxStages /\ pc' # "undo"
      /\ pc' \notin {"capture", "begin", "image", "write", "written", "commit"}
  BY DEF TxStages
<1>2. ~Applying' /\ ~Recovery'
  BY <1>1 DEF Applying, Recovery
<1>3. Smooth'
  BY <1>2 DEF Smooth
<1>4. OnTop' /\ Restored'
  BY <1>1, <1>2 DEF OnTop, Restored
<1>5. Recoverable(wal') => Logical'
  BY <1>4 DEF Logical
<1>. QED
  BY <1>3, <1>5 DEF Sane

\* After a release.
LEMMA Released ==
    ASSUME Release
    PROVE  /\ pc' \in PcStages \ (TxStages \cup {"undo"}) /\ ok' /\ ~bad' /\ op' = "none"
           /\ pc' = "idle" /\ exec' \notin Execs /\ Activating'
           /\ \A e \in Execs : Unused(e)' => outcome'[e] = "new"
  BY ExecsAssumption DEF Release, PcStages, TxStages, Activating, Unused

-----------------------------------------------------------------------------
(***************************************************************************)
(* Every step keeps it: the lock, and the start of a transaction.          *)
(***************************************************************************)

LEMMA StartSane ==
    ASSUME IInv, QInv, NEW p \in Procs, NEW e \in Execs, NEW o \in {"execute", "commit"},
           Start(p, e, o), o = "commit" => p \in live, Sheltered'
    PROVE  Sane'
<1>1. /\ outcome[e] = "new" /\ o \in OpsOf[p] /\ holder = NoProc
      /\ holder' = p /\ op' = o /\ pc' = "capture" /\ exec' = e
      /\ outcome' = [outcome EXCEPT ![e] = "running"]
      /\ commanded' = (commanded \/ o = "execute")
      /\ UNCHANGED <<content, wal, live, at, saved, script, ok, bad, truth, crashes, faults>>
  BY DEF Start, Acquire, files, ghosts
<1>2. Sheltered
  BY <1>1, ShelterKept
<1>3. Smooth /\ (Recoverable(wal) => Logical)
  BY <1>2, SaneParts
<1>4. Staged /\ outcome \in [Execs -> Statuses] /\ ~Applying
  BY <1>1, Parts DEF RestTyped, Staged, Applying, TxStages
<1>5. Ready
  <2>1. CASE o = "execute"
    BY <1>1, <2>1 DEF Sheltered, Ready
  <2>2. CASE o = "commit"
    BY <1>1, <2>2 DEF Ready
  <2>. QED
    BY <2>1, <2>2
<1>6. Smooth'
  BY <1>1, <1>3 DEF Smooth, Recovery
<1>7. ASSUME Recoverable(wal') PROVE Logical'
  <2>1. Logical /\ Settled(wal)
    BY <1>1, <1>3, <1>4, <1>5, <1>7 DEF Logical
  <2>2. \A d \in Execs : Unused(d)' => Unused(d)
    BY <1>1, <1>4 DEF Unused
  <2>3. Unlogged'
    BY <1>1, <2>1, <2>2 DEF Unlogged, Logical
  <2>4. OnTop'
    BY <1>1, <2>1 DEF OnTop, Applying, TxStages
  <2>5. Restored' /\ Activating' /\ (Ready' => Settled(wal'))
    BY <1>1, <2>1 DEF Restored, Recovery, Activating
  <2>. QED
    BY <1>1, <2>1, <2>3, <2>4, <2>5 DEF Logical
<1>. QED
  BY <1>6, <1>7 DEF Sane

LEMMA LockTimeoutSane ==
    ASSUME IInv, QInv, NEW p \in Procs, NEW e \in Execs, LockTimeout(p, e), Sheltered'
    PROVE  Sane'
<1>1. /\ outcome' = [outcome EXCEPT ![e] = "Blocked"]
      /\ UNCHANGED <<content, wal, live, holder, op, pc, exec, at, saved, script, ok, bad, truth, commanded,
                     crashes, faults>>
  BY DEF LockTimeout, files, control, locals, ghosts, bounds
<1>2. Sheltered
  BY <1>1, ShelterKept
<1>3. Smooth /\ (Recoverable(wal) => Logical) /\ outcome \in [Execs -> Statuses]
  BY <1>2, SaneParts, Parts DEF RestTyped
<1>4. Smooth'
  BY <1>1, <1>3 DEF Smooth, Recovery, RollingBack, Applying
<1>5. \A d \in Execs : Unused(d)' => Unused(d)
  BY <1>1, <1>3 DEF Unused
<1>6. Unlogged => Unlogged'
  BY <1>1, <1>5 DEF Unlogged
<1>7. (OnTop => OnTop') /\ (Restored => Restored')
  BY <1>1 DEF OnTop, Restored, Applying, Id, Target, Recovery, RollingBack
<1>8. (Activating => Activating') /\ (Ready' => Ready) /\ (Applying <=> Applying')
  BY <1>1 DEF Activating, Ready, Applying
<1>9. Logical => Logical'
  BY <1>1, <1>6, <1>7, <1>8 DEF Logical
<1>. QED
  BY <1>1, <1>3, <1>4, <1>9 DEF Sane

LEMMA CaptureSane ==
    ASSUME IInv, QInv, Capture, Sheltered'
    PROVE  Sane'
<1>1. /\ pc = "capture" /\ pc' = "begin" /\ saved' = content /\ at' = 1
      /\ UNCHANGED <<content, wal, live, holder, op, exec, script, ok, bad, outcome, truth, commanded, crashes,
                     faults>>
  BY DEF Capture, Goto, files, ghosts, bounds
<1>2. Sheltered
  BY <1>1, ShelterKept
<1>3. /\ Smooth /\ (Recoverable(wal) => Logical)
      /\ content \in [Files -> Values] /\ truth \in [Files -> Values]
      /\ \A l \in Held(wal) : l.tx \in TxIds
  BY <1>2, SaneParts
<1>4. Smooth'
  BY <1>1, <1>3 DEF Smooth, Recovery, RollingBack, Applying, TxStages
<1>5. ASSUME Recoverable(wal') PROVE Logical'
  <2>1. Logical /\ Settled(wal) /\ Applying'
    BY <1>1, <1>3, <1>5 DEF Logical, OnTop, Applying, TxStages
  <2>2. content = truth
    BY <1>3, <2>1, SoundNone DEF Logical, Settled
  <2>3. Unlogged'
    BY <1>1, <2>1 DEF Unlogged, Logical, Unused
  <2>4. OnTop'
    BY <1>1, <2>1, <2>2 DEF OnTop
  <2>5. Restored' /\ Activating'
    <3>1. op # "activate"
      BY <1>1, Parts DEF Staged, Applying, TxStages
    <3>. QED
      BY <1>1, <3>1 DEF Restored, Recovery, Activating
  <2>. QED
    BY <1>1, <2>1, <2>3, <2>4, <2>5 DEF Logical
<1>. QED
  BY <1>4, <1>5 DEF Sane

LEMMA BlockedSane ==
    ASSUME IInv, QInv, Blocked, Sheltered'
    PROVE  Sane'
<1>1. /\ pc = "capture" /\ Release /\ outcome' = [outcome EXCEPT ![exec] = "Blocked"]
      /\ UNCHANGED <<content, wal, live, truth, commanded, crashes, faults>>
  BY DEF Blocked, Return, files, ghosts, bounds
<1>2. Sheltered
  BY <1>1, ShelterKept
<1>3. Smooth /\ (Recoverable(wal) => Logical) /\ outcome \in [Execs -> Statuses]
  BY <1>2, SaneParts, Parts DEF RestTyped
<1>4. ASSUME Recoverable(wal) PROVE Logical /\ Settled(wal) /\ Unlogged'
  <2>1. Logical /\ Settled(wal)
    BY <1>1, <1>3, <1>4 DEF Logical, OnTop
  <2>2. \A e \in Execs : Unused(e)' => Unused(e)
    BY <1>1, <1>3, Released DEF Unused
  <2>. QED
    BY <1>1, <2>1, <2>2 DEF Unlogged, Logical
<1>5. Recoverable(wal) => Sound(Held(wal), content, truth) /\ TailSafe(wal, content, truth)
  BY <1>4 DEF Logical
<1>. QED
  BY <1>1, <1>4, <1>5, Released, OffSane

-----------------------------------------------------------------------------
(***************************************************************************)
(* A transaction.                                                          *)
(***************************************************************************)

LEMMA NextRecordIs ==
    ASSUME IInv, pc \in {"begin", "image", "written", "commit"}
    PROVE  /\ NextRecord \in RecordLines /\ NextRecord.tx = Id /\ exec \in Execs /\ Id \in TxIds
           /\ pc = "begin" => NextRecord.stage = "Begin"
           /\ pc = "image" => /\ NextRecord.stage = "BeforeImage"
                              /\ NextRecord.file = Target(at)
                              /\ NextRecord.original = saved[Target(at)]
           /\ pc = "written" => NextRecord.stage = "WriteApplied"
           /\ pc = "commit" => NextRecord.stage = "Commit"
<1>1. NextRecord \in RecordLines /\ exec \in Execs /\ Id \in TxIds
  BY NextRecordFacts
<1>2. CASE pc = "begin"
  <2> DEFINE b == (op = "commit")
  <2>1. NextRecord = BeginRecord(Id, b)
    BY <1>2 DEF NextRecord
  <2> HIDE DEF b
  <2>2. BeginRecord(Id, b).tx = Id /\ BeginRecord(Id, b).stage = "Begin"
    BY DEF BeginRecord, Marker
  <2>. QED
    BY <1>1, <1>2, <2>1, <2>2
<1>3. CASE pc = "image"
  <2> DEFINE v == saved[Target(at)]
             f == Target(at)
  <2>1. NextRecord = BeforeImage(Id, f, v)
    BY <1>3 DEF NextRecord
  <2> HIDE DEF v, f
  <2>2. /\ BeforeImage(Id, f, v).tx = Id /\ BeforeImage(Id, f, v).stage = "BeforeImage"
        /\ BeforeImage(Id, f, v).file = f /\ BeforeImage(Id, f, v).original = v
    BY DEF BeforeImage, Marker
  <2>. QED
    BY <1>1, <1>3, <2>1, <2>2 DEF v, f
<1>4. CASE pc = "written"
  <2> DEFINE f == Target(at)
  <2>1. NextRecord = WriteApplied(Id, f)
    BY <1>4 DEF NextRecord
  <2> HIDE DEF f
  <2>2. WriteApplied(Id, f).tx = Id /\ WriteApplied(Id, f).stage = "WriteApplied"
    BY DEF WriteApplied, Marker
  <2>. QED
    BY <1>1, <1>4, <2>1, <2>2
<1>5. CASE pc = "commit"
  <2>1. NextRecord = Marker(Id, "Commit")
    BY <1>5 DEF NextRecord
  <2>. QED
    BY <1>1, <1>5, <2>1 DEF Marker
<1>. QED
  BY <1>2, <1>3, <1>4, <1>5

\* What a transaction's next record makes of the log, when it is all there.
LEMMA RecordLogged ==
    ASSUME UniqueIds, IInv, QInv, Sheltered, Logical,
           pc \in {"begin", "image", "written"}
    PROVE  LET r == NextRecord IN
           /\ Sound(Held(wal) \cup {r}, content, truth)
           /\ OpenIn(Held(wal) \cup {r}, Id)
           /\ r.stage \notin ClosedStages
           /\ r.stage = "Begin" => content = truth
           /\ IsImage(r) => content[r.file] = truth[r.file]
<1> DEFINE r == NextRecord
           L == Held(wal)
<1>1. /\ content \in [Files -> Values] /\ truth \in [Files -> Values]
      /\ \A l \in L : l.tx \in TxIds
  BY SaneParts
<1>2. /\ r.tx = Id /\ exec \in Execs /\ Id \in TxIds
      /\ pc = "begin" => r.stage = "Begin"
      /\ pc = "image" => /\ r.stage = "BeforeImage"
                         /\ r.file = Target(at)
                         /\ r.original = saved[Target(at)]
      /\ pc = "written" => r.stage = "WriteApplied"
  BY NextRecordIs
<1> HIDE DEF r, L
<1>3. r.stage \notin ClosedStages
  BY <1>2 DEF ClosedStages, RollbackStages
<1>4. Sound(L, content, truth) /\ OnTop
  BY DEF Logical, L
<1>5. saved = truth
  BY <1>4 DEF OnTop, Applying, TxStages
<1>6. CASE pc = "begin"
  <2>1. NoneOpen(L)
    BY <1>4, <1>6 DEF OnTop, Settled, L
  <2>2. content = truth
    BY <1>1, <1>4, <2>1, SoundNone
  <2>3. \A l \in L : l.tx # r.tx
    BY <1>2, <1>6 DEF Logical, Unlogged, Unused, Id, L
  <2>4. /\ OpenIn(L \cup {r}, r.tx)
        /\ \A i \in TxIds : OpenIn(L \cup {r}, i) => i = r.tx
    BY <1>2, <1>6, <2>1, <2>3, BeginAdded
  <2>5. \A l \in L \cup {r} : ~(IsImage(l) /\ OpenIn(L \cup {r}, l.tx))
    <3>1. ~IsImage(r)
      BY <1>2, <1>6 DEF IsImage
    <3>. QED
      BY <1>1, <2>3, <2>4, <3>1
  <2>6. Sound(L \cup {r}, content, truth)
    BY <2>2, <2>4, <2>5 DEF Sound
  <2>. QED
    BY <1>2, <1>3, <1>6, <2>2, <2>4, <2>6 DEF r, L, IsImage
<1>7. CASE pc \in {"image", "written"}
  <2>1. OpenIn(L, Id)
    BY <1>4, <1>7 DEF OnTop, L
  <2>2. IsImage(r) => pc = "image"
    BY <1>2, <1>7 DEF IsImage
  <2>3. IsImage(r) => r.original = truth[r.file] /\ content[r.file] = truth[r.file]
    <3>1. ASSUME pc = "image" PROVE content[Target(at)] = saved[Target(at)]
      <4>1. at \in DOMAIN Writes[exec] /\ Applying /\ pc # "capture" /\ pc # "written"
        BY <3>1 DEF IInv, Placed, Applying, TxStages
      <4>2. at \in Nat /\ ~(at < at)
        BY Parts DEF LocalsTyped
      <4>. QED
        BY <4>1, <4>2 DEF IInv, Written
    <3>. QED
      BY <1>2, <1>5, <2>2, <3>1
  <2>4. r.stage \notin ClosedStages \cup {"Begin"}
    BY <1>2, <1>3, <1>7
  <2>5. Sound(L \cup {r}, content, truth)
    BY <1>4, <2>3, <2>4, SoundNeutral
  <2>6. OpenIn(L \cup {r}, Id)
    BY <2>1, <2>4, NeutralAdded
  <2>. QED
    BY <1>3, <2>3, <2>4, <2>5, <2>6 DEF r, L
<1>. QED
  BY <1>6, <1>7

\* The Commit closes the only open transaction, with all its targets written.
LEMMA CommitLogged ==
    ASSUME UniqueIds, IInv, QInv, Sheltered, Logical, pc = "commit"
    PROVE  /\ NoneOpen(Held(wal) \cup {NextRecord}) /\ wal.ended
           /\ content = Overlay(truth, exec)
           /\ NextRecord.stage = "Commit" /\ NextRecord.tx = Id
<1> DEFINE r == NextRecord
           L == Held(wal)
<1>1. content \in [Files -> Values] /\ truth \in [Files -> Values]
  BY SaneParts
<1>2. r.tx = Id /\ exec \in Execs /\ Id \in TxIds /\ r.stage = "Commit"
  BY NextRecordIs
<1> HIDE DEF r, L
<1>3. Sound(L, content, truth) /\ OnTop /\ Applying
  BY DEF Logical, L, Applying, TxStages
<1>4. /\ OpenIn(L, Id) /\ wal.ended
      /\ \A f \in Files : (\A k \in DOMAIN Writes[exec] : Target(k) # f) => content[f] = truth[f]
  BY <1>3 DEF OnTop, L
<1>5. NoneOpen(L \cup {r})
  <2>1. \A i \in TxIds : OpenIn(L, i) => i = r.tx
    BY <1>2, <1>3, <1>4 DEF Sound
  <2>2. r.stage \in ClosedStages
    BY <1>2 DEF ClosedStages
  <2>. QED
    BY <2>1, <2>2, ClosingAdded
<1>6. \A k \in DOMAIN Writes[exec] :
         content[Writes[exec][k].file] = Installed(exec, Writes[exec][k])
  <2>1. at = Len(Writes[exec]) + 1 /\ DOMAIN Writes[exec] = 1 .. Len(Writes[exec])
        /\ Len(Writes[exec]) \in Nat
    BY <1>2, WriteSet DEF IInv, Placed
  <2>2. \A k \in DOMAIN Writes[exec] : k < at
    BY <2>1
  <2>. QED
    BY <1>3, <2>2 DEF IInv, Written, Target
<1>7. content = Overlay(content, exec)
  BY <1>1, <1>2, <1>6, OverlayFacts
<1>8. Overlay(content, exec) = Overlay(truth, exec)
  <2>1. \A f \in Files : ~(\E k \in DOMAIN Writes[exec] : Writes[exec][k].file = f)
                            => content[f] = truth[f]
    BY <1>4 DEF Target
  <2>. QED
    BY <2>1 DEF Overlay
<1>. QED
  BY <1>2, <1>4, <1>5, <1>7, <1>8 DEF r, L

LEMMA LogSane ==
    ASSUME UniqueIds, IInv, QInv, LogBegin \/ LogBeforeImage \/ LogWriteApplied, Sheltered'
    PROVE  Sane'
<1> DEFINE r == NextRecord
<1>1. /\ wal' = Write(wal, r, "full")
      /\ pc \in {"begin", "image", "written"} /\ pc' \in {"image", "write", "commit"}
      /\ pc' = "write" => pc = "image" /\ at' = at
      /\ UNCHANGED <<content, live, holder, op, exec, saved, script, ok, bad, outcome, truth, commanded,
                     crashes, faults>>
  BY DEF LogBegin, LogBeforeImage, LogWriteApplied, Log, Goto, Appended, ghosts, bounds
<1>2. Sheltered
  BY <1>1, ShelterKept
<1>3. Smooth /\ (Recoverable(wal) => Logical) /\ wal \in Wals
  BY <1>2, SaneParts
<1>4. /\ r \in RecordLines /\ r.tx = Id /\ exec \in Execs
      /\ pc = "image" => r.stage = "BeforeImage" /\ r.file = Target(at)
  BY <1>1, NextRecordIs
<1>5. /\ Applying /\ Applying' /\ pc # "capture" /\ pc' \notin {"capture", "begin"}
      /\ ~Recovery' /\ outcome[exec] = "running" /\ op # "activate"
  BY <1>1, Parts DEF Applying, TxStages, Staged, Recovery
<1>6. Smooth'
  BY <1>1, <1>3, <1>5 DEF Smooth
<1>7. ASSUME Recoverable(wal') PROVE Logical'
  <2>1. "full" \in Cuts \ {"nothing"}
    BY DEF Cuts
  <2>2. /\ Recoverable(wal) /\ wal'.ended /\ wal.ended /\ Held(wal') = Held(wal) \cup {r}
    <3> HIDE DEF r
    <3>. QED
      BY <1>1, <1>3, <1>4, <1>7, <2>1, HeldWritten
  <2>3. Logical /\ OnTop
    BY <1>3, <2>2 DEF Logical
  <2>4. Sound(Held(wal'), content, truth) /\ OpenIn(Held(wal'), Id)
    BY <1>1, <1>2, <2>2, <2>3, RecordLogged
  <2>5. TailSafe(wal', content, truth)
    BY <2>2 DEF TailSafe
  <2>6. Unlogged'
    <3>1. \A e \in Execs : Unused(e)' => outcome[e] = "new"
      BY <1>1, <1>5 DEF Unused
    <3>2. \A e \in Execs : Unused(e)' => Unused(e) /\ e # exec
      BY <1>5, <3>1 DEF Unused
    <3>3. \A e \in Execs : Unused(e)' => IdOf[e] # r.tx
      <4> HIDE DEF r
      <4>. QED
        BY <1>4, <3>2, OwnRecord
    <3>. QED
      BY <2>2, <2>3, <3>2, <3>3, UnloggedKept DEF Logical
  <2>7. OnTop'
    <3>1. Id' = Id /\ \A k : Target(k)' = Target(k)
      BY <1>1 DEF Id, Target
    <3>2. /\ saved = truth
          /\ \A f \in Files :
                (\A k \in DOMAIN Writes[exec] : Target(k) # f) => content[f] = truth[f]
      BY <1>5, <2>3 DEF OnTop
    <3>3. pc' = "write" => \E l \in Held(wal') : IsImage(l) /\ l.tx = Id /\ l.file = Target(at)
      BY <1>1, <1>4, <2>2 DEF IsImage
    <3>. QED
      BY <1>1, <1>5, <2>2, <2>4, <3>1, <3>2, <3>3 DEF OnTop, Target
  <2>8. Restored' /\ Activating'
    BY <1>1, <1>5 DEF Restored, Activating
  <2>. QED
    BY <1>1, <1>5, <2>4, <2>5, <2>6, <2>7, <2>8 DEF Logical
<1>. QED
  BY <1>6, <1>7 DEF Sane

LEMMA ApplyWriteSane ==
    ASSUME IInv, QInv, ApplyWrite, Sheltered'
    PROVE  Sane'
<1> DEFINE f == Target(at)
<1>1. /\ pc = "write" /\ pc' = "written"
      /\ content' = [content EXCEPT ![f] = Installed(exec, Writes[exec][at])]
      /\ UNCHANGED <<wal, live, holder, op, exec, at, saved, script, ok, bad, outcome, truth, commanded,
                     crashes, faults>>
  BY DEF ApplyWrite, Goto, locals, ghosts, bounds
<1>2. Sheltered
  BY <1>1, ShelterKept
<1>3. Smooth /\ (Recoverable(wal) => Logical) /\ content \in [Files -> Values]
  BY <1>2, SaneParts
<1>4. /\ Applying /\ Applying' /\ ~Recovery' /\ op # "activate"
      /\ at \in DOMAIN Writes[exec]
  BY <1>1, Parts DEF Applying, TxStages, Staged, Recovery, IInv, Placed
<1>5. Smooth'
  BY <1>1, <1>3, <1>4 DEF Smooth
<1>6. ASSUME Recoverable(wal') PROVE Logical'
  <2>1. Logical /\ OnTop /\ wal.ended /\ Sound(Held(wal), content, truth)
        /\ OpenIn(Held(wal), Id)
    BY <1>1, <1>3, <1>6 DEF Logical, OnTop
  <2>2. PICK l \in Held(wal) : IsImage(l) /\ l.tx = Id /\ l.file = f
    BY <1>1, <2>1 DEF OnTop
  <2>3. \A g \in Files : g # f => content'[g] = content[g]
    BY <1>1, <1>3
  <2> HIDE DEF f
  <2>4. Sound(Held(wal), content', truth)
    <3>1. ASSUME NEW g \in Files, content'[g] # truth[g]
          PROVE  \E k \in Held(wal) : IsImage(k) /\ OpenIn(Held(wal), k.tx) /\ k.file = g
      <4>1. CASE g = f
        BY <2>1, <2>2, <4>1
      <4>2. CASE g # f
        BY <2>1, <2>3, <3>1, <4>2 DEF Sound
      <4>. QED
        BY <4>1, <4>2
    <3>. QED
      BY <2>1, <3>1 DEF Sound
  <2>5. TailSafe(wal', content', truth')
    BY <1>1, <2>1 DEF TailSafe
  <2>6. Unlogged'
    BY <1>1, <2>1 DEF Unlogged, Unused, Logical
  <2>7. OnTop'
    <3>1. Id' = Id /\ \A k : Target(k)' = Target(k)
      BY <1>1 DEF Id, Target
    <3>2. \A g \in Files : (\A k \in DOMAIN Writes[exec] : Target(k) # g) => content'[g] = truth[g]
      <4>1. \A g \in Files : (\A k \in DOMAIN Writes[exec] : Target(k) # g) => g # f
        BY <1>4 DEF f
      <4>. QED
        BY <1>1, <1>4, <2>1, <2>3, <4>1 DEF OnTop
    <3>. QED
      BY <1>1, <1>4, <2>1, <3>1, <3>2 DEF OnTop
  <2>8. Restored' /\ Activating'
    BY <1>1, <1>4 DEF Restored, Activating
  <2>. QED
    BY <1>1, <1>4, <2>1, <2>4, <2>5, <2>6, <2>7, <2>8 DEF Logical
<1>. QED
  BY <1>5, <1>6 DEF Sane

LEMMA LogCommitSane ==
    ASSUME UniqueIds, IInv, QInv, LogCommit, Sheltered'
    PROVE  Sane'
<1> DEFINE r == NextRecord
<1>1. /\ pc = "commit" /\ wal' = Write(wal, r, "full") /\ truth' = Overlay(truth, exec)
      /\ outcome' = [outcome EXCEPT ![exec] = "Applied"]
      /\ UNCHANGED <<content, live, commanded, crashes, faults>>
  BY DEF LogCommit, Appended, Ack, Return, bounds
<1>2. \/ pc' = "consume" /\ op' = "commit" /\ UNCHANGED <<holder, exec, ok, bad>>
      \/ Release
  BY DEF LogCommit, Goto, Return
<1>3. Sheltered
  BY <1>1, ShelterKept
<1>4. /\ Smooth /\ (Recoverable(wal) => Logical) /\ wal \in Wals
      /\ content \in [Files -> Values] /\ outcome \in [Execs -> Statuses]
  BY <1>3, SaneParts, Parts DEF RestTyped
<1>5. r \in RecordLines /\ r.tx = Id /\ exec \in Execs /\ r.stage = "Commit" /\ Id \in TxIds
  BY <1>1, NextRecordIs
<1>6. /\ pc' \in PcStages \ (TxStages \cup {"undo"}) /\ pc' \notin {"inspect", "reconcile"}
      /\ ok' /\ ~bad' /\ op' \notin {"execute", "activate"}
  <2>1. ok /\ ~bad
    BY <1>4 DEF Smooth
  <2>2. CASE Release
    BY <2>2, Released
  <2>3. CASE pc' = "consume" /\ op' = "commit" /\ UNCHANGED <<holder, exec, ok, bad>>
    BY <2>1, <2>3 DEF PcStages, TxStages
  <2>. QED
    BY <1>2, <2>2, <2>3
<1>7. ASSUME Recoverable(wal')
      PROVE  /\ Sound(Held(wal'), content', truth') /\ TailSafe(wal', content', truth')
             /\ Unlogged' /\ Settled(wal') /\ Activating'
  <2>1. "full" \in Cuts \ {"nothing"}
    BY DEF Cuts
  <2>2. /\ Recoverable(wal) /\ wal'.ended /\ wal.ended /\ Held(wal') = Held(wal) \cup {r}
        /\ wal' \in Wals
    <3> HIDE DEF r
    <3>. QED
      BY <1>1, <1>4, <1>5, <1>7, <2>1, HeldWritten
  <2>3. Logical
    BY <1>4, <2>2
  <2>4. NoneOpen(Held(wal')) /\ content' = truth'
    BY <1>1, <1>3, <2>2, <2>3, CommitLogged
  <2>5. Sound(Held(wal'), content', truth')
    <3>1. content' \in [Files -> Values] /\ truth' \in [Files -> Values]
      BY <1>1, <1>4, <2>4
    <3>2. \A l \in Held(wal') : l.tx \in TxIds
      BY <2>2, HeldFacts
    <3>. QED
      BY <2>4, <3>1, <3>2, SoundNone
  <2>6. TailSafe(wal', content', truth') /\ Settled(wal')
    BY <2>2, <2>4 DEF TailSafe, Settled
  <2>7. Activating'
    BY <1>6 DEF Activating
  <2>8. Unlogged'
    <3>1. pc' \notin {"capture", "begin"}
      BY <1>6 DEF TxStages
    <3>2. \A e \in Execs : Unused(e)' => outcome'[e] = "new"
      BY <3>1 DEF Unused
    <3>3. \A e \in Execs : Unused(e)' => Unused(e) /\ e # exec
      BY <1>1, <1>4, <1>5, <3>2 DEF Unused
    <3>4. \A e \in Execs : Unused(e)' => IdOf[e] # r.tx
      <4> HIDE DEF r
      <4>. QED
        BY <1>5, <3>3, OwnRecord
    <3>. QED
      BY <2>2, <2>3, <3>3, <3>4, UnloggedKept DEF Logical
  <2>. QED
    BY <2>5, <2>6, <2>7, <2>8
<1>. QED
  BY <1>6, <1>7, OffSane

-----------------------------------------------------------------------------
(***************************************************************************)
(* The recovery.                                                           *)
(***************************************************************************)

\* A script without its first step.
LEMMA TailFacts ==
    ASSUME NEW s \in Seq(Steps), s # <<>>
    PROVE  /\ 1 \in DOMAIN s /\ Head(s) = s[1] /\ Tail(s) \in Seq(Steps)
           /\ Len(s) \in Nat \ {0} /\ DOMAIN s = 1 .. Len(s)
           /\ Len(Tail(s)) = Len(s) - 1 /\ DOMAIN Tail(s) = 1 .. (Len(s) - 1)
           /\ \A k \in 1 .. (Len(s) - 1) : k + 1 \in 1 .. Len(s) /\ Tail(s)[k] = s[k + 1]
           /\ Len(s) > 1 => Tail(s) # <<>> /\ Last(Tail(s)) = Last(s)
           /\ Len(s) = 1 => Tail(s) = <<>> /\ Last(s) = s[1]
<1>1. /\ Len(s) \in Nat \ {0} /\ DOMAIN s = 1 .. Len(s) /\ 1 \in 1 .. Len(s) /\ Head(s) = s[1]
  OBVIOUS
<1>2. /\ Tail(s) \in Seq(Steps) /\ Len(Tail(s)) = Len(s) - 1 /\ DOMAIN Tail(s) = 1 .. (Len(s) - 1)
  OBVIOUS
<1>3. \A k \in 1 .. (Len(s) - 1) : k + 1 \in 1 .. Len(s) /\ Tail(s)[k] = s[k + 1]
  OBVIOUS
<1>4. Len(s) > 1 => Tail(s) # <<>> /\ Last(Tail(s)) = Last(s)
  <2> SUFFICES ASSUME Len(s) > 1 PROVE Tail(s) # <<>> /\ Last(Tail(s)) = Last(s)
    OBVIOUS
  <2>1. Len(s) - 1 \in 1 .. (Len(s) - 1) /\ (Len(s) - 1) + 1 = Len(s)
    BY <1>1
  <2>2. Tail(s)[Len(s) - 1] = s[Len(s)]
    BY <1>3, <2>1
  <2>3. Last(Tail(s)) = Tail(s)[Len(s) - 1] /\ Last(s) = s[Len(s)]
    BY <1>2 DEF Last
  <2>4. Tail(s) # <<>>
    <3>1. \A q \in Seq(Steps) : Len(q) # 0 => q # <<>>
      OBVIOUS
    <3>2. Len(s) - 1 # 0
      BY <1>1
    <3>. QED
      BY <1>2, <3>1, <3>2
  <2>. QED
    BY <2>2, <2>3, <2>4
<1>5. Len(s) = 1 => Tail(s) = <<>> /\ Last(s) = s[1]
  BY <1>2 DEF Last
<1>. QED
  BY <1>1, <1>2, <1>3, <1>4, <1>5

\* A target restored is as committed.
LEMMA RestoreSane ==
    ASSUME IInv, QInv, Restore, Sheltered'
    PROVE  Sane'
<1> DEFINE f == Current.file
<1>1. /\ pc = "undo" /\ script # <<>> /\ IsRestore(Current)
      /\ content' = [content EXCEPT ![f] = Current.to] /\ script' = Tail(script)
      /\ UNCHANGED <<wal, live, holder, op, pc, exec, at, saved, ok, bad, outcome, truth, commanded, crashes,
                     faults>>
  BY DEF Restore, Restoring, control, ghosts, bounds, IsRestore
<1>2. Sheltered
  BY <1>1, ShelterKept
<1>3. /\ Smooth /\ (Recoverable(wal) => Logical) /\ content \in [Files -> Values]
      /\ ~RollingBack /\ script \in Seq(Steps)
  BY <1>2, SaneParts, Parts DEF LocalsTyped
<1>4. Recovery /\ ~Applying /\ Current = script[1] /\ 1 \in DOMAIN script
  BY <1>1, <1>3, TailFacts DEF Recovery, Applying, TxStages, Current
<1>5. Current.to = truth[f] /\ f \in Files
  <2>1. Current \in Steps
    BY <1>3, <1>4
  <2>. QED
    BY <1>1, <1>3, <1>4, <2>1, StepFacts DEF Smooth
<1>6. \A g \in Files : content'[g] = IF g = f THEN truth[g] ELSE content[g]
  BY <1>1, <1>3, <1>5
<1>7. /\ Recovery' /\ ~Applying'
      /\ \A k \in 1 .. (Len(script) - 1) : k + 1 \in 1 .. Len(script) /\ script'[k] = script[k + 1]
      /\ DOMAIN script' = 1 .. (Len(script) - 1) /\ Len(script') = Len(script) - 1
      /\ Len(script) \in Nat \ {0} /\ DOMAIN script = 1 .. Len(script)
      /\ Len(script) > 1 => script' # <<>> /\ Last(script') = Last(script)
      /\ Len(script) = 1 => Last(script) = script[1]
  BY <1>1, <1>3, <1>4, TailFacts DEF Recovery, RollingBack, Applying
<1>8. Smooth'
  <2>1. \A k \in DOMAIN script' : IsRestore(script'[k]) => script'[k].to = truth[script'[k].file]
    BY <1>3, <1>4, <1>7 DEF Smooth
  <2>. QED
    BY <1>1, <1>3, <1>7, <2>1 DEF Smooth
<1> HIDE DEF f
<1>9. ASSUME Recoverable(wal') PROVE Logical'
  <2>1. Logical /\ Sound(Held(wal), content, truth) /\ Restored
    BY <1>1, <1>3, <1>9 DEF Logical
  <2>2. Sound(Held(wal), content', truth)
    BY <1>6, <2>1 DEF Sound
  <2>3. TailSafe(wal, content', truth)
    <3>1. \A g \in Files : content[g] = truth[g] => content'[g] = truth[g]
      BY <1>6
    <3>2. ~wal.ended /\ Last(wal.lines) # Broken /\ IsImage(Last(wal.lines)) =>
             Last(wal.lines).file \in Files
      <4>1. wal \in Wals
        BY Parts
      <4>2. ASSUME ~wal.ended, Last(wal.lines) # Broken, IsImage(Last(wal.lines))
            PROVE  Last(wal.lines).file \in Files
        <5>1. Last(wal.lines) \in Held(wal)
          BY <4>1, <4>2, LastIsHeld
        <5>. QED
          BY <4>1, <4>2, <5>1, HeldFacts
      <4>. QED
        BY <4>2
    <3>. QED
      BY <2>1, <3>1, <3>2 DEF TailSafe, Logical
  <2>4. Unlogged'
    BY <1>1, <2>1 DEF Unlogged, Unused, Logical
  <2>5. OnTop' /\ Activating' /\ (Ready' => Settled(wal'))
    BY <1>1, <1>4, <1>7, <2>1 DEF OnTop, Activating, Logical, Ready
  <2>6. Len(script) > 1
    BY <1>1, <1>4, <1>7, <2>1 DEF Restored
  <2>7. Restored'
    <3>1. ~IsRestore(Last(script')) /\ OpenIn(Held(wal), Last(script').mark.tx)
      BY <1>1, <1>4, <1>7, <2>1, <2>6 DEF Restored
    <3>2. \A k \in 1 .. (Len(script') - 1) : IsRestore(script'[k])
      <4>1. \A k \in 1 .. (Len(script') - 1) :
               k \in 1 .. (Len(script) - 1) /\ k + 1 \in 1 .. (Len(script) - 1)
        BY <1>7
      <4>2. \A k \in 1 .. (Len(script) - 1) : IsRestore(script[k])
        BY <1>1, <1>4, <2>1 DEF Restored
      <4>. QED
        BY <1>7, <4>1, <4>2
    <3>3. ASSUME NEW l \in Held(wal), IsImage(l), l.tx = Last(script').mark.tx
          PROVE  \/ content'[l.file] = truth[l.file]
                 \/ \E k \in 1 .. (Len(script') - 1) : script'[k].file = l.file
      <4>0. l.file \in Files
        BY <3>3, HeldFacts, Parts
      <4>1. \/ content[l.file] = truth[l.file]
            \/ \E k \in 1 .. (Len(script) - 1) : script[k].file = l.file
        BY <1>1, <1>4, <1>7, <2>1, <2>6, <3>3 DEF Restored
      <4>2. CASE content[l.file] = truth[l.file] \/ l.file = f
        BY <1>6, <4>0, <4>2
      <4>3. ASSUME NEW k \in 1 .. (Len(script) - 1), script[k].file = l.file, l.file # f
            PROVE  \E j \in 1 .. (Len(script') - 1) : script'[j].file = l.file
        <5>1. k # 1
          BY <1>4, <4>3 DEF f
        <5>2. k - 1 \in 1 .. (Len(script) - 1) /\ k - 1 \in 1 .. (Len(script') - 1) /\ (k - 1) + 1 = k
          BY <1>7, <5>1
        <5>3. script'[k - 1] = script[k]
          BY <1>7, <5>2
        <5>. QED
          BY <4>3, <5>2, <5>3
      <4>. QED
        BY <4>1, <4>2, <4>3
    <3>4. script' # <<>>
      BY <1>7, <2>6
    <3>. QED
      BY <1>1, <3>1, <3>2, <3>3, <3>4 DEF Restored
  <2>. QED
    BY <1>1, <1>7, <2>2, <2>3, <2>4, <2>5, <2>7 DEF Logical
<1>. QED
  BY <1>8, <1>9 DEF Sane

\* The mark comes when all is restored, and closes the open transaction.
LEMMA MarkLogged ==
    ASSUME IInv, QInv, Sheltered, Logical, Marking
    PROVE  LET r == Current.mark IN
           /\ r \in RecordLines /\ r.stage \in ClosedStages
           /\ OpenIn(Held(wal), r.tx)
           /\ NoneOpen(Held(wal) \cup {r})
           /\ content = truth
           /\ Tail(script) = <<>> /\ op \notin {"execute", "commit"}
<1> DEFINE r == Current.mark
           L == Held(wal)
<1>1. /\ pc = "undo" /\ script # <<>> /\ script \in Seq(Steps) /\ ~RollingBack
      /\ content \in [Files -> Values] /\ truth \in [Files -> Values]
  BY SaneParts, Parts DEF Marking, LocalsTyped
<1>2. Recovery /\ op \notin {"execute", "commit"}
  BY <1>1 DEF Recovery, RollingBack
<1>3. Current = script[1] /\ Len(script) \in Nat \ {0} /\ ~IsRestore(Current)
  BY <1>1, TailFacts, MarkFacts DEF Current
<1>4. Len(script) = 1
  <2>1. \A k \in 1 .. (Len(script) - 1) : IsRestore(script[k])
    BY <1>1, <1>2 DEF Logical, Restored
  <2>2. 1 \notin 1 .. (Len(script) - 1)
    BY <1>3, <2>1
  <2>. QED
    BY <1>3, <2>2
<1>5. Last(script) = Current /\ Tail(script) = <<>>
  BY <1>1, <1>3, <1>4, TailFacts
<1>6. /\ OpenIn(L, r.tx)
      /\ \A l \in L : IsImage(l) /\ l.tx = r.tx => content[l.file] = truth[l.file]
  <2>1. \A k \in 1 .. (Len(script) - 1) : FALSE
    BY <1>4
  <2>. QED
    BY <1>1, <1>2, <1>5, <2>1 DEF Logical, Restored
<1>7. r \in RecordLines /\ r.stage \in RollbackStages /\ r.tx \in TxIds
  <2>1. r \in RecordLines
    BY MarkFacts
  <2>2. r \in Marks
    <3>1. Current \in Steps
      BY <1>1, <1>3
    <3>. QED
      BY <1>3, <3>1, StepFacts
  <2>. QED
    BY <2>1, <2>2, RecordFacts DEF Marks
<1> HIDE DEF r, L
<1>8. Sound(L, content, truth)
  BY DEF Logical, L
<1>9. /\ \A i \in TxIds : OpenIn(L, i) => i = r.tx
      /\ \A l \in L : OpenIn(L, l.tx) => l.tx = r.tx
  <2>1. \A l \in L : l.tx \in TxIds
    BY SaneParts DEF L
  <2>. QED
    BY <1>6, <1>7, <1>8, <2>1 DEF Sound
<1>10. r.stage \in ClosedStages
  BY <1>7 DEF ClosedStages
<1>11. NoneOpen(L \cup {r})
  BY <1>9, <1>10, ClosingAdded
<1>12. \A g \in Files : content[g] = truth[g]
  BY <1>6, <1>8, <1>9 DEF Sound
<1>13. content = truth
  BY <1>1, <1>12
<1>. QED
  BY <1>2, <1>5, <1>6, <1>7, <1>10, <1>11, <1>13 DEF r, L

LEMMA MarkSane ==
    ASSUME IInv, QInv, LogMark, Sheltered'
    PROVE  Sane'
<1> DEFINE r == Current.mark
<1>1. /\ Marking /\ pc = "undo" /\ script # <<>> /\ wal' = Write(wal, r, "full")
      /\ script' = Tail(script) /\ ok'
      /\ UNCHANGED <<content, live, holder, op, pc, exec, at, saved, bad, outcome, truth, commanded, crashes,
                     faults>>
  BY DEF LogMark, Marking, Appended, control, ghosts, bounds
<1>2. Sheltered
  BY <1>1, ShelterKept
<1>3. /\ Smooth /\ (Recoverable(wal) => Logical) /\ wal \in Wals
      /\ content \in [Files -> Values]
      /\ ~RollingBack /\ script \in Seq(Steps) /\ r \in RecordLines
  BY <1>1, <1>2, SaneParts, Parts, MarkFacts DEF LocalsTyped
<1>4. Recovery /\ Recovery' /\ ~Applying /\ ~Applying'
  BY <1>1, <1>3 DEF Recovery, RollingBack, Applying, TxStages
<1>5. Smooth'
  <2>1. \A k \in DOMAIN script' : IsRestore(script'[k]) => script'[k].to = truth[script'[k].file]
    <3>1. \A k \in DOMAIN script' : k + 1 \in DOMAIN script /\ script'[k] = script[k + 1]
      BY <1>1, <1>3, TailFacts
    <3>. QED
      BY <1>3, <1>4, <3>1 DEF Smooth
  <2>. QED
    BY <1>1, <1>3, <1>4, <2>1 DEF Smooth
<1>6. ASSUME Recoverable(wal') PROVE Logical'
  <2>1. "full" \in Cuts \ {"nothing"}
    BY DEF Cuts
  <2>2. /\ Recoverable(wal) /\ wal'.ended /\ wal.ended /\ Held(wal') = Held(wal) \cup {r}
        /\ wal' \in Wals
    <3> HIDE DEF r
    <3>. QED
      BY <1>1, <1>3, <1>6, <2>1, HeldWritten
  <2>3. Logical
    BY <1>3, <2>2
  <2>4. NoneOpen(Held(wal')) /\ content = truth /\ script' = <<>> /\ OpenIn(Held(wal), r.tx)
    BY <1>1, <1>2, <2>2, <2>3, MarkLogged
  <2>5. Sound(Held(wal'), content, truth)
    <3>1. \A l \in Held(wal') : l.tx \in TxIds
      BY <2>2, HeldFacts
    <3>. QED
      BY <1>3, <2>4, <3>1, SoundNone
  <2>6. TailSafe(wal', content, truth) /\ Settled(wal')
    BY <2>2, <2>4 DEF TailSafe, Settled
  <2>7. Unlogged'
    <3>1. \A e \in Execs : Unused(e)' => Unused(e)
      BY <1>1 DEF Unused
    <3>2. \A e \in Execs : Unused(e) => IdOf[e] # r.tx
      BY <2>3, <2>4 DEF Logical, Unlogged, OpenIn
    <3> HIDE DEF r
    <3>. QED
      BY <2>2, <2>3, <3>1, <3>2, UnloggedKept DEF Logical
  <2>8. OnTop'
    BY <1>1, <1>4 DEF OnTop, Applying
  <2>9. Restored' /\ Activating'
    BY <1>1, <2>4 DEF Restored, Activating
  <2>. QED
    BY <1>1, <2>5, <2>6, <2>7, <2>8, <2>9 DEF Logical
<1>. QED
  BY <1>5, <1>6 DEF Sane

\* What a transaction that is open saved is put back, and nothing else.
LEMMA ReadWalSane ==
    ASSUME IInv, QInv, ReadWal, Sheltered'
    PROVE  Sane'
<1> DEFINE rs == RecordsOf(wal)
<1>1. /\ pc = "read" /\ pc' = "undo" /\ Recoverable(wal)
      /\ script' = FlattenSeq([k \in DOMAIN Incomplete(rs) |-> UndoIncomplete(rs, Incomplete(rs)[k])])
      /\ UNCHANGED <<content, wal, live, holder, op, exec, at, saved, ok, bad, outcome, truth, commanded,
                     crashes, faults>>
  BY DEF ReadWal, Goto, files, ghosts, bounds
<1>2. Sheltered
  BY <1>1, ShelterKept
<1>3. /\ Smooth /\ Logical /\ wal \in Wals /\ \A l \in Held(wal) : l.tx \in TxIds
  BY <1>1, <1>2, SaneParts
<1>4. /\ op \in {"recover", "activate"} /\ ~Applying /\ ~Applying'
      /\ script' \in Seq(Steps)
  <2>1. op \in {"recover", "activate"}
    BY <1>1, Parts DEF Staged
  <2>2. script' \in Seq(Steps)
    <3>1. IInv'
      BY ReadWalKeeps
    <3>. QED
      BY <3>1 DEF IInv, TypeOK, LocalsTyped
  <2>. QED
    BY <1>1, <2>1, <2>2 DEF Applying, TxStages
<1>5. rs \in Seq(RecordLines) /\ Range(rs) = Held(wal)
  BY <1>3, ReadsHeld
<1>6. Sound(Held(wal), content, truth)
  BY <1>3 DEF Logical
<1> HIDE DEF rs
<1>7. \/ script' = <<>> /\ NoneOpen(Held(wal))
      \/ \E i \in TxIds : OpenIn(Held(wal), i) /\ Undoes(script', Held(wal), i)
  <2>1. \A i, j \in TxIds : OpenIn(Range(rs), i) /\ OpenIn(Range(rs), j) => i = j
    BY <1>5, <1>6 DEF Sound
  <2>2. \/ script' = <<>> /\ NoneOpen(Range(rs))
        \/ \E i \in TxIds : OpenIn(Range(rs), i) /\ Undoes(script', Range(rs), i)
    BY <1>1, <1>5, <2>1, ScriptIs
  <2>. QED
    BY <1>5, <2>2
<1>8. ASSUME script' # <<>>
      PROVE  /\ ~IsRestore(Last(script')) /\ OpenIn(Held(wal), Last(script').mark.tx)
             /\ \A k \in 1 .. (Len(script') - 1) :
                   IsRestore(script'[k]) /\ script'[k].to = truth[script'[k].file]
             /\ \A l \in Held(wal) : IsImage(l) /\ l.tx = Last(script').mark.tx =>
                   \E k \in 1 .. (Len(script') - 1) : script'[k].file = l.file
  <2>1. PICK i \in TxIds : OpenIn(Held(wal), i) /\ Undoes(script', Held(wal), i)
    BY <1>7, <1>8
  <2>2. \A k \in 1 .. (Len(script') - 1) : script'[k].to = truth[script'[k].file]
    <3> SUFFICES ASSUME NEW k \in 1 .. (Len(script') - 1)
                 PROVE  script'[k].to = truth[script'[k].file]
      OBVIOUS
    <3>1. PICK l \in Held(wal) : /\ IsImage(l) /\ l.tx = i
                                 /\ script'[k].file = l.file /\ script'[k].to = l.original
      BY <2>1 DEF Undoes
    <3>2. l.original = truth[l.file]
      BY <1>6, <2>1, <3>1 DEF Sound
    <3>. QED
      BY <3>1, <3>2
  <2>. QED
    BY <2>1, <2>2 DEF Undoes
<1>9. \A k \in DOMAIN script' : IsRestore(script'[k]) => script'[k].to = truth[script'[k].file]
  <2> SUFFICES ASSUME NEW k \in DOMAIN script', IsRestore(script'[k])
               PROVE  script'[k].to = truth[script'[k].file]
    OBVIOUS
  <2> DEFINE s == script'
  <2> HIDE DEF s
  <2>1. s \in Seq(Steps) /\ k \in 1 .. Len(s) /\ Len(s) \in Nat
    BY <1>4 DEF s
  <2>2. s # <<>>
    BY <2>1
  <2>3. Last(s) = s[Len(s)]
    BY <2>1, <2>2, LastFacts
  <2>4. k # Len(s)
    BY <1>8, <2>2, <2>3 DEF s
  <2>5. k \in 1 .. (Len(s) - 1)
    BY <2>1, <2>4
  <2>. QED
    BY <1>8, <2>2, <2>5 DEF s
<1>10. Smooth'
  BY <1>1, <1>3, <1>4, <1>9 DEF Smooth
<1>11. Restored'
  BY <1>1, <1>7, <1>8, <1>4 DEF Restored, Undoes
<1>12. Unlogged' /\ OnTop' /\ Activating' /\ (Ready' => Settled(wal'))
  <2>1. Unlogged'
    BY <1>1, <1>3 DEF Unlogged, Unused, Logical
  <2>2. OnTop' /\ Activating'
    BY <1>1, <1>4 DEF OnTop, Activating
  <2>3. Ready' => Settled(wal')
    BY <1>1, <1>3, <1>4 DEF Logical, Ready
  <2>. QED
    BY <2>1, <2>2, <2>3
<1>13. Logical'
  BY <1>1, <1>3, <1>11, <1>12 DEF Logical
<1>. QED
  BY <1>10, <1>13 DEF Sane

\* The steps of a recovery, an activation and a consumption that append nothing.
LEMMA QuietSane ==
    ASSUME IInv, QInv, Sheltered, ~Applying, UNCHANGED <<content, truth, outcome, commanded>>,
           wal' = wal \/ wal' = Repaired(wal),
           pc' \in PcStages \ (TxStages \cup {"undo"}), ok', ~bad',
           op' = "execute" => op = "execute",
           pc' \in {"inspect", "reconcile"} => op' = "activate",
           Ready' => Ready \/ (Recoverable(wal) => Settled(wal)),
           Recoverable(wal) => Activating'
    PROVE  Sane'
<1>1. Smooth /\ (Recoverable(wal) => Logical) /\ wal \in Wals
  BY SaneParts
<1>2. /\ Held(wal') = Held(wal) /\ (Recoverable(wal') => Recoverable(wal))
      /\ wal' = wal \/ wal'.ended
  BY <1>1, HeldRepaired
<1>3. op' = "execute" => commanded'
  BY <1>1 DEF Smooth
<1>4. ASSUME Recoverable(wal')
      PROVE  /\ Sound(Held(wal'), content', truth') /\ TailSafe(wal', content', truth')
             /\ Unlogged' /\ (Ready' => Settled(wal')) /\ Activating'
  <2>1. Logical /\ Activating' /\ Sound(Held(wal), content, truth) /\ TailSafe(wal, content, truth)
        /\ Unlogged
    BY <1>1, <1>2, <1>4 DEF Logical
  <2>2. Ready' => Settled(wal)
    BY <1>1, <1>2, <1>4, <2>1 DEF Logical
  <2>3. TailSafe(wal', content', truth') /\ (Settled(wal) => Settled(wal'))
    <3>1. CASE wal' = wal
      BY <2>1, <3>1
    <3>2. CASE wal'.ended
      BY <1>2, <3>2 DEF TailSafe, Settled
    <3>. QED
      BY <1>2, <3>1, <3>2
  <2>4. Unlogged'
    <3>1. pc' \notin {"capture", "begin"}
      BY DEF TxStages
    <3>2. \A e \in Execs : Unused(e)' => Unused(e)
      BY <3>1 DEF Unused
    <3>. QED
      BY <1>2, <2>1, <3>2, UnloggedKept
  <2>. QED
    BY <1>2, <2>1, <2>2, <2>3, <2>4
<1>. QED
  BY <1>3, <1>4, OffSane

LEMMA ActivationsStartSane ==
    ASSUME IInv, QInv, NEW p \in Procs, StartRecovery(p) \/ StartActivation(p), Sheltered'
    PROVE  Sane'
<1>1. /\ holder = NoProc
      /\ \/ op' = "recover" /\ pc' = "read"
         \/ op' = "activate" /\ pc' = "repair"
      /\ UNCHANGED <<content, wal, live, ok, bad, outcome, truth, commanded, crashes, faults>>
  BY DEF StartRecovery, StartActivation, Acquire, files, locals, ghosts, bounds
<1>2. Sheltered
  BY <1>1, ShelterKept
<1>3. ~Applying /\ Smooth
  BY <1>1, <1>2, Outside, SaneParts
<1>4. Activating' /\ (Ready' => Ready) /\ ok' /\ ~bad'
  BY <1>1, <1>3 DEF Activating, Ready, Smooth
<1>5. pc' \in PcStages \ (TxStages \cup {"undo"})
  BY <1>1 DEF PcStages, TxStages
<1>. QED
  BY <1>1, <1>2, <1>3, <1>4, <1>5, QuietSane

LEMMA RepairSane ==
    ASSUME IInv, QInv, Repair, Sheltered'
    PROVE  Sane'
<1>1. /\ pc = "repair" /\ wal' = Repaired(wal) /\ pc' = "read"
      /\ UNCHANGED <<content, live, op, ok, bad, outcome, truth, commanded, crashes, faults>>
  BY DEF Repair, Goto, locals, ghosts, bounds
<1>2. Sheltered
  BY <1>1, ShelterKept
<1>3. ~Applying /\ Smooth
  BY <1>1, <1>2, Outside, SaneParts
<1>4. Activating' /\ (Ready' => Ready) /\ ok' /\ ~bad'
  BY <1>1, <1>3 DEF Activating, Ready, Smooth
<1>5. pc' \in PcStages \ (TxStages \cup {"undo"})
  BY <1>1 DEF PcStages, TxStages
<1>. QED
  BY <1>1, <1>2, <1>3, <1>4, <1>5, QuietSane

\* Activated makes a host ready, with a log that a recovery has settled.
LEMMA RecoveredSane ==
    ASSUME IInv, QInv, ReadWalFails \/ Recovered \/ Reconcile \/ Activated \/ ConsumeReplay,
           Sheltered'
    PROVE  Sane'
<1>1. /\ UNCHANGED <<content, wal, outcome, truth, commanded, crashes, faults>>
      /\ \/ pc = "read" /\ Release /\ live' = live
         \/ /\ pc = "undo" /\ script = <<>> /\ op \in {"recover", "activate"} /\ live' = live
            /\ \/ op = "activate" /\ pc' = "inspect" /\ UNCHANGED <<op, ok, bad>>
               \/ Release
         \/ pc = "reconcile" /\ pc' = "consume" /\ UNCHANGED <<live, op, ok, bad>>
         \/ pc = "reconcile" /\ Release
         \/ pc = "consume" /\ pc' = "complete" /\ UNCHANGED <<live, op, ok, bad>>
  BY DEF ReadWalFails, Recovered, Reconcile, Activated, ConsumeReplay, Goto, files, locals, ghosts, bounds
<1>2. Sheltered
  BY <1>1, ShelterKept
<1>3. ~Applying /\ Smooth /\ (Recoverable(wal) => Logical) /\ ~RollingBack
  BY <1>1, <1>2, Outside, SaneParts
<1>4. /\ pc' \in PcStages \ (TxStages \cup {"undo"}) /\ ok' /\ ~bad'
      /\ op' = "execute" => op = "execute"
      /\ pc' \in {"inspect", "reconcile"} => op' = "activate"
  <2>1. CASE Release
    BY <2>1, Released
  <2>2. CASE pc' \in {"inspect", "consume", "complete"} /\ UNCHANGED <<op, ok, bad>>
             /\ (pc' = "inspect" => op = "activate")
    BY <1>3, <2>2 DEF PcStages, TxStages, Smooth
  <2>. QED
    BY <1>1, <2>1, <2>2
<1>5. ASSUME Recoverable(wal) PROVE Activating' /\ (Ready' => Ready \/ Settled(wal))
  <2>1. Logical /\ Activating /\ Restored
    BY <1>3, <1>5 DEF Logical
  <2>2. pc = "undo" /\ script = <<>> => NoneOpen(Held(wal))
    BY <1>3, <2>1 DEF Restored, Recovery
  <2>3. pc = "reconcile" => NoneOpen(Held(wal)) /\ wal.ended
    BY <1>3, <2>1 DEF Activating, Smooth
  <2>4. Activating'
    <3>1. CASE Release
      BY <3>1, Released
    <3>2. CASE pc = "undo" /\ script = <<>> /\ pc' = "inspect"
      BY <1>1, <2>2, <3>2 DEF Activating
    <3>3. CASE pc = "reconcile" /\ pc' = "consume"
      BY <1>1, <2>3, <3>3 DEF Activating
    <3>4. CASE pc = "consume" /\ pc' = "complete" /\ op' = op
      BY <1>1, <2>1, <3>4 DEF Activating
    <3>. QED
      BY <1>1, <3>1, <3>2, <3>3, <3>4
  <2>5. Ready' => Ready \/ Settled(wal)
    <3>1. CASE pc = "reconcile"
      BY <2>3, <3>1 DEF Settled
    <3>2. CASE live' = live
      BY <1>1, <3>2 DEF Ready
    <3>. QED
      BY <1>1, <3>1, <3>2
  <2>. QED
    BY <2>4, <2>5
<1>6. /\ wal' = wal \/ wal' = Repaired(wal)
      /\ Ready' => Ready \/ (Recoverable(wal) => Settled(wal))
      /\ Recoverable(wal) => Activating'
  BY <1>1, <1>5
<1>. QED
  BY <1>1, <1>2, <1>3, <1>4, <1>6, QuietSane

LEMMA InspectSane ==
    ASSUME IInv, QInv, Inspect, Sheltered'
    PROVE  Sane'
<1>1. /\ pc = "inspect" /\ wal' = Repaired(wal)
      /\ UNCHANGED <<content, live, outcome, truth, commanded, crashes, faults>>
      /\ \/ pc' = "reconcile" /\ UNCHANGED <<op, ok, bad>>
         \/ Release
  BY DEF Inspect, Goto, ghosts, bounds
<1>2. Sheltered
  BY <1>1, ShelterKept
<1>3. ~Applying /\ Smooth /\ (Recoverable(wal) => Logical) /\ wal \in Wals
  BY <1>1, <1>2, Outside, SaneParts
<1>4. /\ pc' \in PcStages \ (TxStages \cup {"undo"}) /\ ok' /\ ~bad'
      /\ op' = "execute" => op = "execute"
      /\ pc' \in {"inspect", "reconcile"} => op' = "activate"
  <2>1. CASE Release
    BY <2>1, Released
  <2>2. CASE pc' = "reconcile" /\ UNCHANGED <<op, ok, bad>>
    BY <1>1, <1>3, <2>2 DEF PcStages, TxStages, Smooth
  <2>. QED
    BY <1>1, <2>1, <2>2
<1>5. ASSUME Recoverable(wal) PROVE Activating'
  <2>1. NoneOpen(Held(wal))
    BY <1>1, <1>3, <1>5 DEF Logical, Activating, Smooth
  <2>2. Held(wal') = Held(wal) /\ wal'.ended
    BY <1>1, <1>3, HeldRepaired
  <2>. QED
    BY <2>1, <2>2 DEF Activating
<1>6. Ready' => Ready
  BY <1>1 DEF Ready
<1>. QED
  BY <1>1, <1>2, <1>3, <1>4, <1>5, <1>6, QuietSane

\* What the completion of a replay key adds is of a committed transaction.
LEMMA CompletionLogged ==
    ASSUME IInv, QInv, Sheltered, Logical, pc = "complete", Completable(Repaired(wal))
    PROVE  LET r == Marker(tx, "ReplayConsumed") IN
           /\ r \in RecordLines /\ r.stage = "ReplayConsumed"
           /\ Sound(Held(wal) \cup {r}, content, truth)
           /\ \A i : OpenIn(Held(wal) \cup {r}, i) <=> OpenIn(Held(wal), i)
           /\ \A e \in Execs : Unused(e) => IdOf[e] # r.tx
<1> DEFINE r == Marker(tx, "ReplayConsumed")
           w == Repaired(wal)
<1>1. tx \in TxIds /\ wal \in Wals
  BY Outside
<1>2. r \in Records /\ r.stage = "ReplayConsumed" /\ r.tx = tx
  BY <1>1, AbsentAssumption DEF Marker, Records, Stages
<1>3. w \in Wals /\ Held(w) = Held(wal)
  BY <1>1, HeldRepaired
<1>4. tx \in Pending(RecordsOf(w))
  BY DEF Completable
<1> HIDE DEF r, w
<1>5. RecordsOf(w) \in Seq(RecordLines) /\ Range(RecordsOf(w)) = Held(wal)
  BY <1>3, ReadsHeld
<1>6. PICK l \in Held(wal) : l.tx = tx
  BY <1>4, <1>5, PendingFacts
<1>7. \A e \in Execs : Unused(e) => IdOf[e] # r.tx
  BY <1>2, <1>6 DEF Logical, Unlogged
<1>8. r.stage \notin ClosedStages \cup {"Begin"} /\ ~IsImage(r) /\ r \in RecordLines
  BY <1>2 DEF ClosedStages, RollbackStages, IsImage, RecordLines
<1>9. Sound(Held(wal), content, truth)
  BY DEF Logical
<1>10. Sound(Held(wal) \cup {r}, content, truth)
  BY <1>8, <1>9, SoundNeutral
<1>11. \A i : OpenIn(Held(wal) \cup {r}, i) <=> OpenIn(Held(wal), i)
  BY <1>8, NeutralAdded
<1>. QED
  BY <1>2, <1>7, <1>8, <1>10, <1>11 DEF r

LEMMA CompletionSane ==
    ASSUME IInv, QInv, LogCompletion, Sheltered'
    PROVE  Sane'
<1> DEFINE r == Marker(tx, "ReplayConsumed")
           w == Repaired(wal)
<1>1. /\ pc = "complete" /\ Completable(w) /\ wal' = Write(w, r, "full")
      /\ UNCHANGED <<content, live, outcome, truth, commanded, crashes, faults>>
      /\ \/ op = "activate" /\ pc' = "reconcile" /\ UNCHANGED <<op, ok, bad>>
         \/ Release
  BY DEF LogCompletion, Goto, locals, ghosts, bounds
<1>2. Sheltered
  BY <1>1, ShelterKept
<1>3. ~Applying /\ Smooth /\ (Recoverable(wal) => Logical) /\ wal \in Wals
  BY <1>1, <1>2, Outside, SaneParts
<1>4. /\ pc' \in PcStages \ (TxStages \cup {"undo"}) /\ ok' /\ ~bad'
      /\ op' = "execute" => commanded'
      /\ pc' \in {"inspect", "reconcile"} => op' = "activate"
  <2>1. CASE Release
    BY <2>1, Released
  <2>2. CASE op = "activate" /\ pc' = "reconcile" /\ UNCHANGED <<op, ok, bad>>
    BY <1>1, <1>3, <2>2 DEF PcStages, TxStages, Smooth
  <2>. QED
    BY <1>1, <2>1, <2>2
<1>5. w \in Wals /\ w.ended /\ Held(w) = Held(wal) /\ (Recoverable(w) => Recoverable(wal))
  BY <1>3, HeldRepaired
<1>6. ASSUME Recoverable(wal')
      PROVE  /\ Sound(Held(wal'), content', truth') /\ TailSafe(wal', content', truth')
             /\ Unlogged' /\ (Ready' => Settled(wal')) /\ Activating'
  <2>1. r \in RecordLines
    <3>1. tx \in TxIds
      BY <1>1, Outside
    <3>2. "ReplayConsumed" \in Stages
      BY DEF Stages
    <3>. QED
      BY <3>1, <3>2, AbsentAssumption DEF Marker, Records, RecordLines
  <2>2. "full" \in Cuts \ {"nothing"}
    BY DEF Cuts
  <2>3. Recoverable(wal) /\ wal'.ended /\ Held(wal') = Held(wal) \cup {r}
    <3> HIDE DEF r, w
    <3>. QED
      BY <1>1, <1>5, <1>6, <2>1, <2>2, HeldWritten
  <2>4. Logical
    BY <1>3, <2>3
  <2>5. /\ Sound(Held(wal'), content, truth)
        /\ \A i : OpenIn(Held(wal'), i) <=> OpenIn(Held(wal), i)
        /\ \A e \in Execs : Unused(e) => IdOf[e] # r.tx
    BY <1>1, <1>2, <2>3, <2>4, CompletionLogged
  <2>6. NoneOpen(Held(wal)) => NoneOpen(Held(wal'))
    BY <2>5 DEF NoneOpen
  <2>7. TailSafe(wal', content', truth')
    BY <2>3 DEF TailSafe
  <2>8. Ready' => Settled(wal')
    <3>1. Ready' => Ready
      BY <1>1 DEF Ready
    <3>. QED
      BY <1>3, <2>3, <2>4, <2>6, <3>1 DEF Logical, Settled
  <2>9. Activating'
    <3>1. CASE Release
      BY <3>1, Released
    <3>2. CASE op = "activate" /\ pc' = "reconcile"
      BY <1>1, <2>3, <2>4, <2>6, <3>2 DEF Logical, Activating
    <3>. QED
      BY <1>1, <3>1, <3>2
  <2>10. Unlogged'
    <3>1. pc' \notin {"capture", "begin"}
      BY <1>4 DEF TxStages
    <3>2. \A e \in Execs : Unused(e)' => Unused(e)
      BY <1>1, <3>1 DEF Unused
    <3> HIDE DEF r
    <3>. QED
      BY <2>3, <2>4, <2>5, <3>2, UnloggedKept DEF Logical
  <2>. QED
    BY <1>1, <2>5, <2>7, <2>8, <2>9, <2>10
<1>. QED
  BY <1>4, <1>6, OffSane

LEMMA CompletionFailsSane ==
    ASSUME IInv, QInv, LogCompletionFails, Sheltered'
    PROVE  Sane'
<1>1. /\ pc = "complete" /\ Release
      /\ UNCHANGED <<content, live, outcome, truth>>
      /\ \/ wal' = Repaired(wal) /\ UNCHANGED <<commanded, crashes, faults>>
         \/ Fault
  BY DEF LogCompletionFails, ghosts, bounds
<1>2. ~Fault
  BY FaultFacts, Parts DEF Sheltered
<1>3. Sheltered
  BY <1>1, <1>2, ShelterKept
<1>4. ~Applying
  BY <1>1, Outside
<1>5. Ready' => Ready
  BY <1>1, <1>2 DEF Ready
<1>. QED
  BY <1>1, <1>2, <1>3, <1>4, <1>5, Released, QuietSane

\* The log is replaced while nobody is at work.
LEMMA CompactSane ==
    ASSUME IInv, QInv, NEW p \in Procs, Compact(p), Sheltered'
    PROVE  Sane'
<1> DEFINE rs == RecordsOf(wal)
<1>1. /\ holder = NoProc /\ Parses(wal) /\ wal' = [lines |-> Retained(rs), ended |-> TRUE]
      /\ UNCHANGED <<content, live, holder, op, pc, exec, at, saved, script, ok, bad, outcome, truth,
                     commanded, crashes, faults>>
  BY DEF Compact, control, locals, ghosts, bounds
<1>2. Sheltered
  BY <1>1, ShelterKept
<1>3. ~Applying /\ Smooth /\ (Recoverable(wal) => Logical) /\ wal \in Wals
  BY <1>1, <1>2, Outside, SaneParts
<1>4. pc = "idle" /\ Logical
  BY <1>1, <1>3, Parts DEF Staged, Parses, Recoverable
<1>5. Sound(Held(wal), content, truth) /\ Unlogged
  BY <1>4 DEF Logical
<1>6. rs \in Seq(RecordLines) /\ Range(rs) = Held(wal)
  BY <1>3, ReadsHeld
<1> HIDE DEF rs
<1>7. /\ Retained(rs) \in Seq(RecordLines) /\ Range(Retained(rs)) \subseteq Held(wal)
      /\ \A l \in Held(wal) : OpenIn(Held(wal), l.tx) => l \in Range(Retained(rs))
      /\ \A i \in TxIds : OpenIn(Range(Retained(rs)), i) <=> OpenIn(Held(wal), i)
  <2>1. \A i, j \in TxIds : OpenIn(Range(rs), i) /\ OpenIn(Range(rs), j) => i = j
    BY <1>5, <1>6 DEF Sound
  <2>2. /\ Retained(rs) \in Seq(RecordLines) /\ Range(Retained(rs)) \subseteq Range(rs)
        /\ \A l \in Range(rs) : OpenIn(Range(rs), l.tx) => l \in Range(Retained(rs))
        /\ \A i \in TxIds : OpenIn(Range(Retained(rs)), i) <=> OpenIn(Range(rs), i)
    BY <1>6, <2>1, RetainedOpen
  <2>. QED
    BY <1>6, <2>2
<1> DEFINE ls == Retained(rs)
<1> HIDE DEF ls
<1>8. Held(wal') = Range(ls) /\ wal'.ended
  <2>1. wal'.lines = ls /\ wal'.ended
    BY <1>1 DEF ls
  <2>2. \A l \in Range(ls) : l # Broken
    BY <1>7 DEF Held, ls
  <2>. QED
    BY <2>1, <2>2 DEF Held
<1>9. /\ Held(wal') \subseteq Held(wal)
      /\ \A l \in Held(wal) : OpenIn(Held(wal), l.tx) => l \in Held(wal')
      /\ \A i \in TxIds : OpenIn(Held(wal'), i) <=> OpenIn(Held(wal), i)
  BY <1>7, <1>8 DEF ls
<1>10. \A l \in Held(wal) : l.tx \in TxIds
  BY <1>3, HeldFacts
<1>11. Sound(Held(wal'), content, truth)
  BY <1>5, <1>9, <1>10 DEF Sound
<1>12. TailSafe(wal', content', truth') /\ (Ready' => Settled(wal'))
  <2>1. Ready' => Ready
    BY <1>1 DEF Ready
  <2>2. NoneOpen(Held(wal)) => NoneOpen(Held(wal'))
    BY <1>9 DEF NoneOpen
  <2>. QED
    BY <1>3, <1>4, <1>8, <2>1, <2>2 DEF TailSafe, Settled, Logical
<1>13. Unlogged'
  <2>1. \A e \in Execs : Unused(e)' => Unused(e)
    BY <1>1 DEF Unused
  <2>. QED
    BY <1>5, <1>9, <2>1, UnloggedKept
<1>14. Activating'
  BY <1>1, <1>4 DEF Activating
<1>15. pc' \in PcStages \ (TxStages \cup {"undo"}) /\ ok' /\ ~bad' /\ (op' = "execute" => commanded')
       /\ pc' \notin {"inspect", "reconcile"}
  BY <1>1, <1>3, <1>4 DEF PcStages, TxStages, Smooth
<1>. QED
  BY <1>1, <1>11, <1>12, <1>13, <1>14, <1>15, OffSane

-----------------------------------------------------------------------------
(***************************************************************************)
(* A death.                                                                *)
(***************************************************************************)

\* When the only host dies in an execution, no host is ready.
LEMMA HostLost ==
    ASSUME OneHost, IInv, Smooth, Applying, op # "execute", live' = live \ {holder},
           crashes \in Nat, crashes' = crashes + 1
    PROVE  ~Ready'
<1>1. op = "commit"
  BY Parts DEF Staged
<1>2. holder \in live /\ "commit" \in OpsOf[holder] /\ live \subseteq Procs
  BY <1>1, Parts DEF Smooth, RestTyped
<1>3. crashes' # 0
  OBVIOUS
<1>. QED
  BY <1>2, <1>3 DEF Ready, OneHost

\* A record cut off in the middle of an execution, or of a recovery's mark, whatever the
\* log ended in: what it leaves is sound.
LEMMA CutSound ==
    ASSUME NEW w \in Wals, NEW r \in RecordLines, NEW cut \in Cuts \ {"nothing"},
           NEW v, v = Write(w, r, cut), NEW c \in [Files -> Values], NEW t \in [Files -> Values],
           NEW u \in [Files -> Values], Recoverable(v),
           Sound(Held(w), c, t), TailSafe(w, c, t),
           \* with the record, which may commit
           cut # "part" /\ w.ended =>
              /\ Sound(Held(w) \cup {r}, c, u)
              /\ r.stage \in ClosedStages => NoneOpen(Held(w) \cup {r})
              /\ r.stage = "Begin" => c = u
              /\ IsImage(r) => c[r.file] = u[r.file],
           cut = "part" \/ ~w.ended => u = t,
           \* without a newline, the last record does not close
           ~w.ended /\ Last(w.lines) # Broken => Last(w.lines).stage \notin ClosedStages
    PROVE  Sound(Held(v), c, u) /\ TailSafe(v, c, u)
<1>1. /\ v.ended = (cut = "full")
      /\ w.ended /\ cut # "part" => Held(v) = Held(w) \cup {r} /\ Last(v.lines) = r
      /\ w.ended /\ cut = "part" => Held(v) = Held(w) /\ Last(v.lines) = Broken
      /\ ~w.ended => /\ Held(w) \ {Last(w.lines)} \subseteq Held(v)
                     /\ Held(v) \subseteq Held(w)
                     /\ Last(v.lines) = Broken
  BY HeldWritten
<1>2. CASE w.ended /\ cut # "part"
  <2>1. Sound(Held(v), c, u)
    BY <1>1, <1>2
  <2>2. TailSafe(v, c, u)
    BY <1>1, <1>2 DEF TailSafe
  <2>. QED
    BY <2>1, <2>2
<1>3. CASE w.ended /\ cut = "part"
  BY <1>1, <1>3 DEF TailSafe
<1>4. CASE ~w.ended
  <2> DEFINE x == Last(w.lines)
             L == Held(w)
             K == Held(v)
  <2>1. x \in L => x # Broken
    BY DEF Held
  <2>2. x \in L => /\ x.stage \notin ClosedStages
                   /\ x.stage = "Begin" => \A f \in Files : c[f] = t[f]
                   /\ IsImage(x) => c[x.file] = t[x.file]
    BY <1>4, <2>1 DEF TailSafe
  <2>3. L \ {x} \subseteq K /\ K \subseteq L /\ Sound(L, c, t)
    BY <1>1, <1>4
  <2> HIDE DEF x, L, K
  <2>4. Sound(K, c, t)
    BY <2>2, <2>3, SoundLost
  <2>5. TailSafe(v, c, u)
    BY <1>1, <1>4 DEF TailSafe
  <2>. QED
    BY <1>4, <2>4, <2>5 DEF K
<1>. QED
  BY <1>2, <1>3, <1>4

\* What is in the log after a death, and is not yet: an execution cut off.
LEMMA CutExecution ==
    ASSUME UniqueIds, IInv, QInv, Sheltered, Logical, NEW cut \in Cuts \ {"nothing"},
           pc \in {"begin", "image", "written", "commit"},
           wal' = Write(wal, NextRecord, cut), Recoverable(wal'),
           content' = content,
           IF NextRecord.stage = "Commit" /\ cut # "part" THEN Ack ELSE UNCHANGED <<acked, truth>>
    PROVE  /\ Sound(Held(wal'), content', truth') /\ TailSafe(wal', content', truth')
           /\ \A l \in Held(wal') : l \in Held(wal) \/ l = NextRecord
<1> DEFINE r == NextRecord
<1>1. /\ content \in [Files -> Values] /\ truth \in [Files -> Values] /\ wal \in Wals
      /\ RestTyped
  BY SaneParts, Parts
<1>2. /\ r \in RecordLines /\ r.tx = Id /\ exec \in Execs
      /\ r.stage = "Commit" <=> pc = "commit"
  BY NextRecordIs
<1>3. /\ Sound(Held(wal), content, truth) /\ TailSafe(wal, content, truth) /\ OnTop
  BY DEF Logical
<1>4. truth' \in [Files -> Values]
  BY <1>1, <1>2, AckFacts
<1>5. ~wal.ended => pc = "begin" /\ truth' = truth
  BY <1>2, <1>3 DEF OnTop
<1>6. ~wal.ended /\ Last(wal.lines) # Broken => Last(wal.lines).stage \notin ClosedStages
  BY <1>3, <1>5 DEF OnTop, Settled, ClosedStages, RollbackStages
<1>7. cut = "part" \/ ~wal.ended => truth' = truth
  BY <1>5
<1>8. ASSUME cut # "part"
      PROVE  /\ Sound(Held(wal) \cup {r}, content, truth')
             /\ r.stage \in ClosedStages => NoneOpen(Held(wal) \cup {r})
             /\ r.stage = "Begin" => content = truth'
             /\ IsImage(r) => content[r.file] = truth'[r.file]
  <2>1. CASE pc # "commit"
    <3>1. truth' = truth
      BY <1>2, <2>1
    <3>. QED
      BY <2>1, <3>1, RecordLogged
  <2>2. CASE pc = "commit"
    <3>1. NoneOpen(Held(wal) \cup {r}) /\ content = truth' /\ r.stage = "Commit"
      BY <1>2, <1>8, <2>2, CommitLogged DEF Ack
    <3>2. \A l \in Held(wal) \cup {r} : l.tx \in TxIds
      BY <1>1, <1>2, HeldFacts, RecordFacts DEF RecordLines
    <3>3. Sound(Held(wal) \cup {r}, content, truth')
      BY <1>1, <1>4, <3>1, <3>2, SoundNone
    <3>. QED
      BY <3>1, <3>3
  <2>. QED
    BY <2>1, <2>2
<1>9. wal' = Write(wal, r, cut)
  OBVIOUS
<1> HIDE DEF r
<1>10. \A l \in Held(wal') : l \in Held(wal) \/ l = r
  BY <1>1, <1>2, <1>9, HeldWritten
<1>11. Sound(Held(wal'), content, truth') /\ TailSafe(wal', content, truth')
  BY <1>1, <1>2, <1>3, <1>4, <1>6, <1>7, <1>8, <1>9, CutSound
<1>. QED
  BY <1>10, <1>11 DEF r

\* A mark cut off.
LEMMA CutMark ==
    ASSUME IInv, QInv, Sheltered, Logical, NEW cut \in Cuts \ {"nothing"}, Marking,
           wal' = Write(wal, Current.mark, cut), Recoverable(wal'),
           UNCHANGED <<content, truth>>
    PROVE  /\ Sound(Held(wal'), content', truth') /\ TailSafe(wal', content', truth')
           /\ \A l \in Held(wal') : l \in Held(wal) \/ l = Current.mark
           /\ ~NoneOpen(Held(wal)) /\ \A e \in Execs : Unused(e) => IdOf[e] # Current.mark.tx
<1> DEFINE r == Current.mark
<1>1. /\ content \in [Files -> Values] /\ truth \in [Files -> Values] /\ wal \in Wals
      /\ \A l \in Held(wal) : l.tx \in TxIds
  BY SaneParts
<1>2. /\ r \in RecordLines /\ r.stage \in ClosedStages
      /\ OpenIn(Held(wal), r.tx)
      /\ NoneOpen(Held(wal) \cup {r})
      /\ content = truth
  BY MarkLogged
<1> HIDE DEF r
<1>3. Sound(Held(wal), content, truth) /\ TailSafe(wal, content, truth) /\ Unlogged
  BY DEF Logical
<1>4. r.tx \in TxIds
  BY <1>2, RecordFacts DEF RecordLines
<1>5. ~NoneOpen(Held(wal))
  BY <1>2, <1>4 DEF NoneOpen
<1>6. ~wal.ended /\ Last(wal.lines) # Broken => Last(wal.lines).stage \notin ClosedStages
  BY <1>3, <1>5 DEF TailSafe
<1>7. Sound(Held(wal) \cup {r}, content, truth)
  <2>1. \A l \in Held(wal) \cup {r} : l.tx \in TxIds
    BY <1>1, <1>4
  <2>. QED
    BY <1>1, <1>2, <2>1, SoundNone
<1>8. wal' = Write(wal, r, cut)
  BY DEF r
<1>9. Sound(Held(wal'), content, truth) /\ TailSafe(wal', content, truth)
  BY <1>1, <1>2, <1>3, <1>6, <1>7, <1>8, CutSound
<1>10. \A l \in Held(wal') : l \in Held(wal) \/ l = r
  BY <1>1, <1>2, <1>8, HeldWritten
<1>11. \A e \in Execs : Unused(e) => IdOf[e] # r.tx
  BY <1>2, <1>3 DEF Unlogged, OpenIn
<1>. QED
  BY <1>5, <1>9, <1>10, <1>11 DEF r

\* The completion of a replay key cut off.
LEMMA CutCompletion ==
    ASSUME IInv, QInv, Sheltered, Logical, NEW cut \in Cuts \ {"nothing"}, pc = "complete",
           Completable(Repaired(wal)), NEW r, r = Marker(tx, "ReplayConsumed"),
           wal' = Write(Repaired(wal), r, cut), Recoverable(wal'),
           UNCHANGED <<content, truth>>
    PROVE  /\ Sound(Held(wal'), content', truth') /\ TailSafe(wal', content', truth')
           /\ \A l \in Held(wal') : l \in Held(wal) \/ l = r
           /\ \A e \in Execs : Unused(e) => IdOf[e] # r.tx
           /\ NoneOpen(Held(wal)) => Settled(wal')
<1> DEFINE w == Repaired(wal)
<1>1. /\ wal \in Wals /\ Sound(Held(wal), content, truth)
  BY SaneParts DEF Logical
<1>2. w \in Wals /\ w.ended /\ Held(w) = Held(wal)
  BY <1>1, HeldRepaired
<1>3. /\ r \in RecordLines /\ r.stage = "ReplayConsumed"
      /\ Sound(Held(wal) \cup {r}, content, truth)
      /\ \A i : OpenIn(Held(wal) \cup {r}, i) <=> OpenIn(Held(wal), i)
      /\ \A e \in Execs : Unused(e) => IdOf[e] # r.tx
  BY CompletionLogged
<1> HIDE DEF w
<1>4. wal' = Write(w, r, cut)
  BY DEF w
<1>5. /\ cut # "part" => Held(wal') = Held(wal) \cup {r} /\ Last(wal'.lines) = r
      /\ cut = "part" => Held(wal') = Held(wal) /\ Last(wal'.lines) = Broken
  BY <1>2, <1>3, <1>4, HeldWritten
<1>6. Sound(Held(wal'), content, truth) /\ \A i : OpenIn(Held(wal'), i) <=> OpenIn(Held(wal), i)
  BY <1>1, <1>3, <1>5
<1>7. TailSafe(wal', content, truth)
  BY <1>3, <1>5 DEF TailSafe, ClosedStages, RollbackStages, IsImage
<1>8. NoneOpen(Held(wal)) => Settled(wal')
  BY <1>3, <1>5, <1>6 DEF NoneOpen, Settled
<1>. QED
  BY <1>3, <1>5, <1>6, <1>7, <1>8

LEMMA CrashSane ==
    ASSUME UniqueIds, OneHost, IInv, QInv, NEW p \in Procs, Crash(p), Sheltered'
    PROVE  Sane'
<1>1. /\ crashes' = crashes + 1 /\ live' = live \ {p}
      /\ UNCHANGED <<content, commanded, faults>>
  BY DEF Crash
<1>2. Sheltered
  BY <1>1, ShelterKept
<1>3. /\ Smooth /\ (Recoverable(wal) => Logical) /\ wal \in Wals /\ crashes \in Nat
      /\ ~RollingBack
  BY <1>2, SaneParts
<1>4. ~commanded /\ crashes' # 0
  <2>1. crashes' # 0
    BY <1>1, <1>3
  <2>. QED
    BY <1>1, <2>1 DEF Sheltered
<1>5. op # "execute" /\ (Ready' => Ready)
  BY <1>1, <1>3, <1>4 DEF Smooth, Ready
<1>6. CASE holder # p
  <2>1. UNCHANGED <<wal, outcome, acked, truth, holder, op, pc, exec, at, saved, tx, script, todo, ok, bad>>
    BY <1>6 DEF Crash, ghosts, control, locals
  <2>2. Smooth'
    BY <1>1, <1>3, <1>6, <2>1 DEF Smooth, Applying, Recovery, RollingBack
  <2>3. ASSUME Recoverable(wal') PROVE Logical'
    <3>1. Logical
      BY <1>3, <2>1, <2>3
    <3>2. Unlogged'
      BY <2>1, <3>1 DEF Logical, Unlogged, Unused
    <3>3. OnTop' /\ Restored'
      BY <1>1, <2>1, <3>1 DEF Logical, OnTop, Restored, Applying, Id, Target, Recovery, RollingBack
    <3>4. Activating' /\ (Applying <=> Applying')
      BY <2>1, <3>1 DEF Logical, Activating, Applying
    <3>. QED
      BY <1>1, <1>5, <2>1, <3>1, <3>2, <3>3, <3>4 DEF Logical
  <2>. QED
    BY <2>2, <2>3 DEF Sane
<1>7. CASE holder = p
  <2>1. /\ \/ wal' = wal /\ IF CommitLanded THEN Ack ELSE UNCHANGED <<acked, truth>>
           \/ \E r \in Appending, cut \in Cuts \ {"nothing"} :
                /\ wal' = Write(IF pc = "complete" THEN Repaired(wal) ELSE wal, r, cut)
                /\ IF r.stage = "Commit" /\ cut # "part" THEN Ack ELSE UNCHANGED <<acked, truth>>
        /\ outcome' = [e \in Execs |-> IF outcome[e] = "running" THEN "lost" ELSE outcome[e]]
        /\ Release
    BY <1>7 DEF Crash, ghosts
  <2>2. /\ pc' \in PcStages \ (TxStages \cup {"undo"}) /\ ok' /\ ~bad' /\ op' = "none"
        /\ pc' \notin {"inspect", "reconcile"} /\ Activating'
        /\ \A e \in Execs : Unused(e)' => outcome'[e] = "new"
    BY <2>1, Released
  <2>3. \A e \in Execs : Unused(e)' => Unused(e) /\ outcome[e] = "new"
    BY <2>1, <2>2 DEF Unused
  <2>4. Applying => ~Ready'
    BY <1>1, <1>3, <1>5, <1>7, HostLost
  <2> DEFINE Good == /\ Sound(Held(wal'), content', truth') /\ TailSafe(wal', content', truth')
                     /\ Unlogged' /\ (Ready' => Settled(wal'))
  <2>5. ASSUME Recoverable(wal'), wal' = wal, IF CommitLanded THEN Ack ELSE UNCHANGED <<acked, truth>>
        PROVE  Good
    <3>1. Logical
      BY <1>3, <2>5
    <3>2. truth' = truth
      BY <1>3, <2>5 DEF CommitLanded, RollingBack
    <3>3. Ready' => Settled(wal)
      BY <1>5, <2>4, <3>1 DEF Logical
    <3>4. Unlogged'
      BY <2>3, <2>5, <3>1, UnloggedKept DEF Logical
    <3>. QED
      BY <1>1, <2>5, <3>1, <3>2, <3>3, <3>4 DEF Logical
  <2>6. ASSUME Recoverable(wal'), NEW r \in Appending, NEW cut \in Cuts \ {"nothing"},
               wal' = Write(IF pc = "complete" THEN Repaired(wal) ELSE wal, r, cut),
               IF r.stage = "Commit" /\ cut # "part" THEN Ack ELSE UNCHANGED <<acked, truth>>
        PROVE  Good
    <3>1. r \in RecordLines /\ (r.stage = "Commit" => pc = "commit")
      BY AppendingFacts
    <3>2. Logical /\ Unlogged
      <4>1. Repaired(wal) \in Wals /\ (Recoverable(Repaired(wal)) => Recoverable(wal))
        BY <1>3, HeldRepaired
      <4>2. Recoverable(wal)
        BY <1>3, <2>6, <3>1, <4>1, HeldWritten
      <4>. QED
        BY <1>3, <4>2 DEF Logical
    <3>3. CASE pc \in {"begin", "image", "written", "commit"}
      <4>1. r = NextRecord /\ wal' = Write(wal, r, cut) /\ Applying
        BY <2>6, <3>3 DEF Appending, Applying, TxStages
      <4>2. /\ Sound(Held(wal'), content', truth') /\ TailSafe(wal', content', truth')
            /\ \A l \in Held(wal') : l \in Held(wal) \/ l = r
        BY <1>1, <1>2, <2>6, <3>2, <3>3, <4>1, CutExecution
      <4>3. r.tx = Id /\ exec \in Execs /\ outcome[exec] = "running"
        BY <3>3, <4>1, NextRecordIs, Parts DEF Staged
      <4>4. \A e \in Execs : Unused(e)' => IdOf[e] # r.tx
        BY <2>3, <4>3, OwnRecord
      <4>5. Unlogged'
        BY <2>3, <3>2, <4>2, <4>4, UnloggedKept
      <4>. QED
        BY <2>4, <4>1, <4>2, <4>5
    <3>4. CASE pc \notin {"begin", "image", "written", "commit"} /\ Marking
      <4>1. r = Current.mark /\ wal' = Write(wal, r, cut) /\ pc = "undo" /\ truth' = truth
        BY <2>6, <3>1, <3>4 DEF Appending, Marking
      <4>2. /\ Sound(Held(wal'), content', truth') /\ TailSafe(wal', content', truth')
            /\ \A l \in Held(wal') : l \in Held(wal) \/ l = r
            /\ ~NoneOpen(Held(wal)) /\ \A e \in Execs : Unused(e) => IdOf[e] # r.tx
        BY <1>1, <1>2, <2>6, <3>2, <3>4, <4>1, CutMark
      <4>3. ~Ready'
        BY <1>5, <3>2, <4>1, <4>2 DEF Logical, Applying, TxStages, Settled
      <4>4. Unlogged'
        BY <2>3, <3>2, <4>2, UnloggedKept
      <4>. QED
        BY <4>2, <4>3, <4>4
    <3>5. CASE pc \notin {"begin", "image", "written", "commit"} /\ ~Marking
      <4>1. /\ pc = "complete" /\ Completable(Repaired(wal)) /\ r = Marker(tx, "ReplayConsumed")
        BY <3>5 DEF Appending
      <4>2. wal' = Write(Repaired(wal), r, cut) /\ truth' = truth
        BY <2>6, <3>1, <4>1
      <4>3. /\ Sound(Held(wal'), content', truth') /\ TailSafe(wal', content', truth')
            /\ \A l \in Held(wal') : l \in Held(wal) \/ l = r
            /\ \A e \in Execs : Unused(e) => IdOf[e] # r.tx
            /\ NoneOpen(Held(wal)) => Settled(wal')
        BY <1>1, <1>2, <2>6, <3>2, <4>1, <4>2, CutCompletion
      <4>4. Ready' => Settled(wal')
        BY <1>5, <3>2, <4>1, <4>3 DEF Logical, Applying, TxStages, Settled
      <4>5. Unlogged'
        BY <2>3, <3>2, <4>3, UnloggedKept
      <4>. QED
        BY <4>3, <4>4, <4>5
    <3>. QED
      BY <3>3, <3>4, <3>5
  <2>7. Recoverable(wal') => Good
    <3> HIDE DEF Good
    <3>. QED
      BY <2>1, <2>5, <2>6
  <2>. QED
    BY <2>2, <2>7, OffSane
<1>. QED
  BY <1>6, <1>7

-----------------------------------------------------------------------------
(***************************************************************************)
(* The theorems.                                                           *)
(***************************************************************************)

\* A write that fails ends the shelter; without one there is no rollback, and no mark is
\* skipped.
LEMMA FailureSane ==
    ASSUME IInv, QInv, Failure \/ SkipMark \/ RolledBack, Sheltered'
    PROVE  Sane'
<1>1. ~Fault
  BY FaultFacts, Parts DEF Sheltered
<1>2. CASE Failure
  <2>1. LogCompletionFails
    BY <1>1, <1>2 DEF Failure, LogBeginFails, LogBeforeImageFails, LogWriteAppliedFails,
       LogCommitFails, ApplyWriteFails, RestoreFails, LogMarkFails, RepairFails,
       ConsumeReplayFails, AppendFails
  <2>. QED
    BY <2>1, CompletionFailsSane
<1>3. CASE SkipMark \/ RolledBack
  <2>1. UNCHANGED <<commanded, crashes, faults>>
    BY <1>3 DEF SkipMark, RolledBack, bounds
  <2>2. Sheltered
    BY <2>1, ShelterKept
  <2>3. ok /\ ~RollingBack
    BY <2>2, SaneParts DEF Smooth
  <2>. QED
    BY <1>3, <2>3 DEF SkipMark, RolledBack, RollingBack
<1>. QED
  BY <1>2, <1>3

LEMMA InitSane == Init => QInv
<1> SUFFICES ASSUME Init PROVE Sane
  BY DEF QInv
<1>1. /\ content = InitialContent /\ truth = InitialContent /\ wal = EmptyWal
      /\ op = "none" /\ pc = "idle" /\ ok /\ ~bad /\ exec = NoExec
  BY DEF Init
<1>2. Held(wal) = {} /\ wal.ended
  BY <1>1 DEF Held, EmptyWal, Range
<1>3. NoneOpen(Held(wal))
  BY <1>2 DEF NoneOpen, OpenIn
<1>4. ~Applying /\ ~Recovery
  BY <1>1 DEF Applying, TxStages, Recovery
<1>5. Smooth
  BY <1>1, <1>4 DEF Smooth
<1>6. Sound(Held(wal), content, truth)
  BY <1>1, <1>2, <1>3 DEF Sound, NoneOpen
<1>7. TailSafe(wal, content, truth) /\ Settled(wal) /\ Unlogged
  BY <1>2, <1>3 DEF TailSafe, Settled, Unlogged
<1>8. OnTop /\ Restored /\ Activating
  BY <1>1, <1>4 DEF OnTop, Restored, Activating
<1>. QED
  BY <1>5, <1>6, <1>7, <1>8 DEF Sane, Logical

LEMMA NextSane ==
    ASSUME UniqueIds, OneHost, IInv, QInv, [Next]_vars
    PROVE  QInv'
<1> SUFFICES ASSUME Sheltered' PROVE Sane'
  BY DEF QInv
<1>1. ASSUME NEW p \in Procs, NEW e \in Execs,
             StartCommand(p, e) \/ StartCommit(p, e) \/ LockTimeout(p, e)
      PROVE  Sane'
  BY <1>1, StartSane, LockTimeoutSane DEF StartCommand, StartCommit
<1>2. ASSUME NEW p \in Procs,
             StartRecovery(p) \/ StartActivation(p) \/ Compact(p) \/ Crash(p)
      PROVE  Sane'
  BY <1>2, ActivationsStartSane, CompactSane, CrashSane
<1>3. CASE HolderStep
  BY <1>3, CaptureSane, BlockedSane, LogSane, ApplyWriteSane, LogCommitSane, RestoreSane,
     MarkSane, FailureSane, RepairSane, ReadWalSane, RecoveredSane, InspectSane, CompletionSane
  DEF HolderStep
<1>4. CASE Failure
  BY <1>4, FailureSane
<1>5. CASE UNCHANGED vars
  <2>1. UNCHANGED <<content, wal, consumed, live, holder, op, pc, exec, at, saved, tx, script, todo, ok, bad,
                    outcome, acked, truth, commanded, crashes, faults>>
    BY <1>5 DEF vars, files, control, locals, ghosts, bounds
  <2>2. Sane
    BY <2>1 DEF QInv, Sheltered
  <2>3. Smooth'
    BY <2>1, <2>2 DEF Sane, Smooth, Applying, Recovery, RollingBack
  <2>4. Logical => Logical'
    BY <2>1 DEF Logical, Unlogged, Unused, OnTop, Restored, Activating, Ready, Applying, Recovery,
       RollingBack, Id, Target
  <2>. QED
    BY <2>1, <2>2, <2>3, <2>4 DEF Sane
<1>. QED
  BY <1>1, <1>2, <1>3, <1>4, <1>5 DEF Next

LEMMA Sanity ==
    ASSUME UniqueIds, OneHost
    PROVE  Spec => []QInv
<1>1. IInv /\ QInv /\ [Next]_vars => QInv'
  BY NextSane
<1>. QED
  BY <1>1, InitSane, Invariance, PTL DEF Spec

\* All or nothing, for any number of deaths: when nobody holds the effect lock and the log
\* can be read and holds no interrupted transaction, the targets are what exactly the
\* committed executions left. It needs that executions have ids of their own, and that at
\* most one process is a host that commits: with two, one may start on what the other left
\* when it died.
THEOREM EffectsAreAllOrNothing == UniqueIds /\ OneHost => (Spec => []QuietIsCommitted)
<1> SUFFICES ASSUME UniqueIds, OneHost PROVE Spec => []QuietIsCommitted
  OBVIOUS
<1>1. IInv /\ QInv => QuietIsCommitted
  <2> SUFFICES ASSUME IInv, QInv, Sheltered, holder = NoProc, Recoverable(wal),
                      Incomplete(RecordsOf(wal)) = <<>>
               PROVE  content = truth
    BY DEF QuietIsCommitted
  <2> DEFINE rs == RecordsOf(wal)
  <2>1. /\ Logical /\ content \in [Files -> Values] /\ truth \in [Files -> Values] /\ wal \in Wals
        /\ \A l \in Held(wal) : l.tx \in TxIds
    BY SaneParts
  <2>2. rs \in Seq(RecordLines) /\ Range(rs) = Held(wal)
    BY <2>1, ReadsHeld
  <2>3. Sound(Held(wal), content, truth)
    BY <2>1 DEF Logical
  <2>4. Incomplete(rs) = <<>>
    OBVIOUS
  <2> HIDE DEF rs
  <2>5. NoneOpen(Held(wal))
    <3>1. \A i, j \in TxIds : OpenIn(Range(rs), i) /\ OpenIn(Range(rs), j) => i = j
      BY <2>2, <2>3 DEF Sound
    <3>2. \A i : <<i>> # <<>>
      OBVIOUS
    <3>. QED
      BY <2>2, <2>4, <3>1, <3>2, IncompleteOne
  <2>. QED
    BY <2>1, <2>3, <2>5, SoundNone
<1>. QED
  BY <1>1, Sanity, Invariance, PTL

\* recover_interrupted_effects puts back only what the interrupted execution had written:
\* a target that is as the committed executions left it is not changed, whatever died
\* before, under the same conditions.
THEOREM RecoveryIsSafe == UniqueIds /\ OneHost => (Spec => RecoveryKeepsCommitted)
<1> SUFFICES ASSUME UniqueIds, OneHost PROVE Spec => RecoveryKeepsCommitted
  OBVIOUS
<1> DEFINE A == \A f \in Files :
                   Sheltered /\ op \in {"recover", "activate"} /\ content[f] = truth[f]
                      => content'[f] = content[f]
<1>1. IInv /\ QInv /\ [Next]_vars => [A]_vars
  <2> SUFFICES ASSUME IInv, QInv, Next, NEW f \in Files, Sheltered,
                      op \in {"recover", "activate"}, content[f] = truth[f]
               PROVE  content'[f] = content[f]
    OBVIOUS
  <2>1. Smooth /\ content \in [Files -> Values] /\ ~Applying /\ ~RollingBack
    BY SaneParts, Parts DEF Staged
  <2>2. pc \notin {"capture", "begin", "image", "write", "written", "commit"}
    BY <2>1 DEF Applying, TxStages
  <2>3. content' = content \/ Restore \/ RestoreFails
    BY <2>2 DEF Next, StartCommand, StartCommit, Start, LockTimeout, StartRecovery, StartActivation,
       Compact, Crash, HolderStep, Capture, Blocked, LogBegin, LogBeforeImage, ApplyWrite,
       LogWriteApplied, LogCommit, LogMark, SkipMark, RolledBack, Repair, ReadWal,
       ReadWalFails, Recovered, Inspect, Reconcile, Activated, ConsumeReplay, LogCompletion,
       Failure, LogBeginFails, LogBeforeImageFails, LogWriteAppliedFails, LogCommitFails,
       ApplyWriteFails, LogMarkFails, RepairFails, ConsumeReplayFails,
       LogCompletionFails, Log, files
  <2>4. ASSUME Restore \/ RestoreFails PROVE content'[f] = content[f]
    <3>1. /\ pc = "undo" /\ script # <<>> /\ IsRestore(Current)
          /\ content' \in {content, [content EXCEPT ![Current.file] = Current.to]}
      BY <2>4 DEF Restore, RestoreFails, Restoring, IsRestore
    <3>2. script \in Seq(Steps)
      BY Parts DEF LocalsTyped
    <3>3. Current = script[1] /\ 1 \in DOMAIN script
      BY <3>1, <3>2, TailFacts DEF Current
    <3>4. Current.to = truth[Current.file]
      BY <2>1, <3>1, <3>3 DEF Smooth, Recovery
    <3>. QED
      BY <2>1, <3>1, <3>4
  <2>. QED
    BY <2>3, <2>4
<1>. QED
  BY <1>1, Sanity, Invariance, PTL DEF Spec, RecoveryKeepsCommitted

=============================================================================
