--------------------------- MODULE ClaimStoreProofs ---------------------------
(***************************************************************************)
(* What ClaimStore promises of its files for any processes, claim ids,     *)
(* requests, rotation limit, and number of deaths and errors.              *)
(*                                                                         *)
(* The claims that a reader of the WAL computes are those that all records *)
(* ever appended add up to. It rests on three facts about a tail: cutting  *)
(* the torn end off changes nothing that is read (DecodeWhole), a whole    *)
(* record appended to what was decoded is the last one to be read, and a   *)
(* torn one is not read (DecodeAppend); and on the fold: one record more   *)
(* is one ApplyRecord more (ProjectAppend). Whoever holds the directory    *)
(* lock, and however many processes believe they do, does not matter.      *)
(*                                                                         *)
(* As long as no reclaim has taken the lock file of a process that runs    *)
(* (~spent.usurped), which with two processes, or no death, never happens  *)
(* and with three can, whoever works has the lock (Held), and what it has  *)
(* decided is still what it would decide when it appends its record        *)
(* (Pending). So no two claims that hold overlap (Disjoint), and from      *)
(* that: a claim is effective, authority is not stolen, and a handoff has  *)
(* its evidence.                                                           *)
(*                                                                         *)
(* The fold is FoldLeft of the community modules; what it does with one    *)
(* more record is proved by induction over the natural numbers, in the     *)
(* form that has a set for its parameter (NatSetInduction).                *)
(***************************************************************************)
EXTENDS ClaimStore, SequenceTheorems, FiniteSetTheorems, WellFoundedInduction, TLAPS

Operations == {"acquire", "heartbeat", "release", "handoff", "reconcile"}

Statuses ==
    Open \cup {"none", "released", "handoff_required", "handoff_recorded", "expired"}

Claims ==
    [agent : Agents \cup {"nobody"}, paths : SUBSET UNION {r.paths : r \in Requests},
     ttl : Nat, beat : Nat, expires : Nat, status : Statuses]

Records == [operation : Operations, id : Ids, claim : Claims]

Lines == Records \cup {Torn}

Labels ==
    {"idle", "create", "inspect", "reclaim", "sign", "load", "artifact", "append",
     "save", "drop", "unlink", "fail", "fail_unlink", "dead", "exited"}

TypeOK ==
    /\ clock \in Nat
    /\ lock \in [owner : Procs \cup {"nobody"}, signed : BOOLEAN, made : Nat]
    /\ proc \in [Procs -> [pc : Labels, now : Nat, tries : Nat, todo : Seq(Records)]]
    /\ wal \in [snapshot : [Ids -> Claims], tail : Seq(Lines),
                generation : BOOLEAN, residue : BOOLEAN]
    /\ table \in [Ids -> Claims]
    /\ cache \in [Ids -> Claims]
    /\ artifacts \in [ArtifactRefs -> Claims]
    /\ spent \in [commands : Nat, crashes : Nat, faults : Nat, usurped : BOOLEAN]

\* A process that is about to write has something to write.
Working == \A p \in Procs : proc[p].pc \in {"artifact", "append", "save"} => proc[p].todo # <<>>

\* Also a store that no command can read has lost nothing.
Replayed == Project(wal.snapshot, DecodePrefix(wal.tail)) = table

IInv == TypeOK /\ Working /\ Replayed

-----------------------------------------------------------------------------
(***************************************************************************)
(* The fold.                                                               *)
(***************************************************************************)

\* Induction over the natural numbers, for a set in place of a predicate.
LEMMA NatSetInduction ==
    ASSUME NEW S, 0 \in S, \A n \in Nat : n \in S => n + 1 \in S
    PROVE  \A n \in Nat : n \in S
<1> SUFFICES ASSUME NEW m \in Nat, m \notin S PROVE FALSE
  OBVIOUS
<1> DEFINE T == Nat \ S
           R == {ss \in Nat \X Nat : ss[1] < ss[2]}
<1>1. T \subseteq Nat /\ T # {}
  OBVIOUS
<1>2. IsWellFoundedOn(R, Nat)
  BY NatLessThanWellFounded DEF OpToRel
<1>3. PICK x \in T : \A y \in T : ~ (<<y, x>> \in R)
  <2> HIDE DEF R, T
  <2>. QED
    BY <1>1, <1>2, WFMin
<1>4. x \in Nat /\ x # 0 /\ \A y \in T : ~ (y < x)
  BY <1>3
<1>5. x - 1 \in Nat /\ x - 1 < x /\ (x - 1) + 1 = x
  BY <1>4
<1>6. x - 1 \in S
  BY <1>4, <1>5
<1>. QED
  BY <1>5, <1>6

\* g is the function, recursive over sets of positions, that FoldLeft chooses.
Folding(g, S, b, s) ==
    g = [x \in SUBSET S |-> IF x = {} THEN b
                            ELSE ApplyRecord(g[x \ {Max(x)}], s[Max(x)])]

\* Project is the value, at all positions, of such a function.
LEMMA ProjectIs ==
    ASSUME NEW b, NEW s
    PROVE  Project(b, s) = (CHOOSE g : Folding(g, DOMAIN s, b, s))[DOMAIN s]
  BY DEF Project, FoldLeft, MapThenFoldSet, Folding

\* The last position of a set of positions.
LEMMA MaxIs ==
    ASSUME NEW m \in Nat, NEW x \in SUBSET (1..(m + 1)), m + 1 \in x
    PROVE  Max(x) = m + 1
<1>1. \A y \in x : y \in Int /\ m + 1 >= y
  OBVIOUS
<1>2. \A y \in x : (\A z \in x : y >= z) => y = m + 1
  BY <1>1
<1>3. Max(x) \in x /\ \A z \in x : Max(x) >= z
  BY <1>1 DEF Max
<1>. QED
  BY <1>2, <1>3

\* There is such a function, so the choice is one.
LEMMA FoldingExists ==
    ASSUME NEW b, NEW s
    PROVE  \A m \in Nat : \E g : Folding(g, 1..m, b, s)
<1> DEFINE S == {m \in Nat : \E g : Folding(g, 1..m, b, s)}
<1>1. 0 \in S
  <2> DEFINE h == [x \in SUBSET (1..0) |-> b]
  <2>1. \A x \in SUBSET (1..0) : x = {}
    OBVIOUS
  <2>2. Folding(h, 1..0, b, s)
    BY <2>1 DEF Folding
  <2>. QED
    BY <2>2
<1>2. ASSUME NEW m \in Nat, m \in S PROVE m + 1 \in S
  <2>1. PICK g : Folding(g, 1..m, b, s)
    BY <1>2
  <2> DEFINE h == [x \in SUBSET (1..(m + 1)) |->
                     IF m + 1 \in x THEN ApplyRecord(g[x \ {m + 1}], s[m + 1]) ELSE g[x]]
             k == [x \in SUBSET (1..(m + 1)) |->
                     IF x = {} THEN b ELSE ApplyRecord(h[x \ {Max(x)}], s[Max(x)])]
  <2>2. \A x \in SUBSET (1..m) : g[x] = IF x = {} THEN b
                                        ELSE ApplyRecord(g[x \ {Max(x)}], s[Max(x)])
    BY <2>1 DEF Folding
  <2>3. ASSUME NEW x \in SUBSET (1..(m + 1)), m + 1 \notin x PROVE x \in SUBSET (1..m)
    BY <2>3
  <2>4. ASSUME NEW x \in SUBSET (1..(m + 1)) PROVE h[x] = k[x]
    <3>1. CASE m + 1 \in x
      <4>1. /\ Max(x) = m + 1 /\ x # {}
            /\ x \ {m + 1} \in SUBSET (1..(m + 1)) /\ m + 1 \notin x \ {m + 1}
        BY <3>1, MaxIs
      <4>2. h[x \ {m + 1}] = g[x \ {m + 1}]
        BY <4>1
      <4>. QED
        BY <3>1, <4>1, <4>2
    <3>2. CASE m + 1 \notin x
      <4>1. x \in SUBSET (1..m) /\ h[x] = g[x]
        BY <2>3, <3>2
      <4>2. x \ {Max(x)} \in SUBSET (1..(m + 1)) /\ m + 1 \notin x \ {Max(x)}
        BY <3>2
      <4>3. h[x \ {Max(x)}] = g[x \ {Max(x)}]
        BY <4>2
      <4>. QED
        BY <2>2, <4>1, <4>3
    <3>. QED
      BY <3>1, <3>2
  <2>5. h = k
    BY <2>4
  <2>6. Folding(h, 1..(m + 1), b, s)
    BY <2>5 DEF Folding
  <2>. QED
    BY <2>6
<1> HIDE DEF S
<1>3. \A m \in Nat : m \in S
  BY <1>1, <1>2, NatSetInduction
<1>. QED
  BY <1>3 DEF S

\* Its value grows by one record at a time.
LEMMA FoldingStep ==
    ASSUME NEW b, NEW s, NEW N \in Nat, NEW m \in Nat, m + 1 <= N, NEW g, Folding(g, 1..N, b, s)
    PROVE  g[1..(m + 1)] = ApplyRecord(g[1..m], s[m + 1])
<1>1. /\ 1..(m + 1) \in SUBSET (1..N) /\ 1..(m + 1) # {}
      /\ m + 1 \in 1..(m + 1) /\ (1..(m + 1)) \ {m + 1} = 1..m
      /\ 1..(m + 1) \in SUBSET (1..(m + 1))
  OBVIOUS
<1>2. Max(1..(m + 1)) = m + 1
  BY <1>1, MaxIs
<1>3. \A x \in SUBSET (1..N) : x # {} => g[x] = ApplyRecord(g[x \ {Max(x)}], s[Max(x)])
  BY DEF Folding
<1>4. g[1..(m + 1)] = ApplyRecord(g[(1..(m + 1)) \ {Max(1..(m + 1))}], s[Max(1..(m + 1))])
  BY <1>1, <1>3
<1>. QED
  BY <1>1, <1>2, <1>4

\* The projection of no records, and of one record more.
LEMMA ProjectEmpty ==
    ASSUME NEW b
    PROVE  Project(b, <<>>) = b
<1>1. DOMAIN <<>> = {} /\ DOMAIN <<>> = 1..0
  OBVIOUS
<1> DEFINE g == CHOOSE g : Folding(g, 1..0, b, <<>>)
<1>2. Folding(g, 1..0, b, <<>>)
  BY FoldingExists
<1>3. Project(b, <<>>) = g[1..0]
  BY <1>1, ProjectIs
<1>4. g[{}] = b
  BY <1>2 DEF Folding
<1>. QED
  BY <1>1, <1>3, <1>4

LEMMA ProjectAppend ==
    ASSUME NEW T, NEW b, NEW s \in Seq(T), NEW e \in T
    PROVE  Project(b, Append(s, e)) = ApplyRecord(Project(b, s), e)
<1> DEFINE n == Len(s)
           t == Append(s, e)
           g == CHOOSE g : Folding(g, 1..n, b, s)
           h == CHOOSE h : Folding(h, 1..(n + 1), b, t)
<1>1. /\ n \in Nat /\ DOMAIN s = 1..n /\ DOMAIN t = 1..(n + 1)
      /\ \A i \in 1..n : t[i] = s[i]
      /\ t[n + 1] = e
  BY AppendProperties, LenProperties
<1>2. Folding(g, 1..n, b, s)
  <2>1. \E x : Folding(x, 1..n, b, s)
    BY <1>1, FoldingExists
  <2>. QED
    BY <2>1
<1>3. Folding(h, 1..(n + 1), b, t)
  <2>1. n + 1 \in Nat
    BY <1>1
  <2>2. \E x : Folding(x, 1..(n + 1), b, t)
    BY <2>1, FoldingExists
  <2>. QED
    BY <2>2
<1>4. Project(b, s) = g[1..n] /\ Project(b, t) = h[1..(n + 1)]
  BY <1>1, ProjectIs
<1> HIDE DEF n, t, g, h
<1>5. g[1..n] = h[1..n]
  <2> DEFINE S == {m \in Nat : m <= n => g[1..m] = h[1..m]}
  <2>1. 0 \in S
    <3>1. 1..0 = {} /\ {} \in SUBSET (1..n) /\ {} \in SUBSET (1..(n + 1))
      OBVIOUS
    <3>2. g[{}] = b /\ h[{}] = b
      BY <1>2, <1>3, <3>1 DEF Folding
    <3>. QED
      BY <3>1, <3>2
  <2>2. ASSUME NEW m \in Nat, m \in S, m + 1 <= n PROVE g[1..(m + 1)] = h[1..(m + 1)]
    <3>1. m + 1 <= n /\ m + 1 <= n + 1 /\ n + 1 \in Nat /\ m + 1 \in 1..n /\ m <= n
      BY <1>1, <2>2
    <3>2. s[m + 1] = t[m + 1] /\ g[1..m] = h[1..m]
      BY <1>1, <2>2, <3>1
    <3>3. g[1..(m + 1)] = ApplyRecord(g[1..m], s[m + 1])
      BY <1>1, <1>2, <3>1, FoldingStep
    <3>4. h[1..(m + 1)] = ApplyRecord(h[1..m], t[m + 1])
      <4>1. \A N \in Nat : m + 1 <= N /\ Folding(h, 1..N, b, t) =>
                            h[1..(m + 1)] = ApplyRecord(h[1..m], t[m + 1])
        BY FoldingStep
      <4>. QED
        BY <1>3, <3>1, <4>1
    <3>. QED
      BY <3>2, <3>3, <3>4
  <2>3. \A m \in Nat : m \in S => m + 1 \in S
    BY <2>2
  <2> HIDE DEF S
  <2>4. \A m \in Nat : m \in S
    BY <2>1, <2>3, NatSetInduction
  <2>. QED
    BY <1>1, <2>4 DEF S
<1>6. h[1..(n + 1)] = ApplyRecord(h[1..n], t[n + 1])
  <2>1. n + 1 \in Nat /\ n + 1 <= n + 1
    BY <1>1
  <2>. QED
    BY <1>1, <1>3, <2>1, FoldingStep
<1>. QED
  BY <1>1, <1>4, <1>5, <1>6 DEF t

-----------------------------------------------------------------------------
(***************************************************************************)
(* The readable prefix of a tail.                                          *)
(***************************************************************************)

\* The first n lines of t are records, and all of t, or all before a torn one.
Readable(t, n) ==
    /\ \A i \in 1 .. n : ~IsTorn(t[i])
    /\ n = Len(t) \/ IsTorn(t[n + 1])

LEMMA LineFacts ==
    /\ \A r \in Records : r \in Lines /\ ~IsTorn(r)
    /\ \A r \in Lines : ~IsTorn(r) => r \in Records
    /\ Torn \in Lines /\ IsTorn(Torn)
  BY DEF Records, Lines, Torn, IsTorn, Operations

LEMMA PrefixExists ==
    ASSUME NEW t \in Seq(Lines)
    PROVE  \E n \in 0 .. Len(t) : Readable(t, n)
<1> SUFFICES ASSUME \A n \in 0 .. Len(t) : ~Readable(t, n) PROVE FALSE
  OBVIOUS
<1> DEFINE S == {n \in Nat : n <= Len(t) => \A i \in 1 .. n : ~IsTorn(t[i])}
<1>1. Len(t) \in Nat
  OBVIOUS
<1>2. 0 \in S
  OBVIOUS
<1>3. ASSUME NEW n \in Nat, n \in S PROVE n + 1 \in S
  <2>1. CASE n + 1 <= Len(t)
    <3>1. n \in 0 .. Len(t) /\ n # Len(t) /\ n <= Len(t)
      BY <1>1, <2>1
    <3>2. \A i \in 1 .. n : ~IsTorn(t[i])
      BY <1>3, <3>1
    <3>3. ~IsTorn(t[n + 1])
      BY <3>1, <3>2 DEF Readable
    <3>4. \A i \in 1 .. (n + 1) : i \in 1 .. n \/ i = n + 1
      OBVIOUS
    <3>. QED
      BY <3>2, <3>3, <3>4
  <2>2. CASE ~(n + 1 <= Len(t))
    BY <2>2
  <2>. QED
    BY <2>1, <2>2
<1> HIDE DEF S
<1>4. Len(t) \in S
  BY <1>1, <1>2, <1>3, NatSetInduction
<1>5. Readable(t, Len(t)) /\ Len(t) \in 0 .. Len(t)
  BY <1>1, <1>4 DEF S, Readable
<1>. QED
  BY <1>5

LEMMA DecodeIs ==
    ASSUME NEW t \in Seq(Lines), NEW n \in 0 .. Len(t), Readable(t, n)
    PROVE  DecodePrefix(t) = SubSeq(t, 1, n)
<1> DEFINE m == CHOOSE k \in 0 .. Len(t) : Readable(t, k)
<1>1. m \in 0 .. Len(t) /\ Readable(t, m)
  OBVIOUS
<1>2. DecodePrefix(t) = SubSeq(t, 1, m)
  BY DEF DecodePrefix, Readable
<1> HIDE DEF m
<1>3. Len(t) \in Nat
  OBVIOUS
<1>4. ~(n < m)
  <2>1. n < m => n + 1 \in 1 .. m /\ n # Len(t)
    BY <1>1, <1>3
  <2>. QED
    BY <1>1, <2>1 DEF Readable
<1>5. ~(m < n)
  <2>1. m < n => m + 1 \in 1 .. n /\ m # Len(t)
    BY <1>1, <1>3
  <2>. QED
    BY <1>1, <2>1 DEF Readable
<1>6. m = n
  BY <1>1, <1>3, <1>4, <1>5
<1>. QED
  BY <1>2, <1>6

LEMMA DecodeTyped ==
    ASSUME NEW t \in Seq(Lines)
    PROVE  DecodePrefix(t) \in Seq(Records)
<1>1. PICK n \in 0 .. Len(t) : Readable(t, n)
  BY PrefixExists
<1>2. DecodePrefix(t) = SubSeq(t, 1, n)
  BY <1>1, DecodeIs
<1>3. n \in Nat /\ n <= Len(t) /\ Len(t) \in Nat /\ DOMAIN t = 1 .. Len(t)
  OBVIOUS
<1>4. \A i \in 1 .. n : t[i] \in Records
  <2> SUFFICES ASSUME NEW i \in 1 .. n PROVE t[i] \in Records
    OBVIOUS
  <2>1. i \in 1 .. Len(t)
    BY <1>3
  <2>2. t[i] \in Lines
    BY <2>1
  <2>. QED
    BY <1>1, <2>2, LineFacts DEF Readable
<1>5. SubSeq(t, 1, n) = [i \in 1 .. n |-> t[i]]
  BY <1>3
<1>6. [i \in 1 .. n |-> t[i]] \in Seq(Records)
  BY <1>3, <1>4
<1>. QED
  BY <1>2, <1>5, <1>6

\* A tail without a torn record is read to its end.
LEMMA DecodeWhole ==
    ASSUME NEW w \in Seq(Records)
    PROVE  w \in Seq(Lines) /\ DecodePrefix(w) = w
<1>1. w \in Seq(Lines) /\ Len(w) \in Nat /\ Len(w) \in 0 .. Len(w)
  BY LineFacts
<1>2. Readable(w, Len(w))
  BY <1>1, LineFacts DEF Readable
<1>3. DecodePrefix(w) = SubSeq(w, 1, Len(w))
  BY <1>1, <1>2, DecodeIs
<1>4. SubSeq(w, 1, Len(w)) = w
  BY <1>1
<1>. QED
  BY <1>1, <1>3, <1>4

\* A whole record at the end is read, a torn one is not.
LEMMA DecodeAppend ==
    ASSUME NEW w \in Seq(Records)
    PROVE  /\ \A r \in Records : Append(w, r) \in Seq(Records)
           /\ Append(w, Torn) \in Seq(Lines)
           /\ DecodePrefix(Append(w, Torn)) = w
<1>1. \A r \in Records : Append(w, r) \in Seq(Records)
  OBVIOUS
<1> DEFINE t == Append(w, Torn)
<1>2. w \in Seq(Lines)
  BY DecodeWhole
<1>3. /\ t \in Seq(Lines) /\ Len(w) \in Nat /\ Len(t) = Len(w) + 1
      /\ t[Len(w) + 1] = Torn
      /\ \A i \in 1 .. Len(w) : t[i] = w[i]
  BY <1>2, LineFacts
<1> HIDE DEF t
<1>4. Len(w) \in 0 .. Len(t)
  BY <1>3
<1>5. \A i \in 1 .. Len(w) : ~IsTorn(t[i])
  BY <1>3, LineFacts
<1>6. Readable(t, Len(w))
  BY <1>3, <1>5, LineFacts DEF Readable
<1>7. DecodePrefix(t) = SubSeq(t, 1, Len(w))
  BY <1>3, <1>4, <1>6, DecodeIs
<1>8. SubSeq(t, 1, Len(w)) = w
  BY <1>2, <1>3
<1>. QED
  BY <1>1, <1>3, <1>7, <1>8 DEF t

-----------------------------------------------------------------------------
(***************************************************************************)
(* What the steps do to the WAL.                                           *)
(***************************************************************************)

Wals == [snapshot : [Ids -> Claims], tail : Seq(Lines),
         generation : BOOLEAN, residue : BOOLEAN]

\* The files of w add up to the claims in t.
AddsUp(w, t) ==
    /\ w \in Wals
    /\ Project(w.snapshot, DecodePrefix(w.tail)) = t

LEMMA RepairedAddsUp ==
    ASSUME AddsUp(wal, table)
    PROVE  AddsUp(Repaired, table) /\ Repaired.tail \in Seq(Records)
<1> DEFINE d == DecodePrefix(wal.tail)
<1>1. wal \in Wals /\ wal.tail \in Seq(Lines)
  BY DEF AddsUp, Wals
<1>2. d \in Seq(Records)
  BY <1>1, DecodeTyped
<1>3. d \in Seq(Lines) /\ DecodePrefix(d) = d
  BY <1>2, DecodeWhole
<1> HIDE DEF d
<1>4. /\ [wal EXCEPT !.tail = d] \in Wals
      /\ [wal EXCEPT !.tail = d].tail = d
      /\ [wal EXCEPT !.tail = d].snapshot = wal.snapshot
  BY <1>1, <1>3 DEF Wals
<1>5. Repaired = [wal EXCEPT !.tail = d]
  BY DEF Repaired, d
<1>6. Project(wal.snapshot, d) = table
  BY DEF AddsUp, d
<1>. QED
  BY <1>2, <1>3, <1>4, <1>5, <1>6 DEF AddsUp

LEMMA AppendedAddsUp ==
    ASSUME NEW w, NEW t, AddsUp(w, t), w.tail \in Seq(Records)
    PROVE  /\ AddsUp(Appended(w, Torn), t)
           /\ \A r \in Records : AddsUp(Appended(w, r), ApplyRecord(t, r))
<1>1. w \in Wals
  BY DEF AddsUp
<1>2. ASSUME NEW d \in Seq(Lines)
      PROVE  /\ [w EXCEPT !.tail = d] \in Wals
             /\ [w EXCEPT !.tail = d].tail = d
             /\ [w EXCEPT !.tail = d].snapshot = w.snapshot
  BY <1>1 DEF Wals
<1>3. DecodePrefix(w.tail) = w.tail /\ Project(w.snapshot, w.tail) = t
  BY DecodeWhole DEF AddsUp
<1>4. AddsUp(Appended(w, Torn), t)
  BY <1>2, <1>3, DecodeAppend DEF AddsUp, Appended
<1>5. ASSUME NEW r \in Records PROVE AddsUp(Appended(w, r), ApplyRecord(t, r))
  <2> DEFINE d == Append(w.tail, r)
  <2>1. d \in Seq(Records)
    BY DecodeAppend
  <2>2. d \in Seq(Lines) /\ DecodePrefix(d) = d
    BY <2>1, DecodeWhole
  <2>3. Project(w.snapshot, d) = ApplyRecord(t, r)
    BY <1>3, ProjectAppend
  <2> HIDE DEF d
  <2>4. Appended(w, r) = [w EXCEPT !.tail = d]
    BY DEF Appended, d
  <2>. QED
    BY <1>2, <2>2, <2>3, <2>4 DEF AddsUp
<1>. QED
  BY <1>4, <1>5

LEMMA RotatedAddsUp ==
    ASSUME NEW w, NEW t \in [Ids -> Claims], AddsUp(w, t)
    PROVE  /\ AddsUp(MaybeRotate(w), t)
           /\ AddsUp([w EXCEPT !.residue = TRUE], t)
<1>1. w \in Wals
  BY DEF AddsUp
<1>2. AddsUp([w EXCEPT !.residue = TRUE], t)
  BY <1>1 DEF AddsUp, Wals
<1>3. <<>> \in Seq(Records)
  OBVIOUS
<1>4. DecodePrefix(<<>>) = <<>> /\ <<>> \in Seq(Lines) /\ Project(t, <<>>) = t
  BY <1>3, DecodeWhole, ProjectEmpty
<1>5. Rotated(w) = [snapshot |-> t, tail |-> <<>>, generation |-> TRUE, residue |-> TRUE]
  BY DEF Rotated, AddsUp
<1>6. AddsUp(Rotated(w), t)
  BY <1>4, <1>5 DEF AddsUp, Wals
<1>. QED
  BY <1>2, <1>6 DEF MaybeRotate

LEMMA ApplyTyped ==
    ASSUME NEW t \in [Ids -> Claims], NEW r \in Records
    PROVE  ApplyRecord(t, r) \in [Ids -> Claims]
  BY DEF ApplyRecord, Records

-----------------------------------------------------------------------------
(***************************************************************************)
(* What the commands decide to write.                                      *)
(***************************************************************************)

LEMMA ClaimChanges ==
    ASSUME NEW c \in Claims, NEW now \in Nat
    PROVE  /\ Heartbeaten(c, now) \in Claims
           /\ Released(c) \in Claims
           /\ HandoffRecorded(c) \in Claims
           /\ Reconciled(c, now) \in Claims
<1>1. Heartbeaten(c, now) \in Claims
  <2>1. c.ttl \in Nat /\ now + c.ttl \in Nat /\ "active" \in Statuses
    BY DEF Claims, Statuses, Open
  <2>. QED
    BY <2>1 DEF Heartbeaten, Claims
<1>2. Released(c) \in Claims
  BY DEF Released, Claims, Statuses
<1>3. HandoffRecorded(c) \in Claims
  BY DEF HandoffRecorded, Claims, Statuses
<1>4. Reconciled(c, now) \in Claims
  <2>1. ReconciledStatus(c, now) \in Statuses
    BY DEF ReconciledStatus, Claims, Statuses, Open
  <2>. QED
    BY <2>1 DEF Reconciled, Claims
<1>. QED
  BY <1>1, <1>2, <1>3, <1>4

LEMMA AcquiredTyped ==
    ASSUME NEW a \in Agents, NEW q \in Requests, NEW now \in Nat
    PROVE  q.id \in Ids /\ Acquired(a, q, now) \in Claims
<1>1. q.id \in Ids /\ q.ttl \in Nat
  BY RequestsAssumption
<1>2. q.paths \in SUBSET UNION {r.paths : r \in Requests}
  OBVIOUS
<1>. QED
  BY <1>1, <1>2 DEF Acquired, Claims, Statuses, Open

LEMMA DecisionsTyped ==
    ASSUME TypeOK, NEW p \in Procs, NEW todo \in Decisions(p)
    PROVE  todo \in Seq(Records) /\ todo # <<>>
<1> DEFINE now == proc[p].now
           one(operation, id, claim) ==
             <<[operation |-> operation, id |-> id, claim |-> claim]>>
<1>1. now \in Nat /\ \A id \in Ids : table[id] \in Claims
  BY DEF TypeOK
<1>2. ASSUME NEW o \in Operations, NEW id \in Ids, NEW c \in Claims
      PROVE  one(o, id, c) \in Seq(Records) /\ one(o, id, c) # <<>>
  BY DEF Records
<1>3. \/ \E a \in Agents, q \in Requests : todo = one("acquire", q.id, Acquired(a, q, now))
      \/ \E id \in Ids : todo = one("heartbeat", id, Heartbeaten(table[id], now))
      \/ \E id \in Ids : todo = one("release", id, Released(table[id]))
      \/ \E id \in Ids : todo = one("handoff", id, HandoffRecorded(table[id]))
  <2> DEFINE A == {one("acquire", q.id, Acquired(a, q, now)) :
                     a \in Agents, q \in {r \in Requests : CanAcquire(table, r.id, r, now)}}
             H == {one("heartbeat", id, Heartbeaten(table[id], now)) :
                     id \in {i \in Ids : \E a \in Agents : CanHeartbeat(table[i], a, now)}}
             R == {one("release", id, Released(table[id])) :
                     id \in {i \in Ids : \E a \in Agents : CanRelease(table[i], a, now)}}
             O == {one("handoff", id, HandoffRecorded(table[id])) :
                     id \in {i \in Ids : CanRecordHandoff(table[i], now)}}
  <2>1. Decisions(p) = UNION {A, H, R, O}
    BY DEF Decisions
  <2>2. todo \in A \/ todo \in H \/ todo \in R \/ todo \in O
    <3> HIDE DEF A, H, R, O
    <3>. QED
      BY <2>1
  <2>. QED
    BY <2>2
<1>4. {"acquire", "heartbeat", "release", "handoff"} \subseteq Operations
  BY DEF Operations
<1> HIDE DEF now, one
<1>. QED
  BY <1>1, <1>2, <1>3, <1>4, ClaimChanges, AcquiredTyped

LEMMA DueIsSequence ==
    ASSUME NEW D \in SUBSET Ids
    PROVE  SetToSeq(D) \in Seq(D)
<1>1. IsFiniteSet(D)
  BY FS_Subset, RequestsAssumption
<1>2. Cardinality(D) \in Nat
  BY <1>1, FS_CardinalityType
<1>3. PICK n \in Nat : ExistsBijection(1 .. n, D)
  BY <1>1, FS_NatBijection
<1>4. Cardinality(D) = n
  BY <1>3, FS_CountingElements
<1>5. \E f \in [1 .. Cardinality(D) -> D] : IsInjective(f)
  BY <1>3, <1>4 DEF ExistsBijection, Bijection, Injection
<1>6. SetToSeq(D) \in [1 .. Cardinality(D) -> D]
  BY <1>5 DEF SetToSeq
<1>. QED
  BY <1>2, <1>6

LEMMA ReconcileTyped ==
    ASSUME TypeOK, NEW now \in Nat
    PROVE  ReconcileClaims(table, now) \in Seq(Records)
<1> DEFINE D == {id \in Ids : ReconciledStatus(table[id], now) # table[id].status}
           due == SetToSeq(D)
<1>1. due \in Seq(D)
  BY DueIsSequence
<1>2. ReconcileClaims(table, now) =
        [i \in DOMAIN due |-> [operation |-> "reconcile", id |-> due[i],
                               claim |-> Reconciled(table[due[i]], now)]]
  BY DEF ReconcileClaims
<1>3. D \subseteq Ids
  OBVIOUS
<1> HIDE DEF D, due
<1>4. DOMAIN due = 1 .. Len(due) /\ Len(due) \in Nat /\ \A i \in DOMAIN due : due[i] \in Ids
  BY <1>1, <1>3
<1>5. \A i \in DOMAIN due : table[due[i]] \in Claims
  BY <1>4 DEF TypeOK
<1>6. \A i \in DOMAIN due : [operation |-> "reconcile", id |-> due[i],
                             claim |-> Reconciled(table[due[i]], now)] \in Records
  BY <1>4, <1>5, ClaimChanges DEF Records, Operations
<1>. QED
  BY <1>2, <1>4, <1>6

-----------------------------------------------------------------------------
(***************************************************************************)
(* The steps.                                                              *)
(***************************************************************************)

Locks == [owner : Procs \cup {"nobody"}, signed : BOOLEAN, made : Nat]
Progress == [pc : Labels, now : Nat, tries : Nat, todo : Seq(Records)]
Spending == [commands : Nat, crashes : Nat, faults : Nat, usurped : BOOLEAN]

Busy == {"artifact", "append", "save"}

\* What every process leaves of the rest of the state.
RestTyped ==
    /\ clock \in Nat
    /\ lock \in Locks
    /\ cache \in [Ids -> Claims]
    /\ artifacts \in [ArtifactRefs -> Claims]
    /\ spent \in Spending

LEMMA IInvIs ==
    IInv <=> /\ RestTyped
             /\ proc \in [Procs -> Progress] /\ Working
             /\ table \in [Ids -> Claims] /\ AddsUp(wal, table)
  BY DEF IInv, TypeOK, RestTyped, Replayed, AddsUp, Wals, Locks, Progress, Spending

LEMMA IInvNext ==
    IInv' <=> /\ RestTyped'
              /\ proc' \in [Procs -> Progress] /\ Working'
              /\ table' \in [Ids -> Claims] /\ AddsUp(wal', table')
  BY DEF IInv, TypeOK, RestTyped, Replayed, AddsUp, Wals, Locks, Progress, Spending

\* Process p is now at x.
Becomes(p, x) ==
    /\ x \in Progress
    /\ x.pc \in Busy => x.todo # <<>>
    /\ proc' = [proc EXCEPT ![p] = x]

LEMMA ProgressKept ==
    ASSUME proc \in [Procs -> Progress], Working, NEW p \in Procs, NEW x, Becomes(p, x)
    PROVE  proc' \in [Procs -> Progress] /\ Working'
<1>1. \A q \in Procs : proc'[q] = IF q = p THEN x ELSE proc[q]
  BY DEF Becomes
<1>2. proc' \in [Procs -> Progress]
  BY DEF Becomes
<1>3. \A q \in Procs : proc'[q].pc \in Busy => proc'[q].todo # <<>>
  BY <1>1 DEF Becomes, Working, Busy
<1>. QED
  BY <1>2, <1>3 DEF Working, Busy

\* A step that leaves the WAL alone.
LEMMA StepKeeps ==
    ASSUME IInv, NEW p \in Procs, NEW x, Becomes(p, x), RestTyped', UNCHANGED <<wal, table>>
    PROVE  IInv'
<1>1. proc' \in [Procs -> Progress] /\ Working'
  BY ProgressKept, IInvIs
<1>2. table' \in [Ids -> Claims] /\ AddsUp(wal', table')
  BY IInvIs
<1>. QED
  BY <1>1, <1>2, IInvNext

\* A step that writes it.
LEMMA WalStepKeeps ==
    ASSUME IInv, NEW p \in Procs, NEW x, Becomes(p, x), RestTyped',
           table' \in [Ids -> Claims], AddsUp(wal', table')
    PROVE  IInv'
<1>1. proc' \in [Procs -> Progress] /\ Working'
  BY ProgressKept, IInvIs
<1>. QED
  BY <1>1, IInvNext

\* The usual ways to move on.
LEMMA Moves ==
    ASSUME IInv, NEW p \in Procs, NEW label \in Labels
    PROVE  /\ Return(p, label) => label \in Busy \/ Becomes(p, [Idle EXCEPT !.pc = label])
           /\ Goto(p, label) =>
                 (label \in Busy /\ proc[p].todo = <<>>) \/ Becomes(p, [proc[p] EXCEPT !.pc = label])
<1>1. proc[p] \in Progress /\ Idle \in Progress /\ proc \in [Procs -> Progress]
  BY IInvIs DEF Idle, Progress, Labels
<1>2. /\ [proc[p] EXCEPT !.pc = label] \in Progress
      /\ [proc[p] EXCEPT !.pc = label].pc = label
      /\ [proc[p] EXCEPT !.pc = label].todo = proc[p].todo
  BY <1>1 DEF Progress
<1>3. [Idle EXCEPT !.pc = label] \in Progress /\ [Idle EXCEPT !.pc = label].pc = label
  BY <1>1 DEF Progress
<1>. QED
  BY <1>1, <1>2, <1>3 DEF Return, Goto, Becomes

LEMMA FailsLabel ==
    ASSUME NEW p \in Procs
    PROVE  Fails(p) \in Labels \ Busy
  BY DEF Fails, Labels, Busy

LEMMA FaultTyped ==
    ASSUME spent \in Spending
    PROVE  Fault => spent' \in Spending
  BY DEF Fault, Spending

LEMMA RestKept ==
    ASSUME RestTyped
    PROVE  /\ clock \in Nat /\ lock \in Locks /\ NoLock \in Locks
           /\ cache \in [Ids -> Claims] /\ artifacts \in [ArtifactRefs -> Claims]
           /\ spent \in Spending
  BY DEF RestTyped, Locks, NoLock

LEMMA StartKeeps ==
    ASSUME IInv, NEW p \in Procs, Start(p)
    PROVE  IInv'
<1> DEFINE x == [pc |-> "create", now |-> clock, tries |-> 0, todo |-> <<>>]
<1>1. RestTyped /\ clock \in Nat
  BY IInvIs, RestKept
<1>2. Becomes(p, x)
  <2>1. x \in Progress /\ x.pc \notin Busy
    BY <1>1 DEF Progress, Labels, Busy
  <2>2. x = [Idle EXCEPT !.pc = "create", !.now = clock]
    <3> DEFINE i == [pc |-> "idle", now |-> 0, tries |-> 0, todo |-> <<>>]
               y == [i EXCEPT !.pc = "create", !.now = clock]
    <3>1. DOMAIN y = {"pc", "now", "tries", "todo"} /\ DOMAIN x = {"pc", "now", "tries", "todo"}
      OBVIOUS
    <3>2. y.pc = x.pc /\ y.now = x.now /\ y.tries = x.tries /\ y.todo = x.todo
      OBVIOUS
    <3>3. x = y
      BY <3>1, <3>2
    <3>. QED
      BY <3>3 DEF Idle
  <2> HIDE DEF x
  <2>. QED
    BY <2>1, <2>2 DEF Start, Becomes
<1>3. spent' \in Spending
  BY <1>1, RestKept DEF Start, Spending
<1>4. RestTyped'
  BY <1>1, <1>3 DEF Start, RestTyped
<1>. QED
  BY <1>2, <1>4, StepKeeps DEF Start

LEMMA CreateLockKeeps ==
    ASSUME IInv, NEW p \in Procs, CreateLock(p)
    PROVE  IInv'
<1>1. RestTyped /\ UNCHANGED <<wal, table>>
  BY IInvIs DEF CreateLock
<1>2. \E x : Becomes(p, x)
  BY Moves, FailsLabel DEF CreateLock, Labels, Busy
<1>3. lock' \in Locks
  <2>1. [owner |-> p, signed |-> FALSE, made |-> clock] \in Locks /\ lock \in Locks
    BY <1>1, RestKept DEF Locks
  <2>. QED
    BY <2>1 DEF CreateLock
<1>4. RestTyped'
  BY <1>1, <1>3 DEF CreateLock, RestTyped
<1>. QED
  BY <1>1, <1>2, <1>4, StepKeeps

\* The step back to another attempt.
LEMMA Retries ==
    ASSUME IInv, NEW p \in Procs,
           proc' = [proc EXCEPT ![p].pc = "create", ![p].tries = @ + 1]
    PROVE  \E x : Becomes(p, x)
<1> DEFINE x == [proc[p] EXCEPT !.pc = "create", !.tries = @ + 1]
<1>1. proc[p] \in Progress /\ proc[p].tries + 1 \in Nat
  BY IInvIs DEF Progress
<1>2. x \in Progress /\ x.pc = "create"
  BY <1>1 DEF Progress, Labels
<1>3. Becomes(p, x)
  BY <1>2 DEF Becomes, Busy
<1>. QED
  BY <1>3

LEMMA InspectLockKeeps ==
    ASSUME IInv, NEW p \in Procs, InspectLock(p)
    PROVE  IInv'
<1>1. RestTyped /\ UNCHANGED <<wal, table>>
  BY IInvIs DEF InspectLock
<1>2. \E x : Becomes(p, x)
  BY Moves, FailsLabel, Retries DEF InspectLock, Labels, Busy
<1>3. RestTyped'
  BY <1>1 DEF InspectLock, RestTyped
<1>. QED
  BY <1>1, <1>2, <1>3, StepKeeps

LEMMA ReclaimLockKeeps ==
    ASSUME IInv, NEW p \in Procs, ReclaimLock(p)
    PROVE  IInv'
<1>1. RestTyped /\ UNCHANGED <<wal, table>>
  BY IInvIs DEF ReclaimLock
<1>2. \E x : Becomes(p, x)
  BY Retries DEF ReclaimLock
<1>3. spent' \in Spending
  <2> DEFINE live == lock # NoLock /\ Alive(lock.owner)
  <2>1. spent' = [spent EXCEPT !.usurped = @ \/ live] /\ live \in BOOLEAN
    BY DEF ReclaimLock
  <2> HIDE DEF live
  <2>. QED
    BY <1>1, <2>1, RestKept DEF Spending
<1>4. RestTyped'
  BY <1>1, <1>3, RestKept DEF ReclaimLock, RestTyped
<1>. QED
  BY <1>1, <1>2, <1>4, StepKeeps

LEMMA SignLockKeeps ==
    ASSUME IInv, NEW p \in Procs, SignLock(p)
    PROVE  IInv'
<1>1. RestTyped /\ UNCHANGED <<wal, table>>
  BY IInvIs DEF SignLock
<1>2. \E x : Becomes(p, x)
  BY Moves, FailsLabel DEF SignLock, Labels, Busy
<1>3. lock' \in Locks
  BY <1>1, RestKept DEF SignLock, Locks
<1>4. spent' \in Spending
  BY <1>1, RestKept, FaultTyped DEF SignLock
<1>5. RestTyped'
  BY <1>1, <1>3, <1>4 DEF SignLock, RestTyped
<1>. QED
  BY <1>1, <1>2, <1>5, StepKeeps

LEMMA CheckTokenKeeps ==
    ASSUME IInv, NEW p \in Procs, CheckToken(p)
    PROVE  IInv'
<1>1. RestTyped /\ UNCHANGED <<wal, table>>
  BY IInvIs DEF CheckToken
<1>2. \E x : Becomes(p, x)
  BY Moves, FailsLabel DEF CheckToken, Labels, Busy
<1>3. RestTyped'
  BY <1>1 DEF CheckToken, RestTyped
<1>. QED
  BY <1>1, <1>2, <1>3, StepKeeps

LEMMA DropLockKeeps ==
    ASSUME IInv, NEW p \in Procs, DropLock(p)
    PROVE  IInv'
<1>1. RestTyped /\ UNCHANGED <<wal, table>>
  BY IInvIs DEF DropLock
<1>2. \E x : Becomes(p, x)
  BY Moves, FailsLabel DEF DropLock, Labels, Busy
<1>3. RestTyped'
  BY <1>1, RestKept DEF DropLock, RestTyped
<1>. QED
  BY <1>1, <1>2, <1>3, StepKeeps

LEMMA LoadKeeps ==
    ASSUME IInv, NEW p \in Procs, Load(p)
    PROVE  IInv'
<1>1. RestTyped /\ TypeOK /\ proc[p] \in Progress /\ table' = table
  BY IInvIs DEF IInv, Load
<1>2. RestTyped'
  BY <1>1 DEF Load, RestTyped
<1>3. table' \in [Ids -> Claims] /\ AddsUp(wal', table')
  BY IInvIs, RepairedAddsUp DEF Load
<1>4. ASSUME NEW todo \in Seq(Records), NEW label \in Labels, label \in Busy => todo # <<>>,
             proc' = [proc EXCEPT ![p].todo = todo, ![p].pc = label]
      PROVE  Becomes(p, [proc[p] EXCEPT !.todo = todo, !.pc = label])
  BY <1>1, <1>4 DEF Becomes, Progress
<1>5. \E x : Becomes(p, x)
  <2>1. CASE \E todo \in Decisions(p) :
               proc' = [proc EXCEPT ![p].todo = todo,
                                    ![p].pc = IF todo[1].operation = "handoff"
                                              THEN "artifact" ELSE "append"]
    BY <1>1, <1>4, <2>1, DecisionsTyped DEF Labels
  <2>2. CASE Goto(p, "drop") \/ Goto(p, "fail")
    BY <2>2, Moves DEF Labels, Busy
  <2>3. CASE LET todo == ReconcileClaims(table, proc[p].now)
             IN  proc' = [proc EXCEPT ![p].todo = todo,
                                      ![p].pc = IF todo = <<>> THEN "drop" ELSE "append"]
    <3> DEFINE todo == ReconcileClaims(table, proc[p].now)
    <3>1. proc[p].now \in Nat
      BY <1>1 DEF Progress
    <3>2. todo \in Seq(Records)
      BY <1>1, <3>1, ReconcileTyped
    <3>3. proc' = [proc EXCEPT ![p].todo = todo,
                               ![p].pc = IF todo = <<>> THEN "drop" ELSE "append"]
      BY <2>3
    <3> HIDE DEF todo
    <3>. QED
      BY <1>4, <3>2, <3>3 DEF Labels, Busy
  <2>. QED
    BY <2>1, <2>2, <2>3 DEF Load
<1>. QED
  BY <1>2, <1>3, <1>5, WalStepKeeps

LEMMA SaveHandoffArtifactKeeps ==
    ASSUME IInv, NEW p \in Procs, SaveHandoffArtifact(p)
    PROVE  IInv'
<1>1. RestTyped /\ UNCHANGED <<wal, table>> /\ proc[p].todo # <<>> /\ proc[p] \in Progress
  BY IInvIs DEF SaveHandoffArtifact, Working, At
<1>2. Head(proc[p].todo) \in Records
  BY <1>1 DEF Progress
<1>3. \E x : Becomes(p, x)
  BY <1>1, Moves DEF SaveHandoffArtifact, Labels, Busy
<1>4. artifacts' \in [ArtifactRefs -> Claims] /\ spent' \in Spending
  BY <1>1, <1>2, RestKept, FaultTyped DEF SaveHandoffArtifact, Records
<1>5. RestTyped'
  BY <1>1, <1>4 DEF SaveHandoffArtifact, RestTyped
<1>. QED
  BY <1>1, <1>3, <1>5, StepKeeps

LEMMA AppendRecordKeeps ==
    ASSUME IInv, NEW p \in Procs, AppendRecord(p)
    PROVE  IInv'
<1>1. RestTyped /\ proc[p].todo # <<>> /\ proc[p] \in Progress
  BY IInvIs DEF AppendRecord, Working, At
<1>2. Head(proc[p].todo) \in Records
  BY <1>1 DEF Progress
<1>3. \E x : Becomes(p, x)
  BY <1>1, Moves DEF AppendRecord, Labels, Busy
<1>4. RestTyped'
  BY <1>1 DEF AppendRecord, RestTyped
<1>5. table' \in [Ids -> Claims] /\ AddsUp(wal', table')
  <2> DEFINE r == Head(proc[p].todo)
  <2>1. CASE UNCHANGED <<wal, table>>
    BY <2>1, IInvIs
  <2>2. CASE wal' = MaybeRotate(Appended(Repaired, r)) /\ table' = ApplyRecord(table, r)
    <3>1. AddsUp(Repaired, table) /\ Repaired.tail \in Seq(Records) /\ table \in [Ids -> Claims]
      BY IInvIs, RepairedAddsUp
    <3>2. AddsUp(Appended(Repaired, r), ApplyRecord(table, r))
      BY <1>2, <3>1, AppendedAddsUp
    <3>3. ApplyRecord(table, r) \in [Ids -> Claims]
      BY <1>2, <3>1, ApplyTyped
    <3>. QED
      BY <2>2, <3>2, <3>3, RotatedAddsUp
  <2>. QED
    BY <2>1, <2>2 DEF AppendRecord
<1>. QED
  BY <1>3, <1>4, <1>5, WalStepKeeps

\* Whatever an unfinished append leaves adds up to the claims without its record,
\* or to those with it.
LEMMA CutShortAddsUp ==
    ASSUME IInv, NEW p \in Procs, AppendCutShort(p)
    PROVE  table' \in [Ids -> Claims] /\ AddsUp(wal', table')
<1> DEFINE r == Head(proc[p].todo)
           whole == Appended(Repaired, r)
<1>1. proc[p].todo # <<>> /\ proc[p] \in Progress
  BY IInvIs DEF AppendCutShort, Working, At
<1>2. r \in Records
  BY <1>1 DEF Progress
<1>3. AddsUp(Repaired, table) /\ Repaired.tail \in Seq(Records) /\ table \in [Ids -> Claims]
  BY IInvIs, RepairedAddsUp
<1>4. AddsUp(Appended(Repaired, Torn), table) /\ AddsUp(whole, ApplyRecord(table, r))
  BY <1>2, <1>3, AppendedAddsUp
<1>5. ApplyRecord(table, r) \in [Ids -> Claims]
  BY <1>2, <1>3, ApplyTyped
<1>6. AddsUp([whole EXCEPT !.residue = TRUE], ApplyRecord(table, r))
  BY <1>4, <1>5, RotatedAddsUp
<1>7. PICK left \in Leftovers(r) :
         wal' = left[1] /\ table' = IF left[2] THEN ApplyRecord(table, r) ELSE table
  BY DEF AppendCutShort
<1>8. \/ left = <<Appended(Repaired, Torn), FALSE>>
      \/ left = <<whole, TRUE>>
      \/ left = <<[whole EXCEPT !.residue = TRUE], TRUE>>
  BY DEF Leftovers
<1>9. \/ wal' = Appended(Repaired, Torn) /\ table' = table
      \/ wal' = whole /\ table' = ApplyRecord(table, r)
      \/ wal' = [whole EXCEPT !.residue = TRUE] /\ table' = ApplyRecord(table, r)
  <2> HIDE DEF r, whole
  <2>1. ASSUME NEW w, left = <<w, TRUE>> PROVE wal' = w /\ table' = ApplyRecord(table, r)
    <3>1. left[1] = w /\ left[2]
      BY <2>1
    <3>. QED
      BY <1>7, <3>1
  <2>2. ASSUME NEW w, left = <<w, FALSE>> PROVE wal' = w /\ table' = table
    <3>1. left[1] = w /\ ~left[2]
      BY <2>2
    <3>. QED
      BY <1>7, <3>1
  <2>. QED
    BY <1>8, <2>1, <2>2, Zenon
<1> HIDE DEF r, whole
<1>. QED
  BY <1>3, <1>4, <1>5, <1>6, <1>9

LEMMA AppendFailsKeeps ==
    ASSUME IInv, NEW p \in Procs, AppendFails(p)
    PROVE  IInv'
<1>1. RestTyped
  BY IInvIs
<1>2. \E x : Becomes(p, x)
  BY Moves DEF AppendFails, Labels, Busy
<1>3. spent' \in Spending
  BY <1>1, RestKept, FaultTyped DEF AppendFails
<1>4. RestTyped'
  BY <1>1, <1>3 DEF AppendFails, AppendCutShort, RestTyped
<1>5. table' \in [Ids -> Claims] /\ AddsUp(wal', table')
  BY CutShortAddsUp DEF AppendFails
<1>. QED
  BY <1>2, <1>4, <1>5, WalStepKeeps

LEMMA SaveClaimKeeps ==
    ASSUME IInv, NEW p \in Procs, SaveClaim(p)
    PROVE  IInv'
<1> DEFINE todo == proc[p].todo
           x == [proc[p] EXCEPT !.todo = Tail(@),
                                !.pc = IF Len(proc[p].todo) = 1 THEN "drop" ELSE "append"]
<1>1. RestTyped /\ UNCHANGED <<wal, table>> /\ todo # <<>> /\ proc[p] \in Progress
  BY IInvIs DEF SaveClaim, Working, At
<1>2. todo \in Seq(Records) /\ Head(todo) \in Records /\ Tail(todo) \in Seq(Records)
  BY <1>1 DEF Progress
<1>3. Len(todo) # 1 => Tail(todo) # <<>>
  <2>1. Len(todo) \in Nat /\ Len(todo) # 0 /\ Len(Tail(todo)) = Len(todo) - 1
    BY <1>1, <1>2
  <2>2. Len(todo) # 1 => Len(Tail(todo)) # 0
    BY <2>1
  <2>. QED
    BY <2>2
<1>4. CASE Fault /\ Goto(p, "fail") /\ UNCHANGED cache
  <2>1. \E y : Becomes(p, y)
    BY <1>4, Moves DEF Labels, Busy
  <2>2. spent' \in Spending
    BY <1>1, <1>4, RestKept, FaultTyped
  <2>3. RestTyped'
    BY <1>1, <1>4, <2>2 DEF SaveClaim, RestTyped
  <2>. QED
    BY <1>1, <2>1, <2>3, StepKeeps
<1>5. CASE /\ cache' = [cache EXCEPT ![Head(todo).id] = Head(todo).claim]
           /\ proc' = [proc EXCEPT ![p].todo = Tail(@),
                         ![p].pc = IF Len(todo) = 1 THEN "drop" ELSE "append"]
           /\ UNCHANGED spent
  <2>1. Head(todo).claim \in Claims
    BY <1>2 DEF Records
  <2>2. cache' \in [Ids -> Claims]
    BY <1>1, <1>5, <2>1, RestKept
  <2>3. RestTyped'
    BY <1>1, <1>5, <2>2 DEF SaveClaim, RestTyped
  <2>4. /\ x \in Progress /\ x.todo = Tail(todo)
        /\ x.pc = IF Len(todo) = 1 THEN "drop" ELSE "append"
    BY <1>1, <1>2 DEF Progress, Labels
  <2>5. proc' = [proc EXCEPT ![p] = x]
    BY <1>5
  <2> HIDE DEF x, todo
  <2>6. Becomes(p, x)
    BY <1>3, <2>4, <2>5 DEF Becomes, Busy
  <2>. QED
    BY <1>1, <2>3, <2>6, StepKeeps
<1>. QED
  BY <1>4, <1>5 DEF SaveClaim

LEMMA DieKeeps ==
    ASSUME IInv, NEW p \in Procs, Die(p), UNCHANGED <<clock, lock, cache, artifacts>>,
           table' \in [Ids -> Claims], AddsUp(wal', table')
    PROVE  IInv'
<1>1. RestTyped
  BY IInvIs
<1>2. \E x : Becomes(p, x)
  BY Moves DEF Die, Labels, Busy
<1>3. spent' \in Spending
  BY <1>1, RestKept DEF Die, Spending
<1>4. RestTyped'
  BY <1>1, <1>3 DEF RestTyped
<1>. QED
  BY <1>2, <1>4, WalStepKeeps

LEMMA CrashKeeps ==
    ASSUME IInv, NEW p \in Procs, Crash(p) \/ CrashInAppend(p)
    PROVE  IInv'
<1>1. CASE Crash(p)
  <2>1. UNCHANGED <<wal, table>> /\ Die(p) /\ UNCHANGED <<clock, lock, cache, artifacts>>
    BY <1>1 DEF Crash
  <2>2. table' \in [Ids -> Claims] /\ AddsUp(wal', table')
    BY <2>1, IInvIs
  <2>. QED
    BY <2>1, <2>2, DieKeeps
<1>2. CASE CrashInAppend(p)
  <2>1. Die(p) /\ AppendCutShort(p) /\ UNCHANGED <<clock, lock, cache, artifacts>>
    BY <1>2 DEF CrashInAppend, AppendCutShort
  <2>. QED
    BY <2>1, CutShortAddsUp, DieKeeps
<1>. QED
  BY <1>1, <1>2

\* Readers and the clock.
LEMMA OthersKeep ==
    ASSUME IInv, Status \/ Tick \/ UNCHANGED vars
    PROVE  IInv'
<1>1. RestTyped /\ proc \in [Procs -> Progress] /\ Working /\ table \in [Ids -> Claims]
  BY IInvIs
<1>2. RestTyped'
  BY <1>1, RestKept DEF Status, Tick, vars, RestTyped
<1>3. proc' = proc /\ table' = table
  BY DEF Status, Tick, vars
<1>4. AddsUp(wal', table')
  <2>1. wal' = wal \/ wal' = Repaired
    BY DEF Status, Tick, vars
  <2>. QED
    BY <1>3, <2>1, IInvIs, RepairedAddsUp
<1>5. Working'
  BY <1>1, <1>3 DEF Working
<1>. QED
  BY <1>1, <1>2, <1>3, <1>4, <1>5, IInvNext

LEMMA InitHolds == Init => IInv
<1> SUFFICES ASSUME Init PROVE IInv
  OBVIOUS
<1>1. NoClaim \in Claims
  BY DEF NoClaim, Claims, Statuses
<1>2. <<>> \in Seq(Records)
  OBVIOUS
<1>3. Idle \in Progress /\ Idle.pc \notin Busy
  BY <1>2 DEF Idle, Progress, Labels, Busy
<1>4. RestTyped
  BY <1>1 DEF Init, RestTyped, Locks, NoLock, Spending
<1>5. proc \in [Procs -> Progress] /\ Working
  BY <1>3 DEF Init, Working, Busy
<1>6. table \in [Ids -> Claims] /\ wal.snapshot = table /\ wal.tail = <<>>
  BY <1>1 DEF Init
<1>7. DecodePrefix(<<>>) = <<>> /\ <<>> \in Seq(Lines) /\ Project(table, <<>>) = table
  BY <1>2, DecodeWhole, ProjectEmpty
<1>8. wal \in Wals
  BY <1>1, <1>7 DEF Init, Wals
<1>9. AddsUp(wal, table)
  BY <1>6, <1>7, <1>8 DEF AddsUp
<1>. QED
  BY <1>4, <1>5, <1>6, <1>9, IInvIs

LEMMA NextKeeps == IInv /\ [Next]_vars => IInv'
<1> SUFFICES ASSUME IInv, [Next]_vars PROVE IInv'
  OBVIOUS
<1>1. ASSUME NEW p \in Procs, Start(p) \/ Step(p) \/ Crash(p) \/ CrashInAppend(p) PROVE IInv'
  BY <1>1, StartKeeps, CreateLockKeeps, InspectLockKeeps, ReclaimLockKeeps, SignLockKeeps,
     LoadKeeps, SaveHandoffArtifactKeeps, AppendRecordKeeps, AppendFailsKeeps, SaveClaimKeeps,
     CheckTokenKeeps, DropLockKeeps, CrashKeeps DEF Step
<1>2. CASE Status \/ Tick \/ UNCHANGED vars
  BY <1>2, OthersKeep
<1>. QED
  BY <1>1, <1>2 DEF Next

LEMMA Invariance == Spec => []IInv
  BY InitHolds, NextKeeps, PTL DEF Spec

-----------------------------------------------------------------------------
(***************************************************************************)
(* The theorems.                                                           *)
(***************************************************************************)

\* The commands never leave their types: what they decide to write, also a whole
\* reconcile pass, is a sequence of lifecycle records of claims they know.
THEOREM TypeCorrect == Spec => []TypeOK
<1>1. IInv => TypeOK
  BY DEF IInv
<1>. QED
  BY <1>1, Invariance, PTL

\* The WAL replays to what its records add up to (append_claim_wal_record and
\* rotate_claim_wal_under_lock in claim_wal.rs, read by derive_state.rs): torn tails,
\* their repair by any reader, rotations and rotations cut short, in any number and
\* by any processes, two at a time too, lose no claim and revive none.
THEOREM WalReplaysToTable == Spec => []ReplayMatchesTable
<1>1. IInv => ReplayMatchesTable
  BY DEF IInv, Replayed, ReplayMatchesTable
<1>. QED
  BY <1>1, Invariance, PTL

-----------------------------------------------------------------------------
(***************************************************************************)
(* The lock.                                                               *)
(***************************************************************************)
\* Where a command stands that has the lock.
Critical == {"load", "artifact", "append", "save", "drop", "unlink", "fail", "fail_unlink"}

Inside == Critical \cup {"sign"}

\* Whoever works has the file that has the lock's name, and the file of that name
\* belongs to one who works or died at it.
Held ==
    /\ \A p \in Procs : proc[p].pc \in Inside =>
          /\ lock.owner = p
          /\ lock.signed = (proc[p].pc # "sign")
          /\ proc[p].pc = "sign" => lock.made = clock
    /\ lock.owner \in Procs => proc[lock.owner].pc \in Inside \cup {"dead"}
    /\ lock.owner \notin Procs => lock = NoLock

\* Whoever is about to remove a lock file removes none of a process that runs.
TrueReclaim ==
    \A p \in Procs : At(p, "reclaim") => lock = NoLock \/ ~Alive(lock.owner)

-----------------------------------------------------------------------------
(***************************************************************************)
(* The claims.                                                             *)
(***************************************************************************)
\* The claims that stand in the way of another one.
Holding == Open \cup {"handoff_required"}

\* No two of them name overlapping paths.
Disjoint ==
    \A i, j \in Ids :
       i # j /\ table[i].status \in Holding /\ table[j].status \in Holding
          => ~FirstOverlappingPath(table[i].paths, table[j].paths)

\* Nothing stands in the way of what r acquires.
Free(r) ==
    /\ table[r.id].status \notin Holding
    /\ \A other \in Ids : FirstOverlappingPath(r.claim.paths, table[other].paths)
                            => table[other].status \notin Holding

\* What process p has decided and not appended yet is still what it would decide.
Fresh(p, r) ==
    /\ r.claim.status # "expired"
    /\ r.operation # "handoff" => r.claim.status # "handoff_recorded"
    /\ r.operation # "acquire" => /\ r.claim.agent = table[r.id].agent
                                  /\ r.claim.paths = table[r.id].paths
    /\ r.operation \in {"acquire", "handoff"} => Len(proc[p].todo) = 1
    /\ proc[p].pc = "artifact" => r.operation = "handoff"
    /\ r.operation = "acquire" /\ proc[p].pc # "save" => Free(r)
    /\ r.operation = "handoff" /\ proc[p].pc # "save" => table[r.id].status \in Holding

Current(p) ==
    proc[p].pc \in Busy => \A i \in 1 .. Len(proc[p].todo) : Fresh(p, proc[p].todo[i])

Pending == \A p \in Procs : Current(p)

\* Every claim that was reconciled asks for a handoff.
NoneExpired == \A id \in Ids : table[id].status # "expired"

\* The clock and what was read of it are within the bound.
Clocked == clock <= MaxClock /\ \A p \in Procs : proc[p].now <= MaxClock

AllEvidenced == \A id \in Ids : Evidenced(id)

\* An artifact is written before the record.
Evidence ==
    /\ AllEvidenced
    /\ \A p \in Procs : At(p, "append") /\ Head(proc[p].todo).operation = "handoff"
          => artifacts[HandoffArtifactRef(p)] = Head(proc[p].todo).claim

Owned == Held /\ Disjoint /\ Pending /\ NoneExpired /\ Clocked

-----------------------------------------------------------------------------
(***************************************************************************)
(* Paths.                                                                  *)
(***************************************************************************)
\* g is the function, recursive over sets of positions, that normalisation chooses.
Normalizing(g, S, s) ==
    g = [x \in SUBSET S |-> IF x = {} THEN <<>>
                            ELSE NormalizePart(g[x \ {Max(x)}], s[Max(x)])]

\* Normalisation is the value, at all positions, of such a function.
LEMMA NormalizeIs ==
    ASSUME NEW s
    PROVE  NormalizeSegments(s) = (CHOOSE g : Normalizing(g, DOMAIN s, s))[DOMAIN s]
  BY DEF NormalizeSegments, FoldLeft, MapThenFoldSet, Normalizing

\* There is such a function, so the choice is one.
LEMMA NormalizingExists ==
    ASSUME NEW s
    PROVE  \A m \in Nat : \E g : Normalizing(g, 1..m, s)
<1> DEFINE S == {m \in Nat : \E g : Normalizing(g, 1..m, s)}
<1>1. 0 \in S
  <2> DEFINE h == [x \in SUBSET (1..0) |-> <<>>]
  <2>1. \A x \in SUBSET (1..0) : x = {}
    OBVIOUS
  <2>2. Normalizing(h, 1..0, s)
    BY <2>1 DEF Normalizing
  <2>. QED
    BY <2>2
<1>2. ASSUME NEW m \in Nat, m \in S PROVE m + 1 \in S
  <2>1. PICK g : Normalizing(g, 1..m, s)
    BY <1>2
  <2> DEFINE h == [x \in SUBSET (1..(m + 1)) |->
                     IF m + 1 \in x THEN NormalizePart(g[x \ {m + 1}], s[m + 1]) ELSE g[x]]
             k == [x \in SUBSET (1..(m + 1)) |->
                     IF x = {} THEN <<>> ELSE NormalizePart(h[x \ {Max(x)}], s[Max(x)])]
  <2>2. \A x \in SUBSET (1..m) : g[x] = IF x = {} THEN <<>>
                                        ELSE NormalizePart(g[x \ {Max(x)}], s[Max(x)])
    BY <2>1 DEF Normalizing
  <2>3. ASSUME NEW x \in SUBSET (1..(m + 1)), m + 1 \notin x PROVE x \in SUBSET (1..m)
    BY <2>3
  <2>4. ASSUME NEW x \in SUBSET (1..(m + 1)) PROVE h[x] = k[x]
    <3>1. CASE m + 1 \in x
      <4>1. /\ Max(x) = m + 1 /\ x # {}
            /\ x \ {m + 1} \in SUBSET (1..(m + 1)) /\ m + 1 \notin x \ {m + 1}
        BY <3>1, MaxIs
      <4>2. h[x \ {m + 1}] = g[x \ {m + 1}]
        BY <4>1
      <4>. QED
        BY <3>1, <4>1, <4>2
    <3>2. CASE m + 1 \notin x
      <4>1. x \in SUBSET (1..m) /\ h[x] = g[x]
        BY <2>3, <3>2
      <4>2. x \ {Max(x)} \in SUBSET (1..(m + 1)) /\ m + 1 \notin x \ {Max(x)}
        BY <3>2
      <4>3. h[x \ {Max(x)}] = g[x \ {Max(x)}]
        BY <4>2
      <4>. QED
        BY <2>2, <4>1, <4>3
    <3>. QED
      BY <3>1, <3>2
  <2>5. h = k
    BY <2>4
  <2>6. Normalizing(h, 1..(m + 1), s)
    BY <2>5 DEF Normalizing
  <2>. QED
    BY <2>6
<1> HIDE DEF S
<1>3. \A m \in Nat : m \in S
  BY <1>1, <1>2, NatSetInduction
<1>. QED
  BY <1>3 DEF S

\* One part more.
LEMMA NormalizingStep ==
    ASSUME NEW s, NEW N \in Nat, NEW m \in Nat, m + 1 <= N, NEW g, Normalizing(g, 1..N, s)
    PROVE  g[1..(m + 1)] = NormalizePart(g[1..m], s[m + 1])
<1>1. /\ 1..(m + 1) \in SUBSET (1..N) /\ 1..(m + 1) # {}
      /\ m + 1 \in 1..(m + 1) /\ (1..(m + 1)) \ {m + 1} = 1..m
      /\ 1..(m + 1) \in SUBSET (1..(m + 1))
  OBVIOUS
<1>2. Max(1..(m + 1)) = m + 1
  BY <1>1, MaxIs
<1>3. \A x \in SUBSET (1..N) : x # {} => g[x] = NormalizePart(g[x \ {Max(x)}], s[Max(x)])
  BY DEF Normalizing
<1>4. g[1..(m + 1)] = NormalizePart(g[(1..(m + 1)) \ {Max(1..(m + 1))}], s[Max(1..(m + 1))])
  BY <1>1, <1>3
<1>. QED
  BY <1>1, <1>2, <1>4

\* A part at the end of a normalised path.
LEMMA PartTyped ==
    ASSUME NEW T, NEW out \in Seq(T), NEW part \in T
    PROVE  NormalizePart(out, part) \in Seq(T)
<1>1. Append(out, part) \in Seq(T)
  OBVIOUS
<1>2. out # <<>> => Front(out) \in Seq(T)
  <2> SUFFICES ASSUME out # <<>> PROVE Front(out) \in Seq(T)
    OBVIOUS
  <2>1. Len(out) \in Nat /\ Len(out) # 0
    OBVIOUS
  <2>2. Len(out) - 1 \in Nat /\ Len(out) - 1 <= Len(out)
    BY <2>1
  <2>3. SubSeq(out, 1, Len(out) - 1) \in Seq(T)
    BY <2>2
  <2>. QED
    BY <2>3 DEF Front
<1>. QED
  BY <1>1, <1>2 DEF NormalizePart

\* A normalised path is a sequence of the path's parts, and the root's is empty.
LEMMA Normalized ==
    ASSUME NEW raw, raw \in Seq(Range(raw))
    PROVE  /\ NormalizeSegments(raw) \in Seq(Range(raw))
           /\ IsExplicitRepoRoot(raw) => NormalizeSegments(raw) = <<>>
<1> DEFINE n == Len(raw)
           T == Range(raw)
           g == CHOOSE g : Normalizing(g, 1..n, raw)
           S == {m \in Nat : m <= n => /\ g[1..m] \in Seq(T)
                                       /\ IsExplicitRepoRoot(raw) => g[1..m] = <<>>}
<1>1. n \in Nat /\ DOMAIN raw = 1..n /\ \A i \in 1..n : raw[i] \in T
  OBVIOUS
<1>2. Normalizing(g, 1..n, raw)
  <2>1. \E x : Normalizing(x, 1..n, raw)
    BY <1>1, NormalizingExists
  <2>. QED
    BY <2>1
<1>3. NormalizeSegments(raw) = g[1..n]
  BY <1>1, NormalizeIs
<1> HIDE DEF n, T, g
<1>4. 0 \in S
  <2>1. 1..0 = {} /\ {} \in SUBSET (1..n)
    OBVIOUS
  <2>2. g[{}] = <<>>
    BY <1>2, <2>1 DEF Normalizing
  <2>3. <<>> \in Seq(T)
    OBVIOUS
  <2>. QED
    BY <2>1, <2>2, <2>3
<1>5. ASSUME NEW m \in Nat, m \in S PROVE m + 1 \in S
  <2>1. CASE m + 1 <= n
    <3>1. m <= n /\ m + 1 \in 1..n
      BY <1>1, <2>1
    <3>2. g[1..(m + 1)] = NormalizePart(g[1..m], raw[m + 1])
      BY <1>1, <1>2, <2>1, NormalizingStep
    <3>3. g[1..m] \in Seq(T) /\ raw[m + 1] \in T
      BY <1>1, <1>5, <3>1
    <3>4. g[1..(m + 1)] \in Seq(T)
      BY <3>2, <3>3, PartTyped
    <3>5. IsExplicitRepoRoot(raw) => g[1..(m + 1)] = g[1..m]
      BY <1>1, <3>1, <3>2 DEF IsExplicitRepoRoot, NormalizePart
    <3>. QED
      BY <1>5, <3>1, <3>4, <3>5
  <2>2. CASE ~(m + 1 <= n)
    BY <2>2
  <2>. QED
    BY <2>1, <2>2
<1> HIDE DEF S
<1>6. n \in S
  BY <1>1, <1>4, <1>5, NatSetInduction
<1>. QED
  BY <1>1, <1>3, <1>6 DEF S, T

\* Two prefixes of one path: the shorter is a prefix of the longer.
LEMMA PrefixesNest ==
    ASSUME NEW A, NEW B, NEW T, NEW l \in Seq(A), NEW r \in Seq(B), NEW t \in Seq(T),
           IsPrefix(l, t), IsPrefix(r, t)
    PROVE  IsPrefix(l, r) \/ IsPrefix(r, l)
<1>1. /\ Len(l) \in Nat /\ Len(r) \in Nat /\ Len(t) \in Nat
      /\ Len(l) <= Len(t) /\ Len(r) <= Len(t)
  BY DEF IsPrefix
<1>2. /\ SubSeq(l, 1, Len(l)) = [i \in 1..Len(l) |-> l[i]]
      /\ SubSeq(t, 1, Len(l)) = [i \in 1..Len(l) |-> t[i]]
      /\ SubSeq(r, 1, Len(r)) = [i \in 1..Len(r) |-> r[i]]
      /\ SubSeq(t, 1, Len(r)) = [i \in 1..Len(r) |-> t[i]]
  BY <1>1
<1>3. \A i \in 1..Len(l) : l[i] = t[i]
  <2>1. [i \in 1..Len(l) |-> l[i]] = [i \in 1..Len(l) |-> t[i]]
    BY <1>2 DEF IsPrefix
  <2>. QED
    BY <2>1
<1>4. \A i \in 1..Len(r) : r[i] = t[i]
  <2>1. [i \in 1..Len(r) |-> r[i]] = [i \in 1..Len(r) |-> t[i]]
    BY <1>2 DEF IsPrefix
  <2>. QED
    BY <2>1
<1>5. CASE Len(l) <= Len(r)
  <2>1. SubSeq(r, 1, Len(l)) = [i \in 1..Len(l) |-> r[i]]
    BY <1>1, <1>5
  <2>2. \A i \in 1..Len(l) : i \in 1..Len(r) /\ l[i] = r[i]
    BY <1>1, <1>3, <1>4, <1>5
  <2>. QED
    BY <1>2, <1>5, <2>1, <2>2 DEF IsPrefix
<1>6. CASE Len(r) <= Len(l)
  <2>1. SubSeq(l, 1, Len(r)) = [i \in 1..Len(r) |-> l[i]]
    BY <1>1, <1>6
  <2>2. \A i \in 1..Len(r) : i \in 1..Len(l) /\ r[i] = l[i]
    BY <1>1, <1>3, <1>4, <1>6
  <2>. QED
    BY <1>2, <1>6, <2>1, <2>2 DEF IsPrefix
<1>. QED
  BY <1>1, <1>5, <1>6

\* A path that covers one inside the repository does not leave it either.
LEMMA CoverStays ==
    ASSUME NEW A, NEW T, NEW l \in Seq(A), NEW t \in Seq(T), PathCovers(l, t), ~EscapesRepoRoot(t)
    PROVE  ~EscapesRepoRoot(l)
<1>1. l # <<>> /\ t # <<>> /\ IsPrefix(l, t)
  BY DEF PathCovers
<1>2. Len(l) \in Nat /\ Len(l) # 0 /\ Len(t) \in Nat /\ Len(l) <= Len(t)
  BY <1>1 DEF IsPrefix
<1>3. SubSeq(l, 1, Len(l))[1] = l[1] /\ SubSeq(t, 1, Len(l))[1] = t[1]
  BY <1>2
<1>4. Head(l) = Head(t)
  BY <1>1, <1>2, <1>3 DEF IsPrefix
<1>. QED
  BY <1>1, <1>4 DEF EscapesRepoRoot

\* What the gate takes for covered by two claims, acquire takes for overlapping.
LEMMA CoversOverlap ==
    ASSUME NEW l, NEW r, NEW t, l \in Seq(Range(l)), r \in Seq(Range(r)), t \in Seq(Range(t)),
           ~EscapesRepoRoot(NormalizeSegments(t)),
           ClaimPathCovers(l, NormalizeSegments(t)), ClaimPathCovers(r, NormalizeSegments(t))
    PROVE  RepoPathsOverlap(l, r)
<1> DEFINE L == NormalizeSegments(l)
           R == NormalizeSegments(r)
           T == NormalizeSegments(t)
<1>1. L \in Seq(Range(l)) /\ R \in Seq(Range(r)) /\ T \in Seq(Range(t))
  BY Normalized
<1>2. /\ IsExplicitRepoRoot(l) => L = <<>>
      /\ IsExplicitRepoRoot(r) => R = <<>>
  BY Normalized
<1>3. /\ IsExplicitRepoRoot(l) \/ PathCovers(L, T)
      /\ IsExplicitRepoRoot(r) \/ PathCovers(R, T)
  BY DEF ClaimPathCovers
<1>4. ~EscapesRepoRoot(L) /\ ~EscapesRepoRoot(R)
  <2>1. ~EscapesRepoRoot(<<>>)
    BY DEF EscapesRepoRoot
  <2> HIDE DEF L, R, T
  <2>2. ~EscapesRepoRoot(L)
    BY <1>1, <1>2, <1>3, <2>1, CoverStays DEF T
  <2>3. ~EscapesRepoRoot(R)
    BY <1>1, <1>2, <1>3, <2>1, CoverStays DEF T
  <2>. QED
    BY <2>2, <2>3
<1>5. PathCovers(L, T) /\ PathCovers(R, T) => PathCovers(L, R) \/ PathCovers(R, L)
  <2> HIDE DEF L, R, T
  <2>. QED
    BY <1>1, PrefixesNest DEF PathCovers
<1>6. /\ PathCovers(L, T) => L # <<>>
      /\ PathCovers(R, T) => R # <<>>
  BY DEF PathCovers
<1> HIDE DEF L, R, T
<1>7. \/ IsExplicitRepoRoot(l) /\ IsExplicitRepoRoot(r)
      \/ IsExplicitRepoRoot(l) /\ R # <<>>
      \/ IsExplicitRepoRoot(r) /\ L # <<>>
      \/ PathCovers(L, R)
      \/ PathCovers(R, L)
  BY <1>3, <1>5, <1>6
<1>. QED
  BY <1>4, <1>7 DEF RepoPathsOverlap, L, R

\* Overlapping is mutual.
LEMMA OverlapIsMutual ==
    ASSUME NEW A, NEW B, FirstOverlappingPath(A, B)
    PROVE  FirstOverlappingPath(B, A)
  BY DEF FirstOverlappingPath, RepoPathsOverlap

\* When claims that hold do not overlap, one of them governs a path alone.
LEMMA DisjointIsEffective ==
    ASSUME IInv, Disjoint
    PROVE  \A id \in Ids : Effective(id)
<1> SUFFICES ASSUME NEW id \in Ids, NEW t \in Targets,
                    ~EscapesRepoRoot(NormalizeSegments(t)),
                    Governs(table[id], NormalizeSegments(t), clock)
             PROVE  ClassifyTarget(table, table[id].agent, t, clock) = "governed_by_self"
  BY DEF Effective
<1> DEFINE target == NormalizeSegments(t)
           ruling == {x \in Ids : Governs(table[x], target, clock)}
<1>1. ASSUME NEW j \in ruling PROVE j = id
  <2>1. PICK l \in table[id].paths : ClaimPathCovers(l, target)
    BY DEF Governs
  <2>2. PICK r \in table[j].paths : ClaimPathCovers(r, target)
    BY <1>1 DEF Governs
  <2>3. table[id].status \in Holding /\ table[j].status \in Holding /\ j \in Ids
    BY <1>1 DEF Governs, IsLive, Holding
  <2>4. table[id] \in Claims /\ table[j] \in Claims
    BY <2>3 DEF IInv, TypeOK
  <2>5. l \in UNION {q.paths : q \in Requests} /\ r \in UNION {q.paths : q \in Requests}
    BY <2>1, <2>2, <2>4 DEF Claims
  <2>6. l \in Seq(Range(l)) /\ r \in Seq(Range(r)) /\ t \in Seq(Range(t))
    BY <2>5, RequestsAssumption
  <2>7. RepoPathsOverlap(l, r)
    BY <2>1, <2>2, <2>6, CoversOverlap
  <2>8. FirstOverlappingPath(table[id].paths, table[j].paths)
    BY <2>1, <2>2, <2>7 DEF FirstOverlappingPath
  <2>. QED
    BY <2>3, <2>8 DEF Disjoint
<1>2. id \in ruling
  OBVIOUS
<1>. QED
  BY <1>1, <1>2 DEF ClassifyTarget

-----------------------------------------------------------------------------
(***************************************************************************)
(* Who has the lock.                                                       *)
(***************************************************************************)
\* Only process p does something.
Only(p) == \A q \in Procs : q # p => proc'[q] = proc[q]

\* What a process is after the usual ways to move on.
LEMMA MovesTo ==
    ASSUME IInv, NEW p \in Procs, NEW label
    PROVE  /\ Return(p, label) => /\ Only(p) /\ proc'[p].pc = label
                                  /\ proc'[p].now = 0 /\ proc'[p].todo = <<>>
           /\ Goto(p, label) => /\ Only(p) /\ proc'[p].pc = label
                                /\ proc'[p].now = proc[p].now /\ proc'[p].todo = proc[p].todo
<1>1. proc \in [Procs -> Progress]
  BY IInvIs
<1>2. Return(p, label) => proc'[p] = [Idle EXCEPT !.pc = label] /\ Only(p)
  BY <1>1 DEF Return, Only
<1>3. Goto(p, label) => proc'[p] = [proc[p] EXCEPT !.pc = label] /\ Only(p)
  BY <1>1 DEF Goto, Only
<1>4. proc[p] \in Progress
  BY <1>1
<1>5. [Idle EXCEPT !.pc = label].pc = label /\ [Idle EXCEPT !.pc = label].now = 0
      /\ [Idle EXCEPT !.pc = label].todo = <<>>
  BY DEF Idle
<1>6. /\ [proc[p] EXCEPT !.pc = label].pc = label
      /\ [proc[p] EXCEPT !.pc = label].now = proc[p].now
      /\ [proc[p] EXCEPT !.pc = label].todo = proc[p].todo
  BY <1>4 DEF Progress
<1>. QED
  BY <1>2, <1>3, <1>5, <1>6

\* So is one that tries again.
LEMMA RetriesAt ==
    ASSUME IInv, NEW p \in Procs,
           proc' = [proc EXCEPT ![p].pc = "create", ![p].tries = @ + 1]
    PROVE  /\ Only(p) /\ proc'[p].pc = "create"
           /\ proc'[p].now = proc[p].now /\ proc'[p].todo = proc[p].todo
<1>1. proc \in [Procs -> Progress] /\ proc[p] \in Progress
  BY IInvIs
<1>2. proc'[p] = [proc[p] EXCEPT !.pc = "create", !.tries = @ + 1] /\ Only(p)
  BY <1>1 DEF Only
<1>. QED
  BY <1>1, <1>2 DEF Progress

\* Where a command stands that does not have the lock.
Outside == {"idle", "create", "inspect"}

\* What a step of process p, at label from before and at label to afterwards, does
\* to the lock.
LockMove(p, from, to) ==
    \/ from \in Outside /\ to \in Outside \cup {"exited"} /\ lock' = lock
    \/ from = "inspect" /\ to = "reclaim" /\ lock' = lock /\ Inspection = "reclaim"
    \/ from = "reclaim" /\ to = "create" /\ lock' = NoLock
       /\ (~spent'.usurped => lock = NoLock \/ ~Alive(lock.owner))
    \/ from = "create" /\ to = "sign" /\ lock = NoLock
       /\ lock' = [owner |-> p, signed |-> FALSE, made |-> clock]
    \/ from = "sign" /\ to = "load" /\ lock' = [lock EXCEPT !.signed = TRUE]
    \/ from \in Critical /\ to \in Critical /\ lock' = lock
    \/ from \in Inside /\ to \in {"idle", "exited"} /\ lock' = NoLock
    \/ from \notin {"dead", "exited"} /\ to = "dead" /\ lock' = lock /\ Die(p)

LockStep(p) == Only(p) /\ clock' = clock /\ LockMove(p, proc[p].pc, proc'[p].pc)

\* A command starts outside,
LEMMA StartMoves ==
    ASSUME IInv, NEW p \in Procs, Start(p)
    PROVE  LockStep(p) /\ proc'[p].pc = "create" /\ proc'[p].now = clock
<1>1. proc \in [Procs -> Progress]
  BY IInvIs
<1>2. proc'[p] = [Idle EXCEPT !.pc = "create", !.now = clock] /\ Only(p)
  BY <1>1 DEF Start, Only
<1>3. proc'[p].pc = "create" /\ proc'[p].now = clock
  BY <1>2 DEF Idle
<1>. QED
  BY <1>2, <1>3 DEF Start, LockStep, LockMove, Outside, At

\* Whoever takes a live lock leaves the mark,
LEMMA ReclaimIsMarked ==
    ASSUME IInv, NEW p \in Procs, ReclaimLock(p)
    PROVE  spent'.usurped <=> spent.usurped \/ (lock # NoLock /\ Alive(lock.owner))
<1> DEFINE live == lock # NoLock /\ Alive(lock.owner)
<1>1. spent' = [spent EXCEPT !.usurped = @ \/ live] /\ spent \in Spending
  BY IInvIs, RestKept DEF ReclaimLock
<1> HIDE DEF live
<1>2. spent'.usurped <=> spent.usurped \/ live
  BY <1>1 DEF Spending
<1>. QED
  BY <1>2 DEF live

\* and nobody else does.
LEMMA OthersLeaveNoMark ==
    ASSUME IInv, [Next]_vars, \A p \in Procs : ~ReclaimLock(p)
    PROVE  spent'.usurped = spent.usurped
<1>1. spent \in Spending
  BY IInvIs, RestKept
<1>2. CASE spent' = spent
  BY <1>2
<1>3. ASSUME NEW p \in Procs, Fault \/ Start(p) \/ Die(p)
      PROVE  spent'.usurped = spent.usurped
  BY <1>1, <1>3 DEF Fault, Start, Die, Spending
<1>4. ASSUME NEW p \in Procs, Step(p)
      PROVE  spent' = spent \/ Fault
  BY <1>4 DEF Step, CreateLock, InspectLock, SignLock, Load, SaveHandoffArtifact,
     AppendRecord, AppendFails, SaveClaim, CheckToken, DropLock
<1>5. Status \/ Tick \/ UNCHANGED vars => spent' = spent
  BY DEF Status, Tick, vars
<1>. QED
  BY <1>2, <1>3, <1>4, <1>5 DEF Next, Crash, CrashInAppend

\* The mark stays, and comes only from a reclaim that was not true.
LEMMA MarkNext ==
    ASSUME IInv, [Next]_vars
    PROVE  /\ spent.usurped => spent'.usurped
           /\ spent'.usurped => spent.usurped \/ ~TrueReclaim
<1>1. CASE \A p \in Procs : ~ReclaimLock(p)
  BY <1>1, OthersLeaveNoMark
<1>2. ASSUME NEW p \in Procs, ReclaimLock(p)
      PROVE  /\ spent.usurped => spent'.usurped
             /\ spent'.usurped => spent.usurped \/ ~TrueReclaim
  <2>1. At(p, "reclaim")
    BY <1>2 DEF ReclaimLock
  <2>. QED
    BY <1>2, <2>1, ReclaimIsMarked DEF TrueReclaim
<1>. QED
  BY <1>1, <1>2

\* It asks for the lock without having it until it created the file,
LEMMA AskMoves ==
    ASSUME IInv, NEW p \in Procs, CreateLock(p) \/ InspectLock(p) \/ ReclaimLock(p)
    PROVE  LockStep(p) /\ proc'[p].pc \notin Busy /\ proc'[p].now \in {0, proc[p].now}
<1>1. CASE CreateLock(p)
  <2>1. CASE Return(p, Fails(p)) /\ UNCHANGED lock
    BY <1>1, <2>1, MovesTo DEF CreateLock, LockStep, LockMove, Outside, At, Fails, Busy
  <2>2. CASE /\ lock = NoLock /\ Goto(p, "sign")
             /\ lock' = [owner |-> p, signed |-> FALSE, made |-> clock]
    BY <1>1, <2>2, MovesTo DEF CreateLock, LockStep, LockMove, At, Busy
  <2>3. CASE Goto(p, "inspect") /\ UNCHANGED lock
    BY <1>1, <2>3, MovesTo DEF CreateLock, LockStep, LockMove, Outside, At, Busy
  <2>. QED
    BY <1>1, <2>1, <2>2, <2>3 DEF CreateLock
<1>2. CASE InspectLock(p)
  <2>1. CASE Return(p, Fails(p))
    BY <1>2, <2>1, MovesTo DEF InspectLock, LockStep, LockMove, Outside, At, Fails, Busy
  <2>2. CASE Inspection = "reclaim" /\ Goto(p, "reclaim")
    BY <1>2, <2>2, MovesTo DEF InspectLock, LockStep, LockMove, At, Busy
  <2>3. CASE proc' = [proc EXCEPT ![p].pc = "create", ![p].tries = @ + 1]
    BY <1>2, <2>3, RetriesAt DEF InspectLock, LockStep, LockMove, Outside, At, Busy
  <2>. QED
    BY <1>2, <2>1, <2>2, <2>3 DEF InspectLock
<1>3. CASE ReclaimLock(p)
  <2>1. ~spent'.usurped => lock = NoLock \/ ~Alive(lock.owner)
    BY <1>3, ReclaimIsMarked
  <2>. QED
    BY <1>3, <2>1, RetriesAt DEF ReclaimLock, LockStep, LockMove, At, Busy
<1>. QED
  BY <1>1, <1>2, <1>3

\* signs it and gives it back,
LEMMA HolderMoves ==
    ASSUME IInv, Held, NEW p \in Procs, SignLock(p) \/ CheckToken(p) \/ DropLock(p)
    PROVE  LockStep(p) /\ proc'[p].pc \notin Busy /\ proc'[p].now \in {0, proc[p].now}
<1>1. CASE SignLock(p)
  <2>1. lock.owner = p
    BY <1>1 DEF SignLock, At, Held, Inside
  <2>2. CASE lock' = [lock EXCEPT !.signed = TRUE] /\ Goto(p, "load")
    BY <1>1, <2>2, MovesTo DEF SignLock, LockStep, LockMove, At, Busy
  <2>3. CASE lock' = NoLock /\ Return(p, Fails(p))
    BY <1>1, <2>3, MovesTo DEF SignLock, LockStep, LockMove, Inside, At, Fails, Busy
  <2>. QED
    BY <1>1, <2>1, <2>2, <2>3 DEF SignLock
<1>2. CASE CheckToken(p)
  <2>1. proc[p].pc \in {"drop", "fail"} /\ lock' = lock /\ clock' = clock
    BY <1>2 DEF CheckToken
  <2>2. lock.owner = p /\ lock.signed
    BY <2>1 DEF Held, Inside, Critical
  <2>3. Goto(p, "unlink") \/ Goto(p, "fail_unlink")
    BY <1>2, <2>2 DEF CheckToken
  <2>. QED
    BY <2>1, <2>3, MovesTo DEF LockStep, LockMove, Critical, Busy
<1>3. CASE DropLock(p)
  <2>1. /\ proc[p].pc \in {"unlink", "fail_unlink"} /\ lock' = NoLock /\ clock' = clock
        /\ Return(p, "idle") \/ Return(p, "exited")
    BY <1>3 DEF DropLock, Fails
  <2>. QED
    BY <2>1, MovesTo DEF LockStep, LockMove, Inside, Critical, Busy
<1>. QED
  BY <1>1, <1>2, <1>3

\* The steps of the work itself; each moves within the critical section.
LEMMA LoadMoves ==
    ASSUME IInv, NEW p \in Procs, Load(p)
    PROVE  /\ LockStep(p) /\ proc'[p].now = proc[p].now
           /\ \/ proc'[p].pc \notin Busy
              \/ /\ proc'[p].todo \in Decisions(p)
                 /\ proc'[p].pc = IF proc'[p].todo[1].operation = "handoff"
                                  THEN "artifact" ELSE "append"
              \/ proc'[p].todo = ReconcileClaims(table, proc[p].now) /\ proc'[p].pc = "append"
<1>1. proc \in [Procs -> Progress] /\ proc[p] \in Progress
  BY IInvIs
<1>2. At(p, "load") /\ lock' = lock /\ clock' = clock
  BY DEF Load
<1>3. ASSUME NEW todo, NEW label, proc' = [proc EXCEPT ![p].todo = todo, ![p].pc = label]
      PROVE  Only(p) /\ proc'[p].pc = label /\ proc'[p].now = proc[p].now /\ proc'[p].todo = todo
  <2>1. proc'[p] = [proc[p] EXCEPT !.todo = todo, !.pc = label] /\ Only(p)
    BY <1>1, <1>3 DEF Only
  <2>. QED
    BY <1>1, <2>1 DEF Progress
<1>4. CASE Goto(p, "fail") \/ Goto(p, "drop")
  BY <1>2, <1>4, MovesTo DEF LockStep, LockMove, Critical, At, Busy
<1>5. CASE \E todo \in Decisions(p) :
             proc' = [proc EXCEPT ![p].todo = todo,
                                  ![p].pc = IF todo[1].operation = "handoff"
                                            THEN "artifact" ELSE "append"]
  <2>1. PICK todo \in Decisions(p) :
             proc' = [proc EXCEPT ![p].todo = todo,
                                  ![p].pc = IF todo[1].operation = "handoff"
                                            THEN "artifact" ELSE "append"]
    BY <1>5
  <2>2. /\ Only(p) /\ proc'[p].now = proc[p].now /\ proc'[p].todo = todo
        /\ proc'[p].pc = IF todo[1].operation = "handoff" THEN "artifact" ELSE "append"
    BY <1>3, <2>1
  <2>3. proc[p].pc \in Critical /\ proc'[p].pc \in Critical
    BY <1>2, <2>2 DEF At, Critical
  <2>. QED
    BY <1>2, <2>2, <2>3 DEF LockStep, LockMove
<1>6. CASE LET todo == ReconcileClaims(table, proc[p].now)
           IN  proc' = [proc EXCEPT ![p].todo = todo,
                                    ![p].pc = IF todo = <<>> THEN "drop" ELSE "append"]
  <2> DEFINE todo == ReconcileClaims(table, proc[p].now)
  <2>1. proc' = [proc EXCEPT ![p].todo = todo,
                             ![p].pc = IF todo = <<>> THEN "drop" ELSE "append"]
    BY <1>6
  <2> HIDE DEF todo
  <2>2. /\ Only(p) /\ proc'[p].now = proc[p].now /\ proc'[p].todo = todo
        /\ proc'[p].pc = IF todo = <<>> THEN "drop" ELSE "append"
    BY <1>3, <2>1
  <2>3. proc[p].pc \in Critical /\ proc'[p].pc \in Critical
    BY <1>2, <2>2 DEF At, Critical
  <2>4. proc'[p].pc \notin Busy \/ proc'[p].pc = "append"
    BY <2>2 DEF Busy
  <2>. QED
    BY <1>2, <2>2, <2>3, <2>4 DEF LockStep, LockMove, todo
<1>. QED
  BY <1>4, <1>5, <1>6 DEF Load

\* An artifact and an append stay within it,
LEMMA WorkMoves ==
    ASSUME IInv, NEW p \in Procs, SaveHandoffArtifact(p) \/ AppendRecord(p) \/ AppendFails(p)
    PROVE  /\ LockStep(p) /\ proc'[p].now = proc[p].now /\ proc'[p].todo = proc[p].todo
           /\ \/ proc'[p].pc \notin Busy
              \/ SaveHandoffArtifact(p) /\ proc'[p].pc = "append"
              \/ AppendRecord(p) /\ proc'[p].pc = "save"
<1>1. CASE SaveHandoffArtifact(p)
  <2>1. proc[p].pc = "artifact" /\ lock' = lock /\ clock' = clock
        /\ (Goto(p, "append") \/ Goto(p, "fail"))
    BY <1>1 DEF SaveHandoffArtifact, At
  <2>. QED
    BY <1>1, <2>1, MovesTo DEF LockStep, LockMove, Critical, Busy
<1>2. CASE AppendRecord(p)
  <2>1. proc[p].pc = "append" /\ lock' = lock /\ clock' = clock
        /\ (Goto(p, "save") \/ Goto(p, "fail"))
    BY <1>2 DEF AppendRecord, At
  <2>. QED
    BY <1>2, <2>1, MovesTo DEF LockStep, LockMove, Critical, Busy
<1>3. CASE AppendFails(p)
  <2>1. proc[p].pc = "append" /\ lock' = lock /\ clock' = clock /\ Goto(p, "fail")
    BY <1>3 DEF AppendFails, AppendCutShort, At
  <2>. QED
    BY <2>1, MovesTo DEF LockStep, LockMove, Critical, Busy
<1>. QED
  BY <1>1, <1>2, <1>3

\* and so does the cache.
LEMMA SaveMoves ==
    ASSUME IInv, NEW p \in Procs, SaveClaim(p)
    PROVE  /\ LockStep(p) /\ proc'[p].now = proc[p].now
           /\ \/ proc'[p].pc \notin Busy
              \/ /\ proc'[p].pc = "append" /\ Len(proc[p].todo) # 1
                 /\ proc'[p].todo = Tail(proc[p].todo)
<1>1. proc \in [Procs -> Progress] /\ proc[p] \in Progress
  BY IInvIs
<1>2. proc[p].pc = "save" /\ lock' = lock /\ clock' = clock
  BY DEF SaveClaim, At
<1>3. CASE Goto(p, "fail")
  BY <1>2, <1>3, MovesTo DEF LockStep, LockMove, Critical, Busy
<1>4. CASE proc' = [proc EXCEPT ![p].todo = Tail(@),
                       ![p].pc = IF Len(proc[p].todo) = 1 THEN "drop" ELSE "append"]
  <2> DEFINE label == IF Len(proc[p].todo) = 1 THEN "drop" ELSE "append"
             rest == Tail(proc[p].todo)
  <2>1. proc'[p] = [proc[p] EXCEPT !.todo = rest, !.pc = label] /\ Only(p)
    BY <1>1, <1>4 DEF Only
  <2>2. label \in {"drop", "append"} /\ (label = "append" => Len(proc[p].todo) # 1)
    OBVIOUS
  <2> HIDE DEF label, rest
  <2>3. proc'[p].pc = label /\ proc'[p].now = proc[p].now /\ proc'[p].todo = rest
    BY <1>1, <2>1 DEF Progress
  <2>4. proc[p].pc \in Critical /\ proc'[p].pc \in Critical
    BY <1>2, <2>2, <2>3 DEF Critical
  <2>5. proc'[p].pc \notin Busy \/ proc'[p].pc = "append"
    BY <2>2, <2>3 DEF Busy
  <2>. QED
    BY <1>2, <2>1, <2>2, <2>3, <2>4, <2>5 DEF LockStep, LockMove, rest
<1>. QED
  BY <1>3, <1>4 DEF SaveClaim

\* A process that dies leaves its lock file.
LEMMA DeathMoves ==
    ASSUME IInv, NEW p \in Procs, Crash(p) \/ CrashInAppend(p)
    PROVE  LockStep(p) /\ proc'[p].pc = "dead" /\ proc'[p].now = 0 /\ Die(p)
<1>1. /\ Die(p) /\ Return(p, "dead") /\ lock' = lock /\ clock' = clock
      /\ proc[p].pc \notin {"dead", "exited"}
  BY DEF Crash, CrashInAppend, AppendCutShort, Die, Alive, At
<1>. QED
  BY <1>1, MovesTo DEF LockStep, LockMove

\* Every step of a process.
LEMMA LockSteps ==
    ASSUME IInv, Held, NEW p \in Procs, Start(p) \/ Step(p) \/ Crash(p) \/ CrashInAppend(p)
    PROVE  LockStep(p)
  BY StartMoves, AskMoves, HolderMoves, LoadMoves, WorkMoves, SaveMoves, DeathMoves DEF Step

\* A step takes or gives back the lock for itself, as long as no lock of a live
\* process is reclaimed.
LEMMA LockKept ==
    ASSUME IInv, Held, ~spent'.usurped, NEW p \in Procs, LockStep(p)
    PROVE  Held'
<1> DEFINE from == proc[p].pc
           to == proc'[p].pc
<1>1. Only(p) /\ clock' = clock /\ LockMove(p, from, to)
  BY DEF LockStep
<1>2. lock \in Locks /\ "nobody" \notin Procs
  BY IInvIs, ClaimStoreAssumption DEF RestTyped
<1>3. \A q \in Procs : q # p => proc'[q].pc = proc[q].pc
  BY <1>1 DEF Only
<1>4. \A q \in Procs : proc[q].pc \in Inside => lock.owner = q
  BY DEF Held
<1>5. /\ from \in Inside =>
            lock.owner = p /\ lock.signed = (from # "sign") /\ (from = "sign" => lock.made = clock)
      /\ from \notin Inside \cup {"dead"} => lock.owner # p
  BY DEF Held
<1>6. \A q \in Procs : q # p /\ proc[q].pc \in Inside =>
          /\ lock.owner = q
          /\ lock.signed = (proc[q].pc # "sign")
          /\ proc[q].pc = "sign" => lock.made = clock
  BY DEF Held
<1>7. /\ lock.owner \in Procs => proc[lock.owner].pc \in Inside \cup {"dead"}
      /\ lock.owner \notin Procs => lock = NoLock
  BY DEF Held
<1>8. NoLock.owner \notin Procs
  BY <1>2 DEF NoLock
<1>9. SUFFICES /\ \A q \in Procs : proc'[q].pc \in Inside =>
                      /\ lock'.owner = q
                      /\ lock'.signed = (proc'[q].pc # "sign")
                      /\ proc'[q].pc = "sign" => lock'.made = clock
               /\ lock'.owner \in Procs => proc'[lock'.owner].pc \in Inside \cup {"dead"}
               /\ lock'.owner \notin Procs => lock' = NoLock
  BY <1>1 DEF Held
<1> HIDE DEF from, to
<1>10. proc[p].pc = from /\ proc'[p].pc = to
  BY DEF from, to
\* Nobody is inside, and no lock file is left.
<1>11. CASE lock' = NoLock /\ to \notin Inside /\ \A q \in Procs : q # p => proc[q].pc \notin Inside
  BY <1>3, <1>8, <1>10, <1>11
<1>12. CASE from \in Outside /\ to \in Outside \cup {"exited", "reclaim"} /\ lock' = lock
  <2>1. from \notin Inside \cup {"dead"} /\ to \notin Inside
    BY <1>12 DEF Outside, Inside, Critical
  <2>. QED
    BY <1>3, <1>5, <1>6, <1>7, <1>10, <1>12, <2>1
<1>13. CASE /\ from = "reclaim" /\ to = "create" /\ lock' = NoLock
            /\ lock = NoLock \/ ~Alive(lock.owner)
  <2>1. lock = NoLock \/ ~Alive(lock.owner)
    BY <1>13
  <2>2. \A q \in Procs : q # p => proc[q].pc \notin Inside
    BY <1>4, <1>8, <2>1 DEF Alive, Inside, Critical
  <2>3. to \notin Inside
    BY <1>13 DEF Inside, Critical
  <2>. QED
    BY <1>11, <1>13, <2>2, <2>3
<1>14. CASE /\ from = "create" /\ to = "sign" /\ lock = NoLock
            /\ lock' = [owner |-> p, signed |-> FALSE, made |-> clock]
  <2>1. lock'.owner = p /\ lock'.signed = FALSE /\ lock'.made = clock
    BY <1>14
  <2>2. \A q \in Procs : q # p => proc[q].pc \notin Inside
    BY <1>4, <1>8, <1>14
  <2>3. to \in Inside
    BY <1>14 DEF Inside
  <2>. QED
    BY <1>3, <1>10, <1>14, <2>1, <2>2, <2>3
<1>15. CASE from = "sign" /\ to = "load" /\ lock' = [lock EXCEPT !.signed = TRUE]
  <2>1. from \in Inside /\ to \in Inside /\ to # "sign"
    BY <1>15 DEF Inside, Critical
  <2>2. lock'.owner = p /\ lock'.signed = TRUE
    BY <1>2, <1>5, <1>15, <2>1 DEF Locks
  <2>. QED
    BY <1>3, <1>4, <1>5, <1>10, <2>1, <2>2
<1>16. CASE from \in Critical /\ to \in Critical /\ lock' = lock
  <2>1. from \in Inside /\ to \in Inside /\ to # "sign" /\ from # "sign"
    BY <1>16 DEF Inside, Critical
  <2>. QED
    BY <1>3, <1>5, <1>6, <1>7, <1>10, <1>16, <2>1
<1>17. CASE from \in Inside /\ to \in {"idle", "exited"} /\ lock' = NoLock
  <2>1. to \notin Inside
    BY <1>17 DEF Inside, Critical
  <2>. QED
    BY <1>4, <1>5, <1>11, <1>17, <2>1
<1>18. CASE from \notin {"dead", "exited"} /\ to = "dead" /\ lock' = lock
  <2>1. to \notin Inside
    BY <1>18 DEF Inside, Critical
  <2>. QED
    BY <1>3, <1>6, <1>7, <1>10, <1>18, <2>1
<1>19. from = "inspect" => from \in Outside
  BY DEF Outside
<1>. QED
  BY <1>1, <1>12, <1>13, <1>14, <1>15, <1>16, <1>17, <1>18, <1>19 DEF LockMove

\* Readers leave the lock alone, and the clock stands while a lock is unsigned.
LEMMA LockWaits ==
    ASSUME Held, Status \/ Tick \/ UNCHANGED vars
    PROVE  Held'
<1>1. proc' = proc /\ lock' = lock
  BY DEF Status, Tick, vars
<1>2. clock' = clock \/ \A p \in Procs : proc[p].pc # "sign"
  BY DEF Status, Tick, vars, At
<1>. QED
  BY <1>1, <1>2 DEF Held

\* At first nobody has the lock,
LEMMA HeldInit ==
    ASSUME Init
    PROVE  Held
<1>1. NoLock.owner \notin Procs
  BY ClaimStoreAssumption DEF NoLock
<1>2. \A p \in Procs : proc[p].pc \notin Inside
  BY DEF Init, Idle, Inside, Critical
<1>. QED
  BY <1>1, <1>2 DEF Init, Held

\* and every step keeps it with whoever works.
LEMMA HeldNext ==
    ASSUME IInv, Held, ~spent'.usurped, [Next]_vars
    PROVE  Held'
<1>1. ASSUME NEW p \in Procs, Start(p) \/ Step(p) \/ Crash(p) \/ CrashInAppend(p) PROVE Held'
  BY <1>1, LockSteps, LockKept
<1>2. CASE Status \/ Tick \/ UNCHANGED vars
  BY <1>2, LockWaits
<1>. QED
  BY <1>1, <1>2 DEF Next

-----------------------------------------------------------------------------
(***************************************************************************)
(* What the commands decide.                                               *)
(***************************************************************************)
\* A claim blocks an acquire whatever time it is: expired or not, it is in the way
\* until it was released or handed off.
LEMMA BlocksIs ==
    ASSUME NEW c, NEW now
    PROVE  Blocks(c, now) <=> c.status \in Holding
  BY DEF Blocks, IsLive, Holding, Policy, Open

\* What a decision other than a reconcile pass is made of.
Decided(todo, r) ==
    /\ todo = <<r>>
    /\ r.claim.status # "expired"
    /\ r.operation # "handoff" => r.claim.status # "handoff_recorded"
    /\ r.operation # "acquire" => /\ r.claim.agent = table[r.id].agent
                                  /\ r.claim.paths = table[r.id].paths
    /\ r.operation = "acquire" => Free(r)
    /\ r.operation = "handoff" => table[r.id].status \in Holding

\* That is what every decision is.
LEMMA DecisionIs ==
    ASSUME IInv, NEW p \in Procs, NEW todo \in Decisions(p)
    PROVE  \E r \in Records : Decided(todo, r)
<1> DEFINE now == proc[p].now
           rec(operation, id, claim) == [operation |-> operation, id |-> id, claim |-> claim]
           one(operation, id, claim) == <<rec(operation, id, claim)>>
<1>1. now \in Nat /\ \A id \in Ids : table[id] \in Claims
  BY DEF IInv, TypeOK
<1>2. \/ \E a \in Agents, q \in Requests :
            CanAcquire(table, q.id, q, now) /\ todo = one("acquire", q.id, Acquired(a, q, now))
      \/ \E id \in Ids : todo = one("heartbeat", id, Heartbeaten(table[id], now))
      \/ \E id \in Ids : todo = one("release", id, Released(table[id]))
      \/ \E id \in Ids : /\ CanRecordHandoff(table[id], now)
                         /\ todo = one("handoff", id, HandoffRecorded(table[id]))
  <2> DEFINE A == {one("acquire", q.id, Acquired(a, q, now)) :
                     a \in Agents, q \in {r \in Requests : CanAcquire(table, r.id, r, now)}}
             H == {one("heartbeat", id, Heartbeaten(table[id], now)) :
                     id \in {i \in Ids : \E a \in Agents : CanHeartbeat(table[i], a, now)}}
             R == {one("release", id, Released(table[id])) :
                     id \in {i \in Ids : \E a \in Agents : CanRelease(table[i], a, now)}}
             O == {one("handoff", id, HandoffRecorded(table[id])) :
                     id \in {i \in Ids : CanRecordHandoff(table[i], now)}}
  <2>1. Decisions(p) = UNION {A, H, R, O}
    BY DEF Decisions
  <2>2. todo \in A \/ todo \in H \/ todo \in R \/ todo \in O
    <3> HIDE DEF A, H, R, O
    <3>. QED
      BY <2>1
  <2>. QED
    BY <2>2
<1>3. CASE \E a \in Agents, q \in Requests :
             CanAcquire(table, q.id, q, now) /\ todo = one("acquire", q.id, Acquired(a, q, now))
  <2>1. PICK a \in Agents, q \in Requests :
             CanAcquire(table, q.id, q, now) /\ todo = one("acquire", q.id, Acquired(a, q, now))
    BY <1>3
  <2> DEFINE c == Acquired(a, q, now)
             r == rec("acquire", q.id, c)
  <2>2. q.id \in Ids /\ c \in Claims
    BY <1>1, AcquiredTyped
  <2>3. c.status = "active" /\ c.paths = q.paths
    BY DEF Acquired
  <2>4. /\ table[q.id].status \notin Holding
        /\ \A other \in Ids : FirstOverlappingPath(q.paths, table[other].paths)
                                => table[other].status \notin Holding
    BY <2>1, BlocksIs DEF CanAcquire
  <2> HIDE DEF c, now
  <2>5. r \in Records /\ r.operation = "acquire" /\ r.id = q.id /\ r.claim = c
    BY <2>2 DEF Records, Operations
  <2>6. todo = <<r>>
    BY <2>1 DEF c
  <2> HIDE DEF r
  <2>7. Free(r)
    BY <2>3, <2>4, <2>5 DEF Free
  <2>8. Decided(todo, r)
    BY <2>3, <2>5, <2>6, <2>7 DEF Decided
  <2>. QED
    BY <2>5, <2>8
<1>4. ASSUME NEW o \in {"heartbeat", "release", "handoff"}, NEW id \in Ids, NEW c \in Claims,
             todo = one(o, id, c), c.agent = table[id].agent, c.paths = table[id].paths,
             c.status # "expired", o # "handoff" => c.status # "handoff_recorded",
             o = "handoff" => table[id].status \in Holding
      PROVE  \E r \in Records : Decided(todo, r)
  <2> DEFINE r == rec(o, id, c)
  <2>1. r \in Records /\ r.operation = o /\ r.id = id /\ r.claim = c /\ todo = <<r>>
    BY <1>4 DEF Records, Operations
  <2> HIDE DEF r
  <2>2. Decided(todo, r)
    BY <1>4, <2>1 DEF Decided
  <2>. QED
    BY <2>1, <2>2
<1>5. ASSUME NEW id \in Ids
      PROVE  /\ Heartbeaten(table[id], now).agent = table[id].agent
             /\ Heartbeaten(table[id], now).paths = table[id].paths
             /\ Heartbeaten(table[id], now).status = "active"
             /\ Released(table[id]).agent = table[id].agent
             /\ Released(table[id]).paths = table[id].paths
             /\ Released(table[id]).status = "released"
             /\ HandoffRecorded(table[id]).agent = table[id].agent
             /\ HandoffRecorded(table[id]).paths = table[id].paths
             /\ HandoffRecorded(table[id]).status = "handoff_recorded"
  <2>1. table[id] \in Claims
    BY <1>1
  <2>. QED
    BY <2>1 DEF Claims, Heartbeaten, Released, HandoffRecorded
<1>6. ASSUME NEW id \in Ids, CanRecordHandoff(table[id], now) PROVE table[id].status \in Holding
  BY <1>6 DEF CanRecordHandoff, Holding
<1> HIDE DEF now, one, rec
<1>7. ASSUME NEW id \in Ids, todo = one("heartbeat", id, Heartbeaten(table[id], now))
      PROVE  \E r \in Records : Decided(todo, r)
  BY <1>1, <1>4, <1>5, <1>7, ClaimChanges
<1>8. ASSUME NEW id \in Ids, todo = one("release", id, Released(table[id]))
      PROVE  \E r \in Records : Decided(todo, r)
  BY <1>1, <1>4, <1>5, <1>8, ClaimChanges
<1>9. ASSUME NEW id \in Ids, CanRecordHandoff(table[id], now),
             todo = one("handoff", id, HandoffRecorded(table[id]))
      PROVE  \E r \in Records : Decided(todo, r)
  BY <1>1, <1>4, <1>5, <1>6, <1>9, ClaimChanges
<1>. QED
  BY <1>2, <1>3, <1>7, <1>8, <1>9

\* What a reconcile pass is made of.
LEMMA ReconcileIs ==
    ASSUME IInv, NEW now \in Nat, NEW i \in 1 .. Len(ReconcileClaims(table, now))
    PROVE  LET r == ReconcileClaims(table, now)[i]
           IN  /\ r.operation = "reconcile"
               /\ r.claim.status \in {"handoff_required", "stale"}
               /\ r.claim.agent = table[r.id].agent
               /\ r.claim.paths = table[r.id].paths
<1> DEFINE D == {id \in Ids : ReconciledStatus(table[id], now) # table[id].status}
           due == SetToSeq(D)
<1>1. due \in Seq(D)
  BY DueIsSequence
<1>2. ReconcileClaims(table, now) =
        [j \in DOMAIN due |-> [operation |-> "reconcile", id |-> due[j],
                               claim |-> Reconciled(table[due[j]], now)]]
  BY DEF ReconcileClaims
<1>3. \A id \in D : id \in Ids /\ ReconciledStatus(table[id], now) # table[id].status
  OBVIOUS
<1> HIDE DEF D, due
<1>4. DOMAIN due = 1 .. Len(due) /\ Len(due) \in Nat
  BY <1>1
<1>5. Len(ReconcileClaims(table, now)) = Len(due)
  BY <1>2, <1>4
<1>6. i \in DOMAIN due /\ due[i] \in D
  BY <1>1, <1>4, <1>5
<1> DEFINE id == due[i]
           c == Reconciled(table[id], now)
<1>7. id \in Ids /\ ReconciledStatus(table[id], now) # table[id].status /\ table[id] \in Claims
  BY <1>3, <1>6 DEF IInv, TypeOK
<1>8. ReconciledStatus(table[id], now) \in {"handoff_required", "stale"}
  BY <1>7 DEF ReconciledStatus, Policy
<1>9. c.status \in {"handoff_required", "stale"} /\ c.agent = table[id].agent /\ c.paths = table[id].paths
  BY <1>7, <1>8 DEF Reconciled, Claims
<1>10. ReconcileClaims(table, now)[i] = [operation |-> "reconcile", id |-> id, claim |-> c]
  BY <1>2, <1>6
<1> HIDE DEF id, c
<1>. QED
  BY <1>9, <1>10

-----------------------------------------------------------------------------
(***************************************************************************)
(* What a record does to the claims.                                       *)
(***************************************************************************)
\* A record that was decided against the claims as they are.
Apt(r) ==
    /\ r.claim.status # "expired"
    /\ r.operation # "acquire" => /\ r.claim.agent = table[r.id].agent
                                  /\ r.claim.paths = table[r.id].paths
    /\ r.operation = "acquire" => Free(r)

\* It replaces one claim: another agent's only when that one was closed, and the
\* paths of one that holds with the same, or with those of a claim that is free.
LEMMA ApplyIs ==
    ASSUME IInv, NEW r \in Records, Apt(r), NEW t, t = ApplyRecord(table, r)
    PROVE  /\ \A id \in Ids : t[id] = table[id] \/ (id = r.id /\ t[id] = r.claim)
           /\ \A id \in Ids : t[id].agent # table[id].agent => table[id].status \notin Holding
           /\ r.operation # "acquire" => \A id \in Ids : /\ t[id].agent = table[id].agent
                                                         /\ t[id].paths = table[id].paths
           /\ r.operation # "acquire" => \A id \in Ids :
                 t[id].status \in Holding => table[id].status \in Holding
<1>1. table \in [Ids -> Claims] /\ r.id \in Ids
  BY DEF IInv, TypeOK, Records
<1>2. t = table \/ t = [table EXCEPT ![r.id] = r.claim]
  BY DEF ApplyRecord
<1>3. \A id \in Ids : t[id] = table[id] \/ (id = r.id /\ t[id] = r.claim)
  BY <1>1, <1>2
<1>4. r.operation # "acquire" => t = table \/ table[r.id].status \in Holding
  BY DEF ApplyRecord, MatchingActiveClaim, MatchingOpenClaimForHandoff, Holding
<1>5. r.operation # "acquire" => \A id \in Ids : /\ t[id].agent = table[id].agent
                                                 /\ t[id].paths = table[id].paths
  BY <1>3 DEF Apt
<1>6. \A id \in Ids : t[id].agent # table[id].agent => table[id].status \notin Holding
  BY <1>3, <1>5 DEF Apt, Free
<1>7. r.operation # "acquire" => \A id \in Ids :
         t[id].status \in Holding => table[id].status \in Holding
  BY <1>3, <1>4
<1>. QED
  BY <1>3, <1>5, <1>6, <1>7

\* No two claims that hold overlap after it.
LEMMA ApplyDisjoint ==
    ASSUME IInv, Disjoint, NEW r \in Records, Apt(r), NEW t, t = ApplyRecord(table, r),
           NEW i \in Ids, NEW j \in Ids, i # j, t[i].status \in Holding, t[j].status \in Holding
    PROVE  ~FirstOverlappingPath(t[i].paths, t[j].paths)
<1>1. \A id \in Ids : t[id] = table[id] \/ (id = r.id /\ t[id] = r.claim)
  BY ApplyIs
<1>2. CASE r.operation # "acquire"
  <2>1. /\ t[i].paths = table[i].paths /\ t[j].paths = table[j].paths
        /\ table[i].status \in Holding /\ table[j].status \in Holding
    BY <1>2, ApplyIs
  <2>. QED
    BY <2>1 DEF Disjoint
<1>3. CASE r.operation = "acquire"
  <2>1. Free(r)
    BY <1>3 DEF Apt
  <2>2. CASE i = r.id
    <3>1. t[j] = table[j]
      BY <1>1, <2>2
    <3>2. t[i] = table[i] \/ t[i] = r.claim
      BY <1>1
    <3>. QED
      BY <2>1, <2>2, <3>1, <3>2 DEF Free, Disjoint
  <2>3. CASE j = r.id
    <3>1. t[i] = table[i]
      BY <1>1, <2>3
    <3>2. t[j] = table[j] \/ t[j] = r.claim
      BY <1>1
    <3>3. ~FirstOverlappingPath(t[j].paths, t[i].paths)
      BY <2>1, <2>3, <3>1, <3>2 DEF Free, Disjoint
    <3>. QED
      BY <3>3, OverlapIsMutual
  <2>4. CASE i # r.id /\ j # r.id
    <3>1. t[i] = table[i] /\ t[j] = table[j]
      BY <1>1, <2>4
    <3>. QED
      BY <3>1 DEF Disjoint
  <2>. QED
    BY <2>2, <2>3, <2>4
<1>. QED
  BY <1>2, <1>3

-----------------------------------------------------------------------------
(***************************************************************************)
(* The steps, for the claims.                                              *)
(***************************************************************************)
\* Whoever is at work has something to write, whose first record is this.
LEMMA HeadIs ==
    ASSUME IInv, Pending, NEW p \in Procs, proc[p].pc \in Busy
    PROVE  /\ proc[p].todo \in Seq(Records) /\ Len(proc[p].todo) \in Nat \ {0}
           /\ Head(proc[p].todo) = proc[p].todo[1] /\ Head(proc[p].todo) \in Records
           /\ Fresh(p, Head(proc[p].todo))
<1>1. proc[p].todo \in Seq(Records) /\ proc[p].todo # <<>>
  BY IInvIs DEF Progress, Working, Busy
<1>2. /\ Len(proc[p].todo) \in Nat \ {0} /\ Head(proc[p].todo) = proc[p].todo[1]
      /\ Head(proc[p].todo) \in Records
  BY <1>1
<1>3. 1 \in 1 .. Len(proc[p].todo)
  BY <1>2
<1>4. Fresh(p, proc[p].todo[1])
  BY <1>3 DEF Pending, Current
<1>. QED
  BY <1>1, <1>2, <1>4

\* Before an append, it was decided against the claims as they are.
LEMMA HeadIsApt ==
    ASSUME IInv, Pending, NEW p \in Procs, At(p, "append")
    PROVE  Head(proc[p].todo) \in Records /\ Apt(Head(proc[p].todo))
  BY HeadIs DEF At, Busy, Fresh, Apt

\* The claims change only by the record of somebody who stands before its append.
LEMMA TableMoves ==
    ASSUME NEW p \in Procs, Start(p) \/ Step(p) \/ Crash(p) \/ CrashInAppend(p)
    PROVE  \/ table' = table
           \/ At(p, "append") /\ table' = ApplyRecord(table, Head(proc[p].todo))
<1>1. ASSUME AppendCutShort(p)
      PROVE  \/ table' = table
             \/ At(p, "append") /\ table' = ApplyRecord(table, Head(proc[p].todo))
  BY <1>1 DEF AppendCutShort
<1>. QED
  BY <1>1 DEF Start, Step, CreateLock, InspectLock, ReclaimLock, SignLock, Load, SaveHandoffArtifact,
     AppendRecord, AppendFails, SaveClaim, CheckToken, DropLock, Crash, CrashInAppend

\* What that does to the claims that hold and to the expired ones.
LEMMA ClaimsKept ==
    ASSUME IInv, Disjoint, Pending, NoneExpired,
           NEW p \in Procs, Start(p) \/ Step(p) \/ Crash(p) \/ CrashInAppend(p)
    PROVE  /\ Disjoint' /\ NoneExpired'
           /\ \A id \in Ids : table'[id].agent # table[id].agent =>
                 table[id].status \in {"none", "released", "handoff_recorded"}
<1>1. CASE table' = table
  BY <1>1 DEF Disjoint, NoneExpired
<1>2. CASE At(p, "append") /\ table' = ApplyRecord(table, Head(proc[p].todo))
  <2> DEFINE r == Head(proc[p].todo)
  <2>1. r \in Records /\ Apt(r)
    BY <1>2, HeadIsApt
  <2> HIDE DEF r
  <2>2. table' = ApplyRecord(table, r)
    BY <1>2 DEF r
  <2>3. Disjoint'
    <3> SUFFICES ASSUME NEW i \in Ids, NEW j \in Ids, i # j,
                        table'[i].status \in Holding, table'[j].status \in Holding
                 PROVE  ~FirstOverlappingPath(table'[i].paths, table'[j].paths)
      BY DEF Disjoint
    <3>. QED
      BY <2>1, <2>2, ApplyDisjoint
  <2>4. \A id \in Ids : table'[id] = table[id] \/ table'[id] = r.claim
    BY <2>1, <2>2, ApplyIs
  <2>5. NoneExpired'
    BY <2>1, <2>4 DEF NoneExpired, Apt
  <2>6. \A id \in Ids : table'[id].agent # table[id].agent => table[id].status \notin Holding
    BY <2>1, <2>2, ApplyIs
  <2>7. \A id \in Ids : table[id].status \in Statuses /\ table[id].status # "expired"
    BY DEF IInv, TypeOK, Claims, NoneExpired
  <2>8. ASSUME NEW id \in Ids, table'[id].agent # table[id].agent
        PROVE  table[id].status \in {"none", "released", "handoff_recorded"}
    BY <2>6, <2>7, <2>8 DEF Statuses, Holding
  <2>. QED
    BY <2>3, <2>5, <2>8
<1>. QED
  BY <1>1, <1>2, TableMoves

\* While p has the lock nobody else has anything pending.
LEMMA OthersWait ==
    ASSUME Held, NEW p \in Procs, proc[p].pc \in Inside, NEW q \in Procs, q # p
    PROVE  proc[q].pc \notin Busy
  BY DEF Held, Inside, Critical, Busy

\* So what others have pending stays as fresh as it was.
LEMMA OthersFresh ==
    ASSUME IInv, Held, Pending, NEW p \in Procs,
           Start(p) \/ Step(p) \/ Crash(p) \/ CrashInAppend(p), NEW q \in Procs, q # p
    PROVE  Current(q)'
<1> SUFFICES ASSUME proc'[q].pc \in Busy PROVE Current(q)'
  BY DEF Current
<1>1. proc'[q] = proc[q]
  BY LockSteps DEF LockStep, Only
<1>2. proc[p].pc \notin Inside
  BY <1>1, OthersWait
<1>3. table' = table
  BY <1>2, TableMoves DEF At, Inside, Critical
<1>4. Current(q)
  BY DEF Pending
<1>. QED
  BY <1>1, <1>3, <1>4 DEF Current, Fresh, Free

\* What a load decides is fresh.
LEMMA LoadFresh ==
    ASSUME IInv, NEW p \in Procs, Load(p)
    PROVE  Current(p)'
<1> SUFFICES ASSUME proc'[p].pc \in Busy PROVE Current(p)'
  BY DEF Current
<1>1. table' = table
  BY DEF Load
<1>2. CASE /\ proc'[p].todo \in Decisions(p)
           /\ proc'[p].pc = IF proc'[p].todo[1].operation = "handoff"
                            THEN "artifact" ELSE "append"
  <2>1. PICK r \in Records : Decided(proc'[p].todo, r)
    BY <1>2, DecisionIs
  <2>2. Len(proc'[p].todo) = 1 /\ proc'[p].todo[1] = r /\ \A i \in 1 .. 1 : i = 1
    BY <2>1 DEF Decided
  <2>3. /\ r.claim.status # "expired"
        /\ r.operation # "handoff" => r.claim.status # "handoff_recorded"
        /\ r.operation # "acquire" => /\ r.claim.agent = table'[r.id].agent
                                      /\ r.claim.paths = table'[r.id].paths
        /\ r.operation = "acquire" => Free(r)'
        /\ r.operation = "handoff" => table'[r.id].status \in Holding
    BY <1>1, <2>1 DEF Decided, Free
  <2>4. \A i \in 1 .. Len(proc'[p].todo) : i = 1
    BY <2>2
  <2>5. proc'[p].pc = "artifact" => r.operation = "handoff"
    BY <1>2, <2>2
  <2>. QED
    BY <2>2, <2>3, <2>4, <2>5 DEF Current, Fresh, Free
<1>3. CASE proc'[p].todo = ReconcileClaims(table, proc[p].now) /\ proc'[p].pc = "append"
  <2>1. proc[p].now \in Nat
    BY IInvIs DEF Progress
  <2> DEFINE todo == ReconcileClaims(table, proc[p].now)
  <2>2. \A i \in 1 .. Len(todo) : /\ todo[i].operation = "reconcile"
                                  /\ todo[i].claim.status \in {"handoff_required", "stale"}
                                  /\ todo[i].claim.agent = table[todo[i].id].agent
                                  /\ todo[i].claim.paths = table[todo[i].id].paths
    BY <2>1, ReconcileIs
  <2>3. proc'[p].todo = todo
    BY <1>3
  <2> HIDE DEF todo
  <2>. QED
    BY <1>1, <1>3, <2>2, <2>3 DEF Current, Fresh
<1>. QED
  BY <1>2, <1>3, LoadMoves

\* An artifact changes nothing of the decision,
LEMMA ArtifactFresh ==
    ASSUME IInv, Pending, NEW p \in Procs, SaveHandoffArtifact(p)
    PROVE  Current(p)'
<1> SUFFICES ASSUME proc'[p].pc \in Busy PROVE Current(p)'
  BY DEF Current
<1>1. /\ table' = table /\ proc[p].pc = "artifact" /\ proc'[p].todo = proc[p].todo
      /\ proc[p].pc \in Busy
  BY WorkMoves DEF SaveHandoffArtifact, At, Busy
<1>2. \A i \in 1 .. Len(proc[p].todo) : Fresh(p, proc[p].todo[i])
  BY <1>1 DEF Pending, Current
<1>3. proc[p].pc # "save" /\ proc'[p].pc = "append"
  BY <1>1, WorkMoves DEF AppendRecord, At
<1>. QED
  BY <1>1, <1>2, <1>3 DEF Current, Fresh, Free

\* and an append only that its own record is done.
LEMMA AppendFresh ==
    ASSUME IInv, Pending, NEW p \in Procs, AppendRecord(p)
    PROVE  Current(p)'
<1> SUFFICES ASSUME proc'[p].pc \in Busy PROVE Current(p)'
  BY DEF Current
<1> DEFINE todo == proc[p].todo
           r == Head(proc[p].todo)
<1>1. At(p, "append") /\ proc'[p].todo = todo /\ proc'[p].pc = "save"
  BY WorkMoves DEF AppendRecord, SaveHandoffArtifact, At
<1>2. table' = table \/ table' = ApplyRecord(table, r)
  BY DEF AppendRecord
<1>3. r \in Records /\ Apt(r) /\ Fresh(p, r) /\ r = todo[1]
  BY <1>1, HeadIs, HeadIsApt DEF At, Busy
<1>4. \A i \in 1 .. Len(todo) : Fresh(p, todo[i])
  BY <1>1 DEF Pending, Current, At, Busy
<1>5. todo \in Seq(Records)
  BY IInvIs DEF Progress
<1> HIDE DEF r
<1>6. CASE r.operation = "acquire"
  <2>1. Len(todo) = 1
    BY <1>3, <1>6 DEF Fresh
  <2>2. \A i \in 1 .. Len(todo) : todo[i] = r
    BY <1>3, <2>1
  <2>. QED
    BY <1>1, <1>3, <1>6, <2>1, <2>2 DEF Current, Fresh
<1>7. CASE r.operation # "acquire"
  <2>1. \A id \in Ids : table'[id].agent = table[id].agent /\ table'[id].paths = table[id].paths
    BY <1>2, <1>3, <1>7, ApplyIs
  <2>2. \A i \in 1 .. Len(todo) : todo[i].id \in Ids
    <3>1. \A i \in 1 .. Len(todo) : todo[i] \in Records
      BY <1>5
    <3>. QED
      BY <3>1 DEF Records
  <2> HIDE DEF todo
  <2>. QED
    BY <1>1, <1>4, <2>1, <2>2 DEF Current, Fresh, todo
<1>. QED
  BY <1>6, <1>7

\* The rest of a reconcile pass is as fresh as the whole of it.
LEMMA SaveFresh ==
    ASSUME IInv, Pending, NEW p \in Procs, SaveClaim(p)
    PROVE  Current(p)'
<1> SUFFICES ASSUME proc'[p].pc \in Busy PROVE Current(p)'
  BY DEF Current
<1> DEFINE todo == proc[p].todo
           rest == Tail(proc[p].todo)
<1>1. proc'[p].pc = "append" /\ Len(todo) # 1 /\ proc'[p].todo = rest /\ table' = table
  BY SaveMoves DEF SaveClaim
<1>2. proc[p].pc \in Busy
  BY DEF SaveClaim, At, Busy
<1>3. todo \in Seq(Records) /\ Len(todo) \in Nat \ {0}
  BY <1>2, HeadIs
<1>4. \A i \in 1 .. Len(todo) : Fresh(p, todo[i])
  BY <1>2 DEF Pending, Current
<1>5. Len(rest) = Len(todo) - 1 /\ \A i \in 1 .. Len(rest) : rest[i] = todo[i + 1]
  BY <1>3
<1> HIDE DEF todo, rest
<1>6. ASSUME NEW i \in 1 .. Len(rest)
      PROVE  Fresh(p, rest[i]) /\ rest[i].operation \notin {"acquire", "handoff"}
  <2>1. i + 1 \in 1 .. Len(todo)
    BY <1>3, <1>5
  <2>2. Fresh(p, rest[i])
    BY <1>4, <1>5, <2>1
  <2>. QED
    BY <1>1, <2>2 DEF Fresh, todo
<1>. QED
  BY <1>1, <1>6 DEF Current, Fresh

\* All that is pending stays fresh.
LEMMA PendingKept ==
    ASSUME IInv, Held, Pending, NEW p \in Procs,
           Start(p) \/ Step(p) \/ Crash(p) \/ CrashInAppend(p)
    PROVE  Pending'
<1>1. \A q \in Procs : q # p => Current(q)'
  BY OthersFresh
<1>2. ASSUME proc'[p].pc \notin Busy PROVE Current(p)'
  BY <1>2 DEF Current
<1>3. AppendFails(p) => proc'[p].pc \notin Busy
  BY MovesTo DEF AppendFails, Busy
<1>4. Current(p)'
  <2>1. CASE Start(p)
    BY <1>2, <2>1, StartMoves DEF Busy
  <2>2. CASE CreateLock(p) \/ InspectLock(p) \/ ReclaimLock(p)
    BY <1>2, <2>2, AskMoves
  <2>3. CASE SignLock(p) \/ CheckToken(p) \/ DropLock(p)
    BY <1>2, <2>3, HolderMoves
  <2>4. CASE Crash(p) \/ CrashInAppend(p)
    BY <1>2, <2>4, DeathMoves DEF Busy
  <2>. QED
    BY <1>2, <1>3, <2>1, <2>2, <2>3, <2>4, LoadFresh, ArtifactFresh, AppendFresh, SaveFresh DEF Step
<1>. QED
  BY <1>1, <1>4 DEF Pending

\* Times that were read stay within the bound.
LEMMA ClockedKept ==
    ASSUME IInv, Held, Clocked, NEW p \in Procs,
           Start(p) \/ Step(p) \/ Crash(p) \/ CrashInAppend(p)
    PROVE  Clocked'
<1>1. LockStep(p)
  BY LockSteps
<1>2. clock' = clock /\ \A q \in Procs : q # p => proc'[q].now = proc[q].now
  BY <1>1 DEF LockStep, Only
<1>3. proc'[p].now \in {0, clock, proc[p].now}
  BY StartMoves, AskMoves, HolderMoves, LoadMoves, WorkMoves, SaveMoves, DeathMoves DEF Step
<1>4. 0 <= MaxClock
  BY ClaimStoreAssumption
<1>. QED
  BY <1>2, <1>3, <1>4 DEF Clocked

\* Readers and the clock change nothing of this.
LEMMA OwnedWaits ==
    ASSUME IInv, Owned, Status \/ Tick \/ UNCHANGED vars
    PROVE  Owned'
<1>1. proc' = proc /\ lock' = lock /\ table' = table
  BY DEF Status, Tick, vars
<1>2. clock' = clock \/ (clock' = clock + 1 /\ clock < MaxClock)
  BY DEF Status, Tick, vars
<1>3. clock \in Nat /\ MaxClock \in Nat
  BY ClaimStoreAssumption DEF IInv, TypeOK
<1>4. Held'
  BY LockWaits DEF Owned
<1>5. Clocked'
  BY <1>1, <1>2, <1>3 DEF Owned, Clocked
<1>6. Disjoint' /\ NoneExpired'
  BY <1>1 DEF Owned, Disjoint, NoneExpired
<1>7. Pending'
  BY <1>1 DEF Owned, Pending, Current, Fresh, Free
<1>. QED
  BY <1>4, <1>5, <1>6, <1>7 DEF Owned

\* At first there are no claims,
LEMMA OwnedInit ==
    ASSUME Init
    PROVE  Owned
<1>1. \A id \in Ids : table[id].status = "none"
  BY DEF Init, NoClaim
<1>2. Disjoint /\ NoneExpired
  BY <1>1 DEF Disjoint, NoneExpired, Holding, Open
<1>3. \A p \in Procs : proc[p].pc = "idle" /\ proc[p].now = 0
  BY DEF Init, Idle
<1>4. Pending
  BY <1>3 DEF Pending, Current, Busy
<1>5. Clocked
  BY <1>3, ClaimStoreAssumption DEF Init, Clocked
<1>. QED
  BY <1>2, <1>4, <1>5, HeldInit DEF Owned

\* and every step keeps them apart.
LEMMA OwnedNext ==
    ASSUME IInv, Owned, ~spent'.usurped, [Next]_vars
    PROVE  Owned'
<1>1. ASSUME NEW p \in Procs, Start(p) \/ Step(p) \/ Crash(p) \/ CrashInAppend(p) PROVE Owned'
  <2>1. Held'
    BY <1>1, LockSteps, LockKept DEF Owned
  <2>2. Disjoint' /\ NoneExpired'
    BY <1>1, ClaimsKept DEF Owned
  <2>3. Pending'
    BY <1>1, PendingKept DEF Owned
  <2>4. Clocked'
    BY <1>1, ClockedKept DEF Owned
  <2>. QED
    BY <2>1, <2>2, <2>3, <2>4 DEF Owned
<1>2. CASE Status \/ Tick \/ UNCHANGED vars
  BY <1>2, OwnedWaits
<1>. QED
  BY <1>1, <1>2 DEF Next

-----------------------------------------------------------------------------
(***************************************************************************)
(* The evidence of handoffs.                                               *)
(***************************************************************************)
\* No two claims have the same scope id, whatever kind the scopes are of.
ScopesDistinct == \A i, j \in Ids : ScopeOf[i] = ScopeOf[j] => i = j

\* Where a process comes to stand before an append.
LEMMA ComesToAppend ==
    ASSUME IInv, Owned, NEW p \in Procs, Start(p) \/ Step(p) \/ Crash(p) \/ CrashInAppend(p),
           proc'[p].pc = "append"
    PROVE  \/ SaveHandoffArtifact(p)
           \/ Head(proc'[p].todo).operation # "handoff"
<1>1. Held /\ Pending
  BY DEF Owned
<1>2. CASE Load(p)
  <2>1. CASE /\ proc'[p].todo \in Decisions(p)
             /\ proc'[p].pc = IF proc'[p].todo[1].operation = "handoff"
                              THEN "artifact" ELSE "append"
    <3>1. PICK r \in Records : Decided(proc'[p].todo, r)
      BY <2>1, DecisionIs
    <3>2. Head(proc'[p].todo) = r /\ proc'[p].todo[1] = r
      BY <3>1 DEF Decided
    <3>. QED
      BY <2>1, <3>2
  <2>2. CASE proc'[p].todo = ReconcileClaims(table, proc[p].now)
    <3> DEFINE todo == ReconcileClaims(table, proc[p].now)
    <3>1. proc[p].now \in Nat
      BY IInvIs DEF Progress
    <3>2. todo \in Seq(Records)
      BY <3>1, ReconcileTyped DEF IInv
    <3>3. \A i \in 1 .. Len(todo) : todo[i].operation = "reconcile"
      BY <3>1, ReconcileIs
    <3>4. proc'[p].todo = todo
      BY <2>2
    <3>5. todo # <<>>
      <4>1. IInv'
        BY <1>2, LoadKeeps
      <4>2. Working'
        BY <4>1 DEF IInv
      <4>. QED
        BY <3>4, <4>2 DEF Working
    <3> HIDE DEF todo
    <3>6. Head(todo) = todo[1] /\ 1 \in 1 .. Len(todo)
      BY <3>2, <3>5
    <3>. QED
      BY <3>3, <3>4, <3>6
  <2>. QED
    BY <1>2, <2>1, <2>2, LoadMoves DEF Busy
<1>3. CASE SaveClaim(p)
  <2> DEFINE todo == proc[p].todo
  <2>1. Len(todo) # 1 /\ proc'[p].todo = Tail(todo) /\ proc[p].pc \in Busy
    BY <1>3, SaveMoves DEF SaveClaim, At, Busy
  <2>2. todo \in Seq(Records) /\ Len(todo) \in Nat \ {0}
    BY <1>1, <2>1, HeadIs
  <2>3. Head(Tail(todo)) = todo[2] /\ 2 \in 1 .. Len(todo)
    <3> HIDE DEF todo
    <3>0. ASSUME NEW n \in Nat \ {0}, n # 1
          PROVE  1 \in 1 .. (n - 1) /\ 2 \in 1 .. n /\ n - 1 # 0
      BY <3>0
    <3>1. /\ Tail(todo) \in Seq(Records) /\ Len(Tail(todo)) = Len(todo) - 1
          /\ \A i \in 1 .. (Len(todo) - 1) : Tail(todo)[i] = todo[i + 1]
      BY <2>2
    <3>2. 1 \in 1 .. (Len(todo) - 1) /\ 2 \in 1 .. Len(todo) /\ Len(todo) - 1 # 0
      BY <2>1, <2>2, <3>0
    <3>3. Tail(todo)[1] = todo[2]
      BY <3>1, <3>2
    <3>4. Head(Tail(todo)) = Tail(todo)[1]
      BY <3>1, <3>2
    <3>. QED
      BY <3>2, <3>3, <3>4
  <2>4. Fresh(p, todo[2])
    BY <1>1, <2>1, <2>3 DEF Pending, Current
  <2>. QED
    BY <2>1, <2>3, <2>4 DEF Fresh
<1>4. CASE AppendRecord(p) \/ AppendFails(p)
  <2>1. Goto(p, "save") \/ Goto(p, "fail")
    BY <1>4 DEF AppendRecord, AppendFails
  <2>. QED
    BY <2>1, MovesTo
<1>. QED
  BY <1>1, <1>2, <1>3, <1>4, StartMoves, AskMoves, HolderMoves, DeathMoves DEF Step, Busy

\* The artifact of a handoff overwrites no other that counts.
LEMMA ArtifactEvidence ==
    ASSUME ScopesDistinct, IInv, Owned, Evidence, NEW p \in Procs, SaveHandoffArtifact(p)
    PROVE  Evidence'
<1> DEFINE r == Head(proc[p].todo)
           ref == HandoffArtifactRef(p)
<1>1. /\ Held /\ Pending /\ Clocked
      /\ proc[p].pc = "artifact" /\ proc[p].pc \in Busy /\ proc[p].pc \in Inside
      /\ table' = table /\ Only(p)
      /\ proc'[p].now = proc[p].now /\ proc'[p].todo = proc[p].todo
  BY WorkMoves DEF Owned, SaveHandoffArtifact, At, Busy, Inside, Critical, LockStep
<1>2. r \in Records /\ Fresh(p, r)
  BY <1>1, HeadIs
<1>3. \A q \in Procs : q # p => proc'[q].pc # "append"
  BY <1>1, OthersWait DEF Only, Busy
<1>4. CASE artifacts' = artifacts /\ Goto(p, "fail")
  <2>1. proc'[p].pc # "append"
    BY <1>4, MovesTo
  <2>2. AllEvidenced'
    BY <1>1, <1>4 DEF Evidence, AllEvidenced, Evidenced
  <2>. QED
    BY <1>3, <2>1, <2>2 DEF Evidence, At
<1>5. CASE artifacts' = [artifacts EXCEPT ![ref] = r.claim]
  <2>1. artifacts \in [ArtifactRefs -> Claims] /\ r.id \in Ids
    BY <1>2 DEF IInv, TypeOK, Records
  <2>2. proc[p].now \in 0 .. MaxClock
    BY <1>1, ClaimStoreAssumption, IInvIs DEF Clocked, Progress
  <2>3. ref = <<ScopeOf[r.id], proc[p].now>> /\ ref \in ArtifactRefs
    BY <2>1, <2>2 DEF HandoffArtifactRef, ArtifactRefs
  <2>4. artifacts'[ref] = r.claim
    BY <1>5, <2>1, <2>3
  <2>5. HandoffArtifactRef(p)' = ref
    BY <1>1 DEF HandoffArtifactRef
  <2>6. table[r.id].status # "handoff_recorded"
    BY <1>1, <1>2 DEF Fresh, Holding, Open
  <2>7. ASSUME NEW id \in Ids, table[id].status = "handoff_recorded"
        PROVE  \E n \in 0 .. MaxClock : artifacts'[<<ScopeOf[id], n>>] = table[id]
    <3>1. PICK n \in 0 .. MaxClock : artifacts[<<ScopeOf[id], n>>] = table[id]
      BY <2>7 DEF Evidence, AllEvidenced, Evidenced
    <3>2. id # r.id
      BY <2>6, <2>7
    <3>3. ScopeOf[id] # ScopeOf[r.id]
      BY <2>1, <3>2 DEF ScopesDistinct
    <3>4. <<ScopeOf[id], n>> # ref
      BY <2>3, <3>3
    <3>5. <<ScopeOf[id], n>> \in ArtifactRefs
      BY DEF ArtifactRefs
    <3>6. artifacts'[<<ScopeOf[id], n>>] = artifacts[<<ScopeOf[id], n>>]
      BY <1>5, <2>1, <3>4, <3>5
    <3>. QED
      BY <3>1, <3>6
  <2>8. AllEvidenced'
    BY <1>1, <2>7 DEF AllEvidenced, Evidenced
  <2>9. artifacts'[HandoffArtifactRef(p)'] = Head(proc'[p].todo).claim
    BY <1>1, <2>4, <2>5
  <2>. QED
    BY <1>3, <2>8, <2>9 DEF Evidence, At
<1>. QED
  BY <1>4, <1>5 DEF SaveHandoffArtifact

\* A record that counts as a handoff has its artifact.
LEMMA RecordEvidence ==
    ASSUME IInv, Owned, Evidence, NEW p \in Procs, artifacts' = artifacts, At(p, "append"),
           table' = ApplyRecord(table, Head(proc[p].todo))
    PROVE  AllEvidenced'
<1> DEFINE r == Head(proc[p].todo)
<1>1. Pending /\ Clocked /\ proc[p].pc \in Busy
  BY DEF Owned, At, Busy
<1>2. r \in Records /\ Apt(r) /\ Fresh(p, r)
  BY <1>1, HeadIs, HeadIsApt
<1>3. \A id \in Ids : table'[id] = table[id] \/ (id = r.id /\ table'[id] = r.claim)
  BY <1>2, ApplyIs
<1>4. proc[p].now \in 0 .. MaxClock
  BY <1>1, ClaimStoreAssumption, IInvIs DEF Clocked, Progress
<1>5. r.operation = "handoff" => artifacts[<<ScopeOf[r.id], proc[p].now>>] = r.claim
  BY DEF Evidence, HandoffArtifactRef
<1>6. r.claim.status = "handoff_recorded" => r.operation = "handoff"
  BY <1>2 DEF Fresh
<1> HIDE DEF r
<1>7. ASSUME NEW id \in Ids, table'[id].status = "handoff_recorded"
      PROVE  \E n \in 0 .. MaxClock : artifacts[<<ScopeOf[id], n>>] = table'[id]
  <2>1. CASE table'[id] = table[id]
    BY <1>7, <2>1 DEF Evidence, AllEvidenced, Evidenced
  <2>2. CASE id = r.id /\ table'[id] = r.claim
    BY <1>4, <1>5, <1>6, <1>7, <2>2
  <2>. QED
    BY <1>3, <2>1, <2>2
<1>. QED
  BY <1>7 DEF AllEvidenced, Evidenced

\* A step of a process keeps the evidence,
LEMMA EvidenceKept ==
    ASSUME ScopesDistinct, IInv, Owned, Evidence, NEW p \in Procs,
           Start(p) \/ Step(p) \/ Crash(p) \/ CrashInAppend(p)
    PROVE  Evidence'
<1>1. CASE SaveHandoffArtifact(p)
  BY <1>1, ArtifactEvidence
<1>2. CASE ~SaveHandoffArtifact(p)
  <2>1. artifacts' = artifacts
    BY <1>2 DEF Start, Step, CreateLock, InspectLock, ReclaimLock, SignLock, Load, AppendRecord,
       AppendFails, AppendCutShort, SaveClaim, CheckToken, DropLock, Crash, CrashInAppend
  <2>2. AllEvidenced'
    <3>1. CASE table' = table
      BY <2>1, <3>1 DEF Evidence, AllEvidenced, Evidenced
    <3>. QED
      BY <2>1, <3>1, RecordEvidence, TableMoves
  <2>3. \A q \in Procs : q # p => proc'[q] = proc[q]
    BY LockSteps DEF Owned, LockStep, Only
  <2>4. proc'[p].pc = "append" => Head(proc'[p].todo).operation # "handoff"
    BY <1>2, ComesToAppend
  <2>5. ASSUME NEW q \in Procs, q # p, proc'[q].pc = "append",
               Head(proc'[q].todo).operation = "handoff"
        PROVE  artifacts'[HandoffArtifactRef(q)'] = Head(proc'[q].todo).claim
    <3>1. proc'[q] = proc[q]
      BY <2>3, <2>5
    <3>2. HandoffArtifactRef(q)' = HandoffArtifactRef(q)
      BY <3>1 DEF HandoffArtifactRef
    <3>. QED
      BY <2>1, <2>5, <3>1, <3>2 DEF Evidence, At
  <2>. QED
    BY <2>2, <2>4, <2>5 DEF Evidence, At
<1>. QED
  BY <1>1, <1>2

\* and so does every step,
LEMMA EvidenceNext ==
    ASSUME ScopesDistinct, IInv, Owned, Evidence, [Next]_vars
    PROVE  Evidence'
<1>1. CASE Status \/ Tick \/ UNCHANGED vars
  <2>1. proc' = proc /\ table' = table /\ artifacts' = artifacts
    BY <1>1 DEF Status, Tick, vars
  <2>. QED
    BY <2>1 DEF Evidence, AllEvidenced, Evidenced, At, HandoffArtifactRef
<1>. QED
  BY <1>1, EvidenceKept DEF Next

\* from an empty directory.
LEMMA EvidenceInit ==
    ASSUME Init
    PROVE  Evidence
<1>1. \A id \in Ids : table[id].status = "none"
  BY DEF Init, NoClaim
<1>2. \A p \in Procs : proc[p].pc = "idle"
  BY DEF Init, Idle
<1>. QED
  BY <1>1, <1>2 DEF Evidence, AllEvidenced, Evidenced, At

-----------------------------------------------------------------------------
(***************************************************************************)
(* When reclaims are true.                                                 *)
(***************************************************************************)
\* Nobody dies, or there are no more than two processes.
Orderly == MaxCrashes = 0 \/ \E a, b \in Procs : Procs \subseteq {a, b}

\* Whoever is about to remove a lock file is alone.
Alone == \A p \in Procs : At(p, "reclaim") => \A q \in Procs : q # p => ~Alive(q)

Mortal == MaxCrashes = 0 => \A p \in Procs : ~At(p, "dead")

\* Whoever is alone takes nobody's lock.
LEMMA AloneIsTrue ==
    ASSUME Held, Alone
    PROVE  TrueReclaim
  BY DEF Held, Alone, TrueReclaim, At, Alive, Inside, Critical

\* A lock that looks abandoned is that of a dead process.
LEMMA AbandonedIsDead ==
    ASSUME IInv, Held, Inspection = "reclaim"
    PROVE  lock.owner \in Procs /\ At(lock.owner, "dead")
<1>1. lock \in Locks /\ clock \in Nat /\ StaleAfter \in Nat \ {0}
  BY IInvIs, ClaimStoreAssumption DEF RestTyped
<1>2. lock # NoLock
  BY DEF Inspection, NoLock
<1>3. lock.owner \in Procs /\ proc[lock.owner].pc \in Inside \cup {"dead"}
  BY <1>2 DEF Held
<1>4. CASE lock.signed
  BY <1>2, <1>3, <1>4 DEF Inspection, Alive, At, Inside, Critical
<1>5. CASE ~lock.signed
  <2>1. clock - lock.made >= StaleAfter
    BY <1>2, <1>5 DEF Inspection
  <2>2. lock.made # clock
    BY <1>1, <2>1
  <2>3. proc[lock.owner].pc \notin Inside
    BY <1>3, <1>5, <2>2 DEF Held
  <2>. QED
    BY <1>3, <2>3 DEF At
<1>. QED
  BY <1>3, <1>4, <1>5

\* With two processes, whoever finds a dead lock is alone.
LEMMA AloneKept ==
    ASSUME Orderly, IInv, Held, Alone, Mortal, NEW p \in Procs, LockStep(p)
    PROVE  Alone' /\ Mortal'
<1> DEFINE from == proc[p].pc
           to == proc'[p].pc
<1>1. (\A q \in Procs : q # p => proc'[q].pc = proc[q].pc) /\ LockMove(p, from, to)
  BY DEF LockStep, Only
<1>2. from \notin {"dead", "exited"}
  BY <1>1 DEF LockMove, Outside, Inside, Critical
<1>3. to = "reclaim" => from = "inspect" /\ Inspection = "reclaim"
  BY <1>1 DEF LockMove, Outside, Inside, Critical
<1>4. to = "dead" => MaxCrashes # 0
  <2>1. to = "dead" => Die(p)
    BY <1>1 DEF LockMove, Outside, Inside, Critical
  <2>2. spent.crashes \in Nat
    BY DEF IInv, TypeOK
  <2>. QED
    BY <2>1, <2>2 DEF Die
<1>5. Mortal'
  BY <1>1, <1>4 DEF Mortal, At
<1>6. ASSUME NEW x \in Procs, proc'[x].pc = "reclaim", NEW q \in Procs, q # x
      PROVE  proc'[q].pc \in {"dead", "exited"}
  <2>1. CASE x = p
    <3>1. lock.owner \in Procs /\ proc[lock.owner].pc = "dead" /\ lock.owner # p
      BY <1>2, <1>3, <1>6, <2>1, AbandonedIsDead DEF At
    <3>2. PICK a, b \in Procs : Procs \subseteq {a, b}
      BY <3>1 DEF Mortal, Orderly, At
    <3>3. q = lock.owner
      BY <1>6, <2>1, <3>1, <3>2
    <3>. QED
      BY <1>1, <1>6, <2>1, <3>1, <3>3
  <2>2. CASE x # p
    <3>1. proc[x].pc = "reclaim"
      BY <1>1, <1>6, <2>2
    <3>. QED
      BY <1>2, <2>2, <3>1 DEF Alone, At, Alive
  <2>. QED
    BY <2>1, <2>2
<1>. QED
  BY <1>5, <1>6 DEF Alone, At, Alive

\* Every step keeps that,
LEMMA AloneNext ==
    ASSUME Orderly, IInv, Held, Alone, Mortal, ~spent.usurped, [Next]_vars
    PROVE  Held' /\ Alone' /\ Mortal' /\ ~spent'.usurped
<1>1. ~spent'.usurped
  BY AloneIsTrue, MarkNext
<1>2. Held'
  BY <1>1, HeldNext
<1>3. CASE Status \/ Tick \/ UNCHANGED vars
  <2>1. proc' = proc
    BY <1>3 DEF Status, Tick, vars
  <2>. QED
    BY <1>1, <1>2, <2>1 DEF Alone, Mortal, At, Alive
<1>. QED
  BY <1>1, <1>2, <1>3, LockSteps, AloneKept DEF Next

\* and at first nobody reclaims.
LEMMA AloneInit ==
    ASSUME Init
    PROVE  Held /\ Alone /\ Mortal /\ ~spent.usurped
<1>1. \A p \in Procs : proc[p].pc = "idle"
  BY DEF Init, Idle
<1>2. ~spent.usurped
  BY DEF Init
<1>. QED
  BY <1>1, <1>2, HeldInit DEF Alone, Mortal, At

-----------------------------------------------------------------------------
(***************************************************************************)
(* The theorems on authority.                                              *)
(***************************************************************************)
\* With two processes, or if none dies, no reclaim ever takes the lock file of a
\* process that runs, although inspect_lock and the removal by name in io_util.rs
\* are two steps: the condition of the next four theorems is always met.
THEOREM ReclaimsAreTrue == Orderly => (Spec => []~spent.usurped)
<1> SUFFICES ASSUME Orderly PROVE Spec => []~spent.usurped
  OBVIOUS
<1> DEFINE J == Held /\ Alone /\ Mortal /\ ~spent.usurped
<1>1. Init => J
  BY AloneInit
<1>2. IInv /\ J /\ [Next]_vars => J'
  BY AloneNext
<1>3. J => ~spent.usurped
  OBVIOUS
<1> HIDE DEF J
<1>. QED
  BY <1>1, <1>2, <1>3, Invariance, PTL DEF Spec

\* The claims are apart as long as no live lock was taken.
LEMMA OwnedInvariance == Spec => [](~spent.usurped => Owned)
<1> DEFINE J == ~spent.usurped => Owned
<1>1. Init => J
  BY OwnedInit
<1>2. IInv /\ J /\ [Next]_vars => J'
  <2> SUFFICES ASSUME IInv, J, [Next]_vars, ~spent'.usurped PROVE Owned'
    OBVIOUS
  <2>1. ~spent.usurped
    BY MarkNext
  <2>. QED
    BY <2>1, OwnedNext
<1> HIDE DEF J
<1>3. Spec => []J
  BY <1>1, <1>2, Invariance, PTL DEF Spec
<1>. QED
  BY <1>3, PTL DEF J

\* A claim does what it is for (acquire_claim in claim_engine.rs against
\* classify_target): as long as no reclaim took a live lock, whoever holds a live
\* claim passes the write gate for every path it covers, however many processes
\* there are, whichever die and whatever paths and times the requests have.
THEOREM ClaimsAreEffective == Spec => []ClaimIsEffective
<1>1. IInv /\ (~spent.usurped => Owned) => ClaimIsEffective
  BY DisjointIsEffective DEF Owned, ClaimIsEffective
<1>. QED
  BY <1>1, OwnedInvariance, Invariance, PTL

\* As long as no reclaim took a live lock, no two live claims name overlapping
\* paths: the removal by name in io_util.rs is the only way to two owners.
THEOREM OwnersAreOne == Spec => [](~spent.usurped => OneLiveOwner)
<1>1. Owned => OneLiveOwner
  BY DEF Owned, Disjoint, OneLiveOwner, IsLive, Holding
<1>. QED
  BY <1>1, OwnedInvariance, PTL

\* Authority changes hands only by a release or a recorded handoff (apply_record in
\* claim_wal.rs lets an acquire win over anything): as long as no reclaim took a live
\* lock, what was decided under the lock is still so when its record is appended.
THEOREM AuthorityStays == Spec => AuthorityIsNeverStolen
<1> DEFINE A == ~spent.usurped =>
                  \A id \in Ids : table'[id].agent # table[id].agent =>
                     table[id].status \in {"none", "released", "handoff_recorded"}
<1>1. IInv /\ (~spent.usurped => Owned) /\ [Next]_vars => [A]_vars
  <2> SUFFICES ASSUME IInv, Owned, Next
               PROVE  \A id \in Ids : table'[id].agent # table[id].agent =>
                         table[id].status \in {"none", "released", "handoff_recorded"}
    OBVIOUS
  <2>1. CASE Status \/ Tick
    <3>1. table' = table
      BY <2>1 DEF Status, Tick
    <3>. QED
      BY <3>1
  <2>. QED
    BY <2>1, ClaimsKept DEF Next, Owned
<1>. QED
  BY <1>1, OwnedInvariance, Invariance, PTL DEF Spec, AuthorityIsNeverStolen

\* A scope is free after an expiry only with the evidence on disk (save_handoff_artifact
\* in claim.rs, before the record): as long as no reclaim took a live lock and no two
\* claims have the same scope id, no later handoff overwrites the artifact of one that
\* counts.
THEOREM HandoffsAreEvidenced == ScopesDistinct => (Spec => []HandoffIsEvidenced)
<1> SUFFICES ASSUME ScopesDistinct PROVE Spec => []HandoffIsEvidenced
  OBVIOUS
<1> DEFINE J == ~spent.usurped => Evidence
           O == ~spent.usurped => Owned
<1>1. Init => J
  BY EvidenceInit
<1>2. IInv /\ O /\ J /\ [Next]_vars => J'
  <2> SUFFICES ASSUME IInv, O, J, [Next]_vars, ~spent'.usurped PROVE Evidence'
    OBVIOUS
  <2>1. ~spent.usurped
    BY MarkNext
  <2>. QED
    BY <2>1, EvidenceNext
<1>3. J => HandoffIsEvidenced
  BY DEF Evidence, AllEvidenced, HandoffIsEvidenced
<1>4. Spec => []O
  BY OwnedInvariance DEF O
<1> HIDE DEF J, O
<1>. QED
  BY <1>1, <1>2, <1>3, <1>4, Invariance, PTL DEF Spec
=============================================================================
