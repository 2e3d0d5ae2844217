--------------------------- MODULE EventLogProofs ---------------------------
(***************************************************************************)
(* What EventLog promises, for any processes, threads, calls, names, bound *)
(* on the sequence numbers and number of torn appends.                     *)
(*                                                                         *)
(* The argument. Leases are exclusive here: two threads never hold one at  *)
(* the same time (Alone), every thread that works on a file holds one      *)
(* (Leased), and a stream lock is held only under a lease (LocksHeld), so  *)
(* the file that a call projected is the file it appends to (Decided). An  *)
(* append to a file that ends in a newline extends its events by the event *)
(* decided on; one to a file that does not either spoils the file or cuts  *)
(* off what was never acknowledged (WriteToEnded, WriteToTorn). What the   *)
(* fold of a stream has reached is then the number of its events.          *)
(*                                                                         *)
(* The fold is FoldLeft of the community modules; what it does with one    *)
(* more event (FoldAppend) is proved by induction over the natural         *)
(* numbers, in the form that has a set for its parameter (NatSetInduction).*)
(***************************************************************************)
EXTENDS EventLog, SequenceTheorems, WellFoundedInduction, TLAPS

-----------------------------------------------------------------------------
(***************************************************************************)
(* The inductive invariant.                                                *)
(***************************************************************************)

\* The payloads, the lines and the files of each stream.
MemoryKinds == {"Admitted", "Promoted", "Forgotten"}
OtherKinds == {"SourceAdded", "Detected", "Resolved", "Escalated"}

MemoryPayloads == [kind : MemoryKinds, id : Ids, entry : Entries]
OtherPayloads == [kind : OtherKinds, id : Ids]

PayloadsOf(s) == IF s = "Memory" THEN MemoryPayloads ELSE OtherPayloads

EventsIn(s) == {EventOf(n, d) : n \in 1..MaxSequence, d \in PayloadsOf(s)}
LinesIn(s) == EventsIn(s) \cup {Open, Closed}

FilesIn(s) == [made : BOOLEAN, lines : Seq(LinesIn(s)), ended : BOOLEAN]

\* A call with a name, if its operation takes one.
CallOK(c) ==
    /\ c.op \in Ops
    /\ c.op \notin {"list_now", "project", "capture"} => c.id \in Ids

\* Types: in particular, every line of a stream is of that stream's kind, and
\* every payload still to append is one of the stream of the call.
TypeOK ==
    /\ held \in [Threads -> {"none", "Effect", "Exclusive"}]
    /\ lock \in [Streams -> Threads \cup {NoThread}]
    /\ DOMAIN log = Streams
    /\ \A s \in Streams : log[s] \in FilesIn(s)
    /\ pc \in [Threads -> Stages]
    /\ DOMAIN call = Threads
    /\ \A t \in Threads : CallOK(call[t])
    /\ seq \in [Threads -> 0..MaxSequence]
    /\ DOMAIN todo = Threads
    /\ \A t \in Threads : todo[t] \subseteq PayloadsOf(StreamOf(call[t].op))
    /\ DOMAIN reply = Threads
    /\ DOMAIN first = Threads
    /\ DOMAIN acked = Streams

\* The stages in which a thread uses the files.
Working == {"lock", "project", "append", "locks", "again"}

\* Two threads never hold a lease at the same time.
Alone == \A t, u \in Threads : held[t] # "none" /\ held[u] # "none" => t = u

\* Whoever works on the files, or returns what was captured, has a lease.
Leased ==
    \A t \in Threads :
        pc[t] \in Working \/ (pc[t] = "done" /\ reply[t] = "Captured") => held[t] # "none"

\* A stream lock lives within the lease of its holder.
LocksHeld ==
    \A s \in Streams :
        lock[s] # NoThread =>
            held[lock[s]] # "none" /\ pc[lock[s]] \in {"project", "append", "again", "done"}

\* A transaction is never a capture.
Transacting ==
    \A t \in Threads :
        pc[t] \in {"lock", "project", "append"} => call[t].op # "capture"

\* Payloads are decided on and appended in one transaction.
NothingLeft == \A t \in Threads : pc[t] # "append" => todo[t] = {}

\* A line cut short is the last, and only until something is written after it.
ShapeOK(f) ==
    /\ ~f.ended => f.lines # <<>>
    /\ \A i \in DOMAIN f.lines : f.lines[i] = Open => i = Len(f.lines) /\ ~f.ended

Shape == \A s \in Streams : ShapeOK(log[s])

\* The whole lines of a file.
Whole(f) == {f.lines[i] : i \in {j \in DOMAIN f.lines : f.ended \/ j < Len(f.lines)}}

\* What a replay can return includes, as whole lines, all that was acknowledged.
AckedIsWhole == \A s \in Streams : Readable(log[s]) => acked[s] \subseteq Whole(log[s])

\* A file that no longer replays is only written to by a transaction that has
\* spoiled it itself, at the end of a line.
Ready(f, n, P) ==
    /\ Readable(f) \/ f.ended
    /\ Readable(f) =>
          /\ Replay(f).seq = n
          /\ \A d \in P : Follows(Replay(f), EventOf(n + 1, d))

\* More than one payload is decided on only by the lazy sweep.
Sweep(P) == \A d, e \in P : d # e => d.id # e.id /\ d.kind = "Admitted"

\* At its append a call still stands on the projection it decided on.
Decided ==
    \A t \in Threads :
        pc[t] = "append" =>
            /\ reply[t] # "Captured"
            /\ Sweep(todo[t])
            /\ Ready(log[StreamOf(call[t].op)], seq[t], todo[t])

\* A capture has checked what it read, and nothing has changed since.
Captures ==
    \A t \in Threads :
        /\ pc[t] = "again" => \A s \in Streams : Strict(first[t][s])
        /\ pc[t] = "done" /\ reply[t] = "Captured" =>
              /\ first[t] = log
              /\ \A s \in Streams : Strict(log[s])

\* The whole of it.
IInv ==
    /\ TypeOK
    /\ Alone
    /\ Leased
    /\ LocksHeld
    /\ Transacting
    /\ NothingLeft
    /\ Shape
    /\ EventsFollowState
    /\ AckedIsWhole
    /\ Decided
    /\ Captures


-----------------------------------------------------------------------------
(***************************************************************************)
(* Folds.                                                                  *)
(***************************************************************************)

\* Induction over the natural numbers, for a set in place of a predicate.
LEMMA NatSetInduction ==
    ASSUME NEW S, 0 \in S, \A n \in Nat : n \in S => n + 1 \in S
    PROVE  \A n \in Nat : n \in S
<1> SUFFICES ASSUME NEW m \in Nat, m \notin S PROVE FALSE
  OBVIOUS
<1> DEFINE T == Nat \ S
           R == {ss \in Nat \X Nat : ss[1] < ss[2]}
<1>1. T \subseteq Nat /\ T # {}
  OBVIOUS
<1>2. IsWellFoundedOn(R, Nat)
  BY NatLessThanWellFounded DEF OpToRel
<1>3. PICK x \in T : \A y \in T : ~ (<<y, x>> \in R)
  <2> HIDE DEF R, T
  <2>. QED
    BY <1>1, <1>2, WFMin
<1>4. x \in Nat /\ x # 0 /\ \A y \in T : ~ (y < x)
  BY <1>3
<1>5. x - 1 \in Nat /\ x - 1 < x /\ (x - 1) + 1 = x
  BY <1>4
<1>6. x - 1 \in S
  BY <1>4, <1>5
<1>. QED
  BY <1>5, <1>6

\* g is the function, recursive over sets of positions, that FoldLeft chooses.
Folding(g, S, s) ==
    g = [x \in SUBSET S |-> IF x = {} THEN EmptyProjection
                            ELSE ApplyEvent(g[x \ {Max(x)}], s[Max(x)])]

\* Fold is the value, at all positions, of such a function.
LEMMA FoldIs ==
    ASSUME NEW s
    PROVE  Fold(s) = (CHOOSE g : Folding(g, DOMAIN s, s))[DOMAIN s]
  BY DEF Fold, FoldLeft, MapThenFoldSet, Folding

\* The last position of a set of positions.
LEMMA MaxIs ==
    ASSUME NEW m \in Nat, NEW x \in SUBSET (1..(m + 1)), m + 1 \in x
    PROVE  Max(x) = m + 1
<1>1. \A y \in x : y \in Int /\ m + 1 >= y
  OBVIOUS
<1>2. \A y \in x : (\A z \in x : y >= z) => y = m + 1
  BY <1>1
<1>3. Max(x) \in x /\ \A z \in x : Max(x) >= z
  BY <1>1 DEF Max
<1>. QED
  BY <1>2, <1>3

\* There is such a function, so the choice is one.
LEMMA FoldingExists ==
    ASSUME NEW s
    PROVE  \A m \in Nat : \E g : Folding(g, 1..m, s)
<1> DEFINE S == {m \in Nat : \E g : Folding(g, 1..m, s)}
<1>1. 0 \in S
  <2> DEFINE h == [x \in SUBSET (1..0) |-> EmptyProjection]
  <2>1. \A x \in SUBSET (1..0) : x = {}
    OBVIOUS
  <2>2. Folding(h, 1..0, s)
    BY <2>1 DEF Folding
  <2>. QED
    BY <2>2
<1>2. ASSUME NEW m \in Nat, m \in S PROVE m + 1 \in S
  <2>1. PICK g : Folding(g, 1..m, s)
    BY <1>2
  <2> DEFINE h == [x \in SUBSET (1..(m + 1)) |->
                     IF m + 1 \in x THEN ApplyEvent(g[x \ {m + 1}], s[m + 1]) ELSE g[x]]
             k == [x \in SUBSET (1..(m + 1)) |->
                     IF x = {} THEN EmptyProjection ELSE ApplyEvent(h[x \ {Max(x)}], s[Max(x)])]
  <2>2. \A x \in SUBSET (1..m) : g[x] = IF x = {} THEN EmptyProjection
                                        ELSE ApplyEvent(g[x \ {Max(x)}], s[Max(x)])
    BY <2>1 DEF Folding
  <2>3. ASSUME NEW x \in SUBSET (1..(m + 1)), m + 1 \notin x PROVE x \in SUBSET (1..m)
    BY <2>3
  <2>4. ASSUME NEW x \in SUBSET (1..(m + 1)) PROVE h[x] = k[x]
    <3>1. CASE m + 1 \in x
      <4>1. Max(x) = m + 1 /\ x # {} /\ x \ {m + 1} \in SUBSET (1..(m + 1)) /\ m + 1 \notin x \ {m + 1}
        BY <3>1, MaxIs
      <4>2. h[x \ {m + 1}] = g[x \ {m + 1}]
        BY <4>1
      <4>. QED
        BY <3>1, <4>1, <4>2
    <3>2. CASE m + 1 \notin x
      <4>1. x \in SUBSET (1..m) /\ h[x] = g[x]
        BY <2>3, <3>2
      <4>2. x \ {Max(x)} \in SUBSET (1..(m + 1)) /\ m + 1 \notin x \ {Max(x)}
        BY <3>2
      <4>3. h[x \ {Max(x)}] = g[x \ {Max(x)}]
        BY <4>2
      <4>. QED
        BY <2>2, <4>1, <4>3
    <3>. QED
      BY <3>1, <3>2
  <2>5. h = k
    BY <2>4
  <2>6. Folding(h, 1..(m + 1), s)
    BY <2>5 DEF Folding
  <2>. QED
    BY <2>6
<1> HIDE DEF S
<1>3. \A m \in Nat : m \in S
  BY <1>1, <1>2, NatSetInduction
<1>. QED
  BY <1>3 DEF S

\* Its value grows by one event at a time.
LEMMA FoldingStep ==
    ASSUME NEW s, NEW N \in Nat, NEW m \in Nat, m + 1 <= N, NEW g, Folding(g, 1..N, s)
    PROVE  g[1..(m + 1)] = ApplyEvent(g[1..m], s[m + 1])
<1>1. /\ 1..(m + 1) \in SUBSET (1..N) /\ 1..(m + 1) # {}
      /\ m + 1 \in 1..(m + 1) /\ (1..(m + 1)) \ {m + 1} = 1..m
      /\ 1..(m + 1) \in SUBSET (1..(m + 1))
  OBVIOUS
<1>2. Max(1..(m + 1)) = m + 1
  BY <1>1, MaxIs
<1>3. \A x \in SUBSET (1..N) : x # {} => g[x] = ApplyEvent(g[x \ {Max(x)}], s[Max(x)])
  BY DEF Folding
<1>4. g[1..(m + 1)] = ApplyEvent(g[(1..(m + 1)) \ {Max(1..(m + 1))}], s[Max(1..(m + 1))])
  BY <1>1, <1>3
<1>. QED
  BY <1>1, <1>2, <1>4

\* The fold of no events, and of one event more.
LEMMA FoldEmpty ==
    Fold(<<>>) = EmptyProjection
<1>1. DOMAIN <<>> = {} /\ DOMAIN <<>> = 1..0
  OBVIOUS
<1> DEFINE g == CHOOSE g : Folding(g, 1..0, <<>>)
<1>2. Folding(g, 1..0, <<>>)
  BY FoldingExists
<1>3. Fold(<<>>) = g[1..0]
  BY <1>1, FoldIs
<1>4. g[{}] = EmptyProjection
  BY <1>2 DEF Folding
<1>. QED
  BY <1>1, <1>3, <1>4

LEMMA FoldAppend ==
    ASSUME NEW T, NEW s \in Seq(T), NEW e \in T
    PROVE  Fold(Append(s, e)) = ApplyEvent(Fold(s), e)
<1> DEFINE n == Len(s)
           t == Append(s, e)
           g == CHOOSE g : Folding(g, 1..n, s)
           h == CHOOSE h : Folding(h, 1..(n + 1), t)
<1>1. /\ n \in Nat /\ DOMAIN s = 1..n /\ DOMAIN t = 1..(n + 1)
      /\ \A i \in 1..n : t[i] = s[i]
      /\ t[n + 1] = e
  BY AppendProperties, LenProperties
<1>2. Folding(g, 1..n, s)
  <2>1. \E x : Folding(x, 1..n, s)
    BY <1>1, FoldingExists
  <2>. QED
    BY <2>1
<1>3. Folding(h, 1..(n + 1), t)
  <2>1. n + 1 \in Nat
    BY <1>1
  <2>2. \E x : Folding(x, 1..(n + 1), t)
    BY <2>1, FoldingExists
  <2>. QED
    BY <2>2
<1>4. Fold(s) = g[1..n] /\ Fold(t) = h[1..(n + 1)]
  BY <1>1, FoldIs
<1> HIDE DEF n, t, g, h
<1>5. g[1..n] = h[1..n]
  <2> DEFINE S == {m \in Nat : m <= n => g[1..m] = h[1..m]}
  <2>1. 0 \in S
    <3>1. 1..0 = {} /\ {} \in SUBSET (1..n) /\ {} \in SUBSET (1..(n + 1))
      OBVIOUS
    <3>2. g[{}] = EmptyProjection /\ h[{}] = EmptyProjection
      BY <1>2, <1>3, <3>1 DEF Folding
    <3>. QED
      BY <3>1, <3>2
  <2>2. ASSUME NEW m \in Nat, m \in S, m + 1 <= n PROVE g[1..(m + 1)] = h[1..(m + 1)]
    <3>1. m + 1 <= n /\ m + 1 <= n + 1 /\ n + 1 \in Nat /\ m + 1 \in 1..n /\ m <= n
      BY <1>1, <2>2
    <3>2. s[m + 1] = t[m + 1] /\ g[1..m] = h[1..m]
      BY <1>1, <2>2, <3>1
    <3>3. g[1..(m + 1)] = ApplyEvent(g[1..m], s[m + 1])
      BY <1>1, <1>2, <3>1, FoldingStep
    <3>4. h[1..(m + 1)] = ApplyEvent(h[1..m], t[m + 1])
      BY <1>3, <3>1, FoldingStep
    <3>. QED
      BY <3>2, <3>3, <3>4
  <2>3. \A m \in Nat : m \in S => m + 1 \in S
    BY <2>2
  <2> HIDE DEF S
  <2>4. \A m \in Nat : m \in S
    BY <2>1, <2>3, NatSetInduction
  <2>. QED
    BY <1>1, <2>4 DEF S
<1>6. h[1..(n + 1)] = ApplyEvent(h[1..n], t[n + 1])
  <2>1. n + 1 \in Nat /\ n + 1 <= n + 1
    BY <1>1
  <2>. QED
    BY <1>1, <1>3, <2>1, FoldingStep
<1>. QED
  BY <1>1, <1>4, <1>5, <1>6 DEF t

-----------------------------------------------------------------------------
(***************************************************************************)
(* Lines and files.                                                        *)
(***************************************************************************)

\* An event is never taken for a line that does not parse.
LEMMA EventIsEvent ==
    ASSUME NEW n, NEW d
    PROVE  IsEvent(EventOf(n, d))
  BY DEF EventOf, Open, Closed, IsEvent

LEMMA OpenIsNotClosed == Open # Closed
  BY DEF Open, Closed

\* A line is an event or one of the two broken ones.
LEMMA LinesFacts ==
    ASSUME NEW s, NEW l \in LinesIn(s)
    PROVE  /\ l \in EventsIn(s) <=> IsEvent(l)
           /\ ~IsEvent(l) <=> l \in {Open, Closed}
  BY EventIsEvent DEF LinesIn, EventsIn, IsEvent

\* All but the last line of a file, and a file with one line more.
LEMMA FrontFacts ==
    ASSUME NEW T, NEW l \in Seq(T), l # <<>>
    PROVE  /\ Front(l) \in Seq(T) /\ Len(Front(l)) = Len(l) - 1
           /\ Len(l) \in Nat \ {0}
           /\ \A i \in 1..(Len(l) - 1) : Front(l)[i] = l[i]
           /\ Last(l) = l[Len(l)] /\ Last(l) \in T
           /\ DOMAIN l = 1..Len(l)
<1>1. Len(l) \in Nat \ {0} /\ DOMAIN l = 1..Len(l)
  BY EmptySeq, LenProperties
<1>2. l[Len(l)] \in T
  BY <1>1, ElementOfSeq
<1>3. /\ Len(l) - 1 \in Nat /\ Front(l) = SubSeq(l, 1, Len(l) - 1)
      /\ \A i \in 1..(Len(l) - 1) : i \in DOMAIN l /\ 1 + i - 1 = i
  BY <1>1 DEF Front
<1>4. /\ SubSeq(l, 1, Len(l) - 1) \in Seq(T)
      /\ Len(SubSeq(l, 1, Len(l) - 1)) = Len(l) - 1
      /\ \A i \in 1..(Len(l) - 1) : SubSeq(l, 1, Len(l) - 1)[i] = l[i]
  BY <1>1
<1>. QED
  BY <1>1, <1>2, <1>3, <1>4 DEF Last

LEMMA AppendFacts ==
    ASSUME NEW T, NEW l \in Seq(T), NEW e \in T
    PROVE  /\ Append(l, e) \in Seq(T) /\ Len(Append(l, e)) = Len(l) + 1
           /\ Len(l) \in Nat
           /\ DOMAIN Append(l, e) = 1..(Len(l) + 1) /\ DOMAIN l = 1..Len(l)
           /\ \A i \in 1..Len(l) : Append(l, e)[i] = l[i]
           /\ Append(l, e)[Len(l) + 1] = e
           /\ Append(l, e) # <<>>
           /\ Last(Append(l, e)) = e /\ Front(Append(l, e)) = l
<1>1. /\ Append(l, e) \in Seq(T) /\ Len(Append(l, e)) = Len(l) + 1
      /\ Len(l) \in Nat
      /\ DOMAIN Append(l, e) = 1..(Len(l) + 1) /\ DOMAIN l = 1..Len(l)
      /\ \A i \in 1..Len(l) : Append(l, e)[i] = l[i]
      /\ Append(l, e)[Len(l) + 1] = e
      /\ Append(l, e) # <<>>
  BY AppendProperties, LenProperties
<1>2. Last(Append(l, e)) = e
  BY <1>1 DEF Last
<1>3. /\ Front(Append(l, e)) \in Seq(T) /\ Len(Front(Append(l, e))) = Len(l)
      /\ \A i \in 1..Len(l) : Front(Append(l, e))[i] = l[i]
  <2> DEFINE m == Append(l, e)
  <2>1. m \in Seq(T) /\ m # <<>> /\ Len(m) - 1 = Len(l) /\ \A i \in 1..Len(l) : m[i] = l[i]
    BY <1>1
  <2> HIDE DEF m
  <2>2. /\ Front(m) \in Seq(T) /\ Len(Front(m)) = Len(m) - 1
        /\ \A i \in 1..(Len(m) - 1) : Front(m)[i] = m[i]
    BY <2>1, FrontFacts
  <2>3. Front(m) \in Seq(T) /\ Len(Front(m)) = Len(l) /\ \A i \in 1..Len(l) : Front(m)[i] = l[i]
    BY <2>1, <2>2
  <2>. QED
    BY <2>3 DEF m
<1>. QED
  BY <1>1, <1>2, <1>3, SeqEqual

\* The events of a readable file are its lines, but for an open last line.
LEMMA EventsFacts ==
    ASSUME NEW s, NEW f \in FilesIn(s), Readable(f)
    PROVE  /\ EventsOf(f) \in Seq(EventsIn(s))
           /\ f.lines # <<>> /\ Last(f.lines) = Open => EventsOf(f) = Front(f.lines)
           /\ f.lines = <<>> \/ Last(f.lines) # Open => EventsOf(f) = f.lines
<1> DEFINE l == f.lines
<1>1. l \in Seq(LinesIn(s))
  BY DEF FilesIn
<1>2. \A i \in DOMAIN l : IsEvent(l[i]) \/ (i = Len(l) /\ l[i] = Open)
  BY DEF Readable, Torn
<1>3. EventsOf(f) = IF l # <<>> /\ ~IsEvent(Last(l)) THEN Front(l) ELSE l
  BY DEF EventsOf
<1> HIDE DEF l
<1>4. CASE l = <<>>
  BY <1>3, <1>4 DEF l
<1>5. CASE l # <<>>
  <2>1. /\ Front(l) \in Seq(LinesIn(s)) /\ Len(Front(l)) = Len(l) - 1
        /\ Len(l) \in Nat \ {0}
        /\ \A i \in 1..(Len(l) - 1) : Front(l)[i] = l[i]
        /\ Last(l) = l[Len(l)] /\ Last(l) \in LinesIn(s)
        /\ DOMAIN l = 1..Len(l)
    BY <1>1, <1>5, FrontFacts
  <2>2. ~IsEvent(Last(l)) <=> Last(l) = Open
    BY <1>2, <2>1 DEF IsEvent
  <2>3. \A i \in 1..(Len(l) - 1) : l[i] \in EventsIn(s)
    BY <1>1, <1>2, <2>1, LinesFacts
  <2>4. CASE Last(l) = Open
    <3>1. \A i \in 1..Len(Front(l)) : Front(l)[i] \in EventsIn(s)
      BY <2>1, <2>3
    <3>2. Front(l) \in Seq(EventsIn(s))
      BY <2>1, <3>1
    <3>. QED
      BY <1>3, <1>5, <2>2, <2>4, <3>2 DEF l
  <2>5. CASE Last(l) # Open
    <3>1. \A i \in 1..Len(l) : l[i] \in EventsIn(s)
      BY <2>1, <2>2, <2>3, <2>5, LinesFacts
    <3>2. l \in Seq(EventsIn(s))
      BY <1>1, <2>1, <3>1
    <3>. QED
      BY <1>3, <1>5, <2>2, <2>5, <3>2 DEF l
  <2>. QED
    BY <2>4, <2>5
<1>. QED
  BY <1>4, <1>5

\* A readable file that ends in a newline is nothing but events.
LEMMA EndedIsEvents ==
    ASSUME NEW s, NEW f \in FilesIn(s), Readable(f), ShapeOK(f), f.ended
    PROVE  EventsOf(f) = f.lines /\ \A i \in DOMAIN f.lines : IsEvent(f.lines[i])
<1>1. \A i \in DOMAIN f.lines : f.lines[i] # Open
  BY DEF ShapeOK
<1>2. \A i \in DOMAIN f.lines : IsEvent(f.lines[i])
  BY <1>1 DEF Readable, Torn
<1>3. f.lines \in Seq(LinesIn(s))
  BY DEF FilesIn
<1>4. CASE f.lines = <<>>
  BY <1>2, <1>4, EventsFacts
<1>5. CASE f.lines # <<>>
  <2> DEFINE l == f.lines
  <2>1. Last(l) # Open
    <3>1. l \in Seq(LinesIn(s)) /\ l # <<>> /\ \A i \in DOMAIN l : l[i] # Open
      BY <1>1, <1>3, <1>5
    <3> HIDE DEF l
    <3>2. Last(l) = l[Len(l)] /\ Len(l) \in Nat \ {0} /\ DOMAIN l = 1..Len(l)
      BY <3>1, FrontFacts
    <3>. QED
      BY <3>1, <3>2
  <2>. QED
    BY <1>2, <2>1, EventsFacts
<1>. QED
  BY <1>4, <1>5

\* An append to a file that ends in a newline adds a line; one to a file that
\* does not, spoils its last line.
LEMMA WriteFields ==
    ASSUME NEW s, NEW f \in FilesIn(s), NEW e \in EventsIn(s), NEW cut \in Cuts,
           cut # "nothing", f.ended \/ f.lines # <<>>
    PROVE  LET g == Write(f, e, cut)
           IN  \E piece \in LinesIn(s) :
                 /\ cut \in {"bare", "full"} => piece = e
                 /\ cut = "open" => piece = Open
                 /\ cut = "closed" => piece = Closed
                 /\ g \in FilesIn(s)
                 /\ f.ended => g.lines = Append(f.lines, piece)
                 /\ ~f.ended => g.lines = Append(Front(f.lines), IF piece = Open THEN Open ELSE Closed)
                 /\ g.ended = (cut = "full")
<1> DEFINE piece == IF cut \in {"bare", "full"} THEN e ELSE [broken |-> cut]
           glued == IF piece = Open THEN Open ELSE Closed
           lines == IF f.ended THEN Append(f.lines, piece) ELSE Append(Front(f.lines), glued)
           ended == (cut = "full")
<1>1. /\ cut \in {"bare", "full"} => piece = e
      /\ cut = "open" => piece = Open
      /\ cut = "closed" => piece = Closed
      /\ cut \in {"bare", "full", "open", "closed"}
  BY DEF Cuts, Open, Closed
<1>2. piece \in LinesIn(s) /\ Open \in LinesIn(s) /\ Closed \in LinesIn(s)
  BY <1>1 DEF LinesIn
<1>3. f.lines \in Seq(LinesIn(s))
  BY DEF FilesIn
<1>4. Write(f, e, cut) = [f EXCEPT !.lines = lines, !.ended = ended]
  BY DEF Write
<1> HIDE DEF piece
<1>5. lines \in Seq(LinesIn(s)) /\ ended \in BOOLEAN
  BY <1>2, <1>3, FrontFacts, AppendFacts
<1>7. Write(f, e, cut) \in FilesIn(s) /\ Write(f, e, cut).lines = lines /\ Write(f, e, cut).ended = ended
  <2> HIDE DEF lines, ended
  <2>1. LET g == [f EXCEPT !.lines = lines, !.ended = ended]
        IN  g \in FilesIn(s) /\ g.lines = lines /\ g.ended = ended
    BY <1>5 DEF FilesIn
  <2>. QED
    BY <1>4, <2>1
<1>8. /\ f.ended => lines = Append(f.lines, piece)
      /\ ~f.ended => lines = Append(Front(f.lines), IF piece = Open THEN Open ELSE Closed)
  OBVIOUS
<1> HIDE DEF lines, ended
<1>9. ended = (cut = "full")
  BY DEF ended
<1>. QED
  BY <1>1, <1>2, <1>7, <1>8, <1>9

\* After an append to a file that ends in a newline, what was whole is whole,
\* and a readable result has the events of before, or one more.
LEMMA WriteToEnded ==
    ASSUME NEW s, NEW f \in FilesIn(s), NEW e \in EventsIn(s), NEW cut \in Cuts,
           cut # "nothing", ShapeOK(f), f.ended
    PROVE  LET g == Write(f, e, cut)
           IN  /\ g \in FilesIn(s) /\ ShapeOK(g)
               /\ Whole(f) \subseteq Whole(g)
               /\ cut = "full" => e \in Whole(g)
               /\ Readable(g) =>
                    /\ Readable(f)
                    /\ \/ cut \notin {"bare", "full"} /\ EventsOf(g) = EventsOf(f)
                       \/ cut \in {"bare", "full"} /\ EventsOf(g) = Append(EventsOf(f), e)
<1> DEFINE g == Write(f, e, cut)
<1>1. PICK piece \in LinesIn(s) :
        /\ cut \in {"bare", "full"} => piece = e
        /\ cut = "open" => piece = Open
        /\ cut = "closed" => piece = Closed
        /\ g \in FilesIn(s) /\ g.lines = Append(f.lines, piece) /\ g.ended = (cut = "full")
  BY WriteFields
<1> HIDE DEF g
<1>2. f.lines \in Seq(LinesIn(s)) /\ IsEvent(e)
  BY EventIsEvent DEF FilesIn, EventsIn
<1> DEFINE l == f.lines
           n == Len(l)
<1>3. /\ n \in Nat /\ Len(g.lines) = n + 1 /\ DOMAIN l = 1..n /\ DOMAIN g.lines = 1..(n + 1)
      /\ \A i \in 1..n : g.lines[i] = l[i] /\ i < n + 1 /\ i \in 1..(n + 1)
      /\ g.lines[n + 1] = piece /\ n + 1 \in 1..(n + 1)
      /\ g.lines # <<>> /\ Last(g.lines) = piece /\ Front(g.lines) = l
      /\ \A i \in 1..(n + 1) : i \in 1..n \/ i = n + 1
  BY <1>1, <1>2, AppendFacts
<1>4. /\ cut = "full" => g.ended
      /\ ~g.ended <=> cut # "full"
      /\ piece = Open => cut = "open"
  BY <1>1, <1>2, OpenIsNotClosed DEF Cuts, IsEvent
<1> HIDE DEF l, n
<1>5. \A i \in 1..n : l[i] # Open
  BY <1>3 DEF ShapeOK, l, n
<1>6. ShapeOK(g)
  BY <1>3, <1>4, <1>5 DEF ShapeOK
<1>7. Whole(f) \subseteq Whole(g)
  BY <1>3 DEF Whole, l
<1>8. cut = "full" => e \in Whole(g)
  BY <1>1, <1>3, <1>4 DEF Whole
<1>9. ASSUME Readable(g)
      PROVE  /\ Readable(f)
             /\ \/ cut \notin {"bare", "full"} /\ EventsOf(g) = EventsOf(f)
                \/ cut \in {"bare", "full"} /\ EventsOf(g) = Append(EventsOf(f), e)
  <2>1. \A i \in 1..n : IsEvent(l[i])
    BY <1>3, <1>9 DEF Readable, Torn
  <2>2. Readable(f)
    BY <1>3, <2>1 DEF Readable, l
  <2>3. EventsOf(f) = l
    BY <2>2, EndedIsEvents DEF l
  <2>4. IsEvent(piece) \/ piece = Open
    BY <1>3, <1>9 DEF Readable, Torn
  <2>5. CASE piece = Open
    <3>1. EventsOf(g) = l
      BY <1>1, <1>3, <1>9, <2>5, EventsFacts
    <3>. QED
      BY <1>4, <2>2, <2>3, <2>5, <3>1
  <2>6. CASE piece # Open
    <3>1. cut \in {"bare", "full"} /\ piece = e
      BY <1>1, <2>4, <2>6 DEF Cuts, IsEvent
    <3>2. EventsOf(g) = g.lines
      BY <1>1, <1>3, <1>9, <2>6, EventsFacts
    <3>. QED
      BY <1>1, <2>2, <2>3, <3>1, <3>2 DEF l
  <2>. QED
    BY <2>5, <2>6
<1>. QED
  BY <1>1, <1>6, <1>7, <1>8, <1>9 DEF g

\* An append to a file that ends in the middle of a line leaves the whole
\* lines; a readable result has lost at most the line without a newline.
LEMMA WriteToTorn ==
    ASSUME NEW s, NEW f \in FilesIn(s), NEW e \in EventsIn(s), NEW cut \in Cuts,
           cut # "nothing", ShapeOK(f), ~f.ended, Readable(f)
    PROVE  LET g == Write(f, e, cut)
           IN  /\ g \in FilesIn(s) /\ ShapeOK(g)
               /\ Whole(f) \subseteq Whole(g)
               /\ Readable(g) =>
                    /\ cut # "full"
                    /\ EventsOf(g) = EventsOf(f) \/ EventsOf(g) = Front(EventsOf(f))
                    /\ EventsOf(f) = <<>> => EventsOf(g) = <<>>
<1> DEFINE g == Write(f, e, cut)
<1>1. PICK glued \in {Open, Closed} :
        /\ cut # "open" => glued = Closed
        /\ g \in FilesIn(s) /\ g.lines = Append(Front(f.lines), glued) /\ g.ended = (cut = "full")
  <2>1. f.lines # <<>>
    BY DEF ShapeOK
  <2>2. PICK piece \in LinesIn(s) :
          /\ cut \in {"bare", "full"} => piece = e
          /\ cut = "open" => piece = Open
          /\ cut = "closed" => piece = Closed
          /\ g \in FilesIn(s)
          /\ g.lines = Append(Front(f.lines), IF piece = Open THEN Open ELSE Closed)
          /\ g.ended = (cut = "full")
    BY <2>1, WriteFields
  <2>3. cut # "open" => piece # Open
    BY <2>2, EventIsEvent, OpenIsNotClosed DEF EventsIn, IsEvent, Cuts
  <2>. QED
    BY <2>2, <2>3
<1> HIDE DEF g
<1> DEFINE l == f.lines
           k == Front(l)
           n == Len(l) - 1
<1>2. l \in Seq(LinesIn(s)) /\ l # <<>> /\ Open \in LinesIn(s) /\ Closed \in LinesIn(s)
  BY DEF FilesIn, ShapeOK, LinesIn
<1>3. /\ k \in Seq(LinesIn(s)) /\ n \in Nat /\ Len(k) = n
      /\ DOMAIN l = 1..(n + 1) /\ DOMAIN k = 1..n /\ Len(l) = n + 1
      /\ \A i \in 1..n : l[i] = k[i]
      /\ Last(l) = l[n + 1]
  <2> HIDE DEF l
  <2>1. /\ k \in Seq(LinesIn(s)) /\ Len(k) = Len(l) - 1
        /\ Len(l) \in Nat \ {0}
        /\ \A i \in 1..(Len(l) - 1) : k[i] = l[i]
        /\ Last(l) = l[Len(l)] /\ DOMAIN l = 1..Len(l)
    BY <1>2, FrontFacts
  <2>2. DOMAIN k = 1..Len(k)
    BY <2>1, LenProperties
  <2>3. n \in Nat /\ n + 1 = Len(l)
    BY <2>1
  <2>. QED
    BY <2>1, <2>2, <2>3
<1> HIDE DEF n, k
<1>4. /\ Len(g.lines) = n + 1 /\ DOMAIN g.lines = 1..(n + 1)
      /\ \A i \in 1..n : g.lines[i] = l[i] /\ i < n + 1 /\ i \in 1..(n + 1)
      /\ g.lines[n + 1] = glued /\ n + 1 \in 1..(n + 1)
      /\ g.lines # <<>> /\ Last(g.lines) = glued /\ Front(g.lines) = k
      /\ \A i \in 1..(n + 1) : i \in 1..n \/ i = n + 1
  BY <1>1, <1>2, <1>3, AppendFacts DEF k
<1>5. glued = Open => ~g.ended
  BY <1>1, OpenIsNotClosed
<1>6. \A i \in 1..n : l[i] # Open
  BY <1>3 DEF ShapeOK
<1>7. ShapeOK(g)
  BY <1>4, <1>5, <1>6 DEF ShapeOK
<1>8. Whole(f) \subseteq Whole(g)
  BY <1>3, <1>4 DEF Whole
<1>9. ASSUME Readable(g)
      PROVE  /\ cut # "full"
             /\ EventsOf(g) = EventsOf(f) \/ EventsOf(g) = Front(EventsOf(f))
             /\ EventsOf(f) = <<>> => EventsOf(g) = <<>>
  <2>1. glued = Open
    BY <1>1, <1>4, <1>9 DEF Readable, IsEvent, Torn
  <2>2. EventsOf(g) = k
    BY <1>1, <1>4, <1>9, <2>1, EventsFacts
  <2>3. cut # "full"
    BY <1>1, <2>1, OpenIsNotClosed
  <2>4. EventsOf(f) = k \/ EventsOf(f) = l
    BY <1>2, EventsFacts DEF k
  <2>. QED
    BY <1>2, <2>2, <2>3, <2>4 DEF k
<1>. QED
  BY <1>1, <1>7, <1>8, <1>9 DEF g

-----------------------------------------------------------------------------
(***************************************************************************)
(* Projections.                                                            *)
(***************************************************************************)

\* A projection of stream s.
ProjOK(s, p) ==
    /\ p.seq \in 0..MaxSequence
    /\ s = "Memory" => \A i \in DOMAIN p.items : i \in Ids /\ p.items[i] \in Entries

\* Memory entries stay memory entries under put and under any memory event.
LEMMA MemoryPut ==
    ASSUME NEW m, \A i \in DOMAIN m : i \in Ids /\ m[i] \in Entries,
           NEW k \in Ids, NEW v \in Entries
    PROVE  \A i \in DOMAIN Put(m, k, v) : i \in Ids /\ Put(m, k, v)[i] \in Entries
<1>1. Put(m, k, v) = [j \in DOMAIN m \cup {k} |-> IF j = k THEN v ELSE m[j]]
  BY DEF Put
<1>2. \A i \in DOMAIN m \cup {k} : i \in Ids /\ (IF i = k THEN v ELSE m[i]) \in Entries
  OBVIOUS
<1>. QED
  BY <1>1, <1>2

LEMMA MemoryApply ==
    ASSUME NEW m, \A i \in DOMAIN m : i \in Ids /\ m[i] \in Entries,
           NEW d \in MemoryPayloads
    PROVE  \A i \in DOMAIN Apply(m, d) : i \in Ids /\ Apply(m, d)[i] \in Entries
<1>1. d.kind \in MemoryKinds /\ d.id \in Ids /\ d.entry \in Entries
  BY DEF MemoryPayloads
<1>2. CASE d.kind = "Admitted"
  <2>1. Apply(m, d) = Put(m, d.id, d.entry)
    BY <1>2 DEF Apply
  <2>. QED
    BY <1>1, <2>1, MemoryPut
<1>3. CASE d.kind = "Promoted"
  <2>1. Apply(m, d) = IF d.id \in DOMAIN m
                        THEN Put(m, d.id, [m[d.id] EXCEPT !.auth = "Authority"]) ELSE m
    BY <1>3 DEF Apply
  <2>2. d.id \in DOMAIN m => [m[d.id] EXCEPT !.auth = "Authority"] \in Entries
    BY DEF Entries
  <2>. QED
    BY <1>1, <2>1, <2>2, MemoryPut
<1>4. CASE d.kind = "Forgotten"
  <2>1. Apply(m, d) = [j \in DOMAIN m \ {d.id} |-> m[j]]
    BY <1>4 DEF Apply, Without
  <2>. QED
    BY <2>1
<1>. QED
  BY <1>1, <1>2, <1>3, <1>4 DEF MemoryKinds

\* The parts of an event.
LEMMA EventFacts ==
    ASSUME NEW s, NEW e \in EventsIn(s)
    PROVE  /\ e.seq \in 1..MaxSequence /\ e.data \in PayloadsOf(s)
           /\ e = EventOf(e.seq, e.data)
  BY DEF EventsIn, EventOf

\* Applying an event of the stream keeps its projection one of the stream.
LEMMA ApplyTyped ==
    ASSUME NEW s, NEW p, ProjOK(s, p), NEW e \in EventsIn(s)
    PROVE  ProjOK(s, ApplyEvent(p, e))
<1>1. e.seq \in 1..MaxSequence /\ e.data \in PayloadsOf(s) /\ MaxSequence \in Nat
  BY EventFacts, SequenceAssumption
<1>2. CASE p.seq > 0 /\ e.seq <= p.seq
  BY <1>2 DEF ApplyEvent
<1>3. CASE ~(p.seq > 0 /\ e.seq <= p.seq)
  <2>1. ApplyEvent(p, e).seq = e.seq /\ ApplyEvent(p, e).items = Apply(p.items, e.data)
    BY <1>3 DEF ApplyEvent
  <2>2. s = "Memory" => \A i \in DOMAIN Apply(p.items, e.data) :
                            i \in Ids /\ Apply(p.items, e.data)[i] \in Entries
    BY <1>1, MemoryApply DEF ProjOK, PayloadsOf
  <2>. QED
    BY <1>1, <2>1, <2>2 DEF ProjOK
<1>. QED
  BY <1>2, <1>3

\* A prefix and the next event.
LEMMA PrefixStep ==
    ASSUME NEW T, NEW es \in Seq(T), NEW n \in Nat, n + 1 <= Len(es)
    PROVE  /\ SubSeq(es, 1, n) \in Seq(T) /\ es[n + 1] \in T
           /\ SubSeq(es, 1, n + 1) = Append(SubSeq(es, 1, n), es[n + 1])
<1>1. /\ Len(es) \in Nat /\ DOMAIN es = 1..Len(es)
      /\ n + 1 \in 1..Len(es)
  BY LenProperties
<1>2. es[n + 1] \in T
  BY <1>1, ElementOfSeq
<1>3. /\ SubSeq(es, 1, n) \in Seq(T) /\ Len(SubSeq(es, 1, n)) = n
      /\ \A i \in 1..n : SubSeq(es, 1, n)[i] = es[i]
  BY <1>1
<1>4. /\ SubSeq(es, 1, n + 1) \in Seq(T) /\ Len(SubSeq(es, 1, n + 1)) = n + 1
      /\ \A i \in 1..(n + 1) : SubSeq(es, 1, n + 1)[i] = es[i]
  BY <1>1
<1> DEFINE a == SubSeq(es, 1, n)
           b == SubSeq(es, 1, n + 1)
           c == Append(a, es[n + 1])
<1> HIDE DEF a, b
<1>5. /\ c \in Seq(T) /\ Len(c) = n + 1
      /\ \A i \in 1..n : c[i] = es[i]
      /\ c[n + 1] = es[n + 1]
  BY <1>2, <1>3, AppendFacts DEF a
<1>6. b \in Seq(T) /\ Len(b) = Len(c) /\ \A i \in 1..Len(b) : b[i] = c[i]
  BY <1>4, <1>5 DEF b
<1> HIDE DEF c
<1>7. b = c
  BY <1>5, <1>6, SeqEqual
<1>. QED
  BY <1>2, <1>3, <1>7 DEF a, b, c

\* Whatever a stream holds, its fold is a projection of it.
LEMMA FoldTyped ==
    ASSUME NEW s, NEW es \in Seq(EventsIn(s))
    PROVE  ProjOK(s, Fold(es))
<1> DEFINE S == {n \in Nat : n <= Len(es) => ProjOK(s, Fold(SubSeq(es, 1, n)))}
<1>1. 0 \in S
  <2>1. SubSeq(es, 1, 0) = <<>>
    BY SubSeqEmpty
  <2>2. ProjOK(s, EmptyProjection)
    BY SequenceAssumption DEF ProjOK, EmptyProjection, EmptyFcn
  <2>. QED
    BY <2>1, <2>2, FoldEmpty
<1>2. ASSUME NEW n \in Nat, n \in S PROVE n + 1 \in S
  <2>1. SUFFICES ASSUME n + 1 <= Len(es) PROVE ProjOK(s, Fold(SubSeq(es, 1, n + 1)))
    BY <1>2
  <2>2. n <= Len(es)
    BY <2>1, LenProperties
  <2>3. /\ SubSeq(es, 1, n) \in Seq(EventsIn(s)) /\ es[n + 1] \in EventsIn(s)
        /\ SubSeq(es, 1, n + 1) = Append(SubSeq(es, 1, n), es[n + 1])
    BY <2>1, PrefixStep
  <2>4. Fold(SubSeq(es, 1, n + 1)) = ApplyEvent(Fold(SubSeq(es, 1, n)), es[n + 1])
    BY <2>3, FoldAppend
  <2>. QED
    BY <1>2, <2>2, <2>3, <2>4, ApplyTyped
<1> HIDE DEF S
<1>3. \A n \in Nat : n \in S
  BY <1>1, <1>2, NatSetInduction
<1>4. Len(es) \in Nat /\ Len(es) <= Len(es) /\ SubSeq(es, 1, Len(es)) = es
  BY LenProperties, SubSeqFull
<1>. QED
  BY <1>3, <1>4 DEF S

\* An event that follows a projection is applied to it, not skipped.
LEMMA FollowingSeq ==
    ASSUME NEW p, NEW e, p.seq \in Nat, Follows(p, e)
    PROVE  /\ e.seq = p.seq + 1 /\ ApplyEvent(p, e).seq = p.seq + 1
           /\ ApplyEvent(p, e).items = Apply(p.items, e.data)
<1>1. e.seq = p.seq + 1
  BY DEF Follows
<1>2. ~(p.seq > 0 /\ e.seq <= p.seq)
  BY <1>1
<1>. QED
  BY <1>1, <1>2 DEF ApplyEvent

\* The fold of chained events has the number of events as its sequence.
LEMMA ChainedSeq ==
    ASSUME NEW s, NEW es \in Seq(EventsIn(s)), Chained(es)
    PROVE  Fold(es).seq = Len(es)
<1> DEFINE S == {n \in Nat : n <= Len(es) => Fold(SubSeq(es, 1, n)).seq = n}
<1>1. 0 \in S
  <2>1. SubSeq(es, 1, 0) = <<>>
    BY SubSeqEmpty
  <2>2. Fold(<<>>).seq = 0
    BY FoldEmpty DEF EmptyProjection
  <2>. QED
    BY <2>1, <2>2
<1>2. ASSUME NEW n \in Nat, n \in S PROVE n + 1 \in S
  <2>1. SUFFICES ASSUME n + 1 <= Len(es) PROVE Fold(SubSeq(es, 1, n + 1)).seq = n + 1
    BY <1>2
  <2>2. n <= Len(es) /\ n + 1 \in DOMAIN es /\ (n + 1) - 1 = n
    BY <2>1, LenProperties
  <2>3. /\ SubSeq(es, 1, n) \in Seq(EventsIn(s)) /\ es[n + 1] \in EventsIn(s)
        /\ SubSeq(es, 1, n + 1) = Append(SubSeq(es, 1, n), es[n + 1])
    BY <2>1, PrefixStep
  <2>4. Fold(SubSeq(es, 1, n + 1)) = ApplyEvent(Fold(SubSeq(es, 1, n)), es[n + 1])
    BY <2>3, FoldAppend
  <2>5. Follows(Fold(SubSeq(es, 1, n)), es[n + 1])
    BY <2>2 DEF Chained
  <2> DEFINE p == Fold(SubSeq(es, 1, n))
  <2>6. p.seq = n
    BY <1>2, <2>2
  <2> HIDE DEF p
  <2>7. ApplyEvent(p, es[n + 1]).seq = p.seq + 1
    BY <2>5, <2>6, FollowingSeq DEF p
  <2>. QED
    BY <2>4, <2>6, <2>7 DEF p
<1> HIDE DEF S
<1>3. \A n \in Nat : n \in S
  BY <1>1, <1>2, NatSetInduction
<1>4. Len(es) \in Nat /\ Len(es) <= Len(es) /\ SubSeq(es, 1, Len(es)) = es
  BY LenProperties, SubSeqFull
<1>. QED
  BY <1>3, <1>4 DEF S

\* Prefixes and extensions of chained events.
LEMMA SamePrefix ==
    ASSUME NEW T, NEW a \in Seq(T), NEW b \in Seq(T), NEW n \in Nat,
           n <= Len(a), n <= Len(b), \A i \in 1..n : a[i] = b[i]
    PROVE  SubSeq(a, 1, n) = SubSeq(b, 1, n)
<1> DEFINE x == SubSeq(a, 1, n)
           y == SubSeq(b, 1, n)
<1>1. x \in Seq(T) /\ Len(x) = n /\ \A i \in 1..n : x[i] = a[i]
  BY LenProperties
<1>2. y \in Seq(T) /\ Len(y) = n /\ \A i \in 1..n : y[i] = b[i]
  BY LenProperties
<1> HIDE DEF x, y
<1>3. x = y
  BY <1>1, <1>2, SeqEqual
<1>. QED
  BY <1>3 DEF x, y

LEMMA ChainedPrefix ==
    ASSUME NEW T, NEW a \in Seq(T), NEW b \in Seq(T), Chained(b),
           Len(a) <= Len(b), \A i \in 1..Len(a) : a[i] = b[i]
    PROVE  Chained(a)
<1>1. Len(a) \in Nat /\ Len(b) \in Nat /\ DOMAIN a = 1..Len(a) /\ DOMAIN b = 1..Len(b)
  BY LenProperties
<1>2. SUFFICES ASSUME NEW n \in 1..Len(a) PROVE Follows(Fold(SubSeq(a, 1, n - 1)), a[n])
  BY <1>1 DEF Chained
<1>3. n - 1 \in Nat /\ n - 1 <= Len(a) /\ n - 1 <= Len(b) /\ n \in DOMAIN b
      /\ \A i \in 1..(n - 1) : i \in 1..Len(a)
  BY <1>1
<1>4. SubSeq(a, 1, n - 1) = SubSeq(b, 1, n - 1)
  BY <1>3, SamePrefix
<1>. QED
  BY <1>3, <1>4 DEF Chained

LEMMA ChainedFront ==
    ASSUME NEW T, NEW es \in Seq(T), Chained(es), es # <<>>
    PROVE  Chained(Front(es))
<1>1. /\ Front(es) \in Seq(T) /\ Len(Front(es)) = Len(es) - 1
      /\ Len(es) \in Nat \ {0} /\ \A i \in 1..(Len(es) - 1) : Front(es)[i] = es[i]
  BY FrontFacts
<1>2. Len(Front(es)) <= Len(es) /\ \A i \in 1..Len(Front(es)) : Front(es)[i] = es[i]
  BY <1>1
<1>. QED
  BY <1>1, <1>2, ChainedPrefix

LEMMA ChainedAppend ==
    ASSUME NEW T, NEW es \in Seq(T), NEW e \in T, Chained(es), Follows(Fold(es), e)
    PROVE  Chained(Append(es, e))
<1> DEFINE b == Append(es, e)
           m == Len(es)
<1>1. /\ b \in Seq(T) /\ Len(b) = m + 1 /\ m \in Nat
      /\ DOMAIN b = 1..(m + 1) /\ DOMAIN es = 1..m
      /\ \A i \in 1..m : b[i] = es[i]
      /\ b[m + 1] = e
  BY AppendFacts
<1> HIDE DEF b, m
<1>2. ASSUME NEW n \in 1..(m + 1) PROVE Follows(Fold(SubSeq(b, 1, n - 1)), b[n])
  <2>1. n - 1 \in Nat /\ n - 1 <= Len(es) /\ n - 1 <= Len(b)
        /\ \A i \in 1..(n - 1) : i \in 1..m
    BY <1>1 DEF m
  <2>2. SubSeq(b, 1, n - 1) = SubSeq(es, 1, n - 1)
    BY <1>1, <2>1, SamePrefix
  <2>3. CASE n \in 1..m
    BY <1>1, <2>2, <2>3 DEF Chained
  <2>4. CASE n = m + 1
    <3>1. SubSeq(es, 1, n - 1) = es
      BY <1>1, <2>4, SubSeqFull DEF m
    <3>. QED
      BY <1>1, <2>2, <2>4, <3>1
  <2>. QED
    BY <1>1, <2>3, <2>4
<1>. QED
  BY <1>1, <1>2 DEF Chained, b

-----------------------------------------------------------------------------
(***************************************************************************)
(* Decisions.                                                              *)
(***************************************************************************)

\* One payload or none is no sweep of two.
LEMMA SinglePayload ==
    ASSUME NEW d PROVE Sweep({d})
  BY DEF Sweep

LEMMA NoPayload == Sweep({})
  BY DEF Sweep

\* What a call decides on the projection it has read: events that follow it.
LEMMA MemoryOutcomes ==
    ASSUME NEW p, ProjOK("Memory", p), NEW c, CallOK(c), StreamOf(c.op) = "Memory",
           c.op # "capture", NEW o \in Outcomes(c, p)
    PROVE  /\ o.status # "Captured" /\ o.todo \subseteq MemoryPayloads /\ Sweep(o.todo)
           /\ \A d \in o.todo : Follows(p, EventOf(p.seq + 1, d))
<1>1. c.op \in {"admit", "promote", "forget", "list_now", "project"}
  BY DEF CallOK, StreamOf, Ops, MemoryOps, GovernanceOps
<1>2. \A i \in DOMAIN p.items : i \in Ids /\ p.items[i] \in Entries
  BY DEF ProjOK
<1>3. ASSUME NEW st, st # "Captured", o = Done(st)
      PROVE  /\ o.status # "Captured" /\ o.todo \subseteq MemoryPayloads /\ Sweep(o.todo)
             /\ \A d \in o.todo : Follows(p, EventOf(p.seq + 1, d))
  BY <1>3, NoPayload DEF Done
<1>4. ASSUME NEW st, st # "Captured", NEW k \in MemoryKinds, NEW i \in Ids, NEW e \in Entries,
             o = EmitImage(st, k, i, e),
             Follows(p, EventOf(p.seq + 1, [kind |-> k, id |-> i, entry |-> e]))
      PROVE  /\ o.status # "Captured" /\ o.todo \subseteq MemoryPayloads /\ Sweep(o.todo)
             /\ \A d \in o.todo : Follows(p, EventOf(p.seq + 1, d))
  <2> DEFINE d == [kind |-> k, id |-> i, entry |-> e]
  <2>1. d \in MemoryPayloads
    BY DEF MemoryPayloads
  <2>2. o.status = st /\ o.todo = {d}
    BY <1>4 DEF EmitImage
  <2>. QED
    BY <1>4, <2>1, <2>2, SinglePayload
<1>5. CASE c.op = "admit"
  <2> DEFINE e == [auth |-> "Raw", stale |-> FALSE]
  <2>1. o = EmitImage("Admitted", "Admitted", c.id, e)
    BY <1>5 DEF Outcomes, Admit
  <2>2. c.id \in Ids /\ e \in Entries /\ "Admitted" \in MemoryKinds
    BY <1>5 DEF CallOK, Entries, MemoryKinds
  <2>3. Follows(p, EventOf(p.seq + 1, [kind |-> "Admitted", id |-> c.id, entry |-> e]))
    BY DEF Follows, EventOf
  <2>. QED
    BY <1>4, <2>1, <2>2, <2>3
<1>6. CASE c.op = "promote"
  <2>1. c.id \in Ids /\ "Promoted" \in MemoryKinds
    BY <1>6 DEF CallOK, MemoryKinds
  <2>2. o \in Promote(c.id, p)
    BY <1>6 DEF Outcomes
  <2>3. CASE o \in {Done("NotFound"), Done("DeniedByGate")}
    BY <1>3, <2>3
  <2>4. CASE c.id \in DOMAIN p.items /\ o = EmitImage("Promoted", "Promoted", c.id, p.items[c.id])
    <3>1. Follows(p, EventOf(p.seq + 1, [kind |-> "Promoted", id |-> c.id, entry |-> p.items[c.id]]))
      BY <2>4 DEF Follows, EventOf
    <3>. QED
      BY <1>2, <1>4, <2>1, <2>4, <3>1
  <2>. QED
    BY <2>2, <2>3, <2>4 DEF Promote
<1>7. CASE c.op = "forget"
  <2>1. c.id \in Ids /\ "Forgotten" \in MemoryKinds
    BY <1>7 DEF CallOK, MemoryKinds
  <2>2. o \in Forget(c.id, p)
    BY <1>7 DEF Outcomes
  <2>3. CASE o \in {Done("NotFound"), Done("AlreadyForgotten")}
    BY <1>3, <2>3
  <2>4. CASE /\ c.id \in DOMAIN p.items /\ c.id \notin p.superseded
             /\ o = EmitImage("Forgotten", "Forgotten", c.id, p.items[c.id])
    <3>1. Follows(p, EventOf(p.seq + 1, [kind |-> "Forgotten", id |-> c.id, entry |-> p.items[c.id]]))
      BY <2>4 DEF Follows, EventOf
    <3>. QED
      BY <1>2, <1>4, <2>1, <2>4, <3>1
  <2>. QED
    BY <2>2, <2>3, <2>4 DEF Forget
<1>8. CASE c.op = "list_now"
  <2> DEFINE Aged(i) == [p.items[i] EXCEPT !.stale = TRUE]
             Restated(i) == [kind |-> "Admitted", id |-> i, entry |-> Aged(i)]
  <2>1. PICK elapsed \in SUBSET {i \in DOMAIN p.items : ~p.items[i].stale} :
          o = [status |-> "Ok", todo |-> {Restated(i) : i \in elapsed}]
    BY <1>8 DEF Outcomes, ListNow
  <2>2. o.status = "Ok" /\ o.todo = {Restated(i) : i \in elapsed}
    BY <2>1
  <2>3. ASSUME NEW i \in elapsed
        PROVE  /\ Restated(i) \in MemoryPayloads
               /\ Restated(i).id = i /\ Restated(i).kind = "Admitted"
               /\ Follows(p, EventOf(p.seq + 1, Restated(i)))
    <3>1. i \in DOMAIN p.items /\ i \in Ids /\ p.items[i] \in Entries /\ ~p.items[i].stale
      BY <1>2, <2>1
    <3>2. ASSUME NEW x \in Entries, ~x.stale
          PROVE  LET y == [x EXCEPT !.stale = TRUE]
                 IN  y \in Entries /\ x = [y EXCEPT !.stale = FALSE]
      BY <3>2 DEF Entries
    <3>3. Aged(i) \in Entries /\ p.items[i] = [Aged(i) EXCEPT !.stale = FALSE]
      BY <3>1, <3>2
    <3> HIDE DEF Aged
    <3>4. Restated(i) \in MemoryPayloads
      BY <3>1, <3>3 DEF MemoryPayloads, MemoryKinds
    <3>5. Follows(p, EventOf(p.seq + 1, Restated(i)))
      BY <3>1, <3>3 DEF Follows, EventOf
    <3>. QED
      BY <3>4, <3>5
  <2> HIDE DEF Restated
  <2>4. Sweep(o.todo)
    BY <2>2, <2>3 DEF Sweep
  <2>. QED
    BY <2>2, <2>3, <2>4
<1>9. CASE c.op = "project"
  <2>1. o = Done("Ok")
    BY <1>9 DEF Outcomes
  <2>. QED
    BY <1>3, <2>1
<1>. QED
  BY <1>1, <1>5, <1>6, <1>7, <1>8, <1>9

LEMMA OtherOutcomes ==
    ASSUME NEW p, NEW c, CallOK(c), StreamOf(c.op) # "Memory", NEW o \in Outcomes(c, p)
    PROVE  /\ o.status # "Captured" /\ o.todo \subseteq OtherPayloads /\ Sweep(o.todo)
           /\ \A d \in o.todo : Follows(p, EventOf(p.seq + 1, d))
<1>1. c.op \in {"record", "arbitrate", "escalate", "admit_source"} /\ c.id \in Ids
  BY DEF CallOK, StreamOf, Ops, MemoryOps, GovernanceOps
<1>3. ASSUME NEW st, st # "Captured", o = Done(st)
      PROVE  /\ o.status # "Captured" /\ o.todo \subseteq OtherPayloads /\ Sweep(o.todo)
             /\ \A d \in o.todo : Follows(p, EventOf(p.seq + 1, d))
  BY <1>3, NoPayload DEF Done
<1>4. ASSUME NEW st, st # "Captured", NEW k \in OtherKinds, NEW i \in Ids,
             o = Emit(st, k, i), Follows(p, EventOf(p.seq + 1, [kind |-> k, id |-> i]))
      PROVE  /\ o.status # "Captured" /\ o.todo \subseteq OtherPayloads /\ Sweep(o.todo)
             /\ \A d \in o.todo : Follows(p, EventOf(p.seq + 1, d))
  <2> DEFINE d == [kind |-> k, id |-> i]
  <2>1. d \in OtherPayloads
    BY DEF OtherPayloads
  <2>2. o.status = st /\ o.todo = {d}
    BY <1>4 DEF Emit
  <2>. QED
    BY <1>4, <2>1, <2>2, SinglePayload
<1>5. CASE c.op = "admit_source"
  <2>1. o = Emit("Admitted", "SourceAdded", c.id)
    BY <1>5 DEF Outcomes, AdmitSource
  <2>2. Follows(p, EventOf(p.seq + 1, [kind |-> "SourceAdded", id |-> c.id]))
    BY DEF Follows, EventOf
  <2>. QED
    BY <1>1, <1>4, <2>1, <2>2 DEF OtherKinds
<1>6. CASE c.op = "record"
  <2>1. o \in Record(c.id, p)
    BY <1>6 DEF Outcomes
  <2>2. CASE o = Done("AlreadyRecorded")
    BY <1>3, <2>2
  <2>3. CASE c.id \notin DOMAIN p.items /\ o = Emit("Recorded", "Detected", c.id)
    <3>1. Follows(p, EventOf(p.seq + 1, [kind |-> "Detected", id |-> c.id]))
      BY <2>3 DEF Follows, EventOf
    <3>. QED
      BY <1>1, <1>4, <2>3, <3>1 DEF OtherKinds
  <2>. QED
    BY <2>1, <2>2, <2>3 DEF Record
<1>7. ASSUME NEW k \in {"Resolved", "Escalated"}, o \in DecideConflict(c.id, p, k)
      PROVE  /\ o.status # "Captured" /\ o.todo \subseteq OtherPayloads /\ Sweep(o.todo)
             /\ \A d \in o.todo : Follows(p, EventOf(p.seq + 1, d))
  <2>2. CASE o \in {Done("ConflictNotFound"), Done("NotPending")}
    BY <1>3, <2>2
  <2>3. CASE c.id \in DOMAIN p.items /\ p.items[c.id] = "Pending" /\ o = Emit(k, k, c.id)
    <3>1. Follows(p, EventOf(p.seq + 1, [kind |-> k, id |-> c.id]))
      BY <2>3 DEF Follows, EventOf
    <3>. QED
      BY <1>1, <1>4, <2>3, <3>1 DEF OtherKinds
  <2>. QED
    BY <1>7, <2>2, <2>3 DEF DecideConflict
<1>8. CASE c.op = "arbitrate"
  BY <1>7, <1>8 DEF Outcomes, Arbitrate
<1>9. CASE c.op = "escalate"
  BY <1>7, <1>9 DEF Outcomes, Escalate
<1>. QED
  BY <1>1, <1>5, <1>6, <1>8, <1>9

\* Appending one event of a sweep leaves the others decided.
LEMMA SweepGoesOn ==
    ASSUME NEW P, Sweep(P), NEW p, p.seq \in Nat,
           NEW d \in P, NEW e \in P \ {d},
           \A x \in P : Follows(p, EventOf(p.seq + 1, x))
    PROVE  Follows(ApplyEvent(p, EventOf(p.seq + 1, d)), EventOf(p.seq + 1 + 1, e))
<1> DEFINE q == ApplyEvent(p, EventOf(p.seq + 1, d))
<1>1. d.id # e.id /\ d.kind = "Admitted" /\ e.kind = "Admitted"
  BY DEF Sweep
<1>2. q.seq = p.seq + 1 /\ q.items = Apply(p.items, EventOf(p.seq + 1, d).data)
  BY FollowingSeq
<1>3. q.items = Put(p.items, d.id, d.entry)
  BY <1>1, <1>2 DEF Apply, EventOf
<1> HIDE DEF q
<1>4. e.entry.stale => /\ e.id \in DOMAIN p.items
                       /\ p.items[e.id] = [e.entry EXCEPT !.stale = FALSE]
  BY <1>1 DEF Follows, EventOf
<1>5. e.id \in DOMAIN p.items => e.id \in DOMAIN q.items /\ q.items[e.id] = p.items[e.id]
  <2>1. /\ DOMAIN q.items = DOMAIN p.items \cup {d.id}
        /\ \A j \in DOMAIN p.items : j # d.id => q.items[j] = p.items[j]
    BY <1>3 DEF Put
  <2>. QED
    BY <1>1, <2>1
<1>6. EventOf(p.seq + 1 + 1, e).seq = q.seq + 1 /\ EventOf(p.seq + 1 + 1, e).data = e
  BY <1>2 DEF EventOf
<1>7. Follows(q, EventOf(p.seq + 1 + 1, e))
  <2> DEFINE ev == EventOf(p.seq + 1 + 1, e)
  <2>1. /\ ev.seq = q.seq + 1 /\ ev.data = e /\ e.kind = "Admitted"
        /\ e.entry.stale => /\ e.id \in DOMAIN q.items
                            /\ q.items[e.id] = [e.entry EXCEPT !.stale = FALSE]
    BY <1>1, <1>4, <1>5, <1>6
  <2> HIDE DEF ev
  <2>2. Follows(q, ev)
    BY <2>1 DEF Follows
  <2>. QED
    BY <2>2 DEF ev
<1>. QED
  BY <1>7 DEF q

-----------------------------------------------------------------------------
(***************************************************************************)
(* Steps.                                                                  *)
(***************************************************************************)

\* The step is not one of thread t.
Same(t) ==
    /\ pc'[t] = pc[t]
    /\ call'[t] = call[t]
    /\ seq'[t] = seq[t]
    /\ todo'[t] = todo[t]
    /\ reply'[t] = reply[t]
    /\ first'[t] = first[t]
    /\ held'[t] = held[t]

\* What the invariant says of one thread.
Own(t) ==
    /\ pc[t] \in Working \/ (pc[t] = "done" /\ reply[t] = "Captured") => held[t] # "none"
    /\ pc[t] \in {"lock", "project", "append"} => call[t].op # "capture"
    /\ pc[t] # "append" => todo[t] = {}
    /\ pc[t] = "append" =>
          /\ reply[t] # "Captured"
          /\ Sweep(todo[t])
          /\ Ready(log[StreamOf(call[t].op)], seq[t], todo[t])
    /\ pc[t] = "again" => \A s \in Streams : Strict(first[t][s])
    /\ pc[t] = "done" /\ reply[t] = "Captured" =>
          /\ first[t] = log
          /\ \A s \in Streams : Strict(log[s])

\* The invariant of all threads; of one that does not move while the files
\* stay; and of one that does not move and has no lease.
LEMMA OwnIs ==
    (\A t \in Threads : Own(t))
        <=> Leased /\ Transacting /\ NothingLeft /\ Decided /\ Captures
  BY DEF Own, Leased, Transacting, NothingLeft, Decided, Captures

LEMMA OwnKept ==
    ASSUME NEW t \in Threads, Own(t), Same(t), log' = log
    PROVE  Own(t)'
  BY DEF Own, Same

LEMMA OwnKeptElsewhere ==
    ASSUME NEW t \in Threads, Own(t), Same(t), held[t] = "none"
    PROVE  Own(t)'
<1>1. pc'[t] \notin {"lock", "project", "append", "locks", "again"}
  BY DEF Own, Same, Working
<1>2. ~(pc'[t] = "done" /\ reply'[t] = "Captured")
  BY DEF Own, Same
<1>3. pc'[t] # "append" => todo'[t] = {}
  BY DEF Own, Same
<1>. QED
  BY <1>1, <1>2, <1>3 DEF Own, Working

\* Threads of D take a step; nobody else works while one of them writes.
LEMMA StepKeeps ==
    ASSUME IInv, TypeOK', NEW D \in SUBSET Threads,
           \A t \in Threads \ D : Same(t),
           \A t \in D : Own(t)',
           log' = log \/ \E t \in D : held[t] # "none",
           Alone',
           \A s \in Streams : lock'[s] # NoThread =>
               \/ lock'[s] = lock[s] /\ lock[s] \notin D
               \/ /\ held'[lock'[s]] # "none"
                  /\ pc'[lock'[s]] \in {"project", "append", "again", "done"},
           Shape', EventsFollowState', AckedIsWhole'
    PROVE  IInv'
<1>1. \A t \in Threads : Own(t)
  BY OwnIs DEF IInv
<1>2. ASSUME NEW t \in Threads PROVE Own(t)'
  <2>1. CASE t \in D
    BY <2>1
  <2>2. CASE t \notin D /\ log' = log
    BY <1>1, <2>2, OwnKept
  <2>3. CASE t \notin D /\ \E u \in D : held[u] # "none"
    <3>1. held[t] = "none"
      BY <2>3 DEF IInv, Alone
    <3>. QED
      BY <1>1, <2>3, <3>1, OwnKeptElsewhere
  <2>. QED
    BY <2>1, <2>2, <2>3
<1>3. (\A t \in Threads : Own(t)') => Leased' /\ Transacting' /\ NothingLeft' /\ Decided' /\ Captures'
  BY DEF Own, Leased, Transacting, NothingLeft, Decided, Captures
<1>4. LocksHeld'
  <2> SUFFICES ASSUME NEW s \in Streams, lock'[s] # NoThread
               PROVE  /\ held'[lock'[s]] # "none"
                      /\ pc'[lock'[s]] \in {"project", "append", "again", "done"}
    BY DEF LocksHeld
  <2>1. CASE lock'[s] = lock[s] /\ lock[s] \notin D
    <3>1. lock[s] \in Threads \ D
      BY <2>1 DEF IInv, TypeOK
    <3>2. held'[lock[s]] = held[lock[s]] /\ pc'[lock[s]] = pc[lock[s]]
      BY <3>1 DEF Same
    <3>. QED
      BY <2>1, <3>2 DEF IInv, LocksHeld
  <2>. QED
    BY <2>1
<1>. QED
  BY <1>2, <1>3, <1>4 DEF IInv

\* What does not write keeps what the invariant says of the files.
LEMMA FilesKept ==
    ASSUME IInv, log' = log, acked' = acked
    PROVE  Shape' /\ EventsFollowState' /\ AckedIsWhole'
  BY DEF IInv, Shape, EventsFollowState, AckedIsWhole

\* A step of one thread that touches neither files, locks nor leases.
LEMMA QuietKeeps ==
    ASSUME IInv, TypeOK', NEW t \in Threads,
           \A u \in Threads \ {t} : Same(u), Own(t)',
           log' = log, acked' = acked, lock' = lock, held' = held,
           pc[t] \in {"project", "append", "again", "done"} =>
               pc'[t] \in {"project", "append", "again", "done"}
    PROVE  IInv'
<1>1. Shape' /\ EventsFollowState' /\ AckedIsWhole'
  BY FilesKept
<1>2. Alone'
  BY DEF IInv, Alone
<1>3. ASSUME NEW s \in Streams, lock'[s] # NoThread
      PROVE  \/ lock'[s] = lock[s] /\ lock[s] \notin {t}
             \/ /\ held'[lock'[s]] # "none"
                /\ pc'[lock'[s]] \in {"project", "append", "again", "done"}
  BY <1>3 DEF IInv, LocksHeld
<1>4. \A u \in {t} : Own(u)'
  OBVIOUS
<1>. QED
  BY <1>1, <1>2, <1>3, <1>4, StepKeeps

\* What the file of a call is after the whole or a part of its next event.
LEMMA Written ==
    ASSUME IInv, NEW t \in Threads, pc[t] = "append", ~Exhausted(seq[t]),
           NEW d \in todo[t], NEW cut \in Cuts
    PROVE  LET s == StreamOf(call[t].op)
               f == log[s]
               e == EventOf(seq[t] + 1, d)
               g == Write(f, e, cut)
           IN  /\ s \in Streams /\ e \in EventsIn(s) /\ seq[t] + 1 \in 1..MaxSequence
               /\ g \in FilesIn(s) /\ ShapeOK(g)
               /\ Readable(g) => /\ Readable(f) /\ Chained(EventsOf(g))
                                 /\ Whole(f) \subseteq Whole(g)
               /\ cut = "full" =>
                    /\ g.ended
                    /\ Readable(g) => /\ e \in Whole(g)
                                      /\ EventsOf(g) = Append(EventsOf(f), e)
<1> DEFINE s == StreamOf(call[t].op)
           f == log[s]
           e == EventOf(seq[t] + 1, d)
           g == Write(f, e, cut)
<1>1. s \in Streams
  BY DEF StreamOf, Streams
<1>2. seq[t] \in 0..MaxSequence /\ MaxSequence \in Nat /\ seq[t] # MaxSequence
  BY SequenceAssumption DEF IInv, TypeOK, Exhausted
<1>3. seq[t] + 1 \in 1..MaxSequence
  BY <1>2
<1>4. d \in PayloadsOf(s)
  BY DEF IInv, TypeOK
<1>5. e \in EventsIn(s)
  BY <1>3, <1>4 DEF EventsIn
<1> HIDE DEF s
<1>6. f \in FilesIn(s) /\ ShapeOK(f) /\ (Readable(f) => Chained(EventsOf(f)))
  BY <1>1 DEF IInv, TypeOK, Shape, EventsFollowState
<1>7. /\ Readable(f) \/ f.ended
      /\ Readable(f) => Follows(Replay(f), e)
  BY DEF IInv, Decided, Ready, s
<1> HIDE DEF f, e
<1>8. CASE cut = "nothing"
  <2>1. g = f
    BY <1>8 DEF Write
  <2>. QED
    BY <1>1, <1>3, <1>5, <1>6, <1>8, <2>1 DEF s, f, e
<1>9. CASE cut # "nothing" /\ f.ended
  <2> HIDE DEF g
  <2>1. /\ g \in FilesIn(s) /\ ShapeOK(g)
        /\ Whole(f) \subseteq Whole(g)
        /\ cut = "full" => e \in Whole(g)
        /\ Readable(g) =>
             /\ Readable(f)
             /\ \/ cut \notin {"bare", "full"} /\ EventsOf(g) = EventsOf(f)
                \/ cut \in {"bare", "full"} /\ EventsOf(g) = Append(EventsOf(f), e)
    BY <1>5, <1>6, <1>9, WriteToEnded DEF g
  <2>2. cut = "full" => g.ended
    BY <1>5, <1>6, <1>9, WriteFields DEF g
  <2>3. Readable(g) => Chained(EventsOf(g))
    <3>1. SUFFICES ASSUME Readable(g) PROVE Chained(EventsOf(g))
      OBVIOUS
    <3>2. EventsOf(f) \in Seq(EventsIn(s)) /\ Chained(EventsOf(f)) /\ Follows(Fold(EventsOf(f)), e)
      BY <1>6, <1>7, <2>1, <3>1, EventsFacts DEF Replay
    <3>. QED
      BY <1>5, <2>1, <3>1, <3>2, ChainedAppend
  <2>. QED
    BY <1>1, <1>3, <1>5, <2>1, <2>2, <2>3 DEF s, f, e, g
<1>10. CASE cut # "nothing" /\ ~f.ended
  <2> HIDE DEF g
  <2>0. Readable(f)
    BY <1>7, <1>10
  <2>1. /\ g \in FilesIn(s) /\ ShapeOK(g)
        /\ Whole(f) \subseteq Whole(g)
        /\ Readable(g) =>
             /\ cut # "full"
             /\ EventsOf(g) = EventsOf(f) \/ EventsOf(g) = Front(EventsOf(f))
             /\ EventsOf(f) = <<>> => EventsOf(g) = <<>>
    BY <1>5, <1>6, <1>10, <2>0, WriteToTorn DEF g
  <2>2. cut = "full" => g.ended
    <3>1. f.lines # <<>>
      BY <1>6, <1>10 DEF ShapeOK
    <3>. QED
      BY <1>5, <1>6, <1>10, <3>1, WriteFields DEF g
  <2>3. Readable(g) => Chained(EventsOf(g))
    <3>1. SUFFICES ASSUME Readable(g) PROVE Chained(EventsOf(g))
      OBVIOUS
    <3>2. EventsOf(f) \in Seq(EventsIn(s)) /\ Chained(EventsOf(f))
      BY <1>6, <2>0, EventsFacts
    <3>3. CASE EventsOf(f) = <<>>
      BY <2>1, <3>1, <3>2, <3>3
    <3>4. CASE EventsOf(f) # <<>>
      BY <2>1, <3>1, <3>2, <3>4, ChainedFront
    <3>. QED
      BY <3>3, <3>4
  <2>. QED
    BY <1>1, <1>3, <1>5, <2>0, <2>1, <2>2, <2>3 DEF s, f, e, g
<1>. QED
  BY <1>8, <1>9, <1>10

\* What the step of a writer leaves, whatever part of an event it has written.
LEMMA WriteKeepsFiles ==
    ASSUME IInv, NEW t \in Threads, pc[t] = "append", ~Exhausted(seq[t]),
           NEW d \in todo[t], NEW cut \in Cuts, NEW s, s = StreamOf(call[t].op),
           NEW e, e = EventOf(seq[t] + 1, d),
           log' = [log EXCEPT ![s] = Write(@, e, cut)],
           \/ acked' = acked
           \/ cut = "full" /\ acked' = [acked EXCEPT ![s] = @ \cup {e}]
    PROVE  /\ DOMAIN log' = Streams /\ \A q \in Streams : log'[q] \in FilesIn(q)
           /\ Shape' /\ EventsFollowState' /\ AckedIsWhole'
<1> DEFINE g == Write(log[s], e, cut)
<1>1. /\ s \in Streams
      /\ g \in FilesIn(s) /\ ShapeOK(g)
      /\ Readable(g) => /\ Readable(log[s]) /\ Chained(EventsOf(g))
                        /\ Whole(log[s]) \subseteq Whole(g)
      /\ cut = "full" => (Readable(g) => e \in Whole(g))
  BY Written
<1> HIDE DEF g
<1>2. /\ DOMAIN log' = Streams /\ log'[s] = g
      /\ \A q \in Streams \ {s} : log'[q] = log[q]
  BY <1>1 DEF IInv, TypeOK, g
<1>3. DOMAIN acked = Streams
  BY DEF IInv, TypeOK
<1>4. /\ \A q \in Streams \ {s} : acked'[q] = acked[q]
      /\ acked'[s] = acked[s] \/ (cut = "full" /\ acked'[s] = acked[s] \cup {e})
  BY <1>1, <1>3
<1>5. \A q \in Streams : log'[q] \in FilesIn(q)
  BY <1>1, <1>2 DEF IInv, TypeOK
<1>6. Shape'
  BY <1>1, <1>2 DEF IInv, Shape
<1>7. EventsFollowState'
  BY <1>1, <1>2 DEF IInv, EventsFollowState
<1>8. AckedIsWhole'
  <2> SUFFICES ASSUME NEW q \in Streams, Readable(log'[q]) PROVE acked'[q] \subseteq Whole(log'[q])
    BY DEF AckedIsWhole
  <2>1. CASE q = s
    <3>1. acked[s] \subseteq Whole(log[s])
      BY <1>1, <1>2, <2>1 DEF IInv, AckedIsWhole
    <3>. QED
      BY <1>1, <1>2, <1>4, <2>1, <3>1
  <2>2. CASE q # s
    BY <1>2, <1>4, <2>2 DEF IInv, AckedIsWhole
  <2>. QED
    BY <2>1, <2>2
<1>. QED
  BY <1>2, <1>5, <1>6, <1>7, <1>8

\* One lemma for each action.
LEMMA DenyKeeps ==
    ASSUME IInv, NEW t \in Threads, Deny(t)
    PROVE  IInv'
<1> USE DEF IInv
<1>1. TypeOK'
  BY DEF TypeOK, Deny, boundary, files, Goto, Finish, Stages
<1>2. \A u \in Threads \ {t} : Same(u)
  BY DEF TypeOK, Deny, boundary, files, Goto, Finish, Same
<1>3. Own(t)'
  <2>1. pc'[t] = "done" /\ reply'[t] # "Captured" /\ todo'[t] = {}
    BY DEF TypeOK, Deny, Finish, Goto, NothingLeft
  <2>. QED
    BY <2>1 DEF Own, Working
<1>4. log' = log /\ acked' = acked /\ lock' = lock /\ held' = held
  BY DEF Deny, boundary, files
<1>5. pc[t] \in {"project", "append", "again", "done"} =>
          pc'[t] \in {"project", "append", "again", "done"}
  BY DEF TypeOK, Deny, Goto, Finish
<1>. QED
  BY <1>1, <1>2, <1>3, <1>4, <1>5, QuietKeeps

LEMMA EnterRefusedKeeps ==
    ASSUME IInv, NEW t \in Threads, EnterRefused(t)
    PROVE  IInv'
<1> USE DEF IInv
<1>1. TypeOK'
  BY DEF TypeOK, EnterRefused, boundary, files, Goto, Finish, Stages
<1>2. \A u \in Threads \ {t} : Same(u)
  BY DEF TypeOK, EnterRefused, boundary, files, Goto, Finish, Same
<1>3. Own(t)'
  <2>1. pc'[t] = "done" /\ reply'[t] # "Captured" /\ todo'[t] = {}
    BY DEF TypeOK, EnterRefused, Finish, Goto, NothingLeft
  <2>. QED
    BY <2>1 DEF Own, Working
<1>4. log' = log /\ acked' = acked /\ lock' = lock /\ held' = held
  BY DEF EnterRefused, boundary, files
<1>5. pc[t] \in {"project", "append", "again", "done"} =>
          pc'[t] \in {"project", "append", "again", "done"}
  BY DEF TypeOK, EnterRefused, Goto, Finish
<1>. QED
  BY <1>1, <1>2, <1>3, <1>4, <1>5, QuietKeeps

LEMMA ProjectFailsKeeps ==
    ASSUME IInv, NEW t \in Threads, ProjectFails(t)
    PROVE  IInv'
<1> USE DEF IInv
<1>1. TypeOK'
  BY DEF TypeOK, ProjectFails, boundary, files, Goto, Finish, Stages
<1>2. \A u \in Threads \ {t} : Same(u)
  BY DEF TypeOK, ProjectFails, boundary, files, Goto, Finish, Same
<1>3. Own(t)'
  <2>1. pc'[t] = "done" /\ reply'[t] # "Captured" /\ todo'[t] = {}
    BY DEF TypeOK, ProjectFails, Finish, Goto, NothingLeft
  <2>. QED
    BY <2>1 DEF Own, Working
<1>4. log' = log /\ acked' = acked /\ lock' = lock /\ held' = held
  BY DEF ProjectFails, boundary, files
<1>5. pc[t] \in {"project", "append", "again", "done"} =>
          pc'[t] \in {"project", "append", "again", "done"}
  BY DEF TypeOK, ProjectFails, Goto, Finish
<1>. QED
  BY <1>1, <1>2, <1>3, <1>4, <1>5, QuietKeeps

LEMMA QuiesceCancelledKeeps ==
    ASSUME IInv, NEW t \in Threads, QuiesceCancelled(t)
    PROVE  IInv'
<1> USE DEF IInv
<1>1. TypeOK'
  BY DEF TypeOK, QuiesceCancelled, boundary, files, Goto, Finish, Stages
<1>2. \A u \in Threads \ {t} : Same(u)
  BY DEF TypeOK, QuiesceCancelled, boundary, files, Goto, Finish, Same
<1>3. Own(t)'
  <2>1. pc'[t] = "done" /\ reply'[t] # "Captured" /\ todo'[t] = {}
    BY DEF TypeOK, QuiesceCancelled, Finish, Goto, NothingLeft
  <2>. QED
    BY <2>1 DEF Own, Working
<1>4. log' = log /\ acked' = acked /\ lock' = lock /\ held' = held
  BY DEF QuiesceCancelled, boundary, files
<1>5. pc[t] \in {"project", "append", "again", "done"} =>
          pc'[t] \in {"project", "append", "again", "done"}
  BY DEF TypeOK, QuiesceCancelled, Goto, Finish
<1>. QED
  BY <1>1, <1>2, <1>3, <1>4, <1>5, QuietKeeps

LEMMA AppendExhaustedKeeps ==
    ASSUME IInv, NEW t \in Threads, AppendExhausted(t)
    PROVE  IInv'
<1> USE DEF IInv
<1>1. TypeOK'
  BY DEF TypeOK, AppendExhausted, boundary, files, Goto, Finish, Stages
<1>2. \A u \in Threads \ {t} : Same(u)
  BY DEF TypeOK, AppendExhausted, boundary, files, Goto, Finish, Same
<1>3. Own(t)'
  <2>1. pc'[t] = "done" /\ reply'[t] # "Captured" /\ todo'[t] = {}
    BY DEF TypeOK, AppendExhausted, Finish, Goto
  <2>. QED
    BY <2>1 DEF Own, Working
<1>4. log' = log /\ acked' = acked /\ lock' = lock /\ held' = held
  BY DEF AppendExhausted, boundary, files
<1>5. pc[t] \in {"project", "append", "again", "done"} =>
          pc'[t] \in {"project", "append", "again", "done"}
  BY DEF TypeOK, AppendExhausted, Goto, Finish
<1>. QED
  BY <1>1, <1>2, <1>3, <1>4, <1>5, QuietKeeps

LEMMA BeginKeeps ==
    ASSUME IInv, NEW t \in Threads, Begin(t)
    PROVE  IInv'
<1> USE DEF IInv
<1>1. TypeOK'
  <2>1. PICK o \in Calls[t] : \E i \in IF o \in {"list_now", "project", "capture"} THEN {NoId} ELSE Ids :
          call' = [call EXCEPT ![t] = [op |-> o, id |-> i]]
    BY DEF Begin
  <2>2. PICK i \in IF o \in {"list_now", "project", "capture"} THEN {NoId} ELSE Ids :
          call' = [call EXCEPT ![t] = [op |-> o, id |-> i]]
    BY <2>1
  <2>3. o \in Ops
    BY CallsTypeAssumption
  <2>4. DOMAIN call' = Threads /\ \A u \in Threads \ {t} : call'[u] = call[u]
    BY <2>2 DEF TypeOK
  <2>5. CallOK(call'[t])
    BY <2>2, <2>3 DEF TypeOK, CallOK
  <2>6. todo'[t] = {} /\ \A u \in Threads : todo'[u] = todo[u]
    BY DEF Begin, NothingLeft
  <2>7. /\ \A u \in Threads : CallOK(call'[u])
        /\ \A u \in Threads : todo'[u] \subseteq PayloadsOf(StreamOf(call'[u].op))
    BY <2>4, <2>5, <2>6 DEF TypeOK
  <2>. QED
    BY <2>4, <2>7 DEF TypeOK, Begin, boundary, files, Goto, Stages
<1>2. \A u \in Threads \ {t} : Same(u)
  BY DEF TypeOK, Begin, boundary, files, Goto, Finish, Same
<1>3. Own(t)'
  <2>1. pc'[t] = "called" /\ todo'[t] = {}
    BY DEF TypeOK, Begin, Goto, NothingLeft
  <2>. QED
    BY <2>1 DEF Own, Working
<1>4. log' = log /\ acked' = acked /\ lock' = lock /\ held' = held
  BY DEF Begin, boundary, files
<1>5. pc[t] \in {"project", "append", "again", "done"} =>
          pc'[t] \in {"project", "append", "again", "done"}
  BY DEF TypeOK, Begin, Goto, Finish
<1>. QED
  BY <1>1, <1>2, <1>3, <1>4, <1>5, QuietKeeps

LEMMA EnterKeeps ==
    ASSUME IInv, NEW t \in Threads, Enter(t)
    PROVE  IInv'
<1> USE DEF IInv
<1>1. TypeOK'
  BY DEF TypeOK, Enter, Boundary!Grant, files, Goto, Stages
<1>2. \A u \in Threads \ {t} : Same(u) /\ held[u] = "none"
  BY DEF TypeOK, Enter, Boundary!Grant, Boundary!Together, files, Goto, Same
<1>3. pc[t] = "called" /\ pc'[t] = "lock" /\ held'[t] # "none" /\ todo'[t] = {} /\ call'[t].op # "capture"
  BY DEF TypeOK, Enter, Boundary!Grant, Goto, NothingLeft
<1>4. Own(t)'
  BY <1>3 DEF Own, Working
<1>5. log' = log /\ acked' = acked /\ lock' = lock
  BY DEF Enter, files
<1>6. Alone'
  BY <1>2 DEF Alone, Same
<1>7. \A s \in Streams : lock'[s] = lock[s] /\ lock[s] \notin {t}
  BY <1>3, <1>5, NullsAssumption DEF LocksHeld
<1>8. Shape' /\ EventsFollowState' /\ AckedIsWhole'
  BY <1>5, FilesKept
<1>9. \A u \in {t} : Own(u)'
  BY <1>4
<1>. QED
  <2>1. \A u \in Threads \ {t} : Same(u)
    BY <1>2
  <2>2. log' = log \/ \E u \in {t} : held[u] # "none"
    BY <1>5
  <2>3. {t} \in SUBSET Threads
    OBVIOUS
  <2>. QED
    BY <1>1, <1>6, <1>7, <1>8, <1>9, <2>1, <2>2, <2>3, StepKeeps

LEMMA QuiesceKeeps ==
    ASSUME IInv, NEW t \in Threads, Quiesce(t)
    PROVE  IInv'
<1> USE DEF IInv
<1>1. TypeOK'
  BY DEF TypeOK, Quiesce, Boundary!Grant, files, Goto, Stages
<1>2. \A u \in Threads \ {t} : Same(u) /\ held[u] = "none"
  BY DEF TypeOK, Quiesce, Boundary!Grant, Boundary!Together, files, Goto, Same
<1>3. pc[t] = "closed" /\ pc'[t] = "locks" /\ held'[t] # "none" /\ todo'[t] = {}
  BY DEF TypeOK, Quiesce, Boundary!Grant, Goto, NothingLeft
<1>4. Own(t)'
  BY <1>3 DEF Own, Working
<1>5. log' = log /\ acked' = acked /\ lock' = lock
  BY DEF Quiesce, files
<1>6. Alone'
  BY <1>2 DEF Alone, Same
<1>7. \A s \in Streams : lock'[s] = lock[s] /\ lock[s] \notin {t}
  BY <1>3, <1>5, NullsAssumption DEF LocksHeld
<1>8. Shape' /\ EventsFollowState' /\ AckedIsWhole'
  BY <1>5, FilesKept
<1>9. \A u \in {t} : Own(u)'
  BY <1>4
<1>. QED
  <2>1. \A u \in Threads \ {t} : Same(u)
    BY <1>2
  <2>2. log' = log \/ \E u \in {t} : held[u] # "none"
    BY <1>5
  <2>3. {t} \in SUBSET Threads
    OBVIOUS
  <2>. QED
    BY <1>1, <1>6, <1>7, <1>8, <1>9, <2>1, <2>2, <2>3, StepKeeps

LEMMA CloseAdmissionKeeps ==
    ASSUME IInv, NEW t \in Threads, CloseAdmission(t)
    PROVE  IInv'
<1> USE DEF IInv
<1>1. TypeOK'
  BY DEF TypeOK, CloseAdmission, Boundary!Close, files, Goto, Stages
<1>2. \A u \in Threads \ {t} : Same(u)
  BY DEF TypeOK, CloseAdmission, Boundary!Close, files, Goto, Same
<1>3. pc[t] = "called" /\ pc'[t] = "closed" /\ todo'[t] = {}
  BY DEF TypeOK, CloseAdmission, Goto, NothingLeft
<1>4. Own(t)'
  BY <1>3 DEF Own, Working
<1>5. log' = log /\ acked' = acked /\ lock' = lock /\ held' = held
  BY DEF CloseAdmission, Boundary!Close, files
<1>. QED
  BY <1>1, <1>2, <1>3, <1>4, <1>5, QuietKeeps

LEMMA SecondPassKeeps ==
    ASSUME IInv, NEW t \in Threads, SecondPass(t)
    PROVE  IInv'
<1> USE DEF IInv
<1>1. TypeOK'
  BY DEF TypeOK, SecondPass, boundary, files, Goto, Finish, Stages
<1>2. \A u \in Threads \ {t} : Same(u)
  BY DEF TypeOK, SecondPass, boundary, files, Goto, Finish, Same
<1>3. /\ pc[t] = "again" /\ pc'[t] = "done" /\ todo'[t] = {} /\ held'[t] # "none"
      /\ log' = log /\ acked' = acked /\ lock' = lock /\ held' = held /\ first' = first
      /\ reply'[t] = IF log = first[t] THEN "Captured" ELSE "StoreError"
  BY DEF TypeOK, SecondPass, boundary, files, Goto, Finish, NothingLeft, Leased, Working
<1>4. \A s \in Streams : Strict(first[t][s])
  BY <1>3 DEF Captures
<1>5. reply'[t] = "Captured" => first'[t] = log' /\ \A s \in Streams : Strict(log'[s])
  BY <1>3, <1>4
<1>6. Own(t)'
  BY <1>3, <1>5 DEF Own, Working
<1>. QED
  BY <1>1, <1>2, <1>3, <1>6, QuietKeeps

LEMMA ProjectKeeps ==
    ASSUME IInv, NEW t \in Threads, Project(t)
    PROVE  IInv'
<1> USE DEF IInv
<1> DEFINE s == StreamOf(call[t].op)
           f == log[s]
           p == Replay(f)
<1>1. PICK o \in Outcomes(call[t], p) :
        /\ seq' = [seq EXCEPT ![t] = p.seq]
        /\ todo' = [todo EXCEPT ![t] = o.todo]
        /\ reply' = [reply EXCEPT ![t] = o.status]
        /\ pc' = [pc EXCEPT ![t] = IF o.todo = {} THEN "done" ELSE "append"]
  BY DEF Project, Goto
<1>2. /\ pc[t] = "project" /\ Readable(f) /\ call[t].op # "capture" /\ CallOK(call[t])
      /\ held' = held /\ log' = log /\ lock' = lock /\ acked' = acked /\ call' = call /\ first' = first
  BY DEF Project, boundary, files, Transacting, TypeOK
<1>3. s \in Streams /\ f \in FilesIn(s)
  BY DEF TypeOK, StreamOf, Streams
<1>4. ProjOK(s, p)
  BY <1>2, <1>3, EventsFacts, FoldTyped DEF Replay
<1> HIDE DEF p
<1>5. /\ o.status # "Captured" /\ o.todo \subseteq PayloadsOf(s) /\ Sweep(o.todo)
      /\ \A d \in o.todo : Follows(p, EventOf(p.seq + 1, d))
  <2>1. CASE s = "Memory"
    BY <1>2, <1>4, <2>1, MemoryOutcomes DEF PayloadsOf
  <2>2. CASE s # "Memory"
    BY <1>2, <2>2, OtherOutcomes DEF PayloadsOf
  <2>. QED
    BY <2>1, <2>2
<1>6. /\ seq'[t] = p.seq /\ todo'[t] = o.todo /\ reply'[t] = o.status
      /\ pc'[t] = IF o.todo = {} THEN "done" ELSE "append"
      /\ DOMAIN todo' = Threads /\ DOMAIN reply' = Threads
      /\ \A u \in Threads \ {t} : todo'[u] = todo[u]
  BY <1>1 DEF TypeOK
<1>7. p.seq \in 0..MaxSequence
  BY <1>4 DEF ProjOK
<1>8. \A u \in Threads : todo'[u] \subseteq PayloadsOf(StreamOf(call'[u].op))
  BY <1>2, <1>5, <1>6 DEF TypeOK
<1>9. seq' \in [Threads -> 0..MaxSequence] /\ pc' \in [Threads -> Stages]
  BY <1>1, <1>7 DEF TypeOK, Stages
<1>10. TypeOK'
  BY <1>2, <1>6, <1>8, <1>9 DEF TypeOK
<1>11. \A u \in Threads \ {t} : Same(u)
  BY <1>1, <1>2 DEF TypeOK, Same
<1>12. held[t] # "none"
  BY <1>2 DEF Leased, Working
<1>13. Ready(f, p.seq, o.todo)
  BY <1>2, <1>5 DEF Ready, p
<1>14. Own(t)'
  <2>1. CASE o.todo = {}
    BY <1>2, <1>5, <1>6, <2>1 DEF Own, Working
  <2>2. CASE o.todo # {}
    <3>1. pc'[t] = "append" /\ reply'[t] # "Captured" /\ Sweep(todo'[t]) /\ held'[t] # "none"
          /\ call'[t].op # "capture" /\ Ready(log'[StreamOf(call'[t].op)], seq'[t], todo'[t])
      BY <1>2, <1>5, <1>6, <1>12, <1>13, <2>2
    <3>. QED
      BY <3>1 DEF Own
  <2>. QED
    BY <2>1, <2>2
<1>15. pc'[t] \in {"project", "append", "again", "done"}
  BY <1>6
<1>. QED
  BY <1>2, <1>10, <1>11, <1>14, <1>15, QuietKeeps

LEMMA LockStreamKeeps ==
    ASSUME IInv, NEW t \in Threads, LockStream(t)
    PROVE  IInv'
<1> USE DEF IInv
<1> DEFINE s == StreamOf(call[t].op)
<1>1. /\ s \in Streams /\ pc[t] = "lock" /\ pc'[t] = "project" /\ todo'[t] = {}
      /\ call' = call /\ call[t].op # "capture"
      /\ held' = held /\ acked' = acked /\ held[t] # "none"
  BY DEF LockStream, boundary, Goto, StreamOf, Streams, TypeOK, NothingLeft, Transacting, Leased, Working
<1>2. /\ DOMAIN log' = Streams
      /\ \A q \in Streams \ {s} : log'[q] = log[q]
      /\ log'[s] = [log[s] EXCEPT !.made = TRUE]
  BY <1>1 DEF LockStream, TypeOK
<1>3. log'[s] \in FilesIn(s) /\ log'[s].lines = log[s].lines /\ log'[s].ended = log[s].ended
  BY <1>1, <1>2 DEF TypeOK, FilesIn
<1>4. /\ \A q \in Streams : log'[q].lines = log[q].lines
      /\ \A q \in Streams : log'[q].ended = log[q].ended
      /\ \A q \in Streams : log'[q] \in FilesIn(q)
  BY <1>2, <1>3 DEF TypeOK
<1>5. TypeOK'
  BY <1>1, <1>2, <1>4 DEF TypeOK, LockStream, boundary, Goto, Stages
<1>6. Shape'
  BY <1>4 DEF Shape, ShapeOK
<1>7. EventsFollowState'
  BY <1>4 DEF EventsFollowState, EventsOf, Readable, Torn
<1>8. AckedIsWhole'
  BY <1>1, <1>4 DEF AckedIsWhole, Whole, Readable, Torn
<1>9. \A u \in Threads \ {t} : Same(u)
  BY DEF TypeOK, LockStream, boundary, Goto, Same
<1>10. Alone'
  BY <1>1 DEF Alone
<1>11. \A u \in {t} : Own(u)'
  BY <1>1 DEF Own, Working
<1>12. ASSUME NEW q \in Streams, lock'[q] # NoThread
       PROVE  \/ lock'[q] = lock[q] /\ lock[q] \notin {t}
              \/ /\ held'[lock'[q]] # "none"
                 /\ pc'[lock'[q]] \in {"project", "append", "again", "done"}
  <2>1. lock[q] # t
    BY <1>1, NullsAssumption DEF LocksHeld
  <2>2. lock'[q] = lock[q] \/ lock'[q] = t
    BY <1>1 DEF LockStream, TypeOK
  <2>. QED
    BY <1>1, <2>1, <2>2
<1>13. \E u \in {t} : held[u] # "none"
  BY <1>1
<1>. QED
  BY <1>5, <1>6, <1>7, <1>8, <1>9, <1>10, <1>11, <1>12, <1>13, StepKeeps

LEMMA AppendEventKeeps ==
    ASSUME IInv, NEW t \in Threads, AppendEvent(t)
    PROVE  IInv'
<1> USE DEF IInv
<1> DEFINE s == StreamOf(call[t].op)
<1>1. PICK d \in todo[t] :
        /\ log' = [log EXCEPT ![s] = Write(@, EventOf(seq[t] + 1, d), "full")]
        /\ acked' = [acked EXCEPT ![s] = @ \cup {EventOf(seq[t] + 1, d)}]
        /\ todo' = [todo EXCEPT ![t] = @ \ {d}]
        /\ pc' = [pc EXCEPT ![t] = IF todo[t] = {d} THEN "done" ELSE "append"]
  BY DEF AppendEvent, Goto
<1>2. /\ pc[t] = "append" /\ ~Exhausted(seq[t]) /\ seq' = [seq EXCEPT ![t] = @ + 1]
      /\ held' = held /\ lock' = lock /\ call' = call /\ reply' = reply /\ first' = first
  BY DEF AppendEvent, boundary
<1> DEFINE e == EventOf(seq[t] + 1, d)
           f == log[s]
           g == Write(f, e, "full")
<1>3. /\ s \in Streams /\ e \in EventsIn(s) /\ seq[t] + 1 \in 1..MaxSequence
      /\ g.ended
      /\ Readable(g) => /\ Readable(f) /\ EventsOf(g) = Append(EventsOf(f), e)
  BY <1>2, Written DEF Cuts
<1>4. /\ DOMAIN log' = Streams /\ \A q \in Streams : log'[q] \in FilesIn(q)
      /\ Shape' /\ EventsFollowState' /\ AckedIsWhole'
  BY <1>1, <1>2, WriteKeepsFiles DEF Cuts
<1>5. /\ log'[s] = g /\ DOMAIN acked' = Streams
      /\ todo'[t] = todo[t] \ {d} /\ DOMAIN todo' = Threads
      /\ \A u \in Threads \ {t} : todo'[u] = todo[u]
      /\ pc'[t] = IF todo[t] = {d} THEN "done" ELSE "append"
      /\ seq'[t] = seq[t] + 1
  BY <1>1, <1>2, <1>3 DEF TypeOK
<1>6. seq' \in [Threads -> 0..MaxSequence] /\ pc' \in [Threads -> Stages]
  BY <1>1, <1>2, <1>3 DEF TypeOK, Stages
<1>7. TypeOK'
  BY <1>2, <1>4, <1>5, <1>6 DEF TypeOK
<1>8. \A u \in Threads \ {t} : Same(u)
  BY <1>1, <1>2 DEF TypeOK, Same
<1>9. /\ held[t] # "none" /\ call[t].op # "capture" /\ reply[t] # "Captured"
      /\ Sweep(todo[t]) /\ Ready(f, seq[t], todo[t])
  BY <1>2 DEF Leased, Working, Transacting, Decided
<1>10. Ready(g, seq[t] + 1, todo[t] \ {d})
  <2>1. SUFFICES ASSUME Readable(g)
                 PROVE  /\ Replay(g).seq = seq[t] + 1
                        /\ \A x \in todo[t] \ {d} : Follows(Replay(g), EventOf(seq[t] + 1 + 1, x))
    BY <1>3 DEF Ready
  <2> DEFINE p == Replay(f)
  <2>2. /\ Readable(f) /\ p.seq = seq[t] /\ seq[t] \in Nat
        /\ \A x \in todo[t] : Follows(p, EventOf(p.seq + 1, x))
    BY <1>3, <1>9, <2>1 DEF Ready, TypeOK
  <2>3. f \in FilesIn(s)
    BY <1>3 DEF TypeOK
  <2>4. Replay(g) = ApplyEvent(p, EventOf(p.seq + 1, d))
    <3>1. EventsOf(f) \in Seq(EventsIn(s))
      BY <2>2, <2>3, EventsFacts
    <3>2. Fold(Append(EventsOf(f), e)) = ApplyEvent(Fold(EventsOf(f)), e)
      BY <1>3, <3>1, FoldAppend
    <3>. QED
      BY <1>3, <2>1, <2>2, <3>2 DEF Replay
  <2> HIDE DEF p
  <2>5. ApplyEvent(p, EventOf(p.seq + 1, d)).seq = p.seq + 1
    BY <2>2, FollowingSeq
  <2>6. ASSUME NEW x \in todo[t] \ {d} PROVE Follows(Replay(g), EventOf(seq[t] + 1 + 1, x))
    BY <1>9, <2>2, <2>4, SweepGoesOn
  <2>. QED
    BY <2>2, <2>4, <2>5, <2>6
<1>11. Sweep(todo[t] \ {d})
  BY <1>9 DEF Sweep
<1>12. Own(t)'
  <2>1. CASE todo[t] = {d}
    BY <1>2, <1>5, <1>9, <2>1 DEF Own, Working
  <2>2. CASE todo[t] # {d}
    <3>1. /\ pc'[t] = "append" /\ reply'[t] # "Captured" /\ Sweep(todo'[t]) /\ held'[t] # "none"
          /\ call'[t].op # "capture" /\ Ready(log'[StreamOf(call'[t].op)], seq'[t], todo'[t])
      BY <1>2, <1>5, <1>9, <1>10, <1>11, <2>2
    <3>. QED
      BY <3>1 DEF Own
  <2>. QED
    BY <2>1, <2>2
<1>13. \A u \in {t} : Own(u)'
  BY <1>12
<1>14. Alone'
  BY <1>2 DEF Alone
<1>15. ASSUME NEW q \in Streams, lock'[q] # NoThread
       PROVE  \/ lock'[q] = lock[q] /\ lock[q] \notin {t}
              \/ /\ held'[lock'[q]] # "none"
                 /\ pc'[lock'[q]] \in {"project", "append", "again", "done"}
  BY <1>2, <1>5, <1>9
<1>16. \E u \in {t} : held[u] # "none"
  BY <1>9
<1>. QED
  BY <1>4, <1>7, <1>8, <1>13, <1>14, <1>15, <1>16, StepKeeps

LEMMA AppendFailsKeeps ==
    ASSUME IInv, NEW t \in Threads, AppendFails(t)
    PROVE  IInv'
<1> USE DEF IInv
<1> DEFINE s == StreamOf(call[t].op)
<1>1. /\ pc[t] = "append" /\ ~Exhausted(seq[t]) /\ Tear(t)
      /\ pc' = [pc EXCEPT ![t] = "done"] /\ reply' = [reply EXCEPT ![t] = "StoreError"]
      /\ todo' = [todo EXCEPT ![t] = {}]
      /\ held' = held /\ lock' = lock /\ acked' = acked /\ call' = call /\ seq' = seq /\ first' = first
  BY DEF AppendFails, Finish, Goto, boundary
<1>2. PICK d \in todo[t] : \E cut \in Cuts :
        log' = [log EXCEPT ![s] = Write(@, EventOf(seq[t] + 1, d), cut)]
  BY <1>1 DEF Tear
<1>3. PICK cut \in Cuts : log' = [log EXCEPT ![s] = Write(@, EventOf(seq[t] + 1, d), cut)]
  BY <1>2
<1>4. /\ DOMAIN log' = Streams /\ \A q \in Streams : log'[q] \in FilesIn(q)
      /\ Shape' /\ EventsFollowState' /\ AckedIsWhole'
  BY <1>1, <1>3, WriteKeepsFiles
<1>5. TypeOK'
  BY <1>1, <1>4 DEF TypeOK, Stages
<1>6. \A u \in Threads \ {t} : Same(u)
  BY <1>1 DEF TypeOK, Same
<1>7. pc'[t] = "done" /\ reply'[t] # "Captured" /\ todo'[t] = {} /\ held[t] # "none"
  BY <1>1 DEF TypeOK, Leased, Working
<1>8. \A u \in {t} : Own(u)'
  BY <1>7 DEF Own, Working
<1>9. Alone'
  BY <1>1 DEF Alone
<1>10. ASSUME NEW q \in Streams, lock'[q] # NoThread
       PROVE  \/ lock'[q] = lock[q] /\ lock[q] \notin {t}
              \/ /\ held'[lock'[q]] # "none"
                 /\ pc'[lock'[q]] \in {"project", "append", "again", "done"}
  BY <1>1, <1>7
<1>11. \E u \in {t} : held[u] # "none"
  BY <1>7
<1>. QED
  BY <1>4, <1>5, <1>6, <1>8, <1>9, <1>10, <1>11, StepKeeps

LEMMA FirstPassKeeps ==
    ASSUME IInv, NEW t \in Threads, FirstPass(t)
    PROVE  IInv'
<1> USE DEF IInv
<1>1. /\ pc[t] = "locks" /\ lock' = [s \in Streams |-> t]
      /\ held' = held /\ log' = log /\ acked' = acked /\ call' = call /\ seq' = seq /\ todo' = todo
      /\ todo[t] = {} /\ held[t] # "none"
  BY DEF FirstPass, boundary, NothingLeft, Leased, Working
<1>2. \/ /\ \A s \in Streams : Strict(log[s])
         /\ first' = [first EXCEPT ![t] = log] /\ pc' = [pc EXCEPT ![t] = "again"] /\ reply' = reply
      \/ /\ pc' = [pc EXCEPT ![t] = "done"] /\ reply' = [reply EXCEPT ![t] = "StoreError"]
         /\ first' = first
  BY DEF FirstPass, Finish, Goto
<1>3. TypeOK'
  BY <1>1, <1>2 DEF TypeOK, Stages
<1>4. \A u \in Threads \ {t} : Same(u)
  BY <1>1, <1>2 DEF TypeOK, Same
<1>5. \/ /\ pc'[t] = "again" /\ first'[t] = log /\ \A s \in Streams : Strict(first'[t][s])
      \/ pc'[t] = "done" /\ reply'[t] # "Captured"
  BY <1>2 DEF TypeOK
<1>6. \A u \in {t} : Own(u)'
  BY <1>1, <1>5 DEF Own, Working
<1>7. Alone'
  BY <1>1 DEF Alone
<1>8. ASSUME NEW q \in Streams, lock'[q] # NoThread
      PROVE  \/ lock'[q] = lock[q] /\ lock[q] \notin {t}
             \/ /\ held'[lock'[q]] # "none"
                /\ pc'[lock'[q]] \in {"project", "append", "again", "done"}
  BY <1>1, <1>5
<1>9. Shape' /\ EventsFollowState' /\ AckedIsWhole'
  BY <1>1, FilesKept
<1>10. log' = log \/ \E u \in {t} : held[u] # "none"
  BY <1>1
<1>11. {t} \in SUBSET Threads
  OBVIOUS
<1>. QED
  BY <1>3, <1>4, <1>6, <1>7, <1>8, <1>9, <1>10, <1>11, StepKeeps

LEMMA UnlockKeeps ==
    ASSUME IInv, NEW t \in Threads, Unlock(t)
    PROVE  IInv'
<1> USE DEF IInv
<1>1. /\ pc[t] = "done" /\ pc' = [pc EXCEPT ![t] = "leave"]
      /\ lock' = [s \in Streams |-> IF lock[s] \in {t} THEN NoThread ELSE lock[s]]
      /\ held' = held /\ log' = log /\ acked' = acked /\ call' = call /\ seq' = seq
      /\ todo' = todo /\ reply' = reply /\ first' = first
      /\ todo[t] = {}
  BY DEF Unlock, Unlocked, Goto, boundary, NothingLeft
<1>2. TypeOK'
  BY <1>1 DEF TypeOK, Stages
<1>3. \A u \in Threads \ {t} : Same(u)
  BY <1>1 DEF TypeOK, Same
<1>4. pc'[t] = "leave"
  BY <1>1 DEF TypeOK
<1>5. \A u \in {t} : Own(u)'
  BY <1>1, <1>4 DEF Own, Working
<1>6. Alone'
  BY <1>1 DEF Alone
<1>7. \A q \in Streams : lock'[q] # NoThread => lock'[q] = lock[q] /\ lock[q] \notin {t}
  BY <1>1
<1>8. Shape' /\ EventsFollowState' /\ AckedIsWhole'
  BY <1>1, FilesKept
<1>9. {t} \in SUBSET Threads
  OBVIOUS
<1>. QED
  BY <1>1, <1>2, <1>3, <1>5, <1>6, <1>7, <1>8, <1>9, StepKeeps

\* The threads of D have left: the end of a call, or of a process.
LEMMA GoneKeeps ==
    ASSUME IInv, NEW D \in SUBSET Threads, Cleared(D),
           held' = [u \in Threads |-> IF u \in D THEN "none" ELSE held[u]],
           lock' \in [Streams -> Threads \cup {NoThread}],
           \A s \in Streams : lock'[s] # NoThread => lock'[s] = lock[s] /\ lock[s] \notin D,
           DOMAIN log' = Streams, \A s \in Streams : log'[s] \in FilesIn(s),
           acked' = acked,
           log' = log \/ \E t \in D : held[t] # "none",
           Shape', EventsFollowState', AckedIsWhole'
    PROVE  IInv'
<1> USE DEF IInv
<1>1. /\ \A t \in Threads \ D : Same(t)
      /\ \A t \in D : pc'[t] = "idle" /\ call'[t] = NoCall /\ seq'[t] = 0 /\ todo'[t] = {}
                        /\ reply'[t] = "" /\ held'[t] = "none"
      /\ DOMAIN pc' = Threads /\ DOMAIN call' = Threads /\ DOMAIN seq' = Threads
      /\ DOMAIN todo' = Threads /\ DOMAIN reply' = Threads /\ DOMAIN first' = Threads
  BY DEF Cleared, Same
<1>2. CallOK(NoCall)
  BY DEF CallOK, NoCall, Ops
<1>3. /\ \A t \in Threads : CallOK(call'[t])
      /\ \A t \in Threads : todo'[t] \subseteq PayloadsOf(StreamOf(call'[t].op))
  BY <1>1, <1>2 DEF Same, TypeOK
<1>4. /\ pc' \in [Threads -> Stages] /\ seq' \in [Threads -> 0..MaxSequence]
      /\ held' \in [Threads -> {"none", "Effect", "Exclusive"}]
  <2>1. 0 \in 0..MaxSequence
    BY SequenceAssumption
  <2>2. seq' \in [Threads -> 0..MaxSequence]
    BY <2>1 DEF Cleared, TypeOK
  <2>3. pc' \in [Threads -> Stages]
    BY DEF Cleared, TypeOK, Stages
  <2>4. held' \in [Threads -> {"none", "Effect", "Exclusive"}]
    BY DEF TypeOK
  <2>. QED
    BY <2>2, <2>3, <2>4
<1>5. TypeOK'
  BY <1>1, <1>3, <1>4 DEF TypeOK
<1>6. \A t \in D : Own(t)'
  BY <1>1 DEF Own, Working
<1>7. Alone'
  BY DEF Alone
<1>. QED
  BY <1>1, <1>5, <1>6, <1>7, StepKeeps

LEMMA LeaveKeeps ==
    ASSUME IInv, NEW t \in Threads, Leave(t)
    PROVE  IInv'
<1> USE DEF IInv
<1>1. /\ pc[t] = "leave" /\ Cleared({t}) /\ lock' = lock /\ log' = log /\ acked' = acked
      /\ held' = [u \in Threads |-> IF u \in {t} THEN "none" ELSE held[u]]
  BY DEF Leave, files, Boundary!Open, Boundary!End
<1>2. \A s \in Streams : lock'[s] # NoThread => lock'[s] = lock[s] /\ lock[s] \notin {t}
  BY <1>1 DEF LocksHeld
<1>3. /\ DOMAIN log' = Streams /\ \A s \in Streams : log'[s] \in FilesIn(s)
      /\ lock' \in [Streams -> Threads \cup {NoThread}]
  BY <1>1 DEF TypeOK
<1>4. Shape' /\ EventsFollowState' /\ AckedIsWhole'
  BY <1>1, FilesKept
<1>5. {t} \in SUBSET Threads
  OBVIOUS
<1>. QED
  BY <1>1, <1>2, <1>3, <1>4, <1>5, GoneKeeps

LEMMA CrashKeeps ==
    ASSUME IInv, NEW p \in Procs, Crash(p)
    PROVE  IInv'
<1> USE DEF IInv
<1> DEFINE D == {t \in Threads : ProcOf[t] = p}
           W == {t \in D : pc[t] = "append" /\ ~Exhausted(seq[t])}
<1>1. /\ Cleared(D) /\ acked' = acked
      /\ held' = [u \in Threads |-> IF u \in D THEN "none" ELSE held[u]]
      /\ lock' = [s \in Streams |-> IF lock[s] \in D THEN NoThread ELSE lock[s]]
  BY DEF Crash, Unlocked, Boundary!Open, Boundary!End
<1>2. \/ \E t \in W : Tear(t)
      \/ log' = log
  BY DEF Crash
<1>3. D \in SUBSET Threads
  OBVIOUS
<1> HIDE DEF D
<1>4. /\ lock' \in [Streams -> Threads \cup {NoThread}]
      /\ \A s \in Streams : lock'[s] # NoThread => lock'[s] = lock[s] /\ lock[s] \notin D
  BY <1>1 DEF TypeOK
<1>5. CASE log' = log
  <2>1. Shape' /\ EventsFollowState' /\ AckedIsWhole'
    BY <1>1, <1>5, FilesKept
  <2>2. DOMAIN log' = Streams /\ \A s \in Streams : log'[s] \in FilesIn(s)
    BY <1>5 DEF TypeOK
  <2>. QED
    BY <1>1, <1>3, <1>4, <1>5, <2>1, <2>2, GoneKeeps
<1>6. CASE \E t \in W : Tear(t)
  <2>1. PICK t \in D : pc[t] = "append" /\ ~Exhausted(seq[t]) /\ Tear(t)
    BY <1>6
  <2>2. t \in Threads /\ held[t] # "none"
    BY <1>3, <2>1 DEF Leased, Working
  <2>3. PICK d \in todo[t] : \E cut \in Cuts :
          log' = [log EXCEPT ![StreamOf(call[t].op)] = Write(@, EventOf(seq[t] + 1, d), cut)]
    BY <2>1 DEF Tear
  <2>4. PICK cut \in Cuts :
          log' = [log EXCEPT ![StreamOf(call[t].op)] = Write(@, EventOf(seq[t] + 1, d), cut)]
    BY <2>3
  <2>5. /\ DOMAIN log' = Streams /\ \A q \in Streams : log'[q] \in FilesIn(q)
        /\ Shape' /\ EventsFollowState' /\ AckedIsWhole'
    BY <1>1, <2>1, <2>2, <2>4, WriteKeepsFiles
  <2>6. \E u \in D : held[u] # "none"
    BY <2>1, <2>2
  <2>. QED
    BY <1>1, <1>3, <1>4, <2>5, <2>6, GoneKeeps
<1>. QED
  BY <1>2, <1>5, <1>6

-----------------------------------------------------------------------------
(***************************************************************************)
(* The theorems.                                                           *)
(***************************************************************************)

\* The invariant holds initially and is preserved.
LEMMA InitHolds == Init => IInv
<1> SUFFICES ASSUME Init PROVE IInv
  OBVIOUS
<1>1. \A s \in Streams : log[s] = NoFile
  BY DEF Init, NoFiles
<1>2. \A s : NoFile \in FilesIn(s)
  BY DEF NoFile, FilesIn
<1>3. /\ NoFile.lines = <<>> /\ NoFile.ended /\ DOMAIN <<>> = {}
  BY DEF NoFile
<1>4. CallOK(NoCall)
  BY DEF CallOK, NoCall, Ops
<1>5. TypeOK
  <2>1. 0 \in 0..MaxSequence
    BY SequenceAssumption
  <2>2. seq \in [Threads -> 0..MaxSequence] /\ pc \in [Threads -> Stages]
    BY <2>1 DEF Init, Stages
  <2>3. /\ held \in [Threads -> {"none", "Effect", "Exclusive"}]
        /\ lock \in [Streams -> Threads \cup {NoThread}]
        /\ DOMAIN log = Streams /\ DOMAIN acked = Streams
        /\ DOMAIN call = Threads /\ DOMAIN todo = Threads
        /\ DOMAIN reply = Threads /\ DOMAIN first = Threads
        /\ \A t \in Threads : call[t] = NoCall /\ todo[t] = {}
    BY DEF Init, NoFiles
  <2>. QED
    BY <1>1, <1>2, <1>4, <2>2, <2>3 DEF TypeOK
<1>6. Alone /\ Leased /\ LocksHeld /\ Transacting /\ NothingLeft /\ Decided /\ Captures
  BY DEF Init, Alone, Leased, LocksHeld, Transacting, NothingLeft, Decided, Captures, Working
<1>7. Shape
  BY <1>1, <1>3 DEF Shape, ShapeOK
<1>8. EventsOf(NoFile) = <<>>
  BY <1>3 DEF EventsOf
<1>9. EventsFollowState
  BY <1>1, <1>3, <1>8 DEF EventsFollowState, Chained
<1>10. AckedIsWhole
  BY DEF Init, AckedIsWhole
<1>. QED
  BY <1>5, <1>6, <1>7, <1>9, <1>10 DEF IInv

LEMMA NextHolds == IInv /\ [Next]_vars => IInv'
<1> SUFFICES ASSUME IInv, [Next]_vars PROVE IInv'
  OBVIOUS
<1>1. CASE UNCHANGED vars
  <2>1. /\ held' = held /\ lock' = lock /\ log' = log /\ acked' = acked
        /\ pc' = pc /\ call' = call /\ seq' = seq /\ todo' = todo /\ reply' = reply /\ first' = first
    BY <1>1 DEF vars, boundary, files, locals
  <2>2. TypeOK' /\ Alone' /\ Leased' /\ LocksHeld' /\ Transacting' /\ NothingLeft'
    BY <2>1 DEF IInv, TypeOK, Alone, Leased, LocksHeld, Transacting, NothingLeft
  <2>3. Shape' /\ EventsFollowState' /\ AckedIsWhole'
    BY <2>1, FilesKept
  <2>4. Decided' /\ Captures'
    BY <2>1 DEF IInv, Decided, Captures
  <2>. QED
    BY <2>2, <2>3, <2>4 DEF IInv
<1>2. ASSUME NEW t \in Threads, Begin(t) \/ Step(t) \/ QuiesceCancelled(t) PROVE IInv'
  <2>1. CASE Deny(t) \/ Enter(t) \/ EnterRefused(t) \/ LockStream(t) \/ Project(t) \/ ProjectFails(t)
    BY <2>1, DenyKeeps, EnterKeeps, EnterRefusedKeeps, LockStreamKeeps, ProjectKeeps, ProjectFailsKeeps
  <2>2. CASE AppendEvent(t) \/ AppendExhausted(t) \/ AppendFails(t) \/ Unlock(t) \/ Leave(t)
    BY <2>2, AppendEventKeeps, AppendExhaustedKeeps, AppendFailsKeeps, UnlockKeeps, LeaveKeeps
  <2>3. CASE CloseAdmission(t) \/ Quiesce(t) \/ FirstPass(t) \/ SecondPass(t)
    BY <2>3, CloseAdmissionKeeps, QuiesceKeeps, FirstPassKeeps, SecondPassKeeps
  <2>4. CASE Begin(t) \/ QuiesceCancelled(t)
    BY <2>4, BeginKeeps, QuiesceCancelledKeeps
  <2>. QED
    BY <1>2, <2>1, <2>2, <2>3, <2>4 DEF Step
<1>3. ASSUME NEW p \in Procs, Crash(p) PROVE IInv'
  BY <1>3, CrashKeeps
<1>. QED
  BY <1>1, <1>2, <1>3 DEF Next

LEMMA Invariance == Spec => []IInv
  BY InitHolds, NextHolds, PTL DEF Spec

\* The types above, above all that every line and every payload is one of its
\* stream.
THEOREM TypeCorrect == Spec => []TypeOK
<1>1. IInv => TypeOK
  BY DEF IInv
<1>. QED
  BY <1>1, Invariance, PTL

\* The projection that a call decides on is still that of the file when its
\* events are appended: EventsFollowState, for any number of processes and
\* threads, any names and any bound on torn appends.
THEOREM EventsAreDecidedInOrder == Spec => []EventsFollowState
<1>1. IInv => EventsFollowState
  BY DEF IInv
<1>. QED
  BY <1>1, Invariance, PTL

\* A replay that succeeds has every acknowledged event, however many appends
\* were torn before (NoSilentLoss).
THEOREM AckedEventsReplay == Spec => []NoSilentLoss
<1>1. IInv => NoSilentLoss
  <2> SUFFICES ASSUME IInv, NEW s \in Streams, Readable(log[s])
               PROVE  acked[s] \subseteq Range(EventsOf(log[s]))
    BY DEF NoSilentLoss
  <2> DEFINE f == log[s]
             l == f.lines
  <2>1. f \in FilesIn(s) /\ ShapeOK(f) /\ acked[s] \subseteq Whole(f)
    BY DEF IInv, TypeOK, Shape, AckedIsWhole
  <2>2. l \in Seq(LinesIn(s))
    BY <2>1 DEF FilesIn
  <2>3. Whole(f) \subseteq Range(EventsOf(f))
    <3>1. SUFFICES ASSUME NEW i \in DOMAIN l, f.ended \/ i < Len(l)
                   PROVE  i \in DOMAIN EventsOf(f) /\ EventsOf(f)[i] = l[i]
      BY DEF Whole, Range
    <3>2. CASE EventsOf(f) = l
      BY <3>2
    <3>3. CASE l # <<>> /\ Last(l) = Open /\ EventsOf(f) = Front(l)
      <4>1. /\ Front(l) \in Seq(LinesIn(s)) /\ Len(Front(l)) = Len(l) - 1
            /\ Len(l) \in Nat \ {0} /\ Last(l) = l[Len(l)] /\ DOMAIN l = 1..Len(l)
            /\ \A j \in 1..(Len(l) - 1) : Front(l)[j] = l[j]
        BY <2>2, <3>3, FrontFacts
      <4>2. DOMAIN Front(l) = 1..(Len(l) - 1)
        BY <4>1, LenProperties
      <4>3. ~f.ended
        BY <2>1, <3>3, <4>1 DEF ShapeOK
      <4>. QED
        BY <3>1, <3>3, <4>1, <4>2, <4>3
    <3>. QED
      BY <2>1, <3>2, <3>3, EventsFacts
  <2>. QED
    BY <2>1, <2>3
<1>. QED
  BY <1>1, Invariance, PTL

\* Whoever reaches a stream lock finds it free (LocksUncontended): one attempt
\* of LockStream and the single step of FirstPass stand for what the code does.
THEOREM LocksAreFree == Spec => []LocksUncontended
<1>1. IInv => LocksUncontended
  <2> SUFFICES ASSUME IInv, NEW t \in Threads, pc[t] \in {"lock", "locks"}, NEW s \in Streams
               PROVE  lock[s] = NoThread
    BY DEF LocksUncontended, StreamOf, Streams
  <2>1. held[t] # "none"
    BY DEF IInv, Leased, Working
  <2>2. lock[s] # NoThread => lock[s] \in Threads
    BY DEF IInv, TypeOK
  <2>. QED
    BY <2>1, <2>2 DEF IInv, Alone, LocksHeld
<1>. QED
  BY <1>1, Invariance, PTL

\* A successful capture is the three files as they are, complete, and can be
\* carried on (CaptureIsRestorable).
THEOREM CapturesRestore == Spec => []CaptureIsRestorable
<1>1. IInv => CaptureIsRestorable
  <2> SUFFICES ASSUME IInv, NEW t \in Threads, pc[t] = "done", reply[t] = "Captured", NEW s \in Streams
               PROVE  LET f == first[t][s]
                          e == EventOf(Replay(f).seq + 1, [kind |-> "SourceAdded", id |-> NoId])
                      IN  /\ f = log[s]
                          /\ acked[s] \subseteq Range(f.lines)
                          /\ Len(f.lines) = Replay(f).seq
                          /\ Readable(Write(f, e, "full"))
    BY DEF CaptureIsRestorable
  <2> DEFINE f == first[t][s]
             e == EventOf(Replay(f).seq + 1, [kind |-> "SourceAdded", id |-> NoId])
  <2>1. f = log[s] /\ Strict(f) /\ f \in FilesIn(s) /\ ShapeOK(f)
    BY DEF IInv, Captures, TypeOK, Shape
  <2>2. Readable(f) /\ f.ended
    BY <2>1 DEF Strict, Readable
  <2>3. Chained(EventsOf(f)) /\ acked[s] \subseteq Whole(f)
    BY <2>1, <2>2 DEF IInv, EventsFollowState, AckedIsWhole
  <2>4. EventsOf(f) = f.lines /\ EventsOf(f) \in Seq(EventsIn(s))
    BY <2>1, <2>2, EndedIsEvents, EventsFacts
  <2>5. Len(f.lines) = Replay(f).seq
    BY <2>3, <2>4, ChainedSeq DEF Replay
  <2>6. acked[s] \subseteq Range(f.lines)
    BY <2>3 DEF Whole, Range
  <2>7. IsEvent(e)
    BY EventIsEvent
  <2> HIDE DEF e
  <2>8. Write(f, e, "full").lines = Append(f.lines, e)
    BY <2>1, <2>2 DEF Write, FilesIn
  <2>9. \A i \in DOMAIN Append(f.lines, e) : IsEvent(Append(f.lines, e)[i])
    <3> DEFINE l == f.lines
               T == EventsIn(s) \cup {e}
    <3>1. l \in Seq(T) /\ e \in T
      BY <2>4
    <3>2. \A i \in DOMAIN l : IsEvent(l[i])
      BY <2>1 DEF Strict
    <3> HIDE DEF l, T
    <3>3. /\ Len(l) \in Nat /\ DOMAIN Append(l, e) = 1..(Len(l) + 1) /\ DOMAIN l = 1..Len(l)
          /\ \A i \in 1..Len(l) : Append(l, e)[i] = l[i]
          /\ Append(l, e)[Len(l) + 1] = e
      BY <3>1, AppendFacts
    <3>4. \A i \in 1..(Len(l) + 1) : i \in 1..Len(l) \/ i = Len(l) + 1
      BY <3>3
    <3>5. \A i \in DOMAIN Append(l, e) : IsEvent(Append(l, e)[i])
      BY <2>7, <3>2, <3>3, <3>4
    <3>. QED
      BY <3>5 DEF l
  <2>10. Readable(Write(f, e, "full"))
    BY <2>8, <2>9 DEF Readable
  <2>. QED
    BY <2>1, <2>5, <2>6, <2>10 DEF e
<1>. QED
  BY <1>1, Invariance, PTL
=============================================================================
