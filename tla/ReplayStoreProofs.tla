--------------------------- MODULE ReplayStoreProofs ---------------------------
(***************************************************************************)
(* The properties of ReplayStore, for any hosts, operators and keys, any   *)
(* number of retries, records, calls, crashes, faults and restores.        *)
(***************************************************************************)
EXTENDS ReplayStore, SequenceTheorems, TLAPS

Pcs ==
    {"down", "idle", "active", "admit", "capture", "compare", "replace", "create", "manifest",
     "read", "check", "repair", "reconcile", "settle", "settled", "recheck", "prepare",
     "reserve", "guard", "late", "commit", "consume", "complete"}

Parts == {"none", "starting", "settling", "before", "after", "advance", "verify", "provision"}

Records == [seq : Nat, op : {"Reserve", "Consume"}, key : Keys]

States == [pc : Pcs, stage : Parts, key : Keys \cup {"none"}, head : Seq(Records),
           tries : Nat, ok : BOOLEAN]

TypeOK ==
    /\ files \in {"none", "wal", "torn", "ready"}
    /\ log \in Seq(Records)
    /\ tail \in {"clean", "torn", "corrupt"}
    /\ fx \in [Keys -> {"none", "committed", "completed"}]
    /\ anchor \in [state : {"absent", "ok", "torn"}, head : Seq(Records)]
    /\ proc \in [Procs -> States]
    /\ acked \subseteq Keys
    /\ done \in [Keys -> Nat]
    /\ restored \in BOOLEAN
    /\ alarmed \in BOOLEAN

\* Stages of a call from its first advance to its commit, and of the host's work.
Executing == {"prepare", "reserve", "guard", "late", "commit", "consume", "complete"}
Advancing == {"admit", "capture", "compare", "replace"}

\* Whoever has the boundary for effects has it alone; the anchor's lock has one
\* holder.
EffectAlone ==
    \A p, q \in Procs : p # q /\ proc[p].pc \in Effect => proc[q].pc \notin Effect \cup Shared

AnchorAlone ==
    \A p, q \in Procs :
        p # q /\ proc[p].pc \in {"replace", "create"} => proc[q].pc \notin {"replace", "create"}

\* A call has a key.
CallsKeyed ==
    \A p \in Procs :
        /\ proc[p].pc \in Executing \cup {"settled"} => proc[p].key \in Keys
        /\ proc[p].pc \in Advancing /\ proc[p].stage \in {"before", "after"} => proc[p].key \in Keys

\* The record built under the commit guard is the next one, and it still applies.
GuardHolds ==
    \A p \in Procs :
        proc[p].pc \in Guarded =>
            /\ proc[p].head = <<NextRecord("Consume", proc[p].key)>>
            /\ tail = "clean"
            /\ HasRoom
            /\ Has(log, "Reserve", proc[p].key)
            /\ ~ Has(log, "Consume", proc[p].key)

\* Nobody appends while somebody is admitted, so what was captured is the WAL.
CapturedIsLog ==
    \A p \in Procs : proc[p].pc \in {"compare", "replace", "create"} => proc[p].head = log

\* The anchor may be replaced by what was compared with it, and created where
\* there is none.
AnchorMayMove ==
    \A p \in Procs :
        /\ proc[p].pc = "replace" => anchor.state = "ok" /\ IsPrefix(anchor.head, log)
        /\ proc[p].pc = "create" => anchor.state = "absent"

\* Until a state root is put back, the WAL continues every anchor there ever was.
AnchorBehind ==
    ~ restored =>
        /\ anchor.state = "ok" => IsPrefix(anchor.head, log)
        /\ \A p \in Procs : proc[p].pc = "check" => IsPrefix(proc[p].head, log)

Consumed(K, s) == \A k \in K : Has(s, "Consume", k)

\* A call that went through has its nonce consumed, and one that was answered
\* has that in the anchor; so every later call finds it in the WAL.
WentThrough ==
    \A p \in Procs :
        /\ proc[p].pc = "complete" => Has(log, "Consume", proc[p].key)
        /\ proc[p].pc \in Advancing /\ proc[p].stage = "after" /\ proc[p].ok =>
             Has(log, "Consume", proc[p].key)

AnsweredIsAnchored == acked # {} => anchor.state = "ok" /\ Consumed(acked, anchor.head)

AnsweredIsSeen ==
    \A p \in Procs : proc[p].pc \in Executing => Consumed(acked, log)

\* Until a state root is put back, what took effect is reserved in the WAL, and a
\* call under way has not taken effect.
DoneIsReserved ==
    ~ restored =>
        /\ \A k \in Keys : done[k] # 0 => Has(log, "Reserve", k)
        /\ \A p \in Procs : proc[p].pc \in {"guard", "late", "commit"} => done[proc[p].key] = 0

IInv ==
    /\ TypeOK
    /\ EffectAlone
    /\ AnchorAlone
    /\ CallsKeyed
    /\ GuardHolds
    /\ CapturedIsLog
    /\ AnchorMayMove
    /\ AnchorBehind
    /\ WentThrough
    /\ AnsweredIsAnchored
    /\ AnsweredIsSeen
    /\ DoneIsReserved
    /\ LogReadable
    /\ NoFalseAlarm

-----------------------------------------------------------------------------
(***************************************************************************)
(* The WAL as a sequence.                                                  *)
(***************************************************************************)

\* A prefix, record by record.
LEMMA PrefixDef ==
    ASSUME NEW s \in Seq(Records), NEW t \in Seq(Records)
    PROVE  IsPrefix(s, t) <=> Len(s) <= Len(t) /\ \A i \in 1..Len(s) : s[i] = t[i]
<1>1. SubSeq(s, 1, Len(s)) = s
  BY SubSeqFull
<1>2. ASSUME Len(s) <= Len(t)
      PROVE  /\ SubSeq(t, 1, Len(s)) \in Seq(Records)
             /\ Len(SubSeq(t, 1, Len(s))) = Len(s)
             /\ \A i \in 1..Len(s) : SubSeq(t, 1, Len(s))[i] = t[i]
  BY <1>2, LenProperties, SubSeqProperties
<1>3. ASSUME Len(s) <= Len(t), \A i \in 1..Len(s) : s[i] = t[i]
      PROVE  s = SubSeq(t, 1, Len(s))
  BY <1>2, <1>3, SeqEqual
<1>. QED
  BY <1>1, <1>2, <1>3 DEF IsPrefix

LEMMA PrefixSelf ==
    ASSUME NEW s \in Seq(Records)
    PROVE  IsPrefix(s, s)
  BY DEF IsPrefix

LEMMA PrefixAppend ==
    ASSUME NEW s \in Seq(Records), NEW t \in Seq(Records), NEW r \in Records, IsPrefix(s, t)
    PROVE  IsPrefix(s, Append(t, r))
<1>1. /\ Append(t, r) \in Seq(Records) /\ Len(Append(t, r)) = Len(t) + 1
      /\ \A i \in 1..Len(t) : Append(t, r)[i] = t[i]
  BY AppendProperties
<1>2. Len(s) <= Len(t) /\ \A i \in 1..Len(s) : s[i] = t[i]
  BY PrefixDef
<1>3. Len(s) <= Len(t) + 1 /\ \A i \in 1..Len(s) : s[i] = Append(t, r)[i]
  BY <1>1, <1>2, LenProperties
<1>. QED
  BY <1>1, <1>3, PrefixDef

LEMMA HasInPrefix ==
    ASSUME NEW s \in Seq(Records), NEW t \in Seq(Records), IsPrefix(s, t),
           NEW o, NEW k, Has(s, o, k)
    PROVE  Has(t, o, k)
<1>1. Len(s) <= Len(t) /\ \A i \in 1..Len(s) : s[i] = t[i]
  BY PrefixDef
<1>. QED
  BY <1>1, LenProperties DEF Has

LEMMA HasInAppend ==
    ASSUME NEW s \in Seq(Records), NEW r \in Records
    PROVE  \A o, k : Has(Append(s, r), o, k) <=> Has(s, o, k) \/ (r.op = o /\ r.key = k)
<1>1. /\ DOMAIN Append(s, r) = 1..(Len(s) + 1) /\ DOMAIN s = 1..Len(s) /\ Len(s) \in Nat
      /\ \A i \in 1..Len(s) : Append(s, r)[i] = s[i]
      /\ Append(s, r)[Len(s) + 1] = r
  BY AppendProperties, LenProperties
<1>2. \A i \in 1..(Len(s) + 1) : i \in 1..Len(s) \/ i = Len(s) + 1
  BY <1>1
<1>. QED
  BY <1>1, <1>2 DEF Has

\* A record that applies keeps the WAL readable, and so does every cut between
\* records.
LEMMA DecodesAppend ==
    ASSUME NEW s \in Seq(Records), NEW r \in Records, Decodes(s),
           r.seq = Len(s) + 1, Len(s) + 1 <= MaxRecords, AppliesTo(r, s)
    PROVE  Decodes(Append(s, r))
<1> DEFINE t == Append(s, r)
<1>1. /\ t \in Seq(Records) /\ Len(t) = Len(s) + 1 /\ Len(s) \in Nat
      /\ DOMAIN t = 1..(Len(s) + 1) /\ DOMAIN s = 1..Len(s)
      /\ \A i \in 1..Len(s) : t[i] = s[i]
      /\ t[Len(s) + 1] = r
  BY AppendProperties, LenProperties
<1>2. ASSUME NEW i \in 1..(Len(s) + 1)
      PROVE  SubSeq(t, 1, i - 1) = SubSeq(s, 1, i - 1)
  <2>1. /\ SubSeq(t, 1, i - 1) \in Seq(Records) /\ SubSeq(s, 1, i - 1) \in Seq(Records)
        /\ Len(SubSeq(t, 1, i - 1)) = i - 1 /\ Len(SubSeq(s, 1, i - 1)) = i - 1
        /\ \A j \in 1..(i - 1) : SubSeq(t, 1, i - 1)[j] = t[j] /\ SubSeq(s, 1, i - 1)[j] = s[j]
    BY <1>1, SubSeqProperties
  <2>. QED
    BY <1>1, <2>1, SeqEqual
<1>3. ASSUME NEW i \in 1..(Len(s) + 1)
      PROVE  t[i].seq = i /\ AppliesTo(t[i], SubSeq(t, 1, i - 1))
  <2>1. CASE i = Len(s) + 1
    <3>1. SubSeq(t, 1, i - 1) = s
      BY <1>1, <1>2, <2>1, SubSeqFull
    <3>. QED
      BY <1>1, <2>1, <3>1
  <2>2. CASE i # Len(s) + 1
    <3>1. i \in DOMAIN s /\ t[i] = s[i] /\ SubSeq(t, 1, i - 1) = SubSeq(s, 1, i - 1)
      BY <1>1, <1>2, <2>2
    <3>2. s[i].seq = i /\ AppliesTo(s[i], SubSeq(s, 1, i - 1))
      BY <3>1 DEF Decodes
    <3>. QED
      BY <3>1, <3>2
  <2>. QED
    BY <2>1, <2>2
<1>. QED
  BY <1>1, <1>3 DEF Decodes

LEMMA DecodesCut ==
    ASSUME NEW s \in Seq(Records), Decodes(s), NEW n \in 0..Len(s)
    PROVE  /\ SubSeq(s, 1, n) \in Seq(Records)
           /\ Decodes(SubSeq(s, 1, n))
<1> DEFINE t == SubSeq(s, 1, n)
<1>1. /\ t \in Seq(Records) /\ Len(t) = n /\ DOMAIN t = 1..n /\ DOMAIN s = 1..Len(s)
      /\ \A i \in 1..n : t[i] = s[i]
  BY SubSeqProperties, LenProperties
<1>2. ASSUME NEW i \in 1..n
      PROVE  SubSeq(t, 1, i - 1) = SubSeq(s, 1, i - 1)
  <2>1. /\ SubSeq(t, 1, i - 1) \in Seq(Records) /\ SubSeq(s, 1, i - 1) \in Seq(Records)
        /\ Len(SubSeq(t, 1, i - 1)) = i - 1 /\ Len(SubSeq(s, 1, i - 1)) = i - 1
        /\ \A j \in 1..(i - 1) : SubSeq(t, 1, i - 1)[j] = t[j] /\ SubSeq(s, 1, i - 1)[j] = s[j]
    BY <1>1, SubSeqProperties
  <2>. QED
    BY <1>1, <2>1, SeqEqual
<1>3. n <= MaxRecords
  BY ReplayStoreAssumption, LenProperties DEF Decodes
<1>4. ASSUME NEW i \in 1..n
      PROVE  t[i].seq = i /\ AppliesTo(t[i], SubSeq(t, 1, i - 1))
  <2>1. i \in DOMAIN s /\ t[i] = s[i] /\ SubSeq(t, 1, i - 1) = SubSeq(s, 1, i - 1)
    BY <1>1, <1>2, LenProperties
  <2>2. s[i].seq = i /\ AppliesTo(s[i], SubSeq(s, 1, i - 1))
    BY <2>1 DEF Decodes
  <2>. QED
    BY <2>1, <2>2
<1>. QED
  BY <1>1, <1>3, <1>4 DEF Decodes

-----------------------------------------------------------------------------
(***************************************************************************)
(* Steps of a process.                                                     *)
(***************************************************************************)

LEMMA SetFacts ==
    ASSUME proc \in [Procs -> States], NEW p \in Procs, NEW r \in States, Set(p, r)
    PROVE  /\ proc' \in [Procs -> States]
           /\ proc'[p] = r
           /\ \A q \in Procs \ {p} : proc'[q] = proc[q]
  BY DEF Set

LEMMA GotoFacts ==
    ASSUME proc \in [Procs -> States], NEW p \in Procs, NEW s \in Pcs, Goto(p, s)
    PROVE  /\ proc' \in [Procs -> States]
           /\ proc'[p].pc = s
           /\ proc'[p].stage = proc[p].stage
           /\ proc'[p].key = proc[p].key
           /\ proc'[p].head = proc[p].head
           /\ proc'[p].ok = proc[p].ok
           /\ \A q \in Procs \ {p} : proc'[q] = proc[q]
  BY DEF Goto, Set, States

LEMMA RestFacts ==
    ASSUME NEW p \in Procs
    PROVE  Rest(p) \in States /\ Rest(p).pc \in {"down", "idle"}
  BY EmptySeq DEF Rest, States, Pcs, Parts

LEMMA EndCallFacts ==
    ASSUME proc \in [Procs -> States], NEW p \in Procs, NEW b \in BOOLEAN, EndCall(p, b)
    PROVE  /\ proc' \in [Procs -> States]
           /\ proc'[p].pc = "admit" /\ proc'[p].stage = "after"
           /\ proc'[p].key = proc[p].key
           /\ proc'[p].ok = b
           /\ \A q \in Procs \ {p} : proc'[q] = proc[q]
<1> DEFINE r == [proc[p] EXCEPT !.pc = "admit", !.stage = "after", !.head = <<>>,
                               !.tries = 0, !.ok = b]
<1>1. r \in States
  BY EmptySeq DEF States, Pcs, Parts
<1>2. r.pc = "admit" /\ r.stage = "after" /\ r.key = proc[p].key
  BY DEF States
<1>3. r.ok = b
  BY DEF States
<1>4. Set(p, r)
  BY DEF EndCall
<1>. QED
  BY <1>1, <1>2, <1>3, <1>4, SetFacts

\* Only process p moves.
Moves(p) == \A q \in Procs \ {p} : proc'[q] = proc[q]

\* What the invariant asks of p where it has got to.
Stands(p) ==
    LET me == proc'[p]
    IN  /\ me.pc \in Effect => \A q \in Procs \ {p} : proc[q].pc \notin Effect \cup Shared
        /\ me.pc \in Shared => \A q \in Procs \ {p} : proc[q].pc \notin Effect
        /\ me.pc \in {"replace", "create"} =>
             \A q \in Procs \ {p} : proc[q].pc \notin {"replace", "create"}
        /\ me.pc \in Executing \cup {"settled"} => me.key \in Keys
        /\ me.pc \in Advancing /\ me.stage \in {"before", "after"} => me.key \in Keys
        /\ me.pc \in Guarded =>
             /\ me.head = <<NextRecord("Consume", me.key)>>
             /\ tail' = "clean" /\ HasRoom
             /\ Has(log, "Reserve", me.key) /\ ~ Has(log, "Consume", me.key)
        /\ me.pc \in {"compare", "replace", "create"} => me.head = log
        /\ me.pc = "replace" => anchor'.state = "ok" /\ IsPrefix(anchor'.head, log)
        /\ me.pc = "create" => anchor'.state = "absent"
        /\ me.pc = "check" => (~ restored => IsPrefix(me.head, log))
        /\ me.pc = "complete" => Has(log, "Consume", me.key)
        /\ me.pc \in Advancing /\ me.stage = "after" /\ me.ok => Has(log, "Consume", me.key)
        /\ me.pc \in Executing => Consumed(acked', log)
        /\ me.pc \in {"guard", "late", "commit"} => (~ restored => done[me.key] = 0)

\* The tail, the anchor and the answers change only as their locks allow.
TailMay(p) ==
    \/ tail' = tail
    \/ tail' # "corrupt" /\ \A q \in Procs \ {p} : proc[q].pc \notin Guarded

AnchorMay(p) ==
    \/ anchor' = anchor
    \/ /\ \A q \in Procs \ {p} : proc[q].pc \notin {"replace", "create"}
       /\ anchor'.state = "ok" => IsPrefix(anchor'.head, log)

AnswersMay ==
    /\ acked' \subseteq acked \cup {k \in Keys : Has(log, "Consume", k)}
    /\ AnsweredIsAnchored'

\* A step that appends nothing.
LEMMA MoveKeeps ==
    ASSUME IInv, TypeOK', NEW p \in Procs, Moves(p), Stands(p), TailMay(p), AnchorMay(p),
           AnswersMay, alarmed' => restored, UNCHANGED <<log, done, restored>>
    PROVE  IInv'
<1> USE DEF IInv, Moves, Stands
<1>1. EffectAlone' /\ AnchorAlone'
  BY DEF EffectAlone, AnchorAlone, Effect, Guarded, Shared
<1>2. CallsKeyed'
  BY DEF CallsKeyed
<1>3. GuardHolds'
  BY DEF GuardHolds, TailMay, HasRoom, NextRecord, Record
<1>4. CapturedIsLog'
  BY DEF CapturedIsLog
<1>5. AnchorMayMove'
  BY DEF AnchorMayMove, AnchorMay
<1>6. AnchorBehind'
  BY DEF AnchorBehind, AnchorMay
<1>7. WentThrough'
  BY DEF WentThrough
<1>8. AnsweredIsAnchored' /\ AnsweredIsSeen'
  BY DEF AnswersMay, AnsweredIsSeen, Consumed
<1>9. DoneIsReserved'
  BY DEF DoneIsReserved
<1>10. LogReadable' /\ NoFalseAlarm'
  BY DEF LogReadable, NoFalseAlarm, TailMay
<1>. QED
  BY <1>1, <1>2, <1>3, <1>4, <1>5, <1>6, <1>7, <1>8, <1>9, <1>10 DEF IInv

\* Stages of a process that holds nothing and stands for nothing, but for the call
\* whose advance is still to come.
Quiet == {"down", "idle", "active", "admit", "read", "repair", "reconcile", "recheck"}

Settles(p) ==
    /\ proc'[p].pc \in Quiet
    /\ proc'[p].pc = "admit" /\ proc'[p].stage \in {"before", "after"} => proc'[p].key \in Keys
    /\ proc'[p].pc = "admit" /\ proc'[p].stage = "after" /\ proc'[p].ok =>
         Has(log, "Consume", proc'[p].key)

LEMMA QuietKeeps ==
    ASSUME IInv, TypeOK', NEW p \in Procs, Moves(p), Settles(p), TailMay(p),
           UNCHANGED <<log, anchor, ghosts>>
    PROVE  IInv'
<1>1. Stands(p)
  BY DEF Stands, Settles, Quiet, Effect, Guarded, Shared, Executing, Advancing
<1>2. AnchorMay(p) /\ AnswersMay /\ (alarmed' => restored)
  BY DEF AnchorMay, AnswersMay, AnsweredIsAnchored, IInv, NoFalseAlarm, ghosts
<1>. QED
  BY <1>1, <1>2, MoveKeeps DEF ghosts

\* A step that changes nothing but where p is.
LEMMA StepKeeps ==
    ASSUME IInv, TypeOK', NEW p \in Procs, Moves(p), Stands(p), TailMay(p),
           UNCHANGED <<log, anchor, ghosts>>
    PROVE  IInv'
<1>1. AnchorMay(p) /\ AnswersMay /\ (alarmed' => restored)
  BY DEF AnchorMay, AnswersMay, AnsweredIsAnchored, IInv, NoFalseAlarm, ghosts
<1>. QED
  BY <1>1, MoveKeeps DEF ghosts

\* A record is appended by who has the boundary alone, and is one that applies.
LEMMA AppendKeeps ==
    ASSUME IInv, TypeOK', NEW p \in Procs, Moves(p), proc[p].pc \in Effect,
           NEW r \in Records, r.seq = Len(log) + 1, HasRoom, AppliesTo(r, log),
           log' = Append(log, r), tail' = "clean", UNCHANGED <<anchor, ghosts>>,
           proc'[p].pc \in {"guard", "complete", "settled"}, proc'[p].key \in Keys,
           proc'[p].pc = "guard" => (~ restored => done[proc'[p].key] = 0),
           proc'[p].pc = "complete" => r.op = "Consume" /\ r.key = proc'[p].key,
           proc'[p].pc # "settled" => Consumed(acked, log)
    PROVE  IInv'
<1> USE DEF IInv, Moves, ghosts
<1>0. log \in Seq(Records)
  BY DEF TypeOK
<1>1. \A q \in Procs \ {p} : proc[q].pc \notin Effect \cup Shared
  BY DEF EffectAlone
<1>2. \A o, k : Has(log, o, k) => Has(log', o, k)
  BY <1>0, HasInAppend
<1>3. \A s \in Seq(Records) : IsPrefix(s, log) => IsPrefix(s, log')
  BY <1>0, PrefixAppend
<1>4. EffectAlone'
  BY <1>1 DEF EffectAlone, Effect, Guarded, Shared
<1>5. AnchorAlone'
  BY DEF AnchorAlone
<1>6. CallsKeyed'
  BY DEF CallsKeyed, Executing, Advancing
<1>7. GuardHolds' /\ CapturedIsLog' /\ AnchorMayMove'
  BY <1>1 DEF GuardHolds, CapturedIsLog, AnchorMayMove, Effect, Guarded, Shared
<1>8. AnchorBehind'
  <2>1. anchor.head \in Seq(Records) /\ \A q \in Procs : proc[q].head \in Seq(Records)
    BY DEF TypeOK, States
  <2>. QED
    BY <1>3, <2>1 DEF AnchorBehind
<1>9. WentThrough'
  <2>1. r.op = "Consume" => Has(log', "Consume", r.key)
    BY <1>0, HasInAppend
  <2>. QED
    BY <1>2, <2>1 DEF WentThrough, Advancing
<1>10. AnsweredIsAnchored'
  BY DEF AnsweredIsAnchored
<1>11. AnsweredIsSeen'
  BY <1>2 DEF AnsweredIsSeen, Executing, Consumed
<1>12. DoneIsReserved'
  BY <1>1, <1>2 DEF DoneIsReserved, Effect, Guarded
<1>13. LogReadable' /\ NoFalseAlarm'
  BY <1>0, DecodesAppend DEF LogReadable, NoFalseAlarm, HasRoom
<1>. QED
  BY <1>4, <1>5, <1>6, <1>7, <1>8, <1>9, <1>10, <1>11, <1>12, <1>13 DEF IInv

\* Where an advance lets its caller go on.
LEMMA ResumeFacts ==
    ASSUME proc \in [Procs -> States], NEW p \in Procs, NEW b \in BOOLEAN
    PROVE  /\ Resume(p, b) \in States
           /\ Resume(p, b).pc \in {"repair", "active", "prepare", "down", "idle"}
           /\ Resume(p, b).pc = "prepare" =>
                b /\ proc[p].stage = "before" /\ Resume(p, b).key = proc[p].key
<1> DEFINE me == proc[p]
<1>1. me \in States
  OBVIOUS
<1>2. Rest(p) \in States /\ Rest(p).pc \in {"down", "idle"}
  BY RestFacts
<1>3. /\ [me EXCEPT !.pc = "repair"] \in States /\ [me EXCEPT !.pc = "repair"].pc = "repair"
      /\ [me EXCEPT !.pc = "prepare"] \in States /\ [me EXCEPT !.pc = "prepare"].pc = "prepare"
      /\ [me EXCEPT !.pc = "prepare"].key = me.key
  BY <1>1 DEF States, Pcs
<1>4. [Rest(p) EXCEPT !.pc = "active"] \in States /\ [Rest(p) EXCEPT !.pc = "active"].pc = "active"
  BY <1>2 DEF States, Pcs
<1>. QED
  BY <1>2, <1>3, <1>4 DEF Resume

LEMMA EndAdvanceFacts ==
    ASSUME IInv, NEW p \in Procs, NEW b \in BOOLEAN, EndAdvance(p, b)
    PROVE  /\ proc' \in [Procs -> States] /\ Moves(p)
           /\ proc'[p].pc \in {"repair", "active", "prepare", "down", "idle"}
           /\ proc'[p].pc = "prepare" =>
                b /\ proc[p].stage = "before" /\ proc'[p].key = proc[p].key
           /\ acked' # acked =>
                /\ b /\ proc[p].stage = "after" /\ proc[p].ok
                /\ acked' = acked \cup {proc[p].key}
<1>1. proc \in [Procs -> States]
  BY DEF IInv, TypeOK
<1>2. Set(p, Resume(p, b)) /\ Answer(p, b)
  BY DEF EndAdvance
<1>3. proc' \in [Procs -> States] /\ Moves(p) /\ proc'[p] = Resume(p, b)
  BY <1>1, <1>2, ResumeFacts, SetFacts DEF Moves
<1>. QED
  BY <1>1, <1>2, <1>3, ResumeFacts DEF Answer

\* An advance that fails changes nothing but where p is.
LEMMA FailedAdvanceKeeps ==
    ASSUME IInv, NEW p \in Procs, EndAdvance(p, FALSE),
           UNCHANGED <<disk, anchor, done, restored, alarmed>>
    PROVE  IInv'
<1>1. /\ proc' \in [Procs -> States] /\ Moves(p) /\ Settles(p) /\ acked' = acked
  BY EndAdvanceFacts DEF Settles, Quiet
<1>2. TypeOK' /\ TailMay(p)
  BY <1>1 DEF IInv, TypeOK, TailMay, disk
<1>. QED
  BY <1>1, <1>2, QuietKeeps DEF disk, ghosts

\* One that succeeds has the WAL in the anchor.
LEMMA AdvanceKeeps ==
    ASSUME IInv, NEW p \in Procs, proc[p].pc \in Advancing, EndAdvance(p, TRUE),
           anchor'.state = "ok", anchor'.head = log, anchor' \in [state : {"absent", "ok", "torn"}, head : Seq(Records)],
           AnchorMay(p), Consumed(acked, log),
           UNCHANGED <<disk, done, restored, alarmed>>
    PROVE  IInv'
<1>1. /\ proc' \in [Procs -> States] /\ Moves(p)
      /\ proc'[p].pc \in {"repair", "active", "prepare", "down", "idle"}
      /\ proc'[p].pc = "prepare" => proc[p].stage = "before" /\ proc'[p].key = proc[p].key
      /\ acked' # acked =>
           proc[p].stage = "after" /\ proc[p].ok /\ acked' = acked \cup {proc[p].key}
  BY EndAdvanceFacts
<1>2. acked' # acked => proc[p].key \in Keys /\ Has(log, "Consume", proc[p].key)
  BY <1>1 DEF IInv, CallsKeyed, WentThrough
<1>3. acked' \subseteq Keys /\ Consumed(acked', log)
  BY <1>1, <1>2 DEF IInv, TypeOK, Consumed
<1>4. TypeOK' /\ TailMay(p)
  BY <1>1, <1>3 DEF IInv, TypeOK, TailMay, disk
<1>5. AnswersMay
  BY <1>3 DEF AnswersMay, AnsweredIsAnchored, Consumed
<1>6. Stands(p)
  BY <1>1, <1>3 DEF Stands, IInv, CallsKeyed, Effect, Guarded, Shared, Executing, Advancing
<1>7. alarmed' => restored
  BY DEF IInv, NoFalseAlarm
<1>. QED
  BY <1>1, <1>4, <1>5, <1>6, <1>7, MoveKeeps DEF disk

-----------------------------------------------------------------------------
(***************************************************************************)
(* The anchor.                                                             *)
(***************************************************************************)

LEMMA AdmitAdvanceKeeps ==
    ASSUME IInv, NEW p \in Procs, AdmitAdvance(p)
    PROVE  IInv'
<1>1. /\ proc' \in [Procs -> States] /\ Moves(p)
      /\ proc'[p].pc = "capture" /\ proc'[p].stage = proc[p].stage /\ proc'[p].key = proc[p].key
      /\ proc'[p].ok = proc[p].ok
  BY GotoFacts DEF IInv, TypeOK, AdmitAdvance, Moves, Pcs
<1>2. TypeOK' /\ TailMay(p)
  BY <1>1 DEF IInv, TypeOK, TailMay, AdmitAdvance, disk, ghosts
<1>3. Stands(p)
  BY <1>1 DEF Stands, IInv, CallsKeyed, WentThrough, AdmitAdvance, CanAdmit, Effect, Guarded,
              Shared, Executing, Advancing
<1>. QED
  BY <1>1, <1>2, <1>3, StepKeeps DEF AdmitAdvance, disk

LEMMA CaptureHeadKeeps ==
    ASSUME IInv, NEW p \in Procs, CaptureHead(p)
    PROVE  IInv'
<1>1. CASE ~ Readable
  BY <1>1, FailedAdvanceKeeps DEF CaptureHead
<1>2. CASE Readable
  <2> DEFINE r == [proc[p] EXCEPT !.pc = "compare", !.head = log]
  <2>1. /\ r \in States /\ r.pc = "compare" /\ r.head = log
        /\ r.stage = proc[p].stage /\ r.key = proc[p].key /\ r.ok = proc[p].ok
    BY DEF IInv, TypeOK, States, Pcs
  <2>2. Set(p, r) /\ UNCHANGED <<disk, anchor, ghosts>>
    BY <1>2 DEF CaptureHead, ghosts
  <2>3. proc' \in [Procs -> States] /\ Moves(p) /\ proc'[p] = r
    BY <2>1, <2>2, SetFacts DEF IInv, TypeOK, Moves
  <2>4. TypeOK' /\ TailMay(p)
    BY <2>2, <2>3 DEF IInv, TypeOK, TailMay, disk, ghosts
  <2>5. Stands(p)
    BY <2>1, <2>3 DEF Stands, IInv, EffectAlone, CallsKeyed, WentThrough, CaptureHead, Effect, Guarded,
                Shared, Executing, Advancing
  <2>. QED
    BY <2>2, <2>3, <2>4, <2>5, StepKeeps DEF disk
<1>. QED
  BY <1>1, <1>2

LEMMA CompareAnchorKeeps ==
    ASSUME IInv, NEW p \in Procs, CompareAnchor(p)
    PROVE  IInv'
<1> DEFINE me == proc[p]
<1>1. me.pc = "compare" /\ me.head = log /\ UNCHANGED <<disk, anchor, done, restored>>
  BY DEF CompareAnchor, IInv, CapturedIsLog
<1>2. CASE anchor.state # "ok"
  BY <1>1, <1>2, FailedAdvanceKeeps DEF CompareAnchor
<1>3. CASE anchor.state = "ok" /\ RolledBack(anchor.head, me.head) /\ MayRetry(p)
  <2> DEFINE r == [me EXCEPT !.pc = "capture", !.tries = @ + 1]
  <2>0. me \in States /\ me.tries + 1 \in Nat
    BY DEF IInv, TypeOK, States
  <2>1. /\ r \in States /\ r.pc = "capture"
        /\ r.stage = me.stage /\ r.key = me.key /\ r.ok = me.ok
    <3>1. ASSUME NEW n \in Nat
          PROVE  LET x == [me EXCEPT !.pc = "capture", !.tries = n]
                 IN  /\ x \in States /\ x.pc = "capture"
                     /\ x.stage = me.stage /\ x.key = me.key /\ x.ok = me.ok
      BY <2>0 DEF States, Pcs
    <3>2. r = [me EXCEPT !.pc = "capture", !.tries = me.tries + 1]
      OBVIOUS
    <3>. QED
      BY <2>0, <3>1, <3>2
  <2>2. Set(p, r) /\ UNCHANGED <<disk, anchor, ghosts>>
    BY <1>1, <1>3 DEF CompareAnchor, ghosts
  <2>3. proc' \in [Procs -> States] /\ Moves(p) /\ proc'[p] = r
    BY <2>1, <2>2, SetFacts DEF IInv, TypeOK, Moves
  <2>4. TypeOK' /\ TailMay(p)
    BY <2>2, <2>3 DEF IInv, TypeOK, TailMay, disk, ghosts
  <2>5. Stands(p)
    BY <1>1, <2>1, <2>3 DEF Stands, IInv, EffectAlone, CallsKeyed, WentThrough, Effect, Guarded,
                Shared, Executing, Advancing
  <2>. QED
    BY <2>2, <2>3, <2>4, <2>5, StepKeeps DEF disk
\* What was captured is the WAL, which continues the anchor unless it was put back.
<1>4. CASE /\ anchor.state = "ok" /\ EndAdvance(p, FALSE) /\ alarmed' = TRUE
           /\ RolledBack(anchor.head, me.head) \/ Diverged(anchor.head, me.head)
  <2>1. restored
    <3>1. ~ IsPrefix(anchor.head, log)
      BY <1>1, <1>4 DEF RolledBack, Diverged, IsPrefix
    <3>. QED
      BY <1>4, <3>1 DEF IInv, AnchorBehind
  <2>2. proc' \in [Procs -> States] /\ Moves(p) /\ Settles(p) /\ acked' = acked
    BY <1>4, EndAdvanceFacts DEF Settles, Quiet
  <2>3. TypeOK' /\ TailMay(p) /\ AnchorMay(p)
    BY <1>1, <1>4, <2>2 DEF IInv, TypeOK, TailMay, AnchorMay, disk
  <2>4. Stands(p) /\ AnswersMay
    BY <1>1, <2>2 DEF Stands, AnswersMay, AnsweredIsAnchored, IInv, Settles, Quiet, Effect, Guarded,
                Shared, Executing, Advancing
  <2>. QED
    BY <1>1, <2>1, <2>2, <2>3, <2>4, MoveKeeps DEF disk
<1>5. CASE /\ anchor.state = "ok" /\ me.head = anchor.head
           /\ EndAdvance(p, TRUE) /\ UNCHANGED alarmed
  <2>1. Consumed(acked, log)
    BY <1>1, <1>5 DEF IInv, AnsweredIsAnchored, Consumed
  <2>. QED
    BY <1>1, <1>5, <2>1, AdvanceKeeps DEF Advancing, AnchorMay, IInv, TypeOK
<1>6. CASE /\ anchor.state = "ok" /\ Goto(p, "replace") /\ UNCHANGED <<acked, alarmed>>
           /\ ~ (RolledBack(anchor.head, me.head) \/ Diverged(anchor.head, me.head))
  <2>1. /\ proc' \in [Procs -> States] /\ Moves(p)
        /\ proc'[p].pc = "replace" /\ proc'[p].stage = me.stage /\ proc'[p].key = me.key
        /\ proc'[p].ok = me.ok /\ proc'[p].head = me.head
    BY <1>6, GotoFacts DEF IInv, TypeOK, Moves, Pcs
  <2>2. TypeOK' /\ TailMay(p)
    BY <1>1, <1>6, <2>1 DEF IInv, TypeOK, TailMay, disk
  <2>3. IsPrefix(anchor.head, log)
    BY <1>1, <1>6 DEF RolledBack, Diverged
  <2>4. Stands(p)
    BY <1>1, <1>6, <2>1, <2>3 DEF Stands, IInv, EffectAlone, CallsKeyed, WentThrough, CompareAnchor,
        AnchorLockFree, Effect, Guarded, Shared, Executing, Advancing
  <2>. QED
    BY <1>1, <1>6, <2>1, <2>2, <2>4, StepKeeps DEF disk, ghosts
<1>. QED
  BY <1>2, <1>3, <1>4, <1>5, <1>6 DEF CompareAnchor

LEMMA ReplaceAnchorKeeps ==
    ASSUME IInv, NEW p \in Procs, ReplaceAnchor(p)
    PROVE  IInv'
<1>1. /\ proc[p].pc = "replace" /\ proc[p].head = log /\ log \in Seq(Records)
      /\ anchor.state = "ok" /\ IsPrefix(anchor.head, log)
      /\ anchor \in [state : {"absent", "ok", "torn"}, head : Seq(Records)]
  BY DEF ReplaceAnchor, IInv, CapturedIsLog, AnchorMayMove, TypeOK
<1>2. /\ anchor'.state = "ok" /\ anchor'.head = log
      /\ anchor' \in [state : {"absent", "ok", "torn"}, head : Seq(Records)]
  BY <1>1 DEF ReplaceAnchor
<1>3. AnchorMay(p)
  BY <1>1, <1>2, PrefixSelf DEF AnchorMay, IInv, AnchorAlone
<1>4. Consumed(acked, log)
  BY <1>1, HasInPrefix DEF IInv, AnsweredIsAnchored, Consumed
<1>. QED
  BY <1>1, <1>2, <1>3, <1>4, AdvanceKeeps DEF ReplaceAnchor, Advancing

LEMMA ReplaceFailsKeeps ==
    ASSUME IInv, NEW p \in Procs, ReplaceFails(p)
    PROVE  IInv'
  BY FailedAdvanceKeeps DEF ReplaceFails

-----------------------------------------------------------------------------
(***************************************************************************)
(* Steps that end in a stage that holds nothing.                           *)
(***************************************************************************)
DiskTyped ==
    /\ files' \in {"none", "wal", "torn", "ready"}
    /\ tail' \in {"clean", "torn", "corrupt"}
    /\ fx' \in [Keys -> {"none", "committed", "completed"}]

LEMMA SameDisk ==
    ASSUME IInv, UNCHANGED disk, NEW p \in Procs
    PROVE  DiskTyped /\ TailMay(p) /\ log' = log
  BY DEF IInv, TypeOK, disk, DiskTyped, TailMay

LEMMA TypeKeeps ==
    ASSUME IInv, DiskTyped, proc' \in [Procs -> States], UNCHANGED <<log, anchor, ghosts>>
    PROVE  TypeOK'
  BY DEF IInv, TypeOK, DiskTyped, ghosts

\* Who has the boundary for effects may repair the tail.
LEMMA AloneTail ==
    ASSUME IInv, NEW p \in Procs, proc[p].pc \in Effect \/ ReplayLockFree(p), tail' # "corrupt"
    PROVE  TailMay(p)
  BY DEF IInv, EffectAlone, Effect, Guarded, Shared, ReplayLockFree, TailMay

LEMMA RestKeeps ==
    ASSUME IInv, NEW p \in Procs, Set(p, Rest(p)), DiskTyped, TailMay(p),
           UNCHANGED <<log, anchor, ghosts>>
    PROVE  IInv'
<1>1. proc' \in [Procs -> States] /\ Moves(p) /\ proc'[p].pc \in {"down", "idle"}
  BY RestFacts, SetFacts DEF IInv, TypeOK, Moves
<1>2. TypeOK' /\ Settles(p)
  BY <1>1, TypeKeeps DEF Settles, Quiet
<1>. QED
  BY <1>1, <1>2, QuietKeeps

LEMMA EndCallKeeps ==
    ASSUME IInv, NEW p \in Procs, NEW b \in BOOLEAN, EndCall(p, b), proc[p].pc \in Executing,
           b => Has(log, "Consume", proc[p].key), DiskTyped, TailMay(p),
           UNCHANGED <<log, anchor, ghosts>>
    PROVE  IInv'
<1>1. /\ proc' \in [Procs -> States] /\ Moves(p)
      /\ proc'[p].pc = "admit" /\ proc'[p].stage = "after"
      /\ proc'[p].key = proc[p].key /\ proc'[p].ok = b
  BY EndCallFacts DEF IInv, TypeOK, Moves
<1>2. Settles(p)
  BY <1>1 DEF Settles, Quiet, IInv, CallsKeyed
<1>. QED
  BY <1>1, <1>2, TypeKeeps, QuietKeeps

\* The stage alone changes.
LEMMA GotoQuietKeeps ==
    ASSUME IInv, NEW p \in Procs, NEW s \in Quiet \ {"admit"}, Goto(p, s), DiskTyped, TailMay(p),
           UNCHANGED <<log, anchor, ghosts>>
    PROVE  IInv'
<1>1. proc' \in [Procs -> States] /\ Moves(p) /\ proc'[p].pc = s
  BY GotoFacts DEF IInv, TypeOK, Moves, Quiet, Pcs
<1>2. Settles(p)
  BY <1>1 DEF Settles
<1>. QED
  BY <1>1, <1>2, TypeKeeps, QuietKeeps

-----------------------------------------------------------------------------
(***************************************************************************)
(* The operator's commands.                                                *)
(***************************************************************************)
LEMMA InitializeReplayWalKeeps ==
    ASSUME IInv, NEW p \in Procs, InitializeReplayWal(p)
    PROVE  IInv'
<1>1. proc[p].pc = "idle" /\ UNCHANGED <<log, tail, fx, anchor, ghosts>>
  BY DEF InitializeReplayWal
<1>2. DiskTyped /\ TailMay(p)
  BY <1>1 DEF InitializeReplayWal, IInv, TypeOK, DiskTyped, TailMay
<1>3. CASE files = "none"
  <2>1. proc' \in [Procs -> States] /\ Moves(p) /\ proc'[p].pc = "manifest"
    BY <1>3, GotoFacts DEF InitializeReplayWal, IInv, TypeOK, Moves, Pcs
  <2>2. Stands(p)
    BY <2>1 DEF Stands, InitializeReplayWal, CanAdmit, Effect, Guarded, Shared, Executing, Advancing
  <2>. QED
    BY <1>1, <1>2, <2>1, <2>2, TypeKeeps, StepKeeps
<1>4. CASE files # "none"
  <2>1. proc' = proc
    BY <1>4 DEF InitializeReplayWal
  <2>2. proc' \in [Procs -> States] /\ Moves(p) /\ proc'[p].pc = "idle"
    BY <1>1, <2>1 DEF IInv, TypeOK, Moves
  <2>3. Settles(p)
    BY <2>2 DEF Settles, Quiet
  <2>. QED
    BY <1>1, <1>2, <2>2, <2>3, TypeKeeps, QuietKeeps
<1>. QED
  BY <1>3, <1>4

LEMMA WriteManifestKeeps ==
    ASSUME IInv, NEW p \in Procs, WriteManifest(p)
    PROVE  IInv'
<1>1. DiskTyped /\ TailMay(p)
  BY DEF WriteManifest, IInv, TypeOK, DiskTyped, TailMay
<1>. QED
  BY <1>1, GotoQuietKeeps DEF WriteManifest, Quiet

LEMMA StartCommandKeeps ==
    ASSUME IInv, NEW p \in Procs, NEW what \in {"advance", "verify", "provision"},
           StartCommand(p, what)
    PROVE  IInv'
<1> DEFINE s == IF what = "verify" THEN "read" ELSE "admit"
           r == [proc[p] EXCEPT !.pc = s, !.stage = what]
<1>1. r \in States /\ r.pc \in {"read", "admit"} /\ r.stage \notin {"before", "after"}
  BY DEF IInv, TypeOK, States, Pcs, Parts
<1>2. Set(p, r) /\ UNCHANGED <<disk, anchor, ghosts>>
  BY DEF StartCommand
<1>3. proc' \in [Procs -> States] /\ Moves(p) /\ proc'[p] = r
  BY <1>1, <1>2, SetFacts DEF IInv, TypeOK, Moves
<1>4. Settles(p)
  BY <1>1, <1>3 DEF Settles, Quiet
<1>. QED
  BY <1>2, <1>3, <1>4, SameDisk, TypeKeeps, QuietKeeps

LEMMA ProvisionAnchorKeeps ==
    ASSUME IInv, NEW p \in Procs, ProvisionAnchor(p)
    PROVE  IInv'
<1>1. /\ proc[p].pc = "compare" /\ proc[p].head = log /\ UNCHANGED <<disk, anchor, ghosts>>
      /\ DiskTyped /\ TailMay(p) /\ log' = log
  BY SameDisk DEF ProvisionAnchor, IInv, CapturedIsLog
<1>2. CASE anchor.state # "absent"
  BY <1>1, <1>2, RestKeeps DEF ProvisionAnchor
<1>3. CASE anchor.state = "absent"
  <2>1. /\ proc' \in [Procs -> States] /\ Moves(p) /\ proc'[p].pc = "create"
        /\ proc'[p].head = proc[p].head
    BY <1>3, GotoFacts DEF ProvisionAnchor, IInv, TypeOK, Moves, Pcs
  <2>2. Stands(p)
    BY <1>1, <1>3, <2>1 DEF Stands, ProvisionAnchor, AnchorLockFree, IInv, EffectAlone, Effect,
                            Guarded, Shared, Executing, Advancing
  <2>. QED
    BY <1>1, <2>1, <2>2, TypeKeeps, StepKeeps
<1>. QED
  BY <1>2, <1>3

\* Where there was no anchor nothing has been answered.
LEMMA CreateAnchorKeeps ==
    ASSUME IInv, NEW p \in Procs, CreateAnchor(p)
    PROVE  IInv'
<1>1. /\ proc[p].pc = "create" /\ proc[p].head = log /\ UNCHANGED <<disk, ghosts>>
      /\ anchor.state = "absent" /\ log \in Seq(Records)
      /\ DiskTyped /\ TailMay(p) /\ log' = log
  BY SameDisk DEF CreateAnchor, IInv, CapturedIsLog, AnchorMayMove, TypeOK
<1>2. proc' \in [Procs -> States] /\ Moves(p) /\ proc'[p].pc \in {"down", "idle"}
  BY RestFacts, SetFacts DEF CreateAnchor, IInv, TypeOK, Moves
<1>3. /\ anchor' \in [state : {"absent", "ok", "torn"}, head : Seq(Records)]
      /\ anchor'.state = "ok" /\ anchor'.head = log
  BY <1>1 DEF CreateAnchor
<1>4. TypeOK'
  BY <1>1, <1>2, <1>3 DEF IInv, TypeOK, ghosts, DiskTyped
<1>5. AnchorMay(p)
  BY <1>1, <1>3, PrefixSelf DEF AnchorMay, IInv, AnchorAlone
<1>6. acked = {}
  BY <1>1 DEF IInv, AnsweredIsAnchored
<1>7. AnswersMay
  BY <1>1, <1>6 DEF AnswersMay, AnsweredIsAnchored, ghosts
<1>8. Stands(p)
  BY <1>2 DEF Stands, Effect, Guarded, Shared, Executing, Advancing
<1>9. alarmed' => restored
  BY <1>1 DEF IInv, NoFalseAlarm, ghosts
<1>. QED
  BY <1>1, <1>2, <1>4, <1>5, <1>7, <1>8, <1>9, MoveKeeps DEF ghosts

LEMMA ReadAnchorKeeps ==
    ASSUME IInv, NEW p \in Procs, ReadAnchor(p)
    PROVE  IInv'
<1>1. UNCHANGED <<disk, anchor, ghosts>> /\ DiskTyped /\ TailMay(p) /\ log' = log
  BY SameDisk DEF ReadAnchor
<1>2. CASE anchor.state # "ok"
  BY <1>1, <1>2, RestKeeps DEF ReadAnchor
<1>3. CASE anchor.state = "ok"
  <2> DEFINE r == [proc[p] EXCEPT !.pc = "check", !.head = anchor.head]
  <2>1. r \in States /\ r.pc = "check" /\ r.head = anchor.head
    BY DEF IInv, TypeOK, States, Pcs
  <2>2. Set(p, r)
    BY <1>3 DEF ReadAnchor
  <2>3. proc' \in [Procs -> States] /\ Moves(p) /\ proc'[p] = r
    BY <2>1, <2>2, SetFacts DEF IInv, TypeOK, Moves
  <2>4. Stands(p)
    BY <1>3, <2>1, <2>3 DEF Stands, IInv, AnchorBehind, Effect, Guarded, Shared, Executing, Advancing
  <2>. QED
    BY <1>1, <2>3, <2>4, TypeKeeps, StepKeeps
<1>. QED
  BY <1>2, <1>3

LEMMA CheckHeadKeeps ==
    ASSUME IInv, NEW p \in Procs, CheckHead(p)
    PROVE  IInv'
<1>1. /\ UNCHANGED <<disk, anchor, acked, done, restored>> /\ DiskTyped /\ TailMay(p) /\ log' = log
  BY SameDisk DEF CheckHead
<1>2. proc' \in [Procs -> States] /\ Moves(p) /\ proc'[p].pc \in {"down", "idle"}
  BY RestFacts, SetFacts DEF CheckHead, IInv, TypeOK, Moves
<1>3. alarmed' \in BOOLEAN
  BY DEF CheckHead
<1>4. alarmed' => restored
  BY DEF CheckHead, IInv, NoFalseAlarm, AnchorBehind
<1>5. TypeOK'
  BY <1>1, <1>2, <1>3 DEF IInv, TypeOK, DiskTyped
<1>6. Stands(p)
  BY <1>2 DEF Stands, Effect, Guarded, Shared, Executing, Advancing
<1>7. AnchorMay(p) /\ AnswersMay
  BY <1>1 DEF AnchorMay, AnswersMay, AnsweredIsAnchored, IInv
<1>. QED
  BY <1>1, <1>2, <1>4, <1>5, <1>6, <1>7, MoveKeeps

-----------------------------------------------------------------------------
(***************************************************************************)
(* A host starts.                                                          *)
(***************************************************************************)
LEMMA StartHostKeeps ==
    ASSUME IInv, NEW p \in Procs, StartHost(p)
    PROVE  IInv'
<1> DEFINE r == [proc[p] EXCEPT !.pc = "admit", !.stage = "starting"]
<1>1. r \in States /\ r.pc = "admit" /\ r.stage = "starting"
  BY DEF IInv, TypeOK, States, Pcs, Parts
<1>2. Set(p, r) /\ UNCHANGED <<disk, anchor, ghosts>>
  BY DEF StartHost
<1>3. proc' \in [Procs -> States] /\ Moves(p) /\ proc'[p] = r
  BY <1>1, <1>2, SetFacts DEF IInv, TypeOK, Moves
<1>4. Settles(p)
  BY <1>1, <1>3 DEF Settles, Quiet
<1>. QED
  BY <1>2, <1>3, <1>4, SameDisk, TypeKeeps, QuietKeeps

LEMMA RepairLogKeeps ==
    ASSUME IInv, NEW p \in Procs, RepairLog(p)
    PROVE  IInv'
<1>1. UNCHANGED <<files, log, fx, anchor, ghosts>> /\ ReplayLockFree(p)
  BY DEF RepairLog
<1>2. tail' # "corrupt" /\ DiskTyped
  BY DEF RepairLog, IInv, TypeOK, LogReadable, DiskTyped
<1>3. TailMay(p)
  BY <1>1, <1>2, AloneTail
<1>4. Goto(p, "reconcile") \/ Set(p, Rest(p))
  BY DEF RepairLog
<1>. QED
  BY <1>1, <1>2, <1>3, <1>4, RestKeeps, GotoQuietKeeps DEF Quiet

LEMMA BeginReconcileKeeps ==
    ASSUME IInv, NEW p \in Procs, BeginReconcile(p)
    PROVE  IInv'
<1>1. proc' \in [Procs -> States] /\ Moves(p) /\ proc'[p].pc = "settle"
  BY GotoFacts DEF BeginReconcile, IInv, TypeOK, Moves, Pcs
<1>2. Stands(p)
  BY <1>1 DEF Stands, BeginReconcile, CanAdmitEffect, Effect, Guarded, Shared, Executing, Advancing
<1>3. UNCHANGED <<disk, anchor, ghosts>>
  BY DEF BeginReconcile
<1>. QED
  BY <1>1, <1>2, <1>3, SameDisk, TypeKeeps, StepKeeps

\* A consume record that applies is appended, or one is already there.
LEMMA SettleConsumeKeeps ==
    ASSUME IInv, NEW p \in Procs, SettleConsume(p)
    PROVE  IInv'
<1>0. PICK k \in Pending :
        /\ proc[p].pc = "settle"
        /\ IF ~ Appendable \/ ~ Has(log, "Reserve", k)
             THEN Set(p, Rest(p)) /\ UNCHANGED <<log, tail>>
           ELSE IF Has(log, "Consume", k)
             THEN /\ tail' = "clean" /\ UNCHANGED log
                  /\ Set(p, [proc[p] EXCEPT !.pc = "settled", !.key = k])
           ELSE IF ~ HasRoom
             THEN tail' = "clean" /\ UNCHANGED log /\ Set(p, Rest(p))
           ELSE /\ Append1(NextRecord("Consume", k), "clean")
                /\ Set(p, [proc[p] EXCEPT !.pc = "settled", !.key = k])
        /\ UNCHANGED <<files, fx, anchor, ghosts, spent>>
  BY DEF SettleConsume
<1> DEFINE r == [proc[p] EXCEPT !.pc = "settled", !.key = k]
<1>1. k \in Keys /\ proc[p].pc \in Effect /\ UNCHANGED <<files, fx, anchor, ghosts>>
  BY <1>0 DEF Pending, Effect
<1>2. tail' # "corrupt" /\ DiskTyped
  BY <1>0 DEF IInv, TypeOK, LogReadable, DiskTyped, Append1
<1>3. TailMay(p)
  BY <1>1, <1>2, AloneTail
<1>4. r \in States /\ r.pc = "settled" /\ r.key = k
  BY <1>1 DEF IInv, TypeOK, States, Pcs
<1>5. CASE Set(p, Rest(p)) /\ log' = log
  BY <1>1, <1>2, <1>3, <1>5, RestKeeps
<1>6. CASE Set(p, r) /\ log' = log
  <2>1. proc' \in [Procs -> States] /\ Moves(p) /\ proc'[p] = r
    BY <1>4, <1>6, SetFacts DEF IInv, TypeOK, Moves
  <2>2. Stands(p)
    BY <1>1, <1>4, <2>1 DEF Stands, IInv, EffectAlone, Effect, Guarded, Shared, Executing, Advancing
  <2>. QED
    BY <1>1, <1>2, <1>3, <1>6, <2>1, <2>2, TypeKeeps, StepKeeps
<1>7. CASE /\ Set(p, r) /\ Append1(NextRecord("Consume", k), "clean") /\ HasRoom
           /\ Has(log, "Reserve", k) /\ ~ Has(log, "Consume", k)
  <2> DEFINE rec == NextRecord("Consume", k)
  <2>0. log \in Seq(Records) /\ Len(log) + 1 \in Nat
    BY LenProperties DEF IInv, TypeOK
  <2>1. rec \in Records /\ rec.seq = Len(log) + 1 /\ rec.op = "Consume" /\ rec.key = k
    BY <1>1, <2>0 DEF NextRecord, Record, Records
  <2>2. log' = Append(log, rec) /\ tail' = "clean"
    BY <1>7 DEF Append1
  <2>3. proc' \in [Procs -> States] /\ Moves(p) /\ proc'[p] = r
    BY <1>4, <1>7, SetFacts DEF IInv, TypeOK, Moves
  <2>4. log' \in Seq(Records)
    BY <2>0, <2>1, <2>2, AppendProperties
  <2>5. TypeOK'
    BY <1>1, <1>2, <2>3, <2>4 DEF IInv, TypeOK, ghosts, DiskTyped
  <2>6. AppliesTo(rec, log)
    BY <1>7, <2>1 DEF AppliesTo
  <2>. QED
    BY <1>1, <1>4, <1>7, <2>1, <2>2, <2>3, <2>5, <2>6, AppendKeeps
<1>. QED
  BY <1>0, <1>5, <1>6, <1>7

LEMMA SettleFailsKeeps ==
    ASSUME IInv, NEW p \in Procs, SettleFails(p)
    PROVE  IInv'
<1>1. proc[p].pc \in Effect /\ Set(p, Rest(p)) /\ UNCHANGED <<files, log, fx, anchor, ghosts>>
  BY DEF SettleFails, AppendFails, Effect
<1>2. tail' # "corrupt" /\ DiskTyped
  BY DEF SettleFails, AppendFails, IInv, TypeOK, LogReadable, DiskTyped
<1>. QED
  BY <1>1, <1>2, AloneTail, RestKeeps

LEMMA SettleCompleteKeeps ==
    ASSUME IInv, NEW p \in Procs, SettleComplete(p)
    PROVE  IInv'
<1>1. proc' \in [Procs -> States] /\ Moves(p) /\ proc'[p].pc = "settle"
  BY GotoFacts DEF SettleComplete, IInv, TypeOK, Moves, Pcs
<1>2. Stands(p)
  BY <1>1 DEF Stands, SettleComplete, IInv, EffectAlone, Effect, Guarded, Shared, Executing, Advancing
<1>3. UNCHANGED <<files, log, tail, anchor, ghosts>>
  BY DEF SettleComplete
<1>4. DiskTyped /\ TailMay(p)
  BY <1>3 DEF SettleComplete, IInv, TypeOK, DiskTyped, TailMay
<1>. QED
  BY <1>1, <1>2, <1>3, <1>4, TypeKeeps, StepKeeps

LEMMA EndReconcileKeeps ==
    ASSUME IInv, NEW p \in Procs, EndReconcile(p)
    PROVE  IInv'
  BY SameDisk, GotoQuietKeeps DEF EndReconcile, Quiet

LEMMA RecheckLogKeeps ==
    ASSUME IInv, NEW p \in Procs, RecheckLog(p)
    PROVE  IInv'
<1>1. UNCHANGED <<disk, anchor, ghosts>> /\ DiskTyped /\ TailMay(p) /\ log' = log
  BY SameDisk DEF RecheckLog
<1>2. CASE ~ Readable
  BY <1>1, <1>2, RestKeeps DEF RecheckLog
<1>3. CASE Readable
  <2> DEFINE r == [Rest(p) EXCEPT !.pc = "admit", !.stage = "settling"]
  <2>1. r \in States /\ r.pc = "admit" /\ r.stage = "settling"
    BY RestFacts DEF States, Pcs, Parts
  <2>2. Set(p, r)
    BY <1>3 DEF RecheckLog
  <2>3. proc' \in [Procs -> States] /\ Moves(p) /\ proc'[p] = r
    BY <2>1, <2>2, SetFacts DEF IInv, TypeOK, Moves
  <2>4. Settles(p)
    BY <2>1, <2>3 DEF Settles, Quiet
  <2>. QED
    BY <1>1, <2>3, <2>4, TypeKeeps, QuietKeeps
<1>. QED
  BY <1>2, <1>3

-----------------------------------------------------------------------------
(***************************************************************************)
(* A call.                                                                 *)
(***************************************************************************)
LEMMA CallKeeps ==
    ASSUME IInv, NEW p \in Procs, NEW k \in Keys, Call(p, k)
    PROVE  IInv'
<1> DEFINE r == [proc[p] EXCEPT !.pc = "admit", !.stage = "before", !.key = k]
<1>1. r \in States /\ r.pc = "admit" /\ r.stage = "before" /\ r.key = k
  BY DEF IInv, TypeOK, States, Pcs, Parts
<1>2. Set(p, r) /\ UNCHANGED <<disk, anchor, ghosts>>
  BY DEF Call
<1>3. proc' \in [Procs -> States] /\ Moves(p) /\ proc'[p] = r
  BY <1>1, <1>2, SetFacts DEF IInv, TypeOK, Moves
<1>4. Settles(p)
  BY <1>1, <1>3 DEF Settles, Quiet
<1>. QED
  BY <1>2, <1>3, <1>4, SameDisk, TypeKeeps, QuietKeeps

LEMMA PrepareKeeps ==
    ASSUME IInv, NEW p \in Procs, Prepare(p)
    PROVE  IInv'
<1>1. /\ proc' \in [Procs -> States] /\ Moves(p) /\ proc'[p].pc = "reserve"
      /\ proc'[p].key = proc[p].key
  BY GotoFacts DEF Prepare, IInv, TypeOK, Moves, Pcs
<1>2. UNCHANGED <<disk, anchor, ghosts>> /\ proc[p].pc \in Executing
  BY DEF Prepare, Executing
<1>3. proc[p].key \in Keys /\ Consumed(acked, log) /\ acked' = acked
  BY <1>2 DEF IInv, CallsKeyed, AnsweredIsSeen, ghosts
<1>4. Stands(p)
  BY <1>1, <1>3 DEF Stands, Prepare, CanAdmitEffect, Effect, Guarded, Shared, Advancing
<1>. QED
  BY <1>1, <1>2, <1>4, SameDisk, TypeKeeps, StepKeeps

\* A key whose effect was committed is reserved, so a key reserved now has had none.
LEMMA ReserveNonceKeeps ==
    ASSUME IInv, NEW p \in Procs, ReserveNonce(p)
    PROVE  IInv'
<1> DEFINE k == proc[p].key
           rec == NextRecord("Reserve", k)
<1>1. /\ proc[p].pc = "reserve" /\ proc[p].pc \in Effect \cap Executing
      /\ UNCHANGED <<files, fx, anchor, ghosts>>
  BY DEF ReserveNonce, Effect, Executing
<1>2. tail' # "corrupt" /\ DiskTyped
  BY DEF ReserveNonce, IInv, TypeOK, LogReadable, DiskTyped, Append1
<1>3. TailMay(p)
  BY <1>1, <1>2, AloneTail
<1>4. CASE EndCall(p, FALSE) /\ log' = log
  BY <1>1, <1>2, <1>3, <1>4, EndCallKeeps
<1>5. CASE /\ ~ Has(log, "Reserve", k) /\ HasRoom
           /\ Append1(rec, "clean") /\ Goto(p, "guard")
  <2>0. log \in Seq(Records) /\ Len(log) + 1 \in Nat /\ k \in Keys
    BY <1>1, LenProperties DEF IInv, TypeOK, CallsKeyed
  <2>1. rec \in Records /\ rec.seq = Len(log) + 1 /\ rec.op = "Reserve" /\ rec.key = k
    BY <2>0 DEF NextRecord, Record, Records
  <2>2. log' = Append(log, rec) /\ tail' = "clean"
    BY <1>5 DEF Append1
  <2>3. /\ proc' \in [Procs -> States] /\ Moves(p)
        /\ proc'[p].pc = "guard" /\ proc'[p].key = k
    BY <1>5, GotoFacts DEF IInv, TypeOK, Moves, Pcs
  <2>4. log' \in Seq(Records)
    BY <2>0, <2>1, <2>2, AppendProperties
  <2>5. TypeOK'
    BY <1>1, <1>2, <2>3, <2>4 DEF IInv, TypeOK, ghosts, DiskTyped
  <2>6. AppliesTo(rec, log)
    BY <1>5, <2>1 DEF AppliesTo
  <2>7. ~ restored => done[k] = 0
    BY <1>5, <2>0 DEF IInv, DoneIsReserved
  <2>8. Consumed(acked, log)
    BY <1>1 DEF IInv, AnsweredIsSeen
  <2>. QED
    BY <1>1, <1>5, <2>0, <2>1, <2>2, <2>3, <2>5, <2>6, <2>7, <2>8, AppendKeeps
<1>. QED
  BY <1>4, <1>5 DEF ReserveNonce

LEMMA ReserveFailsKeeps ==
    ASSUME IInv, NEW p \in Procs, ReserveFails(p)
    PROVE  IInv'
<1>1. /\ proc[p].pc \in Effect \cap Executing /\ EndCall(p, FALSE)
      /\ UNCHANGED <<files, log, fx, anchor, ghosts>>
  BY DEF ReserveFails, AppendFails, Effect, Executing
<1>2. tail' # "corrupt" /\ DiskTyped
  BY DEF ReserveFails, AppendFails, IInv, TypeOK, DiskTyped
<1>. QED
  BY <1>1, <1>2, AloneTail, EndCallKeeps

\* The record for the consume is the next one of a clean WAL with room for it.
LEMMA TakeGuardKeeps ==
    ASSUME IInv, NEW p \in Procs, TakeGuard(p)
    PROVE  IInv'
<1> DEFINE k == proc[p].key
           r == [proc[p] EXCEPT !.pc = "late", !.head = <<NextRecord("Consume", k)>>]
<1>1. /\ proc[p].pc = "guard" /\ proc[p].pc \in Effect \cap Executing
      /\ UNCHANGED <<files, log, fx, anchor, ghosts>>
      /\ tail' = IF Appendable THEN "clean" ELSE tail
  BY DEF TakeGuard, Effect, Executing
<1>2. tail' # "corrupt" /\ DiskTyped
  BY <1>1 DEF IInv, TypeOK, LogReadable, DiskTyped
<1>3. TailMay(p)
  BY <1>1, <1>2, AloneTail
<1>4. CASE EndCall(p, FALSE)
  BY <1>1, <1>2, <1>3, <1>4, EndCallKeeps
<1>5. CASE /\ Appendable /\ Has(log, "Reserve", k) /\ ~ Has(log, "Consume", k) /\ HasRoom
           /\ Set(p, r)
  <2>0. /\ log \in Seq(Records) /\ Len(log) + 1 \in Nat /\ k \in Keys /\ Consumed(acked, log)
        /\ acked' = acked
        /\ ~ restored => done[k] = 0
    BY <1>1, LenProperties DEF IInv, TypeOK, CallsKeyed, AnsweredIsSeen, DoneIsReserved, ghosts
  <2>1. NextRecord("Consume", k) \in Records
    BY <2>0 DEF NextRecord, Record, Records
  <2>2. <<NextRecord("Consume", k)>> \in Seq(Records)
    BY <2>1
  <2>3. r \in States /\ r.pc = "late" /\ r.key = k /\ r.head = <<NextRecord("Consume", k)>>
    <3>1. ASSUME NEW h \in Seq(Records)
          PROVE  LET x == [proc[p] EXCEPT !.pc = "late", !.head = h]
                 IN  x \in States /\ x.pc = "late" /\ x.key = k /\ x.head = h
      BY DEF IInv, TypeOK, States, Pcs
    <3>. QED
      BY <2>2, <3>1
  <2>4. proc' \in [Procs -> States] /\ Moves(p) /\ proc'[p] = r
    BY <1>5, <2>3, SetFacts DEF IInv, TypeOK, Moves
  <2>5. \A q \in Procs \ {p} : proc[q].pc \notin Effect \cup Shared
    BY <1>1 DEF IInv, EffectAlone
  <2>6. Stands(p)
    <3>1. /\ proc'[p].pc = "late" /\ proc'[p].key = k
          /\ proc'[p].head = <<NextRecord("Consume", k)>> /\ tail' = "clean"
      BY <1>1, <1>5, <2>3, <2>4
    <3>. QED
      BY <1>5, <2>0, <2>5, <3>1 DEF Stands, Effect, Guarded, Shared, Executing, Advancing
  <2>. QED
    BY <1>1, <1>2, <1>3, <2>4, <2>6, TypeKeeps, StepKeeps
<1>. QED
  BY <1>4, <1>5 DEF TakeGuard

LEMMA LateAdmissionKeeps ==
    ASSUME IInv, NEW p \in Procs, LateAdmission(p)
    PROVE  IInv'
<1>1. /\ proc[p].pc = "late" /\ proc[p].pc \in Effect \cap Executing
      /\ UNCHANGED <<disk, anchor, ghosts>> /\ DiskTyped /\ TailMay(p) /\ log' = log
      /\ tail' = tail /\ acked' = acked
  BY SameDisk DEF LateAdmission, Effect, Guarded, Executing, disk, ghosts
<1>2. CASE EndCall(p, FALSE)
  BY <1>1, <1>2, EndCallKeeps
<1>3. CASE Goto(p, "commit")
  <2>1. /\ proc' \in [Procs -> States] /\ Moves(p) /\ proc'[p].pc = "commit"
        /\ proc'[p].key = proc[p].key /\ proc'[p].head = proc[p].head
    BY <1>3, GotoFacts DEF IInv, TypeOK, Moves, Pcs
  <2>2. /\ proc[p].head = <<NextRecord("Consume", proc[p].key)>>
        /\ tail = "clean" /\ HasRoom
        /\ Has(log, "Reserve", proc[p].key) /\ ~ Has(log, "Consume", proc[p].key)
    BY <1>1 DEF IInv, GuardHolds, Guarded
  <2>3. /\ proc[p].key \in Keys /\ Consumed(acked, log)
        /\ ~ restored => done[proc[p].key] = 0
    BY <1>1 DEF IInv, CallsKeyed, AnsweredIsSeen, DoneIsReserved
  <2>4. \A q \in Procs \ {p} : proc[q].pc \notin Effect \cup Shared
    BY <1>1 DEF IInv, EffectAlone
  <2>5. Stands(p)
    BY <1>1, <2>1, <2>2, <2>3, <2>4 DEF Stands, Effect, Guarded, Shared, Executing, Advancing
  <2>. QED
    BY <1>1, <2>1, <2>5, TypeKeeps, StepKeeps
<1>. QED
  BY <1>2, <1>3 DEF LateAdmission

\* The one step with an effect: no record of it yet, so nobody was told of it and,
\* unless the state root was put back, it has not happened.
LEMMA CommitEffectKeeps ==
    ASSUME IInv, NEW p \in Procs, CommitEffect(p)
    PROVE  IInv'
<1>1. /\ proc[p].pc = "commit" /\ proc[p].pc \in Effect \cap Executing
      /\ UNCHANGED <<files, log, tail, anchor, acked, restored, alarmed>>
  BY DEF CommitEffect, Effect, Guarded, Executing
<1>2. DiskTyped /\ TailMay(p)
  BY <1>1 DEF CommitEffect, IInv, TypeOK, DiskTyped, TailMay
<1>3. CASE EndCall(p, FALSE) /\ UNCHANGED done
  BY <1>1, <1>2, <1>3, EndCallKeeps DEF ghosts
<1>4. CASE /\ done' = [done EXCEPT ![proc[p].key] = @ + 1]
           /\ Goto(p, "consume")
  <2> DEFINE k == proc[p].key
  <2>1. /\ proc' \in [Procs -> States] /\ Moves(p) /\ proc'[p].pc = "consume"
        /\ proc'[p].key = k /\ proc'[p].head = proc[p].head
    BY <1>4, GotoFacts DEF IInv, TypeOK, Moves, Pcs
  <2>2. k \in Keys /\ Has(log, "Reserve", k)
    BY <1>1 DEF IInv, CallsKeyed, GuardHolds, Executing, Guarded
  <2>3. \A q \in Procs \ {p} : proc[q].pc \notin Effect \cup Shared
    BY <1>1 DEF IInv, EffectAlone
  <2>4. done' \in [Keys -> Nat] /\ \A j \in Keys : j # k => done'[j] = done[j]
    <3>1. done \in [Keys -> Nat]
      BY DEF IInv, TypeOK
    <3>2. done[k] + 1 \in Nat
      BY <2>2, <3>1
    <3>. QED
      BY <1>4, <2>2, <3>1, <3>2
  <2>5. TypeOK'
    BY <1>1, <1>2, <2>1, <2>4 DEF IInv, TypeOK, DiskTyped
  <2> USE DEF Moves
  <2>6. EffectAlone' /\ AnchorAlone'
    BY <2>1, <2>3 DEF EffectAlone, AnchorAlone, Effect, Guarded, Shared, IInv
  <2>7. CallsKeyed'
    BY <1>1, <2>1, <2>2 DEF CallsKeyed, IInv, Advancing
  <2>8. GuardHolds'
    BY <1>1, <2>1, <2>3 DEF GuardHolds, IInv, Effect, Guarded, HasRoom, NextRecord, Record
  <2>9. CapturedIsLog' /\ AnchorMayMove' /\ AnchorBehind'
    BY <1>1, <2>1 DEF IInv, CapturedIsLog, AnchorMayMove, AnchorBehind
  <2>10. WentThrough' /\ AnsweredIsAnchored' /\ AnsweredIsSeen'
    BY <1>1, <2>1 DEF IInv, WentThrough, AnsweredIsAnchored, AnsweredIsSeen, Consumed, Advancing
  <2>11. DoneIsReserved'
    <3>1. ASSUME ~ restored, NEW j \in Keys, done'[j] # 0
          PROVE  Has(log', "Reserve", j)
      BY <1>1, <2>2, <2>4, <3>1 DEF IInv, DoneIsReserved
    <3>2. ASSUME ~ restored, NEW q \in Procs, proc'[q].pc \in {"guard", "late", "commit"}
          PROVE  FALSE
      BY <2>1, <2>3, <3>2 DEF Effect, Guarded
    <3>. QED
      BY <1>1, <3>1, <3>2 DEF DoneIsReserved
  <2>12. LogReadable' /\ NoFalseAlarm'
    BY <1>1 DEF IInv, LogReadable, NoFalseAlarm
  <2>. QED
    BY <2>5, <2>6, <2>7, <2>8, <2>9, <2>10, <2>11, <2>12 DEF IInv
<1>. QED
  BY <1>1, <1>3, <1>4 DEF CommitEffect

\* The record built under the guard still is the next one, and applies.
LEMMA ConsumeNonceKeeps ==
    ASSUME IInv, NEW p \in Procs, ConsumeNonce(p)
    PROVE  IInv'
<1> DEFINE k == proc[p].key
           rec == NextRecord("Consume", k)
<1>1. /\ proc[p].pc = "consume" /\ proc[p].pc \in Effect \cap Executing
      /\ UNCHANGED <<files, fx, anchor, ghosts>>
  BY DEF ConsumeNonce, Effect, Guarded, Executing
<1>2. /\ proc[p].head = <<rec>> /\ tail = "clean" /\ HasRoom
      /\ Has(log, "Reserve", k) /\ ~ Has(log, "Consume", k)
  BY <1>1 DEF IInv, GuardHolds, Guarded
<1>3. log \in Seq(Records) /\ Len(log) + 1 \in Nat /\ k \in Keys /\ Consumed(acked, log)
  BY <1>1, LenProperties DEF IInv, TypeOK, CallsKeyed, AnsweredIsSeen
<1>4. rec \in Records /\ rec.seq = Len(log) + 1 /\ rec.op = "Consume" /\ rec.key = k
  BY <1>3 DEF NextRecord, Record, Records
<1>5. Head(proc[p].head) = rec
  BY <1>2, <1>4
<1>6. log' = Append(log, rec) /\ tail' = "clean"
  BY <1>2, <1>5 DEF ConsumeNonce, Append1
<1>7. log' \in Seq(Records)
  BY <1>3, <1>4, <1>6, AppendProperties
<1>8. /\ proc' \in [Procs -> States] /\ Moves(p) /\ proc'[p].pc = "complete" /\ proc'[p].key = k
  BY GotoFacts DEF ConsumeNonce, IInv, TypeOK, Moves, Pcs
<1>9. TypeOK'
  BY <1>1, <1>6, <1>7, <1>8 DEF IInv, TypeOK, ghosts
<1>10. AppliesTo(rec, log)
  BY <1>2, <1>4 DEF AppliesTo
<1>. QED
  BY <1>1, <1>2, <1>3, <1>4, <1>6, <1>8, <1>9, <1>10, AppendKeeps

LEMMA ConsumeFailsKeeps ==
    ASSUME IInv, NEW p \in Procs, ConsumeFails(p)
    PROVE  IInv'
<1>1. /\ proc[p].pc \in Effect \cap Executing /\ EndCall(p, FALSE)
      /\ UNCHANGED <<files, log, fx, anchor, ghosts>>
  BY DEF ConsumeFails, AppendFails, Effect, Guarded, Executing
<1>2. tail = "clean"
  BY DEF ConsumeFails, IInv, GuardHolds, Guarded
<1>3. tail' # "corrupt" /\ DiskTyped
  BY <1>2 DEF ConsumeFails, AppendFails, IInv, TypeOK, DiskTyped
<1>. QED
  BY <1>1, <1>3, AloneTail, EndCallKeeps

LEMMA CompleteCallKeeps ==
    ASSUME IInv, NEW p \in Procs, CompleteCall(p)
    PROVE  IInv'
<1>1. /\ proc[p].pc \in Executing /\ EndCall(p, TRUE) /\ UNCHANGED <<files, log, tail, anchor, ghosts>>
  BY DEF CompleteCall, Executing
<1>2. DiskTyped /\ TailMay(p)
  BY DEF CompleteCall, IInv, TypeOK, DiskTyped, TailMay
<1>3. Has(log, "Consume", proc[p].key)
  BY DEF CompleteCall, IInv, WentThrough
<1>. QED
  BY <1>1, <1>2, <1>3, EndCallKeeps

LEMMA CompleteFailsKeeps ==
    ASSUME IInv, NEW p \in Procs, CompleteFails(p)
    PROVE  IInv'
<1>1. /\ proc[p].pc \in Executing /\ EndCall(p, FALSE) /\ UNCHANGED <<disk, anchor, ghosts>>
  BY DEF CompleteFails, Executing
<1>. QED
  BY <1>1, SameDisk, EndCallKeeps

-----------------------------------------------------------------------------
(***************************************************************************)
(* Faults.                                                                 *)
(***************************************************************************)
LEMMA DieKeeps ==
    ASSUME IInv, NEW p \in Procs, Die(p)
    PROVE  IInv'
<1>1. UNCHANGED <<log, fx, ghosts>>
  BY DEF Die
<1>2. proc' \in [Procs -> States] /\ Moves(p) /\ proc'[p].pc \in {"down", "idle"}
  BY RestFacts, SetFacts DEF Die, IInv, TypeOK, Moves
<1>3. tail' = tail \/ (tail' = "torn" /\ proc[p].pc \in Effect)
  BY DEF Die, Effect, Guarded
<1>4. TailMay(p)
  <2>1. CASE tail' = tail
    BY <2>1 DEF TailMay
  <2>2. CASE tail' = "torn" /\ proc[p].pc \in Effect
    BY <2>2, AloneTail
  <2>. QED
    BY <1>3, <2>1, <2>2
<1>5. DiskTyped
  BY <1>1, <1>3 DEF Die, IInv, TypeOK, DiskTyped
<1>6. \/ anchor' = anchor
      \/ proc[p].pc = "create" /\ anchor' = [NoAnchor EXCEPT !.state = "torn"]
  BY DEF Die
<1>7. /\ anchor' \in [state : {"absent", "ok", "torn"}, head : Seq(Records)]
      /\ anchor' # anchor => anchor'.state = "torn"
  <2>1. [NoAnchor EXCEPT !.state = "torn"] = [state |-> "torn", head |-> <<>>]
    BY DEF NoAnchor
  <2>2. [state |-> "torn", head |-> <<>>] \in [state : {"absent", "ok", "torn"}, head : Seq(Records)]
    BY EmptySeq
  <2>3. anchor \in [state : {"absent", "ok", "torn"}, head : Seq(Records)]
    BY DEF IInv, TypeOK
  <2>. QED
    BY <1>6, <2>1, <2>2, <2>3
<1>8. TypeOK'
  BY <1>1, <1>2, <1>5, <1>7 DEF IInv, TypeOK, DiskTyped, ghosts
<1>9. AnchorMay(p)
  BY <1>6, <1>7 DEF AnchorMay, IInv, AnchorAlone
<1>10. AnswersMay
  <2>1. anchor' # anchor => acked = {}
    BY <1>6 DEF IInv, AnchorMayMove, AnsweredIsAnchored
  <2>. QED
    BY <1>1, <2>1 DEF AnswersMay, AnsweredIsAnchored, IInv, ghosts
<1>11. Stands(p)
  BY <1>2 DEF Stands, Effect, Guarded, Shared, Executing, Advancing
<1>12. alarmed' => restored
  BY <1>1 DEF IInv, NoFalseAlarm, ghosts
<1>. QED
  BY <1>1, <1>2, <1>4, <1>8, <1>9, <1>10, <1>11, <1>12, MoveKeeps DEF ghosts

\* Nothing runs, and a WAL cut between two records can be read.
LEMMA RestoreStateRootKeeps ==
    ASSUME IInv, RestoreStateRoot
    PROVE  IInv'
<1>1. /\ \A p \in Procs : proc[p].pc \in {"down", "idle"}
      /\ tail' = "clean" /\ restored' = TRUE
      /\ UNCHANGED <<files, anchor, proc, acked, done, alarmed>>
  BY DEF RestoreStateRoot
<1>2. fx' \in [Keys -> {"none", "committed", "completed"}]
  BY DEF RestoreStateRoot
<1>3. PICK n \in 0 .. Len(log) : log' = SubSeq(log, 1, n)
  BY DEF RestoreStateRoot
<1>4. log' \in Seq(Records) /\ Decodes(log')
  <2>1. log \in Seq(Records) /\ Decodes(log)
    BY DEF IInv, TypeOK, LogReadable
  <2>. QED
    BY <1>3, <2>1, DecodesCut
<1>5. TypeOK'
  BY <1>1, <1>2, <1>4 DEF IInv, TypeOK
<1>6. EffectAlone' /\ AnchorAlone' /\ CallsKeyed'
  BY <1>1 DEF EffectAlone, AnchorAlone, CallsKeyed, IInv
<1>7. GuardHolds' /\ CapturedIsLog' /\ AnchorMayMove'
  BY <1>1 DEF GuardHolds, CapturedIsLog, AnchorMayMove, Guarded
<1>8. AnchorBehind' /\ DoneIsReserved'
  BY <1>1 DEF AnchorBehind, DoneIsReserved
<1>9. WentThrough' /\ AnsweredIsAnchored' /\ AnsweredIsSeen'
  BY <1>1 DEF WentThrough, AnsweredIsAnchored, AnsweredIsSeen, Advancing, Executing, IInv
<1>10. LogReadable' /\ NoFalseAlarm'
  <2>1. Decodes(log)'
    BY <1>4 DEF Decodes, AppliesTo, Has
  <2>. QED
    BY <1>1, <2>1 DEF LogReadable, NoFalseAlarm
<1>. QED
  BY <1>5, <1>6, <1>7, <1>8, <1>9, <1>10 DEF IInv

-----------------------------------------------------------------------------
(***************************************************************************)
(* The inductive invariant.                                                *)
(***************************************************************************)
LEMMA InitHolds == Init => IInv
<1> SUFFICES ASSUME Init PROVE IInv
  OBVIOUS
<1>1. \A p \in Procs : proc[p] = Rest(p) /\ proc[p] \in States /\ proc[p].pc \in {"down", "idle"}
  BY RestFacts DEF Init
<1>2. /\ log = <<>> /\ log \in Seq(Records) /\ Len(log) = 0 /\ DOMAIN log = {}
      /\ anchor = [state |-> "absent", head |-> <<>>]
  BY EmptySeq, LenProperties DEF Init, NoAnchor
<1>3. TypeOK
  <2>1. proc \in [Procs -> States]
    BY <1>1 DEF Init
  <2>2. anchor \in [state : {"absent", "ok", "torn"}, head : Seq(Records)]
    BY <1>2
  <2>. QED
    BY <1>2, <2>1, <2>2 DEF Init, TypeOK
<1>4. EffectAlone /\ AnchorAlone /\ CallsKeyed
  BY <1>1 DEF EffectAlone, AnchorAlone, CallsKeyed, Effect, Guarded, Executing, Advancing
<1>5. GuardHolds /\ CapturedIsLog /\ AnchorMayMove
  BY <1>1 DEF GuardHolds, CapturedIsLog, AnchorMayMove, Guarded
<1>6. AnchorBehind
  BY <1>1, <1>2 DEF AnchorBehind
<1>7. WentThrough /\ AnsweredIsAnchored /\ AnsweredIsSeen
  BY <1>1 DEF Init, WentThrough, AnsweredIsAnchored, AnsweredIsSeen, Advancing, Executing
<1>8. DoneIsReserved
  BY <1>1 DEF Init, DoneIsReserved
<1>9. LogReadable
  BY <1>2, ReplayStoreAssumption DEF Init, LogReadable, Decodes
<1>10. NoFalseAlarm
  BY DEF Init, NoFalseAlarm
<1>. QED
  BY <1>3, <1>4, <1>5, <1>6, <1>7, <1>8, <1>9, <1>10 DEF IInv

LEMMA AdvancesKeep ==
    ASSUME IInv, NEW p \in Procs, Advance(p)
    PROVE  IInv'
  BY AdmitAdvanceKeeps, CaptureHeadKeeps, CompareAnchorKeeps, ReplaceAnchorKeeps, ReplaceFailsKeeps
     DEF Advance

LEMMA CommandsKeep ==
    ASSUME IInv, NEW p \in Procs, Command(p)
    PROVE  IInv'
  BY InitializeReplayWalKeeps, WriteManifestKeeps, StartCommandKeeps, ProvisionAnchorKeeps,
     CreateAnchorKeeps, ReadAnchorKeeps, CheckHeadKeeps
     DEF Command

LEMMA ActivationsKeep ==
    ASSUME IInv, NEW p \in Procs, Activate(p)
    PROVE  IInv'
  BY StartHostKeeps, RepairLogKeeps, BeginReconcileKeeps, SettleConsumeKeeps, SettleFailsKeeps,
     SettleCompleteKeeps, EndReconcileKeeps, RecheckLogKeeps
     DEF Activate

LEMMA ExecutionsKeep ==
    ASSUME IInv, NEW p \in Procs, Execute(p)
    PROVE  IInv'
  BY CallKeeps, PrepareKeeps, ReserveNonceKeeps, ReserveFailsKeeps, TakeGuardKeeps,
     LateAdmissionKeeps, CommitEffectKeeps, ConsumeNonceKeeps, ConsumeFailsKeeps,
     CompleteCallKeeps, CompleteFailsKeeps
     DEF Execute

LEMMA StutterKeeps ==
    ASSUME IInv, UNCHANGED vars
    PROVE  IInv'
<1> USE DEF vars
<1>1. TypeOK' /\ EffectAlone' /\ AnchorAlone' /\ CallsKeyed'
  BY DEF IInv, TypeOK, EffectAlone, AnchorAlone, CallsKeyed
<1>2. GuardHolds' /\ CapturedIsLog' /\ AnchorMayMove' /\ AnchorBehind'
  BY DEF IInv, GuardHolds, CapturedIsLog, AnchorMayMove, AnchorBehind, HasRoom, NextRecord, Record
<1>3. WentThrough' /\ AnsweredIsAnchored' /\ AnsweredIsSeen' /\ DoneIsReserved'
  BY DEF IInv, WentThrough, AnsweredIsAnchored, AnsweredIsSeen, DoneIsReserved, Consumed
<1>4. LogReadable' /\ NoFalseAlarm'
  BY DEF IInv, LogReadable, NoFalseAlarm
<1>. QED
  BY <1>1, <1>2, <1>3, <1>4 DEF IInv

LEMMA NextKeeps ==
    ASSUME IInv, [Next]_vars
    PROVE  IInv'
<1>1. CASE Next
  BY <1>1, AdvancesKeep, CommandsKeep, ActivationsKeep, ExecutionsKeep, DieKeeps,
     RestoreStateRootKeeps DEF Next, Procs
<1>2. CASE UNCHANGED vars
  BY <1>2, StutterKeeps
<1>. QED
  BY <1>1, <1>2

LEMMA Inductive == Spec => []IInv
  BY InitHolds, NextKeeps, PTL DEF Spec

\* Every value the replay WAL, the anchor and the processes take is one the code
\* has: a stage of trusted_runtime.rs, a record of replay_wal.rs, a state of the
\* anchor file.
THEOREM TypeCorrect == Spec => []TypeOK
<1>1. IInv => TypeOK
  BY DEF IInv
<1>. QED
  BY <1>1, Inductive, PTL

\* replay_wal.rs, decode_prefix: whatever hosts and operators interleave, crash,
\* fail or put back, recovery reads the replay WAL to its end; the consume record
\* that acquire_owned_replay_commit_guard builds before the effect is still the
\* next one when consume_retaining_effect_lock appends it.
THEOREM ReplayLogStaysReadable == Spec => []LogReadable
<1>1. IInv => LogReadable
  BY DEF IInv
<1>. QED
  BY <1>1, Inductive, PTL

\* replay_anchor.rs, compare_anchor: a rollback or a divergence is reported only
\* where a state root was put back, however advances, verifications and appends
\* interleave.
THEOREM AlarmsAreTrue == Spec => []NoFalseAlarm
<1>1. IInv => NoFalseAlarm
  BY DEF IInv
<1>. QED
  BY <1>1, Inductive, PTL

-----------------------------------------------------------------------------
(***************************************************************************)
(* At most once.                                                           *)
(***************************************************************************)

\* Only the commit of an effect counts.
LEMMA OnlyCommitCounts ==
    ASSUME [Next]_vars, done' # done
    PROVE  \E p \in Hosts : CommitEffect(p)
<1> USE DEF disk, ghosts
<1>1. Next
  BY DEF vars
<1>2. ASSUME NEW p \in Procs, Advance(p) \/ Die(p) PROVE FALSE
  BY <1>2 DEF Advance, Die, AdmitAdvance, CaptureHead, CompareAnchor, ReplaceAnchor, ReplaceFails
<1>3. ASSUME NEW p \in Operators, Command(p) PROVE FALSE
  BY <1>3 DEF Command, InitializeReplayWal, WriteManifest, StartCommand, ProvisionAnchor,
              CreateAnchor, ReadAnchor, CheckHead
<1>4. ASSUME NEW p \in Hosts, Activate(p) PROVE FALSE
  BY <1>4 DEF Activate, StartHost, RepairLog, BeginReconcile, SettleConsume, SettleFails,
              SettleComplete, EndReconcile, RecheckLog
<1>5. ASSUME NEW p \in Hosts, Execute(p) PROVE CommitEffect(p)
  BY <1>5 DEF Execute, Call, Prepare, ReserveNonce, ReserveFails, TakeGuard, LateAdmission,
              ConsumeNonce, ConsumeFails, CompleteCall, CompleteFails
<1>6. ~ RestoreStateRoot
  BY DEF RestoreStateRoot
<1>. QED
  BY <1>1, <1>2, <1>3, <1>4, <1>5, <1>6 DEF Next

\* The commit is of a key that nobody was told about and, unless the state root
\* was put back, of one that had no effect yet.
LEMMA CommitIsFirst ==
    ASSUME IInv, [Next]_vars
    PROVE  [\A k \in Keys : done'[k] # done[k] => k \notin acked /\ (done[k] = 0 \/ restored)]_done
<1> SUFFICES ASSUME NEW k \in Keys, done'[k] # done[k]
             PROVE  k \notin acked /\ (done[k] = 0 \/ restored)
  OBVIOUS
<1>1. PICK p \in Hosts : CommitEffect(p)
  BY OnlyCommitCounts
<1>2. p \in Procs /\ proc[p].pc = "commit"
  BY <1>1 DEF CommitEffect, Procs
<1>3. k = proc[p].key
  <2>1. done \in [Keys -> Nat]
    BY DEF IInv, TypeOK
  <2>2. \/ done' = [done EXCEPT ![proc[p].key] = @ + 1]
        \/ done' = done
    BY <1>1 DEF CommitEffect
  <2>. QED
    BY <2>1, <2>2
<1>4. ~ Has(log, "Consume", k) /\ Consumed(acked, log)
  BY <1>2, <1>3 DEF IInv, GuardHolds, AnsweredIsSeen, Guarded, Executing
<1>5. ~ restored => done[k] = 0
  BY <1>2, <1>3 DEF IInv, DoneIsReserved
<1>. QED
  BY <1>4, <1>5 DEF Consumed

\* trusted_runtime.rs over replay_wal.rs and replay_anchor.rs: a signed call takes
\* effect at most once whatever dies, fails or is retried, and a call answered
\* Applied takes no effect again even where an old state root was put back.
THEOREM CallsAreNotReexecuted == Spec => NoReexecution
<1>1. IInv /\ [Next]_vars =>
        [\A k \in Keys : done'[k] # done[k] => k \notin acked /\ (done[k] = 0 \/ restored)]_done
  BY CommitIsFirst
<1>. QED
  BY <1>1, Inductive, PTL DEF Spec, NoReexecution
================================================================================
