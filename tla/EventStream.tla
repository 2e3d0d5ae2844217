---------------------------- MODULE EventStream ----------------------------
(***************************************************************************)
(* The data of one EventLog stream (crates/forge-core-eventlog): events,   *)
(* the fold of a stream into its projection, the JSONL file they are kept  *)
(* in, and the two readers of that file: the tolerant replay and the       *)
(* strict check of a backup.                                               *)
(*                                                                         *)
(* A file is its lines, and whether it ends in a newline. Of the bytes of  *)
(* a line only what the readers look at is kept: a line is one event, or   *)
(* it does not parse, and then it either is "open" (the last byte is not a *)
(* closing brace) or "closed" (it is). Every event is written in one       *)
(* append, and an append that is cut short leaves a prefix of it.          *)
(***************************************************************************)
EXTENDS Integers, Sequences, SequencesExt

CONSTANTS
    Ids,            \* names of memory entries, research sources, conflicts
    MaxSequence     \* the greatest sequence number: u64::MAX

ASSUME SequenceAssumption == MaxSequence \in Nat \ {0}

Streams == {"Memory", "Research", "Governance"}

\* A memory entry: its authority level and whether its TTL has run out.
Entries == [auth : {"Raw", "Authority"}, stale : BOOLEAN]

\* What an event says besides its sequence number. Admitted carries the new
\* entry, Promoted and Forgotten the entry as it was before.
Payloads ==
    [kind : {"Admitted", "Promoted", "Forgotten"}, id : Ids, entry : Entries]
        \cup [kind : {"SourceAdded", "Detected", "Resolved", "Escalated"},
              id : Ids]

EventOf(n, d) == [seq |-> n, data |-> d]

Events == {EventOf(n, d) : n \in 1..MaxSequence, d \in Payloads}

\* next_sequence: the checked addition has no successor for the last number.
Exhausted(n) == n = MaxSequence

\* Lines that are not events.
Open == [broken |-> "open"]
Closed == [broken |-> "closed"]
Lines == Events \cup {Open, Closed}

-----------------------------------------------------------------------------
(***************************************************************************)
(* The fold.                                                               *)
(***************************************************************************)

EmptyFcn == [i \in {} |-> {}]

\* The default projection. Its items are entries, sources or conflicts.
EmptyProjection == [seq |-> 0, items |-> EmptyFcn, superseded |-> {}]

Put(items, i, v) ==
    [j \in DOMAIN items \cup {i} |-> IF j = i THEN v ELSE items[j]]

Without(items, i) == [j \in DOMAIN items \ {i} |-> items[j]]

\* A transition of an item that must be there; otherwise only a diagnostic.
Update(items, i, v) == IF i \in DOMAIN items THEN Put(items, i, v) ELSE items

\* EventSourced::apply of the three domains.
Apply(items, d) ==
    CASE d.kind = "Admitted"    -> Put(items, d.id, d.entry)
      [] d.kind = "Promoted"    ->
            IF d.id \in DOMAIN items
              THEN Put(items, d.id, [items[d.id] EXCEPT !.auth = "Authority"])
              ELSE items
      [] d.kind = "Forgotten"   -> Without(items, d.id)
      [] d.kind = "SourceAdded" -> Put(items, d.id, "source")
      [] d.kind = "Detected"    -> Put(items, d.id, "Pending")
      [] d.kind \in {"Resolved", "Escalated"} -> Update(items, d.id, d.kind)

\* apply_event: an event that does not advance the sequence is ignored.
ApplyEvent(p, e) ==
    IF p.seq > 0 /\ e.seq <= p.seq
      THEN p
      ELSE [seq |-> e.seq,
            items |-> Apply(p.items, e.data),
            superseded |-> IF e.data.kind = "Forgotten"
                             THEN p.superseded \cup {e.data.id}
                             ELSE p.superseded]

Fold(events) == FoldLeft(ApplyEvent, EmptyProjection, events)

-----------------------------------------------------------------------------
(***************************************************************************)
(* The file and its readers.                                               *)
(***************************************************************************)

NoFile == [made |-> FALSE, lines |-> <<>>, ended |-> TRUE]

Files == [made : BOOLEAN, lines : Seq(Lines), ended : BOOLEAN]

IsEvent(l) == l \notin {Open, Closed}

\* How much of an append reaches the file: nothing, a part that does not or
\* does end in a closing brace, the event without its newline, all of it.
Cuts == {"nothing", "open", "closed", "bare", "full"}

\* The file after an append of e at its end. Whatever follows a line that has
\* no newline becomes part of that line, and spoils it.
Write(f, e, cut) ==
    LET piece == IF cut \in {"bare", "full"} THEN e ELSE [broken |-> cut]
        glued == IF piece = Open THEN Open ELSE Closed
    IN  IF cut = "nothing" THEN f
        ELSE [f EXCEPT
                !.lines = IF f.ended THEN Append(@, piece)
                                     ELSE Append(Front(@), glued),
                !.ended = (cut = "full")]

\* Mutation: a final line that does not parse is always a torn write.
TornMutant(f, i) == i = Len(f.lines)

\* A line that does not parse is taken for a torn write when it is the last
\* one and does not both start and end like an object.
Torn(f, i) == i = Len(f.lines) /\ f.lines[i] = Open

\* replay_bytes succeeds unless there is a line it can neither parse nor
\* take for a torn write.
Readable(f) == \A i \in DOMAIN f.lines : IsEvent(f.lines[i]) \/ Torn(f, i)

\* The events of a readable file: every line, but for a torn write at its end.
EventsOf(f) ==
    IF f.lines # <<>> /\ ~IsEvent(Last(f.lines)) THEN Front(f.lines) ELSE f.lines

Replay(f) == Fold(EventsOf(f))

\* Mutation: the final newline is not asked for.
StrictMutant(f) ==
    \A i \in DOMAIN f.lines : IsEvent(f.lines[i]) /\ f.lines[i].seq = i

\* validate_strict_snapshot_stream: whole lines, one event each, numbered
\* from 1 without a gap.
Strict(f) ==
    /\ f.ended
    /\ \A i \in DOMAIN f.lines : IsEvent(f.lines[i]) /\ f.lines[i].seq = i

=============================================================================
