---------------------------- MODULE GovernanceLedger ----------------------------
(***************************************************************************)
(* The workflow governance ledger on disk, the kernel handlers that append *)
(* to it under its lock (adapter.rs), the replay WAL that remembers which  *)
(* broker actions were applied (workflow_action_replay.rs), and the domain *)
(* pack lifecycle, which moves on its own and which the ledger follows.    *)
(*                                                                         *)
(* Every append rewrites the whole ledger: a rename where the platform has *)
(* one, elsewhere a protocol of four files that the next lock holder       *)
(* finishes or undoes.  One process at a time holds the ledger's lock;     *)
(* `op' is what it does.  The project's files do not change, and whatever  *)
(* a policy decides is a free choice between an append and a refusal.      *)
(***************************************************************************)
EXTENDS GovernanceEvents

CONSTANTS
    Menus,              \* where a behaviour starts, what is asked of it, how many processes die
    Interactions,       \* native interactions a broker may sign
    Offers,             \* evidence offer ids
    Digests,            \* evidence offer contents
    FocusIds,
    MaxReplayRecords,   \* MAX_RECORDS of the action replay WAL
    MaxReleases,        \* releases of the core beyond the first
    MaxGenerations,     \* bound on domain pack generations
    MaxOps,             \* bound on requests
    MaxFaults           \* bound on I/O errors

ASSUME GovernanceLedgerAssumption ==
    /\ {MaxReplayRecords, MaxReleases, MaxGenerations, MaxOps, MaxFaults} \subseteq Nat
    /\ \A m \in Menus : m.platform \in {"posix", "other"} /\ m.deaths \in Nat
    /\ "none" \notin Digests

\* A behaviour starts from no ledger or from one that was written before, and with
\* an empty replay WAL, so with no action in the ledger that it would have to know of.
ASSUME StartsAssumption ==
    \A m \in Menus : m.start \in Seq(Range(m.start)) /\ Readable(m.start) /\ ~ StrictSeen(m.start)

VARIABLES
    menu,       \* the menu of this behaviour
    files,      \* the ledger's four files; <<>> is a file that is not there
    replay,     \* the action replay WAL
    domain,     \* the active domain pack generation and the core it is built for
    plan,       \* the rebase plan: derived by a process, then persisted
    op,         \* what the holder of the lock does
    denied,     \* length of the ledger last reported as not committed, 0 if none
    spent       \* requests, crashes and faults so far

vars == <<menu, files, replay, domain, plan, op, denied, spent>>
world == <<menu, replay, domain, plan>>

-----------------------------------------------------------------------------
NoMarker == [st |-> "none", prev |-> <<>>, next |-> <<>>]

NoPlan == [st |-> "none", head |-> 0, gen |-> 0, core |-> 0]

NoEnvelope == [i |-> "none", head |-> 0, kind |-> "none"]

Idle == [pc |-> "idle", kind |-> "none", env |-> NoEnvelope, want |-> <<>>,
         stage |-> "start", reread |-> FALSE]

Init ==
    /\ menu \in Menus
    /\ files = [target |-> menu.start, next |-> <<>>, prev |-> <<>>, marker |-> NoMarker]
    /\ replay = [st |-> IF menu.start = <<>> THEN "none" ELSE "ready", log |-> <<>>, torn |-> FALSE]
    /\ domain = [gen |-> 0, core |-> 0]
    /\ plan = NoPlan
    /\ op = Idle
    /\ denied = 0
    /\ spent = [ops |-> 0, crashes |-> 0, faults |-> 0]

Spend(what, max) ==
    /\ spent[what] < max
    /\ spent' = [spent EXCEPT ![what] = @ + 1]

Goto(pc) == op' = [op EXCEPT !.pc = pc]

-----------------------------------------------------------------------------
(***************************************************************************)
(* The ledger's files.                                                     *)
(***************************************************************************)
Clean == files.next = <<>> /\ files.prev = <<>> /\ files.marker.st = "none"

\* reconcile_without_marker
StuckUnmarked == files.prev # <<>> \/ (files.next # <<>> /\ files.target = <<>>)

\* reconcile_with_marker: every file that is there is one the marker names, and
\* the files tell how far the replacement came.
StuckMarked ==
    LET m == files.marker
    IN  \/ files.next \notin {<<>>, m.next}
        \/ files.prev \notin {<<>>, m.prev}
        \/ files.target \notin {<<>>, m.prev, m.next}
        \/ files.target = m.next /\ files.next # <<>>
        \/ files.target # <<>> /\ files.target = m.prev /\ files.prev # <<>>
        \/ /\ files.target = <<>>
           /\ IF m.prev # <<>> THEN files.prev = <<>> ELSE files.next = <<>>

\* reconcile_wal_replacement refuses; parse_marker refuses a torn marker.
Stuck ==
    CASE files.marker.st = "none"  -> StuckUnmarked
      [] files.marker.st = "torn"  -> TRUE
      [] files.marker.st = "whole" -> StuckMarked

\* recover_missing_target puts the named ledger back.
TargetRestored ==
    IF files.marker.prev # <<>> THEN [files EXCEPT !.target = files.prev, !.prev = <<>>]
                                ELSE [files EXCEPT !.target = files.next, !.next = <<>>]

\* finish_committed_cleanup and finish_aborted_cleanup: the leftover, then the marker.
CleanedUp ==
    CASE files.prev # <<>> -> [files EXCEPT !.prev = <<>>]
      [] files.next # <<>> -> [files EXCEPT !.next = <<>>]
      [] OTHER             -> [files EXCEPT !.marker = NoMarker]

\* One file operation of the next lock holder, on what it finds.
Resolved == IF files.target = <<>> THEN TargetRestored ELSE CleanedUp

\* The ledger that the next lock holder ends up with.
Durable ==
    IF files.target # <<>> THEN files.target
    ELSE IF files.marker.st = "whole"
      THEN (IF files.marker.prev # <<>> THEN files.prev ELSE files.next)
      ELSE <<>>

\* reconcile_wal_replacement under the lock.
Reconcile ==
    /\ op.pc = "recover" /\ ~ Clean /\ ~ Stuck
    /\ files' = Resolved
    /\ UNCHANGED <<world, op, denied, spent>>

\* It reports an error, and the request fails.
ReconcileFails ==
    /\ op.pc = "recover" /\ ~ Clean
    /\ \/ Stuck /\ UNCHANGED spent
       \/ ~ Stuck /\ Spend("faults", MaxFaults)
    /\ op' = Idle
    /\ UNCHANGED <<world, files, denied>>

\* The first step of a replacement on this platform.
Replace(want, stage) ==
    op' = [op EXCEPT !.pc = IF menu.platform = "posix" THEN "swap" ELSE "write",
                     !.want = want, !.stage = stage]

\* A commit that succeeded: a request goes on after its preparations, a broker
\* action goes on to the replay WAL, everything else has been answered.
Committed ==
    IF op.stage # "final"
      THEN op' = [op EXCEPT !.pc = "recover", !.want = <<>>, !.stage = "start", !.reread = FALSE]
      ELSE op' = IF op.kind = "broker" THEN [op EXCEPT !.pc = "reserve"] ELSE Idle

DeniedAtOnce ==
    IF op.stage = "epoch" \/ op.kind = "release"
      THEN op' = Idle /\ denied' = Len(op.want)
      ELSE op' = Idle /\ UNCHANGED denied

\* A commit that failed.  reconcile_effective_epoch and release_upgrade read the
\* ledger again before they say so.
NotCommitted ==
    IF op.stage = "epoch" \/ op.kind = "release"
      THEN op' = [op EXCEPT !.pc = "recover", !.reread = TRUE] /\ UNCHANGED denied
      ELSE op' = Idle /\ UNCHANGED denied

\* atomic_replace_file on Unix: rename, then sync the directory.
Swap ==
    /\ op.pc = "swap"
    /\ files' = [files EXCEPT !.target = op.want]
    /\ Committed
    /\ UNCHANGED <<world, denied, spent>>

\* The rename failed, or it happened and the sync after it failed.
SwapFails ==
    /\ op.pc = "swap"
    /\ Spend("faults", MaxFaults)
    /\ files' \in {files, [files EXCEPT !.target = op.want]}
    /\ NotCommitted
    /\ UNCHANGED world

\* atomic_replace_file elsewhere.
WriteNext ==
    /\ op.pc = "write"
    /\ files' = [files EXCEPT !.next = op.want]
    /\ Goto("mark")
    /\ UNCHANGED <<world, denied, spent>>

WriteMarker ==
    /\ op.pc = "mark"
    /\ files' = [files EXCEPT !.marker = [st |-> "whole", prev |-> files.target, next |-> op.want]]
    /\ Goto(IF files.target = <<>> THEN "install" ELSE "retire")
    /\ UNCHANGED <<world, denied, spent>>

RetireTarget ==
    /\ op.pc = "retire"
    /\ files' = [files EXCEPT !.prev = files.target, !.target = <<>>]
    /\ Goto("install")
    /\ UNCHANGED <<world, denied, spent>>

InstallNext ==
    /\ op.pc = "install"
    /\ files' = [files EXCEPT !.target = files.next, !.next = <<>>]
    /\ Goto("sweep")
    /\ UNCHANGED <<world, denied, spent>>

SweepPrevious ==
    /\ op.pc = "sweep"
    /\ files' = [files EXCEPT !.prev = <<>>]
    /\ Goto("unmark")
    /\ UNCHANGED <<world, denied, spent>>

DropMarker ==
    /\ op.pc = "unmark"
    /\ files' = [files EXCEPT !.marker = NoMarker]
    /\ Committed
    /\ UNCHANGED <<world, denied, spent>>

\* Before the target is touched a failed write or rename undoes what was written;
\* afterwards, and when it is the sync of the step before that fails, everything is
\* left to the next lock holder.
ReplaceFails ==
    /\ op.pc \in {"write", "mark", "retire", "install", "sweep", "unmark"}
    /\ Spend("faults", MaxFaults)
    /\ files' \in CASE op.pc = "write" -> {files, [files EXCEPT !.next = op.want]}
                    [] op.pc \in {"mark", "retire"} ->
                         {files, [files EXCEPT !.next = <<>>, !.marker = NoMarker]}
                    [] OTHER -> {files}
    /\ NotCommitted
    /\ UNCHANGED world

-----------------------------------------------------------------------------
(***************************************************************************)
(* The action replay WAL.                                                  *)
(***************************************************************************)
BindingOfOrigin(L, i) == [i |-> Ev(L, i).i, packet |-> Ev(L, i).packet, at |-> i]

\* What a broker action is known by: its interaction, its packet and its record.
BindingOf(L, i) == [i |-> Ev(L, i).i, packet |-> Ev(L, i).packet, at |-> Ev(L, i).on]

Line(o, b) == [op |-> o, b |-> b]

Lines == {replay.log[n] : n \in DOMAIN replay.log}

\* begin_reservation: recovered, initialised, no other binding under either key,
\* and room for the lines that are still to be written.
ReplayAccepts(b) ==
    /\ replay.st = "ready" /\ ~ replay.torn
    /\ IF Line("commit", b) \in Lines THEN TRUE
       ELSE IF Line("reserve", b) \in Lines THEN Len(replay.log) + 1 <= MaxReplayRecords
       ELSE /\ \A l \in Lines : l.b.packet # b.packet /\ l.b.i # b.i
            /\ Len(replay.log) + 2 <= MaxReplayRecords

AppendLine(o, b, last) ==
    /\ replay' = IF Line(o, b) \in Lines THEN replay ELSE [replay EXCEPT !.log = Append(@, Line(o, b))]
    /\ op' = IF last THEN Idle ELSE [op EXCEPT !.pc = "settle"]

\* commit_after_authoritative_ledger: the reservation and its commit, once the
\* ledger holds the action.
Origins(L) == OfKind(L, {"origin"})

\* The origin record of the envelope in hand.
MyOrigin(L) == CHOOSE i \in Origins(L) : Ev(L, i).i = op.env.i /\ Ev(L, i).strict

WriteReservation ==
    /\ op.pc = "reserve"
    /\ AppendLine("reserve", BindingOf(files.target, MyOrigin(files.target)), FALSE)
    /\ UNCHANGED <<menu, files, domain, plan, denied, spent>>

WriteSettlement ==
    /\ op.pc = "settle"
    /\ AppendLine("commit", BindingOf(files.target, MyOrigin(files.target)), TRUE)
    /\ UNCHANGED <<menu, files, domain, plan, denied, spent>>

ReplayWriteFails ==
    /\ op.pc \in {"reserve", "settle"}
    /\ Spend("faults", MaxFaults)
    /\ \E torn \in BOOLEAN : replay' = [replay EXCEPT !.torn = torn]
    /\ op' = Idle
    /\ UNCHANGED <<menu, files, domain, plan, denied>>

-----------------------------------------------------------------------------
(***************************************************************************)
(* Requests.  One that has a domain lock keeps the lifecycle still.        *)
(***************************************************************************)
EpochKinds == {"initialize", "broker", "objective", "evidence", "authorised", "completion",
               "episode", "next"}

StrictEpochKinds == {"focus", "historical"}

NoDomainLock == {"coordination", "adopt"}

DomainFree == op.pc = "idle" \/ op.kind \in NoDomainLock

\* A packet of a head that is gone is refused whatever else holds, so the ones
\* worth sending are those of this head and those that were applied before.
Envelopes ==
    [i : Interactions, kind : {"action", "intent"},
     head : {Len(files.target)} \cup {Ev(files.target, n).packet[1] : n \in Origins(files.target)}]

Lock(kind) ==
    /\ op.pc = "idle" /\ kind \in menu.kinds
    /\ Spend("ops", MaxOps)
    /\ \E env \in IF kind \in {"broker", "historical"} THEN Envelopes ELSE {NoEnvelope} :
           op' = [Idle EXCEPT !.kind = kind, !.env = env,
                              !.pc = IF kind = "initialize" THEN "replay" ELSE "recover"]
    /\ denied' = 0
    /\ UNCHANGED <<world, files>>

\* ensure_initialized: the WAL first, then the manifest; one alone is an error.
InitializeReplay ==
    /\ op.pc = "replay"
    /\ replay' = IF replay.st = "none" THEN [replay EXCEPT !.st = "wal"] ELSE replay
    /\ op' = CASE replay.st = "none"  -> [op EXCEPT !.pc = "manifest"]
               [] replay.st = "wal"   -> Idle
               [] OTHER               -> [op EXCEPT !.pc = "recover"]
    /\ UNCHANGED <<menu, files, domain, plan, denied, spent>>

WriteManifest ==
    /\ op.pc = "manifest"
    /\ replay' = [replay EXCEPT !.st = "ready"]
    /\ Goto("recover")
    /\ UNCHANGED <<menu, files, domain, plan, denied, spent>>

CoreUnchecked(L) == TRUE

\* admit_effective: an active generation must be built for the active core.
CoreJoined(L) == domain.gen = 0 \/ domain.core = Core(L)

EpochCurrent(L) == CoreJoined(L) /\ Effective(L) = domain.gen

Recovered == op.pc = "recover" /\ Clean /\ ~ op.reread /\ Recovers(files.target)

\* Where a handler decides: the ledger recovered, its epoch as it must be.
Ready(kinds) ==
    /\ op.kind \in kinds
    /\ Recovered /\ files.target # <<>>
    /\ op.kind \in EpochKinds \cup StrictEpochKinds => EpochCurrent(files.target)

\* require_effective_epoch_current and every other refusal, a read, an exact retry
\* that finds its record: the request ends and nothing is written.
Return ==
    /\ op.pc = "recover" /\ Clean /\ ~ op.reread
    /\ op' = Idle
    /\ UNCHANGED <<world, files, denied, spent>>

CommitOnOldProjection(entries) ==
    LET L == files.target
        want == Prepare(IF Last(L).ev.k = "pack" THEN Front(L) ELSE L, entries)
    IN  /\ want # <<>>
        /\ Replace(want, "final")
        /\ UNCHANGED <<world, files, denied, spent>>

\* Appends a batch to the recovered ledger, in one replacement.
Commit(entries) ==
    LET want == Prepare(files.target, entries)
    IN  /\ want # <<>>
        /\ Replace(want, "final")
        /\ UNCHANGED <<world, files, denied, spent>>

Entry(sv, ev) == [sv |-> sv, ev |-> ev]

\* import on an empty ledger; the generation is admitted only after the commit, so a
\* new project is imported under any, and the request may fail behind it.
Import ==
    /\ op.kind = "initialize" /\ op.pc = "recover" /\ Clean /\ ~ op.reread
    /\ files.target = <<>>
    /\ \E profile \in {"solo", "strict"} : Replace(Genesis(profile), "import")
    /\ UNCHANGED <<world, files, denied, spent>>

PackEvent(L) ==
    [k |-> "pack", core |-> Core(L), from |-> Effective(L), gen |-> domain.gen, on |-> Len(L)]

\* reconcile_effective_epoch: the ledger follows the lifecycle before the handler
\* looks at it.
ReconcileEpoch ==
    LET L == files.target
        want == Prepare(L, <<Entry(StateVersion(L) + 1, PackEvent(L))>>)
    IN  /\ op.kind \in EpochKinds
        /\ Recovered /\ L # <<>>
        /\ CoreJoined(L) /\ Effective(L) < domain.gen
        /\ want # <<>>
        /\ Replace(want, "epoch")
        /\ UNCHANGED <<world, files, denied, spent>>

\* After a failed commit: is it there all the same?
Reread ==
    /\ op.pc = "recover" /\ Clean /\ op.reread
    /\ IF files.target = op.want THEN Committed /\ UNCHANGED denied
       ELSE op' = Idle /\ denied' = Len(op.want)
    /\ UNCHANGED <<world, files, spent>>

-----------------------------------------------------------------------------
(***************************************************************************)
(* Handlers.                                                               *)
(***************************************************************************)
\* automatic_phase_successor
Successor(phase) ==
    CASE phase = "discovery"     -> "specification"
      [] phase = "specification" -> "plan"
      [] phase = "plan"          -> "build_verify"
      [] OTHER                   -> "none"

\* plan_phase_advance: whether the phase is done is the policies' business.
PhaseAdvance(L, sv, wanted) ==
    IF wanted /\ Successor(Phase(L)) # "none"
      THEN <<Entry(sv, [k |-> "phase", from |-> Phase(L), to |-> Successor(Phase(L))])>>
      ELSE <<>>

Fact(sv, what) == Entry(sv, [k |-> what])

SamePacketOnly(o, env) == o.packet = <<env.head, env.kind>>

\* matching_broker_origin_retry looks for any coordinate, then asks for all.
SameCoordinate(o, env) == o.packet = <<env.head, env.kind>> \/ o.i = env.i

Exact(o, env) == o.strict /\ o.packet = <<env.head, env.kind>> /\ o.i = env.i

Applied(L, env) == {n \in Origins(L) : SameCoordinate(Ev(L, n), env)}

CurrentBeforeEpoch(L, env) ==
    env.head = Len(L) \/ (Last(L).ev.k = "pack" /\ env.head = Len(L) - 1)

\* The packet must be one that guidance derives from this projection.
CurrentPacket(L, env) == env.head = Len(L)

\* apply_verified_broker_action_inner: the action, its origin and perhaps a phase,
\* after the replay WAL agreed to take it.
ApplyBrokerAction ==
    LET L == files.target
        env == op.env
        sv == StateVersion(L)
        packet == <<env.head, env.kind>>
        binding == [i |-> env.i, packet |-> packet, at |-> Len(L) + 1]
    IN  /\ Ready({"broker"})
        /\ Applied(L, env) = {}
        /\ CurrentPacket(L, env)
        /\ ReplayAccepts(binding)
        /\ \E wanted \in BOOLEAN :
               Commit(<<Entry(sv, [k |-> env.kind, i |-> env.i, on |-> env.head]),
                        Entry(sv, [k |-> "origin", i |-> env.i, packet |-> packet,
                                   on |-> Len(L) + 1, strict |-> TRUE])>>
                      \o PhaseAdvance(L, sv + 1, wanted /\ env.kind = "action"))

\* ensure_broker_replay_committed, for an exact retry and for
\* recover_historically_verified_broker_action.
RepairReplay ==
    LET L == files.target
    IN  /\ Ready({"broker", "historical"})
        /\ \E n \in Applied(L, op.env) :
               /\ Exact(Ev(L, n), op.env)
               /\ ReplayAccepts(BindingOf(L, n))
        /\ Goto("reserve")
        /\ UNCHANGED <<world, files, denied, spent>>

\* accept_cooperative_objective; a material change in evolve begins again.
AcceptObjective ==
    LET L == files.target
        sv == StateVersion(L)
        last == LatestObjective(L)
        rev == IF last = 0 THEN 0 ELSE Ev(L, last).rev
    IN  /\ Ready({"objective"})
        /\ \E kind \in {"initial", "material", "clarify"} :
               Commit(<<Entry(sv, [k |-> "objective", rev |-> rev + 1, on |-> Len(L), kind |-> kind])>>
                      \o (IF kind = "material" /\ Phase(L) = "evolve"
                            THEN <<Entry(sv + 1, [k |-> "phase", from |-> "evolve", to |-> "discovery"])>>
                            ELSE <<>>))

\* observe_cooperative_evidence: a digest seen before is answered with its record.
ObserveEvidence ==
    LET L == files.target
        sv == StateVersion(L)
        Seen(d) == \E n \in OfKind(L, {"evidence"}) : Ev(L, n).digest = d
        Taken(o, d) == \E n \in OfKind(L, {"evidence"}) : Ev(L, n).offer = o /\ Ev(L, n).digest # d
        bundle == IF domain.gen # 0 THEN <<"pack", domain.gen>> ELSE <<"core", Core(L)>>
    IN  /\ Ready({"evidence"})
        /\ \E offer \in Offers \cup {"none"}, digest \in Digests,
              verdict \in {"admitted", "rejected", "conflict"}, prior, wanted \in BOOLEAN :
               /\ ~ Seen(digest)
               /\ (verdict = "conflict") <=> (offer # "none" /\ Taken(offer, digest))
               /\ offer = "none" => verdict = "rejected"
               /\ prior => verdict = "admitted" /\ AdmittedEvidence(L) # {}
               /\ wanted => verdict = "admitted"
               /\ Commit(<<Entry(sv, [k |-> "evidence", offer |-> offer, digest |-> digest,
                                      verdict |-> verdict, prior |-> prior,
                                      obj |-> LatestObjective(L), bundle |-> bundle,
                                      on |-> Len(L), at |-> sv])>>
                         \o PhaseAdvance(L, sv + 1, wanted))

\* The continuity a focus may carry.
Continuities(L) ==
    {c \in [refs : SUBSET AdmittedEvidence(L), quick : 0..2, closed : BOOLEAN, collab : BOOLEAN] :
         c.closed => c.quick # 0}

FreshFocus(L, id, c) ==
    [k |-> "focus", id |-> id, state |-> "active", prev |-> LatestFocus(L),
     obj |-> LatestObjective(L), phase |-> Phase(L), refs |-> c.refs, quick |-> c.quick,
     closed |-> c.closed, collab |-> c.collab, on |-> Len(L), at |-> StateVersion(L)]

\* start, supersede
BeginFocus ==
    LET L == files.target
        f == LatestFocus(L)
    IN  /\ Ready({"focus"})
        /\ \E id \in FocusIds, c \in Continuities(L) :
               /\ f # 0 /\ Ev(L, f).state = "active" => id # Ev(L, f).id
               /\ Commit(<<Entry(StateVersion(L), FreshFocus(L, id, c))>>)

\* checkpoint, bind references, complete: only the active focus of this objective
\* and this phase.
ContinueFocus ==
    LET L == files.target
        f == LatestFocus(L)
    IN  /\ Ready({"focus"})
        /\ f # 0 /\ Ev(L, f).state = "active"
        /\ Ev(L, f).obj = LatestObjective(L) /\ Ev(L, f).phase = Phase(L)
        /\ \E c \in Continuities(L), state \in {"active", "completed"} :
               Commit(<<Entry(StateVersion(L),
                              [FreshFocus(L, Ev(L, f).id, c) EXCEPT !.state = state])>>)

\* The signed observations.  Each was requested for this head and this state
\* version, and is one event at that version.
RecordAuthorised(what) ==
    /\ Ready({"authorised"})
    /\ Commit(<<Fact(StateVersion(files.target), what)>>)

RecordCapability == RecordAuthorised("capability")

RecordEvidence == RecordAuthorised("evaluation")

RecordDecision == RecordAuthorised("decision")

RecordWaiver == RecordAuthorised("waiver")

\* An assessment may end the phase.
RecordApplicability ==
    LET L == files.target
        sv == StateVersion(L)
    IN  /\ Ready({"authorised"})
        /\ \E wanted \in BOOLEAN :
               Commit(<<Fact(sv, "applicability")>> \o PhaseAdvance(L, sv + 1, wanted))

\* A signal opens its first episode, closes the open one or opens the next; so may
\* a signal end the phase.
RecordSignal ==
    LET L == files.target
        sv == StateVersion(L)
        i == LastOf(L, {"signal"})
        was == IF i = 0 THEN [active |-> FALSE, gen |-> 0] ELSE Ev(L, i)
        ev == [k |-> "signal", active |-> ~ was.active,
               gen |-> IF was.active THEN was.gen ELSE was.gen + 1]
    IN  /\ Ready({"authorised"})
        /\ \E wanted \in BOOLEAN : Commit(<<Entry(sv, ev)>> \o PhaseAdvance(L, sv + 1, wanted))

\* complete_workflow: the completion, perhaps a phase, then its continuity record.
CompleteWorkflow ==
    LET L == files.target
        sv == StateVersion(L) + 1
    IN  /\ Ready({"completion"})
        /\ \E wanted \in BOOLEAN :
               LET advance == PhaseAdvance(L, sv + 1, wanted)
               IN  Commit(<<Fact(sv, "completed")>> \o advance
                          \o <<Fact(sv + Len(advance), "continuity")>>)

\* apply_post_build_verify_episode
ApplyEpisode ==
    LET L == files.target
    IN  /\ Ready({"episode"})
        /\ \E route \in EpisodeRoutes :
               Commit(<<Entry(StateVersion(L) + 1,
                              [k |-> "episode", gen |-> Episode(L) + 1, subject |-> Core(L),
                               from |-> route[1], to |-> route[2], whole |-> TRUE,
                               on |-> Len(L), at |-> StateVersion(L)])>>)

ApplyCoordination ==
    LET L == files.target
    IN  /\ Ready({"coordination"})
        /\ \E status \in RequestSteps(Request(L)) \cup {"report"} :
               Commit(<<Entry(StateVersion(L) + 1,
                              [k |-> "coord", status |-> status, prior |-> Request(L),
                               on |-> Len(L), at |-> StateVersion(L)])>>)

AdoptLegacySolo ==
    LET L == files.target
    IN  /\ Ready({"adopt"})
        /\ Commit(<<Entry(StateVersion(L) + 1, [k |-> "adopt", on |-> Len(L)])>>)

\* release_upgrade: only while no generation is active.
UpgradeRelease ==
    LET L == files.target
    IN  /\ Ready({"release"})
        /\ domain.gen = 0 /\ Core(L) < MaxReleases
        /\ Commit(<<Entry(StateVersion(L) + 1,
                          [k |-> "release", from |-> Core(L), to |-> Core(L) + 1, on |-> Len(L)])>>)

\* The lifecycle has committed the generation that the plan leads to.
LifecycleIsTarget ==
    plan.st = "persisted" /\ domain.gen = plan.gen + 1 /\ domain.core = plan.core + 1

\* complete_release_rebase, called by the command and by whoever finds the plan.
CompleteRebase ==
    LET L == files.target
    IN  /\ Ready({"rebase"})
        /\ LifecycleIsTarget
        /\ Core(L) = plan.core /\ Len(L) = plan.head /\ Effective(L) = plan.gen
        /\ Commit(<<Entry(StateVersion(L) + 1,
                          [k |-> "rebase", from |-> Core(L), to |-> domain.core,
                           fromGen |-> Effective(L), gen |-> domain.gen, on |-> Len(L)])>>)

-----------------------------------------------------------------------------
(***************************************************************************)
(* The lifecycle, and the operator who rebases it.                         *)
(***************************************************************************)
\* acquire apply: the first generation is built for the core that its resolution
\* request names. Nobody looks at the workflow ledger, which may not even exist.
InstallGeneration ==
    /\ "activate" \in menu.kinds /\ DomainFree
    /\ domain.gen = 0 /\ MaxGenerations > 0
    /\ \E core \in 0..MaxReleases : domain' = [gen |-> 1, core |-> core]
    /\ UNCHANGED <<menu, files, replay, plan, op, denied, spent>>

\* An install, upgrade, removal or rollback on top of a generation, all of which
\* leave its core as it is; they do not look at the ledger either.
ChangeGeneration ==
    /\ "activate" \in menu.kinds /\ DomainFree
    /\ domain.gen \in 1..(MaxGenerations - 1)
    /\ domain' = [gen |-> domain.gen + 1, core |-> domain.core]
    /\ UNCHANGED <<menu, files, replay, plan, op, denied, spent>>

\* release_rebase_plan, under both locks, which it gives back.
DerivePlan ==
    /\ "rebase" \in menu.kinds /\ op.pc = "idle"
    /\ Clean /\ files.target # <<>>
    /\ domain.gen \in 1..(MaxGenerations - 1) /\ Core(files.target) < MaxReleases
    /\ EpochCurrent(files.target)
    /\ plan' = [st |-> "derived", head |-> Len(files.target), gen |-> domain.gen,
                core |-> Core(files.target)]
    /\ plan # plan'
    /\ UNCHANGED <<menu, files, replay, domain, op, denied, spent>>

\* persist_domain_pack_rebase_plan
PersistPlan ==
    /\ plan.st = "derived"
    /\ plan' = [plan EXCEPT !.st = "persisted"]
    /\ UNCHANGED <<menu, files, replay, domain, op, denied, spent>>

\* apply_domain_pack_core_rebase commits the generation if the lifecycle is still
\* where the plan found it; it does not look at the ledger.
CommitLifecycle ==
    /\ plan.st = "persisted" /\ DomainFree
    /\ domain = [gen |-> plan.gen, core |-> plan.core]
    /\ domain' = [gen |-> plan.gen + 1, core |-> plan.core + 1]
    /\ UNCHANGED <<menu, files, replay, plan, op, denied, spent>>

-----------------------------------------------------------------------------
(***************************************************************************)
(* A process dies.                                                         *)
(***************************************************************************)
Crash ==
    /\ op.pc # "idle"
    /\ Spend("crashes", menu.deaths)
    /\ files' \in {files} \cup
           (CASE op.pc = "mark"  -> {[files EXCEPT !.marker.st = "torn"]}
              [] op.pc = "swap"  -> {[files EXCEPT !.target = op.want]}
              [] OTHER           -> {})
    /\ replay' \in {replay} \cup
           (IF op.pc \in {"reserve", "settle"} THEN {[replay EXCEPT !.torn = TRUE]} ELSE {})
    /\ op' = Idle
    /\ plan' = IF plan.st = "derived" THEN NoPlan ELSE plan
    /\ UNCHANGED <<menu, domain, denied>>

Next ==
    \/ \E kind \in EpochKinds \cup StrictEpochKinds \cup NoDomainLock \cup {"release", "rebase"} :
           Lock(kind)
    \/ InitializeReplay \/ WriteManifest
    \/ Reconcile \/ ReconcileFails \/ Return
    \/ Import \/ ReconcileEpoch \/ Reread
    \/ ApplyBrokerAction \/ RepairReplay
    \/ AcceptObjective \/ ObserveEvidence \/ BeginFocus \/ ContinueFocus
    \/ RecordApplicability \/ RecordCapability \/ RecordEvidence \/ RecordDecision
    \/ RecordWaiver \/ RecordSignal
    \/ CompleteWorkflow \/ ApplyEpisode \/ ApplyCoordination \/ AdoptLegacySolo
    \/ UpgradeRelease \/ CompleteRebase
    \/ Swap \/ SwapFails
    \/ WriteNext \/ WriteMarker \/ RetireTarget \/ InstallNext \/ SweepPrevious \/ DropMarker
    \/ ReplaceFails
    \/ WriteReservation \/ WriteSettlement \/ ReplayWriteFails
    \/ InstallGeneration \/ ChangeGeneration \/ DerivePlan \/ PersistPlan \/ CommitLifecycle
    \/ Crash

Spec == Init /\ [][Next]_vars

-----------------------------------------------------------------------------
(***************************************************************************)
(* Properties.                                                             *)
(***************************************************************************)
\* Whatever the append side let into a batch, the recovery side reads: every
\* ledger that is durable or on its way to disk is recovered in full.
\* (push_* against recover_from_reader)
AcceptedIsRecoverable == \A L \in {Durable, op.want} : Recovers(L)

\* Nothing that happens, no crash, failure, reconciliation or retry, takes a
\* record out of the ledger or changes one: it only grows at its end.
\* (replace_wal_atomically, reconcile_replacement)
LedgerOnlyExtends == [][IsPrefix(Durable, Durable')]_vars

\* A native interaction is applied at most once, however often it is delivered,
\* signed again for another packet, or cut off by a crash.
\* (matching_broker_origin_retry)
NoActionTwice ==
    \A m, n \in Origins(Durable) :
        Ev(Durable, m).i = Ev(Durable, n).i /\ Ev(Durable, m).strict /\ Ev(Durable, n).strict => m = n

\* An action stands directly on the head that its packet was issued for: nothing,
\* not even the ledger's own epoch record, came between decision and effect.
\* (apply_verified_broker_action_inner after reconcile_effective_epoch)
DecidedOnHead ==
    \A n \in Origins(Durable) :
        Ev(Durable, n).strict => Ev(Durable, n).packet[1] = Ev(Durable, n).on - 1

\* Whatever interrupted a broker action after its commit, the replay WAL takes its
\* lines later, unless its file is damaged or full. (ensure_broker_replay_committed)
RepairIsPossible ==
    replay.st = "ready" /\ ~ replay.torn /\ Len(replay.log) + 2 <= MaxReplayRecords =>
        \A n \in Origins(Durable) : Ev(Durable, n).strict =>
            ReplayAccepts([i |-> Ev(Durable, n).i, packet |-> Ev(Durable, n).packet,
                           at |-> Ev(Durable, n).on])

\* An epoch or a release that was reported as not committed is not in the ledger.
\* (reconcile_effective_epoch and release_upgrade read it again)
FailureIsHonest == denied # 0 => Len(Durable) < denied

\* While the lifecycle is at a generation for another core than the ledger's,
\* no handler that works with the effective bundle commits anything but the
\* joined event, although the lifecycle changes between any two requests without
\* looking at the ledger. The one exception is the first record of a new project,
\* which is written before the generation is admitted.
\* (admit_effective, complete_release_rebase, import)
MixedPairNotAdmitted ==
    [][Len(Durable') > Len(Durable) /\ domain.gen # 0 /\ domain.core # Core(Durable) =>
           Durable = <<>> \/ op.kind \in NoDomainLock \cup {"rebase"}]_vars

=================================================================================
