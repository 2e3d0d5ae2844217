---------------------------- MODULE GovernanceEvents ----------------------------
(***************************************************************************)
(* The records of the workflow governance ledger                           *)
(* (forge-core-workflow-governance-tcb), written twice as the code has     *)
(* them: what a batch may append, decided on a projection of the records   *)
(* before it, and what recovery accepts, decided by a fold over a ledger   *)
(* read from disk.  Nothing in the code makes the two agree but the care   *)
(* of its authors; a record that was appended and is not recovered makes   *)
(* the whole ledger unreadable.                                            *)
(*                                                                         *)
(* A record digest is the record's position: the code's digests chain, so  *)
(* a head digest determines the records before it.  Releases of the core   *)
(* and generations of the domain packs are numbered, 0 is the release a    *)
(* project was imported with and no generation.  There is one coordination *)
(* request and one episode.                                                *)
(***************************************************************************)
EXTENDS Integers, SequencesExt

CONSTANT MaxRecords     \* MAX_RECORDS of the ledger

ASSUME MaxRecordsAssumption == MaxRecords \in Nat \ {0}

-----------------------------------------------------------------------------
(***************************************************************************)
(* The projection of recovered records.                                    *)
(***************************************************************************)
Ev(L, i) == L[i].ev

OfKind(L, kinds) == {i \in DOMAIN L : Ev(L, i).k \in kinds}

\* The last record of these kinds, 0 when there is none.
LastOf(L, kinds) == Max({0} \cup OfKind(L, kinds))

StateVersion(L) == Last(L).sv

\* active_identity: each upgrade and each rebase moves the core release.
Core(L) ==
    LET i == LastOf(L, {"release", "rebase"}) IN IF i = 0 THEN 0 ELSE Ev(L, i).to

Released(L) == OfKind(L, {"release", "rebase"}) # {}

\* active_effective_bundle_identity
Effective(L) ==
    LET i == LastOf(L, {"pack", "rebase"}) IN IF i = 0 THEN 0 ELSE Ev(L, i).gen

\* readiness_profile: a project imported without a profile is strict until adopted.
ReadinessProfile(L) ==
    IF OfKind(L, {"adopt"}) # {} \/ Ev(L, 1).profile = "solo" THEN "solo" ELSE "strict"

\* projection_current_phase
Phase(L) ==
    LET i == Max({j \in DOMAIN L : \/ Ev(L, j).k \in {"imported", "phase"}
                                   \/ Ev(L, j).k = "episode" /\ Ev(L, j).to # "none"})
    IN  IF Ev(L, i).k = "imported" THEN "discovery" ELSE Ev(L, i).to

LatestObjective(L) == LastOf(L, {"objective"})

LatestFocus(L) == LastOf(L, {"focus"})

Episode(L) ==
    LET i == LastOf(L, {"episode"}) IN IF i = 0 THEN 0 ELSE Ev(L, i).gen

\* last_coordination_request
Request(L) ==
    LET i == Max({0} \cup {j \in OfKind(L, {"coord"}) : Ev(L, j).status # "report"})
    IN  IF i = 0 THEN "none" ELSE Ev(L, i).status

StrictSeen(L) == \E i \in OfKind(L, {"origin"}) : Ev(L, i).strict

-----------------------------------------------------------------------------
(***************************************************************************)
(* Rules that both sides apply, to arguments each finds for itself.        *)
(***************************************************************************)
ValidPhaseSource(ev, phase) == ev.from = phase

ValidRelease(ev, core, head) == ev.from = core /\ ev.to # ev.from /\ ev.on = head

ValidPack(ev, core, eff, head) ==
    ev.on = head /\ ev.core = core /\ ev.from = eff /\ ev.gen > ev.from

ValidRebase(ev, core, eff, head) ==
    ValidRelease(ev, core, head) /\ eff # 0 /\ ev.fromGen = eff /\ ev.gen > ev.fromGen

\* validate_post_build_verify_episode_event
EpisodeRoutes == {<<"build_verify", "ready_operate">>, <<"ready_operate", "evolve">>,
                  <<"ready_operate", "none">>, <<"evolve", "none">>}

ValidEpisode(ev, phase, released, core, head, sv, gen, snapshotRequired) ==
    /\ ev.on = head /\ ev.at = sv /\ ev.from = phase
    /\ released => ev.subject = core
    /\ snapshotRequired => ev.whole
    /\ ev.gen = gen + 1
    /\ <<ev.from, ev.to>> \in EpisodeRoutes

\* request_status_transition_allowed; superseded and expired end a request as
\* rejected does.
RequestSteps(from) ==
    CASE from = "none"     -> {"pending"}
      [] from = "pending"  -> {"accepted", "rejected"}
      [] from = "accepted" -> {"applied", "rejected"}
      [] OTHER             -> {}

ValidCoordination(ev, head, sv, request) ==
    /\ ev.on = head /\ ev.at = sv
    /\ \/ ev.status = "report"
       \/ ev.prior = request /\ ev.status \in RequestSteps(request)

\* validate_cooperative_objective_transition
ValidObjectiveStep(ev, rev) ==
    ev.rev = rev + 1 /\ ev.kind \in IF rev = 0 THEN {"initial"} ELSE {"material", "clarify"}

\* A reused offer id must be a rejected conflict, and a conflict needs an original.
ValidOffer(ev, original) ==
    ev.offer # "none" =>
        IF original = "none" THEN ev.verdict # "conflict"
                             ELSE ev.verdict = "conflict" /\ ev.digest # original

\* The policy bundle is the effective one, the core's when no generation is active.
BoundEvidence(ev, objective, core, eff) ==
    ev.verdict = "admitted" =>
        ev.obj = objective /\ ev.bundle = IF eff # 0 THEN <<"pack", eff>> ELSE <<"core", core>>

\* validate_work_focus_reference_bindings
AdmittedEvidence(L) == {i \in OfKind(L, {"evidence"}) : Ev(L, i).verdict = "admitted"}

\* validate_quick_cycle_transition.  quick: 0 for none, else expansions + 1.
ValidQuickCycle(was, ev) ==
    IF was.id # ev.id THEN ev.quick <= 2
    ELSE /\ (was.quick = 0) <=> (ev.quick = 0)
         /\ was.quick <= ev.quick
         /\ ev.quick # 0 /\ ev.state = "completed" => ev.closed

\* validate_work_focus_current_bindings
ValidFocus(ev, objective, phase, previous, was) ==
    /\ ev.obj = objective /\ ev.phase = phase /\ ev.prev = previous
    /\ IF previous = 0 THEN ev.state = "active"
       ELSE /\ ValidQuickCycle(was, ev)
            /\ was.state = "completed" \/ ev.id # was.id =>
                   ev.id # was.id /\ ev.state = "active"

-----------------------------------------------------------------------------
(***************************************************************************)
(* The wire schema of a record: the newest feature that the ledger uses.   *)
(***************************************************************************)
\* work_focus_wire_level
FocusLevel(ev) ==
    IF ev.k # "focus" THEN 0
    ELSE IF ev.collab THEN 4 ELSE IF ev.quick # 0 THEN 3 ELSE IF ev.refs # {} THEN 2 ELSE 1

EventFeatures(ev) ==
    CASE ev.k = "imported"  -> IF ev.profile = "none" THEN {} ELSE {"profile"}
      [] ev.k = "adopt"     -> {"adopt"}
      [] ev.k = "objective" -> IF ev.rev > 1 THEN {"objective", "revision"} ELSE {"objective"}
      [] ev.k = "evidence"  -> {"evidence"} \cup
                               IF ev.verdict = "admitted" /\ ev.prior THEN {"prior"} ELSE {}
      [] ev.k = "episode"   -> IF ev.whole THEN {"episode", "continuity"} ELSE {"episode"}
      [] ev.k = "coord"     -> {"continuity"}
      [] ev.k = "origin"    -> {f \in {"native", "strict"} : f = "native" \/ ev.strict}
      [] ev.k = "rebase"    -> {"rebase", "effective"}
      [] ev.k = "intent"    -> {"intent"}
      [] ev.k = "pack"      -> {"effective"}
      [] OTHER              -> {}

\* The first of the features in order that is there.
Newest(order, features) ==
    LET there == {i \in DOMAIN order : order[i] \in features}
    IN  IF there = {} THEN "base" ELSE order[Min(there)]

FocusSchemas == <<"focus", "bindings", "quick", "collab">>

\* ledger_wire_schema
WireOrder == <<"prior", "adopt", "evidence", "revision", "objective", "profile", "continuity",
               "episode", "strict", "native", "rebase", "intent", "effective">>

WireSchemaOfEvent(L, ev) ==
    IF FocusLevel(ev) > 0 THEN FocusSchemas[FocusLevel(ev)]
    ELSE Newest(WireOrder, EventFeatures(ev) \cup UNION {EventFeatures(Ev(L, i)) : i \in DOMAIN L})

WireSchema(L, ev) ==
    LET level == Max({FocusLevel(ev)} \cup {FocusLevel(Ev(L, i)) : i \in DOMAIN L})
    IN  IF level > 0 THEN FocusSchemas[level]
        ELSE Newest(WireOrder,
                    EventFeatures(ev) \cup UNION {EventFeatures(Ev(L, i)) : i \in DOMAIN L})

\* expected_schema: from this event and from what recovery has seen before it.
ExpectedOrder == <<"collab", "quick", "bindings", "focus", "prior", "adopt", "evidence",
                   "revision", "objective", "profile", "continuity", "episode", "strict",
                   "native", "rebase", "intent", "effective">>

IsFocus(ev) ==
    LET level == FocusLevel(ev)
    IN  {f \in {"focus", "bindings", "quick", "collab"} :
            \/ f = "focus" /\ level >= 1
            \/ f = "bindings" /\ level >= 2
            \/ f = "quick" /\ level = 3
            \/ f = "collab" /\ level = 4}

ExpectedSchema(st, ev) ==
    Newest(ExpectedOrder, IsFocus(ev) \cup EventFeatures(ev) \cup st.seen
                              \cup IF st.eff # 0 THEN {"effective"} ELSE {})

-----------------------------------------------------------------------------
(***************************************************************************)
(* Appending.                                                              *)
(***************************************************************************)
\* The first digest recorded for an offer id.
OriginalOffer(L, offer) ==
    LET those == {i \in OfKind(L, {"evidence"}) : Ev(L, i).offer = offer}
    IN  IF offer = "none" \/ those = {} THEN "none" ELSE Ev(L, Min(those)).digest

HasRoom(L) == Len(L) < MaxRecords

PushEvent(L, sv, ev) ==
    /\ sv >= StateVersion(L)
    /\ ev.k = "phase" => ValidPhaseSource(ev, Phase(L))
    /\ ev.k = "origin" => (StrictSeen(L) => ev.strict)

\* The record id is derived from the head too, so it never repeats an earlier one.
PushVerifiedBrokerAction(L, sv, ev) ==
    /\ sv >= StateVersion(L)
    /\ ev.k = "intent" => ev.on = Len(L)

PushLegacySoloAdoption(L, sv, ev) ==
    /\ Ev(L, 1).profile = "none"
    /\ ReadinessProfile(L) = "strict"
    /\ OfKind(L, {"imported", "release"}) = DOMAIN L
    /\ ev.on = Len(L) /\ sv = StateVersion(L) + 1

\* The state version of an objective is not checked here.
PushCooperativeObjective(L, sv, ev) ==
    /\ ReadinessProfile(L) = "solo"
    /\ OfKind(L, {"intent"}) = {}
    /\ ev.on = Len(L)
    /\ LET i == LatestObjective(L)
       IN  ValidObjectiveStep(ev, IF i = 0 THEN 0 ELSE Ev(L, i).rev)

\* Nor is that of an evidence record: only the one its event names.
PushCooperativeEvidence(L, sv, ev) ==
    /\ ReadinessProfile(L) = "solo"
    /\ LatestObjective(L) # 0
    /\ ev.on = Len(L) /\ ev.at = StateVersion(L)
    /\ ValidOffer(ev, OriginalOffer(L, ev.offer))
    /\ BoundEvidence(ev, LatestObjective(L), Core(L), Effective(L))

PushWorkFocus(L, sv, ev) ==
    /\ ev.refs \subseteq AdmittedEvidence(L)
    /\ ReadinessProfile(L) = "solo"
    /\ LatestObjective(L) # 0
    /\ ev.on = Len(L) /\ ev.at = StateVersion(L) /\ sv = ev.at
    /\ LET f == LatestFocus(L)
       IN  ValidFocus(ev, LatestObjective(L), Phase(L), f, IF f = 0 THEN ev ELSE Ev(L, f))

\* The transitions: first and only in their batch, at the next state version.
PushPostBuildVerifyEpisode(L, sv, ev) ==
    /\ sv = StateVersion(L) + 1
    /\ ValidEpisode(ev, Phase(L), Released(L), Core(L), Len(L), StateVersion(L), Episode(L), TRUE)

PushCoordinationState(L, sv, ev) ==
    /\ sv = StateVersion(L) + 1
    /\ ValidCoordination(ev, Len(L), StateVersion(L), Request(L))

PushReleaseTransition(L, sv, ev) ==
    /\ sv = StateVersion(L) + 1
    /\ Effective(L) = 0
    /\ ValidRelease(ev, Core(L), Len(L))

PushDomainPackTransition(L, sv, ev) ==
    /\ sv = StateVersion(L) + 1
    /\ ValidPack(ev, Core(L), Effective(L), Len(L))

PushCoreDomainPackRebase(L, sv, ev) ==
    /\ sv = StateVersion(L) + 1
    /\ ValidRebase(ev, Core(L), Effective(L), Len(L))

Transitions == {"episode", "coord", "release", "pack", "rebase"}

Admits(L, e, first) ==
    /\ HasRoom(L)
    /\ e.ev.k \in Transitions => first
    /\ CASE e.ev.k \in {"action", "intent"} -> PushVerifiedBrokerAction(L, e.sv, e.ev)
         [] e.ev.k = "adopt"     -> PushLegacySoloAdoption(L, e.sv, e.ev)
         [] e.ev.k = "objective" -> PushCooperativeObjective(L, e.sv, e.ev)
         [] e.ev.k = "evidence"  -> PushCooperativeEvidence(L, e.sv, e.ev)
         [] e.ev.k = "focus"     -> PushWorkFocus(L, e.sv, e.ev)
         [] e.ev.k = "episode"   -> PushPostBuildVerifyEpisode(L, e.sv, e.ev)
         [] e.ev.k = "coord"     -> PushCoordinationState(L, e.sv, e.ev)
         [] e.ev.k = "release"   -> PushReleaseTransition(L, e.sv, e.ev)
         [] e.ev.k = "pack"      -> PushDomainPackTransition(L, e.sv, e.ev)
         [] e.ev.k = "rebase"    -> PushCoreDomainPackRebase(L, e.sv, e.ev)
         [] OTHER                -> PushEvent(L, e.sv, e.ev)

\* build_record_line
RecordOf(L, e) == [ev |-> e.ev, sv |-> e.sv, core |-> Core(L), schema |-> WireSchema(L, e.ev)]

\* A batch prepared on L: the whole new ledger, or <<>> when an event is refused.
Prepare(L, entries) ==
    FoldLeft(LAMBDA W, e : IF W # <<>> /\ Admits(W, e, W = L)
                             THEN Append(W, RecordOf(W, e)) ELSE <<>>,
             L, entries)

Genesis(profile) ==
    LET ev == [k |-> "imported", profile |-> profile]
    IN  <<[ev |-> ev, sv |-> 0, core |-> 0, schema |-> WireSchema(<<>>, ev)]>>

-----------------------------------------------------------------------------
(***************************************************************************)
(* Recovering.                                                             *)
(***************************************************************************)
\* RecoveredIdentityState
Unread == [ok |-> TRUE, sv |-> 0, core |-> 0, released |-> FALSE, eff |-> 0,
           profile |-> "strict", legacy |-> FALSE, adopted |-> FALSE, supported |-> FALSE,
           seen |-> {}, objective |-> 0, rev |-> 0, focus |-> 0, offers |-> {},
           phase |-> "none", episode |-> 0, request |-> "none"]

RecoveredOffer(st, offer) ==
    LET those == {o \in st.offers : o[1] = offer}
    IN  IF those = {} THEN "none" ELSE (CHOOSE o \in those : TRUE)[2]

\* validate_recovered_transition_semantics
RecoveredTransition(st, ev, n, sv) ==
    CASE ev.k = "release" -> st.eff = 0 /\ sv = st.sv + 1 /\ ValidRelease(ev, st.core, n - 1)
      [] ev.k = "pack"    -> sv = st.sv + 1 /\ ValidPack(ev, st.core, st.eff, n - 1)
      [] ev.k = "rebase"  -> sv = st.sv + 1 /\ ValidRebase(ev, st.core, st.eff, n - 1)
      [] ev.k = "phase"   -> ValidPhaseSource(ev, st.phase)
      [] ev.k = "episode" -> /\ sv = st.sv + 1
                             /\ ValidEpisode(ev, st.phase, st.released, st.core, n - 1, st.sv,
                                             st.episode, FALSE)
      [] ev.k = "coord"   -> sv = st.sv + 1 /\ ValidCoordination(ev, n - 1, st.sv, st.request)
      [] OTHER            -> TRUE

\* validate_recovered_semantics, by the kind of event
RecoveredAdoption(st, ev, n, sv) ==
    /\ st.legacy /\ ~ st.adopted /\ st.supported /\ st.profile = "strict"
    /\ sv = st.sv + 1 /\ ev.on = n - 1

RecoveredObjective(st, ev, n) ==
    /\ st.profile = "solo" /\ "intent" \notin st.seen
    /\ ValidObjectiveStep(ev, st.rev) /\ ev.on = n - 1

RecoveredEvidence(st, ev, n, sv) ==
    /\ st.profile = "solo" /\ st.objective # 0
    /\ ev.on = n - 1 /\ sv = ev.at
    /\ ValidOffer(ev, RecoveredOffer(st, ev.offer))
    /\ BoundEvidence(ev, st.objective, st.core, st.eff)

\* validate_recovered_work_focus_event
RecoveredFocus(L, st, ev, n, sv) ==
    /\ st.profile = "solo" /\ st.objective # 0
    /\ ev.on = n - 1 /\ sv = ev.at
    /\ ev.refs \subseteq AdmittedEvidence(SubSeq(L, 1, n - 1))
    /\ ValidFocus(ev, st.objective, st.phase, st.focus,
                  IF st.focus = 0 THEN ev ELSE Ev(L, st.focus))

RecoveredSemantics(L, st, n) ==
    LET ev == Ev(L, n)
        sv == L[n].sv
    IN  CASE ev.k = "adopt"     -> RecoveredAdoption(st, ev, n, sv)
          [] ev.k = "objective" -> RecoveredObjective(st, ev, n)
          [] ev.k = "evidence"  -> RecoveredEvidence(st, ev, n, sv)
          [] ev.k = "focus"     -> RecoveredFocus(L, st, ev, n, sv)
          [] OTHER              -> TRUE

\* What is remembered as seen differs from what one event asks for.
SeenAfter(st, ev) ==
    st.seen \cup (EventFeatures(ev) \ {"effective"})
            \cup (IF ev.k = "adopt" THEN {"profile"} ELSE {})
            \cup (IF ev.k # "focus" THEN {}
                  ELSE {f \in {"focus", "bindings", "quick", "collab"} :
                           \/ f = "focus"
                           \/ f = "bindings" /\ ev.refs # {}
                           \/ f = "quick" /\ ev.quick # 0
                           \/ f = "collab" /\ ev.collab})

Remember(st, ev, sv, n) ==
    [st EXCEPT
        !.sv = sv,
        !.core = IF ev.k \in {"release", "rebase"} THEN ev.to ELSE @,
        !.released = @ \/ ev.k \in {"release", "rebase"},
        !.eff = IF ev.k \in {"pack", "rebase"} THEN ev.gen ELSE @,
        !.profile = IF ev.k = "adopt" THEN "solo"
                    ELSE IF ev.k = "imported" /\ ev.profile = "solo" THEN "solo" ELSE @,
        !.legacy = IF ev.k = "imported" THEN ev.profile = "none" ELSE @,
        !.adopted = @ \/ ev.k = "adopt",
        !.supported = IF ev.k = "imported" THEN ev.profile = "none"
                      ELSE @ /\ (st.adopted \/ ev.k \in {"release", "adopt"}),
        !.seen = SeenAfter(st, ev),
        !.objective = IF ev.k = "objective" THEN n ELSE @,
        !.rev = IF ev.k = "objective" THEN ev.rev ELSE @,
        !.focus = IF ev.k = "focus" THEN n ELSE @,
        !.offers = IF ev.k = "evidence" /\ ev.offer # "none" /\ RecoveredOffer(st, ev.offer) = "none"
                     THEN @ \cup {<<ev.offer, ev.digest>>} ELSE @,
        !.phase = IF ev.k = "imported" THEN "discovery"
                  ELSE IF ev.k \in {"phase", "episode"} /\ ev.to # "none" THEN ev.to ELSE @,
        !.episode = IF ev.k = "episode" THEN ev.gen ELSE @,
        !.request = IF ev.k = "coord" /\ ev.status # "report" THEN ev.status ELSE @]

\* recover_from_reader, one line
RecoverLine(L, st, n) ==
    LET ev == Ev(L, n)
        sv == L[n].sv
        ok == /\ st.ok
              /\ n <= MaxRecords
              /\ (n = 1) <=> (ev.k = "imported")
              /\ L[n].schema = ExpectedSchema(st, ev)
              /\ ev.k = "origin" /\ "strict" \in st.seen => ev.strict
              /\ L[n].core = st.core
              /\ sv >= st.sv
              /\ RecoveredTransition(st, ev, n, sv)
              /\ RecoveredSemantics(L, st, n)
    IN  IF ok THEN Remember(st, ev, sv, n) ELSE [st EXCEPT !.ok = FALSE]

Recover(L) == FoldLeft(LAMBDA st, n : RecoverLine(L, st, n), Unread, [n \in DOMAIN L |-> n])

Recovers(L) == Recover(L).ok

\* What the types of a record say of it: versions and generations are unsigned, a
\* phase event names its phase, an evidence record its digest.
Typed(r) ==
    /\ r.sv \in Nat
    /\ r.ev.k \in {"pack", "rebase"} => r.ev.gen \in Nat
    /\ r.ev.k = "phase" => r.ev.to # "none"
    /\ r.ev.k = "evidence" => r.ev.digest # "none"

AllTyped(L) == \A n \in DOMAIN L : Typed(L[n])

\* A ledger that deserialises and is recovered in full.
Readable(L) == AllTyped(L) /\ Recovers(L)

=================================================================================
