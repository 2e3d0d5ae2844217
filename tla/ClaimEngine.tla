------------------------------ MODULE ClaimEngine ------------------------------
(***************************************************************************)
(* The pure half of the claim subsystem: what claim_engine.rs and          *)
(* conflict_detection.rs of forge-core-decisions decide, and how the claim *)
(* WAL's projection folds a lifecycle record.  A claim gives one agent     *)
(* authority over a scope and the repository paths it names, until a lease *)
(* runs out.                                                               *)
(*                                                                         *)
(* A repository path is the sequence of its parts between separators, each *)
(* part standing for its lower-cased text (DD30); "", "." and ".." keep    *)
(* their meaning.  A lease is kept as text: Unix seconds are formatted and *)
(* parsed again, and the parser takes years of four digits only.           *)
(***************************************************************************)
EXTENDS Integers, Sequences, SequencesExt

CONSTANTS
    Agents,        \* who may hold a claim
    Ids,           \* claim ids, each derived from a scope's kind and id
    Interval,      \* heartbeat_interval_seconds of every request
    LastRfc3339,   \* the last second whose year has four digits
    MaxEpoch       \* i64::MAX, the last second the engine can compute with

ASSUME ClaimClockAssumption ==
    /\ Interval \in Nat
    /\ LastRfc3339 \in Nat
    /\ MaxEpoch \in Nat
    /\ LastRfc3339 <= MaxEpoch

-----------------------------------------------------------------------------
(* Paths: conflict_detection.rs *)

NormalizePart(out, part) ==
    IF part \in {"", "."} THEN out
    ELSE IF part = ".." /\ out # <<>> /\ Last(out) # ".." THEN Front(out)
    ELSE Append(out, part)

NormalizeSegments(raw) == FoldLeft(NormalizePart, <<>>, raw)

IsExplicitRepoRoot(raw) == \A i \in DOMAIN raw : raw[i] \in {"", "."}

EscapesRepoRoot(segments) == segments # <<>> /\ Head(segments) = ".."

PathCovers(claimed, target) ==
    claimed # <<>> /\ target # <<>> /\ IsPrefix(claimed, target)

ClaimPathCovers(raw, target) ==
    /\ target # <<>>
    /\ IsExplicitRepoRoot(raw) \/ PathCovers(NormalizeSegments(raw), target)

RepoPathsOverlapMutant(left, right) ==
    LET l == NormalizeSegments(left)
        r == NormalizeSegments(right)
    IN  IsExplicitRepoRoot(left) \/ PathCovers(l, r)

RepoPathsOverlap(left, right) ==
    LET l == NormalizeSegments(left)
        r == NormalizeSegments(right)
    IN  \/ IsExplicitRepoRoot(left) /\ IsExplicitRepoRoot(right)
        \/ /\ ~EscapesRepoRoot(l) /\ ~EscapesRepoRoot(r)
           /\ \/ IsExplicitRepoRoot(left) /\ r # <<>>
              \/ IsExplicitRepoRoot(right) /\ l # <<>>
              \/ PathCovers(l, r)
              \/ PathCovers(r, l)

FirstOverlappingPath(requested, existing) ==
    \E l \in requested, r \in existing : RepoPathsOverlap(l, r)

-----------------------------------------------------------------------------
(* Claims *)

Open == {"active", "stale"}

\* No claim was ever recorded under this id.
NoClaim == [agent |-> "nobody", paths |-> {}, ttl |-> 0, beat |-> 0,
            expires |-> 0, status |-> "none"]

\* default_expiry_policy: what every acquired claim carries.
Policy == [handoff_required |-> TRUE, release_without_handoff_allowed |-> FALSE]

\* unix_to_rfc3339 followed by rfc3339_to_unix gives the second back while the
\* year has four digits; a longer text is not parsed, and a lease that cannot be
\* read counts as run out.
IsExpired(claim, now) == claim.expires > LastRfc3339 \/ now >= claim.expires

IsLive(claim, now) == claim.status \in Open /\ ~IsExpired(claim, now)

\* checked_lease_expiry fails past the signed range.
LeaseFits(now, ttl) == now + ttl <= MaxEpoch

BlocksMutant(claim, now) == IsLive(claim, now) \/ claim.status = "handoff_required"

\* The three reasons for which acquire refuses on account of one claim.
Blocks(claim, now) ==
    \/ IsLive(claim, now)
    \/ claim.status \in Open /\ IsExpired(claim, now) /\ Policy.handoff_required
    \/ claim.status = "handoff_required"

CanAcquire(table, id, req, now) ==
    /\ ~Blocks(table[id], now)
    /\ \A other \in Ids :
          FirstOverlappingPath(req.paths, table[other].paths)
             => ~Blocks(table[other], now)
    /\ LeaseFits(now, req.ttl)

Acquired(agent, req, now) ==
    [agent |-> agent, paths |-> req.paths, ttl |-> req.ttl, beat |-> now,
     expires |-> now + req.ttl, status |-> "active"]

CanHeartbeat(claim, agent, now) ==
    /\ claim.status \in Open
    /\ claim.agent = agent
    /\ ~IsExpired(claim, now)
    /\ LeaseFits(now, claim.ttl)

Heartbeaten(claim, now) ==
    [claim EXCEPT !.beat = now, !.expires = now + claim.ttl, !.status = "active"]

CanRelease(claim, agent, now) ==
    /\ claim.status \in Open
    /\ claim.agent = agent
    /\ ~(/\ IsExpired(claim, now)
         /\ Policy.handoff_required \/ ~Policy.release_without_handoff_allowed)

Released(claim) == [claim EXCEPT !.status = "released"]

CanRecordHandoff(claim, now) ==
    /\ Policy.handoff_required
    /\ \/ claim.status \in Open /\ IsExpired(claim, now)
       \/ claim.status = "handoff_required"

HandoffRecorded(claim) == [claim EXCEPT !.status = "handoff_recorded"]

HeartbeatOverdue(claim, now) == now >= claim.beat + Interval

ReconciledStatusMutant(claim, now) ==
    IF claim.status = "stale" THEN "stale"
    ELSE IF claim.status = "active" /\ IsExpired(claim, now) THEN "handoff_required"
    ELSE IF claim.status = "active" /\ HeartbeatOverdue(claim, now) THEN "stale"
    ELSE claim.status

\* The transition reconcile_claim picks for a claim, or the status it has.
ReconciledStatus(claim, now) ==
    IF claim.status \in Open /\ IsExpired(claim, now)
    THEN IF Policy.handoff_required THEN "handoff_required" ELSE "expired"
    ELSE IF claim.status = "active" /\ HeartbeatOverdue(claim, now) THEN "stale"
    ELSE claim.status

Reconciled(claim, now) == [claim EXCEPT !.status = ReconciledStatus(claim, now)]

\* What the reconcile pass will write, in the fixed order of the claim ids.
ReconcileClaims(table, now) ==
    LET due == SetToSeq({id \in Ids :
                           ReconciledStatus(table[id], now) # table[id].status})
    IN  [i \in DOMAIN due |-> [operation |-> "reconcile", id |-> due[i],
                               claim |-> Reconciled(table[due[i]], now)]]

-----------------------------------------------------------------------------
(* The write gate: check_write_against_claims and classify_target *)

Governs(claim, target, now) ==
    /\ IsLive(claim, now)
    /\ \E p \in claim.paths : ClaimPathCovers(p, target)

ClassifyTarget(table, agent, raw, now) ==
    LET target == NormalizeSegments(raw)
        ruling == {id \in Ids : Governs(table[id], target, now)}
    IN  IF EscapesRepoRoot(target) \/ ruling = {} THEN "ungoverned"
        ELSE IF \E id \in ruling : table[id].agent # agent THEN "blocked"
        ELSE "governed_by_self"

-----------------------------------------------------------------------------
(* The projection: how claim_wal.rs folds one lifecycle record *)

MatchingActiveClaim(table, rec) ==
    table[rec.id].status \in Open /\ table[rec.id].agent = rec.claim.agent

MatchingOpenClaimForHandoff(table, rec) ==
    /\ table[rec.id].status \in Open \union {"handoff_required"}
    /\ table[rec.id].agent = rec.claim.agent

\* apply_record: an acquire always wins, any other record only over the open
\* claim it was decided against.
ApplyRecord(table, rec) ==
    IF \/ rec.operation = "acquire"
       \/ rec.operation \in {"heartbeat", "release", "reconcile"}
             /\ MatchingActiveClaim(table, rec)
       \/ rec.operation = "handoff" /\ MatchingOpenClaimForHandoff(table, rec)
    THEN [table EXCEPT ![rec.id] = rec.claim]
    ELSE table

\* seed_snapshot then apply_record for every record of the readable prefix.
Project(snapshot, records) == FoldLeft(ApplyRecord, snapshot, records)
=============================================================================
