----------------------------- MODULE OutboxRow -----------------------------
(***************************************************************************)
(* One row of the outbox table `messages`, and the SQL statements of       *)
(* apps/sender/internal/outbox/statements.go as operators on that row.     *)
(*                                                                         *)
(* A statement `UPDATE messages SET ... WHERE ...` is split in two: the    *)
(* operator with the suffix Hits is its WHERE clause, the operator without *)
(* it is its SET list.  PostgreSQL serialises updates of one row, so the   *)
(* modules that use these operators take guard and effect in one step.     *)
(*                                                                         *)
(* Columns kept: status, claimed_by (by), dispatch_started_at IS NOT NULL  *)
(* (marker), attempts, ambiguous_count (amb), error_code (err, only the    *)
(* values something depends on), provider_message_id IS NOT NULL (pmid).   *)
(* Two time columns are kept as what now() makes of them:                  *)
(*   due   : next_attempt_at <= now()                                      *)
(*   lease : claim_expires_at against now(): "fresh" while it is ahead,    *)
(*           "expired" once it has passed, "stale" once it has passed by   *)
(*           one more TTL, "none" when it is NULL.                         *)
(***************************************************************************)
EXTENDS Integers

CONSTANT NoId          \* claimed_by IS NULL

Statuses == {"pending", "claimed", "sent", "failed", "skipped"}
Leases   == {"none", "fresh", "expired", "stale"}
Errs     == {"none", "ambiguous_dispatch", "suppressed", "other"}

Rows(Ids, Counts) ==
    [status : Statuses, by : Ids \cup {NoId}, lease : Leases, marker : BOOLEAN,
     attempts : Counts, amb : Counts, due : BOOLEAN, err : Errs, pmid : BOOLEAN]

\* A row as materialisation inserts it: pending and due at once.
NewRow ==
    [status |-> "pending", by |-> NoId, lease |-> "none", marker |-> FALSE,
     attempts |-> 0, amb |-> 0, due |-> TRUE, err |-> "none", pmid |-> FALSE]

-----------------------------------------------------------------------------
(* Claim and lease.                                                        *)

\* (mutant) A message that failed once is never claimed again.
ClaimHitsFirstTry(r) == r.status = "pending" /\ r.due /\ r.err = "none"

\* The message part of both claim queries; the campaign part is the caller's.
ClaimHits(r) == r.status = "pending" /\ r.due
ClaimBatch(r, id) ==
    [r EXCEPT !.status = "claimed", !.by = id, !.lease = "fresh"]

\* (mutants) Half of the guard is missing.
OwnedByAnyone(r, id)   == r.status = "claimed"
OwnedInAnyState(r, id) == r.by = id

\* status = 'claimed' AND claimed_by = $me: the guard of D1, of every D3
\* variant, of the heartbeat and of the suppression skip.
Owned(r, id) == r.status = "claimed" /\ r.by = id

Heartbeat(r) == [r EXCEPT !.lease = "fresh"]

\* Back to the queue with nothing recorded: what reaper A, the recovery pass
\* and the release of the remainder of a batch all set.
Release(r) ==
    [r EXCEPT !.status = "pending", !.by = NoId, !.lease = "none", !.due = TRUE]

\* (mutant) Reaper A ignores the marker.
ReaperReleasedHitsAll(r) == r.status = "claimed" /\ r.lease \in {"expired", "stale"}

ReaperReleasedHits(r) ==
    r.status = "claimed" /\ r.lease \in {"expired", "stale"} /\ ~r.marker
\* (mutant) The recovery pass also returns what was being sent.
RecoveryHitsAll(r, id) == Owned(r, id)

RecoveryHits(r, id) == Owned(r, id) /\ ~r.marker
ReleaseHits(r, id)  == Owned(r, id) /\ ~r.marker

\* (mutants) Reaper B does not wait for the reserve of one TTL, nor for the lease; it
\* overlooks messages that failed before.
ReaperAmbiguousHitsEarly(r) == r.status = "claimed" /\ r.marker /\ ~r.pmid
ReaperAmbiguousHitsFirst(r) ==
    r.status = "claimed" /\ r.lease = "stale" /\ r.marker /\ r.err = "none"

\* (mutants) Reaper B recognises the repetition by error_code; it takes a
\* dispatch that was started for one that succeeded.
ReaperAmbiguousByCode(r, policy) ==
    [r EXCEPT !.status = IF policy = "retry" /\ r.err # "ambiguous_dispatch"
                         THEN "pending" ELSE "failed",
              !.amb = r.amb + 1, !.err = "ambiguous_dispatch",
              !.by = NoId, !.lease = "none", !.marker = FALSE, !.due = TRUE]
ReaperAmbiguousHopeful(r, policy) ==
    [r EXCEPT !.status = IF policy = "retry" /\ r.amb = 0 THEN "pending" ELSE "sent",
              !.amb = r.amb + 1, !.by = NoId, !.lease = "none", !.marker = FALSE]

\* Reaper B: decides on a dispatch whose result was never recorded.  The
\* decision reads ambiguous_count before it is incremented.
ReaperAmbiguousHits(r) ==
    r.status = "claimed" /\ r.lease = "stale" /\ r.marker /\ ~r.pmid
ReaperAmbiguous(r, policy) ==
    [r EXCEPT !.status = IF policy = "retry" /\ r.amb = 0 THEN "pending" ELSE "failed",
              !.amb = r.amb + 1, !.err = "ambiguous_dispatch",
              !.by = NoId, !.lease = "none", !.marker = FALSE, !.due = TRUE]

-----------------------------------------------------------------------------
(* The dispatch protocol: D1 commits before the network call, D3 after it. *)

MarkDispatchStarted(r) == [r EXCEPT !.attempts = r.attempts + 1, !.marker = TRUE]

ResultSent(r) ==
    [r EXCEPT !.status = "sent", !.pmid = TRUE, !.marker = FALSE, !.err = "none"]

ResultFailed(r) ==
    [r EXCEPT !.status = "failed", !.marker = FALSE, !.err = "other"]

\* D3b. The attempt stays spent.
ResultRetry(r) ==
    [r EXCEPT !.status = "pending", !.marker = FALSE, !.by = NoId,
              !.lease = "none", !.due = FALSE, !.err = "other"]

\* (mutant) The plain decrement.
GiveBackBelowZero(n) == n - 1

\* GREATEST(attempts - 1, 0): the attempt is given back.
GiveBack(n) == IF n > 0 THEN n - 1 ELSE 0

\* D3d and D3e differ in the delay and the error code only.
ResultFatal(r) == [ResultRetry(r) EXCEPT !.attempts = GiveBack(r.attempts)]
ResultThrottled(r) == ResultFatal(r)

\* The batch suppression check turns a claimed row to skipped.  It does not
\* touch the marker.
SkipSuppressed(r) ==
    [r EXCEPT !.status = "skipped", !.err = "suppressed", !.by = NoId, !.lease = "none"]

\* The application revokes a queued row (campaigns/repo/outbox.ts); a claimed
\* row is out of its reach.
RevokeHits(r)    == r.status = "pending"
RevokePending(r) == [r EXCEPT !.status = "skipped", !.err = "suppressed"]

-----------------------------------------------------------------------------
(* The table of permitted transitions the sender carries in code.          *)

CanTransition(from, to, actor, err) ==
    \/ from = "pending" /\ to \in {"claimed", "skipped", "failed"}
    \/ from = "claimed" /\ to \in {"sent", "failed", "pending", "skipped"}
    \/ from = "failed" /\ to = "sent" /\ actor = "app" /\ err = "ambiguous_dispatch"

=============================================================================
