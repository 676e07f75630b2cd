------------------------------- MODULE Outbox -------------------------------
(***************************************************************************)
(* The dispatch protocol of apps/sender: several sender processes share    *)
(* the table `messages` and nothing else.  A process claims rows in        *)
(* batches, filters suppressed recipients, hands each message to a worker, *)
(* which commits a marker (D1), calls the provider (D2) and records the    *)
(* result (D3).  A heartbeat extends the leases of the messages in         *)
(* workers; reapers return or settle rows whose lease ran out; a process   *)
(* may crash at any point, or be told to stop and shut down in order.      *)
(*                                                                         *)
(* One action is one SQL statement, one hand-over between goroutines or    *)
(* one provider call, whichever the code cannot be interrupted inside of.  *)
(***************************************************************************)
EXTENDS OutboxRow, FiniteSets

CONSTANTS
    Msg, Proc, Id, Campaign,
    SmtpCampaign,    \* the campaigns whose provider is an SMTP server, not SES
    Gen,             \* slots for copies of one message inside one process
    IdOf,            \* SENDER_ID of each process
    CampaignOf,      \* messages.campaign_id
    NonCampaign,     \* messages of kind <> 'campaign'
    Transactional,   \* messages of kind = 'transactional'
    BatchSize,       \* LIMIT of the claims
    Concurrency,     \* workers of one stream
    MaxAttempts,     \* SENDER_MAX_ATTEMPTS
    PolicySES, PolicySMTP,   \* SENDER_AMBIGUOUS_POLICY_SES and _SMTP
    (* What the environment may do. *)
    Verdicts,        \* how a provider call may end
    Reasons,         \* how strong a suppression may come: "soft", "hard"
    CampaignMoves,   \* statuses the application may give a campaign
    Delay,           \* whose lease may run out while its job lives, see MayAge
    DbFaults,        \* a statement may fail, before or after its commit
    MaxHalts,        \* bound: crashes and stops, together
    AttemptsCap,     \* bound: D1 is not taken beyond this many attempts
    MaxCopies,       \* bound: copies of a message the provider accepts
    MaxUnbuilt       \* bound: attempts of a message given back for want of a boundary

Streams == {"campaign", "noncampaign"}

ASSUME OutboxAssumption ==
    /\ IsFiniteSet(Proc)
    /\ NoId \notin Id
    /\ IdOf \in [Proc -> Id]
    /\ CampaignOf \in [Msg -> Campaign]
    /\ SmtpCampaign \subseteq Campaign
    /\ NonCampaign \subseteq Msg /\ Transactional \subseteq NonCampaign
    /\ BatchSize \in Nat \ {0} /\ Concurrency \in Nat \ {0} /\ MaxAttempts \in Nat \ {0}
    /\ {PolicySES, PolicySMTP} \subseteq {"fail", "retry"}
    /\ Verdicts \subseteq {"ok", "lost", "retryable", "throttled", "fatal",
                           "permanent", "render", "boundary"}
    /\ Reasons \subseteq {"soft", "hard"}
    /\ CampaignMoves \subseteq {"idle", "active", "deleted"}
    /\ Delay \in {"none", "queue", "any"}
    /\ DbFaults \in BOOLEAN
    /\ MaxHalts \in Nat /\ AttemptsCap \in Nat /\ MaxCopies \in Nat
    /\ MaxUnbuilt \in Nat

VARIABLES
    row,         \* table messages
    camp,        \* campaigns.status, as far as a claim can tell
    suppressed,  \* table suppressions: what it says of the recipient
    job,         \* a claimed message inside a process
    inflight,    \* the registry app.Inflight of each process
    proc,        \* the life of each process
    halts,       \* crashes and stops so far
    accepted,    \* copies the provider accepted
    lost,        \* of those, the ones whose acceptance the sender took for a failure
    unbuilt      \* attempts that ended because no MIME boundary could be drawn

vars == <<row, camp, suppressed, job, inflight, proc, halts, accepted, lost, unbuilt>>
counts == <<accepted, lost, unbuilt>>

Stages == {"free",       \* no such job
           "batch",      \* claimed, the suppression check still to come
           "queued",     \* pushed, or being pushed, to the channel of its stream
           "picked",     \* with a worker: header, provider, rate limiter
           "releasing",  \* with a worker that gives the row back
           "marked",     \* D1 has committed
           "done",       \* the call has returned, D3 still to come
           "pausing"}    \* D3 is over, the campaign is still to be paused

Answers == {"none", "ok", "retryable", "throttled", "fatal", "permanent", "render",
            "boundary"}
Jobs == [stage : Stages, attempts : Nat, answer : Answers]
NoJob == [stage |-> "free", attempts |-> 0, answer |-> "none"]

TypeOK ==
    /\ row \in [Msg -> Rows(Id, Nat)]
    /\ camp \in [Campaign -> {"idle", "active", "deleted"}]
    /\ suppressed \in [Msg -> {"none", "soft", "hard"}]
    /\ job \in [Proc -> [Msg -> [Gen -> Jobs]]]
    /\ inflight \in [Proc -> [Msg -> {"absent", "unstarted", "started"}]]
    /\ proc \in [Proc -> {"down", "up", "stopping", "draining", "exited"}]
    /\ halts \in Nat
    /\ accepted \in [Msg -> Nat]
    /\ lost \in [Msg -> Nat]
    /\ unbuilt \in [Msg -> Nat]

Init ==
    /\ row = [m \in Msg |-> NewRow]
    /\ camp = [c \in Campaign |-> "active"]
    /\ suppressed = [m \in Msg |-> "none"]
    /\ job = [p \in Proc |-> [m \in Msg |-> [g \in Gen |-> NoJob]]]
    /\ inflight = [p \in Proc |-> [m \in Msg |-> "absent"]]
    /\ proc = [p \in Proc |-> "down"]
    /\ halts = 0
    /\ accepted = [m \in Msg |-> 0]
    /\ lost = [m \in Msg |-> 0]
    /\ unbuilt = [m \in Msg |-> 0]

-----------------------------------------------------------------------------
(* Helpers.                                                                *)

StreamOf(m) == IF m \in NonCampaign THEN "noncampaign" ELSE "campaign"
Stage(p, m, g) == job[p][m][g].stage

\* The jobs process p has in the given stages, as <<message, slot>> pairs.
JobsIn(p, s, stages) ==
    {mg \in Msg \X Gen : StreamOf(mg[1]) = s /\ Stage(p, mg[1], mg[2]) \in stages}

WithWorker == {"picked", "releasing", "marked", "done", "pausing"}

MoveJob(p, m, g, stage) == job' = [job EXCEPT ![p][m][g].stage = stage]
\* The return of process(): the deferred inflight.Done(key).
EndJob(p, m, g) ==
    /\ job' = [job EXCEPT ![p][m][g] = NoJob]
    /\ inflight' = [inflight EXCEPT ![p][m] = "absent"]
ForgetAll(p) ==
    /\ job' = [job EXCEPT ![p] = [m \in Msg |-> [g \in Gen |-> NoJob]]]
    /\ inflight' = [inflight EXCEPT ![p] = [m \in Msg |-> "absent"]]

\* An UPDATE of one row guarded by hits.  Under DbFaults the caller may see an
\* error whether or not the update took place; Store says what became of it.
Store(m, hits, new) == row' = IF hits THEN [row EXCEPT ![m] = new] ELSE row
MayStore(m, hits, new) == Store(m, hits, new) \/ (DbFaults /\ row' = row)

\* The suppression check stops the message.
Blocks(m) == suppressed[m] = "hard" \/ (suppressed[m] = "soft" /\ m \notin Transactional)

\* The reaper serves all campaigns, so two different settings mean "fail".
Policy == IF PolicySES = PolicySMTP THEN PolicySES ELSE "fail"

-----------------------------------------------------------------------------
(* Claiming.  One goroutine per stream: it claims a batch, filters it,     *)
(* pushes it to the channel of the stream and only then claims again.      *)

ClaimerIdle(p, s) ==
    /\ proc[p] = "up"
    /\ JobsIn(p, s, {"batch"}) = {}
    /\ Cardinality(JobsIn(p, s, {"queued"})) <= 2 * Concurrency

\* FOR UPDATE SKIP LOCKED with a LIMIT, and a second look at the campaign after
\* the rows were chosen: any part of the claimable rows may come back.
Claim(p, claimable) ==
    \E S \in SUBSET claimable :
        /\ S # {} /\ Cardinality(S) <= BatchSize
        /\ \E g \in [S -> Gen] :
            /\ \A m \in S : Stage(p, m, g[m]) = "free"
            /\ row' = [m \in Msg |-> IF m \in S THEN ClaimBatch(row[m], IdOf[p]) ELSE row[m]]
            /\ job' = [job EXCEPT ![p] = [m \in Msg |-> [h \in Gen |->
                         IF m \in S /\ h = g[m]
                         THEN [stage |-> "batch", attempts |-> row[m].attempts, answer |-> "none"]
                         ELSE job[p][m][h]]]]
    /\ UNCHANGED <<camp, suppressed, inflight, proc, halts, counts>>

ClaimCampaign(p, c) ==
    /\ ClaimerIdle(p, "campaign")
    /\ camp[c] = "active"
    /\ Claim(p, {m \in Msg \ NonCampaign : CampaignOf[m] = c /\ ClaimHits(row[m])})

\* The hidden campaign behind such a message may have any status.
ClaimNonCampaign(p) ==
    /\ ClaimerIdle(p, "noncampaign")
    /\ Claim(p, {m \in NonCampaign : camp[CampaignOf[m]] # "deleted" /\ ClaimHits(row[m])})

\* (mutants) Only a hard suppression stops a message; only the campaign stream is checked.
KeptUnlessHard(m) == suppressed[m] # "hard"
KeptNonCampaign(m) == m \in NonCampaign \/ ~Blocks(m)

\* What the check lets through.
Kept(m) == ~Blocks(m)

\* FilterSuppressed on the whole batch: the blocked rows become skipped, if
\* they are still this sender's, and leave the batch either way.
FilterBatch(p, s) ==
    LET batch == JobsIn(p, s, {"batch"}) IN
    /\ proc[p] = "up" /\ batch # {}
    /\ row' = [m \in Msg |->
                 IF (\E g \in Gen : <<m, g>> \in batch) /\ ~Kept(m) /\ Owned(row[m], IdOf[p])
                 THEN SkipSuppressed(row[m]) ELSE row[m]]
    /\ job' = [job EXCEPT ![p] = [m \in Msg |-> [g \in Gen |->
                 CASE <<m, g>> \notin batch -> job[p][m][g]
                   [] <<m, g>> \in batch /\ ~Kept(m) -> NoJob
                   [] OTHER -> [job[p][m][g] EXCEPT !.stage = "queued"]]]]
    /\ UNCHANGED <<camp, suppressed, inflight, proc, halts, counts>>

\* The check fails and the batch is dropped as it is; the part that belongs to
\* workspaces checked before the failure may be skipped already.
DropBatch(p, s) ==
    LET batch == JobsIn(p, s, {"batch"}) IN
    /\ batch # {}
    /\ (proc[p] = "up" /\ DbFaults) \/ proc[p] = "stopping"
    /\ \E D \in SUBSET {m \in Msg : (\E g \in Gen : <<m, g>> \in batch) /\ ~Kept(m)
                                    /\ Owned(row[m], IdOf[p])} :
          row' = [m \in Msg |-> IF m \in D THEN SkipSuppressed(row[m]) ELSE row[m]]
    /\ job' = [job EXCEPT ![p] = [m \in Msg |-> [g \in Gen |->
                 IF <<m, g>> \in batch THEN NoJob ELSE job[p][m][g]]]]
    /\ UNCHANGED <<camp, suppressed, inflight, proc, halts, counts>>

-----------------------------------------------------------------------------
(* A worker: process().                                                    *)

Pick(p, m, g) ==
    /\ proc[p] \in {"up", "stopping", "draining"}
    /\ Stage(p, m, g) = "queued"
    /\ Cardinality(JobsIn(p, StreamOf(m), WithWorker)) < Concurrency
    /\ MoveJob(p, m, g, "picked")
    /\ inflight' = [inflight EXCEPT ![p][m] = "unstarted"]
    /\ UNCHANGED <<row, camp, suppressed, proc, halts, counts>>

PauseCampaign(c) == camp' = [camp EXCEPT ![c] = IF @ = "active" THEN "idle" ELSE @]

\* The header cannot be read: the row goes back to the queue.
HeaderUnreadable(p, m, g) ==
    /\ proc[p] = "up" /\ DbFaults /\ Stage(p, m, g) = "picked"
    /\ MoveJob(p, m, g, "releasing")
    /\ UNCHANGED <<row, camp, suppressed, inflight, proc, halts, counts>>

\* The compiled template is invalid, or the campaign has no provider: the
\* campaign is paused first and the row goes back after that.
CampaignUnusable(p, m, g) ==
    /\ proc[p] = "up" /\ Stage(p, m, g) = "picked"
    /\ PauseCampaign(CampaignOf[m]) \/ (DbFaults /\ UNCHANGED camp)
    /\ MoveJob(p, m, g, "releasing")
    /\ UNCHANGED <<row, suppressed, inflight, proc, halts, counts>>

ReleaseOne(p, m, g) ==
    /\ proc[p] = "up" /\ Stage(p, m, g) = "releasing"
    /\ MayStore(m, ReleaseHits(row[m], IdOf[p]), Release(row[m]))
    /\ EndJob(p, m, g)
    /\ UNCHANGED <<camp, suppressed, proc, halts, counts>>

\* The provider is blocked or disabled, or its configuration cannot be read:
\* D3d, before any D1.  A blocked provider pauses the campaign at once, an
\* unreadable one only after CredentialsMaxRetries such messages.
ProviderUnusable(p, m, g) ==
    /\ proc[p] = "up" /\ Stage(p, m, g) = "picked"
    /\ MayStore(m, Owned(row[m], IdOf[p]), ResultFatal(row[m]))
    /\ \/ MoveJob(p, m, g, "pausing") /\ UNCHANGED inflight
       \/ EndJob(p, m, g)
    /\ UNCHANGED <<camp, suppressed, proc, halts, counts>>

\* D1.  Zero rows hit means that the claim is gone and the call is not made.
\* An error also ends the job, even if the marker was committed.
MarkStarted(p, m, g) ==
    /\ proc[p] = "up" /\ Stage(p, m, g) = "picked"
    /\ row[m].attempts < AttemptsCap
    /\ Owned(row[m], IdOf[p])
    /\ row' = [row EXCEPT ![m] = MarkDispatchStarted(row[m])]
    /\ \/ /\ MoveJob(p, m, g, "marked")
          /\ inflight' = [inflight EXCEPT ![p][m] = IF @ = "absent" THEN @ ELSE "started"]
       \/ DbFaults /\ EndJob(p, m, g)
    /\ UNCHANGED <<camp, suppressed, proc, halts, counts>>

MarkMissed(p, m, g) ==
    /\ proc[p] = "up" /\ Stage(p, m, g) = "picked"
    /\ ~Owned(row[m], IdOf[p]) \/ DbFaults
    /\ EndJob(p, m, g)
    /\ UNCHANGED <<row, camp, suppressed, proc, halts, counts>>

\* D2.  "lost": the provider accepted the message and the reply did not arrive;
\* the classifiers turn a time-out or a broken connection into Retryable.
\* "render", "boundary": the message could not be built, no call was made.
Dispatch(p, m, g) ==
    /\ proc[p] = "up" /\ Stage(p, m, g) = "marked"
    /\ \E v \in Verdicts :
        /\ v \in {"ok", "lost"} => accepted[m] < MaxCopies
        /\ v = "boundary" => unbuilt[m] < MaxUnbuilt
        /\ job' = [job EXCEPT ![p][m][g] =
                     [@ EXCEPT !.stage = "done", !.answer = IF v = "lost" THEN "retryable" ELSE v]]
        /\ accepted' = [accepted EXCEPT ![m] = IF v \in {"ok", "lost"} THEN @ + 1 ELSE @]
        /\ lost' = [lost EXCEPT ![m] = IF v = "lost" THEN @ + 1 ELSE @]
    /\ UNCHANGED <<row, camp, suppressed, inflight, proc, halts, unbuilt>>

\* (mutant) The attempt under way is not counted.
ExhaustedLate(j) == j.attempts >= MaxAttempts

Exhausted(j) == j.attempts + 1 >= MaxAttempts

\* OutcomeFor and the statement it selects.  j.attempts was read by the claim.  A message
\* without a boundary does not come to OutcomeFor: it is retried whatever its attempts.
Result(j, r) ==
    CASE j.answer = "ok" -> ResultSent(r)
      [] j.answer = "boundary" -> ResultRetry(r)
      [] j.answer = "retryable" /\ ~Exhausted(j) -> ResultRetry(r)
      [] j.answer = "throttled" -> ResultThrottled(r)
      [] j.answer = "fatal" -> ResultFatal(r)
      [] OTHER -> ResultFailed(r)

\* D3.  Zero rows hit means that the claim was lost during the call: nothing is
\* written and nothing is tried again.  A fatal error or a failed render may
\* trip the breaker, whatever became of the write.
WriteResult(p, m, g) ==
    /\ proc[p] = "up" /\ Stage(p, m, g) = "done"
    /\ MayStore(m, Owned(row[m], IdOf[p]), Result(job[p][m][g], row[m]))
    /\ \/ EndJob(p, m, g)
       \/ /\ job[p][m][g].answer \in {"fatal", "render"}
          /\ MoveJob(p, m, g, "pausing") /\ UNCHANGED inflight
    /\ unbuilt' = [unbuilt EXCEPT ![m] = IF job[p][m][g].answer = "boundary" THEN @ + 1 ELSE @]
    /\ UNCHANGED <<camp, suppressed, proc, halts, accepted, lost>>

BreakerPause(p, m, g) ==
    /\ proc[p] = "up" /\ Stage(p, m, g) = "pausing"
    /\ PauseCampaign(CampaignOf[m]) \/ (DbFaults /\ UNCHANGED camp)
    /\ EndJob(p, m, g)
    /\ UNCHANGED <<row, suppressed, proc, halts, counts>>

-----------------------------------------------------------------------------
(* The background goroutines.                                              *)

HeartbeatTick(p) ==
    /\ proc[p] \in {"up", "draining"}
    /\ row' = [m \in Msg |-> IF inflight[p][m] # "absent" /\ Owned(row[m], IdOf[p])
                             THEN Heartbeat(row[m]) ELSE row[m]]
    /\ UNCHANGED <<camp, suppressed, job, inflight, proc, halts, counts>>

ReapReleased(p) ==
    /\ proc[p] = "up"
    /\ row' = [m \in Msg |-> IF ReaperReleasedHits(row[m]) THEN Release(row[m]) ELSE row[m]]
    /\ UNCHANGED <<camp, suppressed, job, inflight, proc, halts, counts>>

ReapAmbiguous(p) ==
    /\ proc[p] = "up"
    /\ row' = [m \in Msg |-> IF ReaperAmbiguousHits(row[m])
                             THEN ReaperAmbiguous(row[m], Policy) ELSE row[m]]
    /\ UNCHANGED <<camp, suppressed, job, inflight, proc, halts, counts>>

-----------------------------------------------------------------------------
(* The life of a process.                                                  *)

\* Only rows without the marker come back at the start: the previous life of
\* this SENDER_ID is dead.  If the pass fails, the process starts anyway.
Start(p) ==
    /\ proc[p] \in {"down", "exited"}
    /\ proc' = [proc EXCEPT ![p] = "up"]
    /\ \/ row' = [m \in Msg |-> IF RecoveryHits(row[m], IdOf[p]) THEN Release(row[m]) ELSE row[m]]
       \/ DbFaults /\ row' = row
    /\ UNCHANGED <<camp, suppressed, job, inflight, halts, counts>>

Crash(p) ==
    /\ proc[p] \in {"up", "stopping", "draining"} /\ halts < MaxHalts
    /\ halts' = halts + 1
    /\ proc' = [proc EXCEPT ![p] = "down"]
    /\ ForgetAll(p)
    /\ UNCHANGED <<row, camp, suppressed, counts>>

\* SIGTERM.  The context of the workers is a child of the cancelled one, so
\* every statement and every call they still have to make fails.
Stop(p) ==
    /\ proc[p] = "up" /\ halts < MaxHalts
    /\ halts' = halts + 1
    /\ proc' = [proc EXCEPT ![p] = "stopping"]
    /\ UNCHANGED <<row, camp, suppressed, job, inflight, counts>>

\* A job of a stopping process comes to its end: the claimer gives up pushing
\* it, the limiter or a statement returns the context's error, or the call is
\* broken off, which does not undo what the provider has accepted.
Cancelled(p, m, g) ==
    /\ proc[p] \in {"stopping", "draining"}
    /\ Stage(p, m, g) \in WithWorker \cup {"queued"}
    /\ IF Stage(p, m, g) = "queued"
       THEN job' = [job EXCEPT ![p][m][g] = NoJob] /\ UNCHANGED inflight
       ELSE EndJob(p, m, g)
    /\ \/ UNCHANGED accepted
       \/ /\ Stage(p, m, g) = "marked" /\ accepted[m] < MaxCopies
          /\ accepted' = [accepted EXCEPT ![m] = @ + 1]
    /\ UNCHANGED <<row, camp, suppressed, proc, halts, lost, unbuilt>>

\* After the background goroutines have ended: the messages that are with a
\* worker and not started go back to the queue, under a context of their own.
ReleaseUnstarted(p) ==
    /\ proc[p] = "stopping"
    /\ \A s \in Streams : JobsIn(p, s, {"batch"}) = {}
    /\ \/ row' = [m \in Msg |-> IF inflight[p][m] = "unstarted" /\ ReleaseHits(row[m], IdOf[p])
                                THEN Release(row[m]) ELSE row[m]]
       \/ DbFaults /\ row' = row
    /\ proc' = [proc EXCEPT ![p] = "draining"]
    /\ UNCHANGED <<camp, suppressed, job, inflight, halts, counts>>

Exit(p) ==
    /\ proc[p] = "draining"
    /\ \A m \in Msg, g \in Gen : job[p][m][g] = NoJob
    /\ proc' = [proc EXCEPT ![p] = "exited"]
    /\ UNCHANGED <<row, camp, suppressed, job, inflight, halts, counts>>

\* The grace period is over before the workers are.
ForcedExit(p) ==
    /\ proc[p] = "draining"
    /\ \E m \in Msg, g \in Gen : job[p][m][g] # NoJob
    /\ proc' = [proc EXCEPT ![p] = "down"]
    /\ ForgetAll(p)
    /\ UNCHANGED <<row, camp, suppressed, halts, counts>>

-----------------------------------------------------------------------------
(* Time and the application.                                               *)

\* May the lease of m run out now?  "none": never while the process it belongs
\* to has a live job for it.  "queue": the heartbeat comes in time for what it
\* covers, but a message may wait in the channel, where no heartbeat covers
\* it, for longer than the lease.  "any": pauses of any length anywhere.
MayAge(m) ==
    CASE Delay = "none" ->
             \A p \in Proc, g \in Gen : IdOf[p] = row[m].by => Stage(p, m, g) \in {"free", "pausing"}
      [] Delay = "queue" -> \A p \in Proc : IdOf[p] = row[m].by => inflight[p][m] = "absent"
      [] OTHER -> TRUE

Age(m) ==
    /\ row[m].status = "claimed" /\ row[m].lease \in {"fresh", "expired"}
    /\ MayAge(m)
    /\ row' = [row EXCEPT ![m].lease = IF @ = "fresh" THEN "expired" ELSE "stale"]
    /\ UNCHANGED <<camp, suppressed, job, inflight, proc, halts, counts>>

BecomeDue(m) ==
    /\ row[m].status = "pending" /\ ~row[m].due
    /\ row' = [row EXCEPT ![m].due = TRUE]
    /\ UNCHANGED <<camp, suppressed, job, inflight, proc, halts, counts>>

CampaignStatus(c, to) ==
    /\ camp[c] # "deleted" /\ to # camp[c]
    /\ camp' = [camp EXCEPT ![c] = to]
    /\ UNCHANGED <<row, suppressed, job, inflight, proc, halts, counts>>

\* addSuppression promotes in one direction only, and revokes what is queued
\* for the contact in the same transaction, if it finds the contact.
Suppress(m, to) ==
    /\ \/ suppressed[m] = "none" /\ to \in {"soft", "hard"}
       \/ suppressed[m] = "soft" /\ to = "hard"
    /\ suppressed' = [suppressed EXCEPT ![m] = to]
    /\ \/ Store(m, RevokeHits(row[m]), RevokePending(row[m]))
       \/ UNCHANGED row
    /\ UNCHANGED <<camp, job, inflight, proc, halts, counts>>

\* A person or a confirmed sign-up lifts it again; skipped rows stay skipped.
Unsuppress(m) ==
    /\ suppressed[m] # "none"
    /\ suppressed' = [suppressed EXCEPT ![m] = "none"]
    /\ UNCHANGED <<row, camp, job, inflight, proc, halts, counts>>

\* The periodic pass over what the immediate revocation missed.
Reconcile(m) ==
    /\ suppressed[m] # "none" /\ RevokeHits(row[m])
    /\ row' = [row EXCEPT ![m] = RevokePending(row[m])]
    /\ UNCHANGED <<camp, suppressed, job, inflight, proc, halts, counts>>

\* cancelCampaign and what remains of a materialisation skip what is still pending of a
\* cancelled campaign.  The error code they write differs from a revocation's and is not
\* told apart here; neither is the batch, which is as many of these steps.
CancelPending(m) ==
    /\ m \notin NonCampaign /\ camp[CampaignOf[m]] = "idle" /\ RevokeHits(row[m])
    /\ row' = [row EXCEPT ![m] = RevokePending(row[m])]
    /\ UNCHANGED <<camp, suppressed, job, inflight, proc, halts, counts>>

-----------------------------------------------------------------------------
WorkerStep(p, m, g) ==
    \/ Pick(p, m, g) \/ HeaderUnreadable(p, m, g) \/ CampaignUnusable(p, m, g)
    \/ ReleaseOne(p, m, g) \/ ProviderUnusable(p, m, g)
    \/ MarkStarted(p, m, g) \/ MarkMissed(p, m, g) \/ Dispatch(p, m, g)
    \/ WriteResult(p, m, g) \/ BreakerPause(p, m, g) \/ Cancelled(p, m, g)

ProcessStep(p) ==
    \/ \E c \in Campaign : ClaimCampaign(p, c)
    \/ ClaimNonCampaign(p)
    \/ \E s \in Streams : FilterBatch(p, s) \/ DropBatch(p, s)
    \/ \E m \in Msg, g \in Gen : WorkerStep(p, m, g)
    \/ HeartbeatTick(p) \/ ReapReleased(p) \/ ReapAmbiguous(p)
    \/ Start(p) \/ Crash(p) \/ Stop(p)
    \/ ReleaseUnstarted(p) \/ Exit(p) \/ ForcedExit(p)

WorldStep ==
    \/ \E m \in Msg : Age(m) \/ BecomeDue(m) \/ Unsuppress(m) \/ Reconcile(m) \/ CancelPending(m)
    \/ \E m \in Msg, to \in Reasons : Suppress(m, to)
    \/ \E c \in Campaign, to \in CampaignMoves : CampaignStatus(c, to)

Next == (\E p \in Proc : ProcessStep(p)) \/ WorldStep

Spec == Init /\ [][Next]_vars

(* Properties.                                                             *)

Excused(m) == Policy = "retry" /\ row[m].amb > 0
Room(m) == 1 + lost[m] + (IF Excused(m) THEN 1 ELSE 0)

\* The provider accepts a message at most once, and once more only for each
\* acceptance that was taken for a failure (StmtResultRetry) and, under the
\* policy "retry", once for the first result that was never recorded
\* (StmtReaperAmbiguous).  No crash, restart, failed statement, lost claim or
\* late process adds a copy.
DuplicatesAccounted == \A m \in Msg : accepted[m] <= Room(m)

\* Under the policy "fail" the provider accepts a message once, and again only after a
\* time-out or a broken connection hid that it had accepted it (runtime.go, process: a
\* cancelled context may leave a message the provider took).
RepeatedOnlyUnnoticed == Policy = "fail" => \A m \in Msg : accepted[m] <= 1 + lost[m]

\* The strengthening of DuplicatesAccounted.  Calls under way are counted as
\* if accepted; a row a claim or D1 can still act on leaves room for one more.
Calling(m) == {p \in Proc : \E g \in Gen : Stage(p, m, g) = "marked"}
Refused(m) == \E p \in Proc, g \in Gen :
                 /\ IdOf[p] = row[m].by
                 /\ Stage(p, m, g) = "done" /\ job[p][m][g].answer # "ok"
Retryable(m) == \/ row[m].status = "pending"
                \/ row[m].status = "claimed" /\ (row[m].marker => Refused(m))

Accounting ==
    /\ \A m \in Msg :
          /\ accepted[m] + Cardinality(Calling(m)) + (IF Retryable(m) THEN 1 ELSE 0) <= Room(m)
          /\ row[m].status = "pending" => ~row[m].marker
    /\ \A p \in Proc, m \in Msg, g \in Gen :
          /\ Stage(p, m, g) \in {"batch", "queued", "picked", "releasing"}
          /\ Owned(row[m], IdOf[p])
          => ~row[m].marker

\* A second result that was never recorded ends the message: whatever the
\* policy, ReaperAmbiguous returns a row to the queue at most once, because it
\* tests ambiguous_count before the increment.
SecondDoubtIsFinal == \A m \in Msg : row[m].amb > 1 => row[m].status = "failed"

\* A row is 'sent' only if the provider has really accepted the message.
SentWasAccepted == \A m \in Msg : row[m].status = "sent" => accepted[m] > 0

\* At most one call for a message is under way or waiting for its D3, and
\* its row says so: claimed by that process, with the marker.
OneDispatcher ==
    \A p, q \in Proc, m \in Msg, g, h \in Gen :
        /\ Stage(p, m, g) \in {"marked", "done"}
        => /\ Owned(row[m], IdOf[p]) /\ row[m].marker
           /\ Stage(q, m, h) \in {"marked", "done"} => p = q /\ g = h

\* A message spends no more than MaxAttempts attempts, and one more for each
\* result that was never recorded and each attempt that found no MIME boundary
\* (process, which writes such a retry without OutcomeFor): give-backs (D3d, D3e), stale
\* copies of `attempts` in jobs and errors after the commit of D1 do not add to that.
AttemptsBound == \A m \in Msg : row[m].attempts <= MaxAttempts + row[m].amb + unbuilt[m]

\* Rows move along the table CanTransition and no other way: a result that
\* comes late finds a row it must not touch.
TableRespected ==
    [][\A m \in Msg : row'[m].status # row[m].status =>
         CanTransition(row[m].status, row'[m].status, "sender", row[m].err)]_vars

\* While the recipient is blocked and no job is beyond the suppression check,
\* the message is not handed to the provider, and no job gets beyond the check:
\* every way back to the queue leads through FilterSuppressed again.
BeyondCheck(m) == \E p \in Proc, g \in Gen :
                     Stage(p, m, g) \in {"queued", "picked", "marked"}
BlockedStaysUnsent ==
    [][\A m \in Msg : Blocks(m) /\ ~BeyondCheck(m) =>
         accepted'[m] = accepted[m] /\ ~BeyondCheck(m)']_vars

\* The sender implements Delivery.  Promise lets a call that outlived its claim
\* be accepted after the final word; StrictPromise does not.
promise == [m \in Msg |->
    [copies |-> accepted[m], unnoticed |-> lost[m], excused |-> Excused(m),
     fate |-> IF row[m].status \in {"pending", "claimed"} THEN "open" ELSE row[m].status]]
Promise == INSTANCE Delivery WITH MayExcuse <- (Policy = "retry"), MayBeLate <- TRUE
StrictPromise == INSTANCE Delivery WITH MayExcuse <- (Policy = "retry"), MayBeLate <- FALSE

KeepsPromise == Promise!DeliverySpec
KeepsStrictPromise == StrictPromise!DeliverySpec

\* What a campaign sees of its messages here; when its audience is complete and counted is
\* not seen here.  A campaign that is deleted or over is one that rests.
Audience(c) == {m \in Msg \ NonCampaign : CampaignOf[m] = c}
Served(c) == INSTANCE CampaignPromise WITH
    Contact <- Audience(c), PartialPercent <- 0,
    state <- IF camp[c] = "active" THEN "running" ELSE "resting",
    complete <- FALSE, early <- FALSE,
    mail <- [m \in Audience(c) |-> row[m].status]

\* To a campaign every step here is one its promise allows the sender: messages are taken only
\* while it runs, what is taken is decided or comes back, and what is decided stays
\* (StmtClaimBatch, D3a-e, reapers, recovery, release; revocations and the cleanup of a
\* cancelled campaign, campaigns/repo/outbox.ts).
Serves(c) == Served(c)!Switch \/ Served(c)!Take \/ Served(c)!Leave \/ Served(c)!Drop
ServesCampaigns == [][\A c \in Campaign : Serves(c)]_vars

-----------------------------------------------------------------------------
(* Liveness.                                                               *)

Taken(p, m) ==
    /\ (\E c \in Campaign : ClaimCampaign(p, c)) \/ ClaimNonCampaign(p)
    /\ row[m].status = "pending" /\ row'[m].status = "claimed"

\* A process that is down is started again; goroutines and tickers run; time
\* passes.  Strong fairness stands for the two queues: the channel hands jobs
\* out in order, and the claim takes the row that has been due the longest.
\* Nothing makes a crash, a stop, a suppression or a pause happen.
Fairness ==
    /\ \A p \in Proc :
         /\ WF_vars(Start(p))
         /\ WF_vars(\E s \in Streams : FilterBatch(p, s) \/ DropBatch(p, s))
         /\ WF_vars(ReapReleased(p)) /\ WF_vars(ReapAmbiguous(p))
         /\ WF_vars(ReleaseUnstarted(p)) /\ WF_vars(Exit(p) \/ ForcedExit(p))
         /\ \A m \in Msg :
              /\ SF_vars(Taken(p, m))
              /\ \A g \in Gen : WF_vars(WorkerStep(p, m, g)) /\ SF_vars(Pick(p, m, g))
    /\ \A m \in Msg : WF_vars(Age(m)) /\ WF_vars(BecomeDue(m))

FairSpec == Spec /\ Fairness

\* No row stays claimed for ever: whatever happens to its process, it is
\* settled or comes back to the queue.
ClaimedIsDecided ==
    \A m \in Msg : row[m].status = "claimed" ~> row[m].status # "claimed"

\* A queued message is taken as long as its campaign keeps being sent: neither
\* other messages nor crashes keep it waiting for ever.
PendingIsTaken ==
    \A m \in Msg : row[m].status = "pending" /\ camp[CampaignOf[m]] = "active"
                  ~> row[m].status # "pending" \/ camp[CampaignOf[m]] # "active"

-----------------------------------------------------------------------------
(* What documents and comments say, and the code does not keep.            *)

\* 04b-sender.md, AK-5.4 and 3.4.3: under "fail" no message is sent twice.  process
\* itself says when one is: a call that times out may have been accepted.
AtMostOnceUnderFail == Policy = "fail" => \A m \in Msg : accepted[m] <= 1

\* suppression.go: a marketing opt-out does not stop transactional mail.
UnsubscribeSparesTransactional ==
    [][\A m \in Transactional : row[m].status # "skipped" /\ row'[m].status = "skipped"
         => suppressed'[m] = "hard"]_vars

\* 04b-sender.md, 3.14: messages in flight are finished before a clean exit.
CleanExitFinishes ==
    \A p \in Proc, m \in Msg :
        proc[p] = "exited" => ~(Owned(row[m], IdOf[p]) /\ row[m].marker)

=============================================================================
