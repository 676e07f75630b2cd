------------------------------ MODULE Campaign ------------------------------
(***************************************************************************)
(* The life of one campaign in packages/core/src/campaigns: the requests   *)
(* of the API, the job campaign.materialize that writes one row of         *)
(* `messages` for every contact of the audience in batches with a          *)
(* persisted cursor, the scheduler, the watchdog that closes what has been *)
(* sent, and, as far as they touch these rows, the sender and pg-boss.     *)
(* They share the database and hold no lock from one statement to the next.*)
(*                                                                         *)
(* One action is one transaction.  Between two transactions of a request,  *)
(* a job or a cron tick anything may happen, its own crash included.       *)
(***************************************************************************)
EXTENDS Naturals, FiniteSets

CONSTANTS
    N,               \* contacts of the audience, numbered in the order of their id
    BatchSize,       \* contacts of one materialisation batch
    CleanupBatch,    \* CANCEL_CLEANUP_BATCH_SIZE
    Stamps, NoStamp, \* values of audience_built_at: seconds now() may be rounded to
    Runners,         \* executions of the job's handler that may live at once
    Users,           \* requests to the API that may be in progress at once
    RetryLimit,      \* of the queue campaign.materialize
    UndoWindow,      \* BOOLEAN: the undo window is longer than zero
    PartialPercent,  \* CAMPAIGN_PARTIAL_THRESHOLD, in per cent
    Operations,      \* requests to the API that may come
    Crons,           \* cron jobs that run
    Outcomes,        \* how the sender may settle a message
    MaxRequests,     \* bound: requests, pauses included
    MaxFaults,       \* bound: crashes, exceptions, late expirations
    MaxReturns       \* bound: claimed messages the sender returns to the queue

ASSUME CampaignAssumption ==
    /\ N \in Nat /\ BatchSize \in Nat \ {0} /\ CleanupBatch \in Nat \ {0}
    /\ NoStamp \notin Stamps /\ IsFiniteSet(Stamps)
    /\ RetryLimit \in Nat /\ UndoWindow \in BOOLEAN /\ PartialPercent \in 0..100
    /\ Operations \subseteq {"send", "resume", "undo", "cancel", "pause", "schedule",
                             "unschedule", "send-now"}
    /\ Crons \subseteq {"scheduler", "resume-on-quota", "watchdog"}
    /\ Outcomes \subseteq {"sent", "failed", "skipped"}
    /\ MaxRequests \in Nat /\ MaxFaults \in Nat /\ MaxReturns \in Nat

VARIABLES
    campaign,   \* the row of campaigns
    counters,   \* its total_count, sent_count, failed_count, skipped_count
    progress,   \* the row of campaign_audience_progress
    message,    \* the rows of messages, unique by created_at and contact
    job,        \* the job of this campaign in the queue campaign.materialize
    runner,     \* the executions of materializeHandler
    request,    \* the requests to the API
    scheduler,  \* the scheduler has listed the campaign as due
    quota,      \* resume-on-quota has listed the campaign
    watchdog,   \* the tick of the watchdog; `complete` is history: whether the audience
                \* was complete when the tick counted its messages
    quiet,      \* the last change of messages is WATCHDOG_QUIET_SECONDS old
    window,     \* undo windows opened and elapsed, each known by its number
    used        \* how much of each bound has been used

vars == <<campaign, counters, progress, message, job, runner, request,
          scheduler, quota, watchdog, quiet, window, used>>

Contacts == 1..N
Statuses == {"draft", "scheduled", "queueing", "sending", "paused", "sent",
             "partially_sent", "cancelled", "failed", "schedule_missed"}
SendableFrom == {"draft", "scheduled", "schedule_missed"}
Running == {"queueing", "sending"}
CancellableFrom == {"scheduled", "queueing", "sending", "paused", "schedule_missed"}
Final == {"sent", "partially_sent", "cancelled", "failed"}

Reasons == {"none", "other", "quota", "blocked"}   \* pause_reason.code
Times == {"none", "ahead", "due", "late"}          \* scheduled_at against now()
MessageStates == {"none", "pending", "claimed", "sent", "failed", "skipped"}
NoMessage == [status |-> "none", release |-> 0]
NoRun == [pc |-> "idle", stamp |-> NoStamp, release |-> 0, cursor |-> 0, last |-> FALSE]
NoRequest == [pc |-> "idle", status |-> "draft", reason |-> "none"]
NoTick == [pc |-> "idle", verdict |-> "sent", complete |-> FALSE]

TypeOK ==
    /\ campaign \in [status : Statuses, stamp : Stamps \cup {NoStamp},
                     release : Nat, reason : Reasons, at : Times]
    /\ counters \in [total : Nat, sent : Nat, failed : Nat, skipped : Nat]
    /\ progress \in [phase : {"none", "materializing", "done"}, cursor : 0..N]
    /\ message \in [Stamps -> [Contacts -> [status : MessageStates, release : Nat]]]
    /\ job \in [state : {"none", "waiting", "active"}, tries : 0..RetryLimit]
    /\ runner \in [Runners -> [pc : {"idle", "start", "decide", "load", "batch", "advance",
                                     "check", "cleanup", "timeout", "finish", "done"},
                               stamp : Stamps \cup {NoStamp}, release : Nat,
                               cursor : 0..N, last : BOOLEAN]]
    /\ request \in [Users -> [pc : {"idle", "send", "claimed", "unsend", "resume",
                                    "resumed", "unresume", "undo", "clean", "send-now"},
                              status : Statuses, reason : Reasons]]
    /\ scheduler \in BOOLEAN /\ quota \in BOOLEAN /\ quiet \in BOOLEAN
    /\ watchdog \in [pc : {"idle", "reconcile", "drain", "count", "close"},
                     verdict : {"sent", "partially_sent", "failed"}, complete : BOOLEAN]
    /\ window \in [opened : Nat, elapsed : Nat]
    /\ window.elapsed <= window.opened /\ campaign.release <= window.opened
    /\ used \in [requests : 0..MaxRequests, faults : 0..MaxFaults, returns : 0..MaxReturns]

Init ==
    /\ campaign = [status |-> "draft", stamp |-> NoStamp, release |-> 0,
                   reason |-> "none", at |-> "none"]
    /\ counters = [total |-> 0, sent |-> 0, failed |-> 0, skipped |-> 0]
    /\ progress = [phase |-> "none", cursor |-> 0]
    /\ message = [s \in Stamps |-> [c \in Contacts |-> NoMessage]]
    /\ job = [state |-> "none", tries |-> 0]
    /\ runner = [r \in Runners |-> NoRun]
    /\ request = [u \in Users |-> NoRequest]
    /\ scheduler = FALSE /\ quota = FALSE
    /\ watchdog = NoTick
    /\ quiet = TRUE
    /\ window = [opened |-> 0, elapsed |-> 0]
    /\ used = [requests |-> 0, faults |-> 0, returns |-> 0]

-----------------------------------------------------------------------------
(* What several actions share. *)

\* transitionStatus: one UPDATE, conditional on the status the row has now.
Moved(from, to) ==
    IF campaign.status \in from THEN [campaign EXCEPT !.status = to] ELSE campaign

\* (mutant) The stamp is taken anew with every claim.
ClaimedAnew(now) == [campaign EXCEPT !.status = "queueing", !.stamp = now]

\* The claiming UPDATE of startMaterialization: the stamp is kept for ever, the
\* window only while it runs.
Claimed(now) ==
    [campaign EXCEPT
        !.status = "queueing",
        !.stamp = IF @ = NoStamp THEN now ELSE @,
        !.release = IF ~UndoWindow THEN 0
                    ELSE IF @ > window.elapsed THEN @ ELSE window.opened + 1]

\* started_at = COALESCE(started_at, now()), which the watchdog takes for the last
\* change of a campaign without messages.
StartMaterialization ==
    /\ campaign.status \in SendableFrom
    /\ \E now \in Stamps : campaign' = Claimed(now)
    /\ window' = [window EXCEPT !.opened = IF campaign'.release > @ THEN campaign'.release ELSE @]
    /\ quiet' = (quiet /\ campaign.stamp # NoStamp)

\* INSERT INTO campaign_audience_progress ... ON CONFLICT DO NOTHING
Progressed == IF progress.phase = "none" THEN [progress EXCEPT !.phase = "materializing"]
              ELSE progress

Paused(reason) == [campaign EXCEPT !.status = "paused", !.reason = reason]

Resumed == [campaign EXCEPT
                !.status = IF progress.phase = "materializing" THEN "queueing" ELSE "sending",
                !.reason = "none"]

\* The queue's policy is 'exclusive': a job is added only if none waits or runs.
Enqueue == job' = IF job.state = "none" THEN [state |-> "waiting", tries |-> RetryLimit] ELSE job

\* What pg-boss does with an active job whose handler threw or whose time is up.
Retried == IF job.tries = 0 THEN [job EXCEPT !.state = "none"]
           ELSE [state |-> "waiting", tries |-> job.tries - 1]

In(stamp, statuses) == {c \in Contacts : message[stamp][c].status \in statuses}

Count(statuses) ==
    Cardinality({p \in Stamps \X Contacts : message[p[1]][p[2]].status \in statuses})

Tally == [total |-> Count(MessageStates \ {"none"}), sent |-> Count({"sent"}),
          failed |-> Count({"failed"}), skipped |-> Count({"skipped"})]

\* One call of cancelPendingBatch; the caller repeats it until it returns zero.
CancelPendingBatch(stamp) ==
    LET pending == In(stamp, {"pending"}) IN
    \E batch \in SUBSET pending :
        /\ Cardinality(batch) = IF Cardinality(pending) < CleanupBatch THEN Cardinality(pending)
                                ELSE CleanupBatch
        /\ message' = [message EXCEPT ![stamp] = [c \in Contacts |->
                IF c \in batch THEN [status |-> "skipped", release |-> 0] ELSE @[c]]]
        /\ quiet' = (quiet /\ batch = {})

Spend(bound, limit) == used[bound] < limit /\ used' = [used EXCEPT ![bound] = @ + 1]
SpendRequest(operation) == operation \in Operations /\ Spend("requests", MaxRequests)
SpendFault == Spend("faults", MaxFaults)

-----------------------------------------------------------------------------
(* The API.  A request that reads the campaign, decides and then writes   *)
(* keeps in request[u] what it read and will use.                          *)

world == <<progress, message, job, runner, scheduler, quota, watchdog, quiet, window, counters>>

Load(u, pc) ==
    /\ request[u].pc = "idle" /\ SpendRequest(pc)
    /\ request' = [request EXCEPT ![u] =
            [pc |-> pc, status |-> IF pc = "send" THEN campaign.status ELSE "draft",
             reason |-> IF pc = "resume" THEN campaign.reason ELSE "none"]]
    /\ UNCHANGED <<campaign, world>>

Answer(u) == request' = [request EXCEPT ![u] = NoRequest]
Continue(u, pc) == request' = [request EXCEPT ![u].pc = pc]

LoadToSend(u) == Load(u, "send")
LoadToResume(u) == campaign.reason # "blocked" /\ Load(u, "resume")
LoadToUndo(u) == /\ counters.sent = 0 /\ campaign.release > window.elapsed
                 /\ Load(u, "undo")
LoadToSendNow(u) == campaign.status \in Running /\ Load(u, "send-now")

Send(u) ==
    /\ request[u].pc = "send"
    /\ progress' = Progressed
    /\ \/ StartMaterialization /\ Continue(u, "claimed")
       \/ /\ campaign.status \notin SendableFrom
          /\ Answer(u)
          /\ UNCHANGED <<campaign, window, quiet>>
    /\ UNCHANGED <<message, job, runner, scheduler, quota, watchdog, counters, used>>

Resume(u) ==
    /\ request[u].pc = "resume"
    /\ \/ /\ campaign.status = "paused"
          /\ campaign' = Resumed
          /\ IF Resumed.status = "queueing" THEN Continue(u, "resumed") ELSE Answer(u)
       \/ campaign.status # "paused" /\ Answer(u) /\ UNCHANGED campaign
    /\ UNCHANGED <<world, used>>

\* enqueueInWorkspace with onMerged 'fail'.
EnqueueOfRequest(u) ==
    /\ request[u].pc \in {"claimed", "resumed"} /\ job.state = "none"
    /\ Enqueue
    /\ Answer(u)
    /\ UNCHANGED <<campaign, progress, message, runner, scheduler, quota, watchdog, quiet,
                   window, counters, used>>

EnqueueFails(u) ==
    /\ request[u].pc \in {"claimed", "resumed"}
    /\ \/ job.state # "none" /\ UNCHANGED used
       \/ SpendFault
    /\ Continue(u, IF request[u].pc = "claimed" THEN "unsend" ELSE "unresume")
    /\ UNCHANGED <<campaign, world>>

\* (mutant) The rollback does not ask for the status it rolls back.
UnsendAlways(u) ==
    /\ request[u].pc = "unsend"
    /\ campaign' = [campaign EXCEPT !.status = request[u].status]
    /\ Answer(u)
    /\ UNCHANGED <<world, used>>

\* The status goes back to the one the request had loaded.
Unsend(u) ==
    /\ request[u].pc = "unsend"
    /\ campaign' = Moved({"queueing"}, request[u].status)
    /\ Answer(u)
    /\ UNCHANGED <<world, used>>

Unresume(u) ==
    /\ request[u].pc = "unresume"
    /\ campaign' = IF campaign.status = "queueing" THEN Paused(request[u].reason) ELSE campaign
    /\ Answer(u)
    /\ UNCHANGED <<world, used>>

\* cancelCampaign: first the status, then the pending messages, batch by batch.
Cancel(u) ==
    /\ \/ request[u].pc = "idle" /\ SpendRequest("cancel")
       \/ request[u].pc = "undo" /\ UNCHANGED used
    /\ \/ /\ campaign.status \in CancellableFrom
          /\ campaign' = [campaign EXCEPT !.status = "cancelled"]
          /\ IF campaign.stamp # NoStamp THEN Continue(u, "clean") ELSE Answer(u)
       \/ /\ campaign.status \notin CancellableFrom
          /\ request[u].pc = "undo" /\ Answer(u)
          /\ UNCHANGED campaign
    /\ UNCHANGED world

Clean(u) ==
    /\ request[u].pc = "clean"
    /\ CancelPendingBatch(campaign.stamp)
    /\ IF In(campaign.stamp, {"pending"}) = {} THEN Answer(u) ELSE UNCHANGED request
    /\ UNCHANGED <<campaign, progress, job, runner, scheduler, quota, watchdog, window,
                   counters, used>>

\* releaseCampaignNow; a run that has read release_at before keeps using it, and the
\* messages are released even if the campaign no longer runs.
SendNow(u) ==
    /\ request[u].pc = "send-now"
    /\ campaign' = IF campaign.status \in Running /\ campaign.release > window.elapsed
                   THEN [campaign EXCEPT !.release = 0] ELSE campaign
    /\ message' = [s \in Stamps |-> [c \in Contacts |->
            IF message[s][c].status = "pending" /\ message[s][c].release > window.elapsed
            THEN [message[s][c] EXCEPT !.release = 0] ELSE message[s][c]]]
    /\ quiet' = (quiet /\ message' = message)
    /\ Answer(u)
    /\ UNCHANGED <<progress, job, runner, scheduler, quota, watchdog, window, counters, used>>

\* Requests, and pauses by the sender or the application, of one statement.
Pause ==
    /\ campaign.status \in Running /\ SpendRequest("pause")
    /\ \E reason \in Reasons \ {"none"} : campaign' = Paused(reason)
    /\ UNCHANGED <<world, request>>

Schedule ==
    /\ campaign.status \in {"draft", "schedule_missed"} /\ SpendRequest("schedule")
    /\ campaign' = [campaign EXCEPT !.status = "scheduled", !.at = "ahead"]
    /\ UNCHANGED <<world, request>>

Unschedule ==
    /\ campaign.status = "scheduled" /\ SpendRequest("unschedule")
    /\ campaign' = [campaign EXCEPT !.status = "draft", !.at = "none"]
    /\ UNCHANGED <<world, request>>

-----------------------------------------------------------------------------
(* The job campaign.materialize: materializeHandler and runMaterializeLoop. *)

outside == <<request, scheduler, quota, watchdog, counters>>
Go(r, pc) == runner' = [runner EXCEPT ![r] = IF pc = "done" THEN [NoRun EXCEPT !.pc = pc]
                                             ELSE [@ EXCEPT !.pc = pc]]

\* From here on the run works with what it has read of the campaign.
Begin(r, pc, row) ==
    runner' = [runner EXCEPT ![r] =
                [@ EXCEPT !.pc = pc, !.stamp = row.stamp, !.release = row.release]]

JobStarts(r) ==
    /\ job.state = "waiting" /\ runner[r].pc = "idle"
    /\ job' = [job EXCEPT !.state = "active"]
    /\ Go(r, "start")
    /\ UNCHANGED <<campaign, progress, message, quiet, window, used, outside>>

Start(r) ==
    /\ runner[r].pc = "start"
    /\ progress' = Progressed
    /\ \/ /\ StartMaterialization
          /\ Begin(r, "load", campaign')
       \/ /\ campaign.status \notin SendableFrom
          /\ IF campaign.stamp = NoStamp THEN Go(r, "done") ELSE Begin(r, "decide", campaign)
          /\ UNCHANGED <<campaign, window, quiet>>
    /\ UNCHANGED <<message, job, used, outside>>

\* decideAfterFailedClaim: a second run carries on only in these two statuses.
Decide(r) ==
    /\ runner[r].pc = "decide"
    /\ Go(r, IF campaign.status \in Running THEN "load" ELSE "done")
    /\ UNCHANGED <<campaign, progress, message, job, quiet, window, used, outside>>

LoadProgress(r) ==
    /\ runner[r].pc = "load"
    /\ runner' = [runner EXCEPT ![r] = [@ EXCEPT !.pc = "batch", !.cursor = progress.cursor]]
    /\ UNCHANGED <<campaign, progress, message, job, quiet, window, used, outside>>

\* renderPlan throws.  Every run loads the plan, also one that continues a campaign whose
\* audience is done, and whatever is thrown, a lost connection too, fails the campaign.
NotCompiled(r) ==
    /\ runner[r].pc = "load"
    /\ campaign' = Moved(Running, "failed")
    /\ Go(r, "done")
    /\ UNCHANGED <<progress, message, job, quiet, window, used, outside>>

\* (mutant) The end of a batch is computed, not read from its last row.
EndOfComputed(r) == runner[r].cursor + BatchSize

BatchOf(r) == {c \in Contacts : runner[r].cursor < c /\ c <= runner[r].cursor + BatchSize}
EndOf(r) == IF runner[r].cursor + BatchSize < N THEN runner[r].cursor + BatchSize ELSE N

\* materializeBatch: every contact of the batch gets a row, some are skipped at once
\* (trial mode, oversized data); a row that exists already is left alone.
Batch(r) ==
    /\ runner[r].pc = "batch"
    /\ \E skipped \in SUBSET BatchOf(r) :
        message' = [message EXCEPT ![runner[r].stamp] = [c \in Contacts |->
            IF c \notin BatchOf(r) \/ @[c].status # "none" THEN @[c]
            ELSE IF c \in skipped THEN [status |-> "skipped", release |-> 0]
            ELSE [status |-> "pending", release |-> runner[r].release]]]
    /\ quiet' = (quiet /\ message' = message)
    /\ runner' = [runner EXCEPT ![r] =
            [@ EXCEPT !.pc = IF BatchOf(r) = {} THEN "check" ELSE "advance",
                      !.cursor = EndOf(r), !.last = BatchOf(r) = {}]]
    /\ UNCHANGED <<campaign, progress, job, window, used, outside>>

\* (mutant) The cursor is written ahead, for the batch that comes next.
AdvanceCursorAhead(r) ==
    /\ runner[r].pc = "advance"
    /\ progress' = [progress EXCEPT !.cursor = EndOf(r)]
    /\ Go(r, "check")
    /\ UNCHANGED <<campaign, message, job, quiet, window, used, outside>>

AdvanceCursor(r) ==
    /\ runner[r].pc = "advance"
    /\ progress' = [progress EXCEPT !.cursor = runner[r].cursor]
    /\ Go(r, "check")
    /\ UNCHANGED <<campaign, message, job, quiet, window, used, outside>>

\* (mutant) A cancelled campaign is treated like any other that no longer runs.
CheckStops(r) ==
    /\ runner[r].pc = "check"
    /\ \/ campaign.status \notin Running /\ Go(r, "done")
       \/ campaign.status \in Running
          /\ IF runner[r].last THEN Go(r, "finish") ELSE Go(r, "batch")
    /\ UNCHANGED <<campaign, progress, message, job, quiet, window, used, outside>>

\* readStatus after every batch, then the deadline.
Check(r) ==
    /\ runner[r].pc = "check"
    /\ \/ campaign.status = "cancelled" /\ Go(r, "cleanup")
       \/ campaign.status \notin Running \cup {"cancelled"} /\ Go(r, "done")
       \/ /\ campaign.status \in Running
          /\ IF runner[r].last THEN Go(r, "finish")
             ELSE Go(r, "batch") \/ Go(r, "timeout")
    /\ UNCHANGED <<campaign, progress, message, job, quiet, window, used, outside>>

Cleanup(r) ==
    /\ runner[r].pc = "cleanup"
    /\ CancelPendingBatch(runner[r].stamp)
    /\ Go(r, IF In(runner[r].stamp, {"pending"}) = {} THEN "done" ELSE "cleanup")
    /\ UNCHANGED <<campaign, progress, job, window, used, outside>>

Timeout(r) ==
    /\ runner[r].pc = "timeout"
    /\ campaign' = IF campaign.status \in Running THEN Paused("other") ELSE campaign
    /\ Go(r, "done")
    /\ UNCHANGED <<progress, message, job, quiet, window, used, outside>>

\* finishMaterialization
Finish(r) ==
    /\ runner[r].pc = "finish"
    /\ IF campaign.status = "queueing"
       THEN /\ campaign' = [campaign EXCEPT !.status = "sending"]
            /\ counters' = [counters EXCEPT !.total =
                                Cardinality(In(runner[r].stamp, MessageStates \ {"none"}))]
            /\ progress' = [progress EXCEPT !.phase = "done"]
       ELSE UNCHANGED <<campaign, counters, progress>>
    /\ Go(r, "done")
    /\ UNCHANGED <<message, job, quiet, window, used, request, scheduler, quota, watchdog>>

\* The handler has returned; pg-boss completes the job only while it is active.
JobEnds(r) ==
    /\ runner[r].pc = "done"
    /\ runner' = [runner EXCEPT ![r] = NoRun]
    /\ job' = IF job.state = "active" THEN [job EXCEPT !.state = "none"] ELSE job
    /\ UNCHANGED <<campaign, progress, message, quiet, window, used, outside>>

\* A statement failed and the handler threw.
RunThrows(r) ==
    /\ runner[r].pc # "idle" /\ SpendFault
    /\ runner' = [runner EXCEPT ![r] = NoRun]
    /\ job' = IF job.state = "active" THEN Retried ELSE job
    /\ UNCHANGED <<campaign, progress, message, quiet, window, outside>>

\* expire_seconds have passed: the worker crashed, or its handler is still busy.
JobExpires ==
    /\ job.state = "active"
    /\ IF \A r \in Runners : runner[r].pc = "idle" THEN UNCHANGED used ELSE SpendFault
    /\ job' = Retried
    /\ UNCHANGED <<campaign, progress, message, runner, quiet, window, outside>>

-----------------------------------------------------------------------------
(* The cron jobs. *)

elsewhere == <<campaign, counters, progress, message, runner, request, quiet, window>>

MarkMissed ==
    /\ "scheduler" \in Crons
    /\ campaign.status = "scheduled" /\ campaign.at = "late"
    /\ campaign' = [campaign EXCEPT !.status = "schedule_missed"]
    /\ UNCHANGED <<counters, progress, message, job, runner, request, scheduler, quota,
                   watchdog, quiet, window, used>>

ClaimDue ==
    /\ "scheduler" \in Crons
    /\ campaign.status = "scheduled" /\ campaign.at = "due"
    /\ scheduler' = TRUE
    /\ UNCHANGED <<elsewhere, job, quota, watchdog, used>>

\* onMerged 'drop': a job that waits or runs already will do.
SendMaterialize ==
    /\ scheduler
    /\ Enqueue
    /\ scheduler' = FALSE
    /\ UNCHANGED <<elsewhere, quota, watchdog, used>>

ListPaused ==
    /\ "resume-on-quota" \in Crons
    /\ campaign.status = "paused" /\ campaign.reason = "quota"
    /\ quota' = TRUE
    /\ UNCHANGED <<elsewhere, job, scheduler, watchdog, used>>

\* resumeOnQuotaHandler calls resumeCampaign and enqueues nothing.
ResumeOnQuota ==
    /\ quota
    /\ quota' = FALSE
    /\ campaign' = IF campaign.status = "paused" THEN Resumed ELSE campaign
    /\ UNCHANGED <<counters, progress, message, job, runner, request, scheduler, watchdog,
                   quiet, window, used>>

cron == <<progress, message, job, runner, request, scheduler, quota, window, used>>
Tick(pc) == watchdog' = [watchdog EXCEPT !.pc = pc]

ListRunning ==
    /\ "watchdog" \in Crons
    /\ watchdog.pc = "idle" /\ campaign.status \in Running
    /\ Tick("reconcile")
    /\ UNCHANGED <<campaign, counters, quiet, cron>>

\* (mutant) The recount itself counts as the last change, as it once did.
ReconcileTouches ==
    /\ watchdog.pc = "reconcile"
    /\ counters' = Tally
    /\ watchdog' = [watchdog EXCEPT !.pc = "drain", !.complete = progress.phase = "done"]
    /\ quiet' = FALSE
    /\ UNCHANGED <<campaign, cron>>

ReconcileHandover ==
    /\ watchdog.pc = "reconcile"
    /\ counters' = Tally
    /\ watchdog' = [watchdog EXCEPT !.pc = "drain", !.complete = progress.phase = "done"]
    /\ UNCHANGED <<campaign, quiet, cron>>

\* (mutant) A message in the sender's hands is taken for decided.
DrainedOfPending == In(campaign.stamp, {"pending"}) = {}

Drained == In(campaign.stamp, {"pending", "claimed"}) = {}

IsDrained ==
    /\ watchdog.pc = "drain"
    /\ watchdog' = IF Drained THEN [watchdog EXCEPT !.pc = "count"] ELSE NoTick
    /\ UNCHANGED <<campaign, counters, quiet, cron>>

ClosingStatus(count) ==
    LET notDelivered == count.failed + count.skipped IN
    IF count.total = 0 \/ notDelivered = count.total THEN "failed"
    ELSE IF 100 * notDelivered > PartialPercent * count.total THEN "partially_sent"
    ELSE "sent"

\* (mutant) A drained campaign is closed at once.
QuietIgnored == TRUE

\* quietFor < WATCHDOG_QUIET_SECONDS puts the closing off to a later tick.
QuietLongEnough == quiet

ReadCounters ==
    /\ watchdog.pc = "count"
    /\ watchdog' = IF QuietLongEnough
                   THEN [watchdog EXCEPT !.pc = "close", !.verdict = ClosingStatus(counters)]
                   ELSE NoTick
    /\ UNCHANGED <<campaign, counters, quiet, cron>>

Close ==
    /\ watchdog.pc = "close"
    /\ campaign' = Moved(Running, watchdog.verdict)
    /\ watchdog' = NoTick
    /\ UNCHANGED <<counters, quiet, cron>>

\* The worker process dies with everything its cron jobs held.
WorkerCrashes ==
    /\ SpendFault
    /\ runner' = [r \in Runners |-> NoRun]
    /\ scheduler' = FALSE /\ quota' = FALSE /\ watchdog' = NoTick
    /\ UNCHANGED <<campaign, counters, progress, message, job, request, quiet, window>>

ApiCrashes ==
    /\ SpendFault
    /\ request' = [u \in Users |-> NoRequest]
    /\ UNCHANGED <<campaign, world>>

-----------------------------------------------------------------------------
(* The sender and everyone else who settles a message, as far as this      *)
(* module can tell, and time.                                              *)

database == <<campaign, counters, progress, job, runner, request, scheduler, quota, watchdog>>

Becomes(s, c, status) ==
    /\ message' = [message EXCEPT ![s][c] = [status |-> status, release |-> 0]]
    /\ quiet' = FALSE

SenderClaims(s, c) ==
    /\ campaign.status \in Running
    /\ message[s][c].status = "pending" /\ message[s][c].release <= window.elapsed
    /\ Becomes(s, c, "claimed")
    /\ UNCHANGED <<database, window, used>>

SenderSettles(s, c) ==
    /\ message[s][c].status = "claimed"
    /\ \E status \in Outcomes : Becomes(s, c, status)
    /\ UNCHANGED <<database, window, used>>

SenderReturns(s, c) ==
    /\ message[s][c].status = "claimed" /\ Spend("returns", MaxReturns)
    /\ Becomes(s, c, "pending")
    /\ UNCHANGED <<database, window>>

\* revokePending and its kin, when a contact is suppressed or unsubscribed.
Revoke(s, c) ==
    /\ message[s][c].status = "pending"
    /\ Becomes(s, c, "skipped")
    /\ UNCHANGED <<database, window, used>>

\* WATCHDOG_QUIET_SECONDS pass.  A tick is shorter than that: they do not pass between
\* its recount and the moment it reads the time of the last change.
TurnsQuiet ==
    /\ ~quiet /\ watchdog.pc \notin {"drain", "count"}
    /\ quiet' = TRUE
    /\ UNCHANGED <<database, message, window, used>>

WindowElapses ==
    /\ window.elapsed < window.opened
    /\ window' = [window EXCEPT !.elapsed = @ + 1]
    /\ UNCHANGED <<database, message, quiet, used>>

\* Until the campaign is scheduled again nobody can tell that the time is past.
TimePasses ==
    /\ campaign.status = "scheduled" /\ campaign.at \in {"ahead", "due"}
    /\ campaign' = [campaign EXCEPT !.at = IF @ = "ahead" THEN "due" ELSE "late"]
    /\ UNCHANGED <<counters, progress, job, runner, request, scheduler, quota, watchdog,
                   message, quiet, window, used>>

-----------------------------------------------------------------------------
RequestStep(u) ==
    \/ LoadToSend(u) \/ LoadToResume(u) \/ LoadToUndo(u) \/ LoadToSendNow(u)
    \/ Send(u) \/ Resume(u) \/ SendNow(u)
    \/ EnqueueOfRequest(u) \/ EnqueueFails(u) \/ Unsend(u) \/ Unresume(u)
    \/ Cancel(u) \/ Clean(u)

RunnerStep(r) ==
    \/ JobStarts(r) \/ Start(r) \/ Decide(r) \/ LoadProgress(r) \/ NotCompiled(r)
    \/ Batch(r) \/ AdvanceCursor(r) \/ Check(r) \/ Cleanup(r) \/ Timeout(r)
    \/ Finish(r) \/ JobEnds(r)

SchedulerStep == MarkMissed \/ ClaimDue \/ SendMaterialize
WatchdogStep == ListRunning \/ ReconcileHandover \/ IsDrained \/ ReadCounters \/ Close

MessageStep(s, c) == SenderClaims(s, c) \/ SenderSettles(s, c)
                     \/ SenderReturns(s, c) \/ Revoke(s, c)

Next ==
    \/ \E u \in Users : RequestStep(u)
    \/ Pause \/ Schedule \/ Unschedule
    \/ \E r \in Runners : RunnerStep(r) \/ RunThrows(r)
    \/ JobExpires
    \/ SchedulerStep \/ ListPaused \/ ResumeOnQuota \/ WatchdogStep
    \/ WorkerCrashes \/ ApiCrashes
    \/ \E s \in Stamps, c \in Contacts : MessageStep(s, c)
    \/ TurnsQuiet \/ WindowElapses \/ TimePasses

Spec == Init /\ [][Next]_vars

\* The watchdog ticks, the sender works and time passes.  Neither the requests nor the
\* job need go on: a campaign is closed even if they have stopped for good.  Silence is a
\* fact of time and comes in spite of the watchdog's ticks, hence the strong fairness.
FairSpec ==
    /\ Spec
    /\ WF_vars(WatchdogStep) /\ SF_vars(TurnsQuiet) /\ WF_vars(WindowElapses)
    /\ \A s \in Stamps, c \in Contacts :
        WF_vars(SenderClaims(s, c)) /\ WF_vars(SenderSettles(s, c))

-----------------------------------------------------------------------------
(* What the campaign owes its user. *)

\* Nobody gets two messages, however often the campaign is claimed: created_at is the
\* key the unique index of messages relies on (startMaterialization, COALESCE).
OneMessagePerContact ==
    \A c \in Contacts : Cardinality({s \in Stamps : message[s][c].status # "none"}) <= 1

\* A campaign that says it is sending, or that its audience is done, has a row for every
\* contact, whatever crashes, pauses and second runs there were (loop.ts, resume.ts).
SendingIsComplete ==
    campaign.status = "sending" \/ progress.phase = "done" =>
        In(campaign.stamp, {"none"}) = {}

\* When the watchdog is about to close a campaign whose audience was complete when it
\* counted, nothing is left to send and the status it will write is that of the messages
\* as they are now, although it counted in an earlier transaction (watchdog.ts).
ClosesRight ==
    watchdog.pc = "close" /\ watchdog.complete =>
        /\ Drained
        /\ counters = Tally
        /\ watchdog.verdict = ClosingStatus(Tally)

\* As long as nothing fails and the sender returns nothing, a pending message of a
\* cancelled campaign has somebody who will still skip it (cancel.ts, loop.ts).
NoOrphans ==
    used.faults = 0 /\ used.returns = 0 /\ campaign.status = "cancelled"
    /\ (\E s \in Stamps : In(s, {"pending"}) # {}) =>
        \/ \E u \in Users : request[u].pc = "clean"
        \/ \E r \in Runners : runner[r].pc \in {"advance", "check", "cleanup"}

\* A cancelled or closed campaign stays so: no late rollback of a request, no run of the
\* job and no tick revives it (transitionStatus and the guards of the other UPDATEs).
FinalIsFinal ==
    [][campaign.status \in Final => campaign'.status = campaign.status]_campaign

\* The application decides nothing behind the sender's back: it makes each message once, and
\* what it skips is still pending and belongs to a campaign that is cancelled for good; only
\* the sender and revocations do the rest (cancel.ts, loop.ts, campaigns/repo/outbox.ts).
LeavesToSender ==
    [][\A s \in Stamps, c \in Contacts :
        message'[s][c].status # message[s][c].status =>
            \/ message[s][c].status = "none" /\ message'[s][c].status \in {"pending", "skipped"}
            \/ /\ campaign.status = "cancelled"
               /\ message[s][c].status = "pending" /\ message'[s][c].status = "skipped"
            \/ MessageStep(s, c)]_vars

\* What the campaign is to its user: what each contact got, "stray" if under a stamp that is
\* no longer the campaign's, which leaves room for a second message, and the status without
\* the ways of waiting and of being under way.
MailOf(c) ==
    IF \E s \in Stamps : s # campaign.stamp /\ message[s][c].status # "none" THEN "stray"
    ELSE IF campaign.stamp = NoStamp THEN "none" ELSE message[campaign.stamp][c].status
Mail == [c \in Contacts |-> MailOf(c)]
State == IF campaign.status \in Final THEN campaign.status
         ELSE IF campaign.status \in Running THEN "running" ELSE "resting"
CountedEarly == watchdog.pc \in {"drain", "count", "close"} /\ ~watchdog.complete

\* However requests, runs and ticks overlap: nobody gets two messages, nothing is taken
\* while the campaign rests or after it has ended, an end is final, and a campaign counted
\* after its audience was complete is closed only when all is decided, with the status
\* its messages have (campaigns/jobs, campaigns/api, watchdog.ts).
Promise == INSTANCE CampaignPromise WITH
    Contact <- Contacts, state <- State, complete <- progress.phase = "done",
    mail <- Mail, early <- CountedEarly
KeepsPromise == Promise!Spec

\* A running campaign is closed, paused, cancelled or put back: it never stays
\* 'queueing' or 'sending' for ever (watchdog.ts).
RunningIsClosed == campaign.status \in Running ~> campaign.status \notin Running

\* Not kept: the watchdog closes only campaigns whose audience is complete
\* (maintenance-scan.ts).
ClosedWhenComplete ==
    campaign.status \in {"sent", "partially_sent"} => progress.phase = "done"

\* Not kept: a campaign of which something was sent never becomes a draft again
\* (state-machine.ts).
SentIsNeverDraft ==
    campaign.status = "draft" => \A s \in Stamps : In(s, {"sent"}) = {}
=============================================================================
