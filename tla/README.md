# Verification of the mailing tool

TLA+ specifications of the mailing tool (Next.js and worker processes in
TypeScript under `packages/core` and `apps/`, the sender in Go under
`apps/sender`), the TLC configurations that check them on small instances, and
theorems about them that TLAPS checks for every value of the constants. Paths
below are relative to the repository; `src/` in `PROJECT.json` is its root.

Run everything inside this directory: `tlc -config <run>.cfg <module>.tla` for
a run of `PROJECT.json`, `tlapm <module>Proofs.tla` for the proofs of a module.

## 1. The system

All processes share one PostgreSQL database. The application (web, worker, CLI)
and the senders never call each other: they meet in tables.

| Component | State | Operations | Talks to |
|---|---|---|---|
| Sender, outbox (`apps/sender/internal/outbox`) | table `messages`: status, claimed_by, claim_expires_at, dispatch_started_at, attempts, ambiguous_count, next_attempt_at, error_code | claim, heartbeat, D1 (`StmtMarkDispatchStarted`), D3a-e (results), skip of suppressed, release, recovery, two reapers | every sender process, through rows |
| Sender, process (`internal/app`) | registry of messages in workers, two channels, goroutines | start with recovery, claimer per stream, workers, heartbeat ticker, reaper ticker, orderly stop, crash | outbox, providers, breaker |
| Sender, breaker (`internal/breaker`) | per campaign and process: consecutive fatal errors, ring of renderings, tripped flag, count of unreadable credentials | record an answer, trip, pause, forget after the pause | `campaigns.status` |
| Sender, header cache (`internal/campaign/cache.go`) | per process: headers by campaign and revision, remembered refusals | hit, load outside the lock, keep, refuse, forget | `campaigns`, `templates` |
| Sender, throttle, rotation, providers | token buckets, round robin cursor, connections | wait, pick the next campaign, send | providers (external) |
| Campaigns (`packages/core/src/campaigns`) | `campaigns.status`, `campaign_audience_progress`, jobs of pg-boss | schedule, materialise in batches, pause, resume, cancel, undo, watchdog, scheduler, stall watch | writes rows of `messages`, sender reads `campaigns` |
| Transactional mail (`transactional/send.ts`, `contacts/lists/subscription-emails.ts`) | a hidden campaign per template, the carrier | compile, write the carrier, queue a message | sender, through `campaigns` and `messages` |
| Keyed requests (`apps/web/src/lib/api/idempotency.ts`) | table `idempotency_keys`, pool of connections | insert the key, run the operation, store its answer | every write of `/api/v1` |
| Contacts, subscriptions, suppressions (`contacts/`) | `contacts.status`, `list_subscriptions`, `consents`, confirmation links, `suppressions` | add, promote, remove, lift; subscribe, confirm, unsubscribe; revoke queued mail at once, reconcile later | skips rows of `messages`, sender's batch check reads it |
| Outgoing webhooks (`platform/webhooks`) | events, endpoints with a failure count, deliveries, jobs | emit, fan out, deliver, retry, disable, enable, test | external endpoints |
| Tracking (`tracking/`) | events, links | ingest of clicks, opens, provider events | suppressions, reports |
| Providers' status, identity, segments, templates, reports, AI, UI | rows of their own | CRUD | - |

What is hard here, and where a test hardly reaches:

* Several senders and several jobs of one sender work on one row. What protects
  it is the pair `status = 'claimed' AND claimed_by = $me`, which names the
  process and not the claim, a lease, and the marker committed before the call.
* A process may die, or be told to stop, between D1, the call and D3. A row with
  a marker and no owner is a doubt nobody can resolve; the policy decides.
* A call that fails may have succeeded. Statements may commit and lose their reply.
* The application changes campaigns and suppressions under the sender's hands.
* Materialisation is a loop of transactions run by a queue that delivers at
  least once; pause, cancel and the watchdog act between its batches.
* A webhook is called outside any transaction: its result is written of a row and
  an endpoint that users and other jobs have changed since.
* Subscribing and confirming are five or six transactions each, and a removal is
  judged by a reason the row may no longer have when it is carried out.
* Content is read at the claim through a cache filled by several workers at once,
  not at the request that queued the message.

For each hazard of the code, at its line, `PROJECT.json` names the properties
that would catch it going wrong, or says why none does yet.

Correctness, component by component: the outbox sends no copy it cannot account
for, decides every message and never says `sent` of a message the provider did
not take; the suppression list stops a message on every way to the provider; a
campaign is closed only when its audience is complete and decided, and a
cancelled one sends nothing more; the breaker pauses a campaign that only fails,
after a bounded number of calls; a webhook delivery is tried until it succeeds or
is given up, success is said only of what was accepted, and a disabled endpoint
winds down; a keyed request happens once and its answer is true; no message
carries content older than its request; an opt-out, a complaint and a proof of
consent are not lost by requests that overlap.

## 2. The modules

| Module | Models | Uses |
|---|---|---|
| `OutboxRow` | one row of `messages`; every SQL statement of `outbox/statements.go` as a WHERE part (`...Hits`) and a SET part | - |
| `Outbox` | the dispatch protocol: processes, jobs, registry, leases, suppression list, campaign status, provider | `OutboxRow`, refines `Delivery`, serves `CampaignPromise` |
| `Delivery` | the promise about one e-mail, without rows or processes | - |
| `MCOutbox` | small instances of `Outbox` | `Outbox` |
| `OutboxProofs` | theorems about `Outbox` | `Outbox`, `TLAPS` |
| `LeaseProofs` | theorems about `Outbox` when leases outlast jobs | `OutboxProofs` |
| `Campaign` | one campaign: the API's requests, the job `campaign.materialize`, the scheduler, the watchdog, `resume-on-quota`, its messages and counters | refines `CampaignPromise` |
| `CampaignPromise` | the promise about a campaign, without requests, jobs, batches or ticks | - |
| `Webhooks` | events, fan-out, deliveries, endpoints, their jobs and users | refines `WebhookPromise` |
| `WebhookPromise` | the promise about deliveries, without jobs, workers or endpoints | - |
| `Contact` | one address: suppression row, contact, subscriptions, consents, links, and requests that overlap | - |
| `Carrier` | mail outside campaigns: requests, the carrier they share, the sender's header cache | - |
| `Breaker` | the breaker of one campaign in one process, and every path that pauses | - |
| `Idempotency` | keyed requests, their transactions, the pool | - |
| `MCOutbox`, `MCCampaign`, `MCWebhooks`, `MCContact`, `MCCarrier`, `MCBreaker`, `MCIdempotency` | small instances | the module each is named after |
| `OutboxProofs`, `CampaignProofs`, `WebhooksProofs`, `ContactProofs`, `CarrierProofs`, `BreakerProofs`, `IdempotencyProofs` | theorems | the module each is named after, `TLAPS` |

`Outbox` and `Campaign` meet in the row of `messages` and in `campaigns.status`.
Each keeps of the other what it can see: `Outbox` lets the status of a campaign
change at any time (`CampaignStatus`), and `Campaign` lets a sender claim, settle
and return a message, and everybody skip one. That these are the same steps is
stated on each side: every step of `Outbox` is to each campaign a step that
`CampaignPromise`, which `Campaign` refines, allows the sender (`ServesCampaigns`),
and `Campaign` changes of a message nothing that is not listed there or made by the
materialisation or the cleanup (`LeavesToSender`). `Outbox` also lets suppressions
come and go freely; `Contact` says how they do. `Breaker` is the inside of what `Outbox`
leaves to chance when it pauses (`BreakerPause`), and `Carrier` the inside of its
`Pick` and `HeaderUnreadable` for mail outside campaigns.

### Outbox: state and actions against the code

`row` is the table `messages`; time columns are kept as what `now()` makes of
them (`due`, `lease`). `camp` is `campaigns.status` as far as a claim can tell
it: `active` (claimable), `idle`, `deleted`. `suppressed` is what the table
`suppressions` says of the recipient: `soft` (marketing opt-out), `hard`
(everything else). `job[p][m][g]` is one copy of a claimed message inside
process p, from the claim to the return of `process()`; `Gen` are slots, because
nothing in the code keeps a process from holding a message twice. `inflight` is
`app.Inflight`, keyed by message and hence shared by those copies. `accepted`,
`lost` and `unbuilt` are history: copies the provider took, those of them whose
acceptance the sender took for a failure, and attempts that ended because no MIME
boundary could be drawn (`runtime.go:568-571` writes a retry then, and does not ask
whether `MaxAttempts` are used up, as every other retry does).

| Code | Action |
|---|---|
| claimer goroutine: claim, `FilterSuppressed`, push | `ClaimCampaign`, `ClaimNonCampaign`, `FilterBatch`, `DropBatch` |
| `process()`: header, provider, limiter | `Pick`, `HeaderUnreadable`, `CampaignUnusable`, `ReleaseOne`, `ProviderUnusable` |
| D1, the provider call, D3, pause by the breaker | `MarkStarted`, `MarkMissed`, `Dispatch`, `WriteResult`, `BreakerPause` |
| heartbeat ticker, reapers A and B | `HeartbeatTick`, `ReapReleased`, `ReapAmbiguous` |
| start with the recovery pass, crash | `Start`, `Crash` |
| SIGTERM: cancel, release what has not started, wait, exit | `Stop`, `Cancelled`, `ReleaseUnstarted`, `Exit`, `ForcedExit` |
| time | `Age` (a lease runs out), `BecomeDue` |
| application | `CampaignStatus`, `CancelPending`, `Suppress`, `Unsuppress`, `Reconcile` |

With `DbFaults` every statement may fail, before or after its commit. `Delay`
says whose lease may run out while its job lives: nobody's (`none`), that of a
message waiting in the channel where no heartbeat covers it (`queue`), anybody's
(`any`: a pause of any length anywhere). `none` is the form which the hypothesis
`LeaseOutlasts` of the proofs takes in a run.

### Campaign: state and actions against the code

`campaign` is the row of `campaigns` (`status`; `stamp` is `audience_built_at`,
which is also `created_at` of its messages; `release` is `release_at`; `reason`
is `pause_reason.code`; `at` is `scheduled_at` against `now()`). `counters` are
its four counts, `progress` is the row of `campaign_audience_progress`. `message`
is keyed by created_at and contact, as the unique index of `messages` is.
`job` is the job of this campaign in the queue `campaign.materialize`, of which
the exclusive policy admits one; `runner[r]` is an execution of its handler with
what it has read, and there may be two, because pg-boss hands an expired job out
again while the first handler still works. `request[u]` is a request that has
read the campaign and not written yet. Undo windows are numbered, and `window`
says how many have been opened and have elapsed, so that a window is compared
with `now()` without a clock. `watchdog.complete` is history.

| Code | Action |
|---|---|
| `sendRoute`: load, `startMaterialization`, enqueue, rollback | `LoadToSend`, `Send`, `EnqueueOfRequest`, `EnqueueFails`, `Unsend` |
| `resumeRoute`: load, `resumeCampaign`, enqueue, rollback | `LoadToResume`, `Resume`, `EnqueueOfRequest`, `EnqueueFails`, `Unresume` |
| `undoRoute`, `cancelRoute`: `cancelCampaign` | `LoadToUndo`, `Cancel`, `Clean` |
| `sendNowRoute`: `releaseCampaignNow` | `LoadToSendNow`, `SendNow` |
| `pauseRoute`, `scheduleRoute`, `unscheduleRoute` | `Pause`, `Schedule`, `Unschedule` |
| `materializeHandler` up to the loop | `JobStarts`, `Start`, `Decide`, `LoadProgress`, `NotCompiled` |
| `runMaterializeLoop`, `finishMaterialization` | `Batch`, `AdvanceCursor`, `Check`, `Cleanup`, `Timeout`, `Finish` |
| pg-boss: completion, retry, expiry | `JobEnds`, `RunThrows`, `JobExpires` |
| `campaign.scheduler` | `MarkMissed`, `ClaimDue`, `SendMaterialize` |
| `campaign.resume-on-quota` | `ListPaused`, `ResumeOnQuota` |
| `campaign.watchdog` | `ListRunning`, `ReconcileHandover`, `IsDrained`, `ReadCounters`, `Close` |
| the processes die | `WorkerCrashes`, `ApiCrashes` |
| sender, revocation, time | `SenderClaims`, `SenderSettles`, `SenderReturns`, `Revoke`, `TurnsQuiet`, `WindowElapses`, `TimePasses` |

Each action is one transaction; what a handler does in several is several
actions, and the variables `request`, `runner` and `watchdog` hold what it
carries from one to the next. What is simplified: the audience is the one the
stamp fixes; `TimePasses` acts only while a campaign is scheduled, because
nothing else reads `scheduled_at`; pause reasons are what the code tells apart
(`quota`, `blocked`, the others); one tick of the watchdog at a time, and a tick is
shorter than `WATCHDOG_QUIET_SECONDS` (in `TurnsQuiet`). `NotCompiled` is possible
on every run that goes on: the plan is compiled each time, and any exception of it
fails the campaign, one that is sending a complete audience as well.

`Promise` maps this to `CampaignPromise`. Its `mail` is the status of a contact's
message under the campaign's stamp, and `stray` if there is one under another stamp:
that value is in no type of the promise, so a second message would refute the
refinement. Its `state` forgets how a campaign waits and is under way, and `early`
(`CountedEarly`) says that the watchdog has counted the messages of this tick before
the audience was complete. That is the one thing `CampaignPromise` has to admit: a
count that came too early closes a campaign with whatever it counted
(`CountBefore`, `Close`), as `DocClosedEarly` shows the code to do.

### Webhooks: state and actions against the code

`emitted` are rows of `webhook_events`, `fanout` the jobs that fan them out,
`endpoint` and `row` the rows of `webhook_endpoints` and `webhook_deliveries`
(`next` is `next_attempt_at` against `now()`; `quiet` is "no success in 72
hours"). `job[d]` is the job of a delivery in the queue, whose singleton key
admits one; `call[w]` is what a worker has read and what came of its call. `scan` is
the cron under way: what its SELECT has listed and it has yet to queue, and what it
has inserted and not committed. `owed`, `heard` and `begun` are history.

| Code | Action |
|---|---|
| `emitWebhookEvent`, with or without its job | `Emit` (`Fanned` are the events whose producer queues it) |
| `fanoutEvent`, job repeated when the worker dies after the commit | `FanoutEvent` |
| the button that tests an endpoint | `TestEndpoint` |
| `deliverWebhook`: first transaction, call, result | `Load`, `Answer`, `ApplyDeliveryOutcome` (`Result`, `Counted`, `ShouldDisable`) |
| cron `webhook_retry`: the list, one insert for each, the end | `ListDue`, `EnqueueDue`, `CommitScan`, `ScanFails` |
| time | `BecomeDue`, `BecomeQuiet` |
| worker dies, pg-boss gives a job up | `Crash`, `Expire` |
| requests of users | `UpdateEndpoint` (its address, its events, both), `DeleteEndpoint`, `EnableEndpoint`, `RetryDelivery` |

Nothing that follows the list of the cron looks at a delivery again: neither the
inserts nor `deliverWebhook` ask for its status or whether its endpoint is active.
So a delivery may be called for after it has ended, and `WebhookPromise` says when:
`ahead` are the deliveries with an attempt planned or under way, an attempt is planned
only while the delivery is open, and one that was planned may still change an end.

Signatures, envelopes, the e-mail about a disabled endpoint and the log of
attempts are left out. `LateExpiry` says whether a job may expire while its
handler still works: its `expireInSeconds` is longer than the time limits of a
call, and nothing else holds the handler to it. One scan at a time: its queue is
exclusive, and a scan that outlives its five minutes beside the next one is left out.
A secret that cannot be decrypted (`deliver.ts:85-89`) ends the job without a result,
which is what `Crash` does; where every attempt of a delivery does so, it stays open,
and `Settles` says nothing of it, because deaths are bounded.

### Contact: state and actions against the code

One address of one project. `row` is its row of `suppressions`, live or removed;
`request[r]` is a request with what it has read, `past` what the properties
remember. An open transaction holds the rows it has locked (`RowFree`,
`ContactFree`), so a lock is a guard of everybody else's statements.

| Code | Action |
|---|---|
| `addSuppression`: selection, upsert with effects | `Add`, `CommitAdd` (`UpsertedReason`, `EffectsApply`; `StatusFor`, `SubFor` are the table of effects, the row of an erasure included) |
| `unsubscribe()` from everything, from a list | `UnsubscribeAll` and `CommitAdd`, `UnsubscribeList` |
| `DELETE /suppressions/{id}` | `AskRemoval`, `Remove` |
| `subscribe()` | `Subscribe`, `RefusedAgain`, `ReadContact`, `UpsertContact`, `Decide`, `WritePending`, `IssueLink`; confirmed at once: `WriteConfirmed`, `RecordConsent` |
| `confirmSubscription()` | `FollowLink`, `ConsumeLink`, `Lift`, `WriteConfirmed`, `RecordConsent`, `Activate` |
| an expired link | `FollowExpired`, `Reissue`, `Demote` |
| `confirmContactManually` | `ManualConfirm` |
| a statement or the process fails | `Fail` |

`Added` are the reasons that are recorded; `POST /suppressions` takes every one of
them, an erasure too. An erasure makes the contact `deleted`, which is not among the
statuses an upsert leaves alone: `past.undone` says that a request has written back
what it had read before, the one exception of `EffectsApplied`, and
`DocErasureUndone` shows it.

Simplified: the second check of the suppression list in `subscribe()`
(`RefusedAgain`) may find the row at any time until the contact is read, the reads of
`confirmSubscription()` are one, the lock of a contact and the selection
of the row in `unsubscribe()` are one step; ages (thirty days, the throttle of
links, expiry) are choices; of two links left open by two requests that issue one
at the same time the model keeps the newer.

### Carrier: state and actions against the code

`carrier[c]` is a row of `campaigns` that holds the content of a template;
`message[m]` is a request and then its message, with what it compiled, the
revision it was claimed with and the header it got; `cache` and `broken` are
`Cache.items` and `Cache.failed`. `writes` and `born` are history: how often a
carrier had been written when the message was queued.

| Code | Action |
|---|---|
| saving a template, the settings of the workspace | `EditTemplate`, `EditSettings` |
| `sendTransactional`: compile, look for the carrier, write it with the message | `Compile`, `FindCarrier`, `Enqueue` |
| claim outside campaigns | `Claim` |
| `Cache.Get` | `Hit`, `Recall`, `Load`, `Keep`, `Reject` |
| `handleCampaignFailure` | `Refuse` (in `Recall` and `Reject`) |
| sending, restart of the sender | `Send`, `Restart` |

### Breaker: state and actions against the code

`breaker` is the campaign's state in `breaker.go`: consecutive fatal answers,
renderings seen and failed, the tripped flag and the ring of the last results.
`worker[w]` is what a worker is doing with its message, including that it has
decided to pause and not done it yet, and what the caller of `pause()` does `after`
it. A message is pending, in the claimer's batch, in the channel or with a worker;
only the claim asks whether the campaign is sending, so a whole batch may reach the
workers after the pause. `streak` is history.

| Code | Action |
|---|---|
| claim of a batch in one statement, its messages fed to the channel | `Claim`, `Feed`, `Take` |
| `process()`: header, provider | `HeaderUnreadable` (given back, and no pause), `HeaderFails`, `ProviderBlocked`, `LoadCredFails`, `StoreCredFails`, `Resolve` |
| rendering, sending, verdict | `RenderFails`, `Render`, `Sent`, `Fatal`, `Retry`, `Refused` (`Observe`, `AfterRender`, `AfterFatal`, `AfterSuccess`) |
| `pause()` and after it | `Pause`, `Forget`, `PauseFails` |
| a user resumes the campaign | `Resume` |

Statements that give a message back and fail are left out here; `Outbox` has them.

### Idempotency: state and actions against the code

`request[r]` is a request under way, `table` the committed rows of
`idempotency_keys`, `lock[k]` the open transaction that has inserted k, `effect`
how often the operation was committed for a key and body, `given` what clients
have heard. `Own` are keys of operations that open a transaction of their own
beside the one of the key (`POST /transactional`), `Big` those whose answer is too
long to store. `AsksAgain` is a request that holds a connection and waits for a second
one; the pool is `Clogged` when those and the ones that wait for them hold it all.

| Code | Action |
|---|---|
| `runIdempotent`: connection, transaction | `Arrive`, `Begin` |
| `withIdempotency`: insert, or what is known of the key | `InsertKey` (`Known`) |
| the operation, inside or beside the transaction | `Operate`, `OpenNested`, `CommitNested`, `Refuse` |
| store the answer, commit, reply | `Reply`, `LoseReply` (`StoredAnswer`) |
| a connection or the server fails | `Fail` |

## 3. Runs and bounds

| Run | Instance | Shows |
|---|---|---|
| `OutboxAnyDelay` | 2 senders, 1 message, 2 attempts, policy retry, answers that accept, accept and are lost, are retryable, or find no boundary, failing statements with or without their commit, opt-outs, 1 crash or stop, any delay | `TypeOK`; `Accounting` (the inductive account behind "no unexplained copy"); `AttemptsBound`; `SentWasAccepted`; `SecondDoubtIsFinal`; `BlockedStaysUnsent`; the refinement `KeepsPromise` |
| `OutboxTimely` | 2 senders, 1 transactional message, 2 attempts, policy fail, every answer, lost ones included, every status of its carrier, failing statements, 2 crashes or stops, leases that outlast jobs | `OneDispatcher`; the refinement `KeepsStrictPromise`, nothing accepted after the final word |
| `OutboxLiveness` | 2 messages, 1 worker, 1 crash, fairness | `ClaimedIsDecided`, `PendingIsTaken` |
| `CampaignRaces` | 2 requests at once, 2 overlapping runs of the job, 2 stamps, the scheduler, all requests, a crash, exception or late expiry anywhere | `TypeOK`; `OneMessagePerContact`; `SendingIsComplete`; `NoOrphans`; the refinement `KeepsPromise` |
| `CampaignClosing` | the watchdog against pauses, undo, send-now, `resume-on-quota`, messages settled any way and returned, fairness | `ClosesRight`; the refinement `KeepsPromise`, here with every way to close; `RunningIsClosed` |
| `Webhooks` | an event and a test ping, 1 endpoint, 2 workers, answers that accept and fail, 1 request of a user of any kind, a scan whose list grows old, 1 death of a worker, fairness | `OpenIsScheduled`; `DisabledWindsDown`; `OneCallAtATime`; the refinement `KeepsPromise`; `Settles`; `EventReachesSubscribers` |
| `Contact` | 5 requests, 2 at a time, 2 lists (one with single opt-in), 4 reasons besides opting out, an erasure among them, 1 failure | `EffectsApplied`; `ConfirmedHasProof`; `HardBlockStays`; `OptOutHolds`; `NoReturnUnasked` |
| `Carrier` | 2 messages, 2 rows that may become carriers, 3 versions of the template of which the sender refuses one, 1 change of settings, 1 restart, fairness | `EntryIsFresh`; `NeverOlder`; `Departs` |
| `Breaker` | 2 messages claimed in one batch, a channel of 1, 2 workers, every outcome, thresholds of 2, 1 pause the database refuses, 1 resumption, fairness | `SampleIsExact`; `TripIsActedOn`; `FatalsAreBounded`; `Stops` |
| `Idempotency` | 3 requests at once over 2 connections, 2 keys (one with an answer too long to store, one of an operation with its own transaction), 2 bodies, 1 failure or lost reply, fairness | `AtMostOnce`; `AnswerIsTrue`; `EveryRequestEnds` |
| `DocClosedEarly`, `DocOptInReturn` | two claims of documents and comments the code does not keep, see 6 | counterexamples |

Bounds of `Outbox`, all in guards or constants: `MaxHalts` (crashes and stops), `AttemptsCap`
(D1 is not taken beyond this many attempts; above `MaxAttempts`, so the test on
attempts is reached and passed), `MaxCopies` (above the room for copies, so that
one too many is representable), `MaxUnbuilt` (attempts without a boundary: one takes
the attempts past `MaxAttempts`), `BatchSize`, `Concurrency`, `Gen`. One message
is enough for the safety of a row: rows interact only through the batch, the
channel and the campaign, which `OutboxLiveness` covers with two. Two processes cover
every race, because a race is between the one that held a claim and the one
that holds it now. `MaxAttempts` of 2 lets a result be both a retry and the last. The
two runs share the answers and the statuses of campaigns out between them, because a
run with all of them does not end in time; the theorems lift every one of these
restrictions.

Bounds of `Campaign`: `MaxRequests` (requests and pauses), `MaxFaults`,
`MaxReturns`, `RetryLimit`. Two contacts in batches of one give two batches, the
empty batch that ends the loop, and a crash on either side of every cursor; two
stamps are what it takes to write a contact twice; two runs and two requests are
what a late rollback, an expired job and a left-over job need.

Bounds of the others: `MaxEdits`, `MaxCrashes` (`Webhooks`: with two attempts the
last one and the one before it differ, and with thresholds of 1, after a long silence,
and 2 an endpoint is disabled in either way; answers that are lost, gone or blocked
are left to the theorems, and the address matters in `DocGone` only); `MaxRequests`, `MaxFaults`
(`Contact`: five requests are opting out, subscribing, following the link and two
that race them); `MaxVersion`, `MaxSettings`, `MaxRestarts` (`Carrier`: three
versions are one before, one refused, one repaired; two loads that overlap are
what a stale entry needs); `BatchSize`, `Capacity`, `MaxPauseFaults`, `MaxResumes`
(`Breaker`: two workers that have both decided to pause; a batch larger than the
channel, so that the claimer still holds what it claimed when the campaign is paused);
`MaxRequests`, `MaxFaults`, `Connections` (`Idempotency`: a pool smaller than the
requests, so that they wait for it, and can fill it with requests that wait for a
second connection). `EveryRequestEnds` names `Clogged` as the only way to wait for
ever; that the code does reach it is what `DocPool` shows. The theorems have none of
these bounds: every bound is a constant, and they hold for every value.

Fairness (`Fairness` in `Outbox`): a stopped process is started again by its
supervisor; claimer, workers, reapers and exit run whenever they can; time
passes. `Taken` and `Pick` are strongly fair because the claim orders rows by
`next_attempt_at` and a Go channel is first in, first out: what waits longest is
next. Nothing forces a crash, a stop, a suppression or a pause.
In `FairSpec` of `Campaign` the watchdog ticks, the sender works and time passes,
and nothing else is fair: neither a request nor the job need go on, so the
campaigns that `RunningIsClosed` speaks of include those whose job is gone. The
silence the watchdog waits for is strongly fair, because it comes in spite of
the ticks, which only ever interrupt it in the model.
In `Webhooks` the queue hands out jobs, workers end what they began (a call has
time limits), time passes, an abandoned job expires and the cron comes back; what
a user does is not fair, and neither is a death. In `Carrier` the sender takes
what is due and goes on. In `Breaker` the claimer ticks and feeds the channel, and
workers work; whether an answer is good or bad is nobody's duty, so `Stops` is about
campaigns where in the end nothing is merely told to come later and no header stays
unreadable for ever. In `Idempotency` connections and
locks are granted in the order of asking, hence strong fairness for those two.

Every property has a mutant in `PROJECT.json`: a form of one definition that a
plausible mistake in the code would give it (a lost guard, a cursor written
ahead, a rollback that does not look, ...), which the run refutes.

## 4. What is proved

`OutboxProofs`. Every step of `Next` is, for each message, of one of seven kinds
(`Kind`: nothing, requeued, claimed, settled, ...), which `StepKinds` shows once
by going through the actions; the invariants are then proved about kinds.

* `TypeCorrect`: `TypeOK`.
* `SentIsTrue`, `SecondDoubtEnds`: `Acknowledged` is inductive. It adds to the
  two properties that a job about to write `sent` holds a copy the provider took.
  No assumption about identifiers, delays or faults.
* `TableKept`, `BlockHolds`: action properties, by going through the actions.
* `Accountable`, `DuplicatesExplained`: the inductive account `Accounted` of one
  message: copies taken, calls under way and the possibility of one more never
  exceed the room (one, an acceptance taken for a failure, an excused doubt). It
  holds under two hypotheses which the code asks of its environment and does not
  enforce: `OneLifePerId` (no two processes run under one `SENDER_ID`), a
  constant-level assumption, and `[]OneCopy` (no process claims a message which
  one of its own jobs still holds), an assumption on the behaviour that
  `LeaseProofs` derives from the timing of leases. `DocSlowQueue` and the first
  point of the list in 6 show that neither can be dropped.
* `OnceUnlessUnnoticed` (`RepeatedOnlyUnnoticed`): under the policy `fail` a message is
  accepted a second time only after a reply was lost, whatever crashes, delays and
  failing statements do. What 04b promises for this policy has no such exception, and
  `DocLostReply` refutes it.
* `Refinement`: under the same two hypotheses `Outbox` implements `Delivery`.
* `ServesEveryCampaign`: `ServesCampaigns`, with no hypothesis. Only a claim makes a
  pending message claimed, and it asks for a campaign that is active
  (`ClaimServed`); every other step of a process touches claimed rows only; what is
  left are the steps of the application. So each step is a `Switch`, `Take`, `Leave`
  or `Drop` of `CampaignPromise`, whatever leases, crashes and failing statements
  do. When the audience is complete and counted is not seen by the sender and stays
  `FALSE` in this mapping; a campaign that is deleted or over is one that rests.

`LeaseProofs`. Its one hypothesis about time is `LeaseOutlasts`: as long as a
process has a job for a row it has claimed, the lease of the row has not run out.
For each process and message a step is one of a few turns (`Turn`, shown once by
`StepTurns`): the process claims, works on, lets go, or the row moves without it.

* `ClaimsProtect`: the invariant `Protected`, that is, every job of a live process
  holds its claim (`Held`: the row is claimed under its name and carries a marker
  just when the job has passed D1; a process that drains may have given back what
  had not begun, `LeftBehind`), and no process has
  two jobs for one message (`Single`). The two need each other: a second copy comes
  from a row that left the hands of the first.
* `CopiesStayOne`: hence `[]OneCopy`, which discharges the hypothesis of
  `OutboxProofs`. `OneAtATime` (`OneDispatcher`): between D1 and D3 of a message
  there is one worker of one process.
* `AttemptsAreBounded` (`AttemptsBound`): an account (`Budgeted`) of attempts
  against results recorded, which needs only `[]OneCopy`. Beyond `MaxAttempts` there
  is one attempt for each doubt and one for each boundary that could not be drawn.
* `StrictRefinement`: nothing is accepted after the final word, so `Outbox`
  implements the stricter `Delivery`.

`LeaseOutlasts` stays a hypothesis: `CLAIM_TTL` and the heartbeat make it likely and
do not enforce it, and `DocSlowQueue` shows what happens without it.

`CampaignProofs`. The inductive invariant `IInv` is the type invariant and
`Stamping` (all rows, and every run, carry the stamp of the campaign), `Built`
(the cursor of the progress and of every run stands behind rows only), `Phases`
(what the status says of the progress, and what a request may put back),
`Ticking` (what the watchdog has read in earlier transactions and still holds)
and `NoOrphans`, which is inductive by the help of `Stamping` and `Phases`.
`Ticking` needs all the others: that nothing is written behind the watchdog's
back follows from `Built` (a run finds a row for everybody) and `Phases` (a
campaign whose audience is done is not claimed again). Steps other than the
watchdog's are shown to be `Steady` first. From `IInv`, without any hypothesis:
`CampaignTyped` (`TypeOK`), `OneMessage`, `SendingComplete`, `ClosingRight`
(`ClosesRight`), `NoneOrphaned` (`NoOrphans`) and, by going through the actions,
`FinalStays` (`FinalIsFinal`).

`Refinement`: `Campaign` implements `CampaignPromise`, for any number of requests,
runs, faults and late expiries and with no hypothesis. The mapping is computed once
(`MailIs`: by `Stamping` a message lies under the campaign's stamp or nowhere, so
nothing is stray; `CountIs` and `VerdictIs`: the counters of the code count what the
promise counts). Then each actor has a lemma: `RequestKept`, `RunnerKept`,
`MessageKept`, `WatchdogKept`, `OthersKept`; most steps are `Quietly` a stutter or a
`Switch`. Two steps carry the weight: a batch (`Address`) writes only for
who has nothing, by `Built`, and `Close` writes the verdict of the messages as they
are, by `Ticking`, although four transactions lie between count and status.
`FinalIsFinal` is a consequence: no action of the promise leaves an end.
`MessagesAreTheSenders` (`LeavesToSender`): the application makes each message once,
and skips only what is pending of a campaign that is cancelled, although request and
run look at the status in one transaction and skip in another: whoever is about to
(`Cleaners`) has seen `cancelled`, which no step leaves (`EndsStay`). All other
changes of a message are the sender's and the revocations', which
`ServesEveryCampaign` finds on the other side.

`WebhooksProofs`. `IInv` is the type invariant, `OpenIsScheduled`,
`SucceededWasHeard` with what makes it inductive (a worker that holds an `ok` got
it from the receiver), what a scan holds (`ScanMade`, `HeldIsFree`: what it has
inserted is of deliveries that were made, and has no job), and `Winding`: of a disabled
endpoint the calls begun since and what is still to come of a delivery, the job that
waits and the place in the scan, are two at most. It gives `TypeCorrect`,
`NothingStranded`, `SuccessIsTrue`, `WindsDown` and `Refinement` (`Webhooks`
implements `WebhookPromise`) without any hypothesis: a call for what has ended is one
that was planned before the end, also when a job expires under its handler.
`Exclusive` says that who calls holds the job of the delivery; it is inductive only
when no job expires under its handler, so `OneCall` assumes `~LateExpiry`. That is
what `expireInSeconds` and the time limits of a call arrange, not something a guard
enforces.

`ContactProofs`. `IInv` is the type invariant with `EffectsApplied` and
`ConfirmedHasProof`, what the requests carry (`Asked`: a removal was asked for a
removable reason) and `OutOnRow` (an opt-out is on the list until it leaves, under
a reason at least as strict). It gives `TypeCorrect`, `StatusFollowsRow` (but for an
erasure whose status a request has written over) and `ProofOfConsent`; `StrictReasons`
(`HardBlockStays`), `OptOuts` (`OptOutHolds`) and `NoReturn` (`NoReturnUnasked`)
are action properties proved from it by going through the actions.

`CarrierProofs`. The revision of a carrier counts how often it was written, a
header is at least as new as the revision it was asked for with, and what is in the
cache was accepted; so every entry is fresh however loads
overlap: `TypeCorrect`, `EntriesFresh`, `NoOlderContent` and `RefusedStays` (what
is refused never goes out).

`BreakerProofs`. The ring is exact because what lies beyond its count is unset
and the position is the count until it is full (`Exact`). A rendering that succeeds
cannot take the failures over the limit (`RenderGood`), and so a breaker that has
tripped was tripped by a worker on its way to pause (`TripsArePaused`).
`FatalsAreFew` (`FatalsAreBounded`) adds an account: while the campaign is sending,
each fatal answer beyond the threshold is paid for by a worker on its way to pause
or by a pause that failed; once it is paused nothing is claimed, and what may still
fail is what the claimer's batch, the channel and the workers hold.

`IdempotencyProofs`. A transaction that has inserted a key is the only one that
operates for it, and has found no row: `TypeCorrect`, `OnceOnly` (`AtMostOnce`),
`AnswersAreTrue` (`AnswerIsTrue`), and `TakeoverUnreachable`: the answer 409 for a
key under way, and the takeover after `LOCK_TAKEOVER_SECONDS`, cannot be reached,
because a second request waits for the transaction of the first.

The assumptions on the constants are those named in the modules
(`OutboxAssumption`, `CampaignAssumption`, `WebhooksAssumption`, ...): sets of
the right members, finite sets where something is counted, distinct model values.

## 5. What is only checked, and what is not modelled

Only model-checked: liveness
(`ClaimedIsDecided`, `PendingIsTaken`, `RunningIsClosed`, `Settles`,
`EventReachesSubscribers`, `Departs`, `Stops`, `EveryRequestEnds`), which, like
`ENABLED`, is out of the prover's reach, as are induction over data and
`RECURSIVE` operators; no module here uses the latter. Every other property of
the passing runs is a theorem, under the hypotheses named above. `ServesCampaigns`
and `LeavesToSender`, which say how two modules meet, are theorems that need no
hypothesis and are listed in no run; `PROPERTY ServesCampaigns` may be added to
`OutboxTimely.cfg`, and `PROPERTY LeavesToSender` to `CampaignRaces.cfg`.

Not modelled: what `components` in `PROJECT.json` marks so. Most of the
repository is schema, queries, forms, screens and translations, which have no
state of their own to get out of step: segments and reports compile queries,
templates and content transform text, identity and configuration are lookups.
What has a protocol and is left out:

* the erasure of the contact itself (`gdpr/erase.ts`; the suppression it leaves is in
  `Contact`). `writeContact` checks for it outside its transaction, so a contact may be
  created again, and a confirmation under way may write evidence after it;
* imports, forms, snoozing, bulk operations on contacts;
* the ingest of provider events and tracking, which ends in `addSuppression`
  (`Contact` has its reasons) and in counters for reports;
* the round robin between campaigns, token buckets and delays of the sender:
  `Outbox` keeps of them that a message waits, and is taken in the end;
* row-level security: the cleanup of old keys
  (`platform/jobs/cleanup_idempotency.ts`) runs without a workspace in its session
  and finds nothing to delete, which no model here can tell.

Within the modelled parts: MIME building, rendering, credentials and logging of
the sender; audits, events and the deletion of campaigns; the trial mode but for
the rows it skips at once; several ticks of the watchdog at a time; and the
maintenance jobs that only report.

## 6. Where documents and code part

With a counterexample among the runs (`findings` of `PROJECT.json`):

1. `DocClosedEarly`: the watchdog closes a campaign while its audience is still
   being written, if a batch, a retry or a crash keeps it silent long enough.
2. `DocOptInReturn`: who opts out of everything, subscribes again and follows the
   link stays on the suppression list, although the confirmation is recorded.

With a counterexample that a configuration of its own reproduces, outside the runs
of `PROJECT.json` (`tlc -config <name>.cfg <module>.tla`;
04b is `docs/superpowers/specs/parts/04b-sender.md`):

| Configuration | Module | What the code does, against what is written |
|---|---|---|
| `DocLostReply` | `MCOutbox` | a reply lost after the provider accepted is classified as retryable (`app/runtime.go:616`) and the message goes out again under policy `fail`; 04b:2179 excludes it |
| `DocSlowQueue` | `MCOutbox` | a claimed message in the channel has no heartbeat; its lease may run out, the same process claims it again and both copies pass D1 (`outbox/statements.go:304`); 04b:846: "there is no third case" |
| `DocStopInFlight` | `MCOutbox` | SIGTERM cancels the calls in flight (`app/runtime.go:334`); 04b:1886: they are finished |
| `DocTransactional` | `MCOutbox` | a marketing opt-out revokes queued transactional mail (`campaigns/repo/outbox.ts:360`); `outbox/suppression.go:27`: a password reset must pass |
| `DocSentDraft` | `MCCampaign` | the rollback of a refused request makes a draft of a campaign that a left-over job is sending (`campaigns.routes.ts:816`); `state-machine.ts:10`: never again |
| `DocUnfanned` | `MCWebhooks` | events of contacts and suppressions are written and nobody queues their fan-out (`suppressions.ts:315`, `subscribe-service.ts`, `confirm-service.ts`, `unsubscribe.ts`), so they reach no subscriber (`EveryEventReaches`); `emit.ts:21` says that the job does it |
| `DocGone` | `MCWebhooks` | a late 410 of the old address disables an endpoint that has a new one (`disable.ts:102`) |
| `DocDisabledCall` | `MCWebhooks` | a job queued before an endpoint was disabled still calls it (`deliver.ts:63`); the cron skips disabled endpoints so that deliveries stop |
| `DocOverwritten` | `MCWebhooks` | a delivery that has succeeded is called for again, from a list read before, and a failure is written over its success (`SuccessIsFinal`; `webhook_retry.ts:74`, `deliver.ts:57-69`) |
| `DocErasureUndone` | `MCContact` | a subscription that read the contact before an erasure was recorded writes its status back over `deleted` (`StatusOfRow`); `contacts.ts:246-247` says that `deleted` needs no lock because deleted contacts have `deleted_at`, which the erasure of `suppressions.ts:190` does not set |
| `DocSecondMail` | `MCIdempotency` | `POST /transactional` commits in a transaction of its own; if the one of the key fails after it, a repetition sends a second mail (`transactional.routes.ts:235`, against its line 112) |
| `DocReplay` (with `-continue`) | `MCIdempotency` | the repetition of a request with a long answer gets an empty one (`ReplayIsWhole`; `idempotency.ts:116`); a 4xx takes the row of its key with it, so that the repetition may be done (`RefusalIsKept`; `idempotency.ts:125`, whose line 122 says that it is stored) |
| `DocPool` | `MCIdempotency` | requests that hold a connection and wait, without a limit, for a second one of the same pool stop one another for ever (`NeverClogged`; `send.ts:123`) |
| `DocCarrierVariant` | `MCCarrier` | identity and reply-to of a later request go out with an earlier one's message (`send.ts:465`, against line 367) |
| `DocCarrierData` | `MCCarrier` | a message is rendered with a newer template that uses a variable its request never supplied (`send.ts:465`, against line 40) |
| `DocTwoCarriers` | `MCCarrier` | two first requests make two carriers (`send.ts:451`, against line 401) |
| `DocStaleHeader` | `MCCarrier` | changing the workspace's name or address leaves the cached header as it was (`campaign/cache.go:38`, against line 10) |
| `DocTriedAgain` | `MCCarrier` | a carrier is a draft, which the pause does not change: a refused message is claimed again at once, for ever (`app/runtime.go:626`, `statements.go:427`) |
| `DocRenderRate` | `MCBreaker` | when the statement that pauses fails once, no share of failed renderings stops the campaign any more (`app/runtime.go:870`, against line 723) |
| `DocResumed` | `MCBreaker` | a worker that saw a failure before the pause pauses the campaign again after it was resumed (`app/runtime.go:861`; `breaker.go:141`) |

Met while reading, without a configuration of its own:

* Two senders under one `SENDER_ID` can both pass D1 for one message and send it
  twice; 04b:848 calls such a pair a matter of performance and diagnosis, not of
  correctness. This is the hypothesis `OneLifePerId`.
* 04b:1009 says that a message the sender has tried to send is never marked
  `skipped`. One that was tried, requeued and then suppressed is.
* 04b:807 says that an attempt is given back only if the D1 of the same try
  succeeded. A provider that cannot be used gives it back before any D1
  (`internal/app/runtime.go:667`, `ProviderUnusable`).
* 04b:2236 says that after SIGTERM every claimed message without a marker returns
  to the queue; those in the channel stay claimed until the reaper comes.
* `internal/outbox/reaper.go:32` says that the policy for SMTP is retry by
  default. `internal/app/runtime.go:467` applies `fail` to everything whenever
  the two policies differ, as their defaults do.
* A failure to draw a MIME boundary is retried whatever `MaxAttempts` says
  (`internal/app/runtime.go:568-571`); `AttemptsBound` counts these attempts.
* A campaign that is sending, its audience complete, fails when a late run of its job
  cannot compile its plan (`materialize.ts:119-128`; `NotCompiled`).
* A comment in `campaigns.routes.ts:997` says that undo means nothing was sent;
  the request reads the counters before it cancels, and a sender may act between.
* A job left over from an earlier schedule sends a campaign that has been
  unscheduled or marked as missed in the meantime: `Start` claims any of
  `SendableFrom`.
* After a crash in `cancelCampaign`, or when the sender returns a claimed message
  of a cancelled campaign, rows stay `pending` for ever; `findOrphanedPending`
  and `reconcileSuppressed` have no caller outside tests. `NoOrphans` therefore
  excludes both cases.
* `resume-on-quota` puts a campaign back to `queueing` and enqueues no job.
* `release-now.ts:23` says that delayed retries are not moved; its WHERE moves
  them.
* `confirm-service.ts:126` activates a contact only from the status `pending`,
  which `ck_contacts__status` does not have, so that a contact who confirms by a
  link never becomes `active`, the status `materializeBatch` asks for
  (`Activate` is a step that changes nothing). `confirm-pending.ts:113` does it
  from `unconfirmed`.
* A hard bounce outranks an opt-out. Recorded over it, and then removed by an
  administrator, it takes the opt-out along; `OptOutHolds` names the case.
* A removal goes by the row's id and was judged by the reason the row had before
  (`suppressions.routes.ts:213`, `suppressions.ts:387`): a complaint or an opt-out
  that has promoted the row meanwhile is removed with it. `HardBlockStays` and
  `OptOutHolds` name the case.
* Of two additions for an address with no row yet the second skips the effects
  (`suppressions.ts:281`); `EffectsApplied` excludes it by `derived`.
* An expired link makes a confirmed subscription pending again
  (`confirm.ts:176`; `Demote`).
* `writeContact` writes a status it read before (`contacts.ts:246`), which undoes
  a manual confirmation in between (`DocErasureUndone` shows it for an erasure).
* A list with single opt-in that was never joined confirms a person who has opted
  out of everything at once; `NoReturnUnasked` makes the exception.

## 7. What comes next

1. The hypothesis `~LateExpiry` of `OneCall` as a condition on behaviours,
   with what `expireInSeconds` and the time limits of a call arrange.
2. Rotation and throttle of the sender; ingest of provider events; the erasure of
   the contact itself in `Contact`; imports.
