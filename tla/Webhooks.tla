------------------------------ MODULE Webhooks ------------------------------
(***************************************************************************)
(* Outgoing webhooks, packages/core/src/platform/webhooks and its jobs.    *)
(* An event is written in the transaction of the change it reports; the    *)
(* job webhook_fanout makes one row of webhook_deliveries per subscribed   *)
(* endpoint; the job webhook_deliver reads the row in one transaction,     *)
(* calls the endpoint outside any, and writes the result in another; the   *)
(* cron webhook_retry lists what is due and then queues it row by row.     *)
(* Endpoints are edited, disabled, enabled and deleted meanwhile, a worker *)
(* may die anywhere and pg-boss gives up on a job whose time is over.      *)
(***************************************************************************)
EXTENDS Naturals, FiniteSets

CONSTANTS
    Event, Endpoint, Worker,
    Ping,          \* events of the button that tests an endpoint
    Fanned,        \* events whose producer queues webhook_fanout
    Answers,       \* how a call may end
    Edits,         \* requests that may come: "url", "subscription", "delete", "enable", "retry"
    MaxAttempts,   \* WEBHOOK_MAX_ATTEMPTS
    DisableAfter,  \* DISABLE_AFTER_FAILURES
    NoSuccessMin,  \* DISABLE_NO_SUCCESS_MIN_ATTEMPTS
    LateExpiry,    \* BOOLEAN: a job may expire while its handler still runs
    MaxEdits,      \* bound: requests of users
    MaxCrashes     \* bound: deaths of a worker

ASSUME WebhooksAssumption ==
    /\ Ping \subseteq Event /\ Fanned \subseteq Event \ Ping
    /\ Answers \subseteq {"ok", "lost", "error", "gone", "blocked"}
    /\ Edits \subseteq {"url", "subscription", "delete", "enable", "retry"}
    /\ MaxAttempts \in Nat \ {0} /\ DisableAfter \in Nat \ {0} /\ NoSuccessMin \in Nat \ {0}
    /\ {"none", "waiting"} \intersect Worker = {}
    /\ LateExpiry \in BOOLEAN /\ MaxEdits \in Nat /\ MaxCrashes \in Nat

VARIABLES
    emitted,   \* rows of webhook_events
    fanout,    \* jobs of webhook_fanout, by event
    endpoint,  \* rows of webhook_endpoints
    row,       \* rows of webhook_deliveries
    job,       \* the job of a delivery: none, waiting, or the worker that has it
    call,      \* what a worker has read and is doing
    scan,      \* the cron's transaction: deliveries listed and not yet looked at, and
               \* deliveries whose job is inserted and not yet visible
    used,      \* how much of each bound has been used
    \* history
    owed,      \* deliveries some endpoint is owed since the event
    heard,     \* deliveries the receiver answered with 2xx, whoever saw it
    begun      \* calls begun since the endpoint was last disabled

vars == <<emitted, fanout, endpoint, row, job, call, scan, used, owed, heard, begun>>
tables == <<emitted, fanout, endpoint, row, job>>
history == <<owed, heard, begun>>

Delivery == Event \X Endpoint
NoRow == [status |-> "none", attempt |-> 0, next |-> "none"]
NewRow == [status |-> "pending", attempt |-> 0, next |-> "due"]
NoCall == [answer |-> "idle"]
NoScan == [listed |-> {}, held |-> {}]
Reasons == {"none", "too_many_failures", "no_success_72h", "endpoint_gone"}

Init ==
    /\ emitted = {} /\ fanout = {} /\ owed = {} /\ heard = {}
    \* `quiet`: no success within 72 hours, also when there never was one
    /\ endpoint = [p \in Endpoint |->
          [active |-> TRUE, deleted |-> FALSE, subscribed |-> TRUE, url |-> 0,
           failures |-> 0, quiet |-> TRUE, reason |-> "none"]]
    /\ row = [d \in Delivery |-> NoRow]
    /\ job = [d \in Delivery |-> "none"]
    /\ call = [w \in Worker |-> NoCall] /\ scan = NoScan
    /\ begun = [d \in Delivery |-> 0]
    /\ used = [edits |-> 0, crashes |-> 0]

-----------------------------------------------------------------------------
\* Events and fan-out

Live(p) == ~endpoint[p].deleted
Subscribed(p) == Live(p) /\ endpoint[p].active /\ endpoint[p].subscribed

\* The singleton key of the queue, whose policy is 'exclusive': at most one job of a
\* delivery is created or active.  (mutant) The key covers only what is not yet active.
UnqueuedButActive(d) == job[d] # "waiting"

Unqueued(d) == job[d] = "none"

Enqueue(D) == job' = [d \in Delivery |-> IF d \in D THEN "waiting" ELSE job[d]]

\* ON CONFLICT (event_id, endpoint_id, created_at) DO NOTHING: only what is not there
NewIn(D) == {d \in D : row[d].status = "none"}
EnqueueDelivery(D) ==
    /\ row' = [d \in Delivery |-> IF d \in NewIn(D) THEN NewRow ELSE row[d]]
    /\ Enqueue({d \in NewIn(D) : Unqueued(d)})

\* A producer writes the event with its change; some queue the fan-out with it.
Emit(e) ==
    /\ e \notin emitted \union Ping
    /\ emitted' = emitted \union {e}
    /\ fanout' = IF e \in Fanned THEN fanout \union {e} ELSE fanout
    /\ owed' = owed \union {<<e, p>> : p \in {q \in Endpoint : Subscribed(q)}}
    /\ UNCHANGED <<endpoint, row, job, call, scan, used, heard, begun>>

\* (mutant) A job without retries.
FanoutEventOnce(e, dies) ==
    /\ e \in fanout
    /\ dies => used.crashes < MaxCrashes
    /\ EnqueueDelivery(IF dies THEN {} ELSE {<<e, p>> : p \in {q \in Endpoint : Subscribed(q)}})
    /\ fanout' = fanout \ {e}
    /\ used' = [used EXCEPT !.crashes = IF dies THEN @ + 1 ELSE @]
    /\ UNCHANGED <<emitted, endpoint, call, scan, owed, heard, begun>>

\* fanoutEvent in one transaction; a worker that dies after it leaves the job to be retried.
FanoutEvent(e, dies) ==
    /\ e \in fanout
    /\ dies => used.crashes < MaxCrashes
    /\ EnqueueDelivery({<<e, p>> : p \in {q \in Endpoint : Subscribed(q)}})
    /\ fanout' = IF dies THEN fanout ELSE fanout \ {e}
    /\ used' = [used EXCEPT !.crashes = IF dies THEN @ + 1 ELSE @]
    /\ UNCHANGED <<emitted, endpoint, call, scan, owed, heard, begun>>

\* The test button: event and delivery in one transaction, whatever the endpoint's status.
TestEndpoint(e, p) ==
    /\ e \in Ping \ emitted
    /\ Live(p)
    /\ emitted' = emitted \union {e}
    /\ EnqueueDelivery({<<e, p>>})
    /\ UNCHANGED <<fanout, endpoint, call, scan, used, owed, heard, begun>>

-----------------------------------------------------------------------------
\* The job webhook_deliver

\* deliverWebhook, first transaction: a deleted endpoint ends the job and leaves the row.
Load(w, d) ==
    /\ call[w] = NoCall /\ job[d] = "waiting"
    /\ IF Live(d[2])
       THEN /\ job' = [job EXCEPT ![d] = w]
            /\ call' = [call EXCEPT ![w] = [answer |-> "awaited", of |-> d,
                           attempt |-> row[d].attempt + 1, url |-> endpoint[d[2]].url]]
            /\ begun' = [begun EXCEPT ![d] = IF endpoint[d[2]].active THEN @ ELSE @ + 1]
       ELSE /\ job' = [job EXCEPT ![d] = "none"]
            /\ UNCHANGED <<call, begun>>
    /\ UNCHANGED <<emitted, fanout, endpoint, row, scan, used, owed, heard>>

\* The call ends.  "lost" is a 2xx whose answer never arrived.
Answer(w, a) ==
    /\ call[w].answer = "awaited"
    /\ call' = [call EXCEPT ![w].answer = IF a = "lost" THEN "error" ELSE a]
    /\ heard' = IF a \in {"ok", "lost"} THEN heard \union {call[w].of} ELSE heard
    /\ UNCHANGED <<tables, scan, used, owed, begun>>

\* (mutant) One too many.
IsFinalAttemptLate(n) == n > MaxAttempts

IsFinalAttempt(n) == n >= MaxAttempts
NextAttemptAt(n) == IF n + 1 > MaxAttempts THEN "none" ELSE "later"

\* What deliverWebhook concludes from the answer.
Result(c) ==
    IF c.answer = "ok" THEN [status |-> "succeeded", attempt |-> c.attempt, next |-> "none"]
    ELSE IF c.answer \in {"gone", "blocked"} \/ IsFinalAttempt(c.attempt)
    THEN [status |-> "abandoned", attempt |-> c.attempt, next |-> "none"]
    ELSE [status |-> "failed", attempt |-> c.attempt, next |-> NextAttemptAt(c.attempt)]

ShouldDisable(r) ==
    IF r.failures >= DisableAfter THEN "too_many_failures"
    ELSE IF r.failures >= NoSuccessMin /\ r.quiet THEN "no_success_72h" ELSE "none"

\* (mutant) An error code is written where a reason belongs.
CountedBlocked(r, answer) ==
    IF answer = "blocked" THEN [r EXCEPT !.active = FALSE, !.reason = "blocked_target"]
    ELSE [r EXCEPT !.failures = IF answer = "ok" THEN 0 ELSE @ + 1]

\* The row of the endpoint after an answer.
Counted(r, answer) ==
    IF answer = "ok" THEN [r EXCEPT !.failures = 0, !.quiet = FALSE]
    ELSE LET more == [r EXCEPT !.failures = @ + 1]
             why == IF answer = "gone" THEN "endpoint_gone" ELSE ShouldDisable(more)
         IN IF why = "none" \/ ~r.active THEN more
            ELSE [more EXCEPT !.active = FALSE, !.reason = why]

EndJob(w, d) == job' = IF job[d] = w THEN [job EXCEPT ![d] = "none"] ELSE job

Forget(p) == begun' = [d \in Delivery |-> IF d[2] = p THEN 0 ELSE begun[d]]

\* applyDeliveryOutcome, second transaction: no guard on what the row has become meanwhile.
ApplyDeliveryOutcome(w) ==
    /\ call[w].answer \notin {"idle", "awaited"}
    /\ LET d == call[w].of
           p == d[2]
       IN /\ row' = [row EXCEPT ![d] = Result(call[w])]
          /\ endpoint' = [endpoint EXCEPT ![p] = Counted(@, call[w].answer)]
          /\ EndJob(w, d)
          /\ IF endpoint[p].active /\ ~endpoint'[p].active
             THEN Forget(p) /\ owed' = {o \in owed : o[2] # p}
             ELSE UNCHANGED <<begun, owed>>
    /\ call' = [call EXCEPT ![w] = NoCall]
    /\ UNCHANGED <<emitted, fanout, scan, used, heard>>

Crash(w) ==
    /\ call[w] # NoCall /\ used.crashes < MaxCrashes
    /\ call' = [call EXCEPT ![w] = NoCall]
    /\ used' = [used EXCEPT !.crashes = @ + 1]
    /\ UNCHANGED <<tables, scan, history>>

\* pg-boss fails a job whose expireInSeconds are over; the queue has no retries of its own.
Handled(d) == call[job[d]] # NoCall /\ call[job[d]].of = d
Expire(d) ==
    /\ job[d] \in Worker
    /\ LateExpiry \/ ~Handled(d)
    /\ job' = [job EXCEPT ![d] = "none"]
    /\ UNCHANGED <<emitted, fanout, endpoint, row, call, scan, used, history>>

-----------------------------------------------------------------------------
\* The cron webhook_retry and the clock

\* (mutants) The scan reads only the deliveries; it reads only failed ones.
DueAnyEndpoint(d) == row[d].status \in {"pending", "failed"} /\ row[d].next = "due"
DueFailed(d) ==
    /\ row[d].status = "failed" /\ row[d].next = "due"
    /\ endpoint[d[2]].active /\ Live(d[2])

Due(d) ==
    /\ row[d].status \in {"pending", "failed"} /\ row[d].next = "due"
    /\ endpoint[d[2]].active /\ Live(d[2])

scanning == <<emitted, fanout, endpoint, row, call, history>>

\* scanDueDeliveries: one transaction lists what is due, ...
ListDue ==
    /\ scan = NoScan /\ \E d \in Delivery : Due(d)
    /\ scan' = [scan EXCEPT !.listed = {d \in Delivery : Due(d)}]
    /\ UNCHANGED <<scanning, job, used>>

\* ... then inserts the jobs one by one, whatever has become of the delivery and of its
\* endpoint since, and drops what is queued already; ...
EnqueueDue(d) ==
    /\ d \in scan.listed
    /\ scan' = [listed |-> scan.listed \ {d},
                held |-> IF Unqueued(d) THEN scan.held \union {d} ELSE scan.held]
    /\ UNCHANGED <<scanning, job, used>>

\* ... and its end shows the jobs to the workers.
CommitScan ==
    /\ scan.listed = {} /\ scan.held # {}
    /\ Enqueue(scan.held)
    /\ scan' = NoScan
    /\ UNCHANGED <<scanning, used>>

\* It fails as a whole, or its worker dies.
ScanFails ==
    /\ scan # NoScan /\ used.crashes < MaxCrashes
    /\ scan' = NoScan
    /\ used' = [used EXCEPT !.crashes = @ + 1]
    /\ UNCHANGED <<scanning, job>>

BecomeDue(d) ==
    /\ row[d].next = "later"
    /\ row' = [row EXCEPT ![d].next = "due"]
    /\ UNCHANGED <<emitted, fanout, endpoint, job, call, scan, used, history>>

BecomeQuiet(p) ==
    /\ endpoint[p].quiet = FALSE
    /\ endpoint' = [endpoint EXCEPT ![p].quiet = TRUE]
    /\ UNCHANGED <<emitted, fanout, row, job, call, scan, used, history>>

-----------------------------------------------------------------------------
\* Requests of users

Request(kind) ==
    /\ kind \in Edits /\ used.edits < MaxEdits
    /\ used' = [used EXCEPT !.edits = @ + 1]

Disowed(p) == owed' = {o \in owed : o[2] # p}

\* updateEndpoint changes the fields the request names.
UpdateEndpoint(p, fields) ==
    /\ \E kind \in fields : Request(kind)
    /\ fields \subseteq Edits \intersect {"url", "subscription"} /\ Live(p)
    /\ endpoint' = [endpoint EXCEPT
          ![p].url = IF "url" \in fields THEN @ + 1 ELSE @,
          ![p].subscribed = IF "subscription" \in fields THEN ~@ ELSE @]
    /\ IF "subscription" \in fields THEN Disowed(p) ELSE UNCHANGED owed
    /\ UNCHANGED <<emitted, fanout, row, job, call, scan, heard, begun>>

DeleteEndpoint(p) ==
    /\ Request("delete") /\ Live(p)
    /\ endpoint' = [endpoint EXCEPT ![p].deleted = TRUE]
    /\ Disowed(p)
    /\ UNCHANGED <<emitted, fanout, row, job, call, scan, heard, begun>>

EnableEndpoint(p) ==
    /\ Request("enable") /\ Live(p)
    /\ endpoint' = [endpoint EXCEPT ![p].active = TRUE, ![p].reason = "none", ![p].failures = 0]
    /\ Forget(p)
    /\ UNCHANGED <<emitted, fanout, row, job, call, scan, owed, heard>>

\* (mutant) Any delivery may be repeated.
RetryDeliveryAny(d) ==
    /\ Request("retry")
    /\ row[d].status # "none"
    /\ row' = [row EXCEPT ![d].status = "pending", ![d].next = "due"]
    /\ UNCHANGED <<emitted, fanout, endpoint, job, call, scan, history>>

RetryDelivery(d) ==
    /\ Request("retry")
    /\ row[d].status \in {"failed", "abandoned"}
    /\ row' = [row EXCEPT ![d].status = "pending", ![d].next = "due"]
    /\ UNCHANGED <<emitted, fanout, endpoint, job, call, scan, history>>

-----------------------------------------------------------------------------
Work(w) ==
    \/ \E d \in Delivery : Load(w, d)
    \/ \E a \in Answers : Answer(w, a)
    \/ ApplyDeliveryOutcome(w)

Scan == ListDue \/ CommitScan \/ \E d \in Delivery : EnqueueDue(d)

Next ==
    \/ \E e \in Event : Emit(e) \/ \E dies \in BOOLEAN : FanoutEvent(e, dies)
    \/ \E e \in Event, p \in Endpoint : TestEndpoint(e, p)
    \/ \E w \in Worker : Work(w) \/ Crash(w)
    \/ \E d \in Delivery : Expire(d) \/ BecomeDue(d) \/ RetryDelivery(d)
    \/ Scan \/ ScanFails
    \/ \E p \in Endpoint :
          \/ BecomeQuiet(p) \/ DeleteEndpoint(p) \/ EnableEndpoint(p)
          \/ \E fields \in SUBSET {"url", "subscription"} : UpdateEndpoint(p, fields)

\* The queue hands out jobs, a call ends within its time limits, a cron comes back.
Fairness ==
    /\ \A e \in Fanned : WF_vars(FanoutEvent(e, FALSE))
    /\ \A w \in Worker : WF_vars(Work(w))
    /\ \A d \in Delivery : WF_vars(BecomeDue(d)) /\ WF_vars(Expire(d) /\ ~Handled(d))
    /\ WF_vars(Scan)

Spec == Init /\ [][Next]_vars
FairSpec == Spec /\ Fairness

-----------------------------------------------------------------------------
\* Properties

Statuses == {"none", "pending", "failed", "succeeded", "abandoned"}
Open == {"pending", "failed"}

TypeOK ==
    /\ emitted \subseteq Event /\ fanout \subseteq emitted
    /\ owed \subseteq Delivery /\ heard \subseteq Delivery
    /\ endpoint \in [Endpoint -> [active : BOOLEAN, deleted : BOOLEAN, subscribed : BOOLEAN,
                                  url : Nat, failures : Nat, quiet : BOOLEAN, reason : Reasons]]
    /\ row \in [Delivery -> [status : Statuses, attempt : Nat, next : {"none", "later", "due"}]]
    /\ job \in [Delivery -> {"none", "waiting"} \union Worker]
    /\ call \in [Worker -> [answer : {"idle"}] \union
          [answer : {"awaited", "ok", "error", "gone", "blocked"}, of : Delivery,
           attempt : Nat, url : Nat]]
    /\ scan \in [listed : SUBSET Delivery, held : SUBSET Delivery]
    /\ begun \in [Delivery -> Nat]
    /\ used \in [edits : Nat, crashes : Nat]

\* A row says "succeeded" only of a delivery the receiver did answer with 2xx, whatever
\* late result of another attempt was written over it (deliver.ts, disable.ts).
SucceededWasHeard == \A d \in Delivery : row[d].status = "succeeded" => d \in heard

\* Nothing open is stranded: the row itself carries a time from which the cron will
\* find it, so a job lost by a crash or an expiry costs a delay and never a delivery.
OpenIsScheduled == \A d \in Delivery : row[d].status \in Open => row[d].next # "none"

\* Disabling takes effect: from then on each delivery is called for at most twice more, by
\* a job that was queued before and by one that a scan under way has yet to queue, until
\* a person enables the endpoint (webhook_retry.ts, deliver.ts).
DisabledWindsDown == \A d \in Delivery : ~endpoint[d[2]].active => begun[d] <= 2

\* At most one worker works for a delivery: the queue's exclusive key covers the call.
OneCallAtATime == \A v, w \in Worker :
    (v # w /\ call[v] # NoCall /\ call[w] # NoCall) => call[v].of # call[w].of

\* The delivery log keeps the promise of WebhookPromise: what has ended is called again, and
\* its end overwritten, only by a job or a scan that found it open, whatever expires.
Outcome == [d \in Delivery |-> IF row[d].status \in Open THEN "open" ELSE row[d].status]
Ahead == {d \in Delivery :
    \/ job[d] # "none" \/ d \in scan.listed \union scan.held
    \/ \E w \in Worker : call[w] # NoCall /\ call[w].of = d}
Promise == INSTANCE WebhookPromise WITH outcome <- Outcome, accepted <- heard, ahead <- Ahead
KeepsPromise == Promise!Spec

\* Every delivery is settled, unless its endpoint is disabled or deleted.
Settles == \A d \in Delivery :
    (row[d].status \in Open) ~> (row[d].status \notin Open \/ ~endpoint[d[2]].active \/ ~Live(d[2]))

\* An endpoint subscribed when the event happened gets a delivery for it, unless it was
\* disabled, edited or deleted first, however often the fan-out is repeated: of the events
\* whose producer queues the fan-out (emit.ts).
Reaches(d) == (d \in owed) ~> (d \notin owed \/ row[d].status # "none")
EventReachesSubscribers == \A d \in Delivery : d[1] \in Fanned => Reaches(d)

\* Not kept: every event reaches them; some producers queue no fan-out (emit.ts).
EveryEventReaches == \A d \in Delivery : Reaches(d)

\* Not kept: a delivery that has succeeded stays so, and is not called for again
\* (deliver.ts reads no status, applyDeliveryOutcome checks none).
SuccessIsFinal == [][\A d \in Delivery :
    row[d].status = "succeeded" => row'[d].status = "succeeded"]_vars

\* No call begins for an endpoint that is disabled, the test button aside
\* (webhook_retry.ts says it is disabled so that deliveries stop).
NoCallWhenDisabled == [][\A d \in Delivery :
    (begun'[d] > begun[d]) => d[1] \in Ping]_vars

\* An endpoint is disabled as gone only because the address it has now answered 410.
GoneIsCurrent == [][\A p \in Endpoint :
    (endpoint'[p].reason = "endpoint_gone" /\ endpoint[p].reason # "endpoint_gone") =>
        \E w \in Worker : call[w].answer = "gone" /\ call[w].of[2] = p /\ call[w].url = endpoint[p].url]_vars
=============================================================================
