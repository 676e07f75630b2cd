------------------------------- MODULE Breaker -------------------------------
(***************************************************************************)
(* How a sender process stops a campaign that makes no sense to continue:  *)
(* the circuit breaker (breaker/breaker.go) with its two pointers, the     *)
(* count of failed credentials (credFails) and the paths of process in     *)
(* app/runtime.go that pause a campaign.  The claimer takes a batch of one *)
(* campaign's messages and feeds it to the channel one by one, workers     *)
(* take them from there; every step is one critical section or one         *)
(* statement, so pausing in the database, forgetting in memory and what    *)
(* the claimer and other workers do in between interleave freely.          *)
(***************************************************************************)
EXTENDS Naturals, FiniteSets

CONSTANTS
    Message, Worker,
    BatchSize,              \* SENDER_BATCH_SIZE: messages of one claim
    Capacity,               \* of the channel of claimed messages
    Outcomes,               \* what may come of a message
    FatalThreshold,         \* SENDER_FATAL_THRESHOLD
    CredentialsMaxRetries,  \* SENDER_CREDENTIALS_MAX_RETURNS
    MinRenderFails, RenderWindow, RenderSampleWindow,
    RenderFailureRate,      \* in hundredths
    MaxPauseFaults,         \* bound: pauses the database refuses
    MaxResumes              \* bound: resumptions by a user

AllOutcomes == {"unreadable", "header", "blocked", "creds", "render",
                "fatal", "retry", "refused", "sent"}
\* What may come of a message that was rendered.
Answers == {"fatal", "retry", "refused", "sent"}

ASSUME BreakerAssumption ==
    /\ Outcomes \subseteq AllOutcomes
    /\ BatchSize \in Nat \ {0} /\ Capacity \in Nat \ {0}
    /\ FatalThreshold \in Nat \ {0} /\ CredentialsMaxRetries \in Nat \ {0}
    /\ MinRenderFails \in Nat \ {0} /\ RenderWindow \in Nat /\ RenderSampleWindow \in Nat \ {0}
    /\ RenderFailureRate \in 0..99
    /\ MaxPauseFaults \in Nat /\ MaxResumes \in Nat
    /\ IsFiniteSet(Worker) /\ IsFiniteSet(Message)

VARIABLES
    status,     \* of the campaign
    place,      \* where each message is
    worker,     \* what each worker is doing
    breaker,    \* the campaign's state in the breaker
    credFails,  \* the campaign's count of failed credentials, 0 when absent
    used,       \* how much of each bound has been used
    streak      \* (history) fatal answers since the last success or resumption

vars == <<status, place, worker, breaker, credFails, used, streak>>

Fresh == [fatal |-> 0, seen |-> 0, failed |-> 0, tripped |-> FALSE,
          sample |-> [i \in 0..RenderSampleWindow - 1 |-> FALSE],
          at |-> 0, count |-> 0, fails |-> 0]
Idle == [stage |-> "idle"]

Init ==
    /\ status = "sending"
    /\ place = [m \in Message |-> "pending"]
    /\ worker = [w \in Worker |-> Idle]
    /\ breaker = Fresh /\ credFails = 0
    /\ used = [faults |-> 0, resumes |-> 0]
    /\ streak = 0

At(w, stage) == worker[w].stage = stage
Does(w, stage) == worker' = [worker EXCEPT ![w].stage = stage]
Ends(w) == worker' = [worker EXCEPT ![w] = Idle]
Moves(w, to) == place' = [place EXCEPT ![worker[w].of] = to]

\* The worker goes on to pause() and does `after` when it returns; `since` is the period the
\* failure was seen in.
Pauses(w, after) == worker' = [worker EXCEPT ![w] =
    [stage |-> "pausing", of |-> worker[w].of, after |-> after, since |-> used.resumes]]
PausesIf(w, after, trips) == IF trips THEN Pauses(w, after) ELSE Ends(w)

-----------------------------------------------------------------------------
\* The breaker, breaker.go

AfterFatal(b) == [b EXCEPT !.fatal = @ + 1]
FatalTrips(b) == AfterFatal(b).fatal >= FatalThreshold
AfterSuccess(b) == [b EXCEPT !.fatal = 0]

Bit(failed) == IF failed THEN 1 ELSE 0

\* (mutants) The position runs past the end; what the window loses is not subtracted.
ObserveWrapsLate(b, failed) ==
    [b EXCEPT !.sample[b.at] = failed,
              !.count = IF @ = RenderSampleWindow THEN @ ELSE @ + 1,
              !.fails = @ + Bit(failed),
              !.at = (@ + 1) % (RenderSampleWindow + 1)]
ObserveKept(b, failed) ==
    [b EXCEPT !.sample[b.at] = failed,
              !.count = IF @ = RenderSampleWindow THEN @ ELSE @ + 1,
              !.fails = @ + Bit(failed),
              !.at = (@ + 1) % RenderSampleWindow]

\* The ring of the last RenderSampleWindow results.
Observe(b, failed) ==
    LET full == b.count = RenderSampleWindow
    IN [b EXCEPT !.sample[b.at] = failed,
                 !.count = IF full THEN @ ELSE @ + 1,
                 !.fails = (@ + Bit(failed)) - Bit(full /\ b.sample[b.at]),
                 !.at = (@ + 1) % RenderSampleWindow]

Listens(b) == ~b.tripped /\ b.seen < RenderWindow
Counted(b, failed) ==
    Observe([b EXCEPT !.seen = @ + 1, !.failed = @ + Bit(failed)], failed)

OverLimit(b) == b.failed >= MinRenderFails /\ b.fails * 100 > RenderFailureRate * b.count

RenderTrips(b, failed) == Listens(b) /\ OverLimit(Counted(b, failed))
AfterRender(b, failed) ==
    IF Listens(b) THEN [Counted(b, failed) EXCEPT !.tripped = RenderTrips(b, failed)] ELSE b

-----------------------------------------------------------------------------
\* Claiming

In(where) == {m \in Message : place[m] = where}

\* (mutant) The campaign of the messages is not asked for its status.
ClaimPaused(batch) ==
    /\ In("batch") = {}
    /\ batch # {} /\ batch \subseteq In("pending") /\ Cardinality(batch) <= BatchSize
    /\ place' = [m \in Message |-> IF m \in batch THEN "batch" ELSE place[m]]
    /\ UNCHANGED <<status, worker, breaker, credFails, used, streak>>

\* One statement for the whole batch, when the one before has been handed over.
Claim(batch) ==
    /\ status = "sending" /\ In("batch") = {}
    /\ batch # {} /\ batch \subseteq In("pending") /\ Cardinality(batch) <= BatchSize
    /\ place' = [m \in Message |-> IF m \in batch THEN "batch" ELSE place[m]]
    /\ UNCHANGED <<status, worker, breaker, credFails, used, streak>>

\* jobs <- job: the claimer waits for room, and asks nothing about the campaign.
Feed(m) ==
    /\ place[m] = "batch" /\ Cardinality(In("channel")) < Capacity
    /\ place' = [place EXCEPT ![m] = "channel"]
    /\ UNCHANGED <<status, worker, breaker, credFails, used, streak>>

Take(w, m) ==
    /\ At(w, "idle") /\ place[m] = "channel"
    /\ place' = [place EXCEPT ![m] = "held"]
    /\ worker' = [worker EXCEPT ![w] = [stage |-> "fetched", of |-> m]]
    /\ UNCHANGED <<status, breaker, credFails, used, streak>>

-----------------------------------------------------------------------------
\* process

\* handleCampaignFailure: a header that cannot be read, for now, pauses nothing;
HeaderUnreadable(w) ==
    /\ "unreadable" \in Outcomes /\ At(w, "fetched")
    /\ Moves(w, "pending")
    /\ Ends(w)
    /\ UNCHANGED <<status, breaker, credFails, used, streak>>

\* one that is invalid, or names no provider (resolveProvider), does, and the message stays
\* claimed until the campaign is paused.
HeaderFails(w) ==
    /\ "header" \in Outcomes /\ At(w, "fetched")
    /\ Pauses(w, "release")
    /\ UNCHANGED <<status, place, breaker, credFails, used, streak>>

\* resolveProvider: the provider does not send;
ProviderBlocked(w) ==
    /\ "blocked" \in Outcomes /\ At(w, "fetched")
    /\ Moves(w, "pending")
    /\ Pauses(w, "nothing")
    /\ UNCHANGED <<status, breaker, credFails, used, streak>>

\* its configuration is unreadable: the count is loaded,
LoadCredFails(w) ==
    /\ "creds" \in Outcomes /\ At(w, "fetched")
    /\ worker' = [worker EXCEPT ![w] =
          [stage |-> "counting", of |-> worker[w].of, count |-> credFails + 1]]
    /\ UNCHANGED <<status, place, breaker, credFails, used, streak>>

\* (mutant) A failure after the first is not counted.
CredFailsAfterFirst(count) == 1

CredFailsAfter(count) == count

\* and stored, whatever other workers stored meanwhile;
StoreCredFails(w) ==
    /\ At(w, "counting")
    /\ credFails' = CredFailsAfter(worker[w].count)
    /\ Moves(w, "pending")
    /\ PausesIf(w, "reset", CredFailsAfter(worker[w].count) >= CredentialsMaxRetries)
    /\ UNCHANGED <<status, breaker, used, streak>>

\* or it can be used.
Resolve(w) ==
    /\ At(w, "fetched") /\ Outcomes \intersect ({"render"} \union Answers) # {}
    /\ credFails' = 0
    /\ Does(w, "resolved")
    /\ UNCHANGED <<status, place, breaker, used, streak>>

\* finishRenderFailure
RenderFails(w) ==
    /\ "render" \in Outcomes /\ At(w, "resolved")
    /\ Moves(w, "done")
    /\ breaker' = AfterRender(breaker, TRUE)
    /\ PausesIf(w, "nothing", RenderTrips(breaker, TRUE))
    /\ UNCHANGED <<status, credFails, used, streak>>

\* What the breaker says of a rendering that succeeded is not looked at.
Render(w) ==
    /\ At(w, "resolved") /\ Outcomes \intersect Answers # {}
    /\ breaker' = AfterRender(breaker, FALSE)
    /\ Does(w, "rendered")
    /\ UNCHANGED <<status, place, credFails, used, streak>>

Sent(w) ==
    /\ "sent" \in Outcomes /\ At(w, "rendered")
    /\ breaker' = AfterSuccess(breaker)
    /\ Moves(w, "done")
    /\ Ends(w)
    /\ streak' = 0
    /\ UNCHANGED <<status, credFails, used>>

\* applyVerdict
Fatal(w) ==
    /\ "fatal" \in Outcomes /\ At(w, "rendered")
    /\ Moves(w, "pending")
    /\ breaker' = AfterFatal(breaker)
    /\ PausesIf(w, "nothing", FatalTrips(breaker))
    /\ streak' = streak + 1
    /\ UNCHANGED <<status, credFails, used>>

Retry(w) ==
    /\ "retry" \in Outcomes /\ At(w, "rendered")
    /\ Moves(w, "pending")
    /\ Ends(w)
    /\ UNCHANGED <<status, breaker, credFails, used, streak>>

\* It failed for good, for itself alone: neither a fatal answer nor a success.
Refused(w) ==
    /\ "refused" \in Outcomes /\ At(w, "rendered")
    /\ Moves(w, "done")
    /\ Ends(w)
    /\ UNCHANGED <<status, breaker, credFails, used, streak>>

-----------------------------------------------------------------------------
\* pause, and what follows it

\* What the callers of pause do afterwards: release the message, drop the count.
Afterwards(w) ==
    /\ IF worker[w].after = "release" THEN Moves(w, "pending") ELSE UNCHANGED place
    /\ credFails' = IF worker[w].after = "reset" THEN 0 ELSE credFails
    /\ Ends(w)

\* The statement changes a campaign that is sending, and no other.
Pause(w) ==
    /\ At(w, "pausing")
    /\ status' = "paused"
    /\ Does(w, "forgetting")
    /\ UNCHANGED <<place, breaker, credFails, used, streak>>

\* (mutant) The counts are forgotten, the flag is not.
ForgetCounts(w) ==
    /\ At(w, "forgetting")
    /\ breaker' = [Fresh EXCEPT !.tripped = breaker.tripped]
    /\ Afterwards(w)
    /\ UNCHANGED <<status, used, streak>>

Forget(w) ==
    /\ At(w, "forgetting")
    /\ breaker' = Fresh
    /\ Afterwards(w)
    /\ UNCHANGED <<status, used, streak>>

\* The statement fails: the breaker keeps its state.
PauseFails(w) ==
    /\ At(w, "pausing") /\ used.faults < MaxPauseFaults
    /\ used' = [used EXCEPT !.faults = @ + 1]
    /\ Afterwards(w)
    /\ UNCHANGED <<status, breaker, streak>>

Resume ==
    /\ status = "paused" /\ used.resumes < MaxResumes
    /\ status' = "sending"
    /\ used' = [used EXCEPT !.resumes = @ + 1]
    /\ streak' = 0
    /\ UNCHANGED <<place, worker, breaker, credFails>>

-----------------------------------------------------------------------------
Process(w) ==
    \/ HeaderUnreadable(w) \/ HeaderFails(w) \/ ProviderBlocked(w)
    \/ LoadCredFails(w) \/ StoreCredFails(w) \/ Resolve(w) \/ RenderFails(w) \/ Render(w)
    \/ Sent(w) \/ Fatal(w) \/ Retry(w) \/ Refused(w) \/ Pause(w) \/ Forget(w)

Next ==
    \/ \E batch \in SUBSET Message : Claim(batch)
    \/ \E m \in Message : Feed(m)
    \/ \E w \in Worker :
          \/ \E m \in Message : Take(w, m)
          \/ Process(w) \/ PauseFails(w)
    \/ Resume

Spec == Init /\ [][Next]_vars

\* The claimer ticks and feeds the channel, workers take what is in the channel and finish
\* what they began.
FairSpec ==
    /\ Spec
    /\ WF_vars(\E batch \in SUBSET Message : Claim(batch))
    /\ WF_vars(\E m \in Message : Feed(m))
    /\ \A w \in Worker : WF_vars(Process(w)) /\ WF_vars(\E m \in Message : Take(w, m))

-----------------------------------------------------------------------------
\* Properties

TypeOK ==
    /\ status \in {"sending", "paused"}
    /\ place \in [Message -> {"pending", "batch", "channel", "held", "done"}]
    /\ worker \in [Worker -> {Idle} \union
          [stage : {"fetched", "resolved", "rendered"}, of : Message] \union
          [stage : {"counting"}, of : Message, count : Nat] \union
          [stage : {"pausing", "forgetting"}, of : Message,
           after : {"release", "reset", "nothing"}, since : Nat]]
    /\ breaker \in [fatal : Nat, seen : Nat, failed : Nat, tripped : BOOLEAN,
          sample : [0..RenderSampleWindow - 1 -> BOOLEAN], at : 0..RenderSampleWindow - 1,
          count : 0..RenderSampleWindow, fails : Nat]
    /\ credFails \in Nat /\ streak \in Nat
    /\ used \in [faults : Nat, resumes : Nat]

Stopping(w) == worker[w].stage \in {"pausing", "forgetting"}

\* The sample counts exactly the failures among the results it still holds (breaker.go).
SampleIsExact ==
    breaker.fails = Cardinality({i \in 0..RenderSampleWindow - 1 : breaker.sample[i]})

\* Whenever the breaker has tripped on renderings, some worker is on its way to pause the
\* campaign.  process drops the answer for a rendering that succeeded, so it must be a
\* failed one that trips it.
TripIsActedOn ==
    breaker.tripped => used.faults > 0 \/ \E w \in Worker : Stopping(w)

\* Wrong credentials cost the threshold, one call of every worker and what was claimed
\* already, in the channel and in the claimer's hands, and not a call per message (the
\* breaker's package comment).
FatalsAreBounded == used.resumes = 0 =>
    streak < FatalThreshold + Cardinality(Worker) + Capacity + BatchSize + used.faults

\* A campaign does not go round for ever: unless its header stays unreadable or its messages
\* are merely told to come later, it is paused or all of them are decided, however the
\* workers' counting interferes.
Stops ==
    <>[][\A w \in Worker : ~Retry(w) /\ ~HeaderUnreadable(w)]_vars
        => (status = "sending") ~> (status = "paused" \/ \A m \in Message : place[m] = "done")

\* A share of failed renderings over the limit stops the campaign (finishRenderFailure).
RenderRateStops ==
    (OverLimit(breaker) /\ \A w \in Worker : At(w, "idle")) => status # "sending"

\* A resumed campaign begins anew: it is not paused for what failed before (Forget).
ResumesClean == [][\A w \in Worker :
    (status = "sending" /\ status' = "paused" /\ At(w, "pausing") /\ worker'[w].stage = "forgetting")
        => worker[w].since = used.resumes]_vars
=============================================================================
