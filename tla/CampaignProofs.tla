--------------------------- MODULE CampaignProofs ---------------------------
(***************************************************************************)
(* Theorems about Campaign, for every value of its constants.              *)
(*                                                                         *)
(* The inductive invariant IInv has six parts.  Stamping and Built tell    *)
(* what rows there are; Phases ties the status of the campaign to the      *)
(* progress of the job and to what the requests have read; Ticking says    *)
(* what the watchdog may rely on, and NoOrphans is inductive itself.  Each *)
(* part has a lemma <Part>Step, which goes through the actions.            *)
(*                                                                         *)
(* The refinement of CampaignPromise rests on IInv: each actor has a lemma *)
(* <Actor>Kept that names the action of the promise its steps are, and     *)
(* StepKept goes through Next.                                             *)
(***************************************************************************)
EXTENDS Campaign, FiniteSetTheorems, TLAPS

-----------------------------------------------------------------------------
(* Types.                                                                  *)

\* The types of the variables, one by one.
CampaignRows == [status : Statuses, stamp : Stamps \cup {NoStamp},
                 release : Nat, reason : Reasons, at : Times]
CounterRows == [total : Nat, sent : Nat, failed : Nat, skipped : Nat]
ProgressRows == [phase : {"none", "materializing", "done"}, cursor : 0..N]
Messages == [status : MessageStates, release : Nat]
Jobs == [state : {"none", "waiting", "active"}, tries : 0..RetryLimit]
Runs == [pc : {"idle", "start", "decide", "load", "batch", "advance",
               "check", "cleanup", "timeout", "finish", "done"},
         stamp : Stamps \cup {NoStamp}, release : Nat, cursor : 0..N, last : BOOLEAN]
Requests == [pc : {"idle", "send", "claimed", "unsend", "resume",
                   "resumed", "unresume", "undo", "clean", "send-now"},
             status : Statuses, reason : Reasons]
Ticks == [pc : {"idle", "reconcile", "drain", "count", "close"},
          verdict : {"sent", "partially_sent", "failed"}, complete : BOOLEAN]
Budgets == [requests : 0..MaxRequests, faults : 0..MaxFaults, returns : 0..MaxReturns]

Windows == window \in [opened : Nat, elapsed : Nat]
           /\ window.elapsed <= window.opened /\ campaign.release <= window.opened

Typed ==
    /\ campaign \in CampaignRows /\ counters \in CounterRows
    /\ progress \in ProgressRows /\ message \in [Stamps -> [Contacts -> Messages]]
    /\ job \in Jobs /\ runner \in [Runners -> Runs] /\ request \in [Users -> Requests]
    /\ scheduler \in BOOLEAN /\ quota \in BOOLEAN /\ quiet \in BOOLEAN
    /\ watchdog \in Ticks /\ Windows /\ used \in Budgets

LEMMA TypeParts == TypeOK <=> Typed
BY DEF TypeOK, Typed, CampaignRows, CounterRows, ProgressRows, Messages, Jobs, Runs, Requests,
       Ticks, Windows, Budgets

LEMMA TypePartsNext == TypeOK' <=> Typed'
BY DEF TypeOK, Typed, CampaignRows, CounterRows, ProgressRows, Messages, Jobs, Runs, Requests,
       Ticks, Windows, Budgets

LEMMA CountType == \A statuses : Count(statuses) \in Nat
<1>1. TAKE statuses
<1> DEFINE All == Stamps \X Contacts
           Some == {p \in All : message[p[1]][p[2]].status \in statuses}
<1>2. IsFiniteSet(Contacts) BY CampaignAssumption, FS_Interval DEF Contacts
<1>3. IsFiniteSet(All) BY <1>2, CampaignAssumption, FS_Product
<1>4. Some \in SUBSET All OBVIOUS
<1>5. IsFiniteSet(Some) BY <1>3, <1>4, FS_Subset
<1>6. Cardinality(Some) \in Nat BY <1>5, FS_CardinalityType
<1> QED BY <1>6 DEF Count

LEMMA TypeInit == Init => TypeOK
<1> SUFFICES ASSUME Init PROVE TypeOK OBVIOUS
<1> USE DEF Init
<1>1. campaign \in CampaignRows /\ Windows
  BY DEF CampaignRows, Windows, Statuses, Reasons, Times
<1>2. counters \in CounterRows /\ progress \in ProgressRows
  BY CampaignAssumption DEF CounterRows, ProgressRows
<1>3. message \in [Stamps -> [Contacts -> Messages]]
  BY DEF Messages, NoMessage, MessageStates
<1>4. job \in Jobs /\ watchdog \in Ticks
  BY CampaignAssumption DEF Jobs, Ticks, NoTick
<1>5. NoRun \in Runs
  BY CampaignAssumption DEF NoRun, Runs
<1>6. runner \in [Runners -> Runs] BY <1>5
<1>7. request \in [Users -> Requests]
  BY DEF NoRequest, Requests, Statuses, Reasons
<1>8. used \in Budgets BY CampaignAssumption DEF Budgets
<1> QED BY <1>1, <1>2, <1>3, <1>4, <1>6, <1>7, <1>8, TypeParts DEF Typed

\* The operators that several actions share.
LEMMA SpendTypes ==
    ASSUME used \in Budgets
    PROVE  /\ \A operation : SpendRequest(operation) => used' \in Budgets
           /\ SpendFault => used' \in Budgets
           /\ Spend("returns", MaxReturns) => used' \in Budgets
<1> USE CampaignAssumption DEF Budgets
<1>1. Spend("requests", MaxRequests) => used' \in Budgets BY DEF Spend
<1>2. Spend("faults", MaxFaults) => used' \in Budgets BY DEF Spend
<1>3. Spend("returns", MaxReturns) => used' \in Budgets BY DEF Spend
<1> QED BY <1>1, <1>2, <1>3 DEF SpendRequest, SpendFault

LEMMA MovedType ==
    ASSUME campaign \in CampaignRows, NEW from, NEW to \in Statuses
    PROVE  Moved(from, to) \in CampaignRows /\ Moved(from, to).release = campaign.release
BY DEF Moved, CampaignRows

LEMMA PausedType ==
    ASSUME campaign \in CampaignRows, NEW reason \in Reasons
    PROVE  Paused(reason) \in CampaignRows /\ Paused(reason).release = campaign.release
BY DEF Paused, CampaignRows, Statuses

LEMMA ResumedType ==
    ASSUME campaign \in CampaignRows
    PROVE  Resumed \in CampaignRows /\ Resumed.release = campaign.release
BY DEF Resumed, CampaignRows, Statuses, Reasons

LEMMA ClaimedType ==
    ASSUME TypeOK, StartMaterialization
    PROVE  campaign' \in CampaignRows /\ Windows' /\ quiet' \in BOOLEAN
<1>0. campaign \in CampaignRows /\ Windows /\ quiet \in BOOLEAN BY TypeParts DEF Typed
<1>1. PICK now \in Stamps : campaign' = Claimed(now) BY DEF StartMaterialization
<1>2. Claimed(now) \in CampaignRows
  <2>1. window.opened + 1 \in Nat BY <1>0 DEF Windows
  <2> QED BY <1>0, <2>1 DEF Claimed, CampaignRows, Statuses
<1>3. Windows'
  BY <1>0, <1>1, <1>2 DEF StartMaterialization, Windows, CampaignRows
<1>4. quiet' \in BOOLEAN BY <1>0 DEF StartMaterialization
<1> QED BY <1>1, <1>2, <1>3, <1>4

LEMMA ProgressedType == progress \in ProgressRows => Progressed \in ProgressRows
BY DEF Progressed, ProgressRows

LEMMA JobTypes ==
    ASSUME job \in Jobs
    PROVE  (Enqueue => job' \in Jobs) /\ (job.state = "active" => Retried \in Jobs)
BY CampaignAssumption DEF Jobs, Enqueue, Retried

LEMMA CleanupType ==
    ASSUME message \in [Stamps -> [Contacts -> Messages]], quiet \in BOOLEAN,
           NEW stamp, CancelPendingBatch(stamp)
    PROVE  message' \in [Stamps -> [Contacts -> Messages]] /\ quiet' \in BOOLEAN
<1> DEFINE After(batch) == [message EXCEPT ![stamp] = [c \in Contacts |->
                IF c \in batch THEN [status |-> "skipped", release |-> 0] ELSE @[c]]]
<1>1. PICK batch : message' = After(batch) BY DEF CancelPendingBatch
<1>2. [status |-> "skipped", release |-> 0] \in Messages BY DEF Messages, MessageStates
<1>3. After(batch) \in [Stamps -> [Contacts -> Messages]]
  BY <1>2
<1>4. quiet' \in BOOLEAN BY DEF CancelPendingBatch
<1> QED BY <1>1, <1>3, <1>4

LEMMA RequestTypes ==
    ASSUME Typed, NEW u \in Users, RequestStep(u)
    PROVE  Typed'
<1> USE DEF Typed
<1>a. NoRequest \in Requests BY DEF NoRequest, Requests, Statuses, Reasons
<1>b. Answer(u) => request' \in [Users -> Requests] BY <1>a DEF Answer
<1>c. \A pc \in {"idle", "send", "claimed", "unsend", "resume", "resumed", "unresume",
                  "undo", "clean", "send-now"} :
        Continue(u, pc) => request' \in [Users -> Requests]
  BY DEF Continue, Requests
<1>d. \A pc \in {"send", "resume", "undo", "send-now"} : Load(u, pc) => Typed'
  <2> SUFFICES ASSUME NEW pc \in {"send", "resume", "undo", "send-now"}, Load(u, pc) PROVE Typed'
    OBVIOUS
  <2>1. request' \in [Users -> Requests]
    BY DEF Load, Requests, CampaignRows, Statuses, Reasons
  <2>2. used' \in Budgets BY SpendTypes DEF Load
  <2> QED BY <2>1, <2>2 DEF Load, world, Windows
<1>1. CASE LoadToSend(u) BY <1>1, <1>d DEF LoadToSend
<1>2. CASE LoadToResume(u) BY <1>2, <1>d DEF LoadToResume
<1>3. CASE LoadToUndo(u) BY <1>3, <1>d DEF LoadToUndo
<1>4. CASE LoadToSendNow(u) BY <1>4, <1>d DEF LoadToSendNow
<1>5. CASE Send(u)
  <2>1. campaign' \in CampaignRows /\ Windows' /\ quiet' \in BOOLEAN
    BY <1>5, ClaimedType, TypeParts DEF Send, Windows
  <2>2. request' \in [Users -> Requests] BY <1>5, <1>b, <1>c DEF Send
  <2> QED BY <1>5, <2>1, <2>2, ProgressedType DEF Send
<1>6. CASE Resume(u)
  <2>1. request' \in [Users -> Requests] BY <1>6, <1>b, <1>c DEF Resume
  <2> QED BY <1>6, <2>1, ResumedType DEF Resume, world, Windows
<1>7. CASE SendNow(u)
  <2>1. campaign' \in CampaignRows /\ Windows'
    <3>1. [campaign EXCEPT !.release = 0] \in CampaignRows BY DEF CampaignRows
    <3>2. campaign' = campaign \/ campaign' = [campaign EXCEPT !.release = 0]
      BY <1>7 DEF SendNow
    <3>3. campaign'.release <= campaign.release BY <3>2 DEF CampaignRows
    <3>4. window' = window BY <1>7 DEF SendNow
    <3> QED BY <3>1, <3>2, <3>3, <3>4 DEF Windows, CampaignRows
  <2>2. message' \in [Stamps -> [Contacts -> Messages]]
    <3>1. \A s \in Stamps, c \in Contacts : message[s][c] \in Messages
            /\ [message[s][c] EXCEPT !.release = 0] \in Messages
      BY DEF Messages
    <3> QED BY <1>7, <3>1 DEF SendNow
  <2> QED BY <1>7, <1>b, <2>1, <2>2 DEF SendNow
<1>8. CASE EnqueueOfRequest(u)
  BY <1>8, <1>b, JobTypes DEF EnqueueOfRequest, Windows
<1>9. CASE EnqueueFails(u)
  <2>1. request' \in [Users -> Requests] BY <1>9, <1>c DEF EnqueueFails
  <2> QED BY <1>9, <2>1, SpendTypes DEF EnqueueFails, world, Windows
<1>10. CASE Unsend(u)
  <2>1. request[u].status \in Statuses BY DEF Requests
  <2> QED BY <1>10, <1>b, <2>1, MovedType DEF Unsend, world, Windows
<1>11. CASE Unresume(u)
  <2>1. request[u].reason \in Reasons BY DEF Requests
  <2> QED BY <1>11, <1>b, <2>1, PausedType DEF Unresume, world, Windows
<1>12. CASE Cancel(u)
  <2>1. campaign' \in CampaignRows /\ campaign'.release = campaign.release
    BY <1>12 DEF Cancel, CampaignRows, Statuses
  <2>2. request' \in [Users -> Requests] BY <1>12, <1>b, <1>c DEF Cancel
  <2> QED BY <1>12, <2>1, <2>2, SpendTypes DEF Cancel, world, Windows
<1>13. CASE Clean(u)
  <2>1. request' \in [Users -> Requests] BY <1>13, <1>b DEF Clean
  <2> QED BY <1>13, <2>1, CleanupType DEF Clean, Windows
<1> QED BY <1>1, <1>2, <1>3, <1>4, <1>5, <1>6, <1>7, <1>8, <1>9, <1>10, <1>11, <1>12, <1>13
        DEF RequestStep

LEMMA RunnerTypes ==
    ASSUME Typed, NEW r \in Runners, RunnerStep(r) \/ RunThrows(r)
    PROVE  Typed'
<1> USE DEF Typed, outside
<1>a. NoRun \in Runs BY CampaignAssumption DEF NoRun, Runs
<1>b. \A pc \in {"idle", "start", "decide", "load", "batch", "advance", "check", "cleanup",
                  "timeout", "finish", "done"} :
        Go(r, pc) => runner' \in [Runners -> Runs]
  <2> SUFFICES ASSUME NEW pc \in {"idle", "start", "decide", "load", "batch", "advance",
                                  "check", "cleanup", "timeout", "finish", "done"}, Go(r, pc)
               PROVE  runner' \in [Runners -> Runs]
    OBVIOUS
  <2>1. [NoRun EXCEPT !.pc = pc] \in Runs BY <1>a DEF Runs
  <2>2. [runner[r] EXCEPT !.pc = pc] \in Runs BY DEF Runs
  <2> QED BY <2>1, <2>2 DEF Go
<1>c. runner[r] \in Runs OBVIOUS
<1>d. \A pc \in {"load", "decide"}, row \in CampaignRows :
        Begin(r, pc, row) => runner' \in [Runners -> Runs]
  <2> SUFFICES ASSUME NEW pc \in {"load", "decide"}, NEW row \in CampaignRows, Begin(r, pc, row)
               PROVE  runner' \in [Runners -> Runs]
    OBVIOUS
  <2>1. [runner[r] EXCEPT !.pc = pc, !.stamp = row.stamp, !.release = row.release] \in Runs
    BY <1>c DEF Runs, CampaignRows
  <2> QED BY <2>1 DEF Begin
<1>1. CASE JobStarts(r)
  <2>1. job' \in Jobs BY <1>1 DEF JobStarts, Jobs
  <2> QED BY <1>1, <1>b, <2>1 DEF JobStarts, Windows
<1>2. CASE Start(r)
  <2>1. campaign' \in CampaignRows /\ Windows' /\ quiet' \in BOOLEAN
    BY <1>2, ClaimedType, TypeParts DEF Start, Windows
  <2>2. runner' \in [Runners -> Runs]
    BY <1>2, <1>b, <1>d, <2>1 DEF Start
  <2> QED BY <1>2, <2>1, <2>2, ProgressedType DEF Start
<1>3. CASE Decide(r) BY <1>3, <1>b DEF Decide, Windows
<1>4. CASE LoadProgress(r)
  <2>1. runner' \in [Runners -> Runs]
    <3>1. [runner[r] EXCEPT !.pc = "batch", !.cursor = progress.cursor] \in Runs
      BY <1>c DEF Runs, ProgressRows
    <3> QED BY <1>4, <3>1 DEF LoadProgress
  <2> QED BY <1>4, <2>1 DEF LoadProgress, Windows
<1>5. CASE NotCompiled(r)
  BY <1>5, <1>b, MovedType DEF NotCompiled, Statuses, Windows
<1>6. CASE Batch(r)
  <2>1. message' \in [Stamps -> [Contacts -> Messages]]
    <3> DEFINE fresh == [status |-> "pending", release |-> runner[r].release]
               none == [status |-> "skipped", release |-> 0]
    <3>1. fresh \in Messages /\ none \in Messages
      BY <1>c DEF Messages, MessageStates, Runs
    <3>2. PICK skipped \in SUBSET BatchOf(r) :
            message' = [message EXCEPT ![runner[r].stamp] = [c \in Contacts |->
                IF c \notin BatchOf(r) \/ @[c].status # "none" THEN @[c]
                ELSE IF c \in skipped THEN none ELSE fresh]]
      BY <1>6 DEF Batch
    <3> HIDE DEF fresh, none
    <3> QED BY <3>1, <3>2
  <2>2. EndOf(r) \in 0..N
    <3>1. runner[r].cursor \in 0..N BY <1>c DEF Runs
    <3> QED BY <3>1, CampaignAssumption DEF EndOf
  <2>3. runner' \in [Runners -> Runs]
    <3> DEFINE last == BatchOf(r) = {}
    <3>1. last \in BOOLEAN OBVIOUS
    <3> HIDE DEF last
    <3>2. [runner[r] EXCEPT !.pc = IF last THEN "check" ELSE "advance",
                            !.cursor = EndOf(r), !.last = last] \in Runs
      BY <1>c, <2>2, <3>1 DEF Runs
    <3> QED BY <1>6, <3>2 DEF Batch, last
  <2>4. quiet' \in BOOLEAN BY <1>6 DEF Batch
  <2> QED BY <1>6, <2>1, <2>3, <2>4 DEF Batch, Windows
<1>7. CASE AdvanceCursor(r)
  <2>1. progress' \in ProgressRows BY <1>7, <1>c DEF AdvanceCursor, ProgressRows, Runs
  <2> QED BY <1>7, <1>b, <2>1 DEF AdvanceCursor, Windows
<1>8. CASE Check(r) BY <1>8, <1>b DEF Check, Windows
<1>9. CASE Cleanup(r)
  <2>1. runner' \in [Runners -> Runs] BY <1>9, <1>b DEF Cleanup
  <2> QED BY <1>9, <2>1, CleanupType DEF Cleanup, Windows
<1>10. CASE Timeout(r) BY <1>10, <1>b, PausedType DEF Timeout, Reasons, Windows
<1>11. CASE Finish(r)
  <2>1. campaign' \in CampaignRows /\ campaign'.release = campaign.release
    BY <1>11 DEF Finish, CampaignRows, Statuses
  <2>2. progress' \in ProgressRows BY <1>11 DEF Finish, ProgressRows
  <2>3. counters' \in CounterRows
    <3> DEFINE Rows == In(runner[r].stamp, MessageStates \ {"none"})
    <3>1. IsFiniteSet(Contacts) BY CampaignAssumption, FS_Interval DEF Contacts
    <3>2. Rows \in SUBSET Contacts BY DEF In
    <3>3. Cardinality(Rows) \in Nat BY <3>1, <3>2, FS_Subset, FS_CardinalityType
    <3> QED BY <1>11, <3>3 DEF Finish, CounterRows
  <2> QED BY <1>11, <1>b, <2>1, <2>2, <2>3 DEF Finish, Windows
<1>12. CASE JobEnds(r)
  <2>1. job' \in Jobs BY <1>12 DEF JobEnds, Jobs
  <2> QED BY <1>12, <1>a, <2>1 DEF JobEnds, Windows
<1>13. CASE RunThrows(r)
  <2>1. job' \in Jobs BY <1>13, JobTypes DEF RunThrows
  <2> QED BY <1>13, <1>a, <2>1, SpendTypes DEF RunThrows, Windows
<1> QED BY <1>1, <1>2, <1>3, <1>4, <1>5, <1>6, <1>7, <1>8, <1>9, <1>10, <1>11, <1>12, <1>13
        DEF RunnerStep

LEMMA OtherTypes ==
    ASSUME Typed, \/ Pause \/ Schedule \/ Unschedule \/ JobExpires
                  \/ SchedulerStep \/ ListPaused \/ ResumeOnQuota \/ WatchdogStep
                  \/ WorkerCrashes \/ ApiCrashes \/ TurnsQuiet \/ WindowElapses \/ TimePasses
    PROVE  Typed'
<1> USE DEF Typed
<1>a. \A pc \in {"idle", "reconcile", "drain", "count", "close"} : Tick(pc) => watchdog' \in Ticks
  BY DEF Tick, Ticks
<1>b. NoTick \in Ticks BY DEF NoTick, Ticks
<1>1. CASE Pause BY <1>1, SpendTypes, PausedType DEF Pause, world, Windows
<1>2. CASE Schedule
  <2>1. campaign' \in CampaignRows /\ campaign'.release = campaign.release
    BY <1>2 DEF Schedule, CampaignRows, Statuses, Times
  <2> QED BY <1>2, <2>1, SpendTypes DEF Schedule, world, Windows
<1>3. CASE Unschedule
  <2>1. campaign' \in CampaignRows /\ campaign'.release = campaign.release
    BY <1>3 DEF Unschedule, CampaignRows, Statuses, Times
  <2> QED BY <1>3, <2>1, SpendTypes DEF Unschedule, world, Windows
<1>4. CASE JobExpires
  <2>1. used' \in Budgets BY <1>4, SpendTypes DEF JobExpires
  <2> QED BY <1>4, <2>1, JobTypes DEF JobExpires, outside, Windows
<1>5. CASE SchedulerStep
  <2>1. CASE MarkMissed
    <3>1. campaign' \in CampaignRows /\ campaign'.release = campaign.release
      BY <2>1 DEF MarkMissed, CampaignRows, Statuses
    <3> QED BY <2>1, <3>1 DEF MarkMissed, Windows
  <2>2. CASE ClaimDue BY <2>2 DEF ClaimDue, elsewhere, Windows
  <2>3. CASE SendMaterialize BY <2>3, JobTypes DEF SendMaterialize, elsewhere, Windows
  <2> QED BY <1>5, <2>1, <2>2, <2>3 DEF SchedulerStep
<1>6. CASE ListPaused BY <1>6 DEF ListPaused, elsewhere, Windows
<1>7. CASE ResumeOnQuota BY <1>7, ResumedType DEF ResumeOnQuota, Windows
<1>8. CASE WatchdogStep
  <2> USE DEF cron, Windows
  <2>1. CASE ListRunning BY <2>1, <1>a DEF ListRunning
  <2>2. CASE ReconcileHandover
    <3>1. counters' \in CounterRows
      BY <2>2, CountType DEF ReconcileHandover, Tally, CounterRows
    <3>2. watchdog' \in Ticks BY <2>2 DEF ReconcileHandover, Ticks
    <3> QED BY <2>2, <3>1, <3>2 DEF ReconcileHandover
  <2>3. CASE IsDrained
    <3>1. watchdog' \in Ticks BY <2>3, <1>b DEF IsDrained, Ticks
    <3> QED BY <2>3, <3>1 DEF IsDrained
  <2>4. CASE ReadCounters
    <3>1. ClosingStatus(counters) \in {"sent", "partially_sent", "failed"}
      BY DEF ClosingStatus
    <3>2. watchdog' \in Ticks BY <2>4, <1>b, <3>1 DEF ReadCounters, Ticks
    <3> QED BY <2>4, <3>2 DEF ReadCounters
  <2>5. CASE Close
    <3>1. watchdog.verdict \in Statuses BY DEF Ticks, Statuses
    <3> QED BY <2>5, <1>b, <3>1, MovedType DEF Close
  <2> QED BY <1>8, <2>1, <2>2, <2>3, <2>4, <2>5 DEF WatchdogStep
<1>9. CASE WorkerCrashes
  <2>1. NoRun \in Runs BY CampaignAssumption DEF NoRun, Runs
  <2> QED BY <1>9, <1>b, <2>1, SpendTypes DEF WorkerCrashes, Windows
<1>10. CASE ApiCrashes
  <2>1. NoRequest \in Requests BY DEF NoRequest, Requests, Statuses, Reasons
  <2> QED BY <1>10, <2>1, SpendTypes DEF ApiCrashes, world, Windows
<1>11. CASE TurnsQuiet BY <1>11 DEF TurnsQuiet, database, Windows
<1>12. CASE WindowElapses
  <2>1. Windows' BY <1>12 DEF WindowElapses, database, Windows, CampaignRows
  <2> QED BY <1>12, <2>1 DEF WindowElapses, database
<1>13. CASE TimePasses
  <2>1. campaign' \in CampaignRows /\ campaign'.release = campaign.release
    BY <1>13 DEF TimePasses, CampaignRows, Times
  <2> QED BY <1>13, <2>1 DEF TimePasses, Windows
<1> QED BY <1>1, <1>2, <1>3, <1>4, <1>5, <1>6, <1>7, <1>8, <1>9, <1>10, <1>11, <1>12, <1>13

LEMMA MessageTypes ==
    ASSUME Typed, NEW s \in Stamps, NEW c \in Contacts, MessageStep(s, c)
    PROVE  Typed'
<1> USE DEF Typed
<1>1. \A status \in MessageStates : Becomes(s, c, status) =>
        message' \in [Stamps -> [Contacts -> Messages]] /\ quiet' \in BOOLEAN
  <2> SUFFICES ASSUME NEW status \in MessageStates, Becomes(s, c, status)
               PROVE  message' \in [Stamps -> [Contacts -> Messages]] /\ quiet' \in BOOLEAN
    OBVIOUS
  <2> DEFINE row == [status |-> status, release |-> 0]
  <2>1. row \in Messages BY DEF Messages
  <2>2. message' = [message EXCEPT ![s][c] = row] /\ quiet' = FALSE BY DEF Becomes
  <2> HIDE DEF row
  <2> QED BY <2>1, <2>2
<1>2. message' \in [Stamps -> [Contacts -> Messages]] /\ quiet' \in BOOLEAN
  BY <1>1, CampaignAssumption
     DEF MessageStep, SenderClaims, SenderSettles, SenderReturns, Revoke, MessageStates
<1>3. used' \in Budgets
  BY SpendTypes DEF MessageStep, SenderClaims, SenderSettles, SenderReturns, Revoke
<1>4. UNCHANGED <<database, window>>
  BY DEF MessageStep, SenderClaims, SenderSettles, SenderReturns, Revoke
<1> QED BY <1>2, <1>3, <1>4 DEF database, Windows

LEMMA TypeStep == TypeOK /\ [Next]_vars => TypeOK'
<1> SUFFICES ASSUME Typed, [Next]_vars PROVE Typed'
  BY TypeParts, TypePartsNext
<1>1. CASE UNCHANGED vars BY <1>1 DEF vars, Typed, Windows
<1>2. CASE Next
  BY <1>2, RequestTypes, RunnerTypes, OtherTypes, MessageTypes DEF Next
<1> QED BY <1>1, <1>2

\* The type invariant, for any number of contacts, requests and runs.
THEOREM CampaignTyped == Spec => []TypeOK
<1>1. Init => TypeOK BY TypeInit
<1>2. TypeOK /\ [Next]_vars => TypeOK' BY TypeStep
<1> QED BY <1>1, <1>2, PTL DEF Spec

-----------------------------------------------------------------------------
(* The inductive invariant.                                                *)

Working == {"decide", "load", "batch", "advance", "check", "cleanup", "timeout", "finish"}

\* All rows carry the stamp of the campaign, and so does every run.
Stamping ==
    /\ \A s \in Stamps, c \in Contacts : message[s][c].status # "none" => s = campaign.stamp
    /\ \A r \in Runners : runner[r].pc \in Working =>
        runner[r].stamp = campaign.stamp /\ campaign.stamp # NoStamp

\* The first n contacts have a row.
Covered(n) == \A c \in 1..n : \E s \in Stamps : message[s][c].status # "none"

\* The cursors never run ahead of the rows.
Built ==
    /\ Covered(progress.cursor)
    /\ progress.phase = "done" => Covered(N)
    /\ \A r \in Runners :
        /\ runner[r].pc \in {"batch", "advance", "check"} => Covered(runner[r].cursor)
        /\ runner[r].pc = "finish" => Covered(N)
        /\ runner[r].pc \in {"advance", "check"} /\ runner[r].last => Covered(N)

Loaded(u, statuses) == /\ request[u].pc \in {"send", "claimed", "unsend"}
                       /\ request[u].status \in statuses

\* What the status tells of the materialisation, and what a request may put back.
Phases ==
    /\ campaign.status \in {"queueing", "sending", "paused"} => progress.phase # "none"
    /\ campaign.status = "sending" => progress.phase = "done"
    /\ progress.phase = "done" => campaign.status \notin SendableFrom \cup {"queueing"}
    /\ \A u \in Users :
        /\ Loaded(u, {"sending"}) => progress.phase = "done"
        /\ Loaded(u, Final) => campaign.status \in Final

\* What the watchdog has read still holds when it uses it.
Ticking ==
    watchdog.pc \in {"drain", "count", "close"} /\ watchdog.complete =>
        /\ progress.phase = "done"
        /\ quiet \/ watchdog.pc = "close" => counters = Tally
        /\ watchdog.pc # "drain" => Drained
        /\ watchdog.pc = "close" => watchdog.verdict = ClosingStatus(counters)

IInv == TypeOK /\ Stamping /\ Built /\ Phases /\ Ticking /\ NoOrphans

-----------------------------------------------------------------------------
(* What the shared operators do to the rows.                               *)

SameRows == \A s \in Stamps, c \in Contacts :
    message'[s][c].status = "none" <=> message[s][c].status = "none"
NoNewPending == \A s \in Stamps, c \in Contacts :
    message'[s][c].status = "pending" => message[s][c].status = "pending"

LEMMA ClaimEffect ==
    ASSUME Typed, StartMaterialization
    PROVE  /\ campaign.status \in SendableFrom /\ campaign'.status = "queueing"
           /\ campaign'.stamp \in Stamps
           /\ campaign.stamp # NoStamp => campaign'.stamp = campaign.stamp
           /\ campaign.stamp # NoStamp => quiet' = quiet
<1>1. PICK now \in Stamps : campaign' = Claimed(now) BY DEF StartMaterialization
<1> QED BY <1>1, CampaignAssumption DEF StartMaterialization, Typed, CampaignRows, Claimed

LEMMA ResumeEffect ==
    ASSUME campaign \in CampaignRows
    PROVE  /\ Resumed.stamp = campaign.stamp
           /\ Resumed.status = IF progress.phase = "materializing" THEN "queueing" ELSE "sending"
BY DEF Resumed, CampaignRows

LEMMA CleanEffect ==
    ASSUME Typed, NEW stamp, CancelPendingBatch(stamp)
    PROVE  /\ SameRows /\ NoNewPending
           /\ In(stamp, {"pending"}) = {} => message' = message
           /\ message' # message => ~quiet'
           /\ quiet' => quiet
<1> DEFINE row == [status |-> "skipped", release |-> 0]
           After(batch) == [message EXCEPT ![stamp] = [c \in Contacts |->
                                IF c \in batch THEN row ELSE @[c]]]
<1>1. PICK batch \in SUBSET In(stamp, {"pending"}) :
        message' = After(batch) /\ quiet' = (quiet /\ batch = {})
  BY DEF CancelPendingBatch
<1>2. batch = {} => message' = message
  <2>1. stamp \in Stamps => message[stamp] = [c \in Contacts |-> message[stamp][c]] BY DEF Typed
  <2> QED BY <1>1, <2>1 DEF Typed
<1>3. row.status = "skipped" OBVIOUS
<1> HIDE DEF row
<1>4. \A s \in Stamps, c \in Contacts :
        \/ message'[s][c] = message[s][c]
        \/ message'[s][c] = row /\ message[s][c].status = "pending"
  BY <1>1 DEF Typed, In
<1> QED BY <1>1, <1>2, <1>3, <1>4 DEF SameRows, NoNewPending, Typed

LEMMA SendNowEffect ==
    ASSUME Typed, NEW u, SendNow(u)
    PROVE  /\ SameRows /\ NoNewPending
           /\ (\A s \in Stamps, c \in Contacts : message[s][c].status # "pending")
                => message' = message
           /\ message' # message => ~quiet'
           /\ quiet' => quiet
           /\ campaign'.status = campaign.status /\ campaign'.stamp = campaign.stamp
<1>1. \A s \in Stamps, c \in Contacts :
        /\ message'[s][c].status = message[s][c].status
        /\ message[s][c].status # "pending" => message'[s][c] = message[s][c]
  BY DEF SendNow, Typed, Messages
<1>2. ASSUME \A s \in Stamps, c \in Contacts : message[s][c].status # "pending"
      PROVE  message' = message
  <2>1. message' = [s \in Stamps |-> [c \in Contacts |-> message[s][c]]]
    BY <1>2 DEF SendNow
  <2> QED BY <2>1 DEF Typed
<1>3. campaign'.status = campaign.status /\ campaign'.stamp = campaign.stamp
  BY DEF SendNow, Typed, CampaignRows
<1> QED BY <1>1, <1>2, <1>3 DEF SendNow, SameRows, NoNewPending, Typed

LEMMA SettleEffect ==
    ASSUME Typed, NEW s \in Stamps, NEW c \in Contacts, MessageStep(s, c)
    PROVE  /\ SameRows
           /\ used'.returns = 0 => used.returns = 0 /\ NoNewPending
           /\ used'.faults = used.faults
           /\ message[s][c].status \in {"pending", "claimed"}
           /\ ~quiet'
           /\ UNCHANGED database
<1>1. PICK status \in MessageStates \ {"none"} : Becomes(s, c, status)
        /\ (used'.returns = 0 => used.returns = 0 /\ status # "pending")
        /\ used'.faults = used.faults
  <2>1. CASE SenderClaims(s, c) BY <2>1 DEF SenderClaims, MessageStates
  <2>2. CASE SenderSettles(s, c)
    BY <2>2, CampaignAssumption DEF SenderSettles, MessageStates
  <2>3. CASE SenderReturns(s, c)
    BY <2>3 DEF SenderReturns, Spend, MessageStates, Typed, Budgets
  <2>4. CASE Revoke(s, c) BY <2>4 DEF Revoke, MessageStates
  <2> QED BY <2>1, <2>2, <2>3, <2>4 DEF MessageStep
<1>2. message[s][c].status \in {"pending", "claimed"} /\ UNCHANGED database
  BY DEF MessageStep, SenderClaims, SenderSettles, SenderReturns, Revoke
<1>3. \A s1 \in Stamps, c1 \in Contacts :
        \/ message'[s1][c1] = message[s1][c1]
        \/ s1 = s /\ c1 = c /\ message'[s1][c1].status = status
  BY <1>1 DEF Becomes, Typed
<1> QED BY <1>1, <1>2, <1>3 DEF SameRows, NoNewPending, Becomes

LEMMA BatchEffect ==
    ASSUME Typed, Stamping, NEW r \in Runners, Batch(r)
    PROVE  /\ campaign.stamp \in Stamps
           /\ \A s \in Stamps, c \in Contacts :
                /\ message[s][c].status # "none" => message'[s][c] = message[s][c]
                /\ s # campaign.stamp => message'[s][c] = message[s][c]
           /\ \A c \in BatchOf(r) : message'[campaign.stamp][c].status # "none"
           /\ message' # message => ~quiet'
           /\ quiet' => quiet
<1>1. runner[r].stamp = campaign.stamp /\ campaign.stamp \in Stamps
  BY DEF Batch, Stamping, Working, Typed, CampaignRows
<1> DEFINE fresh == [status |-> "pending", release |-> runner[r].release]
           none == [status |-> "skipped", release |-> 0]
<1>2. PICK skipped \in SUBSET BatchOf(r) :
        message' = [message EXCEPT ![runner[r].stamp] = [c \in Contacts |->
            IF c \notin BatchOf(r) \/ @[c].status # "none" THEN @[c]
            ELSE IF c \in skipped THEN none ELSE fresh]]
  BY DEF Batch
<1>3. fresh.status # "none" /\ none.status # "none" OBVIOUS
<1> HIDE DEF fresh, none
<1>4. BatchOf(r) \subseteq Contacts BY DEF BatchOf
<1>5. \A s \in Stamps, c \in Contacts :
        IF s # campaign.stamp \/ c \notin BatchOf(r) \/ message[s][c].status # "none"
        THEN message'[s][c] = message[s][c]
        ELSE message'[s][c] \in {none, fresh}
  BY <1>1, <1>2, <1>4 DEF Typed
<1> QED BY <1>1, <1>3, <1>4, <1>5 DEF Batch

LEMMA GoEffect ==
    ASSUME Typed, NEW r \in Runners, NEW pc, Go(r, pc)
    PROVE  /\ runner'[r].pc = pc
           /\ pc # "done" => /\ runner'[r].stamp = runner[r].stamp
                             /\ runner'[r].cursor = runner[r].cursor
                             /\ runner'[r].last = runner[r].last
           /\ \A q \in Runners : q # r => runner'[q] = runner[q]
BY DEF Go, NoRun, Typed, Runs

LEMMA BeginEffect ==
    ASSUME Typed, NEW r \in Runners, NEW pc, NEW row, Begin(r, pc, row)
    PROVE  /\ runner'[r].pc = pc /\ runner'[r].stamp = row.stamp
           /\ \A q \in Runners : q # r => runner'[q] = runner[q]
BY DEF Begin, Typed, Runs

LEMMA ProgressedEffect ==
    ASSUME Typed
    PROVE  /\ Progressed.cursor = progress.cursor
           /\ progress.phase # "none" => Progressed.phase = progress.phase
           /\ progress.phase = "none" => Progressed.phase = "materializing"
BY DEF Progressed, Typed, ProgressRows

LEMMA ProgressedPhase ==
    ASSUME Typed, progress' = Progressed
    PROVE  \/ progress'.phase = progress.phase
           \/ progress.phase = "none" /\ progress'.phase = "materializing"
<1>1. CASE progress.phase = "none" BY <1>1, ProgressedEffect
<1>2. CASE progress.phase # "none" BY <1>2, ProgressedEffect
<1> QED BY <1>1, <1>2

LEMMA PausedEffect ==
    ASSUME Typed, NEW reason
    PROVE  Paused(reason).status = "paused" /\ Paused(reason).stamp = campaign.stamp
BY DEF Paused, Typed, CampaignRows

LEMMA AnswerEffect ==
    ASSUME Typed, NEW u \in Users
    PROVE  /\ Answer(u) => request'[u] = NoRequest
           /\ \A pc : Continue(u, pc) => /\ request'[u].pc = pc
                                         /\ request'[u].status = request[u].status
           /\ Answer(u) \/ (\E pc : Continue(u, pc)) =>
                \A v \in Users : v # u => request'[v] = request[v]
BY DEF Answer, Continue, Typed, Requests

\* The steps that leave the rows and the runs alone.
Others == \/ Pause \/ Schedule \/ Unschedule \/ JobExpires \/ SchedulerStep \/ ListPaused
          \/ ResumeOnQuota \/ WatchdogStep \/ ApiCrashes
          \/ TurnsQuiet \/ WindowElapses \/ TimePasses

LEMMA OthersEffect ==
    ASSUME Typed, Others
    PROVE  UNCHANGED <<message, runner, progress>> /\ campaign'.stamp = campaign.stamp
<1>1. UNCHANGED <<message, runner, progress>>
  BY DEF Others, Pause, Schedule, Unschedule, JobExpires, SchedulerStep, MarkMissed, ClaimDue,
         SendMaterialize, ListPaused, ResumeOnQuota, WatchdogStep, ListRunning,
         ReconcileHandover, IsDrained, ReadCounters, Close, ApiCrashes, TurnsQuiet,
         WindowElapses, TimePasses, world, outside, elsewhere, cron, database
<1>2. campaign'.stamp = campaign.stamp
  BY ResumeEffect
     DEF Others, Pause, Schedule, Unschedule, JobExpires, SchedulerStep, MarkMissed, ClaimDue,
         SendMaterialize, ListPaused, ResumeOnQuota, WatchdogStep, ListRunning,
         ReconcileHandover, IsDrained, ReadCounters, Close, ApiCrashes, TurnsQuiet,
         WindowElapses, TimePasses, outside, elsewhere, cron, database, world,
         Typed, CampaignRows, Moved, Paused
<1> QED BY <1>1, <1>2

-----------------------------------------------------------------------------
(* Stamping.                                                               *)

\* It depends on which rows there are, on the runs and on the stamp of the campaign.
LEMMA StampingKept ==
    ASSUME Stamping, SameRows, campaign'.stamp = campaign.stamp,
           \A r \in Runners : runner'[r].pc \in Working =>
                runner[r].pc \in Working /\ runner'[r].stamp = runner[r].stamp
    PROVE  Stamping'
BY DEF Stamping, SameRows

LEMMA NoStampNothing ==
    ASSUME Stamping, campaign.stamp = NoStamp
    PROVE  /\ \A s \in Stamps, c \in Contacts : message[s][c].status = "none"
           /\ \A r \in Runners : runner[r].pc \notin Working
BY CampaignAssumption DEF Stamping

LEMMA StampingRequest ==
    ASSUME Typed, Stamping, NEW u \in Users, RequestStep(u)
    PROVE  Stamping'
<1>1. CASE Send(u)
  <2>1. UNCHANGED <<message, runner>> BY <1>1 DEF Send
  <2>2. CASE StartMaterialization
    BY <2>1, <2>2, ClaimEffect, NoStampNothing DEF Stamping
  <2>3. CASE ~StartMaterialization
    <3>1. campaign' = campaign BY <1>1, <2>3 DEF Send
    <3> QED BY <2>1, <3>1 DEF Stamping
  <2> QED BY <2>2, <2>3
<1>2. CASE Clean(u)
  <2>1. SameRows BY <1>2, CleanEffect DEF Clean
  <2> QED BY <1>2, <2>1, StampingKept DEF Clean
<1>3. CASE SendNow(u)
  <2>1. SameRows /\ campaign'.stamp = campaign.stamp BY <1>3, SendNowEffect
  <2> QED BY <1>3, <2>1, StampingKept DEF SendNow
<1>4. CASE ~Send(u) /\ ~Clean(u) /\ ~SendNow(u)
  <2>1. UNCHANGED <<message, runner>>
    BY <1>4 DEF RequestStep, LoadToSend, LoadToResume, LoadToUndo, LoadToSendNow, Load, Resume,
                EnqueueOfRequest, EnqueueFails, Unsend, Unresume, Cancel, world
  <2>2. campaign'.stamp = campaign.stamp
    BY <1>4, ResumeEffect
       DEF RequestStep, LoadToSend, LoadToResume, LoadToUndo, LoadToSendNow, Load, Resume,
           EnqueueOfRequest, EnqueueFails, Unsend, Unresume, Cancel, Typed, CampaignRows,
           Moved, Paused
  <2> QED BY <2>1, <2>2 DEF Stamping
<1> QED BY <1>1, <1>2, <1>3, <1>4

LEMMA StampingRunner ==
    ASSUME Typed, Stamping, NEW r \in Runners, RunnerStep(r) \/ RunThrows(r)
    PROVE  Stamping'
<1> USE DEF Working
<1>1. CASE Start(r)
  <2>1. message' = message BY <1>1 DEF Start
  <2>2. CASE StartMaterialization
    <3>1. campaign'.stamp \in Stamps
            /\ (campaign.stamp # NoStamp => campaign'.stamp = campaign.stamp)
      BY <2>2, ClaimEffect
    <3>2. runner'[r].stamp = campaign'.stamp
            /\ \A q \in Runners : q # r => runner'[q] = runner[q]
      BY <1>1, <2>2, BeginEffect DEF Start, StartMaterialization
    <3> QED BY <2>1, <3>1, <3>2, NoStampNothing, CampaignAssumption DEF Stamping
  <2>3. CASE ~StartMaterialization
    <3>1. campaign' = campaign BY <1>1, <2>3 DEF Start
    <3>2. runner'[r].pc \in Working =>
             runner'[r].stamp = campaign.stamp /\ campaign.stamp # NoStamp
      BY <1>1, <2>3, BeginEffect, GoEffect DEF Start
    <3>3. \A q \in Runners : q # r => runner'[q] = runner[q]
      BY <1>1, <2>3, BeginEffect, GoEffect DEF Start
    <3> QED BY <2>1, <3>1, <3>2, <3>3 DEF Stamping
  <2> QED BY <2>2, <2>3
<1>2. CASE Batch(r)
  <2>1. \A s \in Stamps, c \in Contacts : message'[s][c].status # "none" => s = campaign.stamp
    BY <1>2, BatchEffect DEF Stamping
  <2>2. \A q \in Runners : runner'[q].stamp = runner[q].stamp
            /\ (q # r => runner'[q] = runner[q])
    BY <1>2 DEF Batch, Typed, Runs
  <2>3. campaign' = campaign /\ runner[r].pc \in Working BY <1>2 DEF Batch
  <2> QED BY <2>1, <2>2, <2>3 DEF Stamping
<1>3. CASE Cleanup(r)
  <2>1. SameRows BY <1>3, CleanEffect DEF Cleanup
  <2>2. \A q \in Runners : runner'[q].pc \in Working =>
            runner[q].pc \in Working /\ runner'[q].stamp = runner[q].stamp
    BY <1>3, GoEffect DEF Cleanup
  <2> QED BY <1>3, <2>1, <2>2, StampingKept DEF Cleanup
<1>4. CASE ~Start(r) /\ ~Batch(r) /\ ~Cleanup(r)
  <2>1. SameRows
    BY <1>4 DEF RunnerStep, JobStarts, Decide, LoadProgress, NotCompiled, AdvanceCursor, Check,
                Timeout, Finish, JobEnds, RunThrows, SameRows
  <2>2. campaign'.stamp = campaign.stamp
    BY <1>4 DEF RunnerStep, JobStarts, Decide, LoadProgress, NotCompiled, AdvanceCursor, Check,
                Timeout, Finish, JobEnds, RunThrows, Typed, CampaignRows, Moved, Paused
  <2>3. \A q \in Runners : runner'[q].pc \in Working =>
            runner[q].pc \in Working /\ runner'[q].stamp = runner[q].stamp
    <3>1. CASE LoadProgress(r) BY <3>1 DEF LoadProgress, Typed, Runs
    <3>2. CASE JobEnds(r) \/ RunThrows(r) BY <3>2 DEF JobEnds, RunThrows, NoRun, Typed, Runs
    <3>3. CASE ~LoadProgress(r) /\ ~JobEnds(r) /\ ~RunThrows(r)
      BY <1>4, <3>3, GoEffect
         DEF RunnerStep, JobStarts, Decide, NotCompiled, AdvanceCursor, Check, Timeout, Finish
    <3> QED BY <3>1, <3>2, <3>3
  <2> QED BY <2>1, <2>2, <2>3, StampingKept
<1> QED BY <1>1, <1>2, <1>3, <1>4

LEMMA StampingStep == Typed /\ Stamping /\ [Next]_vars => Stamping'
<1> SUFFICES ASSUME Typed, Stamping, [Next]_vars PROVE Stamping' OBVIOUS
<1>1. CASE UNCHANGED vars BY <1>1 DEF vars, Stamping
<1>2. CASE \E u \in Users : RequestStep(u) BY <1>2, StampingRequest
<1>3. CASE \E r \in Runners : RunnerStep(r) \/ RunThrows(r) BY <1>3, StampingRunner
<1>4. CASE \E s \in Stamps, c \in Contacts : MessageStep(s, c)
  <2>1. SameRows /\ UNCHANGED database BY <1>4, SettleEffect
  <2> QED BY <2>1, StampingKept DEF database
<1>5. CASE WorkerCrashes BY <1>5 DEF WorkerCrashes, Stamping, NoRun, Working
<1>6. CASE Others BY <1>6, OthersEffect DEF Stamping
<1> QED BY <1>1, <1>2, <1>3, <1>4, <1>5, <1>6 DEF Next, Others

-----------------------------------------------------------------------------
(* Built.                                                                  *)

RowsKept == \A s \in Stamps, c \in Contacts :
    message[s][c].status # "none" => message'[s][c].status # "none"

LEMMA CoveredKept ==
    ASSUME RowsKept, NEW n \in 0..N, Covered(n)
    PROVE  Covered(n)'
BY CampaignAssumption DEF RowsKept, Covered, Contacts

\* No row is lost, no cursor moves and no run gets on.
LEMMA BuiltKept ==
    ASSUME Typed, Built, RowsKept, progress'.cursor = progress.cursor,
           progress'.phase = "done" => progress.phase = "done",
           \A r \in Runners :
                \/ runner'[r].pc \notin {"batch", "advance", "check", "finish"}
                \/ runner'[r] = runner[r]
    PROVE  Built'
<1>1. progress.cursor \in 0..N /\ N \in 0..N
        /\ \A r \in Runners : runner[r].cursor \in 0..N
  BY CampaignAssumption DEF Typed, ProgressRows, Runs
<1>2. Covered(N)' <=> \A c \in 1..N : \E s \in Stamps : message'[s][c].status # "none"
  BY DEF Covered
<1>3. Covered(N) => Covered(N)' BY <1>1, CoveredKept
<1>4. Covered(progress.cursor)'
  BY <1>1, CampaignAssumption DEF Built, Covered, RowsKept, Contacts
<1>5. ASSUME NEW r \in Runners, runner'[r].pc \in {"batch", "advance", "check"}
      PROVE  Covered(runner[r].cursor)'
  <2>1. runner'[r] = runner[r] BY <1>5
  <2>2. Covered(runner[r].cursor) BY <1>5, <2>1 DEF Built
  <2>3. \A c \in 1..runner[r].cursor : c \in Contacts BY <1>1, CampaignAssumption DEF Contacts
  <2> QED BY <2>1, <2>2, <2>3 DEF Covered, RowsKept
<1> QED BY <1>3, <1>4, <1>5 DEF Built

LEMMA BuiltRequest ==
    ASSUME Typed, Built, NEW u \in Users, RequestStep(u)
    PROVE  Built'
<1>1. RowsKept
  <2>1. CASE Clean(u) \/ SendNow(u)
    BY <2>1, CleanEffect, SendNowEffect DEF Clean, SameRows, RowsKept
  <2>2. CASE ~Clean(u) /\ ~SendNow(u)
    BY <2>2 DEF RequestStep, LoadToSend, LoadToResume, LoadToUndo, LoadToSendNow, Load, Send,
                Resume, EnqueueOfRequest, EnqueueFails, Unsend, Unresume, Cancel, world, RowsKept
  <2> QED BY <2>1, <2>2
<1>2. runner' = runner /\ progress' \in {progress, Progressed}
  BY DEF RequestStep, LoadToSend, LoadToResume, LoadToUndo, LoadToSendNow, Load, Send,
         Resume, EnqueueOfRequest, EnqueueFails, Unsend, Unresume, Cancel, Clean, SendNow, world
<1>3. progress'.cursor = progress.cursor /\ (progress'.phase = "done" => progress.phase = "done")
  BY <1>2 DEF Progressed, Typed, ProgressRows
<1> QED BY <1>1, <1>2, <1>3, BuiltKept

LEMMA BuiltRunner ==
    ASSUME Typed, Stamping, Built, NEW r \in Runners, RunnerStep(r) \/ RunThrows(r)
    PROVE  Built'
<1> USE CampaignAssumption
<1>a. N \in 0..N /\ runner[r].cursor \in 0..N /\ progress.cursor \in 0..N
  BY DEF Typed, Runs, ProgressRows
<1>1. CASE Start(r)
  <2>1. RowsKept /\ progress' = Progressed BY <1>1 DEF Start, RowsKept
  <2>2. progress'.cursor = progress.cursor
          /\ (progress'.phase = "done" => progress.phase = "done")
    BY <2>1 DEF Progressed, Typed, ProgressRows
  <2>3. \A q \in Runners :
            \/ runner'[q].pc \notin {"batch", "advance", "check", "finish"}
            \/ runner'[q] = runner[q]
    BY <1>1, GoEffect, BeginEffect DEF Start
  <2> QED BY <2>1, <2>2, <2>3, BuiltKept
<1>2. CASE LoadProgress(r)
  <2>1. runner'[r].pc = "batch" /\ runner'[r].cursor = progress.cursor
          /\ \A q \in Runners : q # r => runner'[q] = runner[q]
    BY <1>2 DEF LoadProgress, Typed, Runs
  <2>2. progress' = progress /\ message' = message BY <1>2 DEF LoadProgress
  <2> QED BY <2>1, <2>2 DEF Built, Covered
<1>3. CASE Batch(r)
  <2>1. RowsKept BY <1>3, BatchEffect DEF RowsKept
  <2>2. \A c \in 1..EndOf(r) : \E s \in Stamps : message'[s][c].status # "none"
    <3>1. Covered(runner[r].cursor) BY <1>3 DEF Built, Batch
    <3>2. \A c \in 1..EndOf(r) : c \in 1..runner[r].cursor \/ c \in BatchOf(r)
      BY <1>a DEF EndOf, BatchOf, Contacts
    <3>3. \A c \in 1..runner[r].cursor : c \in Contacts BY <1>a DEF Contacts
    <3> QED BY <1>3, <2>1, <3>1, <3>2, <3>3, BatchEffect DEF Covered, RowsKept
  <2>3. BatchOf(r) = {} => EndOf(r) = N
    <3>1. runner[r].cursor < N => runner[r].cursor + 1 \in BatchOf(r)
      BY <1>a DEF BatchOf, Contacts
    <3> QED BY <1>a, <3>1 DEF EndOf
  <2>4. /\ runner'[r].cursor = EndOf(r)
        /\ runner'[r].pc # "finish"
        /\ runner'[r].last => BatchOf(r) = {}
        /\ \A q \in Runners : q # r => runner'[q] = runner[q]
    <3> DEFINE last == BatchOf(r) = {}
    <3>1. runner' = [runner EXCEPT ![r] =
            [@ EXCEPT !.pc = IF last THEN "check" ELSE "advance",
                      !.cursor = EndOf(r), !.last = last]]
      BY <1>3 DEF Batch
    <3>2. last \in BOOLEAN OBVIOUS
    <3> HIDE DEF last
    <3>3. runner'[r].last = last /\ runner'[r].cursor = EndOf(r)
            /\ runner'[r].pc \in {"check", "advance"}
            /\ \A q \in Runners : q # r => runner'[q] = runner[q]
      BY <3>1, <3>2 DEF Typed, Runs
    <3> QED BY <3>3 DEF last
  <2>5. Covered(progress.cursor)' /\ (progress'.phase = "done" => Covered(N)')
    <3>1. progress' = progress BY <1>3 DEF Batch
    <3>2. \A n \in 0..N : \A c \in 1..n : c \in Contacts BY DEF Contacts
    <3> QED BY <1>a, <2>1, <3>1, <3>2 DEF Built, Covered, RowsKept
  <2>6. ASSUME NEW q \in Runners PROVE
            /\ runner'[q].pc \in {"batch", "advance", "check"} =>
                 \A c \in 1..runner'[q].cursor : \E s \in Stamps : message'[s][c].status # "none"
            /\ \/ runner'[q].pc = "finish"
               \/ runner'[q].pc \in {"advance", "check"} /\ runner'[q].last
               => \A c \in 1..N : \E s \in Stamps : message'[s][c].status # "none"
    <3>1. CASE q = r BY <2>2, <2>3, <2>4, <3>1
    <3>2. CASE q # r
      <4>1. runner'[q] = runner[q] /\ runner[q].cursor \in 0..N
        BY <2>4, <3>2 DEF Typed, Runs
      <4>2. \A n \in 0..N : \A c \in 1..n : c \in Contacts BY DEF Contacts
      <4> QED BY <1>a, <2>1, <4>1, <4>2 DEF Built, Covered, RowsKept
    <3> QED BY <3>1, <3>2
  <2> QED BY <2>5, <2>6 DEF Built, Covered
<1>4. CASE AdvanceCursor(r)
  <2>1. progress'.cursor = runner[r].cursor /\ progress'.phase = progress.phase
    BY <1>4 DEF AdvanceCursor, Typed, ProgressRows
  <2>2. runner[r].pc = "advance" /\ message' = message BY <1>4 DEF AdvanceCursor
  <2>3. runner'[r].pc = "check" /\ runner'[r].cursor = runner[r].cursor
          /\ runner'[r].last = runner[r].last
          /\ \A q \in Runners : q # r => runner'[q] = runner[q]
    BY <1>4, GoEffect DEF AdvanceCursor
  <2> QED BY <2>1, <2>2, <2>3 DEF Built, Covered
<1>5. CASE Check(r)
  <2>1. progress' = progress /\ message' = message /\ runner[r].pc = "check" BY <1>5 DEF Check
  <2>2. PICK pc \in {"cleanup", "done", "finish", "batch", "timeout"} :
            Go(r, pc) /\ (pc = "finish" => runner[r].last)
    BY <1>5 DEF Check
  <2>3. /\ runner'[r].pc = pc /\ (pc # "done" => runner'[r].cursor = runner[r].cursor)
        /\ \A q \in Runners : q # r => runner'[q] = runner[q]
    BY <2>2, GoEffect
  <2> QED BY <2>1, <2>2, <2>3 DEF Built, Covered
<1>6. CASE Finish(r)
  <2>1. Covered(N) /\ message' = message BY <1>6 DEF Finish, Built
  <2>2. progress'.cursor = progress.cursor BY <1>6 DEF Finish, Typed, ProgressRows
  <2>3. runner'[r].pc = "done" /\ \A q \in Runners : q # r => runner'[q] = runner[q]
    BY <1>6, GoEffect DEF Finish
  <2> QED BY <2>1, <2>2, <2>3 DEF Built, Covered
<1>7. CASE Cleanup(r)
  <2>1. RowsKept BY <1>7, CleanEffect DEF Cleanup, SameRows, RowsKept
  <2>2. \A q \in Runners : runner'[q].pc \in {"done", "cleanup"} \/ runner'[q] = runner[q]
    BY <1>7, GoEffect DEF Cleanup
  <2> QED BY <1>7, <2>1, <2>2, BuiltKept DEF Cleanup
<1>8. CASE JobStarts(r) \/ Decide(r) \/ NotCompiled(r) \/ Timeout(r)
  <2>1. RowsKept /\ progress' = progress
    BY <1>8 DEF JobStarts, Decide, NotCompiled, Timeout, RowsKept
  <2>2. \A q \in Runners : runner'[q].pc \in {"start", "load", "done"} \/ runner'[q] = runner[q]
    BY <1>8, GoEffect DEF JobStarts, Decide, NotCompiled, Timeout
  <2> QED BY <2>1, <2>2, BuiltKept
<1>9. CASE JobEnds(r) \/ RunThrows(r)
  <2>1. RowsKept /\ progress' = progress BY <1>9 DEF JobEnds, RunThrows, RowsKept
  <2>2. \A q \in Runners : runner'[q].pc = "idle" \/ runner'[q] = runner[q]
    BY <1>9 DEF JobEnds, RunThrows, NoRun, Typed
  <2> QED BY <2>1, <2>2, BuiltKept
<1> QED BY <1>1, <1>2, <1>3, <1>4, <1>5, <1>6, <1>7, <1>8, <1>9 DEF RunnerStep

LEMMA BuiltStep == Typed /\ Stamping /\ Built /\ [Next]_vars => Built'
<1> SUFFICES ASSUME Typed, Stamping, Built, [Next]_vars PROVE Built' OBVIOUS
<1>1. CASE UNCHANGED vars BY <1>1 DEF vars, Built, Covered
<1>2. CASE \E u \in Users : RequestStep(u) BY <1>2, BuiltRequest
<1>3. CASE \E r \in Runners : RunnerStep(r) \/ RunThrows(r) BY <1>3, BuiltRunner
<1>4. CASE \E s \in Stamps, c \in Contacts : MessageStep(s, c)
  <2>1. SameRows /\ UNCHANGED database BY <1>4, SettleEffect
  <2> QED BY <2>1, BuiltKept DEF database, SameRows, RowsKept
<1>5. CASE WorkerCrashes
  <2>1. \A r \in Runners : runner'[r].pc = "idle" BY <1>5 DEF WorkerCrashes, NoRun
  <2> QED BY <1>5, <2>1, BuiltKept DEF WorkerCrashes, RowsKept
<1>6. CASE Others BY <1>6, OthersEffect DEF Built, Covered
<1> QED BY <1>1, <1>2, <1>3, <1>4, <1>5, <1>6 DEF Next, Others

-----------------------------------------------------------------------------
(* Phases.                                                                 *)

Sending == {"send", "claimed", "unsend"}

NothingLoaded == \A v \in Users : request'[v].pc \in Sending =>
    request[v].pc \in Sending /\ request'[v].status = request[v].status

LEMMA PhasesKept ==
    ASSUME Phases, progress'.phase = progress.phase, NothingLoaded,
           campaign'.status \in {"queueing", "sending", "paused"} => progress.phase # "none",
           campaign'.status = "sending" => progress.phase = "done",
           progress.phase = "done" => campaign'.status \notin SendableFrom \cup {"queueing"},
           campaign.status \in Final => campaign'.status \in Final
    PROVE  Phases'
BY DEF Phases, Loaded, NothingLoaded, Sending

LEMMA PhasesSame ==
    ASSUME Phases, progress'.phase = progress.phase, NothingLoaded,
           campaign'.status = campaign.status
    PROVE  Phases'
BY PhasesKept DEF Phases

LEMMA PhasesRequest ==
    ASSUME Typed, Phases, NEW u \in Users, RequestStep(u)
    PROVE  Phases'
<1> USE DEF SendableFrom, Final, Sending
<1>a. Answer(u) => NothingLoaded BY AnswerEffect DEF NothingLoaded, NoRequest
<1>b. \A pc : Continue(u, pc) /\ (pc \in Sending => request[u].pc \in Sending) => NothingLoaded
  BY AnswerEffect DEF NothingLoaded
<1>1. CASE LoadToSend(u)
  <2>1. /\ UNCHANGED <<campaign, progress>>
        /\ request'[u].status = campaign.status
        /\ \A v \in Users : v # u => request'[v] = request[v]
    BY <1>1 DEF LoadToSend, Load, world, Typed, Requests
  <2> QED BY <2>1 DEF Phases, Loaded
<1>2. CASE LoadToResume(u) \/ LoadToUndo(u) \/ LoadToSendNow(u)
  <2>1. UNCHANGED <<campaign, progress>>
    BY <1>2 DEF LoadToResume, LoadToUndo, LoadToSendNow, Load, world
  <2>2. NothingLoaded
    BY <1>2 DEF LoadToResume, LoadToUndo, LoadToSendNow, Load, NothingLoaded, Typed
  <2> QED BY <2>1, <2>2, PhasesSame
<1>3. CASE Send(u)
  <2>1. CASE StartMaterialization
    <3>1. campaign.status \in SendableFrom /\ campaign'.status = "queueing" BY <2>1, ClaimEffect
    <3>2. progress.phase # "done" BY <3>1 DEF Phases
    <3>3. progress'.phase = "materializing"
      BY <1>3, <3>2, ProgressedEffect DEF Send, Typed, ProgressRows
    <3>4. NothingLoaded BY <1>3, <2>1, <1>b DEF Send, StartMaterialization
    <3> QED BY <3>1, <3>2, <3>3, <3>4 DEF Phases, Loaded, NothingLoaded
  <2>2. CASE ~StartMaterialization
    <3>1. campaign' = campaign /\ NothingLoaded BY <1>3, <2>2, <1>a DEF Send
    <3>2. progress' = Progressed BY <1>3 DEF Send
    <3>3. \/ progress'.phase = progress.phase
          \/ progress.phase = "none" /\ progress'.phase = "materializing"
      BY <3>2, ProgressedPhase
    <3> QED BY <3>1, <3>3 DEF Phases, Loaded, NothingLoaded
  <2> QED BY <2>1, <2>2
<1>4. CASE Resume(u)
  <2>1. NothingLoaded BY <1>4, <1>a, <1>b DEF Resume
  <2>2. CASE campaign.status = "paused"
    <3>1. campaign'.status = IF progress.phase = "materializing" THEN "queueing" ELSE "sending"
      BY <1>4, <2>2, ResumeEffect DEF Resume, Typed
    <3>2. progress.phase \in {"materializing", "done"}
      BY <2>2 DEF Phases, Typed, ProgressRows
    <3> QED BY <1>4, <2>1, <2>2, <3>1, <3>2, PhasesKept DEF Resume, world
  <2>3. CASE campaign.status # "paused"
    BY <1>4, <2>1, <2>3, PhasesSame DEF Resume, world
  <2> QED BY <2>2, <2>3
<1>5. CASE SendNow(u)
  <2>1. campaign'.status = campaign.status /\ NothingLoaded
    BY <1>5, <1>a, SendNowEffect DEF SendNow
  <2> QED BY <1>5, <2>1, PhasesSame DEF SendNow
<1>6. CASE EnqueueOfRequest(u) \/ EnqueueFails(u)
  <2>1. UNCHANGED <<campaign, progress>>
    BY <1>6 DEF EnqueueOfRequest, EnqueueFails, world
  <2>2. NothingLoaded
    BY <1>6, <1>a, <1>b DEF EnqueueOfRequest, EnqueueFails
  <2> QED BY <2>1, <2>2, PhasesSame
<1>7. CASE Unsend(u)
  <2>1. NothingLoaded /\ progress' = progress BY <1>7, <1>a DEF Unsend, world
  <2>2. CASE campaign.status = "queueing"
    <3>1. campaign'.status = request[u].status
      BY <1>7, <2>2 DEF Unsend, Moved, Typed, CampaignRows
    <3>2. request[u].status \notin {"sending"} \cup Final /\ progress.phase = "materializing"
      BY <1>7, <2>2 DEF Unsend, Phases, Loaded, Typed, ProgressRows
    <3> QED BY <2>1, <2>2, <3>1, <3>2, PhasesKept
  <2>3. CASE campaign.status # "queueing"
    BY <1>7, <2>1, <2>3, PhasesSame DEF Unsend, Moved
  <2> QED BY <2>2, <2>3
<1>8. CASE Unresume(u)
  <2>1. NothingLoaded /\ progress' = progress BY <1>8, <1>a DEF Unresume, world
  <2>2. \/ campaign'.status = campaign.status
        \/ campaign.status = "queueing" /\ campaign'.status = "paused"
    <3>1. campaign' = IF campaign.status = "queueing" THEN Paused(request[u].reason) ELSE campaign
      BY <1>8 DEF Unresume
    <3>2. CASE campaign.status = "queueing" BY <3>1, <3>2, PausedEffect
    <3>3. CASE campaign.status # "queueing" BY <3>1, <3>3
    <3> QED BY <3>2, <3>3
  <2> QED BY <2>1, <2>2, PhasesSame, PhasesKept DEF Phases
<1>9. CASE Cancel(u)
  <2>1. progress' = progress BY <1>9 DEF Cancel, world
  <2>2. NothingLoaded BY <1>9, <1>a, <1>b DEF Cancel
  <2>3. campaign'.status \in {campaign.status, "cancelled"}
    BY <1>9 DEF Cancel, Typed, CampaignRows
  <2> QED BY <2>1, <2>2, <2>3, PhasesSame, PhasesKept
<1>10. CASE Clean(u)
  <2>1. NothingLoaded BY <1>10, <1>a DEF Clean, NothingLoaded
  <2> QED BY <1>10, <2>1, PhasesSame DEF Clean
<1> QED BY <1>1, <1>2, <1>3, <1>4, <1>5, <1>6, <1>7, <1>8, <1>9, <1>10 DEF RequestStep

LEMMA PhasesRunner ==
    ASSUME Typed, Phases, NEW r \in Runners, RunnerStep(r) \/ RunThrows(r)
    PROVE  Phases'
<1> USE DEF SendableFrom, Final, Running
<1>a. NothingLoaded
  BY DEF RunnerStep, JobStarts, Start, Decide, LoadProgress, NotCompiled, Batch, AdvanceCursor,
         Check, Cleanup, Timeout, Finish, JobEnds, RunThrows, outside, NothingLoaded
<1>1. CASE Start(r)
  <2>1. progress' = Progressed BY <1>1 DEF Start
  <2>2. CASE StartMaterialization
    <3>1. campaign.status \in SendableFrom /\ campaign'.status = "queueing" BY <2>2, ClaimEffect
    <3>2. progress.phase # "done" BY <3>1 DEF Phases
    <3>3. progress'.phase = "materializing"
      BY <2>1, <3>2, ProgressedEffect DEF Typed, ProgressRows
    <3> QED BY <1>a, <3>1, <3>2, <3>3 DEF Phases, Loaded, NothingLoaded, Sending
  <2>3. CASE ~StartMaterialization
    <3>1. campaign' = campaign BY <1>1, <2>3 DEF Start
    <3>2. \/ progress'.phase = progress.phase
          \/ progress.phase = "none" /\ progress'.phase = "materializing"
      BY <2>1, ProgressedPhase
    <3> QED BY <1>a, <3>1, <3>2 DEF Phases, Loaded, NothingLoaded, Sending
  <2> QED BY <2>2, <2>3
<1>2. CASE NotCompiled(r) \/ Timeout(r)
  <2>1. progress' = progress BY <1>2 DEF NotCompiled, Timeout
  <2>2. \/ campaign'.status = campaign.status
        \/ campaign.status \in Running /\ campaign'.status \in {"failed", "paused"}
    BY <1>2 DEF NotCompiled, Timeout, Moved, Paused, Typed, CampaignRows
  <2> QED BY <1>a, <2>1, <2>2, PhasesSame, PhasesKept DEF Phases
<1>3. CASE Finish(r)
  <2>1. CASE campaign.status = "queueing"
    <3>1. campaign'.status = "sending" /\ progress'.phase = "done"
      BY <1>3, <2>1 DEF Finish, Typed, CampaignRows, ProgressRows
    <3> QED BY <1>a, <2>1, <3>1 DEF Phases, Loaded, NothingLoaded, Sending
  <2>2. CASE campaign.status # "queueing"
    BY <1>3, <1>a, <2>2, PhasesSame DEF Finish
  <2> QED BY <2>1, <2>2
<1>4. CASE ~Start(r) /\ ~NotCompiled(r) /\ ~Timeout(r) /\ ~Finish(r)
  <2>1. campaign' = campaign
    BY <1>4 DEF RunnerStep, JobStarts, Decide, LoadProgress, Batch, AdvanceCursor, Check, Cleanup,
                JobEnds, RunThrows
  <2>2. progress'.phase = progress.phase
    BY <1>4 DEF RunnerStep, JobStarts, Decide, LoadProgress, Batch, AdvanceCursor, Check, Cleanup,
                JobEnds, RunThrows, Typed, ProgressRows
  <2> QED BY <1>a, <2>1, <2>2, PhasesSame
<1> QED BY <1>1, <1>2, <1>3, <1>4

LEMMA PhasesStep == Typed /\ Phases /\ [Next]_vars => Phases'
<1> SUFFICES ASSUME Typed, Phases, [Next]_vars PROVE Phases' OBVIOUS
<1> USE DEF SendableFrom, Final, Running
<1>1. CASE UNCHANGED vars BY <1>1 DEF vars, Phases, Loaded
<1>2. CASE \E u \in Users : RequestStep(u) BY <1>2, PhasesRequest
<1>3. CASE \E r \in Runners : RunnerStep(r) \/ RunThrows(r) BY <1>3, PhasesRunner
<1>4. CASE \/ \E s \in Stamps, c \in Contacts : MessageStep(s, c)
           \/ WorkerCrashes
  <2>1. UNCHANGED <<campaign, progress, request>>
    BY <1>4, SettleEffect DEF WorkerCrashes, database
  <2> QED BY <2>1 DEF Phases, Loaded
<1>5. CASE Others
  <2>1. progress' = progress BY <1>5, OthersEffect
  <2>2. NothingLoaded
    BY <1>5 DEF Others, Pause, Schedule, Unschedule, JobExpires, SchedulerStep, MarkMissed,
                ClaimDue, SendMaterialize, ListPaused, ResumeOnQuota, WatchdogStep, ListRunning,
                ReconcileHandover, IsDrained, ReadCounters, Close, ApiCrashes, TurnsQuiet,
                WindowElapses, TimePasses, world, outside, elsewhere, cron, database,
                NothingLoaded, NoRequest, Sending
  <2>3. CASE ResumeOnQuota
    BY <2>1, <2>2, <2>3, PhasesSame, PhasesKept, ResumeEffect
       DEF ResumeOnQuota, Phases, Typed, ProgressRows
  <2>4. CASE ~ResumeOnQuota
    <3>1. \/ campaign'.status = campaign.status
          \/ campaign.status \in Running
             /\ campaign'.status \in {"paused", "sent", "partially_sent", "failed"}
          \/ campaign.status \in SendableFrom /\ campaign'.status \in SendableFrom
      BY <1>5, <2>4
         DEF Others, Pause, Schedule, Unschedule, JobExpires, SchedulerStep, MarkMissed,
             ClaimDue, SendMaterialize, ListPaused, WatchdogStep, ListRunning,
             ReconcileHandover, IsDrained, ReadCounters, Close, ApiCrashes, TurnsQuiet,
             WindowElapses, TimePasses, world, outside, elsewhere, cron, database,
             Moved, Paused, Typed, CampaignRows, Ticks
    <3> QED BY <2>1, <2>2, <3>1, PhasesSame, PhasesKept DEF Phases
  <2> QED BY <2>3, <2>4
<1> QED BY <1>1, <1>2, <1>3, <1>4, <1>5 DEF Next, Others

-----------------------------------------------------------------------------
(* Ticking.                                                                *)

\* What every step does that is not one of the watchdog's.
Steady ==
    /\ watchdog' \in {watchdog, NoTick}
    /\ progress.phase = "done" =>
        progress'.phase = "done" /\ counters' = counters /\ campaign'.stamp = campaign.stamp
    /\ message' # message => ~quiet'
    /\ progress.phase = "done" /\ Drained => message' = message
    /\ quiet' => quiet \/ watchdog.pc \notin {"drain", "count"}

LEMMA TallySame == message' = message => Tally' = Tally
BY DEF Tally, Count, Contacts

LEMMA SteadyKeeps ==
    ASSUME Typed, Ticking, Steady
    PROVE  Ticking'
<1>1. CASE watchdog' = NoTick BY <1>1 DEF Ticking, NoTick
<1>2. CASE watchdog' = watchdog /\ watchdog.pc \in {"drain", "count", "close"} /\ watchdog.complete
  <2>1. progress.phase = "done" BY <1>2 DEF Ticking
  <2>2. progress'.phase = "done" /\ counters' = counters /\ campaign'.stamp = campaign.stamp
    BY <2>1 DEF Steady
  <2>3. CASE message' = message
    <3>1. Tally' = Tally BY <2>3, TallySame
    <3>2. quiet' \/ watchdog.pc = "close" => counters = Tally BY <1>2 DEF Ticking, Steady
    <3>3. watchdog.pc # "drain" => Drained' BY <1>2, <2>2, <2>3 DEF Ticking, Drained, In, Contacts
    <3>4. watchdog.pc = "close" => watchdog.verdict = ClosingStatus(counters)
      BY <1>2 DEF Ticking
    <3> QED BY <1>2, <2>2, <3>1, <3>2, <3>3, <3>4 DEF Ticking, ClosingStatus
  <2>4. CASE message' # message
    <3>1. ~quiet' /\ ~Drained BY <2>1, <2>4 DEF Steady
    <3>2. watchdog.pc = "drain" BY <1>2, <3>1 DEF Ticking
    <3> QED BY <1>2, <2>2, <3>1, <3>2 DEF Ticking
  <2> QED BY <2>3, <2>4
<1> QED BY <1>1, <1>2 DEF Steady, Ticking

LEMMA DrainedRows ==
    ASSUME Stamping, Drained
    PROVE  \A s \in Stamps, c \in Contacts : message[s][c].status \notin {"pending", "claimed"}
BY DEF Stamping, Drained, In

LEMMA DoneRows ==
    ASSUME Typed, Stamping, Built, progress.phase = "done"
    PROVE  \A c \in Contacts : message[campaign.stamp][c].status # "none"
BY DEF Built, Covered, Stamping, Contacts

LEMMA SteadyRequest ==
    ASSUME Typed, Stamping, Built, Phases, NEW u \in Users, RequestStep(u)
    PROVE  Steady
<1>1. CASE Send(u)
  <2>1. UNCHANGED <<watchdog, message, counters>> BY <1>1 DEF Send
  <2>2. progress.phase = "done" => progress'.phase = "done"
    BY <1>1, ProgressedEffect DEF Send
  <2>3. CASE StartMaterialization
    <3>1. progress.phase # "done" BY <2>3, ClaimEffect DEF Phases
    <3>2. quiet' => quiet BY <2>3 DEF StartMaterialization, Typed
    <3> QED BY <2>1, <3>1, <3>2 DEF Steady
  <2>4. CASE ~StartMaterialization
    BY <1>1, <2>1, <2>2, <2>4 DEF Send, Steady
  <2> QED BY <2>3, <2>4
<1>2. CASE Clean(u)
  <2>1. Drained => In(campaign.stamp, {"pending"}) = {} BY DEF Drained, In
  <2>2. (message' # message => ~quiet') /\ (quiet' => quiet) /\ (Drained => message' = message)
    BY <1>2, <2>1, CleanEffect DEF Clean
  <2> QED BY <1>2, <2>2 DEF Clean, Steady
<1>3. CASE SendNow(u)
  <2>1. (message' # message => ~quiet') /\ (quiet' => quiet) /\ (Drained => message' = message)
          /\ campaign'.stamp = campaign.stamp
    BY <1>3, SendNowEffect, DrainedRows
  <2> QED BY <1>3, <2>1 DEF SendNow, Steady
<1>4. CASE ~Send(u) /\ ~Clean(u) /\ ~SendNow(u)
  <2>1. UNCHANGED <<watchdog, progress, counters, message, quiet>>
    BY <1>4 DEF RequestStep, LoadToSend, LoadToResume, LoadToUndo, LoadToSendNow, Load, Resume,
                EnqueueOfRequest, EnqueueFails, Unsend, Unresume, Cancel, world
  <2>2. campaign'.stamp = campaign.stamp
    BY <1>4, ResumeEffect
       DEF RequestStep, LoadToSend, LoadToResume, LoadToUndo, LoadToSendNow, Load, Resume,
           EnqueueOfRequest, EnqueueFails, Unsend, Unresume, Cancel, Typed, CampaignRows,
           Moved, Paused
  <2> QED BY <2>1, <2>2 DEF Steady
<1> QED BY <1>1, <1>2, <1>3, <1>4

LEMMA SteadyRunner ==
    ASSUME Typed, Stamping, Built, Phases, NEW r \in Runners, RunnerStep(r) \/ RunThrows(r)
    PROVE  Steady
<1>1. CASE Start(r)
  <2>1. UNCHANGED <<watchdog, message, counters>> BY <1>1 DEF Start, outside
  <2>2. progress.phase = "done" => progress'.phase = "done"
    BY <1>1, ProgressedEffect DEF Start
  <2>3. CASE StartMaterialization
    <3>1. progress.phase # "done" BY <2>3, ClaimEffect DEF Phases
    <3>2. quiet' => quiet BY <2>3 DEF StartMaterialization, Typed
    <3> QED BY <2>1, <3>1, <3>2 DEF Steady
  <2>4. CASE ~StartMaterialization
    BY <1>1, <2>1, <2>2, <2>4 DEF Start, Steady
  <2> QED BY <2>3, <2>4
<1>2. CASE Batch(r)
  <2>1. UNCHANGED <<watchdog, progress, counters, campaign>> BY <1>2 DEF Batch, outside
  <2>2. (message' # message => ~quiet') /\ (quiet' => quiet) BY <1>2, BatchEffect
  <2>3. ASSUME progress.phase = "done" PROVE message' = message
    <3>1. \A s \in Stamps, c \in Contacts : message'[s][c] = message[s][c]
      BY <1>2, <2>3, BatchEffect, DoneRows
    <3>2. message' \in [Stamps -> [Contacts -> Messages]] BY <1>2, RunnerTypes DEF Typed, RunnerStep
    <3> QED BY <3>1, <3>2 DEF Typed
  <2> QED BY <2>1, <2>2, <2>3 DEF Steady
<1>3. CASE Cleanup(r)
  <2>1. runner[r].stamp = campaign.stamp BY <1>3 DEF Cleanup, Stamping, Working
  <2>2. Drained => In(runner[r].stamp, {"pending"}) = {} BY <2>1 DEF Drained, In
  <2>3. (message' # message => ~quiet') /\ (quiet' => quiet) /\ (Drained => message' = message)
    BY <1>3, <2>2, CleanEffect DEF Cleanup
  <2> QED BY <1>3, <2>3 DEF Cleanup, Steady, outside
<1>4. CASE Finish(r)
  <2>1. progress.phase = "done" => UNCHANGED <<campaign, counters, progress>>
    BY <1>4 DEF Finish, Phases
  <2> QED BY <1>4, <2>1 DEF Finish, Steady
<1>5. CASE ~Start(r) /\ ~Batch(r) /\ ~Cleanup(r) /\ ~Finish(r)
  <2>1. UNCHANGED <<watchdog, counters, message, quiet>>
    BY <1>5 DEF RunnerStep, JobStarts, Decide, LoadProgress, NotCompiled, AdvanceCursor, Check,
                Timeout, JobEnds, RunThrows, outside
  <2>2. campaign'.stamp = campaign.stamp /\ progress'.phase = progress.phase
    BY <1>5 DEF RunnerStep, JobStarts, Decide, LoadProgress, NotCompiled, AdvanceCursor, Check,
                Timeout, JobEnds, RunThrows, Typed, CampaignRows, ProgressRows, Moved, Paused
  <2> QED BY <2>1, <2>2 DEF Steady
<1> QED BY <1>1, <1>2, <1>3, <1>4, <1>5

\* The steps of the watchdog itself.
LEMMA TickingWatchdog ==
    ASSUME Typed, Ticking, WatchdogStep
    PROVE  Ticking'
<1>a. UNCHANGED <<progress, message, quiet>> /\ campaign'.stamp = campaign.stamp
  BY DEF WatchdogStep, ListRunning, ReconcileHandover, IsDrained, ReadCounters, Close, cron,
         Moved, Typed, CampaignRows
<1>b. Tally' = Tally BY <1>a, TallySame
<1>c. Drained' <=> Drained BY <1>a DEF Drained, In, Contacts
<1>1. CASE ListRunning BY <1>1 DEF ListRunning, Tick, Ticking, Typed, Ticks
<1>2. CASE ReconcileHandover
  <2>1. watchdog'.pc = "drain" /\ (watchdog'.complete => progress.phase = "done")
    BY <1>2 DEF ReconcileHandover, Typed, Ticks
  <2>2. counters' = Tally BY <1>2 DEF ReconcileHandover
  <2> QED BY <1>a, <1>b, <2>1, <2>2 DEF Ticking
<1>3. CASE IsDrained
  <2>1. CASE Drained
    <3>1. /\ watchdog.pc = "drain" /\ watchdog'.pc = "count"
          /\ watchdog'.complete = watchdog.complete
          /\ counters' = counters
      BY <1>3, <2>1 DEF IsDrained, Typed, Ticks
    <3> QED BY <1>a, <1>b, <1>c, <2>1, <3>1 DEF Ticking
  <2>2. CASE ~Drained BY <1>3, <2>2 DEF IsDrained, NoTick, Ticking
  <2> QED BY <2>1, <2>2
<1>4. CASE ReadCounters
  <2>1. CASE quiet
    <3>1. /\ watchdog.pc = "count" /\ watchdog'.pc = "close"
          /\ watchdog'.complete = watchdog.complete
          /\ watchdog'.verdict = ClosingStatus(counters)
          /\ counters' = counters
      BY <1>4, <2>1 DEF ReadCounters, QuietLongEnough, Typed, Ticks
    <3> QED BY <1>a, <1>b, <1>c, <2>1, <3>1 DEF Ticking, ClosingStatus
  <2>2. CASE ~quiet BY <1>4, <2>2 DEF ReadCounters, QuietLongEnough, NoTick, Ticking
  <2> QED BY <2>1, <2>2
<1>5. CASE Close BY <1>5 DEF Close, NoTick, Ticking
<1> QED BY <1>1, <1>2, <1>3, <1>4, <1>5 DEF WatchdogStep

LEMMA TickingStep == Typed /\ Stamping /\ Built /\ Phases /\ Ticking /\ [Next]_vars => Ticking'
<1> SUFFICES ASSUME Typed, Stamping, Built, Phases, Ticking, [Next]_vars PROVE Ticking' OBVIOUS
<1>1. CASE UNCHANGED vars
  <2>1. Steady BY <1>1 DEF vars, Steady
  <2> QED BY <2>1, SteadyKeeps
<1>2. CASE \E u \in Users : RequestStep(u) BY <1>2, SteadyRequest, SteadyKeeps
<1>3. CASE \E r \in Runners : RunnerStep(r) \/ RunThrows(r) BY <1>3, SteadyRunner, SteadyKeeps
<1>4. CASE \E s \in Stamps, c \in Contacts : MessageStep(s, c)
  <2>1. ~quiet' /\ UNCHANGED database /\ ~Drained BY <1>4, SettleEffect, DrainedRows
  <2>2. Steady BY <2>1 DEF Steady, database
  <2> QED BY <2>2, SteadyKeeps
<1>5. CASE WorkerCrashes
  <2>1. Steady BY <1>5 DEF WorkerCrashes, Steady
  <2> QED BY <2>1, SteadyKeeps
<1>6. CASE WatchdogStep BY <1>6, TickingWatchdog
<1>7. CASE Others /\ ~WatchdogStep
  <2>1. UNCHANGED <<watchdog, counters>>
    BY <1>7 DEF Others, Pause, Schedule, Unschedule, JobExpires, SchedulerStep, MarkMissed,
                ClaimDue, SendMaterialize, ListPaused, ResumeOnQuota, ApiCrashes, TurnsQuiet,
                WindowElapses, TimePasses, world, outside, elsewhere, database
  <2>2. quiet' => quiet \/ watchdog.pc \notin {"drain", "count"}
    BY <1>7 DEF Others, Pause, Schedule, Unschedule, JobExpires, SchedulerStep, MarkMissed,
                ClaimDue, SendMaterialize, ListPaused, ResumeOnQuota, ApiCrashes, TurnsQuiet,
                WindowElapses, TimePasses, world, outside, elsewhere, database
  <2>3. Steady BY <1>7, <2>1, <2>2, OthersEffect DEF Steady
  <2> QED BY <2>3, SteadyKeeps
<1> QED BY <1>1, <1>2, <1>3, <1>4, <1>5, <1>6, <1>7 DEF Next, Others

-----------------------------------------------------------------------------
(* NoOrphans.                                                              *)

Cleaning == \/ \E u \in Users : request[u].pc = "clean"
            \/ \E r \in Runners : runner[r].pc \in {"advance", "check", "cleanup"}

NothingSpent == used'.faults = 0 /\ used'.returns = 0 => used.faults = 0 /\ used.returns = 0

LEMMA SpendEffect ==
    ASSUME Typed
    PROVE  /\ \A operation : SpendRequest(operation) => NothingSpent
           /\ SpendFault => used'.faults # 0
           /\ used' = used => NothingSpent
<1> USE CampaignAssumption DEF Typed, Budgets
<1>1. Spend("requests", MaxRequests) => NothingSpent BY DEF Spend, NothingSpent
<1>2. SpendFault => used'.faults # 0 BY DEF Spend, SpendFault
<1> QED BY <1>1, <1>2 DEF SpendRequest, NothingSpent

\* Nothing can be left behind after a fault, without a pending message, with a cleaner,
\* or by a step that takes away none of these.
LEMMA FaultExcuses == used'.faults # 0 => NoOrphans'
BY DEF NoOrphans

LEMMA NonePending ==
    ASSUME \A s \in Stamps, c \in Contacts : message'[s][c].status # "pending"
    PROVE  NoOrphans'
BY DEF NoOrphans, In, Contacts

LEMMA CleanerThere == Cleaning' => NoOrphans'
BY DEF NoOrphans, Cleaning

LEMMA NothingLeft ==
    ASSUME NoOrphans, NothingSpent, NoNewPending, Cleaning => Cleaning',
           campaign'.status = "cancelled" => campaign.status = "cancelled"
    PROVE  NoOrphans'
BY DEF NoOrphans, Cleaning, NothingSpent, NoNewPending, In, Contacts

LEMMA SamePending == message' = message => NoNewPending
BY DEF NoNewPending

LEMMA PendingHere ==
    ASSUME Stamping, In(campaign.stamp, {"pending"}) = {}
    PROVE  \A s \in Stamps, c \in Contacts : message[s][c].status # "pending"
BY DEF Stamping, In

LEMMA OrphansRequest ==
    ASSUME Typed, Stamping, Phases, NoOrphans, NEW u \in Users, RequestStep(u)
    PROVE  NoOrphans'
<1>1. CASE Cancel(u)
  <2>1. message' = message /\ campaign'.stamp = campaign.stamp
    BY <1>1 DEF Cancel, world, Typed, CampaignRows
  <2>2. CASE campaign.status \in CancellableFrom /\ campaign.stamp # NoStamp
    <3>1. request'[u].pc = "clean" BY <1>1, <2>2, AnswerEffect DEF Cancel
    <3>2. Cleaning' BY <3>1 DEF Cleaning
    <3> QED BY <3>2, CleanerThere
  <2>3. CASE campaign.stamp = NoStamp
    <3>1. \A s \in Stamps, c \in Contacts : message'[s][c].status # "pending"
      BY <2>1, <2>3, NoStampNothing
    <3> QED BY <3>1, NonePending
  <2>4. CASE campaign.status \notin CancellableFrom
    <3>1. request[u].pc = "undo" /\ Answer(u) /\ campaign' = campaign /\ used' = used
            /\ runner' = runner
      BY <1>1, <2>4, SpendEffect DEF Cancel, world
    <3>2. Cleaning => Cleaning' BY <3>1, AnswerEffect DEF Cleaning
    <3>3. NothingSpent /\ NoNewPending BY <2>1, <3>1, SpendEffect, SamePending
    <3> QED BY <3>1, <3>2, <3>3, NothingLeft
  <2> QED BY <2>2, <2>3, <2>4
<1>2. CASE Clean(u)
  <2>1. CASE In(campaign.stamp, {"pending"}) = {}
    <3>1. message' = message BY <1>2, <2>1, CleanEffect DEF Clean
    <3>2. \A s \in Stamps, c \in Contacts : message'[s][c].status # "pending"
      BY <2>1, <3>1, PendingHere
    <3> QED BY <3>2, NonePending
  <2>2. CASE In(campaign.stamp, {"pending"}) # {}
    <3>1. request'[u].pc = "clean" BY <1>2, <2>2 DEF Clean
    <3>2. Cleaning' BY <3>1 DEF Cleaning
    <3> QED BY <3>2, CleanerThere
  <2> QED BY <2>1, <2>2
<1>3. CASE \/ LoadToSend(u) \/ LoadToResume(u) \/ LoadToUndo(u) \/ LoadToSendNow(u)
  <2>1. /\ request[u].pc = "idle" /\ NothingSpent
        /\ UNCHANGED <<campaign, message, runner>>
        /\ \A v \in Users : v # u => request'[v] = request[v]
    BY <1>3, SpendEffect
       DEF LoadToSend, LoadToResume, LoadToUndo, LoadToSendNow, Load, world, Typed
  <2>2. Cleaning => Cleaning' BY <2>1 DEF Cleaning
  <2> QED BY <2>1, <2>2, SamePending, NothingLeft
<1>4. CASE EnqueueFails(u)
  <2>1. CASE SpendFault BY <2>1, SpendEffect, FaultExcuses
  <2>2. CASE ~SpendFault
    <3>1. /\ request[u].pc # "clean" /\ NothingSpent
          /\ UNCHANGED <<campaign, message, runner>>
          /\ \A v \in Users : v # u => request'[v] = request[v]
      BY <1>4, <2>2, SpendEffect, AnswerEffect DEF EnqueueFails, world
    <3>2. Cleaning => Cleaning' BY <3>1 DEF Cleaning
    <3> QED BY <3>1, <3>2, SamePending, NothingLeft
  <2> QED BY <2>1, <2>2
<1>5. CASE Send(u) \/ Resume(u) \/ SendNow(u) \/ EnqueueOfRequest(u) \/ Unsend(u) \/ Unresume(u)
  <2>1. request[u].pc # "clean" /\ runner' = runner
    BY <1>5 DEF Send, Resume, SendNow, EnqueueOfRequest, Unsend, Unresume, world
  <2>2. \A v \in Users : v # u => request'[v] = request[v]
    BY <1>5, AnswerEffect DEF Send, Resume, SendNow, EnqueueOfRequest, Unsend, Unresume
  <2>3. Cleaning => Cleaning' BY <2>1, <2>2 DEF Cleaning
  <2>4. NothingSpent
    BY <1>5, SpendEffect DEF Send, Resume, SendNow, EnqueueOfRequest, Unsend, Unresume
  <2>5. NoNewPending
    BY <1>5, SamePending, SendNowEffect
       DEF Send, Resume, EnqueueOfRequest, Unsend, Unresume, world
  <2>6. campaign'.status = "cancelled" => campaign.status = "cancelled"
    <3>1. CASE Send(u) BY <3>1, ClaimEffect DEF Send
    <3>2. CASE Resume(u) BY <3>2, ResumeEffect DEF Resume, Typed
    <3>3. CASE SendNow(u) BY <3>3, SendNowEffect
    <3>4. CASE EnqueueOfRequest(u) BY <3>4 DEF EnqueueOfRequest
    <3>5. CASE Unsend(u)
      BY <3>5 DEF Unsend, Moved, Phases, Loaded, Final, Typed, CampaignRows
    <3>6. CASE Unresume(u) BY <3>6, PausedEffect DEF Unresume
    <3> QED BY <1>5, <3>1, <3>2, <3>3, <3>4, <3>5, <3>6
  <2> QED BY <2>3, <2>4, <2>5, <2>6, NothingLeft
<1> QED BY <1>1, <1>2, <1>3, <1>4, <1>5 DEF RequestStep

LEMMA OrphansRunner ==
    ASSUME Typed, Stamping, NoOrphans, NEW r \in Runners, RunnerStep(r) \/ RunThrows(r)
    PROVE  NoOrphans'
<1>1. CASE RunThrows(r) BY <1>1, SpendEffect, FaultExcuses DEF RunThrows
<1>2. CASE Batch(r)
  <2>1. runner'[r].pc \in {"check", "advance"}
    <3> DEFINE last == BatchOf(r) = {}
    <3>1. runner' = [runner EXCEPT ![r] =
            [@ EXCEPT !.pc = IF last THEN "check" ELSE "advance",
                      !.cursor = EndOf(r), !.last = last]]
      BY <1>2 DEF Batch
    <3> HIDE DEF last
    <3> QED BY <3>1 DEF Typed, Runs
  <2>2. Cleaning' BY <2>1 DEF Cleaning
  <2> QED BY <2>2, CleanerThere
<1>3. CASE AdvanceCursor(r)
  <2>1. Cleaning' BY <1>3, GoEffect DEF AdvanceCursor, Cleaning
  <2> QED BY <2>1, CleanerThere
<1>4. CASE Check(r)
  <2>1. CASE campaign.status = "cancelled"
    <3>1. Go(r, "cleanup") BY <1>4, <2>1 DEF Check, Running
    <3>2. Cleaning' BY <3>1, GoEffect DEF Cleaning
    <3> QED BY <3>2, CleanerThere
  <2>2. CASE campaign.status # "cancelled" BY <1>4, <2>2 DEF Check, NoOrphans
  <2> QED BY <2>1, <2>2
<1>5. CASE Cleanup(r)
  <2>1. CASE In(runner[r].stamp, {"pending"}) = {}
    <3>1. runner[r].stamp = campaign.stamp BY <1>5 DEF Cleanup, Stamping, Working
    <3>2. message' = message BY <1>5, <2>1, CleanEffect DEF Cleanup
    <3>3. \A s \in Stamps, c \in Contacts : message'[s][c].status # "pending"
      BY <2>1, <3>1, <3>2, PendingHere
    <3> QED BY <3>3, NonePending
  <2>2. CASE In(runner[r].stamp, {"pending"}) # {}
    <3>1. Go(r, "cleanup") BY <1>5, <2>2 DEF Cleanup
    <3>2. Cleaning' BY <3>1, GoEffect DEF Cleaning
    <3> QED BY <3>2, CleanerThere
  <2> QED BY <2>1, <2>2
<1>6. CASE \/ JobStarts(r) \/ Start(r) \/ Decide(r) \/ LoadProgress(r) \/ NotCompiled(r)
           \/ Timeout(r) \/ Finish(r) \/ JobEnds(r)
  <2>1. UNCHANGED <<message, request, used>>
    BY <1>6 DEF JobStarts, Start, Decide, LoadProgress, NotCompiled, Timeout, Finish, JobEnds,
                outside
  <2>2. /\ runner[r].pc \notin {"advance", "check", "cleanup"}
        /\ \A q \in Runners : q # r => runner'[q] = runner[q]
    <3>1. CASE JobStarts(r) BY <3>1, GoEffect DEF JobStarts
    <3>2. CASE Start(r) BY <3>2, GoEffect, BeginEffect DEF Start
    <3>3. CASE Decide(r) BY <3>3, GoEffect DEF Decide
    <3>4. CASE LoadProgress(r) BY <3>4 DEF LoadProgress, Typed
    <3>5. CASE NotCompiled(r) BY <3>5, GoEffect DEF NotCompiled
    <3>6. CASE Timeout(r) BY <3>6, GoEffect DEF Timeout
    <3>7. CASE Finish(r) BY <3>7, GoEffect DEF Finish
    <3>8. CASE JobEnds(r) BY <3>8 DEF JobEnds, Typed
    <3> QED BY <1>6, <3>1, <3>2, <3>3, <3>4, <3>5, <3>6, <3>7, <3>8
  <2>3. Cleaning => Cleaning' BY <2>1, <2>2 DEF Cleaning
  <2>4. campaign'.status = "cancelled" => campaign.status = "cancelled"
    <3>1. CASE Start(r) BY <3>1, ClaimEffect DEF Start
    <3>2. CASE ~Start(r)
      BY <1>6, <3>2 DEF JobStarts, Decide, LoadProgress, NotCompiled, Timeout, Finish, JobEnds,
                        Moved, Paused, Typed, CampaignRows
    <3> QED BY <3>1, <3>2
  <2> QED BY <2>1, <2>3, <2>4, SamePending, SpendEffect, NothingLeft
<1> QED BY <1>1, <1>2, <1>3, <1>4, <1>5, <1>6 DEF RunnerStep

LEMMA OrphansStep ==
    Typed /\ Stamping /\ Phases /\ NoOrphans /\ [Next]_vars => NoOrphans'
<1> SUFFICES ASSUME Typed, Stamping, Phases, NoOrphans, [Next]_vars PROVE NoOrphans' OBVIOUS
<1>1. CASE UNCHANGED vars BY <1>1 DEF vars, NoOrphans, In, Contacts
<1>2. CASE \E u \in Users : RequestStep(u) BY <1>2, OrphansRequest
<1>3. CASE \E r \in Runners : RunnerStep(r) \/ RunThrows(r) BY <1>3, OrphansRunner
<1>4. CASE \E s \in Stamps, c \in Contacts : MessageStep(s, c)
  <2>1. /\ UNCHANGED <<campaign, request, runner>>
        /\ used'.faults = used.faults
        /\ used'.returns = 0 => used.returns = 0 /\ NoNewPending
    BY <1>4, SettleEffect DEF database
  <2> QED BY <2>1 DEF NoOrphans, NoNewPending, In, Contacts
<1>5. CASE WorkerCrashes \/ ApiCrashes
  BY <1>5, SpendEffect, FaultExcuses DEF WorkerCrashes, ApiCrashes
<1>6. CASE JobExpires /\ SpendFault BY <1>6, SpendEffect, FaultExcuses
<1>7. CASE Others /\ ~ApiCrashes /\ ~(JobExpires /\ SpendFault)
  <2>1. message' = message /\ runner' = runner BY <1>7, OthersEffect
  <2>2. request' = request
    BY <1>7 DEF Others, Pause, Schedule, Unschedule, JobExpires, SchedulerStep, MarkMissed,
                ClaimDue, SendMaterialize, ListPaused, ResumeOnQuota, WatchdogStep, ListRunning,
                ReconcileHandover, IsDrained, ReadCounters, Close, TurnsQuiet,
                WindowElapses, TimePasses, world, outside, elsewhere, cron, database
  <2>3. NothingSpent
    BY <1>7, SpendEffect
       DEF Others, Pause, Schedule, Unschedule, JobExpires, SchedulerStep, MarkMissed,
           ClaimDue, SendMaterialize, ListPaused, ResumeOnQuota, WatchdogStep, ListRunning,
           ReconcileHandover, IsDrained, ReadCounters, Close, TurnsQuiet,
           WindowElapses, TimePasses, elsewhere, cron, database
  <2>4. campaign'.status = "cancelled" => campaign.status = "cancelled"
    BY <1>7, ResumeEffect
       DEF Others, Pause, Schedule, Unschedule, JobExpires, SchedulerStep, MarkMissed,
           ClaimDue, SendMaterialize, ListPaused, ResumeOnQuota, WatchdogStep, ListRunning,
           ReconcileHandover, IsDrained, ReadCounters, Close, TurnsQuiet, WindowElapses,
           TimePasses, outside, elsewhere, cron, database, Moved, Paused, Typed, CampaignRows, Ticks
  <2> QED BY <2>1, <2>2, <2>3, <2>4, SamePending, NothingLeft DEF Cleaning
<1> QED BY <1>1, <1>2, <1>3, <1>4, <1>5, <1>6, <1>7 DEF Next, Others

-----------------------------------------------------------------------------
(* The theorems.                                                           *)

LEMMA InitInvariant == Init => IInv
<1> SUFFICES ASSUME Init PROVE IInv OBVIOUS
<1>1. TypeOK BY TypeInit
<1>2. Stamping BY DEF Init, Stamping, NoMessage, NoRun, Working
<1>3. Built BY CampaignAssumption DEF Init, Built, Covered, NoRun
<1>4. Phases BY DEF Init, Phases, Loaded, NoRequest, SendableFrom
<1>5. Ticking BY DEF Init, Ticking, NoTick
<1>6. NoOrphans BY DEF Init, NoOrphans
<1> QED BY <1>1, <1>2, <1>3, <1>4, <1>5, <1>6 DEF IInv

LEMMA StepInvariant == IInv /\ [Next]_vars => IInv'
<1> SUFFICES ASSUME IInv, [Next]_vars PROVE IInv' OBVIOUS
<1>1. Typed /\ Stamping /\ Built /\ Phases /\ Ticking /\ NoOrphans BY TypeParts DEF IInv
<1>2. TypeOK' BY <1>1, TypeParts, TypeStep
<1> QED BY <1>1, <1>2, StampingStep, BuiltStep, PhasesStep, TickingStep, OrphansStep DEF IInv

\* The inductive invariant holds of every behaviour.
THEOREM CampaignInvariant == Spec => []IInv
BY InitInvariant, StepInvariant, PTL DEF Spec

\* However often and by whomever a campaign is claimed, whatever crashes and is retried, no
\* contact has two messages (the key of ON CONFLICT in materializeBatch).
THEOREM OneMessage == Spec => []OneMessagePerContact
<1>1. IInv => OneMessagePerContact
  <2> SUFFICES ASSUME IInv, NEW c \in Contacts
               PROVE  Cardinality({s \in Stamps : message[s][c].status # "none"}) <= 1
    BY DEF OneMessagePerContact
  <2> DEFINE Rows == {s \in Stamps : message[s][c].status # "none"}
  <2>1. Rows \subseteq {campaign.stamp} BY DEF IInv, Stamping
  <2>2. IsFiniteSet({campaign.stamp}) /\ Cardinality({campaign.stamp}) = 1 BY FS_Singleton
  <2>3. Cardinality(Rows) <= Cardinality({campaign.stamp}) BY <2>1, <2>2, FS_Subset
  <2> QED BY <2>2, <2>3
<1> QED BY <1>1, CampaignInvariant, PTL

\* A campaign that says it sends, or that its audience is done, has a row for every contact
\* (runMaterializeLoop resumes where the cursor stands; resumeCampaign).
THEOREM SendingComplete == Spec => []SendingIsComplete
<1>1. IInv => SendingIsComplete
  <2> SUFFICES ASSUME IInv, campaign.status = "sending" \/ progress.phase = "done"
               PROVE  In(campaign.stamp, {"none"}) = {}
    BY DEF SendingIsComplete
  <2>1. progress.phase = "done" BY DEF IInv, Phases
  <2>2. \A c \in Contacts : message[campaign.stamp][c].status # "none"
    BY <2>1, DoneRows, TypeParts DEF IInv
  <2> QED BY <2>2 DEF In
<1> QED BY <1>1, CampaignInvariant, PTL

\* What the watchdog counted in one transaction and decided in another is still so when it
\* closes the campaign in a third (watchdogHandler, isDrained, WATCHDOG_QUIET_SECONDS).
THEOREM ClosingRight == Spec => []ClosesRight
<1>1. IInv => ClosesRight
  <2> SUFFICES ASSUME IInv, watchdog.pc = "close", watchdog.complete
               PROVE  Drained /\ counters = Tally /\ watchdog.verdict = ClosingStatus(Tally)
    BY DEF ClosesRight
  <2>1. Drained /\ counters = Tally /\ watchdog.verdict = ClosingStatus(counters)
    BY DEF IInv, Ticking
  <2> QED BY <2>1
<1> QED BY <1>1, CampaignInvariant, PTL

\* As long as nothing crashes and nothing is returned, somebody still skips the pending
\* messages of a cancelled campaign (cancelCampaign, and readStatus after every batch).
THEOREM NoneOrphaned == Spec => []NoOrphans
<1>1. IInv => NoOrphans BY DEF IInv
<1> QED BY <1>1, CampaignInvariant, PTL

LEMMA EndsStay ==
    ASSUME Typed, [Next]_vars, campaign.status \in Final
    PROVE  campaign'.status = campaign.status
<1> USE DEF Final, SendableFrom, Running, CancellableFrom, Typed, CampaignRows, Moved
<1>1. CASE UNCHANGED vars BY <1>1 DEF vars
<1>2. ASSUME NEW u \in Users, RequestStep(u) PROVE campaign'.status = campaign.status
  <2>1. ~StartMaterialization BY DEF StartMaterialization
  <2>2. CASE Send(u) BY <2>1, <2>2 DEF Send
  <2>3. CASE SendNow(u) BY <2>3, SendNowEffect
  <2>4. CASE ~Send(u) /\ ~SendNow(u)
    BY <1>2, <2>4
       DEF RequestStep, LoadToSend, LoadToResume, LoadToUndo, LoadToSendNow, Load, Resume,
           EnqueueOfRequest, EnqueueFails, Unsend, Unresume, Cancel, Clean
  <2> QED BY <2>2, <2>3, <2>4
<1>3. ASSUME NEW r \in Runners, RunnerStep(r) \/ RunThrows(r)
      PROVE  campaign'.status = campaign.status
  <2>1. ~StartMaterialization BY DEF StartMaterialization
  <2>2. CASE Start(r) BY <2>1, <2>2 DEF Start
  <2>3. CASE ~Start(r)
    BY <1>3, <2>3
       DEF RunnerStep, JobStarts, Decide, LoadProgress, NotCompiled, Batch, AdvanceCursor,
           Check, Cleanup, Timeout, Finish, JobEnds, RunThrows
  <2> QED BY <2>2, <2>3
<1>4. CASE \E s \in Stamps, c \in Contacts : MessageStep(s, c)
  BY <1>4, SettleEffect DEF database
<1>5. CASE WorkerCrashes BY <1>5 DEF WorkerCrashes
<1>6. CASE Others
  BY <1>6 DEF Others, Pause, Schedule, Unschedule, JobExpires, SchedulerStep, MarkMissed,
              ClaimDue, SendMaterialize, ListPaused, ResumeOnQuota, WatchdogStep, ListRunning,
              ReconcileHandover, IsDrained, ReadCounters, Close, ApiCrashes, TurnsQuiet,
              WindowElapses, TimePasses, world, outside, elsewhere, cron, database
<1> QED BY <1>1, <1>2, <1>3, <1>4, <1>5, <1>6 DEF Next, Others

\* No late rollback, run or tick revives a campaign that is closed or cancelled
\* (transitionStatus and the conditions of the other UPDATEs).
THEOREM FinalStays == Spec => FinalIsFinal
<1>1. IInv /\ [Next]_vars => [campaign.status \in Final => campaign'.status = campaign.status]_campaign
  BY EndsStay, TypeParts DEF IInv
<1> QED BY <1>1, CampaignInvariant, PTL DEF Spec, FinalIsFinal

-----------------------------------------------------------------------------
(* Whoever skips the messages of a campaign finds it cancelled.            *)

Cleaners ==
    /\ \A u \in Users : request[u].pc = "clean" => campaign.status = "cancelled"
    /\ \A r \in Runners : runner[r].pc = "cleanup" => campaign.status = "cancelled"

LEMMA NewCleaningRequest ==
    ASSUME Typed, Typed', [Next]_vars, NEW u \in Users,
           request'[u].pc = "clean", request[u].pc # "clean"
    PROVE  campaign'.status = "cancelled"
<1>1. CASE UNCHANGED vars BY <1>1 DEF vars
<1>2. ASSUME NEW v \in Users, RequestStep(v) PROVE campaign'.status = "cancelled"
  <2>1. CASE Cancel(v)
    <3>1. CASE campaign.status \in CancellableFrom
      BY <2>1, <3>1 DEF Cancel, Typed, CampaignRows
    <3>2. CASE campaign.status \notin CancellableFrom
      <4>1. Answer(v) BY <2>1, <3>2 DEF Cancel
      <4>2. request'[u].pc = request[u].pc \/ request'[u].pc = "idle"
        BY <4>1, AnswerEffect DEF NoRequest
      <4> QED BY <4>2
    <3> QED BY <3>1, <3>2
  <2>2. CASE LoadToSend(v) \/ LoadToResume(v) \/ LoadToUndo(v) \/ LoadToSendNow(v)
    BY <2>2 DEF LoadToSend, LoadToResume, LoadToUndo, LoadToSendNow, Load, Typed, Requests
  <2>3. CASE ~Cancel(v) /\ ~(LoadToSend(v) \/ LoadToResume(v) \/ LoadToUndo(v) \/ LoadToSendNow(v))
    <3>1. \/ request' = request \/ Answer(v)
          \/ \E pc \in {"claimed", "resumed", "unsend", "unresume"} : Continue(v, pc)
      BY <1>2, <2>3
         DEF RequestStep, Send, Resume, SendNow, EnqueueOfRequest, EnqueueFails, Unsend,
             Unresume, Clean
    <3>2. u # v => request'[u] = request[u] BY <3>1, AnswerEffect
    <3>3. request'[v] = request[v] \/ request'[v].pc # "clean"
      BY <3>1, AnswerEffect DEF NoRequest
    <3> QED BY <3>2, <3>3
  <2> QED BY <2>1, <2>2, <2>3
<1>3. ASSUME NEW r \in Runners, RunnerStep(r) \/ RunThrows(r) PROVE FALSE
  BY <1>3 DEF RunnerStep, JobStarts, Start, Decide, LoadProgress, NotCompiled, Batch,
              AdvanceCursor, Check, Cleanup, Timeout, Finish, JobEnds, RunThrows, outside
<1>4. CASE \E s \in Stamps, c \in Contacts : MessageStep(s, c)
  BY <1>4, SettleEffect DEF database
<1>5. CASE WorkerCrashes BY <1>5 DEF WorkerCrashes
<1>6. CASE Others
  BY <1>6 DEF Others, Pause, Schedule, Unschedule, JobExpires, SchedulerStep, MarkMissed,
              ClaimDue, SendMaterialize, ListPaused, ResumeOnQuota, WatchdogStep, ListRunning,
              ReconcileHandover, IsDrained, ReadCounters, Close, ApiCrashes, NoRequest,
              TurnsQuiet, WindowElapses, TimePasses, world, outside, elsewhere, cron, database
<1> QED BY <1>1, <1>2, <1>3, <1>4, <1>5, <1>6 DEF Next, Others

LEMMA NewCleaningRun ==
    ASSUME Typed, Typed', [Next]_vars, NEW r \in Runners,
           runner'[r].pc = "cleanup", runner[r].pc # "cleanup"
    PROVE  campaign'.status = "cancelled"
<1>1. CASE UNCHANGED vars BY <1>1 DEF vars
<1>2. ASSUME NEW u \in Users, RequestStep(u) PROVE FALSE
  BY <1>2 DEF RequestStep, LoadToSend, LoadToResume, LoadToUndo, LoadToSendNow, Load, Send,
              Resume, SendNow, EnqueueOfRequest, EnqueueFails, Unsend, Unresume, Cancel, Clean,
              world
<1>3. ASSUME NEW q \in Runners, RunnerStep(q) \/ RunThrows(q)
      PROVE  campaign'.status = "cancelled"
  <2>1. CASE Check(q)
    <3>1. CASE campaign.status = "cancelled" BY <2>1, <3>1 DEF Check
    <3>2. CASE campaign.status # "cancelled"
      <4>1. \E pc \in {"done", "finish", "batch", "timeout"} : Go(q, pc) BY <2>1, <3>2 DEF Check
      <4> QED BY <4>1 DEF Go, NoRun, Typed, Runs
    <3> QED BY <3>1, <3>2
  <2>2. CASE Cleanup(q) BY <2>2 DEF Cleanup, Go, NoRun, Typed, Runs
  <2>3. CASE ~Check(q) /\ ~Cleanup(q)
    <3> DEFINE Elsewhere == /\ runner'[q].pc # "cleanup"
                            /\ r # q => runner'[r] = runner[r]
    <3> USE DEF Typed, Runs, NoRun
    <3>1. \A pc : pc # "cleanup" /\ Go(q, pc) => Elsewhere BY DEF Go
    <3>2. \A pc, row : pc # "cleanup" /\ Begin(q, pc, row) => Elsewhere BY DEF Begin
    <3>3. CASE Start(q) BY <3>1, <3>2, <3>3 DEF Start
    <3>4. CASE Batch(q) BY <3>4 DEF Batch
    <3>5. CASE LoadProgress(q) BY <3>5 DEF LoadProgress
    <3>6. CASE JobEnds(q) \/ RunThrows(q) BY <3>6 DEF JobEnds, RunThrows
    <3>7. CASE JobStarts(q) \/ NotCompiled(q) \/ AdvanceCursor(q) \/ Timeout(q) \/ Finish(q)
      BY <3>1, <3>7 DEF JobStarts, NotCompiled, AdvanceCursor, Timeout, Finish
    <3>8. CASE Decide(q) BY <3>1, <3>8 DEF Decide
    <3> QED BY <1>3, <2>3, <3>3, <3>4, <3>5, <3>6, <3>7, <3>8 DEF RunnerStep
  <2> QED BY <2>1, <2>2, <2>3
<1>4. CASE \E s \in Stamps, c \in Contacts : MessageStep(s, c)
  BY <1>4, SettleEffect DEF database
<1>5. CASE WorkerCrashes BY <1>5 DEF WorkerCrashes, NoRun
<1>6. CASE Others BY <1>6, OthersEffect
<1> QED BY <1>1, <1>2, <1>3, <1>4, <1>5, <1>6 DEF Next, Others

LEMMA CleanersStep ==
    ASSUME Typed, Typed', Cleaners, [Next]_vars
    PROVE  Cleaners'
<1>1. campaign.status = "cancelled" => campaign'.status = "cancelled" BY EndsStay DEF Final
<1> QED BY <1>1, NewCleaningRequest, NewCleaningRun DEF Cleaners

LEMMA CleanMoves ==
    ASSUME Typed, NEW stamp, CancelPendingBatch(stamp)
    PROVE  \A s \in Stamps, c \in Contacts :
               \/ message'[s][c].status = message[s][c].status
               \/ message[s][c].status = "pending" /\ message'[s][c].status = "skipped"
<1> DEFINE row == [status |-> "skipped", release |-> 0]
<1>1. PICK batch \in SUBSET In(stamp, {"pending"}) :
        message' = [message EXCEPT ![stamp] = [c \in Contacts |->
                        IF c \in batch THEN row ELSE @[c]]]
  BY DEF CancelPendingBatch
<1>2. row.status = "skipped" OBVIOUS
<1> HIDE DEF row
<1> QED BY <1>1, <1>2 DEF Typed, In

LEMMA RowsLeftToSender ==
    ASSUME Typed, Stamping, Cleaners, [Next]_vars, NEW s \in Stamps, NEW c \in Contacts,
           message'[s][c].status # message[s][c].status
    PROVE  \/ message[s][c].status = "none" /\ message'[s][c].status \in {"pending", "skipped"}
           \/ /\ campaign.status = "cancelled"
              /\ message[s][c].status = "pending" /\ message'[s][c].status = "skipped"
           \/ MessageStep(s, c)
<1>1. message' # message OBVIOUS
<1>2. ASSUME NEW u \in Users, RequestStep(u)
      PROVE  /\ campaign.status = "cancelled"
             /\ message[s][c].status = "pending" /\ message'[s][c].status = "skipped"
  <2>1. CASE Clean(u) BY <2>1, CleanMoves DEF Clean, Cleaners
  <2>2. CASE SendNow(u) BY <2>2 DEF SendNow, Typed, Messages
  <2> QED BY <1>1, <1>2, <2>1, <2>2
    DEF RequestStep, LoadToSend, LoadToResume, LoadToUndo, LoadToSendNow, Load, Send, Resume,
        EnqueueOfRequest, EnqueueFails, Unsend, Unresume, Cancel, world
<1>3. ASSUME NEW r \in Runners, RunnerStep(r) \/ RunThrows(r)
      PROVE  \/ message[s][c].status = "none" /\ message'[s][c].status \in {"pending", "skipped"}
             \/ /\ campaign.status = "cancelled"
                /\ message[s][c].status = "pending" /\ message'[s][c].status = "skipped"
  <2>1. CASE Batch(r)
    <3>1. runner[r].stamp = campaign.stamp /\ campaign.stamp \in Stamps
      BY <2>1 DEF Batch, Stamping, Working, Typed, CampaignRows
    <3> QED BY <2>1, <3>1 DEF Batch, Typed
  <2>2. CASE Cleanup(r) BY <2>2, CleanMoves DEF Cleanup, Cleaners
  <2> QED BY <1>1, <1>3, <2>1, <2>2
    DEF RunnerStep, JobStarts, Start, Decide, LoadProgress, NotCompiled, AdvanceCursor, Check,
        Timeout, Finish, JobEnds, RunThrows
<1>4. ASSUME NEW t \in Stamps, NEW d \in Contacts, MessageStep(t, d) PROVE MessageStep(s, c)
  <2>1. \E status : Becomes(t, d, status)
    BY <1>4 DEF MessageStep, SenderClaims, SenderSettles, SenderReturns, Revoke
  <2>2. t = s /\ d = c BY <2>1 DEF Becomes, Typed
  <2> QED BY <1>4, <2>2
<1>5. ~(UNCHANGED vars \/ WorkerCrashes \/ Others)
  BY <1>1, OthersEffect DEF vars, WorkerCrashes
<1> QED BY <1>2, <1>3, <1>4, <1>5 DEF Next, Others

\* The application makes each message once and skips only what is pending of a campaign that
\* is cancelled; all the rest is the sender's and the revocations' (cancelPendingBatch).
THEOREM MessagesAreTheSenders == Spec => LeavesToSender
<1>1. Init => Cleaners BY DEF Init, Cleaners, NoRequest, NoRun
<1>2. IInv /\ IInv' /\ Cleaners /\ [Next]_vars => Cleaners'
  BY CleanersStep, TypeParts, TypePartsNext DEF IInv
<1>3. IInv /\ Cleaners /\ [Next]_vars
      => [\A s \in Stamps, c \in Contacts :
            message'[s][c].status # message[s][c].status =>
                \/ message[s][c].status = "none" /\ message'[s][c].status \in {"pending", "skipped"}
                \/ /\ campaign.status = "cancelled"
                   /\ message[s][c].status = "pending" /\ message'[s][c].status = "skipped"
                \/ MessageStep(s, c)]_vars
  BY RowsLeftToSender, TypeParts DEF IInv
<1> QED BY <1>1, <1>2, <1>3, CampaignInvariant, PTL DEF Spec, LeavesToSender

-----------------------------------------------------------------------------
(* The promise.                                                            *)

promised == <<State, progress.phase = "done", Mail, CountedEarly>>
Kept == [Promise!Next]_promised

\* What a contact got is what the one row says that may be there.
GotRows ==
    /\ Mail \in [Contacts -> Promise!Statuses]
    /\ \A s \in Stamps, c \in Contacts :
        /\ message[s][c].status # "none" => Mail[c] = message[s][c].status
        /\ s = campaign.stamp => Mail[c] = message[s][c].status
    /\ \A c \in Contacts :
        (\A s \in Stamps : message[s][c].status = "none") => Mail[c] = "none"

LEMMA MailIs == Typed /\ Stamping => GotRows
<1> SUFFICES ASSUME Typed, Stamping PROVE GotRows OBVIOUS
<1>1. \A s \in Stamps, c \in Contacts : message[s][c].status \in MessageStates
  BY DEF Typed, Messages
<1>2. ASSUME NEW c \in Contacts
      PROVE  Mail[c] = IF campaign.stamp = NoStamp THEN "none" ELSE message[campaign.stamp][c].status
  BY DEF Mail, MailOf, Stamping
<1>3. campaign.stamp \in Stamps \cup {NoStamp} BY DEF Typed, CampaignRows
<1>4. \A c \in Contacts : Mail[c] \in Promise!Statuses
  BY <1>1, <1>2, <1>3 DEF Promise!Statuses, MessageStates
<1>5. Mail \in [Contacts -> Promise!Statuses] BY <1>4 DEF Mail
<1> QED BY <1>2, <1>3, <1>5, CampaignAssumption DEF Stamping, GotRows

LEMMA MailIsNext == (Typed /\ Stamping)' => GotRows'
BY MailIs, PTL

USE DEF GotRows

\* It changes only where a row does.
LEMMA MailSame ==
    ASSUME Typed, Stamping, Typed', Stamping', NEW c \in Contacts,
           \A s \in Stamps : message'[s][c].status = message[s][c].status
    PROVE  Mail'[c] = Mail[c]
<1>1. CASE \A s \in Stamps : message[s][c].status = "none" BY <1>1, MailIs, MailIsNext
<1>2. CASE \E s \in Stamps : message[s][c].status # "none" BY <1>2, MailIs, MailIsNext
<1> QED BY <1>1, <1>2

LEMMA MailUnchanged ==
    ASSUME Typed, Stamping, Typed', Stamping',
           \A s \in Stamps, c \in Contacts : message'[s][c].status = message[s][c].status
    PROVE  Mail' = Mail
<1>1. \A c \in Contacts : Mail'[c] = Mail[c] BY MailSame
<1> QED BY <1>1, MailIs, MailIsNext

\* The rows are counted as the contacts are.
LEMMA CountIs ==
    ASSUME Typed, Stamping, NEW statuses, "none" \notin statuses
    PROVE  Count(statuses) = Cardinality({c \in Contacts : Mail[c] \in statuses})
<1> DEFINE Those == {c \in Contacts : Mail[c] \in statuses}
           Pairs == {p \in Stamps \X Contacts : message[p[1]][p[2]].status \in statuses}
           f == [c \in Those |-> <<campaign.stamp, c>>]
<1>1. \A c \in Those : campaign.stamp \in Stamps
  <2> SUFFICES ASSUME NEW c \in Those PROVE campaign.stamp \in Stamps OBVIOUS
  <2>1. PICK s \in Stamps : message[s][c].status # "none" BY MailIs
  <2> QED BY <2>1 DEF Stamping
<1>2. \A s \in Stamps, c \in Contacts : <<s, c>> \in Pairs <=> s = campaign.stamp /\ c \in Those
  BY MailIs DEF Stamping
<1>3. \A p \in Pairs : \E c \in Those : p = <<campaign.stamp, c>>
  <2> SUFFICES ASSUME NEW p \in Pairs PROVE \E c \in Those : p = <<campaign.stamp, c>> OBVIOUS
  <2>1. PICK s \in Stamps, c \in Contacts : p = <<s, c>> OBVIOUS
  <2>2. s = campaign.stamp /\ c \in Those BY <1>2, <2>1
  <2> QED BY <2>1, <2>2
<1>4. f \in Bijection(Those, Pairs)
  <2>1. f \in [Those -> Pairs] BY <1>1, <1>2
  <2>2. \A a, b \in Those : f[a] = f[b] => a = b OBVIOUS
  <2>3. \A p \in Pairs : \E c \in Those : f[c] = p BY <1>3
  <2> QED BY <2>1, <2>2, <2>3 DEF Bijection, Injection, Surjection, IsInjective
<1>5. IsFiniteSet(Those)
  <2>1. IsFiniteSet(Contacts) BY CampaignAssumption, FS_Interval DEF Contacts
  <2> QED BY <2>1, FS_Subset
<1>6. Cardinality(Pairs) = Cardinality(Those)
  BY <1>4, <1>5, FS_Bijection DEF ExistsBijection
<1> QED BY <1>6 DEF Count

\* FiniteSets reaches CampaignPromise by a way of its own.
LEMMA SameCardinality == \A S : Promise!Cardinality(S) = Cardinality(S)
BY DEF Promise!Cardinality, Cardinality

\* A complete audience is the whole audience, and the verdict on its rows that on its
\* contacts.
LEMMA VerdictIs ==
    ASSUME Typed, Stamping, \A c \in Contacts : Mail[c] # "none"
    PROVE  ClosingStatus(Tally) = Promise!Verdict
<1> DEFINE failed == Promise!Number("failed")
           skipped == Promise!Number("skipped")
           all == Cardinality(Contacts)
<1>1. IsFiniteSet(Contacts) BY CampaignAssumption, FS_Interval DEF Contacts
<1>2. Tally.failed = failed
  <2>1. Count({"failed"}) = Cardinality({c \in Contacts : Mail[c] \in {"failed"}}) BY CountIs
  <2>2. {c \in Contacts : Mail[c] \in {"failed"}} = {c \in Contacts : Mail[c] = "failed"} OBVIOUS
  <2> QED BY <2>1, <2>2, SameCardinality DEF Tally, Promise!Number
<1>3. Tally.skipped = skipped
  <2>1. Count({"skipped"}) = Cardinality({c \in Contacts : Mail[c] \in {"skipped"}}) BY CountIs
  <2>2. {c \in Contacts : Mail[c] \in {"skipped"}} = {c \in Contacts : Mail[c] = "skipped"} OBVIOUS
  <2> QED BY <2>1, <2>2, SameCardinality DEF Tally, Promise!Number
<1>4. Tally.total = all
  <2>1. Count(MessageStates \ {"none"})
          = Cardinality({c \in Contacts : Mail[c] \in MessageStates \ {"none"}}) BY CountIs
  <2>2. {c \in Contacts : Mail[c] \in MessageStates \ {"none"}} = Contacts
    BY MailIs DEF Promise!Statuses, MessageStates
  <2> QED BY <2>1, <2>2 DEF Tally
<1>5. /\ all \in Nat /\ failed \in Nat /\ skipped \in Nat
      /\ failed <= all /\ skipped <= all
  BY <1>1, FS_CardinalityType, FS_Subset, SameCardinality DEF Promise!Number
<1>6. all = 0 => failed + skipped = all BY <1>5
<1> HIDE DEF failed, skipped, all
<1>7. ClosingStatus(Tally) =
        IF all = 0 \/ failed + skipped = all THEN "failed"
        ELSE IF 100 * (failed + skipped) > PartialPercent * all THEN "partially_sent" ELSE "sent"
  BY <1>2, <1>3, <1>4 DEF ClosingStatus
<1>8. Promise!Verdict =
        IF failed + skipped = all THEN "failed"
        ELSE IF 100 * (failed + skipped) > PartialPercent * all THEN "partially_sent" ELSE "sent"
  BY SameCardinality DEF Promise!Verdict, failed, skipped, all
<1> QED BY <1>6, <1>7, <1>8

Now == Typed /\ Stamping /\ Built /\ Phases /\ Ticking
Quietly == progress'.phase = "done" <=> progress.phase = "done"

\* The steps that touch neither rows nor the end of a campaign.
LEMMA SwitchKept ==
    ASSUME Mail' = Mail, Quietly, CountedEarly' = CountedEarly,
           \/ campaign'.status = campaign.status
           \/ campaign.status \notin Final /\ campaign'.status \notin Final
    PROVE  Kept
<1>1. CASE campaign'.status = campaign.status
  BY <1>1 DEF Kept, promised, State, Quietly
<1>2. CASE campaign.status \notin Final /\ campaign'.status \notin Final
  <2>1. State \in Promise!Alive /\ State' \in Promise!Alive
    BY <1>2 DEF State, Promise!Alive
  <2> QED BY <2>1 DEF Kept, Promise!Next, Promise!Switch, Quietly
<1> QED BY <1>1, <1>2

\* The steps in which pending messages are skipped.
LEMMA DropKept ==
    ASSUME Typed, Stamping, Typed', Stamping', Quietly, CountedEarly' = CountedEarly,
           campaign' = campaign,
           \A s \in Stamps, c \in Contacts :
               \/ message'[s][c].status = message[s][c].status
               \/ message[s][c].status = "pending" /\ message'[s][c].status = "skipped"
    PROVE  Kept
<1>1. State' = State BY DEF State
<1>2. Mail' \in [Contacts -> Promise!Statuses] BY MailIsNext
<1>3. ASSUME NEW c \in Contacts, Mail'[c] # Mail[c]
      PROVE  Mail[c] = "pending" /\ Mail'[c] = "skipped"
  <2>1. PICK s \in Stamps : message'[s][c].status # message[s][c].status BY <1>3, MailSame
  <2>2. message[s][c].status = "pending" /\ message'[s][c].status = "skipped" BY <2>1
  <2> QED BY <2>2, MailIs, MailIsNext
<1>4. Promise!Drop BY <1>1, <1>2, <1>3 DEF Promise!Drop, Promise!Move, Quietly
<1> QED BY <1>4 DEF Kept, Promise!Next

LEMMA RequestKept ==
    ASSUME Now, Typed', Stamping', NEW u \in Users, RequestStep(u)
    PROVE  Kept
<1> USE DEF Now
<1>0. CountedEarly' = CountedEarly
  BY DEF RequestStep, LoadToSend, LoadToResume, LoadToUndo, LoadToSendNow, Load, Send, Resume,
         SendNow, EnqueueOfRequest, EnqueueFails, Unsend, Unresume, Cancel, Clean, world,
         CountedEarly
<1>1. CASE Send(u)
  <2>1. Mail' = Mail BY <1>1, MailUnchanged DEF Send
  <2>2. Quietly BY <1>1, ProgressedPhase DEF Send, Quietly
  <2>3. CASE StartMaterialization
    <3>1. campaign.status \notin Final /\ campaign'.status \notin Final
      BY <2>3, ClaimEffect DEF SendableFrom, Final
    <3> QED BY <1>0, <2>1, <2>2, <3>1, SwitchKept
  <2>4. CASE ~StartMaterialization
    <3>1. campaign' = campaign BY <1>1, <2>4 DEF Send
    <3> QED BY <1>0, <2>1, <2>2, <3>1, SwitchKept
  <2> QED BY <2>3, <2>4
<1>2. CASE Clean(u)
  <2>1. campaign' = campaign /\ Quietly BY <1>2 DEF Clean, Quietly
  <2> QED BY <1>0, <1>2, <2>1, CleanMoves, DropKept DEF Clean
<1>3. CASE SendNow(u)
  <2>1. \A s \in Stamps, c \in Contacts : message'[s][c].status = message[s][c].status
    BY <1>3 DEF SendNow, Typed, Messages
  <2>2. Mail' = Mail BY <2>1, MailUnchanged
  <2>3. campaign'.status = campaign.status /\ Quietly BY <1>3, SendNowEffect DEF SendNow, Quietly
  <2> QED BY <1>0, <2>2, <2>3, SwitchKept
<1>4. CASE Cancel(u)
  <2>1. Mail' = Mail /\ Quietly BY <1>4, MailUnchanged DEF Cancel, world, Quietly
  <2>2. CASE campaign.status \in CancellableFrom
    <3>1. campaign'.status = "cancelled" BY <1>4, <2>2 DEF Cancel, Typed, CampaignRows
    <3>2. State \in Promise!Alive /\ State' = "cancelled"
      BY <2>2, <3>1 DEF State, Promise!Alive, CancellableFrom, Final
    <3> QED BY <1>0, <2>1, <3>2 DEF Kept, Promise!Next, Promise!Cancel, Quietly
  <2>3. CASE campaign.status \notin CancellableFrom
    BY <1>0, <1>4, <2>1, <2>3, SwitchKept DEF Cancel
  <2> QED BY <2>2, <2>3
<1>5. CASE ~Send(u) /\ ~Clean(u) /\ ~SendNow(u) /\ ~Cancel(u)
  <2>1. UNCHANGED <<message, progress>>
    BY <1>5 DEF RequestStep, LoadToSend, LoadToResume, LoadToUndo, LoadToSendNow, Load, Resume,
                EnqueueOfRequest, EnqueueFails, Unsend, Unresume, world
  <2>2. Mail' = Mail /\ Quietly BY <2>1, MailUnchanged DEF Quietly
  <2>3. \/ campaign' = campaign
        \/ campaign.status \notin Final /\ campaign'.status \notin Final
    <3>1. CASE Resume(u) BY <3>1, ResumeEffect DEF Resume, Final, Typed
    <3>2. CASE Unresume(u) BY <3>2, PausedEffect DEF Unresume, Final
    <3>3. CASE Unsend(u)
      <4>1. request[u].status \in Final => campaign.status \in Final
        BY <3>3 DEF Unsend, Phases, Loaded
      <4> QED BY <3>3, <4>1 DEF Unsend, Moved, Final, Typed, CampaignRows
    <3>4. CASE ~Resume(u) /\ ~Unresume(u) /\ ~Unsend(u)
      BY <1>5, <3>4 DEF RequestStep, LoadToSend, LoadToResume, LoadToUndo, LoadToSendNow, Load,
                        EnqueueOfRequest, EnqueueFails
    <3> QED BY <3>1, <3>2, <3>3, <3>4
  <2> QED BY <1>0, <2>2, <2>3, SwitchKept
<1> QED BY <1>1, <1>2, <1>3, <1>4, <1>5

LEMMA RunnerKept ==
    ASSUME Now, Typed', Stamping', NEW r \in Runners, RunnerStep(r) \/ RunThrows(r)
    PROVE  Kept
<1> USE DEF Now
<1>0. CountedEarly' = CountedEarly
  BY DEF RunnerStep, JobStarts, Start, Decide, LoadProgress, NotCompiled, Batch, AdvanceCursor,
         Check, Cleanup, Timeout, Finish, JobEnds, RunThrows, outside, CountedEarly
<1>1. CASE Start(r)
  <2>1. Mail' = Mail BY <1>1, MailUnchanged DEF Start
  <2>2. Quietly BY <1>1, ProgressedPhase DEF Start, Quietly
  <2>3. CASE StartMaterialization
    <3>1. campaign.status \notin Final /\ campaign'.status \notin Final
      BY <2>3, ClaimEffect DEF SendableFrom, Final
    <3> QED BY <1>0, <2>1, <2>2, <3>1, SwitchKept
  <2>4. CASE ~StartMaterialization
    <3>1. campaign' = campaign BY <1>1, <2>4 DEF Start
    <3> QED BY <1>0, <2>1, <2>2, <3>1, SwitchKept
  <2> QED BY <2>3, <2>4
<1>2. CASE Batch(r)
  <2>1. State' = State /\ Quietly BY <1>2 DEF Batch, State, Quietly
  <2>2. runner[r].stamp = campaign.stamp /\ campaign.stamp \in Stamps
    BY <1>2 DEF Batch, Stamping, Working, Typed, CampaignRows
  <2>3. \A c \in Contacts :
            \/ message'[campaign.stamp][c].status = message[campaign.stamp][c].status
            \/ /\ message[campaign.stamp][c].status = "none"
               /\ message'[campaign.stamp][c].status \in {"pending", "skipped"}
    BY <1>2, <2>2 DEF Batch, Typed
  <2>4. \A c \in Contacts : /\ Mail[c] = message[campaign.stamp][c].status
                            /\ Mail'[c] = message'[campaign.stamp][c].status
    BY <1>2, <2>2, MailIs, MailIsNext DEF Batch
  <2>5. Mail' \in [Contacts -> Promise!Statuses] BY MailIsNext
  <2>6. Promise!Address BY <1>0, <2>1, <2>3, <2>4, <2>5 DEF Promise!Address, Promise!Move, Quietly
  <2> QED BY <2>6 DEF Kept, Promise!Next
<1>3. CASE Cleanup(r)
  <2>1. campaign' = campaign /\ Quietly BY <1>3 DEF Cleanup, Quietly, outside
  <2> QED BY <1>0, <1>3, <2>1, CleanMoves, DropKept DEF Cleanup
<1>4. CASE Finish(r)
  <2>1. Mail' = Mail BY <1>4, MailUnchanged DEF Finish
  <2>2. CASE campaign.status = "queueing"
    <3>1. campaign'.status = "sending" BY <1>4, <2>2 DEF Finish, Typed, CampaignRows
    <3>2. State = "running" /\ State' = "running" BY <2>2, <3>1 DEF State, Final, Running
    <3>3. Covered(N) BY <1>4 DEF Finish, Built
    <3>4. \A c \in Contacts : Mail[c] # "none" BY <3>3, MailIs DEF Covered, Contacts
    <3>5. progress'.phase = "done" BY <1>4, <2>2 DEF Finish, Typed, ProgressRows
    <3>6. Promise!Complete BY <1>0, <2>1, <3>2, <3>4, <3>5 DEF Promise!Complete
    <3> QED BY <3>6 DEF Kept, Promise!Next
  <2>3. CASE campaign.status # "queueing"
    <3>1. campaign' = campaign /\ Quietly BY <1>4, <2>3 DEF Finish, Quietly
    <3> QED BY <1>0, <2>1, <3>1, SwitchKept
  <2> QED BY <2>2, <2>3
<1>5. CASE NotCompiled(r)
  <2>1. Mail' = Mail /\ Quietly BY <1>5, MailUnchanged DEF NotCompiled, Quietly
  <2>2. CASE campaign.status \in Running
    <3>1. campaign'.status = "failed"
      BY <1>5, <2>2 DEF NotCompiled, Moved, Typed, CampaignRows
    <3>2. State = "running" /\ State' = "failed" BY <2>2, <3>1 DEF State, Final, Running
    <3>3. Promise!Abandon BY <1>0, <2>1, <3>1, <3>2 DEF Promise!Abandon, Quietly
    <3> QED BY <3>3 DEF Kept, Promise!Next
  <2>3. CASE campaign.status \notin Running
    <3>1. campaign' = campaign BY <1>5, <2>3 DEF NotCompiled, Moved
    <3> QED BY <1>0, <2>1, <3>1, SwitchKept
  <2> QED BY <2>2, <2>3
<1>6. CASE ~Start(r) /\ ~Batch(r) /\ ~Cleanup(r) /\ ~Finish(r) /\ ~NotCompiled(r)
  <2>1. message' = message /\ Quietly
    BY <1>6 DEF RunnerStep, JobStarts, Decide, LoadProgress, AdvanceCursor, Check, Timeout, JobEnds,
                RunThrows, outside, Quietly, Typed, ProgressRows
  <2>2. Mail' = Mail BY <2>1, MailUnchanged
  <2>3. \/ campaign' = campaign
        \/ campaign.status \notin Final /\ campaign'.status \notin Final
    <3>1. CASE Timeout(r) BY <3>1, PausedEffect DEF Timeout, Running, Final
    <3>2. CASE ~Timeout(r)
      BY <1>6, <3>2 DEF RunnerStep, JobStarts, Decide, LoadProgress, AdvanceCursor, Check, JobEnds,
                        RunThrows
    <3> QED BY <3>1, <3>2
  <2> QED BY <1>0, <2>1, <2>2, <2>3, SwitchKept
<1> QED BY <1>1, <1>2, <1>3, <1>4, <1>5, <1>6

LEMMA MessageKept ==
    ASSUME Now, Typed', Stamping', NEW s \in Stamps, NEW c \in Contacts, MessageStep(s, c)
    PROVE  Kept
<1> USE DEF Now
<1>1. CountedEarly' = CountedEarly /\ State' = State /\ Quietly
  BY SettleEffect DEF database, CountedEarly, State, Quietly
<1>2. message[s][c].status # "none" /\ Mail[c] = message[s][c].status
  BY SettleEffect, MailIs
<1>3. ASSUME NEW status \in MessageStates \ {"none"}, Becomes(s, c, status)
      PROVE  Mail' = [Mail EXCEPT ![c] = status]
  <2>1. message'[s][c].status = status
        /\ \A t \in Stamps, d \in Contacts :
               t # s \/ d # c => message'[t][d] = message[t][d]
    BY <1>3 DEF Becomes, Typed
  <2>2. Mail'[c] = status BY <2>1, MailIsNext
  <2>3. \A d \in Contacts : d # c => Mail'[d] = Mail[d] BY <2>1, MailSame
  <2> QED BY <2>2, <2>3, MailIs, MailIsNext
<1>8. Mail \in [Contacts -> Promise!Statuses] /\ Mail' \in [Contacts -> Promise!Statuses]
  BY MailIs, MailIsNext
<1>4. CASE SenderClaims(s, c)
  <2>1. State = "running" BY <1>4 DEF SenderClaims, State, Running, Final
  <2>2. Mail' = [Mail EXCEPT ![c] = "claimed"] BY <1>3, <1>4 DEF SenderClaims, MessageStates
  <2>3. Promise!Take
    BY <1>1, <1>2, <1>4, <1>8, <2>1, <2>2 DEF SenderClaims, Promise!Take, Promise!Move, Quietly
  <2> QED BY <2>3 DEF Kept, Promise!Next
<1>5. CASE SenderSettles(s, c) \/ SenderReturns(s, c)
  <2>1. PICK status \in Outcomes \cup {"pending"} : Becomes(s, c, status)
    BY <1>5 DEF SenderSettles, SenderReturns
  <2>2. status \in {"pending", "sent", "failed", "skipped"} BY CampaignAssumption
  <2>3. Mail' = [Mail EXCEPT ![c] = status] BY <1>3, <2>1, <2>2 DEF MessageStates
  <2>4. Mail[c] = "claimed" BY <1>2, <1>5 DEF SenderSettles, SenderReturns
  <2>5. Promise!Leave
    BY <1>1, <1>8, <2>2, <2>3, <2>4 DEF Promise!Leave, Promise!Move, Quietly
  <2> QED BY <2>5 DEF Kept, Promise!Next
<1>7. CASE Revoke(s, c)
  <2>1. Mail' = [Mail EXCEPT ![c] = "skipped"] BY <1>3, <1>7 DEF Revoke, MessageStates
  <2>2. Promise!Drop
    BY <1>1, <1>2, <1>7, <1>8, <2>1 DEF Revoke, Promise!Drop, Promise!Move, Quietly
  <2> QED BY <2>2 DEF Kept, Promise!Next
<1> QED BY <1>4, <1>5, <1>7 DEF MessageStep

\* What the watchdog closes it has counted after the audience was complete, and what it
\* counted still holds (Ticking), or it counted too early.
LEMMA WatchdogKept ==
    ASSUME Now, Typed', Stamping', WatchdogStep
    PROVE  Kept
<1> USE DEF Now
<1>1. message' = message /\ Quietly
  BY DEF WatchdogStep, ListRunning, ReconcileHandover, IsDrained, ReadCounters, Close, cron, Quietly
<1>2. Mail' = Mail BY <1>1, MailUnchanged
<1>3. ASSUME campaign' = campaign, CountedEarly' => CountedEarly PROVE Kept
  <2>1. State' = State BY <1>3 DEF State
  <2>2. CASE CountedEarly' = CountedEarly BY <1>1, <1>2, <1>3, <2>2, SwitchKept
  <2>3. CASE CountedEarly' = FALSE
    BY <1>1, <1>2, <2>1, <2>3 DEF Kept, Promise!Next, Promise!CountAgain, Quietly
  <2> QED BY <1>3, <2>2, <2>3 DEF CountedEarly
<1>4. CASE ListRunning
  <2>1. campaign' = campaign /\ ~CountedEarly'
    BY <1>4 DEF ListRunning, Tick, CountedEarly, Typed, Ticks
  <2> QED BY <1>3, <2>1
<1>5. CASE ReconcileHandover
  <2>1. campaign' = campaign BY <1>5 DEF ReconcileHandover
  <2>2. CountedEarly' => progress.phase # "done"
    BY <1>5 DEF ReconcileHandover, CountedEarly, Typed, Ticks
  <2>3. CASE CountedEarly'
    <3>1. State' = State BY <2>1 DEF State
    <3>2. Promise!CountBefore
      BY <1>1, <1>2, <2>2, <2>3, <3>1 DEF Promise!CountBefore, Quietly, CountedEarly
    <3> QED BY <3>2 DEF Kept, Promise!Next
  <2>4. CASE ~CountedEarly' BY <1>3, <2>1, <2>4
  <2> QED BY <2>3, <2>4
<1>6. CASE IsDrained
  <2>1. campaign' = campaign /\ (CountedEarly' => CountedEarly)
    BY <1>6 DEF IsDrained, CountedEarly, NoTick, Typed, Ticks
  <2> QED BY <1>3, <2>1
<1>7. CASE ReadCounters
  <2>1. campaign' = campaign /\ (CountedEarly' => CountedEarly)
    BY <1>7 DEF ReadCounters, CountedEarly, NoTick, Typed, Ticks
  <2> QED BY <1>3, <2>1
<1>8. CASE Close
  <2>1. watchdog.pc = "close" /\ ~CountedEarly' BY <1>8 DEF Close, CountedEarly, NoTick
  <2>2. CASE campaign.status \notin Running
    <3>1. campaign' = campaign BY <1>8, <2>2 DEF Close, Moved
    <3> QED BY <1>3, <2>1, <3>1
  <2>3. CASE campaign.status \in Running
    <3>1. campaign'.status = watchdog.verdict
          /\ watchdog.verdict \in {"sent", "partially_sent", "failed"}
      BY <1>8, <2>3 DEF Close, Moved, Typed, CampaignRows, Ticks
    <3>2. State = "running" /\ State' = watchdog.verdict
      BY <2>3, <3>1 DEF State, Final, Running
    <3>3. CASE CountedEarly
      <4>1. Promise!Close BY <1>1, <1>2, <2>1, <3>1, <3>2, <3>3 DEF Promise!Close, Quietly
      <4> QED BY <4>1 DEF Kept, Promise!Next
    <3>4. CASE ~CountedEarly
      <4>1. watchdog.complete BY <2>1, <3>4 DEF CountedEarly
      <4>2. /\ progress.phase = "done" /\ counters = Tally /\ Drained
            /\ watchdog.verdict = ClosingStatus(counters)
        BY <2>1, <4>1 DEF Ticking
      <4>3. \A c \in Contacts : Mail[c] # "none"
        BY <4>2, MailIs DEF Built, Covered, Contacts
      <4>4. \A c \in Contacts : Mail[c] \in {"sent", "failed", "skipped"}
        <5> SUFFICES ASSUME NEW c \in Contacts PROVE Mail[c] \in {"sent", "failed", "skipped"}
          OBVIOUS
        <5>1. PICK s \in Stamps : message[s][c].status # "none" BY <4>3, MailIs
        <5>2. message[s][c].status \in MessageStates \ {"none", "pending", "claimed"}
          BY <4>2, <5>1, DrainedRows DEF Typed, Messages
        <5> QED BY <5>1, <5>2, MailIs DEF MessageStates
      <4>5. watchdog.verdict = Promise!Verdict BY <4>2, <4>3, VerdictIs
      <4>6. Promise!Close
        BY <1>1, <1>2, <2>1, <3>1, <3>2, <4>2, <4>4, <4>5 DEF Promise!Close, Quietly
      <4> QED BY <4>6 DEF Kept, Promise!Next
    <3> QED BY <3>3, <3>4
  <2> QED BY <2>2, <2>3
<1> QED BY <1>4, <1>5, <1>6, <1>7, <1>8 DEF WatchdogStep

LEMMA OthersKept ==
    ASSUME Now, Typed', Stamping', Others, ~WatchdogStep
    PROVE  Kept
<1> USE DEF Now
<1>1. Mail' = Mail /\ Quietly BY OthersEffect, MailUnchanged DEF Quietly
<1>2. CountedEarly' = CountedEarly
  BY DEF Others, Pause, Schedule, Unschedule, JobExpires, SchedulerStep, MarkMissed, ClaimDue,
         SendMaterialize, ListPaused, ResumeOnQuota, ApiCrashes, TurnsQuiet, WindowElapses,
         TimePasses, world, outside, elsewhere, database, CountedEarly
<1>3. \/ campaign' = campaign
      \/ campaign.status \notin Final /\ campaign'.status \notin Final
  <2>1. CASE Pause BY <2>1, PausedEffect DEF Pause, Running, Final
  <2>2. CASE Schedule \/ Unschedule \/ MarkMissed \/ TimePasses
    BY <2>2 DEF Schedule, Unschedule, MarkMissed, TimePasses, Final, Typed, CampaignRows
  <2>3. CASE ResumeOnQuota BY <2>3, ResumeEffect DEF ResumeOnQuota, Final, Typed
  <2>4. CASE ~Pause /\ ~Schedule /\ ~Unschedule /\ ~MarkMissed /\ ~TimePasses /\ ~ResumeOnQuota
    BY <2>4 DEF Others, JobExpires, SchedulerStep, ClaimDue, SendMaterialize, ListPaused,
                ApiCrashes, TurnsQuiet, WindowElapses, outside, elsewhere, database
  <2> QED BY <2>1, <2>2, <2>3, <2>4
<1> QED BY <1>1, <1>2, <1>3, SwitchKept

LEMMA StepKept ==
    ASSUME Now, Typed', Stamping', [Next]_vars
    PROVE  Kept
<1>1. CASE UNCHANGED vars
  <2>1. Mail' = Mail BY <1>1, MailUnchanged DEF Now, vars
  <2> QED BY <1>1, <2>1, SwitchKept DEF vars, Quietly, CountedEarly
<1>2. CASE \E u \in Users : RequestStep(u) BY <1>2, RequestKept
<1>3. CASE \E r \in Runners : RunnerStep(r) \/ RunThrows(r) BY <1>3, RunnerKept
<1>4. CASE \E s \in Stamps, c \in Contacts : MessageStep(s, c) BY <1>4, MessageKept
<1>5. CASE WorkerCrashes
  <2>1. Mail' = Mail BY <1>5, MailUnchanged DEF WorkerCrashes, Now
  <2>2. State' = State /\ Quietly /\ CountedEarly' = FALSE
    BY <1>5 DEF WorkerCrashes, NoTick, State, Quietly, CountedEarly
  <2> QED BY <2>1, <2>2 DEF Kept, Promise!Next, Promise!CountAgain, Quietly
<1>6. CASE WatchdogStep BY <1>6, WatchdogKept
<1>7. CASE Others /\ ~WatchdogStep BY <1>7, OthersKept
<1> QED BY <1>1, <1>2, <1>3, <1>4, <1>5, <1>6, <1>7 DEF Next, Others

\* A campaign keeps its promise however requests, runs of its job, cron jobs, crashes and
\* the sender overlap: one message each, nothing taken while it rests or after it has
\* ended, one end, and that end the true one unless it was counted too early.
THEOREM Refinement == Spec => KeepsPromise
<1>1. Init => Promise!Init
  <2> SUFFICES ASSUME Init PROVE Promise!Init OBVIOUS
  <2>1. Mail = [c \in Contacts |-> "none"]
    BY DEF Init, Mail, MailOf, NoMessage
  <2> QED BY <2>1 DEF Init, Promise!Init, State, CountedEarly, NoTick, Final, Running
<1>2. IInv /\ IInv' /\ [Next]_vars => Kept
  <2> SUFFICES ASSUME IInv, IInv', [Next]_vars PROVE Kept OBVIOUS
  <2>1. Now BY TypeParts DEF Now, IInv
  <2>2. Typed' /\ Stamping' BY TypePartsNext DEF IInv
  <2> QED BY <2>1, <2>2, StepKept
<1> QED BY <1>1, <1>2, CampaignInvariant, PTL DEF Spec, KeepsPromise, Promise!Spec, Kept, promised
=============================================================================
