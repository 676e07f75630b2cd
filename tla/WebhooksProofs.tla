---------------------------- MODULE WebhooksProofs ----------------------------
(***************************************************************************)
(* Theorems about Webhooks, for any events, endpoints, workers, limits and *)
(* edits.                                                                  *)
(*                                                                         *)
(* What holds whatever happens to jobs: an answer that ends a delivery was *)
(* heard, an open row has a time to be found at, and what a disabled       *)
(* endpoint still gets was queued or listed before.  From that the log of  *)
(* deliveries implements WebhookPromise.  As long as no job expires under  *)
(* its handler, a worker that has a call has its job.                      *)
(***************************************************************************)
EXTENDS Webhooks, TLAPS

Endpoints == [active : BOOLEAN, deleted : BOOLEAN, subscribed : BOOLEAN,
              url : Nat, failures : Nat, quiet : BOOLEAN, reason : Reasons]
Rows == [status : Statuses, attempt : Nat, next : {"none", "later", "due"}]
Jobs == {"none", "waiting"} \union Worker
Calls == [answer : {"awaited", "ok", "error", "gone", "blocked"}, of : Delivery,
          attempt : Nat, url : Nat]
Idle == [answer : {"idle"}]
Scans == [listed : SUBSET Delivery, held : SUBSET Delivery]
Bounds == [edits : Nat, crashes : Nat]

Typed ==
    /\ emitted \subseteq Event /\ fanout \subseteq emitted
    /\ owed \subseteq Delivery /\ heard \subseteq Delivery
    /\ endpoint \in [Endpoint -> Endpoints]
    /\ row \in [Delivery -> Rows]
    /\ job \in [Delivery -> Jobs]
    /\ call \in [Worker -> Idle \union Calls]
    /\ scan \in Scans
    /\ begun \in [Delivery -> Nat]
    /\ used \in Bounds

LEMMA TypeParts == TypeOK <=> Typed
BY DEF TypeOK, Typed, Endpoints, Rows, Jobs, Calls, Idle, Scans, Bounds

Busy(w) == call[w] # NoCall

\* What is queued or called for exists, and an answer of success was given.
Made == \A d \in Delivery : job[d] # "none" => row[d].status # "none"
CallMade == \A w \in Worker : Busy(w) => row[call[w].of].status # "none"
OkWasHeard == \A w \in Worker : call[w].answer = "ok" => call[w].of \in heard

\* What a scan has in its hands exists, and what it has queued has no other job.
Scanned == scan.listed \union scan.held
ScanMade == \A d \in Scanned : row[d].status # "none"
HeldIsFree == \A d \in scan.held : job[d] = "none"

\* The calls a disabled endpoint may still get: for the job that waits, and for the scan.
Left(d) == (IF job[d] = "waiting" THEN 1 ELSE 0) + (IF d \in Scanned THEN 1 ELSE 0)
Winding == \A d \in Delivery : ~endpoint[d[2]].active =>
    begun[d] + Left(d) <= 2 /\ (row[d].status = "none" => begun[d] = 0)

IInv ==
    /\ Typed /\ Made /\ CallMade /\ OkWasHeard /\ ScanMade /\ HeldIsFree /\ Winding
    /\ SucceededWasHeard /\ OpenIsScheduled

\* As long as no job expires under its handler.
Exclusive == \A w \in Worker : Busy(w) => job[call[w].of] = w

-----------------------------------------------------------------------------
LEMMA Pairs == \A d \in Delivery : d[1] \in Event /\ d[2] \in Endpoint
BY DEF Delivery

LEMMA CallKinds ==
    ASSUME Typed, NEW w \in Worker
    PROVE  /\ Busy(w) => call[w] \in Calls /\ call[w].of \in Delivery
           /\ ~Busy(w) => call[w].answer = "idle"
           /\ call[w].answer # "idle" => Busy(w)
<1>1. call[w] \in Idle \/ call[w] \in Calls BY DEF Typed
<1>2. CASE call[w] \in Idle BY <1>2 DEF Idle, NoCall, Busy
<1>3. CASE call[w] \in Calls BY <1>3 DEF Calls, NoCall, Busy
<1> QED BY <1>1, <1>2, <1>3

LEMMA NoCallTyped == NoCall \in Idle \union Calls /\ NoCall.answer = "idle"
BY DEF NoCall, Idle

LEMMA NewRowTyped == NewRow \in Rows /\ NewRow.status = "pending" /\ NewRow.next = "due"
BY DEF NewRow, Rows, Statuses

LEMMA Workers == "none" \notin Worker /\ "waiting" \notin Worker
BY WebhooksAssumption

LEMMA Queued ==
    ASSUME Typed, NEW D \in SUBSET Delivery, Enqueue(D)
    PROVE  /\ job' \in [Delivery -> Jobs]
           /\ \A d \in Delivery : job'[d] = IF d \in D THEN "waiting" ELSE job[d]
BY DEF Enqueue, Typed, Jobs

\* New deliveries, and the jobs that go with them.
LEMMA Enqueued ==
    ASSUME IInv, NEW D \in SUBSET Delivery, EnqueueDelivery(D)
    PROVE  /\ row' \in [Delivery -> Rows] /\ job' \in [Delivery -> Jobs]
           /\ \A d \in Delivery :
                 \/ d \notin NewIn(D) /\ row'[d] = row[d] /\ job'[d] = job[d]
                 \/ /\ d \in NewIn(D) /\ row[d].status = "none" /\ job[d] = "none"
                    /\ row'[d] = NewRow /\ job'[d] = "waiting"
<1> DEFINE New == {d \in NewIn(D) : Unqueued(d)}
<1>1. \A d \in NewIn(D) : d \in Delivery /\ row[d].status = "none" /\ job[d] = "none"
  BY DEF NewIn, IInv, Made
<1>2. New = NewIn(D) /\ New \in SUBSET Delivery BY <1>1 DEF Unqueued
<1>3. /\ job' \in [Delivery -> Jobs]
      /\ \A d \in Delivery : job'[d] = IF d \in NewIn(D) THEN "waiting" ELSE job[d]
  <2>1. Enqueue(New) BY DEF EnqueueDelivery
  <2> HIDE DEF New
  <2> QED BY <1>2, <2>1, Queued DEF IInv
<1>4. row' = [d \in Delivery |-> IF d \in NewIn(D) THEN NewRow ELSE row[d]]
  BY DEF EnqueueDelivery
<1>5. row' \in [Delivery -> Rows] BY <1>4, NewRowTyped DEF IInv, Typed
<1> QED BY <1>1, <1>3, <1>4, <1>5

\* A scan that goes on as before, while no job is added to what it has in its hands.
LEMMA ScanKept ==
    ASSUME IInv, scan' = scan,
           \A d \in Delivery : row[d].status # "none" => row'[d].status # "none",
           \A d \in Delivery : job[d] = "none" /\ row[d].status # "none" => job'[d] = "none"
    PROVE  ScanMade' /\ HeldIsFree'
<1>1. Scanned \subseteq Delivery /\ scan.held \subseteq Scanned BY DEF Scanned, IInv, Typed, Scans
<1> QED BY <1>1 DEF IInv, ScanMade, HeldIsFree, Scanned

LEMMA InitHolds == Init => IInv /\ Exclusive
<1> SUFFICES ASSUME Init PROVE IInv /\ Exclusive OBVIOUS
<1> USE DEF Init
<1>1. \A d \in Delivery : row[d].status = "none" /\ job[d] = "none" /\ begun[d] = 0
  BY DEF NoRow
<1>2. (\A w \in Worker : call[w] = NoCall) /\ scan = NoScan /\ Scanned = {}
  BY DEF Scanned, NoScan
<1>3. NoRow \in Rows BY DEF NoRow, Rows, Statuses
<1>4. endpoint \in [Endpoint -> Endpoints] BY DEF Endpoints, Reasons
<1>5. Typed BY <1>2, <1>3, <1>4, NoCallTyped DEF Typed, Jobs, Bounds, Scans, NoScan
<1>6. Made /\ CallMade /\ OkWasHeard /\ ScanMade /\ HeldIsFree /\ Winding
  BY <1>1, <1>2, NoCallTyped
  DEF Made, CallMade, OkWasHeard, ScanMade, HeldIsFree, Winding, Left, Busy, NoScan
<1>7. SucceededWasHeard /\ OpenIsScheduled BY <1>1 DEF SucceededWasHeard, OpenIsScheduled, Open
<1>8. Exclusive BY <1>1, <1>2 DEF Exclusive, Busy
<1> QED BY <1>5, <1>6, <1>7, <1>8 DEF IInv

\* A step that only makes and queues new deliveries, besides what is typed.
LEMMA MakeStep ==
    ASSUME IInv, NEW D \in SUBSET Delivery, EnqueueDelivery(D),
           emitted' \subseteq Event, fanout' \subseteq emitted', used' \in Bounds,
           UNCHANGED <<endpoint, call, scan, owed, heard, begun>>
    PROVE  IInv' /\ (Exclusive => Exclusive')
<1>1. /\ row' \in [Delivery -> Rows] /\ job' \in [Delivery -> Jobs]
      /\ \A d \in Delivery :
            \/ row'[d] = row[d] /\ job'[d] = job[d]
            \/ /\ row[d].status = "none" /\ job[d] = "none"
               /\ row'[d] = NewRow /\ job'[d] = "waiting"
  BY Enqueued
<1>2. Typed' BY <1>1 DEF IInv, Typed
<1>3. \A w \in Worker : Busy(w) => call[w].of \in Delivery BY CallKinds DEF IInv
<1>4. Made' BY <1>1, NewRowTyped DEF IInv, Made
<1>5. CallMade' BY <1>1, <1>3, NewRowTyped DEF IInv, CallMade, Busy
<1>6. OkWasHeard' BY DEF IInv, OkWasHeard
<1>7. ScanMade' /\ HeldIsFree' BY <1>1, NewRowTyped, ScanKept
<1>8. Winding'
  <2> SUFFICES ASSUME NEW d \in Delivery, ~endpoint[d[2]].active
               PROVE  begun[d] + Left(d)' <= 2 /\ (row'[d].status = "none" => begun[d] = 0)
    BY DEF Winding
  <2>1. CASE row'[d] = row[d] /\ job'[d] = job[d]
    BY <2>1 DEF IInv, Winding, Left, Scanned
  <2>2. CASE row[d].status = "none" /\ row'[d] = NewRow
    <3>1. begun[d] = 0 /\ d \notin Scanned BY <2>2 DEF IInv, Winding, ScanMade
    <3>2. Left(d)' <= 1 BY <3>1 DEF Left, Scanned
    <3> QED BY <2>2, <3>1, <3>2, NewRowTyped DEF Left
  <2> QED BY <1>1, <2>1, <2>2
<1>9. SucceededWasHeard' BY <1>1, NewRowTyped DEF IInv, SucceededWasHeard
<1>10. OpenIsScheduled' BY <1>1, NewRowTyped DEF IInv, OpenIsScheduled
<1>11. Exclusive => Exclusive' BY <1>1, <1>3 DEF Exclusive, Busy, IInv, CallMade
<1> QED BY <1>2, <1>4, <1>5, <1>6, <1>7, <1>8, <1>9, <1>10, <1>11 DEF IInv

LEMMA EmitStep ==
    ASSUME IInv, NEW e \in Event, Emit(e) PROVE IInv' /\ (Exclusive => Exclusive')
<1> USE DEF Emit
<1>1. UNCHANGED <<endpoint, row, job, call, scan, used, heard, begun>> OBVIOUS
<1>2. emitted' \subseteq Event /\ fanout' \subseteq emitted' /\ owed' \subseteq Delivery
  BY DEF IInv, Typed, Delivery
<1> HIDE DEF Emit
<1>3. Typed' BY <1>1, <1>2 DEF IInv, Typed
<1>4. /\ Made' /\ CallMade' /\ OkWasHeard' /\ ScanMade' /\ HeldIsFree' /\ Winding'
      /\ SucceededWasHeard' /\ OpenIsScheduled'
  BY <1>1 DEF IInv, Made, CallMade, OkWasHeard, ScanMade, HeldIsFree, Winding, Left, Scanned,
                 SucceededWasHeard, OpenIsScheduled, Busy
<1>5. Exclusive => Exclusive'
  BY <1>1 DEF Exclusive, Busy
<1> QED BY <1>3, <1>4, <1>5 DEF IInv

LEMMA FanoutStep ==
    ASSUME IInv, NEW e \in Event, NEW dies \in BOOLEAN, FanoutEvent(e, dies)
    PROVE  IInv' /\ (Exclusive => Exclusive')
<1> DEFINE D == {<<e, p>> : p \in {q \in Endpoint : Subscribed(q)}}
<1>1. D \in SUBSET Delivery BY DEF Delivery
<1>2. EnqueueDelivery(D) BY DEF FanoutEvent
<1>3. emitted' \subseteq Event /\ fanout' \subseteq emitted' BY DEF FanoutEvent, IInv, Typed
<1>4. used' \in Bounds
  <2>1. used \in Bounds BY DEF IInv, Typed
  <2> DEFINE n == IF dies THEN used.crashes + 1 ELSE used.crashes
  <2>2. n \in Nat BY <2>1 DEF Bounds
  <2>3. used' = [used EXCEPT !.crashes = n] BY <2>1 DEF FanoutEvent, Bounds
  <2> HIDE DEF n
  <2> QED BY <2>1, <2>2, <2>3 DEF Bounds
<1>5. UNCHANGED <<endpoint, call, scan, owed, heard, begun>> BY DEF FanoutEvent
<1> HIDE DEF D
<1> QED BY <1>1, <1>2, <1>3, <1>4, <1>5, MakeStep

LEMMA TestStep ==
    ASSUME IInv, NEW e \in Event, NEW p \in Endpoint, TestEndpoint(e, p)
    PROVE  IInv' /\ (Exclusive => Exclusive')
<1>1. {<<e, p>>} \in SUBSET Delivery BY DEF Delivery
<1>2. EnqueueDelivery({<<e, p>>}) BY DEF TestEndpoint
<1>3. /\ emitted' \subseteq Event /\ fanout' \subseteq emitted' /\ used' \in Bounds
      /\ UNCHANGED <<endpoint, call, scan, owed, heard, begun>>
  BY DEF TestEndpoint, IInv, Typed
<1> QED BY <1>1, <1>2, <1>3, MakeStep

LEMMA LoadStep ==
    ASSUME IInv, NEW w \in Worker, NEW d \in Delivery, Load(w, d)
    PROVE  IInv' /\ (Exclusive => Exclusive')
<1>1. call[w] = NoCall /\ job[d] = "waiting" /\ row[d].status # "none" /\ d[2] \in Endpoint
  BY Pairs DEF Load, IInv, Made
<1>2. UNCHANGED <<emitted, fanout, endpoint, row, scan, used, owed, heard>> BY DEF Load
<1>3. CASE ~Live(d[2])
  <2>1. job' = [job EXCEPT ![d] = "none"] /\ UNCHANGED <<call, begun>> BY <1>3 DEF Load
  <2>2. /\ job' \in [Delivery -> Jobs]
        /\ \A c \in Delivery : job'[c] = IF c = d THEN "none" ELSE job[c]
    BY <2>1 DEF IInv, Typed, Jobs
  <2>3. Typed' BY <1>2, <2>1, <2>2 DEF IInv, Typed
  <2>4. Made' BY <1>2, <2>2 DEF IInv, Made
  <2>a. ScanMade' /\ HeldIsFree' BY <1>1, <1>2, <2>2, ScanKept
  <2>b. Winding'
    <3>1. \A c \in Delivery : Left(c)' <= Left(c) BY <1>1, <1>2, <2>2 DEF Left, Scanned
    <3>2. \A c \in Delivery : Left(c) \in Nat /\ Left(c)' \in Nat BY DEF Left
    <3>3. \A c \in Delivery : begun[c] \in Nat BY DEF IInv, Typed
    <3> QED BY <1>2, <2>1, <3>1, <3>2, <3>3 DEF IInv, Winding
  <2>5. CallMade' /\ OkWasHeard' /\ SucceededWasHeard' /\ OpenIsScheduled'
    BY <1>2, <2>1 DEF IInv, CallMade, OkWasHeard, SucceededWasHeard, OpenIsScheduled, Busy
  <2>6. ASSUME Exclusive PROVE Exclusive'
    <3> SUFFICES ASSUME NEW v \in Worker, Busy(v) PROVE job'[call[v].of] = v
      BY <2>1 DEF Exclusive, Busy
    <3>1. job[call[v].of] = v /\ call[v].of \in Delivery
      BY <2>6, CallKinds DEF Exclusive, IInv
    <3> QED BY <1>1, <2>2, <3>1, Workers
  <2> QED BY <2>3, <2>4, <2>a, <2>b, <2>5, <2>6 DEF IInv
<1>4. CASE Live(d[2])
  <2> DEFINE new == [answer |-> "awaited", of |-> d, attempt |-> row[d].attempt + 1,
                     url |-> endpoint[d[2]].url]
             n == IF endpoint[d[2]].active THEN begun[d] ELSE begun[d] + 1
  <2>1. /\ job' = [job EXCEPT ![d] = w] /\ call' = [call EXCEPT ![w] = new]
        /\ begun' = [begun EXCEPT ![d] = n]
    BY <1>4 DEF Load, IInv, Typed
  <2>2. new \in Calls /\ new # NoCall /\ new.of = d /\ new.answer = "awaited"
    BY <1>1 DEF Calls, NoCall, IInv, Typed, Endpoints, Rows
  <2>3. n \in Nat /\ begun[d] \in Nat BY DEF IInv, Typed
  <2>4. ~endpoint[d[2]].active => n = begun[d] + 1 OBVIOUS
  <2> HIDE DEF new, n
  <2>5. /\ job' \in [Delivery -> Jobs]
        /\ \A c \in Delivery : job'[c] = IF c = d THEN w ELSE job[c]
    BY <2>1 DEF IInv, Typed, Jobs
  <2>6. \A v \in Worker : call'[v] = IF v = w THEN new ELSE call[v]
    BY <2>1 DEF IInv, Typed
  <2>7. \A c \in Delivery : begun'[c] = IF c = d THEN n ELSE begun[c]
    BY <2>1 DEF IInv, Typed
  <2>8. Typed' BY <1>2, <2>1, <2>2, <2>3, <2>5 DEF IInv, Typed
  <2>9. Made' BY <1>1, <1>2, <2>5 DEF IInv, Made
  <2>10. CallMade' BY <1>1, <1>2, <2>2, <2>6 DEF IInv, CallMade, Busy
  <2>11. OkWasHeard' BY <1>2, <2>2, <2>6 DEF IInv, OkWasHeard
  <2>a. ScanMade' /\ HeldIsFree' BY <1>1, <1>2, <2>5, ScanKept
  <2>12. Winding'
    <3> SUFFICES ASSUME NEW c \in Delivery, ~endpoint[c[2]].active
                 PROVE  begun'[c] + Left(c)' <= 2 /\ (row[c].status = "none" => begun'[c] = 0)
      BY <1>2 DEF Winding
    <3>1. begun[c] + Left(c) <= 2 /\ (row[c].status = "none" => begun[c] = 0)
      BY DEF IInv, Winding
    <3>2. CASE c # d BY <1>2, <2>5, <2>7, <3>1, <3>2 DEF Left, Scanned
    <3>3. CASE c = d
      <4>1. job[c] = "waiting" /\ job'[c] # "waiting" /\ begun'[c] = begun[c] + 1
        BY <1>1, <2>4, <2>5, <2>7, <3>3, Workers
      <4>2. Left(c) = Left(c)' + 1 BY <1>2, <4>1 DEF Left, Scanned
      <4>3. Left(c)' \in Nat /\ begun[c] \in Nat BY DEF Left, IInv, Typed
      <4> QED BY <1>1, <3>1, <3>3, <4>1, <4>2, <4>3
    <3> QED BY <3>2, <3>3
  <2>13. SucceededWasHeard' /\ OpenIsScheduled'
    BY <1>2 DEF IInv, SucceededWasHeard, OpenIsScheduled
  <2>14. ASSUME Exclusive PROVE Exclusive'
    <3> SUFFICES ASSUME NEW v \in Worker, call'[v] # NoCall PROVE job'[call'[v].of] = v
      BY DEF Exclusive, Busy
    <3>1. CASE v = w BY <2>2, <2>5, <2>6, <3>1
    <3>2. CASE v # w
      <4>1. call'[v] = call[v] /\ Busy(v) BY <2>6, <3>2 DEF Busy
      <4>2. job[call[v].of] = v /\ call[v].of \in Delivery
        BY <2>14, <4>1, CallKinds DEF Exclusive, IInv
      <4> QED BY <1>1, <2>5, <4>1, <4>2, Workers
    <3> QED BY <3>1, <3>2
  <2> QED BY <2>8, <2>9, <2>10, <2>11, <2>a, <2>12, <2>13, <2>14 DEF IInv
<1> QED BY <1>3, <1>4

LEMMA AnswerStep ==
    ASSUME IInv, NEW w \in Worker, NEW a \in Answers, Answer(w, a)
    PROVE  IInv' /\ (Exclusive => Exclusive')
<1> DEFINE b == IF a = "lost" THEN "error" ELSE a
           new == [call[w] EXCEPT !.answer = b]
<1>1. UNCHANGED <<emitted, fanout, endpoint, row, job, scan, used, owed, begun>>
  BY DEF Answer, tables
<1>2. Busy(w) /\ call[w] \in Calls /\ call[w].of \in Delivery BY CallKinds DEF Answer, IInv
<1>3. call' = [call EXCEPT ![w] = new] BY DEF Answer, IInv, Typed
<1>4. b \in {"awaited", "ok", "error", "gone", "blocked"} /\ (b = "ok" => a = "ok")
  BY WebhooksAssumption
<1> HIDE DEF b
<1>5. new \in Calls /\ new.of = call[w].of /\ new.answer = b /\ new # NoCall
  BY <1>2, <1>4 DEF Calls, NoCall
<1> HIDE DEF new
<1>6. /\ heard \subseteq heard' /\ heard' \subseteq Delivery
      /\ a = "ok" => call[w].of \in heard'
  BY <1>2 DEF Answer, IInv, Typed
<1>7. \A v \in Worker : call'[v] = IF v = w THEN new ELSE call[v] BY <1>3 DEF IInv, Typed
<1>8. Typed' BY <1>1, <1>3, <1>5, <1>6 DEF IInv, Typed
<1>9. Made' /\ ScanMade' /\ HeldIsFree' /\ Winding' /\ OpenIsScheduled'
  BY <1>1 DEF IInv, Made, ScanMade, HeldIsFree, Winding, Left, Scanned, OpenIsScheduled
<1>10. CallMade' BY <1>1, <1>2, <1>5, <1>7 DEF IInv, CallMade, Busy
<1>11. OkWasHeard' BY <1>4, <1>5, <1>6, <1>7 DEF IInv, OkWasHeard
<1>12. SucceededWasHeard' BY <1>1, <1>6 DEF IInv, SucceededWasHeard
<1>13. Exclusive => Exclusive'
  BY <1>1, <1>2, <1>5, <1>7 DEF Exclusive, Busy
<1> QED BY <1>8, <1>9, <1>10, <1>11, <1>12, <1>13 DEF IInv

\* A worker dies, or a job is given up.
LEMMA CrashStep ==
    ASSUME IInv, NEW w \in Worker, Crash(w) PROVE IInv' /\ (Exclusive => Exclusive')
<1> USE DEF Crash, tables, history
<1>1. \A v \in Worker : call'[v] = IF v = w THEN NoCall ELSE call[v] BY DEF IInv, Typed
<1>2. used' \in Bounds BY DEF IInv, Typed, Bounds
<1>3. Typed' BY <1>2, NoCallTyped DEF IInv, Typed
<1>4. Made' /\ ScanMade' /\ HeldIsFree' /\ Winding' /\ OpenIsScheduled' /\ SucceededWasHeard'
  BY DEF IInv, Made, ScanMade, HeldIsFree, Winding, Left, Scanned, OpenIsScheduled,
         SucceededWasHeard
<1>5. CallMade' /\ OkWasHeard' BY <1>1, NoCallTyped DEF IInv, CallMade, OkWasHeard, Busy
<1>6. Exclusive => Exclusive' BY <1>1 DEF Exclusive, Busy
<1> QED BY <1>3, <1>4, <1>5, <1>6 DEF IInv

LEMMA ExpireStep ==
    ASSUME IInv, NEW d \in Delivery, Expire(d)
    PROVE  IInv' /\ (~LateExpiry /\ Exclusive => Exclusive')
<1> USE DEF Expire, history
<1>1. /\ job' \in [Delivery -> Jobs]
      /\ \A c \in Delivery : job'[c] = IF c = d THEN "none" ELSE job[c]
  BY DEF IInv, Typed, Jobs
<1>2. Typed' BY <1>1 DEF IInv, Typed
<1>3. Made' BY <1>1 DEF IInv, Made
<1>a. ScanMade' /\ HeldIsFree' BY <1>1, ScanKept
<1>b. Winding'
  <2>1. \A c \in Delivery : Left(c)' <= Left(c) BY <1>1 DEF Left, Scanned
  <2>2. \A c \in Delivery : Left(c) \in Nat /\ Left(c)' \in Nat /\ begun[c] \in Nat
    BY DEF Left, IInv, Typed
  <2> QED BY <2>1, <2>2 DEF IInv, Winding
<1>4. CallMade' /\ OkWasHeard' /\ OpenIsScheduled' /\ SucceededWasHeard'
  BY DEF IInv, CallMade, OkWasHeard, OpenIsScheduled, SucceededWasHeard, Busy
<1>5. ASSUME ~LateExpiry, Exclusive PROVE Exclusive'
  <2> SUFFICES ASSUME NEW v \in Worker, Busy(v) PROVE job'[call[v].of] = v
    BY DEF Exclusive, Busy
  <2>1. job[call[v].of] = v /\ call[v].of \in Delivery
    BY <1>5, CallKinds DEF Exclusive, IInv
  <2>2. call[v].of # d
    <3> SUFFICES ASSUME call[v].of = d PROVE FALSE OBVIOUS
    <3>1. Handled(d) BY <2>1 DEF Handled, Busy
    <3> QED BY <1>5, <3>1
  <2> QED BY <1>1, <2>1, <2>2
<1> QED BY <1>2, <1>3, <1>a, <1>b, <1>4, <1>5 DEF IInv

\* What an answer makes of the delivery and of its endpoint.
LEMMA Results ==
    ASSUME NEW c \in Calls
    PROVE  /\ Result(c) \in Rows
           /\ Result(c).status \in {"succeeded", "abandoned", "failed"}
           /\ Result(c).status = "succeeded" => c.answer = "ok"
           /\ Result(c).status \in Open => Result(c).next # "none"
<1>1. c.attempt \in Nat BY DEF Calls
<1>2. Result(c).status = "failed" => Result(c).next # "none"
  BY <1>1, WebhooksAssumption DEF Result, NextAttemptAt, IsFinalAttempt
<1>3. /\ Result(c) \in Rows
      /\ Result(c).status \in {"succeeded", "abandoned", "failed"}
      /\ Result(c).status = "succeeded" => c.answer = "ok"
  BY <1>1 DEF Result, Rows, Statuses, NextAttemptAt
<1> QED BY <1>2, <1>3 DEF Open

LEMMA Counting ==
    ASSUME NEW r \in Endpoints, NEW answer
    PROVE  Counted(r, answer) \in Endpoints /\ (~r.active => ~Counted(r, answer).active)
<1> DEFINE ok == [r EXCEPT !.failures = 0, !.quiet = FALSE]
           n == r.failures + 1
           more == [r EXCEPT !.failures = n]
           why == IF answer = "gone" THEN "endpoint_gone" ELSE ShouldDisable(more)
           off == [more EXCEPT !.active = FALSE, !.reason = why]
<1>1. n \in Nat BY DEF Endpoints
<1>2. ok \in Endpoints /\ ok.active = r.active BY DEF Endpoints
<1>3. Counted(r, answer) = IF answer = "ok" THEN ok
                           ELSE IF why = "none" \/ ~r.active THEN more ELSE off
  BY DEF Counted, Endpoints
<1>4. why \in Reasons BY DEF ShouldDisable, Reasons
<1> HIDE DEF n, why, ok
<1>5. more \in Endpoints /\ more.active = r.active BY <1>1 DEF Endpoints
<1> HIDE DEF more
<1>6. off \in Endpoints BY <1>4, <1>5 DEF Endpoints
<1> HIDE DEF off
<1> QED BY <1>2, <1>3, <1>5, <1>6

LEMMA Forgets ==
    ASSUME Typed, NEW p \in Endpoint, Forget(p)
    PROVE  /\ begun' \in [Delivery -> Nat]
           /\ \A d \in Delivery : begun'[d] = IF d[2] = p THEN 0 ELSE begun[d]
BY DEF Forget, Typed

LEMMA ApplyStep ==
    ASSUME IInv, NEW w \in Worker, ApplyDeliveryOutcome(w)
    PROVE  IInv' /\ (Exclusive => Exclusive')
<1> DEFINE c == call[w]
           d == call[w].of
           p == d[2]
           r == Counted(endpoint[p], c.answer)
<1>1. Busy(w) /\ c \in Calls /\ d \in Delivery /\ p \in Endpoint
  BY CallKinds, Pairs DEF ApplyDeliveryOutcome, IInv
<1>2. /\ row' = [row EXCEPT ![d] = Result(c)]
      /\ endpoint' = [endpoint EXCEPT ![p] = r]
      /\ EndJob(w, d)
      /\ IF endpoint[p].active /\ ~endpoint'[p].active
         THEN Forget(p) /\ owed' = {o \in owed : o[2] # p}
         ELSE UNCHANGED <<begun, owed>>
      /\ call' = [call EXCEPT ![w] = NoCall]
      /\ UNCHANGED <<emitted, fanout, scan, used, heard>>
  BY DEF ApplyDeliveryOutcome
<1>3. /\ Result(c) \in Rows /\ Result(c).status \in {"succeeded", "abandoned", "failed"}
      /\ Result(c).status = "succeeded" => c.answer = "ok"
      /\ Result(c).status \in Open => Result(c).next # "none"
  BY <1>1, Results
<1>4. r \in Endpoints /\ (~endpoint[p].active => ~r.active)
  BY <1>1, Counting DEF IInv, Typed
<1> HIDE DEF c, d, r, p
<1>5. \A v \in Worker : call'[v] = IF v = w THEN NoCall ELSE call[v]
  BY <1>2 DEF IInv, Typed
<1>6. \A e \in Delivery : row'[e] = IF e = d THEN Result(c) ELSE row[e]
  BY <1>1, <1>2 DEF IInv, Typed
<1>7. \A q \in Endpoint : endpoint'[q] = IF q = p THEN r ELSE endpoint[q]
  BY <1>1, <1>2 DEF IInv, Typed
<1>8. /\ job' \in [Delivery -> Jobs]
      /\ \A e \in Delivery : job'[e] = IF e = d /\ job[e] = w THEN "none" ELSE job[e]
  BY <1>1, <1>2 DEF EndJob, IInv, Typed, Jobs
<1>9. /\ begun' \in [Delivery -> Nat] /\ owed' \subseteq Delivery
      /\ \A e \in Delivery : ~endpoint'[e[2]].active =>
            begun'[e] = 0 \/ (begun'[e] = begun[e] /\ ~endpoint[e[2]].active)
  <2>1. CASE endpoint[p].active /\ ~endpoint'[p].active
    <3>1. Forget(p) /\ owed' = {o \in owed : o[2] # p} BY <1>2, <2>1
    <3>2. /\ begun' \in [Delivery -> Nat]
          /\ \A e \in Delivery : begun'[e] = IF e[2] = p THEN 0 ELSE begun[e]
      BY <1>1, <3>1, Forgets DEF IInv
    <3>3. owed' \subseteq Delivery BY <3>1 DEF IInv, Typed
    <3> QED BY <1>7, <3>2, <3>3, Pairs
  <2>2. CASE ~(endpoint[p].active /\ ~endpoint'[p].active)
    <3>1. UNCHANGED <<begun, owed>> BY <1>2, <2>2
    <3>2. ASSUME NEW e \in Delivery, ~endpoint'[e[2]].active PROVE ~endpoint[e[2]].active
      BY <1>7, <2>2, <3>2, Pairs
    <3> QED BY <3>1, <3>2 DEF IInv, Typed
  <2> QED BY <2>1, <2>2
<1>10. Typed' BY <1>2, <1>3, <1>4, <1>8, <1>9, NoCallTyped DEF IInv, Typed
<1>11. \A v \in Worker : Busy(v) => call[v].of \in Delivery BY CallKinds DEF IInv
<1>12. Made' BY <1>3, <1>6, <1>8 DEF IInv, Made
<1>13. CallMade' BY <1>3, <1>5, <1>6, <1>11 DEF IInv, CallMade, Busy
<1>14. OkWasHeard' BY <1>2, <1>5, NoCallTyped DEF IInv, OkWasHeard
<1>a. ScanMade' /\ HeldIsFree' BY <1>2, <1>3, <1>6, <1>8, ScanKept
<1>15. Winding'
  <2> SUFFICES ASSUME NEW e \in Delivery, ~endpoint'[e[2]].active
               PROVE  begun'[e] + Left(e)' <= 2 /\ (row'[e].status = "none" => begun'[e] = 0)
    BY DEF Winding
  <2>1. CASE begun'[e] = 0
    <3>1. Left(e)' \in 0..2 BY DEF Left
    <3> QED BY <2>1, <3>1
  <2>2. CASE begun'[e] = begun[e] /\ ~endpoint[e[2]].active
    <3>1. begun[e] + Left(e) <= 2 /\ (row[e].status = "none" => begun[e] = 0)
      BY <2>2 DEF IInv, Winding
    <3>2. Left(e)' <= Left(e) /\ Left(e)' \in Nat /\ Left(e) \in Nat /\ begun[e] \in Nat
      BY <1>2, <1>8 DEF Left, Scanned, IInv, Typed
    <3>3. row'[e].status = "none" => row[e].status = "none" BY <1>3, <1>6
    <3> QED BY <2>2, <3>1, <3>2, <3>3
  <2> QED BY <1>9, <2>1, <2>2
<1>16. SucceededWasHeard'
  <2>1. c.answer = "ok" => d \in heard BY DEF IInv, OkWasHeard, c, d
  <2> QED BY <1>2, <1>3, <1>6, <2>1 DEF IInv, SucceededWasHeard
<1>17. OpenIsScheduled' BY <1>3, <1>6 DEF IInv, OpenIsScheduled
<1>18. ASSUME Exclusive PROVE Exclusive'
  <2>1. job[d] = w BY <1>1, <1>18 DEF Exclusive, d
  <2>2. \A v \in Worker : v # w /\ Busy(v) => call[v].of # d BY <1>18, <2>1 DEF Exclusive
  <2> QED BY <1>5, <1>8, <1>11, <1>18, <2>2 DEF Exclusive, Busy
<1> QED BY <1>10, <1>12, <1>13, <1>14, <1>a, <1>15, <1>16, <1>17, <1>18 DEF IInv

\* A step of the scan: what it does to its own variable and to the jobs.
LEMMA ScanStep ==
    ASSUME IInv, UNCHANGED <<emitted, fanout, endpoint, row, call, owed, heard, begun>>,
           used' \in Bounds, scan' \in Scans, job' \in [Delivery -> Jobs],
           Made', ScanMade', HeldIsFree', Exclusive => Exclusive',
           \A d \in Delivery : ~endpoint[d[2]].active => Left(d)' <= Left(d)
    PROVE  IInv' /\ (Exclusive => Exclusive')
<1>1. Typed' BY DEF IInv, Typed
<1>2. CallMade' /\ OkWasHeard' /\ OpenIsScheduled' /\ SucceededWasHeard'
  BY DEF IInv, CallMade, OkWasHeard, OpenIsScheduled, SucceededWasHeard, Busy
<1>3. \A d \in Delivery : Left(d) \in Nat /\ Left(d)' \in Nat /\ begun[d] \in Nat
  BY DEF Left, IInv, Typed
<1>4. Winding' BY <1>3 DEF IInv, Winding
<1> QED BY <1>1, <1>2, <1>4 DEF IInv

LEMMA ListStep == ASSUME IInv, ListDue PROVE IInv' /\ (Exclusive => Exclusive')
<1> DEFINE D == {d \in Delivery : Due(d)}
<1>1. /\ scan = NoScan /\ scan' = [scan EXCEPT !.listed = D]
      /\ UNCHANGED <<emitted, fanout, endpoint, row, call, owed, heard, begun, job, used>>
  BY DEF ListDue, scanning, history
<1>2. D \in SUBSET Delivery
      /\ \A d \in D : row[d].status # "none" /\ endpoint[d[2]].active
  BY DEF Due
<1> HIDE DEF D
<1>3. scan' \in Scans /\ scan'.listed = D /\ scan'.held = {} /\ Scanned' = D
  BY <1>1, <1>2 DEF NoScan, Scans, Scanned
<1>4. Made' /\ ScanMade' /\ HeldIsFree' BY <1>1, <1>2, <1>3 DEF IInv, Made, ScanMade, HeldIsFree
<1>5. \A d \in Delivery : ~endpoint[d[2]].active => Left(d)' <= Left(d)
  BY <1>1, <1>2, <1>3 DEF Left
<1>6. Exclusive => Exclusive' BY <1>1 DEF Exclusive, Busy
<1>7. used' \in Bounds /\ job' \in [Delivery -> Jobs] BY <1>1 DEF IInv, Typed
<1> QED BY <1>1, <1>3, <1>4, <1>5, <1>6, <1>7, ScanStep

LEMMA EnqueueStep ==
    ASSUME IInv, NEW d \in Delivery, EnqueueDue(d) PROVE IInv' /\ (Exclusive => Exclusive')
<1> DEFINE rest == scan.listed \ {d}
           kept == IF Unqueued(d) THEN scan.held \union {d} ELSE scan.held
<1>1. /\ d \in scan.listed /\ scan' = [listed |-> rest, held |-> kept]
      /\ UNCHANGED <<emitted, fanout, endpoint, row, call, owed, heard, begun, job, used>>
  BY DEF EnqueueDue, scanning, history
<1>2. scan.listed \subseteq Delivery /\ scan.held \subseteq Delivery BY DEF IInv, Typed, Scans
<1>3. rest \subseteq Delivery /\ kept \subseteq Delivery /\ rest \union kept \subseteq Scanned
      /\ \A c \in kept : c \in scan.held \/ job[c] = "none"
  BY <1>1, <1>2 DEF Scanned, Unqueued
<1> HIDE DEF rest, kept
<1>4. scan' \in Scans /\ scan'.held = kept /\ Scanned' \subseteq Scanned
  BY <1>1, <1>3 DEF Scans, Scanned
<1>5. Made' /\ ScanMade' /\ HeldIsFree'
  BY <1>1, <1>3, <1>4 DEF IInv, Made, ScanMade, HeldIsFree
<1>6. \A c \in Delivery : ~endpoint[c[2]].active => Left(c)' <= Left(c)
  BY <1>1, <1>4 DEF Left
<1>7. Exclusive => Exclusive' BY <1>1 DEF Exclusive, Busy
<1>8. used' \in Bounds /\ job' \in [Delivery -> Jobs] BY <1>1 DEF IInv, Typed
<1> QED BY <1>1, <1>4, <1>5, <1>6, <1>7, <1>8, ScanStep

LEMMA CommitStep == ASSUME IInv, CommitScan PROVE IInv' /\ (Exclusive => Exclusive')
<1>1. /\ scan.held \in SUBSET Delivery /\ Scanned = scan.held /\ Enqueue(scan.held)
      /\ scan' = NoScan
      /\ UNCHANGED <<emitted, fanout, endpoint, row, call, owed, heard, begun, used>>
  BY DEF CommitScan, scanning, history, Scanned, IInv, Typed, Scans
<1>2. /\ job' \in [Delivery -> Jobs]
      /\ \A d \in Delivery : job'[d] = IF d \in scan.held THEN "waiting" ELSE job[d]
  BY <1>1, Queued DEF IInv
<1>3. \A d \in scan.held : job[d] = "none" /\ row[d].status # "none"
  BY <1>1 DEF IInv, HeldIsFree, ScanMade
<1>4. scan' \in Scans /\ Scanned' = {} /\ scan'.held = {} BY <1>1 DEF Scans, NoScan, Scanned
<1>5. Made' /\ ScanMade' /\ HeldIsFree'
  BY <1>1, <1>2, <1>3, <1>4 DEF IInv, Made, ScanMade, HeldIsFree
<1>6. \A d \in Delivery : Left(d)' <= Left(d) BY <1>1, <1>2, <1>4 DEF Left
<1>7. ASSUME Exclusive PROVE Exclusive'
  <2> SUFFICES ASSUME NEW v \in Worker, Busy(v) PROVE job'[call[v].of] = v
    BY <1>1 DEF Exclusive, Busy
  <2>1. job[call[v].of] = v /\ call[v].of \in Delivery
    BY <1>7, CallKinds DEF Exclusive, IInv
  <2> QED BY <1>2, <1>3, <2>1, Workers
<1>8. used' \in Bounds BY <1>1 DEF IInv, Typed
<1> QED BY <1>1, <1>2, <1>4, <1>5, <1>6, <1>7, <1>8, ScanStep

LEMMA FailStep == ASSUME IInv, ScanFails PROVE IInv' /\ (Exclusive => Exclusive')
<1>1. /\ scan' = NoScan /\ used' = [used EXCEPT !.crashes = @ + 1]
      /\ UNCHANGED <<emitted, fanout, endpoint, row, call, owed, heard, begun, job>>
  BY DEF ScanFails, scanning, history
<1>2. scan' \in Scans /\ Scanned' = {} /\ scan'.held = {} BY <1>1 DEF Scans, NoScan, Scanned
<1>3. Made' /\ ScanMade' /\ HeldIsFree' BY <1>1, <1>2 DEF IInv, Made, ScanMade, HeldIsFree
<1>4. \A d \in Delivery : Left(d)' <= Left(d) BY <1>1, <1>2 DEF Left
<1>5. Exclusive => Exclusive' BY <1>1 DEF Exclusive, Busy
<1>6. used' \in Bounds /\ job' \in [Delivery -> Jobs] BY <1>1 DEF IInv, Typed, Bounds
<1> QED BY <1>1, <1>2, <1>3, <1>4, <1>5, <1>6, ScanStep

\* A step that writes one row: an open one that stays open, or one that a person reopens.
LEMMA RowStep ==
    ASSUME IInv, NEW d \in Delivery, NEW x \in Rows, row' = [row EXCEPT ![d] = x],
           x.status = row[d].status \/ x.status = "pending",
           row[d].status # "none", x.status \in Open => x.next # "none", used' \in Bounds,
           UNCHANGED <<emitted, fanout, endpoint, job, call, scan, owed, heard, begun>>
    PROVE  IInv' /\ (Exclusive => Exclusive')
<1>1. \A c \in Delivery : row'[c] = IF c = d THEN x ELSE row[c] BY DEF IInv, Typed
<1>2. \A v \in Worker : Busy(v) => call[v].of \in Delivery BY CallKinds DEF IInv
<1>3. Typed' BY DEF IInv, Typed
<1>4. Made' /\ ScanMade' /\ HeldIsFree' /\ Winding'
  BY <1>1, ScanKept DEF IInv, Made, Winding, Left, Scanned
<1>5. CallMade' BY <1>1, <1>2 DEF IInv, CallMade, Busy
<1>6. OkWasHeard' BY DEF IInv, OkWasHeard
<1>7. SucceededWasHeard' BY <1>1 DEF IInv, SucceededWasHeard
<1>8. OpenIsScheduled' BY <1>1 DEF IInv, OpenIsScheduled
<1>9. Exclusive => Exclusive' BY DEF Exclusive, Busy
<1> QED BY <1>3, <1>4, <1>5, <1>6, <1>7, <1>8, <1>9 DEF IInv

LEMMA BecomeDueStep ==
    ASSUME IInv, NEW d \in Delivery, BecomeDue(d) PROVE IInv' /\ (Exclusive => Exclusive')
<1> USE DEF BecomeDue, history
<1> DEFINE x == [row[d] EXCEPT !.next = "due"]
<1>1. row[d] \in Rows BY DEF IInv, Typed
<1>2. x \in Rows /\ x.status = row[d].status /\ x.next = "due" BY <1>1 DEF Rows
<1>3. row' = [row EXCEPT ![d] = x] BY DEF IInv, Typed
<1> HIDE DEF x
<1>4. used' \in Bounds /\ UNCHANGED <<emitted, fanout, endpoint, job, call, scan, owed, heard, begun>>
  BY DEF IInv, Typed
<1>5. CASE row[d].status # "none" BY <1>2, <1>3, <1>4, <1>5, RowStep
<1>6. CASE row[d].status = "none"
  <2>1. \A c \in Delivery : row'[c] = IF c = d THEN x ELSE row[c] BY <1>3 DEF IInv, Typed
  <2>2. \A c \in Delivery : row'[c].status = row[c].status BY <1>2, <2>1
  <2>3. Typed' BY <1>2, <1>3, <1>4 DEF IInv, Typed
  <2>4. Made' /\ ScanMade' /\ HeldIsFree' /\ Winding' /\ SucceededWasHeard'
    BY <1>4, <2>2, ScanKept DEF IInv, Made, Winding, Left, Scanned, SucceededWasHeard
  <2>5. \A v \in Worker : Busy(v) => call[v].of \in Delivery BY CallKinds DEF IInv
  <2>6. CallMade' /\ OkWasHeard' BY <1>4, <2>2, <2>5 DEF IInv, CallMade, OkWasHeard, Busy
  <2>7. OpenIsScheduled' BY <1>2, <1>6, <2>1 DEF IInv, OpenIsScheduled, Open
  <2>8. Exclusive => Exclusive' BY <1>4 DEF Exclusive, Busy
  <2> QED BY <2>3, <2>4, <2>6, <2>7, <2>8 DEF IInv
<1> QED BY <1>5, <1>6

LEMMA UsedTyped ==
    ASSUME IInv, NEW kind, Request(kind) PROVE used' \in Bounds
<1>1. used \in Bounds BY DEF IInv, Typed
<1> DEFINE n == used.edits + 1
<1>2. n \in Nat BY <1>1 DEF Bounds
<1>3. used' = [used EXCEPT !.edits = n] BY <1>1 DEF Request, Bounds
<1> HIDE DEF n
<1> QED BY <1>1, <1>2, <1>3 DEF Bounds

LEMMA RetryStep ==
    ASSUME IInv, NEW d \in Delivery, RetryDelivery(d) PROVE IInv' /\ (Exclusive => Exclusive')
<1> USE DEF RetryDelivery, history
<1> DEFINE x == [row[d] EXCEPT !.status = "pending", !.next = "due"]
<1>1. row[d] \in Rows BY DEF IInv, Typed
<1>2. x \in Rows /\ x.status = "pending" /\ x.next = "due" BY <1>1 DEF Rows, Statuses
<1>3. row' = [row EXCEPT ![d] = x] BY DEF IInv, Typed
<1> HIDE DEF x
<1>4. used' \in Bounds BY UsedTyped
<1>5. UNCHANGED <<emitted, fanout, endpoint, job, call, scan, owed, heard, begun>> OBVIOUS
<1>6. row[d].status # "none" OBVIOUS
<1> QED BY <1>2, <1>3, <1>4, <1>5, <1>6, RowStep

\* A step that edits one endpoint and leaves it as active as it was.
LEMMA EditStep ==
    ASSUME IInv, NEW p \in Endpoint, NEW x \in Endpoints, endpoint' = [endpoint EXCEPT ![p] = x],
           x.active = endpoint[p].active, owed' \subseteq Delivery, used' \in Bounds,
           UNCHANGED <<emitted, fanout, row, job, call, scan, heard, begun>>
    PROVE  IInv' /\ (Exclusive => Exclusive')
<1>1. \A q \in Endpoint : endpoint'[q] = IF q = p THEN x ELSE endpoint[q] BY DEF IInv, Typed
<1>2. \A q \in Endpoint : endpoint'[q].active = endpoint[q].active BY <1>1
<1>3. Typed' BY DEF IInv, Typed
<1>4. ScanMade' /\ HeldIsFree' /\ Winding'
  BY <1>2, Pairs, ScanKept DEF IInv, Winding, Left, Scanned
<1>5. Made' /\ CallMade' /\ OkWasHeard' /\ SucceededWasHeard' /\ OpenIsScheduled'
  BY DEF IInv, Made, CallMade, OkWasHeard, SucceededWasHeard, OpenIsScheduled, Busy
<1>6. Exclusive => Exclusive' BY DEF Exclusive, Busy
<1> QED BY <1>3, <1>4, <1>5, <1>6 DEF IInv

LEMMA EndpointStep ==
    ASSUME IInv, NEW p \in Endpoint,
           \/ BecomeQuiet(p) \/ DeleteEndpoint(p)
           \/ \E fields \in SUBSET {"url", "subscription"} : UpdateEndpoint(p, fields)
    PROVE  IInv' /\ (Exclusive => Exclusive')
<1>1. endpoint[p] \in Endpoints /\ endpoint \in [Endpoint -> Endpoints] BY DEF IInv, Typed
<1>2. owed \subseteq Delivery /\ used \in Bounds BY DEF IInv, Typed
<1>3. CASE BecomeQuiet(p)
  <2> DEFINE x == [endpoint[p] EXCEPT !.quiet = TRUE]
  <2>1. x \in Endpoints /\ x.active = endpoint[p].active BY <1>1 DEF Endpoints
  <2>2. endpoint' = [endpoint EXCEPT ![p] = x] BY <1>1, <1>3 DEF BecomeQuiet
  <2>3. /\ owed' \subseteq Delivery /\ used' \in Bounds
        /\ UNCHANGED <<emitted, fanout, row, job, call, scan, heard, begun>>
    BY <1>2, <1>3 DEF BecomeQuiet, history
  <2> HIDE DEF x
  <2> QED BY <2>1, <2>2, <2>3, EditStep
<1>4. ASSUME NEW fields \in SUBSET {"url", "subscription"}, UpdateEndpoint(p, fields)
      PROVE  IInv' /\ (Exclusive => Exclusive')
  <2> DEFINE n == IF "url" \in fields THEN endpoint[p].url + 1 ELSE endpoint[p].url
             b == IF "subscription" \in fields THEN ~endpoint[p].subscribed
                  ELSE endpoint[p].subscribed
             x == [endpoint[p] EXCEPT !.url = n, !.subscribed = b]
  <2>0. endpoint[p].url \in Nat /\ endpoint[p].subscribed \in BOOLEAN
    BY <1>1 DEF Endpoints
  <2>1. n \in Nat /\ b \in BOOLEAN
    <3>1. n \in Nat BY <2>0
    <3>2. b \in BOOLEAN BY <2>0, Zenon
    <3> QED BY <3>1, <3>2
  <2>2. endpoint' = [endpoint EXCEPT ![p] = x]
    BY <1>1, <1>4 DEF UpdateEndpoint, Endpoints
  <2> HIDE DEF n, b
  <2>3. x \in Endpoints /\ x.active = endpoint[p].active BY <1>1, <2>1 DEF Endpoints
  <2> HIDE DEF x
  <2>4. used' \in Bounds BY <1>4, UsedTyped DEF UpdateEndpoint
  <2>5. /\ owed' \subseteq Delivery
        /\ UNCHANGED <<emitted, fanout, row, job, call, scan, heard, begun>>
    BY <1>2, <1>4 DEF UpdateEndpoint, Disowed
  <2> QED BY <2>2, <2>3, <2>4, <2>5, EditStep
<1>6. CASE DeleteEndpoint(p)
  <2> DEFINE x == [endpoint[p] EXCEPT !.deleted = TRUE]
  <2>1. x \in Endpoints /\ x.active = endpoint[p].active BY <1>1 DEF Endpoints
  <2>2. endpoint' = [endpoint EXCEPT ![p] = x] BY <1>1, <1>6 DEF DeleteEndpoint
  <2> HIDE DEF x
  <2>3. used' \in Bounds BY <1>6, UsedTyped DEF DeleteEndpoint
  <2>4. /\ owed' \subseteq Delivery
        /\ UNCHANGED <<emitted, fanout, row, job, call, scan, heard, begun>>
    BY <1>2, <1>6 DEF DeleteEndpoint, Disowed
  <2> QED BY <2>1, <2>2, <2>3, <2>4, EditStep
<1> QED BY <1>3, <1>4, <1>6

LEMMA EnableStep ==
    ASSUME IInv, NEW p \in Endpoint, EnableEndpoint(p) PROVE IInv' /\ (Exclusive => Exclusive')
<1> DEFINE x == [endpoint[p] EXCEPT !.active = TRUE, !.reason = "none", !.failures = 0]
<1>1. endpoint[p] \in Endpoints /\ endpoint \in [Endpoint -> Endpoints] BY DEF IInv, Typed
<1>2. endpoint' = [endpoint EXCEPT ![p] = x] BY <1>1 DEF EnableEndpoint
<1>3. x \in Endpoints BY <1>1 DEF Endpoints, Reasons
<1> HIDE DEF x
<1>4. \A q \in Endpoint : q # p => endpoint'[q] = endpoint[q] BY <1>1, <1>2
<1>5. used' \in Bounds BY UsedTyped DEF EnableEndpoint
<1>6. UNCHANGED <<emitted, fanout, row, job, call, scan, owed, heard>> BY DEF EnableEndpoint
<1>7. /\ begun' \in [Delivery -> Nat]
      /\ \A d \in Delivery : begun'[d] = IF d[2] = p THEN 0 ELSE begun[d]
  BY Forgets DEF EnableEndpoint, IInv
<1>8. Typed' BY <1>1, <1>2, <1>3, <1>5, <1>6, <1>7 DEF IInv, Typed
<1>9. ScanMade' /\ HeldIsFree' BY <1>6, ScanKept
<1>a. Winding'
  <2> SUFFICES ASSUME NEW d \in Delivery, ~endpoint'[d[2]].active
               PROVE  begun'[d] + Left(d)' <= 2 /\ (row'[d].status = "none" => begun'[d] = 0)
    BY DEF Winding
  <2>1. Left(d)' = Left(d) /\ Left(d) \in 0..2 BY <1>6 DEF Left, Scanned
  <2>2. CASE d[2] = p BY <1>7, <2>1, <2>2
  <2>3. CASE d[2] # p
    BY <1>4, <1>6, <1>7, <2>1, <2>3, Pairs DEF IInv, Winding
  <2> QED BY <2>2, <2>3
<1>10. Made' /\ CallMade' /\ OkWasHeard' /\ SucceededWasHeard' /\ OpenIsScheduled'
  BY <1>6 DEF IInv, Made, CallMade, OkWasHeard, SucceededWasHeard, OpenIsScheduled, Busy
<1>11. Exclusive => Exclusive' BY <1>6 DEF Exclusive, Busy
<1> QED BY <1>8, <1>9, <1>a, <1>10, <1>11 DEF IInv

-----------------------------------------------------------------------------
LEMMA StutterStep == ASSUME IInv, UNCHANGED vars PROVE IInv' /\ (Exclusive => Exclusive')
<1> USE DEF vars
<1>1. Typed' BY DEF IInv, Typed
<1>2. /\ Made' /\ CallMade' /\ OkWasHeard' /\ ScanMade' /\ HeldIsFree' /\ Winding'
      /\ SucceededWasHeard' /\ OpenIsScheduled'
  BY DEF IInv, Made, CallMade, OkWasHeard, ScanMade, HeldIsFree, Winding, Left, Scanned,
         SucceededWasHeard, OpenIsScheduled, Busy
<1>3. Exclusive => Exclusive' BY DEF Exclusive, Busy
<1> QED BY <1>1, <1>2, <1>3 DEF IInv

LEMMA NextStep ==
    ASSUME IInv, [Next]_vars PROVE IInv' /\ (~LateExpiry /\ Exclusive => Exclusive')
<1>1. ASSUME NEW e \in Event, Emit(e) \/ \E dies \in BOOLEAN : FanoutEvent(e, dies)
      PROVE  IInv' /\ (Exclusive => Exclusive')
  BY <1>1, EmitStep, FanoutStep
<1>2. ASSUME NEW e \in Event, NEW p \in Endpoint, TestEndpoint(e, p)
      PROVE  IInv' /\ (Exclusive => Exclusive')
  BY <1>2, TestStep
<1>3. ASSUME NEW w \in Worker, Work(w) \/ Crash(w) PROVE IInv' /\ (Exclusive => Exclusive')
  BY <1>3, LoadStep, AnswerStep, ApplyStep, CrashStep DEF Work
<1>4. ASSUME NEW d \in Delivery, Expire(d) PROVE IInv' /\ (~LateExpiry /\ Exclusive => Exclusive')
  BY <1>4, ExpireStep
<1>5. ASSUME NEW d \in Delivery, BecomeDue(d) \/ RetryDelivery(d)
      PROVE  IInv' /\ (Exclusive => Exclusive')
  BY <1>5, BecomeDueStep, RetryStep
<1>6. CASE Scan \/ ScanFails BY <1>6, ListStep, EnqueueStep, CommitStep, FailStep DEF Scan
<1>7. ASSUME NEW p \in Endpoint,
             \/ BecomeQuiet(p) \/ DeleteEndpoint(p)
             \/ \E fields \in SUBSET {"url", "subscription"} : UpdateEndpoint(p, fields)
      PROVE  IInv' /\ (Exclusive => Exclusive')
  BY <1>7, EndpointStep
<1>8. ASSUME NEW p \in Endpoint, EnableEndpoint(p) PROVE IInv' /\ (Exclusive => Exclusive')
  BY <1>8, EnableStep
<1>9. CASE UNCHANGED vars BY <1>9, StutterStep
<1> QED BY <1>1, <1>2, <1>3, <1>4, <1>5, <1>6, <1>7, <1>8, <1>9 DEF Next

THEOREM Invariant == Spec => []IInv
<1>1. Init => IInv BY InitHolds
<1>2. IInv /\ [Next]_vars => IInv' BY NextStep
<1> QED BY <1>1, <1>2, PTL DEF Spec

THEOREM ExclusiveInvariant == ASSUME ~LateExpiry PROVE Spec => []Exclusive
<1>1. Init => Exclusive BY InitHolds
<1>2. IInv /\ Exclusive /\ [Next]_vars => Exclusive' BY NextStep
<1> QED BY <1>1, <1>2, Invariant, PTL DEF Spec

-----------------------------------------------------------------------------
\* Every variable keeps its type: the reason of an endpoint is one the code knows.
THEOREM TypeCorrect == Spec => []TypeOK
<1>1. IInv => TypeOK BY TypeParts DEF IInv
<1> QED BY <1>1, Invariant, PTL

\* "succeeded" is never written of a delivery the receiver did not answer with 2xx, also
\* when jobs expire under their handlers and results come late (deliver.ts, disable.ts).
THEOREM SuccessIsTrue == Spec => []SucceededWasHeard
<1>1. IInv => SucceededWasHeard BY DEF IInv
<1> QED BY <1>1, Invariant, PTL

\* An open delivery always has a time from which the cron finds it (webhook_retry.ts).
THEOREM NothingStranded == Spec => []OpenIsScheduled
<1>1. IInv => OpenIsScheduled BY DEF IInv
<1> QED BY <1>1, Invariant, PTL

\* A disabled endpoint gets at most two more attempts of each delivery: for the job that was
\* queued before, and for the scan that had listed it.
THEOREM WindsDown == Spec => []DisabledWindsDown
<1>1. IInv => DisabledWindsDown
  <2> SUFFICES ASSUME IInv, NEW d \in Delivery, ~endpoint[d[2]].active PROVE begun[d] <= 2
    BY DEF DisabledWindsDown
  <2>1. Left(d) \in Nat /\ begun[d] \in Nat BY DEF Left, IInv, Typed
  <2> QED BY <2>1 DEF IInv, Winding
<1> QED BY <1>1, Invariant, PTL

\* At most one worker works for a delivery as long as no job expires under its handler
\* (registry.ts: expireInSeconds and the singleton key).
THEOREM OneCall == ASSUME ~LateExpiry PROVE Spec => []OneCallAtATime
<1>1. Exclusive => OneCallAtATime
  <2> SUFFICES ASSUME Exclusive, NEW v \in Worker, NEW w \in Worker, v # w, Busy(v), Busy(w)
               PROVE  call[v].of # call[w].of
    BY DEF OneCallAtATime, Busy
  <2> QED BY DEF Exclusive
<1> QED BY <1>1, ExclusiveInvariant, PTL

-----------------------------------------------------------------------------
\* The refinement

Shown(status) == IF status \in Open THEN "open" ELSE status
Calling(d) == \E w \in Worker : Busy(w) /\ call[w].of = d
Kept == Promise!Next \/ UNCHANGED <<Outcome, heard, Ahead>>

LEMMA AheadIs == Ahead = {d \in Delivery : job[d] # "none" \/ d \in Scanned \/ Calling(d)}
BY DEF Ahead, Scanned, Calling, Busy

LEMMA AheadNext == Ahead' = {d \in Delivery : job'[d] # "none" \/ d \in Scanned' \/ Calling(d)'}
BY DEF Ahead, Scanned, Calling, Busy

\* Attempts that are only lost.
LEMMA ForgoRefines ==
    ASSUME UNCHANGED <<row, heard>>,
           \A d \in Delivery : job'[d] # "none" => d \in Ahead,
           \A d \in Delivery : d \in Scanned' => d \in Ahead,
           \A d \in Delivery : Calling(d)' => d \in Ahead
    PROVE  Kept
<1>1. Ahead' \in SUBSET Ahead BY AheadNext
<1>2. Outcome' = Outcome BY DEF Outcome
<1> QED BY <1>1, <1>2 DEF Kept, Promise!Next, Promise!Forgo

LEMMA MakeRefines ==
    ASSUME IInv, NEW D \in SUBSET Delivery, EnqueueDelivery(D), UNCHANGED <<call, scan, heard>>
    PROVE  Kept
<1> DEFINE N == NewIn(D)
<1>1. N \in SUBSET Delivery /\ \A d \in N : row[d].status = "none" BY DEF NewIn
<1>2. row' = [d \in Delivery |-> IF d \in N THEN NewRow ELSE row[d]] BY DEF EnqueueDelivery
<1>3. \A d \in Delivery :
        \/ d \notin N /\ job'[d] = job[d]
        \/ d \in N /\ job[d] = "none" /\ job'[d] = "waiting"
  BY Enqueued
<1> HIDE DEF N
<1>4. \A d \in N : Outcome[d] = "none" BY <1>1 DEF Outcome, Open
<1>5. Outcome' = [d \in Delivery |-> IF d \in N THEN "open" ELSE Outcome[d]]
  BY <1>2, NewRowTyped DEF Outcome, Open
<1>6. Scanned' = Scanned /\ \A d \in Delivery : Calling(d)' = Calling(d)
  BY DEF Scanned, Calling, Busy
<1>7. \A d \in N : d \notin Ahead
  <2> SUFFICES ASSUME NEW d \in N PROVE job[d] = "none" /\ d \notin Scanned /\ ~Calling(d)
    BY AheadIs
  <2> QED BY <1>1, <1>3 DEF IInv, ScanMade, CallMade, Calling
<1>8. Ahead' = Ahead \union N BY <1>1, <1>3, <1>6, AheadIs, AheadNext
<1>9. Ahead' \ Ahead = N /\ Ahead' \in SUBSET Delivery BY <1>7, <1>8, AheadNext
<1>10. Promise!Make BY <1>4, <1>5, <1>8, <1>9 DEF Promise!Make
<1> QED BY <1>10 DEF Kept, Promise!Next

LEMMA LoadRefines ==
    ASSUME IInv, NEW w \in Worker, NEW d \in Delivery, Load(w, d) PROVE Kept
<1>1. UNCHANGED <<row, heard, scan>> /\ job[d] = "waiting" /\ d \in Ahead
  BY AheadIs DEF Load
<1>2. \A c \in Delivery : c # d => job'[c] = job[c] BY DEF Load, IInv, Typed
<1>3. \A v \in Worker : call'[v] = call[v] \/ call'[v].of = d BY DEF Load, IInv, Typed
<1>4. \A c \in Delivery : Calling(c)' => c \in Ahead
  BY <1>1, <1>3, AheadIs DEF Calling, Busy
<1>5. Scanned' = Scanned BY <1>1 DEF Scanned
<1> QED BY <1>1, <1>2, <1>4, <1>5, AheadIs, ForgoRefines

LEMMA AnswerRefines ==
    ASSUME IInv, NEW w \in Worker, NEW a \in Answers, Answer(w, a)
    PROVE  Kept
<1> DEFINE d == call[w].of
<1>1. Busy(w) /\ d \in Delivery /\ call[w] \in Calls BY CallKinds DEF Answer, IInv
<1>2. Outcome' = Outcome /\ job' = job /\ Scanned' = Scanned
  BY DEF Answer, tables, Outcome, Scanned
<1>3. \A v \in Worker : (Busy(v)' <=> Busy(v)) /\ (Busy(v) => call'[v].of = call[v].of)
  <2>1. \A v \in Worker : v # w => call'[v] = call[v] BY DEF Answer, IInv, Typed
  <2>2. call'[w].of = call[w].of /\ call'[w] # NoCall
    <3> DEFINE b == IF a = "lost" THEN "error" ELSE a
    <3>1. call'[w] = [call[w] EXCEPT !.answer = b] BY DEF Answer, IInv, Typed
    <3>2. b # "idle" BY WebhooksAssumption
    <3> HIDE DEF b
    <3> QED BY <1>1, <3>1, <3>2 DEF Calls, NoCall
  <2> QED BY <1>1, <2>1, <2>2 DEF Busy
<1>4. Ahead' = Ahead BY <1>2, <1>3, AheadIs, AheadNext DEF Calling
<1>5. CASE a \in {"ok", "lost"}
  <2>1. heard' = heard \union {d} BY <1>5 DEF Answer
  <2>2. d \in Ahead BY <1>1, AheadIs DEF Calling
  <2> HIDE DEF d
  <2>3. Promise!Accept(d) BY <1>2, <1>4, <2>1, <2>2 DEF Promise!Accept
  <2> QED BY <1>1, <2>3 DEF Kept, Promise!Next
<1>6. CASE a \notin {"ok", "lost"} BY <1>2, <1>4, <1>6 DEF Answer, Kept
<1> QED BY <1>5, <1>6

LEMMA ApplyRefines ==
    ASSUME IInv, NEW w \in Worker, ApplyDeliveryOutcome(w)
    PROVE  Kept
<1> DEFINE c == call[w]
           d == call[w].of
           shown == Shown(Result(c).status)
<1>1. Busy(w) /\ c \in Calls /\ d \in Delivery BY CallKinds DEF ApplyDeliveryOutcome, IInv
<1>2. /\ row' = [row EXCEPT ![d] = Result(c)] /\ heard' = heard /\ scan' = scan
      /\ call' = [call EXCEPT ![w] = NoCall] /\ EndJob(w, d)
  BY DEF ApplyDeliveryOutcome
<1>3. c.answer = "ok" => d \in heard BY <1>1 DEF IInv, OkWasHeard
<1>4. /\ Result(c).status \in {"succeeded", "abandoned", "failed"}
      /\ Result(c).status = "succeeded" => c.answer = "ok"
  BY <1>1, Results
<1>5. shown \in {"open", "succeeded", "abandoned"} /\ (shown = "succeeded" => d \in heard)
  BY <1>3, <1>4 DEF Shown, Open
<1>6. d \in Ahead BY <1>1, AheadIs DEF Calling
<1> HIDE DEF c
<1>7. Outcome' = [Outcome EXCEPT ![d] = shown]
  <2>1. row'[d] = Result(c) /\ row \in [Delivery -> Rows] BY <1>1, <1>2 DEF IInv, Typed
  <2>2. row' = [row EXCEPT ![d] = row'[d]] BY <1>2, <2>1
  <2> QED BY <1>1, <2>1, <2>2 DEF Outcome, Shown
<1> HIDE DEF d, shown
<1>8. Ahead' \in {Ahead, Ahead \ {d}}
  <2>1. \A e \in Delivery : e # d => job'[e] = job[e] BY <1>2 DEF EndJob, IInv, Typed
  <2>2. \A v \in Worker : call'[v] = IF v = w THEN NoCall ELSE call[v]
    BY <1>2 DEF IInv, Typed
  <2>3. \A e \in Delivery : e # d => (Calling(e)' <=> Calling(e))
    BY <2>2 DEF Calling, Busy, d
  <2>4. Scanned' = Scanned BY <1>2 DEF Scanned
  <2>5. \A e \in Delivery : e # d => (e \in Ahead' <=> e \in Ahead)
    BY <2>1, <2>3, <2>4, AheadIs, AheadNext
  <2>6. Ahead \subseteq Delivery /\ Ahead' \subseteq Delivery BY AheadIs, AheadNext
  <2>7. CASE d \in Ahead' BY <1>6, <2>5, <2>6, <2>7
  <2>8. CASE d \notin Ahead' BY <1>6, <2>5, <2>6, <2>8
  <2> QED BY <2>7, <2>8
<1>9. Promise!Report(d, shown) BY <1>2, <1>5, <1>6, <1>7, <1>8 DEF Promise!Report
<1> QED BY <1>1, <1>5, <1>9 DEF Kept, Promise!Next

LEMMA RetryRefines ==
    ASSUME IInv, NEW d \in Delivery, RetryDelivery(d)
    PROVE  Kept
<1> DEFINE x == [[row[d] EXCEPT !.status = "pending"] EXCEPT !.next = "due"]
<1>1. /\ row' = [row EXCEPT ![d] = x] /\ UNCHANGED <<heard, job, call, scan>>
      /\ row[d].status = "failed" \/ row[d].status = "abandoned"
  BY DEF RetryDelivery, history
<1>2. Outcome' = [Outcome EXCEPT ![d] = "open"]
  <2>1. row \in [Delivery -> Rows] BY DEF IInv, Typed
  <2>2. x.status = "pending" BY <2>1 DEF Rows
  <2> HIDE DEF x
  <2>3. Outcome' = [Outcome EXCEPT ![d] = Shown(x.status)]
    BY <1>1, <2>1 DEF Outcome, Shown
  <2> QED BY <2>2, <2>3 DEF Shown, Open
<1> HIDE DEF x
<1>a. Ahead' = Ahead BY <1>1 DEF Ahead
<1>3. CASE row[d].status = "failed"
  <2>1. Outcome[d] = "open" BY <1>3 DEF Outcome, Open
  <2>2. Outcome' = Outcome BY <1>2, <2>1 DEF Outcome
  <2> QED BY <1>1, <1>a, <2>2 DEF Kept
<1>4. CASE row[d].status = "abandoned"
  <2>1. Outcome[d] = "abandoned" BY <1>4 DEF Outcome, Open
  <2>2. Promise!Reopen(d) BY <1>1, <1>2, <1>a, <2>1 DEF Promise!Reopen
  <2> QED BY <2>2 DEF Kept, Promise!Next
<1> QED BY <1>1, <1>3, <1>4

LEMMA ScanRefines ==
    ASSUME IInv, Scan \/ ScanFails PROVE Kept
<1>1. UNCHANGED <<row, call, heard>>
  BY DEF Scan, ListDue, EnqueueDue, CommitScan, ScanFails, scanning, history
<1>2. \A d \in Delivery : Calling(d)' <=> Calling(d) BY <1>1 DEF Calling, Busy
<1>3. ASSUME \A d \in Delivery : job'[d] # "none" => d \in Ahead,
             \A d \in Delivery : d \in Scanned' => d \in Ahead
      PROVE  Kept
  <2>1. \A d \in Delivery : Calling(d)' => d \in Ahead BY <1>2, AheadIs
  <2> QED BY <1>1, <1>3, <2>1, ForgoRefines
<1>4. CASE ListDue
  <2>1. job' = job /\ Scanned = {} /\ Scanned' = {d \in Delivery : Due(d)}
    BY <1>4 DEF ListDue, Scanned, NoScan
  <2>2. Outcome' = Outcome BY <1>1 DEF Outcome
  <2>3. Ahead' \in SUBSET Delivery /\ Ahead \subseteq Ahead'
    BY <1>2, <2>1, AheadIs, AheadNext
  <2>4. \A d \in Ahead' \ Ahead : d \in Delivery /\ Due(d)
    BY <1>2, <2>1, AheadIs, AheadNext
  <2>5. \A d \in Ahead' \ Ahead : Outcome[d] = "open" BY <2>4 DEF Due, Outcome, Open
  <2>6. Promise!Plan BY <1>1, <2>2, <2>3, <2>5 DEF Promise!Plan
  <2> QED BY <2>6 DEF Kept, Promise!Next
<1>5. ASSUME NEW d \in Delivery, EnqueueDue(d) PROVE Kept
  <2>1. job' = job /\ Scanned' \subseteq Scanned
    BY <1>5 DEF EnqueueDue, Scanned
  <2> QED BY <1>3, <2>1, AheadIs
<1>6. CASE CommitScan
  <2>1. Scanned' = {} /\ Enqueue(scan.held) /\ scan.held \subseteq Scanned
    BY <1>6 DEF CommitScan, Scanned, NoScan
  <2>2. \A d \in Delivery : job'[d] = IF d \in scan.held THEN "waiting" ELSE job[d]
    BY <2>1 DEF Enqueue
  <2> QED BY <1>3, <2>1, <2>2, AheadIs
<1>7. CASE ScanFails
  <2>1. job' = job /\ Scanned' = {} BY <1>7 DEF ScanFails, scanning, Scanned, NoScan
  <2> QED BY <1>3, <2>1, AheadIs
<1> QED BY <1>4, <1>5, <1>6, <1>7 DEF Scan

LEMMA StepRefines == ASSUME IInv, [Next]_vars PROVE Kept
<1>1. ASSUME UNCHANGED <<row, heard, job, call, scan>> PROVE Kept
  BY <1>1 DEF Outcome, Ahead, Kept
<1>2. ASSUME NEW e \in Event, NEW dies \in BOOLEAN, FanoutEvent(e, dies) PROVE Kept
  <2> DEFINE D == {<<e, p>> : p \in {q \in Endpoint : Subscribed(q)}}
  <2>1. D \in SUBSET Delivery BY DEF Delivery
  <2>2. EnqueueDelivery(D) /\ UNCHANGED <<call, scan, heard>> BY <1>2 DEF FanoutEvent
  <2> HIDE DEF D
  <2> QED BY <2>1, <2>2, MakeRefines
<1>3. ASSUME NEW e \in Event, NEW p \in Endpoint, TestEndpoint(e, p) PROVE Kept
  <2>1. {<<e, p>>} \in SUBSET Delivery BY DEF Delivery
  <2>2. EnqueueDelivery({<<e, p>>}) /\ UNCHANGED <<call, scan, heard>> BY <1>3 DEF TestEndpoint
  <2> QED BY <2>1, <2>2, MakeRefines
<1>4. ASSUME NEW w \in Worker, Work(w) \/ Crash(w) PROVE Kept
  <2>1. CASE Crash(w)
    <3>1. UNCHANGED <<row, heard, job, scan>> BY <2>1 DEF Crash, tables, history
    <3>2. \A v \in Worker : call'[v] = NoCall \/ call'[v] = call[v]
      BY <2>1 DEF Crash, IInv, Typed
    <3>3. \A d \in Delivery : Calling(d)' => Calling(d) BY <3>2 DEF Calling, Busy
    <3>4. Scanned' = Scanned BY <3>1 DEF Scanned
    <3> QED BY <3>1, <3>3, <3>4, AheadIs, ForgoRefines
  <2> QED BY <1>4, <2>1, LoadRefines, AnswerRefines, ApplyRefines DEF Work
<1>5. ASSUME NEW d \in Delivery, Expire(d) \/ BecomeDue(d) \/ RetryDelivery(d) PROVE Kept
  <2>1. CASE Expire(d)
    <3>1. UNCHANGED <<row, heard, call, scan>> BY <2>1 DEF Expire, history
    <3>2. \A c \in Delivery : job'[c] # "none" => job[c] # "none"
      BY <2>1 DEF Expire, IInv, Typed
    <3>3. Scanned' = Scanned /\ \A c \in Delivery : Calling(c)' <=> Calling(c)
      BY <3>1 DEF Scanned, Calling, Busy
    <3> QED BY <3>1, <3>2, <3>3, AheadIs, ForgoRefines
  <2>2. CASE BecomeDue(d)
    <3>1. \A c \in Delivery : row'[c].status = row[c].status
      BY <2>2 DEF BecomeDue, IInv, Typed, Rows
    <3>2. UNCHANGED <<heard, job, call, scan>> BY <2>2 DEF BecomeDue, history
    <3> QED BY <3>1, <3>2 DEF Outcome, Ahead, Kept
  <2>3. CASE RetryDelivery(d) BY <2>3, RetryRefines
  <2> QED BY <1>5, <2>1, <2>2, <2>3
<1>6. ASSUME NEW e \in Event, Emit(e) PROVE UNCHANGED <<row, heard, job, call, scan>>
  BY <1>6 DEF Emit
<1>7. CASE Scan \/ ScanFails BY <1>7, ScanRefines
<1>8. ASSUME NEW p \in Endpoint,
             \/ BecomeQuiet(p) \/ DeleteEndpoint(p) \/ EnableEndpoint(p)
             \/ \E fields \in SUBSET {"url", "subscription"} : UpdateEndpoint(p, fields)
      PROVE  UNCHANGED <<row, heard, job, call, scan>>
  BY <1>8 DEF BecomeQuiet, UpdateEndpoint, DeleteEndpoint, EnableEndpoint, history
<1>9. ASSUME UNCHANGED vars PROVE UNCHANGED <<row, heard, job, call, scan>> BY <1>9 DEF vars
<1> QED BY <1>1, <1>2, <1>3, <1>4, <1>5, <1>6, <1>7, <1>8, <1>9 DEF Next

\* The tables of deliveries, jobs, workers, scans and retries implement the promise, also
\* when jobs expire under their handlers and scans queue what has ended since.
THEOREM Refinement == Spec => KeepsPromise
<1>1. Init => Promise!Init
  <2> SUFFICES ASSUME Init PROVE Promise!Init OBVIOUS
  <2>1. Outcome = [d \in Delivery |-> "none"] BY DEF Init, Outcome, NoRow, Open
  <2>2. Ahead = {} BY DEF Init, Ahead, NoScan
  <2> QED BY <2>1, <2>2 DEF Init, Promise!Init
<1>2. IInv /\ [Next]_vars => [Promise!Next]_<<Outcome, heard, Ahead>> BY StepRefines DEF Kept
<1> QED BY <1>1, <1>2, Invariant, PTL DEF Spec, KeepsPromise, Promise!Spec
=============================================================================
