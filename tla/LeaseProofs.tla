---------------------------- MODULE LeaseProofs ----------------------------
(***************************************************************************)
(* What the leases buy.  OutboxProofs takes it as a hypothesis that no     *)
(* process claims a message which one of its own jobs still holds.  Here   *)
(* that follows from the timing of the leases, and with it that a message  *)
(* is dispatched by one worker at a time, that its attempts are bounded    *)
(* and that nothing is accepted after the final word.                      *)
(***************************************************************************)
EXTENDS OutboxProofs

Live(p, m, g) == ClassOf(p, m, g) # "none"

\* The one condition on time: the lease of a row does not run out while the
\* process that claimed it still has a job for it.
LeaseOutlasts ==
    \A p \in Proc, m \in Msg, g \in Gen :
        Live(p, m, g) /\ Owned(row[m], IdOf[p]) => row[m].lease = "fresh"

-----------------------------------------------------------------------------
(* The columns after each statement that the turns below look at.          *)

LEMMA RowColumns ==
    ASSUME NEW r \in RowSet, NEW policy
    PROVE  /\ \A i \in Id : /\ ClaimBatch(r, i).status = "claimed" /\ ClaimBatch(r, i).by = i
                            /\ ClaimBatch(r, i).lease = "fresh"
                            /\ ClaimBatch(r, i).marker = r.marker
                            /\ ClaimBatch(r, i).attempts = r.attempts
                            /\ ClaimBatch(r, i).amb = r.amb
           /\ /\ Heartbeat(r).status = r.status /\ Heartbeat(r).by = r.by
              /\ Heartbeat(r).lease = "fresh" /\ Heartbeat(r).marker = r.marker
              /\ Heartbeat(r).attempts = r.attempts /\ Heartbeat(r).amb = r.amb
           /\ /\ Release(r).status = "pending" /\ Release(r).marker = r.marker
              /\ Release(r).attempts = r.attempts /\ Release(r).amb = r.amb
           /\ LET d == MarkDispatchStarted(r) IN
              /\ d.status = r.status /\ d.by = r.by /\ d.lease = r.lease
              /\ d.marker /\ d.attempts = r.attempts + 1 /\ d.amb = r.amb
           /\ \A d \in {ResultSent(r), ResultFailed(r), SkipSuppressed(r), RevokePending(r)} :
                 /\ d.status \in {"sent", "failed", "skipped"}
                 /\ d.attempts = r.attempts /\ d.amb = r.amb
           /\ LET d == ResultRetry(r) IN
              /\ d.status = "pending" /\ ~d.marker /\ d.attempts = r.attempts /\ d.amb = r.amb
           /\ LET d == ResultFatal(r) IN
              /\ d.status = "pending" /\ ~d.marker
              /\ d.attempts = GiveBack(r.attempts) /\ d.amb = r.amb
           /\ LET d == ReaperAmbiguous(r, policy) IN
              /\ d.status \in {"pending", "failed"} /\ ~d.marker
              /\ d.attempts = r.attempts /\ d.amb = r.amb + 1
<1> USE DEF RowSet, Rows
<1>1. \A i \in Id : /\ ClaimBatch(r, i).status = "claimed" /\ ClaimBatch(r, i).by = i
                    /\ ClaimBatch(r, i).lease = "fresh"
                    /\ ClaimBatch(r, i).marker = r.marker
                    /\ ClaimBatch(r, i).attempts = r.attempts
                    /\ ClaimBatch(r, i).amb = r.amb
  BY DEF ClaimBatch
<1>2. /\ Heartbeat(r).status = r.status /\ Heartbeat(r).by = r.by
      /\ Heartbeat(r).lease = "fresh" /\ Heartbeat(r).marker = r.marker
      /\ Heartbeat(r).attempts = r.attempts /\ Heartbeat(r).amb = r.amb
  BY DEF Heartbeat
<1>3. /\ Release(r).status = "pending" /\ Release(r).marker = r.marker
      /\ Release(r).attempts = r.attempts /\ Release(r).amb = r.amb
  BY DEF Release
<1>4. LET d == MarkDispatchStarted(r) IN
      /\ d.status = r.status /\ d.by = r.by /\ d.lease = r.lease
      /\ d.marker /\ d.attempts = r.attempts + 1 /\ d.amb = r.amb
  BY DEF MarkDispatchStarted
<1>5. \A d \in {ResultSent(r), ResultFailed(r), SkipSuppressed(r), RevokePending(r)} :
         /\ d.status \in {"sent", "failed", "skipped"}
         /\ d.attempts = r.attempts /\ d.amb = r.amb
  <2>1. /\ ResultSent(r).status = "sent" /\ ResultSent(r).attempts = r.attempts
        /\ ResultSent(r).amb = r.amb
    BY DEF ResultSent
  <2>2. /\ ResultFailed(r).status = "failed" /\ ResultFailed(r).attempts = r.attempts
        /\ ResultFailed(r).amb = r.amb
    BY DEF ResultFailed
  <2>3. /\ SkipSuppressed(r).status = "skipped" /\ SkipSuppressed(r).attempts = r.attempts
        /\ SkipSuppressed(r).amb = r.amb
    BY DEF SkipSuppressed
  <2>4. /\ RevokePending(r).status = "skipped" /\ RevokePending(r).attempts = r.attempts
        /\ RevokePending(r).amb = r.amb
    BY DEF RevokePending
  <2> QED BY <2>1, <2>2, <2>3, <2>4
<1>6. LET d == ResultRetry(r) IN
      /\ d.status = "pending" /\ ~d.marker /\ d.attempts = r.attempts /\ d.amb = r.amb
  BY DEF ResultRetry
<1>7. LET d == ResultFatal(r) IN
      /\ d.status = "pending" /\ ~d.marker
      /\ d.attempts = GiveBack(r.attempts) /\ d.amb = r.amb
  BY DEF ResultFatal, ResultRetry
<1>8. LET d == ReaperAmbiguous(r, policy) IN
      /\ d.status \in {"pending", "failed"} /\ ~d.marker
      /\ d.attempts = r.attempts /\ d.amb = r.amb + 1
  BY DEF ReaperAmbiguous
<1> QED BY <1>1, <1>2, <1>3, <1>4, <1>5, <1>6, <1>7, <1>8

-----------------------------------------------------------------------------
(* What one step can do to the claim of one message.                       *)

\* Jobs end or stay in their class, with the attempts they were claimed with.
JobsKept(m) ==
    \A q \in Proc, h \in Gen :
        \/ ~Live(q, m, h)'
        \/ /\ ClassOf(q, m, h)' = ClassOf(q, m, h)
           /\ job'[q][m][h].attempts = job[q][m][h].attempts

\* A process that still has the job goes on living, and does not draw back from draining.
LivesOn(m) ==
    \A q \in Proc, h \in Gen : Live(q, m, h)' =>
        /\ proc[q] \in {"up", "stopping", "draining"} => proc'[q] \in {"up", "stopping", "draining"}
        /\ proc[q] = "draining" => proc'[q] = "draining"

\* The claim stays as it is; at most its lease changes.
Unmoved(m) ==
    /\ JobsKept(m)
    /\ row'[m].status = row[m].status /\ row'[m].by = row[m].by
    /\ row'[m].marker = row[m].marker
    /\ row'[m].attempts = row[m].attempts /\ row'[m].amb = row[m].amb
    /\ row'[m].lease \in {row[m].lease, "fresh"} \/ MayAge(m)

\* Why a job that holds the claim may outlive it.
Outlived(m) ==
    \A q \in Proc, h \in Gen : Live(q, m, h)' /\ Owned(row[m], IdOf[q]) =>
        \/ row[m].lease # "fresh"
        \/ proc[q] \in {"down", "exited"}
        \/ proc'[q] = "draining" /\ ~row[m].marker

\* What the attempts and doubts of a message become when its claim ends.
Charged(m) ==
    \/ /\ row'[m].status \in {"sent", "failed", "skipped"}
       /\ row'[m].attempts = row[m].attempts /\ row'[m].amb \in {row[m].amb, row[m].amb + 1}
    \/ /\ row'[m].attempts = row[m].attempts /\ row'[m].amb = row[m].amb
       /\ row[m].status = "claimed" /\ ~row[m].marker
    \/ /\ row'[m].attempts = row[m].attempts /\ row'[m].amb = row[m].amb
       /\ \E q \in Proc, h \in Gen :
             /\ Owned(row[m], IdOf[q]) /\ ClassOf(q, m, h) = "refused"
             /\ job[q][m][h].attempts + 1 < MaxAttempts
    \/ row'[m].attempts = GiveBack(row[m].attempts) /\ row'[m].amb = row[m].amb
    \/ row'[m].attempts = row[m].attempts /\ row'[m].amb = row[m].amb + 1
    \/ /\ row'[m].attempts = row[m].attempts /\ row'[m].amb = row[m].amb
       /\ unbuilt'[m] = unbuilt[m] + 1

Ended(m) ==
    /\ JobsKept(m)
    /\ row[m].status \in {"pending", "claimed"}
    /\ row'[m].status # "claimed"
    /\ row'[m].status = "pending" => row[m].status = "claimed" /\ ~row'[m].marker
    /\ Outlived(m) /\ Charged(m)

\* All jobs of m but one stay what they are.
OtherCopies(p, m, g) ==
    \A q \in Proc, h \in Gen : q # p \/ h # g => job'[q][m][h] = job[q][m][h]

Reserved(m) ==
    \E p \in Proc, g \in Gen :
        /\ proc[p] = "up"
        /\ OtherCopies(p, m, g)
        /\ ClassOf(p, m, g)' = "before" /\ job'[p][m][g].attempts = row[m].attempts
        /\ row[m].status = "pending" /\ row'[m].status = "claimed"
        /\ row'[m].by = IdOf[p] /\ row'[m].lease = "fresh" /\ row'[m].marker = row[m].marker
        /\ row'[m].attempts = row[m].attempts /\ row'[m].amb = row[m].amb

\* D1.
Entered(m) ==
    \E p \in Proc, g \in Gen :
        /\ OtherCopies(p, m, g)
        /\ Owned(row[m], IdOf[p]) /\ ClassOf(p, m, g) = "before"
        /\ \/ ~Live(p, m, g)'
           \/ /\ ClassOf(p, m, g)' = "call"
              /\ job'[p][m][g].attempts = job[p][m][g].attempts
        /\ row'[m].status = "claimed" /\ row'[m].by = row[m].by
        /\ row'[m].lease = row[m].lease /\ row'[m].marker
        /\ row'[m].attempts = row[m].attempts + 1 /\ row'[m].amb = row[m].amb

\* D2.
Replied(m) ==
    /\ row'[m] = row[m]
    /\ \E p \in Proc, g \in Gen :
          /\ OtherCopies(p, m, g)
          /\ ClassOf(p, m, g) = "call"
          /\ \/ ~Live(p, m, g)'
             \/ /\ ClassOf(p, m, g)' \in {"ok", "refused"}
                /\ job'[p][m][g].attempts = job[p][m][g].attempts

Turn(m) == /\ LivesOn(m)
           /\ Unmoved(m) \/ Ended(m) \/ Reserved(m) \/ Entered(m) \/ Replied(m)

LEMMA WorkerTurn ==
    ASSUME OneLifePerId, OneCopy, TypeOK,
           NEW p \in Proc, NEW n \in Msg, NEW g \in Gen, WorkerStep(p, n, g), NEW m \in Msg
    PROVE  Turn(m)
<1> DEFINE j == job[p][n][g]
<1>a. proc[p] \in {"up", "stopping", "draining"} /\ proc' = proc
  BY DEF WorkerStep, Pick, HeaderUnreadable, CampaignUnusable, ReleaseOne, ProviderUnusable,
         MarkStarted, MarkMissed, Dispatch, WriteResult, BreakerPause, Cancelled
<1>l. LivesOn(m) BY <1>a DEF LivesOn
<1>r. row[m] \in RowSet BY DEF TypeOK, RowSet
<1>s. SUFFICES Unmoved(m) \/ Ended(m) \/ Reserved(m) \/ Entered(m) \/ Replied(m)
  BY <1>l DEF Turn
<1>k. ASSUME OtherJobs(p, n, g),
             \/ ClassOf(p, n, g)' = "none"
             \/ /\ ClassOf(p, n, g)' = ClassOf(p, n, g)
                /\ job'[p][n][g].attempts = j.attempts
      PROVE  JobsKept(m)
  BY <1>k DEF OtherJobs, JobsKept, Live, ClassOf
<1>u. ASSUME JobsKept(m), row'[m] = row[m] PROVE Unmoved(m)
  BY <1>u DEF Unmoved
\* The row of m holds the claim of this very job, which ends.
<1>o. ASSUME n = m, Owned(row[m], IdOf[p]), OtherJobs(p, n, g),
             ClassOf(p, n, g) # "none", ClassOf(p, n, g)' = "none"
      PROVE  Outlived(m)
  <2> SUFFICES ASSUME NEW q \in Proc, NEW h \in Gen, Live(q, m, h)', Owned(row[m], IdOf[q])
               PROVE  FALSE
    BY DEF Outlived
  <2>1. q = p BY <1>o DEF Owned, OneLifePerId
  <2>2. h # g BY <1>o, <2>1 DEF Live
  <2>3. ClassOf(p, m, h) # "none" BY <1>o, <2>1, <2>2 DEF OtherJobs, Live, ClassOf
  <2> QED BY <1>o, <2>2, <2>3 DEF OneCopy
<1>1. CASE Pick(p, n, g)
  <2>1. MoveJob(p, n, g, "picked") /\ j.stage = "queued" /\ row' = row
    BY <1>1 DEF Pick, Stage
  <2>2. OtherJobs(p, n, g) /\ job'[p][n][g] = [j EXCEPT !.stage = "picked"]
    BY <2>1, JobMoves
  <2>3. /\ ClassOf(p, n, g)' = "before" /\ ClassOf(p, n, g) = "before"
        /\ job'[p][n][g].attempts = j.attempts
    BY <2>1, <2>2 DEF ClassOf, Class, TypeOK, Jobs
  <2> QED BY <2>1, <2>2, <2>3, <1>k, <1>u
<1>2. CASE HeaderUnreadable(p, n, g) \/ CampaignUnusable(p, n, g)
  <2>1. MoveJob(p, n, g, "releasing") /\ j.stage = "picked" /\ row' = row
    BY <1>2 DEF HeaderUnreadable, CampaignUnusable, Stage
  <2>2. OtherJobs(p, n, g) /\ job'[p][n][g] = [j EXCEPT !.stage = "releasing"]
    BY <2>1, JobMoves
  <2>3. /\ ClassOf(p, n, g)' = "before" /\ ClassOf(p, n, g) = "before"
        /\ job'[p][n][g].attempts = j.attempts
    BY <2>1, <2>2 DEF ClassOf, Class, TypeOK, Jobs
  <2> QED BY <2>1, <2>2, <2>3, <1>k, <1>u
<1>3. CASE ReleaseOne(p, n, g)
  <2>1. OtherJobs(p, n, g) /\ ClassOf(p, n, g)' = "none"
    BY <1>3, JobEnds DEF ReleaseOne
  <2>2. /\ MayStore(n, ReleaseHits(row[n], IdOf[p]), Release(row[n]))
        /\ ClassOf(p, n, g) = "before"
    BY <1>3 DEF ReleaseOne, Stage, ClassOf, Class
  <2>3. /\ n # m => row'[m] = row[m]
        /\ row'[n] = row[n] \/ (ReleaseHits(row[n], IdOf[p]) /\ row'[n] = Release(row[n]))
    BY <2>2, StoreOne
  <2>4. CASE row'[m] = row[m] BY <2>1, <2>4, <1>k, <1>u
  <2>5. CASE n = m /\ ReleaseHits(row[m], IdOf[p]) /\ row'[m] = Release(row[m])
    <3>1. Owned(row[m], IdOf[p]) /\ ~row[m].marker BY <2>5 DEF ReleaseHits
    <3>2. /\ row'[m].status = "pending" /\ row'[m].marker = row[m].marker
          /\ row'[m].attempts = row[m].attempts /\ row'[m].amb = row[m].amb
      BY <2>5, <1>r, RowColumns
    <3>3. Outlived(m) BY <2>1, <2>2, <2>5, <3>1, <1>o
    <3>4. Ended(m) BY <2>1, <3>1, <3>2, <3>3, <1>k DEF Ended, Charged, Owned
    <3> QED BY <3>4
  <2> QED BY <2>3, <2>4, <2>5
<1>4. CASE ProviderUnusable(p, n, g)
  <2>1. /\ j.stage = "picked" /\ (MoveJob(p, n, g, "pausing") \/ EndJob(p, n, g))
        /\ MayStore(n, Owned(row[n], IdOf[p]), ResultFatal(row[n]))
    BY <1>4 DEF ProviderUnusable, Stage
  <2>2. OtherJobs(p, n, g) /\ ClassOf(p, n, g)' = "none" /\ ClassOf(p, n, g) = "before"
    <3>1. CASE MoveJob(p, n, g, "pausing")
      <4>1. OtherJobs(p, n, g) /\ job'[p][n][g] = [j EXCEPT !.stage = "pausing"]
        BY <3>1, JobMoves
      <4> QED BY <1>4, <4>1 DEF ProviderUnusable, Stage, ClassOf, Class, TypeOK, Jobs
    <3>2. CASE EndJob(p, n, g)
      BY <1>4, <3>2, JobEnds DEF ProviderUnusable, Stage, ClassOf, Class
    <3> QED BY <1>4, <3>1, <3>2 DEF ProviderUnusable
  <2>3. /\ n # m => row'[m] = row[m]
        /\ row'[n] = row[n] \/ (Owned(row[n], IdOf[p]) /\ row'[n] = ResultFatal(row[n]))
    <3>1. MayStore(n, Owned(row[n], IdOf[p]), ResultFatal(row[n])) BY <1>4 DEF ProviderUnusable
    <3> QED BY <3>1, StoreOne
  <2>4. CASE row'[m] = row[m] BY <2>2, <2>4, <1>k, <1>u
  <2>5. CASE n = m /\ Owned(row[m], IdOf[p]) /\ row'[m] = ResultFatal(row[m])
    <3>1. /\ row'[m].status = "pending" /\ ~row'[m].marker
          /\ row'[m].attempts = GiveBack(row[m].attempts) /\ row'[m].amb = row[m].amb
      BY <2>5, <1>r, RowColumns
    <3>2. Outlived(m) BY <2>2, <2>5, <1>o
    <3>3. Ended(m) BY <2>2, <2>5, <3>1, <3>2, <1>k DEF Ended, Charged, Owned
    <3> QED BY <3>3
  <2> QED BY <2>3, <2>4, <2>5
<1>5. CASE MarkStarted(p, n, g)
  <2>1. /\ j.stage = "picked" /\ Owned(row[n], IdOf[p])
        /\ row' = [row EXCEPT ![n] = MarkDispatchStarted(row[n])]
        /\ MoveJob(p, n, g, "marked") \/ EndJob(p, n, g)
    BY <1>5 DEF MarkStarted, Stage
  <2>2. /\ OtherJobs(p, n, g) /\ ClassOf(p, n, g) = "before"
        /\ \/ ClassOf(p, n, g)' = "none"
           \/ ClassOf(p, n, g)' = "call" /\ job'[p][n][g].attempts = j.attempts
    <3>1. CASE MoveJob(p, n, g, "marked")
      <4>1. OtherJobs(p, n, g) /\ job'[p][n][g] = [j EXCEPT !.stage = "marked"]
        BY <3>1, JobMoves
      <4> QED BY <2>1, <4>1 DEF ClassOf, Class, TypeOK, Jobs
    <3>2. CASE EndJob(p, n, g) BY <2>1, <3>2, JobEnds DEF ClassOf, Class
    <3> QED BY <2>1, <3>1, <3>2
  <2>3. CASE n # m
    <3>1. JobsKept(m) BY <2>2, <2>3 DEF OtherJobs, JobsKept, Live, ClassOf
    <3> QED BY <2>1, <2>3, <3>1, <1>u DEF TypeOK
  <2>4. CASE n = m
    <3>1. row'[m] = MarkDispatchStarted(row[m]) BY <2>1, <2>4 DEF TypeOK
    <3>2. /\ row'[m].status = "claimed" /\ row'[m].by = row[m].by
          /\ row'[m].lease = row[m].lease /\ row'[m].marker
          /\ row'[m].attempts = row[m].attempts + 1 /\ row'[m].amb = row[m].amb
      BY <2>1, <2>4, <3>1, <1>r, RowColumns DEF Owned
    <3>3. Entered(m) BY <2>1, <2>2, <2>4, <3>2 DEF Entered, OtherCopies, OtherJobs, Live
    <3> QED BY <3>3
  <2> QED BY <2>3, <2>4
<1>6. CASE MarkMissed(p, n, g) \/ BreakerPause(p, n, g)
  <2>1. OtherJobs(p, n, g) /\ ClassOf(p, n, g)' = "none" /\ row' = row
    BY <1>6, JobEnds DEF MarkMissed, BreakerPause
  <2> QED BY <2>1, <1>k, <1>u
<1>7. CASE Dispatch(p, n, g)
  <2>1. PICK v \in Verdicts :
          job' = [job EXCEPT ![p][n][g] =
                       [@ EXCEPT !.stage = "done", !.answer = IF v = "lost" THEN "retryable" ELSE v]]
    BY <1>7 DEF Dispatch
  <2> DEFINE k == [j EXCEPT !.stage = "done", !.answer = IF v = "lost" THEN "retryable" ELSE v]
  <2>2. job' = [job EXCEPT ![p][n][g] = k]
    BY <2>1
  <2>3. k.stage = "done" /\ k.attempts = j.attempts
    BY DEF TypeOK, Jobs
  <2> HIDE DEF k
  <2>4. job'[p][n][g] = k /\ OtherJobs(p, n, g)
    BY <2>2, JobUpdate
  <2>5. ClassOf(p, n, g)' \in {"ok", "refused"} /\ job'[p][n][g].attempts = j.attempts
    BY <2>3, <2>4 DEF ClassOf, Class
  <2>6. ClassOf(p, n, g) = "call" /\ row' = row
    BY <1>7 DEF Dispatch, Stage, ClassOf, Class
  <2>7. CASE n # m
    <3>1. JobsKept(m) BY <2>4, <2>7 DEF OtherJobs, JobsKept, Live, ClassOf
    <3> QED BY <2>6, <3>1, <1>u
  <2>8. CASE n = m BY <2>4, <2>5, <2>6, <2>8 DEF Replied, OtherCopies, OtherJobs
  <2> QED BY <2>7, <2>8
<1>8. CASE WriteResult(p, n, g)
  <2>1. /\ j.stage = "done" /\ (MoveJob(p, n, g, "pausing") \/ EndJob(p, n, g))
        /\ MayStore(n, Owned(row[n], IdOf[p]), Result(j, row[n]))
    BY <1>8 DEF WriteResult, Stage
  <2>2. OtherJobs(p, n, g) /\ ClassOf(p, n, g)' = "none"
    <3>1. CASE MoveJob(p, n, g, "pausing")
      <4>1. OtherJobs(p, n, g) /\ job'[p][n][g] = [j EXCEPT !.stage = "pausing"]
        BY <3>1, JobMoves
      <4> QED BY <4>1 DEF ClassOf, Class, TypeOK, Jobs
    <3> QED BY <2>1, <3>1, JobEnds
  <2>3. ClassOf(p, n, g) = IF j.answer = "ok" THEN "ok" ELSE "refused"
    BY <2>1 DEF ClassOf, Class
  <2>4. /\ n # m => row'[m] = row[m]
        /\ row'[n] = row[n] \/ (Owned(row[n], IdOf[p]) /\ row'[n] = Result(j, row[n]))
    BY <2>1, StoreOne
  <2>5. CASE row'[m] = row[m] BY <2>2, <2>5, <1>k, <1>u
  <2>6. CASE n = m /\ Owned(row[m], IdOf[p]) /\ row'[m] = Result(j, row[m])
    <3>1. Outlived(m) BY <2>2, <2>3, <2>6, <1>o
    <3>2. JobsKept(m) BY <2>2, <1>k
    <3>3. \/ row'[m] \in {ResultSent(row[m]), ResultFailed(row[m]), ResultFatal(row[m])}
          \/ row'[m] = ResultRetry(row[m]) /\ j.answer = "retryable" /\ ~Exhausted(j)
          \/ row'[m] = ResultRetry(row[m]) /\ j.answer = "boundary"
      BY <2>6 DEF Result, ResultThrottled
    <3>4. CASE row'[m] \in {ResultSent(row[m]), ResultFailed(row[m])}
      <4>1. /\ row'[m].status \in {"sent", "failed", "skipped"}
            /\ row'[m].attempts = row[m].attempts /\ row'[m].amb = row[m].amb
        BY <3>4, <1>r, RowColumns
      <4>2. Ended(m) BY <2>6, <3>1, <3>2, <4>1 DEF Ended, Charged, Owned
      <4> QED BY <4>2
    <3>5. CASE row'[m] = ResultFatal(row[m])
      <4>1. /\ row'[m].status = "pending" /\ ~row'[m].marker
            /\ row'[m].attempts = GiveBack(row[m].attempts) /\ row'[m].amb = row[m].amb
        BY <3>5, <1>r, RowColumns
      <4>2. Ended(m) BY <2>6, <3>1, <3>2, <4>1 DEF Ended, Charged, Owned
      <4> QED BY <4>2
    <3>6. CASE row'[m] = ResultRetry(row[m]) /\ j.answer = "retryable" /\ ~Exhausted(j)
      <4>1. /\ row'[m].status = "pending" /\ ~row'[m].marker
            /\ row'[m].attempts = row[m].attempts /\ row'[m].amb = row[m].amb
        BY <3>6, <1>r, RowColumns
      <4>2. j.attempts \in Nat /\ MaxAttempts \in Nat
        BY OutboxAssumption DEF OutboxAssumption, TypeOK, Jobs
      <4>3. j.attempts + 1 < MaxAttempts BY <3>6, <4>2 DEF Exhausted
      <4>4. Charged(m) BY <2>3, <2>6, <3>6, <4>1, <4>3 DEF Charged
      <4>5. Ended(m) BY <2>6, <3>1, <3>2, <4>1, <4>4 DEF Ended, Owned
      <4> QED BY <4>5
    <3>7. CASE row'[m] = ResultRetry(row[m]) /\ j.answer = "boundary"
      <4>1. /\ row'[m].status = "pending" /\ ~row'[m].marker
            /\ row'[m].attempts = row[m].attempts /\ row'[m].amb = row[m].amb
        BY <3>7, <1>r, RowColumns
      <4>2. unbuilt'[m] = unbuilt[m] + 1
        BY <1>8, <2>6, <3>7 DEF WriteResult, TypeOK
      <4>3. Charged(m) BY <4>1, <4>2 DEF Charged
      <4>4. Ended(m) BY <2>6, <3>1, <3>2, <4>1, <4>3 DEF Ended, Owned
      <4> QED BY <4>4
    <3> QED BY <3>3, <3>4, <3>5, <3>6, <3>7
  <2> QED BY <2>4, <2>5, <2>6
<1>9. CASE Cancelled(p, n, g)
  <2>1. job' = [job EXCEPT ![p][n][g] = NoJob] /\ row' = row
    BY <1>9 DEF Cancelled, EndJob
  <2>2. job'[p][n][g] = NoJob /\ OtherJobs(p, n, g)
    BY <2>1, JobUpdate
  <2>3. ClassOf(p, n, g)' = "none"
    BY <2>2 DEF ClassOf, Class, NoJob
  <2> QED BY <2>1, <2>2, <2>3, <1>k, <1>u
<1> QED
  BY <1>1, <1>2, <1>3, <1>4, <1>5, <1>6, <1>7, <1>8, <1>9 DEF WorkerStep

LEMMA ClaimTurn ==
    ASSUME TypeOK, NEW p \in Proc, proc[p] = "up", NEW STATE claimable,
           \A n \in claimable : ClaimHits(row[n]), Claim(p, claimable), NEW m \in Msg
    PROVE  Turn(m)
<1>1. PICK S \in SUBSET claimable : \E g \in [S -> Gen] :
         /\ row' = [n \in Msg |-> IF n \in S THEN ClaimBatch(row[n], IdOf[p]) ELSE row[n]]
         /\ job' = [job EXCEPT ![p] = [n \in Msg |-> [h \in Gen |->
                      IF n \in S /\ h = g[n]
                      THEN [stage |-> "batch", attempts |-> row[n].attempts, answer |-> "none"]
                      ELSE job[p][n][h]]]]
  BY DEF Claim
<1>2. PICK g \in [S -> Gen] :
         /\ row' = [n \in Msg |-> IF n \in S THEN ClaimBatch(row[n], IdOf[p]) ELSE row[n]]
         /\ job' = [job EXCEPT ![p] = [n \in Msg |-> [h \in Gen |->
                      IF n \in S /\ h = g[n]
                      THEN [stage |-> "batch", attempts |-> row[n].attempts, answer |-> "none"]
                      ELSE job[p][n][h]]]]
  BY <1>1
<1>l. LivesOn(m) BY DEF LivesOn, Claim
<1>3. CASE m \in S
  <2>1. row'[m] = ClaimBatch(row[m], IdOf[p]) /\ row[m].status = "pending"
    BY <1>2, <1>3 DEF ClaimHits
  <2>2. row[m] \in RowSet /\ IdOf[p] \in Id
    BY OutboxAssumption DEF TypeOK, RowSet, OutboxAssumption
  <2>3. /\ row'[m].status = "claimed" /\ row'[m].by = IdOf[p] /\ row'[m].lease = "fresh"
        /\ row'[m].marker = row[m].marker
        /\ row'[m].attempts = row[m].attempts /\ row'[m].amb = row[m].amb
    <3> DEFINE i == IdOf[p]
               r == row[m]
    <3>1. i \in Id /\ r \in RowSet BY <2>2
    <3> HIDE DEF i, r
    <3>2. /\ ClaimBatch(r, i).status = "claimed" /\ ClaimBatch(r, i).by = i
          /\ ClaimBatch(r, i).lease = "fresh" /\ ClaimBatch(r, i).marker = r.marker
          /\ ClaimBatch(r, i).attempts = r.attempts /\ ClaimBatch(r, i).amb = r.amb
      BY <3>1, RowColumns
    <3> QED BY <2>1, <3>2 DEF i, r
  <2>4. /\ g[m] \in Gen
        /\ job'[p][m][g[m]] = [stage |-> "batch", attempts |-> row[m].attempts, answer |-> "none"]
    BY <1>2, <1>3 DEF TypeOK
  <2>5. OtherCopies(p, m, g[m]) BY <1>2, <1>3 DEF TypeOK, OtherCopies
  <2>6. ClassOf(p, m, g[m])' = "before" /\ job'[p][m][g[m]].attempts = row[m].attempts
    BY <2>4 DEF ClassOf, Class
  <2>7. Reserved(m) BY <2>1, <2>3, <2>4, <2>5, <2>6 DEF Reserved
  <2> QED BY <2>7, <1>l DEF Turn
<1>4. CASE m \notin S
  <2>1. row'[m] = row[m] BY <1>2, <1>4
  <2>2. SameJobs(m) BY <1>2, <1>4 DEF TypeOK, SameJobs
  <2>3. Unmoved(m) BY <2>1, <2>2 DEF Unmoved, JobsKept, SameJobs, ClassOf, Live
  <2> QED BY <2>3, <1>l DEF Turn
<1> QED BY <1>3, <1>4

\* The suppression check: whose row it skips, it drops from the batch.
LEMMA BatchTurn ==
    ASSUME OneLifePerId, OneCopy, TypeOK, NEW p \in Proc, NEW s \in Streams,
           FilterBatch(p, s) \/ DropBatch(p, s), NEW m \in Msg
    PROVE  Turn(m)
<1> DEFINE batch == JobsIn(p, s, {"batch"})
<1>l. LivesOn(m) BY DEF LivesOn, FilterBatch, DropBatch
<1>r. row[m] \in RowSet BY DEF TypeOK, RowSet
<1>b. ASSUME NEW h \in Gen, <<m, h>> \in batch PROVE ClassOf(p, m, h) = "before"
  BY <1>b DEF JobsIn, Stage, ClassOf, Class
<1>1. ASSUME NEW q \in Proc, NEW h \in Gen
      PROVE  \/ job'[q][m][h] = job[q][m][h]
             \/ job'[q][m][h] = NoJob
             \/ /\ job[q][m][h].stage = "batch"
                /\ job'[q][m][h] = [job[q][m][h] EXCEPT !.stage = "queued"]
  <2>1. CASE FilterBatch(p, s)
    <3>1. job' = [job EXCEPT ![p] = [n \in Msg |-> [k \in Gen |->
               CASE <<n, k>> \notin batch -> job[p][n][k]
                 [] <<n, k>> \in batch /\ ~Kept(n) -> NoJob
                 [] OTHER -> [job[p][n][k] EXCEPT !.stage = "queued"]]]]
      BY <2>1 DEF FilterBatch
    <3>2. <<m, h>> \in batch => job[p][m][h].stage = "batch"
      BY DEF JobsIn, Stage
    <3>3. CASE q = p
      <4>1. job'[p][m][h] =
               CASE <<m, h>> \notin batch -> job[p][m][h]
                 [] <<m, h>> \in batch /\ ~Kept(m) -> NoJob
                 [] OTHER -> [job[p][m][h] EXCEPT !.stage = "queued"]
        BY <3>1 DEF TypeOK
      <4> QED BY <3>2, <3>3, <4>1
    <3>4. CASE q # p BY <3>1, <3>4 DEF TypeOK
    <3> QED BY <3>3, <3>4
  <2>2. CASE DropBatch(p, s)
    <3>1. job' = [job EXCEPT ![p] = [n \in Msg |-> [k \in Gen |->
               IF <<n, k>> \in batch THEN NoJob ELSE job[p][n][k]]]]
      BY <2>2 DEF DropBatch
    <3> QED BY <3>1 DEF TypeOK
  <2> QED BY <2>1, <2>2
<1>2. JobsKept(m)
  <2> SUFFICES ASSUME NEW q \in Proc, NEW h \in Gen
               PROVE  \/ ~Live(q, m, h)'
                      \/ /\ ClassOf(q, m, h)' = ClassOf(q, m, h)
                         /\ job'[q][m][h].attempts = job[q][m][h].attempts
    BY DEF JobsKept
  <2>1. CASE job'[q][m][h] = job[q][m][h] BY <2>1 DEF ClassOf
  <2>2. CASE job'[q][m][h] = NoJob BY <2>2 DEF Live, ClassOf, Class, NoJob
  <2>3. CASE /\ job[q][m][h].stage = "batch"
             /\ job'[q][m][h] = [job[q][m][h] EXCEPT !.stage = "queued"]
    BY <2>3 DEF ClassOf, Class, TypeOK, Jobs
  <2> QED BY <1>1, <2>1, <2>2, <2>3
<1>3. CASE row'[m] = row[m] BY <1>2, <1>3, <1>l DEF Unmoved, Turn
<1>4. CASE row'[m] # row[m]
  <2>1. PICK g \in Gen : <<m, g>> \in batch /\ ~Kept(m)
    BY <1>4 DEF FilterBatch, DropBatch
  <2>2. Owned(row[m], IdOf[p]) /\ row'[m] = SkipSuppressed(row[m])
    BY <1>4 DEF FilterBatch, DropBatch
  <2>3. job'[p][m][g] = NoJob
    <3>1. CASE FilterBatch(p, s)
      <4>1. job' = [job EXCEPT ![p] = [n \in Msg |-> [k \in Gen |->
                 CASE <<n, k>> \notin batch -> job[p][n][k]
                   [] <<n, k>> \in batch /\ ~Kept(n) -> NoJob
                   [] OTHER -> [job[p][n][k] EXCEPT !.stage = "queued"]]]]
        BY <3>1 DEF FilterBatch
      <4>2. job'[p][m][g] =
               CASE <<m, g>> \notin batch -> job[p][m][g]
                 [] <<m, g>> \in batch /\ ~Kept(m) -> NoJob
                 [] OTHER -> [job[p][m][g] EXCEPT !.stage = "queued"]
        BY <4>1 DEF TypeOK
      <4> QED BY <2>1, <4>2
    <3>2. CASE DropBatch(p, s)
      <4>1. job' = [job EXCEPT ![p] = [n \in Msg |-> [k \in Gen |->
                 IF <<n, k>> \in batch THEN NoJob ELSE job[p][n][k]]]]
        BY <3>2 DEF DropBatch
      <4> QED BY <2>1, <4>1 DEF TypeOK
    <3> QED BY <3>1, <3>2
  <2>4. Outlived(m)
    <3> SUFFICES ASSUME NEW q \in Proc, NEW h \in Gen, Live(q, m, h)', Owned(row[m], IdOf[q])
                 PROVE  FALSE
      BY DEF Outlived
    <3>1. q = p BY <2>2 DEF Owned, OneLifePerId
    <3>2. h # g BY <2>3, <3>1 DEF Live, ClassOf, Class, NoJob
    <3>3. ClassOf(p, m, h) # "none" BY <1>2, <3>1 DEF JobsKept, Live
    <3>4. ClassOf(p, m, g) # "none" BY <1>b, <2>1
    <3> QED BY <3>2, <3>3, <3>4 DEF OneCopy
  <2>5. /\ row'[m].status \in {"sent", "failed", "skipped"}
        /\ row'[m].attempts = row[m].attempts /\ row'[m].amb = row[m].amb
    BY <2>2, <1>r, RowColumns
  <2>6. Ended(m) BY <1>2, <2>2, <2>4, <2>5 DEF Ended, Charged, Owned
  <2> QED BY <2>6, <1>l DEF Turn
<1> QED BY <1>3, <1>4

LEMMA BackgroundTurn ==
    ASSUME TypeOK, NEW p \in Proc, HeartbeatTick(p) \/ ReapReleased(p) \/ ReapAmbiguous(p),
           NEW m \in Msg
    PROVE  Turn(m)
<1>l. LivesOn(m) BY DEF LivesOn, HeartbeatTick, ReapReleased, ReapAmbiguous
<1>r. row[m] \in RowSet BY DEF TypeOK, RowSet
<1>k. JobsKept(m)
  BY DEF HeartbeatTick, ReapReleased, ReapAmbiguous, JobsKept, ClassOf, Live
<1>1. CASE row'[m] = row[m] BY <1>k, <1>1, <1>l DEF Unmoved, Turn
<1>2. CASE HeartbeatTick(p) /\ row'[m] = Heartbeat(row[m])
  <2>1. Unmoved(m) BY <1>k, <1>r, <1>2, RowColumns DEF Unmoved
  <2> QED BY <2>1, <1>l DEF Turn
<1>3. CASE ReaperReleasedHits(row[m]) /\ row'[m] = Release(row[m])
  <2>1. row[m].status = "claimed" /\ ~row[m].marker /\ row[m].lease # "fresh"
    BY <1>3 DEF ReaperReleasedHits
  <2>2. /\ row'[m].status = "pending" /\ row'[m].marker = row[m].marker
        /\ row'[m].attempts = row[m].attempts /\ row'[m].amb = row[m].amb
    BY <1>3, <1>r, RowColumns
  <2>3. Ended(m) BY <1>k, <2>1, <2>2 DEF Ended, Outlived, Charged
  <2> QED BY <2>3, <1>l DEF Turn
<1>4. CASE ReaperAmbiguousHits(row[m]) /\ row'[m] = ReaperAmbiguous(row[m], Policy)
  <2>1. row[m].status = "claimed" /\ row[m].lease # "fresh"
    BY <1>4 DEF ReaperAmbiguousHits
  <2>2. /\ row'[m].status \in {"pending", "failed"} /\ ~row'[m].marker
        /\ row'[m].attempts = row[m].attempts /\ row'[m].amb = row[m].amb + 1
    BY <1>4, <1>r, RowColumns
  <2>3. Ended(m) BY <1>k, <2>1, <2>2 DEF Ended, Outlived, Charged
  <2> QED BY <2>3, <1>l DEF Turn
<1> QED BY <1>1, <1>2, <1>3, <1>4 DEF HeartbeatTick, ReapReleased, ReapAmbiguous

\* Starting finds no live job of the process, stopping leaves only those that
\* have not begun behind, and dying takes all of them along.
LEMMA LifeTurn ==
    ASSUME OneLifePerId, TypeOK, NEW p \in Proc,
           \/ Start(p) \/ Crash(p) \/ Stop(p)
           \/ ReleaseUnstarted(p) \/ Exit(p) \/ ForcedExit(p),
           NEW m \in Msg
    PROVE  Turn(m)
<1>r. row[m] \in RowSet BY DEF TypeOK, RowSet
<1>1. CASE Start(p) \/ ReleaseUnstarted(p)
  <2>1. JobsKept(m) BY <1>1 DEF Start, ReleaseUnstarted, JobsKept, ClassOf, Live
  <2>2. LivesOn(m) BY <1>1 DEF Start, ReleaseUnstarted, LivesOn, TypeOK
  <2>3. \/ row'[m] = row[m]
        \/ Owned(row[m], IdOf[p]) /\ ~row[m].marker /\ row'[m] = Release(row[m])
    BY <1>1 DEF Start, ReleaseUnstarted, RecoveryHits, ReleaseHits
  <2>4. CASE row'[m] = row[m] BY <2>1, <2>2, <2>4 DEF Unmoved, Turn
  <2>5. CASE Owned(row[m], IdOf[p]) /\ ~row[m].marker /\ row'[m] = Release(row[m])
    <3>1. /\ row'[m].status = "pending" /\ row'[m].marker = row[m].marker
          /\ row'[m].attempts = row[m].attempts /\ row'[m].amb = row[m].amb
      BY <2>5, <1>r, RowColumns
    <3>2. Outlived(m)
      <4> SUFFICES ASSUME NEW q \in Proc, Owned(row[m], IdOf[q])
                   PROVE  \/ proc[q] \in {"down", "exited"}
                          \/ proc'[q] = "draining" /\ ~row[m].marker
        BY DEF Outlived
      <4>1. q = p BY <2>5 DEF Owned, OneLifePerId
      <4> QED BY <1>1, <2>5, <4>1 DEF Start, ReleaseUnstarted, TypeOK
    <3>3. Ended(m) BY <2>1, <2>5, <3>1, <3>2 DEF Ended, Charged, Owned
    <3> QED BY <3>3, <2>2 DEF Turn
  <2> QED BY <2>3, <2>4, <2>5
<1>2. CASE Stop(p)
  <2>1. JobsKept(m) /\ row'[m] = row[m] BY <1>2 DEF Stop, JobsKept, ClassOf, Live
  <2>2. LivesOn(m) BY <1>2 DEF Stop, LivesOn, TypeOK
  <2> QED BY <2>1, <2>2 DEF Unmoved, Turn
<1>3. CASE Exit(p)
  <2>1. JobsKept(m) /\ row'[m] = row[m] BY <1>3 DEF Exit, JobsKept, ClassOf, Live
  <2>2. \A h \in Gen : ~Live(p, m, h)' BY <1>3 DEF Exit, Live, ClassOf, Class, NoJob
  <2>3. LivesOn(m) BY <1>3, <2>2 DEF Exit, LivesOn, TypeOK
  <2> QED BY <2>1, <2>3 DEF Unmoved, Turn
<1>4. CASE Crash(p) \/ ForcedExit(p)
  <2>1. /\ row'[m] = row[m] /\ job' = [job EXCEPT ![p] = [n \in Msg |-> [g \in Gen |-> NoJob]]]
        /\ proc' = [proc EXCEPT ![p] = "down"]
    BY <1>4 DEF Crash, ForcedExit, ForgetAll
  <2>2. \A h \in Gen : ~Live(p, m, h)' BY <2>1 DEF Live, ClassOf, Class, NoJob, TypeOK
  <2>3. \A q \in Proc \ {p}, h \in Gen : job'[q][m][h] = job[q][m][h] BY <2>1 DEF TypeOK
  <2>4. JobsKept(m) BY <2>2, <2>3 DEF JobsKept, ClassOf
  <2>5. LivesOn(m) BY <2>1, <2>2 DEF LivesOn, TypeOK
  <2> QED BY <2>1, <2>4, <2>5 DEF Unmoved, Turn
<1> QED BY <1>1, <1>2, <1>3, <1>4

LEMMA WorldTurn ==
    ASSUME TypeOK, WorldStep, NEW m \in Msg
    PROVE  Turn(m)
<1>r. row[m] \in RowSet BY DEF TypeOK, RowSet
<1>k. job' = job /\ proc' = proc
  BY DEF WorldStep, Age, BecomeDue, Unsuppress, Reconcile, CancelPending, Suppress, CampaignStatus
<1>j. JobsKept(m) /\ LivesOn(m) BY <1>k DEF JobsKept, LivesOn, ClassOf, Live
<1>1. \/ row'[m] = row[m]
      \/ MayAge(m) /\ \E l \in Leases : row'[m] = [row[m] EXCEPT !.lease = l]
      \/ row'[m] = [row[m] EXCEPT !.due = TRUE]
      \/ RevokeHits(row[m]) /\ row'[m] = RevokePending(row[m])
  <2>1. ASSUME NEW n \in Msg, Age(n) \/ BecomeDue(n)
        PROVE  \/ row'[m] = row[m]
               \/ MayAge(m) /\ \E l \in Leases : row'[m] = [row[m] EXCEPT !.lease = l]
               \/ row'[m] = [row[m] EXCEPT !.due = TRUE]
    <3>1. CASE Age(n)
      <4>1. MayAge(n) /\ \E l \in Leases : row' = [row EXCEPT ![n].lease = l]
        BY <3>1 DEF Age, Leases
      <4>2. PICK l \in Leases : row' = [row EXCEPT ![n].lease = l] BY <4>1
      <4>3. CASE n = m BY <4>1, <4>2, <4>3 DEF TypeOK
      <4>4. CASE n # m BY <4>2, <4>4 DEF TypeOK
      <4> QED BY <4>3, <4>4
    <3>2. CASE BecomeDue(n) BY <3>2 DEF BecomeDue, TypeOK
    <3> QED BY <2>1, <3>1, <3>2
  <2>2. ASSUME NEW n \in Msg, Unsuppress(n) \/ Reconcile(n) \/ CancelPending(n)
                         \/ \E to \in Reasons : Suppress(n, to)
        PROVE  row'[m] = row[m] \/ (RevokeHits(row[m]) /\ row'[m] = RevokePending(row[m]))
    BY <2>2 DEF Unsuppress, Reconcile, CancelPending, Suppress, Store, TypeOK
  <2>3. ASSUME \E c \in Campaign, to \in CampaignMoves : CampaignStatus(c, to)
        PROVE  row'[m] = row[m]
    BY <2>3 DEF CampaignStatus
  <2> QED BY <2>1, <2>2, <2>3 DEF WorldStep
<1>2. CASE row'[m] = row[m] BY <1>j, <1>2 DEF Unmoved, Turn
<1>3. CASE MayAge(m) /\ \E l \in Leases : row'[m] = [row[m] EXCEPT !.lease = l]
  <2>1. /\ row'[m].status = row[m].status /\ row'[m].by = row[m].by
        /\ row'[m].marker = row[m].marker
        /\ row'[m].attempts = row[m].attempts /\ row'[m].amb = row[m].amb
    BY <1>r, <1>3 DEF RowSet, Rows
  <2> QED BY <1>j, <1>3, <2>1 DEF Unmoved, Turn
<1>4. CASE row'[m] = [row[m] EXCEPT !.due = TRUE]
  <2>1. /\ row'[m].status = row[m].status /\ row'[m].by = row[m].by
        /\ row'[m].marker = row[m].marker /\ row'[m].lease = row[m].lease
        /\ row'[m].attempts = row[m].attempts /\ row'[m].amb = row[m].amb
    BY <1>r, <1>4 DEF RowSet, Rows
  <2> QED BY <1>j, <2>1 DEF Unmoved, Turn
<1>5. CASE RevokeHits(row[m]) /\ row'[m] = RevokePending(row[m])
  <2>1. /\ row'[m].status \in {"sent", "failed", "skipped"}
        /\ row'[m].attempts = row[m].attempts /\ row'[m].amb = row[m].amb
    BY <1>5, <1>r, RowColumns
  <2>2. Ended(m) BY <1>j, <1>5, <2>1 DEF RevokeHits, Ended, Charged, Outlived, Owned
  <2> QED BY <1>j, <2>2 DEF Turn
<1> QED BY <1>1, <1>2, <1>3, <1>4, <1>5

LEMMA StepTurns ==
    ASSUME OneLifePerId, OneCopy, TypeOK, [Next]_vars
    PROVE  \A m \in Msg : Turn(m)
<1> SUFFICES ASSUME NEW m \in Msg PROVE Turn(m)
  OBVIOUS
<1>1. CASE UNCHANGED vars
  <2>1. job' = job /\ proc' = proc /\ row' = row BY <1>1 DEF vars
  <2> QED BY <2>1 DEF Turn, LivesOn, Unmoved, JobsKept, ClassOf, Live
<1>2. ASSUME NEW p \in Proc, ProcessStep(p)
      PROVE  Turn(m)
  <2>1. ASSUME NEW c \in Campaign, ClaimCampaign(p, c)
        PROVE  Turn(m)
    <3> DEFINE claimable == {n \in Msg \ NonCampaign : CampaignOf[n] = c /\ ClaimHits(row[n])}
    <3>1. /\ Claim(p, claimable) /\ \A n \in claimable : ClaimHits(row[n])
          /\ proc[p] = "up"
      BY <2>1 DEF ClaimCampaign, ClaimerIdle
    <3> HIDE DEF claimable
    <3> QED BY <3>1, ClaimTurn
  <2>2. CASE ClaimNonCampaign(p)
    <3> DEFINE claimable == {n \in NonCampaign : camp[CampaignOf[n]] # "deleted"
                                                 /\ ClaimHits(row[n])}
    <3>1. /\ Claim(p, claimable) /\ \A n \in claimable : ClaimHits(row[n])
          /\ proc[p] = "up"
      BY <2>2 DEF ClaimNonCampaign, ClaimerIdle
    <3> HIDE DEF claimable
    <3> QED BY <3>1, ClaimTurn
  <2>3. CASE \E s \in Streams : FilterBatch(p, s) \/ DropBatch(p, s)
    BY <2>3, BatchTurn
  <2>4. CASE \E n \in Msg, g \in Gen : WorkerStep(p, n, g)
    BY <2>4, WorkerTurn
  <2>5. CASE HeartbeatTick(p) \/ ReapReleased(p) \/ ReapAmbiguous(p)
    BY <2>5, BackgroundTurn
  <2>6. CASE \/ Start(p) \/ Crash(p) \/ Stop(p)
             \/ ReleaseUnstarted(p) \/ Exit(p) \/ ForcedExit(p)
    BY <2>6, LifeTurn
  <2> QED BY <1>2, <2>1, <2>2, <2>3, <2>4, <2>5, <2>6 DEF ProcessStep
<1>3. CASE WorldStep BY <1>3, WorldTurn
<1> QED BY <1>1, <1>2, <1>3 DEF Next

-----------------------------------------------------------------------------
(* A claim protects its job.                                               *)

\* A live job holds the claim of its row, and the marker says whether it has
\* begun; or its process is draining and has given back what was not begun.
HeldBy(p, m, g) ==
    Owned(row[m], IdOf[p]) /\ (row[m].marker <=> ClassOf(p, m, g) # "before")
LeftBehind(p, m, g) == proc[p] = "draining" /\ ClassOf(p, m, g) = "before"

Held(m) ==
    /\ row[m].status = "pending" => ~row[m].marker
    /\ \A p \in Proc, g \in Gen : Live(p, m, g) =>
          /\ proc[p] \in {"up", "stopping", "draining"}
          /\ HeldBy(p, m, g) \/ LeftBehind(p, m, g)

Single(m) == \A p \in Proc, g, h \in Gen : Live(p, m, g) /\ Live(p, m, h) => g = h

Protected == \A m \in Msg : Held(m) /\ Single(m)

LEMMA SingleParts == OneCopy <=> \A m \in Msg : Single(m)
BY DEF OneCopy, Single, Live

LEMMA HeldStep ==
    ASSUME OneLifePerId, OneCopy, LeaseOutlasts, TypeOK,
           NEW m \in Msg, Held(m), Turn(m)
    PROVE  Held(m)' /\ Single(m)'
<1>l. LivesOn(m) BY DEF Turn
\* What is left behind stays so.
<1>b. ASSUME NEW q \in Proc, NEW h \in Gen, LeftBehind(q, m, h), Live(q, m, h)',
             ClassOf(q, m, h)' = ClassOf(q, m, h)
      PROVE  LeftBehind(q, m, h)'
  BY <1>b, <1>l DEF LeftBehind, LivesOn
<1>a. ASSUME NEW q \in Proc, NEW h \in Gen, Live(q, m, h), Live(q, m, h)'
      PROVE  proc'[q] \in {"up", "stopping", "draining"}
  BY <1>a, <1>l DEF Held, LivesOn
<1>1. CASE Unmoved(m)
  <2>1. ASSUME NEW q \in Proc, NEW h \in Gen, Live(q, m, h)'
        PROVE  Live(q, m, h) /\ ClassOf(q, m, h)' = ClassOf(q, m, h)
    BY <1>1, <2>1 DEF Unmoved, JobsKept, Live
  <2>2. Single(m)' BY <2>1 DEF Single, OneCopy, Live
  <2>3. ASSUME NEW q \in Proc, NEW h \in Gen, Live(q, m, h)', HeldBy(q, m, h)
        PROVE  HeldBy(q, m, h)'
    BY <1>1, <2>1, <2>3 DEF HeldBy, Unmoved, Owned
  <2>4. row'[m].status = "pending" => ~row'[m].marker
    BY <1>1 DEF Unmoved, Held
  <2> QED BY <2>1, <2>2, <2>3, <2>4, <1>a, <1>b DEF Held
<1>2. CASE Ended(m)
  <2>1. ASSUME NEW q \in Proc, NEW h \in Gen, Live(q, m, h)'
        PROVE  Live(q, m, h) /\ ClassOf(q, m, h)' = ClassOf(q, m, h)
    BY <1>2, <2>1 DEF Ended, JobsKept, Live
  <2>2. Single(m)' BY <2>1 DEF Single, OneCopy, Live
  <2>3. ASSUME NEW q \in Proc, NEW h \in Gen, Live(q, m, h)', HeldBy(q, m, h)
        PROVE  LeftBehind(q, m, h)'
    <3>1. Owned(row[m], IdOf[q]) /\ Live(q, m, h) BY <2>1, <2>3 DEF HeldBy
    <3>2. row[m].lease = "fresh" BY <3>1 DEF LeaseOutlasts
    <3>3. proc[q] \notin {"down", "exited"} BY <3>1 DEF Held
    <3>4. proc'[q] = "draining" /\ ~row[m].marker
      BY <1>2, <2>3, <3>1, <3>2, <3>3 DEF Ended, Outlived
    <3>5. ClassOf(q, m, h) = "before" BY <2>3, <3>4 DEF HeldBy
    <3> QED BY <2>1, <2>3, <3>4, <3>5 DEF LeftBehind
  <2>4. row'[m].status = "pending" => ~row'[m].marker
    BY <1>2 DEF Ended
  <2> QED BY <2>1, <2>2, <2>3, <2>4, <1>a, <1>b DEF Held
<1>3. CASE Reserved(m)
  <2>1. PICK p \in Proc, g \in Gen :
          /\ proc[p] = "up" /\ OtherCopies(p, m, g)
          /\ ClassOf(p, m, g)' = "before"
          /\ row[m].status = "pending" /\ row'[m].status = "claimed"
          /\ row'[m].by = IdOf[p] /\ row'[m].marker = row[m].marker
    BY <1>3 DEF Reserved
  <2>2. ASSUME NEW q \in Proc, NEW h \in Gen, Live(q, m, h)', q # p \/ h # g
        PROVE  /\ Live(q, m, h) /\ ClassOf(q, m, h)' = ClassOf(q, m, h)
               /\ LeftBehind(q, m, h) /\ q # p
    <3>1. Live(q, m, h) /\ ClassOf(q, m, h)' = ClassOf(q, m, h)
      BY <2>1, <2>2 DEF OtherCopies, Live, ClassOf
    <3>2. LeftBehind(q, m, h) BY <2>1, <3>1 DEF Held, HeldBy, Owned
    <3> QED BY <2>1, <3>1, <3>2 DEF LeftBehind
  <2>3. HeldBy(p, m, g)' BY <2>1 DEF HeldBy, Owned, Held
  <2>4. proc'[p] \in {"up", "stopping", "draining"} BY <2>1, <1>l DEF LivesOn, Live
  <2>5. Single(m)' BY <2>2 DEF Single, OneCopy, Live
  <2>6. Held(m)' BY <2>1, <2>2, <2>3, <2>4, <1>a, <1>b DEF Held
  <2> QED BY <2>5, <2>6
<1>4. CASE Entered(m)
  <2>1. PICK p \in Proc, g \in Gen :
          /\ OtherCopies(p, m, g)
          /\ Owned(row[m], IdOf[p]) /\ ClassOf(p, m, g) = "before"
          /\ ~Live(p, m, g)' \/ ClassOf(p, m, g)' = "call"
          /\ row'[m].status = "claimed" /\ row'[m].by = row[m].by /\ row'[m].marker
    BY <1>4 DEF Entered
  <2>2. Live(p, m, g) BY <2>1 DEF Live
  <2>3. ASSUME NEW q \in Proc, NEW h \in Gen, Live(q, m, h)', q # p \/ h # g
        PROVE  /\ Live(q, m, h) /\ ClassOf(q, m, h)' = ClassOf(q, m, h)
               /\ LeftBehind(q, m, h) /\ q # p
    <3>1. Live(q, m, h) /\ ClassOf(q, m, h)' = ClassOf(q, m, h)
      BY <2>1, <2>3 DEF OtherCopies, Live, ClassOf
    <3>2. q # p BY <2>2, <2>3, <3>1 DEF OneCopy, Live
    <3>3. ~HeldBy(q, m, h) BY <2>1, <3>2 DEF HeldBy, Owned, OneLifePerId
    <3> QED BY <3>1, <3>2, <3>3 DEF Held
  <2>4. Live(p, m, g)' => HeldBy(p, m, g)' BY <2>1 DEF HeldBy, Owned
  <2>5. Single(m)' BY <2>3 DEF Single, OneCopy, Live
  <2>6. Held(m)' BY <2>1, <2>2, <2>3, <2>4, <1>a, <1>b DEF Held
  <2> QED BY <2>5, <2>6
<1>5. CASE Replied(m)
  <2>1. PICK p \in Proc, g \in Gen :
          /\ OtherCopies(p, m, g) /\ ClassOf(p, m, g) = "call"
          /\ ~Live(p, m, g)' \/ ClassOf(p, m, g)' \in {"ok", "refused"}
    BY <1>5 DEF Replied
  <2>2. row'[m] = row[m] BY <1>5 DEF Replied
  <2>3. ASSUME NEW q \in Proc, NEW h \in Gen, Live(q, m, h)'
        PROVE  /\ Live(q, m, h)
               /\ (q # p \/ h # g) => ClassOf(q, m, h)' = ClassOf(q, m, h)
    BY <2>1, <2>3 DEF OtherCopies, Live, ClassOf
  <2>4. Live(p, m, g)' => HeldBy(p, m, g)'
    <3>1. HeldBy(p, m, g) BY <2>1 DEF Held, Live, LeftBehind
    <3> QED BY <2>1, <2>2, <3>1 DEF HeldBy, Live
  <2>5. Single(m)' BY <2>3 DEF Single, OneCopy, Live
  <2>6. ASSUME NEW q \in Proc, NEW h \in Gen, Live(q, m, h)', q # p \/ h # g, HeldBy(q, m, h)
        PROVE  HeldBy(q, m, h)'
    BY <2>2, <2>3, <2>6 DEF HeldBy
  <2>7. Held(m)' BY <2>2, <2>3, <2>4, <2>6, <1>a, <1>b DEF Held
  <2> QED BY <2>5, <2>7
<1> QED BY <1>1, <1>2, <1>3, <1>4, <1>5 DEF Turn

LEMMA ProtectedInit ==
    ASSUME Init
    PROVE  Protected /\ LeaseOutlasts
<1>1. \A p \in Proc, m \in Msg, g \in Gen : ~Live(p, m, g)
  BY DEF Init, NoJob, Live, ClassOf, Class
<1>2. \A m \in Msg : ~row[m].marker
  BY DEF Init, NewRow
<1> QED BY <1>1, <1>2 DEF Protected, Held, Single, LeaseOutlasts

LEMMA ProtectedStep ==
    ASSUME OneLifePerId, TypeOK, Protected, LeaseOutlasts, [Next]_vars
    PROVE  Protected'
<1>1. OneCopy BY SingleParts DEF Protected
<1>2. \A m \in Msg : Turn(m) BY <1>1, StepTurns
<1>3. \A m \in Msg : Held(m)' /\ Single(m)' BY <1>1, <1>2, HeldStep DEF Protected
<1> QED BY <1>3 DEF Protected

\* While leases outlast jobs every job holds its claim, and no process has two
\* jobs for one message.
THEOREM ClaimsProtect ==
    ASSUME OneLifePerId
    PROVE  Spec /\ []LeaseOutlasts => []Protected
<1>1. Init => Protected BY ProtectedInit
<1>2. TypeOK /\ Protected /\ LeaseOutlasts /\ [Next]_vars => Protected' BY ProtectedStep
<1> QED BY <1>1, <1>2, TypeCorrect, PTL DEF Spec

\* The hypothesis of Accountable, OnceUnlessUnnoticed and Refinement, from the leases.
THEOREM CopiesStayOne ==
    ASSUME OneLifePerId
    PROVE  Spec /\ []LeaseOutlasts => []OneCopy
<1>1. Protected => OneCopy BY SingleParts DEF Protected
<1> QED BY <1>1, ClaimsProtect, PTL

\* Between D1 and D3 of a message there is one worker of one process, and the row says so.
THEOREM OneAtATime ==
    ASSUME OneLifePerId
    PROVE  Spec /\ []LeaseOutlasts => []OneDispatcher
<1>1. Protected => OneDispatcher
  <2> SUFFICES ASSUME Protected, NEW p \in Proc, NEW q \in Proc, NEW m \in Msg,
                      NEW g \in Gen, NEW h \in Gen, Stage(p, m, g) \in {"marked", "done"}
               PROVE  /\ Owned(row[m], IdOf[p]) /\ row[m].marker
                      /\ Stage(q, m, h) \in {"marked", "done"} => p = q /\ g = h
    BY DEF OneDispatcher
  <2>1. ASSUME NEW a \in Proc, NEW b \in Gen, Stage(a, m, b) \in {"marked", "done"}
        PROVE  Live(a, m, b) /\ Owned(row[m], IdOf[a]) /\ row[m].marker
    <3>1. Live(a, m, b) /\ ClassOf(a, m, b) # "before"
      BY <2>1 DEF Live, ClassOf, Class, Stage
    <3>2. HeldBy(a, m, b) BY <3>1 DEF Protected, Held, LeftBehind
    <3> QED BY <3>1, <3>2 DEF HeldBy
  <2>2. Live(p, m, g) /\ Owned(row[m], IdOf[p]) /\ row[m].marker BY <2>1
  <2>3. ASSUME Stage(q, m, h) \in {"marked", "done"} PROVE p = q /\ g = h
    <3>1. Live(q, m, h) /\ Owned(row[m], IdOf[q]) BY <2>1, <2>3
    <3>2. p = q BY <2>2, <3>1 DEF Owned, OneLifePerId
    <3> QED BY <2>2, <3>1, <3>2 DEF Protected, Single
  <2> QED BY <2>2, <2>3
<1> QED BY <1>1, ClaimsProtect, PTL

-----------------------------------------------------------------------------
(* The budget of attempts.                                                 *)

\* A claim or D1 may still follow.
Open(m) == row[m].status = "pending" \/ (row[m].status = "claimed" /\ ~row[m].marker)

\* What a message may spend: a doubt and a message without a boundary count as refunds.
Allowance(m) == MaxAttempts + row[m].amb + unbuilt[m]

\* While a row can still be attempted there is an attempt left; and a job that holds the claim knows how many were spent when it was claimed.
Budgeted(m) ==
    /\ row[m].attempts <= Allowance(m)
    /\ Open(m) => row[m].attempts < Allowance(m)
    /\ \A p \in Proc, g \in Gen :
          Live(p, m, g) /\ Owned(row[m], IdOf[p]) =>
              row[m].attempts
              = job[p][m][g].attempts + (IF ClassOf(p, m, g) = "before" THEN 0 ELSE 1)

\* Refunds are not taken back.
LEMMA UnbuiltGrows ==
    ASSUME TypeOK, [Next]_vars
    PROVE  \A m \in Msg : unbuilt'[m] >= unbuilt[m]
<1>1. ASSUME unbuilt' = unbuilt PROVE \A m \in Msg : unbuilt'[m] >= unbuilt[m]
  BY <1>1 DEF TypeOK
<1>2. ASSUME NEW p \in Proc, NEW n \in Msg, NEW g \in Gen, WriteResult(p, n, g)
      PROVE  \A m \in Msg : unbuilt'[m] >= unbuilt[m]
  BY <1>2 DEF WriteResult, TypeOK
<1>3. ASSUME NEW p \in Proc, NEW n \in Msg, NEW g \in Gen, WorkerStep(p, n, g)
      PROVE  \A m \in Msg : unbuilt'[m] >= unbuilt[m]
  BY <1>1, <1>2, <1>3
  DEF WorkerStep, Pick, HeaderUnreadable, CampaignUnusable, ReleaseOne, ProviderUnusable,
      MarkStarted, MarkMissed, Dispatch, BreakerPause, Cancelled, counts
<1>4. ASSUME NEW p \in Proc, ProcessStep(p)
      PROVE  \A m \in Msg : unbuilt'[m] >= unbuilt[m]
  BY <1>1, <1>3, <1>4
  DEF ProcessStep, ClaimCampaign, ClaimNonCampaign, Claim, FilterBatch, DropBatch,
      HeartbeatTick, ReapReleased, ReapAmbiguous, Start, Crash, Stop,
      ReleaseUnstarted, Exit, ForcedExit, counts
<1>5. CASE WorldStep
  BY <1>1, <1>5
  DEF WorldStep, Age, BecomeDue, Unsuppress, Reconcile, CancelPending, Suppress,
      CampaignStatus, counts
<1>6. CASE UNCHANGED vars BY <1>1, <1>6 DEF vars, counts
<1> QED BY <1>4, <1>5, <1>6 DEF Next

LEMMA BudgetStep ==
    ASSUME OneLifePerId, OneCopy, OneCopy', TypeOK, TypeOK',
           NEW m \in Msg, Accounted(m), Budgeted(m), Turn(m), unbuilt'[m] >= unbuilt[m]
    PROVE  Budgeted(m)'
<1> USE DEF Allowance
<1>t. /\ row[m].attempts \in Nat /\ row'[m].attempts \in Nat
      /\ row[m].amb \in Nat /\ row'[m].amb \in Nat
      /\ unbuilt[m] \in Nat /\ unbuilt'[m] \in Nat /\ unbuilt'[m] >= unbuilt[m]
      /\ MaxAttempts \in Nat \ {0}
      /\ GiveBack(row[m].attempts) \in Nat
  BY OutboxAssumption DEF TypeOK, Rows, OutboxAssumption, GiveBack
<1>j. \A p \in Proc, g \in Gen : job[p][m][g].attempts \in Nat /\ job'[p][m][g].attempts \in Nat
  BY DEF TypeOK, Jobs
<1>1. CASE Unmoved(m)
  <2>1. /\ row'[m].attempts <= Allowance(m)'
        /\ Open(m)' => row'[m].attempts < Allowance(m)'
    BY <1>1, <1>t DEF Unmoved, Budgeted, Open
  <2>2. ASSUME NEW p \in Proc, NEW g \in Gen, Live(p, m, g)', Owned(row'[m], IdOf[p])
        PROVE  row'[m].attempts
               = job'[p][m][g].attempts + (IF ClassOf(p, m, g)' = "before" THEN 0 ELSE 1)
    <3>1. /\ ClassOf(p, m, g)' = ClassOf(p, m, g) /\ Live(p, m, g)
          /\ job'[p][m][g].attempts = job[p][m][g].attempts
      BY <1>1, <2>2 DEF Unmoved, JobsKept, Live
    <3>2. Owned(row[m], IdOf[p]) /\ row'[m].attempts = row[m].attempts
      BY <1>1, <2>2 DEF Unmoved, Owned
    <3> QED BY <3>1, <3>2 DEF Budgeted
  <2> QED BY <2>1, <2>2 DEF Budgeted
<1>2. CASE Ended(m)
  <2>1. \A p \in Proc : ~Owned(row'[m], IdOf[p])
    BY <1>2 DEF Ended, Owned
  <2>2. /\ row'[m].attempts <= Allowance(m)'
        /\ Open(m)' => row'[m].attempts < Allowance(m)'
    <3>1. CASE /\ row'[m].status \in {"sent", "failed", "skipped"}
               /\ row'[m].attempts = row[m].attempts
               /\ row'[m].amb \in {row[m].amb, row[m].amb + 1}
      BY <3>1, <1>t DEF Budgeted, Open
    <3>2. CASE /\ row'[m].attempts = row[m].attempts /\ row'[m].amb = row[m].amb
               /\ row[m].status = "claimed" /\ ~row[m].marker
      BY <3>2, <1>t DEF Budgeted, Open
    <3>3. CASE /\ row'[m].attempts = row[m].attempts /\ row'[m].amb = row[m].amb
               /\ \E q \in Proc, h \in Gen :
                     /\ Owned(row[m], IdOf[q]) /\ ClassOf(q, m, h) = "refused"
                     /\ job[q][m][h].attempts + 1 < MaxAttempts
      <4>1. PICK q \in Proc, h \in Gen :
              /\ Owned(row[m], IdOf[q]) /\ ClassOf(q, m, h) = "refused"
              /\ job[q][m][h].attempts + 1 < MaxAttempts
        BY <3>3
      <4>2. row[m].attempts = job[q][m][h].attempts + 1
        BY <4>1 DEF Budgeted, Live
      <4> QED BY <3>3, <4>1, <4>2, <1>t, <1>j
    <3>4. CASE row'[m].attempts = GiveBack(row[m].attempts) /\ row'[m].amb = row[m].amb
      BY <3>4, <1>t DEF Budgeted, GiveBack
    <3>5. CASE row'[m].attempts = row[m].attempts /\ row'[m].amb = row[m].amb + 1
      BY <3>5, <1>t DEF Budgeted
    <3>6. CASE /\ row'[m].attempts = row[m].attempts /\ row'[m].amb = row[m].amb
               /\ unbuilt'[m] = unbuilt[m] + 1
      BY <3>6, <1>t DEF Budgeted
    <3> QED BY <1>2, <3>1, <3>2, <3>3, <3>4, <3>5, <3>6 DEF Ended, Charged
  <2> QED BY <2>1, <2>2 DEF Budgeted
<1>3. CASE Reserved(m)
  <2>1. PICK p \in Proc, g \in Gen :
          /\ ClassOf(p, m, g)' = "before" /\ job'[p][m][g].attempts = row[m].attempts
          /\ row[m].status = "pending" /\ row'[m].by = IdOf[p]
          /\ row'[m].attempts = row[m].attempts /\ row'[m].amb = row[m].amb
    BY <1>3 DEF Reserved
  <2>2. row[m].attempts < Allowance(m) BY <2>1 DEF Budgeted, Open
  <2>3. ASSUME NEW q \in Proc, NEW h \in Gen, Live(q, m, h)', Owned(row'[m], IdOf[q])
        PROVE  row'[m].attempts
               = job'[q][m][h].attempts + (IF ClassOf(q, m, h)' = "before" THEN 0 ELSE 1)
    <3>1. q = p BY <2>1, <2>3 DEF Owned, OneLifePerId
    <3>2. h = g BY <2>1, <2>3, <3>1 DEF OneCopy, Live
    <3> QED BY <2>1, <3>1, <3>2, <1>t
  <2> QED BY <2>1, <2>2, <2>3, <1>t DEF Budgeted
<1>4. CASE Entered(m)
  <2>1. PICK p \in Proc, g \in Gen :
          /\ OtherCopies(p, m, g)
          /\ Owned(row[m], IdOf[p]) /\ ClassOf(p, m, g) = "before"
          /\ \/ ~Live(p, m, g)'
             \/ /\ ClassOf(p, m, g)' = "call"
                /\ job'[p][m][g].attempts = job[p][m][g].attempts
          /\ row'[m].by = row[m].by /\ row'[m].marker /\ row'[m].status = "claimed"
          /\ row'[m].attempts = row[m].attempts + 1 /\ row'[m].amb = row[m].amb
    BY <1>4 DEF Entered
  <2>2. ~row[m].marker BY <2>1 DEF Accounted
  <2>3. row[m].attempts < Allowance(m) BY <2>1, <2>2 DEF Budgeted, Open, Owned
  <2>4. row[m].attempts = job[p][m][g].attempts BY <2>1, <1>j DEF Budgeted, Live
  <2>5. ASSUME NEW q \in Proc, NEW h \in Gen, Live(q, m, h)', Owned(row'[m], IdOf[q])
        PROVE  row'[m].attempts
               = job'[q][m][h].attempts + (IF ClassOf(q, m, h)' = "before" THEN 0 ELSE 1)
    <3>1. q = p BY <2>1, <2>5 DEF Owned, OneLifePerId
    <3>2. h = g
      <4>1. CASE h # g
        <5>1. Live(p, m, h) BY <2>1, <2>5, <3>1, <4>1 DEF OtherCopies, Live, ClassOf
        <5> QED BY <2>1, <4>1, <5>1 DEF OneCopy, Live
      <4> QED BY <4>1
    <3>3. /\ ClassOf(p, m, g)' = "call"
          /\ job'[p][m][g].attempts = job[p][m][g].attempts
      BY <2>1, <2>5, <3>1, <3>2
    <3> QED BY <2>1, <2>4, <3>1, <3>2, <3>3, <1>t
  <2>6. /\ row'[m].attempts <= Allowance(m)' /\ ~Open(m)'
    BY <2>1, <2>3, <1>t DEF Open
  <2> QED BY <2>5, <2>6 DEF Budgeted
<1>5. CASE Replied(m)
  <2>1. PICK p \in Proc, g \in Gen :
          /\ OtherCopies(p, m, g)
          /\ ClassOf(p, m, g) = "call"
          /\ \/ ~Live(p, m, g)'
             \/ /\ ClassOf(p, m, g)' \in {"ok", "refused"}
                /\ job'[p][m][g].attempts = job[p][m][g].attempts
    BY <1>5 DEF Replied
  <2>2. row'[m] = row[m] BY <1>5 DEF Replied
  <2>3. ASSUME NEW q \in Proc, NEW h \in Gen, Live(q, m, h)', Owned(row'[m], IdOf[q])
        PROVE  row'[m].attempts
               = job'[q][m][h].attempts + (IF ClassOf(q, m, h)' = "before" THEN 0 ELSE 1)
    <3>1. CASE q = p /\ h = g BY <2>1, <2>2, <2>3, <3>1 DEF Budgeted, Live
    <3>2. CASE q # p \/ h # g
      <4>1. job'[q][m][h] = job[q][m][h] BY <2>1, <3>2 DEF OtherCopies
      <4> QED BY <2>2, <2>3, <4>1 DEF Budgeted, Live, ClassOf
    <3> QED BY <3>1, <3>2
  <2> QED BY <2>2, <2>3, <1>t DEF Budgeted, Open
<1> QED BY <1>1, <1>2, <1>3, <1>4, <1>5 DEF Turn

\* A message spends no more than MaxAttempts attempts, and one more for each result that
\* was never recorded and each attempt without a boundary, however late leases run out:
\* retries compare the attempts a job was claimed with, and they are the row's own as
\* long as the job holds the claim.
THEOREM AttemptsAreBounded ==
    ASSUME OneLifePerId
    PROVE  Spec /\ []OneCopy => []AttemptsBound
<1>1. Init => \A m \in Msg : Budgeted(m)
  <2>1. ASSUME Init PROVE \A p \in Proc, m \in Msg, g \in Gen : ~Live(p, m, g)
    BY <2>1 DEF Init, NoJob, Live, ClassOf, Class
  <2>2. ASSUME Init, NEW m \in Msg
        PROVE  row[m].attempts = 0 /\ row[m].amb = 0 /\ unbuilt[m] = 0
    BY <2>2 DEF Init, NewRow
  <2> QED BY <2>1, <2>2, OutboxAssumption DEF Budgeted, Allowance, OutboxAssumption
<1>2. /\ TypeOK /\ TypeOK' /\ OneCopy /\ OneCopy' /\ Accounting
      /\ (\A m \in Msg : Budgeted(m)) /\ [Next]_vars
      => (\A m \in Msg : Budgeted(m))'
  BY StepTurns, AccountingParts, UnbuiltGrows, BudgetStep
<1>3. (\A m \in Msg : Budgeted(m)) => AttemptsBound
  BY DEF Budgeted, Allowance, AttemptsBound
<1> QED BY <1>1, <1>2, <1>3, TypeCorrect, Accountable, PTL DEF Spec

-----------------------------------------------------------------------------
(* Nothing after the final word.                                           *)

LEMMA StrictMove ==
    ASSUME TypeOK, NEW m \in Msg, Kind(m), Held(m), DeliveryMove(m)
    PROVE  \/ promise'[m] = promise[m]
           \/ StrictPromise!Deliver(promise[m], promise'[m])
           \/ StrictPromise!Excuse(promise[m], promise'[m])
           \/ StrictPromise!Settle(promise[m], promise'[m])
<1>1. CASE Answered(m)
  <2>1. PICK p \in Proc, g \in Gen : Stage(p, m, g) = "marked"
    BY <1>1 DEF Answered
  <2>2. ClassOf(p, m, g) = "call" BY <2>1 DEF Stage, ClassOf, Class
  <2>3. Owned(row[m], IdOf[p]) BY <2>2 DEF Held, Live, HeldBy, LeftBehind
  <2>4. promise[m].fate = "open" BY <2>3 DEF promise, Owned
  <2> QED
    BY <2>4
    DEF DeliveryMove, Promise!Deliver, Promise!Excuse, Promise!Settle, Promise!Room,
        StrictPromise!Deliver, StrictPromise!Excuse, StrictPromise!Settle, StrictPromise!Room
<1>2. CASE ~Answered(m)
  <2>1. accepted'[m] = accepted[m]
    BY <1>2 DEF Kind, Idle, Requeued, Claimed, Settled, Doubted, Started, Quiet, SameCounts
  <2>2. promise'[m].copies = promise[m].copies BY <2>1 DEF promise
  <2>3. promise[m].copies \in Nat BY DEF promise, TypeOK
  <2>4. ~Promise!Deliver(promise[m], promise'[m])
    <3>1. promise[m] \in Promise!Promises BY PromiseType
    <3> DEFINE d == promise[m]
    <3>2. d \in Promise!Promises BY <3>1
    <3> HIDE DEF d
    <3>3. /\ [d EXCEPT !.copies = @ + 1].copies = d.copies + 1
          /\ [d EXCEPT !.copies = @ + 1, !.unnoticed = @ + 1].copies = d.copies + 1
      BY <3>2 DEF Promise!Promises
    <3>4. d.copies + 1 # d.copies BY <3>2 DEF Promise!Promises
    <3> QED BY <2>2, <3>3, <3>4 DEF Promise!Deliver, d
  <2> QED
    BY <2>4
    DEF DeliveryMove, Promise!Deliver, Promise!Excuse, Promise!Settle, Promise!Room,
        StrictPromise!Deliver, StrictPromise!Excuse, StrictPromise!Settle, StrictPromise!Room
<1> QED BY <1>1, <1>2

\* While leases outlast jobs the sender implements the stricter reading of Delivery: a
\* copy arrives only while the message is open, never after a final word was said.
THEOREM StrictRefinement ==
    ASSUME OneLifePerId
    PROVE  Spec /\ []LeaseOutlasts => KeepsStrictPromise
<1>1. Init => StrictPromise!DeliveryInit
  <2> SUFFICES ASSUME Init, NEW m \in Msg
               PROVE  [copies |-> accepted[m], unnoticed |-> lost[m], excused |-> Excused(m),
                       fate |-> IF row[m].status \in {"pending", "claimed"} THEN "open"
                                ELSE row[m].status]
                    = [copies |-> 0, unnoticed |-> 0, excused |-> FALSE, fate |-> "open"]
    BY DEF StrictPromise!DeliveryInit, promise
  <2>1. accepted[m] = 0 /\ lost[m] = 0 /\ row[m].status = "pending" /\ row[m].amb = 0
    BY DEF Init, NewRow
  <2>2. Excused(m) = FALSE BY <2>1 DEF Excused
  <2> QED BY <2>1, <2>2
<1>2. ASSUME TypeOK, TypeOK', promise' \in [Msg -> Promise!Promises],
             Accounting, \A m \in Msg : Acknowledged(m), Protected, [Next]_vars
      PROVE  StrictPromise!DeliveryNext
  <2>1. promise' \in [Msg -> StrictPromise!Promises]
    BY <1>2 DEF Promise!Promises, StrictPromise!Promises
  <2>2. \A m \in Msg : Kind(m) BY <1>2, StepKinds
  <2>3. \A m \in Msg : DeliveryMove(m)
    BY <1>2, <2>2, AccountingParts, MoveOfKind
  <2>4. ASSUME NEW m \in Msg
        PROVE  \/ promise'[m] = promise[m]
               \/ StrictPromise!Deliver(promise[m], promise'[m])
               \/ StrictPromise!Excuse(promise[m], promise'[m])
               \/ StrictPromise!Settle(promise[m], promise'[m])
    BY <1>2, <2>2, <2>3, StrictMove DEF Protected
  <2> QED BY <2>1, <2>4 DEF StrictPromise!DeliveryNext
<1>3. /\ TypeOK /\ TypeOK' /\ (promise \in [Msg -> Promise!Promises])'
      /\ Accounting /\ (\A m \in Msg : Acknowledged(m)) /\ Protected /\ [Next]_vars
      => [StrictPromise!DeliveryNext]_promise
  BY <1>2
<1>4. TypeOK => promise \in [Msg -> Promise!Promises]
  BY PromiseType
<1> QED
  BY <1>1, <1>3, <1>4, TypeCorrect, CopiesStayOne, Accountable, AllAcknowledged, ClaimsProtect, PTL
  DEF Spec, KeepsStrictPromise, StrictPromise!DeliverySpec
=============================================================================
