---------------------------- MODULE OutboxProofs ----------------------------
(***************************************************************************)
(* Theorems about Outbox, for every value of its constants.                *)
(***************************************************************************)
EXTENDS Outbox, FiniteSetTheorems, TLAPS

-----------------------------------------------------------------------------
(* The statements of OutboxRow map rows to rows.                           *)

RowSet == Rows(Id, Nat)

LEMMA RowTypes ==
    ASSUME NEW r \in RowSet, NEW policy
    PROVE  /\ \A i \in Id : ClaimBatch(r, i) \in RowSet
           /\ Heartbeat(r) \in RowSet
           /\ Release(r) \in RowSet
           /\ ReaperAmbiguous(r, policy) \in RowSet
           /\ MarkDispatchStarted(r) \in RowSet
           /\ ResultSent(r) \in RowSet
           /\ ResultFailed(r) \in RowSet
           /\ ResultRetry(r) \in RowSet
           /\ ResultFatal(r) \in RowSet
           /\ ResultThrottled(r) \in RowSet
           /\ SkipSuppressed(r) \in RowSet
           /\ RevokePending(r) \in RowSet
<1> USE DEF RowSet, Rows, Statuses, Leases, Errs
<1>0. r.attempts \in Nat /\ r.amb \in Nat /\ r.attempts + 1 \in Nat /\ r.amb + 1 \in Nat
      /\ GiveBack(r.attempts) \in Nat
  BY DEF GiveBack
<1>1. \A i \in Id : ClaimBatch(r, i) \in RowSet BY DEF ClaimBatch
<1>2. Heartbeat(r) \in RowSet BY DEF Heartbeat
<1>3. Release(r) \in RowSet BY DEF Release
<1>4. MarkDispatchStarted(r) \in RowSet BY <1>0 DEF MarkDispatchStarted
<1>5. ReaperAmbiguous(r, policy) \in RowSet BY <1>0 DEF ReaperAmbiguous
<1>6. ResultSent(r) \in RowSet BY DEF ResultSent
<1>7. ResultFailed(r) \in RowSet BY DEF ResultFailed
<1>8. ResultRetry(r) \in RowSet BY DEF ResultRetry
<1>9. ResultFatal(r) \in RowSet BY <1>0, <1>8 DEF ResultFatal
<1>10. SkipSuppressed(r) \in RowSet BY DEF SkipSuppressed
<1>11. RevokePending(r) \in RowSet BY DEF RevokePending
<1>12. ResultThrottled(r) \in RowSet BY <1>9 DEF ResultThrottled
<1> QED BY <1>1, <1>2, <1>3, <1>4, <1>5, <1>6, <1>7, <1>8, <1>9, <1>10, <1>11, <1>12

\* The columns the kinds look at, after each statement.
LEMMA RowEffects ==
    ASSUME NEW r \in RowSet, NEW policy
    PROVE  /\ \A i \in Id : /\ ClaimBatch(r, i).status = "claimed"
                            /\ ClaimBatch(r, i).marker = r.marker /\ ClaimBatch(r, i).amb = r.amb
           /\ /\ Heartbeat(r).status = r.status /\ Heartbeat(r).by = r.by
              /\ Heartbeat(r).marker = r.marker /\ Heartbeat(r).amb = r.amb
           /\ /\ Release(r).status = "pending"
              /\ Release(r).marker = r.marker /\ Release(r).amb = r.amb
           /\ /\ MarkDispatchStarted(r).status = r.status /\ MarkDispatchStarted(r).by = r.by
              /\ MarkDispatchStarted(r).marker /\ MarkDispatchStarted(r).amb = r.amb
           /\ ResultSent(r).status = "sent" /\ ResultSent(r).amb = r.amb
           /\ ResultFailed(r).status = "failed" /\ ResultFailed(r).amb = r.amb
           /\ ResultRetry(r).status = "pending" /\ ~ResultRetry(r).marker /\ ResultRetry(r).amb = r.amb
           /\ ResultFatal(r).status = "pending" /\ ~ResultFatal(r).marker /\ ResultFatal(r).amb = r.amb
           /\ SkipSuppressed(r).status = "skipped" /\ SkipSuppressed(r).amb = r.amb
           /\ RevokePending(r).status = "skipped" /\ RevokePending(r).amb = r.amb
           /\ /\ ReaperAmbiguous(r, policy).status =
                    IF policy = "retry" /\ r.amb = 0 THEN "pending" ELSE "failed"
              /\ ~ReaperAmbiguous(r, policy).marker
              /\ ReaperAmbiguous(r, policy).amb = r.amb + 1
<1> USE DEF RowSet, Rows
<1>1. \A i \in Id : /\ ClaimBatch(r, i).status = "claimed"
                    /\ ClaimBatch(r, i).marker = r.marker /\ ClaimBatch(r, i).amb = r.amb
  BY DEF ClaimBatch
<1>2. /\ Heartbeat(r).status = r.status /\ Heartbeat(r).by = r.by
      /\ Heartbeat(r).marker = r.marker /\ Heartbeat(r).amb = r.amb
  BY DEF Heartbeat
<1>3. Release(r).status = "pending" /\ Release(r).marker = r.marker /\ Release(r).amb = r.amb
  BY DEF Release
<1>4. /\ MarkDispatchStarted(r).status = r.status /\ MarkDispatchStarted(r).by = r.by
      /\ MarkDispatchStarted(r).marker /\ MarkDispatchStarted(r).amb = r.amb
  BY DEF MarkDispatchStarted
<1>5. /\ ResultSent(r).status = "sent" /\ ResultSent(r).amb = r.amb
      /\ ResultFailed(r).status = "failed" /\ ResultFailed(r).amb = r.amb
  BY DEF ResultSent, ResultFailed
<1>6. /\ ResultRetry(r).status = "pending" /\ ~ResultRetry(r).marker /\ ResultRetry(r).amb = r.amb
      /\ ResultFatal(r).status = "pending" /\ ~ResultFatal(r).marker /\ ResultFatal(r).amb = r.amb
  BY DEF ResultRetry, ResultFatal
<1>7. /\ SkipSuppressed(r).status = "skipped" /\ SkipSuppressed(r).amb = r.amb
      /\ RevokePending(r).status = "skipped" /\ RevokePending(r).amb = r.amb
  BY DEF SkipSuppressed, RevokePending
<1>8. /\ ReaperAmbiguous(r, policy).status =
            IF policy = "retry" /\ r.amb = 0 THEN "pending" ELSE "failed"
      /\ ~ReaperAmbiguous(r, policy).marker
      /\ ReaperAmbiguous(r, policy).amb = r.amb + 1
  BY DEF ReaperAmbiguous
<1> QED BY <1>1, <1>2, <1>3, <1>4, <1>5, <1>6, <1>7, <1>8

LEMMA ResultType ==
    ASSUME NEW r \in RowSet, NEW j
    PROVE  Result(j, r) \in RowSet
<1>1. /\ ResultSent(r) \in RowSet /\ ResultFailed(r) \in RowSet /\ ResultRetry(r) \in RowSet
      /\ ResultThrottled(r) \in RowSet /\ ResultFatal(r) \in RowSet
  BY RowTypes
<1> QED BY <1>1 DEF Result

-----------------------------------------------------------------------------
(* What one step can do to one message.                                    *)

\* How far a job has come, as far as the row and the provider can tell.
Class(j) ==
    CASE j.stage \in {"batch", "queued", "picked", "releasing"} -> "before"
      [] j.stage = "marked" -> "call"
      [] j.stage = "done" /\ j.answer = "ok" -> "ok"
      [] j.stage = "done" /\ j.answer # "ok" -> "refused"
      [] OTHER -> "none"

ClassOf(q, m, h) == Class(job[q][m][h])

SameJobs(m) == \A q \in Proc, h \in Gen : job'[q][m][h] = job[q][m][h]
Fades(m) == \A q \in Proc, h \in Gen : ClassOf(q, m, h)' \in {ClassOf(q, m, h), "none"}
SameCounts(m) == accepted'[m] = accepted[m] /\ lost'[m] = lost[m]
Quiet(m) == Fades(m) /\ SameCounts(m)
OtherJobs(p, m, g) ==
    \A q \in Proc, n \in Msg, h \in Gen :
        q # p \/ n # m \/ h # g => job'[q][n][h] = job[q][n][h]

Idle(m) ==
    /\ Quiet(m)
    /\ row'[m].status = row[m].status /\ row'[m].by = row[m].by
    /\ row'[m].marker = row[m].marker /\ row'[m].amb = row[m].amb

\* The row goes back to the queue, for one of three reasons.
MayReturn(m) ==
    \/ ~row[m].marker
    \/ Refused(m)
    \/ \E q \in Proc, h \in Gen : ClassOf(q, m, h) = "before" /\ Owned(row[m], IdOf[q])
Requeued(m) ==
    /\ Quiet(m)
    /\ row[m].status = "claimed" /\ MayReturn(m)
    /\ row'[m].status = "pending" /\ ~row'[m].marker /\ row'[m].amb = row[m].amb

Claimed(m) ==
    /\ SameCounts(m)
    /\ \A q \in Proc, h \in Gen : ClassOf(q, m, h)' \in {ClassOf(q, m, h), "none", "before"}
    /\ row[m].status = "pending" /\ row'[m].status = "claimed"
    /\ row'[m].marker = row[m].marker /\ row'[m].amb = row[m].amb

Settled(m) ==
    /\ Quiet(m)
    /\ row[m].status \in {"pending", "claimed"} /\ row'[m].status \in {"sent", "failed", "skipped"}
    /\ row'[m].amb = row[m].amb
    /\ row'[m].status = "sent" =>
          row[m].status = "claimed" /\ \E q \in Proc, h \in Gen : ClassOf(q, m, h) = "ok"

Doubted(m) ==
    /\ Quiet(m)
    /\ row[m].status = "claimed" /\ row[m].marker
    /\ row'[m].status = IF Policy = "retry" /\ row[m].amb = 0 THEN "pending" ELSE "failed"
    /\ ~row'[m].marker /\ row'[m].amb = row[m].amb + 1

Started(m) ==
    /\ SameCounts(m)
    /\ row[m].status = "claimed" /\ row'[m].status = "claimed"
    /\ row'[m].by = row[m].by /\ row'[m].marker /\ row'[m].amb = row[m].amb
    /\ \E p \in Proc, g \in Gen :
          /\ OtherJobs(p, m, g)
          /\ IdOf[p] = row[m].by
          /\ ClassOf(p, m, g) = "before" /\ ClassOf(p, m, g)' \in {"call", "none"}

Answered(m) ==
    /\ row'[m] = row[m]
    /\ \E p \in Proc, g \in Gen :
          /\ OtherJobs(p, m, g)
          /\ Stage(p, m, g) = "marked"
          /\ \/ /\ ClassOf(p, m, g)' \in {"ok", "none"}
                /\ accepted'[m] = accepted[m] + 1 /\ lost'[m] = lost[m]
             \/ /\ ClassOf(p, m, g)' = "refused"
                /\ accepted'[m] = accepted[m] + 1 /\ lost'[m] = lost[m] + 1
             \/ /\ ClassOf(p, m, g)' \in {"refused", "none"}
                /\ SameCounts(m)

Kind(m) == \/ Idle(m) \/ Requeued(m) \/ Claimed(m) \/ Settled(m)
           \/ Doubted(m) \/ Started(m) \/ Answered(m)

-----------------------------------------------------------------------------
(* Every step is of one of these kinds for every message.                  *)

LEMMA FrameIdle ==
    ASSUME NEW m \in Msg, SameJobs(m), SameCounts(m), row'[m] = row[m]
    PROVE  Kind(m)
BY DEF SameJobs, Fades, Quiet, ClassOf, Idle, Kind

LEMMA SameJobsFade ==
    ASSUME NEW m \in Msg, SameJobs(m)
    PROVE  Fades(m)
BY DEF SameJobs, Fades, ClassOf

LEMMA JobUpdate ==
    ASSUME TypeOK, NEW p \in Proc, NEW m \in Msg, NEW g \in Gen, NEW STATE j,
           job' = [job EXCEPT ![p][m][g] = j]
    PROVE  job'[p][m][g] = j /\ OtherJobs(p, m, g)
BY DEF TypeOK, OtherJobs

\* A worker moves one job, and only the row of its message.
LEMMA OthersIdle ==
    ASSUME TypeOK, NEW p \in Proc, NEW m \in Msg, NEW g \in Gen, OtherJobs(p, m, g),
           \A n \in Msg \ {m} : row'[n] = row[n] /\ SameCounts(n)
    PROVE  \A n \in Msg \ {m} : Kind(n)
<1> SUFFICES ASSUME NEW n \in Msg \ {m} PROVE Kind(n)
  OBVIOUS
<1>1. SameJobs(n) BY DEF OtherJobs, SameJobs
<1> QED BY <1>1, FrameIdle

\* A job that ends or pauses fades, whatever it was.
LEMMA JobFades ==
    ASSUME TypeOK, NEW p \in Proc, NEW m \in Msg, NEW g \in Gen, OtherJobs(p, m, g),
           ClassOf(p, m, g)' \in {ClassOf(p, m, g), "none"}
    PROVE  Fades(m)
BY DEF OtherJobs, Fades, ClassOf

LEMMA JobEnds ==
    ASSUME TypeOK, NEW p \in Proc, NEW m \in Msg, NEW g \in Gen, EndJob(p, m, g)
    PROVE  OtherJobs(p, m, g) /\ ClassOf(p, m, g)' = "none"
<1>1. job' = [job EXCEPT ![p][m][g] = NoJob] BY DEF EndJob
<1>2. job'[p][m][g] = NoJob /\ OtherJobs(p, m, g) BY <1>1, JobUpdate
<1> QED BY <1>2 DEF ClassOf, Class, NoJob

LEMMA JobMoves ==
    ASSUME TypeOK, NEW p \in Proc, NEW m \in Msg, NEW g \in Gen, NEW stage, MoveJob(p, m, g, stage)
    PROVE  OtherJobs(p, m, g) /\ job'[p][m][g] = [job[p][m][g] EXCEPT !.stage = stage]
<1> DEFINE j == [job[p][m][g] EXCEPT !.stage = stage]
<1>1. job' = [job EXCEPT ![p][m][g] = j]
  BY DEF MoveJob
<1> HIDE DEF j
<1>2. job'[p][m][g] = j /\ OtherJobs(p, m, g)
  BY <1>1, JobUpdate
<1> QED BY <1>2 DEF j

\* What a guarded statement on one row may have done.
LEMMA StoreOne ==
    ASSUME TypeOK, NEW m \in Msg, NEW STATE hits, NEW STATE new, MayStore(m, hits, new)
    PROVE  /\ \A n \in Msg \ {m} : row'[n] = row[n]
           /\ row'[m] = row[m] \/ (hits /\ row'[m] = new)
BY DEF TypeOK, MayStore, Store

LEMMA WorkerKinds ==
    ASSUME TypeOK, NEW p \in Proc, NEW m \in Msg, NEW g \in Gen, WorkerStep(p, m, g)
    PROVE  \A n \in Msg : Kind(n)
<1> DEFINE j == job[p][m][g]
<1>r. row[m] \in RowSet
  BY DEF TypeOK, RowSet
<1>s. SUFFICES /\ OtherJobs(p, m, g)
               /\ \A n \in Msg \ {m} : row'[n] = row[n] /\ SameCounts(n)
               /\ Kind(m)
  BY OthersIdle
<1>i. ASSUME OtherJobs(p, m, g), ClassOf(p, m, g)' \in {ClassOf(p, m, g), "none"},
             row'[m] = row[m], SameCounts(m)
      PROVE  Kind(m)
  <2>1. Fades(m) BY <1>i, JobFades
  <2> QED BY <1>i, <2>1 DEF Kind, Idle, Quiet
<1>1. CASE Pick(p, m, g)
  <2>1. MoveJob(p, m, g, "picked") /\ j.stage = "queued"
    BY <1>1 DEF Pick, Stage
  <2>2. OtherJobs(p, m, g) /\ job'[p][m][g] = [j EXCEPT !.stage = "picked"]
    BY <2>1, JobMoves
  <2>3. ClassOf(p, m, g)' = "before" /\ ClassOf(p, m, g) = "before"
    BY <2>1, <2>2 DEF ClassOf, Class, TypeOK, Jobs
  <2>4. row' = row /\ \A n \in Msg : SameCounts(n)
    BY <1>1 DEF Pick, counts, SameCounts
  <2> QED BY <2>2, <2>3, <2>4, <1>i
<1>2. CASE HeaderUnreadable(p, m, g) \/ CampaignUnusable(p, m, g)
  <2>1. MoveJob(p, m, g, "releasing") /\ j.stage = "picked"
    BY <1>2 DEF HeaderUnreadable, CampaignUnusable, Stage
  <2>2. OtherJobs(p, m, g) /\ job'[p][m][g] = [j EXCEPT !.stage = "releasing"]
    BY <2>1, JobMoves
  <2>3. ClassOf(p, m, g)' = "before" /\ ClassOf(p, m, g) = "before"
    BY <2>1, <2>2 DEF ClassOf, Class, TypeOK, Jobs
  <2>4. row' = row /\ \A n \in Msg : SameCounts(n)
    BY <1>2 DEF HeaderUnreadable, CampaignUnusable, counts, SameCounts
  <2> QED BY <2>2, <2>3, <2>4, <1>i
<1>3. CASE ReleaseOne(p, m, g)
  <2>1. OtherJobs(p, m, g) /\ ClassOf(p, m, g)' = "none"
    BY <1>3, JobEnds DEF ReleaseOne
  <2>2. \A n \in Msg : SameCounts(n)
    BY <1>3 DEF ReleaseOne, counts, SameCounts
  <2>3. MayStore(m, ReleaseHits(row[m], IdOf[p]), Release(row[m]))
    BY <1>3 DEF ReleaseOne
  <2>4. /\ \A n \in Msg \ {m} : row'[n] = row[n]
        /\ row'[m] = row[m] \/ (ReleaseHits(row[m], IdOf[p]) /\ row'[m] = Release(row[m]))
    BY <2>3, StoreOne
  <2>5. CASE row'[m] = row[m] BY <2>1, <2>2, <2>4, <2>5, <1>i
  <2>6. CASE ReleaseHits(row[m], IdOf[p]) /\ row'[m] = Release(row[m])
    <3>1. Fades(m) BY <2>1, JobFades
    <3>2. Requeued(m)
      BY <3>1, <2>2, <2>6, <1>r, RowEffects
      DEF Requeued, Quiet, MayReturn, ReleaseHits, Owned
    <3> QED BY <3>2, <2>1, <2>2, <2>4 DEF Kind
  <2> QED BY <2>4, <2>5, <2>6
<1>4. CASE ProviderUnusable(p, m, g)
  <2>1. j.stage = "picked" /\ (MoveJob(p, m, g, "pausing") \/ EndJob(p, m, g))
    BY <1>4 DEF ProviderUnusable, Stage
  <2>3. OtherJobs(p, m, g) /\ ClassOf(p, m, g)' = "none"
    <3>1. CASE MoveJob(p, m, g, "pausing")
      <4>1. OtherJobs(p, m, g) /\ job'[p][m][g] = [j EXCEPT !.stage = "pausing"]
        BY <3>1, JobMoves
      <4> QED BY <4>1 DEF ClassOf, Class, TypeOK, Jobs
    <3> QED BY <2>1, <3>1, JobEnds
  <2>4. ClassOf(p, m, g) = "before"
    BY <2>1 DEF ClassOf, Class
  <2>5. \A n \in Msg : SameCounts(n)
    BY <1>4 DEF ProviderUnusable, counts, SameCounts
  <2>6. MayStore(m, Owned(row[m], IdOf[p]), ResultFatal(row[m]))
    BY <1>4 DEF ProviderUnusable
  <2>7. /\ \A n \in Msg \ {m} : row'[n] = row[n]
        /\ row'[m] = row[m] \/ (Owned(row[m], IdOf[p]) /\ row'[m] = ResultFatal(row[m]))
    BY <2>6, StoreOne
  <2>8. CASE row'[m] = row[m] BY <2>3, <2>5, <2>7, <2>8, <1>i
  <2>9. CASE Owned(row[m], IdOf[p]) /\ row'[m] = ResultFatal(row[m])
    <3>1. Fades(m) BY <2>3, JobFades
    <3>2. Requeued(m)
      BY <3>1, <2>4, <2>5, <2>9, <1>r, RowEffects DEF Requeued, Quiet, MayReturn, Owned
    <3> QED BY <3>2, <2>3, <2>5, <2>7 DEF Kind
  <2> QED BY <2>7, <2>8, <2>9
<1>5. CASE MarkStarted(p, m, g)
  <2>1. /\ j.stage = "picked" /\ Owned(row[m], IdOf[p])
        /\ row' = [row EXCEPT ![m] = MarkDispatchStarted(row[m])]
        /\ MoveJob(p, m, g, "marked") \/ EndJob(p, m, g)
    BY <1>5 DEF MarkStarted, Stage
  <2>2. OtherJobs(p, m, g) /\ ClassOf(p, m, g)' \in {"call", "none"}
    <3>1. CASE MoveJob(p, m, g, "marked")
      <4>1. OtherJobs(p, m, g) /\ job'[p][m][g] = [j EXCEPT !.stage = "marked"]
        BY <3>1, JobMoves
      <4> QED BY <4>1 DEF ClassOf, Class, TypeOK, Jobs
    <3> QED BY <2>1, <3>1, JobEnds
  <2>3. ClassOf(p, m, g) = "before"
    BY <2>1 DEF ClassOf, Class
  <2>4. \A n \in Msg : SameCounts(n)
    BY <1>5 DEF MarkStarted, counts, SameCounts
  <2>5. /\ \A n \in Msg \ {m} : row'[n] = row[n]
        /\ row'[m] = MarkDispatchStarted(row[m])
    BY <2>1 DEF TypeOK
  <2>6. Started(m)
    BY <2>1, <2>2, <2>3, <2>4, <2>5, <1>r, RowEffects DEF Started, Owned
  <2> QED BY <2>2, <2>4, <2>5, <2>6 DEF Kind
<1>6. CASE MarkMissed(p, m, g)
  <2>1. OtherJobs(p, m, g) /\ ClassOf(p, m, g)' = "none"
    BY <1>6, JobEnds DEF MarkMissed
  <2>2. row' = row /\ \A n \in Msg : SameCounts(n)
    BY <1>6 DEF MarkMissed, counts, SameCounts
  <2> QED BY <2>1, <2>2, <1>i
<1>7. CASE Dispatch(p, m, g)
  <2>1. PICK v \in Verdicts :
          /\ job' = [job EXCEPT ![p][m][g] =
                       [@ EXCEPT !.stage = "done", !.answer = IF v = "lost" THEN "retryable" ELSE v]]
          /\ accepted' = [accepted EXCEPT ![m] = IF v \in {"ok", "lost"} THEN @ + 1 ELSE @]
          /\ lost' = [lost EXCEPT ![m] = IF v = "lost" THEN @ + 1 ELSE @]
    BY <1>7 DEF Dispatch
  <2> DEFINE k == [j EXCEPT !.stage = "done", !.answer = IF v = "lost" THEN "retryable" ELSE v]
  <2>2. job' = [job EXCEPT ![p][m][g] = k]
    BY <2>1
  <2>3. k.stage = "done" /\ k.answer = IF v = "lost" THEN "retryable" ELSE v
    BY DEF TypeOK, Jobs
  <2> HIDE DEF k
  <2>4. job'[p][m][g] = k /\ OtherJobs(p, m, g)
    BY <2>2, JobUpdate
  <2>5. ClassOf(p, m, g)' = IF v = "ok" THEN "ok" ELSE "refused"
    BY <2>3, <2>4 DEF ClassOf, Class
  <2>6. j.stage = "marked" /\ row' = row
    BY <1>7 DEF Dispatch, Stage
  <2>7. /\ \A n \in Msg \ {m} : SameCounts(n)
        /\ accepted'[m] = IF v \in {"ok", "lost"} THEN accepted[m] + 1 ELSE accepted[m]
        /\ lost'[m] = IF v = "lost" THEN lost[m] + 1 ELSE lost[m]
    BY <2>1 DEF TypeOK, SameCounts
  <2>8. Answered(m)
    BY <2>4, <2>5, <2>6, <2>7 DEF Answered, SameCounts, Stage
  <2> QED BY <2>4, <2>6, <2>7, <2>8 DEF Kind
<1>8. CASE WriteResult(p, m, g)
  <2>1. j.stage = "done" /\ (MoveJob(p, m, g, "pausing") \/ EndJob(p, m, g))
    BY <1>8 DEF WriteResult, Stage
  <2>2. OtherJobs(p, m, g) /\ ClassOf(p, m, g)' = "none"
    <3>1. CASE MoveJob(p, m, g, "pausing")
      <4>1. OtherJobs(p, m, g) /\ job'[p][m][g] = [j EXCEPT !.stage = "pausing"]
        BY <3>1, JobMoves
      <4> QED BY <4>1 DEF ClassOf, Class, TypeOK, Jobs
    <3> QED BY <2>1, <3>1, JobEnds
  <2>3. \A n \in Msg : SameCounts(n)
    BY <1>8 DEF WriteResult, counts, SameCounts
  <2>4. MayStore(m, Owned(row[m], IdOf[p]), Result(j, row[m]))
    BY <1>8 DEF WriteResult
  <2>5. /\ \A n \in Msg \ {m} : row'[n] = row[n]
        /\ row'[m] = row[m] \/ (Owned(row[m], IdOf[p]) /\ row'[m] = Result(j, row[m]))
    BY <2>4, StoreOne
  <2>6. Fades(m) BY <2>2, JobFades
  <2>7. CASE row'[m] = row[m] BY <2>2, <2>3, <2>5, <2>7, <1>i
  <2>8. CASE Owned(row[m], IdOf[p]) /\ row'[m] = Result(j, row[m])
    <3>1. ASSUME j.answer = "ok" PROVE Kind(m)
      <4>1. row'[m] = ResultSent(row[m]) BY <2>8, <3>1 DEF Result
      <4>2. ClassOf(p, m, g) = "ok" BY <2>1, <3>1 DEF ClassOf, Class
      <4>3. row'[m].status = "sent" /\ row'[m].amb = row[m].amb
        BY <4>1, <1>r, RowEffects
      <4>4. Settled(m) BY <4>2, <4>3, <2>3, <2>6, <2>8 DEF Settled, Quiet, Owned
      <4> QED BY <4>4 DEF Kind
    <3>2. ASSUME j.answer # "ok" PROVE Kind(m)
      <4>1. Refused(m) BY <2>1, <2>8, <3>2 DEF Refused, Owned, Stage
      <4>2. row'[m] \in {ResultRetry(row[m]), ResultFatal(row[m]), ResultFailed(row[m])}
        BY <2>8, <3>2 DEF Result, ResultThrottled
      <4>3. CASE row'[m] = ResultFailed(row[m])
        <5>1. row'[m].status = "failed" /\ row'[m].amb = row[m].amb
          BY <4>3, <1>r, RowEffects
        <5>2. Settled(m) BY <5>1, <2>3, <2>6, <2>8 DEF Settled, Quiet, Owned
        <5> QED BY <5>2 DEF Kind
      <4>4. CASE row'[m] \in {ResultRetry(row[m]), ResultFatal(row[m])}
        <5>1. row'[m].status = "pending" /\ ~row'[m].marker /\ row'[m].amb = row[m].amb
          BY <4>4, <1>r, RowEffects
        <5>2. Requeued(m) BY <4>1, <5>1, <2>3, <2>6, <2>8 DEF Requeued, MayReturn, Quiet, Owned
        <5> QED BY <5>2 DEF Kind
      <4> QED BY <4>2, <4>3, <4>4
    <3>3. Kind(m) BY <3>1, <3>2
    <3> QED BY <3>3, <2>2, <2>3, <2>5
  <2> QED BY <2>5, <2>7, <2>8
<1>9. CASE BreakerPause(p, m, g)
  <2>1. OtherJobs(p, m, g) /\ ClassOf(p, m, g)' = "none"
    BY <1>9, JobEnds DEF BreakerPause
  <2>2. row' = row /\ \A n \in Msg : SameCounts(n)
    BY <1>9 DEF BreakerPause, counts, SameCounts
  <2> QED BY <2>1, <2>2, <1>i
<1>10. CASE Cancelled(p, m, g)
  <2>1. job' = [job EXCEPT ![p][m][g] = NoJob]
    BY <1>10 DEF Cancelled, EndJob
  <2>2. job'[p][m][g] = NoJob /\ OtherJobs(p, m, g)
    BY <2>1, JobUpdate
  <2>3. ClassOf(p, m, g)' = "none"
    BY <2>2 DEF ClassOf, Class, NoJob
  <2>4. row' = row /\ lost' = lost
    BY <1>10 DEF Cancelled
  <2>5. CASE accepted' = accepted
    BY <2>2, <2>3, <2>4, <2>5, <1>i DEF SameCounts
  <2>6. CASE Stage(p, m, g) = "marked" /\ accepted' = [accepted EXCEPT ![m] = @ + 1]
    <3>1. accepted'[m] = accepted[m] + 1 /\ \A n \in Msg \ {m} : SameCounts(n)
      BY <2>4, <2>6 DEF TypeOK, SameCounts
    <3>2. Answered(m) BY <3>1, <2>2, <2>3, <2>4, <2>6 DEF Answered
    <3> QED BY <3>1, <3>2, <2>2, <2>4 DEF Kind
  <2> QED BY <1>10, <2>5, <2>6 DEF Cancelled
<1> QED
  BY <1>1, <1>2, <1>3, <1>4, <1>5, <1>6, <1>7, <1>8, <1>9, <1>10 DEF WorkerStep

LEMMA ClaimKinds ==
    ASSUME TypeOK, NEW p \in Proc, NEW STATE claimable,
           \A n \in claimable : ClaimHits(row[n]), Claim(p, claimable)
    PROVE  \A m \in Msg : Kind(m)
<1> SUFFICES ASSUME NEW m \in Msg PROVE Kind(m)
  OBVIOUS
<1>1. PICK S \in SUBSET claimable : \E g \in [S -> Gen] :
         /\ row' = [n \in Msg |-> IF n \in S THEN ClaimBatch(row[n], IdOf[p]) ELSE row[n]]
         /\ job' = [job EXCEPT ![p] = [n \in Msg |-> [h \in Gen |->
                      IF n \in S /\ h = g[n]
                      THEN [stage |-> "batch", attempts |-> row[n].attempts, answer |-> "none"]
                      ELSE job[p][n][h]]]]
  BY DEF Claim
<1>2. PICK g \in [S -> Gen] :
         /\ row' = [n \in Msg |-> IF n \in S THEN ClaimBatch(row[n], IdOf[p]) ELSE row[n]]
         /\ job' = [job EXCEPT ![p] = [n \in Msg |-> [h \in Gen |->
                      IF n \in S /\ h = g[n]
                      THEN [stage |-> "batch", attempts |-> row[n].attempts, answer |-> "none"]
                      ELSE job[p][n][h]]]]
  BY <1>1
<1>3. SameCounts(m) BY DEF Claim, counts, SameCounts
<1>4. CASE m \in S
  <2>1. row'[m] = ClaimBatch(row[m], IdOf[p]) /\ row[m].status = "pending"
    BY <1>2, <1>4 DEF ClaimHits
  <2>2. ASSUME NEW q \in Proc, NEW h \in Gen
        PROVE  ClassOf(q, m, h)' \in {ClassOf(q, m, h), "none", "before"}
    <3>1. \/ job'[q][m][h] = job[q][m][h]
          \/ job'[q][m][h] = [stage |-> "batch", attempts |-> row[m].attempts, answer |-> "none"]
      BY <1>2 DEF TypeOK
    <3> QED BY <3>1 DEF ClassOf, Class
  <2>3. row[m] \in RowSet /\ IdOf[p] \in Id
    BY OutboxAssumption DEF TypeOK, RowSet, OutboxAssumption
  <2>4. row'[m].status = "claimed" /\ row'[m].marker = row[m].marker /\ row'[m].amb = row[m].amb
    BY <2>1, <2>3, RowEffects
  <2>5. Claimed(m) BY <1>3, <2>1, <2>2, <2>4 DEF Claimed
  <2> QED BY <2>5 DEF Kind
<1>5. CASE m \notin S
  <2>1. row'[m] = row[m] BY <1>2, <1>5
  <2>2. SameJobs(m) BY <1>2, <1>5 DEF TypeOK, SameJobs
  <2> QED BY <1>3, <2>1, <2>2, FrameIdle
<1> QED BY <1>4, <1>5

\* The suppression check: batch jobs stay, or end with a row that may be skipped.
LEMMA BatchKinds ==
    ASSUME TypeOK, NEW p \in Proc, NEW s \in Streams, FilterBatch(p, s) \/ DropBatch(p, s)
    PROVE  \A m \in Msg : Kind(m)
<1> SUFFICES ASSUME NEW m \in Msg PROVE Kind(m)
  OBVIOUS
<1>1. SameCounts(m) BY DEF FilterBatch, DropBatch, counts, SameCounts
<1>2. Fades(m)
  <2> SUFFICES ASSUME NEW q \in Proc, NEW h \in Gen
               PROVE  ClassOf(q, m, h)' \in {ClassOf(q, m, h), "none"}
    BY DEF Fades
  <2>1. \/ job'[q][m][h] = job[q][m][h]
        \/ job'[q][m][h] = NoJob
        \/ /\ job[q][m][h].stage = "batch"
           /\ job'[q][m][h] = [job[q][m][h] EXCEPT !.stage = "queued"]
    <3>1. CASE FilterBatch(p, s)
      <4>1. job' = [job EXCEPT ![p] = [n \in Msg |-> [k \in Gen |->
                 CASE <<n, k>> \notin JobsIn(p, s, {"batch"}) -> job[p][n][k]
                   [] <<n, k>> \in JobsIn(p, s, {"batch"}) /\ ~Kept(n) -> NoJob
                   [] OTHER -> [job[p][n][k] EXCEPT !.stage = "queued"]]]]
        BY <3>1 DEF FilterBatch
      <4>2. <<m, h>> \in JobsIn(p, s, {"batch"}) => job[p][m][h].stage = "batch"
        BY DEF JobsIn, Stage
      <4>3. CASE q = p
        <5>1. job'[p][m][h] =
                 CASE <<m, h>> \notin JobsIn(p, s, {"batch"}) -> job[p][m][h]
                   [] <<m, h>> \in JobsIn(p, s, {"batch"}) /\ ~Kept(m) -> NoJob
                   [] OTHER -> [job[p][m][h] EXCEPT !.stage = "queued"]
          BY <4>1 DEF TypeOK
        <5> QED BY <4>2, <4>3, <5>1
      <4>4. CASE q # p BY <4>1, <4>4 DEF TypeOK
      <4> QED BY <4>3, <4>4
    <3>2. CASE DropBatch(p, s)
      <4>1. job' = [job EXCEPT ![p] = [n \in Msg |-> [k \in Gen |->
                 IF <<n, k>> \in JobsIn(p, s, {"batch"}) THEN NoJob ELSE job[p][n][k]]]]
        BY <3>2 DEF DropBatch
      <4> QED BY <4>1 DEF TypeOK
    <3> QED BY <3>1, <3>2
  <2> QED BY <2>1 DEF ClassOf, Class, NoJob, TypeOK, Jobs
<1>3. row'[m] = row[m] \/ (Owned(row[m], IdOf[p]) /\ row'[m] = SkipSuppressed(row[m]))
  BY DEF FilterBatch, DropBatch
<1>4. CASE row'[m] = row[m] BY <1>1, <1>2, <1>4 DEF Kind, Idle, Quiet
<1>5. CASE Owned(row[m], IdOf[p]) /\ row'[m] = SkipSuppressed(row[m])
  <2>1. row[m] \in RowSet BY DEF TypeOK, RowSet
  <2>2. row'[m].status = "skipped" /\ row'[m].amb = row[m].amb BY <1>5, <2>1, RowEffects
  <2>3. Settled(m) BY <1>1, <1>2, <1>5, <2>2 DEF Settled, Quiet, Owned
  <2> QED BY <2>3 DEF Kind
<1> QED BY <1>3, <1>4, <1>5

LEMMA BackgroundKinds ==
    ASSUME TypeOK, NEW p \in Proc, HeartbeatTick(p) \/ ReapReleased(p) \/ ReapAmbiguous(p)
    PROVE  \A m \in Msg : Kind(m)
<1> SUFFICES ASSUME NEW m \in Msg PROVE Kind(m)
  OBVIOUS
<1>r. row[m] \in RowSet BY DEF TypeOK, RowSet
<1>c. SameJobs(m) /\ SameCounts(m)
  BY DEF HeartbeatTick, ReapReleased, ReapAmbiguous, counts, SameJobs, SameCounts
<1>q. Quiet(m) BY <1>c, SameJobsFade DEF Quiet
<1>1. CASE row'[m] = row[m] BY <1>c, <1>1, FrameIdle
<1>2. CASE HeartbeatTick(p) /\ row'[m] = Heartbeat(row[m])
  <2>1. Idle(m) BY <1>q, <1>r, <1>2, RowEffects DEF Idle
  <2> QED BY <2>1 DEF Kind
<1>3. CASE ReaperReleasedHits(row[m]) /\ row'[m] = Release(row[m])
  <2>1. row[m].status = "claimed" /\ ~row[m].marker BY <1>3 DEF ReaperReleasedHits
  <2>2. row'[m].status = "pending" /\ row'[m].marker = row[m].marker /\ row'[m].amb = row[m].amb
    BY <1>3, <1>r, RowEffects
  <2>3. Requeued(m) BY <1>q, <2>1, <2>2 DEF Requeued, MayReturn
  <2> QED BY <2>3 DEF Kind
<1>4. CASE ReaperAmbiguousHits(row[m]) /\ row'[m] = ReaperAmbiguous(row[m], Policy)
  <2>1. row[m].status = "claimed" /\ row[m].marker BY <1>4 DEF ReaperAmbiguousHits
  <2>2. /\ row'[m].status = IF Policy = "retry" /\ row[m].amb = 0 THEN "pending" ELSE "failed"
        /\ ~row'[m].marker /\ row'[m].amb = row[m].amb + 1
    BY <1>4, <1>r, RowEffects
  <2>3. Doubted(m) BY <1>q, <2>1, <2>2 DEF Doubted
  <2> QED BY <2>3 DEF Kind
<1> QED BY <1>1, <1>2, <1>3, <1>4 DEF HeartbeatTick, ReapReleased, ReapAmbiguous

LEMMA LifeKinds ==
    ASSUME TypeOK, NEW p \in Proc,
           \/ Start(p) \/ Crash(p) \/ Stop(p)
           \/ ReleaseUnstarted(p) \/ Exit(p) \/ ForcedExit(p)
    PROVE  \A m \in Msg : Kind(m)
<1> SUFFICES ASSUME NEW m \in Msg PROVE Kind(m)
  OBVIOUS
<1>r. row[m] \in RowSet BY DEF TypeOK, RowSet
<1>c. SameCounts(m)
  BY DEF Start, Crash, Stop, ReleaseUnstarted, Exit, ForcedExit, counts, SameCounts
<1>1. CASE Start(p) \/ ReleaseUnstarted(p)
  <2>1. SameJobs(m) BY <1>1 DEF Start, ReleaseUnstarted, SameJobs
  <2>2. \/ row'[m] = row[m]
        \/ row[m].status = "claimed" /\ ~row[m].marker /\ row'[m] = Release(row[m])
    BY <1>1 DEF Start, ReleaseUnstarted, RecoveryHits, ReleaseHits, Owned
  <2>3. CASE row'[m] = row[m] BY <1>c, <2>1, <2>3, FrameIdle
  <2>4. CASE row[m].status = "claimed" /\ ~row[m].marker /\ row'[m] = Release(row[m])
    <3>1. row'[m].status = "pending" /\ row'[m].marker = row[m].marker /\ row'[m].amb = row[m].amb
      BY <2>4, <1>r, RowEffects
    <3>2. Requeued(m) BY <1>c, <2>1, <2>4, <3>1, SameJobsFade DEF Requeued, MayReturn, Quiet
    <3> QED BY <3>2 DEF Kind
  <2> QED BY <2>2, <2>3, <2>4
<1>2. CASE Stop(p) \/ Exit(p)
  <2>1. SameJobs(m) /\ row'[m] = row[m] BY <1>2 DEF Stop, Exit, SameJobs
  <2> QED BY <1>c, <2>1, FrameIdle
<1>3. CASE Crash(p) \/ ForcedExit(p)
  <2>1. row'[m] = row[m] /\ job' = [job EXCEPT ![p] = [n \in Msg |-> [g \in Gen |-> NoJob]]]
    BY <1>3 DEF Crash, ForcedExit, ForgetAll
  <2>2. ASSUME NEW q \in Proc, NEW h \in Gen
        PROVE  ClassOf(q, m, h)' \in {ClassOf(q, m, h), "none"}
    <3>1. job'[q][m][h] \in {job[q][m][h], NoJob} BY <2>1 DEF TypeOK
    <3> QED BY <3>1 DEF ClassOf, Class, NoJob
  <2>3. Fades(m) BY <2>2 DEF Fades
  <2> QED BY <1>c, <2>1, <2>3 DEF Kind, Idle, Quiet
<1> QED BY <1>1, <1>2, <1>3

LEMMA WorldKinds ==
    ASSUME TypeOK, WorldStep
    PROVE  \A m \in Msg : Kind(m)
<1> SUFFICES ASSUME NEW m \in Msg PROVE Kind(m)
  OBVIOUS
<1>r. row[m] \in RowSet BY DEF TypeOK, RowSet
<1>c. SameJobs(m) /\ SameCounts(m)
  BY DEF WorldStep, Age, BecomeDue, Unsuppress, Reconcile, CancelPending, Suppress, CampaignStatus, counts,
         SameJobs, SameCounts
<1>q. Quiet(m) BY <1>c, SameJobsFade DEF Quiet
<1>1. \/ row'[m] = row[m]
      \/ \E l \in Leases : row'[m] = [row[m] EXCEPT !.lease = l]
      \/ row'[m] = [row[m] EXCEPT !.due = TRUE]
      \/ RevokeHits(row[m]) /\ row'[m] = RevokePending(row[m])
  <2>1. ASSUME NEW n \in Msg, Age(n) \/ BecomeDue(n)
        PROVE  \/ row'[m] = row[m]
               \/ \E l \in Leases : row'[m] = [row[m] EXCEPT !.lease = l]
               \/ row'[m] = [row[m] EXCEPT !.due = TRUE]
    <3>1. CASE Age(n)
      <4>1. PICK l \in Leases : row' = [row EXCEPT ![n].lease = l]
        BY <3>1 DEF Age, Leases
      <4> QED BY <4>1 DEF TypeOK
    <3>2. CASE BecomeDue(n) BY <3>2 DEF BecomeDue, TypeOK
    <3> QED BY <2>1, <3>1, <3>2
  <2>2. ASSUME NEW n \in Msg, Unsuppress(n) \/ Reconcile(n) \/ CancelPending(n)
                         \/ \E to \in Reasons : Suppress(n, to)
        PROVE  row'[m] = row[m] \/ (RevokeHits(row[m]) /\ row'[m] = RevokePending(row[m]))
    BY <2>2 DEF Unsuppress, Reconcile, CancelPending, Suppress, Store, TypeOK
  <2>3. ASSUME \E c \in Campaign, to \in CampaignMoves : CampaignStatus(c, to)
        PROVE  row'[m] = row[m]
    BY <2>3 DEF CampaignStatus
  <2> QED BY <2>1, <2>2, <2>3 DEF WorldStep
<1>2. CASE row'[m] = row[m] BY <1>c, <1>2, FrameIdle
<1>3. CASE (\E l \in Leases : row'[m] = [row[m] EXCEPT !.lease = l])
           \/ row'[m] = [row[m] EXCEPT !.due = TRUE]
  <2>1. /\ row'[m].status = row[m].status /\ row'[m].by = row[m].by
        /\ row'[m].marker = row[m].marker /\ row'[m].amb = row[m].amb
    BY <1>r, <1>3 DEF RowSet, Rows
  <2> QED BY <1>q, <2>1 DEF Kind, Idle
<1>4. CASE RevokeHits(row[m]) /\ row'[m] = RevokePending(row[m])
  <2>1. row[m].status = "pending" /\ row'[m].status = "skipped" /\ row'[m].amb = row[m].amb
    BY <1>4, <1>r, RowEffects DEF RevokeHits
  <2>2. Settled(m) BY <1>q, <2>1 DEF Settled
  <2> QED BY <2>2 DEF Kind
<1> QED BY <1>1, <1>2, <1>3, <1>4

LEMMA StepKinds ==
    ASSUME TypeOK, [Next]_vars
    PROVE  \A m \in Msg : Kind(m)
<1>1. CASE UNCHANGED vars
  <2>1. \A m \in Msg : SameJobs(m) /\ SameCounts(m) /\ row'[m] = row[m]
    BY <1>1 DEF vars, counts, SameJobs, SameCounts
  <2> QED BY <2>1, FrameIdle
<1>2. ASSUME NEW p \in Proc, ProcessStep(p)
      PROVE  \A m \in Msg : Kind(m)
  <2>1. ASSUME NEW c \in Campaign, ClaimCampaign(p, c)
        PROVE  \A m \in Msg : Kind(m)
    <3> DEFINE claimable == {m \in Msg \ NonCampaign : CampaignOf[m] = c /\ ClaimHits(row[m])}
    <3>1. Claim(p, claimable) /\ \A n \in claimable : ClaimHits(row[n])
      BY <2>1 DEF ClaimCampaign
    <3> HIDE DEF claimable
    <3> QED BY <3>1, ClaimKinds
  <2>2. CASE ClaimNonCampaign(p)
    <3> DEFINE claimable == {m \in NonCampaign : camp[CampaignOf[m]] # "deleted"
                                                 /\ ClaimHits(row[m])}
    <3>1. Claim(p, claimable) /\ \A n \in claimable : ClaimHits(row[n])
      BY <2>2 DEF ClaimNonCampaign
    <3> HIDE DEF claimable
    <3> QED BY <3>1, ClaimKinds
  <2>3. CASE \E s \in Streams : FilterBatch(p, s) \/ DropBatch(p, s)
    BY <2>3, BatchKinds
  <2>4. CASE \E m \in Msg, g \in Gen : WorkerStep(p, m, g)
    BY <2>4, WorkerKinds
  <2>5. CASE HeartbeatTick(p) \/ ReapReleased(p) \/ ReapAmbiguous(p)
    BY <2>5, BackgroundKinds
  <2>6. CASE \/ Start(p) \/ Crash(p) \/ Stop(p)
             \/ ReleaseUnstarted(p) \/ Exit(p) \/ ForcedExit(p)
    BY <2>6, LifeKinds
  <2> QED BY <1>2, <2>1, <2>2, <2>3, <2>4, <2>5, <2>6 DEF ProcessStep
<1>3. CASE WorldStep BY <1>3, WorldKinds
<1> QED BY <1>1, <1>2, <1>3 DEF Next

-----------------------------------------------------------------------------
(* The type invariant.                                                     *)

JobType == job \in [Proc -> [Msg -> [Gen -> Jobs]]]
RowType == row \in [Msg -> RowSet]
InflightType == inflight \in [Proc -> [Msg -> {"absent", "unstarted", "started"}]]

LEMMA StoreType ==
    ASSUME RowType, NEW m \in Msg, NEW STATE hits, NEW STATE new, new \in RowSet,
           MayStore(m, hits, new)
    PROVE  RowType'
BY DEF RowType, MayStore, Store

LEMMA JobUpdateType ==
    ASSUME JobType, NEW p \in Proc, NEW m \in Msg, NEW g \in Gen, NEW STATE j, j \in Jobs,
           job' = [job EXCEPT ![p][m][g] = j]
    PROVE  JobType'
BY DEF JobType

LEMMA MoveJobType ==
    ASSUME JobType, NEW p \in Proc, NEW m \in Msg, NEW g \in Gen, NEW stage \in Stages,
           MoveJob(p, m, g, stage)
    PROVE  JobType'
<1> DEFINE j == [job[p][m][g] EXCEPT !.stage = stage]
<1>1. job' = [job EXCEPT ![p][m][g] = j] BY DEF MoveJob
<1>2. j \in Jobs BY DEF JobType, Jobs
<1> HIDE DEF j
<1> QED BY <1>1, <1>2, JobUpdateType

LEMMA NoJobType == NoJob \in Jobs
BY DEF NoJob, Jobs, Stages, Answers

LEMMA EndJobType ==
    ASSUME JobType, InflightType, NEW p \in Proc, NEW m \in Msg, NEW g \in Gen, EndJob(p, m, g)
    PROVE  JobType' /\ InflightType'
<1>1. JobType' BY NoJobType, JobUpdateType DEF EndJob
<1>2. InflightType' BY DEF EndJob, InflightType
<1> QED BY <1>1, <1>2

LEMMA WorkerType ==
    ASSUME TypeOK, NEW p \in Proc, NEW m \in Msg, NEW g \in Gen, WorkerStep(p, m, g)
    PROVE  TypeOK'
<1>t. /\ RowType /\ JobType /\ InflightType
      /\ camp \in [Campaign -> {"idle", "active", "deleted"}]
      /\ accepted \in [Msg -> Nat] /\ lost \in [Msg -> Nat] /\ unbuilt \in [Msg -> Nat]
  BY DEF TypeOK, RowType, RowSet, JobType, InflightType
<1>r. row[m] \in RowSet BY <1>t DEF RowType
<1>f. UNCHANGED <<suppressed, proc, halts>>
  BY DEF WorkerStep, Pick, HeaderUnreadable, CampaignUnusable, ReleaseOne, ProviderUnusable,
         MarkStarted, MarkMissed, Dispatch, WriteResult, BreakerPause, Cancelled
<1>c. camp' \in [Campaign -> {"idle", "active", "deleted"}]
  BY <1>t DEF WorkerStep, Pick, HeaderUnreadable, CampaignUnusable, ReleaseOne, ProviderUnusable,
         MarkStarted, MarkMissed, Dispatch, WriteResult, BreakerPause, Cancelled, PauseCampaign
<1>s. SUFFICES /\ RowType' /\ JobType' /\ InflightType'
               /\ accepted' \in [Msg -> Nat] /\ lost' \in [Msg -> Nat]
               /\ unbuilt' \in [Msg -> Nat]
  BY <1>f, <1>c DEF TypeOK, RowType, RowSet, JobType, InflightType
<1>u. UNCHANGED counts => /\ accepted' \in [Msg -> Nat] /\ lost' \in [Msg -> Nat]
                          /\ unbuilt' \in [Msg -> Nat]
  BY <1>t DEF counts
<1>w. row' = row => RowType'
  BY <1>t DEF RowType
<1>i. inflight' = inflight => InflightType'
  BY <1>t DEF InflightType
<1>1. CASE Pick(p, m, g)
  <2>1. JobType' BY <1>1, <1>t, MoveJobType DEF Pick, Stages
  <2>2. InflightType' BY <1>1, <1>t DEF Pick, InflightType
  <2> QED BY <1>1, <2>1, <2>2, <1>u, <1>w DEF Pick
<1>2. CASE HeaderUnreadable(p, m, g) \/ CampaignUnusable(p, m, g)
  <2>1. JobType'
    BY <1>2, <1>t, MoveJobType DEF HeaderUnreadable, CampaignUnusable, Stages
  <2> QED BY <1>2, <2>1, <1>u, <1>w, <1>i DEF HeaderUnreadable, CampaignUnusable
<1>3. CASE ReleaseOne(p, m, g)
  <2>1. JobType' /\ InflightType' BY <1>3, <1>t, EndJobType DEF ReleaseOne
  <2>2. RowType' BY <1>3, <1>t, <1>r, RowTypes, StoreType DEF ReleaseOne
  <2> QED BY <1>3, <2>1, <2>2, <1>u DEF ReleaseOne
<1>4. CASE ProviderUnusable(p, m, g)
  <2>1. JobType' /\ InflightType'
    BY <1>4, <1>t, <1>i, EndJobType, MoveJobType DEF ProviderUnusable, Stages
  <2>2. RowType' BY <1>4, <1>t, <1>r, RowTypes, StoreType DEF ProviderUnusable
  <2> QED BY <1>4, <2>1, <2>2, <1>u DEF ProviderUnusable
<1>5. CASE MarkStarted(p, m, g)
  <2>1. CASE MoveJob(p, m, g, "marked")
               /\ inflight' = [inflight EXCEPT ![p][m] = IF @ = "absent" THEN @ ELSE "started"]
    <3>1. JobType' BY <2>1, <1>t, MoveJobType DEF Stages
    <3>2. InflightType' BY <2>1, <1>t DEF InflightType
    <3> QED BY <3>1, <3>2, <1>5, <1>t, <1>r, <1>u, RowTypes DEF MarkStarted, RowType
  <2>2. CASE EndJob(p, m, g)
    <3>1. JobType' /\ InflightType' BY <2>2, <1>t, EndJobType
    <3> QED BY <3>1, <1>5, <1>t, <1>r, <1>u, RowTypes DEF MarkStarted, RowType
  <2> QED BY <1>5, <2>1, <2>2 DEF MarkStarted
<1>6. CASE MarkMissed(p, m, g)
  <2>1. JobType' /\ InflightType' BY <1>6, <1>t, EndJobType DEF MarkMissed
  <2> QED BY <1>6, <2>1, <1>u, <1>w DEF MarkMissed
<1>7. CASE Dispatch(p, m, g)
  <2>1. PICK v \in Verdicts :
          /\ job' = [job EXCEPT ![p][m][g] =
                       [@ EXCEPT !.stage = "done", !.answer = IF v = "lost" THEN "retryable" ELSE v]]
          /\ accepted' = [accepted EXCEPT ![m] = IF v \in {"ok", "lost"} THEN @ + 1 ELSE @]
          /\ lost' = [lost EXCEPT ![m] = IF v = "lost" THEN @ + 1 ELSE @]
    BY <1>7 DEF Dispatch
  <2> DEFINE k == [job[p][m][g] EXCEPT !.stage = "done",
                                       !.answer = IF v = "lost" THEN "retryable" ELSE v]
  <2>2. job' = [job EXCEPT ![p][m][g] = k]
    BY <2>1
  <2>3. k \in Jobs
    <3>1. job[p][m][g] \in Jobs BY <1>t DEF JobType
    <3>2. (IF v = "lost" THEN "retryable" ELSE v) \in Answers
      BY OutboxAssumption DEF OutboxAssumption, Answers
    <3> QED BY <3>1, <3>2 DEF Jobs, Stages
  <2> HIDE DEF k
  <2>4. JobType' BY <2>2, <2>3, <1>t, JobUpdateType
  <2>5. accepted' \in [Msg -> Nat] BY <2>1, <1>t
  <2>6. lost' \in [Msg -> Nat] BY <2>1, <1>t
  <2>7. unbuilt' \in [Msg -> Nat] BY <1>7, <1>t DEF Dispatch
  <2> QED BY <1>7, <2>4, <2>5, <2>6, <2>7, <1>w, <1>i DEF Dispatch
<1>8. CASE WriteResult(p, m, g)
  <2>1. JobType' /\ InflightType'
    BY <1>8, <1>t, <1>i, EndJobType, MoveJobType DEF WriteResult, Stages
  <2> DEFINE new == Result(job[p][m][g], row[m])
  <2>2. new \in RowSet BY <1>r, ResultType
  <2>3. MayStore(m, Owned(row[m], IdOf[p]), new) BY <1>8 DEF WriteResult
  <2> HIDE DEF new
  <2>4. RowType' BY <2>2, <2>3, <1>t, StoreType
  <2>5. unbuilt' \in [Msg -> Nat] BY <1>8, <1>t DEF WriteResult
  <2> QED BY <1>8, <1>t, <2>1, <2>4, <2>5 DEF WriteResult
<1>9. CASE BreakerPause(p, m, g)
  <2>1. JobType' /\ InflightType' BY <1>9, <1>t, EndJobType DEF BreakerPause
  <2> QED BY <1>9, <2>1, <1>u, <1>w DEF BreakerPause
<1>10. CASE Cancelled(p, m, g)
  <2>1. JobType' /\ InflightType'
    BY <1>10, <1>t, <1>i, EndJobType, NoJobType, JobUpdateType DEF Cancelled
  <2>2. accepted' \in [Msg -> Nat] BY <1>10, <1>t DEF Cancelled
  <2>3. lost' \in [Msg -> Nat] BY <1>10, <1>t DEF Cancelled
  <2> QED BY <1>10, <1>t, <2>1, <2>2, <2>3, <1>w DEF Cancelled
<1> QED
  BY <1>1, <1>2, <1>3, <1>4, <1>5, <1>6, <1>7, <1>8, <1>9, <1>10 DEF WorkerStep

LEMMA ClaimType ==
    ASSUME TypeOK, NEW p \in Proc, NEW STATE claimable, claimable \subseteq Msg,
           Claim(p, claimable)
    PROVE  TypeOK'
<1>1. PICK S \in SUBSET claimable : \E g \in [S -> Gen] :
         /\ row' = [n \in Msg |-> IF n \in S THEN ClaimBatch(row[n], IdOf[p]) ELSE row[n]]
         /\ job' = [job EXCEPT ![p] = [n \in Msg |-> [h \in Gen |->
                      IF n \in S /\ h = g[n]
                      THEN [stage |-> "batch", attempts |-> row[n].attempts, answer |-> "none"]
                      ELSE job[p][n][h]]]]
  BY DEF Claim
<1>2. row' \in [Msg -> RowSet]
  <2> SUFFICES ASSUME NEW n \in Msg PROVE ClaimBatch(row[n], IdOf[p]) \in RowSet
    BY <1>1 DEF TypeOK, RowSet
  <2>1. row[n] \in RowSet /\ IdOf[p] \in Id
    BY OutboxAssumption DEF TypeOK, RowSet, OutboxAssumption
  <2> QED BY <2>1, RowTypes
<1>3. \A n \in Msg : [stage |-> "batch", attempts |-> row[n].attempts, answer |-> "none"] \in Jobs
  BY DEF TypeOK, Rows, Jobs, Stages, Answers
<1>4. job' \in [Proc -> [Msg -> [Gen -> Jobs]]]
  <2> HIDE DEF Jobs
  <2> QED BY <1>1, <1>3 DEF TypeOK
<1> QED BY <1>2, <1>4 DEF Claim, TypeOK, RowSet, counts

LEMMA BatchType ==
    ASSUME TypeOK, NEW p \in Proc, NEW s \in Streams, FilterBatch(p, s) \/ DropBatch(p, s)
    PROVE  TypeOK'
<1>1. row' \in [Msg -> RowSet]
  <2>1. \A m \in Msg : row[m] \in RowSet /\ SkipSuppressed(row[m]) \in RowSet
    BY RowTypes DEF TypeOK, RowSet
  <2> QED BY <2>1 DEF FilterBatch, DropBatch
<1>2. job' \in [Proc -> [Msg -> [Gen -> Jobs]]]
  <2>1. NoJob \in Jobs BY NoJobType
  <2>2. \A m \in Msg, g \in Gen : /\ job[p][m][g] \in Jobs
                                  /\ [job[p][m][g] EXCEPT !.stage = "queued"] \in Jobs
    <3>1. \A j \in Jobs : [j EXCEPT !.stage = "queued"] \in Jobs BY DEF Jobs, Stages
    <3> QED BY <3>1 DEF TypeOK
  <2>3. CASE FilterBatch(p, s)
    <3>1. job' = [job EXCEPT ![p] = [n \in Msg |-> [k \in Gen |->
               CASE <<n, k>> \notin JobsIn(p, s, {"batch"}) -> job[p][n][k]
                 [] <<n, k>> \in JobsIn(p, s, {"batch"}) /\ ~Kept(n) -> NoJob
                 [] OTHER -> [job[p][n][k] EXCEPT !.stage = "queued"]]]]
      BY <2>3 DEF FilterBatch
    <3> QED BY <2>1, <2>2, <3>1 DEF TypeOK
  <2>4. CASE DropBatch(p, s) BY <2>1, <2>2, <2>4 DEF DropBatch, TypeOK
  <2> QED BY <2>3, <2>4
<1> QED BY <1>1, <1>2 DEF FilterBatch, DropBatch, TypeOK, RowSet, counts

LEMMA BackgroundType ==
    ASSUME TypeOK, NEW p \in Proc, HeartbeatTick(p) \/ ReapReleased(p) \/ ReapAmbiguous(p)
    PROVE  TypeOK'
<1>1. \A m \in Msg : /\ row[m] \in RowSet /\ Heartbeat(row[m]) \in RowSet
                     /\ Release(row[m]) \in RowSet /\ ReaperAmbiguous(row[m], Policy) \in RowSet
  BY RowTypes DEF TypeOK, RowSet
<1>2. row' \in [Msg -> RowSet]
  BY <1>1 DEF HeartbeatTick, ReapReleased, ReapAmbiguous
<1> QED BY <1>2 DEF HeartbeatTick, ReapReleased, ReapAmbiguous, TypeOK, RowSet, counts

LEMMA LifeType ==
    ASSUME TypeOK, NEW p \in Proc,
           \/ Start(p) \/ Crash(p) \/ Stop(p)
           \/ ReleaseUnstarted(p) \/ Exit(p) \/ ForcedExit(p)
    PROVE  TypeOK'
<1>1. \A m \in Msg : row[m] \in RowSet /\ Release(row[m]) \in RowSet
  BY RowTypes DEF TypeOK, RowSet
<1>2. CASE Start(p) \/ ReleaseUnstarted(p)
  <2>1. row' \in [Msg -> RowSet] BY <1>1, <1>2 DEF Start, ReleaseUnstarted, TypeOK, RowSet
  <2> QED BY <1>2, <2>1 DEF Start, ReleaseUnstarted, TypeOK, RowSet, counts
<1>3. CASE Stop(p) \/ Exit(p)
  <2>1. proc' \in [Proc -> {"down", "up", "stopping", "draining", "exited"}]
    BY <1>3 DEF Stop, Exit, TypeOK
  <2>2. halts' \in Nat BY <1>3 DEF Stop, Exit, TypeOK
  <2> QED BY <1>3, <2>1, <2>2 DEF Stop, Exit, TypeOK, counts
<1>4. CASE Crash(p) \/ ForcedExit(p)
  <2>f. ForgetAll(p) BY <1>4 DEF Crash, ForcedExit
  <2>1. job' \in [Proc -> [Msg -> [Gen -> Jobs]]]
    BY <2>f, NoJobType DEF ForgetAll, TypeOK
  <2>2. inflight' \in [Proc -> [Msg -> {"absent", "unstarted", "started"}]]
    BY <2>f DEF ForgetAll, TypeOK
  <2>3. proc' \in [Proc -> {"down", "up", "stopping", "draining", "exited"}]
    BY <1>4 DEF Crash, ForcedExit, TypeOK
  <2>4. halts' \in Nat BY <1>4 DEF Crash, ForcedExit, TypeOK
  <2>5. UNCHANGED <<row, camp, suppressed, counts>> BY <1>4 DEF Crash, ForcedExit
  <2> QED BY <2>1, <2>2, <2>3, <2>4, <2>5 DEF TypeOK, counts
<1> QED BY <1>2, <1>3, <1>4

LEMMA WorldType ==
    ASSUME TypeOK, WorldStep
    PROVE  TypeOK'
<1>1. ASSUME NEW m \in Msg, Age(m) \/ BecomeDue(m) PROVE TypeOK'
  <2>1. row' \in [Msg -> RowSet]
    <3>1. \A r \in RowSet : /\ \A l \in Leases : [r EXCEPT !.lease = l] \in RowSet
                            /\ [r EXCEPT !.due = TRUE] \in RowSet
      BY DEF RowSet, Rows
    <3>2. row \in [Msg -> RowSet] BY DEF TypeOK, RowSet
    <3>3. CASE Age(m)
      <4>1. PICK l \in Leases : row' = [row EXCEPT ![m].lease = l] BY <3>3 DEF Age, Leases
      <4> QED BY <4>1, <3>1, <3>2
    <3>4. CASE BecomeDue(m) BY <3>1, <3>2, <3>4 DEF BecomeDue
    <3> QED BY <1>1, <3>3, <3>4
  <2> QED BY <1>1, <2>1 DEF Age, BecomeDue, TypeOK, RowSet, counts
<1>2. ASSUME NEW m \in Msg,
             Unsuppress(m) \/ Reconcile(m) \/ CancelPending(m)
                         \/ \E to \in Reasons : Suppress(m, to)
      PROVE  TypeOK'
  <2>1. row[m] \in RowSet /\ RevokePending(row[m]) \in RowSet
    BY RowTypes DEF TypeOK, RowSet
  <2>2. row' \in [Msg -> RowSet]
    BY <1>2, <2>1 DEF Unsuppress, Reconcile, CancelPending, Suppress, Store, TypeOK, RowSet
  <2>3. suppressed' \in [Msg -> {"none", "soft", "hard"}]
    BY <1>2 DEF Unsuppress, Reconcile, CancelPending, Suppress, TypeOK
  <2> QED BY <1>2, <2>2, <2>3 DEF Unsuppress, Reconcile, CancelPending, Suppress, TypeOK, RowSet, counts
<1>3. ASSUME NEW c \in Campaign, NEW to \in CampaignMoves, CampaignStatus(c, to) PROVE TypeOK'
  BY <1>3, OutboxAssumption DEF OutboxAssumption, CampaignStatus, TypeOK, counts
<1> QED BY <1>1, <1>2, <1>3 DEF WorldStep

LEMMA InitType ==
    ASSUME Init
    PROVE  TypeOK
<1>1. NewRow \in RowSet
  BY DEF NewRow, RowSet, Rows, Statuses, Leases, Errs
<1> QED BY <1>1, NoJobType DEF Init, TypeOK, RowSet

LEMMA StepType ==
    ASSUME TypeOK, [Next]_vars
    PROVE  TypeOK'
<1>1. CASE UNCHANGED vars BY <1>1 DEF vars, counts, TypeOK
<1>2. ASSUME NEW p \in Proc, ProcessStep(p) PROVE TypeOK'
  <2>1. ASSUME NEW c \in Campaign, ClaimCampaign(p, c) PROVE TypeOK'
    <3> DEFINE claimable == {m \in Msg \ NonCampaign : CampaignOf[m] = c /\ ClaimHits(row[m])}
    <3>1. Claim(p, claimable) /\ claimable \subseteq Msg BY <2>1 DEF ClaimCampaign
    <3> HIDE DEF claimable
    <3> QED BY <3>1, ClaimType
  <2>2. CASE ClaimNonCampaign(p)
    <3> DEFINE claimable == {m \in NonCampaign : camp[CampaignOf[m]] # "deleted"
                                                 /\ ClaimHits(row[m])}
    <3>1. Claim(p, claimable) /\ claimable \subseteq Msg
      BY <2>2, OutboxAssumption DEF OutboxAssumption, ClaimNonCampaign
    <3> HIDE DEF claimable
    <3> QED BY <3>1, ClaimType
  <2>3. CASE \E s \in Streams : FilterBatch(p, s) \/ DropBatch(p, s)
    BY <2>3, BatchType
  <2>4. CASE \E m \in Msg, g \in Gen : WorkerStep(p, m, g)
    BY <2>4, WorkerType
  <2>5. CASE HeartbeatTick(p) \/ ReapReleased(p) \/ ReapAmbiguous(p)
    BY <2>5, BackgroundType
  <2>6. CASE \/ Start(p) \/ Crash(p) \/ Stop(p)
             \/ ReleaseUnstarted(p) \/ Exit(p) \/ ForcedExit(p)
    BY <2>6, LifeType
  <2> QED BY <1>2, <2>1, <2>2, <2>3, <2>4, <2>5, <2>6 DEF ProcessStep
<1>3. CASE WorldStep BY <1>3, WorldType
<1> QED BY <1>1, <1>2, <1>3 DEF Next

\* Every variable keeps its type in every behaviour; in particular no give-back
\* (GREATEST(attempts - 1, 0)) takes `attempts` out of the naturals.
THEOREM TypeCorrect == Spec => []TypeOK
<1>1. Init => TypeOK BY InitType
<1>2. TypeOK /\ [Next]_vars => TypeOK' BY StepType
<1> QED BY <1>1, <1>2, PTL DEF Spec

-----------------------------------------------------------------------------
(* What holds of one message whatever the processes are called, however    *)
(* late they are and however many copies of the message they hold.         *)

Acknowledged(m) ==
    /\ \A q \in Proc, h \in Gen : ClassOf(q, m, h) = "ok" => accepted[m] > 0
    /\ row[m].status = "sent" => accepted[m] > 0
    /\ row[m].amb > 1 => row[m].status = "failed"

LEMMA AcknowledgedStep ==
    ASSUME TypeOK, TypeOK', NEW m \in Msg, Acknowledged(m), Kind(m)
    PROVE  Acknowledged(m)'
<1>t. /\ row[m].amb \in Nat /\ row'[m].amb \in Nat
      /\ accepted[m] \in Nat /\ accepted'[m] \in Nat
  BY DEF TypeOK, Rows
<1>f. ASSUME Fades(m), SameCounts(m)
      PROVE  \A q \in Proc, h \in Gen : ClassOf(q, m, h)' = "ok" => accepted'[m] > 0
  BY <1>f DEF Fades, SameCounts, Acknowledged
<1>1. CASE Idle(m) BY <1>1, <1>f DEF Idle, Quiet, SameCounts, Acknowledged
<1>2. CASE Requeued(m) BY <1>2, <1>f, <1>t DEF Requeued, Quiet, Acknowledged
<1>3. CASE Claimed(m) BY <1>3, <1>t DEF Claimed, SameCounts, Acknowledged
<1>4. CASE Settled(m) BY <1>4, <1>f, <1>t DEF Settled, Quiet, SameCounts, Acknowledged
<1>5. CASE Doubted(m) BY <1>5, <1>f, <1>t DEF Doubted, Quiet, Acknowledged
<1>6. CASE Started(m)
  <2>1. \A q \in Proc, h \in Gen : ClassOf(q, m, h)' = "ok" => ClassOf(q, m, h) = "ok"
    BY <1>6 DEF Started, OtherJobs, ClassOf
  <2> QED BY <2>1, <1>6, <1>t DEF Started, SameCounts, Acknowledged
<1>7. CASE Answered(m)
  <2>1. PICK p \in Proc, g \in Gen :
          /\ OtherJobs(p, m, g)
          /\ ClassOf(p, m, g)' = "ok" => accepted'[m] = accepted[m] + 1
          /\ accepted'[m] >= accepted[m]
    BY <1>7, <1>t DEF Answered, SameCounts
  <2>2. ASSUME NEW q \in Proc, NEW h \in Gen, ClassOf(q, m, h)' = "ok"
        PROVE  accepted'[m] > 0
    <3>1. CASE q = p /\ h = g BY <2>1, <2>2, <3>1, <1>t
    <3>2. CASE q # p \/ h # g
      <4>1. ClassOf(q, m, h) = "ok" BY <2>1, <2>2, <3>2 DEF OtherJobs, ClassOf
      <4> QED BY <4>1, <2>1, <1>t DEF Acknowledged
    <3> QED BY <3>1, <3>2
  <2> QED BY <2>1, <2>2, <1>7, <1>t DEF Answered, Acknowledged
<1> QED BY <1>1, <1>2, <1>3, <1>4, <1>5, <1>6, <1>7 DEF Kind

\* The inductive part on its own: whatever says 'sent', a row or a job about to write its
\* result, stands for a copy the provider took.
THEOREM AllAcknowledged == Spec => [](\A m \in Msg : Acknowledged(m))
<1>1. Init => \A m \in Msg : Acknowledged(m)
  BY DEF Init, Acknowledged, NewRow, NoJob, ClassOf, Class
<1>2. /\ TypeOK /\ TypeOK' /\ (\A m \in Msg : Acknowledged(m)) /\ [Next]_vars
      => (\A m \in Msg : Acknowledged(m))'
  BY StepKinds, AcknowledgedStep
<1> QED BY <1>1, <1>2, TypeCorrect, PTL DEF Spec

\* A row is 'sent' only of a message the provider has accepted: a process that
\* lost its claim, a reaper or a restart never writes it by mistake.
THEOREM SentIsTrue == Spec => []SentWasAccepted
<1>1. (\A m \in Msg : Acknowledged(m)) => SentWasAccepted
  BY DEF Acknowledged, SentWasAccepted
<1> QED BY <1>1, AllAcknowledged, PTL

\* Reaper B returns a message to the queue at most once in its life, whatever
\* happened to the message and its error code in between.
THEOREM SecondDoubtEnds == Spec => []SecondDoubtIsFinal
<1>1. (\A m \in Msg : Acknowledged(m)) => SecondDoubtIsFinal
  BY DEF Acknowledged, SecondDoubtIsFinal
<1> QED BY <1>1, AllAcknowledged, PTL

\* No statement, however late, moves a row against the table CanTransition.
THEOREM TableKept == Spec => TableRespected
<1>1. ASSUME TypeOK, [Next]_vars, NEW m \in Msg, row'[m].status # row[m].status
      PROVE  CanTransition(row[m].status, row'[m].status, "sender", row[m].err)
  <2>1. Kind(m) BY <1>1, StepKinds
  <2>2. \/ /\ row[m].status = "claimed"
           /\ row'[m].status \in {"pending", "sent", "failed", "skipped"}
        \/ row[m].status = "pending" /\ row'[m].status \in {"claimed", "failed", "skipped"}
    BY <2>1, <1>1
    DEF Kind, Idle, Requeued, Claimed, Settled, Doubted, Started, Answered
  <2> QED BY <2>2 DEF CanTransition
<1>2. TypeOK /\ [Next]_vars
      => [\A m \in Msg : row'[m].status # row[m].status =>
            CanTransition(row[m].status, row'[m].status, "sender", row[m].err)]_vars
  BY <1>1
<1> QED BY <1>2, TypeCorrect, PTL DEF Spec, TableRespected

-----------------------------------------------------------------------------
(* Suppression: the only way beyond the check is through the check.        *)

Beyond == {"queued", "picked", "marked"}

LEMMA JobGone ==
    ASSUME TypeOK, NEW p \in Proc, NEW m \in Msg, NEW g \in Gen,
           job' = [job EXCEPT ![p][m][g] = NoJob]
    PROVE  OtherJobs(p, m, g) /\ job'[p][m][g] = NoJob
BY DEF TypeOK, OtherJobs

LEMMA WorkerBlocked ==
    ASSUME TypeOK, NEW p \in Proc, NEW n \in Msg, NEW g \in Gen, WorkerStep(p, n, g),
           NEW m \in Msg, ~BeyondCheck(m)
    PROVE  accepted'[m] = accepted[m] /\ ~BeyondCheck(m)'
<1>b. \A q \in Proc, h \in Gen : job[q][m][h].stage \notin Beyond
  BY DEF BeyondCheck, Stage, Beyond
<1>0. SUFFICES /\ OtherJobs(p, n, g)
               /\ n = m => job'[p][m][g].stage \notin Beyond
               /\ accepted'[m] = accepted[m]
  BY <1>b DEF OtherJobs, BeyondCheck, Stage, Beyond
<1>1. CASE Pick(p, n, g)
  <2>1. OtherJobs(p, n, g) BY <1>1, JobMoves DEF Pick
  <2> QED BY <1>1, <2>1, <1>b DEF Pick, Stage, Beyond, counts
<1>2. CASE HeaderUnreadable(p, n, g) \/ CampaignUnusable(p, n, g)
  <2>1. OtherJobs(p, n, g) BY <1>2, JobMoves DEF HeaderUnreadable, CampaignUnusable
  <2> QED BY <1>2, <2>1, <1>b DEF HeaderUnreadable, CampaignUnusable, Stage, Beyond, counts
<1>3. CASE ReleaseOne(p, n, g) \/ MarkMissed(p, n, g) \/ BreakerPause(p, n, g)
  <2>1. EndJob(p, n, g) /\ accepted' = accepted
    BY <1>3 DEF ReleaseOne, MarkMissed, BreakerPause, counts
  <2>2. OtherJobs(p, n, g) /\ job'[p][n][g] = NoJob BY <2>1, JobGone DEF EndJob
  <2> QED BY <2>1, <2>2 DEF NoJob, Beyond
<1>4. CASE ProviderUnusable(p, n, g) \/ WriteResult(p, n, g)
  <2>1. (MoveJob(p, n, g, "pausing") \/ EndJob(p, n, g)) /\ accepted' = accepted
    BY <1>4 DEF ProviderUnusable, WriteResult, counts
  <2>2. CASE MoveJob(p, n, g, "pausing")
    <3>1. OtherJobs(p, n, g) /\ job'[p][n][g] = [job[p][n][g] EXCEPT !.stage = "pausing"]
      BY <2>2, JobMoves
    <3> QED BY <2>1, <3>1 DEF Beyond, TypeOK, Jobs
  <2>3. CASE EndJob(p, n, g)
    <3>1. OtherJobs(p, n, g) /\ job'[p][n][g] = NoJob BY <2>3, JobGone DEF EndJob
    <3> QED BY <2>1, <3>1 DEF NoJob, Beyond
  <2> QED BY <2>1, <2>2, <2>3
<1>5. CASE MarkStarted(p, n, g)
  <2>1. n # m BY <1>5, <1>b DEF MarkStarted, Stage, Beyond
  <2>2. OtherJobs(p, n, g) BY <1>5, JobMoves, JobEnds DEF MarkStarted
  <2> QED BY <1>5, <2>1, <2>2 DEF MarkStarted, counts
<1>6. CASE Dispatch(p, n, g)
  <2>1. n # m BY <1>6, <1>b DEF Dispatch, Stage, Beyond
  <2>2. PICK v \in Verdicts :
          /\ job' = [job EXCEPT ![p][n][g] =
                       [@ EXCEPT !.stage = "done", !.answer = IF v = "lost" THEN "retryable" ELSE v]]
          /\ accepted' = [accepted EXCEPT ![n] = IF v \in {"ok", "lost"} THEN @ + 1 ELSE @]
    BY <1>6 DEF Dispatch
  <2>3. OtherJobs(p, n, g) BY <2>2 DEF OtherJobs, TypeOK
  <2> QED BY <2>1, <2>2, <2>3 DEF TypeOK
<1>7. CASE Cancelled(p, n, g)
  <2>1. job' = [job EXCEPT ![p][n][g] = NoJob] BY <1>7 DEF Cancelled, EndJob
  <2>2. OtherJobs(p, n, g) /\ job'[p][n][g] = NoJob BY <2>1, JobGone
  <2>3. accepted'[m] = accepted[m]
    BY <1>7, <1>b DEF Cancelled, Stage, Beyond, TypeOK
  <2> QED BY <2>2, <2>3 DEF NoJob, Beyond
<1> QED BY <1>1, <1>2, <1>3, <1>4, <1>5, <1>6, <1>7 DEF WorkerStep

LEMMA BatchBlocked ==
    ASSUME TypeOK, NEW p \in Proc, NEW s \in Streams, FilterBatch(p, s) \/ DropBatch(p, s),
           NEW m \in Msg, Blocks(m), ~BeyondCheck(m)
    PROVE  accepted'[m] = accepted[m] /\ ~BeyondCheck(m)'
<1>b. \A q \in Proc, h \in Gen : job[q][m][h].stage \notin Beyond
  BY DEF BeyondCheck, Stage, Beyond
<1>1. \A q \in Proc, h \in Gen : job'[q][m][h] \in {job[q][m][h], NoJob}
  <2>1. CASE FilterBatch(p, s)
    <3>1. job' = [job EXCEPT ![p] = [n \in Msg |-> [k \in Gen |->
               CASE <<n, k>> \notin JobsIn(p, s, {"batch"}) -> job[p][n][k]
                 [] <<n, k>> \in JobsIn(p, s, {"batch"}) /\ ~Kept(n) -> NoJob
                 [] OTHER -> [job[p][n][k] EXCEPT !.stage = "queued"]]]]
      BY <2>1 DEF FilterBatch
    <3>2. ~Kept(m) BY DEF Kept
    <3> QED BY <3>1, <3>2 DEF TypeOK
  <2>2. CASE DropBatch(p, s)
    <3>1. job' = [job EXCEPT ![p] = [n \in Msg |-> [k \in Gen |->
               IF <<n, k>> \in JobsIn(p, s, {"batch"}) THEN NoJob ELSE job[p][n][k]]]]
      BY <2>2 DEF DropBatch
    <3> QED BY <3>1 DEF TypeOK
  <2> QED BY <2>1, <2>2
<1>2. \A q \in Proc, h \in Gen : job'[q][m][h].stage \notin Beyond
  BY <1>1, <1>b DEF NoJob, Beyond
<1> QED BY <1>2 DEF BeyondCheck, Stage, Beyond, FilterBatch, DropBatch, counts

LEMMA OthersBlocked ==
    ASSUME TypeOK, NEW m \in Msg, ~BeyondCheck(m), accepted' = accepted,
           \A q \in Proc, h \in Gen : \/ job'[q][m][h] = job[q][m][h]
                                      \/ job'[q][m][h].stage \notin Beyond
    PROVE  accepted'[m] = accepted[m] /\ ~BeyondCheck(m)'
BY DEF BeyondCheck, Stage, Beyond

LEMMA ClaimBlocked ==
    ASSUME TypeOK, NEW p \in Proc, NEW STATE claimable, Claim(p, claimable),
           NEW m \in Msg, ~BeyondCheck(m)
    PROVE  accepted'[m] = accepted[m] /\ ~BeyondCheck(m)'
<1>1. ASSUME NEW q \in Proc, NEW h \in Gen
      PROVE  job'[q][m][h] = job[q][m][h] \/ job'[q][m][h].stage \notin Beyond
  <2>1. PICK S \in SUBSET claimable : \E g \in [S -> Gen] :
           job' = [job EXCEPT ![p] = [n \in Msg |-> [k \in Gen |->
                      IF n \in S /\ k = g[n]
                      THEN [stage |-> "batch", attempts |-> row[n].attempts, answer |-> "none"]
                      ELSE job[p][n][k]]]]
    BY DEF Claim
  <2>2. \/ job'[q][m][h] = job[q][m][h]
        \/ job'[q][m][h] = [stage |-> "batch", attempts |-> row[m].attempts, answer |-> "none"]
    BY <2>1 DEF TypeOK
  <2> QED BY <2>2 DEF Beyond
<1> QED BY <1>1, OthersBlocked DEF Claim, counts

\* Once the recipient is blocked and the jobs that had passed the check are
\* gone, no copy is handed over while the block lasts: retries, give-backs,
\* reapers and restarts all bring the message before FilterSuppressed again.
THEOREM BlockHolds == Spec => BlockedStaysUnsent
<1>1. ASSUME TypeOK, [Next]_vars, NEW m \in Msg, Blocks(m), ~BeyondCheck(m)
      PROVE  accepted'[m] = accepted[m] /\ ~BeyondCheck(m)'
  <2>1. CASE UNCHANGED vars
    BY <1>1, <2>1, OthersBlocked DEF vars, counts
  <2>2. ASSUME NEW p \in Proc, ProcessStep(p)
        PROVE  accepted'[m] = accepted[m] /\ ~BeyondCheck(m)'
    <3>1. CASE (\E c \in Campaign : ClaimCampaign(p, c)) \/ ClaimNonCampaign(p)
      BY <1>1, <3>1, ClaimBlocked DEF ClaimCampaign, ClaimNonCampaign
    <3>2. CASE \E s \in Streams : FilterBatch(p, s) \/ DropBatch(p, s)
      BY <1>1, <3>2, BatchBlocked
    <3>3. CASE \E n \in Msg, g \in Gen : WorkerStep(p, n, g)
      BY <1>1, <3>3, WorkerBlocked
    <3>4. CASE \/ HeartbeatTick(p) \/ ReapReleased(p) \/ ReapAmbiguous(p)
               \/ Start(p) \/ Stop(p) \/ ReleaseUnstarted(p) \/ Exit(p)
      <4>1. accepted' = accepted /\ job' = job
        BY <3>4 DEF HeartbeatTick, ReapReleased, ReapAmbiguous, Start, Stop, ReleaseUnstarted,
                    Exit, counts
      <4> QED BY <1>1, <4>1, OthersBlocked
    <3>5. CASE Crash(p) \/ ForcedExit(p)
      <4>1. /\ accepted' = accepted
            /\ job' = [job EXCEPT ![p] = [n \in Msg |-> [g \in Gen |-> NoJob]]]
        BY <3>5 DEF Crash, ForcedExit, ForgetAll, counts
      <4>2. ASSUME NEW q \in Proc, NEW h \in Gen
            PROVE  job'[q][m][h] = job[q][m][h] \/ job'[q][m][h].stage \notin Beyond
        <5>1. job'[q][m][h] \in {job[q][m][h], NoJob} BY <1>1, <4>1 DEF TypeOK
        <5> QED BY <5>1 DEF NoJob, Beyond
      <4> QED BY <1>1, <4>1, <4>2, OthersBlocked
    <3> QED BY <2>2, <3>1, <3>2, <3>3, <3>4, <3>5 DEF ProcessStep
  <2>3. CASE WorldStep
    <3>1. accepted' = accepted /\ job' = job
      BY <2>3 DEF WorldStep, Age, BecomeDue, Unsuppress, Reconcile, CancelPending, Suppress, CampaignStatus, counts
    <3> QED BY <1>1, <3>1, OthersBlocked
  <2> QED BY <1>1, <2>1, <2>2, <2>3 DEF Next
<1>2. TypeOK /\ [Next]_vars
      => [\A m \in Msg : Blocks(m) /\ ~BeyondCheck(m) =>
            accepted'[m] = accepted[m] /\ ~BeyondCheck(m)']_vars
  BY <1>1
<1> QED BY <1>2, TypeCorrect, PTL DEF Spec, BlockedStaysUnsent

-----------------------------------------------------------------------------
(* At most one copy, apart from those that are accounted for.              *)
(*                                                                         *)
(* Two conditions, which the code asks of its environment and does not     *)
(* enforce: no two processes run under one SENDER_ID, and no process       *)
(* claims a message again while an earlier claim of it is still with it.   *)

OneLifePerId == \A p, q \in Proc : IdOf[p] = IdOf[q] => p = q
OneCopy ==
    \A p \in Proc, m \in Msg, g, h \in Gen :
        ClassOf(p, m, g) # "none" /\ ClassOf(p, m, h) # "none" => g = h

Accounted(m) ==
    /\ accepted[m] + Cardinality(Calling(m)) + (IF Retryable(m) THEN 1 ELSE 0) <= Room(m)
    /\ row[m].status = "pending" => ~row[m].marker
    /\ \A p \in Proc, g \in Gen :
          ClassOf(p, m, g) = "before" /\ Owned(row[m], IdOf[p]) => ~row[m].marker

LEMMA ClassMeaning ==
    ASSUME NEW j
    PROVE  /\ Class(j) = "before" <=> j.stage \in {"batch", "queued", "picked", "releasing"}
           /\ Class(j) = "call" <=> j.stage = "marked"
           /\ Class(j) = "refused" <=> j.stage = "done" /\ j.answer # "ok"
BY DEF Class

LEMMA AccountingParts == Accounting <=> \A m \in Msg : Accounted(m)
<1>1. \A p \in Proc, m \in Msg, g \in Gen :
        ClassOf(p, m, g) = "before" <=> Stage(p, m, g) \in {"batch", "queued", "picked", "releasing"}
  BY ClassMeaning DEF ClassOf, Stage
<1> QED BY <1>1 DEF Accounting, Accounted

\* The calls of a message before and after a step.
LEMMA Calls ==
    ASSUME NEW m \in Msg
    PROVE  /\ Calling(m) = {p \in Proc : \E g \in Gen : ClassOf(p, m, g) = "call"}
           /\ Calling(m)' = {p \in Proc : \E g \in Gen : ClassOf(p, m, g)' = "call"}
           /\ Cardinality(Calling(m)) \in Nat /\ Cardinality(Calling(m)') \in Nat
           /\ Calling(m)' \subseteq Calling(m)
              => Cardinality(Calling(m)') <= Cardinality(Calling(m))
           /\ \A p \in Proc : p \notin Calling(m) /\ Calling(m)' \subseteq Calling(m) \cup {p}
              => Cardinality(Calling(m)') <= Cardinality(Calling(m)) + 1
           /\ \A p \in Proc : p \in Calling(m) /\ Calling(m)' \subseteq Calling(m) \ {p}
              => Cardinality(Calling(m)') <= Cardinality(Calling(m)) - 1
<1>1. Calling(m) = {p \in Proc : \E g \in Gen : ClassOf(p, m, g) = "call"}
  BY ClassMeaning DEF Calling, ClassOf, Stage
<1>2. Calling(m)' = {p \in Proc : \E g \in Gen : ClassOf(p, m, g)' = "call"}
  BY ClassMeaning DEF Calling, ClassOf, Stage
<1>3. IsFiniteSet(Calling(m)) /\ IsFiniteSet(Calling(m)')
  <2>1. IsFiniteSet(Proc) BY OutboxAssumption DEF OutboxAssumption
  <2> QED BY <1>1, <1>2, <2>1, FS_Subset
<1> DEFINE S == Calling(m)
           T == Calling(m)'
<1> HIDE DEF S, T
<1>4. IsFiniteSet(S) /\ IsFiniteSet(T) BY <1>3 DEF S, T
<1>5. Cardinality(S) \in Nat /\ Cardinality(T) \in Nat BY <1>4, FS_CardinalityType
<1>6. T \subseteq S => Cardinality(T) <= Cardinality(S) BY <1>4, FS_Subset
<1>7. ASSUME NEW p \in Proc, p \notin S, T \subseteq S \cup {p}
      PROVE  Cardinality(T) <= Cardinality(S) + 1
  <2>1. IsFiniteSet(S \cup {p}) /\ Cardinality(S \cup {p}) = Cardinality(S) + 1
    BY <1>4, <1>7, FS_AddElement
  <2> QED BY <2>1, <1>7, FS_Subset
<1>8. ASSUME NEW p \in Proc, p \in S, T \subseteq S \ {p}
      PROVE  Cardinality(T) <= Cardinality(S) - 1
  <2>1. IsFiniteSet(S \ {p}) /\ Cardinality(S \ {p}) = Cardinality(S) - 1
    BY <1>4, <1>8, FS_RemoveElement
  <2> QED BY <2>1, <1>8, FS_Subset
<1> QED BY <1>1, <1>2, <1>5, <1>6, <1>7, <1>8 DEF S, T

LEMMA FadingCalls ==
    ASSUME NEW m \in Msg,
           \A q \in Proc, h \in Gen : ClassOf(q, m, h)' \in {ClassOf(q, m, h), "none", "before"}
    PROVE  Cardinality(Calling(m)') <= Cardinality(Calling(m))
<1>1. Calling(m)' \subseteq Calling(m) BY Calls
<1> QED BY <1>1, Calls

LEMMA RefusedClass ==
    ASSUME NEW m \in Msg
    PROVE  /\ Refused(m) <=> \E p \in Proc, g \in Gen :
                                IdOf[p] = row[m].by /\ ClassOf(p, m, g) = "refused"
           /\ Refused(m)' <=> \E p \in Proc, g \in Gen :
                                IdOf[p] = row'[m].by /\ ClassOf(p, m, g)' = "refused"
BY ClassMeaning DEF Refused, ClassOf, Stage

LEMMA AccountedStep ==
    ASSUME OneLifePerId, OneCopy, OneCopy', TypeOK, TypeOK',
           NEW m \in Msg, Accounted(m), Kind(m)
    PROVE  Accounted(m)'
<1> DEFINE n == Cardinality(Calling(m))
           nn == Cardinality(Calling(m)')
<1>t. /\ row[m].amb \in Nat /\ row'[m].amb \in Nat
      /\ accepted[m] \in Nat /\ accepted'[m] \in Nat
      /\ lost[m] \in Nat /\ lost'[m] \in Nat
      /\ row[m].marker \in BOOLEAN /\ row'[m].marker \in BOOLEAN
  BY DEF TypeOK, Rows
<1>n. n \in Nat /\ nn \in Nat
  BY Calls
<1>a. accepted[m] + n + (IF Retryable(m) THEN 1 ELSE 0) <= Room(m)
  BY DEF Accounted
<1>r. /\ Room(m) = 1 + lost[m] + (IF Policy = "retry" /\ row[m].amb > 0 THEN 1 ELSE 0)
      /\ Room(m)' = 1 + lost'[m] + (IF Policy = "retry" /\ row'[m].amb > 0 THEN 1 ELSE 0)
  BY DEF Room, Excused, Policy
<1>s. SUFFICES /\ accepted'[m] + nn + (IF Retryable(m)' THEN 1 ELSE 0) <= Room(m)'
               /\ row'[m].status = "pending" => ~row'[m].marker
               /\ \A p \in Proc, g \in Gen :
                    ClassOf(p, m, g)' = "before" /\ Owned(row'[m], IdOf[p]) => ~row'[m].marker
  BY DEF Accounted
<1> HIDE DEF n, nn
<1>f. ASSUME Fades(m)
      PROVE  nn <= n
  BY <1>f, FadingCalls DEF Fades, n, nn
<1>1. CASE Idle(m)
  <2>1. nn <= n BY <1>1, <1>f DEF Idle, Quiet
  <2>2. Refused(m)' => Refused(m)
    BY <1>1, RefusedClass DEF Idle, Quiet, Fades
  <2>3. Retryable(m)' => Retryable(m)
    BY <1>1, <2>2 DEF Retryable, Idle
  <2>4. accepted'[m] + nn + (IF Retryable(m)' THEN 1 ELSE 0) <= Room(m)'
    <3>1. Room(m)' = Room(m) /\ accepted'[m] = accepted[m]
      BY <1>1, <1>r DEF Idle, Quiet, SameCounts
    <3> QED BY <2>1, <2>3, <3>1, <1>a, <1>n, <1>t, <1>r
  <2> QED BY <1>1, <2>4 DEF Accounted, Idle, Quiet, Fades, Owned
<1>2. CASE Requeued(m)
  <2>1. nn <= n BY <1>2, <1>f DEF Requeued, Quiet
  <2>2. Retryable(m)
    BY <1>2 DEF Requeued, MayReturn, Retryable, Accounted
  <2>3. Room(m)' = Room(m) /\ accepted'[m] = accepted[m]
    BY <1>2, <1>r DEF Requeued, Quiet, SameCounts
  <2>4. accepted'[m] + nn + (IF Retryable(m)' THEN 1 ELSE 0) <= Room(m)'
    BY <2>1, <2>2, <2>3, <1>a, <1>n, <1>t, <1>r
  <2> QED BY <1>2, <2>4 DEF Requeued, Owned
<1>3. CASE Claimed(m)
  <2>1. nn <= n BY <1>3, FadingCalls DEF Claimed, n, nn
  <2>2. Retryable(m) /\ ~row'[m].marker
    BY <1>3 DEF Claimed, Retryable, Accounted
  <2>3. Room(m)' = Room(m) /\ accepted'[m] = accepted[m]
    BY <1>3, <1>r DEF Claimed, SameCounts
  <2>4. accepted'[m] + nn + (IF Retryable(m)' THEN 1 ELSE 0) <= Room(m)'
    BY <2>1, <2>2, <2>3, <1>a, <1>n, <1>t, <1>r
  <2> QED BY <2>2, <2>4
<1>4. CASE Settled(m)
  <2>1. nn <= n BY <1>4, <1>f DEF Settled, Quiet
  <2>2. ~Retryable(m)' /\ row'[m].status \notin {"pending", "claimed"}
    BY <1>4 DEF Settled, Retryable
  <2>3. Room(m)' = Room(m) /\ accepted'[m] = accepted[m]
    BY <1>4, <1>r DEF Settled, Quiet, SameCounts
  <2>4. accepted'[m] + nn + (IF Retryable(m)' THEN 1 ELSE 0) <= Room(m)'
    BY <2>1, <2>2, <2>3, <1>a, <1>n, <1>t, <1>r
  <2> QED BY <2>2, <2>4 DEF Owned
<1>5. CASE Doubted(m)
  <2>1. nn <= n BY <1>5, <1>f DEF Doubted, Quiet
  <2>2. accepted'[m] = accepted[m] /\ lost'[m] = lost[m] /\ row'[m].amb = row[m].amb + 1
    BY <1>5 DEF Doubted, Quiet, SameCounts
  <2>3. Retryable(m)' => Policy = "retry" /\ row[m].amb = 0
    BY <1>5 DEF Doubted, Retryable
  <2>4. accepted'[m] + nn + (IF Retryable(m)' THEN 1 ELSE 0) <= Room(m)'
    BY <2>1, <2>2, <2>3, <1>a, <1>n, <1>t, <1>r
  <2> QED BY <1>5, <2>4 DEF Doubted
<1>6. CASE Started(m)
  <2>1. PICK p \in Proc, g \in Gen :
          /\ OtherJobs(p, m, g)
          /\ IdOf[p] = row[m].by
          /\ ClassOf(p, m, g) = "before" /\ ClassOf(p, m, g)' \in {"call", "none"}
    BY <1>6 DEF Started
  <2>2. /\ row[m].status = "claimed" /\ row'[m].status = "claimed"
        /\ row'[m].by = row[m].by /\ row'[m].marker /\ row'[m].amb = row[m].amb
        /\ accepted'[m] = accepted[m] /\ lost'[m] = lost[m]
    BY <1>6 DEF Started, SameCounts
  <2>3. ~row[m].marker
    BY <2>1, <2>2 DEF Accounted, Owned
  <2>4. \A h \in Gen : h # g => ClassOf(p, m, h) = "none" /\ ClassOf(p, m, h)' = "none"
    BY <2>1 DEF OneCopy, OtherJobs, ClassOf
  <2>5. \A q \in Proc, h \in Gen : q # p => ClassOf(q, m, h)' = ClassOf(q, m, h)
    BY <2>1 DEF OtherJobs, ClassOf
  <2>6. nn <= n + 1
    <3>1. p \notin Calling(m) /\ Calling(m)' \subseteq Calling(m) \cup {p}
      BY <2>1, <2>4, <2>5, Calls
    <3> QED BY <3>1, Calls DEF n, nn
  <2>7. ~Refused(m)'
    <3>1. ASSUME NEW q \in Proc, NEW h \in Gen, IdOf[q] = row'[m].by
          PROVE  ClassOf(q, m, h)' # "refused"
      <4>1. q = p BY <3>1, <2>1, <2>2 DEF OneLifePerId
      <4> QED BY <4>1, <2>1, <2>4
    <3> QED BY <3>1, RefusedClass
  <2>8. Retryable(m) /\ ~Retryable(m)'
    BY <2>2, <2>3, <2>7 DEF Retryable
  <2>9. accepted'[m] + nn + (IF Retryable(m)' THEN 1 ELSE 0) <= Room(m)'
    BY <2>2, <2>6, <2>8, <1>a, <1>n, <1>t, <1>r
  <2>10. ASSUME NEW q \in Proc, NEW h \in Gen, ClassOf(q, m, h)' = "before",
                Owned(row'[m], IdOf[q])
         PROVE  FALSE
    <3>1. q = p BY <2>1, <2>2, <2>10 DEF Owned, OneLifePerId
    <3> QED BY <3>1, <2>1, <2>4, <2>10
  <2> QED BY <2>2, <2>9, <2>10
<1>7. CASE Answered(m)
  <2>0. row'[m] = row[m] BY <1>7 DEF Answered
  <2>1. PICK p \in Proc, g \in Gen :
          /\ OtherJobs(p, m, g)
          /\ ClassOf(p, m, g) = "call"
          /\ ClassOf(p, m, g)' \in {"ok", "refused", "none"}
          /\ \/ /\ ClassOf(p, m, g)' # "refused"
                /\ accepted'[m] = accepted[m] + 1 /\ lost'[m] = lost[m]
             \/ accepted'[m] = accepted[m] + 1 /\ lost'[m] = lost[m] + 1
             \/ accepted'[m] = accepted[m] /\ lost'[m] = lost[m]
    BY <1>7, ClassMeaning DEF Answered, SameCounts, ClassOf, Stage
  <2>4. \A h \in Gen : h # g => ClassOf(p, m, h)' = "none"
    BY <2>1 DEF OneCopy, OtherJobs, ClassOf
  <2>5. \A q \in Proc, h \in Gen : q # p => ClassOf(q, m, h)' = ClassOf(q, m, h)
    BY <2>1 DEF OtherJobs, ClassOf
  <2>6. nn <= n - 1
    <3>1. p \in Calling(m) /\ Calling(m)' \subseteq Calling(m) \ {p}
      BY <2>1, <2>4, <2>5, Calls
    <3> QED BY <3>1, Calls DEF n, nn
  <2>7. ClassOf(p, m, g)' # "refused" => (Retryable(m)' => Retryable(m))
    <3>1. ClassOf(p, m, g)' # "refused" => (Refused(m)' => Refused(m))
      BY <2>0, <2>1, <2>4, <2>5, RefusedClass
    <3> QED BY <3>1, <2>0 DEF Retryable
  <2>8. accepted'[m] + nn + (IF Retryable(m)' THEN 1 ELSE 0) <= Room(m)'
    <3>1. row'[m].amb = row[m].amb BY <2>0
    <3> QED BY <3>1, <2>1, <2>6, <2>7, <1>a, <1>n, <1>t, <1>r
  <2>9. ASSUME NEW q \in Proc, NEW h \in Gen, ClassOf(q, m, h)' = "before"
        PROVE  ClassOf(q, m, h) = "before"
    BY <2>1, <2>4, <2>5, <2>9
  <2> QED BY <2>0, <2>8, <2>9 DEF Accounted
<1> QED BY <1>1, <1>2, <1>3, <1>4, <1>5, <1>6, <1>7 DEF Kind

\* Accounting, for any number of processes, messages and crashes, any policy,
\* any delay and any failing statement, under the two conditions above.
THEOREM Accountable ==
    ASSUME OneLifePerId
    PROVE  Spec /\ []OneCopy => []Accounting
<1>1. Init => \A m \in Msg : Accounted(m)
  <2> SUFFICES ASSUME Init, NEW m \in Msg PROVE Accounted(m)
    OBVIOUS
  <2>1. \A p \in Proc, g \in Gen : ClassOf(p, m, g) = "none"
    BY DEF Init, NoJob, ClassOf, Class
  <2>2. Calling(m) = {} BY <2>1, Calls
  <2>3. Cardinality(Calling(m)) = 0 BY <2>2, FS_EmptySet
  <2>4. row[m] = NewRow /\ accepted[m] = 0 /\ lost[m] = 0 BY DEF Init
  <2> QED BY <2>1, <2>3, <2>4 DEF Accounted, NewRow, Room, Excused
<1>2. /\ TypeOK /\ TypeOK' /\ OneCopy /\ OneCopy' /\ (\A m \in Msg : Accounted(m)) /\ [Next]_vars
      => (\A m \in Msg : Accounted(m))'
  BY StepKinds, AccountedStep
<1> QED BY <1>1, <1>2, TypeCorrect, AccountingParts, PTL DEF Spec

\* No crash, restart, failed statement, lost claim or late process adds a copy.
THEOREM DuplicatesExplained ==
    ASSUME OneLifePerId
    PROVE  Spec /\ []OneCopy => []DuplicatesAccounted
<1>1. TypeOK /\ Accounting => DuplicatesAccounted
  <2> SUFFICES ASSUME TypeOK, Accounting, NEW m \in Msg PROVE accepted[m] <= Room(m)
    BY DEF DuplicatesAccounted
  <2>1. accepted[m] + Cardinality(Calling(m)) + (IF Retryable(m) THEN 1 ELSE 0) <= Room(m)
    BY DEF Accounting
  <2>2. Cardinality(Calling(m)) \in Nat BY Calls
  <2>3. accepted[m] \in Nat /\ Room(m) \in Nat BY DEF TypeOK, Room
  <2> QED BY <2>1, <2>2, <2>3
<1> QED BY <1>1, Accountable, TypeCorrect, PTL

\* Under the policy "fail" a message is accepted again only after a lost reply, whatever
\* crashes, fails or comes late: the doubt of the reaper never sends it once more.
THEOREM OnceUnlessUnnoticed ==
    ASSUME OneLifePerId
    PROVE  Spec /\ []OneCopy => []RepeatedOnlyUnnoticed
<1>1. TypeOK /\ DuplicatesAccounted => RepeatedOnlyUnnoticed
  <2> SUFFICES ASSUME TypeOK, DuplicatesAccounted, Policy = "fail", NEW m \in Msg
               PROVE  accepted[m] <= 1 + lost[m]
    BY DEF RepeatedOnlyUnnoticed
  <2>1. ~Excused(m) BY DEF Excused
  <2>2. Room(m) = 1 + lost[m] BY <2>1 DEF Room, TypeOK
  <2> QED BY <2>2 DEF DuplicatesAccounted
<1> QED BY <1>1, DuplicatesExplained, TypeCorrect, PTL

-----------------------------------------------------------------------------
(* The sender implements Delivery.                                         *)

DeliveryMove(m) ==
    \/ promise'[m] = promise[m]
    \/ Promise!Deliver(promise[m], promise'[m])
    \/ Promise!Excuse(promise[m], promise'[m])
    \/ Promise!Settle(promise[m], promise'[m])

\* Two promises with the fields that a move of Delivery gives them.
LEMMA DeliveryRecord ==
    ASSUME NEW d \in Promise!Promises, NEW e \in Promise!Promises
    PROVE  /\ /\ e.copies = d.copies + 1 /\ e.unnoticed = d.unnoticed
              /\ e.excused = d.excused /\ e.fate = d.fate
              => e = [d EXCEPT !.copies = @ + 1]
           /\ /\ e.copies = d.copies + 1 /\ e.unnoticed = d.unnoticed + 1
              /\ e.excused = d.excused /\ e.fate = d.fate
              => e = [d EXCEPT !.copies = @ + 1, !.unnoticed = @ + 1]
           /\ /\ e.copies = d.copies /\ e.unnoticed = d.unnoticed
              /\ e.excused /\ e.fate = d.fate
              => e = [d EXCEPT !.excused = TRUE]
           /\ \A f : /\ e.copies = d.copies /\ e.unnoticed = d.unnoticed
                     /\ e.excused = d.excused /\ e.fate = f
                     => e = [d EXCEPT !.fate = f]
           /\ /\ e.copies = d.copies /\ e.unnoticed = d.unnoticed
              /\ e.excused = d.excused /\ e.fate = d.fate
              => e = d
<1> USE DEF Promise!Promises
<1>1. ASSUME e.copies = d.copies + 1, e.unnoticed = d.unnoticed,
             e.excused = d.excused, e.fate = d.fate
      PROVE  e = [d EXCEPT !.copies = @ + 1]
  BY <1>1
<1>2. ASSUME e.copies = d.copies + 1, e.unnoticed = d.unnoticed + 1,
             e.excused = d.excused, e.fate = d.fate
      PROVE  e = [d EXCEPT !.copies = @ + 1, !.unnoticed = @ + 1]
  BY <1>2
<1>3. ASSUME e.copies = d.copies, e.unnoticed = d.unnoticed, e.excused, e.fate = d.fate
      PROVE  e = [d EXCEPT !.excused = TRUE]
  BY <1>3
<1>4. ASSUME NEW f, e.copies = d.copies, e.unnoticed = d.unnoticed,
             e.excused = d.excused, e.fate = f
      PROVE  e = [d EXCEPT !.fate = f]
  BY <1>4
<1>5. ASSUME e.copies = d.copies, e.unnoticed = d.unnoticed,
             e.excused = d.excused, e.fate = d.fate
      PROVE  e = d
  BY <1>5
<1> QED BY <1>1, <1>2, <1>3, <1>4, <1>5

LEMMA PromiseType ==
    ASSUME TypeOK
    PROVE  promise \in [Msg -> Promise!Promises]
<1> SUFFICES ASSUME NEW m \in Msg
             PROVE  [copies |-> accepted[m], unnoticed |-> lost[m], excused |-> Excused(m),
                     fate |-> IF row[m].status \in {"pending", "claimed"} THEN "open"
                              ELSE row[m].status] \in Promise!Promises
  BY DEF promise
<1>1. accepted[m] \in Nat /\ lost[m] \in Nat /\ row[m].status \in Statuses
  BY DEF TypeOK, Rows
<1>2. Excused(m) \in BOOLEAN BY DEF Excused
<1> QED BY <1>1, <1>2 DEF Promise!Promises, Statuses

LEMMA MoveOfKind ==
    ASSUME TypeOK, TypeOK', promise' \in [Msg -> Promise!Promises],
           NEW m \in Msg, Accounted(m), Acknowledged(m), Kind(m)
    PROVE  DeliveryMove(m)
<1> DEFINE d == promise[m]
           e == promise'[m]
           open == row[m].status \in {"pending", "claimed"}
           open1 == row'[m].status \in {"pending", "claimed"}
<1>p. d \in Promise!Promises /\ e \in Promise!Promises
  BY PromiseType
<1>d. /\ d.copies = accepted[m] /\ d.unnoticed = lost[m] /\ d.excused = Excused(m)
      /\ d.fate = IF open THEN "open" ELSE row[m].status
  BY DEF promise
<1>e. /\ e.copies = accepted'[m] /\ e.unnoticed = lost'[m] /\ e.excused = Excused(m)'
      /\ e.fate = IF open1 THEN "open" ELSE row'[m].status
  BY DEF promise
<1>x. /\ Excused(m) <=> Policy = "retry" /\ row[m].amb > 0
      /\ Excused(m)' <=> Policy = "retry" /\ row'[m].amb > 0
      /\ row'[m].amb = row[m].amb => Excused(m)' = Excused(m)
  BY DEF Excused, Policy
<1>t. /\ row[m].amb \in Nat /\ row'[m].amb \in Nat
      /\ accepted[m] \in Nat /\ lost[m] \in Nat
      /\ row[m].status \in Statuses /\ row'[m].status \in Statuses
  BY DEF TypeOK, Rows
<1> HIDE DEF d, e
<1>s. SUFFICES e = d \/ Promise!Deliver(d, e) \/ Promise!Excuse(d, e) \/ Promise!Settle(d, e)
  BY DEF DeliveryMove, d, e
<1>1. CASE Idle(m) \/ Requeued(m) \/ Claimed(m) \/ Started(m)
  <2>1. /\ accepted'[m] = accepted[m] /\ lost'[m] = lost[m] /\ row'[m].amb = row[m].amb
        /\ row'[m].status = row[m].status \/ (open /\ open1)
    BY <1>1 DEF Idle, Requeued, Claimed, Started, Quiet, SameCounts
  <2>2. /\ e.copies = d.copies /\ e.unnoticed = d.unnoticed
        /\ e.excused = d.excused /\ e.fate = d.fate
    BY <2>1, <1>d, <1>e, <1>x
  <2> QED BY <2>2, <1>p, DeliveryRecord
<1>2. CASE Settled(m)
  <2>1. /\ accepted'[m] = accepted[m] /\ lost'[m] = lost[m] /\ row'[m].amb = row[m].amb
        /\ open /\ row'[m].status \in {"sent", "failed", "skipped"}
    BY <1>2 DEF Settled, Quiet, SameCounts
  <2>2. row'[m].status = "sent" => accepted[m] > 0
    BY <1>2 DEF Settled, Acknowledged
  <2>3. /\ e.copies = d.copies /\ e.unnoticed = d.unnoticed
        /\ e.excused = d.excused /\ e.fate = row'[m].status
    BY <2>1, <1>d, <1>e, <1>x
  <2>4. e = [d EXCEPT !.fate = row'[m].status]
    BY <2>3, <1>p, DeliveryRecord
  <2>5. d.fate = "open" /\ d.copies = accepted[m]
    BY <2>1, <1>d
  <2>6. Promise!Settle(d, e)
    BY <2>1, <2>2, <2>4, <2>5 DEF Promise!Settle
  <2> QED BY <2>6
<1>3. CASE Doubted(m)
  <2>1. /\ accepted'[m] = accepted[m] /\ lost'[m] = lost[m] /\ row'[m].amb = row[m].amb + 1
        /\ open
        /\ row'[m].status = IF Policy = "retry" /\ row[m].amb = 0 THEN "pending" ELSE "failed"
    BY <1>3 DEF Doubted, Quiet, SameCounts
  <2>2. d.fate = "open" BY <2>1, <1>d
  <2>3. CASE Policy = "retry" /\ row[m].amb = 0
    <3>1. ~Excused(m) /\ Excused(m)' BY <2>1, <2>3, <1>x, <1>t
    <3>2. ~d.excused /\ e.excused BY <3>1, <1>d, <1>e
    <3>3. e.copies = d.copies /\ e.unnoticed = d.unnoticed /\ e.fate = d.fate
      BY <2>1, <2>2, <2>3, <1>d, <1>e
    <3>4. e = [d EXCEPT !.excused = TRUE]
      BY <3>2, <3>3, <1>p, DeliveryRecord
    <3>5. Promise!Excuse(d, e) BY <2>2, <2>3, <3>2, <3>4 DEF Promise!Excuse
    <3> QED BY <3>5
  <2>4. CASE ~(Policy = "retry" /\ row[m].amb = 0)
    <3>1. Excused(m)' <=> Excused(m) BY <2>1, <2>4, <1>x, <1>t
    <3>2. Excused(m)' = Excused(m) BY <3>1 DEF Excused
    <3>3. /\ e.copies = d.copies /\ e.unnoticed = d.unnoticed
          /\ e.excused = d.excused /\ e.fate = "failed"
      BY <2>1, <2>4, <3>2, <1>d, <1>e
    <3>4. e = [d EXCEPT !.fate = "failed"]
      BY <3>3, <1>p, DeliveryRecord
    <3>5. Promise!Settle(d, e) BY <2>2, <3>4 DEF Promise!Settle
    <3> QED BY <3>5
  <2> QED BY <2>3, <2>4
<1>4. CASE Answered(m)
  <2>1. /\ row'[m] = row[m]
        /\ \/ accepted'[m] = accepted[m] + 1 /\ lost'[m] = lost[m]
           \/ accepted'[m] = accepted[m] + 1 /\ lost'[m] = lost[m] + 1
           \/ accepted'[m] = accepted[m] /\ lost'[m] = lost[m]
    BY <1>4 DEF Answered, SameCounts
  <2>2. accepted[m] < Room(m)
    <3>1. Calling(m) # {} BY <1>4 DEF Answered, Calling
    <3>2. IsFiniteSet(Calling(m))
      BY OutboxAssumption, FS_Subset DEF OutboxAssumption, Calling
    <3>3. Cardinality(Calling(m)) \in Nat /\ Cardinality(Calling(m)) # 0
      BY <3>1, <3>2, FS_EmptySet, FS_CardinalityType
    <3>4. Room(m) \in Nat BY <1>t DEF Room
    <3>5. accepted[m] + Cardinality(Calling(m)) + (IF Retryable(m) THEN 1 ELSE 0) <= Room(m)
      BY DEF Accounted
    <3> QED BY <3>3, <3>4, <3>5, <1>t
  <2>3. d.copies < Promise!Room(d)
    BY <2>2, <1>d DEF Promise!Room, Room
  <2>4. e.excused = d.excused /\ e.fate = d.fate
    BY <2>1, <1>d, <1>e, <1>x
  <2>5. \/ e.copies = d.copies + 1 /\ e.unnoticed = d.unnoticed
        \/ e.copies = d.copies + 1 /\ e.unnoticed = d.unnoticed + 1
        \/ e.copies = d.copies /\ e.unnoticed = d.unnoticed
    BY <2>1, <1>d, <1>e
  <2>6. \/ e = [d EXCEPT !.copies = @ + 1]
        \/ e = [d EXCEPT !.copies = @ + 1, !.unnoticed = @ + 1]
        \/ e = d
    BY <2>4, <2>5, <1>p, DeliveryRecord
  <2> QED BY <2>3, <2>6 DEF Promise!Deliver
<1> QED BY <1>1, <1>2, <1>3, <1>4 DEF Kind

\* Seen as counts and final words only, every behaviour of the sender is one of
\* Delivery: copies arrive one at a time and only while there is room, the
\* policy excuses one doubt, the final word is said once and "sent" is true.
THEOREM Refinement ==
    ASSUME OneLifePerId
    PROVE  Spec /\ []OneCopy => KeepsPromise
<1>1. Init => Promise!DeliveryInit
  <2> SUFFICES ASSUME Init, NEW m \in Msg
               PROVE  [copies |-> accepted[m], unnoticed |-> lost[m], excused |-> Excused(m),
                       fate |-> IF row[m].status \in {"pending", "claimed"} THEN "open"
                                ELSE row[m].status]
                    = [copies |-> 0, unnoticed |-> 0, excused |-> FALSE, fate |-> "open"]
    BY DEF Promise!DeliveryInit, promise
  <2>1. accepted[m] = 0 /\ lost[m] = 0 /\ row[m].status = "pending" /\ row[m].amb = 0
    BY DEF Init, NewRow
  <2>2. Excused(m) = FALSE BY <2>1 DEF Excused
  <2> QED BY <2>1, <2>2
<1>2. ASSUME TypeOK, TypeOK', promise' \in [Msg -> Promise!Promises],
             Accounting, \A m \in Msg : Acknowledged(m), [Next]_vars
      PROVE  Promise!DeliveryNext
  <2>1. promise' \in [Msg -> Promise!Promises]
    BY <1>2
  <2>2. \A m \in Msg : DeliveryMove(m)
    BY <1>2, <2>1, StepKinds, AccountingParts, MoveOfKind
  <2> QED BY <2>1, <2>2 DEF Promise!DeliveryNext, DeliveryMove
<1>3. /\ TypeOK /\ TypeOK' /\ (promise \in [Msg -> Promise!Promises])'
      /\ Accounting /\ (\A m \in Msg : Acknowledged(m)) /\ [Next]_vars
      => [Promise!DeliveryNext]_promise
  BY <1>2
<1>4. TypeOK => promise \in [Msg -> Promise!Promises]
  BY PromiseType
<1> QED
  BY <1>1, <1>3, <1>4, TypeCorrect, Accountable, AllAcknowledged, PTL
  DEF Spec, KeepsPromise, Promise!DeliverySpec

-----------------------------------------------------------------------------
(* What a campaign sees of the sender.                                     *)

LEMMA ServedSwitch ==
    ASSUME TypeOK, TypeOK', NEW c \in Campaign,
           \A m \in Audience(c) : row'[m].status = row[m].status
    PROVE  Served(c)!Switch
BY DEF Served!Switch, Served!Alive

\* A step that moves rows only from one status, and leaves the campaign alone.
LEMMA ServedMove ==
    ASSUME TypeOK, TypeOK', NEW c \in Campaign, UNCHANGED camp,
           NEW from, NEW to,
           \A m \in Audience(c) :
               row'[m].status # row[m].status => row[m].status = from /\ row'[m].status \in to
    PROVE  Served(c)!Move(from, to)
<1>1. \A m \in Audience(c) : row'[m].status \in Statuses
  BY DEF TypeOK, Rows, Audience
<1> QED BY <1>1 DEF Served!Move, Served!Statuses, Statuses

\* Apart from claims a process moves only what is claimed.
LEMMA OnlyClaimed ==
    ASSUME TypeOK, NEW p \in Proc, ProcessStep(p),
           ~(\E c \in Campaign : ClaimCampaign(p, c)) /\ ~ClaimNonCampaign(p),
           NEW m \in Msg, row'[m] # row[m]
    PROVE  row[m].status = "claimed" /\ UNCHANGED camp
<1>1. CASE \E s \in Streams : FilterBatch(p, s) \/ DropBatch(p, s)
  BY <1>1 DEF FilterBatch, DropBatch, Owned, TypeOK
<1>2. CASE \E n \in Msg, g \in Gen : WorkerStep(p, n, g)
  <2> PICK n \in Msg, g \in Gen : WorkerStep(p, n, g) BY <1>2
  <2>1. CASE ReleaseOne(p, n, g) \/ ProviderUnusable(p, n, g) \/ WriteResult(p, n, g)
             \/ MarkStarted(p, n, g)
    <3>1. \E new : Store(n, Owned(row[n], IdOf[p]), new) \/ row' = row
                   \/ Store(n, ReleaseHits(row[n], IdOf[p]), new)
      BY <2>1 DEF ReleaseOne, ProviderUnusable, WriteResult, MarkStarted, MayStore, Store
    <3>2. row[m].status = "claimed" BY <3>1 DEF Store, Owned, ReleaseHits, TypeOK
    <3> QED BY <2>1, <3>2 DEF ReleaseOne, ProviderUnusable, WriteResult, MarkStarted
  <2>2. CASE row' = row BY <2>2
  <2> QED BY <2>1, <2>2
    DEF WorkerStep, Pick, HeaderUnreadable, CampaignUnusable, MarkMissed, Dispatch, BreakerPause,
        Cancelled
<1>3. CASE HeartbeatTick(p) \/ ReapReleased(p) \/ ReapAmbiguous(p)
  BY <1>3 DEF HeartbeatTick, ReapReleased, ReapAmbiguous, Owned, ReaperReleasedHits,
              ReaperAmbiguousHits, TypeOK
<1>4. CASE \/ Start(p) \/ Crash(p) \/ Stop(p)
           \/ ReleaseUnstarted(p) \/ Exit(p) \/ ForcedExit(p)
  BY <1>4 DEF Start, Crash, Stop, ReleaseUnstarted, Exit, ForcedExit, RecoveryHits, ReleaseHits,
              Owned, TypeOK
<1> QED BY <1>1, <1>2, <1>3, <1>4 DEF ProcessStep

\* A claim takes what is pending, and what belongs to a campaign only while that is active.
LEMMA ClaimServed ==
    ASSUME TypeOK, TypeOK', NEW p \in Proc, NEW c \in Campaign,
           (\E d \in Campaign : ClaimCampaign(p, d)) \/ ClaimNonCampaign(p)
    PROVE  Served(c)!Switch \/ Served(c)!Take
<1>1. UNCHANGED camp BY DEF ClaimCampaign, ClaimNonCampaign, Claim
<1>2. CASE \A m \in Audience(c) : row'[m].status = row[m].status
  BY <1>2, ServedSwitch
<1>3. ASSUME NEW m \in Audience(c), row'[m].status # row[m].status
      PROVE  camp[c] = "active" /\ row[m].status = "pending" /\ row'[m].status = "claimed"
  <2>0. m \in Msg /\ m \notin NonCampaign /\ CampaignOf[m] = c BY DEF Audience
  <2>1. ASSUME NEW STATE claimable, Claim(p, claimable)
        PROVE  m \in claimable /\ row'[m] = ClaimBatch(row[m], IdOf[p])
    <3>1. PICK S \in SUBSET claimable :
             row' = [n \in Msg |-> IF n \in S THEN ClaimBatch(row[n], IdOf[p]) ELSE row[n]]
      BY <2>1 DEF Claim
    <3> QED BY <1>3, <2>0, <3>1
  <2>2. ASSUME NEW d \in Campaign, ClaimCampaign(p, d)
        PROVE  camp[c] = "active" /\ row[m].status = "pending" /\ row'[m].status = "claimed"
    <3> DEFINE claimable == {n \in Msg \ NonCampaign : CampaignOf[n] = d /\ ClaimHits(row[n])}
    <3>1. Claim(p, claimable) /\ camp[d] = "active" BY <2>2 DEF ClaimCampaign
    <3>2. m \in claimable /\ row'[m] = ClaimBatch(row[m], IdOf[p])
      <4> HIDE DEF claimable
      <4> QED BY <2>1, <3>1
    <3>3. IdOf[p] \in Id /\ row[m] \in RowSet
      BY <2>0, OutboxAssumption DEF OutboxAssumption, TypeOK, RowSet
    <3> QED BY <2>0, <3>1, <3>2, <3>3, RowEffects DEF ClaimHits
  <2>3. ~ClaimNonCampaign(p)
    <3> SUFFICES ASSUME ClaimNonCampaign(p) PROVE FALSE OBVIOUS
    <3> DEFINE claimable == {n \in NonCampaign : camp[CampaignOf[n]] # "deleted"
                                                 /\ ClaimHits(row[n])}
    <3>1. Claim(p, claimable) BY DEF ClaimNonCampaign
    <3>2. m \in claimable
      <4> HIDE DEF claimable
      <4> QED BY <2>1, <3>1
    <3> QED BY <2>0, <3>2
  <2> QED BY <2>2, <2>3
<1>4. CASE \E m \in Audience(c) : row'[m].status # row[m].status
  <2>1. camp[c] = "active" BY <1>3, <1>4
  <2>2. Served(c)!Move("pending", {"claimed"}) BY <1>1, <1>3, ServedMove
  <2> QED BY <2>1, <2>2 DEF Served!Take
<1> QED BY <1>2, <1>4

LEMMA StepServed ==
    ASSUME TypeOK, TypeOK', [Next]_vars, NEW c \in Campaign
    PROVE  Serves(c)
<1> SUFFICES ASSUME \E m \in Audience(c) : row'[m].status # row[m].status
             PROVE  Serves(c)
  BY ServedSwitch DEF Serves
<1>a. Audience(c) \subseteq Msg BY DEF Audience
<1>b. \A m \in Msg : row'[m].status \in Statuses BY DEF TypeOK, Rows
<1>1. CASE UNCHANGED vars BY <1>1 DEF vars
<1>2. ASSUME NEW p \in Proc, ProcessStep(p)
      PROVE  Serves(c)
  <2>1. CASE (\E d \in Campaign : ClaimCampaign(p, d)) \/ ClaimNonCampaign(p)
    BY <2>1, ClaimServed DEF Serves
  <2>2. CASE ~(\E d \in Campaign : ClaimCampaign(p, d)) /\ ~ClaimNonCampaign(p)
    <3>1. \A m \in Msg : row'[m] # row[m] => row[m].status = "claimed" /\ UNCHANGED camp
      BY <1>2, <2>2, OnlyClaimed
    <3>2. UNCHANGED camp BY <1>a, <3>1
    <3>3. \A m \in Audience(c) : row'[m].status # row[m].status =>
             row[m].status = "claimed" /\ row'[m].status \in {"pending", "sent", "failed", "skipped"}
      BY <1>a, <1>b, <3>1 DEF Statuses
    <3>4. Served(c)!Move("claimed", {"pending", "sent", "failed", "skipped"})
      BY <3>2, <3>3, ServedMove
    <3> QED BY <3>4 DEF Served!Leave, Serves
  <2> QED BY <2>1, <2>2
<1>3. CASE WorldStep
  <2>1. \A m \in Msg : row'[m].status # row[m].status =>
           row[m].status = "pending" /\ row'[m].status = "skipped" /\ UNCHANGED camp
    <3>0. row \in [Msg -> RowSet] BY DEF TypeOK, RowSet
    <3>1. ASSUME NEW n \in Msg, Age(n) \/ BecomeDue(n)
          PROVE  \A m \in Msg : row'[m].status = row[m].status
      <4>1. \/ \E l \in Leases : row' = [row EXCEPT ![n].lease = l]
            \/ row' = [row EXCEPT ![n].due = TRUE]
        BY <3>1 DEF Age, BecomeDue, Leases
      <4>2. CASE \E l \in Leases : row' = [row EXCEPT ![n].lease = l]
        BY <3>0, <4>2 DEF RowSet, Rows
      <4>3. CASE row' = [row EXCEPT ![n].due = TRUE] BY <3>0, <4>3 DEF RowSet, Rows
      <4> QED BY <4>1, <4>2, <4>3
    <3>2. ASSUME NEW n \in Msg, \/ Unsuppress(n) \/ Reconcile(n) \/ CancelPending(n)
                                \/ \E to \in Reasons : Suppress(n, to)
          PROVE  /\ \A m \in Msg : row'[m].status # row[m].status =>
                        row[m].status = "pending" /\ row'[m].status = "skipped"
                 /\ UNCHANGED camp
      <4>1. row' = row \/ (RevokeHits(row[n]) /\ row' = [row EXCEPT ![n] = RevokePending(row[n])])
        BY <3>2 DEF Unsuppress, Reconcile, CancelPending, Suppress, Store
      <4>2. UNCHANGED camp BY <3>2 DEF Unsuppress, Reconcile, CancelPending, Suppress
      <4>3. RevokePending(row[n]).status = "skipped" BY <3>0, RowEffects
      <4> QED BY <3>0, <4>1, <4>2, <4>3 DEF RevokeHits
    <3>3. CASE \E d \in Campaign, to \in CampaignMoves : CampaignStatus(d, to)
      BY <3>3 DEF CampaignStatus
    <3> QED BY <1>3, <3>1, <3>2, <3>3 DEF WorldStep
  <2>2. UNCHANGED camp BY <1>a, <2>1
  <2>3. Served(c)!Move("pending", {"skipped"}) BY <1>a, <2>1, <2>2, ServedMove
  <2> QED BY <2>3 DEF Served!Drop, Serves
<1> QED BY <1>1, <1>2, <1>3 DEF Next

\* Sender and campaign fit together: what the sender does to the messages of a campaign, and
\* all that happens to them here, are steps of the promise that Campaign refines.
THEOREM ServesEveryCampaign == Spec => ServesCampaigns
<1>1. TypeOK /\ TypeOK' /\ [Next]_vars => [\A c \in Campaign : Serves(c)]_vars
  BY StepServed
<1> QED BY <1>1, TypeCorrect, PTL DEF Spec, ServesCampaigns
=============================================================================
