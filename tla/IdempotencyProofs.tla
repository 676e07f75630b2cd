-------------------------- MODULE IdempotencyProofs --------------------------
(***************************************************************************)
(* Theorems about Idempotency, for any number of clients, keys, bodies,    *)
(* connections and failures.                                               *)
(*                                                                         *)
(* The invariant says who holds the lock of a key and what the row of a    *)
(* key stands for: a key is locked by exactly the requests that have       *)
(* inserted it and only while it has no row, a row is always completed,    *)
(* and a row of a key whose operation writes through the transaction       *)
(* means one effect, of the row's body.                                    *)
(***************************************************************************)
EXTENDS Idempotency, TLAPS

Requests == {Idle} \union [stage : {"arrived"} \union Open, key : Key, body : Body]
Tables == {NoRow} \union
          [status : {"in_progress", "completed"}, body : Body, answer : {"done", "empty"}]
Answers == Key \X Body \X {"done", "empty", "invalid", "reuse", "in_progress"}

Typed ==
    /\ request \in [Request -> Requests]
    /\ table \in [Key -> Tables]
    /\ lock \in [Key -> Request \union {None}]
    /\ effect \in [Key -> [Body -> Nat]]
    /\ given \subseteq Answers
    /\ used \in [requests : Nat, faults : Nat]

LEMMA TypeParts == TypeOK <=> Typed
BY DEF TypeOK, Typed, Requests, Tables, Answers
LEMMA TypePartsNext == TypeOK' <=> Typed'
BY DEF TypeOK, Typed, Requests, Tables, Answers

\* A request that has inserted its key and not ended yet.
Holding == {"operating", "nested", "operated"}

Locks ==
    /\ \A r \in Request : request[r].stage \in Holding => lock[KeyOf(r)] = r
    /\ \A k \in Key : lock[k] # None =>
          request[lock[k]].stage \in Holding /\ KeyOf(lock[k]) = k /\ table[k] = NoRow
Completed == \A k \in Key : table[k] # NoRow => table[k].status = "completed"
Exact == \A k \in Key \ Own, b \in Body :
    effect[k][b] = IF table[k] # NoRow /\ table[k].body = b THEN 1 ELSE 0
Done == /\ \A k \in Own, b \in Body :
              (table[k] # NoRow /\ table[k].body = b) => effect[k][b] >= 1
        /\ \A r \in Request : (At(r, "operated") /\ KeyOf(r) \in Own) =>
              effect[KeyOf(r)][BodyOf(r)] >= 1
\* Only an operation with a transaction of its own opens it.
Nested == \A r \in Request : At(r, "nested") => KeyOf(r) \in Own

IInv == Typed /\ Locks /\ Completed /\ Exact /\ Done /\ Nested /\ AnswerIsTrue /\ NoTakeover

-----------------------------------------------------------------------------
\* What a request under way is made of.
LEMMA Underway ==
    ASSUME Typed, NEW r \in Request, request[r].stage # "idle"
    PROVE  /\ request[r] \in [stage : {"arrived"} \union Open, key : Key, body : Body]
           /\ KeyOf(r) \in Key /\ BodyOf(r) \in Body
BY DEF Typed, Requests, Idle, KeyOf, BodyOf

LEMMA Stages == \A stage \in {"arrived"} \union Open : stage # "idle"
BY DEF Open

LEMMA InitHolds == Init => IInv
<1> SUFFICES ASSUME Init PROVE IInv OBVIOUS
<1> USE DEF Init
<1>1. Typed BY DEF Typed, Requests, Tables
<1>2. Locks BY DEF Locks, Holding, Idle
<1>3. Completed BY DEF Completed
<1>4. Exact
  <2> SUFFICES ASSUME NEW k \in Key, NEW b \in Body PROVE effect[k][b] = 0 /\ table[k] = NoRow
    BY DEF Exact
  <2> QED OBVIOUS
<1>5. Done /\ Nested BY IdempotencyAssumption DEF Done, Nested, At, Idle
<1>6. AnswerIsTrue /\ NoTakeover BY DEF AnswerIsTrue, NoTakeover
<1> QED BY <1>1, <1>2, <1>3, <1>4, <1>5, <1>6 DEF IInv

-----------------------------------------------------------------------------
\* A step that moves a request along without touching lock, table or answers.
LEMMA GotoType ==
    ASSUME Typed, NEW r \in Request, request[r].stage # "idle",
           NEW stage \in {"arrived"} \union Open, Goto(r, stage)
    PROVE  /\ request' \in [Request -> Requests]
           /\ request'[r].stage = stage /\ KeyOf(r)' = KeyOf(r) /\ BodyOf(r)' = BodyOf(r)
           /\ \A q \in Request \ {r} : request'[q] = request[q]
<1>1. request[r] \in [stage : {"arrived"} \union Open, key : Key, body : Body]
  BY Underway
<1>2. request' = [request EXCEPT ![r] = [request[r] EXCEPT !.stage = stage]]
  BY DEF Goto
<1>3. [request[r] EXCEPT !.stage = stage] \in
         [stage : {"arrived"} \union Open, key : Key, body : Body]
  BY <1>1
<1> QED BY <1>1, <1>2, <1>3 DEF Typed, Requests, KeyOf, BodyOf

LEMMA CloseEffect ==
    ASSUME IInv, NEW r \in Request, request[r].stage # "idle",
           NEW answers \in SUBSET {"done", "empty", "invalid", "reuse", "in_progress"},
           Close(r, answers)
    PROVE  /\ request' \in [Request -> Requests] /\ request'[r] = Idle
           /\ \A q \in Request \ {r} : request'[q] = request[q]
           /\ lock' \in [Key -> Request \union {None}]
           /\ \A k \in Key : lock'[k] = IF lock[k] = r THEN None ELSE lock[k]
           /\ given' \subseteq Answers
           /\ given' = given \union {<<KeyOf(r), BodyOf(r), a>> : a \in answers}
<1>1. KeyOf(r) \in Key /\ BodyOf(r) \in Body BY Underway DEF IInv
<1>2. given' \subseteq Answers BY <1>1 DEF Close, Answers, IInv, Typed
<1> QED BY <1>2 DEF Close, IInv, Typed, Requests

\* Who closes gives the lock back, and nobody else's.
LEMMA CloseLocks ==
    ASSUME IInv, NEW r \in Request, request[r].stage # "idle",
           NEW answers \in SUBSET {"done", "empty", "invalid", "reuse", "in_progress"},
           Close(r, answers),
           \A k \in Key : lock[k] # r => table'[k] = table[k]
    PROVE  Locks'
<1> USE CloseEffect
<1>1. ASSUME NEW q \in Request, request'[q].stage \in Holding
      PROVE  lock'[KeyOf(q)'] = q
  <2>1. q # r BY <1>1 DEF Holding, Idle
  <2>2. request'[q] = request[q] BY <2>1
  <2>3. KeyOf(q) \in Key BY <1>1, <2>2, Underway DEF IInv, Holding
  <2>4. lock[KeyOf(q)] = q BY <1>1, <2>2 DEF IInv, Locks
  <2> QED BY <2>1, <2>2, <2>3, <2>4 DEF KeyOf
<1>2. ASSUME NEW k \in Key, lock'[k] # None
      PROVE  /\ request'[lock'[k]].stage \in Holding /\ request'[lock'[k]].key = k
             /\ table'[k] = NoRow
  <2>1. lock[k] # r /\ lock'[k] = lock[k] /\ lock[k] \in Request BY <1>2 DEF IInv, Typed
  <2>2. request'[lock[k]] = request[lock[k]] BY <2>1
  <2>3. table'[k] = table[k] BY <2>1
  <2> QED BY <1>2, <2>1, <2>2, <2>3 DEF IInv, Locks, KeyOf
<1> QED BY <1>1, <1>2 DEF Locks, KeyOf

\* Who moves on within the transaction keeps its lock.
LEMMA GotoLocks ==
    ASSUME IInv, NEW r \in Request, request[r].stage # "idle",
           NEW stage \in {"arrived"} \union Open, Goto(r, stage),
           request[r].stage \in Holding <=> stage \in Holding,
           lock' = lock, table' = table
    PROVE  Locks'
<1>0. /\ request'[r].stage = stage /\ KeyOf(r)' = KeyOf(r)
      /\ \A q \in Request \ {r} : request'[q] = request[q]
  BY GotoType DEF IInv
<1>1. \A q \in Request : KeyOf(q)' = KeyOf(q)
                      /\ (request'[q].stage \in Holding <=> request[q].stage \in Holding)
  BY <1>0 DEF KeyOf
<1>2. \A k \in Key : lock[k] # None => lock[k] \in Request BY DEF IInv, Typed
<1> QED BY <1>1, <1>2 DEF IInv, Locks

-----------------------------------------------------------------------------
\* Answers and rows are told of what is committed: effects only grow.
LEMMA Grows ==
    ASSUME IInv, \A k \in Key, b \in Body : effect'[k][b] \in Nat /\ effect'[k][b] >= effect[k][b],
           \A k \in Key, b \in Body :
              (<<k, b, "done">> \in given' \/ <<k, b, "empty">> \in given') =>
                 (<<k, b, "done">> \in given \/ <<k, b, "empty">> \in given) \/ effect'[k][b] >= 1
    PROVE  AnswerIsTrue'
<1> SUFFICES ASSUME NEW k \in Key, NEW b \in Body,
                    <<k, b, "done">> \in given' \/ <<k, b, "empty">> \in given'
             PROVE  effect'[k][b] >= 1
  BY DEF AnswerIsTrue
<1>1. effect[k][b] \in Nat BY DEF IInv, Typed
<1> QED BY <1>1 DEF IInv, AnswerIsTrue

LEMMA ArriveStep == ASSUME IInv, NEW r \in Request, NEW k \in Key, NEW b \in Body, Arrive(r, k, b)
                    PROVE  IInv'
<1> DEFINE new == [stage |-> "arrived", key |-> k, body |-> b]
<1>1. new \in Requests BY DEF Requests
<1>2. request[r].stage = "idle" /\ new.stage = "arrived" BY DEF Arrive, At
<1>3. /\ request' = [request EXCEPT ![r] = new] /\ used' = [used EXCEPT !.requests = @ + 1]
      /\ UNCHANGED <<table, lock, effect, given>>
  BY DEF Arrive
<1> HIDE DEF new
<1>4. Typed' BY <1>1, <1>3 DEF IInv, Typed
<1>5. request'[r] = new /\ \A q \in Request \ {r} : request'[q] = request[q]
  BY <1>3 DEF IInv, Typed
<1>6. Locks'
  <2>1. \A q \in Request : request'[q].stage \in Holding => q # r BY <1>2, <1>5 DEF Holding
  <2>2. \A l \in Key : lock[l] # None => lock[l] \in Request /\ lock[l] # r
    BY <1>2 DEF IInv, Typed, Locks, Holding
  <2> QED BY <1>3, <1>5, <2>1, <2>2 DEF IInv, Locks, KeyOf
<1>7. Completed' /\ Exact' BY <1>3 DEF IInv, Completed, Exact
<1>8. Done' /\ Nested'
  <2>1. \A q \in Request : request'[q].stage \in {"operated", "nested"} => q # r
    BY <1>2, <1>5
  <2>2. Done' BY <1>3, <1>5, <2>1 DEF IInv, Done, At, KeyOf, BodyOf
  <2>3. Nested' BY <1>3, <1>5, <2>1 DEF IInv, Nested, At, KeyOf
  <2> QED BY <2>2, <2>3
<1>9. AnswerIsTrue' /\ NoTakeover' BY <1>3 DEF IInv, AnswerIsTrue, NoTakeover
<1> QED BY <1>4, <1>6, <1>7, <1>8, <1>9 DEF IInv

\* The steps that only move a request along; "operated" is reached with the effect there,
\* or to be committed with the row.
LEMMA MoveStep ==
    ASSUME IInv, NEW r \in Request, request[r].stage # "idle",
           NEW stage \in {"arrived"} \union Open, Goto(r, stage),
           request[r].stage \in Holding <=> stage \in Holding,
           stage # "operated" \/ KeyOf(r) \notin Own,
           stage # "nested" \/ KeyOf(r) \in Own,
           UNCHANGED <<table, lock, effect, given, used>>
    PROVE  IInv'
<1>1. /\ request' \in [Request -> Requests]
      /\ request'[r].stage = stage /\ KeyOf(r)' = KeyOf(r) /\ BodyOf(r)' = BodyOf(r)
      /\ \A q \in Request \ {r} : request'[q] = request[q]
  BY GotoType DEF IInv
<1>2. Typed' BY <1>1 DEF IInv, Typed
<1>3. Locks' BY GotoLocks
<1>4. Completed' /\ Exact' BY DEF IInv, Completed, Exact
<1>5. Done'
  <2>1. ASSUME NEW q \in Request, At(q, "operated")', KeyOf(q)' \in Own
        PROVE  effect'[KeyOf(q)'][BodyOf(q)'] >= 1
    <3>1. q # r BY <1>1, <2>1 DEF At
    <3> QED BY <1>1, <2>1, <3>1 DEF IInv, Done, At, KeyOf, BodyOf
  <2> QED BY <2>1 DEF IInv, Done
<1>6. Nested' BY <1>1 DEF IInv, Nested, At, KeyOf
<1>7. AnswerIsTrue' /\ NoTakeover' BY DEF IInv, AnswerIsTrue, NoTakeover
<1> QED BY <1>2, <1>3, <1>4, <1>5, <1>6, <1>7 DEF IInv

LEMMA BeginStep == ASSUME IInv, NEW r \in Request, Begin(r) PROVE IInv'
BY MoveStep DEF Begin, At, Open, Holding
LEMMA OperateStep == ASSUME IInv, NEW r \in Request, Operate(r) PROVE IInv'
BY MoveStep DEF Operate, At, Open, Holding
LEMMA OpenNestedStep == ASSUME IInv, NEW r \in Request, OpenNested(r) PROVE IInv'
BY MoveStep DEF OpenNested, At, Open, Holding

\* The transaction of the request ends and leaves rows and effects alone.
LEMMA CloseStep ==
    ASSUME IInv, NEW r \in Request, request[r].stage # "idle",
           NEW answers \in SUBSET {"done", "empty", "invalid", "reuse"},
           Close(r, answers), UNCHANGED <<table, effect>>,
           used' \in [requests : Nat, faults : Nat],
           (answers \cap {"done", "empty"} # {}) => effect[KeyOf(r)][BodyOf(r)] >= 1
    PROVE  IInv'
<1>0. answers \in SUBSET {"done", "empty", "invalid", "reuse", "in_progress"} OBVIOUS
<1>1. /\ request' \in [Request -> Requests] /\ request'[r] = Idle
      /\ \A q \in Request \ {r} : request'[q] = request[q]
      /\ lock' \in [Key -> Request \union {None}]
      /\ given' \subseteq Answers
      /\ given' = given \union {<<KeyOf(r), BodyOf(r), a>> : a \in answers}
  BY <1>0, CloseEffect
<1>2. Typed' BY <1>1 DEF IInv, Typed
<1>3. Locks' BY <1>0, CloseLocks
<1>4. Completed' /\ Exact' BY DEF IInv, Completed, Exact
<1>5. Done'
  <2>1. ASSUME NEW q \in Request, At(q, "operated")', KeyOf(q)' \in Own
        PROVE  effect'[KeyOf(q)'][BodyOf(q)'] >= 1
    <3>1. q # r BY <1>1, <2>1 DEF At, Idle
    <3> QED BY <1>1, <2>1, <3>1 DEF IInv, Done, At, KeyOf, BodyOf
  <2> QED BY <2>1 DEF IInv, Done
<1>6. AnswerIsTrue'
  <2>1. ASSUME NEW k \in Key, NEW b \in Body,
               <<k, b, "done">> \in given' \/ <<k, b, "empty">> \in given'
        PROVE  effect[k][b] >= 1
    <3>1. CASE <<k, b, "done">> \in given \/ <<k, b, "empty">> \in given
      BY <3>1 DEF IInv, AnswerIsTrue
    <3>2. CASE ~(<<k, b, "done">> \in given \/ <<k, b, "empty">> \in given)
      <4>1. k = KeyOf(r) /\ b = BodyOf(r) /\ answers \cap {"done", "empty"} # {}
        BY <1>1, <2>1, <3>2
      <4> QED BY <4>1
    <3> QED BY <3>1, <3>2
  <2> QED BY <2>1 DEF AnswerIsTrue
<1>7. NoTakeover' BY <1>1 DEF IInv, NoTakeover
<1>8. Nested' BY <1>1 DEF IInv, Nested, At, KeyOf, Idle
<1> QED BY <1>2, <1>3, <1>4, <1>5, <1>6, <1>7, <1>8 DEF IInv

LEMMA RefuseStep == ASSUME IInv, NEW r \in Request, Refuse(r) PROVE IInv'
BY CloseStep DEF Refuse, At, IInv, Typed
LEMMA FailStep == ASSUME IInv, NEW r \in Request, Fail(r) PROVE IInv'
<1>1. used' \in [requests : Nat, faults : Nat] BY DEF Fail, Fault, IInv, Typed
<1> QED BY <1>1, CloseStep DEF Fail, Open

\* What a row that is met answers is true of what was committed with it.
LEMMA KnownIsTrue ==
    ASSUME IInv, NEW k \in Key, NEW b \in Body, table[k] # NoRow
    PROVE  /\ Known(table[k], b) \in {"done", "empty", "reuse"}
           /\ Known(table[k], b) # "reuse" => effect[k][b] >= 1
<1>1. table[k].status = "completed" /\ table[k].answer \in {"done", "empty"}
  BY DEF IInv, Completed, Typed, Tables
<1>2. table[k].body = b => effect[k][b] >= 1
  <2>1. CASE k \in Own BY <2>1 DEF IInv, Done
  <2>2. CASE k \notin Own BY <2>2 DEF IInv, Exact
  <2> QED BY <2>1, <2>2
<1> QED BY <1>1, <1>2 DEF Known

LEMMA InsertKeyStep == ASSUME IInv, NEW r \in Request, InsertKey(r) PROVE IInv'
<1>1. /\ request[r].stage = "begun" /\ lock[KeyOf(r)] = None
      /\ UNCHANGED <<table, effect, used>>
  BY DEF InsertKey, At
<1>2. KeyOf(r) \in Key /\ BodyOf(r) \in Body BY <1>1, Underway DEF IInv
<1>3. CASE table[KeyOf(r)] # NoRow
  <2> DEFINE known == Known(table[KeyOf(r)], BodyOf(r))
  <2>1. Close(r, {known}) BY <1>3 DEF InsertKey
  <2>2. known \in {"done", "empty", "reuse"} /\ (known # "reuse" => effect[KeyOf(r)][BodyOf(r)] >= 1)
    BY <1>2, <1>3, KnownIsTrue
  <2> HIDE DEF known
  <2>3. used' \in [requests : Nat, faults : Nat] BY <1>1 DEF IInv, Typed
  <2> QED BY <1>1, <2>1, <2>2, <2>3, CloseStep
<1>4. CASE table[KeyOf(r)] = NoRow
  <2>1. Goto(r, "operating") /\ lock' = [lock EXCEPT ![KeyOf(r)] = r] /\ given' = given
    BY <1>4 DEF InsertKey
  <2>2. /\ request' \in [Request -> Requests]
        /\ request'[r].stage = "operating" /\ KeyOf(r)' = KeyOf(r)
        /\ \A q \in Request \ {r} : request'[q] = request[q]
    BY <1>1, <2>1, GotoType DEF IInv, Open
  <2>3. Typed' BY <1>1, <1>2, <2>1, <2>2 DEF IInv, Typed
  <2>4. Locks'
    <3>1. ASSUME NEW q \in Request, request'[q].stage \in Holding PROVE lock'[KeyOf(q)'] = q
      <4>1. CASE q = r BY <1>2, <2>1, <2>2, <4>1 DEF IInv, Typed
      <4>2. CASE q # r
        <5>1. lock[KeyOf(q)] = q /\ KeyOf(q) \in Key
          BY <2>2, <3>1, <4>2, Underway DEF IInv, Locks, Holding
        <5>2. KeyOf(q) # KeyOf(r) BY <1>1, <5>1, NoneAssumption
        <5> QED BY <2>1, <2>2, <4>2, <5>1, <5>2 DEF IInv, Typed, KeyOf
      <4> QED BY <4>1, <4>2
    <3>2. ASSUME NEW k \in Key, lock'[k] # None
          PROVE  /\ request'[lock'[k]].stage \in Holding /\ request'[lock'[k]].key = k
                 /\ table'[k] = NoRow
      <4>1. CASE k = KeyOf(r)
        <5>1. lock'[k] = r BY <1>2, <2>1, <4>1 DEF IInv, Typed
        <5> QED BY <1>1, <1>4, <2>2, <4>1, <5>1 DEF Holding, KeyOf
      <4>2. CASE k # KeyOf(r)
        <5>1. lock'[k] = lock[k] /\ lock[k] \in Request BY <2>1, <3>2, <4>2 DEF IInv, Typed
        <5>2. lock[k] # r BY <1>1, <3>2, <5>1 DEF IInv, Locks, Holding
        <5> QED BY <1>1, <2>2, <3>2, <5>1, <5>2 DEF IInv, Locks, KeyOf
      <4> QED BY <4>1, <4>2
    <3> QED BY <3>1, <3>2 DEF Locks, KeyOf
  <2>5. Completed' /\ Exact' BY <1>1 DEF IInv, Completed, Exact
  <2>6. Done'
    <3>1. ASSUME NEW q \in Request, At(q, "operated")', KeyOf(q)' \in Own
          PROVE  effect'[KeyOf(q)'][BodyOf(q)'] >= 1
      <4>1. q # r BY <2>2, <3>1 DEF At
      <4> QED BY <1>1, <2>2, <3>1, <4>1 DEF IInv, Done, At, KeyOf, BodyOf
    <3> QED BY <1>1, <3>1 DEF IInv, Done
  <2>7. AnswerIsTrue' /\ NoTakeover' BY <1>1, <2>1 DEF IInv, AnswerIsTrue, NoTakeover
  <2>8. Nested' BY <2>2 DEF IInv, Nested, At, KeyOf
  <2> QED BY <2>3, <2>4, <2>5, <2>6, <2>7, <2>8 DEF IInv
<1> QED BY <1>3, <1>4

\* An effect is committed: the counts of one key and body grow by one.
LEMMA EffectGrows ==
    ASSUME Typed, NEW r \in Request, request[r].stage # "idle", NEW n \in Nat,
           effect' = [effect EXCEPT ![KeyOf(r)][BodyOf(r)] = @ + n]
    PROVE  /\ effect' \in [Key -> [Body -> Nat]]
           /\ \A k \in Key, b \in Body : effect'[k][b] =
                 IF k = KeyOf(r) /\ b = BodyOf(r) THEN effect[k][b] + n ELSE effect[k][b]
           /\ \A k \in Key, b \in Body : effect'[k][b] >= effect[k][b]
<1>1. KeyOf(r) \in Key /\ BodyOf(r) \in Body BY Underway
<1>2. effect \in [Key -> [Body -> Nat]] BY DEF Typed
<1> QED BY <1>1, <1>2

LEMMA CommitNestedStep == ASSUME IInv, NEW r \in Request, CommitNested(r) PROVE IInv'
<1>1. /\ request[r].stage = "nested" /\ Goto(r, "operated")
      /\ effect' = [effect EXCEPT ![KeyOf(r)][BodyOf(r)] = @ + 1]
      /\ UNCHANGED <<table, lock, given, used>>
  BY DEF CommitNested, At
<1>2. /\ request' \in [Request -> Requests]
      /\ request'[r].stage = "operated" /\ KeyOf(r)' = KeyOf(r) /\ BodyOf(r)' = BodyOf(r)
      /\ \A q \in Request \ {r} : request'[q] = request[q]
  BY <1>1, GotoType DEF IInv, Open
<1>3. KeyOf(r) \in Key /\ BodyOf(r) \in Body BY <1>1, Underway DEF IInv
<1>4. /\ effect' \in [Key -> [Body -> Nat]]
      /\ \A k \in Key, b \in Body : effect'[k][b] =
            IF k = KeyOf(r) /\ b = BodyOf(r) THEN effect[k][b] + 1 ELSE effect[k][b]
      /\ \A k \in Key, b \in Body : effect'[k][b] >= effect[k][b]
  BY <1>1, EffectGrows DEF IInv
<1>5. effect \in [Key -> [Body -> Nat]] BY DEF IInv, Typed
<1>6. Typed' BY <1>1, <1>2, <1>4 DEF IInv, Typed
<1>7. Locks' BY <1>1, GotoLocks DEF Open, Holding
<1>8. Completed' BY <1>1 DEF IInv, Completed
<1>9. KeyOf(r) \in Own BY <1>1 DEF IInv, Nested, At
<1>10. Exact' BY <1>1, <1>3, <1>4, <1>5, <1>9 DEF IInv, Exact
<1>11. Done'
  <2>1. \A k \in Key, b \in Body : effect[k][b] >= 1 => effect'[k][b] >= 1
    BY <1>4, <1>5
  <2>2. ASSUME NEW q \in Request, At(q, "operated")', KeyOf(q)' \in Own
        PROVE  effect'[KeyOf(q)'][BodyOf(q)'] >= 1
    <3>1. CASE q = r BY <1>2, <1>3, <1>4, <1>5, <3>1
    <3>2. CASE q # r
      <4>1. request[q].stage = "operated" /\ KeyOf(q)' = KeyOf(q) /\ BodyOf(q)' = BodyOf(q)
        BY <1>2, <2>2, <3>2 DEF At, KeyOf, BodyOf
      <4>2. KeyOf(q) \in Key /\ BodyOf(q) \in Body BY <4>1, Underway DEF IInv
      <4> QED BY <2>1, <2>2, <4>1, <4>2 DEF IInv, Done, At
    <3> QED BY <3>1, <3>2
  <2>3. \A k \in Own : k \in Key BY IdempotencyAssumption
  <2> QED BY <1>1, <2>1, <2>2, <2>3 DEF IInv, Done
<1>12. Nested' BY <1>2 DEF IInv, Nested, At, KeyOf
<1>13. AnswerIsTrue' BY <1>1, <1>4, <1>5 DEF IInv, AnswerIsTrue
<1>14. NoTakeover' BY <1>1 DEF IInv, NoTakeover
<1> QED BY <1>6, <1>7, <1>8, <1>10, <1>11, <1>12, <1>13, <1>14 DEF IInv

\* COMMIT: the row and, for an operation inside the transaction, its effect.
LEMMA CompleteStep ==
    ASSUME IInv, NEW r \in Request, NEW answers \in SUBSET {"done"}, Complete(r, answers),
           used' \in [requests : Nat, faults : Nat]
    PROVE  IInv'
<1> DEFINE n == CommittedByOuter(KeyOf(r))
           new == [status |-> "completed", body |-> BodyOf(r), answer |-> StoredAnswer(KeyOf(r))]
<1>1. /\ request[r].stage = "operated" /\ Close(r, answers)
      /\ effect' = [effect EXCEPT ![KeyOf(r)][BodyOf(r)] = @ + n]
      /\ table' = [table EXCEPT ![KeyOf(r)] = new]
  BY DEF Complete, At
<1>2. KeyOf(r) \in Key /\ BodyOf(r) \in Body BY <1>1, Underway DEF IInv
<1>3. n = (IF KeyOf(r) \in Own THEN 0 ELSE 1) BY DEF CommittedByOuter
<1>4. /\ new \in Tables /\ new # NoRow /\ new.status = "completed"
      /\ new.body = BodyOf(r)
  <2>1. new.status = "completed" /\ NoRow.status = "none" BY DEF NoRow
  <2>2. new \in Tables BY <1>2 DEF Tables, StoredAnswer
  <2> QED BY <2>1, <2>2
<1> HIDE DEF n, new
<1>5. n \in Nat BY <1>3
<1>6. answers \in SUBSET {"done", "empty", "invalid", "reuse", "in_progress"} OBVIOUS
<1>7. /\ request' \in [Request -> Requests] /\ request'[r] = Idle
      /\ \A q \in Request \ {r} : request'[q] = request[q]
      /\ lock' \in [Key -> Request \union {None}]
      /\ given' \subseteq Answers
      /\ given' = given \union {<<KeyOf(r), BodyOf(r), a>> : a \in answers}
  BY <1>1, <1>6, CloseEffect
<1>8. /\ effect' \in [Key -> [Body -> Nat]]
      /\ \A k \in Key, b \in Body : effect'[k][b] =
            IF k = KeyOf(r) /\ b = BodyOf(r) THEN effect[k][b] + n ELSE effect[k][b]
      /\ \A k \in Key, b \in Body : effect'[k][b] >= effect[k][b]
  BY <1>1, <1>5, EffectGrows DEF IInv
<1>9. effect \in [Key -> [Body -> Nat]] BY DEF IInv, Typed
<1>10. /\ table' \in [Key -> Tables]
       /\ \A k \in Key : table'[k] = IF k = KeyOf(r) THEN new ELSE table[k]
  BY <1>1, <1>2, <1>4 DEF IInv, Typed
<1>11. lock[KeyOf(r)] = r BY <1>1 DEF IInv, Locks, Holding
<1>12. table[KeyOf(r)] = NoRow
  BY <1>2, <1>11, NoneAssumption DEF IInv, Locks
<1>13. Typed' BY <1>7, <1>8, <1>10 DEF IInv, Typed
<1>14. Locks'
  <2>1. \A k \in Key : lock[k] # r => table'[k] = table[k] BY <1>10, <1>11
  <2> QED BY <1>1, <1>6, <2>1, CloseLocks
<1>15. Completed' BY <1>4, <1>10 DEF IInv, Completed
<1>16. Exact'
  <2>1. ASSUME NEW k \in Key \ Own, NEW b \in Body
        PROVE  effect'[k][b] = IF table'[k] # NoRow /\ table'[k].body = b THEN 1 ELSE 0
    <3>1. CASE k = KeyOf(r)
      <4>1. effect[k][b] = 0 BY <1>12, <3>1 DEF IInv, Exact
      <4> QED BY <1>3, <1>4, <1>8, <1>10, <3>1, <4>1
    <3>2. CASE k # KeyOf(r) BY <1>8, <1>10, <3>2 DEF IInv, Exact
    <3> QED BY <3>1, <3>2
  <2> QED BY <2>1 DEF Exact
<1>17. effect'[KeyOf(r)][BodyOf(r)] >= 1
  <2>1. CASE KeyOf(r) \in Own
    <3>1. effect[KeyOf(r)][BodyOf(r)] >= 1 BY <1>1, <2>1 DEF IInv, Done, At
    <3> QED BY <1>2, <1>8, <1>9, <3>1
  <2>2. CASE KeyOf(r) \notin Own BY <1>2, <1>3, <1>8, <1>9, <2>2
  <2> QED BY <2>1, <2>2
<1>18. \A k \in Key, b \in Body : effect[k][b] >= 1 => effect'[k][b] >= 1
  BY <1>8, <1>9
<1>19. Done'
  <2>1. ASSUME NEW q \in Request, At(q, "operated")', KeyOf(q)' \in Own
        PROVE  effect'[KeyOf(q)'][BodyOf(q)'] >= 1
    <3>1. q # r BY <1>7, <2>1 DEF At, Idle
    <3>2. request[q].stage = "operated" /\ KeyOf(q)' = KeyOf(q) /\ BodyOf(q)' = BodyOf(q)
      BY <1>7, <2>1, <3>1 DEF At, KeyOf, BodyOf
    <3>3. KeyOf(q) \in Key /\ BodyOf(q) \in Body BY <3>2, Underway DEF IInv
    <3> QED BY <1>18, <2>1, <3>2, <3>3 DEF IInv, Done, At
  <2>2. ASSUME NEW k \in Own, NEW b \in Body, table'[k] # NoRow, table'[k].body = b
        PROVE  effect'[k][b] >= 1
    <3>1. k \in Key BY IdempotencyAssumption
    <3>2. CASE k = KeyOf(r) BY <1>4, <1>10, <1>17, <2>2, <3>1, <3>2
    <3>3. CASE k # KeyOf(r) BY <1>10, <1>18, <2>2, <3>1, <3>3 DEF IInv, Done
    <3> QED BY <3>2, <3>3
  <2> QED BY <2>1, <2>2 DEF Done
<1>20. Nested' BY <1>7 DEF IInv, Nested, At, KeyOf, Idle
<1>21. AnswerIsTrue'
  <2>1. ASSUME NEW k \in Key, NEW b \in Body,
               <<k, b, "done">> \in given' \/ <<k, b, "empty">> \in given'
        PROVE  effect'[k][b] >= 1
    <3>1. CASE <<k, b, "done">> \in given \/ <<k, b, "empty">> \in given
      BY <1>18, <3>1 DEF IInv, AnswerIsTrue
    <3>2. CASE ~(<<k, b, "done">> \in given \/ <<k, b, "empty">> \in given)
      <4>1. k = KeyOf(r) /\ b = BodyOf(r) BY <1>7, <2>1, <3>2
      <4> QED BY <1>17, <4>1
    <3> QED BY <3>1, <3>2
  <2> QED BY <2>1 DEF AnswerIsTrue
<1>22. NoTakeover' BY <1>7 DEF IInv, NoTakeover
<1> QED BY <1>13, <1>14, <1>15, <1>16, <1>19, <1>20, <1>21, <1>22 DEF IInv

LEMMA ReplyStep == ASSUME IInv, NEW r \in Request, Reply(r) PROVE IInv'
BY CompleteStep DEF Reply, IInv, Typed
LEMMA LoseReplyStep == ASSUME IInv, NEW r \in Request, LoseReply(r) PROVE IInv'
<1>1. used' \in [requests : Nat, faults : Nat] BY DEF LoseReply, Fault, IInv, Typed
<1> QED BY <1>1, CompleteStep DEF LoseReply

LEMMA NextStep == IInv /\ [Next]_vars => IInv'
<1> SUFFICES ASSUME IInv, [Next]_vars PROVE IInv' OBVIOUS
<1>1. ASSUME NEW r \in Request, NEW k \in Key, NEW b \in Body, Arrive(r, k, b) PROVE IInv'
  BY <1>1, ArriveStep
<1>2. ASSUME NEW r \in Request, Step(r) PROVE IInv'
  BY <1>2, BeginStep, InsertKeyStep, OperateStep, OpenNestedStep, CommitNestedStep,
     RefuseStep, ReplyStep DEF Step
<1>3. ASSUME NEW r \in Request, LoseReply(r) \/ Fail(r) PROVE IInv'
  BY <1>3, LoseReplyStep, FailStep
<1>4. CASE UNCHANGED vars
  <2> USE <1>4 DEF vars
  <2>1. Typed' /\ Locks' /\ Completed' /\ Exact' BY DEF IInv, Typed, Locks, Completed, Exact, KeyOf
  <2>2. Done' /\ Nested' BY DEF IInv, Done, Nested, At, KeyOf, BodyOf
  <2>3. AnswerIsTrue' /\ NoTakeover' BY DEF IInv, AnswerIsTrue, NoTakeover
  <2> QED BY <2>1, <2>2, <2>3 DEF IInv
<1> QED BY <1>1, <1>2, <1>3, <1>4 DEF Next

\* The invariant above holds in every behaviour.
THEOREM Invariant == Spec => []IInv
<1> QED BY InitHolds, NextStep, PTL DEF Spec

\* Type correctness, for any number of clients, keys and failures.
THEOREM TypeCorrect == Spec => []TypeOK
<1>1. IInv => TypeOK BY TypeParts DEF IInv
<1> QED BY <1>1, Invariant, PTL

\* However often a request is repeated and whatever fails, an operation inside the
\* transaction of its key happens once, for one body.
THEOREM OnceOnly == Spec => []AtMostOnce
<1>1. IInv => AtMostOnce
  <2> SUFFICES ASSUME IInv, NEW k \in Key \ Own, NEW b \in Body, NEW c \in Body
               PROVE  effect[k][b] <= 1 /\ (b # c => effect[k][b] = 0 \/ effect[k][c] = 0)
    BY DEF AtMostOnce
  <2> QED BY DEF IInv, Exact
<1> QED BY <1>1, Invariant, PTL

\* Nobody is told of success that was not committed, also when the answer repeats
\* another request's.
THEOREM AnswersAreTrue == Spec => []AnswerIsTrue
<1>1. IInv => AnswerIsTrue BY DEF IInv
<1> QED BY <1>1, Invariant, PTL

\* The answer 409 for a key under way, and with it the takeover, is unreachable: who
\* inserts a key waits for the transaction that holds it.
THEOREM TakeoverUnreachable == Spec => []NoTakeover
<1>1. IInv => NoTakeover BY DEF IInv
<1> QED BY <1>1, Invariant, PTL
=============================================================================
