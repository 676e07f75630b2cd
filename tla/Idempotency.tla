----------------------------- MODULE Idempotency -----------------------------
(***************************************************************************)
(* Idempotency-Key on the writes of /api/v1: runIdempotent                 *)
(* (apps/web/src/lib/api/authenticate.ts) opens a transaction on one of    *)
(* the pool's connections, withIdempotency (idempotency.ts) inserts the    *)
(* key, runs the operation and stores its answer, and the transaction      *)
(* commits.  Most operations write through that transaction.  Those of     *)
(* Own, POST /transactional, ignore it and open one of their own on a      *)
(* second connection.  Clients repeat what they got no answer to, the      *)
(* server or a connection may fail anywhere, the reply may be lost.        *)
(***************************************************************************)
EXTENDS Naturals, FiniteSets

CONSTANTS
    Request,      \* places for requests under way
    Key, Body,
    Own,          \* keys of operations with a transaction of their own
    Big,          \* keys whose answer is longer than MAX_STORED_RESPONSE_BYTES
    Connections,  \* size of the pool
    MaxRequests,  \* bound: requests that come
    MaxFaults     \* bound: failures and lost replies

ASSUME IdempotencyAssumption ==
    /\ Own \subseteq Key /\ Big \subseteq Key
    /\ Connections \in Nat \ {0} /\ MaxRequests \in Nat /\ MaxFaults \in Nat

None == "none"
ASSUME NoneAssumption == None \notin Request

VARIABLES
    request,  \* where each request is
    table,    \* committed rows of idempotency_keys
    lock,     \* the open transaction that has inserted a key
    effect,   \* how often the operation has been committed, by key and body
    given,    \* answers clients have received: <<key, body, answer>>
    used      \* how much of each bound has been used

vars == <<request, table, lock, effect, given, used>>

Idle == [stage |-> "idle"]
NoRow == [status |-> "none"]
Open == {"begun", "operating", "nested", "operated"}

Init ==
    /\ request = [r \in Request |-> Idle]
    /\ table = [k \in Key |-> NoRow]
    /\ lock = [k \in Key |-> None]
    /\ effect = [k \in Key |-> [b \in Body |-> 0]]
    /\ given = {}
    /\ used = [requests |-> 0, faults |-> 0]

KeyOf(r) == request[r].key
BodyOf(r) == request[r].body
At(r, stage) == request[r].stage = stage
Goto(r, stage) == request' = [request EXCEPT ![r].stage = stage]

\* pool.connect() waits for a free connection, without a time limit.
Taken == Cardinality({r \in Request : request[r].stage \in Open})
         + Cardinality({r \in Request : At(r, "nested")})
FreeConnection == Taken < Connections

\* (mutant) A transaction is left open.
CloseLeaking(r, answers) ==
    /\ request' = [request EXCEPT ![r] = Idle]
    /\ lock' = lock
    /\ given' = given \union {<<KeyOf(r), BodyOf(r), a>> : a \in answers}

\* The transaction ends one way or the other, its connection and its lock are free
\* again, and the client hears `answer`, or nothing.
Close(r, answers) ==
    /\ request' = [request EXCEPT ![r] = Idle]
    /\ lock' = [k \in Key |-> IF lock[k] = r THEN None ELSE lock[k]]
    /\ given' = given \union {<<KeyOf(r), BodyOf(r), a>> : a \in answers}

-----------------------------------------------------------------------------
Arrive(r, k, b) ==
    /\ At(r, "idle") /\ used.requests < MaxRequests
    /\ request' = [request EXCEPT ![r] = [stage |-> "arrived", key |-> k, body |-> b]]
    /\ used' = [used EXCEPT !.requests = @ + 1]
    /\ UNCHANGED <<table, lock, effect, given>>

Begin(r) ==
    /\ At(r, "arrived") /\ FreeConnection
    /\ Goto(r, "begun")
    /\ UNCHANGED <<table, lock, effect, given, used>>

\* (mutant) The fingerprint is not compared.
KnownByKey(row, b) == IF row.status # "completed" THEN "in_progress" ELSE row.answer

\* What withIdempotency answers when the key is there already.
Known(row, b) ==
    IF row.status # "completed" THEN "in_progress"
    ELSE IF row.body # b THEN "reuse" ELSE row.answer

\* (mutants) The key is looked up first, and the lookup sees only what is committed;
\* the key is committed before the operation begins.
InsertKeyUnlocked(r) ==
    /\ At(r, "begun")
    /\ IF table[KeyOf(r)] = NoRow
       THEN /\ lock' = [lock EXCEPT ![KeyOf(r)] = r]
            /\ Goto(r, "operating")
            /\ UNCHANGED given
       ELSE Close(r, {Known(table[KeyOf(r)], BodyOf(r))})
    /\ UNCHANGED <<table, effect, used>>
InsertKeyCommitted(r) ==
    /\ At(r, "begun")
    /\ IF table[KeyOf(r)] = NoRow
       THEN /\ table' = [table EXCEPT ![KeyOf(r)] =
                  [status |-> "in_progress", body |-> BodyOf(r), answer |-> "done"]]
            /\ Goto(r, "operating")
            /\ UNCHANGED <<lock, given>>
       ELSE Close(r, {Known(table[KeyOf(r)], BodyOf(r))}) /\ UNCHANGED table
    /\ UNCHANGED <<effect, used>>

\* INSERT ... ON CONFLICT DO NOTHING: waits for an open transaction that has inserted
\* the key, and then sees what that one committed.
InsertKey(r) ==
    /\ At(r, "begun") /\ lock[KeyOf(r)] = None
    /\ IF table[KeyOf(r)] = NoRow
       THEN /\ lock' = [lock EXCEPT ![KeyOf(r)] = r]
            /\ Goto(r, "operating")
            /\ UNCHANGED given
       ELSE Close(r, {Known(table[KeyOf(r)], BodyOf(r))})
    /\ UNCHANGED <<table, effect, used>>

\* The operation writes through the transaction it was given.
Operate(r) ==
    /\ At(r, "operating") /\ KeyOf(r) \notin Own
    /\ Goto(r, "operated")
    /\ UNCHANGED <<table, lock, effect, given, used>>

\* sendTransactional opens another transaction while the first is held.
OpenNested(r) ==
    /\ At(r, "operating") /\ KeyOf(r) \in Own /\ FreeConnection
    /\ Goto(r, "nested")
    /\ UNCHANGED <<table, lock, effect, given, used>>

CommitNested(r) ==
    /\ At(r, "nested")
    /\ effect' = [effect EXCEPT ![KeyOf(r)][BodyOf(r)] = @ + 1]
    /\ Goto(r, "operated")
    /\ UNCHANGED <<table, lock, given, used>>

\* The operation refuses its input: a 4xx is thrown on, and with it goes the row.
Refuse(r) ==
    /\ \/ At(r, "operating") /\ KeyOf(r) \notin Own
       \/ At(r, "nested")
    /\ Close(r, {"invalid"})
    /\ UNCHANGED <<table, effect, used>>

\* (mutant) What is too long is stored as undefined.
StoredAnswerAbsent(k) == IF k \in Big THEN "undefined" ELSE "done"

\* The answer stored with the key, and COMMIT.
StoredAnswer(k) == IF k \in Big THEN "empty" ELSE "done"
CommittedByOuter(k) == IF k \in Own THEN 0 ELSE 1
Complete(r, answers) ==
    /\ At(r, "operated")
    /\ table' = [table EXCEPT ![KeyOf(r)] =
          [status |-> "completed", body |-> BodyOf(r), answer |-> StoredAnswer(KeyOf(r))]]
    /\ effect' = [effect EXCEPT ![KeyOf(r)][BodyOf(r)] = @ + CommittedByOuter(KeyOf(r))]
    /\ Close(r, answers)

Reply(r) == Complete(r, {"done"}) /\ UNCHANGED used

Fault == used.faults < MaxFaults /\ used' = [used EXCEPT !.faults = @ + 1]
LoseReply(r) == Complete(r, {}) /\ Fault

\* A connection or the server fails before COMMIT: what was not committed is undone.
\* A failure the server survives is answered with 500.
Fail(r) ==
    /\ request[r].stage \in Open /\ Fault
    /\ Close(r, {})
    /\ UNCHANGED <<table, effect>>

Step(r) ==
    \/ Begin(r) \/ InsertKey(r) \/ Operate(r) \/ OpenNested(r)
    \/ CommitNested(r) \/ Refuse(r) \/ Reply(r)

Next ==
    \/ \E r \in Request, k \in Key, b \in Body : Arrive(r, k, b)
    \/ \E r \in Request : Step(r) \/ LoseReply(r) \/ Fail(r)

\* Connections and locks are granted in the order of asking.
Fairness == \A r \in Request :
    /\ SF_vars(Begin(r)) /\ SF_vars(InsertKey(r)) /\ SF_vars(OpenNested(r))
    /\ WF_vars(Operate(r)) /\ WF_vars(CommitNested(r)) /\ WF_vars(Reply(r))

Spec == Init /\ [][Next]_vars
FairSpec == Spec /\ Fairness

-----------------------------------------------------------------------------
\* Properties

TypeOK ==
    /\ request \in [Request -> {Idle} \union
          [stage : {"arrived"} \union Open, key : Key, body : Body]]
    /\ table \in [Key -> {NoRow} \union
          [status : {"in_progress", "completed"}, body : Body, answer : {"done", "empty"}]]
    /\ lock \in [Key -> Request \union {None}]
    /\ effect \in [Key -> [Body -> Nat]]
    /\ given \subseteq Key \X Body \X {"done", "empty", "invalid", "reuse", "in_progress"}
    /\ used \in [requests : Nat, faults : Nat]

\* However often a request is repeated, by however many requests at once, and whatever
\* fails, an operation that writes through the transaction of its key happens once, for
\* one body.
AtMostOnce == \A k \in Key \ Own, b, c \in Body :
    /\ effect[k][b] <= 1
    /\ (b # c) => (effect[k][b] = 0 \/ effect[k][c] = 0)

\* A client is told "done" only of what has been committed, for the body it sent, also
\* when the answer is a repetition of another request's.
AnswerIsTrue == \A k \in Key, b \in Body :
    (<<k, b, "done">> \in given \/ <<k, b, "empty">> \in given) => effect[k][b] >= 1

\* Nobody ever meets a row that is not completed: the 409 for a request under way and
\* the takeover after LOCK_TAKEOVER_SECONDS are never reached.
NoTakeover == \A k \in Key, b \in Body : <<k, b, "in_progress">> \notin given

\* A request that holds a connection and waits for the pool to give it another.
AsksAgain(r) == At(r, "operating") /\ KeyOf(r) \in Own

\* Every connection is held by a request that waits for another connection, or for the
\* key of one that does: none of them can go on, and nobody outside can begin.
Clogged == ~FreeConnection /\ \A r \in Request : request[r].stage \in Open =>
    AsksAgain(r) \/ (At(r, "begun") /\ lock[KeyOf(r)] # None /\ AsksAgain(lock[KeyOf(r)]))

\* Requests wait for a connection, for a second one and for the keys of others, and all
\* of them end, unless the pool is clogged: that is the only way to wait forever.
EveryRequestEnds == \A r \in Request :
    (request[r] # Idle) ~> (request[r] = Idle \/ Clogged)

\* The pool serves everybody in the end: what a pool without a time limit is used for.
NeverClogged == ~Clogged

\* Repeating POST /transactional sends no second mail (transactional.routes.ts).
NoSecondMail == \A k \in Own, b \in Body : effect[k][b] <= 1

\* A refused request is refused again when it is repeated (idempotency.ts, on 4xx).
RefusalIsKept == \A k \in Key, b \in Body :
    ~({<<k, b, "invalid">>, <<k, b, "done">>} \subseteq given)

\* A repeated request gets the body of the first answer.
ReplayIsWhole == \A k \in Key, b \in Body : <<k, b, "empty">> \notin given
=============================================================================
