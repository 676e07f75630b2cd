---------------------------- MODULE ContactProofs ----------------------------
(***************************************************************************)
(* Theorems about Contact, for any requests, lists and reasons.            *)
(*                                                                         *)
(* The invariant says of every request under way what it may rely on (a    *)
(* removal was asked for a reason that may be removed, who had opted out   *)
(* is on the suppression list), that an opt-out is on the row until it     *)
(* leaves, that the contact's status is the row's, and that a confirmed    *)
(* subscription has its proof or somebody who is about to record it.       *)
(***************************************************************************)
EXTENDS Contact, TLAPS

Rows == [live : BOOLEAN, id : Nat, reason : Reason]
Pasts == [out : BOOLEAN, derived : BOOLEAN, undone : BOOLEAN, unproven : SUBSET List,
          links : Nat]
Bounds == [requests : Nat, faults : Nat]
Adding == [stage : {"adding"}, reason : Reason, all : BOOLEAN, seen : Reason \union {NoRow}]
Removing == [stage : {"removing"}, id : Nat, seen : Reason]
Subscribing == [stage : {"checked", "read", "deciding", "asking", "issuing", "confirming",
                         "granting"},
                list : List, by : {"subscribe"}, declared : BOOLEAN, soft : BOOLEAN,
                out : BOOLEAN, late : BOOLEAN, status : Statuses]
Following == [stage : {"following", "lifting", "confirming", "granting", "activating",
                       "reissuing", "demoting"},
              list : List, by : {"link"}, token : Nat, left : BOOLEAN,
              late : BOOLEAN, opted : Nat]
Requests == {Idle} \union Adding \union Removing \union Subscribing \union Following

\* What the variables other than the requests are.
Plain ==
    /\ row \in Rows /\ status \in Statuses
    /\ sub \in [List -> SubStates] /\ consent \in [List -> {"none", "granted", "withdrawn"}]
    /\ link \in [List -> Nat] /\ past \in Pasts /\ used \in Bounds
Typed == Plain /\ request \in [Request -> Requests]

LEMMA TypeParts == TypeOK <=> Typed
BY DEF TypeOK, Typed, Plain, Rows, Pasts, Bounds, Adding, Removing, Subscribing, Following,
       Requests

\* What a request may rely on.
Sound(q) ==
    /\ q \in Adding => (q.all => q.reason \in OptOut)
    /\ q \in Removing => CanRemove(q.seen)
    /\ q \in Subscribing =>
          /\ q.out => q.soft
          /\ (q.out /\ q.stage \in {"confirming", "granting"}) => q.list \in Single
Asked == \A r \in Request : Sound(request[r])

\* An opt-out is on the row, or something stricter is.
OutOnRow == past.out => row.live /\ Rank[row.reason] <= 5

IInv == Typed /\ Asked /\ OutOnRow /\ EffectsApplied /\ ConfirmedHasProof

-----------------------------------------------------------------------------
\* Reasons and their effects

LEMMA Ranks ==
    /\ \A x \in Reason : Rank[x] \in Nat
    /\ \A x \in OptOut : x \in Reason /\ Rank[x] <= 5
    /\ \A x \in Reason : Rank[x] <= 5 /\ CanRemove(x) => x = "hard_bounce"
    /\ \A x \in Reason : CanRemove(x) \/ Clears(x) => x \notin NotRemovable
    /\ NoRow \notin Reason
BY DEF Rank, Reason, OptOut, CanRemove, Clears, NotRemovable, NoRow

\* A status that a reason sets, the erasure's excepted, is one that no request takes away
\* again.
LEMMA StatusSet ==
    ASSUME NEW reason \in Reason, status \in Statuses
    PROVE  /\ StatusFor(reason) \in Statuses
           /\ StatusFor(reason) \in Locked \union {"deleted"} \/ StatusFor(reason) = status
           /\ status \in Locked \/ reason \in {"gdpr_erasure", "import", "manual"}
                 \/ StatusFor(reason) \in Locked
BY DEF StatusFor, Statuses, Locked, OptOut, Reason, Rank

LEMMA SubSet ==
    ASSUME NEW reason \in Reason, NEW s \in SubStates
    PROVE  /\ SubFor(reason, s) \in SubStates
           /\ SubFor(reason, s) = "confirmed" => s = "confirmed" /\ ~Withdraws(reason)
BY DEF SubFor, SubStates, OptOut, Reason, Rank, Withdraws

LEMMA Kinds ==
    ASSUME Typed, NEW r \in Request
    PROVE  /\ At(r, "adding") => request[r] \in Adding
           /\ At(r, "removing") => request[r] \in Removing
           /\ request[r].stage \in {"checked", "read", "deciding", "asking", "issuing"}
                 => request[r] \in Subscribing
           /\ request[r].stage \in {"following", "lifting", "activating", "reissuing",
                                    "demoting"} => request[r] \in Following
           /\ request[r].stage \in {"confirming", "granting"}
                 => request[r] \in Subscribing \/ request[r] \in Following
           /\ request[r].stage \in {"idle", "adding", "removing"}
                 => request[r] \in {Idle} \union Adding \union Removing
<1>1. request[r] \in Requests BY DEF Typed
<1>2. CASE request[r] = Idle BY <1>2 DEF Idle, At
<1>3. CASE request[r] \in Adding BY <1>3 DEF Adding, At
<1>4. CASE request[r] \in Removing BY <1>4 DEF Removing, At
<1>5. CASE request[r] \in Subscribing BY <1>5 DEF Subscribing, At
<1>6. CASE request[r] \in Following BY <1>6 DEF Following, At
<1> QED BY <1>1, <1>2, <1>3, <1>4, <1>5, <1>6 DEF Requests

LEMMA IdleSound == Idle \in Requests /\ Sound(Idle) /\ Idle.stage = "idle"
BY DEF Idle, Requests, Sound, Adding, Removing, Subscribing

LEMMA InitHolds == Init => IInv
<1> SUFFICES ASSUME Init PROVE IInv OBVIOUS
<1> USE DEF Init
<1>1. Typed
  <2>1. row \in Rows BY DEF Rows, Reason, Rank
  <2>2. past \in Pasts /\ used \in Bounds BY DEF Pasts, Bounds
  <2>3. status \in Statuses /\ "none" \in SubStates BY DEF Statuses, SubStates
  <2> QED BY <2>1, <2>2, <2>3, IdleSound DEF Typed, Plain
<1>2. Asked BY IdleSound DEF Asked
<1>3. OutOnRow /\ EffectsApplied BY DEF OutOnRow, EffectsApplied, StatusOfRow
<1>4. ConfirmedHasProof BY DEF ConfirmedHasProof
<1> QED BY <1>1, <1>2, <1>3, <1>4 DEF IInv

\* A step of one request: what it has to show when it ends in `x`.
LEMMA OneStep ==
    ASSUME IInv, NEW r \in Request, NEW x \in Requests, Sound(x),
           request' = [request EXCEPT ![r] = x],
           Plain', OutOnRow', EffectsApplied',
           \A l \in List : sub'[l] = "confirmed" =>
              \/ consent'[l] = "granted" \/ l \in past'.unproven
              \/ x.stage = "granting" /\ x.list = l
              \/ /\ sub[l] = "confirmed" /\ consent'[l] = consent[l]
                 /\ l \in past.unproven => l \in past'.unproven
                 /\ ~(At(r, "granting") /\ request[r].list = l)
    PROVE  IInv'
<1>1. \A q \in Request : request'[q] = IF q = r THEN x ELSE request[q] BY DEF IInv, Typed
<1>2. Typed' BY DEF IInv, Typed
<1>3. Asked'
  <2>1. \A q \in Request : Sound(request'[q]) BY <1>1 DEF IInv, Asked
  <2> QED BY <2>1 DEF Asked
<1>4. ConfirmedHasProof'
  <2> SUFFICES ASSUME NEW l \in List, sub'[l] = "confirmed",
                      consent'[l] # "granted", l \notin past'.unproven
               PROVE  \E q \in Request : request'[q].stage = "granting" /\ request'[q].list = l
    BY DEF ConfirmedHasProof, At
  <2>1. CASE x.stage = "granting" /\ x.list = l BY <1>1, <2>1
  <2>2. CASE /\ sub[l] = "confirmed" /\ consent'[l] = consent[l]
             /\ l \in past.unproven => l \in past'.unproven
             /\ ~(At(r, "granting") /\ request[r].list = l)
    <3>1. PICK q \in Request : At(q, "granting") /\ request[q].list = l
      BY <2>2 DEF IInv, ConfirmedHasProof
    <3> QED BY <1>1, <2>2, <3>1 DEF At
  <2> QED BY <2>1, <2>2
<1> QED BY <1>2, <1>3, <1>4 DEF IInv

\* A step that changes neither the row nor the contact, its lists and consents.
LEMMA QuietStep ==
    ASSUME IInv, NEW r \in Request, NEW x \in Requests, Sound(x),
           request' = [request EXCEPT ![r] = x], ~At(r, "granting"),
           UNCHANGED <<row, data>>, link' \in [List -> Nat],
           past' \in Pasts, used' \in Bounds,
           past'.out = past.out, past'.derived = past.derived, past'.undone = past.undone,
           past'.unproven = past.unproven
    PROVE  IInv'
<1> USE DEF data
<1>1. Plain' BY DEF IInv, Typed, Plain
<1>2. OutOnRow' BY DEF IInv, OutOnRow
<1>3. EffectsApplied' BY DEF IInv, EffectsApplied, StatusOfRow, StatusFor
<1>4. ASSUME NEW l \in List, sub'[l] = "confirmed"
      PROVE  \/ consent'[l] = "granted" \/ l \in past'.unproven
             \/ x.stage = "granting" /\ x.list = l
             \/ /\ sub[l] = "confirmed" /\ consent'[l] = consent[l]
                /\ l \in past.unproven => l \in past'.unproven
                /\ ~(At(r, "granting") /\ request[r].list = l)
  BY <1>4
<1> QED BY <1>1, <1>2, <1>3, <1>4, OneStep

-----------------------------------------------------------------------------
\* Requests that move on without writing to the contact

LEMMA SoundAdding ==
    ASSUME NEW x \in Adding, x.all => x.reason \in OptOut
    PROVE  x \in Requests /\ Sound(x) /\ x.stage = "adding"
BY DEF Requests, Sound, Adding, Removing, Subscribing

LEMMA SoundRemoving ==
    ASSUME NEW x \in Removing, CanRemove(x.seen)
    PROVE  x \in Requests /\ Sound(x) /\ x.stage = "removing"
BY DEF Requests, Sound, Adding, Removing, Subscribing

LEMMA SoundSubscribing ==
    ASSUME NEW x \in Subscribing, x.out => x.soft,
           x.stage \in {"confirming", "granting"} => (x.out => x.list \in Single)
    PROVE  x \in Requests /\ Sound(x)
BY DEF Requests, Sound, Adding, Removing, Subscribing

LEMMA SoundFollowing ==
    ASSUME NEW x \in Following
    PROVE  x \in Requests /\ Sound(x)
BY DEF Requests, Sound, Adding, Removing, Subscribing, Following

\* A subscription request goes to another stage,
LEMMA Advance ==
    ASSUME NEW q \in Subscribing, Sound(q),
           NEW stage \in {"checked", "read", "deciding", "asking", "issuing", "confirming",
                          "granting"},
           stage \in {"confirming", "granting"} => (q.out => q.list \in Single)
    PROVE  /\ [q EXCEPT !.stage = stage] \in Requests /\ Sound([q EXCEPT !.stage = stage])
           /\ [q EXCEPT !.stage = stage].stage = stage
           /\ [q EXCEPT !.stage = stage].list = q.list
<1> DEFINE x == [q EXCEPT !.stage = stage]
<1>1. x \in Subscribing BY DEF Subscribing
<1>2. x.stage = stage /\ x.list = q.list /\ x.out = q.out /\ x.soft = q.soft BY DEF Subscribing
<1>3. q.out => q.soft BY DEF Sound
<1> HIDE DEF x
<1>4. x \in Requests /\ Sound(x) BY <1>1, <1>2, <1>3, SoundSubscribing
<1> QED BY <1>2, <1>4 DEF x

\* and so does one that follows a link.
LEMMA AdvanceLink ==
    ASSUME NEW q \in Following,
           NEW stage \in {"following", "lifting", "confirming", "granting", "activating",
                          "reissuing", "demoting"}
    PROVE  /\ [q EXCEPT !.stage = stage] \in Requests /\ Sound([q EXCEPT !.stage = stage])
           /\ [q EXCEPT !.stage = stage].stage = stage
           /\ [q EXCEPT !.stage = stage].list = q.list
<1> DEFINE x == [q EXCEPT !.stage = stage]
<1>1. x \in Following BY DEF Following
<1>2. x.stage = stage /\ x.list = q.list BY DEF Following
<1> HIDE DEF x
<1> QED BY <1>1, <1>2, SoundFollowing DEF x

LEMMA ArriveStep ==
    ASSUME IInv, NEW r \in Request, NEW x \in Requests, Sound(x), Arrive(r, x),
           UNCHANGED <<row, data, link, past>>
    PROVE  IInv'
<1>1. request' = [request EXCEPT ![r] = x] /\ ~At(r, "granting") BY DEF Arrive, At
<1>2. used' \in Bounds
  <2>1. used \in Bounds BY DEF IInv, Typed, Plain
  <2> QED BY <2>1 DEF Arrive, Bounds
<1>3. link' \in [List -> Nat] /\ past' \in Pasts BY DEF IInv, Typed, Plain
<1> QED BY <1>1, <1>2, <1>3, QuietStep

LEMMA SelectStep ==
    ASSUME IInv, NEW r \in Request, NEW reason \in Reason, NEW all \in BOOLEAN,
           all => reason \in OptOut, SelectRow(r, reason, all)
    PROVE  IInv'
<1> DEFINE x == [stage |-> "adding", reason |-> reason, all |-> all, seen |-> RowReason]
<1>1. RowReason \in Reason \union {NoRow} BY DEF RowReason, IInv, Typed, Plain, Rows
<1>2. x \in Adding /\ x.all = all /\ x.reason = reason BY <1>1 DEF Adding
<1>3. Arrive(r, x) BY DEF SelectRow
<1> HIDE DEF x
<1>4. x \in Requests /\ Sound(x) BY <1>2, SoundAdding
<1> QED BY <1>3, <1>4, ArriveStep DEF SelectRow

LEMMA AskStep == ASSUME IInv, NEW r \in Request, AskRemoval(r) PROVE IInv'
<1> DEFINE x == [stage |-> "removing", id |-> row.id, seen |-> row.reason]
<1>1. x \in Removing /\ CanRemove(x.seen) BY DEF AskRemoval, Removing, IInv, Typed, Plain, Rows
<1>2. Arrive(r, x) BY DEF AskRemoval
<1> HIDE DEF x
<1> QED BY <1>1, <1>2, SoundRemoving, ArriveStep DEF AskRemoval

LEMMA SubscribeStep ==
    ASSUME IInv, NEW r \in Request, NEW l \in List, NEW declared \in BOOLEAN,
           Subscribe(r, l, declared)
    PROVE  IInv'
<1> DEFINE x == [stage |-> "checked", list |-> l, by |-> "subscribe",
                 declared |-> declared, soft |-> row.live, out |-> past.out,
                 late |-> FALSE, status |-> "none"]
<1>1. row.live \in BOOLEAN /\ past.out \in BOOLEAN BY DEF IInv, Typed, Plain, Rows, Pasts
<1>2. past.out => row.live BY DEF IInv, OutOnRow
<1>3. /\ x \in Subscribing /\ x.out = past.out /\ x.soft = row.live
      /\ x.stage = "checked"
  BY <1>1 DEF Subscribing, Statuses
<1>4. Arrive(r, x) BY DEF Subscribe
<1> HIDE DEF x
<1> QED BY <1>2, <1>3, <1>4, SoundSubscribing, ArriveStep DEF Subscribe

LEMMA FollowStep ==
    ASSUME IInv, NEW r \in Request, NEW l \in List, FollowLink(r, l) \/ FollowExpired(r, l)
    PROVE  IInv'
<1>1. link[l] \in Nat /\ row.id \in Nat BY DEF IInv, Typed, Plain, Rows
<1>2. CASE FollowLink(r, l)
  <2> DEFINE opted == IF past.out /\ row.reason \in OptOut THEN row.id ELSE 0
             left == sub[l] = "unsubscribed"
             x == [stage |-> "following", list |-> l, by |-> "link", token |-> link[l],
                   left |-> left, late |-> FALSE, opted |-> opted]
  <2>1. opted \in Nat /\ left \in BOOLEAN BY <1>1
  <2>2. Arrive(r, x) /\ UNCHANGED <<row, data, link, past>> BY <1>2 DEF FollowLink
  <2> HIDE DEF opted, left
  <2>3. x \in Following BY <1>1, <2>1 DEF Following
  <2> HIDE DEF x
  <2> QED BY <2>2, <2>3, SoundFollowing, ArriveStep
<1>3. CASE FollowExpired(r, l)
  <2> DEFINE x == [stage |-> "reissuing", list |-> l, by |-> "link", token |-> link[l],
                   left |-> FALSE, late |-> FALSE, opted |-> 0]
  <2>1. Arrive(r, x) /\ UNCHANGED <<row, data, link, past>> BY <1>3 DEF FollowExpired
  <2>2. x \in Following BY <1>1 DEF Following
  <2> HIDE DEF x
  <2> QED BY <2>1, <2>2, SoundFollowing, ArriveStep
<1> QED BY <1>2, <1>3

LEMMA ReadStep == ASSUME IInv, NEW r \in Request, ReadContact(r) PROVE IInv'
<1> DEFINE q == request[r]
           read == IF status = "none" THEN "unconfirmed" ELSE status
           x == [q EXCEPT !.stage = "read", !.status = read]
<1>1. q \in Subscribing /\ Sound(q) BY Kinds DEF ReadContact, At, IInv, Asked
<1>2. read \in Statuses BY DEF IInv, Typed, Plain, Statuses
<1>3. request' = [request EXCEPT ![r] = x] BY DEF ReadContact, IInv, Typed
<1> HIDE DEF q, read
<1>4. x \in Subscribing /\ x.out = q.out /\ x.soft = q.soft /\ x.stage = "read"
  BY <1>1, <1>2 DEF Subscribing
<1>5. q.out => q.soft BY <1>1 DEF Sound
<1> HIDE DEF x
<1>6. x \in Requests /\ Sound(x) BY <1>4, <1>5, SoundSubscribing
<1>7. /\ ~At(r, "granting") /\ UNCHANGED <<row, data>>
      /\ link' \in [List -> Nat] /\ past' \in Pasts /\ used' \in Bounds /\ past' = past
  BY DEF ReadContact, At, IInv, Typed, Plain
<1> QED BY <1>3, <1>6, <1>7, QuietStep

LEMMA RefusedStep == ASSUME IInv, NEW r \in Request, RefusedAgain(r) PROVE IInv'
<1>1. /\ request' = [request EXCEPT ![r] = Idle]
      /\ ~At(r, "granting") /\ UNCHANGED <<row, data>>
      /\ link' \in [List -> Nat] /\ past' \in Pasts /\ used' \in Bounds /\ past' = past
  BY DEF RefusedAgain, End, At, IInv, Typed, Plain
<1> QED BY <1>1, IdleSound, QuietStep

LEMMA DecideStep == ASSUME IInv, NEW r \in Request, Decide(r) PROVE IInv'
<1> DEFINE q == request[r]
<1>1. q \in Subscribing /\ Sound(q) BY Kinds DEF Decide, At, IInv, Asked
<1>2. PICK x \in Requests : Sound(x) /\ request' = [request EXCEPT ![r] = x]
  <2>1. CASE End(r) BY <2>1, IdleSound DEF End
  <2>2. CASE Goto(r, "asking") BY <1>1, <2>2, Advance DEF Goto
  <2>3. CASE Goto(r, "confirming") /\ ConfirmsAtOnce(q, sub[q.list])
    <3>1. q.out => q.list \in Single BY <1>1, <2>3 DEF ConfirmsAtOnce, Sound
    <3> QED BY <1>1, <2>3, <3>1, Advance DEF Goto
  <2> QED BY <2>1, <2>2, <2>3 DEF Decide
<1>3. /\ ~At(r, "granting") /\ UNCHANGED <<row, data>>
      /\ link' \in [List -> Nat] /\ past' \in Pasts /\ used' \in Bounds /\ past' = past
  BY DEF Decide, At, IInv, Typed, Plain
<1> QED BY <1>2, <1>3, QuietStep

\* A new link.
LEMMA NewLink ==
    ASSUME IInv, NEW l,
           link' = [link EXCEPT ![l] = past.links + 1],
           past' = [past EXCEPT !.links = @ + 1]
    PROVE  /\ link' \in [List -> Nat] /\ past' \in Pasts
           /\ past'.out = past.out /\ past'.derived = past.derived
           /\ past'.undone = past.undone /\ past'.unproven = past.unproven
<1> DEFINE n == past.links + 1
<1>1. past \in Pasts /\ n \in Nat BY DEF IInv, Typed, Plain, Pasts
<1>2. link' = [link EXCEPT ![l] = n] /\ past' = [past EXCEPT !.links = n] BY <1>1 DEF Pasts
<1> HIDE DEF n
<1>3. link' \in [List -> Nat] BY <1>1, <1>2 DEF IInv, Typed, Plain
<1> QED BY <1>1, <1>2, <1>3 DEF Pasts

LEMMA IssueStep == ASSUME IInv, NEW r \in Request, IssueLink(r) PROVE IInv'
<1>1. request' = [request EXCEPT ![r] = Idle] BY DEF IssueLink, End
<1>2. ~At(r, "granting") /\ UNCHANGED <<row, data>> /\ used' \in Bounds
  BY DEF IssueLink, At, IInv, Typed, Plain
<1>3. link' = [link EXCEPT ![request[r].list] = past.links + 1]
      /\ past' = [past EXCEPT !.links = @ + 1]
  BY DEF IssueLink
<1> QED BY <1>1, <1>2, <1>3, IdleSound, NewLink, QuietStep

LEMMA ReissueStep == ASSUME IInv, NEW r \in Request, Reissue(r) PROVE IInv'
<1>1. request[r] \in Following BY Kinds DEF Reissue, At, IInv
<1>2. PICK x \in Requests : Sound(x) /\ request' = [request EXCEPT ![r] = x]
  BY <1>1, AdvanceLink DEF Reissue, Goto
<1>3. ~At(r, "granting") /\ UNCHANGED <<row, data>> /\ used' \in Bounds
  BY DEF Reissue, At, IInv, Typed, Plain
<1>4. link' = [link EXCEPT ![request[r].list] = past.links + 1]
      /\ past' = [past EXCEPT !.links = @ + 1]
  BY DEF Reissue
<1> QED BY <1>2, <1>3, <1>4, NewLink, QuietStep

LEMMA ConsumeStep == ASSUME IInv, NEW r \in Request, ConsumeLink(r) PROVE IInv'
<1>1. request[r] \in Following BY Kinds DEF ConsumeLink, At, IInv
<1>2. PICK x \in Requests : Sound(x) /\ request' = [request EXCEPT ![r] = x]
  <2>1. CASE End(r) BY <2>1, IdleSound DEF End
  <2>2. CASE Goto(r, "lifting") \/ Goto(r, "confirming") BY <1>1, <2>2, AdvanceLink DEF Goto
  <2> QED BY <2>1, <2>2 DEF ConsumeLink
<1>3. /\ ~At(r, "granting") /\ UNCHANGED <<row, data>>
      /\ past' \in Pasts /\ used' \in Bounds /\ past' = past
  BY DEF ConsumeLink, At, IInv, Typed, Plain
<1>4. link' \in [List -> Nat] BY DEF ConsumeLink, IInv, Typed, Plain
<1> QED BY <1>2, <1>3, <1>4, QuietStep

-----------------------------------------------------------------------------
\* Additions to the suppression list

LEMMA OvertakenSound ==
    ASSUME NEW q \in Requests, Sound(q), NEW withdrawn
    PROVE  /\ Overtaken(q, withdrawn) \in Requests /\ Sound(Overtaken(q, withdrawn))
           /\ Overtaken(q, withdrawn).stage = q.stage
           /\ q.stage = "granting" => Overtaken(q, withdrawn).list = q.list
<1> DEFINE x == [q EXCEPT !.late = TRUE]
<1>1. CASE q \in {Idle} \union Adding \union Removing
  <2>1. q.stage \in {"idle", "adding", "removing"} BY <1>1 DEF Idle, Adding, Removing
  <2> QED BY <2>1 DEF Overtaken
<1>2. CASE q \in Subscribing
  <2>1. x \in Subscribing BY <1>2 DEF Subscribing
  <2>2. x.stage = q.stage /\ x.list = q.list /\ x.out = q.out /\ x.soft = q.soft
    BY <1>2 DEF Subscribing
  <2>3. /\ q.out => q.soft
        /\ q.stage \in {"confirming", "granting"} => (q.out => q.list \in Single)
    BY <1>2 DEF Sound
  <2>4. Overtaken(q, withdrawn) = q \/ Overtaken(q, withdrawn) = x BY DEF Overtaken
  <2> HIDE DEF x
  <2>5. x \in Requests /\ Sound(x) BY <2>1, <2>2, <2>3, SoundSubscribing
  <2> QED BY <2>2, <2>4, <2>5
<1>3. CASE q \in Following
  <2>1. x \in Following BY <1>3 DEF Following
  <2>2. x.stage = q.stage /\ x.list = q.list BY <1>3 DEF Following
  <2>3. Overtaken(q, withdrawn) = q \/ Overtaken(q, withdrawn) = x BY DEF Overtaken
  <2> HIDE DEF x
  <2> QED BY <2>1, <2>2, <2>3, SoundFollowing
<1> QED BY <1>1, <1>2, <1>3 DEF Requests

\* The reason the upsert leaves is at least as strict as both.
LEMMA Upserts ==
    ASSUME IInv, NEW reason \in Reason
    PROVE  /\ UpsertedReason(reason) \in Reason
           /\ Rank[UpsertedReason(reason)] <= Rank[reason]
           /\ row.live => Rank[UpsertedReason(reason)] <= Rank[row.reason]
           /\ row.live => \/ UpsertedReason(reason) = row.reason
                          \/ IsStricter(UpsertedReason(reason), row.reason)
<1>1. row.reason \in Reason BY DEF IInv, Typed, Plain, Rows
<1>2. Rank[reason] \in Nat /\ Rank[row.reason] \in Nat BY <1>1, Ranks
<1> QED BY <1>1, <1>2 DEF UpsertedReason, IsStricter

\* After the effects of a reason have been applied the status is the reason's.
LEMMA StatusStays ==
    ASSUME NEW reason \in Reason, status' = StatusFor(reason), status \in Statuses
    PROVE  status' = StatusFor(reason)'
BY DEF StatusFor

LEMMA CommitStep == ASSUME IInv, NEW r \in Request, CommitAdd(r) PROVE IInv'
<1> DEFINE q == request[r]
           reason == UpsertedReason(q.reason)
           applied == status # "none" /\ EffectsApply(q.seen, q.reason)
           out(s) == IF q.all THEN SubFor("global_unsubscribe", s) ELSE s
           withdrawn == IF q.all \/ (applied /\ Withdraws(reason)) THEN List ELSE {}
           id == IF row.live THEN row.id ELSE row.id + 1
           derived == IF reason = RowReason THEN past.derived
                      ELSE status # "none" /\ q.seen = RowReason
           undone == past.undone /\ reason = RowReason
           left == past.out \/ q.all
<1>1. q \in Adding /\ Sound(q) /\ At(r, "adding") BY Kinds DEF CommitAdd, IInv, Asked
<1>2. /\ row \in Rows /\ past \in Pasts /\ status \in Statuses /\ sub \in [List -> SubStates]
      /\ consent \in [List -> {"none", "granted", "withdrawn"}]
  BY DEF IInv, Typed, Plain
<1>3. q.reason \in Reason /\ q.all \in BOOLEAN /\ (q.all => q.reason \in OptOut)
  BY <1>1 DEF Adding, Sound
<1>4. /\ reason \in Reason /\ Rank[reason] <= Rank[q.reason]
      /\ row.live => Rank[reason] <= Rank[row.reason]
      /\ row.live => reason = row.reason \/ IsStricter(reason, row.reason)
  BY <1>3, Upserts
<1>5. row' = [live |-> TRUE, reason |-> reason, id |-> id] /\ id \in Nat
  BY <1>2 DEF CommitAdd, Rows
<1>6. status' = IF applied THEN StatusFor(reason) ELSE status BY DEF CommitAdd
<1>7. sub' = [l \in List |-> IF applied THEN SubFor(reason, out(sub[l])) ELSE out(sub[l])]
  BY DEF CommitAdd
<1>8. consent' = [l \in List |-> IF l \in withdrawn THEN "withdrawn" ELSE consent[l]]
  BY DEF CommitAdd
<1>9. request' = [p \in Request |-> IF p = r THEN Idle ELSE Overtaken(request[p], withdrawn)]
  BY DEF CommitAdd
<1>10. past' = [past EXCEPT !.out = left, !.undone = undone, !.derived = derived]
  BY <1>2 DEF CommitAdd, Pasts
<1>11. UNCHANGED <<link, used>> BY DEF CommitAdd
<1>12. derived \in BOOLEAN /\ undone \in BOOLEAN /\ left \in BOOLEAN BY <1>2, <1>3 DEF Pasts
<1>13. past' \in Pasts /\ past'.out = left /\ past'.derived = derived
       /\ past'.undone = undone /\ past'.unproven = past.unproven
  <2> HIDE DEF derived, undone, left
  <2> QED BY <1>2, <1>10, <1>12 DEF Pasts
<1>14. row' \in Rows /\ row'.live = TRUE /\ row'.reason = reason BY <1>4, <1>5 DEF Rows
<1>15. /\ \A s \in SubStates : out(s) \in SubStates
       /\ \A s \in SubStates : out(s) = "confirmed" => s = "confirmed" /\ ~q.all
  <2>1. "global_unsubscribe" \in Reason /\ "global_unsubscribe" \in OptOut
    BY DEF Reason, Rank, OptOut
  <2>2. Withdraws("global_unsubscribe") BY <2>1 DEF Withdraws
  <2> QED BY <2>1, <2>2, SubSet
<1> HIDE DEF out
<1>16. ASSUME NEW l \in List
       PROVE  /\ sub'[l] \in SubStates
              /\ sub'[l] = "confirmed" => sub[l] = "confirmed" /\ l \notin withdrawn
  <2>1. sub[l] \in SubStates /\ out(sub[l]) \in SubStates BY <1>2, <1>15
  <2>2. CASE applied
    <3>1. sub'[l] = SubFor(reason, out(sub[l])) BY <1>7, <2>2
    <3>2. /\ sub'[l] \in SubStates
          /\ sub'[l] = "confirmed" => out(sub[l]) = "confirmed" /\ ~Withdraws(reason)
      BY <1>4, <2>1, <3>1, SubSet
    <3> QED BY <1>15, <2>1, <3>2
  <2>3. CASE ~applied
    <3>1. sub'[l] = out(sub[l]) BY <1>7, <2>3
    <3> QED BY <1>15, <2>1, <2>3, <3>1
  <2> QED BY <2>2, <2>3
<1>17. Plain'
  <2>1. status' \in Statuses BY <1>2, <1>4, <1>6, StatusSet
  <2>2. sub' \in [List -> SubStates] BY <1>7, <1>16
  <2>3. consent' \in [List -> {"none", "granted", "withdrawn"}] BY <1>2, <1>8
  <2>4. link' \in [List -> Nat] /\ used' \in Bounds BY <1>11 DEF IInv, Typed, Plain
  <2> QED BY <1>13, <1>14, <2>1, <2>2, <2>3, <2>4 DEF Plain
<1> HIDE DEF withdrawn
<1>18. ASSUME NEW p \in Request
       PROVE  /\ request'[p] \in Requests /\ Sound(request'[p])
              /\ At(p, "granting") => request'[p].stage = "granting"
                                    /\ request'[p].list = request[p].list
  <2>1. request[p] \in Requests /\ Sound(request[p]) BY DEF IInv, Typed, Asked
  <2>2. CASE p = r BY <1>1, <1>9, <2>2, IdleSound DEF At
  <2>3. CASE p # r
    <3>1. request'[p] = Overtaken(request[p], withdrawn) BY <1>9, <2>3
    <3> QED BY <2>1, <3>1, OvertakenSound DEF At
  <2> QED BY <2>2, <2>3
<1>19. Typed'
  <2>1. request' \in [Request -> Requests] BY <1>9, <1>18
  <2> QED BY <1>17, <2>1 DEF Typed
<1>20. Asked' BY <1>18 DEF Asked
<1>21. OutOnRow'
  <2> SUFFICES ASSUME left PROVE Rank[reason] <= 5 BY <1>13, <1>14 DEF OutOnRow
  <2>1. Rank[reason] \in Nat /\ Rank[q.reason] \in Nat BY <1>3, <1>4, Ranks
  <2>2. CASE q.all BY <1>3, <1>4, <2>1, <2>2, Ranks
  <2>3. CASE past.out
    <3>1. row.live /\ Rank[row.reason] <= 5 BY <2>3 DEF IInv, OutOnRow
    <3>2. Rank[row.reason] \in Nat BY <1>2, Ranks DEF Rows
    <3> QED BY <1>4, <2>1, <3>1, <3>2
  <2> QED BY <2>2, <2>3
<1>22. EffectsApplied'
  <2>0. PICK c \in Reason : c = reason BY <1>4
  <2> SUFFICES ASSUME derived
               PROVE  status' = StatusFor(c)' \/ (c = "gdpr_erasure" /\ undone)
    <3>1. row'.reason = c BY <1>14, <2>0
    <3>2. StatusFor(row.reason)' = StatusFor(c)' BY <3>1 DEF StatusFor
    <3>3. past'.derived = derived /\ past'.undone = undone BY <1>13
    <3> HIDE DEF derived, undone
    <3>4. StatusOfRow' \/ (c = "gdpr_erasure" /\ undone) BY <3>2, <3>3 DEF StatusOfRow
    <3> QED BY <3>1, <3>3, <3>4 DEF EffectsApplied
  <2>1. CASE applied
    <3>1. status' = StatusFor(c) BY <1>6, <2>0, <2>1
    <3> QED BY <1>2, <3>1, StatusStays
  <2>2. CASE ~applied
    <3>1. status' = status BY <1>6, <2>2
    <3>2. reason = RowReason
      <4> SUFFICES ASSUME reason # RowReason PROVE FALSE OBVIOUS
      <4>1. status # "none" /\ q.seen = RowReason BY <2>2
      <4>2. ~EffectsApply(q.seen, q.reason) BY <2>2, <4>1
      <4>3. row.live BY <4>2 DEF EffectsApply
      <4>4. q.seen = row.reason /\ q.seen # NoRow
        BY <1>2, <4>1, <4>3, Ranks DEF RowReason, Rows
      <4>5. IsStricter(reason, q.seen) BY <1>4, <4>3, <4>4, <4>1
      <4> QED BY <4>2, <4>4, <4>5 DEF EffectsApply
    <3>3. row.live /\ reason = row.reason BY <1>4, <3>2, Ranks DEF RowReason
    <3>4. past.derived BY <3>2
    <3>5. status = StatusFor(c) \/ (c = "gdpr_erasure" /\ undone)
      BY <2>0, <3>2, <3>3, <3>4 DEF IInv, EffectsApplied, StatusOfRow
    <3>6. status = StatusFor(c) => status' = StatusFor(c)' BY <3>1 DEF StatusFor
    <3> QED BY <3>5, <3>6
  <2> QED BY <2>1, <2>2
<1>23. ConfirmedHasProof'
  <2> SUFFICES ASSUME NEW l \in List, sub'[l] = "confirmed",
                      consent'[l] # "granted", l \notin past'.unproven
               PROVE  \E p \in Request : request'[p].stage = "granting" /\ request'[p].list = l
    BY DEF ConfirmedHasProof, At
  <2>1. sub[l] = "confirmed" /\ l \notin withdrawn BY <1>16
  <2>2. consent[l] # "granted" /\ l \notin past.unproven BY <1>8, <1>13, <2>1
  <2>3. PICK p \in Request : At(p, "granting") /\ request[p].list = l
    BY <2>1, <2>2 DEF IInv, ConfirmedHasProof
  <2> QED BY <1>18, <2>3
<1> QED BY <1>19, <1>20, <1>21, <1>22, <1>23 DEF IInv

-----------------------------------------------------------------------------
\* Steps that write to the row, the contact, its lists and consents

\* The row leaves the list, or stays as it is.
LEMMA RowLeavesStep ==
    ASSUME IInv, NEW r \in Request, NEW x \in Requests, Sound(x),
           request' = [request EXCEPT ![r] = x], ~At(r, "granting"),
           RowLeaves \/ UNCHANGED <<row, past>>, UNCHANGED <<data, link, used>>
    PROVE  IInv'
<1> USE DEF data
<1>1. row \in Rows /\ past \in Pasts BY DEF IInv, Typed, Plain
<1>2. CASE UNCHANGED <<row, past>>
  <2>1. link' \in [List -> Nat] /\ past' \in Pasts /\ used' \in Bounds /\ past' = past
    BY <1>2 DEF IInv, Typed, Plain
  <2> QED BY <1>2, <2>1, QuietStep
<1>3. CASE RowLeaves
  <2>1. row' \in Rows /\ row'.live = FALSE BY <1>1, <1>3 DEF RowLeaves, Rows
  <2>2. /\ past' \in Pasts /\ past'.out = FALSE /\ past'.derived = FALSE
        /\ past'.unproven = past.unproven
    BY <1>1, <1>3 DEF RowLeaves, Pasts
  <2>3. Plain' BY <2>1, <2>2 DEF IInv, Typed, Plain
  <2>4. OutOnRow' /\ EffectsApplied' BY <2>1, <2>2 DEF OutOnRow, EffectsApplied, StatusOfRow
  <2>5. ASSUME NEW l \in List, sub'[l] = "confirmed"
        PROVE  \/ consent'[l] = "granted" \/ l \in past'.unproven
               \/ x.stage = "granting" /\ x.list = l
               \/ /\ sub[l] = "confirmed" /\ consent'[l] = consent[l]
                  /\ l \in past.unproven => l \in past'.unproven
                  /\ ~(At(r, "granting") /\ request[r].list = l)
    BY <2>2, <2>5
  <2> QED BY <2>3, <2>4, <2>5, OneStep
<1> QED BY <1>2, <1>3

LEMMA RemoveStep == ASSUME IInv, NEW r \in Request, Remove(r) PROVE IInv'
<1>1. request' = [request EXCEPT ![r] = Idle] /\ ~At(r, "granting") BY DEF Remove, End, At
<1>2. RowLeaves \/ UNCHANGED <<row, past>> BY DEF Remove
<1>3. UNCHANGED <<data, link, used>> BY DEF Remove
<1> QED BY <1>1, <1>2, <1>3, IdleSound, RowLeavesStep

LEMMA LiftStep == ASSUME IInv, NEW r \in Request, Lift(r) PROVE IInv'
<1>1. request[r] \in Following /\ ~At(r, "granting") BY Kinds DEF Lift, At, IInv
<1>2. PICK x \in Requests : Sound(x) /\ request' = [request EXCEPT ![r] = x]
  BY <1>1, AdvanceLink DEF Lift, Goto
<1>3. RowLeaves \/ UNCHANGED <<row, past>> BY DEF Lift
<1>4. UNCHANGED <<data, link, used>> BY DEF Lift
<1> QED BY <1>1, <1>2, <1>3, <1>4, RowLeavesStep

LEMMA UnsubscribeStep == ASSUME IInv, NEW l \in List, UnsubscribeList(l) PROVE IInv'
<1> USE DEF UnsubscribeList
<1>1. /\ sub \in [List -> SubStates] /\ consent \in [List -> {"none", "granted", "withdrawn"}]
      /\ used \in Bounds /\ request \in [Request -> Requests]
  BY DEF IInv, Typed, Plain
<1>2. /\ SubFor("global_unsubscribe", sub[l]) \in SubStates
      /\ SubFor("global_unsubscribe", sub[l]) # "confirmed"
  <2>1. "global_unsubscribe" \in Reason /\ Withdraws("global_unsubscribe")
    BY DEF Reason, Rank, OptOut, Withdraws
  <2> QED BY <1>1, <2>1, SubSet
<1>3. ASSUME NEW p \in Request
      PROVE  /\ request'[p] \in Requests /\ Sound(request'[p])
             /\ At(p, "granting") => request'[p].stage = "granting"
                                   /\ request'[p].list = request[p].list
  <2>1. request[p] \in Requests /\ Sound(request[p]) BY DEF IInv, Typed, Asked
  <2>2. request'[p] = Overtaken(request[p], {l}) OBVIOUS
  <2> QED BY <2>1, <2>2, OvertakenSound DEF At
<1>4. used' \in Bounds BY <1>1 DEF Come, Bounds
<1>5. Plain' BY <1>1, <1>2, <1>4 DEF IInv, Typed, Plain
<1>6. request' \in [Request -> Requests] BY <1>3
<1>7. Asked' BY <1>3 DEF Asked
<1>8. OutOnRow' /\ EffectsApplied' BY DEF IInv, OutOnRow, EffectsApplied, StatusOfRow, StatusFor
<1>9. ConfirmedHasProof'
  <2> SUFFICES ASSUME NEW k \in List, sub'[k] = "confirmed",
                      consent'[k] # "granted", k \notin past'.unproven
               PROVE  \E p \in Request : request'[p].stage = "granting" /\ request'[p].list = k
    BY DEF ConfirmedHasProof, At
  <2>1. k # l BY <1>1, <1>2
  <2>2. sub[k] = "confirmed" /\ consent[k] # "granted" /\ k \notin past.unproven BY <1>1, <2>1
  <2>3. PICK p \in Request : At(p, "granting") /\ request[p].list = k
    BY <2>2 DEF IInv, ConfirmedHasProof
  <2> QED BY <1>3, <2>3
<1> QED BY <1>5, <1>6, <1>7, <1>8, <1>9 DEF IInv, Typed

LEMMA UpsertStep == ASSUME IInv, NEW r \in Request, UpsertContact(r) PROVE IInv'
<1> USE DEF UpsertContact
<1>1. request[r] \in Subscribing /\ Sound(request[r]) /\ ~At(r, "granting")
  BY Kinds DEF At, IInv, Asked
<1>2. PICK x \in Requests : Sound(x) /\ request' = [request EXCEPT ![r] = x]
  BY <1>1, Advance DEF Goto
<1>3. status \in Statuses /\ status' \in Statuses
  BY <1>1 DEF UpsertedStatus, Subscribing, IInv, Typed, Plain
<1> DEFINE undone == past.undone \/ (status = "deleted" /\ status' # status)
<1>0. past \in Pasts /\ undone \in BOOLEAN BY DEF IInv, Typed, Plain, Pasts
<1>4. past' = [past EXCEPT !.undone = undone] BY <1>0 DEF Pasts
<1> HIDE DEF undone
<1>5. /\ past' \in Pasts /\ past'.out = past.out /\ past'.derived = past.derived
      /\ past'.undone = undone /\ past'.unproven = past.unproven
  BY <1>0, <1>4 DEF Pasts
<1>8. Plain' BY <1>3, <1>5 DEF IInv, Typed, Plain
<1>9. OutOnRow' BY <1>5 DEF IInv, OutOnRow
<1>6. EffectsApplied'
  <2> SUFFICES ASSUME row.live, past.derived
               PROVE  \/ status' = StatusFor(row.reason)'
                      \/ row.reason = "gdpr_erasure" /\ undone
    BY <1>5 DEF EffectsApplied, StatusOfRow
  <2>1. row.reason \in Reason BY DEF IInv, Typed, Plain, Rows
  <2>2. \/ status = StatusFor(row.reason)
        \/ row.reason = "gdpr_erasure" /\ past.undone
    BY DEF IInv, EffectsApplied, StatusOfRow
  <2>3. CASE row.reason = "gdpr_erasure"
    <3>1. StatusFor(row.reason) = "deleted" /\ StatusFor(row.reason)' = "deleted"
      BY <2>3 DEF StatusFor, OptOut
    <3> QED BY <2>2, <2>3, <3>1 DEF undone
  <2>4. CASE row.reason # "gdpr_erasure" /\ status \in Locked
    <3>1. status' = status /\ status = StatusFor(row.reason) BY <2>2, <2>4 DEF UpsertedStatus
    <3> QED BY <3>1 DEF StatusFor
  <2>5. CASE row.reason # "gdpr_erasure" /\ status \notin Locked
    <3>1. row.reason \in {"import", "manual"} BY <1>3, <2>1, <2>2, <2>5, StatusSet
    <3> QED BY <3>1 DEF StatusFor, OptOut
  <2> QED BY <2>3, <2>4, <2>5
<1>7. ASSUME NEW l \in List, sub'[l] = "confirmed"
      PROVE  \/ consent'[l] = "granted" \/ l \in past'.unproven
             \/ x.stage = "granting" /\ x.list = l
             \/ /\ sub[l] = "confirmed" /\ consent'[l] = consent[l]
                /\ l \in past.unproven => l \in past'.unproven
                /\ ~(At(r, "granting") /\ request[r].list = l)
  BY <1>1, <1>5, <1>7
<1> QED BY <1>2, <1>6, <1>7, <1>8, <1>9, OneStep

\* A subscription is written and nothing else, and it has its proof if it is confirmed.
LEMMA SubStep ==
    ASSUME IInv, NEW r \in Request, NEW x \in Requests, Sound(x),
           request' = [request EXCEPT ![r] = x], ~At(r, "granting"),
           NEW l \in List, NEW s \in SubStates,
           s = "confirmed" => x.stage = "granting" /\ x.list = l,
           sub' = [sub EXCEPT ![l] = s],
           UNCHANGED <<row, status, consent, link, past, used>>
    PROVE  IInv'
<1>1. sub \in [List -> SubStates] BY DEF IInv, Typed, Plain
<1>2. Plain' BY DEF IInv, Typed, Plain
<1>3. OutOnRow' /\ EffectsApplied' BY DEF IInv, OutOnRow, EffectsApplied, StatusOfRow, StatusFor
<1>4. ASSUME NEW k \in List, sub'[k] = "confirmed"
      PROVE  \/ consent'[k] = "granted" \/ k \in past'.unproven
             \/ x.stage = "granting" /\ x.list = k
             \/ /\ sub[k] = "confirmed" /\ consent'[k] = consent[k]
                /\ k \in past.unproven => k \in past'.unproven
                /\ ~(At(r, "granting") /\ request[r].list = k)
  <2>1. sub'[k] = IF k = l THEN s ELSE sub[k] BY <1>1
  <2> QED BY <1>4, <2>1
<1> QED BY <1>2, <1>3, <1>4, OneStep

LEMMA PendingStep == ASSUME IInv, NEW r \in Request, WritePending(r) PROVE IInv'
<1> USE DEF WritePending
<1>1. request[r] \in Subscribing /\ Sound(request[r]) /\ ~At(r, "granting")
  BY Kinds DEF At, IInv, Asked
<1>2. request[r].list \in List BY <1>1 DEF Subscribing
<1>3. PICK x \in Requests : Sound(x) /\ request' = [request EXCEPT ![r] = x]
  <2>1. CASE End(r) BY <2>1, IdleSound DEF End
  <2>2. CASE Goto(r, "issuing") BY <1>1, <2>2, Advance DEF Goto
  <2> QED BY <2>1, <2>2
<1>4. "pending" \in SubStates BY DEF SubStates
<1> QED BY <1>1, <1>2, <1>3, <1>4, SubStep

LEMMA DemoteStep == ASSUME IInv, NEW r \in Request, Demote(r) PROVE IInv'
<1> USE DEF Demote
<1>1. request[r] \in Following /\ ~At(r, "granting") BY Kinds DEF At, IInv
<1>2. request[r].list \in List BY <1>1 DEF Following
<1>3. request' = [request EXCEPT ![r] = Idle] BY DEF End
<1>4. "pending" \in SubStates BY DEF SubStates
<1> QED BY <1>1, <1>2, <1>3, <1>4, IdleSound, SubStep

LEMMA ConfirmStep == ASSUME IInv, NEW r \in Request, WriteConfirmed(r) PROVE IInv'
<1> USE DEF WriteConfirmed
<1>1. /\ request[r] \in Subscribing \/ request[r] \in Following
      /\ Sound(request[r]) /\ ~At(r, "granting")
  BY Kinds DEF At, IInv, Asked
<1>2. request[r].list \in List BY <1>1 DEF Subscribing, Following
<1>3. PICK x \in Requests :
         /\ Sound(x) /\ request' = [request EXCEPT ![r] = x]
         /\ x.stage = "granting" /\ x.list = request[r].list
  <2>1. CASE request[r] \in Subscribing
    <3>1. request[r].out => request[r].list \in Single BY <1>1, <2>1 DEF Sound, At
    <3> QED BY <1>1, <2>1, <3>1, Advance DEF Goto
  <2>2. CASE request[r] \in Following BY <2>2, AdvanceLink DEF Goto
  <2> QED BY <1>1, <2>1, <2>2
<1>4. "confirmed" \in SubStates BY DEF SubStates
<1> QED BY <1>1, <1>2, <1>3, <1>4, SubStep

LEMMA RecordStep == ASSUME IInv, NEW r \in Request, RecordConsent(r) PROVE IInv'
<1> USE DEF RecordConsent
<1> DEFINE q == request[r]
           proven == IF q.late /\ consent[q.list] # "granted" THEN past.unproven \union {q.list}
                     ELSE past.unproven \ {q.list}
<1>1. (q \in Subscribing \/ q \in Following) /\ At(r, "granting") BY Kinds DEF At, IInv
<1>2. q.list \in List BY <1>1 DEF Subscribing, Following
<1>3. PICK x \in Requests : Sound(x) /\ request' = [request EXCEPT ![r] = x]
  <2>1. CASE End(r) BY <2>1, IdleSound DEF End
  <2>2. CASE q.by = "link" /\ Goto(r, "activating")
    <3>1. q \in Following BY <1>1, <2>2 DEF Subscribing
    <3> QED BY <2>2, <3>1, AdvanceLink DEF Goto
  <2> QED BY <2>1, <2>2
<1>4. /\ past \in Pasts /\ consent \in [List -> {"none", "granted", "withdrawn"}]
  BY DEF IInv, Typed, Plain
<1>5. consent' = [consent EXCEPT ![q.list] = ConsentAfter(q)]
      /\ ConsentAfter(q) \in {"none", "granted", "withdrawn"}
  BY <1>2, <1>4 DEF ConsentAfter
<1>6. past' = [past EXCEPT !.unproven = proven] /\ proven \subseteq List
  BY <1>2, <1>4 DEF Pasts
<1>7. /\ past' \in Pasts /\ past'.out = past.out /\ past'.derived = past.derived
      /\ past'.undone = past.undone /\ past'.unproven = proven
  <2> HIDE DEF proven
  <2> QED BY <1>4, <1>6 DEF Pasts
<1>8. UNCHANGED <<row, status, sub, link, used>> OBVIOUS
<1>9. consent' \in [List -> {"none", "granted", "withdrawn"}] BY <1>4, <1>5
<1>10. Plain' BY <1>7, <1>8, <1>9 DEF IInv, Typed, Plain
<1>11. OutOnRow' /\ EffectsApplied'
  BY <1>7, <1>8 DEF IInv, OutOnRow, EffectsApplied, StatusOfRow, StatusFor
<1>12. ASSUME NEW l \in List, sub'[l] = "confirmed"
       PROVE  \/ consent'[l] = "granted" \/ l \in past'.unproven
              \/ x.stage = "granting" /\ x.list = l
              \/ /\ sub[l] = "confirmed" /\ consent'[l] = consent[l]
                 /\ l \in past.unproven => l \in past'.unproven
                 /\ ~(At(r, "granting") /\ request[r].list = l)
  <2>1. CASE l = q.list
    <3>1. consent'[l] = ConsentAfter(q) BY <1>2, <1>4, <1>5, <2>1
    <3>2. CASE q.late /\ consent[q.list] # "granted" BY <1>7, <2>1, <3>2
    <3>3. CASE ~(q.late /\ consent[q.list] # "granted")
      <4>1. ConsentAfter(q) = "granted" BY <3>3 DEF ConsentAfter
      <4> QED BY <3>1, <4>1
    <3> QED BY <3>2, <3>3
  <2>2. CASE l # q.list
    <3>1. consent'[l] = consent[l] BY <1>4, <1>5, <2>2
    <3>2. l \in past.unproven => l \in past'.unproven BY <1>7, <2>2
    <3> QED BY <1>8, <1>12, <2>2, <3>1, <3>2
  <2> QED BY <2>1, <2>2
<1> QED BY <1>3, <1>10, <1>11, <1>12, OneStep

LEMMA ActivateStep == ASSUME IInv, NEW r \in Request, Activate(r) PROVE IInv'
<1> USE DEF Activate
<1>1. status \in Statuses BY DEF IInv, Typed, Plain
<1>2. status' = status BY <1>1 DEF Statuses, Locked
<1>3. request' = [request EXCEPT ![r] = Idle] /\ ~At(r, "granting") BY DEF End, At
<1>4. link' \in [List -> Nat] /\ past' \in Pasts /\ used' \in Bounds /\ past' = past
  BY DEF IInv, Typed, Plain
<1> QED BY <1>2, <1>3, <1>4, IdleSound, QuietStep DEF data

LEMMA FailStep == ASSUME IInv, NEW r \in Request, Fail(r) PROVE IInv'
<1> USE DEF Fail
<1> DEFINE left == IF At(r, "granting") THEN past.unproven \union {request[r].list}
                   ELSE past.unproven
<1>1. past \in Pasts /\ used \in Bounds BY DEF IInv, Typed, Plain
<1>2. At(r, "granting") => request[r].list \in List
  BY Kinds DEF At, IInv, Subscribing, Following
<1>3. past' = [past EXCEPT !.unproven = left] /\ left \subseteq List
  BY <1>1, <1>2 DEF Pasts
<1>4. /\ past' \in Pasts /\ past'.out = past.out /\ past'.derived = past.derived
      /\ past'.undone = past.undone /\ past'.unproven = left
  <2> HIDE DEF left
  <2> QED BY <1>1, <1>3 DEF Pasts
<1>5. used' \in Bounds BY <1>1 DEF Bounds
<1>6. UNCHANGED <<row, data, link>> /\ request' = [request EXCEPT ![r] = Idle] BY DEF End
<1>7. Plain' BY <1>4, <1>5, <1>6 DEF IInv, Typed, Plain, data
<1>8. OutOnRow' /\ EffectsApplied'
  BY <1>4, <1>6 DEF IInv, OutOnRow, EffectsApplied, StatusOfRow, StatusFor, data
<1>9. ASSUME NEW l \in List, sub'[l] = "confirmed"
      PROVE  \/ consent'[l] = "granted" \/ l \in past'.unproven
             \/ Idle.stage = "granting" /\ Idle.list = l
             \/ /\ sub[l] = "confirmed" /\ consent'[l] = consent[l]
                /\ l \in past.unproven => l \in past'.unproven
                /\ ~(At(r, "granting") /\ request[r].list = l)
  BY <1>4, <1>6, <1>9 DEF data
<1> QED BY <1>6, <1>7, <1>8, <1>9, IdleSound, OneStep

LEMMA ManualStep == ASSUME IInv, ManualConfirm PROVE IInv'
<1> USE DEF ManualConfirm
<1> DEFINE clears == row.live /\ Clears(row.reason)
           live == row.live /\ ~clears
           out == past.out /\ ~clears
<1>1. /\ row \in Rows /\ past \in Pasts /\ used \in Bounds /\ sub \in [List -> SubStates]
  BY DEF IInv, Typed, Plain
<1>2. live \in BOOLEAN /\ out \in BOOLEAN BY <1>1 DEF Rows, Pasts
<1>3. row' = [row EXCEPT !.live = live] BY <1>1 DEF Rows
<1>4. past' = [past EXCEPT !.out = out, !.derived = FALSE, !.unproven = {}]
  BY <1>1 DEF Pasts
<1>5. out => live BY DEF IInv, OutOnRow
<1> HIDE DEF clears
<1>6. out => Rank[row.reason] <= 5 BY DEF IInv, OutOnRow
<1> HIDE DEF live, out
<1>7. /\ row' \in Rows /\ row'.live = live /\ row'.reason = row.reason
      /\ past' \in Pasts /\ past'.out = out /\ past'.derived = FALSE
  BY <1>1, <1>2, <1>3, <1>4 DEF Rows, Pasts
<1>8. used' \in Bounds BY <1>1 DEF Come, Bounds
<1>9. status' \in Statuses /\ sub' \in [List -> SubStates]
      /\ consent' \in [List -> {"none", "granted", "withdrawn"}]
  BY <1>1 DEF Statuses, SubStates
<1>10. Typed' BY <1>7, <1>8, <1>9 DEF IInv, Typed, Plain
<1>11. Asked' BY DEF IInv, Asked
<1>12. OutOnRow' /\ EffectsApplied' BY <1>5, <1>6, <1>7 DEF OutOnRow, EffectsApplied, StatusOfRow
<1>13. ConfirmedHasProof' BY DEF ConfirmedHasProof
<1> QED BY <1>10, <1>11, <1>12, <1>13 DEF IInv

-----------------------------------------------------------------------------
LEMMA StepStep == ASSUME IInv, NEW r \in Request, Step(r) PROVE IInv'
<1>1. CASE CommitAdd(r) BY <1>1, CommitStep
<1>2. CASE Remove(r) BY <1>2, RemoveStep
<1>3. CASE ReadContact(r) BY <1>3, ReadStep
<1>4. CASE UpsertContact(r) BY <1>4, UpsertStep
<1>5. CASE Decide(r) BY <1>5, DecideStep
<1>6. CASE WritePending(r) BY <1>6, PendingStep
<1>7. CASE IssueLink(r) BY <1>7, IssueStep
<1>8. CASE ConsumeLink(r) BY <1>8, ConsumeStep
<1>9. CASE Lift(r) BY <1>9, LiftStep
<1>10. CASE Reissue(r) BY <1>10, ReissueStep
<1>11. CASE Demote(r) BY <1>11, DemoteStep
<1>12. CASE WriteConfirmed(r) BY <1>12, ConfirmStep
<1>13. CASE RecordConsent(r) BY <1>13, RecordStep
<1>14. CASE Activate(r) BY <1>14, ActivateStep
<1>15. CASE RefusedAgain(r) BY <1>15, RefusedStep
<1> QED BY <1>1, <1>2, <1>3, <1>4, <1>5, <1>6, <1>7, <1>8, <1>9, <1>10, <1>11, <1>12, <1>13,
           <1>14, <1>15 DEF Step

LEMMA NextStep == IInv /\ [Next]_vars => IInv'
<1> SUFFICES ASSUME IInv, [Next]_vars PROVE IInv' OBVIOUS
<1>1. ASSUME NEW r \in Request, NEW reason \in Added, Add(r, reason) PROVE IInv'
  <2>1. reason \in Reason BY ContactAssumption
  <2> QED BY <1>1, <2>1, SelectStep DEF Add
<1>2. ASSUME NEW r \in Request, NEW reason \in OptOut, UnsubscribeAll(r, reason) PROVE IInv'
  BY <1>2, Ranks, SelectStep DEF UnsubscribeAll
<1>3. ASSUME NEW r \in Request, AskRemoval(r) PROVE IInv' BY <1>3, AskStep
<1>4. ASSUME NEW r \in Request, NEW l \in List, FollowLink(r, l) \/ FollowExpired(r, l)
      PROVE  IInv'
  BY <1>4, FollowStep
<1>5. ASSUME NEW r \in Request, NEW l \in List, NEW declared \in BOOLEAN,
             Subscribe(r, l, declared)
      PROVE  IInv'
  BY <1>5, SubscribeStep
<1>6. ASSUME NEW l \in List, UnsubscribeList(l) PROVE IInv' BY <1>6, UnsubscribeStep
<1>7. CASE ManualConfirm BY <1>7, ManualStep
<1>8. ASSUME NEW r \in Request, Step(r) \/ Fail(r) PROVE IInv' BY <1>8, StepStep, FailStep
<1>9. CASE UNCHANGED vars
  <2> USE <1>9 DEF vars, data
  <2>1. Typed' BY DEF IInv, Typed, Plain
  <2>2. Asked' /\ OutOnRow' BY DEF IInv, Asked, OutOnRow
  <2>3. EffectsApplied' /\ ConfirmedHasProof'
    BY DEF IInv, EffectsApplied, StatusOfRow, StatusFor, ConfirmedHasProof, At
  <2> QED BY <2>1, <2>2, <2>3 DEF IInv
<1> QED BY <1>1, <1>2, <1>3, <1>4, <1>5, <1>6, <1>7, <1>8, <1>9 DEF Next

THEOREM Invariant == Spec => []IInv
BY InitHolds, NextStep, PTL DEF Spec

-----------------------------------------------------------------------------
\* Every variable keeps its type, so that the model has every status the code writes.
THEOREM TypeCorrect == Spec => []TypeOK
<1>1. IInv => TypeOK BY TypeParts DEF IInv
<1> QED BY <1>1, Invariant, PTL

\* The contact's status is the one of the reason on its row (suppressions.ts,
\* DOMAIN_EFFECTS), whatever subscriptions write at the same time; only an erasure's may be
\* overwritten, by a subscription that read the contact before it (contacts.ts, upsertRows).
THEOREM StatusFollowsRow == Spec => []EffectsApplied
<1>1. IInv => EffectsApplied BY DEF IInv
<1> QED BY <1>1, Invariant, PTL

\* A confirmed subscription has a consent, or somebody is about to record it, failed
\* before, or recorded what a newer withdrawal outdates (subscribe.ts, confirm.ts).
THEOREM ProofOfConsent == Spec => []ConfirmedHasProof
<1>1. IInv => ConfirmedHasProof BY DEF IInv
<1> QED BY <1>1, Invariant, PTL

\* Who writes to the row, and who confirms.
LEMMA RowWriters ==
    ASSUME [Next]_vars, row' # row
    PROVE  \/ \E r \in Request : CommitAdd(r) \/ Remove(r) \/ Lift(r)
           \/ ManualConfirm
BY DEF Next, vars, Add, UnsubscribeAll, SelectRow, AskRemoval, FollowLink, FollowExpired,
       Subscribe, UnsubscribeList, Step, Fail, RefusedAgain, ReadContact, UpsertContact, Decide,
       WritePending, IssueLink, ConsumeLink, Reissue, Demote, WriteConfirmed, RecordConsent,
       Activate

LEMMA SubWriters ==
    ASSUME [Next]_vars, sub' # sub
    PROVE  \/ \E r \in Request : \/ CommitAdd(r) \/ WritePending(r) \/ Demote(r)
                                \/ WriteConfirmed(r)
           \/ \E l \in List : UnsubscribeList(l)
           \/ ManualConfirm
BY DEF Next, vars, data, Add, UnsubscribeAll, SelectRow, AskRemoval, FollowLink, FollowExpired,
       Subscribe, Step, Fail, RefusedAgain, ReadContact, UpsertContact, Decide, Remove, Lift,
       IssueLink, ConsumeLink, Reissue, RecordConsent, Activate

\* What an addition leaves on the row.
LEMMA CommitRow ==
    ASSUME IInv, NEW r \in Request, CommitAdd(r)
    PROVE  /\ row'.live /\ row'.reason \in Reason
           /\ row.live => ~IsStricter(row.reason, row'.reason)
<1>1. request[r].reason \in Reason BY Kinds DEF CommitAdd, IInv, Adding
<1>2. row'.live /\ row'.reason = UpsertedReason(request[r].reason) BY DEF CommitAdd
<1>3. row.reason \in Reason BY DEF IInv, Typed, Plain, Rows
<1>4. Rank[row.reason] \in Nat /\ Rank[UpsertedReason(request[r].reason)] \in Nat
  BY <1>1, <1>3, Upserts, Ranks
<1> QED BY <1>1, <1>2, <1>4, Upserts DEF IsStricter

\* No addition confirms a subscription.
LEMMA CommitSub ==
    ASSUME IInv, NEW r \in Request, CommitAdd(r), NEW l \in List, sub'[l] = "confirmed"
    PROVE  sub[l] = "confirmed"
<1> DEFINE q == request[r]
           reason == UpsertedReason(q.reason)
           applied == status # "none" /\ EffectsApply(q.seen, q.reason)
           out(s) == IF q.all THEN SubFor("global_unsubscribe", s) ELSE s
<1>1. sub' = [k \in List |-> IF applied THEN SubFor(reason, out(sub[k])) ELSE out(sub[k])]
  BY DEF CommitAdd
<1>2. q.reason \in Reason BY Kinds DEF CommitAdd, IInv, Adding
<1>3. reason \in Reason BY <1>2, Upserts
<1>4. "global_unsubscribe" \in Reason BY DEF Reason, Rank
<1>5. sub[l] \in SubStates BY DEF IInv, Typed, Plain
<1>6. out(sub[l]) \in SubStates /\ (out(sub[l]) = "confirmed" => sub[l] = "confirmed")
  BY <1>4, <1>5, SubSet
<1> HIDE DEF applied, reason, out
<1>7. sub'[l] = IF applied THEN SubFor(reason, out(sub[l])) ELSE out(sub[l]) BY <1>1
<1> QED BY <1>3, <1>6, <1>7, SubSet

\* A row nobody may remove gets no milder and does not leave, unless its removal was asked
\* for while it had another reason (suppressions.ts, canRemove).
THEOREM StrictReasons == Spec => HardBlockStays
<1>1. ASSUME IInv, [Next]_vars, row.live
      PROVE  /\ (row'.live /\ row'.id = row.id) => ~IsStricter(row.reason, row'.reason)
             /\ (row.reason \in NotRemovable /\ ~row'.live) =>
                   \E r \in Request : Remove(r) /\ request[r].seen \notin NotRemovable
  <2>1. row \in Rows /\ row.reason \in Reason /\ Rank[row.reason] \in Nat
    BY <1>1, Ranks DEF IInv, Typed, Plain, Rows
  <2>2. CASE row' = row BY <1>1, <2>1, <2>2 DEF IsStricter
  <2>3. CASE \E r \in Request : CommitAdd(r) BY <1>1, <2>3, CommitRow
  <2>4. ASSUME NEW r \in Request, row' # row, Remove(r) \/ Lift(r)
        PROVE  /\ row'.live = FALSE
               /\ Lift(r) => row.reason \in OptOut
               /\ Remove(r) => CanRemove(request[r].seen)
    <3>1. RowLeaves BY <2>4 DEF Remove, Lift
    <3>2. row'.live = FALSE BY <2>1, <3>1 DEF RowLeaves, Rows
    <3>3. Lift(r) => row.reason \in OptOut BY <2>4 DEF Lift
    <3>4. Remove(r) => CanRemove(request[r].seen)
      BY <1>1, Kinds DEF Remove, IInv, Asked, Sound
    <3> QED BY <3>2, <3>3, <3>4
  <2>5. ASSUME NEW r \in Request, row' # row, Remove(r)
        PROVE  row'.live = FALSE /\ request[r].seen \notin NotRemovable
    <3>1. CanRemove(request[r].seen) /\ row'.live = FALSE BY <2>4, <2>5
    <3> QED BY <3>1 DEF CanRemove, NotRemovable
  <2>6. ASSUME NEW r \in Request, row' # row, Lift(r)
        PROVE  row'.live = FALSE /\ row.reason \notin NotRemovable
    BY <2>4, <2>6 DEF OptOut, NotRemovable
  <2>7. ASSUME ManualConfirm
        PROVE  row'.reason = row.reason /\ (~row'.live => row.reason \notin NotRemovable)
    <3> DEFINE live == row.live /\ ~(row.live /\ Clears(row.reason))
    <3>1. row' = [row EXCEPT !.live = live] BY <2>1, <2>7 DEF ManualConfirm, Rows
    <3>2. ~live => row.reason \notin NotRemovable BY <1>1, <2>1, Ranks
    <3>3. live \in BOOLEAN OBVIOUS
    <3> HIDE DEF live
    <3> QED BY <2>1, <3>1, <3>2, <3>3 DEF Rows
  <2>8. CASE ManualConfirm BY <2>1, <2>7, <2>8 DEF IsStricter
  <2> QED BY <1>1, <2>2, <2>3, <2>5, <2>6, <2>8, RowWriters
<1>2. ASSUME IInv, [Next]_vars
      PROVE  [row.live =>
                /\ (row'.live /\ row'.id = row.id) => ~IsStricter(row.reason, row'.reason)
                /\ (row.reason \in NotRemovable /\ ~row'.live) =>
                      \E r \in Request : Remove(r) /\ request[r].seen \notin NotRemovable]_vars
  BY <1>1, <1>2
<1> QED BY <1>2, Invariant, PTL DEF Spec, HardBlockStays

\* An opt-out from everything leaves the list by a confirmation, or with a hard bounce
\* recorded over it, or by a removal asked for before (suppressions.ts, criterion 63).
THEOREM OptOuts == Spec => OptOutHolds
<1>1. ASSUME IInv, [Next]_vars
      PROVE  (past.out /\ ~row'.live) =>
             \/ ManualConfirm
             \/ \E r \in Request : Lift(r)
             \/ \E r \in Request : /\ Remove(r)
                                 /\ (row.reason = "hard_bounce" \/ request[r].seen # row.reason)
  <2> HAVE past.out /\ ~row'.live
  <2>1. row.live /\ Rank[row.reason] <= 5 BY <1>1 DEF IInv, OutOnRow
  <2>2. row' # row BY <1>1, <2>1
  <2>3. row.reason \in Reason BY <1>1 DEF IInv, Typed, Plain, Rows
  <2>4. ASSUME NEW r \in Request, Remove(r)
        PROVE  row.reason = "hard_bounce" \/ request[r].seen # row.reason
    <3>1. CanRemove(request[r].seen) BY <1>1, <2>4, Kinds DEF Remove, IInv, Asked, Sound
    <3> QED BY <2>1, <2>3, <3>1, Ranks
  <2>5. ~\E r \in Request : CommitAdd(r) BY <1>1, CommitRow
  <2> QED BY <1>1, <2>2, <2>4, <2>5, RowWriters
<1>2. IInv /\ [Next]_vars =>
        [(past.out /\ ~row'.live) =>
          \/ ManualConfirm
          \/ \E r \in Request : Lift(r)
          \/ \E r \in Request : /\ Remove(r)
                              /\ (row.reason = "hard_bounce" \/ request[r].seen # row.reason)]_vars
  BY <1>1
<1> QED BY <1>2, Invariant, PTL DEF Spec, OptOutHolds

\* No subscription request made after the opt-out brings a list back, the lists with single
\* opt-in excepted (state-machine.ts, onSubscribe).
THEOREM NoReturn == Spec => NoReturnUnasked
<1>1. ASSUME IInv, [Next]_vars, NEW l \in List,
             past.out, sub[l] # "confirmed", sub'[l] = "confirmed"
      PROVE  \/ ManualConfirm
             \/ \E r \in Request : /\ WriteConfirmed(r)
                                 /\ \/ request[r].by = "link" \/ ~request[r].out
                                    \/ l \in Single
  <2>1. sub' # sub /\ sub \in [List -> SubStates] BY <1>1 DEF IInv, Typed, Plain
  <2>2. ASSUME NEW r \in Request, WritePending(r) \/ Demote(r) PROVE FALSE
    BY <1>1, <2>1, <2>2 DEF WritePending, Demote
  <2>3. ASSUME NEW k \in List, UnsubscribeList(k) PROVE FALSE
    <3>1. "global_unsubscribe" \in Reason /\ Withdraws("global_unsubscribe")
      BY DEF Reason, Rank, OptOut, Withdraws
    <3>2. SubFor("global_unsubscribe", sub[k]) # "confirmed" BY <2>1, <3>1, SubSet
    <3> QED BY <1>1, <2>1, <2>3, <3>2 DEF UnsubscribeList
  <2>4. ASSUME NEW r \in Request, CommitAdd(r) PROVE FALSE
    BY <1>1, <2>1, <2>4, CommitSub
  <2>5. ASSUME NEW r \in Request, WriteConfirmed(r)
        PROVE  request[r].by = "link" \/ ~request[r].out \/ l \in Single
    <3>1. request[r].list = l BY <1>1, <2>1, <2>5 DEF WriteConfirmed
    <3>2. CASE request[r] \in Following BY <3>2 DEF Following
    <3>3. CASE request[r] \in Subscribing
      BY <1>1, <2>5, <3>1, <3>3 DEF WriteConfirmed, At, IInv, Asked, Sound
    <3> QED BY <1>1, <2>5, <3>2, <3>3, Kinds DEF WriteConfirmed, At, IInv
  <2> QED BY <1>1, <2>1, <2>2, <2>3, <2>4, <2>5, SubWriters
<1>2. IInv /\ [Next]_vars =>
        [\A l \in List :
           (past.out /\ sub[l] # "confirmed" /\ sub'[l] = "confirmed") =>
              \/ ManualConfirm
              \/ \E r \in Request : /\ WriteConfirmed(r)
                                  /\ \/ request[r].by = "link" \/ ~request[r].out
                                     \/ l \in Single]_vars
  BY <1>1
<1> QED BY <1>2, Invariant, PTL DEF Spec, NoReturnUnasked
=============================================================================
