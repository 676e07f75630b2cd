-------------------------------- MODULE Contact --------------------------------
(***************************************************************************)
(* One address of one project: its row on the suppression list             *)
(* (packages/core/src/contacts/repo/suppressions.ts), its contact, its     *)
(* subscriptions to lists, its consents and the open confirmation link of  *)
(* each list.  Bounces and complaints, unsubscribing, the removal of a     *)
(* suppression, subscribing (subscribe.ts), following a confirmation link  *)
(* (confirm.ts) and the manual confirmation are requests that run at the   *)
(* same time.  Subscribing and confirming use a transaction for each of    *)
(* their steps, so that others run between any two of them and a failure   *)
(* leaves what was done before it.                                         *)
(***************************************************************************)
EXTENDS Naturals, FiniteSets

CONSTANTS
    Request,      \* places for requests under way
    List,
    Single,       \* lists with opt_in = 'single'; the others ask for confirmation
    Added,        \* reasons that bounces, complaints, imports and POST /suppressions add
    MaxRequests,  \* bound: requests that come
    MaxFaults     \* bound: failures

\* SUPPRESSION_RANK, the strictest first.
Rank == [gdpr_erasure |-> 0, complaint |-> 1, hard_bounce |-> 2, ses_suppressed |-> 3,
         global_unsubscribe |-> 4, one_click_unsubscribe |-> 5,
         soft_bounce_threshold |-> 6, invalid |-> 7, import |-> 8, manual |-> 9]
Reason == DOMAIN Rank
OptOut == {"global_unsubscribe", "one_click_unsubscribe"}

ASSUME ContactAssumption ==
    /\ Single \subseteq List
    /\ Added \subseteq Reason
    /\ MaxRequests \in Nat /\ MaxFaults \in Nat

VARIABLES
    row,      \* the address's row on the suppression list: live or removed
    status,   \* contacts.status, "none" when there is no contact
    sub,      \* list_subscriptions.status of each list
    consent,  \* the newest consent that reaches each list
    link,     \* the open confirmation link of each list, 0 when there is none
    request,  \* where each request is
    past,     \* what the properties remember
    used      \* how much of each bound has been used

vars == <<row, status, sub, consent, link, request, past, used>>
data == <<status, sub, consent>>

Idle == [stage |-> "idle"]
NoRow == "none"
At(r, stage) == request[r].stage = stage
Locked == {"unsubscribed", "bounced", "complained"}

Init ==
    /\ row = [live |-> FALSE, id |-> 0, reason |-> "manual"]
    /\ status = "none"
    /\ sub = [l \in List |-> "none"]
    /\ consent = [l \in List |-> "none"]
    /\ link = [l \in List |-> 0]
    /\ request = [r \in Request |-> Idle]
    /\ past = [out |-> FALSE, derived |-> FALSE, undone |-> FALSE, unproven |-> {}, links |-> 0]
    /\ used = [requests |-> 0, faults |-> 0]

RowReason == IF row.live THEN row.reason ELSE NoRow
IsStricter(a, b) == Rank[a] < Rank[b]

\* Rows locked by open transactions: an addition that has selected the live row holds it
\* until it commits, a global unsubscription holds the contact from its first statement.
RowFree(r) == ~\E q \in Request \ {r} : At(q, "adding") /\ request[q].seen # NoRow
ContactFree(r) == ~\E q \in Request \ {r} : At(q, "adding") /\ request[q].all

\* A request comes and goes to its first stage.
Arrive(r, first) ==
    /\ At(r, "idle") /\ used.requests < MaxRequests
    /\ request' = [request EXCEPT ![r] = first]
    /\ used' = [used EXCEPT !.requests = @ + 1]

\* Consents for the lists `withdrawn` are withdrawn: what a request under way writes later,
\* dated with its beginning, is not the newest.
Overtaken(q, withdrawn) ==
    IF q.stage \in {"idle", "adding", "removing"} \/ q.list \notin withdrawn THEN q
    ELSE [q EXCEPT !.late = TRUE]

\* A request that ends in the step it comes in.
Come == used.requests < MaxRequests /\ used' = [used EXCEPT !.requests = @ + 1]
Goto(r, stage) == request' = [request EXCEPT ![r].stage = stage]
End(r) == request' = [request EXCEPT ![r] = Idle]

-----------------------------------------------------------------------------
\* addSuppression

\* DOMAIN_EFFECTS
StatusFor(reason) ==
    CASE reason = "complaint" -> "complained"
      [] reason \in {"hard_bounce", "ses_suppressed", "soft_bounce_threshold", "invalid"}
            -> "bounced"
      [] reason \in OptOut -> "unsubscribed"
      [] reason = "gdpr_erasure" -> "deleted"
      [] OTHER -> status
SubFor(reason, s) ==
    CASE s = "none" -> s
      [] reason = "complaint" -> "complained"
      [] reason \in {"hard_bounce", "ses_suppressed"} ->
            IF s \in {"confirmed", "pending"} THEN "bounced" ELSE s
      [] reason \in OptOut -> "unsubscribed"
      [] reason = "gdpr_erasure" -> "none"
      [] OTHER -> s
Withdraws(reason) == reason \in OptOut \union {"complaint"}

\* (mutant) The effects are applied to a new row only.
EffectsWhenCreated(seen, reason) == ~row.live

\* The reason the upsert leaves, and whether the effects are applied: the row is new, or
\* stricter than the row that was selected before.
UpsertedReason(reason) ==
    IF row.live /\ ~IsStricter(reason, row.reason) THEN row.reason ELSE reason
EffectsApply(seen, reason) ==
    \/ ~row.live
    \/ seen # NoRow /\ IsStricter(UpsertedReason(reason), seen)

\* The selection of the live row FOR UPDATE.
SelectRow(r, reason, all) ==
    /\ RowFree(r)
    /\ Arrive(r, [stage |-> "adding", reason |-> reason, all |-> all, seen |-> RowReason])
    /\ UNCHANGED <<row, data, link, past>>

Add(r, reason) == SelectRow(r, reason, FALSE)

\* unsubscribe() without a list: the contact is locked first.  Nothing it writes is seen
\* before it commits.
UnsubscribeAll(r, reason) ==
    /\ status # "none" /\ ContactFree(r)
    /\ SelectRow(r, reason, TRUE)

\* The upsert, the effects and the commit; the unsubscription also writes the
\* subscriptions before and the consent after.
CommitAdd(r) ==
    /\ At(r, "adding") /\ RowFree(r) /\ ContactFree(r)
    /\ LET q == request[r]
           reason == UpsertedReason(q.reason)
           applied == status # "none" /\ EffectsApply(q.seen, q.reason)
           out(s) == IF q.all THEN SubFor("global_unsubscribe", s) ELSE s
           withdrawn == IF q.all \/ (applied /\ Withdraws(reason)) THEN List ELSE {}
       IN /\ row' = [live |-> TRUE, reason |-> reason,
                     id |-> IF row.live THEN row.id ELSE row.id + 1]
          /\ status' = IF applied THEN StatusFor(reason) ELSE status
          /\ sub' = [l \in List |-> IF applied THEN SubFor(reason, out(sub[l]))
                                    ELSE out(sub[l])]
          /\ consent' = [l \in List |-> IF l \in withdrawn THEN "withdrawn" ELSE consent[l]]
          /\ request' = [p \in Request |-> IF p = r THEN Idle
                                           ELSE Overtaken(request[p], withdrawn)]
          /\ past' = [past EXCEPT
                !.out = @ \/ q.all,
                !.undone = @ /\ reason = RowReason,
                !.derived = IF reason = RowReason THEN @
                            ELSE status # "none" /\ q.seen = RowReason]
    /\ UNCHANGED <<link, used>>

-----------------------------------------------------------------------------
\* The removal of a suppression (DELETE /suppressions/{id})

\* (mutant) An opt-out may be removed like the rest.
CanRemoveOptOut(reason) ==
    reason \in {"hard_bounce", "soft_bounce_threshold", "invalid", "import", "manual"}
               \union OptOut

\* canRemove for an administrator, of a row old enough.
CanRemove(reason) ==
    reason \in {"hard_bounce", "soft_bounce_threshold", "invalid", "import", "manual"}

AskRemoval(r) ==
    /\ row.live /\ CanRemove(row.reason)
    /\ Arrive(r, [stage |-> "removing", id |-> row.id, seen |-> row.reason])
    /\ UNCHANGED <<row, data, link, past>>

\* The UPDATE goes by the row's id, whatever its reason has become.
RowLeaves == /\ row' = [row EXCEPT !.live = FALSE]
             /\ past' = [past EXCEPT !.out = FALSE, !.derived = FALSE]
Remove(r) ==
    /\ At(r, "removing") /\ RowFree(r)
    /\ IF row.live /\ row.id = request[r].id THEN RowLeaves ELSE UNCHANGED <<row, past>>
    /\ End(r)
    /\ UNCHANGED <<data, link, used>>

-----------------------------------------------------------------------------
\* unsubscribe() from a list

UnsubscribeList(l) ==
    /\ status # "none" /\ Come
    /\ \A r \in Request : ContactFree(r)
    /\ sub' = [sub EXCEPT ![l] = SubFor("global_unsubscribe", @)]
    /\ consent' = [consent EXCEPT ![l] = "withdrawn"]
    /\ request' = [p \in Request |-> Overtaken(request[p], {l})]
    /\ UNCHANGED <<row, status, link, past>>

-----------------------------------------------------------------------------
\* subscribe()

HardBlocks == {"complaint", "gdpr_erasure"}
\* The suppression is checked; a hard one ends the request.  `out` and `late` are for the
\* properties: whether the person had opted out before, and whether a withdrawal has come
\* since, which is newer than a consent dated with the request's beginning.
Subscribe(r, l, declared) ==
    /\ RowReason \notin HardBlocks
    /\ Arrive(r, [stage |-> "checked", list |-> l, by |-> "subscribe",
                  declared |-> declared, soft |-> row.live, out |-> past.out,
                  late |-> FALSE, status |-> "none"])
    /\ UNCHANGED <<row, data, link, past>>

\* writeContact checks the suppression once more, at any time until the contact is read.
RefusedAgain(r) ==
    /\ At(r, "checked") /\ RowReason \in HardBlocks
    /\ End(r)
    /\ UNCHANGED <<row, data, link, past, used>>

\* The contact is read (applyWriteRules keeps its status, a new one is unconfirmed) and then
\* written.
ReadContact(r) ==
    /\ At(r, "checked")
    /\ request' = [request EXCEPT ![r].stage = "read",
          ![r].status = IF status = "none" THEN "unconfirmed" ELSE status]
    /\ UNCHANGED <<row, data, link, past, used>>

\* A status that is locked by now is kept.  'deleted' is not among the locked ones: an
\* erasure asked for by POST /suppressions sets no deleted_at, so the contact is written to.
UpsertedStatus(read) == IF status \in Locked THEN status ELSE read
UpsertContact(r) ==
    /\ At(r, "read") /\ ContactFree(r)
    /\ status' = UpsertedStatus(request[r].status)
    /\ past' = [past EXCEPT !.undone = @ \/ (status = "deleted" /\ status' # status)]
    /\ Goto(r, "deciding")
    /\ UNCHANGED <<row, sub, consent, link, used>>

\* (mutant) A declaration is enough.
ConfirmsDeclared(q, from) ==
    \/ q.declared /\ from # "unsubscribed"
    \/ ~q.soft /\ from # "unsubscribed" /\ consent[q.list] = "granted"
    \/ from = "none" /\ q.list \in Single

\* onSubscribe: confirmed at once by a declaration or an earlier consent, unless the
\* address is suppressed or has left the list; or on a list with single opt-in.
ConfirmsAtOnce(q, from) ==
    \/ /\ ~q.soft /\ from # "unsubscribed"
       /\ q.declared \/ consent[q.list] = "granted"
    \/ from = "none" /\ q.list \in Single
Refuses(q, from) ==
    from = "complained" \/ (from = "bounced" /\ q.soft)

Decide(r) ==
    /\ At(r, "deciding")
    /\ LET q == request[r]
           from == sub[q.list]
       IN \/ /\ Refuses(q, from) \/ from = "confirmed"
             /\ End(r)
          \/ /\ from = "bounced" /\ q.soft   \* old enough to be let through
             /\ Goto(r, "asking")
          \/ /\ ~Refuses(q, from) /\ from # "confirmed"
             /\ Goto(r, IF ConfirmsAtOnce(q, from) THEN "confirming" ELSE "asking")
    /\ UNCHANGED <<row, data, link, past, used>>

\* The subscription waits for a confirmation; the link is issued after, unless one was
\* sent a short while ago.
WritePending(r) ==
    /\ At(r, "asking")
    /\ sub' = [sub EXCEPT ![request[r].list] = "pending"]
    /\ Goto(r, "issuing") \/ End(r)
    /\ UNCHANGED <<row, status, consent, link, past, used>>

\* issueConfirmation: a new link, earlier ones are closed.  For an expired link the
\* subscription is written after.
IssueLink(r) ==
    /\ At(r, "issuing")
    /\ link' = [link EXCEPT ![request[r].list] = past.links + 1]
    /\ past' = [past EXCEPT !.links = @ + 1]
    /\ End(r)
    /\ UNCHANGED <<row, data, used>>

-----------------------------------------------------------------------------
\* confirmSubscription()

\* The link, the suppression and the subscription are read.  `opted` is for the property:
\* the row that records an opt-out by now.
FollowLink(r, l) ==
    /\ link[l] # 0 /\ RowReason # "complaint" /\ sub[l] # "complained"
    /\ Arrive(r, [stage |-> "following", list |-> l, by |-> "link", token |-> link[l],
                  left |-> sub[l] = "unsubscribed", late |-> FALSE,
                  opted |-> IF past.out /\ row.reason \in OptOut THEN row.id ELSE 0])
    /\ UNCHANGED <<row, data, link, past>>

\* The UPDATE consumes a link that is still open.
ConsumeLink(r) ==
    /\ At(r, "following")
    /\ LET q == request[r] IN
       IF link[q.list] = q.token
       THEN /\ link' = [link EXCEPT ![q.list] = 0]
            /\ Goto(r, IF q.left THEN "lifting" ELSE "confirming")
       ELSE End(r) /\ UNCHANGED link
    /\ UNCHANGED <<row, data, past, used>>

\* removeUnsubscribeSuppressionForContact, for who had left this list.
Lift(r) ==
    /\ At(r, "lifting") /\ RowFree(r)
    /\ IF row.live /\ row.reason \in OptOut THEN RowLeaves ELSE UNCHANGED <<row, past>>
    /\ Goto(r, "confirming")
    /\ UNCHANGED <<data, link, used>>

\* A link that has expired: a new one is issued and the subscription is pending again,
\* whatever it was.
FollowExpired(r, l) ==
    /\ link[l] # 0 /\ RowReason # "complaint"
    /\ Arrive(r, [stage |-> "reissuing", list |-> l, by |-> "link", token |-> link[l],
                  left |-> FALSE, late |-> FALSE, opted |-> 0])
    /\ UNCHANGED <<row, data, link, past>>
Reissue(r) ==
    /\ At(r, "reissuing")
    /\ link' = [link EXCEPT ![request[r].list] = past.links + 1]
    /\ past' = [past EXCEPT !.links = @ + 1]
    /\ Goto(r, "demoting")
    /\ UNCHANGED <<row, data, used>>
Demote(r) ==
    /\ At(r, "demoting")
    /\ sub' = [sub EXCEPT ![request[r].list] = "pending"]
    /\ End(r)
    /\ UNCHANGED <<row, status, consent, link, past, used>>

\* Both ways end with the subscription confirmed, in one transaction, and the consent
\* recorded, in the next.
WriteConfirmed(r) ==
    /\ At(r, "confirming")
    /\ sub' = [sub EXCEPT ![request[r].list] = "confirmed"]
    /\ Goto(r, "granting")
    /\ UNCHANGED <<row, status, consent, link, past, used>>

\* (mutant) No consent is recorded.
ConsentForgotten(q) == consent[q.list]

\* The consent is dated with the request's beginning.
ConsentAfter(q) == IF q.late THEN consent[q.list] ELSE "granted"
RecordConsent(r) ==
    /\ At(r, "granting")
    /\ LET q == request[r] IN
       /\ consent' = [consent EXCEPT ![q.list] = ConsentAfter(q)]
       /\ past' = [past EXCEPT !.unproven =
             IF q.late /\ consent[q.list] # "granted" THEN @ \union {q.list}
             ELSE @ \ {q.list}]
       /\ IF q.by = "link" THEN Goto(r, "activating") ELSE End(r)
    /\ UNCHANGED <<row, status, sub, link, used>>

\* activateContact is for the status 'pending', which contacts do not have.  The person is
\* told that it is done.
Activate(r) ==
    /\ At(r, "activating") /\ ContactFree(r)
    /\ status' = IF status = "pending" THEN "active" ELSE status
    /\ End(r)
    /\ UNCHANGED <<row, sub, consent, link, past, used>>

-----------------------------------------------------------------------------
\* (mutant) Everything is cleared.
ClearsAll(reason) == TRUE

\* confirmContactManually, one transaction: the suppression leaves if its reason may be
\* cleared, every subscription is confirmed, a consent for the whole project is recorded.
Clears(reason) == reason \in OptOut \union
    {"soft_bounce_threshold", "invalid", "import", "manual"}
ManualConfirm ==
    /\ status # "none" /\ Come
    /\ \A r \in Request : RowFree(r) /\ ContactFree(r)
    /\ LET clears == row.live /\ Clears(row.reason) IN
       /\ row' = [row EXCEPT !.live = @ /\ ~clears]
       /\ past' = [past EXCEPT !.out = @ /\ ~clears, !.derived = FALSE, !.unproven = {}]
    /\ status' = "active"
    /\ sub' = [l \in List |-> IF sub[l] = "none" THEN "none" ELSE "confirmed"]
    /\ consent' = [l \in List |-> "granted"]
    /\ UNCHANGED <<link, request>>

\* The process stops, a statement fails or a deadlock is resolved: what is committed stays.
Fail(r) ==
    /\ request[r] # Idle /\ used.faults < MaxFaults
    /\ used' = [used EXCEPT !.faults = @ + 1]
    /\ past' = [past EXCEPT !.unproven =
          IF At(r, "granting") THEN @ \union {request[r].list} ELSE @]
    /\ End(r)
    /\ UNCHANGED <<row, data, link>>

Step(r) ==
    \/ CommitAdd(r) \/ Remove(r)
    \/ RefusedAgain(r) \/ ReadContact(r) \/ UpsertContact(r)
    \/ Decide(r) \/ WritePending(r) \/ IssueLink(r)
    \/ ConsumeLink(r) \/ Lift(r) \/ Reissue(r) \/ Demote(r)
    \/ WriteConfirmed(r) \/ RecordConsent(r) \/ Activate(r)

Next ==
    \/ \E r \in Request, reason \in Added : Add(r, reason)
    \/ \E r \in Request, reason \in OptOut : UnsubscribeAll(r, reason)
    \/ \E r \in Request : AskRemoval(r)
    \/ \E r \in Request, l \in List : FollowLink(r, l) \/ FollowExpired(r, l)
    \/ \E r \in Request, l \in List, declared \in BOOLEAN : Subscribe(r, l, declared)
    \/ \E l \in List : UnsubscribeList(l)
    \/ ManualConfirm
    \/ \E r \in Request : Step(r) \/ Fail(r)

Spec == Init /\ [][Next]_vars

-----------------------------------------------------------------------------
\* Properties

SubStates == {"none", "pending", "confirmed", "unsubscribed", "bounced", "complained"}
Statuses == {"none", "unconfirmed", "active", "deleted"} \union Locked
TypeOK ==
    /\ row \in [live : BOOLEAN, id : Nat, reason : Reason]
    /\ status \in Statuses
    /\ sub \in [List -> SubStates]
    /\ consent \in [List -> {"none", "granted", "withdrawn"}]
    /\ link \in [List -> Nat]
    /\ request \in [Request -> {Idle}
          \union [stage : {"adding"}, reason : Reason, all : BOOLEAN,
                  seen : Reason \union {NoRow}]
          \union [stage : {"removing"}, id : Nat, seen : Reason]
          \union [stage : {"checked", "read", "deciding", "asking", "issuing", "confirming",
                           "granting"},
                  list : List, by : {"subscribe"}, declared : BOOLEAN, soft : BOOLEAN,
                  out : BOOLEAN, late : BOOLEAN, status : Statuses]
          \union [stage : {"following", "lifting", "confirming", "granting", "activating",
                           "reissuing", "demoting"},
                  list : List, by : {"link"}, token : Nat, left : BOOLEAN,
                  late : BOOLEAN, opted : Nat]]
    /\ past \in [out : BOOLEAN, derived : BOOLEAN, undone : BOOLEAN, unproven : SUBSET List,
                links : Nat]
    /\ used \in [requests : Nat, faults : Nat]

\* A row nobody may remove (a complaint, an erasure, the provider's own list) never gets
\* milder and never leaves, whatever is added, asked or confirmed at the same time, except
\* by a removal that was asked for while the row still had another reason.
NotRemovable == {"gdpr_erasure", "complaint", "ses_suppressed"}
HardBlockStays == [][
    row.live =>
       /\ (row'.live /\ row'.id = row.id) => ~IsStricter(row.reason, row'.reason)
       /\ (row.reason \in NotRemovable /\ ~row'.live) =>
             \E r \in Request : Remove(r) /\ request[r].seen \notin NotRemovable]_vars

\* Who has opted out of everything stays on the list until a confirmation of their own or
\* an administrator's.  An administrator's removal takes the opt-out along only with a
\* hard bounce recorded over it, or if it was asked for before the opt-out.
OptOutHolds == [][
    (past.out /\ ~row'.live) =>
       \/ ManualConfirm
       \/ \E r \in Request : Lift(r)
       \/ \E r \in Request : /\ Remove(r)
                           /\ (row.reason = "hard_bounce" \/ request[r].seen # row.reason)]_vars

\* No subscription request that comes after the opt-out brings a list back without a
\* confirmation, whatever it declares and whatever consents there are; a list with single
\* opt-in, which confirms whom it finds nowhere on the list, is the exception.
NoReturnUnasked == [][
    \A l \in List :
       (past.out /\ sub[l] # "confirmed" /\ sub'[l] = "confirmed") =>
          \/ ManualConfirm
          \/ \E r \in Request : /\ WriteConfirmed(r)
                              /\ \/ request[r].by = "link" \/ ~request[r].out
                                 \/ l \in Single]_vars

\* The contact's status is the one of the reason on its live row, also after a promotion
\* and whatever is written to the contact at the same time, unless the contact came after
\* the row, was confirmed by hand since, or two additions overlapped while the row was new.
StatusOfRow == (row.live /\ past.derived) => status = StatusFor(row.reason)

\* What holds of it: all but an erasure, which a subscription that read the contact before
\* undoes (contacts.ts, upsertRows).
EffectsApplied == StatusOfRow \/ (row.reason = "gdpr_erasure" /\ past.undone)

\* A confirmed subscription has a consent in force that proves it, or a request is about to
\* record it, or it failed before it could, or a withdrawal is newer than what it recorded.
ConfirmedHasProof == \A l \in List : sub[l] = "confirmed" =>
    \/ consent[l] = "granted" \/ l \in past.unproven
    \/ \E r \in Request : At(r, "granting") /\ request[r].list = l

\* Who followed a link to the end, and has not left again since, is no longer blocked by
\* the opt-out that was recorded before (suppressions.ts, criterion 63).
ReturnIsHeard == [][
    \A r \in Request :
       (Activate(r) /\ request[r].opted # 0 /\ ~request[r].late) =>
          ~(row.live /\ row.id = request[r].opted /\ row.reason \in OptOut)]_vars
=============================================================================
