------------------------------- MODULE Carrier -------------------------------
(***************************************************************************)
(* Mail outside campaigns.  POST /transactional (transactional/send.ts)    *)
(* and the subscription e-mails (contacts/lists/subscription-emails.ts)    *)
(* put the compiled template, the sender's identity and the language into  *)
(* a hidden campaign, the carrier, which is written again by every         *)
(* request, and queue a message that names it.  The sender claims the      *)
(* message with the revision the carrier then has and reads the content    *)
(* through a cache keyed by carrier and revision (campaign/cache.go).      *)
(***************************************************************************)
EXTENDS Naturals, FiniteSets

CONSTANTS
    Msg,
    Row,          \* rows of campaigns that may become carriers of the template
    Variant,      \* what a request chooses of the content: identity, reply-to, language
    Bad,          \* versions the sender refuses (PrepareHeader)
    NeedsFrom,    \* version from which the template uses one more variable of `data`
    MaxVersion,   \* bound: versions of the template
    MaxSettings,  \* bound: changes of the workspace's name and address
    MaxRestarts   \* bound: restarts of the sender

ASSUME CarrierAssumption ==
    /\ MaxVersion \in Nat \ {0} /\ MaxSettings \in Nat /\ MaxRestarts \in Nat
    /\ NeedsFrom \in Nat /\ Bad \subseteq 1..MaxVersion

VARIABLES
    template,  \* version of the template
    settings,  \* version of the workspace's name and postal address
    carrier,   \* rows of campaigns: revision (0: none) and content (history: how often written)
    message,   \* requests and the messages they make
    cache,     \* Cache.items
    broken,    \* Cache.failed: carriers and revisions whose header was refused
    restarts,
    refused    \* history: messages and revisions a refused header has returned

vars == <<template, settings, carrier, message, cache, broken, restarts, refused>>
sender == <<cache, broken, restarts, refused>>

Empty == [revision |-> 0, writes |-> 0, version |-> 0, variant |-> "none"]
NoHeader == [writes |-> 0, version |-> 0, variant |-> "none", settings |-> 0]
Nothing == [revision |-> 0, header |-> NoHeader]
New == [stage |-> "none", version |-> 0, variant |-> "none", supplied |-> FALSE, carrier |-> "none",
        born |-> 0, revision |-> 0, settings |-> 0, header |-> NoHeader]

Init ==
    /\ template = 1 /\ settings = 0 /\ restarts = 0
    /\ carrier = [c \in Row |-> Empty]
    /\ message = [m \in Msg |-> New]
    /\ cache = [c \in Row |-> Nothing]
    /\ broken = {} /\ refused = {}

At(m, stage) == message[m].stage = stage
Written == {c \in Row : carrier[c].revision > 0}
Own(m) == message[m].carrier

-----------------------------------------------------------------------------
\* The application

\* Saving the template, and the settings of the workspace.
EditTemplate ==
    /\ template < MaxVersion
    /\ template' = template + 1
    /\ UNCHANGED <<settings, carrier, message, sender>>

EditSettings ==
    /\ settings < MaxSettings
    /\ settings' = settings + 1
    /\ UNCHANGED <<template, carrier, message, sender>>

\* missingDataPaths: a variable the request did not supply is an error.
DataSuffices(version, supplied) == version >= NeedsFrom => supplied

\* sendTransactional reads and compiles the template,
Compile(m, v, supplied) ==
    /\ At(m, "none") /\ DataSuffices(template, supplied)
    /\ message' = [message EXCEPT ![m].stage = "compiled", ![m].version = template,
                                  ![m].variant = v, ![m].supplied = supplied]
    /\ UNCHANGED <<template, settings, carrier, sender>>

\* upsertTransactionalCampaign looks for the carrier,
FindCarrier(m) ==
    /\ At(m, "compiled")
    /\ message' = [message EXCEPT ![m].stage = IF Written = {} THEN "inserting" ELSE "updating"]
    /\ UNCHANGED <<template, settings, carrier, sender>>

\* (mutant) The revision is left alone when the carrier is written again.
NextRevisionSame(c) == IF c \in Written THEN carrier[c].revision ELSE 1

NextRevision(c) == carrier[c].revision + 1

\* and writes it together with the message, in one transaction.
Enqueue(m, c) ==
    /\ \/ At(m, "updating") /\ c \in Written
       \/ At(m, "inserting") /\ c \notin Written
    /\ carrier' = [carrier EXCEPT ![c] = [revision |-> NextRevision(c), writes |-> @.writes + 1,
          version |-> message[m].version, variant |-> message[m].variant]]
    /\ message' = [message EXCEPT ![m].stage = "pending", ![m].carrier = c,
                                  ![m].born = carrier'[c].writes]
    /\ UNCHANGED <<template, settings, sender>>

-----------------------------------------------------------------------------
\* The sender

ClaimedRevision(m) == carrier[Own(m)].revision

\* StmtClaimNonCampaignBatch, whatever the status of the carrier.
Claim(m) ==
    /\ At(m, "pending")
    /\ message' = [message EXCEPT ![m].stage = "claimed", ![m].revision = ClaimedRevision(m),
                                  ![m].settings = settings]
    /\ UNCHANGED <<template, settings, carrier, sender>>

Cached(m) == cache[Own(m)] # Nothing /\ cache[Own(m)].revision = message[m].revision

\* (mutant) One refusal stands for every revision to come.
KnownBrokenAny(m) == \E b \in broken : b[1] = Own(m)

KnownBroken(m) == <<Own(m), message[m].revision>> \in broken

\* Cache.Get when it has the header,
Hit(m) ==
    /\ At(m, "claimed") /\ Cached(m)
    /\ message' = [message EXCEPT ![m].stage = "ready", ![m].header = cache[Own(m)].header]
    /\ UNCHANGED <<template, settings, carrier, sender>>

\* handleCampaignFailure: the pause finds a draft and changes nothing, the carrier is
\* forgotten, the message is released and due at once.
Refuse(m) ==
    /\ cache' = [cache EXCEPT ![Own(m)] = Nothing]
    /\ refused' = refused \union {<<m, message[m].revision>>}
    /\ message' = [message EXCEPT ![m].stage = "pending"]
    /\ UNCHANGED <<template, settings, carrier, restarts>>

\* when it remembers a refusal,
Recall(m) ==
    /\ At(m, "claimed") /\ ~Cached(m) /\ KnownBroken(m)
    /\ Refuse(m)
    /\ UNCHANGED broken

\* and when it must load: outside the lock, what the row holds by now;
Load(m) ==
    /\ At(m, "claimed") /\ ~Cached(m) /\ ~KnownBroken(m)
    /\ message' = [message EXCEPT ![m].stage = "loaded", ![m].header =
          [writes |-> carrier[Own(m)].writes, version |-> carrier[Own(m)].version,
           variant |-> carrier[Own(m)].variant, settings |-> settings]]
    /\ UNCHANGED <<template, settings, carrier, sender>>

\* (mutant) The entry is filed under what the carrier has now.
EntryFiledLate(m) == [revision |-> carrier[Own(m)].revision, header |-> message[m].header]

Entry(m) == [revision |-> message[m].revision, header |-> message[m].header]

\* PrepareHeader accepts it, and the entry replaces whatever is there by now,
Keep(m) ==
    /\ At(m, "loaded") /\ message[m].header.version \notin Bad
    /\ cache' = [cache EXCEPT ![Own(m)] = Entry(m)]
    /\ broken' = broken \ {<<Own(m), message[m].revision>>}
    /\ message' = [message EXCEPT ![m].stage = "ready"]
    /\ UNCHANGED <<template, settings, carrier, restarts, refused>>

\* or refuses it.
Reject(m) ==
    /\ At(m, "loaded") /\ message[m].header.version \in Bad
    /\ Refuse(m)
    /\ broken' = broken \union {<<Own(m), message[m].revision>>}

Send(m) ==
    /\ At(m, "ready")
    /\ message' = [message EXCEPT ![m].stage = "sent"]
    /\ UNCHANGED <<template, settings, carrier, sender>>

\* The memory of a process ends with it, and recovery returns what it had claimed.
Restart ==
    /\ restarts < MaxRestarts
    /\ restarts' = restarts + 1
    /\ cache' = [c \in Row |-> Nothing] /\ broken' = {}
    /\ message' = [m \in Msg |-> IF message[m].stage \in {"claimed", "loaded", "ready"}
                                 THEN [message[m] EXCEPT !.stage = "pending"] ELSE message[m]]
    /\ UNCHANGED <<template, settings, carrier, refused>>

Deliver(m) == Claim(m) \/ Hit(m) \/ Recall(m) \/ Load(m) \/ Keep(m) \/ Reject(m) \/ Send(m)

Next ==
    \/ EditTemplate \/ EditSettings \/ Restart
    \/ \E m \in Msg :
          \/ \E v \in Variant, supplied \in BOOLEAN : Compile(m, v, supplied)
          \/ FindCarrier(m)
          \/ \E c \in Row : Enqueue(m, c)
          \/ Deliver(m)

Spec == Init /\ [][Next]_vars

\* The loop of the sender takes what is due and its workers go on.
FairSpec == Spec /\ \A m \in Msg : WF_vars(Deliver(m))

-----------------------------------------------------------------------------
\* Properties

Headers == [writes : Nat, version : 0..MaxVersion, variant : Variant \union {"none"}, settings : Nat]

TypeOK ==
    /\ template \in 1..MaxVersion /\ settings \in 0..MaxSettings /\ restarts \in 0..MaxRestarts
    /\ carrier \in [Row -> [revision : Nat, writes : Nat, version : 0..MaxVersion,
                         variant : Variant \union {"none"}]]
    /\ message \in [Msg ->
          [stage : {"none", "compiled", "inserting", "updating", "pending", "claimed", "loaded",
                    "ready", "sent"},
           version : 0..MaxVersion, variant : Variant \union {"none"}, supplied : BOOLEAN,
           carrier : Row \union {"none"}, born : Nat, revision : Nat, settings : Nat,
           header : Headers]]
    /\ cache \in [Row -> [revision : Nat, header : Headers]]
    /\ broken \subseteq Row \X Nat /\ refused \subseteq Msg \X Nat

\* Whatever slow loads overwrite in the cache, an entry never holds content older than
\* the revision it is filed under (campaign/cache.go).
EntryIsFresh == \A c \in Row : cache[c].header.writes >= cache[c].revision

\* A message never goes out with content older than what its own request wrote.
NeverOlder == \A m \in Msg :
    message[m].stage \in {"ready", "sent"} => message[m].header.writes >= message[m].born

\* What the sender has refused is never sent.
BadIsNotSent == \A m \in Msg : At(m, "sent") => message[m].header.version \notin Bad

\* A queued message is sent, unless its carrier holds content the sender refuses: a
\* refusal is not held against the content that replaces it.
Departs == \A m \in Msg :
    At(m, "pending") ~> (At(m, "sent") \/ \E c \in {Own(m)} \intersect Row : carrier[c].version \in Bad)

\* A message is sent with the identity its own request named (send.ts: the identity
\* that was chosen has precedence).
OwnVariant == \A m \in Msg : At(m, "sent") => message[m].header.variant = message[m].variant

\* No message is rendered with a variable its request did not supply (send.ts, point 4).
NoBlank == \A m \in Msg :
    At(m, "sent") => DataSuffices(message[m].header.version, message[m].supplied)

\* One carrier for a template (send.ts, upsertTransactionalCampaign).
OneCarrier == Cardinality(Written) <= 1

\* What is taken from the cache is not out of date (campaign/cache.go).
NeverStale == \A m \in Msg : At(m, "sent") => message[m].header.settings >= message[m].settings

\* A message whose carrier was refused is not tried again with the same content
\* (statements.go, StmtPauseCampaign).
NotTriedAgain == [][\A m \in Msg :
    (At(m, "pending") /\ message'[m].stage = "claimed") => <<m, message'[m].revision>> \notin refused]_vars
=============================================================================
