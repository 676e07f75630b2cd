-------------------------- MODULE CampaignPromise --------------------------
(***************************************************************************)
(* What a campaign promises its user, without requests, jobs, batches,     *)
(* cursors or ticks: everybody of the audience gets one message, nothing   *)
(* is sent while the campaign rests or after it has ended, and a campaign  *)
(* that is closed was complete, decided, and says so truly.                *)
(***************************************************************************)
EXTENDS Naturals, FiniteSets

CONSTANTS Contact,          \* the audience
          PartialPercent    \* more undelivered messages than that: partially sent

VARIABLES state,     \* "resting", "running", or how the campaign has ended
          complete,  \* everybody of the audience has got a message
          mail,      \* what has become of each contact's message
          early      \* the messages were counted before the audience was complete

Alive == {"resting", "running"}
Statuses == {"none", "pending", "claimed", "sent", "failed", "skipped"}

Init ==
    /\ state = "resting" /\ ~complete /\ ~early
    /\ mail = [c \in Contact |-> "none"]

\* Started, paused, resumed, put back, scheduled: a campaign that has not ended.
Switch ==
    /\ state \in Alive /\ state' \in Alive
    /\ UNCHANGED <<complete, mail, early>>

\* The messages of any number of contacts change together, as rows do in a statement.
Move(from, to) ==
    /\ mail' \in [Contact -> Statuses]
    /\ \A c \in Contact : mail'[c] # mail[c] => mail[c] = from /\ mail'[c] \in to
    /\ UNCHANGED <<state, complete, early>>

\* One batch: who has no message gets one, and some are skipped at once.
Address == Move("none", {"pending", "skipped"})

\* The sender takes messages, decides them or gives them back.
Take == state = "running" /\ Move("pending", {"claimed"})
Leave == Move("claimed", {"pending", "sent", "failed", "skipped"})

\* Who is suppressed, and everybody once the campaign is cancelled.
Drop == Move("pending", {"skipped"})

Complete ==
    /\ state = "running" /\ \A c \in Contact : mail[c] # "none"
    /\ complete' = TRUE
    /\ UNCHANGED <<state, mail, early>>

Cancel ==
    /\ state \in Alive /\ state' = "cancelled"
    /\ UNCHANGED <<complete, mail, early>>

\* A campaign that cannot be rendered, or of which a run of its job believes so.
Abandon ==
    /\ state = "running" /\ state' = "failed"
    /\ UNCHANGED <<complete, mail, early>>

CountBefore == ~complete /\ early' = TRUE /\ UNCHANGED <<state, complete, mail>>
CountAgain == early' = FALSE /\ UNCHANGED <<state, complete, mail>>

Number(status) == Cardinality({c \in Contact : mail[c] = status})

Verdict ==
    LET undelivered == Number("failed") + Number("skipped") IN
    IF undelivered = Cardinality(Contact) THEN "failed"
    ELSE IF 100 * undelivered > PartialPercent * Cardinality(Contact) THEN "partially_sent"
    ELSE "sent"

\* What is closed is complete and decided, and its verdict is that of its messages;
\* the one exception is a count that came too early.
Close ==
    /\ state = "running" /\ state' \in {"sent", "partially_sent", "failed"}
    /\ \/ early
       \/ /\ complete
          /\ \A c \in Contact : mail[c] \in {"sent", "failed", "skipped"}
          /\ state' = Verdict
    /\ early' = FALSE
    /\ UNCHANGED <<complete, mail>>

Next ==
    \/ Switch \/ Address \/ Complete \/ Take \/ Leave \/ Drop
    \/ Cancel \/ Abandon \/ CountBefore \/ CountAgain \/ Close

Spec == Init /\ [][Next]_<<state, complete, mail, early>>
=============================================================================
