--------------------------- MODULE WebhookPromise ---------------------------
(***************************************************************************)
(* What outgoing webhooks promise about one delivery, whatever happens to  *)
(* jobs, workers, scans and answers: a delivery is made once, its attempts *)
(* are planned only while it is open, success is never a lie, and only a   *)
(* person reopens what was given up and has no attempt ahead of it.  An    *)
(* attempt that was planned before the end may still change the end.       *)
(***************************************************************************)
CONSTANT Delivery

VARIABLES outcome,  \* what the log of deliveries shows
          accepted, \* deliveries the receiver has answered with 2xx
          ahead     \* deliveries with an attempt planned or under way

Init ==
    /\ outcome = [d \in Delivery |-> "none"]
    /\ accepted = {} /\ ahead = {}

\* A fan-out makes the deliveries of all endpoints in one transaction.
Make ==
    /\ ahead' \in SUBSET Delivery /\ ahead \subseteq ahead'
    /\ \A d \in ahead' \ ahead : outcome[d] = "none"
    /\ outcome' = [d \in Delivery |-> IF d \in ahead' \ ahead THEN "open" ELSE outcome[d]]
    /\ UNCHANGED accepted

Plan ==
    /\ ahead' \in SUBSET Delivery /\ ahead \subseteq ahead'
    /\ \A d \in ahead' \ ahead : outcome[d] = "open"
    /\ UNCHANGED <<outcome, accepted>>

\* Attempts are lost, or not made after all.
Forgo ==
    /\ ahead' \in SUBSET ahead
    /\ UNCHANGED <<outcome, accepted>>

Accept(d) ==
    /\ d \in ahead
    /\ accepted' = accepted \union {d}
    /\ UNCHANGED <<outcome, ahead>>

\* The end of an attempt.
Report(d, shown) ==
    /\ d \in ahead
    /\ shown = "succeeded" => d \in accepted
    /\ outcome' = [outcome EXCEPT ![d] = shown]
    /\ ahead' \in {ahead, ahead \ {d}}
    /\ UNCHANGED accepted

Reopen(d) ==
    /\ outcome[d] = "abandoned"
    /\ outcome' = [outcome EXCEPT ![d] = "open"]
    /\ UNCHANGED <<accepted, ahead>>

Next ==
    \/ Make \/ Plan \/ Forgo
    \/ \E d \in Delivery :
          \/ Accept(d) \/ Reopen(d)
          \/ \E shown \in {"open", "succeeded", "abandoned"} : Report(d, shown)

Spec == Init /\ [][Next]_<<outcome, accepted, ahead>>
=============================================================================
