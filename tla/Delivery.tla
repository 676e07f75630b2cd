------------------------------ MODULE Delivery ------------------------------
(***************************************************************************)
(* What the outbox promises about one e-mail, without rows, leases,        *)
(* processes or statements: how many copies the provider may have accepted *)
(* and what the final word about the message may be.                       *)
(*                                                                         *)
(* A promise starts with room for one copy.  Two things make room for one  *)
(* more: a copy the provider accepted without the sender learning of it    *)
(* (unnoticed), and, when the operator chose the policy "retry", one       *)
(* dispatch whose result was never recorded (excused, once per message).   *)
(***************************************************************************)
EXTENDS Integers

CONSTANTS Msg,
          MayExcuse,     \* the operator accepts one duplicate after a doubt
          MayBeLate      \* a copy may arrive after the final word was said

VARIABLE promise

Promises == [copies : Nat, unnoticed : Nat, excused : BOOLEAN,
             fate : {"open", "sent", "failed", "skipped"}]

Room(d) == 1 + d.unnoticed + (IF d.excused THEN 1 ELSE 0)

\* One more copy, noticed or not.
Deliver(d, e) ==
    /\ d.fate = "open" \/ MayBeLate
    /\ d.copies < Room(d)
    /\ \/ e = [d EXCEPT !.copies = @ + 1]
       \/ e = [d EXCEPT !.copies = @ + 1, !.unnoticed = @ + 1]

\* The single doubt the policy forgives.
Excuse(d, e) ==
    /\ MayExcuse /\ d.fate = "open" /\ ~d.excused
    /\ e = [d EXCEPT !.excused = TRUE]

\* The final word. "sent" may be said only of a message that was accepted.
Settle(d, e) ==
    /\ d.fate = "open"
    /\ \E f \in {"sent", "failed", "skipped"} :
          /\ f = "sent" => d.copies > 0
          /\ e = [d EXCEPT !.fate = f]

DeliveryInit ==
    promise = [m \in Msg |->
                 [copies |-> 0, unnoticed |-> 0, excused |-> FALSE, fate |-> "open"]]

\* One statement may decide several messages, so a step moves each of them or
\* leaves it alone.
DeliveryNext ==
    /\ promise' \in [Msg -> Promises]
    /\ \A m \in Msg : \/ promise'[m] = promise[m]
                      \/ Deliver(promise[m], promise'[m])
                      \/ Excuse(promise[m], promise'[m])
                      \/ Settle(promise[m], promise'[m])

DeliverySpec == DeliveryInit /\ [][DeliveryNext]_promise

=============================================================================
