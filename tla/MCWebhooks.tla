----------------------------- MODULE MCWebhooks -----------------------------
(* Small instances of Webhooks. *)
EXTENDS Webhooks

CONSTANTS e1, e2, t1, p1, p2, w1, w2

AllAnswers == {"ok", "lost", "error", "gone", "blocked"}
Plain == {"ok", "lost", "error"}
Failing == {"error"}
AllEdits == {"url", "subscription", "delete", "enable", "retry"}
Recovery == {"enable", "retry"}
=============================================================================
