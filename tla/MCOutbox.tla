------------------------------ MODULE MCOutbox ------------------------------
(* Small instances of Outbox. *)
EXTENDS Outbox, TLC

CONSTANTS p1, p2, m1, m2, c1, i1, i2

DistinctIdOf == [p \in Proc |-> IF p = p1 THEN i1 ELSE i2]
OwnIdOf == [p \in Proc |-> p]     \* a process is its SENDER_ID
Senders == Permutations(Proc)
SharedIdOf == [p \in Proc |-> i1]
OneCampaign == [m \in Msg |-> c1]

AllReasons == {"soft", "hard"}
Soft == {"soft"}
Hard == {"hard"}
AllMoves == {"idle", "active", "deleted"}
Resume == {"active"}
Nothing == {}

Plain == {"ok", "retryable"}
Doubtful == {"ok", "lost", "retryable", "boundary"}
Lossy == {"ok", "lost", "retryable", "fatal"}
Reliable == {"ok", "retryable", "throttled", "fatal", "permanent", "render", "boundary"}
Every == {"ok", "lost", "retryable", "throttled", "fatal", "permanent", "render", "boundary"}
=============================================================================
