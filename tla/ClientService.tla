---------------------------- MODULE ClientService ----------------------------
(***************************************************************************)
(* What the server promises its clients, without connections, events or    *)
(* threads: a client that has sent a whole request may get one response to *)
(* it, and nobody gets a response he has not asked for.  The promise to a  *)
(* client may become void; the others keep theirs.                         *)
(***************************************************************************)
EXTENDS Naturals

CONSTANT Clients   \* the peers

VARIABLES
    asked,      \* the clients that have sent a whole request
    replies,    \* the number of responses each client has been sent
    void        \* the clients to whom nothing is promised any more

Init == asked = {} /\ replies = [c \in Clients |-> 0] /\ void = {}

Ask(c) == c \notin asked /\ asked' = asked \union {c} /\ UNCHANGED <<replies, void>>

Reply(c) ==
    /\ c \in void \/ (c \in asked /\ replies[c] = 0)
    /\ replies' = [replies EXCEPT ![c] = @ + 1]
    /\ UNCHANGED <<asked, void>>

Void == void \subseteq void' /\ UNCHANGED <<asked, replies>>

Next == Void \/ \E c \in Clients : Ask(c) \/ Reply(c)

Spec == Init /\ [][Next]_<<asked, replies, void>>
=============================================================================
