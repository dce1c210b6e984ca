---------------------------- MODULE RequestReply ----------------------------
(***************************************************************************)
(* What the server promises a connected client, with nothing of how it     *)
(* works: every line the client sends gets at most one reply, replies may  *)
(* come in any order, nobody else's lines are ever answered on this        *)
(* connection, and a connection's name is never given to another one.      *)
(* Module Sessions implements it.                                          *)
(***************************************************************************)
EXTENDS Naturals

CONSTANT Clients      \* names of connections

VARIABLES known,      \* the connections that have ever been up
          open,       \* the connections that are up
          sent,       \* sent[c]: how many lines c has sent
          waiting,    \* waiting[c]: the numbers of c's lines not yet answered
          replies     \* replies[c]: how many replies c was sent

vars == <<known, open, sent, waiting, replies>>

Init ==
    /\ known = {}
    /\ open = {}
    /\ sent = [c \in Clients |-> 0]
    /\ waiting = [c \in Clients |-> {}]
    /\ replies = [c \in Clients |-> 0]

\* A connection under a name never used before comes up.
Open(c) ==
    /\ c \notin known
    /\ known' = known \cup {c}
    /\ open' = open \cup {c}
    /\ UNCHANGED <<sent, waiting, replies>>

\* A connection goes down, whatever it still waits for.
Close(c) ==
    /\ c \in open
    /\ open' = open \ {c}
    /\ UNCHANGED <<known, sent, waiting, replies>>

\* The next line of c reaches the server.
Ask(c) ==
    /\ c \in open
    /\ sent' = [sent EXCEPT ![c] = @ + 1]
    /\ waiting' = [waiting EXCEPT ![c] = @ \cup {sent[c] + 1}]
    /\ UNCHANGED <<known, open, replies>>

\* Line n of c gets its one reply.
Answer(c, n) ==
    /\ c \in open
    /\ n \in waiting[c]
    /\ waiting' = [waiting EXCEPT ![c] = @ \ {n}]
    /\ replies' = [replies EXCEPT ![c] = @ + 1]
    /\ UNCHANGED <<known, open, sent>>

Next ==
    \E c \in Clients :
        \/ Open(c)
        \/ Close(c)
        \/ Ask(c)
        \/ \E n \in waiting[c] : Answer(c, n)

Spec == Init /\ [][Next]_vars

=============================================================================
