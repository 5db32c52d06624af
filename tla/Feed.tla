-------------------------------- MODULE Feed --------------------------------
(***************************************************************************)
(* What the push server (server.py) promises about frames: a client that   *)
(* connects gets the last Backfill frames of the ring, and every frame     *)
(* recorded is broadcast to the clients of that moment.  Nothing is        *)
(* promised about order: a broadcast may overtake the backfill and other   *)
(* broadcasts, and a frame that is in the ring but not yet broadcast when  *)
(* the client is added comes twice.  PushServer shows the tasks that do    *)
(* this.                                                                   *)
(*                                                                         *)
(* A send and its receipt are one step, and a client leaves when it sees   *)
(* the connection end: what the server sends does not depend on what has   *)
(* been received, nor on a client that receives nothing any more.          *)
(***************************************************************************)
EXTENDS Integers, Sequences

CONSTANTS Clients,
          Backfill,   \* frames sent on connect: 200 in the code
          MaxFrames   \* bound on the frames recorded

VARIABLES
    recorded,   \* frames appended to the ring so far
    unsent,     \* frames recorded whose broadcast has not looked at the clients
    served,     \* self.clients
    joined,     \* client -> history: frames recorded when it was added, 0 after it left
    backlog,    \* client -> frames of its backfill still to come
    due         \* client -> frames of broadcasts under way still to come

feedVars == <<recorded, unsent, served, joined, backlog, due>>

FeedInit ==
    /\ recorded = 0 /\ unsent = {} /\ served = {}
    /\ joined = [c \in Clients |-> 0]
    /\ backlog = [c \in Clients |-> <<>>]
    /\ due = [c \in Clients |-> {}]

\* record_frame, and the broadcast is on its way to the loop.
Record ==
    /\ recorded < MaxFrames
    /\ recorded' = recorded + 1 /\ unsent' = unsent \cup {recorded + 1}
    /\ UNCHANGED <<served, joined, backlog, due>>

\* The broadcast of a frame starts: its clients are those of now.
Broadcast(n) ==
    /\ n \in unsent /\ unsent' = unsent \ {n}
    /\ due' = [c \in Clients |-> IF c \in served THEN due[c] \cup {n} ELSE due[c]]
    /\ UNCHANGED <<recorded, served, joined, backlog>>

\* recent(Backfill)
Recent ==
    LET first == IF recorded > Backfill THEN recorded - Backfill ELSE 0
    IN  [i \in 1..recorded - first |-> first + i]

\* The handler adds the client and reads the ring, with no await in between.
Accept(c) ==
    /\ c \notin served /\ served' = served \cup {c}
    /\ joined' = [joined EXCEPT ![c] = recorded]
    /\ backlog' = [backlog EXCEPT ![c] = Recent]
    /\ UNCHANGED <<recorded, unsent, due>>

\* The client gets the next frame of its backfill, or one of a broadcast under way.
Deliver(c, n) ==
    /\ c \in served
    /\ \/ /\ backlog[c] # <<>> /\ n = Head(backlog[c])
          /\ backlog' = [backlog EXCEPT ![c] = Tail(@)] /\ UNCHANGED due
       \/ /\ n \in due[c]
          /\ due' = [due EXCEPT ![c] = @ \ {n}] /\ UNCHANGED backlog
    /\ UNCHANGED <<recorded, unsent, served, joined>>

\* Connections end, and what was in transit is lost.
Leave(gone) ==
    /\ served' = served \ gone
    /\ joined' = [c \in Clients |-> IF c \in gone THEN 0 ELSE joined[c]]
    /\ backlog' = [c \in Clients |-> IF c \in gone THEN <<>> ELSE backlog[c]]
    /\ due' = [c \in Clients |-> IF c \in gone THEN {} ELSE due[c]]
    /\ UNCHANGED <<recorded, unsent>>

FeedNext ==
    \/ Record \/ \E n \in unsent : Broadcast(n)
    \/ \E c \in Clients : Accept(c) \/ \E n \in 1..recorded : Deliver(c, n)
    \/ \E gone \in SUBSET Clients : Leave(gone)

FeedSpec == FeedInit /\ [][FeedNext]_feedVars
=============================================================================
