----------------------------- MODULE PushServer -----------------------------
(***************************************************************************)
(* The push server (server.py): frames handed from the capture thread to   *)
(* the asyncio loop, broadcast to the connected clients, and the handler   *)
(* that backfills a client when it connects.                               *)
(*                                                                         *)
(* The loop runs one task at a time and switches tasks only at an await,   *)
(* so an action here is the code of a task between two awaits.  Tasks are  *)
(* the broadcast of frame n (n >= 1), the metrics ticker's broadcast (0)   *)
(* and one handler per client.  A send to a client whose transport is full *)
(* writes the message and then waits for the transport to drain.           *)
(*                                                                         *)
(* Frames are numbered in capture order: the ring holds 1..recorded.       *)
(* websockets is external: a peer may stop reading (stalled), and is then  *)
(* either read from again or closed by the keepalive.                      *)
(***************************************************************************)
EXTENDS Integers, Sequences, FiniteSets

CONSTANTS Clients,      \* connections, each used once
          Authorized,   \* those that present a valid token
          Backfill,     \* frames sent on connect: 200 in the code
          MaxFrames,    \* bound on frames captured
          MaxTicks      \* bound on metrics ticks

ASSUME PushAssumption == /\ Authorized \subseteq Clients
                         /\ Backfill \in Nat \ {0}
                         /\ MaxFrames \in Nat /\ MaxTicks \in Nat

NoClient == "no client"
Tasks == 0..MaxFrames
Ticker == 0

VARIABLES
    recorded,   \* frames appended to the ring so far
    publishing, \* the capture thread is between record_frame and the hand-over
    task,       \* broadcast task -> none, ready, run, done
    todo,       \* broadcast task -> clients of its snapshot still to be sent to
    at,         \* broadcast task -> client whose transport it waits for
    dead,       \* broadcast task -> clients whose send raised
    ticks,      \* metrics ticks so far
    clients,    \* self.clients
    open,       \* connections that are open
    stalled,    \* connections whose transport is full
    handler,    \* client -> where its _handler is
    backlog,    \* client -> messages still to be sent on connect
    stream,     \* client -> frames sent to it, in order
    joined      \* client -> history: frames recorded when it was added

capture == <<recorded, publishing>>
tasks == <<task, todo, at, dead, ticks>>
peers == <<open, stalled>>
handlers == <<handler, backlog, joined>>
vars == <<capture, tasks, clients, peers, handlers, stream>>

Init ==
    /\ recorded = 0 /\ publishing = FALSE
    /\ task = [n \in Tasks |-> "none"] /\ todo = [n \in Tasks |-> {}]
    /\ at = [n \in Tasks |-> NoClient] /\ dead = [n \in Tasks |-> {}]
    /\ ticks = 0
    /\ clients = {} /\ open = {} /\ stalled = {}
    /\ handler = [c \in Clients |-> "absent"]
    /\ backlog = [c \in Clients |-> <<>>]
    /\ stream = [c \in Clients |-> <<>>]
    /\ joined = [c \in Clients |-> 0]

---------------------------------------------------------------------------
(* The capture thread: _publish_frame. *)

\* store.record_frame: the frame is in the ring.
RecordFrame ==
    /\ ~publishing /\ recorded < MaxFrames
    /\ recorded' = recorded + 1
    /\ publishing' = TRUE
    /\ UNCHANGED <<tasks, clients, peers, handlers, stream>>

\* run_coroutine_threadsafe: the loop will run _broadcast.
ScheduleBroadcast ==
    /\ publishing
    /\ publishing' = FALSE
    /\ task' = [task EXCEPT ![recorded] = "ready"]
    /\ UNCHANGED <<recorded, todo, at, dead, ticks, clients, peers, handlers,
                   stream>>

---------------------------------------------------------------------------
(* The loop: _broadcast and the metrics ticker. *)

\* The ticker wakes up and calls _broadcast itself.
Tick ==
    /\ ticks < MaxTicks
    /\ task[Ticker] \in {"none", "done"}
    /\ ticks' = ticks + 1
    /\ task' = [task EXCEPT ![Ticker] = "ready"]
    /\ UNCHANGED <<capture, todo, at, dead, clients, peers, handlers, stream>>

\* A mutant of Snapshot: clients still in their backfill are left out.
Snapshot_Serving == {c \in clients : handler[c] = "serving"}
Snapshot == clients

\* No client: return.  Otherwise the clients are snapshotted.
BroadcastStart(n) ==
    /\ task[n] = "ready"
    /\ task' = [task EXCEPT ![n] = IF clients = {} THEN "done" ELSE "run"]
    /\ todo' = [todo EXCEPT ![n] = Snapshot]
    /\ dead' = [dead EXCEPT ![n] = {}]
    /\ UNCHANGED <<capture, at, ticks, clients, peers, handlers, stream>>

\* A mutant of Remaining: a send that raises ends the loop over the clients.
Remaining_StopAtDead(n, c) == IF c \in open THEN todo[n] \ {c} ELSE {}
Remaining(n, c) == todo[n] \ {c}

\* A metrics message is not part of the frame stream.
Sent(c, n) == IF n = Ticker THEN stream
              ELSE [stream EXCEPT ![c] = Append(@, n)]

\* await ws.send(msg) on the next client of the snapshot.
BroadcastSend(n, c) ==
    /\ task[n] = "run" /\ at[n] = NoClient
    /\ c \in todo[n]
    /\ todo' = [todo EXCEPT ![n] = Remaining(n, c)]
    /\ IF c \in open
       THEN /\ stream' = Sent(c, n)
            /\ at' = IF c \in stalled THEN [at EXCEPT ![n] = c] ELSE at
            /\ UNCHANGED dead
       ELSE /\ dead' = [dead EXCEPT ![n] = @ \cup {c}]
            /\ UNCHANGED <<stream, at>>
    /\ UNCHANGED <<capture, task, ticks, clients, peers, handlers>>

\* The transport drained, or the connection closed and send raises.
BroadcastResume(n) ==
    /\ at[n] # NoClient
    /\ at[n] \notin stalled \/ at[n] \notin open
    /\ dead' = IF at[n] \in open THEN dead
               ELSE [dead EXCEPT ![n] = @ \cup {at[n]}]
    /\ at' = [at EXCEPT ![n] = NoClient]
    /\ UNCHANGED <<capture, task, todo, ticks, clients, peers, handlers, stream>>

BroadcastEnd(n) ==
    /\ task[n] = "run" /\ at[n] = NoClient /\ todo[n] = {}
    /\ clients' = clients \ dead[n]
    /\ dead' = [dead EXCEPT ![n] = {}]
    /\ task' = [task EXCEPT ![n] = "done"]
    /\ UNCHANGED <<capture, todo, at, ticks, peers, handlers, stream>>

---------------------------------------------------------------------------
(* The loop: _handler. *)

SkippedFrames(n) == IF recorded > n THEN recorded - n ELSE 0

\* store.recent(n): the last n frames of the ring.
Recent(n) ==
    LET first == SkippedFrames(n)
    IN [i \in 1..(recorded - first) |-> first + i]

HandlerReject(c) ==
    /\ handler[c] = "new" /\ c \notin Authorized
    /\ handler' = [handler EXCEPT ![c] = "gone"]
    /\ open' = open \ {c} /\ stalled' = stalled \ {c}
    /\ UNCHANGED <<capture, tasks, clients, backlog, joined, stream>>

\* The metrics and the perf snapshot follow the backfill; they are sent one right
\* after the other and count as one message here.
Snapshots == <<Ticker>>

\* The client is added and the ring is read, with no await in between.
HandlerAdd(c) ==
    /\ handler[c] = "new" /\ c \in Authorized
    /\ clients' = clients \cup {c}
    /\ backlog' = [backlog EXCEPT ![c] = Recent(Backfill) \o Snapshots]
    /\ joined' = [joined EXCEPT ![c] = recorded]
    /\ handler' = [handler EXCEPT ![c] = "backfill"]
    /\ UNCHANGED <<capture, tasks, peers, stream>>

\* await ws.send for one message of the backlog; ConnectionClosed ends it.
HandlerBackfill(c) ==
    /\ handler[c] = "backfill" /\ backlog[c] # <<>>
    /\ IF c \in open
       THEN /\ stream' = Sent(c, Head(backlog[c]))
            /\ backlog' = [backlog EXCEPT ![c] = Tail(@)]
            /\ handler' = [handler EXCEPT ![c] =
                               IF c \in stalled THEN "drain" ELSE "backfill"]
       ELSE /\ handler' = [handler EXCEPT ![c] = "finally"]
            /\ UNCHANGED <<stream, backlog>>
    /\ UNCHANGED <<capture, tasks, clients, peers, joined>>

HandlerResume(c) ==
    /\ handler[c] = "drain"
    /\ c \notin stalled \/ c \notin open
    /\ handler' = [handler EXCEPT ![c] =
                       IF c \in open THEN "backfill" ELSE "finally"]
    /\ UNCHANGED <<capture, tasks, clients, peers, backlog, joined, stream>>

\* metrics_snapshot raises, as a window changed under its unlocked iteration: the
\* handler ends and websockets closes the connection.
HandlerRaises(c) ==
    /\ handler[c] = "backfill" /\ backlog[c] = Snapshots
    /\ handler' = [handler EXCEPT ![c] = "finally"]
    /\ open' = open \ {c} /\ stalled' = stalled \ {c}
    /\ UNCHANGED <<capture, tasks, clients, backlog, joined, stream>>

\* The loop over the client's messages is entered.
HandlerServe(c) ==
    /\ handler[c] = "backfill" /\ backlog[c] = <<>>
    /\ handler' = [handler EXCEPT ![c] =
                       IF c \in open THEN "serving" ELSE "finally"]
    /\ UNCHANGED <<capture, tasks, clients, peers, backlog, joined, stream>>

\* The message iterator ends when the connection does.
HandlerClosed(c) ==
    /\ handler[c] = "serving" /\ c \notin open
    /\ handler' = [handler EXCEPT ![c] = "finally"]
    /\ UNCHANGED <<capture, tasks, clients, peers, backlog, joined, stream>>

\* A mutant of HandlerFinally: the handler relies on a broadcast to drop the client.
HandlerFinally_NoDiscard(c) ==
    /\ handler[c] = "finally"
    /\ handler' = [handler EXCEPT ![c] = "gone"]
    /\ UNCHANGED <<capture, tasks, clients, peers, backlog, joined, stream>>

HandlerFinally(c) ==
    /\ handler[c] = "finally"
    /\ clients' = clients \ {c}
    /\ handler' = [handler EXCEPT ![c] = "gone"]
    /\ UNCHANGED <<capture, tasks, peers, backlog, joined, stream>>

---------------------------------------------------------------------------
(* The peers, as websockets shows them to the server. *)

Connect(c) ==
    /\ handler[c] = "absent"
    /\ handler' = [handler EXCEPT ![c] = "new"]
    /\ open' = open \cup {c}
    /\ UNCHANGED <<capture, tasks, clients, stalled, backlog, joined, stream>>

Disconnect(c) ==
    /\ c \in open
    /\ open' = open \ {c} /\ stalled' = stalled \ {c}
    /\ UNCHANGED <<capture, tasks, clients, handlers, stream>>

\* A transport fills up only if messages are written to it.
Stall(c) ==
    /\ c \in (open \cap clients) \ stalled
    /\ stalled' = stalled \cup {c}
    /\ UNCHANGED <<capture, tasks, clients, open, handlers, stream>>

Unstall(c) ==
    /\ c \in stalled
    /\ stalled' = stalled \ {c}
    /\ UNCHANGED <<capture, tasks, clients, open, handlers, stream>>

BroadcastNext(n) ==
    \/ BroadcastStart(n) \/ BroadcastResume(n) \/ BroadcastEnd(n)
    \/ \E c \in Clients : BroadcastSend(n, c)

HandlerNext(c) ==
    \/ HandlerReject(c) \/ HandlerAdd(c) \/ HandlerBackfill(c) \/ HandlerResume(c)
    \/ HandlerRaises(c) \/ HandlerServe(c) \/ HandlerClosed(c)
    \/ HandlerFinally(c)

PeerNext(c) == Connect(c) \/ Disconnect(c) \/ Stall(c) \/ Unstall(c)

Next == \/ RecordFrame \/ ScheduleBroadcast \/ Tick
        \/ \E n \in Tasks : BroadcastNext(n)
        \/ \E c \in Clients : HandlerNext(c) \/ PeerNext(c)

Spec == Init /\ [][Next]_vars

\* Every task that can run is run and a frame that was recorded is handed over; a
\* stalled peer is eventually read from again or closed (websockets' keepalive), and a
\* task whose drain waiter was released runs even if the transport fills up again.
FairSpec ==
    /\ Spec
    /\ WF_vars(ScheduleBroadcast)
    /\ \A n \in Tasks : WF_vars(BroadcastNext(n)) /\ SF_vars(BroadcastResume(n))
    /\ \A c \in Clients :
          /\ WF_vars(HandlerNext(c)) /\ SF_vars(HandlerResume(c))
          /\ WF_vars(c \in stalled /\ (Unstall(c) \/ Disconnect(c)))

---------------------------------------------------------------------------
TypeOK ==
    /\ recorded \in 0..MaxFrames /\ publishing \in BOOLEAN
    /\ task \in [Tasks -> {"none", "ready", "run", "done"}]
    /\ todo \in [Tasks -> SUBSET Clients] /\ dead \in [Tasks -> SUBSET Clients]
    /\ at \in [Tasks -> Clients \cup {NoClient}]
    /\ ticks \in 0..MaxTicks
    /\ clients \subseteq Clients /\ open \subseteq Clients
    /\ stalled \subseteq open
    /\ handler \in [Clients -> {"absent", "new", "backfill", "drain", "serving",
                                "finally", "gone"}]
    /\ backlog \in [Clients -> Seq(Tasks)]
    /\ stream \in [Clients -> Seq(1..MaxFrames)]
    /\ joined \in [Clients -> 0..MaxFrames]

SentTo(c) == {stream[c][i] : i \in DOMAIN stream[c]}
Copies(c, n) == Cardinality({i \in DOMAIN stream[c] : stream[c][i] = n})

\* The frames a client is owed: the backfill and everything recorded since.
Owed(c) == {n \in 1..recorded : n > joined[c] - Backfill}

BroadcastsDone == ~publishing /\ \A n \in Tasks : task[n] \in {"none", "done"}

\* A client whose backfill is over has been sent, once no broadcast is under way, every
\* frame of its backfill and every frame since: a frame recorded while the client was
\* being added is in the ring read or in the snapshot of its broadcast, never in neither.
\* A frame recorded after the client was added is sent to it at most once, and no frame
\* more than twice: only the backfill can repeat what a broadcast sends.
FramesSentExactly ==
    /\ BroadcastsDone =>
          \A c \in open : handler[c] = "serving" => Owed(c) \subseteq SentTo(c)
    /\ \A c \in Clients, n \in 1..MaxFrames :
          Copies(c, n) <= IF n > joined[c] THEN 1 ELSE 2

\* A connection that closed leaves the client set for good, whether its handler or a
\* broadcast notices first.
ClosedAreForgotten ==
    \A c \in Clients : (handler[c] # "absent" /\ c \notin open) ~> [](c \notin clients)

\* A recorded frame reaches every client that was being served when it was recorded and
\* stays connected, even when other clients stop reading.
FramesArrive ==
    \A c \in Clients, n \in 1..MaxFrames :
       (recorded = n /\ handler[c] = "serving")
          ~> (n \in SentTo(c) \/ c \notin open)
=============================================================================
