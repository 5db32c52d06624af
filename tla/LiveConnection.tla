--------------------------- MODULE LiveConnection ---------------------------
(***************************************************************************)
(* The browser's bridge to the push server (frontend/live.jsx): a socket   *)
(* that is reopened when it closes, and queries that are answered by id or *)
(* time out; and the server's side of a query, which is                    *)
(* PushServer._handle_client_message (server.py).                          *)
(*                                                                         *)
(* JavaScript runs one callback at a time: an action is one callback, or   *)
(* one call of query or disconnect by the page.  The WebSocket objects and *)
(* the network between them and the server are external: a socket delivers *)
(* messages in order while it is open and closes at any time, which loses  *)
(* what is in transit.  A failed connection fires error and then close in  *)
(* one task, so the "err" state never outlives a callback.                 *)
(***************************************************************************)
EXTENDS Integers, Sequences, FiniteSets

CONSTANTS MaxSockets,   \* bound on the WebSocket objects created
          MaxQueries,   \* bound on the queries sent
          Disconnects   \* may the page call disconnect()?

ASSUME LiveAssumption == /\ MaxSockets \in Nat \ {0} /\ MaxQueries \in Nat
                         /\ Disconnects \in BOOLEAN

Sockets == 1..MaxSockets
Ids == 1..MaxQueries
NoSocket == 0

VARIABLES
    sock,       \* socket -> none, connecting, open, closing, closed
    ws,         \* this.ws
    state,      \* this.state
    retry,      \* this._retry is a running timer
    reqSeq,     \* this._reqSeq
    pending,    \* keys of this._pending
    timers,     \* queries whose timeout is armed
    calls,      \* query -> history: how often resolve or reject was called
    result,     \* query -> unsent, waiting, data, error, timeout
    up, down,   \* socket -> queries and replies in transit
    refused,    \* environment: does new WebSocket throw for this url?
    disconnected  \* history: disconnect() was called

connection == <<sock, ws, state, retry>>
queries == <<reqSeq, pending, timers, calls, result>>
page == <<refused, disconnected>>
vars == <<connection, queries, up, down, page>>

---------------------------------------------------------------------------
(* _connect and _scheduleRetry *)

\* The next WebSocket object.
Created == {s \in Sockets : sock[s] # "none"}
NewSocket == Cardinality(Created) + 1

\* The constructor makes the first attempt.
Init ==
    /\ refused \in BOOLEAN
    /\ sock = [s \in Sockets |->
                  IF ~refused /\ s = 1 THEN "connecting" ELSE "none"]
    /\ ws = IF refused THEN NoSocket ELSE 1
    /\ retry = refused
    /\ state = "connecting"
    /\ reqSeq = 1 /\ pending = {} /\ timers = {}
    /\ calls = [q \in Ids |-> 0] /\ result = [q \in Ids |-> "unsent"]
    /\ up = [s \in Sockets |-> <<>>] /\ down = [s \in Sockets |-> <<>>]
    /\ disconnected = FALSE

SetState(s) == state' = s

\* A mutant of ScheduleRetry: the flag of the timer is taken, no timer is set.
ScheduleRetry_Never == retry' = retry

\* At most one timer runs.
ScheduleRetry == retry' = TRUE

RetryFired == retry /\ retry' = FALSE

\* The timer fires and a new socket is created.
RetryConnect ==
    /\ RetryFired /\ ~refused /\ NewSocket \in Sockets
    /\ ws' = NewSocket
    /\ sock' = [sock EXCEPT ![NewSocket] = "connecting"]
    /\ SetState("connecting")
    /\ UNCHANGED <<queries, up, down, page>>

\* The timer fires and new WebSocket throws again: the next timer is set.
RetryRefused ==
    /\ retry /\ refused
    /\ ScheduleRetry
    /\ UNCHANGED <<sock, ws, state, queries, up, down, page>>

OnOpen(s) ==
    /\ sock[s] = "connecting"
    /\ sock' = [sock EXCEPT ![s] = "open"]
    /\ SetState("ok")
    /\ UNCHANGED <<ws, retry, queries, up, down, page>>

\* A mutant of Closing: the retry does not wait for onclose.
Closing_Retries(s) ==
    /\ sock[s] = "open"
    /\ sock' = [sock EXCEPT ![s] = "closing"] /\ ScheduleRetry
    /\ UNCHANGED <<ws, state, queries, up, down, page>>

\* The peer or the network ends the connection: no message is delivered any more.
Closing(s) ==
    /\ sock[s] = "open"
    /\ sock' = [sock EXCEPT ![s] = "closing"]
    /\ UNCHANGED <<ws, state, retry, queries, up, down, page>>

\* onclose, after onerror if the connection failed: one retry is scheduled.
OnClose(s) ==
    /\ sock[s] \in {"connecting", "closing"}
    /\ sock' = [sock EXCEPT ![s] = "closed"]
    /\ SetState("closed")
    /\ ScheduleRetry
    /\ up' = [up EXCEPT ![s] = <<>>] /\ down' = [down EXCEPT ![s] = <<>>]
    /\ UNCHANGED <<ws, queries, page>>

---------------------------------------------------------------------------
(* query, its timeout and its reply *)

ReadyState == IF ws = NoSocket THEN "none" ELSE sock[ws]

\* A mutant of Armed: no timeout is set.
Armed_Never(q) == timers
Armed(q) == timers \cup {q}

\* query on an open socket; the send may throw, which rejects it.  On any other socket
\* the promise is rejected and nothing changes, not even _reqSeq.
Query ==
    /\ ReadyState = "open" /\ reqSeq \in Ids
    /\ reqSeq' = reqSeq + 1
    /\ \/ /\ pending' = pending \cup {reqSeq}
          /\ timers' = Armed(reqSeq)
          /\ result' = [result EXCEPT ![reqSeq] = "waiting"]
          /\ up' = [up EXCEPT ![ws] = Append(@, reqSeq)]
          /\ UNCHANGED calls
       \/ /\ result' = [result EXCEPT ![reqSeq] = "error"]
          /\ calls' = [calls EXCEPT ![reqSeq] = @ + 1]
          /\ UNCHANGED <<pending, timers, up>>
    /\ UNCHANGED <<connection, down, page>>

Settle(q, r) ==
    /\ pending' = pending \ {q}
    /\ timers' = timers \ {q}
    /\ result' = [result EXCEPT ![q] = r]
    /\ calls' = [calls EXCEPT ![q] = @ + 1]

Timeout(q) ==
    /\ q \in timers
    /\ Settle(q, "timeout")
    /\ UNCHANGED <<connection, reqSeq, up, down, page>>

\* The server answers one query with data, or with the error of a query it does not
\* know or that raised; a reply to a closed connection is dropped.
ServerAnswer(s) ==
    /\ up[s] # <<>>
    /\ up' = [up EXCEPT ![s] = Tail(@)]
    /\ \E r \in {"data", "error"} :
          down' = [down EXCEPT ![s] = Append(@, <<Head(up[s]), r>>)]
    /\ UNCHANGED <<connection, queries, page>>

\* onmessage with a query_reply: ignored unless its id is pending.
OnReply(s) ==
    /\ sock[s] = "open" /\ down[s] # <<>>
    /\ LET reply == Head(down[s])
       IN IF reply[1] \in pending
          THEN Settle(reply[1], reply[2])
          ELSE UNCHANGED <<pending, timers, result, calls>>
    /\ down' = [down EXCEPT ![s] = Tail(@)]
    /\ UNCHANGED <<connection, reqSeq, up, page>>

---------------------------------------------------------------------------
\* disconnect: the socket starts to close, the retry and the timeouts are cancelled.
Disconnect ==
    /\ Disconnects /\ ~disconnected
    /\ disconnected' = TRUE
    /\ sock' = IF ReadyState \in {"connecting", "open"}
               THEN [sock EXCEPT ![ws] = "closing"] ELSE sock
    /\ retry' = FALSE
    /\ pending' = {} /\ timers' = {}
    /\ UNCHANGED <<ws, state, reqSeq, calls, result, up, down, refused>>

---------------------------------------------------------------------------
\* Reconnecting never leaves two sockets alive, so only its backfill brings a frame again.
OneConnection ==
    Cardinality({s \in Sockets : sock[s] \in {"connecting", "open", "closing"}}) <= 1

\* A lost connection is tried again (up to the bound on sockets).
Reconnects ==
    (state = "closed" /\ NewSocket \in Sockets)
       ~> (state # "closed" \/ disconnected)
============================================================================
