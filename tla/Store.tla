------------------------------- MODULE Store -------------------------------
(***************************************************************************)
(* Persistence (store.py): the in-memory ring of recent frames, the queue  *)
(* to the store-writer thread and the SQLite file, from PushServer.serve   *)
(* starting the store to the process exiting after store.stop().           *)
(*                                                                         *)
(* Threads: the capture thread (record_frame), the asyncio thread          *)
(* (record_metrics from the ticker, then stop) and the writer.  Frames and *)
(* metrics snapshots are numbered in the order they are produced.  SQLite  *)
(* is external: opening the file or one INSERT may raise sqlite3.Error.    *)
(***************************************************************************)
EXTENDS Integers, Sequences, SequencesExt

CONSTANTS RingSize,     \* ring_size: 50000 in the code
          MaxFrames,    \* bound on frames captured
          MaxMetrics    \* bound on metrics snapshots

ASSUME StoreAssumption == /\ RingSize \in Nat \ {0}
                          /\ MaxFrames \in Nat /\ MaxMetrics \in Nat

Items == {"frame", "metrics"} \X Nat
Poison == <<"none", 0>>       \* the None that stop() enqueues
NoItem == <<"no item", 0>>

VARIABLES
    ring,       \* self.ring, a deque(maxlen=RingSize)
    q,          \* self._q
    stop,       \* self._stop
    capture,    \* the capture thread: idle, put (inside record_frame), stopped
    ticks,      \* metrics snapshots recorded so far
    frames,     \* frames recorded so far
    server,     \* the asyncio thread: see the actions
    writer,     \* the store-writer thread: where it is in _writer_loop
    item,       \* what the writer has taken off the queue
    rows,       \* the rows committed to SQLite, in order
    failed,     \* items whose INSERT raised
    submitted   \* history: every item put on the queue, in order

vars == <<ring, q, stop, capture, ticks, frames, server, writer, item, rows,
          failed, submitted>>

Init ==
    /\ ring = <<>> /\ q = <<>> /\ stop = FALSE
    /\ capture = "idle" /\ ticks = 0 /\ frames = 0
    /\ server = "starting" /\ writer = "new" /\ item = NoItem
    /\ rows = <<>> /\ failed = {} /\ submitted = <<>>

\* A mutant of Put: the queue is last in, first out.
Put_Lifo(i) == q' = <<i>> \o q /\ submitted' = Append(submitted, i)
Put(i) == q' = Append(q, i) /\ submitted' = Append(submitted, i)

---------------------------------------------------------------------------
(* The capture thread: record_frame. *)

\* A mutant of Bounded: the ring holds one frame too few.
Bounded_TooFew(r) == IF Len(r) >= RingSize THEN Tail(r) ELSE r

\* deque(maxlen): the oldest frame falls off a ring that is too long.
Bounded(r) == IF Len(r) > RingSize THEN Tail(r) ELSE r

RingAppend ==
    /\ capture = "idle" /\ frames < MaxFrames
    /\ frames' = frames + 1
    /\ ring' = Bounded(Append(ring, frames + 1))
    /\ capture' = "put"
    /\ UNCHANGED <<q, stop, ticks, server, writer, item, rows, failed, submitted>>

FramePut ==
    /\ capture = "put"
    /\ Put(<<"frame", frames>>)
    /\ capture' = "idle"
    /\ UNCHANGED <<ring, stop, ticks, frames, server, writer, item, rows, failed>>

---------------------------------------------------------------------------
(* The asyncio thread: serve and the metrics ticker. *)

\* engine.start() has run already: frames may be captured before this.
StoreStart ==
    /\ server = "starting"
    /\ server' = "running"
    /\ writer' = "open"
    /\ UNCHANGED <<ring, q, stop, capture, ticks, frames, item, rows, failed,
                   submitted>>

RecordMetrics ==
    /\ server = "running" /\ ticks < MaxMetrics
    /\ ticks' = ticks + 1
    /\ Put(<<"metrics", ticks + 1>>)
    /\ UNCHANGED <<ring, stop, capture, frames, server, writer, item, rows, failed>>

\* serve leaves its wait: the tickers are cancelled and engine.stop() joins the
\* capture thread, which first finishes the packet it is in.
EngineStop ==
    /\ server = "running" /\ capture = "idle"
    /\ capture' = "stopped"
    /\ server' = "set"
    /\ UNCHANGED <<ring, q, stop, ticks, frames, writer, item, rows, failed,
                   submitted>>

StopSet ==
    /\ server = "set"
    /\ stop' = TRUE
    /\ server' = "poison"
    /\ UNCHANGED <<ring, q, capture, ticks, frames, writer, item, rows, failed,
                   submitted>>

StopPut ==
    /\ server = "poison"
    /\ q' = Append(q, Poison)
    /\ server' = "join"
    /\ UNCHANGED <<ring, stop, capture, ticks, frames, writer, item, rows, failed,
                   submitted>>

\* join(timeout=2.0) returns when the writer is done, or after two seconds; then
\* the process exits and the daemon writer with it.
Exit ==
    /\ server = "join"
    /\ server' = "exited"
    /\ UNCHANGED <<ring, q, stop, capture, ticks, frames, writer, item, rows,
                   failed, submitted>>

---------------------------------------------------------------------------
(* The store-writer thread: _writer_loop. *)

Writes == server # "exited"

WriterOpen ==
    /\ Writes /\ writer = "open"
    /\ writer' \in {"loop", "dead"}
    /\ UNCHANGED <<ring, q, stop, capture, ticks, frames, server, item, rows,
                   failed, submitted>>

\* while not self._stop.is_set()
WriterTest ==
    /\ Writes /\ writer = "loop"
    /\ writer' = IF stop THEN "closed" ELSE "get"
    /\ UNCHANGED <<ring, q, stop, capture, ticks, frames, server, item, rows,
                   failed, submitted>>

\* A mutant of AfterEmpty: queue.Empty ends the loop.
AfterEmpty_Break == "closed"
AfterEmpty == "loop"

\* get(timeout=0.5) on an empty queue: queue.Empty, back to the test.
WriterEmpty ==
    /\ Writes /\ writer = "get" /\ q = <<>>
    /\ writer' = AfterEmpty
    /\ UNCHANGED <<ring, q, stop, capture, ticks, frames, server, item, rows,
                   failed, submitted>>

\* get returns: the None of stop() ends the loop, anything else is to be written.
WriterGet ==
    /\ Writes /\ writer = "get" /\ q # <<>>
    /\ q' = Tail(q)
    /\ IF Head(q) = Poison THEN writer' = "closed" /\ UNCHANGED item
                           ELSE writer' = "write" /\ item' = Head(q)
    /\ UNCHANGED <<ring, stop, capture, ticks, frames, server, rows, failed,
                   submitted>>

\* The INSERT commits (autocommit), or raises sqlite3.Error, which is swallowed.
WriterWrite ==
    /\ Writes /\ writer = "write"
    /\ \/ rows' = Append(rows, item) /\ UNCHANGED failed
       \/ failed' = failed \cup {item} /\ UNCHANGED rows
    /\ item' = NoItem
    /\ writer' = "loop"
    /\ UNCHANGED <<ring, q, stop, capture, ticks, frames, server, submitted>>

CaptureNext == RingAppend \/ FramePut
ServerStop == EngineStop \/ StopSet \/ StopPut \/ Exit
WriterNext == WriterOpen \/ WriterTest \/ WriterEmpty \/ WriterGet \/ WriterWrite

Next == CaptureNext \/ StoreStart \/ RecordMetrics \/ ServerStop \/ WriterNext

Spec == Init /\ [][Next]_vars

\* The writer thread is scheduled and serve starts it; no fairness on packets, ticks
\* or the request to stop.
FairSpec == Spec /\ WF_vars(WriterNext) /\ WF_vars(StoreStart)

---------------------------------------------------------------------------
TypeOK ==
    /\ ring \in Seq(1..MaxFrames) /\ Len(ring) <= RingSize
    /\ q \in Seq(Items \cup {Poison})
    /\ stop \in BOOLEAN
    /\ capture \in {"idle", "put", "stopped"}
    /\ ticks \in 0..MaxMetrics /\ frames \in 0..MaxFrames
    /\ server \in {"starting", "running", "set", "poison", "join", "exited"}
    /\ writer \in {"new", "open", "dead", "loop", "get", "write", "closed"}
    /\ item \in Items \cup {NoItem}
    /\ rows \in Seq(Items) /\ failed \subseteq Items /\ submitted \in Seq(Items)

InHand == IF writer = "write" THEN <<item>> ELSE <<>>

\* The entries of s that are in S, in order.
Kept(s, S) ==
    LET kept[i \in 0..Len(s)] ==
          IF i = 0 THEN <<>>
          ELSE IF s[i] \in S THEN Append(kept[i - 1], s[i]) ELSE kept[i - 1]
    IN  kept[Len(s)]

\* Every item that was recorded is a row, failed, in the writer's hand or queued, once
\* and in the order it was recorded: the writer loses, repeats and reorders nothing.
NothingLostOnTheWay ==
    rows \o Kept(InHand \o q, Items) = Kept(submitted, Items \ failed)

\* A frame that is queued or on disk is in the ring unless RingSize newer frames have
\* been recorded, so a client's backfill is never behind the database.
RingCoversDisk ==
    \A i \in Range(q) \cup Range(rows) :
       i[1] = "frame" => i[2] \in Range(ring) \/ frames - i[2] >= RingSize

\* While the server runs, what is put on the queue does not stay there.
QueueDrains ==
    \A n \in 1..MaxFrames :
       (\E k \in DOMAIN q : q[k] = <<"frame", n>>)
         ~> \/ \A k \in DOMAIN q : q[k] # <<"frame", n>>
            \/ server # "running" \/ writer = "dead"
============================================================================
