-------------------------- MODULE PushServer_proof --------------------------
(***************************************************************************)
(* What a client of the push server is sent, for any number of clients,    *)
(* frames and backfilled frames: every frame it is owed, and none more     *)
(* often than the backfill explains.                                       *)
(***************************************************************************)
EXTENDS PushServer, FiniteSetTheorems, SequenceTheorems, TLAPS

Frames == 1..MaxFrames
Occurrences(s, n) == Cardinality({i \in DOMAIN s : s[i] = n})
Has(s, n) == \E i \in DOMAIN s : s[i] = n
One(b) == IF b THEN 1 ELSE 0

Strangers == {"absent", "new"}
Served(c) == handler[c] \in {"backfill", "drain", "serving"}

\* The broadcast of frame n is still to reach client c, or to leave it out.
Coming(c, n) ==
    \/ n > recorded
    \/ publishing /\ n = recorded
    \/ task[n] = "ready"
    \/ task[n] = "run" /\ c \in todo[n]

\* Broadcasts start when their frame is handed over, and only once.
TaskInv ==
    /\ publishing => recorded > 0
    /\ \A n \in Frames : n > recorded \/ (publishing /\ n = recorded) => task[n] = "none"

\* A client known to the server or to a broadcast has been let in, and one found dead
\* is closed; a client being served is known as long as it is open.
KnownInv ==
    /\ \A c \in clients : handler[c] \notin Strangers
    /\ \A n \in Tasks :
          /\ \A c \in todo[n] \cup dead[n] : handler[c] \notin Strangers
          /\ at[n] \in Clients => at[n] = NoClient \/ handler[at[n]] \notin Strangers
          /\ dead[n] \cap open = {}
    /\ \A c \in open : Served(c) => c \in clients

\* A backlog repeats nothing and holds no frame recorded after it was made.
BacklogInv ==
    \A c \in Clients :
       /\ joined[c] <= recorded
       /\ handler[c] \in Strangers => backlog[c] = <<>> /\ stream[c] = <<>>
       /\ handler[c] = "serving" => backlog[c] = <<>>
       /\ \A i \in DOMAIN backlog[c] : backlog[c][i] <= joined[c]
       /\ \A i, j \in DOMAIN backlog[c] : backlog[c][i] = backlog[c][j] => i = j

\* What was sent, what is in the backlog and what is coming add up.
CountInv ==
    \A c \in Clients, n \in Frames :
       Occurrences(stream[c], n) + One(Has(backlog[c], n)) + One(Coming(c, n))
          <= IF n > joined[c] THEN 1 ELSE 2

\* What a client is owed was sent, is in the backlog or is coming.
OwedInv ==
    \A c \in open : Served(c) =>
       \A n \in Owed(c) : Has(stream[c], n) \/ Has(backlog[c], n) \/ Coming(c, n)

PushInv == TypeOK /\ TaskInv /\ KnownInv /\ BacklogInv /\ CountInv /\ OwedInv

---------------------------------------------------------------------------
\* Appending to a sequence adds one occurrence of what is appended.
LEMMA AppendOccurs ==
    ASSUME NEW S, NEW s \in Seq(S), NEW e \in S, NEW n
    PROVE  /\ Occurrences(s, n) \in Nat
           /\ Occurrences(Append(s, e), n) = Occurrences(s, n) + One(e = n)
           /\ Has(Append(s, e), n) <=> Has(s, n) \/ e = n
<1> DEFINE at1 == {i \in DOMAIN s : s[i] = n}
           at2 == {i \in DOMAIN Append(s, e) : Append(s, e)[i] = n}
<1>1. DOMAIN s = 1..Len(s) /\ Len(s) \in Nat
  OBVIOUS
<1>2. /\ DOMAIN Append(s, e) = 1..Len(s) + 1 /\ Append(s, e)[Len(s) + 1] = e
      /\ \A i \in 1..Len(s) : Append(s, e)[i] = s[i]
  OBVIOUS
<1>3. IsFiniteSet(at1)
  <2>1. at1 \subseteq 1..Len(s) /\ IsFiniteSet(1..Len(s))
    BY <1>1, FS_Interval
  <2> QED
    BY <2>1, FS_Subset
<1>4. Cardinality(at1) \in Nat
  BY <1>3, FS_CardinalityType
<1>5. CASE e = n
  <2>1. at2 = at1 \cup {Len(s) + 1} /\ Len(s) + 1 \notin at1
    BY <1>1, <1>2, <1>5
  <2>2. Cardinality(at2) = Cardinality(at1) + 1
    BY <1>3, <2>1, FS_AddElement
  <2>3. Has(Append(s, e), n)
    BY <1>1, <1>2, <1>5 DEF Has
  <2> QED
    <3>1. Occurrences(Append(s, e), n) = Occurrences(s, n) + 1
      BY <2>2 DEF Occurrences
    <3>2. Occurrences(s, n) \in Nat
      BY <1>4 DEF Occurrences
    <3> QED
      BY <1>5, <2>3, <3>1, <3>2 DEF One
<1>6. CASE e # n
  <2>1. at2 = at1
    BY <1>1, <1>2, <1>6
  <2>2. Has(Append(s, e), n) <=> Has(s, n)
    BY <1>1, <1>2, <1>6 DEF Has
  <2> QED
    <3>1. Occurrences(Append(s, e), n) = Occurrences(s, n)
      BY <2>1 DEF Occurrences
    <3>2. Occurrences(s, n) \in Nat
      BY <1>4 DEF Occurrences
    <3> QED
      BY <1>6, <2>2, <3>1, <3>2 DEF One
<1> QED
  BY <1>5, <1>6

LEMMA EmptyOccurs == \A n : Occurrences(<<>>, n) = 0 /\ ~Has(<<>>, n)
BY FS_EmptySet DEF Occurrences, Has

\* store.recent returns the last frames, each once.
LEMMA RecentIs ==
    ASSUME recorded \in Nat
    PROVE  LET r == Recent(Backfill) IN
           /\ r \in Seq(0..recorded) /\ Len(r) <= recorded
           /\ \A i \in 1..Len(r) : r[i] = recorded - Len(r) + i
           /\ \A n \in 1..recorded : n > recorded - Backfill => \E i \in 1..Len(r) : r[i] = n
<1> DEFINE first == SkippedFrames(Backfill)
           k == recorded - first
           r == Recent(Backfill)
<1>1. first \in Nat /\ first <= recorded /\ (first <= recorded - Backfill \/ first = 0)
  BY PushAssumption DEF SkippedFrames
<1>2. first \in Nat /\ first <= recorded
  BY PushAssumption DEF SkippedFrames
<1>3. k \in Nat /\ r = [i \in 1..k |-> first + i]
  BY <1>2 DEF Recent
<1>4. r \in Seq(0..recorded) /\ Len(r) = k
  BY <1>2, <1>3
<1>5. \A i \in 1..Len(r) : r[i] = recorded - Len(r) + i
  BY <1>2, <1>3, <1>4
<1>6. ASSUME NEW n \in 1..recorded, n > recorded - Backfill
      PROVE  \E i \in 1..Len(r) : r[i] = n
  <2>1. n - first \in 1..k
    BY <1>1, <1>2, <1>6, PushAssumption DEF SkippedFrames
  <2> QED
    BY <1>2, <1>3, <1>4, <2>1
<1> QED
  BY <1>2, <1>4, <1>5, <1>6

---------------------------------------------------------------------------
LEMMA InitInv == Init => PushInv
<1> SUFFICES ASSUME Init PROVE PushInv
  OBVIOUS
<1> USE PushAssumption DEF Init
<1>1. TypeOK
  <2>1. <<>> \in Seq(Tasks) /\ <<>> \in Seq(1..MaxFrames)
    OBVIOUS
  <2>2. backlog \in [Clients -> Seq(Tasks)] /\ stream \in [Clients -> Seq(1..MaxFrames)]
    BY <2>1
  <2>3. todo \in [Tasks -> SUBSET Clients] /\ dead \in [Tasks -> SUBSET Clients]
    OBVIOUS
  <2>4. /\ task \in [Tasks -> {"none", "ready", "run", "done"}]
        /\ at \in [Tasks -> Clients \cup {NoClient}]
    OBVIOUS
  <2>5. /\ handler \in [Clients -> {"absent", "new", "backfill", "drain", "serving",
                                   "finally", "gone"}]
        /\ joined \in [Clients -> 0..MaxFrames]
    OBVIOUS
  <2>6. recorded \in 0..MaxFrames /\ ticks \in 0..MaxTicks
    OBVIOUS
  <2>7. publishing \in BOOLEAN
    OBVIOUS
  <2>8. clients \subseteq Clients /\ open \subseteq Clients /\ stalled \subseteq open
    OBVIOUS
  <2> HIDE DEF Init
  <2> QED
    BY <2>2, <2>3, <2>4, <2>5, <2>6, <2>7, <2>8 DEF TypeOK
<1>2. TaskInv
  BY DEF TaskInv, Frames, Tasks
<1>3. KnownInv
  BY DEF KnownInv, Strangers
<1>4. BacklogInv
  BY DEF BacklogInv
<1>5. CountInv
  <2> SUFFICES ASSUME NEW c \in Clients, NEW n \in Frames
               PROVE  Occurrences(stream[c], n) + One(Has(backlog[c], n)) + One(Coming(c, n))
                         <= IF n > joined[c] THEN 1 ELSE 2
    BY DEF CountInv
  <2>1. Occurrences(stream[c], n) = 0 /\ ~Has(backlog[c], n)
    BY EmptyOccurs
  <2>2. n > joined[c]
    BY DEF Frames
  <2> QED
    BY <2>1, <2>2 DEF One
<1>6. OwedInv
  BY DEF OwedInv
<1> QED
  BY <1>1, <1>2, <1>3, <1>4, <1>5, <1>6 DEF PushInv

\* What HandlerAdd puts in the backlog.
LEMMA BacklogIs ==
    ASSUME TypeOK, NEW c \in Clients, HandlerAdd(c)
    PROVE  /\ DOMAIN backlog'[c] \subseteq Nat /\ backlog'[c] \in Seq(Tasks)
           /\ \A i \in DOMAIN backlog'[c] : backlog'[c][i] <= recorded
           /\ \A i, j \in DOMAIN backlog'[c] : backlog'[c][i] = backlog'[c][j] => i = j
           /\ \A n \in 1..recorded : n > recorded - Backfill => Has(backlog'[c], n)
<1> DEFINE r == Recent(Backfill)
           b == backlog'[c]
<1>1. recorded \in Nat /\ recorded <= MaxFrames /\ MaxFrames \in Nat
  BY PushAssumption DEF TypeOK
<1>2. /\ r \in Seq(0..recorded) /\ Len(r) <= recorded
      /\ \A i \in 1..Len(r) : r[i] = recorded - Len(r) + i
      /\ \A n \in 1..recorded : n > recorded - Backfill => \E i \in 1..Len(r) : r[i] = n
  BY <1>1, RecentIs
<1>3. b = Append(r, 0)
  <2>1. b = r \o <<0>>
    BY DEF HandlerAdd, TypeOK, Snapshots, Ticker
  <2> QED
    BY <1>2, <2>1
<1> HIDE DEF r
<1>4. /\ DOMAIN b = 1..Len(r) + 1 /\ Len(r) \in Nat
      /\ b[Len(r) + 1] = 0 /\ \A i \in 1..Len(r) : b[i] = r[i]
  BY <1>2, <1>3
<1>5. \A i \in 1..Len(r) + 1 : b[i] \in Nat /\ b[i] <= recorded
  <2>1. \A i \in 1..Len(r) : r[i] \in 0..recorded
    BY <1>2, ElementOfSeq
  <2> QED
    BY <1>1, <1>4, <2>1
<1>6. b \in Seq(Tasks)
  <2>1. 0..recorded \subseteq Tasks /\ 0 \in Tasks
    BY <1>1 DEF Tasks
  <2>2. r \in Seq(Tasks)
    BY <1>2, <2>1, SeqMonotonic
  <2> QED
    BY <1>3, <2>1, <2>2
<1>7. \A i, j \in 1..Len(r) + 1 : b[i] = b[j] => i = j
  <2>1. \A i \in 1..Len(r) : b[i] = recorded - Len(r) + i /\ b[i] > 0
    BY <1>1, <1>2, <1>4
  <2> QED
    BY <1>1, <1>4, <2>1
<1>8. \A n \in 1..recorded : n > recorded - Backfill => Has(b, n)
  BY <1>2, <1>4 DEF Has
<1>9. DOMAIN b \subseteq Nat
  BY <1>4
<1>10. \A i \in DOMAIN b : b[i] <= recorded
  BY <1>4, <1>5
<1>11. \A i, j \in DOMAIN b : b[i] = b[j] => i = j
  BY <1>4, <1>7
<1> QED
  BY <1>6, <1>8, <1>9, <1>10, <1>11

\* A send keeps the streams sequences of frames.
LEMMA SentType ==
    ASSUME TypeOK, NEW c \in Clients, NEW n \in Tasks
    PROVE  Sent(c, n) \in [Clients -> Seq(1..MaxFrames)]
<1>1. CASE n = Ticker
  BY <1>1 DEF Sent, TypeOK
<1>2. CASE n # Ticker
  <2>1. n \in 1..MaxFrames
    BY <1>2, PushAssumption DEF Tasks, Ticker
  <2>2. stream[c] \in Seq(1..MaxFrames)
    BY DEF TypeOK
  <2>3. Append(stream[c], n) \in Seq(1..MaxFrames)
    BY <2>1, <2>2
  <2> QED
    BY <1>2, <2>3 DEF Sent, TypeOK
<1> QED
  BY <1>1, <1>2

LEMMA TypeStep ==
    ASSUME TypeOK, TaskInv, [Next]_vars
    PROVE  TypeOK'
<1> USE PushAssumption DEF TypeOK, Tasks, Ticker
<1>1. CASE UNCHANGED vars
  BY <1>1 DEF vars, capture, tasks, peers, handlers
<1>2. CASE RecordFrame
  BY <1>2 DEF RecordFrame, tasks, peers, handlers
<1>3. CASE ScheduleBroadcast
  BY <1>3 DEF ScheduleBroadcast, peers, handlers
<1>4. CASE Tick
  BY <1>4 DEF Tick, capture, peers, handlers
<1>5. ASSUME NEW n \in Tasks, BroadcastNext(n) PROVE TypeOK'
  <2>1. CASE BroadcastStart(n)
    BY <2>1 DEF BroadcastStart, Snapshot, capture, peers, handlers
  <2>2. CASE BroadcastResume(n)
    BY <2>2 DEF BroadcastResume, capture, peers, handlers
  <2>3. CASE BroadcastEnd(n)
    BY <2>3 DEF BroadcastEnd, capture, peers, handlers
  <2>4. ASSUME NEW c \in Clients, BroadcastSend(n, c) PROVE TypeOK'
    <3>1. stream' \in [Clients -> Seq(1..MaxFrames)]
      BY <2>4, SentType DEF BroadcastSend
    <3>2. todo' \in [Tasks -> SUBSET Clients]
      BY <2>4 DEF BroadcastSend, Remaining
    <3>3. dead' \in [Tasks -> SUBSET Clients]
      BY <2>4 DEF BroadcastSend
    <3>4. at' \in [Tasks -> Clients \cup {NoClient}]
      BY <2>4 DEF BroadcastSend
    <3> QED
      BY <2>4, <3>1, <3>2, <3>3, <3>4 DEF BroadcastSend, capture, peers, handlers
  <2> QED
    BY <1>5, <2>1, <2>2, <2>3, <2>4 DEF BroadcastNext
<1>6. ASSUME NEW c \in Clients, HandlerNext(c) PROVE TypeOK'
  <2>1. CASE HandlerAdd(c)
    <3>1. backlog'[c] \in Seq(Tasks)
      BY <2>1, BacklogIs
    <3>2. backlog' \in [Clients -> Seq(Tasks)]
      BY <2>1, <3>1 DEF HandlerAdd
    <3> QED
      BY <2>1, <3>2 DEF HandlerAdd, capture, tasks, peers
  <2>2. CASE HandlerBackfill(c)
    <3>1. c \in open => Head(backlog[c]) \in Tasks /\ Tail(backlog[c]) \in Seq(Tasks)
      BY <2>2 DEF HandlerBackfill
    <3>2. stream' \in [Clients -> Seq(1..MaxFrames)]
      BY <2>2, <3>1, SentType DEF HandlerBackfill
    <3>3. backlog' \in [Clients -> Seq(Tasks)]
      BY <2>2, <3>1 DEF HandlerBackfill
    <3> QED
      BY <2>2, <3>2, <3>3 DEF HandlerBackfill, capture, tasks, peers
  <2>3. CASE HandlerReject(c)
    BY <2>3 DEF HandlerReject, capture, tasks
  <2>4. CASE HandlerResume(c) \/ HandlerServe(c) \/ HandlerClosed(c)
    BY <2>4 DEF HandlerResume, HandlerServe, HandlerClosed, capture, tasks, peers
  <2>5. CASE HandlerRaises(c)
    BY <2>5 DEF HandlerRaises, capture, tasks
  <2>6. CASE HandlerFinally(c)
    BY <2>6 DEF HandlerFinally, capture, tasks, peers
  <2> QED
    BY <1>6, <2>1, <2>2, <2>3, <2>4, <2>5, <2>6 DEF HandlerNext
<1>7. ASSUME NEW c \in Clients, PeerNext(c) PROVE TypeOK'
  BY <1>7 DEF PeerNext, Connect, Disconnect, Stall, Unstall, capture, tasks, handlers
<1> QED
  BY <1>1, <1>2, <1>3, <1>4, <1>5, <1>6, <1>7 DEF Next

LEMMA TaskStep ==
    ASSUME TypeOK, TaskInv, [Next]_vars
    PROVE  TaskInv'
<1> USE PushAssumption DEF TypeOK, TaskInv, Tasks, Ticker, Frames
<1>1. CASE UNCHANGED <<capture, task>>
  BY <1>1 DEF capture
<1>2. CASE RecordFrame
  BY <1>2 DEF RecordFrame, tasks
<1>3. CASE ScheduleBroadcast
  BY <1>3 DEF ScheduleBroadcast
<1>4. CASE Tick
  BY <1>4 DEF Tick, capture
<1>5. ASSUME NEW n \in Tasks, task[n] # "none", NEW e, task' = [task EXCEPT ![n] = e],
             UNCHANGED capture
      PROVE  TaskInv'
  BY <1>5 DEF capture
<1>6. ASSUME NEW n \in Tasks, BroadcastNext(n) PROVE TaskInv'
  BY <1>1, <1>5, <1>6 DEF BroadcastNext, BroadcastStart, BroadcastSend, BroadcastResume,
                          BroadcastEnd
<1>7. CASE UNCHANGED vars \/ \E c \in Clients : HandlerNext(c) \/ PeerNext(c)
  BY <1>1, <1>7 DEF vars, HandlerNext, HandlerReject, HandlerAdd, HandlerBackfill, HandlerResume,
                    HandlerRaises, HandlerServe, HandlerClosed, HandlerFinally, PeerNext,
                    Connect, Disconnect, Stall, Unstall, tasks
<1> QED
  BY <1>2, <1>3, <1>4, <1>6, <1>7 DEF Next

LEMMA KnownStep ==
    ASSUME TypeOK, KnownInv, [Next]_vars
    PROVE  KnownInv'
<1> USE DEF TypeOK, KnownInv, Served, Strangers
<1>1. CASE UNCHANGED <<handler, clients, open, todo, dead, at>>
  BY <1>1
<1>2. CASE UNCHANGED vars \/ RecordFrame \/ ScheduleBroadcast \/ Tick
           \/ \E c \in Clients : Stall(c) \/ Unstall(c)
  BY <1>1, <1>2 DEF RecordFrame, ScheduleBroadcast, Tick, Stall, Unstall, vars, tasks, peers,
                    handlers
<1>3. ASSUME NEW n \in Tasks, BroadcastNext(n) PROVE KnownInv'
  <2>1. CASE BroadcastStart(n)
    BY <2>1 DEF BroadcastStart, Snapshot, peers, handlers
  <2>2. CASE BroadcastResume(n)
    <3>1. at[n] \in Clients
      BY <2>2 DEF BroadcastResume
    <3> QED
      BY <2>2, <3>1 DEF BroadcastResume, peers, handlers
  <2>3. CASE BroadcastEnd(n)
    BY <2>3 DEF BroadcastEnd, peers, handlers
  <2>4. ASSUME NEW c \in Clients, BroadcastSend(n, c) PROVE KnownInv'
    <3>1. handler[c] \notin Strangers
      BY <2>4 DEF BroadcastSend
    <3>2. UNCHANGED <<handler, open, clients>>
          /\ \A m \in Tasks : todo'[m] \subseteq todo[m]
      BY <2>4 DEF BroadcastSend, Remaining, peers, handlers
    <3>3. \A m \in Tasks : /\ dead'[m] \subseteq dead[m] \cup {c}
                           /\ c \in open => dead'[m] = dead[m]
                           /\ at'[m] = at[m] \/ at'[m] = c
      BY <2>4 DEF BroadcastSend
    <3> QED
      BY <3>1, <3>2, <3>3
  <2> QED
    BY <1>3, <2>1, <2>2, <2>3, <2>4 DEF BroadcastNext
<1>4. ASSUME NEW c \in Clients, HandlerNext(c) PROVE KnownInv'
  <2>1. UNCHANGED <<todo, dead, at>>
    BY <1>4 DEF HandlerNext, HandlerReject, HandlerAdd, HandlerBackfill, HandlerResume,
                HandlerRaises, HandlerServe, HandlerClosed, HandlerFinally, tasks
  <2>2. \A d \in Clients : /\ d # c => handler'[d] = handler[d]
                           /\ handler'[c] \notin Strangers
    BY <1>4 DEF HandlerNext, HandlerReject, HandlerAdd, HandlerBackfill, HandlerResume,
                HandlerRaises, HandlerServe, HandlerClosed, HandlerFinally
  <2>3. open' \subseteq open
    BY <1>4 DEF HandlerNext, HandlerReject, HandlerAdd, HandlerBackfill, HandlerResume,
                HandlerRaises, HandlerServe, HandlerClosed, HandlerFinally, peers
  <2>4. /\ clients' \subseteq clients \cup {c}
        /\ clients \subseteq clients' \cup {c}
        /\ c \in open' /\ handler'[c] \in {"backfill", "drain", "serving"} => c \in clients'
    <3>1. CASE HandlerAdd(c)
      BY <3>1 DEF HandlerAdd
    <3>2. CASE HandlerFinally(c)
      BY <3>2 DEF HandlerFinally
    <3>3. CASE HandlerBackfill(c) \/ HandlerResume(c) \/ HandlerServe(c)
      BY <3>3 DEF HandlerBackfill, HandlerResume, HandlerServe, peers
    <3>4. CASE HandlerReject(c) \/ HandlerRaises(c) \/ HandlerClosed(c)
      BY <3>4 DEF HandlerReject, HandlerRaises, HandlerClosed
    <3> QED
      BY <1>4, <3>1, <3>2, <3>3, <3>4 DEF HandlerNext
  <2>5. clients' \subseteq Clients /\ open' \subseteq Clients
    BY <2>3, <2>4
  <2> QED
    BY <2>1, <2>2, <2>3, <2>4, <2>5
<1>5. ASSUME NEW c \in Clients, Connect(c) PROVE KnownInv'
  <2>1. /\ UNCHANGED <<todo, dead, at, clients>> /\ open' = open \cup {c}
        /\ handler[c] \in Strangers
        /\ handler' = [handler EXCEPT ![c] = "new"]
    BY <1>5 DEF Connect, tasks
  <2>2. c \notin clients /\ \A n \in Tasks : c \notin todo[n] \cup dead[n]
    BY <2>1
  <2> QED
    BY <2>1, <2>2
<1>6. ASSUME NEW c \in Clients, Disconnect(c) PROVE KnownInv'
  BY <1>6 DEF Disconnect, tasks, handlers
<1> QED
  BY <1>2, <1>3, <1>4, <1>5, <1>6 DEF Next, PeerNext

\* What a step does to the streams, the backlogs and the frame each client joined at.
LEMMA DeliverySteps ==
    ASSUME [Next]_vars
    PROVE  \/ UNCHANGED <<stream, backlog, joined>>
           \/ \E n \in Tasks, c \in Clients : BroadcastSend(n, c) /\ c \in open
           \/ \E c \in Clients : HandlerAdd(c)
           \/ \E c \in Clients : HandlerBackfill(c) /\ c \in open
<1>1. CASE UNCHANGED vars \/ RecordFrame \/ ScheduleBroadcast \/ Tick
           \/ \E c \in Clients : PeerNext(c)
  BY <1>1 DEF RecordFrame, ScheduleBroadcast, Tick, PeerNext, Connect, Disconnect, Stall,
              Unstall, vars, handlers
<1>2. CASE \E n \in Tasks : BroadcastNext(n)
  BY <1>2 DEF BroadcastNext, BroadcastStart, BroadcastResume, BroadcastEnd, BroadcastSend,
              handlers
<1>3. CASE \E c \in Clients : HandlerNext(c)
  BY <1>3 DEF HandlerNext, HandlerReject, HandlerAdd, HandlerBackfill, HandlerResume,
              HandlerRaises, HandlerServe, HandlerClosed, HandlerFinally
<1> QED
  BY <1>1, <1>2, <1>3 DEF Next

\* A broadcast only ever stops coming,
LEMMA ComingStep ==
    ASSUME TypeOK, TaskInv, [Next]_vars, NEW c \in Clients, NEW n \in Frames,
           Coming(c, n)'
    PROVE  Coming(c, n)
<1> USE PushAssumption DEF TypeOK, TaskInv, Coming, Frames, Tasks, Ticker
<1>1. CASE UNCHANGED <<capture, task, todo>>
  BY <1>1 DEF capture
<1>2. CASE UNCHANGED vars \/ \E d \in Clients : HandlerNext(d) \/ PeerNext(d)
  BY <1>1, <1>2 DEF vars, HandlerNext, HandlerReject, HandlerAdd, HandlerBackfill, HandlerResume,
                    HandlerRaises, HandlerServe, HandlerClosed, HandlerFinally, PeerNext,
                    Connect, Disconnect, Stall, Unstall, tasks
<1>3. CASE RecordFrame
  BY <1>3 DEF RecordFrame, tasks
<1>4. CASE ScheduleBroadcast
  BY <1>4 DEF ScheduleBroadcast
<1>5. CASE Tick
  BY <1>5 DEF Tick, capture
<1>6. ASSUME NEW m \in Tasks, BroadcastNext(m) PROVE Coming(c, n)
  <2>1. CASE BroadcastStart(m)
    BY <2>1 DEF BroadcastStart, capture
  <2>2. CASE BroadcastResume(m)
    BY <2>2 DEF BroadcastResume, capture
  <2>3. CASE BroadcastEnd(m)
    BY <2>3 DEF BroadcastEnd, capture
  <2>4. CASE \E d \in Clients : BroadcastSend(m, d)
    BY <2>4 DEF BroadcastSend, Remaining, capture
  <2> QED
    BY <1>6, <2>1, <2>2, <2>3, <2>4 DEF BroadcastNext
<1> QED
  BY <1>2, <1>3, <1>4, <1>5, <1>6 DEF Next

\* and it stops coming to a client when it is sent to it.
LEMMA SentCame ==
    ASSUME TypeOK, TaskInv, NEW c \in Clients, NEW n \in Frames, BroadcastSend(n, c)
    PROVE  Coming(c, n) /\ ~Coming(c, n)'
BY PushAssumption DEF TypeOK, TaskInv, Coming, Frames, Tasks, BroadcastSend, Remaining, capture

\* Only a client in its backfill has a backlog to take from.
LEMMA TakenFrom ==
    ASSUME TypeOK, BacklogInv, NEW c \in Clients, HandlerBackfill(c), c \in open
    PROVE  /\ backlog[c] \in Seq(Tasks) /\ backlog[c] # <<>>
           /\ backlog' = [backlog EXCEPT ![c] = Tail(backlog[c])]
           /\ stream' = Sent(c, Head(backlog[c])) /\ Head(backlog[c]) \in Tasks
           /\ \A n : Has(backlog[c], n) <=> n = Head(backlog[c]) \/ Has(Tail(backlog[c]), n)
           /\ ~Has(Tail(backlog[c]), Head(backlog[c]))
           /\ \A i \in DOMAIN Tail(backlog[c]) :
                 i + 1 \in DOMAIN backlog[c] /\ Tail(backlog[c])[i] = backlog[c][i + 1]
<1>1. backlog[c] \in Seq(Tasks) /\ backlog[c] # <<>>
  BY DEF TypeOK, HandlerBackfill
<1>2. /\ backlog' = [backlog EXCEPT ![c] = Tail(backlog[c])]
      /\ stream' = Sent(c, Head(backlog[c]))
  BY DEF HandlerBackfill
<1> DEFINE b == backlog[c]
<1>3. /\ DOMAIN b = 1..Len(b) /\ Len(b) \in Nat /\ Len(b) > 0
      /\ DOMAIN Tail(b) = 1..Len(b) - 1 /\ Head(b) = b[1]
      /\ \A i \in 1..Len(b) - 1 : Tail(b)[i] = b[i + 1]
      /\ Head(b) \in Tasks
  BY <1>1
<1>4. \A i, j \in 1..Len(b) : b[i] = b[j] => i = j
  BY <1>3 DEF BacklogInv
<1> HIDE DEF b
<1>5. \A i \in DOMAIN Tail(b) : i + 1 \in DOMAIN b /\ Tail(b)[i] = b[i + 1]
  BY <1>3
<1>6. ~Has(Tail(b), Head(b))
  BY <1>3, <1>4 DEF Has
<1>7. ASSUME NEW n PROVE Has(b, n) <=> n = Head(b) \/ Has(Tail(b), n)
  <2>1. ASSUME NEW i \in 1..Len(b), b[i] = n, i # 1 PROVE Has(Tail(b), n)
    <3>1. i - 1 \in 1..Len(b) - 1 /\ Tail(b)[i - 1] = b[i]
      BY <1>3, <2>1
    <3> QED
      BY <1>3, <2>1, <3>1 DEF Has
  <2>2. ASSUME NEW i \in 1..Len(b) - 1, Tail(b)[i] = n PROVE Has(b, n)
    <3>1. i + 1 \in 1..Len(b) /\ b[i + 1] = n
      BY <1>3, <2>2
    <3> QED
      BY <1>3, <3>1 DEF Has
  <2>3. 1 \in 1..Len(b)
    BY <1>3
  <2> QED
    BY <1>3, <2>1, <2>2, <2>3 DEF Has
<1> QED
  BY <1>1, <1>2, <1>3, <1>5, <1>6, <1>7 DEF b

LEMMA BacklogStep ==
    ASSUME TypeOK, TaskInv, KnownInv, BacklogInv, [Next]_vars
    PROVE  BacklogInv'
<1> USE DEF TypeOK
<1>1. recorded' \in Nat /\ recorded' >= recorded /\ recorded \in Nat
  BY PushAssumption DEF Next, RecordFrame, ScheduleBroadcast, Tick, BroadcastNext, BroadcastStart,
        BroadcastResume, BroadcastEnd, BroadcastSend, HandlerNext, HandlerReject, HandlerAdd,
        HandlerBackfill, HandlerResume, HandlerRaises, HandlerServe, HandlerClosed,
        HandlerFinally, PeerNext, Connect, Disconnect, Stall, Unstall, capture, vars
<1>2. \A c \in Clients : /\ handler'[c] \in Strangers => handler[c] \in Strangers
                         /\ handler'[c] = "serving" =>
                               handler[c] = "serving" \/ (handler[c] = "backfill" /\ backlog[c] = <<>>)
  BY DEF Next, RecordFrame, ScheduleBroadcast, Tick, BroadcastNext, BroadcastStart,
        BroadcastResume, BroadcastEnd, BroadcastSend, HandlerNext, HandlerReject, HandlerAdd,
        HandlerBackfill, HandlerResume, HandlerRaises, HandlerServe, HandlerClosed,
        HandlerFinally, PeerNext, Connect, Disconnect, Stall, Unstall, handlers, vars, Strangers
<1>3. CASE UNCHANGED <<stream, backlog, joined>>
  BY <1>1, <1>2, <1>3 DEF BacklogInv
<1>4. ASSUME NEW n \in Tasks, NEW c \in Clients, BroadcastSend(n, c), c \in open
      PROVE  BacklogInv'
  <2>1. UNCHANGED handlers /\ handler[c] \notin Strangers
    BY <1>4 DEF BroadcastSend, KnownInv
  <2>2. \A d \in Clients : d # c => stream'[d] = stream[d]
    BY <1>4 DEF BroadcastSend, Sent
  <2> QED
    BY <1>1, <2>1, <2>2 DEF BacklogInv, handlers
<1>5. ASSUME NEW c \in Clients, HandlerAdd(c)
      PROVE  BacklogInv'
  <2>1. /\ \A i \in DOMAIN backlog'[c] : backlog'[c][i] <= recorded
        /\ \A i, j \in DOMAIN backlog'[c] : backlog'[c][i] = backlog'[c][j] => i = j
    BY <1>5, BacklogIs
  <2>2. /\ joined'[c] = recorded /\ handler'[c] = "backfill" /\ recorded' = recorded
        /\ \A d \in Clients : d # c => /\ joined'[d] = joined[d] /\ backlog'[d] = backlog[d]
                                       /\ handler'[d] = handler[d]
        /\ stream' = stream
    BY <1>5 DEF HandlerAdd, capture
  <2> QED
    BY <1>1, <2>1, <2>2 DEF BacklogInv, Strangers
<1>6. ASSUME NEW c \in Clients, HandlerBackfill(c), c \in open
      PROVE  BacklogInv'
  <2>1. /\ backlog' = [backlog EXCEPT ![c] = Tail(backlog[c])]
        /\ stream' = Sent(c, Head(backlog[c]))
        /\ \A i \in DOMAIN Tail(backlog[c]) :
              i + 1 \in DOMAIN backlog[c] /\ Tail(backlog[c])[i] = backlog[c][i + 1]
        /\ backlog[c] \in Seq(Tasks) /\ backlog[c] # <<>>
    BY <1>6, TakenFrom
  <2>2. /\ handler[c] = "backfill" /\ handler'[c] \in {"backfill", "drain"}
        /\ \A d \in Clients : d # c => handler'[d] = handler[d] /\ stream'[d] = stream[d]
        /\ UNCHANGED <<joined, recorded>>
    BY <1>6, <2>1 DEF HandlerBackfill, capture, Sent
  <2>3. \A i \in DOMAIN backlog'[c] : backlog'[c][i] <= joined'[c]
    BY <2>1, <2>2 DEF BacklogInv
  <2>4. \A i, j \in DOMAIN backlog'[c] : backlog'[c][i] = backlog'[c][j] => i = j
    <3>1. DOMAIN Tail(backlog[c]) \subseteq Nat
      BY <2>1
    <3> QED
      BY <2>1, <3>1 DEF BacklogInv
  <2> QED
    BY <1>1, <2>1, <2>2, <2>3, <2>4 DEF BacklogInv, Strangers
<1> QED
  BY <1>3, <1>4, <1>5, <1>6, DeliverySteps

\* Each delivery pays for one occurrence in a stream, from what was coming or from the
\* backlog.
LEMMA CountStep ==
    ASSUME PushInv, [Next]_vars
    PROVE  CountInv'
<1> USE DEF PushInv
<1> SUFFICES ASSUME NEW c \in Clients, NEW n \in Frames
             PROVE  Occurrences(stream'[c], n) + One(Has(backlog'[c], n)) + One(Coming(c, n)')
                       <= IF n > joined'[c] THEN 1 ELSE 2
  BY DEF CountInv
<1> DEFINE limit == IF n > joined[c] THEN 1 ELSE 2
<1>1. Occurrences(stream[c], n) + One(Has(backlog[c], n)) + One(Coming(c, n)) <= limit
  BY DEF CountInv
<1>2. stream[c] \in Seq(Frames) /\ Occurrences(stream[c], n) \in Nat /\ n # Ticker /\ n \in Tasks
  <2>1. stream[c] \in Seq(Frames) /\ n # Ticker /\ n \in Tasks
    BY PushAssumption DEF TypeOK, Frames, Ticker, Tasks
  <2> QED
    BY <2>1, AppendOccurs
<1>3. One(Coming(c, n)') <= One(Coming(c, n))
  BY ComingStep DEF One
<1>4. \A b : One(b) \in {0, 1}
  BY DEF One
<1>5. CASE UNCHANGED <<stream, backlog, joined>>
  BY <1>1, <1>2, <1>3, <1>4, <1>5
<1>6. ASSUME NEW m \in Tasks, NEW d \in Clients, BroadcastSend(m, d), d \in open
      PROVE  Occurrences(stream'[c], n) + One(Has(backlog'[c], n)) + One(Coming(c, n)')
                <= IF n > joined'[c] THEN 1 ELSE 2
  <2>1. UNCHANGED <<backlog, joined>> /\ stream' = Sent(d, m)
    BY <1>6 DEF BroadcastSend, handlers
  <2>2. CASE d = c /\ m = n
    <3>1. stream'[c] = Append(stream[c], n)
      BY <1>2, <2>1, <2>2 DEF Sent, TypeOK
    <3>2. Occurrences(stream'[c], n) = Occurrences(stream[c], n) + 1
      BY <1>2, <3>1, AppendOccurs DEF One
    <3>3. One(Coming(c, n)) = 1 /\ One(Coming(c, n)') = 0
      BY <1>6, <2>2, SentCame DEF One
    <3> QED
      BY <1>1, <1>2, <1>4, <2>1, <3>2, <3>3
  <2>3. CASE d # c \/ m # n
    <3>1. Occurrences(stream'[c], n) = Occurrences(stream[c], n)
      <4>1. CASE d # c \/ m = Ticker
        BY <2>1, <4>1 DEF Sent, TypeOK
      <4>2. CASE d = c /\ m # Ticker
        <5>1. stream'[c] = Append(stream[c], m) /\ m \in Frames
          BY <2>1, <4>2, PushAssumption DEF Sent, TypeOK, Tasks, Frames, Ticker
        <5> QED
          BY <1>2, <2>3, <4>2, <5>1, AppendOccurs DEF One
      <4> QED
        BY <4>1, <4>2
    <3> QED
      BY <1>1, <1>2, <1>3, <1>4, <2>1, <3>1
  <2> QED
    BY <2>2, <2>3
<1>7. ASSUME NEW d \in Clients, HandlerAdd(d)
      PROVE  Occurrences(stream'[c], n) + One(Has(backlog'[c], n)) + One(Coming(c, n)')
                <= IF n > joined'[c] THEN 1 ELSE 2
  <2>1. CASE d # c
    <3>1. stream' = stream /\ backlog'[c] = backlog[c] /\ joined'[c] = joined[c]
      BY <1>7, <2>1 DEF HandlerAdd, TypeOK
    <3> QED
      BY <1>1, <1>2, <1>3, <1>4, <3>1
  <2>2. CASE d = c
    <3>1. stream'[c] = <<>> /\ joined'[c] = recorded /\ recorded \in Nat
      BY <1>7, <2>2, PushAssumption DEF HandlerAdd, BacklogInv, TypeOK, Strangers
    <3>2. Occurrences(stream'[c], n) = 0
      BY <3>1, EmptyOccurs
    <3>3. n > recorded => ~Has(backlog'[c], n)
      <4>1. \A i \in DOMAIN backlog'[c] : backlog'[c][i] <= recorded
        BY <1>7, <2>2, BacklogIs DEF PushInv
      <4> QED
        BY <3>1, <4>1 DEF Has, Frames
    <3>4. One(Has(backlog'[c], n)) \in {0, 1} /\ One(Coming(c, n)') \in {0, 1}
      BY <1>4
    <3>5. n > recorded => One(Has(backlog'[c], n)) = 0
      BY <3>3 DEF One
    <3> QED
      BY <3>1, <3>2, <3>4, <3>5
  <2> QED
    BY <2>1, <2>2
<1>8. ASSUME NEW d \in Clients, HandlerBackfill(d), d \in open
      PROVE  Occurrences(stream'[c], n) + One(Has(backlog'[c], n)) + One(Coming(c, n)')
                <= IF n > joined'[c] THEN 1 ELSE 2
  <2>1. /\ backlog' = [backlog EXCEPT ![d] = Tail(backlog[d])]
        /\ stream' = Sent(d, Head(backlog[d])) /\ Head(backlog[d]) \in Tasks
        /\ \A k : Has(backlog[d], k) <=> k = Head(backlog[d]) \/ Has(Tail(backlog[d]), k)
        /\ ~Has(Tail(backlog[d]), Head(backlog[d]))
    BY <1>8, TakenFrom
  <2>2. joined' = joined
    BY <1>8 DEF HandlerBackfill
  <2>3. CASE d # c
    <3>1. stream'[c] = stream[c] /\ backlog'[c] = backlog[c]
      BY <2>1, <2>3 DEF Sent, TypeOK
    <3> QED
      BY <1>1, <1>2, <1>3, <1>4, <2>2, <3>1
  <2>4. CASE d = c /\ Head(backlog[c]) = n
    <3>1. stream'[c] = Append(stream[c], n)
      BY <1>2, <2>1, <2>4 DEF Sent, TypeOK
    <3>2. Occurrences(stream'[c], n) = Occurrences(stream[c], n) + 1
      BY <1>2, <3>1, AppendOccurs DEF One
    <3>3. Has(backlog[c], n) /\ ~Has(backlog'[c], n)
      BY <2>1, <2>4 DEF TypeOK
    <3>4. One(Has(backlog[c], n)) = 1 /\ One(Has(backlog'[c], n)) = 0
      BY <3>3 DEF One
    <3> QED
      BY <1>1, <1>2, <1>3, <1>4, <2>2, <3>2, <3>4
  <2>5. CASE d = c /\ Head(backlog[c]) # n
    <3>1. Occurrences(stream'[c], n) = Occurrences(stream[c], n)
      <4>1. CASE Head(backlog[c]) = Ticker
        BY <2>1, <2>5, <4>1 DEF Sent
      <4>2. CASE Head(backlog[c]) # Ticker
        <5>1. stream'[c] = Append(stream[c], Head(backlog[c])) /\ Head(backlog[c]) \in Frames
          BY <2>1, <2>5, <4>2, PushAssumption DEF Sent, TypeOK, Tasks, Frames, Ticker
        <5> QED
          BY <1>2, <2>5, <5>1, AppendOccurs DEF One
      <4> QED
        BY <4>1, <4>2
    <3>2. Has(backlog'[c], n) <=> Has(backlog[c], n)
      BY <2>1, <2>5 DEF TypeOK
    <3>3. One(Has(backlog'[c], n)) = One(Has(backlog[c], n))
      BY <3>2 DEF One
    <3> QED
      BY <1>1, <1>2, <1>3, <1>4, <2>2, <3>1, <3>3
  <2> QED
    BY <2>3, <2>4, <2>5
<1> QED
  BY <1>5, <1>6, <1>7, <1>8, DeliverySteps

\* A client that is served and open was so before, unless it is added now.
LEMMA ServedStep ==
    ASSUME TypeOK, [Next]_vars, NEW c \in open', Served(c)'
    PROVE  \/ HandlerAdd(c)
           \/ c \in open /\ Served(c) /\ joined'[c] = joined[c]
<1> USE DEF TypeOK, Served
<1>1. CASE UNCHANGED <<handler, open, joined>>
  BY <1>1
<1>2. CASE UNCHANGED vars \/ RecordFrame \/ ScheduleBroadcast \/ Tick
           \/ \E n \in Tasks : BroadcastNext(n)
  BY <1>1, <1>2 DEF vars, RecordFrame, ScheduleBroadcast, Tick, BroadcastNext, BroadcastStart,
                    BroadcastResume, BroadcastEnd, BroadcastSend, peers, handlers
<1>3. ASSUME NEW d \in Clients, HandlerNext(d)
      PROVE  HandlerAdd(c) \/ (c \in open /\ Served(c) /\ joined'[c] = joined[c])
  BY <1>3 DEF HandlerNext, HandlerReject, HandlerAdd, HandlerBackfill, HandlerResume,
              HandlerRaises, HandlerServe, HandlerClosed, HandlerFinally, peers
<1>4. ASSUME NEW d \in Clients, PeerNext(d)
      PROVE  c \in open /\ Served(c) /\ joined'[c] = joined[c]
  BY <1>4 DEF PeerNext, Connect, Disconnect, Stall, Unstall, handlers
<1> QED
  BY <1>2, <1>3, <1>4 DEF Next

\* A broadcast that is coming to a served client keeps coming until it is sent: the
\* client is in the set from which the broadcast takes its snapshot.
LEMMA ComingKept ==
    ASSUME TypeOK, TaskInv, KnownInv, [Next]_vars,
           NEW c \in open, Served(c), NEW n \in Frames, Coming(c, n)
    PROVE  Coming(c, n)' \/ BroadcastSend(n, c)
<1> USE PushAssumption DEF TypeOK, TaskInv, Coming, Frames, Tasks, Ticker
<1>1. CASE UNCHANGED <<capture, task, todo>>
  BY <1>1 DEF capture
<1>2. CASE UNCHANGED vars \/ \E d \in Clients : HandlerNext(d) \/ PeerNext(d)
  BY <1>1, <1>2 DEF vars, HandlerNext, HandlerReject, HandlerAdd, HandlerBackfill, HandlerResume,
                    HandlerRaises, HandlerServe, HandlerClosed, HandlerFinally, PeerNext,
                    Connect, Disconnect, Stall, Unstall, tasks
<1>3. CASE RecordFrame
  BY <1>3 DEF RecordFrame, tasks
<1>4. CASE ScheduleBroadcast
  BY <1>4 DEF ScheduleBroadcast
<1>5. CASE Tick
  BY <1>5 DEF Tick, capture
<1>6. ASSUME NEW m \in Tasks, BroadcastNext(m) PROVE Coming(c, n)' \/ BroadcastSend(n, c)
  <2>1. CASE BroadcastStart(m)
    <3>1. c \in clients
      BY DEF KnownInv
    <3> QED
      BY <2>1, <3>1 DEF BroadcastStart, Snapshot, capture
  <2>2. CASE BroadcastResume(m)
    BY <2>2 DEF BroadcastResume, capture
  <2>3. CASE BroadcastEnd(m)
    BY <2>3 DEF BroadcastEnd, capture
  <2>4. ASSUME NEW d \in Clients, BroadcastSend(m, d)
        PROVE  Coming(c, n)' \/ BroadcastSend(n, c)
    <3>1. CASE m = n /\ d = c
      BY <2>4, <3>1
    <3>2. CASE m # n \/ d # c
      BY <2>4, <3>2 DEF BroadcastSend, Remaining, capture
    <3> QED
      BY <3>1, <3>2
  <2> QED
    BY <1>6, <2>1, <2>2, <2>3, <2>4 DEF BroadcastNext
<1> QED
  BY <1>2, <1>3, <1>4, <1>5, <1>6 DEF Next

\* What was sent stays sent, and what leaves the backlog is sent.
LEMMA SentStep ==
    ASSUME PushInv, [Next]_vars, NEW c \in Clients, NEW n \in Frames, ~HandlerAdd(c)
    PROVE  /\ Has(stream[c], n) => Has(stream'[c], n)
           /\ Has(backlog[c], n) => Has(backlog'[c], n) \/ Has(stream'[c], n)
           /\ BroadcastSend(n, c) /\ c \in open => Has(stream'[c], n)
<1> USE DEF PushInv
<1>1. stream[c] \in Seq(Frames) /\ n # Ticker /\ n \in Tasks
  BY PushAssumption DEF TypeOK, Frames, Ticker, Tasks
<1>2. ASSUME NEW e \in Frames, stream'[c] = Append(stream[c], e)
      PROVE  Has(stream'[c], n) <=> Has(stream[c], n) \/ e = n
  BY <1>1, <1>2, AppendOccurs
<1>3. ASSUME NEW m \in Tasks, NEW d \in Clients, stream' = Sent(d, m)
      PROVE  Has(stream'[c], n) <=> Has(stream[c], n) \/ (d = c /\ m = n)
  <2>1. CASE d # c \/ m = Ticker
    BY <1>1, <1>3, <2>1 DEF Sent, TypeOK
  <2>2. CASE d = c /\ m # Ticker
    <3>1. stream'[c] = Append(stream[c], m) /\ m \in Frames
      BY <1>3, <2>2, PushAssumption DEF Sent, TypeOK, Tasks, Frames, Ticker
    <3> QED
      BY <1>2, <2>2, <3>1
  <2> QED
    BY <2>1, <2>2
<1>4. BroadcastSend(n, c) /\ c \in open => Has(stream'[c], n)
  BY <1>1, <1>3 DEF BroadcastSend
<1>5. CASE UNCHANGED <<stream, backlog, joined>>
  BY <1>4, <1>5
<1>6. ASSUME NEW m \in Tasks, NEW d \in Clients, BroadcastSend(m, d), d \in open
      PROVE  /\ Has(stream[c], n) => Has(stream'[c], n)
             /\ Has(backlog[c], n) => Has(backlog'[c], n)
  BY <1>3, <1>6 DEF BroadcastSend, handlers
<1>7. ASSUME NEW d \in Clients, HandlerAdd(d)
      PROVE  stream' = stream /\ backlog'[c] = backlog[c]
  BY <1>7 DEF HandlerAdd, TypeOK
<1>8. ASSUME NEW d \in Clients, HandlerBackfill(d), d \in open
      PROVE  /\ Has(stream[c], n) => Has(stream'[c], n)
             /\ Has(backlog[c], n) => Has(backlog'[c], n) \/ Has(stream'[c], n)
  <2>1. /\ backlog' = [backlog EXCEPT ![d] = Tail(backlog[d])]
        /\ stream' = Sent(d, Head(backlog[d])) /\ Head(backlog[d]) \in Tasks
        /\ \A k : Has(backlog[d], k) <=> k = Head(backlog[d]) \/ Has(Tail(backlog[d]), k)
    BY <1>8, TakenFrom
  <2>2. Has(stream'[c], n) <=> Has(stream[c], n) \/ (d = c /\ Head(backlog[d]) = n)
    BY <1>3, <2>1
  <2>3. CASE d # c
    BY <2>1, <2>2, <2>3 DEF TypeOK
  <2>4. CASE d = c
    BY <2>1, <2>2, <2>4 DEF TypeOK
  <2> QED
    BY <2>3, <2>4
<1> QED
  BY <1>4, <1>5, <1>6, <1>7, <1>8, DeliverySteps

LEMMA OwedStep ==
    ASSUME PushInv, TypeOK', [Next]_vars
    PROVE  OwedInv'
<1> USE DEF PushInv
<1> SUFFICES ASSUME NEW c \in open', Served(c)', NEW n \in Owed(c)'
             PROVE  Has(stream'[c], n) \/ Has(backlog'[c], n) \/ Coming(c, n)'
  BY DEF OwedInv
<1>1. c \in Clients /\ n \in 1..recorded' /\ n > joined'[c] - Backfill /\ n \in Frames
      /\ recorded \in Nat
  BY PushAssumption DEF TypeOK, Owed, Frames
<1>2. CASE HandlerAdd(c)
  <2>1. joined'[c] = recorded /\ recorded' = recorded
    BY <1>1, <1>2 DEF HandlerAdd, TypeOK, capture
  <2>2. Has(backlog'[c], n)
    BY <1>1, <1>2, <2>1, BacklogIs
  <2> QED
    BY <2>2
<1>3. CASE ~HandlerAdd(c)
  <2>1. c \in open /\ Served(c) /\ joined'[c] = joined[c]
    BY <1>3, ServedStep
  <2>2. n \in Owed(c) \/ Coming(c, n)
    BY <1>1, <2>1 DEF Owed, Coming
  <2>3. Has(stream[c], n) \/ Has(backlog[c], n) \/ Coming(c, n)
    BY <2>1, <2>2 DEF OwedInv
  <2>4. Coming(c, n) => Coming(c, n)' \/ BroadcastSend(n, c)
    BY <1>1, <2>1, ComingKept
  <2> QED
    BY <1>1, <1>3, <2>1, <2>3, <2>4, SentStep
<1> QED
  BY <1>2, <1>3

LEMMA PushStep ==
    ASSUME PushInv, [Next]_vars
    PROVE  PushInv'
<1>1. TypeOK' /\ TaskInv' /\ KnownInv' /\ BacklogInv'
  BY TypeStep, TaskStep, KnownStep, BacklogStep DEF PushInv
<1> QED
  BY <1>1, CountStep, OwedStep DEF PushInv

\* A client whose backfill is over has been sent, once no broadcast is under way, every
\* frame it is owed; none is sent to it more often than once, or twice if it was in the
\* ring when the client was added.
THEOREM SentExactly == Spec => []FramesSentExactly
<1>1. PushInv => FramesSentExactly
  <2> SUFFICES ASSUME PushInv PROVE FramesSentExactly
    OBVIOUS
  <2> USE DEF PushInv
  <2>1. ASSUME BroadcastsDone, NEW c \in open, handler[c] = "serving", NEW n \in Owed(c)
        PROVE  n \in SentTo(c)
    <3>1. n \in Frames /\ n <= recorded /\ c \in Clients /\ n \in Tasks
      BY PushAssumption DEF Owed, TypeOK, Frames, Tasks
    <3>2. backlog[c] = <<>>
      BY <2>1, <3>1 DEF BacklogInv
    <3>3. ~Has(backlog[c], n)
      BY <3>2, EmptyOccurs
    <3>4. ~Coming(c, n)
      <4>1. ~publishing /\ task[n] \in {"none", "done"}
        BY <2>1, <3>1 DEF BroadcastsDone
      <4>2. ~(n > recorded)
        BY <3>1, PushAssumption DEF TypeOK, Frames
      <4> QED
        BY <4>1, <4>2 DEF Coming
    <3>5. Has(stream[c], n)
      BY <2>1, <3>3, <3>4 DEF OwedInv, Served
    <3> QED
      BY <3>5 DEF Has, SentTo
  <2>2. ASSUME NEW c \in Clients, NEW n \in 1..MaxFrames
        PROVE  Copies(c, n) <= IF n > joined[c] THEN 1 ELSE 2
    <3>1. stream[c] \in Seq(1..MaxFrames)
      BY DEF TypeOK
    <3>2. Copies(c, n) = Occurrences(stream[c], n) /\ Copies(c, n) \in Nat
      <4>1. Copies(c, n) = Occurrences(stream[c], n)
        BY DEF Copies, Occurrences
      <4>2. Occurrences(stream[c], n) \in Nat
        BY <3>1, AppendOccurs
      <4> QED
        BY <4>1, <4>2
    <3>3. Occurrences(stream[c], n) + One(Has(backlog[c], n)) + One(Coming(c, n))
             <= IF n > joined[c] THEN 1 ELSE 2
      BY DEF CountInv, Frames
    <3>4. One(Has(backlog[c], n)) \in {0, 1} /\ One(Coming(c, n)) \in {0, 1}
      BY DEF One
    <3> QED
      BY <3>2, <3>3, <3>4
  <2> QED
    BY <2>1, <2>2 DEF FramesSentExactly
<1>2. Init => PushInv
  BY InitInv
<1>3. PushInv /\ [Next]_vars => PushInv'
  BY PushStep
<1> QED
  BY <1>1, <1>2, <1>3, PTL DEF Spec
---------------------------------------------------------------------------
(* The promise of the server *)

\* What the server has promised its open connections and not yet sent, without the order
\* and the waiting in which it sends: the frames whose broadcast is still to start, the
\* backlogs without the snapshots at their end, and the clients the broadcasts under way
\* have still to reach.
Waiting == {n \in 1..recorded : task[n] = "ready" \/ (publishing /\ n = recorded)}
FramesOf(c) == IF c \in open /\ backlog[c] # <<>>
               THEN SubSeq(backlog[c], 1, Len(backlog[c]) - 1) ELSE <<>>
JoinedOf(c) == IF c \in open THEN joined[c] ELSE 0
DueTo(c) == IF c \in open THEN {n \in Frames : task[n] = "run" /\ c \in todo[n]} ELSE {}

Promise == INSTANCE Feed
              WITH unsent <- Waiting, served <- clients \cap open,
                   joined <- [c \in Clients |-> JoinedOf(c)],
                   backlog <- [c \in Clients |-> FramesOf(c)],
                   due <- [c \in Clients |-> DueTo(c)]

\* A connection that is over is closed, one not accepted has no history, and a backlog
\* holds frames but for its last message.
GoneInv ==
    \A c \in Clients :
       /\ handler[c] \in {"absent", "finally", "gone"} => c \notin open
       /\ handler[c] \in Strangers => joined[c] = 0
       /\ \A i \in 1..Len(backlog[c]) - 1 : backlog[c][i] # Ticker

LEMMA GoneInit == Init => GoneInv
<1> SUFFICES ASSUME Init, NEW c \in Clients
             PROVE  /\ handler[c] \in {"absent", "finally", "gone"} => c \notin open
                    /\ handler[c] \in Strangers => joined[c] = 0
                    /\ \A i \in 1..Len(backlog[c]) - 1 : backlog[c][i] # Ticker
  BY DEF GoneInv
<1>1. backlog[c] = <<>> /\ joined[c] = 0 /\ open = {}
  BY DEF Init
<1> QED
  BY <1>1

\* Only its own handler and its own peer change what is known of a client.
LEMMA GoneStep ==
    ASSUME TypeOK, GoneInv, [Next]_vars
    PROVE  GoneInv'
<1> DEFINE G(c) == /\ handler[c] \in {"absent", "finally", "gone"} => c \notin open
                   /\ handler[c] \in Strangers => joined[c] = 0
                   /\ \A i \in 1..Len(backlog[c]) - 1 : backlog[c][i] # Ticker
<1>0. \A c \in Clients : G(c)
  BY DEF GoneInv
<1>1. CASE UNCHANGED <<handlers, open>>
  BY <1>0, <1>1 DEF handlers, GoneInv
<1>2. CASE UNCHANGED vars \/ RecordFrame \/ ScheduleBroadcast \/ Tick
           \/ \E n \in Tasks : BroadcastNext(n)
  BY <1>1, <1>2 DEF vars, peers, RecordFrame, ScheduleBroadcast, Tick, BroadcastNext,
                    BroadcastStart, BroadcastSend, BroadcastResume, BroadcastEnd
<1>3. ASSUME NEW c \in Clients, HandlerNext(c) \/ PeerNext(c) PROVE GoneInv'
  <2>1. ASSUME NEW d \in Clients, d # c PROVE G(d)'
    <3>1. /\ handler'[d] = handler[d] /\ joined'[d] = joined[d] /\ backlog'[d] = backlog[d]
          /\ d \in open' => d \in open
      BY <1>3, <2>1 DEF HandlerNext, HandlerReject, HandlerAdd, HandlerBackfill, HandlerResume,
            HandlerRaises, HandlerServe, HandlerClosed, HandlerFinally, PeerNext, Connect,
            Disconnect, Stall, Unstall, peers, handlers, TypeOK
    <3> QED
      BY <1>0, <3>1
  <2>2. CASE HandlerAdd(c)
    <3>1. handler'[c] = "backfill" /\ backlog'[c] = Recent(Backfill) \o <<Ticker>>
      BY <2>2 DEF HandlerAdd, Snapshots, TypeOK
    <3>2. /\ Recent(Backfill) \in Seq(0..recorded)
          /\ Len(Recent(Backfill)) \in Nat /\ Len(Recent(Backfill)) <= recorded
          /\ \A i \in 1..Len(Recent(Backfill)) :
                Recent(Backfill)[i] = recorded - Len(Recent(Backfill)) + i
      BY RecentIs, PushAssumption DEF TypeOK
    <3>3. recorded \in Nat
      BY PushAssumption DEF TypeOK
    <3> DEFINE r == Recent(Backfill)
    <3> HIDE DEF r
    <3>4. backlog'[c] = Append(r, Ticker) /\ r \in Seq(0..recorded) /\ Len(r) \in Nat
          /\ \A i \in 1..Len(r) : r[i] # 0
      <4>1. backlog'[c] = r \o <<Ticker>> /\ r \in Seq(0..recorded)
            /\ Len(r) \in Nat /\ Len(r) <= recorded
            /\ \A i \in 1..Len(r) : r[i] = recorded - Len(r) + i
        BY <3>1, <3>2 DEF r
      <4> QED
        BY <3>3, <4>1 DEF Ticker
    <3>5. \A i \in 1..Len(backlog'[c]) - 1 : backlog'[c][i] # Ticker
      BY <3>4 DEF Ticker
    <3> QED
      BY <2>1, <3>1, <3>5 DEF GoneInv, Strangers
  <2>3. CASE HandlerBackfill(c) /\ c \in open
    <3>1. backlog'[c] = Tail(backlog[c]) /\ backlog[c] \in Seq(Tasks) /\ backlog[c] # <<>>
          /\ handler'[c] \in {"drain", "backfill"}
      BY <2>3 DEF HandlerBackfill, TypeOK
    <3>2. Len(backlog'[c]) = Len(backlog[c]) - 1
          /\ \A i \in 1..Len(backlog'[c]) - 1 :
                i + 1 \in 1..Len(backlog[c]) - 1 /\ backlog'[c][i] = backlog[c][i + 1]
      BY <3>1
    <3> QED
      BY <1>0, <2>1, <3>1, <3>2 DEF GoneInv, Strangers
  <2>4. CASE ~HandlerAdd(c) /\ ~(HandlerBackfill(c) /\ c \in open)
    <3>1. joined' = joined /\ backlog' = backlog
      BY <1>3, <2>4 DEF HandlerNext, HandlerReject, HandlerBackfill, HandlerResume,
            HandlerRaises, HandlerServe, HandlerClosed, HandlerFinally, PeerNext, Connect,
            Disconnect, Stall, Unstall, handlers
    <3>2. handler'[c] \in {"absent", "finally", "gone"} => c \notin open'
      BY <1>0, <1>3, <2>4 DEF HandlerNext, HandlerReject, HandlerBackfill, HandlerResume,
            HandlerRaises, HandlerServe, HandlerClosed, HandlerFinally, PeerNext, Connect,
            Disconnect, Stall, Unstall, handlers, peers, TypeOK
    <3>3. handler'[c] \in Strangers => handler[c] \in Strangers
      BY <1>3, <2>4 DEF HandlerNext, HandlerReject, HandlerBackfill, HandlerResume,
            HandlerRaises, HandlerServe, HandlerClosed, HandlerFinally, PeerNext, Connect,
            Disconnect, Stall, Unstall, handlers, peers, TypeOK, Strangers
    <3> QED
      BY <1>0, <2>1, <3>1, <3>2, <3>3 DEF GoneInv
  <2> QED
    BY <2>2, <2>3, <2>4
<1> QED
  BY <1>2, <1>3 DEF Next

\* A step that changes nothing of the promise.
LEMMA PromiseKept ==
    ASSUME recorded' = recorded, Waiting' = Waiting, (clients \cap open)' = clients \cap open,
           \A c \in Clients : /\ JoinedOf(c)' = JoinedOf(c) /\ FramesOf(c)' = FramesOf(c)
                              /\ DueTo(c)' = DueTo(c)
    PROVE  UNCHANGED Promise!feedVars
BY DEF Promise!feedVars, JoinedOf

\* A connection that ends is promised nothing any more.
LEMMA PromiseEnds ==
    ASSUME PushInv, NEW c \in Clients, open' = open \ {c}, UNCHANGED clients,
           UNCHANGED <<recorded, publishing, task, todo, backlog, joined>>
    PROVE  Promise!Leave({c})
<1>1. Waiting' = Waiting /\ (clients \cap open)' = (clients \cap open) \ {c}
  BY DEF Waiting
<1>2. \A d \in Clients : /\ JoinedOf(d)' = IF d \in {c} THEN 0 ELSE JoinedOf(d)
                         /\ FramesOf(d)' = IF d \in {c} THEN <<>> ELSE FramesOf(d)
                         /\ DueTo(d)' = IF d \in {c} THEN {} ELSE DueTo(d)
  BY DEF JoinedOf, FramesOf, DueTo
<1> QED
  BY <1>1, <1>2 DEF Promise!Leave, JoinedOf

\* A broadcast does what is promised: it looks at the clients once, and each of them is
\* sent the frame once.
LEMMA BroadcastPromise ==
    ASSUME PushInv, GoneInv, NEW n \in Tasks, BroadcastNext(n)
    PROVE  [Promise!FeedNext]_(Promise!feedVars)
<1> USE DEF PushInv
<1>0. /\ recorded \in Nat /\ task \in [Tasks -> {"none", "ready", "run", "done"}]
      /\ todo \in [Tasks -> SUBSET Clients] /\ open \subseteq Clients
      /\ Frames \subseteq Tasks /\ n \in Nat /\ (n = 0 \/ n \in Frames)
  BY PushAssumption DEF TypeOK, Frames, Tasks
<1>1. CASE BroadcastStart(n)
  <2>1. /\ task[n] = "ready" /\ task' = [task EXCEPT ![n] = IF clients = {} THEN "done" ELSE "run"]
        /\ todo' = [todo EXCEPT ![n] = clients]
        /\ UNCHANGED <<recorded, publishing, clients, open, joined, backlog>>
    BY <1>1 DEF BroadcastStart, Snapshot, capture, peers, handlers
  <2>2. \A c \in Clients : JoinedOf(c)' = JoinedOf(c) /\ FramesOf(c)' = FramesOf(c)
    BY <2>1 DEF JoinedOf, FramesOf
  <2>3. CASE n = 0
    <3>1. Waiting' = Waiting
      BY <1>0, <2>1, <2>3 DEF Waiting
    <3>2. \A c \in Clients : DueTo(c)' = DueTo(c)
      BY <1>0, <2>1, <2>3 DEF DueTo, Frames
    <3> QED
      BY <2>1, <2>2, <3>1, <3>2, PromiseKept
  <2>4. CASE n \in Frames
    <3>1. n \in 1..recorded /\ ~(publishing /\ n = recorded)
      <4>1. n > recorded \/ (publishing /\ n = recorded) => task[n] = "none"
        BY <2>4 DEF TaskInv
      <4> QED
        BY <1>0, <2>1, <2>4, <4>1 DEF Frames
    <3>2. n \in Waiting /\ Waiting' = Waiting \ {n}
      BY <1>0, <2>1, <3>1 DEF Waiting
    <3>3. \A c \in Clients : DueTo(c)' = IF c \in clients \cap open THEN DueTo(c) \cup {n} ELSE DueTo(c)
      <4> TAKE c \in Clients
      <4>1. \A m \in Frames : m # n => task'[m] = task[m] /\ todo'[m] = todo[m]
        BY <1>0, <2>1
      <4>2. todo'[n] = clients /\ task[n] # "run" /\ (task'[n] = "run" <=> clients # {})
        BY <1>0, <2>1
      <4>3. CASE c \in clients \cap open
        BY <2>1, <2>4, <4>1, <4>2, <4>3 DEF DueTo
      <4>4. CASE c \notin clients \cap open
        BY <2>1, <2>4, <4>1, <4>2, <4>4 DEF DueTo
      <4> QED
        BY <4>3, <4>4
    <3>4. Promise!Broadcast(n)
      BY <2>1, <2>2, <3>2, <3>3 DEF Promise!Broadcast, JoinedOf
    <3> QED
      BY <3>2, <3>4 DEF Promise!FeedNext
  <2> QED
    BY <1>0, <2>3, <2>4
<1>2. ASSUME NEW c \in Clients, BroadcastSend(n, c)
      PROVE  [Promise!FeedNext]_(Promise!feedVars)
  <2>1. /\ task[n] = "run" /\ c \in todo[n] /\ todo' = [todo EXCEPT ![n] = todo[n] \ {c}]
        /\ UNCHANGED <<recorded, publishing, task, clients, open, joined, backlog>>
    BY <1>2 DEF BroadcastSend, Remaining, capture, peers, handlers
  <2>2. /\ Waiting' = Waiting
        /\ \A d \in Clients : JoinedOf(d)' = JoinedOf(d) /\ FramesOf(d)' = FramesOf(d)
    BY <2>1 DEF Waiting, JoinedOf, FramesOf
  <2>3. \A m \in Frames : m # n => todo'[m] = todo[m]
    BY <1>0, <2>1
  <2>4. todo'[n] = todo[n] \ {c}
    BY <1>0, <2>1
  <2>5. CASE c \notin open \/ n = 0
    <3>1. \A d \in Clients : DueTo(d)' = DueTo(d)
      <4> TAKE d \in Clients
      <4>1. CASE n = 0
        BY <2>1, <2>3, <4>1 DEF DueTo, Frames
      <4>2. CASE c \notin open
        BY <2>1, <2>3, <2>4, <4>2 DEF DueTo
      <4> QED
        BY <2>5, <4>1, <4>2
    <3> QED
      BY <2>1, <2>2, <3>1, PromiseKept
  <2>6. CASE c \in open /\ n \in Frames
    <3>1. c \in clients \cap open
      <4>1. handler[c] \notin Strangers
        BY <1>0, <2>1 DEF KnownInv
      <4>2. handler[c] \notin {"absent", "finally", "gone"}
        BY <2>6 DEF GoneInv
      <4>3. Served(c)
        BY <4>1, <4>2 DEF Served, Strangers, TypeOK
      <4> QED
        BY <2>6, <4>3 DEF KnownInv
    <3>2. DueTo(c)' = DueTo(c) \ {n} /\ n \in DueTo(c)
      BY <2>1, <2>3, <2>4, <2>6 DEF DueTo
    <3>3. \A d \in Clients : d # c => DueTo(d)' = DueTo(d)
      BY <2>1, <2>3, <2>4 DEF DueTo
    <3>4. n \in 1..recorded
      <4>1. n > recorded => task[n] = "none"
        BY <2>6 DEF TaskInv
      <4> QED
        BY <1>0, <2>1, <2>6, <4>1 DEF Frames
    <3>5. Promise!Deliver(c, n)
      <4>1. [d \in Clients |-> DueTo(d)]' = [[d \in Clients |-> DueTo(d)] EXCEPT ![c] = @ \ {n}]
        BY <3>2, <3>3
      <4>2. n \in [d \in Clients |-> DueTo(d)][c]
        BY <3>2
      <4> QED
        BY <2>1, <2>2, <3>1, <4>1, <4>2 DEF Promise!Deliver, JoinedOf
    <3> QED
      BY <3>4, <3>5 DEF Promise!FeedNext
  <2> QED
    BY <1>0, <2>5, <2>6
<1>3. CASE BroadcastResume(n)
  <2>1. UNCHANGED <<recorded, publishing, task, todo, clients, open, joined, backlog>>
    BY <1>3 DEF BroadcastResume, capture, peers, handlers
  <2> QED
    BY <2>1, PromiseKept DEF Waiting, JoinedOf, FramesOf, DueTo
<1>4. CASE BroadcastEnd(n)
  <2>1. /\ task[n] = "run" /\ todo[n] = {} /\ clients' = clients \ dead[n]
        /\ task' = [task EXCEPT ![n] = "done"]
        /\ UNCHANGED <<recorded, publishing, todo, open, joined, backlog>>
    BY <1>4 DEF BroadcastEnd, capture, peers, handlers
  <2>2. (clients \cap open)' = clients \cap open
    BY <2>1 DEF KnownInv
  <2>3. Waiting' = Waiting
    BY <1>0, <2>1, PushAssumption DEF Waiting, TypeOK, Tasks
  <2>4. \A c \in Clients : DueTo(c)' = DueTo(c)
    BY <1>0, <2>1 DEF DueTo
  <2> QED
    BY <2>1, <2>2, <2>3, <2>4, PromiseKept DEF JoinedOf, FramesOf
<1> QED
  BY <1>1, <1>2, <1>3, <1>4 DEF BroadcastNext

\* The backlog without its last message: its head is the backlog's and its tail is what
\* remains of the backlog's tail.
LEMMA FrontTail ==
    ASSUME NEW S, NEW s \in Seq(S), Len(s) >= 2
    PROVE  /\ s[1] \in S /\ s[1] = Head(s)
           /\ SubSeq(s, 1, Len(s) - 1) # <<>> /\ Head(SubSeq(s, 1, Len(s) - 1)) = s[1]
           /\ Tail(s) # <<>>
           /\ Tail(SubSeq(s, 1, Len(s) - 1)) = SubSeq(Tail(s), 1, Len(Tail(s)) - 1)
<1> DEFINE f == SubSeq(s, 1, Len(s) - 1)
           t == Tail(s)
           g == SubSeq(t, 1, Len(t) - 1)
<1>1. Len(s) \in Nat /\ \A i \in 1..Len(s) : s[i] \in S
  BY ElementOfSeq, LenProperties
<1>2. f \in Seq(S) /\ Len(f) = Len(s) - 1 /\ \A i \in 1..Len(s) - 1 : f[i] = s[i]
  <2>1. 1 \in Int /\ Len(s) - 1 \in Int /\ \A i \in 1..Len(s) - 1 : s[i] \in S
    BY <1>1
  <2>2. /\ f \in Seq(S) /\ Len(f) = IF 1 <= Len(s) - 1 THEN Len(s) - 1 - 1 + 1 ELSE 0
        /\ \A i \in 1..Len(s) - 1 - 1 + 1 : f[i] = s[1 + i - 1]
    BY <2>1, SubSeqProperties
  <2> HIDE DEF f
  <2> QED
    BY <1>1, <2>2
<1>3. s # <<>>
  BY <1>1, EmptySeq
<1>4. t \in Seq(S) /\ Len(t) = Len(s) - 1 /\ \A i \in 1..Len(s) - 1 : t[i] = s[i + 1]
  BY <1>3, HeadTailProperties
<1>5. g \in Seq(S) /\ Len(g) = Len(s) - 2 /\ \A i \in 1..Len(s) - 2 : g[i] = s[i + 1]
  <2> HIDE DEF t
  <2>1. Len(t) - 1 = Len(s) - 2 /\ \A i \in 1..Len(t) - 1 : t[i] \in S
    BY <1>1, <1>4
  <2>2. /\ g \in Seq(S) /\ Len(g) = IF 1 <= Len(t) - 1 THEN Len(t) - 1 - 1 + 1 ELSE 0
        /\ \A i \in 1..Len(t) - 1 - 1 + 1 : g[i] = t[1 + i - 1]
    <3>1. 1 \in Int /\ Len(t) - 1 \in Int
      BY <1>1, <1>4
    <3> QED
      BY <2>1, <3>1, SubSeqProperties
  <2> HIDE DEF g
  <2> QED
    BY <1>1, <1>4, <2>1, <2>2
<1>6. f # <<>> /\ t # <<>>
  <2> HIDE DEF f, t
  <2> QED
    BY <1>1, <1>2, <1>4, EmptySeq
<1>7. Tail(f) \in Seq(S) /\ Len(Tail(f)) = Len(s) - 2 /\ \A i \in 1..Len(s) - 2 : Tail(f)[i] = f[i + 1]
  <2> HIDE DEF f
  <2>1. Tail(f) \in Seq(S) /\ Len(Tail(f)) = Len(f) - 1 /\ \A i \in 1..Len(f) - 1 : Tail(f)[i] = f[i + 1]
    BY <1>2, <1>6, HeadTailProperties
  <2> QED
    BY <1>1, <1>2, <2>1
<1>8. Tail(f) = g
  <2> HIDE DEF f, g
  <2>1. \A i \in 1..Len(s) - 2 : i + 1 \in 1..Len(s) - 1
    BY <1>1
  <2>2. \A i \in 1..Len(Tail(f)) : Tail(f)[i] = g[i]
    BY <1>1, <1>2, <1>5, <1>7, <2>1
  <2>3. Len(Tail(f)) = Len(g) /\ g \in Seq(S) /\ Tail(f) \in Seq(S)
    BY <1>5, <1>7
  <2> QED
    BY <2>2, <2>3, SeqEqual
<1>9. Head(f) = f[1] /\ f[1] = s[1] /\ s[1] \in S /\ s[1] = Head(s)
  <2>1. 1 \in 1..Len(s) /\ 1 \in 1..Len(s) - 1
    BY <1>1
  <2>2. Head(f) = f[1] /\ Head(s) = s[1]
    OBVIOUS
  <2> HIDE DEF f
  <2> QED
    BY <1>1, <1>2, <2>1, <2>2
<1> QED
  BY <1>6, <1>8, <1>9

\* A handler does what is promised: it accepts its client with the last frames of the ring
\* and sends them in order.
LEMMA HandlerPromise ==
    ASSUME PushInv, GoneInv, NEW c \in Clients, HandlerNext(c)
    PROVE  [Promise!FeedNext]_(Promise!feedVars)
<1> USE DEF PushInv
<1>0. {c} \in SUBSET Clients /\ recorded \in Nat /\ open \subseteq Clients
  BY PushAssumption DEF TypeOK
<1>1. CASE HandlerReject(c) \/ HandlerRaises(c)
  <2>1. Promise!Leave({c})
    BY <1>1, PromiseEnds DEF HandlerReject, HandlerRaises, capture, tasks
  <2> QED
    BY <1>0, <2>1 DEF Promise!FeedNext
<1>2. CASE HandlerAdd(c)
  <2>1. /\ handler[c] = "new" /\ clients' = clients \cup {c}
        /\ joined' = [joined EXCEPT ![c] = recorded]
        /\ backlog' = [backlog EXCEPT ![c] = Recent(Backfill) \o <<Ticker>>]
        /\ UNCHANGED <<recorded, publishing, task, todo, open>>
    BY <1>2 DEF HandlerAdd, Snapshots, capture, tasks, peers
  <2>2. c \notin clients /\ joined[c] = 0 /\ backlog[c] = <<>>
    BY <2>1 DEF KnownInv, GoneInv, BacklogInv, Strangers
  <2>3. Waiting' = Waiting /\ \A d \in Clients : DueTo(d)' = DueTo(d)
    BY <2>1 DEF Waiting, DueTo
  <2>4. joined'[c] = recorded /\ backlog'[c] = Recent(Backfill) \o <<Ticker>>
        /\ \A d \in Clients : d # c => joined'[d] = joined[d] /\ backlog'[d] = backlog[d]
    BY <2>1 DEF TypeOK
  <2>5. \A d \in Clients : d # c => JoinedOf(d)' = JoinedOf(d) /\ FramesOf(d)' = FramesOf(d)
    BY <2>1, <2>4 DEF JoinedOf, FramesOf
  <2>6. CASE c \notin open
    <3>1. JoinedOf(c)' = JoinedOf(c) /\ FramesOf(c)' = FramesOf(c)
      BY <2>1, <2>6 DEF JoinedOf, FramesOf
    <3>2. (clients \cap open)' = clients \cap open
      BY <2>1, <2>6
    <3> QED
      BY <2>1, <2>3, <2>5, <3>1, <3>2, PromiseKept
  <2>7. CASE c \in open
    <3>1. JoinedOf(c)' = recorded
      BY <2>1, <2>4, <2>7 DEF JoinedOf
    <3>2. FramesOf(c)' = Promise!Recent
      <4> DEFINE r == Recent(Backfill)
      <4>1. r \in Seq(0..recorded)
        BY <1>0, RecentIs
      <4>2. r = Promise!Recent
        BY DEF Recent, SkippedFrames, Promise!Recent
      <4> HIDE DEF r
      <4>3. backlog'[c] = Append(r, Ticker)
        BY <2>4, <4>1 DEF r
      <4>4. SubSeq(backlog'[c], 1, Len(backlog'[c]) - 1) = r /\ backlog'[c] # <<>>
        <5>1. Append(r, Ticker) \in Seq(Nat) /\ Len(Append(r, Ticker)) = Len(r) + 1
              /\ \A i \in 1..Len(r) : Append(r, Ticker)[i] = r[i]
          BY <1>0, <4>1 DEF Ticker
        <5>2. SubSeq(Append(r, Ticker), 1, Len(r)) = r
          BY <4>1, <5>1
        <5> QED
          BY <4>1, <4>3, <5>1, <5>2
      <4> QED
        BY <2>1, <2>7, <4>2, <4>4 DEF FramesOf
    <3>3. (clients \cap open)' = (clients \cap open) \cup {c} /\ c \notin clients \cap open
      BY <2>1, <2>2, <2>7
    <3>4. Promise!Accept(c)
      <4>1. [d \in Clients |-> JoinedOf(d)]'
               = [[d \in Clients |-> JoinedOf(d)] EXCEPT ![c] = recorded]
        BY <2>5, <3>1
      <4>2. [d \in Clients |-> FramesOf(d)]'
               = [[d \in Clients |-> FramesOf(d)] EXCEPT ![c] = Promise!Recent]
        BY <2>5, <3>2
      <4> QED
        BY <2>1, <2>3, <3>3, <4>1, <4>2 DEF Promise!Accept, JoinedOf
    <3> QED
      BY <3>4 DEF Promise!FeedNext
  <2> QED
    BY <2>6, <2>7
<1>3. CASE HandlerBackfill(c) /\ c \in open
  <2>1. /\ backlog[c] # <<>> /\ backlog' = [backlog EXCEPT ![c] = Tail(backlog[c])]
        /\ UNCHANGED <<recorded, publishing, task, todo, clients, open, joined>>
        /\ backlog[c] \in Seq(Tasks) /\ handler[c] = "backfill"
    BY <1>3 DEF HandlerBackfill, capture, tasks, peers, TypeOK
  <2>2. /\ backlog'[c] = Tail(backlog[c])
        /\ \A d \in Clients : d # c => backlog'[d] = backlog[d]
    BY <2>1 DEF TypeOK
  <2>3. /\ Waiting' = Waiting /\ \A d \in Clients : DueTo(d)' = DueTo(d)
        /\ \A d \in Clients : JoinedOf(d)' = JoinedOf(d)
        /\ \A d \in Clients : d # c => FramesOf(d)' = FramesOf(d)
    BY <2>1, <2>2 DEF Waiting, DueTo, JoinedOf, FramesOf
  <2> DEFINE b == backlog[c]
  <2>4. b \in Seq(Tasks) /\ b # <<>> /\ Len(b) \in Nat /\ Len(b) >= 1
    BY <2>1
  <2>5. /\ Tail(b) \in Seq(Tasks) /\ Len(Tail(b)) = Len(b) - 1
        /\ \A i \in 1..Len(b) - 1 : Tail(b)[i] = b[i + 1]
    BY <2>4
  <2>6. FramesOf(c) = SubSeq(b, 1, Len(b) - 1)
        /\ FramesOf(c)' = IF Tail(b) # <<>> THEN SubSeq(Tail(b), 1, Len(Tail(b)) - 1) ELSE <<>>
    <3>1. c \in open /\ c \in open' /\ backlog[c] = b /\ backlog'[c] = Tail(b)
      BY <1>3, <2>1, <2>2
    <3> HIDE DEF b
    <3> QED
      BY <2>4, <3>1 DEF FramesOf
  <2>b. \A i \in 1..Len(b) - 1 : b[i] # Ticker
    BY DEF GoneInv
  <2>j. \A i \in DOMAIN b : b[i] <= joined[c]
    BY DEF BacklogInv
  <2> HIDE DEF b
  <2>7. CASE Len(b) = 1
    <3>1. FramesOf(c) = <<>> /\ FramesOf(c)' = <<>>
      BY <2>4, <2>5, <2>6, <2>7
    <3> QED
      BY <2>1, <2>3, <3>1, PromiseKept
  <2>8. CASE Len(b) # 1
    <3>0. Len(b) >= 2
      <4>1. Len(b) \in Nat /\ Len(b) >= 1 /\ Len(b) # 1
        BY <2>4, <2>8
      <4>2. \A k \in Nat : k >= 1 /\ k # 1 => k >= 2
        OBVIOUS
      <4> QED
        BY <4>1, <4>2, Zenon
    <3> DEFINE f == SubSeq(b, 1, Len(b) - 1)
    <3>1. b[1] \in Tasks /\ f # <<>> /\ Head(f) = b[1]
      BY <2>4, <3>0, FrontTail
    <3>2. Tail(f) = SubSeq(Tail(b), 1, Len(Tail(b)) - 1) /\ Tail(b) # <<>>
      BY <2>4, <3>0, FrontTail
    <3> HIDE DEF f
    <3>3. FramesOf(c) = f /\ FramesOf(c)' = Tail(f)
      BY <2>6, <3>2 DEF f
    <3>4. b[1] \in 1..recorded
      <4>1. 1 \in 1..Len(b) - 1 /\ 1 \in DOMAIN b
        <5>1. DOMAIN b = 1..Len(b)
          BY <2>4, LenProperties
        <5> QED
          BY <2>4, <3>0, <5>1
      <4>2. b[1] # 0 /\ b[1] <= joined[c] /\ joined[c] <= recorded /\ joined[c] \in Nat
        BY <2>b, <2>j, <3>1, <4>1, PushAssumption DEF BacklogInv, Ticker, TypeOK
      <4> QED
        BY <1>0, <3>1, <4>2, PushAssumption DEF Tasks
    <3>5. c \in clients \cap open
      BY <1>3, <2>1 DEF KnownInv, Served
    <3>6. Promise!Deliver(c, b[1])
      <4>1. [d \in Clients |-> FramesOf(d)]'
               = [[d \in Clients |-> FramesOf(d)] EXCEPT ![c] = Tail(@)]
        BY <2>3, <3>3
      <4>2. [d \in Clients |-> FramesOf(d)][c] = f
        BY <3>3
      <4> QED
        BY <2>1, <2>3, <3>1, <3>5, <4>1, <4>2 DEF Promise!Deliver, JoinedOf
    <3> QED
      BY <3>4, <3>6 DEF Promise!FeedNext
  <2> QED
    BY <2>7, <2>8
<1>4. CASE \/ HandlerBackfill(c) /\ c \notin open
           \/ HandlerResume(c) \/ HandlerServe(c) \/ HandlerClosed(c)
  <2>1. UNCHANGED <<recorded, publishing, task, todo, clients, open, joined, backlog>>
    BY <1>4 DEF HandlerBackfill, HandlerResume, HandlerServe, HandlerClosed, capture, tasks, peers
  <2> QED
    BY <2>1, PromiseKept DEF Waiting, JoinedOf, FramesOf, DueTo
<1>5. CASE HandlerFinally(c)
  <2>1. /\ handler[c] = "finally" /\ clients' = clients \ {c}
        /\ UNCHANGED <<recorded, publishing, task, todo, open, joined, backlog>>
    BY <1>5 DEF HandlerFinally, capture, tasks, peers
  <2>2. (clients \cap open)' = clients \cap open
    BY <2>1 DEF GoneInv
  <2> QED
    BY <2>1, <2>2, PromiseKept DEF Waiting, JoinedOf, FramesOf, DueTo
<1> QED
  BY <1>1, <1>2, <1>3, <1>4, <1>5 DEF HandlerNext

\* The server promises its clients what Feed says: the page that relies on Feed may be
\* connected to it.
THEOREM ServerIsFeed == Spec => Promise!FeedSpec
<1>1. Init => Promise!FeedInit
  <2> SUFFICES ASSUME Init PROVE Promise!FeedInit
    OBVIOUS
  <2>1. /\ recorded = 0 /\ publishing = FALSE /\ clients = {} /\ open = {}
        /\ \A c \in Clients : JoinedOf(c) = 0 /\ FramesOf(c) = <<>> /\ DueTo(c) = {}
    BY DEF Init, JoinedOf, FramesOf, DueTo
  <2>2. Waiting = {}
    BY <2>1 DEF Waiting
  <2> QED
    BY <2>1, <2>2 DEF Promise!FeedInit, JoinedOf
<1>2. ASSUME PushInv, GoneInv, [Next]_vars
      PROVE  [Promise!FeedNext]_(Promise!feedVars)
  <2> USE <1>2 DEF PushInv
  <2>0. recorded \in Nat /\ task \in [Tasks -> {"none", "ready", "run", "done"}]
    BY PushAssumption DEF TypeOK
  <2>1. CASE UNCHANGED vars
    <3>1. UNCHANGED <<recorded, publishing, task, todo, clients, open, joined, backlog>>
      BY <2>1 DEF vars, capture, tasks, peers, handlers
    <3> QED
      BY <3>1, PromiseKept DEF Waiting, JoinedOf, FramesOf, DueTo
  <2>2. CASE RecordFrame
    <3>1. /\ ~publishing /\ publishing' = TRUE /\ recorded < MaxFrames /\ recorded' = recorded + 1
          /\ UNCHANGED <<task, todo, clients, open, joined, backlog>>
      BY <2>2 DEF RecordFrame, tasks, peers, handlers
    <3>2. task[recorded + 1] # "ready"
      <4>1. recorded + 1 \in Frames /\ recorded + 1 > recorded
        BY <2>0, <3>1, PushAssumption DEF Frames
      <4> QED
        BY <4>1 DEF TaskInv
    <3>3. Waiting' = Waiting \cup {recorded + 1}
      BY <2>0, <3>1, <3>2 DEF Waiting
    <3>4. \A c \in Clients : /\ JoinedOf(c)' = JoinedOf(c) /\ FramesOf(c)' = FramesOf(c)
                             /\ DueTo(c)' = DueTo(c)
      BY <3>1 DEF JoinedOf, FramesOf, DueTo
    <3>5. Promise!Record
      BY <3>1, <3>3, <3>4 DEF Promise!Record, JoinedOf
    <3> QED
      BY <3>5 DEF Promise!FeedNext
  <2>3. CASE ScheduleBroadcast
    <3>1. /\ publishing /\ publishing' = FALSE /\ task' = [task EXCEPT ![recorded] = "ready"]
          /\ UNCHANGED <<recorded, todo, clients, open, joined, backlog>>
      BY <2>3 DEF ScheduleBroadcast, peers, handlers
    <3>2. recorded \in Frames /\ recorded \in Tasks /\ task[recorded] = "none"
      BY <2>0, <3>1, PushAssumption DEF TaskInv, TypeOK, Frames, Tasks
    <3>3. Waiting' = Waiting
      BY <2>0, <3>1, <3>2 DEF Waiting
    <3>4. \A c \in Clients : DueTo(c)' = DueTo(c)
      BY <2>0, <3>1, <3>2 DEF DueTo
    <3> QED
      BY <3>1, <3>3, <3>4, PromiseKept DEF JoinedOf, FramesOf
  <2>4. CASE Tick
    <3>1. /\ task' = [task EXCEPT ![Ticker] = "ready"]
          /\ UNCHANGED <<recorded, publishing, todo, clients, open, joined, backlog>>
      BY <2>4 DEF Tick, capture, peers, handlers
    <3>2. \A n : n # 0 => task'[n] = task[n]
      BY <2>0, <3>1 DEF Ticker
    <3>3. Waiting' = Waiting /\ \A c \in Clients : DueTo(c)' = DueTo(c)
      <4>1. (\A n \in 1..recorded : n # 0) /\ (\A n \in Frames : n # 0)
        BY <2>0, PushAssumption DEF Frames
      <4>2. (\A n \in 1..recorded : task'[n] = task[n]) /\ \A n \in Frames : task'[n] = task[n]
        BY <3>2, <4>1
      <4>3. Waiting' = Waiting
        BY <3>1, <4>2 DEF Waiting
      <4>4. \A c \in Clients : DueTo(c)' = DueTo(c)
        BY <3>1, <4>2 DEF DueTo
      <4> QED
        BY <4>3, <4>4
    <3> QED
      BY <3>1, <3>3, PromiseKept DEF JoinedOf, FramesOf
  <2>5. ASSUME NEW n \in Tasks, BroadcastNext(n) PROVE [Promise!FeedNext]_(Promise!feedVars)
    BY <2>5, BroadcastPromise
  <2>6. ASSUME NEW c \in Clients, HandlerNext(c) PROVE [Promise!FeedNext]_(Promise!feedVars)
    BY <2>6, HandlerPromise
  <2>7. ASSUME NEW c \in Clients, PeerNext(c) PROVE [Promise!FeedNext]_(Promise!feedVars)
    <3>1. CASE Connect(c)
      <4>1. /\ handler[c] = "absent" /\ open' = open \cup {c}
            /\ UNCHANGED <<recorded, publishing, task, todo, clients, joined, backlog>>
        BY <3>1 DEF Connect, capture, tasks
      <4>2. /\ c \notin clients /\ joined[c] = 0 /\ backlog[c] = <<>> /\ c \notin open
            /\ \A n \in Tasks : c \notin todo[n]
        BY <4>1 DEF KnownInv, GoneInv, BacklogInv, Strangers
      <4>3. (clients \cap open)' = clients \cap open /\ Waiting' = Waiting
        BY <4>1, <4>2 DEF Waiting
      <4>4. Frames \subseteq Tasks
        BY PushAssumption DEF Frames, Tasks
      <4>5. ASSUME NEW d \in Clients
            PROVE  /\ JoinedOf(d)' = JoinedOf(d) /\ FramesOf(d)' = FramesOf(d)
                   /\ DueTo(d)' = DueTo(d)
        <5>1. CASE d = c
          BY <4>1, <4>2, <4>4, <5>1 DEF JoinedOf, FramesOf, DueTo
        <5>2. CASE d # c
          BY <4>1, <5>2 DEF JoinedOf, FramesOf, DueTo
        <5> QED
          BY <5>1, <5>2
      <4> QED
        BY <4>1, <4>3, <4>5, PromiseKept
    <3>2. CASE Disconnect(c)
      <4>1. Promise!Leave({c})
        BY <3>2, PromiseEnds DEF Disconnect, capture, tasks, handlers
      <4>2. {c} \in SUBSET Clients
        OBVIOUS
      <4> QED
        BY <4>1, <4>2 DEF Promise!FeedNext
    <3>3. CASE Stall(c) \/ Unstall(c)
      <4>1. UNCHANGED <<recorded, publishing, task, todo, clients, open, joined, backlog>>
        BY <3>3 DEF Stall, Unstall, capture, tasks, handlers
      <4> QED
        BY <4>1, PromiseKept DEF Waiting, JoinedOf, FramesOf, DueTo
    <3> QED
      BY <2>7, <3>1, <3>2, <3>3 DEF PeerNext
  <2> QED
    BY <2>1, <2>2, <2>3, <2>4, <2>5, <2>6, <2>7 DEF Next
<1>3. Init => PushInv /\ GoneInv
  BY InitInv, GoneInit
<1>4. PushInv /\ GoneInv /\ [Next]_vars => (PushInv /\ GoneInv)'
  BY PushStep, GoneStep DEF PushInv
<1> QED
  BY <1>1, <1>2, <1>3, <1>4, PTL DEF Spec, Promise!FeedSpec
============================================================================
