----------------------------- MODULE Page_proof -----------------------------
(***************************************************************************)
(* What the page may rely on, for every value of the constants: it never   *)
(* has two sockets, its banner hides no trouble, its buttons are disabled  *)
(* just while one of its exports is pending, and its list has no gap that  *)
(* nobody could notice.                                                    *)
(***************************************************************************)
EXTENDS Page, FiniteSetTheorems, WellFoundedInduction, TLAPS

Live == {"connecting", "open", "closing"}

ConnType ==
    /\ sock \in [Sockets -> Live \cup {"none", "closed"}]
    /\ ws \in Sockets \cup {NoSocket}
    /\ state \in {"connecting", "ok", "closed"}
    /\ retry \in BOOLEAN /\ disconnected \in BOOLEAN

\* A socket that is not closed is the current one and no retry is scheduled, so a retry
\* never makes a second one; the state is behind the socket only while it is closing.
ConnInv ==
    /\ ConnType
    /\ \A s \in Sockets : sock[s] \in Live => s = ws /\ ~retry
    /\ state = "ok" => ReadyState \in {"open", "closing"}
    /\ ~disconnected /\ state = "closed" => retry

\* The timer that collapses the banner runs only while the state is ok.
BannerInv ==
    /\ collapsed \in BOOLEAN /\ bannerTimer \in BOOLEAN /\ dismissed \in BOOLEAN
    /\ bannerTimer => state = "ok"
    /\ state # "ok" /\ collapsed => dismissed

Outcomes == {"unsent", "waiting", "data", "error", "timeout"}

ExportType ==
    /\ tab \in {"stream", "perf"} /\ mount \in Nat /\ busy \in BOOLEAN
    /\ format \in {"csv", "xlsx"} /\ reqSeq \in Nat
    /\ pending \subseteq Ids /\ timers \subseteq Ids
    /\ result \in [Ids -> Outcomes]
    /\ job \in [Ids -> [mount : Nat, format : {"csv", "xlsx"}]]
    /\ up \in [Sockets -> Seq(Ids)]
    /\ down \in [Sockets -> Seq(Ids \X {"data", "error"})]

Own(q) == q \in pending /\ job[q].mount = mount

\* The sequence number is ahead of every query sent, and no export is of a later mount
\* than the present one: a new query is new and a new mount begins without exports.
ExportInv ==
    /\ ExportType
    /\ \A q \in Ids : job[q].mount <= mount
    /\ \A q \in Ids : q >= reqSeq => q \notin pending /\ result[q] = "unsent"
    /\ timers = pending
    /\ ~disconnected => pending = {q \in Ids : result[q] = "waiting"}
    /\ \A q, r \in Ids : Own(q) /\ Own(r) => q = r
    /\ ~disconnected /\ tab = "perf" => (busy <=> \E q \in Ids : Own(q))

Packet == [frame : Nat, id : Nat \X Nat]
Alive(s) == sock[s] \in {"connecting", "open"}

FeedType ==
    /\ recorded \in 0..MaxFrames /\ unsent \subseteq 1..recorded /\ served \subseteq Sockets
    /\ joined \in [Sockets -> Nat] /\ backlog \in [Sockets -> Seq(Nat)]
    /\ due \in [Sockets -> SUBSET Nat]
    /\ \A s \in Sockets : joined[s] <= recorded /\ due[s] \subseteq 1..recorded

Coming(s, n) ==
    n \in unsent \/ n \in due[s] \/ \E i \in 1..Len(backlog[s]) : backlog[s][i] = n

\* The rows are of frames recorded, and only the present socket is served.  A frame owed
\* to it was shown or is still coming; one recorded since it was accepted is not in its
\* backfill, and is in at most one of the list, its broadcast and the queue before it.
ListInv ==
    /\ FeedType /\ packets \in Seq(Packet)
    /\ \A i \in 1..Len(packets) : packets[i].frame \in 1..recorded
    /\ \A s \in served :
          /\ Alive(s)
          /\ \A i \in 1..Len(backlog[s]) : backlog[s][i] <= joined[s]
          /\ \A n \in 1..recorded :
                n > joined[s] - Backfill => n \in Shown \cup dropped \/ Coming(s, n)
          /\ \A n \in 1..recorded : n > joined[s] =>
                /\ n \in unsent => n \notin due[s]
                /\ n \in Shown => n \notin unsent \cup due[s]
          /\ \A i, j \in 1..Len(packets) :
                packets[i].frame = packets[j].frame /\ packets[i].frame > joined[s] => i = j

\* Where the id of a packet comes from.
Named(p, d) ==
    /\ p.frame \in 1..MaxFrames
    /\ Identity[p.frame] # 0 => p.id = <<Identity[p.frame], 0>>
    /\ Identity[p.frame] = 0 => p.id[1] = 0 /\ p.id[2] \in 1..d

Choice == [frame |-> chosen, id |-> selectedId]
SameDraw(p, q) == p.id = q.id /\ p.id[1] = 0 => p.frame = q.frame

\* An id that was drawn belongs to one frame, in the list and of the one chosen, though its
\* row may be gone.
ChosenInv ==
    /\ drawn \in Nat /\ selectedId \in Nat \X Nat
    /\ \A i \in 1..Len(packets) : Named(packets[i], drawn)
    /\ \A i, j \in 1..Len(packets) : SameDraw(packets[i], packets[j])
    /\ chosen # 0 => /\ Named(Choice, drawn)
                     /\ \A i \in 1..Len(packets) : SameDraw(packets[i], Choice)

\* The file of the query q is the download number i.
FileOf(i, q) == i \in 1..Len(files) /\ files[i].query = q
Exported(q) == result[q] = "data" /\ Writable(job[q].format)

\* A query that is not sent or pending has not settled; each that has settled with data
\* that can be written has one file.
FilesInv ==
    /\ files \in Seq([query : Nat, format : {"csv", "xlsx"}]) /\ calls \in [Ids -> Nat]
    /\ \A q \in Ids : calls[q] = 0 \/ (calls[q] = 1 /\ q < reqSeq /\ q \notin pending)
    /\ \A q \in pending : q \in Ids /\ result[q] = "waiting"
    /\ \A q \in Ids : \A i \in 1..Len(files) :
          FileOf(i, q) => Exported(q) /\ files[i].format = job[q].format
    /\ \A q \in Ids : \A i, j \in 1..Len(files) : FileOf(i, q) /\ FileOf(j, q) => i = j
    /\ \A q \in Ids : Exported(q) => \E i \in 1..Len(files) : FileOf(i, q)

---------------------------------------------------------------------------
\* What the server does.
Server ==
    \/ ServerRecord \/ ServerBroadcast \/ \E s \in Sockets : ServerAccept(s)
    \/ \E s \in Sockets, n \in 1..recorded : OnFrame(s, n)

\* What a step of the page can do to the connection and to the banner.
LEMMA ConnectionSteps ==
    ASSUME [PageNext]_pageVars
    PROVE  \/ UNCHANGED <<connection, disconnected, banner>>
           \/ UNCHANGED <<connection, disconnected>> /\ (BannerTimeout \/ ClickBanner)
           \/ RetryConnect /\ BannerEffect
           \/ RetryRefused /\ UNCHANGED banner
           \/ \E s \in Sockets : OnOpen(s) /\ BannerEffect
           \/ \E s \in Sockets : OnClose(s) /\ BannerEffect
           \/ \E s \in Sockets : Closing(s) /\ UNCHANGED banner
           \/ Disconnect /\ UNCHANGED banner
<1>1. CASE UNCHANGED pageVars
  BY <1>1 DEF pageVars, vars, page
<1>2. CASE Server \/ ToggleCapture \/ OnSelect \/ OnClear \/ ShowTab
           \/ OnFormatChange \/ ExportLocally
  BY <1>2 DEF Server, ServerRecord, ServerBroadcast, ServerAccept, OnFrame, ToggleCapture, OnSelect, OnClear, ShowTab,
              OnFormatChange, ExportLocally, vars, page
<1>3. CASE BannerTimeout \/ ClickBanner
  BY <1>3 DEF BannerTimeout, ClickBanner, vars, page
<1>4. CASE OnExport
  BY <1>4 DEF OnExport, Query, vars, page
<1>5. CASE ExportReply
  BY <1>5 DEF ExportReply, OnReply, page
<1>6. CASE \E q \in Ids : ExportTimeout(q)
  BY <1>6 DEF ExportTimeout, Timeout, page
<1>7. CASE PageConnect
  BY <1>7 DEF PageConnect
<1>8. CASE PageOpen
  BY <1>8 DEF PageOpen
<1>9. CASE PageQuiet
  BY <1>9 DEF PageQuiet, ServerAnswer, page
<1>10. CASE \E s \in Sockets : PageClose(s)
  BY <1>10 DEF PageClose
<1> QED
  BY <1>1, <1>2, <1>3, <1>4, <1>5, <1>6, <1>7, <1>8, <1>9, <1>10 DEF PageNext, Server

LEMMA ConnInit == PageInit => ConnInv /\ BannerInv
<1> SUFFICES ASSUME PageInit PROVE ConnInv /\ BannerInv
  OBVIOUS
<1>1. BannerInv
  BY DEF PageInit, BannerInv
<1>2. 1 \in Sockets
  BY LiveAssumption DEF Sockets
<1>3. ConnType
  BY <1>2 DEF PageInit, Init, ConnType, Live
<1>4. \A s \in Sockets : sock[s] \in Live => s = ws /\ ~retry
  BY <1>2 DEF PageInit, Init, Live
<1>5. state = "connecting"
  BY DEF PageInit, Init
<1> QED
  BY <1>1, <1>3, <1>4, <1>5 DEF ConnInv

\* The invariant of the connection, one step per callback that touches it.
LEMMA ConnStep ==
    ASSUME ConnInv, [PageNext]_pageVars
    PROVE  ConnInv'
<1> USE DEF ConnInv, ConnType, Live
<1>1. CASE UNCHANGED <<connection, disconnected>>
  BY <1>1 DEF connection, ReadyState
<1>2. CASE RetryConnect
  <2>1. /\ NewSocket \in Sockets /\ ws' = NewSocket /\ retry /\ retry' = FALSE
        /\ sock' = [sock EXCEPT ![NewSocket] = "connecting"]
        /\ state' = "connecting" /\ disconnected' = disconnected
    BY <1>2 DEF RetryConnect, RetryFired, SetState, page
  <2>2. \A s \in Sockets : sock[s] \notin Live
    BY <2>1
  <2> QED
    BY <2>1, <2>2 DEF ReadyState
<1>3. CASE RetryRefused
  BY <1>3 DEF RetryRefused, ScheduleRetry, page, ReadyState
<1>4. ASSUME NEW s \in Sockets, OnOpen(s)
      PROVE  ConnInv'
  <2>1. s = ws /\ s # NoSocket
    BY <1>4 DEF OnOpen, Sockets, NoSocket
  <2> QED
    BY <1>4, <2>1 DEF OnOpen, SetState, page, ReadyState
<1>5. ASSUME NEW s \in Sockets, OnClose(s)
      PROVE  ConnInv'
  <2>1. s = ws /\ s # NoSocket
    BY <1>5 DEF OnClose, Sockets, NoSocket
  <2> QED
    BY <1>5, <2>1 DEF OnClose, SetState, ScheduleRetry, page, ReadyState
<1>6. ASSUME NEW s \in Sockets, Closing(s)
      PROVE  ConnInv'
  <2>1. s = ws /\ s # NoSocket
    BY <1>6 DEF Closing, Sockets, NoSocket
  <2> QED
    BY <1>6, <2>1 DEF Closing, page, ReadyState
<1>7. CASE Disconnect
  BY <1>7 DEF Disconnect, ReadyState, NoSocket, Sockets
<1> QED
  BY <1>1, <1>2, <1>3, <1>4, <1>5, <1>6, <1>7, ConnectionSteps DEF connection

LEMMA BannerStep ==
    ASSUME ConnInv, BannerInv, [PageNext]_pageVars
    PROVE  BannerInv'
<1> USE DEF BannerInv
<1>1. CASE UNCHANGED <<connection, disconnected, banner>>
  BY <1>1 DEF connection, banner
<1>2. CASE UNCHANGED <<connection, disconnected>> /\ (BannerTimeout \/ ClickBanner)
  <2>1. state' = state
    BY <1>2 DEF connection
  <2>2. CASE BannerTimeout
    BY <2>1, <2>2 DEF BannerTimeout
  <2>3. CASE ClickBanner
    <3>1. collapsed' = ~collapsed /\ dismissed' = collapsed' /\ bannerTimer' = bannerTimer
      BY <2>3 DEF ClickBanner
    <3> QED
      BY <2>1, <3>1
  <2> QED
    BY <1>2, <2>2, <2>3
<1>3. CASE BannerEffect
  BY <1>3 DEF BannerEffect, banner
<1>4. CASE (RetryRefused \/ Disconnect \/ \E s \in Sockets : Closing(s)) /\ UNCHANGED banner
  BY <1>4 DEF RetryRefused, Disconnect, Closing, banner
<1> QED
  BY <1>1, <1>2, <1>3, <1>4, ConnectionSteps

\* Reconnecting never leaves two sockets alive.
THEOREM OneSocket == PageSpec => []OneConnection
<1>1. ConnInv => OneConnection
  <2> SUFFICES ASSUME ConnInv PROVE OneConnection
    OBVIOUS
  <2> DEFINE alive == {s \in Sockets : sock[s] \in {"connecting", "open", "closing"}}
  <2>1. alive \subseteq {ws}
    BY DEF ConnInv, Live
  <2>2. IsFiniteSet({ws}) /\ Cardinality({ws}) = 1
    BY FS_Singleton
  <2>3. Cardinality(alive) <= 1
    BY <2>1, <2>2, FS_Subset
  <2> QED
    BY <2>3 DEF OneConnection
<1>2. PageInit => ConnInv
  BY ConnInit
<1>3. ConnInv /\ [PageNext]_pageVars => ConnInv'
  BY ConnStep
<1> QED
  BY <1>1, <1>2, <1>3, PTL DEF PageSpec

\* The banner never says "retrying" without a retry or "connected" after the socket was
\* seen to close, and hides no trouble the user did not hide.
THEOREM BannerIsHonest == PageSpec => []BannerTellsTroubles
<1>1. ConnInv /\ BannerInv => BannerTellsTroubles
  BY DEF ConnInv, BannerInv, BannerTellsTroubles
<1>2. PageInit => ConnInv /\ BannerInv
  BY ConnInit
<1>3. ConnInv /\ BannerInv /\ [PageNext]_pageVars => (ConnInv /\ BannerInv)'
  BY ConnStep, BannerStep
<1> QED
  BY <1>1, <1>2, <1>3, PTL DEF PageSpec

---------------------------------------------------------------------------
\* What a step of the page can do to the exports.
exports == <<queries, up, down, disconnected, tab, mount, busy, format, job>>

LEMMA ExportSteps ==
    ASSUME [PageNext]_pageVars
    PROVE  \/ UNCHANGED exports
           \/ ShowTab
           \/ OnFormatChange
           \/ OnExport
           \/ ExportReply
           \/ \E q \in Ids : ExportTimeout(q)
           \/ \E s \in Sockets : OnClose(s) /\ UNCHANGED panel
           \/ \E s \in Sockets : ServerAnswer(s) /\ UNCHANGED panel
           \/ Disconnect /\ UNCHANGED panel
<1> USE DEF exports
<1>1. CASE UNCHANGED pageVars
  BY <1>1 DEF pageVars, vars, page, panel
<1>2. CASE Server \/ ToggleCapture \/ OnSelect \/ OnClear \/ BannerTimeout
           \/ ClickBanner
  BY <1>2 DEF Server, ServerRecord, ServerBroadcast, ServerAccept, OnFrame, ToggleCapture, OnSelect, OnClear, BannerTimeout,
              ClickBanner, vars, page, panel
<1>3. CASE ExportLocally
  BY <1>3 DEF ExportLocally, vars, page
<1>4. CASE PageConnect
  BY <1>4 DEF PageConnect, RetryConnect, page, panel
<1>5. CASE PageOpen
  BY <1>5 DEF PageOpen, OnOpen, page, panel
<1>6. CASE PageQuiet
  BY <1>6 DEF PageQuiet, RetryRefused, Closing, page, panel
<1>7. CASE \E s \in Sockets : PageClose(s)
  BY <1>7 DEF PageClose
<1> QED
  BY <1>1, <1>2, <1>3, <1>4, <1>5, <1>6, <1>7 DEF PageNext, Server

LEMMA ExportInit == PageInit => ExportInv
<1> SUFFICES ASSUME PageInit PROVE ExportInv
  OBVIOUS
<1>1. /\ pending = {} /\ timers = {} /\ result = [q \in Ids |-> "unsent"] /\ reqSeq = 1
      /\ up = [s \in Sockets |-> <<>>] /\ down = [s \in Sockets |-> <<>>]
  BY DEF PageInit, Init
<1>2. /\ tab \in {"stream", "perf"} /\ mount = 0 /\ busy = FALSE /\ format = "csv"
      /\ job = [q \in Ids |-> NoJob]
  BY PageAssumption DEF PageInit
<1>3. up \in [Sockets -> Seq(Ids)] /\ down \in [Sockets -> Seq(Ids \X {"data", "error"})]
  BY <1>1
<1>4. job \in [Ids -> [mount : Nat, format : {"csv", "xlsx"}]]
      /\ \A q \in Ids : job[q].mount = 0
  BY <1>2 DEF NoJob
<1>5. ExportType
  BY <1>1, <1>2, <1>3, <1>4 DEF ExportType, Outcomes
<1> QED
  BY <1>1, <1>2, <1>4, <1>5 DEF ExportInv, Own

\* A query that settles leaves the pending ones with its timer, and the panel that asked
\* is told.
LEMMA SettleStep ==
    ASSUME ExportInv, NEW q \in pending, NEW r \in {"data", "error", "timeout"},
           Settle(q, r), Ended(q),
           UNCHANGED <<reqSeq, disconnected, tab, mount, format, job>>,
           up' = up, down' \in [Sockets -> Seq(Ids \X {"data", "error"})]
    PROVE  ExportInv'
<1> USE DEF ExportInv, ExportType, Settle, Outcomes
<1>1. q \in Ids /\ pending' = pending \ {q} /\ timers' = timers \ {q}
      /\ result' = [result EXCEPT ![q] = r]
  OBVIOUS
<1>2. busy' \in BOOLEAN
  BY DEF Ended
<1>3. ExportType'
  BY <1>1, <1>2
<1>4. \A p \in Ids : Own(p)' <=> Own(p) /\ p # q
  BY <1>1 DEF Own
<1>5. timers' = pending' /\ (~disconnected => pending' = {p \in Ids : result'[p] = "waiting"})
  BY <1>1
<1>6. tab = "perf" /\ ~disconnected => (busy' <=> \E p \in Ids : Own(p)')
  <2>1. CASE Own(q)
    BY <1>4, <2>1 DEF Ended, Own
  <2>2. CASE ~Own(q)
    BY <1>4, <2>2 DEF Ended, Own
  <2> QED
    BY <2>1, <2>2
<1> QED
  BY <1>1, <1>3, <1>4, <1>5, <1>6

LEMMA ExportStep ==
    ASSUME ExportInv, [PageNext]_pageVars
    PROVE  ExportInv'
<1> USE DEF ExportInv, ExportType
<1>1. CASE UNCHANGED exports
  BY <1>1 DEF exports, queries, Own
<1>2. CASE ShowTab
  <2>1. UNCHANGED <<queries, up, down, disconnected, job>> /\ busy' = FALSE
        /\ format' = "csv" /\ tab' \in {"stream", "perf"}
    BY <1>2 DEF ShowTab, vars, page
  <2>2. CASE tab = "perf"
    <3>1. mount' = mount /\ tab' # "perf"
      BY <1>2, <2>2 DEF ShowTab
    <3>2. \A q \in Ids : Own(q)' <=> Own(q)
      BY <2>1, <3>1 DEF queries, Own
    <3> QED
      BY <2>1, <3>1, <3>2 DEF queries
  <2>3. CASE tab # "perf"
    <3>1. mount' = mount + 1
      BY <1>2, <2>3 DEF ShowTab
    <3>2. \A q \in Ids : ~Own(q)'
      BY <2>1, <3>1 DEF Own
    <3> QED
      <4>1. ExportType'
        <5>1. busy' \in BOOLEAN
          BY <2>1
        <5>2. mount' \in Nat
          BY <3>1
        <5> QED
          BY <2>1, <5>1, <5>2 DEF queries
      <4>2. \A q \in Ids : job'[q].mount <= mount'
        BY <2>1, <3>1
      <4> QED
        BY <2>1, <3>2, <4>1, <4>2 DEF queries
  <2> QED
    BY <2>2, <2>3
<1>3. CASE OnFormatChange
  BY <1>3 DEF OnFormatChange, vars, page, queries, Own
<1>4. CASE OnExport
  <2>1. /\ tab = "perf" /\ ~busy /\ ~disconnected
        /\ UNCHANGED <<tab, mount, format, disconnected>>
    BY <1>4 DEF OnExport, Click, Query, vars, page
  <2>2. \A q \in Ids : ~Own(q)
    BY <2>1
  <2>3. CASE UNCHANGED <<vars, job, busy>>
    BY <2>1, <2>3 DEF vars, queries, Own
  <2>4. CASE /\ Query
             /\ job' = [job EXCEPT ![reqSeq] = [mount |-> mount, format |-> format]]
             /\ busy' = (result'[reqSeq] = "waiting")
    <3>1. reqSeq \in Ids /\ reqSeq' = reqSeq + 1 /\ down' = down
      BY <2>4 DEF Query
    <3>2. \A q \in Ids : job'[q] = IF q = reqSeq THEN [mount |-> mount, format |-> format]
                                   ELSE job[q]
      BY <2>4, <3>1
    <3>3. job' \in [Ids -> [mount : Nat, format : {"csv", "xlsx"}]]
      BY <2>4
    <3> reqSeq \notin pending
      BY <3>1
    <3>4. CASE /\ pending' = pending \cup {reqSeq} /\ timers' = Armed(reqSeq)
               /\ result' = [result EXCEPT ![reqSeq] = "waiting"]
               /\ up' = [up EXCEPT ![ws] = Append(@, reqSeq)]
      <4>1. \A q \in Ids : Own(q)' <=> q = reqSeq
        BY <2>1, <2>2, <3>1, <3>2, <3>4 DEF Own
      <4>2. busy' = TRUE
        BY <2>4, <3>1, <3>4
      <4>3. up' \in [Sockets -> Seq(Ids)]
        <5>1. \A s \in Sockets : Append(up[s], reqSeq) \in Seq(Ids)
          BY <3>1
        <5> QED
          BY <3>4, <5>1
      <4>4. ExportType'
        BY <2>1, <3>1, <3>3, <3>4, <4>2, <4>3 DEF Armed, Outcomes
      <4>5. \A q \in Ids : q >= reqSeq' => q \notin pending' /\ result'[q] = "unsent"
        BY <3>1, <3>4 DEF Ids
      <4>6. timers' = pending' /\ pending' = {q \in Ids : result'[q] = "waiting"}
        BY <2>1, <3>1, <3>4 DEF Armed
      <4> QED
        BY <2>1, <3>1, <3>2, <4>1, <4>2, <4>4, <4>5, <4>6
    <3>5. CASE /\ result' = [result EXCEPT ![reqSeq] = "error"]
               /\ UNCHANGED <<pending, timers, up>>
      <4>1. \A q \in Ids : ~Own(q)'
        BY <2>1, <2>2, <3>1, <3>2, <3>5 DEF Own
      <4>2. busy' = FALSE
        BY <2>4, <3>1, <3>5
      <4>3. ExportType'
        <5>1. result' \in [Ids -> Outcomes]
          BY <3>5 DEF Outcomes
        <5>2. busy' \in BOOLEAN /\ pending' \subseteq Ids /\ timers' \subseteq Ids
          BY <3>5, <4>2
        <5> QED
          BY <2>1, <3>1, <3>3, <3>5, <5>1, <5>2
      <4>4. \A q \in Ids : q >= reqSeq' => q \notin pending' /\ result'[q] = "unsent"
        BY <3>1, <3>5 DEF Ids
      <4>5. timers' = pending' /\ pending' = {q \in Ids : result'[q] = "waiting"}
        BY <2>1, <3>1, <3>5
      <4> QED
        BY <2>1, <3>1, <3>2, <4>1, <4>2, <4>3, <4>4, <4>5
    <3> QED
      BY <2>4, <3>4, <3>5 DEF Query
  <2> QED
    BY <1>4, <2>3, <2>4 DEF OnExport
<1>5. CASE ExportReply
  <2>1. PICK s \in Sockets : OnReply(s)
    BY <1>5 DEF ExportReply
  <2>2. down[s] \in Seq(Ids \X {"data", "error"}) /\ down[s] # <<>>
    BY <2>1 DEF OnReply
  <2>3. Tail(down[s]) \in Seq(Ids \X {"data", "error"})
        /\ Head(down[s]) \in Ids \X {"data", "error"}
    BY <2>2
  <2>4. down' \in [Sockets -> Seq(Ids \X {"data", "error"})]
    BY <2>1, <2>3 DEF OnReply
  <2>5. UNCHANGED <<reqSeq, up, disconnected, tab, mount, format, job>>
    BY <1>5, <2>1 DEF ExportReply, OnReply, page
  <2> DEFINE reply == Head(down[s])
  <2>6. CASE reply[1] \in pending
    <3>1. Settle(reply[1], reply[2]) /\ reply[2] \in {"data", "error"}
      BY <2>1, <2>3, <2>6 DEF OnReply
    <3>2. pending' = pending \ {reply[1]} /\ pending' # pending
      BY <2>6, <3>1 DEF Settle
    <3>3. PICK q \in pending \ pending' : Ended(q)
      BY <1>5, <3>2 DEF ExportReply
    <3>4. q = reply[1]
      BY <3>2, <3>3
    <3> QED
      BY <2>4, <2>5, <2>6, <3>1, <3>3, <3>4, SettleStep
  <2>7. CASE reply[1] \notin pending
    <3>1. UNCHANGED <<pending, timers, result>>
      BY <2>1, <2>7 DEF OnReply
    <3>2. busy' = busy
      BY <1>5, <3>1 DEF ExportReply
    <3> QED
      BY <2>4, <2>5, <3>1, <3>2 DEF Own
  <2> QED
    BY <2>6, <2>7
<1>6. ASSUME NEW q \in Ids, ExportTimeout(q)
      PROVE  ExportInv'
  <2>1. Settle(q, "timeout") /\ Ended(q) /\ q \in timers
    BY <1>6 DEF ExportTimeout, Timeout
  <2>2. UNCHANGED <<reqSeq, up, down, disconnected, tab, mount, format, job>>
    BY <1>6 DEF ExportTimeout, Timeout, page
  <2>3. q \in pending
    BY <2>1
  <2> QED
    BY <2>1, <2>2, <2>3, SettleStep
<1>7. ASSUME NEW s \in Sockets, OnClose(s), UNCHANGED panel
      PROVE  ExportInv'
  <2>1. up' \in [Sockets -> Seq(Ids)] /\ down' \in [Sockets -> Seq(Ids \X {"data", "error"})]
    BY <1>7 DEF OnClose
  <2> QED
    BY <1>7, <2>1 DEF OnClose, queries, page, panel, Own
<1>8. ASSUME NEW s \in Sockets, ServerAnswer(s), UNCHANGED panel
      PROVE  ExportInv'
  <2>1. up[s] \in Seq(Ids) /\ up[s] # <<>>
    BY <1>8 DEF ServerAnswer
  <2>2. Head(up[s]) \in Ids /\ Tail(up[s]) \in Seq(Ids)
    BY <2>1
  <2>3. up' \in [Sockets -> Seq(Ids)]
    BY <1>8, <2>2 DEF ServerAnswer
  <2>4. PICK r \in {"data", "error"} :
           down' = [down EXCEPT ![s] = Append(@, <<Head(up[s]), r>>)]
    BY <1>8 DEF ServerAnswer
  <2>5. down' \in [Sockets -> Seq(Ids \X {"data", "error"})]
    BY <2>2, <2>4
  <2> QED
    BY <1>8, <2>3, <2>5 DEF ServerAnswer, queries, page, panel, Own
<1>9. CASE Disconnect /\ UNCHANGED panel
  BY <1>9 DEF Disconnect, panel, Own
<1> QED
  BY <1>1, <1>2, <1>3, <1>4, <1>5, <1>6, <1>7, <1>8, <1>9, ExportSteps

\* The buttons are disabled just while an export of the panel shown is pending, of which
\* there is one at most, and every pending query has its timeout armed.
THEOREM ButtonsFollowExport == PageSpec => []BusyIsTrue
<1>1. ExportInv => BusyIsTrue
  <2> SUFFICES ASSUME ExportInv PROVE BusyIsTrue
    OBVIOUS
  <2> DEFINE own == {q \in pending : job[q].mount = mount}
  <2>1. \A q \in Ids : q \in own <=> Own(q)
    BY DEF Own
  <2>2. own \subseteq Ids /\ \A q, r \in own : q = r
    BY <2>1 DEF ExportInv, ExportType
  <2>3. Cardinality(own) <= 1
    <3>1. CASE own = {}
      BY <3>1, FS_EmptySet
    <3>2. CASE own # {}
      <4>1. PICK q \in own : TRUE
        BY <3>2
      <4>2. own = {q}
        BY <2>2, <4>1
      <4> QED
        BY <4>2, FS_Singleton
    <3> QED
      BY <3>1, <3>2
  <2>4. ~disconnected /\ tab = "perf" => (busy <=> own # {})
    BY <2>1, <2>2 DEF ExportInv
  <2>5. ~disconnected => timers = pending /\ pending = {q \in Ids : result[q] = "waiting"}
    BY DEF ExportInv
  <2> QED
    BY <2>3, <2>4, <2>5 DEF BusyIsTrue
<1>2. PageInit => ExportInv
  BY ExportInit
<1>3. ExportInv /\ [PageNext]_pageVars => ExportInv'
  BY ExportStep
<1> QED
  BY <1>1, <1>2, <1>3, PTL DEF PageSpec

---------------------------------------------------------------------------
\* What a step of the page can do to the list and to what the server has under way.
LEMMA ListSteps ==
    ASSUME [PageNext]_pageVars
    PROVE  \/ UNCHANGED <<sock, packets, dropped, feed>>
           \/ PageOpen \/ PageConnect
           \/ UNCHANGED <<packets, dropped>> /\ Leave(Lost)
           \/ OnClear
           \/ Server
<1>1. CASE UNCHANGED <<sock, packets, dropped, feed>>
  BY <1>1
<1>2. CASE UNCHANGED pageVars \/ BannerTimeout \/ ClickBanner \/ ShowTab \/ OnFormatChange
           \/ ExportLocally
  BY <1>2 DEF pageVars, BannerTimeout, ClickBanner, ShowTab, OnFormatChange,
              ExportLocally, vars, connection, list
<1>3. CASE ToggleCapture \/ OnSelect
  BY <1>3 DEF ToggleCapture, OnSelect, vars, connection
<1>4. CASE OnExport
  BY <1>4 DEF OnExport, Query, vars, connection, list
<1>5. CASE ExportReply \/ \E q \in Ids : ExportTimeout(q)
  BY <1>5 DEF ExportReply, ExportTimeout, OnReply, Timeout, connection, list
<1>6. CASE PageQuiet \/ \E s \in Sockets : PageClose(s)
  BY <1>6 DEF PageQuiet, PageClose, list
<1> QED
  BY <1>2, <1>3, <1>4, <1>5, <1>6 DEF PageNext, Server

LEMMA FrameIsNat ==
    ASSUME packets \in Seq(Packet), NEW i \in 1..Len(packets)
    PROVE  packets[i].frame \in Nat
<1>1. packets[i] \in Packet
  OBVIOUS
<1> QED
  BY <1>1 DEF Packet

LEMMA ShownRows ==
    ASSUME packets \in Seq(Packet)
    PROVE  \A n : n \in Shown <=> \E i \in 1..Len(packets) : packets[i].frame = n
BY DEF Shown

LEMMA ListInit == PageInit => ListInv
<1> SUFFICES ASSUME PageInit PROVE ListInv
  OBVIOUS
<1>1. packets = <<>> /\ packets \in Seq(Packet) /\ Len(packets) = 0
  BY DEF PageInit
<1>2. FeedType /\ served = {}
  BY PageAssumption DEF PageInit, FeedInit, FeedType
<1> QED
  BY <1>1, <1>2 DEF ListInv

\* A packet is appended below the last row and the oldest row may give way.
LEMMA AppendStep ==
    ASSUME packets \in Seq(Packet), NEW pkt \in Packet, AppendPacket(pkt)
    PROVE  /\ packets' \in Seq(Packet) /\ Len(packets') \in 1..Len(packets) + 1
           /\ packets'[Len(packets')] = pkt
           /\ \E d \in {0, 1} :
                 /\ Len(packets') = Len(packets) + 1 - d
                 /\ \A i \in 1..Len(packets') - 1 :
                       i + d \in 1..Len(packets) /\ packets'[i] = packets[i + d]
                 /\ d = 1 => 1 \in 1..Len(packets) /\ GivesWay = {packets[1].frame}
<1>1. MaxPackets \in Nat /\ MaxPackets > 0
  BY PageAssumption
<1>2. CASE Len(packets) # MaxPackets
  <2>1. packets' = Append(packets, pkt)
    BY <1>2 DEF AppendPacket
  <2>2. Len(packets') = Len(packets) + 1 /\ \A i \in 1..Len(packets) : packets'[i] = packets[i]
    BY <2>1
  <2>3. packets'[Len(packets')] = pkt /\ packets' \in Seq(Packet)
    BY <2>1
  <2>4. \A i \in 1..Len(packets') - 1 :
           i + 0 \in 1..Len(packets) /\ packets'[i] = packets[i + 0]
    BY <2>2
  <2> QED
    BY <2>2, <2>3, <2>4
<1>3. CASE Len(packets) = MaxPackets
  <2>1. packets' = Append(Tail(packets), pkt) /\ packets # <<>>
    BY <1>1, <1>3 DEF AppendPacket
  <2>2. Tail(packets) \in Seq(Packet) /\ Len(Tail(packets)) = Len(packets) - 1
        /\ \A i \in 1..Len(packets) - 1 : Tail(packets)[i] = packets[i + 1]
    BY <2>1
  <2>3. Len(packets') = Len(packets)
        /\ \A i \in 1..Len(packets) - 1 : packets'[i] = packets[i + 1]
    BY <2>1, <2>2
  <2>4. packets'[Len(packets')] = pkt /\ packets' \in Seq(Packet)
    BY <2>1, <2>2
  <2>5. \A i \in 1..Len(packets') - 1 :
           i + 1 \in 1..Len(packets) /\ packets'[i] = packets[i + 1]
    BY <2>3
  <2>6. 1 \in 1..Len(packets) /\ GivesWay = {packets[1].frame}
    BY <1>1, <1>3, <2>1 DEF GivesWay
  <2> QED
    BY <2>3, <2>4, <2>5, <2>6
<1> QED
  BY <1>2, <1>3

\* What is shown after a packet is appended, and what is shown twice.
LEMMA AppendShown ==
    ASSUME packets \in Seq(Packet), NEW pkt \in Packet, AppendPacket(pkt)
    PROVE  /\ pkt.frame \in Shown' /\ Shown \subseteq Shown' \cup GivesWay
           /\ Shown' \subseteq Shown \cup {pkt.frame}
           /\ \A i, j \in 1..Len(packets') : packets'[i].frame = packets'[j].frame =>
                 \/ i = j
                 \/ packets'[i].frame = pkt.frame /\ pkt.frame \in Shown
                 \/ \E k, l \in 1..Len(packets) :
                       /\ k # l /\ packets[k].frame = packets[l].frame
                       /\ packets'[i].frame = packets[k].frame
<1>1. /\ packets' \in Seq(Packet) /\ Len(packets') \in 1..Len(packets) + 1
      /\ packets'[Len(packets')] = pkt
  BY AppendStep
<1>2. PICK d \in {0, 1} :
         /\ Len(packets') = Len(packets) + 1 - d
         /\ \A i \in 1..Len(packets') - 1 :
               i + d \in 1..Len(packets) /\ packets'[i] = packets[i + d]
         /\ d = 1 => 1 \in 1..Len(packets) /\ GivesWay = {packets[1].frame}
  BY AppendStep
<1>3. \A n : n \in Shown <=> \E i \in 1..Len(packets) : packets[i].frame = n
  BY ShownRows
<1>4. \A n : n \in Shown' <=> \E i \in 1..Len(packets') : packets'[i].frame = n
  BY <1>1 DEF Shown
<1>5. pkt.frame \in Shown'
  BY <1>1, <1>4
<1>6. ASSUME NEW n \in Shown PROVE n \in Shown' \cup GivesWay
  <2>1. PICK i \in 1..Len(packets) : packets[i].frame = n
    BY <1>3, <1>6
  <2>2. CASE d = 0
    <3>1. i \in 1..Len(packets') - 1 /\ i \in 1..Len(packets') /\ i + d = i
      BY <1>1, <1>2, <2>2
    <3> QED
      BY <1>2, <1>4, <2>1, <3>1
  <2>3. CASE d = 1 /\ i = 1
    BY <1>2, <2>1, <2>3
  <2>4. CASE d = 1 /\ i # 1
    <3>1. i - 1 \in 1..Len(packets') - 1 /\ i - 1 \in 1..Len(packets') /\ (i - 1) + d = i
      BY <1>1, <1>2, <2>4
    <3> QED
      BY <1>2, <1>4, <2>1, <3>1
  <2> QED
    BY <2>2, <2>3, <2>4
<1>7. ASSUME NEW i \in 1..Len(packets'), i # Len(packets')
      PROVE  i + d \in 1..Len(packets) /\ packets'[i] = packets[i + d]
  <2>1. i \in 1..Len(packets') - 1
    BY <1>1, <1>7
  <2> QED
    BY <1>2, <2>1
<1>8. ASSUME NEW n \in Shown' PROVE n \in Shown \cup {pkt.frame}
  <2>1. PICK i \in 1..Len(packets') : packets'[i].frame = n
    BY <1>4, <1>8
  <2> QED
    BY <1>1, <1>3, <1>7, <2>1
<1>9. ASSUME NEW i \in 1..Len(packets'), NEW j \in 1..Len(packets'),
             packets'[i].frame = packets'[j].frame, i # j
      PROVE  \/ packets'[i].frame = pkt.frame /\ pkt.frame \in Shown
             \/ \E k, l \in 1..Len(packets) :
                   /\ k # l /\ packets[k].frame = packets[l].frame
                   /\ packets'[i].frame = packets[k].frame
  <2>1. CASE i = Len(packets')
    BY <1>1, <1>3, <1>7, <1>9, <2>1
  <2>2. CASE j = Len(packets')
    BY <1>1, <1>3, <1>7, <1>9, <2>2
  <2>3. CASE i # Len(packets') /\ j # Len(packets')
    <3>1. i + d # j + d
      BY <1>2, <1>9
    <3> QED
      BY <1>7, <1>9, <2>3, <3>1
  <2> QED
    BY <2>1, <2>2, <2>3
<1> QED
  BY <1>5, <1>6, <1>8, <1>9

\* What is still coming after a delivery.
LEMMA DeliverStep ==
    ASSUME ListInv, NEW s \in Sockets, NEW n \in 1..recorded, Deliver(s, n)
    PROVE  /\ s \in served /\ FeedType'
           /\ UNCHANGED <<recorded, unsent, served, joined>>
           /\ \A t \in Sockets : t # s => backlog'[t] = backlog[t] /\ due'[t] = due[t]
           /\ \A m : Coming(s, m) => m = n \/ Coming(s, m)'
           /\ \A i \in 1..Len(backlog'[s]) : backlog'[s][i] <= joined[s]
           /\ due'[s] \subseteq due[s]
           /\ n > joined[s] => n \in due[s] /\ n \notin due'[s]
<1>0. /\ FeedType /\ s \in served /\ UNCHANGED <<recorded, unsent, served, joined>>
      /\ backlog[s] \in Seq(Nat) /\ \A i \in 1..Len(backlog[s]) : backlog[s][i] <= joined[s]
      /\ joined[s] \in Nat /\ due[s] \subseteq 1..recorded
  BY DEF Deliver, ListInv, FeedType
<1>1. CASE /\ backlog[s] # <<>> /\ n = Head(backlog[s])
           /\ backlog' = [backlog EXCEPT ![s] = Tail(@)] /\ UNCHANGED due
  <2>1. /\ Tail(backlog[s]) \in Seq(Nat) /\ Len(Tail(backlog[s])) = Len(backlog[s]) - 1
        /\ \A i \in 1..Len(backlog[s]) - 1 : Tail(backlog[s])[i] = backlog[s][i + 1]
        /\ n = backlog[s][1] /\ 1 \in 1..Len(backlog[s])
    BY <1>0, <1>1
  <2>2. backlog'[s] = Tail(backlog[s]) /\ \A t \in Sockets : t # s => backlog'[t] = backlog[t]
    BY <1>0, <1>1 DEF FeedType
  <2>3. FeedType'
    BY <1>0, <1>1, <2>1 DEF FeedType
  <2>4. n <= joined[s]
    BY <1>0, <2>1
  <2>5. \A i \in 1..Len(backlog[s]) : i = 1 \/ (i - 1 \in 1..Len(backlog[s]) - 1 /\ (i - 1) + 1 = i)
    BY <1>0
  <2>6. ASSUME NEW m, Coming(s, m), m # n PROVE Coming(s, m)'
    <3>1. CASE m \in unsent \/ m \in due[s]
      BY <1>0, <1>1, <3>1 DEF Coming
    <3>2. CASE \E i \in 1..Len(backlog[s]) : backlog[s][i] = m
      <4>1. PICK i \in 1..Len(backlog[s]) : backlog[s][i] = m
        BY <3>2
      <4>2. i - 1 \in 1..Len(backlog'[s]) /\ backlog'[s][i - 1] = m
        BY <2>1, <2>2, <2>5, <2>6, <4>1
      <4> QED
        BY <4>2 DEF Coming
    <3> QED
      BY <2>6, <3>1, <3>2 DEF Coming
  <2>7. \A i \in 1..Len(backlog'[s]) : backlog'[s][i] <= joined[s]
    <3>1. \A i \in 1..Len(backlog[s]) - 1 : i + 1 \in 1..Len(backlog[s])
      BY <1>0
    <3> QED
      BY <1>0, <2>1, <2>2, <3>1
  <2>8. ~(n > joined[s])
    BY <1>0, <2>4
  <2> QED
    BY <1>0, <1>1, <2>2, <2>3, <2>6, <2>7, <2>8
<1>2. CASE n \in due[s] /\ due' = [due EXCEPT ![s] = @ \ {n}] /\ UNCHANGED backlog
  <2>1. due'[s] = due[s] \ {n} /\ \A t \in Sockets : t # s => due'[t] = due[t]
    BY <1>0, <1>2 DEF FeedType
  <2>2. FeedType'
    BY <1>0, <1>2, <2>1 DEF FeedType
  <2>3. \A m : Coming(s, m) => m = n \/ Coming(s, m)'
    BY <1>0, <1>2, <2>1 DEF Coming
  <2> QED
    BY <1>0, <1>2, <2>1, <2>2, <2>3
<1> QED
  BY <1>1, <1>2 DEF Deliver

LEMMA ListStep ==
    ASSUME ConnInv, ListInv, drawn \in Nat, [PageNext]_pageVars
    PROVE  ListInv'
<1>0. /\ FeedType /\ packets \in Seq(Packet)
      /\ \A i \in 1..Len(packets) : packets[i].frame \in 1..recorded
      /\ recorded \in Nat /\ served \subseteq Sockets
      /\ sock \in [Sockets -> Live \cup {"none", "closed"}]
  BY DEF ListInv, FeedType, ConnInv, ConnType
<1>1. CASE UNCHANGED <<sock, packets, dropped, feed>>
  BY <1>1 DEF ListInv, FeedType, feed, Alive, Coming, Shown
<1>2. CASE PageOpen \/ PageConnect
  <2>1. UNCHANGED <<packets, dropped, feed>>
    BY <1>2 DEF PageOpen, PageConnect, list
  <2>2. \A s \in Sockets : Alive(s) => Alive(s)'
    BY <1>0, <1>2 DEF PageOpen, PageConnect, OnOpen, RetryConnect, Alive
  <2>3. Shown' = Shown /\ \A s, n : Coming(s, n)' <=> Coming(s, n)
    BY <2>1 DEF Shown, Coming, feed
  <2>4. FeedType'
    BY <1>0, <2>1 DEF FeedType, feed
  <2> QED
    BY <1>0, <2>1, <2>2, <2>3, <2>4 DEF ListInv, feed
<1>3. CASE UNCHANGED <<packets, dropped>> /\ Leave(Lost)
  <2>1. /\ served' = served \ Lost /\ UNCHANGED <<recorded, unsent>>
        /\ \A s \in Sockets : /\ joined'[s] = IF s \in Lost THEN 0 ELSE joined[s]
                              /\ backlog'[s] = IF s \in Lost THEN <<>> ELSE backlog[s]
                              /\ due'[s] = IF s \in Lost THEN {} ELSE due[s]
    BY <1>3 DEF Leave
  <2>2. FeedType'
    <3>1. backlog' \in [Sockets -> Seq(Nat)] /\ due' \in [Sockets -> SUBSET Nat]
          /\ joined' \in [Sockets -> Nat]
      BY <1>0, <1>3 DEF Leave, FeedType
    <3>2. ASSUME NEW s \in Sockets PROVE joined'[s] <= recorded /\ due'[s] \subseteq 1..recorded
      <4>1. 0 <= recorded /\ joined[s] <= recorded /\ due[s] \subseteq 1..recorded
        BY <1>0 DEF FeedType
      <4> QED
        BY <2>1, <4>1
    <3> QED
      BY <1>0, <2>1, <3>1, <3>2 DEF FeedType
  <2>3. \A s \in served' : /\ s \in served /\ s \in Sockets /\ Alive(s)' /\ joined'[s] = joined[s]
                           /\ backlog'[s] = backlog[s] /\ due'[s] = due[s]
    BY <1>0, <2>1 DEF Lost, Alive
  <2>4. Shown' = Shown
    BY <1>3 DEF Shown
  <2>5. \A s \in served' : \A n : Coming(s, n)' <=> Coming(s, n)
    BY <2>1, <2>3 DEF Coming
  <2> QED
    BY <1>0, <1>3, <2>1, <2>2, <2>3, <2>4, <2>5 DEF ListInv
<1>4. CASE OnClear
  <2>1. packets' = <<>> /\ dropped' = dropped \cup Shown /\ UNCHANGED <<sock, feed>>
    BY <1>4 DEF OnClear, vars, connection
  <2>2. packets' \in Seq(Packet) /\ Len(packets') = 0 /\ Shown' = {}
    BY <2>1 DEF Shown
  <2>3. \A s \in served : \A n : Coming(s, n)' <=> Coming(s, n)
    BY <2>1 DEF Coming, feed
  <2>4. \A s \in served : Alive(s)'
    BY <2>1 DEF Alive, ListInv
  <2> QED
    BY <1>0, <2>1, <2>2, <2>3, <2>4 DEF ListInv, FeedType, feed
<1>5. CASE ServerRecord
  <2>1. /\ recorded' = recorded + 1 /\ unsent' = unsent \cup {recorded + 1}
        /\ recorded < MaxFrames
        /\ UNCHANGED <<sock, packets, dropped, served, joined, backlog, due>>
    BY <1>5 DEF ServerRecord, Record, vars, connection, list
  <2>2. FeedType'
    <3>1. recorded' \in 0..MaxFrames /\ unsent' \subseteq 1..recorded'
      <4>1. /\ recorded \in Nat /\ MaxFrames \in Nat /\ unsent \subseteq 1..recorded
            /\ recorded' = recorded + 1 /\ unsent' = unsent \cup {recorded + 1}
            /\ recorded < MaxFrames
        BY <1>0, <2>1, PageAssumption DEF FeedType
      <4>2. recorded' \in 0..MaxFrames
        BY <4>1
      <4> QED
        BY <4>1, <4>2
    <3>2. \A s \in Sockets : joined[s] <= recorded' /\ due[s] \subseteq 1..recorded'
      BY <1>0, <2>1 DEF FeedType
    <3> QED
      BY <1>0, <2>1, <3>1, <3>2 DEF FeedType
  <2>3. Shown' = Shown /\ \A n \in Shown : n # recorded + 1
    BY <1>0, <2>1 DEF Shown
  <2>4. \A s \in served : \A n : n = recorded + 1 \/ Coming(s, n) => Coming(s, n)'
    BY <2>1 DEF Coming
  <2>5. \A s \in served : Alive(s)'
    BY <2>1 DEF Alive, ListInv
  <2>6. \A s \in served : recorded + 1 \notin due[s]
    BY <1>0 DEF FeedType
  <2>7. \A n \in 1..recorded' : n = recorded + 1 \/ n \in 1..recorded
    BY <1>0, <2>1
  <2>8. \A i \in 1..Len(packets) : packets'[i].frame \in 1..recorded'
    BY <1>0, <2>1
  <2>9. ASSUME NEW s \in served
        PROVE  \A n \in 1..recorded' : n > joined[s] - Backfill =>
                                          n \in Shown \cup dropped \/ Coming(s, n)'
    BY <2>4, <2>7 DEF ListInv
  <2>10. ASSUME NEW s \in served
         PROVE  \A n \in 1..recorded' : n > joined[s] =>
                   /\ n \in unsent' => n \notin due[s]
                   /\ n \in Shown => n \notin unsent' \cup due[s]
    BY <2>1, <2>3, <2>6, <2>7 DEF ListInv
  <2> QED
    BY <1>0, <2>1, <2>2, <2>3, <2>5, <2>8, <2>9, <2>10 DEF ListInv
<1>6. CASE ServerBroadcast
  <2>1. PICK n \in unsent : Broadcast(n)
    BY <1>6 DEF ServerBroadcast
  <2>2. /\ unsent' = unsent \ {n} /\ n \in 1..recorded
        /\ \A s \in Sockets : due'[s] = IF s \in served THEN due[s] \cup {n} ELSE due[s]
        /\ UNCHANGED <<sock, packets, dropped, recorded, served, joined, backlog>>
    BY <1>0, <1>6, <2>1 DEF ServerBroadcast, Broadcast, FeedType, vars, connection, list
  <2>3. FeedType'
    <3>1. due' \in [Sockets -> SUBSET Nat]
      BY <1>0, <2>1, <2>2 DEF Broadcast, FeedType
    <3> QED
      BY <1>0, <2>2, <3>1 DEF FeedType
  <2>4. Shown' = Shown
    BY <2>2 DEF Shown
  <2>5. \A s \in served : \A m : Coming(s, m) => Coming(s, m)'
    BY <1>0, <2>2 DEF Coming
  <2>6. \A s \in served : Alive(s)'
    BY <2>2 DEF Alive, ListInv
  <2> QED
    BY <1>0, <2>2, <2>3, <2>4, <2>5, <2>6 DEF ListInv
<1>7. ASSUME NEW s \in Sockets, ServerAccept(s)
      PROVE  ListInv'
  <2>1. /\ Alive(s) /\ s \notin served /\ served' = served \cup {s}
        /\ joined' = [joined EXCEPT ![s] = recorded] /\ backlog' = [backlog EXCEPT ![s] = Recent]
        /\ UNCHANGED <<sock, packets, recorded, unsent, due>>
    BY <1>7 DEF ServerAccept, Accept, Alive, vars, connection
  <2>2. served' = {s}
    <3>1. \A t \in Sockets : Alive(t) => t = ws
      BY DEF Alive, ConnInv, Live
    <3>2. served \subseteq {s}
      BY <1>0, <2>1, <3>1 DEF ListInv
    <3> QED
      BY <2>1, <3>2
  <2> DEFINE first == IF recorded > Backfill THEN recorded - Backfill ELSE 0
  <2>3. first \in Nat /\ first <= recorded /\ first + Backfill >= recorded
    BY <1>0, PageAssumption
  <2>4. Recent = [i \in 1..recorded - first |-> first + i]
    BY DEF Recent
  <2>e. joined'[s] = recorded /\ backlog'[s] = Recent
    BY <1>0, <2>1 DEF FeedType
  <2> HIDE DEF first
  <2>5. Recent \in Seq(Nat) /\ Len(Recent) = recorded - first
        /\ \A i \in 1..recorded - first : Recent[i] = first + i
    BY <1>0, <2>3, <2>4
  <2>6. FeedType'
    <3>1. joined' \in [Sockets -> Nat] /\ backlog' \in [Sockets -> Seq(Nat)]
          /\ \A t \in Sockets : joined'[t] <= recorded
      BY <1>0, <2>1, <2>5 DEF FeedType
    <3> QED
      BY <1>0, <2>1, <3>1 DEF FeedType
  <2>7. \A i \in 1..Len(backlog'[s]) : backlog'[s][i] <= joined'[s]
    BY <1>0, <2>e, <2>3, <2>5
  <2>8. ASSUME NEW n \in 1..recorded, n > joined'[s] - Backfill
        PROVE  Coming(s, n)'
    <3>1. n > first \/ first = 0
      BY <1>0, <2>e, <2>8, PageAssumption DEF first
    <3>2. n - first \in 1..recorded - first /\ first + (n - first) = n
      BY <1>0, <2>3, <3>1
    <3>3. n - first \in 1..Len(backlog'[s]) /\ backlog'[s][n - first] = n
      BY <2>e, <2>5, <3>2
    <3> QED
      BY <3>3 DEF Coming
  <2>9. \A n \in 1..recorded : ~(n > joined'[s])
    BY <1>0, <2>e
  <2>10. Alive(s)'
    BY <2>1 DEF Alive
  <2> QED
    BY <1>0, <2>1, <2>2, <2>6, <2>7, <2>8, <2>9, <2>10 DEF ListInv
<1>8. ASSUME NEW s \in Sockets, NEW n \in 1..recorded, OnFrame(s, n)
      PROVE  ListInv'
  <2>1. /\ s \in served /\ FeedType'
        /\ UNCHANGED <<sock, recorded, unsent, served, joined>>
        /\ \A m : Coming(s, m) => m = n \/ Coming(s, m)'
        /\ \A i \in 1..Len(backlog'[s]) : backlog'[s][i] <= joined[s]
        /\ due'[s] \subseteq due[s]
        /\ n > joined[s] => n \in due[s] /\ n \notin due'[s]
    BY <1>8, DeliverStep DEF OnFrame, vars, connection
  <2>2. served = {s} /\ served' = {s}
    <3>1. \A t \in Sockets : Alive(t) => t = ws
      BY DEF Alive, ConnInv, Live
    <3> QED
      BY <1>0, <2>1, <3>1 DEF ListInv
  <2>3. Alive(s)'
    BY <2>1 DEF Alive, ListInv
  <2>4. CASE ~(capturing /\ ~disconnected)
    <3>1. packets' = packets /\ dropped' = dropped \cup {n} /\ Shown' = Shown
      BY <1>8, <2>4 DEF OnFrame, Shown
    <3> QED
      BY <1>0, <2>1, <2>2, <2>3, <3>1 DEF ListInv
  <2>5. CASE capturing /\ ~disconnected
    <3> DEFINE pkt == [frame |-> n, id |-> IdOf(n)]
    <3>1. AppendPacket(pkt) /\ dropped' = (dropped \cup GivesWay) \ {n}
      BY <1>8, <2>5 DEF OnFrame
    <3>2. pkt \in Packet /\ pkt.frame = n
      <4>1. IdOf(n) \in Nat \X Nat
        <5>1. n \in 1..MaxFrames /\ drawn \in Nat
          BY <1>0, PageAssumption DEF FeedType
        <5> QED
          BY <5>1, PageAssumption DEF IdOf
      <4> QED
        BY <4>1 DEF Packet
    <3> HIDE DEF pkt
    <3>3. /\ n \in Shown' /\ Shown \subseteq Shown' \cup GivesWay
          /\ Shown' \subseteq Shown \cup {n}
          /\ \A i, j \in 1..Len(packets') : packets'[i].frame = packets'[j].frame =>
                \/ i = j
                \/ packets'[i].frame = n /\ n \in Shown
                \/ \E k, l \in 1..Len(packets) :
                      /\ k # l /\ packets[k].frame = packets[l].frame
                      /\ packets'[i].frame = packets[k].frame
      BY <1>0, <3>1, <3>2, AppendShown
    <3>4. packets' \in Seq(Packet)
      BY <1>0, <3>1, <3>2, AppendStep
    <3>5. \A i \in 1..Len(packets') : packets'[i].frame \in 1..recorded'
      <4>1. \A m \in Shown : m \in 1..recorded
        BY <1>0 DEF Shown
      <4>2. \A i \in 1..Len(packets') : packets'[i].frame \in Shown'
        BY <3>4 DEF Shown
      <4> QED
        BY <2>1, <3>3, <4>1, <4>2
    <3>6. ASSUME NEW m \in 1..recorded, m > joined[s] - Backfill
          PROVE  m \in Shown' \cup dropped' \/ Coming(s, m)'
      <4>1. m \in Shown \cup dropped \/ Coming(s, m)
        BY <2>1, <3>6 DEF ListInv
      <4> QED
        BY <2>1, <3>1, <3>3, <4>1
    <3>7. ASSUME NEW m \in 1..recorded, m > joined[s]
          PROVE  /\ m \in unsent => m \notin due'[s]
                 /\ m \in Shown' => m \notin unsent \cup due'[s]
      <4>1. /\ m \in unsent => m \notin due[s]
            /\ m \in Shown => m \notin unsent \cup due[s]
        BY <2>1, <3>7 DEF ListInv
      <4> QED
        BY <2>1, <3>3, <3>7, <4>1
    <3>8. ASSUME NEW i \in 1..Len(packets'), NEW j \in 1..Len(packets'),
                 packets'[i].frame = packets'[j].frame, packets'[i].frame > joined[s], i # j
          PROVE  FALSE
      <4>1. CASE packets'[i].frame = n /\ n \in Shown
        <5>1. n \in due[s]
          BY <2>1, <3>8, <4>1
        <5> QED
          BY <2>1, <3>8, <4>1, <5>1 DEF ListInv
      <4>2. ASSUME NEW k \in 1..Len(packets), NEW l \in 1..Len(packets),
                   k # l, packets[k].frame = packets[l].frame,
                   packets'[i].frame = packets[k].frame
            PROVE  FALSE
        BY <2>1, <3>8, <4>2 DEF ListInv
      <4> QED
        BY <3>3, <3>8, <4>1, <4>2
    <3> QED
      BY <2>1, <2>2, <2>3, <3>4, <3>5, <3>6, <3>7, <3>8 DEF ListInv
  <2> QED
    BY <2>4, <2>5
<1> QED
  BY <1>1, <1>2, <1>3, <1>4, <1>5, <1>6, <1>7, <1>8, ListSteps DEF Server

---------------------------------------------------------------------------
\* What a step of the page can do to the selection.
LEMMA SelectionSteps ==
    ASSUME [PageNext]_pageVars
    PROVE  \/ UNCHANGED <<packets, selectedId, chosen, drawn>>
           \/ \E s \in Sockets, n \in 1..recorded : OnFrame(s, n)
           \/ OnSelect \/ OnClear
<1>1. CASE UNCHANGED list
  BY <1>1 DEF list
<1>2. CASE UNCHANGED pageVars \/ BannerTimeout \/ ClickBanner \/ ShowTab \/ OnFormatChange
           \/ ExportLocally \/ OnExport \/ ExportReply \/ PageConnect \/ PageOpen
           \/ PageQuiet \/ ServerRecord \/ ServerBroadcast
           \/ (\E q \in Ids : ExportTimeout(q)) \/ (\E s \in Sockets : PageClose(s))
  BY <1>1, <1>2 DEF pageVars, BannerTimeout, ClickBanner, ShowTab, OnFormatChange,
                    ExportLocally, OnExport, ExportReply, PageConnect, PageOpen, PageQuiet,
                    ServerRecord, ServerBroadcast, ExportTimeout, PageClose
<1>3. CASE ToggleCapture \/ \E s \in Sockets : ServerAccept(s)
  BY <1>3 DEF ToggleCapture, ServerAccept
<1> QED
  BY <1>2, <1>3 DEF PageNext

LEMMA ChosenInit == PageInit => ChosenInv
<1> SUFFICES ASSUME PageInit PROVE ChosenInv
  OBVIOUS
<1>1. packets = <<>> /\ Len(packets) = 0 /\ chosen = 0 /\ drawn = 0 /\ selectedId = <<0, 0>>
  BY DEF PageInit, NoId
<1> QED
  BY <1>1 DEF ChosenInv

LEMMA ChosenStep ==
    ASSUME ListInv, ChosenInv, [PageNext]_pageVars
    PROVE  ChosenInv'
<1>0. /\ packets \in Seq(Packet) /\ drawn \in Nat /\ selectedId \in Nat \X Nat
      /\ \A i \in 1..Len(packets) : Named(packets[i], drawn)
      /\ \A i, j \in 1..Len(packets) : SameDraw(packets[i], packets[j])
      /\ chosen # 0 => /\ Named(Choice, drawn)
                       /\ \A i \in 1..Len(packets) : SameDraw(packets[i], Choice)
  BY DEF ListInv, ChosenInv
<1>1. CASE UNCHANGED <<packets, selectedId, chosen, drawn>>
  BY <1>0, <1>1 DEF ChosenInv, Named, Choice, SameDraw
<1>2. ASSUME NEW s \in Sockets, NEW n \in 1..recorded, OnFrame(s, n)
      PROVE  ChosenInv'
  <2>1. UNCHANGED <<selectedId, chosen>>
    BY <1>2 DEF OnFrame
  <2>2. CASE ~(capturing /\ ~disconnected)
    BY <1>1, <1>2, <2>1, <2>2 DEF OnFrame
  <2>3. CASE capturing /\ ~disconnected
    <3> DEFINE pkt == [frame |-> n, id |-> IdOf(n)]
    <3>1. /\ AppendPacket(pkt)
          /\ drawn' = IF Identity[n] = 0 THEN drawn + 1 ELSE drawn
      BY <1>2, <2>3 DEF OnFrame
    <3>2. n \in 1..MaxFrames /\ Identity[n] \in Nat
      <4>1. n \in 1..MaxFrames
        BY PageAssumption DEF ListInv, FeedType
      <4> QED
        BY <4>1, PageAssumption
    <3>3. /\ Identity[n] # 0 => IdOf(n) = <<Identity[n], 0>>
          /\ Identity[n] = 0 => IdOf(n) = <<0, drawn + 1>>
      BY DEF IdOf
    <3>4. pkt \in Packet /\ pkt.frame = n /\ pkt.id = IdOf(n)
      BY <1>0, <3>2, <3>3 DEF Packet
    <3>5. drawn' \in Nat /\ drawn' >= drawn
      BY <1>0, <3>1
    <3> HIDE DEF pkt
    <3>6. Named(pkt, drawn')
      BY <1>0, <3>1, <3>2, <3>3, <3>4 DEF Named
    <3>7. \A p : Named(p, drawn) => Named(p, drawn')
      BY <1>0, <3>5 DEF Named
    <3>8. \A p : Named(p, drawn) /\ p.id = pkt.id => p.id[1] # 0
      <4> SUFFICES ASSUME NEW p, Named(p, drawn), p.id = pkt.id, p.id[1] = 0 PROVE FALSE
        OBVIOUS
      <4>1. CASE Identity[n] # 0
        BY <3>3, <3>4, <4>1
      <4>2. CASE Identity[n] = 0
        <5>1. p.id[2] = drawn + 1
          BY <3>3, <3>4, <4>2
        <5>2. Identity[p.frame] # 0 \/ p.id[2] \in 1..drawn
          BY DEF Named
        <5>3. Identity[p.frame] = 0
          BY DEF Named
        <5> QED
          BY <1>0, <5>1, <5>2, <5>3
      <4> QED
        BY <4>1, <4>2
    <3>9. /\ packets' \in Seq(Packet) /\ Len(packets') \in 1..Len(packets) + 1
          /\ packets'[Len(packets')] = pkt
      BY <1>0, <3>1, <3>4, AppendStep
    <3>10. \A i \in 1..Len(packets') : packets'[i] = pkt
              \/ \E j \in 1..Len(packets) : packets'[i] = packets[j]
      <4>1. \A i \in 1..Len(packets') - 1 : \E j \in 1..Len(packets) : packets'[i] = packets[j]
        BY <1>0, <3>1, <3>4, AppendStep
      <4>2. \A i \in 1..Len(packets') : i = Len(packets') \/ i \in 1..Len(packets') - 1
        BY <3>9
      <4> QED
        BY <3>9, <4>1, <4>2
    <3>11. \A i \in 1..Len(packets') : Named(packets'[i], drawn')
      BY <1>0, <3>6, <3>7, <3>10
    <3>12. ASSUME NEW i \in 1..Len(packets'), NEW j \in 1..Len(packets')
           PROVE  SameDraw(packets'[i], packets'[j])
      <4>1. CASE packets'[i] = pkt
        BY <1>0, <3>8, <3>10, <4>1 DEF SameDraw
      <4>2. CASE packets'[j] = pkt
        BY <1>0, <3>8, <3>10, <4>2 DEF SameDraw
      <4>3. CASE packets'[i] # pkt /\ packets'[j] # pkt
        BY <1>0, <3>10, <4>3
      <4> QED
        BY <4>1, <4>2, <4>3
    <3>13. Choice' = Choice
      BY <2>1 DEF Choice
    <3>14. chosen # 0 => \A i \in 1..Len(packets') : SameDraw(packets'[i], Choice)
      BY <1>0, <3>8, <3>10 DEF SameDraw
    <3>15. chosen # 0 => Named(Choice, drawn')
      <4> SUFFICES ASSUME chosen # 0 PROVE Named(Choice, drawn')
        OBVIOUS
      <4>1. Choice.frame = chosen /\ Choice.id = selectedId /\ Named(Choice, drawn)
        BY <1>0 DEF Choice
      <4> QED
        BY <1>0, <3>7, <4>1
    <3> QED
      BY <1>0, <2>1, <3>5, <3>11, <3>12, <3>13, <3>14, <3>15 DEF ChosenInv, SameDraw
  <2> QED
    BY <2>2, <2>3
<1>3. CASE OnSelect
  <2>1. PICK i \in DOMAIN packets :
           selectedId' = packets[i].id /\ chosen' = packets[i].frame
    BY <1>3 DEF OnSelect
  <2>2. i \in 1..Len(packets) /\ packets[i] \in Packet
    BY <1>0, <2>1
  <2>3. UNCHANGED <<packets, drawn>>
    BY <1>3 DEF OnSelect
  <2>4. Choice' = packets[i]
    BY <2>1, <2>2 DEF Choice, Packet
  <2>5. selectedId' \in Nat \X Nat
    BY <2>1, <2>2 DEF Packet
  <2> QED
    BY <1>0, <2>2, <2>3, <2>4, <2>5 DEF ChosenInv, Named, SameDraw
<1>4. CASE OnClear
  <2>1. packets' = <<>> /\ Len(packets') = 0 /\ chosen' = 0 /\ drawn' = drawn
        /\ selectedId' = <<0, 0>>
    BY <1>4 DEF OnClear, NoId
  <2> QED
    BY <1>0, <2>1 DEF ChosenInv
<1> QED
  BY <1>1, <1>2, <1>3, <1>4, SelectionSteps

\* Once a connection has brought all that is on its way, the list lacks no frame of its
\* backfill or since that the cap or the user did not take, and it repeats none recorded
\* since the connection was accepted.
THEOREM NoGap == PageSpec => []ListHasNoGap
<1>1. ListInv => ListHasNoGap
  <2> SUFFICES ASSUME ListInv, NEW s \in served
               PROVE  /\ unsent = {} /\ due[s] = {} /\ backlog[s] = <<>> =>
                            \A n \in 1..recorded :
                               n > joined[s] - Backfill => n \in Shown \cup dropped
                      /\ \A i, j \in DOMAIN packets :
                            packets[i].frame = packets[j].frame
                               /\ packets[i].frame > joined[s] => i = j
    BY DEF ListHasNoGap
  <2>1. unsent = {} /\ due[s] = {} /\ backlog[s] = <<>> => \A n : ~Coming(s, n)
    BY DEF Coming
  <2>2. DOMAIN packets = 1..Len(packets)
    BY DEF ListInv
  <2> QED
    BY <2>1, <2>2 DEF ListInv
<1>2. PageInit => ConnInv /\ ListInv /\ ChosenInv
  BY ConnInit, ListInit, ChosenInit
<1>3. ConnInv /\ ListInv /\ ChosenInv /\ [PageNext]_pageVars
         => (ConnInv /\ ListInv /\ ChosenInv)'
  BY ConnStep, ListStep, ChosenStep DEF ChosenInv
<1> QED
  BY <1>1, <1>2, <1>3, PTL DEF PageSpec

\* The first row with an id is a row with the id.
LEMMA FirstRow ==
    ASSUME NEW S, S \subseteq Nat, S # {}
    PROVE  Min(S) \in S
<1> DEFINE R == {p \in Nat \X Nat : p[1] < p[2]}
<1>1. \E m \in S : \A j \in S : <<j, m>> \notin R
  <2>1. IsWellFoundedOn(R, Nat)
    BY NatLessThanWellFounded DEF OpToRel
  <2> HIDE DEF R
  <2> QED
    BY <2>1, WFMin
<1>2. PICK m \in S : \A j \in S : <<j, m>> \notin R
  BY <1>1
<1>3. ASSUME NEW j \in S PROVE m <= j
  <2>1. m \in Nat /\ j \in Nat
    OBVIOUS
  <2>2. ~(j < m)
    BY <1>2, <2>1
  <2> QED
    BY <2>1, <2>2
<1> QED
  BY <1>3 DEF Min

\* The packet the inspector shows is the one the user chose, or one the page's id does not
\* tell from it, for as long as its frame is in the list, though the row chosen was
\* evicted and the server sent the frame again.
THEOREM ChosenIsShown == PageSpec => []InspectedIsChosen
<1>1. ListInv /\ ChosenInv => InspectedIsChosen
  <2> SUFFICES ASSUME ListInv, ChosenInv,
                      NEW r \in DOMAIN packets, packets[r].frame = chosen,
                      Identity[chosen] # 0
                         \/ \E i \in DOMAIN packets :
                               packets[i].frame = chosen /\ packets[i].id = selectedId
               PROVE  \/ Inspected.frame = chosen
                      \/ /\ Identity[chosen] # 0
                         /\ Identity[Inspected.frame] = Identity[chosen]
    BY DEF InspectedIsChosen
  <2>1. DOMAIN packets = 1..Len(packets)
    BY DEF ListInv
  <2>2. /\ chosen # 0 /\ Choice.frame = chosen /\ Choice.id = selectedId
        /\ Named(packets[r], drawn) /\ Named(Choice, drawn)
    <3>1. Named(packets[r], drawn)
      BY <2>1 DEF ChosenInv
    <3>2. chosen # 0
      BY <3>1 DEF Named
    <3> QED
      BY <3>1, <3>2 DEF Choice, ChosenInv
  <2> DEFINE same == {i \in DOMAIN packets : packets[i].id = selectedId}
  <2>3. same # {}
    <3>1. CASE Identity[chosen] # 0
      BY <2>2, <3>1 DEF Named
    <3>2. CASE Identity[chosen] = 0
      BY <3>2
    <3> QED
      BY <3>1, <3>2
  <2>4. same \subseteq Nat
    BY <2>1
  <2>5. Min(same) \in same
    <3> HIDE DEF same
    <3> QED
      BY <2>3, <2>4, FirstRow
  <2>6. Inspected = packets[Min(same)]
    BY <2>3 DEF Inspected
  <2>7. PICK m \in 1..Len(packets) : packets[m].id = selectedId /\ Inspected = packets[m]
    BY <2>1, <2>5, <2>6
  <2>8. Named(packets[m], drawn) /\ SameDraw(packets[m], Choice)
    BY <2>2, <2>7 DEF ChosenInv
  <2> HIDE DEF same
  <2>9. CASE Identity[chosen] = 0
    <3>1. selectedId[1] = 0
      BY <2>2, <2>9 DEF Named
    <3> QED
      BY <2>2, <2>7, <2>8, <3>1 DEF SameDraw
  <2>10. CASE Identity[chosen] # 0
    <3>1. selectedId = <<Identity[chosen], 0>>
      BY <2>2, <2>10 DEF Named
    <3>2. Identity[packets[m].frame] # 0
      BY <2>7, <2>8, <2>10, <3>1 DEF Named
    <3>3. packets[m].id = <<Identity[packets[m].frame], 0>>
      BY <2>8, <3>2 DEF Named
    <3> QED
      BY <2>7, <2>10, <3>1, <3>3
  <2> QED
    BY <2>9, <2>10
<1>2. PageInit => ConnInv /\ ListInv /\ ChosenInv
  BY ConnInit, ListInit, ChosenInit
<1>3. ConnInv /\ ListInv /\ ChosenInv /\ [PageNext]_pageVars
         => (ConnInv /\ ListInv /\ ChosenInv)'
  BY ConnStep, ListStep, ChosenStep DEF ChosenInv
<1> QED
  BY <1>1, <1>2, <1>3, PTL DEF PageSpec

---------------------------------------------------------------------------
\* What a step of the page can do to the downloads.
downloads == <<files, xlsxLoaded, calls, result, reqSeq, job>>

LEMMA DownloadSteps ==
    ASSUME timers = pending, [PageNext]_pageVars
    PROVE  \/ UNCHANGED downloads /\ pending' \subseteq pending
           \/ ExportLocally
           \/ OnExport /\ Query /\ UNCHANGED files
              /\ job' = [job EXCEPT ![reqSeq] = [mount |-> mount, format |-> format]]
           \/ \E q \in pending : \E r :
                 Settle(q, r) /\ Ended(q) /\ UNCHANGED <<reqSeq, job, xlsxLoaded>>
<1> USE DEF downloads
<1>1. CASE UNCHANGED <<panel, queries>>
  BY <1>1 DEF panel, queries
<1>2. CASE UNCHANGED pageVars \/ Server \/ ToggleCapture \/ OnSelect \/ OnClear
           \/ BannerTimeout \/ ClickBanner
  BY <1>1, <1>2 DEF pageVars, Server, ServerRecord, ServerBroadcast, ServerAccept, OnFrame, ToggleCapture, OnSelect, OnClear,
                    BannerTimeout, ClickBanner, vars
<1>3. CASE PageConnect \/ PageOpen \/ \E s \in Sockets : PageClose(s)
  BY <1>1, <1>3 DEF PageConnect, PageOpen, PageClose, RetryConnect, OnOpen, OnClose
<1>4. CASE PageQuiet
  <2>1. CASE Disconnect
    BY <1>4, <2>1 DEF PageQuiet, Disconnect, panel
  <2>2. CASE RetryRefused \/ \E s \in Sockets : Closing(s) \/ ServerAnswer(s)
    BY <1>1, <1>4, <2>2 DEF PageQuiet, RetryRefused, Closing, ServerAnswer
  <2> QED
    BY <1>4, <2>1, <2>2 DEF PageQuiet
<1>5. CASE ShowTab \/ OnFormatChange
  BY <1>5 DEF ShowTab, OnFormatChange, vars, queries
<1>6. CASE OnExport
  BY <1>6 DEF OnExport, vars, queries
<1>7. CASE ExportReply
  <2>1. PICK s \in Sockets : OnReply(s)
    BY <1>7 DEF ExportReply
  <2>2. UNCHANGED <<reqSeq, job, xlsxLoaded>>
    BY <1>7, <2>1 DEF ExportReply, OnReply
  <2> DEFINE reply == Head(down[s])
  <2>3. CASE reply[1] \in pending
    <3>1. Settle(reply[1], reply[2]) /\ pending' # pending /\ pending' = pending \ {reply[1]}
      BY <2>1, <2>3 DEF OnReply, Settle
    <3>2. PICK q \in pending \ pending' : Ended(q)
      BY <1>7, <3>1 DEF ExportReply
    <3>3. q = reply[1]
      BY <3>1, <3>2
    <3> QED
      BY <2>2, <2>3, <3>1, <3>2, <3>3
  <2>4. CASE reply[1] \notin pending
    BY <1>7, <2>1, <2>2, <2>4 DEF OnReply, ExportReply
  <2> QED
    BY <2>3, <2>4
<1>8. CASE \E q \in Ids : ExportTimeout(q)
  BY <1>8 DEF ExportTimeout, Timeout
<1> QED
  BY <1>2, <1>3, <1>4, <1>5, <1>6, <1>7, <1>8 DEF PageNext, Server

File == [query : Nat, format : {"csv", "xlsx"}]

LEMMA FilesAppended ==
    ASSUME files \in Seq(File), NEW d \in File, files' = Append(files, d)
    PROVE  /\ files' \in Seq(File)
           /\ \A i, q : FileOf(i, q)' <=> FileOf(i, q) \/ (i = Len(files) + 1 /\ d.query = q)
           /\ \A i \in 1..Len(files) : files'[i] = files[i]
           /\ files'[Len(files) + 1] = d /\ Len(files) + 1 \notin 1..Len(files)
<1>1. /\ files' \in Seq(File) /\ Len(files') = Len(files) + 1 /\ Len(files) \in Nat
      /\ \A i \in 1..Len(files) : files'[i] = files[i]
      /\ files'[Len(files) + 1] = d
  OBVIOUS
<1>2. 1..Len(files') = 1..Len(files) \cup {Len(files) + 1} /\ Len(files) + 1 \notin 1..Len(files)
  BY <1>1
<1> QED
  BY <1>1, <1>2 DEF FileOf

\* FilesInv with its quantifiers over all numbers.
LEMMA FilesFacts ==
    ASSUME FilesInv
    PROVE  /\ \A q \in Ids : \A i : FileOf(i, q) => Exported(q) /\ files[i].format = job[q].format
           /\ \A q \in Ids : \A i, j : FileOf(i, q) /\ FileOf(j, q) => i = j
           /\ \A q \in Ids : Exported(q) => \E i : FileOf(i, q)
BY DEF FilesInv, FileOf

LEMMA FilesInit == PageInit => FilesInv
<1> SUFFICES ASSUME PageInit PROVE FilesInv
  OBVIOUS
<1>1. /\ files = <<>> /\ calls = [q \in Ids |-> 0] /\ pending = {}
      /\ result = [q \in Ids |-> "unsent"]
  BY DEF PageInit, Init
<1>2. \A q \in Ids : calls[q] = 0 /\ result[q] # "data"
  BY <1>1
<1>3. files \in Seq([query : Nat, format : {"csv", "xlsx"}]) /\ Len(files) = 0
      /\ calls \in [Ids -> Nat]
  BY <1>1
<1> QED
  BY <1>1, <1>2, <1>3 DEF FilesInv, Exported

LEMMA FilesStep ==
    ASSUME ExportInv, FilesInv, [PageNext]_pageVars
    PROVE  FilesInv'
<1>0. /\ ExportType /\ timers = pending /\ files \in Seq(File) /\ calls \in [Ids -> Nat]
      /\ \A q \in Ids : q >= reqSeq => q \notin pending /\ result[q] = "unsent"
  BY DEF ExportInv, FilesInv, File
<1>1. CASE UNCHANGED downloads /\ pending' \subseteq pending
  BY <1>1 DEF downloads, FilesInv, FileOf, Exported, Writable
<1>2. CASE ExportLocally
  <2>1. UNCHANGED <<calls, result, reqSeq, job, xlsxLoaded, pending>>
    BY <1>2 DEF ExportLocally, vars, queries
  <2>2. CASE files' = files
    BY <2>1, <2>2 DEF FilesInv, FileOf, Exported, Writable
  <2>3. CASE files' = Append(files, [query |-> 0, format |-> format])
    <3> DEFINE d == [query |-> 0, format |-> format]
    <3>1. d \in File /\ d.query \notin Ids
      BY <1>0 DEF ExportType, File, Ids
    <3> HIDE DEF d
    <3>2. files' = Append(files, d)
      BY <2>3 DEF d
    <3>3. /\ files' \in Seq(File)
          /\ \A i, q : FileOf(i, q)' <=> FileOf(i, q) \/ (i = Len(files) + 1 /\ d.query = q)
          /\ \A i \in 1..Len(files) : files'[i] = files[i]
      BY <1>0, <3>1, <3>2, FilesAppended
    <3>4. \A q \in Ids : \A i : FileOf(i, q)' <=> FileOf(i, q)
      BY <3>1, <3>3
    <3>5. \A q \in Ids : \A i : FileOf(i, q)' => files'[i] = files[i]
      BY <3>3, <3>4 DEF FileOf
    <3>6. \A q \in Ids : Exported(q)' <=> Exported(q)
      BY <2>1 DEF Exported, Writable
    <3>7. \A q \in Ids : \A i : FileOf(i, q)' => i \in 1..Len(files')
      BY DEF FileOf
    <3>8. \A q \in Ids : \A i \in 1..Len(files') :
             FileOf(i, q)' => Exported(q)' /\ files'[i].format = job'[q].format
      BY <2>1, <3>4, <3>5, <3>6, FilesFacts
    <3>9. \A q \in Ids : \A i, j \in 1..Len(files') : FileOf(i, q)' /\ FileOf(j, q)' => i = j
      BY <3>4, FilesFacts
    <3>10. \A q \in Ids : Exported(q)' => \E i \in 1..Len(files') : FileOf(i, q)'
      BY <3>4, <3>6, <3>7, FilesFacts
    <3> QED
      BY <2>1, <3>3, <3>8, <3>9, <3>10 DEF FilesInv, File
  <2> QED
    BY <1>2, <2>2, <2>3 DEF ExportLocally, Download
<1>3. CASE OnExport /\ Query /\ UNCHANGED files
           /\ job' = [job EXCEPT ![reqSeq] = [mount |-> mount, format |-> format]]
  <2>1. /\ reqSeq \in Ids /\ reqSeq' = reqSeq + 1 /\ xlsxLoaded' = xlsxLoaded
        /\ reqSeq \notin pending /\ result[reqSeq] = "unsent"
        /\ \A q \in Ids : q # reqSeq => job'[q] = job[q]
    <3>1. reqSeq \in Ids /\ reqSeq' = reqSeq + 1 /\ xlsxLoaded' = xlsxLoaded
      BY <1>3 DEF OnExport, Query
    <3>2. reqSeq >= reqSeq
      BY <3>1 DEF Ids
    <3>3. \A q \in Ids : q # reqSeq => job'[q] = job[q]
      BY <1>0, <1>3 DEF ExportType
    <3> QED
      BY <1>0, <3>1, <3>2, <3>3
  <2>2. calls[reqSeq] = 0
    <3>1. ~(reqSeq < reqSeq)
      BY <2>1 DEF Ids
    <3> QED
      BY <2>1, <3>1 DEF FilesInv
  <2>3. /\ result'[reqSeq] \in {"waiting", "error"}
        /\ \A q \in Ids : q # reqSeq => result'[q] = result[q] /\ calls'[q] = calls[q]
        /\ calls' \in [Ids -> Nat]
        /\ \/ /\ pending' = pending \cup {reqSeq} /\ result'[reqSeq] = "waiting"
              /\ calls'[reqSeq] = 0
           \/ pending' = pending /\ calls'[reqSeq] = 1
    <3>1. CASE /\ pending' = pending \cup {reqSeq}
               /\ result' = [result EXCEPT ![reqSeq] = "waiting"] /\ calls' = calls
      BY <1>0, <2>1, <2>2, <3>1 DEF ExportType
    <3>2. CASE /\ result' = [result EXCEPT ![reqSeq] = "error"]
               /\ calls' = [calls EXCEPT ![reqSeq] = @ + 1] /\ pending' = pending
      BY <1>0, <2>1, <2>2, <3>2 DEF ExportType
    <3> QED
      BY <1>3, <3>1, <3>2 DEF Query
  <2>4. \A q \in Ids : q # reqSeq => (Exported(q)' <=> Exported(q))
    BY <2>1, <2>3 DEF Exported, Writable
  <2>5. ~Exported(reqSeq) /\ result'[reqSeq] # "data"
    BY <2>1, <2>3 DEF Exported
  <2>6. \A i : ~FileOf(i, reqSeq)
    BY <2>1, <2>5, FilesFacts
  <2>7. \A i, q : FileOf(i, q)' <=> FileOf(i, q)
    BY <1>3 DEF FileOf
  <2>8. ASSUME NEW q \in Ids
        PROVE  calls'[q] = 0 \/ (calls'[q] = 1 /\ q < reqSeq' /\ q \notin pending')
    <3>1. q \in Nat /\ reqSeq \in Nat
      BY <2>1 DEF Ids
    <3>2. CASE q = reqSeq
      BY <2>1, <2>3, <3>1, <3>2
    <3>3. CASE q # reqSeq
      <4>1. calls[q] = 0 \/ (calls[q] = 1 /\ q < reqSeq /\ q \notin pending)
        BY DEF FilesInv
      <4> QED
        BY <2>1, <2>3, <3>1, <3>3, <4>1
    <3> QED
      BY <3>2, <3>3
  <2>9. \A q \in pending' : q \in Ids /\ result'[q] = "waiting"
    <3>1. \A q \in pending : q \in Ids /\ result[q] = "waiting" /\ q # reqSeq
      BY <2>1 DEF FilesInv
    <3> QED
      BY <2>1, <2>3, <3>1
  <2>10. ASSUME NEW q \in Ids, NEW i, FileOf(i, q)
         PROVE  Exported(q)' /\ files'[i].format = job'[q].format
    <3>1. q # reqSeq
      BY <2>6, <2>10
    <3> QED
      BY <1>3, <2>1, <2>4, <2>10, <3>1, FilesFacts
  <2>11. ASSUME NEW q \in Ids, Exported(q)' PROVE \E i \in 1..Len(files') : FileOf(i, q)
    <3>1. q # reqSeq
      BY <2>5, <2>11 DEF Exported
    <3> QED
      BY <1>3, <2>4, <2>11, <3>1 DEF FilesInv
  <2>12. \A q \in Ids : \A i, j : FileOf(i, q) /\ FileOf(j, q) => i = j
    BY FilesFacts
  <2>13. files' \in Seq(File)
    BY <1>0, <1>3
  <2> QED
    BY <2>3, <2>7, <2>8, <2>9, <2>10, <2>11, <2>12, <2>13 DEF FilesInv, File
<1>4. ASSUME NEW q \in pending, NEW r, Settle(q, r), Ended(q),
             UNCHANGED <<reqSeq, job, xlsxLoaded>>
      PROVE  FilesInv'
  <2>1. q \in Ids /\ result[q] = "waiting" /\ calls[q] = 0 /\ reqSeq \in Nat /\ q \in Nat
    BY <1>0 DEF FilesInv, ExportType, Ids
  <2>2. q < reqSeq
    BY <1>0, <2>1
  <2>3. /\ pending' = pending \ {q}
        /\ \A p \in Ids : p # q => result'[p] = result[p] /\ calls'[p] = calls[p]
        /\ calls'[q] = 1 /\ calls' \in [Ids -> Nat]
    BY <1>0, <1>4, <2>1 DEF Settle, ExportType
  <2>4. \A p \in Ids : p # q => (Exported(p)' <=> Exported(p))
    BY <1>4, <2>3 DEF Exported, Writable
  <2>5. ~Exported(q) /\ \A i : ~FileOf(i, q)
    BY <2>1, FilesFacts DEF Exported
  <2>6. ASSUME NEW p \in Ids
        PROVE  calls'[p] = 0 \/ (calls'[p] = 1 /\ p < reqSeq' /\ p \notin pending')
    <3>1. CASE p = q
      BY <1>4, <2>2, <2>3, <3>1
    <3>2. CASE p # q
      <4>1. calls[p] = 0 \/ (calls[p] = 1 /\ p < reqSeq /\ p \notin pending)
        BY DEF FilesInv
      <4> QED
        BY <1>4, <2>3, <3>2, <4>1
    <3> QED
      BY <3>1, <3>2
  <2>7. \A p \in pending' : p \in Ids /\ result'[p] = "waiting"
    <3>1. \A p \in pending : p \in Ids /\ result[p] = "waiting"
      BY DEF FilesInv
    <3> QED
      BY <2>3, <3>1
  <2>8. CASE ~Exported(q)'
    <3>1. files' = files
      BY <1>4, <2>8 DEF Ended, Exported, Writable
    <3>2. \A i, p : FileOf(i, p)' <=> FileOf(i, p)
      BY <3>1 DEF FileOf
    <3>3. ASSUME NEW p \in Ids, NEW i, FileOf(i, p)
          PROVE  Exported(p)' /\ files'[i].format = job'[p].format
      <4>1. p # q
        BY <2>5, <3>3
      <4> QED
        BY <1>4, <2>4, <3>1, <3>3, <4>1, FilesFacts
    <3>4. ASSUME NEW p \in Ids, Exported(p)' PROVE \E i \in 1..Len(files') : FileOf(i, p)
      <4>1. p # q
        BY <2>8, <3>4
      <4> QED
        BY <2>4, <3>1, <3>4, <4>1 DEF FilesInv
    <3>5. \A p \in Ids : \A i, j : FileOf(i, p) /\ FileOf(j, p) => i = j
      BY FilesFacts
    <3>6. files' \in Seq(File)
      BY <1>0, <3>1
    <3> QED
      BY <2>3, <2>6, <2>7, <3>2, <3>3, <3>4, <3>5, <3>6 DEF FilesInv, File
  <2>9. CASE Exported(q)'
    <3> DEFINE d == [query |-> q, format |-> job[q].format]
    <3>1. files' = Append(files, d)
      BY <1>4, <2>9 DEF Ended, Exported, Writable, Download
    <3>2. d \in File /\ d.query = q /\ d.format = job[q].format
      <4>1. job[q] \in [mount : Nat, format : {"csv", "xlsx"}]
        BY <1>0, <2>1 DEF ExportType
      <4> QED
        BY <2>1, <4>1 DEF File
    <3> HIDE DEF d
    <3>3. /\ files' \in Seq(File)
          /\ \A i, p : FileOf(i, p)' <=> FileOf(i, p) \/ (i = Len(files) + 1 /\ d.query = p)
          /\ \A i \in 1..Len(files) : files'[i] = files[i]
          /\ files'[Len(files) + 1] = d
      BY <1>0, <3>1, <3>2, FilesAppended
    <3>4. \A p \in Ids : \A i : p # q => (FileOf(i, p)' <=> FileOf(i, p))
      BY <3>2, <3>3
    <3>5. \A i : FileOf(i, q)' <=> i = Len(files) + 1
      BY <2>5, <3>2, <3>3
    <3>6. \A i, p : FileOf(i, p)' => i \in 1..Len(files')
      BY DEF FileOf
    <3>7. ASSUME NEW p \in Ids, NEW i, FileOf(i, p)'
          PROVE  Exported(p)' /\ files'[i].format = job'[p].format
      <4>1. CASE p = q
        BY <1>4, <2>9, <3>2, <3>3, <3>5, <3>7, <4>1
      <4>2. CASE p # q
        <5>1. FileOf(i, p) /\ i \in 1..Len(files)
          BY <3>4, <3>7, <4>2 DEF FileOf
        <5> QED
          BY <1>4, <2>4, <3>3, <4>2, <5>1, FilesFacts
      <4> QED
        BY <4>1, <4>2
    <3>8. ASSUME NEW p \in Ids, Exported(p)' PROVE \E i \in 1..Len(files') : FileOf(i, p)'
      <4>1. CASE p = q
        BY <3>5, <3>6, <4>1
      <4>2. CASE p # q
        <5>1. PICK i : FileOf(i, p)
          BY <2>4, <3>8, <4>2, FilesFacts
        <5>2. FileOf(i, p)'
          BY <3>4, <4>2, <5>1
        <5> QED
          BY <3>6, <5>2
      <4> QED
        BY <4>1, <4>2
    <3>9. ASSUME NEW p \in Ids, NEW i, NEW j, FileOf(i, p)', FileOf(j, p)' PROVE i = j
      <4>1. CASE p = q
        BY <3>5, <3>9, <4>1
      <4>2. CASE p # q
        BY <3>4, <3>9, <4>2, FilesFacts
      <4> QED
        BY <4>1, <4>2
    <3> QED
      BY <2>3, <2>6, <2>7, <3>3, <3>7, <3>8, <3>9 DEF FilesInv, File
  <2> QED
    BY <2>8, <2>9
<1> QED
  BY <1>0, <1>1, <1>2, <1>3, <1>4, DownloadSteps

\* Every export the server answers ends in one file of the format asked for, an export
\* that fails in none, and no query settles twice, whatever is shown meanwhile.
THEOREM ExportsEndOnce == PageSpec => []ExportsAreFaithful
<1>1. FilesInv => ExportsAreFaithful
  <2> SUFFICES ASSUME FilesInv, NEW q \in Ids
               PROVE  LET mine == {i \in DOMAIN files : files[i].query = q} IN
                      /\ calls[q] <= 1
                      /\ Cardinality(mine)
                            = IF result[q] = "data" /\ Writable(job[q].format) THEN 1 ELSE 0
                      /\ \A i \in mine : files[i].format = job[q].format
    BY DEF ExportsAreFaithful
  <2> DEFINE mine == {i \in DOMAIN files : files[i].query = q}
  <2>1. \A i : i \in mine <=> FileOf(i, q)
    <3>1. DOMAIN files = 1..Len(files)
      BY DEF FilesInv
    <3> QED
      BY <3>1 DEF FileOf
  <2>2. calls[q] <= 1
    BY DEF FilesInv
  <2> HIDE DEF mine
  <2>3. CASE Exported(q)
    <3>1. PICK i : FileOf(i, q)
      BY <2>3, FilesFacts
    <3>2. mine = {i}
      BY <2>1, <3>1, FilesFacts
    <3>3. Cardinality(mine) = 1
      BY <3>2, FS_Singleton
    <3> QED
      BY <2>1, <2>2, <2>3, <3>3, FilesFacts DEF mine, Exported
  <2>4. CASE ~Exported(q)
    <3>1. mine = {}
      BY <2>1, <2>4, FilesFacts
    <3>2. Cardinality(mine) = 0
      BY <3>1, FS_EmptySet
    <3> QED
      BY <2>2, <2>4, <3>1, <3>2 DEF mine, Exported
  <2> QED
    BY <2>3, <2>4
<1>2. PageInit => ExportInv /\ FilesInv
  BY ExportInit, FilesInit
<1>3. ExportInv /\ FilesInv /\ [PageNext]_pageVars => (ExportInv /\ FilesInv)'
  BY ExportStep, FilesStep
<1> QED
  BY <1>1, <1>2, <1>3, PTL DEF PageSpec
============================================================================
