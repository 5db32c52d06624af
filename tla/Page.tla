-------------------------------- MODULE Page --------------------------------
(***************************************************************************)
(* The page over its connection (App and ConnBanner of frontend/app.jsx,   *)
(* PerformancePanel of frontend/perf.jsx): the list of packets with its    *)
(* cap, its pause and its selection; the banner; and the exports of the    *)
(* performance tab.  An action is one callback, after which React renders. *)
(* The sockets of the connection are the clients of the push server, which *)
(* is Feed.  Frames are numbered as the server records them.               *)
(***************************************************************************)
EXTENDS LiveConnection, SequencesExt

CONSTANTS MaxPackets,   \* MAX_PACKETS = 600
          Backfill,     \* 200 in server.py
          MaxFrames,    \* bound on the frames the server records
          Identity,     \* frame -> a number, the same for the frames with the same
                        \* timestamp, correlation_id and src_port, 0 without one
          InitialTab,   \* INITIAL_TAB, from the page's address
          MaxEvents     \* bound on the frames and the clicks of the user, together

ASSUME PageAssumption ==
    /\ {MaxPackets, Backfill} \subseteq Nat \ {0}
    /\ {MaxFrames, MaxEvents} \subseteq Nat
    /\ Identity \in [1..MaxFrames -> Nat] /\ InitialTab \in {"stream", "perf"}

VARIABLES
    recorded, unsent, served, joined, backlog, due,   \* the push server
    packets, capturing, selectedId,
    chosen,                  \* history: the frame the user selected, 0 for none
    dropped,                 \* history: frames that came but gave way, were cleared or
                             \* came during a pause, since they were last promised
    drawn,                   \* random ids drawn so far
    tab, mount,              \* is the performance tab shown; how often it was mounted
    busy, format, lastError, \* the state of the mounted panel
    job,                     \* query -> mount and format of its export
    files,                   \* the downloads, with their queries; 0 for a local one
    xlsxLoaded,              \* environment: is window.XLSX there?
    collapsed, bannerTimer,  \* the state of ConnBanner
    dismissed,               \* history: the user collapsed the banner in this state
    clicks

INSTANCE Feed WITH Clients <- Sockets

feed == <<recorded, unsent, served, joined, backlog, due>>
list == <<packets, capturing, selectedId, chosen, dropped, drawn>>
panel == <<tab, mount, busy, format, lastError, job, files, xlsxLoaded>>
banner == <<collapsed, bannerTimer, dismissed>>
pageVars == <<vars, list, feed, panel, banner, clicks>>

NoId == <<0, 0>>
NoJob == [mount |-> 0, format |-> "csv"]

PageInit ==
    /\ Init /\ FeedInit
    /\ packets = <<>> /\ capturing = TRUE /\ selectedId = NoId /\ chosen = 0
    /\ dropped = {} /\ drawn = 0
    /\ tab = InitialTab /\ mount = 0 /\ busy = FALSE /\ format = "csv" /\ lastError = FALSE
    /\ job = [q \in Ids |-> NoJob] /\ files = <<>> /\ xlsxLoaded \in BOOLEAN
    /\ collapsed = FALSE /\ bannerTimer = FALSE /\ dismissed = FALSE
    /\ clicks = 0

---------------------------------------------------------------------------
(* The list *)

\* A mutant of IdOf: every id is drawn.
IdOf_Drawn(frame) == <<0, drawn + 1>>
\* frameToPacket: the id repeats with the frame if it has a correlation_id, and is drawn
\* at each delivery if not.  Packets of one segment share their timestamp, so two of
\* them, a PUBACK and a PUBLISH of one pid say, may have the same id.
IdOf(frame) == IF Identity[frame] # 0 THEN <<Identity[frame], 0>> ELSE <<0, drawn + 1>>

\* A mutant of AppendPacket: the cap keeps what is there.
AppendPacket_KeepsOld(pkt) ==
    packets' = IF Len(packets) = MaxPackets THEN packets ELSE Append(packets, pkt)

\* appendPacket: the oldest packet gives way.
AppendPacket(pkt) ==
    packets' = IF Len(packets) = MaxPackets THEN Append(Tail(packets), pkt)
               ELSE Append(packets, pkt)

GivesWay == IF Len(packets) = MaxPackets THEN {Head(packets).frame} ELSE {}

Within == recorded + clicks < MaxEvents

ServerRecord ==
    /\ Within /\ Record
    /\ UNCHANGED <<vars, list, panel, banner, clicks>>

ServerBroadcast ==
    /\ \E n \in unsent : Broadcast(n)
    /\ UNCHANGED <<vars, list, panel, banner, clicks>>

\* The server accepts a socket, which may be before the page sees it open, and promises
\* its backfill anew.
ServerAccept(s) ==
    /\ sock[s] \in {"connecting", "open"} /\ Accept(s)
    /\ dropped' = dropped \ {Recent[i] : i \in DOMAIN Recent}
    /\ UNCHANGED <<vars, packets, capturing, selectedId, chosen, drawn, panel, banner, clicks>>

\* A frame arrives: nothing happens while the capture is paused or after the page has
\* taken its listener off.
OnFrame(s, n) ==
    /\ sock[s] = "open" /\ Deliver(s, n)
    /\ IF capturing /\ ~disconnected
       THEN /\ AppendPacket([frame |-> n, id |-> IdOf(n)])
            /\ dropped' = (dropped \cup GivesWay) \ {n}
            /\ drawn' = IF Identity[n] = 0 THEN drawn + 1 ELSE drawn
       ELSE dropped' = dropped \cup {n} /\ UNCHANGED <<packets, drawn>>
    /\ UNCHANGED <<vars, capturing, selectedId, chosen, panel, banner, clicks>>

Shown == {packets[i].frame : i \in DOMAIN packets}

Click == ~disconnected /\ Within /\ clicks' = clicks + 1

ToggleCapture ==
    /\ Click /\ capturing' = ~capturing
    /\ UNCHANGED <<vars, feed, packets, selectedId, chosen, dropped, drawn, panel, banner>>

OnSelect ==
    /\ Click
    /\ \E i \in DOMAIN packets : /\ selectedId' = packets[i].id
                                 /\ chosen' = packets[i].frame
    /\ UNCHANGED <<vars, feed, packets, capturing, dropped, drawn, panel, banner>>

OnClear ==
    /\ Click /\ packets' = <<>> /\ selectedId' = NoId /\ chosen' = 0
    /\ dropped' = dropped \cup Shown
    /\ UNCHANGED <<vars, feed, capturing, drawn, panel, banner>>

\* selected: the first packet with the id, or else the newest.
Inspected ==
    LET same == {i \in DOMAIN packets : packets[i].id = selectedId}
    IN  IF same # {} THEN packets[Min(same)] ELSE Last(packets)

---------------------------------------------------------------------------
(* ConnBanner *)

\* A mutant of BannerEffect: a new state leaves the banner as it is.
BannerEffect_KeepsCollapsed ==
    IF state' = state THEN UNCHANGED banner
    ELSE bannerTimer' = (state' = "ok") /\ UNCHANGED collapsed /\ dismissed' = FALSE

\* The effect of a new state: the timer is cleared, the banner expands, and a timer
\* is set if the state is ok.
BannerEffect ==
    IF state' = state THEN UNCHANGED banner
    ELSE bannerTimer' = (state' = "ok") /\ collapsed' = FALSE /\ dismissed' = FALSE

BannerTimeout ==
    /\ bannerTimer /\ bannerTimer' = FALSE /\ collapsed' = TRUE
    /\ UNCHANGED <<vars, list, feed, panel, dismissed, clicks>>

ClickBanner ==
    /\ Click /\ collapsed' = ~collapsed /\ dismissed' = ~collapsed
    /\ UNCHANGED <<vars, list, feed, panel, bannerTimer>>

---------------------------------------------------------------------------
(* Exports *)

\* Leaving the tab drops the panel's state and mounting it makes a new one; a running
\* export of the old one goes on.
ShowTab ==
    /\ Click
    /\ IF tab = "perf" THEN tab' = "stream" /\ UNCHANGED mount
       ELSE tab' = "perf" /\ mount' = mount + 1
    /\ busy' = FALSE /\ format' = "csv" /\ lastError' = FALSE
    /\ UNCHANGED <<vars, list, feed, job, files, xlsxLoaded, banner>>

\* The buttons of the bar are disabled while an export runs.
OnFormatChange ==
    /\ Click /\ tab = "perf" /\ ~busy
    /\ format' = IF format = "csv" THEN "xlsx" ELSE "csv"
    /\ UNCHANGED <<vars, list, feed, tab, mount, busy, lastError, job, files, xlsxLoaded, banner>>

\* A mutant of Download: the format of the panel now shown is taken.
Download_NowShown(q, asked) == [query |-> q, format |-> format]
Download(q, asked) == [query |-> q, format |-> asked]

Writable(asked) == asked = "csv" \/ xlsxLoaded

\* Without a live socket the export is made of the page's own packets at once.
ExportLocally ==
    /\ Click /\ tab = "perf" /\ ~busy /\ state # "ok"
    /\ IF Writable(format) THEN files' = Append(files, Download(0, format)) ELSE UNCHANGED files
    /\ lastError' = ~Writable(format)
    /\ UNCHANGED <<vars, list, feed, tab, mount, busy, format, job, xlsxLoaded, banner>>

\* With one it asks the server, and waits unless the query is rejected at once: because
\* the send throws, or because the socket is closing although its close is not seen yet.
OnExport ==
    /\ Click /\ tab = "perf" /\ ~busy /\ state = "ok"
    /\ \/ /\ Query
          /\ job' = [job EXCEPT ![reqSeq] = [mount |-> mount, format |-> format]]
          /\ busy' = (result'[reqSeq] = "waiting")
          /\ lastError' = ~busy'
       \/ /\ ReadyState # "open"
          /\ lastError' = TRUE
          /\ UNCHANGED <<vars, job, busy>>
    /\ UNCHANGED <<list, feed, tab, mount, format, files, xlsxLoaded, banner>>

\* A mutant of Ended: an error leaves the buttons disabled.
Ended_BusyOnError(q) ==
    LET done == result'[q] = "data" /\ Writable(job[q].format)
        shown == tab = "perf" /\ job[q].mount = mount
    IN  /\ files' = IF done THEN Append(files, Download(q, job[q].format)) ELSE files
        /\ IF shown THEN busy' = ~done /\ lastError' = ~done ELSE UNCHANGED <<busy, lastError>>

\* The await of a query ends: a file or an error, told by the panel that asked if it is
\* still there.
Ended(q) ==
    LET done == result'[q] = "data" /\ Writable(job[q].format)
        shown == tab = "perf" /\ job[q].mount = mount
    IN  /\ files' = IF done THEN Append(files, Download(q, job[q].format)) ELSE files
        /\ IF shown THEN busy' = FALSE /\ lastError' = ~done ELSE UNCHANGED <<busy, lastError>>

ExportTimeout(q) ==
    /\ Timeout(q) /\ Ended(q)
    /\ UNCHANGED <<list, feed, tab, mount, format, job, xlsxLoaded, banner, clicks>>

ExportReply ==
    /\ \E s \in Sockets : OnReply(s)
    /\ IF pending' = pending THEN UNCHANGED <<files, busy, lastError>>
       ELSE \E q \in pending \ pending' : Ended(q)
    /\ UNCHANGED <<list, feed, tab, mount, format, job, xlsxLoaded, banner, clicks>>

---------------------------------------------------------------------------
\* The callbacks of the connection that leave list and exports alone.
PageConnect ==
    /\ RetryConnect /\ BannerEffect
    /\ UNCHANGED <<list, feed, panel, clicks>>

PageOpen ==
    /\ \E s \in Sockets : OnOpen(s)
    /\ BannerEffect
    /\ UNCHANGED <<list, feed, panel, clicks>>

\* The sockets that can bring nothing any more leave the server.
Lost == {s \in Sockets : sock'[s] \notin {"connecting", "open"}}

PageClose(s) ==
    /\ OnClose(s) /\ BannerEffect /\ Leave(Lost)
    /\ UNCHANGED <<list, panel, clicks>>

PageQuiet ==
    /\ RetryRefused \/ Disconnect \/ (\E s \in Sockets : Closing(s) \/ ServerAnswer(s))
    /\ Leave(Lost)
    /\ UNCHANGED <<list, panel, banner, clicks>>

PageNext ==
    \/ ServerRecord \/ ServerBroadcast \/ \E s \in Sockets : ServerAccept(s)
    \/ \E s \in Sockets, n \in 1..recorded : OnFrame(s, n)
    \/ ToggleCapture \/ OnSelect \/ OnClear
    \/ BannerTimeout \/ ClickBanner
    \/ ShowTab \/ OnFormatChange \/ ExportLocally \/ OnExport
    \/ ExportReply \/ \E q \in Ids : ExportTimeout(q)
    \/ PageConnect \/ PageOpen \/ PageQuiet \/ \E s \in Sockets : PageClose(s)

PageSpec == PageInit /\ [][PageNext]_pageVars

\* Timers fire and a closing socket fires close; the network and the server owe nothing.
PageFairSpec ==
    /\ PageSpec
    /\ WF_pageVars(PageConnect)
    /\ \A q \in Ids : WF_pageVars(ExportTimeout(q))
    /\ \A s \in Sockets : WF_pageVars(sock[s] = "closing" /\ PageClose(s))

---------------------------------------------------------------------------
\* The list has no gap: once a connection has brought all that is on its way, every frame
\* of its backfill and every frame since is in the list or was taken from it by the cap
\* or the user, whichever frames were recorded or broadcast while it was being accepted;
\* and nothing recorded since it was accepted is shown twice, although other connections
\* of the page came before it.
ListHasNoGap ==
    \A s \in served :
       /\ unsent = {} /\ due[s] = {} /\ backlog[s] = <<>> =>
             \A n \in 1..recorded : n > joined[s] - Backfill => n \in Shown \cup dropped
       /\ \A i, j \in DOMAIN packets :
             packets[i].frame = packets[j].frame /\ packets[i].frame > joined[s] => i = j

\* The packet inspected is the one the user chose, or one of the same segment that the
\* page's id does not tell from it, for as long as its frame is in the list, even when the
\* row chosen was evicted and the server sent the frame again; a frame without
\* correlation_id is only recognised in the row that was chosen.
InspectedIsChosen ==
    LET rows == {i \in DOMAIN packets : packets[i].frame = chosen}
        shown == Inspected.frame
    IN  rows # {} /\ (Identity[chosen] # 0 \/ \E i \in rows : packets[i].id = selectedId)
           => \/ shown = chosen
              \/ Identity[chosen] # 0 /\ Identity[shown] = Identity[chosen]

\* Every export the server answers ends in one file of the format that was chosen when it
\* was asked for, though the panel may have been left or mounted again since; one that
\* fails ends in none, and no query settles twice.
ExportsAreFaithful ==
    \A q \in Ids :
       LET mine == {i \in DOMAIN files : files[i].query = q}
       IN  /\ calls[q] <= 1
           /\ Cardinality(mine) = IF result[q] = "data" /\ Writable(job[q].format) THEN 1 ELSE 0
           /\ \A i \in mine : files[i].format = job[q].format

\* The buttons are disabled just while an export of the panel shown is pending, of which
\* there is one at most, and every pending query has its timeout armed.
BusyIsTrue ==
    LET own == {q \in pending : job[q].mount = mount}
    IN  ~disconnected =>
           /\ tab = "perf" => (busy <=> own # {})
           /\ Cardinality(own) <= 1
           /\ timers = pending /\ pending = {q \in Ids : result[q] = "waiting"}

\* While the banner says "retrying" a retry is scheduled and while it says connected the
\* socket was not seen to close (app.jsx:144); and no trouble is hidden in the small dot
\* unless the user collapsed the banner after it began (app.jsx:122-126).
BannerTellsTroubles ==
    ~disconnected =>
       /\ state = "closed" => retry
       /\ state = "ok" => ReadyState \in {"open", "closing"}
       /\ state # "ok" /\ collapsed => dismissed

\* An export that disables the buttons enables them again, even when its connection is
\* lost and replaced, unless the page disconnects.
ExportEnds == busy ~> (~busy \/ disconnected)
============================================================================
