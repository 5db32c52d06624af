--------------------------- MODULE LatencyTracker ---------------------------
(***************************************************************************)
(* Request/response latency matching: metrics/latency.py as it is used by  *)
(* the capture thread (open and close from CaptureEngine._emit_modbus and  *)
(* _emit_mqtt, under the engine lock) and by the metrics ticker on the     *)
(* asyncio thread (expire, without the lock).                              *)
(*                                                                         *)
(* The environment is a pair of endpoints seen by a passive tap.  Both may *)
(* send requests, an id may be used again at any time (a retransmission, a *)
(* new request after an answer, the same id at both ends), and the tap may *)
(* miss packets.  A flow direction is "c2s" or "s2c"; a response travels   *)
(* in the direction opposite to its request.  The code takes a packet for  *)
(* a request (open) or for a response (close) by its looks:                *)
(*   kind "ack"     : as they are: PUBLISH, SUBSCRIBE and their PUBACK,    *)
(*                    PUBCOMP, SUBACK; Modbus reads with their response or *)
(*                    exception                                            *)
(*   kind "echo"    : the response is taken for a request: Modbus writes   *)
(*                    and bit reads                                        *)
(*   kind "misread" : the request is taken for a response: a Modbus read   *)
(*                    of an address 0x03xx, whose four bytes of data look  *)
(*                    like a byte count and three bytes                    *)
(* A packet carries the time of its capture (pkt.time), which is behind    *)
(* the clock that expire reads by as long as the packet waited.            *)
(***************************************************************************)
EXTENDS Integers, FiniteSets

CONSTANTS
    Ids,            \* correlation ids: Modbus TIDs or MQTT packet ids
    Requesters,     \* the directions in which requests travel
    Kinds,          \* the kinds of exchange that occur
    Lossy,          \* may the tap miss packets?
    StaleAfter,     \* stale_after_s, in ticks of the clock
    MaxTime,        \* bound on the clock
    MaxRequests     \* bound on the number of requests

Dirs == {"c2s", "s2c"}

ASSUME LatencyAssumption ==
    /\ Requesters \subseteq Dirs
    /\ Kinds \subseteq {"ack", "echo", "misread"}
    /\ Lossy \in BOOLEAN
    /\ StaleAfter \in Nat /\ MaxTime \in Nat /\ MaxRequests \in Nat

None == -1
Reverse(d) == IF d = "c2s" THEN "s2c" ELSE "c2s"   \* frame.py reverse_flow
Keys == Dirs \X Ids
Opposite(k) == <<Reverse(k[1]), k[2]>>

VARIABLES
    clock,              \* time.time()
    stamp,              \* pkt.time of the last packet
    pending,            \* key -> timestamp of the outstanding request
    matched, expired,   \* LatencyTracker counters
    exchange,           \* endpoints: key -> the outstanding exchange there
    requests,           \* number of requests so far
    unmeasured,         \* history: requests captured, with their times, of which no
                        \* latency was made
    measured,           \* history: the last packet and what close made of it
    tick,               \* where the ticker is in expire
    cutoff, visited, size, stale   \* expire's locals and its dict iterator

tracker == <<pending, matched, expired>>
endpoints == <<stamp, exchange, requests, unmeasured>>
expiry == <<tick, cutoff, visited, size, stale>>
vars == <<clock, tracker, endpoints, measured, expiry>>

\* What is known of a packet: the age of the request it answers, and whether that request
\* was taken for one and undisturbed; its latency, and whether this is the age of a request
\* with its id of which no latency was made.
NoMeasure == [answered |-> None, own |-> FALSE, due |-> FALSE, latency |-> None, once |-> TRUE]

Init ==
    /\ clock = 0 /\ stamp = 0
    /\ pending = [k \in {} |-> 0] /\ matched = 0 /\ expired = 0
    /\ exchange = [k \in {} |-> 0] /\ requests = 0
    /\ unmeasured = {} /\ measured = NoMeasure
    /\ tick = "idle" /\ cutoff = 0 /\ visited = {} /\ size = 0 /\ stale = {}

Without(f, K) == [k \in DOMAIN f \ K |-> f[k]]

---------------------------------------------------------------------------
(* The capture thread.  Dictionary operations are atomic (GIL). *)

\* open: a request overwrites whatever was pending under its key.
Open(key, at) ==
    /\ pending' = [k \in DOMAIN pending \cup {key} |-> IF k = key THEN at ELSE pending[k]]
    /\ unmeasured' = unmeasured \cup {<<key, at>>}
    /\ UNCHANGED <<matched, expired>>

\* A mutant of CloseCandidates: entries are keyed by direction only.
CloseCandidates_AnyId(key) == {k \in DOMAIN pending : k[1] = Reverse(key[1])}

\* The key close finds: the response's own direction first, then the reverse.
CloseCandidates(key) ==
    IF key \in DOMAIN pending THEN {key} ELSE {Opposite(key)} \cap DOMAIN pending

\* close: pops that entry, if any, and counts it.
Close(key) ==
    LET hit == CloseCandidates(key) IN
    /\ pending' = Without(pending, hit)
    /\ matched' = matched + Cardinality(hit)
    /\ unmeasured' = unmeasured \ {<<k, pending[k]>> : k \in hit}
    /\ UNCHANGED expired

ClosedLatency(key, at) ==
    LET hit == CloseCandidates(key) IN
    IF hit = {} THEN None ELSE at - pending[CHOOSE k \in hit : TRUE]

\* A request with this id on this connection has this age and was not measured yet.
Unmeasured(key, age, at) ==
    \E r \in unmeasured : r[1] \in {key, Opposite(key)} /\ at - r[2] = age

\* The keys a sweep under way has found stale and may still pop.
Held == IF tick = "scan" THEN stale ELSE IF tick = "pop" THEN visited ELSE {}

\* A captured packet with the id of an exchange the other way disturbs that exchange.
Disturbed(f, key, seen) ==
    [k \in DOMAIN f |-> IF seen /\ k = Opposite(key) THEN [f[k] EXCEPT !.own = FALSE] ELSE f[k]]

\* A request leaves an endpoint, perhaps again; the tap sees it or misses it.
Request(d, id, kind) ==
    LET key == <<d, id>> IN
    /\ requests < MaxRequests /\ requests' = requests + 1
    /\ \E at \in stamp..clock, seen \in IF Lossy THEN BOOLEAN ELSE {TRUE} :
          LET opened == seen /\ kind # "misread"
              closed == seen /\ kind = "misread"
              latency == IF closed THEN ClosedLatency(key, at) ELSE None
              new == [ts |-> at, kind |-> kind,
                      own |-> opened /\ Opposite(key) \notin DOMAIN pending /\ key \notin Held]
              others == Disturbed(exchange, key, seen)
          IN
          /\ stamp' = at
          /\ exchange' = [k \in DOMAIN exchange \cup {key} |-> IF k = key THEN new ELSE others[k]]
          /\ IF opened THEN Open(key, at)
             ELSE IF closed THEN Close(key) ELSE UNCHANGED <<tracker, unmeasured>>
          /\ measured' = [NoMeasure EXCEPT !.latency = latency,
                              !.once = latency # None => Unmeasured(key, latency, at)]
    /\ UNCHANGED <<clock, expiry>>

\* The response to the exchange (d, id) travels back and is seen.
Response(d, id) ==
    LET key == <<d, id>>
        e == exchange[key]
        back == Opposite(key)
    IN
    /\ key \in DOMAIN exchange
    /\ \E at \in stamp..clock :
          LET latency == IF e.kind # "echo" THEN ClosedLatency(back, at) ELSE None IN
          /\ stamp' = at
          /\ measured' = [answered |-> at - e.ts, own |-> e.own,
                          due |-> e.own /\ e.kind = "ack" /\ clock - e.ts <= StaleAfter,
                          latency |-> latency,
                          once |-> latency # None => Unmeasured(back, latency, at)]
          /\ IF e.kind # "echo" THEN Close(back) ELSE Open(back, at)
    /\ exchange' = Without(Disturbed(exchange, key, TRUE), {key})
    /\ UNCHANGED <<clock, requests, expiry>>

\* The exchange ends without the tap seeing a response: it was lost on the tap, or
\* the endpoint gave up.
Unanswered(d, id) ==
    /\ Lossy
    /\ <<d, id>> \in DOMAIN exchange
    /\ exchange' = Without(exchange, {<<d, id>>})
    /\ measured' = NoMeasure
    /\ UNCHANGED <<clock, tracker, stamp, requests, unmeasured, expiry>>

---------------------------------------------------------------------------
(* The metrics ticker: expire, one step per bytecode region another thread *)
(* can interleave with.                                                    *)

\* A mutant of Cutoff: it is taken when the tracker is created.
Cutoff_AtStart == -StaleAfter
Cutoff == clock - StaleAfter

\* A mutant of IsStale: an entry that is just stale_after_s old is dropped.
IsStale_AtAge(k) == pending[k] <= cutoff
IsStale(k) == pending[k] < cutoff

\* The cutoff is computed and iteration over pending.items() starts.
ExpireBegin ==
    /\ tick = "idle"
    /\ tick' = "scan"
    /\ cutoff' = Cutoff
    /\ visited' = {} /\ stale' = {}
    /\ size' = Cardinality(DOMAIN pending)
    /\ UNCHANGED <<clock, tracker, endpoints, measured>>

\* The iterator yields one more item; a changed dict size makes it raise instead,
\* and the tick ends in the ticker's exception handler.
ExpireVisit(k) ==
    /\ tick = "scan"
    /\ Cardinality(DOMAIN pending) = size
    /\ k \in DOMAIN pending \ visited
    /\ visited' = visited \cup {k}
    /\ stale' = IF IsStale(k) THEN stale \cup {k} ELSE stale
    /\ UNCHANGED <<clock, tracker, endpoints, measured, tick, cutoff, size>>

ExpireRaise ==
    /\ tick = "scan"
    /\ Cardinality(DOMAIN pending) # size
    /\ tick' = "idle"
    /\ cutoff' = 0 /\ visited' = {} /\ size' = 0 /\ stale' = {}
    /\ UNCHANGED <<clock, tracker, endpoints, measured>>

\* The list of stale keys is complete; they are counted when they have been popped.
ExpireScanned ==
    /\ tick = "scan"
    /\ Cardinality(DOMAIN pending) = size
    /\ DOMAIN pending \subseteq visited
    /\ tick' = "pop"
    /\ visited' = stale          \* the keys still to pop
    /\ UNCHANGED <<clock, tracker, endpoints, measured, cutoff, size, stale>>

\* pending.pop(k, None): whatever is under the key now, if anything.
ExpirePop(k) ==
    /\ tick = "pop" /\ k \in visited
    /\ pending' = Without(pending, {k})
    /\ visited' = visited \ {k}
    /\ UNCHANGED <<clock, matched, expired, endpoints, measured,
                   tick, cutoff, size, stale>>

ExpireEnd ==
    /\ tick = "pop" /\ visited = {}
    /\ expired' = expired + Cardinality(stale)
    /\ tick' = "idle"
    /\ cutoff' = 0 /\ size' = 0 /\ stale' = {}
    /\ UNCHANGED <<clock, pending, matched, endpoints, measured, visited>>

ClockTick ==
    /\ clock < MaxTime
    /\ clock' = clock + 1
    /\ UNCHANGED <<tracker, endpoints, measured, expiry>>

CaptureNext ==
    \E d \in Requesters, id \in Ids :
       \/ \E kind \in Kinds : Request(d, id, kind)
       \/ Response(d, id)
       \/ Unanswered(d, id)

ExpireNext == \/ ExpireBegin \/ ExpireRaise \/ ExpireScanned \/ ExpireEnd
              \/ \E k \in Keys : ExpireVisit(k) \/ ExpirePop(k)

Next == CaptureNext \/ ExpireNext \/ ClockTick

Spec == Init /\ [][Next]_vars

\* The ticker runs every second for as long as the server does, and time passes.
FairSpec == Spec /\ WF_vars(ExpireNext) /\ WF_vars(ClockTick)
---------------------------------------------------------------------------
TypeOK ==
    /\ clock \in 0..MaxTime /\ stamp \in 0..clock
    /\ DOMAIN pending \subseteq Keys
    /\ \A k \in DOMAIN pending : pending[k] \in 0..stamp
    /\ matched \in Nat /\ expired \in Nat
    /\ DOMAIN exchange \subseteq Keys
    /\ \A k \in DOMAIN exchange : exchange[k] \in [ts : 0..stamp, kind : Kinds, own : BOOLEAN]
    /\ requests \in 0..MaxRequests
    /\ unmeasured \subseteq Keys \X (0..stamp)
    /\ measured \in [answered : Nat \cup {None}, own : BOOLEAN, due : BOOLEAN,
                     latency : Nat \cup {None}, once : BOOLEAN]
    /\ tick \in {"idle", "scan", "pop"}
    /\ cutoff \in -StaleAfter..MaxTime /\ size \in Nat
    /\ visited \subseteq Keys /\ stale \subseteq Keys

\* Whatever ids both ends use and use again, and whatever is taken for what: a latency is
\* the age of a captured request with the packet's id on its connection, and of each such
\* request at most one latency is made.  It is the age of the very request the packet
\* answers if the code took that for a request while none with its id was pending the
\* other way (latency.py:48 would find that one), and captured no other packet with the
\* id on the connection since.
LatencyIsOwn ==
    measured.latency # None =>
       measured.once /\ (measured.own => measured.latency = measured.answered)

\* Under the same condition the response yields its latency if it is handled within
\* stale_after_s of the capture of the request, even while a sweep by the other clock is
\* running: "Matching response pops and yields the delta in ms" (README.md:303).  Only a
\* request under a key that a running sweep has found stale is lost, and excluded.
AnsweredIsMeasured ==
    measured.due => measured.latency = measured.answered

\* Requests that are never answered do not stay in memory: once the capture goes quiet,
\* each entry old enough to be stale before the clock's bound is dropped by a sweep,
\* even if earlier sweeps were cut short by a concurrent open or close.
StaleIsSwept ==
    \A k \in Keys :
       (k \in DOMAIN pending /\ pending[k] + StaleAfter < MaxTime)
         ~> (k \notin DOMAIN pending \/ pending[k] + StaleAfter >= MaxTime)
=============================================================================
