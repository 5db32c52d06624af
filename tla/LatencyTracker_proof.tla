------------------------ MODULE LatencyTracker_proof ------------------------
(***************************************************************************)
(* What a latency is the age of, for any number of ids used by both ends   *)
(* and used again, any kinds of exchange, any loss, any delay between the  *)
(* capture of a packet and its handling, and any interleaving with the     *)
(* sweep.                                                                  *)
(***************************************************************************)
EXTENDS LatencyTracker, FiniteSetTheorems, TLAPS

TypeInv ==
    /\ clock \in Nat /\ stamp \in 0..clock /\ cutoff \in Int
    /\ DOMAIN pending \subseteq Keys /\ \A k \in DOMAIN pending : pending[k] \in 0..stamp
    /\ DOMAIN exchange \subseteq Keys
    /\ \A k \in DOMAIN exchange : /\ exchange[k] \in [ts : Nat, kind : Kinds, own : BOOLEAN]
                                 /\ exchange[k].ts <= stamp

\* No latency was made of a request that is pending.
FreshInv == \A k \in DOMAIN pending : <<k, pending[k]>> \in unmeasured

\* While an exchange is undisturbed its own entry is the only one that close can find, it
\* is there unless a sweep found it stale, and only in that case may a sweep pop it.
OwnInv ==
    \A k \in DOMAIN exchange : exchange[k].own =>
       /\ Opposite(k) \notin DOMAIN pending
       /\ k \in DOMAIN pending => pending[k] = exchange[k].ts
       /\ exchange[k].ts >= clock - StaleAfter => k \in DOMAIN pending
       /\ k \in Held => exchange[k].ts < cutoff

\* What a sweep finds stale is stale by the clock, though this and the capture went on.
SweepInv == tick # "idle" => cutoff <= clock - StaleAfter

TrackerInv == TypeInv /\ FreshInv /\ OwnInv /\ SweepInv
Promises == LatencyIsOwn /\ AnsweredIsMeasured

---------------------------------------------------------------------------
LEMMA OppositeKeys ==
    ASSUME NEW k \in Keys
    PROVE  Opposite(k) \in Keys /\ Opposite(k) # k /\ Opposite(Opposite(k)) = k
BY DEF Opposite, Keys, Dirs, Reverse

LEMMA InitInv == Init => TrackerInv /\ Promises
<1> SUFFICES ASSUME Init PROVE TrackerInv /\ Promises
  OBVIOUS
<1>1. DOMAIN pending = {} /\ DOMAIN exchange = {} /\ clock = 0 /\ stamp = 0 /\ cutoff = 0
      /\ tick = "idle" /\ measured = NoMeasure
  BY DEF Init
<1> QED
  BY <1>1 DEF TrackerInv, TypeInv, FreshInv, OwnInv, SweepInv, Promises, LatencyIsOwn,
              AnsweredIsMeasured, NoMeasure

\* What close reports is the age of a request with the id that was not measured before.
LEMMA CloseMeasuresOnce ==
    ASSUME FreshInv, NEW key, NEW at, ClosedLatency(key, at) # None
    PROVE  Unmeasured(key, ClosedLatency(key, at), at)
<1> DEFINE hit == CloseCandidates(key)
<1>1. hit # {} /\ hit \subseteq {key, Opposite(key)} /\ hit \subseteq DOMAIN pending
  BY DEF ClosedLatency, CloseCandidates
<1> DEFINE k == CHOOSE k \in hit : TRUE
<1>2. k \in hit
  BY <1>1
<1>3. <<k, pending[k]>> \in unmeasured
  BY <1>1, <1>2 DEF FreshInv
<1>4. ClosedLatency(key, at) = at - pending[k]
  BY <1>1 DEF ClosedLatency
<1> QED
  BY <1>1, <1>2, <1>3, <1>4 DEF Unmeasured

\* close takes away an entry with the id, if any, and adds none.
LEMMA CloseTakes ==
    ASSUME NEW key, Close(key)
    PROVE  /\ DOMAIN pending' \subseteq DOMAIN pending
           /\ \A k \in DOMAIN pending : k \notin {key, Opposite(key)} => k \in DOMAIN pending'
           /\ \A k \in DOMAIN pending' : pending'[k] = pending[k]
           /\ FreshInv => FreshInv'
<1> DEFINE hit == CloseCandidates(key)
<1>1. hit \subseteq {key, Opposite(key)}
  BY DEF CloseCandidates
<1>2. /\ DOMAIN pending' = DOMAIN pending \ hit
      /\ \A k \in DOMAIN pending' : pending'[k] = pending[k]
      /\ unmeasured' = unmeasured \ {<<k, pending[k]>> : k \in hit}
  BY DEF Close, Without
<1>3. FreshInv => FreshInv'
  BY <1>2 DEF FreshInv
<1> QED
  BY <1>1, <1>2, <1>3

LEMMA OpenAdds ==
    ASSUME NEW key, NEW at, Open(key, at)
    PROVE  /\ DOMAIN pending' = DOMAIN pending \cup {key} /\ pending'[key] = at
           /\ \A k \in DOMAIN pending : k # key => pending'[k] = pending[k]
           /\ FreshInv => FreshInv'
BY DEF Open, FreshInv

---------------------------------------------------------------------------
\* A packet with the id of key is handled at the time at: other ids keep their entries.
Handled(key, at) ==
    /\ at \in stamp..clock /\ stamp' = at /\ key \in Keys
    /\ DOMAIN pending' \subseteq Keys
    /\ \A k \in DOMAIN pending' : pending'[k] = at \/ (k \in DOMAIN pending /\ pending'[k] = pending[k])
    /\ \A k : k \notin {key, Opposite(key)} =>
          /\ k \in DOMAIN pending <=> k \in DOMAIN pending'
          /\ k \in DOMAIN pending => pending'[k] = pending[k]

\* The exchanges that a packet leaves undisturbed keep what the invariant says of them.
LEMMA OthersKept ==
    ASSUME TrackerInv, NEW key, NEW at, Handled(key, at), UNCHANGED <<clock, expiry>>,
           NEW k \in DOMAIN exchange, k \in DOMAIN exchange', exchange'[k] = exchange[k],
           k # key, k # Opposite(key), exchange[k].own
    PROVE  /\ Opposite(k) \notin DOMAIN pending'
           /\ k \in DOMAIN pending' => pending'[k] = exchange'[k].ts
           /\ exchange'[k].ts >= clock' - StaleAfter => k \in DOMAIN pending'
           /\ k \in Held' => exchange'[k].ts < cutoff'
<1>1. Held' = Held /\ clock' = clock /\ cutoff' = cutoff
  BY DEF Held, expiry
<1>2. k \in Keys /\ key \in Keys
  BY DEF TrackerInv, TypeInv, Handled
<1>3. Opposite(k) # key /\ Opposite(k) # Opposite(key)
  BY <1>2, OppositeKeys
<1> QED
  BY <1>1, <1>2, <1>3 DEF TrackerInv, OwnInv, Handled

LEMMA TypesKept ==
    ASSUME TypeInv, NEW key, NEW at, Handled(key, at), UNCHANGED <<clock, expiry>>,
           DOMAIN exchange' \subseteq Keys,
           \A k \in DOMAIN exchange' :
              /\ exchange'[k] \in [ts : Nat, kind : Kinds, own : BOOLEAN]
              /\ exchange'[k].ts = at \/ (k \in DOMAIN exchange /\ exchange'[k].ts = exchange[k].ts)
    PROVE  TypeInv'
<1>1. at \in Nat /\ stamp \in Nat /\ stamp <= at /\ at <= clock /\ at \in 0..at
      /\ 0..stamp \subseteq 0..at
  BY DEF TypeInv, Handled
<1>2. stamp' = at /\ clock' = clock /\ cutoff' = cutoff
  BY DEF Handled, expiry
<1>3. \A k \in DOMAIN pending' : pending'[k] \in 0..at
  BY <1>1 DEF TypeInv, Handled
<1>4. \A k \in DOMAIN exchange' : exchange'[k].ts <= at
  BY <1>1 DEF TypeInv
<1>5. DOMAIN pending' \subseteq Keys /\ clock' \in Nat /\ at \in 0..clock'
  BY <1>1, <1>2 DEF TypeInv, Handled
<1> QED
  BY <1>2, <1>3, <1>4, <1>5 DEF TypeInv

LEMMA RequestStep ==
    ASSUME TrackerInv, NEW d \in Requesters, NEW id \in Ids, NEW kind \in Kinds,
           Request(d, id, kind)
    PROVE  TrackerInv' /\ Promises'
<1> DEFINE key == <<d, id>>
<1>1. key \in Keys /\ UNCHANGED <<clock, expiry>>
  BY LatencyAssumption DEF Keys, Request
<1>2. PICK at \in stamp..clock, seen \in BOOLEAN :
         LET opened == seen /\ kind # "misread"
             closed == seen /\ kind = "misread"
             latency == IF closed THEN ClosedLatency(key, at) ELSE None
             new == [ts |-> at, kind |-> kind,
                     own |-> opened /\ Opposite(key) \notin DOMAIN pending /\ key \notin Held]
             others == Disturbed(exchange, key, seen)
         IN  /\ stamp' = at
             /\ exchange' = [k \in DOMAIN exchange \cup {key} |-> IF k = key THEN new ELSE others[k]]
             /\ IF opened THEN Open(key, at)
                ELSE IF closed THEN Close(key) ELSE UNCHANGED <<tracker, unmeasured>>
             /\ measured' = [NoMeasure EXCEPT !.latency = latency,
                                 !.once = latency # None => Unmeasured(key, latency, at)]
  BY DEF Request
<1> DEFINE opened == seen /\ kind # "misread"
           closed == seen /\ kind = "misread"
           latency == IF closed THEN ClosedLatency(key, at) ELSE None
<1>3. /\ DOMAIN exchange' = DOMAIN exchange \cup {key}
      /\ exchange'[key].ts = at
      /\ exchange'[key].own = (opened /\ Opposite(key) \notin DOMAIN pending /\ key \notin Held)
  BY <1>2
<1>4. \A k \in DOMAIN exchange : k # key =>
         exchange'[k] = IF seen /\ k = Opposite(key) THEN [exchange[k] EXCEPT !.own = FALSE]
                        ELSE exchange[k]
  BY <1>2 DEF Disturbed
<1>5. Promises'
  <2>1. measured'.own = FALSE /\ measured'.due = FALSE /\ measured'.latency = latency
        /\ measured'.once = (latency # None => Unmeasured(key, latency, at))
    BY <1>2 DEF NoMeasure
  <2>2. latency # None => Unmeasured(key, latency, at)
    BY CloseMeasuresOnce DEF TrackerInv
  <2> QED
    BY <2>1, <2>2 DEF Promises, LatencyIsOwn, AnsweredIsMeasured
<1>6. Handled(key, at) /\ FreshInv'
  <2>1. CASE opened
    <3>1. Open(key, at)
      BY <1>2, <2>1
    <3>2. FreshInv'
      BY <3>1, OpenAdds DEF TrackerInv
    <3>3. Handled(key, at)
      <4>1. DOMAIN pending' = DOMAIN pending \cup {key} /\ pending'[key] = at
            /\ \A k \in DOMAIN pending : k # key => pending'[k] = pending[k]
        BY <3>1, OpenAdds
      <4>2. stamp' = at /\ key \in Keys /\ DOMAIN pending \subseteq Keys
        BY <1>1, <1>2 DEF TrackerInv, TypeInv
      <4> HIDE DEF key
      <4> QED
        BY <4>1, <4>2 DEF Handled
    <3> QED
      BY <3>2, <3>3
  <2>2. CASE closed
    <3>1. Close(key)
      BY <1>2, <2>2
    <3>2. FreshInv'
      BY <3>1, CloseTakes DEF TrackerInv
    <3>3. Handled(key, at)
      BY <1>1, <1>2, <3>1, CloseTakes DEF TrackerInv, TypeInv, Handled
    <3> QED
      BY <3>2, <3>3
  <2>3. CASE ~opened /\ ~closed
    <3>1. UNCHANGED <<pending, unmeasured>> /\ stamp' = at
      BY <1>2, <2>3 DEF tracker
    <3> QED
      BY <1>1, <3>1 DEF TrackerInv, TypeInv, Handled, FreshInv
  <2> QED
    BY <2>1, <2>2, <2>3
<1>7. ASSUME NEW k \in DOMAIN exchange', exchange'[k].own
      PROVE  /\ Opposite(k) \notin DOMAIN pending'
             /\ k \in DOMAIN pending' => pending'[k] = exchange'[k].ts
             /\ exchange'[k].ts >= clock' - StaleAfter => k \in DOMAIN pending'
             /\ k \in Held' => exchange'[k].ts < cutoff'
  <2>1. Held' = Held /\ clock' = clock /\ cutoff' = cutoff
    BY <1>1 DEF Held, expiry
  <2>2. CASE k = key
    <3>1. opened /\ Opposite(key) \notin DOMAIN pending /\ key \notin Held
      BY <1>3, <1>7, <2>2
    <3>2. Open(key, at)
      BY <1>2, <3>1
    <3>3. DOMAIN pending' = DOMAIN pending \cup {key} /\ pending'[key] = at
      BY <3>2, OpenAdds
    <3> QED
      BY <1>1, <1>3, <2>1, <2>2, <3>1, <3>3, OppositeKeys
  <2>3. CASE k # key
    <3>1. k \in DOMAIN exchange /\ exchange[k] \in [ts : Nat, kind : Kinds, own : BOOLEAN]
      BY <1>3, <1>7, <2>3 DEF TrackerInv, TypeInv
    <3>2. ~(seen /\ k = Opposite(key))
      BY <1>4, <1>7, <2>3, <3>1
    <3>3. exchange'[k] = exchange[k]
      BY <1>4, <2>3, <3>1, <3>2
    <3>4. CASE k # Opposite(key)
      <4> HIDE DEF key
      <4> QED
        BY <1>1, <1>6, <1>7, <2>3, <3>1, <3>3, <3>4, OthersKept
    <3>5. CASE ~seen
      <4>1. pending' = pending
        BY <1>2, <3>5 DEF tracker
      <4> QED
        BY <1>7, <2>1, <3>1, <3>3, <4>1 DEF TrackerInv, OwnInv
    <3> QED
      BY <3>2, <3>4, <3>5
  <2> QED
    BY <2>2, <2>3
<1>8. TypeInv'
  <2>1. ASSUME NEW k \in DOMAIN exchange'
        PROVE  /\ exchange'[k] \in [ts : Nat, kind : Kinds, own : BOOLEAN]
               /\ exchange'[k].ts = at \/ (k \in DOMAIN exchange /\ exchange'[k].ts = exchange[k].ts)
    <3>1. CASE k = key
      <4>1. at \in Nat
        BY DEF TrackerInv, TypeInv
      <4> QED
        BY <1>2, <1>3, <3>1, <4>1
    <3>2. CASE k # key
      BY <1>3, <1>4, <2>1, <3>2 DEF TrackerInv, TypeInv
    <3> QED
      BY <3>1, <3>2
  <2>2. DOMAIN exchange' \subseteq Keys
    BY <1>1, <1>3 DEF TrackerInv, TypeInv
  <2> HIDE DEF key
  <2> QED
    BY <1>1, <1>6, <2>1, <2>2, TypesKept DEF TrackerInv
<1>9. OwnInv'
  BY <1>7 DEF OwnInv
<1>10. SweepInv'
  BY <1>1 DEF TrackerInv, SweepInv, expiry
<1> QED
  BY <1>5, <1>6, <1>8, <1>9, <1>10 DEF TrackerInv

LEMMA ResponseStep ==
    ASSUME TrackerInv, NEW d \in Requesters, NEW id \in Ids, Response(d, id)
    PROVE  TrackerInv' /\ Promises'
<1> DEFINE key == <<d, id>>
           e == exchange[key]
           back == Opposite(key)
<1>1. key \in DOMAIN exchange /\ key \in Keys /\ back \in Keys /\ back # key /\ Opposite(back) = key
      /\ UNCHANGED <<clock, expiry>>
  BY OppositeKeys DEF Response, TrackerInv, TypeInv
<1>2. /\ DOMAIN exchange' = DOMAIN exchange \ {key}
      /\ \A k \in DOMAIN exchange' :
            exchange'[k] = IF k = back THEN [exchange[k] EXCEPT !.own = FALSE] ELSE exchange[k]
  BY DEF Response, Disturbed, Without
<1>3. PICK at \in stamp..clock :
         LET latency == IF e.kind # "echo" THEN ClosedLatency(back, at) ELSE None IN
         /\ stamp' = at
         /\ measured' = [answered |-> at - e.ts, own |-> e.own,
                         due |-> e.own /\ e.kind = "ack" /\ clock - e.ts <= StaleAfter,
                         latency |-> latency,
                         once |-> latency # None => Unmeasured(back, latency, at)]
         /\ IF e.kind # "echo" THEN Close(back) ELSE Open(back, at)
  BY DEF Response
<1> DEFINE latency == IF e.kind # "echo" THEN ClosedLatency(back, at) ELSE None
<1>4. e \in [ts : Nat, kind : Kinds, own : BOOLEAN] /\ e.ts <= stamp /\ at \in Nat /\ clock \in Nat
      /\ StaleAfter \in Nat
  BY <1>1, LatencyAssumption DEF TrackerInv, TypeInv
<1>5. e.own => /\ back \notin DOMAIN pending
               /\ key \in DOMAIN pending => pending[key] = e.ts
               /\ e.ts >= clock - StaleAfter => key \in DOMAIN pending
  BY <1>1 DEF TrackerInv, OwnInv
<1>6. e.own /\ key \in DOMAIN pending => ClosedLatency(back, at) = at - e.ts
  <2>1. CASE e.own /\ key \in DOMAIN pending
    <3>1. CloseCandidates(back) = {key}
      BY <1>1, <1>5, <2>1 DEF CloseCandidates
    <3>2. (CHOOSE k \in {key} : TRUE) = key
      OBVIOUS
    <3> QED
      BY <1>5, <2>1, <3>1, <3>2 DEF ClosedLatency
  <2> QED
    BY <2>1
<1>7. e.own /\ key \notin DOMAIN pending => ClosedLatency(back, at) = None
  BY <1>1, <1>5 DEF CloseCandidates, ClosedLatency
<1>8. LatencyIsOwn'
  <2>1. latency # None => Unmeasured(back, latency, at)
    BY CloseMeasuresOnce DEF TrackerInv
  <2>2. latency # None /\ e.own => latency = at - e.ts
    BY <1>6, <1>7
  <2> QED
    BY <1>3, <2>1, <2>2 DEF LatencyIsOwn
<1>9. AnsweredIsMeasured'
  <2>1. e.kind = "ack" /\ e.own /\ clock - e.ts <= StaleAfter => latency = at - e.ts
    BY <1>4, <1>5, <1>6
  <2> QED
    BY <1>3, <2>1 DEF AnsweredIsMeasured
<1>10. Handled(back, at) /\ FreshInv'
  <2>1. CASE e.kind # "echo"
    <3>1. Close(back)
      BY <1>3, <2>1
    <3>2. FreshInv'
      BY <3>1, CloseTakes DEF TrackerInv
    <3>3. Handled(back, at)
      BY <1>1, <1>3, <3>1, CloseTakes DEF TrackerInv, TypeInv, Handled
    <3> QED
      BY <3>2, <3>3
  <2>2. CASE e.kind = "echo"
    <3>1. Open(back, at)
      BY <1>3, <2>2
    <3>2. FreshInv'
      BY <3>1, OpenAdds DEF TrackerInv
    <3>3. Handled(back, at)
      <4>1. DOMAIN pending' = DOMAIN pending \cup {back} /\ pending'[back] = at
            /\ \A k \in DOMAIN pending : k # back => pending'[k] = pending[k]
        BY <3>1, OpenAdds
      <4>2. stamp' = at /\ back \in Keys /\ DOMAIN pending \subseteq Keys
        BY <1>1, <1>3 DEF TrackerInv, TypeInv
      <4> HIDE DEF key, back
      <4> QED
        BY <4>1, <4>2 DEF Handled
    <3> QED
      BY <3>2, <3>3
  <2> QED
    BY <2>1, <2>2
<1>11. ASSUME NEW k \in DOMAIN exchange'
       PROVE  /\ k \in DOMAIN exchange /\ k # key
              /\ exchange'[k] \in [ts : Nat, kind : Kinds, own : BOOLEAN]
              /\ exchange'[k].ts = exchange[k].ts
              /\ exchange'[k].own => k # back /\ exchange[k].own /\ exchange'[k] = exchange[k]
  <2>1. k \in DOMAIN exchange /\ k # key /\ exchange[k] \in [ts : Nat, kind : Kinds, own : BOOLEAN]
    BY <1>2, <1>11 DEF TrackerInv, TypeInv
  <2> QED
    BY <1>2, <1>11, <2>1
<1>12. TypeInv'
  <2>1. DOMAIN exchange' \subseteq Keys
    BY <1>2 DEF TrackerInv, TypeInv
  <2> HIDE DEF key, back
  <2> QED
    BY <1>1, <1>10, <1>11, <2>1, TypesKept DEF TrackerInv
<1>13. OwnInv'
  <2> SUFFICES ASSUME NEW k \in DOMAIN exchange', exchange'[k].own
               PROVE  /\ Opposite(k) \notin DOMAIN pending'
                      /\ k \in DOMAIN pending' => pending'[k] = exchange'[k].ts
                      /\ exchange'[k].ts >= clock' - StaleAfter => k \in DOMAIN pending'
                      /\ k \in Held' => exchange'[k].ts < cutoff'
    BY DEF OwnInv
  <2>1. k \in DOMAIN exchange /\ exchange'[k] = exchange[k] /\ exchange[k].own /\ k # back
        /\ k # Opposite(back)
    BY <1>1, <1>11
  <2> HIDE DEF key, back
  <2> QED
    BY <1>1, <1>10, <2>1, OthersKept
<1>14. SweepInv'
  BY <1>1 DEF TrackerInv, SweepInv, expiry
<1> QED
  BY <1>8, <1>9, <1>10, <1>12, <1>13, <1>14 DEF TrackerInv, Promises

LEMMA UnansweredStep ==
    ASSUME TrackerInv, NEW d \in Requesters, NEW id \in Ids, Unanswered(d, id)
    PROVE  TrackerInv' /\ Promises'
<1>1. /\ UNCHANGED <<clock, stamp, pending, unmeasured, expiry>> /\ measured' = NoMeasure
      /\ DOMAIN exchange' \subseteq DOMAIN exchange
      /\ \A k \in DOMAIN exchange' : exchange'[k] = exchange[k]
  BY DEF Unanswered, Without, tracker
<1>2. TypeInv' /\ FreshInv' /\ SweepInv'
  BY <1>1 DEF TrackerInv, TypeInv, FreshInv, SweepInv, expiry
<1>3. Held' = Held
  BY <1>1 DEF Held, expiry
<1>4. OwnInv'
  BY <1>1, <1>3 DEF TrackerInv, OwnInv, expiry
<1> QED
  BY <1>1, <1>2, <1>4 DEF TrackerInv, Promises, LatencyIsOwn, AnsweredIsMeasured, NoMeasure

---------------------------------------------------------------------------
\* The sweep drops only what was stale when it looked.
LEMMA ExpireStep ==
    ASSUME TrackerInv, ExpireNext
    PROVE  TrackerInv' /\ measured' = measured
<1> USE LatencyAssumption
<1>1. UNCHANGED <<clock, endpoints, measured>>
  BY DEF ExpireNext, ExpireBegin, ExpireRaise, ExpireScanned, ExpireEnd, ExpireVisit, ExpirePop
<1> USE DEF TrackerInv, TypeInv, FreshInv, OwnInv, SweepInv, Held, endpoints
<1>2. CASE ExpireBegin
  BY <1>1, <1>2 DEF ExpireBegin, Cutoff, tracker
<1>3. CASE ExpireRaise
  BY <1>1, <1>3 DEF ExpireRaise, tracker
<1>4. CASE ExpireScanned
  BY <1>1, <1>4 DEF ExpireScanned, tracker
<1>5. CASE ExpireEnd
  BY <1>1, <1>5 DEF ExpireEnd
<1>6. ASSUME NEW k \in Keys, ExpireVisit(k)
      PROVE  TrackerInv'
  <2>1. UNCHANGED <<pending, tick, cutoff>> /\ tick = "scan" /\ k \in DOMAIN pending
        /\ stale' = IF IsStale(k) THEN stale \cup {k} ELSE stale
    BY <1>6 DEF ExpireVisit, tracker
  <2>2. k \in DOMAIN exchange /\ exchange[k].own /\ IsStale(k) => exchange[k].ts < cutoff
    BY <2>1 DEF IsStale
  <2>3. OwnInv'
    BY <1>1, <2>1, <2>2
  <2> QED
    BY <1>1, <2>1, <2>3
<1>7. ASSUME NEW k \in Keys, ExpirePop(k)
      PROVE  TrackerInv'
  <2>1. /\ UNCHANGED <<tick, cutoff>> /\ tick = "pop" /\ k \in visited
        /\ visited' = visited \ {k} /\ DOMAIN pending' = DOMAIN pending \ {k}
        /\ \A j \in DOMAIN pending' : pending'[j] = pending[j]
    BY <1>7 DEF ExpirePop, Without
  <2>2. k \in DOMAIN exchange /\ exchange[k].own => ~(exchange[k].ts >= clock - StaleAfter)
    <3>1. k \in DOMAIN exchange /\ exchange[k].own => exchange[k].ts < cutoff /\ exchange[k].ts \in Nat
      BY <2>1
    <3>2. cutoff <= clock - StaleAfter /\ cutoff \in Int /\ clock \in Nat
      BY <2>1
    <3> QED
      BY <3>1, <3>2
  <2>3. OwnInv'
    BY <1>1, <2>1, <2>2
  <2> QED
    BY <1>1, <2>1, <2>3
<1> QED
  BY <1>1, <1>2, <1>3, <1>4, <1>5, <1>6, <1>7 DEF ExpireNext

LEMMA ClockStep ==
    ASSUME TrackerInv, ClockTick
    PROVE  TrackerInv' /\ measured' = measured
<1>1. clock' = clock + 1 /\ UNCHANGED <<tracker, endpoints, measured, expiry>>
  BY DEF ClockTick
<1> USE DEF tracker, endpoints, expiry
<1>2. TypeInv' /\ FreshInv'
  BY <1>1 DEF TrackerInv, TypeInv, FreshInv
<1>3. SweepInv'
  BY <1>1, LatencyAssumption DEF TrackerInv, TypeInv, SweepInv
<1>4. \A k \in DOMAIN exchange :
         exchange[k].ts >= clock' - StaleAfter => exchange[k].ts >= clock - StaleAfter
  BY <1>1, LatencyAssumption DEF TrackerInv, TypeInv
<1>5. OwnInv'
  BY <1>1, <1>4 DEF TrackerInv, OwnInv, Held
<1> QED
  BY <1>1, <1>2, <1>3, <1>5 DEF TrackerInv

LEMMA TrackerStep ==
    ASSUME TrackerInv, Promises, [Next]_vars
    PROVE  TrackerInv' /\ Promises'
<1>1. CASE CaptureNext
  BY <1>1, RequestStep, ResponseStep, UnansweredStep DEF CaptureNext
<1>2. CASE ExpireNext \/ ClockTick
  BY <1>2, ExpireStep, ClockStep DEF Promises, LatencyIsOwn, AnsweredIsMeasured
<1>3. CASE UNCHANGED vars
  BY <1>3 DEF vars, tracker, endpoints, expiry, TrackerInv, TypeInv, FreshInv, OwnInv, SweepInv,
              Held, Promises, LatencyIsOwn, AnsweredIsMeasured
<1> QED
  BY <1>1, <1>2, <1>3 DEF Next

\* Whatever both ends send and the tap misses, delays or mistakes, and wherever the sweep is,
\* a latency is the age of a captured request with the packet's id, each of which is
\* measured once at most, and of the request answered if nothing with its id disturbed it.
THEOREM LatencyBelongs == Spec => []LatencyIsOwn
<1>1. Init => TrackerInv /\ Promises
  BY InitInv
<1>2. TrackerInv /\ Promises /\ [Next]_vars => (TrackerInv /\ Promises)'
  BY TrackerStep
<1>3. Promises => LatencyIsOwn
  BY DEF Promises
<1> QED
  BY <1>1, <1>2, <1>3, PTL DEF Spec

\* A response that is handled in time, to a request taken for one and undisturbed, yields
\* its latency: the sweep by the other clock never drops such an entry, however long it was
\* interrupted and however late the packets are handled.
THEOREM NoTimelyAnswerDropped == Spec => []AnsweredIsMeasured
<1>1. Init => TrackerInv /\ Promises
  BY InitInv
<1>2. TrackerInv /\ Promises /\ [Next]_vars => (TrackerInv /\ Promises)'
  BY TrackerStep
<1>3. Promises => AnsweredIsMeasured
  BY DEF Promises
<1> QED
  BY <1>1, <1>2, <1>3, PTL DEF Spec
=============================================================================
