----------------------------- MODULE Store_proof -----------------------------
(***************************************************************************)
(* The ring is never behind the database, for a ring of any size: what a   *)
(* client is backfilled with covers what was written to disk.  And the     *)
(* writer loses, repeats and reorders nothing, for any number of items.    *)
(***************************************************************************)
EXTENDS Store, SequenceTheorems, WellFoundedInduction, TLAPS

\* The ring holds the last frames, in order, as many as it can.
RingInv ==
    /\ frames \in Nat /\ ring \in Seq(Nat)
    /\ Len(ring) = IF frames < RingSize THEN frames ELSE RingSize
    /\ \A i \in 1..Len(ring) : ring[i] = frames - Len(ring) + i

\* A frame on its way to disk is one that was recorded.
Recorded(i, n) == i \in Items /\ (i[1] = "frame" => i[2] \in 1..n)

PathInv ==
    /\ q \in Seq(Items \cup {Poison}) /\ rows \in Seq(Items) /\ ticks \in Nat
    /\ capture = "put" => frames > 0
    /\ \A k \in 1..Len(q) : q[k] = Poison \/ Recorded(q[k], frames)
    /\ \A k \in 1..Len(rows) : Recorded(rows[k], frames)
    /\ writer = "write" => Recorded(item, frames)

---------------------------------------------------------------------------
LEMMA InitInv == Init => RingInv /\ PathInv
<1> SUFFICES ASSUME Init PROVE RingInv /\ PathInv
  OBVIOUS
<1>1. ring = <<>> /\ q = <<>> /\ rows = <<>> /\ frames = 0 /\ ticks = 0
      /\ capture = "idle" /\ writer = "new"
  BY DEF Init
<1>2. Len(<<>>) = 0 /\ \A S : <<>> \in Seq(S)
  OBVIOUS
<1> QED
  BY <1>1, <1>2, StoreAssumption DEF RingInv, PathInv

\* The ring shifts by one frame with each that is recorded.
LEMMA RingStep ==
    ASSUME RingInv, [Next]_vars
    PROVE  RingInv' /\ frames' >= frames
<1> USE StoreAssumption
<1>1. CASE RingAppend
  <2>1. frames' = frames + 1 /\ ring' = Bounded(Append(ring, frames + 1)) /\ frames \in Nat
        /\ ring \in Seq(Nat) /\ \A i \in 1..Len(ring) : ring[i] = frames - Len(ring) + i
        /\ Len(ring) = IF frames < RingSize THEN frames ELSE RingSize
    BY <1>1 DEF RingAppend, RingInv
  <2> DEFINE r == Append(ring, frames + 1)
  <2>2. /\ r \in Seq(Nat) /\ Len(r) = Len(ring) + 1 /\ r[Len(ring) + 1] = frames + 1
        /\ \A i \in 1..Len(ring) : r[i] = ring[i]
        /\ Len(ring) \in Nat
    BY <2>1
  <2>3. \A i \in 1..Len(r) : r[i] = frames' - Len(r) + i
    <3> SUFFICES ASSUME NEW i \in 1..Len(r) PROVE r[i] = frames' - Len(r) + i
      OBVIOUS
    <3> HIDE DEF r
    <3>1. CASE i = Len(ring) + 1
      BY <2>1, <2>2, <3>1
    <3>2. CASE i \in 1..Len(ring)
      BY <2>1, <2>2, <3>2
    <3> QED
      BY <2>2, <3>1, <3>2
  <2> HIDE DEF r
  <2>4. CASE Len(r) <= RingSize
    <3>1. ring' = r
      BY <2>1, <2>2, <2>4 DEF Bounded, r
    <3> QED
      BY <2>1, <2>2, <2>3, <2>4, <3>1 DEF RingInv
  <2>5. CASE Len(r) > RingSize
    <3>1. ring' = Tail(r)
      BY <2>1, <2>5 DEF Bounded, r
    <3>2. r # <<>>
      BY <2>2
    <3>3. /\ Tail(r) \in Seq(Nat) /\ Len(Tail(r)) = Len(r) - 1
          /\ \A i \in 1..Len(r) - 1 : Tail(r)[i] = r[i + 1]
      BY <2>2, <3>2
    <3>4. Len(ring') = RingSize /\ Len(r) = RingSize + 1 /\ frames >= RingSize
      <4>1. Len(ring) = RingSize /\ frames >= RingSize
        BY <2>1, <2>2, <2>5
      <4> QED
        BY <2>2, <3>1, <3>3, <4>1
    <3>5. \A i \in 1..Len(ring') : ring'[i] = frames' - Len(ring') + i
      <4> SUFFICES ASSUME NEW i \in 1..RingSize PROVE ring'[i] = frames' - RingSize + i
        BY <3>4
      <4>1. i + 1 \in 1..Len(r) /\ i \in 1..Len(r) - 1
        BY <3>4
      <4>2. ring'[i] = r[i + 1] /\ r[i + 1] = frames' - Len(r) + (i + 1)
        BY <2>3, <3>1, <3>3, <4>1
      <4> QED
        BY <2>1, <3>4, <4>2
    <3>6. frames' \in Nat /\ ~(frames' < RingSize) /\ frames' >= frames
      BY <2>1, <3>4
    <3>7. ring' \in Seq(Nat)
      BY <3>1, <3>3
    <3> QED
      BY <3>4, <3>5, <3>6, <3>7 DEF RingInv
  <2> QED
    BY <2>1, <2>2, <2>4, <2>5
<1>2. CASE UNCHANGED <<ring, frames>>
  BY <1>2 DEF RingInv
<1> QED
  BY <1>1, <1>2 DEF Next, CaptureNext, FramePut, StoreStart, RecordMetrics, ServerStop, EngineStop,
                    StopSet, StopPut, Exit, WriterNext, WriterOpen, WriterTest, WriterEmpty,
                    WriterGet, WriterWrite, vars

LEMMA PathStep ==
    ASSUME RingInv, PathInv, [Next]_vars
    PROVE  PathInv'
<1>1. frames \in Nat /\ frames' \in Nat /\ frames' >= frames
  BY RingStep DEF RingInv
<1>2. \A i : Recorded(i, frames) => Recorded(i, frames')
  BY <1>1 DEF Recorded
<1>3. ASSUME NEW i \in Items \cup {Poison}, q' = Append(q, i), i = Poison \/ Recorded(i, frames'),
             UNCHANGED <<rows, writer, item>>, ticks' \in Nat, capture' = "put" => capture = "put"
      PROVE  PathInv'
  <2>1. q' \in Seq(Items \cup {Poison}) /\ Len(q') = Len(q) + 1 /\ q'[Len(q) + 1] = i
        /\ \A k \in 1..Len(q) : q'[k] = q[k]
    BY <1>3 DEF PathInv
  <2>2. \A k \in 1..Len(q') : q'[k] = Poison \/ Recorded(q'[k], frames')
    <3> SUFFICES ASSUME NEW k \in 1..Len(q') PROVE q'[k] = Poison \/ Recorded(q'[k], frames')
      OBVIOUS
    <3>1. CASE k = Len(q) + 1
      BY <1>3, <2>1, <3>1
    <3>2. CASE k \in 1..Len(q)
      BY <1>2, <2>1, <3>2 DEF PathInv
    <3> QED
      BY <2>1, <3>1, <3>2 DEF PathInv
  <2>3. capture' = "put" => frames' > 0
    BY <1>1, <1>3 DEF PathInv
  <2> QED
    BY <1>2, <1>3, <2>1, <2>2, <2>3 DEF PathInv
<1>4. CASE /\ UNCHANGED <<q, rows, ticks>>
           /\ capture' = "put" => frames' > 0
           /\ writer' = "write" => writer = "write" /\ item' = item
  <2>1. \A k \in 1..Len(q) : q[k] = Poison \/ Recorded(q[k], frames')
    BY <1>2 DEF PathInv
  <2>2. \A k \in 1..Len(rows) : Recorded(rows[k], frames')
    BY <1>2 DEF PathInv
  <2>3. writer' = "write" => Recorded(item', frames')
    BY <1>2, <1>4 DEF PathInv
  <2> QED
    BY <1>4, <2>1, <2>2, <2>3 DEF PathInv
<1>5. CASE RingAppend
  <2>1. frames' > 0
    BY <1>1, <1>5 DEF RingAppend
  <2> QED
    BY <1>4, <1>5, <2>1 DEF RingAppend
<1>6. CASE FramePut
  <2>1. Recorded(<<"frame", frames>>, frames') /\ <<"frame", frames>> \in Items
    BY <1>1, <1>6 DEF FramePut, Recorded, Items, PathInv
  <2> QED
    BY <1>3, <1>6, <2>1 DEF FramePut, Put, PathInv
<1>7. CASE RecordMetrics
  <2>1. Recorded(<<"metrics", ticks + 1>>, frames') /\ <<"metrics", ticks + 1>> \in Items
    BY DEF Recorded, Items, PathInv
  <2>2. /\ UNCHANGED <<rows, writer, item, capture>> /\ ticks' = ticks + 1
        /\ q' = Append(q, <<"metrics", ticks + 1>>)
    BY <1>7 DEF RecordMetrics, Put
  <2>3. ticks' \in Nat
    BY <2>2 DEF PathInv
  <2> QED
    BY <1>3, <2>1, <2>2, <2>3
<1>8. CASE WriterGet
  <2>1. /\ q # <<>> /\ q' = Tail(q) /\ UNCHANGED <<rows, capture, ticks>>
        /\ Head(q) # Poison => item' = Head(q)
        /\ writer' = "write" => Head(q) # Poison
    BY <1>8 DEF WriterGet
  <2>2. /\ q' \in Seq(Items \cup {Poison}) /\ Len(q) \in Nat /\ Len(q') = Len(q) - 1
        /\ Head(q) = q[1] /\ 1 \in 1..Len(q)
        /\ \A k \in 1..Len(q) - 1 : q'[k] = q[k + 1] /\ k + 1 \in 1..Len(q)
    BY <2>1 DEF PathInv
  <2>3. \A k \in 1..Len(q') : q'[k] = Poison \/ Recorded(q'[k], frames')
    BY <1>2, <2>2 DEF PathInv
  <2>4. writer' = "write" => Recorded(item', frames')
    BY <1>2, <2>1, <2>2 DEF PathInv
  <2> QED
    BY <1>1, <1>2, <2>1, <2>2, <2>3, <2>4 DEF PathInv
<1>9. CASE WriterWrite
  <2>1. /\ writer = "write" /\ writer' = "loop" /\ UNCHANGED <<q, capture, ticks>>
        /\ rows' = rows \/ rows' = Append(rows, item)
    BY <1>9 DEF WriterWrite
  <2>2. Recorded(item, frames') /\ item \in Items
    BY <1>2, <2>1 DEF PathInv, Recorded
  <2>3. CASE rows' = Append(rows, item)
    <3>1. /\ rows' \in Seq(Items) /\ Len(rows) \in Nat /\ Len(rows') = Len(rows) + 1
          /\ rows'[Len(rows) + 1] = item /\ \A k \in 1..Len(rows) : rows'[k] = rows[k]
      BY <2>2, <2>3 DEF PathInv
    <3>2. \A k \in 1..Len(rows') : Recorded(rows'[k], frames')
      <4> SUFFICES ASSUME NEW k \in 1..Len(rows') PROVE Recorded(rows'[k], frames')
        OBVIOUS
      <4>1. CASE k = Len(rows) + 1
        BY <2>2, <3>1, <4>1
      <4>2. CASE k \in 1..Len(rows)
        BY <1>2, <3>1, <4>2 DEF PathInv
      <4> QED
        BY <3>1, <4>1, <4>2
    <3> QED
      BY <1>1, <1>2, <2>1, <3>1, <3>2 DEF PathInv
  <2>4. CASE rows' = rows
    BY <1>1, <1>2, <2>1, <2>4 DEF PathInv
  <2> QED
    BY <2>1, <2>3, <2>4
<1>10. CASE StopPut
  BY <1>3, <1>10 DEF StopPut, PathInv
<1>11. CASE StoreStart \/ EngineStop \/ StopSet \/ Exit \/ WriterOpen \/ WriterTest
            \/ WriterEmpty \/ UNCHANGED vars
  BY <1>1, <1>4, <1>11 DEF StoreStart, EngineStop, StopSet, Exit, WriterOpen, WriterTest,
                           WriterEmpty, AfterEmpty, vars, PathInv
<1> QED
  BY <1>5, <1>6, <1>7, <1>8, <1>9, <1>10, <1>11 DEF Next, CaptureNext, ServerStop, WriterNext

\* A frame that is queued or on disk is in the ring unless RingSize newer frames have
\* been recorded: a client's backfill is never behind the database.
THEOREM RingCovers == Spec => []RingCoversDisk
<1>1. RingInv /\ PathInv => RingCoversDisk
  <2> SUFFICES ASSUME RingInv, PathInv, NEW i \in Range(q) \cup Range(rows), i[1] = "frame"
               PROVE  i[2] \in Range(ring) \/ frames - i[2] >= RingSize
    BY DEF RingCoversDisk
  <2>1. i = Poison \/ Recorded(i, frames)
    BY DEF Range, PathInv
  <2>2. i[2] \in 1..frames
    BY <2>1 DEF Recorded, Poison
  <2>3. CASE frames - i[2] < Len(ring)
    <3> DEFINE k == i[2] - (frames - Len(ring))
    <3>1. k \in 1..Len(ring)
      <4>1. i[2] \in Nat /\ 1 <= i[2] /\ i[2] <= frames /\ frames \in Nat /\ Len(ring) \in Nat
            /\ frames - i[2] < Len(ring)
        BY <2>2, <2>3 DEF RingInv
      <4> QED
        BY <4>1
    <3>2. ring[k] = i[2]
      <4>1. ring[k] = frames - Len(ring) + k
        BY <3>1 DEF RingInv
      <4>2. i[2] \in Int /\ frames \in Int /\ Len(ring) \in Int
        BY <2>2 DEF RingInv
      <4> QED
        BY <4>1, <4>2
    <3>3. DOMAIN ring = 1..Len(ring)
      BY DEF RingInv
    <3> QED
      BY <3>1, <3>2, <3>3 DEF Range
  <2>4. CASE frames - i[2] >= Len(ring)
    BY <2>2, <2>4, StoreAssumption DEF RingInv
  <2> QED
    BY <2>2, <2>3, <2>4 DEF RingInv
<1>2. Init => RingInv /\ PathInv
  BY InitInv
<1>3. RingInv /\ PathInv /\ [Next]_vars => (RingInv /\ PathInv)'
  BY RingStep, PathStep
<1> QED
  BY <1>1, <1>2, <1>3, PTL DEF Spec

---------------------------------------------------------------------------
(* Induction, and the filter Kept. *)

\* Induction over the naturals: the least number that is not in S would have a
\* predecessor in S.
LEMMA Induction ==
    ASSUME NEW S, 0 \in S, \A n \in Nat : n \in S => n + 1 \in S
    PROVE  Nat \subseteq S
<1> DEFINE T == Nat \ S
           R == {p \in Nat \X Nat : p[1] < p[2]}
<1> SUFFICES ASSUME T # {} PROVE FALSE
  OBVIOUS
<1>1. \E n \in T : \A m \in T : <<m, n>> \notin R
  <2>1. T \subseteq Nat /\ T # {}
    OBVIOUS
  <2>2. IsWellFoundedOn(R, Nat)
    BY NatLessThanWellFounded DEF OpToRel
  <2> HIDE DEF T, R
  <2> QED
    BY <2>1, <2>2, WFMin
<1>2. PICK n \in T : \A m \in T : ~(m < n)
  BY <1>1
<1>3. n - 1 \in Nat /\ n - 1 \in S
  BY <1>2
<1>4. (n - 1) + 1 \in S
  BY <1>3
<1> QED
  BY <1>4

\* Induction over sequences by their last element.
LEMMA SeqInduction ==
    ASSUME NEW V, NEW T, <<>> \in T,
           \A s \in Seq(V), x \in V : s \in T => Append(s, x) \in T
    PROVE  Seq(V) \subseteq T
<1> DEFINE N == {n \in Nat : \A s \in Seq(V) : Len(s) = n => s \in T}
<1>1. 0 \in N
  <2>1. ASSUME NEW s \in Seq(V), Len(s) = 0 PROVE s = <<>>
    BY <2>1
  <2> QED
    BY <2>1
<1>2. ASSUME NEW n \in Nat, n \in N PROVE n + 1 \in N
  <2>1. ASSUME NEW s \in Seq(V), Len(s) = n + 1 PROVE s \in T
    <3> DEFINE front == SubSeq(s, 1, n)
    <3>1. front \in Seq(V) /\ Len(front) = n /\ s[n + 1] \in V
      BY <2>1
    <3>2. s = Append(front, s[n + 1])
      <4>1. \A i \in 1..n : front[i] = s[i]
        BY <2>1
      <4> HIDE DEF front
      <4> QED
        BY <2>1, <3>1, <4>1
    <3>3. front \in T
      BY <1>2, <3>1
    <3> HIDE DEF front
    <3> QED
      BY <3>1, <3>2, <3>3
  <2> QED
    BY <2>1
<1>3. Nat \subseteq N
  <2> HIDE DEF N
  <2> QED
    BY <1>1, <1>2, Induction
<1> QED
  BY <1>3

\* The recursive function of Kept, by name.
KeptBody(s, S, f) ==
    [i \in 0..Len(s) |->
       IF i = 0 THEN <<>>
       ELSE IF s[i] \in S THEN Append(f[i - 1], s[i]) ELSE f[i - 1]]

KeptFun(s, S) == CHOOSE f : f = KeptBody(s, S, f)

\* The recursion defines a function: the ones for shorter prefixes extend to longer ones.
LEMMA KeptExists ==
    ASSUME NEW V, NEW s \in Seq(V), NEW S
    PROVE  \E f : f = KeptBody(s, S, f)
<1> DEFINE Upto(n, f) ==
               /\ f \in [0..n -> Seq(V)] /\ f[0] = <<>>
               /\ \A i \in 1..n : f[i] = IF s[i] \in S THEN Append(f[i - 1], s[i]) ELSE f[i - 1]
           T == {n \in Nat : n <= Len(s) => \E f : Upto(n, f)}
<1>1. 0 \in T
  <2>1. Upto(0, [i \in 0..0 |-> <<>>])
    OBVIOUS
  <2> QED
    BY <2>1
<1>2. ASSUME NEW n \in Nat, n \in T PROVE n + 1 \in T
  <2> SUFFICES ASSUME n + 1 <= Len(s) PROVE \E f : Upto(n + 1, f)
    <3> HIDE DEF Upto
    <3> QED
      OBVIOUS
  <2>1. PICK f : Upto(n, f)
    BY <1>2
  <2>2. s[n + 1] \in V /\ f[n] \in Seq(V)
    BY <2>1
  <2> DEFINE v == IF s[n + 1] \in S THEN Append(f[n], s[n + 1]) ELSE f[n]
             g == [i \in 0..n + 1 |-> IF i <= n THEN f[i] ELSE v]
  <2>3. v \in Seq(V)
    BY <2>2
  <2>4. Upto(n + 1, g)
    <3> HIDE DEF v
    <3>1. g \in [0..n + 1 -> Seq(V)] /\ g[0] = <<>>
      BY <2>1, <2>3
    <3>2. ASSUME NEW i \in 1..n + 1
          PROVE  g[i] = IF s[i] \in S THEN Append(g[i - 1], s[i]) ELSE g[i - 1]
      <4>1. CASE i = n + 1
        <5>1. g[i] = v /\ g[i - 1] = f[n]
          BY <4>1
        <5> QED
          BY <4>1, <5>1 DEF v
      <4>2. CASE i \in 1..n
        BY <2>1, <4>2
      <4> QED
        BY <4>1, <4>2
    <3> QED
      BY <3>1, <3>2
  <2> QED
    BY <2>4
<1>3. Len(s) \in T
  <2> HIDE DEF T
  <2> QED
    BY <1>1, <1>2, Induction
<1>4. PICK f : Upto(Len(s), f)
  BY <1>3
<1>5. f = KeptBody(s, S, f)
  <2>1. ASSUME NEW i \in 0..Len(s)
        PROVE  f[i] = IF i = 0 THEN <<>>
                      ELSE IF s[i] \in S THEN Append(f[i - 1], s[i]) ELSE f[i - 1]
    <3>1. CASE i = 0
      BY <1>4, <3>1
    <3>2. CASE i \in 1..Len(s) /\ i # 0
      <4>1. f[i] = IF s[i] \in S THEN Append(f[i - 1], s[i]) ELSE f[i - 1]
        BY <1>4, <3>2
      <4> HIDE DEF Upto
      <4> QED
        BY <3>2, <4>1, Zenon
    <3> QED
      BY <3>1, <3>2
  <2>2. f = [i \in 0..Len(s) |-> f[i]]
    BY <1>4
  <2> QED
    BY <2>1, <2>2, Zenon DEF KeptBody
<1> QED
  BY <1>5

LEMMA KeptFunIs ==
    ASSUME NEW V, NEW s \in Seq(V), NEW S
    PROVE  /\ Kept(s, S) = KeptFun(s, S)[Len(s)]
           /\ KeptFun(s, S)[0] = <<>>
           /\ \A i \in 1..Len(s) :
                 KeptFun(s, S)[i] = IF s[i] \in S THEN Append(KeptFun(s, S)[i - 1], s[i])
                                    ELSE KeptFun(s, S)[i - 1]
<1> DEFINE f == KeptFun(s, S)
<1>1. f = KeptBody(s, S, f)
  BY KeptExists DEF KeptFun
<1>2. Kept(s, S) = f[Len(s)]
  BY DEF Kept, KeptFun, KeptBody
<1> HIDE DEF f
<1>3. f = [i \in 0..Len(s) |->
             IF i = 0 THEN <<>>
             ELSE IF s[i] \in S THEN Append(f[i - 1], s[i]) ELSE f[i - 1]]
  BY <1>1, Zenon DEF KeptBody
<1>4. f[0] = <<>>
  <2>1. 0 \in 0..Len(s)
    OBVIOUS
  <2> QED
    BY <1>3, <2>1, Zenon
<1>5. ASSUME NEW i \in 1..Len(s)
      PROVE  f[i] = IF s[i] \in S THEN Append(f[i - 1], s[i]) ELSE f[i - 1]
  <2>1. i \in 0..Len(s) /\ i # 0
    OBVIOUS
  <2> QED
    BY <1>3, <2>1, Zenon
<1> QED
  BY <1>2, <1>4, <1>5, Zenon DEF f

\* Two functions with this recursion agree as far as their sequences do.
LEMMA KeptOfPrefix ==
    ASSUME NEW V, NEW s \in Seq(V), NEW x \in V, NEW S
    PROVE  KeptFun(Append(s, x), S)[Len(s)] = KeptFun(s, S)[Len(s)]
<1> DEFINE t == Append(s, x)
           T == {n \in Nat : n <= Len(s) => KeptFun(t, S)[n] = KeptFun(s, S)[n]}
<1>1. t \in Seq(V) /\ Len(t) = Len(s) + 1 /\ \A i \in 1..Len(s) : t[i] = s[i]
  OBVIOUS
<1> HIDE DEF t
<1>2. 0 \in T
  BY <1>1, KeptFunIs
<1>3. ASSUME NEW n \in Nat, n \in T PROVE n + 1 \in T
  <2> SUFFICES ASSUME n + 1 <= Len(s) PROVE KeptFun(t, S)[n + 1] = KeptFun(s, S)[n + 1]
    OBVIOUS
  <2>1. n + 1 \in 1..Len(s) /\ n + 1 \in 1..Len(t) /\ (n + 1) - 1 = n /\ t[n + 1] = s[n + 1]
    BY <1>1
  <2>2. KeptFun(t, S)[n] = KeptFun(s, S)[n]
    BY <1>3, <2>1
  <2>3. KeptFun(t, S)[n + 1] = IF t[n + 1] \in S THEN Append(KeptFun(t, S)[n], t[n + 1])
                               ELSE KeptFun(t, S)[n]
    <3>1. \A i \in 1..Len(t) :
             KeptFun(t, S)[i] = IF t[i] \in S THEN Append(KeptFun(t, S)[i - 1], t[i])
                                ELSE KeptFun(t, S)[i - 1]
      BY <1>1, KeptFunIs
    <3> QED
      BY <2>1, <3>1
  <2>4. KeptFun(s, S)[n + 1] = IF s[n + 1] \in S THEN Append(KeptFun(s, S)[n], s[n + 1])
                               ELSE KeptFun(s, S)[n]
    <3>1. \A i \in 1..Len(s) :
             KeptFun(s, S)[i] = IF s[i] \in S THEN Append(KeptFun(s, S)[i - 1], s[i])
                                ELSE KeptFun(s, S)[i - 1]
      BY KeptFunIs
    <3> QED
      BY <2>1, <3>1
  <2> QED
    BY <2>1, <2>2, <2>3, <2>4
<1>4. Len(s) \in T
  <2> HIDE DEF T
  <2> QED
    BY <1>2, <1>3, Induction
<1> QED
  BY <1>4 DEF t

\* Kept by the last element.
LEMMA KeptEmpty ==
    ASSUME NEW S
    PROVE  Kept(<<>>, S) = <<>>
<1>1. <<>> \in Seq({}) /\ Len(<<>>) = 0
  OBVIOUS
<1>2. Kept(<<>>, S) = KeptFun(<<>>, S)[Len(<<>>)] /\ KeptFun(<<>>, S)[0] = <<>>
  BY <1>1, KeptFunIs, Zenon
<1> QED
  BY <1>1, <1>2

LEMMA KeptAppend ==
    ASSUME NEW V, NEW s \in Seq(V), NEW x \in V, NEW S
    PROVE  Kept(Append(s, x), S) = IF x \in S THEN Append(Kept(s, S), x) ELSE Kept(s, S)
<1> DEFINE t == Append(s, x)
           n == Len(s)
<1>1. t \in Seq(V) /\ Len(t) = n + 1 /\ t[n + 1] = x /\ n \in Nat
  OBVIOUS
<1>2. KeptFun(t, S)[n] = Kept(s, S)
  BY KeptOfPrefix, KeptFunIs
<1> HIDE DEF t, n
<1>3. n + 1 \in 1..Len(t) /\ (n + 1) - 1 = n
  BY <1>1
<1>4. KeptFun(t, S)[n + 1] = IF t[n + 1] \in S THEN Append(KeptFun(t, S)[n], t[n + 1])
                             ELSE KeptFun(t, S)[n]
  <2>1. \A i \in 1..Len(t) :
           KeptFun(t, S)[i] = IF t[i] \in S THEN Append(KeptFun(t, S)[i - 1], t[i])
                              ELSE KeptFun(t, S)[i - 1]
    BY <1>1, KeptFunIs
  <2> QED
    BY <1>3, <2>1
<1>5. Kept(t, S) = KeptFun(t, S)[n + 1]
  BY <1>1, KeptFunIs
<1> QED
  BY <1>1, <1>2, <1>4, <1>5 DEF t

LEMMA KeptIn ==
    ASSUME NEW V, NEW s \in Seq(V), NEW x \in V, NEW S, x \in S
    PROVE  Kept(Append(s, x), S) = Append(Kept(s, S), x)
  BY KeptAppend

LEMMA KeptOut ==
    ASSUME NEW V, NEW s \in Seq(V), NEW x \in V, NEW S, x \notin S
    PROVE  Kept(Append(s, x), S) = Kept(s, S)
  BY KeptAppend

LEMMA KeptType ==
    ASSUME NEW V, NEW S, NEW s \in Seq(V)
    PROVE  Kept(s, S) \in Seq(V) /\ \A i \in 1..Len(Kept(s, S)) : Kept(s, S)[i] \in S
<1> DEFINE Good(u) == u \in Seq(V) /\ \A i \in 1..Len(u) : u[i] \in S
           T == {u \in Seq(V) : Good(Kept(u, S))}
<1>1. <<>> \in T
  <2>1. Kept(<<>>, S) = <<>>
    BY KeptEmpty
  <2>2. Good(<<>>) /\ <<>> \in Seq(V)
    OBVIOUS
  <2> HIDE DEF Good
  <2> QED
    BY <2>1, <2>2
<1>2. ASSUME NEW u \in Seq(V), NEW x \in V, u \in T PROVE Append(u, x) \in T
  <2>1. Good(Kept(u, S))
    BY <1>2
  <2>2. Kept(Append(u, x), S) = IF x \in S THEN Append(Kept(u, S), x) ELSE Kept(u, S)
    BY KeptAppend, Zenon
  <2>3. ASSUME NEW k, Good(k), x \in S PROVE Good(Append(k, x))
    BY <2>3
  <2>4. Good(Kept(Append(u, x), S))
    <3> HIDE DEF Good
    <3> QED
      BY <2>1, <2>2, <2>3
  <2>5. Append(u, x) \in Seq(V)
    OBVIOUS
  <2> HIDE DEF Good
  <2> QED
    BY <2>4, <2>5
<1>3. Seq(V) \subseteq T
  <2> HIDE DEF T
  <2> QED
    BY <1>1, <1>2, SeqInduction
<1> QED
  BY <1>3

LEMMA KeptConcat ==
    ASSUME NEW V, NEW S, NEW s \in Seq(V), NEW t \in Seq(V)
    PROVE  Kept(s \o t, S) = Kept(s, S) \o Kept(t, S)
<1> DEFINE T == {u \in Seq(V) : Kept(s \o u, S) = Kept(s, S) \o Kept(u, S)}
<1>1. <<>> \in T
  <2>1. s \o <<>> = s /\ Kept(<<>>, S) = <<>> /\ Kept(s, S) \o <<>> = Kept(s, S)
    BY KeptEmpty, KeptType
  <2>2. <<>> \in Seq(V)
    OBVIOUS
  <2> QED
    BY <2>1, <2>2, Zenon
<1>2. ASSUME NEW u \in Seq(V), NEW x \in V, u \in T PROVE Append(u, x) \in T
  <2>1. s \o Append(u, x) = Append(s \o u, x) /\ s \o u \in Seq(V) /\ Append(u, x) \in Seq(V)
    OBVIOUS
  <2>2. Kept(s \o u, S) = Kept(s, S) \o Kept(u, S)
    BY <1>2
  <2>3. Kept(Append(s \o u, x), S)
           = IF x \in S THEN Append(Kept(s \o u, S), x) ELSE Kept(s \o u, S)
    BY <2>1, KeptAppend, Zenon
  <2>4. Kept(Append(u, x), S) = IF x \in S THEN Append(Kept(u, S), x) ELSE Kept(u, S)
    BY KeptAppend, Zenon
  <2>5. Kept(s, S) \in Seq(V) /\ Kept(u, S) \in Seq(V)
    BY KeptType
  <2>6. Kept(s, S) \o Append(Kept(u, S), x) = Append(Kept(s, S) \o Kept(u, S), x)
    BY <2>5
  <2> QED
    BY <2>1, <2>2, <2>3, <2>4, <2>6
<1>3. Seq(V) \subseteq T
  <2> HIDE DEF T
  <2> QED
    BY <1>1, <1>2, SeqInduction
<1> QED
  BY <1>3

LEMMA KeptTwice ==
    ASSUME NEW V, NEW A, NEW B, NEW s \in Seq(V)
    PROVE  Kept(Kept(s, A), B) = Kept(s, A \cap B)
<1> DEFINE T == {u \in Seq(V) : Kept(Kept(u, A), B) = Kept(u, A \cap B)}
<1>1. <<>> \in T
  BY KeptEmpty
<1>2. ASSUME NEW u \in Seq(V), NEW x \in V, u \in T PROVE Append(u, x) \in T
  <2>1. Kept(u, A) \in Seq(V) /\ Append(u, x) \in Seq(V)
    BY KeptType
  <2>2. Kept(Append(u, x), A) = IF x \in A THEN Append(Kept(u, A), x) ELSE Kept(u, A)
    BY KeptAppend, Zenon
  <2>3. Kept(Append(Kept(u, A), x), B)
           = IF x \in B THEN Append(Kept(Kept(u, A), B), x) ELSE Kept(Kept(u, A), B)
    BY <2>1, KeptAppend, Zenon
  <2>4. Kept(Append(u, x), A \cap B)
           = IF x \in A \cap B THEN Append(Kept(u, A \cap B), x) ELSE Kept(u, A \cap B)
    BY KeptAppend, Zenon
  <2>5. Kept(Kept(u, A), B) = Kept(u, A \cap B)
    BY <1>2
  <2>6. CASE x \in A
    <3>1. x \in A \cap B <=> x \in B
      BY <2>6
    <3>2. Kept(Kept(Append(u, x), A), B) = Kept(Append(u, x), A \cap B)
      BY <2>2, <2>3, <2>4, <2>5, <2>6, <3>1, Zenon
    <3> QED
      BY <2>1, <3>2
  <2>7. CASE x \notin A
    BY <2>1, <2>2, <2>4, <2>5, <2>7
  <2> QED
    BY <2>6, <2>7
<1>3. Seq(V) \subseteq T
  <2> HIDE DEF T
  <2> QED
    BY <1>1, <1>2, SeqInduction
<1> QED
  BY <1>3

\* What has nothing to leave out is kept as it is.
LEMMA KeptAll ==
    ASSUME NEW V, NEW S, NEW s \in Seq(V), \A i \in 1..Len(s) : s[i] \in S
    PROVE  Kept(s, S) = s
<1> DEFINE T == {u \in Seq(V) : (\A i \in 1..Len(u) : u[i] \in S) => Kept(u, S) = u}
<1>1. <<>> \in T
  BY KeptEmpty
<1>2. ASSUME NEW u \in Seq(V), NEW x \in V, u \in T PROVE Append(u, x) \in T
  <2>1. Kept(Append(u, x), S) = IF x \in S THEN Append(Kept(u, S), x) ELSE Kept(u, S)
    BY KeptAppend, Zenon
  <2>2. ASSUME \A i \in 1..Len(Append(u, x)) : Append(u, x)[i] \in S
        PROVE  x \in S /\ \A i \in 1..Len(u) : u[i] \in S
    <3>1. Len(Append(u, x)) = Len(u) + 1 /\ Append(u, x)[Len(u) + 1] = x
          /\ \A i \in 1..Len(u) : Append(u, x)[i] = u[i]
      OBVIOUS
    <3>2. \A i \in 1..Len(u) + 1 : Append(u, x)[i] \in S
      BY <2>2, <3>1
    <3> HIDE <2>2
    <3>3. Len(u) + 1 \in 1..Len(u) + 1 /\ \A i \in 1..Len(u) : i \in 1..Len(u) + 1
      OBVIOUS
    <3> QED
      BY <3>1, <3>2, <3>3, Zenon
  <2>3. Append(u, x) \in Seq(V)
    OBVIOUS
  <2> QED
    BY <1>2, <2>1, <2>2, <2>3
<1>3. Seq(V) \subseteq T
  <2> HIDE DEF T
  <2> QED
    BY <1>1, <1>2, SeqInduction
<1> QED
  BY <1>3

---------------------------------------------------------------------------
(* The writer loses, repeats and reorders nothing. *)

\* The items on disk, in the writer's hand and queued.
Way == rows \o Kept(InHand \o q, Items)

\* An item that was put on the queue: of n frames and m snapshots.
WasPut(i, n, m) ==
    /\ i \in Items
    /\ i[1] = "frame" => i[2] <= n
    /\ i[1] = "metrics" => i[2] <= m

\* The frame being recorded is not there yet.
FramesPut == IF capture = "put" THEN frames - 1 ELSE frames

Distinct(s) == \A i \in 1..Len(s), j \in 1..Len(s) : i # j => s[i] # s[j]

WayInv ==
    /\ submitted \in Seq(Items) /\ failed \subseteq Items
    /\ \A i \in failed : WasPut(i, FramesPut, ticks)
    /\ \A k \in 1..Len(Way) : WasPut(Way[k], FramesPut, ticks)
    /\ Distinct(Way)
    /\ Way = Kept(submitted, Items \ failed)

\* The writer begins when serve starts it.
StartInv == server = "starting" => writer = "new"

LEMMA Appended ==
    ASSUME NEW V, NEW s \in Seq(V), NEW x \in V
    PROVE  /\ Append(s, x) \in Seq(V) /\ Len(Append(s, x)) = Len(s) + 1
           /\ Append(s, x)[Len(s) + 1] = x
           /\ \A i \in 1..Len(s) : Append(s, x)[i] = s[i]
  OBVIOUS

LEMMA DistinctAppend ==
    ASSUME NEW V, NEW s \in Seq(V), NEW x \in V, Distinct(s), \A i \in 1..Len(s) : s[i] # x
    PROVE  Distinct(Append(s, x))
  BY Appended DEF Distinct

\* Without one of its elements the sequence is distinct still.
LEMMA DistinctWithout ==
    ASSUME NEW s \in Seq(Items), NEW x \in Items, NEW t \in Seq(Items),
           Distinct((s \o <<x>>) \o t)
    PROVE  /\ Distinct(s \o t)
           /\ \A i \in 1..Len(s \o t) : (s \o t)[i] # x
           /\ \A i \in 1..Len(s \o t) : \E j \in 1..Len((s \o <<x>>) \o t) :
                 (s \o t)[i] = ((s \o <<x>>) \o t)[j]
<1> DEFINE u == s \o t
           w == (s \o <<x>>) \o t
           At(i) == IF i <= Len(s) THEN i ELSE i + 1
<1>1. /\ Len(u) = Len(s) + Len(t) /\ Len(w) = Len(s) + 1 + Len(t)
      /\ Len(s) \in Nat /\ Len(t) \in Nat
      /\ w[Len(s) + 1] = x
  OBVIOUS
<1>2. ASSUME NEW i \in 1..Len(u) PROVE At(i) \in 1..Len(w) /\ u[i] = w[At(i)] /\ At(i) # Len(s) + 1
  <2>1. CASE i <= Len(s)
    BY <2>1
  <2>2. CASE i > Len(s)
    <3>1. u[i] = t[i - Len(s)] /\ w[i + 1] = t[i - Len(s)]
      BY <2>2
    <3> QED
      BY <1>1, <2>2, <3>1
  <2> QED
    BY <2>1, <2>2, <1>1
<1>3. \A i \in 1..Len(u), j \in 1..Len(u) : i # j => At(i) # At(j)
  BY <1>1
<1>4. Len(s) + 1 \in 1..Len(w)
  BY <1>1
<1>5. Distinct(w)
  OBVIOUS
<1> HIDE DEF u, w, At
<1>6. Distinct(u)
  <2> SUFFICES ASSUME NEW i \in 1..Len(u), NEW j \in 1..Len(u), i # j PROVE u[i] # u[j]
    BY DEF Distinct
  <2>1. w[At(i)] # w[At(j)]
    BY <1>2, <1>3, <1>5 DEF Distinct
  <2> QED
    BY <1>2, <2>1
<1>7. \A i \in 1..Len(u) : u[i] # x
  BY <1>1, <1>2, <1>4, <1>5 DEF Distinct
<1>8. \A i \in 1..Len(u) : \E j \in 1..Len(w) : u[i] = w[j]
  BY <1>2
<1> QED
  BY <1>6, <1>7, <1>8 DEF u, w

LEMMA PoisonIsNoItem == Poison \notin Items
  BY DEF Poison, Items

LEMMA WayType ==
    ASSUME PathInv
    PROVE  /\ InHand \in Seq(Items \cup {Poison}) /\ InHand \o q \in Seq(Items \cup {Poison})
           /\ rows \in Seq(Items) /\ Kept(InHand \o q, Items) \in Seq(Items)
           /\ Way \in Seq(Items)
           /\ writer = "write" => item \in Items /\ InHand = <<item>>
           /\ writer # "write" => InHand = <<>>
<1>1. writer = "write" => item \in Items
  BY DEF PathInv, Recorded
<1>2. InHand \in Seq(Items \cup {Poison}) /\ q \in Seq(Items \cup {Poison}) /\ rows \in Seq(Items)
  <2>1. CASE writer = "write"
    BY <1>1, <2>1 DEF InHand, PathInv
  <2>2. CASE writer # "write"
    BY <2>2 DEF InHand, PathInv
  <2> QED
    BY <2>1, <2>2
<1> DEFINE k == Kept(InHand \o q, Items)
<1>3. InHand \o q \in Seq(Items \cup {Poison})
  BY <1>2
<1>4. k \in Seq(Items \cup {Poison}) /\ \A i \in 1..Len(k) : k[i] \in Items
  BY <1>3, KeptType
<1> HIDE DEF k
<1>5. k \in Seq(Items)
  BY <1>4
<1> QED
  BY <1>1, <1>2, <1>3, <1>5 DEF InHand, Way, k

\* A step that moves an item along leaves the way as it is.
LEMMA WaySame ==
    ASSUME WayInv, Way' = Way, UNCHANGED <<submitted, failed>>, \A i : WasPut(i, FramesPut, ticks) => WasPut(i, FramesPut', ticks')
    PROVE  WayInv'
<1>1. \A k \in 1..Len(Way') : WasPut(Way'[k], FramesPut', ticks')
  BY DEF WayInv
<1>2. \A i \in failed' : WasPut(i, FramesPut', ticks')
  BY DEF WayInv
<1>3. Distinct(Way')
  BY DEF WayInv
<1> QED
  BY <1>1, <1>2, <1>3 DEF WayInv

\* An item that was not there yet is put at the end of the way.
LEMMA WayPut ==
    ASSUME WayInv, PathInv, NEW i \in Items, Put(i), ~WasPut(i, FramesPut, ticks), WasPut(i, FramesPut', ticks'),
           UNCHANGED <<rows, failed, writer, item>>, \A j : WasPut(j, FramesPut, ticks) => WasPut(j, FramesPut', ticks')
    PROVE  WayInv'
<1> DEFINE V == Items \cup {Poison}
           k == Kept(InHand \o q, Items)
<1>1. q' = Append(q, i) /\ submitted' = Append(submitted, i) /\ InHand' = InHand
  BY DEF Put, InHand
<1>2. /\ InHand \in Seq(V) /\ q \in Seq(V) /\ InHand \o q \in Seq(V) /\ i \in V
      /\ rows \in Seq(Items) /\ k \in Seq(Items) /\ Way = rows \o k /\ Way \in Seq(Items)
  BY WayType DEF PathInv, Way
<1>3. Way' = Append(Way, i)
  <2>1. InHand \o Append(q, i) = Append(InHand \o q, i)
    BY <1>2
  <2>2. Kept(Append(InHand \o q, i), Items) = Append(k, i)
    BY <1>2, KeptIn
  <2>3. rows \o Append(k, i) = Append(rows \o k, i)
    <3> HIDE DEF k
    <3> QED
      BY <1>2
  <2>4. Way' = rows \o Kept(InHand \o Append(q, i), Items)
    BY <1>1 DEF Way
  <2> QED
    BY <1>2, <2>1, <2>2, <2>3, <2>4
<1>4. Kept(submitted', Items \ failed') = Append(Kept(submitted, Items \ failed), i)
  <2>1. submitted \in Seq(Items) /\ i \in Items \ failed /\ failed' = failed
    BY DEF WayInv
  <2>2. Kept(Append(submitted, i), Items \ failed) = Append(Kept(submitted, Items \ failed), i)
    BY <2>1, KeptIn
  <2> QED
    BY <1>1, <2>1, <2>2
<1>5. \A n \in 1..Len(Way) : WasPut(Way[n], FramesPut, ticks) /\ Way[n] # i
  BY DEF WayInv
<1>6. Distinct(Way')
  BY <1>2, <1>3, <1>5, DistinctAppend DEF WayInv
<1>7. \A n \in 1..Len(Way') : WasPut(Way'[n], FramesPut', ticks')
  <2>1. Len(Way') = Len(Way) + 1 /\ Way'[Len(Way) + 1] = i /\ \A n \in 1..Len(Way) : Way'[n] = Way[n]
    BY <1>2, <1>3, Appended
  <2> SUFFICES ASSUME NEW n \in 1..Len(Way') PROVE WasPut(Way'[n], FramesPut', ticks')
    OBVIOUS
  <2>2. CASE n = Len(Way) + 1
    BY <2>1, <2>2
  <2>3. CASE n \in 1..Len(Way)
    BY <1>5, <2>1, <2>3
  <2> QED
    BY <1>2, <2>1, <2>2, <2>3
<1>8. submitted' \in Seq(Items)
  BY <1>1 DEF WayInv
<1>9. Way' = Kept(submitted', Items \ failed')
  BY <1>3, <1>4 DEF WayInv
<1>10. failed' \subseteq Items /\ \A j \in failed' : WasPut(j, FramesPut', ticks')
  BY DEF WayInv
<1> QED
  BY <1>6, <1>7, <1>8, <1>9, <1>10 DEF WayInv

\* The writer takes an item, or the poison that is none, off the queue.
LEMMA WayGet ==
    ASSUME WayInv, PathInv, WriterGet
    PROVE  Way' = Way
<1> DEFINE V == Items \cup {Poison}
<1>1. q \in Seq(V) /\ q # <<>> /\ q' = Tail(q) /\ rows' = rows /\ writer = "get"
  BY DEF WriterGet, PathInv
<1>2. q = <<Head(q)>> \o Tail(q) /\ Head(q) \in V /\ Tail(q) \in Seq(V) /\ <<Head(q)>> \in Seq(V)
  BY <1>1
<1>3. InHand = <<>> /\ InHand \o q = q
  BY <1>1 DEF InHand
<1>4. CASE Head(q) = Poison
  <2>1. InHand' = <<>> /\ InHand' \o q' = Tail(q)
    BY <1>1, <1>2, <1>4 DEF InHand, WriterGet
  <2>2. Kept(q, Items) = Kept(<<Poison>>, Items) \o Kept(Tail(q), Items)
    BY <1>2, <1>4, KeptConcat
  <2>3. Kept(<<Poison>>, Items) = <<>>
    <3>1. <<Poison>> = Append(<<>>, Poison) /\ <<>> \in Seq(V) /\ Poison \in V
      OBVIOUS
    <3>2. Kept(Append(<<>>, Poison), Items) = Kept(<<>>, Items)
      BY <3>1, KeptOut, PoisonIsNoItem
    <3> QED
      BY <3>1, <3>2, PoisonIsNoItem, KeptEmpty
  <2>4. Kept(Tail(q), Items) \in Seq(V)
    BY <1>2, KeptType
  <2>5. Kept(q, Items) = Kept(Tail(q), Items)
    BY <2>2, <2>3, <2>4
  <2> QED
    BY <1>1, <1>3, <2>1, <2>5 DEF Way
<1>5. CASE Head(q) # Poison
  <2>1. InHand' = <<Head(q)>> /\ InHand' \o q' = q
    BY <1>1, <1>2, <1>5 DEF InHand, WriterGet
  <2> QED
    BY <1>1, <1>3, <2>1 DEF Way
<1> QED
  BY <1>4, <1>5

\* The INSERT makes the item a row, or takes it off the way when it fails.
LEMMA WayWrite ==
    ASSUME WayInv, PathInv, WriterWrite, \A i : WasPut(i, FramesPut, ticks) => WasPut(i, FramesPut', ticks')
    PROVE  WayInv'
<1> DEFINE V == Items \cup {Poison}
           k == Kept(q, Items)
<1>1. /\ writer = "write" /\ writer' = "loop" /\ UNCHANGED <<q, submitted>>
      /\ item \in Items /\ InHand = <<item>> /\ InHand' = <<>> /\ rows \in Seq(Items)
      /\ q \in Seq(V)
  BY WayType DEF WriterWrite, InHand, PathInv
<1>2. k \in Seq(Items)
  <2>1. k \in Seq(V) /\ \A i \in 1..Len(k) : k[i] \in Items
    BY <1>1, KeptType
  <2> HIDE DEF k
  <2> QED
    BY <2>1
<1>3. Way = (rows \o <<item>>) \o k
  <2>1. Kept(<<item>>, Items) = <<item>>
    <3>1. <<item>> \in Seq(Items) /\ \A i \in 1..Len(<<item>>) : <<item>>[i] \in Items
      BY <1>1
    <3> QED
      BY <3>1, KeptAll
  <2>2. Kept(<<item>> \o q, Items) = <<item>> \o k
    <3>1. <<item>> \in Seq(V)
      BY <1>1
    <3>2. Kept(<<item>> \o q, Items) = Kept(<<item>>, Items) \o Kept(q, Items)
      BY <1>1, <3>1, KeptConcat
    <3> QED
      BY <2>1, <3>2
  <2>3. rows \o (<<item>> \o k) = (rows \o <<item>>) \o k
    <3> HIDE DEF k
    <3> QED
      BY <1>1, <1>2
  <2>4. Way = rows \o Kept(<<item>> \o q, Items)
    BY <1>1 DEF Way
  <2> QED
    BY <2>2, <2>3, <2>4
<1>4. Way' = rows' \o k
  <2>1. <<>> \o q = q
    BY <1>1
  <2>2. Way' = rows' \o Kept(<<>> \o q, Items)
    BY <1>1 DEF Way
  <2> QED
    BY <2>1, <2>2
<1>5. CASE rows' = Append(rows, item) /\ failed' = failed
  <2>1. Way' = Way
    <3> HIDE DEF k
    <3>1. Append(rows, item) = rows \o <<item>>
      BY <1>1
    <3> QED
      BY <1>3, <1>4, <1>5, <3>1
  <2> QED
    BY <1>1, <1>5, <2>1, WaySame
<1>6. CASE rows' = rows /\ failed' = failed \cup {item}
  <2> HIDE DEF k
  <2>1. /\ Distinct(Way') /\ \A i \in 1..Len(Way') : Way'[i] # item
        /\ \A i \in 1..Len(Way') : \E j \in 1..Len(Way) : Way'[i] = Way[j]
    <3>1. rows \in Seq(Items) /\ item \in Items /\ k \in Seq(Items) /\ Way' = rows \o k
      BY <1>1, <1>2, <1>4, <1>6
    <3>2. Way = (rows \o <<item>>) \o k /\ Distinct(Way)
      BY <1>3 DEF WayInv
    <3>3. /\ Distinct(rows \o k)
          /\ \A i \in 1..Len(rows \o k) : (rows \o k)[i] # item
          /\ \A i \in 1..Len(rows \o k) : \E j \in 1..Len((rows \o <<item>>) \o k) :
                (rows \o k)[i] = ((rows \o <<item>>) \o k)[j]
      <4>1. Distinct((rows \o <<item>>) \o k)
        BY <3>2
      <4> QED
        BY <3>1, <4>1, DistinctWithout
    <3> QED
      BY <3>1, <3>2, <3>3
  <2>2. \A i \in 1..Len(Way') : WasPut(Way'[i], FramesPut', ticks')
    BY <2>1 DEF WayInv
  <2>3. WasPut(item, FramesPut, ticks)
    <3>1. Len(rows) + 1 \in 1..Len(Way) /\ Way[Len(rows) + 1] = item
      BY <1>1, <1>2, <1>3
    <3> QED
      BY <3>1 DEF WayInv
  <2>4. failed' \subseteq Items /\ \A i \in failed' : WasPut(i, FramesPut', ticks')
    BY <1>1, <1>6, <2>3 DEF WayInv
  <2>5. Way' = Kept(submitted, (Items \ failed) \cap (Items \ {item}))
    <3> DEFINE B == Items \ {item}
    <3>1. Way = Kept(submitted, Items \ failed) /\ submitted \in Seq(Items)
      BY DEF WayInv
    <3>2. Kept(Way, B) = Kept(submitted, (Items \ failed) \cap B)
      BY <3>1, KeptTwice
    <3>3. Kept(Way, B) = Kept(rows \o <<item>>, B) \o Kept(k, B)
      <4>1. rows \o <<item>> \in Seq(Items)
        BY <1>1
      <4> QED
        BY <1>2, <1>3, <4>1, KeptConcat
    <3>4. Kept(rows \o <<item>>, B) = Kept(rows, B)
      <4>1. rows \o <<item>> = Append(rows, item)
        BY <1>1
      <4>2. Kept(Append(rows, item), B) = Kept(rows, B)
        BY <1>1, KeptOut
      <4> QED
        BY <4>1, <4>2
    <3>5. Kept(rows \o k, B) = Kept(rows, B) \o Kept(k, B)
      BY <1>1, <1>2, KeptConcat
    <3>6. Kept(rows \o k, B) = rows \o k
      <4>1. Way' = rows \o k /\ Way' \in Seq(Items)
        BY <1>1, <1>2, <1>4, <1>6
      <4>2. \A i \in 1..Len(Way') : Way'[i] \in B
        BY <2>1, <4>1
      <4> HIDE DEF B
      <4> QED
        BY <4>1, <4>2, KeptAll
    <3> QED
      BY <1>4, <1>6, <3>2, <3>3, <3>4, <3>5, <3>6, Zenon
  <2>6. (Items \ failed) \cap (Items \ {item}) = Items \ failed'
    BY <1>6
  <2> QED
    BY <1>1, <2>1, <2>2, <2>4, <2>5, <2>6 DEF WayInv
<1> QED
  BY <1>5, <1>6 DEF WriterWrite

LEMMA StartStep == StartInv /\ [Next]_vars => StartInv'
  BY DEF StartInv, Next, CaptureNext, RingAppend, FramePut, StoreStart, RecordMetrics, ServerStop,
         EngineStop, StopSet, StopPut, Exit, WriterNext, WriterOpen, WriterTest, WriterEmpty,
         WriterGet, WriterWrite, vars

LEMMA WayStep ==
    ASSUME RingInv, PathInv, StartInv, WayInv, [Next]_vars
    PROVE  WayInv'
<1>1. frames \in Nat /\ ticks \in Nat /\ (capture = "put" => frames > 0)
  BY DEF RingInv, PathInv
<1>2. ASSUME NEW i, FramesPut' >= FramesPut, ticks' >= ticks, ticks' \in Nat, FramesPut' \in Nat,
             WasPut(i, FramesPut, ticks)
      PROVE  WasPut(i, FramesPut', ticks')
  <2>1. i[1] \in {"frame", "metrics"} /\ i[2] \in Nat
    BY <1>2 DEF WasPut, Items
  <2>2. FramesPut \in Nat
    BY <1>1 DEF FramesPut
  <2> QED
    BY <1>1, <1>2, <2>1, <2>2 DEF WasPut
<1>3. CASE UNCHANGED <<rows, q, submitted, failed, ticks, FramesPut, InHand>>
  <2>1. Way' = Way
    BY <1>3 DEF Way
  <2> QED
    BY <1>3, <2>1, WaySame DEF WasPut
<1>4. CASE RingAppend
  BY <1>1, <1>3, <1>4 DEF RingAppend, FramesPut, InHand
<1>5. CASE FramePut
  <2> DEFINE i == <<"frame", frames>>
  <2>1. /\ FramesPut = frames - 1 /\ FramesPut' = frames /\ ticks' = ticks
        /\ UNCHANGED <<rows, failed, writer, item>> /\ Put(i)
    BY <1>5 DEF FramePut, FramesPut
  <2>2. i \in Items /\ i[1] = "frame" /\ i[2] = frames
    BY <1>1 DEF Items
  <2>3. ~WasPut(i, FramesPut, ticks) /\ WasPut(i, FramesPut', ticks')
    BY <1>1, <2>1, <2>2 DEF WasPut
  <2>4. \A j : WasPut(j, FramesPut, ticks) => WasPut(j, FramesPut', ticks')
    <3> HIDE DEF i
    <3> QED
      BY <1>1, <1>2, <2>1
  <2> HIDE DEF i
  <2> QED
    BY <2>1, <2>2, <2>3, <2>4, WayPut
<1>6. CASE RecordMetrics
  <2> DEFINE i == <<"metrics", ticks + 1>>
  <2>1. /\ FramesPut' = FramesPut /\ ticks' = ticks + 1 /\ FramesPut \in Nat
        /\ UNCHANGED <<rows, failed, writer, item>> /\ Put(i)
    BY <1>1, <1>6 DEF RecordMetrics, FramesPut
  <2>2. i \in Items /\ i[1] = "metrics" /\ i[2] = ticks + 1
    BY <1>1 DEF Items
  <2>3. ~WasPut(i, FramesPut, ticks) /\ WasPut(i, FramesPut', ticks')
    BY <1>1, <2>1, <2>2 DEF WasPut
  <2>4. \A j : WasPut(j, FramesPut, ticks) => WasPut(j, FramesPut', ticks')
    <3> HIDE DEF i
    <3> QED
      BY <1>1, <1>2, <2>1
  <2> HIDE DEF i
  <2> QED
    BY <2>1, <2>2, <2>3, <2>4, WayPut
<1>7. CASE StopPut
  <2>1. /\ UNCHANGED <<rows, submitted, failed, ticks, FramesPut, InHand>>
        /\ q' = Append(q, Poison)
    BY <1>7 DEF StopPut, FramesPut, InHand
  <2>2. Way' = Way
    <3> DEFINE V == Items \cup {Poison}
    <3>1. InHand \in Seq(V) /\ q \in Seq(V) /\ InHand \o q \in Seq(V) /\ Poison \in V
      BY WayType DEF PathInv
    <3>2. InHand \o Append(q, Poison) = Append(InHand \o q, Poison)
      BY <3>1
    <3>3. Kept(Append(InHand \o q, Poison), Items) = Kept(InHand \o q, Items)
      BY <3>1, KeptOut, PoisonIsNoItem
    <3> QED
      BY <2>1, <3>2, <3>3 DEF Way
  <2> QED
    BY <2>1, <2>2, WaySame DEF WasPut
<1>8. CASE WriterGet
  <2>1. Way' = Way
    BY <1>8, WayGet
  <2>2. UNCHANGED <<submitted, failed, ticks, FramesPut>>
    BY <1>8 DEF WriterGet, FramesPut
  <2> QED
    BY <2>1, <2>2, WaySame DEF WasPut
<1>9. CASE WriterWrite
  <2>1. UNCHANGED <<ticks, FramesPut>>
    BY <1>9 DEF WriterWrite, FramesPut
  <2> QED
    BY <1>9, <2>1, WayWrite DEF WasPut
<1>10. CASE WriterTest
  BY <1>3, <1>10 DEF WriterTest, FramesPut, InHand
<1>11. CASE EngineStop
  BY <1>3, <1>11 DEF EngineStop, FramesPut, InHand
<1>12. CASE WriterOpen \/ WriterEmpty
  BY <1>3, <1>12 DEF WriterOpen, WriterEmpty, AfterEmpty, FramesPut, InHand
<1>13. CASE StoreStart \/ StopSet \/ Exit \/ UNCHANGED vars
  BY <1>3, <1>13 DEF StartInv, StoreStart, StopSet, Exit, vars, FramesPut, InHand
<1> QED
  BY <1>4, <1>5, <1>6, <1>7, <1>8, <1>9, <1>10, <1>11, <1>12, <1>13
     DEF Next, CaptureNext, ServerStop, WriterNext

\* Every item that was recorded is a row, failed, in the writer's hand or queued, once
\* and in the order it was recorded, whatever the threads do and whichever INSERT fails.
THEOREM NothingLost == Spec => []NothingLostOnTheWay
<1>1. Init => WayInv
  <2> SUFFICES ASSUME Init PROVE WayInv
    OBVIOUS
  <2>1. rows = <<>> /\ q = <<>> /\ InHand = <<>> /\ submitted = <<>> /\ failed = {}
    BY DEF Init, InHand
  <2>2. Kept(InHand \o q, Items) = <<>>
    <3>1. InHand \o q = <<>>
      BY <2>1
    <3> QED
      BY <3>1, KeptEmpty
  <2>3. Way = <<>> /\ Kept(submitted, Items \ failed) = <<>> /\ Len(<<>>) = 0
    BY <2>1, <2>2, KeptEmpty DEF Way
  <2> QED
    BY <2>1, <2>3 DEF WayInv, Distinct
<1>2. RingInv /\ PathInv /\ StartInv /\ WayInv /\ [Next]_vars
         => (RingInv /\ PathInv /\ StartInv /\ WayInv)'
  BY RingStep, PathStep, StartStep, WayStep
<1>3. WayInv => NothingLostOnTheWay
  BY DEF WayInv, Way, NothingLostOnTheWay
<1>4. Init => StartInv
  BY DEF Init, StartInv
<1> QED
  BY <1>1, <1>2, <1>3, <1>4, InitInv, PTL DEF Spec
============================================================================
