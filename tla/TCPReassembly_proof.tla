------------------------ MODULE TCPReassembly_proof ------------------------
(***************************************************************************)
(* Proofs about TCPReassembly, for every sequence space, initial sequence  *)
(* number, stream length, segmentation and number of packets.              *)
(***************************************************************************)
EXTENDS TCPReassembly, SequenceTheorems, TLAPS

---------------------------------------------------------------------------
(* Facts about the operators push is written with. *)

\* The payload of n bytes from position p is a sequence of n positions.
LEMMA BytesType ==
    ASSUME NEW p \in Nat, NEW n \in Nat
    PROVE  /\ Bytes(p, n) \in Seq(Nat)
           /\ Len(Bytes(p, n)) = n
           /\ \A i \in 1..n : Bytes(p, n)[i] = p + i - 1
<1>1. Bytes(p, n) \in [1..n -> Nat]
  BY DEF Bytes
<1>2. QED
  BY <1>1 DEF Bytes

\* A sequence whose elements count up from p is the payload of that position.
LEMMA BytesUnique ==
    ASSUME NEW p \in Nat, NEW s \in Seq(Nat),
           \A i \in 1..Len(s) : s[i] = p + i - 1
    PROVE  s = Bytes(p, Len(s))
<1>1. s = [i \in 1..Len(s) |-> s[i]]
  OBVIOUS
<1>2. QED
  BY <1>1 DEF Bytes

\* Cutting the first d bytes off a payload leaves the payload d positions later.
LEMMA TrimBytes ==
    ASSUME NEW p \in Nat, NEW n \in Nat, NEW d \in Nat, d < n
    PROVE  SubSeq(Bytes(p, n), d + 1, n) = Bytes(p + d, n - d)
<1> DEFINE b == Bytes(p, n)
           t == SubSeq(b, d + 1, n)
<1>0. b \in Seq(Nat) /\ Len(b) = n /\ \A i \in 1..n : b[i] = p + i - 1
  BY BytesType
<1>1. \A i \in 1..n : b[i] \in Nat /\ b[i] = p + i - 1
  BY <1>0
<1>2. \A i \in (d + 1)..n : b[i] \in Nat
  BY <1>1
<1> HIDE DEF b
<1>3. /\ t \in Seq(Nat)
      /\ Len(t) = IF d + 1 <= n THEN n - (d + 1) + 1 ELSE 0
      /\ \A i \in 1..(n - (d + 1) + 1) : t[i] = b[(d + 1) + i - 1]
  BY <1>2, SubSeqProperties
<1>4. Len(t) = n - d
  BY <1>3
<1>5. \A i \in 1..Len(t) : t[i] = (p + d) + i - 1
  BY <1>1, <1>3, <1>4
<1> HIDE DEF t
<1>6. t = Bytes(p + d, Len(t))
  <2>1. p + d \in Nat
    OBVIOUS
  <2>2. QED
    BY <1>3, <1>5, <2>1, BytesUnique
<1>7. QED
  BY <1>4, <1>6 DEF t, b

\* A payload followed by the one that starts where it ends is one longer payload.
LEMMA ConcatBytes ==
    ASSUME NEW p \in Nat, NEW n \in Nat, NEW m \in Nat
    PROVE  Bytes(p, n) \o Bytes(p + n, m) = Bytes(p, n + m)
<1> DEFINE a == Bytes(p, n)
           b == Bytes(p + n, m)
           c == a \o b
<1>1. a \in Seq(Nat) /\ Len(a) = n /\ \A i \in 1..n : a[i] = p + i - 1
  BY BytesType
<1>2. b \in Seq(Nat) /\ Len(b) = m /\ \A i \in 1..m : b[i] = (p + n) + i - 1
  <2>1. p + n \in Nat
    OBVIOUS
  <2>2. QED
    BY <2>1, BytesType
<1> HIDE DEF a, b
<1>3. /\ c \in Seq(Nat)
      /\ Len(c) = n + m
      /\ \A i \in 1..(n + m) : c[i] = IF i <= n THEN a[i] ELSE b[i - n]
  BY <1>1, <1>2, ConcatProperties
<1>4. \A i \in 1..Len(c) : c[i] = p + i - 1
  BY <1>1, <1>2, <1>3
<1> HIDE DEF c
<1>5. c = Bytes(p, Len(c))
  BY <1>3, <1>4, BytesUnique
<1>6. QED
  BY <1>3, <1>5 DEF c, a, b

\* A position has a sequence number inside the space.
LEMMA SeqOfType ==
    ASSUME NEW p \in 0..StreamLen
    PROVE  SeqOf(p) \in Nat /\ SeqOf(p) < SeqMod
BY SeqSpaceAssumption DEF SeqOf

---------------------------------------------------------------------------
(* Type correctness. *)

\* What push buffers is a non-empty run of bytes, at a natural key.
LEMMA TrimmedType ==
    ASSUME TypeOK, NEW p \in Nat, NEW n \in Nat, n > 0, p + n <= StreamLen,
           ~AlreadyConsumed(SeqOf(p), n)
    PROVE  /\ TrimOffset(SeqOf(p)) \in Nat
           /\ TrimOffset(SeqOf(p)) < n
           /\ Trimmed(p, n) = Bytes(p + TrimOffset(SeqOf(p)),
                                    n - TrimOffset(SeqOf(p)))
           /\ Trimmed(p, n) \in Seq(Nat)
           /\ Len(Trimmed(p, n)) = n - TrimOffset(SeqOf(p))
<1> DEFINE seq == SeqOf(p)
           d == TrimOffset(seq)
<1>1. seq \in Nat
  BY SeqOfType, SeqSpaceAssumption
<1>2. NextSeq(seq) \in Nat \cup {None}
  BY <1>1 DEF TypeOK, NextSeq
<1>3. d \in Nat /\ d < n
  BY <1>1, <1>2 DEF TrimOffset, AlreadyConsumed, None
<1> HIDE DEF d
<1>4. Trimmed(p, n) = Bytes(p + d, n - d)
  BY <1>3, TrimBytes DEF Trimmed, d
<1>5. /\ Bytes(p + d, n - d) \in Seq(Nat)
      /\ Len(Bytes(p + d, n - d)) = n - d
  <2>1. p + d \in Nat /\ n - d \in Nat
    BY <1>3
  <2>2. QED
    BY <2>1, BytesType
<1>6. QED
  BY <1>3, <1>4, <1>5 DEF d

\* A step of push keeps every field in its type.
LEMMA TypeOKStep ==
    TypeOK /\ [Next]_vars => TypeOK'
<1> SUFFICES ASSUME TypeOK, [Next]_vars PROVE TypeOK'
  OBVIOUS
<1>1. ASSUME NEW s \in Segments, PushEmpty(s[1], s[2]) PROVE TypeOK'
  BY <1>1, SegmentsAssumption DEF PushEmpty, tcp_in, TypeOK
<1>2. ASSUME NEW s \in Segments, Arrive(s[1], s[2])
      PROVE  /\ s[1] \in Nat /\ s[2] \in Nat /\ s[2] > 0
             /\ s[1] + s[2] <= StreamLen
             /\ initial_seq' \in Nat \cup {None}
             /\ next_seq' \in Nat \cup {None}
             /\ last_seq' \in Nat
             /\ joinPos' \in 0..StreamLen - 1 \cup {None}
             /\ captured' \subseteq Segments
             /\ ordered' \in BOOLEAN /\ pushes' \in 0..MaxPush
  <2>1. s[1] \in Nat /\ s[2] \in Nat /\ s[2] > 0 /\ s[1] + s[2] <= StreamLen
    BY <1>2, SegmentsAssumption DEF Arrive
  <2>2. SeqOf(s[1]) \in Nat
    BY <2>1, SeqOfType, SeqSpaceAssumption
  <2>3. /\ initial_seq' \in Nat \cup {None}
        /\ next_seq' \in Nat \cup {None}
        /\ last_seq' \in Nat
    BY <1>2, <2>2 DEF Arrive, NextSeq, TypeOK
  <2>4. /\ joinPos' \in 0..StreamLen - 1 \cup {None}
        /\ captured' \subseteq Segments
        /\ ordered' \in BOOLEAN /\ pushes' \in 0..MaxPush
    <3>1. s[1] \in 0..StreamLen - 1
      BY <2>1, SeqSpaceAssumption
    <3>2. <<s[1], s[2]>> \in Segments
      BY SegmentsAssumption
    <3>3. ordered' \in BOOLEAN
      BY <1>2 DEF Arrive
    <3>4. pushes' \in 0..MaxPush
      BY <1>2, SegmentsAssumption DEF Arrive, TypeOK
    <3>5. QED
      BY <1>2, <3>1, <3>2, <3>3, <3>4 DEF Arrive, TypeOK
  <2>5. QED
    BY <2>1, <2>3, <2>4
<1>3. ASSUME NEW s \in Segments, PushDuplicate(s[1], s[2]) PROVE TypeOK'
  <2>1. Arrive(s[1], s[2])
    BY <1>3 DEF PushDuplicate
  <2>2. retransmits' \in Nat
    BY <1>3 DEF PushDuplicate, TypeOK
  <2>3. QED
    BY <1>2, <1>3, <2>1, <2>2 DEF PushDuplicate, TypeOK
<1>4. ASSUME NEW s \in Segments, PushBuffer(s[1], s[2]) PROVE TypeOK'
  <2> DEFINE p == s[1]
             n == s[2]
             key == SeqOf(p) + TrimOffset(SeqOf(p))
  <2>1. Arrive(p, n) /\ ~AlreadyConsumed(SeqOf(p), n)
    BY <1>4 DEF PushBuffer
  <2>2. p \in Nat /\ n \in Nat /\ n > 0 /\ p + n <= StreamLen
    BY <1>2, <2>1
  <2>3. /\ TrimOffset(SeqOf(p)) \in Nat
        /\ Trimmed(p, n) \in Seq(Nat) \ {<<>>}
        /\ Len(Trimmed(p, n)) \in Nat
    <3>1. /\ TrimOffset(SeqOf(p)) \in Nat
          /\ Trimmed(p, n) \in Seq(Nat)
          /\ Len(Trimmed(p, n)) > 0
      BY <2>1, <2>2, TrimmedType
    <3>2. QED
      BY <3>1
  <2>4. key \in Nat
    <3>1. p \in 0..StreamLen
      BY <2>2, SeqSpaceAssumption
    <3>2. SeqOf(p) \in Nat
      BY <3>1, SeqOfType
    <3>3. QED
      BY <2>3, <3>2
  <2>5. pending' = [k \in DOMAIN pending \cup {key} |->
                      IF k = key THEN Trimmed(p, n) ELSE pending[k]]
    BY <1>4 DEF PushBuffer
  <2>6. /\ DOMAIN pending' = DOMAIN pending \cup {key}
        /\ \A k \in DOMAIN pending' : pending'[k] \in Seq(Nat) \ {<<>>}
    BY <2>3, <2>5 DEF TypeOK
  <2>7. retransmits' \in Nat /\ bytes_seen' \in Nat
    BY <1>4, <2>3 DEF PushBuffer, Counted, TypeOK
  <2>8. pending' = [k \in DOMAIN pending' |-> pending'[k]]
    BY <2>5
  <2>9. QED
    BY <1>2, <1>4, <2>1, <2>4, <2>6, <2>7, <2>8 DEF PushBuffer, TypeOK
<1>5. CASE DrainChunk
  <2>1. pending[next_seq] \in Seq(Nat) /\ next_seq \in Nat
    BY <1>5 DEF DrainChunk, TypeOK
  <2>2. out' \in Seq(Nat)
    BY <1>5, <2>1, ConcatProperties DEF DrainChunk, TypeOK
  <2>3. next_seq' \in Nat
    BY <1>5, <2>1 DEF DrainChunk, DrainEnd
  <2>4. /\ DOMAIN pending' = DOMAIN pending \ {next_seq}
        /\ \A k \in DOMAIN pending' : pending'[k] = pending[k]
        /\ pending' = [k \in DOMAIN pending' |-> pending'[k]]
    BY <1>5 DEF DrainChunk, StillPending
  <2>5. QED
    BY <1>5, <2>2, <2>3, <2>4 DEF DrainChunk, history, TypeOK
<1>6. CASE Return
  <2>1. delivered' \in Seq(Nat)
    BY <1>6, ConcatProperties DEF Return, TypeOK
  <2>2. QED
    BY <1>6, <2>1 DEF Return, tcp_in, history, TypeOK
<1>7. CASE UNCHANGED vars
  BY <1>7 DEF vars, tcp_in, history, TypeOK
<1>8. QED
  BY <1>1, <1>3, <1>4, <1>5, <1>6, <1>7 DEF Next, Push

\* Every reachable state of a flow is well typed.
THEOREM TypeCorrect == Spec => []TypeOK
<1>1. Init => TypeOK
  BY SegmentsAssumption DEF Init, TypeOK
<1>2. TypeOK /\ [Next]_vars => TypeOK'
  BY TypeOKStep
<1>3. QED
  BY <1>1, <1>2, PTL DEF Spec

---------------------------------------------------------------------------
(* push returns the sender's bytes. *)

\* Where a segment's bytes belong: once trimmed, the payload of a segment with new
\* bytes starts at the stream position of its key, unless the segment is from the far
\* side of a wraparound, whose key no byte of this stream can reach.
LEMMA BufferKeyPos ==
    ASSUME TypeOK, ReassemblyInv, initial_seq # None,
           NEW p \in Nat, NEW n \in Nat, n > 0, p + n <= StreamLen,
           ~AlreadyConsumed(SeqOf(p), n)
    PROVE  LET off == TrimOffset(SeqOf(p))
               key == SeqOf(p) + off
           IN \/ Pos(key) > StreamLen
              \/ Pos(key) = p + off /\ Pos(key) >= joinPos
<1> DEFINE seq == SeqOf(p)
           off == TrimOffset(seq)
<1>1. /\ joinPos \in Nat /\ joinPos < StreamLen
      /\ initial_seq \in Nat /\ initial_seq = SeqOf(joinPos)
      /\ next_seq \in Nat
      /\ joinPos + (next_seq - initial_seq) <= StreamLen
      /\ next_seq >= initial_seq
  <2>1. /\ joinPos \in 0..StreamLen - 1
        /\ initial_seq \in Nat /\ initial_seq = SeqOf(joinPos)
        /\ next_seq \in Nat
    BY DEF TypeOK, ReassemblyInv
  <2>2. Len(delivered) \in Nat /\ Len(out) \in Nat
    BY DEF TypeOK
  <2>3. /\ joinPos + (next_seq - initial_seq)
             = joinPos + Len(delivered) + Len(out)
        /\ joinPos + (next_seq - initial_seq) <= StreamLen
    BY DEF ReassemblyInv, Pos
  <2>4. QED
    BY <2>1, <2>2, <2>3, SeqSpaceAssumption
<1>2. /\ off = IF seq < next_seq THEN next_seq - seq ELSE 0
      /\ seq + n > next_seq
      /\ seq \in Nat
  <2>1. p \in 0..StreamLen
    BY SeqSpaceAssumption
  <2>2. seq \in Nat
    BY <2>1, SeqOfType
  <2>3. QED
    BY <1>1, <2>2 DEF TrimOffset, NextSeq, AlreadyConsumed
<1>3. CASE (ISN + p < SeqMod) <=> (ISN + joinPos < SeqMod)
  <2>1. seq - initial_seq = p - joinPos
    BY <1>1, <1>3, SeqSpaceAssumption DEF SeqOf
  <2> HIDE DEF seq, off
  <2>2. QED
    BY <1>1, <1>2, <2>1 DEF Pos, seq, off
<1>4. CASE ISN + p >= SeqMod /\ ISN + joinPos < SeqMod
  <2>1. seq + n < ISN /\ ISN <= initial_seq
    BY <1>1, <1>4, SeqSpaceAssumption DEF SeqOf
  <2>2. QED
    BY <1>1, <1>2, <2>1, SeqSpaceAssumption
<1>5. CASE ISN + p < SeqMod /\ ISN + joinPos >= SeqMod
  <2>1. seq - initial_seq + joinPos = p + SeqMod
    BY <1>1, <1>5, SeqSpaceAssumption DEF SeqOf
  <2>2. off \in Nat
    BY <1>1, <1>2
  <2> HIDE DEF off
  <2>3. QED
    BY <1>1, <1>2, <2>1, <2>2, SeqSpaceAssumption DEF Pos, off
<1>6. QED
  BY <1>1, <1>3, <1>4, <1>5, SeqSpaceAssumption

\* Every step of push, and of its caller, preserves the invariant of the reassembly.
LEMMA ReassemblyInvStep ==
    TypeOK /\ TypeOK' /\ ReassemblyInv /\ [Next]_vars => ReassemblyInv'
<1> SUFFICES ASSUME TypeOK, TypeOK', ReassemblyInv, [Next]_vars
             PROVE  ReassemblyInv'
  OBVIOUS
<1>1. ASSUME NEW s \in Segments, PushEmpty(s[1], s[2]) PROVE ReassemblyInv'
  BY <1>1 DEF PushEmpty, tcp_in, ReassemblyInv, Pos, BufferedBytes
<1>2. ASSUME NEW s \in Segments, Arrive(s[1], s[2])
      PROVE  /\ s[1] \in Nat /\ s[2] \in Nat /\ s[2] > 0
             /\ s[1] + s[2] <= StreamLen
             /\ SeqOf(s[1]) \in Nat
  <2>1. /\ s[1] \in Nat /\ s[2] \in Nat /\ s[2] > 0
        /\ s[1] + s[2] <= StreamLen
        /\ s[1] \in 0..StreamLen
    BY <1>2, SegmentsAssumption, SeqSpaceAssumption DEF Arrive
  <2>2. QED
    BY <2>1, SeqOfType
<1>3. ASSUME NEW s \in Segments, PushDuplicate(s[1], s[2])
      PROVE  ReassemblyInv'
  <2>1. Arrive(s[1], s[2]) /\ AlreadyConsumed(SeqOf(s[1]), s[2])
    BY <1>3 DEF PushDuplicate
  <2>2. initial_seq # None
    BY <1>2, <2>1 DEF AlreadyConsumed, NextSeq
  <2>3. /\ initial_seq' = initial_seq /\ next_seq' = next_seq
        /\ joinPos' = joinPos
    BY <2>1, <2>2 DEF Arrive, NextSeq, ReassemblyInv
  <2>4. QED
    BY <1>3, <2>2, <2>3
    DEF PushDuplicate, ReassemblyInv, Pos, BufferedBytes
<1>4. ASSUME NEW s \in Segments, PushBuffer(s[1], s[2])
      PROVE  ReassemblyInv'
  <2> DEFINE p == s[1]
             n == s[2]
  <2>1. Arrive(p, n) /\ ~AlreadyConsumed(SeqOf(p), n)
    BY <1>4 DEF PushBuffer
  <2>2. /\ p \in Nat /\ n \in Nat /\ n > 0 /\ p + n <= StreamLen
        /\ SeqOf(p) \in Nat
    BY <1>2, <2>1
  <2>3. PICK off \in Nat : off = TrimOffset(SeqOf(p))
    BY <2>1, <2>2, TrimmedType
  <2>11. /\ off < n
        /\ Trimmed(p, n) = Bytes(p + off, n - off)
        /\ Len(Trimmed(p, n)) = n - off
    BY <2>1, <2>2, <2>3, TrimmedType
  <2> DEFINE key == SeqOf(p) + off
  <2>4. /\ DOMAIN pending' = DOMAIN pending \cup {key}
        /\ pending'[key] = Trimmed(p, n)
        /\ \A k \in DOMAIN pending \ {key} : pending'[k] = pending[k]
        /\ out' = out /\ delivered' = delivered
    BY <1>4, <2>3 DEF PushBuffer
  <2>5. CASE initial_seq = None
    <3>1. /\ initial_seq' = SeqOf(p) /\ next_seq' = SeqOf(p) /\ joinPos' = p
          /\ off = 0 /\ DOMAIN pending = {}
          /\ delivered = <<>> /\ out = <<>>
      BY <2>1, <2>2, <2>3, <2>5
      DEF Arrive, NextSeq, TrimOffset, ReassemblyInv
    <3>2. Pos(key)' = p /\ Pos(next_seq)' = p
      BY <2>2, <3>1 DEF Pos
    <3>3. DOMAIN pending' = {key} /\ pending'[key] = Bytes(p, n)
      BY <2>2, <2>11, <2>4, <3>1
    <3>4. Len(pending'[key]) = n
      <4>1. Len(Bytes(p, n)) = n
        BY <2>2, BytesType
      <4>2. QED
        BY <3>3, <4>1
    <3>5. \A k \in DOMAIN pending' : BufferedBytes(k)'
      BY <2>2, <3>1, <3>2, <3>3, <3>4 DEF BufferedBytes, Pos
    <3>6. /\ Len(delivered') = 0 /\ Len(out') = 0
          /\ delivered' = Bytes(p, 0) /\ out' = Bytes(p + 0, 0)
      BY <2>2, <2>4, <3>1 DEF Bytes
    <3>7. /\ Pos(next_seq)' = joinPos' + Len(delivered') + Len(out')
          /\ Pos(next_seq)' <= StreamLen
          /\ initial_seq' # None /\ next_seq' # None /\ joinPos' # None
      BY <2>2, <3>1, <3>2, <3>6, SeqSpaceAssumption DEF None
    <3>8. QED
      BY <3>1, <3>5, <3>6, <3>7 DEF ReassemblyInv
  <2>6. CASE initial_seq # None
    <3>1. /\ initial_seq' = initial_seq /\ next_seq' = next_seq
          /\ joinPos' = joinPos
      BY <2>1, <2>6 DEF Arrive, NextSeq, ReassemblyInv
    <3>2. \/ Pos(key) > StreamLen
          \/ Pos(key) = p + off /\ Pos(key) >= joinPos
      BY <2>1, <2>2, <2>3, <2>6, BufferKeyPos
    <3>3. BufferedBytes(key)'
      BY <2>2, <2>3, <2>11, <2>4, <3>1, <3>2 DEF BufferedBytes, Pos
    <3>4. \A k \in DOMAIN pending \ {key} : BufferedBytes(k)'
      BY <2>4, <2>6, <3>1 DEF BufferedBytes, Pos, ReassemblyInv
    <3>5. QED
      BY <2>4, <2>6, <3>1, <3>3, <3>4 DEF ReassemblyInv, Pos
  <2>7. QED
    BY <2>5, <2>6
<1>5. CASE DrainChunk
  <2> DEFINE chunk == pending[next_seq]
  <2>1. /\ initial_seq # None /\ initial_seq \in Nat /\ next_seq \in Nat
        /\ joinPos \in Nat
        /\ next_seq \in DOMAIN pending
        /\ out \in Seq(Nat) /\ delivered \in Seq(Nat)
        /\ chunk \in Seq(Nat) /\ Len(chunk) \in Nat
        /\ Len(out) \in Nat /\ Len(delivered) \in Nat
    BY <1>5 DEF DrainChunk, TypeOK, ReassemblyInv, None
  <2>2. /\ Pos(next_seq) = joinPos + Len(delivered) + Len(out)
        /\ Pos(next_seq) <= StreamLen
        /\ out = Bytes(joinPos + Len(delivered), Len(out))
        /\ delivered = Bytes(joinPos, Len(delivered))
        /\ \A k \in DOMAIN pending : BufferedBytes(k)
    BY <2>1 DEF ReassemblyInv
  <2>3. /\ chunk = Bytes(joinPos + Len(delivered) + Len(out), Len(chunk))
        /\ Pos(next_seq) + Len(chunk) <= StreamLen
    <3>1. BufferedBytes(next_seq)
      BY <2>1, <2>2
    <3>2. ~(Pos(next_seq) > StreamLen)
      BY <2>1, <2>2, SeqSpaceAssumption
    <3>3. QED
      BY <2>2, <3>1, <3>2 DEF BufferedBytes
  <2>4. /\ out' = out \o chunk
        /\ Len(out') = Len(out) + Len(chunk)
        /\ out' = Bytes(joinPos + Len(delivered), Len(out'))
    <3>1. out' = out \o chunk
      BY <1>5 DEF DrainChunk
    <3>2. Len(out') = Len(out) + Len(chunk)
      BY <2>1, <3>1, ConcatProperties
    <3>3. joinPos + Len(delivered) \in Nat
      BY <2>1
    <3>4. Bytes(joinPos + Len(delivered), Len(out))
            \o Bytes(joinPos + Len(delivered) + Len(out), Len(chunk))
          = Bytes(joinPos + Len(delivered), Len(out) + Len(chunk))
      BY <2>1, <3>3, ConcatBytes
    <3>5. QED
      BY <2>2, <2>3, <3>1, <3>2, <3>4
  <2>5. /\ initial_seq' = initial_seq /\ joinPos' = joinPos
        /\ delivered' = delivered
        /\ next_seq' = next_seq + Len(chunk)
        /\ DOMAIN pending' = DOMAIN pending \ {next_seq}
        /\ \A k \in DOMAIN pending' : pending'[k] = pending[k]
    BY <1>5 DEF DrainChunk, DrainEnd, StillPending, history
  <2>6. \A k \in DOMAIN pending' : BufferedBytes(k)'
    BY <2>2, <2>5 DEF BufferedBytes, Pos
  <2>7. Pos(next_seq)' = Pos(next_seq) + Len(chunk)
    BY <2>1, <2>5 DEF Pos
  <2>8. /\ Pos(next_seq)' = joinPos + Len(delivered) + Len(out')
        /\ Pos(next_seq)' <= StreamLen
        /\ next_seq' # None
    BY <2>1, <2>2, <2>3, <2>4, <2>5, <2>7 DEF None
  <2>9. joinPos # None /\ initial_seq = SeqOf(joinPos)
    BY <2>1 DEF ReassemblyInv
  <2>10. QED
    BY <2>1, <2>2, <2>4, <2>5, <2>6, <2>8, <2>9 DEF ReassemblyInv
<1>6. CASE Return
  <2>1. initial_seq # None
    BY <1>6 DEF Return, ReassemblyInv
  <2>2. /\ joinPos \in Nat
        /\ out \in Seq(Nat) /\ delivered \in Seq(Nat)
        /\ Len(out) \in Nat /\ Len(delivered) \in Nat
    BY <2>1 DEF TypeOK, ReassemblyInv
  <2>3. /\ delivered' = delivered \o out
        /\ out' = <<>>
        /\ UNCHANGED <<tcp_in, history>>
    BY <1>6 DEF Return
  <2>4. /\ Len(delivered') = Len(delivered) + Len(out)
        /\ delivered' = Bytes(joinPos, Len(delivered'))
    <3>1. Len(delivered') = Len(delivered) + Len(out)
      BY <2>2, <2>3, ConcatProperties
    <3>2. Bytes(joinPos, Len(delivered))
            \o Bytes(joinPos + Len(delivered), Len(out))
          = Bytes(joinPos, Len(delivered) + Len(out))
      BY <2>2, ConcatBytes
    <3>3. QED
      BY <2>1, <2>3, <3>1, <3>2 DEF ReassemblyInv
  <2>5. out' = Bytes(joinPos + Len(delivered'), Len(out')) /\ Len(out') = 0
    BY <2>2, <2>3, <2>4 DEF Bytes
  <2>6. \A k \in DOMAIN pending' : BufferedBytes(k)'
    BY <2>1, <2>3 DEF ReassemblyInv, BufferedBytes, Pos, tcp_in, history
  <2>7. Pos(next_seq)' = Pos(next_seq)
    BY <2>3 DEF Pos, tcp_in, history
  <2>8. QED
    BY <2>1, <2>2, <2>3, <2>4, <2>5, <2>6, <2>7
    DEF ReassemblyInv, tcp_in, history
<1>7. CASE UNCHANGED vars
  BY <1>7 DEF vars, tcp_in, history, ReassemblyInv, Pos, BufferedBytes
<1>8. QED
  BY <1>1, <1>3, <1>4, <1>5, <1>6, <1>7 DEF Next, Push

\* Every reachable state of a flow satisfies the invariant of the reassembly.
THEOREM Reassembly == Spec => []ReassemblyInv
<1>1. Init => TypeOK /\ ReassemblyInv
  <2>1. Init => TypeOK
    BY SegmentsAssumption DEF Init, TypeOK
  <2>2. Init => ReassemblyInv
    BY DEF Init, ReassemblyInv
  <2>3. QED
    BY <2>1, <2>2
<1>2. TypeOK /\ ReassemblyInv /\ [Next]_vars => (TypeOK /\ ReassemblyInv)'
  BY TypeOKStep, ReassemblyInvStep
<1>3. QED
  BY <1>1, <1>2, PTL DEF Spec

\* The bytes push returns are consecutive bytes of the sender's stream from where the
\* sniffer joined, under any loss, duplication, reordering, re-cutting and wraparound
\* of the segments it captures.
THEOREM DeliveredIsContiguous == Spec => []ByteExact
<1>1. TypeOK /\ ReassemblyInv => ByteExact
  <2> SUFFICES ASSUME TypeOK, ReassemblyInv,
                      NEW i \in 1..Len(delivered)
               PROVE  delivered[i] = joinPos + i - 1
    BY DEF ByteExact
  <2>1. initial_seq # None
    BY DEF ReassemblyInv
  <2>2. joinPos \in Nat /\ Len(delivered) \in Nat
    BY <2>1 DEF TypeOK, ReassemblyInv
  <2>3. delivered = Bytes(joinPos, Len(delivered))
    BY <2>1 DEF ReassemblyInv
  <2>4. Bytes(joinPos, Len(delivered))[i] = joinPos + i - 1
    BY <2>2 DEF Bytes
  <2>5. QED
    BY <2>3, <2>4
<1>2. QED
  BY <1>1, TypeCorrect, Reassembly, PTL

\* The reassembly implements the abstract reliable byte stream, step by step.
THEOREM RefinesByteStream == Spec => ImplementsByteStream
<1>1. Init => Stream!Init
  BY DEF Init, Stream!Init, None, Stream!None
<1>2. TypeOK /\ ReassemblyInv /\ TypeOK' /\ ReassemblyInv' /\ [Next]_vars
        => [Stream!Next]_<<joinPos, delivered>>
  <2> SUFFICES ASSUME TypeOK, ReassemblyInv, TypeOK', ReassemblyInv',
                      [Next]_vars
               PROVE  [Stream!Next]_<<joinPos, delivered>>
    OBVIOUS
  <2>1. ASSUME NEW s \in Segments, PushEmpty(s[1], s[2])
        PROVE  UNCHANGED <<joinPos, delivered>>
    BY <2>1 DEF PushEmpty
  <2>2. ASSUME NEW s \in Segments,
               PushDuplicate(s[1], s[2]) \/ PushBuffer(s[1], s[2])
        PROVE  Stream!Join \/ UNCHANGED <<joinPos, delivered>>
    <3>1. Arrive(s[1], s[2]) /\ UNCHANGED delivered
      BY <2>2 DEF PushDuplicate, PushBuffer
    <3>2. s[1] \in 0..StreamLen - 1
      BY <3>1, SegmentsAssumption, SeqSpaceAssumption DEF Arrive
    <3>3. QED
      BY <3>1, <3>2 DEF Arrive, Stream!Join, None, Stream!None
  <2>3. CASE DrainChunk
    BY <2>3 DEF DrainChunk, history
  <2>4. CASE Return
    <3>1. initial_seq # None
      BY <2>4 DEF Return, ReassemblyInv
    <3>2. /\ joinPos \in Nat /\ joinPos # None
          /\ out \in Seq(Nat) /\ delivered \in Seq(Nat)
          /\ Len(out) \in Nat /\ Len(delivered) \in Nat
      BY <3>1 DEF TypeOK, ReassemblyInv
    <3>3. /\ joinPos + Len(delivered) + Len(out) <= StreamLen
          /\ out = Bytes(joinPos + Len(delivered), Len(out))
      BY <3>1, <3>2 DEF ReassemblyInv
    <3>4. delivered' = delivered \o out /\ joinPos' = joinPos
      BY <2>4 DEF Return, history
    <3>5. CASE Len(out) = 0
      <4>1. out = <<>>
        BY <3>2, <3>5, EmptySeq
      <4>2. delivered' = delivered
        BY <3>2, <3>4, <4>1, ConcatEmptySeq
      <4>3. QED
        BY <3>4, <4>2
    <3>6. CASE Len(out) # 0
      <4>1. Len(out) \in 1..StreamLen
        BY <3>2, <3>3, <3>6, SeqSpaceAssumption
      <4>2. out = Stream!Bytes(joinPos + Len(delivered), Len(out))
        BY <3>3 DEF Bytes, Stream!Bytes
      <4>3. Stream!Extend
        BY <3>2, <3>3, <3>4, <4>1, <4>2 DEF Stream!Extend, None, Stream!None
      <4>4. QED
        BY <4>3 DEF Stream!Next
    <3>7. QED
      BY <3>5, <3>6
  <2>5. CASE UNCHANGED vars
    BY <2>5 DEF vars, history
  <2>6. QED
    BY <2>1, <2>2, <2>3, <2>4, <2>5 DEF Next, Push, Stream!Next
<1>3. QED
  BY <1>1, <1>2, TypeCorrect, Reassembly, PTL DEF Spec, Stream!Spec, ImplementsByteStream

---------------------------------------------------------------------------
(* Completeness: as long as retransmissions keep the segment boundaries and the *)
(* sequence numbers do not wrap, push returns what it can and keeps no byte it  *)
(* could have returned.                                                         *)

Regular == ~Recut /\ ~Wrapped

\* The stream position of the byte push expects next.
NextPos == Pos(next_seq)

\* Every captured segment lies before the next byte or waits in pending under its own
\* position, and every payload in pending is a whole captured segment, unless it is from
\* the far side of a wraparound. The next byte begins where a segment ended, which is why
\* push has nothing to trim.
InPlace ==
    /\ \E s \in captured : s[1] = joinPos
    /\ NextPos = joinPos \/ \E s \in captured : s[1] + s[2] = NextPos
    /\ \A s \in captured :
          \/ s[1] + s[2] <= NextPos
          \/ s[1] >= NextPos /\ \E k \in DOMAIN pending : Pos(k) = s[1]
    /\ \A k \in DOMAIN pending :
          \/ Pos(k) > StreamLen
          \/ /\ Pos(k) >= NextPos
             /\ \E s \in captured : s[1] = Pos(k) /\ s[2] = Len(pending[k])

DrainInv ==
    /\ initial_seq = None => captured = {}
    /\ \A s \in captured : s[2] > 0
    /\ pc # "drain" => out = <<>> /\ next_seq \notin DOMAIN pending
    /\ (initial_seq # None /\ Regular) => InPlace

---------------------------------------------------------------------------
\* The segments captured are non-empty runs of the stream.
LEMMA CapturedType ==
    ASSUME TypeOK, DrainInv, NEW s \in captured
    PROVE  /\ s = <<s[1], s[2]>>
           /\ s[1] \in Nat /\ s[2] \in Nat /\ s[2] > 0 /\ s[1] + s[2] <= StreamLen
<1>1. s \in Segments /\ s[2] > 0
  BY DEF TypeOK, DrainInv
<1> QED
  BY <1>1, SegmentsAssumption, SeqSpaceAssumption

\* Of two captured segments that were not cut anew, one ends before the other begins.
LEMMA Disjoint ==
    ASSUME TypeOK, DrainInv, ~Recut, NEW s \in captured, NEW t \in captured, s # t
    PROVE  s[1] + s[2] <= t[1] \/ t[1] + t[2] <= s[1]
BY CapturedType DEF Recut

\* Where the reassembly stands, once it has begun.
LEMMA Standing ==
    ASSUME TypeOK, ReassemblyInv, initial_seq # None
    PROVE  /\ joinPos \in Nat /\ joinPos < StreamLen /\ initial_seq = SeqOf(joinPos)
           /\ initial_seq \in Nat /\ next_seq \in Nat
           /\ NextPos \in Nat /\ joinPos <= NextPos /\ NextPos <= StreamLen
           /\ NextPos = joinPos + Len(delivered) + Len(out)
<1>1. /\ joinPos \in 0..StreamLen - 1 /\ initial_seq \in Nat /\ next_seq \in Nat
      /\ Len(delivered) \in Nat /\ Len(out) \in Nat
  BY DEF TypeOK, ReassemblyInv
<1>2. /\ initial_seq = SeqOf(joinPos) /\ NextPos <= StreamLen
      /\ NextPos = joinPos + Len(delivered) + Len(out)
  BY DEF ReassemblyInv, NextPos
<1> QED
  BY <1>1, <1>2, SeqSpaceAssumption

---------------------------------------------------------------------------
\* What an arriving segment finds, once the sniffer has joined: it ends before the next
\* byte or begins there or later, or it is from the far side of a wraparound.
LEMMA Landing ==
    ASSUME TypeOK, TypeOK', ReassemblyInv, ReassemblyInv', DrainInv, initial_seq # None,
           NEW s \in Segments, Arrive(s[1], s[2]), Regular'
    PROVE  /\ Regular /\ InPlace
           /\ captured' = captured \cup {s}
           /\ UNCHANGED <<initial_seq, next_seq, joinPos>>
           /\ \/ Pos(SeqOf(s[1])) > StreamLen /\ s[1] + s[2] <= joinPos
              \/ /\ Pos(SeqOf(s[1])) = s[1]
                 /\ s[1] + s[2] <= NextPos \/ s[1] >= NextPos
<1>1. /\ captured' = captured \cup {s}
      /\ UNCHANGED <<initial_seq, next_seq, joinPos>>
      /\ s[1] \in Nat /\ s[2] \in Nat /\ s[2] > 0 /\ s[1] + s[2] <= StreamLen
  BY SegmentsAssumption DEF Arrive, NextSeq, ReassemblyInv
<1>2. Regular /\ InPlace
  <2>1. Regular
    BY <1>1 DEF Regular, Recut, Wrapped
  <2> QED
    BY <2>1 DEF DrainInv
<1>3. \A t \in captured : /\ t[1] \in Nat /\ t[2] \in Nat /\ t[2] > 0
                          /\ s = t \/ s[1] + s[2] <= t[1] \/ t[1] + t[2] <= s[1]
  <2> TAKE t \in captured
  <2>1. t[1] \in Nat /\ t[2] \in Nat /\ t[2] > 0
    BY CapturedType
  <2>2. s = t \/ s[1] + s[2] <= t[1] \/ t[1] + t[2] <= s[1]
    BY <1>1, <2>1 DEF Regular, Recut
  <2> QED
    BY <2>1, <2>2
<1>4. /\ joinPos \in Nat /\ joinPos < StreamLen /\ initial_seq = SeqOf(joinPos)
      /\ NextPos \in Nat /\ joinPos <= NextPos
  BY Standing
<1>5. PICK t \in captured : t[1] = joinPos
  BY <1>2 DEF InPlace
<1>6. \/ Pos(SeqOf(s[1])) = s[1]
      \/ Pos(SeqOf(s[1])) > StreamLen /\ s[1] + s[2] <= joinPos
  <2>1. (ISN + s[1] + s[2] > SeqMod) <=> (ISN + joinPos >= SeqMod)
    BY <1>1 DEF Regular, Wrapped
  <2>2. CASE (ISN + s[1] < SeqMod) <=> (ISN + joinPos < SeqMod)
    BY <1>1, <1>4, <2>2, SeqSpaceAssumption DEF Pos, SeqOf
  <2>3. CASE ISN + s[1] >= SeqMod /\ ISN + joinPos < SeqMod
    BY <1>1, <1>4, <2>1, <2>3, SeqSpaceAssumption
  <2>4. CASE ISN + s[1] < SeqMod /\ ISN + joinPos >= SeqMod
    <3>1. Pos(SeqOf(s[1])) > StreamLen
      BY <1>1, <1>4, <2>4, SeqSpaceAssumption DEF Pos, SeqOf
    <3>2. s[1] < joinPos
      BY <1>1, <1>4, <2>4, SeqSpaceAssumption
    <3> QED
      BY <1>1, <1>3, <1>4, <1>5, <3>1, <3>2
  <2> QED
    BY <1>1, <1>4, <2>2, <2>3, <2>4, SeqSpaceAssumption
<1>7. s[1] + s[2] <= NextPos \/ s[1] >= NextPos
  <2>1. CASE NextPos = joinPos
    BY <1>1, <1>3, <1>4, <1>5, <2>1
  <2>2. CASE \E u \in captured : u[1] + u[2] = NextPos
    BY <1>1, <1>3, <1>4, <2>2
  <2> QED
    BY <1>2, <2>1, <2>2 DEF InPlace
<1> QED
  BY <1>1, <1>2, <1>6, <1>7

\* Every step of push, and of its caller, keeps the segments in their places.
LEMMA DrainInvStep ==
    TypeOK /\ TypeOK' /\ ReassemblyInv /\ ReassemblyInv' /\ DrainInv /\ [Next]_vars
       => DrainInv'
<1> SUFFICES ASSUME TypeOK, TypeOK', ReassemblyInv, ReassemblyInv', DrainInv, [Next]_vars
             PROVE  DrainInv'
  OBVIOUS
<1>1. ASSUME NEW s \in Segments, PushEmpty(s[1], s[2]) PROVE DrainInv'
  BY <1>1 DEF PushEmpty, tcp_in, DrainInv, InPlace, NextPos, Pos, Regular, Recut, Wrapped
<1>2. ASSUME NEW s \in Segments, Arrive(s[1], s[2])
      PROVE  /\ s[1] \in Nat /\ s[2] \in Nat /\ s[2] > 0 /\ s[1] + s[2] <= StreamLen
             /\ SeqOf(s[1]) \in Nat
             /\ captured' = captured \cup {s}
             /\ initial_seq' # None
             /\ \A t \in captured' : t[2] > 0
  <2>1. /\ s[1] \in Nat /\ s[2] \in Nat /\ s[2] > 0 /\ s[1] + s[2] <= StreamLen
        /\ captured' = captured \cup {s}
    BY <1>2, SegmentsAssumption DEF Arrive
  <2>2. SeqOf(s[1]) \in Nat
    <3>1. s[1] \in 0..StreamLen
      BY <2>1, SeqSpaceAssumption
    <3> QED
      BY <3>1, SeqOfType
  <2>3. initial_seq' # None
    BY <1>2, <2>2 DEF Arrive, None
  <2> QED
    BY <2>1, <2>2, <2>3 DEF DrainInv
<1>3. ASSUME NEW s \in Segments, PushDuplicate(s[1], s[2]) PROVE DrainInv'
  <2>1. /\ Arrive(s[1], s[2]) /\ AlreadyConsumed(SeqOf(s[1]), s[2])
        /\ pc = "idle" /\ pc' = "return" /\ UNCHANGED <<pending, out>>
    BY <1>3 DEF PushDuplicate, Arrive
  <2>2. initial_seq # None
    BY <1>2, <2>1 DEF AlreadyConsumed, NextSeq
  <2>3. next_seq' = next_seq
    BY <2>1, <2>2 DEF Arrive, NextSeq
  <2>4. ASSUME Regular' PROVE InPlace'
    <3>1. /\ InPlace /\ captured' = captured \cup {s}
          /\ UNCHANGED <<initial_seq, next_seq, joinPos, pending>>
          /\ \/ Pos(SeqOf(s[1])) > StreamLen /\ s[1] + s[2] <= joinPos
             \/ /\ Pos(SeqOf(s[1])) = s[1]
                /\ s[1] + s[2] <= NextPos \/ s[1] >= NextPos
      BY <2>1, <2>2, <2>4, Landing
    <3>2. s[1] + s[2] <= NextPos
      <4>1. SeqOf(s[1]) + s[2] <= next_seq
        BY <2>1, <2>2 DEF AlreadyConsumed, NextSeq
      <4>2. Pos(SeqOf(s[1])) + s[2] <= NextPos
        BY <1>2, <2>1, <2>2, <4>1, Standing DEF Pos, NextPos
      <4> QED
        BY <1>2, <2>1, <2>2, <3>1, <4>2, Standing
    <3>3. NextPos' = NextPos /\ \A k \in DOMAIN pending : Pos(k)' = Pos(k)
      BY <3>1 DEF NextPos, Pos
    <3> QED
      BY <3>1, <3>2, <3>3 DEF InPlace
  <2> QED
    BY <1>2, <2>1, <2>3, <2>4 DEF DrainInv
<1>4. ASSUME NEW s \in Segments, PushBuffer(s[1], s[2]) PROVE DrainInv'
  <2> DEFINE seq == SeqOf(s[1])
             key == seq + TrimOffset(seq)
  <2>1. /\ Arrive(s[1], s[2]) /\ ~AlreadyConsumed(seq, s[2])
        /\ pc' = "drain"
        /\ pending' = [k \in DOMAIN pending \cup {key} |->
                         IF k = key THEN Trimmed(s[1], s[2]) ELSE pending[k]]
    BY <1>4 DEF PushBuffer
  <2>2. ASSUME Regular', initial_seq = None PROVE InPlace'
    <3>1. /\ captured' = {s} /\ joinPos' = s[1] /\ initial_seq' = seq /\ next_seq' = seq
          /\ DOMAIN pending = {} /\ TrimOffset(seq) = 0
      BY <1>2, <2>1, <2>2 DEF DrainInv, ReassemblyInv, Arrive, NextSeq, TrimOffset
    <3>2. DOMAIN pending' = {seq} /\ Len(pending'[seq]) = s[2]
      BY <1>2, <2>1, <3>1, TrimmedType
    <3>3. Pos(seq)' = s[1] /\ NextPos' = s[1]
      BY <1>2, <2>1, <3>1 DEF Pos, NextPos
    <3> QED
      BY <1>2, <2>1, <3>1, <3>2, <3>3 DEF InPlace
  <2>3. ASSUME Regular', initial_seq # None PROVE InPlace'
    <3>1. /\ Regular /\ InPlace /\ captured' = captured \cup {s}
          /\ UNCHANGED <<initial_seq, next_seq, joinPos>>
          /\ \/ Pos(seq) > StreamLen /\ s[1] + s[2] <= joinPos
             \/ Pos(seq) = s[1] /\ (s[1] + s[2] <= NextPos \/ s[1] >= NextPos)
      BY <2>1, <2>3, Landing
    <3>2. /\ joinPos \in Nat /\ initial_seq \in Nat /\ next_seq \in Nat
          /\ NextPos \in Nat /\ joinPos <= NextPos /\ NextPos <= StreamLen
      BY <2>3, Standing
    <3>3. seq + s[2] > next_seq
      BY <1>2, <2>1, <2>3, <3>2 DEF AlreadyConsumed, NextSeq
    <3>4. \/ Pos(seq) > StreamLen /\ s[1] + s[2] <= joinPos
          \/ Pos(seq) = s[1] /\ s[1] >= NextPos
      <4>1. Pos(seq) + s[2] > NextPos
        BY <1>2, <2>1, <3>2, <3>3 DEF Pos, NextPos
      <4> QED
        BY <1>2, <2>1, <3>1, <3>2, <4>1
    <3>5. TrimOffset(seq) = 0
      <4>1. Pos(seq) >= NextPos
        <5>1. Pos(seq) \in Int
          BY <1>2, <2>1, <3>2 DEF Pos
        <5>2. CASE Pos(seq) > StreamLen
          BY <3>2, <5>1, <5>2, SeqSpaceAssumption
        <5> QED
          BY <3>4, <5>2
      <4>2. seq >= next_seq
        BY <1>2, <2>1, <3>2, <4>1 DEF Pos, NextPos
      <4> QED
        BY <1>2, <2>1, <2>3, <3>2, <4>2 DEF TrimOffset, NextSeq
    <3>6. /\ DOMAIN pending' = DOMAIN pending \cup {seq}
          /\ Len(pending'[seq]) = s[2]
          /\ \A k \in DOMAIN pending \ {seq} : pending'[k] = pending[k]
      BY <1>2, <2>1, <3>5, TrimmedType
    <3>7. NextPos' = NextPos /\ \A k : Pos(k)' = Pos(k)
      BY <3>1 DEF NextPos, Pos
    <3>8. ASSUME NEW t \in captured'
          PROVE  \/ t[1] + t[2] <= NextPos
                 \/ t[1] >= NextPos /\ \E k \in DOMAIN pending' : Pos(k) = t[1]
      <4>1. CASE t = s
        BY <1>2, <2>1, <3>2, <3>4, <3>6, <4>1
      <4>2. CASE t \in captured
        BY <3>1, <3>6, <4>2 DEF InPlace
      <4> QED
        BY <3>1, <4>1, <4>2
    <3>9. ASSUME NEW k \in DOMAIN pending'
          PROVE  \/ Pos(k) > StreamLen
                 \/ /\ Pos(k) >= NextPos
                    /\ \E t \in captured' : t[1] = Pos(k) /\ t[2] = Len(pending'[k])
      <4>1. CASE k = seq
        BY <3>1, <3>4, <3>6, <4>1
      <4>2. CASE k \in DOMAIN pending \ {seq}
        BY <3>1, <3>6, <4>2 DEF InPlace
      <4> QED
        BY <3>6, <4>1, <4>2
    <3>10. /\ \E t \in captured' : t[1] = joinPos
           /\ NextPos = joinPos \/ \E t \in captured' : t[1] + t[2] = NextPos
      BY <3>1 DEF InPlace
    <3> QED
      BY <3>1, <3>7, <3>8, <3>9, <3>10 DEF InPlace
  <2> QED
    BY <1>2, <2>1, <2>2, <2>3 DEF DrainInv
<1>5. CASE DrainChunk
  <2> DEFINE end == NextPos + Len(pending[next_seq])
  <2>1. /\ pc = "drain" /\ pc' = "drain" /\ initial_seq # None
        /\ next_seq \in DOMAIN pending /\ Len(pending[next_seq]) \in Nat
        /\ UNCHANGED <<initial_seq, joinPos, captured>>
        /\ next_seq' = next_seq + Len(pending[next_seq])
        /\ DOMAIN pending' = DOMAIN pending \ {next_seq}
        /\ \A k \in DOMAIN pending' : pending'[k] = pending[k]
    BY <1>5 DEF DrainChunk, DrainEnd, StillPending, history, TypeOK, ReassemblyInv
  <2>2. ASSUME Regular' PROVE InPlace'
    <3>1. Regular /\ InPlace
      BY <2>1, <2>2 DEF Regular, Recut, Wrapped, DrainInv
    <3>2. /\ joinPos \in Nat /\ initial_seq \in Nat /\ next_seq \in Nat
          /\ NextPos \in Nat /\ joinPos <= NextPos /\ NextPos <= StreamLen
      BY <2>1, Standing
    <3>3. NextPos' = end /\ \A k : Pos(k)' = Pos(k)
      BY <2>1, <3>2 DEF NextPos, Pos
    <3>4. PICK s \in captured : s[1] = NextPos /\ s[2] = Len(pending[next_seq])
      <4>1. ~(Pos(next_seq) > StreamLen)
        BY <3>2, SeqSpaceAssumption DEF NextPos
      <4> QED
        BY <2>1, <3>1, <4>1 DEF InPlace, NextPos
    <3>5. \A t \in captured : /\ t[1] \in Nat /\ t[2] \in Nat /\ t[2] > 0
                              /\ s = t \/ s[1] + s[2] <= t[1] \/ t[1] + t[2] <= s[1]
      BY <3>1, CapturedType, Disjoint DEF Regular
    <3>6. ASSUME NEW t \in captured
          PROVE  \/ t[1] + t[2] <= end
                 \/ t[1] >= end /\ \E k \in DOMAIN pending' : Pos(k) = t[1]
      <4>1. CASE t[1] + t[2] <= NextPos
        BY <2>1, <3>2, <3>5, <4>1
      <4>2. CASE t[1] >= NextPos /\ \E k \in DOMAIN pending : Pos(k) = t[1]
        <5>1. CASE t = s
          BY <2>1, <3>2, <3>4, <3>5, <5>1
        <5>2. CASE t # s
          <6>1. t[1] >= end /\ t[1] # NextPos
            BY <2>1, <3>2, <3>4, <3>5, <4>2, <5>2
          <6> QED
            BY <2>1, <4>2, <6>1 DEF NextPos
        <5> QED
          BY <5>1, <5>2
      <4> QED
        BY <3>1, <4>1, <4>2 DEF InPlace
    <3>7. ASSUME NEW k \in DOMAIN pending'
          PROVE  \/ Pos(k) > StreamLen
                 \/ /\ Pos(k) >= end
                    /\ \E t \in captured : t[1] = Pos(k) /\ t[2] = Len(pending'[k])
      <4>1. k \in DOMAIN pending /\ k # next_seq /\ k \in Nat /\ pending'[k] = pending[k]
        BY <2>1 DEF TypeOK
      <4>2. Pos(k) # NextPos
        BY <3>2, <4>1 DEF Pos, NextPos
      <4>3. CASE \E t \in captured : t[1] = Pos(k) /\ t[2] = Len(pending[k])
        <5>1. PICK t \in captured : t[1] = Pos(k) /\ t[2] = Len(pending[k])
          BY <4>3
        <5>2. Pos(k) > StreamLen \/ Pos(k) >= NextPos
          BY <3>1, <4>1 DEF InPlace
        <5>3. Pos(k) > StreamLen \/ Pos(k) >= end
          BY <2>1, <3>2, <3>4, <3>5, <4>2, <5>1, <5>2
        <5> QED
          BY <4>1, <5>1, <5>3
      <4> QED
        BY <3>1, <4>1, <4>3 DEF InPlace
    <3>8. /\ \E t \in captured : t[1] = joinPos
          /\ \E t \in captured : t[1] + t[2] = end
      BY <3>1, <3>4 DEF InPlace
    <3> QED
      BY <2>1, <3>3, <3>6, <3>7, <3>8 DEF InPlace
  <2> QED
    BY <2>1, <2>2 DEF DrainInv
<1>6. CASE Return
  <2>1. /\ UNCHANGED <<tcp_in, history>> /\ out' = <<>>
        /\ next_seq \notin DOMAIN pending
    BY <1>6 DEF Return, DrainDone, DrainInv
  <2> QED
    BY <2>1 DEF tcp_in, history, DrainInv, InPlace, NextPos, Pos, Regular, Recut, Wrapped
<1>7. CASE UNCHANGED vars
  BY <1>7 DEF vars, tcp_in, history, DrainInv, InPlace, NextPos, Pos, Regular, Recut, Wrapped
<1> QED
  BY <1>1, <1>3, <1>4, <1>5, <1>6, <1>7 DEF Next, Push

---------------------------------------------------------------------------
\* As long as retransmissions keep the segment boundaries and the sequence numbers do not
\* wrap, push has returned every captured byte that is contiguous with the stream, and
\* what pending keeps is beyond a byte that was not captured.
THEOREM DrainsAll == Spec => []DrainsUnlessRecut
<1>1. Init => DrainInv
  BY DEF Init, DrainInv
<1>2. TypeOK /\ ReassemblyInv /\ DrainInv => DrainsUnlessRecut
  <2> SUFFICES ASSUME TypeOK, ReassemblyInv, DrainInv, Regular, pc = "idle"
               PROVE  /\ joinPos # None => joinPos + Len(delivered) \notin Covered
                      /\ \A k \in DOMAIN pending : k > next_seq
    BY DEF DrainsUnlessRecut, ContiguousDrained, Regular
  <2>1. CASE initial_seq = None
    BY <2>1 DEF ReassemblyInv
  <2>2. CASE initial_seq # None
    <3>1. InPlace /\ next_seq \notin DOMAIN pending /\ Len(out) = 0
      BY <2>2 DEF DrainInv
    <3>2. /\ joinPos \in Nat /\ initial_seq \in Nat /\ next_seq \in Nat
          /\ NextPos \in Nat /\ NextPos <= StreamLen
          /\ NextPos = joinPos + Len(delivered)
      <4>1. Len(delivered) \in Nat
        BY DEF TypeOK
      <4> QED
        BY <2>2, <3>1, <4>1, Standing
    <3>3. \A k \in DOMAIN pending : k \in Nat /\ (Pos(k) = NextPos => k = next_seq)
      BY <3>2 DEF TypeOK, Pos, NextPos
    <3>4. NextPos \notin Covered
      <4> SUFFICES ASSUME NEW s \in captured, NextPos \in s[1] .. s[1] + s[2] - 1
                   PROVE  FALSE
        BY DEF Covered
      <4>1. s[1] \in Nat /\ s[2] \in Nat
        BY CapturedType
      <4>2. s[1] = NextPos /\ \E k \in DOMAIN pending : Pos(k) = s[1]
        BY <3>1, <3>2, <4>1 DEF InPlace
      <4> QED
        BY <3>1, <3>3, <4>2
    <3>5. ASSUME NEW k \in DOMAIN pending PROVE k > next_seq
      <4>1. Pos(k) >= NextPos
        BY <3>1, <3>2, <3>3, SeqSpaceAssumption DEF InPlace, Pos
      <4> QED
        BY <3>1, <3>2, <3>3, <4>1 DEF Pos, NextPos
    <3> QED
      BY <3>2, <3>4, <3>5
  <2> QED
    BY <2>1, <2>2
<1>3. TypeOK /\ ReassemblyInv /\ DrainInv /\ TypeOK' /\ ReassemblyInv' /\ [Next]_vars
        => DrainInv'
  BY DrainInvStep
<1> QED
  BY <1>1, <1>2, <1>3, TypeCorrect, Reassembly, PTL DEF Spec
=============================================================================
