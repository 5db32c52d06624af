--------------------------- MODULE TCPReassembly ---------------------------
(***************************************************************************)
(* One direction of one TCP flow: TCPStream.push (transport/tcp.py) as     *)
(* CaptureEngine._on_packet (capture.py) calls it under the engine lock.   *)
(*                                                                         *)
(* A byte is identified with its position in the sender's stream, which    *)
(* the code never looks at: it sees the 32-bit sequence number of a        *)
(* segment and its payload.  The sniffer is a passive tap, so segments     *)
(* reach push in any order, any number of times, or never; Segments says   *)
(* which (position, length) pairs the sender puts on the wire, so that     *)
(* retransmissions may or may not cut the stream at other boundaries.      *)
(*                                                                         *)
(* The while loop that drains pending is one action per iteration.         *)
(***************************************************************************)
EXTENDS Integers, Sequences, FiniteSets

CONSTANTS SeqMod,      \* size of the sequence number space, 2^32 in TCP
          ISN,         \* sequence number of the stream's first byte
          StreamLen,   \* bytes the sender ever sends
          Segments,    \* the <<position, length>> pairs that may be captured
          MaxPush      \* bound on the number of captured segments

ASSUME SeqSpaceAssumption ==
    /\ SeqMod \in Nat \ {0}
    /\ ISN \in 0..SeqMod - 1
    /\ StreamLen \in 1..SeqMod - 1   \* one connection sends less than 4 GiB

ASSUME SegmentsAssumption ==
    /\ MaxPush \in Nat
    /\ \A s \in Segments : /\ s = <<s[1], s[2]>>
                           /\ s[1] \in 0..StreamLen
                           /\ s[2] \in Nat
                           /\ s[1] + s[2] <= StreamLen

None == -1    \* Python's None; every sequence number is a natural

\* The 32-bit sequence number of stream position p (p < SeqMod).
SeqOf(p) == IF ISN + p < SeqMod THEN ISN + p ELSE ISN + p - SeqMod

\* The payload that carries positions p .. p + n - 1.
Bytes(p, n) == [i \in 1..n |-> p + i - 1]

VARIABLES
    initial_seq, next_seq, last_seq,    \* TCPStream fields of those names
    pending,                            \* seq -> buffered payload
    retransmits, bytes_seen,            \* TCPStream counters
    reported,                           \* FlowState.last_retransmits
    pc,                                 \* where push is: idle, drain, return
    out,                                \* push's local bytearray
    delivered,                          \* bytes returned by push so far
    joinPos, captured, ordered, pushes  \* history: see the comments below

tcp_in == <<initial_seq, next_seq, last_seq, pending, retransmits, bytes_seen>>
\* joinPos: position of the first data segment; captured: the data segments seen;
\* ordered: no segment has begun before the end of an earlier one; pushes: number of
\* segments seen, bounded by MaxPush.
history == <<joinPos, captured, ordered, pushes>>
vars == <<tcp_in, reported, pc, out, delivered, history>>

Init ==
    /\ initial_seq = None /\ next_seq = None /\ last_seq = None
    /\ pending = [k \in {} |-> <<>>]
    /\ retransmits = 0 /\ bytes_seen = 0 /\ reported = 0
    /\ pc = "idle" /\ out = <<>> /\ delivered = <<>>
    /\ joinPos = None /\ captured = {} /\ ordered = TRUE /\ pushes = 0

---------------------------------------------------------------------------
\* push(seq, b""): a pure ACK is dropped before any field is touched.
PushEmpty(p, n) ==
    /\ pc = "idle" /\ pushes < MaxPush /\ n = 0
    /\ pushes' = pushes + 1
    /\ UNCHANGED <<tcp_in, reported, pc, out, delivered,
                   joinPos, captured, ordered>>

\* next_seq once the first-segment test of push has run.
NextSeq(seq) == IF initial_seq = None THEN seq ELSE next_seq

Regressed(seq) == last_seq # None /\ seq < last_seq

\* The fields every non-empty segment updates before the duplicate test.
Arrive(p, n) ==
    /\ pc = "idle" /\ pushes < MaxPush /\ n > 0
    /\ initial_seq' = IF initial_seq = None THEN SeqOf(p) ELSE initial_seq
    /\ next_seq' = NextSeq(SeqOf(p))
    /\ last_seq' = SeqOf(p)
    /\ joinPos' = IF joinPos = None THEN p ELSE joinPos
    /\ captured' = captured \cup {<<p, n>>}
    /\ ordered' = (ordered /\ \A s \in captured : s[1] + s[2] <= p)
    /\ pushes' = pushes + 1

AlreadyConsumed(seq, n) == seq + n <= NextSeq(seq)

\* A segment whose bytes were all consumed: counted, nothing returned.
PushDuplicate(p, n) ==
    LET seq == SeqOf(p) IN
    /\ Arrive(p, n)
    /\ AlreadyConsumed(seq, n)
    /\ retransmits' = retransmits + (IF Regressed(seq) THEN 2 ELSE 1)
    /\ pc' = "return"
    /\ UNCHANGED <<pending, bytes_seen, reported, out, delivered>>

\* Bytes of the payload left once those before next_seq are cut off.
TrimOffset(seq) == IF seq < NextSeq(seq) THEN NextSeq(seq) - seq ELSE 0

\* A mutant of Trimmed: the key is moved but the payload is not cut.
Trimmed_Uncut(p, n) == Bytes(p, n)
Trimmed(p, n) == SubSeq(Bytes(p, n), TrimOffset(SeqOf(p)) + 1, n)

Counted(p, n) == Len(Trimmed(p, n))

\* A segment with new bytes: trimmed on the left and buffered under its
\* sequence number, replacing whatever was buffered there.
PushBuffer(p, n) ==
    LET seq == SeqOf(p)
        key == seq + TrimOffset(seq)
    IN
    /\ Arrive(p, n)
    /\ ~AlreadyConsumed(seq, n)
    /\ retransmits' = retransmits + (IF Regressed(seq) THEN 1 ELSE 0)
    /\ pending' = [k \in DOMAIN pending \cup {key} |->
                     IF k = key THEN Trimmed(p, n) ELSE pending[k]]
    /\ bytes_seen' = bytes_seen + Counted(p, n)
    /\ pc' = "drain"
    /\ UNCHANGED <<reported, out, delivered>>

\* A mutant of DrainEnd: next_seq is advanced by one byte too many.
DrainEnd_OffByOne == next_seq + Len(pending[next_seq]) + 1
DrainEnd == next_seq + Len(pending[next_seq])

StillPending == DOMAIN pending \ {next_seq}

\* One iteration of `while self.next_seq in self.pending`.
DrainChunk ==
    /\ pc = "drain"
    /\ next_seq \in DOMAIN pending
    /\ out' = out \o pending[next_seq]
    /\ next_seq' = DrainEnd
    /\ pending' = [k \in StillPending |-> pending[k]]
    /\ UNCHANGED <<initial_seq, last_seq, retransmits, bytes_seen, reported,
                   pc, delivered, history>>

\* A mutant of DrainDone: the loop is an `if`.
DrainDone_Once == out # <<>> \/ next_seq \notin DOMAIN pending
DrainDone == next_seq \notin DOMAIN pending

\* push returns; _on_packet surfaces the new retransmits and passes the bytes on.
Return ==
    /\ \/ pc = "return"
       \/ pc = "drain" /\ DrainDone
    /\ pc' = "idle"
    /\ delivered' = delivered \o out
    /\ out' = <<>>
    /\ reported' = reported + (retransmits - reported)
    /\ UNCHANGED <<tcp_in, history>>

Push == \E s \in Segments : \/ PushEmpty(s[1], s[2])
                            \/ PushDuplicate(s[1], s[2])
                            \/ PushBuffer(s[1], s[2])

Next == Push \/ DrainChunk \/ Return

Spec == Init /\ [][Next]_vars

---------------------------------------------------------------------------
TypeOK ==
    /\ initial_seq \in Nat \cup {None}
    /\ next_seq \in Nat \cup {None}
    /\ last_seq \in Nat \cup {None}
    /\ DOMAIN pending \subseteq Nat
    /\ \A k \in DOMAIN pending : pending[k] \in Seq(Nat) \ {<<>>}
    /\ pending = [k \in DOMAIN pending |-> pending[k]]
    /\ retransmits \in Nat /\ bytes_seen \in Nat /\ reported \in Nat
    /\ pc \in {"idle", "drain", "return"}
    /\ out \in Seq(Nat) /\ delivered \in Seq(Nat)
    /\ joinPos \in 0..StreamLen - 1 \cup {None}
    /\ captured \subseteq Segments
    /\ ordered \in BOOLEAN /\ pushes \in 0..MaxPush

\* The bytes push has returned, in the order it returned them, are consecutive
\* bytes of the sender's stream from where the sniffer joined: whatever was lost,
\* reordered, duplicated, re-cut or wrapped, no byte is skipped, repeated or moved.
ByteExact ==
    \A i \in 1..Len(delivered) : delivered[i] = joinPos + i - 1

\* The stream position of the byte with sequence number k, counted from the join.
Pos(k) == joinPos + (k - initial_seq)

\* A buffered payload carries the bytes of its key, or lies beyond the end of the
\* stream: a segment from before a wraparound the sniffer joined after.
BufferedBytes(k) ==
    \/ Pos(k) > StreamLen
    \/ /\ Pos(k) >= joinPos
       /\ Pos(k) + Len(pending[k]) <= StreamLen
       /\ pending[k] = Bytes(Pos(k), Len(pending[k]))

\* Why ByteExact holds: next_seq is the sequence number of the byte after the last one
\* returned or drained, and every buffered payload holds the bytes its key announces.
ReassemblyInv ==
    IF initial_seq = None
    THEN /\ next_seq = None /\ last_seq = None /\ joinPos = None
         /\ DOMAIN pending = {} /\ out = <<>> /\ delivered = <<>> /\ pc = "idle"
    ELSE /\ joinPos # None /\ initial_seq = SeqOf(joinPos)
         /\ next_seq # None
         /\ Pos(next_seq) = joinPos + Len(delivered) + Len(out)
         /\ Pos(next_seq) <= StreamLen
         /\ delivered = Bytes(joinPos, Len(delivered))
         /\ out = Bytes(joinPos + Len(delivered), Len(out))
         /\ \A k \in DOMAIN pending : BufferedBytes(k)

Covered == UNION {s[1] .. s[1] + s[2] - 1 : s \in captured}

\* Between two packets the byte after the last one returned has not been captured:
\* tcp.py:18 "drain contiguous bytes as they land".
ContiguousDrained ==
    (pc = "idle" /\ joinPos # None) => joinPos + Len(delivered) \notin Covered

\* What the algorithm needs of the capture: no two different segments overlap, and
\* all of them lie on the side of a wraparound on which the sniffer joined.
Recut == \E s, t \in captured : s[1] < t[1] + t[2] /\ t[1] < s[1] + s[2] /\ s # t
Wrapped == \E s \in captured : (ISN + s[1] + s[2] > SeqMod)
                                 # (ISN + joinPos >= SeqMod)

\* As long as retransmissions keep the segment boundaries and the sequence numbers do
\* not wrap, every captured byte that is contiguous with the stream has been returned, and
\* what stays in memory is what a lost segment still keeps from being returned.
DrainsUnlessRecut ==
    \/ Recut \/ Wrapped
    \/ /\ ContiguousDrained
       /\ pc = "idle" => \A k \in DOMAIN pending : k > next_seq

\* A capture that lost and reordered nothing has been handed to the parser entirely:
\* "contiguous bytes drain in order" (README.md:291), at any sequence number.
OrderedCaptureIsComplete ==
    ordered => ContiguousDrained

\* What the parser sees is an in-order reliable byte stream (module ByteStream).
Stream == INSTANCE ByteStream WITH start <- joinPos, got <- delivered

\* push implements the abstract stream: the segment that fixes initial_seq joins it,
\* a return with bytes extends it, everything else leaves it alone.
ImplementsByteStream == Stream!Spec
============================================================================
