---------------------------- MODULE ByteStream ----------------------------
(***************************************************************************)
(* What one reassembled direction of a TCP connection promises its parser: *)
(* the observer joins the sender's byte stream at some position and from   *)
(* then on receives consecutive bytes, none skipped, repeated or altered.  *)
(* A byte is identified with its position in the sender's stream.          *)
(***************************************************************************)
EXTENDS Integers, Sequences

CONSTANT StreamLen      \* number of bytes the sender ever sends

None == -1

VARIABLES start,        \* position of the first byte the observer keeps
          got           \* the bytes handed to the parser so far

Bytes(p, n) == [i \in 1..n |-> p + i - 1]

Init == start = None /\ got = <<>>

\* The first data segment captured fixes where the stream begins.
Join == /\ start = None
        /\ start' \in 0..StreamLen - 1
        /\ UNCHANGED got

\* The next n bytes of the stream arrive at the parser.
Extend == /\ start # None
          /\ \E n \in 1..StreamLen :
                /\ start + Len(got) + n <= StreamLen
                /\ got' = got \o Bytes(start + Len(got), n)
          /\ UNCHANGED start

Next == Join \/ Extend

Spec == Init /\ [][Next]_<<start, got>>
===========================================================================
