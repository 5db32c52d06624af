---------------------------- MODULE Decoder_proof ----------------------------
(***************************************************************************)
(* One direction of one flow, from the bytes push returns to the packets   *)
(* emitted, for any packets, any framing and any chunks: the unmasker      *)
(* hands over the payload intact, the parser emits the packets that were   *)
(* sent, and segment boundaries change nothing.                            *)
(***************************************************************************)
EXTENDS Decoder, SequenceTheorems, WellFoundedInduction, TLAPS

---------------------------------------------------------------------------
(* Induction, and FlattenSeq. *)

\* Induction over the naturals: the least number that is not in S would have a
\* predecessor in S.
LEMMA Induction ==
    ASSUME NEW S, 0 \in S, \A n \in Nat : n \in S => n + 1 \in S
    PROVE  Nat \subseteq S
<1> DEFINE T == Nat \ S
           R == {p \in Nat \X Nat : p[1] < p[2]}
<1> SUFFICES ASSUME T # {} PROVE FALSE
  OBVIOUS
<1>1. \E n \in T : \A m \in T : <<m, n>> \notin R
  <2>1. T \subseteq Nat /\ T # {}
    OBVIOUS
  <2>2. IsWellFoundedOn(R, Nat)
    BY NatLessThanWellFounded DEF OpToRel
  <2> HIDE DEF T, R
  <2> QED
    BY <2>1, <2>2, WFMin
<1>2. PICK n \in T : \A m \in T : ~(m < n)
  BY <1>1
<1>3. n - 1 \in Nat /\ n - 1 \in S
  BY <1>2
<1>4. (n - 1) + 1 \in S
  BY <1>3
<1> QED
  BY <1>4

\* Induction over sequences by their last element.
LEMMA SeqInduction ==
    ASSUME NEW V, NEW T, <<>> \in T,
           \A s \in Seq(V), x \in V : s \in T => Append(s, x) \in T
    PROVE  Seq(V) \subseteq T
<1> DEFINE N == {n \in Nat : \A s \in Seq(V) : Len(s) = n => s \in T}
<1>1. 0 \in N
  <2>1. ASSUME NEW s \in Seq(V), Len(s) = 0 PROVE s = <<>>
    BY <2>1
  <2> QED
    BY <2>1
<1>2. ASSUME NEW n \in Nat, n \in N PROVE n + 1 \in N
  <2>1. ASSUME NEW s \in Seq(V), Len(s) = n + 1 PROVE s \in T
    <3> DEFINE front == SubSeq(s, 1, n)
    <3>1. front \in Seq(V) /\ Len(front) = n /\ s[n + 1] \in V
      BY <2>1
    <3>2. s = Append(front, s[n + 1])
      <4>1. \A i \in 1..n : front[i] = s[i]
        BY <2>1
      <4> HIDE DEF front
      <4> QED
        BY <2>1, <3>1, <4>1
    <3>3. front \in T
      BY <1>2, <3>1
    <3> HIDE DEF front
    <3> QED
      BY <3>1, <3>2, <3>3
  <2> QED
    BY <2>1
<1>3. Nat \subseteq N
  <2> HIDE DEF N
  <2> QED
    BY <1>1, <1>2, Induction
<1> QED
  BY <1>3

\* The recursive function of FlattenSeq, by name.
FlattenBody(ss, f) ==
    [i \in 1..Len(ss) |-> IF i = 1 THEN ss[i] ELSE f[i - 1] \o ss[i]]

FlattenFun(ss) == CHOOSE f : f = FlattenBody(ss, f)

LEMMA FlattenExists ==
    ASSUME NEW V, NEW ss \in Seq(Seq(V))
    PROVE  \E f : f = FlattenBody(ss, f)
<1> DEFINE Upto(n, f) ==
               /\ f \in [1..n -> Seq(V)]
               /\ \A i \in 1..n : f[i] = IF i = 1 THEN ss[i] ELSE f[i - 1] \o ss[i]
           T == {n \in Nat : n <= Len(ss) => \E f : Upto(n, f)}
<1>1. 0 \in T
  <2>1. Upto(0, [i \in 1..0 |-> <<>>])
    OBVIOUS
  <2> QED
    BY <2>1
<1>2. ASSUME NEW n \in Nat, n \in T PROVE n + 1 \in T
  <2> SUFFICES ASSUME n + 1 <= Len(ss) PROVE \E f : Upto(n + 1, f)
    <3> HIDE DEF Upto
    <3> QED
      OBVIOUS
  <2>1. PICK f : Upto(n, f)
    <3>1. n <= Len(ss)
      OBVIOUS
    <3> HIDE DEF Upto
    <3> QED
      BY <1>2, <3>1
  <2>2. ss[n + 1] \in Seq(V) /\ (n # 0 => f[n] \in Seq(V))
    BY <2>1
  <2> DEFINE v == IF n + 1 = 1 THEN ss[n + 1] ELSE f[n] \o ss[n + 1]
             g == [i \in 1..n + 1 |-> IF i <= n THEN f[i] ELSE v]
  <2>3. v \in Seq(V)
    BY <2>2
  <2>4. Upto(n + 1, g)
    <3> HIDE DEF v
    <3>1. g \in [1..n + 1 -> Seq(V)]
      BY <2>1, <2>3
    <3>2. ASSUME NEW i \in 1..n + 1
          PROVE  g[i] = IF i = 1 THEN ss[i] ELSE g[i - 1] \o ss[i]
      <4>1. CASE i = n + 1
        <5>1. g[i] = v /\ (i # 1 => g[i - 1] = f[n])
          BY <4>1
        <5> QED
          BY <4>1, <5>1 DEF v
      <4>2. CASE i \in 1..n
        <5>1. f[i] = IF i = 1 THEN ss[i] ELSE f[i - 1] \o ss[i]
          BY <2>1, <4>2
        <5>2. g[i] = f[i] /\ (i # 1 => g[i - 1] = f[i - 1])
          BY <4>2
        <5> QED
          BY <5>1, <5>2
      <4> QED
        BY <4>1, <4>2
    <3> QED
      BY <3>1, <3>2
  <2> QED
    BY <2>4
<1>3. Len(ss) \in T
  <2> HIDE DEF T
  <2> QED
    BY <1>1, <1>2, Induction
<1>4. PICK f : Upto(Len(ss), f)
  BY <1>3
<1>5. f = FlattenBody(ss, f)
  <2>1. f = [i \in 1..Len(ss) |-> f[i]]
    BY <1>4
  <2> QED
    BY <1>4, <2>1, Zenon DEF FlattenBody
<1> QED
  BY <1>5

LEMMA FlattenFunIs ==
    ASSUME NEW V, NEW ss \in Seq(Seq(V)), Len(ss) > 0
    PROVE  /\ FlattenSeq(ss) = FlattenFun(ss)[Len(ss)]
           /\ FlattenFun(ss)[1] = ss[1]
           /\ \A i \in 2..Len(ss) : FlattenFun(ss)[i] = FlattenFun(ss)[i - 1] \o ss[i]
<1> DEFINE f == FlattenFun(ss)
<1>1. f = FlattenBody(ss, f)
  BY FlattenExists DEF FlattenFun
<1>2. FlattenSeq(ss) = f[Len(ss)]
  BY DEF FlattenSeq, FlattenFun, FlattenBody
<1> HIDE DEF f
<1>3. f = [i \in 1..Len(ss) |-> IF i = 1 THEN ss[i] ELSE f[i - 1] \o ss[i]]
  BY <1>1, Zenon DEF FlattenBody
<1>4. f[1] = ss[1]
  <2>1. 1 \in 1..Len(ss)
    OBVIOUS
  <2> QED
    BY <1>3, <2>1, Zenon
<1>5. ASSUME NEW i \in 2..Len(ss) PROVE f[i] = f[i - 1] \o ss[i]
  <2>1. i \in 1..Len(ss) /\ i # 1
    OBVIOUS
  <2> QED
    BY <1>3, <2>1, Zenon
<1> QED
  BY <1>2, <1>4, <1>5, Zenon DEF f

LEMMA FlattenOfPrefix ==
    ASSUME NEW V, NEW ss \in Seq(Seq(V)), NEW s \in Seq(V), Len(ss) > 0
    PROVE  FlattenFun(Append(ss, s))[Len(ss)] = FlattenFun(ss)[Len(ss)]
<1> DEFINE t == Append(ss, s)
           T == {n \in Nat : n + 1 <= Len(ss) => FlattenFun(t)[n + 1] = FlattenFun(ss)[n + 1]}
<1>1. /\ t \in Seq(Seq(V)) /\ Len(t) = Len(ss) + 1 /\ Len(ss) \in Nat /\ Len(t) > 0
      /\ \A i \in 1..Len(ss) : t[i] = ss[i]
  OBVIOUS
<1> HIDE DEF t
<1>2. /\ FlattenFun(t)[1] = t[1]
      /\ \A i \in 2..Len(t) : FlattenFun(t)[i] = FlattenFun(t)[i - 1] \o t[i]
  BY <1>1, FlattenFunIs
<1>3. /\ FlattenFun(ss)[1] = ss[1]
      /\ \A i \in 2..Len(ss) : FlattenFun(ss)[i] = FlattenFun(ss)[i - 1] \o ss[i]
  BY FlattenFunIs
<1>4. 0 \in T
  BY <1>1, <1>2, <1>3
<1>5. ASSUME NEW n \in Nat, n \in T PROVE n + 1 \in T
  <2> SUFFICES ASSUME n + 2 <= Len(ss) PROVE FlattenFun(t)[n + 2] = FlattenFun(ss)[n + 2]
    <3>1. (n + 1) + 1 = n + 2 /\ n + 1 \in Nat
      OBVIOUS
    <3> QED
      BY <3>1
  <2>1. n + 2 \in 2..Len(ss) /\ n + 2 \in 2..Len(t) /\ (n + 2) - 1 = n + 1 /\ t[n + 2] = ss[n + 2]
    BY <1>1
  <2>2. FlattenFun(t)[n + 1] = FlattenFun(ss)[n + 1]
    BY <1>5, <2>1
  <2>3. FlattenFun(t)[n + 2] = FlattenFun(t)[n + 1] \o t[n + 2]
    BY <1>2, <2>1
  <2>4. FlattenFun(ss)[n + 2] = FlattenFun(ss)[n + 1] \o ss[n + 2]
    BY <1>3, <2>1
  <2> QED
    BY <2>1, <2>2, <2>3, <2>4
<1>6. Len(ss) - 1 \in T
  <2>1. Len(ss) - 1 \in Nat
    OBVIOUS
  <2> HIDE DEF T
  <2> QED
    BY <1>4, <1>5, <2>1, Induction
<1>7. (Len(ss) - 1) + 1 = Len(ss)
  BY <1>1
<1> QED
  BY <1>1, <1>6, <1>7 DEF t

LEMMA FlattenEmpty == FlattenSeq(<<>>) = <<>>
  BY DEF FlattenSeq

LEMMA FlattenAppend ==
    ASSUME NEW V, NEW ss \in Seq(Seq(V)), NEW s \in Seq(V)
    PROVE  FlattenSeq(Append(ss, s)) = FlattenSeq(ss) \o s
<1> DEFINE t == Append(ss, s)
           n == Len(ss)
<1>1. t \in Seq(Seq(V)) /\ Len(t) = n + 1 /\ t[n + 1] = s /\ n \in Nat /\ Len(t) > 0
  OBVIOUS
<1>2. CASE n = 0
  <2>1. ss = <<>>
    BY <1>2
  <2>2. FlattenFun(t)[1] = t[1] /\ FlattenSeq(t) = FlattenFun(t)[Len(t)]
    <3> HIDE DEF t
    <3> QED
      BY <1>1, <1>2, FlattenFunIs
  <2>3. FlattenSeq(t) = s
    BY <1>1, <1>2, <2>2
  <2> QED
    BY <2>1, <2>3, FlattenEmpty
<1>3. CASE n > 0
  <2>1. FlattenFun(t)[n] = FlattenSeq(ss)
    BY <1>3, FlattenOfPrefix, FlattenFunIs
  <2> HIDE DEF t, n
  <2>2. /\ FlattenSeq(t) = FlattenFun(t)[Len(t)]
        /\ \A i \in 2..Len(t) : FlattenFun(t)[i] = FlattenFun(t)[i - 1] \o t[i]
    BY <1>1, FlattenFunIs
  <2>3. n + 1 \in 2..Len(t) /\ (n + 1) - 1 = n
    BY <1>1, <1>3
  <2>4. FlattenFun(t)[n + 1] = FlattenFun(t)[n] \o t[n + 1]
    BY <2>2, <2>3
  <2> QED
    BY <1>1, <2>1, <2>2, <2>4 DEF t
<1> QED
  BY <1>1, <1>2, <1>3

LEMMA FlattenType ==
    ASSUME NEW V, NEW ss \in Seq(Seq(V))
    PROVE  FlattenSeq(ss) \in Seq(V)
<1> DEFINE T == {tt \in Seq(Seq(V)) : FlattenSeq(tt) \in Seq(V)}
<1>1. <<>> \in T
  <2>1. <<>> \in Seq(V) /\ <<>> \in Seq(Seq(V))
    OBVIOUS
  <2> QED
    BY <2>1, FlattenEmpty
<1>2. ASSUME NEW tt \in Seq(Seq(V)), NEW s \in Seq(V), tt \in T PROVE Append(tt, s) \in T
  <2>1. FlattenSeq(tt) \in Seq(V) /\ Append(tt, s) \in Seq(Seq(V))
    BY <1>2
  <2>2. FlattenSeq(tt) \o s \in Seq(V)
    BY <2>1
  <2> QED
    BY <2>1, <2>2, FlattenAppend
<1>3. Seq(Seq(V)) \subseteq T
  <2> HIDE DEF T
  <2> QED
    BY <1>1, <1>2, SeqInduction
<1> QED
  BY <1>3

LEMMA FlattenConcat ==
    ASSUME NEW V, NEW ss \in Seq(Seq(V)), NEW tt \in Seq(Seq(V))
    PROVE  FlattenSeq(ss \o tt) = FlattenSeq(ss) \o FlattenSeq(tt)
<1> DEFINE T == {uu \in Seq(Seq(V)) : FlattenSeq(ss \o uu) = FlattenSeq(ss) \o FlattenSeq(uu)}
<1>1. <<>> \in T
  <2>1. FlattenSeq(ss) \in Seq(V)
    BY FlattenType
  <2>2. FlattenSeq(ss) \o <<>> = FlattenSeq(ss) /\ ss \o <<>> = ss /\ <<>> \in Seq(Seq(V))
    BY <2>1
  <2> QED
    BY <2>2, FlattenEmpty, Zenon
<1>2. ASSUME NEW uu \in Seq(Seq(V)), NEW s \in Seq(V), uu \in T PROVE Append(uu, s) \in T
  <2>1. /\ ss \o Append(uu, s) = Append(ss \o uu, s) /\ ss \o uu \in Seq(Seq(V))
        /\ Append(uu, s) \in Seq(Seq(V))
    OBVIOUS
  <2>2. FlattenSeq(Append(ss \o uu, s)) = FlattenSeq(ss \o uu) \o s
    BY <2>1, FlattenAppend
  <2>3. FlattenSeq(Append(uu, s)) = FlattenSeq(uu) \o s
    BY FlattenAppend
  <2>4. FlattenSeq(ss) \in Seq(V) /\ FlattenSeq(uu) \in Seq(V)
    BY FlattenType
  <2>5. (FlattenSeq(ss) \o FlattenSeq(uu)) \o s = FlattenSeq(ss) \o (FlattenSeq(uu) \o s)
    BY <2>4
  <2> QED
    BY <1>2, <2>1, <2>2, <2>3, <2>5
<1>3. Seq(Seq(V)) \subseteq T
  <2> HIDE DEF T
  <2> QED
    BY <1>1, <1>2, SeqInduction
<1> QED
  BY <1>3

LEMMA FlattenHead ==
    ASSUME NEW V, NEW ss \in Seq(Seq(V)), ss # <<>>
    PROVE  FlattenSeq(ss) = Head(ss) \o FlattenSeq(Tail(ss))
<1>1. ss = <<Head(ss)>> \o Tail(ss) /\ Head(ss) \in Seq(V) /\ Tail(ss) \in Seq(Seq(V))
      /\ <<Head(ss)>> \in Seq(Seq(V))
  OBVIOUS
<1>2. FlattenSeq(<<Head(ss)>>) = Head(ss)
  <2>1. <<Head(ss)>> = Append(<<>>, Head(ss)) /\ <<>> \in Seq(Seq(V)) /\ <<>> \o Head(ss) = Head(ss)
    BY <1>1
  <2>2. FlattenSeq(Append(<<>>, Head(ss))) = FlattenSeq(<<>>) \o Head(ss)
    BY <1>1, <2>1, FlattenAppend
  <2> QED
    BY <2>1, <2>2, FlattenEmpty
<1>3. FlattenSeq(<<Head(ss)>> \o Tail(ss)) = FlattenSeq(<<Head(ss)>>) \o FlattenSeq(Tail(ss))
  BY <1>1, FlattenConcat
<1> QED
  BY <1>1, <1>2, <1>3

---------------------------------------------------------------------------
(* The payload among the tokens. *)

Tokens ==
    ({"byte"} \X Bytes) \cup {Control(0), Upgrade, Request, EndOfHead}
       \cup ({"header"} \X BOOLEAN \X {"data", "cont", "control"} \X Nat)

Piece(x) == IF x[1] = "byte" THEN <<x[2]>> ELSE <<>>

Pieces(s) == [i \in DOMAIN s |-> Piece(s[i])]

LEMMA DataIs == \A s : Data(s) = FlattenSeq(Pieces(s))
  BY DEF Data, Pieces, Piece

LEMMA PieceType == \A x \in Tokens : Piece(x) \in Seq(Bytes)
<1> SUFFICES ASSUME NEW x \in Tokens PROVE Piece(x) \in Seq(Bytes)
  OBVIOUS
<1>1. CASE x \in {"byte"} \X Bytes
  BY <1>1 DEF Piece
<1>2. CASE x \notin {"byte"} \X Bytes
  <2>1. x[1] # "byte"
    BY <1>2 DEF Tokens, Control, Upgrade, Request, EndOfHead
  <2> QED
    BY <2>1 DEF Piece
<1> QED
  BY <1>1, <1>2

LEMMA PiecesType == \A s \in Seq(Tokens) : Pieces(s) \in Seq(Seq(Bytes))
<1> SUFFICES ASSUME NEW s \in Seq(Tokens) PROVE Pieces(s) \in Seq(Seq(Bytes))
  OBVIOUS
<1>1. DOMAIN s = 1..Len(s) /\ Len(s) \in Nat /\ \A i \in 1..Len(s) : Piece(s[i]) \in Seq(Bytes)
  BY PieceType
<1>2. Pieces(s) \in [1..Len(s) -> Seq(Bytes)]
  BY <1>1, Zenon DEF Pieces
<1> HIDE DEF Pieces
<1> QED
  BY <1>1, <1>2

LEMMA DataType == \A s \in Seq(Tokens) : Data(s) \in Seq(Bytes)
  BY PiecesType, FlattenType, DataIs

LEMMA DataEmpty == Data(<<>>) = <<>>
<1>1. Pieces(<<>>) = <<>>
  BY DEF Pieces
<1> QED
  BY <1>1, DataIs, FlattenEmpty

LEMMA AppendIs ==
    ASSUME NEW V, NEW s \in Seq(V), NEW x \in V
    PROVE  /\ Append(s, x) \in Seq(V) /\ Len(Append(s, x)) = Len(s) + 1 /\ Len(s) \in Nat
           /\ Append(s, x)[Len(s) + 1] = x
           /\ \A i \in 1..Len(s) : Append(s, x)[i] = s[i]
  OBVIOUS

LEMMA TailIs ==
    ASSUME NEW V, NEW s \in Seq(V), s # <<>>
    PROVE  /\ Head(s) = s[1] /\ Head(s) \in V /\ Len(s) \in Nat /\ Len(s) >= 1
           /\ Tail(s) \in Seq(V) /\ Len(Tail(s)) = Len(s) - 1
           /\ \A i \in 1..Len(s) - 1 : Tail(s)[i] = s[i + 1]
  OBVIOUS

LEMMA ConcatIs ==
    ASSUME NEW V, NEW a \in Seq(V), NEW b \in Seq(V)
    PROVE  /\ a \o b \in Seq(V) /\ Len(a \o b) = Len(a) + Len(b)
           /\ \A i \in 1..Len(a) : (a \o b)[i] = a[i]
           /\ \A i \in 1..Len(b) : (a \o b)[Len(a) + i] = b[i]
  OBVIOUS

LEMMA DataConcat ==
    ASSUME NEW s \in Seq(Tokens), NEW t \in Seq(Tokens)
    PROVE  Data(s \o t) = Data(s) \o Data(t)
<1>1. Pieces(s) \in Seq(Seq(Bytes)) /\ Pieces(t) \in Seq(Seq(Bytes))
  BY PiecesType
<1>2. Pieces(s \o t) = Pieces(s) \o Pieces(t)
  <2> DEFINE l == Pieces(s \o t)
             r == Pieces(s) \o Pieces(t)
  <2>1. /\ Len(s) \in Nat /\ Len(t) \in Nat /\ Len(s \o t) = Len(s) + Len(t)
        /\ s \o t \in Seq(Tokens)
        /\ \A i \in 1..Len(s) : (s \o t)[i] = s[i]
        /\ \A i \in 1..Len(t) : (s \o t)[Len(s) + i] = t[i]
    OBVIOUS
  <2>2. \A u \in Seq(Tokens) : Len(Pieces(u)) = Len(u) /\ \A i \in 1..Len(u) : Pieces(u)[i] = Piece(u[i])
    BY DEF Pieces
  <2>3. /\ r \in Seq(Seq(Bytes)) /\ Len(r) = Len(s) + Len(t)
        /\ \A i \in 1..Len(s) : r[i] = Pieces(s)[i]
        /\ \A i \in 1..Len(t) : r[Len(s) + i] = Pieces(t)[i]
    <3>1. Len(Pieces(s)) = Len(s) /\ Len(Pieces(t)) = Len(t)
      BY <2>2
    <3>2. /\ Pieces(s) \o Pieces(t) \in Seq(Seq(Bytes))
          /\ Len(Pieces(s) \o Pieces(t)) = Len(Pieces(s)) + Len(Pieces(t))
          /\ \A i \in 1..Len(Pieces(s)) : (Pieces(s) \o Pieces(t))[i] = Pieces(s)[i]
          /\ \A i \in 1..Len(Pieces(t)) :
                (Pieces(s) \o Pieces(t))[Len(Pieces(s)) + i] = Pieces(t)[i]
      <4>1. \A a \in Seq(Seq(Bytes)), b \in Seq(Seq(Bytes)) :
               /\ a \o b \in Seq(Seq(Bytes)) /\ Len(a \o b) = Len(a) + Len(b)
               /\ \A i \in 1..Len(a) : (a \o b)[i] = a[i]
               /\ \A i \in 1..Len(b) : (a \o b)[Len(a) + i] = b[i]
        BY ConcatIs
      <4> QED
        BY <1>1, <4>1
    <3> QED
      BY <3>1, <3>2
  <2>4. l \in Seq(Seq(Bytes)) /\ Len(l) = Len(s) + Len(t)
    BY <2>1, <2>2, PiecesType, Zenon
  <2>5. ASSUME NEW i \in 1..Len(s) + Len(t) PROVE l[i] = r[i]
    <3> HIDE DEF r
    <3>1. l[i] = Piece((s \o t)[i])
      BY <2>1, <2>2
    <3> HIDE DEF l
    <3>2. CASE i <= Len(s)
      <4>1. i \in 1..Len(s)
        BY <2>1, <3>2
      <4> QED
        BY <2>1, <2>2, <2>3, <3>1, <4>1
    <3>3. CASE i > Len(s)
      <4>1. i - Len(s) \in 1..Len(t) /\ Len(s) + (i - Len(s)) = i
        BY <2>1, <3>3
      <4>2. r[i] = Pieces(t)[i - Len(s)] /\ (s \o t)[i] = t[i - Len(s)]
        BY <2>1, <2>3, <4>1
      <4>3. Pieces(t)[i - Len(s)] = Piece(t[i - Len(s)])
        BY <2>2, <4>1
      <4> QED
        BY <3>1, <4>2, <4>3
    <3> QED
      BY <2>1, <3>2, <3>3
  <2> HIDE DEF l, r
  <2>6. l = r
    BY <2>3, <2>4, <2>5
  <2> QED
    BY <2>6 DEF l, r
<1>3. FlattenSeq(Pieces(s) \o Pieces(t)) = FlattenSeq(Pieces(s)) \o FlattenSeq(Pieces(t))
  BY <1>1, FlattenConcat
<1> QED
  BY <1>2, <1>3, DataIs

LEMMA DataOne ==
    ASSUME NEW x \in Tokens
    PROVE  Data(<<x>>) = Piece(x)
<1>1. Pieces(<<x>>) = <<Piece(x)>>
  BY DEF Pieces
<1>2. <<Piece(x)>> = Append(<<>>, Piece(x)) /\ <<>> \in Seq(Seq(Bytes)) /\ Piece(x) \in Seq(Bytes)
      /\ <<>> \o Piece(x) = Piece(x)
  BY PieceType
<1>3. FlattenSeq(Append(<<>>, Piece(x))) = FlattenSeq(<<>>) \o Piece(x)
  BY <1>2, FlattenAppend
<1> QED
  BY <1>1, <1>2, <1>3, DataIs, FlattenEmpty

AllBytes(s) == \A i \in 1..Len(s) : s[i] \in {"byte"} \X Bytes

NoBytes(s) == \A i \in 1..Len(s) : s[i][1] # "byte"

LEMMA ValuesType ==
    ASSUME NEW V, NEW s \in Seq(V), AllBytes(s)
    PROVE  Values(s) \in Seq(Bytes) /\ Len(Values(s)) = Len(s)
  BY DEF Values, AllBytes

LEMMA DataOfBytes ==
    ASSUME NEW s \in Seq(Tokens), AllBytes(s)
    PROVE  Data(s) = Values(s)
<1> DEFINE T == {u \in Seq(Tokens) : AllBytes(u) => Data(u) = Values(u)}
<1>1. <<>> \in T
  <2>1. Values(<<>>) = <<>> /\ <<>> \in Seq(Tokens)
    BY DEF Values
  <2> QED
    BY <2>1, DataEmpty
<1>2. ASSUME NEW u \in Seq(Tokens), NEW x \in Tokens, u \in T PROVE Append(u, x) \in T
  <2> SUFFICES ASSUME AllBytes(Append(u, x)) PROVE Data(Append(u, x)) = Values(Append(u, x))
    OBVIOUS
  <2>1. AllBytes(u) /\ x \in {"byte"} \X Bytes
    <3>1. Len(Append(u, x)) = Len(u) + 1 /\ Append(u, x)[Len(u) + 1] = x /\ Len(u) \in Nat
          /\ \A i \in 1..Len(u) : Append(u, x)[i] = u[i]
      OBVIOUS
    <3>2. \A i \in 1..Len(u) + 1 : Append(u, x)[i] \in {"byte"} \X Bytes
      BY <3>1 DEF AllBytes
    <3>3. Len(u) + 1 \in 1..Len(u) + 1 /\ \A i \in 1..Len(u) : i \in 1..Len(u) + 1
      BY <3>1
    <3> QED
      BY <3>1, <3>2, <3>3, Zenon DEF AllBytes
  <2>2. Piece(x) = <<x[2]>>
    BY <2>1 DEF Piece
  <2>3. Append(u, x) = u \o <<x>> /\ <<x>> \in Seq(Tokens)
    OBVIOUS
  <2>4. Data(Append(u, x)) = Data(u) \o <<x[2]>>
    BY <2>2, <2>3, DataConcat, DataOne
  <2>5. Values(Append(u, x)) = Values(u) \o <<x[2]>>
    <3>1. Values(u) \in Seq(Bytes) /\ Len(Values(u)) = Len(u) /\ x[2] \in Bytes
      BY <2>1, ValuesType
    <3>2. Values(Append(u, x)) \in Seq(Bytes) /\ Len(Values(Append(u, x))) = Len(u) + 1
      <4>1. Append(u, x) \in Seq(Tokens) /\ Len(Append(u, x)) = Len(u) + 1
        OBVIOUS
      <4> QED
        BY <4>1, ValuesType
    <3>3. \A i \in 1..Len(u) + 1 : Values(Append(u, x))[i] = (Values(u) \o <<x[2]>>)[i]
      BY <3>1 DEF Values
    <3>4. Values(u) \o <<x[2]>> \in Seq(Bytes) /\ Len(Values(u) \o <<x[2]>>) = Len(u) + 1
      BY <3>1
    <3> QED
      BY <3>2, <3>3, <3>4
  <2>6. Data(u) = Values(u)
    BY <1>2, <2>1
  <2> QED
    BY <2>4, <2>5, <2>6
<1>3. Seq(Tokens) \subseteq T
  <2> HIDE DEF T
  <2> QED
    BY <1>1, <1>2, SeqInduction
<1> QED
  BY <1>3

LEMMA DataOfOthers ==
    ASSUME NEW s \in Seq(Tokens), NoBytes(s)
    PROVE  Data(s) = <<>>
<1> DEFINE T == {u \in Seq(Tokens) : NoBytes(u) => Data(u) = <<>>}
<1>1. <<>> \in T
  BY DataEmpty
<1>2. ASSUME NEW u \in Seq(Tokens), NEW x \in Tokens, u \in T PROVE Append(u, x) \in T
  <2> SUFFICES ASSUME NoBytes(Append(u, x)) PROVE Data(Append(u, x)) = <<>>
    OBVIOUS
  <2>1. NoBytes(u) /\ x[1] # "byte"
    <3>1. Len(Append(u, x)) = Len(u) + 1 /\ Append(u, x)[Len(u) + 1] = x /\ Len(u) \in Nat
          /\ \A i \in 1..Len(u) : Append(u, x)[i] = u[i]
      OBVIOUS
    <3>2. \A i \in 1..Len(u) + 1 : Append(u, x)[i][1] # "byte"
      BY <3>1 DEF NoBytes
    <3>3. Len(u) + 1 \in 1..Len(u) + 1 /\ \A i \in 1..Len(u) : i \in 1..Len(u) + 1
      BY <3>1
    <3> QED
      BY <3>1, <3>2, <3>3, Zenon DEF NoBytes
  <2>2. Append(u, x) = u \o <<x>> /\ <<x>> \in Seq(Tokens)
    OBVIOUS
  <2>3. Data(Append(u, x)) = Data(u) \o Piece(x)
    BY <2>2, DataConcat, DataOne
  <2>4. Piece(x) = <<>> /\ Data(u) = <<>>
    BY <1>2, <2>1 DEF Piece
  <2> QED
    BY <2>3, <2>4
<1>3. Seq(Tokens) \subseteq T
  <2> HIDE DEF T
  <2> QED
    BY <1>1, <1>2, SeqInduction
<1> QED
  BY <1>3

---------------------------------------------------------------------------
(* Framing. *)

\* The tokens f are one frame; before and after tell whether a message is open.
FrameOK(f, before, after) ==
    \E fin \in BOOLEAN, op \in {"data", "cont", "control"}, body \in Seq(Tokens) :
       /\ f = <<Header(fin, op, Len(body))>> \o body
       /\ \/ op = "control" /\ NoBytes(body) /\ after = before
          \/ op = (IF before THEN "cont" ELSE "data") /\ AllBytes(body) /\ after = ~fin

\* The tokens s are the frames fs, from a message open or not (a) to one open or not
\* (b); m tells for every frame whether it leaves a message open.
FramedBy(s, a, b, fs, m) ==
    /\ fs \in Seq(Seq(Tokens)) /\ m \in [0..Len(fs) -> BOOLEAN]
    /\ s = FlattenSeq(fs) /\ m[0] = a /\ m[Len(fs)] = b
    /\ \A i \in 1..Len(fs) : FrameOK(fs[i], m[i - 1], m[i])

Framed(s, a, b) == \E fs, m : FramedBy(s, a, b, fs, m)

LEMMA FrameIs ==
    ASSUME NEW f, NEW before, NEW after, FrameOK(f, before, after)
    PROVE  f \in Seq(Tokens) /\ f # <<>>
<1>1. PICK fin \in BOOLEAN, op \in {"data", "cont", "control"}, body \in Seq(Tokens) :
         f = <<Header(fin, op, Len(body))>> \o body
  BY DEF FrameOK
<1>2. Header(fin, op, Len(body)) \in Tokens
  BY DEF Header, Tokens
<1> QED
  BY <1>1, <1>2

LEMMA FramedIs ==
    ASSUME NEW s, NEW a, NEW b, Framed(s, a, b)
    PROVE  s \in Seq(Tokens) /\ a \in BOOLEAN /\ b \in BOOLEAN
<1>1. PICK fs, m : FramedBy(s, a, b, fs, m)
  BY DEF Framed
<1>2. /\ fs \in Seq(Seq(Tokens)) /\ m \in [0..Len(fs) -> BOOLEAN]
      /\ s = FlattenSeq(fs) /\ m[0] = a /\ m[Len(fs)] = b
  BY <1>1 DEF FramedBy
<1>3. m[0] \in BOOLEAN /\ m[Len(fs)] \in BOOLEAN
  BY <1>2
<1> QED
  BY <1>2, <1>3, FlattenType

LEMMA FramedEmpty ==
    ASSUME NEW a \in BOOLEAN
    PROVE  Framed(<<>>, a, a)
<1> DEFINE m == [i \in 0..0 |-> a]
<1>1. <<>> \in Seq(Seq(Tokens)) /\ Len(<<>>) = 0 /\ m \in [0..0 -> BOOLEAN] /\ m[0] = a
  OBVIOUS
<1> HIDE DEF m
<1> QED
  BY <1>1, FlattenEmpty DEF Framed, FramedBy

LEMMA FramedAppend ==
    ASSUME NEW s, NEW a, NEW b, NEW f, NEW c \in BOOLEAN, Framed(s, a, b), FrameOK(f, b, c)
    PROVE  Framed(s \o f, a, c)
<1>0. PICK fs, m : FramedBy(s, a, b, fs, m)
  BY DEF Framed
<1>1. /\ fs \in Seq(Seq(Tokens)) /\ m \in [0..Len(fs) -> BOOLEAN]
      /\ s = FlattenSeq(fs) /\ m[0] = a /\ m[Len(fs)] = b
      /\ \A i \in 1..Len(fs) : FrameOK(fs[i], m[i - 1], m[i])
  BY <1>0 DEF FramedBy
<1>2. f \in Seq(Tokens)
  BY FrameIs
<1> DEFINE gs == Append(fs, f)
           k == [i \in 0..Len(fs) + 1 |-> IF i <= Len(fs) THEN m[i] ELSE c]
<1>3. /\ gs \in Seq(Seq(Tokens)) /\ Len(gs) = Len(fs) + 1 /\ Len(fs) \in Nat
      /\ gs[Len(fs) + 1] = f /\ \A i \in 1..Len(fs) : gs[i] = fs[i]
  BY <1>1, <1>2, AppendIs
<1>4. k \in [0..Len(gs) -> BOOLEAN] /\ k[0] = a /\ k[Len(gs)] = c
  BY <1>1, <1>3
<1>5. ASSUME NEW i \in 1..Len(gs) PROVE FrameOK(gs[i], k[i - 1], k[i])
  <2>1. CASE i = Len(fs) + 1
    <3>1. gs[i] = f /\ k[i - 1] = b /\ k[i] = c
      BY <1>1, <1>3, <2>1
    <3> QED
      BY <3>1
  <2>2. CASE i \in 1..Len(fs)
    <3>1. gs[i] = fs[i] /\ k[i - 1] = m[i - 1] /\ k[i] = m[i]
      BY <1>3, <2>2
    <3> QED
      BY <1>1, <2>2, <3>1
  <2> QED
    BY <1>3, <2>1, <2>2
<1>6. s \o f = FlattenSeq(gs)
  BY <1>1, <1>2, FlattenAppend
<1> HIDE DEF gs, k
<1>7. FramedBy(s \o f, a, c, gs, k)
  BY <1>3, <1>4, <1>5, <1>6 DEF FramedBy
<1> QED
  BY <1>7 DEF Framed

LEMMA FramedHead ==
    ASSUME NEW s, NEW a, NEW b, Framed(s, a, b), s # <<>>
    PROVE  \E f \in Seq(Tokens), t \in Seq(Tokens), c \in BOOLEAN :
              s = f \o t /\ FrameOK(f, a, c) /\ Framed(t, c, b)
<1>0. PICK fs, m : FramedBy(s, a, b, fs, m)
  BY DEF Framed
<1>1. /\ fs \in Seq(Seq(Tokens)) /\ m \in [0..Len(fs) -> BOOLEAN]
      /\ s = FlattenSeq(fs) /\ m[0] = a /\ m[Len(fs)] = b
      /\ \A i \in 1..Len(fs) : FrameOK(fs[i], m[i - 1], m[i])
  BY <1>0 DEF FramedBy
<1>2. fs # <<>>
  BY <1>1, FlattenEmpty
<1> DEFINE f == Head(fs)
           gs == Tail(fs)
           c == m[1]
           k == [i \in 0..Len(fs) - 1 |-> m[i + 1]]
<1>3. /\ f = fs[1] /\ f \in Seq(Tokens) /\ gs \in Seq(Seq(Tokens)) /\ Len(gs) = Len(fs) - 1
      /\ Len(fs) \in Nat /\ Len(fs) >= 1
      /\ \A i \in 1..Len(fs) - 1 : gs[i] = fs[i + 1]
  BY <1>1, <1>2, TailIs
<1>4. k \in [0..Len(gs) -> BOOLEAN] /\ k[0] = c /\ k[Len(gs)] = b /\ c \in BOOLEAN
  BY <1>1, <1>3
<1>5. ASSUME NEW i \in 1..Len(gs) PROVE FrameOK(gs[i], k[i - 1], k[i])
  <2>1. gs[i] = fs[i + 1] /\ k[i - 1] = m[i] /\ k[i] = m[i + 1] /\ i + 1 \in 1..Len(fs)
        /\ (i + 1) - 1 = i
    BY <1>3
  <2>2. FrameOK(fs[i + 1], m[(i + 1) - 1], m[i + 1])
    BY <1>1, <2>1
  <2> QED
    BY <2>1, <2>2
<1>6. FrameOK(f, a, c)
  <2>1. 1 \in 1..Len(fs) /\ 1 - 1 = 0
    BY <1>3
  <2>2. FrameOK(fs[1], m[1 - 1], m[1])
    BY <1>1, <2>1
  <2> QED
    BY <1>1, <1>3, <2>1, <2>2
<1>7. s = f \o FlattenSeq(gs) /\ FlattenSeq(gs) \in Seq(Tokens)
  BY <1>1, <1>2, <1>3, FlattenHead, FlattenType
<1> HIDE DEF f, gs, c, k
<1>8. Framed(FlattenSeq(gs), c, b)
  <2>1. FramedBy(FlattenSeq(gs), c, b, gs, k)
    BY <1>3, <1>4, <1>5 DEF FramedBy
  <2> QED
    BY <2>1 DEF Framed
<1> QED
  BY <1>3, <1>4, <1>6, <1>7, <1>8

---------------------------------------------------------------------------
(* From the wire to the bytes handed to the parser. *)

BaseInv ==
    /\ proto \in Protocols /\ dir \in {"s2c", "c2s"} /\ (proto # "mqtt-ws" => dir = "s2c")
    /\ packets \in Seq(Packets[proto]) /\ framed \in 0..Len(App)
    /\ midMessage \in BOOLEAN /\ late \in BOOLEAN /\ upgraded \in BOOLEAN
    /\ line \in Seq(Tokens) /\ handshake_buf \in Seq(Tokens) /\ buf \in Seq(Tokens)
    /\ fragments \in Seq(Bytes) /\ out \in Seq(Bytes) /\ seen \in Seq(Bytes)
    /\ pc \in {"wire", "idle", "unmask", "parse"}
    /\ pc = "wire" => ~late /\ ~upgraded /\ seen = <<>>
    /\ pc # "unmask" => out = <<>>

Fresh == buf = <<>> /\ fragments = <<>> /\ out = <<>>

NoUpgrade(s, n) == \A i \in n..Len(s) : s[i] # Upgrade

\* Modbus and MQTT over TCP: bytes go straight to the parser.
PlainInv ==
    proto # "mqtt-ws" =>
       /\ ~upgraded /\ handshake_buf = <<>> /\ Fresh
       /\ framed = Len(App) /\ ~midMessage /\ pc # "unmask"
       /\ AllBytes(line)
       /\ ~late => seen \o Values(line) = App

\* A head with 101 is at the very start of what a server sends, and nowhere else.
WireInv ==
    proto = "mqtt-ws" /\ pc = "wire" => NoUpgrade(line, 2) /\ (dir = "c2s" => NoUpgrade(line, 1))

\* A flow whose handshake is not captured is never upgraded.
ClosedInv ==
    proto = "mqtt-ws" /\ (dir = "c2s" \/ late) =>
       /\ ~upgraded /\ Fresh /\ seen = <<>> /\ pc \in {"wire", "idle"}
       /\ pc = "idle" => NoUpgrade(handshake_buf, 1) /\ NoUpgrade(line, 1)
       /\ pc = "wire" => handshake_buf = <<>>

\* What is behind the handshake is rest, whole frames that continue a message if a.
Opened(rest, a) ==
    /\ Framed(rest, a, midMessage)
    /\ a \/ fragments = <<>>
    /\ ((seen \o out) \o fragments) \o Data(rest) = SubSeq(App, 1, framed)
    /\ pc # "wire" => framed = Len(App)
    /\ IF upgraded THEN handshake_buf = <<>> /\ buf \o line = rest
       ELSE /\ handshake_buf \o line = <<Upgrade, EndOfHead>> \o rest
            /\ Len(handshake_buf) <= 1 /\ (pc = "wire" => handshake_buf = <<>>)
            /\ Fresh /\ seen = <<>> /\ pc \in {"wire", "idle"}

OpenInv == proto = "mqtt-ws" /\ dir = "s2c" /\ ~late => \E rest, a : Opened(rest, a)

StreamInv == BaseInv /\ PlainInv /\ WireInv /\ ClosedInv /\ OpenInv

LEMMA Cut ==
    ASSUME NEW V, NEW s \in Seq(V), NEW k \in 0..Len(s)
    PROVE  /\ SubSeq(s, 1, k) \in Seq(V) /\ Len(SubSeq(s, 1, k)) = k
           /\ SubSeq(s, k + 1, Len(s)) \in Seq(V) /\ Len(SubSeq(s, k + 1, Len(s))) = Len(s) - k
           /\ SubSeq(s, 1, k) \o SubSeq(s, k + 1, Len(s)) = s
           /\ \A i \in 1..k : SubSeq(s, 1, k)[i] = s[i]
           /\ \A i \in 1..Len(s) - k : SubSeq(s, k + 1, Len(s))[i] = s[k + i]
<1> DEFINE a == SubSeq(s, 1, k)
           b == SubSeq(s, k + 1, Len(s))
<1>1. Len(s) \in Nat /\ k <= Len(s) /\ k \in Nat
  OBVIOUS
<1>2. a \in Seq(V) /\ Len(a) = k /\ \A i \in 1..k : a[i] = s[i]
  OBVIOUS
<1>3. b \in Seq(V) /\ Len(b) = Len(s) - k /\ \A i \in 1..Len(s) - k : b[i] = s[k + i]
  OBVIOUS
<1>4. a \o b = s
  <2> HIDE DEF a, b
  <2>1. /\ a \o b \in Seq(V) /\ Len(a \o b) = Len(s)
        /\ \A i \in 1..k : (a \o b)[i] = s[i]
        /\ \A i \in k + 1..Len(s) : (a \o b)[i] = b[i - k]
    BY <1>1, <1>2, <1>3
  <2>2. \A i \in k + 1..Len(s) : b[i - k] = s[i]
    <3> SUFFICES ASSUME NEW i \in k + 1..Len(s) PROVE b[i - k] = s[i]
      OBVIOUS
    <3>1. i - k \in 1..Len(s) - k /\ k + (i - k) = i
      BY <1>1
    <3> QED
      BY <1>3, <3>1
  <2>3. \A i \in 1..Len(s) : i \in 1..k \/ i \in k + 1..Len(s)
    BY <1>1
  <2>4. \A i \in 1..Len(s) : (a \o b)[i] = s[i]
    BY <2>1, <2>2, <2>3
  <2> DEFINE c == a \o b
  <2>5. c \in Seq(V) /\ Len(c) = Len(s) /\ \A i \in 1..Len(s) : c[i] = s[i]
    BY <2>1, <2>4
  <2> HIDE DEF c
  <2>6. c = s
    BY <2>5
  <2> QED
    BY <2>6 DEF c
<1> QED
  BY <1>2, <1>3, <1>4

LEMMA CutAt ==
    ASSUME NEW V, NEW a \in Seq(V), NEW b \in Seq(V)
    PROVE  SubSeq(a \o b, 1, Len(a)) = a /\ SubSeq(a \o b, Len(a) + 1, Len(a \o b)) = b
  OBVIOUS

LEMMA Assoc ==
    ASSUME NEW V, NEW a \in Seq(V), NEW b \in Seq(V), NEW c \in Seq(V)
    PROVE  (a \o b) \o c = a \o (b \o c)
  OBVIOUS

LEMMA BytesAssoc ==
    \A x \in Seq(Bytes), y \in Seq(Bytes), z \in Seq(Bytes) : (x \o y) \o z = x \o (y \o z)
  BY Assoc

LEMMA TokensAssoc ==
    \A x \in Seq(Tokens), y \in Seq(Tokens), z \in Seq(Tokens) : (x \o y) \o z = x \o (y \o z)
  BY Assoc

LEMMA EmptyConcat ==
    ASSUME NEW V, NEW a \in Seq(V)
    PROVE  <<>> \o a = a /\ a \o <<>> = a
  OBVIOUS

LEMMA AppType ==
    ASSUME BaseInv
    PROVE  packets \in Seq(Seq(Bytes)) /\ App \in Seq(Bytes)
<1>1. proto \in Protocols /\ packets \in Seq(Packets[proto])
  BY DEF BaseInv
<1>2. Packets[proto] \subseteq Seq(Bytes)
  BY <1>1, PacketsAssumption
<1>3. packets \in Seq(Seq(Bytes))
  BY <1>1, <1>2
<1> QED
  BY <1>3, FlattenType DEF App

LEMMA KindsOfTokens ==
    /\ \A v \in Bytes : Byte(v) \in Tokens /\ Byte(v) # Upgrade /\ Byte(v) \in {"byte"} \X Bytes
    /\ \A fin \in BOOLEAN, op \in {"data", "cont", "control"}, n \in Nat :
          Header(fin, op, n) \in Tokens /\ Header(fin, op, n) # Upgrade
    /\ {Control(0), Upgrade, Request, EndOfHead} \subseteq Tokens
    /\ Upgrade \notin {Control(0), Request, EndOfHead}
<1>1. \A v \in Bytes : Byte(v) \in Tokens /\ Byte(v) # Upgrade /\ Byte(v) \in {"byte"} \X Bytes
  BY DEF Byte, Tokens, Upgrade
<1>2. ASSUME NEW fin \in BOOLEAN, NEW op \in {"data", "cont", "control"}, NEW n \in Nat
      PROVE  Header(fin, op, n) \in Tokens /\ Header(fin, op, n) # Upgrade
  <2>1. Header(fin, op, n)[1] = "header" /\ Upgrade[1] = "http"
    BY DEF Header, Upgrade
  <2> QED
    BY <2>1 DEF Header, Tokens
<1>3. {Control(0), Upgrade, Request, EndOfHead} \subseteq Tokens
  BY DEF Tokens
<1>4. Upgrade \notin {Control(0), Request, EndOfHead}
  BY DEF Control, Upgrade, Request, EndOfHead
<1> QED
  BY <1>1, <1>2, <1>3, <1>4

LEMMA InitStream == Init => StreamInv
<1> SUFFICES ASSUME Init PROVE StreamInv
  OBVIOUS
<1>1. /\ proto \in Protocols /\ dir \in {"s2c", "c2s"} /\ (proto # "mqtt-ws" => dir = "s2c")
      /\ midMessage = FALSE /\ late = FALSE /\ upgraded = FALSE /\ handshake_buf = <<>>
      /\ Fresh /\ seen = <<>> /\ pc = "wire"
  BY DecoderAssumption DEF Init, Fresh
<1>2. packets \in Seq(Packets[proto])
  BY DEF Init, SeqOf
<1>3. App \in Seq(Bytes)
  <2>1. Packets[proto] \subseteq Seq(Bytes)
    BY <1>1, PacketsAssumption
  <2>2. packets \in Seq(Seq(Bytes))
    BY <1>2, <2>1
  <2> QED
    BY <2>2, FlattenType DEF App
<1>4. CASE proto # "mqtt-ws"
  <2>1. framed = Len(App) /\ line = [i \in DOMAIN App |-> Byte(App[i])]
    BY <1>4 DEF Init
  <2>2. line \in Seq(Tokens) /\ AllBytes(line) /\ Len(line) = Len(App)
    <3>1. DOMAIN App = 1..Len(App) /\ Len(App) \in Nat /\ \A i \in 1..Len(App) : App[i] \in Bytes
      BY <1>3
    <3>2. line \in [1..Len(App) -> Tokens] /\ \A i \in 1..Len(App) : line[i] \in {"byte"} \X Bytes
      BY <2>1, <3>1, KindsOfTokens, Zenon
    <3> QED
      BY <3>1, <3>2 DEF AllBytes
  <2>3. Values(line) = App
    <3>1. DOMAIN App = 1..Len(App) /\ Len(App) \in Nat /\ DOMAIN line = 1..Len(App)
      BY <1>3, <2>2
    <3>2. \A i \in 1..Len(App) : line[i][2] = App[i]
      BY <2>1, <3>1 DEF Byte
    <3>3. Values(line) = [i \in 1..Len(App) |-> App[i]]
      BY <3>1, <3>2, Zenon DEF Values
    <3> QED
      BY <1>3, <3>1, <3>3
  <2>4. seen \o Values(line) = App
    BY <1>1, <1>3, <2>3, EmptyConcat
  <2>5. BaseInv
    <3>1. midMessage \in BOOLEAN /\ late \in BOOLEAN /\ upgraded \in BOOLEAN
      BY <1>1, Zenon
    <3>2. handshake_buf \in Seq(Tokens) /\ buf \in Seq(Tokens) /\ fragments \in Seq(Bytes)
          /\ out \in Seq(Bytes) /\ seen \in Seq(Bytes)
      BY <1>1 DEF Fresh
    <3>3. framed \in 0..Len(App)
      BY <1>3, <2>1
    <3> QED
      BY <1>1, <1>2, <2>2, <3>1, <3>2, <3>3, Zenon DEF BaseInv, Fresh
  <2>6. PlainInv
    BY <1>1, <2>1, <2>2, <2>4 DEF PlainInv
  <2> QED
    BY <1>4, <2>5, <2>6 DEF StreamInv, WireInv, ClosedInv, OpenInv
<1>5. CASE proto = "mqtt-ws"
  <2>1. framed = 0 /\ line = <<IF dir = "s2c" THEN Upgrade ELSE Request, EndOfHead>>
    BY <1>5 DEF Init
  <2>2. line \in Seq(Tokens) /\ NoUpgrade(line, 2) /\ (dir = "c2s" => NoUpgrade(line, 1))
    BY <1>1, <2>1, KindsOfTokens DEF NoUpgrade
  <2>3. dir = "s2c" => Opened(<<>>, FALSE)
    <3> SUFFICES ASSUME dir = "s2c" PROVE Opened(<<>>, FALSE)
      OBVIOUS
    <3>1. Framed(<<>>, FALSE, midMessage)
      BY <1>1, FramedEmpty
    <3>2. ((seen \o out) \o fragments) \o Data(<<>>) = <<>> /\ SubSeq(App, 1, framed) = <<>>
      BY <1>1, <1>3, <2>1, DataEmpty DEF Fresh
    <3>3. handshake_buf \o line = <<Upgrade, EndOfHead>> \o <<>> /\ Len(handshake_buf) <= 1
      BY <1>1, <2>1
    <3> QED
      BY <1>1, <3>1, <3>2, <3>3 DEF Opened, Fresh
  <2>4. BaseInv
    <3>1. midMessage \in BOOLEAN /\ late \in BOOLEAN /\ upgraded \in BOOLEAN
      BY <1>1, Zenon
    <3>2. handshake_buf \in Seq(Tokens) /\ buf \in Seq(Tokens) /\ fragments \in Seq(Bytes)
          /\ out \in Seq(Bytes) /\ seen \in Seq(Bytes)
      BY <1>1 DEF Fresh
    <3>3. framed \in 0..Len(App)
      BY <1>3, <2>1
    <3> QED
      BY <1>1, <1>2, <2>2, <3>1, <3>2, <3>3, Zenon DEF BaseInv, Fresh
  <2>5. WireInv /\ ClosedInv /\ PlainInv
    BY <1>1, <1>5, <2>2 DEF WireInv, ClosedInv, PlainInv
  <2>6. OpenInv
    BY <2>3 DEF OpenInv
  <2> QED
    BY <2>4, <2>5, <2>6 DEF StreamInv
<1> QED
  BY <1>4, <1>5

\* A frame at the end of the line.
LEMMA OpenedBySend ==
    ASSUME BaseInv, NEW rest, NEW a, Opened(rest, a), NEW f, NEW c \in BOOLEAN, NEW n \in Nat,
           pc = "wire", FrameOK(f, midMessage, c), line' = line \o f, midMessage' = c,
           framed + n <= Len(App), framed' = framed + n,
           Data(f) = SubSeq(App, framed + 1, framed + n),
           UNCHANGED <<packets, upgraded, handshake_buf, buf, fragments, out, seen, pc>>
    PROVE  Opened(rest \o f, a)'
<1>1. rest \in Seq(Tokens) /\ f \in Seq(Tokens) /\ App' = App /\ App \in Seq(Bytes)
  BY FramedIs, FrameIs, AppType DEF Opened, App
<1>2. Framed(rest \o f, a, midMessage')
  BY FramedAppend DEF Opened
<1> DEFINE got == (seen \o out) \o fragments
<1>3. got \in Seq(Bytes) /\ Data(rest) \in Seq(Bytes) /\ Data(f) \in Seq(Bytes)
  BY <1>1, DataType DEF BaseInv
<1>4. got \o Data(rest \o f) = SubSeq(App, 1, framed')
  <2>1. Data(rest \o f) = Data(rest) \o Data(f)
    BY <1>1, DataConcat
  <2>2. got \o Data(rest) = SubSeq(App, 1, framed)
    BY DEF Opened
  <2> HIDE DEF got
  <2>3. got \o (Data(rest) \o Data(f)) = (got \o Data(rest)) \o Data(f)
    <3> QED
      BY <1>3, BytesAssoc
  <2>4. SubSeq(App, 1, framed) \o SubSeq(App, framed + 1, framed + n) = SubSeq(App, 1, framed + n)
    <3>1. framed \in Nat /\ framed + n \in 0..Len(App)
      BY DEF BaseInv
    <3> DEFINE p == SubSeq(App, 1, framed + n)
    <3>2. /\ p \in Seq(Bytes) /\ Len(p) = framed + n /\ framed \in 0..Len(p)
      BY <1>1, <3>1
    <3>3. SubSeq(p, 1, framed) = SubSeq(App, 1, framed)
      BY <1>1, <3>1
    <3>4. SubSeq(p, framed + 1, Len(p)) = SubSeq(App, framed + 1, framed + n)
      BY <1>1, <3>1
    <3> HIDE DEF p
    <3>5. SubSeq(p, 1, framed) \o SubSeq(p, framed + 1, Len(p)) = p
      BY <3>2, Cut
    <3> QED
      BY <3>3, <3>4, <3>5 DEF p
  <2> QED
    BY <2>1, <2>2, <2>3, <2>4
<1>5. handshake_buf \o (line \o f) = <<Upgrade, EndOfHead>> \o (rest \o f)
  <2>1. <<Upgrade, EndOfHead>> \in Seq(Tokens) /\ handshake_buf \in Seq(Tokens) /\ line \in Seq(Tokens)
    BY KindsOfTokens DEF BaseInv
  <2>2. handshake_buf \o line = <<Upgrade, EndOfHead>> \o rest
    BY DEF Opened, BaseInv
  <2>3. handshake_buf \o (line \o f) = (handshake_buf \o line) \o f
    BY <1>1, <2>1, TokensAssoc
  <2>4. (<<Upgrade, EndOfHead>> \o rest) \o f = <<Upgrade, EndOfHead>> \o (rest \o f)
    BY <1>1, <2>1, TokensAssoc
  <2> QED
    BY <2>2, <2>3, <2>4
<1>6. ~upgraded /\ Len(handshake_buf) <= 1 /\ handshake_buf = <<>> /\ Fresh /\ seen = <<>>
      /\ (a \/ fragments = <<>>)
  BY DEF Opened, BaseInv
<1> QED
  BY <1>1, <1>2, <1>4, <1>5, <1>6 DEF Opened, Fresh

LEMMA SendFrameStep ==
    ASSUME StreamInv, NEW n \in 0..Len(App), NEW fin \in BOOLEAN, SendFrame(n, fin)
    PROVE  StreamInv'
<1> DEFINE op == IF midMessage THEN "cont" ELSE "data"
           body == [i \in 1..n |-> Byte(App[framed + i])]
           f == <<Header(fin, op, n)>> \o body
<1>1. /\ pc = "wire" /\ n <= Len(App) - framed /\ line' = (line \o <<Header(fin, op, n)>>) \o body
      /\ (n = 0 => midMessage /\ fin)
      /\ framed' = framed + n /\ midMessage' = ~fin
      /\ UNCHANGED <<proto, dir, packets, late, upgraded, handshake_buf, buf, fragments, out, seen, pc>>
  BY DEF SendFrame, unmasker, parser
<1>2. App' = App /\ App \in Seq(Bytes) /\ framed \in 0..Len(App) /\ midMessage \in BOOLEAN
      /\ line \in Seq(Tokens) /\ n \in Nat /\ framed \in Nat /\ Len(App) \in Nat
  BY <1>1, AppType DEF StreamInv, BaseInv, App
<1>3. proto = "mqtt-ws"
  <2>1. CASE proto # "mqtt-ws"
    <3>1. framed = Len(App) /\ ~midMessage
      BY <2>1 DEF StreamInv, PlainInv
    <3> QED
      BY <1>1, <1>2, <3>1
  <2> QED
    BY <2>1
<1>4. body \in Seq(Tokens) /\ AllBytes(body) /\ Len(body) = n
  <2>1. \A i \in 1..n : App[framed + i] \in Bytes
    BY <1>1, <1>2
  <2>2. \A i \in 1..n : Byte(App[framed + i]) \in Tokens /\ Byte(App[framed + i]) \in {"byte"} \X Bytes
    BY <2>1, KindsOfTokens
  <2>3. body \in [1..n -> Tokens] /\ \A i \in 1..n : body[i] \in {"byte"} \X Bytes
    BY <2>2, Zenon
  <2> HIDE DEF body
  <2> QED
    BY <1>2, <2>3 DEF AllBytes
<1>5. Header(fin, op, n) \in Tokens /\ Header(fin, op, n) # Upgrade /\ op \in {"data", "cont", "control"}
  BY <1>2, KindsOfTokens
<1>6. FrameOK(f, midMessage, ~fin)
  <2> HIDE DEF body
  <2> QED
    BY <1>4, <1>5 DEF FrameOK
<1>7. Data(f) = SubSeq(App, framed + 1, framed + n)
  <2>1. Values(body) = SubSeq(App, framed + 1, framed + n)
    <3>1. \A i \in 1..n : body[i][2] = App[framed + i]
      BY DEF Byte
    <3>2. DOMAIN body = 1..n
      OBVIOUS
    <3>3. Values(body) = [i \in 1..n |-> App[framed + i]]
      <4> HIDE DEF body
      <4> QED
        BY <3>1, <3>2, Zenon DEF Values
    <3>4. SubSeq(App, framed + 1, framed + n) = [i \in 1..n |-> App[framed + i]]
      <4>1. /\ SubSeq(App, framed + 1, framed + n) \in Seq(Bytes)
            /\ Len(SubSeq(App, framed + 1, framed + n)) = n
            /\ \A i \in 1..n : SubSeq(App, framed + 1, framed + n)[i] = App[framed + i]
        BY <1>1, <1>2
      <4> DEFINE u == SubSeq(App, framed + 1, framed + n)
      <4> HIDE DEF u
      <4>2. u = [i \in 1..n |-> App[framed + i]]
        BY <1>2, <4>1 DEF u
      <4> QED
        BY <4>2 DEF u
    <3> QED
      BY <3>3, <3>4
  <2>2. Data(body) = Values(body) /\ Values(body) \in Seq(Bytes)
    BY <1>4, DataOfBytes, ValuesType
  <2>3. Data(<<Header(fin, op, n)>>) = <<>>
    <3>1. Header(fin, op, n)[1] # "byte"
      BY DEF Header
    <3> QED
      BY <1>5, <3>1, DataOne DEF Piece
  <2>4. Data(f) = Data(<<Header(fin, op, n)>>) \o Data(body)
    <3>1. <<Header(fin, op, n)>> \in Seq(Tokens)
      BY <1>5
    <3> QED
      BY <1>4, <3>1, DataConcat
  <2> HIDE DEF body
  <2> QED
    BY <2>1, <2>2, <2>3, <2>4, EmptyConcat
<1> HIDE DEF body
<1>8. line' = line \o f /\ f \in Seq(Tokens) /\ line' \in Seq(Tokens)
  <2>1. <<Header(fin, op, n)>> \in Seq(Tokens)
    BY <1>5
  <2> HIDE DEF op
  <2> QED
    BY <1>1, <1>2, <1>4, <2>1, Assoc
<1>9. \A i \in 1..Len(f) : f[i] # Upgrade
  <2>1. \A i \in 1..n : body[i] # Upgrade
    BY <1>4, KindsOfTokens DEF AllBytes, Upgrade
  <2> HIDE DEF op
  <2>2. Len(f) = n + 1 /\ f[1] = Header(fin, op, n) /\ \A i \in 2..n + 1 : f[i] = body[i - 1]
    BY <1>2, <1>4
  <2> HIDE DEF f
  <2>3. \A i \in 2..n + 1 : i - 1 \in 1..n
    BY <1>2
  <2>4. \A i \in 1..n + 1 : i = 1 \/ i \in 2..n + 1
    BY <1>2
  <2> QED
    BY <1>5, <2>1, <2>2, <2>3, <2>4
<1> HIDE DEF f, op
<1>10. ASSUME NEW from \in {1, 2}, NoUpgrade(line, from) PROVE NoUpgrade(line', from)
  <2> SUFFICES ASSUME NEW i \in from..Len(line') PROVE line'[i] # Upgrade
    BY DEF NoUpgrade
  <2>1. Len(line') = Len(line) + Len(f) /\ Len(line) \in Nat /\ Len(f) \in Nat
    BY <1>2, <1>8
  <2>2. CASE i <= Len(line)
    BY <1>2, <1>8, <1>10, <2>2 DEF NoUpgrade
  <2>3. CASE i > Len(line)
    <3>1. line'[i] = f[i - Len(line)] /\ i - Len(line) \in 1..Len(f)
      BY <1>2, <1>8, <2>1, <2>3
    <3> QED
      BY <1>9, <3>1
  <2> QED
    BY <2>1, <2>2, <2>3
<1>11. BaseInv'
  <2>1. framed' \in 0..Len(App) /\ midMessage' \in BOOLEAN
    BY <1>1, <1>2
  <2> QED
    BY <1>1, <1>2, <1>8, <2>1 DEF StreamInv, BaseInv
<1>12. PlainInv' /\ WireInv' /\ ClosedInv'
  BY <1>1, <1>3, <1>10 DEF StreamInv, PlainInv, WireInv, ClosedInv, Fresh
<1>13. OpenInv'
  <2> SUFFICES ASSUME proto = "mqtt-ws", dir = "s2c", ~late PROVE \E r, a : Opened(r, a)'
    BY <1>1 DEF OpenInv
  <2>1. PICK rest, a : Opened(rest, a)
    BY DEF StreamInv, OpenInv
  <2>4. framed + n <= Len(App)
    BY <1>1, <1>2
  <2>5. (~fin) \in BOOLEAN
    OBVIOUS
  <2>2. framed + n <= Len(App) /\ (~fin) \in BOOLEAN
    BY <2>4, <2>5
  <2>6. /\ BaseInv /\ pc = "wire" /\ n \in Nat /\ line' = line \o f /\ midMessage' = ~fin
        /\ framed' = framed + n
        /\ UNCHANGED <<packets, upgraded, handshake_buf, buf, fragments, out, seen, pc>>
    BY <1>1, <1>2, <1>8 DEF StreamInv
  <2> DEFINE c == ~fin
  <2>7. /\ c \in BOOLEAN /\ FrameOK(f, midMessage, c) /\ midMessage' = c
    BY <1>6, <2>5, <2>6
  <2> HIDE DEF c
  <2>8. PICK g : g = f
    OBVIOUS
  <2>9. FrameOK(g, midMessage, c) /\ line' = line \o g /\ Data(g) = SubSeq(App, framed + 1, framed + n)
    BY <1>7, <2>6, <2>7, <2>8
  <2>3. Opened(rest \o g, a)'
    BY <2>1, <2>2, <2>6, <2>7, <2>9, OpenedBySend
  <2> QED
    BY <2>3
<1> QED
  BY <1>11, <1>12, <1>13 DEF StreamInv

LEMMA NoUpgradeConcat ==
    ASSUME NEW s \in Seq(Tokens), NEW t \in Seq(Tokens), NEW n \in {1, 2}
    PROVE  NoUpgrade(s, n) /\ NoUpgrade(t, 1) => NoUpgrade(s \o t, n)
<1> SUFFICES ASSUME NoUpgrade(s, n), NoUpgrade(t, 1), NEW i \in n..Len(s \o t)
             PROVE  (s \o t)[i] # Upgrade
  BY DEF NoUpgrade
<1>1. CASE i <= Len(s)
  <2>1. (s \o t)[i] = s[i] /\ i \in n..Len(s)
    BY <1>1
  <2> QED
    BY <2>1 DEF NoUpgrade
<1>2. CASE i > Len(s)
  <2>1. (s \o t)[i] = t[i - Len(s)] /\ i - Len(s) \in 1..Len(t)
    BY <1>2
  <2> QED
    BY <2>1 DEF NoUpgrade
<1>3. i \in Int /\ Len(s) \in Nat
  OBVIOUS
<1> QED
  BY <1>1, <1>2, <1>3

LEMMA NoUpgradeCut ==
    ASSUME NEW s \in Seq(Tokens), NEW k \in 0..Len(s)
    PROVE  /\ NoUpgrade(s, 1) => NoUpgrade(SubSeq(s, 1, k), 1) /\ NoUpgrade(SubSeq(s, k + 1, Len(s)), 1)
           /\ NoUpgrade(s, 2) /\ k > 0 => NoUpgrade(SubSeq(s, k + 1, Len(s)), 1)
<1> DEFINE p == SubSeq(s, 1, k)
           q == SubSeq(s, k + 1, Len(s))
<1>1. /\ Len(p) = k /\ Len(q) = Len(s) - k /\ Len(s) \in Nat /\ k \in Nat /\ k <= Len(s)
      /\ \A i \in 1..k : p[i] = s[i]
      /\ \A i \in 1..Len(s) - k : q[i] = s[k + i]
  BY Cut
<1> HIDE DEF p, q
<1>2. NoUpgrade(s, 1) => NoUpgrade(p, 1)
  BY <1>1 DEF NoUpgrade
<1>3. NoUpgrade(s, 1) => NoUpgrade(q, 1)
  BY <1>1 DEF NoUpgrade
<1>4. NoUpgrade(s, 2) /\ k > 0 => NoUpgrade(q, 1)
  BY <1>1 DEF NoUpgrade
<1> QED
  BY <1>2, <1>3, <1>4 DEF p, q

LEMMA SendPingStep ==
    ASSUME StreamInv, SendPing
    PROVE  StreamInv'
<1>0. PICK h, p, f : h = Header(TRUE, "control", 1) /\ p = Control(0) /\ f = <<h, p>>
  OBVIOUS
<1>1. /\ pc = "wire" /\ proto = "mqtt-ws" /\ line' = line \o f
      /\ UNCHANGED <<proto, dir, packets, framed, midMessage, late, upgraded, handshake_buf, buf,
                     fragments, out, seen, pc>>
  BY <1>0 DEF SendPing, unmasker, parser
<1>2. h \in Tokens /\ p \in Tokens /\ h # Upgrade /\ p # Upgrade /\ h[1] # "byte" /\ p[1] # "byte"
  <2>1. h \in Tokens /\ h # Upgrade
    BY <1>0, KindsOfTokens
  <2>2. p \in Tokens /\ p # Upgrade
    BY <1>0, KindsOfTokens
  <2>3. h[1] # "byte"
    BY <1>0 DEF Header
  <2>4. p[1] # "byte"
    BY <1>0 DEF Control
  <2> QED
    BY <2>1, <2>2, <2>3, <2>4
<1>a. f = <<h, p>>
  BY <1>0, Zenon
<1>b. /\ f \in Seq(Tokens) /\ Len(f) = 2 /\ f[1] = h /\ f[2] = p /\ \A i \in 1..Len(f) : i = 1 \/ i = 2
      /\ <<p>> \in Seq(Tokens) /\ Len(<<p>>) = 1 /\ f = <<h>> \o <<p>>
  <2>1. f \in Seq(Tokens) /\ Len(f) = 2 /\ f[1] = h /\ f[2] = p
    BY <1>a, <1>2
  <2>2. \A i \in 1..2 : i = 1 \/ i = 2
    OBVIOUS
  <2>3. <<p>> \in Seq(Tokens) /\ Len(<<p>>) = 1 /\ <<p>>[1] = p
    BY <1>2
  <2>4. f = <<h>> \o <<p>>
    <3> DEFINE g == <<h>> \o <<p>>
    <3>1. <<h>> \in Seq(Tokens) /\ Len(<<h>>) = 1 /\ <<h>>[1] = h
      BY <1>2
    <3>2. g \in Seq(Tokens) /\ Len(g) = 2 /\ g[1] = h /\ g[2] = p
      BY <2>3, <3>1
    <3> HIDE DEF g
    <3>3. g = f
      BY <2>1, <2>2, <3>2
    <3> QED
      BY <3>3 DEF g
  <2> QED
    BY <2>1, <2>2, <2>3, <2>4
<1>3. f \in Seq(Tokens) /\ NoUpgrade(f, 1)
  BY <1>b, <1>2 DEF NoUpgrade
<1>4. Data(f) = <<>>
  <2>1. NoBytes(f)
    BY <1>b, <1>2 DEF NoBytes
  <2> QED
    BY <1>3, <2>1, DataOfOthers
<1>5. FrameOK(f, midMessage, midMessage)
  <2>1. <<p>> \in Seq(Tokens) /\ Len(<<p>>) = 1 /\ f = <<h>> \o <<p>>
    BY <1>b
  <2>2. NoBytes(<<p>>)
    BY <1>2 DEF NoBytes
  <2>3. f = <<Header(TRUE, "control", Len(<<p>>))>> \o <<p>>
    BY <1>0, <2>1
  <2> QED
    BY <2>1, <2>2, <2>3 DEF FrameOK
<1>6. line \in Seq(Tokens) /\ line' \in Seq(Tokens) /\ App' = App /\ App \in Seq(Bytes)
  BY <1>1, <1>3, AppType DEF StreamInv, BaseInv, App
<1>7. ASSUME NEW n \in {1, 2}, NoUpgrade(line, n) PROVE NoUpgrade(line', n)
  BY <1>1, <1>3, <1>6, <1>7, NoUpgradeConcat
<1>8. BaseInv'
  BY <1>1, <1>6 DEF StreamInv, BaseInv
<1>9. PlainInv' /\ WireInv' /\ ClosedInv'
  BY <1>1, <1>7 DEF StreamInv, PlainInv, WireInv, ClosedInv, Fresh
<1>10. OpenInv'
  <2> SUFFICES ASSUME proto = "mqtt-ws", dir = "s2c", ~late PROVE \E r, a : Opened(r, a)'
    BY <1>1 DEF OpenInv
  <2>1. PICK rest, a : Opened(rest, a)
    BY DEF StreamInv, OpenInv
  <2>2. PICK c : c = midMessage
    OBVIOUS
  <2>3. /\ BaseInv /\ c \in BOOLEAN /\ FrameOK(f, midMessage, c) /\ midMessage' = c
        /\ framed \in Nat /\ framed + 0 = framed /\ framed + 0 <= Len(App) /\ framed' = framed + 0
    <3>1. midMessage \in BOOLEAN /\ framed \in Nat /\ framed <= Len(App)
      BY <1>6 DEF StreamInv, BaseInv
    <3> QED
      BY <1>1, <1>5, <2>2, <3>1 DEF StreamInv
  <2>4. Data(f) = SubSeq(App, framed + 1, framed + 0)
    <3>1. SubSeq(App, framed + 1, framed + 0) = <<>>
      BY <1>6, <2>3
    <3> QED
      BY <1>4, <3>1
  <2>5. Opened(rest \o f, a)'
    BY <1>1, <2>1, <2>3, <2>4, OpenedBySend
  <2> QED
    BY <2>5
<1> QED
  BY <1>8, <1>9, <1>10 DEF StreamInv

LEMMA JoinStep ==
    ASSUME StreamInv, NEW j \in 0..Len(line), Join(j)
    PROVE  StreamInv'
<1>1. /\ pc = "wire" /\ framed = Len(App) /\ ~midMessage /\ line' = SubSeq(line, j + 1, Len(line))
      /\ late' = (j > 0) /\ pc' = "idle"
      /\ UNCHANGED <<proto, dir, packets, framed, midMessage, upgraded, handshake_buf, buf,
                     fragments, out, seen>>
  BY DEF Join, sender, unmasker, parser
<1>2. /\ line \in Seq(Tokens) /\ App' = App /\ App \in Seq(Bytes) /\ ~late /\ ~upgraded
      /\ seen = <<>> /\ out = <<>> /\ dir \in {"s2c", "c2s"}
  BY <1>1, AppType DEF StreamInv, BaseInv, App
<1>3. line' \in Seq(Tokens)
  BY <1>1, <1>2, Cut
<1>4. j = 0 => line' = line
  BY <1>1, <1>2
<1>5. BaseInv'
  <2>1. late' \in BOOLEAN
    <3>1. (j > 0) \in BOOLEAN
      OBVIOUS
    <3> QED
      BY <1>1, <3>1
  <2> QED
    BY <1>1, <1>2, <1>3, <2>1 DEF StreamInv, BaseInv
<1>6. late' => j > 0
  BY <1>1
<1>7. ~late' => j = 0
  <2>1. ~late' => ~(j > 0)
    BY <1>1, Zenon
  <2>2. j \in Nat
    OBVIOUS
  <2> QED
    BY <2>1, <2>2
<1>8. PlainInv'
  <2> SUFFICES ASSUME proto # "mqtt-ws" PROVE PlainInv'
    BY <1>1 DEF PlainInv
  <2>1. AllBytes(line)
    BY DEF StreamInv, PlainInv
  <2>2. AllBytes(line')
    <3>1. /\ Len(line') = Len(line) - j /\ Len(line) \in Nat /\ j \in Nat
          /\ \A i \in 1..Len(line) - j : line'[i] = line[j + i]
      BY <1>1, <1>2, Cut
    <3>2. \A i \in 1..Len(line) - j : j + i \in 1..Len(line)
      BY <3>1
    <3> QED
      BY <2>1, <3>1, <3>2 DEF AllBytes
  <2>3. ~late' => seen' \o Values(line') = App
    BY <1>1, <1>2, <1>4, <1>7 DEF StreamInv, PlainInv
  <2> QED
    BY <1>1, <1>2, <2>2, <2>3 DEF StreamInv, PlainInv, Fresh
<1>9. WireInv'
  BY <1>1 DEF WireInv
<1>10. ClosedInv'
  <2> SUFFICES ASSUME proto = "mqtt-ws", dir = "c2s" \/ late' PROVE ClosedInv'
    BY <1>1 DEF ClosedInv
  <2>1. handshake_buf = <<>> /\ Fresh
    <3>1. CASE dir = "c2s"
      BY <1>1, <3>1 DEF StreamInv, ClosedInv
    <3>2. CASE dir = "s2c"
      <4>1. PICK rest, a : Opened(rest, a)
        BY <1>2, <3>2 DEF StreamInv, OpenInv
      <4> QED
        BY <1>1, <1>2, <4>1 DEF Opened
    <3> QED
      BY <1>2, <3>1, <3>2
  <2>2. NoUpgrade(line', 1)
    <3>1. NoUpgrade(line, 2) /\ (dir = "c2s" => NoUpgrade(line, 1))
      BY <1>1 DEF StreamInv, WireInv
    <3> QED
      BY <1>1, <1>2, <1>6, <3>1, NoUpgradeCut
  <2>3. NoUpgrade(handshake_buf', 1)
    BY <1>1, <2>1 DEF NoUpgrade
  <2> QED
    BY <1>1, <1>2, <2>1, <2>2, <2>3 DEF ClosedInv, Fresh
<1>11. OpenInv'
  <2> SUFFICES ASSUME proto = "mqtt-ws", dir = "s2c", ~late' PROVE \E r, a : Opened(r, a)'
    BY <1>1 DEF OpenInv
  <2>1. PICK rest, a : Opened(rest, a)
    BY <1>2 DEF StreamInv, OpenInv
  <2>2. Opened(rest, a)'
    BY <1>1, <1>2, <1>4, <1>7, <2>1 DEF Opened, Fresh
  <2> QED
    BY <2>2
<1> QED
  BY <1>5, <1>8, <1>9, <1>10, <1>11 DEF StreamInv

\* The first k tokens of the line, and the others.
LEMMA LineCut ==
    ASSUME NEW s \in Seq(Tokens), NEW k \in 1..Len(s)
    PROVE  /\ SubSeq(s, 1, k) \in Seq(Tokens) /\ SubSeq(s, k + 1, Len(s)) \in Seq(Tokens)
           /\ SubSeq(s, 1, k) \o SubSeq(s, k + 1, Len(s)) = s
           /\ Len(SubSeq(s, 1, k)) = k
           /\ NoUpgrade(s, 1) => /\ NoUpgrade(SubSeq(s, 1, k), 1)
                                 /\ NoUpgrade(SubSeq(s, k + 1, Len(s)), 1)
           /\ AllBytes(s) => AllBytes(SubSeq(s, 1, k)) /\ AllBytes(SubSeq(s, k + 1, Len(s)))
<1>0. k \in 0..Len(s)
  OBVIOUS
<1> DEFINE p == SubSeq(s, 1, k)
           q == SubSeq(s, k + 1, Len(s))
<1>1. /\ p \in Seq(Tokens) /\ Len(p) = k /\ q \in Seq(Tokens) /\ Len(q) = Len(s) - k
      /\ p \o q = s
      /\ \A i \in 1..k : p[i] = s[i]
      /\ \A i \in 1..Len(s) - k : q[i] = s[k + i]
  BY <1>0, Cut
<1>2. NoUpgrade(s, 1) => NoUpgrade(p, 1) /\ NoUpgrade(q, 1)
  BY <1>0, NoUpgradeCut
<1> HIDE DEF p, q
<1>3. \A i \in 1..Len(s) - k : k + i \in 1..Len(s)
  OBVIOUS
<1>4. \A i \in 1..k : i \in 1..Len(s)
  OBVIOUS
<1>5. ASSUME AllBytes(s) PROVE AllBytes(p) /\ AllBytes(q)
  <2>1. \A i \in 1..Len(s) : s[i] \in {"byte"} \X Bytes
    BY <1>5 DEF AllBytes
  <2>2. \A i \in 1..k : p[i] \in {"byte"} \X Bytes
    BY <1>1, <1>4, <2>1
  <2>3. \A i \in 1..Len(s) - k : q[i] \in {"byte"} \X Bytes
    BY <1>1, <1>3, <2>1
  <2> QED
    BY <1>1, <2>2, <2>3, Zenon DEF AllBytes
<1> QED
  BY <1>1, <1>2, <1>5 DEF p, q

LEMMA ValuesConcat ==
    ASSUME NEW s \in Seq(Tokens), NEW t \in Seq(Tokens), AllBytes(s), AllBytes(t)
    PROVE  Values(s \o t) = Values(s) \o Values(t)
<1>1. AllBytes(s \o t) /\ s \o t \in Seq(Tokens)
  BY DEF AllBytes
<1>2. Values(s) = Data(s) /\ Values(t) = Data(t) /\ Values(s \o t) = Data(s \o t)
  BY <1>1, DataOfBytes
<1> QED
  BY <1>2, DataConcat

LEMMA FeedParserStep ==
    ASSUME StreamInv, NEW k \in 1..Len(line), FeedParser(k)
    PROVE  StreamInv'
<1>0. PICK p, q : p = SubSeq(line, 1, k) /\ q = SubSeq(line, k + 1, Len(line))
  OBVIOUS
<1>1. /\ pc = "idle" /\ proto # "mqtt-ws" /\ seen' = seen \o Values(p) /\ line' = q /\ pc' = "parse"
      /\ UNCHANGED <<proto, dir, packets, framed, midMessage, late, upgraded, handshake_buf, buf,
                     fragments, out>>
  BY <1>0 DEF FeedParser, sender, unmasker
<1>2. /\ line \in Seq(Tokens) /\ App' = App /\ App \in Seq(Bytes) /\ seen \in Seq(Bytes)
      /\ AllBytes(line)
  BY <1>1, AppType DEF StreamInv, BaseInv, App, PlainInv
<1>3. p \in Seq(Tokens) /\ q \in Seq(Tokens) /\ p \o q = line /\ AllBytes(p) /\ AllBytes(q)
  BY <1>0, <1>2, LineCut
<1>4. Values(line) = Values(p) \o Values(q) /\ Values(p) \in Seq(Bytes) /\ Values(q) \in Seq(Bytes)
  BY <1>3, ValuesConcat, ValuesType
<1>5. seen' \o Values(q) = seen \o Values(line) /\ seen' \in Seq(Bytes)
  BY <1>1, <1>2, <1>4
<1>6. BaseInv'
  BY <1>1, <1>2, <1>3, <1>5 DEF StreamInv, BaseInv
<1>7. PlainInv'
  BY <1>1, <1>2, <1>3, <1>5 DEF StreamInv, PlainInv, Fresh
<1> QED
  BY <1>1, <1>6, <1>7 DEF StreamInv, WireInv, ClosedInv, OpenInv

\* A head of two tokens at the start of what has arrived.
LEMMA HeadOfTwo ==
    ASSUME NEW h \in Seq(Tokens), NEW q \in Seq(Tokens), NEW rest \in Seq(Tokens),
           h \o q = <<Upgrade, EndOfHead>> \o rest, Len(h) >= 1
    PROVE  /\ h[1] = Upgrade
           /\ Len(h) >= 2 => h[2] = EndOfHead /\ SubSeq(h, 3, Len(h)) \o q = rest
<1>0. PICK x \in Tokens, y \in Tokens : x = Upgrade /\ y = EndOfHead /\ h \o q = <<x, y>> \o rest
  BY KindsOfTokens
<1>1. h[1] = x /\ (Len(h) >= 2 => h[2] = y)
  <2>1. (h \o q)[1] = h[1] /\ (Len(h) >= 2 => (h \o q)[2] = h[2])
    OBVIOUS
  <2>2. (<<x, y>> \o rest)[1] = x /\ (<<x, y>> \o rest)[2] = y
    OBVIOUS
  <2> QED
    BY <1>0, <2>1, <2>2
<1>2. ASSUME Len(h) >= 2 PROVE SubSeq(h, 3, Len(h)) \o q = rest
  <2> DEFINE u == SubSeq(h, 3, Len(h))
             v == u \o q
  <2>1. u \in Seq(Tokens) /\ Len(u) = Len(h) - 2 /\ \A i \in 1..Len(h) - 2 : u[i] = h[i + 2]
    BY <1>2
  <2>2. Len(h) + Len(q) = 2 + Len(rest) /\ Len(h) \in Nat /\ Len(q) \in Nat /\ Len(rest) \in Nat
    <3>1. Len(h \o q) = Len(h) + Len(q) /\ Len(<<x, y>> \o rest) = 2 + Len(rest)
      OBVIOUS
    <3>2. Len(h) \in Nat /\ Len(q) \in Nat /\ Len(rest) \in Nat
      OBVIOUS
    <3> QED
      BY <1>0, <3>1, <3>2
  <2> HIDE DEF u
  <2>3. ASSUME NEW i \in 1..Len(rest) PROVE v[i] = rest[i]
    <3>1. rest[i] = (<<x, y>> \o rest)[i + 2]
      OBVIOUS
    <3>2. CASE i <= Len(h) - 2
      <4>1. v[i] = u[i] /\ u[i] = h[i + 2] /\ (h \o q)[i + 2] = h[i + 2]
        BY <2>1, <2>2, <3>2
      <4> QED
        BY <1>0, <3>1, <4>1
    <3>3. CASE i > Len(h) - 2
      <4>0. i \in Nat /\ i + 2 \in 1..Len(h) + Len(q) /\ i + 2 > Len(h) /\ i \in 1..Len(u) + Len(q)
            /\ i > Len(u)
        BY <1>2, <2>1, <2>2, <3>3
      <4>1. v[i] = q[i - Len(u)]
        BY <2>1, <4>0
      <4>3. (h \o q)[i + 2] = q[(i + 2) - Len(h)]
        BY <4>0
      <4>2. i - Len(u) = (i + 2) - Len(h)
        BY <2>1, <2>2, <4>0
      <4> QED
        BY <1>0, <3>1, <4>1, <4>2, <4>3
    <3>4. i <= Len(h) - 2 \/ i > Len(h) - 2
      BY <2>2
    <3> QED
      BY <3>2, <3>3, <3>4, Zenon
  <2>4. v \in Seq(Tokens) /\ Len(v) = Len(rest)
    BY <2>1, <2>2
  <2> HIDE DEF v
  <2>5. v = rest
    BY <2>3, <2>4
  <2> QED
    BY <2>5 DEF u, v
<1> QED
  BY <1>0, <1>1, <1>2

LEMMA MinIs ==
    ASSUME NEW n \in Nat, NEW S \in SUBSET (1..n), S # {}
    PROVE  Min(S) \in S /\ \A i \in S : Min(S) <= i
<1>1. \E x \in S : \A y \in S : x <= y
  <2> DEFINE T == {k \in Nat : \A i \in S : i > k}
  <2> SUFFICES ASSUME \A x \in S : \E y \in S : ~(x <= y) PROVE FALSE
    OBVIOUS
  <2>1. 0 \in T
    OBVIOUS
  <2>2. ASSUME NEW k \in Nat, k \in T PROVE k + 1 \in T
    <3>1. k + 1 \notin S
      <4> SUFFICES ASSUME k + 1 \in S PROVE FALSE
        OBVIOUS
      <4>1. PICK y \in S : ~(k + 1 <= y)
        OBVIOUS
      <4>2. y > k /\ y \in Nat
        BY <2>2
      <4> QED
        BY <4>1, <4>2
    <3>2. \A i \in S : i \in Nat /\ i > k
      BY <2>2
    <3> QED
      BY <3>1, <3>2
  <2>3. n \in T
    <3> HIDE DEF T
    <3> QED
      BY <2>1, <2>2, Induction
  <2>4. PICK i \in S : TRUE
    OBVIOUS
  <2> QED
    BY <2>3, <2>4
<1> QED
  BY <1>1 DEF Min

LEMMA FeedHandshakeStep ==
    ASSUME StreamInv, NEW k \in 1..Len(line), FeedHandshake(k)
    PROVE  StreamInv'
<1>0. PICK p, q, h : p = SubSeq(line, 1, k) /\ q = SubSeq(line, k + 1, Len(line))
                     /\ h = handshake_buf \o p
  OBVIOUS
<1> DEFINE ends == {i \in DOMAIN h : h[i] = EndOfHead}
           Rejected == ~\E i \in 1..Min(ends) : h[i] = Upgrade
<1>1. /\ pc = "idle" /\ proto = "mqtt-ws" /\ ~upgraded /\ line' = q
      /\ UNCHANGED <<proto, dir, packets, framed, midMessage, late, fragments, out, seen>>
      /\ \/ ends = {} /\ handshake_buf' = h /\ pc' = "idle" /\ UNCHANGED <<upgraded, buf>>
         \/ ends # {} /\ handshake_buf' = <<>> /\ Rejected /\ pc' = "idle" /\ UNCHANGED <<upgraded, buf>>
         \/ ends # {} /\ handshake_buf' = <<>> /\ ~Rejected /\ pc' = "unmask" /\ upgraded' = TRUE
            /\ buf' = buf \o SubSeq(h, Min(ends) + 1, Len(h))
  BY <1>0, Zenon DEF FeedHandshake, sender, parser
<1>2. /\ line \in Seq(Tokens) /\ handshake_buf \in Seq(Tokens) /\ buf \in Seq(Tokens)
      /\ App' = App /\ App \in Seq(Bytes) /\ out = <<>> /\ dir \in {"s2c", "c2s"} /\ late \in BOOLEAN
  BY <1>1, AppType DEF StreamInv, BaseInv, App
<1>3. p \in Seq(Tokens) /\ q \in Seq(Tokens) /\ p \o q = line /\ Len(p) = k
      /\ (NoUpgrade(line, 1) => NoUpgrade(p, 1) /\ NoUpgrade(q, 1))
  BY <1>0, <1>2, LineCut
<1>4. h \in Seq(Tokens) /\ Len(h) \in Nat /\ Len(h) >= 1 /\ h \o q = handshake_buf \o line
  <2>1. h \in Seq(Tokens) /\ Len(h) = Len(handshake_buf) + Len(p)
    BY <1>0, <1>2, <1>3
  <2>3. h \o q = handshake_buf \o (p \o q)
    BY <1>0, <1>2, <1>3, TokensAssoc
  <2> QED
    BY <1>2, <1>3, <2>1, <2>3
<1>5. ends # {} => Min(ends) \in ends /\ (\A i \in ends : Min(ends) <= i) /\ Min(ends) \in 1..Len(h)
  <2>1. ends \in SUBSET (1..Len(h))
    BY <1>4
  <2> HIDE DEF ends
  <2> QED
    BY <1>4, <2>1, MinIs
<1>6. upgraded' \in BOOLEAN /\ handshake_buf' \in Seq(Tokens) /\ buf' \in Seq(Tokens)
      /\ pc' \in {"wire", "idle", "unmask", "parse"}
  <2>1. <<>> \in Seq(Tokens)
    OBVIOUS
  <2>2. ends # {} => buf \o SubSeq(h, Min(ends) + 1, Len(h)) \in Seq(Tokens)
    <3>1. ends # {} => Min(ends) \in 0..Len(h)
      <4> HIDE DEF ends
      <4> QED
        BY <1>5
    <3> HIDE DEF ends
    <3>2. ends # {} => SubSeq(h, Min(ends) + 1, Len(h)) \in Seq(Tokens)
      BY <1>4, <3>1, Cut
    <3> QED
      BY <1>2, <3>2
  <2>3. upgraded \in BOOLEAN
    BY DEF StreamInv, BaseInv
  <2> HIDE DEF ends, Rejected
  <2> QED
    BY <1>1, <1>2, <1>4, <2>1, <2>2, <2>3
<1>7. BaseInv'
  <2> HIDE DEF ends, Rejected
  <2> QED
    BY <1>1, <1>2, <1>3, <1>6 DEF StreamInv, BaseInv
<1>8. PlainInv' /\ WireInv'
  <2> HIDE DEF ends, Rejected
  <2> QED
    BY <1>1 DEF PlainInv, WireInv
<1>9. ClosedInv'
  <2> SUFFICES ASSUME dir = "c2s" \/ late PROVE ClosedInv'
    <3> HIDE DEF ends, Rejected
    <3> QED
      BY <1>1 DEF ClosedInv
  <2>1. Fresh /\ seen = <<>> /\ NoUpgrade(handshake_buf, 1) /\ NoUpgrade(line, 1)
    BY <1>1 DEF StreamInv, ClosedInv
  <2>2. NoUpgrade(h, 1) /\ NoUpgrade(q, 1) /\ NoUpgrade(<<>>, 1)
    <3>1. NoUpgrade(h, 1)
      BY <1>0, <1>2, <1>3, <2>1, NoUpgradeConcat
    <3> QED
      BY <1>3, <2>1, <3>1 DEF NoUpgrade
  <2>3. ends # {} => Rejected
    <3>1. ends # {} => \A i \in 1..Min(ends) : i \in 1..Len(h)
      <4> HIDE DEF ends
      <4> QED
        BY <1>4, <1>5
    <3>2. \A i \in 1..Len(h) : h[i] # Upgrade
      BY <2>2 DEF NoUpgrade
    <3> HIDE DEF ends
    <3> QED
      BY <3>1, <3>2
  <2>4. pc' = "idle" /\ UNCHANGED <<upgraded, buf>> /\ (handshake_buf' = h \/ handshake_buf' = <<>>)
    <3> HIDE DEF ends, Rejected
    <3> QED
      BY <1>1, <2>3
  <2> QED
    BY <1>1, <2>1, <2>2, <2>4 DEF ClosedInv, Fresh
<1>10. OpenInv'
  <2> SUFFICES ASSUME dir = "s2c", ~late PROVE \E r, a : Opened(r, a)'
    <3> HIDE DEF ends, Rejected
    <3> QED
      BY <1>1 DEF OpenInv
  <2>1. PICK rest, a : Opened(rest, a)
    BY <1>1 DEF StreamInv, OpenInv
  <2>2. /\ rest \in Seq(Tokens) /\ handshake_buf \o line = <<Upgrade, EndOfHead>> \o rest
        /\ Fresh /\ seen = <<>>
    BY <1>1, <2>1, FramedIs DEF Opened
  <2>3. h[1] = Upgrade /\ (Len(h) >= 2 => h[2] = EndOfHead /\ SubSeq(h, 3, Len(h)) \o q = rest)
    <3>2. /\ q \in Seq(Tokens) /\ h \in Seq(Tokens) /\ rest \in Seq(Tokens) /\ Len(h) >= 1
          /\ h \o q = <<Upgrade, EndOfHead>> \o rest
      BY <1>3, <1>4, <2>2
    <3> QED
      BY <3>2, HeadOfTwo
  <2>4. 1 \notin ends
    <3>1. Upgrade # EndOfHead
      BY KindsOfTokens
    <3> QED
      BY <2>3, <3>1
  <2>5. CASE Len(h) = 1
    <3>1. ends = {}
      <4>1. DOMAIN h = {1}
        BY <1>4, <2>5
      <4> QED
        BY <2>4, <4>1
    <3>2. handshake_buf' = h /\ pc' = "idle" /\ UNCHANGED <<upgraded, buf>>
      <4> HIDE DEF ends, Rejected
      <4> QED
        BY <1>1, <3>1
    <3>3. handshake_buf' \o line' = <<Upgrade, EndOfHead>> \o rest
      BY <1>1, <1>4, <2>2, <3>2
    <3>4. Opened(rest, a)'
      <4> HIDE DEF ends, Rejected
      <4>1. /\ Framed(rest, a, midMessage) /\ (a \/ fragments = <<>>) /\ framed = Len(App)
            /\ ((seen \o out) \o fragments) \o Data(rest) = SubSeq(App, 1, framed)
        BY <1>1, <2>1 DEF Opened
      <4>2. Len(handshake_buf') <= 1
        <5>1. Len(h) <= 1
          BY <2>5
        <5> QED
          BY <3>2, <5>1
      <4>3. ~upgraded' /\ Fresh' /\ seen' = <<>> /\ pc' = "idle"
        BY <1>1, <2>2, <3>2 DEF Fresh
      <4> QED
        BY <1>1, <1>2, <3>3, <4>1, <4>2, <4>3 DEF Opened
    <3> QED
      BY <3>4
  <2>6. CASE Len(h) >= 2
    <3>1. 2 \in ends
      <4>1. 2 \in DOMAIN h
        BY <1>4, <2>6
      <4> QED
        BY <2>3, <2>6, <4>1
    <3>2. Min(ends) = 2
      <4> HIDE DEF ends
      <4>1. Min(ends) \in ends /\ Min(ends) <= 2 /\ Min(ends) \in 1..Len(h)
        BY <1>5, <3>1
      <4>2. Min(ends) # 1
        BY <2>4, <4>1
      <4> QED
        BY <1>4, <4>1, <4>2
    <3>3. ~Rejected
      <4>1. 1 \in 1..2
        OBVIOUS
      <4> HIDE DEF ends
      <4> QED
        BY <2>3, <3>2, <4>1
    <3>4. /\ handshake_buf' = <<>> /\ pc' = "unmask" /\ upgraded'
          /\ buf' = buf \o SubSeq(h, 3, Len(h))
      <4>1. ends # {}
        BY <3>1
      <4>2. 2 + 1 = 3
        OBVIOUS
      <4> HIDE DEF ends, Rejected
      <4> QED
        BY <1>1, <3>2, <3>3, <4>1, <4>2
    <3>5. buf' = SubSeq(h, 3, Len(h))
      <4>1. SubSeq(h, 3, Len(h)) \in Seq(Tokens) /\ buf = <<>>
        BY <1>4, <2>2, <2>6 DEF Fresh
      <4> QED
        BY <3>4, <4>1, EmptyConcat
    <3>6. buf' \o line' = rest
      BY <1>1, <2>3, <2>6, <3>5
    <3>7. Opened(rest, a)'
      <4> HIDE DEF ends, Rejected
      <4> QED
        BY <1>1, <1>2, <2>1, <3>4, <3>6 DEF Opened
    <3> QED
      BY <3>7
  <2>7. Len(h) = 1 \/ Len(h) >= 2
    <3>1. PICK n \in Nat : n = Len(h) /\ n >= 1
      BY <1>4, Zenon
    <3>2. n = 1 \/ n >= 2
      BY <3>1
    <3> QED
      BY <3>1, <3>2, Zenon
  <2> QED
    BY <2>5, <2>6, <2>7, Zenon
<1> QED
  BY <1>7, <1>8, <1>9, <1>10 DEF StreamInv

LEMMA FeedFramesStep ==
    ASSUME StreamInv, NEW k \in 1..Len(line), FeedFrames(k)
    PROVE  StreamInv'
<1>0. PICK p, q : p = SubSeq(line, 1, k) /\ q = SubSeq(line, k + 1, Len(line))
  OBVIOUS
<1>1. /\ pc = "idle" /\ proto = "mqtt-ws" /\ upgraded /\ buf' = buf \o p /\ line' = q /\ pc' = "unmask"
      /\ UNCHANGED <<proto, dir, packets, framed, midMessage, late, upgraded, handshake_buf,
                     fragments, out, seen>>
  BY <1>0 DEF FeedFrames, sender, parser
<1>2. /\ line \in Seq(Tokens) /\ buf \in Seq(Tokens) /\ App' = App /\ App \in Seq(Bytes)
      /\ dir = "s2c" /\ ~late
  BY <1>1, AppType DEF StreamInv, BaseInv, App, ClosedInv
<1>3. p \in Seq(Tokens) /\ q \in Seq(Tokens) /\ p \o q = line
  BY <1>0, <1>2, LineCut
<1>4. buf' \in Seq(Tokens) /\ buf' \o line' = buf \o line
  <2>2. (buf \o p) \o q = buf \o (p \o q) /\ buf \o p \in Seq(Tokens)
    <3>1. buf \in Seq(Tokens) /\ p \in Seq(Tokens) /\ q \in Seq(Tokens)
      BY <1>2, <1>3
    <3> QED
      BY TokensAssoc, <3>1
  <2> QED
    BY <1>1, <1>3, <2>2
<1>5. BaseInv'
  BY <1>1, <1>2, <1>3, <1>4 DEF StreamInv, BaseInv
<1>6. PlainInv' /\ WireInv' /\ ClosedInv'
  BY <1>1, <1>2 DEF PlainInv, WireInv, ClosedInv
<1>7. PICK rest, a : Opened(rest, a)
  BY <1>1, <1>2 DEF StreamInv, OpenInv
<1>8. Opened(rest, a)'
  BY <1>1, <1>2, <1>4, <1>7 DEF Opened
<1> QED
  BY <1>5, <1>6, <1>8 DEF StreamInv, OpenInv

LEMMA LenOfConcat ==
    \A s \in Seq(Tokens), t \in Seq(Tokens) : Len(s \o t) = Len(s) + Len(t)
  OBVIOUS

LEMMA ConcatAt ==
    \A s \in Seq(Tokens), t \in Seq(Tokens) :
       /\ \A j \in 1..Len(s) : (s \o t)[j] = s[j]
       /\ \A j \in Len(s) + 1..Len(s) + Len(t) : (s \o t)[j] = t[j - Len(s)]
  OBVIOUS

LEMMA TokensEq ==
    ASSUME NEW u \in Seq(Tokens), NEW v \in Seq(Tokens), Len(u) = Len(v),
           \A i \in 1..Len(v) : u[i] = v[i]
    PROVE  u = v
  OBVIOUS

\* A whole frame at the start of what has arrived.
LEMMA FrameAtHead ==
    ASSUME NEW b \in Seq(Tokens), NEW l \in Seq(Tokens), NEW h \in Tokens, NEW body \in Seq(Tokens),
           NEW f \in Seq(Tokens), NEW t \in Seq(Tokens), f = <<h>> \o body, b \o l = f \o t, b # <<>>
    PROVE  b[1] = h
<1>1. f[1] = h /\ Len(f) \in Nat /\ Len(f) >= 1 /\ Len(b) >= 1
  OBVIOUS
<1>2. 1 \in 1..Len(f) /\ 1 \in 1..Len(b)
  BY <1>1
<1>3. (b \o l)[1] = b[1]
  BY <1>2, ConcatAt, Zenon
<1>4. (f \o t)[1] = f[1]
  BY <1>2, ConcatAt, Zenon
<1> QED
  BY <1>1, <1>3, <1>4, Zenon

\* The body of the frame at the start of b, and what remains of b and l behind it.
Cuts(b, l, body, t) ==
    /\ SubSeq(b, 2, Len(body) + 1) = body
    /\ SubSeq(b, Len(body) + 2, Len(b)) \in Seq(Tokens)
    /\ SubSeq(b, Len(body) + 2, Len(b)) \o l = t

LEMMA FrameCut ==
    ASSUME NEW b \in Seq(Tokens), NEW l \in Seq(Tokens), NEW h \in Tokens, NEW body \in Seq(Tokens),
           NEW f \in Seq(Tokens), NEW t \in Seq(Tokens), f = <<h>> \o body, b \o l = f \o t,
           Len(b) >= 1 + Len(body)
    PROVE  Cuts(b, l, body, t)
<1> DEFINE n == Len(body)
<1>1. f \in Seq(Tokens) /\ Len(f) = n + 1 /\ f[1] = h /\ n \in Nat /\ \A i \in 1..n : f[i + 1] = body[i]
  OBVIOUS
<1>2. b \o l = f \o t
  OBVIOUS
<1>4. ASSUME Len(b) >= n + 1
      PROVE  SubSeq(b, 2, n + 1) = body
  <2> DEFINE v == SubSeq(b, 2, n + 1)
  <2>1. v \in Seq(Tokens) /\ Len(v) = n /\ \A i \in 1..n : v[i] = b[i + 1]
    BY <1>1, <1>4
  <2>2. ASSUME NEW i \in 1..n PROVE b[i + 1] = body[i]
    <3>0. PICK j : j = i + 1 /\ j \in 1..Len(b) /\ j \in 1..Len(f)
      BY <1>1, <1>4
    <3>1. (b \o l)[j] = b[j]
      BY <3>0, ConcatAt, Zenon
    <3>3. (f \o t)[j] = f[j]
      BY <1>1, <3>0, ConcatAt, Zenon
    <3>4. f[j] = body[i]
      BY <1>1, <3>0, Zenon
    <3>2. (f \o t)[j] = f[j] /\ f[j] = body[i]
      BY <3>3, <3>4
    <3> QED
      BY <1>2, <3>0, <3>1, <3>2, Zenon
  <2> HIDE DEF v
  <2>4. v \in Seq(Tokens) /\ Len(v) = Len(body) /\ \A i \in 1..Len(body) : v[i] = body[i]
    BY <2>1, <2>2, Zenon
  <2>3. v = body
    BY <2>4, TokensEq, Zenon
  <2> QED
    BY <2>3 DEF v
<1>5. ASSUME Len(b) >= n + 1
      PROVE  SubSeq(b, n + 2, Len(b)) \in Seq(Tokens) /\ SubSeq(b, n + 2, Len(b)) \o l = t
  <2> DEFINE u == SubSeq(b, n + 2, Len(b))
             v == u \o l
  <2>1. u \in Seq(Tokens) /\ Len(u) = Len(b) - (n + 1) /\ \A i \in 1..Len(b) - (n + 1) : u[i] = b[i + (n + 1)]
    BY <1>1, <1>5
  <2>2. Len(b) + Len(l) = (n + 1) + Len(t) /\ Len(b) \in Nat /\ Len(l) \in Nat /\ Len(t) \in Nat
    <3>1. Len(b \o l) = Len(b) + Len(l) /\ Len(f \o t) = Len(f) + Len(t)
      BY <1>1, LenOfConcat
    <3>2. Len(b) \in Nat /\ Len(l) \in Nat /\ Len(t) \in Nat
      OBVIOUS
    <3> QED
      BY <1>1, <1>2, <3>1, <3>2
  <2> HIDE DEF u
  <2>3. ASSUME NEW i \in 1..Len(t) PROVE v[i] = t[i]
    <3>1. t[i] = (f \o t)[i + (n + 1)]
      <4>1. i + (n + 1) \in Len(f) + 1..Len(f) + Len(t) /\ (i + (n + 1)) - Len(f) = i
        BY <1>1, <2>2
      <4>2. (f \o t)[i + (n + 1)] = t[(i + (n + 1)) - Len(f)]
        BY <4>1, ConcatAt, Zenon
      <4> QED
        BY <4>1, <4>2
    <3>2. CASE i <= Len(u)
      <4>0. i \in 1..Len(u) /\ i \in 1..Len(b) - (n + 1) /\ i + (n + 1) \in 1..Len(b)
        BY <1>1, <2>1, <2>2, <3>2
      <4>1. v[i] = u[i]
        BY <2>1, <4>0, ConcatAt, Zenon
      <4>2. (b \o l)[i + (n + 1)] = b[i + (n + 1)]
        BY <4>0, ConcatAt, Zenon
      <4>3. u[i] = b[i + (n + 1)]
        BY <2>1, <4>0, Zenon
      <4> QED
        BY <1>2, <3>1, <4>1, <4>2, <4>3
    <3>3. CASE i > Len(u)
      <4>0. /\ i \in Nat /\ i + (n + 1) \in 1..Len(b) + Len(l) /\ i + (n + 1) > Len(b)
            /\ i \in 1..Len(u) + Len(l)
        BY <1>1, <1>5, <2>1, <2>2, <3>3
      <4>5. i \in Len(u) + 1..Len(u) + Len(l)
        BY <2>1, <2>2, <3>3, <4>0, <1>1
      <4>1. v[i] = l[i - Len(u)]
        BY <2>1, <4>5, ConcatAt, Zenon
      <4>4. i + (n + 1) \in Len(b) + 1..Len(b) + Len(l)
        BY <2>2, <4>0, <1>1
      <4>3. (b \o l)[i + (n + 1)] = l[(i + (n + 1)) - Len(b)]
        BY <4>4, ConcatAt, Zenon
      <4>2. i - Len(u) = (i + (n + 1)) - Len(b)
        BY <1>1, <2>1, <2>2, <4>0
      <4> QED
        BY <1>2, <3>1, <4>1, <4>2, <4>3
    <3>4. i <= Len(u) \/ i > Len(u)
      BY <2>1, <2>2, <1>1
    <3> QED
      BY <3>2, <3>3, <3>4, Zenon
  <2>4. v \in Seq(Tokens) /\ Len(v) = Len(t)
    BY <1>1, <2>1, <2>2
  <2> HIDE DEF v
  <2>5. v = t
    BY <2>3, <2>4, TokensEq, Zenon
  <2> QED
    BY <2>1, <2>5 DEF u, v
<1>6. Len(b) >= n + 1
  BY <1>1
<1> QED
  BY <1>4, <1>5, <1>6 DEF Cuts

LEMMA UnmaskFrameStep ==
    ASSUME StreamInv, UnmaskFrame
    PROVE  StreamInv'
<1>1. pc = "unmask" /\ proto = "mqtt-ws" /\ dir = "s2c" /\ ~late
  BY DEF UnmaskFrame, StreamInv, BaseInv, PlainInv, ClosedInv
<1>2. PICK rest, a : Opened(rest, a)
  BY <1>1 DEF StreamInv, OpenInv
<1>3. /\ upgraded /\ handshake_buf = <<>> /\ buf \o line = rest /\ rest \in Seq(Tokens)
      /\ Framed(rest, a, midMessage) /\ (a \/ fragments = <<>>) /\ framed = Len(App)
      /\ ((seen \o out) \o fragments) \o Data(rest) = SubSeq(App, 1, framed)
  BY <1>1, <1>2, FramedIs DEF Opened
<1>4. /\ line \in Seq(Tokens) /\ buf \in Seq(Tokens) /\ App \in Seq(Bytes)
      /\ seen \in Seq(Bytes) /\ out \in Seq(Bytes) /\ fragments \in Seq(Bytes)
  BY AppType DEF StreamInv, BaseInv
<1>5. buf # <<>> /\ Len(buf) >= 1 + buf[1][4]
  BY DEF UnmaskFrame, FrameComplete
<1>6. rest # <<>>
  <2>1. Len(rest) = Len(buf) + Len(line) /\ Len(buf) > 0 /\ Len(line) \in Nat
    BY <1>3, <1>4, <1>5
  <2> QED
    BY <1>3, <2>1
<1>7. PICK f \in Seq(Tokens), t \in Seq(Tokens), c \in BOOLEAN :
         rest = f \o t /\ FrameOK(f, a, c) /\ Framed(t, c, midMessage)
  <2>1. Framed(rest, a, midMessage) /\ rest # <<>>
    BY <1>3, <1>6
  <2> QED
    BY <2>1, FramedHead
<1>8. PICK fin \in BOOLEAN, op \in {"data", "cont", "control"}, body \in Seq(Tokens) :
         /\ f = <<Header(fin, op, Len(body))>> \o body
         /\ \/ op = "control" /\ NoBytes(body) /\ c = a
            \/ op = (IF a THEN "cont" ELSE "data") /\ AllBytes(body) /\ c = ~fin
  BY <1>7 DEF FrameOK
<1>9. PICK h \in Tokens : h = Header(fin, op, Len(body))
  BY KindsOfTokens
<1> DEFINE n == Len(body)
           message == Message(op, Values(body))
<1>10. h[1] = "header" /\ h[2] = fin /\ h[3] = op /\ h[4] = n
  BY <1>9 DEF Header
<1>11. /\ buf[1] = h /\ SubSeq(buf, 2, n + 1) = body
       /\ SubSeq(buf, n + 2, Len(buf)) \in Seq(Tokens) /\ SubSeq(buf, n + 2, Len(buf)) \o line = t
  <2>1. f = <<h>> \o body /\ buf \o line = f \o t
    BY <1>3, <1>7, <1>8, <1>9
  <2>4. buf \in Seq(Tokens) /\ line \in Seq(Tokens) /\ buf # <<>>
    BY <1>4, <1>5
  <2>2. buf[1] = h
    BY <2>1, <2>4, FrameAtHead
  <2>3. Len(buf) >= 1 + Len(body)
    BY <1>5, <1>10, <2>2
  <2>5. /\ SubSeq(buf, 2, Len(body) + 1) = body
        /\ SubSeq(buf, Len(body) + 2, Len(buf)) \in Seq(Tokens)
        /\ SubSeq(buf, Len(body) + 2, Len(buf)) \o line = t
    <3>1. PICK b \in Seq(Tokens), l \in Seq(Tokens) : b = buf /\ l = line
      BY <2>4
    <3>2. f = <<h>> \o body /\ b \o l = f \o t /\ Len(b) >= 1 + Len(body)
      BY <2>1, <2>3, <3>1
    <3>3. Cuts(b, l, body, t)
      BY <3>2, FrameCut
    <3> QED
      BY <3>1, <3>3 DEF Cuts
  <2> QED
    BY <2>2, <2>5
<1>12. /\ buf' = SubSeq(buf, n + 2, Len(buf))
       /\ IF fin /\ op # "control" THEN out' = out \o message /\ fragments' = <<>>
          ELSE fragments' = message /\ out' = out
       /\ UNCHANGED <<proto, dir, packets, framed, midMessage, line, late, upgraded, handshake_buf,
                      seen, pc>>
  <2> HIDE DEF message
  <2> QED
    BY <1>10, <1>11, Zenon DEF UnmaskFrame, sender, parser, message
<1>13. Data(rest) = Data(f) \o Data(t) /\ Data(f) \in Seq(Bytes) /\ Data(t) \in Seq(Bytes)
  BY <1>7, DataConcat, DataType
<1>14. Data(f) = Data(body)
  <2>1. <<h>> \in Seq(Tokens) /\ f = <<h>> \o body
    BY <1>8, <1>9
  <2>2. Data(<<h>>) = <<>>
    BY <1>10, DataOne DEF Piece
  <2>3. Data(f) = Data(<<h>>) \o Data(body)
    BY <2>1, DataConcat
  <2> QED
    BY <2>2, <2>3, DataType, EmptyConcat
\* What has been handed over and what is collected grows by the payload of the frame.
<1>15. /\ fragments' \in Seq(Bytes) /\ out' \in Seq(Bytes)
       /\ out' \o fragments' = (out \o fragments) \o Data(f)
       /\ c \/ fragments' = <<>>
  <2>1. CASE op = "control" /\ NoBytes(body) /\ c = a
    <3>1. fragments' = fragments /\ out' = out
      BY <1>12, <2>1 DEF Message
    <3>2. Data(f) = <<>>
      BY <1>14, <2>1, DataOfOthers
    <3>3. (out \o fragments) \o <<>> = out \o fragments
      BY <1>4
    <3> QED
      BY <1>3, <1>4, <2>1, <3>1, <3>2, <3>3
  <2>2. CASE op = (IF a THEN "cont" ELSE "data") /\ AllBytes(body) /\ c = ~fin
    <3>1. Data(f) = Values(body) /\ Values(body) \in Seq(Bytes)
      BY <1>14, <2>2, DataOfBytes, ValuesType
    <3>2. message = fragments \o Data(f)
      <4>1. CASE a
        BY <2>2, <3>1, <4>1 DEF Message
      <4>2. CASE ~a
        BY <1>3, <2>2, <3>1, <4>2, EmptyConcat DEF Message
      <4> QED
        BY <4>1, <4>2
    <3>3. out \o (fragments \o Data(f)) = (out \o fragments) \o Data(f) /\ fragments \o Data(f) \in Seq(Bytes)
          /\ out \o (fragments \o Data(f)) \in Seq(Bytes)
      <4>2. \A x \in Seq(Bytes), y \in Seq(Bytes) : x \o y \in Seq(Bytes)
        OBVIOUS
      <4>3. out \in Seq(Bytes) /\ fragments \in Seq(Bytes) /\ Data(f) \in Seq(Bytes)
        BY <1>4, <1>13
      <4>4. (out \o fragments) \o Data(f) = out \o (fragments \o Data(f))
        BY BytesAssoc, <4>3, Zenon
      <4> QED
        BY <4>2, <4>3, <4>4, Zenon
    <3>4. op # "control"
      BY <2>2
    <3> HIDE DEF message
    <3>5. CASE fin
      <4>1. out' = out \o (fragments \o Data(f)) /\ fragments' = <<>>
        BY <1>12, <3>2, <3>4, <3>5
      <4>2. (out \o (fragments \o Data(f))) \o <<>> = out \o (fragments \o Data(f))
        BY <3>3
      <4>3. <<>> \in Seq(Bytes)
        OBVIOUS
      <4> QED
        BY <3>3, <4>1, <4>2, <4>3
    <3>6. CASE ~fin
      <4>1. out' = out /\ fragments' = fragments \o Data(f) /\ c
        BY <1>12, <2>2, <3>2, <3>6
      <4> QED
        BY <1>4, <3>3, <4>1
    <3> QED
      BY <3>5, <3>6
  <2> QED
    BY <1>8, <2>1, <2>2
<1>16. ((seen' \o out') \o fragments') \o Data(t) = SubSeq(App, 1, framed)
  <2>2. \A x \in Seq(Bytes), y \in Seq(Bytes) : x \o y \in Seq(Bytes)
    OBVIOUS
  <2>0. Data(f) \in Seq(Bytes) /\ Data(t) \in Seq(Bytes)
    BY <1>13
  <2>3. (seen \o out') \o fragments' = seen \o (out' \o fragments')
    <3>1. seen \in Seq(Bytes) /\ out' \in Seq(Bytes) /\ fragments' \in Seq(Bytes)
      BY <1>4, <1>15
    <3> QED
      BY BytesAssoc, <3>1
  <2>4. (seen \o out) \o fragments = seen \o (out \o fragments)
    BY <1>4, BytesAssoc
  <2> DEFINE held == out \o fragments
  <2>5. held \in Seq(Bytes) /\ seen \o held \in Seq(Bytes)
    BY <1>4, <2>2
  <2> HIDE DEF held
  <2>6. seen \o (held \o Data(f)) = (seen \o held) \o Data(f)
    <3>1. seen \in Seq(Bytes) /\ held \in Seq(Bytes) /\ Data(f) \in Seq(Bytes)
      BY <1>4, <2>0, <2>5
    <3> QED
      BY BytesAssoc, <3>1
  <2>7. ((seen \o held) \o Data(f)) \o Data(t) = (seen \o held) \o (Data(f) \o Data(t))
    <3>1. (seen \o held) \in Seq(Bytes)
      BY <2>5
    <3> QED
      BY <2>0, BytesAssoc, <3>1
  <2>8. seen' = seen
    BY <1>12
  <2>9. ((seen' \o out') \o fragments') \o Data(t) = ((seen \o held) \o Data(f)) \o Data(t)
    BY <1>15, <2>3, <2>6, <2>8 DEF held
  <2>10. ((seen \o out) \o fragments) \o Data(rest) = (seen \o held) \o (Data(f) \o Data(t))
    BY <1>13, <2>4 DEF held
  <2> QED
    BY <1>3, <2>7, <2>9, <2>10
<1>17. App' = App /\ buf' \in Seq(Tokens) /\ buf' \o line' = t
  BY <1>11, <1>12 DEF App
<1>18. BaseInv'
  BY <1>1, <1>12, <1>15, <1>17 DEF StreamInv, BaseInv
<1>19. PlainInv' /\ WireInv' /\ ClosedInv'
  BY <1>1, <1>12 DEF PlainInv, WireInv, ClosedInv
<1>20. Opened(t, c)'
  BY <1>1, <1>3, <1>7, <1>12, <1>15, <1>16, <1>17 DEF Opened
<1> QED
  BY <1>18, <1>19, <1>20 DEF StreamInv, OpenInv

LEMMA UnmaskDoneStep ==
    ASSUME StreamInv, UnmaskDone
    PROVE  StreamInv'
<1>1. /\ pc = "unmask" /\ proto = "mqtt-ws" /\ dir = "s2c" /\ ~late /\ seen' = seen \o out
      /\ out' = <<>> /\ pc' \in {"idle", "parse"}
      /\ UNCHANGED <<proto, dir, packets, framed, midMessage, line, late, upgraded, handshake_buf,
                     buf, fragments>>
  BY DEF UnmaskDone, sender, StreamInv, BaseInv, PlainInv, ClosedInv
<1>2. /\ App' = App /\ seen \in Seq(Bytes) /\ out \in Seq(Bytes) /\ fragments \in Seq(Bytes)
      /\ seen' \in Seq(Bytes) /\ (seen' \o out') = seen \o out /\ out' \in Seq(Bytes)
  <2>1. seen \in Seq(Bytes) /\ out \in Seq(Bytes) /\ fragments \in Seq(Bytes)
    BY DEF StreamInv, BaseInv
  <2>2. seen \o out \in Seq(Bytes) /\ (seen \o out) \o <<>> = seen \o out /\ <<>> \in Seq(Bytes)
    BY <2>1
  <2> QED
    BY <1>1, <2>1, <2>2 DEF App
<1>3. BaseInv'
  BY <1>1, <1>2 DEF StreamInv, BaseInv
<1>4. PlainInv' /\ WireInv' /\ ClosedInv'
  BY <1>1 DEF PlainInv, WireInv, ClosedInv
<1>5. PICK rest, a : Opened(rest, a)
  BY <1>1 DEF StreamInv, OpenInv
<1>6. Opened(rest, a)'
  BY <1>1, <1>2, <1>5 DEF Opened
<1> QED
  BY <1>3, <1>4, <1>6 DEF StreamInv, OpenInv

\* The parsers, and a step that changes nothing.
LEMMA StreamStutter ==
    ASSUME StreamInv, UNCHANGED <<sender, line, late, unmasker, seen>>,
           pc' = pc \/ (pc = "parse" /\ pc' = "idle")
    PROVE  StreamInv'
<1>1. /\ UNCHANGED <<proto, dir, packets, framed, midMessage, line, late, upgraded, handshake_buf,
                     buf, fragments, out, seen>>
      /\ App' = App
  BY DEF sender, unmasker, App
<1>2. BaseInv' /\ PlainInv' /\ WireInv'
  BY <1>1 DEF StreamInv, BaseInv, PlainInv, WireInv, Fresh
<1>3. ClosedInv'
  BY <1>1 DEF StreamInv, ClosedInv, Fresh
<1>4. OpenInv'
  <2> SUFFICES ASSUME proto = "mqtt-ws", dir = "s2c", ~late PROVE \E r, a : Opened(r, a)'
    BY <1>1 DEF OpenInv
  <2>1. PICK rest, a : Opened(rest, a)
    BY DEF StreamInv, OpenInv
  <2>2. Opened(rest, a)'
    BY <1>1, <2>1 DEF Opened, Fresh
  <2> QED
    BY <2>2
<1> QED
  BY <1>2, <1>3, <1>4 DEF StreamInv

LEMMA StreamStep == StreamInv /\ [Next]_vars => StreamInv'
<1> SUFFICES ASSUME StreamInv, [Next]_vars PROVE StreamInv'
  OBVIOUS
<1>1. ASSUME NEW n \in 0..Len(App), NEW fin \in BOOLEAN, SendFrame(n, fin) PROVE StreamInv'
  BY <1>1, SendFrameStep
<1>2. CASE SendPing
  BY <1>2, SendPingStep
<1>3. ASSUME NEW j \in IF LateJoin THEN 0..Len(line) - 1 ELSE {0}, Join(j) PROVE StreamInv'
  <2>1. j \in 0..Len(line)
    <3>1. Len(line) \in Nat /\ LateJoin \in BOOLEAN
      BY DecoderAssumption DEF StreamInv, BaseInv
    <3> QED
      BY <3>1
  <2> QED
    BY <1>3, <2>1, JoinStep
<1>4. ASSUME NEW k \in 1..Len(line), FeedParser(k) PROVE StreamInv'
  BY <1>4, FeedParserStep
<1>5. ASSUME NEW k \in 1..Len(line), FeedHandshake(k) PROVE StreamInv'
  BY <1>5, FeedHandshakeStep
<1>6. ASSUME NEW k \in 1..Len(line), FeedFrames(k) PROVE StreamInv'
  BY <1>6, FeedFramesStep
<1>7. CASE UnmaskFrame
  BY <1>7, UnmaskFrameStep
<1>8. CASE UnmaskDone
  BY <1>8, UnmaskDoneStep
<1>9. CASE SkipByte \/ EmitPacket \/ ParseDone
  <2>1. UNCHANGED <<sender, line, late, unmasker, seen>> /\ (pc' = pc \/ (pc = "parse" /\ pc' = "idle"))
    BY <1>9 DEF SkipByte, EmitPacket, ParseDone, parser
  <2> QED
    BY <2>1, StreamStutter
<1>10. CASE UNCHANGED vars
  <2>1. UNCHANGED <<sender, line, late, unmasker, seen>> /\ pc' = pc
    BY <1>10 DEF vars, parser
  <2> QED
    BY <2>1, StreamStutter
<1> QED
  BY <1>1, <1>2, <1>3, <1>4, <1>5, <1>6, <1>7, <1>8, <1>9, <1>10
  DEF Next, SendNext, Feed, DrainNext

\* Where every byte of a flow is, between the wire and parse_buf, in every reachable state.
THEOREM StreamInvariant == Spec => []StreamInv
<1>1. Init => StreamInv
  BY InitStream
<1>2. StreamInv /\ [Next]_vars => StreamInv'
  BY StreamStep
<1> QED
  BY <1>1, <1>2, PTL DEF Spec

LEMMA StreamIsIntact == StreamInv => PayloadIntact
<1> SUFFICES ASSUME StreamInv, pc # "wire", ~late, dir = "s2c"
             PROVE  seen \o out \o fragments \o Data(handshake_buf \o buf) \o Data(line) = App
  BY DEF PayloadIntact
<1>1. /\ line \in Seq(Tokens) /\ buf \in Seq(Tokens) /\ handshake_buf \in Seq(Tokens)
      /\ App \in Seq(Bytes) /\ seen \in Seq(Bytes) /\ out \in Seq(Bytes) /\ fragments \in Seq(Bytes)
  BY AppType DEF StreamInv, BaseInv
<1>2. CASE proto # "mqtt-ws"
  <2>1. /\ handshake_buf = <<>> /\ Fresh /\ AllBytes(line) /\ seen \o Values(line) = App
    BY <1>2 DEF StreamInv, PlainInv
  <2>2. Data(line) = Values(line)
    BY <1>1, <2>1, DataOfBytes
  <2>3. Data(handshake_buf \o buf) = <<>>
    <3>1. handshake_buf \o buf = <<>>
      BY <2>1 DEF Fresh
    <3> QED
      BY <3>1, DataEmpty
  <2>4. ((seen \o <<>>) \o <<>>) \o <<>> = seen
    BY <1>1
  <2> QED
    BY <2>1, <2>2, <2>3, <2>4 DEF Fresh
<1>3. CASE proto = "mqtt-ws"
  <2>1. PICK rest, a : Opened(rest, a)
    BY <1>3 DEF StreamInv, OpenInv
  <2>2. /\ rest \in Seq(Tokens) /\ Data(rest) \in Seq(Bytes)
        /\ ((seen \o out) \o fragments) \o Data(rest) = App
    <3>1. framed = Len(App) /\ ((seen \o out) \o fragments) \o Data(rest) = SubSeq(App, 1, framed)
      BY <2>1 DEF Opened
    <3>2. SubSeq(App, 1, Len(App)) = App
      BY <1>1
    <3> QED
      BY <2>1, <3>1, <3>2, FramedIs, DataType DEF Opened
  <2>3. Data(handshake_buf \o buf) \o Data(line) = Data(rest)
    <3>1. CASE upgraded
      <4>1. handshake_buf \o buf = buf /\ buf \o line = rest
        BY <1>1, <2>1, <3>1, EmptyConcat DEF Opened
      <4> QED
        BY <1>1, <4>1, DataConcat
    <3>2. CASE ~upgraded
      <4>1. handshake_buf \o buf = handshake_buf /\ handshake_buf \o line = <<Upgrade, EndOfHead>> \o rest
        BY <1>1, <2>1, <3>2, EmptyConcat DEF Opened, Fresh
      <4>2. <<Upgrade, EndOfHead>> \in Seq(Tokens) /\ Data(<<Upgrade, EndOfHead>>) = <<>>
        <5>1. <<Upgrade, EndOfHead>> \in Seq(Tokens)
          BY KindsOfTokens
        <5>2. NoBytes(<<Upgrade, EndOfHead>>)
          BY DEF NoBytes, Upgrade, EndOfHead
        <5> QED
          BY <5>1, <5>2, DataOfOthers
      <4>3. Data(handshake_buf \o line) = Data(handshake_buf) \o Data(line)
        BY <1>1, DataConcat
      <4>4. Data(<<Upgrade, EndOfHead>> \o rest) = Data(<<Upgrade, EndOfHead>>) \o Data(rest)
        BY <2>2, <4>2, DataConcat
      <4> QED
        BY <2>2, <4>1, <4>2, <4>3, <4>4, EmptyConcat
    <3> QED
      BY <3>1, <3>2
  <2>4. Data(handshake_buf \o buf) \in Seq(Bytes) /\ Data(line) \in Seq(Bytes)
    <3>1. handshake_buf \o buf \in Seq(Tokens)
      BY <1>1
    <3> QED
      BY <1>1, <3>1, DataType
  <2> DEFINE got == (seen \o out) \o fragments
  <2>5. got \in Seq(Bytes)
    BY <1>1
  <2> HIDE DEF got
  <2>6. (got \o Data(handshake_buf \o buf)) \o Data(line) = got \o (Data(handshake_buf \o buf) \o Data(line))
    <3> QED
      BY <2>4, <2>5, BytesAssoc
  <2> QED
    BY <2>2, <2>3, <2>6 DEF got
<1> QED
  BY <1>2, <1>3

\* PayloadIntact: from a handshake it has seen, the unmasker hands over every payload byte
\* once and in order, whatever the packets, the framing and the chunks.
THEOREM PayloadIsIntact == Spec => []PayloadIntact
  BY StreamInvariant, StreamIsIntact, PTL

---------------------------------------------------------------------------
(* The parsers. *)

\* The recursion of RemainingLength, by name.
FieldBody(field, v) ==
    [i \in 0..Len(field) |->
       IF i = 0 THEN <<0, 1>>
       ELSE <<v[i - 1][1] + (field[i] % Radix) * v[i - 1][2], v[i - 1][2] * Radix>>]

FieldFun(field) == CHOOSE v : v = FieldBody(field, v)

FieldValue(field) == FieldFun(field)[Len(field)][1]

LengthField(b) == SubSeq(b, 2, VlqLen(b) + 1)

LEMMA RemainingLengthIs == \A b : RemainingLength(b) = FieldValue(LengthField(b))
  BY DEF RemainingLength, FieldValue, FieldFun, FieldBody, LengthField

LEMMA Products == \A x \in Nat, y \in Nat : x * y \in Nat
  OBVIOUS

LEMMA Remainders == \A x \in Bytes : x \in Nat /\ x % Radix \in Nat
  BY DecoderAssumption DEF Bytes

LEMMA FieldValueType ==
    ASSUME NEW field \in Seq(Bytes)
    PROVE  FieldValue(field) \in Nat
<1> DEFINE P == Nat \X Nat
           Next1(i, w) == <<w[1] + (field[i] % Radix) * w[2], w[2] * Radix>>
           Upto(n, v) ==
               /\ v \in [0..n -> P]
               /\ \A i \in 0..n : v[i] = IF i = 0 THEN <<0, 1>> ELSE Next1(i, v[i - 1])
           T == {n \in Nat : n <= Len(field) => \E v : Upto(n, v)}
<1>0. ASSUME NEW i \in 1..Len(field), NEW w \in P PROVE Next1(i, w) \in P
  <2>1. field[i] \in Bytes /\ w[1] \in Nat /\ w[2] \in Nat /\ Radix \in Nat
    BY DecoderAssumption
  <2>2. field[i] % Radix \in Nat
    BY <2>1, Remainders
  <2>3. (field[i] % Radix) * w[2] \in Nat /\ w[2] * Radix \in Nat
    BY <2>1, <2>2, Products
  <2>4. w[1] + (field[i] % Radix) * w[2] \in Nat
    BY <2>1, <2>3
  <2> QED
    BY <2>3, <2>4
<1>1. 0 \in T
  <2> DEFINE v == [i \in 0..0 |-> <<0, 1>>]
  <2>1. Upto(0, v)
    <3>1. v \in [0..0 -> P]
      OBVIOUS
    <3>2. \A i \in 0..0 : i = 0 /\ v[i] = <<0, 1>>
      OBVIOUS
    <3> HIDE DEF v, Next1
    <3> QED
      BY <3>1, <3>2
  <2> QED
    BY <2>1
<1>2. ASSUME NEW n \in Nat, n \in T PROVE n + 1 \in T
  <2> SUFFICES ASSUME n + 1 <= Len(field) PROVE \E v : Upto(n + 1, v)
    <3> HIDE DEF Upto
    <3> QED
      OBVIOUS
  <2>1. PICK v : Upto(n, v)
    <3>1. n <= Len(field)
      OBVIOUS
    <3> HIDE DEF Upto
    <3> QED
      BY <1>2, <3>1
  <2> DEFINE x == Next1(n + 1, v[n])
             g == [i \in 0..n + 1 |-> IF i <= n THEN v[i] ELSE x]
  <2>2. x \in P
    <3>1. v[n] \in P /\ n + 1 \in 1..Len(field)
      BY <2>1
    <3> HIDE DEF Next1
    <3> QED
      BY <1>0, <3>1
  <2>3. Upto(n + 1, g)
    <3> HIDE DEF x
    <3>1. g \in [0..n + 1 -> P]
      BY <2>1, <2>2
    <3>2. ASSUME NEW i \in 0..n + 1
          PROVE  g[i] = IF i = 0 THEN <<0, 1>> ELSE Next1(i, g[i - 1])
      <4>1. CASE i = n + 1
        <5>1. g[i] = x /\ g[i - 1] = v[n] /\ i # 0
          BY <4>1
        <5> HIDE DEF Next1, g
        <5> QED
          BY <4>1, <5>1 DEF x
      <4>2. CASE i \in 0..n
        <5>1. v[i] = IF i = 0 THEN <<0, 1>> ELSE Next1(i, v[i - 1])
          BY <2>1, <4>2
        <5>2. g[i] = v[i] /\ (i # 0 => g[i - 1] = v[i - 1])
          BY <4>2
        <5> HIDE DEF Next1, g
        <5> QED
          BY <5>1, <5>2
      <4> QED
        BY <4>1, <4>2
    <3> HIDE DEF g, Next1
    <3> QED
      BY <3>1, <3>2
  <2> HIDE DEF Upto
  <2> QED
    BY <2>3
<1>3. Len(field) \in T
  <2> HIDE DEF T
  <2> QED
    BY <1>1, <1>2, Induction
<1>4. PICK v : Upto(Len(field), v)
  <2> HIDE DEF Upto
  <2> QED
    BY <1>3
<1>5. v = FieldBody(field, v)
  <2>1. v = [i \in 0..Len(field) |-> v[i]]
    BY <1>4
  <2> QED
    BY <1>4, <2>1, Zenon DEF FieldBody
<1> DEFINE f == FieldFun(field)
<1>6. f = FieldBody(field, f)
  BY <1>5 DEF FieldFun
<1> HIDE DEF f
<1>7. f = [i \in 0..Len(field) |->
            IF i = 0 THEN <<0, 1>>
            ELSE <<f[i - 1][1] + (field[i] % Radix) * f[i - 1][2], f[i - 1][2] * Radix>>]
  BY <1>6, Zenon DEF FieldBody
<1> DEFINE S == {n \in Nat : n <= Len(field) => f[n] \in P}
<1>8. 0 \in S
  <2>1. 0 \in 0..Len(field)
    OBVIOUS
  <2>2. f[0] = <<0, 1>>
    BY <1>7, <2>1, Zenon
  <2>3. f[0] \in P
    <3>1. <<0, 1>> \in P
      OBVIOUS
    <3> HIDE DEF P
    <3> QED
      BY <2>2, <3>1
  <2> HIDE DEF P
  <2> QED
    BY <2>3
<1>9. ASSUME NEW n \in Nat, n \in S PROVE n + 1 \in S
  <2> SUFFICES ASSUME n + 1 <= Len(field) PROVE f[n + 1] \in P
    OBVIOUS
  <2>1. n + 1 \in 0..Len(field) /\ n + 1 # 0 /\ (n + 1) - 1 = n /\ n + 1 \in 1..Len(field)
        /\ n <= Len(field)
    OBVIOUS
  <2>2. f[n + 1] = Next1(n + 1, f[(n + 1) - 1])
    BY <1>7, <2>1, Zenon
  <2>3. f[n] \in P
    BY <1>9, <2>1
  <2> HIDE DEF Next1
  <2> QED
    BY <1>0, <2>1, <2>2, <2>3
<1>10. Len(field) \in S
  <2> HIDE DEF S
  <2> QED
    BY <1>8, <1>9, Induction
<1>11. f[Len(field)] \in P
  BY <1>10
<1> QED
  BY <1>11 DEF f, FieldValue

\* The length field of a packet does not change when more bytes arrive.
VlqEnds(b) == {i \in 1..MaxVlq : i < Len(b) /\ b[i + 1] < Radix}

LEMMA VlqLenIs ==
    ASSUME NEW b
    PROVE  VlqLen(b) = IF VlqEnds(b) = {} THEN 0 ELSE Min(VlqEnds(b))
  BY DEF VlqLen, VlqEnds

LEMMA VlqLenType ==
    ASSUME NEW b \in Seq(Bytes)
    PROVE  /\ VlqLen(b) \in Nat
           /\ VlqLen(b) > 0 => /\ VlqLen(b) \in VlqEnds(b) /\ VlqLen(b) < Len(b)
                               /\ \A i \in VlqEnds(b) : VlqLen(b) <= i
<1> DEFINE E == VlqEnds(b)
<1>1. E \in SUBSET (1..MaxVlq) /\ MaxVlq \in Nat /\ \A i \in E : i < Len(b) /\ i \in Nat /\ i > 0
  BY DecoderAssumption DEF VlqEnds
<1>2. VlqLen(b) = IF E = {} THEN 0 ELSE Min(E)
  BY VlqLenIs
<1> HIDE DEF E
<1>3. E # {} => Min(E) \in E /\ \A i \in E : Min(E) <= i
  BY <1>1, MinIs
<1> QED
  BY <1>1, <1>2, <1>3 DEF E

LEMMA VlqLenStable ==
    ASSUME NEW b \in Seq(Bytes), NEW t \in Seq(Bytes), VlqLen(b) > 0
    PROVE  VlqLen(b \o t) = VlqLen(b)
<1> DEFINE n == VlqLen(b)
           m == VlqLen(b \o t)
<1>1. n \in Nat /\ n \in VlqEnds(b) /\ n < Len(b) /\ \A i \in VlqEnds(b) : n <= i
  BY VlqLenType
<1>2. b \o t \in Seq(Bytes)
  OBVIOUS
<1>3. n \in VlqEnds(b \o t)
  BY <1>1 DEF VlqEnds
<1>4. m \in VlqEnds(b \o t) /\ \A i \in VlqEnds(b \o t) : m <= i
  <2>1. VlqEnds(b \o t) \in SUBSET (1..MaxVlq) /\ MaxVlq \in Nat
    BY DecoderAssumption DEF VlqEnds
  <2>2. m = Min(VlqEnds(b \o t))
    BY <1>3, VlqLenIs
  <2> QED
    BY <1>3, <2>1, <2>2, MinIs
<1>5. m \in Nat /\ m <= n
  BY <1>1, <1>3, <1>4, DecoderAssumption DEF VlqEnds
<1>6. m \in VlqEnds(b)
  <2>1. m \in 1..MaxVlq /\ m < Len(b) /\ (b \o t)[m + 1] < Radix
    BY <1>1, <1>4, <1>5 DEF VlqEnds
  <2>2. (b \o t)[m + 1] = b[m + 1]
    BY <1>5, <2>1
  <2> QED
    BY <2>1, <2>2 DEF VlqEnds
<1> QED
  BY <1>1, <1>5, <1>6

LEMMA RemainingLengthType ==
    ASSUME NEW b \in Seq(Bytes), VlqLen(b) > 0
    PROVE  /\ LengthField(b) \in Seq(Bytes) /\ RemainingLength(b) \in Nat
           /\ \A t \in Seq(Bytes) : LengthField(b \o t) = LengthField(b)
<1>1. VlqLen(b) \in Nat /\ VlqLen(b) < Len(b) /\ Len(b) \in Nat
  BY VlqLenType
<1>2. LengthField(b) \in Seq(Bytes)
  <2> DEFINE n == VlqLen(b)
  <2>1. n \in Nat /\ n < Len(b) /\ n > 0
    BY <1>1
  <2> HIDE DEF n
  <2>2. SubSeq(b, 2, n + 1) \in Seq(Bytes)
    BY <2>1
  <2> QED
    BY <2>2 DEF n, LengthField
<1>3. RemainingLength(b) \in Nat
  BY <1>2, RemainingLengthIs, FieldValueType
<1>4. ASSUME NEW t \in Seq(Bytes) PROVE LengthField(b \o t) = LengthField(b)
  <2>1. VlqLen(b \o t) = VlqLen(b)
    BY VlqLenStable
  <2> DEFINE n == VlqLen(b)
             u == SubSeq(b \o t, 2, n + 1)
             v == SubSeq(b, 2, n + 1)
  <2>2. n \in Nat /\ n < Len(b) /\ n > 0
    BY <1>1
  <2> HIDE DEF n
  <2>3. u \in Seq(Bytes) /\ Len(u) = n /\ \A i \in 1..n : u[i] = (b \o t)[i + 1]
    BY <2>2
  <2>4. v \in Seq(Bytes) /\ Len(v) = n /\ \A i \in 1..n : v[i] = b[i + 1]
    BY <2>2
  <2>5. \A i \in 1..n : (b \o t)[i + 1] = b[i + 1]
    BY <2>2
  <2> HIDE DEF u, v
  <2>6. u = v
    BY <2>2, <2>3, <2>4, <2>5
  <2> QED
    BY <2>1, <2>6 DEF u, v, n, LengthField
<1> QED
  BY <1>2, <1>3, <1>4

LEMMA MqttStable ==
    ASSUME NEW b \in Seq(Bytes)
    PROVE  /\ ParseMqtt(b) \in Nat /\ ParseMqtt(b) <= Len(b)
           /\ ParseMqtt(b) > 0 => \A t \in Seq(Bytes) : ParseMqtt(b \o t) = ParseMqtt(b)
<1>1. CASE ~(Len(b) >= 2 /\ Whole(b) /\ BodyFits(b))
  <2>1. ParseMqtt(b) = 0
    BY <1>1 DEF ParseMqtt
  <2> QED
    BY <2>1
<1>2. CASE Len(b) >= 2 /\ Whole(b) /\ BodyFits(b)
  <2> DEFINE n == VlqLen(b)
             r == RemainingLength(b)
  <2>1. n > 0 /\ 1 + n + r <= Len(b) /\ (b[1] = 1 => r >= MinBody) /\ ParseMqtt(b) = 1 + n + r
    BY <1>2 DEF Whole, BodyFits, MqttTotal, ParseMqtt
  <2>2. n \in Nat /\ r \in Nat
    BY <2>1, VlqLenType, RemainingLengthType
  <2>3. ASSUME NEW t \in Seq(Bytes) PROVE ParseMqtt(b \o t) = 1 + n + r
    <3>1. VlqLen(b \o t) = n
      BY <2>1, VlqLenStable
    <3>2. RemainingLength(b \o t) = r
      <4>1. LengthField(b \o t) = LengthField(b)
        BY <2>1, RemainingLengthType
      <4> QED
        BY <4>1, RemainingLengthIs
    <3>3. (b \o t)[1] = b[1] /\ Len(b \o t) = Len(b) + Len(t) /\ Len(t) \in Nat /\ Len(b) \in Nat
      BY <1>2
    <3> HIDE DEF n, r
    <3>4. Len(b \o t) >= 2 /\ Whole(b \o t) /\ BodyFits(b \o t) /\ MqttTotal(b \o t) = 1 + n + r
      <4>1. MqttTotal(b \o t) = 1 + n + r
        BY <3>1, <3>2 DEF MqttTotal
      <4>2. Len(b \o t) >= 2 /\ 1 + n + r <= Len(b \o t)
        BY <1>2, <2>1, <2>2, <3>3
      <4>3. BodyFits(b \o t)
        BY <2>1, <3>2, <3>3 DEF BodyFits
      <4> QED
        BY <2>1, <3>1, <4>1, <4>2, <4>3 DEF Whole
    <3> QED
      BY <3>4 DEF ParseMqtt
  <2> HIDE DEF n, r
  <2> QED
    BY <2>1, <2>2, <2>3
<1> QED
  BY <1>1, <1>2

LEMMA ModbusStable ==
    ASSUME NEW b \in Seq(Bytes)
    PROVE  /\ ParseModbus(b) \in Nat /\ ParseModbus(b) <= Len(b)
           /\ ParseModbus(b) > 0 => \A t \in Seq(Bytes) : ParseModbus(b \o t) = ParseModbus(b)
<1>1. Len(b) >= 4 => b[2] \in Nat
  BY DecoderAssumption DEF Bytes
<1>2. Len(b) \in Nat
  OBVIOUS
<1>3. ParseModbus(b) = IF Len(b) < 4 THEN 0 ELSE IF b[2] < 2 \/ Len(b) < 2 + b[2] THEN 0 ELSE 2 + b[2]
  BY DEF ParseModbus, MbapPrefix
<1>4. ASSUME ParseModbus(b) > 0, NEW t \in Seq(Bytes) PROVE ParseModbus(b \o t) = ParseModbus(b)
  <2>1. Len(b) >= 4 /\ b[2] >= 2 /\ Len(b) >= 2 + b[2] /\ b[2] \in Nat
    BY <1>1, <1>2, <1>3, <1>4
  <2>2. (b \o t)[2] = b[2] /\ Len(b \o t) = Len(b) + Len(t) /\ Len(t) \in Nat
    BY <1>2, <2>1
  <2>3. Len(b \o t) >= 4 /\ Len(b \o t) >= 2 + b[2]
    BY <1>2, <2>1, <2>2
  <2>4. ParseModbus(b \o t) = 2 + b[2]
    BY <2>1, <2>2, <2>3 DEF ParseModbus, MbapPrefix
  <2> QED
    BY <1>2, <1>3, <2>1, <2>4
<1> QED
  BY <1>1, <1>2, <1>3, <1>4

\* A packet found at the head of b is within b, and is found there whatever follows it.
LEMMA ParseStable ==
    ASSUME NEW p, NEW b \in Seq(Bytes)
    PROVE  /\ ParseAs(p, b) \in Nat /\ ParseAs(p, b) <= Len(b)
           /\ ParseAs(p, b) > 0 => \A t \in Seq(Bytes) : ParseAs(p, b \o t) = ParseAs(p, b)
<1>1. CASE p = "modbus"
  <2>1. \A c : ParseAs(p, c) = ParseModbus(c)
    BY <1>1 DEF ParseAs
  <2> QED
    BY <2>1, ModbusStable
<1>2. CASE p # "modbus"
  <2>1. \A c : ParseAs(p, c) = IF Len(c) >= 2 /\ c[1] \in ValidTypes THEN ParseMqtt(c) ELSE 0
    BY <1>2 DEF ParseAs
  <2>2. CASE Len(b) >= 2 /\ b[1] \in ValidTypes
    <3>1. ParseAs(p, b) = ParseMqtt(b)
      BY <2>1, <2>2
    <3>2. ASSUME NEW t \in Seq(Bytes) PROVE ParseAs(p, b \o t) = ParseMqtt(b \o t)
      <4>1. Len(b \o t) >= 2 /\ (b \o t)[1] = b[1]
        BY <2>2
      <4> QED
        BY <2>1, <2>2, <4>1
    <3> QED
      BY <3>1, <3>2, MqttStable
  <2>3. CASE ~(Len(b) >= 2 /\ b[1] \in ValidTypes)
    <3>1. ParseAs(p, b) = 0
      BY <2>1, <2>3
    <3> QED
      BY <3>1
  <2> QED
    BY <2>2, <2>3
<1> QED
  BY <1>1, <1>2

\* A packet found is no garbage to skip, and garbage stays garbage when more bytes arrive.
SkippableAs(p, b) == p # "modbus" /\ Len(b) >= 2 /\ b[1] \notin ValidTypes

LEMMA SkippableStable ==
    ASSUME NEW p, NEW b \in Seq(Bytes)
    PROVE  /\ ParseAs(p, b) > 0 => ~SkippableAs(p, b) /\ b # <<>>
           /\ SkippableAs(p, b) => \A t \in Seq(Bytes) : SkippableAs(p, b \o t) /\ (b \o t)[1] = b[1]
<1>1. ASSUME ParseAs(p, b) > 0 PROVE ~SkippableAs(p, b) /\ b # <<>>
  <2>1. b # <<>>
    <3>1. ParseAs(p, b) \in Nat /\ ParseAs(p, b) <= Len(b)
      BY ParseStable
    <3> QED
      BY <1>1, <3>1
  <2>2. ~SkippableAs(p, b)
    BY <1>1 DEF SkippableAs, ParseAs
  <2> QED
    BY <2>1, <2>2
<1>2. ASSUME SkippableAs(p, b), NEW t \in Seq(Bytes) PROVE SkippableAs(p, b \o t) /\ (b \o t)[1] = b[1]
  <2>1. Len(b \o t) >= 2 /\ (b \o t)[1] = b[1]
    BY <1>2 DEF SkippableAs
  <2> QED
    BY <1>2, <2>1 DEF SkippableAs
<1> QED
  BY <1>1, <1>2

LEMMA ByState ==
    /\ \A b : Parse(b) = ParseAs(proto, b)
    /\ \A b : Skippable(b) <=> SkippableAs(proto, b)
  BY DEF Parse, Skippable, SkippableAs

---------------------------------------------------------------------------
(* From parse_buf to the packets emitted. *)

\* The loops stop only where nothing can be parsed or skipped; what was parsed and what is
\* left in parse_buf is what arrived, and the packets emitted are those sent.
ParserInv ==
    /\ frames \in Seq(Seq(Bytes)) /\ parse_buf \in Seq(Bytes)
    /\ pc # "parse" => ~SkippableAs(proto, parse_buf) /\ ParseAs(proto, parse_buf) = 0
    /\ ~late => /\ FlattenSeq(frames) \o parse_buf = seen
                /\ \E rest \in Seq(Seq(Bytes)) : packets = frames \o rest

LEMMA InitParser == Init => ParserInv
<1> SUFFICES ASSUME Init PROVE ParserInv
  OBVIOUS
<1>1. frames = <<>> /\ parse_buf = <<>> /\ seen = <<>>
  BY DEF Init
<1>2. ~SkippableAs(proto, <<>>) /\ ParseAs(proto, <<>>) = 0
  BY DEF SkippableAs, ParseAs, ParseModbus, MbapPrefix
<1>3. packets \in Seq(Seq(Bytes)) /\ packets = <<>> \o packets
  <2>1. StreamInv
    BY InitStream
  <2>2. packets \in Seq(Seq(Bytes))
    BY <2>1, AppType DEF StreamInv
  <2> QED
    BY <2>2
<1>4. FlattenSeq(<<>>) \o <<>> = <<>>
  BY FlattenEmpty
<1>5. <<>> \in Seq(Seq(Bytes)) /\ <<>> \in Seq(Bytes)
  OBVIOUS
<1> QED
  BY <1>1, <1>2, <1>3, <1>4, <1>5 DEF ParserInv

LEMMA FramesAppend ==
    \A s \in Seq(Seq(Bytes)), x \in Seq(Bytes) :
       <<x>> \in Seq(Seq(Bytes)) /\ Append(s, x) = s \o <<x>>
  OBVIOUS

LEMMA BytesEq ==
    ASSUME NEW u \in Seq(Bytes), NEW v \in Seq(Bytes), Len(u) = Len(v),
           \A i \in 1..Len(v) : u[i] = v[i]
    PROVE  u = v
  OBVIOUS

\* What has arrived is a beginning of what was sent.
LEMMA SeenIsPrefix ==
    ASSUME StreamInv, ~late
    PROVE  \E w \in Seq(Bytes) : seen \o w = App
<1>1. /\ App \in Seq(Bytes) /\ seen \in Seq(Bytes) /\ out \in Seq(Bytes) /\ fragments \in Seq(Bytes)
      /\ line \in Seq(Tokens) /\ framed \in 0..Len(App) /\ dir \in {"s2c", "c2s"}
  BY AppType DEF StreamInv, BaseInv
<1>2. CASE seen = <<>>
  BY <1>1, <1>2, EmptyConcat
<1>3. CASE proto # "mqtt-ws"
  <2>1. AllBytes(line) /\ seen \o Values(line) = App
    BY <1>3 DEF StreamInv, PlainInv
  <2>2. Values(line) \in Seq(Bytes)
    BY <1>1, <2>1, ValuesType
  <2> QED
    BY <2>1, <2>2
<1>4. CASE proto = "mqtt-ws" /\ dir = "s2c"
  <2>1. PICK rest, a : Opened(rest, a)
    BY <1>4 DEF StreamInv, OpenInv
  <2>2. /\ Data(rest) \in Seq(Bytes)
        /\ ((seen \o out) \o fragments) \o Data(rest) = SubSeq(App, 1, framed)
    BY <2>1, FramedIs, DataType DEF Opened
  <2> DEFINE tail == SubSeq(App, framed + 1, Len(App))
  <2>3. tail \in Seq(Bytes) /\ SubSeq(App, 1, framed) \o tail = App
    BY <1>1, Cut
  <2> HIDE DEF tail
  <2>5. \A x \in Seq(Bytes), y \in Seq(Bytes) : x \o y \in Seq(Bytes)
    OBVIOUS
  <2> DEFINE v == out \o fragments
             w == v \o Data(rest)
  <2>6. v \in Seq(Bytes) /\ (seen \o out) \o fragments = seen \o v
    BY <1>1, BytesAssoc, <2>5
  <2> HIDE DEF v
  <2>7. w \in Seq(Bytes) /\ (seen \o v) \o Data(rest) = seen \o w
    <3>1. seen \in Seq(Bytes) /\ v \in Seq(Bytes) /\ Data(rest) \in Seq(Bytes)
      BY <1>1, <2>2, <2>6
    <3> QED
      BY BytesAssoc, <2>5, <3>1
  <2> HIDE DEF w
  <2>8. (seen \o w) \o tail = seen \o (w \o tail) /\ w \o tail \in Seq(Bytes)
    <3>1. seen \in Seq(Bytes) /\ w \in Seq(Bytes) /\ tail \in Seq(Bytes)
      BY <1>1, <2>3, <2>7
    <3> QED
      BY BytesAssoc, <2>5, <3>1
  <2> QED
    BY <2>2, <2>3, <2>6, <2>7, <2>8
<1>5. CASE proto = "mqtt-ws" /\ dir = "c2s"
  <2>1. seen = <<>>
    BY <1>5 DEF StreamInv, ClosedInv
  <2> QED
    BY <1>2, <2>1
<1> QED
  BY <1>1, <1>3, <1>4, <1>5

\* Two sequences that begin the same sequence.
LEMMA BothBegin ==
    ASSUME NEW x \in Seq(Bytes), NEW u \in Seq(Bytes), NEW v \in Seq(Bytes), x \o u = x \o v
    PROVE  u = v
<1>1. Len(u) = Len(v)
  <2>1. Len(x \o u) = Len(x) + Len(u) /\ Len(x \o v) = Len(x) + Len(v)
    OBVIOUS
  <2>2. Len(x) \in Nat /\ Len(u) \in Nat /\ Len(v) \in Nat
    OBVIOUS
  <2> QED
    BY <2>1, <2>2
<1>2. ASSUME NEW i \in 1..Len(u) PROVE u[i] = v[i]
  <2>1. (x \o u)[Len(x) + i] = u[i]
    OBVIOUS
  <2>2. (x \o v)[Len(x) + i] = v[i]
    BY <1>1
  <2> QED
    BY <2>1, <2>2
<1> QED
  BY <1>1, <1>2

\* The next packet: if parse_buf is not exhausted before it, the parser finds it exactly.
LEMMA NextPacket ==
    ASSUME NEW p \in Protocols, NEW k \in Packets[p], NEW b \in Seq(Bytes), NEW w \in Seq(Bytes),
           NEW r \in Seq(Bytes), b \o w = k \o r
    PROVE  /\ ~SkippableAs(p, b)
           /\ ParseAs(p, b) > 0 => ParseAs(p, b) = Len(k) /\ SubSeq(b, 1, Len(k)) = k
           /\ ParseAs(p, b) = 0 => Len(b) < Len(k)
<1>1. k \in Seq(Bytes) /\ Len(k) > 0 /\ ParseAs(p, k) = Len(k)
  BY PacketsAssumption
<1>2. ParseAs(p, k \o r) = Len(k) /\ ~SkippableAs(p, k \o r)
  <2>1. ParseAs(p, k \o r) = Len(k) /\ k \o r \in Seq(Bytes)
    BY <1>1, ParseStable
  <2> QED
    BY <1>1, <2>1, SkippableStable
<1>3. ~SkippableAs(p, b)
  <2>1. SkippableAs(p, b) => SkippableAs(p, b \o w)
    BY SkippableStable
  <2> QED
    BY <1>2, <2>1
<1>4. ASSUME ParseAs(p, b) > 0 PROVE ParseAs(p, b) = Len(k) /\ SubSeq(b, 1, Len(k)) = k
  <2>1. ParseAs(p, b \o w) = ParseAs(p, b) /\ ParseAs(p, b) <= Len(b)
    BY <1>4, ParseStable
  <2>2. ParseAs(p, b) = Len(k) /\ Len(k) <= Len(b)
    BY <1>2, <2>1
  <2>3. SubSeq(b, 1, Len(k)) = k
    <3> DEFINE u == SubSeq(b, 1, Len(k))
    <3>1. u \in Seq(Bytes) /\ Len(u) = Len(k) /\ \A i \in 1..Len(k) : u[i] = b[i]
      BY <1>1, <2>2
    <3>2. ASSUME NEW i \in 1..Len(k) PROVE b[i] = k[i]
      <4>1. i \in 1..Len(b)
        BY <1>1, <2>2
      <4>2. (b \o w)[i] = b[i]
        BY <4>1
      <4>3. (k \o r)[i] = k[i]
        BY <1>1
      <4> QED
        BY <4>2, <4>3
    <3> HIDE DEF u
    <3>4. u \in Seq(Bytes) /\ k \in Seq(Bytes) /\ Len(u) = Len(k) /\ \A i \in 1..Len(k) : u[i] = k[i]
      BY <1>1, <3>1, <3>2, Zenon
    <3>3. u = k
      BY <3>4, BytesEq, Zenon
    <3> QED
      BY <3>3 DEF u
  <2> QED
    BY <2>2, <2>3
<1>5. ASSUME ParseAs(p, b) = 0 PROVE Len(b) < Len(k)
  <2> SUFFICES ASSUME ~(Len(b) < Len(k)) PROVE FALSE
    OBVIOUS
  <2>1. Len(k) \in 0..Len(b) /\ Len(b) \in Nat
    BY <1>1
  <2> DEFINE u == SubSeq(b, 1, Len(k))
             v == SubSeq(b, Len(k) + 1, Len(b))
  <2>2. u \in Seq(Bytes) /\ v \in Seq(Bytes) /\ u \o v = b /\ Len(u) = Len(k)
        /\ \A i \in 1..Len(k) : u[i] = b[i]
    BY <2>1, Cut
  <2>3. ASSUME NEW i \in 1..Len(k) PROVE b[i] = k[i]
    <3>1. i \in 1..Len(b)
      BY <2>1
    <3>2. (b \o w)[i] = b[i]
      BY <3>1
    <3>3. (k \o r)[i] = k[i]
      BY <1>1
    <3> QED
      BY <3>2, <3>3
  <2> HIDE DEF u, v
  <2>6. u \in Seq(Bytes) /\ k \in Seq(Bytes) /\ Len(u) = Len(k) /\ \A i \in 1..Len(k) : u[i] = k[i]
    BY <1>1, <2>2, <2>3, Zenon
  <2>4. u = k
    BY <2>6, BytesEq, Zenon
  <2>5. ParseAs(p, k \o v) = Len(k)
    BY <1>1, <2>2, ParseStable
  <2>7. k \o v = b
    BY <2>2, <2>4, Zenon
  <2>8. Len(k) = 0
    BY <1>5, <2>5, <2>7, Zenon
  <2>9. Len(k) > 0
    BY <1>1, Zenon
  <2> QED
    BY <2>8, <2>9
<1> QED
  BY <1>3, <1>4, <1>5, ParseStable

\* The packet that parse_buf begins with, k, and the packets after it, ks; w and r are bytes
\* still to come.
Upcoming(k, ks, w, r) ==
    /\ k \in Packets[proto] /\ k \in Seq(Bytes) /\ ks \in Seq(Seq(Bytes))
    /\ w \in Seq(Bytes) /\ r \in Seq(Bytes)
    /\ parse_buf \o w = k \o r /\ packets = Append(frames, k) \o ks

LEMMA NextIsUpcoming ==
    ASSUME StreamInv, ParserInv, ~late, parse_buf # <<>> \/ frames # packets
    PROVE  \E k, ks, w, r : Upcoming(k, ks, w, r)
<1>1. PICK w \in Seq(Bytes) : seen \o w = App
  BY SeenIsPrefix
<1>2. /\ frames \in Seq(Seq(Bytes)) /\ parse_buf \in Seq(Bytes) /\ FlattenSeq(frames) \o parse_buf = seen
  BY DEF ParserInv
<1>3. PICK rest \in Seq(Seq(Bytes)) : packets = frames \o rest
  BY DEF ParserInv
<1>4. FlattenSeq(frames) \in Seq(Bytes) /\ FlattenSeq(rest) \in Seq(Bytes)
  BY <1>2, FlattenType
<1>5. parse_buf \o w = FlattenSeq(rest)
  <2>1. App = FlattenSeq(frames) \o FlattenSeq(rest)
    BY <1>2, <1>3, FlattenConcat DEF App
  <2>2. (FlattenSeq(frames) \o parse_buf) \o w = FlattenSeq(frames) \o (parse_buf \o w)
    <3> QED
      BY <1>2, <1>4, BytesAssoc
  <2>3. FlattenSeq(frames) \o (parse_buf \o w) = FlattenSeq(frames) \o FlattenSeq(rest)
    BY <1>1, <1>2, <2>1, <2>2
  <2>4. parse_buf \o w \in Seq(Bytes)
    BY <1>2
  <2> QED
    BY <1>4, <2>3, <2>4, BothBegin
<1>6. rest # <<>>
  <2> SUFFICES ASSUME rest = <<>> PROVE FALSE
    OBVIOUS
  <2>1. parse_buf \o w = <<>>
    BY <1>5, FlattenEmpty
  <2>2. parse_buf = <<>>
    <3>1. Len(parse_buf \o w) = Len(parse_buf) + Len(w) /\ Len(parse_buf) \in Nat /\ Len(w) \in Nat
      BY <1>2
    <3>2. Len(parse_buf) = 0
      BY <2>1, <3>1
    <3> QED
      BY <1>2, <3>2
  <2>3. frames \o <<>> = frames
    BY <1>2
  <2> QED
    BY <1>3, <2>2, <2>3
<1> DEFINE k == Head(rest)
           ks == Tail(rest)
<1>7. k \in Seq(Bytes) /\ ks \in Seq(Seq(Bytes)) /\ k = rest[1] /\ Len(rest) \in Nat /\ Len(rest) >= 1
  BY <1>6
<1>8. FlattenSeq(rest) = k \o FlattenSeq(ks) /\ FlattenSeq(ks) \in Seq(Bytes)
  BY <1>6, <1>7, FlattenHead, FlattenType
<1>9. packets = Append(frames, k) \o ks
  <2>1. rest = <<k>> \o ks
    BY <1>6
  <2>2. frames \o (<<k>> \o ks) = Append(frames, k) \o ks
    <3> HIDE DEF k, ks
    <3>1. <<k>> \in Seq(Seq(Bytes)) /\ Append(frames, k) = frames \o <<k>>
      BY <1>2, <1>7
    <3>2. \A x \in Seq(Seq(Bytes)), y \in Seq(Seq(Bytes)), z \in Seq(Seq(Bytes)) :
             (x \o y) \o z = x \o (y \o z)
      OBVIOUS
    <3>3. (frames \o <<k>>) \o ks = frames \o (<<k>> \o ks)
      BY <1>2, <1>7, <3>1, <3>2
    <3> QED
      BY <3>1, <3>3
  <2> QED
    BY <1>3, <2>1, <2>2
<1>10. k \in Packets[proto]
  <2>1. packets \in Seq(Packets[proto]) /\ Len(frames) \in Nat
    BY <1>2 DEF StreamInv, BaseInv
  <2>2. Len(frames) + 1 \in 1..Len(packets)
    <3>1. Len(packets) = Len(frames) + Len(rest)
      BY <1>2, <1>3
    <3> QED
      BY <1>7, <2>1, <3>1
  <2>3. packets[Len(frames) + 1] = rest[1]
    BY <1>2, <1>3, <1>7
  <2> QED
    BY <1>7, <2>1, <2>2, <2>3
<1>11. Upcoming(k, ks, w, FlattenSeq(ks))
  <2> HIDE DEF k, ks
  <2> QED
    BY <1>5, <1>7, <1>8, <1>9, <1>10 DEF Upcoming
<1> QED
  BY <1>11

LEMMA ParserStutter ==
    ASSUME ParserInv, UNCHANGED <<proto, packets, parse_buf, frames, seen>>, ~late' => ~late,
           pc' # "parse" => pc # "parse"
    PROVE  ParserInv'
  BY DEF ParserInv

\* Bytes arrive in parse_buf.
LEMMA ParserFed ==
    ASSUME ParserInv, NEW x \in Seq(Bytes), parse_buf' = parse_buf \o x, seen' = seen \o x,
           UNCHANGED <<proto, packets, late, frames>>,
           pc' = "parse" \/ (pc # "parse" /\ x = <<>>)
    PROVE  ParserInv'
<1>1. frames' \in Seq(Seq(Bytes)) /\ parse_buf' \in Seq(Bytes)
  BY DEF ParserInv
<1>2. pc' # "parse" => ~SkippableAs(proto, parse_buf') /\ ParseAs(proto, parse_buf') = 0
  <2>1. parse_buf \o <<>> = parse_buf
    BY DEF ParserInv
  <2> QED
    BY <2>1 DEF ParserInv
<1>3. ASSUME ~late PROVE FlattenSeq(frames) \o parse_buf' = seen'
  <2>1. FlattenSeq(frames) \o parse_buf = seen /\ parse_buf \in Seq(Bytes) /\ FlattenSeq(frames) \in Seq(Bytes)
    BY <1>3, FlattenType DEF ParserInv
  <2>3. (FlattenSeq(frames) \o parse_buf) \o x = FlattenSeq(frames) \o (parse_buf \o x)
    BY <2>1, BytesAssoc
  <2> QED
    BY <2>1, <2>3
<1> QED
  BY <1>1, <1>2, <1>3 DEF ParserInv

LEMMA ParserEmits ==
    ASSUME StreamInv, ParserInv, EmitPacket
    PROVE  ParserInv'
<1> DEFINE n == ParseAs(proto, parse_buf)
           f == SubSeq(parse_buf, 1, n)
<1>1. /\ pc = "parse" /\ pc' = "parse" /\ n > 0 /\ frames' = Append(frames, f)
      /\ parse_buf' = SubSeq(parse_buf, n + 1, Len(parse_buf))
      /\ UNCHANGED <<proto, packets, late, seen>>
  BY ByState DEF EmitPacket, sender
<1>2. /\ frames \in Seq(Seq(Bytes)) /\ parse_buf \in Seq(Bytes)
      /\ n \in 0..Len(parse_buf)
  <2>1. frames \in Seq(Seq(Bytes)) /\ parse_buf \in Seq(Bytes)
    BY DEF ParserInv
  <2>2. n \in Nat /\ n <= Len(parse_buf)
    BY <2>1, ParseStable
  <2> HIDE DEF n
  <2> QED
    BY <2>1, <2>2
<1> HIDE DEF n
<1>3. f \in Seq(Bytes) /\ parse_buf' \in Seq(Bytes) /\ f \o parse_buf' = parse_buf
  BY <1>1, <1>2, Cut
<1> HIDE DEF f
<1>4. frames' \in Seq(Seq(Bytes))
  BY <1>1, <1>2, <1>3
<1>5. ASSUME ~late
      PROVE  /\ FlattenSeq(frames') \o parse_buf' = seen
             /\ \E rest \in Seq(Seq(Bytes)) : packets = frames' \o rest
  <2>1. FlattenSeq(frames) \o parse_buf = seen /\ FlattenSeq(frames) \in Seq(Bytes)
    BY <1>2, <1>5, FlattenType DEF ParserInv
  <2>2. FlattenSeq(frames') = FlattenSeq(frames) \o f
    BY <1>1, <1>2, <1>3, FlattenAppend
  <2>3. (FlattenSeq(frames) \o f) \o parse_buf' = FlattenSeq(frames) \o (f \o parse_buf')
    <3> QED
      BY <1>3, <2>1, BytesAssoc
  <2>4. parse_buf # <<>>
    BY <1>1, <1>2
  <2>5. PICK k, ks, w, r : Upcoming(k, ks, w, r)
    BY <1>5, <2>4, NextIsUpcoming
  <2>6. /\ proto \in Protocols /\ k \in Packets[proto] /\ w \in Seq(Bytes) /\ r \in Seq(Bytes)
        /\ parse_buf \o w = k \o r /\ packets = Append(frames, k) \o ks /\ ks \in Seq(Seq(Bytes))
    BY <2>5 DEF Upcoming, StreamInv, BaseInv
  <2>7. ParseAs(proto, parse_buf) = Len(k) /\ SubSeq(parse_buf, 1, Len(k)) = k
    <3>1. ParseAs(proto, parse_buf) > 0
      BY <1>1 DEF n
    <3> QED
      BY <1>2, <2>6, <3>1, NextPacket
  <2>8. f = k
    BY <2>7 DEF f, n
  <2> QED
    BY <1>1, <2>1, <2>2, <2>3, <1>3, <2>6, <2>8
<1> QED
  BY <1>1, <1>3, <1>4, <1>5 DEF ParserInv

LEMMA ParserSkips ==
    ASSUME StreamInv, ParserInv, SkipByte
    PROVE  ParserInv'
<1>1. /\ pc' = "parse" /\ SkippableAs(proto, parse_buf) /\ parse_buf' = Tail(parse_buf)
      /\ UNCHANGED <<proto, packets, late, frames>>
  BY ByState DEF SkipByte, sender
<1>2. parse_buf \in Seq(Bytes) /\ parse_buf # <<>>
  BY <1>1 DEF ParserInv, SkippableAs
<1>3. parse_buf' \in Seq(Bytes)
  BY <1>1, <1>2
<1>4. late
  <2> SUFFICES ASSUME ~late PROVE FALSE
    OBVIOUS
  <2>1. PICK k, ks, w, r : Upcoming(k, ks, w, r)
    BY <1>2, NextIsUpcoming
  <2>2. /\ proto \in Protocols /\ k \in Packets[proto] /\ w \in Seq(Bytes) /\ r \in Seq(Bytes)
        /\ parse_buf \o w = k \o r
    BY <2>1 DEF Upcoming, StreamInv, BaseInv
  <2> QED
    BY <1>1, <1>2, <2>2, NextPacket
<1> QED
  BY <1>1, <1>3, <1>4 DEF ParserInv

LEMMA ParserStep == StreamInv /\ ParserInv /\ [Next]_vars => ParserInv'
<1> SUFFICES ASSUME StreamInv, ParserInv, [Next]_vars PROVE ParserInv'
  OBVIOUS
<1>1. ASSUME NEW n \in 0..Len(App), NEW fin \in BOOLEAN, SendFrame(n, fin) PROVE ParserInv'
  BY <1>1, ParserStutter DEF SendFrame, parser
<1>2. CASE SendPing
  BY <1>2, ParserStutter DEF SendPing, parser
<1>3. ASSUME NEW j \in IF LateJoin THEN 0..Len(line) - 1 ELSE {0}, Join(j) PROVE ParserInv'
  <2>1. pc = "wire" /\ ~late /\ UNCHANGED <<proto, packets, parse_buf, frames, seen>>
    BY <1>3 DEF Join, sender, parser, StreamInv, BaseInv
  <2> QED
    BY <2>1, ParserStutter
<1>4. ASSUME NEW k \in 1..Len(line), FeedParser(k) PROVE ParserInv'
  <2>1. PICK x : x = Values(SubSeq(line, 1, k))
    OBVIOUS
  <2>2. /\ parse_buf' = parse_buf \o x /\ seen' = seen \o x /\ pc' = "parse"
        /\ UNCHANGED <<proto, packets, late, frames>>
    BY <1>4, <2>1 DEF FeedParser, sender
  <2>3. x \in Seq(Bytes)
    <3>1. line \in Seq(Tokens) /\ AllBytes(line)
      BY <1>4 DEF FeedParser, StreamInv, BaseInv, PlainInv
    <3>2. SubSeq(line, 1, k) \in Seq(Tokens) /\ AllBytes(SubSeq(line, 1, k))
      BY <3>1, LineCut
    <3> QED
      BY <2>1, <3>2, ValuesType
  <2> QED
    BY <2>2, <2>3, ParserFed
<1>5. ASSUME NEW k \in 1..Len(line), FeedHandshake(k) PROVE ParserInv'
  <2>1. pc = "idle" /\ UNCHANGED <<proto, packets, late, parse_buf, frames, seen>>
    BY <1>5 DEF FeedHandshake, sender, parser
  <2> QED
    BY <2>1, ParserStutter
<1>6. ASSUME NEW k \in 1..Len(line), FeedFrames(k) PROVE ParserInv'
  <2>1. pc = "idle" /\ UNCHANGED <<proto, packets, late, parse_buf, frames, seen>>
    BY <1>6 DEF FeedFrames, sender, parser
  <2> QED
    BY <2>1, ParserStutter
<1>7. CASE UnmaskFrame
  <2>1. pc' = pc /\ UNCHANGED <<proto, packets, late, parse_buf, frames, seen>>
    BY <1>7 DEF UnmaskFrame, sender, parser
  <2> QED
    BY <2>1, ParserStutter
<1>8. CASE UnmaskDone
  <2>1. PICK x : x = out
    OBVIOUS
  <2>2. /\ x \in Seq(Bytes) /\ parse_buf' = parse_buf \o x /\ seen' = seen \o x
        /\ UNCHANGED <<proto, packets, late, frames>>
        /\ pc' = "parse" \/ (pc # "parse" /\ x = <<>>)
    BY <1>8, <2>1 DEF UnmaskDone, sender, StreamInv, BaseInv
  <2> QED
    BY <2>2, ParserFed
<1>9. CASE SkipByte
  BY <1>9, ParserSkips
<1>10. CASE EmitPacket
  BY <1>10, ParserEmits
<1>11. CASE ParseDone
  <2>1. /\ UNCHANGED <<proto, packets, late, parse_buf, frames, seen>>
        /\ ~SkippableAs(proto, parse_buf) /\ ParseAs(proto, parse_buf) = 0
    BY <1>11, ByState DEF ParseDone, Stuck, sender, parser
  <2> QED
    BY <2>1 DEF ParserInv
<1>12. CASE UNCHANGED vars
  <2>1. UNCHANGED <<proto, packets, late, parse_buf, frames, seen, pc>>
    BY <1>12 DEF vars, sender, parser
  <2> QED
    BY <2>1, ParserStutter
<1> QED
  BY <1>1, <1>2, <1>3, <1>4, <1>5, <1>6, <1>7, <1>8, <1>9, <1>10, <1>11, <1>12
  DEF Next, SendNext, Feed, DrainNext

LEMMA ParserIsExact == StreamInv /\ ParserInv => PacketsExact
<1> SUFFICES ASSUME StreamInv, ParserInv, ~late PROVE PacketsExact
  BY DEF PacketsExact
<1>1. /\ frames \in Seq(Seq(Bytes)) /\ parse_buf \in Seq(Bytes) /\ FlattenSeq(frames) \o parse_buf = seen
  BY DEF ParserInv
<1>2. PICK rest \in Seq(Seq(Bytes)) : packets = frames \o rest
  BY DEF ParserInv
<1>3. IsPrefix(frames, packets)
  <2>1. SubSeq(frames \o rest, 1, Len(frames)) = frames /\ SubSeq(frames, 1, Len(frames)) = frames
    BY <1>1
  <2>2. Len(frames) <= Len(packets)
    BY <1>1, <1>2
  <2> QED
    BY <1>2, <2>1, <2>2 DEF IsPrefix
<1>4. ASSUME pc = "idle", frames # packets
      PROVE  Len(seen) < Len(FlattenSeq(SubSeq(packets, 1, Len(frames) + 1)))
  <2>1. PICK k, ks, w, r : Upcoming(k, ks, w, r)
    BY <1>4, NextIsUpcoming
  <2>2. /\ proto \in Protocols /\ k \in Packets[proto] /\ k \in Seq(Bytes) /\ w \in Seq(Bytes)
        /\ r \in Seq(Bytes) /\ ks \in Seq(Seq(Bytes))
        /\ parse_buf \o w = k \o r /\ packets = Append(frames, k) \o ks
    BY <2>1 DEF Upcoming, StreamInv, BaseInv
  <2>3. Len(parse_buf) < Len(k)
    <3>1. ParseAs(proto, parse_buf) = 0
      BY <1>4 DEF ParserInv
    <3> QED
      BY <1>1, <2>2, <3>1, NextPacket
  <2>4. SubSeq(packets, 1, Len(frames) + 1) = Append(frames, k)
    <3> DEFINE fs == Append(frames, k)
    <3>1. fs \in Seq(Seq(Bytes)) /\ Len(fs) = Len(frames) + 1
      BY <1>1, <2>2
    <3> HIDE DEF fs
    <3>2. SubSeq(fs \o ks, 1, Len(fs)) = fs
      BY <2>2, <3>1, CutAt
    <3> QED
      BY <2>2, <3>1, <3>2 DEF fs
  <2>5. FlattenSeq(Append(frames, k)) = FlattenSeq(frames) \o k
    BY <1>1, <2>2, FlattenAppend
  <2>6. /\ FlattenSeq(frames) \in Seq(Bytes)
        /\ Len(FlattenSeq(frames) \o k) = Len(FlattenSeq(frames)) + Len(k)
        /\ Len(seen) = Len(FlattenSeq(frames)) + Len(parse_buf)
    <3>1. FlattenSeq(frames) \in Seq(Bytes)
      BY <1>1, FlattenType
    <3> QED
      BY <1>1, <2>2, <3>1
  <2>7. Len(FlattenSeq(frames)) \in Nat /\ Len(k) \in Nat /\ Len(parse_buf) \in Nat
    BY <1>1, <2>2, <2>6
  <2>8. Len(FlattenSeq(frames)) + Len(parse_buf) < Len(FlattenSeq(frames)) + Len(k)
    BY <2>3, <2>7
  <2>9. Len(FlattenSeq(SubSeq(packets, 1, Len(frames) + 1))) = Len(FlattenSeq(frames)) + Len(k)
    BY <2>4, <2>5, <2>6, Zenon
  <2> QED
    BY <2>6, <2>8, <2>9, Zenon
<1> QED
  BY <1>3, <1>4 DEF PacketsExact

\* PacketsExact: a flow captured from its start decodes to the packets that were sent, in
\* order, and between two chunks no packet that has arrived completely is held back.
THEOREM PacketsAreExact == Spec => []PacketsExact
<1>1. Init => StreamInv /\ ParserInv
  BY InitStream, InitParser
<1>2. StreamInv /\ ParserInv /\ [Next]_vars => StreamInv' /\ ParserInv'
  BY StreamStep, ParserStep
<1> QED
  BY <1>1, <1>2, ParserIsExact, PTL DEF Spec

---------------------------------------------------------------------------
(* Decoding everything in one go. *)

\* The recursion of Decoded, by name: what is decoded from the last n bytes of s, given what
\* is decoded from fewer.
LastOf(s, n) == SubSeq(s, Len(s) - n + 1, Len(s))

DecStep(p, r, n, d) ==
    IF p # "modbus" /\ n >= 2 /\ r[1] \notin ValidTypes THEN d[n - 1]
    ELSE IF ParseAs(p, r) = 0 THEN <<>>
    ELSE <<SubSeq(r, 1, ParseAs(p, r))>> \o d[n - ParseAs(p, r)]

DecBody(p, s, d) == [n \in 0..Len(s) |-> DecStep(p, LastOf(s, n), n, d)]

DecFun(p, s) == CHOOSE d : d = DecBody(p, s, d)

LEMMA DecodedIs == \A p, s : Decoded(p, s) = DecFun(p, s)[Len(s)]
  BY DEF Decoded, DecFun, DecBody, DecStep, LastOf

LEMMA LastOfType ==
    ASSUME NEW s \in Seq(Bytes), NEW n \in 0..Len(s)
    PROVE  /\ LastOf(s, n) \in Seq(Bytes) /\ Len(LastOf(s, n)) = n
           /\ n \in Nat
<1>1. Len(s) \in Nat /\ n \in Nat /\ n <= Len(s)
  OBVIOUS
<1> DEFINE m == Len(s) - n
<1>2. m \in 0..Len(s) /\ Len(s) - m = n
  BY <1>1
<1> HIDE DEF m
<1>3. SubSeq(s, m + 1, Len(s)) \in Seq(Bytes) /\ Len(SubSeq(s, m + 1, Len(s))) = Len(s) - m
  BY <1>2, Cut
<1> QED
  BY <1>1, <1>2, <1>3 DEF m, LastOf

\* A step looks only at what is decoded from fewer bytes.
LEMMA DecStepLocal ==
    ASSUME NEW p, NEW r \in Seq(Bytes), NEW n \in Nat, Len(r) = n, NEW d, NEW e,
           \A m \in 0..n - 1 : d[m] = e[m]
    PROVE  DecStep(p, r, n, d) = DecStep(p, r, n, e)
<1>1. ParseAs(p, r) \in Nat /\ ParseAs(p, r) <= n
  BY ParseStable
<1>2. n >= 2 => n - 1 \in 0..n - 1
  OBVIOUS
<1>3. ParseAs(p, r) # 0 => n - ParseAs(p, r) \in 0..n - 1
  BY <1>1
<1> QED
  BY <1>2, <1>3 DEF DecStep

LEMMA DecStepType ==
    ASSUME NEW p, NEW r \in Seq(Bytes), NEW n \in Nat, Len(r) = n, NEW d,
           \A m \in 0..n - 1 : d[m] \in Seq(Seq(Bytes))
    PROVE  DecStep(p, r, n, d) \in Seq(Seq(Bytes))
<1>1. ParseAs(p, r) \in Nat /\ ParseAs(p, r) <= n
  BY ParseStable
<1> DEFINE k == ParseAs(p, r)
<1>2. n >= 2 => d[n - 1] \in Seq(Seq(Bytes))
  OBVIOUS
<1>3. k # 0 => d[n - k] \in Seq(Seq(Bytes)) /\ SubSeq(r, 1, k) \in Seq(Bytes)
  <2>1. k # 0 => n - k \in 0..n - 1 /\ k \in 0..Len(r)
    BY <1>1
  <2> HIDE DEF k
  <2> QED
    BY <2>1, Cut
<1> HIDE DEF k
<1>4. k # 0 => <<SubSeq(r, 1, k)>> \o d[n - k] \in Seq(Seq(Bytes))
  <2> SUFFICES ASSUME k # 0 PROVE <<SubSeq(r, 1, k)>> \o d[n - k] \in Seq(Seq(Bytes))
    OBVIOUS
  <2> DEFINE x == SubSeq(r, 1, k)
             y == d[n - k]
  <2>1. x \in Seq(Bytes) /\ y \in Seq(Seq(Bytes))
    BY <1>3
  <2> HIDE DEF x, y
  <2>2. <<x>> \o y \in Seq(Seq(Bytes))
    BY <2>1
  <2> QED
    BY <2>2 DEF x, y
<1>5. <<>> \in Seq(Seq(Bytes))
  OBVIOUS
<1> QED
  BY <1>2, <1>4, <1>5 DEF DecStep, k

LEMMA DecExists ==
    ASSUME NEW p, NEW s \in Seq(Bytes)
    PROVE  \E d : d = DecBody(p, s, d) /\ d \in [0..Len(s) -> Seq(Seq(Bytes))]
<1> DEFINE V == Seq(Seq(Bytes))
           Upto(n, d) == /\ d \in [0..n -> V]
                         /\ \A i \in 0..n : d[i] = DecStep(p, LastOf(s, i), i, d)
           T == {n \in Nat : n <= Len(s) => \E d : Upto(n, d)}
<1>0. ASSUME NEW n \in Nat, n <= Len(s), NEW d \in [0..n - 1 -> V],
             \A i \in 0..n - 1 : d[i] = DecStep(p, LastOf(s, i), i, d)
      PROVE  \E e : Upto(n, e)
  <2> DEFINE x == DecStep(p, LastOf(s, n), n, d)
             e == [i \in 0..n |-> IF i < n THEN d[i] ELSE x]
  <2>1. LastOf(s, n) \in Seq(Bytes) /\ Len(LastOf(s, n)) = n
    <3>1. n \in 0..Len(s)
      BY <1>0
    <3> QED
      BY <3>1, LastOfType
  <2>2. x \in V
    <3>1. \A m \in 0..n - 1 : d[m] \in Seq(Seq(Bytes))
      OBVIOUS
    <3> QED
      BY <2>1, <3>1, DecStepType
  <2> HIDE DEF x, V
  <2>3. e \in [0..n -> V]
    BY <2>2
  <2>4. /\ \A i \in 0..n - 1 : e[i] = d[i]
        /\ e[n] = x
    OBVIOUS
  <2> HIDE DEF e
  <2>5. ASSUME NEW i \in 0..n PROVE e[i] = DecStep(p, LastOf(s, i), i, e)
    <3>1. DecStep(p, LastOf(s, i), i, e) = DecStep(p, LastOf(s, i), i, d)
      <4>1. i \in 0..Len(s) /\ i \in Nat
        BY <1>0
      <4>2. LastOf(s, i) \in Seq(Bytes) /\ Len(LastOf(s, i)) = i
        BY <4>1, LastOfType
      <4>3. \A m \in 0..i - 1 : e[m] = d[m]
        BY <2>4, <4>1
      <4> QED
        BY <4>1, <4>2, <4>3, DecStepLocal
    <3>2. CASE i = n
      BY <2>4, <3>1, <3>2 DEF x
    <3>3. CASE i \in 0..n - 1
      BY <1>0, <2>4, <3>1, <3>3
    <3>4. i = n \/ i \in 0..n - 1
      OBVIOUS
    <3> QED
      BY <3>2, <3>3, <3>4, Zenon
  <2>6. Upto(n, e)
    BY <2>3, <2>5, Zenon
  <2> QED
    BY <2>6, Zenon
<1>1. 0 \in T
  <2>1. [i \in 0..0 - 1 |-> <<>>] \in [0..0 - 1 -> V] /\ \A i \in 0..0 - 1 : FALSE
    OBVIOUS
  <2>2. 0 \in Nat /\ 0 <= Len(s)
    OBVIOUS
  <2> HIDE DEF Upto, V
  <2>3. \E d : Upto(0, d)
    BY <1>0, <2>1, <2>2
  <2> QED
    BY <2>3
<1>2. ASSUME NEW n \in Nat, n \in T PROVE n + 1 \in T
  <2> SUFFICES ASSUME n + 1 <= Len(s) PROVE \E d : Upto(n + 1, d)
    <3> HIDE DEF Upto
    <3> QED
      OBVIOUS
  <2>1. PICK d : Upto(n, d)
    <3>1. n <= Len(s)
      OBVIOUS
    <3> HIDE DEF Upto
    <3> QED
      BY <1>2, <3>1
  <2>2. (n + 1) - 1 = n /\ n + 1 \in Nat
    OBVIOUS
  <2>3. d \in [0..(n + 1) - 1 -> V] /\ \A i \in 0..(n + 1) - 1 : d[i] = DecStep(p, LastOf(s, i), i, d)
    BY <2>1, <2>2
  <2> HIDE DEF Upto, V
  <2> QED
    BY <1>0, <2>2, <2>3
<1>3. Len(s) \in T
  <2> HIDE DEF T
  <2> QED
    BY <1>1, <1>2, Induction
<1>4. PICK d : Upto(Len(s), d)
  <2> HIDE DEF Upto
  <2> QED
    BY <1>3
<1>5. d = DecBody(p, s, d)
  <2>1. d = [i \in 0..Len(s) |-> d[i]]
    BY <1>4
  <2>2. \A i \in 0..Len(s) : d[i] = DecStep(p, LastOf(s, i), i, d)
    BY <1>4
  <2> QED
    BY <2>1, <2>2, Zenon DEF DecBody
<1> QED
  BY <1>4, <1>5

LEMMA DecFunIs ==
    ASSUME NEW p, NEW s \in Seq(Bytes), NEW n \in 0..Len(s)
    PROVE  DecFun(p, s)[n] = DecStep(p, LastOf(s, n), n, DecFun(p, s))
<1> DEFINE f == DecFun(p, s)
<1>1. \E d : d = DecBody(p, s, d)
  BY DecExists
<1>2. f = DecBody(p, s, f)
  BY <1>1, Zenon DEF DecFun
<1> HIDE DEF f
<1>3. f = [i \in 0..Len(s) |-> DecStep(p, LastOf(s, i), i, f)]
  BY <1>2, Zenon DEF DecBody
<1>4. f[n] = DecStep(p, LastOf(s, n), n, f)
  BY <1>3, Zenon
<1> QED
  BY <1>4 DEF f

LEMMA DecFunType ==
    ASSUME NEW p, NEW s \in Seq(Bytes)
    PROVE  \A n \in 0..Len(s) : DecFun(p, s)[n] \in Seq(Seq(Bytes))
<1> DEFINE f == DecFun(p, s)
           T == {n \in Nat : n <= Len(s) => \A m \in 0..n : f[m] \in Seq(Seq(Bytes))}
<1>0. ASSUME NEW n \in 0..Len(s), \A m \in 0..n - 1 : f[m] \in Seq(Seq(Bytes))
      PROVE  f[n] \in Seq(Seq(Bytes))
  <2>1. n \in Nat /\ LastOf(s, n) \in Seq(Bytes) /\ Len(LastOf(s, n)) = n
    BY LastOfType
  <2>2. f[n] = DecStep(p, LastOf(s, n), n, f)
    BY DecFunIs
  <2> HIDE DEF f
  <2>3. DecStep(p, LastOf(s, n), n, f) \in Seq(Seq(Bytes))
    BY <1>0, <2>1, DecStepType
  <2> QED
    BY <2>2, <2>3
<1> HIDE DEF f
<1>1. 0 \in T
  <2>1. 0 \in 0..Len(s) /\ \A m \in 0..0 - 1 : f[m] \in Seq(Seq(Bytes))
    OBVIOUS
  <2>2. f[0] \in Seq(Seq(Bytes))
    BY <1>0, <2>1
  <2> QED
    BY <2>2
<1>2. ASSUME NEW n \in Nat, n \in T PROVE n + 1 \in T
  <2> SUFFICES ASSUME n + 1 <= Len(s), NEW m \in 0..n + 1 PROVE f[m] \in Seq(Seq(Bytes))
    OBVIOUS
  <2>1. \A i \in 0..n : f[i] \in Seq(Seq(Bytes))
    BY <1>2
  <2>2. n + 1 \in 0..Len(s) /\ (n + 1) - 1 = n
    OBVIOUS
  <2>3. f[n + 1] \in Seq(Seq(Bytes))
    BY <1>0, <2>1, <2>2
  <2>4. m \in 0..n \/ m = n + 1
    OBVIOUS
  <2> QED
    BY <2>1, <2>3, <2>4, Zenon
<1>3. Len(s) \in T
  <2>1. Len(s) \in Nat
    OBVIOUS
  <2> HIDE DEF T
  <2> QED
    BY <1>1, <1>2, <2>1, Induction
<1> QED
  BY <1>3 DEF f

\* What is decoded from the last bytes does not depend on the bytes before them.
LEMMA DecOfSuffix ==
    ASSUME NEW p, NEW s \in Seq(Bytes), NEW k \in 0..Len(s)
    PROVE  DecFun(p, s)[Len(s) - k] = Decoded(p, SubSeq(s, k + 1, Len(s)))
<1> DEFINE v == SubSeq(s, k + 1, Len(s))
           f == DecFun(p, s)
           g == DecFun(p, v)
           T == {n \in Nat : n <= Len(v) => \A m \in 0..n : f[m] = g[m]}
<1>1. /\ v \in Seq(Bytes) /\ Len(v) = Len(s) - k /\ Len(s) \in Nat /\ k \in Nat /\ k <= Len(s)
      /\ \A i \in 1..Len(s) - k : v[i] = s[k + i]
  BY Cut
<1> HIDE DEF v
<1>2. ASSUME NEW n \in 0..Len(v) PROVE LastOf(s, n) = LastOf(v, n)
  <2> DEFINE x == LastOf(s, n)
             y == LastOf(v, n)
  <2>1. n \in Nat /\ n \in 0..Len(s) /\ n <= Len(v)
    BY <1>1
  <2>2. x \in Seq(Bytes) /\ Len(x) = n /\ y \in Seq(Bytes) /\ Len(y) = n
    BY <1>1, <2>1, LastOfType
  <2>3. ASSUME NEW i \in 1..n PROVE x[i] = y[i]
    <3>1. x[i] = s[Len(s) - n + i]
      BY <2>1, <1>1 DEF LastOf
    <3>2. y[i] = v[Len(v) - n + i]
      BY <2>1, <1>1 DEF LastOf
    <3>3. Len(v) - n + i \in 1..Len(s) - k /\ k + (Len(v) - n + i) = Len(s) - n + i
      BY <1>1, <2>1
    <3>4. v[Len(v) - n + i] = s[k + (Len(v) - n + i)]
      BY <1>1, <3>3
    <3> QED
      BY <3>1, <3>2, <3>3, <3>4
  <2> HIDE DEF x, y
  <2>4. x = y
    BY <2>2, <2>3, BytesEq, Zenon
  <2> QED
    BY <2>4 DEF x, y
<1>3. ASSUME NEW n \in 0..Len(v), \A m \in 0..n - 1 : f[m] = g[m]
      PROVE  f[n] = g[n]
  <2>1. n \in 0..Len(s) /\ n \in Nat
    BY <1>1
  <2>2. f[n] = DecStep(p, LastOf(s, n), n, f)
    BY <2>1, DecFunIs
  <2>3. g[n] = DecStep(p, LastOf(v, n), n, g)
    BY <1>1, DecFunIs
  <2>4. LastOf(v, n) \in Seq(Bytes) /\ Len(LastOf(v, n)) = n
    BY <1>1, LastOfType
  <2> HIDE DEF f, g
  <2>5. DecStep(p, LastOf(v, n), n, f) = DecStep(p, LastOf(v, n), n, g)
    BY <1>3, <2>1, <2>4, DecStepLocal
  <2>6. LastOf(s, n) = LastOf(v, n)
    BY <1>2
  <2> QED
    BY <2>2, <2>3, <2>5, <2>6
<1> HIDE DEF f, g
<1>4. 0 \in T
  <2>1. 0 \in 0..Len(v) /\ \A m \in 0..0 - 1 : f[m] = g[m]
    BY <1>1
  <2>2. f[0] = g[0]
    BY <1>3, <2>1
  <2> QED
    BY <2>2
<1>5. ASSUME NEW n \in Nat, n \in T PROVE n + 1 \in T
  <2> SUFFICES ASSUME n + 1 <= Len(v), NEW m \in 0..n + 1 PROVE f[m] = g[m]
    OBVIOUS
  <2>0. n <= Len(v)
    BY <1>1
  <2>1. \A i \in 0..n : f[i] = g[i]
    BY <1>5, <2>0
  <2>2. n + 1 \in 0..Len(v) /\ (n + 1) - 1 = n
    BY <1>1
  <2>3. f[n + 1] = g[n + 1]
    BY <1>3, <2>1, <2>2
  <2>4. m \in 0..n \/ m = n + 1
    OBVIOUS
  <2> QED
    BY <2>1, <2>3, <2>4, Zenon
<1>6. Len(v) \in T
  <2>1. Len(v) \in Nat
    BY <1>1
  <2> HIDE DEF T
  <2> QED
    BY <1>4, <1>5, <2>1, Induction
<1>7. f[Len(v)] = g[Len(v)]
  BY <1>1, <1>6
<1> QED
  BY <1>1, <1>7, DecodedIs DEF f, g, v

LEMMA DecodedType ==
    ASSUME NEW p, NEW s \in Seq(Bytes)
    PROVE  Decoded(p, s) \in Seq(Seq(Bytes))
<1>1. Len(s) \in 0..Len(s)
  OBVIOUS
<1> QED
  BY <1>1, DecodedIs, DecFunType

LEMMA DecodedStep ==
    ASSUME NEW p, NEW s \in Seq(Bytes)
    PROVE  Decoded(p, s) = DecStep(p, s, Len(s), DecFun(p, s))
<1>1. Len(s) \in 0..Len(s)
  OBVIOUS
<1>2. LastOf(s, Len(s)) = s
  <2>1. Len(s) - Len(s) + 1 = 1 /\ SubSeq(s, 1, Len(s)) = s
    OBVIOUS
  <2> QED
    BY <2>1 DEF LastOf
<1> QED
  BY <1>1, <1>2, DecodedIs, DecFunIs

LEMMA DecodedSkip ==
    ASSUME NEW p, NEW s \in Seq(Bytes), SkippableAs(p, s)
    PROVE  Decoded(p, s) = Decoded(p, Tail(s))
<1>1. Decoded(p, s) = DecFun(p, s)[Len(s) - 1]
  BY DecodedStep DEF DecStep, SkippableAs
<1>2. 1 \in 0..Len(s)
  BY DEF SkippableAs
<1>3. DecFun(p, s)[Len(s) - 1] = Decoded(p, SubSeq(s, 1 + 1, Len(s)))
  BY <1>2, DecOfSuffix
<1>4. SubSeq(s, 1 + 1, Len(s)) = Tail(s)
  <2> DEFINE x == SubSeq(s, 1 + 1, Len(s))
             y == Tail(s)
  <2>1. /\ x \in Seq(Bytes) /\ Len(x) = Len(s) - 1
        /\ \A i \in 1..Len(s) - 1 : x[i] = s[1 + i]
    BY <1>2, Cut
  <2>2. y \in Seq(Bytes) /\ Len(y) = Len(s) - 1 /\ \A i \in 1..Len(s) - 1 : y[i] = s[i + 1]
    <3>1. s # <<>>
      BY <1>2
    <3> QED
      BY <3>1, TailIs
  <2> HIDE DEF x, y
  <2>3. \A i \in 1..Len(y) : x[i] = y[i]
    <3>1. \A i \in 1..Len(s) - 1 : 1 + i = i + 1
      OBVIOUS
    <3> QED
      BY <2>1, <2>2, <3>1
  <2>4. x = y
    BY <2>1, <2>2, <2>3, BytesEq, Zenon
  <2> QED
    BY <2>4 DEF x, y
<1> QED
  BY <1>1, <1>3, <1>4

LEMMA DecodedNone ==
    ASSUME NEW p, NEW s \in Seq(Bytes), ~SkippableAs(p, s), ParseAs(p, s) = 0
    PROVE  Decoded(p, s) = <<>>
  BY DecodedStep DEF DecStep, SkippableAs

LEMMA DecodedEmit ==
    ASSUME NEW p, NEW s \in Seq(Bytes), ParseAs(p, s) > 0
    PROVE  Decoded(p, s) =
              <<SubSeq(s, 1, ParseAs(p, s))>> \o Decoded(p, SubSeq(s, ParseAs(p, s) + 1, Len(s)))
<1> DEFINE n == ParseAs(p, s)
<1>1. n \in 0..Len(s) /\ n # 0
  <2>1. n \in Nat /\ n <= Len(s)
    BY ParseStable
  <2> HIDE DEF n
  <2>2. n \in 0..Len(s)
    BY <2>1
  <2>3. n # 0
    BY <2>1 DEF n
  <2> QED
    BY <2>2, <2>3
<1>2. ~SkippableAs(p, s)
  BY SkippableStable
<1>3. Decoded(p, s) = <<SubSeq(s, 1, n)>> \o DecFun(p, s)[Len(s) - n]
  BY <1>1, <1>2, DecodedStep DEF DecStep, SkippableAs
<1>4. DecFun(p, s)[Len(s) - n] = Decoded(p, SubSeq(s, n + 1, Len(s)))
  <2> HIDE DEF n
  <2> QED
    BY <1>1, DecOfSuffix
<1> QED
  BY <1>3, <1>4

\* Whatever still arrives, decoding it behind what is left in parse_buf completes the
\* packets emitted to what is decoded from everything in one go.
DecodeInv ==
    \A t \in Seq(Bytes) : Decoded(proto, seen \o t) = frames \o Decoded(proto, parse_buf \o t)

LEMMA InitDecode == Init => DecodeInv
<1> SUFFICES ASSUME Init, NEW t \in Seq(Bytes)
             PROVE  Decoded(proto, seen \o t) = frames \o Decoded(proto, parse_buf \o t)
  BY DEF DecodeInv
<1>1. frames = <<>> /\ parse_buf = <<>> /\ seen = <<>>
  BY DEF Init
<1>2. <<>> \o t = t
  OBVIOUS
<1>3. Decoded(proto, t) \in Seq(Seq(Bytes))
  BY DecodedType
<1>4. <<>> \o Decoded(proto, t) = Decoded(proto, t)
  BY <1>3
<1> QED
  BY <1>1, <1>2, <1>4

LEMMA DecodeStutter ==
    ASSUME DecodeInv, UNCHANGED <<proto, parse_buf, frames, seen>>
    PROVE  DecodeInv'
  BY DEF DecodeInv

LEMMA DecodeFed ==
    ASSUME DecodeInv, seen \in Seq(Bytes), parse_buf \in Seq(Bytes), NEW x \in Seq(Bytes),
           parse_buf' = parse_buf \o x, seen' = seen \o x, UNCHANGED <<proto, frames>>
    PROVE  DecodeInv'
<1> SUFFICES ASSUME NEW t \in Seq(Bytes)
             PROVE  Decoded(proto, seen' \o t) = frames \o Decoded(proto, parse_buf' \o t)
  BY DEF DecodeInv
<1>1. x \o t \in Seq(Bytes)
  OBVIOUS
<1>3. (seen \o x) \o t = seen \o (x \o t)
  BY BytesAssoc
<1>4. (parse_buf \o x) \o t = parse_buf \o (x \o t)
  BY BytesAssoc
<1>5. Decoded(proto, seen \o (x \o t)) = frames \o Decoded(proto, parse_buf \o (x \o t))
  BY <1>1 DEF DecodeInv
<1> QED
  BY <1>3, <1>4, <1>5

LEMMA TailOfConcat ==
    ASSUME NEW s \in Seq(Bytes), NEW t \in Seq(Bytes), s # <<>>
    PROVE  Tail(s \o t) = Tail(s) \o t
  OBVIOUS

LEMMA DecodeSkips ==
    ASSUME DecodeInv, ParserInv, SkipByte
    PROVE  DecodeInv'
<1>1. /\ SkippableAs(proto, parse_buf) /\ parse_buf' = Tail(parse_buf)
      /\ UNCHANGED <<proto, frames, seen>> /\ parse_buf \in Seq(Bytes)
  BY ByState DEF SkipByte, sender, ParserInv
<1> SUFFICES ASSUME NEW t \in Seq(Bytes)
             PROVE  Decoded(proto, seen \o t) = frames \o Decoded(proto, parse_buf' \o t)
  BY <1>1 DEF DecodeInv
<1>2. SkippableAs(proto, parse_buf \o t) /\ parse_buf \o t \in Seq(Bytes)
  BY <1>1, SkippableStable
<1>3. Decoded(proto, parse_buf \o t) = Decoded(proto, Tail(parse_buf \o t))
  BY <1>2, DecodedSkip
<1>4. Tail(parse_buf \o t) = Tail(parse_buf) \o t
  <2>1. parse_buf # <<>>
    BY <1>1 DEF SkippableAs
  <2> QED
    BY <1>1, <2>1, TailOfConcat
<1> QED
  BY <1>1, <1>3, <1>4 DEF DecodeInv

LEMMA DecodeEmits ==
    ASSUME DecodeInv, ParserInv, EmitPacket
    PROVE  DecodeInv'
<1> DEFINE n == ParseAs(proto, parse_buf)
           f == SubSeq(parse_buf, 1, n)
           q == SubSeq(parse_buf, n + 1, Len(parse_buf))
<1>1. /\ n > 0 /\ frames' = Append(frames, f) /\ parse_buf' = q /\ UNCHANGED <<proto, seen>>
      /\ parse_buf \in Seq(Bytes) /\ frames \in Seq(Seq(Bytes))
  BY ByState DEF EmitPacket, sender, ParserInv
<1> SUFFICES ASSUME NEW t \in Seq(Bytes)
             PROVE  Decoded(proto, seen \o t) = Append(frames, f) \o Decoded(proto, q \o t)
  BY <1>1 DEF DecodeInv
<1>2. n \in 0..Len(parse_buf)
  <2>1. n \in Nat /\ n <= Len(parse_buf)
    BY <1>1, ParseStable
  <2> HIDE DEF n
  <2> QED
    BY <2>1
<1>3. ParseAs(proto, parse_buf \o t) = n
  BY <1>1, ParseStable
<1>4. parse_buf \o t \in Seq(Bytes)
  BY <1>1
<1>5. Decoded(proto, parse_buf \o t) =
         <<SubSeq(parse_buf \o t, 1, n)>> \o Decoded(proto, SubSeq(parse_buf \o t, n + 1, Len(parse_buf \o t)))
  BY <1>1, <1>3, <1>4, DecodedEmit
<1> HIDE DEF n
<1>6. f \in Seq(Bytes) /\ q \in Seq(Bytes) /\ f \o q = parse_buf /\ Len(f) = n
  BY <1>1, <1>2, Cut
<1> HIDE DEF f, q
<1>7. SubSeq(parse_buf \o t, 1, n) = f /\ SubSeq(parse_buf \o t, n + 1, Len(parse_buf \o t)) = q \o t
  <2>1. q \o t \in Seq(Bytes) /\ f \o (q \o t) = parse_buf \o t
    <3>2. (f \o q) \o t = f \o (q \o t)
      BY <1>6, BytesAssoc
    <3>3. q \o t \in Seq(Bytes)
      BY <1>6
    <3> QED
      BY <1>6, <3>2, <3>3
  <2>2. PICK v \in Seq(Bytes) : v = q \o t
    BY <2>1
  <2>3. SubSeq(f \o v, 1, Len(f)) = f /\ SubSeq(f \o v, Len(f) + 1, Len(f \o v)) = v
    BY <1>6, <2>2, CutAt
  <2> QED
    BY <1>6, <2>1, <2>2, <2>3
<1> DEFINE d == Decoded(proto, q \o t)
<1>8. d \in Seq(Seq(Bytes))
  <2>1. q \o t \in Seq(Bytes)
    BY <1>6
  <2> QED
    BY <2>1, DecodedType
<1>9. Decoded(proto, seen \o t) = frames \o (<<f>> \o d)
  BY <1>5, <1>7 DEF DecodeInv
<1> HIDE DEF d
<1>10. frames \o (<<f>> \o d) = Append(frames, f) \o d
  <2>1. <<f>> \in Seq(Seq(Bytes)) /\ Append(frames, f) = frames \o <<f>>
    BY <1>1, <1>6, FramesAppend
  <2>2. \A x \in Seq(Seq(Bytes)), y \in Seq(Seq(Bytes)), z \in Seq(Seq(Bytes)) :
           (x \o y) \o z = x \o (y \o z)
    OBVIOUS
  <2>3. (frames \o <<f>>) \o d = frames \o (<<f>> \o d)
    BY <1>1, <1>8, <2>1, <2>2
  <2> QED
    BY <2>1, <2>3
<1> QED
  BY <1>9, <1>10 DEF d

LEMMA DecodeStep == StreamInv /\ ParserInv /\ DecodeInv /\ [Next]_vars => DecodeInv'
<1> SUFFICES ASSUME StreamInv, ParserInv, DecodeInv, [Next]_vars PROVE DecodeInv'
  OBVIOUS
<1>0. seen \in Seq(Bytes) /\ parse_buf \in Seq(Bytes)
  BY DEF StreamInv, BaseInv, ParserInv
<1>1. ASSUME NEW n \in 0..Len(App), NEW fin \in BOOLEAN, SendFrame(n, fin) PROVE DecodeInv'
  BY <1>1, DecodeStutter DEF SendFrame, parser
<1>2. CASE SendPing
  BY <1>2, DecodeStutter DEF SendPing, parser
<1>3. ASSUME NEW j \in IF LateJoin THEN 0..Len(line) - 1 ELSE {0}, Join(j) PROVE DecodeInv'
  BY <1>3, DecodeStutter DEF Join, sender, parser
<1>4. ASSUME NEW k \in 1..Len(line), FeedParser(k) PROVE DecodeInv'
  <2>1. PICK x : x = Values(SubSeq(line, 1, k))
    OBVIOUS
  <2>2. parse_buf' = parse_buf \o x /\ seen' = seen \o x /\ UNCHANGED <<proto, frames>>
    BY <1>4, <2>1 DEF FeedParser, sender
  <2>3. x \in Seq(Bytes)
    <3>1. line \in Seq(Tokens) /\ AllBytes(line)
      BY <1>4 DEF FeedParser, StreamInv, BaseInv, PlainInv
    <3>2. SubSeq(line, 1, k) \in Seq(Tokens) /\ AllBytes(SubSeq(line, 1, k))
      BY <3>1, LineCut
    <3> QED
      BY <2>1, <3>2, ValuesType
  <2> QED
    BY <1>0, <2>2, <2>3, DecodeFed
<1>5. ASSUME NEW k \in 1..Len(line), FeedHandshake(k) PROVE DecodeInv'
  BY <1>5, DecodeStutter DEF FeedHandshake, sender, parser
<1>6. ASSUME NEW k \in 1..Len(line), FeedFrames(k) PROVE DecodeInv'
  BY <1>6, DecodeStutter DEF FeedFrames, sender, parser
<1>7. CASE UnmaskFrame
  BY <1>7, DecodeStutter DEF UnmaskFrame, sender, parser
<1>8. CASE UnmaskDone
  <2>1. PICK x : x = out
    OBVIOUS
  <2>2. /\ x \in Seq(Bytes) /\ parse_buf' = parse_buf \o x /\ seen' = seen \o x
        /\ UNCHANGED <<proto, frames>>
    BY <1>8, <2>1 DEF UnmaskDone, sender, StreamInv, BaseInv
  <2> QED
    BY <1>0, <2>2, DecodeFed
<1>9. CASE SkipByte
  BY <1>9, DecodeSkips
<1>10. CASE EmitPacket
  BY <1>10, DecodeEmits
<1>11. CASE ParseDone
  BY <1>11, DecodeStutter DEF ParseDone, sender, parser
<1>12. CASE UNCHANGED vars
  BY <1>12, DecodeStutter DEF vars, sender, parser
<1> QED
  BY <1>1, <1>2, <1>3, <1>4, <1>5, <1>6, <1>7, <1>8, <1>9, <1>10, <1>11, <1>12
  DEF Next, SendNext, Feed, DrainNext

LEMMA DecodeIsIrrelevant == StreamInv /\ ParserInv /\ DecodeInv => SegmentationIrrelevant
<1> SUFFICES ASSUME StreamInv, ParserInv, DecodeInv, pc = "idle" PROVE frames = Decoded(proto, seen)
  BY DEF SegmentationIrrelevant
<1>1. seen \in Seq(Bytes) /\ parse_buf \in Seq(Bytes) /\ frames \in Seq(Seq(Bytes))
  BY DEF StreamInv, BaseInv, ParserInv
<1>2. Decoded(proto, seen \o <<>>) = frames \o Decoded(proto, parse_buf \o <<>>)
  <2>1. <<>> \in Seq(Bytes)
    OBVIOUS
  <2> QED
    BY <2>1 DEF DecodeInv
<1>3. Decoded(proto, parse_buf) = <<>>
  BY <1>1, DecodedNone DEF ParserInv
<1>4. seen \o <<>> = seen /\ parse_buf \o <<>> = parse_buf /\ frames \o <<>> = frames
  BY <1>1
<1> QED
  BY <1>2, <1>3, <1>4

\* SegmentationIrrelevant: the packets emitted between two chunks are those decoding all the
\* bytes in one go would give, for every flow, late joins included.
THEOREM SegmentationIsIrrelevant == Spec => []SegmentationIrrelevant
<1> DEFINE Inv == StreamInv /\ ParserInv /\ DecodeInv
<1>1. Init => Inv
  BY InitStream, InitParser, InitDecode
<1>2. Inv /\ [Next]_vars => Inv'
  BY StreamStep, ParserStep, DecodeStep
<1>3. Inv => SegmentationIrrelevant
  BY DecodeIsIrrelevant
<1> QED
  BY <1>1, <1>2, <1>3, PTL DEF Spec
=============================================================================
