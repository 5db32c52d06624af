------------------------------- MODULE Lists -------------------------------
(***************************************************************************)
(* Lists as JavaScript filters, sorts and groups them.  Each operator      *)
(* places the positions it keeps in an order, which is how it can be       *)
(* reasoned about: SelectSeq and SortSeq have no definition to expand.     *)
(***************************************************************************)
EXTENDS Integers, Sequences, FiniteSets

\* The elements of a finite set S, ordered by the relation R.
InOrder(S, R) ==
    LET ranked == {<<Cardinality({y \in S : <<y, x>> \in R}) + 1, x>> : x \in S}
    IN  [k \in 1..Cardinality(S) |-> (CHOOSE r \in ranked : r[1] = k)[2]]

Ascends(S) == {r \in S \X S : r[1] < r[2]}

\* What s has at the positions in I.
Sublist(s, I) ==
    LET at == InOrder(I, Ascends(I)) IN [k \in 1..Cardinality(I) |-> s[at[k]]]

\* Array.filter
Filter(s, Test(_)) == Sublist(s, {i \in DOMAIN s : Test(s[i])})

\* The values of s in the order of their first occurrence: the keys of a Map.
Distinct(s) == Sublist(s, {i \in DOMAIN s : \A j \in 1..i - 1 : s[j] # s[i]})

\* Array.sort, which keeps the order of those of which neither goes ahead.
Sorted(s, Ahead(_, _)) ==
    LET before == {r \in (DOMAIN s) \X (DOMAIN s) :
                      \/ Ahead(s[r[1]], s[r[2]])
                      \/ ~Ahead(s[r[2]], s[r[1]]) /\ r[1] < r[2]}
        at == InOrder(DOMAIN s, before)
    IN  [k \in DOMAIN s |-> s[at[k]]]
============================================================================
