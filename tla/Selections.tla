------------------------------- MODULE Selections -------------------------------
(***************************************************************************)
(* Selecting elements of a sequence by their places, in the order of the   *)
(* sequence, and joining sequences: what loops do that append what they    *)
(* keep to a new slice.  Neither recursion nor a fold, so that what comes  *)
(* of it can be proved about for sequences of any length.                  *)
(***************************************************************************)
EXTENDS Integers, Sequences, FiniteSets

(* How many of the places I come before i or are i.                        *)
Rank(I, i) == Cardinality({j \in I : j <= i})

Nth(I, n) == CHOOSE i \in I : Rank(I, i) = n

First(I) == CHOOSE i \in I : \A j \in I : i <= j

Chosen(s, I) == [n \in 1..Cardinality(I) |-> s[Nth(I, n)]]

(* A set of numbers as a sequence.                                         *)
Ascending(I) == [n \in 1..Cardinality(I) |-> Nth(I, n)]

Filtered(s, Test(_)) == Chosen(s, {i \in 1..Len(s) : Test(s[i])})

(* The sequences of a sequence, one after the other: their places are      *)
(* pairs, in the order of what they are made of.                           *)
Pairs(ss) == UNION {{<<i, j>> : j \in 1..Len(ss[i])} : i \in 1..Len(ss)}
InOrder(p, q) == p[1] < q[1] \/ (p[1] = q[1] /\ p[2] <= q[2])
PairRank(P, p) == Cardinality({q \in P : InOrder(q, p)})
NthPair(P, n) == CHOOSE p \in P : PairRank(P, p) = n

Flattened(ss) ==
  LET P == Pairs(ss)
  IN  [n \in 1..Cardinality(P) |-> ss[NthPair(P, n)[1]][NthPair(P, n)[2]]]
=============================================================================
