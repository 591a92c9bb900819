------------------------------ MODULE ToolsProofs ------------------------------
(***************************************************************************)
(* Proofs about the tools.  First about the questions put to the parts    *)
(* that only compute, for questions of any size: what the selections of    *)
(* elements from a sequence give (Selections), the fixes, the differences  *)
(* of diagnostics, the places and the names; then about EditTools as it    *)
(* runs, for any files, texts and fixes.                                   *)
(***************************************************************************)
EXTENDS Tools, FiniteSetTheorems, WellFoundedInduction, TLAPS

-----------------------------------------------------------------------------
(* Selections.                                                             *)

(* Induction over the natural numbers, for a set of them.                  *)
LEMMA Induction ==
  ASSUME NEW T, T \subseteq Nat, 0 \in T, \A n \in T : n + 1 \in T
  PROVE  \A n \in Nat : n \in T
<1> SUFFICES ASSUME Nat \ T # {} PROVE FALSE
  OBVIOUS
<1>1. PICK x \in Nat \ T : \A y \in Nat \ T : ~(<<y, x>> \in OpToRel(<, Nat))
  BY NatLessThanWellFounded, WFMin
<1>2. \A y \in Nat \ T : ~ (y < x)
  BY <1>1 DEF OpToRel
<1>3. x # 0 /\ x - 1 \in Nat
  OBVIOUS
<1>4. x - 1 \in T
  BY <1>2, <1>3
<1> QED
  BY <1>4, <1>3

(* Places in a sequence are finite sets, and so are parts of them.         *)
LEMMA PlacesFinite ==
  ASSUME NEW m \in Nat, NEW I \in SUBSET (1..m)
  PROVE  /\ IsFiniteSet(I) /\ Cardinality(I) \in Nat
         /\ \A J \in SUBSET I : /\ IsFiniteSet(J) /\ Cardinality(J) \in Nat
                                /\ Cardinality(J) <= Cardinality(I)
                                /\ Cardinality(J) = Cardinality(I) => J = I
<1>1. IsFiniteSet(1..m)
  BY FS_Interval
<1>2. IsFiniteSet(I)
  BY <1>1, FS_Subset
<1> QED
  BY <1>2, FS_Subset, FS_CardinalityType

(* The rank of a place is one of 1 to the number of the places.            *)
LEMMA RankBounds ==
  ASSUME NEW m \in Nat, NEW I \in SUBSET (1..m), NEW i \in I
  PROVE  Rank(I, i) \in 1..Cardinality(I)
<1> DEFINE J == {j \in I : j <= i}
<1>1. J \in SUBSET I /\ i \in J
  OBVIOUS
<1>2. Cardinality(J) \in Nat /\ Cardinality(J) <= Cardinality(I) /\ IsFiniteSet(J) /\ Cardinality(I) \in Nat
  BY <1>1, PlacesFinite
<1>3. Cardinality(J) # 0
  BY <1>1, <1>2, FS_EmptySet
<1> HIDE DEF J
<1>4. Cardinality(J) \in 1..Cardinality(I)
  BY <1>2, <1>3
<1> QED
  BY <1>4 DEF J, Rank

(* A later place has a higher rank,                                        *)
LEMMA RankGrows ==
  ASSUME NEW m \in Nat, NEW I \in SUBSET (1..m), NEW i \in I, NEW k \in I, i < k
  PROVE  Rank(I, i) < Rank(I, k)
<1> DEFINE J == {j \in I : j <= i}
           K == {j \in I : j <= k}
<1>1. J \in SUBSET K /\ k \in K /\ k \notin J /\ K \in SUBSET I
  <2>1. i \in Int /\ k \in Int /\ \A j \in I : j \in Int
    OBVIOUS
  <2>2. \A j \in I : j <= i => j <= k
    BY <2>1
  <2>3. ~(k <= i) /\ k <= k
    BY <2>1
  <2> QED
    BY <2>2, <2>3
<1>2. K \in SUBSET (1..m) 
  BY <1>1
<1> HIDE DEF J, K
<1>3. /\ Cardinality(J) \in Nat /\ Cardinality(K) \in Nat
      /\ Cardinality(J) <= Cardinality(K) /\ Cardinality(J) # Cardinality(K)
  BY <1>1, <1>2, PlacesFinite
<1>4. Cardinality(J) < Cardinality(K)
  BY <1>3
<1> QED
  BY <1>4 DEF J, K, Rank

(* so two places have two ranks,                                           *)
LEMMA RankApart ==
  ASSUME NEW m \in Nat, NEW I \in SUBSET (1..m), NEW i \in I, NEW k \in I, Rank(I, i) = Rank(I, k)
  PROVE  i = k
<1>1. i \in Int /\ k \in Int
  OBVIOUS
<1>2. Rank(I, i) \in Int
  <2>1. Rank(I, i) \in 1..Cardinality(I)
    BY RankBounds
  <2> QED
    BY <2>1
<1>3. CASE i < k
  <2>1. Rank(I, i) < Rank(I, k)
    BY <1>3, RankGrows
  <2> QED
    BY <2>1, <1>2
<1>4. CASE k < i
  <2>1. Rank(I, k) < Rank(I, i)
    BY <1>4, RankGrows
  <2> QED
    BY <2>1, <1>2
<1> QED
  BY <1>1, <1>3, <1>4

(* and every rank is that of a place.                                      *)
LEMMA RankOnto ==
  ASSUME NEW m \in Nat, NEW I \in SUBSET (1..m), NEW n \in 1..Cardinality(I)
  PROVE  \E i \in I : Rank(I, i) = n
<1> DEFINE f == [i \in I |-> Rank(I, i)]
           T == 1..Cardinality(I)
<1>1. f \in [I -> T]
  BY RankBounds
<1>2. ASSUME NEW i \in I, NEW k \in I, f[i] = f[k]
      PROVE  i = k
  BY <1>2, RankApart
<1> HIDE DEF f
<1>3. f \in Injection(I, T)
  BY <1>1, <1>2 DEF Injection, IsInjective
<1>4. Cardinality(I) \in Nat /\ IsFiniteSet(I)
  BY PlacesFinite
<1>5. IsFiniteSet(T) /\ Cardinality(T) = Cardinality(I)
  BY <1>4, FS_Interval
<1>6. f \in Surjection(I, T)
  BY <1>3, <1>5, FS_Injection
<1>7. \E i \in I : f[i] = n
  BY <1>6 DEF Surjection
<1> QED
  BY <1>7 DEF f

(* Nth and Rank are inverse to each other.                                 *)
LEMMA NthRight ==
  ASSUME NEW m \in Nat, NEW I \in SUBSET (1..m)
  PROVE  /\ \A n \in 1..Cardinality(I) : Nth(I, n) \in I /\ Rank(I, Nth(I, n)) = n
         /\ \A i \in I : Nth(I, Rank(I, i)) = i
<1>1. \A n \in 1..Cardinality(I) : Nth(I, n) \in I /\ Rank(I, Nth(I, n)) = n
  BY RankOnto DEF Nth
<1>2. ASSUME NEW i \in I
      PROVE  Nth(I, Rank(I, i)) = i
  <2> DEFINE k == Nth(I, Rank(I, i))
  <2>1. Rank(I, i) \in 1..Cardinality(I)
    BY RankBounds
  <2>2. k \in I /\ Rank(I, k) = Rank(I, i)
    BY <2>1, <1>1
  <2> HIDE DEF k
  <2>3. i = k
    BY <2>2, RankApart
  <2> QED
    BY <2>3 DEF k
<1> QED
  BY <1>1, <1>2

(* What is chosen from a sequence: as many elements as there are places,   *)
(* in their order, and those of these places.                              *)
LEMMA ChosenRight ==
  ASSUME NEW S, NEW s \in Seq(S), NEW I \in SUBSET (1..Len(s))
  PROVE  /\ Chosen(s, I) \in Seq(S)
         /\ Len(Chosen(s, I)) = Cardinality(I)
         /\ \A n \in 1..Cardinality(I) : Chosen(s, I)[n] = s[Nth(I, n)]
         /\ (Chosen(s, I) = <<>>) = (I = {})
         /\ \A n \in 1..Len(Chosen(s, I)) : \E i \in I : Chosen(s, I)[n] = s[i]
         /\ \A i \in I : \E n \in 1..Len(Chosen(s, I)) : Chosen(s, I)[n] = s[i]
<1>1. Len(s) \in Nat
  OBVIOUS
<1>2. Cardinality(I) \in Nat /\ IsFiniteSet(I)
  BY <1>1, PlacesFinite
<1>3. \A n \in 1..Cardinality(I) : Nth(I, n) \in I /\ s[Nth(I, n)] \in S
  <2>1. \A n \in 1..Cardinality(I) : Nth(I, n) \in I
    BY <1>1, NthRight
  <2>2. \A i \in I : s[i] \in S
    OBVIOUS
  <2> QED
    BY <2>1, <2>2
<1>4. /\ Chosen(s, I) \in Seq(S) /\ Len(Chosen(s, I)) = Cardinality(I)
      /\ \A n \in 1..Cardinality(I) : Chosen(s, I)[n] = s[Nth(I, n)]
  BY <1>2, <1>3 DEF Chosen
<1>5. (Cardinality(I) = 0) = (I = {})
  BY <1>2, FS_EmptySet
<1>6. (Chosen(s, I) = <<>>) = (I = {})
  BY <1>4, <1>5
<1>7. \A i \in I : Rank(I, i) \in 1..Cardinality(I) /\ Nth(I, Rank(I, i)) = i
  BY <1>1, RankBounds, NthRight
<1>8. \A i \in I : \E n \in 1..Len(Chosen(s, I)) : Chosen(s, I)[n] = s[i]
  BY <1>4, <1>7
<1>9. \A n \in 1..Len(Chosen(s, I)) : \E i \in I : Chosen(s, I)[n] = s[i]
  BY <1>3, <1>4
<1> QED
  BY <1>4, <1>6, <1>8, <1>9

-----------------------------------------------------------------------------
(* Fixes.                                                                  *)

(* A set of natural numbers has a least one.                               *)
LEMMA Least ==
  ASSUME NEW T, T \subseteq Nat, T # {}
  PROVE  \E x \in T : \A y \in T : x <= y
<1>1. PICK x \in T : \A y \in T : ~(<<y, x>> \in OpToRel(<, Nat))
  BY NatLessThanWellFounded, WFMin
<1>2. \A y \in T : ~(y < x)
  BY <1>1 DEF OpToRel
<1> QED
  BY <1>2

(* The order of positions is a total one.                                  *)
LEMMA FollowsOrders ==
  ASSUME NEW p \in Nat \X Nat, NEW q \in Nat \X Nat, NEW r \in Nat \X Nat,
         ~Follows(p, q), ~Follows(q, r)
  PROVE  ~Follows(p, r)
BY DEF Follows

(* The earliest of some positions is one of them, and none is before it.   *)
LEMMA EarliestRight ==
  ASSUME NEW ps, ps \subseteq Nat \X Nat, ps # {}
  PROVE  Earliest(ps) \in ps /\ \A q \in ps : ~Follows(Earliest(ps), q)
<1>1. PICK l \in {p[1] : p \in ps} : \A k \in {p[1] : p \in ps} : l <= k
  <2> DEFINE L == {p[1] : p \in ps}
  <2>1. L # {} /\ L \subseteq Nat
    OBVIOUS
  <2> HIDE DEF L
  <2>2. \E l \in L : \A k \in L : l <= k
    BY <2>1, Least
  <2> QED
    BY <2>2 DEF L
<1> DEFINE row == {p \in ps : p[1] = l}
<1>2. PICK c \in {p[2] : p \in row} : \A k \in {p[2] : p \in row} : c <= k
  <2> DEFINE C == {p[2] : p \in row}
  <2>1. C # {} /\ C \subseteq Nat
    BY <1>1
  <2> HIDE DEF C
  <2>2. \E c \in C : \A k \in C : c <= k
    BY <2>1, Least
  <2> QED
    BY <2>2 DEF C
<1>3. PICK p \in row : p[2] = c
  OBVIOUS
<1>4. p \in ps /\ \A q \in ps : ~Follows(p, q)
  BY <1>1, <1>2, <1>3 DEF Follows
<1> QED
  BY <1>4 DEF Earliest

(* Some positions have a latest one.                                       *)
LEMMA LatestAmong ==
  ASSUME NEW n \in Nat \ {0}, NEW f, \A i \in 1..n : f[i] \in Nat \X Nat
  PROVE  \E i \in 1..n : \A j \in 1..n : ~Follows(f[j], f[i])
<1> DEFINE T == {k \in Nat : k < n => \E i \in 1..(k + 1) : \A j \in 1..(k + 1) : ~Follows(f[j], f[i])}
<1>1. 0 \in T
  <2>1. 0 + 1 \in 1..n /\ f[0 + 1] \in Nat \X Nat /\ \A j \in 1..(0 + 1) : j = 0 + 1
    OBVIOUS
  <2> QED
    BY <2>1 DEF Follows
<1>2. ASSUME NEW k \in T, k + 1 < n
      PROVE  \E i \in 1..(k + 2) : \A j \in 1..(k + 2) : ~Follows(f[j], f[i])
  <2>1. PICK i \in 1..(k + 1) : \A j \in 1..(k + 1) : ~Follows(f[j], f[i])
    BY <1>2
  <2>2. /\ k \in Nat /\ k + 2 \in 1..n /\ \A j \in 1..(k + 2) : j \in 1..n /\ (j \in 1..(k + 1) \/ j = k + 2)
        /\ i \in 1..(k + 2) /\ k + 2 \in 1..(k + 2)
    BY <1>2
  <2>3. \A j \in 1..(k + 2) : f[j] \in Nat \X Nat
    BY <2>2
  <2>4. CASE Follows(f[k + 2], f[i])
    <3>1. \A j \in 1..(k + 2) : ~Follows(f[j], f[k + 2])
      BY <2>1, <2>2, <2>3, <2>4 DEF Follows
    <3> QED
      BY <3>1, <2>2
  <2>5. CASE ~Follows(f[k + 2], f[i])
    BY <2>1, <2>2, <2>5
  <2> QED
    BY <2>4, <2>5
<1>3. \A k \in T : k + 1 \in T
  <2> TAKE k \in T
  <2>1. k + 1 \in Nat /\ (k + 1) + 1 = k + 2
    OBVIOUS
  <2>2. CASE k + 1 < n
    BY <1>2, <2>1, <2>2
  <2>3. CASE ~(k + 1 < n)
    BY <2>1, <2>3
  <2> QED
    BY <2>2, <2>3
<1>4. n - 1 \in T
  <2>1. T \subseteq Nat /\ n - 1 \in Nat
    OBVIOUS
  <2> HIDE DEF T
  <2> QED
    BY <1>1, <1>3, <2>1, Induction
<1>5. (n - 1) + 1 = n /\ n - 1 < n
  OBVIOUS
<1> QED
  BY <1>4, <1>5

(* Latest is one of the positions, and none is after it.                   *)
LEMMA LatestRight ==
  ASSUME NEW n \in Nat \ {0}, NEW f, \A i \in 1..n : f[i] \in Nat \X Nat
  PROVE  LET ps == {f[i] : i \in 1..n}
         IN  Latest(ps) \in ps /\ \A q \in ps : ~Follows(q, Latest(ps))
<1>1. PICK i \in 1..n : \A j \in 1..n : ~Follows(f[j], f[i])
  BY LatestAmong
<1> QED
  BY <1>1 DEF Latest

(* The range that the server is asked for covers all diagnostics.          *)
LEMMA SpanningCovers ==
  ASSUME NEW ds \in Seq(Flagged), NEW i \in 1..Len(ds)
  PROVE  PositionInRange(ds[i].from, SpanningRange(ds)) /\ PositionInRange(ds[i].to, SpanningRange(ds))
<1> DEFINE n == Len(ds)
           starts == {ds[j].from : j \in 1..n}
           ends == {ds[j].to : j \in 1..n}
           r == SpanningRange(ds)
<1>1. /\ n \in Nat \ {0}
      /\ \A j \in 1..n : /\ ds[j].from \in Nat \X Nat /\ ds[j].to \in Nat \X Nat
                         /\ ~Follows(ds[j].from, ds[j].to)
  <2>1. n \in Nat \ {0} /\ \A j \in 1..n : ds[j] \in Flagged
    OBVIOUS
  <2>2. \A x \in Flagged : x.from \in Nat \X Nat /\ x.to \in Nat \X Nat /\ ~Follows(x.from, x.to)
    BY DEF Flagged
  <2> HIDE DEF n
  <2> QED
    BY <2>1, <2>2
<1>2. r.from = Earliest(starts) /\ r.to = Latest(ends)
  BY DEF SpanningRange
<1> HIDE DEF n, r
<1>3. \A q \in starts : ~Follows(r.from, q)
  <2>1. starts # {} /\ starts \subseteq Nat \X Nat
    BY <1>1
  <2> HIDE DEF starts
  <2> QED
    BY <2>1, <1>2, EarliestRight
<1>4. r.from \in Nat \X Nat
  <2>1. starts # {} /\ starts \subseteq Nat \X Nat
    BY <1>1
  <2> HIDE DEF starts
  <2> QED
    BY <2>1, <1>2, EarliestRight
<1>5. /\ r.to \in Nat \X Nat
      /\ \A j \in 1..n : ~Follows(ds[j].to, r.to)
  <2> DEFINE f == [j \in 1..n |-> ds[j].to]
  <2>1. ends = {f[j] : j \in 1..n} /\ \A j \in 1..n : f[j] = ds[j].to
    OBVIOUS
  <2>2. \A j \in 1..n : f[j] \in Nat \X Nat
    BY <1>1
  <2> HIDE DEF f
  <2>3. LET ps == {f[j] : j \in 1..n} IN Latest(ps) \in ps /\ \A q \in ps : ~Follows(q, Latest(ps))
    BY <1>1, <2>2, LatestRight
  <2> HIDE DEF ends
  <2>4. Latest(ends) \in ends /\ \A q \in ends : ~Follows(q, Latest(ends))
    BY <2>1, <2>3
  <2> QED
    BY <1>1, <1>2, <2>1, <2>4
<1>6. i \in 1..n /\ ds[i].from \in starts
  BY DEF n
<1>7. ~Follows(ds[i].from, r.to)
  BY <1>1, <1>5, <1>6, FollowsOrders
<1>8. ~Follows(r.from, ds[i].to)
  BY <1>1, <1>3, <1>4, <1>6, FollowsOrders
<1> QED
  BY <1>3, <1>5, <1>6, <1>7, <1>8 DEF PositionInRange, r

(* What is chosen from a sequence at places with elements of T is a        *)
(* sequence over T.                                                        *)
LEMMA ChosenAmong ==
  ASSUME NEW S, NEW s \in Seq(S), NEW I \in SUBSET (1..Len(s)), NEW T, \A i \in I : s[i] \in T
  PROVE  Chosen(s, I) \in Seq(T)
<1>1. s \in Seq(S) /\ I \in SUBSET (1..Len(s))
  OBVIOUS
<1>2. /\ Chosen(s, I) \in Seq(S)
      /\ \A n \in 1..Len(Chosen(s, I)) : \E i \in I : Chosen(s, I)[n] = s[i]
  BY <1>1, ChosenRight
<1>3. \A n \in 1..Len(Chosen(s, I)) : Chosen(s, I)[n] \in T
  BY <1>2
<1> QED
  BY <1>2, <1>3

(* The diagnostics that a fix is looked for (apply_fix.go) are on the      *)
(* line, or lie around the position, and have the code.                    *)
LEMMA MatchRight ==
  ASSUME NEW ds \in Seq(Flagged), NEW p, NEW code
  PROVE  MatchDiagnosticsAtPosition(ds, p, code)
           \in Seq({d \in Flagged : /\ d.from[1] = p[1] \/ PositionInRange(p, d)
                                    /\ code = Anything \/ code \in d.code})
<1> DEFINE Near == {d \in Flagged : d.from[1] = p[1] \/ PositionInRange(p, d)}
           exact == Chosen(ds, {i \in 1..Len(ds) : ds[i].from = p})
           line == Chosen(ds, {i \in 1..Len(ds) : ds[i].from[1] = p[1]})
           around == Chosen(ds, {i \in 1..Len(ds) : PositionInRange(p, ds[i])})
           taken == IF exact # <<>> THEN exact ELSE IF line # <<>> THEN line ELSE around
           I == {i \in 1..Len(taken) : code = Anything \/ code \in taken[i].code}
<1>1. exact \in Seq(Near)
  <2> DEFINE J == {i \in 1..Len(ds) : ds[i].from = p}
  <2>1. J \in SUBSET (1..Len(ds)) /\ \A i \in J : ds[i] \in Near
    OBVIOUS
  <2> HIDE DEF J, Near
  <2>2. Chosen(ds, J) \in Seq(Near)
    BY <2>1, ChosenAmong
  <2> QED
    BY <2>2 DEF J
<1>2. line \in Seq(Near)
  <2> DEFINE J == {i \in 1..Len(ds) : ds[i].from[1] = p[1]}
  <2>1. J \in SUBSET (1..Len(ds)) /\ \A i \in J : ds[i] \in Near
    OBVIOUS
  <2> HIDE DEF J, Near
  <2>2. Chosen(ds, J) \in Seq(Near)
    BY <2>1, ChosenAmong
  <2> QED
    BY <2>2 DEF J
<1>3. around \in Seq(Near)
  <2> DEFINE J == {i \in 1..Len(ds) : PositionInRange(p, ds[i])}
  <2>1. J \in SUBSET (1..Len(ds)) /\ \A i \in J : ds[i] \in Near
    OBVIOUS
  <2> HIDE DEF J, Near
  <2>2. Chosen(ds, J) \in Seq(Near)
    BY <2>1, ChosenAmong
  <2> QED
    BY <2>2 DEF J
<1>4. MatchDiagnosticsAtPosition(ds, p, code) = Chosen(taken, I)
  BY DEF MatchDiagnosticsAtPosition, FilterByCode, Filtered
<1> HIDE DEF exact, line, around
<1>5. taken \in Seq(Near)
  BY <1>1, <1>2, <1>3
<1> HIDE DEF taken
<1> DEFINE Addressed == {d \in Flagged : /\ d.from[1] = p[1] \/ PositionInRange(p, d)
                                         /\ code = Anything \/ code \in d.code}
<1>6. I \in SUBSET (1..Len(taken)) /\ \A i \in I : taken[i] \in Addressed
  BY <1>5
<1> HIDE DEF I, Near, Addressed
<1>7. Chosen(taken, I) \in Seq(Addressed)
  BY <1>5, <1>6, ChosenAmong
<1> QED
  BY <1>4, <1>7 DEF Addressed

(* The fixes that are fetched are those of the answer that are enabled,    *)
(* whatever their order.                                                   *)
LEMMA FetchRight ==
  ASSUME NEW answer, answer.actions \in Seq(FixActions)
  PROVE  LET fetched == FetchQuickFixActions(answer)
             enabled == {a \in ToSet(answer.actions) : a.enabled}
         IN  fetched \in Seq(enabled) /\ ToSet(fetched) = enabled /\ (fetched = <<>>) = (enabled = {})
<1> DEFINE s == answer.actions
           I == {i \in 1..Len(s) : s[i].enabled}
           enabled == {a \in ToSet(s) : a.enabled}
<1>1. FetchQuickFixActions(answer) = Chosen(s, I)
  BY DEF FetchQuickFixActions, Filtered
<1>2. I \in SUBSET (1..Len(s)) /\ s \in Seq(FixActions)
  OBVIOUS
<1>3. (\A i \in I : s[i] \in enabled) /\ \A a \in enabled : \E i \in I : a = s[i]
  BY DEF ToSet
<1> HIDE DEF I, s, enabled
<1>4. /\ Chosen(s, I) \in Seq(FixActions)
      /\ (Chosen(s, I) = <<>>) = (I = {})
  BY <1>2, ChosenRight
<1>5. /\ \A n \in 1..Len(Chosen(s, I)) : \E i \in I : Chosen(s, I)[n] = s[i]
      /\ \A i \in I : \E n \in 1..Len(Chosen(s, I)) : Chosen(s, I)[n] = s[i]
  BY <1>2, ChosenRight
<1>6. Chosen(s, I) \in Seq(enabled)
  BY <1>2, <1>3, ChosenAmong
<1>7. ToSet(Chosen(s, I)) = enabled
  <2>1. \A t : t \in Seq(FixActions) => ToSet(t) = {t[n] : n \in 1..Len(t)}
    BY DEF ToSet
  <2>2. ToSet(Chosen(s, I)) = {Chosen(s, I)[n] : n \in 1..Len(Chosen(s, I))}
    BY <1>4, <2>1
  <2> QED
    BY <1>3, <1>5, <2>2
<1>8. (I = {}) = (enabled = {})
  BY <1>3
<1> QED
  BY <1>1, <1>4, <1>6, <1>7, <1>8 DEF s, enabled

(* With titles that differ, the first by its title does not depend on      *)
(* anything but the set.                                                   *)
LEMMA FirstByTitleRight ==
  ASSUME NEW A, A # {}, \A a \in A : a.title \in Nat
  PROVE  FirstByTitle(A) \in A
<1> DEFINE N == {a.title : a \in A}
<1>1. N # {} /\ N \subseteq Nat
  OBVIOUS
<1> HIDE DEF N
<1>2. PICK t \in N : \A u \in N : t <= u
  BY <1>1, Least
<1>3. \E a \in A : \A b \in A : a.title <= b.title
  BY <1>2 DEF N
<1> QED
  BY <1>3 DEF FirstByTitle

(* What the order of the list could decide is decided by its set.          *)
Best(A) ==
  LET preferred == {a \in A : a.preferred}
  IN  FirstByTitle(IF preferred # {} THEN preferred ELSE A)

(* The best of the enabled fixes is preferred if one of them is.           *)
LEMMA BestRight ==
  ASSUME NEW A, A # {}, \A a \in A : a.title \in Nat
  PROVE  Best(A) \in IF {a \in A : a.preferred} = {} THEN A ELSE {a \in A : a.preferred}
<1> DEFINE P == {a \in A : a.preferred}
<1>1. \A a \in P : a.title \in Nat
  OBVIOUS
<1>2. Best(A) = FirstByTitle(IF P # {} THEN P ELSE A)
  BY DEF Best
<1> SUFFICES Best(A) \in IF P = {} THEN A ELSE P
  OBVIOUS
<1> HIDE DEF P
<1>3. CASE P = {}
  <2>1. FirstByTitle(A) \in A
    BY FirstByTitleRight
  <2> QED
    BY <1>2, <1>3, <2>1
<1>4. CASE P # {}
  <2>1. FirstByTitle(P) \in P
    BY <1>1, <1>4, FirstByTitleRight
  <2> QED
    BY <1>2, <1>4, <2>1
<1> QED
  BY <1>3, <1>4

(* What apply_fix does depends on the set of the fixes that are enabled    *)
(* alone.                                                                  *)
LEMMA ApplyFixIs ==
  ASSUME NEW answer, answer.actions \in Seq(FixActions), NEW ds, NEW p, NEW code
  PROVE  LET A == {a \in ToSet(answer.actions) : a.enabled}
         IN  ApplyFix(ds, p, code, answer) =
               IF MatchDiagnosticsAtPosition(ds, p, code) = <<>> \/ ~answer.ok \/ A = {} \/ ToApply(Best(A)) # "edit"
               THEN [ok |-> FALSE] ELSE [ok |-> TRUE, title |-> Best(A).title]
<1> DEFINE A == {a \in ToSet(answer.actions) : a.enabled}
           fetched == FetchQuickFixActions(answer)
<1>1. ToSet(fetched) = A /\ (fetched = <<>>) = (A = {}) /\ fetched \in Seq(A)
  BY FetchRight
<1>2. {fetched[i] : i \in 1..Len(fetched)} = A
  BY <1>1 DEF ToSet
<1>3. SelectBestAction(fetched) = Best(A)
  BY <1>2 DEF SelectBestAction, Best
<1> HIDE DEF A, fetched
<1>4. ApplyFix(ds, p, code, answer) =
        IF MatchDiagnosticsAtPosition(ds, p, code) = <<>> \/ ~answer.ok \/ fetched = <<>>
           \/ ToApply(SelectBestAction(fetched)) # "edit"
        THEN [ok |-> FALSE] ELSE [ok |-> TRUE, title |-> SelectBestAction(fetched).title]
  BY DEF ApplyFix, fetched
<1> QED
  BY <1>1, <1>3, <1>4 DEF A

(* A list turned round has the same elements.                              *)
LEMMA ReverseRight ==
  ASSUME NEW S, NEW s \in Seq(S)
  PROVE  Reverse(s) \in Seq(S) /\ ToSet(Reverse(s)) = ToSet(s)
<1>1. /\ Len(s) \in Nat /\ \A i \in 1..Len(s) : s[i] \in S
      /\ Reverse(s) = [i \in 1..Len(s) |-> s[(Len(s) - i) + 1]]
  BY DEF Reverse
<1>2. \A i \in 1..Len(s) : (Len(s) - i) + 1 \in 1..Len(s) /\ (Len(s) - ((Len(s) - i) + 1)) + 1 = i
  BY <1>1
<1>3. Reverse(s) \in Seq(S) /\ Len(Reverse(s)) = Len(s)
  BY <1>1, <1>2
<1>4. \A i \in 1..Len(s) : s[i] = Reverse(s)[(Len(s) - i) + 1] /\ Reverse(s)[i] = s[(Len(s) - i) + 1]
  BY <1>1, <1>2
<1>5. ToSet(s) = {s[i] : i \in 1..Len(s)} /\ ToSet(Reverse(s)) = {Reverse(s)[i] : i \in 1..Len(s)}
  BY <1>3 DEF ToSet
<1>6. {s[i] : i \in 1..Len(s)} = {Reverse(s)[i] : i \in 1..Len(s)}
  BY <1>2, <1>4
<1> QED
  BY <1>3, <1>5, <1>6

(* A round for all applies a fix that is preferred.                        *)
LEMMA RoundRight ==
  ASSUME NEW answer, answer.actions \in Seq(FixActions), ApplyAllRound(answer).ok
  PROVE  \E a \in ToSet(answer.actions) : a.enabled /\ a.preferred /\ a.title = ApplyAllRound(answer).title
<1> DEFINE A == {a \in ToSet(answer.actions) : a.enabled}
           fetched == FetchQuickFixActions(answer)
           I == {i \in 1..Len(fetched) : fetched[i].preferred}
           chosen == Chosen(fetched, I)
<1>1. fetched \in Seq(A)
  BY FetchRight
<1>2. I \in SUBSET (1..Len(fetched)) /\ \A i \in I : fetched[i] \in {a \in A : a.preferred}
  BY <1>1
<1>3. chosen \in Seq({a \in A : a.preferred})
  <2> DEFINE T == {a \in A : a.preferred}
  <2> HIDE DEF A, fetched, I, T
  <2> QED
    BY <1>1, <1>2, ChosenAmong DEF T
<1>4. ApplyAllRound(answer) = IF ~answer.ok \/ chosen = <<>> \/ ToApply(chosen[1]) # "edit"
                              THEN [ok |-> FALSE] ELSE [ok |-> TRUE, title |-> chosen[1].title]
  BY DEF ApplyAllRound, Filtered
<1> HIDE DEF chosen
<1>5. chosen # <<>> /\ ApplyAllRound(answer).title = chosen[1].title
  BY <1>4
<1>6. chosen[1] \in {a \in A : a.preferred}
  BY <1>3, <1>5
<1> QED
  BY <1>5, <1>6

(* FixChosen holds of every question about a fix.                          *)
LEMMA FixChosenThere ==
  ASSUME question.topic = "fix", FixAsked
  PROVE  FixChosen
<1> DEFINE p == question.at
           ds == question.diagnostics
           code == question.code
           answer == question.answer
           turned == [question.answer EXCEPT !.actions = Reverse(@)]
           matched == MatchDiagnosticsAtPosition(ds, p, code)
           fix == ApplyFix(ds, p, code, answer)
           A == {a \in ToSet(answer.actions) : a.enabled}
<1>1. ds \in Seq(Flagged) /\ answer.actions \in Seq(FixActions) /\ answer.ok \in BOOLEAN
  BY DEF FixAsked
<1>2. turned.actions = Reverse(answer.actions) /\ turned.ok = answer.ok
  BY DEF FixAsked
<1>3. turned.actions \in Seq(FixActions) /\ {a \in ToSet(turned.actions) : a.enabled} = A
  <2>1. Reverse(answer.actions) \in Seq(FixActions) /\ ToSet(Reverse(answer.actions)) = ToSet(answer.actions)
    BY <1>1, ReverseRight
  <2> QED
    BY <1>2, <2>1
<1>4. \A a \in A : a.title \in Nat
  <2>1. \A a \in ToSet(answer.actions) : a \in FixActions
    BY <1>1 DEF ToSet
  <2> QED
    BY <2>1 DEF FixActions
<1>5. fix = IF matched = <<>> \/ ~answer.ok \/ A = {} \/ ToApply(Best(A)) # "edit"
            THEN [ok |-> FALSE] ELSE [ok |-> TRUE, title |-> Best(A).title]
  BY <1>1, ApplyFixIs
<1>6. ApplyFix(ds, p, code, turned) =
        IF matched = <<>> \/ ~turned.ok \/ A = {} \/ ToApply(Best(A)) # "edit"
        THEN [ok |-> FALSE] ELSE [ok |-> TRUE, title |-> Best(A).title]
  <2> DEFINE B == {a \in ToSet(turned.actions) : a.enabled}
  <2> HIDE DEF turned, A, fix
  <2>1. B = A
    BY <1>3
  <2>2. ApplyFix(ds, p, code, turned) =
          IF matched = <<>> \/ ~turned.ok \/ B = {} \/ ToApply(Best(B)) # "edit"
          THEN [ok |-> FALSE] ELSE [ok |-> TRUE, title |-> Best(B).title]
    BY <1>3, ApplyFixIs
  <2> QED
    BY <2>1, <2>2
<1>7. fix = ApplyFix(ds, p, code, turned)
  BY <1>2, <1>5, <1>6
<1>8. ASSUME fix.ok
      PROVE  \E a \in IF {b \in A : b.preferred} = {} THEN A ELSE {b \in A : b.preferred} :
               a.title = fix.title /\ ToApply(a) = "edit"
  <2> HIDE DEF A, fix
  <2>1. A # {} /\ ToApply(Best(A)) = "edit" /\ fix.title = Best(A).title
    BY <1>5, <1>8
  <2>2. Best(A) \in IF {b \in A : b.preferred} = {} THEN A ELSE {b \in A : b.preferred}
    BY <2>1, <1>4, BestRight
  <2> QED
    BY <2>1, <2>2
<1>9. ASSUME ApplyAllRound(answer).ok
      PROVE  \E a \in {b \in A : b.preferred} : a.title = ApplyAllRound(answer).title
  BY <1>1, <1>9, RoundRight
<1>10. matched \in Seq({d \in Flagged : /\ d.from[1] = p[1] \/ PositionInRange(p, d)
                                        /\ code = Anything \/ code \in d.code})
  BY <1>1, MatchRight
<1>11. \A i \in 1..Len(matched) :
         /\ matched[i].from[1] = p[1] \/ PositionInRange(p, matched[i])
         /\ code = Anything \/ code \in matched[i].code
         /\ PositionInRange(matched[i].from, SpanningRange(matched))
         /\ PositionInRange(matched[i].to, SpanningRange(matched))
  <2> HIDE DEF matched
  <2> TAKE i \in 1..Len(matched)
  <2>1. matched[i] \in {d \in Flagged : /\ d.from[1] = p[1] \/ PositionInRange(p, d)
                                        /\ code = Anything \/ code \in d.code}
    BY <1>10
  <2>2. matched \in Seq(Flagged)
    BY <1>10
  <2>3. PositionInRange(matched[i].from, SpanningRange(matched)) /\ PositionInRange(matched[i].to, SpanningRange(matched))
    BY <2>2, SpanningCovers
  <2> QED
    BY <2>1, <2>3
<1> QED
  BY <1>7, <1>8, <1>9, <1>11 DEF FixChosen

-----------------------------------------------------------------------------
(* Differences of diagnostics.                                             *)

(* A finite set has as many elements as its image under an injection.      *)
LEMMA SameSize ==
  ASSUME NEW S, NEW T, NEW f, IsFiniteSet(S), \A x \in S : f[x] \in T,
         \A x, y \in S : f[x] = f[y] => x = y, \A z \in T : \E x \in S : f[x] = z
  PROVE  Cardinality(T) = Cardinality(S)
<1> DEFINE g == [x \in S |-> f[x]]
<1>1. \A x \in S : g[x] = f[x]
  OBVIOUS
<1>2. g \in [S -> T]
  OBVIOUS
<1> HIDE DEF g
<1>3. \A x, y \in S : g[x] = g[y] => x = y
  BY <1>1
<1>4. \A z \in T : \E x \in S : g[x] = z
  BY <1>1
<1>5. g \in Injection(S, T)
  BY <1>2, <1>3 DEF Injection, IsInjective
<1>6. g \in Surjection(S, T)
  BY <1>2, <1>4 DEF Surjection
<1>7. ExistsBijection(S, T)
  BY <1>5, <1>6 DEF ExistsBijection, Bijection
<1> QED
  BY <1>7, FS_Bijection

(* Of n places, as many have a rank above k as n exceeds k by.             *)
LEMMA CountAbove ==
  ASSUME NEW m \in Nat, NEW K \in SUBSET (1..m), NEW t \in Nat
  PROVE  Cardinality({i \in K : Rank(K, i) > t}) =
           IF Cardinality(K) > t THEN Cardinality(K) - t ELSE 0
<1> DEFINE c == Cardinality(K)
           S == (t + 1)..c
           T == {i \in K : Rank(K, i) > t}
           f == [n \in S |-> Nth(K, n)]
<1>1. c \in Nat
  BY PlacesFinite
<1>2. IsFiniteSet(S) /\ Cardinality(S) = IF c > t THEN c - t ELSE 0
  <2> HIDE DEF c
  <2>1. t + 1 \in Int /\ c \in Int
    BY <1>1
  <2>2. IsFiniteSet(S) /\ Cardinality(S) = IF t + 1 > c THEN 0 ELSE c - (t + 1) + 1
    BY <2>1, FS_Interval
  <2> HIDE DEF S
  <2> QED
    BY <1>1, <2>2
<1>3. \A n \in 1..c : Nth(K, n) \in K /\ Rank(K, Nth(K, n)) = n
  BY NthRight
<1>4. \A i \in K : Rank(K, i) \in 1..c /\ Nth(K, Rank(K, i)) = i
  BY NthRight, RankBounds
<1> HIDE DEF c
<1>5. \A n \in S : n \in 1..c /\ n > t
  BY <1>1
<1>6. \A n \in S : f[n] = Nth(K, n) /\ f[n] \in T /\ Rank(K, f[n]) = n
  BY <1>3, <1>5
<1>7. \A i \in T : Rank(K, i) \in S /\ Nth(K, Rank(K, i)) = i
  BY <1>1, <1>4
<1>8. \A i \in T : \E n \in S : f[n] = i
  BY <1>7
<1>9. \A x, y \in S : f[x] = f[y] => x = y
  BY <1>6
<1> HIDE DEF S, T, f
<1>10. Cardinality(T) = Cardinality(S)
  BY <1>2, <1>6, <1>8, <1>9, SameSize
<1> QED
  BY <1>2, <1>10 DEF T, c

(* How often a key occurs in what is chosen.                               *)
LEMMA TimesChosen ==
  ASSUME NEW D, NEW s \in Seq(D), NEW I \in SUBSET (1..Len(s)), NEW key
  PROVE  Times(Chosen(s, I), key) = Cardinality({i \in I : Key(s[i]) = key})
<1> DEFINE c == Cardinality(I)
           S == {n \in 1..Len(Chosen(s, I)) : Key(Chosen(s, I)[n]) = key}
           T == {i \in I : Key(s[i]) = key}
           f == [n \in S |-> Nth(I, n)]
<1>1. Len(s) \in Nat
  OBVIOUS
<1>2. Len(Chosen(s, I)) = c /\ \A n \in 1..c : Chosen(s, I)[n] = s[Nth(I, n)]
  BY ChosenRight
<1>3. \A n \in 1..c : Nth(I, n) \in I /\ Rank(I, Nth(I, n)) = n
  BY <1>1, NthRight
<1>4. \A i \in I : Rank(I, i) \in 1..c /\ Nth(I, Rank(I, i)) = i
  BY <1>1, NthRight, RankBounds
<1>5. c \in Nat
  BY <1>1, PlacesFinite
<1> HIDE DEF c
<1>6. S \in SUBSET (1..c) /\ IsFiniteSet(S)
  <2>1. S \in SUBSET (1..c)
    BY <1>2
  <2> HIDE DEF S
  <2> QED
    BY <1>5, <2>1, PlacesFinite
<1>7. \A n \in S : f[n] = Nth(I, n) /\ f[n] \in T /\ Rank(I, f[n]) = n
  BY <1>2, <1>3
<1>8. \A i \in T : Rank(I, i) \in S /\ Nth(I, Rank(I, i)) = i
  BY <1>2, <1>4
<1>9. \A i \in T : \E n \in S : f[n] = i
  BY <1>8
<1>10. \A x, y \in S : f[x] = f[y] => x = y
  BY <1>7
<1> HIDE DEF S, T, f
<1>11. Cardinality(T) = Cardinality(S)
  BY <1>6, <1>7, <1>9, <1>10, SameSize
<1> QED
  BY <1>11 DEF S, T, Times

(* How often a key has occurred so far is the rank of the place among      *)
(* those of the key.                                                       *)
LEMMA TimesSoFar ==
  ASSUME NEW D, NEW s \in Seq(D), NEW i \in 1..Len(s), NEW key
  PROVE  Times(SubSeq(s, 1, i), key) = Rank({j \in 1..Len(s) : Key(s[j]) = key}, i)
<1>1. Len(s) \in Nat /\ i \in Nat
  OBVIOUS
<1>2. Len(SubSeq(s, 1, i)) = i /\ \A j \in 1..i : SubSeq(s, 1, i)[j] = s[j]
  OBVIOUS
<1>3. {j \in 1..Len(SubSeq(s, 1, i)) : Key(SubSeq(s, 1, i)[j]) = key}
        = {j \in {k \in 1..Len(s) : Key(s[k]) = key} : j <= i}
  BY <1>1, <1>2
<1> QED
  BY <1>3 DEF Times, Rank

(* A key is left over (computeDiagnosticDiff) as often as the one snapshot *)
(* has it more often than the other.                                       *)
LEMMA UnmatchedTimes ==
  ASSUME NEW D, NEW s \in Seq(D), NEW others \in Seq(D), NEW key
  PROVE  /\ Times(s, key) \in Nat /\ Times(others, key) \in Nat
         /\ Times(Unmatched(s, others), key) =
              IF Times(s, key) > Times(others, key) THEN Times(s, key) - Times(others, key) ELSE 0
<1> DEFINE K == {j \in 1..Len(s) : Key(s[j]) = key}
           O == {j \in 1..Len(others) : Key(others[j]) = key}
           I == {i \in 1..Len(s) : Times(SubSeq(s, 1, i), Key(s[i])) > Times(others, Key(s[i]))}
           t == Times(others, key)
<1>1. Len(s) \in Nat /\ Len(others) \in Nat
  OBVIOUS
<1>2. K \in SUBSET (1..Len(s)) /\ O \in SUBSET (1..Len(others)) /\ I \in SUBSET (1..Len(s))
  OBVIOUS
<1>3. Times(s, key) = Cardinality(K) /\ t = Cardinality(O)
  BY DEF Times
<1>4. Unmatched(s, others) = Chosen(s, I)
  BY DEF Unmatched
<1>5. {i \in I : Key(s[i]) = key} = {i \in K : Rank(K, i) > t}
  <2>1. \A i \in K : Times(SubSeq(s, 1, i), key) = Rank(K, i)
    BY TimesSoFar
  <2> QED
    BY <2>1
<1> HIDE DEF K, O, I, t
<1>6. Cardinality(K) \in Nat /\ Cardinality(O) \in Nat /\ t \in Nat
  BY <1>1, <1>2, <1>3, PlacesFinite
<1>7. Times(Chosen(s, I), key) = Cardinality({i \in I : Key(s[i]) = key})
  BY <1>2, TimesChosen
<1>8. Cardinality({i \in K : Rank(K, i) > t}) = IF Cardinality(K) > t THEN Cardinality(K) - t ELSE 0
  BY <1>1, <1>2, <1>6, CountAbove
<1> QED
  BY <1>3, <1>4, <1>5, <1>6, <1>7, <1>8 DEF t

(* DiffBalances holds of every question about diagnostics.                 *)
LEMMA DiffBalancesThere ==
  ASSUME NEW D, question.topic = "diagnostics", \A i \in 1..Len(question.files) :
            question.files[i].now \in Seq(D) /\ question.files[i].before \in Seq(D)
  PROVE  DiffBalances
<1> SUFFICES ASSUME NEW i \in 1..Len(question.files), NEW key
             PROVE  LET f == question.files[i]
                        d == ComputeDiagnosticDiff(f.before, f.now)
                    IN  /\ Times(d.new, key) - Times(d.resolved, key) = Times(f.now, key) - Times(f.before, key)
                        /\ Times(d.new, key) = 0 \/ Times(d.resolved, key) = 0
  BY DEF DiffBalances
<1> DEFINE now == question.files[i].now
           before == question.files[i].before
           d == ComputeDiagnosticDiff(before, now)
<1>1. now \in Seq(D) /\ before \in Seq(D)
  OBVIOUS
<1>2. d.new = Unmatched(now, before) /\ d.resolved = Unmatched(before, now)
  BY DEF ComputeDiagnosticDiff
<1> HIDE DEF now, before, d
<1>3. /\ Times(now, key) \in Nat /\ Times(before, key) \in Nat
      /\ Times(d.new, key) =
           IF Times(now, key) > Times(before, key) THEN Times(now, key) - Times(before, key) ELSE 0
  BY <1>1, <1>2, UnmatchedTimes
<1>4. Times(d.resolved, key) =
        IF Times(before, key) > Times(now, key) THEN Times(before, key) - Times(now, key) ELSE 0
  BY <1>1, <1>2, UnmatchedTimes
<1>5. /\ Times(d.new, key) - Times(d.resolved, key) = Times(now, key) - Times(before, key)
      /\ Times(d.new, key) = 0 \/ Times(d.resolved, key) = 0
  BY <1>3, <1>4
<1> QED
  BY <1>5 DEF now, before, d

-----------------------------------------------------------------------------
(* Places.                                                                 *)

(* The arguments name the place of the question.                           *)
There == <<Arg(question.args, "line", 0) - 1, Arg(question.args, "column", 0) - 1>> = question.place

(* What becomes of a line or a column that is given.                       *)
LEMMA BeyondNat == Beyond \in Nat /\ \A n \in Nat : ZeroBased(n) = IF n = 0 THEN Beyond ELSE n - 1
<1>1. Beyond \in Nat
  BY SMT DEF Beyond
<1> QED
  BY <1>1 DEF ZeroBased

(* The arguments of a question about a place are numbers.                  *)
LEMMA ArgsTyped ==
  ASSUME question.topic = "places", PlaceAsked
  PROVE  /\ DOMAIN question.args \subseteq {"filePath", "line", "column"} /\ "filePath" \in DOMAIN question.args
         /\ Arg(question.args, "line", 0) \in Nat /\ Arg(question.args, "column", 0) \in Nat
<1>1. PICK given \in SUBSET {"line", "column"} : question.args \in [given \cup {"filePath"} -> Nat]
  BY DEF PlaceAsked
<1> QED
  BY <1>1 DEF Arg, Given

(* The position that the tools make of the arguments is the place asked    *)
(* for exactly if they name it.                                            *)
LEMMA PlaceRight ==
  ASSUME question.topic = "places", PlaceAsked, NEW args,
         Arg(args, "line", 0) = Arg(question.args, "line", 0),
         Arg(args, "column", 0) = Arg(question.args, "column", 0)
  PROVE  /\ Position(args, DOMAIN question.file.at) \in DOMAIN question.file.at
         /\ There => Position(args, DOMAIN question.file.at) = question.place
         /\ ~There => Position(args, DOMAIN question.file.at) # question.place
<1> DEFINE l == Arg(question.args, "line", 0)
           c == Arg(question.args, "column", 0)
           p == <<ZeroBased(l), ZeroBased(c)>>
           places == DOMAIN question.file.at
<1>1. l \in Nat /\ c \in Nat
  BY ArgsTyped
<1>2. question.place \in (0..(Beyond - 1)) \X (0..(Beyond - 1)) /\ question.place \in places /\ Nowhere \in places
  BY DEF PlaceAsked
<1>3. Position(args, places) = IF p \in places THEN p ELSE Nowhere
  BY DEF Position, PlaceOf
<1>4. There <=> (<<l - 1, c - 1>> = question.place)
  BY DEF There
<1> HIDE DEF l, c, places
<1>5. PICK x \in 0..(Beyond - 1), y \in 0..(Beyond - 1) : question.place = <<x, y>>
  BY <1>2
<1>6. (ZeroBased(l) = x <=> l - 1 = x) /\ (ZeroBased(c) = y <=> c - 1 = y)
  BY <1>1, BeyondNat
<1>7. p = question.place <=> There
  BY <1>4, <1>5, <1>6
<1>8. Nowhere # question.place
  BY <1>5 DEF Nowhere
<1> HIDE DEF p
<1>9. Position(args, places) \in places
  BY <1>2, <1>3
<1>10. Position(args, places) = question.place <=> There
  BY <1>2, <1>3, <1>7, <1>8
<1> QED
  BY <1>9, <1>10 DEF places

(* The answer at that position is something exactly if the arguments name  *)
(* the place.                                                              *)
LEMMA AnswerAt ==
  ASSUME question.topic = "places", PlaceAsked, NEW args,
         Arg(args, "line", 0) = Arg(question.args, "line", 0),
         Arg(args, "column", 0) = Arg(question.args, "column", 0)
  PROVE  /\ There => Answers(At(args, question.file))
         /\ ~There => Refuses(At(args, question.file))
<1> DEFINE x == Position(args, DOMAIN question.file.at)
<1>1. x \in DOMAIN question.file.at /\ (There => x = question.place) /\ (~There => x # question.place)
  BY PlaceRight
<1>2. (x = question.place => Answers(question.file.at[x])) /\ (x # question.place => Refuses(question.file.at[x]))
  BY <1>1 DEF PlaceAsked
<1>3. At(args, question.file) = question.file.at[x]
  BY DEF At
<1> HIDE DEF x
<1> QED
  BY <1>1, <1>2, <1>3

(* What the tools make of an answer that is something, and of one that is  *)
(* not.                                                                    *)
LEMMA AnswersShown ==
  ASSUME NEW answer, Answers(answer), NEW opens, opens
  PROVE  /\ ReadDefinitionAtPosition(opens, answer.definition).kind = "sections"
         /\ ReadTypeDefinitionAtPosition(opens, answer.type).kind = "sections"
         /\ FindImplementationAtPosition(opens, answer.implementation).kind = "sections"
         /\ \A format, limit, offset :
              FindReferencesAtPosition(opens, answer.references, format, limit, offset).kind = "sections"
         /\ \A line, lines : GetHoverInfo(opens, answer.hover, line, lines).kind = "sections"
         /\ GetIncomingCalls(answer.calls).kind = "sections"
         /\ GetOutgoingCalls(answer.calls).kind = "sections"
<1>1. /\ answer.definition.ok /\ answer.definition.locs # <<>>
      /\ answer.type.ok /\ answer.type.locs # <<>>
      /\ answer.implementation.ok /\ answer.implementation.locs # <<>>
      /\ answer.references.ok /\ answer.references.locs # <<>>
      /\ answer.hover.ok
  BY DEF Answers
<1>2. /\ answer.calls.ok /\ answer.calls.items # <<>>
      /\ \A i \in 1..Len(answer.calls.items) :
           /\ answer.calls.items[i].incoming.ok
           /\ IF answer.calls.items[i].outgoing.unknown THEN answer.calls.items[i].synthetic.ok
              ELSE answer.calls.items[i].outgoing.ok
  BY DEF Answers
<1>3. ReadDefinitionAtPosition(opens, answer.definition).kind = "sections"
  BY <1>1 DEF ReadDefinitionAtPosition, PlacesAt, Sections
<1>4. ReadTypeDefinitionAtPosition(opens, answer.type).kind = "sections"
  BY <1>1 DEF ReadTypeDefinitionAtPosition, PlacesAt, Sections
<1>5. FindImplementationAtPosition(opens, answer.implementation).kind = "sections"
  BY <1>1 DEF FindImplementationAtPosition, PlacesAt, Sections
<1>6. \A format, limit, offset :
        FindReferencesAtPosition(opens, answer.references, format, limit, offset).kind = "sections"
  BY <1>1 DEF FindReferencesAtPosition, PlacesAt, Sections
<1>7. \A line, lines : GetHoverInfo(opens, answer.hover, line, lines).kind = "sections"
  BY <1>1 DEF GetHoverInfo, Sections
<1>8. GetIncomingCalls(answer.calls).kind = "sections"
  BY <1>2 DEF GetIncomingCalls, Sections
<1>9. GetOutgoingCalls(answer.calls).kind = "sections"
  BY <1>2 DEF GetOutgoingCalls, Sections
<1> QED
  BY <1>3, <1>4, <1>5, <1>6, <1>7, <1>8, <1>9

(* An answer that is an error, or empty, is told as such.                  *)
LEMMA RefusalsTold ==
  ASSUME NEW answer, Refuses(answer), NEW opens
  PROVE  /\ ReadDefinitionAtPosition(opens, answer.definition) = ErrorText
         /\ ReadTypeDefinitionAtPosition(opens, answer.type) = ErrorText
         /\ FindImplementationAtPosition(opens, answer.implementation) = ErrorText
         /\ \A format, limit, offset :
              FindReferencesAtPosition(opens, answer.references, format, limit, offset) = ErrorText
         /\ \A line, lines : GetHoverInfo(opens, answer.hover, line, lines) = ErrorText
         /\ GetIncomingCalls(answer.calls) = ErrorText
         /\ GetOutgoingCalls(answer.calls) = ErrorText
<1>1. /\ ~answer.definition.ok /\ ~answer.type.ok /\ ~answer.implementation.ok /\ ~answer.references.ok
      /\ ~answer.hover.ok /\ ~answer.calls.ok
  BY DEF Refuses
<1>2. /\ ReadDefinitionAtPosition(opens, answer.definition) = ErrorText
      /\ ReadTypeDefinitionAtPosition(opens, answer.type) = ErrorText
      /\ FindImplementationAtPosition(opens, answer.implementation) = ErrorText
  BY <1>1 DEF ReadDefinitionAtPosition, ReadTypeDefinitionAtPosition, FindImplementationAtPosition, PlacesAt
<1>3. /\ \A format, limit, offset :
              FindReferencesAtPosition(opens, answer.references, format, limit, offset) = ErrorText
      /\ \A line, lines : GetHoverInfo(opens, answer.hover, line, lines) = ErrorText
  BY <1>1 DEF FindReferencesAtPosition, PlacesAt, GetHoverInfo
<1>4. GetIncomingCalls(answer.calls) = ErrorText /\ GetOutgoingCalls(answer.calls) = ErrorText
  BY <1>1 DEF GetIncomingCalls, GetOutgoingCalls
<1> QED
  BY <1>2, <1>3, <1>4

(* The file of the question has a server.                                  *)
LEMMA OnFileIs ==
  ASSUME question.topic = "places", PlaceAsked, NEW args, "filePath" \in DOMAIN args, NEW answer
  PROVE  OnFile(args, [file |-> question.file], answer) = answer
BY DEF OnFile, Given, PlaceAsked

(* An answer that is cut stays one of its kind, and says that it is cut.   *)
LEMMA Trimmed ==
  ASSUME NEW answer, NEW format
  PROVE  \/ TrimResponse(answer, format) = answer
         \/ /\ answer.kind = "sections" /\ TrimResponse(answer, format).kind = "sections"
            /\ TrimResponse(answer, format).cut = TRUE
<1> DEFINE pages == answer.sections
           lines == [i \in 1..Len(pages) |-> [k \in 1..Space(pages[i], format) |-> k]]
           left(i) == ResponseSize - Cardinality({p \in Pairs(lines) : p[1] < i})
           kept == Chosen([i \in 1..Len(pages) |-> TrimPage(pages[i], format, left(i))],
                          {i \in 1..Len(pages) : left(i) > 0})
           fits == Cardinality(Pairs(lines)) <= ResponseSize
<1>1. TrimResponse(answer, format) =
        IF answer.kind # "sections" \/ fits THEN answer ELSE [kind |-> "sections", cut |-> TRUE, sections |-> kept]
  BY DEF TrimResponse
<1> HIDE DEF fits, kept
<1> QED
  BY <1>1

(* The tools that are given a place and only ask.                          *)
LEMMA ReadersRight ==
  ASSUME question.topic = "places", PlaceAsked
  PROVE  LET args == question.args
             world == [file |-> question.file]
         IN  /\ (get_definition(args, world).kind = "sections") <=> There
             /\ (get_type_definition(args, world).kind = "sections") <=> There
             /\ (get_implementation(args, world).kind = "sections") <=> There
             /\ (get_references(args, world).kind = "sections") <=> There
             /\ (hover(args, world).kind = "sections") <=> There
             /\ (incoming_calls(args, world).kind = "sections") <=> There
             /\ (outgoing_calls(args, world).kind = "sections") <=> There
<1> DEFINE args == question.args
           world == [file |-> question.file]
           answer == At(args, question.file)
           opens == question.file.opens
<1>1. opens /\ world.file = question.file
  BY DEF PlaceAsked
<1>2. \A x : OnFile(args, world, x) = x
  BY OnFileIs, ArgsTyped
<1>3. /\ get_definition(args, world) = ReadDefinitionAtPosition(opens, answer.definition)
      /\ get_type_definition(args, world) = ReadTypeDefinitionAtPosition(opens, answer.type)
      /\ get_implementation(args, world) = FindImplementationAtPosition(opens, answer.implementation)
      /\ \E format : get_references(args, world) =
           TrimResponse(FindReferencesAtPosition(opens, answer.references, format,
                                                 Arg(args, "limit", 30), Arg(args, "offset", 0)), format)
      /\ hover(args, world) = GetHoverInfo(opens, answer.hover, Arg(args, "line", 0), Len(question.file.text))
      /\ incoming_calls(args, world) = GetIncomingCalls(answer.calls)
      /\ outgoing_calls(args, world) = GetOutgoingCalls(answer.calls)
  BY <1>2 DEF get_definition, get_type_definition, get_implementation, get_references, hover, incoming_calls,
              outgoing_calls
<1>4. (There => Answers(answer)) /\ (~There => Refuses(answer))
  BY AnswerAt
<1> HIDE DEF args, world, answer, opens
<1>5. CASE There
  <2>1. Answers(answer) /\ opens
    BY <1>1, <1>4, <1>5
  <2>2. /\ ReadDefinitionAtPosition(opens, answer.definition).kind = "sections"
        /\ ReadTypeDefinitionAtPosition(opens, answer.type).kind = "sections"
        /\ FindImplementationAtPosition(opens, answer.implementation).kind = "sections"
        /\ \A format, limit, offset :
             FindReferencesAtPosition(opens, answer.references, format, limit, offset).kind = "sections"
        /\ \A line, lines : GetHoverInfo(opens, answer.hover, line, lines).kind = "sections"
        /\ GetIncomingCalls(answer.calls).kind = "sections"
        /\ GetOutgoingCalls(answer.calls).kind = "sections"
    BY <2>1, AnswersShown
  <2>3. get_references(args, world).kind = "sections"
    <3>1. PICK x, format : x.kind = "sections" /\ get_references(args, world) = TrimResponse(x, format)
      BY <1>3, <2>2
    <3> QED
      BY <3>1, Trimmed
  <2> QED
    BY <1>3, <1>5, <2>2, <2>3 DEF args, world
<1>6. CASE ~There
  <2>1. ErrorText.kind # "sections"
    BY DEF ErrorText
  <2>2. get_references(args, world).kind # "sections"
    <3>1. Refuses(answer)
      BY <1>4, <1>6
    <3>2. PICK x, format : x.kind # "sections" /\ get_references(args, world) = TrimResponse(x, format)
      BY <1>3, <2>1, <3>1, RefusalsTold
    <3> QED
      BY <3>2, Trimmed
  <2> QED
    BY <1>3, <1>4, <1>6, <2>1, <2>2, RefusalsTold DEF args, world
<1> QED
  BY <1>5, <1>6

(* dependency_graph answers for its place alone.                           *)
LEMMA GraphAnswers ==
  ASSUME question.topic = "places", PlaceAsked
  PROVE  (dependency_graph(question.args, [file |-> question.file]).kind = "sections") <=> There
<1> DEFINE args == question.args
           world == [file |-> question.file]
           g == At(args, question.file).graph
           drawn == GenerateCallGraph(g.roots, g.callees, g.callers, g.key, Arg(args, "depth", 3),
                                      Arg(args, "direction", "outgoing"))
<1>1. (There => g.ok /\ g.roots # <<>>) /\ (~There => ~g.ok)
  BY AnswerAt DEF Answers, Refuses
<1>2. \A x : OnFile(args, world, x) = x
  BY OnFileIs, ArgsTyped
<1>3. world.file = question.file
  OBVIOUS
<1>4. dependency_graph(args, world) = OnFile(args, world,
        IF ~g.ok THEN ErrorText ELSE IF g.roots = <<>> THEN NoneText ELSE Sections(<<drawn>>))
  BY DEF dependency_graph
<1> HIDE DEF g, drawn, args, world
<1>5. dependency_graph(args, world) = IF There THEN Sections(<<drawn>>) ELSE ErrorText
  BY <1>1, <1>2, <1>4
<1>6. (dependency_graph(args, world).kind = "sections") <=> There
  BY <1>5 DEF ErrorText, Sections
<1> QED
  BY <1>6 DEF args, world

(* rename_symbol answers for its place alone.                              *)
LEMMA RenameAnswers ==
  ASSUME question.topic = "places", PlaceAsked
  PROVE  (rename_symbol(With(question.args, "newName", "n"), [file |-> question.file]).kind = "sections") <=> There
<1> DEFINE args == With(question.args, "newName", "n")
           world == [file |-> question.file]
           answer == At(args, question.file).renamed
<1>1. /\ "filePath" \in DOMAIN args /\ "newName" \in DOMAIN args
      /\ Arg(args, "line", 0) = Arg(question.args, "line", 0)
      /\ Arg(args, "column", 0) = Arg(question.args, "column", 0)
  <2>1. DOMAIN args = DOMAIN question.args \cup {"newName"}
    BY DEF With
  <2>2. \A x \in DOMAIN question.args : x # "newName" => args[x] = question.args[x]
    BY DEF With
  <2> HIDE DEF args
  <2> QED
    BY <2>1, <2>2, ArgsTyped DEF Arg, Given
<1> HIDE DEF args
<1>2. (There => answer.ok /\ answer.changes # <<>>) /\ (~There => ~answer.ok)
  BY <1>1, AnswerAt DEF Answers, Refuses
<1>3. \A x : OnFile(args, world, x) = x
  BY <1>1, OnFileIs
<1>4. question.file.opens /\ Given(args, "newName") /\ world.file = question.file
  BY <1>1 DEF PlaceAsked, Given
<1>5. rename_symbol(args, world) = OnFile(args, world,
        IF ~Given(args, "newName") \/ ~question.file.opens \/ ~answer.ok THEN ErrorText
        ELSE IF answer.changes = <<>> THEN NoneText ELSE Sections(answer.changes))
  BY DEF rename_symbol
<1> HIDE DEF answer, world
<1>6. rename_symbol(args, world) = IF There THEN Sections(answer.changes) ELSE ErrorText
  BY <1>2, <1>3, <1>4, <1>5
<1>7. (rename_symbol(args, world).kind = "sections") <=> There
  BY <1>6 DEF ErrorText, Sections
<1> QED
  BY <1>7 DEF args, world

(* batch_hover answers for its places alone.                               *)
LEMMA BatchAnswers ==
  ASSUME question.topic = "places", PlaceAsked
  PROVE  LET batch == batch_hover([filePath |-> 1, positions |-> <<question.args>>], [file |-> question.file])
         IN  (batch.kind = "sections" /\ batch.sections = <<"text">>) <=> There
<1> DEFINE args == [filePath |-> 1, positions |-> <<question.args>>]
           world == [file |-> question.file]
           p == question.args
           answer == At(p, question.file).batch
           outside == Arg(p, "line", 0) <= 0 \/ Arg(p, "column", 0) <= 0
           hovers == [i \in 1..Len(args.positions) |-> At(args.positions[i], world.file).batch]
           content == IF answer.ok THEN answer.content ELSE ""
<1>1. (There => answer.ok /\ answer.content = "text") /\ (~There => ~answer.ok)
  BY AnswerAt DEF Answers, Refuses
<1>2. \A x : OnFile(args, world, x) = x
  BY OnFileIs
<1>3. question.file.opens /\ world.file = question.file
  BY DEF PlaceAsked
<1>4. There => ~outside
  <2>1. Arg(p, "line", 0) \in Nat /\ Arg(p, "column", 0) \in Nat
    BY ArgsTyped
  <2>2. question.place \in Nat \X Nat
    BY BeyondNat DEF PlaceAsked
  <2>3. question.place[1] \in Nat /\ question.place[2] \in Nat
    BY <2>2
  <2>4. There => Arg(p, "line", 0) - 1 = question.place[1] /\ Arg(p, "column", 0) - 1 = question.place[2]
    BY DEF There
  <2> QED
    BY <2>1, <2>3, <2>4
<1>5. args.positions = <<p>> /\ Given(args, "positions") /\ args.positions # <<>>
      /\ Len(args.positions) = 1 /\ args.positions[1] = p
  BY DEF Given
<1>6. \A i \in 1..1 : i = 1
  OBVIOUS
<1>7. hovers = [i \in 1..1 |-> answer]
  <2> HIDE DEF answer, args, world
  <2>1. \A i \in 1..1 : At(args.positions[i], world.file).batch = answer
    BY <1>3, <1>5, <1>6 DEF answer
  <2> QED
    BY <1>5, <2>1
<1>8. BatchHoverInfo(hovers) = [i \in 1..1 |-> content]
  <2> HIDE DEF hovers, answer
  <2>1. Len(hovers) = 1 /\ \A i \in 1..1 : hovers[i] = answer
    BY <1>7
  <2> QED
    BY <2>1 DEF BatchHoverInfo
<1>9. (\E i \in 1..Len(args.positions) : Arg(args.positions[i], "line", 0) <= 0
                                         \/ Arg(args.positions[i], "column", 0) <= 0) <=> outside
  <2>1. 1 \in 1..1
    OBVIOUS
  <2> HIDE DEF args
  <2> QED
    BY <2>1, <1>5, <1>6
<1>10. batch_hover(args, world) = OnFile(args, world,
         IF ~Given(args, "positions") THEN ErrorText ELSE IF args.positions = <<>> THEN NoneText
         ELSE IF ~world.file.opens \/ \E i \in 1..Len(args.positions) : Arg(args.positions[i], "line", 0) <= 0
                                                                        \/ Arg(args.positions[i], "column", 0) <= 0
              THEN ErrorText ELSE Sections(BatchHoverInfo(hovers)))
  BY DEF batch_hover
<1> HIDE DEF args, world, outside, hovers, answer
<1>11. batch_hover(args, world) = IF outside THEN ErrorText ELSE Sections([i \in 1..1 |-> content])
  BY <1>2, <1>3, <1>5, <1>8, <1>9, <1>10
<1>12. There => content = "text"
  BY <1>1
<1>13. ~There => content = ""
  BY <1>1
<1> HIDE DEF content
<1>14. [i \in 1..1 |-> content] = <<"text">> <=> content = "text"
  <2>1. [i \in 1..1 |-> content][1] = content /\ <<"text">>[1] = "text"
    OBVIOUS
  <2>2. content = "text" => [i \in 1..1 |-> content] = <<"text">>
    OBVIOUS
  <2> QED
    BY <2>1, <2>2
<1>15. (batch_hover(args, world).kind = "sections" /\ batch_hover(args, world).sections = <<"text">>) <=> There
  <2>1. CASE There
    BY <1>4, <1>11, <1>12, <1>14, <2>1 DEF Sections
  <2>2. CASE ~There
    <3>1. content # "text"
      BY <1>13, <2>2
    <3> QED
      BY <1>11, <1>14, <2>2, <3>1 DEF Sections, ErrorText
  <2> QED
    BY <2>1, <2>2
<1> QED
  BY <1>15 DEF args, world

(* Something is chosen exactly if there is a place to choose.              *)
LEMMA ChosenSome ==
  ASSUME NEW S, NEW s \in Seq(S), NEW I \in SUBSET (1..Len(s))
  PROVE  Chosen(s, I) = <<>> <=> I = {}
BY ChosenRight

(* On one line of diagnostics, some are found exactly if the line is       *)
(* theirs.                                                                 *)
LEMMA MatchSome ==
  ASSUME NEW ds \in Seq(Flagged), NEW p
  PROVE  MatchDiagnosticsAtPosition(ds, p, Anything) # <<>>
           <=> \E i \in 1..Len(ds) : ds[i].from[1] = p[1] \/ PositionInRange(p, ds[i])
<1> DEFINE E == {i \in 1..Len(ds) : ds[i].from = p}
           L == {i \in 1..Len(ds) : ds[i].from[1] = p[1]}
           R == {i \in 1..Len(ds) : PositionInRange(p, ds[i])}
           taken == IF Chosen(ds, E) # <<>> THEN Chosen(ds, E) ELSE IF Chosen(ds, L) # <<>> THEN Chosen(ds, L)
                    ELSE Chosen(ds, R)
<1>1. E \in SUBSET (1..Len(ds)) /\ L \in SUBSET (1..Len(ds)) /\ R \in SUBSET (1..Len(ds)) /\ E \subseteq L
  OBVIOUS
<1>2. MatchDiagnosticsAtPosition(ds, p, Anything) = Chosen(taken, 1..Len(taken))
  <2>1. MatchDiagnosticsAtPosition(ds, p, Anything)
          = Chosen(taken, {i \in 1..Len(taken) : Anything = Anything \/ Anything \in taken[i].code})
    BY DEF MatchDiagnosticsAtPosition, FilterByCode, Filtered
  <2>2. {i \in 1..Len(taken) : Anything = Anything \/ Anything \in taken[i].code} = 1..Len(taken)
    OBVIOUS
  <2> QED
    BY <2>1, <2>2
<1>3. L # {} \/ R # {} <=> \E i \in 1..Len(ds) : ds[i].from[1] = p[1] \/ PositionInRange(p, ds[i])
  OBVIOUS
<1> HIDE DEF E, L, R
<1>4. Chosen(ds, E) \in Seq(Flagged) /\ Chosen(ds, L) \in Seq(Flagged) /\ Chosen(ds, R) \in Seq(Flagged)
  BY <1>1, ChosenRight
<1>5. (Chosen(ds, E) = <<>> <=> E = {}) /\ (Chosen(ds, L) = <<>> <=> L = {}) /\ (Chosen(ds, R) = <<>> <=> R = {})
  BY <1>1, ChosenSome
<1>6. taken \in Seq(Flagged) /\ (taken # <<>> <=> L # {} \/ R # {})
  BY <1>1, <1>4, <1>5
<1> HIDE DEF taken
<1>7. 1..Len(taken) = {} <=> taken = <<>>
  <2>1. Len(taken) \in Nat /\ (Len(taken) = 0 <=> taken = <<>>)
    BY <1>6
  <2>2. 1..Len(taken) = {} <=> Len(taken) = 0
    <3>1. Len(taken) # 0 => 1 \in 1..Len(taken)
      BY <2>1
    <3>2. Len(taken) = 0 => 1..Len(taken) = {}
      OBVIOUS
    <3> QED
      BY <3>1, <3>2
  <2> QED
    BY <2>1, <2>2
<1>8. Chosen(taken, 1..Len(taken)) = <<>> <=> 1..Len(taken) = {}
  <2> DEFINE I == 1..Len(taken)
  <2>1. I \in SUBSET (1..Len(taken))
    OBVIOUS
  <2> HIDE DEF I
  <2>2. Chosen(taken, I) = <<>> <=> I = {}
    BY <1>6, <2>1, ChosenSome
  <2> QED
    BY <2>2 DEF I
<1> QED
  BY <1>2, <1>3, <1>6, <1>7, <1>8

(* apply_fix finds its fix by the line alone.                              *)
LEMMA ApplyFixAnswers ==
  ASSUME question.topic = "places", PlaceAsked
  PROVE  (apply_fix(question.args, [file |-> question.file]).kind = "sections")
           <=> (Arg(question.args, "line", 0) - 1 = question.place[1])
<1> DEFINE args == question.args
           world == [file |-> question.file]
           f == question.file
           p == PlaceOf(args)
           matched == MatchDiagnosticsAtPosition(f.flagged, p, Anything)
           one == ApplyFix(f.flagged, p, Anything, f.fixes)
           A == {a \in ToSet(f.fixes.actions) : a.enabled}
           there == Arg(args, "line", 0) - 1 = question.place[1]
<1>1. \A x : OnFile(args, world, x) = x
  BY OnFileIs, ArgsTyped
<1>2. Arg(args, "diagnosticCode", Anything) = Anything /\ Arg(args, "applyAll", FALSE) = FALSE
  BY ArgsTyped DEF Arg, Given
<1>3. /\ f.flagged \in Seq(Flagged) /\ f.flagged # <<>> /\ f.synced
      /\ \A i \in 1..Len(f.flagged) : f.flagged[i].from[1] = question.place[1] /\ f.flagged[i].to[1] = question.place[1]
      /\ f.fixes.ok /\ f.fixes.actions \in Seq(FixActions)
      /\ A # {} /\ \A a \in A : ToApply(a) = "edit"
  BY DEF PlaceAsked
<1>4. question.place \in Nat \X Nat
  BY BeyondNat DEF PlaceAsked
<1>5. p \in Nat \X Nat /\ (p[1] = question.place[1] <=> there)
  <2>1. Arg(args, "line", 0) \in Nat /\ Arg(args, "column", 0) \in Nat
    BY ArgsTyped
  <2>2. PICK x \in 0..(Beyond - 1), y \in 0..(Beyond - 1) : question.place = <<x, y>>
    BY DEF PlaceAsked
  <2>3. p = <<ZeroBased(Arg(args, "line", 0)), ZeroBased(Arg(args, "column", 0))>>
    BY DEF PlaceOf
  <2> HIDE DEF p
  <2>4. ZeroBased(Arg(args, "line", 0)) = x <=> Arg(args, "line", 0) - 1 = x
    BY <2>1, BeyondNat
  <2>5. ZeroBased(Arg(args, "line", 0)) \in Nat /\ ZeroBased(Arg(args, "column", 0)) \in Nat
    BY <2>1, BeyondNat
  <2>6. p[1] = ZeroBased(Arg(args, "line", 0)) /\ question.place[1] = x
    BY <2>2, <2>3
  <2> QED
    BY <2>3, <2>4, <2>5, <2>6
<1>6. matched # <<>> <=> there
  <2>1. matched # <<>> <=> \E i \in 1..Len(f.flagged) : f.flagged[i].from[1] = p[1] \/ PositionInRange(p, f.flagged[i])
    BY <1>3, MatchSome
  <2>2. \A i \in 1..Len(f.flagged) : PositionInRange(p, f.flagged[i]) => p[1] = question.place[1]
    <3> SUFFICES ASSUME NEW i \in 1..Len(f.flagged), PositionInRange(p, f.flagged[i])
                 PROVE  p[1] = question.place[1]
      OBVIOUS
    <3>1. f.flagged[i].from[1] = question.place[1] /\ f.flagged[i].to[1] = question.place[1]
      BY <1>3
    <3>2. p[1] \in Nat /\ question.place[1] \in Nat
      BY <1>4, <1>5
    <3>3. ~(p[1] < f.flagged[i].from[1]) /\ ~(f.flagged[i].to[1] < p[1])
      BY DEF PositionInRange, Follows
    <3> QED
      BY <3>1, <3>2, <3>3
  <2>3. 1 \in 1..Len(f.flagged)
    BY <1>3
  <2> HIDE DEF f, p, matched, there
  <2> QED
    BY <1>3, <1>5, <2>1, <2>2, <2>3
<1>7. one = IF matched = <<>> \/ ~f.fixes.ok \/ A = {} \/ ToApply(Best(A)) # "edit"
            THEN [ok |-> FALSE] ELSE [ok |-> TRUE, title |-> Best(A).title]
  BY <1>3, ApplyFixIs
<1>8. ToApply(Best(A)) = "edit"
  <2>1. \A a \in A : a.title \in Nat
    <3>1. \A a \in ToSet(f.fixes.actions) : a \in FixActions
      BY <1>3 DEF ToSet
    <3> QED
      BY <3>1 DEF FixActions
  <2> HIDE DEF A
  <2>2. Best(A) \in A
    BY <1>3, <2>1, BestRight
  <2> QED
    BY <1>3, <2>2
<1>9. apply_fix(args, world) = OnFile(args, world,
        IF ~f.synced THEN ErrorText
        ELSE IF Arg(args, "applyAll", FALSE)
             THEN IF f.flagged = <<>> \/ ~ApplyAllRound(f.fixes).ok THEN NoneText
                  ELSE Sections(<<ApplyAllRound(f.fixes).title>>)
        ELSE IF one.ok THEN Sections(<<one.title>>) ELSE ErrorText)
  BY <1>2 DEF apply_fix
<1> HIDE DEF args, world, f, p, matched, one, A, there
<1>10. apply_fix(args, world) = IF one.ok THEN Sections(<<one.title>>) ELSE ErrorText
  BY <1>1, <1>2, <1>3, <1>9
<1>11. one.ok <=> there
  BY <1>3, <1>6, <1>7, <1>8
<1>12. apply_fix(args, world).kind = "sections" <=> there
  BY <1>10, <1>11 DEF Sections, ErrorText
<1> QED
  BY <1>12 DEF args, world, there

(* PlacesAsked holds of every question about a place.                      *)
LEMMA PlacesAskedThere ==
  ASSUME question.topic = "places", PlaceAsked
  PROVE  PlacesAsked
<1> DEFINE args == question.args
           world == [file |-> question.file]
           answers == <<get_definition(args, world), get_type_definition(args, world),
                        get_implementation(args, world), get_references(args, world), hover(args, world),
                        incoming_calls(args, world), outgoing_calls(args, world), dependency_graph(args, world),
                        rename_symbol(With(args, "newName", "n"), world)>>
           batch == batch_hover([filePath |-> 1, positions |-> <<args>>], world)
<1>1. /\ (get_definition(args, world).kind = "sections") <=> There
      /\ (get_type_definition(args, world).kind = "sections") <=> There
      /\ (get_implementation(args, world).kind = "sections") <=> There
      /\ (get_references(args, world).kind = "sections") <=> There
      /\ (hover(args, world).kind = "sections") <=> There
      /\ (incoming_calls(args, world).kind = "sections") <=> There
      /\ (outgoing_calls(args, world).kind = "sections") <=> There
      /\ (dependency_graph(args, world).kind = "sections") <=> There
      /\ (rename_symbol(With(args, "newName", "n"), world).kind = "sections") <=> There
  BY ReadersRight, GraphAnswers, RenameAnswers
<1>2. (batch.kind = "sections" /\ batch.sections = <<"text">>) <=> There
  BY BatchAnswers
<1>3. (apply_fix(args, world).kind = "sections") <=> (Arg(args, "line", 0) - 1 = question.place[1])
  BY ApplyFixAnswers
<1>4. \A i \in 1..Len(answers) : (answers[i].kind = "sections") <=> There
  <2>1. Len(answers) = 9
    OBVIOUS
  <2>2. \A i \in 1..9 : i = 1 \/ i = 2 \/ i = 3 \/ i = 4 \/ i = 5 \/ i = 6 \/ i = 7 \/ i = 8 \/ i = 9
    OBVIOUS
  <2> HIDE DEF args, world
  <2> QED
    BY <1>1, <2>1, <2>2
<1> QED
  BY <1>2, <1>3, <1>4 DEF PlacesAsked, There

-----------------------------------------------------------------------------
(* Names.                                                                  *)

(* Nth keeps the order of the ranks,                                       *)
LEMMA NthGrows ==
  ASSUME NEW m \in Nat, NEW I \in SUBSET (1..m), NEW a \in 1..Cardinality(I), NEW b \in 1..Cardinality(I)
  PROVE  Nth(I, a) <= Nth(I, b) <=> a <= b
<1>1. Cardinality(I) \in Nat
  BY PlacesFinite
<1>2. /\ Nth(I, a) \in I /\ Rank(I, Nth(I, a)) = a
      /\ Nth(I, b) \in I /\ Rank(I, Nth(I, b)) = b
  BY NthRight
<1>3. Nth(I, a) \in Int /\ Nth(I, b) \in Int /\ a \in Int /\ b \in Int
  <2>1. \A i \in I : i \in Int
    OBVIOUS
  <2>2. \A n \in 1..Cardinality(I) : n \in Int
    BY <1>1
  <2> QED
    BY <1>2, <2>1, <2>2
<1>4. Nth(I, a) < Nth(I, b) => a < b
  BY <1>2, RankGrows
<1>5. Nth(I, b) < Nth(I, a) => b < a
  BY <1>2, RankGrows
<1>6. Nth(I, a) = Nth(I, b) => a = b
  BY <1>2
<1> QED
  BY <1>3, <1>4, <1>5, <1>6

(* so the first is the least.                                              *)
LEMMA NthFirst ==
  ASSUME NEW m \in Nat, NEW I \in SUBSET (1..m), I # {}
  PROVE  Nth(I, 1) \in I /\ \A i \in I : Nth(I, 1) <= i
<1>1. PICK k \in I : TRUE
  OBVIOUS
<1>2. Cardinality(I) \in Nat /\ 1 \in 1..Cardinality(I)
  <2>1. Cardinality(I) \in Nat /\ IsFiniteSet(I)
    BY PlacesFinite
  <2>2. Cardinality(I) # 0
    BY <2>1, FS_EmptySet
  <2> QED
    BY <2>1, <2>2
<1>3. Nth(I, 1) \in I
  BY <1>2, NthRight
<1>4. ASSUME NEW i \in I
      PROVE  Nth(I, 1) <= i
  <2>1. Rank(I, i) \in 1..Cardinality(I) /\ Nth(I, Rank(I, i)) = i
    BY NthRight, RankBounds
  <2>2. 1 <= Rank(I, i)
    BY <1>2, <2>1
  <2>3. Nth(I, 1) <= Nth(I, Rank(I, i)) <=> 1 <= Rank(I, i)
    BY <1>2, <2>1, NthGrows
  <2> QED
    BY <2>1, <2>2, <2>3
<1> QED
  BY <1>3, <1>4

(* To choose among what is chosen is to choose at once.                    *)
LEMMA ChosenTwice ==
  ASSUME NEW S, NEW s \in Seq(S), NEW I \in SUBSET (1..Len(s)), NEW J \in SUBSET (1..Cardinality(I))
  PROVE  Chosen(Chosen(s, I), J) = Chosen(s, {Nth(I, n) : n \in J})
<1> DEFINE K == {Nth(I, n) : n \in J}
           f == [n \in J |-> Nth(I, n)]
<1>1. Len(s) \in Nat /\ Cardinality(I) \in Nat
  <2>1. Len(s) \in Nat
    OBVIOUS
  <2> QED
    BY <2>1, PlacesFinite
<1>2. \A n \in 1..Cardinality(I) : Nth(I, n) \in I
  BY <1>1, NthRight
<1>3. \A a, b \in 1..Cardinality(I) : Nth(I, a) <= Nth(I, b) <=> a <= b
  BY <1>1, NthGrows
<1>4. \A a, b \in 1..Cardinality(I) : Nth(I, a) = Nth(I, b) => a = b
  <2> SUFFICES ASSUME NEW a \in 1..Cardinality(I), NEW b \in 1..Cardinality(I), Nth(I, a) = Nth(I, b)
               PROVE  a = b
    OBVIOUS
  <2>1. Nth(I, a) \in Int /\ Nth(I, b) \in Int
    <3>1. \A i \in I : i \in Int
      BY <1>1
    <3> QED
      BY <1>2, <3>1
  <2>2. a <= b /\ b <= a
    BY <1>3, <2>1
  <2> QED
    BY <1>1, <2>2
<1>5. K \in SUBSET (1..Len(s)) /\ \A n \in J : Nth(I, n) \in K
  BY <1>2
<1>6. IsFiniteSet(J) /\ \A n \in Nat : IsFiniteSet({j \in J : j <= n})
  <2>1. IsFiniteSet(J) /\ \A L \in SUBSET J : IsFiniteSet(L)
    BY <1>1, PlacesFinite
  <2> QED
    BY <2>1
<1>7. Cardinality(K) = Cardinality(J)
  <2>1. /\ \A x \in J : f[x] \in K
        /\ \A x, y \in J : f[x] = f[y] => x = y
        /\ \A z \in K : \E x \in J : f[x] = z
    BY <1>4
  <2> HIDE DEF f, K
  <2> QED
    BY <1>6, <2>1, SameSize
<1>8. ASSUME NEW m \in J
      PROVE  Rank(K, Nth(I, m)) = Rank(J, m)
  <2> DEFINE A == {j \in J : j <= m}
             B == {k \in K : k <= Nth(I, m)}
             g == [n \in A |-> Nth(I, n)]
  <2>1. m \in Nat /\ IsFiniteSet(A)
    BY <1>6
  <2>2. /\ \A x \in A : g[x] \in B
        /\ \A x, y \in A : g[x] = g[y] => x = y
    BY <1>3, <1>4
  <2>3. \A z \in B : \E x \in A : g[x] = z
    <3> SUFFICES ASSUME NEW z \in B PROVE \E x \in A : g[x] = z
      OBVIOUS
    <3>1. PICK x \in J : z = Nth(I, x)
      OBVIOUS
    <3>2. x <= m
      BY <1>3, <3>1
    <3> QED
      BY <3>1, <3>2
  <2> HIDE DEF A, B, g
  <2>4. Cardinality(B) = Cardinality(A)
    BY <2>1, <2>2, <2>3, SameSize
  <2> QED
    BY <2>4 DEF A, B, Rank
<1>9. \A k \in 1..Cardinality(J) : Nth(J, k) \in J /\ Rank(J, Nth(J, k)) = k
  BY <1>1, NthRight
<1> HIDE DEF K
<1>10. \A i \in K : Nth(K, Rank(K, i)) = i
  BY <1>1, <1>5, NthRight
<1>11. \A k \in 1..Cardinality(J) : Nth(K, k) = Nth(I, Nth(J, k))
  BY <1>5, <1>8, <1>9, <1>10
<1>12. \A n \in 1..Cardinality(I) : Chosen(s, I)[n] = s[Nth(I, n)]
  BY DEF Chosen
<1>13. Chosen(Chosen(s, I), J) = [k \in 1..Cardinality(J) |-> Chosen(s, I)[Nth(J, k)]]
  BY DEF Chosen
<1>14. Chosen(s, K) = [k \in 1..Cardinality(J) |-> s[Nth(K, k)]]
  BY <1>7 DEF Chosen
<1>15. \A k \in 1..Cardinality(J) : Chosen(s, I)[Nth(J, k)] = s[Nth(K, k)]
  BY <1>9, <1>11, <1>12
<1> QED
  BY <1>13, <1>14, <1>15 DEF K

(* The elements of a sequence that are in a set.                           *)
Only(s, T) == Chosen(s, {i \in 1..Len(s) : s[i] \in T})

(* The elements that are in a set are a sequence like the one they come    *)
(* from.                                                                   *)
LEMMA OnlyTyped ==
  ASSUME NEW S, NEW s \in Seq(S), NEW T
  PROVE  Only(s, T) \in Seq(S)
<1> DEFINE I == {i \in 1..Len(s) : s[i] \in T}
<1>1. I \in SUBSET (1..Len(s))
  OBVIOUS
<1> HIDE DEF I
<1>2. Chosen(s, I) \in Seq(S)
  BY <1>1, ChosenRight
<1> QED
  BY <1>2 DEF I, Only

(* To keep those of two sets, one after the other, is to keep those of     *)
(* both.                                                                   *)
LEMMA OnlyTwice ==
  ASSUME NEW S, NEW s \in Seq(S), NEW T, NEW U
  PROVE  Only(Only(s, T), U) = Only(s, T \cap U)
<1> DEFINE I == {i \in 1..Len(s) : s[i] \in T}
           c == Chosen(s, I)
           J == {n \in 1..Len(c) : c[n] \in U}
<1>1. I \in SUBSET (1..Len(s)) /\ Len(s) \in Nat
  OBVIOUS
<1>2. Only(s, T) = c /\ Only(c, U) = Chosen(c, J)
  BY DEF Only
<1>3. Len(c) = Cardinality(I) /\ \A n \in 1..Cardinality(I) : c[n] = s[Nth(I, n)]
  <2> HIDE DEF I
  <2> QED
    BY <1>1, ChosenRight
<1>4. /\ \A n \in 1..Cardinality(I) : Nth(I, n) \in I
      /\ \A i \in I : Rank(I, i) \in 1..Cardinality(I) /\ Nth(I, Rank(I, i)) = i
  <2> HIDE DEF I
  <2> QED
    BY <1>1, NthRight, RankBounds
<1>5. J \in SUBSET (1..Cardinality(I))
  BY <1>3
<1>6. {Nth(I, n) : n \in J} = {i \in 1..Len(s) : s[i] \in T \cap U}
  <2>1. \A n \in J : Nth(I, n) \in I /\ s[Nth(I, n)] \in U
    BY <1>3, <1>4
  <2>2. \A i \in I : s[i] \in U => Rank(I, i) \in J /\ Nth(I, Rank(I, i)) = i
    BY <1>3, <1>4
  <2>3. \A i \in I : i \in 1..Len(s) /\ s[i] \in T
    OBVIOUS
  <2>4. \A i \in 1..Len(s) : s[i] \in T => i \in I
    OBVIOUS
  <2> HIDE DEF I, J
  <2> QED
    BY <2>1, <2>2, <2>3, <2>4
<1> HIDE DEF I, J
<1>7. Chosen(c, J) = Chosen(s, {Nth(I, n) : n \in J})
  BY <1>1, <1>5, ChosenTwice
<1> QED
  BY <1>2, <1>6, <1>7 DEF Only

(* The tools by name take the answer of the first server that does not     *)
(* fail.                                                                   *)
LEMMA OnServersIs ==
  ASSUME NEW m \in Nat, NEW I \in SUBSET (1..m), NEW answers, Len(answers) = m,
         \A i \in 1..m : answers[i].kind # "error" <=> i \in I,
         NEW args, NEW name, Given(args, name)
  PROVE  OnServers(args, name, answers) = IF I = {} THEN ErrorText ELSE answers[Nth(I, 1)]
<1>1. {i \in 1..Len(answers) : answers[i].kind # "error"} = I
  OBVIOUS
<1>2. OnServers(args, name, answers)
        = IF I = {} THEN ErrorText ELSE answers[First(I)]
  BY <1>1 DEF OnServers
<1>3. ASSUME I # {}
      PROVE  First(I) = Nth(I, 1)
  <2>1. Nth(I, 1) \in I /\ \A i \in I : Nth(I, 1) <= i
    BY <1>3, NthFirst
  <2>2. First(I) \in I /\ \A j \in I : First(I) <= j
    BY <2>1 DEF First
  <2>3. \A i \in I : i \in Int
    OBVIOUS
  <2>4. First(I) \in Int /\ Nth(I, 1) \in Int
    BY <2>1, <2>2, <2>3
  <2>5. First(I) <= Nth(I, 1) /\ Nth(I, 1) <= First(I)
    BY <2>1, <2>2
  <2> QED
    BY <2>4, <2>5
<1> QED
  BY <1>2, <1>3

(* The first of all places is 1.                                           *)
LEMMA NthOfAll ==
  ASSUME NEW m \in Nat, m # 0
  PROVE  Nth(1..m, 1) = 1
<1> DEFINE I == 1..m
<1>1. I \in SUBSET (1..m) /\ I # {} /\ 1 \in I /\ \A i \in I : i \in Int /\ 1 <= i
  OBVIOUS
<1> HIDE DEF I
<1>2. Nth(I, 1) \in I /\ \A i \in I : Nth(I, 1) <= i
  BY <1>1, NthFirst
<1>3. Nth(I, 1) \in Int /\ Nth(I, 1) <= 1 /\ 1 <= Nth(I, 1)
  BY <1>1, <1>2
<1>4. Nth(I, 1) = 1
  BY <1>3
<1> QED
  BY <1>4 DEF I

(* What a server answers to workspace/symbol.                              *)
Found == [ok : BOOLEAN, symbols : Seq(Symbols)]

(* The servers that do not fail.                                           *)
Up(servers) == {i \in 1..Len(servers) : servers[i].ok}

(* An answer without the symbols that are not in T,                        *)
Reduced(found, T) == [found EXCEPT !.symbols = Only(@, T)]

(* and the answers of the servers that do not fail.                        *)
ReducedAll(servers, T) == [k \in 1..Cardinality(Up(servers)) |-> Reduced(servers[Nth(Up(servers), k)], T)]

(* The servers that do not fail, by their rank.                            *)
LEMMA UpRight ==
  ASSUME NEW servers \in Seq(Found)
  PROVE  /\ Up(servers) \in SUBSET (1..Len(servers)) /\ Len(servers) \in Nat /\ Cardinality(Up(servers)) \in Nat
         /\ Cardinality(Up(servers)) = 0 <=> Up(servers) = {}
         /\ \A k \in 1..Cardinality(Up(servers)) : Nth(Up(servers), k) \in Up(servers)
         /\ \A T : Len(ReducedAll(servers, T)) = Cardinality(Up(servers))
         /\ \A T : \A k \in 1..Cardinality(Up(servers)) : ReducedAll(servers, T)[k] = Reduced(servers[Nth(Up(servers), k)], T)
<1>1. Up(servers) \in SUBSET (1..Len(servers)) /\ Len(servers) \in Nat
  BY DEF Up
<1>2. Cardinality(Up(servers)) \in Nat /\ IsFiniteSet(Up(servers))
  BY <1>1, PlacesFinite
<1>3. Cardinality(Up(servers)) = 0 <=> Up(servers) = {}
  BY <1>2, FS_EmptySet
<1>4. \A k \in 1..Cardinality(Up(servers)) : Nth(Up(servers), k) \in Up(servers)
  BY <1>1, NthRight
<1>5. /\ \A T : Len(ReducedAll(servers, T)) = Cardinality(Up(servers))
      /\ \A T : \A k \in 1..Cardinality(Up(servers)) : ReducedAll(servers, T)[k] = Reduced(servers[Nth(Up(servers), k)], T)
  BY <1>2 DEF ReducedAll
<1> QED
  BY <1>1, <1>2, <1>3, <1>4, <1>5

(* The servers that fail, and what a tool passes over, make no difference. *)
LEMMA SameAnswer ==
  ASSUME NEW servers \in Seq(Found), NEW args, NEW name, Given(args, name),
         NEW a, Len(a) = Len(servers), \A i \in 1..Len(servers) : a[i].kind # "error" <=> servers[i].ok,
         NEW b, Len(b) = Cardinality(Up(servers)),
         \A k \in 1..Cardinality(Up(servers)) : b[k] = a[Nth(Up(servers), k)]
  PROVE  OnServers(args, name, a) = OnServers(args, name, b)
<1> DEFINE I == Up(servers)
           c == Cardinality(I)
<1>1. I \in SUBSET (1..Len(servers)) /\ Len(servers) \in Nat /\ c \in Nat /\ (c = 0 <=> I = {})
      /\ \A k \in 1..c : Nth(I, k) \in I
  BY UpRight
<1>2. \A i \in 1..Len(servers) : a[i].kind # "error" <=> i \in I
  BY DEF Up
<1>3. OnServers(args, name, a) = IF I = {} THEN ErrorText ELSE a[Nth(I, 1)]
  <2> HIDE DEF I
  <2> QED
    BY <1>1, <1>2, OnServersIs
<1>4. Len(b) = c /\ \A k \in 1..c : b[k] = a[Nth(I, k)]
  OBVIOUS
<1> HIDE DEF I, c
<1>5. OnServers(args, name, b) = IF 1..c = {} THEN ErrorText ELSE b[Nth(1..c, 1)]
  <2> DEFINE J == 1..c
  <2>1. J \in SUBSET (1..c) /\ c \in Nat /\ Len(b) = c
    BY <1>1, <1>4
  <2>2. \A i \in 1..c : b[i].kind # "error" <=> i \in J
    BY <1>1, <1>2, <1>4
  <2> HIDE DEF J
  <2>3. OnServers(args, name, b) = IF J = {} THEN ErrorText ELSE b[Nth(J, 1)]
    BY <2>1, <2>2, OnServersIs
  <2> QED
    BY <2>3 DEF J
<1>6. CASE c = 0
  BY <1>1, <1>3, <1>5, <1>6
<1>7. CASE c # 0
  <2>1. Nth(1..c, 1) = 1
    BY <1>1, <1>7, NthOfAll
  <2>2. 1 \in 1..c
    BY <1>1, <1>7
  <2> QED
    BY <1>1, <1>3, <1>5, <1>4, <1>7, <2>1, <2>2
<1> QED
  BY <1>6, <1>7

(* The symbols that a query matches.                                       *)
Named(query) == {x \in Symbols : MatchSymbol(x, query)}

(* The symbols that match a query are those of a set of symbols.           *)
LEMMA MatchesIs ==
  ASSUME NEW found \in Found, NEW query
  PROVE  Matches(found, query) = Only(found.symbols, Named(query)) /\ Matches(found, query) \in Seq(Symbols)
<1>1. found.symbols \in Seq(Symbols)
  BY DEF Found
<1>2. \A i \in 1..Len(found.symbols) : MatchSymbol(found.symbols[i], query) <=> found.symbols[i] \in Named(query)
  BY <1>1 DEF Named
<1>3. {i \in 1..Len(found.symbols) : MatchSymbol(found.symbols[i], query)}
        = {i \in 1..Len(found.symbols) : found.symbols[i] \in Named(query)}
  BY <1>2
<1>4. Matches(found, query) = Only(found.symbols, Named(query))
  BY <1>3 DEF Matches, Filtered, Only
<1> QED
  BY <1>1, <1>4, OnlyTyped

(* Leaving out what is not in T before the search leaves the same of T.    *)
LEMMA ReducedRight ==
  ASSUME NEW found \in Found, NEW T, NEW query
  PROVE  /\ Reduced(found, T) \in Found /\ Reduced(found, T).ok = found.ok
         /\ Only(Matches(Reduced(found, T), query), T) = Only(Matches(found, query), T)
<1> DEFINE s == found.symbols
           M == Named(query)
<1>1. s \in Seq(Symbols)
  BY DEF Found
<1> HIDE DEF s, M
<1>2. Only(s, T) \in Seq(Symbols)
  BY <1>1, OnlyTyped
<1>3. Reduced(found, T) \in Found /\ Reduced(found, T).ok = found.ok /\ Reduced(found, T).symbols = Only(s, T)
  BY <1>2 DEF Reduced, Found, s
<1>4. Matches(Reduced(found, T), query) = Only(Only(s, T), M) /\ Matches(found, query) = Only(s, M)
  BY <1>3, MatchesIs DEF s, M
<1>5. Only(Only(Only(s, T), M), T) = Only(s, (T \cap M) \cap T)
  <2>1. Only(Only(s, T), M) = Only(s, T \cap M)
    BY <1>1, OnlyTwice
  <2>2. Only(Only(s, T \cap M), T) = Only(s, (T \cap M) \cap T)
    BY <1>1, OnlyTwice
  <2> QED
    BY <2>1, <2>2
<1>6. Only(Only(s, M), T) = Only(s, M \cap T)
  BY <1>1, OnlyTwice
<1>7. (T \cap M) \cap T = M \cap T
  OBVIOUS
<1> QED
  BY <1>3, <1>4, <1>5, <1>6, <1>7

(* ReadDefinition shows those of the symbols found that have a definition. *)
LEMMA ReadDefinitionIs ==
  ASSUME NEW found \in Found, NEW query
  PROVE  ReadDefinition(found, query) =
           IF ~found.ok THEN ErrorText
           ELSE SectionsOrNone(Only(Matches(found, query), {x \in Symbols : x.defined}))
<1> DEFINE s == Matches(found, query)
           D == {x \in Symbols : x.defined}
<1>1. s \in Seq(Symbols)
  BY MatchesIs
<1>2. ReadDefinition(found, query) =
        IF ~found.ok THEN ErrorText ELSE SectionsOrNone(Chosen(s, {i \in 1..Len(s) : s[i].defined}))
  BY DEF ReadDefinition, Filtered
<1>3. {i \in 1..Len(s) : s[i].defined} = {i \in 1..Len(s) : s[i] \in D}
  <2> HIDE DEF s
  <2> QED
    BY <1>1
<1> QED
  BY <1>2, <1>3 DEF Only

(* What is found, or not, is no error.                                     *)
LEMMA SectionsTold == \A s : SectionsOrNone(s).kind # "error"
BY DEF SectionsOrNone, Sections, NoneText

(* What a tool answers for one server is f; it fails for those that fail,  *)
(* and what is not in T makes no difference to it.                         *)
LEMMA SameByName ==
  ASSUME NEW servers \in Seq(Found), NEW args, NEW name, Given(args, name), NEW T, NEW f,
         \A x \in Found : f[x].kind # "error" <=> x.ok,
         \A x \in Found : f[Reduced(x, T)] = f[x]
  PROVE  OnServers(args, name, [i \in 1..Len(servers) |-> f[servers[i]]])
           = OnServers(args, name, [k \in 1..Len(ReducedAll(servers, T)) |-> f[ReducedAll(servers, T)[k]]])
<1> DEFINE less == ReducedAll(servers, T)
           I == Up(servers)
           a == [i \in 1..Len(servers) |-> f[servers[i]]]
           b == [k \in 1..Len(less) |-> f[less[k]]]
<1>1. /\ I \in SUBSET (1..Len(servers)) /\ Len(servers) \in Nat /\ Cardinality(I) \in Nat
      /\ \A k \in 1..Cardinality(I) : Nth(I, k) \in I
      /\ Len(less) = Cardinality(I)
      /\ \A k \in 1..Cardinality(I) : less[k] = Reduced(servers[Nth(I, k)], T)
  BY UpRight
<1>2. \A i \in 1..Len(servers) : servers[i] \in Found
  OBVIOUS
<1>3. Len(a) = Len(servers) /\ \A i \in 1..Len(servers) : a[i].kind # "error" <=> servers[i].ok
  BY <1>1, <1>2
<1>4. Len(b) = Cardinality(I)
  BY <1>1
<1>5. ASSUME NEW k \in 1..Cardinality(I)
      PROVE  b[k] = a[Nth(I, k)]
  <2>1. Nth(I, k) \in 1..Len(servers)
    BY <1>1
  <2>2. b[k] = f[Reduced(servers[Nth(I, k)], T)]
    BY <1>1
  <2>3. a[Nth(I, k)] = f[servers[Nth(I, k)]]
    BY <2>1
  <2> QED
    BY <1>2, <2>1, <2>2, <2>3
<1> HIDE DEF a, b
<1>6. OnServers(args, name, a) = OnServers(args, name, b)
  BY <1>3, <1>4, <1>5, SameAnswer DEF I
<1> QED
  BY <1>6 DEF a, b, less

(* The servers that do not fail are chosen from all.                       *)
LEMMA WithoutIs ==
  ASSUME NEW servers \in Seq(Found)
  PROVE  /\ Filtered(servers, LAMBDA found : found.ok) = Chosen(servers, Up(servers))
         /\ Len(Chosen(servers, Up(servers))) = Cardinality(Up(servers))
         /\ \A k \in 1..Cardinality(Up(servers)) :
              /\ Chosen(servers, Up(servers))[k] = servers[Nth(Up(servers), k)]
              /\ servers[Nth(Up(servers), k)] \in Found
<1>1. Filtered(servers, LAMBDA found : found.ok) = Chosen(servers, Up(servers))
  BY DEF Filtered, Up
<1>2. Up(servers) \in SUBSET (1..Len(servers)) /\ \A k \in 1..Cardinality(Up(servers)) : Nth(Up(servers), k) \in Up(servers)
  BY UpRight
<1>3. /\ Len(Chosen(servers, Up(servers))) = Cardinality(Up(servers))
      /\ \A k \in 1..Cardinality(Up(servers)) : Chosen(servers, Up(servers))[k] = servers[Nth(Up(servers), k)]
  BY <1>2, ChosenRight
<1>4. \A k \in 1..Cardinality(Up(servers)) : servers[Nth(Up(servers), k)] \in Found
  BY <1>2
<1> QED
  BY <1>1, <1>3, <1>4

(* What NamesResolve leaves out, as a set: the symbols without a           *)
(* definition,                                                             *)
LEMMA WithoutUndefined ==
  ASSUME NEW servers \in Seq(Found)
  PROVE  Without(servers, LAMBDA s : s.defined) = ReducedAll(servers, {x \in Symbols : x.defined})
<1> DEFINE D == {x \in Symbols : x.defined}
           up == Chosen(servers, Up(servers))
           kept(s) == Chosen(s, {i \in 1..Len(s) : s[i].defined})
<1>1. Without(servers, LAMBDA s : s.defined)
        = [k \in 1..Len(up) |-> [up[k] EXCEPT !.symbols = kept(@)]]
  BY WithoutIs DEF Without, Filtered, Up
<1>2. ASSUME NEW x \in Found
      PROVE  kept(x.symbols) = Only(x.symbols, D)
  <2>1. x.symbols \in Seq(Symbols)
    BY DEF Found
  <2>2. {i \in 1..Len(x.symbols) : x.symbols[i].defined} = {i \in 1..Len(x.symbols) : x.symbols[i] \in D}
    BY <2>1
  <2> QED
    BY <2>2 DEF Only
<1>3. \A k \in 1..Len(up) : up[k] \in Found
  BY WithoutIs
<1> HIDE DEF kept, D
<1>4. \A k \in 1..Len(up) : [up[k] EXCEPT !.symbols = kept(@)] = Reduced(up[k], D)
  BY <1>2, <1>3 DEF Reduced
<1>5. Len(up) = Cardinality(Up(servers)) /\ \A k \in 1..Len(up) : up[k] = servers[Nth(Up(servers), k)]
  BY WithoutIs
<1> QED
  BY <1>1, <1>4, <1>5 DEF ReducedAll, D

(* definition answers as if they were not there.                           *)
LEMMA DefinitionSame ==
  ASSUME question.topic = "names", NamesAsked
  PROVE  definition([symbolName |-> question.query], [servers |-> question.servers])
           = definition([symbolName |-> question.query],
                        [servers |-> Without(question.servers, LAMBDA s : s.defined)])
<1> DEFINE servers == question.servers
           query == question.query
           args == [symbolName |-> query]
           D == {x \in Symbols : x.defined}
           less == ReducedAll(servers, D)
           f == [x \in Found |-> ReadDefinition(x, query)]
<1>1. servers \in Seq(Found)
  BY DEF NamesAsked, Found
<1>2. Without(servers, LAMBDA s : s.defined) = less
  BY <1>1, WithoutUndefined
<1>3. \A i \in 1..Len(servers) : servers[i] \in Found
  BY <1>1
<1>4. \A k \in 1..Len(less) : less[k] \in Found
  <2>1. /\ Len(less) = Cardinality(Up(servers))
        /\ \A k \in 1..Cardinality(Up(servers)) : /\ less[k] = Reduced(servers[Nth(Up(servers), k)], D)
                                                  /\ servers[Nth(Up(servers), k)] \in Found
    BY <1>1, UpRight, WithoutIs
  <2> HIDE DEF less
  <2> QED
    BY <2>1, ReducedRight
<1>5. ASSUME NEW x \in Found
      PROVE  ReadDefinition(x, query).kind # "error" <=> x.ok
  <2> DEFINE s == Only(Matches(x, query), D)
  <2>1. ReadDefinition(x, query) = IF ~x.ok THEN ErrorText ELSE SectionsOrNone(s)
    BY ReadDefinitionIs
  <2> HIDE DEF s
  <2>2. SectionsOrNone(s).kind # "error" /\ ErrorText.kind = "error"
    BY SectionsTold DEF ErrorText
  <2> QED
    BY <2>1, <2>2
<1>6. \A x \in Found : Reduced(x, D) \in Found /\ ReadDefinition(Reduced(x, D), query) = ReadDefinition(x, query)
  <2> SUFFICES ASSUME NEW x \in Found
               PROVE  Reduced(x, D) \in Found /\ ReadDefinition(Reduced(x, D), query) = ReadDefinition(x, query)
    OBVIOUS
  <2>1. /\ Reduced(x, D) \in Found /\ Reduced(x, D).ok = x.ok
        /\ Only(Matches(Reduced(x, D), query), D) = Only(Matches(x, query), D)
    BY ReducedRight
  <2> QED
    BY <2>1, ReadDefinitionIs
<1> HIDE DEF less, D
<1>7. Given(args, "symbolName") /\ args.symbolName = query
  BY DEF Given
<1>8. OnServers(args, "symbolName", [i \in 1..Len(servers) |-> f[servers[i]]])
        = OnServers(args, "symbolName", [k \in 1..Len(less) |-> f[less[k]]])
  <2>1. \A x \in Found : (f[x].kind # "error" <=> x.ok) /\ f[Reduced(x, D)] = f[x]
    BY <1>5, <1>6
  <2> HIDE DEF f, args
  <2> QED
    BY <1>1, <1>7, <2>1, SameByName DEF less
<1>9. /\ [i \in 1..Len(servers) |-> f[servers[i]]] = [i \in 1..Len(servers) |-> ReadDefinition(servers[i], query)]
      /\ [k \in 1..Len(less) |-> f[less[k]]] = [k \in 1..Len(less) |-> ReadDefinition(less[k], query)]
  BY <1>3, <1>4
<1>10. \A w : definition(args, [servers |-> w]) = OnServers(args, "symbolName", [i \in 1..Len(w) |-> ReadDefinition(w[i], query)])
  BY DEF definition, Each
<1> HIDE DEF f, args
<1>11. definition(args, [servers |-> servers]) = definition(args, [servers |-> less])
  BY <1>8, <1>9, <1>10
<1> QED
  BY <1>2, <1>11 DEF args

(* The symbols whose type cannot be had,                                   *)
LEMMA WithoutUntyped ==
  ASSUME NEW servers \in Seq(Found)
  PROVE  Without(servers, LAMBDA s : s.opens /\ s.types.ok) = ReducedAll(servers, {x \in Symbols : x.opens /\ x.types.ok})
<1> DEFINE D == {x \in Symbols : x.opens /\ x.types.ok}
           up == Chosen(servers, Up(servers))
           kept(s) == Chosen(s, {i \in 1..Len(s) : s[i].opens /\ s[i].types.ok})
<1>1. Without(servers, LAMBDA s : s.opens /\ s.types.ok)
        = [k \in 1..Len(up) |-> [up[k] EXCEPT !.symbols = kept(@)]]
  BY WithoutIs DEF Without, Filtered, Up
<1>2. ASSUME NEW x \in Found
      PROVE  kept(x.symbols) = Only(x.symbols, D)
  <2> DEFINE t == x.symbols
  <2>1. t \in Seq(Symbols)
    BY DEF Found
  <2>2. {i \in 1..Len(t) : t[i].opens /\ t[i].types.ok} = {i \in 1..Len(t) : t[i] \in D}
    <3> HIDE DEF t
    <3> QED
      BY <2>1
  <2> QED
    BY <2>2 DEF Only
<1>3. \A k \in 1..Len(up) : up[k] \in Found
  BY WithoutIs
<1> HIDE DEF kept, D
<1>4. \A k \in 1..Len(up) : [up[k] EXCEPT !.symbols = kept(@)] = Reduced(up[k], D)
  BY <1>2, <1>3 DEF Reduced
<1>5. Len(up) = Cardinality(Up(servers)) /\ \A k \in 1..Len(up) : up[k] = servers[Nth(Up(servers), k)]
  BY WithoutIs
<1> QED
  BY <1>1, <1>4, <1>5 DEF ReducedAll, D

(* which ReadTypeDefinition passes over,                                   *)
LEMMA ReadTypeDefinitionIs ==
  ASSUME NEW found \in Found, NEW query
  PROVE  ReadTypeDefinition(found, query) =
           IF ~found.ok THEN ErrorText
           ELSE SectionsOrNone(FlatMap(Only(Matches(found, query), {x \in Symbols : x.opens /\ x.types.ok}),
                  LAMBDA y : [i \in 1..Len(y.types.locs) |-> FormatTypeDefinition(y.types.locs[i])]))
<1> DEFINE s == Matches(found, query)
           D == {x \in Symbols : x.opens /\ x.types.ok}
<1>1. s \in Seq(Symbols)
  BY MatchesIs
<1>2. ReadTypeDefinition(found, query) =
        IF ~found.ok THEN ErrorText
        ELSE SectionsOrNone(FlatMap(Chosen(s, {i \in 1..Len(s) : s[i].opens /\ s[i].types.ok}),
               LAMBDA y : [i \in 1..Len(y.types.locs) |-> FormatTypeDefinition(y.types.locs[i])]))
  BY DEF ReadTypeDefinition, FlatMapOf, FlatMap, Filtered
<1>3. {i \in 1..Len(s) : s[i].opens /\ s[i].types.ok} = {i \in 1..Len(s) : s[i] \in D}
  <2> HIDE DEF s
  <2> QED
    BY <1>1
<1> QED
  BY <1>2, <1>3, Zenon DEF Only, FlatMap, Filtered

(* make no difference to type_definition.                                  *)
LEMMA TypeDefinitionSame ==
  ASSUME question.topic = "names", NamesAsked
  PROVE  type_definition([symbolName |-> question.query], [servers |-> question.servers])
           = type_definition([symbolName |-> question.query],
                      [servers |-> Without(question.servers, LAMBDA s : s.opens /\ s.types.ok)])
<1> DEFINE servers == question.servers
           query == question.query
           args == [symbolName |-> query]
           D == {x \in Symbols : x.opens /\ x.types.ok}
           less == ReducedAll(servers, D)
           f == [x \in Found |-> ReadTypeDefinition(x, query)]
<1>1. servers \in Seq(Found)
  BY DEF NamesAsked, Found
<1>2. Without(servers, LAMBDA s : s.opens /\ s.types.ok) = less
  BY <1>1, WithoutUntyped
<1>3. \A i \in 1..Len(servers) : servers[i] \in Found
  BY <1>1
<1>4. \A k \in 1..Len(less) : less[k] \in Found
  <2>1. /\ Len(less) = Cardinality(Up(servers))
        /\ \A k \in 1..Cardinality(Up(servers)) : /\ less[k] = Reduced(servers[Nth(Up(servers), k)], D)
                                                  /\ servers[Nth(Up(servers), k)] \in Found
    BY <1>1, UpRight, WithoutIs
  <2> HIDE DEF less
  <2> QED
    BY <2>1, ReducedRight
<1>5. ASSUME NEW x \in Found
      PROVE  ReadTypeDefinition(x, query).kind # "error" <=> x.ok
  <2> DEFINE s == FlatMap(Only(Matches(x, query), D),
                          LAMBDA y : [i \in 1..Len(y.types.locs) |-> FormatTypeDefinition(y.types.locs[i])])
  <2>1. ReadTypeDefinition(x, query) = IF ~x.ok THEN ErrorText ELSE SectionsOrNone(s)
    BY ReadTypeDefinitionIs, Zenon DEF FlatMap, Filtered
  <2> HIDE DEF s
  <2>2. SectionsOrNone(s).kind # "error" /\ ErrorText.kind = "error"
    BY SectionsTold DEF ErrorText
  <2> QED
    BY <2>1, <2>2
<1>6. \A x \in Found : Reduced(x, D) \in Found /\ ReadTypeDefinition(Reduced(x, D), query) = ReadTypeDefinition(x, query)
  <2> SUFFICES ASSUME NEW x \in Found
               PROVE  Reduced(x, D) \in Found /\ ReadTypeDefinition(Reduced(x, D), query) = ReadTypeDefinition(x, query)
    OBVIOUS
  <2>1. /\ Reduced(x, D) \in Found /\ Reduced(x, D).ok = x.ok
        /\ Only(Matches(Reduced(x, D), query), D) = Only(Matches(x, query), D)
    BY ReducedRight
  <2> DEFINE all(s) == FlatMap(s, LAMBDA y : [i \in 1..Len(y.types.locs) |-> FormatTypeDefinition(y.types.locs[i])])
             U == Only(Matches(x, query), D)
             V == Only(Matches(Reduced(x, D), query), D)
  <2>2. ReadTypeDefinition(x, query) = IF ~x.ok THEN ErrorText ELSE SectionsOrNone(all(U))
    BY ReadTypeDefinitionIs, Zenon DEF FlatMap, Filtered
  <2>3. ReadTypeDefinition(Reduced(x, D), query) = IF ~Reduced(x, D).ok THEN ErrorText ELSE SectionsOrNone(all(V))
    BY <2>1, ReadTypeDefinitionIs, Zenon DEF FlatMap, Filtered
  <2>4. U = V
    BY <2>1
  <2> HIDE DEF all, U, V
  <2> QED
    BY <2>1, <2>2, <2>3, <2>4
<1> HIDE DEF less, D
<1>7. Given(args, "symbolName") /\ args.symbolName = query
  BY DEF Given
<1>8. OnServers(args, "symbolName", [i \in 1..Len(servers) |-> f[servers[i]]])
        = OnServers(args, "symbolName", [k \in 1..Len(less) |-> f[less[k]]])
  <2>1. \A x \in Found : (f[x].kind # "error" <=> x.ok) /\ f[Reduced(x, D)] = f[x]
    BY <1>5, <1>6
  <2> HIDE DEF f, args
  <2> QED
    BY <1>1, <1>7, <2>1, SameByName DEF less
<1>9. /\ [i \in 1..Len(servers) |-> f[servers[i]]] = [i \in 1..Len(servers) |-> ReadTypeDefinition(servers[i], query)]
      /\ [k \in 1..Len(less) |-> f[less[k]]] = [k \in 1..Len(less) |-> ReadTypeDefinition(less[k], query)]
  BY <1>3, <1>4
<1>10. \A w : type_definition(args, [servers |-> w]) = OnServers(args, "symbolName", [i \in 1..Len(w) |-> ReadTypeDefinition(w[i], query)])
  BY DEF type_definition, Each
<1> HIDE DEF f, args
<1>11. type_definition(args, [servers |-> servers]) = type_definition(args, [servers |-> less])
  BY <1>8, <1>9, <1>10
<1> QED
  BY <1>2, <1>11 DEF args

(* The symbols whose implementations cannot be had,                        *)
LEMMA WithoutUnimplemented ==
  ASSUME NEW servers \in Seq(Found)
  PROVE  Without(servers, LAMBDA s : s.opens /\ s.impls.ok) = ReducedAll(servers, {x \in Symbols : x.opens /\ x.impls.ok})
<1> DEFINE D == {x \in Symbols : x.opens /\ x.impls.ok}
           up == Chosen(servers, Up(servers))
           kept(s) == Chosen(s, {i \in 1..Len(s) : s[i].opens /\ s[i].impls.ok})
<1>1. Without(servers, LAMBDA s : s.opens /\ s.impls.ok)
        = [k \in 1..Len(up) |-> [up[k] EXCEPT !.symbols = kept(@)]]
  BY WithoutIs DEF Without, Filtered, Up
<1>2. ASSUME NEW x \in Found
      PROVE  kept(x.symbols) = Only(x.symbols, D)
  <2> DEFINE t == x.symbols
  <2>1. t \in Seq(Symbols)
    BY DEF Found
  <2>2. {i \in 1..Len(t) : t[i].opens /\ t[i].impls.ok} = {i \in 1..Len(t) : t[i] \in D}
    <3> HIDE DEF t
    <3> QED
      BY <2>1
  <2> QED
    BY <2>2 DEF Only
<1>3. \A k \in 1..Len(up) : up[k] \in Found
  BY WithoutIs
<1> HIDE DEF kept, D
<1>4. \A k \in 1..Len(up) : [up[k] EXCEPT !.symbols = kept(@)] = Reduced(up[k], D)
  BY <1>2, <1>3 DEF Reduced
<1>5. Len(up) = Cardinality(Up(servers)) /\ \A k \in 1..Len(up) : up[k] = servers[Nth(Up(servers), k)]
  BY WithoutIs
<1> QED
  BY <1>1, <1>4, <1>5 DEF ReducedAll, D

(* which FindImplementation passes over,                                   *)
LEMMA FindImplementationIs ==
  ASSUME NEW found \in Found, NEW query
  PROVE  FindImplementation(found, query) =
           IF ~found.ok THEN ErrorText
           ELSE SectionsOrNone(FlatMap(Only(Matches(found, query), {x \in Symbols : x.opens /\ x.impls.ok}),
                  LAMBDA y : Filtered(y.impls.locs, LAMBDA l : l.defined)))
<1> DEFINE s == Matches(found, query)
           D == {x \in Symbols : x.opens /\ x.impls.ok}
<1>1. s \in Seq(Symbols)
  BY MatchesIs
<1>2. FindImplementation(found, query) =
        IF ~found.ok THEN ErrorText
        ELSE SectionsOrNone(FlatMap(Chosen(s, {i \in 1..Len(s) : s[i].opens /\ s[i].impls.ok}),
               LAMBDA y : Filtered(y.impls.locs, LAMBDA l : l.defined)))
  BY DEF FindImplementation, FlatMapOf, FlatMap, Filtered
<1>3. {i \in 1..Len(s) : s[i].opens /\ s[i].impls.ok} = {i \in 1..Len(s) : s[i] \in D}
  <2> HIDE DEF s
  <2> QED
    BY <1>1
<1> QED
  BY <1>2, <1>3, Zenon DEF Only, FlatMap, Filtered

(* make no difference to implementation.                                   *)
LEMMA ImplementationSame ==
  ASSUME question.topic = "names", NamesAsked
  PROVE  implementation([symbolName |-> question.query], [servers |-> question.servers])
           = implementation([symbolName |-> question.query],
                      [servers |-> Without(question.servers, LAMBDA s : s.opens /\ s.impls.ok)])
<1> DEFINE servers == question.servers
           query == question.query
           args == [symbolName |-> query]
           D == {x \in Symbols : x.opens /\ x.impls.ok}
           less == ReducedAll(servers, D)
           f == [x \in Found |-> FindImplementation(x, query)]
<1>1. servers \in Seq(Found)
  BY DEF NamesAsked, Found
<1>2. Without(servers, LAMBDA s : s.opens /\ s.impls.ok) = less
  BY <1>1, WithoutUnimplemented
<1>3. \A i \in 1..Len(servers) : servers[i] \in Found
  BY <1>1
<1>4. \A k \in 1..Len(less) : less[k] \in Found
  <2>1. /\ Len(less) = Cardinality(Up(servers))
        /\ \A k \in 1..Cardinality(Up(servers)) : /\ less[k] = Reduced(servers[Nth(Up(servers), k)], D)
                                                  /\ servers[Nth(Up(servers), k)] \in Found
    BY <1>1, UpRight, WithoutIs
  <2> HIDE DEF less
  <2> QED
    BY <2>1, ReducedRight
<1>5. ASSUME NEW x \in Found
      PROVE  FindImplementation(x, query).kind # "error" <=> x.ok
  <2> DEFINE s == FlatMap(Only(Matches(x, query), D),
                          LAMBDA y : Filtered(y.impls.locs, LAMBDA l : l.defined))
  <2>1. FindImplementation(x, query) = IF ~x.ok THEN ErrorText ELSE SectionsOrNone(s)
    BY FindImplementationIs, Zenon DEF FlatMap, Filtered
  <2> HIDE DEF s
  <2>2. SectionsOrNone(s).kind # "error" /\ ErrorText.kind = "error"
    BY SectionsTold DEF ErrorText
  <2> QED
    BY <2>1, <2>2
<1>6. \A x \in Found : Reduced(x, D) \in Found /\ FindImplementation(Reduced(x, D), query) = FindImplementation(x, query)
  <2> SUFFICES ASSUME NEW x \in Found
               PROVE  Reduced(x, D) \in Found /\ FindImplementation(Reduced(x, D), query) = FindImplementation(x, query)
    OBVIOUS
  <2>1. /\ Reduced(x, D) \in Found /\ Reduced(x, D).ok = x.ok
        /\ Only(Matches(Reduced(x, D), query), D) = Only(Matches(x, query), D)
    BY ReducedRight
  <2> DEFINE all(s) == FlatMap(s, LAMBDA y : Filtered(y.impls.locs, LAMBDA l : l.defined))
             U == Only(Matches(x, query), D)
             V == Only(Matches(Reduced(x, D), query), D)
  <2>2. FindImplementation(x, query) = IF ~x.ok THEN ErrorText ELSE SectionsOrNone(all(U))
    BY FindImplementationIs, Zenon DEF FlatMap, Filtered
  <2>3. FindImplementation(Reduced(x, D), query) = IF ~Reduced(x, D).ok THEN ErrorText ELSE SectionsOrNone(all(V))
    BY <2>1, FindImplementationIs, Zenon DEF FlatMap, Filtered
  <2>4. U = V
    BY <2>1
  <2> HIDE DEF all, U, V
  <2> QED
    BY <2>1, <2>2, <2>3, <2>4
<1> HIDE DEF less, D
<1>7. Given(args, "symbolName") /\ args.symbolName = query
  BY DEF Given
<1>8. OnServers(args, "symbolName", [i \in 1..Len(servers) |-> f[servers[i]]])
        = OnServers(args, "symbolName", [k \in 1..Len(less) |-> f[less[k]]])
  <2>1. \A x \in Found : (f[x].kind # "error" <=> x.ok) /\ f[Reduced(x, D)] = f[x]
    BY <1>5, <1>6
  <2> HIDE DEF f, args
  <2> QED
    BY <1>1, <1>7, <2>1, SameByName DEF less
<1>9. /\ [i \in 1..Len(servers) |-> f[servers[i]]] = [i \in 1..Len(servers) |-> FindImplementation(servers[i], query)]
      /\ [k \in 1..Len(less) |-> f[less[k]]] = [k \in 1..Len(less) |-> FindImplementation(less[k], query)]
  BY <1>3, <1>4
<1>10. \A w : implementation(args, [servers |-> w]) = OnServers(args, "symbolName", [i \in 1..Len(w) |-> FindImplementation(w[i], query)])
  BY DEF implementation, Each
<1> HIDE DEF f, args
<1>11. implementation(args, [servers |-> servers]) = implementation(args, [servers |-> less])
  BY <1>8, <1>9, <1>10
<1> QED
  BY <1>2, <1>11 DEF args

(* The element between two sequences is where the first one ends.          *)
LEMMA InTheMiddle ==
  ASSUME NEW S, NEW c \in Seq(S), NEW n \in Seq(S), NEW x
  PROVE  Len(c) + 1 \in DOMAIN (c \o <<x>> \o n) /\ (c \o <<x>> \o n)[Len(c) + 1] = x
<1> DEFINE d == c \o <<x>>
           U == S \cup {x}
<1>1. c \in Seq(U) /\ n \in Seq(U) /\ x \in U
  OBVIOUS
<1>2. Len(c) \in Nat /\ Len(n) \in Nat
  OBVIOUS
<1> HIDE DEF U
<1>3. d \in Seq(U) /\ Len(d) = Len(c) + 1 /\ d[Len(c) + 1] = x
  BY <1>1, <1>2
<1> HIDE DEF d
<1>4. d \o n \in Seq(U) /\ Len(d \o n) = Len(d) + Len(n) /\ \A i \in 1..Len(d) : (d \o n)[i] = d[i]
  BY <1>1, <1>3
<1>5. Len(c) + 1 \in DOMAIN (d \o n) /\ (d \o n)[Len(c) + 1] = x
  BY <1>2, <1>3, <1>4
<1> QED
  BY <1>5 DEF d

(* A flat symbol matches its name qualified by its container.              *)
LEMMA QualifiedMatches ==
  ASSUME NEW s \in Symbols, NEW sep \in {Dot, Colons}, s.flat
  PROVE  MatchSymbol(s, Qualified(s, sep))
<1> DEFINE q == Qualified(s, sep)
           c == s.container
<1>1. c \in Seq(STRING) /\ s.name \in Seq(STRING)
  BY DEF Symbols
<1>2. q = c \o <<sep>> \o s.name
  BY DEF Qualified
<1>3. Has(q, sep)
  <2> DEFINE n == s.name
  <2>1. n \in Seq(STRING)
    BY <1>1
  <2> HIDE DEF c, n
  <2>2. Len(c) + 1 \in DOMAIN (c \o <<sep>> \o n) /\ (c \o <<sep>> \o n)[Len(c) + 1] = sep
    BY <1>1, <2>1, InTheMiddle
  <2> QED
    BY <1>2, <2>2 DEF Has, ToSet, n
<1>4. CASE sep = Dot
  BY <1>3, <1>4 DEF MatchSymbol
<1>5. CASE sep = Colons
  BY <1>3, <1>5 DEF MatchSymbol
<1> QED
  BY <1>4, <1>5

(* An element that is in T stays when those of T are kept.                 *)
LEMMA AmongOnly ==
  ASSUME NEW S, NEW s \in Seq(S), NEW T, NEW x \in ToSet(s), x \in T
  PROVE  Only(s, T) # <<>> /\ x \in ToSet(Only(s, T))
<1> DEFINE I == {i \in 1..Len(s) : s[i] \in T}
<1>1. I \in SUBSET (1..Len(s))
  OBVIOUS
<1>2. PICK i \in DOMAIN s : s[i] = x
  BY DEF ToSet
<1>3. i \in I
  BY <1>2
<1> HIDE DEF I
<1>4. /\ Chosen(s, I) \in Seq(S)
      /\ Chosen(s, I) = <<>> <=> I = {}
      /\ \E n \in 1..Len(Chosen(s, I)) : Chosen(s, I)[n] = s[i]
  BY <1>1, <1>3, ChosenRight
<1>5. Chosen(s, I) # <<>> /\ x \in ToSet(Chosen(s, I))
  BY <1>2, <1>3, <1>4 DEF ToSet
<1> QED
  BY <1>5 DEF Only, I

(* definition finds a symbol of the first server that answers by its       *)
(* qualified name.                                                         *)
LEMMA QualifiedFound ==
  ASSUME question.topic = "names", NamesAsked, NEW sep \in {Dot, Colons},
         Filtered(question.servers, LAMBDA found : found.ok) # <<>>,
         NEW s \in ToSet(Filtered(question.servers, LAMBDA found : found.ok)[1].symbols),
         s.flat, s.defined
  PROVE  LET found == definition([symbolName |-> Qualified(s, sep)], [servers |-> question.servers])
         IN  found.kind = "sections" /\ s \in ToSet(found.sections)
<1> DEFINE servers == question.servers
           q == Qualified(s, sep)
           args == [symbolName |-> q]
           D == {x \in Symbols : x.defined}
           I == Up(servers)
           x == servers[Nth(I, 1)]
           a == [i \in 1..Len(servers) |-> ReadDefinition(servers[i], q)]
           told == Only(Matches(x, q), D)
<1>1. servers \in Seq(Found)
  BY DEF NamesAsked, Found
<1>2. /\ Filtered(servers, LAMBDA found : found.ok) = Chosen(servers, I)
      /\ Len(Chosen(servers, I)) = Cardinality(I)
      /\ \A k \in 1..Cardinality(I) : Chosen(servers, I)[k] = servers[Nth(I, k)]
  BY <1>1, WithoutIs
<1>3. /\ I \in SUBSET (1..Len(servers)) /\ Len(servers) \in Nat /\ Cardinality(I) \in Nat
      /\ Cardinality(I) = 0 <=> I = {}
      /\ \A k \in 1..Cardinality(I) : Nth(I, k) \in I
  BY <1>1, UpRight
<1>4. Chosen(servers, I) \in Seq(Found) /\ (Chosen(servers, I) = <<>> <=> I = {})
  BY <1>1, <1>3, ChosenRight
<1>5. I # {} /\ 1 \in 1..Cardinality(I)
  BY <1>2, <1>3, <1>4
<1>6. Nth(I, 1) \in I /\ Nth(I, 1) \in 1..Len(servers) /\ x \in Found /\ x.ok
  <2>1. \A i \in I : i \in 1..Len(servers) /\ servers[i] \in Found /\ servers[i].ok
    BY <1>1 DEF Up
  <2> HIDE DEF I
  <2> QED
    BY <1>3, <1>5, <2>1
<1>7. s \in ToSet(x.symbols)
  BY <1>2, <1>5
<1>8. x.symbols \in Seq(Symbols)
  BY <1>6 DEF Found
<1> HIDE DEF x
<1>9. s \in Symbols
  BY <1>7, <1>8 DEF ToSet
<1>10. s \in Named(q) /\ s \in D
  BY <1>9, QualifiedMatches DEF Named
<1>11. told # <<>> /\ s \in ToSet(told)
  <2>1. Only(x.symbols, Named(q)) \in Seq(Symbols) /\ s \in ToSet(Only(x.symbols, Named(q)))
    BY <1>7, <1>8, <1>10, AmongOnly, OnlyTyped
  <2>2. Matches(x, q) = Only(x.symbols, Named(q))
    BY <1>6, MatchesIs
  <2> HIDE DEF D
  <2> QED
    BY <1>10, <2>1, <2>2, AmongOnly
<1>12. ReadDefinition(x, q) = Sections(told)
  <2>1. ReadDefinition(x, q) = IF ~x.ok THEN ErrorText ELSE SectionsOrNone(told)
    BY <1>6, ReadDefinitionIs
  <2> HIDE DEF told
  <2> QED
    BY <1>6, <1>11, <2>1 DEF SectionsOrNone
<1>13. Len(a) = Len(servers) /\ \A i \in 1..Len(servers) : a[i].kind # "error" <=> i \in I
  <2>1. Len(a) = Len(servers) /\ \A i \in 1..Len(servers) : a[i] = ReadDefinition(servers[i], q)
    BY <1>3
  <2>2. ASSUME NEW i \in 1..Len(servers)
        PROVE  ReadDefinition(servers[i], q).kind # "error" <=> servers[i].ok
    <3> DEFINE u == Only(Matches(servers[i], q), D)
    <3>1. servers[i] \in Found
      BY <1>1
    <3>2. ReadDefinition(servers[i], q) = IF ~servers[i].ok THEN ErrorText ELSE SectionsOrNone(u)
      BY <3>1, ReadDefinitionIs
    <3> HIDE DEF u
    <3>3. SectionsOrNone(u).kind # "error" /\ ErrorText.kind = "error"
      BY SectionsTold DEF ErrorText
    <3> QED
      BY <3>2, <3>3
  <2> HIDE DEF a
  <2> QED
    BY <2>1, <2>2 DEF Up
<1>14. Given(args, "symbolName") /\ args.symbolName = q
  BY DEF Given
<1>15. definition(args, [servers |-> servers]) = OnServers(args, "symbolName", a)
  BY DEF definition, Each
<1>16. a[Nth(I, 1)] = ReadDefinition(x, q)
  BY <1>6 DEF x
<1> HIDE DEF a, I, args
<1>17. OnServers(args, "symbolName", a) = IF I = {} THEN ErrorText ELSE a[Nth(I, 1)]
  BY <1>3, <1>13, <1>14, OnServersIs
<1>18. definition(args, [servers |-> servers]) = Sections(told)
  BY <1>5, <1>12, <1>15, <1>16, <1>17
<1>19. Sections(told).kind = "sections" /\ Sections(told).sections = told
  BY DEF Sections
<1> HIDE DEF told
<1> QED
  BY <1>11, <1>18, <1>19 DEF args

(* NamesResolve holds of every question about a name.                      *)
LEMMA NamesResolveThere ==
  ASSUME question.topic = "names" => NamesAsked
  PROVE  NamesResolve
<1> SUFFICES ASSUME question.topic = "names", NamesAsked
             PROVE  NamesResolve
  BY DEF NamesResolve
<1>1. definition([symbolName |-> question.query], [servers |-> question.servers])
        = definition([symbolName |-> question.query],
                     [servers |-> Without(question.servers, LAMBDA s : s.defined)])
  BY DefinitionSame
<1>2. type_definition([symbolName |-> question.query], [servers |-> question.servers])
        = type_definition([symbolName |-> question.query],
                          [servers |-> Without(question.servers, LAMBDA s : s.opens /\ s.types.ok)])
  BY TypeDefinitionSame
<1>3. implementation([symbolName |-> question.query], [servers |-> question.servers])
        = implementation([symbolName |-> question.query],
                         [servers |-> Without(question.servers, LAMBDA s : s.opens /\ s.impls.ok)])
  BY ImplementationSame
<1>4. Filtered(question.servers, LAMBDA found : found.ok) # <<>> =>
        \A s \in ToSet(Filtered(question.servers, LAMBDA found : found.ok)[1].symbols), sep \in {Dot, Colons} :
          s.flat /\ s.defined /\ s.container # <<>> =>
            LET found == definition([symbolName |-> Qualified(s, sep)], [servers |-> question.servers])
            IN  found.kind = "sections" /\ s \in ToSet(found.sections)
  BY QualifiedFound DEF Filtered
<1> QED
  BY <1>1, <1>2, <1>3, <1>4, Zenon DEF NamesResolve

-----------------------------------------------------------------------------
(* Views.                                                                  *)

(* Pairs of numbers are in a total order.                                  *)
LEMMA InOrderRight ==
  ASSUME NEW p \in Nat \X Nat, NEW q \in Nat \X Nat
  PROVE  /\ InOrder(p, p)
         /\ InOrder(p, q) \/ InOrder(q, p)
         /\ InOrder(p, q) /\ InOrder(q, p) => p = q
         /\ \A r \in Nat \X Nat : InOrder(p, q) /\ InOrder(q, r) => InOrder(p, r)
<1>1. \A a, b \in Nat : <<a, b>>[1] = a /\ <<a, b>>[2] = b
  OBVIOUS
<1>2. PICK a \in Nat, b \in Nat : p = <<a, b>>
  OBVIOUS
<1>3. PICK c \in Nat, d \in Nat : q = <<c, d>>
  OBVIOUS
<1>4. InOrder(p, q) <=> a < c \/ (a = c /\ b <= d)
  BY <1>1, <1>2, <1>3 DEF InOrder
<1>5. InOrder(q, p) <=> c < a \/ (a = c /\ d <= b)
  BY <1>1, <1>2, <1>3 DEF InOrder
<1>6. ASSUME NEW r \in Nat \X Nat, InOrder(p, q), InOrder(q, r)
      PROVE  InOrder(p, r)
  <2>1. PICK e \in Nat, g \in Nat : r = <<e, g>>
    OBVIOUS
  <2>2. InOrder(q, r) <=> c < e \/ (c = e /\ d <= g)
    BY <1>1, <1>3, <2>1 DEF InOrder
  <2>3. InOrder(p, r) <=> a < e \/ (a = e /\ b <= g)
    BY <1>1, <1>2, <2>1 DEF InOrder
  <2> QED
    BY <1>4, <1>6, <2>2, <2>3
<1>7. InOrder(p, p) <=> a < a \/ (a = a /\ b <= b)
  BY <1>1, <1>2 DEF InOrder
<1>8. InOrder(p, p)
  BY <1>7
<1>9. InOrder(p, q) \/ InOrder(q, p)
  BY <1>4, <1>5
<1>10. InOrder(p, q) /\ InOrder(q, p) => p = q
  BY <1>2, <1>3, <1>4, <1>5
<1> QED
  BY <1>6, <1>8, <1>9, <1>10

(* The rank of a pair in a finite set of them                              *)
LEMMA PairRankBounds ==
  ASSUME NEW P, IsFiniteSet(P), P \subseteq Nat \X Nat, NEW p \in P
  PROVE  PairRank(P, p) \in 1..Cardinality(P) /\ Cardinality(P) \in Nat
<1> DEFINE J == {q \in P : InOrder(q, p)}
<1>1. J \in SUBSET P /\ p \in J
  BY InOrderRight
<1>2. IsFiniteSet(J) /\ Cardinality(J) <= Cardinality(P)
  BY <1>1, FS_Subset
<1>3. Cardinality(J) \in Nat /\ Cardinality(P) \in Nat
  BY <1>2, FS_CardinalityType
<1>4. Cardinality(J) # 0
  BY <1>1, <1>2, FS_EmptySet
<1> HIDE DEF J
<1>5. Cardinality(J) \in 1..Cardinality(P)
  BY <1>2, <1>3, <1>4
<1> QED
  BY <1>3, <1>5 DEF J, PairRank

(* grows with the pair,                                                    *)
LEMMA PairRankGrows ==
  ASSUME NEW P, IsFiniteSet(P), P \subseteq Nat \X Nat, NEW p \in P, NEW q \in P
  PROVE  PairRank(P, p) <= PairRank(P, q) <=> InOrder(p, q)
<1> DEFINE Upto(r) == {x \in P : InOrder(x, r)}
<1>1. ASSUME NEW a \in P, NEW b \in P, InOrder(a, b)
      PROVE  /\ Upto(a) \in SUBSET Upto(b) /\ IsFiniteSet(Upto(b))
             /\ Cardinality(Upto(a)) \in Nat /\ Cardinality(Upto(b)) \in Nat
             /\ Cardinality(Upto(a)) <= Cardinality(Upto(b))
             /\ Cardinality(Upto(a)) = Cardinality(Upto(b)) => Upto(a) = Upto(b)
  <2>1. Upto(a) \in SUBSET Upto(b)
    BY <1>1, InOrderRight
  <2>2. IsFiniteSet(Upto(b)) /\ IsFiniteSet(Upto(a))
    BY FS_Subset
  <2> HIDE DEF Upto
  <2> QED
    BY <2>1, <2>2, FS_Subset, FS_CardinalityType
<1>2. ASSUME NEW a \in P, NEW b \in P, Upto(a) = Upto(b)
      PROVE  a = b
  <2>1. a \in Upto(b) /\ b \in Upto(a)
    BY <1>2, InOrderRight
  <2> QED
    BY <2>1, InOrderRight
<1>3. PairRank(P, p) = Cardinality(Upto(p)) /\ PairRank(P, q) = Cardinality(Upto(q))
  BY DEF PairRank
<1>4. InOrder(p, q) \/ InOrder(q, p)
  BY InOrderRight
<1>5. InOrder(p, p)
  BY InOrderRight
<1> HIDE DEF Upto
<1>6. CASE InOrder(p, q)
  BY <1>1, <1>3, <1>6
<1>7. CASE ~InOrder(p, q)
  <2>1. InOrder(q, p) /\ p # q
    BY <1>4, <1>5, <1>7
  <2>2. Upto(p) # Upto(q)
    BY <1>2, <2>1
  <2>3. /\ Cardinality(Upto(p)) \in Nat /\ Cardinality(Upto(q)) \in Nat
        /\ Cardinality(Upto(q)) <= Cardinality(Upto(p)) /\ Cardinality(Upto(q)) # Cardinality(Upto(p))
    BY <1>1, <2>1, <2>2
  <2> QED
    BY <1>3, <1>7, <2>3
<1> QED
  BY <1>6, <1>7

(* and NthPair finds the pair of each rank.                                *)
LEMMA NthPairRight ==
  ASSUME NEW P, IsFiniteSet(P), P \subseteq Nat \X Nat
  PROVE  /\ \A n \in 1..Cardinality(P) : NthPair(P, n) \in P /\ PairRank(P, NthPair(P, n)) = n
         /\ \A p \in P : NthPair(P, PairRank(P, p)) = p
<1> DEFINE f == [p \in P |-> PairRank(P, p)]
           T == 1..Cardinality(P)
<1>1. f \in [P -> T] /\ Cardinality(P) \in Nat
  BY PairRankBounds, FS_CardinalityType
<1>2. ASSUME NEW p \in P, NEW q \in P, PairRank(P, p) = PairRank(P, q)
      PROVE  p = q
  <2>1. PairRank(P, p) \in Int
    <3>1. PairRank(P, p) \in T
      BY PairRankBounds
    <3> QED
      BY <3>1
  <2>2. InOrder(p, q) /\ InOrder(q, p)
    BY <1>2, <2>1, PairRankGrows
  <2> QED
    BY <2>2, InOrderRight
<1>3. \A n \in T : \E p \in P : PairRank(P, p) = n
  <2>1. f \in Injection(P, T)
    BY <1>1, <1>2 DEF Injection, IsInjective
  <2>2. IsFiniteSet(T) /\ Cardinality(T) = Cardinality(P)
    BY <1>1, FS_Interval
  <2>3. f \in Surjection(P, T)
    BY <2>1, <2>2, FS_Injection
  <2> QED
    BY <2>3 DEF Surjection
<1>4. \A n \in T : NthPair(P, n) \in P /\ PairRank(P, NthPair(P, n)) = n
  BY <1>3 DEF NthPair
<1>5. ASSUME NEW p \in P
      PROVE  NthPair(P, PairRank(P, p)) = p
  <2>1. PairRank(P, p) \in T
    BY PairRankBounds
  <2>2. NthPair(P, PairRank(P, p)) \in P /\ PairRank(P, NthPair(P, PairRank(P, p))) = PairRank(P, p)
    BY <1>4, <2>1
  <2> QED
    BY <1>2, <2>2
<1> QED
  BY <1>4, <1>5

(* The places in a sequence of sequences.                                  *)
LEMMA PairsAre ==
  ASSUME NEW S, NEW ss \in Seq(Seq(S))
  PROVE  /\ IsFiniteSet(Pairs(ss)) /\ Pairs(ss) \subseteq Nat \X Nat
         /\ \A p \in Pairs(ss) : p[1] \in 1..Len(ss) /\ p[2] \in 1..Len(ss[p[1]]) /\ p = <<p[1], p[2]>>
         /\ \A i \in 1..Len(ss) : \A j \in 1..Len(ss[i]) : <<i, j>> \in Pairs(ss)
<1> DEFINE row(i) == {<<i, j>> : j \in 1..Len(ss[i])}
           rows == {row(i) : i \in 1..Len(ss)}
<1>1. Len(ss) \in Nat /\ \A i \in 1..Len(ss) : ss[i] \in Seq(S) /\ Len(ss[i]) \in Nat
  OBVIOUS
<1>2. Pairs(ss) = UNION rows
  BY DEF Pairs
<1>3. \A p \in Pairs(ss) : \E i \in 1..Len(ss) : \E j \in 1..Len(ss[i]) : p = <<i, j>>
  BY DEF Pairs
<1>4. \A i \in 1..Len(ss) : \A j \in 1..Len(ss[i]) : <<i, j>> \in Pairs(ss)
  BY DEF Pairs
<1>5. \A i \in 1..Len(ss) : IsFiniteSet(row(i))
  <2> SUFFICES ASSUME NEW i \in 1..Len(ss) PROVE IsFiniteSet(row(i))
    OBVIOUS
  <2> DEFINE I == 1..Len(ss[i])
             f == [j \in I |-> <<i, j>>]
             R == row(i)
  <2>1. 1 \in Int /\ Len(ss[i]) \in Int
    BY <1>1
  <2>2. IsFiniteSet(I)
    BY <2>1, FS_Interval
  <2>3. f \in Surjection(I, R)
    BY DEF Surjection
  <2> HIDE DEF I, f, R
  <2>4. IsFiniteSet(R)
    BY <2>2, <2>3, FS_Surjection
  <2> QED
    BY <2>4 DEF R
<1>6. IsFiniteSet(rows)
  <2> DEFINE I == 1..Len(ss)
             f == [i \in I |-> row(i)]
             R == rows
  <2>1. IsFiniteSet(I)
    BY <1>1, FS_Interval
  <2>2. f \in Surjection(I, R)
    BY DEF Surjection
  <2> HIDE DEF I, f, R
  <2>3. IsFiniteSet(R)
    BY <2>1, <2>2, FS_Surjection
  <2> QED
    BY <2>3 DEF R
<1>7. IsFiniteSet(UNION rows)
  <2>1. \A R \in rows : IsFiniteSet(R)
    BY <1>5
  <2> HIDE DEF rows
  <2> QED
    BY <1>6, <2>1, FS_UNION
<1>8. ASSUME NEW p \in Pairs(ss)
      PROVE  p \in Nat \X Nat /\ p[1] \in 1..Len(ss) /\ p[2] \in 1..Len(ss[p[1]]) /\ p = <<p[1], p[2]>>
  <2>1. PICK i \in 1..Len(ss) : \E j \in 1..Len(ss[i]) : p = <<i, j>>
    BY <1>3
  <2>2. PICK j \in 1..Len(ss[i]) : p = <<i, j>>
    BY <2>1
  <2>3. p[1] = i /\ p[2] = j
    BY <2>2
  <2>4. i \in Nat /\ j \in Nat
    BY <1>1
  <2> QED
    BY <2>2, <2>3, <2>4
<1> QED
  BY <1>2, <1>4, <1>7, <1>8

(* F lists, in order, what is at the places f[1], f[2], ... of ss, and all *)
(* of it.                                                                  *)
Lists(F, f, ss) ==
  /\ \A n \in 1..Len(F) : f[n] \in Pairs(ss) /\ F[n] = ss[f[n][1]][f[n][2]]
  /\ \A p \in Pairs(ss) : \E n \in 1..Len(F) : f[n] = p
  /\ \A a, b \in 1..Len(F) : InOrder(f[a], f[b]) <=> a <= b

(* Only one sequence lists all of ss in order,                             *)
LEMMA FlattenedIs ==
  ASSUME NEW S, NEW ss \in Seq(Seq(S)), NEW F \in Seq(S), NEW f, Lists(F, f, ss)
  PROVE  Flattened(ss) = F
<1> DEFINE P == Pairs(ss)
           m == Len(F)
<1>1. m \in Nat /\ IsFiniteSet(P) /\ P \subseteq Nat \X Nat
  BY PairsAre
<1>2. /\ \A n \in 1..m : f[n] \in P /\ F[n] = ss[f[n][1]][f[n][2]]
      /\ \A p \in P : \E n \in 1..m : f[n] = p
      /\ \A a, b \in 1..m : InOrder(f[a], f[b]) <=> a <= b
  BY DEF Lists
<1>3. \A a, b \in 1..m : f[a] = f[b] => a = b
  <2> SUFFICES ASSUME NEW a \in 1..m, NEW b \in 1..m, f[a] = f[b] PROVE a = b
    OBVIOUS
  <2>1. a <= a
    BY <1>1
  <2>2. InOrder(f[a], f[b]) /\ InOrder(f[b], f[a])
    BY <1>2, <2>1
  <2>3. a <= b /\ b <= a
    BY <1>2, <2>2
  <2> QED
    BY <1>1, <2>3
<1>4. IsFiniteSet(1..m) /\ Cardinality(1..m) = m
  <2> HIDE DEF m
  <2>1. 1 \in Int /\ m \in Int /\ (IF 1 > m THEN 0 ELSE m - 1 + 1) = m
    BY <1>1
  <2> QED
    BY <2>1, FS_Interval
<1>5. Cardinality(P) = m
  <2> DEFINE I == 1..m
  <2>1. \A n \in I : f[n] \in P
    BY <1>2
  <2>2. IsFiniteSet(I) /\ Cardinality(I) = m
    BY <1>4
  <2>3. \A a, b \in I : f[a] = f[b] => a = b
    BY <1>3
  <2>4. \A p \in P : \E n \in I : f[n] = p
    BY <1>2
  <2> HIDE DEF I, P, m
  <2>5. Cardinality(P) = Cardinality(I)
    BY <2>1, <2>2, <2>3, <2>4, SameSize
  <2> QED
    BY <2>2, <2>5
<1>6. ASSUME NEW n \in 1..m
      PROVE  PairRank(P, f[n]) = n
  <2> DEFINE I == 1..n
             Q == {q \in P : InOrder(q, f[n])}
  <2>1. n \in Nat /\ IsFiniteSet(I) /\ Cardinality(I) = n
    BY <1>1, FS_Interval
  <2>2. \A i \in I : i \in 1..m /\ i <= n
    BY <1>1
  <2>3. \A i \in I : f[i] \in Q
    BY <1>2, <2>2
  <2>4. \A a, b \in I : f[a] = f[b] => a = b
    BY <1>3, <2>2
  <2>5. \A q \in Q : \E i \in I : f[i] = q
    <3> SUFFICES ASSUME NEW q \in P, InOrder(q, f[n]) PROVE \E i \in I : f[i] = q
      OBVIOUS
    <3>1. PICK i \in 1..m : f[i] = q
      BY <1>2
    <3>2. i <= n
      BY <1>2, <3>1
    <3> QED
      BY <1>1, <3>1, <3>2
  <2> HIDE DEF I, Q
  <2>6. Cardinality(Q) = n
    BY <2>1, <2>3, <2>4, <2>5, SameSize
  <2> QED
    BY <2>6 DEF Q, PairRank
<1>7. \A n \in 1..m : NthPair(P, n) = f[n]
  <2> SUFFICES ASSUME NEW n \in 1..m PROVE NthPair(P, n) = f[n]
    OBVIOUS
  <2>1. f[n] \in P /\ PairRank(P, f[n]) = n
    BY <1>2, <1>6
  <2>2. NthPair(P, PairRank(P, f[n])) = f[n]
    BY <1>1, <2>1, NthPairRight
  <2> QED
    BY <2>1, <2>2
<1>8. Flattened(ss) = [n \in 1..m |-> ss[NthPair(P, n)[1]][NthPair(P, n)[2]]]
  BY <1>5 DEF Flattened
<1>9. \A n \in 1..m : ss[NthPair(P, n)[1]][NthPair(P, n)[2]] = F[n]
  BY <1>2, <1>7
<1>10. F = [n \in 1..m |-> F[n]]
  OBVIOUS
<1> HIDE DEF P, m
<1> QED
  BY <1>8, <1>9, <1>10

(* and Flattened does.                                                     *)
LEMMA FlattenedHas ==
  ASSUME NEW S, NEW ss \in Seq(Seq(S))
  PROVE  /\ Flattened(ss) \in Seq(S)
         /\ \E f : Lists(Flattened(ss), f, ss)
<1> DEFINE P == Pairs(ss)
           m == Cardinality(P)
           f == [n \in 1..m |-> NthPair(P, n)]
           F == Flattened(ss)
<1>1. IsFiniteSet(P) /\ P \subseteq Nat \X Nat /\ m \in Nat
  BY PairsAre, FS_CardinalityType
<1>2. /\ \A n \in 1..m : NthPair(P, n) \in P /\ PairRank(P, NthPair(P, n)) = n
      /\ \A p \in P : NthPair(P, PairRank(P, p)) = p
  BY <1>1, NthPairRight
<1>3. \A p \in P : PairRank(P, p) \in 1..m
  BY <1>1, PairRankBounds
<1>4. \A n \in 1..m : ss[NthPair(P, n)[1]][NthPair(P, n)[2]] \in S
  <2> SUFFICES ASSUME NEW n \in 1..m PROVE ss[NthPair(P, n)[1]][NthPair(P, n)[2]] \in S
    OBVIOUS
  <2>1. PICK p \in P : p = NthPair(P, n)
    BY <1>2
  <2>2. p[1] \in 1..Len(ss) /\ p[2] \in 1..Len(ss[p[1]])
    BY PairsAre
  <2>3. ss[p[1]] \in Seq(S)
    BY <2>2
  <2>4. ss[p[1]][p[2]] \in S
    BY <2>2, <2>3
  <2> QED
    BY <2>1, <2>4
<1>5. F = [n \in 1..m |-> ss[NthPair(P, n)[1]][NthPair(P, n)[2]]]
  BY DEF Flattened
<1>6. F \in Seq(S) /\ Len(F) = m
  <2> HIDE DEF F, m, P
  <2> QED
    BY <1>1, <1>4, <1>5
<1>7. \A n \in 1..m : f[n] = NthPair(P, n) /\ f[n] \in P /\ F[n] = ss[f[n][1]][f[n][2]]
  BY <1>2, <1>5
<1>8. \A p \in P : \E n \in 1..m : f[n] = p
  BY <1>2, <1>3
<1>9. \A a, b \in 1..m : InOrder(f[a], f[b]) <=> a <= b
  <2> SUFFICES ASSUME NEW a \in 1..m, NEW b \in 1..m PROVE InOrder(f[a], f[b]) <=> a <= b
    OBVIOUS
  <2>1. f[a] \in P /\ f[b] \in P /\ PairRank(P, f[a]) = a /\ PairRank(P, f[b]) = b
    BY <1>2, <1>7
  <2> HIDE DEF P, m, f
  <2>2. PairRank(P, f[a]) <= PairRank(P, f[b]) <=> InOrder(f[a], f[b])
    BY <1>1, <2>1, PairRankGrows
  <2> QED
    BY <2>1, <2>2
<1> HIDE DEF P, m, f, F
<1>10. /\ \A n \in 1..Len(F) : f[n] \in P /\ F[n] = ss[f[n][1]][f[n][2]]
       /\ \A p \in P : \E n \in 1..Len(F) : f[n] = p
       /\ \A a, b \in 1..Len(F) : InOrder(f[a], f[b]) <=> a <= b
  BY <1>6, <1>7, <1>8, <1>9
<1>11. Lists(F, f, ss)
  BY <1>10 DEF P, Lists
<1> QED
  BY <1>6, <1>11 DEF F

(* To choose all places is to change nothing.                              *)
LEMMA ChosenAll ==
  ASSUME NEW S, NEW s \in Seq(S)
  PROVE  Chosen(s, 1..Len(s)) = s
<1> DEFINE m == Len(s)
           I == 1..m
<1>1. m \in Nat /\ I \in SUBSET (1..m)
  OBVIOUS
<1>2. IsFiniteSet(I) /\ Cardinality(I) = m
  <2> HIDE DEF m
  <2>1. 1 \in Int /\ m \in Int /\ (IF 1 > m THEN 0 ELSE m - 1 + 1) = m
    BY <1>1
  <2> QED
    BY <2>1, FS_Interval
<1>3. ASSUME NEW n \in I
      PROVE  Rank(I, n) = n
  <2>1. n \in Nat /\ 1 \in Int /\ n \in Int /\ (IF 1 > n THEN 0 ELSE n - 1 + 1) = n
    BY <1>1
  <2>2. Cardinality(1..n) = n
    BY <2>1, FS_Interval
  <2>3. {j \in I : j <= n} = 1..n
    BY <1>1, <2>1
  <2> QED
    BY <2>2, <2>3 DEF Rank
<1>4. ASSUME NEW n \in I
      PROVE  Nth(I, n) = n
  <2>1. Nth(I, Rank(I, n)) = n
    BY <1>1, NthRight
  <2> QED
    BY <1>3, <2>1
<1>5. Len(Chosen(s, I)) = m /\ Chosen(s, I) \in Seq(S) /\ \A n \in I : Chosen(s, I)[n] = s[Nth(I, n)]
  <2> HIDE DEF I
  <2>1. /\ Len(Chosen(s, I)) = Cardinality(I) /\ Chosen(s, I) \in Seq(S)
        /\ \A n \in 1..Cardinality(I) : Chosen(s, I)[n] = s[Nth(I, n)]
    BY <1>1, ChosenRight DEF m
  <2> QED
    BY <1>2, <2>1 DEF I
<1>6. \A n \in I : Chosen(s, I)[n] = s[n]
  BY <1>4, <1>5
<1> DEFINE c == Chosen(s, I)
<1> HIDE DEF c
<1>7. c \in Seq(S) /\ Len(c) = Len(s) /\ \A n \in 1..Len(s) : c[n] = s[n]
  BY <1>5, <1>6 DEF c
<1>8. c = s
  BY <1>7
<1> QED
  BY <1>8 DEF c

(* One sequence, joined with no other, is itself.                          *)
LEMMA JoinOne ==
  ASSUME NEW S, NEW s \in Seq(S)
  PROVE  Flattened(<<s>>) = s
<1> DEFINE ss == <<s>>
           f == [n \in 1..Len(s) |-> <<1, n>>]
<1>1. ss \in Seq(Seq(S)) /\ Len(ss) = 1 /\ ss[1] = s /\ Len(s) \in Nat
  OBVIOUS
<1>2. \A n \in 1..Len(s) : f[n] = <<1, n>> /\ f[n][1] = 1 /\ f[n][2] = n
  OBVIOUS
<1> HIDE DEF ss, f
<1>3. /\ \A p \in Pairs(ss) : p[1] \in 1..Len(ss) /\ p[2] \in 1..Len(ss[p[1]]) /\ p = <<p[1], p[2]>>
      /\ \A i \in 1..Len(ss) : \A j \in 1..Len(ss[i]) : <<i, j>> \in Pairs(ss)
  BY <1>1, PairsAre
<1>4. \A n \in 1..Len(s) : f[n] \in Pairs(ss) /\ s[n] = ss[f[n][1]][f[n][2]]
  <2>1. 1 \in 1..Len(ss)
    BY <1>1
  <2>2. \A n \in 1..Len(s) : <<1, n>> \in Pairs(ss)
    BY <1>1, <1>3, <2>1
  <2> QED
    BY <1>1, <1>2, <2>2
<1>5. \A p \in Pairs(ss) : \E n \in 1..Len(s) : f[n] = p
  <2> SUFFICES ASSUME NEW p \in Pairs(ss) PROVE \E n \in 1..Len(s) : f[n] = p
    OBVIOUS
  <2>1. p[1] \in 1..1
    BY <1>1, <1>3
  <2>2. p[1] = 1
    BY <2>1
  <2>3. p[2] \in 1..Len(s) /\ p = <<1, p[2]>>
    BY <1>1, <1>3, <2>2
  <2> QED
    BY <1>2, <2>3
<1>6. \A a, b \in 1..Len(s) : InOrder(f[a], f[b]) <=> a <= b
  <2> SUFFICES ASSUME NEW a \in 1..Len(s), NEW b \in 1..Len(s) PROVE InOrder(f[a], f[b]) <=> a <= b
    OBVIOUS
  <2>1. InOrder(f[a], f[b]) <=> 1 < 1 \/ (1 = 1 /\ a <= b)
    BY <1>2 DEF InOrder
  <2> QED
    BY <2>1
<1>7. Lists(s, f, ss)
  BY <1>4, <1>5, <1>6 DEF Lists
<1>8. Flattened(ss) = s
  BY <1>1, <1>7, FlattenedIs
<1> QED
  BY <1>8 DEF ss

(* The places I of what F lists are, in the same order, all those of tt.   *)
ListsPart(F, I, f, g, tt) ==
  /\ \A n \in I : g[n] \in Pairs(tt) /\ F[n] = tt[g[n][1]][g[n][2]]
  /\ \A p \in Pairs(tt) : \E n \in I : g[n] = p
  /\ \A a, b \in I : InOrder(g[a], g[b]) <=> InOrder(f[a], f[b])

(* A part of a joined sequence that has the places of another sequence of  *)
(* sequences is that one joined.                                           *)
LEMMA JoinSame ==
  ASSUME NEW S, NEW ss \in Seq(Seq(S)), NEW tt \in Seq(Seq(S)), NEW f, Lists(Flattened(ss), f, ss), NEW g,
         NEW I \in SUBSET (1..Len(Flattened(ss))), ListsPart(Flattened(ss), I, f, g, tt)
  PROVE  Flattened(tt) = Chosen(Flattened(ss), I)
<1> DEFINE F == Flattened(ss)
           h == [n \in 1..Cardinality(I) |-> g[Nth(I, n)]]
           G == Chosen(F, I)
<1>1. F \in Seq(S) /\ Len(F) \in Nat /\ I \in SUBSET (1..Len(F))
  BY FlattenedHas
<1>2. \A a, b \in 1..Len(F) : InOrder(f[a], f[b]) <=> a <= b
  BY DEF Lists
<1>3. /\ \A n \in I : g[n] \in Pairs(tt) /\ F[n] = tt[g[n][1]][g[n][2]]
      /\ \A p \in Pairs(tt) : \E n \in I : g[n] = p
      /\ \A a, b \in I : InOrder(g[a], g[b]) <=> InOrder(f[a], f[b])
  BY DEF ListsPart
<1> HIDE DEF F
<1>4. G \in Seq(S) /\ Len(G) = Cardinality(I) /\ \A n \in 1..Cardinality(I) : G[n] = F[Nth(I, n)]
  BY <1>1, ChosenRight
<1>5. /\ \A n \in 1..Cardinality(I) : Nth(I, n) \in I
      /\ \A i \in I : Rank(I, i) \in 1..Cardinality(I) /\ Nth(I, Rank(I, i)) = i
  BY <1>1, NthRight, RankBounds
<1>6. \A n \in 1..Cardinality(I) : h[n] = g[Nth(I, n)]
  OBVIOUS
<1> HIDE DEF G, h
<1>7. \A n \in 1..Len(G) : h[n] \in Pairs(tt) /\ G[n] = tt[h[n][1]][h[n][2]]
  <2> SUFFICES ASSUME NEW n \in 1..Cardinality(I)
               PROVE  h[n] \in Pairs(tt) /\ G[n] = tt[h[n][1]][h[n][2]]
    BY <1>4
  <2>1. PICK i \in I : i = Nth(I, n)
    BY <1>5
  <2>2. h[n] = g[i] /\ G[n] = F[i]
    BY <1>4, <1>6, <2>1
  <2>3. g[i] \in Pairs(tt) /\ F[i] = tt[g[i][1]][g[i][2]]
    BY <1>3
  <2> QED
    BY <2>2, <2>3
<1>8. \A p \in Pairs(tt) : \E n \in 1..Len(G) : h[n] = p
  <2> SUFFICES ASSUME NEW p \in Pairs(tt) PROVE \E n \in 1..Len(G) : h[n] = p
    OBVIOUS
  <2>1. PICK i \in I : g[i] = p
    BY <1>3
  <2>2. Rank(I, i) \in 1..Len(G) /\ h[Rank(I, i)] = p
    BY <1>4, <1>5, <1>6, <2>1
  <2> QED
    BY <2>2
<1>9. \A a, b \in 1..Len(G) : InOrder(h[a], h[b]) <=> a <= b
  <2> SUFFICES ASSUME NEW a \in 1..Cardinality(I), NEW b \in 1..Cardinality(I)
               PROVE  InOrder(h[a], h[b]) <=> a <= b
    BY <1>4
  <2> DEFINE i == Nth(I, a)
             k == Nth(I, b)
  <2>1. i \in I /\ k \in I /\ h[a] = g[i] /\ h[b] = g[k]
    BY <1>5, <1>6
  <2>2. i <= k <=> a <= b
    BY <1>1, NthGrows
  <2> HIDE DEF i, k
  <2>3. InOrder(g[i], g[k]) <=> InOrder(f[i], f[k])
    BY <1>3, <2>1
  <2>4. InOrder(f[i], f[k]) <=> i <= k
    BY <1>1, <1>2, <2>1
  <2> QED
    BY <2>1, <2>2, <2>3, <2>4
<1>10. Lists(G, h, tt)
  BY <1>7, <1>8, <1>9 DEF Lists
<1>11. Flattened(tt) = G
  BY <1>4, <1>10, FlattenedIs
<1> QED
  BY <1>11 DEF G, F

(* To choose among sequences and join them is to join them all and choose  *)
(* by the first of the pairs.                                              *)
LEMMA JoinChosen ==
  ASSUME NEW S, NEW ss \in Seq(Seq(S)), NEW f, Lists(Flattened(ss), f, ss), NEW K \in SUBSET (1..Len(ss))
  PROVE  Flattened(Chosen(ss, K)) = Chosen(Flattened(ss), {n \in 1..Len(Flattened(ss)) : f[n][1] \in K})
<1> DEFINE F == Flattened(ss)
           tt == Chosen(ss, K)
           I == {n \in 1..Len(F) : f[n][1] \in K}
           g == [n \in I |-> <<Rank(K, f[n][1]), f[n][2]>>]
<1>1. Len(ss) \in Nat /\ tt \in Seq(Seq(S)) /\ Len(tt) = Cardinality(K) /\ \A n \in 1..Cardinality(K) : tt[n] = ss[Nth(K, n)]
  BY ChosenRight
<1>2. /\ \A k \in K : Rank(K, k) \in 1..Cardinality(K) /\ Nth(K, Rank(K, k)) = k
      /\ \A n \in 1..Cardinality(K) : Nth(K, n) \in K /\ Rank(K, Nth(K, n)) = n
      /\ K \in SUBSET (1..Len(ss))
  BY <1>1, RankBounds, NthRight
<1>3. \A k \in K : tt[Rank(K, k)] = ss[k]
  BY <1>1, <1>2
<1>4. /\ \A n \in 1..Len(F) : f[n] \in Pairs(ss) /\ F[n] = ss[f[n][1]][f[n][2]]
      /\ \A p \in Pairs(ss) : \E n \in 1..Len(F) : f[n] = p
  BY DEF Lists
<1>5. \A p \in Pairs(ss) : p[1] \in 1..Len(ss) /\ p[2] \in 1..Len(ss[p[1]]) /\ p = <<p[1], p[2]>>
  BY PairsAre
<1>6. \A i \in 1..Len(ss) : \A j \in 1..Len(ss[i]) : <<i, j>> \in Pairs(ss)
  BY PairsAre
<1> HIDE DEF tt
<1>7. \A p \in Pairs(tt) : p[1] \in 1..Len(tt) /\ p[2] \in 1..Len(tt[p[1]]) /\ p = <<p[1], p[2]>>
  BY <1>1, PairsAre
<1>8. \A i \in 1..Len(tt) : \A j \in 1..Len(tt[i]) : <<i, j>> \in Pairs(tt)
  BY <1>1, PairsAre
<1> HIDE DEF F
<1>9. ASSUME NEW n \in I
      PROVE  /\ g[n] = <<Rank(K, f[n][1]), f[n][2]>> /\ f[n][1] \in K /\ n \in 1..Len(F)
             /\ g[n][1] = Rank(K, f[n][1]) /\ g[n][2] = f[n][2]
  OBVIOUS
<1>10. I \in SUBSET (1..Len(F))
  OBVIOUS
<1>11. \A n \in 1..Len(F) : f[n][1] \in K => n \in I
  OBVIOUS
<1> HIDE DEF g, I
<1>12. \A n \in I : g[n] \in Pairs(tt) /\ F[n] = tt[g[n][1]][g[n][2]]
  <2> SUFFICES ASSUME NEW n \in I PROVE g[n] \in Pairs(tt) /\ F[n] = tt[g[n][1]][g[n][2]]
    OBVIOUS
  <2>1. f[n] \in Pairs(ss) /\ F[n] = ss[f[n][1]][f[n][2]] /\ f[n][1] \in K
    BY <1>4, <1>9
  <2>2. f[n][2] \in 1..Len(ss[f[n][1]])
    BY <1>5, <2>1
  <2>3. tt[Rank(K, f[n][1])] = ss[f[n][1]] /\ Rank(K, f[n][1]) \in 1..Len(tt)
    BY <1>1, <1>2, <1>3, <2>1
  <2>4. <<Rank(K, f[n][1]), f[n][2]>> \in Pairs(tt)
    BY <1>8, <2>2, <2>3
  <2> QED
    BY <1>9, <2>1, <2>3, <2>4
<1>13. \A p \in Pairs(tt) : \E n \in I : g[n] = p
  <2> SUFFICES ASSUME NEW p \in Pairs(tt) PROVE \E n \in I : g[n] = p
    OBVIOUS
  <2>1. p[1] \in 1..Len(tt) /\ p[2] \in 1..Len(tt[p[1]]) /\ p = <<p[1], p[2]>>
    BY <1>7
  <2>2. PICK k \in K : k = Nth(K, p[1]) /\ Rank(K, k) = p[1] /\ tt[p[1]] = ss[k]
    BY <1>1, <1>2, <2>1
  <2>3. <<k, p[2]>> \in Pairs(ss)
    BY <1>2, <1>6, <2>1, <2>2
  <2>4. PICK n \in 1..Len(F) : f[n] = <<k, p[2]>>
    BY <1>4, <2>3
  <2>5. f[n][1] = k /\ f[n][2] = p[2]
    BY <2>4
  <2>6. n \in I
    BY <1>11, <2>5
  <2>7. g[n] = <<Rank(K, k), p[2]>>
    BY <1>9, <2>5, <2>6
  <2> QED
    BY <2>1, <2>2, <2>6, <2>7
<1>14. \A a, b \in I : InOrder(g[a], g[b]) <=> InOrder(f[a], f[b])
  <2> SUFFICES ASSUME NEW a \in I, NEW b \in I PROVE InOrder(g[a], g[b]) <=> InOrder(f[a], f[b])
    OBVIOUS
  <2>1. f[a][1] \in K /\ f[b][1] \in K
    BY <1>9
  <2>2. PICK i \in K : i = f[a][1]
    BY <2>1
  <2>3. PICK k \in K : k = f[b][1]
    BY <2>1
  <2>4. g[a][1] = Rank(K, i) /\ g[b][1] = Rank(K, k) /\ g[a][2] = f[a][2] /\ g[b][2] = f[b][2]
    BY <1>9, <2>2, <2>3
  <2>5. /\ i < k => Rank(K, i) < Rank(K, k)
        /\ k < i => Rank(K, k) < Rank(K, i)
    BY <1>1, RankGrows
  <2>6. i \in Int /\ k \in Int
    BY <1>1, <1>2
  <2>7. Rank(K, i) \in Int /\ Rank(K, k) \in Int
    <3>1. Cardinality(K) \in Nat
      BY <1>1, PlacesFinite
    <3>2. Rank(K, i) \in 1..Cardinality(K) /\ Rank(K, k) \in 1..Cardinality(K)
      BY <1>2
    <3> QED
      BY <3>1, <3>2
  <2>8. /\ Rank(K, i) < Rank(K, k) <=> i < k
        /\ Rank(K, i) = Rank(K, k) <=> i = k
    BY <2>5, <2>6, <2>7
  <2>9. InOrder(g[a], g[b]) <=> Rank(K, i) < Rank(K, k) \/ (Rank(K, i) = Rank(K, k) /\ f[a][2] <= f[b][2])
    BY <2>4 DEF InOrder
  <2>10. InOrder(f[a], f[b]) <=> i < k \/ (i = k /\ f[a][2] <= f[b][2])
    BY <2>2, <2>3 DEF InOrder
  <2> QED
    BY <2>8, <2>9, <2>10
<1>15. ListsPart(F, I, f, g, tt)
  BY <1>12, <1>13, <1>14 DEF ListsPart
<1>16. Flattened(tt) = Chosen(F, I)
  BY <1>1, <1>10, <1>15, JoinSame DEF F
<1> QED
  BY <1>16 DEF tt, F, I

(* The heads of the sequences are what is at the places with a 1.          *)
LEMMA JoinHeads ==
  ASSUME NEW S, NEW ss \in Seq(Seq(S)), NEW f, Lists(Flattened(ss), f, ss),
         \A i \in 1..Len(ss) : ss[i] # <<>>
  PROVE  Flattened([i \in 1..Len(ss) |-> <<ss[i][1]>>]) =
           Chosen(Flattened(ss), {n \in 1..Len(Flattened(ss)) : f[n][2] = 1})
<1> DEFINE F == Flattened(ss)
           tt == [i \in 1..Len(ss) |-> <<ss[i][1]>>]
           I == {n \in 1..Len(F) : f[n][2] = 1}
<1>1. Len(ss) \in Nat /\ \A i \in 1..Len(ss) : ss[i] \in Seq(S) /\ 1 \in 1..Len(ss[i]) /\ ss[i][1] \in S
  OBVIOUS
<1>2. /\ tt \in Seq(Seq(S)) /\ Len(tt) = Len(ss)
      /\ \A i \in 1..Len(ss) : Len(tt[i]) = 1 /\ tt[i][1] = ss[i][1]
  BY <1>1
<1>3. /\ \A n \in 1..Len(F) : f[n] \in Pairs(ss) /\ F[n] = ss[f[n][1]][f[n][2]]
      /\ \A p \in Pairs(ss) : \E n \in 1..Len(F) : f[n] = p
  BY DEF Lists
<1>4. \A p \in Pairs(ss) : p[1] \in 1..Len(ss) /\ p[2] \in 1..Len(ss[p[1]]) /\ p = <<p[1], p[2]>>
  BY PairsAre
<1>5. \A i \in 1..Len(ss) : \A j \in 1..Len(ss[i]) : <<i, j>> \in Pairs(ss)
  BY PairsAre
<1> HIDE DEF tt
<1>6. \A p \in Pairs(tt) : p[1] \in 1..Len(tt) /\ p[2] \in 1..Len(tt[p[1]]) /\ p = <<p[1], p[2]>>
  BY <1>2, PairsAre
<1>7. \A i \in 1..Len(tt) : \A j \in 1..Len(tt[i]) : <<i, j>> \in Pairs(tt)
  BY <1>2, PairsAre
<1> HIDE DEF F
<1>8. I \in SUBSET (1..Len(F)) /\ \A n \in 1..Len(F) : n \in I <=> f[n][2] = 1
  OBVIOUS
<1> HIDE DEF I
<1>9. \A n \in I : f[n] \in Pairs(tt) /\ F[n] = tt[f[n][1]][f[n][2]]
  <2> SUFFICES ASSUME NEW n \in I PROVE f[n] \in Pairs(tt) /\ F[n] = tt[f[n][1]][f[n][2]]
    OBVIOUS
  <2>1. f[n] \in Pairs(ss) /\ F[n] = ss[f[n][1]][f[n][2]] /\ f[n][2] = 1
    BY <1>3, <1>8
  <2>2. PICK i \in 1..Len(ss) : i = f[n][1] /\ f[n] = <<i, 1>>
    BY <1>4, <2>1
  <2>3. 1 \in 1..Len(tt[i]) /\ i \in 1..Len(tt)
    BY <1>2
  <2>4. <<i, 1>> \in Pairs(tt)
    BY <1>7, <2>3
  <2> QED
    BY <1>2, <2>1, <2>2, <2>4
<1>10. \A p \in Pairs(tt) : \E n \in I : f[n] = p
  <2> SUFFICES ASSUME NEW p \in Pairs(tt) PROVE \E n \in I : f[n] = p
    OBVIOUS
  <2>1. PICK i \in 1..Len(ss) : i = p[1] /\ p[2] \in 1..Len(tt[i]) /\ p = <<i, p[2]>>
    BY <1>2, <1>6
  <2>2. p[2] = 1
    <3>1. p[2] \in 1..1
      BY <1>2, <2>1
    <3> QED
      BY <3>1
  <2>3. p = <<i, 1>> /\ <<i, 1>> \in Pairs(ss)
    BY <1>1, <1>5, <2>1, <2>2
  <2>4. PICK n \in 1..Len(F) : f[n] = p
    BY <1>3, <2>3
  <2> QED
    BY <1>8, <2>2, <2>4
<1>11. \A a, b \in I : InOrder(f[a], f[b]) <=> InOrder(f[a], f[b])
  OBVIOUS
<1>12. ListsPart(F, I, f, f, tt)
  BY <1>9, <1>10, <1>11 DEF ListsPart
<1>13. Flattened(tt) = Chosen(F, I)
  BY <1>2, <1>8, <1>12, JoinSame DEF F
<1> QED
  BY <1>13 DEF tt, F, I

(* A line of an outline.                                                   *)
Rows == [kind : STRING, indent : 0..1]

(* A symbol is listed by its own line, at the margin, and the lines of its *)
(* children, indented.                                                     *)
LEMMA OutlineRows ==
  ASSUME NEW s \in Outlined
  PROVE  /\ Outline(s, TRUE) \in Seq(Rows) /\ Outline(s, TRUE) # <<>>
         /\ Outline(s, TRUE)[1] = [kind |-> s.kind, indent |-> 0]
         /\ \A j \in 2..Len(Outline(s, TRUE)) : Outline(s, TRUE)[j].indent = 1
         /\ Outline(s, FALSE) = <<Outline(s, TRUE)[1]>>
         /\ \A j \in 1..Len(Outline(s, TRUE)) :
              Outline(s, TRUE)[j].kind \in {s.kind} \cup {s.children[c].kind : c \in 1..Len(s.children)}
<1> DEFINE head == [kind |-> s.kind, indent |-> 0]
           below == [i \in 1..Len(s.children) |-> [kind |-> s.children[i].kind, indent |-> 1]]
           kinds == {s.kind} \cup {s.children[c].kind : c \in 1..Len(s.children)}
<1>1. s.kind \in STRING /\ s.children \in Seq([kind : STRING])
  BY DEF Outlined
<1>2. Len(s.children) \in Nat /\ \A i \in 1..Len(s.children) : s.children[i].kind \in STRING
  <2> DEFINE C == [kind : STRING]
             c == s.children
  <2>1. \A x \in C : x.kind \in STRING
    OBVIOUS
  <2>2. c \in Seq(C)
    BY <1>1
  <2> HIDE DEF C, c
  <2>3. Len(c) \in Nat /\ \A i \in 1..Len(c) : c[i] \in C
    BY <2>2
  <2>4. Len(c) \in Nat /\ \A i \in 1..Len(c) : c[i].kind \in STRING
    BY <2>1, <2>3
  <2> QED
    BY <2>4 DEF c
<1>3. head \in Rows
  BY <1>1 DEF Rows
<1>4. below \in Seq(Rows) /\ Len(below) = Len(s.children) /\ \A i \in 1..Len(below) : below[i].indent = 1
  <2>1. \A i \in 1..Len(s.children) : [kind |-> s.children[i].kind, indent |-> 1] \in Rows
    BY <1>2 DEF Rows
  <2>2. \A i \in 1..Len(s.children) : below[i].indent = 1
    OBVIOUS
  <2>3. below \in Seq(Rows) /\ Len(below) = Len(s.children)
    BY <1>2, <2>1
  <2> HIDE DEF below
  <2> QED
    BY <2>2, <2>3
<1>5. \A i \in 1..Len(s.children) : below[i].kind = s.children[i].kind
  OBVIOUS
<1>6. head.kind = s.kind
  OBVIOUS
<1>7. Outline(s, FALSE) = <<head>>
  BY DEF Outline
<1>8. Outline(s, TRUE) = IF s.flat THEN <<head>> ELSE <<head>> \o below
  BY DEF Outline
<1> HIDE DEF head, below
<1>9. /\ (<<head>> \o below) \in Seq(Rows) /\ Len(<<head>> \o below) = 1 + Len(below)
      /\ (<<head>> \o below)[1] = head
      /\ \A j \in 2..(1 + Len(below)) : (<<head>> \o below)[j] = below[j - 1] /\ j - 1 \in 1..Len(below)
  BY <1>3, <1>4
<1>10. <<head>> \in Seq(Rows) /\ Len(<<head>>) = 1 /\ <<head>>[1] = head
  BY <1>3
<1>11. CASE s.flat
  <2>1. Outline(s, TRUE) = <<head>>
    BY <1>8, <1>11
  <2>2. \A j \in 2..1 : FALSE
    OBVIOUS
  <2>3. \A j \in 1..1 : j = 1
    OBVIOUS
  <2>4. head.kind \in kinds
    BY <1>6
  <2> HIDE DEF kinds
  <2>5. \A j \in 1..Len(<<head>>) : <<head>>[j].kind \in kinds
    BY <1>10, <2>3, <2>4
  <2>6. \A j \in 2..Len(<<head>>) : <<head>>[j].indent = 1
    BY <1>10, <2>2
  <2>7. <<head>> # <<>>
    BY <1>10
  <2> QED
    BY <1>7, <1>10, <2>1, <2>5, <2>6, <2>7 DEF head, kinds
<1>12. CASE ~s.flat
  <2> DEFINE o == <<head>> \o below
  <2>1. Outline(s, TRUE) = o
    BY <1>8, <1>12
  <2>2. o \in Seq(Rows) /\ Len(o) = 1 + Len(below) /\ o[1] = head
    BY <1>9
  <2>3. \A j \in 2..Len(o) : o[j].indent = 1
    BY <1>4, <1>9
  <2>4. \A j \in 1..Len(o) : o[j].kind \in kinds
    <3> SUFFICES ASSUME NEW j \in 1..Len(o) PROVE o[j].kind \in kinds
      OBVIOUS
    <3>1. CASE j = 1
      BY <1>6, <2>2, <3>1
    <3>2. CASE j # 1
      <4>1. j \in 2..(1 + Len(below))
        BY <1>2, <1>4, <2>2, <3>2
      <4>2. o[j] = below[j - 1] /\ j - 1 \in 1..Len(s.children)
        BY <1>4, <1>9, <4>1
      <4>3. o[j].kind = s.children[j - 1].kind
        BY <1>5, <4>2
      <4> QED
        BY <4>2, <4>3
    <3> QED
      BY <3>1, <3>2
  <2> HIDE DEF o, kinds
  <2>5. o # <<>>
    BY <1>2, <1>4, <2>2
  <2>6. Outline(s, FALSE) = <<o[1]>>
    BY <1>7, <2>2
  <2>7. o[1] = [kind |-> s.kind, indent |-> 0]
    BY <2>2 DEF head
  <2>8. \A j \in 1..Len(o) : o[j].kind \in {s.kind} \cup {s.children[c].kind : c \in 1..Len(s.children)}
    BY <2>4 DEF kinds
  <2> QED
    BY <2>1, <2>2, <2>3, <2>5, <2>6, <2>7, <2>8
<1> QED
  BY <1>11, <1>12

(* What the symbols of the top level show, each.                           *)
Trees(symbols) == [i \in 1..Len(symbols) |-> Outline(symbols[i], TRUE)]

(* Each begins with the only line of its own at the margin.                *)
LEMMA TreesAre ==
  ASSUME NEW symbols \in Seq(Outlined)
  PROVE  /\ Trees(symbols) \in Seq(Seq(Rows)) /\ Len(Trees(symbols)) = Len(symbols) /\ Len(symbols) \in Nat
         /\ \A i \in 1..Len(symbols) :
              LET t == Trees(symbols)[i]
              IN  /\ t # <<>> /\ t[1] = [kind |-> symbols[i].kind, indent |-> 0]
                  /\ \A j \in 2..Len(t) : t[j].indent = 1
<1>1. Len(symbols) \in Nat /\ \A i \in 1..Len(symbols) : symbols[i] \in Outlined
  OBVIOUS
<1>2. \A i \in 1..Len(symbols) : Outline(symbols[i], TRUE) \in Seq(Rows)
  BY <1>1, OutlineRows
<1>3. Trees(symbols) \in Seq(Seq(Rows)) /\ Len(Trees(symbols)) = Len(symbols)
  <2> DEFINE T == Seq(Rows)
             o(i) == Outline(symbols[i], TRUE)
             m == Len(symbols)
             t == [i \in 1..m |-> o(i)]
  <2>1. m \in Nat /\ \A i \in 1..m : o(i) \in T
    BY <1>1, <1>2
  <2> HIDE DEF T, o, m
  <2>2. t \in Seq(T) /\ Len(t) = m
    BY <2>1
  <2> QED
    BY <2>2 DEF T, o, m, Trees
<1>4. \A i \in 1..Len(symbols) : Trees(symbols)[i] = Outline(symbols[i], TRUE)
  BY DEF Trees
<1>5. ASSUME NEW i \in 1..Len(symbols)
      PROVE  LET t == Trees(symbols)[i]
             IN  /\ t # <<>> /\ t[1] = [kind |-> symbols[i].kind, indent |-> 0]
                 /\ \A j \in 2..Len(t) : t[j].indent = 1
  <2> DEFINE o == Outline(symbols[i], TRUE)
             s == symbols[i]
  <2>1. s \in Outlined
    BY <1>1
  <2>2. Trees(symbols)[i] = o /\ o = Outline(s, TRUE)
    BY <1>4
  <2>3. /\ Outline(s, TRUE) # <<>> /\ Outline(s, TRUE)[1] = [kind |-> s.kind, indent |-> 0]
        /\ \A j \in 2..Len(Outline(s, TRUE)) : Outline(s, TRUE)[j].indent = 1
    <3> HIDE DEF s
    <3> QED
      BY <2>1, OutlineRows
  <2> QED
    BY <2>2, <2>3
<1> QED
  BY <1>1, <1>3, <1>5

(* So the line at the margin that a line is below is that of its symbol of *)
(* the top level.                                                          *)
LEMMA TopIs ==
  ASSUME NEW symbols \in Seq(Outlined), NEW f, Lists(Flattened(Trees(symbols)), f, Trees(symbols)),
         NEW n \in 1..Len(Flattened(Trees(symbols)))
  PROVE  LET F == Flattened(Trees(symbols))
         IN  /\ F[TopOf(F, n)] = [kind |-> symbols[f[n][1]].kind, indent |-> 0]
             /\ F[n].indent = 0 <=> f[n][2] = 1
             /\ f[n][1] \in 1..Len(symbols)
<1> DEFINE ss == Trees(symbols)
           F == Flattened(ss)
<1>1. /\ ss \in Seq(Seq(Rows)) /\ Len(ss) = Len(symbols) /\ Len(symbols) \in Nat
      /\ \A i \in 1..Len(ss) : /\ ss[i] # <<>> /\ ss[i][1] = [kind |-> symbols[i].kind, indent |-> 0]
                               /\ \A j \in 2..Len(ss[i]) : ss[i][j].indent = 1
  BY TreesAre
<1> HIDE DEF ss
<1>2. /\ \A p \in Pairs(ss) : p[1] \in 1..Len(ss) /\ p[2] \in 1..Len(ss[p[1]]) /\ p = <<p[1], p[2]>>
      /\ \A i \in 1..Len(ss) : \A j \in 1..Len(ss[i]) : <<i, j>> \in Pairs(ss)
  BY <1>1, PairsAre
<1>3. /\ \A m \in 1..Len(F) : f[m] \in Pairs(ss) /\ F[m] = ss[f[m][1]][f[m][2]]
      /\ \A p \in Pairs(ss) : \E m \in 1..Len(F) : f[m] = p
      /\ \A a, b \in 1..Len(F) : InOrder(f[a], f[b]) <=> a <= b
  BY DEF Lists, ss
<1>4. F \in Seq(Rows) /\ Len(F) \in Nat /\ n \in 1..Len(F)
  BY <1>1, FlattenedHas DEF ss
<1> HIDE DEF F
<1>5. \A i \in 1..Len(ss) : Len(ss[i]) \in Nat /\ 1 \in 1..Len(ss[i])
  <2> SUFFICES ASSUME NEW i \in 1..Len(ss) PROVE Len(ss[i]) \in Nat /\ 1 \in 1..Len(ss[i])
    OBVIOUS
  <2> DEFINE T == Seq(Rows)
  <2>1. ss \in Seq(T) /\ ss[i] # <<>>
    BY <1>1
  <2> HIDE DEF T
  <2>2. ss[i] \in T
    BY <2>1
  <2>3. ss[i] \in Seq(Rows) /\ ss[i] # <<>>
    BY <2>1, <2>2 DEF T
  <2> QED
    BY <2>3
<1>6. \A m \in 1..Len(F) : /\ f[m][1] \in 1..Len(ss) /\ f[m][2] \in 1..Len(ss[f[m][1]])
                           /\ f[m][1] \in Int /\ f[m][2] \in Nat
  <2> SUFFICES ASSUME NEW m \in 1..Len(F)
               PROVE  /\ f[m][1] \in 1..Len(ss) /\ f[m][2] \in 1..Len(ss[f[m][1]])
                      /\ f[m][1] \in Int /\ f[m][2] \in Nat
    OBVIOUS
  <2>1. f[m][1] \in 1..Len(ss) /\ f[m][2] \in 1..Len(ss[f[m][1]])
    BY <1>2, <1>3
  <2>2. f[m][1] \in Int
    BY <1>1, <2>1
  <2>3. f[m][2] \in Nat
    BY <1>5, <2>1
  <2> QED
    BY <2>1, <2>2, <2>3
<1>7. \A m \in 1..Len(F) : F[m].indent = 0 <=> f[m][2] = 1
  <2> SUFFICES ASSUME NEW m \in 1..Len(F) PROVE F[m].indent = 0 <=> f[m][2] = 1
    OBVIOUS
  <2>1. PICK i \in 1..Len(ss) : i = f[m][1]
    BY <1>6
  <2>2. PICK j \in 1..Len(ss[i]) : j = f[m][2] /\ F[m] = ss[i][j]
    BY <1>3, <1>6, <2>1
  <2>3. CASE j = 1
    <3>1. F[m] = [kind |-> symbols[i].kind, indent |-> 0]
      BY <1>1, <2>2, <2>3
    <3>2. F[m].indent = 0
      BY <3>1
    <3> QED
      BY <2>2, <2>3, <3>2
  <2>4. CASE j # 1
    <3>1. j \in 2..Len(ss[i])
      BY <1>5, <2>4
    <3>2. F[m].indent = 1
      BY <1>1, <2>2, <3>1
    <3> QED
      BY <2>2, <2>4, <3>2
  <2> QED
    BY <2>3, <2>4
<1>8. PICK i \in 1..Len(ss) : i = f[n][1]
  BY <1>4, <1>6
<1>9. PICK t \in 1..Len(F) : f[t] = <<i, 1>>
  BY <1>2, <1>3, <1>5
<1>10. f[t][1] = i /\ f[t][2] = 1
  BY <1>9
<1>11. t \in 1..n /\ t \in Int /\ n \in Int /\ n <= Len(F)
  <2>1. f[n][2] \in Nat /\ 1 <= f[n][2]
    BY <1>4, <1>5, <1>6
  <2>2. InOrder(f[t], f[n])
    BY <1>8, <1>10, <2>1 DEF InOrder
  <2>3. t <= n
    BY <1>3, <1>4, <2>2
  <2> QED
    BY <1>4, <2>3
<1>12. F[t].indent = 0 /\ F[t] = [kind |-> symbols[i].kind, indent |-> 0]
  <2>1. F[t] = ss[i][1]
    BY <1>3, <1>10
  <2> QED
    BY <1>1, <2>1
<1>13. \A m \in (t + 1)..n : F[m].indent # 0
  <2> SUFFICES ASSUME NEW m \in (t + 1)..n PROVE f[m][2] # 1 /\ m \in 1..Len(F)
    BY <1>7
  <2>1. m \in 1..Len(F) /\ m \in Int /\ t < m /\ m <= n
    BY <1>4, <1>11
  <2>2. InOrder(f[t], f[m]) /\ InOrder(f[m], f[n]) /\ ~InOrder(f[m], f[t])
    BY <1>3, <1>4, <2>1, <1>11
  <2>3. /\ i < f[m][1] \/ (i = f[m][1] /\ 1 <= f[m][2])
        /\ f[m][1] < i \/ (f[m][1] = i /\ f[m][2] <= f[n][2])
        /\ ~(f[m][1] < i \/ (f[m][1] = i /\ f[m][2] <= 1))
    BY <1>8, <1>10, <2>2 DEF InOrder
  <2>4. f[m][1] \in Int /\ i \in Int /\ f[m][2] \in Nat
    BY <1>1, <1>6, <2>1
  <2> QED
    BY <2>1, <2>3, <2>4
<1>14. ASSUME NEW u \in 1..n, F[u].indent = 0, \A m \in (u + 1)..n : F[m].indent # 0
       PROVE  u = t
  <2>1. u \in Int /\ t \in Int
    BY <1>4, <1>11
  <2>2. CASE u < t
    <3>1. t \in (u + 1)..n
      BY <1>11, <2>1, <2>2
    <3> QED
      BY <1>12, <1>14, <3>1
  <2>3. CASE t < u
    <3>1. u \in (t + 1)..n
      BY <1>11, <2>1, <2>3
    <3> QED
      BY <1>13, <1>14, <3>1
  <2> QED
    BY <2>1, <2>2, <2>3
<1>15. TopOf(F, n) = t
  BY <1>11, <1>12, <1>13, <1>14 DEF TopOf
<1>16. /\ F[TopOf(F, n)] = [kind |-> symbols[f[n][1]].kind, indent |-> 0]
       /\ F[n].indent = 0 <=> f[n][2] = 1
       /\ f[n][1] \in 1..Len(symbols)
  BY <1>1, <1>4, <1>7, <1>8, <1>12, <1>15
<1> QED
  BY <1>16 DEF F, ss

(* What CollectSymbolTargets collects is the outline, its lines at the     *)
(* margin, or those below the symbols of one kind.                         *)
LEMMA TargetsAre ==
  ASSUME NEW symbols \in Seq(Outlined), NEW k
  PROVE  LET F == Flattened(Trees(symbols))
         IN  /\ F \in Seq(Rows)
             /\ FlatMap(symbols, LAMBDA s : Outline(s, TRUE)) = F
             /\ CollectSymbolTargets(symbols, {}, TRUE) = F
             /\ CollectSymbolTargets(symbols, {}, FALSE) = Tops(F)
             /\ CollectSymbolTargets(symbols, {k}, TRUE)
                  = Chosen(F, {n \in 1..Len(F) : F[TopOf(F, n)].kind = k})
<1> DEFINE ss == Trees(symbols)
           F == Flattened(ss)
           m == Len(symbols)
           K == {i \in 1..m : symbols[i].kind = k}
           T == Seq(Rows)
           some == Chosen(symbols, K)
<1>1. /\ ss \in Seq(T) /\ Len(ss) = m /\ m \in Nat
      /\ \A i \in 1..m : ss[i] # <<>> /\ ss[i][1] = [kind |-> symbols[i].kind, indent |-> 0]
  BY TreesAre
<1>2. F \in Seq(Rows) /\ Len(F) \in Nat /\ \E f : Lists(F, f, ss)
  <2> HIDE DEF ss, T
  <2> QED
    BY <1>1, FlattenedHas DEF T
<1>3. PICK f : Lists(F, f, ss)
  BY <1>2
<1>4. \A n \in 1..Len(F) : /\ F[TopOf(F, n)] = [kind |-> symbols[f[n][1]].kind, indent |-> 0]
                           /\ F[n].indent = 0 <=> f[n][2] = 1
                           /\ f[n][1] \in 1..m
  BY <1>3, TopIs
<1>5. \A i \in 1..m : symbols[i] \in Outlined /\ ss[i] = Outline(symbols[i], TRUE)
  BY DEF Trees
<1>6. \A i \in 1..m : Outline(symbols[i], FALSE) = <<ss[i][1]>>
  BY <1>5, OutlineRows
<1>7. FlatMap(symbols, LAMBDA s : Outline(s, TRUE)) = F
  BY DEF FlatMap, Trees
<1>8. Chosen(symbols, 1..m) = symbols
  BY ChosenAll
<1>9. Filtered(symbols, LAMBDA s : {} = {} \/ s.kind \in {}) = symbols
  <2>1. {i \in 1..m : {} = {} \/ symbols[i].kind \in {}} = 1..m
    OBVIOUS
  <2>2. Filtered(symbols, LAMBDA s : {} = {} \/ s.kind \in {})
          = Chosen(symbols, {i \in 1..m : {} = {} \/ symbols[i].kind \in {}})
    BY DEF Filtered
  <2> QED
    BY <1>8, <2>1, <2>2
<1>10. CollectSymbolTargets(symbols, {}, TRUE) = F
  <2> DEFINE a == Filtered(symbols, LAMBDA s : {} = {} \/ s.kind \in {})
             all(x) == FlatMap(x, LAMBDA s : Outline(s, TRUE))
  <2>1. CollectSymbolTargets(symbols, {}, TRUE) = all(a)
    BY DEF CollectSymbolTargets
  <2>2. a = symbols
    BY <1>9
  <2>3. all(symbols) = F
    BY <1>7
  <2> HIDE DEF a, all, F
  <2> QED
    BY <2>1, <2>2, <2>3
<1>11. CollectSymbolTargets(symbols, {}, FALSE) = Flattened([i \in 1..m |-> <<ss[i][1]>>])
  <2> DEFINE a == Filtered(symbols, LAMBDA s : {} = {} \/ s.kind \in {})
             all(x) == FlatMap(x, LAMBDA s : Outline(s, FALSE))
             h == [i \in 1..m |-> Outline(symbols[i], FALSE)]
  <2>1. CollectSymbolTargets(symbols, {}, FALSE) = all(a)
    BY DEF CollectSymbolTargets
  <2>2. a = symbols
    BY <1>9
  <2>3. all(symbols) = Flattened(h)
    BY DEF FlatMap
  <2>4. h = [i \in 1..m |-> <<ss[i][1]>>]
    <3> HIDE DEF ss, m
    <3> QED
      BY <1>6
  <2> HIDE DEF a, all, h, ss, m
  <2> QED
    BY <2>1, <2>2, <2>3, <2>4
<1>12. Tops(F) = Chosen(F, {n \in 1..Len(F) : f[n][2] = 1})
  <2>1. Tops(F) = Chosen(F, {n \in 1..Len(F) : F[n].indent = 0})
    BY DEF Tops, Filtered
  <2>2. {n \in 1..Len(F) : F[n].indent = 0} = {n \in 1..Len(F) : f[n][2] = 1}
    <3> HIDE DEF F
    <3> QED
      BY <1>4
  <2> QED
    BY <2>1, <2>2
<1>13. Flattened([i \in 1..Len(ss) |-> <<ss[i][1]>>]) = Chosen(F, {n \in 1..Len(F) : f[n][2] = 1})
  <2>1. \A i \in 1..Len(ss) : ss[i] # <<>>
    BY <1>1
  <2> HIDE DEF ss
  <2> QED
    BY <1>1, <1>3, <2>1, JoinHeads
<1>14. CollectSymbolTargets(symbols, {}, FALSE) = Tops(F)
  <2>1. Len(ss) = m
    BY <1>1
  <2> HIDE DEF F, ss, m
  <2> QED
    BY <1>11, <1>12, <1>13, <2>1
<1>15. /\ some \in Seq(Outlined) /\ Len(some) = Cardinality(K) /\ \A n \in 1..Cardinality(K) : some[n] = symbols[Nth(K, n)]
       /\ K \in SUBSET (1..m) /\ \A n \in 1..Cardinality(K) : Nth(K, n) \in K
  <2>1. K \in SUBSET (1..m)
    OBVIOUS
  <2>2. m \in Nat
    BY <1>1
  <2> HIDE DEF K
  <2>3. /\ Chosen(symbols, K) \in Seq(Outlined) /\ Len(Chosen(symbols, K)) = Cardinality(K)
        /\ \A n \in 1..Cardinality(K) : Chosen(symbols, K)[n] = symbols[Nth(K, n)]
    BY <2>1, ChosenRight
  <2> HIDE DEF m
  <2>4. \A n \in 1..Cardinality(K) : Nth(K, n) \in K
    BY <2>1, <2>2, NthRight
  <2> QED
    BY <2>1, <2>3, <2>4
<1>16. Chosen(ss, K) = [n \in 1..Cardinality(K) |-> Outline(some[n], TRUE)]
  <2>1. \A n \in 1..Cardinality(K) : ss[Nth(K, n)] = Outline(some[n], TRUE)
    <3> SUFFICES ASSUME NEW n \in 1..Cardinality(K) PROVE ss[Nth(K, n)] = Outline(some[n], TRUE)
      OBVIOUS
    <3>1. PICK i \in 1..m : i = Nth(K, n)
      BY <1>15
    <3>2. some[n] = symbols[i] /\ ss[i] = Outline(symbols[i], TRUE)
      BY <1>5, <1>15, <3>1
    <3> QED
      BY <3>1, <3>2
  <2>2. Chosen(ss, K) = [n \in 1..Cardinality(K) |-> ss[Nth(K, n)]]
    BY DEF Chosen
  <2> HIDE DEF ss, K, some
  <2> QED
    BY <2>1, <2>2
<1>17. CollectSymbolTargets(symbols, {k}, TRUE) = Flattened(Chosen(ss, K))
  <2> DEFINE a == Filtered(symbols, LAMBDA s : {k} = {} \/ s.kind \in {k})
             all(x) == FlatMap(x, LAMBDA s : Outline(s, TRUE))
             h == [i \in 1..Len(some) |-> Outline(some[i], TRUE)]
  <2>1. CollectSymbolTargets(symbols, {k}, TRUE) = all(a)
    BY DEF CollectSymbolTargets
  <2>2. a = some
    <3>1. a = Chosen(symbols, {i \in 1..m : {k} = {} \/ symbols[i].kind \in {k}})
      BY DEF Filtered
    <3>2. {i \in 1..m : {k} = {} \/ symbols[i].kind \in {k}} = K
      OBVIOUS
    <3> QED
      BY <3>1, <3>2
  <2>3. all(some) = Flattened(h)
    BY DEF FlatMap
  <2>4. h = Chosen(ss, K)
    BY <1>15, <1>16
  <2> HIDE DEF a, all, h, ss, some, K
  <2> QED
    BY <2>1, <2>2, <2>3, <2>4
<1>18. Flattened(Chosen(ss, K)) = Chosen(F, {n \in 1..Len(F) : f[n][1] \in K})
  <2>1. K \in SUBSET (1..Len(ss))
    BY <1>1
  <2> HIDE DEF K, ss
  <2> QED
    BY <1>1, <1>3, <2>1, JoinChosen
<1>19. {n \in 1..Len(F) : f[n][1] \in K} = {n \in 1..Len(F) : F[TopOf(F, n)].kind = k}
  <2>1. \A n \in 1..Len(F) : F[TopOf(F, n)].kind = symbols[f[n][1]].kind
    <3> SUFFICES ASSUME NEW n \in 1..Len(F) PROVE F[TopOf(F, n)].kind = symbols[f[n][1]].kind
      OBVIOUS
    <3>1. F[TopOf(F, n)] = [kind |-> symbols[f[n][1]].kind, indent |-> 0]
      BY <1>4
    <3> HIDE DEF F
    <3> QED
      BY <3>1
  <2>2. \A n \in 1..Len(F) : f[n][1] \in K <=> symbols[f[n][1]].kind = k
    BY <1>4
  <2> HIDE DEF F, K
  <2> QED
    BY <2>1, <2>2
<1>20. CollectSymbolTargets(symbols, {k}, TRUE) = Chosen(F, {n \in 1..Len(F) : F[TopOf(F, n)].kind = k})
  BY <1>17, <1>18, <1>19
<1> HIDE DEF F
<1>21. /\ F \in Seq(Rows)
       /\ FlatMap(symbols, LAMBDA s : Outline(s, TRUE)) = F
       /\ CollectSymbolTargets(symbols, {}, TRUE) = F
       /\ CollectSymbolTargets(symbols, {}, FALSE) = Tops(F)
       /\ CollectSymbolTargets(symbols, {k}, TRUE) = Chosen(F, {n \in 1..Len(F) : F[TopOf(F, n)].kind = k})
  BY <1>2, <1>7, <1>10, <1>14, <1>20
<1> QED
  BY <1>21 DEF F, ss

(* An overview shows what has been collected, if the server has answered.  *)
LEMMA OverviewShows ==
  ASSUME NEW synced, NEW answer, NEW kinds, NEW deep, NEW hoverOf, NEW T, synced,
         CollectSymbolTargets(answer.symbols, kinds, deep) \in Seq(T)
  PROVE  ItemsOf(SectionsOf(GetAPIOverview(synced, answer, kinds, deep, hoverOf))) =
           IF answer.ok THEN CollectSymbolTargets(answer.symbols, kinds, deep) ELSE <<>>
<1> DEFINE targets == CollectSymbolTargets(answer.symbols, kinds, deep)
           hovers == BatchHoverInfo([i \in 1..Len(targets) |-> hoverOf[targets[i].kind]])
           rows == [i \in 1..Len(targets) |-> <<targets[i], hovers[i]>>]
           shown == GetAPIOverview(synced, answer, kinds, deep, hoverOf)
<1>1. shown = IF ~answer.ok THEN ErrorText ELSE SectionsOrNone(rows)
  BY DEF GetAPIOverview
<1>2. targets \in Seq(T)
  OBVIOUS
<1>3. Len(targets) \in Nat /\ targets = [i \in 1..Len(targets) |-> targets[i]]
  <2> HIDE DEF targets
  <2> QED
    BY <1>2
<1>4. /\ rows \in Seq(T \X {hovers[i] : i \in 1..Len(targets)})
      /\ Len(rows) = Len(targets) /\ \A i \in 1..Len(targets) : rows[i][1] = targets[i]
  <2> DEFINE H == {hovers[i] : i \in 1..Len(targets)}
  <2>1. \A i \in 1..Len(targets) : targets[i] \in T /\ hovers[i] \in H
    <3> HIDE DEF targets, hovers
    <3> QED
      BY <1>2
  <2> HIDE DEF targets, hovers, H
  <2>2. rows \in Seq(T \X H) /\ Len(rows) = Len(targets)
    BY <1>3, <2>1
  <2>3. \A i \in 1..Len(targets) : rows[i][1] = targets[i]
    OBVIOUS
  <2> QED
    BY <2>2, <2>3 DEF H
<1> HIDE DEF targets, rows, shown, hovers
<1>5. ErrorText.kind = "error" /\ NoneText.kind = "none" /\ Sections(rows).kind = "sections" /\ Sections(rows).sections = rows
  BY DEF ErrorText, NoneText, Sections
<1>6. SectionsOf(ErrorText) = <<>> /\ SectionsOf(NoneText) = <<>> /\ SectionsOf(Sections(rows)) = rows
  BY <1>5 DEF SectionsOf
<1>7. SectionsOf(SectionsOrNone(rows)) = rows
  BY <1>6 DEF SectionsOrNone
<1>8. ItemsOf(rows) = targets /\ ItemsOf(<<>>) = <<>>
  <2>1. ItemsOf(rows) = [i \in 1..Len(rows) |-> rows[i][1]]
    BY DEF ItemsOf
  <2>2. ItemsOf(<<>>) = <<>>
    BY DEF ItemsOf
  <2> QED
    BY <1>3, <1>4, <2>1, <2>2
<1>9. CASE answer.ok
  BY <1>1, <1>7, <1>8, <1>9 DEF targets, shown
<1>10. CASE ~answer.ok
  BY <1>1, <1>6, <1>8, <1>10 DEF targets, shown
<1> QED
  BY <1>9, <1>10

(* OutlinesAgree holds of every question about an outline.                 *)
LEMMA OutlinesAgreeThere ==
  ASSUME OutlineAsked
  PROVE  OutlinesAgree
<1> DEFINE f == question.file
           world == [file |-> question.file]
           symbols == f.symbols.symbols
           F == Flattened(Trees(symbols))
           none == With(<<>>, "filePath", 1)
           heads == With([includeChildren |-> FALSE], "filePath", 1)
           of(k) == With([symbolKinds |-> {k}], "filePath", 1)
           whole == SectionsOf(document_symbols([filePath |-> 1], world))
           targets(args) == ItemsOf(SectionsOf(api_overview(args, world)))
           under == [k \in DOMAIN f.hovers |-> targets(of(k))]
<1>1. f.routed /\ f.opens /\ f.synced /\ symbols \in Seq(Outlined)
  BY DEF OutlineAsked
<1>2. world.file = f
  OBVIOUS
<1>3. /\ "filePath" \in DOMAIN none /\ "symbolKinds" \notin DOMAIN none /\ "includeChildren" \notin DOMAIN none
      /\ "filePath" \in DOMAIN heads /\ "symbolKinds" \notin DOMAIN heads /\ "includeChildren" \in DOMAIN heads
      /\ heads["includeChildren"] = FALSE
  BY DEF With
<1>4. \A k : /\ "filePath" \in DOMAIN of(k) /\ "symbolKinds" \in DOMAIN of(k) /\ "includeChildren" \notin DOMAIN of(k)
             /\ of(k)["symbolKinds"] = {k}
  BY DEF With
<1>5. ASSUME NEW args, "filePath" \in DOMAIN args
      PROVE  api_overview(args, world)
               = GetAPIOverview(f.synced, f.symbols, Arg(args, "symbolKinds", {}), Arg(args, "includeChildren", TRUE), f.hovers)
  BY <1>1, <1>5 DEF api_overview, OnFile, Given
<1>6. document_symbols([filePath |-> 1], world) = GetDocumentSymbols(f.opens, f.symbols)
  <2>1. "filePath" \in DOMAIN [filePath |-> 1]
    OBVIOUS
  <2> QED
    BY <1>1, <2>1 DEF document_symbols, OnFile, Given
<1>7. /\ Arg(none, "symbolKinds", {}) = {} /\ Arg(none, "includeChildren", TRUE) = TRUE
      /\ Arg(heads, "symbolKinds", {}) = {} /\ Arg(heads, "includeChildren", TRUE) = FALSE
  <2> HIDE DEF none, heads
  <2> QED
    BY <1>3 DEF Arg, Given
<1>8. \A k : Arg(of(k), "symbolKinds", {}) = {k} /\ Arg(of(k), "includeChildren", TRUE) = TRUE
  <2> HIDE DEF of
  <2> QED
    BY <1>4 DEF Arg, Given
<1>9. \A k : /\ F \in Seq(Rows)
             /\ FlatMap(symbols, LAMBDA s : Outline(s, TRUE)) = F
             /\ CollectSymbolTargets(symbols, {}, TRUE) = F
             /\ CollectSymbolTargets(symbols, {}, FALSE) = Tops(F)
             /\ CollectSymbolTargets(symbols, {k}, TRUE) = Chosen(F, {n \in 1..Len(F) : F[TopOf(F, n)].kind = k})
  BY <1>1, TargetsAre
<1> DEFINE Under(G, k) == Chosen(G, {n \in 1..Len(G) : G[TopOf(G, n)].kind = k})
<1>10. /\ F \in Seq(Rows) /\ Tops(F) \in Seq(Rows) /\ \A k : Under(F, k) \in Seq(Rows)
       /\ F \in Seq(Rows)
  <2>1. F \in Seq(Rows)
    BY <1>9
  <2> HIDE DEF F
  <2>2. \A I \in SUBSET (1..Len(F)) : Chosen(F, I) \in Seq(Rows)
    BY <2>1, ChosenRight
  <2>3. Tops(F) = Chosen(F, {n \in 1..Len(F) : F[n].indent = 0})
    BY DEF Tops, Filtered
  <2> QED
    BY <2>1, <2>2, <2>3
<1> DEFINE G == IF f.symbols.ok THEN F ELSE <<>>
<1>11. targets(none) = G
  <2>1. api_overview(none, world) = GetAPIOverview(f.synced, f.symbols, {}, TRUE, f.hovers)
    <3>1. api_overview(none, world)
            = GetAPIOverview(f.synced, f.symbols, Arg(none, "symbolKinds", {}), Arg(none, "includeChildren", TRUE), f.hovers)
      BY <1>3, <1>5
    <3> HIDE DEF none, world, f
    <3> QED
      BY <1>7, <3>1
  <2>2. CollectSymbolTargets(symbols, {}, TRUE) \in Seq(Rows)
    BY <1>9, <1>10
  <2>3. ItemsOf(SectionsOf(GetAPIOverview(f.synced, f.symbols, {}, TRUE, f.hovers)))
          = IF f.symbols.ok THEN CollectSymbolTargets(symbols, {}, TRUE) ELSE <<>>
    BY <1>1, <2>2, OverviewShows
  <2> HIDE DEF none, world, f, F
  <2> QED
    BY <1>9, <2>1, <2>3
<1>12. targets(heads) = IF f.symbols.ok THEN Tops(F) ELSE <<>>
  <2>1. api_overview(heads, world) = GetAPIOverview(f.synced, f.symbols, {}, FALSE, f.hovers)
    <3>1. api_overview(heads, world)
            = GetAPIOverview(f.synced, f.symbols, Arg(heads, "symbolKinds", {}), Arg(heads, "includeChildren", TRUE), f.hovers)
      BY <1>3, <1>5
    <3> HIDE DEF heads, world, f
    <3> QED
      BY <1>7, <3>1
  <2>2. CollectSymbolTargets(symbols, {}, FALSE) \in Seq(Rows)
    BY <1>9, <1>10
  <2>3. ItemsOf(SectionsOf(GetAPIOverview(f.synced, f.symbols, {}, FALSE, f.hovers)))
          = IF f.symbols.ok THEN CollectSymbolTargets(symbols, {}, FALSE) ELSE <<>>
    BY <1>1, <2>2, OverviewShows
  <2> HIDE DEF heads, world, f, F
  <2> QED
    BY <1>9, <2>1, <2>3
<1>13. ASSUME NEW k
       PROVE  targets(of(k)) = IF f.symbols.ok THEN Under(F, k) ELSE <<>>
  <2>1. api_overview(of(k), world) = GetAPIOverview(f.synced, f.symbols, {k}, TRUE, f.hovers)
    <3>1. api_overview(of(k), world)
            = GetAPIOverview(f.synced, f.symbols, Arg(of(k), "symbolKinds", {}), Arg(of(k), "includeChildren", TRUE), f.hovers)
      BY <1>4, <1>5
    <3> HIDE DEF of, world, f
    <3> QED
      BY <1>8, <3>1
  <2>2. CollectSymbolTargets(symbols, {k}, TRUE) \in Seq(Rows)
    BY <1>9, <1>10
  <2>3. ItemsOf(SectionsOf(GetAPIOverview(f.synced, f.symbols, {k}, TRUE, f.hovers)))
          = IF f.symbols.ok THEN CollectSymbolTargets(symbols, {k}, TRUE) ELSE <<>>
    BY <1>1, <2>2, OverviewShows
  <2> HIDE DEF of, world, f, F
  <2> QED
    BY <1>9, <2>1, <2>3
<1>14. whole = G
  <2>1. /\ SectionsOf(ErrorText) = <<>> /\ SectionsOf(NoneText) = <<>>
        /\ \A r : SectionsOf(Sections(r)) = r
    BY DEF SectionsOf, ErrorText, NoneText, Sections
  <2> DEFINE m == FlatMap(symbols, LAMBDA s : Outline(s, TRUE))
  <2>2. GetDocumentSymbols(f.opens, f.symbols) = IF ~f.symbols.ok THEN ErrorText ELSE SectionsOrNone(m)
    BY <1>1 DEF GetDocumentSymbols
  <2>3. m = F
    BY <1>9
  <2> HIDE DEF F, f, m
  <2>4. SectionsOf(SectionsOrNone(F)) = F
    BY <2>1 DEF SectionsOrNone
  <2> QED
    BY <1>6, <2>1, <2>2, <2>3, <2>4
<1>15. Tops(<<>>) = <<>> /\ \A k : Under(<<>>, k) = <<>>
  <2>1. \A I \in SUBSET (1..0) : Chosen(<<>>, I) = <<>>
    <3>1. \A I \in SUBSET (1..0) : I = {}
      OBVIOUS
    <3>2. <<>> \in Seq({}) /\ {} \in SUBSET (1..Len(<<>>))
      OBVIOUS
    <3>3. (Chosen(<<>>, {}) = <<>>) = ({} = {})
      BY <3>2, ChosenRight
    <3> QED
      BY <3>1, <3>3
  <2>2. Tops(<<>>) = Chosen(<<>>, {n \in 1..Len(<<>>) : <<>>[n].indent = 0})
    BY DEF Tops, Filtered
  <2>3. Len(<<>>) = 0
    OBVIOUS
  <2> QED
    BY <2>1, <2>2, <2>3
<1>16. targets(none) = whole /\ whole = G
  BY <1>11, <1>14
<1>17. targets(heads) = Tops(G)
  <2> HIDE DEF F, targets, Under
  <2> QED
    BY <1>12, <1>15
<1>18. \A k \in DOMAIN under : under[k] = Under(G, k)
  <2>1. \A k \in DOMAIN under : under[k] = targets(of(k))
    OBVIOUS
  <2>2. \A k : targets(of(k)) = Under(G, k)
    <3> HIDE DEF F, targets, Under, of
    <3> QED
      BY <1>13, <1>15
  <2> HIDE DEF under, targets, of, G
  <2> QED
    BY <2>1, <2>2
<1>19. PartsAgree(G, G, Tops(G), under)
  <2> HIDE DEF G, under
  <2> QED
    BY <1>18 DEF PartsAgree
<1>20. PartsAgree(whole, targets(none), targets(heads), under)
  <2> HIDE DEF G, under, whole, targets, none, heads
  <2> QED
    BY <1>16, <1>17, <1>19
<1> QED
  BY <1>20 DEF OutlinesAgree

(* What a filter leaves are diagnostics,                                   *)
LEMMA KeptTyped ==
  ASSUME NEW ds \in Seq(Reported), NEW filter
  PROVE  FilterDiagnostics(ds, filter) \in Seq(Reported)
<1> DEFINE I == {i \in 1..Len(ds) : /\ filter.min > 0 => ds[i].sev <= filter.min
                                    /\ ds[i].code # NoCode => ds[i].code \notin filter.exclude}
           D == Reported
<1>1. FilterDiagnostics(ds, filter) = Chosen(ds, I)
  BY DEF FilterDiagnostics, Filtered
<1>2. I \in SUBSET (1..Len(ds))
  OBVIOUS
<1>3. ds \in Seq(D)
  OBVIOUS
<1> HIDE DEF I, D
<1>4. Chosen(ds, I) \in Seq(D)
  BY <1>2, <1>3, ChosenRight
<1> QED
  BY <1>1, <1>4 DEF D

(* and so is what has changed.                                             *)
LEMMA ChangesTyped ==
  ASSUME NEW f \in ReportedOf, NEW filter
  PROVE  /\ Changes(f, filter).new \in Seq(Reported) /\ Changes(f, filter).resolved \in Seq(Reported)
         /\ f.now \in Seq(Reported)
         /\ Changes(f, filter) = [new |-> Changes(f, filter).new, resolved |-> Changes(f, filter).resolved]
<1> DEFINE D == Reported
<1>1. f.now \in Seq(D) /\ f.before \in Seq(D)
  BY DEF ReportedOf
<1> HIDE DEF D
<1>2. ASSUME NEW a \in Seq(D), NEW b \in Seq(D)
      PROVE  Unmatched(a, b) \in Seq(D)
  <2> DEFINE I == {i \in 1..Len(a) : Times(SubSeq(a, 1, i), Key(a[i])) > Times(b, Key(a[i]))}
  <2>1. I \in SUBSET (1..Len(a)) /\ Unmatched(a, b) = Chosen(a, I)
    BY DEF Unmatched
  <2> HIDE DEF I
  <2>2. Chosen(a, I) \in Seq(D)
    BY <1>2, <2>1, ChosenRight
  <2> QED
    BY <2>1, <2>2
<1>3. Changes(f, filter) = [new |-> FilterDiagnostics(Unmatched(f.now, f.before), filter),
                            resolved |-> FilterDiagnostics(Unmatched(f.before, f.now), filter)]
  BY DEF Changes, ComputeDiagnosticDiff
<1>4. /\ FilterDiagnostics(Unmatched(f.now, f.before), filter) \in Seq(Reported)
      /\ FilterDiagnostics(Unmatched(f.before, f.now), filter) \in Seq(Reported)
  BY <1>1, <1>2, KeptTyped DEF D
<1> QED
  BY <1>1, <1>3, <1>4 DEF D

(* A limit cuts only what is longer.                                       *)
LEMMA LimitedIs ==
  ASSUME NEW D, NEW ds \in Seq(D), NEW limit \in Int
  PROVE  /\ Limited(ds, limit) \in Seq(D)
         /\ ~(limit > 0 /\ Len(ds) > limit) => Limited(ds, limit) = ds
  BY DEF Limited

(* As JSON, each diagnostic is there.                                      *)
LEMMA BareConverted ==
  ASSUME NEW D, NEW ds \in Seq(D), NEW fixable
  PROVE  Bare(Converted(ds, fixable)) = ds /\ (ds = <<>> => Converted(ds, fixable) = <<>>)
<1> DEFINE c == [i \in 1..Len(ds) |-> ConvertDiagnostic(ds[i], fixable)]
           E == {ConvertDiagnostic(ds[i], fixable) : i \in 1..Len(ds)}
<1>1. Len(ds) \in Nat /\ ds = [i \in 1..Len(ds) |-> ds[i]]
  OBVIOUS
<1>2. \A i \in 1..Len(ds) : ConvertDiagnostic(ds[i], fixable) \in E
  OBVIOUS
<1>3. c \in Seq(E) /\ Len(c) = Len(ds)
  <2> HIDE DEF E
  <2> QED
    BY <1>1, <1>2
<1>4. \A i \in 1..Len(ds) : c[i].diag = ds[i]
  BY DEF ConvertDiagnostic
<1> HIDE DEF c, E
<1>5. Bare(c) = [i \in 1..Len(ds) |-> ds[i]]
  BY <1>3, <1>4 DEF Bare
<1>6. ds = <<>> => c = <<>>
  BY <1>3
<1>7. Converted(ds, fixable) = c
  BY DEF Converted, c
<1> QED
  BY <1>1, <1>5, <1>6, <1>7

(* The diagnostics of a file are the same as text and as JSON,             *)
LEMMA FilesAgree ==
  ASSUME NEW D, NEW ds \in Seq(D), NEW limit \in Int, NEW f, NEW warned
  PROVE  /\ FileAgrees(FileText(ds, limit, warned), FileJSON(f, ds, limit))
         /\ ds = <<>> => FileAgrees(NothingEntry, FileJSON(f, ds, limit))
<1> DEFINE cut == Limited(ds, limit)
           fixable == GetFixableDiagnostics(f, cut)
           more == limit > 0 /\ Len(ds) > limit
           t == FileText(ds, limit, warned)
           j == FileJSON(f, ds, limit)
<1>1. cut \in Seq(D) /\ (~more => cut = ds)
  BY LimitedIs
<1>2. /\ t.error = FALSE /\ t.nothing = FALSE /\ t.count = Len(ds) /\ t.shown = cut /\ t.notice = more
  BY DEF FileText
<1>3. /\ j.error = FALSE /\ j.count = Len(ds) /\ j.truncated = more
      /\ j.shown = Converted(cut, fixable)
  BY DEF FileJSON
<1> HIDE DEF cut, fixable
<1>4. Bare(j.shown) = cut /\ (cut = <<>> => j.shown = <<>>)
  BY <1>1, <1>3, BareConverted
<1>5. j.truncated = t.notice
  BY <1>2, <1>3
<1>6. ~t.error /\ ~j.error /\ ~t.nothing
  BY <1>2, <1>3
<1> HIDE DEF t, j, more
<1>7. FileAgrees(t, j)
  BY <1>2, <1>3, <1>4, <1>5, <1>6 DEF FileAgrees
<1>8. ASSUME ds = <<>>
      PROVE  FileAgrees(NothingEntry, j)
  <2>1. ~more
    BY <1>8 DEF more
  <2>2. ~j.truncated /\ j.shown = <<>>
    BY <1>1, <1>3, <1>4, <1>8, <2>1
  <2>3. ~NothingEntry.error /\ NothingEntry.nothing
    BY DEF NothingEntry
  <2> QED
    BY <1>6, <2>2, <2>3 DEF FileAgrees
<1> QED
  BY <1>7, <1>8 DEF t, j

(* and so is a difference,                                                 *)
LEMMA DiffsAgree ==
  ASSUME NEW D, NEW diff, diff.new \in Seq(D), diff.resolved \in Seq(D), NEW limit \in Int, NEW f, NEW warned
  PROVE  /\ DiffAgrees(DiffText(diff, limit, warned), DiffJSON(f, diff, limit), diff)
         /\ diff.new = <<>> /\ diff.resolved = <<>> => DiffAgrees(NothingEntry, DiffJSON(f, diff, limit), diff)
<1> DEFINE cut == LimitDiff(diff, limit)
           fixable == GetFixableDiagnostics(f, cut.new \o cut.resolved)
           more == limit > 0 /\ Len(diff.new) + Len(diff.resolved) > limit
           t == DiffText(diff, limit, warned)
           j == DiffJSON(f, diff, limit)
<1>1. Len(diff.new) \in Nat /\ Len(diff.resolved) \in Nat
  OBVIOUS
<1> DEFINE fits == limit <= 0 \/ Len(diff.new) + Len(diff.resolved) <= limit
           left == IF Len(diff.new) >= limit THEN <<>> ELSE Limited(diff.resolved, limit - Len(diff.new))
<1>2. more <=> ~fits
  <2>1. \A a, b \in Nat : (limit > 0 /\ a + b > limit) <=> ~(limit <= 0 \/ a + b <= limit)
    OBVIOUS
  <2> QED
    BY <1>1, <2>1
<1>3. cut = IF fits THEN diff ELSE [new |-> Limited(diff.new, limit), resolved |-> left]
  BY DEF LimitDiff
<1>4. ~more => cut = diff
  <2> HIDE DEF more, fits, cut, left
  <2> QED
    BY <1>2, <1>3
<1>5. ASSUME more
      PROVE  cut.new = Limited(diff.new, limit) /\ cut.resolved = left
  <2>1. more
    BY <1>5
  <2> HIDE DEF more, fits, cut, left
  <2>2. cut = [new |-> Limited(diff.new, limit), resolved |-> left]
    BY <1>2, <1>3, <2>1
  <2> QED
    BY <2>2
<1>6. /\ Limited(diff.new, limit) \in Seq(D) /\ Limited(diff.resolved, limit - Len(diff.new)) \in Seq(D)
      /\ ~(limit > 0 /\ Len(diff.new) > limit) => Limited(diff.new, limit) = diff.new
  <2>1. limit - Len(diff.new) \in Int
    BY <1>1
  <2> QED
    BY <2>1, LimitedIs
<1>7. /\ t.error = FALSE /\ t.nothing = FALSE /\ t.new = cut.new /\ t.resolved = cut.resolved /\ t.notice = more
  BY DEF DiffText
<1>8. /\ j.error = FALSE /\ j.new = Converted(cut.new, fixable) /\ j.resolved = Converted(cut.resolved, fixable)
  BY DEF DiffJSON
<1> HIDE DEF cut, fixable
<1>9. cut.new \in Seq(D) /\ cut.resolved \in Seq(D)
  <2>1. CASE more
    <3>1. <<>> \in Seq(D)
      OBVIOUS
    <3> HIDE DEF more
    <3> QED
      BY <1>5, <1>6, <2>1, <3>1
  <2>2. CASE ~more
    BY <1>4, <2>2
  <2> QED
    BY <2>1, <2>2
<1>10. cut.resolved # <<>> => cut.new = diff.new
  <2>1. CASE more
    <3>1. Len(diff.new) >= limit => cut.resolved = <<>>
      BY <1>5, <2>1
    <3>2. ~(Len(diff.new) >= limit) => cut.new = diff.new
      BY <1>1, <1>5, <1>6, <2>1
    <3> QED
      BY <3>1, <3>2
  <2>2. CASE ~more
    BY <1>4, <2>2
  <2> QED
    BY <2>1, <2>2
<1>11. Bare(j.new) = cut.new /\ Bare(j.resolved) = cut.resolved
  BY <1>8, <1>9, BareConverted
<1>12. cut.new = <<>> /\ cut.resolved = <<>> => j.new = <<>> /\ j.resolved = <<>>
  BY <1>8, <1>9, BareConverted
<1>13. ~t.error /\ ~j.error /\ ~t.nothing
  BY <1>7, <1>8
<1>14. ~t.notice => cut = diff
  BY <1>4, <1>7
<1>15. (diff.new = <<>> /\ diff.resolved = <<>>) => ~more
  BY <1>1 DEF more
<1> HIDE DEF t, j, more
<1>16. DiffAgrees(t, j, diff)
  BY <1>7, <1>10, <1>11, <1>13, <1>14 DEF DiffAgrees
<1>17. ASSUME diff.new = <<>>, diff.resolved = <<>>
       PROVE  DiffAgrees(NothingEntry, j, diff)
  <2>1. cut = diff
    BY <1>4, <1>15, <1>17
  <2>2. j.new = <<>> /\ j.resolved = <<>>
    BY <1>12, <1>17, <2>1
  <2>3. ~NothingEntry.error /\ NothingEntry.nothing
    BY DEF NothingEntry
  <2> QED
    BY <1>13, <2>2, <2>3 DEF DiffAgrees
<1> QED
  BY <1>16, <1>17 DEF t, j

(* whether the file could be read or not.                                  *)
LEMMA OneFileAgrees ==
  ASSUME NEW f \in ReportedOf, NEW limit \in Int, NEW filter
  PROVE  /\ FileAgrees(GetDiagnosticsForFile(f, limit, filter), GetDiagnosticsForFileJSON(f, limit, filter))
         /\ DiffAgrees(GetDiagnosticDiffForFile(f, limit, filter), GetDiagnosticDiffForFileJSON(f, limit, filter),
                       Changes(f, filter))
<1> DEFINE ds == FilterDiagnostics(f.now, filter)
           diff == Changes(f, filter)
           D == Reported
<1>1. /\ GetDiagnosticsForFile(f, limit, filter) =
           IF ~f.synced THEN ErrorEntry ELSE IF ds = <<>> THEN NothingEntry ELSE FileText(ds, limit, f.indexing)
      /\ GetDiagnosticsForFileJSON(f, limit, filter) = IF ~f.synced THEN ErrorEntry ELSE FileJSON(f, ds, limit)
  BY DEF GetDiagnosticsForFile, GetDiagnosticsForFileJSON
<1>2. /\ GetDiagnosticDiffForFile(f, limit, filter) =
           IF ~f.synced THEN ErrorEntry ELSE IF diff.new = <<>> /\ diff.resolved = <<>> THEN NothingEntry
           ELSE DiffText(diff, limit, f.indexing)
      /\ GetDiagnosticDiffForFileJSON(f, limit, filter) = IF ~f.synced THEN ErrorEntry ELSE DiffJSON(f, diff, limit)
  BY DEF GetDiagnosticDiffForFile, GetDiagnosticDiffForFileJSON
<1>3. ErrorEntry.error = TRUE
  BY DEF ErrorEntry
<1>4. FileAgrees(ErrorEntry, ErrorEntry) /\ DiffAgrees(ErrorEntry, ErrorEntry, diff)
  <2> HIDE DEF diff
  <2> QED
    BY <1>3 DEF FileAgrees, DiffAgrees
<1>5. ds \in Seq(D) /\ diff.new \in Seq(D) /\ diff.resolved \in Seq(D)
  BY ChangesTyped, KeptTyped
<1> HIDE DEF ds, diff, D
<1>6. /\ FileAgrees(FileText(ds, limit, f.indexing), FileJSON(f, ds, limit))
      /\ ds = <<>> => FileAgrees(NothingEntry, FileJSON(f, ds, limit))
  BY <1>5, FilesAgree
<1>7. /\ DiffAgrees(DiffText(diff, limit, f.indexing), DiffJSON(f, diff, limit), diff)
      /\ diff.new = <<>> /\ diff.resolved = <<>> => DiffAgrees(NothingEntry, DiffJSON(f, diff, limit), diff)
  BY <1>5, DiffsAgree
<1>8. FileAgrees(GetDiagnosticsForFile(f, limit, filter), GetDiagnosticsForFileJSON(f, limit, filter))
  BY <1>1, <1>4, <1>6
<1>9. DiffAgrees(GetDiagnosticDiffForFile(f, limit, filter), GetDiagnosticDiffForFileJSON(f, limit, filter), diff)
  BY <1>2, <1>4, <1>7
<1> QED
  BY <1>8, <1>9 DEF diff

(* What the tool is given.                                                 *)
ArgsFor(format, diff) ==
  [outputFormat |-> format, showDiff |-> diff, limit |-> question.limit,
   exclude |-> question.filter.exclude, severity |-> question.filter.min]

(* What the tool reads of arguments that include them.                     *)
LEMMA GivenIs ==
  ASSUME DiagnosticsAsked, NEW format, NEW diff \in BOOLEAN, NEW args,
         DOMAIN ArgsFor(format, diff) \subseteq DOMAIN args,
         \A x \in DOMAIN ArgsFor(format, diff) : args[x] = ArgsFor(format, diff)[x]
  PROVE  /\ Arg(args, "limit", 20) = question.limit /\ Filter(args) = question.filter
         /\ JSON(args) <=> format = "json"
         /\ Diff(args) <=> diff
<1>1. DOMAIN ArgsFor(format, diff) = {"outputFormat", "showDiff", "limit", "exclude", "severity"}
  BY DEF ArgsFor
<1>2. /\ ArgsFor(format, diff)["outputFormat"] = format
      /\ ArgsFor(format, diff)["limit"] = question.limit
      /\ ArgsFor(format, diff)["exclude"] = question.filter.exclude
      /\ ArgsFor(format, diff)["severity"] = question.filter.min
  BY DEF ArgsFor
<1>3. ArgsFor(format, diff)["showDiff"] = diff
  BY DEF ArgsFor
<1>4. question.filter = [exclude |-> question.filter.exclude, min |-> question.filter.min]
  <2> DEFINE E == SUBSET STRING
  <2>1. question.filter \in [exclude : E, min : Int]
    BY DEF DiagnosticsAsked
  <2> HIDE DEF E
  <2> QED
    BY <2>1
<1>5. \A x \in {"outputFormat", "showDiff", "limit", "exclude", "severity"} : x \in DOMAIN args
  BY <1>1
<1>6. /\ args["outputFormat"] = format /\ args["limit"] = question.limit
      /\ args["exclude"] = question.filter.exclude /\ args["severity"] = question.filter.min
  BY <1>1, <1>2
<1>7. args["showDiff"] = diff
  BY <1>1, <1>3
<1>8. Arg(args, "limit", 20) = question.limit
  BY <1>5, <1>6 DEF Arg, Given
<1>9. Filter(args) = question.filter
  <2>1. Arg(args, "exclude", {}) = question.filter.exclude /\ Arg(args, "severity", 0) = question.filter.min
    BY <1>5, <1>6 DEF Arg, Given
  <2>2. Filter(args) = [exclude |-> question.filter.exclude, min |-> question.filter.min]
    BY <2>1 DEF Filter
  <2> QED
    BY <1>4, <2>2
<1>10. JSON(args) <=> format = "json"
  BY <1>5, <1>6 DEF JSON, Arg, Given
<1>11. Diff(args) <=> diff
  BY <1>5, <1>7 DEF Diff, Arg, Given
<1> QED
  BY <1>8, <1>9, <1>10, <1>11

(* A file, or a list of files, comes on top of them, and is the only one   *)
(* of the three ways to ask.                                               *)
LEMMA GivenWith ==
  ASSUME NEW format, NEW diff \in BOOLEAN, NEW name \in {"files", "filePath"}, NEW value
  PROVE  /\ DOMAIN ArgsFor(format, diff) \subseteq DOMAIN With(ArgsFor(format, diff), name, value)
         /\ \A x \in DOMAIN ArgsFor(format, diff) : With(ArgsFor(format, diff), name, value)[x] = ArgsFor(format, diff)[x]
         /\ {m \in {"filePath", "files", "directory"} : Given(With(ArgsFor(format, diff), name, value), m)} = {name}
         /\ With(ArgsFor(format, diff), name, value)[name] = value
<1> DEFINE g == ArgsFor(format, diff)
           w == With(g, name, value)
<1>1. DOMAIN g = {"outputFormat", "showDiff", "limit", "exclude", "severity"}
  BY DEF ArgsFor
<1>2. name \notin DOMAIN g
  BY <1>1
<1> HIDE DEF g
<1>3. DOMAIN w = DOMAIN g \cup {name} /\ w[name] = value /\ \A x \in DOMAIN g : w[x] = g[x]
  BY <1>2 DEF With
<1>4. {m \in {"filePath", "files", "directory"} : Given(w, m)} = {name}
  <2> HIDE DEF w
  <2>1. \A m \in {"filePath", "files", "directory"} : Given(w, m) <=> m = name
    BY <1>1, <1>3 DEF Given
  <2> QED
    BY <2>1
<1> QED
  BY <1>3, <1>4 DEF g

(* What is shown of a file.                                                *)
Shown(f, format, diff) ==
  IF format = "json" THEN IF diff THEN GetDiagnosticDiffForFileJSON(f, question.limit, question.filter)
                          ELSE GetDiagnosticsForFileJSON(f, question.limit, question.filter)
  ELSE IF diff THEN GetDiagnosticDiffForFile(f, question.limit, question.filter)
  ELSE GetDiagnosticsForFile(f, question.limit, question.filter)

(* It is what the tool shows of one file,                                  *)
LEMMA ViewIsShown ==
  ASSUME NEW f, NEW format, NEW diff \in BOOLEAN, NEW args,
         Arg(args, "limit", 20) = question.limit, Filter(args) = question.filter,
         JSON(args) <=> format = "json", Diff(args) <=> diff
  PROVE  ViewOf(f, args, Arg(args, "limit", 20), Filter(args)) = Shown(f, format, diff)
<1>1. ViewOf(f, args, question.limit, question.filter) = Shown(f, format, diff)
  <2>1. CASE format = "json" /\ diff
    BY <2>1 DEF ViewOf, Shown
  <2>2. CASE format = "json" /\ ~diff
    BY <2>2 DEF ViewOf, Shown
  <2>3. CASE format # "json" /\ diff
    BY <2>3 DEF ViewOf, Shown
  <2>4. CASE format # "json" /\ ~diff
    BY <2>4 DEF ViewOf, Shown
  <2> QED
    BY <2>1, <2>2, <2>3, <2>4
<1> QED
  BY <1>1

(* asked for by itself                                                     *)
LEMMA OneIs ==
  ASSUME DiagnosticsAsked, NEW format \in {"text", "json"}, NEW diff \in BOOLEAN, NEW i \in 1..Len(question.files)
  PROVE  OneAgrees(diagnostics(With(ArgsFor(format, diff), "filePath", 1), [file |-> question.files[i]]),
                   Shown(question.files[i], format, diff), format)
<1> DEFINE args == With(ArgsFor(format, diff), "filePath", 1)
           world == [file |-> question.files[i]]
           f == question.files[i]
           one == ViewOf(f, args, Arg(args, "limit", 20), Filter(args))
           answer == IF one.error /\ ~JSON(args) THEN ErrorText ELSE Sections(<<one>>)
<1>1. /\ DOMAIN ArgsFor(format, diff) \subseteq DOMAIN args
      /\ \A x \in DOMAIN ArgsFor(format, diff) : args[x] = ArgsFor(format, diff)[x]
      /\ {m \in {"filePath", "files", "directory"} : Given(args, m)} = {"filePath"}
  BY GivenWith
<1>2. "filePath" \in DOMAIN args
  BY DEF With
<1>3. world.file = f
  OBVIOUS
<1>4. f.routed
  <2> DEFINE R == ReportedOf
  <2>1. question.files \in Seq(R)
    BY DEF DiagnosticsAsked
  <2> HIDE DEF R
  <2>2. f \in R
    BY <2>1
  <2> QED
    BY <2>2 DEF R, ReportedOf
<1> HIDE DEF args
<1>5. /\ Arg(args, "limit", 20) = question.limit /\ Filter(args) = question.filter
      /\ JSON(args) <=> format = "json"
      /\ Diff(args) <=> diff
  BY <1>1, GivenIs
<1>6. one = Shown(f, format, diff)
  BY <1>5, ViewIsShown
<1>7. diagnostics(args, world) = OnFile(args, world, answer)
  BY <1>1, <1>3 DEF diagnostics
<1>8. OnFile(args, world, answer) = answer
  BY <1>2, <1>3, <1>4 DEF OnFile, Given
<1> HIDE DEF one, world, f
<1>9. answer = IF one.error /\ ~(format = "json") THEN ErrorText ELSE Sections(<<one>>)
  BY <1>5
<1>10. ~(format = "json") <=> format = "text"
  OBVIOUS
<1>11. answer = IF format = "text" /\ one.error THEN ErrorText ELSE Sections(<<one>>)
  BY <1>9, <1>10
<1> HIDE DEF answer
<1>12. OneAgrees(diagnostics(args, world), one, format)
  BY <1>7, <1>8, <1>11 DEF OneAgrees
<1>13. OneAgrees(diagnostics(args, world), Shown(f, format, diff), format)
  BY <1>6, <1>12
<1> QED
  BY <1>13 DEF args, world, f

(* or with others.                                                         *)
LEMMA SeveralAre ==
  ASSUME DiagnosticsAsked, NEW format \in {"text", "json"}, NEW diff \in BOOLEAN
  PROVE  diagnostics(With(ArgsFor(format, diff), "files", question.files), [servers |-> <<>>]).sections
           = [i \in 1..Len(question.files) |-> Shown(question.files[i], format, diff)]
<1> DEFINE fs == question.files
           args == With(ArgsFor(format, diff), "files", fs)
           world == [servers |-> <<>>]
           many == IF JSON(args) THEN GetDiagnosticsForFilesJSON(fs, Arg(args, "limit", 20), Diff(args), Filter(args)).files
                   ELSE GetDiagnosticsForFiles(fs, Arg(args, "limit", 20), Diff(args), Filter(args))
<1>1. /\ DOMAIN ArgsFor(format, diff) \subseteq DOMAIN args
      /\ \A x \in DOMAIN ArgsFor(format, diff) : args[x] = ArgsFor(format, diff)[x]
      /\ {m \in {"filePath", "files", "directory"} : Given(args, m)} = {"files"}
      /\ args["files"] = fs
  BY GivenWith
<1>2. fs # <<>> /\ \A i \in 1..Len(fs) : fs[i].routed
  <2> DEFINE R == ReportedOf
  <2>1. fs \in Seq(R) /\ fs # <<>>
    BY DEF DiagnosticsAsked
  <2>2. \A f \in R : f.routed
    BY DEF ReportedOf
  <2> HIDE DEF R
  <2>3. \A i \in 1..Len(fs) : fs[i] \in R
    BY <2>1
  <2> QED
    BY <2>1, <2>2, <2>3
<1> HIDE DEF args
<1>3. /\ Arg(args, "limit", 20) = question.limit /\ Filter(args) = question.filter
      /\ JSON(args) <=> format = "json"
      /\ Diff(args) <=> diff
  BY <1>1, GivenIs
<1>4. diagnostics(args, world) = Sections(many)
  <2>1. {"files"} # {"filePath"}
    OBVIOUS
  <2>2. args.files = fs
    BY <1>1
  <2> QED
    BY <1>1, <1>2, <2>1, <2>2 DEF diagnostics
<1>5. many = [i \in 1..Len(fs) |-> Shown(fs[i], format, diff)]
  <2> HIDE DEF fs
  <2>1. CASE format = "json"
    <3>1. many = [i \in 1..Len(fs) |->
                    IF ~fs[i].routed \/ ~fs[i].synced THEN ErrorEntry
                    ELSE IF Diff(args) THEN DiffJSON(fs[i], Changes(fs[i], question.filter), question.limit)
                    ELSE FileJSON(fs[i], FilterDiagnostics(fs[i].now, question.filter), question.limit)]
      BY <1>3, <2>1 DEF GetDiagnosticsForFilesJSON
    <3>2. \A i \in 1..Len(fs) : Shown(fs[i], format, diff) =
                    IF ~fs[i].routed \/ ~fs[i].synced THEN ErrorEntry
                    ELSE IF Diff(args) THEN DiffJSON(fs[i], Changes(fs[i], question.filter), question.limit)
                    ELSE FileJSON(fs[i], FilterDiagnostics(fs[i].now, question.filter), question.limit)
      <4>1. CASE diff
        BY <1>2, <1>3, <2>1, <4>1 DEF Shown, GetDiagnosticDiffForFileJSON
      <4>2. CASE ~diff
        BY <1>2, <1>3, <2>1, <4>2 DEF Shown, GetDiagnosticsForFileJSON
      <4> QED
        BY <4>1, <4>2
    <3> QED
      BY <3>1, <3>2
  <2>2. CASE format # "json"
    <3>1. many = [i \in 1..Len(fs) |->
                    IF ~fs[i].routed THEN ErrorEntry
                    ELSE IF Diff(args) THEN GetDiagnosticDiffForFile(fs[i], question.limit, question.filter)
                    ELSE GetDiagnosticsForFile(fs[i], question.limit, question.filter)]
      BY <1>3, <2>2 DEF GetDiagnosticsForFiles
    <3>2. \A i \in 1..Len(fs) : Shown(fs[i], format, diff) =
                    IF ~fs[i].routed THEN ErrorEntry
                    ELSE IF Diff(args) THEN GetDiagnosticDiffForFile(fs[i], question.limit, question.filter)
                    ELSE GetDiagnosticsForFile(fs[i], question.limit, question.filter)
      <4>1. CASE diff
        BY <1>2, <1>3, <2>2, <4>1 DEF Shown
      <4>2. CASE ~diff
        BY <1>2, <1>3, <2>2, <4>2 DEF Shown
      <4> QED
        BY <4>1, <4>2
    <3> QED
      BY <3>1, <3>2
  <2> QED
    BY <2>1, <2>2
<1> HIDE DEF many, fs
<1>6. Sections(many).sections = many
  BY DEF Sections
<1>7. diagnostics(args, world).sections = [i \in 1..Len(fs) |-> Shown(fs[i], format, diff)]
  BY <1>4, <1>5, <1>6
<1> QED
  BY <1>7 DEF args, fs

(* The files that something has changed for,                               *)
Changed == Filtered(question.files, LAMBDA f : HasChanges(f, question.filter))

(* and those with something to show.                                       *)
Flawed == Filtered(question.files, LAMBDA f : FilterDiagnostics(f.now, question.filter) # <<>>)

(* They are files of the question.                                         *)
LEMMA FilesListed ==
  ASSUME DiagnosticsAsked
  PROVE  /\ question.files \in Seq(ReportedOf) /\ question.limit \in Int
         /\ Changed \in Seq(ReportedOf) /\ Flawed \in Seq(ReportedOf)
         /\ Flattened(<<question.files>>) = question.files
<1> DEFINE fs == question.files
           R == ReportedOf
           I == {i \in 1..Len(fs) : HasChanges(fs[i], question.filter)}
           J == {i \in 1..Len(fs) : FilterDiagnostics(fs[i].now, question.filter) # <<>>}
<1>1. fs \in Seq(R) /\ question.limit \in Int
  BY DEF DiagnosticsAsked
<1>2. Changed = Chosen(fs, I) /\ Flawed = Chosen(fs, J) /\ I \in SUBSET (1..Len(fs)) /\ J \in SUBSET (1..Len(fs))
  BY DEF Changed, Flawed, Filtered
<1> HIDE DEF fs, R, I, J
<1>3. Chosen(fs, I) \in Seq(R) /\ Chosen(fs, J) \in Seq(R)
  BY <1>1, <1>2, ChosenRight
<1>4. Flattened(<<fs>>) = fs
  BY <1>1, JoinOne
<1> QED
  BY <1>1, <1>2, <1>3, <1>4 DEF fs, R

(* What the tool shows of the workspace are these.                         *)
LEMMA AllAre ==
  ASSUME DiagnosticsAsked, NEW format \in {"text", "json"}, NEW diff \in BOOLEAN
  PROVE  SectionsOf(workspace_diagnostics(ArgsFor(format, diff), <<question.files>>)) =
           IF format = "json"
           THEN IF diff
                THEN [i \in 1..Len(Changed) |-> DiffJSON(Changed[i], Changes(Changed[i], question.filter), question.limit)]
                ELSE [i \in 1..Len(Flawed) |->
                        FileJSON(Flawed[i], FilterDiagnostics(Flawed[i].now, question.filter), question.limit)]
           ELSE IF diff
                THEN [i \in 1..Len(Changed) |-> DiffText(Changes(Changed[i], question.filter), question.limit, FALSE)]
                ELSE [i \in 1..Len(Flawed) |->
                        FileText(FilterDiagnostics(Flawed[i].now, question.filter), question.limit, FALSE)]
<1> DEFINE fs == question.files
           args == ArgsFor(format, diff)
           limit == question.limit
           filter == question.filter
           clients == <<fs>>
<1>1. /\ Arg(args, "limit", 20) = limit /\ Filter(args) = filter
      /\ JSON(args) <=> format = "json"
      /\ Diff(args) <=> diff
  BY GivenIs
<1>2. clients # <<>> /\ Flattened(clients) = fs
  BY FilesListed
<1>3. /\ GetAllDiagnosticDiffsJSON(clients, limit, filter)
           = [i \in 1..Len(Changed) |-> DiffJSON(Changed[i], Changes(Changed[i], filter), limit)]
      /\ GetAllDiagnosticsJSON(clients, limit, filter)
           = [i \in 1..Len(Flawed) |-> FileJSON(Flawed[i], FilterDiagnostics(Flawed[i].now, filter), limit)]
      /\ GetAllDiagnosticDiffs(clients, limit, filter)
           = [i \in 1..Len(Changed) |-> DiffText(Changes(Changed[i], filter), limit, FALSE)]
      /\ GetAllDiagnostics(clients, limit, filter)
           = [i \in 1..Len(Flawed) |-> FileText(FilterDiagnostics(Flawed[i].now, filter), limit, FALSE)]
  <2> DEFINE withChanges(s) == Filtered(s, LAMBDA f : HasChanges(f, filter))
             withFlaws(s) == Filtered(s, LAMBDA f : FilterDiagnostics(f.now, filter) # <<>>)
             G == withChanges(Flattened(clients))
             H == withFlaws(Flattened(clients))
  <2>1. /\ GetAllDiagnosticDiffsJSON(clients, limit, filter)
             = [i \in 1..Len(G) |-> DiffJSON(G[i], Changes(G[i], filter), limit)]
    BY DEF GetAllDiagnosticDiffsJSON, ForEachFile
  <2>2. GetAllDiagnosticsJSON(clients, limit, filter)
             = [i \in 1..Len(H) |-> FileJSON(H[i], FilterDiagnostics(H[i].now, filter), limit)]
    BY DEF GetAllDiagnosticsJSON, ForEachFile
  <2>3. GetAllDiagnosticDiffs(clients, limit, filter)
             = [i \in 1..Len(G) |-> DiffText(Changes(G[i], filter), limit, FALSE)]
    BY DEF GetAllDiagnosticDiffs, ForEachFile
  <2>4. GetAllDiagnostics(clients, limit, filter)
             = [i \in 1..Len(H) |-> FileText(FilterDiagnostics(H[i].now, filter), limit, FALSE)]
    BY DEF GetAllDiagnostics, ForEachFile
  <2>5. withChanges(fs) = Changed /\ withFlaws(fs) = Flawed
    BY DEF Changed, Flawed
  <2> HIDE DEF withChanges, withFlaws, clients, fs
  <2>6. G = Changed /\ H = Flawed
    BY <1>2, <2>5
  <2> HIDE DEF G, H
  <2> QED
    BY <2>1, <2>2, <2>3, <2>4, <2>6
<1> DEFINE a == GetAllDiagnosticDiffsJSON(clients, limit, filter)
           b == GetAllDiagnosticsJSON(clients, limit, filter)
           c == GetAllDiagnosticDiffs(clients, limit, filter)
           d == GetAllDiagnostics(clients, limit, filter)
<1>4. workspace_diagnostics(args, clients) =
        IF format = "json" THEN Sections(IF diff THEN a ELSE b) ELSE SectionsOrNone(IF diff THEN c ELSE d)
  <2> HIDE DEF clients, limit, filter, args
  <2>1. CASE diff
    BY <1>1, <1>2, <2>1 DEF workspace_diagnostics
  <2>2. CASE ~diff
    BY <1>1, <1>2, <2>2 DEF workspace_diagnostics
  <2> QED
    BY <2>1, <2>2
<1>5. \A r : SectionsOf(Sections(r)) = r /\ SectionsOf(SectionsOrNone(r)) = r
  BY DEF SectionsOf, SectionsOrNone, Sections, NoneText
<1> HIDE DEF a, b, c, d
<1>6. SectionsOf(workspace_diagnostics(args, clients)) =
        IF format = "json" THEN IF diff THEN a ELSE b ELSE IF diff THEN c ELSE d
  BY <1>4, <1>5
<1> QED
  BY <1>3, <1>6 DEF a, b, c, d, args, clients, fs, limit, filter

(* DiagnosticsAgree holds of every question about diagnostics.             *)
LEMMA DiagnosticsAgreeThere ==
  ASSUME DiagnosticsAsked
  PROVE  DiagnosticsAgree
<1> DEFINE fs == question.files
           filter == question.filter
           limit == question.limit
           several(format, diff) == diagnostics(With(ArgsFor(format, diff), "files", fs), [servers |-> <<>>]).sections
           all(format, diff) == SectionsOf(workspace_diagnostics(ArgsFor(format, diff), <<fs>>))
<1>1. /\ \A i \in 1..Len(fs) : fs[i] \in ReportedOf
      /\ \A i \in 1..Len(Changed) : Changed[i] \in ReportedOf
      /\ \A i \in 1..Len(Flawed) : Flawed[i] \in ReportedOf
      /\ limit \in Int /\ Len(fs) \in Nat /\ Len(Changed) \in Nat /\ Len(Flawed) \in Nat
  <2> DEFINE R == ReportedOf
  <2>1. fs \in Seq(R) /\ Changed \in Seq(R) /\ Flawed \in Seq(R) /\ limit \in Int
    BY FilesListed
  <2> HIDE DEF fs, limit, R
  <2>2. /\ \A i \in 1..Len(fs) : fs[i] \in R
        /\ \A i \in 1..Len(Changed) : Changed[i] \in R
        /\ \A i \in 1..Len(Flawed) : Flawed[i] \in R
        /\ limit \in Int /\ Len(fs) \in Nat /\ Len(Changed) \in Nat /\ Len(Flawed) \in Nat
    BY <2>1
  <2> QED
    BY <2>2 DEF R
<1>2. \A format \in {"text", "json"}, diff \in BOOLEAN :
        several(format, diff) = [i \in 1..Len(fs) |-> Shown(fs[i], format, diff)]
  BY SeveralAre
<1>3. ASSUME NEW i \in 1..Len(fs)
      PROVE  /\ several("text", FALSE)[i] = GetDiagnosticsForFile(fs[i], limit, filter)
             /\ several("json", FALSE)[i] = GetDiagnosticsForFileJSON(fs[i], limit, filter)
             /\ several("text", TRUE)[i] = GetDiagnosticDiffForFile(fs[i], limit, filter)
             /\ several("json", TRUE)[i] = GetDiagnosticDiffForFileJSON(fs[i], limit, filter)
  <2>1. /\ several("text", FALSE)[i] = Shown(fs[i], "text", FALSE)
        /\ several("json", FALSE)[i] = Shown(fs[i], "json", FALSE)
        /\ several("text", TRUE)[i] = Shown(fs[i], "text", TRUE)
        /\ several("json", TRUE)[i] = Shown(fs[i], "json", TRUE)
    <3>1. \A format \in {"text", "json"}, diff \in BOOLEAN : several(format, diff)[i] = Shown(fs[i], format, diff)
      <4> HIDE DEF several, fs
      <4> QED
        BY <1>2
    <3> HIDE DEF several, fs
    <3> QED
      BY <3>1
  <2> HIDE DEF several
  <2> QED
    BY <2>1 DEF Shown
<1>4. \A format \in {"text", "json"}, diff \in BOOLEAN : Len(several(format, diff)) = Len(fs)
  <2> HIDE DEF several, fs
  <2> QED
    BY <1>1, <1>2
<1>5. SectionsAgree(fs, filter, several("text", FALSE), several("json", FALSE),
                    several("text", TRUE), several("json", TRUE))
  <2>1. \A i \in 1..Len(fs) :
          /\ FileAgrees(several("text", FALSE)[i], several("json", FALSE)[i])
          /\ DiffAgrees(several("text", TRUE)[i], several("json", TRUE)[i], Changes(fs[i], filter))
    <3> SUFFICES ASSUME NEW i \in 1..Len(fs)
                 PROVE  /\ FileAgrees(several("text", FALSE)[i], several("json", FALSE)[i])
                        /\ DiffAgrees(several("text", TRUE)[i], several("json", TRUE)[i], Changes(fs[i], filter))
      OBVIOUS
    <3>1. fs[i] \in ReportedOf
      BY <1>1
    <3> HIDE DEF several, fs, limit, filter
    <3>2. /\ FileAgrees(GetDiagnosticsForFile(fs[i], limit, filter), GetDiagnosticsForFileJSON(fs[i], limit, filter))
          /\ DiffAgrees(GetDiagnosticDiffForFile(fs[i], limit, filter), GetDiagnosticDiffForFileJSON(fs[i], limit, filter),
                        Changes(fs[i], filter))
      BY <1>1, <3>1, OneFileAgrees
    <3> QED
      BY <1>3, <3>2
  <2>2. Len(several("text", FALSE)) = Len(fs) /\ Len(several("json", FALSE)) = Len(fs)
    <3> HIDE DEF several, fs
    <3> QED
      BY <1>4
  <2> HIDE DEF several, fs, filter
  <2> QED
    BY <2>1, <2>2 DEF SectionsAgree
<1>6. /\ all("text", FALSE) = [i \in 1..Len(Flawed) |-> FileText(FilterDiagnostics(Flawed[i].now, filter), limit, FALSE)]
      /\ all("json", FALSE) = [i \in 1..Len(Flawed) |-> FileJSON(Flawed[i], FilterDiagnostics(Flawed[i].now, filter), limit)]
      /\ all("text", TRUE) = [i \in 1..Len(Changed) |-> DiffText(Changes(Changed[i], filter), limit, FALSE)]
      /\ all("json", TRUE) = [i \in 1..Len(Changed) |-> DiffJSON(Changed[i], Changes(Changed[i], filter), limit)]
  BY AllAre
<1>7. AllAgree(Changed, filter, all("text", FALSE), all("json", FALSE), all("text", TRUE), all("json", TRUE))
  <2>1. ASSUME NEW i \in 1..Len(Flawed)
        PROVE  FileAgrees(FileText(FilterDiagnostics(Flawed[i].now, filter), limit, FALSE),
                          FileJSON(Flawed[i], FilterDiagnostics(Flawed[i].now, filter), limit))
    <3> DEFINE D == Reported
               ds == FilterDiagnostics(Flawed[i].now, filter)
    <3>1. ds \in Seq(D)
      BY <1>1, ChangesTyped, KeptTyped
    <3> HIDE DEF D, ds, filter, limit
    <3>2. FileAgrees(FileText(ds, limit, FALSE), FileJSON(Flawed[i], ds, limit))
      BY <1>1, <3>1, FilesAgree
    <3> QED
      BY <3>2 DEF ds
  <2>2. ASSUME NEW i \in 1..Len(Changed)
        PROVE  DiffAgrees(DiffText(Changes(Changed[i], filter), limit, FALSE),
                          DiffJSON(Changed[i], Changes(Changed[i], filter), limit), Changes(Changed[i], filter))
    <3> DEFINE D == Reported
               diff == Changes(Changed[i], filter)
    <3>1. diff.new \in Seq(D) /\ diff.resolved \in Seq(D)
      BY <1>1, ChangesTyped
    <3> HIDE DEF D, diff, filter, limit
    <3>2. DiffAgrees(DiffText(diff, limit, FALSE), DiffJSON(Changed[i], diff, limit), diff)
      BY <1>1, <3>1, DiffsAgree
    <3> QED
      BY <3>2 DEF diff
  <2> DEFINE t == all("text", FALSE)
             j == all("json", FALSE)
             u == all("text", TRUE)
             v == all("json", TRUE)
  <2> HIDE DEF t, j, u, v, all
  <2>3. Len(t) = Len(Flawed) /\ Len(j) = Len(Flawed) /\ Len(u) = Len(Changed) /\ Len(v) = Len(Changed)
    <3>1. /\ t = [i \in 1..Len(Flawed) |-> t[i]] /\ j = [i \in 1..Len(Flawed) |-> j[i]]
          /\ u = [i \in 1..Len(Changed) |-> u[i]] /\ v = [i \in 1..Len(Changed) |-> v[i]]
      BY <1>6 DEF t, j, u, v
    <3>2. \A n \in Nat : \A s : s = [i \in 1..n |-> s[i]] => Len(s) = n
      OBVIOUS
    <3> QED
      BY <1>1, <3>1, <3>2
  <2>4. \A i \in 1..Len(Flawed) : FileAgrees(t[i], j[i])
    BY <1>6, <2>1 DEF t, j
  <2>5. \A i \in 1..Len(Changed) : DiffAgrees(u[i], v[i], Changes(Changed[i], filter))
    BY <1>6, <2>2 DEF u, v
  <2> HIDE DEF filter
  <2>6. AllAgree(Changed, filter, t, j, u, v)
    BY <2>3, <2>4, <2>5 DEF AllAgree
  <2> QED
    BY <2>6 DEF t, j, u, v
<1>8. \A i \in 1..Len(fs), format \in {"text", "json"}, diff \in BOOLEAN :
        OneAgrees(diagnostics(With(ArgsFor(format, diff), "filePath", 1), [file |-> fs[i]]),
                  several(format, diff)[i], format)
  <2> SUFFICES ASSUME NEW i \in 1..Len(fs), NEW format \in {"text", "json"}, NEW diff \in BOOLEAN
               PROVE  OneAgrees(diagnostics(With(ArgsFor(format, diff), "filePath", 1), [file |-> fs[i]]),
                                several(format, diff)[i], format)
    OBVIOUS
  <2>1. several(format, diff)[i] = Shown(fs[i], format, diff)
    <3>1. several(format, diff) = [k \in 1..Len(fs) |-> Shown(fs[k], format, diff)]
      BY <1>2
    <3> HIDE DEF several, fs
    <3> QED
      BY <3>1
  <2>2. OneAgrees(diagnostics(With(ArgsFor(format, diff), "filePath", 1), [file |-> fs[i]]),
                  Shown(fs[i], format, diff), format)
    BY OneIs
  <2> HIDE DEF several, fs
  <2> QED
    BY <2>1, <2>2
<1>9. AllAgree(Filtered(fs, LAMBDA f : HasChanges(f, filter)), filter,
               all("text", FALSE), all("json", FALSE), all("text", TRUE), all("json", TRUE))
  BY <1>7 DEF Changed
<1> QED
  BY <1>5, <1>8, <1>9 DEF DiagnosticsAgree, ArgsFor

-----------------------------------------------------------------------------
(* Servers and their files.                                                *)

(* The first of some places is the least, and has the rank 1.              *)
LEMMA FirstRight ==
  ASSUME NEW m \in Nat, NEW I \in SUBSET (1..m), I # {}
  PROVE  /\ First(I) \in I /\ First(I) \in 1..m /\ \A i \in I : First(I) <= i
         /\ First(I) = Nth(I, 1)
<1>1. I \subseteq Nat /\ \A i \in I : i \in Nat
  OBVIOUS
<1>2. First(I) \in I /\ \A i \in I : First(I) <= i
  BY <1>1, Least DEF First
<1>3. Nth(I, 1) \in I /\ \A i \in I : Nth(I, 1) <= i
  BY NthFirst
<1>4. First(I) \in Nat /\ Nth(I, 1) \in Nat /\ First(I) <= Nth(I, 1) /\ Nth(I, 1) <= First(I)
  BY <1>1, <1>2, <1>3
<1> QED
  BY <1>2, <1>4

(* The languages with a server,                                            *)
LanguagesServed == {"go", "rust", "python", "c", "typescript", "markdown"}

(* and the servers.                                                        *)
CommandsServed ==
  {"gopls", "rust-analyzer", "pyright-langserver", "pylsp", "clangd", "typescript-language-server", "marksman"}

(* No two languages have a server in common.                               *)
LEMMA ServersKnown ==
  /\ DOMAIN KnownLSPServers = LanguagesServed
  /\ \A l \in LanguagesServed : KnownLSPServers[l] \in Seq(CommandsServed)
  /\ \A l, k \in LanguagesServed : \A i \in 1..Len(KnownLSPServers[l]), j \in 1..Len(KnownLSPServers[k]) :
       KnownLSPServers[l][i] = KnownLSPServers[k][j] => l = k
<1>1. /\ KnownLSPServers["go"] = <<"gopls">> /\ KnownLSPServers["rust"] = <<"rust-analyzer">>
      /\ KnownLSPServers["python"] = <<"pyright-langserver", "pylsp">>
      /\ KnownLSPServers["c"] = <<"clangd">>
      /\ KnownLSPServers["typescript"] = <<"typescript-language-server">>
      /\ KnownLSPServers["markdown"] = <<"marksman">>
      /\ DOMAIN KnownLSPServers = LanguagesServed
  BY DEF KnownLSPServers, LanguagesServed
<1>2. ASSUME NEW l \in LanguagesServed, NEW i \in 1..Len(KnownLSPServers[l])
      PROVE  LET c == KnownLSPServers[l][i]
             IN  /\ l = "go" <=> c = "gopls"
                 /\ l = "rust" <=> c = "rust-analyzer"
                 /\ l = "python" <=> c \in {"pyright-langserver", "pylsp"}
                 /\ l = "c" <=> c = "clangd"
                 /\ l = "typescript" <=> c = "typescript-language-server"
                 /\ l = "markdown" <=> c = "marksman"
  BY <1>1 DEF LanguagesServed
<1>3. ASSUME NEW l \in LanguagesServed
      PROVE  KnownLSPServers[l] \in Seq(CommandsServed)
  <2>1. \A S : \A a \in S, b \in S : <<a>> \in Seq(S) /\ <<a, b>> \in Seq(S)
    OBVIOUS
  <2>2. \A a \in CommandsServed, b \in CommandsServed : <<a>> \in Seq(CommandsServed) /\ <<a, b>> \in Seq(CommandsServed)
    BY <2>1
  <2>3. /\ "gopls" \in CommandsServed /\ "rust-analyzer" \in CommandsServed /\ "pyright-langserver" \in CommandsServed
        /\ "pylsp" \in CommandsServed /\ "clangd" \in CommandsServed
        /\ "typescript-language-server" \in CommandsServed /\ "marksman" \in CommandsServed
    BY DEF CommandsServed
  <2> QED
    BY <2>2, <2>3, <1>1, Zenon DEF LanguagesServed
<1>4. ASSUME NEW l \in LanguagesServed, NEW k \in LanguagesServed,
             NEW i \in 1..Len(KnownLSPServers[l]), NEW j \in 1..Len(KnownLSPServers[k]),
             KnownLSPServers[l][i] = KnownLSPServers[k][j]
      PROVE  l = k
  BY <1>2, <1>4 DEF LanguagesServed
<1> QED
  BY <1>1, <1>3, <1>4

(* Each language with a server comes once in the order of a scan.          *)
LEMMA LanguagesSorted ==
  /\ Sorted \in Seq(LanguagesServed) /\ Len(Sorted) = 6
  /\ \A l \in LanguagesServed : \E n \in 1..6 : Sorted[n] = l
  /\ \A n, m \in 1..6 : Sorted[n] = Sorted[m] => n = m
  BY DEF Sorted, LanguagesServed

(* The server of a language is the first of its own that is installed.     *)
LEMMA ServerRight ==
  ASSUME NEW l \in LanguagesServed, NEW installed
  PROVE  /\ (Installed(l, installed) = <<>>) = (Able(l, installed) = {})
         /\ Able(l, installed) # {} =>
              /\ ServerOf(l, installed) \in installed
              /\ ServerOf(l, installed) = Installed(l, installed)[1]
              /\ \E i \in 1..Len(KnownLSPServers[l]) : ServerOf(l, installed) = KnownLSPServers[l][i]
<1> DEFINE I == Able(l, installed)
           s == KnownLSPServers[l]
<1>1. s \in Seq(CommandsServed) /\ Len(s) \in Nat
  BY ServersKnown
<1>2. I = {i \in 1..Len(s) : s[i] \in installed} /\ I \in SUBSET (1..Len(s))
  BY DEF Able
<1>3. Installed(l, installed) = Chosen(s, I)
  BY <1>2, ServersKnown DEF Installed, Filtered
<1>4. ServerOf(l, installed) = s[First(I)]
  BY DEF ServerOf
<1> HIDE DEF I, s
<1>5. (Chosen(s, I) = <<>>) = (I = {})
  BY <1>1, <1>2, ChosenRight
<1>6. ASSUME I # {}
      PROVE  /\ First(I) \in I /\ First(I) = Nth(I, 1) /\ Chosen(s, I)[1] = s[Nth(I, 1)]
  <2>1. First(I) \in I /\ First(I) = Nth(I, 1)
    BY <1>1, <1>2, <1>6, FirstRight
  <2>2. \A n \in 1..Cardinality(I) : Chosen(s, I)[n] = s[Nth(I, n)]
    BY <1>1, <1>2, ChosenRight
  <2>3. Cardinality(I) \in Nat /\ IsFiniteSet(I)
    BY <1>1, <1>2, PlacesFinite
  <2>4. 1 \in 1..Cardinality(I)
    BY <2>3, <1>6, FS_EmptySet
  <2> QED
    BY <2>1, <2>2, <2>4
<1>7. (Installed(l, installed) = <<>>) = (I = {})
  BY <1>3, <1>5
<1>8. ASSUME I # {}
      PROVE  /\ ServerOf(l, installed) \in installed
             /\ ServerOf(l, installed) = Installed(l, installed)[1]
             /\ \E i \in 1..Len(s) : ServerOf(l, installed) = s[i]
  BY <1>2, <1>3, <1>4, <1>6, <1>8
<1> QED
  BY <1>7, <1>8 DEF I, s

(* Each language found that has a server installed is there once, with its *)
(* server.                                                                 *)
ConfigsFor(configs, found, installed) ==
  /\ Len(configs) \in Nat
  /\ \A i \in 1..Len(configs) : /\ configs[i].lang \in found /\ Able(configs[i].lang, installed) # {}
                                /\ configs[i].command = ServerOf(configs[i].lang, installed)
  /\ \A i, j \in 1..Len(configs) : configs[i].lang = configs[j].lang => i = j
  /\ \A l \in found : Able(l, installed) # {} => \E i \in 1..Len(configs) : configs[i].lang = l

(* Two languages have no server in common, so the servers of a workspace   *)
(* are those of its languages.                                             *)
LEMMA ServersAre ==
  ASSUME NEW found, found \subseteq LanguagesServed, NEW installed
  PROVE  ConfigsFor(ServersFor(found, installed), found, installed)
<1> DEFINE configs == ServersFor(found, installed)
<1> DEFINE T == Sorted
           server(l) == ServerOf(l, installed)
           able == {n \in 1..Len(T) : T[n] \in found /\ Able(T[n], installed) # {}}
           I == {n \in able : \A m \in able : m < n => server(T[m]) # server(T[n])}
           langs == Chosen(T, I)
<1>1. configs = [n \in 1..Len(langs) |-> [lang |-> langs[n], command |-> server(langs[n]),
                                          args |-> Arguments(server(langs[n]))]]
  BY DEF ServersFor
<1>2. /\ T \in Seq(LanguagesServed) /\ Len(T) = 6 /\ Len(T) \in Nat
      /\ \A l \in LanguagesServed : \E n \in 1..Len(T) : T[n] = l
      /\ \A n, m \in 1..Len(T) : T[n] = T[m] => n = m
  BY LanguagesSorted
<1>3. I = able
  <2>1. ASSUME NEW n \in able, NEW m \in able, server(T[m]) = server(T[n])
        PROVE  m = n
    <3>1. T[n] \in LanguagesServed /\ T[m] \in LanguagesServed
      BY <1>2
    <3>2. PICK i \in 1..Len(KnownLSPServers[T[n]]) : server(T[n]) = KnownLSPServers[T[n]][i]
      BY <3>1, ServerRight
    <3>3. PICK j \in 1..Len(KnownLSPServers[T[m]]) : server(T[m]) = KnownLSPServers[T[m]][j]
      BY <3>1, ServerRight
    <3>4. T[n] = T[m]
      BY <2>1, <3>1, <3>2, <3>3, ServersKnown
    <3> QED
      BY <3>4, <1>2
  <2>2. \A n \in able, m \in able : m < n => m # n
    OBVIOUS
  <2> QED
    BY <2>1, <2>2
<1>4. able \in SUBSET (1..Len(T)) /\ \A n \in able : T[n] \in found /\ Able(T[n], installed) # {}
  OBVIOUS
<1>5. \A l \in found : Able(l, installed) # {} => \E n \in able : T[n] = l
  <2> TAKE l \in found
  <2> HAVE Able(l, installed) # {}
  <2>1. PICK n \in 1..Len(T) : T[n] = l
    BY <1>2
  <2>2. n \in able
    BY <2>1
  <2> QED
    BY <2>1, <2>2
<1>6. langs = Chosen(T, able)
  BY <1>3
<1> HIDE DEF T, I, langs, able
<1>7. /\ langs \in Seq(LanguagesServed) /\ Len(langs) = Cardinality(able) /\ Len(langs) \in Nat
      /\ \A n \in 1..Len(langs) : langs[n] = T[Nth(able, n)] /\ Nth(able, n) \in able /\ Rank(able, Nth(able, n)) = n
      /\ \A n \in 1..Len(langs) : \E i \in able : langs[n] = T[i]
      /\ \A i \in able : \E n \in 1..Len(langs) : langs[n] = T[i]
  <2>1. /\ langs \in Seq(LanguagesServed) /\ Len(langs) = Cardinality(able)
        /\ \A n \in 1..Cardinality(able) : langs[n] = T[Nth(able, n)]
        /\ \A n \in 1..Len(langs) : \E i \in able : langs[n] = T[i]
        /\ \A i \in able : \E n \in 1..Len(langs) : langs[n] = T[i]
    <3> DEFINE L == LanguagesServed
    <3>1. T \in Seq(L) /\ able \in SUBSET (1..Len(T))
      BY <1>2, <1>4
    <3> HIDE DEF L
    <3>2. Chosen(T, able) \in Seq(L) /\ Len(Chosen(T, able)) = Cardinality(able)
      BY <3>1, ChosenRight
    <3>3. \A n \in 1..Cardinality(able) : Chosen(T, able)[n] = T[Nth(able, n)]
      BY <3>1, ChosenRight
    <3>4. /\ \A n \in 1..Len(Chosen(T, able)) : \E i \in able : Chosen(T, able)[n] = T[i]
          /\ \A i \in able : \E n \in 1..Len(Chosen(T, able)) : Chosen(T, able)[n] = T[i]
      BY <3>1, ChosenRight
    <3> QED
      BY <3>2, <3>3, <3>4, <1>6 DEF L
  <2>2. \A n \in 1..Cardinality(able) : Nth(able, n) \in able /\ Rank(able, Nth(able, n)) = n
    BY <1>2, <1>4, NthRight
  <2> QED
    BY <2>1, <2>2
<1>8. /\ Len(configs) = Len(langs)
      /\ \A n \in 1..Len(langs) : configs[n].lang = langs[n] /\ configs[n].command = server(langs[n])
  BY <1>1, <1>7
<1> HIDE DEF configs
<1>9. \A i, j \in 1..Len(langs) : langs[i] = langs[j] => i = j
  <2> TAKE i, j \in 1..Len(langs)
  <2> HAVE langs[i] = langs[j]
  <2>1. Nth(able, i) = Nth(able, j)
    <3>1. Nth(able, i) \in able /\ Nth(able, j) \in able /\ T[Nth(able, i)] = T[Nth(able, j)]
      BY <1>7
    <3> QED
      BY <3>1, <1>2, <1>4
  <2> QED
    BY <2>1, <1>7
<1>10. \A n \in 1..Len(langs) : langs[n] \in found /\ Able(langs[n], installed) # {}
  BY <1>4, <1>7
<1>11. \A l \in found : Able(l, installed) # {} => \E n \in 1..Len(langs) : langs[n] = l
  BY <1>5, <1>7, Zenon
<1>12. Len(configs) \in Nat /\ \A i, j \in 1..Len(configs) : configs[i].lang = configs[j].lang => i = j
  <2>1. Len(configs) \in Nat
    BY <1>7, <1>8
  <2>2. \A i, j \in 1..Len(configs) : configs[i].lang = configs[j].lang => i = j
    BY <1>8, <1>9
  <2> QED
    BY <2>1, <2>2
<1>13. \A l \in found : Able(l, installed) # {} => \E i \in 1..Len(configs) : configs[i].lang = l
  <2> TAKE l \in found
  <2> HAVE Able(l, installed) # {}
  <2>1. PICK n \in 1..Len(langs) : langs[n] = l
    BY <1>11
  <2> QED
    BY <2>1, <1>8
<1>14. \A i \in 1..Len(configs) : /\ configs[i].lang \in found /\ Able(configs[i].lang, installed) # {}
                                  /\ configs[i].command = ServerOf(configs[i].lang, installed)
  BY <1>8, <1>10
<1>15. ConfigsFor(configs, found, installed)
  BY <1>12, <1>13, <1>14 DEF ConfigsFor
<1> QED
  BY <1>15 DEF configs

(* The first configuration of a language,                                  *)
LEMMA FirstForRight ==
  ASSUME NEW configs, Len(configs) \in Nat, NEW l
  PROVE  /\ FirstFor(configs, l) \in 0..Len(configs)
         /\ (\A i \in 1..Len(configs) : configs[i].lang # l) => FirstFor(configs, l) = 0
         /\ \A i \in 1..Len(configs) : configs[i].lang = l =>
              /\ FirstFor(configs, l) \in 1..Len(configs) /\ FirstFor(configs, l) <= i
              /\ configs[FirstFor(configs, l)].lang = l
<1> DEFINE I == {i \in 1..Len(configs) : configs[i].lang = l}
<1>1. FirstFor(configs, l) = IF I = {} THEN 0 ELSE First(I)
  BY DEF FirstFor
<1>2. I \in SUBSET (1..Len(configs)) /\ \A i \in I : configs[i].lang = l
  OBVIOUS
<1>3. \A i \in 1..Len(configs) : configs[i].lang = l => i \in I
  OBVIOUS
<1> HIDE DEF I
<1>4. I # {} => First(I) \in I /\ \A i \in I : First(I) <= i
  BY <1>2, FirstRight
<1>5. I # {} => First(I) \in 1..Len(configs)
  BY <1>2, <1>4
<1>6. ASSUME \A i \in 1..Len(configs) : configs[i].lang # l
      PROVE  FirstFor(configs, l) = 0
  <2>1. I = {}
    BY <1>2, <1>6
  <2> QED
    BY <1>1, <2>1
<1>7. ASSUME NEW i \in 1..Len(configs), configs[i].lang = l
      PROVE  /\ FirstFor(configs, l) \in 1..Len(configs) /\ FirstFor(configs, l) <= i
             /\ configs[FirstFor(configs, l)].lang = l
  <2>1. i \in I
    BY <1>3, <1>7
  <2>2. FirstFor(configs, l) = First(I)
    BY <1>1, <2>1
  <2> QED
    BY <1>2, <1>4, <1>5, <2>1, <2>2
<1>8. FirstFor(configs, l) \in 0..Len(configs)
  BY <1>1, <1>5
<1> QED
  BY <1>6, <1>7, <1>8

(* A language, or else the group it is of, is routed to its server.        *)
LEMMA FindConfigRight ==
  ASSUME NEW configs, Len(configs) \in Nat, \A i \in 1..Len(configs) : configs[i].lang \in LanguagesServed,
         NEW l, NEW i \in 1..Len(configs), configs[i].lang = NormalizeLangID(l)
  PROVE  /\ FindConfig(configs, l) \in 1..Len(configs)
         /\ configs[FindConfig(configs, l)].lang = NormalizeLangID(l)
<1>1. CASE l \in LanguagesServed
  <2>1. NormalizeLangID(l) = l
    BY <1>1, ServersKnown DEF NormalizeLangID
  <2>2. FirstFor(configs, l) \in 1..Len(configs) /\ configs[FirstFor(configs, l)].lang = l
    BY <2>1, FirstForRight
  <2>3. FindConfig(configs, l) = FirstFor(configs, l)
    BY <2>2 DEF FindConfig
  <2> QED
    BY <2>1, <2>2, <2>3
<1>2. CASE l \notin LanguagesServed
  <2>1. l \in DOMAIN LanguageGroups /\ NormalizeLangID(l) = LanguageGroups[l]
    BY <1>2, ServersKnown DEF NormalizeLangID
  <2>2. FirstFor(configs, l) = 0
    BY <1>2, FirstForRight
  <2>3. FindConfig(configs, l) = FirstFor(configs, LanguageGroups[l])
    BY <2>1, <2>2 DEF FindConfig
  <2>4. configs[i].lang = LanguageGroups[l]
    BY <2>1
  <2>5. /\ FirstFor(configs, LanguageGroups[l]) \in 1..Len(configs)
        /\ configs[FirstFor(configs, LanguageGroups[l])].lang = LanguageGroups[l]
    BY <2>4, FirstForRight
  <2> QED
    BY <2>1, <2>3, <2>5
<1> QED
  BY <1>1, <1>2

(* What the watcher follows, the scan has come to.                         *)
LEMMA FollowedIsFound ==
  ASSUME NEW root, Len(root) \in Nat, NEW ignored, root \notin ignored, Last(root) \notin ExcludedDirs,
         NEW files, NEW f \in files, Len(f) \in Nat, SubSeq(f, 1, Len(root)) = root,
         NEW sizes, Followed(root, f, ignored, sizes),
         NormalizeLangID(DetectLanguageID(Last(f))) \in LanguagesServed
  PROVE  NormalizeLangID(DetectLanguageID(Last(f))) \in ScanWorkspaceLanguages(root, files, ignored)
<1>1. \A n \in (Len(root) + 1)..(Len(f) - 1) :
        ~(Last(SubSeq(f, 1, n)) \in ExcludedDirs \/ SubSeq(f, 1, n) \in ignored)
  BY DEF Followed, ShouldExcludeDir
<1>2. ~(Last(SubSeq(f, 1, Len(root))) \in ExcludedDirs \/ SubSeq(f, 1, Len(root)) \in ignored)
  BY DEF Last, Last
<1>3. \A n \in Len(root)..(Len(f) - 1) : n = Len(root) \/ n \in (Len(root) + 1)..(Len(f) - 1)
  <2>1. \A a, b \in Nat : \A n \in a..(b - 1) : n = a \/ n \in (a + 1)..(b - 1)
    OBVIOUS
  <2> QED
    BY <2>1
<1>4. f \in Walked(root, files, ignored)
  BY <1>1, <1>2, <1>3 DEF Walked
<1>5. /\ Ext(Last(f)) \notin ExcludedFileExtensions \cup LargeBinaryExtensions
      /\ f \notin ignored
  BY DEF Followed, ShouldExcludeFile
<1>6. Last(f) = Last(f)
  BY DEF Last, Last
<1> QED
  BY <1>4, <1>5, <1>6, ServersKnown DEF ScanWorkspaceLanguages

(* A workspace without flags: its files get the servers of their           *)
(* languages.                                                              *)
LEMMA WorkspaceServed ==
  ASSUME WorkspaceAsked
  PROVE  DetectedAreServed(ParseConfig(question.workspace, <<>>, <<>>, question.installed),
                           question.workspace.root, question.workspace.files, question.workspace.ignored,
                           question.installed)
<1> DEFINE root == question.workspace.root
           files == question.workspace.files
           ignored == question.workspace.ignored
           installed == question.installed
           found == ScanWorkspaceLanguages(root, files, ignored)
           detected == ParseConfig(question.workspace, <<>>, <<>>, installed)
           configs == ServersFor(found, installed)
           lang(f) == DetectLanguageID(Last(f))
           followed(f) == Followed(root, f, ignored, [x \in files |-> "small"])
<1>1. detected.configs = configs
  <2>1. detected = DetectLSPConfigs(root, files, ignored, installed)
    BY DEF ParseConfig, WorkspaceAsked
  <2> QED
    BY <2>1 DEF DetectLSPConfigs
<1>2. found \subseteq LanguagesServed
  BY ServersKnown DEF ScanWorkspaceLanguages
<1>3. /\ Len(root) \in Nat /\ root \notin ignored
      /\ \A f \in files : Len(f) \in Nat /\ SubSeq(f, 1, Len(root)) = root
  BY DEF WorkspaceAsked
<1> HIDE DEF root, files, ignored, installed
<1>4. PICK c : c = configs
  OBVIOUS
<1> HIDE DEF configs
<1>5. /\ Len(c) \in Nat
      /\ \A i \in 1..Len(c) : /\ c[i].lang \in found /\ Able(c[i].lang, installed) # {}
                              /\ c[i].command = ServerOf(c[i].lang, installed)
      /\ \A i, j \in 1..Len(c) : c[i].lang = c[j].lang => i = j
      /\ \A l \in found : Able(l, installed) # {} => \E i \in 1..Len(c) : c[i].lang = l
  <2>1. ConfigsFor(configs, found, installed)
    BY <1>2, ServersAre DEF configs
  <2> QED
    BY <1>4, <2>1 DEF ConfigsFor
<1>6. \A i \in 1..Len(c) : /\ c[i].lang \in LanguagesServed
                           /\ c[i].command \in installed /\ c[i].command = Installed(c[i].lang, installed)[1]
                           /\ \E n \in 1..Len(KnownLSPServers[c[i].lang]) :
                                c[i].command = KnownLSPServers[c[i].lang][n]
  BY <1>2, <1>5, ServerRight
<1>7. IsInjective([i \in 1..Len(c) |-> c[i].command])
  <2>1. ASSUME NEW i \in 1..Len(c), NEW j \in 1..Len(c), c[i].command = c[j].command
        PROVE  i = j
    <3>1. PICK n \in 1..Len(KnownLSPServers[c[i].lang]) : c[i].command = KnownLSPServers[c[i].lang][n]
      BY <1>6
    <3>2. PICK m \in 1..Len(KnownLSPServers[c[j].lang]) : c[j].command = KnownLSPServers[c[j].lang][m]
      BY <1>6
    <3>3. c[i].lang = c[j].lang
      <4>1. c[i].lang \in LanguagesServed /\ c[j].lang \in LanguagesServed
        BY <1>6
      <4>2. KnownLSPServers[c[i].lang][n] = KnownLSPServers[c[j].lang][m]
        BY <2>1, <3>1, <3>2
      <4> QED
        BY <4>1, <4>2, ServersKnown
    <3> QED
      BY <1>5, <3>3
  <2> QED
    BY <2>1 DEF IsInjective
<1>8. {c[i].command : i \in 1..Len(c)} \subseteq installed
  BY <1>6
<1>9. ASSUME Last(root) \notin ExcludedDirs, NEW f \in files, followed(f)
      PROVE  RoutedTo(c, FindConfig(c, lang(f)), Installed(NormalizeLangID(lang(f)), installed))
  <2> DEFINE k == NormalizeLangID(lang(f))
             at == FindConfig(c, lang(f))
  <2> SUFFICES ASSUME Installed(k, installed) # <<>>
               PROVE  at > 0 /\ c[at].command = Installed(k, installed)[1]
    BY DEF RoutedTo
  <2>1. k \in LanguagesServed
    BY ServersKnown DEF Installed
  <2>2. Able(k, installed) # {}
    BY <2>1, ServerRight
  <2>3. k \in found
    BY <1>3, <1>9, <2>1, FollowedIsFound
  <2>4. PICK i \in 1..Len(c) : c[i].lang = k
    BY <1>5, <2>2, <2>3
  <2>5. at \in 1..Len(c) /\ c[at].lang = k
    BY <1>5, <1>6, <2>4, FindConfigRight
  <2> QED
    BY <1>6, <2>5
<1>10. ASSUME NEW p \in ConfigFileLanguages
       PROVE  Restarted(c, p[1]) = {FindConfig(c, p[2])} \ {0}
  <2>1. /\ p[2] = "c" /\ \A l : <<p[1], l>> \in ConfigFileLanguages <=> l = "c"
    BY DEF ConfigFileLanguages
  <2>2. Restarted(c, p[1]) = {i \in 1..Len(c) : c[i].lang = "c"}
    BY <2>1 DEF Restarted
  <2>3. NormalizeLangID("c") = "c" /\ "cpp" \notin LanguagesServed
    BY ServersKnown DEF NormalizeLangID, LanguagesServed
  <2>4. CASE \E i \in 1..Len(c) : c[i].lang = "c"
    <3>1. PICK i \in 1..Len(c) : c[i].lang = "c"
      BY <2>4
    <3>2. FindConfig(c, "c") \in 1..Len(c) /\ c[FindConfig(c, "c")].lang = "c"
      BY <1>5, <1>6, <2>3, <3>1, FindConfigRight
    <3>3. \A j \in 1..Len(c) : c[j].lang = "c" <=> j = FindConfig(c, "c")
      BY <1>5, <3>2
    <3>4. FindConfig(c, "c") # 0
      BY <1>5, <3>2
    <3> QED
      BY <2>1, <2>2, <3>2, <3>3, <3>4
  <2>5. CASE ~\E i \in 1..Len(c) : c[i].lang = "c"
    <3>1. FirstFor(c, "c") = 0
      BY <1>5, <2>5, FirstForRight
    <3>2. FirstFor(c, "cpp") = 0
      BY <1>5, <1>6, <2>3, FirstForRight
    <3>3. LanguageGroups["c"] = "cpp"
      BY DEF LanguageGroups
    <3>4. FindConfig(c, "c") = 0
      BY <3>1, <3>2, <3>3 DEF FindConfig
    <3> QED
      BY <2>1, <2>2, <2>5, <3>4
  <2> QED
    BY <2>4, <2>5
<1> HIDE DEF detected, found
<1>11. DetectedAreServed(detected, root, files, ignored, installed)
  BY <1>1, <1>4, <1>7, <1>8, <1>9, <1>10 DEF DetectedAreServed
<1> QED
  BY <1>11 DEF detected, root, files, ignored, installed

(* Which language a server named by its command serves.                    *)
LEMMA KnownFor ==
  ASSUME NEW l \in LanguagesServed, NEW command, HasWord(KnownLSPServers[l], command)
  PROVE  {p \in KnownLSPCommands : p[1] = command} = {<<command, l>>}
<1>1. \/ l = "go" /\ command = "gopls"
      \/ l = "rust" /\ command = "rust-analyzer"
      \/ l = "python" /\ command \in {"pyright-langserver", "pylsp"}
      \/ l = "c" /\ command = "clangd"
      \/ l = "typescript" /\ command = "typescript-language-server"
      \/ l = "markdown" /\ command = "marksman"
  <2>1. /\ KnownLSPServers["go"] = <<"gopls">> /\ KnownLSPServers["rust"] = <<"rust-analyzer">>
        /\ KnownLSPServers["python"] = <<"pyright-langserver", "pylsp">>
        /\ KnownLSPServers["c"] = <<"clangd">>
        /\ KnownLSPServers["typescript"] = <<"typescript-language-server">>
        /\ KnownLSPServers["markdown"] = <<"marksman">>
    BY DEF KnownLSPServers
  <2>2. PICK i \in 1..Len(KnownLSPServers[l]) : KnownLSPServers[l][i] = command
    BY DEF HasWord
  <2>3. \A a, b : /\ \A n \in 1..Len(<<a>>) : <<a>>[n] = a
                 /\ \A n \in 1..Len(<<a, b>>) : <<a, b>>[n] \in {a, b}
    OBVIOUS
  <2>4. l = "go" => command = "gopls"
    BY <2>1, <2>2, <2>3
  <2>5. l = "rust" => command = "rust-analyzer"
    BY <2>1, <2>2, <2>3
  <2>6. l = "python" => command \in {"pyright-langserver", "pylsp"}
    BY <2>1, <2>2, <2>3
  <2>7. l = "c" => command = "clangd"
    BY <2>1, <2>2, <2>3
  <2>8. l = "typescript" => command = "typescript-language-server"
    BY <2>1, <2>2, <2>3
  <2>9. l = "markdown" => command = "marksman"
    BY <2>1, <2>2, <2>3
  <2> QED
    BY <2>4, <2>5, <2>6, <2>7, <2>8, <2>9 DEF LanguagesServed
<1>2. <<command, l>> \in KnownLSPCommands
  BY <1>1 DEF KnownLSPCommands
<1>3. \A p \in KnownLSPCommands : p[1] = command => p = <<command, l>>
  BY <1>1 DEF KnownLSPCommands
<1> QED
  BY <1>2, <1>3

(* The servers named by flags get the files of their languages.            *)
LEMMA NamedServed ==
  ASSUME FlagsAsked
  PROVE  NamedAreServed(ParseConfig(question.workspace, question.flags, <<>>, question.installed),
                        question.flags, question.installed)
<1> DEFINE flags == question.flags
           installed == question.installed
           parsed == ParseConfig(question.workspace, flags, <<>>, installed)
<1>1. CASE flags = <<>>
  <2>1. parsed = DetectLSPConfigs(question.workspace.root, {}, question.workspace.ignored, installed)
    BY <1>1 DEF ParseConfig, FlagsAsked
  <2> DEFINE configs == ServersFor({}, installed)
  <2>2. ScanWorkspaceLanguages(question.workspace.root, {}, question.workspace.ignored) = {}
    BY DEF ScanWorkspaceLanguages, Walked
  <2>3. parsed.ok = (configs # <<>>)
    <3>1. parsed = [ok |-> configs # <<>>, configs |-> configs]
      BY <2>1, <2>2 DEF DetectLSPConfigs
    <3> HIDE DEF parsed, configs
    <3> QED
      BY <3>1
  <2>4. configs = <<>>
    <3> DEFINE langs == Chosen(Sorted, {})
    <3>1. configs = [n \in 1..Len(langs) |-> [lang |-> langs[n], command |-> ServerOf(langs[n], installed),
                                              args |-> Arguments(ServerOf(langs[n], installed))]]
      BY DEF ServersFor
    <3>2. Sorted \in Seq(LanguagesServed) /\ {} \in SUBSET (1..Len(Sorted))
      BY LanguagesSorted
    <3>3. langs = <<>>
      BY <3>2, ChosenRight
    <3> HIDE DEF langs, configs
    <3> QED
      BY <3>1, <3>3
  <2> QED
    BY <1>1, <2>3, <2>4 DEF NamedAreServed
<1>2. CASE flags # <<>>
  <2> DEFINE lang(f) == IF f.lang # Unknown THEN f.lang
                        ELSE IF {p \in KnownLSPCommands : p[1] = f.command} = {} THEN "unknown"
                        ELSE (CHOOSE p \in {p \in KnownLSPCommands : p[1] = f.command} : TRUE)[2]
             c == parsed.configs
  <2>1. /\ parsed.ok = \A i \in 1..Len(flags) : flags[i].command \in installed
        /\ c = [i \in 1..Len(flags) |-> [lang |-> lang(flags[i]), command |-> flags[i].command,
                                         args |-> IF i = Len(flags) THEN <<>> ELSE <<>>]]
    BY <1>2 DEF ParseConfig, ParseLSPFlags, FlagsAsked
  <2>2. Len(flags) \in Nat /\ ToSet(flags) = {flags[i] : i \in 1..Len(flags)}
    BY DEF FlagsAsked, ToSet
  <2> HIDE DEF flags, installed, parsed, c
  <2>3. Len(c) = Len(flags) /\ \A i \in 1..Len(flags) : c[i].lang = lang(flags[i])
    BY <2>1, <2>2
  <2>4. parsed.ok = (flags # <<>> /\ {f.command : f \in ToSet(flags)} \subseteq installed)
    BY <1>2, <2>1, <2>2
  <2>5. ASSUME NEW l \in LanguagesServed, NEW i \in 1..Len(flags),
               flags[i].lang = Unknown, HasWord(KnownLSPServers[l], flags[i].command),
               ~\E j \in 1..(i - 1) : c[j].lang = l
        PROVE  FindConfig(c, l) = i
    <3>1. lang(flags[i]) = l
      <4> DEFINE known == {p \in KnownLSPCommands : p[1] = flags[i].command}
      <4>1. known = {<<flags[i].command, l>>}
        BY <2>5, KnownFor
      <4>2. (CHOOSE p \in known : TRUE) = <<flags[i].command, l>> /\ known # {}
        BY <4>1
      <4>3. lang(flags[i]) = IF flags[i].lang # Unknown THEN flags[i].lang
                             ELSE IF known = {} THEN "unknown" ELSE (CHOOSE p \in known : TRUE)[2]
        OBVIOUS
      <4> HIDE DEF known, lang
      <4> QED
        <5> DEFINE w == CHOOSE p \in known : TRUE
        <5>1. \A a, b : <<a, b>>[2] = b
          OBVIOUS
        <5>2. w = <<flags[i].command, l>>
          BY <4>2
        <5> HIDE DEF w
        <5>3. w[2] = l
          BY <5>1, <5>2
        <5>4. (CHOOSE p \in known : TRUE)[2] = l
          BY <5>3 DEF w
        <5> QED
          BY <2>5, <4>2, <4>3, <5>4
    <3>2. c[i].lang = l
      BY <2>3, <3>1
    <3>3. FirstFor(c, l) \in 1..Len(c) /\ FirstFor(c, l) <= i /\ c[FirstFor(c, l)].lang = l
      BY <2>2, <2>3, <3>2, FirstForRight
    <3>4. FirstFor(c, l) = i
      BY <2>2, <2>3, <2>5, <3>3
    <3> QED
      BY <2>2, <3>4 DEF FindConfig
  <2>6. NamedAreServed(parsed, flags, installed)
    BY <2>4, <2>5, ServersKnown DEF NamedAreServed, c
  <2> QED
    BY <2>6 DEF parsed, flags, installed
<1> QED
  BY <1>1, <1>2

-----------------------------------------------------------------------------
(* Places shown.                                                           *)

(* Lines are counted from 0, places from 1: the ranks are the same,        *)
LEMMA RankFromZero ==
  ASSUME NEW m \in Nat, NEW S \in SUBSET (0..(m - 1))
  PROVE  \E I \in SUBSET (1..m) :
           /\ Cardinality(S) = Cardinality(I) /\ Cardinality(S) \in Nat
           /\ \A l \in S : l + 1 \in I /\ Rank(S, l) = Rank(I, l + 1)
           /\ \A i \in I : \E l \in S : i = l + 1
<1>1. PICK I : I = {l + 1 : l \in S}
  OBVIOUS
<1>2. I \in SUBSET (1..m) /\ (\A l \in S : l \in Int /\ l + 1 \in I) /\ \A i \in I : \E l \in S : i = l + 1
  BY <1>1
<1>3. IsFiniteSet(S)
  <2>1. IsFiniteSet(0..(m - 1))
    BY FS_Interval
  <2> QED
    BY <2>1, FS_Subset
<1>4. ASSUME NEW T \in SUBSET S
      PROVE  Cardinality(T) = Cardinality({l + 1 : l \in T})
  <2> DEFINE f == [l \in T |-> l + 1]
             U == {l + 1 : l \in T}
  <2>1. IsFiniteSet(T)
    BY <1>3, FS_Subset
  <2>2. /\ \A x \in T : f[x] \in U
        /\ \A x, y \in T : f[x] = f[y] => x = y
        /\ \A z \in U : \E x \in T : f[x] = z
    BY <1>2
  <2> HIDE DEF f, U
  <2>3. Cardinality(U) = Cardinality(T)
    BY <2>1, <2>2, SameSize
  <2> QED
    BY <2>3 DEF U
<1>5. ASSUME NEW l \in S
      PROVE  Rank(S, l) = Rank(I, l + 1)
  <2>1. {i \in I : i <= l + 1} = {k + 1 : k \in {j \in S : j <= l}}
    BY <1>1, <1>2
  <2> QED
    BY <1>4, <2>1 DEF Rank
<1>6. Cardinality(S) = Cardinality(I)
  BY <1>1, <1>4
<1>7. Cardinality(S) \in Nat
  BY <1>3, FS_CardinalityType
<1> QED
  BY <1>2, <1>3, <1>5, <1>6, <1>7

(* so Nth finds the line of each rank,                                     *)
LEMMA NthFromZero ==
  ASSUME NEW m \in Nat, NEW S \in SUBSET (0..(m - 1))
  PROVE  /\ Cardinality(S) \in Nat
         /\ \A n \in 1..Cardinality(S) : Nth(S, n) \in S
         /\ \A l \in S : \E n \in 1..Cardinality(S) : Nth(S, n) = l
         /\ \A a, b \in 1..Cardinality(S) : a < b => Nth(S, a) < Nth(S, b)
<1>1. PICK I \in SUBSET (1..m) :
           /\ Cardinality(S) = Cardinality(I) /\ Cardinality(S) \in Nat
           /\ \A l \in S : l + 1 \in I /\ Rank(S, l) = Rank(I, l + 1)
           /\ \A i \in I : \E l \in S : i = l + 1
  BY RankFromZero
<1>2. \A l \in S : l \in Int /\ l + 1 \in I
  BY <1>1
<1>3. ASSUME NEW n \in 1..Cardinality(S)
      PROVE  Nth(S, n) \in S /\ Nth(S, n) + 1 = Nth(I, n)
  <2>1. Nth(I, n) \in I /\ Rank(I, Nth(I, n)) = n
    BY <1>1, NthRight
  <2>2. PICK l \in S : Nth(I, n) = l + 1
    BY <1>1, <2>1
  <2>3. Rank(S, l) = n
    BY <1>1, <2>1, <2>2
  <2>4. ASSUME NEW k \in S, Rank(S, k) = n
        PROVE  k = l
    <3>1. Rank(I, k + 1) = Rank(I, l + 1) /\ k + 1 \in I /\ l + 1 \in I
      BY <1>1, <1>2, <2>3, <2>4
    <3>2. k + 1 = l + 1
      BY <1>1, <3>1, RankApart
    <3> QED
      BY <1>2, <3>2
  <2>5. Nth(S, n) = l
    BY <2>3, <2>4 DEF Nth
  <2> QED
    BY <2>2, <2>5
<1>4. ASSUME NEW l \in S
      PROVE  \E n \in 1..Cardinality(S) : Nth(S, n) = l
  <2>1. Rank(I, l + 1) \in 1..Cardinality(S) /\ Nth(I, Rank(I, l + 1)) = l + 1
    BY <1>1, <1>2, RankBounds, NthRight
  <2>2. PICK n \in 1..Cardinality(S) : Nth(I, n) = l + 1
    BY <2>1
  <2>3. Nth(S, n) \in S /\ Nth(S, n) + 1 = l + 1
    BY <1>3, <2>2
  <2>4. Nth(S, n) \in Int /\ l \in Int
    BY <1>2, <2>3
  <2>5. Nth(S, n) = l
    BY <2>3, <2>4
  <2> QED
    BY <2>5
<1>5. ASSUME NEW a \in 1..Cardinality(S), NEW b \in 1..Cardinality(S), a < b
      PROVE  Nth(S, a) < Nth(S, b)
  <2>1. Nth(I, b) <= Nth(I, a) <=> b <= a
    BY <1>1, NthGrows
  <2>2. ~(Nth(I, b) <= Nth(I, a))
    BY <1>5, <2>1
  <2>3. /\ Nth(S, a) \in Int /\ Nth(S, b) \in Int
        /\ Nth(I, a) = Nth(S, a) + 1 /\ Nth(I, b) = Nth(S, b) + 1
    BY <1>2, <1>3
  <2> QED
    BY <2>2, <2>3
<1> QED
  BY <1>1, <1>3, <1>4, <1>5

(* and Ascending lists the lines, each once and in order.                  *)
LEMMA AscendingRight ==
  ASSUME NEW m \in Nat, NEW S \in SUBSET (0..(m - 1))
  PROVE  /\ Ascending(S) \in Seq(S) /\ Len(Ascending(S)) = Cardinality(S)
         /\ \A l \in S : \E n \in 1..Len(Ascending(S)) : Ascending(S)[n] = l
         /\ \A a, b \in 1..Len(Ascending(S)) : a < b => Ascending(S)[a] < Ascending(S)[b]
<1> DEFINE c == Cardinality(S)
<1>1. /\ c \in Nat
      /\ \A n \in 1..c : Nth(S, n) \in S
      /\ \A l \in S : \E n \in 1..c : Nth(S, n) = l
      /\ \A a, b \in 1..c : a < b => Nth(S, a) < Nth(S, b)
  BY NthFromZero
<1>2. Ascending(S) = [n \in 1..c |-> Nth(S, n)]
  BY DEF Ascending
<1> HIDE DEF c
<1>3. Ascending(S) \in Seq(S) /\ Len(Ascending(S)) = c
  BY <1>1, <1>2
<1>4. \A n \in 1..c : Ascending(S)[n] = Nth(S, n)
  BY <1>2
<1> QED
  BY <1>1, <1>3, <1>4 DEF c

(* The runs of a set of lines: each from a line whose predecessor is not   *)
(* in the set to the next whose successor is not.                          *)
RunsOf(ranges, S) ==
  /\ \A i \in 1..Len(ranges) : /\ ranges[i] = <<ranges[i][1], ranges[i][2]>>
                               /\ ranges[i][1] \in Nat /\ ranges[i][2] \in Nat /\ ranges[i][1] <= ranges[i][2]
                               /\ ranges[i][1]..ranges[i][2] \subseteq S
  /\ \A i \in 1..(Len(ranges) - 1) : ranges[i + 1][1] > ranges[i][2] + 1
  /\ \A l \in S : \E i \in 1..Len(ranges) : l \in ranges[i][1]..ranges[i][2]

(* From a line of a set on, the lines of the set go on without a gap up to *)
(* the end of its run,                                                     *)
LEMMA RunEnds ==
  ASSUME NEW m \in Nat, NEW S \in SUBSET (0..(m - 1)), NEW s \in S
  PROVE  LET e == First({l \in S : l >= s /\ l + 1 \notin S})
         IN  /\ e \in Nat /\ s <= e /\ e + 1 \notin S
             /\ \A l \in Nat : s <= l /\ l <= e => l \in S
<1> DEFINE E == {l \in S : l >= s /\ l + 1 \notin S}
<1>1. S \subseteq Nat /\ s \in Nat /\ \A l \in S : l < m
  OBVIOUS
<1>2. E \subseteq Nat
  BY <1>1
<1>3. E # {}
  <2>1. PICK B : B = {b \in Nat : \E l \in S : l >= s /\ b = m - l}
    OBVIOUS
  <2>2. B \subseteq Nat /\ m - s \in B
    BY <1>1, <2>1
  <2>3. PICK b \in B : \A y \in B : b <= y
    BY <2>2, Least
  <2>4. PICK l \in S : l >= s /\ b = m - l
    BY <2>1, <2>3
  <2>5. l + 1 \notin S
    <3>1. SUFFICES ASSUME l + 1 \in S PROVE FALSE
      OBVIOUS
    <3>2. m - (l + 1) \in B
      BY <1>1, <2>1, <2>4, <3>1
    <3>3. b <= m - (l + 1)
      BY <2>3, <3>2
    <3> QED
      BY <1>1, <2>4, <3>3
  <2> QED
    BY <2>4, <2>5
<1>4. First(E) \in E /\ \A l \in E : First(E) <= l
  BY <1>2, <1>3, Least DEF First
<1>5. PICK e : e = First(E)
  OBVIOUS
<1>6. e \in Nat /\ e \in S /\ s <= e /\ e + 1 \notin S
  BY <1>1, <1>4, <1>5
<1>7. \A l \in S : l >= s /\ l + 1 \notin S => e <= l
  BY <1>4, <1>5
<1> HIDE DEF E
<1>8. PICK T : T = {n \in Nat : s + n <= e => s + n \in S}
  OBVIOUS
<1>9. \A n \in Nat : n \in T
  <2>1. 0 \in T
    BY <1>1, <1>8
  <2>2. ASSUME NEW n \in T
        PROVE  n + 1 \in T
    <3>1. n \in Nat
      BY <1>8
    <3>2. SUFFICES ASSUME s + n + 1 <= e PROVE s + n + 1 \in S
      BY <1>1, <1>8, <3>1
    <3>3. s + n \in S
      BY <1>1, <1>6, <1>8, <3>1, <3>2
    <3>4. ~(e <= s + n)
      BY <1>1, <1>6, <3>1, <3>2
    <3>5. s + n >= s
      BY <1>1, <3>1
    <3> QED
      BY <1>7, <3>3, <3>4, <3>5
  <2>3. T \subseteq Nat
    BY <1>8
  <2> QED
    BY <2>1, <2>2, <2>3, Induction
<1>10. ASSUME NEW l \in Nat, s <= l, l <= e
       PROVE  l \in S
  <2>1. PICK n \in Nat : l = s + n
    <3>1. l - s \in Nat /\ l = s + (l - s)
      BY <1>1, <1>10
    <3> QED
      BY <3>1
  <2> QED
    BY <1>8, <1>9, <1>10, <2>1
<1> QED
  BY <1>5, <1>6, <1>10 DEF E

(* and from a line back they do so down to where its run begins.           *)
LEMMA RunBegins ==
  ASSUME NEW m \in Nat, NEW S \in SUBSET (0..(m - 1)), NEW l \in S
  PROVE  \E s \in S : s <= l /\ s - 1 \notin S /\ \A k \in Nat : s <= k /\ k <= l => k \in S
<1>1. S \subseteq Nat /\ l \in Nat
  OBVIOUS
<1>2. PICK D : D = {d \in Nat : l - d - 1 \notin S}
  OBVIOUS
<1>3. D \subseteq Nat /\ l \in D
  <2>1. l - l - 1 = -1
    BY <1>1
  <2>2. -1 \notin S
    BY <1>1
  <2> QED
    BY <1>1, <1>2, <2>1, <2>2
<1>4. PICK d \in D : \A y \in D : d <= y
  BY <1>3, Least
<1>5. d \in Nat /\ l - d - 1 \notin S
  BY <1>2, <1>4
<1>6. ASSUME NEW k \in Nat, l - d <= k, k <= l
      PROVE  k \in S
  <2>1. CASE k = l
    BY <2>1
  <2>2. CASE k # l
    <3>1. PICK c \in Nat : k = l - c - 1 /\ c < d
      <4>1. l - k - 1 \in Nat /\ k = l - (l - k - 1) - 1 /\ l - k - 1 < d
        BY <1>1, <1>5, <1>6, <2>2
      <4> QED
        BY <4>1
    <3>2. c \notin D
      <4>1. ~(d <= c)
        BY <1>5, <3>1
      <4> QED
        BY <1>4, <4>1
    <3> QED
      BY <1>2, <3>1, <3>2
  <2> QED
    BY <2>1, <2>2
<1>7. PICK s : s = l - d
  OBVIOUS
<1>8. s \in Nat
  <2>1. d <= l
    BY <1>3, <1>4
  <2> QED
    BY <1>1, <1>5, <1>7, <2>1
<1>9. s <= l /\ s - 1 \notin S
  BY <1>1, <1>5, <1>7
<1>10. \A k \in Nat : s <= k /\ k <= l => k \in S
  BY <1>6, <1>7
<1>11. s \in S
  BY <1>8, <1>9, <1>10
<1> QED
  BY <1>9, <1>10, <1>11

(* ConvertLinesToRanges gives the runs of the lines that are in the file.  *)
LEMMA RangesRight ==
  ASSUME NEW total \in Nat, NEW shown \in SUBSET Int
  PROVE  /\ RunsOf(ConvertLinesToRanges(shown, total), shown \cap 0..(total - 1))
         /\ Len(ConvertLinesToRanges(shown, total)) \in Nat
<1> DEFINE S == shown \cap 0..(total - 1)
           B == {l \in S : l - 1 \notin S}
           end(s) == First({l \in S : l >= s /\ l + 1 \notin S})
           A == Ascending(B)
           ranges == ConvertLinesToRanges(shown, total)
<1>1. S = {l \in shown : 0 <= l /\ l < total}
  <2>1. \A l \in shown : l \in Int
    OBVIOUS
  <2>2. \A l \in Int : l \in 0..(total - 1) <=> 0 <= l /\ l < total
    OBVIOUS
  <2> QED
    BY <2>1, <2>2
<1>2. ranges = [i \in 1..Len(A) |-> <<A[i], end(A[i])>>]
  BY <1>1 DEF ConvertLinesToRanges
<1>3. S \in SUBSET (0..(total - 1)) /\ S \subseteq Nat
  OBVIOUS
<1>4. B \in SUBSET (0..(total - 1)) /\ B \subseteq S /\ \A l \in B : l - 1 \notin S
  OBVIOUS
<1>5. \A l \in S : l - 1 \notin S => l \in B
  OBVIOUS
<1>6. \A s \in S : /\ end(s) \in Nat /\ s <= end(s) /\ end(s) + 1 \notin S
                   /\ \A l \in Nat : s <= l /\ l <= end(s) => l \in S
  BY <1>3, RunEnds
<1> HIDE DEF S, B, end
<1>7. /\ A \in Seq(B) /\ Len(A) \in Nat
      /\ \A l \in B : \E n \in 1..Len(A) : A[n] = l
      /\ \A a, b \in 1..Len(A) : a < b => A[a] < A[b]
  <2>1. /\ A \in Seq(B)
        /\ \A l \in B : \E n \in 1..Len(A) : A[n] = l
        /\ \A a, b \in 1..Len(A) : a < b => A[a] < A[b]
    BY <1>4, AscendingRight
  <2> QED
    BY <2>1
<1>8. \A i \in 1..Len(A) : A[i] \in B /\ A[i] \in S /\ A[i] \in Nat
  <2>1. \A i \in 1..Len(A) : A[i] \in B
    BY <1>7
  <2> QED
    BY <1>3, <1>4, <2>1
<1> HIDE DEF A
<1>9. /\ Len(ranges) = Len(A)
      /\ \A i \in 1..Len(A) : /\ ranges[i] = <<A[i], end(A[i])>>
                              /\ ranges[i][1] = A[i] /\ ranges[i][2] = end(A[i])
  BY <1>2, <1>7
<1> HIDE DEF ranges
<1>10. ASSUME NEW i \in 1..Len(A)
       PROVE  /\ ranges[i] = <<ranges[i][1], ranges[i][2]>>
              /\ ranges[i][1] \in Nat /\ ranges[i][2] \in Nat /\ ranges[i][1] <= ranges[i][2]
              /\ ranges[i][1]..ranges[i][2] \subseteq S
  <2>1. /\ end(A[i]) \in Nat /\ A[i] <= end(A[i])
        /\ \A l \in Nat : A[i] <= l /\ l <= end(A[i]) => l \in S
    BY <1>6, <1>8
  <2>2. A[i]..end(A[i]) \subseteq S
    BY <1>8, <2>1
  <2> QED
    BY <1>8, <1>9, <2>1, <2>2
<1>11. ASSUME NEW i \in 1..(Len(A) - 1)
       PROVE  ranges[i + 1][1] > ranges[i][2] + 1
  <2>1. i \in 1..Len(A) /\ i + 1 \in 1..Len(A) /\ i < i + 1
    BY <1>7
  <2>2. A[i] < A[i + 1] /\ A[i + 1] - 1 \notin S /\ A[i] \in Nat /\ A[i + 1] \in Nat
    BY <1>4, <1>7, <1>8, <2>1
  <2>3. PICK x \in Nat : x = A[i + 1]
    BY <2>2
  <2>4. end(A[i]) \in Nat /\ \A l \in Nat : A[i] <= l /\ l <= end(A[i]) => l \in S
    BY <1>6, <1>8, <2>1
  <2>5. x - 1 \in Nat /\ A[i] <= x - 1
    BY <2>2, <2>3
  <2>6. ~(x - 1 <= end(A[i]))
    BY <2>2, <2>3, <2>4, <2>5
  <2>7. x > end(A[i]) + 1
    BY <2>3, <2>4, <2>6
  <2> QED
    BY <1>9, <2>1, <2>3, <2>7
<1>12. ASSUME NEW l \in S
       PROVE  \E i \in 1..Len(A) : l \in ranges[i][1]..ranges[i][2]
  <2>1. PICK s \in S : s <= l /\ s - 1 \notin S /\ \A k \in Nat : s <= k /\ k <= l => k \in S
    BY <1>3, RunBegins
  <2>2. PICK i \in 1..Len(A) : A[i] = s
    BY <1>5, <1>7, <2>1
  <2>3. end(s) \in Nat /\ s <= end(s) /\ end(s) + 1 \notin S
    BY <1>6
  <2>4. l \in Nat /\ s \in Nat
    BY <1>3
  <2>5. l <= end(s)
    <3>1. SUFFICES ASSUME end(s) < l PROVE FALSE
      BY <2>3, <2>4
    <3>2. end(s) + 1 \in Nat /\ s <= end(s) + 1 /\ end(s) + 1 <= l
      BY <2>3, <2>4, <3>1
    <3> QED
      BY <2>1, <2>3, <3>2
  <2>6. l \in s..end(s)
    BY <2>1, <2>3, <2>4, <2>5
  <2> QED
    BY <1>9, <2>2, <2>6
<1> QED
  BY <1>7, <1>9, <1>10, <1>11, <1>12 DEF RunsOf, S, ranges

(* Each of the sequences has an element.                                   *)
NoneEmpty(ss) == \A i \in 1..Len(ss) : Len(ss[i]) > 0

(* From the place <<a, b>> that the n-th element has, f goes on to the next.*)
GoesOn(F, f, ss, n, a, b) ==
  /\ a \in 1..Len(ss) /\ b \in 1..Len(ss[a]) /\ F[n] = ss[a][b]
  /\ b < Len(ss[a]) => n + 1 <= Len(F) /\ f[n + 1] = <<a, b + 1>>
  /\ b = Len(ss[a]) /\ n + 1 <= Len(F) => a + 1 \in 1..Len(ss) /\ f[n + 1] = <<a + 1, 1>>

(* In what lists them, the next element is the next of the same sequence,  *)
(* or the first of the next one.                                           *)
LEMMA FlattenedNext ==
  ASSUME NEW S, NEW ss \in Seq(Seq(S)), NoneEmpty(ss), NEW F \in Seq(S), NEW f, Lists(F, f, ss)
  PROVE  \A n \in 1..Len(F), a, b \in Nat : f[n] = <<a, b>> => GoesOn(F, f, ss, n, a, b)
<1> SUFFICES ASSUME NEW n \in 1..Len(F), NEW a \in Nat, NEW b \in Nat, f[n] = <<a, b>>
             PROVE  GoesOn(F, f, ss, n, a, b)
  OBVIOUS
<1> DEFINE P == Pairs(ss)
<1>1. /\ P \subseteq Nat \X Nat
      /\ \A p \in P : p[1] \in 1..Len(ss) /\ p[2] \in 1..Len(ss[p[1]]) /\ p = <<p[1], p[2]>>
      /\ \A i \in 1..Len(ss) : \A j \in 1..Len(ss[i]) : <<i, j>> \in P
  BY PairsAre
<1>2. /\ \A k \in 1..Len(F) : f[k] \in P /\ F[k] = ss[f[k][1]][f[k][2]]
      /\ \A p \in P : \E k \in 1..Len(F) : f[k] = p
      /\ \A k, l \in 1..Len(F) : InOrder(f[k], f[l]) <=> k <= l
  BY DEF Lists
<1>3. Len(F) \in Nat /\ n \in Nat /\ Len(ss) \in Nat /\ \A i \in 1..Len(ss) : Len(ss[i]) \in Nat
  OBVIOUS
<1> HIDE DEF P
<1>4. /\ <<a, b>> \in P /\ <<a, b>>[1] = a /\ <<a, b>>[2] = b
      /\ F[n] = ss[<<a, b>>[1]][<<a, b>>[2]]
  BY <1>2
<1>5. a \in 1..Len(ss) /\ b \in 1..Len(ss[a]) /\ F[n] = ss[a][b]
  BY <1>1, <1>4
<1>6. \A c, d \in Nat : /\ InOrder(<<a, b>>, <<c, d>>) <=> a < c \/ (a = c /\ b <= d)
                        /\ InOrder(<<c, d>>, <<a, b>>) <=> c < a \/ (a = c /\ d <= b)
  BY DEF InOrder
<1>7. ASSUME NEW c \in Nat, NEW d \in Nat, <<c, d>> \in P, a < c \/ (a = c /\ b < d)
      PROVE  \E k \in 1..Len(F) : f[k] = <<c, d>> /\ n < k
  <2>1. PICK k \in 1..Len(F) : f[k] = <<c, d>>
    BY <1>2, <1>7
  <2>2. InOrder(<<c, d>>, <<a, b>>) <=> c < a \/ (a = c /\ d <= b)
    BY <1>6
  <2>3. ~InOrder(<<c, d>>, <<a, b>>)
    BY <1>7, <2>2
  <2>4. ~(k <= n)
    BY <1>2, <2>1, <2>3
  <2> QED
    BY <2>1, <2>4
<1>8. ASSUME n + 1 <= Len(F)
      PROVE  \E c, d \in Nat : /\ f[n + 1] = <<c, d>> /\ <<c, d>> \in P /\ (a < c \/ (a = c /\ b < d))
                               /\ c \in 1..Len(ss) /\ d \in 1..Len(ss[c])
  <2>1. n + 1 \in 1..Len(F)
    BY <1>3, <1>8
  <2>2. f[n + 1] \in P
    BY <1>2, <2>1
  <2>3. PICK c \in Nat, d \in Nat : f[n + 1] = <<c, d>>
    BY <1>1, <2>2
  <2>4. c \in 1..Len(ss) /\ d \in 1..Len(ss[c])
    <3>1. <<c, d>>[1] = c /\ <<c, d>>[2] = d
      OBVIOUS
    <3> QED
      BY <1>1, <2>2, <2>3, <3>1
  <2>5. ~(n + 1 <= n)
    BY <1>3
  <2>6. ~InOrder(<<c, d>>, <<a, b>>)
    BY <1>2, <2>1, <2>3, <2>5
  <2>7. a < c \/ (a = c /\ b < d)
    BY <1>6, <2>6
  <2> QED
    BY <2>2, <2>3, <2>4, <2>7
<1>9. ASSUME NEW c \in Nat, NEW d \in Nat, <<c, d>> \in P, a < c \/ (a = c /\ b < d)
      PROVE  /\ n + 1 <= Len(F)
             /\ InOrder(f[n + 1], <<c, d>>)
  <2>1. PICK k \in 1..Len(F) : f[k] = <<c, d>> /\ n < k
    BY <1>7, <1>9
  <2>2. n + 1 \in 1..Len(F) /\ n + 1 <= k
    BY <1>3, <2>1
  <2>3. InOrder(f[n + 1], f[k])
    BY <1>2, <2>2
  <2> QED
    BY <2>1, <2>2, <2>3
<1>10. ASSUME b < Len(ss[a])
       PROVE  n + 1 <= Len(F) /\ f[n + 1] = <<a, b + 1>>
  <2>1. <<a, b + 1>> \in P /\ b < b + 1 /\ b + 1 \in Nat
    <3>1. b + 1 \in 1..Len(ss[a])
      BY <1>3, <1>5, <1>10
    <3> QED
      BY <1>1, <1>5, <3>1
  <2>2. n + 1 <= Len(F) /\ InOrder(f[n + 1], <<a, b + 1>>)
    BY <1>9, <2>1
  <2>3. PICK c \in Nat, d \in Nat : f[n + 1] = <<c, d>> /\ (a < c \/ (a = c /\ b < d))
    BY <1>8, <2>2
  <2>4. c < a \/ (c = a /\ d <= b + 1)
    BY <2>1, <2>2, <2>3 DEF InOrder
  <2>5. c = a /\ d = b + 1
    BY <2>3, <2>4
  <2> QED
    BY <2>2, <2>3, <2>5
<1>11. ASSUME b = Len(ss[a]), n + 1 <= Len(F)
       PROVE  a + 1 \in 1..Len(ss) /\ f[n + 1] = <<a + 1, 1>>
  <2>1. PICK c \in Nat, d \in Nat : /\ f[n + 1] = <<c, d>> /\ (a < c \/ (a = c /\ b < d))
                                    /\ c \in 1..Len(ss) /\ d \in 1..Len(ss[c])
    BY <1>8, <1>11
  <2>2. a < c
    <3>1. a = c => d <= b
      BY <1>11, <2>1
    <3> QED
      BY <2>1, <3>1
  <2>3. a + 1 \in 1..Len(ss)
    BY <1>3, <2>1, <2>2
  <2>4. <<a + 1, 1>> \in P
    <3>1. Len(ss[a + 1]) \in Nat /\ Len(ss[a + 1]) > 0
      BY <1>3, <2>3 DEF NoneEmpty
    <3> QED
      BY <1>1, <2>3, <3>1
  <2>5. InOrder(f[n + 1], <<a + 1, 1>>)
    BY <1>9, <2>4
  <2>6. c < a + 1 \/ (c = a + 1 /\ d <= 1)
    BY <2>1, <2>5 DEF InOrder
  <2>7. c = a + 1 /\ d = 1
    BY <2>1, <2>2, <2>6
  <2> QED
    BY <2>1, <2>3, <2>7
<1> QED
  BY <1>5, <1>10, <1>11 DEF GoesOn

(* The rows of the i-th range.                                             *)
RowsOf(ranges, i) ==
  (IF i > 1 THEN <<Dots>> ELSE <<>>) \o [k \in 1..(ranges[i][2] - ranges[i][1] + 1) |-> ranges[i][1] + k - 1]

(* They are the lines of the range in order, after the dots if there are   *)
(* any.                                                                    *)
LEMMA RowsOfRange ==
  ASSUME NEW ranges, NEW i \in 1..Len(ranges), Len(ranges) \in Nat, ranges[i][1] \in Nat, ranges[i][2] \in Nat,
         ranges[i][1] <= ranges[i][2]
  PROVE  LET d == IF i > 1 THEN 1 ELSE 0
         IN  /\ RowsOf(ranges, i) \in Seq(Int)
             /\ Len(RowsOf(ranges, i)) = d + ranges[i][2] - ranges[i][1] + 1
             /\ i > 1 => RowsOf(ranges, i)[1] = Dots
             /\ \A k \in Nat : d < k /\ k <= Len(RowsOf(ranges, i)) => RowsOf(ranges, i)[k] = ranges[i][1] + k - d - 1
<1> DEFINE s == ranges[i][1]
           e == ranges[i][2]
           lines == [k \in 1..(e - s + 1) |-> s + k - 1]
           dots == IF i > 1 THEN <<Dots>> ELSE <<>>
           d == IF i > 1 THEN 1 ELSE 0
<1>1. s \in Nat /\ e \in Nat /\ s <= e /\ i \in Nat
  OBVIOUS
<1> HIDE DEF s, e
<1>2. e - s + 1 \in Nat
  BY <1>1
<1>3. lines \in Seq(Int) /\ Len(lines) = e - s + 1 /\ \A k \in 1..(e - s + 1) : lines[k] = s + k - 1
  BY <1>1, <1>2
<1>4. dots \in Seq(Int) /\ Len(dots) = d /\ (i > 1 => dots[1] = Dots) /\ d \in Nat /\ (i > 1 => d = 1)
  BY DEF Dots
<1> HIDE DEF lines, dots, d
<1>5. RowsOf(ranges, i) = dots \o lines
  BY DEF RowsOf, dots, lines, s, e
<1>6. \A p, q \in Seq(Int) :
        /\ p \o q \in Seq(Int) /\ Len(p \o q) = Len(p) + Len(q)
        /\ Len(p) = 1 => (p \o q)[1] = p[1]
  OBVIOUS
<1>7. dots \o lines \in Seq(Int) /\ Len(dots \o lines) = Len(dots) + Len(lines)
  BY <1>6, <1>3, <1>4
<1>8. i > 1 => (dots \o lines)[1] = Dots
  BY <1>6, <1>3, <1>4
<1>9. ASSUME NEW k \in Nat, d < k, k <= Len(dots \o lines)
      PROVE  (dots \o lines)[k] = s + k - d - 1
  <2>1. k \in 1..(Len(dots) + Len(lines)) /\ k > Len(dots)
    BY <1>2, <1>3, <1>4, <1>7, <1>9
  <2>2. (dots \o lines)[k] = lines[k - d]
    BY <1>3, <1>4, <2>1
  <2>3. k - d \in 1..(e - s + 1)
    BY <1>2, <1>3, <1>4, <1>7, <1>9
  <2> QED
    BY <1>1, <1>3, <1>4, <2>2, <2>3
<1>10. Len(dots \o lines) = d + e - s + 1
  BY <1>1, <1>3, <1>4, <1>7
<1> QED
  BY <1>5, <1>7, <1>8, <1>9, <1>10 DEF s, e, d

(* FormatLinesWithRanges puts dots before every run but the first.         *)
LEMMA FormatIs ==
  ASSUME NEW S, NEW ranges, Len(ranges) \in Nat, RunsOf(ranges, S)
  PROVE  FormatLinesWithRanges(ranges) = Flattened([i \in 1..Len(ranges) |-> RowsOf(ranges, i)])
<1> DEFINE lines(i) == [k \in 1..(ranges[i][2] - ranges[i][1] + 1) |-> ranges[i][1] + k - 1]
           dotted(i) == i > 1 /\ ranges[i][1] > ranges[i - 1][2] + 1
           dots(i) == IF dotted(i) THEN <<Dots>> ELSE <<>>
           some(i) == IF i > 1 THEN <<Dots>> ELSE <<>>
           ps == [i \in 1..Len(ranges) |-> dots(i) \o lines(i)]
           qs == [i \in 1..Len(ranges) |-> some(i) \o lines(i)]
<1>1. ASSUME NEW i \in 1..Len(ranges), i > 1
      PROVE  dotted(i)
  <2>1. i - 1 \in 1..(Len(ranges) - 1) /\ (i - 1) + 1 = i
    BY <1>1
  <2>2. ranges[i][1] > ranges[i - 1][2] + 1
    BY <2>1 DEF RunsOf
  <2> QED
    BY <1>1, <2>2
<1> HIDE DEF lines, dotted
<1>2. \A i \in 1..Len(ranges) : dots(i) = some(i)
  <2> SUFFICES ASSUME NEW i \in 1..Len(ranges) PROVE dots(i) = some(i)
    OBVIOUS
  <2>1. CASE i > 1
    BY <1>1, <2>1
  <2>2. CASE ~(i > 1)
    BY <2>2 DEF dotted
  <2> QED
    BY <2>1, <2>2
<1> HIDE DEF dots, some
<1>3. ps = qs
  BY <1>2
<1>4. FormatLinesWithRanges(ranges) = Flattened(ps)
  BY DEF FormatLinesWithRanges, dots, lines, dotted
<1>5. qs = [i \in 1..Len(ranges) |-> RowsOf(ranges, i)]
  BY DEF RowsOf, some, lines
<1> QED
  BY <1>3, <1>4, <1>5

(* So what it writes are the lines shown, with dots exactly where some are *)
(* left out.                                                               *)
LEMMA RowsAre ==
  ASSUME NEW S, S \subseteq Nat, NEW ranges, Len(ranges) \in Nat, RunsOf(ranges, S), NEW total \in Nat,
         NEW shown, S = shown \cap (0..(total - 1))
  PROVE  RowsRight(FormatLinesWithRanges(ranges), shown, total)
<1> DEFINE ss == [i \in 1..Len(ranges) |-> RowsOf(ranges, i)]
           rows == Flattened(ss)
           s(i) == ranges[i][1]
           e(i) == ranges[i][2]
           extra(i) == IF i > 1 THEN 1 ELSE 0
<1>1. FormatLinesWithRanges(ranges) = rows
  BY FormatIs
<1>2. ASSUME NEW i \in 1..Len(ranges)
      PROVE  s(i) \in Nat /\ e(i) \in Nat /\ s(i) <= e(i) /\ s(i)..e(i) \subseteq S
  BY DEF RunsOf
<1>3. /\ \A i \in 1..(Len(ranges) - 1) : s(i + 1) > e(i) + 1
      /\ \A l \in S : \E i \in 1..Len(ranges) : l \in s(i)..e(i)
  BY DEF RunsOf
<1>4. ASSUME NEW i \in 1..Len(ranges)
      PROVE  /\ RowsOf(ranges, i) \in Seq(Int)
             /\ Len(RowsOf(ranges, i)) = extra(i) + e(i) - s(i) + 1
             /\ i > 1 => RowsOf(ranges, i)[1] = Dots
             /\ \A k \in Nat : extra(i) < k /\ k <= Len(RowsOf(ranges, i))
                                 => RowsOf(ranges, i)[k] = s(i) + k - extra(i) - 1
  BY <1>2, RowsOfRange
<1>5. ss \in Seq(Seq(Int)) /\ Len(ss) = Len(ranges)
  BY <1>4
<1>6. \A i \in 1..Len(ss) : ss[i] = RowsOf(ranges, i)
  BY <1>5
<1> HIDE DEF ss, s, e
<1>7. ASSUME NEW i \in 1..Len(ss)
      PROVE  /\ Len(ss[i]) = extra(i) + e(i) - s(i) + 1 /\ Len(ss[i]) \in Nat /\ Len(ss[i]) > extra(i)
             /\ extra(i) \in Nat /\ extra(i) <= 1 /\ i \in Nat
             /\ i > 1 => ss[i][1] = Dots /\ extra(i) = 1
             /\ ~(i > 1) => extra(i) = 0
             /\ \A k \in Nat : extra(i) < k /\ k <= Len(ss[i]) => ss[i][k] = s(i) + k - extra(i) - 1
  <2>1. i \in 1..Len(ranges)
    BY <1>5
  <2>2. extra(i) \in Nat /\ extra(i) <= 1 /\ (i > 1 => extra(i) = 1) /\ (~(i > 1) => extra(i) = 0) /\ i \in Nat
    BY <2>1
  <2> HIDE DEF extra
  <2>3. Len(ss[i]) = extra(i) + e(i) - s(i) + 1
    BY <1>4, <1>6, <2>1
  <2>4. Len(ss[i]) \in Nat /\ Len(ss[i]) > extra(i)
    BY <1>2, <2>1, <2>2, <2>3
  <2>5. /\ i > 1 => ss[i][1] = Dots
        /\ \A k \in Nat : extra(i) < k /\ k <= Len(ss[i]) => ss[i][k] = s(i) + k - extra(i) - 1
    BY <1>4, <1>6, <2>1
  <2> QED
    BY <2>2, <2>3, <2>4, <2>5
<1> HIDE DEF extra
<1>8. rows \in Seq(Int) /\ Len(rows) \in Nat
  BY <1>5, FlattenedHas
<1>9. PICK f : Lists(rows, f, ss)
  BY <1>5, FlattenedHas
<1> HIDE DEF rows
<1>10. NoneEmpty(ss)
  BY <1>7 DEF NoneEmpty
<1>11. ASSUME NEW n \in 1..Len(rows)
       PROVE  \E a, b \in Nat : f[n] = <<a, b>>
  <2>1. f[n] \in Pairs(ss)
    BY <1>9 DEF Lists
  <2> QED
    BY <1>5, <2>1, PairsAre
<1>12. \A n \in 1..Len(rows), a, b \in Nat : f[n] = <<a, b>> => GoesOn(rows, f, ss, n, a, b)
  BY <1>5, <1>8, <1>9, <1>10, FlattenedNext
<1>13. ASSUME NEW i \in 1..Len(ss), NEW k \in Nat, extra(i) < k, k <= Len(ss[i])
       PROVE  ss[i][k] \in s(i)..e(i) /\ ss[i][k] \in S /\ ss[i][k] # Dots
  <2>1. /\ ss[i][k] = s(i) + k - extra(i) - 1 /\ Len(ss[i]) = extra(i) + e(i) - s(i) + 1
        /\ extra(i) \in Nat
    BY <1>7, <1>13
  <2>2. i \in 1..Len(ranges)
    BY <1>5
  <2>3. /\ s(i) \in Nat /\ e(i) \in Nat /\ s(i) <= e(i)
        /\ s(i)..e(i) \subseteq S
    BY <1>2, <2>2
  <2>4. ss[i][k] \in s(i)..e(i)
    <3>1. \A x, y, d, z \in Nat : d < z /\ z <= d + y - x + 1 => x + z - d - 1 \in x..y
      OBVIOUS
    <3> QED
      BY <1>13, <2>1, <2>3, <3>1
  <2> QED
    BY <2>3, <2>4 DEF Dots
<1>14. ToSet(rows) \ {Dots} = S
  <2>1. ASSUME NEW n \in 1..Len(rows), rows[n] # Dots
        PROVE  rows[n] \in S
    <3>1. PICK a \in Nat, b \in Nat : f[n] = <<a, b>>
      BY <1>11
    <3>2. a \in 1..Len(ss) /\ b \in 1..Len(ss[a]) /\ rows[n] = ss[a][b]
      BY <1>12, <3>1 DEF GoesOn
    <3>3. extra(a) < b
      <4>1. ~(b <= extra(a))
        <5>1. SUFFICES ASSUME b <= extra(a) PROVE FALSE
          OBVIOUS
        <5>2. b = 1 /\ a > 1
          BY <1>7, <3>2, <5>1
        <5> QED
          BY <1>7, <2>1, <3>2, <5>2
      <4> QED
        BY <1>7, <3>2, <4>1
    <3>4. b <= Len(ss[a])
      BY <1>7, <3>2
    <3> QED
      BY <1>13, <3>2, <3>3, <3>4
  <2>2. ASSUME NEW l \in S
        PROVE  l # Dots /\ \E n \in 1..Len(rows) : rows[n] = l
    <3>1. PICK i \in 1..Len(ranges) : l \in s(i)..e(i)
      BY <1>3
    <3>2. i \in 1..Len(ss)
      BY <1>5, <3>1
    <3>3. s(i) \in Nat /\ e(i) \in Nat /\ l \in Nat
      BY <1>2, <3>1
    <3>4. extra(i) \in Nat /\ Len(ss[i]) = extra(i) + e(i) - s(i) + 1
      BY <1>7, <3>2
    <3>5. PICK k \in Nat : k = l - s(i) + extra(i) + 1
      BY <3>1, <3>3, <3>4
    <3>6. extra(i) < k /\ k <= Len(ss[i]) /\ l = s(i) + k - extra(i) - 1
      <4>1. s(i) <= l /\ l <= e(i)
        BY <3>1, <3>3
      <4>2. e(i) \in Nat
        BY <1>2, <3>1
      <4>3. extra(i) < k /\ k <= extra(i) + e(i) - s(i) + 1 /\ l = s(i) + k - extra(i) - 1
        <5>1. PICK x \in Nat, y \in Nat, d \in Nat : x = s(i) /\ y = e(i) /\ d = extra(i)
          BY <3>3, <3>4, <4>2
        <5>2. x <= l /\ l <= y /\ k = l - x + d + 1
          BY <3>5, <4>1, <5>1
        <5>3. d < k /\ k <= d + y - x + 1 /\ l = x + k - d - 1
          BY <3>3, <5>2
        <5> QED
          BY <5>1, <5>3
      <4> QED
        BY <3>4, <4>3
    <3>7. ss[i][k] = l
      BY <1>7, <3>2, <3>6
    <3>8. <<i, k>> \in Pairs(ss)
      <4>1. k \in 1..Len(ss[i])
        BY <3>3, <3>4, <3>6
      <4> QED
        BY <1>5, <3>2, <4>1, PairsAre
    <3>9. PICK n \in 1..Len(rows) : f[n] = <<i, k>>
      BY <1>9, <3>8 DEF Lists
    <3>10. rows[n] = ss[i][k]
      BY <1>12, <3>2, <3>9 DEF GoesOn
    <3>11. l # Dots
      BY <3>3 DEF Dots
    <3> QED
      BY <3>7, <3>10, <3>11
  <2>3. ToSet(rows) = {rows[n] : n \in 1..Len(rows)}
    BY <1>8 DEF ToSet
  <2> QED
    BY <2>1, <2>2, <2>3
<1>15. ASSUME NEW n \in 1..(Len(rows) - 1)
       PROVE  IF rows[n + 1] = Dots THEN n + 2 <= Len(rows) /\ rows[n + 2] > rows[n] + 1
              ELSE rows[n] = Dots \/ rows[n + 1] = rows[n] + 1
  <2>1. n \in 1..Len(rows) /\ n + 1 \in 1..Len(rows) /\ n \in Nat /\ n + 1 <= Len(rows)
    BY <1>8
  <2>2. PICK a \in Nat, b \in Nat : f[n] = <<a, b>>
    BY <1>11, <2>1
  <2>3. /\ a \in 1..Len(ss) /\ b \in 1..Len(ss[a]) /\ rows[n] = ss[a][b]
        /\ b < Len(ss[a]) => f[n + 1] = <<a, b + 1>>
        /\ b = Len(ss[a]) => a + 1 \in 1..Len(ss) /\ f[n + 1] = <<a + 1, 1>>
    BY <1>12, <2>1, <2>2 DEF GoesOn
  <2>4. CASE b < Len(ss[a])
    <3>1. b + 1 \in Nat /\ f[n + 1] = <<a, b + 1>>
      BY <2>3, <2>4
    <3>2. rows[n + 1] = ss[a][b + 1]
      BY <1>12, <2>1, <3>1 DEF GoesOn
    <3>3. /\ Len(ss[a]) \in Nat /\ extra(a) \in Nat /\ extra(a) <= 1 /\ (a > 1 => extra(a) = 1 /\ ss[a][1] = Dots)
          /\ (~(a > 1) => extra(a) = 0)
      BY <1>7, <2>3
    <3>4. extra(a) < b + 1 /\ b + 1 <= Len(ss[a])
      BY <2>3, <2>4, <3>3
    <3>5. rows[n + 1] # Dots
      BY <1>13, <2>3, <3>1, <3>2, <3>4
    <3>6. CASE b > extra(a)
      <4>1. b <= Len(ss[a])
        BY <2>3, <3>3
      <4>2. ss[a][b] = s(a) + b - extra(a) - 1
        BY <1>7, <2>3, <3>6, <4>1
      <4>3. ss[a][b + 1] = s(a) + (b + 1) - extra(a) - 1
        BY <1>7, <2>3, <3>1, <3>4
      <4>4. a \in 1..Len(ranges)
        BY <1>5, <2>3
      <4>5. s(a) \in Nat
        BY <1>2, <4>4
      <4>6. ss[a][b + 1] = ss[a][b] + 1
        BY <3>3, <4>2, <4>3, <4>5
      <4> QED
        BY <2>3, <3>2, <3>5, <4>6
    <3>7. CASE ~(b > extra(a))
      <4>1. b = 1 /\ extra(a) = 1
        BY <2>3, <3>3, <3>7
      <4>2. a > 1
        BY <2>3, <3>3, <4>1
      <4> QED
        BY <2>3, <3>3, <3>5, <4>1, <4>2
    <3> QED
      BY <3>6, <3>7
  <2>5. CASE b = Len(ss[a])
    <3>1. a + 1 \in 1..Len(ss) /\ f[n + 1] = <<a + 1, 1>> /\ a + 1 \in Nat /\ a + 1 > 1
      BY <2>3, <2>5
    <3>2. rows[n + 1] = ss[a + 1][1] /\ (1 < Len(ss[a + 1]) => n + 2 <= Len(rows) /\ f[n + 2] = <<a + 1, 2>>)
      <4>1. /\ rows[n + 1] = ss[a + 1][1]
            /\ 1 < Len(ss[a + 1]) => (n + 1) + 1 <= Len(rows) /\ f[(n + 1) + 1] = <<a + 1, 1 + 1>>
        BY <1>12, <2>1, <3>1 DEF GoesOn
      <4>2. (n + 1) + 1 = n + 2 /\ 1 + 1 = 2
        BY <2>1
      <4> QED
        BY <4>1, <4>2
    <3>3. /\ Len(ss[a + 1]) \in Nat /\ extra(a + 1) = 1 /\ ss[a + 1][1] = Dots /\ Len(ss[a + 1]) > 1
      BY <1>7, <3>1
    <3>4. n + 2 <= Len(rows) /\ f[n + 2] = <<a + 1, 2>>
      BY <3>2, <3>3
    <3>5. n + 2 \in 1..Len(rows) /\ f[n + 2] = <<a + 1, 2>>
      BY <1>8, <2>1, <3>4
    <3>6. rows[n + 2] = ss[a + 1][2]
      <4>1. GoesOn(rows, f, ss, n + 2, a + 1, 2)
        BY <1>12, <3>1, <3>5
      <4> QED
        BY <4>1 DEF GoesOn
    <3>7. a \in 1..(Len(ranges) - 1) /\ a \in 1..Len(ranges) /\ a + 1 \in 1..Len(ranges)
      BY <1>5, <2>3, <3>1
    <3>8. /\ s(a) \in Nat /\ e(a) \in Nat /\ s(a + 1) \in Nat
          /\ s(a + 1) > e(a) + 1
      BY <1>2, <1>3, <3>7
    <3>9. ss[a + 1][2] = s(a + 1)
      <4>1. 2 \in Nat /\ extra(a + 1) < 2 /\ 2 <= Len(ss[a + 1])
        BY <3>3
      <4>2. ss[a + 1][2] = s(a + 1) + 2 - extra(a + 1) - 1
        BY <1>7, <3>1, <4>1
      <4> QED
        BY <3>3, <3>8, <4>2
    <3>10. ss[a][b] = e(a)
      <4>1. /\ extra(a) \in Nat /\ b > extra(a) /\ b = extra(a) + e(a) - s(a) + 1
        BY <1>7, <2>3, <2>5
      <4>2. ss[a][b] = s(a) + b - extra(a) - 1
        BY <1>7, <2>3, <2>5, <4>1
      <4> QED
        BY <3>8, <4>1, <4>2
    <3> QED
      BY <2>3, <3>2, <3>3, <3>5, <3>6, <3>8, <3>9, <3>10
  <2>6. b < Len(ss[a]) \/ b = Len(ss[a])
    <3>1. Len(ss[a]) \in Nat
      BY <1>7, <2>3
    <3> QED
      BY <2>3, <3>1
  <2> QED
    BY <2>4, <2>5, <2>6
<1> QED
  BY <1>1, <1>14, <1>15 DEF RowsRight

(* A listed tree: a symbol is within those above it.                       *)
Listed(ss) ==
  /\ ss \in Seq(Outlines) /\ (ss # <<>> => ss[1].depth = 0)
  /\ \A n \in 1..Len(ss) : /\ AtOrBefore(ss[n].range.from, ss[n].range.to)
                           /\ \A m \in Above(ss, n) : Encloses(ss[m].range, ss[n].range)

(* Their depths and positions are numbers.                                 *)
LEMMA ListedTyped ==
  ASSUME NEW ss, Listed(ss)
  PROVE  /\ Len(ss) \in Nat
         /\ \A n \in 1..Len(ss) : /\ ss[n].depth \in Nat
                                  /\ ss[n].range.from \in Nat \X Nat /\ ss[n].range.to \in Nat \X Nat
<1> DEFINE R == Outlines
<1>1. ss \in Seq(R)
  BY DEF Listed
<1>2. \A o \in R : o.depth \in Nat /\ o.range.from \in Nat \X Nat /\ o.range.to \in Nat \X Nat
  BY DEF Outlines
<1> HIDE DEF R
<1>3. Len(ss) \in Nat /\ \A n \in 1..Len(ss) : ss[n] \in R
  BY <1>1
<1> QED
  BY <1>2, <1>3

(* The order of positions is a partial one.                                *)
LEMMA AtOrBeforeOrders ==
  ASSUME NEW p \in Nat \X Nat, NEW q \in Nat \X Nat, NEW r \in Nat \X Nat
  PROVE  /\ AtOrBefore(p, q) /\ AtOrBefore(q, r) => AtOrBefore(p, r)
         /\ AtOrBefore(p, q) /\ AtOrBefore(q, p) => p = q
<1>1. PICK a \in Nat, b \in Nat : p = <<a, b>>
  OBVIOUS
<1>2. PICK c \in Nat, d \in Nat : q = <<c, d>>
  OBVIOUS
<1>3. PICK e \in Nat, f \in Nat : r = <<e, f>>
  OBVIOUS
<1>4. p = <<a, b>> /\ q = <<c, d>> /\ r = <<e, f>>
  BY <1>1, <1>2, <1>3
<1>5. \A x, y \in Nat : <<x, y>>[1] = x /\ <<x, y>>[2] = y
  OBVIOUS
<1>6. /\ AtOrBefore(p, q) <=> a < c \/ (a = c /\ b <= d)
      /\ AtOrBefore(q, p) <=> c < a \/ (c = a /\ d <= b)
      /\ AtOrBefore(q, r) <=> c < e \/ (c = e /\ d <= f)
      /\ AtOrBefore(p, r) <=> a < e \/ (a = e /\ b <= f)
  BY <1>4, <1>5 DEF AtOrBefore
<1> QED
  BY <1>4, <1>6

(* What contains a range contains the positions in it,                     *)
LEMMA EnclosesContains ==
  ASSUME NEW outer, outer.from \in Nat \X Nat, outer.to \in Nat \X Nat,
         NEW inner, inner.from \in Nat \X Nat, inner.to \in Nat \X Nat, NEW p \in Nat \X Nat,
         Encloses(outer, inner), ContainsPosition(inner, p)
  PROVE  ContainsPosition(outer, p)
<1>1. /\ AtOrBefore(outer.from, inner.from) /\ AtOrBefore(inner.to, outer.to)
      /\ AtOrBefore(inner.from, p) /\ AtOrBefore(p, inner.to) /\ p # inner.to
  BY DEF Encloses, ContainsPosition
<1>2. AtOrBefore(outer.from, p) /\ AtOrBefore(p, outer.to)
  BY <1>1, AtOrBeforeOrders
<1>3. p # outer.to
  BY <1>1, AtOrBeforeOrders
<1> QED
  BY <1>2, <1>3 DEF ContainsPosition

(* so what a symbol is below contains the positions that it contains.      *)
LEMMA AboveContains ==
  ASSUME NEW ss, Listed(ss), NEW p \in Nat \X Nat, NEW q \in Containing(ss, p), NEW m \in Above(ss, q)
  PROVE  m \in Containing(ss, p)
<1>1. q \in 1..Len(ss) /\ ContainsPosition(ss[q].range, p)
  BY DEF Containing
<1>2. m \in 1..Len(ss) /\ Encloses(ss[m].range, ss[q].range)
  <2>1. Len(ss) \in Nat /\ m \in 1..(q - 1)
    BY ListedTyped DEF Above
  <2> QED
    BY <1>1, <2>1 DEF Listed
<1>3. /\ ss[m].range.from \in Nat \X Nat /\ ss[m].range.to \in Nat \X Nat
      /\ ss[q].range.from \in Nat \X Nat /\ ss[q].range.to \in Nat \X Nat
  BY <1>1, <1>2, ListedTyped
<1>4. ContainsPosition(ss[m].range, p)
  BY <1>1, <1>2, <1>3, EnclosesContains
<1> QED
  BY <1>2, <1>4 DEF Containing

(* A symbol that the search comes to: it, and each that is above it, is the*)
(* first of its siblings to contain the position.                          *)
FirstOf(ss, p, n) == n \in Containing(ss, p) /\ \A m \in Elder(ss, n) : m \notin Containing(ss, p)

(* The symbols that the search comes to: each, and each above it, is the   *)
(* first of its like.                                                      *)
Met(ss, p) == {n \in 1..Len(ss) : \A m \in Above(ss, n) \cup {n} : FirstOf(ss, p, m)}

(* The search ends with the last symbol that it comes to.                  *)
LEMMA InnermostIs ==
  ASSUME NEW ss, Len(ss) \in Nat, NEW p
  PROVE  /\ Met(ss, p) = {} => Innermost(ss, p) = 0
         /\ Met(ss, p) # {} => Innermost(ss, p) \in Met(ss, p) /\ \A m \in Met(ss, p) : m <= Innermost(ss, p)
<1> DEFINE first(n) == /\ ContainsPosition(ss[n].range, p)
                       /\ \A m \in Elder(ss, n) : ~ContainsPosition(ss[m].range, p)
           met == {n \in 1..Len(ss) : \A m \in Above(ss, n) \cup {n} : first(m)}
<1>1. ASSUME NEW n \in 1..Len(ss)
      PROVE  first(n) <=> FirstOf(ss, p, n)
  <2>1. \A m \in Elder(ss, n) : m \in 1..Len(ss)
    BY DEF Elder
  <2> QED
    BY <2>1 DEF FirstOf, Containing
<1>2. \A n \in 1..Len(ss) : \A m \in Above(ss, n) \cup {n} : m \in 1..Len(ss)
  BY DEF Above
<1> HIDE DEF first
<1>3. met = Met(ss, p)
  BY <1>1, <1>2 DEF Met
<1>4. Innermost(ss, p) = IF met = {} THEN 0 ELSE CHOOSE n \in met : \A m \in met : m <= n
  BY DEF Innermost, first
<1> HIDE DEF met
<1>5. ASSUME met # {}
      PROVE  \E n \in met : \A m \in met : m <= n
  <2>1. \A n \in met : n \in 1..Len(ss)
    BY <1>3 DEF Met
  <2>2. PICK T : T = {Len(ss) - n : n \in met}
    OBVIOUS
  <2>3. T \subseteq Nat /\ T # {}
    BY <1>5, <2>1, <2>2
  <2>4. PICK t \in T : \A y \in T : t <= y
    BY <2>3, Least
  <2>5. PICK n \in met : t = Len(ss) - n
    BY <2>2, <2>4
  <2>6. ASSUME NEW m \in met
        PROVE  m <= n
    <3>1. Len(ss) - m \in T
      BY <2>2
    <3>2. t <= Len(ss) - m
      BY <2>4, <3>1
    <3> QED
      BY <2>1, <2>5, <3>2
  <2> QED
    BY <2>6
<1>6. met # {} => Innermost(ss, p) \in met /\ \A m \in met : m <= Innermost(ss, p)
  BY <1>4, <1>5
<1> QED
  BY <1>3, <1>4, <1>6

(* The first symbol of the top level that contains a position is met.      *)
LEMMA SomeMet ==
  ASSUME NEW ss, Listed(ss), NEW p \in Nat \X Nat, Containing(ss, p) # {}
  PROVE  Met(ss, p) # {}
<1>1. Len(ss) \in Nat /\ \A n \in 1..Len(ss) : ss[n].depth \in Nat
  BY ListedTyped
<1>2. PICK q \in Containing(ss, p) : TRUE
  OBVIOUS
<1>3. q \in 1..Len(ss)
  BY DEF Containing
<1>4. ss[1].depth = 0
  BY <1>1, <1>3 DEF Listed
<1>5. PICK B : B = {b \in Nat : q - b \in 1..Len(ss) /\ ss[q - b].depth = 0}
  OBVIOUS
<1>6. B \subseteq Nat /\ B # {}
  <2>1. q - 1 \in Nat /\ q - (q - 1) = 1 /\ 1 \in 1..Len(ss)
    BY <1>1, <1>3
  <2> QED
    BY <1>4, <1>5, <2>1
<1>7. PICK b \in B : \A y \in B : b <= y
  BY <1>6, Least
<1>8. PICK r \in 1..Len(ss) : r = q - b /\ ss[r].depth = 0
  BY <1>5, <1>7
<1>9. r <= q /\ \A k \in (r + 1)..q : ss[k].depth > 0
  <2>1. b \in Nat
    BY <1>6
  <2>2. ASSUME NEW k \in (r + 1)..q
        PROVE  ss[k].depth > 0
    <3>1. k \in 1..Len(ss) /\ q - k \in Nat /\ q - (q - k) = k /\ q - k < b
      BY <1>1, <1>3, <1>8, <2>1
    <3>2. q - k \notin B
      BY <1>6, <1>7, <2>1, <3>1
    <3>3. ss[k].depth # 0
      BY <1>5, <3>1, <3>2
    <3> QED
      BY <1>1, <3>1, <3>3
  <2> QED
    BY <1>1, <1>3, <1>8, <2>1, <2>2
<1>10. r \in Containing(ss, p)
  <2>1. CASE r = q
    BY <2>1
  <2>2. CASE r # q
    <3>1. r \in Above(ss, q)
      BY <1>1, <1>3, <1>8, <1>9, <2>2 DEF Above
    <3> QED
      BY <3>1, AboveContains
  <2> QED
    BY <2>1, <2>2
<1>11. PICK R : R = {i \in Containing(ss, p) : ss[i].depth = 0}
  OBVIOUS
<1>12. R \subseteq Nat /\ r \in R
  BY <1>1, <1>8, <1>10, <1>11 DEF Containing
<1>13. PICK t \in R : \A y \in R : t <= y
  BY <1>12, Least
<1>14. t \in 1..Len(ss) /\ t \in Containing(ss, p) /\ ss[t].depth = 0
  BY <1>11, <1>13 DEF Containing
<1>15. ASSUME NEW m \in Above(ss, t)
       PROVE  FALSE
  <2>1. m \in 1..(t - 1) /\ \A k \in (m + 1)..t : ss[k].depth > ss[m].depth
    BY DEF Above
  <2>2. m \in 1..Len(ss) /\ t \in (m + 1)..t
    BY <1>1, <1>14, <2>1
  <2>3. ss[m].depth \in Nat
    BY <1>1, <2>2
  <2>4. ss[t].depth > ss[m].depth
    BY <2>1, <2>2
  <2> QED
    BY <1>14, <2>3, <2>4
<1>16. ASSUME NEW m \in Elder(ss, t)
       PROVE  m \notin Containing(ss, p)
  <2>1. m \in 1..(t - 1) /\ ss[m].depth = 0
    BY <1>14 DEF Elder
  <2>2. ~(t <= m)
    BY <1>1, <1>14, <2>1
  <2> QED
    BY <1>11, <1>13, <2>1, <2>2
<1>17. t \in Met(ss, p)
  BY <1>14, <1>15, <1>16 DEF Met, FirstOf
<1> QED
  BY <1>17

(* The last that is met is above no other symbol that contains the         *)
(* position: the first such below it would be met.                         *)
LEMMA LastMet ==
  ASSUME NEW ss, Listed(ss), NEW p \in Nat \X Nat, NEW n \in Met(ss, p), \A m \in Met(ss, p) : m <= n,
         NEW q \in Containing(ss, p)
  PROVE  n \notin Above(ss, q)
<1>1. Len(ss) \in Nat /\ \A i \in 1..Len(ss) : ss[i].depth \in Nat
  BY ListedTyped
<1>2. n \in 1..Len(ss) /\ \A m \in Above(ss, n) \cup {n} : FirstOf(ss, p, m)
  BY DEF Met
<1> SUFFICES ASSUME n \in Above(ss, q) PROVE FALSE
  OBVIOUS
<1>3. PICK K : K = {i \in Containing(ss, p) : n \in Above(ss, i)}
  OBVIOUS
<1>4. K \subseteq Nat /\ q \in K
  BY <1>1, <1>3 DEF Containing
<1>5. PICK k \in K : \A y \in K : k <= y
  BY <1>4, Least
<1>6. k \in Containing(ss, p) /\ k \in 1..Len(ss) /\ n \in Above(ss, k)
  BY <1>3, <1>5 DEF Containing
<1>7. n < k /\ \A i \in (n + 1)..k : ss[i].depth > ss[n].depth
  BY <1>1, <1>2, <1>6 DEF Above
<1>8. ASSUME NEW i \in (n + 1)..(k - 1)
      PROVE  i \notin Containing(ss, p)
  <2>1. i \in Nat /\ n \in 1..(i - 1) /\ (n + 1)..i \subseteq (n + 1)..k /\ ~(k <= i)
    BY <1>1, <1>2, <1>6
  <2>2. n \in Above(ss, i)
    BY <1>7, <2>1 DEF Above
  <2> QED
    BY <1>3, <1>5, <2>1, <2>2
<1>9. ASSUME NEW m \in Above(ss, k)
      PROVE  FirstOf(ss, p, m)
  <2>1. m \in 1..(k - 1) /\ \A i \in (m + 1)..k : ss[i].depth > ss[m].depth
    BY DEF Above
  <2>2. CASE m < n
    <3>1. m \in 1..(n - 1) /\ (m + 1)..n \subseteq (m + 1)..k
      BY <1>1, <1>2, <1>6, <1>7, <2>1, <2>2
    <3>2. m \in Above(ss, n)
      BY <2>1, <3>1 DEF Above
    <3> QED
      BY <1>2, <3>2
  <2>3. CASE m = n
    BY <1>2, <2>3
  <2>4. CASE m > n
    <3>1. m \in (n + 1)..(k - 1)
      BY <1>1, <1>2, <1>6, <2>1, <2>4
    <3>2. m \in Containing(ss, p)
      BY <1>6, AboveContains
    <3> QED
      BY <1>8, <3>1, <3>2
  <2> QED
    BY <1>1, <1>2, <1>6, <2>1, <2>2, <2>3, <2>4
<1>10. FirstOf(ss, p, k)
  <2> SUFFICES ASSUME NEW m \in Elder(ss, k) PROVE m \notin Containing(ss, p)
    BY <1>6 DEF FirstOf
  <2>1. m \in 1..(k - 1) /\ \A i \in m..k : ss[i].depth >= ss[k].depth
    BY DEF Elder
  <2>2. ASSUME m <= n
        PROVE  FALSE
    <3>1. n \in m..k /\ k \in (n + 1)..k
      BY <1>1, <1>2, <1>6, <1>7, <2>1, <2>2
    <3>2. ss[n].depth >= ss[k].depth /\ ss[k].depth > ss[n].depth
      BY <1>7, <2>1, <3>1
    <3>3. ss[n].depth \in Nat /\ ss[k].depth \in Nat
      BY <1>1, <1>2, <1>6
    <3> QED
      BY <3>2, <3>3
  <2>3. m \in (n + 1)..(k - 1)
    BY <1>1, <1>2, <1>6, <2>1, <2>2
  <2> QED
    BY <1>8, <2>3
<1>11. k \in Met(ss, p)
  BY <1>6, <1>9, <1>10 DEF Met
<1>12. k <= n
  BY <1>11
<1> QED
  BY <1>1, <1>2, <1>6, <1>7, <1>12

(* The symbol found is the one at the position, or one of the name asked   *)
(* for within its range.                                                   *)
LEMMA RefinedIs ==
  ASSUME NEW ss, Listed(ss), NEW n \in 1..Len(ss), NEW name
  PROVE  /\ Refined(ss, n, name) \in 1..Len(ss)
         /\ \/ Refined(ss, n, name) = n
            \/ /\ Encloses(ss[n].range, ss[Refined(ss, n, name)].range)
               /\ ss[Refined(ss, n, name)].name = name
<1> DEFINE tops == {i \in 1..(Len(ss) - 1) : /\ ss[i].depth = 0 /\ ss[i + 1].depth > 0
                                             /\ ss[i].range = ss[n].range}
           named == {q \in 1..Len(ss) : First(tops) \in Above(ss, q) /\ ss[q].name = name}
<1>1. Len(ss) \in Nat
  BY ListedTyped
<1>2. Refined(ss, n, name) = IF name = "" \/ tops = {} \/ named = {} THEN n ELSE First(named)
  BY DEF Refined
<1>3. ASSUME tops # {}, named # {}
      PROVE  /\ First(named) \in 1..Len(ss) /\ ss[First(named)].name = name
             /\ Encloses(ss[n].range, ss[First(named)].range)
  <2>1. tops \in SUBSET (1..Len(ss)) /\ named \in SUBSET (1..Len(ss))
    BY <1>1
  <2>2. First(tops) \in tops
    BY <1>1, <1>3, <2>1, FirstRight
  <2>3. First(named) \in named
    BY <1>1, <1>3, <2>1, FirstRight
  <2>4. ss[First(tops)].range = ss[n].range
    BY <2>2
  <2>5. First(named) \in 1..Len(ss) /\ First(tops) \in Above(ss, First(named)) /\ ss[First(named)].name = name
    BY <2>3
  <2>6. Encloses(ss[First(tops)].range, ss[First(named)].range)
    BY <2>5 DEF Listed
  <2> QED
    BY <2>4, <2>5, <2>6
<1> HIDE DEF tops, named
<1> QED
  BY <1>2, <1>3

(* A bracket is closed on its line or a later one of the file.             *)
Closed(total, brackets) == \A l \in 0..(total - 1) : brackets[l] \in l..(total - 1)

(* A definition does not end before it starts.                             *)
LEMMA DefinitionBounds ==
  ASSUME NEW ss, Listed(ss), NEW p \in Nat \X Nat, NEW name, NEW total \in Nat, NEW brackets, Closed(total, brackets),
         NEW def, def = GetFullDefinition(ss, p, name, total, brackets), def.ok
  PROVE  def.first \in Nat /\ def.last \in Nat /\ def.first <= def.last
<1> DEFINE n == Innermost(ss, p)
           k == Refined(ss, n, name)
<1>1. Len(ss) \in Nat
  BY ListedTyped
<1>2. n # 0 => n \in 1..Len(ss)
  BY <1>1, InnermostIs DEF Met
<1>3. def = IF n = 0 THEN [ok |-> FALSE] ELSE WholeLines(ss[k].range, total, brackets)
  BY DEF GetFullDefinition, DefinitionAt
<1> HIDE DEF n
<1>4. n # 0
  BY <1>3
<1>5. k \in 1..Len(ss)
  BY <1>2, <1>4, RefinedIs
<1> HIDE DEF k
<1>6. ss[k].range.from \in Nat \X Nat /\ ss[k].range.to \in Nat \X Nat
  BY <1>5, ListedTyped
<1>7. AtOrBefore(ss[k].range.from, ss[k].range.to)
  BY <1>5 DEF Listed
<1>8. def = WholeLines(ss[k].range, total, brackets)
  BY <1>3, <1>4
<1>9. PICK r : r = ss[k].range
  OBVIOUS
<1>10. r.from[1] \in Nat /\ r.to[1] \in Nat /\ r.from[1] <= r.to[1]
  BY <1>6, <1>7, <1>9 DEF AtOrBefore
<1>11. ~(r.to[1] >= total)
  BY <1>8, <1>9 DEF WholeLines
<1>12. def = [ok |-> TRUE, first |-> r.from[1], last |-> brackets[r.to[1]]]
  BY <1>8, <1>9, <1>11 DEF WholeLines
<1>13. r.to[1] \in 0..(total - 1)
  BY <1>10, <1>11
<1>14. brackets[r.to[1]] \in r.to[1]..(total - 1)
  BY <1>13 DEF Closed
<1>15. brackets[r.to[1]] \in Nat /\ r.from[1] <= brackets[r.to[1]]
  BY <1>10, <1>14
<1> QED
  BY <1>10, <1>12, <1>15

(* What GetFullDefinition shows is what DefinitionRight says.              *)
LEMMA DefinitionIsRight ==
  ASSUME NEW ss, Listed(ss), NEW p \in Nat \X Nat, NEW name, NEW total \in Nat, NEW brackets, Closed(total, brackets)
  PROVE  DefinitionRight(ss, Containing(ss, p), Innermost(ss, p), Refined(ss, Innermost(ss, p), name), name,
                         GetFullDefinition(ss, p, name, total, brackets))
<1> DEFINE n == Innermost(ss, p)
           def == GetFullDefinition(ss, p, name, total, brackets)
<1>1. Len(ss) \in Nat
  BY ListedTyped
<1>2. /\ Met(ss, p) = {} => n = 0
      /\ Met(ss, p) # {} => n \in Met(ss, p) /\ \A m \in Met(ss, p) : m <= n
  BY <1>1, InnermostIs
<1> HIDE DEF n
<1>3. \A m \in Met(ss, p) : m \in 1..Len(ss) /\ m # 0 /\ m \in Containing(ss, p)
  BY <1>1 DEF Met, FirstOf
<1>4. Containing(ss, p) # {} => Met(ss, p) # {}
  BY SomeMet
<1>5. (n = 0) = (Containing(ss, p) = {})
  BY <1>2, <1>3, <1>4
<1>6. ASSUME n # 0
      PROVE  /\ n \in Containing(ss, p) /\ \A q \in Containing(ss, p) : n \notin Above(ss, q)
             /\ \/ Refined(ss, n, name) = n
                \/ Encloses(ss[n].range, ss[Refined(ss, n, name)].range) /\ ss[Refined(ss, n, name)].name = name
  <2>1. n \in Met(ss, p) /\ \A m \in Met(ss, p) : m <= n
    BY <1>2, <1>6
  <2>2. n \in 1..Len(ss) /\ n \in Containing(ss, p)
    BY <1>3, <2>1
  <2>3. \A q \in Containing(ss, p) : n \notin Above(ss, q)
    BY <2>1, LastMet
  <2> QED
    BY <2>2, <2>3, RefinedIs
<1>7. ASSUME def.ok
      PROVE  def.first <= def.last
  BY <1>7, DefinitionBounds
<1> HIDE DEF def
<1> QED
  BY <1>5, <1>6, <1>7 DEF DefinitionRight, n, def

(* Each place is on one of the lines to show.                              *)
LEMMA ShownLines ==
  ASSUME NEW ss, Listed(ss), NEW places \in Seq(Nat \X Nat), NEW total \in Nat, NEW context \in Nat,
         NEW brackets, Closed(total, brackets)
  PROVE  LET shown == GetLineRangesToDisplay(ss, places, total, context, brackets)
         IN  shown \in SUBSET Int /\ \A p \in ToSet(places) : p[1] \in shown
<1> DEFINE around(p) == LinesAround(GetFullDefinition(ss, p, "", total, brackets), p[1], total, context)
           shown == GetLineRangesToDisplay(ss, places, total, context, brackets)
<1>1. shown = UNION {around(p) : p \in ToSet(places)}
  BY DEF GetLineRangesToDisplay
<1>2. ASSUME NEW p \in ToSet(places)
      PROVE  around(p) \in SUBSET Int /\ p[1] \in around(p)
  <2> DEFINE def == GetFullDefinition(ss, p, "", total, brackets)
             near == (0..(total - 1)) \cap Around(p[1], context)
  <2>1. p \in Nat \X Nat /\ p[1] \in Nat
    BY DEF ToSet
  <2>2. near \subseteq Int
    OBVIOUS
  <2>3. def.ok => def.first \in Nat /\ def.last \in Nat
    BY <2>1, DefinitionBounds
  <2>4. around(p) = IF def.ok THEN {def.first, p[1]} \cup (near \cap def.first..def.last) ELSE {p[1]} \cup near
    BY DEF LinesAround
  <2> HIDE DEF def, near, around
  <2>5. CASE def.ok
    BY <2>1, <2>2, <2>3, <2>4, <2>5
  <2>6. CASE ~def.ok
    <3>1. around(p) = {p[1]} \cup near
      BY <2>4, <2>6
    <3>2. p[1] \in around(p) /\ \A x \in around(p) : x = p[1] \/ x \in near
      BY <3>1
    <3>3. ASSUME NEW x \in around(p)
          PROVE  x \in Int
      <4>1. CASE x \in near
        BY <2>2, <4>1
      <4>2. CASE x = p[1]
        <5>1. \A a \in Nat : a \in Int
          OBVIOUS
        <5> QED
          BY <2>1, <4>2, <5>1
      <4> QED
        BY <3>2, <4>1, <4>2
    <3> QED
      BY <3>2, <3>3
  <2> QED
    BY <2>5, <2>6
<1> HIDE DEF around
<1> QED
  BY <1>1, <1>2

(* LinesRight holds of every question about ranges.                        *)
LEMMA LinesRightThere ==
  ASSUME question.topic = "ranges", RangesAsked
  PROVE  LinesRight
<1> DEFINE ss == question.symbols
           places == question.places
           p == places[1]
           total == question.total
           context == question.context
           brackets == question.brackets
           shown == GetLineRangesToDisplay(ss, places, total, context, brackets)
<1>1. /\ Listed(ss) /\ places \in Seq(Nat \X Nat) /\ places # <<>> /\ total \in Nat /\ context \in Nat
      /\ Closed(total, brackets)
  BY DEF RangesAsked, Listed, Closed
<1>2. LinesRight <=>
        /\ RowsRight(FormatLinesWithRanges(ConvertLinesToRanges(shown, total)), shown, total)
        /\ {at[1] : at \in ToSet(places)} \cap 0..(total - 1) \subseteq shown
        /\ DefinitionRight(ss, Containing(ss, p), Innermost(ss, p), Refined(ss, Innermost(ss, p), question.name),
                           question.name, GetFullDefinition(ss, p, question.name, total, brackets))
  BY DEF LinesRight
<1>3. p \in Nat \X Nat
  BY <1>1
<1>4. shown \in SUBSET Int /\ \A at \in ToSet(places) : at[1] \in shown
  BY <1>1, ShownLines
<1>5. DefinitionRight(ss, Containing(ss, p), Innermost(ss, p), Refined(ss, Innermost(ss, p), question.name),
                      question.name, GetFullDefinition(ss, p, question.name, total, brackets))
  BY <1>1, <1>3, DefinitionIsRight
<1> HIDE DEF shown, total
<1>6. /\ RunsOf(ConvertLinesToRanges(shown, total), shown \cap 0..(total - 1))
      /\ Len(ConvertLinesToRanges(shown, total)) \in Nat
  BY <1>1, <1>4, RangesRight
<1>7. shown \cap 0..(total - 1) \subseteq Nat
  OBVIOUS
<1>8. RowsRight(FormatLinesWithRanges(ConvertLinesToRanges(shown, total)), shown, total)
  BY <1>1, <1>6, <1>7, RowsAre
<1>9. {at[1] : at \in ToSet(places)} \cap 0..(total - 1) \subseteq shown
  BY <1>4
<1> QED
  BY <1>2, <1>5, <1>8, <1>9 DEF shown, total

(* Finitely many numbers have a bound.                                     *)
LEMMA Bounded ==
  ASSUME NEW n \in Nat, NEW f, \A i \in 1..n : f[i] \in Nat
  PROVE  \E m \in Nat : \A i \in 1..n : f[i] < m
<1>1. PICK T : T = {k \in Nat : k <= n => \E m \in Nat : \A i \in 1..k : f[i] < m}
  OBVIOUS
<1>2. 0 \in T
  BY <1>1
<1>3. ASSUME NEW k \in T
      PROVE  k + 1 \in T
  <2>1. k \in Nat /\ k + 1 \in Nat
    BY <1>1
  <2>2. SUFFICES ASSUME k + 1 <= n PROVE \E m \in Nat : \A i \in 1..(k + 1) : f[i] < m
    BY <1>1, <2>1
  <2>3. k <= n
    BY <2>1, <2>2
  <2>4. PICK m \in Nat : \A i \in 1..k : f[i] < m
    BY <1>1, <2>3
  <2>5. k + 1 \in 1..n
    BY <2>1, <2>2
  <2>6. PICK x \in Nat : x = f[k + 1]
    BY <2>5
  <2>7. ASSUME NEW i \in 1..(k + 1)
        PROVE  f[i] < m + x + 1
    <3>1. CASE i = k + 1
      BY <2>6, <3>1
    <3>2. CASE i # k + 1
      <4>1. i \in 1..k /\ i \in 1..n
        BY <2>1, <2>2, <3>2
      <4>2. f[i] < m /\ f[i] \in Nat
        BY <2>4, <4>1
      <4> QED
        BY <2>6, <4>2
    <3> QED
      BY <3>1, <3>2
  <2> QED
    BY <2>6, <2>7
<1>4. T \subseteq Nat
  BY <1>1
<1>5. n \in T
  BY <1>2, <1>3, <1>4, Induction
<1> QED
  BY <1>1, <1>5

(* The groups show the references from..to: e has the place of each among  *)
(* the references.                                                         *)
PartsOf(groups) == [g \in 1..Len(groups) |-> groups[g].locs]

(* Each place of the groups has one of the references from..to, and each   *)
(* of these is at one place.                                               *)
Shows(e, groups, refs, from, to) ==
  LET L == PartsOf(groups)
  IN  /\ \A p \in Pairs(L) : e[p] \in from..to /\ refs[e[p]] = L[p[1]][p[2]]
      /\ \A p, q \in Pairs(L) : e[p] = e[q] => p = q
      /\ \A i \in from..to : \E p \in Pairs(L) : e[p] = i

(* The references of a page by file.                                       *)
Grouped(shown) ==
  LET files == Ascending({shown[i].file : i \in 1..Len(shown)})
  IN  [i \in 1..Len(files) |-> [file |-> files[i], locs |-> Filtered(shown, LAMBDA l : l.file = files[i])]]

(* Each file has its group, with the references that are in it.            *)
LEMMA GroupedIs ==
  ASSUME NEW shown \in Seq(References)
  PROVE  \E files : /\ files \in Seq(Nat)
                    /\ \A i \in 1..Len(shown) : \E g \in 1..Len(files) : files[g] = shown[i].file
                    /\ \A g, k \in 1..Len(files) : files[g] = files[k] => g = k
                    /\ Len(Grouped(shown)) = Len(files)
                    /\ \A g \in 1..Len(files) :
                         Grouped(shown)[g].locs = Chosen(shown, {i \in 1..Len(shown) : shown[i].file = files[g]})
<1> DEFINE R == References
           B == {shown[i].file : i \in 1..Len(shown)}
           files == Ascending(B)
           locs(f) == Filtered(shown, LAMBDA l : l.file = f)
<1>1. \A r \in R : r.file \in Nat
  BY DEF References
<1> HIDE DEF R
<1>2. Len(shown) \in Nat /\ \A i \in 1..Len(shown) : shown[i] \in R
  BY DEF R
<1>3. \A i \in 1..Len(shown) : shown[i].file \in Nat
  BY <1>1, <1>2
<1>4. PICK m \in Nat : \A i \in 1..Len(shown) : shown[i].file < m
  <2> DEFINE f == [i \in 1..Len(shown) |-> shown[i].file]
  <2>1. \A i \in 1..Len(shown) : f[i] = shown[i].file
    OBVIOUS
  <2> HIDE DEF f
  <2>2. PICK m \in Nat : \A i \in 1..Len(shown) : f[i] < m
    BY <1>2, <1>3, <2>1, Bounded
  <2> QED
    BY <2>1, <2>2
<1>5. B \in SUBSET (0..(m - 1)) /\ B \subseteq Nat /\ \A i \in 1..Len(shown) : shown[i].file \in B
  <2>1. ASSUME NEW i \in 1..Len(shown)
        PROVE  shown[i].file \in 0..(m - 1)
    BY <1>3, <1>4
  <2> QED
    BY <1>3, <2>1
<1>6. Grouped(shown) = [i \in 1..Len(files) |-> [file |-> files[i], locs |-> locs(files[i])]]
  BY DEF Grouped
<1>7. \A f : locs(f) = Chosen(shown, {i \in 1..Len(shown) : shown[i].file = f})
  BY DEF Filtered
<1> HIDE DEF B, locs
<1>8. /\ files \in Seq(B) /\ Len(files) \in Nat
      /\ \A l \in B : \E n \in 1..Len(files) : files[n] = l
      /\ \A a, b \in 1..Len(files) : a < b => files[a] < files[b]
  <2>1. /\ files \in Seq(B)
        /\ \A l \in B : \E n \in 1..Len(files) : files[n] = l
        /\ \A a, b \in 1..Len(files) : a < b => files[a] < files[b]
    BY <1>5, AscendingRight
  <2> QED
    BY <2>1
<1> HIDE DEF files
<1>9. \A a \in 1..Len(files) : files[a] \in B /\ files[a] \in Nat
  <2>1. \A a \in 1..Len(files) : files[a] \in B
    BY <1>8
  <2>2. \A x \in B : x \in Nat
    BY <1>5
  <2> QED
    BY <2>1, <2>2
<1>10. files \in Seq(Nat)
  <2>1. \A x \in B : x \in Nat
    BY <1>5
  <2>2. \A S, T : (\A x \in S : x \in T) => \A s \in Seq(S) : s \in Seq(T)
    OBVIOUS
  <2> QED
    BY <1>8, <2>1, <2>2
<1>11. \A i \in 1..Len(shown) : \E g \in 1..Len(files) : files[g] = shown[i].file
  BY <1>5, <1>8
<1>12. ASSUME NEW g \in 1..Len(files), NEW k \in 1..Len(files), files[g] = files[k]
       PROVE  g = k
  <2>1. files[g] \in Nat /\ ~(files[g] < files[k]) /\ ~(files[k] < files[g])
    BY <1>9, <1>12
  <2>2. ~(g < k) /\ ~(k < g)
    BY <1>8, <2>1
  <2> QED
    BY <1>8, <2>2
<1>13. Len(Grouped(shown)) = Len(files)
  BY <1>6, <1>8
<1>14. \A g \in 1..Len(files) :
         Grouped(shown)[g].locs = Chosen(shown, {i \in 1..Len(shown) : shown[i].file = files[g]})
  BY <1>6, <1>7
<1> QED
  BY <1>10, <1>11, <1>12, <1>13, <1>14

(* So the groups of a page show the references of the page.                *)
LEMMA GroupedShows ==
  ASSUME NEW refs \in Seq(References), NEW at \in Nat, NEW to \in Nat, at <= to, to <= Len(refs)
  PROVE  /\ Len(Grouped(SubSeq(refs, at + 1, to))) \in Nat
         /\ \E e : Shows(e, Grouped(SubSeq(refs, at + 1, to)), refs, at + 1, to)
<1> DEFINE R == References
           shown == SubSeq(refs, at + 1, to)
<1>1. Len(refs) \in Nat /\ refs \in Seq(R)
  OBVIOUS
<1> HIDE DEF R
<1>2. shown \in Seq(R) /\ Len(shown) = to - at /\ \A i \in 1..(to - at) : shown[i] = refs[at + i]
  BY <1>1
<1> HIDE DEF shown
<1>3. shown \in Seq(References)
  BY <1>2 DEF R
<1>4. PICK files : /\ files \in Seq(Nat)
                   /\ \A i \in 1..Len(shown) : \E g \in 1..Len(files) : files[g] = shown[i].file
                   /\ \A g, k \in 1..Len(files) : files[g] = files[k] => g = k
                   /\ Len(Grouped(shown)) = Len(files)
                   /\ \A g \in 1..Len(files) :
                        Grouped(shown)[g].locs = Chosen(shown, {i \in 1..Len(shown) : shown[i].file = files[g]})
  BY <1>3, GroupedIs
<1> DEFINE J(g) == {i \in 1..Len(shown) : shown[i].file = files[g]}
           L == PartsOf(Grouped(shown))
           e == [p \in Pairs(L) |-> at + Nth(J(p[1]), p[2])]
<1>5. Len(files) \in Nat /\ Len(shown) \in Nat
  BY <1>2, <1>4
<1>6. \A g \in 1..Len(files) : J(g) \in SUBSET (1..Len(shown)) /\ \A i \in J(g) : shown[i].file = files[g]
  OBVIOUS
<1>7. \A g \in 1..Len(files), i \in 1..Len(shown) : shown[i].file = files[g] => i \in J(g)
  OBVIOUS
<1>8. /\ Len(L) = Len(files)
      /\ \A g \in 1..Len(files) : L[g] = Chosen(shown, J(g))
  BY <1>4, <1>5 DEF PartsOf
<1>9. L = [g \in 1..Len(files) |-> L[g]]
  BY <1>4 DEF PartsOf
<1> HIDE DEF J, L
<1>10. ASSUME NEW g \in 1..Len(files)
       PROVE  /\ L[g] \in Seq(R) /\ Len(L[g]) = Cardinality(J(g)) /\ Len(L[g]) \in Nat
              /\ \A k \in 1..Len(L[g]) : /\ L[g][k] = shown[Nth(J(g), k)] /\ Nth(J(g), k) \in J(g)
                                         /\ Nth(J(g), k) \in 1..Len(shown) /\ Rank(J(g), Nth(J(g), k)) = k
              /\ \A i \in J(g) : Rank(J(g), i) \in 1..Len(L[g]) /\ Nth(J(g), Rank(J(g), i)) = i
  <2>1. J(g) \in SUBSET (1..Len(shown))
    BY <1>6
  <2>2. /\ Chosen(shown, J(g)) \in Seq(R) /\ Len(Chosen(shown, J(g))) = Cardinality(J(g))
        /\ \A k \in 1..Cardinality(J(g)) : Chosen(shown, J(g))[k] = shown[Nth(J(g), k)]
    BY <1>2, <2>1, ChosenRight
  <2>3. /\ \A k \in 1..Cardinality(J(g)) : Nth(J(g), k) \in J(g) /\ Rank(J(g), Nth(J(g), k)) = k
        /\ \A i \in J(g) : Nth(J(g), Rank(J(g), i)) = i
    BY <1>5, <2>1, NthRight
  <2>4. \A i \in J(g) : Rank(J(g), i) \in 1..Cardinality(J(g))
    BY <1>5, <2>1, RankBounds
  <2>5. Len(L[g]) = Cardinality(J(g)) /\ Cardinality(J(g)) \in Nat /\ L[g] \in Seq(R)
    BY <1>5, <1>8, <2>1, <2>2, PlacesFinite
  <2> QED
    BY <1>8, <2>1, <2>2, <2>3, <2>4, <2>5
<1>11. L \in Seq(Seq(R))
  BY <1>5, <1>8, <1>10, <1>9
<1>12. /\ \A p \in Pairs(L) : p[1] \in 1..Len(L) /\ p[2] \in 1..Len(L[p[1]]) /\ p = <<p[1], p[2]>>
       /\ \A g \in 1..Len(L) : \A k \in 1..Len(L[g]) : <<g, k>> \in Pairs(L)
  BY <1>11, PairsAre
<1>13. ASSUME NEW p \in Pairs(L)
       PROVE  /\ e[p] = at + Nth(J(p[1]), p[2]) /\ p[1] \in 1..Len(files) /\ p[2] \in 1..Len(L[p[1]])
              /\ Nth(J(p[1]), p[2]) \in 1..Len(shown)
  BY <1>8, <1>10, <1>12
<1> HIDE DEF e
<1>14. ASSUME NEW p \in Pairs(L)
       PROVE  e[p] \in (at + 1)..to /\ refs[e[p]] = L[p[1]][p[2]]
  <2>1. PICK n \in 1..Len(shown) : n = Nth(J(p[1]), p[2])
    BY <1>13
  <2>2. e[p] = at + n
    BY <1>13, <2>1
  <2>3. n \in 1..(to - at)
    BY <1>2, <2>1
  <2>4. refs[at + n] = shown[n]
    BY <1>2, <2>3
  <2>5. L[p[1]][p[2]] = shown[n]
    BY <1>10, <1>13, <2>1
  <2>6. at + n \in (at + 1)..to
    BY <2>3
  <2> QED
    BY <2>2, <2>4, <2>5, <2>6
<1>15. ASSUME NEW p \in Pairs(L), NEW q \in Pairs(L), e[p] = e[q]
       PROVE  p = q
  <2>1. Nth(J(p[1]), p[2]) = Nth(J(q[1]), q[2])
    <3>1. PICK n \in 1..Len(shown), m \in 1..Len(shown) : n = Nth(J(p[1]), p[2]) /\ m = Nth(J(q[1]), q[2])
      BY <1>13
    <3>2. at + n = at + m
      BY <1>13, <1>15, <3>1
    <3> QED
      BY <1>5, <3>1, <3>2
  <2>2. /\ Nth(J(p[1]), p[2]) \in J(p[1]) /\ Rank(J(p[1]), Nth(J(p[1]), p[2])) = p[2]
        /\ Nth(J(q[1]), q[2]) \in J(q[1]) /\ Rank(J(q[1]), Nth(J(q[1]), q[2])) = q[2]
    BY <1>10, <1>13
  <2>3. files[p[1]] = files[q[1]]
    <3>1. \A g \in 1..Len(files) : \A i \in J(g) : shown[i].file = files[g]
      BY <1>6
    <3> QED
      BY <1>13, <2>1, <2>2, <3>1
  <2>4. p[1] = q[1]
    BY <1>4, <1>13, <2>3
  <2>5. p[2] = q[2]
    BY <2>1, <2>2, <2>4
  <2> QED
    BY <1>12, <2>4, <2>5
<1>16. ASSUME NEW i \in (at + 1)..to
       PROVE  \E p \in Pairs(L) : e[p] = i
  <2>1. PICK j \in 1..Len(shown) : i = at + j
    <3>1. i - at \in 1..Len(shown) /\ i = at + (i - at)
      BY <1>2
    <3> QED
      BY <3>1
  <2>2. PICK g \in 1..Len(files) : files[g] = shown[j].file
    BY <1>4
  <2>3. j \in J(g)
    BY <1>7, <2>2
  <2>4. PICK k \in 1..Len(L[g]) : Nth(J(g), k) = j
    BY <1>10, <2>3
  <2>5. <<g, k>> \in Pairs(L)
    BY <1>8, <1>12
  <2>6. <<g, k>>[1] = g /\ <<g, k>>[2] = k
    OBVIOUS
  <2>7. e[<<g, k>>] = at + j
    BY <1>13, <2>4, <2>5, <2>6
  <2> QED
    BY <2>1, <2>5, <2>7
<1>17. Shows(e, Grouped(shown), refs, at + 1, to)
  BY <1>14, <1>15, <1>16 DEF Shows, L
<1> QED
  BY <1>4, <1>5, <1>17 DEF shown

(* How many elements a page has, if there are as many: a limit of 0 or less*)
(* is none.                                                                *)
Cap(limit, n) == IF limit > 0 THEN limit ELSE n

(* The place of the last element of a page.                                *)
End(at, cap, n) == IF at + cap < n THEN at + cap ELSE n

(* The beginning of the rest is a part from the same place on.             *)
LEMMA SubSeqTwice ==
  ASSUME NEW S, NEW s \in Seq(S), NEW a \in Nat, NEW c \in Nat, a + c <= Len(s)
  PROVE  SubSeq(SubSeq(s, a + 1, Len(s)), 1, c) = SubSeq(s, a + 1, a + c)
<1> DEFINE r == SubSeq(s, a + 1, Len(s))
           u == SubSeq(r, 1, c)
           v == SubSeq(s, a + 1, a + c)
<1>1. Len(s) \in Nat
  OBVIOUS
<1>2. r \in Seq(S) /\ Len(r) = Len(s) - a /\ \A i \in 1..(Len(s) - a) : r[i] = s[a + i]
  BY <1>1
<1>3. v \in Seq(S) /\ Len(v) = c /\ \A i \in 1..c : v[i] = s[a + i]
  BY <1>1
<1> HIDE DEF r, v
<1>4. c <= Len(r) /\ Len(r) \in Nat
  BY <1>1, <1>2
<1>5. u \in Seq(S) /\ Len(u) = c /\ \A i \in 1..c : u[i] = r[i]
  BY <1>2, <1>4
<1> HIDE DEF u
<1>6. \A i \in 1..c : u[i] = v[i]
  BY <1>1, <1>2, <1>3, <1>4, <1>5
<1>7. u = v
  BY <1>3, <1>5, <1>6
<1> QED
  BY <1>7 DEF u, v, r

(* A page that begins before the end has the elements from there on, as    *)
(* many as it may have,                                                    *)
LEMMA PageIs ==
  ASSUME NEW S, NEW items \in Seq(S), NEW limit \in Int, NEW at \in Nat, at < Len(items),
         NEW cap, cap = Cap(limit, Len(items))
  PROVE  /\ cap \in Nat /\ cap > 0
         /\ Page(items, limit, at) =
              [past |-> FALSE, shown |-> SubSeq(items, at + 1, End(at, cap, Len(items))),
               next |-> IF at + cap < Len(items) THEN at + cap ELSE 0]
<1> DEFINE N == Len(items)
           rest == SubSeq(items, at + 1, N)
           shown == IF limit > 0 /\ Len(rest) > limit THEN SubSeq(rest, 1, limit) ELSE rest
           next == IF limit > 0 /\ N > at + limit THEN at + limit ELSE 0
<1>1. N \in Nat /\ at < N
  OBVIOUS
<1>2. cap \in Nat /\ cap > 0 /\ (limit > 0 => cap = limit) /\ (~(limit > 0) => cap = N)
  BY <1>1 DEF Cap
<1>3. Page(items, limit, at) = [past |-> FALSE, shown |-> shown, next |-> next]
  <2> DEFINE from == IF at < 0 THEN 0 ELSE at
  <2>1. from = at
    OBVIOUS
  <2>2. Page(items, limit, at) =
          LET part == SubSeq(items, from + 1, Len(items))
          IN  IF from >= Len(items) THEN PastEnd
              ELSE [past |-> FALSE,
                    shown |-> IF limit > 0 /\ Len(part) > limit THEN SubSeq(part, 1, limit) ELSE part,
                    next |-> IF limit > 0 /\ Len(items) > from + limit THEN from + limit ELSE 0]
    BY DEF Page
  <2> HIDE DEF from
  <2>3. ~(at >= Len(items))
    BY <1>1
  <2> QED
    BY <2>1, <2>2, <2>3
<1>4. Len(rest) = N - at
  BY <1>1
<1>5. shown = SubSeq(items, at + 1, End(at, cap, N))
  <2>1. CASE limit > 0 /\ at + limit < N
    <3>1. limit \in Nat /\ at + limit <= N /\ Len(rest) > limit
      BY <1>1, <1>4, <2>1
    <3>2. SubSeq(rest, 1, limit) = SubSeq(items, at + 1, at + limit)
      BY <3>1, SubSeqTwice
    <3>3. End(at, cap, N) = at + limit
      BY <1>2, <2>1 DEF End
    <3> QED
      BY <2>1, <3>1, <3>2, <3>3
  <2>2. CASE ~(limit > 0 /\ at + limit < N)
    <3>1. ~(limit > 0 /\ Len(rest) > limit)
      BY <1>1, <1>4, <2>2
    <3>2. End(at, cap, N) = N
      BY <1>1, <1>2, <2>2 DEF End
    <3> QED
      BY <3>1, <3>2
  <2> QED
    BY <2>1, <2>2
<1>6. next = IF at + cap < N THEN at + cap ELSE 0
  <2>1. CASE limit > 0
    BY <1>1, <1>2, <2>1
  <2>2. CASE ~(limit > 0)
    BY <1>1, <1>2, <2>2
  <2> QED
    BY <2>1, <2>2
<1> HIDE DEF shown, next
<1> QED
  BY <1>2, <1>3, <1>5, <1>6

(* and as a page of references, those by file.                             *)
LEMMA FormattedIs ==
  ASSUME NEW refs \in Seq(References), NEW limit \in Int, NEW at \in Nat, at < Len(refs),
         NEW cap, cap = Cap(limit, Len(refs))
  PROVE  FormatReferences(refs, limit, at) =
           [past |-> FALSE, next |-> IF at + cap < Len(refs) THEN at + cap ELSE 0,
            groups |-> Grouped(SubSeq(refs, at + 1, End(at, cap, Len(refs))))]
<1> DEFINE page == Page(refs, limit, at)
<1>1. page = [past |-> FALSE, shown |-> SubSeq(refs, at + 1, End(at, cap, Len(refs))),
              next |-> IF at + cap < Len(refs) THEN at + cap ELSE 0]
  BY PageIs
<1> HIDE DEF page
<1>2. ~page.past /\ page.shown = SubSeq(refs, at + 1, End(at, cap, Len(refs)))
      /\ page.next = IF at + cap < Len(refs) THEN at + cap ELSE 0
  BY <1>1
<1>3. ~page.past => FormatReferences(refs, limit, at) =
        [past |-> FALSE, next |-> page.next, groups |-> Grouped(page.shown)]
  BY DEF FormatReferences, Grouped, page
<1> QED
  BY <1>2, <1>3

(* Where a page begins depends on the offset, and if there is one on how   *)
(* many elements there are.                                                *)
LEMMA PastIs ==
  ASSUME NEW items, NEW limit, NEW at, NEW from, from = IF at < 0 THEN 0 ELSE at
  PROVE  /\ from >= Len(items) => Page(items, limit, at) = PastEnd
         /\ ~(from >= Len(items)) =>
              /\ Page(items, limit, at).past = FALSE
              /\ Page(items, limit, at).next = IF limit > 0 /\ Len(items) > from + limit THEN from + limit ELSE 0
<1>1. Page(items, limit, at) =
        LET part == SubSeq(items, from + 1, Len(items))
        IN  IF from >= Len(items) THEN PastEnd
            ELSE [past |-> FALSE,
                  shown |-> IF limit > 0 /\ Len(part) > limit THEN SubSeq(part, 1, limit) ELSE part,
                  next |-> IF limit > 0 /\ Len(items) > from + limit THEN from + limit ELSE 0]
  BY DEF Page
<1> DEFINE part == SubSeq(items, from + 1, Len(items))
           shown == IF limit > 0 /\ Len(part) > limit THEN SubSeq(part, 1, limit) ELSE part
           next == IF limit > 0 /\ Len(items) > from + limit THEN from + limit ELSE 0
<1>2. Page(items, limit, at) = IF from >= Len(items) THEN PastEnd ELSE [past |-> FALSE, shown |-> shown, next |-> next]
  BY <1>1
<1> HIDE DEF shown, next
<1>3. ~(from >= Len(items)) => Page(items, limit, at).past = FALSE /\ Page(items, limit, at).next = next
  BY <1>2
<1> QED
  BY <1>2, <1>3 DEF next

(* A page of references is past the end, or goes on, as the page of the    *)
(* elements does.                                                          *)
LEMMA FormattedPast ==
  ASSUME NEW refs, NEW limit, NEW at
  PROVE  /\ Page(refs, limit, at).past => FormatReferences(refs, limit, at) = PastEnd
         /\ ~Page(refs, limit, at).past =>
              FormatReferences(refs, limit, at)
                = [past |-> FALSE, next |-> Page(refs, limit, at).next, groups |-> Grouped(Page(refs, limit, at).shown)]
  BY DEF FormatReferences, Grouped

(* Pages of n elements, each with as many as cap.                          *)
Paged(pages, n, cap) ==
  /\ n \in Nat /\ n > 0 /\ cap \in Nat /\ cap > 0 /\ DOMAIN pages = 0..n
  /\ \A at \in 0..(n - 1) : ~pages[at].past /\ pages[at].next = IF at + cap < n THEN at + cap ELSE 0

(* S has the first page, and with a page the one that it names.            *)
Turns(pages, S) == 0 \in S /\ \A o \in S : ~pages[o].past /\ pages[o].next # 0 => pages[o].next \in S

(* The offsets that one comes to are the least such set: without           *)
(* multiplication, they are what every set with 0 has that adds the size   *)
(* of a page.                                                              *)
LEMMA TurnedLeast ==
  ASSUME NEW pages, NEW n, NEW cap, Paged(pages, n, cap)
  PROVE  /\ 0 \in Turned(pages) /\ Turned(pages) \subseteq 0..(n - 1)
         /\ \A o \in Turned(pages) : o + cap < n => o + cap \in Turned(pages)
         /\ \A S \in SUBSET Turned(pages) : 0 \in S /\ (\A o \in S : o + cap < n => o + cap \in S) => Turned(pages) = S
<1> DEFINE T == Turned(pages)
<1>1. n \in Nat /\ n > 0 /\ cap \in Nat /\ cap > 0 /\ DOMAIN pages = 0..n
  BY DEF Paged
<1>2. T = {at \in 0..n : \A S \in SUBSET (0..n) : Turns(pages, S) => at \in S}
  BY <1>1 DEF Turned, Turns
<1> HIDE DEF T
<1>3. ASSUME NEW S \in SUBSET (0..(n - 1)), 0 \in S, \A o \in S : o + cap < n => o + cap \in S
      PROVE  T \subseteq S
  <2>1. ASSUME NEW o \in S, pages[o].next # 0
        PROVE  pages[o].next \in S
    <3>1. o \in 0..(n - 1)
      OBVIOUS
    <3>2. pages[o].next = IF o + cap < n THEN o + cap ELSE 0
      BY <3>1 DEF Paged
    <3> QED
      BY <1>3, <2>1, <3>2
  <2>2. Turns(pages, S)
    BY <1>3, <2>1 DEF Turns
  <2>3. S \in SUBSET (0..n)
    BY <1>1
  <2> QED
    BY <1>2, <2>2, <2>3
<1>4. T \subseteq 0..(n - 1)
  <2>1. PICK S : S = 0..(n - 1)
    OBVIOUS
  <2>2. S \in SUBSET (0..(n - 1)) /\ 0 \in S /\ \A o \in S : o + cap < n => o + cap \in S
    BY <1>1, <2>1
  <2>3. T \subseteq S
    BY <1>3, <2>2
  <2> QED
    BY <2>1, <2>3
<1>5. 0 \in T
  BY <1>1, <1>2 DEF Turns
<1>6. ASSUME NEW o \in T, o + cap < n
      PROVE  o + cap \in T
  <2>1. o \in 0..(n - 1)
    BY <1>4
  <2>2. ~pages[o].past /\ pages[o].next = o + cap /\ o + cap # 0 /\ o + cap \in 0..n
    BY <1>1, <1>6, <2>1 DEF Paged
  <2>3. ASSUME NEW S \in SUBSET (0..n), Turns(pages, S)
        PROVE  o + cap \in S
    <3>1. o \in S
      BY <1>2, <2>3
    <3> QED
      BY <2>2, <2>3, <3>1 DEF Turns
  <2> QED
    BY <1>2, <2>2, <2>3
<1>7. ASSUME NEW S \in SUBSET T, 0 \in S, \A o \in S : o + cap < n => o + cap \in S
      PROVE  T = S
  <2>1. S \in SUBSET (0..(n - 1))
    BY <1>4
  <2>2. T \subseteq S
    BY <1>3, <1>7, <2>1
  <2> QED
    BY <2>2
<1> QED
  BY <1>4, <1>5, <1>6, <1>7 DEF T

(* Every element is on a page that one comes to.                           *)
LEMMA TurnedCovers ==
  ASSUME NEW pages, NEW n, NEW cap, Paged(pages, n, cap), NEW i \in 1..n
  PROVE  \E at \in Turned(pages) : i \in (at + 1)..End(at, cap, n)
<1> DEFINE T == Turned(pages)
<1>1. n \in Nat /\ n > 0 /\ cap \in Nat /\ cap > 0
  BY DEF Paged
<1>2. 0 \in T /\ T \subseteq 0..(n - 1) /\ \A o \in T : o + cap < n => o + cap \in T
  BY TurnedLeast
<1> HIDE DEF T
<1>3. PICK B : B = {k \in Nat : k + 1 <= n => \E at \in T : at < k + 1 /\ k + 1 <= at + cap}
  OBVIOUS
<1>4. 0 \in B
  BY <1>1, <1>2, <1>3
<1>5. ASSUME NEW k \in B
      PROVE  k + 1 \in B
  <2>1. k \in Nat
    BY <1>3
  <2>2. SUFFICES ASSUME k + 2 <= n PROVE \E at \in T : at < k + 2 /\ k + 2 <= at + cap
    BY <1>1, <1>3, <2>1
  <2>3. PICK at \in T : at < k + 1 /\ k + 1 <= at + cap
    BY <1>1, <1>3, <2>1, <2>2
  <2>4. at \in Nat
    BY <1>2
  <2>5. CASE k + 2 <= at + cap
    BY <2>1, <2>3, <2>4, <2>5
  <2>6. CASE ~(k + 2 <= at + cap)
    <3>1. k + 1 = at + cap
      BY <1>1, <2>1, <2>3, <2>4, <2>6
    <3>2. at + cap < n
      BY <1>1, <2>1, <2>2, <3>1
    <3>3. k + 1 \in T
      BY <1>2, <3>1, <3>2
    <3> QED
      BY <1>1, <2>1, <3>3
  <2> QED
    BY <2>5, <2>6
<1>6. B \subseteq Nat
  BY <1>3
<1>7. i - 1 \in B
  <2>1. i - 1 \in Nat
    BY <1>1
  <2> QED
    BY <1>4, <1>5, <1>6, <2>1, Induction
<1>8. PICK at \in T : at < i /\ i <= at + cap
  BY <1>1, <1>3, <1>7
<1>9. at \in Nat
  BY <1>2
<1>10. i \in (at + 1)..End(at, cap, n)
  BY <1>1, <1>8, <1>9 DEF End
<1> QED
  BY <1>10 DEF T

(* No two of these pages overlap.                                          *)
LEMMA TurnedApart ==
  ASSUME NEW pages, NEW n, NEW cap, Paged(pages, n, cap), NEW a \in Turned(pages), NEW b \in Turned(pages), a < b
  PROVE  a + cap <= b
<1> DEFINE T == Turned(pages)
<1>1. n \in Nat /\ n > 0 /\ cap \in Nat /\ cap > 0
  BY DEF Paged
<1>2. /\ 0 \in T /\ T \subseteq 0..(n - 1) /\ \A o \in T : o + cap < n => o + cap \in T
      /\ \A S \in SUBSET T : 0 \in S /\ (\A o \in S : o + cap < n => o + cap \in S) => T = S
  BY TurnedLeast
<1>3. a \in T /\ b \in T
  OBVIOUS
<1> HIDE DEF T
<1>4. PICK S : S = {o \in T : \A x \in T : x < o => x + cap <= o}
  OBVIOUS
<1>5. S \in SUBSET T /\ 0 \in S
  BY <1>1, <1>2, <1>4
<1>6. ASSUME NEW o \in S, o + cap < n
      PROVE  o + cap \in S
  <2>1. o \in T /\ o \in Nat /\ \A x \in T : x < o => x + cap <= o
    BY <1>2, <1>4
  <2>2. PICK U : U = {x \in T : x <= o \/ o + cap <= x}
    OBVIOUS
  <2>3. U \in SUBSET T /\ 0 \in U
    BY <1>2, <2>1, <2>2
  <2>4. ASSUME NEW x \in U, x + cap < n
        PROVE  x + cap \in U
    <3>1. x \in T /\ x \in Nat /\ (x <= o \/ o + cap <= x) /\ x + cap \in T
      BY <1>2, <2>2, <2>4
    <3>2. x + cap <= o \/ o + cap <= x + cap
      <4>1. CASE x < o
        BY <2>1, <3>1, <4>1
      <4>2. CASE x = o
        BY <1>1, <3>1, <4>2
      <4>3. CASE o + cap <= x
        BY <1>1, <2>1, <3>1, <4>3
      <4> QED
        BY <2>1, <3>1, <4>1, <4>2, <4>3
    <3> QED
      BY <2>2, <3>1, <3>2
  <2>5. T = U
    BY <1>2, <2>3, <2>4
  <2>6. ASSUME NEW x \in T, x < o + cap
        PROVE  x + cap <= o + cap
    <3>1. x \in Nat /\ (x <= o \/ o + cap <= x)
      BY <1>2, <2>2, <2>5
    <3> QED
      BY <1>1, <2>1, <2>6, <3>1
  <2>7. o + cap \in T
    BY <1>2, <1>6, <2>1
  <2> QED
    BY <1>4, <2>6, <2>7
<1>7. T = S
  BY <1>2, <1>5, <1>6
<1> QED
  BY <1>3, <1>4, <1>7

(* The places of the references on a page.                                 *)
PairsOf(pages, at) == Pairs(PartsOf(pages[at].groups))

(* What one sees, and that each page shows its part of the references.     *)
SeenBy(pages, refs, T, h, n, cap) ==
  /\ \A at \in T : Len(pages[at].groups) \in Nat /\ Shows(h[at], pages[at].groups, refs, at + 1, End(at, cap, n))

(* What one sees, by its page, its group and its place there.              *)
SeenThere(pages) ==
  \A s : s \in Seen(pages) <=>
    \E at \in Turned(pages) : \E i, j : <<i, j>> \in PairsOf(pages, at) /\ s = <<at, i, j>>

(* The pages that one comes to are not past the end.                       *)
LEMMA SeenAre ==
  ASSUME NEW pages, NEW n, NEW cap, Paged(pages, n, cap)
  PROVE  SeenThere(pages)
<1> SUFFICES ASSUME NEW s
             PROVE  s \in Seen(pages) <=>
                      \E at \in Turned(pages) : \E i, j : <<i, j>> \in PairsOf(pages, at) /\ s = <<at, i, j>>
  BY DEF SeenThere
<1> DEFINE T == Turned(pages)
           part(at) == {<<at, p[1], p[2]>> : p \in PairsOf(pages, at)}
<1>1. {o \in T : ~pages[o].past} = T
  <2>1. T \subseteq 0..(n - 1)
    BY TurnedLeast
  <2>2. \A o \in 0..(n - 1) : ~pages[o].past
    BY DEF Paged
  <2> HIDE DEF T
  <2> QED
    BY <2>1, <2>2
<1>2. Seen(pages) = UNION {part(at) : at \in {o \in T : ~pages[o].past}}
  BY DEF Seen, PairsOf, PartsOf
<1>3. \A at : \A p \in PairsOf(pages, at) : \E i, j : p = <<i, j>> /\ p[1] = i /\ p[2] = j
  BY DEF PairsOf, Pairs
<1> HIDE DEF T
<1>4. s \in Seen(pages) <=> \E at \in T : s \in part(at)
  BY <1>1, <1>2
<1>5. \A at : s \in part(at) <=> \E p \in PairsOf(pages, at) : s = <<at, p[1], p[2]>>
  OBVIOUS
<1> HIDE DEF part
<1>6. ASSUME NEW at
      PROVE  s \in part(at) <=> \E i, j : <<i, j>> \in PairsOf(pages, at) /\ s = <<at, i, j>>
  <2>1. ASSUME s \in part(at)
        PROVE  \E i, j : <<i, j>> \in PairsOf(pages, at) /\ s = <<at, i, j>>
    <3>1. PICK p \in PairsOf(pages, at) : s = <<at, p[1], p[2]>>
      BY <1>5, <2>1
    <3>2. PICK i, j : p = <<i, j>> /\ p[1] = i /\ p[2] = j
      BY <1>3
    <3> QED
      BY <3>1, <3>2
  <2>2. ASSUME NEW i, NEW j, <<i, j>> \in PairsOf(pages, at), s = <<at, i, j>>
        PROVE  s \in part(at)
    <3>1. PICK p : p = <<i, j>>
      OBVIOUS
    <3>2. p[1] = i /\ p[2] = j /\ p \in PairsOf(pages, at)
      BY <2>2, <3>1
    <3> QED
      BY <1>5, <2>2, <3>2
  <2> QED
    BY <2>1, <2>2
<1> QED
  BY <1>4, <1>6 DEF T

(* Every reference is seen as often as there is one: its place among the   *)
(* references tells where.                                                 *)
LEMMA SeenOnceOf ==
  ASSUME NEW pages, NEW refs \in Seq(References), NEW n, n = Len(refs), NEW cap, Paged(pages, n, cap),
         NEW E, SeenBy(pages, refs, Turned(pages), E, n, cap)
  PROVE  SeenOnce(pages, refs)
<1> DEFINE T == Turned(pages)
           V == Seen(pages)
           h == [s \in V |-> E[s[1]][<<s[2], s[3]>>]]
           val(s) == pages[s[1]].groups[s[2]].locs[s[3]]
           Lies(s, at) == \E i, j : /\ <<i, j>> \in PairsOf(pages, at) /\ s = <<at, i, j>>
                                    /\ h[s] = E[at][<<i, j>>] /\ val(s) = pages[at].groups[i].locs[j]
<1>1. n \in Nat /\ n > 0 /\ cap \in Nat /\ cap > 0
  BY DEF Paged
<1>2. T \subseteq 0..(n - 1)
  BY TurnedLeast
<1>3. \A s : s \in V <=> \E at \in T : \E i, j : <<i, j>> \in PairsOf(pages, at) /\ s = <<at, i, j>>
  <2> HIDE DEF h, val, Lies
  <2>1. SeenThere(pages)
    BY SeenAre
  <2> QED
    BY <2>1 DEF SeenThere
<1>4. \A s \in V : h[s] = E[s[1]][<<s[2], s[3]>>]
  OBVIOUS
<1> HIDE DEF T, V, h
<1>5. ASSUME NEW at \in T
      PROVE  /\ at \in Nat /\ at < n
             /\ \A i, j : <<i, j>> \in PairsOf(pages, at) =>
                  /\ E[at][<<i, j>>] \in (at + 1)..End(at, cap, n)
                  /\ refs[E[at][<<i, j>>]] = pages[at].groups[i].locs[j]
             /\ \A i, j, k, l : /\ <<i, j>> \in PairsOf(pages, at) /\ <<k, l>> \in PairsOf(pages, at)
                                /\ E[at][<<i, j>>] = E[at][<<k, l>>]
                                => i = k /\ j = l
             /\ \A x \in (at + 1)..End(at, cap, n) : \E i, j : <<i, j>> \in PairsOf(pages, at) /\ E[at][<<i, j>>] = x
  <2> DEFINE L == PartsOf(pages[at].groups)
  <2>1. Len(pages[at].groups) \in Nat /\ Shows(E[at], pages[at].groups, refs, at + 1, End(at, cap, n))
    BY DEF SeenBy, T
  <2>2. Len(L) = Len(pages[at].groups) /\ \A g \in 1..Len(L) : L[g] = pages[at].groups[g].locs
    BY <2>1 DEF PartsOf
  <2>3. /\ \A p \in Pairs(L) : E[at][p] \in (at + 1)..End(at, cap, n) /\ refs[E[at][p]] = L[p[1]][p[2]]
        /\ \A p, q \in Pairs(L) : E[at][p] = E[at][q] => p = q
        /\ \A x \in (at + 1)..End(at, cap, n) : \E p \in Pairs(L) : E[at][p] = x
    BY <2>1 DEF Shows
  <2>4. Pairs(L) = PairsOf(pages, at)
    BY DEF PairsOf
  <2>5. \A p \in Pairs(L) : \E i \in 1..Len(L) : \E j : p = <<i, j>>
    BY DEF Pairs
  <2> HIDE DEF L
  <2>6. \A i, j : <<i, j>>[1] = i /\ <<i, j>>[2] = j
    OBVIOUS
  <2>7. ASSUME NEW i, NEW j, <<i, j>> \in PairsOf(pages, at)
        PROVE  /\ E[at][<<i, j>>] \in (at + 1)..End(at, cap, n)
               /\ refs[E[at][<<i, j>>]] = pages[at].groups[i].locs[j]
    <3>1. i \in 1..Len(L)
      <4>1. PICK k \in 1..Len(L) : \E l : <<i, j>> = <<k, l>>
        BY <2>4, <2>5, <2>7
      <4> QED
        BY <4>1
    <3>2. L[i] = pages[at].groups[i].locs
      BY <2>2, <3>1
    <3>3. E[at][<<i, j>>] \in (at + 1)..End(at, cap, n) /\ refs[E[at][<<i, j>>]] = L[<<i, j>>[1]][<<i, j>>[2]]
      BY <2>3, <2>4, <2>7
    <3> QED
      BY <2>6, <3>2, <3>3
  <2>8. ASSUME NEW i, NEW j, NEW k, NEW l, <<i, j>> \in PairsOf(pages, at), <<k, l>> \in PairsOf(pages, at),
               E[at][<<i, j>>] = E[at][<<k, l>>]
        PROVE  i = k /\ j = l
    <3>1. <<i, j>> = <<k, l>>
      BY <2>3, <2>4, <2>8
    <3> QED
      BY <3>1
  <2>9. ASSUME NEW x \in (at + 1)..End(at, cap, n)
        PROVE  \E i, j : <<i, j>> \in PairsOf(pages, at) /\ E[at][<<i, j>>] = x
    <3>1. PICK p \in PairsOf(pages, at) : E[at][p] = x
      BY <2>3, <2>4
    <3>2. PICK i \in 1..Len(L) : \E j : p = <<i, j>>
      BY <2>4, <2>5
    <3> QED
      BY <3>1, <3>2
  <2>10. at \in Nat /\ at < n
    BY <1>1, <1>2
  <2> QED
    BY <2>7, <2>8, <2>9, <2>10
<1>6. ASSUME NEW s \in V
      PROVE  \E at \in T : Lies(s, at)
  <2>1. PICK at \in T : \E i, j : <<i, j>> \in PairsOf(pages, at) /\ s = <<at, i, j>>
    BY <1>3
  <2>2. PICK i, j : <<i, j>> \in PairsOf(pages, at) /\ s = <<at, i, j>>
    BY <2>1
  <2>3. s[1] = at /\ s[2] = i /\ s[3] = j
    BY <2>2
  <2> QED
    BY <1>4, <2>2, <2>3
<1> HIDE DEF val, Lies
<1>7. ASSUME NEW at \in T
      PROVE  End(at, cap, n) \in Nat /\ End(at, cap, n) <= n /\ End(at, cap, n) <= at + cap
  BY <1>1, <1>5 DEF End
<1>8. ASSUME NEW s \in V
      PROVE  h[s] \in 1..n /\ refs[h[s]] = val(s)
  <2>1. PICK at \in T : Lies(s, at)
    BY <1>6
  <2>2. h[s] \in (at + 1)..End(at, cap, n) /\ refs[h[s]] = val(s)
    BY <1>5, <2>1 DEF Lies
  <2> QED
    BY <1>1, <1>5, <1>7, <2>2
<1>9. ASSUME NEW s \in V, NEW r \in V, h[s] = h[r]
      PROVE  s = r
  <2>1. PICK a \in T : Lies(s, a)
    BY <1>6
  <2>2. PICK b \in T : Lies(r, b)
    BY <1>6
  <2>3. PICK i, j : <<i, j>> \in PairsOf(pages, a) /\ s = <<a, i, j>> /\ h[s] = E[a][<<i, j>>]
    BY <2>1 DEF Lies
  <2>4. PICK k, l : <<k, l>> \in PairsOf(pages, b) /\ r = <<b, k, l>> /\ h[r] = E[b][<<k, l>>]
    BY <2>2 DEF Lies
  <2>5. a \in Nat /\ b \in Nat /\ h[s] \in (a + 1)..End(a, cap, n) /\ h[r] \in (b + 1)..End(b, cap, n)
    BY <1>5, <2>3, <2>4
  <2>6. /\ a < b => a + cap <= b
        /\ b < a => b + cap <= a
    BY TurnedApart DEF T
  <2>7. End(a, cap, n) \in Nat /\ End(a, cap, n) <= a + cap /\ End(b, cap, n) \in Nat /\ End(b, cap, n) <= b + cap
    BY <1>7
  <2>8. a = b
    <3>1. PICK x \in Nat : x = h[s] /\ x = h[r]
      BY <1>8, <1>9
    <3>2. a + 1 <= x /\ x <= a + cap /\ b + 1 <= x /\ x <= b + cap
      BY <1>1, <2>5, <2>7, <3>1
    <3> QED
      BY <1>1, <2>5, <2>6, <3>2
  <2>9. i = k /\ j = l
    BY <1>5, <1>9, <2>3, <2>4, <2>8
  <2> QED
    BY <2>3, <2>4, <2>8, <2>9
<1>10. ASSUME NEW x \in 1..n
       PROVE  \E s \in V : h[s] = x
  <2>1. PICK at \in T : x \in (at + 1)..End(at, cap, n)
    BY TurnedCovers DEF T
  <2>2. PICK i, j : <<i, j>> \in PairsOf(pages, at) /\ E[at][<<i, j>>] = x
    BY <1>5, <2>1
  <2>3. PICK s : s = <<at, i, j>>
    OBVIOUS
  <2>4. s \in V
    BY <1>3, <2>2, <2>3
  <2>5. s[1] = at /\ s[2] = i /\ s[3] = j
    BY <2>3
  <2> QED
    BY <1>4, <2>2, <2>4, <2>5
<1>11. ASSUME NEW x
       PROVE  Cardinality({s \in V : val(s) = x}) = Cardinality({i \in 1..n : refs[i] = x})
  <2> DEFINE A == {i \in 1..n : refs[i] = x}
             B == {s \in V : val(s) = x}
             f == [i \in A |-> CHOOSE s \in V : h[s] = i]
  <2>1. IsFiniteSet(A)
    <3>1. A \in SUBSET (1..n)
      OBVIOUS
    <3> HIDE DEF A
    <3> QED
      BY <1>1, <3>1, PlacesFinite
  <2>2. ASSUME NEW i \in A
        PROVE  f[i] \in V /\ h[f[i]] = i
    <3>1. i \in 1..n
      OBVIOUS
    <3>2. \E s \in V : h[s] = i
      BY <1>10, <3>1
    <3>3. f[i] = CHOOSE s \in V : h[s] = i
      OBVIOUS
    <3> HIDE DEF f
    <3> QED
      BY <3>2, <3>3
  <2>3. \A i \in A : i \in 1..n /\ refs[i] = x
    OBVIOUS
  <2>4. \A i \in 1..n : refs[i] = x => i \in A
    OBVIOUS
  <2>5. \A s : s \in B <=> s \in V /\ val(s) = x
    OBVIOUS
  <2> HIDE DEF A, B, f
  <2>6. \A i \in A : f[i] \in B
    BY <1>8, <2>2, <2>3, <2>5
  <2>7. \A i, j \in A : f[i] = f[j] => i = j
    BY <2>2
  <2>8. \A s \in B : \E i \in A : f[i] = s
    <3> SUFFICES ASSUME NEW s \in B PROVE \E i \in A : f[i] = s
      OBVIOUS
    <3>1. s \in V /\ val(s) = x
      BY <2>5
    <3>2. h[s] \in A
      BY <1>8, <2>4, <3>1
    <3>3. f[h[s]] \in V /\ h[f[h[s]]] = h[s]
      BY <2>2, <3>2
    <3> QED
      BY <1>9, <3>1, <3>2, <3>3
  <2>9. Cardinality(B) = Cardinality(A)
    BY <2>1, <2>6, <2>7, <2>8, SameSize
  <2> QED
    BY <2>9 DEF A, B
<1> QED
  BY <1>11, Zenon DEF SeenOnce, val, V

(* The arguments, as the tools read them.                                  *)
LEMMA AskingIs ==
  ASSUME NEW limit, NEW at, NEW format
  PROVE  /\ \A name \in {"filePath", "symbolName", "query"} : Given(Asking(limit, at, format), name)
         /\ \A default : /\ Arg(Asking(limit, at, format), "limit", default) = limit
                         /\ Arg(Asking(limit, at, format), "offset", default) = at
                         /\ Arg(Asking(limit, at, format), "outputFormat", default) = format
         /\ Asking(limit, at, format).symbolName = <<"m">>
  BY DEF Asking, Given, Arg

(* What get_references shows.                                              *)
LEMMA AskedIs ==
  ASSUME NEW refs, refs # <<>>, NEW limit, NEW at, NEW format
  PROVE  get_references(Asking(limit, at, format), WorldOf(refs))
           = TrimResponse(Sections(<<Formatted(refs, format, limit, at)>>), format)
<1> DEFINE a == Asking(limit, at, format)
           w == WorldOf(refs)
           answer == [ok |-> TRUE, locs |-> refs]
           show(locs) == <<Formatted(locs, format, limit, at)>>
<1>1. /\ w.file.routed /\ w.file.opens /\ DOMAIN w.file.at = {Nowhere}
      /\ w.file.at[Nowhere].references = answer
  BY DEF WorldOf
<1>2. /\ Given(a, "filePath") /\ Arg(a, "outputFormat", "full") = format
      /\ Arg(a, "limit", 30) = limit /\ Arg(a, "offset", 0) = at
  BY AskingIs
<1> HIDE DEF a, w
<1>3. At(a, w.file).references = answer
  <2>1. Position(a, {Nowhere}) = Nowhere
    BY DEF Position
  <2> QED
    BY <1>1, <2>1 DEF At
<1>4. FindReferencesAtPosition(w.file.opens, answer, format, limit, at) = Sections(show(refs))
  <2>1. answer.ok /\ answer.locs = refs
    OBVIOUS
  <2>2. FindReferencesAtPosition(w.file.opens, answer, format, limit, at) =
          IF ~w.file.opens \/ ~answer.ok THEN ErrorText
          ELSE IF answer.locs = <<>> THEN NoneText ELSE Sections(show(answer.locs))
    BY DEF FindReferencesAtPosition, PlacesAt
  <2> HIDE DEF answer, show
  <2> QED
    BY <1>1, <2>1, <2>2
<1>5. get_references(a, w) =
        TrimResponse(OnFile(a, w, FindReferencesAtPosition(w.file.opens, At(a, w.file).references, format, limit, at)),
                     format)
  BY <1>2 DEF get_references
<1> HIDE DEF answer
<1>6. OnFile(a, w, FindReferencesAtPosition(w.file.opens, At(a, w.file).references, format, limit, at))
        = Sections(show(refs))
  BY <1>1, <1>2, <1>3, <1>4 DEF OnFile
<1>7. get_references(a, w) = TrimResponse(Sections(show(refs)), format)
  BY <1>5, <1>6
<1> QED
  BY <1>7 DEF a, w

(* Sections that are not cut.                                              *)
LEMMA NotTrimmed ==
  ASSUME NEW shown, NEW format, ~TrimResponse(Sections(shown), format).cut
  PROVE  TrimResponse(Sections(shown), format).sections = shown
<1> DEFINE answer == Sections(shown)
<1>1. answer.sections = shown
  BY DEF Sections
<1> HIDE DEF answer
<1>2. ~TrimResponse(answer, format).cut
  BY DEF answer
<1>3. TrimResponse(answer, format) = answer
  BY <1>2, Trimmed
<1> QED
  BY <1>1, <1>3 DEF answer

(* All the symbols match and have these references.                        *)
AllNamed(ss, query, refs) ==
  \A i \in 1..Len(ss) : /\ MatchSymbol(ss[i], query) /\ ss[i].opens
                         /\ ss[i].refs.ok /\ ss[i].refs.locs = refs

(* The symbols of the world asked: each stands for itself.                 *)
LEMMA SymbolsAll ==
  ASSUME NEW refs \in Seq(References), refs # <<>>
  PROVE  \E S, ss : /\ ss \in Seq(S) /\ Len(ss) = Len(refs) /\ ss # <<>>
                    /\ WorldOf(refs).servers = <<[ok |-> TRUE, symbols |-> ss]>>
                    /\ AllNamed(ss, <<"m">>, refs)
<1> DEFINE symbol == [name |-> <<"m">>, container |-> <<>>, method |-> FALSE, flat |-> TRUE, opens |-> TRUE,
                      refs |-> [ok |-> TRUE, locs |-> refs]]
           S == {symbol}
           ss == [i \in 1..Len(refs) |-> symbol]
<1>1. Len(refs) \in Nat /\ Len(refs) # 0
  OBVIOUS
<1>2. WorldOf(refs).servers = <<[ok |-> TRUE, symbols |-> ss]>>
  BY DEF WorldOf
<1>3. symbol.name = <<"m">> /\ symbol.opens /\ symbol.refs.ok /\ symbol.refs.locs = refs
  OBVIOUS
<1>4. MatchSymbol(symbol, <<"m">>)
  BY <1>3 DEF MatchSymbol
<1> HIDE DEF symbol
<1>5. ss \in Seq(S) /\ Len(ss) = Len(refs) /\ \A i \in 1..Len(ss) : ss[i] = symbol
  BY <1>1
<1> HIDE DEF ss
<1>6. ss # <<>>
  BY <1>1, <1>5
<1> QED
  BY <1>2, <1>3, <1>4, <1>5, <1>6 DEF AllNamed

(* A tool by name answers as the only server does.                         *)
LEMMA OneServer ==
  ASSUME NEW answer, answer.kind # "error", NEW args, NEW name, Given(args, name)
  PROVE  OnServers(args, name, <<answer>>) = answer
<1> DEFINE answers == <<answer>>
           I == 1..1
<1>1. Len(answers) = 1 /\ answers[1] = answer
  OBVIOUS
<1> HIDE DEF answers
<1>2. I \in SUBSET (1..1) /\ 1 \in I /\ \A i \in 1..1 : answers[i].kind # "error" <=> i \in I
  BY <1>1
<1>3. Nth(I, 1) = 1
  <2>1. \A m \in Nat : m # 0 => Nth(1..m, 1) = 1
    BY NthOfAll
  <2>2. 1 \in Nat /\ 1 # 0
    OBVIOUS
  <2> QED
    BY <2>1, <2>2
<1> HIDE DEF I
<1>4. OnServers(args, name, answers) = IF I = {} THEN ErrorText ELSE answers[Nth(I, 1)]
  BY <1>1, <1>2, OnServersIs
<1>5. OnServers(args, name, answers) = answer
  BY <1>1, <1>2, <1>3, <1>4
<1> QED
  BY <1>5 DEF answers

(* What the tools by name make of such symbols.                            *)
Tells(found, ss, refs, query, format, limit, at) ==
  /\ FindReferences(found, query, format, limit, at)
       = Sections([i \in 1..Len(ss) |-> Formatted(refs, format, limit, at)])
  /\ SearchWorkspaceSymbols(found, limit, at) = Sections(<<Page(ss, limit, at)>>)

(* All symbols found, references shows a page for each, and                *)
(* workspace_symbols a page of them.                                       *)
LEMMA FoundIs ==
  ASSUME NEW S, NEW ss \in Seq(S), ss # <<>>, NEW refs, refs # <<>>, NEW query,
         AllNamed(ss, query, refs), NEW found, found.ok = TRUE, found.symbols = ss
  PROVE  \A format, limit, at : Tells(found, ss, refs, query, format, limit, at)
<1> TAKE format, limit, at
<1> DEFINE m == Len(ss)
           asked == Filtered(Matches(found, query), LAMBDA s : s.opens)
           some == Filtered(asked, LAMBDA s : s.refs.ok /\ s.refs.locs # <<>>)
           shown == [i \in 1..m |-> Formatted(refs, format, limit, at)]
<1>1. found.ok /\ found.symbols = ss
  OBVIOUS
<1>2. m \in Nat /\ m # 0
  OBVIOUS
<1>3. Chosen(ss, 1..Len(ss)) = ss
  BY ChosenAll
<1>4. SearchWorkspaceSymbols(found, limit, at) = Sections(<<Page(ss, limit, at)>>)
  <2> QED
    BY <1>1 DEF SearchWorkspaceSymbols
<1>5. Matches(found, query) = ss
  <2>1. {i \in 1..Len(ss) : MatchSymbol(ss[i], query)} = 1..Len(ss)
    BY DEF AllNamed
  <2>2. Matches(found, query) = Chosen(ss, {i \in 1..Len(ss) : MatchSymbol(ss[i], query)})
    BY <1>1 DEF Matches, Filtered
  <2> QED
    BY <1>3, <2>1, <2>2
<1>6. asked = ss
  <2>1. {i \in 1..Len(ss) : ss[i].opens} = 1..Len(ss)
    BY DEF AllNamed
  <2>2. Filtered(ss, LAMBDA s : s.opens) = Chosen(ss, {i \in 1..Len(ss) : ss[i].opens})
    BY DEF Filtered
  <2> QED
    BY <1>3, <1>5, <2>1, <2>2
<1>7. refs # <<>> => some = ss
  <2>1. refs # <<>> => {i \in 1..Len(ss) : ss[i].refs.ok /\ ss[i].refs.locs # <<>>} = 1..Len(ss)
    BY DEF AllNamed
  <2>2. Filtered(ss, LAMBDA s : s.refs.ok /\ s.refs.locs # <<>>)
          = Chosen(ss, {i \in 1..Len(ss) : ss[i].refs.ok /\ ss[i].refs.locs # <<>>})
    BY DEF Filtered
  <2> HIDE DEF asked
  <2> QED
    BY <1>3, <1>6, <2>1, <2>2
<1>8. FindReferences(found, query, format, limit, at) =
        IF ~found.ok \/ \E i \in 1..Len(asked) : ~asked[i].refs.ok THEN ErrorText
        ELSE SectionsOrNone([i \in 1..Len(some) |-> Formatted(some[i].refs.locs, format, limit, at)])
  BY DEF FindReferences
<1> HIDE DEF asked, some
<1>9. [i \in 1..Len(ss) |-> Formatted(ss[i].refs.locs, format, limit, at)] = shown
  BY DEF AllNamed
<1>10. [i \in 1..Len(some) |-> Formatted(some[i].refs.locs, format, limit, at)] = shown
  BY <1>7, <1>9
<1>11. shown # <<>>
  BY <1>2
<1> HIDE DEF shown, Tells
<1>12. SectionsOrNone(shown) = Sections(shown)
  BY <1>11 DEF SectionsOrNone
<1>13. ~(~found.ok \/ \E i \in 1..Len(asked) : ~asked[i].refs.ok)
  BY <1>1, <1>6 DEF AllNamed
<1>14. FindReferences(found, query, format, limit, at) = Sections(shown)
  BY <1>8, <1>10, <1>12, <1>13
<1> QED
  BY <1>4, <1>14 DEF shown, Tells

(* The symbols of WorldOf, as many as there are references.                *)
SymbolsOf(refs) == WorldOf(refs).servers[1].symbols

(* What references and workspace_symbols show at an offset.                *)
NamedAt(refs, limit, at) ==
  /\ references(Asking(limit, at, "full"), WorldOf(refs))
       = TrimResponse(Sections([i \in 1..Len(refs) |-> Formatted(refs, "full", limit, at)]), "full")
  /\ workspace_symbols(Asking(limit, at, "full"), WorldOf(refs))
       = TrimResponse(Sections(<<Page(SymbolsOf(refs), limit, at)>>), "symbols")
  /\ Len(SymbolsOf(refs)) = Len(refs)

(* That is what is shown of the references of the question.                *)
LEMMA NamedAndSymbols ==
  ASSUME NEW refs \in Seq(References), refs # <<>>
  PROVE  \A limit, at : NamedAt(refs, limit, at)
<1> TAKE limit, at
<1> DEFINE a == Asking(limit, at, "full")
           w == WorldOf(refs)
           shown == [i \in 1..Len(refs) |-> Formatted(refs, "full", limit, at)]
<1>1. PICK S, ss : /\ ss \in Seq(S) /\ Len(ss) = Len(refs) /\ ss # <<>>
                   /\ w.servers = <<[ok |-> TRUE, symbols |-> ss]>>
                   /\ AllNamed(ss, <<"m">>, refs)
  BY SymbolsAll
<1>2. /\ Given(a, "symbolName") /\ Given(a, "query") /\ a.symbolName = <<"m">>
      /\ Arg(a, "outputFormat", "full") = "full"
      /\ \A default : Arg(a, "limit", default) = limit /\ Arg(a, "offset", default) = at
  BY AskingIs
<1> HIDE DEF a, w
<1> DEFINE found == [ok |-> TRUE, symbols |-> ss]
<1>3. found.ok = TRUE /\ found.symbols = ss
  OBVIOUS
<1> HIDE DEF found
<1> HIDE DEF shown
<1>4. /\ FindReferences(found, <<"m">>, "full", limit, at)
           = Sections([i \in 1..Len(ss) |-> Formatted(refs, "full", limit, at)])
      /\ SearchWorkspaceSymbols(found, limit, at) = Sections(<<Page(ss, limit, at)>>)
  <2>1. PICK query, format : query = <<"m">> /\ format = "full"
    OBVIOUS
  <2>2. AllNamed(ss, query, refs) /\ ss \in Seq(S) /\ ss # <<>>
    BY <1>1, <2>1
  <2>3. Tells(found, ss, refs, query, format, limit, at)
    BY <1>3, <2>2, FoundIs
  <2> QED
    BY <2>1, <2>3 DEF Tells
<1>5. FindReferences(found, <<"m">>, "full", limit, at) = Sections(shown)
  BY <1>1, <1>4 DEF shown
<1>6. w.servers = <<found>> /\ w.servers[1] = found /\ Len(w.servers) = 1
  BY <1>1 DEF found
<1>7. SymbolsOf(refs) = ss
  BY <1>3, <1>6 DEF SymbolsOf, w
<1>8. \A x : Sections(x).kind = "sections" /\ Sections(x).kind # "error" /\ Sections(x).sections = x
  BY DEF Sections
<1>9. references(a, w) = TrimResponse(Sections(shown), "full")
  <2>1. references(a, w) = TrimResponse(OnServers(a, "symbolName",
           [i \in 1..1 |-> FindReferences(w.servers[i], <<"m">>, "full", limit, at)]), "full")
    BY <1>2, <1>6 DEF references, Each
  <2>2. [i \in 1..1 |-> FindReferences(w.servers[i], <<"m">>, "full", limit, at)] = <<Sections(shown)>>
    BY <1>5, <1>6
  <2>3. OnServers(a, "symbolName", <<Sections(shown)>>) = Sections(shown)
    BY <1>2, <1>8, OneServer
  <2> QED
    BY <2>1, <2>2, <2>3
<1>10. workspace_symbols(a, w) = TrimResponse(Sections(<<Page(ss, limit, at)>>), "symbols")
  <2> DEFINE found1 == Sections(<<Page(ss, limit, at)>>)
  <2>1. workspace_symbols(a, w) = TrimResponse(OnServers(a, "query",
           [i \in 1..1 |-> SearchWorkspaceSymbols(w.servers[i], limit, at)]), "symbols")
    BY <1>2, <1>6 DEF workspace_symbols, Each
  <2>2. [i \in 1..1 |-> SearchWorkspaceSymbols(w.servers[i], limit, at)] = <<found1>>
    BY <1>4, <1>6
  <2>3. found1.kind # "error"
    BY <1>8
  <2> HIDE DEF found1
  <2>4. OnServers(a, "query", <<found1>>) = found1
    BY <1>2, <2>3, OneServer
  <2>5. workspace_symbols(a, w) = TrimResponse(found1, "symbols")
    BY <2>1, <2>2, <2>4
  <2> QED
    BY <2>5 DEF found1
<1> QED
  BY <1>1, <1>7, <1>9, <1>10 DEF a, w, shown, NamedAt

(* The pages of the tools begin, end and go on alike.                      *)
Alike(long, brief, named, found) ==
  /\ ToSet(named) = {long}
  /\ brief.past = long.past
  /\ ~long.past => brief.next = long.next /\ [i \in 1..Len(brief.groups) |-> brief.groups[i].lines] = LinesOf(long)
  /\ found.past = long.past /\ (~long.past => found.next = long.next)

LEMMA PagesTurnAlike ==
  ASSUME NEW refs \in Seq(References), refs # <<>>, NEW limit \in Int, NEW at \in Int,
         NEW symbols, Len(symbols) = Len(refs)
  PROVE  Alike(FormatReferences(refs, limit, at), FormatReferencesShort(refs, limit, at),
               [i \in 1..Len(refs) |-> FormatReferences(refs, limit, at)], Page(symbols, limit, at))
<1> DEFINE long == FormatReferences(refs, limit, at)
           short == FormatReferencesShort(refs, limit, at)
           page == Page(refs, limit, at)
           other == Page(symbols, limit, at)
           named == [i \in 1..Len(refs) |-> long]
<1>1. PICK from \in Nat : from = IF at < 0 THEN 0 ELSE at
  OBVIOUS
<1>2. /\ from >= Len(refs) => page = PastEnd
      /\ ~(from >= Len(refs)) =>
           /\ page.past = FALSE
           /\ page.next = IF limit > 0 /\ Len(refs) > from + limit THEN from + limit ELSE 0
  BY <1>1, PastIs
<1>3. /\ from >= Len(refs) => other = PastEnd
      /\ ~(from >= Len(refs)) =>
           /\ other.past = FALSE
           /\ other.next = IF limit > 0 /\ Len(refs) > from + limit THEN from + limit ELSE 0
  BY <1>1, PastIs
<1>4. PastEnd.past = TRUE
  BY DEF PastEnd
<1>5. page.past => long = PastEnd
  BY FormattedPast
<1>6. ~page.past => long.past = FALSE /\ long.next = page.next
  <2>1. ~page.past => long = [past |-> FALSE, next |-> page.next, groups |-> Grouped(page.shown)]
    BY FormattedPast
  <2> HIDE DEF long, page
  <2> QED
    BY <2>1
<1>7. /\ long.past => short = PastEnd
      /\ ~long.past => /\ short.past = FALSE /\ short.next = long.next
                       /\ [i \in 1..Len(short.groups) |-> short.groups[i].lines] = LinesOf(long)
  <2> DEFINE groups == [i \in 1..Len(long.groups) |->
                          [file |-> long.groups[i].file,
                           lines |-> [k \in 1..Len(long.groups[i].locs) |-> long.groups[i].locs[k].line]]]
  <2>1. short = IF long.past THEN PastEnd ELSE [total |-> Len(refs), next |-> long.next, past |-> FALSE, groups |-> groups]
    BY DEF FormatReferencesShort
  <2>2. [i \in 1..Len(groups) |-> groups[i].lines] = LinesOf(long)
    BY DEF LinesOf
  <2> HIDE DEF short, groups
  <2>3. ~long.past => short.past = FALSE /\ short.next = long.next /\ short.groups = groups
    BY <2>1
  <2> QED
    BY <2>1, <2>2, <2>3
<1>8. ToSet(named) = {long}
  <2> HIDE DEF long
  <2>1. Len(refs) \in Nat /\ Len(refs) # 0
    OBVIOUS
  <2>2. DOMAIN named = 1..Len(refs) /\ 1 \in 1..Len(refs) /\ \A i \in 1..Len(refs) : named[i] = long
    BY <2>1
  <2> HIDE DEF named
  <2> QED
    BY <2>2 DEF ToSet
<1> HIDE DEF long, short, page, other, named
<1>9. other.past = page.past /\ (~page.past => other.next = page.next)
  BY <1>2, <1>3, <1>4
<1>10. long.past = page.past
  <2>1. page.past \in BOOLEAN
    BY <1>2, <1>4
  <2> QED
    BY <1>4, <1>5, <1>6, <2>1
<1>11. short.past = long.past
  <2>1. page.past \in BOOLEAN
    BY <1>2, <1>4
  <2> QED
    BY <1>4, <1>7, <1>10, <2>1
<1>12. Alike(long, short, named, other)
  BY <1>6, <1>7, <1>8, <1>9, <1>10, <1>11 DEF Alike
<1> QED
  BY <1>12 DEF long, short, named, other

(* Turning the pages one sees every reference once.                        *)
LEMMA TurnedShow ==
  ASSUME NEW refs \in Seq(References), refs # <<>>, NEW limit \in Int
  PROVE  /\ SeenOnce([at \in 0..Len(refs) |-> FormatReferences(refs, limit, at)], refs)
         /\ Paged([at \in 0..Len(refs) |-> FormatReferences(refs, limit, at)], Len(refs), Cap(limit, Len(refs)))
<1> DEFINE pages == [at \in 0..Len(refs) |-> FormatReferences(refs, limit, at)]
           n == Len(refs)
           cap == Cap(limit, n)
           groups(at) == Grouped(SubSeq(refs, at + 1, End(at, cap, n)))
           next(at) == IF at + cap < n THEN at + cap ELSE 0
<1>1. n \in Nat /\ n > 0
  OBVIOUS
<1>2. cap \in Nat /\ cap > 0
  BY <1>1 DEF Cap
<1>3. DOMAIN pages = 0..n /\ \A at \in 0..n : pages[at] = FormatReferences(refs, limit, at)
  OBVIOUS
<1> HIDE DEF pages
<1>4. ASSUME NEW at \in 0..(n - 1)
      PROVE  ~pages[at].past /\ pages[at].next = next(at) /\ pages[at].groups = groups(at)
  <2>1. at \in Nat /\ at < n /\ at \in 0..n
    BY <1>1
  <2>2. FormatReferences(refs, limit, at) = [past |-> FALSE, next |-> next(at), groups |-> groups(at)]
    BY <2>1, FormattedIs
  <2>3. pages[at] = [past |-> FALSE, next |-> next(at), groups |-> groups(at)]
    BY <1>3, <2>1, <2>2
  <2> HIDE DEF next, groups
  <2> QED
    BY <2>3
<1>5. Paged(pages, n, cap)
  <2>1. \A at \in 0..(n - 1) : ~pages[at].past /\ pages[at].next = IF at + cap < n THEN at + cap ELSE 0
    BY <1>4
  <2> HIDE DEF n, cap
  <2> QED
    BY <1>1, <1>2, <1>3, <2>1 DEF Paged
<1> DEFINE T == Turned(pages)
           E == [at \in T |-> CHOOSE e : Shows(e, pages[at].groups, refs, at + 1, End(at, cap, n))]
<1>6. T \subseteq 0..(n - 1)
  BY <1>5, TurnedLeast
<1>7. \A at \in T : E[at] = CHOOSE e : Shows(e, pages[at].groups, refs, at + 1, End(at, cap, n))
  OBVIOUS
<1> HIDE DEF T, E
<1>8. ASSUME NEW at \in T
      PROVE  Len(pages[at].groups) \in Nat /\ Shows(E[at], pages[at].groups, refs, at + 1, End(at, cap, n))
  <2>1. at \in 0..(n - 1)
    BY <1>6
  <2>2. at \in Nat /\ End(at, cap, n) \in Nat /\ at <= End(at, cap, n) /\ End(at, cap, n) <= n
    <3> HIDE DEF n, cap
    <3> QED
      BY <1>1, <1>2, <2>1 DEF End
  <2>3. pages[at].groups = groups(at)
    BY <1>4, <2>1
  <2>4. /\ Len(groups(at)) \in Nat
        /\ \E e : Shows(e, groups(at), refs, at + 1, End(at, cap, n))
    <3> HIDE DEF cap
    <3> QED
      BY <2>2, GroupedShows
  <2> HIDE DEF groups, cap, n
  <2>5. \E e : Shows(e, pages[at].groups, refs, at + 1, End(at, cap, n))
    BY <2>3, <2>4
  <2>6. Shows(E[at], pages[at].groups, refs, at + 1, End(at, cap, n))
    BY <1>7, <2>5
  <2> QED
    BY <2>3, <2>4, <2>6
<1>9. SeenBy(pages, refs, T, E, n, cap)
  <2> HIDE DEF n, cap, groups, next
  <2> QED
    BY <1>8 DEF SeenBy
<1>10. SeenOnce(pages, refs)
  <2>1. PICK m, c : m = n /\ c = cap
    OBVIOUS
  <2>2. SeenBy(pages, refs, Turned(pages), E, m, c) /\ Paged(pages, m, c) /\ m = Len(refs)
    <3> HIDE DEF cap
    <3> QED
      BY <1>5, <1>9, <2>1 DEF T
  <2> HIDE DEF n, cap, groups, next
  <2> QED
    BY <2>2, SeenOnceOf
<1>11. Paged(pages, Len(refs), Cap(limit, Len(refs)))
  BY <1>5 DEF n, cap
<1> QED
  BY <1>10, <1>11 DEF pages

(* If the pages that one comes to are the whole ones, then one comes to    *)
(* the same by the whole ones, and sees there the same.                    *)
LEMMA SameTurned ==
  ASSUME NEW pages, NEW whole, NEW n, NEW cap, Paged(whole, n, cap), DOMAIN pages = 0..n,
         \A at \in Turned(pages) : pages[at] = whole[at]
  PROVE  Turned(pages) = Turned(whole)
<1> DEFINE T == Turned(pages)
           W == Turned(whole)
<1>1. /\ n \in Nat /\ n > 0 /\ cap \in Nat /\ cap > 0
      /\ \A at \in 0..(n - 1) : ~whole[at].past /\ whole[at].next = IF at + cap < n THEN at + cap ELSE 0
  BY DEF Paged
<1>2. T = {at \in 0..n : \A S \in SUBSET (0..n) : Turns(pages, S) => at \in S}
  BY DEF Turned, Turns
<1>3. /\ 0 \in W /\ W \subseteq 0..(n - 1)
      /\ \A o \in W : o + cap < n => o + cap \in W
      /\ \A S \in SUBSET W : 0 \in S /\ (\A o \in S : o + cap < n => o + cap \in S) => W = S
  BY TurnedLeast
<1> HIDE DEF T, W
<1>4. \A at \in T : pages[at] = whole[at]
  BY DEF T
<1>5. 0 \in T
  BY <1>1, <1>2 DEF Turns
<1>6. ASSUME NEW o \in T \cap W, o + cap < n
      PROVE  o + cap \in T
  <2>1. o \in 0..(n - 1) /\ o + cap \in 0..n /\ o + cap # 0
    <3>1. o \in 0..(n - 1)
      BY <1>3
    <3>2. n \in Nat /\ cap \in Nat /\ cap > 0
      BY <1>1
    <3> QED
      BY <1>6, <3>1, <3>2
  <2>2. ~pages[o].past /\ pages[o].next = o + cap
    BY <1>1, <1>4, <1>6, <2>1
  <2>3. ASSUME NEW S \in SUBSET (0..n), Turns(pages, S)
        PROVE  o + cap \in S
    <3>1. o \in S
      BY <1>2, <2>3
    <3> QED
      BY <2>1, <2>2, <2>3, <3>1 DEF Turns
  <2> QED
    BY <1>2, <2>1, <2>3
<1>7. W \subseteq T
  <2>1. \A o \in T \cap W : o + cap < n => o + cap \in T \cap W
    BY <1>3, <1>6
  <2>2. W = T \cap W
    BY <1>3, <1>5, <2>1
  <2> QED
    BY <2>2
<1>8. T \subseteq W
  <2>1. ASSUME NEW o \in W, ~pages[o].past, pages[o].next # 0
        PROVE  pages[o].next \in W
    <3>1. o \in 0..(n - 1) /\ pages[o] = whole[o]
      BY <1>3, <1>4, <1>7
    <3>2. pages[o].next = IF o + cap < n THEN o + cap ELSE 0
      BY <1>1, <3>1
    <3> QED
      BY <1>3, <2>1, <3>2
  <2>2. Turns(pages, W)
    BY <1>3, <2>1 DEF Turns
  <2>3. W \in SUBSET (0..n)
    BY <1>1, <1>3
  <2> QED
    BY <1>2, <2>2, <2>3
<1> QED
  BY <1>7, <1>8 DEF T, W

LEMMA SameSeen ==
  ASSUME NEW pages, NEW whole, NEW refs, Turned(pages) = Turned(whole),
         \A at \in Turned(pages) : pages[at] = whole[at], SeenOnce(whole, refs)
  PROVE  SeenOnce(pages, refs)
<1> DEFINE of(page, at) == {<<at, p[1], p[2]>> : p \in Pairs([i \in 1..Len(page.groups) |-> page.groups[i].locs])}
           T == Turned(whole)
           V == Seen(pages)
           val(s) == pages[s[1]].groups[s[2]].locs[s[3]]
           value(s) == whole[s[1]].groups[s[2]].locs[s[3]]
           often(x) == Cardinality({i \in 1..Len(refs) : refs[i] = x})
<1>1. /\ Seen(pages) = UNION {of(pages[at], at) : at \in {o \in Turned(pages) : ~pages[o].past}}
      /\ Seen(whole) = UNION {of(whole[at], at) : at \in {o \in Turned(whole) : ~whole[o].past}}
  BY DEF Seen
<1>2. ASSUME NEW page, NEW at, NEW s \in of(page, at)
      PROVE  s[1] = at
  <2>1. PICK a, b : s = <<at, a, b>>
    <3> HIDE DEF T, V, val, value, often
    <3> QED
      OBVIOUS
  <2> QED
    BY <2>1
<1>3. \A at \in T : pages[at] = whole[at]
  OBVIOUS
<1> HIDE DEF of
<1>4. Seen(pages) = Seen(whole)
  <2> HIDE DEF T, V, val, value, often
  <2>1. /\ Seen(pages) = UNION {of(pages[at], at) : at \in {o \in T : ~pages[o].past}}
        /\ Seen(whole) = UNION {of(whole[at], at) : at \in {o \in T : ~whole[o].past}}
    BY <1>1 DEF T
  <2>2. ASSUME NEW s
        PROVE  s \in Seen(pages) <=> s \in Seen(whole)
    <3>1. s \in Seen(pages) <=> \E at \in T : ~pages[at].past /\ s \in of(pages[at], at)
      BY <2>1
    <3>2. s \in Seen(whole) <=> \E at \in T : ~whole[at].past /\ s \in of(whole[at], at)
      BY <2>1
    <3> QED
      BY <1>3, <3>1, <3>2
  <2> QED
    BY <2>2
<1>5. \A s \in V : s[1] \in T
  BY <1>1, <1>2
<1>6. \A x \in ToSet(refs) \cup {value(s) : s \in V} : Cardinality({s \in V : value(s) = x}) = often(x)
  <2>1. \A x \in ToSet(refs) \cup {value(s) : s \in Seen(whole)} :
          Cardinality({s \in Seen(whole) : value(s) = x}) = often(x)
    BY Zenon DEF SeenOnce
  <2>2. V = Seen(whole)
    BY <1>4
  <2> HIDE DEF V, value, often
  <2> QED
    BY <2>1, <2>2
<1> HIDE DEF T, V, often
<1>7. \A s \in V : val(s) = value(s)
  BY <1>3, <1>5
<1> HIDE DEF val, value
<1>8. {val(s) : s \in V} = {value(s) : s \in V}
  BY <1>7
<1>9. \A x : {s \in V : val(s) = x} = {s \in V : value(s) = x}
  BY <1>7
<1>10. \A x \in ToSet(refs) \cup {val(s) : s \in V} : Cardinality({s \in V : val(s) = x}) = often(x)
  BY <1>6, <1>8, <1>9
<1> QED
  BY <1>10, Zenon DEF SeenOnce, val, V, often

(* PagesRight holds of every question about pages.                         *)
LEMMA PagesRightThere ==
  ASSUME question.topic = "pages", PagesAsked
  PROVE  PagesRight
<1> DEFINE refs == question.refs
           limit == question.limit
           w == WorldOf(refs)
           answer(at, format) == get_references(Asking(limit, at, format), w)
           pages == [at \in 0..Len(refs) |-> answer(at, "full").sections[1]]
           whole == [at \in 0..Len(refs) |-> FormatReferences(refs, limit, at)]
<1> SUFFICES ASSUME refs # <<>>
             PROVE  /\ (\A at \in Turned(pages) : ~answer(at, "full").cut) => SeenOnce(pages, refs)
                    /\ \A at \in -1..Len(refs) :
                         PagesAlike(answer(at, "full"), answer(at, "short"), references(Asking(limit, at, "full"), w),
                                    workspace_symbols(Asking(limit, at, "full"), w))
  BY DEF PagesRight
<1>1. refs \in Seq(References) /\ limit \in Int
  BY DEF PagesAsked
<1>2. /\ \A at : answer(at, "full") = TrimResponse(Sections(<<FormatReferences(refs, limit, at)>>), "full")
      /\ \A at : answer(at, "short") = TrimResponse(Sections(<<FormatReferencesShort(refs, limit, at)>>), "short")
  BY AskedIs DEF Formatted
<1>3. Len(refs) \in Nat /\ Len(refs) > 0
  BY <1>1
<1> HIDE DEF refs, limit, answer
<1>4. /\ \A at : ~answer(at, "full").cut => answer(at, "full").sections[1] = FormatReferences(refs, limit, at)
      /\ \A at : ~answer(at, "short").cut => answer(at, "short").sections[1] = FormatReferencesShort(refs, limit, at)
  <2>1. \A x : <<x>>[1] = x
    OBVIOUS
  <2>2. ASSUME NEW at, ~answer(at, "full").cut
        PROVE  answer(at, "full").sections = <<FormatReferences(refs, limit, at)>>
    <3>1. PICK shown : shown = <<FormatReferences(refs, limit, at)>>
      OBVIOUS
    <3>2. answer(at, "full") = TrimResponse(Sections(shown), "full")
      BY <1>2, <3>1
    <3>3. ~TrimResponse(Sections(shown), "full").cut
      BY <2>2, <3>2
    <3> QED
      BY <3>1, <3>2, <3>3, NotTrimmed
  <2>3. ASSUME NEW at, ~answer(at, "short").cut
        PROVE  answer(at, "short").sections = <<FormatReferencesShort(refs, limit, at)>>
    <3>1. PICK shown : shown = <<FormatReferencesShort(refs, limit, at)>>
      OBVIOUS
    <3>2. answer(at, "short") = TrimResponse(Sections(shown), "short")
      BY <1>2, <3>1
    <3>3. ~TrimResponse(Sections(shown), "short").cut
      BY <2>3, <3>2
    <3> QED
      BY <3>1, <3>2, <3>3, NotTrimmed
  <2> QED
    BY <2>1, <2>2, <2>3
<1>5. ASSUME \A at \in Turned(pages) : ~answer(at, "full").cut
      PROVE  SeenOnce(pages, refs)
  <2>1. Turned(pages) \subseteq 0..Len(refs) /\ DOMAIN pages = 0..Len(refs)
    BY DEF Turned
  <2>2. \A at \in 0..Len(refs) : pages[at] = answer(at, "full").sections[1] /\ whole[at] = FormatReferences(refs, limit, at)
    OBVIOUS
  <2>3. SeenOnce(whole, refs) /\ Paged(whole, Len(refs), Cap(limit, Len(refs)))
    BY <1>1, TurnedShow
  <2> HIDE DEF pages, whole
  <2>4. \A at \in Turned(pages) : pages[at] = whole[at]
    BY <1>4, <1>5, <2>1, <2>2
  <2>5. PICK cap : Paged(whole, Len(refs), cap)
    BY <2>3
  <2>6. Turned(pages) = Turned(whole)
    BY <2>1, <2>4, <2>5, SameTurned
  <2> QED
    BY <2>3, <2>4, <2>6, SameSeen
<1>6. ASSUME NEW at \in -1..Len(refs)
      PROVE  PagesAlike(answer(at, "full"), answer(at, "short"), references(Asking(limit, at, "full"), w),
                        workspace_symbols(Asking(limit, at, "full"), w))
  <2> DEFINE long == FormatReferences(refs, limit, at)
             brief == FormatReferencesShort(refs, limit, at)
             named == [i \in 1..Len(refs) |-> long]
             found == Page(SymbolsOf(refs), limit, at)
             byName == references(Asking(limit, at, "full"), w)
             symbols == workspace_symbols(Asking(limit, at, "full"), w)
  <2>1. /\ byName = TrimResponse(Sections(named), "full")
        /\ symbols = TrimResponse(Sections(<<found>>), "symbols")
        /\ Len(SymbolsOf(refs)) = Len(refs)
    <3>1. NamedAt(refs, limit, at)
      BY <1>1, NamedAndSymbols
    <3>2. [i \in 1..Len(refs) |-> Formatted(refs, "full", limit, at)] = named
      BY DEF Formatted
    <3> QED
      BY <3>1, <3>2 DEF w, NamedAt
  <2>2. at \in Int
    BY <1>3
  <2>3. PICK others : others = SymbolsOf(refs)
    OBVIOUS
  <2>4. Alike(long, brief, named, found)
    <3>1. Len(others) = Len(refs)
      BY <2>1, <2>3
    <3>2. Alike(long, brief, named, Page(others, limit, at))
      BY <1>1, <2>2, <3>1, PagesTurnAlike
    <3> QED
      BY <2>3, <3>2
  <2> HIDE DEF long, brief, named, found, byName, symbols
  <2>5. ~byName.cut => byName.sections = named
    BY <2>1, NotTrimmed
  <2>6. ~symbols.cut => symbols.sections[1] = found
    <3>1. ~symbols.cut => symbols.sections = <<found>>
      BY <2>1, NotTrimmed
    <3> QED
      BY <3>1
  <2>7. /\ ~answer(at, "full").cut => answer(at, "full").sections[1] = long
        /\ ~answer(at, "short").cut => answer(at, "short").sections[1] = brief
    BY <1>4 DEF long, brief
  <2>8. PagesAlike(answer(at, "full"), answer(at, "short"), byName, symbols)
    BY <2>4, <2>5, <2>6, <2>7 DEF PagesAlike, Alike
  <2> QED
    BY <2>8 DEF byName, symbols
<1> QED
  BY <1>5, <1>6

-----------------------------------------------------------------------------
(* The tools that edit.                                                    *)

USE BoundsAssumption

(* A call under way is one of a tool for a file.                           *)
CallInv == phase # "idle" => tool \in Tools /\ file \in Files

(* Nobody has a text that has not been written.                            *)
TextsInv ==
  /\ \A f \in Files : disk[f] <= texts /\ held[f] <= texts
  /\ \A a \in Actors : \A g \in DOMAIN plan[a] : plan[a][g] <= texts

(* The file at hand is one that is still to be written.  Only while it     *)
(* applies an edit has the tool a file at hand, and it has written none    *)
(* before that, and all when it is through.                                *)
HandInv ==
  /\ \A a \in Actors : /\ written[a] \subseteq DOMAIN plan[a]
                       /\ hand[a].file # NoFile => hand[a].file \in DOMAIN plan[a] \ written[a]
  /\ phase # "apply" => hand["tool"] = Nothing
  /\ phase \in {"idle", "open", "ask"} => written["tool"] = {}
  /\ phase = "tell" => written["tool"] = DOMAIN plan["tool"]

(* What the tool has written is newer than what its edit was computed for. *)
NewerInv == \A g \in written["tool"] : disk[g] > plan["tool"][g]

(* The proviso of EditsFit.                                                *)
Excused(g) == g \in raced \/ (g \in stale /\ ~(tool \in Fixers /\ g = file))

(* From the moment that the file is open, a text that the server has, the  *)
(* edit was computed for, or is at hand is that on disk, or excused.       *)
FitInv ==
  /\ phase = "idle" => misfit = {}
  /\ phase = "ask" => \A g \in Files : held[g] \in {NotOpen, disk[g]} \/ Excused(g)
  /\ phase = "apply" => \A g \in DOMAIN plan["tool"] \ written["tool"] : plan["tool"][g] = disk[g] \/ Excused(g)
  /\ phase = "apply" /\ hand["tool"].file # NoFile =>
       hand["tool"].text = plan["tool"][hand["tool"].file] \/ Excused(hand["tool"].file)

(* A change that the server has not been told of is one that nobody tells  *)
(* it of, or the tool is still to do it.                                   *)
Untold == {"rename_symbol", "operation", "reader", "outside", "failed"}
Due(f) == phase \in {"apply", "tell"} /\ f \in toTell
ToldInv ==
  \A f \in Files : held[f] \notin {NotOpen, disk[f]} => writer[f] \in Untold \/ (writer[f] = tool /\ Due(f))

IInv == TypeOK /\ CallInv /\ TextsInv /\ HandInv /\ NewerInv /\ FitInv /\ EditsFit /\ ToldInv

-----------------------------------------------------------------------------
(* What the parts of the actions do.                                       *)

LEMMA PlansAre ==
  /\ \A p \in Plans : DOMAIN p \subseteq Files /\ \A g \in DOMAIN p : p[g] \in 1..MaxTexts
  /\ \A G \in SUBSET Files : \A p \in [G -> 1..MaxTexts] : p \in Plans
  /\ NoPlan \in Plans /\ DOMAIN NoPlan = {}
<1>1. DOMAIN NoPlan = {} /\ NoPlan \in [{} -> 1..MaxTexts]
  BY DEF NoPlan
<1>2. NoPlan \in Plans
  BY <1>1 DEF Plans
<1> QED
  BY <1>1, <1>2 DEF Plans

LEMMA HandsAre ==
  /\ Nothing \in Hands /\ Nothing.file = NoFile
  /\ \A h \in Hands : h.file \in Files \cup {NoFile} /\ h.text \in 0..MaxTexts
  /\ \A g \in Files, t \in 0..MaxTexts : [file |-> g, text |-> t] \in Hands
BY DEF Hands, Nothing

(* An edit is computed for texts that there are.                           *)
LEMMA AskedPlan ==
  ASSUME TypeOK, TextsInv, NEW G \in SUBSET Files
  PROVE  /\ [g \in G |-> View(g)] \in Plans
         /\ \A g \in G : View(g) <= texts
<1>1. \A g \in G : View(g) \in 1..MaxTexts /\ View(g) <= texts
  BY DEF TypeOK, TextsInv, View, NotOpen
<1>2. [g \in G |-> View(g)] \in [G -> 1..MaxTexts]
  BY <1>1
<1> QED
  BY <1>1, PlansAre

LEMMA EndsIs ==
  ASSUME TypeOK, NEW a \in Actors, Ends(a)
  PROVE  /\ plan' \in [Actors -> Plans] /\ written' \in [Actors -> SUBSET Files] /\ hand' \in [Actors -> Hands]
         /\ DOMAIN plan'[a] = {} /\ written'[a] = {} /\ hand'[a] = Nothing
         /\ \A b \in Actors \ {a} : plan'[b] = plan[b] /\ written'[b] = written[b] /\ hand'[b] = hand[b]
BY PlansAre, HandsAre DEF TypeOK, Ends

LEMMA PutIs ==
  ASSUME TypeOK, TextsInv, NEW g \in Files, NEW who \in Tools \cup {"operation", "reader", "outside"}, Put(g, who)
  PROVE  /\ disk' \in [Files -> 1..MaxTexts] /\ texts' \in 1..MaxTexts
         /\ writer' \in [Files -> Tools \cup {"nobody", "operation", "reader", "outside", "failed"}]
         /\ texts' = texts + 1 /\ disk'[g] = texts + 1 /\ writer'[g] = who
         /\ \A f \in Files \ {g} : disk'[f] = disk[f] /\ writer'[f] = writer[f]
         /\ \A f \in Files : disk'[f] >= disk[f] /\ disk'[f] <= texts'
BY DEF TypeOK, TextsInv, Put

LEMMA TellIs ==
  ASSUME TypeOK, TextsInv, NEW g \in Files, Tell(g)
  PROVE  /\ held' \in [Files -> 0..MaxTexts]
         /\ writer' \in [Files -> Tools \cup {"nobody", "operation", "reader", "outside", "failed"}]
         /\ held'[g] = disk[g]
         /\ \A f \in Files \ {g} : held'[f] = held[f] /\ writer'[f] = writer[f]
         /\ \A f \in Files : held'[f] <= texts
<1>1. held' \in [Files -> 0..MaxTexts]
  BY DEF TypeOK, Tell
<1>2. writer' \in [Files -> Tools \cup {"nobody", "operation", "reader", "outside", "failed"}]
  BY DEF TypeOK, Tell
<1>3. \A f \in Files : held'[f] = (IF f = g THEN disk[g] ELSE held[f]) /\ writer'[f] = (IF f = g THEN "nobody" ELSE writer[f])
  BY DEF TypeOK, Tell
<1> QED
  BY <1>1, <1>2, <1>3 DEF TextsInv

-----------------------------------------------------------------------------
(* Every step keeps the invariant.                                         *)

LEMMA InitIInv == Init => IInv
<1> SUFFICES ASSUME Init PROVE IInv
  OBVIOUS
<1>1. TypeOK
  BY PlansAre, HandsAre DEF Init, TypeOK, NotOpen
<1>2. TextsInv /\ HandInv /\ NewerInv /\ CallInv
  BY PlansAre, HandsAre DEF Init, Actors, TextsInv, HandInv, NewerInv, CallInv, NotOpen
<1>3. FitInv /\ EditsFit /\ ToldInv
  BY DEF Init, FitInv, EditsFit, ToldInv
<1> QED
  BY <1>1, <1>2, <1>3 DEF IInv

LEMMA StartKeeps ==
  ASSUME IInv, NEW t \in Tools, NEW f \in Files, Start(t, f)
  PROVE  IInv'
<1> USE DEF IInv
<1>1. TypeOK'
  BY DEF TypeOK, Start, applyVars
<1>2. CallInv'
  BY DEF CallInv, Start
<1>3. TextsInv'
  BY DEF TextsInv, Start, applyVars
<1>4. HandInv'
  BY DEF HandInv, Start, applyVars
<1>5. NewerInv'
  BY DEF NewerInv, Start, applyVars
<1>6. FitInv'
  BY DEF FitInv, Start
<1>7. EditsFit'
  BY DEF FitInv, EditsFit, Start
<1>8. ToldInv'
  BY DEF ToldInv, Due, Start
<1> QED
  BY <1>1, <1>2, <1>3, <1>4, <1>5, <1>6, <1>7, <1>8

LEMMA OpenOrSyncKeeps ==
  ASSUME IInv, OpenOrSync
  PROVE  IInv'
<1> USE DEF IInv
<1>a. file \in Files /\ (Tell(file) \/ UNCHANGED <<held, writer>>)
  BY DEF OpenOrSync, CallInv
<1>b. held' \in [Files -> 0..MaxTexts] /\ writer' \in [Files -> Tools \cup {"nobody", "operation", "reader", "outside", "failed"}]
  BY <1>a, TellIs DEF TypeOK
<1>1. TypeOK'
  <2>1. disk' \in [Files -> 1..MaxTexts] /\ held' \in [Files -> 0..MaxTexts] /\ texts' \in 1..MaxTexts
    BY <1>b DEF TypeOK, OpenOrSync
  <2>2. /\ tool' \in Tools \cup {NoTool} /\ file' \in Files \cup {NoFile} /\ fixes' \in 0..MaxFixes
        /\ phase' \in {"idle", "open", "ask", "apply", "tell"}
    BY DEF TypeOK, OpenOrSync
  <2>3. plan' \in [Actors -> Plans] /\ written' \in [Actors -> SUBSET Files] /\ hand' \in [Actors -> Hands]
    BY DEF TypeOK, OpenOrSync, applyVars
  <2>4. /\ writer' \in [Files -> Tools \cup {"nobody", "operation", "reader", "outside", "failed"}]
        /\ toTell' \subseteq Files /\ stale' \subseteq Files /\ raced' \subseteq Files /\ misfit' \subseteq Files
    BY <1>b DEF TypeOK, OpenOrSync
  <2> QED
    BY <2>1, <2>2, <2>3, <2>4 DEF TypeOK
<1>2. CallInv'
  BY DEF CallInv, OpenOrSync
<1>3. TextsInv'
  BY <1>a, TellIs DEF TextsInv, OpenOrSync, applyVars
<1>4. HandInv'
  BY DEF HandInv, OpenOrSync, applyVars
<1>5. NewerInv'
  BY DEF NewerInv, OpenOrSync, applyVars
<1>6. FitInv'
  BY DEF TypeOK, FitInv, Excused, OpenOrSync, Tell
<1>7. EditsFit'
  BY DEF EditsFit, OpenOrSync
<1>8. ToldInv'
  BY DEF TypeOK, ToldInv, Due, OpenOrSync, Tell
<1> QED
  BY <1>1, <1>2, <1>3, <1>4, <1>5, <1>6, <1>7, <1>8

LEMMA OpenFailsKeeps ==
  ASSUME IInv, OpenFails
  PROVE  IInv'
<1> USE DEF IInv
<1>1. TypeOK'
  BY DEF TypeOK, OpenFails, Finish, applyVars
<1>2. CallInv'
  BY DEF CallInv, OpenFails, Finish
<1>3. TextsInv'
  BY DEF TextsInv, OpenFails, applyVars
<1>4. HandInv'
  BY DEF HandInv, OpenFails, Finish, applyVars
<1>5. NewerInv'
  BY DEF NewerInv, OpenFails, applyVars
<1>6. FitInv'
  BY DEF FitInv, OpenFails, Finish
<1>7. EditsFit'
  BY DEF EditsFit, OpenFails, Finish
<1>8. ToldInv'
  BY DEF ToldInv, Due, OpenFails
<1> QED
  BY <1>1, <1>2, <1>3, <1>4, <1>5, <1>6, <1>7, <1>8

LEMMA AskKeeps ==
  ASSUME IInv, Ask
  PROVE  IInv'
<1> USE DEF IInv
<1>a. PICK G \in SUBSET Files : plan' = [plan EXCEPT !["tool"] = [g \in G |-> View(g)]]
  BY DEF Ask, Targets, CallInv
<1>b. [g \in G |-> View(g)] \in Plans /\ \A g \in G : View(g) <= texts
  BY AskedPlan
<1>c. /\ plan' \in [Actors -> Plans]
      /\ plan'["tool"] = [g \in G |-> View(g)] /\ \A b \in Actors \ {"tool"} : plan'[b] = plan[b]
  BY <1>a, <1>b DEF TypeOK, Actors
<1>1. TypeOK'
  <2>1. disk' \in [Files -> 1..MaxTexts] /\ held' \in [Files -> 0..MaxTexts] /\ texts' \in 1..MaxTexts
    BY DEF TypeOK, Ask
  <2>2. /\ tool' \in Tools \cup {NoTool} /\ file' \in Files \cup {NoFile} /\ fixes' \in 0..MaxFixes
        /\ phase' \in {"idle", "open", "ask", "apply", "tell"}
    BY DEF TypeOK, Ask
  <2>3. plan' \in [Actors -> Plans] /\ written' \in [Actors -> SUBSET Files] /\ hand' \in [Actors -> Hands]
    BY <1>c DEF TypeOK, Ask
  <2>4. /\ writer' \in [Files -> Tools \cup {"nobody", "operation", "reader", "outside", "failed"}]
        /\ toTell' \subseteq Files /\ stale' \subseteq Files /\ raced' \subseteq Files /\ misfit' \subseteq Files
    BY DEF TypeOK, Ask
  <2> QED
    BY <2>1, <2>2, <2>3, <2>4 DEF TypeOK
<1>2. CallInv'
  BY DEF CallInv, Ask
<1>3. TextsInv'
  BY <1>b, <1>c DEF TextsInv, Ask
<1>4. HandInv'
  BY HandsAre DEF HandInv, Ask
<1>5. NewerInv'
  BY DEF HandInv, NewerInv, Ask
<1>6. FitInv'
  <2>1. \A g \in Files : View(g) = disk[g] \/ Excused(g)
    BY DEF FitInv, Ask, View
  <2> QED
    BY <1>c, <2>1, HandsAre DEF HandInv, FitInv, Excused, Ask
<1>7. EditsFit'
  BY DEF EditsFit, Ask
<1>8. ToldInv'
  BY DEF ToldInv, Due, Ask
<1> QED
  BY <1>1, <1>2, <1>3, <1>4, <1>5, <1>6, <1>7, <1>8

LEMMA AskFailsKeeps ==
  ASSUME IInv, AskFails
  PROVE  IInv'
<1> USE DEF IInv
<1>1. TypeOK'
  BY DEF TypeOK, AskFails, Finish, applyVars
<1>2. CallInv'
  BY DEF CallInv, AskFails, Finish
<1>3. TextsInv'
  BY DEF TextsInv, AskFails, applyVars
<1>4. HandInv'
  BY DEF HandInv, AskFails, Finish, applyVars
<1>5. NewerInv'
  BY DEF NewerInv, AskFails, applyVars
<1>6. FitInv'
  BY DEF FitInv, AskFails, Finish
<1>7. EditsFit'
  BY DEF EditsFit, AskFails, Finish
<1>8. ToldInv'
  BY DEF ToldInv, Due, AskFails
<1> QED
  BY <1>1, <1>2, <1>3, <1>4, <1>5, <1>6, <1>7, <1>8

LEMMA ReadTextKeeps ==
  ASSUME IInv, NEW a \in Actors, NEW g \in Files, ReadText(a, g)
  PROVE  IInv'
<1> USE DEF IInv
<1>1. TypeOK'
  BY HandsAre DEF TypeOK, ReadText, toolVars
<1>2. CallInv'
  BY DEF CallInv, ReadText, toolVars
<1>3. TextsInv'
  BY DEF TextsInv, ReadText
<1>4. HandInv'
  BY DEF HandInv, ReadText, Busy, toolVars
<1>5. NewerInv'
  BY DEF NewerInv, ReadText
<1>6. FitInv'
  BY DEF FitInv, Excused, ReadText, toolVars
<1>7. EditsFit'
  BY DEF EditsFit, ReadText, toolVars
<1>8. ToldInv'
  BY DEF ToldInv, Due, ReadText, toolVars
<1> QED
  BY <1>1, <1>2, <1>3, <1>4, <1>5, <1>6, <1>7, <1>8

LEMMA WriteKeeps ==
  ASSUME IInv, Write
  PROVE  IInv'
<1> USE DEF IInv
<1>a. PICK g \in Files : g = hand["tool"].file /\ g \in DOMAIN plan["tool"] \ written["tool"]
  BY PlansAre DEF Write, TypeOK, HandInv, Actors
<1>b. phase = "apply" /\ tool \in Tools /\ Put(g, tool)
  BY <1>a DEF Write, CallInv
<1>c. /\ disk' \in [Files -> 1..MaxTexts] /\ texts' \in 1..MaxTexts
      /\ writer' \in [Files -> Tools \cup {"nobody", "operation", "reader", "outside", "failed"}]
      /\ texts' = texts + 1 /\ disk'[g] = texts + 1 /\ writer'[g] = tool
      /\ \A f \in Files \ {g} : disk'[f] = disk[f] /\ writer'[f] = writer[f]
      /\ \A f \in Files : disk'[f] >= disk[f] /\ disk'[f] <= texts'
  BY <1>b, PutIs
<1>d. /\ written' \in [Actors -> SUBSET Files] /\ hand' \in [Actors -> Hands]
      /\ written'["tool"] = written["tool"] \cup {g} /\ hand'["tool"] = Nothing
      /\ \A b \in Actors \ {"tool"} : written'[b] = written[b] /\ hand'[b] = hand[b]
  BY <1>a, HandsAre DEF Write, TypeOK, Actors
<1>e. \/ phase' = "tell" /\ written'["tool"] = DOMAIN plan["tool"]
      \/ phase' = "apply"
  <2>1. CASE DOMAIN plan["tool"] \ written["tool"] = {g}
    <3>1. written["tool"] \cup {g} = DOMAIN plan["tool"]
      BY <2>1 DEF HandInv, Actors
    <3> QED
      BY <1>d, <3>1 DEF Write
  <2>2. CASE DOMAIN plan["tool"] \ written["tool"] # {g}
    BY <1>a, <2>2 DEF Write
  <2> QED
    BY <2>1, <2>2
<1>f. /\ UNCHANGED <<held, tool, file, fixes, plan, stale, raced>>
      /\ misfit' = IF tool # "edit_file" /\ plan["tool"][g] # hand["tool"].text THEN misfit \cup {g} ELSE misfit
      /\ toTell' = IF tool = "rename_symbol" THEN toTell ELSE toTell \cup {g}
  BY <1>a DEF Write
<1>g. DOMAIN plan["tool"] \subseteq Files /\ \A h \in DOMAIN plan["tool"] : plan["tool"][h] \in 1..MaxTexts
  BY PlansAre DEF TypeOK, Actors
<1>1. TypeOK'
  <2>1. toTell' \subseteq Files /\ misfit' \subseteq Files
    BY <1>e, <1>f, <1>g DEF TypeOK
  <2> QED
    BY <1>c, <1>d, <1>e, <1>f, <2>1 DEF TypeOK
<1>2. CallInv'
  BY <1>b, <1>f DEF CallInv
<1>3. TextsInv'
  <2>1. \A a \in Actors : \A h \in DOMAIN plan[a] : plan[a][h] \in Nat /\ plan[a][h] <= texts
    BY PlansAre DEF TypeOK, TextsInv
  <2> QED
    BY <1>c, <1>f, <2>1 DEF TypeOK, TextsInv
<1>4. HandInv'
  <2>1. \A a \in Actors : /\ written'[a] \subseteq DOMAIN plan'[a]
                          /\ hand'[a].file # NoFile => hand'[a].file \in DOMAIN plan'[a] \ written'[a]
    BY <1>a, <1>d, <1>f, HandsAre DEF HandInv
  <2> QED
    BY <1>d, <1>e, <1>f, <2>1 DEF HandInv
<1>5. NewerInv'
  <2>1. plan["tool"][g] <= texts
    BY <1>a DEF TextsInv, Actors
  <2>2. written["tool"] \subseteq DOMAIN plan["tool"]
    BY DEF HandInv, Actors
  <2>3. \A h \in written["tool"] : disk'[h] > plan["tool"][h]
    BY <1>c, <1>g, <2>2 DEF TypeOK, NewerInv
  <2>4. disk'[g] > plan["tool"][g]
    BY <1>a, <1>c, <1>g, <2>1 DEF TypeOK
  <2> QED
    BY <1>d, <1>f, <2>3, <2>4 DEF NewerInv
<1>6. FitInv'
  <2>1. ASSUME phase' = "apply", NEW h \in DOMAIN plan["tool"] \ written'["tool"]
        PROVE  plan["tool"][h] = disk'[h] \/ Excused(h)
    BY <1>b, <1>c, <1>d, <1>g DEF FitInv
  <2> QED
    BY <1>d, <1>e, <1>f, <2>1, HandsAre DEF FitInv, Excused
<1>7. EditsFit'
  <2>1. plan["tool"][g] = hand["tool"].text \/ Excused(g)
    BY <1>a DEF FitInv, Write
  <2> QED
    BY <1>f, <2>1 DEF EditsFit, Excused
<1>8. ToldInv'
  <2>1. ASSUME NEW f \in Files, held'[f] \notin {NotOpen, disk'[f]}, f # g
        PROVE  writer'[f] \in Untold \/ (writer'[f] = tool' /\ Due(f)')
    <3>1. writer[f] \in Untold \/ (writer[f] = tool /\ f \in toTell)
      BY <1>b, <1>c, <1>f, <2>1 DEF ToldInv, Due
    <3> QED
      BY <1>c, <1>d, <1>e, <1>f, <3>1 DEF Due, Untold
  <2>2. writer'[g] \in Untold \/ (writer'[g] = tool' /\ Due(g)')
    BY <1>c, <1>d, <1>e, <1>f DEF Due, Untold
  <2> QED
    BY <2>1, <2>2 DEF ToldInv
<1> QED
  BY <1>1, <1>2, <1>3, <1>4, <1>5, <1>6, <1>7, <1>8

LEMMA OperateKeeps ==
  ASSUME IInv, NEW g \in Files, Operate(g)
  PROVE  IInv'
<1> USE DEF IInv
<1>a. phase = "apply" /\ hand["tool"] = Nothing /\ g \in DOMAIN plan["tool"] \ written["tool"] /\ Put(g, "operation")
  BY DEF Operate
<1>b. /\ disk' \in [Files -> 1..MaxTexts] /\ texts' \in 1..MaxTexts
      /\ writer' \in [Files -> Tools \cup {"nobody", "operation", "reader", "outside", "failed"}]
      /\ texts' = texts + 1 /\ disk'[g] = texts + 1 /\ writer'[g] = "operation"
      /\ \A f \in Files \ {g} : disk'[f] = disk[f] /\ writer'[f] = writer[f]
      /\ \A f \in Files : disk'[f] >= disk[f] /\ disk'[f] <= texts'
  BY <1>a, PutIs
<1>c. /\ written' \in [Actors -> SUBSET Files] /\ written'["tool"] = written["tool"] \cup {g}
      /\ \A b \in Actors \ {"tool"} : written'[b] = written[b]
  BY DEF Operate, TypeOK, Actors
<1>d. \/ phase' = "tell" /\ written'["tool"] = DOMAIN plan["tool"]
      \/ phase' = "apply"
  BY <1>a, <1>c DEF Operate, HandInv, Actors
<1>e. UNCHANGED <<held, tool, file, fixes, toTell, plan, hand, stale, raced, misfit>>
  BY DEF Operate
<1>f. DOMAIN plan["tool"] \subseteq Files /\ \A h \in DOMAIN plan["tool"] : plan["tool"][h] \in 1..MaxTexts
  BY PlansAre DEF TypeOK, Actors
<1>1. TypeOK'
  BY <1>b, <1>c, <1>d, <1>e DEF TypeOK
<1>2. CallInv'
  BY <1>a, <1>d, <1>e DEF CallInv
<1>3. TextsInv'
  <2>1. \A a \in Actors : \A h \in DOMAIN plan[a] : plan[a][h] \in Nat /\ plan[a][h] <= texts
    BY PlansAre DEF TypeOK, TextsInv
  <2> QED
    BY <1>b, <1>e, <2>1 DEF TypeOK, TextsInv
<1>4. HandInv'
  <2>1. \A a \in Actors : /\ written'[a] \subseteq DOMAIN plan'[a]
                          /\ hand'[a].file # NoFile => hand'[a].file \in DOMAIN plan'[a] \ written'[a]
    BY <1>a, <1>c, <1>e, HandsAre DEF HandInv
  <2> QED
    BY <1>a, <1>c, <1>d, <1>e, <2>1 DEF HandInv
<1>5. NewerInv'
  <2>1. plan["tool"][g] <= texts
    BY <1>a DEF TextsInv, Actors
  <2>2. written["tool"] \subseteq DOMAIN plan["tool"]
    BY DEF HandInv, Actors
  <2>3. \A h \in written["tool"] : disk'[h] > plan["tool"][h]
    BY <1>b, <1>f, <2>2 DEF TypeOK, NewerInv
  <2>4. disk'[g] > plan["tool"][g]
    BY <1>a, <1>b, <1>f, <2>1 DEF TypeOK
  <2> QED
    BY <1>c, <1>e, <2>3, <2>4 DEF NewerInv
<1>6. FitInv'
  <2>1. ASSUME phase' = "apply", NEW h \in DOMAIN plan["tool"] \ written'["tool"]
        PROVE  plan["tool"][h] = disk'[h] \/ Excused(h)
    BY <1>a, <1>b, <1>c, <1>f DEF FitInv
  <2> QED
    BY <1>a, <1>d, <1>e, <2>1, HandsAre DEF FitInv, Excused
<1>7. EditsFit'
  BY <1>e DEF EditsFit
<1>8. ToldInv'
  BY <1>a, <1>b, <1>d, <1>e DEF ToldInv, Untold, Due
<1> QED
  BY <1>1, <1>2, <1>3, <1>4, <1>5, <1>6, <1>7, <1>8

LEMMA WriteFailsKeeps ==
  ASSUME IInv, WriteFails
  PROVE  IInv'
<1> USE DEF IInv
<1>a. Ends("tool")
  BY DEF WriteFails
<1>b. /\ plan' \in [Actors -> Plans] /\ written' \in [Actors -> SUBSET Files] /\ hand' \in [Actors -> Hands]
      /\ DOMAIN plan'["tool"] = {} /\ written'["tool"] = {} /\ hand'["tool"] = Nothing
      /\ \A b \in Actors \ {"tool"} : plan'[b] = plan[b] /\ written'[b] = written[b] /\ hand'[b] = hand[b]
  BY <1>a, EndsIs DEF Actors
<1>c. hand["tool"].file \in Files \cup {NoFile}
  BY HandsAre DEF TypeOK, Actors
<1>d. /\ disk' \in [Files -> 1..MaxTexts] /\ texts' \in 1..MaxTexts
      /\ writer' \in [Files -> Tools \cup {"nobody", "operation", "reader", "outside", "failed"}]
      /\ texts' >= texts /\ \A f \in Files : disk'[f] <= texts'
      /\ \A f \in Files : \/ disk'[f] = disk[f] /\ writer'[f] = writer[f] /\ ~(f \in toTell /\ writer[f] = tool)
                          \/ writer'[f] = "failed"
  BY <1>c DEF TypeOK, TextsInv, WriteFails
<1>e. /\ phase' = "idle" /\ tool' = NoTool /\ file' = NoFile /\ fixes' = 0 /\ toTell' = {}
      /\ stale' = {} /\ raced' = {} /\ misfit' = {} /\ held' = held
  BY DEF WriteFails, Finish
<1>1. TypeOK'
  BY <1>b, <1>d, <1>e DEF TypeOK
<1>2. CallInv'
  BY <1>e DEF CallInv
<1>3. TextsInv'
  <2>1. \A a \in Actors : \A h \in DOMAIN plan[a] : plan[a][h] \in Nat /\ plan[a][h] <= texts
    BY PlansAre DEF TypeOK, TextsInv
  <2>2. \A a \in Actors : \A h \in DOMAIN plan'[a] : plan'[a][h] <= texts'
    BY <1>b, <1>d, <2>1 DEF TypeOK, Actors
  <2> QED
    BY <1>d, <1>e, <2>2 DEF TypeOK, TextsInv
<1>4. HandInv'
  BY <1>b, <1>e, HandsAre DEF HandInv
<1>5. NewerInv'
  BY <1>b DEF NewerInv
<1>6. FitInv'
  BY <1>e DEF FitInv
<1>7. EditsFit'
  BY <1>e DEF EditsFit
<1>8. ToldInv'
  BY <1>d, <1>e DEF ToldInv, Untold, Due
<1> QED
  BY <1>1, <1>2, <1>3, <1>4, <1>5, <1>6, <1>7, <1>8

LEMMA NotifyChangeKeeps ==
  ASSUME IInv, NotifyChange
  PROVE  IInv'
<1> USE DEF IInv
<1>a. PICK g \in toTell : /\ IF held[g] # NotOpen THEN Tell(g) ELSE UNCHANGED <<held, writer>>
                         /\ toTell' = toTell \ {g}
  BY DEF NotifyChange
<1>b. g \in Files
  BY DEF TypeOK
<1>c. /\ held' \in [Files -> 0..MaxTexts] /\ writer' \in [Files -> Tools \cup {"nobody", "operation", "reader", "outside", "failed"}]
      /\ \A f \in Files : held'[f] <= texts
  BY <1>a, TellIs DEF TypeOK, TextsInv
<1>1. TypeOK'
  <2>1. disk' \in [Files -> 1..MaxTexts] /\ held' \in [Files -> 0..MaxTexts] /\ texts' \in 1..MaxTexts
    BY <1>c DEF TypeOK, NotifyChange
  <2>2. /\ tool' \in Tools \cup {NoTool} /\ file' \in Files \cup {NoFile} /\ fixes' \in 0..MaxFixes
        /\ phase' \in {"idle", "open", "ask", "apply", "tell"}
    BY DEF TypeOK, NotifyChange
  <2>3. plan' \in [Actors -> Plans] /\ written' \in [Actors -> SUBSET Files] /\ hand' \in [Actors -> Hands]
    BY DEF TypeOK, NotifyChange, applyVars
  <2>4. /\ writer' \in [Files -> Tools \cup {"nobody", "operation", "reader", "outside", "failed"}]
        /\ toTell' \subseteq Files /\ stale' \subseteq Files /\ raced' \subseteq Files /\ misfit' \subseteq Files
    BY <1>c DEF TypeOK, NotifyChange
  <2> QED
    BY <2>1, <2>2, <2>3, <2>4 DEF TypeOK
<1>2. CallInv'
  BY DEF CallInv, NotifyChange
<1>3. TextsInv'
  BY <1>c DEF TextsInv, NotifyChange, applyVars
<1>4. HandInv'
  BY DEF HandInv, NotifyChange, applyVars
<1>5. NewerInv'
  BY DEF NewerInv, NotifyChange, applyVars
<1>6. FitInv'
  BY DEF FitInv, NotifyChange
<1>7. EditsFit'
  BY DEF EditsFit, NotifyChange
<1>8. ToldInv'
  BY DEF TypeOK, ToldInv, Due, NotifyChange, Tell
<1> QED
  BY <1>1, <1>2, <1>3, <1>4, <1>5, <1>6, <1>7, <1>8

LEMMA NotifyFailsKeeps ==
  ASSUME IInv, NotifyFails
  PROVE  IInv'
<1> USE DEF IInv
<1>1. TypeOK'
  BY DEF TypeOK, NotifyFails, applyVars
<1>2. CallInv'
  BY DEF CallInv, NotifyFails
<1>3. TextsInv'
  BY DEF TextsInv, NotifyFails, applyVars
<1>4. HandInv'
  BY DEF HandInv, NotifyFails, applyVars
<1>5. NewerInv'
  BY DEF NewerInv, NotifyFails, applyVars
<1>6. FitInv'
  BY DEF FitInv, NotifyFails
<1>7. EditsFit'
  BY DEF EditsFit, NotifyFails
<1>8. ToldInv'
  BY DEF TypeOK, ToldInv, Untold, Due, NotifyFails
<1> QED
  BY <1>1, <1>2, <1>3, <1>4, <1>5, <1>6, <1>7, <1>8

LEMMA DoneKeeps ==
  ASSUME IInv, Done
  PROVE  IInv'
<1> USE DEF IInv
<1>a. Ends("tool")
  BY DEF Done
<1>b. /\ plan' \in [Actors -> Plans] /\ written' \in [Actors -> SUBSET Files] /\ hand' \in [Actors -> Hands]
      /\ DOMAIN plan'["tool"] = {} /\ written'["tool"] = {} /\ hand'["tool"] = Nothing
      /\ \A b \in Actors \ {"tool"} : plan'[b] = plan[b] /\ written'[b] = written[b] /\ hand'[b] = hand[b]
  BY <1>a, EndsIs DEF Actors
<1>1. TypeOK'
  <2>1. disk' \in [Files -> 1..MaxTexts] /\ held' \in [Files -> 0..MaxTexts] /\ texts' \in 1..MaxTexts
    BY DEF TypeOK, Done
  <2>2. /\ tool' \in Tools \cup {NoTool} /\ file' \in Files \cup {NoFile} /\ fixes' \in 0..MaxFixes
        /\ phase' \in {"idle", "open", "ask", "apply", "tell"}
    BY DEF Done, Finish
  <2>3. plan' \in [Actors -> Plans] /\ written' \in [Actors -> SUBSET Files] /\ hand' \in [Actors -> Hands]
    BY <1>b
  <2>4. /\ writer' \in [Files -> Tools \cup {"nobody", "operation", "reader", "outside", "failed"}]
        /\ toTell' \subseteq Files /\ stale' \subseteq Files /\ raced' \subseteq Files /\ misfit' \subseteq Files
    BY DEF TypeOK, Done, Finish
  <2> QED
    BY <2>1, <2>2, <2>3, <2>4 DEF TypeOK
<1>2. CallInv'
  BY DEF CallInv, Done, Finish
<1>3. TextsInv'
  BY <1>b DEF TextsInv, Done
<1>4. HandInv'
  BY <1>b DEF HandInv, Done
<1>5. NewerInv'
  BY <1>b DEF NewerInv
<1>6. FitInv'
  BY DEF FitInv, Done, Finish
<1>7. EditsFit'
  BY DEF EditsFit, Done, Finish
<1>8. ToldInv'
  BY DEF ToldInv, Due, Done
<1> QED
  BY <1>1, <1>2, <1>3, <1>4, <1>5, <1>6, <1>7, <1>8

LEMMA NextFixKeeps ==
  ASSUME IInv, NextFix
  PROVE  IInv'
<1> USE DEF IInv
<1>a. Ends("tool")
  BY DEF NextFix
<1>b. /\ plan' \in [Actors -> Plans] /\ written' \in [Actors -> SUBSET Files] /\ hand' \in [Actors -> Hands]
      /\ DOMAIN plan'["tool"] = {} /\ written'["tool"] = {} /\ hand'["tool"] = Nothing
      /\ \A b \in Actors \ {"tool"} : plan'[b] = plan[b] /\ written'[b] = written[b] /\ hand'[b] = hand[b]
  BY <1>a, EndsIs DEF Actors
<1>1. TypeOK'
  <2>1. disk' \in [Files -> 1..MaxTexts] /\ held' \in [Files -> 0..MaxTexts] /\ texts' \in 1..MaxTexts
    BY DEF TypeOK, NextFix
  <2>2. /\ tool' \in Tools \cup {NoTool} /\ file' \in Files \cup {NoFile} /\ fixes' \in 0..MaxFixes
        /\ phase' \in {"idle", "open", "ask", "apply", "tell"}
    BY DEF TypeOK, NextFix
  <2>3. plan' \in [Actors -> Plans] /\ written' \in [Actors -> SUBSET Files] /\ hand' \in [Actors -> Hands]
    BY <1>b
  <2>4. /\ writer' \in [Files -> Tools \cup {"nobody", "operation", "reader", "outside", "failed"}]
        /\ toTell' \subseteq Files /\ stale' \subseteq Files /\ raced' \subseteq Files /\ misfit' \subseteq Files
    BY DEF TypeOK, NextFix
  <2> QED
    BY <2>1, <2>2, <2>3, <2>4 DEF TypeOK
<1>2. CallInv'
  BY DEF CallInv, NextFix
<1>3. TextsInv'
  BY <1>b DEF TextsInv, NextFix
<1>4. HandInv'
  BY <1>b DEF HandInv, NextFix
<1>5. NewerInv'
  BY <1>b DEF NewerInv
<1>6. FitInv'
  BY DEF FitInv, NextFix
<1>7. EditsFit'
  BY DEF EditsFit, NextFix
<1>8. ToldInv'
  BY DEF ToldInv, Due, NextFix
<1> QED
  BY <1>1, <1>2, <1>3, <1>4, <1>5, <1>6, <1>7, <1>8

LEMMA ServerAsksKeeps ==
  ASSUME IInv, ServerAsks
  PROVE  IInv'
<1> USE DEF IInv
<1>a. PICK G \in SUBSET Files : plan' = [plan EXCEPT !["reader"] = [g \in G |-> View(g)]]
  BY DEF ServerAsks
<1>b. [g \in G |-> View(g)] \in Plans /\ \A g \in G : View(g) <= texts
  BY AskedPlan
<1>c. /\ plan' \in [Actors -> Plans]
      /\ plan'["reader"] = [g \in G |-> View(g)] /\ \A b \in Actors \ {"reader"} : plan'[b] = plan[b]
  BY <1>a, <1>b DEF TypeOK, Actors
<1>1. TypeOK'
  <2>1. disk' \in [Files -> 1..MaxTexts] /\ held' \in [Files -> 0..MaxTexts] /\ texts' \in 1..MaxTexts
    BY DEF TypeOK, ServerAsks
  <2>2. /\ tool' \in Tools \cup {NoTool} /\ file' \in Files \cup {NoFile} /\ fixes' \in 0..MaxFixes
        /\ phase' \in {"idle", "open", "ask", "apply", "tell"}
    BY DEF TypeOK, ServerAsks, toolVars
  <2>3. plan' \in [Actors -> Plans] /\ written' \in [Actors -> SUBSET Files] /\ hand' \in [Actors -> Hands]
    BY <1>c DEF TypeOK, ServerAsks
  <2>4. /\ writer' \in [Files -> Tools \cup {"nobody", "operation", "reader", "outside", "failed"}]
        /\ toTell' \subseteq Files /\ stale' \subseteq Files /\ raced' \subseteq Files /\ misfit' \subseteq Files
    BY DEF TypeOK, ServerAsks, toolVars
  <2> QED
    BY <2>1, <2>2, <2>3, <2>4 DEF TypeOK
<1>2. CallInv'
  BY DEF CallInv, ServerAsks, toolVars
<1>3. TextsInv'
  BY <1>b, <1>c DEF TextsInv, ServerAsks
<1>4. HandInv'
  BY PlansAre DEF HandInv, ServerAsks, toolVars
<1>5. NewerInv'
  BY DEF NewerInv, ServerAsks
<1>6. FitInv'
  BY DEF FitInv, Excused, ServerAsks, toolVars
<1>7. EditsFit'
  BY DEF EditsFit, ServerAsks, toolVars
<1>8. ToldInv'
  BY DEF ToldInv, Due, ServerAsks, toolVars
<1> QED
  BY <1>1, <1>2, <1>3, <1>4, <1>5, <1>6, <1>7, <1>8

LEMMA ReaderWritesKeeps ==
  ASSUME IInv, ReaderWrites
  PROVE  IInv'
<1> USE DEF IInv
<1>a. PICK g \in Files : g = hand["reader"].file /\ Put(g, "reader")
  BY HandsAre DEF ReaderWrites, TypeOK, Actors
<1>b. /\ disk' \in [Files -> 1..MaxTexts] /\ texts' \in 1..MaxTexts
      /\ writer' \in [Files -> Tools \cup {"nobody", "operation", "reader", "outside", "failed"}]
      /\ texts' = texts + 1 /\ disk'[g] = texts + 1 /\ writer'[g] = "reader"
      /\ \A f \in Files \ {g} : disk'[f] = disk[f] /\ writer'[f] = writer[f]
      /\ \A f \in Files : disk'[f] >= disk[f] /\ disk'[f] <= texts'
  BY <1>a, PutIs
<1>c. /\ plan' \in [Actors -> Plans] /\ written' \in [Actors -> SUBSET Files] /\ hand' \in [Actors -> Hands]
      /\ hand'["reader"] = Nothing
      /\ \/ DOMAIN plan'["reader"] = {} /\ written'["reader"] = {}
         \/ plan'["reader"] = plan["reader"] /\ written'["reader"] = written["reader"] \cup {g}
      /\ \A b \in Actors \ {"reader"} : plan'[b] = plan[b] /\ written'[b] = written[b] /\ hand'[b] = hand[b]
  <2>1. CASE Ends("reader")
    BY <2>1, EndsIs DEF Actors
  <2>2. CASE /\ written' = [written EXCEPT !["reader"] = @ \cup {g}]
             /\ hand' = [hand EXCEPT !["reader"] = Nothing] /\ UNCHANGED plan
    BY <2>2, HandsAre DEF TypeOK, Actors
  <2> QED
    BY <1>a, <2>1, <2>2 DEF ReaderWrites
<1>d. /\ UNCHANGED <<held, tool, file, phase, fixes, toTell, stale, misfit>>
      /\ raced' = IF phase = "idle" THEN raced ELSE raced \cup {g}
  BY <1>a DEF ReaderWrites
<1>e. \A a \in Actors : DOMAIN plan[a] \subseteq Files /\ \A h \in DOMAIN plan[a] : plan[a][h] \in 1..MaxTexts
  BY PlansAre DEF TypeOK
<1>f. /\ plan'["tool"] = plan["tool"] /\ written'["tool"] = written["tool"] /\ hand'["tool"] = hand["tool"]
      /\ "tool" \in Actors /\ "reader" \in Actors
  BY <1>c DEF Actors
<1>1. TypeOK'
  BY <1>b, <1>c, <1>d DEF TypeOK
<1>2. CallInv'
  BY <1>d DEF CallInv
<1>3. TextsInv'
  BY <1>b, <1>c, <1>d, <1>e DEF TypeOK, TextsInv
<1>4. HandInv'
  <2>1. hand["reader"].file \in DOMAIN plan["reader"]
    BY <1>f DEF ReaderWrites, HandInv
  <2>2. \A a \in Actors : /\ written'[a] \subseteq DOMAIN plan'[a]
                          /\ hand'[a].file # NoFile => hand'[a].file \in DOMAIN plan'[a] \ written'[a]
    BY <1>a, <1>c, <2>1, HandsAre DEF HandInv
  <2> QED
    BY <1>d, <1>f, <2>2 DEF HandInv
<1>5. NewerInv'
  <2>1. written["tool"] \subseteq DOMAIN plan["tool"]
    BY <1>f DEF HandInv
  <2> QED
    BY <1>b, <1>e, <1>f, <2>1 DEF TypeOK, NewerInv
<1>6. FitInv'
  <2>1. \A h \in Files : phase # "idle" /\ (disk'[h] # disk[h] \/ Excused(h)) => Excused(h)'
    BY <1>b, <1>d DEF Excused
  <2>2. phase' = "ask" => \A h \in Files : held'[h] \in {NotOpen, disk'[h]} \/ Excused(h)'
    BY <1>d, <2>1 DEF FitInv
  <2>3. phase' = "apply" => \A h \in DOMAIN plan'["tool"] \ written'["tool"] : plan'["tool"][h] = disk'[h] \/ Excused(h)'
    BY <1>d, <1>e, <1>f, <2>1 DEF FitInv
  <2>4. phase' = "apply" /\ hand'["tool"].file # NoFile =>
          hand'["tool"].text = plan'["tool"][hand'["tool"].file] \/ Excused(hand["tool"].file)'
    BY <1>d, <1>e, <1>f, <2>1 DEF FitInv, HandInv
  <2> QED
    BY <1>d, <2>2, <2>3, <2>4 DEF FitInv
<1>7. EditsFit'
  BY <1>d DEF EditsFit
<1>8. ToldInv'
  BY <1>b, <1>d, <1>f DEF ToldInv, Untold, Due
<1> QED
  BY <1>1, <1>2, <1>3, <1>4, <1>5, <1>6, <1>7, <1>8

LEMMA ReaderFailsKeeps ==
  ASSUME IInv, ReaderFails
  PROVE  IInv'
<1> USE DEF IInv
<1>a. Ends("reader")
  BY DEF ReaderFails
<1>b. /\ plan' \in [Actors -> Plans] /\ written' \in [Actors -> SUBSET Files] /\ hand' \in [Actors -> Hands]
      /\ DOMAIN plan'["reader"] = {} /\ written'["reader"] = {} /\ hand'["reader"] = Nothing
      /\ \A b \in Actors \ {"reader"} : plan'[b] = plan[b] /\ written'[b] = written[b] /\ hand'[b] = hand[b]
      /\ "tool" \in Actors \ {"reader"}
  BY <1>a, EndsIs DEF Actors
<1>c. UNCHANGED <<held, tool, file, phase, fixes, toTell, stale, misfit>>
  BY DEF ReaderFails
<1>d. /\ disk' \in [Files -> 1..MaxTexts] /\ texts' \in 1..MaxTexts /\ raced' \subseteq Files
      /\ writer' \in [Files -> Tools \cup {"nobody", "operation", "reader", "outside", "failed"}]
      /\ texts' >= texts /\ \A f \in Files : disk'[f] >= disk[f] /\ disk'[f] <= texts'
      /\ raced \subseteq raced'
      /\ \A f \in Files : \/ disk'[f] = disk[f] /\ writer'[f] = writer[f]
                          \/ writer'[f] = "reader" /\ (phase = "idle" \/ f \in raced')
  <2>1. CASE UNCHANGED <<disk, texts, writer, raced>>
    BY <2>1 DEF TypeOK, TextsInv
  <2>2. CASE /\ hand["reader"].file # NoFile /\ Put(hand["reader"].file, "reader")
             /\ raced' = IF phase = "idle" THEN raced ELSE raced \cup {hand["reader"].file}
    <3>1. PICK g \in Files : g = hand["reader"].file
      BY <2>2, HandsAre DEF TypeOK, Actors
    <3>2. /\ disk' \in [Files -> 1..MaxTexts] /\ texts' \in 1..MaxTexts
          /\ writer' \in [Files -> Tools \cup {"nobody", "operation", "reader", "outside", "failed"}]
          /\ texts' = texts + 1 /\ disk'[g] = texts + 1 /\ writer'[g] = "reader"
          /\ \A f \in Files \ {g} : disk'[f] = disk[f] /\ writer'[f] = writer[f]
          /\ \A f \in Files : disk'[f] >= disk[f] /\ disk'[f] <= texts'
      BY <2>2, <3>1, PutIs
    <3> QED
      BY <2>2, <3>1, <3>2 DEF TypeOK
  <2> QED
    BY <2>1, <2>2 DEF ReaderFails
<1>e. \A a \in Actors : DOMAIN plan[a] \subseteq Files /\ \A h \in DOMAIN plan[a] : plan[a][h] \in 1..MaxTexts
  BY PlansAre DEF TypeOK
<1>1. TypeOK'
  BY <1>b, <1>c, <1>d DEF TypeOK
<1>2. CallInv'
  BY <1>c DEF CallInv
<1>3. TextsInv'
  <2>1. \A a \in Actors : \A h \in DOMAIN plan'[a] : plan'[a][h] <= texts'
    BY <1>b, <1>d, <1>e DEF TypeOK, TextsInv
  <2> QED
    BY <1>c, <1>d, <2>1 DEF TypeOK, TextsInv
<1>4. HandInv'
  <2>1. \A a \in Actors : /\ written'[a] \subseteq DOMAIN plan'[a]
                          /\ hand'[a].file # NoFile => hand'[a].file \in DOMAIN plan'[a] \ written'[a]
    BY <1>b, HandsAre DEF HandInv
  <2> QED
    BY <1>b, <1>c, <2>1 DEF HandInv
<1>5. NewerInv'
  <2>1. written["tool"] \subseteq DOMAIN plan["tool"]
    BY <1>b DEF HandInv
  <2> QED
    BY <1>b, <1>d, <1>e, <2>1 DEF TypeOK, NewerInv
<1>6. FitInv'
  <2>1. \A h \in Files : phase # "idle" /\ (disk'[h] # disk[h] \/ Excused(h)) => Excused(h)'
    <3>1. \A h \in Files : phase # "idle" /\ disk'[h] # disk[h] => h \in raced'
      BY <1>d
    <3> QED
      BY <1>c, <1>d, <3>1 DEF Excused
  <2>2. phase' = "ask" => \A h \in Files : held'[h] \in {NotOpen, disk'[h]} \/ Excused(h)'
    BY <1>c, <2>1 DEF FitInv
  <2>3. phase' = "apply" => \A h \in DOMAIN plan'["tool"] \ written'["tool"] : plan'["tool"][h] = disk'[h] \/ Excused(h)'
    BY <1>b, <1>c, <1>e, <2>1 DEF FitInv
  <2>4. phase' = "apply" /\ hand'["tool"].file # NoFile =>
          hand'["tool"].text = plan'["tool"][hand'["tool"].file] \/ Excused(hand["tool"].file)'
    BY <1>b, <1>c, <1>e, <2>1 DEF FitInv, HandInv
  <2> QED
    BY <1>b, <1>c, <2>2, <2>3, <2>4 DEF FitInv
<1>7. EditsFit'
  BY <1>c, <1>d DEF EditsFit
<1>8. ToldInv'
  BY <1>c, <1>d DEF ToldInv, Untold, Due
<1> QED
  BY <1>1, <1>2, <1>3, <1>4, <1>5, <1>6, <1>7, <1>8

LEMMA OutsideKeeps ==
  ASSUME IInv, NEW f \in Files, Outside(f)
  PROVE  IInv'
<1> USE DEF IInv
<1>a. /\ texts' = texts + 1 /\ disk'[f] = texts + 1
      /\ disk' \in [Files -> 1..MaxTexts] /\ \A h \in Files : disk'[h] >= disk[h]
  BY PutIs DEF Outside
<1>1. TypeOK'
  BY DEF TypeOK, Outside, Put, applyVars
<1>2. CallInv'
  BY DEF CallInv, Outside
<1>3. TextsInv'
  BY PlansAre DEF TypeOK, TextsInv, Outside, Put, applyVars
<1>4. HandInv'
  BY DEF HandInv, Outside, applyVars
<1>5. NewerInv'
  <2>1. written["tool"] \subseteq Files /\ \A h \in written["tool"] : plan["tool"][h] \in 1..MaxTexts
    BY PlansAre DEF TypeOK, HandInv, Actors
  <2> QED
    BY <1>a, <2>1 DEF TypeOK, NewerInv, Outside, applyVars
<1>6. FitInv'
  BY DEF FitInv, Excused, Outside, Put, applyVars
<1>7. EditsFit'
  BY DEF EditsFit, Outside
<1>8. ToldInv'
  BY DEF TypeOK, ToldInv, Untold, Due, Outside, Put, applyVars
<1> QED
  BY <1>1, <1>2, <1>3, <1>4, <1>5, <1>6, <1>7, <1>8

LEMMA WatcherTellsKeeps ==
  ASSUME IInv, NEW f \in Files, WatcherTells(f)
  PROVE  IInv'
<1> USE DEF IInv
<1>1. TypeOK'
  BY DEF TypeOK, WatcherTells, Tell, toolVars, applyVars
<1>2. CallInv'
  BY DEF CallInv, WatcherTells, toolVars
<1>3. TextsInv'
  BY DEF TextsInv, WatcherTells, Tell, applyVars
<1>4. HandInv'
  BY DEF HandInv, WatcherTells, toolVars, applyVars
<1>5. NewerInv'
  BY DEF NewerInv, WatcherTells, applyVars
<1>6. FitInv'
  BY DEF FitInv, Excused, WatcherTells, Tell, toolVars, applyVars
<1>7. EditsFit'
  BY DEF EditsFit, WatcherTells, toolVars
<1>8. ToldInv'
  BY DEF TypeOK, ToldInv, Due, WatcherTells, Tell, toolVars, applyVars
<1> QED
  BY <1>1, <1>2, <1>3, <1>4, <1>5, <1>6, <1>7, <1>8

LEMMA StepIInv == IInv /\ [Next]_vars => IInv'
<1> SUFFICES ASSUME IInv, [Next]_vars PROVE IInv'
  OBVIOUS
<1>1. CASE ToolCall
  BY <1>1, StartKeeps, OpenOrSyncKeeps, OpenFailsKeeps, AskKeeps, AskFailsKeeps, ReadTextKeeps, WriteKeeps,
     OperateKeeps, WriteFailsKeeps, NotifyChangeKeeps, NotifyFailsKeeps, DoneKeeps, NextFixKeeps DEF ToolCall, Actors
<1>2. CASE Others
  BY <1>2, ServerAsksKeeps, ReadTextKeeps, ReaderWritesKeeps, ReaderFailsKeeps, OutsideKeeps, WatcherTellsKeeps
     DEF Others, Actors
<1>3. CASE UNCHANGED vars
  BY <1>3 DEF vars, toolVars, applyVars, IInv, TypeOK, CallInv, TextsInv, HandInv, NewerInv, FitInv, Excused, EditsFit,
              ToldInv, Due
<1> QED
  BY <1>1, <1>2, <1>3 DEF Next

-----------------------------------------------------------------------------

(* The invariant holds in every state, for any files, texts and fixes.     *)
THEOREM Inductive == Spec => []IInv
<1> QED
  BY InitIInv, StepIInv, PTL DEF Spec

(* Every variable of the tools that edit (edit_file.go, rename-symbol.go,  *)
(* format.go, apply_fix.go, edit.go) keeps its type.                       *)
THEOREM TypeCorrect == Spec => []TypeOK
<1>1. IInv => TypeOK
  BY DEF IInv
<1> QED
  BY <1>1, Inductive, PTL

(* A tool applies an edit (edit.go:20-101) to the text it was computed     *)
(* for, unless somebody else changed the file since the tool opened it, or *)
(* the server had an old text of it then; apply_fix excludes the latter    *)
(* for its own file.                                                       *)
THEOREM EditsFitTheirText == Spec => []EditsFit
<1>1. IInv => EditsFit
  BY DEF IInv
<1> QED
  BY <1>1, Inductive, PTL

(* After a call the server knows how the call has edited open files,       *)
(* except for rename_symbol, files that the edit created, renamed or       *)
(* deleted (apply_fix.go:295-319), an edit that was given up, and a        *)
(* notification that failed.                                               *)
THEOREM ServerIsTold == Spec => []ServerTold
<1>1. IInv => ServerTold
  BY DEF IInv, ToldInv, Due, ServerTold, Untold
<1> QED
  BY <1>1, Inductive, PTL

(* A call that goes on to tell the server has written all of its edit      *)
(* (edit.go:198-243), file by file, whoever writes in between.             *)
THEOREM EditIsWhole == Spec => []WholeOrAborted
<1>1. IInv => WholeOrAborted
  BY DEF IInv, HandInv, NewerInv, WholeOrAborted
<1> QED
  BY <1>1, Inductive, PTL

-----------------------------------------------------------------------------
(* The questions, as the specification asks them: any that is well formed, *)
(* for as long as it stays.                                                *)

(* The tools together do what EditTools allows: its theorems are theirs.   *)
THEOREM ToolsRunEditTools == ToolsSpec => Spec
<1>1. [ToolsNext]_ToolsVars => [Next]_vars
  BY DEF ToolsNext, ToolsVars
<1> QED
  BY <1>1, PTL DEF ToolsSpec, Spec

(* A question stays as it was asked.                                       *)
THEOREM AskedWell == ToolsSpec => []WellFormed
<1>1. WellFormed /\ [ToolsNext]_ToolsVars => WellFormed'
  <2> SUFFICES ASSUME WellFormed, [ToolsNext]_ToolsVars PROVE WellFormed'
    OBVIOUS
  <2>1. question' = question
    BY DEF ToolsNext, ToolsVars
  <2>2. DiagnosticsAsked' <=> DiagnosticsAsked
    BY <2>1 DEF DiagnosticsAsked
  <2>3. OutlineAsked' <=> OutlineAsked
    BY <2>1 DEF OutlineAsked
  <2>4. NamesAsked' <=> NamesAsked
    BY <2>1 DEF NamesAsked
  <2>5. PlaceAsked' <=> PlaceAsked
    BY <2>1 DEF PlaceAsked
  <2>6. FixAsked' <=> FixAsked
    BY <2>1 DEF FixAsked
  <2>7. /\ RangesAsked' <=> RangesAsked
        /\ PagesAsked' <=> PagesAsked
    BY <2>1 DEF RangesAsked, PagesAsked
  <2>8. /\ WorkspaceAsked' <=> WorkspaceAsked
        /\ FlagsAsked' <=> FlagsAsked
    BY <2>1 DEF WorkspaceAsked, FlagsAsked
  <2>9. /\ GraphAsked' <=> GraphAsked
        /\ TokensAsked' <=> TokensAsked
    BY <2>1 DEF GraphAsked, TokensAsked
  <2>10. /\ EditsAsked' <=> EditsAsked
         /\ LinesAsked' <=> LinesAsked
         /\ ChangesAsked' <=> ChangesAsked
    BY <2>1 DEF EditsAsked, LinesAsked, ChangesAsked
  <2> QED
    BY <2>1, <2>2, <2>3, <2>4, <2>5, <2>6, <2>7, <2>8, <2>9, <2>10 DEF WellFormed
<1> QED
  BY <1>1, PTL DEF ToolsSpec

(* The difference between any two snapshots of diagnostics                 *)
(* (diagnostics.go) accounts for every diagnostic, and calls none both new *)
(* and resolved, however often one occurs.                                 *)
THEOREM DifferenceBalances == ToolsSpec => []DiffBalances
<1>1. WellFormed => DiffBalances
  <2> SUFFICES ASSUME WellFormed, question.topic = "diagnostics" PROVE DiffBalances
    BY DEF DiffBalances
  <2>1. DiagnosticsAsked
    BY DEF WellFormed
  <2> DEFINE D == Reported
             R == ReportedOf
  <2>2. question.files \in Seq(R)
    BY <2>1 DEF DiagnosticsAsked
  <2>3. \A f \in R : f.now \in Seq(D) /\ f.before \in Seq(D)
    BY DEF ReportedOf
  <2> HIDE DEF D, R
  <2>4. \A i \in 1..Len(question.files) : question.files[i].now \in Seq(D) /\ question.files[i].before \in Seq(D)
    BY <2>2, <2>3
  <2> QED
    BY <2>4, DiffBalancesThere
<1> QED
  BY <1>1, AskedWell, PTL

(* Whatever is asked about diagnostics or an outline, the tools show the   *)
(* same of it in every form: of one file, of several and of the workspace, *)
(* as text and as JSON (diagnostics.go), and as an outline and as an       *)
(* overview of each kind (symbols.go, api_overview.go).                     *)
THEOREM ViewsAreOne == ToolsSpec => []ViewsAgree
<1>1. WellFormed => ViewsAgree
  BY DiagnosticsAgreeThere, OutlinesAgreeThere DEF WellFormed, ViewsAgree
<1> QED
  BY <1>1, AskedWell, PTL

(* For any diagnostics and any answer of the server, apply_fix             *)
(* (apply_fix.go) takes a fix that does not depend on the order of the     *)
(* answer, a preferred one if there is any, and asked for a range that     *)
(* covers all the diagnostics it is for.                                   *)
THEOREM FixIsTheBest == ToolsSpec => []FixChosen
<1>1. WellFormed => FixChosen
  BY FixChosenThere DEF WellFormed, FixChosen
<1> QED
  BY <1>1, AskedWell, PTL

(* For any line and column, given or not, the tools ask for the place that *)
(* these name, counted from 1, and for no other (tools.go).                *)
THEOREM PlaceIsAskedFor == ToolsSpec => []PlacesAsked
<1>1. WellFormed => PlacesAsked
  BY PlacesAskedThere DEF WellFormed, PlacesAsked
<1> QED
  BY <1>1, AskedWell, PTL

(* For any servers, symbols and names, a tool by name answers as if the    *)
(* servers that fail, and the symbols that cannot be read, were not there, *)
(* and definition finds a symbol by its container and name.                *)
THEOREM NamesAreResolved == ToolsSpec => []NamesResolve
<1>1. WellFormed => NamesResolve
  BY NamesResolveThere DEF WellFormed
<1> QED
  BY <1>1, AskedWell, PTL

(* For any workspace, flags and installed servers: each language gets an   *)
(* installed server of its own and is routed to it, what the watcher       *)
(* follows the scan has come to, and a server that flags name gets the     *)
(* files it would be detected for (autodetect.go, router.go, main.go).     *)
THEOREM FilesGetTheirServer == ToolsSpec => []FilesAreServed
<1>1. WellFormed => FilesAreServed
  BY WorkspaceServed, NamedServed DEF WellFormed, FilesAreServed
<1> QED
  BY <1>1, AskedWell, PTL

(* For any lines, places and outline, an answer shows the lines to be      *)
(* shown, that of each place among them, and the definition of the         *)
(* innermost symbol (utilities.go, lsp-utilities.go); for any references   *)
(* and any limit, turning the pages one sees every reference once, unless  *)
(* a page says that it was cut (references.go, utilities.go:63-88).        *)
THEOREM PlacesAreShown == ToolsSpec => []PlacesShown
<1>1. WellFormed => PlacesShown
  BY LinesRightThere, PagesRightThere DEF WellFormed, PlacesShown
<1> QED
  BY <1>1, AskedWell, PTL
=============================================================================
