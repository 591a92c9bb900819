----------------------------- MODULE AnswersProofs ----------------------------
(***************************************************************************)
(* Proofs about the answers that the tools put together step by step, for  *)
(* questions of any size: the call graphs (CallGraph), the edits of texts  *)
(* and of lines (TextEdits), and the changes of files (FileChanges).       *)
(***************************************************************************)
EXTENDS Tools, FiniteSetTheorems, SequenceTheorems, WellFoundedInduction, TLAPS

(* Induction over the natural numbers, for a set of them.                  *)
LEMMA Induction ==
  ASSUME NEW T, T \subseteq Nat, 0 \in T, \A n \in T : n + 1 \in T
  PROVE  \A n \in Nat : n \in T
<1> SUFFICES ASSUME Nat \ T # {} PROVE FALSE
  OBVIOUS
<1>1. PICK x \in Nat \ T : \A y \in Nat \ T : ~(<<y, x>> \in OpToRel(<, Nat))
  BY NatLessThanWellFounded, WFMin
<1>2. \A y \in Nat \ T : ~ (y < x)
  BY <1>1 DEF OpToRel
<1>3. x # 0 /\ x - 1 \in Nat
  OBVIOUS
<1>4. x - 1 \in T
  BY <1>2, <1>3
<1> QED
  BY <1>4, <1>3

-----------------------------------------------------------------------------
(* Call graphs.                                                            *)

(* What is sent of the tokens of a text is read as these tokens.           *)
LEMMA DecodedRight ==
  ASSUME NEW Types,
         NEW tokens \in Seq([line : Nat, char : Nat, type : Types]), NEW types \in Seq(Types),
         \A i \in 1..Len(tokens) : \E k \in 1..Len(types) : types[k] = tokens[i].type,
         \A i \in 2..Len(tokens) : tokens[i - 1].line <= tokens[i].line
  PROVE  DecodeSemanticTokens(Encoded(tokens, types), types) = tokens
<1> DEFINE data == Encoded(tokens, types)
           N == Len(tokens)
           origin == [line |-> 0, char |-> 0]
           last(f, i) == IF i = 1 THEN origin ELSE f[i - 1]
           next(f, i) == [line |-> last(f, i).line + data[i].line,
                          char |-> IF data[i].line > 0 THEN data[i].char ELSE last(f, i).char + data[i].char,
                          type |-> IF data[i].type \in 1..Len(types) THEN types[data[i].type] ELSE ""]
           decode(f) == [i \in 1..N |-> next(f, i)]
           token == CHOOSE f : f = decode(f)
<1>1. /\ N \in Nat /\ tokens = [i \in 1..N |-> tokens[i]]
      /\ \A i \in 1..N : tokens[i] \in [line : Nat, char : Nat, type : Types]
  <2> DEFINE R == [line : Nat, char : Nat, type : Types]
  <2>1. tokens \in Seq(R)
    OBVIOUS
  <2> HIDE DEF R
  <2>2. N \in Nat /\ tokens = [i \in 1..N |-> tokens[i]] /\ \A i \in 1..N : tokens[i] \in R
    BY <2>1
  <2> QED
    BY <2>2 DEF R
<1>2. \A i \in 1..N : /\ tokens[i] = [line |-> tokens[i].line, char |-> tokens[i].char, type |-> tokens[i].type]
                      /\ tokens[i].line \in Nat /\ tokens[i].char \in Nat
  BY <1>1
<1>3. /\ DOMAIN data = 1..N /\ Len(data) = N
      /\ \A i \in 1..N :
           /\ data[i].line = tokens[i].line - last(tokens, i).line
           /\ data[i].char = IF tokens[i].line = last(tokens, i).line
                             THEN tokens[i].char - last(tokens, i).char ELSE tokens[i].char
           /\ data[i].type = CHOOSE k \in 1..Len(types) : types[k] = tokens[i].type
  BY <1>1 DEF Encoded
<1>4. \A i \in 1..N : data[i].type \in 1..Len(types) /\ types[data[i].type] = tokens[i].type
  BY <1>3
<1>5. \A i \in 1..N : last(tokens, i).line \in Nat /\ last(tokens, i).char \in Nat
                      /\ last(tokens, i).line <= tokens[i].line
  <2> TAKE i \in 1..N
  <2>1. CASE i = 1
    <3>1. last(tokens, i) = origin
      BY <2>1
    <3>2. origin.line = 0 /\ origin.char = 0
      OBVIOUS
    <3>3. tokens[i].line \in Nat
      BY <1>2
    <3> HIDE DEF last, origin
    <3> QED
      BY <3>1, <3>2, <3>3
  <2>2. CASE i # 1
    <3>1. i \in 2..N /\ i - 1 \in 1..N
      BY <2>2, <1>1
    <3>2. tokens[i - 1].line <= tokens[i].line
      BY <3>1
    <3> QED
      BY <2>2, <3>1, <3>2, <1>2
  <2> QED
    BY <2>1, <2>2
<1>6. DecodeSemanticTokens(data, types) = token
  BY <1>3 DEF DecodeSemanticTokens
<1> HIDE DEF data, last
<1>7. \A i \in 1..N : next(tokens, i) = tokens[i]
  <2> TAKE i \in 1..N
  <2>1. /\ tokens[i].line \in Nat /\ tokens[i].char \in Nat /\ last(tokens, i).line \in Nat
        /\ last(tokens, i).char \in Nat /\ last(tokens, i).line <= tokens[i].line
    BY <1>2, <1>5
  <2>2. /\ data[i].line = tokens[i].line - last(tokens, i).line
        /\ data[i].char = IF tokens[i].line = last(tokens, i).line
                          THEN tokens[i].char - last(tokens, i).char ELSE tokens[i].char
    BY <1>3
  <2>3. /\ last(tokens, i).line + data[i].line = tokens[i].line
        /\ (IF data[i].line > 0 THEN data[i].char ELSE last(tokens, i).char + data[i].char) = tokens[i].char
    <3>1. CASE tokens[i].line = last(tokens, i).line
      <4>1. data[i].line = 0 /\ data[i].char = tokens[i].char - last(tokens, i).char
        BY <2>1, <2>2, <3>1
      <4> QED
        BY <2>1, <4>1, <3>1
    <3>2. CASE tokens[i].line # last(tokens, i).line
      <4>1. data[i].line > 0 /\ data[i].char = tokens[i].char
        BY <2>1, <2>2, <3>2
      <4> QED
        BY <2>1, <2>2, <4>1
    <3> QED
      BY <3>1, <3>2
  <2>4. (IF data[i].type \in 1..Len(types) THEN types[data[i].type] ELSE "") = tokens[i].type
    BY <1>4
  <2> QED
    BY <2>3, <2>4, <1>2
<1>8. tokens = decode(tokens)
  BY <1>1, <1>7
<1> HIDE DEF decode
<1>9. token = decode(token)
  BY <1>8
<1> HIDE DEF token
<1>10. token = [i \in 1..N |-> next(token, i)]
  BY <1>9 DEF decode
<1>11. \A n \in Nat : n \in {k \in Nat : k <= N => \A i \in 1..k : token[i] = tokens[i]}
  <2> DEFINE T == {k \in Nat : k <= N => \A i \in 1..k : token[i] = tokens[i]}
  <2>1. 0 \in T
    OBVIOUS
  <2>2. ASSUME NEW k \in T PROVE k + 1 \in T
    <3> SUFFICES ASSUME k + 1 <= N PROVE token[k + 1] = tokens[k + 1]
      BY <2>2
    <3>1. k + 1 \in 1..N /\ k \in Nat /\ \A i \in 1..k : token[i] = tokens[i]
      BY <1>1, <2>2
    <3>2. last(token, k + 1) = last(tokens, k + 1)
      BY <3>1 DEF last
    <3> QED
      BY <3>1, <3>2, <1>7, <1>10
  <2> HIDE DEF T
  <2>3. \A n \in Nat : n \in T
    <3>1. T \subseteq Nat
      BY DEF T
    <3> QED
      BY <2>1, <2>2, <3>1, Induction
  <2> QED
    BY <2>3 DEF T
<1>12. \A i \in 1..N : token[i] = tokens[i]
  <2>1. N \in {k \in Nat : k <= N => \A i \in 1..k : token[i] = tokens[i]}
    BY <1>1, <1>11
  <2> QED
    BY <2>1, <1>1
<1> QED
  BY <1>1, <1>6, <1>10, <1>12 DEF data

(* The elements of a finite set in some order: each is there once.         *)
LEMMA InSomeOrder ==
  ASSUME NEW S, IsFiniteSet(S)
  PROVE  /\ Cardinality(S) \in Nat /\ SetToSeq(S) \in [1..Cardinality(S) -> S] /\ Len(SetToSeq(S)) = Cardinality(S)
         /\ \A i, j \in 1..Cardinality(S) : SetToSeq(S)[i] = SetToSeq(S)[j] => i = j
         /\ \A x \in S : \E i \in 1..Cardinality(S) : SetToSeq(S)[i] = x
<1> DEFINE n == Cardinality(S)
           s == SetToSeq(S)
<1>1. n \in Nat /\ ExistsBijection(1..n, S)
  BY FS_CardinalityType
<1>2. \E f \in [1..n -> S] : IsInjective(f)
  BY <1>1 DEF ExistsBijection, Bijection, Injection
<1>3. s \in [1..n -> S] /\ IsInjective(s)
  BY <1>2 DEF SetToSeq
<1> HIDE DEF s
<1>4. s \in Injection(1..n, S)
  BY <1>3 DEF Injection
<1>5. Cardinality(1..n) = n
  <2>1. 1 \in Int /\ n \in Int
    BY <1>1
  <2>2. Cardinality(1..n) = IF 1 > n THEN 0 ELSE n - 1 + 1
    BY <2>1, FS_Interval
  <2> QED
    BY <1>1, <2>2
<1>6. s \in Surjection(1..n, S)
  BY <1>4, <1>5, FS_Injection
<1>7. Len(s) = n
  BY <1>1, <1>3
<1> QED
  BY <1>1, <1>3, <1>6, <1>7 DEF IsInjective, Surjection, s

(* What a function makes of finitely many places is finite.                *)
LEMMA ImageFinite ==
  ASSUME NEW n \in Nat, NEW D \in SUBSET (1..n), NEW f, DOMAIN f = D, NEW S, S = {f[i] : i \in D}
  PROVE  IsFiniteSet(S)
<1> DEFINE g == [i \in D |-> f[i]]
<1>1. IsFiniteSet(D)
  <2>1. 1 \in Int /\ n \in Int
    OBVIOUS
  <2>2. IsFiniteSet(1..n)
    BY <2>1, FS_Interval
  <2> QED
    BY <2>2, FS_Subset
<1>2. g \in Surjection(D, S)
  BY DEF Surjection
<1> HIDE DEF g
<1> QED
  BY <1>1, <1>2, FS_Surjection

(* The callees of an item are the targets of the functions and methods     *)
(* named in it.                                                            *)
CalleesTold(tokens, item, data, types, defs, prepared) ==
  LET named == {t \in ToSet(tokens) : /\ t.type \in {"function", "method"}
                                      /\ RangeContains(item.range, t) /\ ~RangeContains(item.selection, t)}
      defined == {defs[<<t.line, t.char>>] : t \in named} \ {<<>>}
  IN  ToSet(SyntheticOutgoingCalls(item, data, types, defs, prepared)) = {prepared[d[1]] : d \in defined}

(* So are those that are put together.                                     *)
LEMMA SyntheticRight ==
  ASSUME NEW tokens, Len(tokens) \in Nat, DOMAIN tokens = 1..Len(tokens), NEW item, NEW data, NEW types, NEW defs,
         NEW prepared, DecodeSemanticTokens(data, types) = tokens
  PROVE  CalleesTold(tokens, item, data, types, defs, prepared)
<1> DEFINE named == {t \in ToSet(tokens) : /\ t.type \in {"function", "method"}
                                           /\ RangeContains(item.range, t) /\ ~RangeContains(item.selection, t)}
           of(t) == defs[<<t.line, t.char>>]
           found == {t \in named : of(t) # <<>>}
           targets == {of(t)[1] : t \in found}
           calls == {prepared[target] : target \in targets}
           D == {i \in 1..Len(tokens) : tokens[i] \in found}
           f == [i \in D |-> prepared[of(tokens[i])[1]]]
<1>1. SyntheticOutgoingCalls(item, data, types, defs, prepared) = SetToSeq(calls)
  BY DEF SyntheticOutgoingCalls
<1>2. found \subseteq ToSet(tokens) /\ \A x \in ToSet(tokens) : \E i \in 1..Len(tokens) : tokens[i] = x
  BY DEF ToSet
<1> HIDE DEF found, of
<1>3. calls = {f[i] : i \in D}
  <2>1. calls = {prepared[of(t)[1]] : t \in found}
    OBVIOUS
  <2>2. \A i \in D : tokens[i] \in found
    OBVIOUS
  <2>3. \A t \in found : \E i \in D : tokens[i] = t
    BY <1>2
  <2>4. \A i \in D : f[i] = prepared[of(tokens[i])[1]]
    OBVIOUS
  <2> HIDE DEF calls, f, D
  <2> QED
    BY <2>1, <2>2, <2>3, <2>4
<1>4. DOMAIN f = D /\ D \in SUBSET (1..Len(tokens))
  OBVIOUS
<1> HIDE DEF f, D, calls
<1>5. IsFiniteSet(calls)
  BY <1>3, <1>4, ImageFinite
<1>6. ToSet(SetToSeq(calls)) = calls
  BY <1>5, InSomeOrder DEF ToSet
<1>7. calls = {prepared[d[1]] : d \in {of(t) : t \in named} \ {<<>>}}
  BY DEF calls, found
<1> QED
  BY <1>1, <1>6, <1>7 DEF of, CalleesTold

(* Marked and linked, a graph is one over the same nodes.                  *)
LEMMA LinkedIs ==
  ASSUME NEW key, NEW g \in Graphs(key), NEW k \in Range(key), NEW c \in Range(key), NEW out \in BOOLEAN
  PROVE  /\ Linked(g, k, c, out) \in Graphs(key)
         /\ Linked(g, k, c, out).nodes = g.nodes \cup {c} /\ Linked(g, k, c, out).seen = g.seen
         /\ Linked(g, k, c, out).edges = g.edges \cup {IF out THEN <<k, c>> ELSE <<c, k>>}
         /\ Marked(g, k) \in Graphs(key)
         /\ Marked(g, k).nodes = g.nodes /\ Marked(g, k).edges = g.edges
         /\ Marked(g, k).seen = g.seen \cup {k}
<1> DEFINE K == Range(key)
<1>1. /\ g = [nodes |-> g.nodes, edges |-> g.edges, seen |-> g.seen]
      /\ g.nodes \in SUBSET K /\ g.edges \in SUBSET (K \X K) /\ g.seen \in SUBSET K
  BY DEF Graphs
<1>2. /\ g.nodes \cup {c} \in SUBSET K /\ g.seen \cup {k} \in SUBSET K
      /\ g.edges \cup {IF out THEN <<k, c>> ELSE <<c, k>>} \in SUBSET (K \X K)
  BY <1>1
<1> HIDE DEF K
<1>3. Linked(g, k, c, out) = [nodes |-> g.nodes \cup {c}, edges |-> g.edges \cup {IF out THEN <<k, c>> ELSE <<c, k>>},
                              seen |-> g.seen]
  BY DEF Linked
<1>4. Marked(g, k) = [nodes |-> g.nodes, edges |-> g.edges, seen |-> g.seen \cup {k}]
  BY DEF Marked
<1>5. Graphs(key) = [nodes : SUBSET K, edges : SUBSET (K \X K), seen : SUBSET K]
  BY DEF Graphs, K
<1> QED
  BY <1>1, <1>2, <1>3, <1>4, <1>5

(* after holds the graphs after the first m calls of an item.              *)
AfterCalls(after, m, walk, calls, key, out, i, g) ==
  /\ after \in [0..m -> Graphs(key)]
  /\ after[0] = Marked(g, key[i])
  /\ \A n \in 1..m : after[n] = walk[calls[i][n]][Linked(after[n - 1], key[i], key[calls[i][n]], out)]

(* What an item is expanded to is the last of such graphs.                 *)
Runs(walk, calls, key, out, i, g) ==
  \E after : /\ AfterCalls(after, Len(calls[i]), walk, calls, key, out, i, g)
             /\ Expanded(walk, calls, key, out, i, g) = after[Len(calls[i])]

(* There are such graphs, and the last is what the calls make of it.       *)
LEMMA ExpandedRuns ==
  ASSUME NEW key, NEW calls \in [DOMAIN key -> Seq(DOMAIN key)], NEW out \in BOOLEAN,
         NEW walk \in [DOMAIN key -> [Graphs(key) -> Graphs(key)]], NEW i \in DOMAIN key, NEW g \in Graphs(key)
  PROVE  Runs(walk, calls, key, out, i, g) /\ Expanded(walk, calls, key, out, i, g) \in Graphs(key)
<1> DEFINE N == Len(calls[i])
           G == Graphs(key)
           I == DOMAIN key
           marked == Marked(g, key[i])
           met(h, n) == walk[calls[i][n]][Linked(h, key[i], key[calls[i][n]], out)]
           P(m) == \E after : AfterCalls(after, m, walk, calls, key, out, i, g)
           T == {m \in Nat : m <= N => P(m)}
<1>1. N \in Nat /\ \A n \in 1..N : calls[i][n] \in I
  <2>1. calls[i] \in Seq(I)
    OBVIOUS
  <2> HIDE DEF I
  <2> QED
    BY <2>1
<1>2. \A x \in I : key[x] \in Range(key)
  BY DEF Range
<1>3. marked \in G
  BY <1>2, LinkedIs
<1>4. \A h \in G, n \in 1..N : met(h, n) \in G
  <2> TAKE h \in G, n \in 1..N
  <2>1. Linked(h, key[i], key[calls[i][n]], out) \in G
    BY <1>1, <1>2, LinkedIs
  <2> QED
    BY <1>1, <2>1
<1> HIDE DEF marked, met, G, N
<1>5. 0 \in T
  <2>1. AfterCalls([n \in 0..0 |-> marked], 0, walk, calls, key, out, i, g)
    BY <1>3 DEF AfterCalls, marked, G
  <2> QED
    BY <2>1
<1>6. ASSUME NEW m \in T PROVE m + 1 \in T
  <2> SUFFICES ASSUME m + 1 <= N PROVE P(m + 1)
    OBVIOUS
  <2>1. m \in Nat /\ m + 1 \in 1..N
    BY <1>1
  <2>2. PICK f : AfterCalls(f, m, walk, calls, key, out, i, g)
    BY <1>6, <2>1, <1>1
  <2>3. f \in [0..m -> G] /\ f[0] = marked /\ \A n \in 1..m : f[n] = met(f[n - 1], n)
    BY <2>2 DEF AfterCalls, marked, met, G
  <2> DEFINE h == [n \in 0..(m + 1) |-> IF n = m + 1 THEN met(f[m], m + 1) ELSE f[n]]
  <2>4. h \in [0..(m + 1) -> G]
    BY <2>1, <2>3, <1>4
  <2>5. h[0] = marked
    BY <2>1, <2>3
  <2>6. \A n \in 1..(m + 1) : h[n] = met(h[n - 1], n)
    <3> TAKE n \in 1..(m + 1)
    <3>1. CASE n = m + 1
      BY <3>1, <2>1
    <3>2. CASE n # m + 1
      <4>1. n \in 1..m /\ n - 1 \in 0..m /\ n - 1 # m + 1
        BY <3>2, <2>1
      <4> QED
        BY <4>1, <3>2, <2>1, <2>3
    <3> QED
      BY <3>1, <3>2
  <2> HIDE DEF h
  <2>7. AfterCalls(h, m + 1, walk, calls, key, out, i, g)
    BY <2>4, <2>5, <2>6 DEF AfterCalls, marked, met, G
  <2> QED
    BY <2>7
<1>7. N \in T
  <2> HIDE DEF P
  <2>1. T \subseteq Nat
    OBVIOUS
  <2> HIDE DEF T
  <2> QED
    BY <2>1, <1>1, <1>5, <1>6, Induction
<1>8. PICK f : AfterCalls(f, N, walk, calls, key, out, i, g)
  BY <1>1, <1>7
<1>9. f \in [0..N -> G] /\ f[0] = marked /\ \A n \in 1..N : f[n] = met(f[n - 1], n)
  BY <1>8 DEF AfterCalls, marked, met, G
<1> DEFINE next(h) == [n \in 0..N |-> IF n = 0 THEN marked ELSE met(h[n - 1], n)]
           after == CHOOSE h : h = next(h)
<1>10. f = next(f)
  BY <1>9, <1>1
<1>11. Expanded(walk, calls, key, out, i, g) = after[N]
  BY DEF Expanded, marked, met, N
<1> HIDE DEF next
<1>12. after = next(after)
  BY <1>10
<1> HIDE DEF after
<1>13. /\ DOMAIN after = 0..N /\ after[0] = marked /\ \A n \in 1..N : after[n] = met(after[n - 1], n)
  <2>1. after = [n \in 0..N |-> IF n = 0 THEN marked ELSE met(after[n - 1], n)]
    BY <1>12 DEF next
  <2> QED
    BY <2>1, <1>1
<1>14. after[N] = f[N]
  <2> DEFINE S == {m \in Nat : m <= N => after[m] = f[m]}
  <2>1. 0 \in S
    BY <1>9, <1>13
  <2>2. ASSUME NEW m \in S PROVE m + 1 \in S
    <3> SUFFICES ASSUME m + 1 <= N PROVE after[m + 1] = f[m + 1]
      OBVIOUS
    <3>1. m \in Nat /\ m + 1 \in 1..N /\ (m + 1) - 1 = m /\ after[m] = f[m]
      <4>1. m \in Nat /\ m <= N /\ m + 1 \in 1..N /\ (m + 1) - 1 = m
        BY <1>1
      <4> QED
        BY <2>2, <4>1
    <3>2. after[m + 1] = met(after[m], m + 1) /\ f[m + 1] = met(f[m], m + 1)
      BY <3>1, <1>9, <1>13
    <3> QED
      BY <3>1, <3>2
  <2>3. S \subseteq Nat
    OBVIOUS
  <2> HIDE DEF S
  <2>4. N \in S
    BY <2>1, <2>2, <2>3, <1>1, Induction
  <2> QED
    BY <2>4, <1>1 DEF S
<1>15. f[N] \in G
  BY <1>1, <1>9
<1> QED
  BY <1>8, <1>11, <1>14, <1>15 DEF Runs, N, G

(* w holds the walks down to each depth up to d.                           *)
Walks(w, d, calls, key, out) ==
  /\ w \in [0..d -> [DOMAIN key -> [Graphs(key) -> Graphs(key)]]]
  /\ \A i \in DOMAIN key, g \in Graphs(key) : w[0][i][g] = g
  /\ \A r \in 1..d, i \in DOMAIN key, g \in Graphs(key) :
       w[r][i][g] = IF key[i] \in g.seen THEN g ELSE Expanded(w[r - 1], calls, key, out, i, g)

(* Walk is what they have come to.                                         *)
MadeBy(w, d, calls, key, out) ==
  \A root \in DOMAIN key, g \in Graphs(key) : Walk(calls, key, out, root, d, g) = w[d][root][g]

(* There are such walks, and the last is the one that is made.             *)
LEMMA WalkRuns ==
  ASSUME NEW key, NEW calls \in [DOMAIN key -> Seq(DOMAIN key)], NEW out \in BOOLEAN, NEW d \in Nat, d > 0
  PROVE  \E w : Walks(w, d, calls, key, out) /\ MadeBy(w, d, calls, key, out)
<1> DEFINE I == DOMAIN key
           G == Graphs(key)
           W == [I -> [G -> G]]
           deeper(v, r) == [i \in I |-> [g \in G |->
                              IF r = 0 \/ key[i] \in g.seen THEN g ELSE Expanded(v, calls, key, out, i, g)]]
           P(m) == \E w : Walks(w, m, calls, key, out)
           T == {m \in Nat : m <= d => P(m)}
<1>1. \A v \in W, r \in Nat : deeper(v, r) \in W
  <2> TAKE v \in W, r \in Nat
  <2>1. ASSUME NEW i \in I, NEW g \in G
        PROVE  Expanded(v, calls, key, out, i, g) \in G
    <3>1. v \in [DOMAIN key -> [Graphs(key) -> Graphs(key)]] /\ i \in DOMAIN key /\ g \in Graphs(key)
      OBVIOUS
    <3> HIDE DEF W, I, deeper
    <3> QED
      BY <3>1, ExpandedRuns
  <2> HIDE DEF G, I
  <2> QED
    BY <2>1
<1>2. DOMAIN calls = I
  OBVIOUS
<1> HIDE DEF G, W, I
<1>3. \E w \in [0..0 -> W] : w = [r \in 0..0 |-> [i \in I |-> [g \in G |-> g]]]
  BY DEF W
<1>4. 0 \in T
  <2>1. PICK w \in [0..0 -> W] : w = [r \in 0..0 |-> [i \in I |-> [g \in G |-> g]]]
    BY <1>3
  <2>2. Walks(w, 0, calls, key, out)
    BY <2>1 DEF Walks, W, I, G
  <2> QED
    BY <2>2
<1>5. ASSUME NEW m \in T PROVE m + 1 \in T
  <2> SUFFICES ASSUME m + 1 <= d PROVE P(m + 1)
    OBVIOUS
  <2>1. m \in Nat
    OBVIOUS
  <2>2. PICK f : Walks(f, m, calls, key, out)
    BY <1>5, <2>1
  <2>3. /\ f \in [0..m -> W] /\ \A i \in I, g \in G : f[0][i][g] = g
        /\ \A r \in 1..m, i \in I, g \in G :
             f[r][i][g] = IF key[i] \in g.seen THEN g ELSE Expanded(f[r - 1], calls, key, out, i, g)
    BY <2>2 DEF Walks, W, G, I
  <2>4. f[m] \in W
    BY <2>1, <2>3
  <2> DEFINE last == deeper(f[m], m + 1)
             h == [r \in 0..(m + 1) |-> IF r = m + 1 THEN last ELSE f[r]]
  <2>5. last \in W
    <3>1. m + 1 \in Nat
      BY <2>1
    <3> HIDE DEF deeper
    <3> QED
      BY <3>1, <2>4, <1>1
  <2>6. \A i \in I, g \in G : last[i][g] = IF key[i] \in g.seen THEN g ELSE Expanded(f[m], calls, key, out, i, g)
    BY <2>1
  <2> HIDE DEF last
  <2>7. h \in [0..(m + 1) -> W] /\ h[0] = f[0] /\ h[m + 1] = last /\ \A r \in 0..m : h[r] = f[r]
    BY <2>1, <2>3, <2>5
  <2> HIDE DEF h
  <2>8. ASSUME NEW r \in 1..(m + 1), NEW i \in I, NEW g \in G
        PROVE  h[r][i][g] = IF key[i] \in g.seen THEN g ELSE Expanded(h[r - 1], calls, key, out, i, g)
    <3>1. CASE r = m + 1
      BY <3>1, <2>1, <2>6, <2>7
    <3>2. CASE r # m + 1
      <4>1. r \in 1..m /\ r - 1 \in 0..m /\ r \in 0..m
        BY <3>2, <2>1
      <4>2. h[r] = f[r] /\ h[r - 1] = f[r - 1]
        BY <4>1, <2>7
      <4> QED
        BY <4>1, <4>2, <2>3
    <3> QED
      BY <3>1, <3>2
  <2>9. Walks(h, m + 1, calls, key, out)
    BY <2>3, <2>7, <2>8 DEF Walks, W, G, I
  <2> QED
    BY <2>9
<1>6. d \in T
  <2> HIDE DEF P
  <2>1. T \subseteq Nat
    OBVIOUS
  <2> HIDE DEF T
  <2> QED
    BY <2>1, <1>4, <1>5, Induction
<1>7. PICK f : Walks(f, d, calls, key, out)
  BY <1>6
<1>8. /\ f \in [0..d -> W] /\ \A i \in I, g \in G : f[0][i][g] = g
      /\ \A r \in 1..d, i \in I, g \in G :
           f[r][i][g] = IF key[i] \in g.seen THEN g ELSE Expanded(f[r - 1], calls, key, out, i, g)
  BY <1>7 DEF Walks, W, G, I
<1> DEFINE walks(h) == [r \in 0..d |-> deeper(h[r - 1], r)]
           walk == CHOOSE h : h = walks(h)
<1>9. \A r \in 0..d : f[r] = deeper(f[r - 1], r)
  <2> TAKE r \in 0..d
  <2>1. f[r] \in [I -> [G -> G]]
    BY <1>8 DEF W
  <2>2. \A i \in I, g \in G : f[r][i][g] = IF r = 0 \/ key[i] \in g.seen THEN g ELSE Expanded(f[r - 1], calls, key, out, i, g)
    <3> TAKE i \in I, g \in G
    <3>1. CASE r = 0
      BY <3>1, <1>8
    <3>2. CASE r # 0
      <4>1. r \in 1..d
        BY <3>2
      <4> QED
        BY <4>1, <3>2, <1>8
    <3> QED
      BY <3>1, <3>2
  <2>3. \A i \in I : f[r][i] = [g \in G |-> IF r = 0 \/ key[i] \in g.seen THEN g
                                           ELSE Expanded(f[r - 1], calls, key, out, i, g)]
    BY <2>1, <2>2
  <2> QED
    BY <2>1, <2>3
<1>10. f = walks(f)
  <2> HIDE DEF deeper
  <2> QED
    BY <1>8, <1>9
<1>11. \A root, g : Walk(calls, key, out, root, d, g) = walk[d][root][g]
  BY <1>2 DEF Walk, G
<1> HIDE DEF walks
<1>12. walk = walks(walk)
  BY <1>10
<1> HIDE DEF walk
<1>13. \A r \in 0..d : walk[r] = deeper(walk[r - 1], r)
  <2> HIDE DEF deeper
  <2>1. walk = [r \in 0..d |-> deeper(walk[r - 1], r)]
    BY <1>12 DEF walks
  <2> QED
    BY <2>1
<1>14. walk[d] = f[d]
  <2> DEFINE S == {m \in Nat : m <= d => walk[m] = f[m]}
  <2>1. 0 \in S
    <3>1. \A v : deeper(v, 0) = [i \in I |-> [g \in G |-> g]]
      OBVIOUS
    <3>2. walk[0] = deeper(walk[0 - 1], 0) /\ f[0] = deeper(f[0 - 1], 0)
      <4> HIDE DEF deeper
      <4> QED
        BY <1>9, <1>13
    <3> HIDE DEF deeper
    <3> QED
      BY <3>1, <3>2
  <2>2. ASSUME NEW m \in S PROVE m + 1 \in S
    <3> SUFFICES ASSUME m + 1 <= d PROVE walk[m + 1] = f[m + 1]
      OBVIOUS
    <3>1. m \in Nat /\ m + 1 \in 0..d /\ (m + 1) - 1 = m /\ walk[m] = f[m]
      BY <2>2
    <3> HIDE DEF deeper
    <3>2. walk[m + 1] = deeper(walk[m], m + 1) /\ f[m + 1] = deeper(f[m], m + 1)
      BY <3>1, <1>9, <1>13
    <3> QED
      BY <3>1, <3>2
  <2>3. S \subseteq Nat
    OBVIOUS
  <2> HIDE DEF S
  <2>4. d \in S
    BY <2>1, <2>2, <2>3, Induction
  <2> QED
    BY <2>4 DEF S
<1> QED
  BY <1>7, <1>11, <1>14 DEF MadeBy

(* Induction up to a number.                                               *)
LEMMA Upward ==
  ASSUME NEW N \in Nat, NEW S, 0 \in S, \A n \in 0..(N - 1) : n \in S => n + 1 \in S
  PROVE  \A n \in 0..N : n \in S
<1> DEFINE T == {m \in Nat : m <= N => m \in S}
<1>1. T \subseteq Nat /\ 0 \in T
  OBVIOUS
<1>2. \A m \in T : m + 1 \in T
  OBVIOUS
<1> HIDE DEF T
<1>3. \A m \in Nat : m \in T
  BY <1>1, <1>2, Induction
<1> QED
  BY <1>3 DEF T

(* The edge of a call, from its caller to its callee.                      *)
Edge(out, k, c) == IF out THEN <<k, c>> ELSE <<c, k>>

(* From a to b by a call of item i that item c is the other end of.        *)
CallMet(a, b, v, c, key, out, i) ==
  \E l \in Graphs(key) : /\ l.nodes = a.nodes \cup {key[c]} /\ l.edges = a.edges \cup {Edge(out, key[i], key[c])}
                         /\ l.seen = a.seen /\ b = v[c][l]

(* From g to h by the calls of item i, with the graphs between.            *)
Steps(after, v, calls, key, out, i, g, h) ==
  LET N == Len(calls[i])
  IN  /\ N \in Nat /\ after \in [0..N -> Graphs(key)] /\ after[N] = h
      /\ after[0].nodes = g.nodes /\ after[0].edges = g.edges /\ after[0].seen = g.seen \cup {key[i]}
      /\ \A n \in 0..(N - 1) : /\ calls[i][n + 1] \in DOMAIN key
                               /\ CallMet(after[n], after[n + 1], v, calls[i][n + 1], key, out, i)

(* What an item is expanded to comes about in such steps.                  *)
LEMMA ExpandedSteps ==
  ASSUME NEW key, NEW calls \in [DOMAIN key -> Seq(DOMAIN key)], NEW out \in BOOLEAN,
         NEW v \in [DOMAIN key -> [Graphs(key) -> Graphs(key)]], NEW i \in DOMAIN key, NEW g \in Graphs(key)
  PROVE  \E after : Steps(after, v, calls, key, out, i, g, Expanded(v, calls, key, out, i, g))
<1> DEFINE N == Len(calls[i])
           G == Graphs(key)
           I == DOMAIN key
<1>1. N \in Nat /\ \A n \in 1..N : calls[i][n] \in I
  <2>1. calls[i] \in Seq(I)
    OBVIOUS
  <2> HIDE DEF I
  <2> QED
    BY <2>1
<1>2. \A x \in I : key[x] \in Range(key)
  BY DEF Range
<1>3. Runs(v, calls, key, out, i, g)
  BY ExpandedRuns
<1>4. PICK after : AfterCalls(after, N, v, calls, key, out, i, g) /\ Expanded(v, calls, key, out, i, g) = after[N]
  BY <1>3 DEF Runs
<1>5. /\ after \in [0..N -> G] /\ after[0] = Marked(g, key[i])
      /\ \A n \in 1..N : after[n] = v[calls[i][n]][Linked(after[n - 1], key[i], key[calls[i][n]], out)]
  BY <1>4 DEF AfterCalls
<1>6. after[0].nodes = g.nodes /\ after[0].edges = g.edges /\ after[0].seen = g.seen \cup {key[i]}
  BY <1>2, <1>5, LinkedIs
<1> HIDE DEF N, G, I
<1>7. ASSUME NEW n \in 0..(N - 1)
      PROVE  calls[i][n + 1] \in I /\ CallMet(after[n], after[n + 1], v, calls[i][n + 1], key, out, i)
  <2>1. n + 1 \in 1..N /\ (n + 1) - 1 = n /\ n \in 0..N
    BY <1>1
  <2> DEFINE c == calls[i][n + 1]
             l == Linked(after[n], key[i], key[c], out)
  <2>2. c \in I /\ after[n] \in G /\ after[n + 1] = v[c][l]
    BY <1>1, <1>5, <2>1
  <2>3. key[c] \in Range(key) /\ key[i] \in Range(key)
    BY <1>2, <2>2 DEF I
  <2> HIDE DEF c
  <2>4. /\ l \in Graphs(key) /\ l.nodes = after[n].nodes \cup {key[c]} /\ l.seen = after[n].seen
        /\ l.edges = after[n].edges \cup {Edge(out, key[i], key[c])}
    <3>1. after[n] \in Graphs(key)
      BY <2>2 DEF G
    <3>2. Edge(out, key[i], key[c]) = IF out THEN <<key[i], key[c]>> ELSE <<key[c], key[i]>>
      BY DEF Edge
    <3> QED
      BY <2>3, <3>1, <3>2, LinkedIs
  <2> HIDE DEF l
  <2>5. CallMet(after[n], after[n + 1], v, c, key, out, i)
    BY <2>2, <2>4 DEF CallMet
  <2> QED
    BY <2>2, <2>5 DEF c
<1>8. Steps(after, v, calls, key, out, i, g, Expanded(v, calls, key, out, i, g))
  BY <1>1, <1>4, <1>5, <1>6, <1>7 DEF Steps, N, G, I
<1> QED
  BY <1>8

(* From the walks down to a depth to those one deeper.                     *)
Deepens(v, deeper, calls, key, out) ==
  \A i \in DOMAIN key, g \in Graphs(key) :
    \/ key[i] \in g.seen /\ deeper[i][g] = g
    \/ key[i] \notin g.seen /\ \E after : Steps(after, v, calls, key, out, i, g, deeper[i][g])

(* A walk from each item makes a graph of each.                            *)
AllWalks(key) == [DOMAIN key -> [Graphs(key) -> Graphs(key)]]

(* Each of the walks goes one call deeper than the one before it.          *)
LEMMA WalksDeepen ==
  ASSUME NEW key, NEW calls \in [DOMAIN key -> Seq(DOMAIN key)], NEW out \in BOOLEAN, NEW d \in Nat, NEW w,
         Walks(w, d, calls, key, out)
  PROVE  /\ \A r \in 0..d : w[r] \in AllWalks(key)
         /\ \A i \in DOMAIN key, g \in Graphs(key) : w[0][i][g] = g
         /\ \A r \in 0..(d - 1) : Deepens(w[r], w[r + 1], calls, key, out)
<1>1. \A r \in 0..d : w[r] \in AllWalks(key)
  BY DEF Walks, AllWalks
<1>2. \A i \in DOMAIN key, g \in Graphs(key) : w[0][i][g] = g
  BY DEF Walks
<1>3. ASSUME NEW r \in 0..(d - 1), NEW i \in DOMAIN key, NEW g \in Graphs(key), key[i] \notin g.seen
      PROVE  \E after : Steps(after, w[r], calls, key, out, i, g, w[r + 1][i][g])
  <2>1. r + 1 \in 1..d /\ (r + 1) - 1 = r /\ r \in 0..d
    OBVIOUS
  <2>2. w[r + 1][i][g] = Expanded(w[r], calls, key, out, i, g)
    BY <1>3, <2>1 DEF Walks
  <2>3. w[r] \in [DOMAIN key -> [Graphs(key) -> Graphs(key)]]
    BY <1>1, <2>1 DEF AllWalks
  <2>4. \E after : Steps(after, w[r], calls, key, out, i, g, Expanded(w[r], calls, key, out, i, g))
    BY <2>3, ExpandedSteps
  <2> QED
    BY <2>2, <2>4
<1>4. ASSUME NEW r \in 0..(d - 1), NEW i \in DOMAIN key, NEW g \in Graphs(key), key[i] \in g.seen
      PROVE  w[r + 1][i][g] = g
  <2>1. r + 1 \in 1..d
    OBVIOUS
  <2> QED
    BY <1>4, <2>1 DEF Walks
<1> QED
  BY <1>1, <1>2, <1>3, <1>4 DEF Deepens

(* Between the two a graph only gets more, and stays one whose edges are   *)
(* between its nodes.                                                      *)
Between(g) == \A e \in g.edges : e[1] \in g.nodes /\ e[2] \in g.nodes

(* h has all that g has.                                                   *)
Grown(g, h) == /\ g.nodes \subseteq h.nodes /\ g.edges \subseteq h.edges /\ g.seen \subseteq h.seen

(* So do walks, and what is between nodes stays so.                        *)
Grows(v, key) ==
  \A i \in DOMAIN key, g \in Graphs(key) :
    Grown(g, v[i][g]) /\ (key[i] \in g.nodes /\ Between(g) => Between(v[i][g]))

(* The graphs between only grow,                                           *)
LEMMA StepsGrow ==
  ASSUME NEW key, NEW calls \in [DOMAIN key -> Seq(DOMAIN key)], NEW out \in BOOLEAN, NEW v, Grows(v, key),
         NEW i \in DOMAIN key, NEW g \in Graphs(key), NEW h, NEW after, Steps(after, v, calls, key, out, i, g, h)
  PROVE  /\ \A n \in 0..Len(calls[i]) : Grown(g, after[n]) /\ key[i] \in after[n].seen
         /\ key[i] \in g.nodes /\ Between(g) => \A n \in 0..Len(calls[i]) : Between(after[n])
<1> DEFINE N == Len(calls[i])
           S == {n \in 0..N : Grown(g, after[n]) /\ key[i] \in after[n].seen}
           B == {n \in 0..N : key[i] \in g.nodes /\ Between(g) => key[i] \in after[n].nodes /\ Between(after[n])}
<1>1. /\ N \in Nat /\ after[0].nodes = g.nodes /\ after[0].edges = g.edges /\ after[0].seen = g.seen \cup {key[i]}
      /\ \A n \in 0..(N - 1) : /\ calls[i][n + 1] \in DOMAIN key
                               /\ CallMet(after[n], after[n + 1], v, calls[i][n + 1], key, out, i)
  BY DEF Steps
<1> HIDE DEF N
<1>2. 0 \in S /\ 0 \in B
  BY <1>1 DEF Grown, Between
<1>3. ASSUME NEW n \in 0..(N - 1)
      PROVE  /\ n \in S => n + 1 \in S
             /\ n \in B => n + 1 \in B
  <2>1. n + 1 \in 0..N
    BY <1>1
  <2> DEFINE c == calls[i][n + 1]
  <2>2. c \in DOMAIN key /\ CallMet(after[n], after[n + 1], v, c, key, out, i)
    BY <1>1
  <2> HIDE DEF c
  <2>3. PICK l \in Graphs(key) :
          /\ l.nodes = after[n].nodes \cup {key[c]} /\ l.edges = after[n].edges \cup {Edge(out, key[i], key[c])}
          /\ l.seen = after[n].seen /\ after[n + 1] = v[c][l]
    BY <2>2 DEF CallMet
  <2>4. Grown(l, after[n + 1]) /\ (key[c] \in l.nodes /\ Between(l) => Between(after[n + 1]))
    BY <2>2, <2>3 DEF Grows
  <2>5. n \in S => n + 1 \in S
    BY <2>1, <2>3, <2>4 DEF Grown
  <2>6. key[i] \in after[n].nodes /\ Between(after[n]) => key[i] \in after[n + 1].nodes /\ Between(after[n + 1])
    <3>1. key[i] \in after[n].nodes /\ Between(after[n]) => Between(l)
      BY <2>3 DEF Between, Edge
    <3> QED
      BY <2>3, <2>4, <3>1 DEF Grown
  <2> QED
    BY <2>1, <2>5, <2>6
<1> HIDE DEF S, B
<1>4. \A n \in 0..N : n \in S
  BY <1>1, <1>2, <1>3, Upward
<1>5. \A n \in 0..N : n \in B
  BY <1>1, <1>2, <1>3, Upward
<1> QED
  BY <1>4, <1>5 DEF S, B, N

(* and so does every graph that is walked.                                 *)
LEMMA WalksGrow ==
  ASSUME NEW key, NEW calls \in [DOMAIN key -> Seq(DOMAIN key)], NEW out \in BOOLEAN, NEW d \in Nat, NEW w,
         Walks(w, d, calls, key, out)
  PROVE  \A r \in 0..d : Grows(w[r], key)
<1> DEFINE S == {r \in 0..d : Grows(w[r], key)}
<1>1. 0 \in S
  <2>1. \A i \in DOMAIN key, g \in Graphs(key) : w[0][i][g] = g
    BY WalksDeepen
  <2> QED
    BY <2>1 DEF Grows, Grown
<1>2. ASSUME NEW r \in 0..(d - 1), r \in S PROVE r + 1 \in S
  <2>1. Grows(w[r], key) /\ r + 1 \in 0..d
    BY <1>2
  <2>2. Deepens(w[r], w[r + 1], calls, key, out)
    BY WalksDeepen
  <2>3. ASSUME NEW i \in DOMAIN key, NEW g \in Graphs(key)
        PROVE  /\ Grown(g, w[r + 1][i][g])
               /\ key[i] \in g.nodes /\ Between(g) => Between(w[r + 1][i][g])
    <3>1. CASE key[i] \in g.seen
      BY <2>2, <3>1 DEF Deepens, Grown
    <3>2. CASE key[i] \notin g.seen
      <4>1. PICK after : Steps(after, w[r], calls, key, out, i, g, w[r + 1][i][g])
        BY <2>2, <3>2 DEF Deepens
      <4>2. Len(calls[i]) \in 0..Len(calls[i]) /\ after[Len(calls[i])] = w[r + 1][i][g]
        BY <4>1 DEF Steps
      <4>3. /\ \A n \in 0..Len(calls[i]) : Grown(g, after[n])
            /\ key[i] \in g.nodes /\ Between(g) => \A n \in 0..Len(calls[i]) : Between(after[n])
        BY <2>1, <4>1, StepsGrow
      <4> QED
        BY <4>2, <4>3
    <3> QED
      BY <3>1, <3>2
  <2> QED
    BY <2>1, <2>3 DEF Grows
<1> HIDE DEF S
<1>3. \A r \in 0..d : r \in S
  BY <1>1, <1>2, Upward
<1> QED
  BY <1>3 DEF S

(* near[n]: what is at most n calls away from the root.                    *)
Nears(near, calls, key, root, d) ==
  /\ near[0] = {key[root]}
  /\ \A n \in 0..(d - 1) : near[n + 1] = near[n] \cup {e[2] : e \in {e \in CallsOf(calls, key) : e[1] \in near[n]}}

(* There is such a sequence, and Within is its last.                       *)
LEMMA WithinRuns ==
  ASSUME NEW key, NEW calls, NEW root, NEW d \in Nat, d > 0
  PROVE  \E near : Nears(near, calls, key, root, d) /\ Within(calls, key, root, d) = near[d]
<1> DEFINE C == CallsOf(calls, key)
           V == SUBSET ({key[root]} \cup {e[2] : e \in C})
           more(N) == N \cup {e[2] : e \in {e \in C : e[1] \in N}}
           P(f, m) == f \in [0..m -> V] /\ f[0] = {key[root]} /\ \A n \in 1..m : f[n] = more(f[n - 1])
           T == {m \in Nat : \E f : P(f, m)}
<1>1. {key[root]} \in V /\ \A N \in V : more(N) \in V
  OBVIOUS
<1> HIDE DEF C, more, V
<1>2. 0 \in T
  <2>1. P([n \in 0..0 |-> {key[root]}], 0)
    BY <1>1
  <2> QED
    BY <2>1
<1>3. ASSUME NEW m \in T PROVE m + 1 \in T
  <2>1. PICK f : P(f, m)
    OBVIOUS
  <2> DEFINE h == [n \in 0..(m + 1) |-> IF n = m + 1 THEN more(f[m]) ELSE f[n]]
  <2>2. h \in [0..(m + 1) -> V] /\ h[0] = f[0] /\ h[m + 1] = more(f[m]) /\ \A n \in 0..m : h[n] = f[n]
    BY <1>1, <2>1
  <2> HIDE DEF h
  <2>3. ASSUME NEW n \in 1..(m + 1) PROVE h[n] = more(h[n - 1])
    <3>1. CASE n = m + 1
      BY <3>1, <2>2
    <3>2. CASE n # m + 1
      <4>1. n \in 1..m /\ n \in 0..m /\ n - 1 \in 0..m
        BY <3>2
      <4> QED
        BY <4>1, <2>1, <2>2
    <3> QED
      BY <3>1, <3>2
  <2>4. P(h, m + 1)
    BY <2>1, <2>2, <2>3
  <2> QED
    BY <2>4
<1>4. \A m \in Nat : m \in T
  <2>1. T \subseteq Nat
    OBVIOUS
  <2> HIDE DEF T
  <2> QED
    BY <2>1, <1>2, <1>3, Induction
<1>5. PICK f : P(f, d)
  BY <1>4
<1> DEFINE next(h) == [n \in 0..d |-> IF n = 0 THEN {key[root]} ELSE more(h[n - 1])]
           near == CHOOSE h : h = next(h)
<1>6. f = next(f)
  <2>1. \A n \in 0..d : f[n] = IF n = 0 THEN {key[root]} ELSE more(f[n - 1])
    BY <1>5
  <2>2. f \in [0..d -> V]
    BY <1>5
  <2> QED
    BY <2>1, <2>2
<1>7. Within(calls, key, root, d) = near[d]
  BY DEF Within, more, C
<1> HIDE DEF next
<1>8. near = next(near)
  BY <1>6
<1> HIDE DEF near
<1>9. near = [n \in 0..d |-> IF n = 0 THEN {key[root]} ELSE more(near[n - 1])]
  BY <1>8 DEF next
<1>10. near[0] = {key[root]}
  BY <1>9
<1>11. \A n \in 0..(d - 1) : near[n + 1] = more(near[n])
  <2> TAKE n \in 0..(d - 1)
  <2>1. n + 1 \in 0..d /\ n + 1 # 0 /\ (n + 1) - 1 = n
    OBVIOUS
  <2> QED
    BY <1>9, <2>1
<1>12. Nears(near, calls, key, root, d)
  BY <1>10, <1>11 DEF Nears, more, C
<1> QED
  BY <1>7, <1>12

(* It grows, by one call at a time.                                        *)
Approach(near, d, calls, key) ==
  /\ \A n \in 0..d : near[n] \subseteq near[d]
  /\ \A n \in 0..(d - 1) : \A e \in CallsOf(calls, key) : e[1] \in near[n] => e[2] \in near[n + 1]

(* That is what the sequence does.                                         *)
LEMMA NearsAre ==
  ASSUME NEW key, NEW calls, NEW root, NEW d \in Nat, NEW near, Nears(near, calls, key, root, d)
  PROVE  Approach(near, d, calls, key)
<1> DEFINE S == {n \in 0..d : \A m \in 0..n : near[m] \subseteq near[n]}
<1>1. 0 \in S
  OBVIOUS
<1>2. ASSUME NEW n \in 0..(d - 1), n \in S PROVE n + 1 \in S
  <2>1. near[n] \subseteq near[n + 1]
    BY DEF Nears
  <2>2. \A m \in 0..(n + 1) : m \in 0..n \/ m = n + 1
    OBVIOUS
  <2> QED
    BY <1>2, <2>1, <2>2
<1>3. \A n \in 0..(d - 1) : \A e \in CallsOf(calls, key) : e[1] \in near[n] => e[2] \in near[n + 1]
  BY DEF Nears
<1> HIDE DEF S
<1>4. \A n \in 0..d : n \in S
  BY <1>1, <1>2, Upward
<1>5. d \in S
  BY <1>4
<1> QED
  BY <1>3, <1>5 DEF S, Approach

(* The walks down from what is near the root meet only calls that are      *)
(* there, and only what is near enough.                                    *)
Stayed(i, g, h, r, d, near, calls, key) ==
  /\ h.edges \subseteq g.edges \cup CallsOf(calls, key)
  /\ \A n \in 0..d : n + r <= d /\ key[i] \in near[n] => h.nodes \subseteq g.nodes \cup near[d]

(* So do all walks of a depth.                                             *)
Stays(v, r, d, near, calls, key) ==
  \A i \in DOMAIN key, g \in Graphs(key) : Stayed(i, g, v[i][g], r, d, near, calls, key)

(* One call after the other, nothing is met that is not there or too far,  *)
LEMMA StepsStay ==
  ASSUME NEW key, NEW calls \in [DOMAIN key -> Seq(DOMAIN key)], NEW out \in BOOLEAN, \A a, b : Edge(out, a, b) = <<a, b>>,
         NEW v, NEW d \in Nat, NEW r \in 0..(d - 1), NEW near,
         Approach(near, d, calls, key),
         Stays(v, r, d, near, calls, key),
         NEW i \in DOMAIN key, NEW g \in Graphs(key), NEW h, NEW after, Steps(after, v, calls, key, out, i, g, h)
  PROVE  Stayed(i, g, h, r + 1, d, near, calls, key)
<1> DEFINE N == Len(calls[i])
           C == CallsOf(calls, key)
           far(m) == m + (r + 1) <= d /\ key[i] \in near[m]
           S == {n \in 0..N : /\ after[n].edges \subseteq g.edges \cup C
                              /\ \A m \in 0..d : far(m) => after[n].nodes \subseteq g.nodes \cup near[d]}
<1>1. /\ N \in Nat /\ after[0].nodes = g.nodes /\ after[0].edges = g.edges /\ h = after[N]
      /\ \A n \in 0..(N - 1) : /\ calls[i][n + 1] \in DOMAIN key
                               /\ CallMet(after[n], after[n + 1], v, calls[i][n + 1], key, out, i)
  BY DEF Steps
<1>2. \A n \in 0..(N - 1) : <<key[i], key[calls[i][n + 1]]>> \in C
  <2>1. DOMAIN calls = DOMAIN key
    OBVIOUS
  <2>2. \A n \in 0..(N - 1) : n + 1 \in 1..N
    BY <1>1
  <2> QED
    BY <2>1, <2>2 DEF CallsOf
<1> HIDE DEF N, C
<1>3. 0 \in S
  BY <1>1
<1>4. ASSUME NEW n \in 0..(N - 1), n \in S PROVE n + 1 \in S
  <2>1. n + 1 \in 0..N
    BY <1>1
  <2> DEFINE c == calls[i][n + 1]
  <2>2. c \in DOMAIN key /\ CallMet(after[n], after[n + 1], v, c, key, out, i) /\ <<key[i], key[c]>> \in C
    BY <1>1, <1>2
  <2> HIDE DEF c
  <2>3. PICK l \in Graphs(key) :
          /\ l.nodes = after[n].nodes \cup {key[c]} /\ l.edges = after[n].edges \cup {Edge(out, key[i], key[c])}
          /\ after[n + 1] = v[c][l]
    BY <2>2 DEF CallMet
  <2>4. v[c][l].edges \subseteq l.edges \cup C
    BY <2>2 DEF Stays, Stayed, C
  <2>5. after[n + 1].edges \subseteq g.edges \cup C
    BY <1>4, <2>2, <2>3, <2>4
  <2>6. ASSUME NEW m \in 0..d, far(m) PROVE after[n + 1].nodes \subseteq g.nodes \cup near[d]
    <3>1. m \in 0..(d - 1) /\ m + 1 \in 0..d /\ (m + 1) + r <= d /\ key[i] \in near[m]
      BY <2>6
    <3> DEFINE e == <<key[i], key[c]>>
    <3>2. e \in C /\ e[1] = key[i] /\ e[2] = key[c]
      BY <2>2
    <3>3. key[c] \in near[m + 1]
      BY <3>1, <3>2 DEF C, Approach
    <3>4. v[c][l].nodes \subseteq l.nodes \cup near[d]
      BY <2>2, <3>1, <3>3 DEF Stays, Stayed
    <3>5. after[n].nodes \subseteq g.nodes \cup near[d]
      BY <1>4, <2>6
    <3>6. key[c] \in near[d]
      BY <3>1, <3>3 DEF Approach
    <3> QED
      BY <2>3, <3>4, <3>5, <3>6
  <2> QED
    BY <2>1, <2>5, <2>6
<1> HIDE DEF S
<1>5. N \in S
  <2>1. \A n \in 0..N : n \in S
    BY <1>1, <1>3, <1>4, Upward
  <2> QED
    BY <1>1, <2>1
<1> QED
  BY <1>1, <1>5 DEF S, C, Stayed

(* and so in every walk.                                                   *)
LEMMA WalksStay ==
  ASSUME NEW key, NEW calls \in [DOMAIN key -> Seq(DOMAIN key)], NEW out \in BOOLEAN, \A a, b : Edge(out, a, b) = <<a, b>>,
         NEW d \in Nat, NEW w,
         Walks(w, d, calls, key, out), NEW root, NEW near, Nears(near, calls, key, root, d)
  PROVE  \A r \in 0..d : Stays(w[r], r, d, near, calls, key)
<1> DEFINE S == {r \in 0..d : Stays(w[r], r, d, near, calls, key)}
<1>1. 0 \in S
  <2>1. \A i \in DOMAIN key, g \in Graphs(key) : w[0][i][g] = g
    BY WalksDeepen
  <2> QED
    BY <2>1 DEF Stays, Stayed
<1>2. ASSUME NEW r \in 0..(d - 1), r \in S PROVE r + 1 \in S
  <2>1. Stays(w[r], r, d, near, calls, key) /\ r + 1 \in 0..d
    BY <1>2
  <2>2. Deepens(w[r], w[r + 1], calls, key, out)
    BY WalksDeepen
  <2>3. Approach(near, d, calls, key)
    BY NearsAre
  <2>4. ASSUME NEW i \in DOMAIN key, NEW g \in Graphs(key)
        PROVE  Stayed(i, g, w[r + 1][i][g], r + 1, d, near, calls, key)
    <3>1. CASE key[i] \in g.seen
      BY <2>2, <3>1 DEF Deepens, Stayed
    <3>2. CASE key[i] \notin g.seen
      <4>1. PICK after : Steps(after, w[r], calls, key, out, i, g, w[r + 1][i][g])
        BY <2>2, <3>2 DEF Deepens
      <4> QED
        BY <2>1, <2>3, <4>1, StepsStay
    <3> QED
      BY <3>1, <3>2
  <2> QED
    BY <2>1, <2>4 DEF Stays
<1> HIDE DEF S
<1>3. \A r \in 0..d : r \in S
  BY <1>1, <1>2, Upward
<1> QED
  BY <1>3 DEF S

(* On top of what is in b already, a walk adds the same: what it does      *)
(* depends on what is seen alone.                                          *)
Over(b, g, f) ==
  /\ f.nodes = b.nodes \cup g.nodes /\ f.edges = b.edges \cup g.edges /\ f.seen = g.seen

(* So do all walks of a depth.                                             *)
Overlays(v, b, key) ==
  \A i \in DOMAIN key, g, f \in Graphs(key) : Over(b, g, f) => Over(b, v[i][g], v[i][f])

(* One call after the other, the same is added,                            *)
LEMMA StepsOverlay ==
  ASSUME NEW key, NEW calls, NEW out, NEW v, NEW b, Overlays(v, b, key), NEW i, NEW g, NEW f, Over(b, g, f),
         NEW h, NEW after, Steps(after, v, calls, key, out, i, g, h),
         NEW k, NEW later, Steps(later, v, calls, key, out, i, f, k)
  PROVE  Over(b, h, k)
<1> DEFINE N == Len(calls[i])
           S == {n \in 0..N : Over(b, after[n], later[n])}
<1>1. /\ N \in Nat /\ after[0].nodes = g.nodes /\ after[0].edges = g.edges /\ after[0].seen = g.seen \cup {key[i]}
      /\ h = after[N]
      /\ \A n \in 0..(N - 1) : /\ calls[i][n + 1] \in DOMAIN key
                               /\ CallMet(after[n], after[n + 1], v, calls[i][n + 1], key, out, i)
  BY DEF Steps
<1>2. /\ later[0].nodes = f.nodes /\ later[0].edges = f.edges /\ later[0].seen = f.seen \cup {key[i]}
      /\ k = later[N]
      /\ \A n \in 0..(N - 1) : CallMet(later[n], later[n + 1], v, calls[i][n + 1], key, out, i)
  BY DEF Steps
<1> HIDE DEF N
<1>3. 0 \in S
  <2>1. Over(b, after[0], later[0])
    <3>1. f.nodes = b.nodes \cup g.nodes /\ f.edges = b.edges \cup g.edges /\ f.seen = g.seen
      BY DEF Over
    <3> QED
      BY <1>1, <1>2, <3>1 DEF Over
  <2> QED
    BY <1>1, <2>1
<1>4. ASSUME NEW n \in 0..(N - 1), n \in S PROVE n + 1 \in S
  <2> DEFINE c == calls[i][n + 1]
  <2>1. /\ c \in DOMAIN key /\ CallMet(after[n], after[n + 1], v, c, key, out, i)
        /\ CallMet(later[n], later[n + 1], v, c, key, out, i)
    BY <1>1, <1>2
  <2> HIDE DEF c
  <2>2. PICK l \in Graphs(key) :
          /\ l.nodes = after[n].nodes \cup {key[c]} /\ l.edges = after[n].edges \cup {Edge(out, key[i], key[c])}
          /\ l.seen = after[n].seen /\ after[n + 1] = v[c][l]
    BY <2>1 DEF CallMet
  <2>3. PICK m \in Graphs(key) :
          /\ m.nodes = later[n].nodes \cup {key[c]} /\ m.edges = later[n].edges \cup {Edge(out, key[i], key[c])}
          /\ m.seen = later[n].seen /\ later[n + 1] = v[c][m]
    BY <2>1 DEF CallMet
  <2>4. Over(b, l, m)
    BY <1>4, <2>2, <2>3 DEF Over
  <2>5. Over(b, v[c][l], v[c][m])
    BY <2>1, <2>4 DEF Overlays
  <2>6. n + 1 \in 0..N
    BY <1>1
  <2> QED
    BY <2>2, <2>3, <2>5, <2>6
<1> HIDE DEF S
<1>5. N \in S
  <2>1. \A n \in 0..N : n \in S
    BY <1>1, <1>3, <1>4, Upward
  <2> QED
    BY <1>1, <2>1
<1> QED
  BY <1>1, <1>2, <1>5 DEF S

(* and so in every walk.                                                   *)
LEMMA WalksOverlay ==
  ASSUME NEW key, NEW calls \in [DOMAIN key -> Seq(DOMAIN key)], NEW out \in BOOLEAN, NEW d \in Nat, NEW w,
         Walks(w, d, calls, key, out), NEW b
  PROVE  \A r \in 0..d : Overlays(w[r], b, key)
<1> DEFINE S == {r \in 0..d : Overlays(w[r], b, key)}
<1>1. 0 \in S
  <2>1. \A i \in DOMAIN key, g \in Graphs(key) : w[0][i][g] = g
    BY WalksDeepen
  <2> QED
    BY <2>1 DEF Overlays
<1>2. ASSUME NEW r \in 0..(d - 1), r \in S PROVE r + 1 \in S
  <2>1. Overlays(w[r], b, key) /\ r + 1 \in 0..d
    BY <1>2
  <2>2. Deepens(w[r], w[r + 1], calls, key, out)
    BY WalksDeepen
  <2>3. ASSUME NEW i \in DOMAIN key, NEW g \in Graphs(key), NEW f \in Graphs(key), Over(b, g, f)
        PROVE  Over(b, w[r + 1][i][g], w[r + 1][i][f])
    <3>1. g.seen = f.seen
      BY <2>3 DEF Over
    <3>2. CASE key[i] \in g.seen
      BY <2>2, <2>3, <3>1, <3>2 DEF Deepens
    <3>3. CASE key[i] \notin g.seen
      <4>1. PICK after : Steps(after, w[r], calls, key, out, i, g, w[r + 1][i][g])
        BY <2>2, <3>3 DEF Deepens
      <4>2. PICK later : Steps(later, w[r], calls, key, out, i, f, w[r + 1][i][f])
        BY <2>2, <3>1, <3>3 DEF Deepens
      <4> QED
        BY <2>1, <2>3, <4>1, <4>2, StepsOverlay
    <3> QED
      BY <3>2, <3>3
  <2> QED
    BY <2>1, <2>3 DEF Overlays
<1> HIDE DEF S
<1>3. \A r \in 0..d : r \in S
  BY <1>1, <1>2, Upward
<1> QED
  BY <1>3 DEF S

(* What is expanded on the way is expanded for good: its callees are       *)
(* nodes, with the edges to them, and have been expanded themselves.       *)
DoneWith(h, k, calls, key) ==
  \A e \in CallsOf(calls, key) : e[1] = k => e \in h.edges /\ e[2] \in h.nodes /\ e[2] \in h.seen

(* Deep enough for all that is not seen yet, a walk expands all that it    *)
(* meets.                                                                  *)
Expands(v, r, calls, key) ==
  \A i \in DOMAIN key, g \in Graphs(key) :
    Cardinality(Range(key)) <= r + Cardinality(g.seen) =>
      key[i] \in v[i][g].seen /\ \A k \in v[i][g].seen \ g.seen : DoneWith(v[i][g], k, calls, key)

(* What is expanded for good stays so.                                     *)
LEMMA DoneStays ==
  ASSUME NEW h, NEW l, NEW k, NEW calls, NEW key, Grown(h, l), DoneWith(h, k, calls, key)
  PROVE  DoneWith(l, k, calls, key)
  BY DEF Grown, DoneWith

(* One call after the other, all that is met is expanded,                  *)
LEMMA StepsExpand ==
  ASSUME NEW key, NEW calls \in [DOMAIN key -> Seq(DOMAIN key)], NEW out \in BOOLEAN, \A a, b : Edge(out, a, b) = <<a, b>>,
         IsFiniteSet(Range(key)), \A x, y \in DOMAIN key : key[x] = key[y] => x = y,
         NEW v, NEW r \in Nat, Grows(v, key), Expands(v, r, calls, key),
         NEW i \in DOMAIN key, NEW g \in Graphs(key), key[i] \notin g.seen,
         Cardinality(Range(key)) <= (r + 1) + Cardinality(g.seen),
         NEW h, NEW after, Steps(after, v, calls, key, out, i, g, h)
  PROVE  key[i] \in h.seen /\ \A k \in h.seen \ g.seen : DoneWith(h, k, calls, key)
<1> DEFINE N == Len(calls[i])
           K == Range(key)
           met(n) == \A m \in 1..n : LET c == calls[i][m]
                                     IN  /\ <<key[i], key[c]>> \in after[n].edges
                                         /\ key[c] \in after[n].nodes /\ key[c] \in after[n].seen
           done(n) == \A k \in after[n].seen \ (g.seen \cup {key[i]}) : DoneWith(after[n], k, calls, key)
           S == {n \in 0..N : met(n) /\ done(n)}
<1>1. /\ N \in Nat /\ after[0].nodes = g.nodes /\ after[0].edges = g.edges /\ after[0].seen = g.seen \cup {key[i]}
      /\ after \in [0..N -> Graphs(key)] /\ h = after[N]
      /\ \A n \in 0..(N - 1) : /\ calls[i][n + 1] \in DOMAIN key
                               /\ CallMet(after[n], after[n + 1], v, calls[i][n + 1], key, out, i)
  BY DEF Steps
<1>2. \A n \in 0..N : Grown(g, after[n]) /\ key[i] \in after[n].seen
  BY StepsGrow
<1> HIDE DEF N
<1>3. \A n \in 0..N : Cardinality(K) <= r + Cardinality(after[n].seen)
  <2> TAKE n \in 0..N
  <2>1. after[n].seen \in SUBSET K /\ g.seen \in SUBSET K
    <3>1. after[n] \in Graphs(key)
      BY <1>1
    <3> QED
      BY <3>1 DEF Graphs
  <2>2. IsFiniteSet(g.seen) /\ IsFiniteSet(after[n].seen) /\ IsFiniteSet(K)
    BY <2>1, FS_Subset
  <2>3. /\ IsFiniteSet(g.seen \cup {key[i]}) /\ Cardinality(g.seen \cup {key[i]}) = Cardinality(g.seen) + 1
    BY <2>2, FS_AddElement
  <2>4. g.seen \cup {key[i]} \in SUBSET after[n].seen
    BY <1>2 DEF Grown
  <2>5. Cardinality(g.seen \cup {key[i]}) <= Cardinality(after[n].seen)
    BY <2>2, <2>4, FS_Subset
  <2>6. Cardinality(K) \in Nat /\ Cardinality(g.seen) \in Nat /\ Cardinality(after[n].seen) \in Nat
    BY <2>2, FS_CardinalityType
  <2>7. Cardinality(K) <= (r + 1) + Cardinality(g.seen)
    OBVIOUS
  <2> HIDE DEF K
  <2> QED
    BY <2>3, <2>5, <2>6, <2>7
<1>4. 0 \in S
  BY <1>1
<1>5. ASSUME NEW n \in 0..(N - 1), n \in S PROVE n + 1 \in S
  <2>1. n + 1 \in 0..N /\ n \in 0..N /\ n \in Nat
    BY <1>1
  <2> DEFINE c == calls[i][n + 1]
  <2>2. c \in DOMAIN key /\ CallMet(after[n], after[n + 1], v, c, key, out, i)
    BY <1>1
  <2> HIDE DEF c
  <2>3. PICK l \in Graphs(key) :
          /\ l.nodes = after[n].nodes \cup {key[c]} /\ l.edges = after[n].edges \cup {Edge(out, key[i], key[c])}
          /\ l.seen = after[n].seen /\ after[n + 1] = v[c][l]
    BY <2>2 DEF CallMet
  <2>4. Grown(l, after[n + 1]) /\ Grown(after[n], l)
    BY <2>2, <2>3 DEF Grows, Grown
  <2>5. Cardinality(K) <= r + Cardinality(l.seen)
    BY <1>3, <2>1, <2>3
  <2>6. key[c] \in after[n + 1].seen /\ \A k \in after[n + 1].seen \ l.seen : DoneWith(after[n + 1], k, calls, key)
    BY <2>2, <2>3, <2>5 DEF Expands
  <2>7. Grown(after[n], after[n + 1])
    BY <2>4 DEF Grown
  <2>8. done(n + 1)
    <3> TAKE k \in after[n + 1].seen \ (g.seen \cup {key[i]})
    <3>1. CASE k \in l.seen
      <4>1. DoneWith(after[n], k, calls, key)
        BY <1>5, <2>3, <3>1
      <4> QED
        BY <4>1, <2>7, DoneStays
    <3>2. CASE k \notin l.seen
      BY <2>6, <3>2
    <3> QED
      BY <3>1, <3>2
  <2>9. met(n + 1)
    <3>1. /\ <<key[i], key[c]>> \in after[n + 1].edges
          /\ key[c] \in after[n + 1].nodes /\ key[c] \in after[n + 1].seen
      BY <2>3, <2>4, <2>6 DEF Grown
    <3>2. \A m \in 1..n : LET x == calls[i][m]
                          IN  /\ <<key[i], key[x]>> \in after[n + 1].edges
                              /\ key[x] \in after[n + 1].nodes /\ key[x] \in after[n + 1].seen
      BY <1>5, <2>7 DEF Grown
    <3>3. \A m \in 1..(n + 1) : m \in 1..n \/ m = n + 1
      BY <2>1
    <3> QED
      BY <3>1, <3>2, <3>3 DEF c
  <2> HIDE DEF done, met
  <2> QED
    BY <2>1, <2>8, <2>9
<1> HIDE DEF S
<1>6. N \in S
  <2>1. \A n \in 0..N : n \in S
    BY <1>1, <1>4, <1>5, Upward
  <2> QED
    BY <1>1, <2>1
<1>7. met(N) /\ done(N) /\ key[i] \in h.seen
  BY <1>1, <1>2, <1>6 DEF S
<1>8. DoneWith(h, key[i], calls, key)
  <2> SUFFICES ASSUME NEW e \in CallsOf(calls, key), e[1] = key[i]
               PROVE  e \in h.edges /\ e[2] \in h.nodes /\ e[2] \in h.seen
    BY DEF DoneWith
  <2>1. PICK x \in DOMAIN key : \E m \in 1..Len(calls[x]) : e = <<key[x], key[calls[x][m]]>>
    BY DEF CallsOf
  <2>2. x = i
    BY <2>1
  <2>3. PICK m \in 1..N : e = <<key[i], key[calls[i][m]]>>
    BY <2>1, <2>2 DEF N
  <2> QED
    BY <1>1, <1>7, <2>3
<1> QED
  BY <1>1, <1>7, <1>8

(* and so in every walk.                                                   *)
LEMMA WalksExpand ==
  ASSUME NEW key, NEW calls \in [DOMAIN key -> Seq(DOMAIN key)], NEW out \in BOOLEAN, \A a, b : Edge(out, a, b) = <<a, b>>,
         IsFiniteSet(Range(key)), \A x, y \in DOMAIN key : key[x] = key[y] => x = y,
         NEW d \in Nat, NEW w, Walks(w, d, calls, key, out)
  PROVE  \A r \in 0..d : Expands(w[r], r, calls, key)
<1> DEFINE S == {r \in 0..d : Expands(w[r], r, calls, key)}
<1>1. 0 \in S
  <2>1. \A i \in DOMAIN key, g \in Graphs(key) : w[0][i][g] = g
    BY WalksDeepen
  <2>2. ASSUME NEW i \in DOMAIN key, NEW g \in Graphs(key), Cardinality(Range(key)) <= 0 + Cardinality(g.seen)
        PROVE  key[i] \in g.seen
    <3> DEFINE K == Range(key)
    <3>1. g.seen \in SUBSET K /\ key[i] \in K
      BY DEF Graphs, Range
    <3>2. IsFiniteSet(g.seen) /\ IsFiniteSet(K)
      BY <3>1, FS_Subset
    <3>3. Cardinality(K) \in Nat /\ Cardinality(g.seen) \in Nat
      BY <3>2, FS_CardinalityType
    <3>4. Cardinality(g.seen) >= Cardinality(K)
      BY <2>2, <3>3
    <3>5. g.seen = K
      BY <3>1, <3>2, <3>3, <3>4, FS_Subset
    <3> QED
      BY <3>1, <3>5
  <2> QED
    BY <2>1, <2>2 DEF Expands
<1>2. ASSUME NEW r \in 0..(d - 1), r \in S PROVE r + 1 \in S
  <2>1. Expands(w[r], r, calls, key) /\ r + 1 \in 0..d /\ r \in 0..d /\ r \in Nat
    BY <1>2
  <2>2. Deepens(w[r], w[r + 1], calls, key, out)
    BY WalksDeepen
  <2>3. Grows(w[r], key)
    BY <2>1, WalksGrow
  <2>4. ASSUME NEW i \in DOMAIN key, NEW g \in Graphs(key), Cardinality(Range(key)) <= (r + 1) + Cardinality(g.seen)
        PROVE  /\ key[i] \in w[r + 1][i][g].seen
               /\ \A k \in w[r + 1][i][g].seen \ g.seen : DoneWith(w[r + 1][i][g], k, calls, key)
    <3>1. CASE key[i] \in g.seen
      BY <2>2, <3>1 DEF Deepens
    <3>2. CASE key[i] \notin g.seen
      <4>1. PICK after : Steps(after, w[r], calls, key, out, i, g, w[r + 1][i][g])
        BY <2>2, <3>2 DEF Deepens
      <4> QED
        BY <2>1, <2>3, <2>4, <3>2, <4>1, StepsExpand
    <3> QED
      BY <3>1, <3>2
  <2> QED
    BY <2>1, <2>4 DEF Expands
<1> HIDE DEF S
<1>3. \A r \in 0..d : r \in S
  BY <1>1, <1>2, Upward
<1> QED
  BY <1>3 DEF S

(* What a walk to any depth makes of any graph.                            *)
WalkGoes(calls, key, out, depth) ==
  \A root \in DOMAIN key, g \in Graphs(key) :
    LET h == Walk(calls, key, out, root, depth, g)
    IN  /\ h \in Graphs(key) /\ Grown(g, h)
        /\ key[root] \in g.nodes /\ Between(g) => Between(h)
        /\ \A b, f \in Graphs(key) : Over(b, g, f) => Over(b, h, Walk(calls, key, out, root, depth, f))

(* Every walk does.                                                        *)
LEMMA AnyWalk ==
  ASSUME NEW key, NEW calls \in [DOMAIN key -> Seq(DOMAIN key)], NEW out \in BOOLEAN, NEW depth \in Int
  PROVE  WalkGoes(calls, key, out, depth)
<1>1. CASE depth <= 0
  <2>1. \A root, g : Walk(calls, key, out, root, depth, g) = g
    BY <1>1 DEF Walk
  <2> QED
    BY <2>1 DEF WalkGoes, Grown
<1>2. CASE depth > 0
  <2>1. depth \in Nat /\ depth \in 0..depth
    BY <1>2
  <2>2. PICK w : Walks(w, depth, calls, key, out) /\ MadeBy(w, depth, calls, key, out)
    BY <1>2, <2>1, WalkRuns
  <2>3. w[depth] \in AllWalks(key)
    BY <2>1, <2>2, WalksDeepen
  <2>4. Grows(w[depth], key)
    BY <2>1, <2>2, WalksGrow
  <2>5. \A b : Overlays(w[depth], b, key)
    BY <2>1, <2>2, WalksOverlay
  <2>6. ASSUME NEW root \in DOMAIN key, NEW g \in Graphs(key), NEW h, h = Walk(calls, key, out, root, depth, g)
        PROVE  /\ h \in Graphs(key) /\ Grown(g, h)
               /\ key[root] \in g.nodes /\ Between(g) => Between(h)
               /\ \A b, f \in Graphs(key) : Over(b, g, f) => Over(b, h, Walk(calls, key, out, root, depth, f))
    <3>1. h = w[depth][root][g]
      BY <2>2, <2>6 DEF MadeBy
    <3>2. h \in Graphs(key)
      BY <2>3, <3>1 DEF AllWalks
    <3>3. Grown(g, h) /\ (key[root] \in g.nodes /\ Between(g) => Between(h))
      BY <2>4, <3>1 DEF Grows
    <3>4. ASSUME NEW b, NEW f \in Graphs(key), Over(b, g, f)
          PROVE  Over(b, h, Walk(calls, key, out, root, depth, f))
      <4>1. Over(b, w[depth][root][g], w[depth][root][f])
        BY <2>5, <3>4 DEF Overlays
      <4> QED
        BY <2>2, <3>1, <4>1 DEF MadeBy
    <3> QED
      BY <3>2, <3>3, <3>4
  <2> QED
    BY <2>6 DEF WalkGoes
<1> QED
  BY <1>1, <1>2

(* Where a walk from the root of an empty graph gets.                      *)
Reached(h, calls, key, root, depth) ==
  LET C == CallsOf(calls, key)
      near == Within(calls, key, root, depth)
  IN  /\ h.nodes \subseteq near /\ h.edges \subseteq C
      /\ IsInjective(key) /\ Cardinality(DOMAIN key) <= depth =>
           h.nodes = near /\ h.edges = {e \in C : e[1] \in near}

(* So does a walk from any item.                                           *)
WalkReaches(calls, key, out, depth) ==
  \A root \in DOMAIN key, g \in Graphs(key) :
    g.nodes = {key[root]} /\ g.edges = {} /\ g.seen = {} =>
      Reached(Walk(calls, key, out, root, depth, g), calls, key, root, depth)

(* All that is seen is expanded for good.                                  *)
AllDone(h, calls, key) == \A k \in h.seen : DoneWith(h, k, calls, key)

(* The graph has N as nodes, all seen.                                     *)
Holds(h, N) == N \subseteq h.nodes /\ N \subseteq h.seen

(* Expanded with all that it leads to, the root leads to all that is near. *)
LEMMA NearIsSeen ==
  ASSUME NEW key, NEW calls, NEW root, NEW d \in Nat, NEW near, Nears(near, calls, key, root, d),
         NEW h, Holds(h, {key[root]}), AllDone(h, calls, key)
  PROVE  Holds(h, near[d])
<1> DEFINE S == {n \in 0..d : near[n] \subseteq h.nodes /\ near[n] \subseteq h.seen}
<1>1. 0 \in S
  BY DEF Nears, Holds
<1>2. ASSUME NEW n \in 0..(d - 1), n \in S PROVE n + 1 \in S
  <2>1. near[n + 1] = near[n] \cup {e[2] : e \in {e \in CallsOf(calls, key) : e[1] \in near[n]}}
    BY DEF Nears
  <2>2. \A e \in CallsOf(calls, key) : e[1] \in near[n] => e[2] \in h.nodes /\ e[2] \in h.seen
    BY <1>2 DEF DoneWith, AllDone
  <2> QED
    BY <1>2, <2>1, <2>2
<1> HIDE DEF S
<1>3. d \in S
  <2>1. \A n \in 0..d : n \in S
    BY <1>1, <1>2, Upward
  <2> QED
    BY <2>1
<1> QED
  BY <1>3 DEF S, Holds

(* Items have no more keys than there are.                                 *)
LEMMA RangeFinite ==
  ASSUME NEW key, IsFiniteSet(DOMAIN key), key \in [DOMAIN key -> Range(key)]
  PROVE  /\ IsFiniteSet(Range(key)) /\ Cardinality(Range(key)) <= Cardinality(DOMAIN key)
         /\ Cardinality(Range(key)) \in Nat /\ Cardinality(DOMAIN key) \in Nat
<1> DEFINE D == DOMAIN key
           K == Range(key)
<1>1. key \in Surjection(D, K)
  BY DEF Surjection, Range
<1> HIDE DEF D, K
<1>2. IsFiniteSet(D)
  BY DEF D
<1>3. IsFiniteSet(K) /\ Cardinality(K) <= Cardinality(D)
  BY <1>1, <1>2, FS_Surjection
<1> QED
  BY <1>2, <1>3, FS_CardinalityType DEF D, K

(* A walk to the callees does.                                             *)
LEMMA OutgoingWalk ==
  ASSUME NEW key, IsFiniteSet(DOMAIN key), IsFiniteSet(Range(key)),
         Cardinality(Range(key)) <= Cardinality(DOMAIN key),
         NEW calls \in [DOMAIN key -> Seq(DOMAIN key)], NEW out \in BOOLEAN, \A a, b : Edge(out, a, b) = <<a, b>>,
         NEW depth \in Int
  PROVE  WalkReaches(calls, key, out, depth)
<1> SUFFICES ASSUME NEW root \in DOMAIN key, NEW g \in Graphs(key), g.nodes = {key[root]}, g.edges = {}, g.seen = {},
                    NEW h, h = Walk(calls, key, out, root, depth, g)
             PROVE  LET C == CallsOf(calls, key)
                        near == Within(calls, key, root, depth)
                    IN  /\ h.nodes \subseteq near /\ h.edges \subseteq C
                        /\ IsInjective(key) /\ Cardinality(DOMAIN key) <= depth =>
                             h.nodes = near /\ h.edges = {e \in C : e[1] \in near}
  BY DEF WalkReaches, Reached
<1> DEFINE C == CallsOf(calls, key)
<1>1. Cardinality(Range(key)) \in Nat /\ Cardinality(DOMAIN key) \in Nat
  BY FS_CardinalityType
<1>2. CASE depth <= 0
  <2>1. h = g /\ Within(calls, key, root, depth) = {key[root]}
    BY <1>2 DEF Walk, Within
  <2>2. ~(Cardinality(DOMAIN key) <= depth)
    <3>1. Cardinality(DOMAIN key) # 0
      BY FS_EmptySet
    <3> QED
      BY <1>1, <1>2, <3>1
  <2> QED
    BY <2>1, <2>2
<1>3. CASE depth > 0
  <2>1. depth \in Nat /\ depth \in 0..depth /\ 0 \in 0..depth
    BY <1>3
  <2>2. PICK w : Walks(w, depth, calls, key, out) /\ MadeBy(w, depth, calls, key, out)
    BY <1>3, <2>1, WalkRuns
  <2>3. h = w[depth][root][g]
    BY <2>2 DEF MadeBy
  <2>4. PICK near : Nears(near, calls, key, root, depth) /\ Within(calls, key, root, depth) = near[depth]
    BY <1>3, <2>1, WithinRuns
  <2>5. near[0] = {key[root]} /\ Approach(near, depth, calls, key)
    BY <2>1, <2>4, NearsAre DEF Nears
  <2>6. Stays(w[depth], depth, depth, near, calls, key)
    BY <2>1, <2>2, <2>4, WalksStay
  <2>7. h.edges \subseteq C /\ h.nodes \subseteq near[depth]
    <3>1. Stayed(root, g, h, depth, depth, near, calls, key)
      BY <2>3, <2>6 DEF Stays
    <3>2. 0 + depth <= depth /\ key[root] \in near[0]
      BY <2>1, <2>5
    <3>3. near[0] \subseteq near[depth]
      BY <2>1, <2>5 DEF Approach
    <3> QED
      BY <2>1, <2>5, <3>1, <3>2, <3>3 DEF Stayed
  <2>8. ASSUME IsInjective(key), Cardinality(DOMAIN key) <= depth
        PROVE  h.nodes = near[depth] /\ h.edges = {e \in C : e[1] \in near[depth]}
    <3>1. \A x, y \in DOMAIN key : key[x] = key[y] => x = y
      BY <2>8 DEF IsInjective
    <3>2. Expands(w[depth], depth, calls, key)
      BY <1>1, <2>1, <2>2, <3>1, WalksExpand
    <3>3. Cardinality(Range(key)) <= depth + Cardinality(g.seen)
      <4>1. Cardinality(g.seen) = 0
        BY FS_EmptySet
      <4> QED
        BY <1>1, <2>8, <4>1
    <3>4. key[root] \in h.seen /\ AllDone(h, calls, key)
      BY <2>3, <3>2, <3>3 DEF Expands, AllDone
    <3>5. Grows(w[depth], key)
      BY <2>1, <2>2, WalksGrow
    <3>6. key[root] \in h.nodes /\ Between(h)
      BY <2>3, <3>5 DEF Grows, Grown, Between
    <3>7. near[depth] \subseteq h.nodes /\ near[depth] \subseteq h.seen
      <4>1. depth \in Nat /\ Nears(near, calls, key, root, depth) /\ AllDone(h, calls, key)
        BY <2>1, <2>4, <3>4
      <4>2. Holds(h, {key[root]})
        BY <3>4, <3>6 DEF Holds
      <4>3. Holds(h, near[depth])
        BY <4>1, <4>2, NearIsSeen
      <4> QED
        BY <4>3 DEF Holds
    <3>8. h.nodes = near[depth]
      BY <2>7, <3>7
    <3>9. \A e \in h.edges : e \in C /\ e[1] \in near[depth]
      BY <2>7, <3>6 DEF Between
    <3>10. \A e \in C : e[1] \in near[depth] => e \in h.edges
      BY <3>4, <3>7 DEF DoneWith, AllDone
    <3> QED
      BY <3>8, <3>9, <3>10
  <2> QED
    BY <2>4, <2>7, <2>8
<1> QED
  BY <1>2, <1>3

(* What is drawn of a graph whose edges are between its nodes is the graph.*)
LEMMA DrawnRight ==
  ASSUME NEW key, IsFiniteSet(Range(key)), NEW g \in Graphs(key), Between(g)
  PROVE  LET drawn == RenderMermaid(g)
         IN  {<<drawn.declared[e[1]], drawn.declared[e[2]]>> : e \in drawn.drawn} = g.edges
<1> DEFINE s == SetToSeq(g.nodes)
           id == [k \in g.nodes |-> CHOOSE i \in 1..Len(s) : s[i] = k]
<1>1. IsFiniteSet(g.nodes) /\ \A e \in g.edges : e = <<e[1], e[2]>>
  <2>1. g.nodes \in SUBSET Range(key) /\ g.edges \in SUBSET (Range(key) \X Range(key))
    BY DEF Graphs
  <2> QED
    BY <2>1, FS_Subset
<1>2. \A x \in g.nodes : \E i \in 1..Len(s) : s[i] = x
  BY <1>1, InSomeOrder
<1>3. \A x \in g.nodes : s[id[x]] = x
  BY <1>2
<1>4. RenderMermaid(g) = [declared |-> s, drawn |-> {<<id[e[1]], id[e[2]]>> : e \in g.edges}]
  BY DEF RenderMermaid
<1> HIDE DEF s, id
<1>5. \A e \in g.edges : <<s[id[e[1]]], s[id[e[2]]]>> = e
  BY <1>1, <1>3 DEF Between
<1> DEFINE drawn == {<<id[e[1]], id[e[2]]>> : e \in g.edges}
<1>6. {<<s[p[1]], s[p[2]]>> : p \in drawn} = g.edges
  <2>1. ASSUME NEW p \in drawn PROVE <<s[p[1]], s[p[2]]>> \in g.edges
    <3>1. PICK e \in g.edges : p = <<id[e[1]], id[e[2]]>>
      OBVIOUS
    <3>2. p[1] = id[e[1]] /\ p[2] = id[e[2]]
      BY <3>1
    <3> QED
      BY <1>5, <3>1, <3>2
  <2>2. ASSUME NEW e \in g.edges PROVE \E p \in drawn : e = <<s[p[1]], s[p[2]]>>
    <3> DEFINE p == <<id[e[1]], id[e[2]]>>
    <3>1. p \in drawn /\ p[1] = id[e[1]] /\ p[2] = id[e[2]]
      OBVIOUS
    <3> HIDE DEF p
    <3> QED
      BY <1>5, <3>1
  <2> HIDE DEF drawn
  <2> QED
    BY <2>1, <2>2
<1> QED
  BY <1>4, <1>6

(* A call graph of one root is the walk from it.                           *)
LEMMA FromOneRoot ==
  ASSUME NEW callees, NEW callers, NEW key, NEW depth, NEW direction
  PROVE  GenerateCallGraph(<<1>>, callees, callers, key, depth, direction)
           = WalkFrom(callees, callers, key, depth, direction, 1, EmptyGraph)
<1> DEFINE F(g) == WalkFrom(callees, callers, key, depth, direction, 1, g)
           next(h) == [n \in 0..1 |-> IF n = 0 THEN EmptyGraph ELSE F(h[n - 1])]
           after == CHOOSE h : h = next(h)
           f == [n \in 0..1 |-> IF n = 0 THEN EmptyGraph ELSE F(EmptyGraph)]
<1>1. GenerateCallGraph(<<1>>, callees, callers, key, depth, direction) = after[1]
  <2> DEFINE R(h) == [n \in 0..1 |-> IF n = 0 THEN EmptyGraph
                        ELSE WalkFrom(callees, callers, key, depth, direction, <<1>>[n], h[n - 1])]
  <2>1. GenerateCallGraph(<<1>>, callees, callers, key, depth, direction) = (CHOOSE h : h = R(h))[1]
    BY DEF GenerateCallGraph
  <2>2. \A h : R(h) = next(h)
    <3> TAKE h
    <3>1. \A n \in 0..1 : n # 0 => <<1>>[n] = 1
      OBVIOUS
    <3> QED
      BY <3>1
  <2> HIDE DEF R, next
  <2> QED
    BY <2>1, <2>2
<1> HIDE DEF F
<1>2. f[0] = EmptyGraph /\ f[1] = F(EmptyGraph)
  OBVIOUS
<1>3. f = next(f)
  <2>1. \A n \in 0..1 : n = 0 \/ n = 1
    OBVIOUS
  <2> HIDE DEF f
  <2>2. \A n \in 0..1 : n # 0 => F(f[n - 1]) = F(EmptyGraph)
    BY <1>2, <2>1
  <2> QED
    BY <2>2 DEF f
<1> HIDE DEF next, f
<1>4. after = next(after)
  BY <1>3
<1> HIDE DEF after
<1>5. after[0] = EmptyGraph /\ after[1] = F(after[0])
  <2>1. after = [n \in 0..1 |-> IF n = 0 THEN EmptyGraph ELSE F(after[n - 1])]
    BY <1>4 DEF next
  <2> QED
    BY <2>1
<1> QED
  BY <1>1, <1>5 DEF F

(* The graph that is walked to the callees, and to the callers; both are   *)
(* walked one after the other.                                             *)
LEMMA OutgoingRight ==
  ASSUME NEW key, IsFiniteSet(DOMAIN key), key \in [DOMAIN key -> Range(key)], 1 \in DOMAIN key,
         NEW callees \in [DOMAIN key -> Seq(DOMAIN key)], NEW callers, NEW depth \in Int
  PROVE  LET near == Within(callees, key, 1, depth)
             C == CallsOf(callees, key)
             out == GenerateCallGraph(<<1>>, callees, callers, key, depth, "outgoing")
         IN  /\ out.nodes \subseteq near /\ out.edges \subseteq C
             /\ IsInjective(key) /\ Cardinality(DOMAIN key) <= depth =>
                  out.nodes = near /\ out.edges = {e \in C : e[1] \in near}
<1> DEFINE start == AddNode(EmptyGraph, key[1])
           out == GenerateCallGraph(<<1>>, callees, callers, key, depth, "outgoing")
<1>1. start \in Graphs(key) /\ start.nodes = {key[1]} /\ start.edges = {} /\ start.seen = {}
  BY DEF AddNode, EmptyGraph, Graphs, Range
<1>2. out = Walk(callees, key, TRUE, 1, depth, start)
  <2>1. out = WalkFrom(callees, callers, key, depth, "outgoing", 1, EmptyGraph)
    BY FromOneRoot
  <2> HIDE DEF out
  <2>2. WalkFrom(callees, callers, key, depth, "outgoing", 1, EmptyGraph) = Walk(callees, key, TRUE, 1, depth, start)
    BY DEF WalkFrom
  <2> QED
    BY <2>1, <2>2
<1>3. IsFiniteSet(Range(key)) /\ Cardinality(Range(key)) <= Cardinality(DOMAIN key)
  BY RangeFinite
<1>4. WalkReaches(callees, key, TRUE, depth)
  <2>1. \A a, b : Edge(TRUE, a, b) = <<a, b>>
    BY DEF Edge
  <2>2. \A o \in BOOLEAN : (\A a, b : Edge(o, a, b) = <<a, b>>) => WalkReaches(callees, key, o, depth)
    BY <1>3, OutgoingWalk
  <2> QED
    BY <2>1, <2>2
<1> HIDE DEF start, out
<1> QED
  <2>1. Reached(out, callees, key, 1, depth)
    BY <1>1, <1>2, <1>4 DEF WalkReaches
  <2> QED
    BY <2>1 DEF Reached, out

(* Both ways, the graph is that of the two together, and it is drawn as it *)
(* is.                                                                     *)
LEMMA BothRight ==
  ASSUME NEW key, IsFiniteSet(DOMAIN key), key \in [DOMAIN key -> Range(key)], 1 \in DOMAIN key,
         NEW callees \in [DOMAIN key -> Seq(DOMAIN key)], NEW callers \in [DOMAIN key -> Seq(DOMAIN key)],
         NEW depth \in Int
  PROVE  LET graph(direction) == GenerateCallGraph(<<1>>, callees, callers, key, depth, direction)
             both == graph("both")
             drawn == RenderMermaid(both)
         IN  /\ both.nodes = graph("outgoing").nodes \cup graph("incoming").nodes
             /\ both.edges = graph("outgoing").edges \cup graph("incoming").edges
             /\ {<<drawn.declared[e[1]], drawn.declared[e[2]]>> : e \in drawn.drawn} = both.edges
<1> DEFINE start == AddNode(EmptyGraph, key[1])
           graph(direction) == GenerateCallGraph(<<1>>, callees, callers, key, depth, direction)
           out == Walk(callees, key, TRUE, 1, depth, start)
           in == Walk(callers, key, FALSE, 1, depth, start)
           again == Forgotten(out)
           both == Walk(callers, key, FALSE, 1, depth, again)
<1>1. start \in Graphs(key) /\ start.nodes = {key[1]} /\ start.edges = {} /\ start.seen = {}
  BY DEF AddNode, EmptyGraph, Graphs, Range
<1>2. graph("outgoing") = out /\ graph("incoming") = in /\ graph("both") = both
  <2> DEFINE from(direction) == WalkFrom(callees, callers, key, depth, direction, 1, EmptyGraph)
  <2>1. \A direction : graph(direction) = from(direction)
    BY FromOneRoot
  <2> HIDE DEF graph
  <2>2. from("outgoing") = out
    BY DEF WalkFrom
  <2>3. from("incoming") = in
    BY DEF WalkFrom
  <2>4. from("both") = both
    BY DEF WalkFrom
  <2> HIDE DEF from, out, in, both
  <2> QED
    BY <2>1, <2>2, <2>3, <2>4
<1>3. WalkGoes(callees, key, TRUE, depth) /\ WalkGoes(callers, key, FALSE, depth)
  <2>1. \A o \in BOOLEAN : WalkGoes(callees, key, o, depth) /\ WalkGoes(callers, key, o, depth)
    BY AnyWalk
  <2> QED
    BY <2>1
<1> HIDE DEF start, graph
<1>4. out \in Graphs(key) /\ Grown(start, out) /\ Between(out)
  BY <1>1, <1>3 DEF WalkGoes, Between
<1>5. in \in Graphs(key) /\ Grown(start, in)
  BY <1>1, <1>3 DEF WalkGoes
<1> HIDE DEF out
<1>6. again \in Graphs(key) /\ again.nodes = out.nodes /\ again.edges = out.edges /\ again.seen = {}
  BY <1>4 DEF Graphs, Forgotten
<1>7. key[1] \in out.nodes
  BY <1>1, <1>4 DEF Grown
<1>8. Over(out, start, again)
  BY <1>1, <1>6, <1>7 DEF Over
<1> HIDE DEF again
<1>9. Over(out, in, both)
  BY <1>1, <1>3, <1>4, <1>6, <1>8 DEF WalkGoes
<1>10. both \in Graphs(key) /\ Between(both)
  <2>1. Between(again)
    BY <1>4, <1>6 DEF Between
  <2> QED
    BY <1>3, <1>6, <1>7, <2>1 DEF WalkGoes
<1> HIDE DEF in, both
<1>11. both.nodes = out.nodes \cup in.nodes /\ both.edges = out.edges \cup in.edges
  BY <1>9 DEF Over
<1>12. IsFiniteSet(Range(key))
  BY RangeFinite
<1>13. LET drawn == RenderMermaid(both)
       IN  {<<drawn.declared[e[1]], drawn.declared[e[2]]>> : e \in drawn.drawn} = both.edges
  BY <1>10, <1>12, DrawnRight
<1> QED
  BY <1>2, <1>11, <1>13 DEF graph

(* WalkRight holds of every question about a graph.                        *)
LEMMA WalkRightThere ==
  ASSUME GraphAsked
  PROVE  WalkRight
<1> DEFINE key == question.key
           callees == question.callees
           callers == question.callers
           depth == question.depth
           graph(direction) == GenerateCallGraph(<<1>>, callees, callers, key, depth, direction)
<1>1. /\ IsFiniteSet(DOMAIN key) /\ 1 \in DOMAIN key /\ key \in [DOMAIN key -> Range(key)]
      /\ callees \in [DOMAIN key -> Seq(DOMAIN key)] /\ callers \in [DOMAIN key -> Seq(DOMAIN key)] /\ depth \in Int
  BY DEF GraphAsked
<1> HIDE DEF key, callees, callers, depth
<1>2. LET near == Within(callees, key, 1, depth)
          C == CallsOf(callees, key)
          out == graph("outgoing")
      IN  /\ out.nodes \subseteq near /\ out.edges \subseteq C
          /\ IsInjective(key) /\ Cardinality(DOMAIN key) <= depth =>
               out.nodes = near /\ out.edges = {e \in C : e[1] \in near}
  BY <1>1, OutgoingRight
<1>3. LET both == graph("both")
          drawn == RenderMermaid(both)
      IN  /\ both.nodes = graph("outgoing").nodes \cup graph("incoming").nodes
          /\ both.edges = graph("outgoing").edges \cup graph("incoming").edges
          /\ {<<drawn.declared[e[1]], drawn.declared[e[2]]>> : e \in drawn.drawn} = both.edges
  BY <1>1, BothRight
<1>4. \A direction : GraphOf(direction) = graph(direction)
  BY DEF GraphOf, key, callees, callers, depth
<1> HIDE DEF graph
<1>5. Cardinality(DOMAIN key) \in Int
  BY <1>1, FS_CardinalityType
<1>6. depth >= Cardinality(DOMAIN key) <=> Cardinality(DOMAIN key) <= depth
  BY <1>1, <1>5
<1> QED
  BY <1>2, <1>3, <1>4, <1>6 DEF WalkRight, key, callees, depth

(* TokensRight holds of every question about tokens.                       *)
LEMMA TokensRightThere ==
  ASSUME TokensAsked
  PROVE  TokensRight
<1> DEFINE tokens == question.tokens
           types == question.types
           data == Encoded(tokens, types)
           item == question.item
           defs == question.definition
           prepared == question.prepared
<1>1. /\ tokens \in Seq(Token) /\ types \in Seq(STRING)
      /\ \A i \in 1..Len(tokens) : tokens[i].type \in ToSet(types)
      /\ \A i \in 2..Len(tokens) : tokens[i - 1].line <= tokens[i].line
  BY DEF TokensAsked
<1> HIDE DEF tokens, types
<1>2. \A i \in 1..Len(tokens) : \E k \in 1..Len(types) : types[k] = tokens[i].type
  <2>1. \A x \in ToSet(types) : \E k \in 1..Len(types) : types[k] = x
    <3>1. DOMAIN types = 1..Len(types)
      BY <1>1
    <3> QED
      BY <3>1 DEF ToSet
  <2> QED
    BY <1>1, <2>1
<1>3. tokens \in Seq([line : Nat, char : Nat, type : STRING])
  BY <1>1 DEF Token
<1>4. DecodeSemanticTokens(data, types) = tokens
  BY <1>1, <1>2, <1>3, DecodedRight
<1>5. Len(tokens) \in Nat /\ DOMAIN tokens = 1..Len(tokens)
  BY <1>1
<1> HIDE DEF data, item, defs, prepared
<1>6. CalleesTold(tokens, item, data, types, defs, prepared)
  BY <1>4, <1>5, SyntheticRight
<1> QED
  BY <1>6 DEF TokensRight, CalleesTold, tokens, types, data, item, defs, prepared

(* The places of n things in an order: the k-th has k - 1 before it.       *)
Ordered(order, R, n) ==
  /\ order \in [1..n -> 1..n]
  /\ \A i \in 1..n : \E k \in 1..n : order[k] = i
  /\ \A k, l \in 1..n : k < l => <<order[k], order[l]>> \in R

StrictOrder(R, n) ==
  /\ \A i \in 1..n : <<i, i>> \notin R
  /\ \A i, j \in 1..n : i # j => <<i, j>> \in R \/ <<j, i>> \in R
  /\ \A i, j, k \in 1..n : <<i, j>> \in R /\ <<j, k>> \in R => <<i, k>> \in R

Preceding(R, n, i) == {j \in 1..n : <<j, i>> \in R}

(* A later one has more before it.                                         *)
LEMMA PrecedingGrows ==
  ASSUME NEW n \in Nat, NEW R, StrictOrder(R, n)
  PROVE  /\ \A i \in 1..n : Cardinality(Preceding(R, n, i)) \in 0..(n - 1)
         /\ \A i, j \in 1..n : <<i, j>> \in R => Cardinality(Preceding(R, n, i)) < Cardinality(Preceding(R, n, j))
<1>1. IsFiniteSet(1..n) /\ Cardinality(1..n) = n
  BY FS_Interval
<1>2. \A i \in 1..n : /\ Preceding(R, n, i) \in SUBSET (1..n) /\ i \notin Preceding(R, n, i)
  BY DEF Preceding, StrictOrder
<1>3. \A i \in 1..n : /\ IsFiniteSet(Preceding(R, n, i)) /\ Cardinality(Preceding(R, n, i)) \in Nat
                      /\ Cardinality(Preceding(R, n, i)) <= n /\ Cardinality(Preceding(R, n, i)) # n
  <2> TAKE i \in 1..n
  <2>1. /\ IsFiniteSet(Preceding(R, n, i)) /\ Cardinality(Preceding(R, n, i)) <= Cardinality(1..n)
        /\ Cardinality(1..n) = Cardinality(Preceding(R, n, i)) => 1..n = Preceding(R, n, i)
    BY <1>1, <1>2, FS_Subset
  <2>2. Cardinality(Preceding(R, n, i)) \in Nat
    BY <2>1, FS_CardinalityType
  <2> QED
    BY <2>1, <2>2, <1>1, <1>2
<1>4. \A i \in 1..n : Cardinality(Preceding(R, n, i)) \in 0..(n - 1)
  BY <1>3
<1>5. \A i, j \in 1..n : <<i, j>> \in R => Cardinality(Preceding(R, n, i)) < Cardinality(Preceding(R, n, j))
  <2> SUFFICES ASSUME NEW i \in 1..n, NEW j \in 1..n, <<i, j>> \in R
               PROVE  Cardinality(Preceding(R, n, i)) < Cardinality(Preceding(R, n, j))
    OBVIOUS
  <2>1. Preceding(R, n, i) \in SUBSET Preceding(R, n, j) /\ i \in Preceding(R, n, j)
    BY DEF Preceding, StrictOrder
  <2>2. /\ Cardinality(Preceding(R, n, i)) <= Cardinality(Preceding(R, n, j))
        /\ Cardinality(Preceding(R, n, j)) = Cardinality(Preceding(R, n, i)) => Preceding(R, n, j) = Preceding(R, n, i)
    BY <2>1, <1>3, FS_Subset
  <2> QED
    BY <2>1, <2>2, <1>2, <1>3
<1> QED
  BY <1>4, <1>5

(* So there is one for each number of others before it.                    *)
LEMMA OrderedSo ==
  ASSUME NEW n \in Nat, NEW R, StrictOrder(R, n), NEW order,
         order = [k \in 1..n |-> CHOOSE i \in 1..n : Cardinality(Preceding(R, n, i)) = k - 1]
  PROVE  Ordered(order, R, n)
<1> DEFINE rank == [i \in 1..n |-> Cardinality(Preceding(R, n, i)) + 1]
<1>1. rank \in [1..n -> 1..n]
  BY PrecedingGrows
<1>2. \A i, j \in 1..n : <<i, j>> \in R => rank[i] < rank[j]
  BY <1>1, PrecedingGrows
<1>3. \A i \in 1..n : rank[i] = Cardinality(Preceding(R, n, i)) + 1 /\ Cardinality(Preceding(R, n, i)) \in Nat
  BY PrecedingGrows
<1> HIDE DEF rank
<1>4. \A i, j \in 1..n : rank[i] = rank[j] => i = j
  <2> SUFFICES ASSUME NEW i \in 1..n, NEW j \in 1..n, rank[i] = rank[j], i # j PROVE FALSE
    OBVIOUS
  <2>1. <<i, j>> \in R \/ <<j, i>> \in R
    BY DEF StrictOrder
  <2>2. rank[i] < rank[j] \/ rank[j] < rank[i]
    BY <2>1, <1>2
  <2>3. rank[i] \in Int /\ rank[j] \in Int
    BY <1>1
  <2> QED
    BY <2>2, <2>3
<1>5. rank \in Injection(1..n, 1..n)
  BY <1>1, <1>4 DEF Injection, IsInjective
<1>6. IsFiniteSet(1..n)
  BY FS_Interval
<1>7. rank \in Surjection(1..n, 1..n)
  BY <1>5, <1>6, FS_Injection
<1>8. \A k \in 1..n : \E i \in 1..n : rank[i] = k
  BY <1>7 DEF Surjection
<1>9. \A k \in 1..n : order[k] \in 1..n /\ rank[order[k]] = k
  <2> TAKE k \in 1..n
  <2>3. PICK i \in 1..n : rank[i] = k
    BY <1>8
  <2>4. rank[i] = Cardinality(Preceding(R, n, i)) + 1 /\ Cardinality(Preceding(R, n, i)) \in Nat
    BY <1>3
  <2>1. \E m \in 1..n : Cardinality(Preceding(R, n, m)) = k - 1
    BY <2>3, <2>4
  <2>2. order[k] \in 1..n /\ Cardinality(Preceding(R, n, order[k])) = k - 1
    BY <2>1
  <2> QED
    BY <2>2, <1>3
<1>10. order \in [1..n -> 1..n]
  BY <1>9
<1>11. \A i \in 1..n : \E k \in 1..n : order[k] = i
  <2> TAKE i \in 1..n
  <2>1. rank[i] \in 1..n
    BY <1>1
  <2>3. order[rank[i]] \in 1..n /\ rank[order[rank[i]]] = rank[i]
    BY <2>1, <1>9
  <2>2. order[rank[i]] = i
    BY <2>3, <1>4
  <2> QED
    BY <2>1, <2>2
<1>12. \A k, l \in 1..n : k < l => <<order[k], order[l]>> \in R
  <2> SUFFICES ASSUME NEW k \in 1..n, NEW l \in 1..n, k < l PROVE <<order[k], order[l]>> \in R
    OBVIOUS
  <2>1. /\ order[k] \in 1..n /\ order[l] \in 1..n /\ rank[order[k]] = k /\ rank[order[l]] = l
    BY <1>9
  <2>2. <<order[l], order[k]>> \in R => rank[order[l]] < rank[order[k]]
    BY <2>1, <1>2
  <2>3. order[k] # order[l]
    <3> SUFFICES ASSUME order[k] = order[l] PROVE FALSE
      OBVIOUS
    <3>1. k = l
      BY <2>1
    <3> QED
      BY <3>1
  <2>4. ~(l < k)
    OBVIOUS
  <2>5. <<order[k], order[l]>> \in R \/ <<order[l], order[k]>> \in R
    BY <2>1, <2>3 DEF StrictOrder
  <2> QED
    BY <2>1, <2>2, <2>4, <2>5
<1> QED
  BY <1>10, <1>11, <1>12 DEF Ordered

(* The last start first, edits with one start as they are given.           *)
Starting(l, c, i, j) == l[j] < l[i] \/ (l[j] = l[i] /\ (c[j] < c[i] \/ (c[j] = c[i] /\ i < j)))

(* That is a strict order.                                                 *)
LEMMA StartsOrdered ==
  ASSUME NEW n \in Nat, NEW l \in [1..n -> Int], NEW c \in [1..n -> Int],
         NEW R, \A i, j \in 1..n : <<i, j>> \in R <=> Starting(l, c, i, j)
  PROVE  StrictOrder(R, n)
<1>0. \A i \in 1..n : l[i] \in Int /\ c[i] \in Int
  OBVIOUS
<1>1. \A i \in 1..n : ~Starting(l, c, i, i)
  BY <1>0 DEF Starting
<1>2. \A i, j \in 1..n : i # j => Starting(l, c, i, j) \/ Starting(l, c, j, i)
  BY <1>0 DEF Starting
<1>3. \A i, j, k \in 1..n : Starting(l, c, i, j) /\ Starting(l, c, j, k) => Starting(l, c, i, k)
  BY <1>0 DEF Starting
<1> QED
  BY <1>1, <1>2, <1>3 DEF StrictOrder

(* Sorted, no edit starts after one that comes before it.                  *)
SortedLast(order, n, l, c) ==
  /\ order \in [1..n -> 1..n]
  /\ \A i \in 1..n : \E k \in 1..n : order[k] = i
  /\ \A k, m \in 1..n : k < m => order[k] # order[m] /\ Starting(l, c, order[k], order[m])

(* LastFirst sorts so.                                                     *)
LEMMA LastComesFirst ==
  ASSUME NEW n \in Nat, NEW l \in [1..n -> Int], NEW c \in [1..n -> Int],
         NEW order, order = LastFirst([k \in 1..n |-> <<l[k], c[k]>>])
  PROVE  SortedLast(order, n, l, c)
<1> DEFINE R == {p \in (1..n) \X (1..n) : Starting(l, c, p[1], p[2])}
           starts == [k \in 1..n |-> <<l[k], c[k]>>]
<1>1. \A i, j \in 1..n : <<i, j>> \in R <=> Starting(l, c, i, j)
  OBVIOUS
<1>2. \A i \in 1..n : l[i] \in Int /\ c[i] \in Int
  OBVIOUS
<1>3. Len(starts) = n
  OBVIOUS
<1>4. \A i, j \in 1..n : Before(starts[i], starts[j]) <=> l[i] < l[j] \/ (l[i] = l[j] /\ c[i] < c[j])
  BY DEF Before
<1>5. order = [k \in 1..n |-> CHOOSE i \in 1..n :
                Cardinality({j \in 1..n : Before(starts[i], starts[j]) \/ (~Before(starts[j], starts[i]) /\ j < i)}) = k - 1]
  <2>1. order = LastFirst(starts)
    OBVIOUS
  <2> HIDE DEF starts
  <2> QED
    BY <2>1, <1>3 DEF LastFirst
<1> HIDE DEF starts, R
<1>6. \A i \in 1..n : Preceding(R, n, i) =
                        {j \in 1..n : Before(starts[i], starts[j]) \/ (~Before(starts[j], starts[i]) /\ j < i)}
  <2> SUFFICES ASSUME NEW i \in 1..n, NEW j \in 1..n
               PROVE  Starting(l, c, j, i) <=> Before(starts[i], starts[j]) \/ (~Before(starts[j], starts[i]) /\ j < i)
    BY <1>1 DEF Preceding
  <2>1. l[i] \in Int /\ c[i] \in Int /\ l[j] \in Int /\ c[j] \in Int
    BY <1>2
  <2> QED
    BY <2>1, <1>4 DEF Starting
<1>7. \A k \in 1..n, i \in 1..n :
        Cardinality({j \in 1..n : Before(starts[i], starts[j]) \/ (~Before(starts[j], starts[i]) /\ j < i)}) = k - 1
          <=> Cardinality(Preceding(R, n, i)) = k - 1
  BY <1>6
<1>8. order = [k \in 1..n |-> CHOOSE i \in 1..n : Cardinality(Preceding(R, n, i)) = k - 1]
  BY <1>5, <1>7
<1>9. StrictOrder(R, n)
  BY <1>1, StartsOrdered
<1>10. Ordered(order, R, n)
  BY <1>8, <1>9, OrderedSo
<1>11. order \in [1..n -> 1..n] /\ \A i \in 1..n : \E k \in 1..n : order[k] = i
  BY <1>10 DEF Ordered
<1>12. \A k, m \in 1..n : k < m => order[k] # order[m] /\ Starting(l, c, order[k], order[m])
  <2> SUFFICES ASSUME NEW k \in 1..n, NEW m \in 1..n, k < m
               PROVE  order[k] # order[m] /\ Starting(l, c, order[k], order[m])
    OBVIOUS
  <2>1. order[k] \in 1..n /\ order[m] \in 1..n /\ <<order[k], order[m]>> \in R
    BY <1>10 DEF Ordered
  <2> QED
    BY <2>1, <1>1, <1>9 DEF StrictOrder
<1> QED
  BY <1>11, <1>12 DEF SortedLast

-----------------------------------------------------------------------------
(* What comes of steps, one after the other.                               *)
Stepwise(f, n, base, step) == f[0] = base /\ \A k \in 1..n : f[k] = step[k][f[k - 1]]

CanReach(m, V, base, step) == \E f \in [0..m -> V] : Stepwise(f, m, base, step)

(* There is what comes of any steps.                                       *)
LEMMA Recursion ==
  ASSUME NEW n \in Nat, NEW V, NEW base \in V, NEW step \in [1..n -> [V -> V]]
  PROVE  CanReach(n, V, base, step)
<1> DEFINE S == {m \in 0..n : CanReach(m, V, base, step)}
<1>1. 0 \in S
  <2> DEFINE f == [k \in 0..0 |-> base]
  <2>1. f \in [0..0 -> V] /\ f[0] = base /\ \A k \in 1..0 : f[k] = step[k][f[k - 1]]
    OBVIOUS
  <2> HIDE DEF f
  <2> QED
    BY <2>1 DEF CanReach, Stepwise
<1>2. \A m \in 0..(n - 1) : m \in S => m + 1 \in S
  <2> SUFFICES ASSUME NEW m \in 0..(n - 1), CanReach(m, V, base, step) PROVE CanReach(m + 1, V, base, step)
    OBVIOUS
  <2>1. PICK f \in [0..m -> V] : f[0] = base /\ \A k \in 1..m : f[k] = step[k][f[k - 1]]
    BY DEF CanReach, Stepwise
  <2> DEFINE g == [k \in 0..(m + 1) |-> IF k = m + 1 THEN step[m + 1][f[m]] ELSE f[k]]
  <2>2. f[m] \in V /\ step[m + 1] \in [V -> V]
    OBVIOUS
  <2>3. step[m + 1][f[m]] \in V
    BY <2>2
  <2>4. g \in [0..(m + 1) -> V]
    BY <2>3
  <2>5. g[0] = base /\ g[m + 1] = step[m + 1][g[m]]
    BY <2>1
  <2>6. \A k \in 1..m : g[k] = step[k][g[k - 1]]
    BY <2>1
  <2> HIDE DEF g
  <2>7. \A k \in 1..(m + 1) : g[k] = step[k][g[k - 1]]
    <3> TAKE k \in 1..(m + 1)
    <3>1. CASE k = m + 1
      BY <2>5, <3>1
    <3>2. CASE k # m + 1
      BY <2>6, <3>2
    <3> QED
      BY <3>1, <3>2
  <2>8. Stepwise(g, m + 1, base, step)
    BY <2>5, <2>7 DEF Stepwise
  <2> QED
    BY <2>4, <2>8 DEF CanReach
<1> HIDE DEF S
<1>3. \A m \in 0..n : m \in S
  BY <1>1, <1>2, Upward
<1>4. n \in S
  BY <1>3
<1> QED
  BY <1>4 DEF S

(* Sequences appended one after the other.                                 *)
Joins(f, n, add) == f[0] = <<>> /\ \A k \in 1..n : f[k] = f[k - 1] \o add[k]

(* Any sequences can be appended so.                                       *)
LEMMA Appended ==
  ASSUME NEW C, NEW n \in Nat, NEW add \in [1..n -> Seq(C)]
  PROVE  \E f \in [0..n -> Seq(C)] : Joins(f, n, add)
<1> DEFINE step == [k \in 1..n |-> [v \in Seq(C) |-> v \o add[k]]]
<1>1. \A k \in 1..n, v \in Seq(C) : v \o add[k] \in Seq(C)
  OBVIOUS
<1>2. step \in [1..n -> [Seq(C) -> Seq(C)]]
  BY <1>1
<1>3. \A k \in 1..n, v \in Seq(C) : step[k][v] = v \o add[k]
  OBVIOUS
<1>4. <<>> \in Seq(C)
  OBVIOUS
<1> HIDE DEF step
<1>5. PICK f \in [0..n -> Seq(C)] : Stepwise(f, n, <<>>, step)
  BY <1>2, <1>4, Recursion DEF CanReach
<1>6. \A k \in 1..n : f[k - 1] \in Seq(C)
  OBVIOUS
<1>7. \A k \in 1..n : f[k] = f[k - 1] \o add[k]
  BY <1>3, <1>5, <1>6 DEF Stepwise
<1> QED
  BY <1>5, <1>7 DEF Stepwise, Joins

(* There is one result of it.                                              *)
LEMMA JoinsOnce ==
  ASSUME NEW n \in Nat, NEW add, NEW f, NEW g, Joins(f, n, add), Joins(g, n, add)
  PROVE  \A k \in 0..n : f[k] = g[k]
<1> DEFINE S == {k \in 0..n : f[k] = g[k]}
<1>1. 0 \in S
  BY DEF Joins
<1>2. \A k \in 0..(n - 1) : k \in S => k + 1 \in S
  <2> SUFFICES ASSUME NEW k \in 0..(n - 1), f[k] = g[k] PROVE f[k + 1] = g[k + 1]
    OBVIOUS
  <2>1. k + 1 \in 1..n /\ (k + 1) - 1 = k
    OBVIOUS
  <2>2. f[k + 1] = f[k] \o add[k + 1]
    BY <2>1 DEF Joins
  <2>3. g[k + 1] = g[k] \o add[k + 1]
    BY <2>1 DEF Joins
  <2> QED
    BY <2>2, <2>3
<1> HIDE DEF S
<1>3. \A k \in 0..n : k \in S
  BY <1>1, <1>2, Upward
<1> QED
  BY <1>3 DEF S

(* What each edit inserts at a place, and all of them.                     *)
Pieces(starts, news, n, i) == [k \in 1..n |-> NewAt(starts, news, i, k)]

InsertedBy(C, starts, news, n, i) ==
  \E upto \in [0..n -> Seq(C)] : Joins(upto, n, Pieces(starts, news, n, i)) /\ Inserted(starts, news, i) = upto[n]

(* Inserted is what comes of it.                                           *)
LEMMA InsertedRuns ==
  ASSUME NEW C, NEW n \in Nat, NEW starts, Len(starts) = n, NEW news \in [1..n -> Seq(C)], NEW i
  PROVE  InsertedBy(C, starts, news, n, i)
<1> DEFINE rhs(g) == [k \in 0..n |-> IF k = 0 THEN <<>> ELSE g[k - 1] \o NewAt(starts, news, i, k)]
           upto == CHOOSE g : g = rhs(g)
           add == Pieces(starts, news, n, i)
<1>1. add \in [1..n -> Seq(C)]
  BY DEF Pieces, NewAt
<1>2. \A k \in 1..n : add[k] = NewAt(starts, news, i, k)
  BY DEF Pieces
<1>3. Inserted(starts, news, i) = upto[n]
  BY DEF Inserted
<1>0. \A k \in 0..n : k = 0 \/ k \in 1..n
  OBVIOUS
<1> HIDE DEF add
<1>4. PICK f \in [0..n -> Seq(C)] : Joins(f, n, add)
  BY <1>1, Appended
<1>5. f = rhs(f)
  <2>1. \A k \in 0..n : f[k] = IF k = 0 THEN <<>> ELSE f[k - 1] \o NewAt(starts, news, i, k)
    BY <1>0, <1>2, <1>4 DEF Joins
  <2> QED
    BY <2>1
<1> HIDE DEF rhs
<1>6. upto = rhs(upto)
  BY <1>5
<1> HIDE DEF upto
<1>7. upto = [k \in 0..n |-> IF k = 0 THEN <<>> ELSE upto[k - 1] \o NewAt(starts, news, i, k)]
  BY <1>6 DEF rhs
<1>8. Joins(upto, n, add)
  <2>1. \A k \in 0..n : upto[k] = IF k = 0 THEN <<>> ELSE upto[k - 1] \o NewAt(starts, news, i, k)
    BY <1>7
  <2>2. upto[0] = <<>>
    BY <2>1
  <2>3. \A k \in 1..n : upto[k] = upto[k - 1] \o add[k]
    <3> TAKE k \in 1..n
    <3>1. k \in 0..n /\ k # 0
      OBVIOUS
    <3>2. upto[k] = upto[k - 1] \o NewAt(starts, news, i, k)
      BY <3>1, <2>1
    <3>3. add[k] = NewAt(starts, news, i, k)
      BY <1>2
    <3> QED
      BY <3>2, <3>3
  <2> QED
    BY <2>2, <2>3 DEF Joins
<1>11. \A k \in 0..n : upto[k] = f[k]
  BY <1>4, <1>8, JoinsOnce
<1>9. upto \in [0..n -> Seq(C)]
  <2>1. upto = [k \in 0..n |-> upto[k]]
    BY <1>7
  <2> QED
    BY <2>1, <1>11
<1> QED
  BY <1>3, <1>8, <1>9 DEF add, InsertedBy

(* Where no edit starts nothing is inserted, where one does its new text.  *)
LEMMA InsertedAt ==
  ASSUME NEW C, NEW n \in Nat, NEW starts, Len(starts) = n, NEW news \in [1..n -> Seq(C)], NEW i
  PROVE  /\ (\A k \in 1..n : starts[k] # i) => Inserted(starts, news, i) = <<>>
         /\ \A m \in 1..n : starts[m] = i /\ (\A k \in 1..n : k # m => starts[k] # i) =>
              Inserted(starts, news, i) = news[m]
<1> DEFINE add == Pieces(starts, news, n, i)
<1>9. InsertedBy(C, starts, news, n, i)
  BY InsertedRuns
<1>1. PICK upto \in [0..n -> Seq(C)] : Joins(upto, n, add) /\ Inserted(starts, news, i) = upto[n]
  BY <1>9 DEF InsertedBy
<1>2. \A k \in 1..n : add[k] = IF starts[k] = i THEN news[k] ELSE <<>>
  BY DEF Pieces, NewAt
<1> HIDE DEF add
<1>0. \A k \in 0..(n - 1) : upto[k + 1] = upto[k] \o add[k + 1]
  <2> TAKE k \in 0..(n - 1)
  <2>1. k + 1 \in 1..n /\ (k + 1) - 1 = k
    OBVIOUS
  <2> QED
    BY <1>1, <2>1 DEF Joins
<1>5. upto[0] = <<>>
  BY <1>1 DEF Joins
<1>6. \A s \in Seq(C) : <<>> \o s = s /\ s \o <<>> = s
  BY ConcatEmptySeq
<1>7. \A k \in 1..n : news[k] \in Seq(C)
  OBVIOUS
<1>8. <<>> \in Seq(C)
  OBVIOUS
<1>3. ASSUME \A k \in 1..n : starts[k] # i PROVE Inserted(starts, news, i) = <<>>
  <2> DEFINE S == {k \in 0..n : upto[k] = <<>>}
  <2>1. 0 \in S
    BY <1>5
  <2>2. \A k \in 0..(n - 1) : k \in S => k + 1 \in S
    <3> SUFFICES ASSUME NEW k \in 0..(n - 1), upto[k] = <<>> PROVE upto[k + 1] = <<>>
      OBVIOUS
    <3>2. k + 1 \in 1..n
      OBVIOUS
    <3>1. add[k + 1] = <<>>
      BY <3>2, <1>2, <1>3
    <3> QED
      BY <3>1, <1>0, <1>6, <1>8
  <2> HIDE DEF S
  <2>3. \A k \in 0..n : k \in S
    BY <2>1, <2>2, Upward
  <2>4. n \in S
    BY <2>3
  <2> QED
    BY <1>1, <2>4 DEF S
<1>4. ASSUME NEW m \in 1..n, starts[m] = i, \A k \in 1..n : k # m => starts[k] # i
      PROVE  Inserted(starts, news, i) = news[m]
  <2> DEFINE v == [k \in 0..n |-> IF k < m THEN <<>> ELSE news[m]]  S == {k \in 0..n : upto[k] = v[k]}
  <2>5. \A k \in 0..n : v[k] = IF k < m THEN <<>> ELSE news[m]
    OBVIOUS
  <2>1. 0 \in S
    BY <1>5
  <2> HIDE DEF v
  <2>2. \A k \in 0..(n - 1) : k \in S => k + 1 \in S
    <3> SUFFICES ASSUME NEW k \in 0..(n - 1), upto[k] = v[k] PROVE upto[k + 1] = v[k + 1]
      <4>1. \A k \in 0..(n - 1) : k + 1 \in 0..n
        OBVIOUS
      <4> QED
        BY <4>1
    <3> SUFFICES ASSUME upto[k] = IF k < m THEN <<>> ELSE news[m]
                 PROVE  upto[k + 1] = IF k + 1 < m THEN <<>> ELSE news[m]
      <4>1. k \in 0..n /\ k + 1 \in 0..n
        OBVIOUS
      <4> QED
        BY <4>1, <2>5
    <3>1. upto[k + 1] = upto[k] \o add[k + 1]
      BY <1>0
    <3>2. add[k + 1] = IF k + 1 = m THEN news[m] ELSE <<>>
      <4>1. k + 1 \in 1..n
        OBVIOUS
      <4>2. add[k + 1] = IF starts[k + 1] = i THEN news[k + 1] ELSE <<>>
        BY <4>1, <1>2
      <4> QED
        BY <4>1, <4>2, <1>4
    <3>3. CASE k + 1 < m
      <4>1. upto[k] = <<>> /\ add[k + 1] = <<>>
        BY <3>2, <3>3
      <4> QED
        BY <4>1, <3>1, <3>3, <1>6, <1>8
    <3>4. CASE k + 1 = m
      <4>1. upto[k] = <<>> /\ add[k + 1] = news[m]
        BY <3>2, <3>4
      <4> QED
        BY <4>1, <3>1, <3>4, <1>6, <1>7
    <3>5. CASE k + 1 > m
      <4>1. upto[k] = news[m] /\ add[k + 1] = <<>>
        BY <3>2, <3>5
      <4>2. upto[k + 1] = news[m]
        BY <4>1, <3>1, <1>6, <1>7
      <4> QED
        BY <4>2, <3>5
    <3> QED
      BY <3>3, <3>4, <3>5
  <2> HIDE DEF S
  <2>3. \A k \in 0..n : k \in S
    BY <2>1, <2>2, Upward
  <2>4. n \in S
    BY <2>3
  <2> QED
    BY <1>1, <2>4, <2>5 DEF S
<1> QED
  BY <1>3, <1>4

-----------------------------------------------------------------------------
(* Edits of a row of characters.                                           *)

(* What comes of the row after a number of its characters.                 *)
Remaining(row, starts, ends, news, p, rest) ==
  Inserted(starts, news, p) \o (Kept(row, starts, ends, p + 1) \o rest)

Tails(T, C, row, starts, ends, news) ==
  /\ T \in [0..Len(row) -> Seq(C)]
  /\ T[Len(row)] = Inserted(starts, news, Len(row))
  /\ \A p \in 0..(Len(row) - 1) : T[p] = Remaining(row, starts, ends, news, p, T[p + 1])

(* What is inserted at a place is a sequence of them.                      *)
LEMMA InsertedIs ==
  ASSUME NEW C, NEW n \in Nat, NEW starts, Len(starts) = n, NEW news \in [1..n -> Seq(C)], NEW i
  PROVE  Inserted(starts, news, i) \in Seq(C)
<1>1. InsertedBy(C, starts, news, n, i)
  BY InsertedRuns
<1>2. PICK upto \in [0..n -> Seq(C)] : Inserted(starts, news, i) = upto[n]
  BY <1>1 DEF InsertedBy
<1> QED
  BY <1>2

HasTails(C, row, starts, ends, news) ==
  \E T : Tails(T, C, row, starts, ends, news) /\ Replaced(row, starts, ends, news) = T[0]

(* Replaced is the tail at 0.                                              *)
LEMMA ReplacedRuns ==
  ASSUME NEW C, NEW n \in Nat, NEW starts, Len(starts) = n, NEW ends, NEW news \in [1..n -> Seq(C)],
         NEW row \in Seq(C)
  PROVE  HasTails(C, row, starts, ends, news)
<1> DEFINE L == Len(row)
           ins(i) == Inserted(starts, news, i)
           kept(i) == Kept(row, starts, ends, i)
           rhs(g) == [m \in 0..L |-> Inserted(starts, news, L - m)
                                       \o (IF m = 0 THEN <<>> ELSE Kept(row, starts, ends, (L - m) + 1) \o g[m - 1])]
           end == CHOOSE g : g = rhs(g)
           step == [m \in 1..L |-> [v \in Seq(C) |-> ins(L - m) \o (kept((L - m) + 1) \o v)]]
<1>1. L \in Nat /\ \A i \in 1..L : row[i] \in C
  OBVIOUS
<1>2. Replaced(row, starts, ends, news) = end[L]
  BY DEF Replaced
<1>3. \A i : ins(i) \in Seq(C)
  BY InsertedIs
<1>4. \A i \in 1..L : kept(i) \in Seq(C)
  BY <1>1 DEF Kept
<1> HIDE DEF L, ins, kept
<1>5. \A m \in 1..L, v \in Seq(C) : ins(L - m) \o (kept((L - m) + 1) \o v) \in Seq(C)
  <2> TAKE m \in 1..L, v \in Seq(C)
  <2>1. ins(L - m) \in Seq(C) /\ kept((L - m) + 1) \in Seq(C)
    BY <1>1, <1>3, <1>4
  <2>2. kept((L - m) + 1) \o v \in Seq(C)
    BY <2>1, ConcatProperties
  <2> QED
    BY <2>1, <2>2, ConcatProperties
<1>6. step \in [1..L -> [Seq(C) -> Seq(C)]]
  BY <1>5
<1>7. \A m \in 1..L, v \in Seq(C) : step[m][v] = ins(L - m) \o (kept((L - m) + 1) \o v)
  OBVIOUS
<1> HIDE DEF step
<1>8. CanReach(L, Seq(C), ins(L), step)
  BY <1>1, <1>3, <1>6, Recursion
<1>9. PICK f \in [0..L -> Seq(C)] : Stepwise(f, L, ins(L), step)
  BY <1>8 DEF CanReach
<1>10. f[0] = ins(L) /\ \A m \in 1..L : f[m] = ins(L - m) \o (kept((L - m) + 1) \o f[m - 1])
  <2>1. \A m \in 1..L : f[m - 1] \in Seq(C)
    BY <1>1
  <2> QED
    BY <2>1, <1>7, <1>9 DEF Stepwise
<1>11. ins(L - 0) = ins(L) /\ ins(L) \o <<>> = ins(L)
  BY <1>1, <1>3, ConcatEmptySeq
<1>12. \A g : rhs(g) = [m \in 0..L |-> ins(L - m) \o (IF m = 0 THEN <<>> ELSE kept((L - m) + 1) \o g[m - 1])]
  BY DEF ins, kept
<1> HIDE DEF rhs
<1>13. f = rhs(f)
  <2> DEFINE h == [m \in 0..L |-> ins(L - m) \o (IF m = 0 THEN <<>> ELSE kept((L - m) + 1) \o f[m - 1])]
  <2>1. \A m \in 0..L : h[m] = f[m]
    <3> TAKE m \in 0..L
    <3>1. CASE m = 0
      <4>1. h[0] = ins(L - 0) \o <<>>
        BY <1>1
      <4> QED
        BY <4>1, <1>10, <1>11, <3>1
    <3>2. CASE m # 0
      <4>1. h[m] = ins(L - m) \o (kept((L - m) + 1) \o f[m - 1])
        BY <3>2
      <4>2. m \in 1..L
        BY <1>1, <3>2
      <4> QED
        BY <4>1, <4>2, <1>10
    <3> QED
      BY <3>1, <3>2
  <2>2. rhs(f) = h
    BY <1>12
  <2>3. h = [m \in 0..L |-> h[m]] /\ f = [m \in 0..L |-> f[m]]
    OBVIOUS
  <2> HIDE DEF h
  <2> QED
    BY <2>1, <2>2, <2>3
<1>14. end = rhs(end)
  BY <1>13
<1> HIDE DEF end
<1>15. end = [m \in 0..L |-> ins(L - m) \o (IF m = 0 THEN <<>> ELSE kept((L - m) + 1) \o end[m - 1])]
  BY <1>12, <1>14
<1>16. \A m \in 0..L : end[m] = f[m]
  <2> DEFINE S == {m \in 0..L : end[m] = f[m]}
  <2>1. 0 \in S
    <3>1. end[0] = ins(L - 0) \o <<>>
      BY <1>1, <1>15
    <3> QED
      BY <3>1, <1>1, <1>10, <1>11
  <2>2. \A m \in 0..(L - 1) : m \in S => m + 1 \in S
    <3> SUFFICES ASSUME NEW m \in 0..(L - 1), end[m] = f[m] PROVE end[m + 1] = f[m + 1]
      <4>1. \A m \in 0..(L - 1) : m + 1 \in 0..L
        BY <1>1
      <4> QED
        BY <4>1
    <3>1. m + 1 \in 1..L /\ m + 1 \in 0..L /\ m + 1 # 0 /\ (m + 1) - 1 = m
      BY <1>1
    <3>2. end[m + 1] = ins(L - (m + 1)) \o (kept((L - (m + 1)) + 1) \o end[(m + 1) - 1])
      BY <3>1, <1>15
    <3>3. f[m + 1] = ins(L - (m + 1)) \o (kept((L - (m + 1)) + 1) \o f[(m + 1) - 1])
      BY <3>1, <1>10
    <3> QED
      BY <3>1, <3>2, <3>3
  <2> HIDE DEF S
  <2>3. \A m \in 0..L : m \in S
    BY <1>1, <2>1, <2>2, Upward
  <2> QED
    BY <2>3 DEF S
<1> DEFINE T == [p \in 0..L |-> f[L - p]]
<1>17. T \in [0..L -> Seq(C)]
  BY <1>1
<1>18. T[L] = ins(L) /\ T[0] = f[L]
  <2>1. L - L = 0 /\ L - 0 = L /\ L \in 0..L /\ 0 \in 0..L
    BY <1>1
  <2> QED
    BY <2>1, <1>10
<1>19. \A p \in 0..(L - 1) : T[p] = ins(p) \o (kept(p + 1) \o T[p + 1])
  <2> TAKE p \in 0..(L - 1)
  <2>1. L - p \in 1..L /\ L - (L - p) = p /\ (L - p) - 1 = L - (p + 1) /\ p \in 0..L /\ p + 1 \in 0..L
    BY <1>1
  <2>2. f[L - p] = ins(L - (L - p)) \o (kept((L - (L - p)) + 1) \o f[(L - p) - 1])
    BY <2>1, <1>10
  <2>3. T[p] = f[L - p] /\ T[p + 1] = f[L - (p + 1)]
    BY <2>1
  <2> HIDE DEF T
  <2> QED
    BY <2>1, <2>2, <2>3
<1> HIDE DEF T
<1>20. Tails(T, C, row, starts, ends, news)
  BY <1>17, <1>18, <1>19 DEF Tails, Remaining, L, ins, kept
<1>21. Replaced(row, starts, ends, news) = T[0]
  <2>1. L \in 0..L
    BY <1>1
  <2> QED
    BY <2>1, <1>2, <1>16, <1>18
<1> QED
  BY <1>20, <1>21 DEF HasTails

(* Edits of a row: where they start and end, and what is new.              *)
Cuts(C, n, starts, ends, news) ==
  /\ starts \in [1..n -> Int] /\ Len(starts) = n /\ ends \in [1..n -> Int] /\ news \in [1..n -> Seq(C)]

NoStart(starts, n, m, p) == \A k \in 1..n : k # m => starts[k] # p

(* Where none starts nothing is inserted,                                  *)
LEMMA NoneInserted ==
  ASSUME NEW C, NEW n \in Nat, NEW starts, NEW ends, NEW news, Cuts(C, n, starts, ends, news), NEW p,
         NoStart(starts, n, 0, p)
  PROVE  Inserted(starts, news, p) = <<>>
<1>1. Len(starts) = n /\ news \in [1..n -> Seq(C)]
  BY DEF Cuts
<1>2. \A k \in 1..n : starts[k] # p
  BY DEF NoStart
<1>3. (\A k \in 1..n : starts[k] # p) => Inserted(starts, news, p) = <<>>
  BY <1>1, InsertedAt
<1> QED
  BY <1>2, <1>3

OneStart(starts, n, m, p) == m \in 1..n /\ starts[m] = p /\ NoStart(starts, n, m, p)

(* where one starts its new text is.                                       *)
LEMMA OneInserted ==
  ASSUME NEW C, NEW n \in Nat, NEW starts, NEW ends, NEW news, Cuts(C, n, starts, ends, news), NEW p,
         NEW m, OneStart(starts, n, m, p)
  PROVE  Inserted(starts, news, p) = news[m]
<1>1. Len(starts) = n /\ news \in [1..n -> Seq(C)]
  BY DEF Cuts
<1>2. \A j \in 1..n : starts[j] = p /\ (\A k \in 1..n : k # j => starts[k] # p) => Inserted(starts, news, p) = news[j]
  BY <1>1, InsertedAt
<1> QED
  BY <1>2 DEF OneStart, NoStart

Associative(C) == \A x, y, z \in Seq(C) : (x \o y) \o z = x \o (y \o z)

(* Concatenation is associative.                                           *)
LEMMA Associates == ASSUME NEW C PROVE Associative(C)
  BY ConcatAssociative DEF Associative

(* The k-th edit is all before a, or starts at c or later.                 *)
Clear(starts, ends, k, a, c) == c <= starts[k] \/ (starts[k] < a /\ ends[k] <= a)

AllClear(starts, ends, n, m, a, c) == \A k \in 1..n : k # m => Clear(starts, ends, k, a, c)

(* The tails of a row that is edited so.                                   *)
Rows(C, n, starts, ends, news, row, T) ==
  Cuts(C, n, starts, ends, news) /\ row \in Seq(C) /\ Tails(T, C, row, starts, ends, news)

(* No edit from a to c.                                                    *)
Untouched(starts, ends, n, a, c, row) ==
  a \in Nat /\ c \in Nat /\ a <= c /\ c <= Len(row) /\ AllClear(starts, ends, n, 0, a, c)

Keeps(T, row, a, c) == T[a] = SubSeq(row, a + 1, c) \o T[c]

(* InRow two such places the row comes unchanged.                        *)
LEMMA TailKeeps ==
  ASSUME NEW C, NEW n \in Nat, NEW starts, NEW ends, NEW news, NEW row, NEW T, Rows(C, n, starts, ends, news, row, T),
         NEW a, NEW c, Untouched(starts, ends, n, a, c, row)
  PROVE  Keeps(T, row, a, c)
<1>10. \A x, y, z \in Seq(C) : (x \o y) \o z = x \o (y \o z)
  <2>1. Associative(C)
    BY Associates
  <2> QED
    BY <2>1 DEF Associative
<1>00. /\ Cuts(C, n, starts, ends, news) /\ row \in Seq(C) /\ Tails(T, C, row, starts, ends, news)
       /\ a \in Nat /\ c \in Nat /\ a <= c /\ c <= Len(row) /\ AllClear(starts, ends, n, 0, a, c)
  BY DEF Rows, Untouched
<1> USE <1>00
<1> DEFINE L == Len(row)
<1>1. L \in Nat /\ \A i \in 1..L : row[i] \in C
  OBVIOUS
<1>0. Len(starts) = n /\ \A k \in 1..n : starts[k] \in Int /\ ends[k] \in Int
  BY DEF Cuts
<1>11. \A x \in Seq(C) : <<>> \o x = x
  BY ConcatEmptySeq
<1>2. \A p \in 0..L : T[p] \in Seq(C)
  BY DEF Tails
<1>3. \A p \in a..(c - 1) : Inserted(starts, news, p) = <<>>
  <2> TAKE p \in a..(c - 1)
  <2>1. ASSUME NEW k \in 1..n, k # 0 PROVE starts[k] # p
    BY <1>0 DEF Clear, AllClear
  <2>2. NoStart(starts, n, 0, p)
    BY <2>1 DEF NoStart
  <2> QED
    BY <2>2, NoneInserted
<1>4. \A p \in a..(c - 1) : Kept(row, starts, ends, p + 1) = << row[p + 1] >>
  <2> TAKE p \in a..(c - 1)
  <2>1. ASSUME NEW k \in 1..n PROVE ~(starts[k] < p + 1 /\ p + 1 <= ends[k])
    BY <1>0 DEF Clear, AllClear
  <2> QED
    BY <2>1, <1>0 DEF Kept, Gone
<1>5. \A p \in a..(c - 1) : T[p] = << row[p + 1] >> \o T[p + 1]
  <2> TAKE p \in a..(c - 1)
  <2>1. p \in 0..(L - 1) /\ p + 1 \in 0..L /\ p + 1 \in 1..L
    BY <1>1
  <2>2. T[p] = Inserted(starts, news, p) \o (Kept(row, starts, ends, p + 1) \o T[p + 1])
    BY <2>1 DEF Tails, Remaining
  <2>3. << row[p + 1] >> \in Seq(C) /\ T[p + 1] \in Seq(C)
    BY <2>1, <1>1, <1>2
  <2>4. << row[p + 1] >> \o T[p + 1] \in Seq(C)
    BY <2>3, ConcatProperties
  <2> QED
    BY <2>2, <2>4, <1>3, <1>4, <1>11
<1> DEFINE S == {m \in 0..(c - a) : T[c - m] = SubSeq(row, (c - m) + 1, c) \o T[c]}
<1>6. 0 \in S
  <2>1. SubSeq(row, c + 1, c) = <<>>
    BY SubSeqEmpty
  <2>2. <<>> \o T[c] = T[c]
    BY <1>1, <1>2, <1>11
  <2>3. 0 \in 0..(c - a) /\ c - 0 = c
    OBVIOUS
  <2>4. T[c - 0] = SubSeq(row, (c - 0) + 1, c) \o T[c]
    BY <2>1, <2>2, <2>3
  <2> QED
    BY <2>3, <2>4
<1>7. \A m \in 0..((c - a) - 1) : m \in S => m + 1 \in S
  <2> SUFFICES ASSUME NEW m \in 0..((c - a) - 1), T[c - m] = SubSeq(row, (c - m) + 1, c) \o T[c]
               PROVE  T[c - (m + 1)] = SubSeq(row, (c - (m + 1)) + 1, c) \o T[c]
    <3>1. \A x \in 0..((c - a) - 1) : x + 1 \in 0..(c - a)
      OBVIOUS
    <3> QED
      BY <3>1
  <2>1. PICK p \in a..(c - 1) : p = c - (m + 1)
    OBVIOUS
  <2>2. p + 1 = c - m /\ p + 1 \in 1..L /\ c \in (p + 1)..L /\ p \in 0..L /\ c \in 0..L
    BY <2>1, <1>1
  <2>3. T[p] = << row[p + 1] >> \o (SubSeq(row, (p + 1) + 1, c) \o T[c])
    BY <2>2, <1>5
  <2>4. SubSeq(row, p + 1, c) = << row[p + 1] >> \o SubSeq(row, (p + 1) + 1, c)
    BY <2>2, SubSeqRecursiveFirst
  <2>5. << row[p + 1] >> \in Seq(C) /\ T[c] \in Seq(C)
    BY <2>2, <1>1, <1>2
  <2>6. SubSeq(row, (p + 1) + 1, c) \in Seq(C)
    <3>1. \A i \in ((p + 1) + 1)..c : row[i] \in C
      BY <2>2, <1>1
    <3> QED
      BY <3>1, SubSeqProperties
  <2>7. (<< row[p + 1] >> \o SubSeq(row, (p + 1) + 1, c)) \o T[c] = << row[p + 1] >> \o (SubSeq(row, (p + 1) + 1, c) \o T[c])
    BY <2>5, <2>6, <1>10
  <2> QED
    BY <2>1, <2>3, <2>4, <2>7
<1> HIDE DEF S
<1>12. c - a \in Nat
  OBVIOUS
<1>8. \A m \in 0..(c - a) : m \in S
  BY <1>6, <1>7, <1>12, Upward
<1>9. c - a \in S /\ c - (c - a) = a
  BY <1>8
<1> QED
  BY <1>9 DEF S, Keeps

(* The m-th edit is from b to d, and no other touches the row from b to c. *)
CutAt(row, starts, ends, n, m, b, d, c) ==
  /\ b \in Nat /\ d \in Nat /\ c \in Nat /\ b <= d /\ d <= c /\ b < c /\ c <= Len(row)
  /\ m \in 1..n /\ starts[m] = b /\ ends[m] = d
  /\ AllClear(starts, ends, n, m, b, c)

Turns(T, row, news, m, b, d, c) == T[b] = news[m] \o (SubSeq(row, d + 1, c) \o T[c])

(* Where an edit starts its new text comes, and the row after its end.     *)
LEMMA TailReplaces ==
  ASSUME NEW C, NEW n \in Nat, NEW starts, NEW ends, NEW news, NEW row, NEW T, Rows(C, n, starts, ends, news, row, T),
         NEW m, NEW b, NEW d, NEW c, CutAt(row, starts, ends, n, m, b, d, c)
  PROVE  Turns(T, row, news, m, b, d, c)
<1>10. \A x, y, z \in Seq(C) : (x \o y) \o z = x \o (y \o z)
  <2>1. Associative(C)
    BY Associates
  <2> QED
    BY <2>1 DEF Associative
<1>17. \A x, y : Untouched(starts, ends, n, x, y, row) => Keeps(T, row, x, y)
  BY TailKeeps
<1>13. \A x, y : Untouched(starts, ends, n, x, y, row) => T[x] = SubSeq(row, x + 1, y) \o T[y]
  BY <1>17 DEF Keeps
<1>14. \A p : OneStart(starts, n, m, p) => Inserted(starts, news, p) = news[m]
  BY OneInserted DEF Rows
<1>15. \A p : NoStart(starts, n, 0, p) => Inserted(starts, news, p) = <<>>
  BY NoneInserted DEF Rows
<1>9. m \in 1..n /\ starts[m] = b /\ ends[m] = d
  BY DEF CutAt
<1>12. \A k \in 1..n : k # m => Clear(starts, ends, k, b, c)
  BY DEF CutAt, AllClear
<1>16. b \in Nat /\ d \in Nat /\ c \in Nat /\ b <= d /\ d <= c /\ b < c /\ c <= Len(row)
  BY DEF CutAt
<1> USE <1>16
<1>00. Cuts(C, n, starts, ends, news) /\ row \in Seq(C) /\ Tails(T, C, row, starts, ends, news)
  BY DEF Rows
<1> USE <1>00
<1> DEFINE L == Len(row)
<1>1. L \in Nat /\ \A i \in 1..L : row[i] \in C
  OBVIOUS
<1>0. Len(starts) = n /\ \A k \in 1..n : starts[k] \in Int /\ ends[k] \in Int
  BY DEF Cuts
<1>11. \A x \in Seq(C) : <<>> \o x = x
  BY ConcatEmptySeq
<1>2. \A p \in 0..L : T[p] \in Seq(C)
  BY DEF Tails
<1>3. Inserted(starts, news, b) = news[m]
  <2>3. m \in 1..n /\ starts[m] = b
    BY <1>9
  <2>1. ASSUME NEW k \in 1..n, k # m PROVE starts[k] # b
    BY <1>12, <2>1, <1>0 DEF Clear
  <2>2. NoStart(starts, n, m, b)
    BY <2>1 DEF NoStart
  <2> QED
    <3>1. OneStart(starts, n, m, b)
      BY <2>2, <2>3 DEF OneStart
    <3> QED
      BY <3>1, <1>14
<1>4. T[b] = news[m] \o (Kept(row, starts, ends, b + 1) \o T[b + 1])
  <2>1. b \in 0..(L - 1)
    BY <1>1
  <2> QED
    BY <2>1, <1>3 DEF Tails, Remaining
<1>5. CASE b = d
  <2>1. Kept(row, starts, ends, b + 1) = << row[b + 1] >>
    <3>1. ASSUME NEW k \in 1..n PROVE ~(starts[k] < b + 1 /\ b + 1 <= ends[k])
      <4>1. CASE k = m
        BY <1>5, <1>9, <4>1
      <4>2. CASE k # m
        BY <1>12, <1>0, <4>2 DEF Clear
      <4> QED
        BY <4>1, <4>2
    <3> QED
      BY <3>1, <1>0 DEF Kept, Gone
  <2>2. AllClear(starts, ends, n, 0, b + 1, c)
    <3>1. ASSUME NEW k \in 1..n PROVE Clear(starts, ends, k, b + 1, c)
      <4>1. CASE k = m
        BY <1>5, <1>9, <4>1 DEF Clear
      <4>2. CASE k # m
        BY <1>12, <1>0, <4>2 DEF Clear
      <4> QED
        BY <4>1, <4>2
    <3> QED
      BY <3>1 DEF AllClear
  <2>3. T[b + 1] = SubSeq(row, (b + 1) + 1, c) \o T[c]
    <3>1. b + 1 \in Nat /\ b + 1 <= c
      OBVIOUS
    <3>2. Untouched(starts, ends, n, b + 1, c, row)
      BY <3>1, <2>2 DEF Untouched
    <3> QED
      BY <3>2, <1>13
  <2>4. SubSeq(row, b + 1, c) = << row[b + 1] >> \o SubSeq(row, (b + 1) + 1, c)
    <3>1. b + 1 \in 1..L /\ c \in (b + 1)..L
      BY <1>1
    <3> QED
      BY <3>1, SubSeqRecursiveFirst
  <2>5. << row[b + 1] >> \in Seq(C) /\ T[c] \in Seq(C) /\ SubSeq(row, (b + 1) + 1, c) \in Seq(C)
    <3>1. \A i \in ((b + 1) + 1)..c : row[i] \in C
      BY <1>1
    <3>2. SubSeq(row, (b + 1) + 1, c) \in Seq(C)
      BY <3>1, SubSeqProperties
    <3>3. b + 1 \in 1..L /\ c \in 0..L
      BY <1>1
    <3> QED
      BY <3>2, <3>3, <1>1, <1>2
  <2>6. (<< row[b + 1] >> \o SubSeq(row, (b + 1) + 1, c)) \o T[c]
          = << row[b + 1] >> \o (SubSeq(row, (b + 1) + 1, c) \o T[c])
    BY <2>5, <1>10
  <2> QED
    BY <1>4, <1>5, <2>1, <2>3, <2>4, <2>6 DEF Turns
<1>6. CASE b < d
  <2>1. Len(starts) = n /\ \A p \in b..(d - 1) : starts[m] < p + 1 /\ p + 1 <= ends[m]
    BY <1>0, <1>9
  <2>2. \A p \in b..(d - 1) : Kept(row, starts, ends, p + 1) = <<>>
    <3> TAKE p \in b..(d - 1)
    <3>1. Gone(starts, ends, p + 1)
      BY <2>1, <1>9 DEF Gone
    <3> QED
      BY <3>1 DEF Kept
  <2>3. \A p \in (b + 1)..(d - 1) : Inserted(starts, news, p) = <<>>
    <3> TAKE p \in (b + 1)..(d - 1)
    <3>1. ASSUME NEW k \in 1..n PROVE starts[k] # p
      <4>1. CASE k = m
        BY <4>1, <1>9
      <4>2. CASE k # m
        BY <1>12, <1>0, <4>2 DEF Clear
      <4> QED
        BY <4>1, <4>2
    <3>2. NoStart(starts, n, 0, p)
      BY <3>1 DEF NoStart
    <3> QED
      BY <3>2, <1>15
  <2>4. \A p \in (b + 1)..(d - 1) : T[p] = T[p + 1]
    <3> TAKE p \in (b + 1)..(d - 1)
    <3>1. p \in 0..(L - 1) /\ p + 1 \in 0..L /\ p \in b..(d - 1)
      BY <1>1
    <3>2. T[p] = Inserted(starts, news, p) \o (Kept(row, starts, ends, p + 1) \o T[p + 1])
      BY <3>1 DEF Tails, Remaining
    <3>3. T[p + 1] \in Seq(C)
      BY <3>1, <1>2
    <3> QED
      BY <3>1, <3>2, <3>3, <2>2, <2>3, <1>11
  <2> DEFINE S == {j \in 0..((d - b) - 1) : T[d - j] = T[d]}
  <2>5. 0 \in S
    BY <1>6
  <2>6. \A j \in 0..(((d - b) - 1) - 1) : j \in S => j + 1 \in S
    <3> SUFFICES ASSUME NEW j \in 0..(((d - b) - 1) - 1), T[d - j] = T[d] PROVE T[d - (j + 1)] = T[d]
      <4>1. \A x \in 0..(((d - b) - 1) - 1) : x + 1 \in 0..((d - b) - 1)
        OBVIOUS
      <4> QED
        BY <4>1
    <3>0. d - (j + 1) \in (b + 1)..(d - 1)
      BY <1>6
    <3>1. PICK p \in (b + 1)..(d - 1) : p = d - (j + 1)
      BY <3>0
    <3>2. p + 1 = d - j
      BY <3>1
    <3> QED
      BY <3>1, <3>2, <2>4
  <2> HIDE DEF S
  <2>7. \A j \in 0..((d - b) - 1) : j \in S
    <3>1. (d - b) - 1 \in Nat
      BY <1>6
    <3> QED
      BY <3>1, <2>5, <2>6, Upward
  <2>8. T[b + 1] = T[d]
    <3>1. (d - b) - 1 \in S /\ d - ((d - b) - 1) = b + 1
      BY <2>7, <1>6
    <3> QED
      BY <3>1 DEF S
  <2>9. AllClear(starts, ends, n, 0, d, c)
    <3>1. ASSUME NEW k \in 1..n PROVE Clear(starts, ends, k, d, c)
      <4>1. CASE k = m
        BY <1>6, <1>9, <4>1 DEF Clear
      <4>2. CASE k # m
        BY <1>12, <1>0, <1>6, <4>2 DEF Clear
      <4> QED
        BY <4>1, <4>2
    <3> QED
      BY <3>1 DEF AllClear
  <2>10. T[d] = SubSeq(row, d + 1, c) \o T[c]
    <3>1. Untouched(starts, ends, n, d, c, row)
      BY <2>9 DEF Untouched
    <3> QED
      BY <3>1, <1>13
  <2>11. Kept(row, starts, ends, b + 1) \o T[b + 1] = T[d]
    <3>1. b \in b..(d - 1) /\ d \in 0..L
      BY <1>1, <1>6
    <3> QED
      BY <3>1, <2>2, <2>8, <1>2, <1>11
  <2> QED
    BY <1>4, <2>10, <2>11 DEF Turns
<1>7. b = d \/ b < d
  OBVIOUS
<1> QED
  BY <1>5, <1>6, <1>7

-----------------------------------------------------------------------------
(* Parts of a sequence.                                                    *)

Top(x, k) == SubSeq(x, 1, k)
Rest(x, k) == SubSeq(x, k + 1, Len(x))

(* The first k of a sequence,                                              *)
LEMMA TopIs ==
  ASSUME NEW C, NEW x \in Seq(C), NEW k \in 0..Len(x)
  PROVE  Top(x, k) \in Seq(C) /\ Len(Top(x, k)) = k /\ \A i \in 1..k : Top(x, k)[i] = x[i]
<1>1. \A i \in 1..k : x[i] \in C
  BY ElementOfSeq, LenProperties
<1>2. /\ Top(x, k) \in Seq(C) /\ Len(Top(x, k)) = (IF 1 <= k THEN k - 1 + 1 ELSE 0)
      /\ \A i \in 1..(k - 1 + 1) : Top(x, k)[i] = x[1 + i - 1]
  BY <1>1, SubSeqProperties DEF Top
<1>3. k \in Nat
  BY LenProperties
<1> QED
  BY <1>2, <1>3

(* and what comes after them.                                              *)
LEMMA RestIs ==
  ASSUME NEW C, NEW x \in Seq(C), NEW k \in 0..Len(x)
  PROVE  /\ Rest(x, k) \in Seq(C) /\ Len(Rest(x, k)) = Len(x) - k
         /\ \A i \in 1..(Len(x) - k) : Rest(x, k)[i] = x[k + i]
<1>3. k \in Nat /\ Len(x) \in Nat
  BY LenProperties
<1>1. \A i \in (k + 1)..Len(x) : x[i] \in C
  BY <1>3, ElementOfSeq
<1>4. k + 1 \in Int /\ Len(x) \in Int
  BY <1>3
<1>2. /\ Rest(x, k) \in Seq(C) /\ Len(Rest(x, k)) = (IF k + 1 <= Len(x) THEN Len(x) - (k + 1) + 1 ELSE 0)
      /\ \A i \in 1..(Len(x) - (k + 1) + 1) : Rest(x, k)[i] = x[(k + 1) + i - 1]
  BY <1>1, <1>4, SubSeqProperties DEF Rest
<1>5. Len(x) - (k + 1) + 1 = Len(x) - k /\ \A i \in 1..(Len(x) - k) : (k + 1) + i - 1 = k + i
  BY <1>3
<1>6. Len(Rest(x, k)) = Len(x) - k
  BY <1>2, <1>3
<1>7. \A i \in 1..(Len(x) - k) : Rest(x, k)[i] = x[k + i]
  BY <1>2, <1>5
<1> QED
  BY <1>2, <1>6, <1>7

(* A concatenation, element by element.                                    *)
LEMMA ConcatIs ==
  ASSUME NEW C, NEW x \in Seq(C), NEW y \in Seq(C)
  PROVE  /\ x \o y \in Seq(C) /\ Len(x \o y) = Len(x) + Len(y) /\ Len(x) \in Nat /\ Len(y) \in Nat
         /\ \A i \in 1..Len(x) : (x \o y)[i] = x[i]
         /\ \A i \in 1..Len(y) : (x \o y)[Len(x) + i] = y[i]
<1>1. Len(x) \in Nat /\ Len(y) \in Nat
  BY LenProperties
<1>2. x \o y \in Seq(C) /\ Len(x \o y) = Len(x) + Len(y)
      /\ \A i \in 1..Len(x) + Len(y) : (x \o y)[i] = IF i <= Len(x) THEN x[i] ELSE y[i - Len(x)]
  BY ConcatProperties
<1>3. \A i \in 1..Len(x) : i \in 1..Len(x) + Len(y) /\ i <= Len(x)
  BY <1>1
<1>4. \A i \in 1..Len(y) : Len(x) + i \in 1..Len(x) + Len(y) /\ ~(Len(x) + i <= Len(x)) /\ (Len(x) + i) - Len(x) = i
  BY <1>1
<1> QED
  BY <1>1, <1>2, <1>3, <1>4

(* The first ones of a concatenation are those of its first part,          *)
LEMMA TopOfConcat ==
  ASSUME NEW C, NEW x \in Seq(C), NEW y \in Seq(C), NEW k \in 0..Len(x)
  PROVE  Top(x \o y, k) = Top(x, k)
<1>1. x \o y \in Seq(C) /\ Len(x \o y) = Len(x) + Len(y) /\ Len(x) \in Nat /\ Len(y) \in Nat
      /\ \A i \in 1..Len(x) : (x \o y)[i] = x[i]
  BY ConcatIs
<1>2. k \in 0..Len(x \o y)
  BY <1>1
<1>3. Top(x \o y, k) \in Seq(C) /\ Len(Top(x \o y, k)) = k /\ \A i \in 1..k : Top(x \o y, k)[i] = (x \o y)[i]
  BY <1>1, <1>2, TopIs
<1>4. Top(x, k) \in Seq(C) /\ Len(Top(x, k)) = k /\ \A i \in 1..k : Top(x, k)[i] = x[i]
  BY TopIs
<1>5. \A i \in 1..k : i \in 1..Len(x)
  BY <1>1
<1>6. \A i \in 1..k : Top(x \o y, k)[i] = Top(x, k)[i]
  BY <1>1, <1>3, <1>4, <1>5
<1> QED
  BY <1>3, <1>4, <1>6, SeqEqual

(* and the rest has the second part at its end.                            *)
LEMMA RestOfConcat ==
  ASSUME NEW C, NEW x \in Seq(C), NEW y \in Seq(C), NEW k \in 0..Len(x)
  PROVE  Rest(x \o y, k) = Rest(x, k) \o y
<1>1. x \o y \in Seq(C) /\ Len(x \o y) = Len(x) + Len(y) /\ Len(x) \in Nat /\ Len(y) \in Nat
      /\ (\A i \in 1..Len(x) : (x \o y)[i] = x[i]) /\ (\A i \in 1..Len(y) : (x \o y)[Len(x) + i] = y[i])
  BY ConcatIs
<1>2. k \in 0..Len(x \o y) /\ k \in Nat /\ k <= Len(x)
  BY <1>1
<1>3. Rest(x \o y, k) \in Seq(C) /\ Len(Rest(x \o y, k)) = Len(x \o y) - k
      /\ \A i \in 1..(Len(x \o y) - k) : Rest(x \o y, k)[i] = (x \o y)[k + i]
  BY <1>1, <1>2, RestIs
<1>4. Rest(x, k) \in Seq(C) /\ Len(Rest(x, k)) = Len(x) - k
      /\ \A i \in 1..(Len(x) - k) : Rest(x, k)[i] = x[k + i]
  BY RestIs
<1> DEFINE z == Rest(x, k)
<1> HIDE DEF z
<1>10. z \in Seq(C)
  BY <1>4 DEF z
<1>5. /\ z \o y \in Seq(C) /\ Len(z \o y) = Len(z) + Len(y)
      /\ (\A i \in 1..Len(z) : (z \o y)[i] = z[i]) /\ (\A i \in 1..Len(y) : (z \o y)[Len(z) + i] = y[i])
  BY <1>10, ConcatIs
<1>6. Len(z) = Len(x) - k /\ \A i \in 1..Len(z) : z[i] = x[k + i]
  BY <1>4 DEF z
<1>7. Len(Rest(x \o y, k)) = Len(z \o y)
  BY <1>1, <1>2, <1>3, <1>5, <1>6
<1>8. ASSUME NEW i \in 1..Len(Rest(x \o y, k)) PROVE Rest(x \o y, k)[i] = (z \o y)[i]
  <2>0. i \in 1..(Len(x) + Len(y) - k) /\ i \in Nat
    BY <1>1, <1>2, <1>3
  <2>1. Rest(x \o y, k)[i] = (x \o y)[k + i]
    BY <1>3, <1>8
  <2>2. CASE i <= Len(x) - k
    <3>1. k + i \in 1..Len(x) /\ i \in 1..Len(z)
      BY <2>0, <2>2, <1>1, <1>2, <1>6
    <3> QED
      BY <3>1, <2>1, <1>1, <1>5, <1>6
  <2>3. CASE ~(i <= Len(x) - k)
    <3>3. i - (Len(x) - k) \in 1..Len(y)
      BY <2>0, <2>3, <1>1, <1>2
    <3>1. PICK j \in 1..Len(y) : j = i - (Len(x) - k)
      BY <3>3
    <3>2. k + i = Len(x) + j /\ i = Len(z) + j
      BY <3>1, <2>0, <1>1, <1>2, <1>6
    <3> QED
      BY <3>2, <2>1, <1>1, <1>5
  <2> QED
    BY <2>2, <2>3
<1>9. Rest(x \o y, k) = z \o y
  BY <1>3, <1>5, <1>7, <1>8, SeqEqual
<1> QED
  BY <1>9 DEF z

(* The first ones of the first ones.                                       *)
LEMMA TopOfTop ==
  ASSUME NEW C, NEW x \in Seq(C), NEW k \in 0..Len(x), NEW m \in 0..k
  PROVE  Top(Top(x, k), m) = Top(x, m) /\ Rest(Top(x, k), m) = SubSeq(x, m + 1, k)
<1>1. Top(x, k) \in Seq(C) /\ Len(Top(x, k)) = k /\ \A i \in 1..k : Top(x, k)[i] = x[i]
  BY TopIs
<1>0. k \in Nat /\ m \in Nat /\ Len(x) \in Nat /\ m <= k /\ k <= Len(x)
  BY LenProperties
<1> DEFINE y == Top(x, k)
<1> HIDE DEF y
<1>2. y \in Seq(C) /\ Len(y) = k /\ \A i \in 1..k : y[i] = x[i]
  BY <1>1 DEF y
<1>3. m \in 0..Len(y) /\ m \in 0..Len(x)
  BY <1>0, <1>2
<1>4. Top(y, m) \in Seq(C) /\ Len(Top(y, m)) = m /\ \A i \in 1..m : Top(y, m)[i] = y[i]
  BY <1>2, <1>3, TopIs
<1>5. Top(x, m) \in Seq(C) /\ Len(Top(x, m)) = m /\ \A i \in 1..m : Top(x, m)[i] = x[i]
  BY <1>3, TopIs
<1>6. \A i \in 1..m : i \in 1..k
  BY <1>0
<1>7. Top(y, m) = Top(x, m)
  <2>1. \A i \in 1..m : Top(y, m)[i] = Top(x, m)[i]
    BY <1>2, <1>4, <1>5, <1>6
  <2> QED
    BY <2>1, <1>4, <1>5, SeqEqual
<1>8. Rest(y, m) \in Seq(C) /\ Len(Rest(y, m)) = k - m /\ \A i \in 1..(k - m) : Rest(y, m)[i] = y[m + i]
  BY <1>2, <1>3, RestIs
<1>9. \A i \in (m + 1)..k : x[i] \in C
  BY <1>0, ElementOfSeq
<1>10. m + 1 \in Int /\ k \in Int
  BY <1>0
<1>11. /\ SubSeq(x, m + 1, k) \in Seq(C) /\ Len(SubSeq(x, m + 1, k)) = (IF m + 1 <= k THEN k - (m + 1) + 1 ELSE 0)
       /\ \A i \in 1..(k - (m + 1) + 1) : SubSeq(x, m + 1, k)[i] = x[(m + 1) + i - 1]
  BY <1>9, <1>10, SubSeqProperties
<1>12. Len(SubSeq(x, m + 1, k)) = k - m
  BY <1>0, <1>11
<1>13. \A i \in 1..(k - m) : Rest(y, m)[i] = SubSeq(x, m + 1, k)[i]
  <2> TAKE i \in 1..(k - m)
  <2>1. i \in 1..(k - (m + 1) + 1) /\ (m + 1) + i - 1 = m + i /\ m + i \in 1..k
    BY <1>0
  <2> QED
    BY <2>1, <1>2, <1>8, <1>11
<1>14. Rest(y, m) = SubSeq(x, m + 1, k)
  BY <1>8, <1>11, <1>12, <1>13, SeqEqual
<1> QED
  BY <1>7, <1>14 DEF y

(* All and none of a sequence.                                             *)
LEMMA Whole ==
  ASSUME NEW C, NEW x \in Seq(C)
  PROVE  Top(x, Len(x)) = x /\ Rest(x, Len(x)) = <<>> /\ Top(x, 0) = <<>> /\ Rest(x, 0) = x
<1>1. Len(x) \in Nat
  BY LenProperties
<1>2. Top(x, Len(x)) = x
  BY SubSeqFull DEF Top
<1>3. Rest(x, Len(x)) = <<>>
  <2>1. Len(x) < Len(x) + 1 /\ Len(x) + 1 \in Int /\ Len(x) \in Int
    BY <1>1
  <2> QED
    BY <2>1, SubSeqEmpty DEF Rest
<1>4. Top(x, 0) = <<>>
  BY SubSeqEmpty DEF Top
<1>5. Rest(x, 0) = x
  BY SubSeqFull DEF Rest
<1> QED
  BY <1>2, <1>3, <1>4, <1>5

(* The two make the sequence.                                              *)
LEMMA TopAndRest ==
  ASSUME NEW C, NEW x \in Seq(C), NEW k \in 0..Len(x)
  PROVE  Top(x, k) \o Rest(x, k) = x
<1>1. Len(x) \in Nat /\ k \in Nat /\ k <= Len(x)
  BY LenProperties
<1>2. 1 \in 1..(Len(x) + 1) /\ k \in (1 - 1)..Len(x) /\ Len(x) \in k..Len(x)
  BY <1>1
<1>3. SubSeq(x, 1, k) \o SubSeq(x, k + 1, Len(x)) = SubSeq(x, 1, Len(x))
  BY <1>2, ConcatAdjacentSubSeq
<1> QED
  BY <1>3, SubSeqFull DEF Top, Rest
-----------------------------------------------------------------------------
(* Edits of a row, the last first, none touching another.                  *)

InTurn(order, n) ==
  /\ order \in [1..n -> 1..n] /\ \A i \in 1..n : \E k \in 1..n : order[k] = i
  /\ \A k, m \in 1..n : k < m => order[k] # order[m]

Apart(order, n, starts, ends, len) ==
  /\ \A k \in 1..n : starts[k] \in Nat /\ ends[k] \in Nat /\ starts[k] <= ends[k] /\ ends[k] <= len
  /\ \A k, m \in 1..n : k < m => ends[order[m]] <= starts[order[k]] /\ starts[order[m]] < starts[order[k]]

(* Up to where the row is as it was, after k edits.                        *)
Bound(order, starts, len, k) == IF k = 0 THEN len ELSE starts[order[k]]

(* From the k-th edit to the bound before it there is no other.            *)
LEMMA CutInTurn ==
  ASSUME NEW n \in Nat, NEW order, NEW starts, NEW ends, NEW row, Len(row) \in Nat,
         InTurn(order, n), Apart(order, n, starts, ends, Len(row)),
         NEW k \in 1..n, starts[order[k]] < Bound(order, starts, Len(row), k - 1)
  PROVE  CutAt(row, starts, ends, n, order[k], starts[order[k]], ends[order[k]], Bound(order, starts, Len(row), k - 1))
<1> DEFINE c == Bound(order, starts, Len(row), k - 1)
           b == starts[order[k]]
           d == ends[order[k]]
<1>00. \A i \in 1..n : order[i] \in 1..n
  BY DEF InTurn
<1>01. k - 1 \in 0..n /\ (k = 1 \/ k - 1 \in 1..n)
  OBVIOUS
<1>0. order[k] \in 1..n /\ k - 1 \in 0..n /\ (k = 1 \/ k - 1 \in 1..n) /\ \A i \in 1..n : order[i] \in 1..n
  BY <1>00, <1>01
<1>1. b \in Nat /\ d \in Nat /\ b <= d /\ d <= Len(row)
  BY <1>0 DEF Apart
<1>2. c \in Nat /\ d <= c /\ c <= Len(row)
  <2>1. CASE k = 1
    BY <2>1, <1>1 DEF Bound
  <2>2. CASE k - 1 \in 1..n
    <3>1. c = starts[order[k - 1]] /\ order[k - 1] \in 1..n
      BY <2>2, <1>0 DEF Bound
    <3>2. starts[order[k - 1]] \in Nat /\ starts[order[k - 1]] <= Len(row)
      <4>1. starts[order[k - 1]] \in Nat /\ ends[order[k - 1]] \in Nat
            /\ starts[order[k - 1]] <= ends[order[k - 1]] /\ ends[order[k - 1]] <= Len(row)
        BY <3>1 DEF Apart
      <4> QED
        BY <4>1
    <3>3. k - 1 < k
      OBVIOUS
    <3>4. ends[order[k]] <= starts[order[k - 1]]
      BY <3>3, <2>2 DEF Apart
    <3> QED
      BY <3>1, <3>2, <3>4
  <2> QED
    BY <1>0, <2>1, <2>2
<1>3. ASSUME NEW j \in 1..n, j # order[k] PROVE Clear(starts, ends, j, b, c)
  <2>1. PICK i \in 1..n : order[i] = j
    BY DEF InTurn
  <2>2. i # k
    BY <2>1, <1>3
  <2>3. starts[j] \in Nat /\ ends[j] \in Nat
    BY DEF Apart
  <2>4. CASE i < k
    <3>1. k - 1 \in 1..n /\ k # 1
      BY <2>4
    <3>2. c = starts[order[k - 1]]
      BY <3>1 DEF Bound
    <3>3. CASE i = k - 1
      BY <3>2, <3>3, <2>1, <2>3 DEF Clear
    <3>4. CASE i < k - 1
      <4>1. starts[order[k - 1]] < starts[order[i]]
        BY <3>1, <3>4 DEF Apart
      <4> QED
        BY <4>1, <3>2, <2>1, <2>3, <1>2 DEF Clear
    <3> QED
      BY <2>4, <3>3, <3>4
  <2>5. CASE k < i
    <3>1. ends[order[i]] <= starts[order[k]] /\ starts[order[i]] < starts[order[k]]
      BY <2>5 DEF Apart
    <3> QED
      BY <3>1, <2>1 DEF Clear
  <2> QED
    BY <2>2, <2>4, <2>5
<1>4. AllClear(starts, ends, n, order[k], b, c)
  BY <1>3 DEF AllClear
<1> QED
  BY <1>0, <1>1, <1>2, <1>4 DEF CutAt

(* What comes of the row before the bound stays; after k edits the rest is *)
(* the tail there.                                                         *)
Rewrite(x, new, b, d) == Top(x, b) \o (new \o Rest(x, d))

Rewrites(t, C, n, order, starts, ends, news, row) ==
  /\ t \in [0..n -> Seq(C)] /\ t[0] = row
  /\ \A k \in 1..n : t[k] = Rewrite(t[k - 1], news[order[k]], starts[order[k]], ends[order[k]])

Ending(t, C, n, order, starts, ends, news, row) ==
  /\ Rewrites(t, C, n, order, starts, ends, news, row)
  /\ t[n] = Replaced(row, starts, ends, news)
  /\ \A k \in 0..n : \E R \in Seq(C) : t[k] = Top(row, Bound(order, starts, Len(row), k)) \o R

ReplacedInSteps(C, n, order, starts, ends, news, row) ==
  \E t : Ending(t, C, n, order, starts, ends, news, row)

(* Rewriting before the bound.                                             *)
LEMMA RewriteOfTop ==
  ASSUME NEW C, NEW row \in Seq(C), NEW R \in Seq(C), NEW c \in 0..Len(row), NEW b \in 0..c, NEW d \in 0..c,
         NEW new \in Seq(C)
  PROVE  /\ Rewrite(Top(row, c) \o R, new, b, d) = Top(row, b) \o (new \o (SubSeq(row, d + 1, c) \o R))
         /\ new \o (SubSeq(row, d + 1, c) \o R) \in Seq(C)
<1> DEFINE x == Top(row, c)
<1>1. x \in Seq(C) /\ Len(x) = c
  BY TopIs
<1>2. Top(x, b) = Top(row, b)
  BY TopOfTop
<1>3. Rest(x, d) = SubSeq(row, d + 1, c)
  BY TopOfTop
<1> HIDE DEF x
<1>4. b \in 0..Len(x) /\ d \in 0..Len(x)
  BY <1>1
<1>5. Top(x \o R, b) = Top(x, b)
  BY <1>1, <1>4, TopOfConcat
<1>6. Rest(x \o R, d) = Rest(x, d) \o R
  BY <1>1, <1>4, RestOfConcat
<1>7. Rest(x, d) \in Seq(C)
  BY <1>1, <1>4, RestIs
<1>8. Rest(x, d) \o R \in Seq(C)
  BY <1>7, ConcatProperties
<1>9. new \o (Rest(x, d) \o R) \in Seq(C)
  BY <1>8, ConcatProperties
<1>10. Rewrite(x \o R, new, b, d) = Top(row, b) \o (new \o (SubSeq(row, d + 1, c) \o R))
  BY <1>2, <1>3, <1>5, <1>6 DEF Rewrite
<1> QED
  BY <1>3, <1>9, <1>10 DEF x

(* Such rewriting replaces all of them at once.                            *)
LEMMA ReplacedInTurn ==
  ASSUME NEW C, NEW n \in Nat, NEW order, NEW starts, NEW ends, NEW news, NEW row,
         row \in Seq(C), Cuts(C, n, starts, ends, news), InTurn(order, n), Apart(order, n, starts, ends, Len(row))
  PROVE  ReplacedInSteps(C, n, order, starts, ends, news, row)
<1>1. Len(starts) = n /\ news \in [1..n -> Seq(C)] /\ \A k \in 1..n : starts[k] \in Nat
  <2>1. Len(starts) = n /\ news \in [1..n -> Seq(C)]
    BY DEF Cuts
  <2>2. \A k \in 1..n : starts[k] \in Nat
    BY DEF Apart
  <2> QED
    BY <2>1, <2>2
<1>01. HasTails(C, row, starts, ends, news)
  BY <1>1, ReplacedRuns
<1>2. PICK T : Tails(T, C, row, starts, ends, news) /\ Replaced(row, starts, ends, news) = T[0]
  BY <1>01 DEF HasTails
<1>3. Rows(C, n, starts, ends, news, row, T)
  BY <1>2 DEF Rows
<1>4. Len(row) \in Nat
  BY LenProperties
<1> DEFINE L == Len(row)
           B(k) == Bound(order, starts, Len(row), k)
<1>5. \A k \in 1..n : /\ order[k] \in 1..n /\ news[order[k]] \in Seq(C)
                       /\ starts[order[k]] \in Nat /\ ends[order[k]] \in Nat
                       /\ starts[order[k]] <= ends[order[k]] /\ ends[order[k]] <= L
  <2> TAKE k \in 1..n
  <2>1. order[k] \in 1..n
    BY DEF InTurn
  <2>2. news[order[k]] \in Seq(C)
    BY <2>1, <1>1
  <2>3. /\ starts[order[k]] \in Nat /\ ends[order[k]] \in Nat
        /\ starts[order[k]] <= ends[order[k]] /\ ends[order[k]] <= L
    BY <2>1 DEF Apart
  <2> QED
    BY <2>1, <2>2, <2>3
<1>6. \A k \in 0..n : B(k) \in 0..L
  <2> TAKE k \in 0..n
  <2>1. CASE k = 0
    BY <2>1, <1>4 DEF Bound
  <2>2. CASE k # 0
    <3>1. k \in 1..n
      BY <2>2
    <3>2. starts[order[k]] \in 0..L
      <4>1. /\ starts[order[k]] \in Nat /\ ends[order[k]] \in Nat
            /\ starts[order[k]] <= ends[order[k]] /\ ends[order[k]] <= L
        BY <3>1, <1>5
      <4> QED
        BY <4>1, <1>4
    <3> QED
      BY <2>2, <3>2 DEF Bound
  <2> QED
    BY <2>1, <2>2
<1>7. \A k \in 1..n : B(k) = starts[order[k]] /\ ends[order[k]] \in 0..B(k - 1) /\ B(k) \in 0..B(k - 1)
                      /\ (k > 1 => B(k) < B(k - 1))
  <2> TAKE k \in 1..n
  <2>1. B(k) = starts[order[k]]
    BY DEF Bound
  <2>2. CASE k = 1
    <3>1. B(k - 1) = L
      BY <2>2 DEF Bound
    <3> QED
      BY <2>1, <2>2, <3>1, <1>5, <1>4
  <2>3. CASE k # 1
    <3>1. k - 1 \in 1..n /\ k - 1 < k
      BY <2>3
    <3>2. B(k - 1) = starts[order[k - 1]]
      BY <3>1 DEF Bound
    <3>3. ends[order[k]] <= starts[order[k - 1]] /\ starts[order[k]] < starts[order[k - 1]]
      BY <3>1 DEF Apart
    <3> HIDE DEF B
    <3>4. B(k) \in Nat /\ B(k - 1) \in Nat /\ ends[order[k]] \in Nat
      BY <3>1, <3>2, <2>1, <1>5
    <3>5. ends[order[k]] <= B(k - 1) /\ B(k) < B(k - 1)
      BY <3>2, <3>3, <2>1
    <3> QED
      BY <2>1, <3>4, <3>5
  <2> QED
    BY <2>2, <2>3
<1>8. \A x \in Seq(C) : x \o <<>> = x /\ <<>> \o x = x
  BY ConcatEmptySeq
<1> HIDE DEF B, L
<1>9. \A k \in 1..n : k > 1 \/ B(k) < L =>
        T[B(k)] = news[order[k]] \o (SubSeq(row, ends[order[k]] + 1, B(k - 1)) \o T[B(k - 1)])
  <2> SUFFICES ASSUME NEW k \in 1..n, k > 1 \/ B(k) < L
               PROVE  T[B(k)] = news[order[k]] \o (SubSeq(row, ends[order[k]] + 1, B(k - 1)) \o T[B(k - 1)])
    OBVIOUS
  <2>1. k = 1 => B(k - 1) = L
    BY DEF B, Bound, L
  <2>2. B(k) < B(k - 1)
    BY <2>1, <1>7
  <2>3. starts[order[k]] < Bound(order, starts, Len(row), k - 1)
    BY <2>2, <1>7 DEF B
  <2>4. CutAt(row, starts, ends, n, order[k], starts[order[k]], ends[order[k]], Bound(order, starts, Len(row), k - 1))
    BY <2>3, <1>4, CutInTurn
  <2>5. CutAt(row, starts, ends, n, order[k], starts[order[k]], ends[order[k]], B(k - 1))
    BY <2>4 DEF B
  <2>7. Turns(T, row, news, order[k], starts[order[k]], ends[order[k]], B(k - 1))
    BY <2>5, <1>3, TailReplaces
  <2>6. T[starts[order[k]]] = news[order[k]] \o (SubSeq(row, ends[order[k]] + 1, B(k - 1)) \o T[B(k - 1)])
    BY <2>7 DEF Turns
  <2> QED
    BY <2>6, <1>7
<1>10. \A k \in 1..n : k = 1 /\ ~(B(k) < L) => T[B(k)] = news[order[k]]
  <2> SUFFICES ASSUME NEW k \in 1..n, k = 1, ~(B(k) < L) PROVE T[B(k)] = news[order[k]]
    OBVIOUS
  <2>1. B(k) = L
    BY <1>4, <1>6 DEF L
  <2>2. T[L] = Inserted(starts, news, L)
    BY <1>2 DEF Tails, L
  <2>3. ASSUME NEW j \in 1..n, j # order[k] PROVE starts[j] # L
    <3>1. PICK i \in 1..n : order[i] = j
      BY DEF InTurn
    <3>2. k < i
      BY <3>1, <2>3
    <3>3. starts[order[i]] < starts[order[k]]
      BY <3>2 DEF Apart
    <3>4. starts[order[k]] = L /\ starts[order[k]] \in Nat
      BY <2>1, <1>5, <1>7
    <3>5. starts[j] < L /\ starts[j] \in Nat
      BY <3>1, <3>3, <3>4, <1>5
    <3> QED
      BY <3>4, <3>5
  <2>4. NoStart(starts, n, order[k], L)
    BY <2>3 DEF NoStart
  <2>5. OneStart(starts, n, order[k], L)
    BY <2>1, <2>4, <1>5, <1>7 DEF OneStart
  <2>6. Inserted(starts, news, L) = news[order[k]]
    BY <2>5, OneInserted
  <2> QED
    BY <2>1, <2>2, <2>6
<1>11. \A k \in 1..n : \A i \in 1..n : i >= k => starts[order[i]] <= B(k)
  <2> SUFFICES ASSUME NEW k \in 1..n, NEW i \in 1..n, i >= k PROVE starts[order[i]] <= B(k)
    OBVIOUS
  <2>1. starts[order[i]] \in Nat /\ starts[order[k]] \in Nat /\ B(k) = starts[order[k]]
    BY <1>5, <1>7
  <2>2. CASE i = k
    BY <2>1, <2>2
  <2>3. CASE k < i
    <3>1. starts[order[i]] < starts[order[k]]
      BY <2>3 DEF Apart
    <3> QED
      BY <2>1, <3>1
  <2> QED
    BY <2>2, <2>3
<1>12. (n = 0 \/ B(1) < L) => T[L] = <<>>
  <2> SUFFICES ASSUME n = 0 \/ B(1) < L PROVE T[L] = <<>>
    OBVIOUS
  <2>2. T[L] = Inserted(starts, news, L)
    BY <1>2 DEF Tails, L
  <2>3. ASSUME NEW j \in 1..n PROVE starts[j] # L
    <3>1. PICK i \in 1..n : order[i] = j
      BY DEF InTurn
    <3>2. 1 \in 1..n /\ i >= 1 /\ B(1) < L
      OBVIOUS
    <3>3. starts[order[i]] <= B(1)
      BY <3>2, <1>11
    <3>4. B(1) \in Nat /\ L \in Nat /\ starts[order[i]] \in Nat
      BY <3>2, <1>4, <1>5, <1>7 DEF L
    <3> QED
      BY <3>1, <3>2, <3>3, <3>4
  <2>4. NoStart(starts, n, 0, L)
    BY <2>3 DEF NoStart
  <2>5. Inserted(starts, news, L) = <<>>
    BY <2>4, NoneInserted
  <2> QED
    BY <2>2, <2>5
<1> DEFINE R(k) == IF k = 0 THEN <<>> ELSE T[B(k)]
           t == [k \in 0..n |-> Top(row, B(k)) \o R(k)]
<1>13. \A k \in 1..n : Rewrite(Top(row, B(k - 1)) \o R(k - 1), news[order[k]], starts[order[k]], ends[order[k]])
                          = Top(row, B(k)) \o R(k)
  <2> SUFFICES ASSUME NEW k \in 1..n
               PROVE  Rewrite(Top(row, B(k - 1)) \o R(k - 1), news[order[k]], starts[order[k]], ends[order[k]])
                        = Top(row, B(k)) \o R(k)
    OBVIOUS
  <2>1. PICK i \in 0..(n - 1) : i = k - 1
    OBVIOUS
  <2>2. k - 1 = i /\ k # 0 /\ (k = 1 <=> i = 0)
    BY <2>1
  <2>10. R(i) \in Seq(C) /\ R(i) = IF i = 0 THEN <<>> ELSE T[B(i)]
    <3>1. i \in 0..n
      OBVIOUS
    <3>2. T[B(i)] \in Seq(C)
      BY <3>1, <1>2, <1>6 DEF Tails, L
    <3>3. <<>> \in Seq(C)
      OBVIOUS
    <3> QED
      BY <3>2, <3>3
  <2>11. R(k) = T[B(k)]
    OBVIOUS
  <2> HIDE DEF R
  <2>4. PICK Q \in Seq(C) : Q = R(i) /\ Q = IF i = 0 THEN <<>> ELSE T[B(i)]
    BY <2>10
  <2>5. B(i) \in 0..Len(row) /\ B(k) \in 0..B(i) /\ ends[order[k]] \in 0..B(i)
    <3>1. i \in 0..n
      OBVIOUS
    <3> QED
      BY <3>1, <2>2, <1>6, <1>7 DEF L
  <2>6. news[order[k]] \in Seq(C)
    BY <1>5
  <2> DEFINE N == news[order[k]] \o (SubSeq(row, ends[order[k]] + 1, B(i)) \o Q)
  <2>7. Rewrite(Top(row, B(i)) \o Q, news[order[k]], B(k), ends[order[k]]) = Top(row, B(k)) \o N /\ N \in Seq(C)
    BY <2>5, <2>6, RewriteOfTop
  <2>9. N = T[B(k)]
    <3>1. CASE k > 1 \/ B(k) < L
      <4>1. T[B(k)] = news[order[k]] \o (SubSeq(row, ends[order[k]] + 1, B(k - 1)) \o T[B(k - 1)])
        BY <3>1, <1>9
      <4>2. Q = T[B(i)]
        <5>1. CASE i = 0
          <6>1. B(1) < L /\ B(i) = L
            BY <5>1, <2>2, <3>1 DEF B, Bound, L
          <6> QED
            BY <6>1, <5>1, <2>4, <1>12
        <5>2. CASE i # 0
          BY <5>2, <2>4
        <5> QED
          BY <5>1, <5>2
      <4> QED
        BY <4>1, <4>2, <2>2
    <3>2. CASE ~(k > 1 \/ B(k) < L)
      <4>1. k = 1 /\ i = 0 /\ B(i) = L /\ Q = <<>>
        BY <3>2, <2>2, <2>4 DEF B, Bound, L
      <4>2. T[B(k)] = news[order[k]]
        BY <3>2, <4>1, <1>10
      <4>3. ends[order[k]] = L
        <5>1. B(k) \in Nat /\ ends[order[k]] \in Nat /\ B(k) <= ends[order[k]] /\ ends[order[k]] <= L
          BY <1>5, <1>7
        <5> QED
          BY <5>1, <3>2, <1>4 DEF L
      <4>4. SubSeq(row, L + 1, L) = <<>>
        BY Whole DEF Rest, L
      <4> QED
        <5>1. SubSeq(row, ends[order[k]] + 1, B(i)) \o Q = <<>>
          BY <4>1, <4>3, <4>4, <1>8
        <5> QED
          BY <5>1, <4>2, <2>6, <1>8
    <3> QED
      BY <3>1, <3>2
  <2> QED
    BY <2>2, <2>4, <2>7, <2>9, <2>11, <1>7
<1>14. Untouched(starts, ends, n, 0, B(n), row)
  <2>1. ASSUME NEW j \in 1..n PROVE B(n) <= starts[j]
    <3>1. PICK i \in 1..n : order[i] = j
      BY DEF InTurn
    <3>2. n \in 1..n /\ B(n) = starts[order[n]]
      BY <1>7
    <3>3. CASE i = n
      BY <3>1, <3>2, <3>3, <1>1
    <3>4. CASE i < n
      <4>1. starts[order[n]] < starts[order[i]]
        BY <3>2, <3>4 DEF Apart
      <4> QED
        BY <4>1, <3>1, <3>2, <1>5
    <3> QED
      BY <3>3, <3>4
  <2>2. AllClear(starts, ends, n, 0, 0, B(n))
    BY <2>1 DEF AllClear, Clear
  <2>3. B(n) \in 0..L /\ n \in 0..n
    BY <1>6
  <2> QED
    BY <2>2, <2>3, <1>4 DEF Untouched, L
<1>15. T[0] = Top(row, B(n)) \o T[B(n)]
  <2>1. Keeps(T, row, 0, B(n))
    BY <1>3, <1>14, TailKeeps
  <2> QED
    BY <2>1 DEF Keeps, Top
<1>16. t \in [0..n -> Seq(C)]
  <2>1. ASSUME NEW k \in 0..n PROVE Top(row, B(k)) \in Seq(C) /\ R(k) \in Seq(C) /\ Top(row, B(k)) \o R(k) \in Seq(C)
    <3>1. B(k) \in 0..Len(row)
      BY <1>6 DEF L
    <3>2. Top(row, B(k)) \in Seq(C)
      BY <3>1, TopIs
    <3>3. T[B(k)] \in Seq(C)
      BY <3>1, <1>2 DEF Tails
    <3>4. <<>> \in Seq(C)
      OBVIOUS
    <3>5. R(k) \in Seq(C)
      BY <3>3, <3>4
    <3> HIDE DEF R
    <3> QED
      BY <3>2, <3>5, ConcatProperties
  <2> QED
    BY <2>1
<1>17. \A k \in 0..n : R(k) \in Seq(C)
  <2> TAKE k \in 0..n
  <2>1. B(k) \in 0..Len(row)
    BY <1>6 DEF L
  <2>2. T[B(k)] \in Seq(C)
    BY <2>1, <1>2 DEF Tails
  <2>3. <<>> \in Seq(C)
    OBVIOUS
  <2> QED
    BY <2>2, <2>3
<1>18. t[0] = row
  <2>1. Top(row, L) = row
    BY Whole DEF L
  <2>2. B(0) = L
    BY DEF B, Bound, L
  <2>3. t[0] = Top(row, B(0)) \o <<>>
    OBVIOUS
  <2> QED
    BY <2>1, <2>2, <2>3, <1>8
<1>19. \A k \in 0..n : t[k] = Top(row, B(k)) \o R(k)
  OBVIOUS
<1>20. t[n] = Replaced(row, starts, ends, news)
  <2>1. n = 0 => B(n) = L
    BY DEF B, Bound, L
  <2>2. R(n) = T[B(n)]
    BY <2>1, <1>12
  <2>3. n \in 0..n
    OBVIOUS
  <2> QED
    BY <2>2, <2>3, <1>2, <1>15, <1>19
<1> HIDE DEF t, R
<1>21. \A k \in 1..n : t[k] = Rewrite(t[k - 1], news[order[k]], starts[order[k]], ends[order[k]])
  <2> TAKE k \in 1..n
  <2>1. k \in 0..n /\ k - 1 \in 0..n
    OBVIOUS
  <2>2. t[k] = Top(row, B(k)) \o R(k) /\ t[k - 1] = Top(row, B(k - 1)) \o R(k - 1)
    BY <2>1, <1>19
  <2> QED
    BY <2>2, <1>13
<1>22. Rewrites(t, C, n, order, starts, ends, news, row)
  BY <1>16, <1>18, <1>21 DEF Rewrites
<1>23. \A k \in 0..n : \E Q \in Seq(C) : t[k] = Top(row, Bound(order, starts, Len(row), k)) \o Q
  BY <1>17, <1>19 DEF B
<1>24. Ending(t, C, n, order, starts, ends, news, row)
  BY <1>20, <1>22, <1>23 DEF Ending
<1> QED
  BY <1>24 DEF ReplacedInSteps
-----------------------------------------------------------------------------
(* edit_file.                                                              *)

LineEdit(C) == [s : Int, e : Int, new : Seq(C)]

LinesInFile(text, edits) ==
  \A i \in 1..Len(edits) : edits[i].s \in 1..Len(text) /\ edits[i].e \in edits[i].s..Len(text)

LinesDisjoint(edits) ==
  \A i, j \in 1..Len(edits) : i # j => edits[i].e < edits[j].s \/ edits[j].e < edits[i].s

(* The order in which they are applied.                                    *)
LineOrder(edits, order) ==
  /\ InTurn(order, Len(edits)) /\ FromTheEnd(edits) = [k \in 1..Len(edits) |-> edits[order[k]]]
  /\ \A k, m \in 1..Len(edits) : k < m => edits[order[m]].s <= edits[order[k]].s

(* There is one.                                                           *)
LEMMA LineOrderExists ==
  ASSUME NEW C, NEW edits \in Seq(LineEdit(C))
  PROVE  \E order : LineOrder(edits, order)
<1> DEFINE n == Len(edits)
           l == [k \in 1..n |-> edits[k].s]
           c == [k \in 1..n |-> 0]
           order == LastFirst([k \in 1..n |-> <<edits[k].s, 0>>])
<1>1. n \in Nat /\ \A i \in 1..n : edits[i] \in LineEdit(C)
  BY LenProperties, ElementOfSeq
<1>2. \A i \in 1..n : edits[i].s \in Int
  BY <1>1 DEF LineEdit
<1>3. l \in [1..n -> Int] /\ c \in [1..n -> Int]
  BY <1>2
<1>4. [k \in 1..n |-> <<edits[k].s, 0>>] = [k \in 1..n |-> <<l[k], c[k]>>]
  OBVIOUS
<1>5. order = LastFirst([k \in 1..n |-> <<l[k], c[k]>>])
  BY <1>4
<1>6. FromTheEnd(edits) = [k \in 1..n |-> edits[order[k]]]
  BY DEF FromTheEnd
<1>7. \A k \in 1..n : l[k] = edits[k].s /\ c[k] = 0
  OBVIOUS
<1> HIDE DEF n, l, c, order
<1>12. SortedLast(order, n, l, c)
  BY <1>1, <1>3, <1>5, LastComesFirst
<1>8. /\ order \in [1..n -> 1..n]
      /\ \A i \in 1..n : \E k \in 1..n : order[k] = i
      /\ \A k, m \in 1..n : k < m => order[k] # order[m] /\ Starting(l, c, order[k], order[m])
  BY <1>12 DEF SortedLast
<1>9. InTurn(order, n)
  BY <1>8 DEF InTurn
<1>10. \A k, m \in 1..n : k < m => edits[order[m]].s <= edits[order[k]].s
  <2> SUFFICES ASSUME NEW k \in 1..n, NEW m \in 1..n, k < m PROVE edits[order[m]].s <= edits[order[k]].s
    OBVIOUS
  <2>1. Starting(l, c, order[k], order[m])
    BY <1>8
  <2>2. order[k] \in 1..n /\ order[m] \in 1..n
    BY <1>8
  <2>3. l[order[m]] = edits[order[m]].s /\ l[order[k]] = edits[order[k]].s
    BY <2>2, <1>7
  <2>4. edits[order[m]].s \in Int /\ edits[order[k]].s \in Int
    BY <2>2, <1>2
  <2>5. l[order[m]] < l[order[k]] \/ l[order[m]] = l[order[k]]
    BY <2>1 DEF Starting
  <2> QED
    BY <2>3, <2>4, <2>5
<1>11. LineOrder(edits, order)
  BY <1>6, <1>9, <1>10 DEF LineOrder, n
<1> QED
  BY <1>11

(* The overlaps that edit_file looks for, in that order, are all that      *)
(* there are.                                                              *)
LEMMA OverlapOfLines ==
  ASSUME NEW C, NEW edits \in Seq(LineEdit(C)), NEW order, LineOrder(edits, order),
         \A i \in 1..Len(edits) : edits[i].s <= edits[i].e
  PROVE  /\ LinesOverlap(edits) <=> ~LinesDisjoint(edits)
         /\ LinesDisjoint(edits) => \A k, m \in 1..Len(edits) : k < m => edits[order[m]].e < edits[order[k]].s
<1> DEFINE n == Len(edits)
<1>1. n \in Nat /\ \A i \in 1..n : edits[i] \in LineEdit(C)
  BY LenProperties, ElementOfSeq
<1>2. \A i \in 1..n : edits[i].s \in Int /\ edits[i].e \in Int /\ edits[i].s <= edits[i].e
  BY <1>1 DEF LineEdit
<1>3. FromTheEnd(edits) = [k \in 1..n |-> edits[order[k]]]
      /\ \A k, m \in 1..n : k < m => edits[order[m]].s <= edits[order[k]].s
  BY DEF LineOrder
<1>4. /\ \A k \in 1..n : order[k] \in 1..n
      /\ \A i \in 1..n : \E k \in 1..n : order[k] = i
      /\ \A k, m \in 1..n : k < m => order[k] # order[m]
  BY DEF LineOrder, InTurn
<1>5. LinesOverlap(edits) <=> \E i \in 2..n : edits[order[i]].e >= edits[order[i - 1]].s
  <2>1. \A i \in 2..n : i \in 1..n /\ i - 1 \in 1..n
    OBVIOUS
  <2>2. \A i \in 2..n : FromTheEnd(edits)[i] = edits[order[i]] /\ FromTheEnd(edits)[i - 1] = edits[order[i - 1]]
    BY <2>1, <1>3
  <2> QED
    BY <2>2 DEF LinesOverlap
<1>6. ASSUME LinesDisjoint(edits), NEW k \in 1..n, NEW m \in 1..n, k < m PROVE edits[order[m]].e < edits[order[k]].s
  <2>1. order[k] \in 1..n /\ order[m] \in 1..n /\ order[k] # order[m]
    BY <1>4, <1>6
  <2>2. edits[order[m]].e < edits[order[k]].s \/ edits[order[k]].e < edits[order[m]].s
    BY <2>1, <1>6 DEF LinesDisjoint
  <2>3. edits[order[m]].s <= edits[order[k]].s
    BY <1>3, <1>6
  <2>4. /\ edits[order[k]].s \in Int /\ edits[order[k]].e \in Int /\ edits[order[k]].s <= edits[order[k]].e
        /\ edits[order[m]].s \in Int /\ edits[order[m]].e \in Int /\ edits[order[m]].s <= edits[order[m]].e
    BY <2>1, <1>2
  <2> QED
    BY <2>2, <2>3, <2>4
<1>7. LinesOverlap(edits) => ~LinesDisjoint(edits)
  <2> SUFFICES ASSUME LinesDisjoint(edits), NEW i \in 2..n, edits[order[i]].e >= edits[order[i - 1]].s PROVE FALSE
    BY <1>5
  <2>1. i \in 1..n /\ i - 1 \in 1..n /\ i - 1 < i
    OBVIOUS
  <2>2. edits[order[i]].e < edits[order[i - 1]].s
    BY <2>1, <1>6
  <2>3. edits[order[i]].e \in Int /\ edits[order[i - 1]].s \in Int
    BY <2>1, <1>2, <1>4
  <2> QED
    BY <2>2, <2>3
<1>8. ASSUME ~LinesOverlap(edits), NEW k \in 1..n, NEW m \in 1..n, k < m PROVE edits[order[m]].e < edits[order[k]].s
  <2>1. m \in 2..n /\ m - 1 \in 1..n /\ k <= m - 1
    BY <1>8
  <2>2. ~(edits[order[m]].e >= edits[order[m - 1]].s)
    BY <2>1, <1>5, <1>8
  <2>3. edits[order[m]].e \in Int /\ edits[order[m - 1]].s \in Int /\ edits[order[k]].s \in Int
    BY <2>1, <1>2, <1>4
  <2>4. edits[order[m]].e < edits[order[m - 1]].s
    BY <2>2, <2>3
  <2>5. CASE k = m - 1
    BY <2>4, <2>5
  <2>6. CASE k < m - 1
    <3>1. edits[order[m - 1]].s <= edits[order[k]].s
      BY <2>1, <2>6, <1>3
    <3> QED
      BY <3>1, <2>3, <2>4
  <2> QED
    BY <2>1, <2>5, <2>6
<1>9. ~LinesOverlap(edits) => LinesDisjoint(edits)
  <2> SUFFICES ASSUME ~LinesOverlap(edits), NEW i \in 1..n, NEW j \in 1..n, i # j
               PROVE  edits[i].e < edits[j].s \/ edits[j].e < edits[i].s
    BY DEF LinesDisjoint
  <2>1. PICK k \in 1..n : order[k] = i
    BY <1>4
  <2>2. PICK m \in 1..n : order[m] = j
    BY <1>4
  <2>3. k < m \/ m < k
    BY <2>1, <2>2
  <2> QED
    BY <2>1, <2>2, <2>3, <1>8
<1> QED
  BY <1>6, <1>7, <1>9

(* Lines apart are apart as places.                                        *)
LEMMA LinesApart ==
  ASSUME NEW s \in Nat, NEW e \in Nat, NEW later \in Nat, s <= e, e < later
  PROVE  e <= later - 1 /\ s - 1 < later - 1
OBVIOUS

(* An edit of lines that are there.                                        *)
LineThere(x, edit) == edit.s \in 1..Len(x) /\ edit.e \in edit.s..Len(x)

(* That replaces these lines.                                              *)
LEMMA LineEditRewrites ==
  ASSUME NEW C, NEW x \in Seq(C), NEW edit \in LineEdit(C), LineThere(x, edit)
  PROVE  ApplyLineEdit(x, edit) = Rewrite(x, edit.new, edit.s - 1, edit.e)
<1>9. \A p, q, r \in Seq(C) : (p \o q) \o r = p \o (q \o r)
  <2>1. Associative(C)
    BY Associates
  <2> QED
    BY <2>1 DEF Associative
<1>1. Len(x) \in Nat /\ edit.new \in Seq(C)
  BY LenProperties DEF LineEdit
<1>2. edit.s \in Nat /\ edit.e \in Nat /\ 1 <= edit.s /\ edit.s <= edit.e /\ edit.e <= Len(x)
  BY <1>1 DEF LineThere
<1>3. Clamp(edit.s, x) = edit.s /\ Clamp(edit.e, x) = edit.e
  BY <1>1, <1>2 DEF Clamp
<1>8. ~(edit.e < edit.s)
  BY <1>2
<1>4. ApplyLineEdit(x, edit) = SubSeq(x, 1, edit.s - 1) \o edit.new \o SubSeq(x, edit.e + 1, Len(x))
  BY ONLY <1>3, <1>8 DEF ApplyLineEdit
<1>5. edit.s - 1 \in 0..Len(x) /\ edit.e \in 0..Len(x)
  BY <1>1, <1>2
<1>6. Top(x, edit.s - 1) \in Seq(C) /\ Rest(x, edit.e) \in Seq(C)
  BY <1>5, TopIs, RestIs
<1>7. (Top(x, edit.s - 1) \o edit.new) \o Rest(x, edit.e) = Top(x, edit.s - 1) \o (edit.new \o Rest(x, edit.e))
  BY ONLY <1>1, <1>6, <1>9
<1> QED
  BY <1>4, <1>7 DEF Top, Rest, Rewrite

(* The texts one after the other, if all is disjoint.                      *)
TextsOf(t, C, text, edits, order) ==
  /\ t \in [0..Len(edits) -> Seq(C)] /\ t[0] = text /\ t[Len(edits)] = LinesReplaced(text, edits)
  /\ \A k \in 1..Len(edits) : /\ t[k - 1] # <<>> /\ t[k] = ApplyLineEdit(t[k - 1], edits[order[k]])
                              /\ edits[order[k]].s >= 1

(* They are there, and end with all replaced.                              *)
LEMMA TextsOfLines ==
  ASSUME NEW C, NEW text \in Seq(C), NEW edits \in Seq(LineEdit(C)), LinesInFile(text, edits), LinesDisjoint(edits),
         NEW order, LineOrder(edits, order)
  PROVE  \E t : TextsOf(t, C, text, edits, order)
<1> DEFINE n == Len(edits)
           starts == [k \in 1..n |-> edits[k].s - 1]
           ends == [k \in 1..n |-> edits[k].e]
           news == [k \in 1..n |-> edits[k].new]
<1>1. n \in Nat /\ Len(text) \in Nat /\ \A i \in 1..n : edits[i] \in LineEdit(C)
  BY LenProperties, ElementOfSeq
<1>2. \A i \in 1..n : /\ edits[i].s \in Nat /\ edits[i].e \in Nat /\ edits[i].new \in Seq(C)
                      /\ 1 <= edits[i].s /\ edits[i].s <= edits[i].e /\ edits[i].e <= Len(text)
  <2> TAKE i \in 1..n
  <2>1. edits[i].s \in 1..Len(text) /\ edits[i].e \in edits[i].s..Len(text)
    BY DEF LinesInFile
  <2>2. edits[i].new \in Seq(C)
    BY <1>1 DEF LineEdit
  <2> QED
    BY <2>1, <2>2, <1>1
<1>3. Cuts(C, n, starts, ends, news)
  <2>1. starts \in [1..n -> Int] /\ ends \in [1..n -> Int] /\ news \in [1..n -> Seq(C)]
    BY <1>2
  <2>2. Len(starts) = n
    BY <1>1
  <2> QED
    BY <2>1, <2>2 DEF Cuts
<1>4. InTurn(order, n) /\ \A k \in 1..n : order[k] \in 1..n
  BY DEF LineOrder, InTurn
<1>5. \A k \in 1..n : starts[k] = edits[k].s - 1 /\ ends[k] = edits[k].e /\ news[k] = edits[k].new
  OBVIOUS
<1>6. LinesReplaced(text, edits) = Replaced(text, starts, ends, news)
  BY DEF LinesReplaced
<1> HIDE DEF starts, ends, news
<1>7. \A k, m \in 1..n : k < m => edits[order[m]].e < edits[order[k]].s
  BY <1>2, OverlapOfLines
<1>8. Apart(order, n, starts, ends, Len(text))
  <2>1. \A k \in 1..n : starts[k] \in Nat /\ ends[k] \in Nat /\ starts[k] <= ends[k] /\ ends[k] <= Len(text)
    <3> TAKE k \in 1..n
    <3>1. starts[k] = edits[k].s - 1 /\ ends[k] = edits[k].e
      BY <1>5
    <3>2. /\ edits[k].s \in Nat /\ edits[k].e \in Nat
          /\ 1 <= edits[k].s /\ edits[k].s <= edits[k].e /\ edits[k].e <= Len(text)
      BY <1>2
    <3> QED
      BY ONLY <3>1, <3>2, <1>1
  <2>2. ASSUME NEW k \in 1..n, NEW m \in 1..n, k < m
        PROVE  ends[order[m]] <= starts[order[k]] /\ starts[order[m]] < starts[order[k]]
    <3>1. edits[order[m]].e < edits[order[k]].s
      BY <2>2, <1>7
    <3>2. /\ ends[order[m]] = edits[order[m]].e /\ starts[order[m]] = edits[order[m]].s - 1
          /\ starts[order[k]] = edits[order[k]].s - 1
      BY <1>4, <1>5
    <3>3. /\ edits[order[m]].s \in Nat /\ edits[order[m]].e \in Nat /\ edits[order[m]].s <= edits[order[m]].e
          /\ edits[order[k]].s \in Nat
      BY <1>2, <1>4
    <3>4. edits[order[m]].e <= edits[order[k]].s - 1 /\ edits[order[m]].s - 1 < edits[order[k]].s - 1
      BY <3>1, <3>3, LinesApart
    <3> QED
      BY ONLY <3>2, <3>4
  <2> QED
    BY <2>1, <2>2 DEF Apart
<1>9. ReplacedInSteps(C, n, order, starts, ends, news, text)
  BY <1>1, <1>3, <1>4, <1>8, ReplacedInTurn
<1>10. PICK t : Ending(t, C, n, order, starts, ends, news, text)
  BY <1>9 DEF ReplacedInSteps
<1>11. /\ t \in [0..n -> Seq(C)] /\ t[0] = text /\ t[n] = LinesReplaced(text, edits)
       /\ \A k \in 1..n : t[k] = Rewrite(t[k - 1], news[order[k]], starts[order[k]], ends[order[k]])
  BY <1>6, <1>10 DEF Ending, Rewrites
<1>12. \A k \in 0..n : \E R \in Seq(C) : t[k] = Top(text, Bound(order, starts, Len(text), k)) \o R
  BY <1>10 DEF Ending
<1>13. ASSUME NEW k \in 1..n
       PROVE  /\ t[k - 1] # <<>> /\ t[k] = ApplyLineEdit(t[k - 1], edits[order[k]])
              /\ edits[order[k]].s >= 1
  <2> DEFINE c == Bound(order, starts, Len(text), k - 1)
             x == t[k - 1]
  <2>1. k - 1 \in 0..n /\ order[k] \in 1..n
    BY <1>4
  <2>2. /\ edits[order[k]].s \in Nat /\ edits[order[k]].e \in Nat /\ edits[order[k]] \in LineEdit(C)
        /\ 1 <= edits[order[k]].s /\ edits[order[k]].s <= edits[order[k]].e /\ edits[order[k]].e <= Len(text)
    BY <2>1, <1>1, <1>2
  <2>3. c \in 0..Len(text) /\ edits[order[k]].e <= c
    <3>1. CASE k = 1
      BY <3>1, <2>2, <1>1 DEF Bound
    <3>2. CASE k # 1
      <4>1. k - 1 \in 1..n /\ k - 1 < k /\ order[k - 1] \in 1..n
        BY <3>2, <1>4
      <4>2. c = edits[order[k - 1]].s - 1
        BY <4>1, <1>5 DEF Bound
      <4>3. edits[order[k]].e < edits[order[k - 1]].s
        BY <4>1, <1>7
      <4>4. edits[order[k - 1]].s \in Nat /\ edits[order[k - 1]].e \in Nat /\ 1 <= edits[order[k - 1]].s
            /\ edits[order[k - 1]].s <= edits[order[k - 1]].e /\ edits[order[k - 1]].e <= Len(text)
        BY <4>1, <1>2
      <4> HIDE DEF c
      <4> QED
        <5>1. PICK s \in Nat : s = edits[order[k - 1]].s
          BY <4>4
        <5>2. PICK e \in Nat : e = edits[order[k]].e
          BY <2>2
        <5>3. e < s /\ 1 <= s /\ s <= Len(text) /\ c = s - 1
          <6>1. PICK last \in Nat : last = edits[order[k - 1]].e
            BY <4>4
          <6>2. s <= last /\ last <= Len(text)
            BY <4>4, <5>1, <6>1
          <6> QED
            BY <6>2, <4>2, <4>3, <4>4, <5>1, <5>2, <1>1
        <5>4. c \in 0..Len(text) /\ e <= c
          BY ONLY <5>3, <1>1, s \in Nat, e \in Nat
        <5> QED
          BY <5>2, <5>4
    <3> QED
      BY <3>1, <3>2
  <2> HIDE DEF c
  <2>4. x \in Seq(C)
    BY <2>1, <1>11
  <2>5. PICK R \in Seq(C) : x = Top(text, c) \o R
    BY <2>1, <1>12 DEF c
  <2>6. Top(text, c) \in Seq(C) /\ Len(Top(text, c)) = c
    BY <2>3, TopIs
  <2>7. Len(x) = Len(Top(text, c)) + Len(R) /\ Len(R) \in Nat
    BY <2>5, <2>6, ConcatIs
  <2>8. Len(x) \in Nat /\ c <= Len(x) /\ c \in Nat
    BY <2>3, <2>6, <2>7
  <2> HIDE DEF x
  <2>9. edits[order[k]].s \in 1..Len(x) /\ edits[order[k]].e \in edits[order[k]].s..Len(x)
    BY <2>2, <2>3, <2>8
  <2>10. ApplyLineEdit(x, edits[order[k]]) = Rewrite(x, edits[order[k]].new, edits[order[k]].s - 1, edits[order[k]].e)
    <3>1. LineThere(x, edits[order[k]])
      BY <2>9 DEF LineThere
    <3> QED
      BY <3>1, <2>2, <2>4, LineEditRewrites
  <2>11. t[k] = Rewrite(x, edits[order[k]].new, edits[order[k]].s - 1, edits[order[k]].e)
    BY <2>1, <1>5, <1>11 DEF x
  <2>12. Len(x) # 0
    BY <2>9, <2>8
  <2>13. x # <<>>
    BY <2>12
  <2> QED
    BY <2>2, <2>10, <2>11, <2>13 DEF x
<1> QED
  BY <1>11, <1>13 DEF TextsOf

(* edit_file refuses the edits exactly if two share a line; else it        *)
(* replaces all.                                                           *)
LEMMA EditFileRuns ==
  ASSUME NEW C, NEW text \in Seq(C), NEW edits \in Seq(LineEdit(C)), LinesInFile(text, edits)
  PROVE  /\ EditFile(text, edits).ok <=> LinesDisjoint(edits)
         /\ LinesDisjoint(edits) => EditFile(text, edits).text = Joined(text, LinesReplaced(text, edits))
<1>1. PICK order : LineOrder(edits, order)
  BY LineOrderExists
<1>2. \A i \in 1..Len(edits) : edits[i].s <= edits[i].e
  BY LenProperties DEF LinesInFile
<1>3. LinesOverlap(edits) <=> ~LinesDisjoint(edits)
  BY <1>1, <1>2, OverlapOfLines
<1>4. CASE ~LinesDisjoint(edits)
  BY <1>3, <1>4 DEF EditFile, Failed
<1>5. CASE LinesDisjoint(edits)
  <2>1. PICK t : TextsOf(t, C, text, edits, order)
    BY <1>1, <1>5, TextsOfLines
  <2> DEFINE n == Len(edits)
             sorted == FromTheEnd(edits)
             rhs(g) == [k \in 0..n |->
                         IF k = 0 THEN Text(text)
                         ELSE IF g[k - 1].ok /\ sorted[k].s >= 1 /\ g[k - 1].text # <<>>
                         THEN Text(ApplyLineEdit(g[k - 1].text, sorted[k])) ELSE Failed]
             after == CHOOSE g : g = rhs(g)
             f == [k \in 0..n |-> Text(t[k])]
  <2>2. n \in Nat
    BY LenProperties
  <2>3. \A k \in 1..n : sorted[k] = edits[order[k]]
    BY <1>1 DEF LineOrder
  <2>4. EditFile(text, edits) = IF LinesOverlap(edits) \/ ~after[n].ok THEN Failed ELSE Text(Joined(text, after[n].text))
    BY DEF EditFile
  <2>5. \A k \in 0..n : f[k].ok /\ f[k].text = t[k] /\ f[k] = Text(t[k])
    BY DEF Text
  <2>6. \A k \in 1..n : /\ t[k - 1] # <<>> /\ t[k] = ApplyLineEdit(t[k - 1], sorted[k]) /\ sorted[k].s >= 1
    BY <2>1, <2>3 DEF TextsOf
  <2>7. t[0] = text /\ t[n] = LinesReplaced(text, edits)
    BY <2>1 DEF TextsOf
  <2> HIDE DEF sorted
  <2>8. \A k \in 0..n : f[k] = rhs(f)[k]
    <3> TAKE k \in 0..n
    <3>1. CASE k = 0
      BY <3>1, <2>5, <2>7
    <3>2. CASE k # 0
      <4>1. k \in 1..n /\ k - 1 \in 0..n
        BY <3>2
      <4>2. f[k - 1].ok /\ f[k - 1].text = t[k - 1] /\ f[k] = Text(t[k])
        BY <4>1, <2>5
      <4>3. t[k - 1] # <<>> /\ t[k] = ApplyLineEdit(t[k - 1], sorted[k]) /\ sorted[k].s >= 1
        BY <4>1, <2>6
      <4> HIDE DEF f
      <4>4. rhs(f)[k] = Text(ApplyLineEdit(f[k - 1].text, sorted[k]))
        BY <3>2, <4>2, <4>3
      <4> QED
        BY <4>2, <4>3, <4>4
    <3> QED
      BY <3>1, <3>2
  <2>9. f = rhs(f)
    BY <2>8
  <2>10. after = rhs(after)
    <3> HIDE DEF rhs, f
    <3> QED
      BY <2>9
  <2> HIDE DEF after, f
  <2> DEFINE S == {k \in 0..n : after[k] = f[k]}
  <2>11. 0 \in S
    BY <2>2, <2>9, <2>10
  <2>12. \A k \in 0..(n - 1) : k \in S => k + 1 \in S
    <3> SUFFICES ASSUME NEW k \in 0..(n - 1), after[k] = f[k] PROVE after[k + 1] = f[k + 1]
      BY <2>2
    <3>1. PICK m \in 1..n : m = k + 1
      BY <2>2
    <3>2. m \in 0..n /\ m - 1 = k /\ m # 0
      BY <3>1
    <3>3. after[m] = rhs(after)[m] /\ f[m] = rhs(f)[m]
      BY <2>9, <2>10
    <3>4. rhs(after)[m] = rhs(f)[m]
      BY <3>2
    <3> QED
      BY <3>1, <3>3, <3>4
  <2> HIDE DEF S, rhs
  <2>13. \A k \in 0..n : k \in S
    BY <2>2, <2>11, <2>12, Upward
  <2>14. n \in 0..n
    BY <2>2
  <2>15. after[n] = f[n]
    BY <2>13, <2>14 DEF S
  <2>16. after[n].ok /\ after[n].text = LinesReplaced(text, edits)
    BY <2>5, <2>7, <2>14, <2>15
  <2>17. EditFile(text, edits) = Text(Joined(text, LinesReplaced(text, edits)))
    BY <2>4, <2>16, <1>3, <1>5
  <2> QED
    BY <2>17, <1>5 DEF Text
<1> QED
  BY <1>4, <1>5

(* What the tool answers is what comes of it.                              *)
LEMMA EditFileAnswers ==
  ASSUME NEW text, NEW edits, NEW answer,
         answer = edit_file([filePath |-> 1, edits |-> edits, showDiagnostics |-> FALSE],
                            [file |-> [routed |-> TRUE, opens |-> TRUE, synced |-> TRUE, text |-> text,
                                       now |-> <<>>, before |-> <<>>, indexing |-> FALSE]])
  PROVE  /\ answer.kind = "edited" <=> EditFile(text, edits).ok
         /\ EditFile(text, edits).ok => answer.text = EditFile(text, edits).text
<1> DEFINE args == [filePath |-> 1, edits |-> edits, showDiagnostics |-> FALSE]
           world == [file |-> [routed |-> TRUE, opens |-> TRUE, synced |-> TRUE, text |-> text,
                               now |-> <<>>, before |-> <<>>, indexing |-> FALSE]]
           r == EditFile(text, edits)
           told(d) == [kind |-> "edited", text |-> r.text, diagnostics |-> d]
<1>1. Given(args, "filePath") /\ Given(args, "edits") /\ args.edits = edits
  BY DEF Given
<1>2. world.file.routed /\ world.file.opens /\ world.file.text = text
  OBVIOUS
<1>3. answer = edit_file(args, world)
  OBVIOUS
<1> HIDE DEF args, world
<1>4. \E d : answer = IF ~r.ok THEN ErrorText ELSE told(d)
  BY <1>1, <1>2, <1>3 DEF edit_file, OnFile
<1> HIDE DEF r
<1>5. PICK d : answer = IF ~r.ok THEN ErrorText ELSE told(d)
  BY <1>4
<1>6. ErrorText.kind # "edited"
  BY DEF ErrorText
<1>7. told(d).kind = "edited" /\ told(d).text = r.text
  OBVIOUS
<1> HIDE DEF told
<1>8. answer.kind = "edited" <=> r.ok
  BY <1>5, <1>6, <1>7
<1>9. r.ok => answer.text = r.text
  BY <1>5, <1>7
<1> QED
  BY <1>8, <1>9 DEF r

(* What edit_file does to any lines.                                       *)
LEMMA LinesExact ==
  ASSUME LinesAsked
  PROVE  LineEditsExact
<1> DEFINE text == question.text
           edits == question.edits
           answer == edit_file([filePath |-> 1, edits |-> edits, showDiagnostics |-> FALSE],
                               [file |-> [routed |-> TRUE, opens |-> TRUE, synced |-> TRUE, text |-> text,
                                          now |-> <<>>, before |-> <<>>, indexing |-> FALSE]])
<1>1. text \in Seq(Line) /\ edits \in Seq(LineEdit(Line))
  BY DEF LinesAsked, LineEdit
<1>2. /\ answer.kind = "edited" <=> EditFile(text, edits).ok
      /\ EditFile(text, edits).ok => answer.text = EditFile(text, edits).text
  BY EditFileAnswers
<1>3. LinesInFile(text, edits) => /\ EditFile(text, edits).ok <=> LinesDisjoint(edits)
                                  /\ LinesDisjoint(edits) => EditFile(text, edits).text = Joined(text, LinesReplaced(text, edits))
  BY <1>1, EditFileRuns
<1> HIDE DEF answer
<1>4. LinesInFile(text, edits) => /\ answer.kind = "edited" <=> LinesDisjoint(edits)
                                  /\ LinesDisjoint(edits) => answer.text = Joined(text, LinesReplaced(text, edits))
  BY <1>2, <1>3
<1> QED
  BY <1>4 DEF LineEditsExact, LinesInFile, LinesDisjoint, answer
-----------------------------------------------------------------------------
(* Lines and their row.                                                    *)

Endings(lines) == [i \in 1..Len(lines) |-> Append(lines[i], NewLine)]

TerminatedBy(C, lines) ==
  \E f \in [0..Len(lines) -> Seq(C)] : Joins(f, Len(lines), Endings(lines)) /\ Terminated(lines) = f[Len(lines)]

(* Terminated is what comes of appending all lines, each with a newline.   *)
LEMMA TerminatedRuns ==
  ASSUME NEW C, NewLine \in C, NEW lines \in Seq(Seq(C))
  PROVE  TerminatedBy(C, lines)
<1> DEFINE n == Len(lines)
           rhs(g) == [i \in 0..n |-> IF i = 0 THEN <<>> ELSE g[i - 1] \o Append(lines[i], NewLine)]
           upto == CHOOSE g : g = rhs(g)
           add == Endings(lines)
<1>0. n \in Nat /\ (\A i \in 1..n : lines[i] \in Seq(C)) /\ \A k \in 0..n : k = 0 \/ k \in 1..n
  BY LenProperties, ElementOfSeq
<1>1. add \in [1..n -> Seq(C)]
  <2>1. \A i \in 1..n : Append(lines[i], NewLine) \in Seq(C)
    BY <1>0, AppendProperties
  <2> QED
    BY <2>1 DEF Endings
<1>2. \A k \in 1..n : add[k] = Append(lines[k], NewLine)
  BY DEF Endings
<1>3. Terminated(lines) = upto[n]
  BY DEF Terminated
<1> HIDE DEF add
<1>4. PICK f \in [0..n -> Seq(C)] : Joins(f, n, add)
  BY <1>0, <1>1, Appended
<1>5. f = rhs(f)
  <2>1. \A k \in 0..n : f[k] = IF k = 0 THEN <<>> ELSE f[k - 1] \o Append(lines[k], NewLine)
    BY <1>0, <1>2, <1>4 DEF Joins
  <2> QED
    BY <2>1
<1>6. upto = rhs(upto)
  <2> HIDE DEF rhs
  <2> QED
    BY <1>5
<1> HIDE DEF upto
<1>7. Joins(upto, n, add)
  <2>1. upto[0] = <<>>
    BY <1>0, <1>6
  <2>2. \A k \in 1..n : upto[k] = upto[k - 1] \o Append(lines[k], NewLine)
    <3> TAKE k \in 1..n
    <3>1. k \in 0..n /\ k # 0
      OBVIOUS
    <3>2. upto[k] = rhs(upto)[k]
      BY <1>6
    <3> QED
      BY <3>1, <3>2
  <2> QED
    BY <2>1, <2>2, <1>2 DEF Joins
<1>8. \A k \in 0..n : f[k] = upto[k]
  BY <1>0, <1>4, <1>7, JoinsOnce
<1>9. n \in 0..n
  BY <1>0
<1>10. Terminated(lines) = f[n]
  BY <1>3, <1>8, <1>9
<1> QED
  BY <1>4, <1>10 DEF TerminatedBy, add

(* It is a row of characters,                                              *)
LEMMA TerminatedIs ==
  ASSUME NEW C, NewLine \in C, NEW lines \in Seq(Seq(C))
  PROVE  Terminated(lines) \in Seq(C)
<1>1. TerminatedBy(C, lines)
  BY TerminatedRuns
<1>2. PICK f \in [0..Len(lines) -> Seq(C)] : Terminated(lines) = f[Len(lines)]
  BY <1>1 DEF TerminatedBy
<1>3. Len(lines) \in 0..Len(lines)
  BY LenProperties
<1> QED
  BY <1>2, <1>3

(* of no lines an empty one,                                               *)
LEMMA TerminatedNone ==
  ASSUME NEW C, NewLine \in C
  PROVE  Terminated(<<>>) = <<>>
<1>1. <<>> \in Seq(Seq(C)) /\ Len(<<>>) = 0
  OBVIOUS
<1>2. TerminatedBy(C, <<>>)
  BY <1>1, TerminatedRuns
<1>3. PICK f : Joins(f, 0, Endings(<<>>)) /\ Terminated(<<>>) = f[0]
  BY <1>1, <1>2 DEF TerminatedBy
<1> QED
  BY <1>3 DEF Joins

(* and one more line comes at its end.                                     *)
LEMMA TerminatedOneMore ==
  ASSUME NEW C, NewLine \in C, NEW x \in Seq(Seq(C)), NEW y \in Seq(C)
  PROVE  Terminated(Append(x, y)) = Terminated(x) \o (y \o <<NewLine>>)
<1> DEFINE z == Append(x, y)
           n == Len(x)
<1>1. z \in Seq(Seq(C)) /\ Len(z) = n + 1 /\ n \in Nat /\ (\A i \in 1..n : z[i] = x[i]) /\ z[n + 1] = y
  BY AppendProperties, LenProperties
<1>2. Append(y, NewLine) = y \o <<NewLine>>
  BY AppendIsConcat
<1> HIDE DEF z
<1>3. PICK f : Joins(f, n, Endings(x)) /\ Terminated(x) = f[n]
  BY TerminatedRuns DEF TerminatedBy
<1>4. TerminatedBy(C, z)
  BY <1>1, TerminatedRuns
<1>5. PICK g : Joins(g, n + 1, Endings(z)) /\ Terminated(z) = g[n + 1]
  BY <1>1, <1>4 DEF TerminatedBy
<1>6. Joins(g, n, Endings(x))
  <2>1. \A k \in 1..n : Endings(z)[k] = Endings(x)[k] /\ k \in 1..(n + 1)
    BY <1>1 DEF Endings
  <2> QED
    BY <2>1, <1>5 DEF Joins
<1>7. g[n] = f[n]
  <2>1. \A k \in 0..n : f[k] = g[k]
    BY <1>1, <1>3, <1>6, JoinsOnce
  <2> QED
    BY <2>1, <1>1
<1>8. g[n + 1] = g[n] \o Append(y, NewLine)
  <2>1. n + 1 \in 1..(n + 1) /\ (n + 1) - 1 = n
    BY <1>1
  <2>2. Endings(z)[n + 1] = Append(y, NewLine)
    BY <2>1, <1>1 DEF Endings
  <2> QED
    BY <2>1, <2>2, <1>5 DEF Joins
<1> QED
  BY <1>2, <1>3, <1>5, <1>7, <1>8 DEF z

(* One element more.                                                       *)
LEMMA TopOneMore ==
  ASSUME NEW C, NEW x \in Seq(C), NEW k \in 1..Len(x)
  PROVE  Top(x, k) = Append(Top(x, k - 1), x[k])
<1>1. Len(x) \in Nat /\ 1 \in 1..Len(x) /\ k \in 1..Len(x) /\ k - 1 \in 0..Len(x) /\ x[k] \in C
  BY LenProperties, ElementOfSeq
<1>2. Top(x, k) = Top(x, k - 1) \o <<x[k]>>
  BY <1>1, SubSeqRecursiveSecond DEF Top
<1>3. Top(x, k - 1) \in Seq(C)
  BY <1>1, TopIs
<1> QED
  BY <1>1, <1>2, <1>3, AppendIsConcat

(* Of two texts it is the concatenation.                                   *)
LEMMA TerminatedBoth ==
  ASSUME NEW C, NewLine \in C, NEW x \in Seq(Seq(C)), NEW y \in Seq(Seq(C))
  PROVE  Terminated(x \o y) = Terminated(x) \o Terminated(y)
<1> DEFINE n == Len(y)
           S == {k \in 0..n : Terminated(x \o Top(y, k)) = Terminated(x) \o Terminated(Top(y, k))}
<1>1. n \in Nat
  BY LenProperties
<1>2. \A p, q, r \in Seq(C) : (p \o q) \o r = p \o (q \o r)
  <2>1. Associative(C)
    BY Associates
  <2> QED
    BY <2>1 DEF Associative
<1>9. \A p, q, r \in Seq(Seq(C)) : (p \o q) \o r = p \o (q \o r)
  <2>1. Associative(Seq(C))
    BY Associates
  <2> QED
    BY <2>1 DEF Associative
<1>3. Terminated(x) \in Seq(C)
  BY TerminatedIs
<1>4. 0 \in S
  <2>1. Top(y, 0) = <<>> /\ x \o <<>> = x
    BY Whole, ConcatEmptySeq
  <2>2. Terminated(<<>>) = <<>>
    BY TerminatedNone
  <2>3. Terminated(x) \o <<>> = Terminated(x)
    BY <1>3, ConcatEmptySeq
  <2>4. Terminated(x \o Top(y, 0)) = Terminated(x) \o Terminated(Top(y, 0))
    BY <2>1, <2>2, <2>3
  <2> QED
    BY <2>4, <1>1
<1>5. \A k \in 0..(n - 1) : k \in S => k + 1 \in S
  <2> SUFFICES ASSUME NEW k \in 0..(n - 1), Terminated(x \o Top(y, k)) = Terminated(x) \o Terminated(Top(y, k))
               PROVE  Terminated(x \o Top(y, k + 1)) = Terminated(x) \o Terminated(Top(y, k + 1))
    <3>1. \A i \in 0..(n - 1) : i + 1 \in 0..n
      BY <1>1
    <3> QED
      BY <3>1
  <2>1. k + 1 \in 1..n /\ k \in 0..n /\ (k + 1) - 1 = k
    BY <1>1
  <2>2. y[k + 1] \in Seq(C)
    BY <2>1, ElementOfSeq
  <2>3. Top(y, k) \in Seq(Seq(C))
    BY <2>1, TopIs
  <2>4. Top(y, k + 1) = Append(Top(y, k), y[k + 1])
    BY <2>1, TopOneMore
  <2> DEFINE a == Top(y, k)
             b == y[k + 1]
  <2> HIDE DEF a, b
  <2>5. x \o Append(a, b) = Append(x \o a, b)
    <3>1. Append(a, b) = a \o <<b>> /\ x \o a \in Seq(Seq(C)) /\ <<b>> \in Seq(Seq(C))
      BY <2>2, <2>3, AppendIsConcat, ConcatProperties DEF a, b
    <3>2. Append(x \o a, b) = (x \o a) \o <<b>>
      BY <3>1, <2>2, AppendIsConcat DEF b
    <3>3. a \in Seq(Seq(C)) /\ <<b>> \in Seq(Seq(C))
      BY <3>1, <2>3 DEF a
    <3>4. (x \o a) \o <<b>> = x \o (a \o <<b>>)
      BY <3>3, <1>9
    <3> QED
      BY <3>1, <3>2, <3>4
  <2>6. Terminated(Append(a, b)) = Terminated(a) \o (b \o <<NewLine>>)
    BY <2>2, <2>3, TerminatedOneMore DEF a, b
  <2>7. Terminated(Append(x \o a, b)) = Terminated(x \o a) \o (b \o <<NewLine>>)
    <3>1. x \o a \in Seq(Seq(C))
      BY <2>3, ConcatProperties DEF a
    <3> QED
      BY <3>1, <2>2, TerminatedOneMore DEF b
  <2>8. Terminated(a) \in Seq(C) /\ b \o <<NewLine>> \in Seq(C)
    BY <2>2, <2>3, TerminatedIs, ConcatProperties DEF a, b
  <2>9. (Terminated(x) \o Terminated(a)) \o (b \o <<NewLine>>) = Terminated(x) \o (Terminated(a) \o (b \o <<NewLine>>))
    BY <2>8, <1>2, <1>3
  <2>10. Terminated(x \o a) = Terminated(x) \o Terminated(a)
    BY DEF a
  <2>11. Terminated(x \o Append(a, b)) = Terminated(x) \o Terminated(Append(a, b))
    BY <2>5, <2>6, <2>7, <2>9, <2>10
  <2> QED
    BY <2>4, <2>11 DEF a, b
<1> HIDE DEF S
<1>6. \A k \in 0..n : k \in S
  BY <1>1, <1>4, <1>5, Upward
<1>7. n \in S
  BY <1>1, <1>6
<1>8. Top(y, n) = y
  BY Whole
<1> QED
  BY <1>7, <1>8 DEF S

(* The first ones, past the first part.                                    *)
LEMMA TopPastConcat ==
  ASSUME NEW C, NEW x \in Seq(C), NEW y \in Seq(C), NEW k \in 0..Len(y)
  PROVE  Top(x \o y, Len(x) + k) = x \o Top(y, k)
<1>1. \A p, q, r \in Seq(C) : (p \o q) \o r = p \o (q \o r)
  <2>1. Associative(C)
    BY Associates
  <2> QED
    BY <2>1 DEF Associative
<1> DEFINE a == Top(y, k)
           b == Rest(y, k)
<1>2. a \in Seq(C) /\ b \in Seq(C) /\ Len(a) = k /\ a \o b = y
  BY TopIs, RestIs, TopAndRest
<1> HIDE DEF a, b
<1>3. x \o y = (x \o a) \o b
  BY <1>1, <1>2
<1>4. x \o a \in Seq(C) /\ Len(x \o a) = Len(x) + k /\ Len(x \o a) \in 0..Len(x \o a)
  <2>1. x \o a \in Seq(C) /\ Len(x \o a) = Len(x) + Len(a)
    BY <1>2, ConcatProperties
  <2>2. Len(x \o a) \in Nat
    BY <2>1, LenProperties
  <2> QED
    BY <2>1, <2>2, <1>2
<1>5. Top((x \o a) \o b, Len(x \o a)) = Top(x \o a, Len(x \o a))
  BY <1>2, <1>4, TopOfConcat
<1>6. Top(x \o a, Len(x \o a)) = x \o a
  BY <1>4, Whole
<1> QED
  BY <1>3, <1>4, <1>5, <1>6 DEF a

(* The row of a text: all but the last line with a newline each.           *)
LEMMA RowIs ==
  ASSUME NEW C, NewLine \in C, NEW x \in Seq(Seq(C)), x # <<>>
  PROVE  /\ Row(x) = Terminated(Top(x, Len(x) - 1)) \o x[Len(x)] /\ Row(x) \in Seq(C)
         /\ Top(x, Len(x) - 1) \in Seq(Seq(C)) /\ Terminated(Top(x, Len(x) - 1)) \in Seq(C) /\ x[Len(x)] \in Seq(C)
<1>1. Len(x) \in Nat \ {0}
  BY EmptySeq
<1>2. Len(x) - 1 \in 0..Len(x) /\ Len(x) \in 1..Len(x)
  BY <1>1
<1>3. Top(x, Len(x) - 1) \in Seq(Seq(C)) /\ x[Len(x)] \in Seq(C)
  BY <1>2, TopIs, ElementOfSeq
<1>4. Terminated(Top(x, Len(x) - 1)) \in Seq(C)
  BY <1>3, TerminatedIs
<1>5. Row(x) = Terminated(Top(x, Len(x) - 1)) \o x[Len(x)]
  BY DEF Row, Top
<1> QED
  BY <1>3, <1>4, <1>5, ConcatProperties

(* The row of two texts.                                                   *)
LEMMA RowBoth ==
  ASSUME NEW C, NewLine \in C, NEW x \in Seq(Seq(C)), NEW y \in Seq(Seq(C)), y # <<>>
  PROVE  Row(x \o y) = Terminated(x) \o Row(y)
<1>1. \A p, q, r \in Seq(C) : (p \o q) \o r = p \o (q \o r)
  <2>1. Associative(C)
    BY Associates
  <2> QED
    BY <2>1 DEF Associative
<1>2. Len(x) \in Nat /\ Len(y) \in Nat \ {0} /\ Terminated(x) \in Seq(C)
  BY EmptySeq, LenProperties, TerminatedIs
<1>3. x \o y \in Seq(Seq(C)) /\ Len(x \o y) = Len(x) + Len(y) /\ (x \o y)[Len(x) + Len(y)] = y[Len(y)]
  <2>1. Len(y) \in 1..Len(y)
    BY <1>2
  <2> QED
    BY <2>1, ConcatIs
<1>4. Len(y) - 1 \in 0..Len(y) /\ Len(x \o y) - 1 = Len(x) + (Len(y) - 1)
  BY <1>2, <1>3
<1>5. Top(x \o y, Len(x) + (Len(y) - 1)) = x \o Top(y, Len(y) - 1)
  BY <1>4, TopPastConcat
<1>6. Terminated(x \o Top(y, Len(y) - 1)) = Terminated(x) \o Terminated(Top(y, Len(y) - 1))
  <2>1. Top(y, Len(y) - 1) \in Seq(Seq(C))
    BY <1>4, TopIs
  <2> QED
    BY <2>1, TerminatedBoth
<1>7. Row(x \o y) = Terminated(Top(x \o y, Len(x \o y) - 1)) \o (x \o y)[Len(x \o y)]
  BY DEF Row, Top
<1>8. Row(y) = Terminated(Top(y, Len(y) - 1)) \o y[Len(y)]
      /\ Terminated(Top(y, Len(y) - 1)) \in Seq(C) /\ y[Len(y)] \in Seq(C)
  BY RowIs
<1>9. Row(x \o y) = (Terminated(x) \o Terminated(Top(y, Len(y) - 1))) \o y[Len(y)]
  BY <1>3, <1>4, <1>5, <1>6, <1>7
<1>10. Terminated(Top(y, Len(y) - 1)) \in Seq(C) /\ y[Len(y)] \in Seq(C) /\ Terminated(x) \in Seq(C)
  BY <1>2, <1>8
<1>11. (Terminated(x) \o Terminated(Top(y, Len(y) - 1))) \o y[Len(y)]
         = Terminated(x) \o (Terminated(Top(y, Len(y) - 1)) \o y[Len(y)])
  BY ONLY <1>1, <1>10
<1> QED
  BY <1>8, <1>9, <1>11

(* The row of one line.                                                    *)
LEMMA RowOne ==
  ASSUME NEW C, NewLine \in C, NEW y \in Seq(C)
  PROVE  Row(<<y>>) = y /\ Terminated(<<y>>) = y \o <<NewLine>>
<1>1. Top(<<y>>, 0) = <<>> /\ Len(<<y>>) = 1 /\ <<y>>[1] = y
  BY SubSeqEmpty DEF Top
<1>2. Terminated(<<>>) = <<>>
  BY TerminatedNone
<1>3. <<>> \o y = y
  BY ConcatEmptySeq
<1>4. Row(<<y>>) = Terminated(Top(<<y>>, 0)) \o y
  BY <1>1 DEF Row, Top
<1>5. Append(<<>>, y) = <<y>> /\ <<>> \in Seq(Seq(C))
  OBVIOUS
<1>6. Terminated(Append(<<>>, y)) = Terminated(<<>>) \o (y \o <<NewLine>>)
  BY <1>5, TerminatedOneMore
<1>7. y \o <<NewLine>> \in Seq(C)
  BY ConcatProperties
<1>8. <<>> \o (y \o <<NewLine>>) = y \o <<NewLine>>
  BY <1>7, ConcatEmptySeq
<1> QED
  BY <1>1, <1>2, <1>3, <1>4, <1>5, <1>6, <1>8

Prefixed(C, h, y, z) ==
  /\ Row(<<h \o y>> \o z) = h \o Row(<<y>> \o z) /\ Row(<<y>> \o z) \in Seq(C)
  /\ Terminated(<<h \o y>> \o z) = h \o Terminated(<<y>> \o z)

(* More at the start of the first line is more at the start of the row.    *)
LEMMA RowOfPrefixed ==
  ASSUME NEW C, NewLine \in C, NEW h \in Seq(C), NEW y \in Seq(C), NEW z \in Seq(Seq(C))
  PROVE  Prefixed(C, h, y, z)
<1>1. \A p, q, r \in Seq(C) : (p \o q) \o r = p \o (q \o r)
  <2>1. Associative(C)
    BY Associates
  <2> QED
    BY <2>1 DEF Associative
<1>2. h \o y \in Seq(C)
  BY ConcatProperties
<1>3. <<y>> \in Seq(Seq(C)) /\ <<h \o y>> \in Seq(Seq(C))
  BY <1>2
<1>4. Row(<<y>>) = y /\ Terminated(<<y>>) = y \o <<NewLine>>
  BY RowOne
<1>5. Row(<<h \o y>>) = h \o y /\ Terminated(<<h \o y>>) = (h \o y) \o <<NewLine>>
  BY <1>2, RowOne
<1>6. <<NewLine>> \in Seq(C) /\ y \o <<NewLine>> \in Seq(C)
  BY ConcatProperties
<1>7. Terminated(<<h \o y>>) = h \o Terminated(<<y>>)
  <2>1. (h \o y) \o <<NewLine>> = h \o (y \o <<NewLine>>)
    BY ONLY <1>1, <1>6, h \in Seq(C), y \in Seq(C)
  <2> QED
    BY <2>1, <1>4, <1>5
<1>8. Terminated(z) \in Seq(C) /\ Terminated(<<y>>) \in Seq(C)
  BY <1>4, <1>6, TerminatedIs
<1>9. Terminated(<<h \o y>> \o z) = h \o Terminated(<<y>> \o z)
  <2>1. Terminated(<<h \o y>> \o z) = Terminated(<<h \o y>>) \o Terminated(z)
    BY <1>3, TerminatedBoth
  <2>2. Terminated(<<y>> \o z) = Terminated(<<y>>) \o Terminated(z)
    BY <1>3, TerminatedBoth
  <2>3. (h \o Terminated(<<y>>)) \o Terminated(z) = h \o (Terminated(<<y>>) \o Terminated(z))
    BY ONLY <1>1, <1>8, h \in Seq(C)
  <2> QED
    BY <2>1, <2>2, <2>3, <1>7
<1>10. Row(<<h \o y>> \o z) = h \o Row(<<y>> \o z) /\ Row(<<y>> \o z) \in Seq(C)
  <2>1. CASE z = <<>>
    <3>1. <<h \o y>> \o <<>> = <<h \o y>> /\ <<y>> \o <<>> = <<y>>
      BY <1>3, ConcatEmptySeq
    <3> QED
      BY <3>1, <2>1, <1>4, <1>5
  <2>2. CASE z # <<>>
    <3>1. Row(<<h \o y>> \o z) = Terminated(<<h \o y>>) \o Row(z)
      BY <2>2, <1>3, RowBoth
    <3>2. Row(<<y>> \o z) = Terminated(<<y>>) \o Row(z)
      BY <2>2, <1>3, RowBoth
    <3>3. Row(z) \in Seq(C)
      BY <2>2, RowIs
    <3>4. Terminated(<<y>>) \o Row(z) \in Seq(C)
      BY <3>3, <1>8, ConcatProperties
    <3>5. (h \o Terminated(<<y>>)) \o Row(z) = h \o (Terminated(<<y>>) \o Row(z))
      BY ONLY <1>1, <1>8, <3>3, h \in Seq(C)
    <3> QED
      BY <3>1, <3>2, <3>4, <3>5, <1>7
  <2> QED
    BY <2>1, <2>2
<1> QED
  BY <1>9, <1>10 DEF Prefixed

(* A place in lines: what is before it and after.                          *)
Place(x, l, c) == l \in Nat /\ c \in Nat /\ l < Len(x) /\ c <= Len(x[l + 1])

Pre(x, l, c) == Terminated(Top(x, l)) \o Top(x[l + 1], c)
Post(x, l, c) == Row(<<Rest(x[l + 1], c)>> \o Rest(x, l + 1))

Parts(C, x, l, c) ==
  /\ l \in Nat /\ c \in Nat /\ Len(x) \in Nat /\ l \in 0..Len(x) /\ l + 1 \in 1..Len(x) /\ l + 1 \in 0..Len(x)
  /\ x[l + 1] \in Seq(C) /\ Len(x[l + 1]) \in Nat /\ c \in 0..Len(x[l + 1])
  /\ Top(x, l) \in Seq(Seq(C)) /\ Len(Top(x, l)) = l /\ Rest(x, l + 1) \in Seq(Seq(C))
  /\ Terminated(Top(x, l)) \in Seq(C)
  /\ Top(x[l + 1], c) \in Seq(C) /\ Len(Top(x[l + 1], c)) = c /\ Rest(x[l + 1], c) \in Seq(C)
  /\ Top(x[l + 1], c) \o Rest(x[l + 1], c) = x[l + 1]
  /\ x = Top(x, l) \o (<<x[l + 1]>> \o Rest(x, l + 1))

(* A place divides a text.                                                 *)
LEMMA PlaceHasParts ==
  ASSUME NEW C, NewLine \in C, NEW x \in Seq(Seq(C)), NEW l, NEW c, Place(x, l, c)
  PROVE  Parts(C, x, l, c)
<1>1. Len(x) \in Nat
  BY LenProperties
<1>2. l \in Nat /\ c \in Nat /\ l < Len(x) /\ c <= Len(x[l + 1])
  BY DEF Place
<1>3. l \in 0..Len(x) /\ l + 1 \in 1..Len(x) /\ l + 1 \in 0..Len(x)
  BY <1>1, <1>2
<1>4. x[l + 1] \in Seq(C)
  BY <1>3, ElementOfSeq
<1>5. Len(x[l + 1]) \in Nat
  BY <1>4, LenProperties
<1>6. c \in 0..Len(x[l + 1])
  BY <1>2, <1>5
<1>7. Top(x, l) \in Seq(Seq(C)) /\ Len(Top(x, l)) = l
  BY <1>3, TopIs
<1>8. Rest(x, l + 1) \in Seq(Seq(C))
  BY <1>3, RestIs
<1>9. Terminated(Top(x, l)) \in Seq(C)
  BY <1>7, TerminatedIs
<1>10. Top(x[l + 1], c) \in Seq(C) /\ Len(Top(x[l + 1], c)) = c
  BY <1>4, <1>6, TopIs
<1>11. Rest(x[l + 1], c) \in Seq(C)
  BY <1>4, <1>6, RestIs
<1>12. Top(x[l + 1], c) \o Rest(x[l + 1], c) = x[l + 1]
  BY <1>4, <1>6, TopAndRest
<1>13. Top(x, l) \o Rest(x, l) = x
  BY <1>3, TopAndRest
<1>14. Rest(x, l) = <<x[l + 1]>> \o Rest(x, l + 1)
  <2>1. Len(x) \in (l + 1)..Len(x)
    BY <1>1, <1>3
  <2>2. SubSeq(x, l + 1, Len(x)) = <<x[l + 1]>> \o SubSeq(x, (l + 1) + 1, Len(x))
    BY <2>1, <1>3, SubSeqRecursiveFirst
  <2> QED
    BY <2>2 DEF Rest
<1> QED
  BY <1>1, <1>2, <1>3, <1>4, <1>5, <1>6, <1>7, <1>8, <1>9, <1>10, <1>11, <1>12, <1>13, <1>14 DEF Parts

AtPlace(C, x, l, c) ==
  /\ Pre(x, l, c) \in Seq(C) /\ Post(x, l, c) \in Seq(C) /\ Row(x) = Pre(x, l, c) \o Post(x, l, c)
  /\ Len(Pre(x, l, c)) = Offset(x, l, c) /\ Row(x) \in Seq(C) /\ Offset(x, l, c) \in 0..Len(Row(x))
  /\ Top(Row(x), Offset(x, l, c)) = Pre(x, l, c) /\ Rest(Row(x), Offset(x, l, c)) = Post(x, l, c)

(* It divides the row of the text at its offset.                           *)
LEMMA RowAtPlace ==
  ASSUME NEW C, NewLine \in C, NEW x \in Seq(Seq(C)), NEW l, NEW c, Place(x, l, c)
  PROVE  AtPlace(C, x, l, c)
<1>0. Parts(C, x, l, c)
  BY PlaceHasParts
<1>01. Associative(C)
  BY Associates
<1> DEFINE a == Terminated(Top(x, l))
           h == Top(x[l + 1], c)
           y == Rest(x[l + 1], c)
           z == Rest(x, l + 1)
           p == Pre(x, l, c)
           q == Post(x, l, c)
<1>1. a \in Seq(C) /\ h \in Seq(C) /\ y \in Seq(C) /\ z \in Seq(Seq(C)) /\ h \o y = x[l + 1]
  BY <1>0 DEF Parts
<1>2. Top(x, l) \in Seq(Seq(C)) /\ x = Top(x, l) \o (<<x[l + 1]>> \o z) /\ x[l + 1] \in Seq(C)
  BY <1>0 DEF Parts
<1>3. <<x[l + 1]>> \o z \in Seq(Seq(C)) /\ <<x[l + 1]>> \o z # <<>>
  <2>1. <<x[l + 1]>> \in Seq(Seq(C)) /\ <<x[l + 1]>> # <<>>
    BY <1>2
  <2> QED
    BY <2>1, <1>1, ConcatProperties, ConcatEqualIffEmpty
<1>4. Row(Top(x, l) \o (<<x[l + 1]>> \o z)) = a \o Row(<<x[l + 1]>> \o z)
  BY <1>2, <1>3, RowBoth
<1>5. Row(x) = a \o Row(<<x[l + 1]>> \o z)
  BY <1>2, <1>4
<1>6. p = a \o h /\ q = Row(<<y>> \o z)
  BY DEF Pre, Post
<1>7. Len(a) + c = Offset(x, l, c)
  BY DEF Offset, Top
<1>8. Len(h) = c
  BY <1>0 DEF Parts
<1> HIDE DEF a, h, y, z, p, q
<1>9. Row(<<h \o y>> \o z) = h \o Row(<<y>> \o z) /\ Row(<<y>> \o z) \in Seq(C)
  <2>1. Prefixed(C, h, y, z)
    BY <1>1, RowOfPrefixed
  <2> QED
    BY <2>1 DEF Prefixed
<1>10. (a \o h) \o Row(<<y>> \o z) = a \o (h \o Row(<<y>> \o z))
  BY <1>01, <1>1, <1>9 DEF Associative
<1>11. p \in Seq(C) /\ Len(p) = Len(a) + Len(h) /\ q \in Seq(C)
  BY <1>1, <1>6, <1>9, ConcatProperties
<1>12. Row(x) = p \o q
  BY <1>1, <1>5, <1>6, <1>9, <1>10
<1>13. Len(p) = Offset(x, l, c)
  BY <1>7, <1>8, <1>11
<1>14. p \o q \in Seq(C) /\ Len(p) \in 0..Len(p \o q) /\ Len(p) \in 0..Len(p)
  <2>1. p \o q \in Seq(C) /\ Len(p \o q) = Len(p) + Len(q) /\ Len(p) \in Nat /\ Len(q) \in Nat
    BY <1>11, ConcatIs
  <2> QED
    BY <2>1
<1>15. Top(p \o q, Len(p)) = p
  <2>1. Top(p \o q, Len(p)) = Top(p, Len(p))
    BY <1>11, <1>14, TopOfConcat
  <2>2. Top(p, Len(p)) = p
    BY <1>11, Whole
  <2> QED
    BY <2>1, <2>2
<1>16. Rest(p \o q, Len(p)) = q
  <2>1. Rest(p \o q, Len(p)) = Rest(p, Len(p)) \o q
    BY <1>11, <1>14, RestOfConcat
  <2>2. Rest(p, Len(p)) = <<>> /\ <<>> \o q = q
    BY <1>11, Whole, ConcatEmptySeq
  <2> QED
    BY <2>1, <2>2
<1> QED
  BY <1>11, <1>12, <1>13, <1>14, <1>15, <1>16 DEF AtPlace, p, q
-----------------------------------------------------------------------------
(* One edit of a text.                                                     *)

Spliced(head, new, rest) ==
  IF Len(new) = 1 THEN << head \o new[1] \o rest >>
  ELSE << head \o new[1] >> \o SubSeq(new, 2, Len(new) - 1) \o << new[Len(new)] \o rest >>

SplicedRight(C, head, new, rest, z) ==
  /\ Spliced(head, new, rest) \in Seq(Seq(C)) /\ Row(<<rest>> \o z) \in Seq(C) /\ Row(new) \in Seq(C)
  /\ Row(Spliced(head, new, rest) \o z) = head \o (Row(new) \o Row(<<rest>> \o z))
  /\ \E r \in Seq(C), w \in Seq(Seq(C)) : Spliced(head, new, rest) = <<head \o r>> \o w

(* What is spliced in has the new text in its row.                         *)
LEMMA RowOfSpliced ==
  ASSUME NEW C, NewLine \in C, NEW head \in Seq(C), NEW rest \in Seq(C), NEW new \in Seq(Seq(C)), new # <<>>,
         NEW z \in Seq(Seq(C))
  PROVE  SplicedRight(C, head, new, rest, z)
<1> DEFINE n == Len(new)
           a == new[1]
           l == new[n]
           m == SubSeq(new, 2, n - 1)
           Q == Row(<<rest>> \o z)
<1>1. n \in Nat \ {0}
  BY EmptySeq
<1>2. 1 \in 1..n /\ n \in 1..n
  BY <1>1
<1>3. a \in Seq(C) /\ l \in Seq(C)
  BY <1>2, ElementOfSeq
<1>10. \A p, q, r \in Seq(C) : (p \o q) \o r = p \o (q \o r)
  <2>1. Associative(C)
    BY Associates
  <2> QED
    BY <2>1 DEF Associative
<1>11. \A p, q, r \in Seq(Seq(C)) : (p \o q) \o r = p \o (q \o r)
  <2>1. Associative(Seq(C))
    BY Associates
  <2> QED
    BY <2>1 DEF Associative
<1>5. Row(new) \in Seq(C) /\ Row(new) = Terminated(Top(new, n - 1)) \o l
  BY RowIs
<1>6. Prefixed(C, head, rest, z)
  BY RowOfPrefixed
<1>7. Q \in Seq(C)
  BY <1>6 DEF Prefixed
<1>8. CASE n = 1
  <2>1. Spliced(head, new, rest) = <<(head \o a) \o rest>>
    BY <1>8 DEF Spliced
  <2>2. new = <<a>>
    <3>1. <<a>> \in Seq(Seq(C)) /\ Len(<<a>>) = 1 /\ <<a>>[1] = a
      BY <1>3
    <3>2. \A i \in 1..n : new[i] = <<a>>[i]
      BY <1>8, <3>1
    <3> QED
      BY <3>1, <3>2, <1>8, SeqEqual
  <2>3. Row(new) = a
    <3>1. Row(<<a>>) = a
      BY <1>3, RowOne
    <3> QED
      BY <3>1, <2>2
  <2> HIDE DEF a, Q, n
  <2>4. head \o a \in Seq(C) /\ a \o rest \in Seq(C)
    BY <1>3, ConcatProperties
  <2>5. Prefixed(C, head \o a, rest, z)
    BY <2>4, RowOfPrefixed
  <2>6. Row(<<(head \o a) \o rest>> \o z) = (head \o a) \o Q
    BY <2>5 DEF Prefixed, Q
  <2>7. (head \o a) \o Q = head \o (a \o Q)
    BY ONLY <1>3, <1>10, <1>7, head \in Seq(C)
  <2>8. (head \o a) \o rest = head \o (a \o rest)
    BY ONLY <1>3, <1>10, head \in Seq(C), rest \in Seq(C)
  <2>9. (head \o a) \o rest \in Seq(C)
    BY <2>4, ConcatProperties
  <2>10. Spliced(head, new, rest) \in Seq(Seq(C))
    BY <2>1, <2>9
  <2>11. Spliced(head, new, rest) = <<head \o (a \o rest)>> \o <<>>
    <3>1. <<head \o (a \o rest)>> \in Seq(Seq(C))
      BY <2>8, <2>9
    <3>2. <<head \o (a \o rest)>> \o <<>> = <<head \o (a \o rest)>>
      BY <3>1, ConcatEmptySeq
    <3> QED
      BY <3>2, <2>1, <2>8
  <2>12. <<>> \in Seq(Seq(C))
    OBVIOUS
  <2>13. \E r \in Seq(C), w \in Seq(Seq(C)) : Spliced(head, new, rest) = <<head \o r>> \o w
    BY <2>4, <2>11, <2>12
  <2>14. Row(Spliced(head, new, rest) \o z) = head \o (Row(new) \o Q)
    BY <2>1, <2>3, <2>6, <2>7
  <2> QED
    BY <2>10, <2>13, <2>14, <1>5, <1>7 DEF SplicedRight, Q
<1>9. CASE n # 1
  <2>1. Spliced(head, new, rest) = (<<head \o a>> \o m) \o <<l \o rest>>
    BY <1>9 DEF Spliced
  <2>2. m \in Seq(Seq(C))
    <3>1. \A i \in 2..(n - 1) : new[i] \in Seq(C)
      <4>1. \A i \in 2..(n - 1) : i \in 1..n
        BY <1>1
      <4> QED
        BY <4>1, ElementOfSeq
    <3>2. 2 \in Int /\ n - 1 \in Int
      BY <1>1
    <3> QED
      BY <3>1, <3>2, SubSeqProperties
  <2>3. Top(new, n - 1) = <<a>> \o m
    <3>1. 1 \in 1..n /\ n - 1 \in 1..n /\ 1 + 1 = 2
      <4> HIDE DEF n
      <4> QED
        BY <1>1, <1>9
    <3>2. SubSeq(new, 1, n - 1) = <<new[1]>> \o SubSeq(new, 1 + 1, n - 1)
      BY <3>1, SubSeqRecursiveFirst
    <3>3. SubSeq(new, 1 + 1, n - 1) = m
      BY <3>1
    <3> QED
      BY <3>2, <3>3 DEF Top
  <2> HIDE DEF a, l, m, Q, n
  <2>4. <<a>> \in Seq(Seq(C)) /\ <<head \o a>> \in Seq(Seq(C)) /\ <<l \o rest>> \in Seq(Seq(C)) /\ head \o a \in Seq(C)
        /\ l \o rest \in Seq(C) /\ <<l \o rest>> # <<>>
    <3>1. head \o a \in Seq(C) /\ l \o rest \in Seq(C)
      BY <1>3, ConcatProperties
    <3> QED
      BY <3>1, <1>3
  <2>5. <<head \o a>> \o m \in Seq(Seq(C)) /\ <<a>> \o m \in Seq(Seq(C)) /\ <<l \o rest>> \o z \in Seq(Seq(C))
    BY <2>2, <2>4, ConcatProperties
  <2>6. ((<<head \o a>> \o m) \o <<l \o rest>>) \o z = (<<head \o a>> \o m) \o (<<l \o rest>> \o z)
    <3> DEFINE u == <<head \o a>> \o m
               v == <<l \o rest>>
    <3>1. u \in Seq(Seq(C)) /\ v \in Seq(Seq(C))
      BY <2>4, <2>5
    <3> HIDE DEF u, v
    <3>2. (u \o v) \o z = u \o (v \o z)
      BY ONLY <1>11, <3>1, z \in Seq(Seq(C))
    <3> QED
      BY <3>2 DEF u, v
  <2>7. <<l \o rest>> \o z # <<>>
    BY <2>4, ConcatEqualIffEmpty
  <2>8. Row((<<head \o a>> \o m) \o (<<l \o rest>> \o z)) = Terminated(<<head \o a>> \o m) \o Row(<<l \o rest>> \o z)
    BY <2>5, <2>7, RowBoth
  <2>9. Prefixed(C, head, a, m) /\ Prefixed(C, l, rest, z)
    BY <1>3, <2>2, RowOfPrefixed
  <2>10. Terminated(<<head \o a>> \o m) = head \o Terminated(<<a>> \o m) /\ Row(<<l \o rest>> \o z) = l \o Q
    BY <2>9 DEF Prefixed, Q
  <2> DEFINE A == Terminated(<<a>> \o m)
  <2>11. A \in Seq(C)
    BY <2>5, TerminatedIs
  <2>12. Row(new) = A \o l
    BY <1>5, <2>3
  <2> HIDE DEF A
  <2>13. (head \o A) \o (l \o Q) = head \o ((A \o l) \o Q)
    <3>1. l \o Q \in Seq(C)
      BY <1>3, <1>7, ConcatProperties
    <3>2. (head \o A) \o (l \o Q) = head \o (A \o (l \o Q))
      BY ONLY <3>1, <1>10, <2>11, head \in Seq(C)
    <3>3. (A \o l) \o Q = A \o (l \o Q)
      BY ONLY <1>3, <1>10, <1>7, <2>11
    <3> QED
      BY <3>2, <3>3
  <2>14. Row(Spliced(head, new, rest) \o z) = head \o (Row(new) \o Q)
    BY <2>1, <2>6, <2>8, <2>10, <2>12, <2>13 DEF A
  <2>15. m \o <<l \o rest>> \in Seq(Seq(C))
    BY <2>2, <2>4, ConcatProperties
  <2>16. Spliced(head, new, rest) = <<head \o a>> \o (m \o <<l \o rest>>)
    <3>1. (<<head \o a>> \o m) \o <<l \o rest>> = <<head \o a>> \o (m \o <<l \o rest>>)
      BY ONLY <1>11, <2>2, <2>4
    <3> QED
      BY <3>1, <2>1
  <2>17. Spliced(head, new, rest) \in Seq(Seq(C))
    BY <2>4, <2>15, <2>16, ConcatProperties
  <2>18. \E r \in Seq(C), w \in Seq(Seq(C)) : Spliced(head, new, rest) = <<head \o r>> \o w
    BY <1>3, <2>15, <2>16
  <2> QED
    BY <2>14, <2>17, <2>18, <1>5, <1>7 DEF SplicedRight, Q
<1> QED
  BY <1>8, <1>9
EditOf(C) == [sl : Nat, sc : Nat, el : Nat, ec : Nat, new : Seq(Seq(C)) \ {<<>>}]

EditDone(C, x, e, y) ==
  /\ ApplyTextEdit(x, e) = Text(y) /\ y \in Seq(Seq(C))
  /\ e.sl <= Len(y) /\ Top(y, e.sl) = Top(x, e.sl)
  /\ e.sc > 0 => e.sl < Len(y) /\ e.sc <= Len(y[e.sl + 1]) /\ Top(y[e.sl + 1], e.sc) = Top(x[e.sl + 1], e.sc)
  /\ ~EmptiesLine(x, e) => /\ y # <<>>
                           /\ Row(y) = Rewrite(Row(x), Row(e.new), Offset(x, e.sl, e.sc), Offset(x, e.el, e.ec))

(* The lines before the first one stay.                                    *)
LEMMA TopStays ==
  ASSUME NEW C, NEW a \in Seq(C), NEW b \in Seq(C)
  PROVE  Top(a \o b, Len(a)) = a /\ Len(a) <= Len(a \o b)
<1>1. Len(a) \in Nat /\ Len(b) \in Nat /\ Len(a \o b) = Len(a) + Len(b)
  BY ConcatIs
<1>2. Len(a) \in 0..Len(a)
  BY <1>1
<1>3. Top(a \o b, Len(a)) = Top(a, Len(a))
  BY <1>2, TopOfConcat
<1>4. Top(a, Len(a)) = a
  BY Whole
<1> QED
  BY <1>1, <1>3, <1>4

(* The first line after the first ones.                                    *)
LEMMA NextAfterTop ==
  ASSUME NEW C, NEW a \in Seq(C), NEW v \in C, NEW w \in Seq(C)
  PROVE  (a \o (<<v>> \o w))[Len(a) + 1] = v /\ Len(a) < Len(a \o (<<v>> \o w)) /\ <<v>> \o w # <<>>
<1>1. <<v>> \in Seq(C) /\ Len(<<v>>) = 1 /\ <<v>>[1] = v
  OBVIOUS
<1> DEFINE u == <<v>>
<1>2. u \in Seq(C) /\ Len(u) = 1 /\ u[1] = v
  BY <1>1
<1> HIDE DEF u
<1> DEFINE b == u \o w
<1>3. b \in Seq(C) /\ Len(b) = 1 + Len(w) /\ b[1] = v /\ Len(w) \in Nat
  <2>1. 1 \in 1..Len(u)
    BY <1>2
  <2> QED
    BY <2>1, <1>2, ConcatIs
<1> HIDE DEF b
<1>4. (a \o b)[Len(a) + 1] = b[1] /\ Len(a \o b) = Len(a) + Len(b) /\ Len(a) \in Nat
  <2>1. 1 \in 1..Len(b)
    BY <1>3
  <2>2. \A i \in 1..Len(b) : (a \o b)[Len(a) + i] = b[i]
    BY <1>3, ConcatIs
  <2>3. Len(a \o b) = Len(a) + Len(b) /\ Len(a) \in Nat
    BY <1>3, ConcatIs
  <2> QED
    BY <2>1, <2>2, <2>3
<1>5. Len(a) < Len(a \o b)
  BY <1>3, <1>4
<1>6. b # <<>>
  BY <1>3
<1> QED
  BY <1>3, <1>4, <1>5, <1>6 DEF b, u

(* One edit that empties no line rewrites the row at the offsets of its    *)
(* places.                                                                 *)
LEMMA OneEdit ==
  ASSUME NEW C, NewLine \in C, NEW x \in Seq(Seq(C)), NEW e \in EditOf(C), Place(x, e.sl, e.sc), Place(x, e.el, e.ec)
  PROVE  \E y : EditDone(C, x, e, y)
<1>1. Parts(C, x, e.sl, e.sc) /\ Parts(C, x, e.el, e.ec) /\ AtPlace(C, x, e.sl, e.sc) /\ AtPlace(C, x, e.el, e.ec)
  BY PlaceHasParts, RowAtPlace
<1>2. e.new \in Seq(Seq(C)) /\ e.new # <<>>
  BY DEF EditOf
<1> DEFINE head == Top(x[e.sl + 1], e.sc)
           rest == Rest(x[e.el + 1], e.ec)
           a == Top(x, e.sl)
           z == Rest(x, e.el + 1)
           gone == EmptiesLine(x, e)
           s == IF gone THEN <<>> ELSE Spliced(head, e.new, rest)
           y == (a \o s) \o z
<1>3. /\ e.sl \in Nat /\ e.el \in Nat /\ e.sc \in Nat /\ e.ec \in Nat /\ Len(x) \in Nat
      /\ e.sl + 1 \in 1..Len(x) /\ e.el + 1 \in 1..Len(x)
      /\ e.sc \in 0..Len(x[e.sl + 1]) /\ Len(x[e.sl + 1]) \in Nat
  BY <1>1 DEF Parts
<1>4. head \in Seq(C) /\ Len(head) = e.sc /\ a \in Seq(Seq(C)) /\ Len(a) = e.sl
  BY <1>1 DEF Parts
<1>5. rest \in Seq(C) /\ z \in Seq(Seq(C))
  BY <1>1 DEF Parts
<1>6. Take(x[e.sl + 1], e.sc) = head
  <2>1. ~(e.sc > Len(x[e.sl + 1]))
    BY <1>3
  <2> QED
    BY <2>1 DEF Take, Top
<1>7. Drop(x[e.el + 1], e.ec) = rest
  BY DEF Drop, Rest
<1>8. gone <=> e.new = Empty /\ head \o rest = <<>>
  BY <1>6, <1>7 DEF EmptiesLine
<1>9. ~(e.sl >= Len(x)) /\ ~(e.el >= Len(x)) /\ e.el + 2 = (e.el + 1) + 1
  BY <1>3
<1>10. Splice(x, e) = s
  <2>1. Splice(x, e) = LET h == Take(x[e.sl + 1], e.sc)
                           r == Drop(x[e.el + 1], e.ec)
                       IN  IF e.new = Empty /\ h \o r = <<>> THEN <<>> ELSE Spliced(h, e.new, r)
    BY ONLY <1>9 DEF Splice, Spliced
  <2> HIDE DEF head, rest, gone
  <2>2. Splice(x, e) = IF e.new = Empty /\ head \o rest = <<>> THEN <<>> ELSE Spliced(head, e.new, rest)
    BY ONLY <2>1, <1>6, <1>7
  <2> QED
    BY ONLY <2>2, <1>8
<1>11. ApplyTextEdit(x, e) = Text(y)
  <2>1. ApplyTextEdit(x, e) = Text(a \o Splice(x, e) \o SubSeq(x, e.el + 2, Len(x)))
    BY <1>9 DEF ApplyTextEdit, Top
  <2>2. SubSeq(x, e.el + 2, Len(x)) = z
    BY <1>9 DEF Rest
  <2> QED
    BY <2>1, <2>2, <1>10
<1>12. SplicedRight(C, head, e.new, rest, z)
  BY <1>2, <1>4, <1>5, RowOfSpliced
<1>13. Rewrite(Row(x), Row(e.new), Offset(x, e.sl, e.sc), Offset(x, e.el, e.ec))
         = Pre(x, e.sl, e.sc) \o (Row(e.new) \o Post(x, e.el, e.ec))
  BY <1>1 DEF AtPlace, Rewrite
<1>14. Pre(x, e.sl, e.sc) = Terminated(a) \o head /\ Post(x, e.el, e.ec) = Row(<<rest>> \o z)
  BY DEF Pre, Post
<1>15. Terminated(a) \in Seq(C)
  BY <1>4, TerminatedIs
<1> HIDE DEF head, rest, a, z, gone
<1>16. Spliced(head, e.new, rest) \in Seq(Seq(C))
  BY <1>12 DEF SplicedRight
<1>17. s \in Seq(Seq(C))
  <2>1. <<>> \in Seq(Seq(C))
    OBVIOUS
  <2> QED
    BY <2>1, <1>16
<1>18. \A p, q, r \in Seq(C) : (p \o q) \o r = p \o (q \o r)
  <2>1. Associative(C)
    BY Associates
  <2> QED
    BY <2>1 DEF Associative
<1>19. \A p, q, r \in Seq(Seq(C)) : (p \o q) \o r = p \o (q \o r)
  <2>1. Associative(Seq(C))
    BY Associates
  <2> QED
    BY <2>1 DEF Associative
<1>20. ASSUME gone PROVE e.sc = 0
  <2>1. head \o rest = <<>>
    BY <1>8, <1>20
  <2>2. head = <<>>
    BY <2>1, <1>4, <1>5, ConcatEqualIffEmpty, ConcatEmptySeq
  <2> QED
    BY <2>2, <1>4
<1>21. ASSUME ~gone
       PROVE  \E r \in Seq(C), w \in Seq(Seq(C)) : s = <<head \o r>> \o w
  BY <1>12, <1>21 DEF SplicedRight
<1>22. ASSUME ~gone PROVE Row(s \o z) = head \o (Row(e.new) \o Row(<<rest>> \o z)) /\ Row(e.new) \in Seq(C)
                          /\ Row(<<rest>> \o z) \in Seq(C)
  BY <1>12, <1>22 DEF SplicedRight
<1> HIDE DEF s
<1> DEFINE b == s \o z
<1>23. b \in Seq(Seq(C))
  BY <1>5, <1>17, ConcatProperties
<1>24. y = a \o b
  BY ONLY <1>19, <1>17, <1>5, <1>4 DEF y, b
<1> HIDE DEF y
<1>25. y \in Seq(Seq(C))
  BY <1>23, <1>24, <1>4, ConcatProperties
<1>26. e.sl <= Len(y) /\ Top(y, e.sl) = a
  BY <1>4, <1>23, <1>24, TopStays
<1>27. ASSUME ~gone PROVE \E r \in Seq(C), w \in Seq(Seq(C)) : b = <<head \o r>> \o w
  <2>1. PICK r \in Seq(C), w \in Seq(Seq(C)) : s = <<head \o r>> \o w
    BY <1>21, <1>27
  <2>2. <<head \o r>> \in Seq(Seq(C)) /\ w \o z \in Seq(Seq(C))
    <3>1. head \o r \in Seq(C)
      BY <1>4, ConcatProperties
    <3> QED
      BY <3>1, <1>5, ConcatProperties
  <2> DEFINE u == <<head \o r>>
  <2>3. u \in Seq(Seq(C)) /\ s = u \o w
    BY <2>1, <2>2
  <2> HIDE DEF u
  <2>4. (u \o w) \o z = u \o (w \o z)
    BY ONLY <1>19, <2>3, <1>5, w \in Seq(Seq(C))
  <2> QED
    BY <2>2, <2>3, <2>4 DEF u
<1>28. ASSUME ~gone
       PROVE  /\ b # <<>> /\ e.sl < Len(y) /\ e.sc <= Len(y[e.sl + 1]) /\ Top(y[e.sl + 1], e.sc) = head
  <2>1. PICK r \in Seq(C), w \in Seq(Seq(C)) : b = <<head \o r>> \o w
    BY <1>27, <1>28
  <2>2. head \o r \in Seq(C)
    BY <1>4, ConcatProperties
  <2>3. y[e.sl + 1] = head \o r /\ e.sl < Len(y) /\ b # <<>>
    <3> DEFINE v == head \o r
    <3>1. v \in Seq(C) /\ a \in Seq(Seq(C)) /\ b = <<v>> \o w /\ y = a \o (<<v>> \o w)
      BY <2>1, <2>2, <1>4, <1>24
    <3> HIDE DEF v
    <3>2. (a \o (<<v>> \o w))[Len(a) + 1] = v /\ Len(a) < Len(a \o (<<v>> \o w)) /\ <<v>> \o w # <<>>
      BY ONLY <3>1, NextAfterTop, w \in Seq(Seq(C))
    <3> QED
      BY <3>1, <3>2, <1>4 DEF v
  <2>4. Top(head \o r, e.sc) = head /\ e.sc <= Len(head \o r)
    BY <1>4, TopStays
  <2> QED
    BY <2>3, <2>4
<1>29. ASSUME ~gone
       PROVE  y # <<>> /\ Row(y) = Pre(x, e.sl, e.sc) \o (Row(e.new) \o Post(x, e.el, e.ec))
  <2>1. Row(a \o b) = Terminated(a) \o Row(b)
    BY <1>4, <1>23, <1>28, <1>29, RowBoth
  <2> DEFINE n == Row(e.new)
             q == Row(<<rest>> \o z)
  <2>2. Row(b) = head \o (n \o q) /\ n \in Seq(C) /\ q \in Seq(C)
    BY <1>22, <1>29 DEF b
  <2> HIDE DEF n, q
  <2>3. n \o q \in Seq(C)
    BY <2>2, ConcatProperties
  <2>4. (Terminated(a) \o head) \o (n \o q) = Terminated(a) \o (head \o (n \o q))
    BY ONLY <1>18, <2>3, <1>15, <1>4
  <2>5. y # <<>>
    BY <1>23, <1>24, <1>28, <1>29, <1>4, ConcatEqualIffEmpty, ConcatEmptySeq
  <2> QED
    BY <2>1, <2>2, <2>4, <2>5, <1>14, <1>24 DEF n, q
<1>30. EmptiesLine(x, e) <=> gone
  BY DEF gone
<1>31. e.sc > 0 => ~gone
  BY <1>20, <1>3
<1>32. e.sc > 0 => e.sl < Len(y) /\ e.sc <= Len(y[e.sl + 1]) /\ Top(y[e.sl + 1], e.sc) = Top(x[e.sl + 1], e.sc)
  BY <1>28, <1>31 DEF head
<1>33. EditDone(C, x, e, y)
  BY <1>11, <1>13, <1>25, <1>26, <1>29, <1>30, <1>32 DEF EditDone, a
<1> QED
  BY <1>33
(* A text that is another up to a place.                                   *)
Agree(C, x, text, l, c) ==
  /\ x \in Seq(Seq(C)) /\ l \in Nat /\ c \in Nat /\ l <= Len(x) /\ l <= Len(text) /\ Top(x, l) = Top(text, l)
  /\ c > 0 => /\ l < Len(x) /\ l < Len(text) /\ c <= Len(text[l + 1]) /\ c <= Len(x[l + 1])
              /\ Top(x[l + 1], c) = Top(text[l + 1], c)

Sooner(k, b, l, c) == k < l \/ (k = l /\ b < c)

KeepsPlace(x, text, l, k, b) ==
  /\ Place(x, k, b) /\ k <= Len(x) /\ k <= Len(text) /\ Top(x, k) = Top(text, k) /\ Offset(x, k, b) = Offset(text, k, b)
  /\ Top(x[k + 1], b) = Top(text[k + 1], b)
  /\ x[k + 1] = text[k + 1] \/ Rest(x[k + 1], b) # <<>>

(* An earlier place in such a text has the same offset and the same line   *)
(* before it.                                                              *)
LEMMA PlaceStays ==
  ASSUME NEW C, NewLine \in C, NEW text \in Seq(Seq(C)), NEW x, NEW l, NEW c, Agree(C, x, text, l, c),
         NEW k, NEW b, Place(text, k, b), Sooner(k, b, l, c)
  PROVE  KeepsPlace(x, text, l, k, b)
<1>1. /\ x \in Seq(Seq(C)) /\ l \in Nat /\ c \in Nat /\ l <= Len(x) /\ l <= Len(text) /\ Top(x, l) = Top(text, l)
      /\ Len(x) \in Nat /\ Len(text) \in Nat
  BY LenProperties DEF Agree
<1>2. Parts(C, text, k, b)
  BY PlaceHasParts
<1>3. /\ k \in Nat /\ b \in Nat /\ k < Len(text) /\ text[k + 1] \in Seq(C) /\ Len(text[k + 1]) \in Nat /\ b <= Len(text[k + 1])
  BY <1>2 DEF Parts, Place
<1>4. l \in 0..Len(x) /\ l \in 0..Len(text)
  BY <1>1
<1>5. Top(x, l) \in Seq(Seq(C)) /\ Len(Top(x, l)) = l /\ \A i \in 1..l : Top(x, l)[i] = x[i]
  BY <1>1, <1>4, TopIs
<1>6. \A i \in 1..l : Top(text, l)[i] = text[i]
  BY <1>1, <1>4, TopIs
<1>7. k <= l
  BY <1>1, <1>3 DEF Sooner
<1>8. Top(x, k) = Top(text, k)
  <2>1. k \in 0..l
    BY <1>1, <1>3, <1>7
  <2>2. Top(Top(x, l), k) = Top(x, k)
    BY <1>1, <1>4, <2>1, TopOfTop
  <2>3. Top(Top(text, l), k) = Top(text, k)
    BY <1>1, <1>4, <2>1, TopOfTop
  <2> QED
    BY <2>2, <2>3, <1>1
<1>9. Offset(x, k, b) = Offset(text, k, b)
  BY <1>8 DEF Offset, Top
<1>10. CASE k < l
  <2>1. k + 1 \in 1..l /\ k < Len(x)
    BY <1>1, <1>3, <1>10
  <2>2. x[k + 1] = text[k + 1]
    BY <2>1, <1>1, <1>5, <1>6
  <2> QED
    BY <2>1, <2>2, <1>1, <1>3, <1>8, <1>9 DEF KeepsPlace, Place
<1>11. CASE k = l
  <2>1. b < c /\ c > 0
    BY <1>1, <1>3, <1>11 DEF Sooner
  <2>2. /\ l < Len(x) /\ c <= Len(text[l + 1]) /\ c <= Len(x[l + 1])
        /\ Top(x[l + 1], c) = Top(text[l + 1], c)
    BY <2>1 DEF Agree
  <2>3. l + 1 \in 1..Len(x)
    BY <1>1, <2>2
  <2> DEFINE u == x[l + 1]
             v == text[l + 1]
  <2>4. u \in Seq(C) /\ Len(u) \in Nat /\ v \in Seq(C) /\ Len(v) \in Nat
    BY <2>3, <1>1, <1>3, <1>11, ElementOfSeq, LenProperties
  <2>5. c <= Len(u) /\ c <= Len(v) /\ Top(u, c) = Top(v, c) /\ Place(text, l, b)
    BY <2>2, <1>11
  <2> HIDE DEF u, v
  <2>6. c \in 0..Len(u) /\ c \in 0..Len(v) /\ b \in 0..c /\ b \in 0..Len(u)
    BY <2>1, <2>4, <2>5, <1>1, <1>3
  <2>7. Top(Top(u, c), b) = Top(u, b)
    BY <2>4, <2>6, TopOfTop
  <2>8. Top(Top(v, c), b) = Top(v, b)
    BY <2>4, <2>6, TopOfTop
  <2>9. Top(u, b) = Top(v, b)
    BY <2>5, <2>7, <2>8
  <2>10. Len(Rest(u, b)) = Len(u) - b
    BY <2>4, <2>6, RestIs
  <2>11. Len(Rest(u, b)) > 0
    BY <2>10, <2>1, <2>4, <2>5, <1>1, <1>3
  <2>12. Rest(u, b) # <<>>
    BY <2>11
  <2>13. b <= Len(u)
    BY <2>6, <2>4
  <2>14. Place(x, l, b)
    BY <2>2, <2>13, <1>1, <1>3 DEF Place, u
  <2> QED
    BY <2>9, <2>12, <2>14, <1>1, <1>8, <1>9, <1>11 DEF KeepsPlace, u, v
<1> QED
  BY <1>1, <1>3, <1>7, <1>10, <1>11

(* One edit of such a text, before that place, does as it would to the     *)
(* other.                                                                  *)
TextStep(C, x, text, e, y) ==
  /\ ApplyTextEdit(x, e) = Text(y) /\ Agree(C, y, text, e.sl, e.sc)
  /\ ~EmptiesLine(text, e) =>
       /\ y # <<>>
       /\ Row(y) = Rewrite(Row(x), Row(e.new), Offset(text, e.sl, e.sc), Offset(text, e.el, e.ec))

Placed(text, e) == Place(text, e.sl, e.sc) /\ Place(text, e.el, e.ec) /\ (e.sl < e.el \/ (e.sl = e.el /\ e.sc <= e.ec))

(* An edit that ends sooner starts sooner.                                 *)
LEMMA StartsSooner ==
  ASSUME NEW text, NEW e, Placed(text, e), NEW l \in Nat, NEW c \in Nat, Sooner(e.el, e.ec, l, c)
  PROVE  Sooner(e.sl, e.sc, l, c)
<1>1. e.sl \in Nat /\ e.sc \in Nat /\ e.el \in Nat /\ e.ec \in Nat
  BY DEF Placed, Place
<1>2. PICK p \in Nat, q \in Nat, m \in Nat, n \in Nat : p = e.sl /\ q = e.sc /\ m = e.el /\ n = e.ec
  BY <1>1
<1>3. (p < m \/ (p = m /\ q <= n)) /\ (m < l \/ (m = l /\ n < c))
  BY <1>2 DEF Placed, Sooner
<1>4. p < l \/ (p = l /\ q < c)
  BY <1>3
<1> QED
  BY <1>2, <1>4 DEF Sooner

(* An edit in its turn does that.                                          *)
LEMMA EditInTurn ==
  ASSUME NEW C, NewLine \in C, NEW text \in Seq(Seq(C)), NEW x, NEW l, NEW c, Agree(C, x, text, l, c),
         NEW e \in EditOf(C), Placed(text, e), Sooner(e.el, e.ec, l, c)
  PROVE  \E y : TextStep(C, x, text, e, y)
<1>1. x \in Seq(Seq(C)) /\ l \in Nat /\ c \in Nat
  BY DEF Agree
<1>2. Sooner(e.sl, e.sc, l, c)
  BY <1>1, StartsSooner
<1>3. Place(text, e.sl, e.sc) /\ Place(text, e.el, e.ec)
  BY DEF Placed
<1>4. KeepsPlace(x, text, l, e.sl, e.sc)
  BY <1>2, <1>3, PlaceStays
<1>5. KeepsPlace(x, text, l, e.el, e.ec)
  BY <1>3, PlaceStays
<1>6. Place(x, e.sl, e.sc) /\ Place(x, e.el, e.ec)
  BY <1>4, <1>5 DEF KeepsPlace
<1>7. PICK y : EditDone(C, x, e, y)
  BY <1>1, <1>6, OneEdit
<1>8. Agree(C, y, text, e.sl, e.sc)
  <2>1. /\ y \in Seq(Seq(C)) /\ e.sl <= Len(y) /\ Top(y, e.sl) = Top(x, e.sl)
        /\ e.sc > 0 => e.sl < Len(y) /\ e.sc <= Len(y[e.sl + 1]) /\ Top(y[e.sl + 1], e.sc) = Top(x[e.sl + 1], e.sc)
    BY <1>7 DEF EditDone
  <2>2. e.sl \in Nat /\ e.sc \in Nat /\ e.sl < Len(text) /\ e.sc <= Len(text[e.sl + 1])
    BY <1>3 DEF Place
  <2>3. e.sl <= Len(text) /\ Top(x, e.sl) = Top(text, e.sl) /\ Top(x[e.sl + 1], e.sc) = Top(text[e.sl + 1], e.sc)
    BY <1>4 DEF KeepsPlace
  <2> QED
    BY <2>1, <2>2, <2>3 DEF Agree
<1>9. ASSUME EmptiesLine(x, e) PROVE EmptiesLine(text, e)
  <2>1. e.new = Empty /\ Take(x[e.sl + 1], e.sc) \o Drop(x[e.el + 1], e.ec) = <<>>
    BY <1>9 DEF EmptiesLine
  <2>2. Parts(C, x, e.sl, e.sc) /\ Parts(C, x, e.el, e.ec) /\ Parts(C, text, e.sl, e.sc)
    BY <1>1, <1>3, <1>6, PlaceHasParts
  <2>3. /\ Top(x[e.sl + 1], e.sc) \in Seq(C) /\ Rest(x[e.el + 1], e.ec) \in Seq(C)
        /\ e.sc \in 0..Len(x[e.sl + 1]) /\ Len(x[e.sl + 1]) \in Nat
        /\ e.sc \in 0..Len(text[e.sl + 1]) /\ Len(text[e.sl + 1]) \in Nat
    BY <2>2 DEF Parts
  <2>4. ~(e.sc > Len(x[e.sl + 1])) /\ ~(e.sc > Len(text[e.sl + 1]))
    BY <2>3
  <2>5. Take(x[e.sl + 1], e.sc) = Top(x[e.sl + 1], e.sc) /\ Take(text[e.sl + 1], e.sc) = Top(text[e.sl + 1], e.sc)
    BY <2>4 DEF Take, Top
  <2>6. Top(x[e.sl + 1], e.sc) = Top(text[e.sl + 1], e.sc)
    BY <1>4 DEF KeepsPlace
  <2>7. Drop(x[e.el + 1], e.ec) = Rest(x[e.el + 1], e.ec)
    BY DEF Drop, Rest
  <2>8. Rest(x[e.el + 1], e.ec) = <<>>
    BY <2>1, <2>3, <2>5, <2>7, ConcatEqualIffEmpty, ConcatEmptySeq
  <2>9. x[e.el + 1] = text[e.el + 1]
    BY <1>5, <2>8 DEF KeepsPlace
  <2> QED
    BY <2>1, <2>5, <2>6, <2>9 DEF EmptiesLine
<1>10. Offset(x, e.sl, e.sc) = Offset(text, e.sl, e.sc) /\ Offset(x, e.el, e.ec) = Offset(text, e.el, e.ec)
  BY <1>4, <1>5 DEF KeepsPlace
<1>11. TextStep(C, x, text, e, y)
  BY <1>7, <1>8, <1>9, <1>10 DEF TextStep, EditDone
<1> QED
  BY <1>11
-----------------------------------------------------------------------------
(* The places of edits, and the order in which they are applied.           *)

OffsetsIn(x, k, b, l, c) ==
  /\ Offset(x, k, b) \in Nat /\ Offset(x, l, c) \in Nat
  /\ Sooner(k, b, l, c) => Offset(x, k, b) < Offset(x, l, c)
  /\ k = l /\ b <= c => Offset(x, k, b) <= Offset(x, l, c)

(* A later place has a larger offset.                                      *)
LEMMA OffsetsGrow ==
  ASSUME NEW C, NewLine \in C, NEW x \in Seq(Seq(C)), NEW k, NEW b, NEW l, NEW c, Place(x, k, b), Place(x, l, c)
  PROVE  OffsetsIn(x, k, b, l, c)
<1>1. Parts(C, x, k, b) /\ Parts(C, x, l, c)
  BY PlaceHasParts
<1>2. /\ k \in Nat /\ b \in Nat /\ l \in Nat /\ c \in Nat /\ Len(x) \in Nat /\ k < Len(x) /\ l < Len(x)
      /\ b <= Len(x[k + 1]) /\ x[k + 1] \in Seq(C) /\ Len(x[k + 1]) \in Nat
  BY <1>1 DEF Parts, Place
<1>3. Terminated(Top(x, k)) \in Seq(C) /\ Terminated(Top(x, l)) \in Seq(C) /\ Top(x, k) \in Seq(Seq(C)) /\ Top(x, l) \in Seq(Seq(C))
  BY <1>1 DEF Parts
<1>4. PICK p \in Nat, q \in Nat : p = Len(Terminated(Top(x, k))) /\ q = Len(Terminated(Top(x, l)))
  BY <1>3, LenProperties
<1>5. Offset(x, k, b) = p + b /\ Offset(x, l, c) = q + c
  BY <1>4 DEF Offset, Top
<1>6. CASE k < l
  <2> DEFINE a == Top(x, k + 1)
             y == Top(x, l)
             z == Rest(y, k + 1)
  <2>1. k + 1 \in 1..Len(x) /\ (k + 1) - 1 = k /\ k + 1 \in 0..Len(x) /\ l \in 0..Len(x) /\ k + 1 \in 0..l
    BY <1>2, <1>6
  <2>2. a = Append(Top(x, k), x[k + 1])
    BY <2>1, TopOneMore
  <2>3. Terminated(a) = Terminated(Top(x, k)) \o (x[k + 1] \o <<NewLine>>)
    BY <2>2, <1>2, <1>3, TerminatedOneMore
  <2>4. x[k + 1] \o <<NewLine>> \in Seq(C) /\ Len(x[k + 1] \o <<NewLine>>) = Len(x[k + 1]) + 1
    <3>1. <<NewLine>> \in Seq(C) /\ Len(<<NewLine>>) = 1
      OBVIOUS
    <3> QED
      BY <3>1, <1>2, ConcatIs
  <2>5. Len(Terminated(a)) = p + (Len(x[k + 1]) + 1)
    <3> HIDE DEF a
    <3> QED
      BY <2>3, <2>4, <1>3, <1>4, ConcatIs
  <2>6. y \in Seq(Seq(C)) /\ Len(y) = l
    BY <2>1, TopIs
  <2>7. Top(y, k + 1) = a
    BY <2>1, TopOfTop
  <2> HIDE DEF a, y
  <2>8. k + 1 \in 0..Len(y)
    BY <2>1, <2>6
  <2>9. z \in Seq(Seq(C)) /\ a \o z = y
    BY <2>6, <2>7, <2>8, RestIs, TopAndRest
  <2>10. a \in Seq(Seq(C))
    BY <2>1, TopIs DEF a
  <2> HIDE DEF z
  <2>11. Terminated(y) = Terminated(a) \o Terminated(z)
    <3>1. Terminated(a \o z) = Terminated(a) \o Terminated(z)
      BY <2>9, <2>10, TerminatedBoth
    <3> QED
      BY <3>1, <2>9
  <2>12. Terminated(a) \in Seq(C) /\ Terminated(z) \in Seq(C)
    BY <2>9, <2>10, TerminatedIs
  <2>13. Len(Terminated(y)) = Len(Terminated(a)) + Len(Terminated(z)) /\ Len(Terminated(z)) \in Nat
    BY <2>11, <2>12, ConcatIs
  <2>14. q >= p + (Len(x[k + 1]) + 1)
    BY <2>5, <2>13, <1>2, <1>4 DEF y
  <2>15. PICK n \in Nat : n = Len(x[k + 1])
    BY <1>2
  <2>16. q >= p + (n + 1) /\ b <= n
    BY <2>14, <2>15, <1>2
  <2>17. p + b < q + c
    BY <2>16, <1>2
  <2>18. p + b \in Nat /\ q + c \in Nat /\ k # l
    BY <1>2, <1>6
  <2> QED
    BY <2>17, <2>18, <1>5 DEF OffsetsIn
<1>7. CASE k = l
  <2>1. p = q
    BY <1>4, <1>7
  <2>2. p + b \in Nat /\ q + c \in Nat /\ (b < c => p + b < q + c) /\ (b <= c => p + b <= q + c)
    BY <2>1, <1>2
  <2>3. Sooner(k, b, l, c) => b < c
    BY <1>2, <1>7 DEF Sooner
  <2> QED
    BY <2>2, <2>3, <1>5 DEF OffsetsIn
<1>8. CASE l < k
  <2>1. ~Sooner(k, b, l, c) /\ k # l
    BY <1>2, <1>8 DEF Sooner
  <2>2. p + b \in Nat /\ q + c \in Nat
    BY <1>2
  <2> QED
    BY <2>1, <2>2, <1>5 DEF OffsetsIn
<1> QED
  BY <1>2, <1>6, <1>7, <1>8

(* Of two edits that do not overlap the one that starts first ends before  *)
(* the other starts.                                                       *)
LEMMA OneBeforeOther ==
  ASSUME NEW asl \in Nat, NEW asc \in Nat, NEW ael \in Nat, NEW aec \in Nat,
         NEW bsl \in Nat, NEW bsc \in Nat, NEW bel \in Nat, NEW bec \in Nat,
         asl < bsl \/ (asl = bsl /\ asc <= bsc), bsl < bel \/ (bsl = bel /\ bsc <= bec)
  PROVE  (asl <= bel /\ bsl <= ael /\ (asl = bel => asc <= bec) /\ (bsl = ael => bsc <= aec))
           \/ ael < bsl \/ (ael = bsl /\ aec < bsc)
OBVIOUS

(* The order of the edits of a text.                                       *)
StartsOf(edits) == [k \in 1..Len(edits) |-> <<edits[k].sl, edits[k].sc>>]

TextOrder(edits, order) ==
  /\ InTurn(order, Len(edits)) /\ order = LastFirst(StartsOf(edits))
  /\ \A k, m \in 1..Len(edits) :
       k < m => \/ edits[order[m]].sl < edits[order[k]].sl
                \/ edits[order[m]].sl = edits[order[k]].sl /\ edits[order[m]].sc <= edits[order[k]].sc

(* What an edit is made of.                                                *)
LEMMA EditFields ==
  ASSUME NEW C, NEW e \in EditOf(C)
  PROVE  /\ e.sl \in Nat /\ e.sc \in Nat /\ e.el \in Nat /\ e.ec \in Nat
         /\ e.new \in Seq(Seq(C)) /\ e.new # <<>>
BY DEF EditOf

(* ApplyTextEdits has such an order.                                       *)
LEMMA TextOrderExists ==
  ASSUME NEW C, NEW edits \in Seq(EditOf(C))
  PROVE  TextOrder(edits, LastFirst(StartsOf(edits)))
<1> DEFINE n == Len(edits)
           l == [k \in 1..n |-> edits[k].sl]
           c == [k \in 1..n |-> edits[k].sc]
           order == LastFirst(StartsOf(edits))
<1>1. n \in Nat /\ \A i \in 1..n : edits[i] \in EditOf(C)
  BY LenProperties, ElementOfSeq
<1>2. \A i \in 1..n : edits[i].sl \in Int /\ edits[i].sc \in Int
  <2> HIDE DEF n
  <2> TAKE i \in 1..n
  <2>1. edits[i] \in EditOf(C)
    BY <1>1
  <2>2. edits[i].sl \in Nat /\ edits[i].sc \in Nat
    BY <2>1, EditFields
  <2> QED
    BY <2>2
<1>3. l \in [1..n -> Int] /\ c \in [1..n -> Int]
  BY <1>2
<1>4. StartsOf(edits) = [k \in 1..n |-> <<l[k], c[k]>>]
  BY DEF StartsOf
<1>5. order = LastFirst([k \in 1..n |-> <<l[k], c[k]>>])
  BY <1>4
<1>7. \A k \in 1..n : l[k] = edits[k].sl /\ c[k] = edits[k].sc
  OBVIOUS
<1>6. order = LastFirst(StartsOf(edits))
  OBVIOUS
<1> HIDE DEF n, l, c, order
<1>12. SortedLast(order, n, l, c)
  BY <1>1, <1>3, <1>5, LastComesFirst
<1>8. /\ order \in [1..n -> 1..n]
      /\ \A i \in 1..n : \E k \in 1..n : order[k] = i
      /\ \A k, m \in 1..n : k < m => order[k] # order[m] /\ Starting(l, c, order[k], order[m])
  BY <1>12 DEF SortedLast
<1>9. InTurn(order, n)
  BY <1>8 DEF InTurn
<1>10. \A k, m \in 1..n : k < m => \/ edits[order[m]].sl < edits[order[k]].sl
                                   \/ edits[order[m]].sl = edits[order[k]].sl /\ edits[order[m]].sc <= edits[order[k]].sc
  <2> SUFFICES ASSUME NEW k \in 1..n, NEW m \in 1..n, k < m
               PROVE  \/ edits[order[m]].sl < edits[order[k]].sl
                      \/ edits[order[m]].sl = edits[order[k]].sl /\ edits[order[m]].sc <= edits[order[k]].sc
    OBVIOUS
  <2>1. Starting(l, c, order[k], order[m])
    BY <1>8
  <2>2. order[k] \in 1..n /\ order[m] \in 1..n
    BY <1>8
  <2>3. /\ l[order[m]] = edits[order[m]].sl /\ l[order[k]] = edits[order[k]].sl
        /\ c[order[m]] = edits[order[m]].sc /\ c[order[k]] = edits[order[k]].sc
    BY <2>2, <1>7
  <2>4. edits[order[m]].sc \in Int /\ edits[order[k]].sc \in Int
    BY <2>2, <1>2
  <2>5. l[order[m]] < l[order[k]] \/ (l[order[m]] = l[order[k]] /\ (c[order[m]] < c[order[k]] \/ c[order[m]] = c[order[k]]))
    BY <2>1 DEF Starting
  <2> QED
    BY <2>3, <2>4, <2>5
<1>11. TextOrder(edits, order)
  BY <1>6, <1>9, <1>10 DEF TextOrder, n
<1> QED
  BY <1>11, <1>6

(* Edits that do not overlap end before those start that are applied       *)
(* before them.                                                            *)
LEMMA EndsBeforeStarts ==
  ASSUME NEW C, NEW text, NEW edits \in Seq(EditOf(C)), \A i \in 1..Len(edits) : Placed(text, edits[i]),
         ~Overlapping(edits), NEW order, TextOrder(edits, order)
  PROVE  \A k, m \in 1..Len(edits) : k < m =>
           Sooner(edits[order[m]].el, edits[order[m]].ec, edits[order[k]].sl, edits[order[k]].sc)
<1> DEFINE n == Len(edits)
<1> SUFFICES ASSUME NEW k \in 1..n, NEW m \in 1..n, k < m
             PROVE  Sooner(edits[order[m]].el, edits[order[m]].ec, edits[order[k]].sl, edits[order[k]].sc)
  OBVIOUS
<1>1. n \in Nat
  BY LenProperties
<1>2. order[k] \in 1..n /\ order[m] \in 1..n /\ order[k] # order[m]
  BY DEF TextOrder, InTurn
<1>3. PICK a, b : a = edits[order[m]] /\ b = edits[order[k]]
  OBVIOUS
<1>4. Placed(text, a) /\ Placed(text, b)
  BY <1>2, <1>3
<1>5. /\ a.sl \in Nat /\ a.sc \in Nat /\ a.el \in Nat /\ a.ec \in Nat
      /\ b.sl \in Nat /\ b.sc \in Nat /\ b.el \in Nat /\ b.ec \in Nat
  BY <1>4 DEF Placed, Place
<1>6. a.sl < b.sl \/ (a.sl = b.sl /\ a.sc <= b.sc)
  BY <1>3 DEF TextOrder
<1>7. b.sl < b.el \/ (b.sl = b.el /\ b.sc <= b.ec)
  BY <1>4 DEF Placed
<1>8. ~RangesOverlap(a, b)
  <2>1. \A i, j \in 1..n : i < j => ~RangesOverlap(edits[i], edits[j])
    BY DEF Overlapping
  <2>2. order[m] < order[k] \/ order[k] < order[m]
    BY <1>1, <1>2
  <2>3. RangesOverlap(a, b) => RangesOverlap(b, a)
    BY DEF RangesOverlap
  <2> QED
    BY <2>1, <2>2, <2>3, <1>2, <1>3
<1>9. ~(a.sl <= b.el /\ b.sl <= a.el /\ (a.sl = b.el => a.sc <= b.ec) /\ (b.sl = a.el => b.sc <= a.ec))
  BY <1>8 DEF RangesOverlap
<1>10. a.el < b.sl \/ (a.el = b.sl /\ a.ec < b.sc)
  BY <1>5, <1>6, <1>7, <1>9, OneBeforeOther
<1> QED
  BY <1>3, <1>10 DEF Sooner
(* The texts one after the other, if no two edits overlap.                 *)
TextsRun(f, m, C, text, edits, order) ==
  /\ f[0] = text /\ \A k \in 0..m : f[k] \in Seq(Seq(C))
  /\ \A k \in 1..m : TextStep(C, f[k - 1], text, edits[order[k]], f[k])

CanRun(m, C, text, edits, order) == \E f : TextsRun(f, m, C, text, edits, order)

EditsWithin(C, text, edits) ==
  /\ text \in Seq(Seq(C)) /\ edits \in Seq(EditOf(C)) /\ \A i \in 1..Len(edits) : Placed(text, edits[i])

(* All edits can be applied in their turn.                                 *)
LEMMA EditsRun ==
  ASSUME NEW C, NewLine \in C, NEW text, NEW edits, EditsWithin(C, text, edits),
         ~Overlapping(edits), NEW order, TextOrder(edits, order)
  PROVE  CanRun(Len(edits), C, text, edits, order)
<1>0. text \in Seq(Seq(C)) /\ edits \in Seq(EditOf(C)) /\ \A i \in 1..Len(edits) : Placed(text, edits[i])
  BY DEF EditsWithin
<1> DEFINE n == Len(edits)
           S == {m \in 0..n : CanRun(m, C, text, edits, order)}
<1>1. n \in Nat /\ Len(text) \in Nat /\ \A i \in 1..n : edits[i] \in EditOf(C)
  BY <1>0, LenProperties, ElementOfSeq
<1>2. \A k \in 1..n : order[k] \in 1..n
  BY DEF TextOrder, InTurn
<1>3. \A k, m \in 1..n : k < m => Sooner(edits[order[m]].el, edits[order[m]].ec, edits[order[k]].sl, edits[order[k]].sc)
  BY <1>0, EndsBeforeStarts
<1>4. \A k \in 1..n : edits[order[k]] \in EditOf(C) /\ Placed(text, edits[order[k]])
  BY <1>0, <1>1, <1>2
<1> HIDE DEF n
<1>5. CanRun(0, C, text, edits, order)
  <2> DEFINE f == [k \in 0..0 |-> text]
  <2>1. f[0] = text /\ (\A k \in 0..0 : f[k] \in Seq(Seq(C))) /\ \A k \in 1..0 : TextStep(C, f[k - 1], text, edits[order[k]], f[k])
    BY <1>0
  <2> HIDE DEF f
  <2> QED
    BY <2>1 DEF CanRun, TextsRun
<1>6. ASSUME NEW m \in 0..(n - 1), CanRun(m, C, text, edits, order)
      PROVE  CanRun(m + 1, C, text, edits, order)
  <2>1. PICK f : TextsRun(f, m, C, text, edits, order)
    BY <1>6 DEF CanRun
  <2>2. m + 1 \in 1..n /\ m \in 0..n /\ m \in 0..m /\ m \in Nat /\ (m = 0 \/ m \in 1..m)
    BY <1>1
  <2>3. f[0] = text /\ (\A k \in 0..m : f[k] \in Seq(Seq(C))) /\ \A k \in 1..m : TextStep(C, f[k - 1], text, edits[order[k]], f[k])
    BY <2>1 DEF TextsRun
  <2> DEFINE e == edits[order[m + 1]]
  <2>4. e \in EditOf(C) /\ Placed(text, e)
    BY <2>2, <1>4
  <2>5. \E l, c : Agree(C, f[m], text, l, c) /\ Sooner(e.el, e.ec, l, c)
    <3>1. CASE m = 0
      <4>1. Agree(C, text, text, Len(text), 0)
        BY <1>0, <1>1 DEF Agree
      <4>2. e.el < Len(text)
        BY <2>4 DEF Placed, Place
      <4>3. Sooner(e.el, e.ec, Len(text), 0)
        BY <4>2 DEF Sooner
      <4> QED
        BY <3>1, <2>3, <4>1, <4>3
    <3>2. CASE m # 0
      <4>1. m \in 1..m /\ m \in 1..n /\ m < m + 1
        BY <3>2, <2>2, <1>1
      <4>2. TextStep(C, f[m - 1], text, edits[order[m]], f[m])
        BY <4>1, <2>3
      <4>3. Agree(C, f[m], text, edits[order[m]].sl, edits[order[m]].sc)
        BY <4>2 DEF TextStep
      <4>4. Sooner(e.el, e.ec, edits[order[m]].sl, edits[order[m]].sc)
        BY <4>1, <2>2, <1>3
      <4> QED
        BY <4>3, <4>4
    <3> QED
      BY <3>1, <3>2
  <2> HIDE DEF e
  <2>6. PICK y : TextStep(C, f[m], text, e, y)
    BY <2>4, <2>5, <1>0, EditInTurn
  <2>7. y \in Seq(Seq(C))
    BY <2>6 DEF TextStep, Agree
  <2> DEFINE g == [k \in 0..(m + 1) |-> IF k = m + 1 THEN y ELSE f[k]]
  <2>8. g[0] = text /\ g[m + 1] = y /\ \A k \in 0..m : g[k] = f[k]
    BY <2>2, <2>3
  <2> HIDE DEF g
  <2>9. \A k \in 0..(m + 1) : g[k] \in Seq(Seq(C))
    <3> TAKE k \in 0..(m + 1)
    <3>1. k = m + 1 \/ k \in 0..m
      BY <2>2
    <3> QED
      BY <3>1, <2>3, <2>7, <2>8
  <2>10. \A k \in 1..(m + 1) : TextStep(C, g[k - 1], text, edits[order[k]], g[k])
    <3> TAKE k \in 1..(m + 1)
    <3>1. CASE k = m + 1
      <4>1. k - 1 = m
        BY <3>1, <2>2
      <4> QED
        BY <3>1, <4>1, <2>2, <2>6, <2>8 DEF e
    <3>2. CASE k # m + 1
      <4>1. k \in 1..m /\ k \in 0..m /\ k - 1 \in 0..m
        BY <3>2, <2>2
      <4> QED
        BY <4>1, <2>3, <2>8
    <3> QED
      BY <3>1, <3>2
  <2>11. TextsRun(g, m + 1, C, text, edits, order)
    BY <2>8, <2>9, <2>10 DEF TextsRun
  <2> QED
    BY <2>11 DEF CanRun
<1>7. 0 \in S
  BY <1>1, <1>5
<1>8. \A m \in 0..(n - 1) : m \in S => m + 1 \in S
  <2>1. \A m \in 0..(n - 1) : m + 1 \in 0..n
    BY <1>1
  <2> QED
    BY <2>1, <1>6
<1> HIDE DEF S
<1>9. \A m \in 0..n : m \in S
  BY <1>1, <1>7, <1>8, Upward
<1>10. n \in S
  BY <1>1, <1>9
<1> QED
  BY <1>10 DEF S, n

(* What ApplyTextEdits goes through.                                       *)
LEMMA ApplyTextEditsRuns ==
  ASSUME NEW C, NEW text, NEW edits \in Seq(EditOf(C)), ~Overlapping(edits), NEW order, TextOrder(edits, order),
         NEW f, TextsRun(f, Len(edits), C, text, edits, order)
  PROVE  ApplyTextEdits(text, edits) = Text(Joined(text, f[Len(edits)]))
<1> DEFINE n == Len(edits)
           rhs(g) == [k \in 0..n |->
                       IF k = 0 THEN Text(text)
                       ELSE IF g[k - 1].ok THEN ApplyTextEdit(g[k - 1].text, edits[order[k]]) ELSE Failed]
           after == CHOOSE g : g = rhs(g)
           h == [k \in 0..n |-> Text(f[k])]
<1>1. n \in Nat
  BY LenProperties
<1>2. order = LastFirst([k \in 1..Len(edits) |-> <<edits[k].sl, edits[k].sc>>])
  BY DEF TextOrder, StartsOf
<1>3. ApplyTextEdits(text, edits) =
        IF Overlapping(edits) \/ ~after[n].ok THEN Failed ELSE Text(Joined(text, after[n].text))
  BY <1>2 DEF ApplyTextEdits
<1>4. \A k \in 0..n : h[k].ok /\ h[k].text = f[k] /\ h[k] = Text(f[k])
  BY DEF Text
<1>5. f[0] = text /\ \A k \in 1..n : ApplyTextEdit(f[k - 1], edits[order[k]]) = Text(f[k])
  BY DEF TextsRun, TextStep
<1>6. \A k \in 0..n : h[k] = rhs(h)[k]
  <2> TAKE k \in 0..n
  <2>1. CASE k = 0
    BY <2>1, <1>4, <1>5
  <2>2. CASE k # 0
    <3>1. k \in 1..n /\ k - 1 \in 0..n
      BY <2>2
    <3>2. h[k - 1].ok /\ h[k - 1].text = f[k - 1] /\ h[k] = Text(f[k])
      BY <3>1, <1>4
    <3>3. ApplyTextEdit(f[k - 1], edits[order[k]]) = Text(f[k])
      BY <3>1, <1>5
    <3> HIDE DEF h
    <3>4. rhs(h)[k] = ApplyTextEdit(h[k - 1].text, edits[order[k]])
      BY <2>2, <3>2
    <3> QED
      BY <3>2, <3>3, <3>4
  <2> QED
    BY <2>1, <2>2
<1>7. h = rhs(h)
  BY <1>6
<1>8. after = rhs(after)
  <2> HIDE DEF rhs, h
  <2> QED
    BY <1>7
<1> HIDE DEF after, h
<1> DEFINE S == {k \in 0..n : after[k] = h[k]}
<1>9. 0 \in S
  BY <1>1, <1>7, <1>8
<1>10. \A k \in 0..(n - 1) : k \in S => k + 1 \in S
  <2> SUFFICES ASSUME NEW k \in 0..(n - 1), after[k] = h[k] PROVE after[k + 1] = h[k + 1]
    BY <1>1
  <2>1. PICK m \in 1..n : m = k + 1
    BY <1>1
  <2>2. m \in 0..n /\ m - 1 = k /\ m # 0
    BY <2>1
  <2>3. after[m] = rhs(after)[m] /\ h[m] = rhs(h)[m]
    BY <1>7, <1>8
  <2>4. rhs(after)[m] = rhs(h)[m]
    BY <2>2
  <2> QED
    BY <2>1, <2>3, <2>4
<1> HIDE DEF S, rhs
<1>11. \A k \in 0..n : k \in S
  BY <1>1, <1>9, <1>10, Upward
<1>12. n \in 0..n
  BY <1>1
<1>13. after[n] = h[n]
  BY <1>11, <1>12 DEF S
<1>14. after[n].ok /\ after[n].text = f[n]
  BY <1>4, <1>12, <1>13
<1>15. ApplyTextEdits(text, edits) = Text(Joined(text, f[n]))
  BY <1>3, <1>14
<1> QED
  BY <1>15
-----------------------------------------------------------------------------
(* What the edits of a text mean.                                          *)

StartsAt(text, edits) == [k \in 1..Len(edits) |-> Offset(text, edits[k].sl, edits[k].sc)]
EndsAt(text, edits) == [k \in 1..Len(edits) |-> Offset(text, edits[k].el, edits[k].ec)]
NewRows(edits) == [k \in 1..Len(edits) |-> Row(edits[k].new)]

CutsOf(C, text, edits) ==
  /\ Cuts(C, Len(edits), StartsAt(text, edits), EndsAt(text, edits), NewRows(edits))
  /\ Row(text) \in Seq(C) /\ Len(Row(text)) \in Nat
  /\ \A k \in 1..Len(edits) : /\ StartsAt(text, edits)[k] \in Nat /\ EndsAt(text, edits)[k] \in Nat
                              /\ StartsAt(text, edits)[k] <= EndsAt(text, edits)[k]
                              /\ EndsAt(text, edits)[k] <= Len(Row(text))

(* The edits of a text are edits of its row.                               *)
LEMMA CutsOfEdits ==
  ASSUME NEW C, NewLine \in C, NEW text, text # <<>>, NEW edits, EditsWithin(C, text, edits)
  PROVE  CutsOf(C, text, edits)
<1> DEFINE n == Len(edits)
           starts == StartsAt(text, edits)
           ends == EndsAt(text, edits)
           news == NewRows(edits)
<1>0. text \in Seq(Seq(C)) /\ edits \in Seq(EditOf(C)) /\ \A i \in 1..n : Placed(text, edits[i])
  BY DEF EditsWithin
<1>1. n \in Nat /\ \A i \in 1..n : edits[i] \in EditOf(C)
  BY <1>0, LenProperties, ElementOfSeq
<1>2. Row(text) \in Seq(C) /\ Len(Row(text)) \in Nat
  BY <1>0, RowIs, LenProperties
<1>3. \A k \in 1..n : /\ starts[k] = Offset(text, edits[k].sl, edits[k].sc)
                      /\ ends[k] = Offset(text, edits[k].el, edits[k].ec) /\ news[k] = Row(edits[k].new)
  BY DEF StartsAt, EndsAt, NewRows
<1>4. /\ starts = [k \in 1..n |-> starts[k]] /\ ends = [k \in 1..n |-> ends[k]] /\ news = [k \in 1..n |-> news[k]]
      /\ Len(starts) = n
  BY <1>1 DEF StartsAt, EndsAt, NewRows
<1> HIDE DEF n, starts, ends, news
<1>5. \A k \in 1..n : /\ starts[k] \in Nat /\ ends[k] \in Nat /\ starts[k] <= ends[k] /\ ends[k] <= Len(Row(text))
                      /\ news[k] \in Seq(C)
  <2> TAKE k \in 1..n
  <2>1. PICK e : e = edits[k]
    OBVIOUS
  <2>2. e \in EditOf(C) /\ Placed(text, e)
    BY <1>0, <1>1, <2>1
  <2>3. Place(text, e.sl, e.sc) /\ Place(text, e.el, e.ec)
    BY <2>2 DEF Placed
  <2>4. OffsetsIn(text, e.sl, e.sc, e.el, e.ec)
    BY <2>3, <1>0, OffsetsGrow
  <2>5. AtPlace(C, text, e.el, e.ec)
    BY <2>3, <1>0, RowAtPlace
  <2>6. Offset(text, e.el, e.ec) <= Len(Row(text))
    BY <2>5 DEF AtPlace
  <2>7. Sooner(e.sl, e.sc, e.el, e.ec) \/ (e.sl = e.el /\ e.sc <= e.ec)
    BY <2>2 DEF Placed, Sooner
  <2>8. /\ Offset(text, e.sl, e.sc) \in Nat /\ Offset(text, e.el, e.ec) \in Nat
        /\ Offset(text, e.sl, e.sc) <= Offset(text, e.el, e.ec)
    BY <2>4, <2>7 DEF OffsetsIn
  <2>9. Row(e.new) \in Seq(C)
    <3>1. e.new \in Seq(Seq(C)) /\ e.new # <<>>
      BY <2>2, EditFields
    <3> QED
      BY <3>1, RowIs
  <2> QED
    BY <2>1, <2>6, <2>8, <2>9, <1>3
<1>6. Cuts(C, n, starts, ends, news)
  <2>1. starts \in [1..n -> Int] /\ ends \in [1..n -> Int] /\ news \in [1..n -> Seq(C)]
    BY <1>4, <1>5
  <2> QED
    BY <2>1, <1>4 DEF Cuts
<1> QED
  BY <1>2, <1>5, <1>6 DEF CutsOf, n, starts, ends, news

(* If they do not overlap they are apart in it.                            *)
LEMMA EditsApart ==
  ASSUME NEW C, NewLine \in C, NEW text, text # <<>>, NEW edits, EditsWithin(C, text, edits),
         ~Overlapping(edits), NEW order, TextOrder(edits, order)
  PROVE  Apart(order, Len(edits), StartsAt(text, edits), EndsAt(text, edits), Len(Row(text)))
<1> DEFINE n == Len(edits)
           starts == StartsAt(text, edits)
           ends == EndsAt(text, edits)
<1>0. text \in Seq(Seq(C)) /\ edits \in Seq(EditOf(C)) /\ \A i \in 1..n : Placed(text, edits[i])
  BY DEF EditsWithin
<1>1. CutsOf(C, text, edits)
  BY CutsOfEdits
<1>2. \A k \in 1..n : starts[k] \in Nat /\ ends[k] \in Nat /\ starts[k] <= ends[k] /\ ends[k] <= Len(Row(text))
  BY <1>1 DEF CutsOf
<1>3. \A k \in 1..n : starts[k] = Offset(text, edits[k].sl, edits[k].sc) /\ ends[k] = Offset(text, edits[k].el, edits[k].ec)
  BY DEF StartsAt, EndsAt
<1>4. \A k, m \in 1..n : k < m => Sooner(edits[order[m]].el, edits[order[m]].ec, edits[order[k]].sl, edits[order[k]].sc)
  BY <1>0, EndsBeforeStarts
<1>5. \A k \in 1..n : order[k] \in 1..n
  BY DEF TextOrder, InTurn
<1> HIDE DEF n, starts, ends
<1>6. ASSUME NEW k \in 1..n, NEW m \in 1..n, k < m
      PROVE  ends[order[m]] <= starts[order[k]] /\ starts[order[m]] < starts[order[k]]
  <2>1. PICK a, b : a = edits[order[m]] /\ b = edits[order[k]]
    OBVIOUS
  <2>2. Placed(text, a) /\ Placed(text, b) /\ Sooner(a.el, a.ec, b.sl, b.sc)
    BY <2>1, <1>0, <1>4, <1>5, <1>6
  <2>3. Place(text, a.el, a.ec) /\ Place(text, b.sl, b.sc)
    BY <2>2 DEF Placed
  <2>4. OffsetsIn(text, a.el, a.ec, b.sl, b.sc)
    BY <2>3, <1>0, OffsetsGrow
  <2>5. Offset(text, a.el, a.ec) < Offset(text, b.sl, b.sc)
    BY <2>2, <2>4 DEF OffsetsIn
  <2>6. ends[order[m]] < starts[order[k]]
    BY <2>1, <2>5, <1>3, <1>5
  <2>7. PICK p \in Nat, q \in Nat, r \in Nat : p = starts[order[m]] /\ q = ends[order[m]] /\ r = starts[order[k]]
    BY <1>2, <1>5
  <2>8. p <= q
    BY <2>7, <1>2, <1>5
  <2> QED
    BY <2>6, <2>7, <2>8
<1> QED
  BY <1>2, <1>6 DEF Apart, n, starts, ends

(* An empty last line ends the row with a newline.                         *)
LEMMA RowAppended ==
  ASSUME NEW C, NewLine \in C, NEW x \in Seq(Seq(C)), x # <<>>
  PROVE  Row(Append(x, <<>>)) = Append(Row(x), NewLine)
<1> DEFINE n == Len(x)
           a == Top(x, n - 1)
           y == x[n]
<1>1. n \in Nat \ {0}
  BY EmptySeq
<1>2. n \in 1..n
  BY <1>1
<1>3. /\ Row(x) = Terminated(a) \o y /\ Row(x) \in Seq(C)
      /\ a \in Seq(Seq(C)) /\ Terminated(a) \in Seq(C) /\ y \in Seq(C)
  BY RowIs
<1>4. x = Append(a, y)
  <2>1. Top(x, n) = Append(a, y)
    BY <1>2, TopOneMore
  <2>2. Top(x, n) = x
    BY Whole
  <2> QED
    BY <2>1, <2>2
<1> HIDE DEF a, y, n
<1>5. Terminated(x) = Terminated(a) \o (y \o <<NewLine>>)
  <2>1. Terminated(Append(a, y)) = Terminated(a) \o (y \o <<NewLine>>)
    BY <1>3, TerminatedOneMore
  <2> QED
    BY <2>1, <1>4
<1>6. (Terminated(a) \o y) \o <<NewLine>> = Terminated(a) \o (y \o <<NewLine>>)
  <2>1. \A p, q, r \in Seq(C) : (p \o q) \o r = p \o (q \o r)
    <3>1. Associative(C)
      BY Associates
    <3> QED
      BY <3>1 DEF Associative
  <2>2. <<NewLine>> \in Seq(C)
    OBVIOUS
  <2> QED
    BY ONLY <2>1, <2>2, <1>3
<1>7. <<>> \in Seq(C) /\ << <<>> >> \in Seq(Seq(C)) /\ << <<>> >> # <<>>
  OBVIOUS
<1>8. Row(<< <<>> >>) = <<>>
  BY <1>7, RowOne
<1>9. Append(x, <<>>) = x \o << <<>> >>
  BY <1>7, AppendIsConcat
<1>10. Row(x \o << <<>> >>) = Terminated(x) \o <<>>
  BY <1>7, <1>8, RowBoth
<1>11. Terminated(x) \in Seq(C) /\ Terminated(x) \o <<>> = Terminated(x)
  BY TerminatedIs, ConcatEmptySeq
<1>12. Append(Row(x), NewLine) = Row(x) \o <<NewLine>>
  BY <1>3, AppendIsConcat
<1> QED
  BY <1>3, <1>5, <1>6, <1>9, <1>10, <1>11, <1>12

(* No edit empties its lines.                                              *)
NoneEmpties(text, edits) == \A i \in 1..Len(edits) : ~EmptiesLine(text, edits[i])

(* Applied one by one the edits do what they mean.                         *)
AsMeant(text, edits) ==
  /\ ApplyTextEdits(text, edits).ok
  /\ NoneEmpties(text, edits) => SameText(ApplyTextEdits(text, edits).text, Meaning(text, edits), text)

(* ApplyTextEdits does so.                                                 *)
LEMMA AppliedAsMeant ==
  ASSUME NEW C, NewLine \in C, NEW text, text # <<>>, NEW edits, EditsWithin(C, text, edits), ~Overlapping(edits)
  PROVE  AsMeant(text, edits)
<1> DEFINE n == Len(edits)
           order == LastFirst(StartsOf(edits))
           starts == StartsAt(text, edits)
           ends == EndsAt(text, edits)
           news == NewRows(edits)
<1>0. text \in Seq(Seq(C)) /\ edits \in Seq(EditOf(C)) /\ n \in Nat
  BY LenProperties DEF EditsWithin
<1>1. TextOrder(edits, order)
  BY <1>0, TextOrderExists
<1>2. CutsOf(C, text, edits)
  BY CutsOfEdits
<1>3. Meaning(text, edits) = Replaced(Row(text), starts, ends, news)
  BY DEF Meaning, StartsAt, EndsAt, NewRows
<1>4. \A k \in 1..n : /\ starts[k] = Offset(text, edits[k].sl, edits[k].sc)
                      /\ ends[k] = Offset(text, edits[k].el, edits[k].ec) /\ news[k] = Row(edits[k].new)
  BY DEF StartsAt, EndsAt, NewRows
<1> HIDE DEF order
<1>5. Apart(order, n, starts, ends, Len(Row(text)))
  BY <1>1, EditsApart
<1>6. Cuts(C, n, starts, ends, news) /\ Row(text) \in Seq(C)
  BY <1>2 DEF CutsOf
<1>7. InTurn(order, n) /\ \A k \in 1..n : order[k] \in 1..n
  BY <1>1 DEF TextOrder, InTurn
<1>8. CanRun(n, C, text, edits, order)
  BY <1>1, EditsRun
<1>9. PICK f : TextsRun(f, n, C, text, edits, order)
  BY <1>8 DEF CanRun
<1>10. ApplyTextEdits(text, edits) = Text(Joined(text, f[n]))
  BY <1>0, <1>1, <1>9, ApplyTextEditsRuns
<1>11. f[0] = text /\ (\A k \in 0..n : f[k] \in Seq(Seq(C))) /\ \A k \in 1..n : TextStep(C, f[k - 1], text, edits[order[k]], f[k])
  BY <1>9 DEF TextsRun
<1> HIDE DEF starts, ends, news, n
<1>12. ReplacedInSteps(C, n, order, starts, ends, news, Row(text))
  BY <1>0, <1>5, <1>6, <1>7, ReplacedInTurn
<1>13. PICK t : Ending(t, C, n, order, starts, ends, news, Row(text))
  BY <1>12 DEF ReplacedInSteps
<1>14. /\ t[0] = Row(text) /\ t[n] = Replaced(Row(text), starts, ends, news)
       /\ \A k \in 1..n : t[k] = Rewrite(t[k - 1], news[order[k]], starts[order[k]], ends[order[k]])
  BY <1>13 DEF Ending, Rewrites
<1>15. ASSUME NoneEmpties(text, edits)
       PROVE  SameText(Joined(text, f[n]), Meaning(text, edits), text)
  <2> DEFINE S == {k \in 0..n : f[k] # <<>> /\ Row(f[k]) = t[k]}
  <2>0. \A i \in 1..n : ~EmptiesLine(text, edits[i])
    BY <1>15 DEF NoneEmpties, n
  <2>1. 0 \in S
    BY <1>0, <1>11, <1>14
  <2>2. \A k \in 0..(n - 1) : k \in S => k + 1 \in S
    <3> SUFFICES ASSUME NEW k \in 0..(n - 1), Row(f[k]) = t[k] PROVE f[k + 1] # <<>> /\ Row(f[k + 1]) = t[k + 1]
      <4>1. \A i \in 0..(n - 1) : i + 1 \in 0..n
        BY <1>0
      <4> QED
        BY <4>1
    <3>1. PICK m \in 1..n : m = k + 1
      BY <1>0
    <3>2. m - 1 = k /\ order[m] \in 1..n
      BY <3>1, <1>0, <1>7
    <3>3. PICK e : e = edits[order[m]]
      OBVIOUS
    <3>4. TextStep(C, f[k], text, e, f[m])
      BY <3>2, <3>3, <1>11
    <3>5. ~EmptiesLine(text, e)
      BY <3>2, <3>3, <2>0
    <3>6. f[m] # <<>> /\ Row(f[m]) = Rewrite(Row(f[k]), Row(e.new), Offset(text, e.sl, e.sc), Offset(text, e.el, e.ec))
      BY <3>4, <3>5 DEF TextStep
    <3>7. t[m] = Rewrite(t[k], Row(e.new), Offset(text, e.sl, e.sc), Offset(text, e.el, e.ec))
      BY <3>2, <3>3, <1>4, <1>14
    <3> QED
      BY <3>1, <3>6, <3>7
  <2> HIDE DEF S
  <2>3. \A k \in 0..n : k \in S
    BY <1>0, <2>1, <2>2, Upward
  <2>4. n \in S /\ n \in 0..n
    BY <1>0, <2>3
  <2>5. f[n] # <<>> /\ Row(f[n]) = Meaning(text, edits) /\ f[n] \in Seq(Seq(C))
    BY <2>4, <1>3, <1>11, <1>14 DEF S
  <2>6. \/ Joined(text, f[n]) = f[n]
        \/ Len(text) > 1 /\ text[Len(text)] = <<>> /\ Joined(text, f[n]) = Append(f[n], <<>>)
    BY <2>5 DEF Joined
  <2>7. Row(Append(f[n], <<>>)) = Append(Row(f[n]), NewLine)
    BY <2>5, RowAppended
  <2> QED
    BY <2>5, <2>6, <2>7 DEF SameText
<1>16. ApplyTextEdits(text, edits).ok /\ ApplyTextEdits(text, edits).text = Joined(text, f[n])
  BY <1>10 DEF Text, n
<1> QED
  BY <1>15, <1>16 DEF AsMeant
-----------------------------------------------------------------------------
(* What an edit replaces, and edits that change nothing.                   *)

LEMMA RowsBetween ==
  ASSUME NEW p \in Nat, NEW q \in Nat, NEW n \in Nat, p < q, q + 1 \in 1..n
  PROVE  /\ \A i \in (p + 2)..q : i \in 1..n
         /\ p + 2 \in Int /\ q \in Int /\ p + 1 \in 1..n /\ q \in (p + 1)..n /\ (p + 1) + 1 = p + 2
         /\ p \in 0..q /\ q \in 0..n
OBVIOUS

Four(C, a, h, w, u) ==
  (a \o (h \o w)) \o u = (a \o h) \o (w \o u) /\ w \o u \in Seq(C)

(* A concatenation of four, from two sides.                                *)
LEMMA FourParts ==
  ASSUME NEW C, NEW a \in Seq(C), NEW h \in Seq(C), NEW w \in Seq(C), NEW u \in Seq(C)
  PROVE  Four(C, a, h, w, u)
<1>1. \A x, y, z \in Seq(C) : (x \o y) \o z = x \o (y \o z)
  <2>1. Associative(C)
    BY Associates
  <2> QED
    BY <2>1 DEF Associative
<1>2. h \o w \in Seq(C) /\ w \o u \in Seq(C)
  BY ConcatProperties
<1>3. \A q \in Seq(C) : (a \o q) \o u = a \o (q \o u)
  BY <1>1
<1>4. \A q \in Seq(C) : (a \o h) \o q = a \o (h \o q)
  BY <1>1
<1>5. (h \o w) \o u = h \o (w \o u)
  BY <1>1
<1>6. (a \o (h \o w)) \o u = a \o ((h \o w) \o u)
  BY ONLY <1>2, <1>3, Zenon
<1>7. (a \o h) \o (w \o u) = a \o (h \o (w \o u))
  BY ONLY <1>2, <1>4, Zenon
<1> QED
  <2>1. (a \o (h \o w)) \o u = (a \o h) \o (w \o u)
    BY ONLY <1>5, <1>6, <1>7, Zenon
  <2> QED
    BY <1>2, <2>1 DEF Four

(* The row of the old text is that part of the row.                        *)
LEMMA OldRow ==
  ASSUME NEW C, NewLine \in C, NEW text \in Seq(Seq(C)), NEW e, Placed(text, e)
  PROVE  Row(OldText(text, e)) = SubSeq(Row(text), Offset(text, e.sl, e.sc) + 1, Offset(text, e.el, e.ec))
<1>1. Place(text, e.sl, e.sc) /\ Place(text, e.el, e.ec)
  BY DEF Placed
<1>2. /\ Parts(C, text, e.sl, e.sc) /\ Parts(C, text, e.el, e.ec) /\ AtPlace(C, text, e.sl, e.sc)
      /\ AtPlace(C, text, e.el, e.ec) /\ OffsetsIn(text, e.sl, e.sc, e.el, e.ec)
  BY <1>1, PlaceHasParts, RowAtPlace, OffsetsGrow
<1> DEFINE P == Pre(text, e.sl, e.sc)
           Q == Pre(text, e.el, e.ec)
           row == Row(text)
           os == Offset(text, e.sl, e.sc)
           oe == Offset(text, e.el, e.ec)
           a == Terminated(Top(text, e.sl))
           h == Top(text[e.sl + 1], e.sc)
           d == Rest(text[e.sl + 1], e.sc)
           u == Top(text[e.el + 1], e.ec)
           o == Row(OldText(text, e))
<1>3. /\ P \in Seq(C) /\ Len(P) = os /\ Q \in Seq(C) /\ Len(Q) = oe /\ row \in Seq(C)
      /\ os \in 0..Len(row) /\ oe \in 0..Len(row) /\ Top(row, oe) = Q /\ Top(row, os) = P
  BY <1>2 DEF AtPlace
<1>4. os \in Nat /\ oe \in Nat /\ os <= oe
  <2>1. Sooner(e.sl, e.sc, e.el, e.ec) \/ (e.sl = e.el /\ e.sc <= e.ec)
    BY DEF Placed, Sooner
  <2>2. os \in Nat /\ oe \in Nat /\ (os < oe \/ os <= oe)
    BY <2>1, <1>2 DEF OffsetsIn
  <2> HIDE DEF os, oe
  <2> QED
    BY <2>2
<1>5. /\ a \in Seq(C) /\ h \in Seq(C) /\ d \in Seq(C) /\ h \o d = text[e.sl + 1] /\ text[e.sl + 1] \in Seq(C)
      /\ e.sl \in Nat /\ e.sc \in Nat /\ Len(text) \in Nat /\ e.sl + 1 \in 1..Len(text) /\ e.sl \in 0..Len(text)
      /\ Len(text[e.sl + 1]) \in Nat /\ e.sc \in 0..Len(text[e.sl + 1]) /\ Top(text, e.sl) \in Seq(Seq(C))
  BY <1>2 DEF Parts
<1>6. /\ u \in Seq(C) /\ text[e.el + 1] \in Seq(C) /\ Len(text[e.el + 1]) \in Nat /\ Len(u) = e.ec
      /\ e.el \in Nat /\ e.ec \in Nat /\ e.ec \in 0..Len(text[e.el + 1]) /\ e.el \in 0..Len(text)
      /\ e.el + 1 \in 1..Len(text)
  BY <1>2 DEF Parts
<1>7. P = a \o h /\ Q = Terminated(Top(text, e.el)) \o u
  BY DEF Pre
<1>8. Take(text[e.el + 1], e.ec) = u
  <2>1. ~(e.ec > Len(text[e.el + 1]))
    BY <1>6
  <2> QED
    BY <2>1 DEF Take, Top
<1>9. \A p, q, r \in Seq(C) : (p \o q) \o r = p \o (q \o r)
  <2>1. Associative(C)
    BY Associates
  <2> QED
    BY <2>1 DEF Associative
<1>10. o \in Seq(C) /\ Q = P \o o
  <2>1. CASE e.sl = e.el
    <3> DEFINE v == SubSeq(u, e.sc + 1, e.ec)
    <3>1. e.sc <= e.ec
      BY <2>1, <1>5 DEF Placed
    <3>2. v = Rest(u, e.sc)
      BY <1>6 DEF Rest
    <3>3. e.sc \in 0..Len(u) /\ e.sc \in 0..e.ec
      BY <3>1, <1>5, <1>6
    <3> HIDE DEF v
    <3>4. v \in Seq(C) /\ Top(u, e.sc) \o v = u
      BY <3>2, <3>3, <1>6, RestIs, TopAndRest
    <3>5. Top(u, e.sc) = h
      BY <2>1, <3>3, <1>5, <1>6, TopOfTop
    <3>6. OldText(text, e) = <<v>>
      BY <2>1, <1>8 DEF OldText, v
    <3>7. o = v
      <4>1. Row(<<v>>) = v
        BY <3>4, RowOne
      <4> QED
        BY <4>1, <3>6
    <3>8. Q = a \o u
      BY <2>1, <1>7
    <3> HIDE DEF P, Q, a, h, u, o
    <3>9. (a \o h) \o v = a \o (h \o v)
      BY ONLY <1>9, <1>5, <3>4
    <3> QED
      BY <3>4, <3>5, <3>7, <3>8, <3>9, <1>7
  <2>2. CASE e.sl # e.el
    <3> DEFINE M == SubSeq(text, e.sl + 2, e.el)
               y == Top(text, e.el)
               z == <<d>> \o M
    <3>1. e.sl < e.el
      BY <2>2, <1>5 DEF Placed
    <3>0. /\ \A i \in (e.sl + 2)..e.el : i \in 1..Len(text)
          /\ e.sl + 2 \in Int /\ e.el \in Int /\ e.sl + 1 \in 1..Len(text)
          /\ e.el \in (e.sl + 1)..Len(text) /\ (e.sl + 1) + 1 = e.sl + 2 /\ e.sl \in 0..e.el /\ e.el \in 0..Len(text)
      <4>1. e.sl \in Nat /\ e.el \in Nat /\ Len(text) \in Nat /\ e.el + 1 \in 1..Len(text)
        BY <1>5, <1>6
      <4> QED
        BY ONLY <4>1, <3>1, RowsBetween
    <3>2. M \in Seq(Seq(C))
      <4>1. \A i \in (e.sl + 2)..e.el : text[i] \in Seq(C)
        BY <3>0, ElementOfSeq
      <4> QED
        BY <4>1, <3>0, SubSeqProperties
    <3>3. SubSeq(text, e.sl + 1, e.el) = <<text[e.sl + 1]>> \o M
      <4>1. SubSeq(text, e.sl + 1, e.el) = <<text[e.sl + 1]>> \o SubSeq(text, (e.sl + 1) + 1, e.el)
        BY <3>0, SubSeqRecursiveFirst
      <4> QED
        BY <4>1, <3>0
    <3>4. y = Top(text, e.sl) \o (<<text[e.sl + 1]>> \o M)
      <4>1. e.sl \in 0..e.el
        BY <3>0
      <4>2. Top(y, e.sl) = Top(text, e.sl) /\ Rest(y, e.sl) = SubSeq(text, e.sl + 1, e.el)
        BY <4>1, <1>6, TopOfTop
      <4>3. y \in Seq(Seq(C)) /\ Len(y) = e.el
        BY <1>6, TopIs
      <4> HIDE DEF y
      <4>4. e.sl \in 0..Len(y)
        BY <4>1, <4>3
      <4>5. Top(y, e.sl) \o Rest(y, e.sl) = y
        BY <4>3, <4>4, TopAndRest
      <4> QED
        BY <4>2, <4>5, <3>3
    <3>5. OldText(text, e) = z \o <<u>>
      <4>1. Drop(text[e.sl + 1], e.sc) = d
        BY DEF Drop, Rest
      <4> QED
        BY <2>2, <4>1, <1>8 DEF OldText
    <3> HIDE DEF M, y
    <3>6. <<text[e.sl + 1]>> \o M \in Seq(Seq(C)) /\ z \in Seq(Seq(C)) /\ <<u>> \in Seq(Seq(C)) /\ <<u>> # <<>>
      BY <3>2, <1>5, <1>6, ConcatProperties
    <3>7. Terminated(y) = a \o Terminated(<<text[e.sl + 1]>> \o M)
      <4>1. Terminated(Top(text, e.sl) \o (<<text[e.sl + 1]>> \o M)) = a \o Terminated(<<text[e.sl + 1]>> \o M)
        BY <3>6, <1>5, TerminatedBoth
      <4> QED
        BY <4>1, <3>4
    <3>8. Q = Terminated(y) \o u
      BY <1>7 DEF y
    <3>9. o = Terminated(z) \o u
      <4>1. Row(<<u>>) = u
        BY <1>6, RowOne
      <4>2. Row(z \o <<u>>) = Terminated(z) \o Row(<<u>>)
        BY <3>6, RowBoth
      <4> QED
        BY <4>1, <4>2, <3>5
    <3> HIDE DEF P, Q, a, h, d, u, o
    <3>10. Prefixed(C, h, d, M)
      BY <3>2, <1>5, RowOfPrefixed
    <3>11. Terminated(<<text[e.sl + 1]>> \o M) = h \o Terminated(z)
      <4>1. Terminated(<<h \o d>> \o M) = h \o Terminated(<<d>> \o M)
        BY <3>10 DEF Prefixed
      <4> QED
        BY <4>1, <1>5
    <3>12. Terminated(z) \in Seq(C)
      BY <3>6, TerminatedIs
    <3> HIDE DEF z
    <3> DEFINE w == Terminated(z)
    <3>13. w \in Seq(C) /\ o = w \o u /\ Q = (a \o (h \o w)) \o u
      BY <3>7, <3>8, <3>9, <3>11, <3>12
    <3> HIDE DEF w
    <3>14. a \in Seq(C) /\ h \in Seq(C) /\ u \in Seq(C) /\ w \in Seq(C)
      BY <1>5, <1>6, <3>13
    <3>15. Four(C, a, h, w, u)
      BY <3>14, FourParts
    <3>16. (a \o (h \o w)) \o u = (a \o h) \o (w \o u) /\ w \o u \in Seq(C)
      BY <3>15 DEF Four
    <3> QED
      BY <3>13, <3>16, <1>7
  <2> QED
    BY <2>1, <2>2
<1>11. SubSeq(row, os + 1, oe) = Rest(Q, os)
  <2> HIDE DEF row, os, oe, Q
  <2>1. os \in 0..oe
    BY <1>4
  <2>2. Rest(Top(row, oe), os) = SubSeq(row, os + 1, oe)
    BY <2>1, <1>3, TopOfTop
  <2> QED
    BY <2>2, <1>3
<1>12. Rest(Q, os) = o
  <2> HIDE DEF P, Q, o, os
  <2>1. Len(P) \in 0..Len(P)
    BY <1>3, <1>4
  <2>2. Rest(P \o o, Len(P)) = Rest(P, Len(P)) \o o
    BY <2>1, <1>3, <1>10, RestOfConcat
  <2>3. Rest(P, Len(P)) = <<>> /\ <<>> \o o = o
    BY <1>3, <1>10, Whole, ConcatEmptySeq
  <2> QED
    BY <2>2, <2>3, <1>3, <1>10
<1> QED
  BY <1>11, <1>12
-----------------------------------------------------------------------------
(* Edits that put back what they replace may be left out.                  *)
Part(phi, m, n, starts1, ends1, news1, starts, ends, news) ==
  /\ phi \in [1..m -> 1..n] /\ \A i, j \in 1..m : i # j => phi[i] # phi[j]
  /\ \A j \in 1..m : starts1[j] = starts[phi[j]] /\ ends1[j] = ends[phi[j]] /\ news1[j] = news[phi[j]]

Left(phi, m, j, i) == (j \in 1..m /\ phi[j] = i) \/ (j = 0 /\ \A k \in 1..m : phi[k] # i)

(* What is clear of all edits is clear of a part of them.                  *)
LEMMA ClearPart ==
  ASSUME NEW m \in Nat, NEW n \in Nat, NEW phi, NEW starts1, NEW ends1, NEW news1, NEW starts, NEW ends, NEW news,
         Part(phi, m, n, starts1, ends1, news1, starts, ends, news), NEW i, NEW j, Left(phi, m, j, i),
         NEW a, NEW c, AllClear(starts, ends, n, i, a, c)
  PROVE  AllClear(starts1, ends1, m, j, a, c)
<1>1. ASSUME NEW k \in 1..m, k # j PROVE Clear(starts1, ends1, k, a, c)
  <2>1. phi[k] \in 1..n /\ starts1[k] = starts[phi[k]] /\ ends1[k] = ends[phi[k]]
    BY DEF Part
  <2>2. phi[k] # i
    BY <1>1 DEF Left, Part
  <2>3. Clear(starts, ends, phi[k], a, c)
    BY <2>1, <2>2 DEF AllClear
  <2> QED
    BY <2>1, <2>3 DEF Clear
<1> QED
  BY <1>1 DEF AllClear

(* What the edits are from one bound to the next.                          *)
Bounded(order, n, starts, ends, len) ==
  /\ \A k \in 0..n : Bound(order, starts, len, k) \in 0..len
  /\ \A k \in 1..n :
       /\ order[k] \in 1..n /\ Bound(order, starts, len, k) = starts[order[k]]
       /\ ends[order[k]] \in Bound(order, starts, len, k)..Bound(order, starts, len, k - 1)
       /\ Bound(order, starts, len, k) \in 0..Bound(order, starts, len, k - 1)

(* The bounds go down the row.                                             *)
LEMMA InBounds ==
  ASSUME NEW n \in Nat, NEW order, NEW starts, NEW ends, NEW len \in Nat, InTurn(order, n),
         Apart(order, n, starts, ends, len)
  PROVE  Bounded(order, n, starts, ends, len)
<1> DEFINE B(k) == Bound(order, starts, len, k)
<1>1. \A k \in 1..n : /\ order[k] \in 1..n /\ starts[order[k]] \in Nat /\ ends[order[k]] \in Nat
                      /\ starts[order[k]] <= ends[order[k]] /\ ends[order[k]] <= len
  <2> TAKE k \in 1..n
  <2>1. order[k] \in 1..n
    BY DEF InTurn
  <2> QED
    BY <2>1 DEF Apart
<1>2. \A k \in 1..n : B(k) = starts[order[k]]
  BY DEF Bound
<1>3. \A k \in 0..n : B(k) \in 0..len
  <2> TAKE k \in 0..n
  <2>1. CASE k = 0
    BY <2>1 DEF Bound
  <2>2. CASE k # 0
    <3>1. k \in 1..n
      BY <2>2
    <3> HIDE DEF B
    <3>2. /\ B(k) \in Nat /\ ends[order[k]] \in Nat /\ B(k) <= ends[order[k]] /\ ends[order[k]] <= len
      BY <3>1, <1>1, <1>2
    <3> QED
      BY <3>2
  <2> QED
    BY <2>1, <2>2
<1>4. \A k \in 1..n : ends[order[k]] \in B(k)..B(k - 1) /\ B(k) \in 0..B(k - 1)
  <2> TAKE k \in 1..n
  <2>1. /\ B(k) \in Nat /\ ends[order[k]] \in Nat /\ B(k) <= ends[order[k]] /\ ends[order[k]] <= len
    BY <1>1, <1>2
  <2>2. ends[order[k]] <= B(k - 1)
    <3>1. CASE k = 1
      BY <3>1, <2>1 DEF Bound
    <3>2. CASE k # 1
      <4>1. k - 1 \in 1..n /\ k - 1 < k
        BY <3>2
      <4>2. ends[order[k]] <= starts[order[k - 1]]
        BY <4>1 DEF Apart
      <4> QED
        BY <4>1, <4>2, <1>2
    <3> QED
      BY <3>1, <3>2
  <2>3. k - 1 \in 0..n
    OBVIOUS
  <2>4. B(k - 1) \in 0..len
    BY <2>3, <1>3
  <2> HIDE DEF B
  <2> QED
    BY <2>1, <2>2, <2>4
<1> QED
  BY <1>1, <1>2, <1>3, <1>4 DEF Bounded

(* Before all of them.                                                     *)
LEMMA BeforeAll ==
  ASSUME NEW n \in Nat, NEW order, NEW starts, NEW ends, NEW row, Len(row) \in Nat, InTurn(order, n),
         Apart(order, n, starts, ends, Len(row))
  PROVE  Untouched(starts, ends, n, 0, Bound(order, starts, Len(row), n), row)
<1> DEFINE L == Len(row)
           B(k) == Bound(order, starts, L, k)
<1>1. Bounded(order, n, starts, ends, L)
  BY InBounds
<1>2. \A k \in 1..n : order[k] \in 1..n /\ B(k) = starts[order[k]]
  BY <1>1 DEF Bounded
<1>3. n \in 0..n /\ B(n) \in 0..L
  <2>1. n \in 0..n
    OBVIOUS
  <2> QED
    BY <2>1, <1>1 DEF Bounded
<1>4. \A j \in 1..n : starts[j] \in Nat
  BY DEF Apart
<1>5. ASSUME NEW j \in 1..n PROVE B(n) <= starts[j]
  <2>1. PICK i \in 1..n : order[i] = j
    BY DEF InTurn
  <2>2. n \in 1..n /\ B(n) = starts[order[n]] /\ order[n] \in 1..n
    <3>1. n \in 1..n
      OBVIOUS
    <3> QED
      BY <3>1, <1>2
  <2> HIDE DEF B
  <2>3. CASE i = n
    BY <2>1, <2>2, <2>3, <1>4
  <2>4. CASE i < n
    <3>1. starts[order[n]] < starts[order[i]]
      BY <2>2, <2>4 DEF Apart
    <3> QED
      BY <3>1, <2>1, <2>2, <1>4
  <2> QED
    BY <2>3, <2>4
<1>6. AllClear(starts, ends, n, 0, 0, B(n))
  BY <1>5 DEF AllClear, Clear
<1> HIDE DEF B
<1>7. B(n) \in Nat /\ 0 <= B(n) /\ B(n) <= L
  BY <1>3
<1> QED
  BY <1>6, <1>7 DEF Untouched, B

(* The edits of one start.                                                 *)
LEMMA OneEach ==
  ASSUME NEW n \in Nat, NEW order, NEW starts, NEW ends, NEW len, InTurn(order, n), Apart(order, n, starts, ends, len),
         NEW i \in 1..n, NEW j \in 1..n, i # j
  PROVE  starts[i] # starts[j]
<1>1. PICK k \in 1..n, m \in 1..n : order[k] = i /\ order[m] = j
  BY DEF InTurn
<1>2. starts[i] \in Nat /\ starts[j] \in Nat
  BY DEF Apart
<1>3. k < m \/ m < k
  BY <1>1
<1>4. starts[order[m]] < starts[order[k]] \/ starts[order[k]] < starts[order[m]]
  BY <1>3 DEF Apart
<1> QED
  BY <1>1, <1>2, <1>4

Idle(row, starts, ends, news, k) == news[k] = SubSeq(row, starts[k] + 1, ends[k])

(* Each edit is one of the part, or puts back what it replaces.            *)
RestIdle(phi, m, n, row, starts, ends, news) ==
  \A k \in 1..n : (\E j \in 1..m : phi[j] = k) \/ Idle(row, starts, ends, news, k)

(* At the end of the row.                                                  *)
LEMMA EndAlike ==
  ASSUME NEW C, NEW m \in Nat, NEW n \in Nat, NEW order, NEW phi, NEW row, Len(row) \in Nat,
         NEW starts1, NEW ends1, NEW news1, NEW starts, NEW ends, NEW news,
         Cuts(C, n, starts, ends, news), Cuts(C, m, starts1, ends1, news1),
         Part(phi, m, n, starts1, ends1, news1, starts, ends, news), RestIdle(phi, m, n, row, starts, ends, news),
         InTurn(order, n), Apart(order, n, starts, ends, Len(row))
  PROVE  Inserted(starts1, news1, Len(row)) = Inserted(starts, news, Len(row))
<1> DEFINE L == Len(row)
<1>1. \A j \in 1..m : phi[j] \in 1..n /\ starts1[j] = starts[phi[j]] /\ news1[j] = news[phi[j]]
  BY DEF Part
<1>2. CASE \A k \in 1..n : starts[k] # L
  <2>1. NoStart(starts, n, 0, L) /\ NoStart(starts1, m, 0, L)
    BY <1>1, <1>2 DEF NoStart
  <2>2. Inserted(starts, news, L) = <<>>
    BY <2>1, NoneInserted
  <2>3. Inserted(starts1, news1, L) = <<>>
    BY <2>1, NoneInserted
  <2> QED
    BY <2>2, <2>3
<1>3. CASE \E i \in 1..n : starts[i] = L
  <2>1. PICK i \in 1..n : starts[i] = L
    BY <1>3
  <2>2. ASSUME NEW k \in 1..n, k # i PROVE starts[k] # L
    <3>1. starts[k] # starts[i]
      BY <2>2, OneEach
    <3> QED
      BY <3>1, <2>1
  <2>3. OneStart(starts, n, i, L)
    BY <2>1, <2>2 DEF OneStart, NoStart
  <2>4. Inserted(starts, news, L) = news[i]
    BY <2>3, OneInserted
  <2>5. CASE \E j \in 1..m : phi[j] = i
    <3>1. PICK j \in 1..m : phi[j] = i
      BY <2>5
    <3>2. ASSUME NEW k \in 1..m, k # j PROVE starts1[k] # L
      <4>1. phi[k] # i
        BY <3>1, <3>2 DEF Part
      <4> QED
        BY <4>1, <1>1, <2>2
    <3>3. OneStart(starts1, m, j, L)
      BY <1>1, <2>1, <3>1, <3>2 DEF OneStart, NoStart
    <3>4. Inserted(starts1, news1, L) = news1[j]
      BY <3>3, OneInserted
    <3> QED
      BY <1>1, <2>4, <3>1, <3>4
  <2>6. CASE ~\E j \in 1..m : phi[j] = i
    <3>1. ASSUME NEW k \in 1..m PROVE starts1[k] # L
      <4>1. phi[k] # i
        BY <2>6
      <4> QED
        BY <4>1, <1>1, <2>2
    <3>2. NoStart(starts1, m, 0, L)
      BY <3>1 DEF NoStart
    <3>3. Inserted(starts1, news1, L) = <<>>
      BY <3>2, NoneInserted
    <3>4. news[i] = SubSeq(row, L + 1, ends[i])
      BY <2>1, <2>6 DEF RestIdle, Idle
    <3>5. ends[i] = L
      <4>1. starts[i] \in Nat /\ ends[i] \in Nat /\ starts[i] <= ends[i] /\ ends[i] <= L
        BY DEF Apart
      <4> QED
        BY <4>1, <2>1
    <3>6. SubSeq(row, L + 1, L) = <<>>
      BY SubSeqEmpty
    <3> QED
      BY <2>4, <3>3, <3>4, <3>5, <3>6
  <2> QED
    BY <2>5, <2>6
<1> QED
  BY <1>2, <1>3

(* From one bound to the next.                                             *)
InRow(row, b, d, c) == b \in Nat /\ d \in Nat /\ c \in Nat /\ b <= d /\ d <= c /\ c <= Len(row)

IsPutBack(row, x, b, d, c) == SubSeq(row, b + 1, d) \o (SubSeq(row, d + 1, c) \o x) = SubSeq(row, b + 1, c) \o x

(* So the row comes unchanged.                                             *)
LEMMA PutBack ==
  ASSUME NEW C, NEW row, row \in Seq(C), NEW x, x \in Seq(C), NEW b, NEW d, NEW c, InRow(row, b, d, c)
  PROVE  IsPutBack(row, x, b, d, c)
<1>0. b \in Nat /\ d \in Nat /\ c \in Nat /\ b <= d /\ d <= c /\ c <= Len(row)
  BY DEF InRow
<1> USE <1>0
<1>1. Len(row) \in Nat
  BY LenProperties
<1>2. b + 1 \in 1..(Len(row) + 1) /\ d \in ((b + 1) - 1)..Len(row) /\ c \in d..Len(row)
  BY <1>1
<1>3. SubSeq(row, b + 1, d) \o SubSeq(row, d + 1, c) = SubSeq(row, b + 1, c)
  BY <1>2, ConcatAdjacentSubSeq
<1>4. \A i \in (b + 1)..d : i \in 1..Len(row)
  BY <1>1
<1>5. \A i \in (d + 1)..c : i \in 1..Len(row)
  BY <1>1
<1>6. \A i \in 1..Len(row) : row[i] \in C
  OBVIOUS
<1>7. SubSeq(row, b + 1, d) \in Seq(C)
  <2>1. b + 1 \in Int /\ d \in Int
    OBVIOUS
  <2> QED
    BY <1>4, <1>6, <2>1, SubSeqProperties
<1>8. SubSeq(row, d + 1, c) \in Seq(C)
  <2>1. d + 1 \in Int /\ c \in Int
    OBVIOUS
  <2> QED
    BY <1>5, <1>6, <2>1, SubSeqProperties
<1>9. \A p, q, r \in Seq(C) : (p \o q) \o r = p \o (q \o r)
  <2>1. Associative(C)
    BY Associates
  <2> QED
    BY <2>1 DEF Associative
<1> DEFINE p == SubSeq(row, b + 1, d)
           q == SubSeq(row, d + 1, c)
<1>10. p \in Seq(C) /\ q \in Seq(C) /\ x \in Seq(C)
  BY <1>7, <1>8
<1>11. p \o q = SubSeq(row, b + 1, c)
  BY <1>3
<1> HIDE DEF p, q
<1>12. (p \o q) \o x = p \o (q \o x)
  BY ONLY <1>9, <1>10
<1>13. p \o (q \o x) = SubSeq(row, b + 1, c) \o x
  BY ONLY <1>11, <1>12
<1> QED
  BY <1>13 DEF p, q, IsPutBack

(* From one bound to the one before it the tails stay alike.               *)
Alike(T1, T, p) == T1[p] = T[p]

(* From one bound to the next, with or without the edit between them.      *)
LEMMA StaysAlike ==
  ASSUME NEW C, NEW m \in Nat, NEW n \in Nat, NEW phi, NEW row, NEW T1, NEW T,
         NEW starts1, NEW ends1, NEW news1, NEW starts, NEW ends, NEW news,
         Rows(C, n, starts, ends, news, row, T), Rows(C, m, starts1, ends1, news1, row, T1),
         Part(phi, m, n, starts1, ends1, news1, starts, ends, news), RestIdle(phi, m, n, row, starts, ends, news),
         NEW i, NEW b, NEW d, NEW c, CutAt(row, starts, ends, n, i, b, d, c), Alike(T1, T, c)
  PROVE  Alike(T1, T, b)
<1>1. /\ b \in Nat /\ d \in Nat /\ c \in Nat /\ b <= d /\ d <= c /\ b < c /\ c <= Len(row)
      /\ i \in 1..n /\ starts[i] = b /\ ends[i] = d /\ AllClear(starts, ends, n, i, b, c)
  BY DEF CutAt
<1>2. Turns(T, row, news, i, b, d, c)
  BY TailReplaces
<1>3. T[b] = news[i] \o (SubSeq(row, d + 1, c) \o T[c])
  BY <1>2 DEF Turns
<1>4. CASE \E j \in 1..m : phi[j] = i
  <2>1. PICK j \in 1..m : phi[j] = i
    BY <1>4
  <2>2. Left(phi, m, j, i)
    BY <2>1 DEF Left
  <2>3. AllClear(starts1, ends1, m, j, b, c)
    BY <1>1, <2>2, ClearPart
  <2>4. starts1[j] = b /\ ends1[j] = d /\ news1[j] = news[i]
    BY <1>1, <2>1 DEF Part
  <2>5. CutAt(row, starts1, ends1, m, j, b, d, c)
    BY <1>1, <2>1, <2>3, <2>4 DEF CutAt
  <2>6. Turns(T1, row, news1, j, b, d, c)
    BY <2>5, TailReplaces
  <2>7. T1[b] = news1[j] \o (SubSeq(row, d + 1, c) \o T1[c])
    BY <2>6 DEF Turns
  <2> QED
    BY <1>3, <2>4, <2>7 DEF Alike
<1>5. CASE ~\E j \in 1..m : phi[j] = i
  <2>1. Left(phi, m, 0, i)
    BY <1>5 DEF Left
  <2>2. AllClear(starts1, ends1, m, 0, b, c)
    BY <1>1, <2>1, ClearPart
  <2>3. b <= c
    BY <1>1
  <2>4. Untouched(starts1, ends1, m, b, c, row)
    BY <1>1, <2>2, <2>3 DEF Untouched
  <2>5. Keeps(T1, row, b, c)
    BY <2>4, TailKeeps
  <2>6. T1[b] = SubSeq(row, b + 1, c) \o T1[c]
    BY <2>5 DEF Keeps
  <2>7. news[i] = SubSeq(row, b + 1, d)
    BY <1>1, <1>5 DEF RestIdle, Idle
  <2>8. row \in Seq(C) /\ T[c] \in Seq(C)
    <3>1. row \in Seq(C) /\ T \in [0..Len(row) -> Seq(C)]
      BY DEF Rows, Tails
    <3>2. Len(row) \in Nat
      BY <3>1, LenProperties
    <3>3. c \in 0..Len(row)
      BY <3>2, <1>1
    <3> QED
      BY <3>1, <3>3
  <2>9. InRow(row, b, d, c)
    BY <1>1 DEF InRow
  <2>10. IsPutBack(row, T[c], b, d, c)
    BY <2>8, <2>9, PutBack
  <2>11. SubSeq(row, b + 1, d) \o (SubSeq(row, d + 1, c) \o T[c]) = SubSeq(row, b + 1, c) \o T[c]
    BY <2>10 DEF IsPutBack
  <2> QED
    BY <1>3, <2>6, <2>7, <2>11 DEF Alike
<1> QED
  BY <1>4, <1>5

(* The edits of the part replace as all do.                                *)
LEMMA IdlesDrop ==
  ASSUME NEW C, NEW m \in Nat, NEW n \in Nat, NEW order, NEW phi, NEW row, row \in Seq(C),
         NEW starts1, NEW ends1, NEW news1, NEW starts, NEW ends, NEW news,
         Cuts(C, n, starts, ends, news), Cuts(C, m, starts1, ends1, news1),
         Part(phi, m, n, starts1, ends1, news1, starts, ends, news), RestIdle(phi, m, n, row, starts, ends, news),
         InTurn(order, n), Apart(order, n, starts, ends, Len(row))
  PROVE  Replaced(row, starts1, ends1, news1) = Replaced(row, starts, ends, news)
<1> DEFINE L == Len(row)
           B(k) == Bound(order, starts, L, k)
<1>1. Len(starts) = n /\ news \in [1..n -> Seq(C)] /\ Len(starts1) = m /\ news1 \in [1..m -> Seq(C)]
  BY DEF Cuts
<1>2. HasTails(C, row, starts, ends, news)
  BY <1>1, ReplacedRuns
<1>3. HasTails(C, row, starts1, ends1, news1)
  BY <1>1, ReplacedRuns
<1>4. PICK T : Tails(T, C, row, starts, ends, news) /\ Replaced(row, starts, ends, news) = T[0]
  BY <1>2 DEF HasTails
<1>5. PICK T1 : Tails(T1, C, row, starts1, ends1, news1) /\ Replaced(row, starts1, ends1, news1) = T1[0]
  BY <1>3 DEF HasTails
<1>6. Rows(C, n, starts, ends, news, row, T) /\ Rows(C, m, starts1, ends1, news1, row, T1)
  BY <1>4, <1>5 DEF Rows
<1>7. L \in Nat
  BY LenProperties
<1>8. Bounded(order, n, starts, ends, L)
  BY <1>7, InBounds
<1>9. \A k \in 1..n : B(k) = starts[order[k]] /\ B(k) \in 0..B(k - 1)
  BY <1>8 DEF Bounded
<1>10. \A k \in 0..n : B(k) \in 0..L
  BY <1>8 DEF Bounded
<1> DEFINE S == {k \in 0..n : Alike(T1, T, B(k))}
<1>11. 0 \in S
  <2>1. T[L] = Inserted(starts, news, L) /\ T1[L] = Inserted(starts1, news1, L)
    BY <1>4, <1>5 DEF Tails
  <2>2. Inserted(starts1, news1, L) = Inserted(starts, news, L)
    BY <1>7, EndAlike
  <2> QED
    BY <2>1, <2>2 DEF Alike, Bound
<1>12. \A k \in 0..(n - 1) : k \in S => k + 1 \in S
  <2> SUFFICES ASSUME NEW k \in 0..(n - 1), Alike(T1, T, B(k)) PROVE Alike(T1, T, B(k + 1))
    <3>1. \A i \in 0..(n - 1) : i + 1 \in 0..n
      OBVIOUS
    <3> QED
      BY <3>1
  <2>1. PICK j \in 1..n : j = k + 1
    OBVIOUS
  <2>2. j - 1 = k
    BY <2>1
  <2>3. CASE B(j) = B(k)
    BY <2>1, <2>3
  <2>4. CASE B(j) # B(k)
    <3>1. starts[order[j]] = B(j) /\ B(j) \in 0..B(k)
      BY <1>9, <2>2
    <3>2. B(k) \in Nat
      BY <1>10
    <3> HIDE DEF B
    <3>3. starts[order[j]] < B(k)
      BY <2>4, <3>1, <3>2
    <3>4. starts[order[j]] < Bound(order, starts, Len(row), j - 1)
      BY <3>3, <2>2 DEF B
    <3>5. CutAt(row, starts, ends, n, order[j], starts[order[j]], ends[order[j]], Bound(order, starts, Len(row), j - 1))
      BY <3>4, <1>7, CutInTurn
    <3>6. CutAt(row, starts, ends, n, order[j], B(j), ends[order[j]], B(k))
      BY <3>1, <3>5, <2>2 DEF B
    <3>7. Alike(T1, T, B(j))
      BY <3>6, <1>6, StaysAlike
    <3> QED
      BY <3>7, <2>1
  <2> QED
    BY <2>3, <2>4
<1> HIDE DEF S
<1>13. \A k \in 0..n : k \in S
  BY <1>11, <1>12, Upward
<1>14. n \in 0..n
  OBVIOUS
<1>15. T1[B(n)] = T[B(n)]
  BY <1>13, <1>14 DEF S, Alike
<1>16. Untouched(starts, ends, n, 0, B(n), row)
  BY <1>7, BeforeAll
<1>17. Untouched(starts1, ends1, m, 0, B(n), row)
  <2>1. AllClear(starts, ends, n, 0, 0, B(n))
    BY <1>16 DEF Untouched
  <2>2. \A k \in 1..m : phi[k] # 0
    BY DEF Part
  <2>3. Left(phi, m, 0, 0)
    BY <2>2 DEF Left
  <2> HIDE DEF B
  <2>4. AllClear(starts1, ends1, m, 0, 0, B(n))
    BY <2>1, <2>3, ClearPart
  <2> QED
    BY <1>16, <2>4 DEF Untouched
<1> HIDE DEF B
<1>18. Keeps(T, row, 0, B(n)) /\ Keeps(T1, row, 0, B(n))
  <2>1. Keeps(T, row, 0, B(n))
    BY <1>6, <1>16, TailKeeps
  <2>2. Keeps(T1, row, 0, B(n))
    BY <1>6, <1>17, TailKeeps
  <2> QED
    BY <2>1, <2>2
<1>19. T[0] = T1[0]
  BY <1>15, <1>18 DEF Keeps
<1> QED
  BY <1>4, <1>5, <1>19
-----------------------------------------------------------------------------
(* Places of a sequence and their ranks (as in ToolsProofs).               *)

(* Places in a sequence are finite sets, and so are parts of them.         *)
LEMMA PlacesFinite ==
  ASSUME NEW m \in Nat, NEW I \in SUBSET (1..m)
  PROVE  /\ IsFiniteSet(I) /\ Cardinality(I) \in Nat
         /\ \A J \in SUBSET I : /\ IsFiniteSet(J) /\ Cardinality(J) \in Nat
                                /\ Cardinality(J) <= Cardinality(I)
                                /\ Cardinality(J) = Cardinality(I) => J = I
<1>1. IsFiniteSet(1..m)
  BY FS_Interval
<1>2. IsFiniteSet(I)
  BY <1>1, FS_Subset
<1> QED
  BY <1>2, FS_Subset, FS_CardinalityType

(* The rank of a place is one of 1 to the number of the places.            *)
LEMMA RankBounds ==
  ASSUME NEW m \in Nat, NEW I \in SUBSET (1..m), NEW i \in I
  PROVE  Rank(I, i) \in 1..Cardinality(I)
<1> DEFINE J == {j \in I : j <= i}
<1>1. J \in SUBSET I /\ i \in J
  OBVIOUS
<1>2. Cardinality(J) \in Nat /\ Cardinality(J) <= Cardinality(I) /\ IsFiniteSet(J) /\ Cardinality(I) \in Nat
  BY <1>1, PlacesFinite
<1>3. Cardinality(J) # 0
  BY <1>1, <1>2, FS_EmptySet
<1> HIDE DEF J
<1>4. Cardinality(J) \in 1..Cardinality(I)
  BY <1>2, <1>3
<1> QED
  BY <1>4 DEF J, Rank

(* A later place has a higher rank,                                        *)
LEMMA RankGrows ==
  ASSUME NEW m \in Nat, NEW I \in SUBSET (1..m), NEW i \in I, NEW k \in I, i < k
  PROVE  Rank(I, i) < Rank(I, k)
<1> DEFINE J == {j \in I : j <= i}
           K == {j \in I : j <= k}
<1>1. J \in SUBSET K /\ k \in K /\ k \notin J /\ K \in SUBSET I
  <2>1. i \in Int /\ k \in Int /\ \A j \in I : j \in Int
    OBVIOUS
  <2>2. \A j \in I : j <= i => j <= k
    BY <2>1
  <2>3. ~(k <= i) /\ k <= k
    BY <2>1
  <2> QED
    BY <2>2, <2>3
<1>2. K \in SUBSET (1..m) 
  BY <1>1
<1> HIDE DEF J, K
<1>3. /\ Cardinality(J) \in Nat /\ Cardinality(K) \in Nat
      /\ Cardinality(J) <= Cardinality(K) /\ Cardinality(J) # Cardinality(K)
  BY <1>1, <1>2, PlacesFinite
<1>4. Cardinality(J) < Cardinality(K)
  BY <1>3
<1> QED
  BY <1>4 DEF J, K, Rank

(* so two places have two ranks,                                           *)
LEMMA RankApart ==
  ASSUME NEW m \in Nat, NEW I \in SUBSET (1..m), NEW i \in I, NEW k \in I, Rank(I, i) = Rank(I, k)
  PROVE  i = k
<1>1. i \in Int /\ k \in Int
  OBVIOUS
<1>2. Rank(I, i) \in Int
  <2>1. Rank(I, i) \in 1..Cardinality(I)
    BY RankBounds
  <2> QED
    BY <2>1
<1>3. CASE i < k
  <2>1. Rank(I, i) < Rank(I, k)
    BY <1>3, RankGrows
  <2> QED
    BY <2>1, <1>2
<1>4. CASE k < i
  <2>1. Rank(I, k) < Rank(I, i)
    BY <1>4, RankGrows
  <2> QED
    BY <2>1, <1>2
<1> QED
  BY <1>1, <1>3, <1>4

(* and every rank is that of a place.                                      *)
LEMMA RankOnto ==
  ASSUME NEW m \in Nat, NEW I \in SUBSET (1..m), NEW n \in 1..Cardinality(I)
  PROVE  \E i \in I : Rank(I, i) = n
<1> DEFINE f == [i \in I |-> Rank(I, i)]
           T == 1..Cardinality(I)
<1>1. f \in [I -> T]
  BY RankBounds
<1>2. ASSUME NEW i \in I, NEW k \in I, f[i] = f[k]
      PROVE  i = k
  BY <1>2, RankApart
<1> HIDE DEF f
<1>3. f \in Injection(I, T)
  BY <1>1, <1>2 DEF Injection, IsInjective
<1>4. Cardinality(I) \in Nat /\ IsFiniteSet(I)
  BY PlacesFinite
<1>5. IsFiniteSet(T) /\ Cardinality(T) = Cardinality(I)
  BY <1>4, FS_Interval
<1>6. f \in Surjection(I, T)
  BY <1>3, <1>5, FS_Injection
<1>7. \E i \in I : f[i] = n
  BY <1>6 DEF Surjection
<1> QED
  BY <1>7 DEF f

(* Nth and Rank are inverse to each other.                                 *)
LEMMA NthRight ==
  ASSUME NEW m \in Nat, NEW I \in SUBSET (1..m)
  PROVE  /\ \A n \in 1..Cardinality(I) : Nth(I, n) \in I /\ Rank(I, Nth(I, n)) = n
         /\ \A i \in I : Nth(I, Rank(I, i)) = i
<1>1. \A n \in 1..Cardinality(I) : Nth(I, n) \in I /\ Rank(I, Nth(I, n)) = n
  BY RankOnto DEF Nth
<1>2. ASSUME NEW i \in I
      PROVE  Nth(I, Rank(I, i)) = i
  <2> DEFINE k == Nth(I, Rank(I, i))
  <2>1. Rank(I, i) \in 1..Cardinality(I)
    BY RankBounds
  <2>2. k \in I /\ Rank(I, k) = Rank(I, i)
    BY <2>1, <1>1
  <2> HIDE DEF k
  <2>3. i = k
    BY <2>2, RankApart
  <2> QED
    BY <2>3 DEF k
<1> QED
  BY <1>1, <1>2

-----------------------------------------------------------------------------
(* What format_file drops.                                                 *)
Same(text, e) == OldText(text, e) = e.new

Dropped(C, text, edits, left, m, phi) ==
  /\ left \in Seq(EditOf(C)) /\ Len(left) = m /\ m \in Nat
  /\ phi \in [1..m -> 1..Len(edits)] /\ \A i, j \in 1..m : i # j => phi[i] # phi[j]
  /\ \A j \in 1..m : left[j] = edits[phi[j]]
  /\ \A k \in 1..Len(edits) : (\E j \in 1..m : phi[j] = k) \/ Same(text, edits[k])

(* FilterIdentityEdits leaves a part of the edits, and the others change   *)
(* nothing.                                                                *)
LEMMA IdentitiesDropped ==
  ASSUME NEW C, NEW text, NEW edits, EditsWithin(C, text, edits)
  PROVE  \E m, phi : Dropped(C, text, edits, FilterIdentityEdits(text, edits), m, phi)
<1> DEFINE n == Len(edits)
           I == {i \in 1..n : \/ edits[i].sl >= Len(text) \/ edits[i].el >= Len(text)
                              \/ OldText(text, edits[i]) # edits[i].new}
           m == Cardinality(I)
           phi == [j \in 1..m |-> Nth(I, j)]
           left == FilterIdentityEdits(text, edits)
<1>1. n \in Nat /\ \A i \in 1..n : edits[i] \in EditOf(C) /\ Placed(text, edits[i])
  BY LenProperties, ElementOfSeq DEF EditsWithin
<1>2. left = [j \in 1..m |-> edits[Nth(I, j)]]
  BY DEF FilterIdentityEdits, Filtered, Chosen
<1>3. I \in SUBSET (1..n)
  OBVIOUS
<1>4. \A k \in 1..n : k \notin I => Same(text, edits[k])
  BY DEF Same
<1> HIDE DEF I, n
<1>5. m \in Nat
  BY <1>1, <1>3, PlacesFinite
<1>6. /\ \A j \in 1..m : Nth(I, j) \in I /\ Rank(I, Nth(I, j)) = j
      /\ \A i \in I : Nth(I, Rank(I, i)) = i
  BY <1>1, <1>3, NthRight
<1>7. \A i \in I : Rank(I, i) \in 1..m
  BY <1>1, <1>3, RankBounds
<1>8. \A j \in 1..m : phi[j] = Nth(I, j) /\ phi[j] \in I /\ phi[j] \in 1..n
  BY <1>3, <1>6
<1>9. phi \in [1..m -> 1..n]
  BY <1>8
<1>10. \A i, j \in 1..m : i # j => phi[i] # phi[j]
  <2>1. \A j \in 1..m : Rank(I, phi[j]) = j
    BY <1>6, <1>8
  <2> QED
    BY <2>1
<1>11. \A j \in 1..m : left[j] = edits[phi[j]]
  BY <1>2, <1>8
<1>12. left \in Seq(EditOf(C)) /\ Len(left) = m
  <2>1. \A j \in 1..m : edits[Nth(I, j)] \in EditOf(C)
    BY <1>1, <1>8
  <2> HIDE DEF m
  <2> QED
    BY <1>2, <1>5, <2>1
<1>13. \A k \in 1..n : (\E j \in 1..m : phi[j] = k) \/ Same(text, edits[k])
  <2> TAKE k \in 1..n
  <2>1. CASE k \in I
    <3>1. Rank(I, k) \in 1..m /\ Nth(I, Rank(I, k)) = k
      BY <2>1, <1>6, <1>7
    <3>2. phi[Rank(I, k)] = k
      BY <3>1, <1>8
    <3> QED
      BY <3>1, <3>2
  <2>2. CASE k \notin I
    BY <2>2, <1>4
  <2> QED
    BY <2>1, <2>2
<1> HIDE DEF m, phi, left
<1>14. Dropped(C, text, edits, left, m, phi)
  BY <1>5, <1>9, <1>10, <1>11, <1>12, <1>13 DEF Dropped, n
<1> QED
  BY <1>14 DEF left

(* What is left is as good as all of it.                                   *)
LEMMA LeftMeansAll ==
  ASSUME NEW C, NewLine \in C, NEW text, text # <<>>, NEW edits, EditsWithin(C, text, edits), ~Overlapping(edits),
         NEW left, NEW m, NEW phi, Dropped(C, text, edits, left, m, phi)
  PROVE  /\ EditsWithin(C, text, left) /\ ~Overlapping(left)
         /\ NoneEmpties(text, edits) => NoneEmpties(text, left)
         /\ Meaning(text, left) = Meaning(text, edits)
<1> DEFINE n == Len(edits)
<1>1. /\ left \in Seq(EditOf(C)) /\ Len(left) = m /\ m \in Nat
      /\ phi \in [1..m -> 1..n] /\ (\A i, j \in 1..m : i # j => phi[i] # phi[j])
      /\ (\A j \in 1..m : left[j] = edits[phi[j]])
      /\ \A k \in 1..n : (\E j \in 1..m : phi[j] = k) \/ Same(text, edits[k])
  BY DEF Dropped
<1>2. text \in Seq(Seq(C)) /\ edits \in Seq(EditOf(C)) /\ n \in Nat /\ \A i \in 1..n : Placed(text, edits[i])
  BY LenProperties DEF EditsWithin
<1>3. EditsWithin(C, text, left)
  BY <1>1, <1>2 DEF EditsWithin
<1>4. ~Overlapping(left)
  <2> SUFFICES ASSUME NEW i \in 1..m, NEW j \in 1..m, i < j, RangesOverlap(left[i], left[j]) PROVE FALSE
    BY <1>1 DEF Overlapping
  <2>1. phi[i] # phi[j] /\ phi[i] \in 1..n /\ phi[j] \in 1..n
    BY <1>1
  <2>2. RangesOverlap(edits[phi[i]], edits[phi[j]])
    BY <1>1
  <2>3. RangesOverlap(edits[phi[j]], edits[phi[i]])
    BY <2>2 DEF RangesOverlap
  <2>4. phi[i] < phi[j] \/ phi[j] < phi[i]
    BY <2>1
  <2> QED
    BY <2>1, <2>2, <2>3, <2>4 DEF Overlapping
<1>5. NoneEmpties(text, edits) => NoneEmpties(text, left)
  BY <1>1 DEF NoneEmpties
<1> DEFINE starts == StartsAt(text, edits)
           ends == EndsAt(text, edits)
           news == NewRows(edits)
           starts1 == StartsAt(text, left)
           ends1 == EndsAt(text, left)
           news1 == NewRows(left)
           row == Row(text)
<1>6. CutsOf(C, text, edits) /\ CutsOf(C, text, left)
  BY <1>3, CutsOfEdits
<1>7. Cuts(C, n, starts, ends, news) /\ Cuts(C, m, starts1, ends1, news1) /\ row \in Seq(C)
  BY <1>1, <1>6 DEF CutsOf
<1>8. Part(phi, m, n, starts1, ends1, news1, starts, ends, news)
  <2>1. \A j \in 1..m : /\ starts1[j] = Offset(text, left[j].sl, left[j].sc)
                        /\ ends1[j] = Offset(text, left[j].el, left[j].ec) /\ news1[j] = Row(left[j].new)
    BY <1>1 DEF StartsAt, EndsAt, NewRows
  <2>2. \A k \in 1..n : /\ starts[k] = Offset(text, edits[k].sl, edits[k].sc)
                        /\ ends[k] = Offset(text, edits[k].el, edits[k].ec) /\ news[k] = Row(edits[k].new)
    BY DEF StartsAt, EndsAt, NewRows
  <2> HIDE DEF starts, ends, news, starts1, ends1, news1, n
  <2>3. \A j \in 1..m : starts1[j] = starts[phi[j]] /\ ends1[j] = ends[phi[j]] /\ news1[j] = news[phi[j]]
    BY <1>1, <2>1, <2>2
  <2> QED
    BY <1>1, <2>3 DEF Part
<1>9. RestIdle(phi, m, n, row, starts, ends, news)
  <2>1. ASSUME NEW k \in 1..n, Same(text, edits[k]) PROVE Idle(row, starts, ends, news, k)
    <3>1. Row(OldText(text, edits[k])) = SubSeq(Row(text), Offset(text, edits[k].sl, edits[k].sc) + 1,
                                                Offset(text, edits[k].el, edits[k].ec))
      BY <1>2, OldRow
    <3>2. OldText(text, edits[k]) = edits[k].new
      BY <2>1 DEF Same
    <3> QED
      BY <3>1, <3>2 DEF Idle, StartsAt, EndsAt, NewRows
  <2> QED
    BY <1>1, <2>1 DEF RestIdle
<1>10. PICK order : TextOrder(edits, order)
  BY <1>2, TextOrderExists
<1>11. InTurn(order, n) /\ Apart(order, n, starts, ends, Len(row))
  BY <1>10, EditsApart DEF TextOrder
<1>12. Meaning(text, left) = Replaced(row, starts1, ends1, news1) /\ Meaning(text, edits) = Replaced(row, starts, ends, news)
  BY DEF Meaning, StartsAt, EndsAt, NewRows
<1> HIDE DEF starts, ends, news, starts1, ends1, news1, n, row
<1>13. Replaced(row, starts1, ends1, news1) = Replaced(row, starts, ends, news)
  BY <1>1, <1>2, <1>7, <1>8, <1>9, <1>11, IdlesDrop
<1> QED
  BY <1>3, <1>4, <1>5, <1>12, <1>13
-----------------------------------------------------------------------------
(* What format_file answers.                                               *)
LEMMA FormatAnswers ==
  ASSUME NEW text, NEW edits, NEW answer, answer = format_file([filePath |-> 1], FormattedBy(text, edits))
  PROVE  /\ FilterIdentityEdits(text, edits) = <<>> => answer.kind = "none"
         /\ FilterIdentityEdits(text, edits) # <<>> /\ ApplyTextEdits(text, FilterIdentityEdits(text, edits)).ok =>
              answer.kind = "edited" /\ answer.text = ApplyTextEdits(text, FilterIdentityEdits(text, edits)).text
<1> DEFINE args == [filePath |-> 1]
           world == FormattedBy(text, edits)
           left == FilterIdentityEdits(text, edits)
           r == ApplyTextEdits(text, left)
           reply == world.file.formatting[<<Arg(args, "tabSize", 4), Arg(args, "insertSpaces", TRUE)>>]
<1>1. Given(args, "filePath") /\ Arg(args, "tabSize", 4) = 4 /\ Arg(args, "insertSpaces", TRUE) = TRUE
  BY DEF Given, Arg
<1>2. world.file.routed /\ world.file.opens /\ world.file.text = text
  BY DEF FormattedBy
<1>3. reply.ok /\ reply.edits = edits
  <2>1. <<4, TRUE>> \in {4} \X {TRUE}
    OBVIOUS
  <2>2. world.file.formatting = [style \in {4} \X {TRUE} |-> [ok |-> TRUE, edits |-> edits]]
    BY DEF FormattedBy
  <2>3. world.file.formatting[<<4, TRUE>>] = [ok |-> TRUE, edits |-> edits]
    BY <2>1, <2>2
  <2>4. reply = [ok |-> TRUE, edits |-> edits]
    BY <1>1, <2>3
  <2> QED
    BY <2>4
<1>4. answer = OnFile(args, world,
        IF ~world.file.opens \/ ~reply.ok THEN ErrorText
        ELSE IF FilterIdentityEdits(world.file.text, reply.edits) = <<>> THEN NoneText
        ELSE IF ~ApplyTextEdits(world.file.text, FilterIdentityEdits(world.file.text, reply.edits)).ok THEN ErrorText
        ELSE [kind |-> "edited",
              text |-> ApplyTextEdits(world.file.text, FilterIdentityEdits(world.file.text, reply.edits)).text,
              diagnostics |-> <<>>])
  BY DEF format_file
<1> HIDE DEF args, world, reply
<1>5. answer = IF left = <<>> THEN NoneText ELSE IF ~r.ok THEN ErrorText
               ELSE [kind |-> "edited", text |-> r.text, diagnostics |-> <<>>]
  BY <1>1, <1>2, <1>3, <1>4 DEF OnFile
<1>6. NoneText.kind = "none"
  BY DEF NoneText
<1> HIDE DEF left, r
<1>7. left = <<>> => answer.kind = "none"
  BY <1>5, <1>6
<1>8. left # <<>> /\ r.ok => answer.kind = "edited" /\ answer.text = r.text
  BY <1>5
<1> QED
  BY <1>7, <1>8 DEF left, r

(* A place that is in the text.                                            *)
LEMMA ProperWithin ==
  ASSUME NEW C, NEW text, NEW e \in EditOf(C), Proper(text, e)
  PROVE  Placed(text, e)
BY DEF EditOf, Proper, InText, Placed, Place

(* What is written by edits of places.                                     *)
LEMMA TextsExact ==
  ASSUME EditsAsked
  PROVE  TextEditsExact
<1> DEFINE C == STRING \cup {NewLine}
           text == question.text
           edits == question.edits
           answer == format_file([filePath |-> 1], FormattedBy(text, edits))
           exact(r) == r.ok /\ (\A i \in 1..Len(edits) : ~EmptiesLine(text, edits[i]))
                         => SameText(r.text, Meaning(text, edits), text)
<1>1. NewLine \in C
  OBVIOUS
<1>2. Seq(Line) \subseteq Seq(Seq(C))
  <2>1. Line \subseteq Seq(C)
    BY DEF Line
  <2> HIDE DEF C
  <2> QED
    BY <2>1
<1>3. text \in Seq(Seq(C)) /\ text # <<>>
  BY <1>2 DEF EditsAsked
<1>4. ServerEdit \subseteq EditOf(C)
  BY <1>2 DEF ServerEdit, EditOf
<1>5. edits \in Seq(EditOf(C)) /\ \A i \in 1..Len(edits) : Proper(text, edits[i])
  <2> HIDE DEF C
  <2> QED
    BY <1>4 DEF EditsAsked
<1> HIDE DEF C
<1>6. EditsWithin(C, text, edits)
  <2>1. \A i \in 1..Len(edits) : edits[i] \in EditOf(C)
    BY <1>5, ElementOfSeq
  <2>2. \A i \in 1..Len(edits) : Placed(text, edits[i])
    BY <1>5, <2>1, ProperWithin
  <2> QED
    BY <1>3, <1>5, <2>2 DEF EditsWithin
<1> HIDE DEF text, edits
<1>7. exact(ApplyTextEdits(text, edits))
  <2>1. CASE Overlapping(edits)
    <3>1. ApplyTextEdits(text, edits) = Failed
      BY <2>1 DEF ApplyTextEdits
    <3>2. ~Failed.ok
      BY DEF Failed
    <3> QED
      BY <3>1, <3>2
  <2>2. CASE ~Overlapping(edits)
    <3>1. AsMeant(text, edits)
      BY <1>1, <1>3, <1>6, <2>2, AppliedAsMeant
    <3> QED
      BY <3>1 DEF AsMeant, NoneEmpties
  <2> QED
    BY <2>1, <2>2
<1>8. ASSUME ~Overlapping(edits)
      PROVE  IF answer.kind = "none" THEN \A i \in 1..Len(edits) : OldText(text, edits[i]) = edits[i].new
             ELSE answer.kind = "edited" /\ exact(Text(answer.text))
  <2> DEFINE left == FilterIdentityEdits(text, edits)
  <2>1. PICK m, phi : Dropped(C, text, edits, left, m, phi)
    BY <1>6, IdentitiesDropped
  <2>2. /\ left = <<>> => answer.kind = "none"
        /\ left # <<>> /\ ApplyTextEdits(text, left).ok => answer.kind = "edited" /\ answer.text = ApplyTextEdits(text, left).text
    BY FormatAnswers
  <2>3. /\ EditsWithin(C, text, left) /\ ~Overlapping(left)
        /\ NoneEmpties(text, edits) => NoneEmpties(text, left)
        /\ Meaning(text, left) = Meaning(text, edits)
    BY <1>1, <1>3, <1>6, <1>8, <2>1, LeftMeansAll
  <2> HIDE DEF left, answer
  <2>4. AsMeant(text, left)
    BY <1>1, <1>3, <2>3, AppliedAsMeant
  <2>5. CASE left = <<>>
    <3>1. m = 0 /\ \A k \in 1..Len(edits) : (\E j \in 1..m : phi[j] = k) \/ Same(text, edits[k])
      BY <2>1, <2>5 DEF Dropped
    <3>2. \A k \in 1..Len(edits) : OldText(text, edits[k]) = edits[k].new
      BY <3>1 DEF Same
    <3> QED
      BY <2>2, <2>5, <3>2
  <2>6. CASE left # <<>>
    <3>1. answer.kind = "edited" /\ answer.text = ApplyTextEdits(text, left).text
      BY <2>2, <2>4, <2>6 DEF AsMeant
    <3>2. NoneEmpties(text, edits) => SameText(answer.text, Meaning(text, edits), text)
      BY <2>3, <2>4, <3>1 DEF AsMeant
    <3>3. Text(answer.text).ok /\ Text(answer.text).text = answer.text
      BY DEF Text
    <3>4. exact(Text(answer.text))
      BY <3>2, <3>3 DEF NoneEmpties
    <3> QED
      BY <3>1, <3>4
  <2> QED
    BY <2>5, <2>6
<1>9. /\ exact(ApplyTextEdits(text, edits))
      /\ ~Overlapping(edits) =>
           IF answer.kind = "none" THEN \A i \in 1..Len(edits) : OldText(text, edits[i]) = edits[i].new
           ELSE answer.kind = "edited" /\ exact(Text(answer.text))
  BY <1>7, <1>8
<1> QED
  BY <1>9 DEF TextEditsExact, text, edits
-----------------------------------------------------------------------------
(* Changes of files, one after the other until one fails: as the code does *)
(* them, as they are meant, and edits of texts by their paths.             *)
One(how, store, change) ==
  IF how = "done" THEN ApplyDocumentChange(store, change)
  ELSE IF how = "meant" THEN Meant(store, change) ELSE EditText(store, change.path, change.edits)

AfterOne(how, last, change) == IF last.ok THEN One(how, last.disk, change) ELSE last

AllInTurn(f, how, n, first, changes) ==
  /\ f = [k \in 0..n |-> f[k]] /\ f[0] = first
  /\ \A k \in 1..n : f[k] = AfterOne(how, f[k - 1], changes[k])

CanTurn(how, n, first, changes) == \E f : AllInTurn(f, how, n, first, changes)

(* One change more.                                                        *)
LEMMA OneTurnMore ==
  ASSUME NEW how, NEW first, NEW changes, NEW k \in Nat, CanTurn(how, k, first, changes)
  PROVE  CanTurn(how, k + 1, first, changes)
<1>1. PICK f : AllInTurn(f, how, k, first, changes)
  BY DEF CanTurn
<1>2. f[0] = first /\ \A i \in 1..k : f[i] = AfterOne(how, f[i - 1], changes[i])
  BY <1>1 DEF AllInTurn
<1> DEFINE g == [i \in 0..(k + 1) |-> IF i = k + 1 THEN AfterOne(how, f[k], changes[k + 1]) ELSE f[i]]
<1>3. \A i \in 0..k : g[i] = f[i]
  OBVIOUS
<1>4. g[k + 1] = AfterOne(how, f[k], changes[k + 1])
  OBVIOUS
<1>5. g = [i \in 0..(k + 1) |-> g[i]]
  OBVIOUS
<1> HIDE DEF g
<1>6. \A i \in 1..(k + 1) : g[i] = AfterOne(how, g[i - 1], changes[i])
  <2> TAKE i \in 1..(k + 1)
  <2>1. CASE i = k + 1
    <3>1. i - 1 = k /\ k \in 0..k
      BY <2>1
    <3>2. g[i - 1] = f[k]
      BY <3>1, <1>3
    <3> QED
      BY <2>1, <3>2, <1>4
  <2>2. CASE i # k + 1
    <3>1. i \in 1..k /\ i \in 0..k /\ i - 1 \in 0..k
      BY <2>2
    <3>2. g[i] = f[i] /\ g[i - 1] = f[i - 1]
      BY <3>1, <1>3
    <3> QED
      BY <3>1, <3>2, <1>2
  <2> QED
    BY <2>1, <2>2
<1>7. g[0] = first
  <2>1. 0 \in 0..k
    OBVIOUS
  <2> QED
    BY <2>1, <1>2, <1>3
<1>8. AllInTurn(g, how, k + 1, first, changes)
  BY <1>5, <1>6, <1>7 DEF AllInTurn
<1> QED
  BY <1>8 DEF CanTurn

(* Changes can always be made in turn,                                     *)
LEMMA TurnsExist ==
  ASSUME NEW how, NEW first, NEW changes, NEW n \in Nat
  PROVE  CanTurn(how, n, first, changes)
<1> DEFINE S == {k \in 0..n : CanTurn(how, k, first, changes)}
<1>1. 0 \in S
  <2> DEFINE f == [k \in 0..0 |-> first]
  <2>1. f = [k \in 0..0 |-> f[k]] /\ f[0] = first /\ \A k \in 1..0 : FALSE
    OBVIOUS
  <2> HIDE DEF f
  <2>2. AllInTurn(f, how, 0, first, changes)
    BY <2>1 DEF AllInTurn
  <2>3. CanTurn(how, 0, first, changes)
    BY <2>2 DEF CanTurn
  <2> QED
    BY <2>3
<1>2. \A k \in 0..(n - 1) : k \in S => k + 1 \in S
  <2> SUFFICES ASSUME NEW k \in 0..(n - 1), CanTurn(how, k, first, changes) PROVE CanTurn(how, k + 1, first, changes)
    <3>1. \A i \in 0..(n - 1) : i + 1 \in 0..n
      OBVIOUS
    <3> QED
      BY <3>1
  <2>1. k \in Nat
    OBVIOUS
  <2> QED
    BY <2>1, OneTurnMore
<1> HIDE DEF S
<1>3. \A k \in 0..n : k \in S
  BY <1>1, <1>2, Upward
<1>4. n \in S
  BY <1>3
<1> QED
  BY <1>4 DEF S

(* in one way.                                                             *)
LEMMA TurnsOnce ==
  ASSUME NEW how, NEW first, NEW changes, NEW n \in Nat, NEW f, NEW g,
         AllInTurn(f, how, n, first, changes), AllInTurn(g, how, n, first, changes)
  PROVE  f = g
<1> DEFINE S == {k \in 0..n : f[k] = g[k]}
<1>0. /\ f = [k \in 0..n |-> f[k]] /\ f[0] = first /\ \A k \in 1..n : f[k] = AfterOne(how, f[k - 1], changes[k])
      /\ g = [k \in 0..n |-> g[k]] /\ g[0] = first /\ \A k \in 1..n : g[k] = AfterOne(how, g[k - 1], changes[k])
  BY DEF AllInTurn
<1>1. 0 \in S
  BY <1>0
<1>2. \A k \in 0..(n - 1) : k \in S => k + 1 \in S
  <2> SUFFICES ASSUME NEW k \in 0..(n - 1), f[k] = g[k] PROVE f[k + 1] = g[k + 1]
    <3>1. \A i \in 0..(n - 1) : i + 1 \in 0..n
      OBVIOUS
    <3> QED
      BY <3>1
  <2>1. k + 1 \in 1..n /\ (k + 1) - 1 = k
    OBVIOUS
  <2>2. f[k + 1] = AfterOne(how, f[(k + 1) - 1], changes[k + 1]) /\ g[k + 1] = AfterOne(how, g[(k + 1) - 1], changes[k + 1])
    BY <2>1, <1>0
  <2> QED
    BY <2>1, <2>2
<1> HIDE DEF S
<1>3. \A k \in 0..n : k \in S
  BY <1>1, <1>2, Upward
<1>4. \A k \in 0..n : f[k] = g[k]
  BY <1>3 DEF S
<1> QED
  BY <1>0, <1>4

(* The texts that a map of paths to edits changes, in an order.            *)
TextChanges(order, edit) == [k \in 1..Len(order) |-> [path |-> order[k], edits |-> edit.changes[order[k]]]]

(* ApplyWorkspaceEdit makes them so, first the texts, then the others.     *)
LEMMA WorkspaceEditTurns ==
  ASSUME NEW store, NEW order, NEW edit, NEW m \in Nat, NEW n \in Nat, Len(order) = m, Len(edit.documentChanges) = n,
         NEW t, AllInTurn(t, "texts", m, Disk(store), TextChanges(order, edit)),
         NEW f, AllInTurn(f, "done", n, t[m], edit.documentChanges)
  PROVE  ApplyWorkspaceEdit(store, order, edit) = f[n]
<1> DEFINE rhs1(g) == [k \in 0..Len(order) |->
                         IF k = 0 THEN Disk(store)
                         ELSE IF g[k - 1].ok THEN EditText(g[k - 1].disk, order[k], edit.changes[order[k]]) ELSE g[k - 1]]
           texts1 == CHOOSE g : g = rhs1(g)
           rhs2(g) == [k \in 0..Len(edit.documentChanges) |->
                         IF k = 0 THEN texts1[Len(order)]
                         ELSE IF g[k - 1].ok THEN ApplyDocumentChange(g[k - 1].disk, edit.documentChanges[k])
                         ELSE g[k - 1]]
           changed == CHOOSE g : g = rhs2(g)
<1>1. ApplyWorkspaceEdit(store, order, edit) = changed[Len(edit.documentChanges)]
  BY DEF ApplyWorkspaceEdit
<1>2. \A g, k : k \in 1..m => rhs1(g)[k] = AfterOne("texts", g[k - 1], TextChanges(order, edit)[k])
  <2> SUFFICES ASSUME NEW g, NEW k \in 1..m PROVE rhs1(g)[k] = AfterOne("texts", g[k - 1], TextChanges(order, edit)[k])
    OBVIOUS
  <2>1. k \in 0..m /\ k # 0
    OBVIOUS
  <2>2. rhs1(g)[k] = IF g[k - 1].ok THEN EditText(g[k - 1].disk, order[k], edit.changes[order[k]]) ELSE g[k - 1]
    BY <2>1
  <2>3. TextChanges(order, edit)[k] = [path |-> order[k], edits |-> edit.changes[order[k]]]
    BY DEF TextChanges
  <2> HIDE DEF rhs1
  <2> QED
    BY <2>2, <2>3 DEF AfterOne, One
<1>3. \A g : rhs1(g) = [k \in 0..m |-> rhs1(g)[k]] /\ rhs1(g)[0] = Disk(store)
  OBVIOUS
<1>4. t = rhs1(t)
  <2>1. t = [k \in 0..m |-> t[k]] /\ t[0] = Disk(store) /\ \A k \in 1..m : t[k] = AfterOne("texts", t[k - 1], TextChanges(order, edit)[k])
    BY DEF AllInTurn
  <2> HIDE DEF rhs1
  <2>2. \A k \in 1..m : t[k] = rhs1(t)[k]
    BY <2>1, <1>2
  <2>3. \A k \in 0..m : t[k] = rhs1(t)[k]
    <3>1. \A k \in 0..m : k = 0 \/ k \in 1..m
      OBVIOUS
    <3> QED
      BY <3>1, <2>1, <2>2, <1>3
  <2> QED
    BY <2>1, <2>3, <1>3
<1>5. texts1 = rhs1(texts1)
  <2> HIDE DEF rhs1
  <2> QED
    BY <1>4
<1> HIDE DEF texts1, rhs1
<1>6. AllInTurn(texts1, "texts", m, Disk(store), TextChanges(order, edit))
  BY <1>2, <1>3, <1>5 DEF AllInTurn
<1>7. texts1 = t
  BY <1>6, TurnsOnce
<1>8. \A g, k : k \in 1..n => rhs2(g)[k] = AfterOne("done", g[k - 1], edit.documentChanges[k])
  <2> SUFFICES ASSUME NEW g, NEW k \in 1..n PROVE rhs2(g)[k] = AfterOne("done", g[k - 1], edit.documentChanges[k])
    OBVIOUS
  <2>1. k \in 0..n /\ k # 0
    OBVIOUS
  <2>2. rhs2(g)[k] = IF g[k - 1].ok THEN ApplyDocumentChange(g[k - 1].disk, edit.documentChanges[k]) ELSE g[k - 1]
    BY <2>1
  <2> HIDE DEF rhs2
  <2> QED
    BY <2>2 DEF AfterOne, One
<1>9. \A g : rhs2(g) = [k \in 0..n |-> rhs2(g)[k]] /\ rhs2(g)[0] = t[m]
  BY <1>7
<1>10. f = rhs2(f)
  <2>1. f = [k \in 0..n |-> f[k]] /\ f[0] = t[m] /\ \A k \in 1..n : f[k] = AfterOne("done", f[k - 1], edit.documentChanges[k])
    BY DEF AllInTurn
  <2> HIDE DEF rhs2
  <2>2. \A k \in 1..n : f[k] = rhs2(f)[k]
    BY <2>1, <1>8
  <2>3. \A k \in 0..n : f[k] = rhs2(f)[k]
    <3>1. \A k \in 0..n : k = 0 \/ k \in 1..n
      OBVIOUS
    <3> QED
      BY <3>1, <2>1, <2>2, <1>9
  <2> QED
    BY <2>1, <2>3, <1>9
<1>11. changed = rhs2(changed)
  <2> HIDE DEF rhs2
  <2> QED
    BY <1>10
<1> HIDE DEF changed, rhs2
<1>12. AllInTurn(changed, "done", n, t[m], edit.documentChanges)
  BY <1>8, <1>9, <1>11 DEF AllInTurn
<1>13. changed = f
  BY <1>12, TurnsOnce
<1> QED
  BY <1>1, <1>13

(* What the protocol means by changes is what each means in turn.          *)
LEMMA MeantTurns ==
  ASSUME NEW store, NEW changes, NEW n \in Nat, Len(changes) = n,
         NEW f, AllInTurn(f, "meant", n, Disk(store), changes)
  PROVE  MeantInAll(store, changes) = f[n]
<1> DEFINE rhs(g) == [k \in 0..Len(changes) |->
                        IF k = 0 THEN Disk(store)
                        ELSE IF g[k - 1].ok THEN Meant(g[k - 1].disk, changes[k]) ELSE g[k - 1]]
           changed == CHOOSE g : g = rhs(g)
<1>1. MeantInAll(store, changes) = changed[Len(changes)]
  BY DEF MeantInAll
<1>2. \A g, k : k \in 1..n => rhs(g)[k] = AfterOne("meant", g[k - 1], changes[k])
  <2> SUFFICES ASSUME NEW g, NEW k \in 1..n PROVE rhs(g)[k] = AfterOne("meant", g[k - 1], changes[k])
    OBVIOUS
  <2>1. k \in 0..n /\ k # 0
    OBVIOUS
  <2>2. rhs(g)[k] = IF g[k - 1].ok THEN Meant(g[k - 1].disk, changes[k]) ELSE g[k - 1]
    BY <2>1
  <2> HIDE DEF rhs
  <2> QED
    BY <2>2 DEF AfterOne, One
<1>3. \A g : rhs(g) = [k \in 0..n |-> rhs(g)[k]] /\ rhs(g)[0] = Disk(store)
  OBVIOUS
<1>4. f = rhs(f)
  <2>1. f = [k \in 0..n |-> f[k]] /\ f[0] = Disk(store) /\ \A k \in 1..n : f[k] = AfterOne("meant", f[k - 1], changes[k])
    BY DEF AllInTurn
  <2> HIDE DEF rhs
  <2>2. \A k \in 1..n : f[k] = rhs(f)[k]
    BY <2>1, <1>2
  <2>3. \A k \in 0..n : f[k] = rhs(f)[k]
    <3>1. \A k \in 0..n : k = 0 \/ k \in 1..n
      OBVIOUS
    <3> QED
      BY <3>1, <2>1, <2>2, <1>3
  <2> QED
    BY <2>1, <2>3, <1>3
<1>5. changed = rhs(changed)
  <2> HIDE DEF rhs
  <2> QED
    BY <1>4
<1> HIDE DEF changed, rhs
<1>6. AllInTurn(changed, "meant", n, Disk(store), changes)
  BY <1>2, <1>3, <1>5 DEF AllInTurn
<1>7. changed = f
  BY <1>6, TurnsOnce
<1> QED
  BY <1>1, <1>7

(* One change.                                                             *)
Kinds == {"create", "delete", "rename", "edit"}

Unasked(c) == c.kind = "create" \/ "recursive" \in c.options \/ (c.kind = "rename" /\ c.options = NoOptions)

(* Where the code heeds the options it does what is meant.                 *)
LEMMA OneChange ==
  ASSUME NEW store, NEW c, c.kind \in Kinds
  PROVE  /\ Meant(store, c).ok /\ Heeded(c) => ApplyDocumentChange(store, c) = Meant(store, c)
         /\ ApplyDocumentChange(store, c).ok /\ ~Unasked(c) => Meant(store, c) = ApplyDocumentChange(store, c)
<1>0. (\A d : Disk(d).ok) /\ (\A d : ~Aborted(d).ok)
  BY DEF Disk, Aborted
<1>1. CASE c.kind = "create"
  <2>1. ApplyDocumentChange(store, c) = CreateFile(store, c)
    BY <1>1 DEF ApplyDocumentChange
  <2>2. Meant(store, c) = IF c.path \notin DOMAIN store \/ "overwrite" \in c.options
                         THEN Disk(PutFile(store, c.path, Empty))
                         ELSE IF "ignoreIfExists" \in c.options THEN Disk(store) ELSE Aborted(store)
    BY <1>1 DEF Meant
  <2> QED
    BY <1>0, <1>1, <2>1, <2>2 DEF CreateFile, Unasked
<1>2. CASE c.kind = "delete"
  <2>1. ApplyDocumentChange(store, c) = DeleteFile(store, c)
    BY <1>2 DEF ApplyDocumentChange
  <2>2. Meant(store, c) = IF c.path \in DOMAIN store THEN Disk(WithoutFile(store, c.path))
                         ELSE IF "ignoreIfNotExists" \in c.options THEN Disk(store) ELSE Aborted(store)
    BY <1>2 DEF Meant
  <2> QED
    BY <1>0, <2>1, <2>2 DEF DeleteFile, Unasked, Heeded
<1>3. CASE c.kind = "rename"
  <2>1. ApplyDocumentChange(store, c) = RenameFile(store, c)
    BY <1>3 DEF ApplyDocumentChange
  <2>2. Meant(store, c) = IF c.path \notin DOMAIN store THEN Aborted(store)
                         ELSE IF c.to \notin DOMAIN store \/ "overwrite" \in c.options
                         THEN Disk(Moved(store, c.path, c.to))
                         ELSE IF "ignoreIfExists" \in c.options THEN Disk(store) ELSE Aborted(store)
    BY <1>3 DEF Meant
  <2> QED
    BY <1>0, <1>3, <2>1, <2>2 DEF RenameFile, Unasked, Heeded
<1>4. CASE c.kind = "edit"
  <2>1. ApplyDocumentChange(store, c) = EditText(store, c.path, c.edits)
    BY <1>4 DEF ApplyDocumentChange
  <2>2. Meant(store, c) = EditText(store, c.path, c.edits)
    BY <1>4 DEF Meant
  <2> QED
    BY <2>1, <2>2
<1> QED
  BY <1>1, <1>2, <1>3, <1>4 DEF Kinds

(* Many changes.                                                           *)
LEMMA MeantIsDone ==
  ASSUME NEW store, NEW changes, NEW n \in Nat, \A k \in 1..n : changes[k].kind \in Kinds,
         NEW f, AllInTurn(f, "done", n, Disk(store), changes), NEW g, AllInTurn(g, "meant", n, Disk(store), changes)
  PROVE  /\ g[n].ok /\ (\A k \in 1..n : Heeded(changes[k])) => f[n] = g[n]
         /\ f[n].ok /\ (\A k \in 1..n : ~Unasked(changes[k])) => g[n] = f[n]
<1>0. /\ f[0] = Disk(store) /\ \A k \in 1..n : f[k] = AfterOne("done", f[k - 1], changes[k])
      /\ g[0] = Disk(store) /\ \A k \in 1..n : g[k] = AfterOne("meant", g[k - 1], changes[k])
  BY DEF AllInTurn
<1>1. \A k \in 1..n : /\ f[k] = IF f[k - 1].ok THEN ApplyDocumentChange(f[k - 1].disk, changes[k]) ELSE f[k - 1]
                      /\ g[k] = IF g[k - 1].ok THEN Meant(g[k - 1].disk, changes[k]) ELSE g[k - 1]
  BY <1>0 DEF AfterOne, One
<1>2. \A i \in 0..(n - 1) : i + 1 \in 0..n /\ i + 1 \in 1..n /\ (i + 1) - 1 = i
  OBVIOUS
<1>3. ASSUME \A k \in 1..n : Heeded(changes[k]), g[n].ok
      PROVE  f[n] = g[n]
  <2> DEFINE S == {k \in 0..n : g[k].ok => f[k] = g[k]}
  <2>1. 0 \in S
    BY <1>0
  <2>2. \A k \in 0..(n - 1) : k \in S => k + 1 \in S
    <3> SUFFICES ASSUME NEW k \in 0..(n - 1), g[k].ok => f[k] = g[k], g[k + 1].ok PROVE f[k + 1] = g[k + 1]
      BY <1>2
    <3>1. PICK j \in 1..n : j = k + 1 /\ j - 1 = k
      BY <1>2
    <3>2. g[k].ok
      BY <3>1, <1>1
    <3>3. f[k] = g[k]
      BY <3>2
    <3>4. f[j] = ApplyDocumentChange(f[k].disk, changes[j]) /\ g[j] = Meant(f[k].disk, changes[j])
      BY <3>1, <3>2, <3>3, <1>1
    <3>5. changes[j].kind \in Kinds /\ Heeded(changes[j])
      BY <1>3
    <3>6. Meant(f[k].disk, changes[j]).ok /\ Heeded(changes[j]) =>
            ApplyDocumentChange(f[k].disk, changes[j]) = Meant(f[k].disk, changes[j])
      BY <3>5, OneChange
    <3>7. g[j].ok
      BY <3>1
    <3> QED
      BY <3>1, <3>4, <3>5, <3>6, <3>7
  <2> HIDE DEF S
  <2>3. \A k \in 0..n : k \in S
    BY <2>1, <2>2, Upward
  <2>4. n \in S
    BY <2>3
  <2> QED
    BY <2>4, <1>3 DEF S
<1>4. ASSUME \A k \in 1..n : ~Unasked(changes[k]), f[n].ok
      PROVE  g[n] = f[n]
  <2> DEFINE S == {k \in 0..n : f[k].ok => g[k] = f[k]}
  <2>1. 0 \in S
    BY <1>0
  <2>2. \A k \in 0..(n - 1) : k \in S => k + 1 \in S
    <3> SUFFICES ASSUME NEW k \in 0..(n - 1), f[k].ok => g[k] = f[k], f[k + 1].ok PROVE g[k + 1] = f[k + 1]
      BY <1>2
    <3>1. PICK j \in 1..n : j = k + 1 /\ j - 1 = k
      BY <1>2
    <3>2. f[k].ok
      BY <3>1, <1>1
    <3>3. g[k] = f[k]
      BY <3>2
    <3>4. f[j] = ApplyDocumentChange(f[k].disk, changes[j]) /\ g[j] = Meant(f[k].disk, changes[j])
      BY <3>1, <3>2, <3>3, <1>1
    <3>5. changes[j].kind \in Kinds /\ ~Unasked(changes[j])
      BY <1>4
    <3>6. ApplyDocumentChange(f[k].disk, changes[j]).ok /\ ~Unasked(changes[j]) =>
            Meant(f[k].disk, changes[j]) = ApplyDocumentChange(f[k].disk, changes[j])
      BY <3>5, OneChange
    <3>7. f[j].ok
      BY <3>1
    <3> QED
      BY <3>1, <3>4, <3>5, <3>6, <3>7
  <2> HIDE DEF S
  <2>3. \A k \in 0..n : k \in S
    BY <2>1, <2>2, Upward
  <2>4. n \in S
    BY <2>3
  <2> QED
    BY <2>4, <1>4 DEF S
<1> QED
  BY <1>3, <1>4

(* Without texts in a map it is the changes alone.                         *)
LEMMA ChangesAlone ==
  ASSUME NEW store, NEW changes, NEW n \in Nat, Len(changes) = n,
         NEW f, AllInTurn(f, "done", n, Disk(store), changes)
  PROVE  ApplyWorkspaceEdit(store, <<>>, [documentChanges |-> changes]) = f[n]
<1> DEFINE edit == [documentChanges |-> changes]
<1>1. edit.documentChanges = changes /\ Len(<<>>) = 0
  OBVIOUS
<1> HIDE DEF edit
<1>2. CanTurn("texts", 0, Disk(store), TextChanges(<<>>, edit))
  BY TurnsExist
<1>3. PICK t : AllInTurn(t, "texts", 0, Disk(store), TextChanges(<<>>, edit))
  BY <1>2 DEF CanTurn
<1>4. t[0] = Disk(store)
  BY <1>3 DEF AllInTurn
<1>5. AllInTurn(f, "done", n, t[0], edit.documentChanges)
  BY <1>1, <1>4
<1>6. ApplyWorkspaceEdit(store, <<>>, edit) = f[n]
  BY <1>1, <1>3, <1>5, WorkspaceEditTurns
<1> QED
  BY <1>6 DEF edit

(* Edits of texts, each of another file, in either form.                   *)
PathsOf(edited) == [i \in 1..Len(edited) |-> edited[i].path]

ByPath(edited) ==
  [changes |-> [p \in ToSet(PathsOf(edited)) |-> (CHOOSE c \in ToSet(edited) : c.path = p).edits],
   documentChanges |-> <<>>]

(* Both forms come to the same.                                            *)
LEMMA BothForms ==
  ASSUME NEW store, NEW edited, NEW n \in Nat, Len(edited) = n, DOMAIN edited = 1..n,
         \A i \in 1..n : edited[i].kind = "edit", IsInjective(PathsOf(edited))
  PROVE  ApplyWorkspaceEdit(store, <<>>, [documentChanges |-> edited])
           = ApplyWorkspaceEdit(store, PathsOf(edited), ByPath(edited))
<1> DEFINE paths == PathsOf(edited)
           edit == ByPath(edited)
           asked == TextChanges(paths, edit)
<1>1. DOMAIN paths = 1..n /\ Len(paths) = n /\ \A i \in 1..n : paths[i] = edited[i].path
  BY DEF PathsOf
<1>2. \A i, j \in 1..n : paths[i] = paths[j] => i = j
  BY <1>1 DEF IsInjective
<1>3. edit.documentChanges = <<>> /\ Len(<<>>) = 0
  BY DEF ByPath
<1> HIDE DEF paths
<1>4. \A i \in 1..n : edit.changes[paths[i]] = edited[i].edits
  <2> TAKE i \in 1..n
  <2>1. paths[i] \in ToSet(paths) /\ edited[i] \in ToSet(edited) /\ edited[i].path = paths[i]
    BY <1>1 DEF ToSet
  <2>2. ASSUME NEW c \in ToSet(edited), c.path = paths[i] PROVE c = edited[i]
    <3>1. PICK j \in 1..n : c = edited[j]
      BY DEF ToSet
    <3> QED
      BY <3>1, <2>2, <1>1, <1>2
  <2> DEFINE of(p) == CHOOSE c \in ToSet(edited) : c.path = p
  <2>3. of(paths[i]) = edited[i]
    BY <2>1, <2>2
  <2>4. edit.changes = [p \in ToSet(paths) |-> of(p).edits]
    BY DEF ByPath, paths
  <2> HIDE DEF edit, of
  <2> QED
    BY <2>1, <2>3, <2>4
<1>5. \A i \in 1..n : asked[i].path = edited[i].path /\ asked[i].edits = edited[i].edits
  <2> HIDE DEF edit
  <2> QED
    BY <1>1, <1>4 DEF TextChanges
<1> HIDE DEF edit
<1>6. CanTurn("done", n, Disk(store), edited)
  BY TurnsExist
<1>7. PICK f : AllInTurn(f, "done", n, Disk(store), edited)
  BY <1>6 DEF CanTurn
<1>8. \A i \in 1..n : \A last : AfterOne("done", last, edited[i]) = AfterOne("texts", last, asked[i])
  <2> TAKE i \in 1..n
  <2> TAKE last
  <2>1. ApplyDocumentChange(last.disk, edited[i]) = EditText(last.disk, edited[i].path, edited[i].edits)
    BY DEF ApplyDocumentChange
  <2> HIDE DEF asked
  <2>2. One("done", last.disk, edited[i]) = One("texts", last.disk, asked[i])
    BY <2>1, <1>5 DEF One
  <2> QED
    BY <2>2 DEF AfterOne
<1> HIDE DEF asked
<1>9. AllInTurn(f, "texts", n, Disk(store), asked)
  <2>1. /\ f = [k \in 0..n |-> f[k]] /\ f[0] = Disk(store)
        /\ \A k \in 1..n : f[k] = AfterOne("done", f[k - 1], edited[k])
    BY <1>7 DEF AllInTurn
  <2>2. \A k \in 1..n : f[k] = AfterOne("texts", f[k - 1], asked[k])
    BY <2>1, <1>8
  <2> QED
    BY <2>1, <2>2 DEF AllInTurn
<1>10. CanTurn("done", 0, f[n], edit.documentChanges)
  BY TurnsExist
<1>11. PICK h : AllInTurn(h, "done", 0, f[n], edit.documentChanges)
  BY <1>10 DEF CanTurn
<1>12. h[0] = f[n]
  BY <1>11 DEF AllInTurn
<1>13. ApplyWorkspaceEdit(store, paths, edit) = h[0]
  BY <1>1, <1>3, <1>9, <1>11, WorkspaceEditTurns DEF asked
<1>14. ApplyWorkspaceEdit(store, <<>>, [documentChanges |-> edited]) = f[n]
  BY <1>7, ChangesAlone
<1> QED
  BY <1>12, <1>13, <1>14 DEF paths, edit

(* What is written by changes of files.                                    *)
LEMMA FilesExact ==
  ASSUME ChangesAsked
  PROVE  ChangesExact(question.disk, question.changes,
                      ApplyWorkspaceEdit(question.disk, <<>>, [documentChanges |-> question.changes]),
                      MeantInAll(question.disk, question.changes))
<1> DEFINE store == question.disk
           changes == question.changes
           n == Len(changes)
           result == ApplyWorkspaceEdit(store, <<>>, [documentChanges |-> changes])
           meant == MeantInAll(store, changes)
           I == {i \in 1..n : changes[i].kind = "edit"}
           edited == Filtered(changes, LAMBDA c : c.kind = "edit")
<1>1. n \in Nat /\ DOMAIN changes = 1..n /\ \A k \in 1..n : changes[k].kind \in Kinds
  BY DEF ChangesAsked, Kinds
<1>2. edited = Chosen(changes, I)
  BY DEF Filtered
<1>3. I \in SUBSET (1..n)
  OBVIOUS
<1> HIDE DEF store, changes, n, I, edited
<1>4. CanTurn("done", n, Disk(store), changes) /\ CanTurn("meant", n, Disk(store), changes)
  BY <1>1, TurnsExist
<1>5. PICK f, g : AllInTurn(f, "done", n, Disk(store), changes) /\ AllInTurn(g, "meant", n, Disk(store), changes)
  BY <1>4 DEF CanTurn
<1>6. result = f[n]
  <2>1. Len(changes) = n
    BY DEF n
  <2> QED
    BY <1>1, <1>5, <2>1, ChangesAlone
<1>7. meant = g[n]
  <2>1. Len(changes) = n
    BY DEF n
  <2> QED
    BY <1>1, <1>5, <2>1, MeantTurns
<1>8. /\ g[n].ok /\ (\A k \in 1..n : Heeded(changes[k])) => f[n] = g[n]
      /\ f[n].ok /\ (\A k \in 1..n : ~Unasked(changes[k])) => g[n] = f[n]
  BY <1>1, <1>5, MeantIsDone
<1>9. \A k \in 1..n : changes[k] \in ToSet(changes)
  BY <1>1 DEF ToSet
<1> HIDE DEF result, meant
<1>10. meant.ok /\ (\A c \in ToSet(changes) : Heeded(c)) => result = meant
  BY <1>6, <1>7, <1>8, <1>9
<1>11. result.ok /\ ~meant.ok => \E c \in ToSet(changes) : \/ c.kind = "create" \/ "recursive" \in c.options
                                                           \/ c.kind = "rename" /\ c.options = NoOptions
  <2> SUFFICES ASSUME result.ok, ~meant.ok PROVE \E c \in ToSet(changes) : Unasked(c)
    BY DEF Unasked
  <2>1. \E k \in 1..n : Unasked(changes[k])
    BY <1>6, <1>7, <1>8
  <2> QED
    BY <2>1, <1>9
<1>12. \E m \in Nat : Len(edited) = m /\ DOMAIN edited = 1..m /\ \A i \in 1..m : edited[i].kind = "edit"
  <2> DEFINE m == Cardinality(I)
  <2>1. m \in Nat /\ \A j \in 1..m : Nth(I, j) \in I
    BY <1>1, <1>3, PlacesFinite, NthRight
  <2>2. edited = [j \in 1..m |-> changes[Nth(I, j)]]
    BY <1>2 DEF Chosen
  <2>3. \A i \in I : changes[i].kind = "edit"
    BY DEF I
  <2> HIDE DEF m
  <2>4. Len(edited) = m /\ DOMAIN edited = 1..m
    BY <2>1, <2>2
  <2>5. \A i \in 1..m : edited[i].kind = "edit"
    BY <2>1, <2>2, <2>3
  <2> QED
    BY <2>1, <2>4, <2>5
<1>13. PICK m \in Nat : Len(edited) = m /\ DOMAIN edited = 1..m /\ \A i \in 1..m : edited[i].kind = "edit"
  BY <1>12
<1>14. IsInjective(PathsOf(edited)) =>
         ApplyWorkspaceEdit(store, <<>>, [documentChanges |-> edited])
           = ApplyWorkspaceEdit(store, PathsOf(edited), ByPath(edited))
  BY <1>13, BothForms
<1>15. ChangesExact(store, changes, result, meant)
  BY <1>10, <1>11, <1>14 DEF ChangesExact, PathsOf, ByPath, edited
<1> QED
  BY <1>15 DEF result, meant, store, changes

-----------------------------------------------------------------------------
(* The questions, as the specification asks them: any that is well formed, *)
(* for as long as it stays.                                                *)

AnswersAsked ==
  /\ question.topic = "edits" => EditsAsked
  /\ question.topic = "lines" => LinesAsked
  /\ question.topic = "changes" => ChangesAsked
  /\ question.topic = "graph" => GraphAsked
  /\ question.topic = "tokens" => TokensAsked

(* A question stays as it was asked.                                       *)
LEMMA AnswersAskedWell == ToolsSpec => []AnswersAsked
<1>1. WellFormed => AnswersAsked
  BY DEF WellFormed, AnswersAsked
<1>2. AnswersAsked /\ [ToolsNext]_ToolsVars => AnswersAsked'
  <2> SUFFICES ASSUME AnswersAsked, [ToolsNext]_ToolsVars PROVE AnswersAsked'
    OBVIOUS
  <2>1. question' = question
    BY DEF ToolsNext, ToolsVars
  <2>2. GraphAsked' <=> GraphAsked
    BY <2>1 DEF GraphAsked
  <2>3. TokensAsked' <=> TokensAsked
    BY <2>1 DEF TokensAsked
  <2>4. /\ EditsAsked' <=> EditsAsked
        /\ LinesAsked' <=> LinesAsked
        /\ ChangesAsked' <=> ChangesAsked
    BY <2>1 DEF EditsAsked, LinesAsked, ChangesAsked
  <2> QED
    BY <2>1, <2>2, <2>3, <2>4 DEF AnswersAsked
<1> QED
  BY <1>1, <1>2, PTL DEF ToolsSpec

(* For any call hierarchy, depth and direction, dependency_graph walks the *)
(* calls that are there, all of them if it goes deep enough, both ways as  *)
(* each by itself, and draws what it has walked (dependency_graph.go); and *)
(* for any tokens, the callees put together from them are the targets of   *)
(* the functions and methods named (synthetic_outgoing.go).                *)
THEOREM GraphsAreRight == ToolsSpec => []GraphRight
<1>1. AnswersAsked => GraphRight
  BY WalkRightThere, TokensRightThere DEF AnswersAsked, GraphRight
<1> QED
  BY <1>1, AnswersAskedWell, PTL

(* Of places, of lines and of files.                                       *)
LEMMA AllExact ==
  ASSUME AnswersAsked
  PROVE  EditsExact
<1>1. question.topic = "edits" => TextEditsExact
  BY TextsExact DEF AnswersAsked
<1>2. question.topic = "lines" => LineEditsExact
  BY LinesExact DEF AnswersAsked
<1>3. question.topic = "changes" =>
        ChangesExact(question.disk, question.changes,
                     ApplyWorkspaceEdit(question.disk, <<>>, [documentChanges |-> question.changes]),
                     MeantInAll(question.disk, question.changes))
  BY FilesExact DEF AnswersAsked
<1> QED
  BY <1>1, <1>2, <1>3 DEF EditsExact

(* For any edits of places in any text, ApplyTextEdits (edit.go) does what *)
(* the protocol means by them unless one empties its lines, and so it does *)
(* of what format_file leaves of them (format.go); for any edits of lines  *)
(* edit_file replaces the lines named and refuses exactly those that share *)
(* one (edit_file.go); and any changes of files do what is meant by them   *)
(* as far as their options are heeded, in either form (edit.go).           *)
THEOREM EditsAreExact == ToolsSpec => []EditsExact
<1>1. AnswersAsked => EditsExact
  BY AllExact
<1> QED
  BY <1>1, AnswersAskedWell, PTL
=============================================================================
