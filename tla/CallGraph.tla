------------------------------- MODULE CallGraph -------------------------------
(***************************************************************************)
(* The call graph of a symbol: internal/tools/dependency_graph.go, and     *)
(* synthetic_outgoing.go, which finds the callees of a function among the  *)
(* tokens of its text when the server cannot tell them.                    *)
(*                                                                         *)
(* An item of the call hierarchy has a key, its file and name: two methods *)
(* of one name in a file share a node.  calls gives the items that a       *)
(* request for an item returns, none if it fails.  A token is [line, char, *)
(* type], a range [from, to] of positions <<line, char>>.                  *)
(***************************************************************************)
EXTENDS Integers, Sequences, FiniteSets, SequencesExt

EmptyGraph == [nodes |-> {}, edges |-> {}, seen |-> {}]

(* What a walk makes of a graph, from an item and the graph so far.        *)
Graphs(key) == [nodes : SUBSET Range(key), edges : SUBSET (Range(key) \X Range(key)), seen : SUBSET Range(key)]

(* A node is added, or expanded; that any was is forgotten; a call is      *)
(* met: its node, and the edge from the caller to the callee.              *)
AddNode(g, k) == [nodes |-> g.nodes \cup {k}, edges |-> g.edges, seen |-> g.seen]

Forgotten(g) == [nodes |-> g.nodes, edges |-> g.edges, seen |-> {}]

Marked(g, k) == [nodes |-> g.nodes, edges |-> g.edges, seen |-> g.seen \cup {k}]

Linked(g, k, c, out) ==
  [nodes |-> g.nodes \cup {c}, edges |-> g.edges \cup {IF out THEN <<k, c>> ELSE <<c, k>>}, seen |-> g.seen]

(* Seeded fault: a node is taken for expanded when its calls are cut off.  *)
ExpandedMarking(walk, calls, key, out, i, g) ==
  LET all == {key[calls[i][n]] : n \in 1..Len(calls[i])}
      after[n \in 0..Len(calls[i])] ==
        IF n = 0 THEN Marked(g, key[i])
        ELSE walk[calls[i][n]][[Linked(after[n - 1], key[i], key[calls[i][n]], out) EXCEPT !.seen = @ \cup all]]
  IN  after[Len(calls[i])]

(* The calls of an item, one after the other, each in the graph that the   *)
(* walks from those before it have left.                                   *)
Expanded(walk, calls, key, out, i, g) ==
  LET after[n \in 0..Len(calls[i])] ==
        IF n = 0 THEN Marked(g, key[i])
        ELSE walk[calls[i][n]][Linked(after[n - 1], key[i], key[calls[i][n]], out)]
  IN  after[Len(calls[i])]

(* walkOutgoing and walkIncoming: depth first, each node expanded once, at *)
(* whatever depth it is met first.                                         *)
Walk(calls, key, out, root, depth, graph) ==
  LET walk[r \in 0..depth] ==
        [i \in DOMAIN calls |-> [g \in Graphs(key) |->
           IF r = 0 \/ key[i] \in g.seen THEN g ELSE Expanded(walk[r - 1], calls, key, out, i, g)]]
  IN  IF depth <= 0 THEN graph ELSE walk[depth][root][graph]

(* The walks from one root share what is seen with those from the roots    *)
(* before it, except that it is forgotten between the two directions.      *)
WalkFrom(callees, callers, key, depth, direction, root, g) ==
  LET start == AddNode(g, key[root])
      outgoing == Walk(callees, key, TRUE, root, depth, start)
  IN  IF direction = "outgoing" THEN outgoing
      ELSE IF direction = "incoming" THEN Walk(callers, key, FALSE, root, depth, start)
      ELSE Walk(callers, key, FALSE, root, depth, Forgotten(outgoing))

GenerateCallGraph(roots, callees, callers, key, depth, direction) ==
  LET after[n \in 0..Len(roots)] ==
        IF n = 0 THEN EmptyGraph ELSE WalkFrom(callees, callers, key, depth, direction, roots[n], after[n - 1])
  IN  after[Len(roots)]

(* The nodes are numbered in the order of a map; an edge names its two.    *)
RenderMermaid(graph) ==
  LET nodes == SetToSeq(graph.nodes)
      id == [k \in graph.nodes |-> CHOOSE i \in 1..Len(nodes) : nodes[i] = k]
  IN  [declared |-> nodes, drawn |-> {<<id[e[1]], id[e[2]]>> : e \in graph.edges}]

-----------------------------------------------------------------------------
(* The tokens, five numbers each in the protocol, of which the last is     *)
(* left aside: lines and characters are told relative to the last token,   *)
(* characters only on the same line.                                       *)

DecodeSemanticTokens(data, types) ==
  LET token[i \in 1..Len(data)] ==
        LET last == IF i = 1 THEN [line |-> 0, char |-> 0] ELSE token[i - 1]
            d == data[i]
        IN  [line |-> last.line + d.line,
             char |-> IF d.line > 0 THEN d.char ELSE last.char + d.char,
             type |-> IF d.type \in 1..Len(types) THEN types[d.type] ELSE ""]
  IN  token

NotAfter(p, q) == p[1] < q[1] \/ (p[1] = q[1] /\ p[2] <= q[2])
RangeContains(r, t) == NotAfter(r.from, <<t.line, t.char>>) /\ ~NotAfter(r.to, <<t.line, t.char>>)

(* The functions and methods named in the item's range, but for its own    *)
(* name; of each the first definition, whatever could not be resolved left *)
(* out; each target once, in the order of a map.  A target that is no item *)
(* of the hierarchy gets an item of its own (prepared).                    *)
SyntheticOutgoingCalls(item, data, types, definition, prepared) ==
  LET tokens == DecodeSemanticTokens(data, types)
      callable == {t \in ToSet(tokens) : /\ t.type \in {"function", "method"}
                                         /\ RangeContains(item.range, t) /\ ~RangeContains(item.selection, t)}
      found == {t \in callable : definition[<<t.line, t.char>>] # <<>>}
      targets == {definition[<<t.line, t.char>>][1] : t \in found}
  IN  SetToSeq({prepared[target] : target \in targets})

-----------------------------------------------------------------------------
(* For comparison: what a number of calls away from the root is.           *)

CallsOf(calls, key) ==
  UNION {{<<key[i], key[calls[i][j]]>> : j \in 1..Len(calls[i])} : i \in DOMAIN calls}

Within(calls, key, root, depth) ==
  LET near[n \in 0..depth] ==
        IF n = 0 THEN {key[root]}
        ELSE near[n - 1] \cup {e[2] : e \in {e \in CallsOf(calls, key) : e[1] \in near[n - 1]}}
  IN  IF depth <= 0 THEN {key[root]} ELSE near[depth]

(* The tokens of a text, in order, as the protocol sends them.             *)
Encoded(tokens, types) ==
  [i \in 1..Len(tokens) |->
    LET last == IF i = 1 THEN [line |-> 0, char |-> 0] ELSE tokens[i - 1]
        t == tokens[i]
    IN  [line |-> t.line - last.line,
         char |-> IF t.line = last.line THEN t.char - last.char ELSE t.char,
         type |-> CHOOSE k \in 1..Len(types) : types[k] = t.type]]
=============================================================================
