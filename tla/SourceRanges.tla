------------------------------ MODULE SourceRanges ------------------------------
(***************************************************************************)
(* Which lines of a file a tool shows: internal/tools/lsp-utilities.go and *)
(* utilities.go.                                                           *)
(*                                                                         *)
(* A position is <<line, character>>, a range [from, to].  The symbols of a*)
(* document are listed in the order of a walk through their tree, each with*)
(* its depth there: [depth, range, name].  Of a line the model knows if it *)
(* ends in an opening bracket, and the line, if any, that closes it.       *)
(***************************************************************************)
EXTENDS Selections, SequencesExt

AtOrBefore(p, q) == p[1] < q[1] \/ (p[1] = q[1] /\ p[2] <= q[2])

(* The end of a range does not belong to it.                               *)
ContainsPosition(r, p) == AtOrBefore(r.from, p) /\ AtOrBefore(p, r.to) /\ p # r.to

(* What a symbol is below, and its siblings that come before it.           *)
Above(symbols, n) == {m \in 1..(n - 1) : \A k \in (m + 1)..n : symbols[k].depth > symbols[m].depth}

Elder(symbols, n) ==
  {m \in 1..(n - 1) : symbols[m].depth = symbols[n].depth /\ \A k \in m..n : symbols[k].depth >= symbols[n].depth}

(* Among siblings the first that contains the position, and so on among    *)
(* its children, as deep as one of them does: searchSymbols.  All these    *)
(* are above the last of them; 0 when there is none.                       *)
Innermost(symbols, p) ==
  LET first(n) == /\ ContainsPosition(symbols[n].range, p)
                  /\ \A m \in Elder(symbols, n) : ~ContainsPosition(symbols[m].range, p)
      met == {n \in 1..Len(symbols) : \A m \in Above(symbols, n) \cup {n} : first(m)}
  IN  IF met = {} THEN 0 ELSE CHOOSE n \in met : \A m \in met : m <= n

(* When a name is looked for and the range found is that of a TOP-LEVEL    *)
(* symbol with children, the first symbol below it with the name is taken  *)
(* instead: refineSearch.                                                  *)
Refined(symbols, n, name) ==
  LET tops == {i \in 1..(Len(symbols) - 1) : /\ symbols[i].depth = 0 /\ symbols[i + 1].depth > 0
                                             /\ symbols[i].range = symbols[n].range}
      named == {q \in 1..Len(symbols) : First(tops) \in Above(symbols, q) /\ symbols[q].name = name}
  IN  IF name = "" \/ tops = {} \/ named = {} THEN n ELSE First(named)

(* GetFullDefinition: the whole lines of the symbol at a position.  A      *)
(* range that ends on a line with an open bracket goes on to the line that *)
(* closes it.  brackets[l] is that line, or l itself if line l ends in no  *)
(* bracket or in one that is not closed.                                   *)
WholeLines(range, total, brackets) ==
  IF range.to[1] >= total THEN [ok |-> FALSE]
  ELSE [ok |-> TRUE, first |-> range.from[1], last |-> brackets[range.to[1]]]

DefinitionAt(symbols, n, name, total, brackets) ==
  IF n = 0 THEN [ok |-> FALSE]
  ELSE WholeLines(symbols[Refined(symbols, n, name)].range, total, brackets)

GetFullDefinition(symbols, p, name, total, brackets) ==
  DefinitionAt(symbols, Innermost(symbols, p), name, total, brackets)

Around(line, context) == (line - context)..(line + context)

(* The lines to display for some places: the head of the container, the    *)
(* line itself, and the context within the container; without a container, *)
(* the context within the file.                                            *)
LinesAround(def, line, total, context) ==
  LET near == (0..(total - 1)) \cap Around(line, context)
  IN  IF def.ok THEN {def.first, line} \cup (near \cap def.first..def.last) ELSE {line} \cup near

GetLineRangesToDisplay(symbols, places, total, context, brackets) ==
  UNION {LinesAround(GetFullDefinition(symbols, p, "", total, brackets), p[1], total, context) : p \in ToSet(places)}

(* Seeded fault: a gap of one line does not end a range.                   *)
RangesOverGaps(shown, total) ==
  LET S == {l \in shown : 0 <= l /\ l < total}
      starts == Ascending({l \in S : l - 1 \notin S /\ l - 2 \notin S})
  IN  [i \in 1..Len(starts) |-> <<starts[i], First({l \in S : l >= starts[i] /\ l + 1 \notin S /\ l + 2 \notin S})>>]

(* The lines of the file among them, grouped into runs.                    *)
ConvertLinesToRanges(shown, total) ==
  LET S == {l \in shown : 0 <= l /\ l < total}
      starts == Ascending({l \in S : l - 1 \notin S})
  IN  [i \in 1..Len(starts) |-> <<starts[i], First({l \in S : l >= starts[i] /\ l + 1 \notin S})>>]

(* The rows of the answer: numbered lines, a row of dots between two       *)
(* ranges that do not touch.                                               *)
Dots == -1

FormatLinesWithRanges(ranges) ==
  Flattened([i \in 1..Len(ranges) |->
    (IF i > 1 /\ ranges[i][1] > ranges[i - 1][2] + 1 THEN <<Dots>> ELSE <<>>)
    \o [k \in 1..(ranges[i][2] - ranges[i][1] + 1) |-> ranges[i][1] + k - 1]])

-----------------------------------------------------------------------------
(* For comparison: the symbols that contain a position, and a range that   *)
(* is within another.                                                      *)

Containing(symbols, p) == {n \in 1..Len(symbols) : ContainsPosition(symbols[n].range, p)}

Encloses(outer, inner) == AtOrBefore(outer.from, inner.from) /\ AtOrBefore(inner.to, outer.to)
=============================================================================
