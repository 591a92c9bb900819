------------------------------- MODULE TextEdits -------------------------------
(***************************************************************************)
(* What becomes of a text: internal/utilities/edit.go, which applies the   *)
(* edits of a language server, the line edits of internal/tools/edit_file  *)
(* .go, and the filter of internal/tools/format.go.                        *)
(*                                                                         *)
(* A text is the sequence of its lines without their endings, as           *)
(* strings.Split gives it: a text that ends in a newline has an empty last *)
(* line, and the empty text is one empty line.  A line is a sequence of    *)
(* characters; the model counts as the code does, in units of one, and     *)
(* has one kind of line ending.  Lines and characters are numbered from 0  *)
(* in an edit of a server and from 1 in an edit of edit_file.              *)
(*                                                                         *)
(* An edit of a server is [sl, sc, el, ec, new]: the start and the end of  *)
(* the range, and the lines of the new text.                               *)
(***************************************************************************)
EXTENDS Selections, SequencesExt

Empty == << <<>> >>           \* the empty text, and the empty new text

Failed == [ok |-> FALSE]
Text(t) == [ok |-> TRUE, text |-> t]

(* Seeded fault: ranges that touch may both be applied.                    *)
StrictOverlap(a, b) ==
  /\ a.sl <= b.el /\ b.sl <= a.el
  /\ a.sl = b.el => a.sc < b.ec
  /\ b.sl = a.el => b.sc < a.ec

(* RangesOverlap: ranges that only touch count as overlapping, as do two   *)
(* insertions at one place.                                                *)
RangesOverlap(a, b) ==
  /\ a.sl <= b.el /\ b.sl <= a.el
  /\ a.sl = b.el => a.sc <= b.ec
  /\ b.sl = a.el => b.sc <= a.ec

Before(p, q) == p[1] < q[1] \/ (p[1] = q[1] /\ p[2] < q[2])

(* The order of edits that start at these places, the last first: the k-th *)
(* is the one that k - 1 others come before.  Edits with one start come in *)
(* the order given.                                                        *)
LastFirst(starts) ==
  LET edits == 1..Len(starts)
      first(i, j) == Before(starts[j], starts[i]) \/ (~Before(starts[i], starts[j]) /\ i < j)
  IN  [k \in edits |-> CHOOSE i \in edits : Cardinality({j \in edits : first(j, i)}) = k - 1]

Take(line, n) == SubSeq(line, 1, IF n > Len(line) THEN Len(line) ELSE n)
Drop(line, n) == SubSeq(line, n + 1, Len(line))

(* The lines that replace those of the range: what stands before it, the   *)
(* new text, what stands after it.  An end line beyond the text becomes    *)
(* the last one, at the character given.  When nothing is left the line    *)
(* goes.                                                                   *)
Splice(lines, e) ==
  LET el == IF e.el >= Len(lines) THEN Len(lines) - 1 ELSE e.el
      head == Take(lines[e.sl + 1], e.sc)
      rest == Drop(lines[el + 1], e.ec)
  IN  IF e.new = Empty /\ head \o rest = <<>> THEN <<>>
      ELSE IF Len(e.new) = 1 THEN << head \o e.new[1] \o rest >>
      ELSE << head \o e.new[1] >> \o SubSeq(e.new, 2, Len(e.new) - 1)
           \o << e.new[Len(e.new)] \o rest >>

ApplyTextEdit(lines, e) ==
  IF e.sl >= Len(lines) THEN Failed
  ELSE Text(SubSeq(lines, 1, e.sl) \o Splice(lines, e) \o SubSeq(lines, e.el + 2, Len(lines)))

(* The lines are joined; a newline that ended the old text ends the new.   *)
Joined(old, lines) ==
  LET new == IF lines = <<>> THEN Empty ELSE lines
      ended(t) == Len(t) > 1 /\ t[Len(t)] = <<>>
  IN  IF ended(old) /\ ~ended(new) THEN Append(new, <<>>) ELSE new

Overlapping(edits) ==
  \E i, j \in 1..Len(edits) : i < j /\ RangesOverlap(edits[i], edits[j])

(* ApplyTextEdits: all or nothing, from the end of the text to its start.  *)
ApplyTextEdits(lines, edits) ==
  LET order == LastFirst([k \in 1..Len(edits) |-> <<edits[k].sl, edits[k].sc>>])
      after[k \in 0..Len(edits)] ==
        IF k = 0 THEN Text(lines)
        ELSE IF after[k - 1].ok THEN ApplyTextEdit(after[k - 1].text, edits[order[k]]) ELSE Failed
      result == after[Len(edits)]
  IN  IF Overlapping(edits) \/ ~result.ok THEN Failed ELSE Text(Joined(lines, result.text))

-----------------------------------------------------------------------------
(* The protocol's meaning of edits, for comparison: the text is one row of *)
(* characters, every range is given in the old text, and all of them are   *)
(* replaced at once.                                                       *)

NewLine == "newline"

Terminated(lines) ==
  LET upto[i \in 0..Len(lines)] == IF i = 0 THEN <<>> ELSE upto[i - 1] \o Append(lines[i], NewLine)
  IN  upto[Len(lines)]

Row(lines) == Terminated(SubSeq(lines, 1, Len(lines) - 1)) \o lines[Len(lines)]

(* How many characters stand before a place that is in the text.           *)
Offset(lines, l, c) == Len(Terminated(SubSeq(lines, 1, l))) + c

(* What is new after the first i characters of the old text, whether the   *)
(* i-th goes, and so what comes of the last n.                             *)
NewAt(starts, news, i, k) == IF starts[k] = i THEN news[k] ELSE <<>>

Inserted(starts, news, i) ==
  LET upto[k \in 0..Len(starts)] == IF k = 0 THEN <<>> ELSE upto[k - 1] \o NewAt(starts, news, i, k)
  IN  upto[Len(starts)]

Gone(starts, ends, i) == \E k \in 1..Len(starts) : starts[k] < i /\ i <= ends[k]

Kept(row, starts, ends, i) == IF Gone(starts, ends, i) THEN <<>> ELSE << row[i] >>

Replaced(row, starts, ends, news) ==
  LET end[n \in 0..Len(row)] ==
        LET i == Len(row) - n
        IN  Inserted(starts, news, i)
            \o (IF n = 0 THEN <<>> ELSE Kept(row, starts, ends, i + 1) \o end[n - 1])
  IN  end[Len(row)]

Meaning(lines, edits) ==
  Replaced(Row(lines),
           [k \in 1..Len(edits) |-> Offset(lines, edits[k].sl, edits[k].sc)],
           [k \in 1..Len(edits) |-> Offset(lines, edits[k].el, edits[k].ec)],
           [k \in 1..Len(edits) |-> Row(edits[k].new)])

InText(lines, e) ==
  /\ e.sl < Len(lines) /\ e.el < Len(lines)
  /\ e.sc <= Len(lines[e.sl + 1]) /\ e.ec <= Len(lines[e.el + 1])

(* An edit that deletes all there is on its lines, so that the code takes  *)
(* the line away with it.                                                  *)
EmptiesLine(lines, e) ==
  /\ e.new = Empty
  /\ Take(lines[e.sl + 1], e.sc) \o Drop(lines[e.el + 1], e.ec) = <<>>

-----------------------------------------------------------------------------
(* format_file drops the edits that change nothing before it applies them. *)

OldText(lines, e) ==
  IF e.sl = e.el THEN << SubSeq(Take(lines[e.sl + 1], e.ec), e.sc + 1, e.ec) >>
  ELSE << Drop(lines[e.sl + 1], e.sc) >> \o SubSeq(lines, e.sl + 2, e.el)
       \o << Take(lines[e.el + 1], e.ec) >>

FilterIdentityEdits(lines, edits) ==
  Filtered(edits, LAMBDA e : \/ e.sl >= Len(lines) \/ e.el >= Len(lines)
                             \/ OldText(lines, e) # e.new)

-----------------------------------------------------------------------------
(* edit_file: an edit is [s, e, new], whole lines from s to e, replaced by *)
(* the lines of new, of which there may be none.                           *)

FromTheEnd(edits) ==
  LET order == LastFirst([k \in 1..Len(edits) |-> <<edits[k].s, 0>>])
  IN  [k \in 1..Len(edits) |-> edits[order[k]]]

LinesOverlap(edits) ==
  \E i \in 2..Len(edits) : FromTheEnd(edits)[i].e >= FromTheEnd(edits)[i - 1].s

Clamp(n, lines) == IF n > Len(lines) THEN Len(lines) ELSE n

ApplyLineEdit(lines, edit) ==
  LET s == Clamp(edit.s, lines)
      e == IF Clamp(edit.e, lines) < s THEN s ELSE Clamp(edit.e, lines)
  IN  SubSeq(lines, 1, s - 1) \o edit.new \o SubSeq(lines, e + 1, Len(lines))

(* A start below 1 is an error; an edit of no lines at all panics, which   *)
(* the tool call turns into an error; nothing is written then.             *)
EditFile(lines, edits) ==
  LET sorted == FromTheEnd(edits)
      after[k \in 0..Len(edits)] ==
        IF k = 0 THEN Text(lines)
        ELSE IF after[k - 1].ok /\ sorted[k].s >= 1 /\ after[k - 1].text # <<>>
        THEN Text(ApplyLineEdit(after[k - 1].text, sorted[k])) ELSE Failed
      result == after[Len(edits)]
  IN  IF LinesOverlap(edits) \/ ~result.ok THEN Failed ELSE Text(Joined(lines, result.text))

(* What the tool's description says: each edit replaces its lines of the   *)
(* old text.                                                               *)
LinesReplaced(lines, edits) ==
  Replaced(lines, [k \in 1..Len(edits) |-> edits[k].s - 1],
           [k \in 1..Len(edits) |-> edits[k].e], [k \in 1..Len(edits) |-> edits[k].new])
=============================================================================
