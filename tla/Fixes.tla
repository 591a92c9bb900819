--------------------------------- MODULE Fixes ---------------------------------
(***************************************************************************)
(* Which diagnostics and which quick fix apply_fix takes:                  *)
(* internal/tools/apply_fix.go.  What applying it does is in EditTools.    *)
(*                                                                         *)
(* A diagnostic is [from, to, code], from and to <<line, character>>, code *)
(* the set of the texts that its code contains.  An action is [title,      *)
(* preferred, enabled, has, resolves]: has is what it brings, "edit",      *)
(* "data" to be resolved, or "command"; resolves is what the server makes  *)
(* of the data, again one of them, or "error".                             *)
(***************************************************************************)
EXTENDS Selections

Anything == "anything"

FilterByCode(ds, code) == Filtered(ds, LAMBDA d : code = Anything \/ code \in d.code)

Follows(p, q) == q[1] < p[1] \/ (q[1] = p[1] /\ q[2] < p[2])

(* Unlike elsewhere the end belongs to the range.                          *)
PositionInRange(p, d) == ~Follows(d.from, p) /\ ~Follows(p, d.to)

(* Diagnostics that start at the position, else those that start on its    *)
(* line, else those around it.  The code is looked at last: one with       *)
(* another code at the position hides one with this code on the line.      *)
MatchDiagnosticsAtPosition(ds, p, code) ==
  LET exact == Filtered(ds, LAMBDA d : d.from = p)
      line == Filtered(ds, LAMBDA d : d.from[1] = p[1])
      around == Filtered(ds, LAMBDA d : PositionInRange(p, d))
  IN  FilterByCode(IF exact # <<>> THEN exact ELSE IF line # <<>> THEN line ELSE around, code)

Earliest(ps) == CHOOSE p \in ps : \A q \in ps : ~Follows(p, q)
Latest(ps) == CHOOSE p \in ps : \A q \in ps : ~Follows(q, p)

(* Seeded fault: the range of the diagnostic that starts first.            *)
SpanningOne(ds) ==
  LET d == ds[CHOOSE i \in 1..Len(ds) : \A j \in 1..Len(ds) : ~Follows(ds[i].from, ds[j].from)]
  IN  [from |-> d.from, to |-> d.to]

SpanningRange(ds) ==
  [from |-> Earliest({ds[i].from : i \in 1..Len(ds)}), to |-> Latest({ds[i].to : i \in 1..Len(ds)})]

(* Disabled actions, and commands that are no actions, are passed over.    *)
FetchQuickFixActions(answer) == Filtered(answer.actions, LAMBDA a : a.enabled)

(* The first preferred one by title, or else the first by title.  (Titles  *)
(* differ: the order of two with the same is up to sort.Slice.)            *)
FirstByTitle(actions) == CHOOSE a \in actions : \A b \in actions : a.title <= b.title

SelectBestAction(actions) ==
  LET all == {actions[i] : i \in 1..Len(actions)}
      preferred == {a \in all : a.preferred}
  IN  FirstByTitle(IF preferred # {} THEN preferred ELSE all)

ToApply(a) == IF a.has = "data" THEN a.resolves ELSE a.has

(* answer is the server's for the range and the diagnostics.               *)
ApplyFix(ds, p, code, answer) ==
  LET actions == FetchQuickFixActions(answer)
      best == SelectBestAction(actions)
  IN  IF MatchDiagnosticsAtPosition(ds, p, code) = <<>> \/ ~answer.ok \/ actions = <<>> \/ ToApply(best) # "edit"
      THEN [ok |-> FALSE] ELSE [ok |-> TRUE, title |-> best.title]

(* One round for all: the first preferred action as the server lists them; *)
(* the next round asks again.                                              *)
ApplyAllRound(answer) ==
  LET preferred == Filtered(FetchQuickFixActions(answer), LAMBDA a : a.preferred)
  IN  IF ~answer.ok \/ preferred = <<>> \/ ToApply(preferred[1]) # "edit"
      THEN [ok |-> FALSE] ELSE [ok |-> TRUE, title |-> preferred[1].title]
=============================================================================
