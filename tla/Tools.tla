--------------------------------- MODULE Tools ---------------------------------
(***************************************************************************)
(* The tools together: EditTools as it runs, and next to it, as states of  *)
(* their own, the questions put to the parts of the tools that only        *)
(* compute: edits of texts, views of diagnostics, lines shown, names       *)
(* looked up, pages, call graphs, positions, languages (and, in Meanings,  *)
(* answers as JSON and patterns).  A state either has a question, and then *)
(* is one of the initial states and stays, or is a state of EditTools.     *)
(***************************************************************************)
EXTENDS EditTools, TextEdits, SourceRanges, ToolCalls, Fixes, Languages, FileChanges

VARIABLE question

NoQuestion == [topic |-> "none"]

ToolsVars == <<vars, question>>

ToolsNext == question = NoQuestion /\ Next /\ UNCHANGED question

-----------------------------------------------------------------------------
(* Edits of texts.                                                         *)

(* The text that comes of it, or that with the newline that the code gives *)
(* back to a text that ended in one.                                       *)
SameText(result, row, old) ==
  \/ Row(result) = row
  \/ Len(old) > 1 /\ old[Len(old)] = <<>> /\ Row(result) = Append(row, NewLine)

FormattedBy(text, edits) ==
  [file |-> [routed |-> TRUE, opens |-> TRUE, text |-> text,
             formatting |-> [style \in {4} \X {TRUE} |-> [ok |-> TRUE, edits |-> edits]]]]

(* ApplyTextEdits does what the protocol says that edits mean -- every     *)
(* range in the old text, all at once --, and so it does when format_file  *)
(* has dropped the edits that change nothing, except where an edit deletes *)
(* all there is on its lines.                                              *)
TextEditsExact ==
  LET text == question.text
      edits == question.edits
      exact(r) == r.ok /\ (\A i \in 1..Len(edits) : ~EmptiesLine(text, edits[i]))
                    => SameText(r.text, Meaning(text, edits), text)
  IN  /\ exact(ApplyTextEdits(text, edits))
      /\ ~Overlapping(edits) =>
           LET answer == format_file([filePath |-> 1], FormattedBy(text, edits))
           IN  IF answer.kind = "none" THEN \A i \in 1..Len(edits) : OldText(text, edits[i]) = edits[i].new
               ELSE answer.kind = "edited" /\ exact(Text(answer.text))

(* edit_file, for lines that are in the file: it refuses the edits exactly *)
(* if two of them share a line, and else each replaces its lines of the    *)
(* old text.                                                               *)
LineEditsExact ==
  LET text == question.text
      edits == question.edits
      inFile == \A i \in 1..Len(edits) : edits[i].s \in 1..Len(text) /\ edits[i].e \in edits[i].s..Len(text)
      disjoint == \A i, j \in 1..Len(edits) : i # j => edits[i].e < edits[j].s \/ edits[j].e < edits[i].s
      answer == edit_file([filePath |-> 1, edits |-> edits, showDiagnostics |-> FALSE],
                          [file |-> [routed |-> TRUE, opens |-> TRUE, synced |-> TRUE, text |-> text,
                                     now |-> <<>>, before |-> <<>>, indexing |-> FALSE]])
  IN  inFile => /\ answer.kind = "edited" <=> disjoint
                /\ disjoint => answer.text = Joined(text, LinesReplaced(text, edits))

(* A sequence of changes to files does what the protocol says of it, where *)
(* that is not an error and needs no option that the code leaves out; it   *)
(* goes through otherwise only if something is created, deleted with all   *)
(* below it, or renamed without options.  Edits of texts do the same in    *)
(* both forms that they can come in.                                       *)
ChangesExact(files, changed, result, meant) ==
  /\ meant.ok /\ (\A c \in ToSet(changed) : Heeded(c)) => result = meant
  /\ result.ok /\ ~meant.ok => \E c \in ToSet(changed) : \/ c.kind = "create" \/ "recursive" \in c.options
                                                         \/ c.kind = "rename" /\ c.options = NoOptions
  /\ LET edited == Filtered(changed, LAMBDA c : c.kind = "edit")
         paths == [i \in 1..Len(edited) |-> edited[i].path]
     IN  IsInjective(paths) =>
           ApplyWorkspaceEdit(files, <<>>, [documentChanges |-> edited])
             = ApplyWorkspaceEdit(files, paths, [changes |-> [p \in ToSet(paths) |->
                                                   (CHOOSE c \in ToSet(edited) : c.path = p).edits],
                                                 documentChanges |-> <<>>])

(* What is written is what the edits say, of places, of lines and of       *)
(* files.                                                                  *)
EditsExact ==
  /\ question.topic = "edits" => TextEditsExact
  /\ question.topic = "lines" => LineEditsExact
  /\ question.topic = "changes" =>
       ChangesExact(question.disk, question.changes,
                    ApplyWorkspaceEdit(question.disk, <<>>, [documentChanges |-> question.changes]),
                    MeantInAll(question.disk, question.changes))

(* Places that are in the text, the start not after the end; any lines; a  *)
(* change of any kind.                                                     *)
Line == Seq(STRING)

ServerEdit == [sl : Nat, sc : Nat, el : Nat, ec : Nat, new : Seq(Line) \ {<<>>}]

Proper(text, e) == InText(text, e) /\ (e.sl < e.el \/ (e.sl = e.el /\ e.sc <= e.ec))

EditsAsked ==
  /\ question.text \in Seq(Line) \ {<<>>} /\ question.edits \in Seq(ServerEdit)
  /\ \A i \in 1..Len(question.edits) : Proper(question.text, question.edits[i])

LinesAsked ==
  /\ question.text \in Seq(Line) \ {<<>>}
  /\ question.edits \in Seq([s : Int, e : Int, new : Seq(Line)])

ChangesAsked ==
  /\ DOMAIN question.changes = 1..Len(question.changes) /\ Len(question.changes) \in Nat
  /\ \A i \in 1..Len(question.changes) : question.changes[i].kind \in {"create", "delete", "rename", "edit"}

-----------------------------------------------------------------------------
(* Diagnostics.                                                            *)

Reported == [at : Nat, code : STRING, sev : Nat]

ReportedOf == [routed : {TRUE}, synced : BOOLEAN, now : Seq(Reported), before : Seq(Reported), fixes : SUBSET Nat,
               indexed : BOOLEAN, indexing : BOOLEAN]

DiagnosticsAsked ==
  /\ question.files \in Seq(ReportedOf) /\ question.files # <<>>
  /\ question.limit \in Int
  /\ question.filter \in [exclude : SUBSET STRING, min : Int]

(* The difference between two snapshots accounts for every diagnostic, and *)
(* calls none both new and resolved: however often one of the same place,  *)
(* message, code and source occurs.                                        *)
DiffBalances ==
  question.topic = "diagnostics" => \A i \in 1..Len(question.files) :
    LET f == question.files[i]
        d == ComputeDiagnosticDiff(f.before, f.now)
    IN  \A key \in {Key(x) : x \in ToSet(f.now \o f.before)} :
          /\ Times(d.new, key) - Times(d.resolved, key) = Times(f.now, key) - Times(f.before, key)
          /\ Times(d.new, key) = 0 \/ Times(d.resolved, key) = 0

Bare(entries) == [i \in 1..Len(entries) |-> entries[i].diag]

FileAgrees(t, j) ==
  IF t.error \/ j.error THEN t.error = j.error
  ELSE IF t.nothing THEN j.shown = <<>> /\ ~j.truncated
  ELSE Bare(j.shown) = t.shown /\ j.truncated = t.notice /\ j.count = t.count

DiffAgrees(t, j, all) ==
  IF t.error \/ j.error THEN t.error = j.error
  ELSE IF t.nothing THEN j.new = <<>> /\ j.resolved = <<>>
  ELSE /\ Bare(j.new) = t.new /\ Bare(j.resolved) = t.resolved
       /\ t.resolved # <<>> => t.new = all.new
       /\ ~t.notice => t.new = all.new /\ t.resolved = all.resolved

SectionsOf(answer) == IF answer.kind = "sections" THEN answer.sections ELSE <<>>

SectionsAgree(fs, filter, text, json, newText, newJson) ==
  /\ Len(text) = Len(fs) /\ Len(json) = Len(fs)
  /\ \A i \in 1..Len(fs) : /\ FileAgrees(text[i], json[i])
                           /\ DiffAgrees(newText[i], newJson[i], Changes(fs[i], filter))

AllAgree(changed, filter, text, json, newText, newJson) ==
  /\ Len(text) = Len(json) /\ \A i \in 1..Len(text) : FileAgrees(text[i], json[i])
  /\ Len(newText) = Len(changed) /\ Len(newJson) = Len(changed)
  /\ \A i \in 1..Len(changed) : DiffAgrees(newText[i], newJson[i], Changes(changed[i], filter))

OneAgrees(answer, section, format) ==
  answer = IF format = "text" /\ section.error THEN ErrorText ELSE Sections(<<section>>)

(* The tools show the same diagnostics of one file, of several and of the  *)
(* workspace, as text and as JSON; a view that leaves some out says so     *)
(* (the JSON of a difference never does); a change that is resolved is     *)
(* shown only next to all that are new.                                    *)
DiagnosticsAgree ==
  LET fs == question.files
      as(format, diff) == [outputFormat |-> format, showDiff |-> diff, limit |-> question.limit,
                           exclude |-> question.filter.exclude, severity |-> question.filter.min]
      several(format, diff) == diagnostics(With(as(format, diff), "files", fs), [servers |-> <<>>]).sections
      all(format, diff) == SectionsOf(workspace_diagnostics(as(format, diff), <<fs>>))
  IN  /\ SectionsAgree(fs, question.filter, several("text", FALSE), several("json", FALSE),
                       several("text", TRUE), several("json", TRUE))
      /\ AllAgree(Filtered(fs, LAMBDA f : HasChanges(f, question.filter)), question.filter,
                  all("text", FALSE), all("json", FALSE), all("text", TRUE), all("json", TRUE))
      /\ \A i \in 1..Len(fs), format \in {"text", "json"}, diff \in BOOLEAN :
           OneAgrees(diagnostics(With(as(format, diff), "filePath", 1), [file |-> fs[i]]),
                     several(format, diff)[i], format)

ItemsOf(entries) == [i \in 1..Len(entries) |-> entries[i][1]]
Tops(targets) == Filtered(targets, LAMBDA t : t.indent = 0)

(* The symbol of the top level that the one at n is below, or is.          *)
TopOf(targets, n) == CHOOSE t \in 1..n : targets[t].indent = 0 /\ \A m \in (t + 1)..n : targets[m].indent # 0

PartsAgree(outline, whole, tops, under) ==
  /\ whole = outline /\ tops = Tops(outline)
  /\ \A k \in DOMAIN under :
       under[k] = Chosen(outline, {n \in 1..Len(outline) : outline[TopOf(outline, n)].kind = k})

Outlined == [kind : STRING, flat : BOOLEAN, children : Seq([kind : STRING])]

OutlineAsked ==
  LET f == question.file
      symbols == f.symbols.symbols
  IN  /\ f.routed /\ f.opens /\ f.synced
      /\ f.symbols \in [ok : BOOLEAN, symbols : Seq(Outlined)]
      /\ \A i \in 1..Len(symbols) :
           {symbols[i].kind} \cup {symbols[i].children[j].kind : j \in 1..Len(symbols[i].children)} \subseteq DOMAIN f.hovers

(* The overview of a file for each kind is that part of its outline which  *)
(* is under the symbols of the kind at the top level, each with its hover; *)
(* for all kinds together it is the outline.                               *)
OutlinesAgree ==
  LET world == [file |-> question.file]
      targets(args) == ItemsOf(SectionsOf(api_overview(With(args, "filePath", 1), world)))
  IN  PartsAgree(SectionsOf(document_symbols([filePath |-> 1], world)), targets(<<>>),
                 targets([includeChildren |-> FALSE]),
                 [k \in DOMAIN question.file.hovers |-> targets([symbolKinds |-> {k}])])

(* What two tools show of one thing, or one tool in two forms, is the      *)
(* same.                                                                   *)
ViewsAgree ==
  /\ question.topic = "diagnostics" => DiagnosticsAgree
  /\ question.topic = "outline" => OutlinesAgree

-----------------------------------------------------------------------------
(* Lines shown.                                                            *)

(* The rows are the lines of the file that are to be shown, in order and   *)
(* once, with dots exactly where some are left out.                        *)
RowsRight(rows, shown, total) ==
  /\ ToSet(rows) \ {Dots} = shown \cap (0..(total - 1))
  /\ \A i \in 1..(Len(rows) - 1) :
       IF rows[i + 1] = Dots THEN i + 2 <= Len(rows) /\ rows[i + 2] > rows[i] + 1
       ELSE rows[i] = Dots \/ rows[i + 1] = rows[i] + 1

(* The definition at a position is that of the innermost symbol there --   *)
(* by name, of one of that name within its range --, and is found if there *)
(* is any.                                                                 *)
DefinitionRight(ss, containing, n, refined, name, def) ==
  /\ (n = 0) = (containing = {})
  /\ n # 0 => /\ n \in containing
              /\ \A q \in containing : n \notin Above(ss, q)
              /\ \/ refined = n
                 \/ Encloses(ss[n].range, ss[refined].range) /\ ss[refined].name = name
  /\ def.ok => def.first <= def.last

Outlines == [depth : Nat, range : [from : Nat \X Nat, to : Nat \X Nat], name : STRING]

RangesAsked ==
  LET ss == question.symbols
  IN  /\ ss \in Seq(Outlines) /\ (ss # <<>> => ss[1].depth = 0)
      /\ \A n \in 1..Len(ss) : /\ AtOrBefore(ss[n].range.from, ss[n].range.to)
                               /\ \A m \in Above(ss, n) : Encloses(ss[m].range, ss[n].range)
      /\ question.places \in Seq(Nat \X Nat) /\ question.places # <<>>
      /\ question.total \in Nat /\ question.context \in Nat
      /\ \A l \in 0..(question.total - 1) : question.brackets[l] \in l..(question.total - 1)

(* An answer shows the lines it is to show, the line of each place among   *)
(* them, and the definition of what is at a position.                      *)
LinesRight ==
  LET ss == question.symbols
      p == question.places[1]
      total == question.total
      n == Innermost(ss, p)
      shown == GetLineRangesToDisplay(ss, question.places, total, question.context, question.brackets)
  IN  /\ RowsRight(FormatLinesWithRanges(ConvertLinesToRanges(shown, total)), shown, total)
      /\ {at[1] : at \in ToSet(question.places)} \cap 0..(total - 1) \subseteq shown
      /\ DefinitionRight(ss, Containing(ss, p), n, Refined(ss, n, question.name), question.name,
                         GetFullDefinition(ss, p, question.name, total, question.brackets))

-----------------------------------------------------------------------------
(* Names, pages, positions.                                                *)

Without(servers, Stands(_)) ==
  LET up == Filtered(servers, LAMBDA found : found.ok)
  IN  [i \in 1..Len(up) |-> [up[i] EXCEPT !.symbols = Filtered(@, Stands)]]

References == [file : Nat, line : Nat, defined : BOOLEAN, hover : BOOLEAN]

Located == [ok : BOOLEAN, locs : Seq(References)]

Symbols == [name : Seq(STRING), container : Seq(STRING), method : BOOLEAN, flat : BOOLEAN, opens : BOOLEAN,
            defined : BOOLEAN, types : Located, impls : Located, refs : Located]

NamesAsked == question.servers \in Seq([ok : BOOLEAN, symbols : Seq(Symbols)])

(* A tool that is given a name answers as if the servers that fail, and    *)
(* the symbols whose file or answer cannot be had, were not there.  A      *)
(* symbol is found by its container and its name, with either separator,   *)
(* if the first server that answers has it.                                *)
NamesResolve ==
  question.topic = "names" =>
    LET args == [symbolName |-> question.query]
        world == [servers |-> question.servers]
        same(Tool(_, _), Stands(_)) ==
          Tool(args, world) = Tool(args, [servers |-> Without(question.servers, Stands)])
        up == Filtered(question.servers, LAMBDA found : found.ok)
    IN  /\ same(definition, LAMBDA s : s.defined)
        /\ same(type_definition, LAMBDA s : s.opens /\ s.types.ok)
        /\ same(implementation, LAMBDA s : s.opens /\ s.impls.ok)
        /\ up # <<>> => \A s \in ToSet(up[1].symbols), sep \in {Dot, Colons} :
             s.flat /\ s.defined /\ s.container # <<>> =>
               LET found == definition([symbolName |-> Qualified(s, sep)], world)
               IN  found.kind = "sections" /\ s \in ToSet(found.sections)

WorldOf(refs) ==
  LET symbol == [name |-> <<"m">>, container |-> <<>>, method |-> FALSE, flat |-> TRUE, opens |-> TRUE,
                 refs |-> [ok |-> TRUE, locs |-> refs]]
  IN  [file |-> [routed |-> TRUE, opens |-> TRUE,
                 at |-> [x \in {Nowhere} |-> [references |-> [ok |-> TRUE, locs |-> refs]]]],
       servers |-> <<[ok |-> TRUE, symbols |-> [i \in 1..Len(refs) |-> symbol]]>>]

Asking(limit, at, format) ==
  [filePath |-> 1, symbolName |-> <<"m">>, query |-> <<"m">>, limit |-> limit, offset |-> at, outputFormat |-> format]

LinesOf(page) == [i \in 1..Len(page.groups) |-> [k \in 1..Len(page.groups[i].locs) |-> page.groups[i].locs[k].line]]

(* Four answers that are not cut show the same.                            *)
PagesAlike(full, short, named, symbols) ==
  LET long == full.sections[1]
      brief == short.sections[1]
      found == symbols.sections[1]
  IN  ~full.cut =>
        /\ ~named.cut => ToSet(named.sections) = {long}
        /\ ~short.cut => /\ brief.past = long.past
                         /\ ~long.past => /\ brief.next = long.next
                                          /\ [i \in 1..Len(brief.groups) |-> brief.groups[i].lines] = LinesOf(long)
        /\ ~symbols.cut => found.past = long.past /\ (~long.past => found.next = long.next)

(* pages[at] is the page at an offset.  The offsets that one comes to by   *)
(* following those that the pages name, 0 for none; what one sees there.   *)
Turned(pages) ==
  {at \in DOMAIN pages : \A S \in SUBSET DOMAIN pages :
     0 \in S /\ (\A o \in S : ~pages[o].past /\ pages[o].next # 0 => pages[o].next \in S) => at \in S}

Seen(pages) ==
  UNION {{<<at, p[1], p[2]>> : p \in Pairs([i \in 1..Len(pages[at].groups) |-> pages[at].groups[i].locs])} :
           at \in {o \in Turned(pages) : ~pages[o].past}}

SeenOnce(pages, refs) ==
  \A x \in ToSet(refs) \cup {pages[s[1]].groups[s[2]].locs[s[3]] : s \in Seen(pages)} :
    Cardinality({s \in Seen(pages) : pages[s[1]].groups[s[2]].locs[s[3]] = x})
      = Cardinality({i \in 1..Len(refs) : refs[i] = x})

(* Following the offset that each page of get_references names, one sees   *)
(* every reference once, unless one of the pages says that it was cut: it  *)
(* names the offset it would name uncut (references.go:186-189), and what  *)
(* was cut is on no page.  The short form has the same lines, and          *)
(* references and workspace_symbols turn their pages alike, uncut ones.    *)
PagesRight ==
  LET refs == question.refs
      world == WorldOf(refs)
      ask(at, format) == Asking(question.limit, at, format)
      answer(at, format) == get_references(ask(at, format), world)
      pages == [at \in 0..Len(refs) |-> answer(at, "full").sections[1]]
  IN  refs # <<>> =>
        /\ (\A at \in Turned(pages) : ~answer(at, "full").cut) => SeenOnce(pages, refs)
        /\ \A at \in -1..Len(refs) :
             PagesAlike(answer(at, "full"), answer(at, "short"), references(ask(at, "full"), world),
                        workspace_symbols(ask(at, "full"), world))

PagesAsked == question.refs \in Seq(References) /\ question.limit \in Int

(* Every place that is asked for is shown, or the answer says that it was  *)
(* cut: on one page, and there in the lines of one range.                  *)
PlacesShown ==
  /\ question.topic = "ranges" => LinesRight
  /\ question.topic = "pages" => PagesRight

(* A range does not end before it starts, and titles are told apart: which *)
(* of two actions of one title comes first is up to sort.Slice.            *)
Flagged == {d \in [from : Nat \X Nat, to : Nat \X Nat, code : SUBSET STRING] : ~Follows(d.from, d.to)}

FixActions == [title : Nat, preferred : BOOLEAN, enabled : BOOLEAN, has : {"edit", "data", "command"},
               resolves : {"edit", "data", "command", "error"}]

(* What a file holds of which one place is something to the server, and    *)
(* its diagnostics are on one line.                                        *)
Refuses(answer) ==
  /\ \A x \in {answer.definition, answer.type, answer.implementation, answer.references} : ~x.ok
  /\ ~answer.hover.ok /\ ~answer.batch.ok /\ ~answer.renamed.ok /\ ~answer.graph.ok /\ ~answer.calls.ok

Answers(answer) ==
  /\ \A x \in {answer.definition, answer.type, answer.implementation, answer.references} : x.ok /\ x.locs # <<>>
  /\ answer.hover.ok
  /\ answer.batch.ok /\ answer.batch.content = "text"
  /\ answer.renamed.ok /\ answer.renamed.changes # <<>>
  /\ answer.graph.ok /\ answer.graph.roots # <<>>
  /\ answer.calls.ok /\ answer.calls.items # <<>>
  /\ \A i \in 1..Len(answer.calls.items) :
       LET item == answer.calls.items[i]
       IN  item.incoming.ok /\ IF item.outgoing.unknown THEN item.synthetic.ok ELSE item.outgoing.ok

PlaceAsked ==
  LET f == question.file
      enabled == {a \in ToSet(f.fixes.actions) : a.enabled}
  IN  /\ \E given \in SUBSET {"line", "column"} : question.args \in [given \cup {"filePath"} -> Nat]
      /\ question.place \in (0..(Beyond - 1)) \X (0..(Beyond - 1))
      /\ f.routed /\ f.opens /\ f.synced
      /\ {question.place, Nowhere} \subseteq DOMAIN f.at
      /\ Answers(f.at[question.place]) /\ \A x \in DOMAIN f.at \ {question.place} : Refuses(f.at[x])
      /\ f.flagged \in Seq(Flagged) /\ f.flagged # <<>>
      /\ \A i \in 1..Len(f.flagged) : f.flagged[i].from[1] = question.place[1] /\ f.flagged[i].to[1] = question.place[1]
      /\ f.fixes.ok /\ f.fixes.actions \in Seq(FixActions)
      /\ enabled # {} /\ \A a \in enabled : ToApply(a) = "edit"

(* A tool that is given a line and a column asks for the place that they   *)
(* name, counted from 1, and for no other: a missing one, or 0, names no   *)
(* place.  A fix is found by its line.                                     *)
PlacesAsked ==
  question.topic = "places" =>
    LET args == question.args
        world == [file |-> question.file]
        there == <<Arg(args, "line", 0) - 1, Arg(args, "column", 0) - 1>> = question.place
        answers == <<get_definition(args, world), get_type_definition(args, world),
                    get_implementation(args, world), get_references(args, world), hover(args, world),
                    incoming_calls(args, world), outgoing_calls(args, world), dependency_graph(args, world),
                    rename_symbol(With(args, "newName", "n"), world)>>
        batch == batch_hover([filePath |-> 1, positions |-> <<args>>], world)
    IN  /\ \A i \in 1..Len(answers) : (answers[i].kind = "sections") = there
        /\ (batch.kind = "sections" /\ batch.sections = <<"text">>) = there
        /\ (apply_fix(args, world).kind = "sections") = (Arg(args, "line", 0) - 1 = question.place[1])

-----------------------------------------------------------------------------
(* Fixes.                                                                  *)

FixAsked ==
  /\ question.diagnostics \in Seq(Flagged)
  /\ question.answer \in [ok : BOOLEAN, actions : Seq(FixActions)]
  /\ LET actions == question.answer.actions
     IN  \A i, j \in 1..Len(actions) : actions[i].title = actions[j].title => i = j

(* The fix that is applied does not depend on the order of the server's    *)
(* list; it is preferred if one that is enabled is, and the server was     *)
(* asked for a range that covers every diagnostic it is for, each of which *)
(* has the code asked for, and starts on the line or lies around it.  The  *)
(* fix of a round for all is preferred too.                                *)
FixChosen ==
  question.topic = "fix" =>
    LET p == question.at
        actions == question.answer.actions
        matched == MatchDiagnosticsAtPosition(question.diagnostics, p, question.code)
        fix == ApplyFix(question.diagnostics, p, question.code, question.answer)
        round == ApplyAllRound(question.answer)
        enabled == {a \in ToSet(actions) : a.enabled}
        preferred == {a \in enabled : a.preferred}
    IN  /\ fix = ApplyFix(question.diagnostics, p, question.code, [question.answer EXCEPT !.actions = Reverse(@)])
        /\ fix.ok => \E a \in IF preferred = {} THEN enabled ELSE preferred : a.title = fix.title /\ ToApply(a) = "edit"
        /\ round.ok => \E a \in preferred : a.title = round.title
        /\ \A i \in 1..Len(matched) :
             /\ matched[i].from[1] = p[1] \/ PositionInRange(p, matched[i])
             /\ question.code = Anything \/ question.code \in matched[i].code
             /\ PositionInRange(matched[i].from, SpanningRange(matched))
             /\ PositionInRange(matched[i].to, SpanningRange(matched))

-----------------------------------------------------------------------------
(* Call graphs.                                                            *)

GraphOf(direction) ==
  GenerateCallGraph(<<1>>, question.callees, question.callers, question.key, question.depth, direction)

(* The graph has only calls between what is within the depth of the root,  *)
(* and all of them when it is deep enough and no two items share a node.   *)
(* Both directions together are the two, and what is drawn is the graph.   *)
WalkRight ==
  LET near == Within(question.callees, question.key, 1, question.depth)
      calls == CallsOf(question.callees, question.key)
      out == GraphOf("outgoing")
      both == GraphOf("both")
      drawn == RenderMermaid(both)
  IN  /\ out.nodes \subseteq near /\ out.edges \subseteq calls
      /\ IsInjective(question.key) /\ question.depth >= Cardinality(DOMAIN question.key) =>
           out.nodes = near /\ out.edges = {e \in calls : e[1] \in near}
      /\ both.nodes = out.nodes \cup GraphOf("incoming").nodes
      /\ both.edges = out.edges \cup GraphOf("incoming").edges
      /\ {<<drawn.declared[e[1]], drawn.declared[e[2]]>> : e \in drawn.drawn} = both.edges

(* The callees put together from the tokens of a text, as they are sent,   *)
(* are the targets of the functions and methods named in the item, but for *)
(* its own name.                                                           *)
TokensRight ==
  LET named == {t \in ToSet(question.tokens) : /\ t.type \in {"function", "method"}
                                               /\ RangeContains(question.item.range, t)
                                               /\ ~RangeContains(question.item.selection, t)}
      defined == {question.definition[<<t.line, t.char>>] : t \in named} \ {<<>>}
      calls == SyntheticOutgoingCalls(question.item, Encoded(question.tokens, question.types),
                                      question.types, question.definition, question.prepared)
  IN  ToSet(calls) = {question.prepared[d[1]] : d \in defined}

(* Any finite number of items; the tokens line by line, as in the text,    *)
(* and whatever the server says that each is defined by.                   *)
GraphAsked ==
  LET items == DOMAIN question.key
  IN  /\ IsFiniteSet(items) /\ 1 \in items
      /\ question.key \in [items -> Range(question.key)]
      /\ question.callees \in [items -> Seq(items)] /\ question.callers \in [items -> Seq(items)]
      /\ question.depth \in Int

Token == [line : Nat, char : Nat, type : STRING]

TokensAsked ==
  LET tokens == question.tokens
  IN  /\ tokens \in Seq(Token) /\ question.types \in Seq(STRING)
      /\ \A i \in 1..Len(tokens) : tokens[i].type \in ToSet(question.types)
      /\ \A i \in 2..Len(tokens) : tokens[i - 1].line <= tokens[i].line
      /\ \A t \in ToSet(tokens) : question.definition[<<t.line, t.char>>] \in Seq(DOMAIN question.prepared)

(* A call graph shows the calls that are there, whether a server tells     *)
(* them or they are put together from its tokens.                          *)
GraphRight ==
  /\ question.topic = "graph" => WalkRight
  /\ question.topic = "tokens" => TokensRight

-----------------------------------------------------------------------------
(* Languages.                                                              *)

(* The servers that are started when none is named have different          *)
(* commands, all installed; every file that the watcher follows is routed  *)
(* to the first server installed for its language or the group of it,      *)
(* unless the root has the name of a directory to skip; and a change of a  *)
(* configuration file restarts the server that its language is routed to.  *)
Installed(lang, installed) ==
  IF lang \notin DOMAIN KnownLSPServers THEN <<>>
  ELSE Filtered(KnownLSPServers[lang], LAMBDA c : c \in installed)

RoutedTo(configs, place, able) == able # <<>> => place > 0 /\ configs[place].command = able[1]

DetectedAreServed(detected, root, files, ignored, installed) ==
  LET configs == detected.configs
      lang(f) == DetectLanguageID(Last(f))
      followed(f) == Followed(root, f, ignored, [x \in files |-> "small"])
  IN  /\ IsInjective([i \in 1..Len(configs) |-> configs[i].command])
      /\ {configs[i].command : i \in 1..Len(configs)} \subseteq installed
      /\ Last(root) \notin ExcludedDirs =>
           \A f \in {x \in files : followed(x)} :
             RoutedTo(configs, FindConfig(configs, lang(f)),
                      Installed(NormalizeLangID(lang(f)), installed))
      /\ \A p \in ConfigFileLanguages :
           Restarted(configs, p[1]) = {FindConfig(configs, p[2])} \ {0}

(* A server that is named by its command alone, next to others, serves the *)
(* languages that it would be detected for, as long as none before it      *)
(* does.                                                                   *)
NamedAreServed(parsed, flags, installed) ==
  /\ parsed.ok = (flags # <<>> /\ {f.command : f \in ToSet(flags)} \subseteq installed)
  /\ \A lang \in DOMAIN KnownLSPServers, i \in 1..Len(flags) :
       /\ flags[i].lang = Unknown /\ HasWord(KnownLSPServers[lang], flags[i].command)
       /\ ~\E j \in 1..(i - 1) : parsed.configs[j].lang = lang
       => FindConfig(parsed.configs, lang) = i

(* The files are below the root, which no .gitignore of its own names.     *)
WorkspaceAsked ==
  LET w == question.workspace
  IN  /\ w.exists /\ Len(w.root) \in Nat /\ w.root \notin w.ignored
      /\ \A f \in w.files : Len(f) \in Nat /\ SubSeq(f, 1, Len(w.root)) = w.root

FlagsAsked ==
  /\ question.workspace.exists /\ question.workspace.files = {}
  /\ question.flags \in Seq([lang : STRING, command : STRING])

(* The server that is installed for a language gets its files.             *)
FilesAreServed ==
  /\ question.topic = "workspace" =>
       DetectedAreServed(ParseConfig(question.workspace, <<>>, <<>>, question.installed),
                         question.workspace.root, question.workspace.files, question.workspace.ignored,
                         question.installed)
  /\ question.topic = "flags" =>
       NamedAreServed(ParseConfig(question.workspace, question.flags, <<>>, question.installed),
                      question.flags, question.installed)

-----------------------------------------------------------------------------
(* The questions that the theorems are about: whatever is asked, of any    *)
(* size, as long as it is something that the code can be asked.            *)
WellFormed ==
  /\ question.topic = "edits" => EditsAsked
  /\ question.topic = "lines" => LinesAsked
  /\ question.topic = "changes" => ChangesAsked
  /\ question.topic = "diagnostics" => DiagnosticsAsked
  /\ question.topic = "outline" => OutlineAsked
  /\ question.topic = "ranges" => RangesAsked
  /\ question.topic = "names" => NamesAsked
  /\ question.topic = "pages" => PagesAsked
  /\ question.topic = "places" => PlaceAsked
  /\ question.topic = "fix" => FixAsked
  /\ question.topic = "graph" => GraphAsked
  /\ question.topic = "tokens" => TokensAsked
  /\ question.topic = "workspace" => WorkspaceAsked
  /\ question.topic = "flags" => FlagsAsked

ToolsSpec == Init /\ WellFormed /\ [][ToolsNext]_ToolsVars
=============================================================================
