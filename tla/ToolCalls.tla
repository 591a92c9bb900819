------------------------------- MODULE ToolCalls -------------------------------
(***************************************************************************)
(* The tools of the MCP server as they are registered in tools.go: what    *)
(* each makes of its arguments, which servers it asks, and what it         *)
(* answers.                                                                *)
(*                                                                         *)
(* args is a function from the names of the arguments that are given, with *)
(* the type asked for, to their values; any other is as good as missing.   *)
(* A world is [servers, file]: the answers to workspace/symbol of the      *)
(* active servers, in the order of a map, and the file of the call, with   *)
(* routed, if there is a server for it, opens, synced and the diagnostics  *)
(* of DiagnosticViews, symbols, the answer for its outline, hovers, what   *)
(* is shown of a symbol of each kind, text, its lines, formatting, the     *)
(* edits for each way to indent, flagged, its diagnostics for Fixes, and   *)
(* fixes, the actions for them; and at, the server's answers for its       *)
(* places, of which Nowhere is any place that is not in the file.          *)
(*                                                                         *)
(* Texts, not JSON, go through TrimResponse at last.  It is modelled for   *)
(* the tools whose answers have pages; the others' answers are what they   *)
(* are before that.                                                        *)
(***************************************************************************)
EXTENDS SymbolTools, DiagnosticViews, CallGraph, TextEdits, Fixes

CONSTANT ResponseSize  \* the room in an answer: MCP_MAX_RESPONSE_SIZE, in places shown

ASSUME ResponseSizeAssumption == ResponseSize \in Nat \ {0}

Nowhere == <<-1, -1>>

Given(args, name) == name \in DOMAIN args
Arg(args, name, default) == IF Given(args, name) THEN args[name] ELSE default

With(args, name, value) == [x \in DOMAIN args \cup {name} |-> IF x = name THEN value ELSE args[x]]

(* Seeded fault: lines and columns are passed on as they are given.        *)
PositionOneBased(args, places) ==
  LET p == <<Arg(args, "line", 0), Arg(args, "column", 0)>>
  IN  IF p \in places THEN p ELSE Nowhere

(* A line or a column of 0, which is also what a missing one counts as,    *)
(* becomes 2^32 - 1, which is in no file: here the largest number of TLC.  *)
Beyond == 2147483647
ZeroBased(n) == IF n <= 0 THEN Beyond ELSE n - 1
PlaceOf(args) == <<ZeroBased(Arg(args, "line", 0)), ZeroBased(Arg(args, "column", 0))>>

Position(args, places) == IF PlaceOf(args) \in places THEN PlaceOf(args) ELSE Nowhere

At(args, file) == file.at[Position(args, DOMAIN file.at)]

(* The tools that are given a file: the server of its language, which may  *)
(* have to be started.                                                     *)
OnFile(args, world, answer) ==
  IF ~Given(args, "filePath") \/ ~world.file.routed THEN ErrorText ELSE answer

(* The tools that are given a name: the first server that answers without  *)
(* an error; that it has found nothing is such an answer, and the servers  *)
(* after it are not asked.                                                 *)
OnServers(args, name, answers) ==
  IF ~Given(args, name) THEN ErrorText
  ELSE LET good == {i \in 1..Len(answers) : answers[i].kind # "error"}
       IN  IF good = {} THEN ErrorText ELSE answers[First(good)]

Each(servers) == 1..Len(servers)

(* The places on a page, one sequence for each file; the note that names   *)
(* the next page comes first in the full form and last in the others.      *)
ShownPlaces(page, format) ==
  IF page.past THEN <<>> ELSE IF format = "symbols" THEN <<page.shown>>
  ELSE [i \in 1..Len(page.groups) |-> IF format = "short" THEN page.groups[i].lines ELSE page.groups[i].locs]

Space(page, format) ==
  Cardinality(Pairs(ShownPlaces(page, format)))
    + IF ~page.past /\ format # "full" /\ page.next # 0 THEN 1 ELSE 0

(* What is left of a page: the full form is cut before a file, if that     *)
(* leaves more than half of the room, and else among the places of a file; *)
(* the short form, with a line for each file, before a file.               *)
TrimPage(page, format, room) ==
  LET listed == ShownPlaces(page, format)
      before(i) == Cardinality({p \in Pairs(listed) : p[1] < i})
      left(i) == room - before(i)
      part(s, n) == SubSeq(s, 1, IF n < Len(s) THEN n ELSE Len(s))
      groups == 1..Len(page.groups)
      headers == {i \in groups : left(i) >= 0 /\ 2 * (ResponseSize - left(i)) > ResponseSize}
      whole == {i \in groups : \E h \in headers : i < h}
  IN  IF Space(page, format) <= room THEN page
      ELSE IF format = "symbols" THEN [page EXCEPT !.shown = part(page.shown, room), !.next = 0]
      ELSE IF format = "short"
           THEN [page EXCEPT !.groups = Chosen(page.groups, {i \in groups : Len(listed[i]) <= left(i)}), !.next = 0]
      ELSE IF headers # {} THEN [page EXCEPT !.groups = Chosen(page.groups, whole)]
      ELSE [page EXCEPT !.groups = Chosen([i \in groups |-> [page.groups[i] EXCEPT !.locs = part(listed[i], left(i))]],
                                          {i \in groups : left(i) > 0})]

(* An answer with more places than there is room for is cut, and ends with *)
(* a line that says so.                                                    *)
TrimResponse(answer, format) ==
  LET pages == answer.sections
      lines == [i \in 1..Len(pages) |-> [k \in 1..Space(pages[i], format) |-> k]]
      left(i) == ResponseSize - Cardinality({p \in Pairs(lines) : p[1] < i})
  IN  IF answer.kind # "sections" \/ Cardinality(Pairs(lines)) <= ResponseSize THEN answer
      ELSE [kind |-> "sections", cut |-> TRUE,
            sections |-> Chosen([i \in 1..Len(pages) |-> TrimPage(pages[i], format, left(i))],
                                {i \in 1..Len(pages) : left(i) > 0})]

Filter(args) == [exclude |-> Arg(args, "exclude", {}), min |-> Arg(args, "severity", 0)]
JSON(args) == Arg(args, "outputFormat", "text") = "json"
Diff(args) == Arg(args, "showDiff", FALSE)

-----------------------------------------------------------------------------
definition(args, world) ==
  OnServers(args, "symbolName",
    [i \in Each(world.servers) |-> ReadDefinition(world.servers[i], args.symbolName)])

type_definition(args, world) ==
  OnServers(args, "symbolName",
    [i \in Each(world.servers) |-> ReadTypeDefinition(world.servers[i], args.symbolName)])

implementation(args, world) ==
  OnServers(args, "symbolName",
    [i \in Each(world.servers) |-> FindImplementation(world.servers[i], args.symbolName)])

references(args, world) ==
  LET format == Arg(args, "outputFormat", "full")
  IN  TrimResponse(OnServers(args, "symbolName",
        [i \in Each(world.servers) |->
          FindReferences(world.servers[i], args.symbolName, format, Arg(args, "limit", 30), Arg(args, "offset", 0))]),
        format)

workspace_symbols(args, world) ==
  TrimResponse(OnServers(args, "query",
    [i \in Each(world.servers) |->
      SearchWorkspaceSymbols(world.servers[i], Arg(args, "limit", 20), Arg(args, "offset", 0))]),
    "symbols")

get_definition(args, world) ==
  OnFile(args, world, ReadDefinitionAtPosition(world.file.opens, At(args, world.file).definition))

get_type_definition(args, world) ==
  OnFile(args, world, ReadTypeDefinitionAtPosition(world.file.opens, At(args, world.file).type))

get_implementation(args, world) ==
  OnFile(args, world, FindImplementationAtPosition(world.file.opens, At(args, world.file).implementation))

get_references(args, world) ==
  LET format == Arg(args, "outputFormat", "full")
  IN  TrimResponse(OnFile(args, world,
        FindReferencesAtPosition(world.file.opens, At(args, world.file).references, format,
                                 Arg(args, "limit", 30), Arg(args, "offset", 0))),
        format)

hover(args, world) ==
  OnFile(args, world,
    GetHoverInfo(world.file.opens, At(args, world.file).hover, Arg(args, "line", 0), Len(world.file.text)))

(* The one tool that looks at its positions.                               *)
batch_hover(args, world) ==
  LET outOfFile(p) == Arg(p, "line", 0) <= 0 \/ Arg(p, "column", 0) <= 0
      answer == IF ~Given(args, "positions") THEN ErrorText
                ELSE IF args.positions = <<>> THEN NoneText
                ELSE IF ~world.file.opens \/ \E i \in 1..Len(args.positions) : outOfFile(args.positions[i])
                     THEN ErrorText
                ELSE Sections(BatchHoverInfo(
                       [i \in 1..Len(args.positions) |-> At(args.positions[i], world.file).batch]))
  IN  OnFile(args, world, answer)

(* Kinds that are not known are passed over; if none is left, all symbols  *)
(* are shown.                                                              *)
api_overview(args, world) ==
  OnFile(args, world,
    GetAPIOverview(world.file.synced, world.file.symbols, Arg(args, "symbolKinds", {}),
                   Arg(args, "includeChildren", TRUE), world.file.hovers))

document_symbols(args, world) ==
  OnFile(args, world, GetDocumentSymbols(world.file.opens, world.file.symbols))

incoming_calls(args, world) == OnFile(args, world, GetIncomingCalls(At(args, world.file).calls))

outgoing_calls(args, world) == OnFile(args, world, GetOutgoingCalls(At(args, world.file).calls))

dependency_graph(args, world) ==
  LET g == At(args, world.file).graph
      answer == IF ~g.ok THEN ErrorText ELSE IF g.roots = <<>> THEN NoneText
                ELSE Sections(<<GenerateCallGraph(g.roots, g.callees, g.callers, g.key, Arg(args, "depth", 3),
                                                  Arg(args, "direction", "outgoing"))>>)
  IN  OnFile(args, world, answer)

-----------------------------------------------------------------------------
(* Diagnostics.  As JSON an error is part of the answer.                   *)

ViewOf(f, args, limit, filter) ==
  IF JSON(args) THEN IF Diff(args) THEN GetDiagnosticDiffForFileJSON(f, limit, filter)
                     ELSE GetDiagnosticsForFileJSON(f, limit, filter)
  ELSE IF Diff(args) THEN GetDiagnosticDiffForFile(f, limit, filter)
  ELSE GetDiagnosticsForFile(f, limit, filter)

(* Exactly one of a file, a list of files and a directory; an empty path   *)
(* counts as none, and paths that are no strings are passed over.          *)
diagnostics(args, world) ==
  LET modes == {m \in {"filePath", "files", "directory"} : Given(args, m)}
      limit == Arg(args, "limit", 20)
      one == ViewOf(world.file, args, limit, Filter(args))
      many(fs) == IF JSON(args) THEN GetDiagnosticsForFilesJSON(fs, limit, Diff(args), Filter(args)).files
                  ELSE GetDiagnosticsForFiles(fs, limit, Diff(args), Filter(args))
      found == CollectFilesFromDirectory(args.directory)
  IN  CASE modes = {"filePath"} ->
             OnFile(args, world, IF one.error /\ ~JSON(args) THEN ErrorText ELSE Sections(<<one>>))
        [] modes = {"files"} -> IF args.files = <<>> THEN ErrorText ELSE Sections(many(args.files))
        [] modes = {"directory"} -> IF found = <<>> THEN NoneText ELSE Sections(many(found))
        [] OTHER -> ErrorText

(* A sequence of the clients' caches, each a sequence of files.            *)
workspace_diagnostics(args, clients) ==
  LET limit == Arg(args, "limit", 20)
  IN  IF clients = <<>> THEN ErrorText
      ELSE IF JSON(args) THEN Sections(IF Diff(args) THEN GetAllDiagnosticDiffsJSON(clients, limit, Filter(args))
                                       ELSE GetAllDiagnosticsJSON(clients, limit, Filter(args)))
      ELSE SectionsOrNone(IF Diff(args) THEN GetAllDiagnosticDiffs(clients, limit, Filter(args))
                          ELSE GetAllDiagnostics(clients, limit, Filter(args)))

server_status(clients) == GetServerStatus(clients)

-----------------------------------------------------------------------------
(* The tools that change files, as calls; what their steps are is in       *)
(* EditTools.  The diagnostics after an edit are left out when they cannot *)
(* be had, and the edit is told of alone.                                  *)
edit_file(args, world) ==
  LET edited == EditFile(world.file.text, args.edits)
      view == ViewOf(world.file, args, 10, [exclude |-> {}, min |-> 0])
      shown == Arg(args, "showDiagnostics", TRUE) /\ (JSON(args) \/ ~view.error)
  IN  OnFile(args, world,
        IF ~Given(args, "edits") \/ ~world.file.opens \/ ~edited.ok THEN ErrorText
        ELSE [kind |-> "edited", text |-> edited.text, diagnostics |-> IF shown THEN <<view>> ELSE <<>>])

rename_symbol(args, world) ==
  LET answer == At(args, world.file).renamed
  IN  OnFile(args, world,
        IF ~Given(args, "newName") \/ ~world.file.opens \/ ~answer.ok THEN ErrorText
        ELSE IF answer.changes = <<>> THEN NoneText ELSE Sections(answer.changes))

(* Without edits, or with none that changes anything, it is "already       *)
(* formatted".                                                             *)
format_file(args, world) ==
  LET answer == world.file.formatting[<<Arg(args, "tabSize", 4), Arg(args, "insertSpaces", TRUE)>>]
      edits == FilterIdentityEdits(world.file.text, answer.edits)
      result == ApplyTextEdits(world.file.text, edits)
  IN  OnFile(args, world,
        IF ~world.file.opens \/ ~answer.ok THEN ErrorText ELSE IF edits = <<>> THEN NoneText
        ELSE IF ~result.ok THEN ErrorText ELSE [kind |-> "edited", text |-> result.text, diagnostics |-> <<>>])

(* All fixes of the file, wherever the line and the column point; the      *)
(* rounds end with the first that finds none.                              *)
apply_fix(args, world) ==
  LET f == world.file
      one == ApplyFix(f.flagged, PlaceOf(args), Arg(args, "diagnosticCode", Anything), f.fixes)
      round == ApplyAllRound(f.fixes)
  IN  OnFile(args, world,
        IF ~f.synced THEN ErrorText
        ELSE IF Arg(args, "applyAll", FALSE)
             THEN IF f.flagged = <<>> \/ ~round.ok THEN NoneText ELSE Sections(<<round.title>>)
        ELSE IF one.ok THEN Sections(<<one.title>>) ELSE ErrorText)
=============================================================================
