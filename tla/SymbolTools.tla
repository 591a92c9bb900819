------------------------------ MODULE SymbolTools ------------------------------
(***************************************************************************)
(* The tools that read: definition, type definition, implementation,       *)
(* references, symbols, hover, call hierarchy and server status            *)
(* (internal/tools).                                                       *)
(*                                                                         *)
(* A name is a sequence of characters, with the two separators as          *)
(* characters of their own.  A symbol of the server's answer is [name,     *)
(* container, method, flat, opens, defined, types, impls, refs]: flat      *)
(* tells a SymbolInformation from a WorkspaceSymbol; opens, if its file    *)
(* can be opened; defined, if GetFullDefinition finds its lines; the       *)
(* others are the server's answers for its place.  An answer of the server *)
(* is [ok, locs]; a location is [file, line, defined, hover].  What a tool *)
(* returns is an error, a text that says nothing was found, or sections,   *)
(* which may be cut.                                                       *)
(***************************************************************************)
EXTENDS Selections, SequencesExt

Dot == "."
Colons == "::"

ErrorText == [kind |-> "error"]
NoneText == [kind |-> "none"]
Sections(s) == [kind |-> "sections", sections |-> s, cut |-> FALSE]
SectionsOrNone(s) == IF s = <<>> THEN NoneText ELSE Sections(s)

EndsWith(s, t) == Len(t) <= Len(s) /\ SubSeq(s, Len(s) - Len(t) + 1, Len(s)) = t

(* The query cut at the first separator.                                   *)
Cut(query, sep) ==
  LET at == CHOOSE i \in 1..Len(query) : query[i] = sep /\ \A j \in 1..(i - 1) : query[j] # sep
  IN  <<SubSeq(query, 1, at - 1), SubSeq(query, at + 1, Len(query))>>

Has(query, sep) == sep \in ToSet(query)
Qualified(s, sep) == s.container \o <<sep>> \o s.name

(* A name qualified by "::" need only end the container's name, wherever   *)
(* that is cut: a query for B::m is answered with AB::m too.               *)
MatchSymbol(s, query) ==
  \/ s.name = query
  \/ s.flat /\
       \/ Has(query, Dot) /\ (Cut(query, Dot) = <<s.container, s.name>> \/ Qualified(s, Dot) = query)
       \/ Has(query, Colons) /\ \/ /\ Cut(query, Colons)[2] = s.name
                                   /\ EndsWith(s.container, Cut(query, Colons)[1])
                                \/ Qualified(s, Colons) = query
       \/ s.method /\ \E sep \in {Dot, Colons} : EndsWith(s.name, <<sep>> \o query)

Matches(found, query) == Filtered(found.symbols, LAMBDA s : MatchSymbol(s, query))

FlatMap(s, Op(_)) == Flattened([i \in 1..Len(s) |-> Op(s[i])])

(* What all those give who stand, one after the other; the others are      *)
(* passed over.                                                            *)
FlatMapOf(s, Stands(_), Op(_)) == FlatMap(Filtered(s, Stands), Op)

-----------------------------------------------------------------------------
(* By name.  A symbol that cannot be opened or read is logged and left     *)
(* out; found is the server's answer to workspace/symbol.                  *)

ReadDefinition(found, query) ==
  IF ~found.ok THEN ErrorText
  ELSE SectionsOrNone(Filtered(Matches(found, query), LAMBDA s : s.defined))

(* A type is always told of: by its hover, else by up to 60 lines of it,   *)
(* else by its place.                                                      *)
FormatTypeDefinition(loc) ==
  [loc |-> loc, by |-> IF loc.hover THEN "hover" ELSE IF loc.defined THEN "lines" ELSE "place"]

(* Seeded fault: a symbol that fails ends the search.                      *)
TypesUntilFailure(found, query) ==
  IF ~found.ok \/ \E i \in 1..Len(Matches(found, query)) : ~Matches(found, query)[i].types.ok THEN ErrorText
  ELSE SectionsOrNone(FlatMapOf(Matches(found, query), LAMBDA s : s.opens,
         LAMBDA s : [i \in 1..Len(s.types.locs) |-> FormatTypeDefinition(s.types.locs[i])]))

ReadTypeDefinition(found, query) ==
  IF ~found.ok THEN ErrorText
  ELSE SectionsOrNone(FlatMapOf(Matches(found, query), LAMBDA s : s.opens /\ s.types.ok,
         LAMBDA s : [i \in 1..Len(s.types.locs) |-> FormatTypeDefinition(s.types.locs[i])]))

FindImplementation(found, query) ==
  IF ~found.ok THEN ErrorText
  ELSE SectionsOrNone(FlatMapOf(Matches(found, query), LAMBDA s : s.opens /\ s.impls.ok,
         LAMBDA s : Filtered(s.impls.locs, LAMBDA l : l.defined)))

-----------------------------------------------------------------------------
(* At a position.  When none of the places found can be read, the          *)
(* definition and the implementation are an empty text.                    *)

PlacesAt(opens, answer, Show(_)) ==
  IF ~opens \/ ~answer.ok THEN ErrorText
  ELSE IF answer.locs = <<>> THEN NoneText ELSE Sections(Show(answer.locs))

ReadDefinitionAtPosition(opens, answer) ==
  PlacesAt(opens, answer, LAMBDA locs : Filtered(locs, LAMBDA l : l.defined))

ReadTypeDefinitionAtPosition(opens, answer) ==
  PlacesAt(opens, answer, LAMBDA locs : [i \in 1..Len(locs) |-> FormatTypeDefinition(locs[i])])

FindImplementationAtPosition(opens, answer) ==
  PlacesAt(opens, answer, LAMBDA locs : Filtered(locs, LAMBDA l : l.defined))

-----------------------------------------------------------------------------
(* Pages.  An offset below 0 is 0, a limit of 0 or less is none; next is   *)
(* the offset the answer names for the rest, 0 if it names none.           *)

PastEnd == [past |-> TRUE]

Page(items, limit, offset) ==
  LET from == IF offset < 0 THEN 0 ELSE offset
      rest == SubSeq(items, from + 1, Len(items))
  IN  IF from >= Len(items) THEN PastEnd
      ELSE [past |-> FALSE,
            shown |-> IF limit > 0 /\ Len(rest) > limit THEN SubSeq(rest, 1, limit) ELSE rest,
            next |-> IF limit > 0 /\ Len(items) > from + limit THEN from + limit ELSE 0]

(* The references of a page by file, the files in order, those of a file   *)
(* in the server's order; a file that cannot be read keeps its head.       *)
FormatReferences(refs, limit, offset) ==
  LET page == Page(refs, limit, offset)
      files == Ascending({page.shown[i].file : i \in 1..Len(page.shown)})
      group(f) == [file |-> f, locs |-> Filtered(page.shown, LAMBDA l : l.file = f)]
  IN  IF page.past THEN PastEnd
      ELSE [past |-> FALSE, next |-> page.next, groups |-> [i \in 1..Len(files) |-> group(files[i])]]

(* The short form names all the references in its head.                    *)
FormatReferencesShort(refs, limit, offset) ==
  LET long == FormatReferences(refs, limit, offset)
  IN  IF long.past THEN PastEnd
      ELSE [total |-> Len(refs), next |-> long.next, past |-> FALSE,
            groups |-> [i \in 1..Len(long.groups) |->
              [file |-> long.groups[i].file,
               lines |-> [k \in 1..Len(long.groups[i].locs) |-> long.groups[i].locs[k].line]]]]

Formatted(refs, format, limit, offset) ==
  IF format = "short" THEN FormatReferencesShort(refs, limit, offset) ELSE FormatReferences(refs, limit, offset)

(* Each symbol with references has a page of its own, all with the same    *)
(* limit and offset.  The first request that fails ends the search.        *)
FindReferences(found, query, format, limit, offset) ==
  LET asked == Filtered(Matches(found, query), LAMBDA s : s.opens)
      some == Filtered(asked, LAMBDA s : s.refs.ok /\ s.refs.locs # <<>>)
  IN  IF ~found.ok \/ \E i \in 1..Len(asked) : ~asked[i].refs.ok THEN ErrorText
      ELSE SectionsOrNone([i \in 1..Len(some) |-> Formatted(some[i].refs.locs, format, limit, offset)])

FindReferencesAtPosition(opens, answer, format, limit, offset) ==
  PlacesAt(opens, answer, LAMBDA locs : <<Formatted(locs, format, limit, offset)>>)

(* All symbols the server finds, not only those that match.                *)
SearchWorkspaceSymbols(found, limit, offset) ==
  IF ~found.ok THEN ErrorText ELSE IF found.symbols = <<>> THEN NoneText
  ELSE Sections(<<Page(found.symbols, limit, offset)>>)

-----------------------------------------------------------------------------
(* Outlines.  A symbol of a document is [kind, flat, children]; the answer *)
(* lists a symbol before its children.  The walk of the code goes down to  *)
(* any depth, and does below the children what it does here for them; the  *)
(* model has one level, as no filter and no option tells deeper ones apart.*)
Outline(s, deep) ==
  IF s.flat \/ ~deep THEN << [kind |-> s.kind, indent |-> 0] >>
  ELSE << [kind |-> s.kind, indent |-> 0] >>
       \o [i \in 1..Len(s.children) |-> [kind |-> s.children[i].kind, indent |-> 1]]

GetDocumentSymbols(opens, answer) ==
  IF ~opens \/ ~answer.ok THEN ErrorText
  ELSE SectionsOrNone(FlatMap(answer.symbols, LAMBDA s : Outline(s, TRUE)))

(* The kinds asked for choose among the symbols of the top level; their    *)
(* children come with them, of whatever kind.                              *)
CollectSymbolTargets(symbols, kinds, includeChildren) ==
  FlatMap(Filtered(symbols, LAMBDA s : kinds = {} \/ s.kind \in kinds),
          LAMBDA s : Outline(s, includeChildren))

(* One hover for each position, in the order asked, five requests at a     *)
(* time; one that fails is shown without content.                          *)
BatchHoverInfo(hovers) ==
  [i \in 1..Len(hovers) |-> IF hovers[i].ok THEN hovers[i].content ELSE ""]

GetAPIOverview(synced, answer, kinds, includeChildren, hover) ==
  LET targets == CollectSymbolTargets(answer.symbols, kinds, includeChildren)
      hovers == BatchHoverInfo([i \in 1..Len(targets) |-> hover[targets[i].kind]])
  IN  IF ~synced \/ ~answer.ok THEN ErrorText
      ELSE SectionsOrNone([i \in 1..Len(targets) |-> <<targets[i], hovers[i]>>])

(* Markup, a string, a marked string with or without a language, or a list *)
(* of those; anything else is no content.                                  *)
FormatHoverContents(contents) ==
  IF contents.kind \in {"markup", "string", "marked", "list"} THEN contents.text ELSE ""

(* Without content the line is shown, unless it is the last one: its end   *)
(* is looked for on the line that follows.                                 *)
GetHoverInfo(opens, answer, line, lines) ==
  LET content == FormatHoverContents(answer.contents)
  IN  IF ~opens \/ ~answer.ok THEN ErrorText
      ELSE IF content # "" THEN Sections(<<content>>)
      ELSE Sections(<<IF line \in 1..(lines - 1) THEN "the line" ELSE "">>)

-----------------------------------------------------------------------------
(* Calls.  An item of the call hierarchy has the server's answers for its  *)
(* callers and callees, [ok, unknown, calls]; unknown tells the error "no  *)
(* such method" from the others.  The first failure ends the search.       *)

GetIncomingCalls(prepared) ==
  IF ~prepared.ok THEN ErrorText ELSE IF prepared.items = <<>> THEN NoneText
  ELSE IF \E i \in 1..Len(prepared.items) : ~prepared.items[i].incoming.ok THEN ErrorText
  ELSE Sections([i \in 1..Len(prepared.items) |-> prepared.items[i].incoming.calls])

(* Where the server has no such method, they are put together from the     *)
(* tokens of the text (CallGraph).                                         *)
GetOutgoingCalls(prepared) ==
  LET calls(item) == IF item.outgoing.unknown THEN item.synthetic ELSE item.outgoing
  IN  IF ~prepared.ok THEN ErrorText ELSE IF prepared.items = <<>> THEN NoneText
      ELSE IF \E i \in 1..Len(prepared.items) : ~calls(prepared.items[i]).ok THEN ErrorText
      ELSE Sections([i \in 1..Len(prepared.items) |-> calls(prepared.items[i]).calls])

(* A process that has exited is only known as such once somebody has       *)
(* waited for it (Close): a crashed server is shown as running.            *)
GetServerStatus(clients) ==
  SectionsOrNone([i \in 1..Len(clients) |->
    [status |-> IF clients[i].waited THEN "dead" ELSE IF clients[i].started THEN "running" ELSE "not started",
     indexing |-> clients[i].progress # {}, open |-> Cardinality(clients[i].open),
     files |-> Cardinality({f \in DOMAIN clients[i].diagnostics : clients[i].diagnostics[f] > 0})]])
=============================================================================
