------------------------------- MODULE LspUnions -------------------------------
(***************************************************************************)
(* Which alternative of a union an answer is taken for (tsjson.go), and    *)
(* what the tools read from it (internal/protocol/interfaces.go,           *)
(* pattern_interfaces.go, tsdocument-changes.go).                          *)
(*                                                                         *)
(* A value of JSON is null, a scalar with its kind, an array with its      *)
(* elements, an object with a function from the names of its fields, or a  *)
(* value of a type that is not looked into.                                *)
(***************************************************************************)
EXTENDS LspTypes

Null == <<"null">>
Object(f) == <<"object", f>>
IsObject(v) == v[1] = "object"
FieldsOf(T) == T[2] @@ T[3]

(* Seeded fault: fields that a structure does not have are passed over.    *)
RECURSIVE DecodesLeniently(_, _)
DecodesLeniently(T, v) ==
  \/ v = Null \/ T[1] = "any"
  \/ T[1] = "scalar" /\ v[1] \in T[2]
  \/ T[1] = "other" /\ v = T
  \/ T[1] = "array" /\ v[1] = "array" /\ \A i \in 1..Len(v[2]) : DecodesLeniently(T[2], v[2][i])
  \/ T[1] = "union" /\ \E i \in 1..Len(T[2]) : DecodesLeniently(T[2][i], v)
  \/ T[1] = "struct" /\ IsObject(v) /\ \A k \in DOMAIN v[2] \cap DOMAIN FieldsOf(T) :
       DecodesLeniently(FieldsOf(T)[k], v[2][k])

(* Fields may be missing, also those that are always written; but a field  *)
(* that the structure does not have is an error.                           *)
RECURSIVE Decodes(_, _)
Decodes(T, v) ==
  \/ v = Null \/ T[1] = "any"
  \/ T[1] = "scalar" /\ v[1] \in T[2]
  \/ T[1] = "other" /\ v = T
  \/ T[1] = "array" /\ v[1] = "array" /\ \A i \in 1..Len(v[2]) : Decodes(T[2], v[2][i])
  \/ T[1] = "union" /\ \E i \in 1..Len(T[2]) : Decodes(T[2][i], v)
  \/ T[1] = "struct" /\ IsObject(v) /\ \A k \in DOMAIN v[2] :
       k \in DOMAIN FieldsOf(T) /\ Decodes(FieldsOf(T)[k], v[2][k])

(* The first alternative that decodes it, 0 for null, -1 for none.         *)
Decoded(U, v) ==
  LET ways == {i \in 1..Len(U[2]) : Decodes(U[2][i], v)}
  IN  IF v = Null THEN 0 ELSE IF ways = {} THEN -1 ELSE CHOOSE i \in ways : \A j \in ways : i <= j

(* Whether the type has a place for everything in the value.               *)
RECURSIVE Keeps(_, _)
Keeps(T, v) ==
  CASE T[1] = "array" -> \A i \in 1..Len(v[2]) : Keeps(T[2], v[2][i])
    [] T[1] = "union" -> Decoded(T, v) > 0 /\ Keeps(T[2][Decoded(T, v)], v)
    [] T[1] = "struct" -> \A k \in DOMAIN v[2] : k \in DOMAIN FieldsOf(T) /\ Keeps(FieldsOf(T)[k], v[2][k])
    [] OTHER -> TRUE

(* Values that are written for a type: a structure with what it always     *)
(* has, and with none, one or all of the other fields; arrays of none or   *)
(* one.                                                                    *)
RECURSIVE Written(_), WithFields(_, _)
Written(T) ==
  CASE T[1] = "scalar" -> {<<k>> : k \in T[2]}
    [] T[1] = "any" -> {<<"string">>}
    [] T[1] = "other" -> {T}
    [] T[1] = "array" -> {<<"array", <<>> >>} \cup {<<"array", <<e>> >> : e \in Written(T[2])}
    [] T[1] = "union" -> UNION {Written(T[2][i]) : i \in 1..Len(T[2])}
    [] T[1] = "struct" ->
         LET one == UNION {{k :> e : e \in Written(T[3][k])} : k \in DOMAIN T[3]}
             all == [k \in DOMAIN T[3] |-> CHOOSE e \in Written(T[3][k]) : TRUE]
         IN  {Object(g @@ h) : g \in WithFields(T[2], DOMAIN T[2]), h \in {NoFields, all} \cup one}

WithFields(f, names) ==
  IF names = {} THEN {NoFields}
  ELSE LET k == CHOOSE n \in names : TRUE
       IN  {(k :> e) @@ g : e \in Written(f[k]), g \in WithFields(f, names \ {k})}

-----------------------------------------------------------------------------
(* What is read.  A location is its file and where it begins.              *)

Zero == <<"origin">>
Get(v, k) == IF k \in DOMAIN v[2] THEN v[2][k] ELSE IF k = "range" THEN Object([start |-> Zero, end |-> Zero]) ELSE <<"">>
Place(v) == <<Get(v, "uri"), Get(v, "range")[2].start>>
Each(v, Read(_)) == [i \in 1..Len(v[2]) |-> Read(v[2][i])]

(* The selection of a link, unless it is zero.                             *)
LinkPlace(v) ==
  LET selection == v[2].targetSelectionRange[2]
  IN  <<v[2].targetUri,
        IF selection.start = Zero /\ selection.end = Zero THEN v[2].targetRange[2].start ELSE selection.start>>

(* Definition, type definition and implementation.                         *)
Locations(v) ==
  LET way == Decoded(Or_Result_textDocument_definition, v)
  IN  CASE way = 0 -> <<>>
        [] way = 1 -> IF Decoded(Or_Definition, v) = 1 THEN <<Place(v)>> ELSE Each(v, Place)
        [] way = 2 -> Each(v, LinkPlace)

(* Both kinds of symbols have a name; where one is, is in its range or in  *)
(* its location, which may have no range.                                  *)
DocumentSymbols(v) ==
  CASE Decoded(Or_Result_textDocument_documentSymbol, v) = 0 -> <<>>
    [] Decoded(Or_Result_textDocument_documentSymbol, v) = 1 -> Each(v, LAMBDA s : <<s[2].name, s[2].range>>)
    [] OTHER -> Each(v, LAMBDA s : <<s[2].name, s[2].location[2].range>>)
WorkspaceSymbols(v) ==
  LET way == Decoded(Or_Result_workspace_symbol, v)
      place(l) == IF way = 2 /\ Decoded(Or_WorkspaceSymbol_location, l) = 2 THEN <<l[2].uri, Zero>> ELSE Place(l)
  IN  IF way = 0 THEN <<>> ELSE Each(v, LAMBDA s : <<s[2].name, place(s[2].location)>>)

Unreadable == <<"unreadable">>

(* A snippet is no edit that can be applied.                               *)
AsTextEdit(v) ==
  IF Decoded(Or_TextDocumentEdit_edits_Elem, v) \in {1, 3} THEN <<v[2].range, v[2].newText>> ELSE Unreadable

(* A relative pattern whose base is a workspace folder cannot be read.     *)
AsPattern(v) ==
  CASE Decoded(Or_GlobPattern, v) = 1 -> <<"text", v>>
    [] Decoded(Or_RelativePattern_baseUri, v[2].baseUri) = 1 -> <<v[2].baseUri, v[2].pattern>>
    [] OTHER -> Unreadable

(* A change of a document is told by its fields and its kind, and not by   *)
(* what decodes.                                                           *)
DocumentChange(v) == IF "textDocument" \in DOMAIN v[2] THEN "edit" ELSE v[2].kind[2]

-----------------------------------------------------------------------------
(* The pairs of alternatives that some value is written for alike: the     *)
(* union, the alternative meant and the one it is taken for.               *)
Alike ==
  {<<"Or_DocumentDiagnosticReport", 2, 1>>,
   <<"Or_DocumentDiagnosticReportPartialResult_relatedDocuments_Value", 2, 1>>,
   <<"Or_DocumentFilter", 2, 1>>,
   <<"Or_LSPAny", 3, 2>>, <<"Or_LSPAny", 5, 2>>,
   <<"Or_NotebookDocumentFilter", 2, 1>>, <<"Or_NotebookDocumentFilter", 3, 1>>,
   <<"Or_NotebookDocumentSyncOptions_notebookSelector_Elem", 2, 1>>,
   <<"Or_RelatedFullDocumentDiagnosticReport_relatedDocuments_Value", 2, 1>>,
   <<"Or_RelatedUnchangedDocumentDiagnosticReport_relatedDocuments_Value", 2, 1>>,
   <<"Or_Result_workspace_symbol", 2, 1>>,
   <<"Or_ServerCapabilities_notebookDocumentSync", 2, 1>>,
   <<"Or_TextDocumentContentChangeEvent", 2, 1>>,
   <<"Or_TextDocumentEdit_edits_Elem", 3, 1>>,
   <<"Or_TextDocumentFilter", 2, 1>>, <<"Or_TextDocumentFilter", 3, 1>>,
   <<"Or_WorkspaceDocumentDiagnosticReport", 2, 1>>,
   <<"Or_WorkspaceEdit_documentChanges_Elem", 2, 1>>,
   <<"Or_WorkspaceOptions_textDocumentContent", 2, 1>>,
   <<"Or_WorkspaceSymbol_location", 2, 1>>}

(* A link's selection lies in its target.                                  *)
Enclosing(v) ==
  v[2].targetSelectionRange[2].start = Zero => v[2].targetRange[2].start = Zero

(* What was written for the alternative that is meant.                     *)
MeantPlaces(way, v) ==
  IF way = 2 THEN Each(v, LAMBDA l : <<l[2].targetUri, l[2].targetSelectionRange[2].start>>)
  ELSE IF IsObject(v) THEN <<Place(v)>> ELSE Each(v, Place)

MeantSymbols(way, v) ==
  IF way = 1 THEN Each(v, LAMBDA s : <<s[2].name, s[2].range>>)
  ELSE Each(v, LAMBDA s : <<s[2].name, s[2].location[2].range>>)

MeantChange(way) == <<"create", "delete", "rename", "edit">>[way]
OfKind(v, kind) == IF "kind" \in DOMAIN v[2] THEN Object([v[2] EXCEPT !.kind = <<"string", kind>>]) ELSE v

(* An answer that is written for an alternative is decoded with all that   *)
(* is in it, and as this alternative or as one that is written alike.      *)
Understood(name, U, way, v) ==
  LET as == Decoded(U, v)
  IN  /\ as > 0 /\ Keeps(U[2][as], v)
      /\ as = way \/ v = <<"array", <<>> >> \/ <<name, way, as>> \in Alike

(* What the tools read of it is what was meant, whichever it was taken     *)
(* for.                                                                    *)
ReadRight(name, way, v) ==
  CASE name = "Or_Result_textDocument_definition" ->
         (way = 2 => \A i \in 1..Len(v[2]) : Enclosing(v[2][i])) => Locations(v) = MeantPlaces(way, v)
    [] name = "Or_Result_textDocument_documentSymbol" -> DocumentSymbols(v) = MeantSymbols(way, v)
    [] name = "Or_Result_workspace_symbol" ->
         WorkspaceSymbols(v) = Each(v, LAMBDA s : <<s[2].name, Place(s[2].location)>>)
    [] name = "Or_TextDocumentEdit_edits_Elem" ->
         AsTextEdit(v) = IF way = 2 THEN Unreadable ELSE <<v[2].range, v[2].newText>>
    [] name = "Or_GlobPattern" ->
         (AsPattern(v) = Unreadable) = (way = 2 /\ IsObject(v[2].baseUri))
    [] name = "Or_WorkspaceEdit_documentChanges_Elem" ->
         DocumentChange(OfKind(v, MeantChange(way))) = MeantChange(way)
    [] OTHER -> TRUE
=============================================================================
