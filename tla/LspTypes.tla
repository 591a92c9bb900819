------------------------------- MODULE LspTypes -------------------------------
(***************************************************************************)
(* The union types of the protocol as they are generated from its          *)
(* description (internal/protocol/tsjson.go), and the structures that are  *)
(* told apart in them (tsprotocol.go).  A union lists its alternatives in  *)
(* the order in which they are tried; a structure has the fields that are  *)
(* always written and those that are left out when they are zero.  Types   *)
(* that no two alternatives share are not looked into (Other).             *)
(***************************************************************************)
EXTENDS Integers, Sequences, TLC

Union(alternatives) == <<"union", alternatives>>
Struct(always, optional) == <<"struct", always, optional>>
NoFields == [x \in {} |-> x]
Fields(always) == Struct(always, NoFields)
Options(optional) == Struct(NoFields, optional)
Arr(T) == <<"array", T>>
Other(name) == <<"other", name>>
Anything == <<"any">>

(* Values of JSON with no parts, and which of them a type takes; a         *)
(* position is the origin of a file or elsewhere.                          *)
Scalar(kinds) == <<"scalar", kinds>>
Bool == Scalar({"bool"})
Str == Scalar({"string"})
Int32 == Scalar({"small", "negative"})
UInt32 == Scalar({"small", "big"})
Float64 == Scalar({"small", "negative", "big", "fraction"})
Position == Scalar({"origin", "elsewhere"})

-----------------------------------------------------------------------------
Or_CancelParams_id == Union(<<Int32, Str>>)
ClientSemanticTokensRequestFullDelta == Options([delta |-> Bool])
Or_ClientSemanticTokensRequestOptions_full ==
  Union(<<Bool, ClientSemanticTokensRequestFullDelta>>)
Lit_ClientSemanticTokensRequestOptions_range_Item1 == Fields(NoFields)
Or_ClientSemanticTokensRequestOptions_range ==
  Union(<<Bool, Lit_ClientSemanticTokensRequestOptions_range_Item1>>)
Range == Fields([start |-> Position, end |-> Position])
EditRangeWithInsertReplace == Fields([insert |-> Range, replace |-> Range])
Or_CompletionItemDefaults_editRange == Union(<<EditRangeWithInsertReplace, Range>>)
MarkupContent == Fields([kind |-> Str, value |-> Str])
Or_CompletionItem_documentation == Union(<<Str, MarkupContent>>)
InsertReplaceEdit == Fields([newText |-> Str, insert |-> Range, replace |-> Range])
TextEdit == Fields([range |-> Range, newText |-> Str])
Or_CompletionItem_textEdit == Union(<<InsertReplaceEdit, TextEdit>>)
Location == Fields([uri |-> Str, range |-> Range])
Or_Declaration == Union(<<Location, Arr(Location)>>)
Or_Definition == Union(<<Location, Arr(Location)>>)
Or_Diagnostic_code == Union(<<Int32, Str>>)
Or_DidChangeConfigurationRegistrationOptions_section == Union(<<Str, Arr(Str)>>)
RelatedFullDocumentDiagnosticReport ==
  Struct([kind |-> Str, items |-> Arr(Other("Diagnostic"))],
         [resultId |-> Str, relatedDocuments |-> Other("map")])
RelatedUnchangedDocumentDiagnosticReport ==
  Struct([kind |-> Str, resultId |-> Str], [relatedDocuments |-> Other("map")])
Or_DocumentDiagnosticReport ==
  Union(<<RelatedFullDocumentDiagnosticReport, RelatedUnchangedDocumentDiagnosticReport>>)
FullDocumentDiagnosticReport ==
  Struct([kind |-> Str, items |-> Arr(Other("Diagnostic"))], [resultId |-> Str])
UnchangedDocumentDiagnosticReport == Fields([kind |-> Str, resultId |-> Str])
Or_DocumentDiagnosticReportPartialResult_relatedDocuments_Value ==
  Union(<<FullDocumentDiagnosticReport, UnchangedDocumentDiagnosticReport>>)
WorkspaceFolder == Fields([uri |-> Str, name |-> Str])
Or_RelativePattern_baseUri == Union(<<Str, WorkspaceFolder>>)
RelativePattern == Fields([baseUri |-> Or_RelativePattern_baseUri, pattern |-> Str])
Or_GlobPattern == Union(<<Str, RelativePattern>>)
NotebookDocumentFilterNotebookType ==
  Struct([notebookType |-> Str], [scheme |-> Str, pattern |-> Or_GlobPattern])
NotebookDocumentFilterPattern ==
  Struct([pattern |-> Or_GlobPattern], [notebookType |-> Str, scheme |-> Str])
NotebookDocumentFilterScheme ==
  Struct([scheme |-> Str], [notebookType |-> Str, pattern |-> Or_GlobPattern])
Or_NotebookDocumentFilter ==
  Union(<<NotebookDocumentFilterNotebookType, NotebookDocumentFilterPattern,
          NotebookDocumentFilterScheme>>)
Or_NotebookCellTextDocumentFilter_notebook == Union(<<Str, Or_NotebookDocumentFilter>>)
NotebookCellTextDocumentFilter ==
  Struct([notebook |-> Or_NotebookCellTextDocumentFilter_notebook], [language |-> Str])
TextDocumentFilterLanguage ==
  Struct([language |-> Str], [scheme |-> Str, pattern |-> Or_GlobPattern])
TextDocumentFilterPattern ==
  Struct([pattern |-> Or_GlobPattern], [language |-> Str, scheme |-> Str])
TextDocumentFilterScheme ==
  Struct([scheme |-> Str], [language |-> Str, pattern |-> Or_GlobPattern])
Or_TextDocumentFilter ==
  Union(<<TextDocumentFilterLanguage, TextDocumentFilterPattern, TextDocumentFilterScheme>>)
Or_DocumentFilter == Union(<<NotebookCellTextDocumentFilter, Or_TextDocumentFilter>>)
MarkedStringWithLanguage == Fields([language |-> Str, value |-> Str])
Or_MarkedString == Union(<<Str, MarkedStringWithLanguage>>)
Or_Hover_contents == Union(<<Or_MarkedString, MarkupContent, Arr(Or_MarkedString)>>)
Or_InlayHintLabelPart_tooltip == Union(<<Str, MarkupContent>>)
Command ==
  Struct([title |-> Str, command |-> Str], [tooltip |-> Str, arguments |-> Arr(Anything)])
InlayHintLabelPart ==
  Struct([value |-> Str],
         [tooltip |-> Or_InlayHintLabelPart_tooltip, location |-> Location,
          command |-> Command])
Or_InlayHint_label == Union(<<Str, Arr(InlayHintLabelPart)>>)
Or_InlayHint_tooltip == Union(<<Str, MarkupContent>>)
StringValue == Fields([kind |-> Str, value |-> Str])
Or_InlineCompletionItem_insertText == Union(<<Str, StringValue>>)
InlineValueEvaluatableExpression == Struct([range |-> Range], [expression |-> Str])
InlineValueText == Fields([range |-> Range, text |-> Str])
InlineValueVariableLookup ==
  Struct([range |-> Range, caseSensitiveLookup |-> Bool], [variableName |-> Str])
Or_InlineValue ==
  Union(<<InlineValueEvaluatableExpression, InlineValueText, InlineValueVariableLookup>>)
Or_LSPAny == Union(<<Bool, Float64, Int32, Str, UInt32, Arr(Anything), Other("map")>>)
Or_NotebookDocumentFilterWithCells_notebook == Union(<<Str, Or_NotebookDocumentFilter>>)
Or_NotebookDocumentFilterWithNotebook_notebook == Union(<<Str, Or_NotebookDocumentFilter>>)
NotebookDocumentFilterWithCells ==
  Struct([cells |-> Arr(Other("NotebookCellLanguage"))],
         [notebook |-> Or_NotebookDocumentFilterWithCells_notebook])
NotebookDocumentFilterWithNotebook ==
  Struct([notebook |-> Or_NotebookDocumentFilterWithNotebook_notebook],
         [cells |-> Arr(Other("NotebookCellLanguage"))])
Or_NotebookDocumentSyncOptions_notebookSelector_Elem ==
  Union(<<NotebookDocumentFilterWithCells, NotebookDocumentFilterWithNotebook>>)
Or_ParameterInformation_documentation == Union(<<Str, MarkupContent>>)
Tuple_ParameterInformation_label_Item1 == Fields([fld0 |-> UInt32, fld1 |-> UInt32])
Or_ParameterInformation_label == Union(<<Str, Tuple_ParameterInformation_label_Item1>>)
PrepareRenameDefaultBehavior == Fields([defaultBehavior |-> Bool])
PrepareRenamePlaceholder == Fields([range |-> Range, placeholder |-> Str])
Or_PrepareRenameResult ==
  Union(<<PrepareRenameDefaultBehavior, PrepareRenamePlaceholder, Range>>)
Or_ProgressToken == Union(<<Int32, Str>>)
Or_RelatedFullDocumentDiagnosticReport_relatedDocuments_Value ==
  Union(<<FullDocumentDiagnosticReport, UnchangedDocumentDiagnosticReport>>)
Or_RelatedUnchangedDocumentDiagnosticReport_relatedDocuments_Value ==
  Union(<<FullDocumentDiagnosticReport, UnchangedDocumentDiagnosticReport>>)
CodeAction ==
  Struct([title |-> Str],
         [kind |-> Str, diagnostics |-> Arr(Other("Diagnostic")), isPreferred |-> Bool,
          disabled |-> Other("CodeActionDisabled"),
          edit |-> Other("WorkspaceEdit"), command |-> Command,
          data |-> Anything])
Or_Result_textDocument_codeAction_Item0_Elem == Union(<<CodeAction, Command>>)
CompletionItem ==
  Struct([label |-> Str],
         [labelDetails |-> Other("CompletionItemLabelDetails"), kind |-> UInt32,
          tags |-> Arr(UInt32), detail |-> Str,
          documentation |-> Or_CompletionItem_documentation, deprecated |-> Bool,
          preselect |-> Bool, sortText |-> Str, filterText |-> Str,
          insertText |-> Str, insertTextFormat |-> UInt32,
          insertTextMode |-> UInt32, textEdit |-> Or_CompletionItem_textEdit,
          textEditText |-> Str, additionalTextEdits |-> Arr(TextEdit),
          commitCharacters |-> Arr(Str), command |-> Command, data |-> Anything])
CompletionList ==
  Struct([isIncomplete |-> Bool, items |-> Arr(CompletionItem)],
         [itemDefaults |-> Other("CompletionItemDefaults")])
Or_Result_textDocument_completion == Union(<<CompletionList, Arr(CompletionItem)>>)
LocationLink ==
  Struct([targetUri |-> Str, targetRange |-> Range, targetSelectionRange |-> Range],
         [originSelectionRange |-> Range])
Or_Result_textDocument_declaration == Union(<<Or_Declaration, Arr(LocationLink)>>)
Or_Result_textDocument_definition == Union(<<Or_Definition, Arr(LocationLink)>>)
DocumentSymbol ==
  Struct([name |-> Str, kind |-> UInt32, range |-> Range, selectionRange |-> Range],
         [detail |-> Str, tags |-> Arr(UInt32), deprecated |-> Bool,
          children |-> Arr(Other("DocumentSymbol"))])
SymbolInformation ==
  Struct([location |-> Location, name |-> Str, kind |-> UInt32],
         [deprecated |-> Bool, tags |-> Arr(UInt32), containerName |-> Str])
Or_Result_textDocument_documentSymbol ==
  Union(<<Arr(DocumentSymbol), Arr(SymbolInformation)>>)
Or_Result_textDocument_implementation == Union(<<Or_Definition, Arr(LocationLink)>>)
InlineCompletionItem ==
  Struct([insertText |-> Or_InlineCompletionItem_insertText],
         [filterText |-> Str, range |-> Range, command |-> Command])
InlineCompletionList == Fields([items |-> Arr(InlineCompletionItem)])
Or_Result_textDocument_inlineCompletion ==
  Union(<<InlineCompletionList, Arr(InlineCompletionItem)>>)
SemanticTokens == Struct([data |-> Arr(UInt32)], [resultId |-> Str])
SemanticTokensDelta ==
  Struct([edits |-> Arr(Other("SemanticTokensEdit"))], [resultId |-> Str])
Or_Result_textDocument_semanticTokens_full_delta ==
  Union(<<SemanticTokens, SemanticTokensDelta>>)
Or_Result_textDocument_typeDefinition == Union(<<Or_Definition, Arr(LocationLink)>>)
LocationUriOnly == Fields([uri |-> Str])
Or_WorkspaceSymbol_location == Union(<<Location, LocationUriOnly>>)
WorkspaceSymbol ==
  Struct([name |-> Str, kind |-> UInt32, location |-> Or_WorkspaceSymbol_location],
         [tags |-> Arr(UInt32), containerName |-> Str, score |-> Float64,
          data |-> Anything])
Or_Result_workspace_symbol == Union(<<Arr(SymbolInformation), Arr(WorkspaceSymbol)>>)
SemanticTokensFullDelta == Options([delta |-> Bool])
Or_SemanticTokensOptions_full == Union(<<Bool, SemanticTokensFullDelta>>)
Lit_SemanticTokensOptions_range_Item1 == Fields(NoFields)
Or_SemanticTokensOptions_range == Union(<<Bool, Lit_SemanticTokensOptions_range_Item1>>)
CallHierarchyOptions == Options([workDoneProgress |-> Bool])
CallHierarchyRegistrationOptions ==
  Struct([documentSelector |-> Arr(Or_DocumentFilter)],
         [workDoneProgress |-> Bool, id |-> Str])
Or_ServerCapabilities_callHierarchyProvider ==
  Union(<<Bool, CallHierarchyOptions, CallHierarchyRegistrationOptions>>)
CodeActionOptions ==
  Options([workDoneProgress |-> Bool, codeActionKinds |-> Arr(Str),
          documentation |-> Arr(Other("CodeActionKindDocumentation")),
          resolveProvider |-> Bool])
Or_ServerCapabilities_codeActionProvider == Union(<<Bool, CodeActionOptions>>)
DocumentColorOptions == Options([workDoneProgress |-> Bool])
DocumentColorRegistrationOptions ==
  Struct([documentSelector |-> Arr(Or_DocumentFilter)],
         [workDoneProgress |-> Bool, id |-> Str])
Or_ServerCapabilities_colorProvider ==
  Union(<<Bool, DocumentColorOptions, DocumentColorRegistrationOptions>>)
DeclarationOptions == Options([workDoneProgress |-> Bool])
DeclarationRegistrationOptions ==
  Struct([documentSelector |-> Arr(Or_DocumentFilter)],
         [workDoneProgress |-> Bool, id |-> Str])
Or_ServerCapabilities_declarationProvider ==
  Union(<<Bool, DeclarationOptions, DeclarationRegistrationOptions>>)
DefinitionOptions == Options([workDoneProgress |-> Bool])
Or_ServerCapabilities_definitionProvider == Union(<<Bool, DefinitionOptions>>)
DiagnosticOptions ==
  Struct([interFileDependencies |-> Bool, workspaceDiagnostics |-> Bool],
         [workDoneProgress |-> Bool, identifier |-> Str])
DiagnosticRegistrationOptions ==
  Struct([documentSelector |-> Arr(Or_DocumentFilter), interFileDependencies |-> Bool,
        workspaceDiagnostics |-> Bool],
         [workDoneProgress |-> Bool, identifier |-> Str, id |-> Str])
Or_ServerCapabilities_diagnosticProvider ==
  Union(<<DiagnosticOptions, DiagnosticRegistrationOptions>>)
DocumentFormattingOptions == Options([workDoneProgress |-> Bool])
Or_ServerCapabilities_documentFormattingProvider ==
  Union(<<Bool, DocumentFormattingOptions>>)
DocumentHighlightOptions == Options([workDoneProgress |-> Bool])
Or_ServerCapabilities_documentHighlightProvider == Union(<<Bool, DocumentHighlightOptions>>)
DocumentRangeFormattingOptions ==
  Options([workDoneProgress |-> Bool, rangesSupport |-> Bool])
Or_ServerCapabilities_documentRangeFormattingProvider ==
  Union(<<Bool, DocumentRangeFormattingOptions>>)
DocumentSymbolOptions == Options([workDoneProgress |-> Bool, label |-> Str])
Or_ServerCapabilities_documentSymbolProvider == Union(<<Bool, DocumentSymbolOptions>>)
FoldingRangeOptions == Options([workDoneProgress |-> Bool])
FoldingRangeRegistrationOptions ==
  Struct([documentSelector |-> Arr(Or_DocumentFilter)],
         [workDoneProgress |-> Bool, id |-> Str])
Or_ServerCapabilities_foldingRangeProvider ==
  Union(<<Bool, FoldingRangeOptions, FoldingRangeRegistrationOptions>>)
HoverOptions == Options([workDoneProgress |-> Bool])
Or_ServerCapabilities_hoverProvider == Union(<<Bool, HoverOptions>>)
ImplementationOptions == Options([workDoneProgress |-> Bool])
ImplementationRegistrationOptions ==
  Struct([documentSelector |-> Arr(Or_DocumentFilter)],
         [workDoneProgress |-> Bool, id |-> Str])
Or_ServerCapabilities_implementationProvider ==
  Union(<<Bool, ImplementationOptions, ImplementationRegistrationOptions>>)
InlayHintOptions == Options([workDoneProgress |-> Bool, resolveProvider |-> Bool])
InlayHintRegistrationOptions ==
  Struct([documentSelector |-> Arr(Or_DocumentFilter)],
         [workDoneProgress |-> Bool, resolveProvider |-> Bool, id |-> Str])
Or_ServerCapabilities_inlayHintProvider ==
  Union(<<Bool, InlayHintOptions, InlayHintRegistrationOptions>>)
InlineCompletionOptions == Options([workDoneProgress |-> Bool])
Or_ServerCapabilities_inlineCompletionProvider == Union(<<Bool, InlineCompletionOptions>>)
InlineValueOptions == Options([workDoneProgress |-> Bool])
InlineValueRegistrationOptions ==
  Struct([documentSelector |-> Arr(Or_DocumentFilter)],
         [workDoneProgress |-> Bool, id |-> Str])
Or_ServerCapabilities_inlineValueProvider ==
  Union(<<Bool, InlineValueOptions, InlineValueRegistrationOptions>>)
LinkedEditingRangeOptions == Options([workDoneProgress |-> Bool])
LinkedEditingRangeRegistrationOptions ==
  Struct([documentSelector |-> Arr(Or_DocumentFilter)],
         [workDoneProgress |-> Bool, id |-> Str])
Or_ServerCapabilities_linkedEditingRangeProvider ==
  Union(<<Bool, LinkedEditingRangeOptions, LinkedEditingRangeRegistrationOptions>>)
MonikerOptions == Options([workDoneProgress |-> Bool])
MonikerRegistrationOptions ==
  Struct([documentSelector |-> Arr(Or_DocumentFilter)], [workDoneProgress |-> Bool])
Or_ServerCapabilities_monikerProvider ==
  Union(<<Bool, MonikerOptions, MonikerRegistrationOptions>>)
NotebookDocumentSyncOptions ==
  Struct([notebookSelector |-> Arr(Or_NotebookDocumentSyncOptions_notebookSelector_Elem)],
         [save |-> Bool])
NotebookDocumentSyncRegistrationOptions ==
  Struct([notebookSelector |-> Arr(Or_NotebookDocumentSyncOptions_notebookSelector_Elem)],
         [save |-> Bool, id |-> Str])
Or_ServerCapabilities_notebookDocumentSync ==
  Union(<<NotebookDocumentSyncOptions, NotebookDocumentSyncRegistrationOptions>>)
ReferenceOptions == Options([workDoneProgress |-> Bool])
Or_ServerCapabilities_referencesProvider == Union(<<Bool, ReferenceOptions>>)
RenameOptions == Options([workDoneProgress |-> Bool, prepareProvider |-> Bool])
Or_ServerCapabilities_renameProvider == Union(<<Bool, RenameOptions>>)
SelectionRangeOptions == Options([workDoneProgress |-> Bool])
SelectionRangeRegistrationOptions ==
  Struct([documentSelector |-> Arr(Or_DocumentFilter)],
         [workDoneProgress |-> Bool, id |-> Str])
Or_ServerCapabilities_selectionRangeProvider ==
  Union(<<Bool, SelectionRangeOptions, SelectionRangeRegistrationOptions>>)
SemanticTokensOptions ==
  Struct([legend |-> Other("SemanticTokensLegend")],
         [workDoneProgress |-> Bool, range |-> Or_SemanticTokensOptions_range,
          full |-> Or_SemanticTokensOptions_full])
SemanticTokensRegistrationOptions ==
  Struct([documentSelector |-> Arr(Or_DocumentFilter),
        legend |-> Other("SemanticTokensLegend")],
         [workDoneProgress |-> Bool, range |-> Or_SemanticTokensOptions_range,
          full |-> Or_SemanticTokensOptions_full, id |-> Str])
Or_ServerCapabilities_semanticTokensProvider ==
  Union(<<SemanticTokensOptions, SemanticTokensRegistrationOptions>>)
SaveOptions == Options([includeText |-> Bool])
TextDocumentSyncOptions ==
  Options([openClose |-> Bool, change |-> UInt32, willSave |-> Bool,
          willSaveWaitUntil |-> Bool, save |-> SaveOptions])
Or_ServerCapabilities_textDocumentSync == Union(<<UInt32, TextDocumentSyncOptions>>)
TypeDefinitionOptions == Options([workDoneProgress |-> Bool])
TypeDefinitionRegistrationOptions ==
  Struct([documentSelector |-> Arr(Or_DocumentFilter)],
         [workDoneProgress |-> Bool, id |-> Str])
Or_ServerCapabilities_typeDefinitionProvider ==
  Union(<<Bool, TypeDefinitionOptions, TypeDefinitionRegistrationOptions>>)
TypeHierarchyOptions == Options([workDoneProgress |-> Bool])
TypeHierarchyRegistrationOptions ==
  Struct([documentSelector |-> Arr(Or_DocumentFilter)],
         [workDoneProgress |-> Bool, id |-> Str])
Or_ServerCapabilities_typeHierarchyProvider ==
  Union(<<Bool, TypeHierarchyOptions, TypeHierarchyRegistrationOptions>>)
WorkspaceSymbolOptions == Options([workDoneProgress |-> Bool, resolveProvider |-> Bool])
Or_ServerCapabilities_workspaceSymbolProvider == Union(<<Bool, WorkspaceSymbolOptions>>)
Or_SignatureInformation_documentation == Union(<<Str, MarkupContent>>)
TextDocumentContentChangePartial ==
  Struct([text |-> Str], [range |-> Range, rangeLength |-> UInt32])
TextDocumentContentChangeWholeDocument == Fields([text |-> Str])
Or_TextDocumentContentChangeEvent ==
  Union(<<TextDocumentContentChangePartial, TextDocumentContentChangeWholeDocument>>)
AnnotatedTextEdit == Struct([range |-> Range, newText |-> Str], [annotationId |-> Str])
SnippetTextEdit ==
  Struct([range |-> Range, snippet |-> StringValue], [annotationId |-> Str])
Or_TextDocumentEdit_edits_Elem == Union(<<AnnotatedTextEdit, SnippetTextEdit, TextEdit>>)
Or_TextDocumentSyncOptions_save == Union(<<Bool, SaveOptions>>)
WorkspaceFullDocumentDiagnosticReport ==
  Struct([kind |-> Str, items |-> Arr(Other("Diagnostic")), uri |-> Str,
        version |-> Int32],
         [resultId |-> Str])
WorkspaceUnchangedDocumentDiagnosticReport ==
  Fields([kind |-> Str, resultId |-> Str, uri |-> Str, version |-> Int32])
Or_WorkspaceDocumentDiagnosticReport ==
  Union(<<WorkspaceFullDocumentDiagnosticReport,
          WorkspaceUnchangedDocumentDiagnosticReport>>)
CreateFileOptions == Options([overwrite |-> Bool, ignoreIfExists |-> Bool])
CreateFile ==
  Struct([kind |-> Str, uri |-> Str], [annotationId |-> Str, options |-> CreateFileOptions])
DeleteFileOptions == Options([recursive |-> Bool, ignoreIfNotExists |-> Bool])
DeleteFile ==
  Struct([kind |-> Str, uri |-> Str], [annotationId |-> Str, options |-> DeleteFileOptions])
RenameFileOptions == Options([overwrite |-> Bool, ignoreIfExists |-> Bool])
RenameFile ==
  Struct([kind |-> Str, oldUri |-> Str, newUri |-> Str],
         [annotationId |-> Str, options |-> RenameFileOptions])
OptionalVersionedTextDocumentIdentifier == Fields([uri |-> Str, version |-> Int32])
TextDocumentEdit ==
  Fields([textDocument |-> OptionalVersionedTextDocumentIdentifier,
          edits |-> Arr(Or_TextDocumentEdit_edits_Elem)])
Or_WorkspaceEdit_documentChanges_Elem ==
  Union(<<CreateFile, DeleteFile, RenameFile, TextDocumentEdit>>)
Or_WorkspaceFoldersServerCapabilities_changeNotifications == Union(<<Bool, Str>>)
TextDocumentContentOptions == Fields([scheme |-> Str])
TextDocumentContentRegistrationOptions == Struct([scheme |-> Str], [id |-> Str])
Or_WorkspaceOptions_textDocumentContent ==
  Union(<<TextDocumentContentOptions, TextDocumentContentRegistrationOptions>>)

-----------------------------------------------------------------------------
(* The unions by their names.                                              *)
Unions ==
  [Or_CancelParams_id |-> Or_CancelParams_id,
   Or_ClientSemanticTokensRequestOptions_full |-> Or_ClientSemanticTokensRequestOptions_full,
   Or_ClientSemanticTokensRequestOptions_range |-> Or_ClientSemanticTokensRequestOptions_range,
   Or_CompletionItemDefaults_editRange |-> Or_CompletionItemDefaults_editRange,
   Or_CompletionItem_documentation |-> Or_CompletionItem_documentation,
   Or_CompletionItem_textEdit |-> Or_CompletionItem_textEdit,
   Or_Declaration |-> Or_Declaration,
   Or_Definition |-> Or_Definition,
   Or_Diagnostic_code |-> Or_Diagnostic_code,
   Or_DidChangeConfigurationRegistrationOptions_section |-> Or_DidChangeConfigurationRegistrationOptions_section,
   Or_DocumentDiagnosticReport |-> Or_DocumentDiagnosticReport,
   Or_DocumentDiagnosticReportPartialResult_relatedDocuments_Value |-> Or_DocumentDiagnosticReportPartialResult_relatedDocuments_Value,
   Or_DocumentFilter |-> Or_DocumentFilter,
   Or_GlobPattern |-> Or_GlobPattern,
   Or_Hover_contents |-> Or_Hover_contents,
   Or_InlayHintLabelPart_tooltip |-> Or_InlayHintLabelPart_tooltip,
   Or_InlayHint_label |-> Or_InlayHint_label,
   Or_InlayHint_tooltip |-> Or_InlayHint_tooltip,
   Or_InlineCompletionItem_insertText |-> Or_InlineCompletionItem_insertText,
   Or_InlineValue |-> Or_InlineValue,
   Or_LSPAny |-> Or_LSPAny,
   Or_MarkedString |-> Or_MarkedString,
   Or_NotebookCellTextDocumentFilter_notebook |-> Or_NotebookCellTextDocumentFilter_notebook,
   Or_NotebookDocumentFilter |-> Or_NotebookDocumentFilter,
   Or_NotebookDocumentFilterWithCells_notebook |-> Or_NotebookDocumentFilterWithCells_notebook,
   Or_NotebookDocumentFilterWithNotebook_notebook |-> Or_NotebookDocumentFilterWithNotebook_notebook,
   Or_NotebookDocumentSyncOptions_notebookSelector_Elem |-> Or_NotebookDocumentSyncOptions_notebookSelector_Elem,
   Or_ParameterInformation_documentation |-> Or_ParameterInformation_documentation,
   Or_ParameterInformation_label |-> Or_ParameterInformation_label,
   Or_PrepareRenameResult |-> Or_PrepareRenameResult,
   Or_ProgressToken |-> Or_ProgressToken,
   Or_RelatedFullDocumentDiagnosticReport_relatedDocuments_Value |-> Or_RelatedFullDocumentDiagnosticReport_relatedDocuments_Value,
   Or_RelatedUnchangedDocumentDiagnosticReport_relatedDocuments_Value |-> Or_RelatedUnchangedDocumentDiagnosticReport_relatedDocuments_Value,
   Or_RelativePattern_baseUri |-> Or_RelativePattern_baseUri,
   Or_Result_textDocument_codeAction_Item0_Elem |-> Or_Result_textDocument_codeAction_Item0_Elem,
   Or_Result_textDocument_completion |-> Or_Result_textDocument_completion,
   Or_Result_textDocument_declaration |-> Or_Result_textDocument_declaration,
   Or_Result_textDocument_definition |-> Or_Result_textDocument_definition,
   Or_Result_textDocument_documentSymbol |-> Or_Result_textDocument_documentSymbol,
   Or_Result_textDocument_implementation |-> Or_Result_textDocument_implementation,
   Or_Result_textDocument_inlineCompletion |-> Or_Result_textDocument_inlineCompletion,
   Or_Result_textDocument_semanticTokens_full_delta |-> Or_Result_textDocument_semanticTokens_full_delta,
   Or_Result_textDocument_typeDefinition |-> Or_Result_textDocument_typeDefinition,
   Or_Result_workspace_symbol |-> Or_Result_workspace_symbol,
   Or_SemanticTokensOptions_full |-> Or_SemanticTokensOptions_full,
   Or_SemanticTokensOptions_range |-> Or_SemanticTokensOptions_range,
   Or_ServerCapabilities_callHierarchyProvider |-> Or_ServerCapabilities_callHierarchyProvider,
   Or_ServerCapabilities_codeActionProvider |-> Or_ServerCapabilities_codeActionProvider,
   Or_ServerCapabilities_colorProvider |-> Or_ServerCapabilities_colorProvider,
   Or_ServerCapabilities_declarationProvider |-> Or_ServerCapabilities_declarationProvider,
   Or_ServerCapabilities_definitionProvider |-> Or_ServerCapabilities_definitionProvider,
   Or_ServerCapabilities_diagnosticProvider |-> Or_ServerCapabilities_diagnosticProvider,
   Or_ServerCapabilities_documentFormattingProvider |-> Or_ServerCapabilities_documentFormattingProvider,
   Or_ServerCapabilities_documentHighlightProvider |-> Or_ServerCapabilities_documentHighlightProvider,
   Or_ServerCapabilities_documentRangeFormattingProvider |-> Or_ServerCapabilities_documentRangeFormattingProvider,
   Or_ServerCapabilities_documentSymbolProvider |-> Or_ServerCapabilities_documentSymbolProvider,
   Or_ServerCapabilities_foldingRangeProvider |-> Or_ServerCapabilities_foldingRangeProvider,
   Or_ServerCapabilities_hoverProvider |-> Or_ServerCapabilities_hoverProvider,
   Or_ServerCapabilities_implementationProvider |-> Or_ServerCapabilities_implementationProvider,
   Or_ServerCapabilities_inlayHintProvider |-> Or_ServerCapabilities_inlayHintProvider,
   Or_ServerCapabilities_inlineCompletionProvider |-> Or_ServerCapabilities_inlineCompletionProvider,
   Or_ServerCapabilities_inlineValueProvider |-> Or_ServerCapabilities_inlineValueProvider,
   Or_ServerCapabilities_linkedEditingRangeProvider |-> Or_ServerCapabilities_linkedEditingRangeProvider,
   Or_ServerCapabilities_monikerProvider |-> Or_ServerCapabilities_monikerProvider,
   Or_ServerCapabilities_notebookDocumentSync |-> Or_ServerCapabilities_notebookDocumentSync,
   Or_ServerCapabilities_referencesProvider |-> Or_ServerCapabilities_referencesProvider,
   Or_ServerCapabilities_renameProvider |-> Or_ServerCapabilities_renameProvider,
   Or_ServerCapabilities_selectionRangeProvider |-> Or_ServerCapabilities_selectionRangeProvider,
   Or_ServerCapabilities_semanticTokensProvider |-> Or_ServerCapabilities_semanticTokensProvider,
   Or_ServerCapabilities_textDocumentSync |-> Or_ServerCapabilities_textDocumentSync,
   Or_ServerCapabilities_typeDefinitionProvider |-> Or_ServerCapabilities_typeDefinitionProvider,
   Or_ServerCapabilities_typeHierarchyProvider |-> Or_ServerCapabilities_typeHierarchyProvider,
   Or_ServerCapabilities_workspaceSymbolProvider |-> Or_ServerCapabilities_workspaceSymbolProvider,
   Or_SignatureInformation_documentation |-> Or_SignatureInformation_documentation,
   Or_TextDocumentContentChangeEvent |-> Or_TextDocumentContentChangeEvent,
   Or_TextDocumentEdit_edits_Elem |-> Or_TextDocumentEdit_edits_Elem,
   Or_TextDocumentFilter |-> Or_TextDocumentFilter,
   Or_TextDocumentSyncOptions_save |-> Or_TextDocumentSyncOptions_save,
   Or_WorkspaceDocumentDiagnosticReport |-> Or_WorkspaceDocumentDiagnosticReport,
   Or_WorkspaceEdit_documentChanges_Elem |-> Or_WorkspaceEdit_documentChanges_Elem,
   Or_WorkspaceFoldersServerCapabilities_changeNotifications |-> Or_WorkspaceFoldersServerCapabilities_changeNotifications,
   Or_WorkspaceOptions_textDocumentContent |-> Or_WorkspaceOptions_textDocumentContent,
   Or_WorkspaceSymbol_location |-> Or_WorkspaceSymbol_location]
=============================================================================
