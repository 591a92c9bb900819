------------------------------- MODULE FileChanges -------------------------------
(***************************************************************************)
(* A workspace edit as a whole: ApplyWorkspaceEdit and ApplyDocumentChange *)
(* of internal/utilities/edit.go.  The disk maps the files there are to    *)
(* their texts.  A change is [kind, path, options, ...]; options is        *)
(* NoOptions or the set of the options that are true.                      *)
(***************************************************************************)
EXTENDS TextEdits, Functions

NoOptions == {"none"}
Disk(d) == [ok |-> TRUE, disk |-> d]
Aborted(d) == [ok |-> FALSE, disk |-> d]

PutFile(disk, path, text) == [p \in DOMAIN disk \cup {path} |-> IF p = path THEN text ELSE disk[p]]
WithoutFile(disk, path) == Restrict(disk, DOMAIN disk \ {path})
Moved(disk, from, to) == PutFile(WithoutFile(disk, from), to, disk[from])

EditText(disk, path, edits) ==
  LET result == IF path \in DOMAIN disk THEN ApplyTextEdits(disk[path], edits) ELSE Failed
  IN  IF result.ok THEN Disk(PutFile(disk, path, result.text)) ELSE Aborted(disk)

(* A creation without options empties a file that is there.                *)
CreateFile(disk, change) ==
  IF change.path \in DOMAIN disk /\ "ignoreIfExists" \in change.options /\ "overwrite" \notin change.options
  THEN Disk(disk)
  ELSE Disk(PutFile(disk, change.path, Empty))

(* Whether a missing file may be ignored is not looked at, but a recursive *)
(* deletion does not mind.                                                 *)
DeleteFile(disk, change) ==
  IF change.path \in DOMAIN disk \/ "recursive" \in change.options
  THEN Disk(WithoutFile(disk, change.path)) ELSE Aborted(disk)

(* Nor is it whether an existing target may; without options it is         *)
(* overwritten.                                                            *)
RenameFile(disk, change) ==
  IF \/ change.to \in DOMAIN disk /\ change.options # NoOptions /\ "overwrite" \notin change.options
     \/ change.path \notin DOMAIN disk
  THEN Aborted(disk) ELSE Disk(Moved(disk, change.path, change.to))

ApplyDocumentChange(disk, change) ==
  CASE change.kind = "create" -> CreateFile(disk, change)
    [] change.kind = "delete" -> DeleteFile(disk, change)
    [] change.kind = "rename" -> RenameFile(disk, change)
    [] change.kind = "edit" -> EditText(disk, change.path, change.edits)

(* First the texts, in the order in which the map gives them, then the     *)
(* changes in theirs; the first that fails ends it, and what was done      *)
(* before stays.                                                           *)
ApplyWorkspaceEdit(disk, order, edit) ==
  LET texts[n \in 0..Len(order)] ==
        IF n = 0 THEN Disk(disk)
        ELSE IF texts[n - 1].ok THEN EditText(texts[n - 1].disk, order[n], edit.changes[order[n]]) ELSE texts[n - 1]
      changed[n \in 0..Len(edit.documentChanges)] ==
        IF n = 0 THEN texts[Len(order)]
        ELSE IF changed[n - 1].ok THEN ApplyDocumentChange(changed[n - 1].disk, edit.documentChanges[n])
        ELSE changed[n - 1]
  IN  changed[Len(edit.documentChanges)]

-----------------------------------------------------------------------------
(* What the protocol says of a change: a file in the way, or missing, is   *)
(* an error unless an option tells to overwrite or to ignore it.           *)
Meant(disk, change) ==
  LET there == change.path \in DOMAIN disk
      may(option) == option \in change.options
  IN  CASE change.kind = "create" -> IF ~there \/ may("overwrite") THEN Disk(PutFile(disk, change.path, Empty))
                                     ELSE IF may("ignoreIfExists") THEN Disk(disk) ELSE Aborted(disk)
        [] change.kind = "delete" -> IF there THEN Disk(WithoutFile(disk, change.path))
                                     ELSE IF may("ignoreIfNotExists") THEN Disk(disk) ELSE Aborted(disk)
        [] change.kind = "rename" -> IF ~there THEN Aborted(disk)
                                     ELSE IF change.to \notin DOMAIN disk \/ may("overwrite")
                                     THEN Disk(Moved(disk, change.path, change.to))
                                     ELSE IF may("ignoreIfExists") THEN Disk(disk) ELSE Aborted(disk)
        [] change.kind = "edit" -> EditText(disk, change.path, change.edits)

MeantInAll(disk, changes) ==
  LET changed[n \in 0..Len(changes)] ==
        IF n = 0 THEN Disk(disk)
        ELSE IF changed[n - 1].ok THEN Meant(changed[n - 1].disk, changes[n]) ELSE changed[n - 1]
  IN  changed[Len(changes)]

(* The options of a change that its kind of change looks at here.          *)
Heeded(change) == "ignoreIfNotExists" \notin change.options /\ (change.kind = "rename" => "ignoreIfExists" \notin change.options)
=============================================================================
