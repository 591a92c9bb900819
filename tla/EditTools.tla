------------------------------- MODULE EditTools -------------------------------
(***************************************************************************)
(* The tools that change files: edit_file, rename_symbol, format_file and  *)
(* apply_fix (internal/tools), with the workspace edits they apply         *)
(* (internal/utilities/edit.go), next to the others that touch the same    *)
(* files: the server, whose workspace/applyEdit the reader carries out by  *)
(* itself, the watcher, which tells the server of what has changed on      *)
(* disk, and whoever else edits the workspace.                             *)
(*                                                                         *)
(* A text is a number, a new one for each write; what edits do to a text   *)
(* is in TextEdits.  The server has the text of an open file from its      *)
(* notifications, and reads the others from disk; it computes its edits    *)
(* for the texts it has.  A tool call is alone (MCP calls come one by      *)
(* one), but an edit is applied file by file, each file read and then      *)
(* written, while the others go on.                                        *)
(***************************************************************************)
EXTENDS Naturals, FiniteSets

CONSTANTS
  Files,
  MaxTexts,  \* bound on the texts written
  MaxFixes   \* bound on the fixes of one apply_fix for all (50 in the code)

ASSUME BoundsAssumption == MaxTexts \in Nat \ {0} /\ MaxFixes \in Nat \ {0}

Tools == {"edit_file", "rename_symbol", "format_file", "apply_fix", "apply_all_fixes"}
Fixers == {"apply_fix", "apply_all_fixes"}
Actors == {"tool", "reader"}
NotOpen == 0
NoTool == "none"
NoFile == "none"
NoPlan == [g \in {} |-> 0]

VARIABLES
  disk,      \* the text of each file
  held,      \* the text the server has of an open file, or NotOpen
  texts,     \* the number of texts so far
  tool, file,\* the tool call and its file
  phase,     \* where it is: "idle", "open", "ask", "apply" or "tell"
  fixes,     \* the fixes this call has applied
  plan,      \* for each actor: the files of its edit, with the texts it was computed for
  written,   \* those it has written
  hand,      \* the file it has read, and the text
  toTell,    \* files that the tool has edited and is still to tell the server of
  writer,    \* history: who made the change that the server has not been told of
  stale,     \* history: open files of which the server had an old text when the tool asked
  raced,     \* history: files others have changed since then
  misfit     \* history: files to which the tool applied an edit for another text

toolVars == <<tool, file, phase, fixes, toTell, stale, raced, misfit>>
applyVars == <<plan, written, hand>>
vars == <<disk, held, texts, toolVars, applyVars, writer>>

(* Edits of some files, each with the text it was computed for.            *)
Plans == UNION {[G -> 1..MaxTexts] : G \in SUBSET Files}
Hands == [file : Files \cup {NoFile}, text : 0..MaxTexts]

TypeOK ==
  /\ disk \in [Files -> 1..MaxTexts] /\ held \in [Files -> 0..MaxTexts]
  /\ texts \in 1..MaxTexts
  /\ tool \in Tools \cup {NoTool} /\ file \in Files \cup {NoFile}
  /\ phase \in {"idle", "open", "ask", "apply", "tell"}
  /\ fixes \in 0..MaxFixes
  /\ plan \in [Actors -> Plans] /\ written \in [Actors -> SUBSET Files]
  /\ hand \in [Actors -> Hands]
  /\ toTell \subseteq Files
  /\ writer \in [Files -> Tools \cup {"nobody", "operation", "reader", "outside", "failed"}]
  /\ stale \subseteq Files /\ raced \subseteq Files /\ misfit \subseteq Files

Nothing == [file |-> NoFile, text |-> 0]

Init ==
  /\ disk = [f \in Files |-> 1] /\ held = [f \in Files |-> NotOpen] /\ texts = 1
  /\ tool = NoTool /\ file = NoFile /\ phase = "idle" /\ fixes = 0
  /\ plan = [a \in Actors |-> NoPlan] /\ written = [a \in Actors |-> {}]
  /\ hand = [a \in Actors |-> Nothing]
  /\ toTell = {} /\ writer = [f \in Files |-> "nobody"]
  /\ stale = {} /\ raced = {} /\ misfit = {}

(* The text of a file as the server sees it.                               *)
View(f) == IF held[f] = NotOpen THEN disk[f] ELSE held[f]

(* The server is given the text on disk: didOpen, or didChange.            *)
Tell(f) ==
  /\ held' = [held EXCEPT ![f] = disk[f]]
  /\ writer' = [writer EXCEPT ![f] = "nobody"]

Put(f, who) ==
  /\ texts < MaxTexts
  /\ texts' = texts + 1
  /\ disk' = [disk EXCEPT ![f] = texts + 1]
  /\ writer' = [writer EXCEPT ![f] = who]

Ends(a) ==
  /\ plan' = [plan EXCEPT ![a] = NoPlan] /\ written' = [written EXCEPT ![a] = {}]
  /\ hand' = [hand EXCEPT ![a] = Nothing]

-----------------------------------------------------------------------------
(* A tool call.                                                            *)

Start(t, f) ==
  /\ phase = "idle"
  /\ tool' = t /\ file' = f /\ phase' = "open" /\ fixes' = 0
  /\ UNCHANGED <<disk, held, texts, applyVars, writer, toTell, stale, raced, misfit>>

(* Seeded fault: apply_fix opens the file and does not synchronise it.     *)
OpenOnly ==
  /\ phase = "open"
  /\ IF held[file] = NotOpen THEN Tell(file) ELSE UNCHANGED <<held, writer>>
  /\ stale' = {g \in Files : held'[g] \notin {NotOpen, disk[g]}}
  /\ raced' = {} /\ misfit' = {}
  /\ phase' = "ask"
  /\ UNCHANGED <<disk, texts, tool, file, fixes, applyVars, toTell>>

(* apply_fix synchronises the file (SyncFileFromDisk); the others see to   *)
(* it that the file is open, and do not look whether the server has its    *)
(* text.                                                                   *)
OpenOrSync ==
  /\ phase = "open"
  /\ IF held[file] = NotOpen \/ tool \in Fixers THEN Tell(file) ELSE UNCHANGED <<held, writer>>
  /\ stale' = {g \in Files : held'[g] \notin {NotOpen, disk[g]}}
  /\ raced' = {} /\ misfit' = {}
  /\ phase' = "ask"
  /\ UNCHANGED <<disk, texts, tool, file, fixes, applyVars, toTell>>

(* The answer goes out.                                                    *)
Finish ==
  /\ phase' = "idle" /\ tool' = NoTool /\ file' = NoFile /\ fixes' = 0
  /\ toTell' = {} /\ stale' = {} /\ raced' = {} /\ misfit' = {}

(* The file is gone, or the server is.                                     *)
OpenFails ==
  /\ phase = "open"
  /\ Finish
  /\ UNCHANGED <<disk, held, texts, applyVars, writer>>

(* The files of the edit: edit_file and format_file change their own file, *)
(* the others what the server says.                                        *)
Targets == IF tool \in {"edit_file", "format_file"} THEN {{file}} ELSE SUBSET Files \ {{}}

Ask ==
  /\ phase = "ask"
  /\ \E G \in Targets : plan' = [plan EXCEPT !["tool"] = [g \in G |-> View(g)]]
  /\ phase' = "apply"
  /\ UNCHANGED <<disk, held, texts, tool, file, fixes, toTell, written, hand, writer, stale, raced, misfit>>

(* No answer, no edit, edits that overlap.  The loop of apply_fix for all  *)
(* stops and tells of the fixes it has applied.                            *)
AskFails ==
  /\ phase = "ask"
  /\ Finish
  /\ UNCHANGED <<disk, held, texts, applyVars, writer>>

(* ApplyTextEdits of one file, by the tool or by the reader: it is read,   *)
(* and later written.  The files come in any order (they are the keys of a *)
(* map).                                                                   *)
Busy(a) == IF a = "tool" THEN phase = "apply" ELSE TRUE

ReadText(a, g) ==
  /\ Busy(a) /\ hand[a] = Nothing
  /\ g \in DOMAIN plan[a] \ written[a]
  /\ hand' = [hand EXCEPT ![a] = [file |-> g, text |-> disk[g]]]
  /\ UNCHANGED <<disk, held, texts, toolVars, plan, written, writer>>

Write ==
  LET g == hand["tool"].file
      last == DOMAIN plan["tool"] \ written["tool"] = {g}
  IN
  /\ phase = "apply" /\ g # NoFile
  /\ Put(g, tool)
  /\ misfit' = IF tool # "edit_file" /\ plan["tool"][g] # hand["tool"].text THEN misfit \cup {g} ELSE misfit
  /\ written' = [written EXCEPT !["tool"] = @ \cup {g}]
  /\ hand' = [hand EXCEPT !["tool"] = Nothing]
  /\ phase' = IF last THEN "tell" ELSE phase
  /\ toTell' = IF tool = "rename_symbol" THEN toTell ELSE toTell \cup {g}
  /\ UNCHANGED <<held, tool, file, fixes, plan, stale, raced>>

(* A file is created, renamed or deleted (ApplyDocumentChange), without a  *)
(* look at what it had.  What it is afterwards, absent included, is        *)
(* another text; an operation that leaves everything as it is, and edits   *)
(* of a file that the same edit creates, are left out.  Nobody tells of    *)
(* it: notifyChangedFiles goes through the edits of text.                  *)
Operate(g) ==
  /\ phase = "apply" /\ hand["tool"] = Nothing
  /\ tool \notin {"edit_file", "format_file"}
  /\ g \in DOMAIN plan["tool"] \ written["tool"]
  /\ Put(g, "operation")
  /\ written' = [written EXCEPT !["tool"] = @ \cup {g}]
  /\ phase' = IF DOMAIN plan["tool"] \ written["tool"] = {g} THEN "tell" ELSE phase
  /\ UNCHANGED <<held, tool, file, fixes, toTell, plan, hand, stale, raced, misfit>>

(* Seeded fault: a file that cannot be changed is passed over.             *)
SkipFile ==
  LET g == hand["tool"].file IN
  /\ phase = "apply" /\ g # NoFile
  /\ written' = [written EXCEPT !["tool"] = @ \cup {g}]
  /\ hand' = [hand EXCEPT !["tool"] = Nothing]
  /\ phase' = IF DOMAIN plan["tool"] \ written["tool"] = {g} THEN "tell" ELSE phase
  /\ UNCHANGED <<disk, held, texts, tool, file, fixes, toTell, plan, writer, stale, raced, misfit>>

(* A file cannot be read, written, created, renamed or deleted, or the     *)
(* ranges are none of this text: the rest of the edit is given up, what is *)
(* written stays -- half of it, when the write itself failed -- and nobody *)
(* tells the server of it.                                                 *)
WriteFails ==
  LET g == hand["tool"].file
      givenUp == {f \in toTell : writer[f] = tool}
  IN
  /\ phase = "apply"
  /\ \/ UNCHANGED <<disk, texts>> /\ writer' = [f \in Files |-> IF f \in givenUp THEN "failed" ELSE writer[f]]
     \/ /\ g # NoFile /\ texts < MaxTexts
        /\ texts' = texts + 1 /\ disk' = [disk EXCEPT ![g] = texts + 1]
        /\ writer' = [f \in Files |-> IF f \in givenUp \cup {g} THEN "failed" ELSE writer[f]]
  /\ Finish
  /\ Ends("tool")
  /\ UNCHANGED held

(* Seeded fault: only the file of the call is told of.                     *)
NotifyOwn ==
  /\ phase = "tell"
  /\ \E g \in toTell :
       /\ IF g = file THEN Tell(g) ELSE UNCHANGED <<held, writer>>
       /\ toTell' = toTell \ {g}
  /\ UNCHANGED <<disk, texts, tool, file, phase, fixes, applyVars, stale, raced, misfit>>

(* NotifyChange, for each changed file: one that is not open is an error   *)
(* that is logged.                                                         *)
NotifyChange ==
  /\ phase = "tell"
  /\ \E g \in toTell :
       /\ IF held[g] # NotOpen THEN Tell(g) ELSE UNCHANGED <<held, writer>>
       /\ toTell' = toTell \ {g}
  /\ UNCHANGED <<disk, texts, tool, file, phase, fixes, applyVars, stale, raced, misfit>>

(* So is one that cannot be read or sent.                                  *)
NotifyFails ==
  /\ phase = "tell"
  /\ \E g \in toTell :
       /\ toTell' = toTell \ {g}
       /\ writer' = [writer EXCEPT ![g] = "failed"]
  /\ UNCHANGED <<disk, held, texts, tool, file, phase, fixes, applyVars, stale, raced, misfit>>

Done ==
  /\ phase = "tell" /\ toTell = {}
  /\ Finish
  /\ Ends("tool")
  /\ UNCHANGED <<disk, held, texts, writer>>

(* apply_fix for all starts over: the lines may have shifted.              *)
NextFix ==
  /\ phase = "tell" /\ toTell = {} /\ tool = "apply_all_fixes" /\ fixes + 1 < MaxFixes
  /\ fixes' = fixes + 1 /\ phase' = "open"
  /\ Ends("tool")
  /\ UNCHANGED <<disk, held, texts, tool, file, toTell, writer, stale, raced, misfit>>

ToolCall ==
  \/ \E t \in Tools, f \in Files : Start(t, f)
  \/ OpenOrSync \/ OpenFails \/ Ask \/ AskFails
  \/ \E g \in Files : ReadText("tool", g)
  \/ (\E g \in Files : Operate(g))
  \/ Write \/ WriteFails \/ NotifyChange \/ NotifyFails \/ Done \/ NextFix

-----------------------------------------------------------------------------
(* HandleApplyEdit in the reader: the same edit of files, whose changes    *)
(* nobody tells the server of -- it has asked for them.                    *)

ServerAsks ==
  /\ plan["reader"] = NoPlan
  /\ \E G \in SUBSET Files \ {{}} : plan' = [plan EXCEPT !["reader"] = [g \in G |-> View(g)]]
  /\ UNCHANGED <<disk, held, texts, toolVars, written, hand, writer>>

ReaderWrites ==
  LET g == hand["reader"].file IN
  /\ g # NoFile
  /\ Put(g, "reader")
  /\ raced' = IF phase = "idle" THEN raced ELSE raced \cup {g}
  /\ IF DOMAIN plan["reader"] \ written["reader"] = {g} THEN Ends("reader")
       ELSE /\ written' = [written EXCEPT !["reader"] = @ \cup {g}]
            /\ hand' = [hand EXCEPT !["reader"] = Nothing] /\ UNCHANGED plan
  /\ UNCHANGED <<held, tool, file, phase, fixes, toTell, stale, misfit>>

(* The write that fails may leave half of the text.                        *)
ReaderFails ==
  LET g == hand["reader"].file IN
  /\ plan["reader"] # NoPlan
  /\ \/ UNCHANGED <<disk, texts, writer, raced>>
     \/ g # NoFile /\ Put(g, "reader") /\ raced' = IF phase = "idle" THEN raced ELSE raced \cup {g}
  /\ Ends("reader")
  /\ UNCHANGED <<held, tool, file, phase, fixes, toTell, stale, misfit>>

Outside(f) ==
  /\ Put(f, "outside")
  /\ raced' = IF phase = "idle" THEN raced ELSE raced \cup {f}
  /\ UNCHANGED <<held, tool, file, phase, fixes, toTell, stale, misfit, applyVars>>

(* The watcher's NotifyChange, some time after a change of an open file.   *)
WatcherTells(f) ==
  /\ held[f] \notin {NotOpen, disk[f]}
  /\ Tell(f)
  /\ UNCHANGED <<disk, texts, toolVars, applyVars>>

Others ==
  \/ ServerAsks \/ (\E g \in Files : ReadText("reader", g)) \/ ReaderWrites \/ ReaderFails
  \/ \E f \in Files : Outside(f) \/ WatcherTells(f)

Next == ToolCall \/ Others

Spec == Init /\ [][Next]_vars

-----------------------------------------------------------------------------
(* An edit that a tool applies was computed for the text it is applied to, *)
(* unless somebody else changed the file since the tool opened it, or the  *)
(* server had an old text of it then -- which apply_fix excludes for the   *)
(* file it is called for (it synchronises: diagnostics.go:117), and        *)
(* rename_symbol and format_file do not (rename-symbol.go:18, format.go:17).*)
EditsFit ==
  \A g \in misfit : g \in raced \/ (g \in stale /\ ~(tool \in Fixers /\ g = file))

(* When a call has ended, the server knows how it has edited the open      *)
(* files; except for rename_symbol, which tells the server of nothing, for *)
(* files that the edit created, renamed or deleted (apply_fix.go:295-319   *)
(* passes them over), for an edit given up half way, and for a failed      *)
(* notification.                                                           *)
ServerTold ==
  phase = "idle" =>
    \A f \in Files : held[f] \notin {NotOpen, disk[f]}
      => writer[f] \in {"rename_symbol", "operation", "reader", "outside", "failed"}

(* A call that goes on to tell the server has written every file of its    *)
(* edit: once one fails no other is written, as the client promises the    *)
(* server (FailureHandling: Abort, client.go:187).                         *)
WholeOrAborted ==
  phase = "tell" => \A g \in DOMAIN plan["tool"] : disk[g] > plan["tool"][g]
=============================================================================
