----------------------------- MODULE DocumentSync -----------------------------
(***************************************************************************)
(* One open document: the client's table of open files and the copy the    *)
(* language server holds (internal/lsp/client.go:367-521).                 *)
(*                                                                         *)
(* A tool handler opens the file, syncs it before a query, or notifies the *)
(* server after an edit; the debounce timers of the watcher notify the     *)
(* server too, each in a goroutine of its own.  All of them read the file  *)
(* outside the lock, take the lock for the table only, and write to the    *)
(* server after giving it back.  Contents are numbered in the order they   *)
(* were written to disk, so a larger text is a newer one.  The server reads*)
(* its stdin in order: doc is what it has been sent.  From the moment the  *)
(* connection is broken - the server has died, has closed its stdin or has *)
(* sent what the reader cannot parse, or the client is being closed - every*)
(* notification returns an error.                                          *)
(***************************************************************************)
EXTENDS Naturals, Sequences

CONSTANTS
  Tools,        \* goroutines of tool handlers
  Timers,       \* goroutines of the watcher's debounce timers
  Ops,          \* what tool handlers do: a subset of AllOps
  MaxWrites,    \* bound on the contents written to disk
  MaxInfos,     \* bound on the entries made by OpenFile
  MaxVersion    \* bound on the version of an entry

Actors == Tools \cup Timers
AllOps == {"open", "sync", "change", "close"}

ASSUME OpsAssumption == Ops \subseteq AllOps
ASSUME BoundsAssumption == MaxWrites \in Nat /\ MaxInfos \in Nat /\ MaxVersion \in Nat \ {0}

VARIABLES
  disk,     \* the content on disk
  infos,    \* the OpenFileInfo objects made so far
  entry,    \* openFiles[uri]: the number of an object, 0 when there is none
  doc,      \* the server's copy
  sent,     \* the versions sent since the last didOpen
  pc, op,   \* where each goroutine is, and in which operation
  text,     \* the content it has read
  ver,      \* the version it is about to send
  info,     \* the object SyncFileFromDisk has looked up
  start,    \* the content on disk when its operation began
  synced,   \* the newest content a SyncFileFromDisk has vouched for
  mixed,    \* history: two operations have been under way at once
  closing,  \* history: a CloseFile has begun
  link      \* "up"; "broken"; "behind" when it is broken and a change that has been
            \* entered in the table could not be sent

local == <<pc, op, text, ver, info, start>>
vars == <<disk, infos, entry, doc, sent, synced, local, mixed, closing, link>>

Texts == 0..MaxWrites
Versions == 1..MaxVersion
Closed == [open |-> FALSE, version |-> 0, text |-> 0]

Labels ==
  {"idle", "openCheck", "openRead", "openSend", "openStore", "syncLookup", "syncRead",
   "syncCompare", "changeRead", "changeLock", "changeSend", "closeCheck", "closeSend",
   "closeDelete"}

TypeOK ==
  /\ disk \in Texts
  /\ infos \in Seq([version : Versions, hash : Texts]) /\ Len(infos) <= MaxInfos
  /\ entry \in 0..Len(infos)
  /\ doc \in [open : BOOLEAN, version : 0..MaxVersion, text : Texts]
  /\ sent \subseteq 0..MaxVersion
  /\ pc \in [Actors -> Labels] /\ op \in [Actors -> AllOps]
  /\ text \in [Actors -> Texts] /\ start \in [Actors -> Texts]
  /\ ver \in [Actors -> 0..MaxVersion]
  /\ info \in [Actors -> 0..Len(infos)]
  /\ synced \in Texts
  /\ mixed \in BOOLEAN /\ closing \in BOOLEAN
  /\ link \in {"up", "broken", "behind"}

Init ==
  /\ disk = 0
  /\ infos = <<>> /\ entry = 0
  /\ doc = Closed /\ sent = {}
  /\ pc = [a \in Actors |-> "idle"] /\ op = [a \in Actors |-> "open"]
  /\ text = [a \in Actors |-> 0] /\ start = [a \in Actors |-> 0]
  /\ ver = [a \in Actors |-> 0] /\ info = [a \in Actors |-> 0]
  /\ synced = 0
  /\ mixed = FALSE /\ closing = FALSE
  /\ link = "up"

(***************************************************************************)
(* Control.                                                                *)
(***************************************************************************)
At(a, from) == pc[a] = from
Goto(a, to) == pc' = [pc EXCEPT ![a] = to]

(* The operation ends; its local variables are dead.                       *)
Returns(a) ==
  /\ pc' = [pc EXCEPT ![a] = "idle"]
  /\ text' = [text EXCEPT ![a] = 0]
  /\ ver' = [ver EXCEPT ![a] = 0]
  /\ info' = [info EXCEPT ![a] = 0]
  /\ start' = [start EXCEPT ![a] = 0]
  /\ op' = [op EXCEPT ![a] = "open"]

(* A sync that returns no error vouches for what was on disk when it began.*)
Succeeds(a) ==
  /\ Returns(a)
  /\ synced' = IF op[a] = "sync" /\ start[a] > synced THEN start[a] ELSE synced

Fails(a) == Returns(a) /\ UNCHANGED synced

Entry(o) ==
  CASE o = "open" -> "openCheck" [] o = "sync" -> "syncLookup"
    [] o = "change" -> "changeRead" [] o = "close" -> "closeCheck"

Begins(a, o) ==
  /\ At(a, "idle")
  /\ Goto(a, Entry(o))
  /\ op' = [op EXCEPT ![a] = o]
  /\ start' = [start EXCEPT ![a] = disk]
  /\ UNCHANGED <<link, disk, infos, entry, doc, sent, synced, text, ver, info>>

ToolBegins(a) == \E o \in Ops : Begins(a, o)

(* handleFileEvent asks whether the file is open before it notifies.       *)
TimerFires(a) == entry # 0 /\ Begins(a, "change")

Write ==
  /\ disk < MaxWrites
  /\ disk' = disk + 1
  /\ UNCHANGED <<link, infos, entry, doc, sent, synced, local>>

ConnectionBreaks ==
  /\ link = "up"
  /\ link' = "broken"
  /\ UNCHANGED <<disk, infos, entry, doc, sent, synced, local>>

(* os.ReadFile reports an error; the operation returns it.                 *)
ReadFails(a) ==
  /\ pc[a] \in {"openRead", "syncRead", "changeRead"}
  /\ Fails(a)
  /\ UNCHANGED <<link, disk, infos, entry, doc, sent>>

(* So does Notify: OpenFile makes no entry, CloseFile leaves it, and what  *)
(* NotifyChange has put in it stays.                                       *)
SendFails(a) ==
  /\ pc[a] \in {"openSend", "changeSend", "closeSend"}
  /\ link # "up"
  /\ link' = IF pc[a] = "changeSend" THEN "behind" ELSE link
  /\ Fails(a)
  /\ UNCHANGED <<disk, infos, entry, doc, sent>>

Reads(a, from, to) ==
  /\ At(a, from)
  /\ text' = [text EXCEPT ![a] = disk]
  /\ Goto(a, to)
  /\ UNCHANGED <<link, disk, infos, entry, doc, sent, synced, op, ver, info, start>>

(***************************************************************************)
(* OpenFile.                                                               *)
(***************************************************************************)
OpenCheck(a) ==
  /\ At(a, "openCheck")
  /\ \/ entry # 0 /\ Succeeds(a)          \* already open
     \/ entry = 0 /\ Goto(a, "openRead") /\ UNCHANGED <<synced, op, text, ver, info, start>>
  /\ UNCHANGED <<link, disk, infos, entry, doc, sent>>

OpenRead(a) == Reads(a, "openRead", "openSend")

(* Seeded fault: the entry is made before the server has been told.        *)
OpenSendStores(a) ==
  /\ At(a, "openSend")
  /\ Len(infos) < MaxInfos
  /\ infos' = Append(infos, [version |-> 1, hash |-> text[a]])
  /\ entry' = Len(infos) + 1
  /\ Goto(a, "openStore")
  /\ UNCHANGED <<link, disk, doc, sent, synced, op, text, ver, info, start>>

OpenSend(a) ==
  /\ At(a, "openSend") /\ link = "up"
  /\ doc' = [open |-> TRUE, version |-> 1, text |-> text[a]]
  /\ sent' = {1}
  /\ Goto(a, "openStore")
  /\ UNCHANGED <<link, disk, infos, entry, synced, op, text, ver, info, start>>

(* Seeded fault: the entry is made without the hash of what was sent.      *)
OpenStoreFreshHash(a) ==
  /\ At(a, "openStore")
  /\ Len(infos) < MaxInfos
  /\ infos' = Append(infos, [version |-> 1, hash |-> disk])
  /\ entry' = Len(infos) + 1
  /\ Succeeds(a)
  /\ UNCHANGED <<link, disk, doc, sent>>

OpenStore(a) ==
  /\ At(a, "openStore")
  /\ Len(infos) < MaxInfos
  /\ infos' = Append(infos, [version |-> 1, hash |-> text[a]])
  /\ entry' = Len(infos) + 1
  /\ Succeeds(a)
  /\ UNCHANGED <<link, disk, doc, sent>>

(***************************************************************************)
(* SyncFileFromDisk.                                                       *)
(***************************************************************************)
SyncLookup(a) ==
  /\ At(a, "syncLookup")
  /\ \/ entry = 0 /\ Goto(a, "openCheck") /\ UNCHANGED info
     \/ entry # 0 /\ Goto(a, "syncRead") /\ info' = [info EXCEPT ![a] = entry]
  /\ UNCHANGED <<link, disk, infos, entry, doc, sent, synced, op, text, ver, start>>

SyncRead(a) == Reads(a, "syncRead", "syncCompare")

(* The hash is read without the lock: while another goroutine overwrites   *)
(* its 32 bytes, a mixture may be read, which equals no content.           *)
SyncCompare(a) ==
  /\ At(a, "syncCompare")
  /\ \/ /\ infos[info[a]].hash = text[a]
        /\ Succeeds(a)
     \/ /\ \/ infos[info[a]].hash # text[a]
           \/ \E b \in Actors \ {a} : At(b, "changeLock")
        /\ Goto(a, "changeRead")
        /\ UNCHANGED <<synced, op, text, ver, info, start>>
  /\ UNCHANGED <<link, disk, infos, entry, doc, sent>>

(***************************************************************************)
(* NotifyChange.                                                           *)
(***************************************************************************)
ChangeRead(a) == Reads(a, "changeRead", "changeLock")

(* Seeded fault: the version is read, and incremented after the unlock.    *)
ChangeLockStaleVersion(a) ==
  /\ At(a, "changeLock")
  /\ entry # 0 /\ infos[entry].version < MaxVersion
  /\ \E v \in {infos[entry].version, infos[entry].version + 1} :
       infos' = [infos EXCEPT ![entry] = [version |-> v, hash |-> text[a]]]
  /\ ver' = [ver EXCEPT ![a] = infos[entry].version + 1]
  /\ Goto(a, "changeSend")
  /\ UNCHANGED <<link, disk, entry, doc, sent, synced, op, text, info, start>>

ChangeLock(a) ==
  /\ At(a, "changeLock")
  /\ \/ /\ entry = 0                       \* cannot notify change for unopened file
        /\ Fails(a)
        /\ UNCHANGED infos
     \/ /\ entry # 0 /\ infos[entry].version < MaxVersion
        /\ infos' = [infos EXCEPT ![entry] = [version |-> @.version + 1, hash |-> text[a]]]
        /\ ver' = [ver EXCEPT ![a] = infos[entry].version + 1]
        /\ Goto(a, "changeSend")
        /\ UNCHANGED <<synced, op, text, info, start>>
  /\ UNCHANGED <<link, disk, entry, doc, sent>>

ChangeSend(a) ==
  /\ At(a, "changeSend") /\ link = "up"
  /\ doc' = [doc EXCEPT !.version = ver[a], !.text = text[a]]
  /\ sent' = sent \cup {ver[a]}
  /\ Succeeds(a)
  /\ UNCHANGED <<link, disk, infos, entry>>

(***************************************************************************)
(* CloseFile.                                                              *)
(***************************************************************************)
CloseCheck(a) ==
  /\ At(a, "closeCheck")
  /\ \/ entry = 0 /\ Succeeds(a)          \* already closed
     \/ entry # 0 /\ Goto(a, "closeSend") /\ UNCHANGED <<synced, op, text, ver, info, start>>
  /\ UNCHANGED <<link, disk, infos, entry, doc, sent>>

(* What a sync has vouched for ends with the server's copy.                *)
CloseSend(a) ==
  /\ At(a, "closeSend") /\ link = "up"
  /\ doc' = Closed
  /\ synced' = 0
  /\ Goto(a, "closeDelete")
  /\ UNCHANGED <<link, disk, infos, entry, sent, op, text, ver, info, start>>

(* Seeded fault: the entry is left in the table.                           *)
CloseKeeps(a) ==
  /\ At(a, "closeDelete")
  /\ Succeeds(a)
  /\ UNCHANGED <<link, disk, infos, entry, doc, sent>>

CloseDelete(a) ==
  /\ At(a, "closeDelete")
  /\ entry' = 0
  /\ Succeeds(a)
  /\ UNCHANGED <<link, disk, infos, doc, sent>>

OpenStep(a) == OpenCheck(a) \/ OpenRead(a) \/ OpenSend(a) \/ OpenStore(a)
SyncStep(a) == SyncLookup(a) \/ SyncRead(a) \/ SyncCompare(a)
ChangeStep(a) == ChangeRead(a) \/ ChangeLock(a) \/ ChangeSend(a)
CloseStep(a) == CloseCheck(a) \/ CloseSend(a) \/ CloseDelete(a)

Step ==
  \/ Write \/ ConnectionBreaks
  \/ \E a \in Tools : ToolBegins(a)
  \/ \E a \in Timers : TimerFires(a)
  \/ \E a \in Actors :
       \/ OpenStep(a) \/ SyncStep(a) \/ ChangeStep(a) \/ CloseStep(a)
       \/ ReadFails(a) \/ SendFails(a)

CloseLabels == {"closeCheck", "closeSend", "closeDelete"}
Idle(a) == At(a, "idle")
OneAtATime == \A a, b \in Actors : a # b => Idle(a) \/ Idle(b)

Next ==
  /\ Step
  /\ mixed' = (mixed \/ ~OneAtATime')
  /\ closing' = (closing \/ \E a \in Actors : pc'[a] \in CloseLabels)

Spec == Init /\ [][Next]_vars

(***************************************************************************)
(* Properties.                                                             *)
(***************************************************************************)

(* While operations do not overlap, the server has been sent what a        *)
(* returned SyncFileFromDisk has vouched for, or something newer (comment  *)
(* at client.go:415) - unless a change could not be sent: its hash is in   *)
(* the table all the same (client.go:462, 493), so that the next sync finds*)
(* the disk unchanged and succeeds.                                        *)
SyncEnsures == ~mixed /\ link # "behind" /\ synced > 0 => doc.open /\ doc.text >= synced

(* Once every goroutine has returned, the hash in the table is that of the *)
(* content last sent to the server (comment at client.go:370); a sync that *)
(* finds it equal to the disk's skips the server.                          *)
HashIsSent == (\A a \in Actors : Idle(a)) /\ entry # 0 => infos[entry].hash = doc.text

(* The same while operations do not overlap and no change has failed.      *)
HashIsSentSerially == ~mixed /\ link # "behind" => HashIsSent

(* While operations do not overlap, the table and the server agree on      *)
(* whether the file is open whenever nobody is between the two, whatever   *)
(* read or send has failed (client.go:398-407, 512-519).                   *)
TableMatchesServer ==
  ~mixed /\ (\A a \in Actors : pc[a] \notin {"openStore", "closeDelete"})
    => (entry # 0 <=> doc.open)

(* While operations do not overlap, the versions the server sees of an     *)
(* open document only grow (client.go:462-465).                            *)
VersionsGrow == [][~mixed' /\ doc.open /\ doc'.open => doc'.version > doc.version]_doc

(* The server is never sent a change of a document it has not been asked   *)
(* to open, unless a file is closed while others work on it: files are     *)
(* closed at shutdown only (router.go:168-196).                            *)
ChangeNeedsOpen ==
  ~(mixed /\ closing) => \A a \in Actors : pc[a] = "changeSend" => doc.open

(* Nor is a version used for two changes, whoever notifies                 *)
(* (client.go:453-464), as long as one tool handler at a time works on the *)
(* file: OpenFile starts again at version one.                             *)
VersionsUnique ==
  ~(mixed /\ closing) =>
    \A a \in Actors : pc[a] = "changeSend" =>
      /\ ver[a] \notin sent
      /\ \A b \in Actors \ {a} : pc[b] = "changeSend" => ver[b] # ver[a]

(***************************************************************************)
(* Inductive invariants.                                                   *)
(***************************************************************************)

(* Until a file is closed the table never has a file the server has not.         *)
OpenInv ==
  /\ TypeOK
  /\ \A a \in Actors : pc[a] \notin CloseLabels
  /\ entry # 0 => doc.open
  /\ \A a \in Actors : pc[a] \in {"openStore", "changeSend"} => doc.open

(* One operation at a time: where it is says how table, server and disk    *)
(* stand.                                                                  *)
SerialInv ==
  /\ OneAtATime
  /\ doc.text <= disk /\ (synced > 0 => doc.open)
  /\ link # "behind" => synced <= doc.text
  /\ (\A a \in Actors : pc[a] \notin {"openStore", "closeDelete"}) => (entry # 0 <=> doc.open)
  /\ entry # 0 /\ (\A a \in Actors : pc[a] \notin {"changeSend", "closeDelete"})
       => /\ link # "behind" => infos[entry].hash = doc.text
          /\ infos[entry].version >= doc.version
  /\ \A a \in Actors :
    /\ start[a] <= disk /\ text[a] <= disk
    /\ pc[a] = "closeDelete" => ~doc.open
    /\ pc[a] \in {"syncCompare", "openSend", "changeLock", "changeSend"} =>
         start[a] <= text[a] /\ doc.text <= text[a]
    /\ pc[a] \in {"syncRead", "syncCompare", "changeRead", "changeLock"} /\ op[a] = "sync" => entry # 0
    /\ pc[a] \in {"syncRead", "syncCompare"} => info[a] = entry /\ entry # 0
    /\ pc[a] \in {"openRead", "openSend", "openStore"} => entry = 0
    /\ pc[a] = "openCheck" /\ op[a] = "sync" => entry = 0
    /\ pc[a] = "openStore" => doc = [open |-> TRUE, version |-> 1, text |-> text[a]]
                              /\ start[a] <= text[a]
    /\ pc[a] = "changeSend" => /\ entry # 0 /\ infos[entry].hash = text[a]
                               /\ infos[entry].version = ver[a] /\ ver[a] > doc.version
    /\ pc[a] = "closeSend" => entry # 0
    /\ op[a] = "sync" => pc[a] \notin CloseLabels
==============================================================================
