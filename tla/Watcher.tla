-------------------------------- MODULE Watcher --------------------------------
(***************************************************************************)
(* The workspace watcher (internal/watcher/watcher.go).                    *)
(*                                                                         *)
(* One goroutine takes the events of fsnotify in order.  A removal is      *)
(* reported to the language servers at once; a write or a creation starts  *)
(* a timer, kept in debounceMap under the path and the kind of the change, *)
(* and the timer's goroutine reports it.  The loop looks at the disk when  *)
(* it handles an event, which is later than when the event happened, and   *)
(* the disk may change again between two looks.  A few configuration files *)
(* restart their server instead, under one key for the language.           *)
(*                                                                         *)
(* A report is a notification to the file's server.  When that server is   *)
(* dead or being restarted it fails; a restart is refused while another is *)
(* under way, and may fail.  The watcher logs these errors and goes on.    *)
(* RestartableClient has the details of a restart.                         *)
(*                                                                         *)
(* The changes of a file are numbered: mods is the number of the last one, *)
(* and stands for the content.  Patterns are abstracted to the set of kinds*)
(* a registration asks for on these files, empty when it does not match.   *)
(***************************************************************************)
EXTENDS Naturals, Sequences, FiniteSetsExt

CONSTANTS
  Files,       \* the files looked at
  Config,      \* those of them named in ConfigFileLanguages, all of one language
  Timers,      \* the timers (and their goroutines)
  Masks,       \* what a registration may ask for: subsets of WatchKinds
  NewDirs,     \* the files whose directory may not exist at first
  MaxMods,     \* bound on the changes in all
  MaxRegs,     \* bound on the registrations
  MaxFaults,   \* bound on the servers that die or stop reading
  NoFile, NoTimer

WatchKinds == {"create", "change", "delete"}

ASSUME FilesAssumption == Config \subseteq Files /\ NewDirs \subseteq Files /\ NoFile \notin Files
ASSUME TimersAssumption == NoTimer \notin Timers
ASSUME MasksAssumption == Masks \subseteq SUBSET WatchKinds
ASSUME BoundsAssumption == MaxMods \in Nat /\ MaxRegs \in Nat /\ MaxFaults \in Nat

Ops == {"create", "write", "remove", "rename"}
RestartKey == [file |-> NoFile, kind |-> "restart"]
Key(f, kind) == [file |-> f, kind |-> kind]
Keys == [file : Files, kind : {"changed", "created"}] \cup {RestartKey}
Idle == [at |-> "idle", file |-> NoFile, op |-> "none", n |-> 0]
Free == [key |-> RestartKey, st |-> "free"]

VARIABLES
  present, mods, \* the file system: the files there are, and the last change of each
  dir,          \* the file's directory: "none", "new" (not yet watched) or "watched"
  queue,        \* watcher.Events
  loop,         \* the event loop: where it is, and the event it has in hand
  debounceMap,  \* the timer kept under each key
  timers,       \* key and state of each timer
  regs,         \* registrations, oldest first
  open,         \* the files open at their server
  shown,        \* those whose content the server was sent since their last change
  told,         \* the files reported since their last change
  lost,         \* those the last report of which, made since their last change, failed
  deleted,      \* the files the last report of which was that they were deleted
  restarted,    \* the configuration files unchanged since the server was started
  refused,      \* those a restart has been refused for, or failed for, since their last change
  server,       \* the server: "up", "dead", or "deaf" when it has stopped reading
  restarting,   \* the flag of RestartableClient, and who has set it
  faults,       \* how often the server died or stopped reading
  partial,      \* history: some kind of change has not been watched
  unseen        \* history: the files whose last change was made in a directory not yet watched

disk == <<present, mods, dir, unseen>>
notices == <<told, lost, deleted>>
remote == <<server, restarting, faults>>
vars == <<disk, queue, loop, debounceMap, timers, regs, open, shown, notices, restarted, refused, partial,
          remote>>

Events == [file : Files, op : Ops \cup {"mkdir"}, n : Nat]

TypeOK ==
  /\ present \subseteq Files /\ mods \in [Files -> Nat]
  /\ dir \in [Files -> {"none", "new", "watched"}]
  /\ queue \in Seq(Events)
  /\ loop \in [at : {"idle", "check", "dispatch", "renamed"}, file : Files \cup {NoFile},
               op : Ops \cup {"none"}, n : Nat]
  /\ loop.at # "idle" => loop.file \in Files /\ loop.op \in Ops
  /\ debounceMap \in [Keys -> Timers \cup {NoTimer}]
  /\ timers \in [Timers -> [key : Keys, 
                          st : {"free", "armed", "fired", "change", "stopping", "starting", "handled"}]]
  /\ regs \in Seq(SUBSET WatchKinds)
  /\ open \subseteq Files /\ shown \subseteq Files
  /\ told \subseteq Files /\ lost \subseteq Files /\ deleted \subseteq Files
  /\ restarted \subseteq Config /\ refused \subseteq Config
  /\ server \in {"up", "deaf", "dead"} /\ restarting \in {"no", "config", "recovery"}
  /\ faults \in 0..MaxFaults
  /\ partial \in BOOLEAN /\ unseen \subseteq Files

Init ==
  /\ present \in SUBSET (Files \ NewDirs)
  /\ dir = [f \in Files |-> IF f \in NewDirs THEN "none" ELSE "watched"]
  /\ mods = [f \in Files |-> 0]
  /\ queue = <<>> /\ loop = Idle
  /\ debounceMap = [k \in Keys |-> NoTimer]
  /\ timers = [t \in Timers |-> Free]
  /\ regs = <<>>
  /\ open = {} /\ shown = {}
  /\ told = Files /\ lost = {} /\ deleted = {} /\ restarted = Config /\ refused = {}
  /\ server = "up" /\ restarting = "no" /\ faults = 0
  /\ partial = FALSE /\ unseen = {}

(***************************************************************************)
(* The file system.  A program that saves a file by renaming another onto  *)
(* it causes a Create event although the file was there.                   *)
(***************************************************************************)
Enqueue(f, op, n) == queue' = Append(queue, [file |-> f, op |-> op, n |-> n])

Leaves(op) == op \in {"create", "write"}

MakeDir(f) ==
  /\ dir[f] = "none"
  /\ dir' = [dir EXCEPT ![f] = "new"]
  /\ Enqueue(f, "mkdir", 0)
  /\ UNCHANGED <<present, mods, unseen, loop, debounceMap, timers, regs, open, shown, notices,
                 restarted, refused, partial, remote>>

Modify(f, op) ==
  /\ dir[f] # "none" /\ MapThenSumSet(LAMBDA x : mods[x], Files) < MaxMods
  /\ op # "create" => f \in present
  /\ present' = IF Leaves(op) THEN present \cup {f} ELSE present \ {f}
  /\ mods' = [mods EXCEPT ![f] = @ + 1]
  /\ \/ /\ dir[f] = "watched"
        /\ Enqueue(f, op, mods[f] + 1)
        /\ unseen' = unseen \ {f}
     \/ /\ dir[f] = "new"
        /\ unseen' = unseen \cup {f}
        /\ UNCHANGED queue
  /\ told' = told \ {f} /\ shown' = shown \ {f} /\ lost' = lost \ {f}
  /\ restarted' = restarted \ {f} /\ refused' = refused \ {f}
  /\ UNCHANGED <<dir, loop, debounceMap, timers, regs, open, deleted, partial, remote>>

(***************************************************************************)
(* Registrations: the first one that matches decides, and none at all      *)
(* means that everything is watched.                                       *)
(***************************************************************************)
WatchKind(rs) ==
  LET hits == {i \in DOMAIN rs : rs[i] # {}}
  IN  IF rs = <<>> THEN WatchKinds ELSE IF hits = {} THEN {} ELSE rs[Min(hits)]

AddRegistrations(mask) ==
  /\ Len(regs) < MaxRegs
  /\ regs' = Append(regs, mask)
  /\ partial' = IF WatchKind(regs') = WatchKinds THEN partial ELSE TRUE
  /\ UNCHANGED <<disk, queue, loop, debounceMap, timers, open, shown, notices, restarted, refused, remote>>

(***************************************************************************)
(* A tool opens a file when it queries it, if it is not open yet           *)
(* (DocumentSync has the details).  Whether a configuration file is open   *)
(* makes no difference to the watcher, and is left out.                    *)
(***************************************************************************)
ToolOpens(f) ==
  /\ f \in present /\ f \notin open /\ server = "up"
  /\ open' = open \cup {f}
  /\ shown' = shown \cup {f}
  /\ UNCHANGED <<disk, queue, loop, debounceMap, timers, regs, notices, restarted,
                 refused, partial, remote>>

(***************************************************************************)
(* Timers.  Stop has no effect on a timer whose goroutine has begun, and   *)
(* that goroutine deletes whatever is under its key when it ends.          *)
(***************************************************************************)
Stopped(k) ==
  IF debounceMap[k] # NoTimer /\ timers[debounceMap[k]].st = "armed"
  THEN [timers EXCEPT ![debounceMap[k]] = Free] ELSE timers

(* Mutant: an event whose key has an entry is taken to be covered by it.   *)
DebounceOnce(k) ==
  IF debounceMap[k] # NoTimer THEN UNCHANGED <<timers, debounceMap>>
  ELSE \E t \in Timers :
         /\ timers[t].st = "free"
         /\ timers' = [timers EXCEPT ![t] = [key |-> k, st |-> "armed"]]
         /\ debounceMap' = [debounceMap EXCEPT ![k] = t]

Debounce(k) ==
  \E t \in Timers :
    /\ Stopped(k)[t].st = "free"
    /\ timers' = [Stopped(k) EXCEPT ![t] = [key |-> k, st |-> "armed"]]
    /\ debounceMap' = [debounceMap EXCEPT ![k] = t]

Fires(t) ==
  /\ timers[t].st = "armed"
  /\ timers' = [timers EXCEPT ![t].st = "fired"]
  /\ UNCHANGED <<disk, queue, loop, debounceMap, regs, open, shown, notices, restarted,
                 refused, partial, remote>>

(* A notification: a server that reads gets it, and it fails when the      *)
(* server is dead or about to be replaced.  A server that does not read    *)
(* lets it wait.                                                           *)
Notice(f, kind) ==
  \/ /\ server = "up"
     /\ told' = told \cup {f} /\ lost' = lost \ {f}
     /\ deleted' = IF kind = "deleted" THEN deleted \cup {f} ELSE deleted \ {f}
  \/ /\ server = "dead" \/ restarting # "no"
     /\ lost' = lost \cup {f}
     /\ UNCHANGED <<told, deleted>>

(* handleFileEvent: an open file that changed is sent to its server, any   *)
(* other change is broadcast.                                              *)
Handles(t) ==
  LET k == timers[t].key
      isChange == k.kind = "changed" /\ k.file \in open
  IN  /\ timers[t].st = "fired" /\ k # RestartKey
      /\ \/ /\ isChange
            /\ timers' = [timers EXCEPT ![t].st = "change"]
            /\ UNCHANGED notices
         \/ /\ ~isChange
            /\ Notice(k.file, k.kind)
            /\ timers' = [timers EXCEPT ![t].st = "handled"]
      /\ UNCHANGED <<disk, queue, loop, debounceMap, regs, open, shown, restarted,
                     refused, partial, remote>>

(* The file may have been closed by a restart; a file that has gone cannot *)
(* be read.                                                                *)
NotifiesChange(t) ==
  LET f == timers[t].key.file
  IN  /\ timers[t].st = "change" /\ timers[t].key # RestartKey
      /\ \/ /\ f \in present /\ f \in open /\ Notice(f, "changed")
            /\ shown' = IF f \in lost' THEN shown ELSE shown \cup {f}
         \/ /\ f \in present /\ f \notin open
            /\ lost' = lost \cup {f} /\ UNCHANGED <<told, deleted, shown>>
         \/ f \notin present /\ UNCHANGED <<notices, shown>>
      /\ timers' = [timers EXCEPT ![t].st = "handled"]
      /\ UNCHANGED <<disk, queue, loop, debounceMap, regs, open, restarted, refused, partial, remote>>

(***************************************************************************)
(* RestartServer and RestartableClient.Restart: refused while a restart is *)
(* under way.  The server reads its configuration when it starts; a file   *)
(* that was open is opened again if it can be read and the server lives.   *)
(***************************************************************************)
ServerStarted ==
  /\ server' = "up" /\ restarted' = Config /\ deleted' = {}
  /\ open' \in SUBSET (open \cap present) /\ shown' = open'

RestartBegins(t) ==
  /\ timers[t].st = "fired" /\ timers[t].key = RestartKey
  /\ restarting = "no" /\ restarting' = "config"
  /\ timers' = [timers EXCEPT ![t].st = "stopping"]
  /\ UNCHANGED <<disk, queue, loop, debounceMap, regs, open, shown, notices, restarted, refused, partial,
                 server, faults>>

RestartRefused(t) ==
  /\ timers[t].st = "fired" /\ timers[t].key = RestartKey
  /\ restarting # "no"
  /\ refused' = Config
  /\ timers' = [timers EXCEPT ![t].st = "handled"]
  /\ UNCHANGED <<disk, queue, loop, debounceMap, regs, open, shown, notices, restarted, partial, remote>>

RestartStarts(t) ==
  /\ timers[t].st = "stopping" /\ timers[t].key = RestartKey /\ server # "deaf"
  /\ ServerStarted
  /\ timers' = [timers EXCEPT ![t].st = "starting"]
  /\ UNCHANGED <<disk, queue, loop, debounceMap, regs, told, lost, refused, partial, restarting, faults>>

RestartReturns(t) ==
  /\ timers[t].st = "starting" /\ timers[t].key = RestartKey
  /\ restarting' = "no"
  /\ timers' = [timers EXCEPT ![t].st = "handled"]
  /\ UNCHANGED <<disk, queue, loop, debounceMap, regs, open, shown, notices, restarted, refused, partial,
                 server, faults>>

RestartFails(t) ==
  /\ timers[t].st \in {"stopping", "starting"} /\ timers[t].key = RestartKey /\ server # "deaf"
  /\ server' = "dead" /\ restarting' = "no" /\ refused' = Config
  /\ timers' = [timers EXCEPT ![t].st = "handled"]
  /\ UNCHANGED <<disk, queue, loop, debounceMap, regs, open, shown, notices, restarted, partial, faults>>

Cleans(t) ==
  /\ timers[t].st = "handled"
  /\ debounceMap' = [debounceMap EXCEPT ![timers[t].key] = NoTimer]
  /\ timers' = [timers EXCEPT ![t] = Free]
  /\ UNCHANGED <<disk, queue, loop, regs, open, shown, notices, restarted, refused, partial, remote>>

(***************************************************************************)
(* The event loop.                                                         *)
(***************************************************************************)
Event == Head(queue)

(* A new directory is watched from now on; its content is not looked at.   *)
TakesMkdir ==
  /\ loop = Idle /\ queue # <<>> /\ Event.op = "mkdir"
  /\ dir' = [dir EXCEPT ![Event.file] = "watched"]
  /\ queue' = Tail(queue)
  /\ UNCHANGED <<present, mods, unseen, loop, debounceMap, timers, regs, open, shown, notices,
                 restarted, refused, partial, remote>>

(* Mutant: a configuration file counts as changed only when it is written. *)
TakesConfigWritten ==
  /\ loop = Idle /\ queue # <<>> /\ Event.op # "mkdir"
  /\ Event.file \in present /\ Event.file \in Config
  /\ \/ Event.op = "write" /\ Debounce(RestartKey)
     \/ Event.op # "write" /\ UNCHANGED <<timers, debounceMap>>
  /\ queue' = Tail(queue)
  /\ UNCHANGED <<disk, loop, regs, open, shown, notices, restarted, refused, partial, remote>>

TakesConfig ==
  /\ loop = Idle /\ queue # <<>> /\ Event.op # "mkdir"
  /\ Event.file \in present /\ Event.file \in Config
  /\ Debounce(RestartKey)
  /\ queue' = Tail(queue)
  /\ UNCHANGED <<disk, loop, regs, open, shown, notices, restarted, refused, partial, remote>>

TakesFile ==
  /\ loop = Idle /\ queue # <<>> /\ Event.op # "mkdir"
  /\ Event.file \in present => Event.file \notin Config
  /\ loop' = [at |-> IF Event.file \in present THEN "check" ELSE "dispatch",
              file |-> Event.file, op |-> Event.op, n |-> Event.n]
  /\ queue' = Tail(queue)
  /\ UNCHANGED <<disk, debounceMap, timers, regs, open, shown, notices, restarted,
                 refused, partial, remote>>

(* shouldExcludeFile ends with a look at the file's size: a file that has  *)
(* gone counts as excluded.                                                *)
ChecksExcluded ==
  /\ loop.at = "check"
  /\ loop' = IF loop.file \in present THEN [loop EXCEPT !.at = "dispatch"] ELSE Idle
  /\ UNCHANGED <<disk, queue, debounceMap, timers, regs, open, shown, notices, restarted,
                 refused, partial, remote>>

(* Mutant: the write that follows a creation is relied on to report it.    *)
StartsWrites(kind) == loop.op = "write" /\ kind = "changed" /\ "change" \in WatchKind(regs)

(* The two kinds that are debounced.                                       *)
Starts(kind) ==
  \/ /\ loop.op = "write" /\ kind = "changed"
     /\ "change" \in WatchKind(regs)
  \/ /\ loop.op = "create" /\ kind = "created"
     /\ loop.file \in present /\ "create" \in WatchKind(regs)

DispatchesLater ==
  /\ loop.at = "dispatch"
  /\ \E kind \in {"changed", "created"} : Starts(kind) /\ Debounce(Key(loop.file, kind))
  /\ loop' = Idle
  /\ UNCHANGED <<disk, queue, regs, open, shown, notices, restarted, refused, partial, remote>>

DispatchesNow ==
  /\ loop.at = "dispatch"
  /\ loop.op \in {"remove", "rename"} /\ "delete" \in WatchKind(regs)
  /\ Notice(loop.file, "deleted")
  /\ loop' = IF loop.op = "rename" /\ "create" \in WatchKind(regs)
             THEN [loop EXCEPT !.at = "renamed"] ELSE Idle
  /\ UNCHANGED <<disk, queue, debounceMap, timers, regs, open, shown, restarted, refused, partial, remote>>

DispatchesNothing ==
  /\ loop.at = "dispatch"
  /\ ~Starts("changed") /\ ~Starts("created")
  /\ loop.op \in {"remove", "rename"} => "delete" \notin WatchKind(regs)
  /\ loop' = IF loop.op = "rename" /\ "create" \in WatchKind(regs)
             THEN [loop EXCEPT !.at = "renamed"] ELSE Idle
  /\ UNCHANGED <<disk, queue, debounceMap, timers, regs, open, shown, notices, restarted,
                 refused, partial, remote>>

(* After a rename: the file may be there again.                            *)
LooksAgain ==
  /\ loop.at = "renamed"
  /\ \/ loop.file \in present /\ Debounce(Key(loop.file, "created"))
     \/ loop.file \notin present /\ UNCHANGED <<timers, debounceMap>>
  /\ loop' = Idle
  /\ UNCHANGED <<disk, queue, regs, open, shown, notices, restarted, refused, partial, remote>>

LoopStep ==
  \/ TakesMkdir \/ TakesConfig \/ TakesFile \/ ChecksExcluded
  \/ DispatchesLater \/ DispatchesNow \/ DispatchesNothing \/ LooksAgain

(***************************************************************************)
(* The server: it may die at any time, or stop reading what it is sent.    *)
(* A dead one is recovered by its monitor, which does not open files again,*)
(* and may end without.                                                    *)
(***************************************************************************)
ServerFails ==
  /\ faults < MaxFaults /\ server # "dead"
  /\ server' \in {"dead", "deaf"} \ {server}
  /\ faults' = faults + 1
  /\ UNCHANGED <<disk, queue, loop, debounceMap, timers, regs, open, shown, notices, restarted, refused,
                 partial, restarting>>

RecoveryBegins ==
  /\ server = "dead" /\ restarting = "no"
  /\ restarting' = "recovery"
  /\ UNCHANGED <<disk, queue, loop, debounceMap, timers, regs, open, shown, notices, restarted, refused,
                 partial, server, faults>>

RecoveryStarts ==
  /\ server = "dead" /\ restarting = "recovery"
  /\ ServerStarted /\ open' = {}
  /\ UNCHANGED <<disk, queue, loop, debounceMap, timers, regs, told, lost, refused, partial, restarting,
                 faults>>

RecoveryEnds ==
  /\ restarting = "recovery"
  /\ restarting' = "no"
  /\ UNCHANGED <<disk, queue, loop, debounceMap, timers, regs, open, shown, notices, restarted, refused,
                 partial, server, faults>>

(* The steps of a timer's goroutine that wait for nobody but a server that *)
(* does not read, and those that wait for servers to end and to start.     *)
TimerStep(t) ==
  \/ Fires(t) \/ Handles(t) \/ NotifiesChange(t) \/ Cleans(t)
  \/ RestartBegins(t) \/ RestartRefused(t)

RestartStep(t) == RestartStarts(t) \/ RestartReturns(t) \/ RestartFails(t)

ServerStep == ServerFails \/ RecoveryBegins \/ RecoveryStarts \/ RecoveryEnds

Environment ==
  \/ \E f \in Files : MakeDir(f) \/ (\E op \in Ops : Modify(f, op))
  \/ \E f \in Files \ Config : ToolOpens(f)
  \/ \E mask \in Masks : AddRegistrations(mask)

Next ==
  \/ Environment \/ ServerStep \/ LoopStep
  \/ \E t \in Timers : TimerStep(t) \/ RestartStep(t)

Spec == Init /\ [][Next]_vars
FairSpec == Spec /\ WF_vars(LoopStep) /\ \A t \in Timers : WF_vars(TimerStep(t))

(***************************************************************************)
(* Properties.                                                             *)
(***************************************************************************)
Busy(t) == timers[t].st \in {"armed", "fired", "change", "stopping"}
Quiet == queue = <<>> /\ loop = Idle /\ \A t \in Timers : ~Busy(t)
Sources == Files \ Config
Reported(f) == f \in told \/ f \in lost \/ partial \/ f \in unseen

(* When the watcher has come to rest, its server has been sent a report of *)
(* a file at a moment after the file's last change: no event falls between *)
(* the looks at the disk (watcher.go:203-275), the restarted timers and    *)
(* their entries in debounceMap (503-525).  It takes that all the kinds of *)
(* change are watched and that the directory was.  A report that fails is  *)
(* only logged and is not made again (532-541): the file is in lost then,  *)
(* which only a server that was dead or restarting at the report causes.   *)
NoChangeMissed == Quiet => \A f \in Sources : Reported(f)

(* At rest the last notice of a file that is there is not that it was      *)
(* deleted, whatever the order in which the loop (which reports a removal  *)
(* at once) and the timers have reported (260-275), unless the report that *)
(* should have corrected it failed (532-541).                              *)
PresentIsTold ==
  Quiet => \A f \in Sources :
             f \in present => f \notin deleted \/ f \in lost \/ partial \/ f \in unseen

(* At rest a configuration file that is there has the content its server   *)
(* was started with, or a restart asked for since the file's last change   *)
(* was refused or failed, which is only logged (478-501, 493-495): a       *)
(* change asks for a restart of its own, however many timers run.          *)
ConfigApplied ==
  Quiet => \A f \in Config : f \in present => f \in restarted \/ f \in refused \/ f \in unseen

(* A change is reported in the end, however often the timers are started   *)
(* anew (503-525), unless the server stops reading what it is sent: the    *)
(* report then waits for it, and the event loop with it (263, 267).        *)
ChangesReported == \A f \in Sources : ~Reported(f) ~> Reported(f) \/ server = "deaf"

(* The comment of AddRegistrations says that the watcher handles didChange *)
(* for files that are already open (watcher.go:114-117): at rest, the      *)
(* server of an open file has its content.                                 *)
OpenFilesFollow == Quiet => \A f \in open : f \in present => f \in shown
==============================================================================
