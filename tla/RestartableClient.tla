-------------------------- MODULE RestartableClient --------------------------
(***************************************************************************)
(* The supervisor of one language server: internal/lsp/restartable.go.     *)
(*                                                                         *)
(* A RestartableClient owns a pointer to the current Client (one server    *)
(* process each).  These goroutines work on it at the same time:           *)
(*   - Starter, the first ClientForFile of the language, runs Start;       *)
(*   - one health monitor per installed client waits for the death of the  *)
(*     client it read and then runs the crash recovery restart();          *)
(*   - Callers, the watcher's timer callbacks, run Restart after the       *)
(*     change of a configuration file;                                     *)
(*   - Users, the tool handlers, fetch the client with GetClient and open  *)
(*     a file on it;                                                       *)
(*   - Closer, the router's Close at exit, runs Close.                     *)
(* A client is named by its generation, the order of NewClient calls, and  *)
(* the monitor spawned for generation g is named g too.                    *)
(***************************************************************************)
EXTENDS Naturals, FiniteSets

CONSTANTS
  MaxGen,       \* bound on the number of server processes ever started
  MaxFaults,    \* bound on what goes wrong with servers: crashes, unreadable messages, and
                \* hangs, with the end of the hung process
  MaxRestarts,  \* bound on the configuration restarts that get the flag
  NumBackoffs,  \* length of the backoff table, 6 in the code
  Files,        \* files a user may open
  Starter, Callers, Users, Closer

Gens == 1..MaxGen
Restarters == Gens \cup Callers
Actors == Gens \cup {Starter, Closer} \cup Callers \cup Users

ASSUME BoundsAssumption ==
  /\ MaxGen \in Nat \ {0}
  /\ MaxFaults \in Nat
  /\ MaxRestarts \in Nat
  /\ NumBackoffs \in Nat \ {0}

ASSUME ActorsAssumption ==
  /\ Starter \notin 0..MaxGen \cup {Closer} \cup Callers \cup Users
  /\ Closer \notin 0..MaxGen \cup Callers \cup Users
  /\ \A a \in Callers \cup Users : a \notin 0..MaxGen
  /\ \A c \in Callers : c \notin Users

VARIABLES
  client,       \* rc.client, a generation; 0 is nil
  restarting,   \* rc.restarting
  restartCount, \* rc.restartCount, not told apart beyond NumBackoffs
  lock,         \* the monitor that holds rc.mu for writing over its Close; 0 is none
  cancelled,    \* rc.ctx is cancelled
  proc,         \* state of each server process
  done,         \* Client.done, closed by the reader goroutine of the client
  ready,        \* InitializeLSPClient has succeeded on the client
  open,         \* Client.openFiles
  pc,           \* where each goroutine is
  cli,          \* the client each goroutine has in a local variable
  captured,     \* openFiles, the local variable of Restart
  faults, restarts  \* counted against MaxFaults and MaxRestarts

serverVars == <<proc, done, ready, faults>>
vars == <<client, restarting, restartCount, lock, cancelled, serverVars,
          open, pc, cli, captured, restarts>>

(* The program counters inside the section guarded by the restarting flag. *)
MonitorSection == {"loop", "backoff", "lock", "closing", "create", "init",
                   "abort", "install", "reset", "spawn", "release"}
CallerSection == {"capture", "shutdown", "closing", "create", "init", "abort",
                  "install", "reopen", "spawn", "release"}
Section == MonitorSection \cup CallerSection

MonitorPC == {"absent", "load", "watch", "cas", "ended"} \cup MonitorSection
CallerPC == {"idle"} \cup CallerSection
UserPC == {"idle", "checked", "holding"}
StarterPC == {"start", "startInit", "startAbort", "started", "failed"}
CloserPC == {"idle", "cancelled", "wait", "closed"}

Labels == MonitorPC \cup CallerPC \cup UserPC \cup StarterPC \cup CloserPC

InSection(a) == pc[a] \in Section
Started == pc[Starter] = "started"
Live(g) == proc[g] \in {"running", "hung", "stopping"}

(* Notify refuses once the reader goroutine has ended.                     *)
Takes(g) == proc[g] \in {"running", "hung"} /\ ~done[g]

(* The program has panicked: it killed a server (see KillerFires).         *)
Panicked == \E g \in Gens : proc[g] = "killed"

(* The bound MaxGen is reached: a NewClient finds no generation left.      *)
Exhausted ==
  /\ \A g \in Gens : proc[g] # "unborn"
  /\ \E a \in Restarters : pc[a] = "create"

TypeOK ==
  /\ client \in Gens \cup {0}
  /\ restarting \in BOOLEAN
  /\ restartCount \in 0..NumBackoffs
  /\ lock \in Gens \cup {0}
  /\ cancelled \in BOOLEAN
  /\ proc \in [Gens -> {"unborn", "running", "hung", "stopping", "exited", "killed"}]
  /\ done \in [Gens -> BOOLEAN]
  /\ ready \in [Gens -> BOOLEAN]
  /\ open \in [Gens -> SUBSET Files]
  /\ pc \in [Actors -> Labels]
  /\ \A m \in Gens : pc[m] \in MonitorPC
  /\ \A c \in Callers : pc[c] \in CallerPC
  /\ \A u \in Users : pc[u] \in UserPC
  /\ pc[Starter] \in StarterPC /\ pc[Closer] \in CloserPC
  /\ cli \in [Actors -> Gens \cup {0}]
  /\ captured \in [Callers -> SUBSET Files]
  /\ faults \in 0..MaxFaults
  /\ restarts \in 0..MaxRestarts

Init ==
  /\ client = 0
  /\ restarting = FALSE
  /\ restartCount = 0
  /\ lock = 0
  /\ cancelled = FALSE
  /\ proc = [g \in Gens |-> "unborn"]
  /\ done = [g \in Gens |-> FALSE]
  /\ ready = [g \in Gens |-> FALSE]
  /\ open = [g \in Gens |-> {}]
  /\ pc = [a \in Actors |-> IF a \in Gens THEN "absent"
                            ELSE IF a = Starter THEN "start" ELSE "idle"]
  /\ cli = [a \in Actors |-> 0]
  /\ captured = [c \in Callers |-> {}]
  /\ faults = 0
  /\ restarts = 0

(* The goroutine is there, and the program still runs.                     *)
At(a, label) == ~Panicked /\ pc[a] = label

Goto(a, label) == pc' = [pc EXCEPT ![a] = label]

(* The goroutine returns; its local variables are gone.                    *)
Returns(a, label) ==
  /\ Goto(a, label)
  /\ cli' = [cli EXCEPT ![a] = 0]

(***************************************************************************)
(* Helpers shared by several goroutines.                                   *)
(***************************************************************************)

(* NewClient: the next process; its reader goroutine runs from here on.    *)
Spawns(g) ==
  /\ proc[g] = "unborn"
  /\ \A h \in Gens : h < g => proc[h] # "unborn"
  /\ proc' = [proc EXCEPT ![g] = "running"]

(* What Client.Close does before it waits for the process: the files are   *)
(* closed, unless the reader has ended and Notify refuses them, and stdin  *)
(* is closed.  A server that does not read can keep the writes that come   *)
(* first waiting, and with them whoever closes the client.                 *)
StopsClient(g, writes) ==
  \/ /\ proc[g] \in {"running", "hung"}
     /\ proc' = [proc EXCEPT ![g] = "stopping"]
     /\ open' = [open EXCEPT ![g] = IF done[g] THEN @ ELSE {}]
  \/ /\ proc[g] = "hung" /\ ~done[g] /\ writes
     /\ UNCHANGED <<proc, open>>
  \/ /\ proc[g] \in {"stopping", "exited"}
     /\ UNCHANGED <<proc, open>>

(***************************************************************************)
(* Start.  The router holds its lock over it and publishes the supervisor  *)
(* only when it returns without error, so that the others wait.            *)
(***************************************************************************)
StartCreate ==
  /\ At(Starter, "start")
  /\ \E g \in Gens :
       /\ Spawns(g)
       /\ client' = g
       /\ cli' = [cli EXCEPT ![Starter] = g]
  /\ Goto(Starter, "startInit")
  /\ UNCHANGED <<restarting, restartCount, lock, cancelled, done, ready, faults,
                 open, captured, restarts>>

StartCreateFails ==
  /\ At(Starter, "start")
  /\ Goto(Starter, "failed")
  /\ UNCHANGED <<client, restarting, restartCount, lock, cancelled, serverVars,
                 open, cli, captured, restarts>>

(* For a TypeScript server, files are opened once it is initialized.       *)
OpensFiles(g) == \E opens \in SUBSET Files : open' = [open EXCEPT ![g] = opens]

StartInitialized ==
  /\ At(Starter, "startInit")
  /\ proc[cli[Starter]] = "running" /\ ~done[cli[Starter]]
  /\ ready' = [ready EXCEPT ![cli[Starter]] = TRUE]
  /\ OpensFiles(cli[Starter])
  /\ pc' = [pc EXCEPT ![Starter] = "started", ![cli[Starter]] = "load"]
  /\ UNCHANGED <<client, restarting, restartCount, lock, cancelled, proc, done, faults,
                 cli, captured, restarts>>

StartInitFails ==
  /\ At(Starter, "startInit")
  /\ StopsClient(cli[Starter], TRUE)
  /\ Goto(Starter, "startAbort")
  /\ UNCHANGED <<client, restarting, restartCount, lock, cancelled, done, ready, faults,
                 cli, captured, restarts>>

StartAborted ==
  /\ At(Starter, "startAbort")
  /\ proc[cli[Starter]] = "exited"
  /\ Goto(Starter, "failed")
  /\ UNCHANGED <<client, restarting, restartCount, lock, cancelled, serverVars,
                 open, cli, captured, restarts>>

(***************************************************************************)
(* monitorHealth.                                                          *)
(***************************************************************************)
MonitorLoads(m) ==
  /\ At(m, "load")
  /\ lock = 0
  /\ cli' = [cli EXCEPT ![m] = client]
  /\ Goto(m, "watch")
  /\ UNCHANGED <<client, restarting, restartCount, lock, cancelled, serverVars,
                 open, captured, restarts>>

MonitorSeesDeath(m) ==
  /\ At(m, "watch")
  /\ done[cli[m]]
  /\ Goto(m, "cas")
  /\ UNCHANGED <<client, restarting, restartCount, lock, cancelled, serverVars,
                 open, cli, captured, restarts>>

MonitorSeesCancel(m) ==
  /\ At(m, "watch")
  /\ cancelled
  /\ Returns(m, "ended")
  /\ UNCHANGED <<client, restarting, restartCount, lock, cancelled, serverVars,
                 open, captured, restarts>>

(***************************************************************************)
(* restart: the crash recovery of a monitor.                               *)
(***************************************************************************)

RestartAcquires(m) ==
  /\ At(m, "cas")
  /\ ~restarting
  /\ restarting' = TRUE
  /\ Goto(m, "loop")
  /\ UNCHANGED <<client, restartCount, lock, cancelled, serverVars,
                 open, cli, captured, restarts>>

RestartRefused(m) ==
  /\ At(m, "cas")
  /\ restarting
  /\ Returns(m, "ended")
  /\ UNCHANGED <<client, restarting, restartCount, lock, cancelled, serverVars,
                 open, captured, restarts>>

(* Seeded fault: a return that skips the deferred reset of the flag.       *)
RestartCancelledLeaks(m) ==
  /\ At(m, "loop") \/ At(m, "backoff")
  /\ cancelled
  /\ Returns(m, "ended")
  /\ UNCHANGED <<client, restarting, restartCount, lock, cancelled, serverVars,
                 open, captured, restarts>>

(* Both selects on rc.ctx.Done(); the deferred Store(false) runs.          *)
RestartCancelled(m) ==
  /\ At(m, "loop") \/ At(m, "backoff")
  /\ cancelled
  /\ restarting' = FALSE
  /\ Returns(m, "ended")
  /\ UNCHANGED <<client, restartCount, lock, cancelled, serverVars,
                 open, captured, restarts>>

RestartAttempt(m) ==
  /\ At(m, "loop")
  /\ ~cancelled
  /\ restartCount' = IF restartCount < NumBackoffs THEN restartCount + 1 ELSE restartCount
  /\ Goto(m, "backoff")
  /\ UNCHANGED <<client, restarting, lock, cancelled, serverVars,
                 open, cli, captured, restarts>>

BackoffElapses(m) ==
  /\ At(m, "backoff")
  /\ Goto(m, "lock")
  /\ UNCHANGED <<client, restarting, restartCount, lock, cancelled, serverVars,
                 open, cli, captured, restarts>>

RestartClosesOld(m) ==
  /\ At(m, "lock")
  /\ lock = 0
  /\ lock' = m
  /\ StopsClient(client, open[client] # {})
  /\ Goto(m, "closing")
  /\ UNCHANGED <<client, restarting, restartCount, cancelled, done, ready, faults,
                 cli, captured, restarts>>

RestartOldClosed(m) ==
  /\ At(m, "closing")
  /\ proc[client] = "exited"
  /\ lock' = 0
  /\ Goto(m, "create")
  /\ UNCHANGED <<client, restarting, restartCount, cancelled, serverVars,
                 open, cli, captured, restarts>>

RestartResetsCount(m) ==
  /\ At(m, "reset")
  /\ restartCount' = 0
  /\ Goto(m, "spawn")
  /\ UNCHANGED <<client, restarting, lock, cancelled, serverVars,
                 open, cli, captured, restarts>>

(* Seeded fault: the recovery gives up after its first failed attempt.     *)
AttemptGivesUp(a) == Goto(a, "release")

(***************************************************************************)
(* The steps restart and Restart have in common: NewClient, initialize,    *)
(* install, go monitorHealth, and the deferred reset of the flag.  A is    *)
(* the goroutine; a failed attempt makes a monitor loop and a caller leave.*)
(***************************************************************************)
AttemptFailed(a) == Goto(a, IF a \in Gens THEN "loop" ELSE "release")

(* Seeded fault: the client is published before it is initialized.         *)
CreatePublishes(a) ==
  /\ At(a, "create")
  /\ \E g \in Gens :
       /\ Spawns(g)
       /\ client' = g
       /\ cli' = [cli EXCEPT ![a] = g]
  /\ Goto(a, "init")
  /\ UNCHANGED <<restarting, restartCount, lock, cancelled, done, ready, faults,
                 open, captured, restarts>>

Create(a) ==
  /\ At(a, "create")
  /\ \E g \in Gens :
       /\ Spawns(g)
       /\ cli' = [cli EXCEPT ![a] = g]
  /\ Goto(a, "init")
  /\ UNCHANGED <<client, restarting, restartCount, lock, cancelled, done, ready, faults,
                 open, captured, restarts>>

CreateFails(a) ==
  /\ At(a, "create")
  /\ AttemptFailed(a)
  /\ UNCHANGED <<client, restarting, restartCount, lock, cancelled, serverVars,
                 open, cli, captured, restarts>>

Initialized(a) ==
  /\ At(a, "init")
  /\ proc[cli[a]] = "running" /\ ~done[cli[a]]
  /\ ready' = [ready EXCEPT ![cli[a]] = TRUE]
  /\ OpensFiles(cli[a])
  /\ Goto(a, "install")
  /\ UNCHANGED <<client, restarting, restartCount, lock, cancelled, proc, done, faults,
                 cli, captured, restarts>>

(* Seeded fault: the client that failed to initialize is not closed.       *)
InitFailsUnclosed(a) ==
  /\ At(a, "init")
  /\ AttemptFailed(a)
  /\ UNCHANGED <<client, restarting, restartCount, lock, cancelled, serverVars,
                 open, cli, captured, restarts>>

(* An error answer, the end of the reader, or rc.ctx cancelled.  There is  *)
(* no timeout: a hung server keeps the caller waiting.                     *)
InitFails(a) ==
  /\ At(a, "init")
  /\ proc[cli[a]] = "hung" => done[cli[a]] \/ cancelled
  /\ StopsClient(cli[a], TRUE)
  /\ Goto(a, "abort")
  /\ UNCHANGED <<client, restarting, restartCount, lock, cancelled, done, ready, faults,
                 cli, captured, restarts>>

InitAborted(a) ==
  /\ At(a, "abort")
  /\ proc[cli[a]] = "exited"
  /\ AttemptFailed(a)
  /\ UNCHANGED <<client, restarting, restartCount, lock, cancelled, serverVars,
                 open, cli, captured, restarts>>

(* restart resets the count in a step of its own, Restart with the swap.   *)
Install(a) ==
  /\ At(a, "install")
  /\ lock = 0
  /\ client' = cli[a]
  /\ restartCount' = IF a \in Gens THEN restartCount ELSE 0
  /\ Goto(a, IF a \in Gens THEN "reset" ELSE "reopen")
  /\ UNCHANGED <<restarting, lock, cancelled, serverVars, open, cli, captured, restarts>>

SpawnMonitor(a) ==
  /\ At(a, "spawn")
  /\ pc' = [pc EXCEPT ![a] = "release", ![cli[a]] = "load"]
  /\ UNCHANGED <<client, restarting, restartCount, lock, cancelled, serverVars,
                 open, cli, captured, restarts>>

Release(a) ==
  /\ At(a, "release")
  /\ restarting' = FALSE
  /\ Returns(a, IF a \in Gens THEN "ended" ELSE "idle")
  /\ UNCHANGED <<client, restartCount, lock, cancelled, serverVars,
                 open, captured, restarts>>

(***************************************************************************)
(* Restart: a configuration file has changed.  A call that finds the flag  *)
(* set returns ErrServerRestarting and changes nothing.                    *)
(***************************************************************************)
ConfigRestart(c) ==
  /\ At(c, "idle")
  /\ Started
  /\ restarts < MaxRestarts
  /\ restarts' = restarts + 1
  /\ ~restarting
  /\ restarting' = TRUE
  /\ Goto(c, "capture")
  /\ UNCHANGED <<client, restartCount, lock, cancelled, serverVars, open, cli, captured>>

CaptureOpenFiles(c) ==
  /\ At(c, "capture")
  /\ lock = 0
  /\ cli' = [cli EXCEPT ![c] = client]
  /\ captured' = [captured EXCEPT ![c] = open[client]]
  /\ Goto(c, "shutdown")
  /\ UNCHANGED <<client, restarting, restartCount, lock, cancelled, serverVars, open, restarts>>

(* Shutdown, Exit and Close of the old client.                             *)
ShutdownOld(c) ==
  /\ At(c, "shutdown")
  /\ StopsClient(cli[c], TRUE)
  /\ Goto(c, "closing")
  /\ UNCHANGED <<client, restarting, restartCount, lock, cancelled, done, ready, faults,
                 cli, captured, restarts>>

(* Seeded fault: the files are captured once the old client has closed.    *)
OldShutDownCaptures(c) ==
  /\ At(c, "closing")
  /\ proc[cli[c]] = "exited"
  /\ captured' = [captured EXCEPT ![c] = open[cli[c]]]
  /\ Goto(c, "create")
  /\ UNCHANGED <<client, restarting, restartCount, lock, cancelled, serverVars,
                 open, cli, restarts>>

OldShutDown(c) ==
  /\ At(c, "closing")
  /\ proc[cli[c]] = "exited"
  /\ Goto(c, "create")
  /\ UNCHANGED <<client, restarting, restartCount, lock, cancelled, serverVars,
                 open, cli, captured, restarts>>

(* One file of the loop over openFiles.  A file that cannot be read, or    *)
(* that the client does not take any more, is skipped with a warning.      *)
Reopen(c) ==
  /\ At(c, "reopen")
  /\ \E f \in captured[c] :
       /\ captured' = [captured EXCEPT ![c] = @ \ {f}]
       /\ \/ /\ Takes(cli[c])
             /\ open' = [open EXCEPT ![cli[c]] = @ \cup {f}]
          \/ UNCHANGED open
  /\ UNCHANGED <<client, restarting, restartCount, lock, cancelled, serverVars,
                 pc, cli, restarts>>

Reopened(c) ==
  /\ At(c, "reopen")
  /\ captured[c] = {}
  /\ Goto(c, "spawn")
  /\ UNCHANGED <<client, restarting, restartCount, lock, cancelled, serverVars,
                 open, cli, captured, restarts>>

(***************************************************************************)
(* Close.  It takes neither the flag nor the write lock.                   *)
(***************************************************************************)
CloseCancels ==
  /\ At(Closer, "idle")
  /\ Started
  /\ cancelled' = TRUE
  /\ Goto(Closer, "cancelled")
  /\ UNCHANGED <<client, restarting, restartCount, lock, serverVars,
                 open, cli, captured, restarts>>

CloseStops ==
  /\ At(Closer, "cancelled")
  /\ lock = 0
  /\ cli' = [cli EXCEPT ![Closer] = client]
  /\ StopsClient(client, open[client] # {})
  /\ Goto(Closer, "wait")
  /\ UNCHANGED <<client, restarting, restartCount, lock, cancelled, done, ready, faults,
                 captured, restarts>>

CloseReturns ==
  /\ At(Closer, "wait")
  /\ proc[cli[Closer]] = "exited"
  /\ Goto(Closer, "closed")
  /\ UNCHANGED <<client, restarting, restartCount, lock, cancelled, serverVars,
                 open, cli, captured, restarts>>

(***************************************************************************)
(* A tool handler: GetClient tests the flag and then reads the pointer,    *)
(* two steps, and uses the client later.                                   *)
(***************************************************************************)
GetClientChecks(u) ==
  /\ At(u, "idle")
  /\ Started
  /\ ~restarting
  /\ Goto(u, "checked")
  /\ UNCHANGED <<client, restarting, restartCount, lock, cancelled, serverVars,
                 open, cli, captured, restarts>>

GetClientReturns(u) ==
  /\ At(u, "checked")
  /\ lock = 0
  /\ cli' = [cli EXCEPT ![u] = client]
  /\ Goto(u, "holding")
  /\ UNCHANGED <<client, restarting, restartCount, lock, cancelled, serverVars,
                 open, captured, restarts>>

OpenFile(u) ==
  /\ At(u, "holding")
  /\ \/ /\ Takes(cli[u])
        /\ \E f \in Files : open' = [open EXCEPT ![cli[u]] = @ \cup {f}]
     \/ UNCHANGED open   \* open already, or the read or the Notify fails
  /\ Returns(u, "idle")
  /\ UNCHANGED <<client, restarting, restartCount, lock, cancelled, serverVars,
                 captured, restarts>>

(***************************************************************************)
(* The server processes and the reader goroutines of their clients.        *)
(***************************************************************************)
Crash(g) ==
  /\ \/ proc[g] = "running" /\ faults < MaxFaults /\ faults' = faults + 1
     \/ proc[g] = "hung" /\ UNCHANGED faults
  /\ proc' = [proc EXCEPT ![g] = "exited"]
  /\ UNCHANGED <<client, restarting, restartCount, lock, cancelled, done, ready,
                 open, pc, cli, captured, restarts>>

(* The server answers no more and takes nothing from its stdin, for good:  *)
(* one that comes back is a slow server.                                   *)
Hangs(g) ==
  /\ proc[g] = "running"
  /\ faults < MaxFaults
  /\ faults' = faults + 1
  /\ proc' = [proc EXCEPT ![g] = "hung"]
  /\ UNCHANGED <<client, restarting, restartCount, lock, cancelled, done, ready,
                 open, pc, cli, captured, restarts>>

Exits(g) ==
  /\ proc[g] = "stopping"
  /\ proc' = [proc EXCEPT ![g] = "exited"]
  /\ UNCHANGED <<client, restarting, restartCount, lock, cancelled, done, ready, faults,
                 open, pc, cli, captured, restarts>>

(* Two seconds after its stdin was closed the server is killed.  The       *)
(* killer closes forcedKill, and so does Close when Wait returns: the      *)
(* second of them panics, in a goroutine nobody recovers.  The program     *)
(* ends here; the few steps it may still do are those after Exits.         *)
KillerFires(g) ==
  /\ ~Panicked
  /\ proc[g] = "stopping"
  /\ proc' = [proc EXCEPT ![g] = "killed"]
  /\ UNCHANGED <<client, restarting, restartCount, lock, cancelled, done, ready, faults,
                 open, pc, cli, captured, restarts>>

(* handleMessages reads EOF, returns, and closes done.                     *)
ReaderSeesEOF(g) ==
  /\ ~Panicked
  /\ proc[g] = "exited"
  /\ ~done[g]
  /\ done' = [done EXCEPT ![g] = TRUE]
  /\ UNCHANGED <<client, restarting, restartCount, lock, cancelled, proc, ready, faults,
                 open, pc, cli, captured, restarts>>

(* It does the same when it cannot make sense of what a live server sent.  *)
ReaderFails(g) ==
  /\ ~Panicked
  /\ Live(g)
  /\ ~done[g]
  /\ faults < MaxFaults
  /\ faults' = faults + 1
  /\ done' = [done EXCEPT ![g] = TRUE]
  /\ UNCHANGED <<client, restarting, restartCount, lock, cancelled, proc, ready,
                 open, pc, cli, captured, restarts>>

StarterStep ==
  \/ StartCreate \/ StartCreateFails \/ StartInitialized \/ StartInitFails \/ StartAborted

CommonStep(a) ==
  \/ Create(a) \/ CreateFails(a) \/ Initialized(a) \/ InitFails(a) \/ InitAborted(a)
  \/ Install(a) \/ SpawnMonitor(a) \/ Release(a)

MonitorStep(m) ==
  \/ MonitorLoads(m) \/ MonitorSeesDeath(m) \/ MonitorSeesCancel(m)
  \/ RestartAcquires(m) \/ RestartRefused(m) \/ RestartCancelled(m) \/ RestartAttempt(m)
  \/ BackoffElapses(m) \/ RestartClosesOld(m) \/ RestartOldClosed(m) \/ RestartResetsCount(m)
  \/ CommonStep(m)

CallerStep(c) ==
  \/ ConfigRestart(c) \/ CaptureOpenFiles(c) \/ ShutdownOld(c) \/ OldShutDown(c)
  \/ Reopen(c) \/ Reopened(c) \/ CommonStep(c)

CloserStep == CloseCancels \/ CloseStops \/ CloseReturns

UserStep(u) == GetClientChecks(u) \/ GetClientReturns(u) \/ OpenFile(u)

ServerStep(g) ==
  \/ Crash(g) \/ Hangs(g) \/ Exits(g) \/ KillerFires(g) \/ ReaderSeesEOF(g) \/ ReaderFails(g)

Next ==
  \/ StarterStep
  \/ \E m \in Gens : MonitorStep(m)
  \/ \E c \in Callers : CallerStep(c)
  \/ CloserStep
  \/ \E u \in Users : UserStep(u)
  \/ \E g \in Gens : ServerStep(g)

Spec == Init /\ [][Next]_vars

(***************************************************************************)
(* Fairness.  Goroutines that can run do run, unless they wait for a hung  *)
(* server to answer or to read; RWMutex lets the waiting readers in when a *)
(* writer leaves, hence SF for the reads under rc.mu; a process whose      *)
(* stdin was closed exits or is killed, and its reader sees the end of the *)
(* pipe.  Of the environment: a server that does not hang answers          *)
(* initialize (the call has no timeout), and a command that is run again   *)
(* and again starts and initializes some time.                             *)
(***************************************************************************)

(* The goroutine waits for a server that hangs: for the answer to          *)
(* initialize, in a write to its stdin, or for its exit before stdin is    *)
(* closed.                                                                 *)
AwaitsHung(a) ==
  LET g == IF a \in Gens /\ pc[a] = "closing" THEN client ELSE cli[a]
  IN  /\ pc[a] \in {"init", "abort", "closing", "reopen", "wait"}
      /\ g # 0 /\ proc[g] = "hung"

MonitorProgress(m) == ~AwaitsHung(m) /\ MonitorStep(m)

CallerProgress(c) ==
  /\ ~AwaitsHung(c)
  /\ \/ CaptureOpenFiles(c) \/ ShutdownOld(c) \/ OldShutDown(c)
     \/ Reopen(c) \/ Reopened(c) \/ CommonStep(c)

Fairness ==
  /\ \A m \in Gens : WF_vars(MonitorProgress(m))
  /\ SF_vars(\E m \in Gens : MonitorLoads(m))
  /\ \A c \in Callers : WF_vars(CallerProgress(c))
  /\ SF_vars(\E a \in Restarters : Create(a))
  /\ SF_vars(\E a \in Restarters : Initialized(a))
  /\ SF_vars(CloseStops) /\ WF_vars(CloseReturns)
  /\ WF_vars(\E g \in Gens : Exits(g) \/ KillerFires(g))
  /\ WF_vars(\E g \in Gens : ReaderSeesEOF(g))

FairSpec == Spec /\ Fairness

(***************************************************************************)
(* Safety.                                                                 *)
(***************************************************************************)

(* At most one goroutine is between the compare-and-swap and the deferred  *)
(* reset of Restart and restart (restartable.go:177-180, 246-249), however *)
(* many monitors and callbacks race for it.                                *)
RestartExclusion ==
  \A a, b \in Actors : InSection(a) /\ InSection(b) => a = b

(* The flag that makes GetClient fail is set exactly while somebody works  *)
(* on a restart: no return path leaks it, no other goroutine clears it.    *)
FlagMatchesSection ==
  restarting <=> \E a \in Actors : InSection(a)

(* Two server processes of one language never run at the same time on the  *)
(* workspace, not even across failed attempts and overlapping restarts.    *)
OneServer ==
  \A g, h \in Gens : Live(g) /\ Live(h) => g = h

(* GetClient, which reads the flag and the pointer in two steps, never     *)
(* hands out a client whose initialize exchange has not succeeded.         *)
HandedOutReady ==
  \A u \in Users : pc[u] = "holding" => ready[cli[u]]

(* The backoff count is back at zero whenever no crash recovery is under   *)
(* way, so that the next crash starts with the shortest delay.             *)
BackoffOnlyWhileRecovering ==
  restartCount # 0 => cancelled \/ \E m \in Gens : InSection(m)

(***************************************************************************)
(* The inductive invariant behind the safety properties.                   *)
(***************************************************************************)

(* Until Start has returned nothing else moves.                            *)
StartInv ==
  /\ ~Started => /\ lock = 0
                 /\ \A a \in Actors \ {Starter} : pc[a] \in {"absent", "idle"}
  /\ pc[Starter] = "start" => client = 0 /\ \A g \in Gens : proc[g] = "unborn"
  /\ pc[Starter] \in {"startInit", "startAbort"} => client \in Gens /\ cli[Starter] = client
  /\ pc[Starter] = "failed" => \A g \in Gens : ~Live(g)
  /\ Started => client \in Gens

(* rc.mu is held over a blocking call in one place only.                   *)
LockInv == \A m \in Gens : lock = m <=> pc[m] = "closing"

(* Generations are born in order, and monitors only of born generations.   *)
GenInv ==
  /\ \A g, h \in Gens : h < g /\ proc[h] = "unborn" => proc[g] = "unborn"
  /\ \A g \in Gens : proc[g] = "unborn" => pc[g] = "absent" /\ client # g

(* What a restarting goroutine knows of the client in its local variable.  *)
LocalInv ==
  /\ \A c \in Callers : pc[c] \in {"shutdown", "closing"} => cli[c] = client
  /\ \A a \in Restarters :
       /\ pc[a] \in {"init", "abort", "install", "reset", "reopen", "spawn"} =>
            cli[a] \in Gens /\ pc[cli[a]] = "absent" /\ proc[cli[a]] # "unborn"
       /\ pc[a] \in {"init", "abort", "install"} => client < cli[a]
       /\ pc[a] \in {"reset", "reopen", "spawn"} => client = cli[a]

(* A live server is the current one or the one being brought up, and the   *)
(* current one has stopped before the next is started.                     *)
ServerInv ==
  /\ \A g \in Gens : Live(g) =>
       \/ g = client
       \/ \E a \in Restarters : pc[a] \in {"init", "abort", "install"} /\ cli[a] = g
  /\ \A a \in Restarters : pc[a] \in {"create", "init", "abort", "install"} => ~Live(client)

ReadyInv ==
  /\ Started => ready[client]
  /\ \A a \in Restarters : pc[a] = "install" => ready[cli[a]]
  /\ HandedOutReady

BackoffInv ==
  restartCount # 0 =>
    cancelled \/ \E m \in Gens : pc[m] \in MonitorSection \ {"spawn", "release"}

IInv ==
  /\ TypeOK /\ StartInv /\ LockInv /\ GenInv /\ LocalInv /\ ServerInv
  /\ ReadyInv /\ BackoffInv /\ RestartExclusion /\ FlagMatchesSection

(* The abstract promise: servers follow one another without overlap.       *)
LiveServers == {g \in Gens : Live(g)}

Slot == INSTANCE SingleServer
          WITH current <- client, live <- LiveServers

SlotSpec == Slot!Spec

(***************************************************************************)
(* Liveness, under FairSpec.                                               *)
(***************************************************************************)

(* What the code does not survive: the panic after a kill, and a goroutine *)
(* that waits for a hung server, for as long as it hangs.  The bound on    *)
(* the generations is the model's own.                                     *)
Excused == Panicked \/ Exhausted \/ \E a \in Actors : AwaitsHung(a)

(* A restart that has begun gives the flag back, so that requests are not  *)
(* refused for ever with ErrServerRestarting; Close returns, also when it  *)
(* meets a restart that holds rc.mu; and every health monitor ends after   *)
(* it, wherever it was: waiting, backing off, in the middle of an attempt, *)
(* or not yet spawned.  Only a panic and a server that hangs for ever      *)
(* prevent it: when the hung server dies the promise holds again.          *)
NobodyWaitsForEver ==
  /\ restarting ~> (~restarting \/ Excused)
  /\ cancelled ~>
       \/ pc[Closer] = "closed" /\ \A m \in Gens : pc[m] \in {"absent", "ended"}
       \/ Excused

(* README.md:250: as long as no configuration restart interferes and only  *)
(* one thing goes wrong, a client that died or sent what cannot be read is *)
(* replaced, after any number of failed attempts -- unless its server does *)
(* not exit in time and the kill makes the program panic.                  *)
CrashRecovered ==
  [](restarts = 0 /\ faults <= 1) =>
    \A g \in Gens :
      (Started /\ client = g /\ done[g]) ~> (client # g \/ cancelled \/ Excused)

(***************************************************************************)
(* What the documentation says and the code does not do.                   *)
(***************************************************************************)

(* README.md, About: a server that crashes is restarted automatically.     *)
AutoRestart ==
  \A g \in Gens :
    (Started /\ client = g /\ done[g]) ~> (client # g \/ cancelled \/ Excused)
==============================================================================
