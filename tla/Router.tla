--------------------------------- MODULE Router ---------------------------------
(***************************************************************************)
(* The router of requests to language servers (internal/lsp/router.go) and *)
(* the end of the process (main.go:246-333).                               *)
(*                                                                         *)
(* Tool handlers and the watcher ask the router for the server of a        *)
(* language; the first one that asks starts it, under the write lock, and  *)
(* the others wait.  Languages of one group share a server.  The signal    *)
(* handler and main may both clean up: Router.Close stops every server     *)
(* under the same lock, and a channel is closed that main waits for.       *)
(*                                                                         *)
(* A read lock is held for a look at the table only, which is one step, so *)
(* only the holder of the write lock is a variable.  A server is here the  *)
(* RestartableClient object: started once, and closed once; the processes  *)
(* it runs, crashes and restarts are in RestartableClient.                 *)
(***************************************************************************)
EXTENDS Naturals, Sequences

CONSTANTS
  Langs,       \* language ids
  Primary,     \* languageGroups: the other id a language shares a server with
  Configs,     \* the languages a server is configured for
  Procs,       \* goroutines of tool handlers and of the watcher
  MaxServers,  \* bound on the servers started
  NoLang, NoOne

Closers == {"main", "handler"}
NoServer == 0

ASSUME LangsAssumption ==
  NoLang \notin Langs /\ Configs \subseteq Langs /\ Primary \in [Langs -> Langs \cup {NoLang}]
(* A group has two languages, or one that leans on another without a group.*)
ASSUME GroupsAssumption ==
  \A l \in Langs : Primary[l] # NoLang => Primary[Primary[l]] \in {l, NoLang}
ASSUME ProcsAssumption == NoOne \notin Procs \cup Closers /\ Procs \cap Closers = {}
ASSUME BoundAssumption == MaxServers \in Nat

VARIABLES
  clients,  \* the table: the server of each language, NoServer when there is none
  servers,  \* the RestartableClients made so far: language and state
  deaf,     \* those whose process neither answers nor reads any more
  writer,   \* who holds the write lock
  pc, want, \* where each goroutine is, and the language it asked for
  hold,     \* the servers it was given and has not used yet
  cpc, todo,\* where each cleanup is, and the servers it has still to close
  done,     \* the channel main waits for is closed
  ended     \* the process: "no", "exited" or "panicked"

table == <<clients, servers, writer>>
local == <<pc, want, hold>>
closing == <<cpc, todo, done, ended>>
vars == <<table, local, closing, deaf>>

States == {"starting", "running", "failed", "closed"}
Ids == 0..MaxServers

TypeOK ==
  /\ clients \in [Langs -> Ids]
  /\ servers \in Seq([lang : Configs, st : States]) /\ Len(servers) <= MaxServers
  /\ \A l \in Langs : clients[l] <= Len(servers)
  /\ deaf \subseteq DOMAIN servers
  /\ writer \in Procs \cup Closers \cup {NoOne}
  /\ pc \in [Procs -> {"idle", "miss", "starting", "using"}]
  /\ want \in [Procs -> Langs \cup {NoLang}]
  /\ hold \in [Procs -> SUBSET (1..MaxServers)]
  /\ cpc \in [Closers -> {"up", "lock", "close", "check", "closeDone", "end", "await"}]
  /\ todo \in [Closers -> SUBSET (1..MaxServers)]
  /\ done \in BOOLEAN /\ ended \in {"no", "exited", "panicked"}

Init ==
  /\ clients = [l \in Langs |-> NoServer] /\ servers = <<>> /\ writer = NoOne
  /\ deaf = {}
  /\ pc = [p \in Procs |-> "idle"] /\ want = [p \in Procs |-> NoLang]
  /\ hold = [p \in Procs |-> {}]
  /\ cpc = [k \in Closers |-> "up"] /\ todo = [k \in Closers |-> {}]
  /\ done = FALSE /\ ended = "no"

Goto(p, to) == pc' = [pc EXCEPT ![p] = to]

(* Mutant: an entry without a server counts as one.                        *)
ActiveAll == {clients[l] : l \in Langs}

Active == {clients[l] : l \in Langs} \ {NoServer}

(***************************************************************************)
(* getOrStartClient.                                                       *)
(***************************************************************************)
FindConfig(l) ==
  IF l \in Configs THEN l ELSE IF Primary[l] \in Configs THEN Primary[l] ELSE NoLang

Given(p, s) ==
  /\ Goto(p, "using")
  /\ hold' = [hold EXCEPT ![p] = {s}]

Asks(p, l) ==
  /\ pc[p] = "idle" /\ writer = NoOne
  /\ \/ clients[l] # NoServer /\ Given(p, clients[l])
     \/ /\ clients[l] = NoServer /\ FindConfig(l) # NoLang
        /\ Goto(p, "miss") /\ UNCHANGED hold
  /\ want' = [want EXCEPT ![p] = l]
  /\ UNCHANGED <<table, closing, deaf>>

(* Under the write lock: it looks again, for the language and its group.   *)
FindsNow(p) ==
  LET l == want[p]
  IN  /\ pc[p] = "miss" /\ writer = NoOne
      /\ clients[l] # NoServer
      /\ Given(p, clients[l])
      /\ UNCHANGED <<table, want, closing, deaf>>

FindsGroup(p) ==
  LET l == want[p]
  IN  /\ pc[p] = "miss" /\ writer = NoOne
      /\ clients[l] = NoServer
      /\ Primary[l] # NoLang /\ clients[Primary[l]] # NoServer
      /\ clients' = [clients EXCEPT ![l] = clients[Primary[l]]]
      /\ Given(p, clients[Primary[l]])
      /\ UNCHANGED <<servers, writer, want, closing, deaf>>

(* Mutant: the server of the group is not looked for.                      *)
BeginsStartAlone(p) ==
  LET l == want[p]
  IN  /\ pc[p] = "miss" /\ writer = NoOne /\ Len(servers) < MaxServers
      /\ clients[l] = NoServer
      /\ servers' = Append(servers, [lang |-> FindConfig(l), st |-> "starting"])
      /\ writer' = p
      /\ Goto(p, "starting")
      /\ UNCHANGED <<clients, want, hold, closing, deaf>>

(* Mutant: it does not look again.                                         *)
BeginsStartUnchecked(p) ==
  /\ pc[p] = "miss" /\ writer = NoOne /\ Len(servers) < MaxServers
  /\ servers' = Append(servers, [lang |-> FindConfig(want[p]), st |-> "starting"])
  /\ writer' = p
  /\ Goto(p, "starting")
  /\ UNCHANGED <<clients, want, hold, closing, deaf>>

(* Mutant: the server is stored, and the lock given back, before it starts.*)
BeginsStartStored(p) ==
  LET l == want[p]
  IN  /\ pc[p] = "miss" /\ writer = NoOne /\ Len(servers) < MaxServers
      /\ clients[l] = NoServer
      /\ Primary[l] # NoLang => clients[Primary[l]] = NoServer
      /\ servers' = Append(servers, [lang |-> FindConfig(l), st |-> "starting"])
      /\ clients' = [clients EXCEPT ![l] = Len(servers) + 1]
      /\ Goto(p, "starting")
      /\ UNCHANGED <<writer, want, hold, closing, deaf>>

BeginsStart(p) ==
  LET l == want[p]
  IN  /\ pc[p] = "miss" /\ writer = NoOne /\ Len(servers) < MaxServers
      /\ clients[l] = NoServer
      /\ Primary[l] # NoLang => clients[Primary[l]] = NoServer
      /\ servers' = Append(servers, [lang |-> FindConfig(l), st |-> "starting"])
      /\ writer' = p
      /\ Goto(p, "starting")
      /\ UNCHANGED <<clients, want, hold, closing, deaf>>

(* The server that is being started is the last one made.                  *)
New == Len(servers)

Started(p) ==
  /\ pc[p] = "starting" /\ New \notin deaf
  /\ servers' = [servers EXCEPT ![New].st = "running"]
  /\ clients' = [clients EXCEPT ![servers[New].lang] = New, ![want[p]] = New]
  /\ writer' = NoOne
  /\ Given(p, New)
  /\ UNCHANGED <<want, closing, deaf>>

(* Mutant: the lock is not given back when the start fails.                *)
StartFailsLocked(p) ==
  /\ pc[p] = "starting"
  /\ servers' = [servers EXCEPT ![New].st = "failed"]
  /\ Goto(p, "idle") /\ want' = [want EXCEPT ![p] = NoLang]
  /\ UNCHANGED <<clients, hold, writer, closing, deaf>>

StartFails(p) ==
  /\ pc[p] = "starting"
  /\ servers' = [servers EXCEPT ![New].st = "failed"]
  /\ writer' = NoOne
  /\ Goto(p, "idle") /\ want' = [want EXCEPT ![p] = NoLang]
  /\ UNCHANGED <<clients, hold, closing, deaf>>

(***************************************************************************)
(* RestartServer takes the server of one language, and does nothing when   *)
(* the table has no entry for it; ActiveClients and DidChangeWatchedFiles  *)
(* take each server once.  All use them after the lock is given back.      *)
(***************************************************************************)
TakesForRestart(p, l) ==
  /\ pc[p] = "idle" /\ writer = NoOne /\ clients[l] # NoServer
  /\ Given(p, clients[l])
  /\ UNCHANGED <<want, table, closing, deaf>>

TakesActive(p) ==
  /\ pc[p] = "idle" /\ writer = NoOne /\ Active # {}
  /\ Goto(p, "using")
  /\ hold' = [hold EXCEPT ![p] = Active]
  /\ UNCHANGED <<want, table, closing, deaf>>

Uses(p) ==
  /\ pc[p] = "using"
  /\ \E s \in hold[p] :
       /\ hold' = [hold EXCEPT ![p] = @ \ {s}]
       /\ IF hold[p] = {s} THEN Goto(p, "idle") /\ want' = [want EXCEPT ![p] = NoLang]
          ELSE UNCHANGED <<pc, want>>
  /\ UNCHANGED <<table, closing, deaf>>

(***************************************************************************)
(* cleanup, called by the signal handler and by main when the server of    *)
(* MCP requests ends with an error.                                        *)
(***************************************************************************)
At(k, from, to) == cpc[k] = from /\ cpc' = [cpc EXCEPT ![k] = to]

SignalOrParentDeath ==
  /\ At("handler", "up", "lock")
  /\ UNCHANGED <<table, local, deaf, todo, done, ended>>

ServeEnds ==
  /\ \/ At("main", "up", "lock")    \* with an error
     \/ At("main", "up", "await")   \* at the end of the input
  /\ UNCHANGED <<table, local, deaf, todo, done, ended>>

CloseLocks(k) ==
  /\ At(k, "lock", "close") /\ writer = NoOne
  /\ writer' = k
  /\ todo' = [todo EXCEPT ![k] = Active]
  /\ UNCHANGED <<clients, servers, local, deaf, done, ended>>

CloseOne(k) ==
  /\ cpc[k] = "close"
  /\ \E s \in todo[k] \ deaf :
       /\ servers' = [servers EXCEPT ![s].st = "closed"]
       /\ todo' = [todo EXCEPT ![k] = @ \ {s}]
  /\ UNCHANGED <<clients, writer, local, deaf, cpc, done, ended>>

(* One that does not leave is killed, and killer and Close close the same  *)
(* channel (client.go:334, 348); or the didClose before that never returns,*)
(* and the cleanup stays here.                                             *)
ClosePanics(k) ==
  /\ cpc[k] = "close" /\ todo[k] \cap deaf # {}
  /\ ended' = "panicked"
  /\ UNCHANGED <<table, local, deaf, cpc, todo, done>>

CloseUnlocks(k) ==
  /\ At(k, "close", "check") /\ todo[k] = {}
  /\ clients' = [l \in Langs |-> NoServer]
  /\ writer' = NoOne
  /\ UNCHANGED <<servers, local, deaf, todo, done, ended>>

ChecksDone(k) ==
  /\ At(k, "check", IF done THEN "end" ELSE "closeDone")
  /\ UNCHANGED <<table, local, deaf, todo, done, ended>>

(* close panics when the other cleanup has closed the channel meanwhile.   *)
ClosesDone(k) ==
  /\ At(k, "closeDone", "end")
  /\ done' = TRUE
  /\ ended' = IF done THEN "panicked" ELSE ended
  /\ UNCHANGED <<table, local, deaf, todo>>

Exits ==
  /\ cpc["main"] = "end" \/ (cpc["main"] = "await" /\ done)
  /\ ended' = "exited"
  /\ UNCHANGED <<table, local, deaf, cpc, todo, done>>

(* The process of a server stops to answer and to read.                    *)
Hangs(s) ==
  /\ servers[s].st \in {"starting", "running"} /\ s \notin deaf
  /\ deaf' = deaf \cup {s}
  /\ UNCHANGED <<table, local, closing>>

CloseStep(k) ==
  \/ CloseLocks(k) \/ CloseOne(k) \/ ClosePanics(k) \/ CloseUnlocks(k)
  \/ ChecksDone(k) \/ ClosesDone(k)

ProcStep(p) ==
  \/ FindsNow(p) \/ FindsGroup(p) \/ BeginsStart(p) \/ Started(p) \/ StartFails(p)
  \/ Uses(p)

ProcBegins(p) ==
  \/ TakesActive(p)
  \/ \E l \in Langs : Asks(p, l) \/ TakesForRestart(p, l)

Next ==
  /\ ended = "no"
  /\ \/ \E p \in Procs : ProcBegins(p) \/ ProcStep(p)
     \/ \E k \in Closers : CloseStep(k)
     \/ \E s \in DOMAIN servers : Hangs(s)
     \/ SignalOrParentDeath \/ ServeEnds \/ Exits

Spec == Init /\ [][Next]_vars

(* A goroutine that waits for the mutex gets it (it is handed over to one  *)
(* that has waited for long), a server that has not hung answers           *)
(* initialize, shutdown and exit, or fails, and serving ends after a       *)
(* signal.  Nothing is assumed of a server that has hung: initialize and   *)
(* the writes of Close have no timeout.                                    *)
FairSpec ==
  /\ Spec
  /\ \A p \in Procs : WF_vars(ended = "no" /\ New \notin deaf /\ (Started(p) \/ StartFails(p)))
  /\ \A k \in Closers : SF_vars(ended = "no" /\ todo[k] \cap deaf = {} /\ CloseStep(k))
  /\ WF_vars(ended = "no" /\ cpc["handler"] # "up" /\ ServeEnds) /\ WF_vars(ended = "no" /\ Exits)

(***************************************************************************)
(* Properties.                                                             *)
(***************************************************************************)
(* A server that was started and not stopped is in the table, where Close  *)
(* finds it: no two goroutines start a server for one entry, and no entry  *)
(* is overwritten (router.go:83-110, 168-196).                             *)
NoServerLost ==
  \A s \in DOMAIN servers : servers[s].st = "running" => s \in Active

(* The languages of a group have one server, whichever is asked for first, *)
(* unless both are configured (router.go:92-110).                          *)
AliasesAgree ==
  \A l \in Langs :
    Primary[l] # NoLang /\ {l, Primary[l]} \cap Configs # {l, Primary[l]}
      /\ clients[l] # NoServer /\ clients[Primary[l]] # NoServer
    => clients[l] = clients[Primary[l]]

(* Nobody is given a server before its Start has returned, or one of       *)
(* another group (router.go:67-116).                                       *)
HasStarted(s) == s \in DOMAIN servers /\ servers[s].st \in {"running", "closed"}

HandedOutStarted ==
  \A p \in Procs : \A s \in hold[p] :
    HasStarted(s) /\ (want[p] # NoLang => servers[s].lang \in {want[p], Primary[want[p]]})

(* After a signal the process ends, although requests hold the lock while  *)
(* they start servers and both cleanups may run (main.go:290-333), unless  *)
(* the holder of the lock waits for a server that has hung: for the answer *)
(* to initialize (router.go:104), or in the Close of its client.           *)
LockStuck ==
  \/ writer \in Procs /\ New \in deaf
  \/ \E k \in Closers : cpc[k] = "close" /\ todo[k] \cap deaf # {}
ShutdownEnds == cpc["handler"] # "up" ~> ended # "no" \/ LockStuck

(***************************************************************************)
(* The inductive invariant behind the safety properties.                   *)
(***************************************************************************)
(* Who starts a server or closes them holds the lock.                      *)
LockHeld ==
  /\ \A p \in Procs : pc[p] = "starting" <=> writer = p
  /\ \A k \in Closers : cpc[k] = "close" <=> writer = k

(* A goroutine past the fast path has a configuration to start, and only   *)
(* one that has been given servers holds any.                              *)
HasConfig ==
  \A p \in Procs :
    /\ pc[p] \in {"miss", "starting"} => want[p] # NoLang /\ FindConfig(want[p]) # NoLang
    /\ pc[p] = "idle" => want[p] = NoLang
    /\ pc[p] # "using" => hold[p] = {}

(* The server that is being started is the last one, and neither its       *)
(* language nor the one that was asked for has an entry.                   *)
StartsAlone ==
  /\ \A s \in DOMAIN servers : servers[s].st = "starting" => s = New /\ writer \in Procs
  /\ writer \in Procs =>
       /\ New # 0 /\ servers[New] = [lang |-> FindConfig(want[writer]), st |-> "starting"]
       /\ clients[want[writer]] = NoServer /\ clients[servers[New].lang] = NoServer

(* An entry is for a server that has started, of the language or its group,*)
(* and the language that is configured has the same entry.                 *)
EntriesFollow ==
  \A l \in Langs : clients[l] # NoServer =>
    /\ HasStarted(clients[l])
    /\ servers[clients[l]].lang \in {l, Primary[l]}
    /\ clients[servers[clients[l]].lang] = clients[l]

(* Close has closed the servers of the table, or has still to do so.       *)
CloseCovers ==
  \A k \in Closers :
    /\ todo[k] \subseteq DOMAIN servers
    /\ writer = k => \A s \in Active : s \in todo[k] \/ servers[s].st = "closed"

IInv ==
  /\ TypeOK /\ LockHeld /\ HasConfig /\ StartsAlone /\ EntriesFollow /\ CloseCovers
  /\ NoServerLost /\ HandedOutStarted
==============================================================================
