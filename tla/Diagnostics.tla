----------------------------- MODULE Diagnostics -----------------------------
(***************************************************************************)
(* The diagnostics of one document.  The server publishes them when it     *)
(* likes; the reader goroutine starts one goroutine per notification       *)
(* (transport.go:175), so two publications may be handled in the other     *)
(* order.  A handler rotates the cache and then signals a channel.  A tool *)
(* handler (syncAndFetchDiagnostics) brings the server the text on disk,   *)
(* waits on the channel of the document for a bounded time and reads the   *)
(* cache; a change replaces the channel before it is sent.  The debounce   *)
(* timers of the watcher send changes of their own.                        *)
(*                                                                         *)
(* A text is its revision, the diagnostics of a text are the revision they *)
(* were computed for, and a channel is the number of its creation.         *)
(***************************************************************************)
EXTENDS Integers, Sequences, FiniteSets

CONSTANTS Checkers, Timers,     \* goroutines: tool handlers and watcher timers
          MaxRev,               \* bound on the revisions of the file
          MaxPubs,              \* bound on the publications of the server
          MaxChans              \* bound on the channels created

ASSUME DiagnosticsAssumption ==
  /\ MaxRev \in Nat \ {0} /\ MaxPubs \in Nat /\ MaxChans \in Nat
  /\ Checkers \cap Timers = {}

VARIABLES
  disk,      \* the revision on disk
  known,     \* openFiles: the revision whose hash is stored, 0 when not open
  toServer,  \* didOpen and didChange on their way to the server
  have,      \* the revision the server has, 0 before didOpen
  owed,      \* the server has not finished publishing for that revision
  pubs,      \* every publication and how far its handling is
  current,   \* diagnostics[uri]: the revision of the cached publication
  previous,  \* previousDiagnostics[uri]
  ready,     \* diagnosticReady[uri], 0 when absent
  chans,     \* the channels created so far
  tokens,    \* the channels whose buffer is full
  pc,        \* what each goroutine is about to do
  rev,       \* the revision it has read
  chan,      \* the channel it waits on
  after,     \* where it goes on after NotifyChange
  woken,     \* its wait was ended by a signal
  changed,   \* its sync has sent the text
  clean      \* history: nothing older was under way when it changed the document

fileVars == <<disk, known>>
publisherVars == <<toServer, have, owed>>
cacheVars == <<current, previous>>
chanVars == <<ready, chans, tokens>>
actorVars == <<rev, chan, after, woken, changed, clean>>
DiagnosticsVars == <<fileVars, publisherVars, pubs, cacheVars, chanVars, pc, actorVars>>

Actors == Checkers \cup Timers
Revs == 0..MaxRev
Stages == {"sent", "spawned", "rotated", "handled"}
Labels == {"idle", "sync", "store", "reset", "send", "lookup", "waiting", "fetch"}

DiagnosticsTypeOK ==
  /\ disk \in Revs \ {0} /\ known \in Revs
  /\ toServer \in Seq(Revs) /\ have \in Revs /\ owed \in BOOLEAN
  /\ pubs \in Seq([rev : Revs, stage : Stages]) /\ Len(pubs) <= MaxPubs
  /\ current \in Revs /\ previous \in Revs
  /\ chans \in 0..MaxChans /\ ready \in 0..chans /\ tokens \subseteq 1..chans
  /\ pc \in [Actors -> Labels] /\ rev \in [Actors -> Revs]
  /\ chan \in [Actors -> 0..chans]
  /\ after \in [Actors -> {"idle", "sync", "lookup"}]
  /\ woken \in [Actors -> BOOLEAN] /\ changed \in [Actors -> BOOLEAN]
  /\ clean \in [Actors -> BOOLEAN]

DiagnosticsInit ==
  /\ disk = 1 /\ known = 0
  /\ toServer = <<>> /\ have = 0 /\ owed = FALSE
  /\ pubs = <<>> /\ current = 0 /\ previous = 0
  /\ ready = 0 /\ chans = 0 /\ tokens = {}
  /\ pc = [a \in Actors |-> "idle"]
  /\ rev = [a \in Actors |-> 0] /\ chan = [a \in Actors |-> 0]
  /\ after = [a \in Actors |-> "idle"]
  /\ woken = [a \in Actors |-> FALSE] /\ changed = [a \in Actors |-> FALSE]
  /\ clean = [a \in Actors |-> FALSE]

At(a, l) == pc[a] = l
Goto(a, l) == pc' = [pc EXCEPT ![a] = l]

(* The server has published for everything it was sent, and every          *)
(* publication has been handled.                                           *)
Settled ==
  /\ toServer = <<>> /\ ~owed
  /\ \A i \in DOMAIN pubs : pubs[i].stage = "handled"

Changing(a) == pc[a] \in {"store", "reset", "send"}
NobodyChanges == \A a \in Actors : ~Changing(a)
NothingUnderWay(a) == Settled /\ \A b \in Actors \ {a} : ~Changing(b)

(***************************************************************************)
(* The server and the reader.                                              *)
(***************************************************************************)

ServerReceives ==
  /\ toServer # <<>>
  /\ have' = Head(toServer) /\ owed' = TRUE
  /\ toServer' = Tail(toServer)
  /\ UNCHANGED <<fileVars, pubs, cacheVars, chanVars, pc, actorVars>>

(* Diagnostics of one text may come in instalments.                        *)
ServerPublishes ==
  /\ owed /\ Len(pubs) < MaxPubs
  /\ pubs' = Append(pubs, [rev |-> have, stage |-> "sent"])
  /\ owed' \in {TRUE, FALSE}
  /\ UNCHANGED <<fileVars, toServer, have, cacheVars, chanVars, pc, actorVars>>

(* handleMessages: go handler(msg.Params), in the order of the pipe.       *)
ReadNotification ==
  /\ \E i \in DOMAIN pubs :
       /\ pubs[i].stage = "sent"
       /\ \A j \in 1..(i - 1) : pubs[j].stage # "sent"
       /\ pubs' = [pubs EXCEPT ![i].stage = "spawned"]
  /\ UNCHANGED <<fileVars, publisherVars, cacheVars, chanVars, pc, actorVars>>

(* Seeded fault: the cache is overwritten before it is rotated.            *)
RotateTooLate(i) ==
  /\ pubs[i].stage = "spawned"
  /\ previous' = pubs[i].rev /\ current' = pubs[i].rev
  /\ pubs' = [pubs EXCEPT ![i].stage = "rotated"]
  /\ UNCHANGED <<fileVars, publisherVars, chanVars, pc, actorVars>>

(* HandleDiagnostics: rotate and save under diagnosticsMu ...              *)
Rotate(i) ==
  /\ pubs[i].stage = "spawned"
  /\ previous' = current /\ current' = pubs[i].rev
  /\ pubs' = [pubs EXCEPT ![i].stage = "rotated"]
  /\ UNCHANGED <<fileVars, publisherVars, chanVars, pc, actorVars>>

(* ... then SignalDiagnostics, a send that never blocks.                   *)
Signal(i) ==
  /\ pubs[i].stage = "rotated"
  /\ IF ready # 0
     THEN /\ tokens' = tokens \cup {ready}
          /\ UNCHANGED <<ready, chans>>
     ELSE /\ chans < MaxChans
          /\ chans' = chans + 1 /\ ready' = chans + 1
          /\ tokens' = tokens \cup {chans + 1}
  /\ pubs' = [pubs EXCEPT ![i].stage = "handled"]
  /\ UNCHANGED <<fileVars, publisherVars, cacheVars, pc, actorVars>>

(* Seeded fault: the signal is given before the cache is filled.           *)
HandleSignalFirst(i) ==
  \/ /\ pubs[i].stage = "spawned" /\ ready # 0
     /\ tokens' = tokens \cup {ready}
     /\ pubs' = [pubs EXCEPT ![i].stage = "rotated"]
     /\ UNCHANGED <<fileVars, publisherVars, cacheVars, ready, chans, pc, actorVars>>
  \/ /\ pubs[i].stage = "rotated"
     /\ previous' = current /\ current' = pubs[i].rev
     /\ pubs' = [pubs EXCEPT ![i].stage = "handled"]
     /\ UNCHANGED <<fileVars, publisherVars, chanVars, pc, actorVars>>

HandleDiagnostics(i) == Rotate(i) \/ Signal(i)

(***************************************************************************)
(* NotifyChange, by whoever calls it.                                      *)
(***************************************************************************)

(* The text is read, and next says where the caller goes on.               *)
BeginChange(a, next) ==
  /\ after' = [after EXCEPT ![a] = next]
  /\ Goto(a, "store")

ChangeStore(a) ==
  /\ At(a, "store")
  /\ known' = rev[a]
  /\ Goto(a, "reset")
  /\ UNCHANGED <<disk, publisherVars, pubs, cacheVars, chanVars, actorVars>>

NewChannel ==
  /\ chans < MaxChans
  /\ chans' = chans + 1 /\ ready' = chans + 1

(* The channel is replaced before didChange is sent.                       *)
ChangeReset(a) ==
  /\ At(a, "reset")
  /\ NewChannel
  /\ clean' = [clean EXCEPT ![a] = NothingUnderWay(a)]
  /\ Goto(a, "send")
  /\ UNCHANGED <<fileVars, publisherVars, pubs, cacheVars, tokens, rev, chan, woken, changed, after>>

ChangeSend(a) ==
  /\ At(a, "send")
  /\ toServer' = Append(toServer, rev[a])
  /\ changed' = [changed EXCEPT ![a] = TRUE]
  /\ Goto(a, after[a])
  /\ UNCHANGED <<fileVars, have, owed, pubs, cacheVars, chanVars, rev, chan, woken, clean, after>>

(* Seeded fault: the channel is replaced after didChange is sent.          *)
ChangeSendsFirst(a) ==
  \/ ChangeStore(a)
  \/ /\ At(a, "reset")
     /\ toServer' = Append(toServer, rev[a])
     /\ clean' = [clean EXCEPT ![a] = NothingUnderWay(a)]
     /\ Goto(a, "send")
     /\ UNCHANGED <<fileVars, have, owed, pubs, cacheVars, chanVars, rev, chan, woken, changed, after>>
  \/ /\ At(a, "send")
     /\ NewChannel
     /\ changed' = [changed EXCEPT ![a] = TRUE]
     /\ Goto(a, after[a])
     /\ UNCHANGED <<fileVars, publisherVars, pubs, cacheVars, tokens, rev, chan, woken, clean, after>>

NotifyChange(a) == ChangeStore(a) \/ ChangeReset(a) \/ ChangeSend(a)

(* handleFileEvent: the debounced event of an open file.                   *)
TimerFires(a) ==
  /\ At(a, "idle") /\ known # 0
  /\ rev' = [rev EXCEPT ![a] = disk]
  /\ BeginChange(a, "idle")
  /\ UNCHANGED <<fileVars, publisherVars, pubs, cacheVars, chanVars, chan, woken, changed, clean>>

(***************************************************************************)
(* A tool handler: an edit followed by a check, or a check.                *)
(***************************************************************************)

(* ApplyTextEdits writes the file, notifies and lets the caller check.     *)
Edit(a) ==
  /\ At(a, "idle") /\ known # 0 /\ disk < MaxRev
  /\ disk' = disk + 1
  /\ rev' = [rev EXCEPT ![a] = disk + 1]
  /\ BeginChange(a, "sync")
  /\ UNCHANGED <<known, publisherVars, pubs, cacheVars, chanVars, chan, woken, changed, clean>>

Check(a) ==
  /\ At(a, "idle")
  /\ Goto(a, "sync")
  /\ UNCHANGED <<fileVars, publisherVars, pubs, cacheVars, chanVars, actorVars>>

(* SyncFileFromDisk opens the file, finds it in step, or changes it.       *)
SyncOpens(a) ==
  /\ At(a, "sync") /\ known = 0
  /\ known' = disk /\ toServer' = Append(toServer, disk)
  /\ rev' = [rev EXCEPT ![a] = disk]
  /\ changed' = [changed EXCEPT ![a] = TRUE]
  /\ clean' = [clean EXCEPT ![a] = NothingUnderWay(a)]
  /\ Goto(a, "lookup")
  /\ UNCHANGED <<disk, have, owed, pubs, cacheVars, chanVars, chan, woken, after>>

SyncInStep(a) ==
  /\ At(a, "sync") /\ known = disk
  /\ Goto(a, "lookup")
  /\ UNCHANGED <<fileVars, publisherVars, pubs, cacheVars, chanVars, actorVars>>

SyncChanges(a) ==
  /\ At(a, "sync") /\ known \notin {0, disk}
  /\ rev' = [rev EXCEPT ![a] = disk]
  /\ BeginChange(a, "lookup")
  /\ UNCHANGED <<fileVars, publisherVars, pubs, cacheVars, chanVars, chan, woken, changed, clean>>

(* WaitForDiagnostics takes the channel of the document, or makes it ...   *)
WaitLookup(a) ==
  /\ At(a, "lookup")
  /\ IF ready # 0 THEN UNCHANGED <<ready, chans>> ELSE NewChannel
  /\ chan' = [chan EXCEPT ![a] = ready']
  /\ Goto(a, "waiting")
  /\ UNCHANGED <<fileVars, publisherVars, pubs, cacheVars, tokens, rev, woken, changed, clean, after>>

(* ... and waits for its signal or for the timeout.                        *)
WaitSignalled(a) ==
  /\ At(a, "waiting") /\ chan[a] \in tokens
  /\ tokens' = tokens \ {chan[a]}
  /\ woken' = [woken EXCEPT ![a] = TRUE]
  /\ Goto(a, "fetch")
  /\ UNCHANGED <<fileVars, publisherVars, pubs, cacheVars, ready, chans, rev, chan, changed, clean, after>>

WaitTimesOut(a) ==
  /\ At(a, "waiting")
  /\ Goto(a, "fetch")
  /\ UNCHANGED <<fileVars, publisherVars, pubs, cacheVars, chanVars, actorVars>>

WaitForDiagnostics(a) == WaitLookup(a) \/ WaitSignalled(a) \/ WaitTimesOut(a)

(* GetFileDiagnostics reads the cache and the handler is done.             *)
Fetch(a) ==
  /\ At(a, "fetch")
  /\ Goto(a, "idle")
  /\ rev' = [rev EXCEPT ![a] = 0] /\ chan' = [chan EXCEPT ![a] = 0]
  /\ woken' = [woken EXCEPT ![a] = FALSE] /\ changed' = [changed EXCEPT ![a] = FALSE]
  /\ clean' = [clean EXCEPT ![a] = FALSE]
  /\ UNCHANGED <<fileVars, publisherVars, pubs, cacheVars, chanVars, after>>

(* Somebody else writes the file.                                          *)
WriteDisk ==
  /\ disk < MaxRev
  /\ disk' = disk + 1
  /\ UNCHANGED <<known, publisherVars, pubs, cacheVars, chanVars, pc, actorVars>>

ServerStep == ServerReceives \/ ServerPublishes
CheckerStep(a) ==
  \/ Edit(a) \/ Check(a)
  \/ SyncOpens(a) \/ SyncInStep(a) \/ SyncChanges(a)
  \/ WaitForDiagnostics(a) \/ Fetch(a)

DiagnosticsNext ==
  \/ WriteDisk \/ ServerStep \/ ReadNotification
  \/ \E i \in DOMAIN pubs : HandleDiagnostics(i)
  \/ \E a \in Actors : NotifyChange(a)
  \/ \E a \in Timers : TimerFires(a)
  \/ \E a \in Checkers : CheckerStep(a)

DiagnosticsSpec == DiagnosticsInit /\ [][DiagnosticsNext]_DiagnosticsVars

(***************************************************************************)
(* Properties.                                                             *)
(***************************************************************************)

(* A check that changed the document and was woken by a signal reads       *)
(* diagnostics of its text or of a newer one, provided nothing older was   *)
(* under way when it replaced the channel (comment at client.go:482-484).  *)
FreshWhenWoken ==
  \A a \in Checkers :
    At(a, "fetch") /\ woken[a] /\ changed[a] /\ clean[a] => current >= rev[a]

(* A handler that waits for its change on the channel of the document is   *)
(* not left to its timeout once everything has been handled: the signal    *)
(* of no publication is lost between client.go:491, 493 and 584.           *)
NoLostWakeup ==
  \A a \in Checkers :
    At(a, "waiting") /\ changed[a] /\ chan[a] = ready /\ Settled /\ NobodyChanges
      => chan[a] \in tokens

(* The diff of such a check starts from the diagnostics of an older text,  *)
(* unless the server has published more than once for the new one          *)
(* (GetDiagnosticDiff compares the cache with what it replaced).           *)
DiffStartsBefore ==
  \A a \in Checkers :
    /\ At(a, "fetch") /\ woken[a] /\ changed[a] /\ clean[a]
    /\ Cardinality({i \in DOMAIN pubs : pubs[i].rev >= rev[a] /\ pubs[i].stage \in {"rotated", "handled"}}) = 1
    => previous < rev[a]
==============================================================================
