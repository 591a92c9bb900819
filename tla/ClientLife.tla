------------------------------ MODULE ClientLife ------------------------------
(***************************************************************************)
(* The life of one Client (internal/lsp/client.go): its server is started, *)
(* initialized, and at last closed.                                        *)
(*                                                                         *)
(* The creator runs NewClient and InitializeLSPClient.  The reader, which  *)
(* NewClient starts, takes what the server writes: it answers the server's *)
(* requests itself and starts a goroutine for each notification -- if a    *)
(* handler is registered by then, and the creator registers the handlers   *)
(* while the server already talks.  Close runs with a second goroutine,    *)
(* the killer, that kills a server which does not exit in time.            *)
(*                                                                         *)
(* The two pipes hold a bounded number of messages: a write to a full one  *)
(* waits.  The server may hang (it then neither reads nor writes), exit at *)
(* any time, and write something that is not a message.  What documents    *)
(* and diagnostics do is in DocumentSync and Diagnostics, who calls Close  *)
(* in RestartableClient, calls and frames in Rpc and Wire.                 *)
(***************************************************************************)
EXTENDS Naturals, Sequences

CONSTANTS
  Tokens,     \* the work-done progresses the server may report
  Asked,      \* the methods of its other requests
  Noted,      \* the methods of its other notifications
  NumFiles,   \* the files opened: by initializeTypescriptLanguageServer, or by tools since
  InRoom,     \* bound on the messages in the server's stdin
  OutRoom,    \* bound on the messages in the server's stdout
  MaxSent     \* bound on what the server writes, apart from its answer to initialize

ASSUME MethodsAssumption ==
  /\ Asked \subseteq {"applyEdit", "configuration", "registerCapability"}
  /\ Noted \subseteq {"publishDiagnostics", "showMessage"}
ASSUME RoomAssumption == InRoom \in Nat \ {0} /\ OutRoom \in Nat \ {0}
ASSUME BoundsAssumption == NumFiles \in Nat /\ MaxSent \in Nat

(* The methods in the order InitializeLSPClient registers them.            *)
Registrations ==
  << "applyEdit", "configuration", "registerCapability", "showMessage",
     "publishDiagnostics", "create", "progress" >>

(* The server's messages: its requests, its notifications, its answer, and *)
(* what cannot be parsed as a message.                                     *)
Contents ==
  [what : Asked \cup Noted] \cup [what : {"create", "begin", "end"}, token : Tokens]
Answer == [what |-> "initialize"]
Garbage == [what |-> "garbage"]

(* What lies in the two pipes.                                             *)
Written == {"initialize", "initialized", "again", "open", "close", "reply"}
Framed == [body : Contents \cup {Answer, Garbage}, after : 0..3]

IsReport(m) == m.what \in {"begin", "end"}
IsRequest(m) == m.what \in Asked \cup {"create"}
MethodOf(m) == IF IsReport(m) THEN "progress" ELSE m.what

VARIABLES
  creator,     \* where NewClient and InitializeLSPClient are
  registered,  \* how many of the Registrations are made
  opened,      \* the number of open files
  proc,        \* the server's process: "none", "running" or "exited"
  server,      \* "serving", "writing" to a full pipe, or "hung"
  heard,       \* it has read: 1 initialize, 2 the first "initialized", 3 the second
  inPipe,      \* its stdin: what it has not read yet
  stdinOpen,   \* Client.stdin is not closed
  outPipe,     \* its stdout: messages, each with what the server had heard by then
  sent,        \* how many messages it has written
  progress,    \* the server's own view of each progress
  reader,      \* handleMessages: "read", "reply", or "gone"
  done,        \* Client.done is closed
  handling,    \* the goroutines of HandleProgress that have not run yet
  active,      \* Client.activeProgress: "absent", "done" or "active"
  lost,        \* history: the messages that found no handler
  overtaken,   \* history: progresses whose notifications ran out of order
  closer,      \* where Close is
  killer,      \* the goroutine Close starts
  closes,      \* how often forcedKill has been closed
  panicked     \* the program has crashed: forcedKill closed twice

creatorVars == <<creator, registered>>
serverVars == <<server, heard, sent, progress>>
readerVars == <<reader, done, handling, active, lost, overtaken>>
closeVars == <<closer, killer, closes, panicked>>
vars == <<creatorVars, opened, proc, serverVars, inPipe, stdinOpen, outPipe, readerVars, closeVars>>

TypeOK ==
  /\ creator \in {"idle", "call", "wait", "notify", "register", "again", "files", "ready", "failed"}
  /\ registered \in 0..Len(Registrations)
  /\ opened \in 0..NumFiles
  /\ proc \in {"none", "running", "exited"} /\ server \in {"serving", "writing", "hung"}
  /\ heard \in 0..3
  /\ inPipe \in Seq(Written)
  /\ stdinOpen \in BOOLEAN
  /\ outPipe \in Seq(Framed)
  /\ sent \in 0..MaxSent
  /\ progress \in [Tokens -> {"none", "begun", "ended"}]
  /\ reader \in {"read", "reply", "gone"} /\ done \in BOOLEAN
  /\ handling \subseteq [what : {"begin", "end"}, token : Tokens]
  /\ active \in [Tokens -> {"absent", "done", "active"}]
  /\ lost \subseteq [body : Contents, after : 0..3]
  /\ overtaken \subseteq Tokens
  /\ closer \in {"idle", "files", "armed", "wait", "stop", "closed"}
  /\ killer \in {"none", "sleeping", "fired", "killed", "ended"}
  /\ closes \in 0..1 /\ panicked \in BOOLEAN

Init ==
  /\ creator = "idle" /\ registered = 0 /\ opened = 0
  /\ proc = "none" /\ server = "serving" /\ heard = 0
  /\ inPipe = <<>> /\ stdinOpen = TRUE /\ outPipe = <<>> /\ sent = 0
  /\ progress = [t \in Tokens |-> "none"]
  /\ reader = "read" /\ done = FALSE
  /\ handling = {} /\ active = [t \in Tokens |-> "absent"]
  /\ lost = {} /\ overtaken = {}
  /\ closer = "idle" /\ killer = "none" /\ closes = 0 /\ panicked = FALSE

-----------------------------------------------------------------------------
(* Writing to the server's stdin: it succeeds, fails, or waits.            *)

CanWrite == proc = "running" /\ stdinOpen /\ Len(inPipe) < InRoom
WriteFails == proc # "running" \/ ~stdinOpen

Write(m) == CanWrite /\ inPipe' = Append(inPipe, m)

(* Notify looks at done first, and does not write to a dead server.        *)
NotifySent(m) == ~done /\ Write(m)
NotifyFails == (done \/ WriteFails) /\ inPipe' = inPipe

-----------------------------------------------------------------------------
(* The creator.                                                            *)

NewClient ==
  /\ creator = "idle"
  /\ \/ proc' = "running" /\ creator' = "call"
     \/ proc' = proc /\ creator' = "failed"        \* cmd.Start fails
  /\ UNCHANGED <<registered, opened, serverVars, inPipe, stdinOpen, outPipe, readerVars, closeVars>>

(* The request goes out and the creator waits, for the answer, for the end *)
(* of the connection, or for the end of its context.                       *)
CallInitialize ==
  /\ creator = "call"
  /\ \/ Write("initialize") /\ creator' = "wait"
     \/ WriteFails /\ creator' = "failed" /\ UNCHANGED inPipe
  /\ UNCHANGED <<registered, opened, proc, serverVars, stdinOpen, outPipe, readerVars, closeVars>>

InitializeFails ==
  /\ creator = "wait"        \* the connection has ended, or the context
  /\ creator' = "failed"
  /\ UNCHANGED <<registered, opened, proc, serverVars, inPipe, stdinOpen, outPipe, readerVars, closeVars>>

NotifyInitialized ==
  /\ creator = "notify"
  /\ \/ NotifySent("initialized") /\ creator' = "register"
     \/ NotifyFails /\ creator' = "failed"
  /\ UNCHANGED <<registered, opened, proc, serverVars, stdinOpen, outPipe, readerVars, closeVars>>

(* RegisterServerRequestHandler, RegisterNotificationHandler: each takes   *)
(* the lock of its map, and the reader looks handlers up in between.       *)
RegisterHandler ==
  /\ creator = "register" /\ registered < Len(Registrations)
  /\ registered' = registered + 1
  /\ UNCHANGED <<creator, opened, proc, serverVars, inPipe, stdinOpen, outPipe, readerVars, closeVars>>

(* Seeded fault: the server is notified while handlers are still missing.  *)
NotifyAgainEarly ==
  /\ creator = "register"
  /\ \/ NotifySent("again") /\ creator' = "files" /\ registered' = registered
     \/ NotifyFails /\ creator' = "failed" /\ registered' = registered
  /\ UNCHANGED <<opened, proc, serverVars, stdinOpen, outPipe, readerVars, closeVars>>

(* Client.Initialized: the same notification again ("again" here), now     *)
(* that the handlers are there.                                            *)
NotifyAgain ==
  /\ creator = "register" /\ registered = Len(Registrations)
  /\ \/ NotifySent("again") /\ creator' = "files"
     \/ NotifyFails /\ creator' = "failed"
  /\ UNCHANGED <<registered, opened, proc, serverVars, stdinOpen, outPipe, readerVars, closeVars>>

(* Files are opened one by one: here by the walk over the workspace of a   *)
(* TypeScript server, and a file that cannot be opened is skipped.         *)
OpenFile ==
  /\ creator = "files" /\ opened < NumFiles /\ NotifySent("open")
  /\ opened' = opened + 1
  /\ UNCHANGED <<creatorVars, proc, serverVars, stdinOpen, outPipe, readerVars, closeVars>>

(* Another server opens none, and the walk ends early when it meets an     *)
(* entry it cannot read.                                                   *)
FinishInitialize ==
  /\ creator = "files"
  /\ creator' \in {"ready", "failed"}
  /\ UNCHANGED <<registered, opened, proc, serverVars, inPipe, stdinOpen, outPipe, readerVars, closeVars>>

Create ==
  \/ NewClient \/ CallInitialize \/ InitializeFails \/ NotifyInitialized
  \/ RegisterHandler \/ NotifyAgain \/ OpenFile \/ FinishInitialize

-----------------------------------------------------------------------------
(* The server, of which the code fixes nothing but the protocol: it writes *)
(* nothing before it has answered initialize.  It has one thread: while it *)
(* waits to write, it does not read.                                       *)

ServerReads ==
  /\ proc = "running" /\ server = "serving" /\ inPipe # <<>>
  /\ inPipe' = Tail(inPipe)
  /\ heard' = CASE Head(inPipe) = "initialize" -> 1
                [] Head(inPipe) = "initialized" -> 2
                [] Head(inPipe) = "again" -> 3
                [] OTHER -> heard
  /\ outPipe' = IF Head(inPipe) = "initialize"
                 THEN Append(outPipe, [body |-> Answer, after |-> 1]) ELSE outPipe
  /\ UNCHANGED <<creatorVars, opened, proc, server, sent, progress, stdinOpen, readerVars, closeVars>>

Expected(m) ==
  /\ m.what \in {"create", "begin"} => progress[m.token] = "none"
  /\ m.what = "end" => progress[m.token] = "begun"

ServerWrites ==
  /\ proc = "running" /\ server # "hung" /\ heard > 0
  /\ Len(outPipe) < OutRoom /\ sent < MaxSent
  /\ \E m \in Contents \cup {Garbage} :
       /\ Expected(m)
       /\ outPipe' = Append(outPipe, [body |-> m, after |-> heard])
       /\ progress' = IF ~IsReport(m) THEN progress
                      ELSE [progress EXCEPT ![m.token] = IF m.what = "begin" THEN "begun" ELSE "ended"]
  /\ sent' = sent + 1 /\ server' = "serving"
  /\ UNCHANGED <<creatorVars, opened, proc, heard, inPipe, stdinOpen, readerVars, closeVars>>

ServerWaits ==
  /\ proc = "running" /\ server = "serving" /\ heard > 0
  /\ Len(outPipe) >= OutRoom /\ sent < MaxSent
  /\ server' = "writing"
  /\ UNCHANGED <<creatorVars, opened, proc, heard, sent, progress, inPipe, stdinOpen, outPipe, readerVars, closeVars>>

ServerHangs ==
  /\ proc = "running" /\ server # "hung"
  /\ server' = "hung"
  /\ UNCHANGED <<creatorVars, opened, proc, heard, sent, progress, inPipe, stdinOpen, outPipe, readerVars, closeVars>>

ServerExits ==
  /\ proc = "running"
  /\ proc' = "exited"
  /\ UNCHANGED <<creatorVars, opened, serverVars, inPipe, stdinOpen, outPipe, readerVars, closeVars>>

Server == ServerReads \/ ServerWrites \/ ServerWaits \/ ServerHangs \/ ServerExits

-----------------------------------------------------------------------------
(* The reader: handleMessages.                                             *)

HasHandler(m) == \E i \in 1..registered : Registrations[i] = MethodOf(m)

(* HandleWorkDoneProgressCreate runs in the reader; the handlers of the    *)
(* other requests are in Watcher and EditTools.                            *)
ReadRequest(m) ==
  /\ IsRequest(m)
  /\ reader' = "reply"
  /\ active' = IF m.what = "create" /\ HasHandler(m) THEN [active EXCEPT ![m.token] = "done"] ELSE active
  /\ UNCHANGED <<creator, done, handling>>

(* A notification's handler gets a goroutine.                              *)
ReadNote(m) ==
  /\ ~IsRequest(m) /\ m \in Contents
  /\ handling' = IF HasHandler(m) /\ IsReport(m) THEN handling \cup {m} ELSE handling
  /\ UNCHANGED <<creator, reader, done, active>>

(* The server accepts or rejects; a creator that no longer waits has taken *)
(* its channel away.                                                       *)
ReadAnswer(m) ==
  /\ m = Answer
  /\ IF creator = "wait" THEN creator' \in {"notify", "failed"} ELSE creator' = creator
  /\ UNCHANGED <<reader, done, handling, active>>

(* What cannot be parsed ends the reader, and the client with it.          *)
ReadGarbage(m) ==
  /\ m = Garbage
  /\ reader' = "gone" /\ done' = TRUE
  /\ UNCHANGED <<creator, handling, active>>

Read ==
  /\ reader = "read" /\ outPipe # <<>>
  /\ LET m == Head(outPipe).body IN
       /\ ReadRequest(m) \/ ReadNote(m) \/ ReadAnswer(m) \/ ReadGarbage(m)
       /\ lost' = IF m \in Contents /\ ~HasHandler(m) THEN lost \cup {Head(outPipe)} ELSE lost
  /\ outPipe' = Tail(outPipe)
  /\ UNCHANGED <<registered, opened, proc, serverVars, inPipe, stdinOpen, overtaken, closeVars>>

(* Seeded fault: a reply that cannot be written is tried again.            *)
ReplyAgain ==
  /\ reader = "reply"
  /\ \/ Write("reply") /\ reader' = "read"
     \/ WriteFails /\ UNCHANGED <<inPipe, reader>>
  /\ UNCHANGED <<creatorVars, opened, proc, serverVars, stdinOpen, outPipe, done, handling, active, lost, overtaken, closeVars>>

(* The result, or "method not found": the reader writes it itself, and     *)
(* goes on when the write fails.                                           *)
Reply ==
  /\ reader = "reply"
  /\ \/ Write("reply")
     \/ WriteFails /\ UNCHANGED inPipe
  /\ reader' = "read"
  /\ UNCHANGED <<creatorVars, opened, proc, serverVars, stdinOpen, outPipe, done, handling, active, lost, overtaken, closeVars>>

(* End of file; cmd.Wait closes the pipe under the reader, read or not.    *)
ReaderEnds ==
  /\ reader = "read" /\ proc = "exited"
  /\ outPipe = <<>> \/ closer \in {"stop", "closed"}
  /\ reader' = "gone" /\ done' = TRUE
  /\ UNCHANGED <<creatorVars, opened, proc, serverVars, inPipe, stdinOpen, outPipe, handling, active, lost, overtaken, closeVars>>

(* Seeded fault: a progress is followed only if a create announced it.     *)
HandleAnnounced(m) ==
  /\ m \in handling
  /\ handling' = handling \ {m}
  /\ active' = IF active[m.token] = "absent" THEN active
               ELSE [active EXCEPT ![m.token] = IF m.what = "begin" THEN "active" ELSE "done"]
  /\ UNCHANGED overtaken
  /\ UNCHANGED <<creatorVars, opened, proc, serverVars, inPipe, stdinOpen, outPipe, reader, done, lost, closeVars>>

(* HandleProgress, in whatever order the goroutines get the lock.          *)
HandleProgress(m) ==
  /\ m \in handling
  /\ handling' = handling \ {m}
  /\ active' = [active EXCEPT ![m.token] = IF m.what = "begin" THEN "active" ELSE "done"]
  /\ overtaken' = IF \E n \in handling : n # m /\ n.token = m.token
                  THEN overtaken \cup {m.token} ELSE overtaken
  /\ UNCHANGED <<creatorVars, opened, proc, serverVars, inPipe, stdinOpen, outPipe, reader, done, lost, closeVars>>

-----------------------------------------------------------------------------
(* Close, once the creator is through: by the program's end, by the        *)
(* monitor of a dead client, or because the client could not be set up.    *)

CloseBegins ==
  /\ closer = "idle" /\ creator \in {"ready", "failed"} /\ proc # "none"
  /\ closer' = "files"
  /\ UNCHANGED <<creatorVars, opened, proc, serverVars, inPipe, stdinOpen, outPipe, readerVars, killer, closes, panicked>>

(* CloseAllFiles tells the server of every open file; its context has a    *)
(* timeout, which a write does not look at.                                *)
CloseFile ==
  /\ closer = "files" /\ opened > 0
  /\ NotifySent("close") \/ NotifyFails
  /\ opened' = opened - 1
  /\ UNCHANGED <<creatorVars, proc, serverVars, stdinOpen, outPipe, readerVars, closeVars>>

StartKiller ==
  /\ closer = "files" /\ opened = 0
  /\ closer' = "armed" /\ killer' = "sleeping"
  /\ UNCHANGED <<creatorVars, opened, proc, serverVars, inPipe, stdinOpen, outPipe, readerVars, closes, panicked>>

CloseStdin ==
  /\ closer = "armed"
  /\ stdinOpen' = FALSE /\ closer' = "wait"
  /\ UNCHANGED <<creatorVars, opened, proc, serverVars, inPipe, outPipe, readerVars, killer, closes, panicked>>

(* Seeded fault: the process is not waited for.                            *)
WaitForStdin ==
  /\ closer = "wait" /\ (proc = "exited" \/ ~stdinOpen)
  /\ closer' = "stop"
  /\ UNCHANGED <<creatorVars, opened, proc, serverVars, inPipe, stdinOpen, outPipe, readerVars, killer, closes, panicked>>

WaitForExit ==
  /\ closer = "wait" /\ proc = "exited"
  /\ closer' = "stop"
  /\ UNCHANGED <<creatorVars, opened, proc, serverVars, inPipe, stdinOpen, outPipe, readerVars, killer, closes, panicked>>

(* close(forcedKill): the second time it panics.                           *)
CloseForcedKill ==
  IF closes = 0 THEN closes' = 1 /\ UNCHANGED panicked
                ELSE panicked' = TRUE /\ UNCHANGED closes

StopKiller ==
  /\ closer = "stop" /\ CloseForcedKill
  /\ closer' = "closed"
  /\ UNCHANGED <<creatorVars, opened, proc, serverVars, inPipe, stdinOpen, outPipe, readerVars, killer>>

(* The killer waits for two seconds or for the channel, and takes either   *)
(* when both are there.                                                    *)
TimeIsUp ==
  /\ killer = "sleeping"
  /\ killer' = "fired"
  /\ UNCHANGED <<creatorVars, opened, proc, serverVars, inPipe, stdinOpen, outPipe, readerVars, closer, closes, panicked>>

KillerStopped ==
  /\ killer = "sleeping" /\ closes > 0
  /\ killer' = "ended"
  /\ UNCHANGED <<creatorVars, opened, proc, serverVars, inPipe, stdinOpen, outPipe, readerVars, closer, closes, panicked>>

(* Seeded fault: the killer gives its warning and no more.                 *)
WarnOnly ==
  /\ killer = "fired"
  /\ killer' = "killed" /\ UNCHANGED proc
  /\ UNCHANGED <<creatorVars, opened, serverVars, inPipe, stdinOpen, outPipe, readerVars, closer, closes, panicked>>

Kill ==
  /\ killer = "fired"
  /\ killer' = "killed" /\ proc' = "exited"
  /\ UNCHANGED <<creatorVars, opened, serverVars, inPipe, stdinOpen, outPipe, readerVars, closer, closes, panicked>>

KillerCloses ==
  /\ killer = "killed" /\ CloseForcedKill
  /\ killer' = "ended"
  /\ UNCHANGED <<creatorVars, opened, proc, serverVars, inPipe, stdinOpen, outPipe, readerVars, closer>>

Close == CloseBegins \/ CloseFile \/ StartKiller \/ CloseStdin \/ WaitForExit \/ StopKiller
Killer == TimeIsUp \/ KillerStopped \/ Kill \/ KillerCloses

-----------------------------------------------------------------------------
Reader == Read \/ Reply \/ ReaderEnds
Handlers == \E m \in handling : HandleProgress(m)

(* A panic ends the program.                                               *)
Next == ~panicked /\ (Create \/ Server \/ Reader \/ Handlers \/ Close \/ Killer)

Spec == Init /\ [][Next]_vars

(* Go's scheduler and timers run every goroutine that can go on; the       *)
(* server owes nothing, except that one which is not hung reads its input  *)
(* and finishes a write for which there is room.                           *)
FairSpec ==
  /\ Spec
  /\ WF_vars(~panicked /\ (CloseFile \/ StartKiller \/ CloseStdin \/ WaitForExit \/ StopKiller))
  /\ WF_vars(~panicked /\ Killer)
  /\ WF_vars(~panicked /\ Reader)
  /\ WF_vars(~panicked /\ (ServerReads \/ (server = "writing" /\ ServerWrites)))

-----------------------------------------------------------------------------
(* A server that waits for the second "initialized" -- in the code's own   *)
(* order the one that follows the registrations -- finds a handler for all *)
(* it sends; what it sends in answer to the first may be lost.             *)
LostOnlyEarly == \A m \in lost : m.after < 3

(* What IsIndexing and GetActiveProgress say of a progress is what the     *)
(* server last said, once everything it said is handled: unless its begin  *)
(* and its end overtook each other, or the begin came before the handler   *)
(* was registered.  (client.go:610-634, server-request-handlers.go:118)    *)
Pending(t) ==
  \/ \E m \in handling : m.token = t
  \/ \E i \in 1..Len(outPipe) : IsReport(outPipe[i].body) /\ outPipe[i].body.token = t
BeginLost(t) == \E m \in lost : m.body.what = "begin" /\ m.body.token = t

ProgressSettles ==
  \A t \in Tokens :
    ~Pending(t) /\ t \notin overtaken
      => (active[t] = "active" <=> progress[t] = "begun" /\ ~BeginLost(t))

(* No server outlives the Close of its client (Close waits for the process *)
(* it has killed).                                                         *)
NoProcessLeft == closer = "closed" => proc = "exited"

(* Close ends, whatever the server does, with two exceptions: a file is to *)
(* be closed, the pipe is full, and the server, which nobody kills yet,    *)
(* does not read (client.go:319); and a server that does not leave is      *)
(* killed, after which forcedKill is closed twice and the program panics   *)
(* (client.go:334, 348).                                                   *)
FilesBlocked ==
  /\ closer = "files" /\ opened > 0 /\ ~done /\ proc = "running" /\ Len(inPipe) >= InRoom
  /\ server # "serving"
CloseReturns == closer = "files" ~> closer = "closed" \/ panicked \/ FilesBlocked

(* A request of the server is answered, or the server is gone, has hung,   *)
(* or waits for the reader to take what it has written while the reader    *)
(* waits for the server to take the reply.                                 *)
BothFull ==
  /\ reader = "reply" /\ Len(inPipe) >= InRoom
  /\ server = "writing" /\ Len(outPipe) >= OutRoom
ReplyLeaves == reader = "reply" ~> reader # "reply" \/ server = "hung" \/ BothFull \/ panicked
=============================================================================
