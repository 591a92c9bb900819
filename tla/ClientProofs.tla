----------------------------- MODULE ClientProofs -----------------------------
(***************************************************************************)
(* Proofs about one client: its life (ClientLife), for any progresses,     *)
(* files and bounds on the pipes, and its diagnostics (Diagnostics), for   *)
(* any number of tool handlers and timers and for every bound.             *)
(***************************************************************************)
EXTENDS ClientLife, Diagnostics, FiniteSetTheorems, TLAPS

-----------------------------------------------------------------------------
(* The life of a client.                                                   *)

USE MethodsAssumption, RoomAssumption, BoundsAssumption

NReg == Len(Registrations)

(* The handlers are all registered when the server has been notified       *)
(* again, when that notification is under way, and when anything is under  *)
(* way that the server wrote after it.                                     *)
HandlersFirst ==
  /\ heard = 3 => registered = NReg
  /\ \A i \in DOMAIN inPipe : inPipe[i] = "again" => registered = NReg
  /\ \A i \in DOMAIN outPipe : outPipe[i].after = 3 => registered = NReg

ExitSeen ==
  /\ creator = "idle" => closer = "idle"
  /\ closer \in {"stop", "closed"} => proc = "exited"

IInv == TypeOK /\ HandlersFirst /\ LostOnlyEarly /\ ExitSeen

LEMMA AppendTail ==
  ASSUME NEW S, NEW q \in Seq(S)
  PROVE  /\ \A x \in S : /\ Append(q, x) \in Seq(S)
                         /\ \A i \in DOMAIN Append(q, x) : (i \in DOMAIN q /\ Append(q, x)[i] = q[i]) \/ Append(q, x)[i] = x
         /\ q # <<>> => /\ Tail(q) \in Seq(S) /\ Head(q) \in S /\ 1 \in DOMAIN q /\ Head(q) = q[1]
                        /\ \A i \in DOMAIN Tail(q) : i + 1 \in DOMAIN q /\ Tail(q)[i] = q[i + 1]
OBVIOUS

(* Every message that is one has its method among the registrations.       *)
LEMMA AllHandled ==
  ASSUME NEW m \in Contents, registered = NReg
  PROVE  HasHandler(m)
<1>1. MethodOf(m) \in {"applyEdit", "configuration", "registerCapability", "showMessage",
                       "publishDiagnostics", "create", "progress"}
  <2>1. CASE m \in [what : Asked \cup Noted]
    BY <2>1 DEF MethodOf, IsReport
  <2>2. CASE m \in [what : {"create", "begin", "end"}, token : Tokens]
    BY <2>2 DEF MethodOf, IsReport
  <2> QED
    BY <2>1, <2>2 DEF Contents
<1>2. \E i \in 1..7 : Registrations[i] = MethodOf(m)
  BY <1>1 DEF Registrations
<1>3. NReg = 7
  BY DEF NReg, Registrations
<1> QED
  BY <1>2, <1>3 DEF HasHandler

LEMMA NRegType == NReg \in Nat /\ NReg = 7
BY DEF NReg, Registrations

LEMMA InitIInv == Init => IInv
<1> SUFFICES ASSUME Init PROVE IInv
  OBVIOUS
<1> USE DEF Init
<1>1. TypeOK
  <2>1. stdinOpen \in BOOLEAN /\ done \in BOOLEAN /\ panicked \in BOOLEAN
    BY Zenon
  <2>2. progress \in [Tokens -> {"none", "begun", "ended"}] /\ active \in [Tokens -> {"absent", "done", "active"}]
    OBVIOUS
  <2>3. inPipe \in Seq(Written) /\ outPipe \in Seq(Framed)
    OBVIOUS
  <2>4. registered \in 0..Len(Registrations)
    BY DEF Registrations
  <2> QED
    BY <2>1, <2>2, <2>3, <2>4 DEF TypeOK
<1>2. HandlersFirst /\ LostOnlyEarly /\ ExitSeen
  BY DEF HandlersFirst, LostOnlyEarly, ExitSeen
<1> QED
  BY <1>1, <1>2 DEF IInv

(* The pipes after a write to stdin, by whoever makes it.                  *)
LEMMA WriteKeeps ==
  ASSUME TypeOK, HandlersFirst, NEW m \in Written, inPipe' = Append(inPipe, m) \/ inPipe' = inPipe,
         m = "again" => registered = NReg, registered' = registered
  PROVE  /\ inPipe' \in Seq(Written)
         /\ \A i \in DOMAIN inPipe' : inPipe'[i] = "again" => registered' = NReg
<1>1. inPipe \in Seq(Written)
  BY DEF TypeOK
<1>2. CASE inPipe' = inPipe
  BY <1>1, <1>2 DEF HandlersFirst
<1>3. CASE inPipe' = Append(inPipe, m)
  <2>1. inPipe' \in Seq(Written)
    BY <1>1, <1>3
  <2>2. \A i \in DOMAIN inPipe' : (i \in DOMAIN inPipe /\ inPipe'[i] = inPipe[i]) \/ inPipe'[i] = m
    BY <1>1, <1>3, AppendTail
  <2> QED
    BY <2>1, <2>2 DEF HandlersFirst
<1> QED
  BY <1>2, <1>3

(* A step that leaves pipes, handlers and history alone keeps the order.   *)
LEMMA Untouched ==
  ASSUME HandlersFirst, LostOnlyEarly,
         UNCHANGED <<heard, inPipe, outPipe, lost>>, registered' = registered
  PROVE  HandlersFirst' /\ LostOnlyEarly'
BY DEF HandlersFirst, LostOnlyEarly

LEMMA CreateKeeps == IInv /\ Create => IInv'
<1> SUFFICES ASSUME IInv, Create PROVE IInv'
  OBVIOUS
<1> USE DEF IInv
<1>1. CASE NewClient
  <2>1. TypeOK' /\ ExitSeen'
    BY <1>1 DEF NewClient, TypeOK, ExitSeen, creatorVars, serverVars, readerVars, closeVars
  <2>2. HandlersFirst' /\ LostOnlyEarly'
    BY <1>1, Untouched DEF NewClient, serverVars, readerVars
  <2> QED
    BY <2>1, <2>2
<1>2. CASE InitializeFails \/ FinishInitialize
  <2>1. TypeOK' /\ ExitSeen'
    BY <1>2 DEF InitializeFails, FinishInitialize, TypeOK, ExitSeen, creatorVars, serverVars, readerVars, closeVars
  <2>2. HandlersFirst' /\ LostOnlyEarly'
    BY <1>2, Untouched DEF InitializeFails, FinishInitialize, serverVars, readerVars
  <2> QED
    BY <2>1, <2>2
<1>3. CASE RegisterHandler
  <2>1. registered < NReg /\ registered' = registered + 1 /\ registered \in 0..NReg
    BY <1>3 DEF RegisterHandler, TypeOK, NReg
  <2>2. registered' \in 0..NReg
    BY <2>1, NRegType
  <2>3. TypeOK' /\ ExitSeen'
    BY <1>3, <2>2 DEF RegisterHandler, TypeOK, ExitSeen, creatorVars, serverVars, readerVars, closeVars, NReg
  <2>4. HandlersFirst' /\ LostOnlyEarly'
    BY <1>3, <2>1, NRegType DEF RegisterHandler, HandlersFirst, LostOnlyEarly, serverVars, readerVars
  <2> QED
    BY <2>3, <2>4
<1>4. CASE CallInitialize \/ NotifyInitialized \/ NotifyAgain \/ OpenFile
  <2>1. PICK m \in Written : /\ inPipe' = Append(inPipe, m) \/ inPipe' = inPipe
                             /\ m = "again" => registered = NReg
    BY <1>4 DEF CallInitialize, NotifyInitialized, NotifyAgain, OpenFile, NotifySent, NotifyFails, Write, Written, NReg
  <2>2. registered' = registered
    BY <1>4 DEF CallInitialize, NotifyInitialized, NotifyAgain, OpenFile, creatorVars
  <2>3. /\ inPipe' \in Seq(Written)
        /\ \A i \in DOMAIN inPipe' : inPipe'[i] = "again" => registered' = NReg
    BY <2>1, <2>2, WriteKeeps
  <2>4. UNCHANGED <<proc, serverVars, stdinOpen, outPipe, readerVars, closeVars>>
    BY <1>4 DEF CallInitialize, NotifyInitialized, NotifyAgain, OpenFile
  <2>5. opened' \in 0..NumFiles /\ creator' \in {"call", "wait", "register", "files", "failed"}
    BY <1>4 DEF CallInitialize, NotifyInitialized, NotifyAgain, OpenFile, TypeOK, creatorVars
  <2>6. TypeOK'
    BY <2>2, <2>3, <2>4, <2>5 DEF TypeOK, serverVars, readerVars, closeVars
  <2>7. HandlersFirst' /\ LostOnlyEarly' /\ ExitSeen'
    BY <2>2, <2>3, <2>4, <2>5 DEF HandlersFirst, LostOnlyEarly, ExitSeen, serverVars, readerVars, closeVars
  <2> QED
    BY <2>6, <2>7
<1> QED
  BY <1>1, <1>2, <1>3, <1>4 DEF Create

(* What the server writes carries what it has heard.                       *)
LEMMA ServerAppends ==
  ASSUME TypeOK, HandlersFirst, NEW r \in Framed, outPipe' = Append(outPipe, r) \/ outPipe' = outPipe,
         r.after = 3 => heard = 3, registered' = registered
  PROVE  /\ outPipe' \in Seq(Framed)
         /\ \A i \in DOMAIN outPipe' : outPipe'[i].after = 3 => registered' = NReg
<1> HIDE DEF Framed
<1>1. outPipe \in Seq(Framed)
  BY DEF TypeOK
<1>2. CASE outPipe' = outPipe
  BY <1>1, <1>2 DEF HandlersFirst
<1>3. CASE outPipe' = Append(outPipe, r)
  <2>1. outPipe' \in Seq(Framed)
    BY <1>1, <1>3
  <2>2. \A i \in DOMAIN outPipe' : (i \in DOMAIN outPipe /\ outPipe'[i] = outPipe[i]) \/ outPipe'[i] = r
    BY <1>1, <1>3, AppendTail
  <2> QED
    BY <2>1, <2>2 DEF HandlersFirst
<1> QED
  BY <1>2, <1>3

LEMMA ServerKeeps == IInv /\ Server => IInv'
<1> SUFFICES ASSUME IInv, Server PROVE IInv'
  OBVIOUS
<1> USE DEF IInv
<1>1. CASE ServerReads
  <2> USE <1>1 DEF ServerReads
  <2>1. inPipe \in Seq(Written) /\ heard \in 0..3 /\ inPipe # <<>>
    BY DEF TypeOK
  <2>2. /\ inPipe' \in Seq(Written)
        /\ 1 \in DOMAIN inPipe /\ Head(inPipe) = inPipe[1]
        /\ \A i \in DOMAIN inPipe' : i + 1 \in DOMAIN inPipe /\ inPipe'[i] = inPipe[i + 1]
    BY <2>1, AppendTail
  <2>3. heard' \in 0..3 /\ (heard' = 3 => heard = 3 \/ inPipe[1] = "again")
    BY <2>1, <2>2
  <2>4. registered' = registered /\ UNCHANGED <<opened, proc, server, sent, progress, stdinOpen>>
        /\ UNCHANGED readerVars /\ UNCHANGED closeVars /\ UNCHANGED creatorVars
    BY DEF creatorVars
  <2> DEFINE r == [body |-> Answer, after |-> 1]
  <2>5. r \in Framed /\ r.after # 3
    BY DEF Framed
  <2>6. outPipe' = Append(outPipe, r) \/ outPipe' = outPipe
    OBVIOUS
  <2> HIDE DEF r
  <2>7. /\ outPipe' \in Seq(Framed)
        /\ \A i \in DOMAIN outPipe' : outPipe'[i].after = 3 => registered' = NReg
    BY <2>4, <2>5, <2>6, ServerAppends
  <2>8. TypeOK' /\ ExitSeen'
    BY <2>2, <2>3, <2>4, <2>7 DEF TypeOK, ExitSeen, creatorVars, readerVars, closeVars
  <2>9. HandlersFirst' /\ LostOnlyEarly'
    BY <2>2, <2>3, <2>4, <2>7 DEF HandlersFirst, LostOnlyEarly, readerVars
  <2> QED
    BY <2>8, <2>9
<1>2. CASE ServerWrites
  <2> USE <1>2 DEF ServerWrites
  <2>1. PICK m \in Contents \cup {Garbage} :
          /\ outPipe' = Append(outPipe, [body |-> m, after |-> heard])
          /\ progress' = IF ~IsReport(m) THEN progress
                      ELSE [progress EXCEPT ![m.token] = IF m.what = "begin" THEN "begun" ELSE "ended"]
    OBVIOUS
  <2>2. PICK r : r = [body |-> m, after |-> heard]
    OBVIOUS
  <2>3. r \in Framed /\ r.after = heard
    BY <2>2 DEF Framed, TypeOK
  <2>4. UNCHANGED <<creatorVars, opened, proc, heard, inPipe, stdinOpen, readerVars, closeVars>>
    OBVIOUS
  <2>5. /\ outPipe' \in Seq(Framed)
        /\ \A i \in DOMAIN outPipe' : outPipe'[i].after = 3 => registered' = NReg
    BY <2>1, <2>2, <2>3, <2>4, ServerAppends DEF creatorVars
  <2>6. progress' \in [Tokens -> {"none", "begun", "ended"}]
    BY <2>1 DEF TypeOK
  <2>7. sent' \in 0..MaxSent /\ server' = "serving"
    BY DEF TypeOK
  <2>8. TypeOK' /\ ExitSeen'
    BY <2>4, <2>5, <2>6, <2>7 DEF TypeOK, ExitSeen, creatorVars, readerVars, closeVars
  <2>9. HandlersFirst' /\ LostOnlyEarly'
    BY <2>4, <2>5 DEF HandlersFirst, LostOnlyEarly, creatorVars, readerVars
  <2> QED
    BY <2>8, <2>9
<1>3. CASE ServerWaits \/ ServerHangs \/ ServerExits
  <2>1. TypeOK' /\ ExitSeen'
    BY <1>3 DEF ServerWaits, ServerHangs, ServerExits, TypeOK, ExitSeen, creatorVars, serverVars, readerVars, closeVars
  <2>2. HandlersFirst' /\ LostOnlyEarly'
    BY <1>3, Untouched DEF ServerWaits, ServerHangs, ServerExits, creatorVars, serverVars, readerVars
  <2> QED
    BY <2>1, <2>2
<1> QED
  BY <1>1, <1>2, <1>3 DEF Server

LEMMA ReaderKeeps == IInv /\ (Reader \/ Handlers) => IInv'
<1> SUFFICES ASSUME IInv, Reader \/ Handlers PROVE IInv'
  OBVIOUS
<1> USE DEF IInv
<1>1. CASE Read
  <2> USE <1>1 DEF Read
  <2>1. outPipe \in Seq(Framed) /\ outPipe # <<>>
    BY DEF TypeOK
  <2>2. /\ outPipe' \in Seq(Framed) /\ Head(outPipe) \in Framed
        /\ 1 \in DOMAIN outPipe /\ Head(outPipe) = outPipe[1]
        /\ \A i \in DOMAIN outPipe' : i + 1 \in DOMAIN outPipe /\ outPipe'[i] = outPipe[i + 1]
    <3> HIDE DEF Framed
    <3> QED
      BY <2>1, AppendTail
  <2>3. PICK m : m = Head(outPipe).body
    OBVIOUS
  <2>4. lost' = IF m \in Contents /\ ~HasHandler(m) THEN lost \cup {Head(outPipe)} ELSE lost
    BY <2>3
  <2>5. ReadRequest(m) \/ ReadNote(m) \/ ReadAnswer(m) \/ ReadGarbage(m)
    BY <2>3
  <2>6. UNCHANGED <<registered, opened, proc, serverVars, inPipe, stdinOpen, overtaken, closeVars>>
    OBVIOUS
  <2>7. m \in Contents /\ ~HasHandler(m) => Head(outPipe) \in [body : Contents, after : 0..3] /\ Head(outPipe).after # 3
    <3>1. m \in Contents => Head(outPipe) \in [body : Contents, after : 0..3]
      BY <2>2, <2>3 DEF Framed
    <3>2. Head(outPipe).after = 3 => registered = NReg
      BY <2>2 DEF HandlersFirst
    <3> QED
      BY <3>1, <3>2, AllHandled
  <2>8. creator' \in {creator, "notify", "failed"}
    BY <2>5 DEF ReadRequest, ReadNote, ReadAnswer, ReadGarbage
  <2>9. reader' \in {"read", "reply", "gone"} /\ done' \in BOOLEAN
    <3>1. CASE ReadGarbage(m)
      <4>1. done' = TRUE
        BY <3>1 DEF ReadGarbage
      <4> QED
        BY <3>1, <4>1 DEF ReadGarbage
    <3>2. CASE ReadRequest(m) \/ ReadNote(m) \/ ReadAnswer(m)
      BY <3>2 DEF ReadRequest, ReadNote, ReadAnswer, TypeOK
    <3> QED
      BY <2>5, <3>1, <3>2
  <2>10. handling' \subseteq [what : {"begin", "end"}, token : Tokens]
    <3>1. m \in Contents /\ IsReport(m) => m \in [what : {"begin", "end"}, token : Tokens]
      BY DEF Contents, IsReport
    <3> QED
      BY <2>5, <3>1 DEF ReadRequest, ReadNote, ReadAnswer, ReadGarbage, TypeOK
  <2>11. active' \in [Tokens -> {"absent", "done", "active"}]
    BY <2>5 DEF ReadRequest, ReadNote, ReadAnswer, ReadGarbage, TypeOK
  <2>12. lost' \subseteq [body : Contents, after : 0..3] /\ LostOnlyEarly'
    <3>1. \A x \in lost : x.after < 3
      BY DEF LostOnlyEarly
    <3>2. CASE m \in Contents /\ ~HasHandler(m)
      <4>1. Head(outPipe).after < 3
        BY <2>7, <3>2
      <4>2. lost' = lost \cup {Head(outPipe)}
        BY <2>4, <3>2
      <4> QED
        BY <2>7, <3>1, <3>2, <4>1, <4>2 DEF TypeOK, LostOnlyEarly
    <3>3. CASE ~(m \in Contents /\ ~HasHandler(m))
      <4>1. lost' = lost
        BY <2>4, <3>3
      <4> QED
        BY <3>1, <4>1 DEF TypeOK, LostOnlyEarly
    <3> QED
      BY <3>2, <3>3
  <2>13. TypeOK'
    <3>1. creator' \in {"idle", "call", "wait", "notify", "register", "again", "files", "ready", "failed"}
      BY <2>8 DEF TypeOK
    <3> QED
      BY <2>2, <2>6, <2>9, <2>10, <2>11, <2>12, <3>1 DEF TypeOK, serverVars, closeVars
  <2>14. HandlersFirst'
    BY <2>2, <2>6 DEF HandlersFirst, serverVars
  <2>15. ExitSeen'
    BY <2>6, <2>8 DEF ExitSeen, closeVars
  <2> QED
    BY <2>12, <2>13, <2>14, <2>15
<1>2. CASE Reply
  <2>1. inPipe' = Append(inPipe, "reply") \/ inPipe' = inPipe
    BY <1>2 DEF Reply, Write
  <2>2. registered' = registered /\ "reply" \in Written /\ "reply" # "again"
    BY <1>2 DEF Reply, creatorVars, Written
  <2>3. /\ inPipe' \in Seq(Written)
        /\ \A i \in DOMAIN inPipe' : inPipe'[i] = "again" => registered' = NReg
    BY <2>1, <2>2, WriteKeeps
  <2>4. reader' = "read" /\ UNCHANGED <<creatorVars, opened, proc, serverVars, stdinOpen, outPipe, done, handling, active, lost, overtaken, closeVars>>
    BY <1>2 DEF Reply
  <2>5. TypeOK' /\ ExitSeen'
    BY <2>3, <2>4 DEF TypeOK, ExitSeen, creatorVars, serverVars, closeVars
  <2>6. HandlersFirst' /\ LostOnlyEarly'
    BY <2>2, <2>3, <2>4 DEF HandlersFirst, LostOnlyEarly, serverVars
  <2> QED
    BY <2>5, <2>6
<1>3. CASE ReaderEnds
  <2>1. done' \in BOOLEAN
    BY <1>3, Zenon DEF ReaderEnds
  <2>2. TypeOK' /\ ExitSeen'
    BY <1>3, <2>1 DEF ReaderEnds, TypeOK, ExitSeen, creatorVars, serverVars, closeVars
  <2>3. HandlersFirst' /\ LostOnlyEarly'
    BY <1>3, Untouched DEF ReaderEnds, creatorVars, serverVars
  <2> QED
    BY <2>2, <2>3
<1>4. CASE Handlers
  <2>1. PICK m \in handling : HandleProgress(m)
    BY <1>4 DEF Handlers
  <2>2. m.token \in Tokens
    BY DEF TypeOK
  <2>3. /\ active' \in [Tokens -> {"absent", "done", "active"}] /\ overtaken' \subseteq Tokens
        /\ handling' \subseteq [what : {"begin", "end"}, token : Tokens]
    BY <2>1, <2>2 DEF HandleProgress, TypeOK
  <2>4. TypeOK' /\ ExitSeen'
    BY <2>1, <2>3 DEF HandleProgress, TypeOK, ExitSeen, creatorVars, serverVars, closeVars
  <2>5. HandlersFirst' /\ LostOnlyEarly'
    BY <2>1, Untouched DEF HandleProgress, creatorVars, serverVars
  <2> QED
    BY <2>4, <2>5
<1> QED
  BY <1>1, <1>2, <1>3, <1>4 DEF Reader

LEMMA CloseKeeps == IInv /\ (Close \/ Killer) => IInv'
<1> SUFFICES ASSUME IInv, Close \/ Killer PROVE IInv'
  OBVIOUS
<1> USE DEF IInv
<1>1. CASE CloseFile
  <2>1. inPipe' = Append(inPipe, "close") \/ inPipe' = inPipe
    BY <1>1 DEF CloseFile, NotifySent, NotifyFails, Write
  <2>2. registered' = registered /\ "close" \in Written /\ "close" # "again"
    BY <1>1 DEF CloseFile, creatorVars, Written
  <2>3. /\ inPipe' \in Seq(Written)
        /\ \A i \in DOMAIN inPipe' : inPipe'[i] = "again" => registered' = NReg
    BY <2>1, <2>2, WriteKeeps
  <2>4. opened' \in 0..NumFiles
    BY <1>1 DEF CloseFile, TypeOK
  <2>5. UNCHANGED <<creatorVars, proc, serverVars, stdinOpen, outPipe, readerVars, closeVars>>
    BY <1>1 DEF CloseFile
  <2>6. TypeOK' /\ ExitSeen'
    BY <2>3, <2>4, <2>5 DEF TypeOK, ExitSeen, creatorVars, serverVars, readerVars, closeVars
  <2>7. HandlersFirst' /\ LostOnlyEarly'
    BY <2>2, <2>3, <2>5 DEF HandlersFirst, LostOnlyEarly, serverVars, readerVars
  <2> QED
    BY <2>6, <2>7
<1>2. CASE StopKiller \/ KillerCloses
  <2>1. closes' \in 0..1 /\ panicked' \in BOOLEAN
    <3>1. CASE closes = 0
      BY <1>2, <3>1 DEF StopKiller, KillerCloses, CloseForcedKill, TypeOK
    <3>2. CASE closes # 0
      <4>1. panicked' = TRUE /\ closes' = closes
        BY <1>2, <3>2 DEF StopKiller, KillerCloses, CloseForcedKill
      <4> QED
        BY <4>1 DEF TypeOK
    <3> QED
      BY <3>1, <3>2
  <2>2. TypeOK' /\ ExitSeen'
    BY <1>2, <2>1 DEF StopKiller, KillerCloses, TypeOK, ExitSeen, creatorVars, serverVars, readerVars
  <2>3. HandlersFirst' /\ LostOnlyEarly'
    BY <1>2, Untouched DEF StopKiller, KillerCloses, creatorVars, serverVars, readerVars
  <2> QED
    BY <2>2, <2>3
<1>3. CASE CloseBegins \/ StartKiller \/ CloseStdin \/ WaitForExit
  <2>1. stdinOpen' \in BOOLEAN
    <3>1. CASE CloseStdin
      BY <3>1, Zenon DEF CloseStdin
    <3>2. CASE CloseBegins \/ StartKiller \/ WaitForExit
      BY <3>2 DEF CloseBegins, StartKiller, WaitForExit, TypeOK
    <3> QED
      BY <1>3, <3>1, <3>2
  <2>2. TypeOK' /\ ExitSeen'
    BY <1>3, <2>1 DEF CloseBegins, StartKiller, CloseStdin, WaitForExit, TypeOK, ExitSeen, creatorVars, serverVars, readerVars
  <2>3. HandlersFirst' /\ LostOnlyEarly'
    BY <1>3, Untouched DEF CloseBegins, StartKiller, CloseStdin, WaitForExit, creatorVars, serverVars, readerVars
  <2> QED
    BY <2>2, <2>3
<1>4. CASE TimeIsUp \/ KillerStopped \/ Kill
  <2>1. TypeOK' /\ ExitSeen'
    BY <1>4 DEF TimeIsUp, KillerStopped, Kill, TypeOK, ExitSeen, creatorVars, serverVars, readerVars
  <2>2. HandlersFirst' /\ LostOnlyEarly'
    BY <1>4, Untouched DEF TimeIsUp, KillerStopped, Kill, creatorVars, serverVars, readerVars
  <2> QED
    BY <2>1, <2>2
<1> QED
  BY <1>1, <1>2, <1>3, <1>4 DEF Close, Killer

(* The inductive invariant is one.                                         *)
LEMMA Inductive == Spec => []IInv
<1>1. IInv /\ [Next]_vars => IInv'
  <2> SUFFICES ASSUME IInv, [Next]_vars PROVE IInv'
    OBVIOUS
  <2>1. CASE Next
    BY <2>1, CreateKeeps, ServerKeeps, ReaderKeeps, CloseKeeps DEF Next
  <2>2. CASE UNCHANGED vars
    BY <2>2 DEF IInv, TypeOK, HandlersFirst, LostOnlyEarly, ExitSeen, vars, creatorVars, serverVars, readerVars, closeVars
  <2> QED
    BY <2>1, <2>2
<1> QED
  BY <1>1, InitIInv, PTL DEF Spec

(* Every variable of the client and its pipes has its type.                *)
THEOREM TypeCorrect == Spec => []TypeOK
<1>1. IInv => TypeOK
  BY DEF IInv
<1> QED
  BY <1>1, Inductive, PTL

(* A server that waits for the second "initialized" finds all its handlers:*)
(* the one InitializeLSPClient sends after the registrations.              *)
THEOREM EarlyOnly == Spec => []LostOnlyEarly
<1>1. IInv => LostOnlyEarly
  BY DEF IInv
<1> QED
  BY <1>1, Inductive, PTL

(* When Close returns, the process has exited.                             *)
THEOREM CloseLeavesNone == Spec => []NoProcessLeft
<1>1. IInv => NoProcessLeft
  BY DEF IInv, ExitSeen, NoProcessLeft
<1> QED
  BY <1>1, Inductive, PTL

(***************************************************************************)
(* Progresses.  Where the begin and the end of a progress can be: in the   *)
(* pipe, in that order; with a goroutine; lost; or handled.                *)
(***************************************************************************)
Report(w, t) == [what |-> w, token |-> t]
InOut(m) == \E i \in DOMAIN outPipe : outPipe[i].body = m
WasLost(m) == \E n \in lost : n.body = m

(* In the pipe nothing of a progress follows its end, and only its end its *)
(* begin.                                                                  *)
InTurn(t) ==
  \A i, j \in DOMAIN outPipe : i < j =>
    /\ outPipe[i].body = Report("begin", t) =>
         outPipe[j].body # Report("create", t) /\ outPipe[j].body # Report("begin", t)
    /\ outPipe[i].body = Report("end", t) =>
         \A w \in {"create", "begin", "end"} : outPipe[j].body # Report(w, t)

Unsaid(w, t) == ~InOut(Report(w, t)) /\ Report(w, t) \notin handling /\ ~WasLost(Report(w, t))

ProgressInv(t) ==
  /\ InTurn(t)
  /\ progress[t] = "none" => Unsaid("begin", t) /\ active[t] # "active"
  /\ progress[t] # "ended" => Unsaid("end", t)
  /\ InOut(Report("begin", t)) =>
       /\ Report("begin", t) \notin handling /\ ~WasLost(Report("begin", t)) /\ active[t] # "active"
       /\ Report("end", t) \notin handling /\ ~WasLost(Report("end", t))
  /\ InOut(Report("end", t)) => Report("end", t) \notin handling /\ ~WasLost(Report("end", t))
  /\ progress[t] # "none" /\ ~InOut(Report("begin", t)) => ~InOut(Report("create", t))
  /\ progress[t] = "ended" /\ ~InOut(Report("end", t)) => ~InOut(Report("begin", t))
  /\ WasLost(Report("begin", t)) => Report("begin", t) \notin handling /\ active[t] # "active"
  /\ registered < NReg => /\ Report("begin", t) \notin handling /\ Report("end", t) \notin handling
                          /\ active[t] # "active"
  /\ progress[t] = "begun" /\ Report("begin", t) \notin handling /\ ~InOut(Report("begin", t))
       => (WasLost(Report("begin", t)) \/ active[t] = "active")
  /\ progress[t] = "ended" /\ Report("end", t) \notin handling /\ ~InOut(Report("end", t)) /\ t \notin overtaken
       => Report("begin", t) \notin handling /\ active[t] # "active"

Words == {"create", "begin", "end"}

LEMMA ReportFacts ==
  ASSUME NEW t \in Tokens
  PROVE  /\ \A v, w \in Words : Report(v, t) = Report(w, t) => v = w
         /\ \A u \in Tokens \ {t} : \A v, w \in Words : Report(v, u) # Report(w, t)
         /\ \A w \in Words : /\ Report(w, t) \in Contents /\ Report(w, t) # Answer /\ Report(w, t) # Garbage
                             /\ Report(w, t).what = w /\ Report(w, t).token = t
BY DEF Words, Report, Contents, Answer, Garbage

(* A message that names a progress is one of its three.                    *)
LEMMA MessageKinds ==
  ASSUME NEW m \in Contents \cup {Answer, Garbage}, m.what \in Words
  PROVE  m \in Contents /\ \E t \in Tokens : m.token = t /\ m = Report(m.what, t)
<1>1. m \notin [what : Asked \cup Noted] /\ m # Answer /\ m # Garbage
  BY DEF Words, Answer, Garbage
<1>2. m \in [what : {"create", "begin", "end"}, token : Tokens]
  BY <1>1 DEF Contents
<1> QED
  BY <1>2 DEF Contents, Report

LEMMA OutTail ==
  ASSUME outPipe \in Seq(Framed), outPipe # <<>>, outPipe' = Tail(outPipe), NEW h, h = Head(outPipe).body,
         NEW t \in Tokens, InTurn(t)
  PROVE  /\ \A m : InOut(m) <=> (h = m \/ InOut(m)')
         /\ InTurn(t)'
         /\ h = Report("begin", t) => ~InOut(Report("begin", t))' /\ ~InOut(Report("create", t))'
         /\ h = Report("end", t) => \A w \in Words : ~InOut(Report(w, t))'
<1> HIDE DEF Framed
<1>1. /\ 1 \in DOMAIN outPipe /\ h = outPipe[1].body
      /\ \A i \in DOMAIN outPipe' : i \in Nat /\ i # 0 /\ i + 1 \in DOMAIN outPipe /\ outPipe'[i] = outPipe[i + 1]
      /\ \A i \in DOMAIN outPipe : i = 1 \/ (i - 1 \in DOMAIN outPipe' /\ outPipe'[i - 1] = outPipe[i])
  OBVIOUS
<1>2. \A m : InOut(m) <=> (h = m \/ InOut(m)')
  <2>1. ASSUME NEW m, InOut(m) PROVE h = m \/ InOut(m)'
    <3>1. PICK i \in DOMAIN outPipe : outPipe[i].body = m
      BY <2>1 DEF InOut
    <3>2. CASE i = 1
      BY <1>1, <3>1, <3>2
    <3>3. CASE i # 1
      <4>1. i - 1 \in DOMAIN outPipe' /\ outPipe'[i - 1].body = m
        BY <1>1, <3>1, <3>3
      <4> QED
        BY <4>1 DEF InOut
    <3> QED
      BY <3>2, <3>3
  <2>2. ASSUME NEW m, h = m \/ InOut(m)' PROVE InOut(m)
    BY <1>1, <2>2 DEF InOut
  <2> QED
    BY <2>1, <2>2
<1>3. InTurn(t)'
  BY <1>1 DEF InTurn
<1>4. ASSUME NEW i \in DOMAIN outPipe' PROVE 1 < i + 1 /\ i + 1 \in DOMAIN outPipe /\ outPipe'[i] = outPipe[i + 1]
  BY <1>1
<1>5. h = Report("begin", t) => ~InOut(Report("begin", t))' /\ ~InOut(Report("create", t))'
  BY <1>1, <1>4 DEF InTurn, InOut
<1>6. h = Report("end", t) => \A w \in Words : ~InOut(Report(w, t))'
  BY <1>1, <1>4 DEF InTurn, InOut, Words
<1> QED
  BY <1>2, <1>3, <1>5, <1>6

LEMMA OutAppend ==
  ASSUME outPipe \in Seq(Framed), NEW r \in Framed, outPipe' = Append(outPipe, r), NEW t \in Tokens, InTurn(t),
         InOut(Report("begin", t)) => r.body # Report("create", t) /\ r.body # Report("begin", t),
         InOut(Report("end", t)) => \A w \in Words : r.body # Report(w, t)
  PROVE  /\ \A m : InOut(m)' <=> (InOut(m) \/ r.body = m)
         /\ InTurn(t)'
<1> HIDE DEF Framed
<1>1. PICK n \in Nat : /\ DOMAIN outPipe = 1..n /\ DOMAIN outPipe' = 1..(n + 1) /\ outPipe'[n + 1] = r
                       /\ \A i \in 1..n : outPipe'[i] = outPipe[i]
  <2>1. /\ Len(outPipe) \in Nat /\ DOMAIN outPipe = 1..Len(outPipe) /\ DOMAIN outPipe' = 1..(Len(outPipe) + 1)
        /\ outPipe'[Len(outPipe) + 1] = r /\ \A i \in 1..Len(outPipe) : outPipe'[i] = outPipe[i]
    OBVIOUS
  <2> QED
    BY <2>1
<1>2. \A m : InOut(m)' <=> (InOut(m) \/ r.body = m)
  BY <1>1 DEF InOut
<1>3. ASSUME NEW i \in DOMAIN outPipe', NEW j \in DOMAIN outPipe', i < j
      PROVE  /\ outPipe'[i].body = Report("begin", t) =>
                  outPipe'[j].body # Report("create", t) /\ outPipe'[j].body # Report("begin", t)
             /\ outPipe'[i].body = Report("end", t) =>
                  \A w \in {"create", "begin", "end"} : outPipe'[j].body # Report(w, t)
  <2>1. i \in 1..n /\ outPipe'[i] = outPipe[i] /\ i \in DOMAIN outPipe
    BY <1>1, <1>3
  <2>2. CASE j = n + 1
    BY <1>1, <2>1, <2>2 DEF InOut, Words
  <2>3. CASE j # n + 1
    <3>1. j \in DOMAIN outPipe /\ outPipe'[j] = outPipe[j]
      BY <1>1, <2>3
    <3> QED
      BY <1>3, <2>1, <3>1 DEF InTurn
  <2> QED
    BY <2>2, <2>3
<1> QED
  BY <1>2, <1>3 DEF InTurn

LEMMA ProgressFrame ==
  ASSUME TypeOK, NEW t \in Tokens, ProgressInv(t), registered' \in Nat, registered' >= registered,
         UNCHANGED <<outPipe, progress, handling, active, lost, overtaken>>
  PROVE  ProgressInv(t)'
<1>1. registered' < NReg => registered < NReg
  BY NRegType DEF TypeOK, NReg
<1> QED
  BY <1>1 DEF ProgressInv, InTurn, Unsaid, InOut, WasLost

(* The server has read, and may answer.                                    *)
LEMMA ProgressReads ==
  ASSUME TypeOK, NEW t \in Tokens, ProgressInv(t), ServerReads
  PROVE  ProgressInv(t)'
<1> DEFINE r == [body |-> Answer, after |-> 1]
<1>1. r \in Framed /\ \A w \in Words : r.body # Report(w, t)
  BY ReportFacts DEF Framed
<1>2. outPipe' = Append(outPipe, r) \/ outPipe' = outPipe
  BY DEF ServerReads
<1> HIDE DEF r
<1>3. UNCHANGED <<registered, progress, handling, active, lost, overtaken>>
  BY DEF ServerReads, creatorVars, readerVars
<1>4. InTurn(t)' /\ \A w \in Words : InOut(Report(w, t))' <=> InOut(Report(w, t))
  <2>1. outPipe \in Seq(Framed) /\ InTurn(t)
    BY DEF TypeOK, ProgressInv
  <2>2. CASE outPipe' = outPipe
    BY <2>1, <2>2 DEF InTurn, InOut
  <2>3. CASE outPipe' = Append(outPipe, r)
    BY <1>1, <2>1, <2>3, OutAppend DEF Words
  <2> QED
    BY <1>2, <2>2, <2>3
<1> QED
  BY <1>3, <1>4 DEF ProgressInv, Unsaid, WasLost, Words

LEMMA ProgressWrites ==
  ASSUME TypeOK, NEW t \in Tokens, ProgressInv(t), ServerWrites
  PROVE  ProgressInv(t)'
<1>1. PICK m \in Contents \cup {Garbage} :
        /\ Expected(m)
        /\ outPipe' = Append(outPipe, [body |-> m, after |-> heard])
        /\ progress' = IF ~IsReport(m) THEN progress
                      ELSE [progress EXCEPT ![m.token] = IF m.what = "begin" THEN "begun" ELSE "ended"]
  BY DEF ServerWrites
<1>2. PICK r \in Framed : r.body = m /\ outPipe' = Append(outPipe, r)
  <2>1. [body |-> m, after |-> heard] \in Framed
    BY DEF Framed, TypeOK
  <2> QED
    BY <1>1, <2>1
<1>3. UNCHANGED <<registered, handling, active, lost, overtaken>>
  BY DEF ServerWrites, creatorVars, readerVars
<1>4. outPipe \in Seq(Framed) /\ InTurn(t) /\ progress \in [Tokens -> {"none", "begun", "ended"}]
  BY DEF TypeOK, ProgressInv
<1>5. \A w \in Words : WasLost(Report(w, t))' <=> WasLost(Report(w, t))
  BY <1>3 DEF WasLost
<1>6. CASE m = Report("create", t)
  <2>1. progress[t] = "none" /\ progress' = progress
    BY <1>1, <1>6, ReportFacts DEF Expected, IsReport, Words
  <2>2. \A w \in Words : ~InOut(Report(w, t)) \/ w = "create"
    BY <2>1 DEF ProgressInv, Unsaid, Words
  <2>3. InTurn(t)' /\ \A x : InOut(x)' <=> (InOut(x) \/ r.body = x)
    BY <1>2, <1>4, <2>2, OutAppend DEF Words
  <2>4. Report("create", t) # Report("begin", t) /\ Report("create", t) # Report("end", t)
    BY ReportFacts DEF Words
  <2> QED
    BY <1>2, <1>3, <1>5, <1>6, <2>1, <2>3, <2>4 DEF ProgressInv, Unsaid, Words
<1>7. CASE m = Report("begin", t)
  <2>1. progress[t] = "none" /\ progress'[t] = "begun"
    BY <1>1, <1>4, <1>7, ReportFacts DEF Expected, IsReport, Words
  <2>2. ~InOut(Report("begin", t)) /\ ~InOut(Report("end", t))
    BY <2>1 DEF ProgressInv, Unsaid
  <2>3. InTurn(t)' /\ \A x : InOut(x)' <=> (InOut(x) \/ r.body = x)
    BY <1>2, <1>4, <2>2, OutAppend
  <2>4. Report("begin", t) # Report("create", t) /\ Report("begin", t) # Report("end", t)
    BY ReportFacts DEF Words
  <2> QED
    BY <1>2, <1>3, <1>5, <1>7, <2>1, <2>3, <2>4 DEF ProgressInv, Unsaid, Words
<1>8. CASE m = Report("end", t)
  <2>1. progress[t] = "begun" /\ progress'[t] = "ended"
    BY <1>1, <1>4, <1>8, ReportFacts DEF Expected, IsReport, Words
  <2>2. Report("end", t) # Report("create", t) /\ Report("end", t) # Report("begin", t)
    BY ReportFacts DEF Words
  <2>3. ~InOut(Report("end", t))
    BY <2>1 DEF ProgressInv, Unsaid
  <2>4. InTurn(t)' /\ \A x : InOut(x)' <=> (InOut(x) \/ r.body = x)
    BY <1>2, <1>4, <1>8, <2>2, <2>3, OutAppend
  <2> QED
    BY <1>2, <1>3, <1>5, <1>8, <2>1, <2>2, <2>4 DEF ProgressInv, Unsaid, Words
<1>9. CASE \A w \in Words : m # Report(w, t)
  <2>1. progress'[t] = progress[t]
    <3>1. CASE ~IsReport(m)
      BY <1>1, <3>1
    <3>2. CASE IsReport(m)
      <4>1. PICK u \in Tokens : m.token = u /\ m = Report(m.what, u)
        BY <3>2, MessageKinds DEF IsReport, Words
      <4>2. u # t
        BY <1>9, <3>2, <4>1 DEF IsReport, Words
      <4> QED
        BY <1>1, <1>4, <4>1, <4>2
    <3> QED
      BY <3>1, <3>2
  <2>2. InTurn(t)' /\ \A x : InOut(x)' <=> (InOut(x) \/ r.body = x)
    BY <1>2, <1>4, <1>9, OutAppend DEF Words
  <2>3. \A w \in Words : InOut(Report(w, t))' <=> InOut(Report(w, t))
    BY <1>2, <1>9, <2>2
  <2> QED
    BY <1>3, <1>5, <2>1, <2>2, <2>3 DEF ProgressInv, Unsaid, Words
<1> QED
  BY <1>6, <1>7, <1>8, <1>9 DEF Words

(* All handlers are there when that of $/progress is: it is the last.      *)
LEMMA LastHandler ==
  ASSUME TypeOK, NEW t \in Tokens, NEW w \in {"begin", "end"}
  PROVE  HasHandler(Report(w, t)) <=> ~(registered < NReg)
<1>1. MethodOf(Report(w, t)) = "progress"
  BY ReportFacts DEF MethodOf, IsReport, Words
<1>2. registered \in 0..7 /\ NReg = 7
  BY NRegType DEF TypeOK, NReg
<1>3. \A i \in 1..7 : Registrations[i] = "progress" <=> i = 7
  BY DEF Registrations
<1> QED
  BY <1>1, <1>2, <1>3 DEF HasHandler

LEMMA ProgressRead ==
  ASSUME TypeOK, NEW t \in Tokens, ProgressInv(t), Read
  PROVE  ProgressInv(t)'
<1>1. PICK h : h = Head(outPipe) /\ h \in Framed
  <2>1. outPipe \in Seq(Framed) /\ outPipe # <<>>
    BY DEF TypeOK, Read
  <2> HIDE DEF Framed
  <2> QED
    BY <2>1
<1>2. PICK m \in Contents \cup {Answer, Garbage} : m = h.body
  BY <1>1 DEF Framed
<1>3. /\ ReadRequest(m) \/ ReadNote(m) \/ ReadAnswer(m) \/ ReadGarbage(m)
      /\ lost' = IF m \in Contents /\ ~HasHandler(m) THEN lost \cup {h} ELSE lost
      /\ UNCHANGED <<registered, progress, overtaken>>
      /\ outPipe' = Tail(outPipe) /\ outPipe # <<>> /\ outPipe \in Seq(Framed)
  BY <1>1, <1>2 DEF Read, serverVars, TypeOK
<1>4. InTurn(t) /\ active \in [Tokens -> {"absent", "done", "active"}]
  BY DEF TypeOK, ProgressInv
<1>5. /\ \A x : InOut(x) <=> (m = x \/ InOut(x)')
      /\ InTurn(t)'
      /\ m = Report("begin", t) => ~InOut(Report("begin", t))' /\ ~InOut(Report("create", t))'
      /\ m = Report("end", t) => \A w \in Words : ~InOut(Report(w, t))'
  BY <1>1, <1>2, <1>3, <1>4, OutTail
<1>6. /\ Report("begin", t) # Report("create", t) /\ Report("begin", t) # Report("end", t)
      /\ Report("end", t) # Report("create", t)
      /\ Report("begin", t) \in Contents /\ Report("end", t) \in Contents
      /\ \A w \in Words : Report(w, t).what = w /\ Report(w, t).token = t
  BY ReportFacts DEF Words
<1>7. \A x : WasLost(x)' <=> (WasLost(x) \/ (x = m /\ m \in Contents /\ ~HasHandler(m)))
  BY <1>1, <1>2, <1>3 DEF WasLost
<1>8. CASE m = Report("begin", t) \/ m = Report("end", t)
  <2>1. IsReport(m) /\ ~IsRequest(m) /\ m \in Contents /\ m # Answer /\ m # Garbage
    BY <1>6, <1>8, ReportFacts DEF IsReport, IsRequest, Words
  <2>2. /\ handling' = IF HasHandler(m) THEN handling \cup {m} ELSE handling
        /\ active' = active
    BY <1>3, <2>1 DEF ReadRequest, ReadNote, ReadAnswer, ReadGarbage
  <2>3. HasHandler(m) <=> ~(registered < NReg)
    BY <1>8, LastHandler
  <2>4. CASE m = Report("begin", t)
    <3>1. /\ progress[t] # "none" /\ Report("begin", t) \notin handling /\ ~WasLost(Report("begin", t))
          /\ Report("end", t) \notin handling /\ ~WasLost(Report("end", t)) /\ active[t] # "active"
          /\ progress[t] = "ended" => InOut(Report("end", t))
      BY <1>5, <2>4 DEF ProgressInv, Unsaid
    <3> QED
      BY <1>3, <1>5, <1>6, <1>7, <2>1, <2>2, <2>3, <2>4, <3>1 DEF ProgressInv, Unsaid
  <2>5. CASE m = Report("end", t)
    <3>1. /\ progress[t] = "ended" /\ Report("end", t) \notin handling /\ ~WasLost(Report("end", t))
          /\ ~InOut(Report("begin", t))' /\ ~InOut(Report("end", t))' /\ ~InOut(Report("create", t))'
          /\ ~InOut(Report("begin", t))
      <4>1. InOut(Report("end", t))
        BY <1>5, <2>5
      <4>2. progress[t] = "ended" /\ Report("end", t) \notin handling /\ ~WasLost(Report("end", t))
        BY <4>1 DEF ProgressInv, Unsaid, TypeOK
      <4> QED
        BY <1>5, <1>6, <2>5, <4>2 DEF Words
    <3> QED
      BY <1>3, <1>5, <1>6, <1>7, <2>1, <2>2, <2>3, <2>5, <3>1 DEF ProgressInv, Unsaid
  <2> QED
    BY <1>8, <2>4, <2>5
<1>9. CASE m # Report("begin", t) /\ m # Report("end", t)
  <2>1. /\ Report("begin", t) \in handling' <=> Report("begin", t) \in handling
        /\ Report("end", t) \in handling' <=> Report("end", t) \in handling
    BY <1>3, <1>9 DEF ReadRequest, ReadNote, ReadAnswer, ReadGarbage
  <2>2. active'[t] = active[t] \/ (m = Report("create", t) /\ active'[t] = "done")
    <3>1. CASE active' = active
      BY <3>1
    <3>2. CASE active' # active
      <4>1. m.what = "create" /\ active' = [active EXCEPT ![m.token] = "done"]
        BY <1>3, <3>2 DEF ReadRequest, ReadNote, ReadAnswer, ReadGarbage
      <4>2. m = Report("create", m.token) /\ m.token \in Tokens
        BY <4>1, MessageKinds DEF Words
      <4> QED
        BY <1>4, <4>1, <4>2
    <3> QED
      BY <3>1, <3>2
  <2>3. /\ InOut(Report("begin", t))' <=> InOut(Report("begin", t))
        /\ InOut(Report("end", t))' <=> InOut(Report("end", t))
        /\ InOut(Report("create", t))' => InOut(Report("create", t))
        /\ WasLost(Report("begin", t))' <=> WasLost(Report("begin", t))
        /\ WasLost(Report("end", t))' <=> WasLost(Report("end", t))
    BY <1>5, <1>7, <1>9
  <2>4. m = Report("create", t) => InOut(Report("create", t))
    BY <1>5
  <2> QED
    BY <1>3, <1>5, <2>1, <2>2, <2>3, <2>4 DEF ProgressInv, Unsaid
<1> QED
  BY <1>8, <1>9

LEMMA ProgressHandle ==
  ASSUME TypeOK, NEW t \in Tokens, ProgressInv(t), NEW m \in handling, HandleProgress(m)
  PROVE  ProgressInv(t)'
<1>1. /\ handling' = handling \ {m}
      /\ active' = [active EXCEPT ![m.token] = IF m.what = "begin" THEN "active" ELSE "done"]
      /\ overtaken' = IF \E n \in handling : n # m /\ n.token = m.token
                      THEN overtaken \cup {m.token} ELSE overtaken
      /\ UNCHANGED <<registered, progress, outPipe, lost>>
  BY DEF HandleProgress, creatorVars, serverVars
<1>2. m = Report("begin", m.token) \/ m = Report("end", m.token)
  BY DEF TypeOK, Report
<1>3. m.token \in Tokens /\ active \in [Tokens -> {"absent", "done", "active"}]
  BY DEF TypeOK
<1>4. /\ \A w \in Words : InOut(Report(w, t))' <=> InOut(Report(w, t))
      /\ \A w \in Words : WasLost(Report(w, t))' <=> WasLost(Report(w, t))
      /\ InTurn(t)'
  BY <1>1 DEF InOut, WasLost, InTurn, ProgressInv
<1>5. /\ Report("begin", t) # Report("create", t) /\ Report("begin", t) # Report("end", t)
      /\ \A w \in Words : Report(w, t).what = w /\ Report(w, t).token = t
  BY ReportFacts DEF Words
<1>6. CASE m.token # t
  <2>1. m # Report("begin", t) /\ m # Report("end", t) /\ active'[t] = active[t]
    BY <1>1, <1>3, <1>5, <1>6 DEF Words
  <2>2. t \in overtaken' <=> t \in overtaken
    BY <1>1, <1>6
  <2> QED
    BY <1>1, <1>4, <2>1, <2>2 DEF ProgressInv, Unsaid, Words
<1>7. CASE m = Report("begin", t)
  <2>1. active'[t] = "active" /\ progress[t] # "none" /\ ~(registered < NReg)
        /\ ~InOut(Report("begin", t)) /\ ~WasLost(Report("begin", t))
    BY <1>1, <1>3, <1>5, <1>7 DEF ProgressInv, Unsaid, Words
  <2>2. progress[t] = "ended" /\ Report("end", t) \notin handling' /\ ~InOut(Report("end", t)) => t \in overtaken'
    <3> SUFFICES ASSUME progress[t] = "ended", Report("end", t) \notin handling', ~InOut(Report("end", t)) PROVE t \in overtaken'
      OBVIOUS
    <3>1. Report("end", t) \notin handling
      BY <1>1, <1>5, <1>7
    <3>2. t \in overtaken
      BY <1>7, <3>1 DEF ProgressInv
    <3> QED
      BY <1>1, <3>2
  <2> QED
    BY <1>1, <1>4, <1>7, <2>1, <2>2 DEF ProgressInv, Unsaid, Words
<1>8. CASE m = Report("end", t)
  <2>1. active'[t] = "done" /\ progress[t] = "ended" /\ ~(registered < NReg)
        /\ ~InOut(Report("begin", t)) /\ ~InOut(Report("end", t))
    BY <1>1, <1>3, <1>5, <1>8 DEF ProgressInv, Unsaid, Words
  <2>2. t \notin overtaken' => Report("begin", t) \notin handling
    BY <1>1, <1>5, <1>8 DEF Words
  <2> QED
    BY <1>1, <1>4, <1>5, <1>8, <2>1, <2>2 DEF ProgressInv, Unsaid, Words
<1> QED
  BY <1>2, <1>6, <1>7, <1>8

LEMMA ProgressStep ==
  ASSUME TypeOK, TypeOK', NEW t \in Tokens, ProgressInv(t), [Next]_vars
  PROVE  ProgressInv(t)'
<1>0. registered \in Nat /\ registered' \in Nat
  BY NRegType DEF TypeOK, NReg
<1>1. CASE UNCHANGED vars
  BY <1>0, <1>1, ProgressFrame DEF vars, creatorVars, serverVars, readerVars
<1>2. CASE Create
  <2>1. registered' = registered \/ registered' = registered + 1
    BY <1>2 DEF Create, NewClient, CallInitialize, InitializeFails, NotifyInitialized, RegisterHandler,
       NotifyAgain, OpenFile, FinishInitialize, creatorVars
  <2>2. UNCHANGED <<outPipe, progress, handling, active, lost, overtaken>>
    BY <1>2 DEF Create, NewClient, CallInitialize, InitializeFails, NotifyInitialized, RegisterHandler,
       NotifyAgain, OpenFile, FinishInitialize, serverVars, readerVars
  <2>3. registered' >= registered
    BY <1>0, <2>1
  <2> QED
    BY <1>0, <2>2, <2>3, ProgressFrame
<1>3. CASE ServerWaits \/ ServerHangs \/ ServerExits \/ Close \/ Killer \/ Reply \/ ReaderEnds
  <2>1. UNCHANGED <<registered, outPipe, progress, handling, active, lost, overtaken>>
    BY <1>3 DEF ServerWaits, ServerHangs, ServerExits, Close, CloseBegins, CloseFile, StartKiller, CloseStdin,
       WaitForExit, StopKiller, Killer, TimeIsUp, KillerStopped, Kill, KillerCloses, Reply, ReaderEnds,
       creatorVars, serverVars, readerVars
  <2> QED
    BY <1>0, <2>1, ProgressFrame
<1> QED
  BY <1>1, <1>2, <1>3, ProgressReads, ProgressWrites, ProgressRead, ProgressHandle
     DEF Next, Server, Reader, Handlers

(* When all reports of a progress have been handled, and did not overtake  *)
(* each other, its state in the client is what the server last said, for   *)
(* any progresses and pipes (server-request-handlers.go:118).              *)
THEOREM ProgressSettled == Spec => []ProgressSettles
<1>1. Init => \A t \in Tokens : ProgressInv(t)
  <2> SUFFICES ASSUME Init, NEW t \in Tokens PROVE ProgressInv(t)
    OBVIOUS
  <2>1. outPipe = <<>> /\ handling = {} /\ lost = {} /\ progress[t] = "none" /\ active[t] = "absent"
    BY DEF Init
  <2>2. \A m : ~InOut(m) /\ ~WasLost(m)
    BY <2>1 DEF InOut, WasLost
  <2>3. InTurn(t)
    BY <2>1 DEF InTurn
  <2> QED
    BY <2>1, <2>2, <2>3 DEF ProgressInv, Unsaid
<1>2. TypeOK /\ TypeOK' /\ (\A t \in Tokens : ProgressInv(t)) /\ [Next]_vars
        => (\A t \in Tokens : ProgressInv(t))'
  BY ProgressStep
<1>3. TypeOK /\ (\A t \in Tokens : ProgressInv(t)) => ProgressSettles
  <2> SUFFICES ASSUME TypeOK, NEW t \in Tokens, ProgressInv(t), ~Pending(t), t \notin overtaken
               PROVE  active[t] = "active" <=> progress[t] = "begun" /\ ~BeginLost(t)
    BY DEF ProgressSettles
  <2>1. \A w \in {"begin", "end"} : /\ Report(w, t) \notin handling /\ ~InOut(Report(w, t))
    <3> SUFFICES ASSUME NEW w \in {"begin", "end"} PROVE Report(w, t) \notin handling /\ ~InOut(Report(w, t))
      OBVIOUS
    <3>1. Report(w, t).token = t /\ IsReport(Report(w, t))
      BY ReportFacts DEF Words, IsReport
    <3>2. outPipe \in Seq(Framed)
      BY DEF TypeOK
    <3>3. DOMAIN outPipe = 1..Len(outPipe)
      BY <3>2
    <3> QED
      BY <3>1, <3>3 DEF Pending, InOut
  <2>2. BeginLost(t) <=> WasLost(Report("begin", t))
    <3>1. \A n \in lost : n.body.what = "begin" /\ n.body.token = t => n.body = Report("begin", t)
      <4> SUFFICES ASSUME NEW n \in lost, n.body.what = "begin", n.body.token = t PROVE n.body = Report("begin", t)
        OBVIOUS
      <4>1. n.body \in Contents
        BY DEF TypeOK
      <4> QED
        BY <4>1, MessageKinds DEF Words
    <3>2. Report("begin", t).what = "begin" /\ Report("begin", t).token = t
      BY ReportFacts DEF Words
    <3> QED
      BY <3>1, <3>2 DEF BeginLost, WasLost
  <2> QED
    BY <2>1, <2>2 DEF ProgressInv, TypeOK
<1> QED
  BY <1>1, <1>2, <1>3, TypeCorrect, PTL DEF Spec

-----------------------------------------------------------------------------
(* Its diagnostics.                                                        *)

USE DiagnosticsAssumption DEF At, Goto

Publication == [rev : Revs, stage : Stages]

(***************************************************************************)
(* Types.                                                                  *)
(***************************************************************************)
LEMMA InitType == DiagnosticsInit => DiagnosticsTypeOK
<1> SUFFICES ASSUME DiagnosticsInit PROVE DiagnosticsTypeOK
  OBVIOUS
<1>1. FALSE \in BOOLEAN
  BY Zenon
<1>2. /\ clean = [a \in Actors |-> FALSE] /\ clean \in [Actors -> BOOLEAN]
      /\ woken \in [Actors -> BOOLEAN] /\ changed \in [Actors -> BOOLEAN]
      /\ owed \in BOOLEAN
  BY Zenon, <1>1 DEF DiagnosticsInit
<1> QED
  BY <1>2 DEF DiagnosticsInit, DiagnosticsTypeOK, Revs, Labels

(* A sequence of publications whose i-th has reached another stage.        *)
LEMMA StageFacts ==
  ASSUME NEW s \in Seq(Publication), NEW i \in DOMAIN s, NEW g \in Stages
  PROVE  LET t == [s EXCEPT ![i].stage = g]
         IN  /\ t \in Seq(Publication) /\ Len(t) = Len(s) /\ DOMAIN t = DOMAIN s
             /\ t[i].rev = s[i].rev /\ t[i].stage = g
             /\ \A j \in DOMAIN s \ {i} : t[j] = s[j]
<1> DEFINE p == [s[i] EXCEPT !.stage = g]
<1>1. s[i] \in Publication
  OBVIOUS
<1>2. p \in Publication /\ p.rev = s[i].rev /\ p.stage = g
  BY <1>1 DEF Publication
<1>3. [s EXCEPT ![i].stage = g] = [s EXCEPT ![i] = p]
  OBVIOUS
<1> HIDE DEF p
<1> DEFINE t == [s EXCEPT ![i] = p]
<1>5. /\ t \in Seq(Publication) /\ Len(t) = Len(s) /\ DOMAIN t = DOMAIN s /\ t[i] = p
      /\ \A j \in DOMAIN s \ {i} : t[j] = s[j]
  BY <1>2
<1> HIDE DEF t
<1>6. [s EXCEPT ![i].stage = g] = t
  BY <1>3 DEF t
<1> QED
  BY <1>2, <1>5, <1>6

LEMMA PubType ==
  ASSUME DiagnosticsTypeOK, NEW i \in DOMAIN pubs
  PROVE  pubs[i].rev \in Revs /\ pubs[i].stage \in Stages
<1>1. pubs \in Seq(Publication)
  BY DEF DiagnosticsTypeOK, Publication
<1>2. pubs[i] \in Publication
  BY <1>1
<1> QED
  BY <1>2 DEF Publication

LEMMA AppendFacts ==
  ASSUME NEW S, NEW s \in Seq(S), NEW e \in S
  PROVE  /\ Append(s, e) \in Seq(S) /\ Len(Append(s, e)) = Len(s) + 1
         /\ DOMAIN Append(s, e) = 1..(Len(s) + 1)
         /\ Append(s, e)[Len(s) + 1] = e
         /\ \A i \in 1..Len(s) : Append(s, e)[i] = s[i]
OBVIOUS

(* The channels only grow.                                                 *)
LEMMA MoreChannels ==
  ASSUME DiagnosticsTypeOK, chans' \in {chans, chans + 1}, chans' <= MaxChans
  PROVE  /\ chans' \in 0..MaxChans /\ 1..chans \subseteq 1..chans'
         /\ 0..chans \subseteq 0..chans'
         /\ ready \in 0..chans' /\ tokens \subseteq 1..chans'
         /\ chan \in [Actors -> 0..chans']
<1>1. chans \in Nat /\ chans' \in Nat /\ chans <= chans'
  BY DEF DiagnosticsTypeOK
<1>2. 0..chans \subseteq 0..chans' /\ 1..chans \subseteq 1..chans'
  BY <1>1
<1>3. chan \in [Actors -> 0..chans] /\ ready \in 0..chans /\ tokens \subseteq 1..chans
  BY DEF DiagnosticsTypeOK
<1>4. chan \in [Actors -> 0..chans']
  BY <1>2, <1>3
<1> QED
  BY <1>1, <1>2, <1>3, <1>4

LEMMA NewChannelFacts ==
  ASSUME DiagnosticsTypeOK, NewChannel
  PROVE  chans' = chans + 1 /\ chans' \in 0..MaxChans /\ ready' = chans'
         /\ ready' \in 1..chans' /\ ready' \notin tokens
BY DEF DiagnosticsTypeOK, NewChannel

LEMMA ServerType ==
  ASSUME DiagnosticsTypeOK, ServerStep PROVE DiagnosticsTypeOK'
<1>1. CASE ServerReceives
  <2>1. Head(toServer) \in Revs /\ Tail(toServer) \in Seq(Revs)
    BY <1>1 DEF DiagnosticsTypeOK, ServerReceives
  <2>2. owed' \in BOOLEAN
    BY Zenon, <1>1 DEF ServerReceives
  <2> QED
    BY <1>1, <2>1, <2>2 DEF DiagnosticsTypeOK, ServerReceives, fileVars, cacheVars, chanVars, actorVars
<1>2. CASE ServerPublishes
  <2>1. [rev |-> have, stage |-> "sent"] \in Publication
    BY DEF DiagnosticsTypeOK, Publication, Stages
  <2>2. pubs' \in Seq(Publication) /\ Len(pubs') <= MaxPubs
    BY <1>2, <2>1, AppendFacts DEF DiagnosticsTypeOK, Publication, ServerPublishes
  <2>3. owed' \in BOOLEAN
    BY <1>2 DEF ServerPublishes
  <2> QED
    BY <1>2, <2>2, <2>3 DEF DiagnosticsTypeOK, ServerPublishes, Publication, fileVars, cacheVars, chanVars, actorVars
<1> QED
  BY <1>1, <1>2 DEF ServerStep

LEMMA ReadType ==
  ASSUME DiagnosticsTypeOK, ReadNotification PROVE DiagnosticsTypeOK'
<1>1. PICK i \in DOMAIN pubs : pubs' = [pubs EXCEPT ![i].stage = "spawned"]
  BY DEF ReadNotification
<1>2. pubs' \in Seq(Publication) /\ Len(pubs') <= MaxPubs
  BY <1>1, StageFacts DEF DiagnosticsTypeOK, Publication, Stages
<1> QED
  BY <1>2 DEF DiagnosticsTypeOK, ReadNotification, Publication, fileVars, publisherVars, cacheVars, chanVars, actorVars

LEMMA HandleType ==
  ASSUME DiagnosticsTypeOK, NEW i \in DOMAIN pubs, HandleDiagnostics(i) PROVE DiagnosticsTypeOK'
<1>1. PICK g \in Stages : pubs' = [pubs EXCEPT ![i].stage = g]
  BY DEF HandleDiagnostics, Rotate, Signal, Stages
<1>2. pubs' \in Seq(Publication) /\ Len(pubs') <= MaxPubs
  <2>1. pubs \in Seq(Publication) /\ Len(pubs) <= MaxPubs
    BY DEF DiagnosticsTypeOK, Publication
  <2> QED
    BY <1>1, <2>1, StageFacts
<1>3. CASE Rotate(i)
  <2>1. pubs[i].rev \in Revs
    BY PubType
  <2> QED
    BY <1>2, <1>3, <2>1 DEF DiagnosticsTypeOK, Rotate, Publication, fileVars, publisherVars, chanVars, actorVars
<1>4. CASE Signal(i)
  <2>1. chans' \in {chans, chans + 1} /\ chans' <= MaxChans
    BY <1>4 DEF DiagnosticsTypeOK, Signal
  <2>2. ready' \in 0..chans' /\ tokens' \subseteq 1..chans'
    BY <1>4, <2>1 DEF DiagnosticsTypeOK, Signal
  <2>3. chans' \in 0..MaxChans /\ chan' \in [Actors -> 0..chans']
    BY <1>4, <2>1, MoreChannels DEF Signal, actorVars
  <2> QED
    BY <1>2, <1>4, <2>2, <2>3 DEF DiagnosticsTypeOK, Signal, Publication, fileVars, publisherVars, cacheVars, actorVars
<1> QED
  BY <1>3, <1>4 DEF HandleDiagnostics

LEMMA ChangeType ==
  ASSUME DiagnosticsTypeOK, NEW a \in Actors, NotifyChange(a) PROVE DiagnosticsTypeOK'
<1>1. CASE ChangeStore(a)
  BY <1>1 DEF DiagnosticsTypeOK, ChangeStore, Labels, Revs, publisherVars, cacheVars, chanVars, actorVars
<1>2. CASE ChangeReset(a)
  <2>1. chans' \in 0..MaxChans /\ ready' \in 0..chans' /\ tokens' \subseteq 1..chans' /\ chan' \in [Actors -> 0..chans']
    BY <1>2, NewChannelFacts, MoreChannels DEF ChangeReset
  <2>2. NothingUnderWay(a) \in BOOLEAN
    BY DEF NothingUnderWay
  <2>3. clean' \in [Actors -> BOOLEAN]
    BY <1>2, <2>2 DEF DiagnosticsTypeOK, ChangeReset
  <2>4. pc' \in [Actors -> Labels]
    BY <1>2 DEF DiagnosticsTypeOK, ChangeReset, Labels
  <2> QED
    BY <1>2, <2>1, <2>3, <2>4 DEF DiagnosticsTypeOK, ChangeReset, fileVars, publisherVars, cacheVars
<1>3. CASE ChangeSend(a)
  <2>0. rev[a] \in Revs
    BY DEF DiagnosticsTypeOK
  <2>1. toServer' \in Seq(Revs)
    BY <1>3, <2>0, AppendFacts DEF DiagnosticsTypeOK, ChangeSend
  <2>2. TRUE \in BOOLEAN
    BY Zenon
  <2>3. changed' \in [Actors -> BOOLEAN]
    BY <1>3, <2>2 DEF DiagnosticsTypeOK, ChangeSend
  <2>4. pc' \in [Actors -> Labels]
    BY <1>3 DEF DiagnosticsTypeOK, ChangeSend, Labels
  <2> QED
    BY <1>3, <2>1, <2>3, <2>4 DEF DiagnosticsTypeOK, ChangeSend, fileVars, cacheVars, chanVars
<1> QED
  BY <1>1, <1>2, <1>3 DEF NotifyChange

LEMMA SyncType ==
  ASSUME DiagnosticsTypeOK, NEW a \in Actors, SyncOpens(a) PROVE DiagnosticsTypeOK'
<1>0. disk \in Revs
  BY DEF DiagnosticsTypeOK
<1>1. toServer' \in Seq(Revs)
  BY <1>0, AppendFacts DEF DiagnosticsTypeOK, SyncOpens
<1>2. NothingUnderWay(a) \in BOOLEAN /\ TRUE \in BOOLEAN
  BY DEF NothingUnderWay
<1>3. clean' \in [Actors -> BOOLEAN] /\ changed' \in [Actors -> BOOLEAN]
  BY <1>2 DEF DiagnosticsTypeOK, SyncOpens
<1>4. pc' \in [Actors -> Labels] /\ rev' \in [Actors -> Revs]
  BY <1>0 DEF DiagnosticsTypeOK, SyncOpens, Labels
<1> QED
  BY <1>0, <1>1, <1>3, <1>4 DEF DiagnosticsTypeOK, SyncOpens, cacheVars, chanVars

LEMMA BeginType ==
  ASSUME DiagnosticsTypeOK, NEW a \in Actors, NEW next \in {"idle", "sync", "lookup"}, BeginChange(a, next)
  PROVE  pc' \in [Actors -> Labels] /\ after' \in [Actors -> {"idle", "sync", "lookup"}]
BY DEF DiagnosticsTypeOK, BeginChange, Labels

LEMMA WaitType ==
  ASSUME DiagnosticsTypeOK, NEW a \in Actors, WaitForDiagnostics(a) \/ Fetch(a) PROVE DiagnosticsTypeOK'
<1>1. pc' \in [Actors -> Labels]
  <2>1. \A l \in {"idle", "waiting", "fetch"} : l \in Labels
    BY DEF Labels
  <2>2. pc \in [Actors -> Labels]
    BY DEF DiagnosticsTypeOK
  <2>3. \/ pc' = [pc EXCEPT ![a] = "waiting"] \/ pc' = [pc EXCEPT ![a] = "fetch"]
        \/ pc' = [pc EXCEPT ![a] = "idle"]
    BY Zenon DEF WaitForDiagnostics, WaitLookup, WaitSignalled, WaitTimesOut, Fetch
  <2> QED
    BY <2>1, <2>2, <2>3
<1>2. CASE WaitLookup(a)
  <2>1. chans' \in {chans, chans + 1} /\ chans' <= MaxChans /\ ready' \in 0..chans'
    BY <1>2, NewChannelFacts DEF DiagnosticsTypeOK, WaitLookup
  <2>2. chan \in [Actors -> 0..chans'] /\ tokens \subseteq 1..chans' /\ chans' \in 0..MaxChans
    BY <2>1, MoreChannels
  <2>3. chan' \in [Actors -> 0..chans']
    BY <1>2, <2>1, <2>2 DEF WaitLookup
  <2> QED
    BY <1>1, <1>2, <2>1, <2>2, <2>3 DEF DiagnosticsTypeOK, WaitLookup, fileVars, publisherVars, cacheVars
<1>3. CASE WaitSignalled(a)
  <2>1. woken' \in [Actors -> BOOLEAN]
    <3>1. TRUE \in BOOLEAN
      BY Zenon
    <3> QED
      BY <1>3, <3>1 DEF DiagnosticsTypeOK, WaitSignalled
  <2> QED
    BY <1>1, <1>3, <2>1 DEF DiagnosticsTypeOK, WaitSignalled, fileVars, publisherVars, cacheVars
<1>4. CASE WaitTimesOut(a)
  BY <1>1, <1>4 DEF DiagnosticsTypeOK, WaitTimesOut, fileVars, publisherVars, cacheVars, chanVars, actorVars
<1>5. CASE Fetch(a)
  <2>1. /\ woken' \in [Actors -> BOOLEAN] /\ changed' \in [Actors -> BOOLEAN]
        /\ clean' \in [Actors -> BOOLEAN]
    <3>1. FALSE \in BOOLEAN
      BY Zenon
    <3> QED
      BY <1>5, <3>1 DEF DiagnosticsTypeOK, Fetch
  <2>2. rev' \in [Actors -> Revs] /\ chan' \in [Actors -> 0..chans]
    BY <1>5 DEF DiagnosticsTypeOK, Fetch, Revs
  <2> QED
    BY <1>1, <1>5, <2>1, <2>2 DEF DiagnosticsTypeOK, Fetch, fileVars, publisherVars, cacheVars, chanVars
<1> QED
  BY <1>2, <1>3, <1>4, <1>5 DEF WaitForDiagnostics

LEMMA CheckerType ==
  ASSUME DiagnosticsTypeOK, NEW a \in Actors, CheckerStep(a) PROVE DiagnosticsTypeOK'
<1>1. CASE Edit(a)
  <2>1. disk' \in Revs \ {0} /\ rev' \in [Actors -> Revs]
    BY <1>1 DEF DiagnosticsTypeOK, Edit, Revs
  <2>2. pc' \in [Actors -> Labels] /\ after' \in [Actors -> {"idle", "sync", "lookup"}]
    BY <1>1, BeginType DEF Edit
  <2> QED
    BY <1>1, <2>1, <2>2 DEF DiagnosticsTypeOK, Edit, publisherVars, cacheVars, chanVars
<1>2. CASE Check(a)
  BY <1>2 DEF DiagnosticsTypeOK, Check, Labels, fileVars, publisherVars, cacheVars, chanVars, actorVars
<1>3. CASE SyncInStep(a)
  BY <1>3 DEF DiagnosticsTypeOK, SyncInStep, Labels, fileVars, publisherVars, cacheVars, chanVars, actorVars
<1>4. CASE SyncChanges(a)
  <2>1. rev' \in [Actors -> Revs]
    BY <1>4 DEF DiagnosticsTypeOK, SyncChanges, Revs
  <2>2. pc' \in [Actors -> Labels] /\ after' \in [Actors -> {"idle", "sync", "lookup"}]
    BY <1>4, BeginType DEF SyncChanges
  <2> QED
    BY <1>4, <2>1, <2>2 DEF DiagnosticsTypeOK, SyncChanges, fileVars, publisherVars, cacheVars, chanVars
<1> QED
  BY <1>1, <1>2, <1>3, <1>4, SyncType, WaitType DEF CheckerStep

LEMMA TimerType ==
  ASSUME DiagnosticsTypeOK, NEW a \in Actors, TimerFires(a) PROVE DiagnosticsTypeOK'
<1>1. rev' \in [Actors -> Revs]
  BY DEF DiagnosticsTypeOK, TimerFires, Revs
<1>2. pc' \in [Actors -> Labels] /\ after' \in [Actors -> {"idle", "sync", "lookup"}]
  BY BeginType DEF TimerFires
<1> QED
  BY <1>1, <1>2 DEF DiagnosticsTypeOK, TimerFires, fileVars, publisherVars, cacheVars, chanVars

LEMMA TypeStep == DiagnosticsTypeOK /\ [DiagnosticsNext]_DiagnosticsVars => DiagnosticsTypeOK'
<1> SUFFICES ASSUME DiagnosticsTypeOK, [DiagnosticsNext]_DiagnosticsVars PROVE DiagnosticsTypeOK'
  OBVIOUS
<1>1. CASE WriteDisk
  BY <1>1 DEF DiagnosticsTypeOK, WriteDisk, Revs, publisherVars, cacheVars, chanVars, actorVars
<1>2. CASE UNCHANGED DiagnosticsVars
  BY <1>2 DEF DiagnosticsTypeOK, DiagnosticsVars, fileVars, publisherVars, cacheVars, chanVars, actorVars
<1> QED
  BY <1>1, <1>2, ServerType, ReadType, HandleType, ChangeType, TimerType, CheckerType
     DEF DiagnosticsNext, Actors

(* Every variable keeps its type.                                          *)
THEOREM DiagnosticsTypeCorrect == DiagnosticsSpec => []DiagnosticsTypeOK
<1> QED
  BY InitType, TypeStep, PTL DEF DiagnosticsSpec

(***************************************************************************)
(* Freshness.  While a check that found nothing older under way is on its  *)
(* way to the cache, everything under way is as new as its text, and the   *)
(* channel it will wait on is full only when the cache is.                 *)
(***************************************************************************)
RevsBounded == \A a \in Actors : rev[a] <= disk /\ (Changing(a) => rev[a] # 0)

Unopened ==
  known = 0 => /\ tokens = {} /\ pubs = <<>> /\ ~owed /\ toServer = <<>>
               /\ NobodyChanges

Locals ==
  \A a \in Checkers :
    /\ Changing(a) => after[a] # "idle"
    /\ At(a, "idle") => ~clean[a]
    /\ woken[a] => At(a, "fetch")

Kept == {"send", "sync", "lookup", "waiting", "fetch"}

NewerUnderWay(a) ==
  /\ \A b \in Actors \ {a} : Changing(b) => rev[b] >= rev[a]
  /\ \A i \in DOMAIN toServer : toServer[i] >= rev[a]
  /\ owed => have >= rev[a]
  /\ \A i \in DOMAIN pubs : pubs[i].stage # "handled" => pubs[i].rev >= rev[a]

NewerInCache(a) ==
  /\ \A i \in DOMAIN pubs : pubs[i].stage = "rotated" => current >= rev[a]
  /\ ready \in tokens => current >= rev[a]
  /\ At(a, "waiting") /\ chan[a] \in tokens => current >= rev[a]
  /\ At(a, "fetch") /\ woken[a] => current >= rev[a]

Fresh(a) == clean[a] /\ pc[a] \in Kept => NewerUnderWay(a) /\ NewerInCache(a)
FreshInv == RevsBounded /\ Unopened /\ Locals /\ \A a \in Checkers : Fresh(a)

LEMMA FreshInit == DiagnosticsInit => FreshInv
BY DEF DiagnosticsInit, FreshInv, RevsBounded, Unopened, Locals, Fresh, NobodyChanges, Changing, Actors

LEMMA RevsStep ==
  ASSUME DiagnosticsTypeOK, RevsBounded, [DiagnosticsNext]_DiagnosticsVars PROVE RevsBounded'
<1> SUFFICES ASSUME NEW a \in Actors
             PROVE  rev'[a] <= disk' /\ (Changing(a)' => rev'[a] # 0)
  BY DEF RevsBounded
<1>1. /\ rev \in [Actors -> Nat] /\ pc \in [Actors -> Labels] /\ disk \in Nat \ {0}
      /\ after \in [Actors -> {"idle", "sync", "lookup"}]
      /\ rev[a] <= disk /\ (Changing(a) => rev[a] # 0)
  BY DEF DiagnosticsTypeOK, RevsBounded, Revs
<1> USE <1>1 DEF Changing, fileVars, actorVars, BeginChange
<1>2. CASE WriteDisk
  BY <1>2 DEF WriteDisk
<1>3. CASE UNCHANGED <<fileVars, pc, actorVars>>
  BY <1>3
<1>4. ASSUME NEW b \in Actors, NotifyChange(b) PROVE rev'[a] <= disk' /\ (Changing(a)' => rev'[a] # 0)
  BY <1>4 DEF NotifyChange, ChangeStore, ChangeReset, ChangeSend
<1>5. ASSUME NEW b \in Actors, TimerFires(b) PROVE rev'[a] <= disk' /\ (Changing(a)' => rev'[a] # 0)
  BY <1>5 DEF TimerFires
<1>6. ASSUME NEW b \in Actors, CheckerStep(b) PROVE rev'[a] <= disk' /\ (Changing(a)' => rev'[a] # 0)
  <2>1. CASE Edit(b)
    BY <2>1 DEF Edit
  <2>2. CASE Check(b) \/ SyncOpens(b) \/ SyncInStep(b) \/ SyncChanges(b)
    BY <2>2 DEF Check, SyncOpens, SyncInStep, SyncChanges
  <2>3. CASE WaitForDiagnostics(b) \/ Fetch(b)
    BY <2>3 DEF WaitForDiagnostics, WaitLookup, WaitSignalled, WaitTimesOut, Fetch
  <2> QED
    BY <1>6, <2>1, <2>2, <2>3 DEF CheckerStep
<1>7. CASE ServerStep \/ ReadNotification \/ \E i \in DOMAIN pubs : HandleDiagnostics(i)
  BY <1>3, <1>7 DEF ServerStep, ServerReceives, ServerPublishes, ReadNotification,
     HandleDiagnostics, Rotate, Signal
<1> QED
  BY <1>2, <1>3, <1>4, <1>5, <1>6, <1>7 DEF DiagnosticsNext, DiagnosticsVars, Actors

LEMMA UnopenedStep ==
  ASSUME DiagnosticsTypeOK, RevsBounded, Unopened, [DiagnosticsNext]_DiagnosticsVars PROVE Unopened'
<1> SUFFICES ASSUME known' = 0
             PROVE  tokens' = {} /\ pubs' = <<>> /\ ~owed' /\ toServer' = <<>> /\ NobodyChanges'
  BY DEF Unopened
<1>0. pc \in [Actors -> Labels] /\ disk # 0
  BY DEF DiagnosticsTypeOK
<1>1. known = 0
  <2>1. \A b \in Actors : ChangeStore(b) => known' # 0
    BY DEF ChangeStore, RevsBounded, Changing
  <2>2. \A b \in Actors : SyncOpens(b) => known' # 0
    BY <1>0 DEF SyncOpens
  <2>3. known' = known \/ \E b \in Actors : ChangeStore(b) \/ SyncOpens(b)
    BY DEF DiagnosticsNext, DiagnosticsVars, fileVars, WriteDisk, ServerStep, ServerReceives, ServerPublishes,
       ReadNotification, HandleDiagnostics, Rotate, Signal, NotifyChange, ChangeReset, ChangeSend,
       TimerFires, CheckerStep, Edit, Check, SyncInStep, SyncChanges, WaitForDiagnostics,
       WaitLookup, WaitSignalled, WaitTimesOut, Fetch, Actors
  <2> QED
    BY <2>1, <2>2, <2>3
<1>2. tokens = {} /\ pubs = <<>> /\ ~owed /\ toServer = <<>> /\ \A b \in Actors : ~Changing(b)
  BY <1>1 DEF Unopened, NobodyChanges
<1> USE DEF NobodyChanges, Changing, fileVars, publisherVars, chanVars, actorVars
<1>3. CASE WriteDisk \/ UNCHANGED DiagnosticsVars
  BY <1>2, <1>3 DEF WriteDisk, DiagnosticsVars
<1>4. CASE ServerStep \/ ReadNotification \/ \E i \in DOMAIN pubs : HandleDiagnostics(i)
  <2>1. ~ServerReceives /\ ~ServerPublishes
    BY <1>2 DEF ServerReceives, ServerPublishes
  <2>2. \A i \in DOMAIN pubs : FALSE
    BY <1>2
  <2> QED
    BY <1>4, <2>1, <2>2 DEF ServerStep, ReadNotification
<1>5. ASSUME NEW b \in Actors, NotifyChange(b) PROVE FALSE
  BY <1>2, <1>5 DEF NotifyChange, ChangeStore, ChangeReset, ChangeSend
<1>6. ASSUME NEW b \in Actors, TimerFires(b) PROVE FALSE
  BY <1>1, <1>6 DEF TimerFires
<1>7. ASSUME NEW b \in Actors, CheckerStep(b)
      PROVE  tokens' = {} /\ pubs' = <<>> /\ ~owed' /\ toServer' = <<>> /\ NobodyChanges'
  <2>1. ~Edit(b) /\ ~SyncChanges(b) /\ ~SyncOpens(b)
    BY <1>0, <1>1 DEF Edit, SyncChanges, SyncOpens
  <2>2. CASE Check(b) \/ SyncInStep(b)
    BY <1>0, <1>2, <2>2 DEF Check, SyncInStep
  <2>3. CASE WaitForDiagnostics(b) \/ Fetch(b)
    BY <1>0, <1>2, <2>3 DEF WaitForDiagnostics, WaitLookup, WaitSignalled, WaitTimesOut, Fetch
  <2> QED
    BY <1>7, <2>1, <2>2, <2>3 DEF CheckerStep
<1> QED
  BY <1>3, <1>4, <1>5, <1>6, <1>7 DEF DiagnosticsNext, Actors

LEMMA LocalsStep ==
  ASSUME DiagnosticsTypeOK, Locals, [DiagnosticsNext]_DiagnosticsVars PROVE Locals'
<1> SUFFICES ASSUME NEW a \in Checkers
             PROVE  /\ Changing(a)' => after'[a] # "idle"
                    /\ At(a, "idle")' => ~clean'[a]
                    /\ woken'[a] => At(a, "fetch")'
  BY DEF Locals
<1> DEFINE Good == /\ Changing(a)' => after'[a] # "idle"
                   /\ At(a, "idle")' => ~clean'[a]
                   /\ woken'[a] => At(a, "fetch")'
<1>1. /\ Changing(a) => after[a] # "idle"
      /\ At(a, "idle") => ~clean[a]
      /\ woken[a] => At(a, "fetch")
      /\ pc \in [Actors -> Labels] /\ after \in [Actors -> {"idle", "sync", "lookup"}]
      /\ clean \in [Actors -> BOOLEAN] /\ woken \in [Actors -> BOOLEAN]
      /\ a \in Actors
  BY DEF DiagnosticsTypeOK, Locals, Actors
<1> USE <1>1 DEF Changing, actorVars, BeginChange
<1>2. CASE UNCHANGED <<pc, actorVars>>
  BY <1>2
<1>3. ASSUME NEW b \in Actors, NotifyChange(b) PROVE Good
  BY <1>3 DEF NotifyChange, ChangeStore, ChangeReset, ChangeSend
<1>4. ASSUME NEW b \in Timers, TimerFires(b) PROVE Good
  <2>1. a # b /\ b \in Actors
    BY DEF Actors
  <2> QED
    BY <1>4, <2>1 DEF TimerFires
<1>5. ASSUME NEW b \in Actors, CheckerStep(b) PROVE Good
  <2>1. CASE Edit(b) \/ Check(b) \/ SyncChanges(b)
    BY <2>1 DEF Edit, Check, SyncChanges
  <2>2. CASE SyncOpens(b) \/ SyncInStep(b)
    BY <2>2 DEF SyncOpens, SyncInStep
  <2>3. CASE WaitForDiagnostics(b) \/ Fetch(b)
    BY <2>3 DEF WaitForDiagnostics, WaitLookup, WaitSignalled, WaitTimesOut, Fetch
  <2> QED
    BY <1>5, <2>1, <2>2, <2>3 DEF CheckerStep
<1>6. CASE WriteDisk \/ ServerStep \/ ReadNotification \/ \E i \in DOMAIN pubs : HandleDiagnostics(i)
  BY <1>2, <1>6 DEF WriteDisk, ServerStep, ServerReceives, ServerPublishes, ReadNotification,
     HandleDiagnostics, Rotate, Signal
<1> QED
  BY <1>2, <1>3, <1>4, <1>5, <1>6 DEF DiagnosticsNext, DiagnosticsVars, Actors

(* The texts and numbers that freshness compares are numbers.              *)
LEMMA Numbers ==
  ASSUME DiagnosticsTypeOK
  PROVE  /\ rev \in [Actors -> Nat] /\ current \in Nat /\ have \in Nat /\ disk \in Nat
         /\ toServer \in Seq(Nat) /\ pubs \in Seq(Publication)
         /\ pc \in [Actors -> Labels] /\ clean \in [Actors -> BOOLEAN]
         /\ \A i \in DOMAIN pubs : pubs[i].rev \in Nat
<1>1. pubs \in Seq(Publication) /\ \A i \in DOMAIN pubs : pubs[i].rev \in Revs
  BY PubType DEF DiagnosticsTypeOK, Publication
<1>2. toServer \in Seq(Nat)
  <2>1. toServer \in Seq(Revs) /\ \A i \in DOMAIN toServer : toServer[i] \in Nat
    BY DEF DiagnosticsTypeOK, Revs
  <2>2. Len(toServer) \in Nat /\ DOMAIN toServer = 1..Len(toServer)
    BY <2>1
  <2>3. toServer = [i \in 1..Len(toServer) |-> toServer[i]]
    BY <2>1
  <2>4. toServer \in [1..Len(toServer) -> Nat]
    BY <2>1, <2>2, <2>3
  <2> QED
    BY <2>2, <2>4
<1> QED
  BY <1>1, <1>2 DEF DiagnosticsTypeOK, Revs

LEMMA FreshServer ==
  ASSUME DiagnosticsTypeOK, NEW a \in Checkers, Fresh(a), ServerStep PROVE Fresh(a)'
<1> SUFFICES ASSUME clean'[a], pc'[a] \in Kept PROVE NewerUnderWay(a)' /\ NewerInCache(a)'
  BY DEF Fresh
<1>0. UNCHANGED <<pc, cacheVars, chanVars, actorVars>>
  BY DEF ServerStep, ServerReceives, ServerPublishes
<1>1. NewerUnderWay(a) /\ NewerInCache(a)
  BY <1>0 DEF Fresh, actorVars
<1>2. CASE ServerReceives
  <2>1. /\ toServer \in Seq(Nat) /\ toServer # <<>> /\ have' = Head(toServer)
        /\ toServer' = Tail(toServer) /\ pubs' = pubs
    BY <1>2, Numbers DEF ServerReceives
  <2>2. /\ have' = toServer[1] /\ 1 \in DOMAIN toServer
        /\ \A i \in DOMAIN toServer' : i + 1 \in DOMAIN toServer /\ toServer'[i] = toServer[i + 1]
    BY <2>1
  <2>3. NewerUnderWay(a)'
    BY <1>0, <1>1, <2>1, <2>2 DEF NewerUnderWay, Changing, actorVars
  <2>4. NewerInCache(a)'
    BY <1>0, <1>1, <2>1 DEF NewerInCache, actorVars, chanVars, cacheVars
  <2> QED
    BY <2>3, <2>4
<1>3. CASE ServerPublishes
  <2>0. DEFINE p == [rev |-> have, stage |-> "sent"]
  <2>1. /\ p \in Publication /\ pubs \in Seq(Publication) /\ pubs' = Append(pubs, p)
        /\ owed /\ have' = have /\ toServer' = toServer
    BY <1>3, Numbers DEF ServerPublishes, DiagnosticsTypeOK, Publication, Stages
  <2>2. p.rev = have /\ p.stage = "sent"
    OBVIOUS
  <2> HIDE DEF p
  <2>3. \A i \in DOMAIN pubs' : pubs'[i] = p \/ (i \in DOMAIN pubs /\ pubs'[i] = pubs[i])
    BY <2>1
  <2>4. NewerUnderWay(a)'
    BY <1>0, <1>1, <2>1, <2>2, <2>3 DEF NewerUnderWay, Changing, actorVars
  <2>5. NewerInCache(a)'
    BY <1>0, <1>1, <2>2, <2>3 DEF NewerInCache, actorVars, chanVars, cacheVars
  <2> QED
    BY <2>4, <2>5
<1> QED
  BY <1>2, <1>3 DEF ServerStep

(* One publication moves on.                                               *)
LEMMA MovesOn ==
  ASSUME DiagnosticsTypeOK, NEW i \in DOMAIN pubs, NEW g \in Stages,
         pubs' = [pubs EXCEPT ![i].stage = g]
  PROVE  /\ DOMAIN pubs' = DOMAIN pubs /\ pubs'[i].rev = pubs[i].rev /\ pubs'[i].stage = g
         /\ \A j \in DOMAIN pubs \ {i} : pubs'[j] = pubs[j]
         /\ \A j \in DOMAIN pubs : pubs'[j].rev = pubs[j].rev
<1>1. pubs \in Seq(Publication)
  BY Numbers
<1>2. /\ DOMAIN pubs' = DOMAIN pubs /\ pubs'[i].rev = pubs[i].rev /\ pubs'[i].stage = g
      /\ \A j \in DOMAIN pubs \ {i} : pubs'[j] = pubs[j]
  BY <1>1, StageFacts
<1> QED
  BY <1>2

LEMMA FreshRead ==
  ASSUME DiagnosticsTypeOK, NEW a \in Checkers, Fresh(a), ReadNotification PROVE Fresh(a)'
<1> SUFFICES ASSUME clean'[a], pc'[a] \in Kept PROVE NewerUnderWay(a)' /\ NewerInCache(a)'
  BY DEF Fresh
<1>0. UNCHANGED <<pc, publisherVars, cacheVars, chanVars, actorVars>>
  BY DEF ReadNotification
<1>1. NewerUnderWay(a) /\ NewerInCache(a)
  BY <1>0 DEF Fresh, actorVars
<1>2. PICK i \in DOMAIN pubs :
        pubs[i].stage = "sent" /\ pubs' = [pubs EXCEPT ![i].stage = "spawned"]
  BY DEF ReadNotification
<1>3. /\ DOMAIN pubs' = DOMAIN pubs /\ pubs'[i].stage = "spawned"
      /\ \A j \in DOMAIN pubs \ {i} : pubs'[j] = pubs[j]
      /\ \A j \in DOMAIN pubs : pubs'[j].rev = pubs[j].rev
  BY <1>2, MovesOn DEF Stages
<1>4. NewerUnderWay(a)'
  BY <1>0, <1>1, <1>2, <1>3 DEF NewerUnderWay, Changing, actorVars, publisherVars
<1>5. NewerInCache(a)'
  BY <1>0, <1>1, <1>2, <1>3 DEF NewerInCache, actorVars, chanVars, cacheVars
<1> QED
  BY <1>4, <1>5

LEMMA FreshHandle ==
  ASSUME DiagnosticsTypeOK, NEW a \in Checkers, Fresh(a), NEW i \in DOMAIN pubs, HandleDiagnostics(i)
  PROVE  Fresh(a)'
<1> SUFFICES ASSUME clean'[a], pc'[a] \in Kept PROVE NewerUnderWay(a)' /\ NewerInCache(a)'
  BY DEF Fresh
<1>0. UNCHANGED <<pc, publisherVars, actorVars>>
  BY DEF HandleDiagnostics, Rotate, Signal
<1>1. NewerUnderWay(a) /\ NewerInCache(a)
  BY <1>0 DEF Fresh, actorVars
<1>2. CASE Rotate(i)
  <2>1. /\ pubs[i].stage = "spawned" /\ pubs' = [pubs EXCEPT ![i].stage = "rotated"]
        /\ current' = pubs[i].rev
    BY <1>2 DEF Rotate
  <2>2. /\ DOMAIN pubs' = DOMAIN pubs /\ pubs'[i].stage = "rotated"
        /\ \A j \in DOMAIN pubs \ {i} : pubs'[j] = pubs[j]
        /\ \A j \in DOMAIN pubs : pubs'[j].rev = pubs[j].rev
    BY <2>1, MovesOn DEF Stages
  <2>3. NewerUnderWay(a)'
    BY <1>0, <1>1, <2>1, <2>2 DEF NewerUnderWay, Changing, actorVars, publisherVars
  <2>4. current' >= rev'[a]
    BY <1>0, <1>1, <2>1 DEF NewerUnderWay, actorVars
  <2> QED
    BY <2>3, <2>4 DEF NewerInCache
<1>3. CASE Signal(i)
  <2>1. /\ pubs[i].stage = "rotated" /\ pubs' = [pubs EXCEPT ![i].stage = "handled"]
        /\ current' = current
    BY <1>3 DEF Signal, cacheVars
  <2>2. /\ DOMAIN pubs' = DOMAIN pubs /\ pubs'[i].stage = "handled"
        /\ \A j \in DOMAIN pubs \ {i} : pubs'[j] = pubs[j]
        /\ \A j \in DOMAIN pubs : pubs'[j].rev = pubs[j].rev
    BY <2>1, MovesOn DEF Stages
  <2>3. NewerUnderWay(a)'
    BY <1>0, <1>1, <2>1, <2>2 DEF NewerUnderWay, Changing, actorVars, publisherVars
  <2>4. current' >= rev'[a]
    BY <1>0, <1>1, <2>1 DEF NewerInCache, actorVars
  <2> QED
    BY <2>3, <2>4 DEF NewerInCache
<1> QED
  BY <1>2, <1>3 DEF HandleDiagnostics

LEMMA FreshChange ==
  ASSUME DiagnosticsTypeOK, RevsBounded, NEW a \in Checkers, Fresh(a), NEW b \in Actors, NotifyChange(b)
  PROVE  Fresh(a)'
<1> SUFFICES ASSUME clean'[a], pc'[a] \in Kept PROVE NewerUnderWay(a)' /\ NewerInCache(a)'
  BY DEF Fresh
<1>0. /\ a \in Actors /\ rev' = rev /\ pubs' = pubs /\ current' = current
      /\ pc \in [Actors -> Labels] /\ rev \in [Actors -> Nat] /\ clean \in [Actors -> BOOLEAN]
      /\ chan' = chan /\ woken' = woken
  BY Numbers DEF Actors, NotifyChange, ChangeStore, ChangeReset, ChangeSend, actorVars, cacheVars
<1>1. CASE ChangeStore(b)
  <2>1. a # b /\ pc'[a] = pc[a] /\ pc' = [pc EXCEPT ![b] = "reset"] /\ pc[b] = "store"
    BY <1>0, <1>1 DEF ChangeStore, Kept
  <2>2. UNCHANGED <<publisherVars, chanVars, clean>>
    BY <1>1 DEF ChangeStore, actorVars
  <2>3. NewerUnderWay(a) /\ NewerInCache(a)
    BY <2>1, <2>2 DEF Fresh
  <2>4. NewerUnderWay(a)'
    BY <1>0, <2>1, <2>2, <2>3 DEF NewerUnderWay, Changing, publisherVars
  <2>5. NewerInCache(a)'
    BY <1>0, <2>1, <2>2, <2>3 DEF NewerInCache, chanVars
  <2> QED
    BY <2>4, <2>5
<1>2. CASE ChangeReset(b)
  <2>1. UNCHANGED publisherVars /\ tokens' = tokens /\ ready' \notin tokens
    BY <1>2, NewChannelFacts DEF ChangeReset
  <2>2. pc' = [pc EXCEPT ![b] = "send"] /\ pc[b] = "reset"
    BY <1>2 DEF ChangeReset
  <2>3. CASE a = b
    <3>1. NothingUnderWay(a)
      BY <1>0, <1>2, <2>3 DEF ChangeReset
    <3>2. NewerUnderWay(a)'
      BY <1>0, <2>1, <2>2, <2>3, <3>1 DEF NothingUnderWay, Settled, NewerUnderWay, Changing, publisherVars
    <3>3. \A i \in DOMAIN pubs : pubs[i].stage # "rotated"
      BY <3>1 DEF NothingUnderWay, Settled
    <3>4. pc'[a] = "send"
      BY <1>0, <2>2, <2>3
    <3> QED
      BY <1>0, <2>1, <3>2, <3>3, <3>4 DEF NewerInCache
  <2>4. CASE a # b
    <3>1. pc'[a] = pc[a] /\ clean'[a] = clean[a]
      BY <1>0, <1>2, <2>2, <2>4 DEF ChangeReset
    <3>2. NewerUnderWay(a) /\ NewerInCache(a)
      BY <3>1 DEF Fresh
    <3>3. NewerUnderWay(a)'
      BY <1>0, <2>1, <2>2, <3>1, <3>2 DEF NewerUnderWay, Changing, publisherVars
    <3>4. NewerInCache(a)'
      BY <1>0, <2>1, <3>1, <3>2 DEF NewerInCache
    <3> QED
      BY <3>3, <3>4
  <2> QED
    BY <2>3, <2>4
<1>3. CASE ChangeSend(b)
  <2>1. /\ toServer' = Append(toServer, rev[b]) /\ have' = have /\ owed' = owed
        /\ clean' = clean /\ UNCHANGED chanVars
        /\ pc' = [pc EXCEPT ![b] = after[b]] /\ pc[b] = "send"
    BY <1>3 DEF ChangeSend
  <2>2. pc[a] \in Kept
    BY <1>0, <2>1 DEF Kept
  <2>3. NewerUnderWay(a) /\ NewerInCache(a)
    BY <2>1, <2>2 DEF Fresh
  <2>4. rev[b] >= rev[a]
    BY <1>0, <2>1, <2>3 DEF NewerUnderWay, Changing
  <2>5. \A i \in DOMAIN toServer' : toServer'[i] >= rev[a]
    <3>1. toServer \in Seq(Nat) /\ rev[b] \in Nat
      BY <1>0, Numbers
    <3>2. \A i \in DOMAIN toServer' : toServer'[i] = rev[b] \/ (i \in DOMAIN toServer /\ toServer'[i] = toServer[i])
      BY <2>1, <3>1
    <3> QED
      BY <2>3, <2>4, <3>2 DEF NewerUnderWay
  <2>6. \A c \in Actors \ {a} : Changing(c)' => rev[c] >= rev[a]
    BY <1>0, <2>1, <2>3, <2>4 DEF NewerUnderWay, Changing
  <2>7. NewerUnderWay(a)'
    BY <1>0, <2>1, <2>3, <2>5, <2>6 DEF NewerUnderWay
  <2>8. pc'[a] # "waiting" \/ pc'[a] = pc[a]
    BY <1>0, <2>1 DEF DiagnosticsTypeOK
  <2>9. pc'[a] # "fetch" \/ pc'[a] = pc[a]
    BY <1>0, <2>1 DEF DiagnosticsTypeOK
  <2>10. NewerInCache(a)'
    BY <1>0, <2>1, <2>3, <2>8, <2>9 DEF NewerInCache, chanVars
  <2> QED
    BY <2>7, <2>10
<1> QED
  BY <1>1, <1>2, <1>3 DEF NotifyChange

(* Another goroutine begins a change: of a text that is at least as new.   *)
LEMMA FreshOther ==
  ASSUME DiagnosticsTypeOK, RevsBounded, NEW a \in Checkers, Fresh(a), NEW b \in Actors, a # b,
         pc'[a] = pc[a], rev'[a] = rev[a], clean'[a] = clean[a], chan'[a] = chan[a], woken'[a] = woken[a],
         UNCHANGED <<have, owed, pubs, current>>,
         \A c \in Actors \ {b} : pc'[c] = pc[c] /\ rev'[c] = rev[c],
         Changing(b)' => rev'[b] >= rev[a],
         tokens' \subseteq tokens, ready' = ready \/ ready' \notin tokens',
         \A i \in DOMAIN toServer' : toServer'[i] = disk \/ (i \in DOMAIN toServer /\ toServer'[i] = toServer[i])
  PROVE  Fresh(a)'
<1> SUFFICES ASSUME clean[a], pc[a] \in Kept PROVE NewerUnderWay(a)' /\ NewerInCache(a)'
  BY DEF Fresh
<1>1. NewerUnderWay(a) /\ NewerInCache(a)
  BY DEF Fresh
<1>2. rev[a] <= disk /\ disk \in Nat /\ toServer \in Seq(Nat) /\ rev[a] \in Nat
  BY Numbers DEF RevsBounded, Actors
<1>3. \A i \in DOMAIN toServer' : toServer'[i] >= rev[a]
  <2> SUFFICES ASSUME NEW i \in DOMAIN toServer' PROVE toServer'[i] >= rev[a]
    OBVIOUS
  <2>1. CASE i \in DOMAIN toServer /\ toServer'[i] = toServer[i]
    BY <1>1, <2>1 DEF NewerUnderWay
  <2>2. CASE toServer'[i] = disk
    BY <1>2, <2>2
  <2> QED
    BY <2>1, <2>2
<1>4. \A c \in Actors \ {a} : Changing(c)' => rev'[c] >= rev'[a]
  BY <1>1 DEF NewerUnderWay, Changing
<1>5. NewerUnderWay(a)'
  BY <1>1, <1>3, <1>4 DEF NewerUnderWay
<1>6. NewerInCache(a)'
  BY <1>1 DEF NewerInCache
<1> QED
  BY <1>5, <1>6

LEMMA FreshTimer ==
  ASSUME DiagnosticsTypeOK, RevsBounded, NEW a \in Checkers, Fresh(a), NEW b \in Timers, TimerFires(b)
  PROVE  Fresh(a)'
<1>1. a # b /\ b \in Actors /\ a \in Actors
  BY DEF Actors
<1>2. /\ pc \in [Actors -> Labels] /\ rev \in [Actors -> Nat] /\ disk \in Nat
      /\ pc' = [pc EXCEPT ![b] = "store"] /\ rev' = [rev EXCEPT ![b] = disk]
      /\ clean' = clean /\ chan' = chan /\ woken' = woken
      /\ UNCHANGED <<toServer, have, owed, pubs, current, tokens, ready>>
  BY <1>1, Numbers DEF TimerFires, BeginChange, publisherVars, cacheVars, chanVars
<1>3. rev'[b] >= rev[a]
  BY <1>1, <1>2 DEF RevsBounded
<1>4. /\ pc'[a] = pc[a] /\ rev'[a] = rev[a]
      /\ \A c \in Actors \ {b} : pc'[c] = pc[c] /\ rev'[c] = rev[c]
  BY <1>1, <1>2
<1> QED
  BY <1>1, <1>2, <1>3, <1>4, FreshOther

(* What a step of a tool handler does that is of interest to another one.  *)
LEMMA FreshOtherChecker ==
  ASSUME DiagnosticsTypeOK, RevsBounded, NEW a \in Checkers, Fresh(a), NEW b \in Checkers, a # b, CheckerStep(b)
  PROVE  Fresh(a)'
<1>1. a \in Actors /\ b \in Actors
  BY DEF Actors
<1>2. /\ pc \in [Actors -> Labels] /\ rev \in [Actors -> Nat] /\ disk \in Nat
      /\ clean \in [Actors -> BOOLEAN] /\ woken \in [Actors -> BOOLEAN]
      /\ chan \in [Actors -> 0..chans] /\ toServer \in Seq(Nat) /\ rev[a] <= disk
  BY <1>1, Numbers DEF DiagnosticsTypeOK, RevsBounded
<1>3. UNCHANGED <<have, owed, pubs, current>>
  BY DEF CheckerStep, Edit, Check, SyncOpens, SyncInStep, SyncChanges, WaitForDiagnostics,
     WaitLookup, WaitSignalled, WaitTimesOut, Fetch, publisherVars, cacheVars
<1>4. /\ \A c \in Actors \ {b} : pc'[c] = pc[c] /\ rev'[c] = rev[c]
      /\ clean'[a] = clean[a] /\ chan'[a] = chan[a] /\ woken'[a] = woken[a]
  BY <1>1, <1>2 DEF CheckerStep, Edit, Check, SyncOpens, SyncInStep, SyncChanges, WaitForDiagnostics,
     WaitLookup, WaitSignalled, WaitTimesOut, Fetch, BeginChange, actorVars
<1>5. Changing(b)' => rev'[b] >= rev[a]
  <2>1. CASE Edit(b)
    BY <1>1, <1>2, <2>1 DEF Edit, BeginChange
  <2>2. CASE SyncChanges(b)
    BY <1>1, <1>2, <2>2 DEF SyncChanges, BeginChange
  <2>3. CASE Check(b) \/ SyncOpens(b) \/ SyncInStep(b) \/ WaitForDiagnostics(b) \/ Fetch(b)
    BY <1>1, <1>2, <2>3 DEF Check, SyncOpens, SyncInStep, WaitForDiagnostics,
       WaitLookup, WaitSignalled, WaitTimesOut, Fetch, Changing
  <2> QED
    BY <2>1, <2>2, <2>3 DEF CheckerStep
<1>6. tokens' \subseteq tokens /\ (ready' = ready \/ ready' \notin tokens')
  <2>1. CASE WaitForDiagnostics(b)
    BY <2>1, NewChannelFacts DEF WaitForDiagnostics, WaitLookup, WaitSignalled, WaitTimesOut, chanVars
  <2>2. CASE ~WaitForDiagnostics(b)
    BY <2>2 DEF CheckerStep, Edit, Check, SyncOpens, SyncInStep, SyncChanges, Fetch, chanVars
  <2> QED
    BY <2>1, <2>2
<1>7. \A i \in DOMAIN toServer' : toServer'[i] = disk \/ (i \in DOMAIN toServer /\ toServer'[i] = toServer[i])
  <2>1. CASE SyncOpens(b)
    <3>1. toServer' = Append(toServer, disk)
      BY <2>1 DEF SyncOpens
    <3> QED
      BY <1>2, <3>1
  <2>2. CASE ~SyncOpens(b)
    <3>1. toServer' = toServer
      BY <2>2 DEF CheckerStep, Edit, Check, SyncInStep, SyncChanges, WaitForDiagnostics,
         WaitLookup, WaitSignalled, WaitTimesOut, Fetch, publisherVars
    <3> QED
      BY <3>1
  <2> QED
    BY <2>1, <2>2
<1> QED
  BY <1>1, <1>3, <1>4, <1>5, <1>6, <1>7, FreshOther

LEMMA FreshOwnStep ==
  ASSUME DiagnosticsTypeOK, RevsBounded, Unopened, Locals, NEW a \in Checkers, Fresh(a), CheckerStep(a)
  PROVE  Fresh(a)'
<1> SUFFICES ASSUME clean'[a], pc'[a] \in Kept PROVE NewerUnderWay(a)' /\ NewerInCache(a)'
  BY DEF Fresh
<1>0. /\ a \in Actors /\ pc \in [Actors -> Labels] /\ rev \in [Actors -> Nat] /\ disk \in Nat
      /\ clean \in [Actors -> BOOLEAN] /\ woken \in [Actors -> BOOLEAN] /\ current \in Nat
      /\ chan \in [Actors -> 0..chans] /\ toServer \in Seq(Nat)
      /\ (At(a, "idle") => ~clean[a]) /\ (woken[a] => At(a, "fetch"))
  BY Numbers DEF DiagnosticsTypeOK, Actors, Locals
<1>1. ~Edit(a) /\ ~SyncChanges(a) /\ ~Check(a) /\ ~Fetch(a)
  BY <1>0 DEF Edit, SyncChanges, Check, Fetch, BeginChange, Kept, actorVars
<1>2. CASE SyncOpens(a)
  <2>1. tokens = {} /\ pubs = <<>> /\ ~owed /\ NobodyChanges
    BY <1>2 DEF SyncOpens, Unopened
  <2>2. /\ toServer' = Append(toServer, disk) /\ toServer = <<>> /\ rev' = [rev EXCEPT ![a] = disk]
        /\ pc' = [pc EXCEPT ![a] = "lookup"] /\ UNCHANGED <<owed, have, pubs, tokens, ready>>
    BY <1>2 DEF SyncOpens, Unopened, chanVars
  <2>3. \A i \in DOMAIN toServer' : toServer'[i] = rev'[a]
    BY <1>0, <2>2
  <2>4. /\ \A b \in Actors \ {a} : ~Changing(b)'
        /\ \A i \in DOMAIN pubs' : FALSE
    BY <1>0, <2>1, <2>2 DEF NobodyChanges, Changing
  <2>5. rev'[a] \in Nat
    BY <1>0, <2>2
  <2>6. NewerUnderWay(a)'
    BY <2>1, <2>2, <2>3, <2>4, <2>5 DEF NewerUnderWay
  <2>7. NewerInCache(a)'
    BY <1>0, <2>1, <2>2, <2>4 DEF NewerInCache
  <2> QED
    BY <2>6, <2>7
<1>3. CASE SyncInStep(a) \/ WaitForDiagnostics(a)
  <2>1. /\ pc[a] \in Kept /\ clean[a] /\ rev' = rev /\ UNCHANGED <<toServer, have, owed, pubs, current>>
        /\ \A b \in Actors \ {a} : pc'[b] = pc[b]
    BY <1>0, <1>3 DEF SyncInStep, WaitForDiagnostics, WaitLookup, WaitSignalled, WaitTimesOut,
       Kept, actorVars, publisherVars, cacheVars
  <2>2. NewerUnderWay(a) /\ NewerInCache(a)
    BY <2>1 DEF Fresh
  <2>3. NewerUnderWay(a)'
    BY <2>1, <2>2 DEF NewerUnderWay, Changing
  <2>4. NewerInCache(a)'
    <3>1. CASE SyncInStep(a)
      BY <1>0, <2>1, <2>2, <3>1 DEF NewerInCache, SyncInStep, chanVars, actorVars
    <3>2. CASE WaitLookup(a)
      <4>1. tokens' = tokens /\ chan'[a] = ready' /\ (ready' = ready \/ ready' \notin tokens)
        BY <1>0, <3>2, NewChannelFacts DEF WaitLookup
      <4>2. pc'[a] = "waiting"
        BY <1>0, <3>2 DEF WaitLookup
      <4> QED
        BY <2>1, <2>2, <4>1, <4>2 DEF NewerInCache
    <3>3. CASE WaitSignalled(a)
      <4>1. chan[a] \in tokens /\ pc[a] = "waiting" /\ ready' = ready
        BY <3>3 DEF WaitSignalled
      <4>2. current >= rev[a]
        BY <2>2, <4>1 DEF NewerInCache
      <4> QED
        BY <2>1, <4>2 DEF NewerInCache
    <3>4. CASE WaitTimesOut(a)
      <4>1. pc'[a] = "fetch" /\ ~woken'[a] /\ UNCHANGED <<ready, tokens>>
        BY <1>0, <3>4 DEF WaitTimesOut, actorVars, chanVars
      <4> QED
        BY <2>1, <2>2, <4>1 DEF NewerInCache
    <3> QED
      BY <1>3, <3>1, <3>2, <3>3, <3>4 DEF WaitForDiagnostics
  <2> QED
    BY <2>3, <2>4
<1> QED
  BY <1>1, <1>2, <1>3 DEF CheckerStep

LEMMA FreshStep == DiagnosticsTypeOK /\ FreshInv /\ [DiagnosticsNext]_DiagnosticsVars => FreshInv'
<1> SUFFICES ASSUME DiagnosticsTypeOK, FreshInv, [DiagnosticsNext]_DiagnosticsVars PROVE FreshInv'
  OBVIOUS
<1>1. RevsBounded /\ Unopened /\ Locals /\ \A a \in Checkers : Fresh(a)
  BY DEF FreshInv
<1>2. RevsBounded' /\ Unopened' /\ Locals'
  BY <1>1, RevsStep, UnopenedStep, LocalsStep
<1>3. ASSUME NEW a \in Checkers PROVE Fresh(a)'
  <2>0. Fresh(a) /\ Checkers \subseteq Actors /\ Timers \subseteq Actors
    BY <1>1 DEF Actors
  <2>1. CASE WriteDisk \/ UNCHANGED DiagnosticsVars
    BY <2>0, <2>1 DEF WriteDisk, DiagnosticsVars, Fresh, NewerUnderWay, NewerInCache, Changing,
       publisherVars, cacheVars, chanVars, actorVars
  <2>2. ASSUME NEW b \in Checkers, CheckerStep(b) PROVE Fresh(a)'
    BY <1>1, <2>0, <2>2, FreshOwnStep, FreshOtherChecker
  <2> QED
    BY <1>1, <2>0, <2>1, <2>2, FreshServer, FreshRead, FreshHandle, FreshChange, FreshTimer DEF DiagnosticsNext
<1> QED
  BY <1>2, <1>3 DEF FreshInv

(* A check that was woken after a change it made while nothing older was   *)
(* under way reads diagnostics of its text or of a newer one, for any      *)
(* number of handlers and timers and any order of the handling goroutines. *)
THEOREM WokenIsFresh == DiagnosticsSpec => []FreshWhenWoken
<1>1. FreshInv => FreshWhenWoken
  BY DEF FreshInv, Fresh, NewerInCache, FreshWhenWoken, Kept
<1> QED
  BY <1>1, InitType, TypeStep, FreshInit, FreshStep, PTL DEF DiagnosticsSpec

(***************************************************************************)
(* The diff.  What a fresh check compares its diagnostics with: as long as *)
(* one publication for its text has been rotated in, what that one has     *)
(* replaced is older.                                                      *)
(***************************************************************************)
InCache == {i \in DOMAIN pubs : pubs[i].stage \in {"rotated", "handled"}}
Seen(a) == {i \in DOMAIN pubs : pubs[i].rev >= rev[a] /\ pubs[i].stage \in {"rotated", "handled"}}

(* The cache holds a publication that was rotated in.                      *)
CacheInv == current = 0 \/ \E i \in InCache : pubs[i].rev = current

(* What may wake the check, or has: a publication came after its change.   *)
Told(a) ==
  \/ \E i \in DOMAIN pubs : pubs[i].stage = "rotated"
  \/ ready \in tokens
  \/ At(a, "waiting") /\ chan[a] \in tokens
  \/ At(a, "fetch") /\ woken[a]

DiffAt(a) ==
  clean[a] /\ pc[a] \in Kept =>
    rev[a] # 0 /\ (Told(a) => \A i \in Seen(a) : Seen(a) = {i} => previous < rev[a])

DiffInv == CacheInv /\ \A a \in Checkers : DiffAt(a)

LEMMA DiffInit == DiagnosticsInit => DiffInv
BY DEF DiagnosticsInit, DiffInv, CacheInv, DiffAt, Actors

LEMMA CacheStep == DiagnosticsTypeOK /\ CacheInv /\ [DiagnosticsNext]_DiagnosticsVars => CacheInv'
<1> SUFFICES ASSUME DiagnosticsTypeOK, CacheInv, [DiagnosticsNext]_DiagnosticsVars PROVE CacheInv'
  OBVIOUS
<1>1. CASE pubs' = pubs /\ current' = current
  BY <1>1 DEF CacheInv, InCache
<1>2. CASE ServerPublishes
  <2>1. [rev |-> have, stage |-> "sent"] \in Publication /\ pubs \in Seq(Publication)
    BY Numbers DEF DiagnosticsTypeOK, Publication, Stages
  <2>2. current' = current /\ \A i \in DOMAIN pubs : i \in DOMAIN pubs' /\ pubs'[i] = pubs[i]
    BY <1>2, <2>1 DEF ServerPublishes, cacheVars
  <2> QED
    BY <2>2 DEF CacheInv, InCache
<1>3. ASSUME NEW i \in DOMAIN pubs, NEW g \in Stages, pubs' = [pubs EXCEPT ![i].stage = g],
             current' = current, pubs[i].stage \in {"sent", "rotated"}, g # "sent",
             pubs[i].stage = "rotated" => g = "handled"
      PROVE  CacheInv'
  <2>1. /\ DOMAIN pubs' = DOMAIN pubs /\ pubs'[i].rev = pubs[i].rev /\ pubs'[i].stage = g
        /\ \A j \in DOMAIN pubs \ {i} : pubs'[j] = pubs[j]
    BY <1>3, MovesOn
  <2> QED
    BY <1>3, <2>1 DEF CacheInv, InCache
<1>4. ASSUME NEW i \in DOMAIN pubs, Rotate(i) PROVE CacheInv'
  <2>1. i \in DOMAIN pubs' /\ pubs'[i].rev = pubs[i].rev /\ pubs'[i].stage = "rotated"
    BY <1>4, MovesOn DEF Rotate, Stages
  <2>2. current' = pubs[i].rev
    BY <1>4 DEF Rotate
  <2> QED
    BY <2>1, <2>2 DEF CacheInv, InCache
<1>5. CASE ReadNotification
  BY <1>3, <1>5 DEF ReadNotification, Stages, cacheVars
<1>6. ASSUME NEW i \in DOMAIN pubs, Signal(i) PROVE CacheInv'
  BY <1>3, <1>6 DEF Signal, Stages, cacheVars
<1>7. \/ pubs' = pubs /\ current' = current
      \/ ServerPublishes \/ ReadNotification \/ \E i \in DOMAIN pubs : Rotate(i) \/ Signal(i)
  BY DEF DiagnosticsNext, DiagnosticsVars, WriteDisk, ServerStep, ServerReceives, HandleDiagnostics, NotifyChange, ChangeStore,
     ChangeReset, ChangeSend, TimerFires, CheckerStep, Edit, Check, SyncOpens, SyncInStep, SyncChanges,
     WaitForDiagnostics, WaitLookup, WaitSignalled, WaitTimesOut, Fetch, cacheVars
<1> QED
  BY <1>1, <1>2, <1>4, <1>5, <1>6, <1>7

(* A step that leaves the publications alone and gives no signal.          *)
LEMMA DiffKept ==
  ASSUME NEW a \in Checkers, DiffAt(a), pc[a] \in Kept, UNCHANGED <<pubs, previous>>,
         rev'[a] = rev[a], clean'[a] = clean[a], Told(a)' => Told(a)
  PROVE  DiffAt(a)'
BY DEF DiffAt, Seen

LEMMA DiffOther ==
  ASSUME NEW a \in Checkers, DiffAt(a), UNCHANGED <<pubs, previous>>, pc'[a] = pc[a], rev'[a] = rev[a],
         clean'[a] = clean[a], chan'[a] = chan[a], woken'[a] = woken[a],
         tokens' \subseteq tokens, ready' = ready \/ ready' \notin tokens'
  PROVE  DiffAt(a)'
<1>1. Told(a)' => Told(a)
  BY DEF Told
<1> QED
  BY <1>1 DEF DiffAt, Seen

(* The server publishes, and the reader starts a handler.                  *)
LEMMA DiffUnderWay ==
  ASSUME DiagnosticsTypeOK, NEW a \in Checkers, DiffAt(a), ServerPublishes \/ ReadNotification
  PROVE  DiffAt(a)'
<1>1. UNCHANGED <<pc, previous, chanVars, actorVars>>
  BY DEF ServerPublishes, ReadNotification, cacheVars
<1>2. CASE ServerPublishes
  <2>1. [rev |-> have, stage |-> "sent"] \in Publication /\ pubs \in Seq(Publication)
    BY Numbers DEF DiagnosticsTypeOK, Publication, Stages
  <2>2. PICK p \in Publication : p.stage = "sent" /\ pubs' = Append(pubs, p)
    BY <1>2, <2>1 DEF ServerPublishes
  <2>3. /\ \A i \in DOMAIN pubs' : pubs'[i] = p \/ (i \in DOMAIN pubs /\ pubs'[i] = pubs[i])
        /\ \A i \in DOMAIN pubs : i \in DOMAIN pubs' /\ pubs'[i] = pubs[i]
    BY <2>1, <2>2
  <2>4. Seen(a)' = Seen(a)
    BY <1>1, <2>2, <2>3 DEF Seen, actorVars
  <2>5. Told(a)' => Told(a)
    BY <1>1, <2>2, <2>3 DEF Told, actorVars, chanVars
  <2> QED
    BY <1>1, <2>4, <2>5 DEF DiffAt, actorVars
<1>3. CASE ReadNotification
  <2>1. PICK i \in DOMAIN pubs :
          pubs[i].stage = "sent" /\ pubs' = [pubs EXCEPT ![i].stage = "spawned"]
    BY <1>3 DEF ReadNotification
  <2>2. /\ DOMAIN pubs' = DOMAIN pubs /\ pubs'[i].stage = "spawned"
        /\ \A j \in DOMAIN pubs \ {i} : pubs'[j] = pubs[j]
    BY <2>1, MovesOn DEF Stages
  <2>3. Seen(a)' = Seen(a)
    BY <1>1, <2>1, <2>2 DEF Seen, actorVars
  <2>4. Told(a)' => Told(a)
    BY <1>1, <2>1, <2>2 DEF Told, actorVars, chanVars
  <2> QED
    BY <1>1, <2>3, <2>4 DEF DiffAt, actorVars
<1> QED
  BY <1>2, <1>3

LEMMA DiffHandle ==
  ASSUME DiagnosticsTypeOK, CacheInv, NEW a \in Checkers, Fresh(a), DiffAt(a), NEW i \in DOMAIN pubs, HandleDiagnostics(i)
  PROVE  DiffAt(a)'
<1>0. UNCHANGED <<pc, actorVars>> /\ a \in Actors
  BY DEF HandleDiagnostics, Rotate, Signal, Actors
<1> SUFFICES ASSUME clean[a], pc[a] \in Kept
             PROVE  rev[a] # 0 /\ \A j \in Seen(a)' : Seen(a)' = {j} => previous' < rev[a]
  BY <1>0 DEF DiffAt, actorVars
<1>1. rev[a] # 0 /\ NewerUnderWay(a) /\ (Told(a) => \A j \in Seen(a) : Seen(a) = {j} => previous < rev[a])
  BY DEF DiffAt, Fresh
<1>2. CASE Rotate(i)
  <2>1. /\ pubs[i].stage = "spawned" /\ pubs' = [pubs EXCEPT ![i].stage = "rotated"]
        /\ previous' = current
    BY <1>2 DEF Rotate
  <2>2. /\ DOMAIN pubs' = DOMAIN pubs /\ pubs'[i].stage = "rotated"
        /\ \A j \in DOMAIN pubs \ {i} : pubs'[j] = pubs[j]
        /\ \A j \in DOMAIN pubs : pubs'[j].rev = pubs[j].rev
    BY <2>1, MovesOn DEF Stages
  <2>3. pubs[i].rev >= rev[a]
    BY <1>1, <2>1 DEF NewerUnderWay
  <2>4. i \in Seen(a)' /\ i \notin Seen(a) /\ Seen(a) \subseteq Seen(a)'
    BY <1>0, <2>1, <2>2, <2>3 DEF Seen, actorVars
  <2>5. ASSUME NEW j, Seen(a)' = {j} PROVE previous' < rev[a]
    <3>1. Seen(a) = {}
      BY <2>4, <2>5
    <3>2. current \in Nat /\ rev[a] \in Nat /\ \A k \in InCache : pubs[k].rev \in Nat
      BY <1>0, Numbers DEF InCache
    <3>3. \A k \in InCache : pubs[k].rev < rev[a]
      BY <3>1, <3>2 DEF Seen, InCache
    <3> QED
      BY <1>1, <2>1, <3>2, <3>3 DEF CacheInv
  <2> QED
    BY <1>1, <2>5
<1>3. CASE Signal(i)
  <2>1. /\ pubs[i].stage = "rotated" /\ pubs' = [pubs EXCEPT ![i].stage = "handled"]
        /\ previous' = previous
    BY <1>3 DEF Signal, cacheVars
  <2>2. /\ DOMAIN pubs' = DOMAIN pubs /\ pubs'[i].stage = "handled"
        /\ \A j \in DOMAIN pubs \ {i} : pubs'[j] = pubs[j]
        /\ \A j \in DOMAIN pubs : pubs'[j].rev = pubs[j].rev
    BY <2>1, MovesOn DEF Stages
  <2>3. Told(a)
    BY <2>1 DEF Told
  <2>4. Seen(a)' = Seen(a)
    BY <1>0, <2>1, <2>2 DEF Seen, actorVars
  <2> QED
    BY <1>1, <2>1, <2>3, <2>4
<1> QED
  BY <1>2, <1>3 DEF HandleDiagnostics

LEMMA DiffChange ==
  ASSUME DiagnosticsTypeOK, RevsBounded, NEW a \in Checkers, DiffAt(a), NEW b \in Actors, NotifyChange(b)
  PROVE  DiffAt(a)'
<1>0. /\ a \in Actors /\ rev' = rev /\ UNCHANGED <<pubs, previous, chan, woken>> /\ tokens' = tokens
      /\ pc \in [Actors -> Labels] /\ clean \in [Actors -> BOOLEAN]
  BY Numbers DEF Actors, NotifyChange, ChangeStore, ChangeReset, ChangeSend, actorVars, cacheVars, chanVars
<1>1. CASE ChangeStore(b)
  <2>1. pc' = [pc EXCEPT ![b] = "reset"] /\ clean' = clean /\ ready' = ready
    BY <1>1 DEF ChangeStore, actorVars, chanVars
  <2>2. CASE a = b
    BY <1>0, <2>1, <2>2 DEF DiffAt, Kept
  <2>3. CASE a # b
    BY <1>0, <2>1, <2>3, DiffOther
  <2> QED
    BY <2>2, <2>3
<1>2. CASE ChangeReset(b)
  <2>1. /\ pc' = [pc EXCEPT ![b] = "send"] /\ pc[b] = "reset" /\ ready' \notin tokens'
        /\ clean' = [clean EXCEPT ![b] = NothingUnderWay(b)]
    BY <1>0, <1>2, NewChannelFacts DEF ChangeReset
  <2>2. CASE a = b
    <3> SUFFICES ASSUME clean'[a] PROVE rev'[a] # 0 /\ ~Told(a)'
      BY DEF DiffAt
    <3>1. \A i \in DOMAIN pubs : pubs[i].stage = "handled"
      BY <1>0, <2>1, <2>2 DEF NothingUnderWay, Settled
    <3>2. pc'[a] = "send"
      BY <1>0, <2>1, <2>2
    <3>3. ~Told(a)'
      BY <1>0, <2>1, <3>1, <3>2 DEF Told
    <3> QED
      BY <1>0, <2>1, <2>2, <3>3 DEF RevsBounded, Changing
  <2>3. CASE a # b
    BY <1>0, <2>1, <2>3, DiffOther
  <2> QED
    BY <2>2, <2>3
<1>3. CASE ChangeSend(b)
  <2>1. /\ clean' = clean /\ ready' = ready /\ pc' = [pc EXCEPT ![b] = after[b]] /\ pc[b] = "send"
        /\ after[b] \in {"idle", "sync", "lookup"}
    BY <1>3 DEF ChangeSend, chanVars, DiagnosticsTypeOK
  <2>2. CASE a = b
    <3>1. Told(a)' => Told(a)
      BY <1>0, <2>1, <2>2 DEF Told
    <3> QED
      BY <1>0, <2>1, <2>2, <3>1, DiffKept DEF Kept
  <2>3. CASE a # b
    BY <1>0, <2>1, <2>3, DiffOther
  <2> QED
    BY <2>2, <2>3
<1> QED
  BY <1>1, <1>2, <1>3 DEF NotifyChange

LEMMA DiffOtherChecker ==
  ASSUME DiagnosticsTypeOK, NEW a \in Checkers, DiffAt(a), NEW b \in Checkers, a # b, CheckerStep(b)
  PROVE  DiffAt(a)'
<1>1. a \in Actors /\ b \in Actors
  BY DEF Actors
<1>2. /\ pc \in [Actors -> Labels] /\ rev \in [Actors -> Nat] /\ clean \in [Actors -> BOOLEAN]
      /\ woken \in [Actors -> BOOLEAN] /\ chan \in [Actors -> 0..chans]
  BY Numbers DEF DiagnosticsTypeOK
<1>3. UNCHANGED <<pubs, previous>>
  BY DEF CheckerStep, Edit, Check, SyncOpens, SyncInStep, SyncChanges, WaitForDiagnostics,
     WaitLookup, WaitSignalled, WaitTimesOut, Fetch, cacheVars
<1>4. /\ pc'[a] = pc[a] /\ rev'[a] = rev[a]
      /\ clean'[a] = clean[a] /\ chan'[a] = chan[a] /\ woken'[a] = woken[a]
  BY <1>1, <1>2 DEF CheckerStep, Edit, Check, SyncOpens, SyncInStep, SyncChanges, WaitForDiagnostics,
     WaitLookup, WaitSignalled, WaitTimesOut, Fetch, BeginChange, actorVars
<1>5. tokens' \subseteq tokens /\ (ready' = ready \/ ready' \notin tokens')
  <2>1. CASE WaitForDiagnostics(b)
    BY <2>1, NewChannelFacts DEF WaitForDiagnostics, WaitLookup, WaitSignalled, WaitTimesOut, chanVars
  <2>2. CASE ~WaitForDiagnostics(b)
    BY <2>2 DEF CheckerStep, Edit, Check, SyncOpens, SyncInStep, SyncChanges, Fetch, chanVars
  <2> QED
    BY <2>1, <2>2
<1> QED
  BY <1>3, <1>4, <1>5, DiffOther

LEMMA DiffOwnStep ==
  ASSUME DiagnosticsTypeOK, Unopened, Locals, NEW a \in Checkers, DiffAt(a), CheckerStep(a)
  PROVE  DiffAt(a)'
<1>0. /\ a \in Actors /\ pc \in [Actors -> Labels] /\ rev \in [Actors -> Nat] /\ disk # 0
      /\ clean \in [Actors -> BOOLEAN] /\ woken \in [Actors -> BOOLEAN]
      /\ chan \in [Actors -> 0..chans]
      /\ (At(a, "idle") => ~clean[a]) /\ (woken[a] => At(a, "fetch"))
  BY Numbers DEF DiagnosticsTypeOK, Actors, Locals
<1>1. CASE Edit(a) \/ SyncChanges(a) \/ Check(a) \/ Fetch(a)
  BY <1>0, <1>1 DEF DiffAt, Edit, SyncChanges, Check, Fetch, BeginChange, Kept, actorVars
<1>2. CASE SyncOpens(a)
  <2>1. /\ tokens = {} /\ pubs = <<>> /\ UNCHANGED <<pubs, tokens>>
        /\ pc' = [pc EXCEPT ![a] = "lookup"] /\ rev' = [rev EXCEPT ![a] = disk]
    BY <1>2 DEF SyncOpens, Unopened, chanVars
  <2>2. ~Told(a)'
    BY <1>0, <2>1 DEF Told
  <2> QED
    BY <1>0, <2>1, <2>2 DEF DiffAt
<1>3. CASE SyncInStep(a) \/ WaitForDiagnostics(a)
  <2>1. pc[a] \in Kept /\ clean' = clean /\ rev' = rev /\ UNCHANGED <<pubs, previous>>
    BY <1>3 DEF SyncInStep, WaitForDiagnostics, WaitLookup, WaitSignalled, WaitTimesOut,
       Kept, actorVars, cacheVars
  <2>2. Told(a)' => Told(a)
    <3>1. CASE SyncInStep(a)
      BY <1>0, <2>1, <3>1 DEF Told, SyncInStep, chanVars, actorVars
    <3>2. CASE WaitLookup(a)
      <4>1. tokens' = tokens /\ chan'[a] = ready' /\ (ready' = ready \/ ready' \notin tokens)
        BY <1>0, <3>2, NewChannelFacts DEF WaitLookup
      <4>2. pc'[a] = "waiting"
        BY <1>0, <3>2 DEF WaitLookup
      <4> QED
        BY <2>1, <4>1, <4>2 DEF Told
    <3>3. CASE WaitSignalled(a)
      BY <3>3 DEF Told, WaitSignalled
    <3>4. CASE WaitTimesOut(a)
      <4>1. pc'[a] = "fetch" /\ ~woken'[a] /\ UNCHANGED <<ready, tokens>>
        BY <1>0, <3>4 DEF WaitTimesOut, actorVars, chanVars
      <4> QED
        BY <2>1, <4>1 DEF Told
    <3> QED
      BY <1>3, <3>1, <3>2, <3>3, <3>4 DEF WaitForDiagnostics
  <2> QED
    BY <2>1, <2>2, DiffKept
<1> QED
  BY <1>1, <1>2, <1>3 DEF CheckerStep

LEMMA DiffStep == DiagnosticsTypeOK /\ FreshInv /\ DiffInv /\ [DiagnosticsNext]_DiagnosticsVars => DiffInv'
<1> SUFFICES ASSUME DiagnosticsTypeOK, FreshInv, DiffInv, [DiagnosticsNext]_DiagnosticsVars PROVE DiffInv'
  OBVIOUS
<1>1. RevsBounded /\ Unopened /\ Locals /\ CacheInv /\ \A a \in Checkers : Fresh(a) /\ DiffAt(a)
  BY DEF FreshInv, DiffInv
<1>2. ASSUME NEW a \in Checkers PROVE DiffAt(a)'
  <2>0. DiffAt(a) /\ Fresh(a) /\ Checkers \subseteq Actors
    BY <1>1 DEF Actors
  <2>1. CASE WriteDisk \/ UNCHANGED DiagnosticsVars \/ ServerReceives
    <3>1. UNCHANGED <<pubs, cacheVars, chanVars, pc, actorVars>>
      BY <2>1 DEF WriteDisk, DiagnosticsVars, ServerReceives
    <3> QED
      BY <2>0, <3>1, DiffOther DEF cacheVars, chanVars, actorVars
  <2>2. ASSUME NEW b \in Checkers, CheckerStep(b) PROVE DiffAt(a)'
    BY <1>1, <2>0, <2>2, DiffOwnStep, DiffOtherChecker
  <2>3. ASSUME NEW b \in Timers, TimerFires(b) PROVE DiffAt(a)'
    <3>1. a # b /\ b \in Actors
      BY DEF Actors
    <3>2. /\ pc' = [pc EXCEPT ![b] = "store"] /\ rev' = [rev EXCEPT ![b] = disk]
          /\ UNCHANGED <<clean, chan, woken, pubs, previous, tokens, ready>>
      BY <2>3 DEF TimerFires, BeginChange, cacheVars, chanVars
    <3>3. pc'[a] = pc[a] /\ rev'[a] = rev[a]
      BY <2>0, <3>1, <3>2, Numbers
    <3> QED
      BY <2>0, <3>2, <3>3, DiffOther
  <2> QED
    BY <1>1, <2>0, <2>1, <2>2, <2>3, DiffUnderWay, DiffHandle, DiffChange DEF DiagnosticsNext, ServerStep
<1> QED
  BY <1>1, <1>2, CacheStep DEF DiffInv

(* The diff of a fresh check starts from the diagnostics of an older text, *)
(* unless the server has published more than once for the new one, for any *)
(* number of handlers and timers (client.go:667).                          *)
THEOREM DiffIsFresh == DiagnosticsSpec => []DiffStartsBefore
<1>1. DiagnosticsTypeOK /\ DiffInv => DiffStartsBefore
  <2> SUFFICES ASSUME DiagnosticsTypeOK, DiffInv, NEW a \in Checkers, At(a, "fetch"), woken[a], clean[a],
                      Cardinality(Seen(a)) = 1
               PROVE  previous < rev[a]
    BY DEF DiffStartsBefore, Seen
  <2>1. IsFiniteSet(Seen(a))
    <3>1. pubs \in Seq(Publication)
      BY Numbers
    <3>2. Seen(a) \subseteq 1..Len(pubs) /\ Len(pubs) \in Nat
      BY <3>1 DEF Seen
    <3>3. \A n \in Nat : n \in Int /\ 1 \in Int
      OBVIOUS
    <3>4. IsFiniteSet(1..Len(pubs))
      BY <3>2, <3>3, FS_Interval
    <3> QED
      BY <3>2, <3>4, FS_Subset
  <2>2. PICK i : Seen(a) = {i}
    BY <2>1, FS_Singleton
  <2>3. Told(a)
    BY DEF Told
  <2> QED
    BY <2>2, <2>3 DEF DiffInv, DiffAt, Kept
<1> QED
  BY <1>1, InitType, TypeStep, FreshInit, FreshStep, DiffInit, DiffStep, PTL DEF DiagnosticsSpec

(***************************************************************************)
(* Wakeups.  From the change of the only tool handler to the end of its    *)
(* wait, the channel of the document is full, or a publication is still to *)
(* come or to be handled, or a change is about to be sent.                 *)
(***************************************************************************)
Coming == ready \in tokens \/ ~Settled \/ ~NobodyChanges

WakeInv ==
  \A a \in Checkers :
    /\ At(a, "idle") => ~changed[a]
    /\ changed[a] /\ pc[a] \in {"sync", "lookup", "waiting"} => Coming

LEMMA WakeInit == DiagnosticsInit => WakeInv
BY DEF DiagnosticsInit, WakeInv, Actors

(* What the server, the reader and the goroutines it starts do is followed *)
(* by a signal.                                                            *)
LEMMA ServerIsComing ==
  ASSUME DiagnosticsTypeOK, ServerStep \/ ReadNotification \/ \E i \in DOMAIN pubs : HandleDiagnostics(i)
  PROVE  Coming'
<1>1. CASE ServerReceives
  BY <1>1 DEF ServerReceives, Coming, Settled
<1>2. CASE ServerPublishes
  <2>1. [rev |-> have, stage |-> "sent"] \in Publication /\ pubs \in Seq(Publication)
    BY Numbers DEF DiagnosticsTypeOK, Publication, Stages
  <2>2. PICK i \in DOMAIN pubs' : pubs'[i] = [rev |-> have, stage |-> "sent"]
    BY <1>2, <2>1 DEF ServerPublishes
  <2> QED
    BY <2>2 DEF Coming, Settled
<1>3. CASE ReadNotification
  <2>1. PICK i \in DOMAIN pubs : pubs' = [pubs EXCEPT ![i].stage = "spawned"]
    BY <1>3 DEF ReadNotification
  <2>2. i \in DOMAIN pubs' /\ pubs'[i].stage = "spawned"
    BY <2>1, MovesOn DEF Stages
  <2> QED
    BY <2>2 DEF Coming, Settled
<1>4. ASSUME NEW i \in DOMAIN pubs, Rotate(i) PROVE Coming'
  <2>1. i \in DOMAIN pubs' /\ pubs'[i].stage = "rotated"
    BY <1>4, MovesOn DEF Rotate, Stages
  <2> QED
    BY <2>1 DEF Coming, Settled
<1>5. ASSUME NEW i \in DOMAIN pubs, Signal(i) PROVE Coming'
  BY <1>5 DEF Signal, Coming
<1> QED
  BY <1>1, <1>2, <1>3, <1>4, <1>5 DEF ServerStep, HandleDiagnostics

LEMMA ChangeIsComing ==
  ASSUME DiagnosticsTypeOK, NEW b \in Actors, NotifyChange(b) PROVE Coming'
<1>0. pc \in [Actors -> Labels]
  BY Numbers
<1>1. CASE ChangeStore(b) \/ ChangeReset(b)
  BY <1>0, <1>1 DEF ChangeStore, ChangeReset, Coming, NobodyChanges, Changing
<1>2. CASE ChangeSend(b)
  <2>1. toServer \in Seq(Revs) /\ rev[b] \in Revs /\ toServer' = Append(toServer, rev[b])
    BY <1>2 DEF DiagnosticsTypeOK, ChangeSend
  <2>2. toServer' # <<>>
    BY <2>1
  <2> QED
    BY <2>2 DEF Coming, Settled
<1> QED
  BY <1>1, <1>2 DEF NotifyChange

LEMMA WakeStep ==
  ASSUME NEW me, Checkers = {me}
  PROVE  DiagnosticsTypeOK /\ Locals /\ WakeInv /\ [DiagnosticsNext]_DiagnosticsVars => WakeInv'
<1> SUFFICES ASSUME DiagnosticsTypeOK, Locals, WakeInv, [DiagnosticsNext]_DiagnosticsVars PROVE WakeInv'
  OBVIOUS
<1> DEFINE Idle == At(me, "idle") => ~changed[me]
           Wakes == changed[me] /\ pc[me] \in {"sync", "lookup", "waiting"} => Coming
<1>0. /\ me \in Actors /\ pc \in [Actors -> Labels] /\ changed \in [Actors -> BOOLEAN]
      /\ (Changing(me) => after[me] # "idle") /\ Idle /\ Wakes
  BY Numbers DEF DiagnosticsTypeOK, Locals, WakeInv, Actors
<1> SUFFICES Idle' /\ Wakes'
  BY DEF WakeInv
<1>1. CASE WriteDisk \/ UNCHANGED DiagnosticsVars
  BY <1>0, <1>1 DEF WriteDisk, DiagnosticsVars, Coming, Settled, NobodyChanges, Changing,
     publisherVars, chanVars, actorVars
<1>2. CASE ServerStep \/ ReadNotification \/ \E i \in DOMAIN pubs : HandleDiagnostics(i)
  <2>1. UNCHANGED <<pc, changed>>
    BY <1>2 DEF ServerStep, ServerReceives, ServerPublishes, ReadNotification,
       HandleDiagnostics, Rotate, Signal, actorVars
  <2> QED
    BY <1>0, <1>2, <2>1, ServerIsComing
<1>3. ASSUME NEW b \in Actors, NotifyChange(b) PROVE Idle' /\ Wakes'
  <2>1. Coming'
    BY <1>3, ChangeIsComing
  <2>2. Idle'
    BY <1>0, <1>3 DEF NotifyChange, ChangeStore, ChangeReset, ChangeSend, Changing, actorVars
  <2> QED
    BY <2>1, <2>2
<1>4. ASSUME NEW b \in Timers, TimerFires(b) PROVE Idle' /\ Wakes'
  <2>1. b # me /\ b \in Actors
    BY DEF Actors
  <2>2. pc' = [pc EXCEPT ![b] = "store"] /\ changed' = changed
    BY <1>4 DEF TimerFires, BeginChange
  <2>3. Coming'
    BY <1>0, <2>1, <2>2 DEF Coming, NobodyChanges, Changing
  <2> QED
    BY <1>0, <2>1, <2>2, <2>3
<1>5. ASSUME CheckerStep(me) PROVE Idle' /\ Wakes'
  <2>1. CASE Edit(me) \/ SyncChanges(me) \/ Check(me) \/ Fetch(me)
    BY <1>0, <2>1 DEF Edit, SyncChanges, Check, Fetch, BeginChange, actorVars
  <2>2. CASE SyncOpens(me)
    <3>1. toServer \in Seq(Revs) /\ disk \in Revs /\ toServer' = Append(toServer, disk)
      BY <2>2 DEF DiagnosticsTypeOK, SyncOpens
    <3>2. toServer' # <<>>
      BY <3>1
    <3>3. pc'[me] = "lookup"
      BY <1>0, <2>2 DEF SyncOpens
    <3> QED
      BY <3>2, <3>3 DEF Coming, Settled
  <2>3. CASE SyncInStep(me)
    <3>1. Coming' <=> Coming
      BY <1>0, <2>3 DEF SyncInStep, Coming, Settled, NobodyChanges, Changing, publisherVars, chanVars
    <3> QED
      BY <1>0, <2>3, <3>1 DEF SyncInStep, actorVars
  <2>4. CASE WaitLookup(me)
    <3>1. tokens' = tokens /\ (ready' = ready \/ (ready = 0 /\ ready \notin tokens))
      BY <2>4 DEF DiagnosticsTypeOK, WaitLookup
    <3>2. Coming => Coming'
      BY <1>0, <2>4, <3>1 DEF WaitLookup, Coming, Settled, NobodyChanges, Changing, publisherVars
    <3> QED
      BY <1>0, <2>4, <3>2 DEF WaitLookup
  <2>5. CASE WaitSignalled(me) \/ WaitTimesOut(me)
    BY <1>0, <2>5 DEF WaitSignalled, WaitTimesOut
  <2> QED
    BY <1>5, <2>1, <2>2, <2>3, <2>4, <2>5 DEF CheckerStep, WaitForDiagnostics
<1> QED
  BY <1>1, <1>2, <1>3, <1>4, <1>5 DEF DiagnosticsNext

(* With one tool handler at a time, next to any number of timers, no       *)
(* signal is lost: when everything has been handled, the channel that the  *)
(* handler waits on is full or has been replaced.                          *)
THEOREM NoSignalLost ==
  ASSUME NEW me, Checkers = {me}
  PROVE  DiagnosticsSpec => []NoLostWakeup
<1>1. DiagnosticsTypeOK /\ Locals /\ WakeInv /\ [DiagnosticsNext]_DiagnosticsVars => WakeInv'
  BY WakeStep
<1>2. WakeInv => NoLostWakeup
  BY DEF WakeInv, NoLostWakeup, Coming
<1>3. FreshInv => Locals
  BY DEF FreshInv
<1> QED
  BY <1>1, <1>2, <1>3, InitType, TypeStep, FreshInit, FreshStep, WakeInit, PTL DEF DiagnosticsSpec
=============================================================================
