-------------------------- MODULE DocumentSyncProofs --------------------------
(* Proofs about DocumentSync, for every set of goroutines and every bound. *)
EXTENDS DocumentSync, TLAPS

USE BoundsAssumption, OpsAssumption DEF At, Goto, Texts, Versions

(***************************************************************************)
(* Types.                                                                  *)
(***************************************************************************)
LEMMA InitType == Init => TypeOK
<1> SUFFICES ASSUME Init PROVE TypeOK
  OBVIOUS
<1>1. doc \in [open : BOOLEAN, version : 0..MaxVersion, text : Texts]
  <2>1. FALSE \in BOOLEAN
    BY Zenon
  <2> QED
    BY <2>1 DEF Init, Closed
<1>2. mixed \in BOOLEAN /\ closing \in BOOLEAN
  <2>1. FALSE \in BOOLEAN
    BY Zenon
  <2> QED
    BY <2>1, Zenon DEF Init
<1> QED
  BY <1>1, <1>2 DEF Init, TypeOK, Labels, AllOps

(* What a return leaves in the local variables of a goroutine.             *)
LEMMA ReturnsType ==
  ASSUME TypeOK, NEW a \in Actors, Returns(a)
  PROVE  /\ pc' \in [Actors -> Labels] /\ op' \in [Actors -> AllOps]
         /\ text' \in [Actors -> Texts] /\ start' \in [Actors -> Texts]
         /\ ver' \in [Actors -> 0..MaxVersion] /\ info' \in [Actors -> 0..Len(infos)]
BY DEF TypeOK, Returns, Labels, AllOps

LEMMA SucceedsType ==
  ASSUME TypeOK, NEW a \in Actors, Succeeds(a)
  PROVE  synced' \in Texts
BY DEF TypeOK, Succeeds

(* OpenFile adds an object and keeps the others.                           *)
LEMMA StoreFacts ==
  ASSUME TypeOK, NEW a \in Actors, OpenStore(a)
  PROVE  /\ infos' \in Seq([version : Versions, hash : Texts])
         /\ Len(infos') = Len(infos) + 1 /\ Len(infos') <= MaxInfos /\ Len(infos) \in Nat
         /\ entry' = Len(infos') /\ infos'[entry'] = [version |-> 1, hash |-> text[a]]
<1> DEFINE i == [version |-> 1, hash |-> text[a]]
<1>1. i \in [version : Versions, hash : Texts]
  BY DEF TypeOK
<1>2. /\ infos \in Seq([version : Versions, hash : Texts]) /\ Len(infos) < MaxInfos
      /\ infos' = Append(infos, i) /\ entry' = Len(infos) + 1
  BY DEF TypeOK, OpenStore
<1> HIDE DEF i
<1>3. /\ infos' \in Seq([version : Versions, hash : Texts]) /\ Len(infos') = Len(infos) + 1
      /\ infos'[Len(infos) + 1] = i /\ Len(infos) \in Nat
  BY <1>1, <1>2
<1> QED
  BY <1>2, <1>3 DEF i

(* NotifyChange overwrites the object of the entry.                        *)
LEMMA LockFacts ==
  ASSUME TypeOK, NEW a \in Actors, ChangeLock(a), entry # 0
  PROVE  /\ infos' \in Seq([version : Versions, hash : Texts]) /\ Len(infos') = Len(infos)
         /\ entry \in 1..Len(infos) /\ infos[entry].version \in Versions
         /\ infos'[entry] = [version |-> infos[entry].version + 1, hash |-> text[a]]
         /\ ver' = [ver EXCEPT ![a] = infos[entry].version + 1]
         /\ infos[entry].version + 1 \in Versions
<1> DEFINE i == [version |-> infos[entry].version + 1, hash |-> text[a]]
           S == [version : Versions, hash : Texts]
<1>0. infos \in Seq(S) /\ Len(infos) \in Nat /\ entry \in 0..Len(infos) /\ text[a] \in Texts
  BY DEF TypeOK
<1>1. entry \in 1..Len(infos) /\ infos[entry] \in S
  <2> HIDE DEF S
  <2>1. entry \in 1..Len(infos)
    BY <1>0
  <2> QED
    BY <1>0, <2>1
<1>2. /\ infos[entry].version < MaxVersion /\ infos' = [infos EXCEPT ![entry] = i]
      /\ ver' = [ver EXCEPT ![a] = infos[entry].version + 1]
  BY DEF ChangeLock
<1>3. i \in S /\ infos[entry].version \in Versions /\ infos[entry].version + 1 \in Versions
  BY <1>0, <1>1, <1>2
<1> HIDE DEF i, S
<1>4. infos' \in Seq(S) /\ Len(infos') = Len(infos) /\ infos'[entry] = i
  BY <1>0, <1>1, <1>2, <1>3
<1> QED
  BY <1>1, <1>2, <1>3, <1>4 DEF i, S

LEMMA HistoryType == [Next]_vars /\ TypeOK => mixed' \in BOOLEAN /\ closing' \in BOOLEAN
BY DEF Next, vars, TypeOK

LEMMA TypeStep == TypeOK /\ [Next]_vars => TypeOK'
<1> SUFFICES ASSUME TypeOK, [Next]_vars PROVE TypeOK'
  OBVIOUS
<1>h. mixed' \in BOOLEAN /\ closing' \in BOOLEAN
  BY HistoryType
<1> USE <1>h
<1> USE DEF local
<1>0. Tools \subseteq Actors /\ Timers \subseteq Actors
  BY DEF Actors
<1>1. ASSUME NEW a \in Actors, NEW o \in AllOps, Begins(a, o) PROVE TypeOK'
  <2>1. Entry(o) \in Labels
    BY DEF AllOps, Entry, Labels
  <2> QED
    BY <1>1, <2>1 DEF TypeOK, Begins
<1>2. CASE Write
  BY <1>2 DEF TypeOK, Write
<1>3. ASSUME NEW a \in Actors, OpenStep(a) PROVE TypeOK'
  <2>1. CASE OpenCheck(a)
    BY <2>1, ReturnsType, SucceedsType DEF TypeOK, OpenCheck, Succeeds, Labels
  <2>2. CASE OpenRead(a)
    BY <2>2 DEF TypeOK, OpenRead, Reads, Labels
  <2>3. CASE OpenSend(a)
    <3>1. doc' \in [open : BOOLEAN, version : 0..MaxVersion, text : Texts]
      <4>1. TRUE \in BOOLEAN /\ 1 \in 0..MaxVersion
        OBVIOUS
      <4>2. text[a] \in Texts
        BY DEF TypeOK
      <4> QED
        BY <2>3, <4>1, <4>2 DEF OpenSend
    <3> QED
      BY <2>3, <3>1 DEF TypeOK, OpenSend, Labels
  <2>4. CASE OpenStore(a)
    <3>1. Returns(a) /\ UNCHANGED <<link, disk, doc, sent>> /\ synced' \in Texts
      BY <2>4, SucceedsType DEF OpenStore, Succeeds
    <3>2. 0..Len(infos) \subseteq 0..Len(infos') /\ entry' \in 0..Len(infos')
      <4>1. \A n \in Nat : 0..n \subseteq 0..(n + 1) /\ n + 1 \in 0..(n + 1)
        OBVIOUS
      <4>2. Len(infos) \in Nat /\ Len(infos') = Len(infos) + 1 /\ entry' = Len(infos')
        BY <2>4, StoreFacts
      <4> QED
        BY Zenon, <4>1, <4>2
    <3>3. info' \in [Actors -> 0..Len(infos')]
      <4>1. info' \in [Actors -> 0..Len(infos)]
        BY <3>1, ReturnsType
      <4> QED
        BY <3>2, <4>1
    <3>4. infos' \in Seq([version : Versions, hash : Texts]) /\ Len(infos') <= MaxInfos
      BY <2>4, StoreFacts
    <3>5. /\ pc' \in [Actors -> Labels] /\ op' \in [Actors -> AllOps]
          /\ text' \in [Actors -> Texts] /\ start' \in [Actors -> Texts]
          /\ ver' \in [Actors -> 0..MaxVersion]
      BY <3>1, ReturnsType
    <3> QED
      BY <3>1, <3>2, <3>3, <3>4, <3>5 DEF TypeOK
  <2> QED
    BY <1>3, <2>1, <2>2, <2>3, <2>4 DEF OpenStep
<1>4. ASSUME NEW a \in Actors, SyncStep(a) PROVE TypeOK'
  <2>1. CASE SyncLookup(a)
    BY <2>1 DEF TypeOK, SyncLookup, Labels
  <2>2. CASE SyncRead(a)
    BY <2>2 DEF TypeOK, SyncRead, Reads, Labels
  <2>3. CASE SyncCompare(a)
    BY <2>3, ReturnsType, SucceedsType DEF TypeOK, SyncCompare, Succeeds, Labels
  <2> QED
    BY <1>4, <2>1, <2>2, <2>3 DEF SyncStep
<1>5. ASSUME NEW a \in Actors, ChangeStep(a) PROVE TypeOK'
  <2>1. CASE ChangeRead(a)
    BY <2>1 DEF TypeOK, ChangeRead, Reads, Labels
  <2>2. CASE ChangeLock(a)
    <3>1. CASE entry = 0
      BY <2>2, <3>1, ReturnsType DEF TypeOK, ChangeLock, Fails
    <3>2. CASE entry # 0
      <4>1. UNCHANGED <<link, disk, entry, doc, sent, synced, op, text, info, start>> /\ Goto(a, "changeSend")
        BY <2>2, <3>2 DEF ChangeLock
      <4>2. /\ ver' = [ver EXCEPT ![a] = infos[entry].version + 1]
            /\ infos[entry].version + 1 \in Versions /\ Len(infos') = Len(infos)
            /\ infos' \in Seq([version : Versions, hash : Texts])
        BY <2>2, <3>2, LockFacts
      <4>3. ver' \in [Actors -> 0..MaxVersion]
        <5>1. \A v \in Versions : v \in 0..MaxVersion
          OBVIOUS
        <5>2. ver \in [Actors -> 0..MaxVersion]
          BY DEF TypeOK
        <5> HIDE DEF Versions
        <5>3. infos[entry].version + 1 \in 0..MaxVersion
          BY Zenon, <4>2, <5>1
        <5> QED
          BY Zenon, <4>2, <5>2, <5>3
      <4> QED
        BY <4>1, <4>2, <4>3 DEF TypeOK, Labels
    <3> QED
      BY <3>1, <3>2
  <2>3. CASE ChangeSend(a)
    <3>1. Returns(a) /\ UNCHANGED <<link, disk, infos, entry>> /\ synced' \in Texts
      BY <2>3, SucceedsType DEF ChangeSend, Succeeds
    <3>2. /\ doc' \in [open : BOOLEAN, version : 0..MaxVersion, text : Texts]
          /\ sent' \subseteq 0..MaxVersion
      <4>1. ver[a] \in 0..MaxVersion /\ text[a] \in Texts
        BY DEF TypeOK
      <4> QED
        BY <2>3, <4>1 DEF TypeOK, ChangeSend
    <3> QED
      BY <3>1, <3>2, ReturnsType DEF TypeOK
  <2> QED
    BY <1>5, <2>1, <2>2, <2>3 DEF ChangeStep
<1>6. ASSUME NEW a \in Actors, CloseStep(a) PROVE TypeOK'
  <2>1. CASE CloseCheck(a)
    BY <2>1, ReturnsType, SucceedsType DEF TypeOK, CloseCheck, Succeeds, Labels
  <2>2. CASE CloseSend(a)
    <3>1. doc' \in [open : BOOLEAN, version : 0..MaxVersion, text : Texts]
      BY <2>2, FALSE \in BOOLEAN DEF CloseSend, Closed
    <3> QED
      BY <2>2, <3>1 DEF TypeOK, CloseSend, Labels
  <2>3. CASE CloseDelete(a)
    <3>1. Returns(a) /\ UNCHANGED <<link, disk, infos, doc, sent>> /\ synced' \in Texts
      BY <2>3, SucceedsType DEF CloseDelete, Succeeds
    <3>2. entry' \in 0..Len(infos)
      BY <2>3 DEF CloseDelete, TypeOK
    <3> QED
      BY <3>1, <3>2, ReturnsType DEF TypeOK
  <2> QED
    BY <1>6, <2>1, <2>2, <2>3 DEF CloseStep
<1>7. ASSUME NEW a \in Actors, ReadFails(a) PROVE TypeOK'
  BY <1>7, ReturnsType DEF TypeOK, ReadFails, Fails
<1>9. ASSUME NEW a \in Actors, SendFails(a) PROVE TypeOK'
  BY <1>9, ReturnsType DEF TypeOK, SendFails, Fails
<1>10. CASE ConnectionBreaks
  BY <1>10 DEF TypeOK, ConnectionBreaks
<1>8. CASE UNCHANGED vars
  BY <1>8 DEF vars, TypeOK
<1> QED
  BY <1>0, <1>1, <1>2, <1>3, <1>4, <1>5, <1>6, <1>7, <1>8, <1>9, <1>10
     DEF Next, Step, ToolBegins, TimerFires, AllOps

(* Every variable keeps its type, versions and entries stay in bounds.     *)
THEOREM TypeCorrect == Spec => []TypeOK
BY InitType, TypeStep, PTL DEF Spec

(***************************************************************************)
(* Any number of goroutines, no closer.                                    *)
(***************************************************************************)
LEMMA OpenStepInv ==
  ASSUME OpenInv, [Next]_vars, \A a \in Actors : pc'[a] \notin CloseLabels
  PROVE  OpenInv'
<1> USE DEF local, CloseLabels
<1>0. TypeOK /\ TypeOK' /\ Tools \subseteq Actors /\ Timers \subseteq Actors
  BY TypeStep DEF OpenInv, Actors
<1>1. pc \in [Actors -> Labels] /\ op \in [Actors -> AllOps]
  BY <1>0 DEF TypeOK
<1> HIDE DEF Texts, Versions
<1>2. ASSUME NEW a \in Actors, NEW o \in AllOps, Begins(a, o) PROVE OpenInv'
  <2>0. o # "close"
    BY <1>1, <1>2 DEF Begins, Entry
  <2>1. Entry(o) \in {"openCheck", "syncLookup", "changeRead"}
    BY <2>0 DEF AllOps, Entry
  <2> QED
    BY <1>0, <1>1, <1>2, <2>1 DEF OpenInv, Begins
<1>3. CASE Write
  BY <1>0, <1>3 DEF OpenInv, Write
<1>10. CASE ConnectionBreaks
  BY <1>0, <1>10 DEF OpenInv, ConnectionBreaks
<1>11. ASSUME NEW a \in Actors, SendFails(a) PROVE OpenInv'
  BY <1>0, <1>1, <1>11 DEF OpenInv, SendFails, Fails, Returns
<1>4. ASSUME NEW a \in Actors, OpenStep(a) PROVE OpenInv'
  <2>1. CASE OpenCheck(a)
    BY <1>0, <1>1, <2>1 DEF OpenInv, OpenCheck, Succeeds, Returns
  <2>2. CASE OpenRead(a)
    BY <1>0, <1>1, <2>2 DEF OpenInv, OpenRead, Reads
  <2>3. CASE OpenSend(a)
    BY <1>0, <1>1, <2>3 DEF OpenInv, OpenSend
  <2>4. CASE OpenStore(a)
    BY <1>0, <1>1, <2>4 DEF OpenInv, OpenStore, Succeeds, Returns
  <2> QED
    BY <1>4, <2>1, <2>2, <2>3, <2>4 DEF OpenStep
<1>5. ASSUME NEW a \in Actors, SyncStep(a) PROVE OpenInv'
  <2>1. CASE SyncLookup(a)
    BY <1>0, <1>1, <2>1 DEF OpenInv, SyncLookup
  <2>2. CASE SyncRead(a)
    BY <1>0, <1>1, <2>2 DEF OpenInv, SyncRead, Reads
  <2>3. CASE SyncCompare(a)
    BY <1>0, <1>1, <2>3 DEF OpenInv, SyncCompare, Succeeds, Returns
  <2> QED
    BY <1>5, <2>1, <2>2, <2>3 DEF SyncStep
<1>6. ASSUME NEW a \in Actors, ChangeStep(a) PROVE OpenInv'
  <2>1. CASE ChangeRead(a)
    BY <1>0, <1>1, <2>1 DEF OpenInv, ChangeRead, Reads
  <2>2. CASE ChangeLock(a)
    BY <1>0, <1>1, <2>2 DEF OpenInv, ChangeLock, Fails, Returns
  <2>3. CASE ChangeSend(a)
    <3>1. doc.open /\ doc' = [doc EXCEPT !.version = ver[a], !.text = text[a]]
      BY <2>3 DEF OpenInv, ChangeSend
    <3>2. doc'.open
      BY <1>0, <3>1 DEF TypeOK
    <3> QED
      BY <1>0, <1>1, <2>3, <3>2 DEF OpenInv, ChangeSend, Succeeds, Returns
  <2> QED
    BY <1>6, <2>1, <2>2, <2>3 DEF ChangeStep
<1>7. ASSUME NEW a \in Actors, CloseStep(a) PROVE OpenInv'
  BY <1>7 DEF OpenInv, CloseStep, CloseCheck, CloseSend, CloseDelete
<1>8. ASSUME NEW a \in Actors, ReadFails(a) PROVE OpenInv'
  BY <1>0, <1>1, <1>8 DEF OpenInv, ReadFails, Fails, Returns
<1>9. CASE UNCHANGED vars
  BY <1>9, <1>0 DEF vars, OpenInv
<1> QED
  BY <1>0, <1>2, <1>3, <1>4, <1>5, <1>6, <1>7, <1>8, <1>9, <1>10, <1>11
     DEF Next, Step, ToolBegins, TimerFires, AllOps

LEMMA UntilClosing ==
  ASSUME [Next]_vars, ~closing'
  PROVE  ~closing /\ ((\A a \in Actors : pc'[a] \notin CloseLabels) \/ UNCHANGED vars)
<1>1. CASE Next
  <2>1. closing' = (closing \/ \E a \in Actors : pc'[a] \in CloseLabels)
    BY <1>1 DEF Next
  <2>2. ~(closing \/ \E a \in Actors : pc'[a] \in CloseLabels)
    BY Zenon, <2>1
  <2> QED
    BY Zenon, <2>2
<1>2. CASE UNCHANGED vars
  <2>1. closing' = closing
    BY <1>2 DEF vars
  <2> QED
    BY Zenon, <1>2, <2>1
<1> QED
  BY <1>1, <1>2

LEMMA OpenStays ==
  TypeOK /\ (~closing => OpenInv) /\ [Next]_vars => (~closing => OpenInv)'
<1> SUFFICES ASSUME TypeOK, ~closing => OpenInv, [Next]_vars, ~closing' PROVE OpenInv'
  OBVIOUS
<1>1. OpenInv
  BY UntilClosing
<1>2. CASE \A a \in Actors : pc'[a] \notin CloseLabels
  BY <1>1, <1>2, OpenStepInv
<1>3. CASE UNCHANGED vars
  BY <1>1, <1>3, TypeStep DEF vars, local, OpenInv
<1> QED
  BY <1>2, <1>3, UntilClosing

(***************************************************************************)
(* Any number of goroutines, as long as their operations do not overlap.   *)
(***************************************************************************)
OthersIdle(a) == \A b \in Actors \ {a} : pc[b] = "idle" /\ pc'[b] = "idle"

(* A goroutine that takes a step is the one that is under way.             *)
LEMMA StepsAlone ==
  ASSUME TypeOK, OneAtATime, OneAtATime', NEW a \in Actors, NEW l \in Labels,
         pc' = [pc EXCEPT ![a] = l], pc[a] # "idle" \/ l # "idle"
  PROVE  OthersIdle(a)
<1>1. pc \in [Actors -> Labels]
  BY DEF TypeOK
<1>2. ASSUME NEW b \in Actors \ {a} PROVE pc[b] = "idle" /\ pc'[b] = "idle"
  <2>1. b \in Actors /\ pc'[b] = pc[b] /\ pc'[a] = l
    BY <1>1
  <2>2. (pc[a] = "idle" \/ pc[b] = "idle") /\ (pc'[a] = "idle" \/ pc'[b] = "idle")
    BY <2>1 DEF OneAtATime, Idle
  <2> QED
    BY <2>1, <2>2
<1> QED
  BY <1>2 DEF OthersIdle

(* What SerialInv says when everybody but a is idle.                       *)
SerialAt(a) ==
  /\ doc.text <= disk /\ (synced > 0 => doc.open)
  /\ link # "behind" => synced <= doc.text
  /\ pc[a] \notin {"openStore", "closeDelete"} => (entry # 0 <=> doc.open)
  /\ entry # 0 /\ pc[a] \notin {"changeSend", "closeDelete"}
       => /\ link # "behind" => infos[entry].hash = doc.text
          /\ infos[entry].version >= doc.version
  /\ start[a] <= disk /\ text[a] <= disk
  /\ pc[a] = "closeDelete" => ~doc.open
  /\ pc[a] \in {"syncCompare", "openSend", "changeLock", "changeSend"} =>
       start[a] <= text[a] /\ doc.text <= text[a]
  /\ pc[a] \in {"syncRead", "syncCompare", "changeRead", "changeLock"} /\ op[a] = "sync" => entry # 0
  /\ pc[a] \in {"syncRead", "syncCompare"} => info[a] = entry /\ entry # 0
  /\ pc[a] \in {"openRead", "openSend", "openStore"} => entry = 0
  /\ pc[a] = "openCheck" /\ op[a] = "sync" => entry = 0
  /\ pc[a] = "openStore" => doc = [open |-> TRUE, version |-> 1, text |-> text[a]]
                            /\ start[a] <= text[a]
  /\ pc[a] = "changeSend" => /\ entry # 0 /\ infos[entry].hash = text[a]
                             /\ infos[entry].version = ver[a] /\ ver[a] > doc.version
  /\ pc[a] = "closeSend" => entry # 0
  /\ op[a] = "sync" => pc[a] \notin CloseLabels

Newer == doc.open /\ doc'.open /\ doc' # doc => doc'.version > doc.version

LEMMA SerialBecomesLocal ==
  ASSUME SerialInv, NEW a \in Actors, OthersIdle(a)
  PROVE  SerialAt(a)
<1>1. \A b \in Actors \ {a} : pc[b] = "idle"
  BY DEF OthersIdle
<1>2. /\ pc[a] \notin {"openStore", "closeDelete"} => (entry # 0 <=> doc.open)
      /\ entry # 0 /\ pc[a] \notin {"changeSend", "closeDelete"}
           => /\ link # "behind" => infos[entry].hash = doc.text
              /\ infos[entry].version >= doc.version
  BY <1>1 DEF SerialInv
<1> QED
  BY <1>2 DEF SerialInv, SerialAt

LEMMA LocalBecomesSerial ==
  ASSUME NEW a \in Actors, OthersIdle(a), SerialAt(a)', OneAtATime',
         \A b \in Actors \ {a} : start'[b] <= disk' /\ text'[b] <= disk'
  PROVE  SerialInv'
<1>1. \A b \in Actors \ {a} : pc'[b] = "idle"
  BY DEF OthersIdle
<1>2. /\ (\A b \in Actors : pc'[b] \notin {"openStore", "closeDelete"}) => (entry' # 0 <=> doc'.open)
      /\ entry' # 0 /\ (\A b \in Actors : pc'[b] \notin {"changeSend", "closeDelete"})
           => /\ link' # "behind" => infos'[entry'].hash = doc'.text
              /\ infos'[entry'].version >= doc'.version
  BY DEF SerialAt
<1> QED
  BY <1>1, <1>2 DEF SerialInv, SerialAt, CloseLabels

Steps(a) ==
  \/ \E o \in AllOps : Begins(a, o)
  \/ OpenStep(a) \/ SyncStep(a) \/ ChangeStep(a) \/ CloseStep(a) \/ ReadFails(a) \/ SendFails(a)

LEMMA FrameOfStep ==
  ASSUME TypeOK, NEW a \in Actors, Steps(a)
  PROVE  /\ \E l \in Labels : pc' = [pc EXCEPT ![a] = l] /\ (pc[a] # "idle" \/ l # "idle")
         /\ \A b \in Actors \ {a} : start'[b] = start[b] /\ text'[b] = text[b]
         /\ disk' = disk
<1> USE DEF local
<1>1. start \in [Actors -> Texts] /\ text \in [Actors -> Texts]
  BY DEF TypeOK
<1>2. ASSUME NEW o \in AllOps, Begins(a, o)
      PROVE  \E l \in Labels : pc' = [pc EXCEPT ![a] = l] /\ l # "idle"
  BY <1>2 DEF Begins, Entry, AllOps, Labels
<1>3. ASSUME OpenStep(a) \/ SyncStep(a) \/ ChangeStep(a) \/ CloseStep(a) \/ ReadFails(a) \/ SendFails(a)
      PROVE  pc[a] # "idle" /\ \E l \in Labels : pc' = [pc EXCEPT ![a] = l]
  BY <1>3 DEF OpenStep, OpenCheck, OpenRead, OpenSend, OpenStore, SyncStep, SyncLookup, SyncRead,
     SyncCompare, ChangeStep, ChangeRead, ChangeLock, ChangeSend, CloseStep, CloseCheck, CloseSend,
     CloseDelete, ReadFails, SendFails, Reads, Succeeds, Fails, Returns, Labels
<1>4. \A b \in Actors \ {a} : start'[b] = start[b] /\ text'[b] = text[b]
  BY <1>1 DEF Steps, Begins, OpenStep, OpenCheck, OpenRead, OpenSend, OpenStore, SyncStep, SyncLookup,
     SyncRead, SyncCompare, ChangeStep, ChangeRead, ChangeLock, ChangeSend, CloseStep, CloseCheck,
     CloseSend, CloseDelete, ReadFails, SendFails, Reads, Succeeds, Fails, Returns
<1>5. disk' = disk
  BY DEF Steps, Begins, OpenStep, OpenCheck, OpenRead, OpenSend, OpenStore, SyncStep, SyncLookup,
     SyncRead, SyncCompare, ChangeStep, ChangeRead, ChangeLock, ChangeSend, CloseStep, CloseCheck,
     CloseSend, CloseDelete, ReadFails, SendFails, Reads
<1> QED
  BY <1>2, <1>3, <1>4, <1>5 DEF Steps

LEMMA LocalStep ==
  ASSUME TypeOK, NEW a \in Actors, SerialAt(a), Steps(a)
  PROVE  SerialAt(a)' /\ Newer
<1> DEFINE Good == SerialAt(a)' /\ Newer
<1> USE DEF local, CloseLabels, Newer
<1>1. /\ pc \in [Actors -> Labels] /\ op \in [Actors -> AllOps]
      /\ text \in [Actors -> Nat] /\ start \in [Actors -> Nat] /\ ver \in [Actors -> Nat]
      /\ info \in [Actors -> Nat] /\ disk \in Nat /\ synced \in Nat
      /\ doc.open \in BOOLEAN /\ doc.version \in Nat /\ doc.text \in Nat
      /\ doc = [open |-> doc.open, version |-> doc.version, text |-> doc.text]
  BY DEF TypeOK
<1> HIDE DEF Texts, Versions
<1>2. ASSUME NEW o \in AllOps, Begins(a, o) PROVE Good
  <2>1. /\ Entry(o) \in {"openCheck", "syncLookup", "changeRead", "closeCheck"}
        /\ o = "sync" => Entry(o) = "syncLookup"
    BY DEF AllOps, Entry
  <2> QED
    BY <1>1, <1>2, <2>1 DEF SerialAt, Begins
<1>4. CASE OpenStep(a)
  <2>1. CASE OpenCheck(a)
    BY <1>1, <2>1 DEF SerialAt, OpenCheck, Succeeds, Returns
  <2>2. CASE OpenRead(a)
    BY <1>1, <2>2 DEF SerialAt, OpenRead, Reads
  <2>3. CASE OpenSend(a)
    BY <1>1, <2>3 DEF SerialAt, OpenSend
  <2>4. CASE OpenStore(a)
    <3>1. infos'[entry'] = [version |-> 1, hash |-> text[a]] /\ entry' # 0
      BY <2>4, StoreFacts
    <3> QED
      BY <1>1, <2>4, <3>1 DEF SerialAt, OpenStore, Succeeds, Returns
  <2> QED
    BY <1>4, <2>1, <2>2, <2>3, <2>4 DEF OpenStep
<1>5. CASE SyncStep(a)
  <2>1. CASE SyncLookup(a)
    BY <1>1, <2>1 DEF SerialAt, SyncLookup
  <2>2. CASE SyncRead(a)
    BY <1>1, <2>2 DEF SerialAt, SyncRead, Reads
  <2>3. CASE SyncCompare(a)
    BY <1>1, <2>3 DEF SerialAt, SyncCompare, Succeeds, Returns
  <2> QED
    BY <1>5, <2>1, <2>2, <2>3 DEF SyncStep
<1>6. CASE ChangeStep(a)
  <2>1. CASE ChangeRead(a)
    BY <1>1, <2>1 DEF SerialAt, ChangeRead, Reads
  <2>2. CASE ChangeLock(a)
    <3>1. CASE entry = 0
      BY <1>1, <2>2, <3>1 DEF SerialAt, ChangeLock, Fails, Returns
    <3>2. CASE entry # 0
      <4>1. /\ infos'[entry] = [version |-> infos[entry].version + 1, hash |-> text[a]]
            /\ ver' = [ver EXCEPT ![a] = infos[entry].version + 1]
            /\ infos[entry].version \in Nat
        BY <2>2, <3>2, LockFacts DEF Versions
      <4> QED
        BY <1>1, <2>2, <3>2, <4>1 DEF SerialAt, ChangeLock
    <3> QED
      BY <3>1, <3>2
  <2>3. CASE ChangeSend(a)
    BY <1>1, <2>3 DEF SerialAt, ChangeSend, Succeeds, Returns
  <2> QED
    BY <1>6, <2>1, <2>2, <2>3 DEF ChangeStep
<1>7. CASE CloseStep(a)
  <2>1. CASE CloseCheck(a)
    BY <1>1, <2>1 DEF SerialAt, CloseCheck, Succeeds, Returns
  <2>2. CASE CloseSend(a)
    BY <1>1, <2>2 DEF SerialAt, CloseSend, Closed
  <2>3. CASE CloseDelete(a)
    BY <1>1, <2>3 DEF SerialAt, CloseDelete, Succeeds, Returns
  <2> QED
    BY <1>7, <2>1, <2>2, <2>3 DEF CloseStep
<1>8. CASE ReadFails(a)
  BY <1>1, <1>8 DEF SerialAt, ReadFails, Fails, Returns
<1>9. CASE SendFails(a)
  BY <1>1, <1>9 DEF SerialAt, SendFails, Fails, Returns
<1> QED
  BY <1>2, <1>4, <1>5, <1>6, <1>7, <1>8, <1>9 DEF Steps

LEMMA SerialStep ==
  ASSUME TypeOK, SerialInv, [Next]_vars, OneAtATime'
  PROVE  SerialInv' /\ Newer
<1>1. CASE UNCHANGED vars
  BY <1>1 DEF vars, local, SerialInv, Newer, OneAtATime, Idle
<1>2. CASE Write
  <2>1. disk' = disk + 1 /\ disk \in Nat /\ UNCHANGED <<link, infos, entry, doc, synced, local>>
    BY <1>2 DEF Write, TypeOK, Texts
  <2>2. \A a \in Actors : start[a] \in Nat /\ text[a] \in Nat /\ start[a] <= disk /\ text[a] <= disk
    BY DEF TypeOK, Texts, SerialInv
  <2>3. doc.text \in Nat /\ doc.text <= disk
    BY DEF TypeOK, Texts, SerialInv
  <2> QED
    BY <2>1, <2>2, <2>3 DEF SerialInv, Newer, local
<1>3. ASSUME NEW a \in Actors, Steps(a) PROVE SerialInv' /\ Newer
  <2>1. OthersIdle(a)
    BY <1>3, FrameOfStep, StepsAlone DEF SerialInv
  <2>2. SerialAt(a)' /\ Newer
    BY <1>3, <2>1, SerialBecomesLocal, LocalStep
  <2>3. \A b \in Actors \ {a} : start'[b] <= disk' /\ text'[b] <= disk'
    BY <1>3, FrameOfStep DEF SerialInv
  <2> QED
    BY <2>1, <2>2, <2>3, LocalBecomesSerial
<1>5. CASE ConnectionBreaks
  BY <1>5 DEF ConnectionBreaks, SerialInv, Newer, local, OneAtATime, Idle
<1>4. UNCHANGED vars \/ Write \/ ConnectionBreaks \/ \E a \in Actors : Steps(a)
  BY OpsAssumption DEF Next, Step, ToolBegins, TimerFires, Steps, Actors, AllOps
<1> QED
  BY <1>1, <1>2, <1>3, <1>4, <1>5

LEMMA UntilMixed ==
  ASSUME [Next]_vars, ~mixed'
  PROVE  ~mixed /\ (OneAtATime' \/ UNCHANGED vars)
<1>1. CASE Next
  <2>1. mixed' = (mixed \/ ~OneAtATime')
    BY <1>1 DEF Next
  <2>2. ~(mixed \/ ~OneAtATime')
    BY Zenon, <2>1
  <2> QED
    BY Zenon, <2>2
<1>2. CASE UNCHANGED vars
  <2>1. mixed' = mixed
    BY <1>2 DEF vars
  <2> QED
    BY Zenon, <1>2, <2>1
<1> QED
  BY <1>1, <1>2

(* Until two operations have overlapped, table, server and disk stand as   *)
(* the one operation under way says.                                       *)
LEMMA Serially == Spec => [](TypeOK /\ (~mixed => SerialInv))
<1>1. Init => TypeOK /\ SerialInv
  BY InitType DEF Init, SerialInv, Closed, CloseLabels, OneAtATime, Idle
<1>2. TypeOK /\ (~mixed => SerialInv) /\ [Next]_vars => (TypeOK /\ (~mixed => SerialInv))'
  <2>1. [Next]_vars /\ ~mixed' => ~mixed /\ (OneAtATime' \/ UNCHANGED vars)
    BY UntilMixed
  <2>2. UNCHANGED vars => (OneAtATime <=> OneAtATime')
    BY DEF vars, local, OneAtATime, Idle
  <2> QED
    BY <2>1, <2>2, TypeStep, SerialStep DEF SerialInv
<1> QED
  BY <1>1, <1>2, PTL DEF Spec

(* As long as operations do not overlap and no change has failed to be     *)
(* sent, a sync that returned has brought the server what was on disk when *)
(* it began (client.go:415) ...                                            *)
THEOREM SyncSerially == Spec => []SyncEnsures
<1>1. TypeOK /\ (~mixed => SerialInv) => SyncEnsures
  BY DEF TypeOK, SerialInv, SyncEnsures
<1> QED
  BY <1>1, Serially, PTL

(* ... once all have returned, the hash is that of the content last sent   *)
(* (client.go:370) ...                                                     *)
THEOREM HashSerially == Spec => []HashIsSentSerially
<1>1. TypeOK /\ (~mixed => SerialInv) => HashIsSentSerially
  BY DEF TypeOK, SerialInv, HashIsSentSerially, HashIsSent, Idle
<1> QED
  BY <1>1, Serially, PTL

(* ... the table and the server agree on whether the file is open, even if *)
(* reads and sends have failed ...                                         *)
THEOREM TableSerially == Spec => []TableMatchesServer
<1>1. TypeOK /\ (~mixed => SerialInv) => TableMatchesServer
  BY DEF SerialInv, TableMatchesServer
<1> QED
  BY <1>1, Serially, PTL

(* ... and the versions the server sees only grow (client.go:462-465).     *)
THEOREM VersionsGrowSerially == Spec => VersionsGrow
<1>1. TypeOK /\ (~mixed => SerialInv) /\ [Next]_vars
        => [~mixed' /\ doc.open /\ doc'.open => doc'.version > doc.version]_doc
  <2>1. [Next]_vars /\ ~mixed' => ~mixed /\ (OneAtATime' \/ UNCHANGED vars)
    BY UntilMixed
  <2>2. UNCHANGED vars => doc' = doc
    BY DEF vars
  <2> QED
    BY <2>1, <2>2, SerialStep DEF Newer
<1> QED
  BY <1>1, Serially, PTL DEF Spec, VersionsGrow

(* However many tool handlers and timers there are, the server is sent no  *)
(* change of a document it has not been asked to open, unless a file is    *)
(* closed while others work on it (client.go:451-457).                     *)
THEOREM NeedsOpen == Spec => []ChangeNeedsOpen
<1>1. Init => (~closing => OpenInv)
  BY InitType DEF Init, OpenInv, CloseLabels
<1>2. TypeOK /\ (~closing => OpenInv) /\ [Next]_vars => (~closing => OpenInv)'
  BY OpenStays
<1>3. TypeOK /\ (~closing => OpenInv) /\ (~mixed => SerialInv) => ChangeNeedsOpen
  BY DEF OpenInv, SerialInv, ChangeNeedsOpen, OneAtATime, Idle
<1> QED
  BY <1>1, <1>2, <1>3, Serially, PTL DEF Spec

(***************************************************************************)
(* Versions.  One tool handler, which does one thing after another, and    *)
(* any number of timers.                                                   *)
(***************************************************************************)
OneTool == \A a, b \in Tools : a = b
ToolLabels == {"openCheck", "openRead", "openSend", "openStore", "syncLookup", "syncRead", "syncCompare"}

(* Until a file is closed: only the tool opens, and while it does there is *)
(* no entry; a version that is going to be sent was taken from the entry.  *)
UniqueInv ==
  /\ \A a \in Actors :
    /\ pc[a] \in ToolLabels => a \in Tools
    /\ pc[a] \in {"openRead", "openSend", "openStore"} => entry = 0
    /\ pc[a] = "openStore" => sent = {1}
    /\ pc[a] = "changeSend" => entry # 0 /\ ver[a] <= infos[entry].version /\ ver[a] \notin sent
  /\ \A a, b \in Actors : a # b /\ pc[a] = "changeSend" /\ pc[b] = "changeSend" => ver[a] # ver[b]
  /\ entry # 0 => \A v \in sent : v <= infos[entry].version

LEMMA UniqueStep ==
  ASSUME OneTool, TypeOK, UniqueInv, [Next]_vars, \A a \in Actors : pc[a] \notin CloseLabels,
         \A a \in Actors : pc'[a] \notin CloseLabels
  PROVE  UniqueInv'
<1> USE DEF local, ToolLabels
<1>1. /\ pc \in [Actors -> Labels] /\ ver \in [Actors -> 0..MaxVersion] /\ sent \subseteq Nat
      /\ Tools \subseteq Actors /\ \A a \in Actors : ver[a] \in Nat
  BY DEF TypeOK, Actors
<1> HIDE DEF Texts, Versions
<1>2. ASSUME NEW a \in Actors, NEW o \in AllOps, Begins(a, o), a \in Tools \/ o = "change"
      PROVE  UniqueInv'
  <2>1. /\ Entry(o) \in {"openCheck", "syncLookup", "changeRead", "closeCheck"}
        /\ a \in Tools \/ Entry(o) = "changeRead"
    BY <1>2 DEF AllOps, Entry
  <2>2. pc' = [pc EXCEPT ![a] = Entry(o)] /\ UNCHANGED <<infos, entry, sent, ver>>
    BY <1>2 DEF Begins
  <2> QED
    BY <1>1, <2>1, <2>2 DEF UniqueInv
<1>3. ASSUME NEW a \in Actors, NEW l \in Labels, pc' = [pc EXCEPT ![a] = l],
             l # "changeSend", l \in ToolLabels => a \in Tools,
             l \in {"openRead", "openSend"} => entry = 0, l # "openStore",
             UNCHANGED <<infos, entry, sent>>, \A b \in Actors \ {a} : ver'[b] = ver[b]
      PROVE  UniqueInv'
  BY <1>1, <1>3 DEF UniqueInv
<1>4. CASE Write
  BY <1>4 DEF UniqueInv, Write
<1>5. ASSUME NEW a \in Actors, OpenStep(a) PROVE UniqueInv'
  <2>1. CASE OpenCheck(a)
    BY <1>1, <1>3, <2>1 DEF UniqueInv, OpenCheck, Succeeds, Returns, Labels
  <2>2. CASE OpenRead(a)
    BY <1>1, <1>3, <2>2 DEF UniqueInv, OpenRead, Reads, Labels
  <2>3. CASE OpenSend(a)
    BY <1>1, <2>3 DEF UniqueInv, OpenSend
  <2>4. CASE OpenStore(a)
    <3>1. /\ pc' = [pc EXCEPT ![a] = "idle"] /\ ver' = [ver EXCEPT ![a] = 0] /\ sent' = sent
          /\ pc[a] = "openStore"
      BY <2>4 DEF OpenStore, Succeeds, Returns
    <3>2. infos'[entry'].version = 1 /\ entry' # 0
      <4>1. infos'[entry'] = [version |-> 1, hash |-> text[a]]
        BY <2>4, StoreFacts
      <4>2. entry' = Len(infos') /\ Len(infos') = Len(infos) + 1 /\ Len(infos) \in Nat
        BY Zenon, <2>4, StoreFacts
      <4>3. \A n \in Nat : n + 1 # 0
        OBVIOUS
      <4> QED
        BY <4>1, <4>2, <4>3
    <3>3. sent = {1} /\ \A b \in Actors : pc[b] # "changeSend"
      BY <3>1, <2>4 DEF UniqueInv
    <3>4. \A b \in Actors \ {a} : pc[b] \notin ToolLabels
      BY <1>1, <3>1 DEF UniqueInv, OneTool
    <3> QED
      BY <1>1, <3>1, <3>2, <3>3, <3>4 DEF UniqueInv
  <2> QED
    BY <1>5, <2>1, <2>2, <2>3, <2>4 DEF OpenStep
<1>6. ASSUME NEW a \in Actors, SyncStep(a) PROVE UniqueInv'
  BY <1>1, <1>3, <1>6
     DEF UniqueInv, SyncStep, SyncLookup, SyncRead, SyncCompare, Reads, Succeeds, Returns, Labels
<1>7. ASSUME NEW a \in Actors, ChangeStep(a) PROVE UniqueInv'
  <2>1. CASE ChangeRead(a)
    BY <1>1, <1>3, <2>1 DEF ChangeRead, Reads, Labels
  <2>2. CASE ChangeLock(a)
    <3>1. CASE entry = 0
      BY <1>1, <1>3, <2>2, <3>1 DEF ChangeLock, Fails, Returns, Labels
    <3>2. CASE entry # 0
      <4>1. /\ pc' = [pc EXCEPT ![a] = "changeSend"] /\ ver' = [ver EXCEPT ![a] = infos[entry].version + 1]
            /\ UNCHANGED <<entry, sent>> /\ infos[entry].version \in Nat
            /\ infos'[entry].version = infos[entry].version + 1
        <5>1. infos'[entry] = [version |-> infos[entry].version + 1, hash |-> text[a]]
          BY <2>2, <3>2, LockFacts
        <5>2. infos[entry].version \in Nat
          <6>1. infos[entry].version \in Versions
            BY Zenon, <2>2, <3>2, LockFacts
          <6> QED
            BY <6>1 DEF Versions
        <5>3. infos'[entry].version = infos[entry].version + 1
          BY <5>1
        <5> QED
          BY <2>2, <3>2, <5>2, <5>3 DEF ChangeLock
      <4>2. PICK v \in Nat : v = infos[entry].version
        BY <4>1
      <4>3. infos'[entry'].version = v + 1 /\ ver' = [ver EXCEPT ![a] = v + 1] /\ entry' # 0
        BY <3>2, <4>1, <4>2
      <4>4. /\ \A b \in Actors : pc[b] = "changeSend" => ver[b] <= v
            /\ \A w \in sent : w <= v
        BY <3>2, <4>2 DEF UniqueInv
      <4>5. \A b \in Actors : pc[b] \notin {"openRead", "openSend", "openStore"}
        BY <3>2 DEF UniqueInv
      <4>6. pc'[a] = "changeSend" /\ ver'[a] = v + 1
            /\ \A b \in Actors \ {a} : pc'[b] = pc[b] /\ ver'[b] = ver[b]
        BY <1>1, <4>1, <4>3
      <4>7. \A b \in Actors : /\ pc'[b] \in ToolLabels => b \in Tools
                              /\ pc'[b] \notin {"openRead", "openSend", "openStore"}
        BY <4>5, <4>6 DEF UniqueInv
      <4>8. \A b \in Actors : pc'[b] = "changeSend" => ver'[b] <= v + 1 /\ ver'[b] \notin sent'
        BY <1>1, <4>1, <4>4, <4>6 DEF UniqueInv
      <4>9. \A b, c \in Actors : b # c /\ pc'[b] = "changeSend" /\ pc'[c] = "changeSend" => ver'[b] # ver'[c]
        BY <1>1, <4>4, <4>6 DEF UniqueInv
      <4>10. \A w \in sent' : w <= v + 1
        BY <1>1, <4>1, <4>4
      <4> QED
        BY <4>3, <4>7, <4>8, <4>9, <4>10 DEF UniqueInv
    <3> QED
      BY <3>1, <3>2
  <2>3. CASE ChangeSend(a)
    <3>1. /\ pc' = [pc EXCEPT ![a] = "idle"] /\ ver' = [ver EXCEPT ![a] = 0]
          /\ sent' = sent \cup {ver[a]} /\ UNCHANGED <<infos, entry>> /\ pc[a] = "changeSend"
      BY <2>3 DEF ChangeSend, Succeeds, Returns
    <3> QED
      BY <1>1, <3>1 DEF UniqueInv
  <2> QED
    BY <1>7, <2>1, <2>2, <2>3 DEF ChangeStep
<1>8. ASSUME NEW a \in Actors, CloseStep(a) PROVE UniqueInv'
  BY <1>8 DEF CloseStep, CloseCheck, CloseSend, CloseDelete, CloseLabels
<1>9. ASSUME NEW a \in Actors, ReadFails(a) PROVE UniqueInv'
  BY <1>1, <1>3, <1>9 DEF ReadFails, Fails, Returns, Labels
<1>11. ASSUME NEW a \in Actors, SendFails(a) PROVE UniqueInv'
  BY <1>1, <1>3, <1>11 DEF SendFails, Fails, Returns, Labels
<1>12. CASE ConnectionBreaks
  BY <1>12 DEF UniqueInv, ConnectionBreaks
<1>10. CASE UNCHANGED vars
  BY <1>10 DEF vars, UniqueInv
<1> QED
  BY <1>2, <1>4, <1>5, <1>6, <1>7, <1>8, <1>9, <1>10, <1>11, <1>12
     DEF Next, Step, ToolBegins, TimerFires, AllOps, Actors

(* While operations do not overlap, what has been sent of an open document *)
(* is no newer than the server's copy.                                     *)
SentInv == doc.open => \A v \in sent : v <= doc.version

LEMMA SentStep ==
  ASSUME TypeOK, SerialInv, SentInv, [Next]_vars, OneAtATime'
  PROVE  SentInv'
<1>1. doc.version \in Nat /\ sent \subseteq Nat /\ \A a \in Actors : ver[a] \in Nat
  BY DEF TypeOK
<1>2. CASE UNCHANGED <<doc, sent>>
  BY <1>2 DEF SentInv
<1>3. ASSUME NEW a \in Actors, OpenSend(a) PROVE SentInv'
  BY <1>3 DEF OpenSend, SentInv
<1>4. ASSUME NEW a \in Actors, ChangeSend(a) PROVE SentInv'
  <2>1. OthersIdle(a)
    BY <1>4, FrameOfStep, StepsAlone DEF SerialInv, Steps, ChangeStep
  <2>2. entry # 0 /\ ver[a] > doc.version /\ doc.open
    BY <1>4, <2>1, SerialBecomesLocal DEF SerialAt, ChangeSend
  <2>3. doc' = [doc EXCEPT !.version = ver[a], !.text = text[a]] /\ sent' = sent \cup {ver[a]}
    BY <1>4 DEF ChangeSend
  <2>4. doc'.version = ver[a]
    BY <2>3 DEF TypeOK
  <2> QED
    BY <1>1, <2>2, <2>3, <2>4 DEF SentInv
<1>5. ASSUME NEW a \in Actors, CloseSend(a) PROVE SentInv'
  BY <1>5 DEF CloseSend, SentInv, Closed
<1>6. \/ UNCHANGED <<doc, sent>>
      \/ \E a \in Actors : OpenSend(a) \/ ChangeSend(a) \/ CloseSend(a)
  <2>1. CASE UNCHANGED vars
    BY <2>1 DEF vars
  <2>2. CASE Write \/ ConnectionBreaks
    BY <2>2 DEF Write, ConnectionBreaks
  <2>3. CASE \E a \in Tools : ToolBegins(a)
    BY <2>3 DEF ToolBegins, Begins
  <2>4. CASE \E a \in Timers : TimerFires(a)
    BY <2>4 DEF TimerFires, Begins
  <2>5. CASE \E a \in Actors : OpenStep(a) \/ SyncStep(a) \/ ChangeStep(a) \/ CloseStep(a) \/ ReadFails(a) \/ SendFails(a)
    BY <2>5 DEF OpenStep, OpenCheck, OpenRead, OpenStore, SyncStep, SyncLookup, SyncRead, SyncCompare,
       ChangeStep, ChangeRead, ChangeLock, CloseStep, CloseCheck, CloseDelete, ReadFails, SendFails, Reads
  <2> QED
    BY <2>1, <2>2, <2>3, <2>4, <2>5 DEF Next, Step
<1> QED
  BY <1>2, <1>3, <1>4, <1>5, <1>6

(* One tool handler, any number of timers and any interleaving: no version *)
(* is used for two changes of a document, unless a file is closed while    *)
(* others work on it (client.go:453-464).                                  *)
THEOREM VersionsOnce == OneTool => (Spec => []VersionsUnique)
<1> SUFFICES ASSUME OneTool PROVE Spec => []VersionsUnique
  OBVIOUS
<1>1. Init => (~closing => OpenInv /\ UniqueInv) /\ (~mixed => SentInv)
  BY InitType DEF Init, OpenInv, UniqueInv, SentInv, ToolLabels, CloseLabels, Closed
<1>2. TypeOK /\ (~closing => OpenInv /\ UniqueInv) /\ [Next]_vars => (~closing => OpenInv /\ UniqueInv)'
  <2> SUFFICES ASSUME TypeOK, ~closing => OpenInv /\ UniqueInv, [Next]_vars, ~closing' PROVE OpenInv' /\ UniqueInv'
    OBVIOUS
  <2>1. OpenInv /\ UniqueInv
    BY UntilClosing
  <2>2. CASE UNCHANGED vars
    BY <2>1, <2>2, TypeStep DEF vars, local, OpenInv, UniqueInv
  <2>3. CASE \A a \in Actors : pc'[a] \notin CloseLabels
    BY <2>1, <2>3, OpenStepInv, UniqueStep DEF OpenInv
  <2> QED
    BY <2>2, <2>3, UntilClosing
<1>3. TypeOK /\ (~mixed => SerialInv) /\ (~mixed => SentInv) /\ [Next]_vars => (~mixed => SentInv)'
  <2>1. [Next]_vars /\ ~mixed' => ~mixed /\ (OneAtATime' \/ UNCHANGED vars)
    BY UntilMixed
  <2>2. SentInv /\ UNCHANGED vars => SentInv'
    BY DEF vars, SentInv
  <2> QED
    BY <2>1, <2>2, SentStep
<1>4. UniqueInv => VersionsUnique
  BY DEF UniqueInv, VersionsUnique
<1>5. TypeOK /\ SerialInv /\ SentInv => VersionsUnique
  <2> SUFFICES ASSUME TypeOK, SerialInv, SentInv, NEW a \in Actors, pc[a] = "changeSend"
               PROVE  ver[a] \notin sent /\ \A b \in Actors \ {a} : pc[b] # "changeSend"
    BY DEF VersionsUnique
  <2>1. \A b \in Actors \ {a} : pc[b] = "idle"
    BY DEF SerialInv, OneAtATime, Idle, TypeOK
  <2>2. ver[a] > doc.version /\ doc.open
    BY <2>1 DEF SerialInv
  <2>3. ver[a] \in Nat /\ doc.version \in Nat /\ sent \subseteq Nat
    BY DEF TypeOK
  <2> QED
    BY <2>1, <2>2, <2>3 DEF SentInv
<1>6. (~closing => OpenInv /\ UniqueInv) /\ TypeOK /\ (~mixed => SerialInv) /\ (~mixed => SentInv) => VersionsUnique
  <2>1. closing /\ mixed => VersionsUnique
    BY DEF VersionsUnique
  <2> QED
    BY <1>4, <1>5, <2>1
<1> QED
  BY <1>1, <1>2, <1>3, <1>6, Serially, PTL DEF Spec
==============================================================================
