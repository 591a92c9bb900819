----------------------------- MODULE WatcherProofs -----------------------------
(* Proofs about Watcher, for any files, timers and registrations and for   *)
(* every bound.                                                            *)
EXTENDS Watcher, TLAPS

TimerStates == {"free", "armed", "fired", "change", "stopping", "starting", "handled"}
BusyStates == {"armed", "fired", "change", "stopping"}
Timer == [key : Keys, st : TimerStates]

(***************************************************************************)
(* Keys, timers and the queue.                                             *)
(***************************************************************************)
LEMMA KeyFacts ==
  /\ RestartKey \in Keys
  /\ \A f \in Files, kind \in {"changed", "created"} :
       /\ Key(f, kind) \in Keys /\ Key(f, kind) # RestartKey
       /\ Key(f, kind).file = f /\ Key(f, kind).kind = kind
  /\ \A k \in Keys : k # RestartKey => k.file \in Files /\ k.kind \in {"changed", "created"}
BY FilesAssumption DEF Keys, Key, RestartKey

LEMMA AppendFacts ==
  ASSUME NEW S, NEW s \in Seq(S), NEW e \in S
  PROVE  /\ Append(s, e) \in Seq(S) /\ Len(Append(s, e)) = Len(s) + 1
         /\ DOMAIN Append(s, e) = 1..(Len(s) + 1)
         /\ Append(s, e)[Len(s) + 1] = e
         /\ \A i \in 1..Len(s) : Append(s, e)[i] = s[i]
OBVIOUS

LEMMA TailFacts ==
  ASSUME NEW S, NEW s \in Seq(S), s # <<>>
  PROVE  /\ Head(s) \in S /\ Head(s) = s[1] /\ 1 \in DOMAIN s
         /\ Tail(s) \in Seq(S)
         /\ \A i \in DOMAIN Tail(s) : i + 1 \in DOMAIN s /\ i \in Nat /\ Tail(s)[i] = s[i + 1]
         /\ \A i \in DOMAIN s : i # 1 => i - 1 \in DOMAIN Tail(s) /\ Tail(s)[i - 1] = s[i]
         /\ DOMAIN s \subseteq Nat
OBVIOUS

(* A timer is where it was, but for the one in hand.                       *)
LEMMA SetState ==
  ASSUME timers \in [Timers -> Timer], NEW t \in Timers, NEW st \in TimerStates,
         timers' = [timers EXCEPT ![t].st = st]
  PROVE  /\ timers' \in [Timers -> Timer]
         /\ timers'[t].key = timers[t].key /\ timers'[t].st = st
         /\ \A u \in Timers : u # t => timers'[u] = timers[u]
         /\ \A u \in Timers : timers'[u].key = timers[u].key
<1>1. timers[t] \in Timer
  OBVIOUS
<1>2. PICK r : r = [timers[t] EXCEPT !.st = st]
  OBVIOUS
<1>3. r \in Timer /\ r.key = timers[t].key /\ r.st = st
  BY <1>1, <1>2 DEF Timer
<1>4. timers' = [timers EXCEPT ![t] = r]
  BY <1>2
<1> QED
  BY <1>3, <1>4

(* An entry of debounceMap is a timer of its key that has not ended.       *)
MapTrue ==
  \A k \in Keys :
    debounceMap[k] # NoTimer =>
      timers[debounceMap[k]].key = k /\ timers[debounceMap[k]].st # "free"

Under(k) == \E t \in Timers : Busy(t) /\ timers[t].key = k

TimersType == timers \in [Timers -> Timer] /\ debounceMap \in [Keys -> Timers \cup {NoTimer}]

LEMMA StoppedFacts ==
  ASSUME TimersType, MapTrue, NEW k \in Keys
  PROVE  /\ Stopped(k) \in [Timers -> Timer]
         /\ \A t \in Timers : \/ Stopped(k)[t] = timers[t]
                              \/ timers[t].key = k /\ Stopped(k)[t].st = "free"
<1>1. Free \in Timer
  BY KeyFacts DEF Free, Timer, TimerStates
<1>2. Free.st = "free"
  BY DEF Free
<1> QED
  BY <1>1, <1>2 DEF TimersType, MapTrue, Stopped

(* A restarted timer: something is due under its key, and under every key  *)
(* something was due under.                                                *)
LEMMA DebounceFacts ==
  ASSUME TimersType, MapTrue, NEW k \in Keys, Debounce(k)
  PROVE  /\ TimersType' /\ MapTrue' /\ Under(k)'
         /\ \A j \in Keys : Under(j) => Under(j)'
<1>1. PICK t \in Timers : /\ Stopped(k)[t].st = "free"
                          /\ timers' = [Stopped(k) EXCEPT ![t] = [key |-> k, st |-> "armed"]]
                          /\ debounceMap' = [debounceMap EXCEPT ![k] = t]
  BY DEF Debounce
<1>2. PICK r : r = [key |-> k, st |-> "armed"]
  OBVIOUS
<1>3. r \in Timer /\ r.key = k /\ r.st = "armed"
  BY <1>2 DEF Timer, TimerStates
<1>4. timers' = [Stopped(k) EXCEPT ![t] = r]
  BY <1>1, <1>2
<1>5. timers' \in [Timers -> Timer] /\ timers'[t] = r
      /\ \A u \in Timers : u # t => timers'[u] = Stopped(k)[u]
  BY <1>3, <1>4, StoppedFacts
<1>6. TimersType'
  BY <1>1, <1>5 DEF TimersType
<1>7. MapTrue'
  <2> SUFFICES ASSUME NEW j \in Keys, debounceMap'[j] # NoTimer
               PROVE  timers'[debounceMap'[j]].key = j /\ timers'[debounceMap'[j]].st # "free"
    BY DEF MapTrue
  <2>1. CASE j = k
    BY <2>1, <1>1, <1>3, <1>5 DEF TimersType
  <2>2. CASE j # k
    <3>1. debounceMap'[j] = debounceMap[j] /\ debounceMap[j] \in Timers
      BY <2>2, <1>1 DEF TimersType
    <3>2. timers[debounceMap[j]].key = j /\ timers[debounceMap[j]].st # "free"
      BY <3>1 DEF MapTrue
    <3>3. Stopped(k)[debounceMap[j]] = timers[debounceMap[j]]
      BY <2>2, <3>1, <3>2, StoppedFacts
    <3>4. debounceMap[j] # t
      BY <1>1, <3>2, <3>3
    <3> QED
      BY <1>5, <3>1, <3>2, <3>3, <3>4
  <2> QED
    BY <2>1, <2>2
<1>8. Under(k)'
  BY <1>3, <1>5 DEF Under, Busy
<1>9. ASSUME NEW j \in Keys, Under(j) PROVE Under(j)'
  <2>1. CASE j = k
    BY <2>1, <1>8
  <2>2. CASE j # k
    <3>1. PICK u \in Timers : Busy(u) /\ timers[u].key = j
      BY <1>9 DEF Under
    <3>2. Stopped(k)[u] = timers[u] /\ timers[u].st # "free"
      BY <2>2, <3>1, StoppedFacts DEF Busy
    <3>3. u # t
      BY <1>1, <3>2
    <3> QED
      BY <1>5, <3>1, <3>2, <3>3 DEF Under, Busy
  <2> QED
    BY <2>1, <2>2
<1> QED
  BY <1>6, <1>7, <1>8, <1>9

(* A timer's goroutine goes on: what was due under a key still is, unless  *)
(* it is the one that handles it.                                          *)
LEMMA GoesOn ==
  ASSUME TimersType, MapTrue, NEW t \in Timers, NEW st \in TimerStates \ {"free"},
         timers[t].st # "free",
         timers' = [timers EXCEPT ![t].st = st], UNCHANGED debounceMap
  PROVE  /\ TimersType' /\ MapTrue'
         /\ \A j \in Keys : Under(j) => Under(j)' \/ (j = timers[t].key /\ st \notin BusyStates)
<1>1. /\ timers' \in [Timers -> Timer]
      /\ timers'[t].key = timers[t].key /\ timers'[t].st = st
      /\ \A u \in Timers : u # t => timers'[u] = timers[u]
      /\ \A u \in Timers : timers'[u].key = timers[u].key
  BY SetState DEF TimersType
<1>2. TimersType'
  BY <1>1 DEF TimersType
<1>3. MapTrue'
  BY <1>1 DEF MapTrue, TimersType
<1>4. ASSUME NEW j \in Keys, Under(j) PROVE Under(j)' \/ (j = timers[t].key /\ st \notin BusyStates)
  <2>1. PICK u \in Timers : Busy(u) /\ timers[u].key = j
    BY <1>4 DEF Under
  <2>2. CASE u = t
    BY <1>1, <2>1, <2>2 DEF Under, Busy, BusyStates
  <2>3. CASE u # t
    BY <1>1, <2>1, <2>3 DEF Under, Busy
  <2> QED
    BY <2>2, <2>3
<1> QED
  BY <1>2, <1>3, <1>4

LEMMA CleansFacts ==
  ASSUME TimersType, MapTrue, NEW t \in Timers, Cleans(t)
  PROVE  TimersType' /\ MapTrue' /\ \A j \in Keys : Under(j) => Under(j)'
<1>1. /\ timers[t].st = "handled" /\ timers[t].key \in Keys
      /\ debounceMap' = [debounceMap EXCEPT ![timers[t].key] = NoTimer]
      /\ timers' = [timers EXCEPT ![t] = Free]
  BY DEF Cleans, TimersType, Timer
<1>2. Free \in Timer
  BY KeyFacts DEF Free, Timer, TimerStates
<1>3. TimersType'
  BY <1>1, <1>2 DEF TimersType
<1>4. MapTrue'
  <2> SUFFICES ASSUME NEW j \in Keys, debounceMap'[j] # NoTimer
               PROVE  timers'[debounceMap'[j]].key = j /\ timers'[debounceMap'[j]].st # "free"
    BY DEF MapTrue
  <2>1. j # timers[t].key /\ debounceMap'[j] = debounceMap[j]
    BY <1>1 DEF TimersType
  <2>2. debounceMap[j] # t
    BY <2>1 DEF MapTrue
  <2> QED
    BY <1>1, <2>1, <2>2 DEF MapTrue, TimersType
<1>5. ASSUME NEW j \in Keys, Under(j) PROVE Under(j)'
  <2>1. PICK u \in Timers : Busy(u) /\ timers[u].key = j
    BY <1>5 DEF Under
  <2>2. u # t
    BY <1>1, <2>1 DEF Busy
  <2> QED
    BY <1>1, <2>1, <2>2 DEF Under, Busy, TimersType
<1> QED
  BY <1>3, <1>4, <1>5

(***************************************************************************)
(* Types.                                                                  *)
(***************************************************************************)
LoopRecords == [at : {"idle", "check", "dispatch", "renamed"}, file : Files \cup {NoFile},
                op : Ops \cup {"none"}, n : Nat]

DiskType ==
  /\ present \subseteq Files /\ mods \in [Files -> Nat] /\ unseen \subseteq Files
  /\ dir \in [Files -> {"none", "new", "watched"}] /\ queue \in Seq(Events)

LoopType ==
  /\ loop \in LoopRecords
  /\ loop.at # "idle" => loop.file \in Files /\ loop.op \in Ops

ServerType ==
  /\ open \subseteq Files /\ shown \subseteq Files
  /\ told \subseteq Files /\ lost \subseteq Files /\ deleted \subseteq Files
  /\ restarted \subseteq Config /\ refused \subseteq Config
  /\ regs \in Seq(SUBSET WatchKinds) /\ partial \in BOOLEAN

RemoteType ==
  /\ server \in {"up", "deaf", "dead"} /\ restarting \in {"no", "config", "recovery"}
  /\ faults \in 0..MaxFaults

LEMMA TypeParts ==
  /\ TypeOK <=> DiskType /\ LoopType /\ ServerType /\ TimersType /\ RemoteType
  /\ TypeOK' <=> DiskType' /\ LoopType' /\ ServerType' /\ TimersType' /\ RemoteType'
<1>1. TypeOK <=> DiskType /\ LoopType /\ ServerType /\ TimersType /\ RemoteType
  BY Zenon DEF TypeOK, DiskType, LoopType, ServerType, TimersType, RemoteType, LoopRecords, Timer,
               TimerStates
<1>2. TypeOK' <=> DiskType' /\ LoopType' /\ ServerType' /\ TimersType' /\ RemoteType'
  BY Zenon DEF TypeOK, DiskType, LoopType, ServerType, TimersType, RemoteType, LoopRecords, Timer,
               TimerStates
<1> QED
  BY <1>1, <1>2

LEMMA IdleType == Idle \in LoopRecords /\ Idle.at = "idle"
BY DEF Idle, LoopRecords, Ops

LEMMA InitType == Init => TypeOK
<1> SUFFICES ASSUME Init PROVE TypeOK
  OBVIOUS
<1>1. DiskType
  BY FilesAssumption DEF Init, DiskType, Events
<1>2. LoopType
  BY IdleType DEF Init, LoopType
<1>3. partial \in BOOLEAN
  BY Zenon DEF Init
<1>4. ServerType
  BY <1>3, FilesAssumption DEF Init, ServerType
<1>5. Free \in Timer
  BY KeyFacts DEF Free, Timer, TimerStates
<1>6. TimersType
  BY <1>5 DEF Init, TimersType
<1>7. RemoteType
  BY BoundsAssumption DEF Init, RemoteType
<1> QED
  BY <1>1, <1>2, <1>4, <1>6, <1>7, TypeParts

LEMMA EnqueueType ==
  ASSUME DiskType, NEW f \in Files, NEW op \in Ops \cup {"mkdir"}, NEW n \in Nat, Enqueue(f, op, n)
  PROVE  queue' \in Seq(Events)
<1>1. [file |-> f, op |-> op, n |-> n] \in Events
  BY DEF Events
<1> QED
  BY <1>1, AppendFacts DEF DiskType, Enqueue

LEMMA EventType ==
  ASSUME DiskType, queue # <<>>
  PROVE  /\ Event \in Events /\ Event.file \in Files /\ Event.n \in Nat
         /\ Event.op # "mkdir" => Event.op \in Ops
         /\ Tail(queue) \in Seq(Events)
<1>1. Event \in Events /\ Tail(queue) \in Seq(Events)
  BY TailFacts DEF DiskType, Event
<1> QED
  BY <1>1 DEF Events, Ops

LEMMA TypeStep == TypeOK /\ MapTrue /\ [Next]_vars => TypeOK' /\ MapTrue'
<1> SUFFICES ASSUME TypeOK, MapTrue, [Next]_vars PROVE TypeOK' /\ MapTrue'
  OBVIOUS
<1> USE TypeParts
<1>t. ASSUME UNCHANGED <<timers, debounceMap>> PROVE TimersType' /\ MapTrue'
  BY <1>t DEF TimersType, MapTrue
<1>d. ASSUME UNCHANGED <<disk, queue>> PROVE DiskType'
  BY <1>d DEF DiskType, disk
<1>l. ASSUME loop' = loop \/ loop' = Idle \/ \E a \in {"check", "dispatch", "renamed"} :
               loop.at # "idle" /\ loop' = [loop EXCEPT !.at = a]
      PROVE  LoopType'
  BY <1>l, IdleType DEF LoopType, LoopRecords
<1>r. ASSUME UNCHANGED remote PROVE RemoteType'
  BY <1>r DEF RemoteType, remote
<1>s. ASSUME UNCHANGED <<regs, open, shown, notices, restarted, refused, partial>> PROVE ServerType'
  <2>1. UNCHANGED <<regs, open, shown, told, lost, deleted, restarted, refused, partial>>
    BY <1>s DEF notices
  <2>2. partial' \in BOOLEAN
    BY Zenon, <2>1 DEF ServerType
  <2> QED
    BY <2>1, <2>2 DEF ServerType
<1>n. ASSUME NEW f \in Files, NEW kind, Notice(f, kind),
             UNCHANGED <<regs, open, shown, restarted, refused, partial>>
      PROVE  ServerType'
  <2>1. partial' \in BOOLEAN
    BY Zenon, <1>n DEF ServerType
  <2> QED
    BY <2>1, <1>n DEF ServerType, Notice
<1>1. CASE Environment
  <2>1. ASSUME NEW f \in Files, MakeDir(f) PROVE TypeOK' /\ MapTrue'
    <3>1. queue' \in Seq(Events)
      BY <2>1, EnqueueType DEF MakeDir
    <3>2. DiskType'
      BY <2>1, <3>1 DEF MakeDir, DiskType
    <3> QED
      BY <2>1, <3>2, <1>t, <1>r, <1>l, <1>s DEF MakeDir
  <2>2. ASSUME NEW f \in Files, ToolOpens(f) PROVE TypeOK' /\ MapTrue'
    <3>1. partial' \in BOOLEAN
      BY Zenon, <2>2 DEF ToolOpens, ServerType
    <3>2. ServerType'
      BY <2>2, <3>1 DEF ToolOpens, ServerType, notices
    <3> QED
      BY <2>2, <3>2, <1>r, <1>t, <1>l, <1>d DEF ToolOpens
  <2>3. ASSUME NEW f \in Files, NEW op \in Ops, Modify(f, op) PROVE TypeOK' /\ MapTrue'
    <3>1. mods[f] \in Nat /\ mods' = [mods EXCEPT ![f] = @ + 1]
      BY <2>3 DEF Modify, DiskType
    <3>2. queue' \in Seq(Events) /\ unseen' \subseteq Files
      BY <2>3, <3>1, EnqueueType DEF Modify, DiskType
    <3>3. mods' \in [Files -> Nat]
      BY <3>1 DEF DiskType
    <3>4. DiskType'
      BY <2>3, <3>2, <3>3 DEF Modify, DiskType
    <3>5. partial' \in BOOLEAN
      BY Zenon, <2>3 DEF Modify, ServerType
    <3>6. ServerType'
      BY <2>3, <3>5 DEF Modify, ServerType
    <3> QED
      BY <2>3, <3>4, <3>6, <1>r, <1>t, <1>l DEF Modify
  <2>4. ASSUME NEW mask \in Masks, AddRegistrations(mask) PROVE TypeOK' /\ MapTrue'
    <3>1. regs' \in Seq(SUBSET WatchKinds)
      BY <2>4, MasksAssumption, AppendFacts DEF AddRegistrations, ServerType
    <3>2. partial' \in BOOLEAN
      BY Zenon, <2>4 DEF AddRegistrations, ServerType
    <3>3. ServerType'
      BY <2>4, <3>1, <3>2 DEF AddRegistrations, ServerType, notices
    <3> QED
      BY <2>4, <3>3, <1>r, <1>t, <1>l, <1>d DEF AddRegistrations
  <2> QED
    BY <1>1, <2>1, <2>2, <2>3, <2>4 DEF Environment
<1>2. CASE LoopStep
  <2>1. CASE TakesMkdir
    <3>1. DiskType'
      BY <2>1, EventType DEF TakesMkdir, DiskType
    <3> QED
      BY <2>1, <3>1, <1>t, <1>r, <1>l, <1>s DEF TakesMkdir
  <2>2. CASE TakesConfig
    <3>1. DiskType'
      BY <2>2, EventType DEF TakesConfig, DiskType, disk
    <3>2. TimersType' /\ MapTrue'
      BY <2>2, KeyFacts, DebounceFacts DEF TakesConfig
    <3> QED
      BY <2>2, <3>1, <3>2, <1>r, <1>l, <1>s DEF TakesConfig
  <2>3. CASE TakesFile
    <3>1. DiskType'
      BY <2>3, EventType DEF TakesFile, DiskType, disk
    <3>2. LoopType'
      BY <2>3, EventType DEF TakesFile, LoopType, LoopRecords
    <3> QED
      BY <2>3, <3>1, <3>2, <1>r, <1>t, <1>s DEF TakesFile
  <2>4. CASE ChecksExcluded
    BY <2>4, <1>t, <1>r, <1>l, <1>s, <1>d DEF ChecksExcluded
  <2>5. CASE DispatchesLater
    <3>1. PICK kind \in {"changed", "created"} : Debounce(Key(loop.file, kind))
      BY <2>5 DEF DispatchesLater
    <3>2. loop.file \in Files
      BY <2>5 DEF DispatchesLater, LoopType
    <3>3. TimersType' /\ MapTrue'
      BY <3>1, <3>2, KeyFacts, DebounceFacts
    <3> QED
      BY <2>5, <3>3, <1>r, <1>l, <1>s, <1>d DEF DispatchesLater
  <2>6. CASE DispatchesNow
    <3>1. loop.file \in Files
      BY <2>6 DEF DispatchesNow, LoopType
    <3> QED
      BY <2>6, <3>1, <1>t, <1>r, <1>l, <1>n, <1>d DEF DispatchesNow
  <2>7. CASE DispatchesNothing
    BY <2>7, <1>t, <1>r, <1>l, <1>s, <1>d DEF DispatchesNothing
  <2>8. CASE LooksAgain
    <3>1. loop.file \in Files
      BY <2>8 DEF LooksAgain, LoopType
    <3>2. TimersType' /\ MapTrue'
      BY <2>8, <3>1, <1>t, KeyFacts, DebounceFacts DEF LooksAgain
    <3> QED
      BY <2>8, <3>2, <1>r, <1>l, <1>s, <1>d DEF LooksAgain
  <2> QED
    BY <1>2, <2>1, <2>2, <2>3, <2>4, <2>5, <2>6, <2>7, <2>8 DEF LoopStep
<1>3. ASSUME NEW t \in Timers, TimerStep(t) PROVE TypeOK' /\ MapTrue'
  <2>1. CASE Fires(t)
    <3>1. TimersType' /\ MapTrue'
      BY <2>1, GoesOn DEF Fires, TimerStates
    <3> QED
      BY <2>1, <3>1, <1>r, <1>l, <1>s, <1>d DEF Fires
  <2>2. CASE Handles(t)
    <3>1. timers[t].key \in Keys /\ timers[t].key # RestartKey
      BY <2>2 DEF Handles, TimersType, Timer
    <3>2. timers[t].key.file \in Files
      BY <3>1, KeyFacts
    <3>3. TimersType' /\ MapTrue'
      BY <2>2, GoesOn DEF Handles, TimerStates
    <3>4. CASE UNCHANGED notices
      BY <2>2, <3>3, <3>4, <1>r, <1>l, <1>s, <1>d DEF Handles
    <3>5. CASE Notice(timers[t].key.file, timers[t].key.kind)
      BY <2>2, <3>2, <3>3, <3>5, <1>r, <1>l, <1>n, <1>d DEF Handles
    <3> QED
      BY <2>2, <3>4, <3>5 DEF Handles
  <2>3. CASE NotifiesChange(t)
    <3>1. TimersType' /\ MapTrue'
      BY <2>3, GoesOn DEF NotifiesChange, TimerStates
    <3>2. partial' \in BOOLEAN
      BY Zenon, <2>3 DEF NotifiesChange, ServerType
    <3>4. timers[t].key.file \in Files
      BY <2>3, KeyFacts DEF NotifiesChange, TimersType, Timer
    <3>3. ServerType'
      BY <2>3, <3>2, <3>4 DEF NotifiesChange, Notice, ServerType, notices
    <3> QED
      BY <2>3, <3>1, <3>3, <1>r, <1>l, <1>d DEF NotifiesChange
  <2>5. CASE Cleans(t)
    BY <2>5, CleansFacts, <1>r, <1>l, <1>s, <1>d DEF Cleans
  <2>6. CASE RestartBegins(t)
    <3>1. TimersType' /\ MapTrue'
      BY <2>6, GoesOn DEF RestartBegins, TimerStates
    <3>2. RemoteType'
      BY <2>6 DEF RestartBegins, RemoteType
    <3> QED
      BY <2>6, <3>1, <3>2, <1>l, <1>s, <1>d DEF RestartBegins
  <2>7. CASE RestartRefused(t)
    <3>1. TimersType' /\ MapTrue'
      BY <2>7, GoesOn DEF RestartRefused, TimerStates
    <3>2. partial' \in BOOLEAN
      BY Zenon, <2>7 DEF RestartRefused, ServerType
    <3>3. ServerType'
      BY <2>7, <3>2 DEF RestartRefused, ServerType, notices
    <3> QED
      BY <2>7, <3>1, <3>3, <1>r, <1>l, <1>d DEF RestartRefused
  <2> QED
    BY <1>3, <2>1, <2>2, <2>3, <2>5, <2>6, <2>7 DEF TimerStep
<1>5. ASSUME ServerStarted, UNCHANGED <<told, lost, refused, partial, regs>>, UNCHANGED disk
      PROVE  ServerType'
  <2>1. partial' \in BOOLEAN
    BY Zenon, <1>5 DEF ServerType
  <2>2. open' \subseteq open /\ shown' = open' /\ restarted' = Config /\ deleted' = {}
    BY <1>5 DEF ServerStarted
  <2> QED
    BY <1>5, <2>1, <2>2 DEF ServerType
<1>6. ASSUME NEW t \in Timers, RestartStep(t) PROVE TypeOK' /\ MapTrue'
  <2>1. CASE RestartStarts(t)
    <3>1. TimersType' /\ MapTrue'
      BY <2>1, GoesOn DEF RestartStarts, TimerStates
    <3>2. RemoteType'
      BY <2>1 DEF RestartStarts, ServerStarted, RemoteType
    <3> QED
      BY <2>1, <3>1, <3>2, <1>5, <1>l, <1>d DEF RestartStarts
  <2>2. CASE RestartReturns(t)
    <3>1. TimersType' /\ MapTrue'
      BY <2>2, GoesOn DEF RestartReturns, TimerStates
    <3>2. RemoteType'
      BY <2>2 DEF RestartReturns, RemoteType
    <3> QED
      BY <2>2, <3>1, <3>2, <1>l, <1>s, <1>d DEF RestartReturns
  <2>3. CASE RestartFails(t)
    <3>1. TimersType' /\ MapTrue'
      BY <2>3, GoesOn DEF RestartFails, TimerStates
    <3>2. RemoteType'
      BY <2>3 DEF RestartFails, RemoteType
    <3>3. partial' \in BOOLEAN
      BY Zenon, <2>3 DEF RestartFails, ServerType
    <3>4. ServerType'
      BY <2>3, <3>3 DEF RestartFails, ServerType, notices
    <3> QED
      BY <2>3, <3>1, <3>2, <3>4, <1>l, <1>d DEF RestartFails
  <2> QED
    BY <1>6, <2>1, <2>2, <2>3 DEF RestartStep
<1>7. CASE ServerStep
  <2>1. UNCHANGED <<disk, queue>> /\ UNCHANGED <<timers, debounceMap>> /\ loop' = loop
    BY <1>7 DEF ServerStep, ServerFails, RecoveryBegins, RecoveryStarts, RecoveryEnds
  <2>2. RemoteType'
    BY <1>7, BoundsAssumption
       DEF ServerStep, ServerFails, RecoveryBegins, RecoveryStarts, RecoveryEnds, ServerStarted, RemoteType
  <2>3. CASE RecoveryStarts
    BY <2>1, <2>2, <2>3, <1>5, <1>t, <1>l, <1>d DEF RecoveryStarts
  <2>4. CASE ServerFails \/ RecoveryBegins \/ RecoveryEnds
    BY <2>1, <2>2, <2>4, <1>t, <1>l, <1>s, <1>d DEF ServerFails, RecoveryBegins, RecoveryEnds
  <2> QED
    BY <1>7, <2>3, <2>4 DEF ServerStep
<1>4. CASE UNCHANGED vars
  BY <1>4, <1>t, <1>r, <1>l, <1>s, <1>d DEF vars
<1> QED
  BY <1>1, <1>2, <1>3, <1>4, <1>6, <1>7 DEF Next

(***************************************************************************)
(* The inductive invariant.  A change is followed on its way: its event is *)
(* in the queue, or in the loop's hands, or a timer is due for its file.   *)
(* The event of the last change agrees with the disk, so that no look at   *)
(* the disk drops it.                                                      *)
(***************************************************************************)
IsLast(e, f) == e.op # "mkdir" /\ e.file = f /\ e.n = mods[f]
Queued(f) == \E i \in DOMAIN queue : IsLast(queue[i], f)

Agrees(e) == e.n <= mods[e.file] /\ (e.n = mods[e.file] => (e.file \in present <=> Leaves(e.op)))

EventsAgree == \A i \in DOMAIN queue : queue[i].op # "mkdir" => Agrees(queue[i])

LoopAgrees ==
  loop.at # "idle" =>
    /\ Agrees(loop)
    /\ loop.at = "check" /\ loop.n = mods[loop.file] => loop.file \in present
    /\ loop.at = "renamed" => loop.op = "rename"

(* Behind an event of a file that is not its last one comes the last one.  *)
QueueFollows ==
  \A i \in DOMAIN queue :
    queue[i].op # "mkdir" /\ queue[i].file \notin unseen
      => \E j \in DOMAIN queue : i <= j /\ IsLast(queue[j], queue[i].file)

LoopFollows ==
  loop.at # "idle" /\ loop.file \notin unseen /\ loop.n # mods[loop.file] => Queued(loop.file)

AllWatched == ~partial => WatchKind(regs) = WatchKinds

InHand(f) == loop.at \in {"check", "dispatch"} /\ loop.file = f /\ loop.n = mods[f]

TimerDue(f) == Under(Key(f, "changed")) \/ Under(Key(f, "created"))

(* A timer is relied on only for a file that is there: the report of a     *)
(* change begins with reading it.                                          *)
Due(f) == Queued(f) \/ InHand(f) \/ (f \in present /\ TimerDue(f))

(* A report of the file, or one that corrects the last, has to be tried.   *)
Pending(f) == f \notin lost /\ (f \notin told \/ (f \in present /\ f \in deleted))

ChangesDue == \A f \in Sources : ~partial /\ f \notin unseen /\ Pending(f) => Due(f)

RestartDue ==
  \A f \in Config : f \in present /\ f \notin unseen /\ f \notin restarted /\ f \notin refused
                     => Queued(f) \/ Under(RestartKey)

IInv ==
  /\ TypeOK /\ MapTrue
  /\ EventsAgree /\ LoopAgrees /\ QueueFollows /\ LoopFollows
  /\ AllWatched /\ ChangesDue /\ RestartDue

LEMMA InitInv == Init => IInv
<1> SUFFICES ASSUME Init PROVE IInv
  OBVIOUS
<1>1. TypeOK
  BY InitType
<1>2. MapTrue
  BY DEF Init, MapTrue
<1>3. queue = <<>> /\ loop.at = "idle" /\ told = Files /\ deleted = {} /\ restarted = Config /\ regs = <<>>
  BY DEF Init, Idle
<1>4. EventsAgree /\ QueueFollows /\ LoopAgrees /\ LoopFollows
  BY <1>3 DEF EventsAgree, QueueFollows, LoopAgrees, LoopFollows
<1>5. AllWatched
  BY <1>3 DEF AllWatched, WatchKind
<1>6. ChangesDue /\ RestartDue
  BY <1>3 DEF ChangesDue, RestartDue, Pending, Sources
<1> QED
  BY <1>1, <1>2, <1>4, <1>5, <1>6 DEF IInv

(* A step that leaves the disk and the queue alone.                        *)
LEMMA DiskStays ==
  ASSUME IInv, UNCHANGED <<disk, queue>>
  PROVE  /\ EventsAgree' /\ QueueFollows'
         /\ \A f \in Files : Queued(f)' <=> Queued(f)
         /\ UNCHANGED <<present, mods, unseen>>
<1>1. UNCHANGED <<present, mods, unseen, queue>>
  BY DEF disk
<1> QED
  BY <1>1 DEF IInv, EventsAgree, QueueFollows, Queued, IsLast, Agrees

LEMMA TimersStay ==
  ASSUME UNCHANGED <<timers, debounceMap>>
  PROVE  \A k : Under(k)' <=> Under(k)
BY DEF Under, Busy

LEMMA SourceKeys ==
  ASSUME NEW f \in Files
  PROVE  Key(f, "changed") \in Keys /\ Key(f, "created") \in Keys
BY KeyFacts

(***************************************************************************)
(* The environment.                                                        *)
(***************************************************************************)
LEMMA MakeDirInv ==
  ASSUME IInv, TypeOK', MapTrue', NEW f \in Files, MakeDir(f) PROVE IInv'
<1> DEFINE e == [file |-> f, op |-> "mkdir", n |-> 0]
<1>1. e \in Events /\ e.op = "mkdir"
  BY DEF Events
<1>2. queue \in Seq(Events) /\ queue' = Append(queue, e)
  BY DEF IInv, TypeOK, MakeDir, Enqueue
<1> HIDE DEF e
<1>3. /\ DOMAIN queue' = 1..(Len(queue) + 1) /\ DOMAIN queue = 1..Len(queue) /\ Len(queue) \in Nat
      /\ queue'[Len(queue) + 1] = e
      /\ \A i \in DOMAIN queue : i \in DOMAIN queue' /\ queue'[i] = queue[i]
  BY <1>1, <1>2, AppendFacts
<1>4. UNCHANGED <<present, mods, unseen, loop, timers, debounceMap, regs, told, lost, deleted, restarted, refused,
                partial>>
  BY DEF MakeDir, notices
<1>5. \A i \in DOMAIN queue' : queue'[i].op # "mkdir" => i \in DOMAIN queue
  BY <1>1, <1>3
<1>6. EventsAgree'
  BY <1>3, <1>4, <1>5 DEF IInv, EventsAgree, Agrees
<1>7. QueueFollows'
  BY <1>3, <1>4, <1>5 DEF IInv, QueueFollows, IsLast
<1>8. \A g \in Files : Queued(g) => Queued(g)'
  BY <1>3, <1>4 DEF Queued, IsLast
<1>9. \A k : Under(k)' <=> Under(k)
  BY <1>4, TimersStay
<1>10. LoopAgrees' /\ AllWatched'
  BY <1>4 DEF IInv, LoopAgrees, Agrees, AllWatched
<1>11. LoopFollows'
  BY <1>4, <1>8 DEF IInv, LoopFollows, TypeOK
<1>12. ChangesDue'
  BY <1>4, <1>8, <1>9 DEF IInv, ChangesDue, Pending, Due, InHand, TimerDue, Sources
<1>13. RestartDue'
  BY <1>4, <1>8, <1>9, FilesAssumption DEF IInv, RestartDue
<1> QED
  BY <1>6, <1>7, <1>10, <1>11, <1>12, <1>13 DEF IInv

LEMMA ModifyInv ==
  ASSUME IInv, TypeOK', MapTrue', NEW f \in Files, NEW op \in Ops, Modify(f, op) PROVE IInv'
<1>1. /\ mods[f] \in Nat /\ mods' = [mods EXCEPT ![f] = @ + 1] /\ mods \in [Files -> Nat]
      /\ present' = IF Leaves(op) THEN present \cup {f} ELSE present \ {f}
      /\ present \subseteq Files
  BY DEF IInv, TypeOK, Modify
<1>2. UNCHANGED <<loop, timers, debounceMap, regs, deleted, partial>>
      /\ told' = told \ {f} /\ lost' = lost \ {f} /\ restarted' = restarted \ {f} /\ refused' = refused \ {f}
  BY DEF Modify
<1>3. /\ mods'[f] = mods[f] + 1 /\ (f \in present' <=> Leaves(op))
      /\ \A g \in Files \ {f} : mods'[g] = mods[g] /\ (g \in present' <=> g \in present)
  BY <1>1
<1>4. \A k : Under(k)' <=> Under(k)
  BY <1>2, TimersStay
<1>5. AllWatched'
  BY <1>2 DEF IInv, AllWatched
<1>6. LoopAgrees'
  <2> SUFFICES ASSUME loop.at # "idle" PROVE LoopAgrees'
    BY <1>2 DEF LoopAgrees
  <2>1. loop.file \in Files /\ loop.n <= mods[loop.file] /\ loop.n \in Nat /\ mods[loop.file] \in Nat
    BY <1>1 DEF IInv, TypeOK, LoopAgrees, Agrees
  <2>2. CASE loop.file = f
    BY <2>1, <2>2, <1>2, <1>3 DEF IInv, LoopAgrees, Agrees
  <2>3. CASE loop.file # f
    BY <2>1, <2>3, <1>2, <1>3 DEF IInv, LoopAgrees, Agrees
  <2> QED
    BY <2>2, <2>3
<1>7. queue \in Seq(Events) /\ Len(queue) \in Nat /\ DOMAIN queue = 1..Len(queue)
  BY DEF IInv, TypeOK
<1>8. \A i \in DOMAIN queue : /\ queue[i].file \in Files /\ queue[i].n \in Nat
                              /\ queue[i].op # "mkdir" => queue[i].n <= mods[queue[i].file]
  <2> SUFFICES ASSUME NEW i \in DOMAIN queue
               PROVE  /\ queue[i].file \in Files /\ queue[i].n \in Nat
                      /\ queue[i].op # "mkdir" => queue[i].n <= mods[queue[i].file]
    OBVIOUS
  <2>1. queue[i] \in Events
    BY <1>7
  <2> QED
    BY <2>1 DEF IInv, EventsAgree, Agrees, Events
<1>9. ASSUME NEW i \in DOMAIN queue, NEW q, q = queue[i], q.op # "mkdir" PROVE Agrees(q)'
  <2> SUFFICES /\ q.n <= mods'[q.file]
               /\ q.n = mods'[q.file] => (q.file \in present' <=> Leaves(q.op))
    BY DEF Agrees
  <2> USE <1>9
  <2>1. Agrees(q) /\ q.file \in Files /\ q.n \in Nat /\ mods[q.file] \in Nat /\ q.n <= mods[q.file]
    BY <1>1, <1>8 DEF IInv, EventsAgree
  <2>2. CASE q.file = f
    BY <2>1, <2>2, <1>3
  <2>3. CASE q.file # f
    BY <2>1, <2>3, <1>3 DEF Agrees
  <2> QED
    BY <2>2, <2>3
<1>10. \A q, g : IsLast(q, g) /\ g \in Files /\ g # f => IsLast(q, g)'
  BY <1>3 DEF IsLast
<1>11. CASE dir[f] = "watched" /\ Enqueue(f, op, mods[f] + 1) /\ unseen' = unseen \ {f}
  <2>0. PICK e : e = [file |-> f, op |-> op, n |-> mods[f] + 1]
    OBVIOUS
  <2>1. e \in Events /\ e.op = op /\ e.file = f /\ e.n = mods[f] + 1 /\ op # "mkdir"
    BY <2>0, <1>1 DEF Events, Ops
  <2>2. queue' = Append(queue, e)
    BY <2>0, <1>11 DEF Enqueue
  <2>3. /\ DOMAIN queue' = 1..(Len(queue) + 1)
        /\ queue'[Len(queue) + 1] = e
        /\ \A i \in DOMAIN queue : i \in DOMAIN queue' /\ queue'[i] = queue[i]
        /\ \A i \in DOMAIN queue' : i \in DOMAIN queue \/ i = Len(queue) + 1
        /\ \A i \in DOMAIN queue' : i <= Len(queue) + 1
        /\ Len(queue) + 1 \in DOMAIN queue'
    BY <1>7, <2>1, <2>2, AppendFacts
  <2>4. Agrees(e)' /\ IsLast(e, f)'
    <3>1. e.n <= mods'[e.file] /\ e.n = mods'[e.file]
      BY <2>1, <1>1, <1>3
    <3> QED
      BY <3>1, <2>1, <1>3 DEF Agrees, IsLast
  <2>5. EventsAgree'
    <3> SUFFICES ASSUME NEW i \in DOMAIN queue', queue'[i].op # "mkdir" PROVE Agrees(queue[i])'
      BY DEF EventsAgree
    <3>1. CASE i \in DOMAIN queue
      BY <3>1, <2>3, <1>9 DEF Agrees
    <3>2. CASE i = Len(queue) + 1
      BY <3>2, <2>3, <2>4 DEF Agrees
    <3> QED
      BY <2>3, <3>1, <3>2
  <2>6. Queued(f)' /\ \A g \in Files : Queued(g) => Queued(g)'
    <3>1. Queued(f)'
      BY <2>3, <2>4 DEF Queued, IsLast
    <3>2. ASSUME NEW g \in Files, Queued(g), g # f PROVE Queued(g)'
      BY <2>3, <1>10, <3>2 DEF Queued, IsLast
    <3> QED
      BY <3>1, <3>2
  <2>7. QueueFollows'
    <3> SUFFICES ASSUME NEW i \in DOMAIN queue', queue'[i].op # "mkdir", queue'[i].file \notin unseen'
                 PROVE  \E j \in DOMAIN queue' : i <= j /\ IsLast(queue[j], queue[i].file)'
      BY DEF QueueFollows
    <3>1. CASE queue'[i].file = f
      BY <3>1, <2>3, <2>4 DEF IsLast
    <3>2. CASE queue'[i].file # f
      <4>1. i \in DOMAIN queue /\ queue'[i] = queue[i] /\ queue[i].file \notin unseen
        BY <3>2, <2>1, <2>3, <1>11
      <4>2. PICK j \in DOMAIN queue : i <= j /\ IsLast(queue[j], queue[i].file)
        BY <4>1 DEF IInv, QueueFollows
      <4>3. j \in DOMAIN queue' /\ queue'[j] = queue[j] /\ queue[i].file \in Files
        BY <2>3, <4>1, <1>8
      <4> QED
        BY <4>1, <4>2, <4>3, <3>2, <1>10 DEF IsLast
    <3> QED
      BY <3>1, <3>2
  <2>8. LoopFollows'
    BY <2>6, <1>2, <1>3, <1>11 DEF IInv, LoopFollows, TypeOK
  <2>9. ChangesDue'
    <3> SUFFICES ASSUME NEW g \in Sources, ~partial', g \notin unseen', Pending(g)' PROVE Due(g)'
      BY DEF ChangesDue
    <3>1. CASE g = f
      BY <3>1, <2>6 DEF Due
    <3>2. CASE g # f
      BY <3>2, <2>6, <1>2, <1>3, <1>4, <1>11 DEF IInv, ChangesDue, Pending, Due, InHand, TimerDue, Sources
    <3> QED
      BY <3>1, <3>2
  <2>10. RestartDue'
    <3> SUFFICES ASSUME NEW g \in Config, g \in present', g \notin unseen', g \notin restarted', g \notin refused'
                 PROVE  Queued(g)' \/ Under(RestartKey)'
      BY DEF RestartDue
    <3>1. CASE g = f
      BY <3>1, <2>6
    <3>2. CASE g # f
      BY <3>2, <2>6, <1>2, <1>3, <1>4, <1>11, FilesAssumption DEF IInv, RestartDue
    <3> QED
      BY <3>1, <3>2
  <2> QED
    BY <2>5, <2>7, <2>8, <2>9, <2>10, <1>5, <1>6 DEF IInv
<1>12. CASE dir[f] = "new" /\ unseen' = unseen \cup {f} /\ UNCHANGED queue
  <2>1. \A g \in Files : g # f /\ Queued(g) => Queued(g)'
    BY <1>10, <1>12 DEF Queued, IsLast
  <2>2. EventsAgree'
    BY <1>9, <1>12 DEF EventsAgree, Agrees
  <2>3. QueueFollows'
    <3> SUFFICES ASSUME NEW i \in DOMAIN queue, queue[i].op # "mkdir", queue[i].file \notin unseen'
                 PROVE  \E j \in DOMAIN queue : i <= j /\ IsLast(queue[j], queue[i].file)'
      BY <1>12 DEF QueueFollows, IsLast
    <3>1. PICK j \in DOMAIN queue : i <= j /\ IsLast(queue[j], queue[i].file)
      BY <1>12 DEF IInv, QueueFollows
    <3>2. queue[i].file \in Files /\ queue[i].file # f
      BY <1>8, <1>12
    <3> QED
      BY <3>1, <3>2, <1>10, <1>12 DEF IsLast
  <2>4. LoopFollows'
    BY <2>1, <1>2, <1>3, <1>12 DEF IInv, LoopFollows, TypeOK
  <2>5. ChangesDue'
    BY <2>1, <1>2, <1>3, <1>4, <1>12 DEF IInv, ChangesDue, Pending, Due, InHand, TimerDue, Sources
  <2>6. RestartDue'
    BY <2>1, <1>2, <1>3, <1>4, <1>12, FilesAssumption DEF IInv, RestartDue
  <2> QED
    BY <2>2, <2>3, <2>4, <2>5, <2>6, <1>5, <1>6 DEF IInv
<1> QED
  BY <1>11, <1>12 DEF Modify

(* Nothing but what a tool has open, and the state of the server.          *)
LEMMA Stays ==
  ASSUME IInv, TypeOK', MapTrue', UNCHANGED <<disk, queue>>, UNCHANGED <<timers, debounceMap>>,
         UNCHANGED <<loop, regs, partial, told, lost, refused>>,
         deleted' \subseteq deleted, restarted \subseteq restarted'
  PROVE  IInv'
<1>1. /\ EventsAgree' /\ QueueFollows' /\ UNCHANGED <<present, mods, unseen>>
      /\ \A f \in Files : Queued(f)' <=> Queued(f)
  BY DiskStays
<1>2. \A k : Under(k)' <=> Under(k)
  BY TimersStay
<1>3. LoopAgrees' /\ LoopFollows' /\ AllWatched'
  BY <1>1 DEF IInv, LoopAgrees, LoopFollows, Agrees, TypeOK, AllWatched
<1>4. ChangesDue' /\ RestartDue'
  BY <1>1, <1>2, FilesAssumption DEF IInv, ChangesDue, Pending, RestartDue, Due, InHand, TimerDue, Sources
<1> QED
  BY <1>1, <1>3, <1>4 DEF IInv

LEMMA ServerInv ==
  ASSUME IInv, TypeOK', MapTrue', ServerStep PROVE IInv'
<1>1. UNCHANGED <<disk, queue>> /\ UNCHANGED <<timers, debounceMap>>
      /\ UNCHANGED <<loop, regs, partial, told, lost, refused>>
  BY DEF ServerStep, ServerFails, RecoveryBegins, RecoveryStarts, RecoveryEnds, notices
<1>2. UNCHANGED <<deleted, restarted>> \/ (deleted' = {} /\ restarted' = Config)
  BY DEF ServerStep, ServerFails, RecoveryBegins, RecoveryStarts, RecoveryEnds, ServerStarted, notices
<1>3. restarted \subseteq Config
  BY DEF IInv, TypeOK
<1>4. deleted' \subseteq deleted /\ restarted \subseteq restarted'
  BY <1>2, <1>3
<1> QED
  BY <1>1, <1>4, Stays

LEMMA ToolInv ==
  ASSUME IInv, TypeOK', MapTrue', NEW f \in Files, ToolOpens(f) PROVE IInv'
BY Stays DEF ToolOpens, notices

LEMMA RegistrationInv ==
  ASSUME IInv, TypeOK', MapTrue', NEW mask \in Masks, AddRegistrations(mask) PROVE IInv'
<1>1. UNCHANGED <<disk, queue>> /\ UNCHANGED <<timers, debounceMap>>
      /\ UNCHANGED <<loop, told, lost, deleted, restarted, refused>> /\ (partial => partial')
  BY DEF AddRegistrations, notices
<1>2. /\ EventsAgree' /\ QueueFollows' /\ UNCHANGED <<present, mods, unseen>>
      /\ \A f \in Files : Queued(f)' <=> Queued(f)
  BY <1>1, DiskStays
<1>3. \A k : Under(k)' <=> Under(k)
  BY <1>1, TimersStay
<1>4. AllWatched'
  BY DEF AddRegistrations, AllWatched
<1>5. LoopAgrees' /\ LoopFollows'
  BY <1>1, <1>2 DEF IInv, LoopAgrees, LoopFollows, Agrees, TypeOK
<1>6. ChangesDue' /\ RestartDue'
  BY <1>1, <1>2, <1>3, FilesAssumption
     DEF IInv, ChangesDue, Pending, RestartDue, Due, InHand, TimerDue, Sources
<1> QED
  BY <1>2, <1>4, <1>5, <1>6 DEF IInv

(***************************************************************************)
(* The event loop.                                                         *)
(***************************************************************************)
(* The event at the head of the queue is taken out of it.                  *)
LEMMA Takes ==
  ASSUME IInv, queue # <<>>, queue' = Tail(queue), UNCHANGED <<present, mods, unseen>>,
         NEW e, e = Event
  PROVE  /\ EventsAgree' /\ QueueFollows'
         /\ \A f \in Files : Queued(f) => Queued(f)' \/ IsLast(e, f)
         /\ e.op # "mkdir" => Agrees(e)
         /\ e.op # "mkdir" /\ e.file \notin unseen /\ e.n # mods[e.file]
              => Queued(e.file)'
<1>1. queue \in Seq(Events)
  BY DEF IInv, TypeOK
<1>2. /\ e = queue[1] /\ 1 \in DOMAIN queue
      /\ \A i \in DOMAIN queue' : i + 1 \in DOMAIN queue /\ i \in Nat /\ queue'[i] = queue[i + 1]
      /\ \A i \in DOMAIN queue : i # 1 => i - 1 \in DOMAIN queue' /\ queue'[i - 1] = queue[i]
      /\ DOMAIN queue \subseteq Nat
  BY <1>1, TailFacts DEF Event
<1>3. EventsAgree'
  BY <1>2 DEF IInv, EventsAgree, Agrees
<1>4. QueueFollows'
  <2> SUFFICES ASSUME NEW i \in DOMAIN queue', queue'[i].op # "mkdir", queue'[i].file \notin unseen
               PROVE  \E j \in DOMAIN queue' : i <= j /\ IsLast(queue'[j], queue'[i].file)
    BY DEF QueueFollows, IsLast
  <2>1. i + 1 \in DOMAIN queue /\ i \in Nat /\ queue'[i] = queue[i + 1]
    BY <1>2
  <2>2. PICK j \in DOMAIN queue : i + 1 <= j /\ IsLast(queue[j], queue[i + 1].file)
    BY <2>1 DEF IInv, QueueFollows
  <2>3. j # 1 /\ j \in Nat
    BY <1>2, <2>1, <2>2
  <2>4. j - 1 \in DOMAIN queue' /\ queue'[j - 1] = queue[j] /\ i <= j - 1
    BY <1>2, <2>1, <2>2, <2>3
  <2> QED
    BY <2>1, <2>2, <2>4
<1>5. ASSUME NEW f \in Files, Queued(f) PROVE Queued(f)' \/ IsLast(e, f)
  <2>1. PICK i \in DOMAIN queue : IsLast(queue[i], f)
    BY <1>5 DEF Queued
  <2>2. CASE i = 1
    BY <2>1, <2>2, <1>2
  <2>3. CASE i # 1
    <3>1. i - 1 \in DOMAIN queue' /\ queue'[i - 1] = queue[i]
      BY <2>3, <1>2
    <3> QED
      BY <3>1, <2>1 DEF Queued, IsLast
  <2> QED
    BY <2>2, <2>3
<1>6. e.op # "mkdir" => Agrees(e)
  BY <1>2 DEF IInv, EventsAgree
<1>7. ASSUME e.op # "mkdir", e.file \notin unseen, e.n # mods[e.file]
      PROVE  Queued(e.file)'
  <2>1. PICK j \in DOMAIN queue : IsLast(queue[j], e.file)
    BY <1>2, <1>7 DEF IInv, QueueFollows
  <2>2. j # 1
    BY <1>2, <1>7, <2>1 DEF IsLast
  <2>3. j - 1 \in DOMAIN queue' /\ queue'[j - 1] = queue[j]
    BY <1>2, <2>2
  <2> QED
    BY <2>1, <2>3 DEF Queued, IsLast
<1> QED
  BY <1>3, <1>4, <1>5, <1>6, <1>7

LEMMA MkdirInv ==
  ASSUME IInv, TypeOK', MapTrue', TakesMkdir PROVE IInv'
<1>1. /\ queue # <<>> /\ queue' = Tail(queue) /\ Event.op = "mkdir" /\ UNCHANGED <<present, mods, unseen>>
      /\ UNCHANGED <<timers, debounceMap>>
      /\ UNCHANGED <<loop, told, lost, deleted, restarted, refused, partial, regs>>
  BY DEF TakesMkdir, notices
<1>2. /\ EventsAgree' /\ QueueFollows' /\ \A f \in Files : Queued(f) => Queued(f)'
  BY <1>1, Takes DEF IsLast
<1>3. \A k : Under(k)' <=> Under(k)
  BY <1>1, TimersStay
<1>4. LoopAgrees' /\ LoopFollows' /\ AllWatched'
  BY <1>1, <1>2 DEF IInv, LoopAgrees, LoopFollows, Agrees, TypeOK, AllWatched
<1>5. ChangesDue' /\ RestartDue'
  BY <1>1, <1>2, <1>3, FilesAssumption
     DEF IInv, ChangesDue, Pending, RestartDue, Due, InHand, TimerDue, Sources
<1> QED
  BY <1>2, <1>4, <1>5 DEF IInv

LEMMA ConfigInv ==
  ASSUME IInv, TypeOK', MapTrue', TakesConfig PROVE IInv'
<1>1. /\ queue # <<>> /\ queue' = Tail(queue) /\ UNCHANGED <<present, mods, unseen>>
      /\ UNCHANGED <<loop, told, lost, deleted, restarted, refused, partial, regs>>
      /\ loop = Idle /\ Event.file \in Config
  BY DEF TakesConfig, notices, disk
<1>2. /\ EventsAgree' /\ QueueFollows' /\ \A f \in Files : Queued(f) => Queued(f)' \/ f = Event.file
  BY <1>1, Takes DEF IsLast
<1>3. Under(RestartKey)' /\ \A k \in Keys : Under(k) => Under(k)'
  BY KeyFacts, TypeParts, DebounceFacts DEF TakesConfig, IInv
<1>4. LoopAgrees' /\ LoopFollows' /\ AllWatched'
  BY <1>1 DEF IInv, LoopAgrees, LoopFollows, AllWatched, Idle
<1>5. RestartDue'
  BY <1>3 DEF RestartDue
<1>6. ChangesDue'
  BY <1>1, <1>2, <1>3, SourceKeys DEF IInv, ChangesDue, Pending, Due, InHand, TimerDue, Sources
<1> QED
  BY <1>2, <1>4, <1>5, <1>6 DEF IInv

LEMMA FileInv ==
  ASSUME IInv, TypeOK', MapTrue', TakesFile PROVE IInv'
<1>0. PICK e : e = Event
  OBVIOUS
<1>1. /\ queue # <<>> /\ queue' = Tail(queue) /\ UNCHANGED <<present, mods, unseen>>
      /\ UNCHANGED <<timers, debounceMap>>
      /\ UNCHANGED <<told, lost, deleted, restarted, refused, partial, regs>>
      /\ loop = Idle /\ e.op # "mkdir" /\ (e.file \in present => e.file \notin Config)
  BY <1>0 DEF TakesFile, notices, disk
<1>2. /\ loop'.file = e.file /\ loop'.op = e.op /\ loop'.n = e.n
      /\ loop'.at = (IF e.file \in present THEN "check" ELSE "dispatch")
  BY <1>0 DEF TakesFile
<1>3. /\ EventsAgree' /\ QueueFollows' /\ \A f \in Files : Queued(f) => Queued(f)' \/ IsLast(e, f)
      /\ Agrees(e)
      /\ e.file \notin unseen /\ e.n # mods[e.file] => Queued(e.file)'
  BY <1>0, <1>1, Takes
<1>4. \A k : Under(k)' <=> Under(k)
  BY <1>1, TimersStay
<1>5. LoopAgrees' /\ LoopFollows' /\ AllWatched'
  BY <1>1, <1>2, <1>3 DEF IInv, LoopAgrees, LoopFollows, Agrees, AllWatched
<1>6. \A f \in Files : IsLast(e, f) => InHand(f)'
  BY <1>1, <1>2 DEF IsLast, InHand
<1>7. \A f : ~InHand(f)
  BY <1>1 DEF InHand, Idle
<1>8. ChangesDue'
  BY <1>1, <1>3, <1>4, <1>6, <1>7 DEF IInv, ChangesDue, Pending, Due, TimerDue, Sources
<1>9. RestartDue'
  BY <1>1, <1>3, <1>4, FilesAssumption DEF IInv, RestartDue, IsLast
<1> QED
  BY <1>3, <1>5, <1>8, <1>9 DEF IInv

(* The loop goes on with the event in its hands: enough that what it had   *)
(* in hand is now due otherwise.                                           *)
LEMMA LoopMoves ==
  ASSUME IInv, UNCHANGED <<disk, queue, restarted, refused, partial, regs>>,
         NEW h \in Files, h = loop.file, loop.at # "idle",
         loop' = Idle \/ \E a \in {"dispatch", "renamed"} : loop' = [loop EXCEPT !.at = a],
         loop'.at = "renamed" => loop.op = "rename",
         \A k \in Keys : Under(k) => Under(k)',
         \A f \in Sources : Pending(f)' => Pending(f) \/ f = h,
         Pending(h)' /\ ~Pending(h) => h \in present /\ loop.op \in {"remove", "rename"},
         ~partial /\ InHand(h) /\ Pending(h)' => InHand(h)' \/ (h \in present /\ TimerDue(h)')
  PROVE  TypeOK' /\ MapTrue' => IInv'
<1>1. /\ EventsAgree' /\ QueueFollows' /\ UNCHANGED <<present, mods, unseen>>
      /\ \A f \in Files : Queued(f)' <=> Queued(f)
  BY DiskStays
<1>2. AllWatched' /\ UNCHANGED <<restarted, refused, partial, regs>>
  BY DEF IInv, AllWatched
<1>3. loop \in LoopRecords /\ loop.file \in Files
  BY TypeParts DEF IInv, LoopType
<1>4. \/ loop'.at = "idle"
      \/ loop'.at \in {"dispatch", "renamed"} /\ loop'.file = loop.file /\ loop'.op = loop.op /\ loop'.n = loop.n
  BY <1>3, IdleType DEF LoopRecords
<1>5. LoopAgrees' /\ LoopFollows'
  BY <1>1, <1>3, <1>4 DEF IInv, LoopAgrees, LoopFollows, Agrees
<1>6. RestartDue'
  BY <1>1, <1>2, KeyFacts, FilesAssumption DEF IInv, RestartDue
<1>7. ChangesDue'
  <2> SUFFICES ASSUME NEW f \in Sources, ~partial, f \notin unseen, Pending(f)' PROVE Due(f)'
    BY <1>1, <1>2 DEF ChangesDue
  <2>1. f \in Files /\ Key(f, "changed") \in Keys /\ Key(f, "created") \in Keys
    BY SourceKeys DEF Sources
  <2>2. TimerDue(f) => TimerDue(f)'
    BY <2>1 DEF TimerDue
  <2>3. InHand(f) => f = h
    BY DEF InHand
  <2>4. CASE Pending(f)
    <3>1. Due(f)
      BY <2>4 DEF IInv, ChangesDue
    <3> QED
      BY <3>1, <2>1, <2>2, <2>3, <1>1 DEF Due
  <2>5. CASE ~Pending(f)
    <3>1. f = h /\ f \in present /\ loop.op \in {"remove", "rename"}
      BY <2>5
    <3>2. loop.n # mods[f]
      BY <3>1 DEF IInv, LoopAgrees, Agrees, Leaves
    <3> QED
      BY <3>1, <3>2, <2>1, <1>1 DEF IInv, LoopFollows, Due
  <2> QED
    BY <2>4, <2>5
<1> QED
  BY <1>1, <1>2, <1>5, <1>6, <1>7 DEF IInv

(* Every kind of change is watched, or partial says that it is not.        *)
LEMMA KindsWatched ==
  ASSUME IInv, ~partial
  PROVE  "create" \in WatchKind(regs) /\ "change" \in WatchKind(regs) /\ "delete" \in WatchKind(regs)
BY DEF IInv, AllWatched, WatchKinds

LEMMA LoopInv ==
  ASSUME IInv, TypeOK', MapTrue',
         ChecksExcluded \/ DispatchesLater \/ DispatchesNow \/ DispatchesNothing \/ LooksAgain
  PROVE  IInv'
<1>1. PICK h : h = loop.file
  OBVIOUS
<1>2. /\ UNCHANGED <<disk, queue, restarted, refused, partial, regs>> /\ loop.at # "idle"
  BY DEF ChecksExcluded, DispatchesLater, DispatchesNow, DispatchesNothing, LooksAgain
<1>3. /\ h \in Files /\ loop.op \in Ops /\ loop \in LoopRecords
      /\ (loop.n = mods[h] => (h \in present <=> Leaves(loop.op)))
  BY <1>1, <1>2, TypeParts DEF IInv, LoopType, LoopAgrees, Agrees
<1>4. TimersType /\ MapTrue /\ Key(h, "changed") \in Keys /\ Key(h, "created") \in Keys
  BY <1>3, TypeParts, SourceKeys DEF IInv
<1>5. \A a \in {"dispatch", "renamed"} :
        LET l == [loop EXCEPT !.at = a] IN l.at = a /\ l.file = h /\ l.n = loop.n /\ l.op = loop.op
  BY <1>1, <1>3 DEF LoopRecords
<1>p. ASSUME UNCHANGED <<told, lost, deleted>> PROVE \A f : Pending(f)' <=> Pending(f)
  BY <1>p, <1>2 DEF Pending, disk
<1>6. CASE ChecksExcluded
  <2>1. UNCHANGED <<timers, debounceMap>> /\ UNCHANGED <<told, lost, deleted>>
        /\ loop' = (IF h \in present THEN [loop EXCEPT !.at = "dispatch"] ELSE Idle)
        /\ loop.at = "check"
    BY <1>1, <1>6 DEF ChecksExcluded, notices
  <2>2. \A k \in Keys : Under(k) => Under(k)'
    BY <2>1, TimersStay
  <2>3. InHand(h) => h \in present
    BY <1>1, <2>1 DEF InHand, IInv, LoopAgrees
  <2>4. InHand(h) => InHand(h)'
    BY <1>2, <1>5, <2>1, <2>3 DEF InHand, disk
  <2>5. loop'.at # "renamed"
    BY <1>5, <2>1, IdleType
  <2> QED
    BY <1>1, <1>2, <1>3, <1>p, <2>1, <2>2, <2>4, <2>5, LoopMoves
<1>7. CASE DispatchesLater
  <2>1. PICK kind \in {"changed", "created"} : Starts(kind) /\ Debounce(Key(h, kind))
    BY <1>1, <1>7 DEF DispatchesLater
  <2>2. (\A k \in Keys : Under(k) => Under(k)') /\ Under(Key(h, kind))'
    BY <1>4, <2>1, DebounceFacts
  <2>3. TimerDue(h)'
    BY <2>1, <2>2 DEF TimerDue
  <2>6. InHand(h) => h \in present
    BY <1>1, <1>3, <2>1 DEF InHand, Starts, Leaves
  <2>4. loop' = Idle /\ UNCHANGED <<told, lost, deleted>>
    BY <1>7 DEF DispatchesLater, notices
  <2>5. loop'.at # "renamed"
    BY <2>4, IdleType
  <2> QED
    BY <1>1, <1>2, <1>3, <1>p, <2>2, <2>3, <2>4, <2>5, <2>6, LoopMoves
<1>8. CASE DispatchesNow
  <2>1. /\ UNCHANGED <<timers, debounceMap>> /\ Notice(h, "deleted") /\ loop.op \in {"remove", "rename"}
    BY <1>1, <1>8 DEF DispatchesNow
  <2>5. loop' = Idle \/ (loop.op = "rename" /\ loop' = [loop EXCEPT !.at = "renamed"])
    BY Zenon, <1>8 DEF DispatchesNow
  <2>2. \A k \in Keys : Under(k) => Under(k)'
    BY <2>1, TimersStay
  <2>3. InHand(h) => h \notin present
    BY <1>3, <2>1 DEF InHand, Leaves
  <2>4. loop'.at = "renamed" => loop.op = "rename"
    BY <2>5, IdleType
  <2>6. UNCHANGED present
    BY <1>2 DEF disk
  <2>7. \A f \in Sources : Pending(f)' => Pending(f) \/ f = h
    BY <2>1, <2>6 DEF Notice, Pending
  <2>8. Pending(h)' => h \in present
    BY <2>1, <2>6 DEF Notice, Pending
  <2> QED
    BY <1>1, <1>2, <1>3, <2>1, <2>2, <2>3, <2>4, <2>5, <2>7, <2>8, LoopMoves
<1>9. CASE DispatchesNothing
  <2>1. /\ UNCHANGED <<timers, debounceMap>> /\ UNCHANGED <<told, lost, deleted>>
        /\ ~Starts("changed") /\ ~Starts("created")
        /\ loop.op \in {"remove", "rename"} => "delete" \notin WatchKind(regs)
    BY <1>9 DEF DispatchesNothing, notices
  <2>5. loop' = Idle \/ (loop.op = "rename" /\ loop' = [loop EXCEPT !.at = "renamed"])
    BY Zenon, <1>9 DEF DispatchesNothing
  <2>2. \A k \in Keys : Under(k) => Under(k)'
    BY <2>1, TimersStay
  <2>3. ~partial => ~InHand(h)
    <3> SUFFICES ASSUME ~partial, InHand(h) PROVE FALSE
      OBVIOUS
    <3>1. loop.op \notin {"remove", "rename", "write"}
      BY <2>1, KindsWatched DEF Starts
    <3>2. loop.op = "create"
      BY <3>1, <1>3 DEF Ops
    <3>3. h \in present
      BY <3>2, <1>3 DEF InHand, Leaves
    <3> QED
      BY <3>2, <3>3, <2>1, <1>1, KindsWatched DEF Starts
  <2>4. loop'.at = "renamed" => loop.op = "rename"
    BY <2>5, IdleType
  <2> QED
    BY <1>1, <1>2, <1>3, <1>p, <2>1, <2>2, <2>3, <2>4, <2>5, LoopMoves
<1>10. CASE LooksAgain
  <2>1. loop' = Idle /\ UNCHANGED <<told, lost, deleted>> /\ loop.at = "renamed"
    BY <1>10 DEF LooksAgain, notices
  <2>2. Debounce(Key(h, "created")) \/ UNCHANGED <<timers, debounceMap>>
    BY <1>1, <1>10 DEF LooksAgain
  <2>3. \A k \in Keys : Under(k) => Under(k)'
    BY <1>4, <2>2, TimersStay, DebounceFacts
  <2>4. ~InHand(h) /\ loop'.at # "renamed"
    BY <2>1, IdleType DEF InHand
  <2> QED
    BY <1>1, <1>2, <1>3, <1>p, <2>1, <2>3, <2>4, LoopMoves
<1> QED
  BY <1>6, <1>7, <1>8, <1>9, <1>10

(***************************************************************************)
(* The timers.                                                             *)
(***************************************************************************)
LEMMA TimerInv ==
  ASSUME IInv, TypeOK', MapTrue', NEW t \in Timers, TimerStep(t) \/ RestartStep(t) PROVE IInv'
<1>1. /\ UNCHANGED <<disk, queue>> /\ UNCHANGED <<loop, regs, partial>> /\ timers[t].st # "free"
  BY DEF TimerStep, Fires, Handles, NotifiesChange, Cleans, RestartBegins, RestartRefused, RestartStep,
         RestartStarts, RestartReturns, RestartFails
<1>2. /\ EventsAgree' /\ QueueFollows' /\ UNCHANGED <<present, mods, unseen>>
      /\ \A f \in Files : Queued(f)' <=> Queued(f)
  BY <1>1, DiskStays
<1>3. LoopAgrees' /\ LoopFollows' /\ AllWatched'
  BY <1>1, <1>2 DEF IInv, LoopAgrees, LoopFollows, Agrees, TypeOK, AllWatched
<1>4. PICK key : key = timers[t].key
  OBVIOUS
<1>5. TimersType /\ MapTrue /\ key \in Keys
  BY <1>4, TypeParts DEF IInv, TimersType, Timer
<1>6. SUFFICES ChangesDue' /\ RestartDue'
  BY <1>2, <1>3 DEF IInv
<1>7. ASSUME \A k \in Keys : Under(k) => Under(k)', UNCHANGED <<told, lost, deleted, restarted, refused>>
      PROVE  ChangesDue' /\ RestartDue'
  BY <1>1, <1>2, <1>7, KeyFacts, FilesAssumption
     DEF IInv, ChangesDue, Pending, RestartDue, Due, InHand, TimerDue, Sources
<1>8. CASE Fires(t)
  <2>1. \A k \in Keys : Under(k) => Under(k)'
    BY <1>1, <1>5, <1>8, GoesOn DEF Fires, TimerStates, BusyStates
  <2> QED
    BY <1>7, <1>8, <2>1 DEF Fires, notices
<1>9. ASSUME key # RestartKey,
             \A k \in Keys : Under(k) => Under(k)' \/ k = key,
             \A f \in Sources : Pending(f)' => Pending(f),
             key.file \in present => ~Pending(key.file)',
             UNCHANGED <<restarted, refused>>
      PROVE  ChangesDue' /\ RestartDue'
  <2>1. key.file \in Files
    BY <1>5, <1>9, KeyFacts
  <2>2. RestartDue'
    BY <1>1, <1>2, <1>9, KeyFacts, FilesAssumption DEF IInv, RestartDue
  <2>3. ChangesDue'
    <3> SUFFICES ASSUME NEW f \in Sources, ~partial, f \notin unseen, Pending(f)' PROVE Due(f)'
      BY <1>1, <1>2 DEF ChangesDue
    <3>1. f \in Files /\ Pending(f) /\ Due(f)
      BY <1>9 DEF Sources, IInv, ChangesDue
    <3>2. CASE f \in present
      <4>1. Key(f, "changed") # key /\ Key(f, "created") # key
        BY <3>1, <3>2, <1>9, KeyFacts
      <4>2. TimerDue(f) => TimerDue(f)'
        BY <1>9, <3>1, <4>1, SourceKeys DEF TimerDue
      <4> QED
        BY <1>1, <1>2, <3>1, <4>2 DEF Due, InHand
    <3>3. CASE f \notin present
      BY <1>1, <1>2, <3>1, <3>3 DEF Due, InHand
    <3> QED
      BY <3>2, <3>3
  <2> QED
    BY <2>2, <2>3
<1>10. CASE Cleans(t)
  BY <1>5, <1>7, <1>10, CleansFacts DEF Cleans, notices
<1>n. ASSUME NEW kind, kind # "deleted", Notice(key.file, kind)
      PROVE  (\A f \in Sources : Pending(f)' => Pending(f)) /\ ~Pending(key.file)'
  BY <1>2, <1>n DEF Notice, Pending
<1>11. CASE Handles(t)
  <2>1. key # RestartKey /\ key.file \in Files /\ key.kind \in {"changed", "created"}
    BY <1>4, <1>5, <1>11, KeyFacts DEF Handles
  <2>2. UNCHANGED <<restarted, refused>>
    BY <1>11 DEF Handles
  <2>3. CASE timers' = [timers EXCEPT ![t].st = "change"] /\ UNCHANGED notices
    <3>1. \A k \in Keys : Under(k) => Under(k)'
      BY <1>1, <1>5, <1>11, <2>3, GoesOn DEF Handles, TimerStates, BusyStates
    <3> QED
      BY <1>7, <2>2, <2>3, <3>1 DEF notices
  <2>4. CASE timers' = [timers EXCEPT ![t].st = "handled"] /\ Notice(key.file, key.kind)
    <3>1. \A k \in Keys : Under(k) => Under(k)' \/ k = key
      BY <1>1, <1>4, <1>5, <1>11, <2>4, GoesOn DEF Handles, TimerStates
    <3>2. (\A f \in Sources : Pending(f)' => Pending(f)) /\ ~Pending(key.file)'
      BY <2>1, <2>4, <1>n
    <3> QED
      BY <2>1, <2>2, <3>1, <3>2, <1>9
  <2> QED
    BY <1>4, <1>11, <2>3, <2>4 DEF Handles
<1>12. CASE NotifiesChange(t)
  <2>1. key # RestartKey /\ UNCHANGED <<restarted, refused>>
    BY <1>4, <1>12 DEF NotifiesChange
  <2>2. \A k \in Keys : Under(k) => Under(k)' \/ k = key
    BY <1>1, <1>4, <1>5, <1>12, GoesOn DEF NotifiesChange, TimerStates
  <2>3. \/ key.file \in present /\ Notice(key.file, "changed")
        \/ lost' = lost \cup {key.file} /\ UNCHANGED <<told, deleted>>
        \/ key.file \notin present /\ UNCHANGED notices
    BY <1>4, <1>12 DEF NotifiesChange
  <2>4. (\A f \in Sources : Pending(f)' => Pending(f)) /\ (key.file \in present => ~Pending(key.file)')
    <3>1. CASE Notice(key.file, "changed")
      BY <3>1, <1>n
    <3>2. CASE lost' = lost \cup {key.file} /\ UNCHANGED <<told, deleted>>
      BY <3>2, <1>2 DEF Pending
    <3>3. CASE key.file \notin present /\ UNCHANGED notices
      BY <3>3, <1>2 DEF Pending, notices
    <3> QED
      BY <2>3, <3>1, <3>2, <3>3
  <2> QED
    BY <2>1, <2>2, <2>4, <1>9
<1>13. CASE RestartBegins(t)
  <2>1. \A k \in Keys : Under(k) => Under(k)'
    BY <1>1, <1>5, <1>13, GoesOn DEF RestartBegins, TimerStates, BusyStates
  <2> QED
    BY <1>7, <1>13, <2>1 DEF RestartBegins, notices
<1>14. ASSUME NEW st \in {"starting", "handled"}, timers' = [timers EXCEPT ![t].st = st], UNCHANGED debounceMap,
              timers[t].key = RestartKey,
              restarted' = Config \/ refused' = Config,
              UNCHANGED <<told, lost>>, deleted' \subseteq deleted
       PROVE  ChangesDue' /\ RestartDue'
  <2>1. RestartDue'
    BY <1>14 DEF RestartDue
  <2>2. \A k \in Keys : Under(k) => Under(k)' \/ k = RestartKey
    BY <1>1, <1>5, <1>14, GoesOn DEF TimerStates
  <2>3. \A f \in Sources : Pending(f)' => Pending(f)
    BY <1>2, <1>14 DEF Pending
  <2>4. ChangesDue'
    BY <1>1, <1>2, <2>2, <2>3, KeyFacts DEF IInv, ChangesDue, Due, InHand, TimerDue, Sources
  <2> QED
    BY <2>1, <2>4
<1>15. CASE RestartRefused(t)
  <2>1. /\ timers' = [timers EXCEPT ![t].st = "handled"] /\ UNCHANGED debounceMap
        /\ timers[t].key = RestartKey /\ refused' = Config /\ UNCHANGED <<told, lost, deleted>>
    BY <1>15 DEF RestartRefused, notices
  <2> QED
    BY <2>1, <1>14
<1>16. CASE RestartStarts(t)
  <2>1. /\ timers' = [timers EXCEPT ![t].st = "starting"] /\ UNCHANGED debounceMap
        /\ timers[t].key = RestartKey /\ restarted' = Config /\ UNCHANGED <<told, lost>> /\ deleted' = {}
    BY <1>16 DEF RestartStarts, ServerStarted
  <2> QED
    BY <2>1, <1>14
<1>17. CASE RestartFails(t)
  <2>1. /\ timers' = [timers EXCEPT ![t].st = "handled"] /\ UNCHANGED debounceMap
        /\ timers[t].key = RestartKey /\ refused' = Config /\ UNCHANGED <<told, lost, deleted>>
    BY <1>17 DEF RestartFails, notices
  <2> QED
    BY <2>1, <1>14
<1>18. CASE RestartReturns(t)
  <2>1. \A k \in Keys : Under(k) => Under(k)'
    <3>1. \A k \in Keys : Under(k) => Under(k)' \/ k = RestartKey
      BY <1>1, <1>5, <1>18, GoesOn DEF RestartReturns, TimerStates
    <3>2. PICK st \in {"handled"} : timers' = [timers EXCEPT ![t].st = st]
      BY <1>18 DEF RestartReturns
    <3>3. \A u \in Timers : u # t => timers'[u] = timers[u]
      BY <1>5, <3>2, SetState DEF TimersType, TimerStates
    <3>4. ~Busy(t)
      BY <1>18 DEF RestartReturns, Busy
    <3> QED
      BY <3>3, <3>4 DEF Under, Busy
  <2> QED
    BY <1>7, <1>18, <2>1 DEF RestartReturns, notices
<1> QED
  BY <1>8, <1>10, <1>11, <1>12, <1>13, <1>15, <1>16, <1>17, <1>18 DEF TimerStep, RestartStep

LEMMA InvStep == IInv /\ [Next]_vars => IInv'
<1> SUFFICES ASSUME IInv, [Next]_vars PROVE IInv'
  OBVIOUS
<1>1. TypeOK' /\ MapTrue'
  BY TypeStep DEF IInv
<1>2. CASE Environment
  BY <1>1, <1>2, MakeDirInv, ModifyInv, RegistrationInv, ToolInv DEF Environment
<1>3. CASE LoopStep
  BY <1>1, <1>3, MkdirInv, ConfigInv, FileInv, LoopInv DEF LoopStep
<1>4. CASE \E t \in Timers : TimerStep(t) \/ RestartStep(t)
  BY <1>1, <1>4, TimerInv
<1>6. CASE ServerStep
  BY <1>1, <1>6, ServerInv
<1>5. CASE UNCHANGED vars
  <2>1. UNCHANGED <<disk, queue>> /\ UNCHANGED <<timers, debounceMap>>
        /\ UNCHANGED <<loop, regs, partial, told, lost, deleted, restarted, refused>>
    BY <1>5 DEF vars, notices
  <2> QED
    BY <1>1, <2>1, Stays
<1> QED
  BY <1>2, <1>3, <1>4, <1>5, <1>6 DEF Next

(***************************************************************************)
(* The theorems.                                                           *)
(***************************************************************************)
LEMMA Invariant == Spec => []IInv
BY InitInv, InvStep, PTL DEF Spec

(* Every variable keeps its type (watcher.go:22-36).                       *)
THEOREM TypeCorrect == Spec => []TypeOK
<1>1. IInv => TypeOK
  BY DEF IInv
<1> QED
  BY <1>1, Invariant, PTL

(* At rest nothing is due.                                                 *)
LEMMA QuietDue ==
  ASSUME IInv, Quiet
  PROVE  (\A f \in Sources : ~Due(f)) /\ (\A f \in Config : ~Queued(f)) /\ ~Under(RestartKey)
<1>1. \A f : ~Queued(f)
  BY DEF Quiet, Queued
<1>2. \A k : ~Under(k)
  BY DEF Quiet, Under
<1>3. \A f : ~InHand(f)
  BY DEF Quiet, InHand, Idle
<1> QED
  BY <1>1, <1>2, <1>3 DEF Due, TimerDue

(* No change is missed: when the watcher is at rest, a report of every     *)
(* file whose kinds of change and directory are watched has been sent      *)
(* since its last change, or has failed for want of a server               *)
(* (watcher.go:203-275, 503-525, 532-541).                                 *)
THEOREM NothingMissed == Spec => []NoChangeMissed
<1>1. IInv => NoChangeMissed
  BY QuietDue DEF IInv, NoChangeMissed, ChangesDue, Pending, Reported
<1> QED
  BY <1>1, Invariant, PTL

(* A file that is there was not last reported as deleted, unless the       *)
(* report that should have followed failed (watcher.go:260-275, 532-541).  *)
THEOREM PresentFilesTold == Spec => []PresentIsTold
<1>1. IInv => PresentIsTold
  BY QuietDue DEF IInv, PresentIsTold, ChangesDue, Pending
<1> QED
  BY <1>1, Invariant, PTL

(* A server was started after the last change of its configuration files,  *)
(* or a restart asked for since that change was refused or failed          *)
(* (watcher.go:478-501).                                                   *)
THEOREM ConfigurationApplied == Spec => []ConfigApplied
<1>1. IInv => ConfigApplied
  BY QuietDue DEF IInv, ConfigApplied, RestartDue
<1> QED
  BY <1>1, Invariant, PTL
==============================================================================
