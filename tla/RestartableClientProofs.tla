----------------------- MODULE RestartableClientProofs -----------------------
(* Proofs about RestartableClient, for all values of its constants.        *)
EXTENDS RestartHistory, TLAPS

(* The kinds of goroutines are disjoint, and 0 names none of them.         *)
LEMMA Kinds ==
  /\ Gens \subseteq Actors /\ Callers \subseteq Actors /\ Users \subseteq Actors
  /\ Starter \in Actors /\ Closer \in Actors /\ Starter # Closer
  /\ 0 \notin Gens /\ 0 \notin Actors
  /\ \A g \in Gens : g \in Nat /\ g \notin Callers /\ g \notin Users /\ g # Starter /\ g # Closer
  /\ \A a \in Callers : a \notin Users /\ a # Starter /\ a # Closer
  /\ \A a \in Users : a # Starter /\ a # Closer
  /\ \A a \in Actors : a \in Gens \/ a \in Callers \/ a \in Users \/ a = Starter \/ a = Closer
<1>1. \A g \in Gens : g \in 0..MaxGen /\ g # 0 /\ g \in Nat
  BY BoundsAssumption DEF Gens
<1>2. 0 \in 0..MaxGen
  BY BoundsAssumption
<1> QED
  BY <1>1, <1>2, ActorsAssumption DEF Actors

USE Kinds DEF Restarters, Started, Live, At, Goto, Returns, serverVars

LEMMA InitIInv == Init => IInv
<1> SUFFICES ASSUME Init PROVE IInv
  OBVIOUS
<1> USE BoundsAssumption DEF Init
<1>1. pc \in [Actors -> Labels]
  BY DEF Labels, MonitorPC, CallerPC, UserPC, StarterPC, CloserPC
<1>2. pc[Starter] \in StarterPC /\ pc[Closer] \in CloserPC
  BY DEF StarterPC, CloserPC
<1>3. TypeOK
  <2>1. /\ proc \in [Gens -> {"unborn", "running", "hung", "stopping", "exited", "killed"}]
        /\ done \in [Gens -> BOOLEAN] /\ ready \in [Gens -> BOOLEAN]
        /\ open \in [Gens -> SUBSET Files] /\ captured \in [Callers -> SUBSET Files]
        /\ cli \in [Actors -> Gens \cup {0}]
    OBVIOUS
  <2>2. \A m \in Gens : pc[m] \in MonitorPC
    BY DEF MonitorPC
  <2>3. \A c \in Callers \cup Users : pc[c] = "idle"
    OBVIOUS
  <2>4. /\ client \in Gens \cup {0} /\ lock \in Gens \cup {0}
        /\ restartCount \in 0..NumBackoffs /\ faults \in 0..MaxFaults
        /\ restarts \in 0..MaxRestarts
    OBVIOUS
  <2>6. restarting \in BOOLEAN /\ cancelled \in BOOLEAN
    BY Zenon
  <2>5. /\ \A c \in Callers : pc[c] \in CallerPC
        /\ \A u \in Users : pc[u] \in UserPC
    BY <2>3 DEF CallerPC, UserPC
  <2> HIDE DEF Init
  <2> QED
    BY <1>1, <1>2, <2>1, <2>2, <2>4, <2>5, <2>6 DEF TypeOK
<1>4. \A a \in Actors : ~InSection(a)
  BY DEF InSection, Section, MonitorSection, CallerSection
<1>5. StartInv /\ LockInv /\ GenInv
  BY DEF StartInv, LockInv, GenInv
<1>6. LocalInv /\ ServerInv /\ ReadyInv /\ BackoffInv
  BY DEF LocalInv, ServerInv, ReadyInv, HandedOutReady, BackoffInv
<1> QED
  BY <1>3, <1>4, <1>5, <1>6 DEF IInv, RestartExclusion, FlagMatchesSection

(* Every variable keeps its type, and every goroutine its program counters. *)
LEMMA TypeStep == IInv /\ [Next]_vars => TypeOK'
<1> SUFFICES ASSUME IInv, Next PROVE TypeOK'
  BY DEF IInv, vars, TypeOK
<1> USE BoundsAssumption DEF IInv, TypeOK, StartInv, LocalInv, Labels, MonitorPC, CallerPC,
            UserPC, StarterPC, CloserPC, MonitorSection, CallerSection
<1>1. ASSUME StarterStep PROVE TypeOK'
  <2>1. CASE StartCreate
    BY <1>1, <2>1 DEF StartCreate, Spawns
  <2>2. CASE StartCreateFails
    BY <1>1, <2>2 DEF StartCreateFails
  <2>3. CASE StartInitialized
    BY <1>1, <2>3 DEF StartInitialized, OpensFiles
  <2>4. CASE StartInitFails
    BY <1>1, <2>4 DEF StartInitFails, StopsClient
  <2>5. CASE StartAborted
    BY <1>1, <2>5 DEF StartAborted
  <2> QED
    BY <1>1, <2>1, <2>2, <2>3, <2>4, <2>5 DEF StarterStep
<1>2. ASSUME NEW a \in Restarters, CommonStep(a) PROVE TypeOK'
  <2>1. CASE Create(a)
    BY <1>2, <2>1 DEF Create, Spawns
  <2>2. CASE CreateFails(a)
    BY <1>2, <2>2 DEF CreateFails, AttemptFailed
  <2>3. CASE Initialized(a)
    BY <1>2, <2>3 DEF Initialized, OpensFiles
  <2>4. CASE InitFails(a)
    BY <1>2, <2>4 DEF InitFails, StopsClient
  <2>5. CASE InitAborted(a)
    BY <1>2, <2>5 DEF InitAborted, AttemptFailed
  <2>6. CASE Install(a)
    BY <1>2, <2>6 DEF Install
  <2>7. CASE SpawnMonitor(a)
    BY <1>2, <2>7 DEF SpawnMonitor
  <2>8. CASE Release(a)
    <3>1. restarting' \in BOOLEAN
      BY Zenon, <2>8 DEF Release
    <3>2. /\ pc' \in [Actors -> Labels] /\ cli' \in [Actors -> Gens \cup {0}]
          /\ \A x \in Gens : pc'[x] \in MonitorPC
          /\ \A x \in Callers : pc'[x] \in CallerPC
          /\ \A x \in Users : pc'[x] \in UserPC
          /\ pc'[Starter] \in StarterPC /\ pc'[Closer] \in CloserPC
          /\ UNCHANGED <<client, restartCount, lock, cancelled, serverVars, open, captured,
                         restarts>>
      BY <1>2, <2>8 DEF Release
    <3> QED
      BY <3>1, <3>2
  <2> QED
    BY <1>2, <2>1, <2>2, <2>3, <2>4, <2>5, <2>6, <2>7, <2>8 DEF CommonStep
<1>3. ASSUME NEW m \in Gens, MonitorStep(m), ~CommonStep(m) PROVE TypeOK'
  <2>1. CASE MonitorLoads(m)
    BY <1>3, <2>1 DEF MonitorLoads
  <2>2. CASE MonitorSeesDeath(m)
    BY <1>3, <2>2 DEF MonitorSeesDeath
  <2>3. CASE MonitorSeesCancel(m)
    BY <1>3, <2>3 DEF MonitorSeesCancel
  <2>4. CASE RestartAcquires(m)
    BY <1>3, <2>4 DEF RestartAcquires
  <2>5. CASE RestartRefused(m)
    BY <1>3, <2>5 DEF RestartRefused
  <2>6. CASE RestartCancelled(m)
    <3>1. restarting' \in BOOLEAN
      BY Zenon, <2>6 DEF RestartCancelled
    <3>2. /\ pc' \in [Actors -> Labels] /\ cli' \in [Actors -> Gens \cup {0}]
          /\ \A x \in Gens : pc'[x] \in MonitorPC
          /\ \A x \in Callers : pc'[x] \in CallerPC
          /\ \A x \in Users : pc'[x] \in UserPC
          /\ pc'[Starter] \in StarterPC /\ pc'[Closer] \in CloserPC
          /\ UNCHANGED <<client, restartCount, lock, cancelled, serverVars, open, captured,
                         restarts>>
      BY <1>3, <2>6 DEF RestartCancelled
    <3> QED
      BY <3>1, <3>2
  <2>7. CASE RestartAttempt(m)
    BY <1>3, <2>7 DEF RestartAttempt
  <2>8. CASE BackoffElapses(m)
    BY <1>3, <2>8 DEF BackoffElapses
  <2>9. CASE RestartClosesOld(m)
    BY <1>3, <2>9 DEF RestartClosesOld, StopsClient
  <2>10. CASE RestartOldClosed(m)
    BY <1>3, <2>10 DEF RestartOldClosed
  <2>11. CASE RestartResetsCount(m)
    BY <1>3, <2>11 DEF RestartResetsCount
  <2> QED
    BY <1>3, <2>1, <2>2, <2>3, <2>4, <2>5, <2>6, <2>7, <2>8, <2>9, <2>10, <2>11 DEF MonitorStep
<1>4. ASSUME NEW c \in Callers, CallerStep(c), ~CommonStep(c) PROVE TypeOK'
  <2>1. CASE ConfigRestart(c)
    BY <1>4, <2>1 DEF ConfigRestart
  <2>2. CASE CaptureOpenFiles(c)
    BY <1>4, <2>2 DEF CaptureOpenFiles
  <2>3. CASE ShutdownOld(c)
    BY <1>4, <2>3 DEF ShutdownOld, StopsClient
  <2>4. CASE OldShutDown(c)
    BY <1>4, <2>4 DEF OldShutDown
  <2>5. CASE Reopen(c)
    BY <1>4, <2>5 DEF Reopen
  <2>6. CASE Reopened(c)
    BY <1>4, <2>6 DEF Reopened
  <2> QED
    BY <1>4, <2>1, <2>2, <2>3, <2>4, <2>5, <2>6 DEF CallerStep
<1>5. ASSUME CloserStep PROVE TypeOK'
  <2>1. CASE CloseCancels
    BY <1>5, <2>1 DEF CloseCancels
  <2>2. CASE CloseStops
    BY <1>5, <2>2 DEF CloseStops, StopsClient
  <2>3. CASE CloseReturns
    BY <1>5, <2>3 DEF CloseReturns
  <2> QED
    BY <1>5, <2>1, <2>2, <2>3 DEF CloserStep
<1>6. ASSUME NEW u \in Users, UserStep(u) PROVE TypeOK'
  <2>1. CASE GetClientChecks(u)
    BY <1>6, <2>1 DEF GetClientChecks
  <2>2. CASE GetClientReturns(u)
    BY <1>6, <2>2 DEF GetClientReturns
  <2>3. CASE OpenFile(u)
    BY <1>6, <2>3 DEF OpenFile
  <2> QED
    BY <1>6, <2>1, <2>2, <2>3 DEF UserStep
<1>7. ASSUME NEW g \in Gens, ServerStep(g) PROVE TypeOK'
  <2>1. CASE Crash(g)
    BY <1>7, <2>1 DEF Crash
  <2>2. CASE Exits(g)
    BY <1>7, <2>2 DEF Exits
  <2>3. CASE ReaderSeesEOF(g)
    BY <1>7, <2>3 DEF ReaderSeesEOF
  <2>4. CASE Hangs(g)
    BY <1>7, <2>4 DEF Hangs
  <2>5. CASE KillerFires(g)
    BY <1>7, <2>5 DEF KillerFires
  <2>6. CASE ReaderFails(g)
    BY <1>7, <2>6 DEF ReaderFails
  <2> QED
    BY <1>7, <2>1, <2>2, <2>3, <2>4, <2>5, <2>6 DEF ServerStep
<1> QED
  BY <1>1, <1>2, <1>3, <1>4, <1>5, <1>6, <1>7 DEF Next, MonitorStep, CallerStep

(* rc.mu is write-locked by the closing monitor only, whatever the step. *)
LEMMA LockStep == IInv /\ [Next]_vars => LockInv'
<1> SUFFICES ASSUME IInv, Next PROVE LockInv'
  BY DEF IInv, vars, LockInv
<1> USE DEF IInv, TypeOK, StartInv, LockInv, LocalInv
<1>1. ASSUME StarterStep PROVE LockInv'
  BY SMTT(30), <1>1 DEF StarterStep, StartCreate, StartCreateFails,
                        StartInitialized, StartInitFails, StartAborted,
                        Spawns, StopsClient
<1>2. ASSUME NEW a \in Restarters, CommonStep(a) PROVE LockInv'
  BY SMTT(30), <1>2 DEF CommonStep, Create, CreateFails, Initialized,
                        InitFails, InitAborted, Install, SpawnMonitor,
                        Release, AttemptFailed, Spawns, StopsClient
<1>3. ASSUME NEW m \in Gens, MonitorStep(m), ~CommonStep(m) PROVE LockInv'
  BY SMTT(30), <1>3 DEF MonitorStep, MonitorLoads, MonitorSeesDeath,
                        MonitorSeesCancel, RestartAcquires, RestartRefused,
                        RestartCancelled, RestartAttempt, BackoffElapses,
                        RestartClosesOld, RestartOldClosed,
                        RestartResetsCount, StopsClient
<1>4. ASSUME NEW c \in Callers, CallerStep(c), ~CommonStep(c) PROVE LockInv'
  BY SMTT(30), <1>4 DEF CallerStep, ConfigRestart, CaptureOpenFiles,
                        ShutdownOld, OldShutDown, Reopen, Reopened,
                        StopsClient
<1>5. ASSUME CloserStep PROVE LockInv'
  BY SMTT(30), <1>5 DEF CloserStep, CloseCancels, CloseStops, CloseReturns,
                        StopsClient
<1>6. ASSUME NEW u \in Users, UserStep(u) PROVE LockInv'
  BY SMTT(30), <1>6 DEF UserStep, GetClientChecks, GetClientReturns, OpenFile
<1>7. ASSUME NEW g \in Gens, ServerStep(g) PROVE LockInv'
  BY SMTT(30), <1>7 DEF ServerStep, Crash, Hangs, Exits, KillerFires, ReaderSeesEOF, ReaderFails
<1> QED
  BY <1>1, <1>2, <1>3, <1>4, <1>5, <1>6, <1>7 DEF Next, MonitorStep, CallerStep

(* Generations are born in order and watched only once born. *)
LEMMA GenStep == IInv /\ [Next]_vars => GenInv'
<1> SUFFICES ASSUME IInv, Next PROVE GenInv'
  BY DEF IInv, vars, GenInv
<1> USE DEF IInv, TypeOK, StartInv, GenInv, LocalInv
<1>1. ASSUME StarterStep PROVE GenInv'
  BY SMTT(30), <1>1 DEF StarterStep, StartCreate, StartCreateFails,
                        StartInitialized, StartInitFails, StartAborted,
                        Spawns, StopsClient
<1>2. ASSUME NEW a \in Restarters, CommonStep(a) PROVE GenInv'
  BY SMTT(30), <1>2 DEF CommonStep, Create, CreateFails, Initialized,
                        InitFails, InitAborted, Install, SpawnMonitor,
                        Release, AttemptFailed, Spawns, StopsClient
<1>3. ASSUME NEW m \in Gens, MonitorStep(m), ~CommonStep(m) PROVE GenInv'
  BY SMTT(30), <1>3 DEF MonitorStep, MonitorLoads, MonitorSeesDeath,
                        MonitorSeesCancel, RestartAcquires, RestartRefused,
                        RestartCancelled, RestartAttempt, BackoffElapses,
                        RestartClosesOld, RestartOldClosed,
                        RestartResetsCount, StopsClient
<1>4. ASSUME NEW c \in Callers, CallerStep(c), ~CommonStep(c) PROVE GenInv'
  BY SMTT(30), <1>4 DEF CallerStep, ConfigRestart, CaptureOpenFiles,
                        ShutdownOld, OldShutDown, Reopen, Reopened,
                        StopsClient
<1>5. ASSUME CloserStep PROVE GenInv'
  BY SMTT(30), <1>5 DEF CloserStep, CloseCancels, CloseStops, CloseReturns,
                        StopsClient
<1>6. ASSUME NEW u \in Users, UserStep(u) PROVE GenInv'
  BY SMTT(30), <1>6 DEF UserStep, GetClientChecks, GetClientReturns, OpenFile
<1>7. ASSUME NEW g \in Gens, ServerStep(g) PROVE GenInv'
  BY SMTT(30), <1>7 DEF ServerStep, Crash, Hangs, Exits, KillerFires, ReaderSeesEOF, ReaderFails
<1> QED
  BY <1>1, <1>2, <1>3, <1>4, <1>5, <1>6, <1>7 DEF Next, MonitorStep, CallerStep

(* Nothing moves before Start has returned. *)
LEMMA StartStep == IInv /\ [Next]_vars => StartInv'
<1> SUFFICES ASSUME IInv, Next PROVE StartInv'
  BY DEF IInv, vars, StartInv
<1> USE DEF IInv, TypeOK, StartInv, LocalInv, ServerInv, MonitorPC, CallerPC,
            UserPC, StarterPC, CloserPC, MonitorSection, CallerSection
<1>1. ASSUME StarterStep PROVE StartInv'
  BY SMTT(30), <1>1 DEF StarterStep, StartCreate, StartCreateFails,
                        StartInitialized, StartInitFails, StartAborted,
                        Spawns, StopsClient
<1>2. ASSUME NEW a \in Restarters, CommonStep(a) PROVE StartInv'
  BY SMTT(30), <1>2 DEF CommonStep, Create, CreateFails, Initialized,
                        InitFails, InitAborted, Install, SpawnMonitor,
                        Release, AttemptFailed, Spawns, StopsClient
<1>3. ASSUME NEW m \in Gens, MonitorStep(m), ~CommonStep(m) PROVE StartInv'
  BY SMTT(30), <1>3 DEF MonitorStep, MonitorLoads, MonitorSeesDeath,
                        MonitorSeesCancel, RestartAcquires, RestartRefused,
                        RestartCancelled, RestartAttempt, BackoffElapses,
                        RestartClosesOld, RestartOldClosed,
                        RestartResetsCount, StopsClient
<1>4. ASSUME NEW c \in Callers, CallerStep(c), ~CommonStep(c) PROVE StartInv'
  BY SMTT(30), <1>4 DEF CallerStep, ConfigRestart, CaptureOpenFiles,
                        ShutdownOld, OldShutDown, Reopen, Reopened,
                        StopsClient
<1>5. ASSUME CloserStep PROVE StartInv'
  BY SMTT(30), <1>5 DEF CloserStep, CloseCancels, CloseStops, CloseReturns,
                        StopsClient
<1>6. ASSUME NEW u \in Users, UserStep(u) PROVE StartInv'
  BY SMTT(30), <1>6 DEF UserStep, GetClientChecks, GetClientReturns, OpenFile
<1>7. ASSUME NEW g \in Gens, ServerStep(g) PROVE StartInv'
  BY SMTT(30), <1>7 DEF ServerStep, Crash, Hangs, Exits, KillerFires, ReaderSeesEOF, ReaderFails
<1> QED
  BY <1>1, <1>2, <1>3, <1>4, <1>5, <1>6, <1>7 DEF Next, MonitorStep, CallerStep

(* The backoff count is zero again when the recovery leaves. *)
LEMMA BackoffStep == IInv /\ [Next]_vars => BackoffInv'
<1> SUFFICES ASSUME IInv, Next PROVE BackoffInv'
  BY DEF IInv, vars, BackoffInv
<1> USE DEF IInv, TypeOK, LocalInv, BackoffInv, StartInv, MonitorSection
<1>1. ASSUME StarterStep PROVE BackoffInv'
  BY SMTT(30), <1>1 DEF StarterStep, StartCreate, StartCreateFails,
                        StartInitialized, StartInitFails, StartAborted,
                        Spawns, StopsClient
<1>2. ASSUME NEW a \in Restarters, CommonStep(a) PROVE BackoffInv'
  BY SMTT(30), <1>2 DEF CommonStep, Create, CreateFails, Initialized,
                        InitFails, InitAborted, Install, SpawnMonitor,
                        Release, AttemptFailed, Spawns, StopsClient
<1>3. ASSUME NEW m \in Gens, MonitorStep(m), ~CommonStep(m) PROVE BackoffInv'
  BY SMTT(30), <1>3 DEF MonitorStep, MonitorLoads, MonitorSeesDeath,
                        MonitorSeesCancel, RestartAcquires, RestartRefused,
                        RestartCancelled, RestartAttempt, BackoffElapses,
                        RestartClosesOld, RestartOldClosed,
                        RestartResetsCount, StopsClient
<1>4. ASSUME NEW c \in Callers, CallerStep(c), ~CommonStep(c) PROVE BackoffInv'
  BY SMTT(30), <1>4 DEF CallerStep, ConfigRestart, CaptureOpenFiles,
                        ShutdownOld, OldShutDown, Reopen, Reopened,
                        StopsClient
<1>5. ASSUME CloserStep PROVE BackoffInv'
  BY SMTT(30), <1>5 DEF CloserStep, CloseCancels, CloseStops, CloseReturns,
                        StopsClient
<1>6. ASSUME NEW u \in Users, UserStep(u) PROVE BackoffInv'
  BY SMTT(30), <1>6 DEF UserStep, GetClientChecks, GetClientReturns, OpenFile
<1>7. ASSUME NEW g \in Gens, ServerStep(g) PROVE BackoffInv'
  BY SMTT(30), <1>7 DEF ServerStep, Crash, Hangs, Exits, KillerFires, ReaderSeesEOF, ReaderFails
<1> QED
  BY <1>1, <1>2, <1>3, <1>4, <1>5, <1>6, <1>7 DEF Next, MonitorStep, CallerStep

(* The local client of a restarting goroutine stays what it took it for, *)
(* because nobody else can install one. *)
LEMMA LocalStep == IInv /\ [Next]_vars => LocalInv'
<1> SUFFICES ASSUME IInv, Next PROVE LocalInv'
  BY DEF IInv, vars, LocalInv
<1> USE DEF IInv, TypeOK, StartInv, GenInv, LocalInv, RestartExclusion,
            InSection, Section, MonitorSection, CallerSection
<1>1. ASSUME StarterStep PROVE LocalInv'
  BY SMTT(30), <1>1 DEF StarterStep, StartCreate, StartCreateFails,
                        StartInitialized, StartInitFails, StartAborted,
                        Spawns, StopsClient
<1>2. ASSUME NEW a \in Restarters, CommonStep(a) PROVE LocalInv'
  <2>1. CASE Create(a)
    <3>1. PICK g \in Gens : Spawns(g) /\ cli' = [cli EXCEPT ![a] = g]
      BY <2>1 DEF Create
    <3>2. pc' = [pc EXCEPT ![a] = "init"] /\ client' = client
      BY <2>1 DEF Create
    <3>3. proc' = [proc EXCEPT ![g] = "running"] /\ proc[g] = "unborn"
      BY <3>1 DEF Spawns
    <3>4. pc[g] = "absent" /\ pc'[g] = "absent" /\ client < g
      BY <1>2, <2>1, <3>1, <3>2, <3>3 DEF Create
    <3>5. \A b \in Restarters \ {a} : pc'[b] = pc[b] /\ cli'[b] = cli[b]
      BY <3>1, <3>2
    <3>6. \A b \in Restarters : pc'[b] \in {"init", "abort", "install", "reset", "reopen", "spawn"} => b = a
      BY <1>2, <2>1, <3>2, <3>5 DEF Create
    <3> QED
      BY <1>2, <3>1, <3>2, <3>3, <3>4, <3>5, <3>6
  <2>2. CASE CreateFails(a)
    BY SMTT(30), <1>2, <2>2 DEF CreateFails, AttemptFailed
  <2>3. CASE Initialized(a)
    BY SMTT(30), <1>2, <2>3 DEF Initialized
  <2>4. CASE InitFails(a)
    BY SMTT(30), <1>2, <2>4 DEF InitFails, StopsClient
  <2>5. CASE InitAborted(a)
    BY SMTT(30), <1>2, <2>5 DEF InitAborted, AttemptFailed
  <2>6. CASE Install(a)
    BY SMTT(30), <1>2, <2>6 DEF Install
  <2>7. CASE SpawnMonitor(a)
    BY SMTT(30), <1>2, <2>7 DEF SpawnMonitor
  <2>8. CASE Release(a)
    BY SMTT(30), <1>2, <2>8 DEF Release
  <2> QED
    BY <1>2, <2>1, <2>2, <2>3, <2>4, <2>5, <2>6, <2>7, <2>8 DEF CommonStep
<1>3. ASSUME NEW m \in Gens, MonitorStep(m), ~CommonStep(m) PROVE LocalInv'
  BY SMTT(30), <1>3 DEF MonitorStep, MonitorLoads, MonitorSeesDeath,
                        MonitorSeesCancel, RestartAcquires, RestartRefused,
                        RestartCancelled, RestartAttempt, BackoffElapses,
                        RestartClosesOld, RestartOldClosed,
                        RestartResetsCount, StopsClient
<1>4. ASSUME NEW c \in Callers, CallerStep(c), ~CommonStep(c) PROVE LocalInv'
  BY SMTT(30), <1>4 DEF CallerStep, ConfigRestart, CaptureOpenFiles,
                        ShutdownOld, OldShutDown, Reopen, Reopened,
                        StopsClient
<1>5. ASSUME CloserStep PROVE LocalInv'
  BY SMTT(30), <1>5 DEF CloserStep, CloseCancels, CloseStops, CloseReturns,
                        StopsClient
<1>6. ASSUME NEW u \in Users, UserStep(u) PROVE LocalInv'
  BY SMTT(30), <1>6 DEF UserStep, GetClientChecks, GetClientReturns, OpenFile
<1>7. ASSUME NEW g \in Gens, ServerStep(g) PROVE LocalInv'
  BY SMTT(30), <1>7 DEF ServerStep, Crash, Hangs, Exits, KillerFires, ReaderSeesEOF, ReaderFails
<1> QED
  BY <1>1, <1>2, <1>3, <1>4, <1>5, <1>6, <1>7 DEF Next, MonitorStep, CallerStep

(* The current server has stopped before the next one is spawned. *)
LEMMA ServerStepInv == IInv /\ [Next]_vars => ServerInv'
<1> SUFFICES ASSUME IInv, Next PROVE ServerInv'
  BY DEF IInv, vars, ServerInv
<1> USE DEF IInv, TypeOK, StartInv, GenInv, LocalInv, ServerInv,
            RestartExclusion, InSection, Section, MonitorSection,
            CallerSection
<1>1. ASSUME StarterStep PROVE ServerInv'
  BY SMTT(30), <1>1 DEF StarterStep, StartCreate, StartCreateFails,
                        StartInitialized, StartInitFails, StartAborted,
                        Spawns, StopsClient
<1>2. ASSUME NEW a \in Restarters, CommonStep(a) PROVE ServerInv'
  BY SMTT(30), <1>2 DEF CommonStep, Create, CreateFails, Initialized,
                        InitFails, InitAborted, Install, SpawnMonitor,
                        Release, AttemptFailed, Spawns, StopsClient
<1>3. ASSUME NEW m \in Gens, MonitorStep(m), ~CommonStep(m) PROVE ServerInv'
  BY SMTT(30), <1>3 DEF MonitorStep, MonitorLoads, MonitorSeesDeath,
                        MonitorSeesCancel, RestartAcquires, RestartRefused,
                        RestartCancelled, RestartAttempt, BackoffElapses,
                        RestartClosesOld, RestartOldClosed,
                        RestartResetsCount, StopsClient
<1>4. ASSUME NEW c \in Callers, CallerStep(c), ~CommonStep(c) PROVE ServerInv'
  BY SMTT(30), <1>4 DEF CallerStep, ConfigRestart, CaptureOpenFiles,
                        ShutdownOld, OldShutDown, Reopen, Reopened,
                        StopsClient
<1>5. ASSUME CloserStep PROVE ServerInv'
  BY SMTT(30), <1>5 DEF CloserStep, CloseCancels, CloseStops, CloseReturns,
                        StopsClient
<1>6. ASSUME NEW u \in Users, UserStep(u) PROVE ServerInv'
  BY SMTT(30), <1>6 DEF UserStep, GetClientChecks, GetClientReturns, OpenFile
<1>7. ASSUME NEW g \in Gens, ServerStep(g) PROVE ServerInv'
  BY SMTT(30), <1>7 DEF ServerStep, Crash, Hangs, Exits, KillerFires, ReaderSeesEOF, ReaderFails
<1> QED
  BY <1>1, <1>2, <1>3, <1>4, <1>5, <1>6, <1>7 DEF Next, MonitorStep, CallerStep

(* Only initialized clients are installed and handed out. *)
LEMMA ReadyStep == IInv /\ [Next]_vars => ReadyInv'
<1> SUFFICES ASSUME IInv, Next PROVE ReadyInv'
  BY DEF IInv, vars, ReadyInv, HandedOutReady
<1> USE DEF IInv, TypeOK, StartInv, GenInv, LocalInv, ReadyInv, HandedOutReady
<1>1. ASSUME StarterStep PROVE ReadyInv'
  BY SMTT(30), <1>1 DEF StarterStep, StartCreate, StartCreateFails,
                        StartInitialized, StartInitFails, StartAborted,
                        Spawns, StopsClient
<1>2. ASSUME NEW a \in Restarters, CommonStep(a) PROVE ReadyInv'
  <2>1. CASE Create(a)
    BY <1>2, <2>1 DEF Create, Spawns
  <2>2. CASE CreateFails(a)
    BY <1>2, <2>2 DEF CreateFails, AttemptFailed
  <2>3. CASE Initialized(a)
    BY <1>2, <2>3 DEF Initialized
  <2>4. CASE InitFails(a)
    BY <1>2, <2>4 DEF InitFails, StopsClient
  <2>5. CASE InitAborted(a)
    BY <1>2, <2>5 DEF InitAborted, AttemptFailed
  <2>6. CASE Install(a)
    BY <1>2, <2>6 DEF Install
  <2>7. CASE SpawnMonitor(a)
    BY <1>2, <2>7 DEF SpawnMonitor
  <2>8. CASE Release(a)
    BY <1>2, <2>8 DEF Release
  <2> QED
    BY <1>2, <2>1, <2>2, <2>3, <2>4, <2>5, <2>6, <2>7, <2>8 DEF CommonStep
<1>3. ASSUME NEW m \in Gens, MonitorStep(m), ~CommonStep(m) PROVE ReadyInv'
  BY SMTT(30), <1>3 DEF MonitorStep, MonitorLoads, MonitorSeesDeath,
                        MonitorSeesCancel, RestartAcquires, RestartRefused,
                        RestartCancelled, RestartAttempt, BackoffElapses,
                        RestartClosesOld, RestartOldClosed,
                        RestartResetsCount, StopsClient
<1>4. ASSUME NEW c \in Callers, CallerStep(c), ~CommonStep(c) PROVE ReadyInv'
  BY SMTT(30), <1>4 DEF CallerStep, ConfigRestart, CaptureOpenFiles,
                        ShutdownOld, OldShutDown, Reopen, Reopened,
                        StopsClient
<1>5. ASSUME CloserStep PROVE ReadyInv'
  BY SMTT(30), <1>5 DEF CloserStep, CloseCancels, CloseStops, CloseReturns,
                        StopsClient
<1>6. ASSUME NEW u \in Users, UserStep(u) PROVE ReadyInv'
  BY SMTT(30), <1>6 DEF UserStep, GetClientChecks, GetClientReturns, OpenFile
<1>7. ASSUME NEW g \in Gens, ServerStep(g) PROVE ReadyInv'
  BY SMTT(30), <1>7 DEF ServerStep, Crash, Hangs, Exits, KillerFires, ReaderSeesEOF, ReaderFails
<1> QED
  BY <1>1, <1>2, <1>3, <1>4, <1>5, <1>6, <1>7 DEF Next, MonitorStep, CallerStep

(* The compare-and-swap admits one goroutine. *)
LEMMA ExclStep == IInv /\ [Next]_vars => RestartExclusion'
<1> SUFFICES ASSUME IInv, Next PROVE RestartExclusion'
  BY DEF IInv, vars, RestartExclusion, InSection, Section, MonitorSection,
         CallerSection
<1> USE DEF IInv, TypeOK, StartInv, LocalInv, RestartExclusion,
            FlagMatchesSection, MonitorPC, CallerPC, UserPC, StarterPC,
            CloserPC, InSection, Section, MonitorSection, CallerSection
<1>1. ASSUME StarterStep PROVE RestartExclusion'
  BY SMTT(30), <1>1 DEF StarterStep, StartCreate, StartCreateFails,
                        StartInitialized, StartInitFails, StartAborted,
                        Spawns, StopsClient
<1>2. ASSUME NEW a \in Restarters, CommonStep(a) PROVE RestartExclusion'
  BY SMTT(30), <1>2 DEF CommonStep, Create, CreateFails, Initialized,
                        InitFails, InitAborted, Install, SpawnMonitor,
                        Release, AttemptFailed, Spawns, StopsClient
<1>3. ASSUME NEW m \in Gens, MonitorStep(m), ~CommonStep(m) PROVE RestartExclusion'
  BY SMTT(30), <1>3 DEF MonitorStep, MonitorLoads, MonitorSeesDeath,
                        MonitorSeesCancel, RestartAcquires, RestartRefused,
                        RestartCancelled, RestartAttempt, BackoffElapses,
                        RestartClosesOld, RestartOldClosed,
                        RestartResetsCount, StopsClient
<1>4. ASSUME NEW c \in Callers, CallerStep(c), ~CommonStep(c) PROVE RestartExclusion'
  BY SMTT(30), <1>4 DEF CallerStep, ConfigRestart, CaptureOpenFiles,
                        ShutdownOld, OldShutDown, Reopen, Reopened,
                        StopsClient
<1>5. ASSUME CloserStep PROVE RestartExclusion'
  BY SMTT(30), <1>5 DEF CloserStep, CloseCancels, CloseStops, CloseReturns,
                        StopsClient
<1>6. ASSUME NEW u \in Users, UserStep(u) PROVE RestartExclusion'
  BY SMTT(30), <1>6 DEF UserStep, GetClientChecks, GetClientReturns, OpenFile
<1>7. ASSUME NEW g \in Gens, ServerStep(g) PROVE RestartExclusion'
  BY SMTT(30), <1>7 DEF ServerStep, Crash, Hangs, Exits, KillerFires, ReaderSeesEOF, ReaderFails
<1> QED
  BY <1>1, <1>2, <1>3, <1>4, <1>5, <1>6, <1>7 DEF Next, MonitorStep, CallerStep

(* The flag is set exactly while a goroutine is in the section. *)
LEMMA FlagStep == IInv /\ [Next]_vars => FlagMatchesSection'
<1> SUFFICES ASSUME IInv, Next PROVE FlagMatchesSection'
  BY DEF IInv, vars, FlagMatchesSection, InSection, Section, MonitorSection,
         CallerSection
<1> USE DEF IInv, TypeOK, StartInv, LocalInv, RestartExclusion,
            FlagMatchesSection, MonitorPC, CallerPC, UserPC, StarterPC,
            CloserPC, InSection, Section, MonitorSection, CallerSection
<1>1. ASSUME StarterStep PROVE FlagMatchesSection'
  BY SMTT(30), <1>1 DEF StarterStep, StartCreate, StartCreateFails,
                        StartInitialized, StartInitFails, StartAborted,
                        Spawns, StopsClient
<1>2. ASSUME NEW a \in Restarters, CommonStep(a) PROVE FlagMatchesSection'
  BY SMTT(30), <1>2 DEF CommonStep, Create, CreateFails, Initialized,
                        InitFails, InitAborted, Install, SpawnMonitor,
                        Release, AttemptFailed, Spawns, StopsClient
<1>3. ASSUME NEW m \in Gens, MonitorStep(m), ~CommonStep(m) PROVE FlagMatchesSection'
  BY SMTT(30), <1>3 DEF MonitorStep, MonitorLoads, MonitorSeesDeath,
                        MonitorSeesCancel, RestartAcquires, RestartRefused,
                        RestartCancelled, RestartAttempt, BackoffElapses,
                        RestartClosesOld, RestartOldClosed,
                        RestartResetsCount, StopsClient
<1>4. ASSUME NEW c \in Callers, CallerStep(c), ~CommonStep(c) PROVE FlagMatchesSection'
  BY SMTT(30), <1>4 DEF CallerStep, ConfigRestart, CaptureOpenFiles,
                        ShutdownOld, OldShutDown, Reopen, Reopened,
                        StopsClient
<1>5. ASSUME CloserStep PROVE FlagMatchesSection'
  BY SMTT(30), <1>5 DEF CloserStep, CloseCancels, CloseStops, CloseReturns,
                        StopsClient
<1>6. ASSUME NEW u \in Users, UserStep(u) PROVE FlagMatchesSection'
  BY SMTT(30), <1>6 DEF UserStep, GetClientChecks, GetClientReturns, OpenFile
<1>7. ASSUME NEW g \in Gens, ServerStep(g) PROVE FlagMatchesSection'
  BY SMTT(30), <1>7 DEF ServerStep, Crash, Hangs, Exits, KillerFires, ReaderSeesEOF, ReaderFails
<1> QED
  BY <1>1, <1>2, <1>3, <1>4, <1>5, <1>6, <1>7 DEF Next, MonitorStep, CallerStep

LEMMA StepIInv == IInv /\ [Next]_vars => IInv'
BY TypeStep, LockStep, GenStep, StartStep, BackoffStep, LocalStep, ServerStepInv,
   ReadyStep, ExclStep, FlagStep DEF IInv

(* The invariant is inductive: the conjuncts above support one another.    *)
THEOREM Inductive == Spec => []IInv
BY InitIInv, StepIInv, PTL DEF Spec

(* Every variable keeps its type; the index of the backoff stays within the *)
(* table (restartable.go:251-275).                                         *)
THEOREM TypeCorrect == Spec => []TypeOK
<1>1. IInv => TypeOK
  BY DEF IInv
<1> QED
  BY <1>1, Inductive, PTL

(* One goroutine at a time restarts a server (restartable.go:177, 246).    *)
THEOREM Exclusion == Spec => []RestartExclusion
<1>1. IInv => RestartExclusion
  BY DEF IInv
<1> QED
  BY <1>1, Inductive, PTL

(* The restarting flag is never leaked and never cleared by an outsider.   *)
THEOREM FlagDiscipline == Spec => []FlagMatchesSection
<1>1. IInv => FlagMatchesSection
  BY DEF IInv
<1> QED
  BY <1>1, Inductive, PTL

LEMMA InvOneServer == IInv => OneServer
<1> SUFFICES ASSUME IInv, NEW g \in Gens, NEW h \in Gens, Live(g), Live(h) PROVE g = h
  BY DEF OneServer
<1>1. CASE g = client \/ h = client
  BY <1>1 DEF IInv, ServerInv
<1>2. CASE g # client /\ h # client
  BY <1>2 DEF IInv, ServerInv, RestartExclusion, InSection, Section, MonitorSection,
              CallerSection
<1> QED
  BY <1>1, <1>2

(* Two servers of one language never run at the same time.                 *)
THEOREM AtMostOneServer == Spec => []OneServer
BY InvOneServer, Inductive, PTL

(* GetClient hands out initialized clients only.                           *)
THEOREM HandsOutReady == Spec => []HandedOutReady
<1>1. IInv => HandedOutReady
  BY DEF IInv, ReadyInv
<1> QED
  BY <1>1, Inductive, PTL

(* The next crash starts with the shortest backoff.                        *)
THEOREM BackoffDiscipline == Spec => []BackoffOnlyWhileRecovering
<1>1. IInv => BackoffOnlyWhileRecovering
  BY DEF IInv, BackoffInv, BackoffOnlyWhileRecovering, InSection, Section
<1> QED
  BY <1>1, Inductive, PTL

(* Each step of a goroutine or a server is a step of the abstract slot, or *)
(* leaves the slot as it is.                                               *)
LEMMA SlotStep ==
  IInv /\ Next => Slot!Next \/ UNCHANGED <<client, LiveServers>>
<1> SUFFICES ASSUME IInv, Next PROVE Slot!Next \/ UNCHANGED <<client, LiveServers>>
  OBVIOUS
<1> DEFINE Keeps == UNCHANGED <<client, LiveServers>>
<1> USE DEF IInv, TypeOK, LiveServers
<1>1. ASSUME proc' = proc, client' = client PROVE Keeps
  BY <1>1
<1>2. ASSUME NEW g \in Gens, NEW w, StopsClient(g, w), client' = client PROVE Keeps
  BY <1>2 DEF StopsClient
<1>3. ASSUME NEW g \in Gens, LiveServers = {}, client < g, Spawns(g), client' \in {client, g}
      PROVE Slot!Next
  <2>1. LiveServers' = {g}
    BY <1>3 DEF Spawns
  <2> QED
    BY <1>3, <2>1 DEF Slot!Next, Slot!Launch, Gens
<1>4. ASSUME NEW g \in Gens, Live(g), client' = client,
             proc' = [proc EXCEPT ![g] = "exited"] \/ proc' = [proc EXCEPT ![g] = "killed"]
      PROVE Slot!Next
  <2>1. LiveServers' = {}
    BY <1>4, InvOneServer DEF OneServer
  <2> QED
    BY <1>4, <2>1 DEF Slot!Next, Slot!Stop, Gens
<1>5. CASE StarterStep
  <2>1. CASE StartCreate
    <3>1. LiveServers = {} /\ client = 0
      BY <2>1 DEF StartCreate, StartInv
    <3>2. PICK g \in Gens : Spawns(g) /\ client' = g
      BY <2>1 DEF StartCreate
    <3> QED
      BY <1>3, <3>1, <3>2, BoundsAssumption DEF Gens
  <2>2. CASE StartInitFails
    BY <1>2, <2>2 DEF StartInitFails, StartInv
  <2> QED
    BY <1>1, <1>5, <2>1, <2>2 DEF StarterStep, StartCreateFails, StartInitialized, StartAborted
<1>6. ASSUME NEW a \in Restarters, CommonStep(a) PROVE Slot!Next \/ Keeps
  <2>1. CASE Create(a)
    <3>1. PICK g \in Gens : Spawns(g) /\ client' = client
      BY <2>1 DEF Create
    <3>2. LiveServers = {}
      BY <2>1 DEF Create, ServerInv, RestartExclusion, InSection, Section, MonitorSection,
                  CallerSection
    <3>3. Started
      BY <2>1 DEF Create, StartInv
    <3>4. client \in Gens /\ client # g /\ ~(g < client)
      BY <3>1, <3>3 DEF StartInv, GenInv, Spawns
    <3>5. client < g
      BY <3>4, BoundsAssumption DEF Gens
    <3> QED
      BY <1>3, <3>1, <3>2, <3>5
  <2>2. CASE InitFails(a)
    BY <1>2, <2>2 DEF InitFails, LocalInv
  <2>3. CASE Install(a)
    <3>1. cli[a] \in Gens /\ client < cli[a] /\ client' = cli[a] /\ proc' = proc
      BY <2>3 DEF Install, LocalInv
    <3>2. \A b \in Restarters : pc[b] \in {"init", "abort", "install"} => b = a
      BY <2>3 DEF Install, RestartExclusion, InSection, Section, MonitorSection, CallerSection
    <3>3. ASSUME NEW g \in Gens, Live(g) PROVE g = cli[a]
      BY <2>3, <3>2, <3>3 DEF Install, ServerInv
    <3>4. LiveServers \subseteq {cli[a]}
      BY <3>3
    <3>5. LiveServers' = LiveServers
      BY <3>1
    <3> HIDE DEF LiveServers
    <3> QED
      BY <3>1, <3>4, <3>5 DEF Slot!Next, Slot!TakeOver, Gens
  <2> QED
    BY <1>1, <1>6, <2>1, <2>2, <2>3
       DEF CommonStep, CreateFails, Initialized, InitAborted, SpawnMonitor, Release
<1>7. ASSUME NEW m \in Gens, MonitorStep(m), ~CommonStep(m) PROVE Keeps
  <2>1. CASE RestartClosesOld(m)
    BY <1>2, <2>1 DEF RestartClosesOld, StartInv
  <2> QED
    BY <1>1, <1>7, <2>1
       DEF MonitorStep, MonitorLoads, MonitorSeesDeath, MonitorSeesCancel, RestartAcquires,
           RestartRefused, RestartCancelled, RestartAttempt, BackoffElapses, RestartOldClosed,
           RestartResetsCount
<1>8. ASSUME NEW c \in Callers, CallerStep(c), ~CommonStep(c) PROVE Keeps
  <2>1. CASE ShutdownOld(c)
    BY <1>2, <2>1 DEF ShutdownOld, StartInv, LocalInv
  <2> QED
    BY <1>1, <1>8, <2>1
       DEF CallerStep, ConfigRestart, CaptureOpenFiles, OldShutDown, Reopen, Reopened
<1>9. CASE CloserStep
  <2>1. CASE CloseStops
    BY <1>2, <2>1 DEF CloseStops, StartInv
  <2> QED
    BY <1>1, <1>9, <2>1 DEF CloserStep, CloseCancels, CloseReturns
<1>10. ASSUME NEW u \in Users, UserStep(u) PROVE Keeps
  BY <1>1, <1>10 DEF UserStep, GetClientChecks, GetClientReturns, OpenFile
<1>11. ASSUME NEW g \in Gens, ServerStep(g) PROVE Slot!Next \/ Keeps
  <2>1. CASE Crash(g) \/ Exits(g) \/ KillerFires(g)
    BY <1>4, <2>1 DEF Crash, Exits, KillerFires
  <2>2. CASE Hangs(g)
    BY <2>2 DEF Hangs
  <2>3. CASE ReaderSeesEOF(g) \/ ReaderFails(g)
    BY <1>1, <2>3 DEF ReaderSeesEOF, ReaderFails
  <2> QED
    BY <1>11, <2>1, <2>2, <2>3 DEF ServerStep
<1> QED
  BY <1>5, <1>6, <1>7, <1>8, <1>9, <1>10, <1>11 DEF Next, MonitorStep, CallerStep

(* The supervisor implements the promise of SingleServer.                  *)
THEOREM ImplementsSlot == Spec => SlotSpec
<1>1. Init => Slot!Init
  BY DEF Init, Slot!Init, LiveServers
<1>2. IInv /\ [Next]_vars => [Slot!Next]_<<client, LiveServers>>
  <2>1. CASE UNCHANGED vars
    BY <2>1 DEF vars, LiveServers
  <2> QED
    BY <2>1, SlotStep
<1> QED
  BY <1>1, <1>2, Inductive, PTL DEF Spec, SlotSpec, Slot!Spec

(***************************************************************************)
(* Files across a configuration restart.                                   *)
(***************************************************************************)

(* What the goroutine of a configuration restart has to hand on: the files *)
(* that were captured, and, as long as it runs, those the server has.      *)
Kept(c) ==
  /\ pc[c] = "shutdown" => open[cli[c]] \subseteq captured[c] \cup late[c]
  /\ pc[c] \in {"closing", "create", "init", "install"} => had[c] \subseteq captured[c] \cup late[c]
  /\ pc[c] = "reopen" /\ Takes(cli[c])
       => had[c] \subseteq captured[c] \cup open[cli[c]] \cup late[c] \cup skipped[c]
  /\ pc[c] = "spawn" /\ Takes(cli[c])
       => had[c] \subseteq open[cli[c]] \cup late[c] \cup skipped[c]

KeptInv == \A c \in Callers : Kept(c)

(* Nobody else moves the goroutine of a configuration restart.             *)
LEMMA OnlyItself ==
  ASSUME IInv, Next, NEW c \in Callers
  PROVE  CallerStep(c) \/ UNCHANGED <<pc[c], cli[c], captured[c]>>
<1> USE DEF IInv, TypeOK
<1>1. ASSUME StarterStep PROVE UNCHANGED <<pc[c], cli[c], captured[c]>>
  <2>1. CASE StartCreate
    BY <1>1, <2>1 DEF StartCreate
  <2>2. CASE StartCreateFails
    BY <1>1, <2>2 DEF StartCreateFails
  <2>3. CASE StartInitialized
    BY <1>1, <2>3 DEF StartInitialized, StartInv
  <2>4. CASE StartInitFails
    BY <1>1, <2>4 DEF StartInitFails
  <2>5. CASE StartAborted
    BY <1>1, <2>5 DEF StartAborted
  <2> QED
    BY <1>1, <2>1, <2>2, <2>3, <2>4, <2>5 DEF StarterStep
<1>2. ASSUME NEW a \in Restarters, a # c, CommonStep(a) PROVE UNCHANGED <<pc[c], cli[c], captured[c]>>
  <2>1. CASE Create(a)
    BY <1>2, <2>1 DEF Create
  <2>2. CASE CreateFails(a)
    BY <1>2, <2>2 DEF CreateFails, AttemptFailed
  <2>3. CASE Initialized(a)
    BY <1>2, <2>3 DEF Initialized
  <2>4. CASE InitFails(a)
    BY <1>2, <2>4 DEF InitFails
  <2>5. CASE InitAborted(a)
    BY <1>2, <2>5 DEF InitAborted, AttemptFailed
  <2>6. CASE Install(a)
    BY <1>2, <2>6 DEF Install
  <2>7. CASE SpawnMonitor(a)
    BY <1>2, <2>7 DEF SpawnMonitor, LocalInv
  <2>8. CASE Release(a)
    BY <1>2, <2>8 DEF Release
  <2> QED
    BY <1>2, <2>1, <2>2, <2>3, <2>4, <2>5, <2>6, <2>7, <2>8 DEF CommonStep
<1>3. ASSUME NEW m \in Gens, MonitorStep(m), ~CommonStep(m) PROVE UNCHANGED <<pc[c], cli[c], captured[c]>>
  BY SMTT(30), <1>3 DEF MonitorStep, MonitorLoads, MonitorSeesDeath, MonitorSeesCancel, RestartAcquires,
     RestartRefused, RestartCancelled, RestartAttempt, BackoffElapses, RestartClosesOld, RestartOldClosed,
     RestartResetsCount
<1>4. ASSUME NEW d \in Callers, d # c, CallerStep(d), ~CommonStep(d) PROVE UNCHANGED <<pc[c], cli[c], captured[c]>>
  <2>1. CASE ConfigRestart(d)
    BY <1>4, <2>1 DEF ConfigRestart
  <2>2. CASE CaptureOpenFiles(d)
    BY <1>4, <2>2 DEF CaptureOpenFiles
  <2>3. CASE ShutdownOld(d)
    BY <1>4, <2>3 DEF ShutdownOld
  <2>4. CASE OldShutDown(d)
    BY <1>4, <2>4 DEF OldShutDown
  <2>5. CASE Reopen(d)
    BY <1>4, <2>5 DEF Reopen
  <2>6. CASE Reopened(d)
    BY <1>4, <2>6 DEF Reopened
  <2> QED
    BY <1>4, <2>1, <2>2, <2>3, <2>4, <2>5, <2>6 DEF CallerStep
<1>5. ASSUME CloserStep \/ (\E u \in Users : UserStep(u)) \/ (\E g \in Gens : ServerStep(g))
      PROVE  UNCHANGED <<pc[c], cli[c], captured[c]>>
  BY SMTT(30), <1>5 DEF CloserStep, CloseCancels, CloseStops, CloseReturns, UserStep, GetClientChecks,
     GetClientReturns, OpenFile, ServerStep, Crash, Hangs, Exits, KillerFires, ReaderSeesEOF, ReaderFails
<1> QED
  BY <1>1, <1>2, <1>3, <1>4, <1>5 DEF Next, MonitorStep, CallerStep

(* While it reopens files, and until it is through, the server it has      *)
(* installed loses none, except by stopping.                               *)
LEMMA ServerKeepsFiles ==
  ASSUME IInv, Next, NEW c \in Callers, pc[c] \in {"reopen", "spawn"},
         NEW k, k = cli[c], Takes(k)'
  PROVE  Takes(k) /\ open[k] \subseteq open'[k]
<1> DEFINE Keeps == Takes(k) /\ open[k] \subseteq open'[k]
<1> USE DEF IInv, TypeOK, Takes
<1>0. k \in Gens /\ proc[k] # "unborn"
  BY DEF LocalInv
<1>1. ASSUME NEW g \in Gens, NEW w, StopsClient(g, w), done' = done PROVE Keeps
  BY <1>0, <1>1 DEF StopsClient
<1>2. ASSUME NEW g \in Gens, Spawns(g), open' = open, done' = done
      PROVE  Keeps
  BY <1>0, <1>2 DEF Spawns
<1>3. ASSUME UNCHANGED <<proc, open, done>> PROVE Keeps
  BY <1>3
<1>4. ASSUME StarterStep PROVE FALSE
  BY <1>4 DEF StartInv, StarterStep, StartCreate, StartCreateFails, StartInitialized, StartInitFails, StartAborted
<1>5. ASSUME NEW a \in Restarters, CommonStep(a)
      PROVE  Keeps
  <2>1. pc[a] \in {"create", "init", "abort", "install"} => FALSE
    BY DEF RestartExclusion, InSection, Section, MonitorSection, CallerSection
  <2> QED
    BY <1>3, <1>5, <2>1 DEF CommonStep, Create, CreateFails, Initialized, InitFails, InitAborted, Install,
       SpawnMonitor, Release
<1>6. ASSUME NEW m \in Gens, MonitorStep(m), ~CommonStep(m)
      PROVE  Keeps
  <2>1. CASE RestartClosesOld(m)
    BY <1>1, <2>1 DEF RestartClosesOld, StartInv
  <2> QED
    BY <1>3, <1>6, <2>1 DEF MonitorStep, MonitorLoads, MonitorSeesDeath, MonitorSeesCancel, RestartAcquires,
       RestartRefused, RestartCancelled, RestartAttempt, BackoffElapses, RestartOldClosed, RestartResetsCount
<1>7. ASSUME NEW d \in Callers, CallerStep(d), ~CommonStep(d)
      PROVE  Keeps
  <2>1. CASE ShutdownOld(d)
    BY <1>1, <2>1 DEF ShutdownOld, LocalInv, StartInv
  <2>2. CASE Reopen(d)
    <3>1. proc' = proc /\ done' = done
      BY <2>2 DEF Reopen
    <3>2. open' = open \/ \E f \in captured[d] : open' = [open EXCEPT ![cli[d]] = @ \cup {f}]
      BY <2>2 DEF Reopen
    <3> QED
      BY <1>0, <3>1, <3>2
  <2> QED
    BY <1>3, <1>7, <2>1, <2>2 DEF CallerStep, ConfigRestart, CaptureOpenFiles, OldShutDown, Reopened
<1>8. ASSUME CloserStep PROVE Keeps
  <2>1. CASE CloseStops
    BY <1>1, <2>1 DEF CloseStops, StartInv
  <2> QED
    BY <1>3, <1>8, <2>1 DEF CloserStep, CloseCancels, CloseReturns
<1>9. ASSUME NEW u \in Users, UserStep(u) PROVE Keeps
  <2>1. CASE OpenFile(u)
    <3>1. proc' = proc /\ done' = done
      BY <2>1 DEF OpenFile
    <3>2. open' = open \/ \E f \in Files : open' = [open EXCEPT ![cli[u]] = @ \cup {f}]
      BY <2>1 DEF OpenFile
    <3> QED
      BY <1>0, <3>1, <3>2
  <2> QED
    BY <1>3, <1>9, <2>1 DEF UserStep, GetClientChecks, GetClientReturns
<1>10. ASSUME NEW g \in Gens, ServerStep(g) PROVE Keeps
  BY <1>0, <1>10 DEF ServerStep, Crash, Hangs, Exits, KillerFires, ReaderSeesEOF, ReaderFails
<1> QED
  BY <1>4, <1>5, <1>6, <1>7, <1>8, <1>9, <1>10 DEF Next, MonitorStep, CallerStep

LEMMA KeptStep ==
  ASSUME IInv, KeptInv, HistoryNext
  PROVE  KeptInv'
<1> SUFFICES ASSUME NEW c \in Callers PROVE Kept(c)'
  BY DEF KeptInv
<1>0. Kept(c) /\ Next
  BY DEF KeptInv, HistoryNext
<1>1. /\ pc'[c] = "shutdown" /\ pc[c] # "shutdown" => late'[c] = late[c]
      /\ pc'[c] = "shutdown" /\ pc[c] = "shutdown" => late'[c] = late[c] \cup (open'[cli[c]] \ open[cli[c]])
      /\ pc'[c] # "idle" /\ pc'[c] # "shutdown" => late'[c] = late[c]
      /\ pc[c] = "shutdown" /\ pc'[c] = "closing" => had'[c] = open[cli[c]]
      /\ pc[c] # "shutdown" /\ pc'[c] # "idle" => had'[c] = had[c]
      /\ pc'[c] # "idle" /\ pc[c] # "reopen" => skipped'[c] = skipped[c]
      /\ pc'[c] # "idle" /\ pc[c] = "reopen"
           => skipped'[c] = skipped[c] \cup ((captured[c] \ captured'[c]) \ open'[cli[c]])
  BY DEF HistoryNext
<1>2. ASSUME NEW k, k = cli[c], pc[c] \in {"reopen", "spawn"}, Takes(k)'
      PROVE  Takes(k) /\ open[k] \subseteq open'[k]
  BY <1>0, <1>2, ServerKeepsFiles
<1>3. CASE UNCHANGED <<pc[c], cli[c], captured[c]>>
  <2>1. pc'[c] = pc[c] /\ cli'[c] = cli[c] /\ captured'[c] = captured[c]
    BY <1>3
  <2>2. CASE pc[c] \notin {"reopen", "spawn"}
    BY <1>0, <1>1, <2>1, <2>2 DEF Kept
  <2>3. CASE pc[c] \in {"reopen", "spawn"}
    <3>1. had'[c] = had[c] /\ late'[c] = late[c] /\ skipped[c] \subseteq skipped'[c]
      BY <1>1, <2>1, <2>3
    <3>2. ASSUME NEW k, k = cli[c], k = cli'[c], Takes(k)'
          PROVE  Takes(k) /\ open[k] \subseteq open'[k]
      BY <1>2, <2>3, <3>2
    <3>3. CASE Takes(cli[c])'
      BY <1>0, <2>1, <2>3, <3>1, <3>2, <3>3 DEF Kept, Takes
    <3>4. CASE ~Takes(cli[c])'
      BY <2>1, <2>3, <3>4 DEF Kept
    <3> QED
      BY <3>3, <3>4
  <2> QED
    BY <2>2, <2>3
<1>4. CASE CallerStep(c)
  <2> USE DEF IInv, TypeOK
  <2>1. CASE ConfigRestart(c) \/ CreateFails(c) \/ InitFails(c) \/ InitAborted(c) \/ SpawnMonitor(c) \/ Release(c)
    <3>1. pc'[c] \in {"capture", "release", "abort", "idle"}
      BY <2>1 DEF ConfigRestart, CreateFails, InitFails, InitAborted, SpawnMonitor, Release, AttemptFailed, LocalInv
    <3> QED
      BY <3>1 DEF Kept
  <2>2. CASE CaptureOpenFiles(c)
    <3>1. pc'[c] = "shutdown" /\ captured'[c] = open[client] /\ cli'[c] = client /\ open' = open
      BY <2>2 DEF CaptureOpenFiles
    <3> QED
      BY <3>1 DEF Kept
  <2>3. CASE ShutdownOld(c)
    <3>1. pc[c] = "shutdown" /\ pc'[c] = "closing" /\ captured'[c] = captured[c]
      BY <2>3 DEF ShutdownOld
    <3> QED
      BY <1>0, <1>1, <3>1 DEF Kept
  <2>4. CASE OldShutDown(c) \/ Create(c) \/ Initialized(c)
    <3>1. pc[c] \in {"closing", "create", "init"} /\ pc'[c] \in {"create", "init", "install"} /\ captured'[c] = captured[c]
      BY <2>4 DEF OldShutDown, Create, Initialized
    <3> QED
      BY <1>0, <1>1, <3>1 DEF Kept
  <2>5. CASE Install(c)
    <3>1. pc[c] = "install" /\ pc'[c] = "reopen" /\ captured'[c] = captured[c]
      BY <2>5 DEF Install
    <3> QED
      BY <1>0, <1>1, <3>1 DEF Kept
  <2>6. CASE Reopen(c)
    <3>1. pc[c] = "reopen" /\ pc' = pc /\ cli' = cli /\ proc' = proc
      BY <2>6 DEF Reopen
    <3>2. done' = done /\ (open' = open \/ \E f \in captured[c] : open' = [open EXCEPT ![cli[c]] = @ \cup {f}])
      BY <2>6 DEF Reopen
    <3>3. cli[c] \in Gens
      BY <3>1 DEF LocalInv
    <3>4. open[cli[c]] \subseteq open'[cli[c]]
      BY <3>2, <3>3
    <3>5. /\ skipped'[c] = skipped[c] \cup ((captured[c] \ captured'[c]) \ open'[cli[c]])
          /\ had'[c] = had[c] /\ late'[c] = late[c]
      BY <1>1, <3>1
    <3>6. Takes(cli[c])' <=> Takes(cli[c])
      BY <3>1, <3>2 DEF Takes
    <3>7. CASE Takes(cli[c])
      <4>1. had[c] \subseteq captured[c] \cup open[cli[c]] \cup late[c] \cup skipped[c]
        BY <1>0, <3>1, <3>7 DEF Kept
      <4>2. had'[c] \subseteq captured'[c] \cup open'[cli[c]] \cup late'[c] \cup skipped'[c]
        BY <4>1, <3>4, <3>5
      <4> QED
        BY <3>1, <4>2 DEF Kept
    <3> QED
      BY <3>1, <3>6, <3>7 DEF Kept
  <2>7. CASE Reopened(c)
    <3>1. pc[c] = "reopen" /\ pc'[c] = "spawn" /\ captured[c] = {} /\ captured'[c] = {}
          /\ UNCHANGED <<cli, proc, done, open>>
      BY <2>7 DEF Reopened
    <3>2. skipped'[c] = skipped[c] /\ had'[c] = had[c] /\ late'[c] = late[c]
      BY <1>1, <3>1
    <3> QED
      BY <1>0, <3>1, <3>2 DEF Kept, Takes
  <2> QED
    BY <1>4, <2>1, <2>2, <2>3, <2>4, <2>5, <2>6, <2>7 DEF CallerStep, CommonStep
<1> QED
  BY <1>0, <1>3, <1>4, OnlyItself

(* A configuration restart keeps the open files (restartable.go:175-228),  *)
(* except those it skipped with a warning, whatever monitors, handlers and *)
(* Close do and whatever servers fail, for any number of goroutines and    *)
(* files.                                                                  *)
THEOREM RestartKeepsFiles == HistorySpec => []FilesKept
<1>1. HistoryInit => IInv /\ KeptInv
  BY InitIInv DEF HistoryInit, Init, KeptInv, Kept
<1>2. IInv /\ KeptInv /\ [HistoryNext]_historyVars => (IInv /\ KeptInv)'
  <2> SUFFICES ASSUME IInv, KeptInv, [HistoryNext]_historyVars PROVE IInv' /\ KeptInv'
    OBVIOUS
  <2>1. CASE HistoryNext
    BY <2>1, StepIInv, KeptStep DEF HistoryNext
  <2>2. CASE UNCHANGED historyVars
    <3>1. IInv'
      BY <2>2, StepIInv DEF historyVars
    <3>2. UNCHANGED <<pc, cli, captured, proc, done, open, had, late, skipped>>
      BY <2>2 DEF historyVars, vars, serverVars
    <3> QED
      BY <3>1, <3>2 DEF KeptInv, Kept, Takes
  <2> QED
    BY <2>1, <2>2
<1>3. KeptInv => FilesKept
  BY DEF KeptInv, Kept, FilesKept
<1> QED
  BY <1>1, <1>2, <1>3, PTL DEF HistorySpec
==============================================================================
