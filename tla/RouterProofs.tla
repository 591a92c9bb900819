------------------------------ MODULE RouterProofs ------------------------------
(* Proofs about Router, for any languages, groups and configurations, any  *)
(* number of goroutines and any bound on the servers.                      *)
EXTENDS Router, TLAPS

USE LangsAssumption, GroupsAssumption, ProcsAssumption, BoundAssumption

Servers == [lang : Configs, st : States]

(* A server is added at the end, and the others stay as they were.         *)
LEMMA AddServer ==
  ASSUME NEW t \in Seq(Servers), NEW r \in Servers
  PROVE  /\ Append(t, r) \in Seq(Servers) /\ Len(Append(t, r)) = Len(t) + 1
         /\ \A s \in DOMAIN t : s \in DOMAIN Append(t, r) /\ Append(t, r)[s] = t[s]
         /\ \A s \in DOMAIN Append(t, r) : s \in DOMAIN t \/ s = Len(t) + 1
         /\ Len(t) + 1 \in DOMAIN Append(t, r) /\ Append(t, r)[Len(t) + 1] = r
         /\ Len(t) + 1 \notin DOMAIN t
<1> HIDE DEF Servers
<1> QED
  OBVIOUS

LEMMA ServerType ==
  ASSUME TypeOK, NEW s \in DOMAIN servers
  PROVE  servers \in Seq(Servers) /\ servers[s] \in Servers /\ servers[s].lang \in Langs
<1>1. servers \in Seq(Servers)
  BY DEF TypeOK, Servers
<1>2. servers[s] \in Servers
  <2> HIDE DEF Servers
  <2> QED
    BY <1>1
<1> QED
  BY <1>1, <1>2 DEF Servers

(* A server changes its state, and the others stay as they were.           *)
LEMMA SetState ==
  ASSUME TypeOK, NEW i \in DOMAIN servers, NEW x \in States,
         servers' = [servers EXCEPT ![i].st = x]
  PROVE  /\ servers' \in Seq(Servers) /\ Len(servers') = Len(servers)
         /\ DOMAIN servers' = DOMAIN servers
         /\ \A s \in DOMAIN servers : servers'[s].lang = servers[s].lang
         /\ servers'[i].st = x
         /\ \A s \in DOMAIN servers : s # i => servers'[s] = servers[s]
<1>1. servers \in Seq(Servers) /\ servers[i] \in Servers
  BY ServerType
<1> DEFINE v == [servers[i] EXCEPT !.st = x]
<1>2. v \in Servers /\ v.lang = servers[i].lang /\ v.st = x
  BY <1>1 DEF Servers
<1>3. servers' = [servers EXCEPT ![i] = v]
  OBVIOUS
<1> HIDE DEF v, Servers
<1>4. servers' \in Seq(Servers) /\ Len(servers') = Len(servers) /\ DOMAIN servers' = DOMAIN servers
  BY <1>1, <1>2, <1>3
<1>5. servers'[i] = v /\ \A s \in DOMAIN servers : s # i => servers'[s] = servers[s]
  BY <1>1, <1>3
<1> QED
  BY <1>2, <1>4, <1>5

(* What the configuration of a language may be.                            *)
LEMMA Config ==
  ASSUME NEW l \in Langs, FindConfig(l) # NoLang
  PROVE  FindConfig(l) \in Configs /\ FindConfig(l) \in Langs /\ FindConfig(l) \in {l, Primary[l]}
BY DEF FindConfig

LEMMA InitIInv == Init => IInv
<1> SUFFICES ASSUME Init PROVE IInv
  OBVIOUS
<1> USE DEF Init
<1>1. TypeOK
  <2>1. done \in BOOLEAN
    BY Zenon
  <2>2. servers \in Seq(Servers) /\ Len(servers) <= MaxServers
    OBVIOUS
  <2> QED
    BY <2>1, <2>2 DEF TypeOK, Ids, NoServer, Servers
<1>2. LockHeld /\ HasConfig /\ CloseCovers
  BY DEF LockHeld, HasConfig, CloseCovers
<1>3. StartsAlone /\ EntriesFollow /\ NoServerLost /\ HandedOutStarted
  BY DEF StartsAlone, EntriesFollow, NoServerLost, HandedOutStarted
<1> QED
  BY <1>1, <1>2, <1>3 DEF IInv

(* A step of a goroutine that leaves the table alone: the others stay as   *)
(* they were, and it keeps what concerns it.                               *)
LocalOK(p) ==
  /\ pc[p] \in {"idle", "miss", "using"} /\ want[p] \in Langs \cup {NoLang}
  /\ pc[p] = "miss" => want[p] # NoLang /\ FindConfig(want[p]) # NoLang
  /\ pc[p] = "idle" => want[p] = NoLang
  /\ pc[p] # "using" => hold[p] = {}
  /\ \A s \in hold[p] :
       HasStarted(s) /\ (want[p] # NoLang => servers[s].lang \in {want[p], Primary[want[p]]})

LEMMA LocalKeeps ==
  ASSUME IInv, NEW p \in Procs, UNCHANGED <<table, closing, deaf>>, pc[p] # "starting",
         NEW x, NEW y, NEW z,
         pc' = [pc EXCEPT ![p] = x], want' = [want EXCEPT ![p] = y], hold' = [hold EXCEPT ![p] = z],
         LocalOK(p)'
  PROVE  IInv'
<1> USE DEF IInv, table, closing
<1>1. pc'[p] = x /\ want'[p] = y /\ hold'[p] = z
  BY DEF TypeOK
<1>2. \A q \in Procs : q # p => pc'[q] = pc[q] /\ want'[q] = want[q] /\ hold'[q] = hold[q]
  BY DEF TypeOK
<1>3. z \subseteq 1..MaxServers
  <2>1. \A s \in z : s \in DOMAIN servers
    BY <1>1 DEF LocalOK, HasStarted
  <2> QED
    BY <2>1 DEF TypeOK
<1>4. TypeOK'
  BY <1>1, <1>3 DEF TypeOK, LocalOK
<1>5. LockHeld'
  BY <1>1, <1>2 DEF LockHeld, LocalOK
<1>6. HasConfig'
  BY <1>1, <1>2 DEF HasConfig, LocalOK
<1>7. StartsAlone'
  BY <1>1, <1>2 DEF StartsAlone, LockHeld, New
<1>8. EntriesFollow' /\ CloseCovers' /\ NoServerLost'
  BY DEF EntriesFollow, CloseCovers, NoServerLost, Active, HasStarted
<1>9. HandedOutStarted'
  BY <1>1, <1>2 DEF HandedOutStarted, LocalOK, HasStarted
<1> QED
  BY <1>4, <1>5, <1>6, <1>7, <1>8, <1>9

(* The servers of the table have started, and belong where they are.       *)
LEMMA TableFacts ==
  ASSUME IInv
  PROVE  /\ \A s \in Active : HasStarted(s)
         /\ \A l \in Langs : clients[l] # NoServer =>
              HasStarted(clients[l]) /\ servers[clients[l]].lang \in {l, Primary[l]}
BY DEF IInv, Active, EntriesFollow

(* A goroutine takes servers of the table, and uses them.                  *)
LEMMA TakeKeeps ==
  ASSUME IInv, NEW p \in Procs, ProcBegins(p) \/ FindsNow(p) \/ Uses(p)
  PROVE  IInv'
<1> USE DEF Given, Goto
<1>t. TypeOK /\ HasConfig /\ HandedOutStarted
  BY DEF IInv
<1>u. \A q \in Procs : pc[q] \in {"idle", "miss", "starting", "using"}
                       /\ want[q] \in Langs \cup {NoLang} /\ want = [want EXCEPT ![q] = want[q]]
                       /\ hold = [hold EXCEPT ![q] = hold[q]] /\ pc = [pc EXCEPT ![q] = pc[q]]
  BY <1>t DEF TypeOK
<1>1. ASSUME NEW l \in Langs, Asks(p, l), clients[l] # NoServer PROVE IInv'
  <2>1. LocalOK(p)'
    BY <1>1, <1>t, TableFacts DEF Asks, LocalOK, TypeOK, HasStarted, table
  <2> QED
    BY <1>1, <2>1, LocalKeeps DEF Asks
<1>2. ASSUME NEW l \in Langs, Asks(p, l), clients[l] = NoServer PROVE IInv'
  <2>1. LocalOK(p)'
    BY <1>2, <1>t DEF Asks, LocalOK, TypeOK, HasConfig, FindConfig
  <2>2. /\ pc' = [pc EXCEPT ![p] = "miss"] /\ want' = [want EXCEPT ![p] = l]
        /\ hold' = [hold EXCEPT ![p] = hold[p]] /\ pc[p] # "starting" /\ UNCHANGED <<table, closing, deaf>>
    BY <1>2, <1>u DEF Asks
  <2> QED
    BY <2>1, <2>2, LocalKeeps
<1>3. ASSUME NEW l \in Langs, TakesForRestart(p, l) PROVE IInv'
  <2>1. LocalOK(p)'
    BY <1>3, <1>t, TableFacts DEF TakesForRestart, LocalOK, TypeOK, HasConfig, HasStarted, table
  <2> QED
    BY <1>3, <2>1, <1>u, LocalKeeps DEF TakesForRestart
<1>4. CASE TakesActive(p)
  <2>1. LocalOK(p)'
    BY <1>4, <1>t, TableFacts DEF TakesActive, LocalOK, TypeOK, HasConfig, HasStarted, table
  <2> QED
    BY <1>4, <2>1, <1>u, LocalKeeps DEF TakesActive
<1>5. CASE FindsNow(p)
  <2>1. want[p] \in Langs /\ clients[want[p]] # NoServer
    BY <1>5, <1>t DEF FindsNow, HasConfig, TypeOK
  <2>2. LocalOK(p)'
    BY <1>5, <1>t, <2>1, TableFacts DEF FindsNow, LocalOK, TypeOK, HasStarted, table
  <2> QED
    BY <1>5, <2>2, <1>u, LocalKeeps DEF FindsNow
<1>6. CASE Uses(p)
  <2> PICK s \in hold[p] :
        /\ hold' = [hold EXCEPT ![p] = @ \ {s}]
        /\ IF hold[p] = {s} THEN Goto(p, "idle") /\ want' = [want EXCEPT ![p] = NoLang]
           ELSE UNCHANGED <<pc, want>>
    BY <1>6 DEF Uses
  <2>1. hold' = [hold EXCEPT ![p] = hold[p] \ {s}] /\ pc[p] = "using" /\ UNCHANGED <<table, closing, deaf>>
    BY <1>6 DEF Uses
  <2>2. CASE hold[p] = {s}
    <3>1. LocalOK(p)'
      BY <2>1, <2>2, <1>t DEF LocalOK, TypeOK
    <3> QED
      BY <2>1, <2>2, <3>1, LocalKeeps
  <2>3. CASE hold[p] # {s}
    <3>1. LocalOK(p)'
      BY <2>1, <2>3, <1>t DEF LocalOK, TypeOK, HandedOutStarted, HasStarted, table
    <3>2. /\ pc' = [pc EXCEPT ![p] = pc[p]] /\ want' = [want EXCEPT ![p] = want[p]]
          /\ pc[p] # "starting"
      BY <2>1, <2>3, <1>u
    <3> HIDE DEF Goto
    <3> QED
      BY <2>1, <3>1, <3>2, LocalKeeps
  <2> QED
    BY <2>2, <2>3
<1> QED
  BY <1>1, <1>2, <1>3, <1>4, <1>5, <1>6 DEF ProcBegins

(* The language of a group takes the server that the other one has.        *)
LEMMA FindsGroupKeeps ==
  ASSUME IInv, NEW p \in Procs, FindsGroup(p)
  PROVE  IInv'
<1> USE DEF IInv
<1> PICK l \in Langs : l = want[p]
  BY DEF FindsGroup, HasConfig, TypeOK
<1> DEFINE g == Primary[l]
<1>1. /\ pc[p] = "miss" /\ writer = NoOne /\ clients[l] = NoServer
      /\ g \in Langs /\ clients[g] # NoServer /\ g # l
      /\ clients' = [clients EXCEPT ![l] = clients[g]]
      /\ pc' = [pc EXCEPT ![p] = "using"] /\ hold' = [hold EXCEPT ![p] = {clients[g]}]
      /\ UNCHANGED <<servers, writer, want, closing, deaf>>
  BY DEF FindsGroup, Given, Goto
<1> DEFINE s == clients[g]
<1>2. /\ HasStarted(s) /\ servers[s].lang \in {g, Primary[g]} /\ clients[servers[s].lang] = s
      /\ s \in 1..MaxServers
  BY <1>1 DEF EntriesFollow, HasStarted, TypeOK
<1>3. servers[s].lang \in {l, Primary[l]} /\ servers[s].lang \in Langs
  <2>1. servers[s].lang \in Langs
    BY <1>2, ServerType DEF HasStarted
  <2> QED
    BY <1>1, <1>2, <2>1
<1> HIDE DEF g, s
<1>4. clients'[l] = s /\ \A k \in Langs : k # l => clients'[k] = clients[k]
  BY <1>1 DEF TypeOK, s
<1>5. clients' = [clients EXCEPT ![l] = s] /\ hold' = [hold EXCEPT ![p] = {s}]
  BY <1>1 DEF s
<1>6. TypeOK'
  BY <1>1, <1>2, <1>5 DEF TypeOK, closing, HasStarted, Ids
<1>7. LockHeld'
  BY <1>1 DEF LockHeld, TypeOK, closing
<1>8. HasConfig' /\ StartsAlone'
  BY <1>1 DEF HasConfig, StartsAlone, New, TypeOK
<1>9. EntriesFollow'
  <2>1. SUFFICES ASSUME NEW k \in Langs, clients'[k] # NoServer
                 PROVE  (HasStarted(clients[k]))' /\ servers'[clients'[k]].lang \in {k, Primary[k]}
                        /\ clients'[servers'[clients'[k]].lang] = clients'[k]
    BY DEF EntriesFollow
  <2>2. CASE k = l
    BY <1>1, <1>2, <1>3, <1>4, <2>2 DEF HasStarted
  <2>3. CASE k # l
    <3>1. HasStarted(clients[k]) /\ servers[clients[k]].lang \in {k, Primary[k]}
          /\ clients[servers[clients[k]].lang] = clients[k] /\ clients[k] # NoServer
      BY <1>4, <2>1, <2>3 DEF EntriesFollow
    <3>2. servers[clients[k]].lang # l
      BY <1>1, <3>1
    <3>3. servers[clients[k]].lang \in Langs
      BY <3>1, ServerType DEF HasStarted
    <3> QED
      BY <1>1, <1>4, <2>3, <3>1, <3>2, <3>3 DEF HasStarted
  <2> QED
    BY <2>2, <2>3
<1>10. Active' = Active
  <2>1. \A k \in Langs : clients[k] # NoServer => k # l
    BY <1>1
  <2>2. \A k \in Langs : clients[k] # NoServer => clients[k] \in Active'
    BY <1>4, <2>1 DEF Active
  <2>3. \A k \in Langs : clients'[k] # NoServer => clients'[k] \in Active
    BY <1>1, <1>4 DEF Active, s
  <2> QED
    BY <2>2, <2>3 DEF Active
<1>11. CloseCovers' /\ NoServerLost'
  BY <1>1, <1>10 DEF CloseCovers, NoServerLost, closing
<1>12. HandedOutStarted'
  BY <1>1, <1>2, <1>3, <1>5 DEF HandedOutStarted, HasStarted, TypeOK
<1> QED
  BY <1>6, <1>7, <1>8, <1>9, <1>11, <1>12

(* A new server is added, by the one that then holds the lock.             *)
LEMMA BeginsStartKeeps ==
  ASSUME IInv, NEW p \in Procs, BeginsStart(p)
  PROVE  IInv'
<1> USE DEF IInv
<1> PICK l \in Langs : l = want[p]
  BY DEF BeginsStart, HasConfig, TypeOK
<1>1. /\ pc[p] = "miss" /\ writer = NoOne /\ Len(servers) < MaxServers /\ clients[l] = NoServer
      /\ Primary[l] # NoLang => clients[Primary[l]] = NoServer
      /\ servers' = Append(servers, [lang |-> FindConfig(l), st |-> "starting"])
      /\ writer' = p /\ pc' = [pc EXCEPT ![p] = "starting"]
      /\ UNCHANGED <<clients, want, hold, closing, deaf>>
  BY DEF BeginsStart, Goto
<1>2. FindConfig(l) # NoLang /\ hold[p] = {}
  BY <1>1 DEF HasConfig
<1>3. FindConfig(l) \in Configs /\ FindConfig(l) \in Langs /\ FindConfig(l) \in {l, Primary[l]}
  BY <1>2, Config
<1> DEFINE r == [lang |-> FindConfig(l), st |-> "starting"]
<1>4. r \in Servers /\ r.st = "starting" /\ r.lang = FindConfig(l)
  BY <1>3 DEF Servers, States
<1>5. servers \in Seq(Servers) /\ servers' = Append(servers, r)
  BY <1>1 DEF TypeOK, Servers
<1> HIDE DEF r
<1>6. /\ servers' \in Seq(Servers) /\ Len(servers') = Len(servers) + 1
      /\ \A s \in DOMAIN servers : s \in DOMAIN servers' /\ servers'[s] = servers[s]
      /\ \A s \in DOMAIN servers' : s \in DOMAIN servers \/ s = New'
      /\ New' \in DOMAIN servers' /\ servers'[New'] = r /\ New' \notin DOMAIN servers
  BY <1>4, <1>5, AddServer DEF New
<1>7. Len(servers) \in Nat /\ New' = Len(servers) + 1
  BY <1>5, <1>6 DEF New
<1>8. TypeOK'
  <2>1. servers' \in Seq([lang : Configs, st : States]) /\ Len(servers') <= MaxServers
    BY <1>1, <1>6, <1>7 DEF Servers
  <2>2. \A k \in Langs : clients'[k] <= Len(servers')
    BY <1>1, <1>6, <1>7 DEF TypeOK, Ids
  <2> QED
    BY <1>1, <2>1, <2>2 DEF TypeOK, closing
<1>9. LockHeld'
  BY <1>1 DEF LockHeld, TypeOK, closing
<1>10. HasConfig'
  BY <1>1, <1>2 DEF HasConfig, TypeOK
<1>11. StartsAlone'
  <2>1. \A s \in DOMAIN servers : servers[s].st # "starting"
    BY <1>1 DEF StartsAlone
  <2>2. clients[FindConfig(l)] = NoServer
    BY <1>1, <1>3
  <2>3. want'[writer'] = l /\ r = [lang |-> FindConfig(l), st |-> "starting"]
    BY <1>1 DEF r
  <2> QED
    BY <1>1, <1>4, <1>6, <1>7, <2>1, <2>2, <2>3 DEF StartsAlone
<1>12. EntriesFollow'
  BY <1>1, <1>6 DEF EntriesFollow, HasStarted
<1>13. CloseCovers'
  BY <1>1, <1>6 DEF CloseCovers, closing
<1>14. NoServerLost'
  BY <1>1, <1>4, <1>6 DEF NoServerLost, Active
<1>15. HandedOutStarted'
  BY <1>1, <1>6 DEF HandedOutStarted, HasStarted
<1> QED
  BY <1>8, <1>9, <1>10, <1>11, <1>12, <1>13, <1>14, <1>15

(* The server has started: both languages get an entry, which was free.    *)
LEMMA StartedKeeps ==
  ASSUME IInv, NEW p \in Procs, Started(p)
  PROVE  IInv'
<1> USE DEF IInv
<1> PICK n : n = Len(servers)
  OBVIOUS
<1> PICK l \in Langs : l = want[p]
  BY DEF Started, HasConfig, TypeOK
<1>1. /\ pc[p] = "starting" /\ writer = p
      /\ servers' = [servers EXCEPT ![n].st = "running"]
      /\ clients' = [clients EXCEPT ![servers[n].lang] = n, ![l] = n]
      /\ writer' = NoOne /\ pc' = [pc EXCEPT ![p] = "using"] /\ hold' = [hold EXCEPT ![p] = {n}]
      /\ UNCHANGED <<want, closing, deaf>>
  BY DEF Started, New, Given, Goto, LockHeld
<1>2. FindConfig(l) # NoLang
  BY <1>1 DEF HasConfig
<1>3. FindConfig(l) \in Configs /\ FindConfig(l) \in Langs /\ FindConfig(l) \in {l, Primary[l]}
  BY <1>2, Config
<1> PICK k \in Langs : k = FindConfig(l)
  BY <1>3
<1>4. /\ n \in DOMAIN servers /\ servers[n].lang = k /\ servers[n].st = "starting"
      /\ clients[l] = NoServer /\ clients[k] = NoServer
      /\ \A s \in DOMAIN servers : servers[s].st = "starting" => s = n
  <2>1. n # 0 /\ n \in Nat /\ DOMAIN servers = 1..n
    BY <1>1 DEF StartsAlone, New, TypeOK
  <2> QED
    BY <1>1, <2>1 DEF StartsAlone, New
<1>6. /\ servers' \in Seq(Servers) /\ Len(servers') = Len(servers) /\ DOMAIN servers' = DOMAIN servers
      /\ \A s \in DOMAIN servers : servers'[s].lang = servers[s].lang
      /\ servers'[n].st = "running"
      /\ \A s \in DOMAIN servers : s # n => servers'[s] = servers[s]
  <2>1. "running" \in States
    BY DEF States
  <2> HIDE DEF States
  <2> QED
    BY <1>1, <1>4, <2>1, SetState
<1>7. n \in 1..MaxServers /\ n # NoServer /\ n <= Len(servers')
  BY <1>4, <1>6 DEF TypeOK, NoServer
<1>8. clients'[k] = n /\ clients'[l] = n
      /\ \A j \in Langs : j # k /\ j # l => clients'[j] = clients[j]
  BY <1>1, <1>4 DEF TypeOK
<1>9. HasStarted(n)' /\ \A s : HasStarted(s) => HasStarted(s)' /\ s # n
  BY <1>4, <1>6 DEF HasStarted
<1>10. TypeOK'
  <2>1. servers' \in Seq([lang : Configs, st : States]) /\ Len(servers') <= MaxServers
    BY <1>6 DEF Servers, TypeOK
  <2>2. clients' \in [Langs -> Ids]
    BY <1>1, <1>4, <1>7 DEF TypeOK, Ids
  <2>3. \A j \in Langs : clients'[j] <= Len(servers')
    BY <1>6, <1>7, <1>8 DEF TypeOK
  <2>4. /\ pc' \in [Procs -> {"idle", "miss", "starting", "using"}]
        /\ hold' \in [Procs -> SUBSET (1..MaxServers)]
    BY <1>1, <1>7 DEF TypeOK
  <2> QED
    BY <1>1, <2>1, <2>2, <2>3, <2>4 DEF TypeOK, closing
<1>11. LockHeld'
  BY <1>1 DEF LockHeld, TypeOK, closing
<1>12. HasConfig'
  BY <1>1 DEF HasConfig, TypeOK
<1>13. StartsAlone'
  BY <1>1, <1>4, <1>6 DEF StartsAlone
<1>14. EntriesFollow'
  <2>1. SUFFICES ASSUME NEW j \in Langs, clients'[j] # NoServer
                 PROVE  (HasStarted(clients[j]))' /\ servers'[clients'[j]].lang \in {j, Primary[j]}
                        /\ clients'[servers'[clients'[j]].lang] = clients'[j]
    BY DEF EntriesFollow
  <2>2. CASE j = k \/ j = l
    BY <1>3, <1>4, <1>6, <1>8, <1>9, <2>2
  <2>3. CASE j # k /\ j # l
    <3>1. HasStarted(clients[j]) /\ servers[clients[j]].lang \in {j, Primary[j]}
          /\ clients[servers[clients[j]].lang] = clients[j] /\ clients'[j] = clients[j]
      BY <1>8, <2>1, <2>3 DEF EntriesFollow
    <3>2. servers[clients[j]].lang \in Langs /\ servers'[clients[j]].lang = servers[clients[j]].lang
      BY <1>6, <3>1, ServerType DEF HasStarted
    <3>3. servers[clients[j]].lang # k /\ servers[clients[j]].lang # l
      BY <1>4, <1>8, <2>1, <3>1
    <3> QED
      BY <1>8, <1>9, <3>1, <3>2, <3>3
  <2> QED
    BY <2>2, <2>3
<1>15. CloseCovers'
  BY <1>1, <1>6 DEF CloseCovers, closing
<1>16. NoServerLost'
  <2>1. n \in Active'
    BY <1>7, <1>8 DEF Active
  <2>2. \A s \in Active : s \in Active'
    <3>1. \A j \in Langs : clients[j] # NoServer => clients'[j] = clients[j]
      BY <1>4, <1>8
    <3> QED
      BY <3>1 DEF Active
  <2>3. SUFFICES ASSUME NEW s \in DOMAIN servers', servers'[s].st = "running" PROVE s \in Active'
    BY DEF NoServerLost
  <2> QED
    BY <1>6, <2>1, <2>2, <2>3 DEF NoServerLost
<1>17. HandedOutStarted'
  <2>1. SUFFICES ASSUME NEW q \in Procs, NEW s \in hold'[q]
                 PROVE  HasStarted(s)' /\ (want'[q] # NoLang => servers'[s].lang \in {want'[q], Primary[want'[q]]})
    BY DEF HandedOutStarted
  <2>2. CASE q = p
    BY <1>1, <1>3, <1>4, <1>6, <1>9, <2>1, <2>2 DEF TypeOK
  <2>3. CASE q # p
    <3>1. s \in hold[q] /\ HasStarted(s) /\ servers'[s].lang = servers[s].lang
      BY <1>1, <1>6, <2>1, <2>3 DEF TypeOK, HandedOutStarted, HasStarted
    <3> QED
      BY <1>1, <1>9, <3>1 DEF HandedOutStarted
  <2> QED
    BY <2>2, <2>3
<1> QED
  BY <1>10, <1>11, <1>12, <1>13, <1>14, <1>15, <1>16, <1>17

(* The start has failed: nothing is stored.                                *)
LEMMA StartFailsKeeps ==
  ASSUME IInv, NEW p \in Procs, StartFails(p)
  PROVE  IInv'
<1> USE DEF IInv
<1> PICK n : n = Len(servers)
  OBVIOUS
<1>1. /\ pc[p] = "starting" /\ writer = p
      /\ servers' = [servers EXCEPT ![n].st = "failed"]
      /\ writer' = NoOne /\ pc' = [pc EXCEPT ![p] = "idle"] /\ want' = [want EXCEPT ![p] = NoLang]
      /\ UNCHANGED <<clients, hold, closing, deaf>>
  BY DEF StartFails, New, Goto, LockHeld
<1>2. /\ n \in DOMAIN servers /\ servers[n].st = "starting"
      /\ \A s \in DOMAIN servers : servers[s].st = "starting" => s = n
  <2>1. n # 0 /\ n \in Nat /\ DOMAIN servers = 1..n
    BY <1>1 DEF StartsAlone, New, TypeOK
  <2> QED
    BY <1>1, <2>1 DEF StartsAlone, New
<1>4. /\ servers' \in Seq(Servers) /\ Len(servers') = Len(servers) /\ DOMAIN servers' = DOMAIN servers
      /\ \A s \in DOMAIN servers : servers'[s].lang = servers[s].lang
      /\ servers'[n].st = "failed"
      /\ \A s \in DOMAIN servers : s # n => servers'[s] = servers[s]
  <2>1. "failed" \in States
    BY DEF States
  <2> HIDE DEF States
  <2> QED
    BY <1>1, <1>2, <2>1, SetState
<1>5. \A s : HasStarted(s) => HasStarted(s)' /\ s \in DOMAIN servers
  BY <1>2, <1>4 DEF HasStarted
<1>6. TypeOK'
  <2>1. servers' \in Seq([lang : Configs, st : States]) /\ Len(servers') <= MaxServers
    BY <1>4 DEF Servers, TypeOK
  <2> QED
    BY <1>1, <1>4, <2>1 DEF TypeOK, closing
<1>7. LockHeld'
  BY <1>1 DEF LockHeld, TypeOK, closing
<1>8. HasConfig'
  BY <1>1 DEF HasConfig, TypeOK
<1>9. StartsAlone'
  BY <1>1, <1>2, <1>4 DEF StartsAlone
<1>10. EntriesFollow'
  BY <1>1, <1>4, <1>5 DEF EntriesFollow
<1>11. CloseCovers' /\ NoServerLost'
  BY <1>1, <1>4 DEF CloseCovers, NoServerLost, Active, closing
<1>12. HandedOutStarted'
  BY <1>1, <1>4, <1>5 DEF HandedOutStarted, TypeOK
<1> QED
  BY <1>6, <1>7, <1>8, <1>9, <1>10, <1>11, <1>12

(* Close takes the servers of the table, closes them and empties it.       *)
LEMMA CloseKeeps ==
  ASSUME IInv, NEW k \in Closers, CloseStep(k)
  PROVE  IInv'
<1> USE DEF IInv, At
<1>1. CASE CloseLocks(k)
  <2>1. \A s \in Active : s \in DOMAIN servers
    BY TableFacts DEF HasStarted
  <2>2. Active \subseteq 1..MaxServers /\ DOMAIN servers \subseteq 1..MaxServers
    BY <2>1 DEF TypeOK
  <2>3. /\ writer = NoOne /\ writer' = k /\ todo' = [todo EXCEPT ![k] = Active]
        /\ cpc' = [cpc EXCEPT ![k] = "close"]
        /\ UNCHANGED <<clients, servers, local, deaf, done, ended>>
    BY <1>1 DEF CloseLocks
  <2>4. TypeOK'
    BY <2>2, <2>3 DEF TypeOK, local
  <2>5. LockHeld'
    BY <2>3 DEF LockHeld, TypeOK, local
  <2>6. HasConfig' /\ StartsAlone' /\ EntriesFollow' /\ NoServerLost' /\ HandedOutStarted'
    BY <2>3 DEF HasConfig, StartsAlone, EntriesFollow, NoServerLost, HandedOutStarted, New, HasStarted,
       Active, local
  <2>7. CloseCovers'
    BY <2>1, <2>3 DEF CloseCovers, TypeOK, Active
  <2> QED
    BY <2>4, <2>5, <2>6, <2>7
<1>2. CASE CloseOne(k)
  <2> PICK s \in todo[k] \ deaf :
        servers' = [servers EXCEPT ![s].st = "closed"] /\ todo' = [todo EXCEPT ![k] = @ \ {s}]
    BY <1>2 DEF CloseOne
  <2>1. s \in DOMAIN servers /\ writer = k /\ UNCHANGED <<clients, writer, local, deaf, cpc, done, ended>>
    BY <1>2 DEF CloseOne, CloseCovers, LockHeld
  <2>2. "closed" \in States
    BY DEF States
  <2>3. /\ servers' \in Seq(Servers) /\ Len(servers') = Len(servers) /\ DOMAIN servers' = DOMAIN servers
        /\ \A t \in DOMAIN servers : servers'[t].lang = servers[t].lang
        /\ servers'[s].st = "closed"
        /\ \A t \in DOMAIN servers : t # s => servers'[t] = servers[t]
    BY <2>1, <2>2, SetState
  <2>4. \A t : HasStarted(t) => HasStarted(t)' /\ t \in DOMAIN servers
    BY <2>3 DEF HasStarted
  <2>5. TypeOK'
    <3>1. servers' \in Seq([lang : Configs, st : States]) /\ Len(servers') <= MaxServers
      BY <2>3 DEF Servers, TypeOK
    <3>2. todo' \in [Closers -> SUBSET (1..MaxServers)]
      BY DEF TypeOK
    <3> QED
      BY <2>1, <2>3, <3>1, <3>2 DEF TypeOK, local
  <2>6. LockHeld' /\ HasConfig'
    BY <2>1 DEF LockHeld, HasConfig, local
  <2>7. StartsAlone'
    BY <2>1, <2>3 DEF StartsAlone, New, local
  <2>8. EntriesFollow'
    BY <2>1, <2>3, <2>4 DEF EntriesFollow
  <2>9. CloseCovers'
    <3>1. todo'[k] = todo[k] \ {s} /\ \A j \in Closers : j # k => todo'[j] = todo[j]
      BY DEF TypeOK
    <3>2. Active' = Active /\ \A t \in Active : t \in DOMAIN servers
      BY <2>1, TableFacts DEF Active, HasStarted
    <3> QED
      BY <2>1, <2>3, <3>1, <3>2 DEF CloseCovers
  <2>10. NoServerLost'
    BY <2>1, <2>3 DEF NoServerLost, Active
  <2>11. HandedOutStarted'
    BY <2>1, <2>3, <2>4 DEF HandedOutStarted, local
  <2> QED
    BY <2>5, <2>6, <2>7, <2>8, <2>9, <2>10, <2>11
<1>3. CASE CloseUnlocks(k)
  <2>1. /\ todo[k] = {} /\ writer = k /\ writer' = NoOne /\ clients' = [l \in Langs |-> NoServer]
        /\ cpc' = [cpc EXCEPT ![k] = "check"] /\ UNCHANGED <<servers, local, deaf, todo, done, ended>>
    BY <1>3 DEF CloseUnlocks, LockHeld
  <2>2. \A s \in DOMAIN servers : servers[s].st # "running"
    BY <2>1 DEF CloseCovers, NoServerLost
  <2>3. TypeOK'
    BY <2>1 DEF TypeOK, local, NoServer, Ids
  <2>4. LockHeld'
    BY <2>1 DEF LockHeld, TypeOK, local
  <2>5. HasConfig' /\ StartsAlone' /\ HandedOutStarted'
    BY <2>1 DEF HasConfig, StartsAlone, HandedOutStarted, New, HasStarted, local
  <2>6. EntriesFollow' /\ NoServerLost'
    BY <2>1, <2>2 DEF EntriesFollow, NoServerLost
  <2>7. CloseCovers'
    BY <2>1 DEF CloseCovers
  <2> QED
    BY <2>3, <2>4, <2>5, <2>6, <2>7
<1>4. CASE ChecksDone(k) \/ ClosesDone(k)
  <2>1. /\ cpc[k] \in {"check", "closeDone"} /\ \E q \in {"end", "closeDone"} : cpc' = [cpc EXCEPT ![k] = q]
        /\ UNCHANGED <<table, local, deaf, todo>>
    BY <1>4 DEF ChecksDone, ClosesDone
  <2>2. done' \in BOOLEAN /\ ended' \in {"no", "exited", "panicked"}
    BY <1>4 DEF ChecksDone, ClosesDone, TypeOK
  <2>3. TypeOK'
    BY <2>1, <2>2 DEF TypeOK, local, table
  <2>4. LockHeld'
    BY <2>1 DEF LockHeld, TypeOK, local, table
  <2>5. HasConfig' /\ StartsAlone' /\ EntriesFollow' /\ CloseCovers' /\ NoServerLost' /\ HandedOutStarted'
    BY <2>1 DEF HasConfig, StartsAlone, EntriesFollow, CloseCovers, NoServerLost, HandedOutStarted,
       New, HasStarted, Active, local, table
  <2> QED
    BY <2>3, <2>4, <2>5
<1>5. CASE ClosePanics(k)
  <2>1. UNCHANGED <<table, local, deaf, cpc, todo, done>> /\ ended' \in {"no", "exited", "panicked"}
    BY <1>5 DEF ClosePanics
  <2>2. TypeOK'
    BY <2>1 DEF TypeOK, local, table
  <2>3. LockHeld' /\ HasConfig' /\ StartsAlone' /\ EntriesFollow' /\ CloseCovers' /\ NoServerLost'
        /\ HandedOutStarted'
    BY <2>1 DEF LockHeld, HasConfig, StartsAlone, EntriesFollow, CloseCovers, NoServerLost,
       HandedOutStarted, New, HasStarted, Active, local, table
  <2> QED
    BY <2>2, <2>3
<1> QED
  BY <1>1, <1>2, <1>3, <1>4, <1>5 DEF CloseStep

(* A server that hangs stays where it is.                                  *)
LEMMA HangsKeeps ==
  ASSUME IInv, NEW s \in DOMAIN servers, Hangs(s)
  PROVE  IInv'
<1> USE DEF IInv
<1>1. UNCHANGED <<table, local, closing>> /\ deaf' = deaf \cup {s}
  BY DEF Hangs
<1>2. TypeOK'
  BY <1>1 DEF TypeOK, local, table, closing
<1>3. LockHeld' /\ HasConfig' /\ StartsAlone' /\ EntriesFollow' /\ CloseCovers' /\ NoServerLost'
      /\ HandedOutStarted'
  BY <1>1 DEF LockHeld, HasConfig, StartsAlone, EntriesFollow, CloseCovers, NoServerLost,
     HandedOutStarted, New, HasStarted, Active, local, table, closing
<1> QED
  BY <1>2, <1>3

(* The causes of the end, and the end.                                     *)
LEMMA EndKeeps ==
  ASSUME IInv, SignalOrParentDeath \/ ServeEnds \/ Exits \/ UNCHANGED vars
  PROVE  IInv'
<1> USE DEF IInv, At
<1>1. /\ UNCHANGED <<table, local, deaf, todo, done>>
      /\ \/ UNCHANGED cpc
         \/ \E k \in Closers, q \in {"lock", "await"} : cpc[k] = "up" /\ cpc' = [cpc EXCEPT ![k] = q]
  BY DEF SignalOrParentDeath, ServeEnds, Exits, vars, closing, Closers
<1>2. ended' \in {"no", "exited", "panicked"}
  BY DEF SignalOrParentDeath, ServeEnds, Exits, vars, closing, TypeOK
<1>3. TypeOK'
  BY <1>1, <1>2 DEF TypeOK, local, table
<1>4. LockHeld'
  BY <1>1 DEF LockHeld, TypeOK, local, table
<1>5. HasConfig' /\ StartsAlone' /\ EntriesFollow' /\ CloseCovers' /\ NoServerLost' /\ HandedOutStarted'
  BY <1>1 DEF HasConfig, StartsAlone, EntriesFollow, CloseCovers, NoServerLost, HandedOutStarted,
     New, HasStarted, Active, local, table
<1> QED
  BY <1>3, <1>4, <1>5

LEMMA Inductive == Spec => []IInv
<1>1. Init => IInv
  BY InitIInv
<1>2. IInv /\ [Next]_vars => IInv'
  <2> SUFFICES ASSUME IInv, [Next]_vars PROVE IInv'
    OBVIOUS
  <2>1. ASSUME NEW p \in Procs, ProcStep(p) PROVE IInv'
    BY <2>1, TakeKeeps, FindsGroupKeeps, BeginsStartKeeps, StartedKeeps, StartFailsKeeps DEF ProcStep
  <2>2. ASSUME NEW p \in Procs, ProcBegins(p) PROVE IInv'
    BY <2>2, TakeKeeps
  <2>3. ASSUME NEW k \in Closers, CloseStep(k) PROVE IInv'
    BY <2>3, CloseKeeps
  <2>4. ASSUME SignalOrParentDeath \/ ServeEnds \/ Exits \/ UNCHANGED vars PROVE IInv'
    BY <2>4, EndKeeps
  <2>5. ASSUME NEW s \in DOMAIN servers, Hangs(s) PROVE IInv'
    BY <2>5, HangsKeeps
  <2> QED
    BY <2>1, <2>2, <2>3, <2>4, <2>5 DEF Next
<1> QED
  BY <1>1, <1>2, PTL DEF Spec

(* Every variable keeps its type.                                          *)
THEOREM TypeCorrect == Spec => []TypeOK
BY Inductive, PTL DEF IInv

(* A server that was started and not closed is in the table: no start is   *)
(* repeated and no entry is overwritten.                                   *)
THEOREM NothingLost == Spec => []NoServerLost
BY Inductive, PTL DEF IInv

(* Nobody is given a server that has not started, or one of another group. *)
THEOREM OnlyStartedHandedOut == Spec => []HandedOutStarted
BY Inductive, PTL DEF IInv

(* The languages of a group have one server, unless both are configured.   *)
THEOREM OneServerPerGroup == Spec => []AliasesAgree
<1>1. IInv => AliasesAgree
  <2> SUFFICES ASSUME IInv, NEW l \in Langs, Primary[l] # NoLang,
                      {l, Primary[l]} \cap Configs # {l, Primary[l]},
                      clients[l] # NoServer, clients[Primary[l]] # NoServer
               PROVE  clients[l] = clients[Primary[l]]
    BY DEF AliasesAgree
  <2> PICK g \in Langs : g = Primary[l]
    OBVIOUS
  <2> PICK a : a = servers[clients[l]].lang
    OBVIOUS
  <2> PICK b : b = servers[clients[g]].lang
    OBVIOUS
  <2>1. a \in {l, g} /\ clients[a] = clients[l] /\ clients[l] \in DOMAIN servers
    BY DEF IInv, EntriesFollow, HasStarted
  <2>2. b \in {g, Primary[g]} /\ clients[b] = clients[g] /\ clients[g] \in DOMAIN servers
    BY DEF IInv, EntriesFollow, HasStarted
  <2>3. a \in Configs /\ b \in Configs
    BY <2>1, <2>2, ServerType DEF IInv, Servers
  <2>4. b \in {g, l}
    BY <2>2, <2>3
  <2>5. a = b
    BY <2>1, <2>3, <2>4
  <2> QED
    BY <2>1, <2>2, <2>5
<1> QED
  BY <1>1, Inductive, PTL
==============================================================================
