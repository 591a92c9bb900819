------------------------------- MODULE RpcProofs -------------------------------
(* Proofs about Rpc, for every number of calls and every bound.            *)
EXTENDS Rpc, TLAPS

USE CallsAssumption, BoundsAssumption

(* Nothing is not a response, and a message of type response is one.       *)
LEMMA Kinds ==
  /\ Nothing \notin Responses
  /\ \A m \in Messages : m.type = "response" => m \in Responses
  /\ \A m \in Responses : m \in Messages /\ m.of \in Calls /\ m.id \in Ids /\ m.type = "response"
  /\ 0 \notin Ids /\ Ids \subseteq Nat
BY DEF Nothing, Responses, Messages, Ids

(* What is left in a pipe after its head is read was there, one place on.  *)
LEMMA TailFacts ==
  ASSUME NEW S, NEW s \in Seq(S), s # <<>>
  PROVE  /\ Head(s) \in S /\ Head(s) = s[1] /\ 1 \in DOMAIN s
         /\ Tail(s) \in Seq(S) /\ Len(Tail(s)) <= Len(s)
         /\ \A n \in DOMAIN Tail(s) : n + 1 \in DOMAIN s /\ n \in Nat /\ n + 1 # 1
                                       /\ Tail(s)[n] = s[n + 1]
OBVIOUS

(* A pipe holds what it held and, at its end, the message just written.    *)
LEMMA AppendFacts ==
  ASSUME NEW S, NEW s \in Seq(S), NEW m \in S
  PROVE  /\ Append(s, m) \in Seq(S) /\ Len(Append(s, m)) = Len(s) + 1
         /\ \A n \in DOMAIN Append(s, m) :
              \/ n \in DOMAIN s /\ Append(s, m)[n] = s[n]
              \/ n \notin DOMAIN s /\ n = Len(s) + 1 /\ Append(s, m)[n] = m
OBVIOUS

LEMMA InitIInv == Init => IInv
<1> SUFFICES ASSUME Init PROVE IInv
  OBVIOUS
<1> USE DEF Init
<1>1. TypeOK
  <2>1. done \in BOOLEAN /\ closed \in BOOLEAN /\ garbled \in BOOLEAN
    BY Zenon
  <2>2. out \in Seq(Messages) /\ Len(out) <= MaxOut /\ replies \in Seq(1..MaxSent)
    OBVIOUS
  <2>3. held \in Messages
    BY DEF Nothing, Messages
  <2> QED
    BY <2>1, <2>2, <2>3 DEF TypeOK
<1>2. IdsDistinct /\ HandlersExact /\ EndsOnce
  BY Kinds DEF IdsDistinct, HandlersExact, EndsOnce
<1>3. Provenance /\ AtMostOnce /\ OwnAnswer /\ ReaderNeverBlocks
  BY DEF Provenance, AtMostOnce, OwnAnswer, ReaderNeverBlocks
<1> QED
  BY <1>1, <1>2, <1>3 DEF IInv

(* Every step of a call keeps the invariant.                               *)
LEMMA CallKeeps ==
  ASSUME IInv, NEW c \in Calls, CallStep(c) \/ StopCaller(c)
  PROVE  IInv'
<1> USE Kinds DEF IInv, TypeOK, IdsDistinct, HandlersExact, Provenance, AtMostOnce, EndsOnce,
        OwnAnswer, ReaderNeverBlocks, IsAnswer, Ends, callVars, readerVars, lifeVars, serverVars, Dead
<1>1. CASE Register(c)
  BY SMTT(30), <1>1 DEF Register, Ids
<1>2. CASE Send(c)
  <2>1. /\ UNCHANGED <<nextID, id, handlers, box, outcome, got, stopped, readerVars, lifeVars, answered,
                       out, asks, notes, replies>>
        /\ pc[c] = "registered" /\ pc' = [pc EXCEPT ![c] = "waiting"]
        /\ inbox' \in {inbox, inbox \cup {[id |-> id[c], of |-> c]}}
    BY <1>2 DEF Send
  <2>2. c \notin answered /\ [id |-> id[c], of |-> c] \in [id : Ids, of : Calls]
    BY <2>1
  <2>3. TypeOK'
    BY SMTT(30), <2>1, <2>2
  <2>4. IdsDistinct' /\ HandlersExact' /\ EndsOnce' /\ OwnAnswer' /\ ReaderNeverBlocks'
    BY SMTT(30), <2>1
  <2>5. Provenance'
    BY SMTT(30), <2>1, <2>2
  <2>6. AtMostOnce'
    BY SMTT(30), <2>1
  <2> QED
    BY <2>3, <2>4, <2>5, <2>6
<1>3. CASE SendFails(c)
  BY SMTT(30), <1>3 DEF SendFails
<1>4. CASE TakeAnswer(c)
  BY SMTT(30), <1>4 DEF TakeAnswer
<1>5. CASE SeeDeath(c)
  BY SMTT(30), <1>5 DEF SeeDeath
<1>6. CASE SeeCancel(c)
  BY SMTT(30), <1>6 DEF SeeCancel
<1>7. CASE Deregister(c)
  BY SMTT(30), <1>7 DEF Deregister
<1>8. CASE StopCaller(c)
  BY SMTT(30), <1>8 DEF StopCaller
<1> QED
  BY <1>1, <1>2, <1>3, <1>4, <1>5, <1>6, <1>7, <1>8 DEF CallStep

(* The channel registered for the id of an answer is the channel of the    *)
(* call that asked for it.                                                 *)
LEMMA LooksUpOwner ==
  ASSUME IInv, NEW h \in Responses, IsAnswer(h)
  PROVE  /\ handlers[h.id] \in Calls \cup {NoCall}
         /\ handlers[h.id] # NoCall => handlers[h.id] = h.of
<1>1. h.id \in Ids /\ h.of \in Calls /\ h.id # 0 /\ h.id = id[h.of]
  BY Kinds DEF IsAnswer
<1>2. handlers \in [Ids -> Calls \cup {NoCall}]
  BY DEF IInv, TypeOK
<1>3. handlers[h.id] \in Calls \cup {NoCall}
  BY <1>1, <1>2
<1>4. ASSUME NEW c \in Calls, handlers[h.id] = c PROVE c = h.of
  <2>1. id[c] = h.id
    BY <1>1, <1>4 DEF IInv, HandlersExact
  <2> QED
    BY <1>1, <2>1 DEF IInv, IdsDistinct
<1> QED
  BY <1>3, <1>4

(* Every step of the reader keeps the invariant: the channel it looks up is*)
(* the channel of the call the response belongs to.                        *)
LEMMA ReaderKeeps ==
  ASSUME IInv, ReaderStep
  PROVE  IInv'
<1> USE Kinds DEF IInv, TypeOK, IdsDistinct, HandlersExact, Provenance, AtMostOnce, EndsOnce,
        OwnAnswer, ReaderNeverBlocks, IsAnswer, callVars, readerVars, lifeVars, serverVars, Dead
<1>1. ASSUME out # <<>>
      PROVE  /\ Head(out) \in Messages /\ Head(out) = out[1] /\ 1 \in DOMAIN out
             /\ Tail(out) \in Seq(Messages) /\ Len(Tail(out)) <= MaxOut
             /\ \A n \in DOMAIN Tail(out) : n + 1 \in DOMAIN out /\ n \in Nat /\ n + 1 # 1
                                             /\ Tail(out)[n] = out[n + 1]
  <2>1. Len(out) \in Nat /\ Len(Tail(out)) \in Nat
    BY <1>1
  <2> QED
    BY <1>1, <2>1, TailFacts
<1>2. CASE ReadResponse
  <2>0. Head(out) \in Responses
    BY <1>1, <1>2 DEF ReadResponse, Reads
  <2>1. PICK h \in Responses :
          /\ h = Head(out) /\ h.of \in Calls /\ h.id \in Ids /\ IsAnswer(h) /\ h = out[1]
          /\ out # <<>> /\ out' = Tail(out) /\ reader = "read"
    BY <1>1, <1>2, <2>0 DEF ReadResponse, Reads
  <2>2. \A n \in DOMAIN out' : out'[n].type = "response" => out'[n].of # h.of
    BY <1>1, <2>1
  <2>3. \A n \in DOMAIN out' : n + 1 \in DOMAIN out /\ out'[n] = out[n + 1]
    BY <1>1, <2>1
  <2>4. out' \in Seq(Messages) /\ Len(out') <= MaxOut
    BY <1>1, <2>1
  <2>5. /\ UNCHANGED <<callVars, handlers, box, done, lifeVars, inbox, answered, asks, notes, replies>>
        /\ target' = handlers[h.id]
        /\ \/ handlers[h.id] # NoCall /\ reader' = "deliver" /\ held' = h
           \/ handlers[h.id] = NoCall /\ UNCHANGED <<reader, held>>
    BY <1>2, <2>1 DEF ReadResponse
  <2>6. /\ handlers[h.id] \in Calls \cup {NoCall}
        /\ handlers[h.id] # NoCall => handlers[h.id] = h.of
    BY <2>1, LooksUpOwner
  <2>11. target' \in Calls \cup {NoCall}
    BY <2>5, <2>6
  <2>13. reader' \in {"read", "deliver", "reply", "gone"}
    BY <2>1, <2>5
  <2>12. held' \in Messages
    BY <2>1, <2>5
  <2>7. TypeOK' /\ IdsDistinct' /\ HandlersExact' /\ EndsOnce' /\ OwnAnswer'
    BY SMTT(30), <2>1, <2>4, <2>5, <2>11, <2>12, <2>13
  <2>8. \A n \in DOMAIN out' : out'[n].type = "response" =>
          /\ IsAnswer(out[n])' /\ box[out'[n].of] = Nothing
          /\ \A k \in DOMAIN out' : out'[k].type = "response" /\ out'[k].of = out'[n].of => k = n
    BY SMTT(30), <1>1, <2>1, <2>3, <2>5
  <2>9. Provenance'
    BY SMTT(30), <2>1, <2>5, <2>6, <2>8
  <2>10. AtMostOnce' /\ ReaderNeverBlocks'
    BY SMTT(30), <1>1, <2>1, <2>2, <2>5, <2>6, <2>8
  <2> QED
    BY <2>7, <2>9, <2>10
<1>3. CASE Deliver
  <2>1. /\ reader = "deliver" /\ reader' = "read" /\ target' = NoCall /\ held' = Nothing
        /\ box' = [box EXCEPT ![target] = held] /\ Nothing \in Messages
        /\ held \in Responses /\ target = held.of /\ target \in Calls
        /\ UNCHANGED <<callVars, handlers, done, serverVars, replies>>
    BY <1>3 DEF Deliver, Nothing, Messages
  <2>2. TypeOK'
    BY SMTT(30), <2>1
  <2>3. IdsDistinct' /\ HandlersExact' /\ EndsOnce' /\ OwnAnswer' /\ ReaderNeverBlocks'
    BY SMTT(30), <2>1
  <2>4. Provenance'
    BY SMTT(30), <2>1
  <2>5. AtMostOnce'
    BY SMTT(30), <2>1
  <2> QED
    BY <2>2, <2>3, <2>4, <2>5
<1>4. CASE ReadAsk
  <2>1. /\ reader = "read" /\ reader' = "reply" /\ held' \in Messages /\ held'.type = "ask"
        /\ out' \in Seq(Messages) /\ Len(out') <= MaxOut
        /\ \A n \in DOMAIN out' : n + 1 \in DOMAIN out /\ n \in Nat /\ out'[n] = out[n + 1]
        /\ UNCHANGED <<callVars, handlers, box, target, done, lifeVars, inbox, answered, asks, notes,
                       replies>>
    BY <1>1, <1>4 DEF ReadAsk, Reads
  <2>2. TypeOK'
    BY SMTT(30), <2>1
  <2>3. IdsDistinct' /\ HandlersExact' /\ EndsOnce' /\ OwnAnswer' /\ ReaderNeverBlocks'
    BY SMTT(30), <2>1
  <2>6. \A n \in DOMAIN out' : /\ out'[n].type = "response" => IsAnswer(out'[n])
                               /\ out'[n].type = "garbage" => garbled'
    BY SMTT(30), <2>1
  <2>4. Provenance'
    BY SMTT(30), <2>1, <2>6
  <2>5. AtMostOnce'
    <3>1. \A n \in DOMAIN out' : out'[n].type = "response" => box'[out'[n].of] = Nothing
      BY <2>1
    <3>2. ASSUME NEW n \in DOMAIN out', NEW k \in DOMAIN out', out'[n].type = "response",
                 out'[k].type = "response", out'[k].of = out'[n].of
          PROVE  k = n
      <4>1. n + 1 \in DOMAIN out /\ k + 1 \in DOMAIN out /\ n \in Nat /\ k \in Nat
            /\ out'[n] = out[n + 1] /\ out'[k] = out[k + 1]
        BY <2>1
      <4>2. k + 1 = n + 1
        BY <3>2, <4>1
      <4> HIDE DEF IInv, TypeOK, Provenance, AtMostOnce, IdsDistinct, HandlersExact
      <4> QED
        BY <4>1, <4>2
    <3> QED
      BY <2>1, <3>1, <3>2
  <2> QED
    BY <2>2, <2>3, <2>4, <2>5
<1>7. CASE Reply
  <2>1. /\ reader = "reply" /\ reader' = "read" /\ held' = Nothing /\ Nothing \in Messages
        /\ UNCHANGED <<callVars, handlers, box, target, done, serverVars>>
    BY <1>7 DEF Reply, Nothing, Messages
  <2>2. replies' \in Seq(1..MaxSent)
    <3>1. held.id \in 1..MaxSent
      BY <2>1 DEF Messages, Responses
    <3>4. Append(replies, held.id) \in Seq(1..MaxSent)
      <4> HIDE DEF IInv, TypeOK
      <4>1. replies \in Seq(1..MaxSent)
        BY DEF IInv, TypeOK
      <4> HIDE DEF Provenance, AtMostOnce, IdsDistinct, HandlersExact, EndsOnce, OwnAnswer, ReaderNeverBlocks
      <4> QED
        BY <3>1, <4>1, AppendFacts
    <3>2. replies \in Seq(1..MaxSent) /\ (replies' = replies \/ replies' = Append(replies, held.id))
      BY <1>7 DEF Reply
    <3> QED
      BY <3>2, <3>4
  <2>3. TypeOK'
    BY SMTT(30), <2>1, <2>2
  <2>4. IdsDistinct' /\ HandlersExact' /\ EndsOnce' /\ OwnAnswer' /\ ReaderNeverBlocks'
    BY SMTT(30), <2>1
  <2>5. Provenance' /\ AtMostOnce'
    BY SMTT(30), <2>1
  <2> QED
    BY <2>3, <2>4, <2>5
<1>5. CASE ReadNote
  BY SMTT(60), <1>1, <1>5 DEF ReadNote, Reads
<1>6. CASE ReadFails
  <2>1. out # <<>> /\ Head(out).type = "garbage" => garbled
    BY <1>1
  <2>2. /\ reader' = "gone" /\ out' = <<>> /\ done' \in BOOLEAN /\ (Dead \/ garbled)
        /\ UNCHANGED <<callVars, handlers, box, target, held, lifeVars, inbox, answered, asks,
                       notes, replies>>
    BY Zenon, <1>6, <2>1 DEF ReadFails
  <2>3. out' \in Seq(Messages) /\ Len(out') <= MaxOut
    BY <2>2
  <2>4. TypeOK'
    BY SMTT(30), <2>2, <2>3
  <2>5. IdsDistinct' /\ HandlersExact' /\ OwnAnswer' /\ ReaderNeverBlocks' /\ EndsOnce'
    BY SMTT(30), <2>2
  <2>6. Provenance' /\ AtMostOnce'
    BY SMTT(30), <2>2
  <2> QED
    BY <2>4, <2>5, <2>6
<1> QED
  BY <1>2, <1>3, <1>4, <1>5, <1>6, <1>7 DEF ReaderStep

(* Every step of the server keeps the invariant, since it answers a request*)
(* once; so does the closing of its stdin.                                 *)
LEMMA ServerKeeps ==
  ASSUME IInv, ServerStep \/ CloseStdin
  PROVE  IInv'
<1> USE Kinds
<1>0. out \in Seq(Messages) /\ Len(out) <= MaxOut
  BY DEF IInv, TypeOK
<1>1. ASSUME NEW m \in Messages, Sends(m)
      PROVE  /\ out' \in Seq(Messages) /\ Len(out') <= MaxOut
             /\ \A n \in DOMAIN out' :
                  \/ n \in DOMAIN out /\ out'[n] = out[n]
                  \/ n \notin DOMAIN out /\ n = Len(out) + 1 /\ out'[n] = m
  BY <1>0, <1>1, AppendFacts DEF Sends
(* The parts that no message on the pipe can disturb.                      *)
<1>2. ASSUME UNCHANGED <<callVars, handlers, box, readerVars>>, done' => Dead' \/ garbled'
      PROVE  IdsDistinct' /\ HandlersExact' /\ EndsOnce' /\ OwnAnswer' /\ ReaderNeverBlocks'
  BY <1>2 DEF IInv, IdsDistinct, HandlersExact, EndsOnce, OwnAnswer, ReaderNeverBlocks,
     callVars, readerVars
(* A message that is not an answer leaves the answers where they are.      *)
<1>3. ASSUME NEW m \in Messages, Sends(m), m.type # "response",
             m.type = "garbage" => garbled', garbled => garbled',
             UNCHANGED <<callVars, handlers, box, readerVars, inbox, answered>>
      PROVE  Provenance' /\ AtMostOnce'
  <2>1. Provenance'
    BY SMTT(30), <1>1, <1>3 DEF IInv, Provenance, IsAnswer, callVars, readerVars, lifeVars
  <2>2. AtMostOnce'
    BY SMTT(30), <1>1, <1>3 DEF IInv, AtMostOnce, callVars, readerVars
  <2> QED
    BY <2>1, <2>2
<1>4. ASSUME NEW r \in inbox, ServerAnswers(r) PROVE IInv'
  <2>1. Sends([type |-> "response", id |-> r.id, of |-> r.of])
    BY <1>4 DEF ServerAnswers
  <2>2. r \in [id : Ids, of : Calls] /\ r.id \in Ids /\ r.of \in Calls
    BY DEF IInv, TypeOK
  <2>3. PICK m \in Responses : m.of = r.of /\ m.id = r.id /\ m.type = "response" /\ Sends(m)
    <3>1. [type |-> "response", id |-> r.id, of |-> r.of] \in Responses
      BY <2>2 DEF Responses
    <3> QED
      BY <2>1, <3>1
  <2>4. /\ m \in Messages /\ out' \in Seq(Messages) /\ Len(out') <= MaxOut
        /\ \A n \in DOMAIN out' :
             \/ n \in DOMAIN out /\ out'[n] = out[n]
             \/ n \notin DOMAIN out /\ n = Len(out) + 1 /\ out'[n] = m
    BY <1>1, <2>3
  <2>5. /\ UNCHANGED <<callVars, handlers, box, readerVars, lifeVars, asks, notes, replies>>
        /\ inbox' = inbox \ {r} /\ answered' = answered \cup {r.of}
    BY <1>4, <2>3 DEF ServerAnswers, Sends
  <2>6. TypeOK'
    BY SMTT(30), <2>2, <2>4, <2>5 DEF IInv, TypeOK, callVars, readerVars, lifeVars
  <2>7. IdsDistinct' /\ HandlersExact' /\ EndsOnce' /\ OwnAnswer' /\ ReaderNeverBlocks'
    BY <1>2, <2>5 DEF IInv, EndsOnce, readerVars, lifeVars, Dead
  <2>8. r.of \notin answered /\ r.id = id[r.of] /\ pc[r.of] \notin {"idle", "registered"}
    BY DEF IInv, Provenance
  <2>9. Provenance'
    <3>1. \A q \in inbox' : q.of # r.of /\ q \in inbox
      <4> SUFFICES ASSUME NEW q \in inbox, q # r PROVE q.of # r.of
        BY <2>5
      <4>1. q.id = id[q.of] /\ q \in [id : Ids, of : Calls]
        BY DEF IInv, Provenance, TypeOK
      <4> QED
        BY <2>2, <2>8, <4>1
    <3>3. \A n \in DOMAIN out' : out'[n].type = "garbage" => garbled'
      BY <2>3, <2>4, <2>5 DEF IInv, Provenance, lifeVars
    <3>2. \A n \in DOMAIN out' : out'[n].type = "response" => IsAnswer(out[n])'
      BY SMTT(30), <2>3, <2>4, <2>5, <2>8 DEF IInv, Provenance, IsAnswer, callVars
    <3> QED
      BY SMTT(30), <2>5, <2>8, <3>1, <3>2, <3>3 DEF IInv, Provenance, IsAnswer, callVars, readerVars, lifeVars
  <2>10. box[r.of] = Nothing /\ (reader = "deliver" => held.of # r.of)
    BY <2>2, <2>8 DEF IInv, Provenance, IsAnswer
  <2>11. \A n \in DOMAIN out : out[n].type = "response" => out[n].of # r.of
    BY <2>8 DEF IInv, Provenance, IsAnswer
  <2>12. AtMostOnce'
    BY SMTT(30), <2>3, <2>4, <2>5, <2>10, <2>11 DEF IInv, AtMostOnce, callVars, readerVars
  <2> QED
    BY <2>6, <2>7, <2>9, <2>12 DEF IInv
<1>5. ASSUME ServerAsks PROVE IInv'
  <2>2. asks + 1 \in 1..MaxSent /\ asks' \in 0..MaxSent
    BY <1>5 DEF ServerAsks, IInv, TypeOK
  <2>3. PICK m \in Messages : m.type \notin {"response", "garbage"} /\ Sends(m)
    <3>1. [type |-> "ask", id |-> asks + 1] \in Messages
      BY <2>2 DEF Messages
    <3> QED
      BY <1>5, <3>1 DEF ServerAsks
  <2>4. UNCHANGED <<callVars, handlers, box, readerVars, lifeVars, inbox, answered, notes, replies>>
    BY <1>5 DEF ServerAsks
  <2>5. TypeOK'
    BY SMTT(30), <1>1, <2>2, <2>3, <2>4 DEF IInv, TypeOK, callVars, readerVars, lifeVars
  <2>6. IdsDistinct' /\ HandlersExact' /\ EndsOnce' /\ OwnAnswer' /\ ReaderNeverBlocks'
    BY <1>2, <2>4 DEF IInv, EndsOnce, readerVars, lifeVars, Dead
  <2>7. Provenance' /\ AtMostOnce'
    BY <1>3, <2>3, <2>4 DEF lifeVars
  <2> QED
    BY <2>5, <2>6, <2>7 DEF IInv
<1>6. ASSUME ServerNotifies PROVE IInv'
  <2>1. PICK m \in Messages : m.type = "note" /\ Sends(m)
    <3>1. [type |-> "note"] \in Messages
      BY DEF Messages
    <3> QED
      BY <1>6, <3>1 DEF ServerNotifies
  <2>2. /\ UNCHANGED <<callVars, handlers, box, readerVars, lifeVars, inbox, answered, asks, replies>>
        /\ notes' \in 0..MaxSent
    BY <1>6 DEF ServerNotifies, IInv, TypeOK
  <2>3. TypeOK'
    BY SMTT(30), <1>1, <2>1, <2>2 DEF IInv, TypeOK, callVars, readerVars, lifeVars
  <2>4. IdsDistinct' /\ HandlersExact' /\ EndsOnce' /\ OwnAnswer' /\ ReaderNeverBlocks'
    BY <1>2, <2>2 DEF IInv, EndsOnce, readerVars, lifeVars, Dead
  <2>5. Provenance' /\ AtMostOnce'
    BY <1>3, <2>1, <2>2 DEF lifeVars
  <2> QED
    BY <2>3, <2>4, <2>5 DEF IInv
<1>8. ASSUME ServerGarbles PROVE IInv'
  <2>1. PICK m \in Messages : m.type = "garbage" /\ Sends(m)
    <3>1. [type |-> "garbage"] \in Messages
      BY DEF Messages
    <3> QED
      BY <1>8, <3>1 DEF ServerGarbles
  <2>2. /\ UNCHANGED <<callVars, handlers, box, readerVars, closed, server, inbox, answered, asks,
                       replies>>
        /\ garbled' \in BOOLEAN /\ garbled'
    BY Zenon, <1>8 DEF ServerGarbles
  <2>6. notes' \in 0..MaxSent
    BY <1>8 DEF ServerGarbles, IInv, TypeOK
  <2>3. TypeOK'
    BY SMTT(30), <1>1, <2>1, <2>2, <2>6 DEF IInv, TypeOK, callVars, readerVars, lifeVars
  <2>4. IdsDistinct' /\ HandlersExact' /\ EndsOnce' /\ OwnAnswer' /\ ReaderNeverBlocks'
    BY <1>2, <2>2 DEF IInv, EndsOnce, readerVars, lifeVars, Dead
  <2>5. Provenance' /\ AtMostOnce'
    BY <1>3, <2>1, <2>2 DEF lifeVars
  <2> QED
    BY <2>3, <2>4, <2>5 DEF IInv
<1>7. ASSUME ServerDies PROVE IInv'
  <2>1. /\ UNCHANGED <<callVars, handlers, box, readerVars, closed, garbled, answered, out, asks,
                       notes, replies>>
        /\ server' = "dead" /\ inbox' = {}
    BY <1>7 DEF ServerDies
  <2>3. TypeOK'
    BY <2>1 DEF IInv, TypeOK, callVars, readerVars
  <2>4. IdsDistinct' /\ HandlersExact' /\ EndsOnce' /\ OwnAnswer' /\ ReaderNeverBlocks'
    BY <1>2, <2>1 DEF Dead
  <2>5. Provenance' /\ AtMostOnce'
    BY <2>1 DEF IInv, Provenance, AtMostOnce, IsAnswer, callVars, readerVars
  <2> QED
    BY <2>3, <2>4, <2>5 DEF IInv
<1>9. ASSUME ServerGoesDeaf \/ CloseStdin PROVE IInv'
  <2>1. /\ UNCHANGED <<callVars, handlers, box, readerVars, garbled, inbox, answered, out, asks,
                       notes, replies>>
        /\ closed' \in BOOLEAN /\ server' \in {server, "deaf"}
        /\ Dead => Dead'
    BY Zenon, <1>9 DEF ServerGoesDeaf, CloseStdin, Listens, Dead, IInv, TypeOK
  <2>3. TypeOK'
    BY <2>1 DEF IInv, TypeOK, callVars, readerVars
  <2>4. IdsDistinct' /\ HandlersExact' /\ EndsOnce' /\ OwnAnswer' /\ ReaderNeverBlocks'
    BY <1>2, <2>1 DEF IInv, EndsOnce, readerVars
  <2>5. Provenance' /\ AtMostOnce'
    BY <2>1 DEF IInv, Provenance, AtMostOnce, IsAnswer, callVars, readerVars
  <2> QED
    BY <2>3, <2>4, <2>5 DEF IInv
<1> QED
  BY <1>4, <1>5, <1>6, <1>7, <1>8, <1>9 DEF ServerStep

LEMMA StepIInv == IInv /\ [Next]_vars => IInv'
<1> SUFFICES ASSUME IInv, [Next]_vars PROVE IInv'
  OBVIOUS
<1>1. CASE Next
  BY <1>1, CallKeeps, ReaderKeeps, ServerKeeps DEF Next
<1>2. CASE UNCHANGED vars
  BY <1>2 DEF vars, callVars, readerVars, lifeVars, serverVars, Dead, IInv, TypeOK, IdsDistinct, HandlersExact,
     Provenance, AtMostOnce, EndsOnce, OwnAnswer, ReaderNeverBlocks, IsAnswer
<1> QED
  BY <1>1, <1>2

(* The inductive invariant: ids are fresh, an answer is in one place, the  *)
(* map of handlers is exact (transport.go:182-224).                        *)
THEOREM Inductive == Spec => []IInv
BY InitIInv, StepIInv, PTL DEF Spec

(* Every variable keeps its type.                                          *)
THEOREM TypeCorrect == Spec => []TypeOK
BY Inductive, PTL DEF IInv

(* A call returns the answer to its own request, however many others wait, *)
(* have been cancelled or have died (transport.go:183-196, 235).           *)
THEOREM AnswersAreOwn == Spec => []OwnAnswer
BY Inductive, PTL DEF IInv

(* The reader always finds room in the channel it sends to.                *)
THEOREM ReaderIsFree == Spec => []ReaderNeverBlocks
BY Inductive, PTL DEF IInv

(* The map of handlers is exactly the calls under way.                     *)
THEOREM NoLeak == Spec => []HandlersExact
BY Inductive, PTL DEF IInv

(***************************************************************************)
(* The server's requests: while it reads the replies, those it has made    *)
(* and the reader has not taken are in the pipe, each once, in the order   *)
(* of their ids, and the reader holds the one that comes before them.      *)
(***************************************************************************)
IsAsk(m) == m.type = "ask"

Active == Listens /\ reader # "gone"

Taken == Len(replies) + (IF reader = "reply" THEN 1 ELSE 0)

Outstanding ==
  /\ Taken <= asks
  /\ reader = "reply" => held.id = Taken
  /\ \A n \in DOMAIN out : IsAsk(out[n]) => out[n].id > Taken /\ out[n].id <= asks
  /\ \A m, n \in DOMAIN out : IsAsk(out[m]) /\ IsAsk(out[n]) /\ m < n => out[m].id < out[n].id
  /\ \A k \in 1..asks : k > Taken => \E n \in DOMAIN out : IsAsk(out[n]) /\ out[n].id = k

AsksInv == RepliesInOrder /\ (Active => Outstanding)

LEMMA InitAsks == Init => AsksInv
BY DEF Init, AsksInv, Outstanding, Taken, RepliesInOrder

(* How many requests the reader has taken is a number.                     *)
LEMMA TakenNat ==
  ASSUME IInv
  PROVE  Taken \in Nat /\ Len(replies) \in Nat /\ asks \in Nat
BY DEF IInv, TypeOK, Taken

(* Nothing that moves neither a request nor a reply matters.               *)
LEMMA AsksUntouched ==
  ASSUME AsksInv, UNCHANGED <<out, asks, replies>>, Active' => Active,
         Active' => UNCHANGED <<Taken, held>> /\ (reader' = "reply" => reader = "reply")
  PROVE  AsksInv'
<1>1. RepliesInOrder'
  BY DEF AsksInv, RepliesInOrder
<1>2. ASSUME Active' PROVE Outstanding'
  BY <1>2 DEF AsksInv, Outstanding, IsAsk
<1> QED
  BY <1>1, <1>2 DEF AsksInv

(* The reader takes a message that is no request.                          *)
LEMMA AsksRead ==
  ASSUME IInv, AsksInv, out # <<>>, out' = Tail(out), ~IsAsk(Head(out)), UNCHANGED <<asks, replies, Taken>>,
         Active' => Active, reader' # "reply"
  PROVE  AsksInv'
<1>1. /\ Head(out) = out[1]
      /\ \A n \in DOMAIN out' : n + 1 \in DOMAIN out /\ n \in Nat /\ out'[n] = out[n + 1]
  BY TailFacts DEF IInv, TypeOK
<1>2. \A n \in DOMAIN out : n # 1 => n - 1 \in DOMAIN out' /\ out'[n - 1] = out[n]
  BY DEF IInv, TypeOK
<1>3. RepliesInOrder'
  BY DEF AsksInv, RepliesInOrder
<1>6. Active' => Outstanding
  BY DEF AsksInv
<1>7. Taken \in Nat /\ asks \in Nat /\ Taken' = Taken /\ asks' = asks
  BY TakenNat
<1>4. ASSUME Active'
      PROVE  /\ Taken' <= asks' /\ (reader' = "reply" => held'.id = Taken')
             /\ \A n \in DOMAIN out' : IsAsk(out'[n]) => out'[n].id > Taken' /\ out'[n].id <= asks'
             /\ \A m, n \in DOMAIN out' : IsAsk(out'[m]) /\ IsAsk(out'[n]) /\ m < n => out'[m].id < out'[n].id
  BY <1>1, <1>4, <1>6, <1>7 DEF Outstanding
<1>5. ASSUME Active', NEW k \in 1..asks', k > Taken'
      PROVE  \E n \in DOMAIN out' : IsAsk(out'[n]) /\ out'[n].id = k
  <2>1. PICK n \in DOMAIN out : IsAsk(out[n]) /\ out[n].id = k
    BY <1>5, <1>6, <1>7 DEF Outstanding
  <2> QED
    BY <1>1, <1>2, <2>1
<1> QED
  BY <1>3, <1>4, <1>5 DEF AsksInv, Outstanding, IsAsk

(* It takes a request: it is the first one that has not been taken, for    *)
(* that one is in the pipe, and none before it.                            *)
LEMMA AsksTaken ==
  ASSUME IInv, AsksInv, ReadAsk
  PROVE  AsksInv'
<1>1. /\ Head(out) = out[1] /\ 1 \in DOMAIN out /\ IsAsk(out[1]) /\ out' = Tail(out)
      /\ \A n \in DOMAIN out' : n + 1 \in DOMAIN out /\ n \in Nat /\ out'[n] = out[n + 1]
  BY TailFacts DEF IInv, TypeOK, ReadAsk, Reads, IsAsk
<1>2. \A n \in DOMAIN out : n # 1 => n - 1 \in DOMAIN out' /\ out'[n - 1] = out[n]
  BY <1>1 DEF IInv, TypeOK
<1>3. \A n \in DOMAIN out : n \in Nat /\ n >= 1 /\ (IsAsk(out[n]) => out[n].id \in Nat)
  <2>1. out \in Seq(Messages) /\ \A m \in Messages : IsAsk(m) => m.id \in Nat
    BY DEF IInv, TypeOK, Messages, Responses, IsAsk
  <2> QED
    BY <2>1
<1>4. /\ Taken \in Nat /\ asks \in Nat /\ asks' = asks /\ replies' = replies /\ held' = out[1]
      /\ Taken' = Taken + 1 /\ reader' = "reply" /\ (Active' => Active)
  BY <1>1, TakenNat DEF IInv, TypeOK, ReadAsk, Reads, Taken, Active, Listens, lifeVars
<1>5. RepliesInOrder'
  BY <1>4 DEF AsksInv, RepliesInOrder
<1>6. ASSUME Active' PROVE Outstanding'
  <2>1. out[1].id = Taken + 1 /\ out[1].id <= asks
    <3>1. out[1].id > Taken /\ out[1].id <= asks
      BY <1>1, <1>4, <1>6 DEF AsksInv, Outstanding
    <3>2. Taken + 1 \in 1..asks
      BY <1>1, <1>3, <1>4, <3>1
    <3>3. PICK n \in DOMAIN out : IsAsk(out[n]) /\ out[n].id = Taken + 1
      BY <1>4, <1>6, <3>2 DEF AsksInv, Outstanding
    <3>4. n # 1 => out[1].id < out[n].id
      BY <1>1, <1>3, <1>4, <1>6, <3>3 DEF AsksInv, Outstanding
    <3> QED
      BY <1>1, <1>3, <1>4, <3>1, <3>3, <3>4
  <2>5. \A n \in DOMAIN out' : IsAsk(out'[n]) => out'[n].id > Taken' /\ out'[n].id <= asks'
    <3>1. ASSUME NEW n \in DOMAIN out, n # 1, IsAsk(out[n])
          PROVE  out[n].id > Taken + 1 /\ out[n].id <= asks
      <4>1. 1 < n
        BY <1>3, <3>1
      <4>2. out[1].id < out[n].id /\ out[n].id <= asks
        BY <1>1, <1>4, <1>6, <3>1, <4>1 DEF AsksInv, Outstanding
      <4> QED
        BY <2>1, <4>2
    <3>2. \A n \in DOMAIN out' : n + 1 # 1
      BY <1>1
    <3> QED
      BY <1>1, <1>4, <3>1, <3>2
  <2>6. \A m, n \in DOMAIN out' : IsAsk(out'[m]) /\ IsAsk(out'[n]) /\ m < n => out'[m].id < out'[n].id
    BY <1>1, <1>4, <1>6 DEF AsksInv, Outstanding
  <2>7. ASSUME NEW k \in 1..asks', k > Taken'
        PROVE  \E n \in DOMAIN out' : IsAsk(out'[n]) /\ out'[n].id = k
    <3>1. k \in 1..asks /\ k > Taken /\ k # Taken + 1
      BY <1>4, <2>7
    <3>2. PICK n \in DOMAIN out : IsAsk(out[n]) /\ out[n].id = k
      BY <1>4, <1>6, <3>1 DEF AsksInv, Outstanding
    <3>3. n # 1
      BY <2>1, <3>1, <3>2
    <3> QED
      BY <1>2, <3>2, <3>3
  <2> QED
    BY <1>4, <2>1, <2>5, <2>6, <2>7 DEF Outstanding, IsAsk
<1> QED
  BY <1>5, <1>6 DEF AsksInv

(* It writes the reply: the number of requests it has taken stays, and the *)
(* reply is the next one in order.                                         *)
LEMMA AsksReplied ==
  ASSUME IInv, AsksInv, Reply
  PROVE  AsksInv'
<1>1. reader = "reply" /\ reader' = "read" /\ UNCHANGED <<out, asks, closed, server>> /\ (Active' => Active)
  BY DEF Reply, serverVars, lifeVars, Active, Listens
<1>2. CASE ~Listens
  BY <1>1, <1>2 DEF Reply, AsksInv, RepliesInOrder, Active, Listens
<1>3. CASE Listens
  <2>1. Outstanding /\ held.id = Len(replies) + 1
    BY <1>1, <1>3, TakenNat DEF AsksInv, Active, Outstanding, Taken
  <2>2. replies' = Append(replies, Len(replies) + 1) /\ replies \in Seq(1..MaxSent) /\ Len(replies) \in Nat
    BY <1>3, <2>1, TakenNat DEF Reply, IInv, TypeOK
  <2>3. Len(replies') = Len(replies) + 1 /\ \A i \in 1..Len(replies') : replies'[i] = IF i = Len(replies) + 1 THEN i ELSE replies[i]
    BY <2>2
  <2>4. RepliesInOrder'
    BY <2>2, <2>3 DEF AsksInv, RepliesInOrder
  <2>5. Taken' = Taken
    BY <1>1, <2>2, <2>3 DEF Taken
  <2>6. Outstanding'
    BY <1>1, <2>1, <2>5 DEF Outstanding, IsAsk
  <2> QED
    BY <2>4, <2>6 DEF AsksInv
<1> QED
  BY <1>2, <1>3

(* The server writes: a message that is no request, or its next request.   *)
LEMMA AsksWritten ==
  ASSUME IInv, AsksInv, NEW m \in Messages, Sends(m), UNCHANGED <<closed, server, reader, held, replies>>,
         IF IsAsk(m) THEN asks' = asks + 1 /\ m.id = asks + 1 ELSE asks' = asks
  PROVE  AsksInv'
<1>0. RepliesInOrder' /\ (Active' => Active)
  BY DEF AsksInv, RepliesInOrder, Active, Listens
<1> SUFFICES ASSUME Active PROVE Outstanding'
  BY <1>0 DEF AsksInv
<1>1. /\ out \in Seq(Messages) /\ out' \in Seq(Messages) /\ out' = Append(out, m)
      /\ \A n \in DOMAIN out' : \/ n \in DOMAIN out /\ out'[n] = out[n]
                                \/ n \notin DOMAIN out /\ n = Len(out) + 1 /\ out'[n] = m
  BY AppendFacts DEF IInv, TypeOK, Sends, Active
<1>2. /\ \A n \in DOMAIN out : n \in DOMAIN out' /\ out'[n] = out[n] /\ n \in Nat /\ n <= Len(out)
      /\ Len(out) + 1 \in DOMAIN out' /\ out'[Len(out) + 1] = m /\ Len(out) \in Nat
  BY <1>1
<1>3. Taken \in Nat /\ Taken' = Taken /\ asks \in Nat /\ asks' \in Nat /\ asks <= asks'
  BY TakenNat DEF Taken
<1>4. \A n \in DOMAIN out : IsAsk(out[n]) => out[n].id \in Nat /\ out[n].id > Taken /\ out[n].id <= asks
  <2>1. \A k \in Messages : IsAsk(k) => k.id \in Nat
    BY DEF Messages, Responses, IsAsk
  <2> QED
    BY <1>1, <2>1 DEF AsksInv, Outstanding
<1>5. Taken' <= asks' /\ (reader' = "reply" => held'.id = Taken')
  BY <1>3 DEF AsksInv, Outstanding
<1>6. \A n \in DOMAIN out' : IsAsk(out'[n]) => out'[n].id > Taken' /\ out'[n].id <= asks'
  <2>1. Taken <= asks
    BY DEF AsksInv, Outstanding
  <2> QED
    BY <1>1, <1>3, <1>4, <2>1
<1>7. ASSUME NEW k \in DOMAIN out', NEW n \in DOMAIN out', IsAsk(out'[k]), IsAsk(out'[n]), k < n
      PROVE  out'[k].id < out'[n].id
  <2>1. CASE n \in DOMAIN out
    <3>1. k \in DOMAIN out
      BY <1>1, <1>2, <1>7, <2>1
    <3> QED
      BY <1>1, <1>2, <1>7, <2>1, <3>1 DEF AsksInv, Outstanding
  <2>2. CASE n \notin DOMAIN out
    <3>1. n = Len(out) + 1 /\ out'[n] = m /\ k \in DOMAIN out /\ out'[k] = out[k]
      BY <1>1, <1>2, <1>7, <2>2
    <3> QED
      BY <1>3, <1>4, <1>7, <3>1
  <2> QED
    BY <2>1, <2>2
<1>8. ASSUME NEW k \in 1..asks', k > Taken'
      PROVE  \E n \in DOMAIN out' : IsAsk(out'[n]) /\ out'[n].id = k
  <2>1. CASE k \in 1..asks
    <3>1. PICK n \in DOMAIN out : IsAsk(out[n]) /\ out[n].id = k
      BY <1>3, <1>8, <2>1 DEF AsksInv, Outstanding
    <3> QED
      BY <1>2, <3>1
  <2>2. CASE k \notin 1..asks
    <3>1. IsAsk(m) /\ m.id = k
      BY <1>3, <1>8, <2>2
    <3> QED
      BY <1>2, <3>1
  <2> QED
    BY <2>1, <2>2
<1> QED
  BY <1>5, <1>6, <1>7, <1>8 DEF Outstanding, IsAsk

LEMMA StepAsks == IInv /\ AsksInv /\ [Next]_vars => AsksInv'
<1> SUFFICES ASSUME IInv, AsksInv, [Next]_vars PROVE AsksInv'
  OBVIOUS
<1> USE DEF lifeVars, readerVars, serverVars, Active, Listens, Taken
<1>1. ASSUME NEW c \in Calls, CallStep(c) \/ StopCaller(c) PROVE AsksInv'
  <2>1. UNCHANGED <<out, asks, replies, reader, held, closed, server>>
    BY <1>1 DEF CallStep, Register, Send, SendFails, TakeAnswer, SeeDeath, SeeCancel, Deregister,
       StopCaller
  <2> QED
    BY <2>1, AsksUntouched
<1>2. CASE ReadResponse \/ ReadNote
  <2>1. /\ out # <<>> /\ out' = Tail(out) /\ ~IsAsk(Head(out)) /\ reader = "read"
        /\ UNCHANGED <<asks, replies, closed, server>> /\ reader' \in {"read", "deliver"}
    BY <1>2 DEF ReadResponse, ReadNote, Reads, IsAsk
  <2> QED
    BY <2>1, AsksRead
<1>3. CASE Deliver \/ ReadFails
  <2>1. reader \in {"read", "deliver"} /\ reader' \in {"read", "gone"} /\ UNCHANGED <<asks, replies, closed, server>>
    BY <1>3 DEF Deliver, ReadFails
  <2>2. CASE reader' = "gone"
    BY <2>1, <2>2 DEF AsksInv, RepliesInOrder
  <2>3. CASE reader' # "gone"
    <3>1. UNCHANGED out
      BY <1>3, <2>3 DEF Deliver, ReadFails
    <3>2. AsksInv => RepliesInOrder' /\ (Active' => Outstanding')
      BY <2>1, <2>3, <3>1 DEF AsksInv, RepliesInOrder, Outstanding, IsAsk
    <3> QED
      BY <3>2 DEF AsksInv
  <2> QED
    BY <2>2, <2>3
<1>8. CASE ServerDies \/ ServerGoesDeaf \/ CloseStdin \/ UNCHANGED vars
  <2>1. UNCHANGED <<out, asks, replies, reader, held>> /\ (Listens' => Listens)
    BY <1>8 DEF ServerDies, ServerGoesDeaf, CloseStdin, vars
  <2> QED
    BY <2>1, AsksUntouched
<1>4. CASE ReadAsk
  BY <1>4, AsksTaken
<1>9. CASE Reply
  BY <1>9, AsksReplied
<1>5. ASSUME NEW r \in inbox, ServerAnswers(r) PROVE AsksInv'
  <2>2. [type |-> "response", id |-> r.id, of |-> r.of] \in Messages
    BY DEF IInv, TypeOK, Messages, Responses
  <2> QED
    BY <1>5, <2>2, AsksWritten DEF ServerAnswers, IsAsk
<1>6. CASE ServerAsks
  <2>1. [type |-> "ask", id |-> asks + 1] \in Messages
    BY <1>6 DEF ServerAsks, IInv, TypeOK, Messages
  <2> QED
    BY <1>6, <2>1, AsksWritten DEF ServerAsks, IsAsk
<1>7. CASE ServerNotifies
  <2>1. [type |-> "note"] \in Messages
    BY DEF Messages
  <2> QED
    BY <1>7, <2>1, AsksWritten DEF ServerNotifies, IsAsk
<1>10. CASE ServerGarbles
  <2>1. [type |-> "garbage"] \in Messages
    BY DEF Messages
  <2> QED
    BY <1>10, <2>1, AsksWritten DEF ServerGarbles, IsAsk
<1> QED
  BY <1>1, <1>2, <1>3, <1>4, <1>5, <1>6, <1>7, <1>8, <1>9, <1>10 DEF Next, ReaderStep, ServerStep

(* The client answers the requests of the server once each, in the order   *)
(* they came (transport.go:119-164), whatever else is in the pipe.         *)
THEOREM RepliesOrdered == Spec => []RepliesInOrder
<1>1. Spec => []AsksInv
  BY InitAsks, StepAsks, Inductive, PTL DEF Spec
<1>2. AsksInv => RepliesInOrder
  BY DEF AsksInv
<1> QED
  BY <1>1, <1>2, PTL

(***************************************************************************)
(* Refinement: each step of Rpc is a step of the promise, or stutters.     *)
(***************************************************************************)
LEMMA InitPromise == Init => Promise!Init
<1> SUFFICES ASSUME Init PROVE Promise!Init
  OBVIOUS
<1>1. garbled = FALSE /\ closed = FALSE
  BY Zenon DEF Init
<1>2. server # "dead"
  BY DEF Init
<1>3. (server = "dead") = FALSE
  BY <1>2
<1>4. outcome = [c \in Calls |-> "none"] /\ {c \in Calls : id[c] # 0} = {} /\ answered = {} /\ stopped = {}
  BY DEF Init
<1> QED
  BY Zenon, <1>1, <1>3, <1>4 DEF Promise!Init, Dead

LEMMA StepPromise == IInv /\ [Next]_vars => [Promise!Next]_(Promise!vars)
<1> SUFFICES ASSUME IInv, [Next]_vars PROVE [Promise!Next]_(Promise!vars)
  OBVIOUS
<1> USE Kinds DEF IInv, TypeOK, IdsDistinct, Provenance, EndsOnce, IsAnswer, Ends, callVars,
        readerVars, lifeVars, serverVars, Promise!vars, Promise!causes, Dead
<1>1. ASSUME NEW c \in Calls, CallStep(c) \/ StopCaller(c) PROVE [Promise!Next]_(Promise!vars)
  <2>1. CASE Register(c)
    <3>1. Promise!Begin(c)
      BY <2>1 DEF Register, Promise!Begin
    <3> QED
      BY <3>1 DEF Promise!Next
  <2>2. CASE Send(c) \/ Deregister(c)
    BY <2>2 DEF Send, Deregister
  <2>3. CASE SendFails(c)
    <3>1. Promise!Ends(c, "unsent")
      BY <2>3 DEF SendFails, Promise!Ends
    <3> QED
      BY <3>1 DEF Promise!Next
  <2>4. CASE TakeAnswer(c)
    <3>1. Promise!Ends(c, "answer")
      BY <2>4 DEF TakeAnswer, Promise!Ends
    <3> QED
      BY <3>1 DEF Promise!Next
  <2>5. CASE SeeDeath(c)
    <3>1. Promise!Ends(c, "dead")
      BY <2>5 DEF SeeDeath, Promise!Ends
    <3> QED
      BY <3>1 DEF Promise!Next
  <2>6. CASE SeeCancel(c)
    <3>1. Promise!Ends(c, "cancelled")
      BY <2>6 DEF SeeCancel, Promise!Ends
    <3> QED
      BY <3>1 DEF Promise!Next
  <2>7. CASE StopCaller(c)
    <3>1. Promise!StopCaller(c)
      BY <2>7 DEF StopCaller, Promise!StopCaller
    <3> QED
      BY <3>1 DEF Promise!Next
  <2> QED
    BY <1>1, <2>1, <2>2, <2>3, <2>4, <2>5, <2>6, <2>7 DEF CallStep
<1>2. ASSUME ReaderStep PROVE UNCHANGED Promise!vars
  BY <1>2 DEF ReaderStep, ReadResponse, Deliver, ReadAsk, Reply, ReadNote, ReadFails
<1>3. ASSUME NEW r \in inbox, ServerAnswers(r) PROVE [Promise!Next]_(Promise!vars)
  <2>1. UNCHANGED lifeVars /\ r.of \in Calls /\ r.of \in {c \in Calls : id[c] # 0}
    BY <1>3 DEF ServerAnswers
  <2>2. Promise!Serve(r.of)
    BY <1>3, <2>1 DEF ServerAnswers, Promise!Serve
  <2> QED
    BY <2>1, <2>2 DEF Promise!Next
<1>4. ASSUME ServerAsks \/ ServerNotifies \/ ServerGoesDeaf PROVE UNCHANGED Promise!vars
  BY <1>4 DEF ServerAsks, ServerNotifies, ServerGoesDeaf, Listens, Dead
<1>5. ASSUME ServerDies PROVE Promise!GoDown
  <2>1. (server' = "dead") = TRUE
    BY <1>5 DEF ServerDies
  <2>2. Dead' = TRUE
    BY <2>1 DEF Dead
  <2> QED
    BY <1>5, <2>2 DEF ServerDies, Promise!GoDown
<1>7. ASSUME ServerGarbles PROVE Promise!Garble
  <2>1. UNCHANGED <<outcome, id, answered, stopped, closed, server>>
    BY <1>7 DEF ServerGarbles
  <2>2. garbled' = TRUE
    BY <1>7 DEF ServerGarbles
  <2>3. UNCHANGED <<outcome, {c \in Calls : id[c] # 0}, answered, stopped, Dead, closed>>
    BY <2>1
  <2> QED
    BY Zenon, <2>2, <2>3 DEF Promise!Garble
<1>8. ASSUME CloseStdin PROVE Promise!Shut
  <2>1. UNCHANGED <<outcome, id, answered, stopped, garbled, server>>
    BY <1>8 DEF CloseStdin
  <2>2. closed' = TRUE
    BY <1>8 DEF CloseStdin
  <2>3. UNCHANGED <<outcome, {c \in Calls : id[c] # 0}, answered, stopped, Dead, garbled>>
    BY <2>1
  <2> QED
    BY Zenon, <2>2, <2>3 DEF Promise!Shut
<1>6. CASE UNCHANGED vars
  BY <1>6 DEF vars, Dead
<1> QED
  BY <1>1, <1>2, <1>3, <1>4, <1>5, <1>6, <1>7, <1>8 DEF Next, ServerStep, Promise!Next

(* A call ends once, with its own answer or with an error whose cause is   *)
(* real: Rpc implements AbstractCalls.                                     *)
THEOREM ImplementsPromise == Spec => PromiseSpec
<1>1. Init => Promise!Init
  BY InitPromise
<1>2. IInv /\ [Next]_vars => [Promise!Next]_(Promise!vars)
  BY StepPromise
<1> QED
  BY <1>1, <1>2, Inductive, PTL DEF Spec, PromiseSpec, Promise!Spec
==============================================================================
