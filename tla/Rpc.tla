--------------------------------- MODULE Rpc ---------------------------------
(***************************************************************************)
(* The JSON-RPC connection of one Client: internal/lsp/transport.go.       *)
(*                                                                         *)
(* Any number of goroutines are inside Call at the same time.  Each takes  *)
(* an id, registers a channel for it, writes its request, and waits for    *)
(* the first of three events: an answer in its channel, the death of the   *)
(* server, the end of its context.  One reader goroutine, handleMessages,  *)
(* takes the server's messages from stdout one by one; it answers the      *)
(* server's own requests itself and hands each response to the channel     *)
(* registered for its id.  The server answers in any order, or never; it   *)
(* answers a request at most once, as JSON-RPC demands.  It may die, send  *)
(* what the reader cannot make sense of, and stop reading its stdin, and   *)
(* Client.Close may close stdin before the server exits.                   *)
(*                                                                         *)
(* A frame is written in one step here; module Wire has the two writes it  *)
(* takes, and what becomes of them when two goroutines write.              *)
(***************************************************************************)
EXTENDS Naturals, Sequences

CONSTANTS
  Calls,        \* the goroutines that make a call
  NoCall,       \* no entry in the handlers map
  MaxId,        \* bound on the ids given out (an int32 in the code)
  MaxSent,      \* bound on the messages the server sends of its own accord
  MaxOut        \* bound on the messages in the stdout pipe

ASSUME CallsAssumption == NoCall \notin Calls
ASSUME BoundsAssumption == MaxId \in Nat /\ MaxSent \in Nat /\ MaxOut \in Nat \ {0}

Ids == 1..MaxId

(* A response carries, besides its id, the call it really answers, with a  *)
(* result or with an error: the caller gets either.                        *)
Responses == [type : {"response"}, id : Ids, of : Calls]
Messages ==
  Responses
    \cup [type : {"ask"}, id : 1..MaxSent]
    \cup [type : {"note", "garbage"}]

VARIABLES
  nextID,     \* Client.nextID
  handlers,   \* Client.handlers: the call whose channel is registered for an id
  done,       \* Client.done is closed
  pc, id,     \* where each call is, and its id
  box,        \* the call's channel: empty, or the response sent before it was closed
  outcome,    \* how the call has ended
  got,        \* the call whose answer this call has returned
  stopped,    \* the calls whose context is done
  reader,     \* "read", "deliver" a response to target, "reply" to a request, or "gone"
  target,     \* the channel the reader has looked up
  held,       \* the message in the reader's hands
  closed,     \* Client.Close has closed the server's stdin
  server,     \* "up"; "deaf" when it reads its stdin no more, so that a write may fill
              \* the pipe and block; "dead" when the process has exited
  garbled,    \* it has sent a message that ReadMessage refuses
  inbox,      \* requests the server has not answered: id and call
  answered,   \* the calls whose request the server has answered
  out,        \* the stdout pipe
  asks, notes,\* how many requests and other messages it has sent unasked
  replies     \* the ids of the client's replies, as the server reads them

callVars == <<nextID, pc, id, outcome, got, stopped>>
readerVars == <<reader, target, held, done>>
lifeVars == <<closed, server, garbled>>
serverVars == <<lifeVars, inbox, answered, out, asks, notes>>
vars == <<callVars, handlers, box, readerVars, serverVars, replies>>

Nothing == [type |-> "note"]

TypeOK ==
  /\ nextID \in 0..MaxId
  /\ handlers \in [Ids -> Calls \cup {NoCall}]
  /\ done \in BOOLEAN
  /\ pc \in [Calls -> {"idle", "registered", "waiting", "leaving", "returned"}]
  /\ id \in [Calls -> Ids \cup {0}]
  /\ box \in [Calls -> Responses \cup {Nothing}]
  /\ outcome \in [Calls -> {"none", "answer", "dead", "unsent", "cancelled"}]
  /\ got \in [Calls -> Calls \cup {NoCall}]
  /\ stopped \subseteq Calls
  /\ reader \in {"read", "deliver", "reply", "gone"}
  /\ target \in Calls \cup {NoCall}
  /\ held \in Messages
  /\ closed \in BOOLEAN /\ server \in {"up", "deaf", "dead"} /\ garbled \in BOOLEAN
  /\ inbox \subseteq [id : Ids, of : Calls] /\ answered \subseteq Calls
  /\ out \in Seq(Messages) /\ Len(out) <= MaxOut
  /\ asks \in 0..MaxSent /\ notes \in 0..MaxSent
  /\ replies \in Seq(1..MaxSent)

Init ==
  /\ nextID = 0
  /\ handlers = [i \in Ids |-> NoCall]
  /\ done = FALSE
  /\ pc = [c \in Calls |-> "idle"]
  /\ id = [c \in Calls |-> 0]
  /\ box = [c \in Calls |-> Nothing]
  /\ outcome = [c \in Calls |-> "none"]
  /\ got = [c \in Calls |-> NoCall]
  /\ stopped = {}
  /\ reader = "read" /\ target = NoCall /\ held = Nothing
  /\ closed = FALSE /\ server = "up" /\ garbled = FALSE
  /\ inbox = {} /\ answered = {}
  /\ out = <<>>
  /\ asks = 0 /\ notes = 0
  /\ replies = <<>>

(* The server's end of stdin is open, and it reads it.                     *)
Listens == server = "up" /\ ~closed

(* A write would fill the pipe, for all one knows, and wait.               *)
MayBlock == server = "deaf" /\ ~closed

Dead == server = "dead"

(* Seeded fault: two calls may read the same value of the counter.         *)
RegisterUncounted(c) ==
  /\ pc[c] = "idle"
  /\ nextID < MaxId
  /\ nextID' \in {nextID, nextID + 1}
  /\ id' = [id EXCEPT ![c] = nextID + 1]
  /\ handlers' = [handlers EXCEPT ![nextID + 1] = c]
  /\ pc' = [pc EXCEPT ![c] = "registered"]
  /\ UNCHANGED <<box, outcome, got, stopped, readerVars, serverVars, replies>>

(***************************************************************************)
(* Call.                                                                   *)
(***************************************************************************)
Register(c) ==
  /\ pc[c] = "idle"
  /\ nextID < MaxId
  /\ nextID' = nextID + 1
  /\ id' = [id EXCEPT ![c] = nextID + 1]
  /\ handlers' = [handlers EXCEPT ![nextID + 1] = c]
  /\ pc' = [pc EXCEPT ![c] = "registered"]
  /\ UNCHANGED <<box, outcome, got, stopped, readerVars, serverVars, replies>>

(* What a server that reads no more is sent stays in the pipe.             *)
Send(c) ==
  /\ pc[c] = "registered"
  /\ Listens \/ MayBlock
  /\ inbox' = IF Listens THEN inbox \cup {[id |-> id[c], of |-> c]} ELSE inbox
  /\ pc' = [pc EXCEPT ![c] = "waiting"]
  /\ UNCHANGED <<nextID, id, handlers, box, outcome, got, stopped, readerVars,
                 lifeVars, answered, out, asks, notes, replies>>

Ends(c, o) ==
  /\ outcome' = [outcome EXCEPT ![c] = o]
  /\ pc' = [pc EXCEPT ![c] = "leaving"]

(* The pipe is broken, or Close has closed it.  There is no test of done   *)
(* before the write.                                                       *)
SendFails(c) ==
  /\ pc[c] = "registered"
  /\ Dead \/ closed
  /\ Ends(c, "unsent")
  /\ UNCHANGED <<nextID, id, handlers, box, got, stopped, readerVars, serverVars, replies>>

TakeAnswer(c) ==
  /\ pc[c] = "waiting"
  /\ box[c] # Nothing
  /\ Ends(c, "answer")
  /\ got' = [got EXCEPT ![c] = box[c].of]
  /\ UNCHANGED <<nextID, id, handlers, box, stopped, readerVars, serverVars, replies>>

SeeDeath(c) ==
  /\ pc[c] = "waiting"
  /\ done
  /\ Ends(c, "dead")
  /\ UNCHANGED <<nextID, id, handlers, box, got, stopped, readerVars, serverVars, replies>>

(* Seeded fault: the death of the server is reported as the caller's doing.*)
SeeCancelEarly(c) ==
  /\ pc[c] = "waiting"
  /\ c \in stopped \/ done
  /\ Ends(c, "cancelled")
  /\ UNCHANGED <<nextID, id, handlers, box, got, stopped, readerVars, serverVars, replies>>

SeeCancel(c) ==
  /\ pc[c] = "waiting"
  /\ c \in stopped
  /\ Ends(c, "cancelled")
  /\ UNCHANGED <<nextID, id, handlers, box, got, stopped, readerVars, serverVars, replies>>

(* The deferred delete of the registration.                                *)
Deregister(c) ==
  /\ pc[c] = "leaving"
  /\ handlers' = [handlers EXCEPT ![id[c]] = NoCall]
  /\ pc' = [pc EXCEPT ![c] = "returned"]
  /\ UNCHANGED <<nextID, id, box, outcome, got, stopped, readerVars, serverVars, replies>>

StopCaller(c) ==
  /\ c \notin stopped /\ pc[c] # "returned"
  /\ stopped' = stopped \cup {c}
  /\ UNCHANGED <<nextID, pc, id, outcome, got, handlers, box, readerVars, serverVars, replies>>

(***************************************************************************)
(* handleMessages.                                                         *)
(***************************************************************************)
Reads(type) ==
  /\ reader = "read"
  /\ out # <<>>
  /\ Head(out).type = type
  /\ out' = Tail(out)

(* The reader looks the channel up under the read lock, and sends after it *)
(* has given the lock back.                                                *)
ReadResponse ==
  /\ Reads("response")
  /\ target' = handlers[Head(out).id]
  /\ \/ /\ handlers[Head(out).id] # NoCall
        /\ reader' = "deliver"
        /\ held' = Head(out)
     \/ /\ handlers[Head(out).id] = NoCall   \* nobody waits any more: dropped
        /\ UNCHANGED <<reader, held>>
  /\ UNCHANGED <<callVars, handlers, box, done, lifeVars, inbox, answered, asks, notes, replies>>

Deliver ==
  /\ reader = "deliver"
  /\ box[target] = Nothing
  /\ box' = [box EXCEPT ![target] = held]
  /\ reader' = "read" /\ target' = NoCall /\ held' = Nothing
  /\ UNCHANGED <<callVars, handlers, done, serverVars, replies>>

(* Seeded fault: the newest of two waiting requests is answered first.     *)
ReadAskAhead ==
  /\ reader = "read"
  /\ Len(out) > 1 /\ out[2].type = "ask"
  /\ out' = <<out[1]>> \o Tail(Tail(out))
  /\ reader' = "reply" /\ held' = out[2]
  /\ UNCHANGED <<callVars, handlers, box, target, done, lifeVars, inbox, answered, asks, notes,
                 replies>>

(* The handler runs in the reader; an unknown method is answered too, with *)
(* an error.                                                               *)
ReadAsk ==
  /\ Reads("ask")
  /\ reader' = "reply" /\ held' = Head(out)
  /\ UNCHANGED <<callVars, handlers, box, target, done, lifeVars, inbox, answered, asks, notes,
                 replies>>

(* The reader writes the reply itself, and reads nothing until the write   *)
(* has returned.  That it failed is only logged.                           *)
Reply ==
  /\ reader = "reply"
  /\ replies' = IF Listens THEN Append(replies, held.id) ELSE replies
  /\ reader' = "read" /\ held' = Nothing
  /\ UNCHANGED <<callVars, handlers, box, target, done, serverVars>>

(* The handler gets a goroutine of its own (modules Diagnostics, Progress).*)
ReadNote ==
  /\ Reads("note")
  /\ UNCHANGED <<callVars, handlers, box, readerVars, lifeVars, inbox, answered, asks, notes,
                 replies>>

(* Seeded fault: the reader ends and does not close done.                  *)
ReadFailsSilently ==
  /\ reader = "read"
  /\ Dead \/ (out # <<>> /\ Head(out).type = "garbage")
  /\ out' = <<>>
  /\ reader' = "gone"
  /\ UNCHANGED <<callVars, handlers, box, target, held, done, lifeVars, inbox, answered, asks,
                 notes, replies>>

(* Once the process is gone a read fails, at the latest at the end of the  *)
(* pipe, before that when Client.Close has waited and closed the pipe.  It *)
(* also fails on a header or a body that cannot be parsed, while the       *)
(* server lives: the reader ends all the same.                             *)
ReadFails ==
  /\ reader = "read"
  /\ Dead \/ (out # <<>> /\ Head(out).type = "garbage")
  /\ out' = <<>>
  /\ reader' = "gone"
  /\ done' = TRUE
  /\ UNCHANGED <<callVars, handlers, box, target, held, lifeVars, inbox, answered, asks, notes,
                 replies>>

(***************************************************************************)
(* The server.                                                             *)
(***************************************************************************)
(* What it sends when the reader has ended is read by nobody.              *)
Sends(m) ==
  /\ ~Dead
  /\ Len(out) < MaxOut
  /\ out' = IF reader = "gone" THEN out ELSE Append(out, m)

ServerAnswers(r) ==
  /\ r \in inbox
  /\ Sends([type |-> "response", id |-> r.id, of |-> r.of])
  /\ inbox' = inbox \ {r}
  /\ answered' = answered \cup {r.of}
  /\ UNCHANGED <<callVars, handlers, box, readerVars, lifeVars, asks, notes, replies>>

ServerAsks ==
  /\ asks + notes < MaxSent
  /\ asks' = asks + 1
  /\ Sends([type |-> "ask", id |-> asks + 1])
  /\ UNCHANGED <<callVars, handlers, box, readerVars, lifeVars, inbox, answered, notes, replies>>

ServerNotifies ==
  /\ asks + notes < MaxSent
  /\ notes' = notes + 1
  /\ Sends([type |-> "note"])
  /\ UNCHANGED <<callVars, handlers, box, readerVars, lifeVars, inbox, answered, asks, replies>>

ServerGarbles ==
  /\ asks + notes < MaxSent
  /\ notes' = notes + 1
  /\ Sends([type |-> "garbage"])
  /\ garbled' = TRUE
  /\ UNCHANGED <<callVars, handlers, box, readerVars, closed, server, inbox, answered, asks,
                 replies>>

ServerGoesDeaf ==
  /\ Listens
  /\ server' = "deaf"
  /\ UNCHANGED <<callVars, handlers, box, readerVars, closed, garbled, inbox, answered, out,
                 asks, notes, replies>>

ServerDies ==
  /\ ~Dead
  /\ server' = "dead"
  /\ inbox' = {}
  /\ UNCHANGED <<callVars, handlers, box, readerVars, closed, garbled, answered, out,
                 asks, notes, replies>>

(* Client.Close, up to its wait for the process.                           *)
CloseStdin ==
  /\ ~closed /\ ~Dead
  /\ closed' = TRUE
  /\ UNCHANGED <<callVars, handlers, box, readerVars, server, garbled, inbox, answered, out,
                 asks, notes, replies>>

CallStep(c) ==
  \/ Register(c) \/ Send(c) \/ SendFails(c) \/ TakeAnswer(c) \/ SeeDeath(c) \/ SeeCancel(c)
  \/ Deregister(c)

ReaderStep == ReadResponse \/ Deliver \/ ReadAsk \/ Reply \/ ReadNote \/ ReadFails

ServerStep ==
  \/ \E r \in inbox : ServerAnswers(r)
  \/ ServerAsks \/ ServerNotifies \/ ServerGarbles \/ ServerGoesDeaf \/ ServerDies

Next ==
  \/ \E c \in Calls : CallStep(c) \/ StopCaller(c)
  \/ ReaderStep
  \/ ServerStep
  \/ CloseStdin

Spec == Init /\ [][Next]_vars

(* The goroutines of the client run when they can; a write to a server     *)
(* that reads no more need not return.  The server owes nothing.           *)
FairSpec ==
  /\ Spec
  /\ \A c \in Calls : WF_vars((pc[c] = "registered" => ~MayBlock) /\ CallStep(c))
  /\ WF_vars((reader = "reply" => ~MayBlock) /\ ReaderStep)

(***************************************************************************)
(* Properties.                                                             *)
(***************************************************************************)

(* A call returns the answer to its own request, although calls before it  *)
(* were cancelled and their answers still arrive (transport.go:183-196).   *)
OwnAnswer == \A c \in Calls : got[c] \in {NoCall, c}

(* The reader, which sends on a channel after giving the lock back, meets  *)
(* an empty and open one: it neither blocks nor panics, so that one slow   *)
(* or cancelled call never stops the others.                               *)
ReaderNeverBlocks == reader = "deliver" => target \in Calls /\ box[target] = Nothing

(* The map of handlers holds the calls that are under way, each under its  *)
(* own id: nothing is overwritten and nothing is left behind.              *)
HandlersExact ==
  \A c \in Calls, i \in Ids :
    handlers[i] = c <=> id[c] = i /\ pc[c] \in {"registered", "waiting", "leaving"}

(* The server's requests are answered once each, in the order they came.   *)
RepliesInOrder == \A n \in 1..Len(replies) : replies[n] = n

(* The abstract promise of Call.                                           *)
Promise == INSTANCE AbstractCalls
             WITH begun <- {c \in Calls : id[c] # 0},
                  served <- answered,
                  down <- Dead,
                  shut <- closed

PromiseSpec == Promise!Spec

(* Whatever else happens, a call that waits returns once its context is    *)
(* done or the server is dead (comment at transport.go:233); and once its  *)
(* answer, or what ends the reader, has been sent, unless the reader is    *)
(* kept in a reply by a server that reads no more.                         *)
CallsReturn ==
  \A c \in Calls :
    (pc[c] = "waiting" /\ (c \in stopped \/ Dead \/ c \in answered \/ garbled)) ~>
      (pc[c] = "returned" \/ (reader = "reply" /\ MayBlock /\ c \notin stopped))

(***************************************************************************)
(* The inductive invariant behind these: ids are fresh, and the answer of  *)
(* a call is in one place at a time.                                       *)
(***************************************************************************)
IdsDistinct ==
  \A c \in Calls :
    /\ id[c] <= nextID
    /\ pc[c] = "idle" <=> id[c] = 0
    /\ \A d \in Calls : id[c] = id[d] /\ id[c] # 0 => c = d

IsAnswer(m) == m.of \in answered /\ m.id = id[m.of]

Provenance ==
  /\ \A r \in inbox : r.of \notin answered /\ r.id = id[r.of]
  /\ \A r \in inbox : pc[r.of] \notin {"idle", "registered"}
  /\ \A c \in answered : pc[c] \notin {"idle", "registered"}
  /\ \A n \in DOMAIN out : out[n].type = "response" => IsAnswer(out[n])
  /\ reader = "deliver" => held \in Responses /\ IsAnswer(held) /\ target = held.of
  /\ reader = "reply" => held.type = "ask"
  /\ \A n \in DOMAIN out : out[n].type = "garbage" => garbled
  /\ \A c \in Calls : box[c] # Nothing => box[c].of = c /\ c \in answered

AtMostOnce ==
  /\ \A n \in DOMAIN out : out[n].type = "response" =>
       /\ box[out[n].of] = Nothing
       /\ reader = "deliver" => out[n].of # held.of
       /\ \A k \in DOMAIN out : out[k].type = "response" /\ out[k].of = out[n].of => k = n
  /\ reader = "deliver" => box[held.of] = Nothing

EndsOnce ==
  /\ \A c \in Calls : pc[c] \in {"idle", "registered", "waiting"} => outcome[c] = "none"
  /\ done => Dead \/ garbled

IInv ==
  /\ TypeOK /\ IdsDistinct /\ HandlersExact /\ Provenance /\ AtMostOnce /\ EndsOnce
  /\ OwnAnswer /\ ReaderNeverBlocks
==============================================================================
