---------------------------------- MODULE Wire ----------------------------------
(***************************************************************************)
(* The bytes of the connection: WriteMessage (internal/lsp/transport.go)   *)
(* writes the header of a frame and then its content, and no lock is held  *)
(* over the two.  Each write is whole (the file takes care of that), so    *)
(* the pipe is a sequence of headers and contents.  The goroutines that    *)
(* write are tool handlers (batch_hover and the synthesis of outgoing      *)
(* calls have five of them at a time), the watcher's timers, and the       *)
(* reader, which answers the server's requests.                            *)
(*                                                                         *)
(* Rpc writes a frame in one step.  It describes the connection as long as *)
(* the server has not lost the frames in the sense of this module.         *)
(***************************************************************************)
EXTENDS Naturals, Sequences

CONSTANTS
  Writers,     \* goroutines that write to one server
  MaxFrames    \* bound on the frames each of them writes

VARIABLES
  pipe,    \* what has been written and not read: headers and contents
  pc,      \* where each goroutine is in WriteMessage
  frames,  \* how many frames it has begun
  server,  \* "between" frames, "content" when it has read a header, "lost" or "dead"
  due,     \* the frame whose header the server has read
  heard    \* the frames the server has read whole

vars == <<pipe, pc, frames, server, due, heard>>

Frames == Writers \X (1..MaxFrames)
Parts == [part : {"header", "content"}, of : Frames]
Mine(w) == <<w, frames[w]>>

Init ==
  /\ pipe = <<>> /\ heard = {} /\ due = {} /\ server = "between"
  /\ pc = [w \in Writers |-> "idle"] /\ frames = [w \in Writers |-> 0]

Goto(w, from, to) == pc[w] = from /\ pc' = [pc EXCEPT ![w] = to]

Begins(w) ==
  /\ Goto(w, "idle", "header") /\ frames[w] < MaxFrames
  /\ frames' = [frames EXCEPT ![w] = @ + 1]
  /\ UNCHANGED <<pipe, server, due, heard>>

Writes(part, w) ==
  /\ server # "dead"
  /\ pipe' = Append(pipe, [part |-> part, of |-> Mine(w)])

WritesHeader(w) ==
  /\ Goto(w, "header", "content") /\ Writes("header", w)
  /\ UNCHANGED <<frames, server, due, heard>>

WritesContent(w) ==
  /\ Goto(w, "content", "idle") /\ Writes("content", w)
  /\ UNCHANGED <<frames, server, due, heard>>

(* A write to a server that has exited fails, and so does WriteMessage.    *)
WriteFails(w) ==
  /\ server = "dead" /\ (Goto(w, "header", "idle") \/ Goto(w, "content", "idle"))
  /\ UNCHANGED <<pipe, frames, server, due, heard>>

(* The server reads a header and then as many bytes as it announces.       *)
ReadsHeader ==
  /\ server = "between" /\ pipe # <<>>
  /\ IF Head(pipe).part = "header"
     THEN server' = "content" /\ due' = {Head(pipe).of}
     ELSE server' = "lost" /\ UNCHANGED due
  /\ pipe' = Tail(pipe)
  /\ UNCHANGED <<pc, frames, heard>>

ReadsContent ==
  /\ server = "content" /\ pipe # <<>>
  /\ IF Head(pipe).part = "content" /\ Head(pipe).of \in due
     THEN server' = "between" /\ heard' = heard \cup due
     ELSE server' = "lost" /\ UNCHANGED heard
  /\ due' = {} /\ pipe' = Tail(pipe)
  /\ UNCHANGED <<pc, frames>>

ServerExits ==
  /\ server' = "dead"
  /\ UNCHANGED <<pipe, pc, frames, due, heard>>

Next ==
  \/ \E w \in Writers : Begins(w) \/ WritesHeader(w) \/ WritesContent(w) \/ WriteFails(w)
  \/ ReadsHeader \/ ReadsContent \/ ServerExits

Spec == Init /\ [][Next]_vars

(* Requests that are made at the same time reach the server as they were   *)
(* written: it finds the content of each frame behind its header           *)
(* (transport.go:38-44, hover.go:117).                                     *)
FramesWhole == server # "lost"
==============================================================================
