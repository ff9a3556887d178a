-------------------------------- MODULE Wire --------------------------------
(***************************************************************************)
(* Messages as bytes (src/protocol/mod.rs: write_msg, read_msg, encode,    *)
(* decode) from an attached client to the task the daemon runs for its     *)
(* connection (src/server/mod.rs: spawn_client).  A byte is a bit here,    *)
(* and a length two of them, the larger first.  The socket holds so many,  *)
(* and the client may die between any two.                                 *)
(***************************************************************************)
EXTENDS Naturals, Sequences, SequencesExt

CONSTANTS Messages,    \* payloads, some of them too long
          Greeting,    \* the hello with the daemon's PROTOCOL_VERSION
          MaxFrame,    \* MAX_FRAME_BYTES
          SocketRoom,  \* bytes the socket holds
          MaxSent      \* bound on the messages of a client

VARIABLES alive,    \* the client's end is open
          writing,  \* what is left to write of a message
          socket,   \* bytes on their way
          header,   \* what read_msg has of the length
          payload,  \* and of the payload
          task,     \* "hello", "open", or how the task ended: "eof" or "error"
          sent,     \* auxiliary: the messages begun
          got       \* what was read, the hello first

vars == <<alive, writing, socket, header, payload, task, sent, got>>

Init ==
  /\ alive = TRUE /\ writing = <<>> /\ socket = <<>>
  /\ header = <<>> /\ payload = <<>> /\ task = "hello"
  /\ sent = <<>> /\ got = <<>>

BeBytes(n) == <<n \div 2, n % 2>>
FromBe(h)  == 2 * h[1] + h[2]

\* The rest of the connection stands still.
taskVars   == <<header, payload, task, got>>
clientVars == <<alive, writing, sent>>

-----------------------------------------------------------------------------
(* The client                                                              *)

\* write_msg: a frame too long is refused before a byte of it is out, and the
\* client gives up.  A client of another version begins with what it likes.
TooLong(m) == Len(m) > MaxFrame /\ sent # <<>>

WriteMsg(m) ==
  /\ alive /\ writing = <<>> /\ Len(sent) < MaxSent /\ Len(socket) < SocketRoom
  /\ IF TooLong(m)
     THEN alive' = FALSE /\ UNCHANGED <<writing, sent, socket>>
     ELSE LET bytes == BeBytes(Len(m)) \o m
          IN  /\ socket' = Append(socket, Head(bytes))
              /\ writing' = Tail(bytes)
              /\ sent' = Append(sent, m)
              /\ UNCHANGED alive
  /\ UNCHANGED taskVars

\* write_all, as the socket takes it.
WriteByte ==
  /\ alive /\ writing # <<>> /\ Len(socket) < SocketRoom
  /\ socket' = Append(socket, Head(writing))
  /\ writing' = Tail(writing)
  /\ UNCHANGED <<alive, sent, taskVars>>

\* It detaches, or dies.
Leaves ==
  /\ alive /\ alive' = FALSE
  /\ UNCHANGED <<writing, sent, socket, taskVars>>

-----------------------------------------------------------------------------
(* The task of its connection                                              *)

Listening == task \in {"hello", "open"}

\* Mutant: an end in the middle of a length passes for a clean one.
AtBoundaryOrHeader == Len(header) < 2
AtBoundary         == header = <<>>

\* A whole message: the hello decides whether the task goes on, and its version
\* is looked at before anything else.
Reject(m) == task = "hello" /\ m # Greeting
Message(m) ==
  /\ header' = <<>> /\ payload' = <<>>
  /\ IF Reject(m) THEN task' = "error" /\ UNCHANGED got
     ELSE got' = Append(got, m) /\ task' = "open"

\* read_msg: the first byte tells the end from a cut, the length is checked
\* before the payload is waited for, and the payload is read in full.
ReadByte ==
  /\ Listening /\ socket # <<>>
  /\ socket' = Tail(socket)
  /\ IF Len(header) < 2
     THEN LET h == Append(header, Head(socket))
          IN  IF Len(h) = 2 /\ FromBe(h) > MaxFrame
              THEN task' = "error" /\ UNCHANGED <<header, payload, got>>
              ELSE IF Len(h) = 2 /\ FromBe(h) = 0 THEN Message(<<>>)
              ELSE header' = h /\ UNCHANGED <<payload, task, got>>
     ELSE LET p == Append(payload, Head(socket))
          IN  IF Len(p) = FromBe(header) THEN Message(p)
              ELSE payload' = p /\ UNCHANGED <<header, task, got>>
  /\ UNCHANGED clientVars

ReadEnd ==
  /\ Listening /\ socket = <<>> /\ ~alive
  /\ task' = IF AtBoundary THEN "eof" ELSE "error"
  /\ UNCHANGED <<socket, header, payload, got, clientVars>>

Next ==
  \/ \E m \in Messages : WriteMsg(m)
  \/ WriteByte \/ Leaves \/ ReadByte \/ ReadEnd

Spec == Init /\ [][Next]_vars

-----------------------------------------------------------------------------
(* What is asked of it                                                     *)

Queue == INSTANCE Conduit WITH over <- IF Listening THEN "no" ELSE task

\* However the bytes are cut into reads and wherever the client dies, the loop gets
\* whole messages in order, loses at most the one being written, knows a clean end
\* from a cut ("Returns Ok(None) on clean EOF"), and hears nothing of a client of
\* another version.
CarriesMessages == Queue!Spec
=============================================================================
