------------------------------- MODULE Attach -------------------------------
(***************************************************************************)
(* One attached client, end to end: its terminal and process               *)
(* (src/client/mod.rs), the connection, the daemon's reader and writer     *)
(* tasks for it (src/server/mod.rs, spawn_client and spawn_writer), and    *)
(* what the central loop (module Server) does to them.  The writer gets    *)
(* frames through a watch channel, which keeps only the latest, and orders *)
(* through a queue; it sends the difference to what it sent before, so     *)
(* both ends have to agree on what is on screen.                           *)
(*                                                                         *)
(* Keystrokes go the way of module Server.  The OSC 52 bytes of a yank     *)
(* (Control::Emit) are left out: they leave the screen as it is.           *)
(***************************************************************************)
EXTENDS Naturals, Sequences

CONSTANTS Sizes,      \* terminal sizes
          Texts,      \* what the session's grid can hold
          MaxQueue,   \* bound on each of the queues to and from the loop
          MaxWire     \* frames the socket holds before a write blocks

ASSUME MaxQueueAssumption == MaxQueue \in Nat \ {0}
ASSUME MaxWireAssumption  == MaxWire \in Nat \ {0}

VARIABLES term,       \* the size the terminal really has
          winch,      \* a SIGWINCH is pending
          client,     \* "start", "sized", "running" or "gone"
          screen,     \* what the terminal shows
          captured,   \* mouse reporting (?1003) is on
          up,         \* messages to the daemon: sizes, the hello's first
          wire,       \* messages to the client
          server,     \* the loop's view: "new", "attached" or "removed"
          frame,      \* the latest frame in the mailbox
          unseen,     \* the writer has not taken it yet
          control,    \* the writer's queue of orders
          writer,     \* "none", "first", "loop" or "done"
          view,       \* the size the writer fits frames to
          last_src, last_fitted, last_want,
          painted,    \* auxiliary: the screen, were the terminal's size fixed
          missed      \* auxiliary: the size last changed with nobody listening

clientVars  == <<winch, client, up>>
displayVars == <<screen, captured, painted>>
mailVars    == <<frame, unseen, control, server>>
writerVars  == <<writer, view, last_src, last_fitted, last_want>>
vars == <<term, missed, clientVars, displayVars, wire, mailVars, writerVars>>

Grids  == [dims : Sizes, text : Texts]
Frames == [grid : Grids, want : BOOLEAN]

\* fit: a grid clipped or centred in a view; serialize_full and diff_rows
\* carry it to a screen that ends up showing it.
Fit(g, v) == [grid |-> g, view |-> v]

Blank   == [grid |-> "blank"]
Garbled == [grid |-> "garbled"]    \* painted for another size
Torn    == [grid |-> "torn"]       \* a difference to something else

FrameMsg(full, base, body, mode) ==
  [kind |-> "frame", full |-> full, base |-> base, body |-> body, mode |-> mode]
Bye == [kind |-> "bye"]

Init ==
  /\ term \in Sizes /\ winch = FALSE /\ missed = FALSE
  /\ client = "start" /\ up = <<>>
  /\ screen = Blank /\ captured = FALSE /\ painted = Blank
  /\ wire = <<>>
  /\ server = "new" /\ control = <<>> /\ unseen = FALSE
  /\ frame \in [grid : Grids, want : {FALSE}]
  /\ writer = "none" /\ view = term
  /\ last_src = frame.grid /\ last_fitted = Blank /\ last_want = FALSE

-----------------------------------------------------------------------------
(* The terminal and the client process                                     *)

\* The user resizes the terminal; it keeps what it shows, out of place.  The
\* signal is caught once run_loop has registered for it.
TerminalResize(d) ==
  /\ client # "gone"
  /\ d # term
  /\ term' = d
  /\ winch' = (client = "running")
  /\ missed' = (client = "sized")
  /\ screen' = IF screen = Blank THEN Blank ELSE Garbled
  /\ UNCHANGED <<client, up, captured, painted, wire, mailVars, writerVars>>

\* attach: the size is read and goes out with the hello.
Hello ==
  /\ client = "start"
  /\ client' = "sized"
  /\ up' = <<term>>
  /\ UNCHANGED <<term, missed, winch, displayVars, wire, mailVars, writerVars>>

\* The daemon has answered: guards, then run_loop.
Runs ==
  /\ client = "sized"
  /\ server # "new"
  /\ client' = "running"
  /\ UNCHANGED <<term, missed, winch, up, displayVars, wire, mailVars, writerVars>>

\* Several signals are one; the size is read when it is handled.
HandleWinch ==
  /\ client = "running" /\ winch
  /\ Len(up) < MaxQueue
  /\ winch' = FALSE
  /\ up' = Append(up, term)
  /\ UNCHANGED <<term, missed, client, displayVars, wire, mailVars, writerVars>>

Paint(old, m) == IF m.full \/ old = m.base THEN m.body ELSE Torn

Mode(m) == CASE m.mode = "on" -> TRUE [] m.mode = "off" -> FALSE
             [] m.mode = "keep" -> captured

\* A frame reaches the terminal.  A full one clears it first.
ReadFrame ==
  /\ client = "running"
  /\ wire # <<>> /\ Head(wire).kind = "frame"
  /\ LET m == Head(wire)
     IN  /\ painted' = Paint(painted, m)
         /\ screen' = IF m.body.view # term THEN Garbled
                      ELSE IF screen = Garbled /\ ~m.full THEN Garbled
                      ELSE Paint(screen, m)
         /\ captured' = Mode(m)
  /\ wire' = Tail(wire)
  /\ UNCHANGED <<term, missed, clientVars, mailVars, writerVars>>

\* Detach or Closed, after the bytes that end mouse reporting.
ReadBye ==
  /\ client = "running"
  /\ wire # <<>> /\ Head(wire) = Bye
  /\ captured' = FALSE
  /\ wire' = Tail(wire)
  /\ client' = "gone"
  /\ UNCHANGED <<term, missed, winch, up, screen, painted, mailVars, writerVars>>

\* The daemon has closed the connection without a word.
ReadEof ==
  /\ client = "running"
  /\ wire = <<>> /\ writer \in {"done", "aborted"}
  /\ client' = "gone"
  /\ UNCHANGED <<term, missed, winch, up, displayVars, wire, mailVars, writerVars>>

\* Standard input ends.  The guards restore the terminal; MouseGuard undoes
\* what it set, 1002 and 1006, not the 1003 that frames may have set.
Quits ==
  /\ client = "running"
  /\ client' = "gone"
  /\ UNCHANGED <<term, missed, winch, up, displayVars, wire, mailVars, writerVars>>

-----------------------------------------------------------------------------
(* The central loop                                                        *)

\* Event::ClientConnected: the mailbox is seeded with a frame.
Connected(f) ==
  /\ server = "new"
  /\ up # <<>>
  /\ up' = Tail(up)
  /\ server' = "attached"
  /\ frame' = f /\ unseen' = FALSE
  /\ writer' = "first" /\ view' = Head(up)
  /\ UNCHANGED <<term, missed, winch, client, displayVars, wire, control,
                 last_src, last_fitted, last_want>>

\* Event::ClientResize.
Resized ==
  /\ server = "attached"
  /\ up # <<>>
  /\ Len(control) < MaxQueue
  /\ up' = Tail(up)
  /\ control' = Append(control, [kind |-> "resize", size |-> Head(up)])
  /\ UNCHANGED <<term, missed, winch, client, displayVars, wire, frame, unseen,
                 server, writerVars>>

\* A tick: the latest frame replaces one the writer has not looked at.
Publishes(f) ==
  /\ server = "attached"
  /\ frame' = f /\ unseen' = TRUE
  /\ UNCHANGED <<term, missed, clientVars, displayVars, wire, control, server,
                 writerVars>>

\* The client detaches, or the daemon stops: its last word is queued, then
\* both channels to the writer are closed.
Dismisses ==
  /\ server = "attached"
  /\ Len(control) < MaxQueue
  /\ control' = Append(control, [kind |-> "bye"])
  /\ server' = "removed"
  /\ UNCHANGED <<term, missed, clientVars, displayVars, wire, frame, unseen,
                 writerVars>>

\* Event::ClientGone: the reader has read to the end.
Forgets ==
  /\ server = "attached"
  /\ client = "gone"
  /\ server' = "removed"
  /\ UNCHANGED <<term, missed, clientVars, displayVars, wire, frame, unseen,
                 control, writerVars>>

-----------------------------------------------------------------------------
(* The writer task                                                         *)

CanWrite == client # "gone" /\ Len(wire) < MaxWire
writerRest == <<term, missed, clientVars, displayVars, frame, server>>

Edge(last, next) == CASE next /\ ~last -> "on" [] last /\ ~next -> "off"
                      [] OTHER -> "keep"

FirstFitted(body) == body

\* The first frame is whatever the mailbox holds by now, in full.
WriteFirst ==
  /\ writer = "first"
  /\ CanWrite
  /\ unseen' = FALSE
  /\ last_src' = frame.grid
  /\ last_fitted' = FirstFitted(Fit(frame.grid, view))
  /\ last_want' = frame.want
  /\ wire' = Append(wire, FrameMsg(TRUE, Blank, Fit(frame.grid, view),
                                   Edge(FALSE, frame.want)))
  /\ writer' = "loop"
  /\ UNCHANGED <<control, view, writerRest>>

\* Mutant: the baseline stays what it was.
RefitNot(v) == last_fitted
Refit(v) == Fit(last_src, v)

\* Control::Resize: the last grid is shown again, in full, at the new size.
WriteResized ==
  /\ writer = "loop"
  /\ CanWrite
  /\ control # <<>> /\ Head(control).kind = "resize"
  /\ control' = Tail(control)
  /\ view' = Head(control).size
  /\ last_fitted' = Refit(view')
  /\ wire' = Append(wire, FrameMsg(TRUE, Blank, Fit(last_src, view'), "keep"))
  /\ UNCHANGED <<writer, last_src, last_want, unseen, writerRest>>

\* Control::Detach or Closed.
WriteBye ==
  /\ writer = "loop"
  /\ CanWrite
  /\ control # <<>> /\ Head(control).kind = "bye"
  /\ control' = Tail(control)
  /\ wire' = Append(wire, Bye)
  /\ writer' = "done"
  /\ UNCHANGED <<view, last_src, last_fitted, last_want, unseen, writerRest>>

\* Mutant: what the client was told last is not kept.
WantForgotten(w) == last_want
Want(w) == w

\* A new frame, looked at only if the queue is empty and open: a difference to the last
\* one, or all of it if the grid has another size; nothing if nothing changed.
WriteFrame ==
  /\ writer = "loop"
  /\ CanWrite
  /\ control = <<>> /\ server = "attached"
  /\ unseen
  /\ unseen' = FALSE
  /\ LET full == frame.grid.dims # last_src.dims
         body == Fit(frame.grid, view)
         mode == Edge(last_want, frame.want)
     IN  /\ last_fitted' = body
         /\ wire' = IF full \/ body # last_fitted \/ mode # "keep"
                    THEN Append(wire, FrameMsg(full, last_fitted, body, mode))
                    ELSE wire
  /\ last_src' = frame.grid
  /\ last_want' = Want(frame.want)
  /\ UNCHANGED <<control, writer, view, writerRest>>

\* The biased select looks at the queue first: the closed watch channel ends the
\* writer only when nothing is queued.
QueueFirst == control = <<>>

\* Mutant: the result of a write is ignored.
WriteIgnored == FALSE
WriteFails == client = "gone"

\* A write fails, or both channels are closed and the queue is empty.
WriterEnds ==
  /\ \/ writer \in {"first", "loop"} /\ WriteFails
     \/ writer = "loop" /\ server = "removed" /\ QueueFirst
  /\ writer' = "done"
  /\ UNCHANGED <<control, unseen, wire, view, last_src, last_fitted, last_want,
                 writerRest>>

\* The client does not read, and the second for its last word is over.
WriterAborted ==
  /\ writer \in {"first", "loop"}
  /\ server = "removed" /\ Len(wire) = MaxWire
  /\ writer' = "aborted"
  /\ UNCHANGED <<control, unseen, wire, view, last_src, last_fitted, last_want,
                 writerRest>>

-----------------------------------------------------------------------------

Client == Hello \/ Runs \/ HandleWinch \/ ReadFrame \/ ReadBye \/ ReadEof
Writer == WriteFirst \/ WriteResized \/ WriteBye \/ WriteFrame \/ WriterEnds

Next ==
  \/ \E d \in Sizes : TerminalResize(d)
  \/ Quits
  \/ Client
  \/ \E f \in Frames : Connected(f) \/ Publishes(f)
  \/ Resized \/ Dismisses \/ Forgets
  \/ Writer \/ WriterAborted

Spec == Init /\ [][Next]_vars

\* Tasks and processes run; what users and panes do is theirs to choose.
Fairness ==
  /\ WF_vars(Hello) /\ WF_vars(Runs) /\ WF_vars(HandleWinch)
  /\ WF_vars(ReadFrame \/ ReadBye \/ ReadEof)
  /\ WF_vars(\E f \in Frames : Connected(f)) /\ WF_vars(Resized) /\ WF_vars(Forgets)
  /\ WF_vars(Writer)

FairSpec == Spec /\ Fairness
=============================================================================
