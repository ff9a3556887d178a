---------------------------- MODULE AttachProps ----------------------------
(***************************************************************************)
(* What is asked of module Attach.                                         *)
(***************************************************************************)
EXTENDS Attach

Bodies == [grid : Grids, view : Sizes]
Shown  == Bodies \cup {Blank, Garbled, Torn}
Modes  == {"on", "off", "keep"}
Msgs   == {Bye}
          \cup [kind : {"frame"}, full : {TRUE}, base : Bodies \cup {Blank},
                body : Bodies, mode : Modes]
          \cup [kind : {"frame"}, full : {FALSE}, base : Bodies, body : Bodies,
                mode : Modes]
Orders == {[kind |-> "bye"]} \cup [kind : {"resize"}, size : Sizes]

\* Every variable has its type (the locals of spawn_writer, server/mod.rs, and
\* of run_loop, client/mod.rs).
TypeOK ==
  /\ term \in Sizes /\ winch \in BOOLEAN /\ missed \in BOOLEAN
  /\ client \in {"start", "sized", "running", "gone"}
  /\ up \in Seq(Sizes) /\ Len(up) <= MaxQueue
  /\ screen \in Shown /\ captured \in BOOLEAN /\ painted \in Shown
  /\ wire \in Seq(Msgs) /\ Len(wire) <= MaxWire
  /\ server \in {"new", "attached", "removed"}
  /\ frame \in Frames /\ unseen \in BOOLEAN
  /\ control \in Seq(Orders) /\ Len(control) <= MaxQueue
  /\ writer \in {"none", "first", "loop", "done", "aborted"}
  /\ view \in Sizes
  /\ last_src \in Grids /\ last_fitted \in Bodies \cup {Blank} /\ last_want \in BOOLEAN
  /\ writer = "loop" => last_fitted \in Bodies

\* A difference is only ever applied to what it was taken from, at its size
\* (debug_assert of diff_rows): resizes, skipped frames and full frames leave
\* the writer's baseline and the client's screen in step.
NeverTorn ==
  /\ painted # Torn
  /\ \A i \in DOMAIN wire : wire[i].kind = "frame" /\ ~wire[i].full =>
       wire[i].base.view = wire[i].body.view

\* Once everything sent has been read, mouse reporting is as the last frame
\* the writer took wanted it: each edge is sent once, on the frame that has it.
CaptureInStep ==
  wire = <<>> /\ client = "running" /\ writer = "loop" => captured = last_want

\* Detach and Closed are never lost to the channel that closes right after
\* (comment of spawn_writer: "so Detach/Closed always win").
LastWordWritten ==
  writer = "done" /\ client # "gone" =>
    /\ wire # <<>> /\ wire[Len(wire)] = Bye
    /\ \A i \in 1..Len(wire) - 1 : wire[i] # Bye

\* The writer's idea of the terminal is what the terminal has, through every
\* frame that is skipped, fitted again or repeated in full, and its last word is
\* the goodbye, written once and after everything else (spawn_writer).
WriterInStep == TypeOK /\ NeverTorn /\ CaptureInStep /\ LastWordWritten

\* When the picture and the terminal stay as they are, the terminal shows the
\* picture at its size, unless it was resized while nobody was listening.
Converges ==
  \A g \in Grids, d \in Sizes :
    <>[](frame.grid = g /\ term = d /\ ~missed)
      => <>[](screen = Fit(g, d) \/ client = "gone" \/ server = "removed")

\* A client that is told to go, goes, and its writer with it, even if it had
\* stopped reading.
Departs == server = "removed" ~> (client = "gone" /\ writer \in {"done", "aborted"})

-----------------------------------------------------------------------------

\* MouseGuard, client/mod.rs: "so the user's terminal never stays in
\* mouse-reporting mode after the client exits".  It can, where a terminal
\* keeps mode 1003 apart from 1002: at the end of standard input with a menu
\* open, nobody resets 1003.
MouseReportingOff == client = "gone" => ~captured
=============================================================================
