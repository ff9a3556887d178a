---------------------------- MODULE AttachProofs ----------------------------
(***************************************************************************)
(* Theorems about module Attach, for any sizes, texts and bounds on the    *)
(* queues: whatever the order of resizes, frames and the end of a client,  *)
(* the writer's idea of the terminal is what the terminal has.             *)
(***************************************************************************)
EXTENDS AttachProps, SequenceTheorems, TLAPS

\* The messages on the way are a chain: a difference is to the message before
\* it, the first to what the terminal has, and the writer's baseline is the last.
Chain ==
  /\ painted \in Bodies \cup {Blank}
  /\ \A i \in DOMAIN wire : wire[i].kind = "frame" /\ ~wire[i].full =>
       /\ wire[i].base = IF i = 1 THEN painted ELSE wire[i - 1].body
       /\ wire[i].base.view = wire[i].body.view
  /\ writer = "loop" =>
       /\ last_fitted.view = view
       /\ last_fitted = IF wire = <<>> THEN painted ELSE wire[Len(wire)].body

\* Of the orders about mouse reporting on the way the last one is what the
\* writer wants; when there is none, the terminal already is as it wants.
Edges ==
  /\ writer \in {"none", "first"} => wire = <<>> /\ captured = FALSE
  /\ writer = "loop" =>
       /\ (\A i \in DOMAIN wire : wire[i].mode = "keep") => captured = last_want
       /\ \A i \in DOMAIN wire :
            wire[i].mode # "keep" /\ (\A j \in i + 1..Len(wire) : wire[j].mode = "keep")
              => last_want = (wire[i].mode = "on")

\* A client that has not gone away by itself has its goodbye queued from the
\* moment it is removed, and the writer is not done before it is on its way.
Farewell ==
  /\ writer = "none" <=> server = "new"
  /\ \A i \in DOMAIN wire : wire[i].kind = "bye" => i = Len(wire) /\ writer = "done"
  /\ server = "removed" /\ writer \in {"first", "loop"} /\ client # "gone" =>
       control # <<>> /\ control[Len(control)].kind = "bye"
  /\ writer = "done" /\ client # "gone" => wire # <<>> /\ wire[Len(wire)].kind = "bye"

InStepInv == TypeOK /\ Chain /\ Edges /\ Farewell

-----------------------------------------------------------------------------
(* Messages                                                                *)

\* What the members of the sets of AttachProps are.
LEMMA BodyFacts ==
  /\ Torn \notin Bodies \cup {Blank}
  /\ \A g \in Grids, v \in Sizes : Fit(g, v) \in Bodies /\ Fit(g, v).view = v
  /\ \A b \in Bodies : b.view \in Sizes
BY DEF Bodies, Torn, Blank, Fit

LEMMA MsgTypes ==
  ASSUME NEW m \in Msgs
  PROVE  \/ m = Bye /\ m.kind = "bye"
         \/ /\ m.kind = "frame" /\ m.full \in BOOLEAN
            /\ m.base \in Bodies \cup {Blank} /\ m.body \in Bodies
            /\ m.mode \in Modes
<1>1. CASE m = Bye
  BY <1>1 DEF Bye
<1>2. CASE m \in [kind : {"frame"}, full : {TRUE}, base : Bodies \cup {Blank},
                  body : Bodies, mode : Modes]
  BY <1>2
<1>3. CASE m \in [kind : {"frame"}, full : {FALSE}, base : Bodies, body : Bodies,
                  mode : Modes]
  BY <1>3
<1> QED BY <1>1, <1>2, <1>3 DEF Msgs

LEMMA FrameFacts ==
  ASSUME NEW full \in BOOLEAN, NEW base \in Bodies \cup {Blank}, NEW body \in Bodies,
         NEW mode \in Modes, full \/ base \in Bodies
  PROVE  /\ FrameMsg(full, base, body, mode) \in Msgs
         /\ FrameMsg(full, base, body, mode).kind = "frame"
         /\ FrameMsg(full, base, body, mode).full = full
         /\ FrameMsg(full, base, body, mode).base = base
         /\ FrameMsg(full, base, body, mode).body = body
         /\ FrameMsg(full, base, body, mode).mode = mode
<1>1. CASE full
  BY <1>1 DEF FrameMsg, Msgs
<1>2. CASE ~full
  BY <1>2 DEF FrameMsg, Msgs
<1> QED BY <1>1, <1>2

LEMMA EdgeFacts ==
  ASSUME NEW a \in BOOLEAN, NEW b \in BOOLEAN
  PROVE  /\ Edge(a, b) \in Modes
         /\ Edge(a, b) = "keep" => a = b
         /\ Edge(a, b) # "keep" => b = (Edge(a, b) = "on")
BY DEF Edge, Modes

LEMMA FullFacts ==
  ASSUME NEW body \in Bodies, NEW mode \in Modes
  PROVE  /\ FrameMsg(TRUE, Blank, body, mode) \in Msgs
         /\ FrameMsg(TRUE, Blank, body, mode).kind = "frame"
         /\ FrameMsg(TRUE, Blank, body, mode).full = TRUE
         /\ FrameMsg(TRUE, Blank, body, mode).body = body
         /\ FrameMsg(TRUE, Blank, body, mode).mode = mode
BY DEF FrameMsg, Msgs

\* A message is read, and one is written.
LEMMA PoppedFacts ==
  ASSUME NEW S, NEW s \in Seq(S), s # <<>>
  PROVE  /\ Tail(s) \in Seq(S) /\ Len(Tail(s)) = Len(s) - 1 /\ Head(s) = s[1] /\ Head(s) \in S
         /\ Len(s) \in Nat \ {0} /\ DOMAIN s = 1..Len(s) /\ DOMAIN Tail(s) = 1..Len(s) - 1
         /\ \A i \in 1..Len(s) - 1 : Tail(s)[i] = s[i + 1]
         /\ Tail(s) = <<>> <=> Len(s) = 1
<1>1. Len(s) \in Nat \ {0} /\ DOMAIN s = 1..Len(s) /\ Head(s) = s[1]
  OBVIOUS
<1>2. /\ Head(s) \in S /\ Tail(s) \in Seq(S) /\ Len(Tail(s)) = Len(s) - 1
      /\ \A i \in 1..Len(Tail(s)) : Tail(s)[i] = s[i + 1]
  BY HeadTailProperties
<1>3. DOMAIN Tail(s) = 1..Len(s) - 1
  BY <1>2
<1>4. Tail(s) = <<>> <=> Len(s) = 1
  BY <1>1, <1>2
<1> QED BY <1>1, <1>2, <1>3, <1>4

LEMMA PushedFacts ==
  ASSUME NEW S, NEW s \in Seq(S), NEW e \in S
  PROVE  /\ Append(s, e) \in Seq(S) /\ Len(Append(s, e)) = Len(s) + 1 /\ Append(s, e) # <<>>
         /\ Len(s) \in Nat /\ DOMAIN s = 1..Len(s) /\ DOMAIN Append(s, e) = 1..Len(s) + 1
         /\ \A i \in 1..Len(s) : Append(s, e)[i] = s[i]
         /\ Append(s, e)[Len(s) + 1] = e
         /\ s = <<>> <=> Len(s) = 0
OBVIOUS

-----------------------------------------------------------------------------
(* Types                                                                   *)

\* Reading and writing at the two ends of the wire and of the queues.
LEMMA WireTypes ==
  ASSUME TypeOK
  PROVE  /\ wire # <<>> => /\ Tail(wire) \in Seq(Msgs) /\ Len(Tail(wire)) <= MaxWire
                           /\ Head(wire) \in Msgs
         /\ \A m \in Msgs : Len(wire) < MaxWire =>
              Append(wire, m) \in Seq(Msgs) /\ Len(Append(wire, m)) <= MaxWire
<1>1. wire \in Seq(Msgs) /\ Len(wire) <= MaxWire /\ MaxWire \in Nat
  BY MaxWireAssumption DEF TypeOK
<1>2. wire # <<>> => Len(wire) \in Nat
  BY <1>1
<1>3. ASSUME wire # <<>>
      PROVE  Tail(wire) \in Seq(Msgs) /\ Len(Tail(wire)) <= MaxWire /\ Head(wire) \in Msgs
  BY <1>1, <1>3, PoppedFacts
<1>4. ASSUME NEW m \in Msgs, Len(wire) < MaxWire
      PROVE  Append(wire, m) \in Seq(Msgs) /\ Len(Append(wire, m)) <= MaxWire
  BY <1>1, <1>4, PushedFacts
<1> QED BY <1>3, <1>4

LEMMA QueueTypes ==
  ASSUME TypeOK
  PROVE  /\ control # <<>> => /\ Tail(control) \in Seq(Orders) /\ Len(Tail(control)) <= MaxQueue
                              /\ Head(control) \in Orders
         /\ \A o \in Orders : Len(control) < MaxQueue =>
              Append(control, o) \in Seq(Orders) /\ Len(Append(control, o)) <= MaxQueue
         /\ up # <<>> => Tail(up) \in Seq(Sizes) /\ Len(Tail(up)) <= MaxQueue /\ Head(up) \in Sizes
         /\ \A d \in Sizes : Len(up) < MaxQueue =>
              Append(up, d) \in Seq(Sizes) /\ Len(Append(up, d)) <= MaxQueue
<1>1. /\ control \in Seq(Orders) /\ Len(control) <= MaxQueue /\ up \in Seq(Sizes)
      /\ Len(up) <= MaxQueue /\ MaxQueue \in Nat
  BY MaxQueueAssumption DEF TypeOK
<1>2. ASSUME control # <<>>
      PROVE  /\ Tail(control) \in Seq(Orders) /\ Len(Tail(control)) <= MaxQueue
             /\ Head(control) \in Orders
  BY <1>1, <1>2, PoppedFacts
<1>3. ASSUME NEW o \in Orders, Len(control) < MaxQueue
      PROVE  Append(control, o) \in Seq(Orders) /\ Len(Append(control, o)) <= MaxQueue
  BY <1>1, <1>3, PushedFacts
<1>4. ASSUME up # <<>>
      PROVE  Tail(up) \in Seq(Sizes) /\ Len(Tail(up)) <= MaxQueue /\ Head(up) \in Sizes
  BY <1>1, <1>4, PoppedFacts
<1>5. ASSUME NEW d \in Sizes, Len(up) < MaxQueue
      PROVE  Append(up, d) \in Seq(Sizes) /\ Len(Append(up, d)) <= MaxQueue
  BY <1>1, <1>5, PushedFacts
<1> QED BY <1>2, <1>3, <1>4, <1>5

\* What the writer puts on the wire has the type of a message.
LEMMA WrittenTypes ==
  ASSUME TypeOK
  PROVE  /\ \A g \in Grids, v \in Sizes : Fit(g, v) \in Bodies /\ Fit(g, v).view = v
         /\ frame.grid \in Grids /\ frame.want \in BOOLEAN
         /\ \A o \in Orders : o.kind = "resize" => o.size \in Sizes
         /\ Bye \in Msgs
<1>1. frame.grid \in Grids /\ frame.want \in BOOLEAN
  BY DEF TypeOK, Frames
<1>2. \A o \in Orders : o.kind = "resize" => o.size \in Sizes
  BY DEF Orders
<1>3. Bye \in Msgs
  BY DEF Msgs
<1> QED BY <1>1, <1>2, <1>3, BodyFacts

LEMMA TypeInit == Init => TypeOK
<1> SUFFICES ASSUME Init PROVE TypeOK
  OBVIOUS
<1>1. /\ up = <<>> /\ wire = <<>> /\ control = <<>> /\ writer = "none" /\ server = "new"
      /\ client = "start" /\ frame \in [grid : Grids, want : {FALSE}]
      /\ term \in Sizes /\ view = term /\ winch = FALSE /\ missed = FALSE /\ captured = FALSE
      /\ screen = Blank /\ painted = Blank /\ unseen = FALSE
      /\ last_src = frame.grid /\ last_fitted = Blank /\ last_want = FALSE
  BY DEF Init
<1>2. up \in Seq(Sizes) /\ wire \in Seq(Msgs) /\ control \in Seq(Orders)
  BY <1>1
<1>3. Len(up) <= MaxQueue /\ Len(wire) <= MaxWire /\ Len(control) <= MaxQueue
  BY <1>1, MaxQueueAssumption, MaxWireAssumption
<1>4. frame \in Frames /\ frame.grid \in Grids
  BY <1>1 DEF Frames
<1> QED BY <1>1, <1>2, <1>3, <1>4 DEF TypeOK, Shown

\* The terminal and the client.
LEMMA TypeClient ==
  ASSUME TypeOK
  PROVE  /\ \A d \in Sizes : TerminalResize(d) => TypeOK'
         /\ Quits \/ Client => TypeOK'
<1>1. ASSUME NEW d \in Sizes, TerminalResize(d) PROVE TypeOK'
  BY <1>1 DEF TypeOK, TerminalResize, Shown, clientVars, displayVars, mailVars, writerVars
<1>2. CASE Hello
  <2>1. <<term>> \in Seq(Sizes) /\ Len(<<term>>) <= MaxQueue
    BY MaxQueueAssumption DEF TypeOK
  <2> QED BY <1>2, <2>1 DEF TypeOK, Hello, displayVars, mailVars, writerVars
<1>3. CASE Runs
  BY <1>3 DEF TypeOK, Runs, displayVars, mailVars, writerVars
<1>4. CASE HandleWinch
  <2>1. up' \in Seq(Sizes) /\ Len(up') <= MaxQueue
    BY <1>4, QueueTypes DEF HandleWinch, TypeOK
  <2> QED BY ZenonT(30), <1>4, <2>1 DEF TypeOK, HandleWinch, displayVars, mailVars, writerVars
<1>5. CASE ReadFrame
  <2>1. PICK m \in Msgs : m = Head(wire) /\ m.kind = "frame"
    BY <1>5, WireTypes DEF ReadFrame
  <2>2. m.body \in Bodies /\ m.mode \in Modes
    BY <2>1, MsgTypes DEF Bye
  <2>3. painted' \in Shown
    BY <1>5, <2>1, <2>2 DEF ReadFrame, Paint, Shown, TypeOK
  <2>4. screen' \in Shown
    BY <1>5, <2>1, <2>2 DEF ReadFrame, Paint, Shown, TypeOK
  <2>5. captured' \in BOOLEAN
    BY <1>5, <2>1, <2>2 DEF ReadFrame, Mode, Modes, TypeOK
  <2>6. wire' \in Seq(Msgs) /\ Len(wire') <= MaxWire
    BY <1>5, WireTypes DEF ReadFrame
  <2> QED BY <1>5, <2>3, <2>4, <2>5, <2>6 DEF TypeOK, ReadFrame, clientVars, mailVars, writerVars
<1>6. CASE ReadBye
  <2>1. wire' \in Seq(Msgs) /\ Len(wire') <= MaxWire
    BY <1>6, WireTypes DEF ReadBye
  <2> QED BY ZenonT(30), <1>6, <2>1 DEF TypeOK, ReadBye, mailVars, writerVars
<1>7. CASE ReadEof
  BY <1>7 DEF TypeOK, ReadEof, displayVars, mailVars, writerVars
<1>8. CASE Quits
  BY <1>8 DEF TypeOK, Quits, displayVars, mailVars, writerVars
<1> QED BY <1>1, <1>2, <1>3, <1>4, <1>5, <1>6, <1>7, <1>8 DEF Client

\* The central loop.
LEMMA TypeLoop ==
  ASSUME TypeOK
  PROVE  /\ \A f \in Frames : Connected(f) \/ Publishes(f) => TypeOK'
         /\ Resized \/ Dismisses \/ Forgets => TypeOK'
<1>1. ASSUME NEW f \in Frames, Connected(f) PROVE TypeOK'
  <2>1. up' \in Seq(Sizes) /\ Len(up') <= MaxQueue /\ view' \in Sizes
    BY <1>1, QueueTypes DEF Connected
  <2> QED BY <1>1, <2>1 DEF TypeOK, Connected, displayVars
<1>2. ASSUME NEW f \in Frames, Publishes(f) PROVE TypeOK'
  BY <1>2 DEF TypeOK, Publishes, clientVars, displayVars, writerVars
<1>3. CASE Resized
  <2>1. up' \in Seq(Sizes) /\ Len(up') <= MaxQueue /\ Head(up) \in Sizes
    BY <1>3, QueueTypes DEF Resized
  <2>2. [kind |-> "resize", size |-> Head(up)] \in Orders
    BY <2>1 DEF Orders
  <2>3. control' \in Seq(Orders) /\ Len(control') <= MaxQueue
    BY <1>3, <2>2, QueueTypes DEF Resized
  <2> QED BY <1>3, <2>1, <2>3 DEF TypeOK, Resized, displayVars, writerVars
<1>4. CASE Dismisses
  <2>1. [kind |-> "bye"] \in Orders
    BY DEF Orders
  <2>2. control' \in Seq(Orders) /\ Len(control') <= MaxQueue
    BY <1>4, <2>1, QueueTypes DEF Dismisses
  <2> QED BY <1>4, <2>2 DEF TypeOK, Dismisses, clientVars, displayVars, writerVars
<1>5. CASE Forgets
  BY <1>5 DEF TypeOK, Forgets, clientVars, displayVars, writerVars
<1> QED BY <1>1, <1>2, <1>3, <1>4, <1>5

-----------------------------------------------------------------------------
(* What a step does to the wire                                            *)

\* A frame is sent.
Sent(m) ==
  /\ m.kind = "frame" /\ wire' = Append(wire, m) /\ Len(wire) < MaxWire
  /\ writer \in {"first", "loop"} /\ writer' = "loop"
  /\ m.body = last_fitted' /\ last_fitted' \in Bodies /\ last_fitted'.view = view'
  /\ ~m.full => writer = "loop" /\ m.base = last_fitted /\ view' = view
  /\ last_want' \in BOOLEAN
  /\ m.mode = Edge(IF writer = "first" THEN FALSE ELSE last_want, last_want')
  /\ UNCHANGED <<painted, captured, server, client>>

\* Nothing that the writer and the terminal have to agree on changes, unless the
\* writer starts or ends.
Quiet ==
  /\ UNCHANGED <<wire, painted, captured, last_fitted, last_want>>
  /\ writer' = "loop" => writer = "loop" /\ view' = view
  /\ writer' \in {"none", "first"} => writer \in {"none", "first"}

LEMMA FirstSent ==
  ASSUME TypeOK, WriteFirst
  PROVE  /\ \E m \in Msgs : Sent(m)
         /\ last_src' \in Grids /\ UNCHANGED <<control, view, writerRest>> /\ unseen' = FALSE
<1>1. /\ Fit(frame.grid, view) \in Bodies /\ Fit(frame.grid, view).view = view
      /\ frame.grid \in Grids /\ frame.want \in BOOLEAN /\ Blank \in Bodies \cup {Blank}
  BY WrittenTypes DEF TypeOK
<1> DEFINE m == FrameMsg(TRUE, Blank, Fit(frame.grid, view), Edge(FALSE, frame.want))
<1>2. /\ m \in Msgs /\ m.kind = "frame" /\ m.full = TRUE /\ m.body = Fit(frame.grid, view)
      /\ m.mode = Edge(FALSE, frame.want)
  <2>1. Edge(FALSE, frame.want) \in Modes
    BY <1>1, EdgeFacts
  <2> QED BY <1>1, <2>1, FullFacts
<1> HIDE DEF m
<1>3. wire' = Append(wire, m)
  BY DEF WriteFirst, m
<1>4. Sent(m)
  BY <1>1, <1>2, <1>3
     DEF Sent, WriteFirst, FirstFitted, CanWrite, writerRest, displayVars, clientVars
<1> QED BY <1>1, <1>2, <1>4 DEF WriteFirst

LEMMA ResizedSent ==
  ASSUME TypeOK, WriteResized
  PROVE  /\ \E m \in Msgs : Sent(m)
         /\ view' \in Sizes /\ UNCHANGED <<last_src, last_want, unseen, writerRest>>
         /\ control # <<>> /\ Head(control).kind = "resize" /\ control' = Tail(control)
<1>1. /\ control # <<>> /\ Head(control).kind = "resize" /\ view' = Head(control).size
  BY DEF WriteResized
<1>2. view' \in Sizes
  BY <1>1, QueueTypes, WrittenTypes
<1>3. PICK v \in Sizes : v = view'
  BY <1>2
<1>4. /\ Fit(last_src, v) \in Bodies /\ Fit(last_src, v).view = v
      /\ last_want \in BOOLEAN /\ Blank \in Bodies \cup {Blank} /\ "keep" \in Modes
  BY WrittenTypes DEF TypeOK, Modes
<1> DEFINE m == FrameMsg(TRUE, Blank, Fit(last_src, v), "keep")
<1>5. /\ m \in Msgs /\ m.kind = "frame" /\ m.full = TRUE /\ m.body = Fit(last_src, v)
      /\ m.mode = "keep"
  BY ZenonT(30), <1>4, FullFacts
<1> HIDE DEF m
<1>6. wire' = Append(wire, m) /\ last_fitted' = Fit(last_src, v)
  BY <1>3 DEF WriteResized, Refit, m
<1>7. Edge(last_want, last_want) = "keep"
  BY <1>4 DEF Edge
<1>8. Sent(m)
  BY <1>3, <1>4, <1>5, <1>6, <1>7
     DEF Sent, WriteResized, CanWrite, writerRest, displayVars, clientVars
<1> QED BY <1>1, <1>2, <1>5, <1>8 DEF WriteResized

LEMMA FrameSent ==
  ASSUME TypeOK, WriteFrame
  PROVE  /\ (\E m \in Msgs : Sent(m)) \/ (Quiet /\ writer' = "loop")
         /\ last_src' \in Grids /\ last_want' \in BOOLEAN /\ last_fitted' \in Bodies
         /\ UNCHANGED <<control, writer, view, writerRest>> /\ unseen' = FALSE
<1>1. /\ Fit(frame.grid, view) \in Bodies /\ Fit(frame.grid, view).view = view
      /\ frame.grid \in Grids /\ frame.want \in BOOLEAN /\ last_want \in BOOLEAN
      /\ last_fitted \in Bodies
  BY WrittenTypes DEF TypeOK, WriteFrame
<1> DEFINE body == Fit(frame.grid, view)
           mode == Edge(last_want, frame.want)
<1>0. PICK full \in BOOLEAN : full = (frame.grid.dims # last_src.dims)
  OBVIOUS
<1> DEFINE m == FrameMsg(full, last_fitted, body, mode)
<1>2. /\ last_fitted' = body /\ last_want' = frame.want /\ last_src' = frame.grid
      /\ wire' = IF full \/ body # last_fitted \/ mode # "keep" THEN Append(wire, m) ELSE wire
  BY <1>0 DEF WriteFrame, Want
<1>3. /\ m \in Msgs /\ m.kind = "frame" /\ m.full = full /\ m.base = last_fitted
      /\ m.body = body /\ m.mode = mode
  <2>1. mode \in Modes
    BY <1>1, EdgeFacts
  <2> HIDE DEF mode, body
  <2>2. body \in Bodies
    BY <1>1 DEF body
  <2> QED BY <1>1, <2>1, <2>2, FrameFacts
<1>4. CASE full \/ body # last_fitted \/ mode # "keep"
  <2> HIDE DEF m
  <2>1. wire' = Append(wire, m)
    BY <1>2, <1>4
  <2>2. Sent(m)
    BY <1>1, <1>2, <1>3, <2>1
       DEF Sent, WriteFrame, CanWrite, writerRest, displayVars, clientVars
  <2> QED BY <1>1, <1>2, <1>3, <2>2 DEF WriteFrame
<1>5. CASE ~(full \/ body # last_fitted \/ mode # "keep")
  <2>1. wire' = wire /\ last_fitted' = last_fitted /\ last_want' = last_want
    BY <1>1, <1>2, <1>5, EdgeFacts
  <2> QED BY <1>1, <1>2, <2>1 DEF Quiet, WriteFrame, writerRest, displayVars
<1> QED BY <1>4, <1>5

LEMMA SentTypes ==
  ASSUME TypeOK, NEW m \in Msgs, Sent(m)
  PROVE  /\ wire' \in Seq(Msgs) /\ Len(wire') <= MaxWire
         /\ last_fitted' \in Bodies /\ last_want' \in BOOLEAN /\ writer' = "loop"
BY WireTypes DEF Sent

\* The writer.
LEMMA TypeWriter == ASSUME TypeOK, Writer \/ WriterAborted PROVE TypeOK'
<1>1. CASE WriteFirst
  <2>1. /\ wire' \in Seq(Msgs) /\ Len(wire') <= MaxWire /\ last_src' \in Grids
        /\ last_fitted' \in Bodies /\ last_want' \in BOOLEAN /\ writer' = "loop"
    BY <1>1, FirstSent, SentTypes
  <2> QED BY <1>1, <2>1, FirstSent DEF TypeOK, writerRest, clientVars, displayVars
<1>2. CASE WriteResized
  <2>1. /\ wire' \in Seq(Msgs) /\ Len(wire') <= MaxWire /\ view' \in Sizes
        /\ last_fitted' \in Bodies /\ last_want' \in BOOLEAN /\ writer' = "loop"
    BY <1>2, ResizedSent, SentTypes
  <2>2. control' \in Seq(Orders) /\ Len(control') <= MaxQueue
    BY <1>2, ResizedSent, QueueTypes
  <2> QED BY <1>2, <2>1, <2>2, ResizedSent DEF TypeOK, writerRest, clientVars, displayVars
<1>3. CASE WriteBye
  <2>1. /\ wire' \in Seq(Msgs) /\ Len(wire') <= MaxWire
        /\ control' \in Seq(Orders) /\ Len(control') <= MaxQueue
    BY <1>3, WireTypes, QueueTypes, WrittenTypes DEF WriteBye, CanWrite
  <2> QED BY <1>3, <2>1 DEF TypeOK, WriteBye, writerRest, clientVars, displayVars
<1>4. CASE WriteFrame
  <2>1. wire' \in Seq(Msgs) /\ Len(wire') <= MaxWire
    BY <1>4, FrameSent, SentTypes DEF Quiet, TypeOK
  <2>2. writer' \in {"first", "loop"}
    BY <1>4 DEF WriteFrame
  <2> QED BY <1>4, <2>1, <2>2, FrameSent DEF TypeOK, writerRest, clientVars, displayVars
<1>5. CASE WriterEnds
  BY <1>5 DEF TypeOK, WriterEnds, writerRest, clientVars, displayVars
<1>6. CASE WriterAborted
  BY <1>6 DEF TypeOK, WriterAborted, writerRest, clientVars, displayVars
<1> QED BY <1>1, <1>2, <1>3, <1>4, <1>5, <1>6 DEF Writer

LEMMA TypeStep == TypeOK /\ [Next]_vars => TypeOK'
<1> SUFFICES ASSUME TypeOK, [Next]_vars PROVE TypeOK'
  OBVIOUS
<1>1. CASE UNCHANGED vars
  BY <1>1 DEF TypeOK, vars, clientVars, displayVars, mailVars, writerVars
<1> QED BY <1>1, TypeClient, TypeLoop, TypeWriter DEF Next

\* Every step is one of these.
LEMMA WireStep ==
  ASSUME TypeOK, Farewell, [Next]_vars
  PROVE  Quiet \/ (\E m \in Msgs : Sent(m)) \/ ReadFrame \/ ReadBye \/ WriteBye
<1> USE DEF clientVars, displayVars, mailVars, writerVars, writerRest
<1>1. CASE UNCHANGED vars
  BY <1>1 DEF vars, Quiet
<1>2. ASSUME NEW d \in Sizes, TerminalResize(d) PROVE Quiet
  BY <1>2 DEF TerminalResize, Quiet
<1>3. CASE Hello \/ Runs \/ HandleWinch \/ ReadEof \/ Quits
  BY <1>3 DEF Hello, Runs, HandleWinch, ReadEof, Quits, Quiet
<1>4. ASSUME NEW f \in Frames, Connected(f) \/ Publishes(f) PROVE Quiet
  BY <1>4 DEF Connected, Publishes, Quiet, Farewell
<1>5. CASE Resized \/ Dismisses \/ Forgets
  BY <1>5 DEF Resized, Dismisses, Forgets, Quiet
<1>6. CASE WriterEnds \/ WriterAborted
  BY <1>6 DEF WriterEnds, WriterAborted, Quiet
<1> QED
  BY <1>1, <1>2, <1>3, <1>4, <1>5, <1>6, FirstSent, ResizedSent, FrameSent DEF Next, Client, Writer

-----------------------------------------------------------------------------
(* The chain                                                               *)

LEMMA WireFacts ==
  ASSUME TypeOK
  PROVE  /\ wire \in Seq(Msgs) /\ Len(wire) \in Nat /\ DOMAIN wire = 1..Len(wire)
         /\ \A i \in DOMAIN wire : wire[i] \in Msgs
         /\ wire = <<>> <=> Len(wire) = 0
BY DEF TypeOK

LEMMA ChainStep ==
  ASSUME TypeOK, TypeOK', Chain, Edges, Farewell, [Next]_vars
  PROVE  Chain'
<1>1. CASE Quiet
  BY <1>1 DEF Quiet, Chain
<1>2. ASSUME NEW m \in Msgs, Sent(m) PROVE Chain'
  <2>1. /\ wire' = Append(wire, m) /\ DOMAIN wire' = 1..Len(wire) + 1 /\ wire' # <<>>
        /\ Len(wire') = Len(wire) + 1 /\ wire'[Len(wire) + 1] = m
        /\ \A i \in 1..Len(wire) : wire'[i] = wire[i]
    BY <1>2, WireFacts, PushedFacts DEF Sent
  <2>2. ~m.full => /\ m.base = IF Len(wire) + 1 = 1 THEN painted ELSE wire[Len(wire)].body
                   /\ m.base.view = m.body.view
    BY <1>2, WireFacts DEF Sent, Chain
  <2>3. ASSUME NEW i \in DOMAIN wire', wire'[i].kind = "frame" /\ ~wire'[i].full
        PROVE  /\ wire'[i].base = IF i = 1 THEN painted' ELSE wire'[i - 1].body
               /\ wire'[i].base.view = wire'[i].body.view
    <3>1. CASE i = Len(wire) + 1
      <4>1. wire'[i] = m /\ ~m.full /\ painted' = painted
        BY <2>1, <2>3, <3>1, <1>2 DEF Sent
      <4>2. i # 1 => wire'[i - 1] = wire[Len(wire)] /\ Len(wire) + 1 # 1
        <5>1. Len(wire) \in Nat /\ i - 1 = Len(wire)
          BY <3>1, WireFacts
        <5>2. i # 1 => Len(wire) \in 1..Len(wire) /\ Len(wire) + 1 # 1
          BY <3>1, <5>1
        <5> QED BY <2>1, <5>1, <5>2
      <4> QED BY <2>2, <3>1, <4>1, <4>2
    <3>2. CASE i \in 1..Len(wire)
      <4>1. wire'[i] = wire[i] /\ (i # 1 => wire'[i - 1] = wire[i - 1])
        BY <2>1, <3>2, WireFacts
      <4> QED BY <2>3, <3>2, <4>1, <1>2, WireFacts DEF Sent, Chain
    <3> QED BY <2>1, <3>1, <3>2, WireFacts
  <2>4. last_fitted' = wire'[Len(wire')].body /\ last_fitted'.view = view'
    BY <1>2, <2>1 DEF Sent
  <2>5. painted' \in Bodies \cup {Blank}
    BY <1>2 DEF Sent, Chain
  <2> QED BY <2>1, <2>3, <2>4, <2>5 DEF Chain
<1>3. CASE ReadFrame
  <2>1. /\ wire # <<>> /\ wire' = Tail(wire) /\ Head(wire) = wire[1] /\ wire[1].kind = "frame"
        /\ 1 \in DOMAIN wire /\ DOMAIN wire' = 1..Len(wire) - 1 /\ Len(wire') = Len(wire) - 1
        /\ \A i \in 1..Len(wire) - 1 : wire'[i] = wire[i + 1]
        /\ wire' = <<>> <=> Len(wire) = 1
        /\ Len(wire) \in Nat \ {0}
    BY <1>3, WireFacts, PoppedFacts DEF ReadFrame
  <2>2. wire[1].body \in Bodies
    BY <2>1, WireFacts, MsgTypes
  <2>3. painted' = wire[1].body
    BY <1>3, <2>1 DEF ReadFrame, Paint, Chain
  <2>4. UNCHANGED <<writer, view, last_fitted>>
    BY <1>3 DEF ReadFrame, writerVars
  <2>5. ASSUME NEW i \in DOMAIN wire', wire'[i].kind = "frame" /\ ~wire'[i].full
        PROVE  /\ wire'[i].base = IF i = 1 THEN painted' ELSE wire'[i - 1].body
               /\ wire'[i].base.view = wire'[i].body.view
    <3>1. i + 1 \in DOMAIN wire /\ wire'[i] = wire[i + 1] /\ i + 1 # 1 /\ i + 1 - 1 = i
          /\ (i # 1 => wire'[i - 1] = wire[i])
      BY <2>1, WireFacts
    <3>2. /\ wire[i + 1].base = wire[i].body
          /\ wire[i + 1].base.view = wire[i + 1].body.view
      <4> DEFINE k == i + 1
      <4>1. k \in DOMAIN wire /\ k # 1 /\ k - 1 = i
        BY <2>1, <3>1, WireFacts
      <4>2. wire[k].kind = "frame" /\ ~wire[k].full
        BY <2>5, <3>1
      <4> HIDE DEF k
      <4>3. wire[k].base = wire[k - 1].body /\ wire[k].base.view = wire[k].body.view
        BY <4>1, <4>2 DEF Chain
      <4>4. wire[k].base = wire[i].body /\ wire[k].base.view = wire[k].body.view
        BY <4>1, <4>3
      <4> QED BY <4>4 DEF k
    <3> QED BY <2>3, <3>1, <3>2
  <2>6. wire' # <<>> => wire'[Len(wire')] = wire[Len(wire)]
    BY <2>1
  <2>7. wire' = <<>> => painted' = wire[Len(wire)].body
    BY <2>1, <2>3
  <2> QED BY <2>1, <2>2, <2>3, <2>4, <2>5, <2>6, <2>7 DEF Chain
<1>4. CASE ReadBye
  <2>1. wire[1].kind = "bye" /\ 1 \in DOMAIN wire /\ wire # <<>>
    BY <1>4, WireFacts, PoppedFacts DEF ReadBye, Bye
  <2>2. Len(wire) = 1 /\ writer = "done"
    BY <2>1 DEF Farewell
  <2>3. wire' = <<>> /\ DOMAIN wire' = {}
    BY <1>4, <2>1, <2>2, WireFacts, PoppedFacts DEF ReadBye
  <2> QED BY <1>4, <2>2, <2>3 DEF Chain, ReadBye, writerVars
<1>5. CASE WriteBye
  <2>1. /\ DOMAIN wire' = 1..Len(wire) + 1 /\ wire'[Len(wire) + 1].kind = "bye"
        /\ \A i \in 1..Len(wire) : wire'[i] = wire[i]
    BY <1>5, WireFacts, WrittenTypes, PushedFacts DEF WriteBye, Bye
  <2>2. writer' = "done" /\ painted' = painted
    BY <1>5 DEF WriteBye, writerRest, displayVars
  <2>3. \A i \in DOMAIN wire' : wire'[i].kind = "frame" =>
           /\ i \in DOMAIN wire /\ wire'[i] = wire[i]
           /\ i # 1 => wire'[i - 1] = wire[i - 1]
    BY <2>1, WireFacts
  <2> QED BY <2>2, <2>3 DEF Chain
<1> QED BY <1>1, <1>2, <1>3, <1>4, <1>5, WireStep

LEMMA EdgesStep ==
  ASSUME TypeOK, TypeOK', Chain, Edges, Farewell, [Next]_vars
  PROVE  Edges'
<1>1. CASE Quiet
  BY <1>1 DEF Quiet, Edges
<1>2. ASSUME NEW m \in Msgs, Sent(m) PROVE Edges'
  <2>1. /\ DOMAIN wire' = 1..Len(wire) + 1 /\ Len(wire') = Len(wire) + 1
        /\ wire'[Len(wire) + 1] = m /\ \A i \in 1..Len(wire) : wire'[i] = wire[i]
    BY <1>2, WireFacts, PushedFacts DEF Sent
  <2>2. PICK before \in BOOLEAN : before = IF writer = "first" THEN FALSE ELSE last_want
    BY DEF TypeOK
  <2>3. m.mode = Edge(before, last_want') /\ last_want' \in BOOLEAN /\ writer' = "loop"
    BY <1>2, <2>2 DEF Sent
  <2>4. /\ m.mode = "keep" => before = last_want'
        /\ m.mode # "keep" => last_want' = (m.mode = "on")
    BY <2>3, EdgeFacts
  <2>5. (\A i \in DOMAIN wire : wire[i].mode = "keep") => captured = before
    BY <1>2, <2>2, WireFacts DEF Edges, Sent
  <2>6. ASSUME \A i \in DOMAIN wire' : wire'[i].mode = "keep"
        PROVE  captured' = last_want'
    <3>1. m.mode = "keep" /\ \A i \in DOMAIN wire : wire[i].mode = "keep"
      BY <2>1, <2>6, WireFacts
    <3> QED BY <1>2, <2>4, <2>5, <3>1 DEF Sent
  <2>7. ASSUME NEW i \in DOMAIN wire', wire'[i].mode # "keep",
               \A j \in i + 1..Len(wire') : wire'[j].mode = "keep"
        PROVE  last_want' = (wire'[i].mode = "on")
    <3>1. CASE i = Len(wire) + 1
      BY <2>1, <2>4, <2>7, <3>1
    <3>2. CASE i \in 1..Len(wire)
      <4>1. m.mode = "keep" /\ wire'[i] = wire[i] /\ i \in DOMAIN wire /\ wire # <<>>
        BY <2>1, <2>7, <3>2, WireFacts
      <4>2. \A j \in i + 1..Len(wire) : wire[j].mode = "keep"
        BY <2>1, <2>7, <3>2, WireFacts
      <4>3. writer = "loop" /\ before = last_want
        BY <1>2, <2>2, <4>1 DEF Sent, Edges
      <4>4. last_want = (wire[i].mode = "on")
        BY <2>7, <4>1, <4>2, <4>3 DEF Edges
      <4> QED BY <2>4, <4>1, <4>3, <4>4
    <3> QED BY <2>1, <3>1, <3>2, WireFacts
  <2> QED BY <2>3, <2>6, <2>7 DEF Edges
<1>3. CASE ReadFrame
  <2>1. /\ wire # <<>> /\ wire[1] = Head(wire) /\ wire[1].kind = "frame" /\ wire[1] \in Msgs
        /\ DOMAIN wire' = 1..Len(wire) - 1 /\ Len(wire') = Len(wire) - 1
        /\ \A i \in 1..Len(wire) - 1 : wire'[i] = wire[i + 1]
        /\ Len(wire) \in Nat \ {0} /\ DOMAIN wire = 1..Len(wire)
    BY <1>3, WireFacts, PoppedFacts DEF ReadFrame
  <2>2. UNCHANGED <<writer, last_want>> /\ captured' = Mode(wire[1])
    BY <1>3, <2>1 DEF ReadFrame, writerVars
  <2>3. wire[1].mode \in Modes /\ writer \notin {"none", "first"} /\ captured \in BOOLEAN
    BY <2>1, MsgTypes DEF Bye, Edges, TypeOK
  <2>4. ASSUME writer = "loop", \A i \in DOMAIN wire' : wire'[i].mode = "keep"
        PROVE  captured' = last_want'
    <3>1. \A j \in 2..Len(wire) : wire[j].mode = "keep"
      <4>1. \A j \in 2..Len(wire) : j - 1 \in 1..Len(wire) - 1 /\ wire'[j - 1] = wire[j]
        BY <2>1
      <4> QED BY <2>1, <2>4, <4>1
    <3>2. CASE wire[1].mode = "keep"
      <4>1. \A j \in DOMAIN wire : wire[j].mode = "keep"
        BY <2>1, <3>1, <3>2
      <4> QED BY <2>2, <2>4, <3>2, <4>1 DEF Edges, Mode
    <3>3. CASE wire[1].mode # "keep"
      <4>1. last_want = (wire[1].mode = "on")
        BY <2>1, <2>4, <3>1, <3>3 DEF Edges
      <4> QED BY <2>2, <2>3, <3>3, <4>1 DEF Mode, Modes
    <3> QED BY <3>2, <3>3
  <2>5. ASSUME writer = "loop", NEW i \in DOMAIN wire', wire'[i].mode # "keep",
               \A j \in i + 1..Len(wire') : wire'[j].mode = "keep"
        PROVE  last_want' = (wire'[i].mode = "on")
    <3>1. PICK k \in DOMAIN wire : k = i + 1 /\ wire'[i] = wire[k]
      BY <2>1
    <3>2. \A j \in k + 1..Len(wire) : wire[j].mode = "keep"
      <4>1. \A j \in k + 1..Len(wire) : /\ j - 1 \in i + 1..Len(wire') /\ j - 1 \in 1..Len(wire) - 1
                                        /\ j - 1 + 1 = j
        BY <2>1, <3>1
      <4>2. \A j \in k + 1..Len(wire) : wire'[j - 1] = wire[j]
        BY <2>1, <4>1
      <4> QED BY <2>5, <4>1, <4>2
    <3> QED BY <2>2, <2>5, <3>1, <3>2 DEF Edges
  <2> QED BY <2>2, <2>3, <2>4, <2>5 DEF Edges
<1>4. CASE ReadBye
  <2>1. wire[1].kind = "bye" /\ 1 \in DOMAIN wire
    BY <1>4, WireFacts, PoppedFacts DEF ReadBye, Bye
  <2>2. writer' = "done"
    BY <1>4, <2>1 DEF Farewell, ReadBye, writerVars
  <2> QED BY <2>2 DEF Edges
<1>5. CASE WriteBye
  BY <1>5 DEF WriteBye, Edges
<1> QED BY <1>1, <1>2, <1>3, <1>4, <1>5, WireStep

-----------------------------------------------------------------------------
(* The goodbye                                                             *)

\* Messages leave at the front and nothing else happens to them.
LEMMA FarewellRead ==
  ASSUME TypeOK, Farewell, ReadFrame \/ ReadBye
  PROVE  Farewell'
<1>1. /\ wire # <<>> /\ wire' = Tail(wire) /\ Len(wire) \in Nat \ {0}
      /\ DOMAIN wire = 1..Len(wire) /\ DOMAIN wire' = 1..Len(wire) - 1
      /\ Len(wire') = Len(wire) - 1 /\ \A i \in 1..Len(wire) - 1 : wire'[i] = wire[i + 1]
      /\ Head(wire) = wire[1]
  BY WireFacts, PoppedFacts DEF ReadFrame, ReadBye
<1>2. UNCHANGED <<writer, server, control>>
  BY DEF ReadFrame, ReadBye, mailVars, writerVars
<1>3. \A i \in DOMAIN wire' : wire'[i].kind = "bye" => i = Len(wire') /\ writer' = "done"
  BY <1>1, <1>2 DEF Farewell
<1>4. ASSUME writer = "done", client' # "gone"
      PROVE  wire' # <<>> /\ wire'[Len(wire')].kind = "bye"
  <2>1. wire[1].kind = "frame" /\ client # "gone"
    BY <1>1, <1>4 DEF ReadFrame, ReadBye
  <2>2. wire[Len(wire)].kind = "bye"
    BY <1>4, <2>1 DEF Farewell
  <2>3. Len(wire) # 1
    BY <2>1, <2>2
  <2>4. Len(wire') \in 1..Len(wire) - 1 /\ wire'[Len(wire')] = wire[Len(wire)]
    BY <1>1, <2>3
  <2>5. wire' # <<>>
    BY SMTT(30), <1>1, <2>4
  <2> QED BY <2>2, <2>4, <2>5
<1>5. client' # "gone" => client # "gone"
  BY DEF ReadFrame, ReadBye, clientVars
<1> QED BY <1>2, <1>3, <1>4, <1>5 DEF Farewell

\* A frame is sent.
LEMMA FarewellSent ==
  ASSUME TypeOK, Farewell, NEW m \in Msgs, Sent(m)
  PROVE  \A i \in DOMAIN wire' : wire'[i].kind # "bye"
<1>1. /\ DOMAIN wire' = 1..Len(wire) + 1 /\ wire'[Len(wire) + 1] = m
      /\ \A i \in 1..Len(wire) : wire'[i] = wire[i]
  BY WireFacts, PushedFacts DEF Sent
<1>2. \A i \in 1..Len(wire) : wire[i].kind # "bye"
  BY WireFacts DEF Farewell, Sent
<1> QED BY <1>1, <1>2, WireFacts DEF Sent

LEMMA FarewellStep ==
  ASSUME TypeOK, TypeOK', Farewell, Edges, [Next]_vars
  PROVE  Farewell'
<1> USE DEF clientVars, displayVars, mailVars, writerVars, writerRest
<1>1. CASE UNCHANGED vars
  BY <1>1 DEF vars, Farewell
<1>2. ASSUME NEW d \in Sizes, TerminalResize(d) PROVE Farewell'
  BY <1>2 DEF TerminalResize, Farewell
<1>3. CASE Hello \/ Runs \/ HandleWinch \/ ReadEof \/ Quits
  BY <1>3 DEF Hello, Runs, HandleWinch, ReadEof, Quits, Farewell
<1>4. ASSUME NEW f \in Frames, Connected(f) \/ Publishes(f) PROVE Farewell'
  BY <1>4 DEF Connected, Publishes, Farewell
<1>5. CASE Resized
  BY <1>5 DEF Resized, Farewell
<1>6. CASE Dismisses
  <2>1. control' # <<>> /\ control'[Len(control')].kind = "bye"
    <3>1. [kind |-> "bye"] \in Orders /\ control \in Seq(Orders)
      BY DEF Orders, TypeOK
    <3>2. control' = Append(control, [kind |-> "bye"])
      BY <1>6 DEF Dismisses
    <3>3. PICK o \in Orders : o = [kind |-> "bye"] /\ control' = Append(control, o)
      BY <3>1, <3>2
    <3> QED BY <3>1, <3>3, PushedFacts
  <2> QED BY <1>6, <2>1 DEF Dismisses, Farewell
<1>7. CASE Forgets
  BY <1>7 DEF Forgets, Farewell
<1>8. CASE ReadFrame \/ ReadBye
  BY <1>8, FarewellRead
<1>9. CASE WriteFirst
  <2>1. \A i \in DOMAIN wire' : wire'[i].kind # "bye"
    BY <1>9, FirstSent, FarewellSent
  <2> QED BY <1>9, <2>1 DEF WriteFirst, Farewell
<1>10. CASE WriteResized
  <2>1. \A i \in DOMAIN wire' : wire'[i].kind # "bye"
    BY <1>10, ResizedSent, FarewellSent
  <2>2. ASSUME server = "removed", client # "gone"
        PROVE  control' # <<>> /\ control'[Len(control')].kind = "bye"
    <3>1. /\ control # <<>> /\ Head(control).kind = "resize" /\ control' = Tail(control)
          /\ writer = "loop" /\ control \in Seq(Orders)
      BY <1>10 DEF WriteResized, TypeOK
    <3>2. control[Len(control)].kind = "bye"
      BY <2>2, <3>1 DEF Farewell
    <3>3. /\ Len(control) \in Nat \ {0} /\ Head(control) = control[1]
          /\ Len(control') = Len(control) - 1 /\ (control' = <<>> <=> Len(control) = 1)
          /\ \A i \in 1..Len(control) - 1 : control'[i] = control[i + 1]
      BY <3>1, PoppedFacts
    <3>4. Len(control) # 1
      BY <3>1, <3>2, <3>3
    <3>5. Len(control') \in 1..Len(control) - 1 /\ Len(control') + 1 = Len(control)
      BY <3>3, <3>4
    <3>6. control'[Len(control')] = control[Len(control)]
      BY <3>3, <3>5
    <3> QED BY <3>2, <3>3, <3>4, <3>6
  <2> QED BY <1>10, <2>1, <2>2 DEF WriteResized, Farewell
<1>11. CASE WriteBye
  <2>1. /\ wire' # <<>> /\ wire'[Len(wire')].kind = "bye"
        /\ DOMAIN wire' = 1..Len(wire) + 1 /\ Len(wire') = Len(wire) + 1
        /\ \A i \in 1..Len(wire) : wire'[i] = wire[i]
    BY <1>11, WireFacts, WrittenTypes, PushedFacts DEF WriteBye, Bye
  <2>2. \A i \in 1..Len(wire) : wire[i].kind # "bye"
    BY <1>11, WireFacts DEF WriteBye, Farewell
  <2>3. \A i \in DOMAIN wire' : wire'[i].kind = "bye" => i = Len(wire')
    BY <2>1, <2>2, WireFacts
  <2> QED BY <1>11, <2>1, <2>3 DEF WriteBye, Farewell
<1>12. CASE WriteFrame
  <2>1. \A i \in DOMAIN wire' : wire'[i].kind # "bye"
    <3>1. CASE wire' = wire
      BY <1>12, <3>1 DEF WriteFrame, Farewell
    <3>2. CASE \E m \in Msgs : Sent(m)
      BY <3>2, FarewellSent
    <3> QED BY <1>12, <3>1, <3>2, FrameSent DEF Quiet
  <2> QED BY <1>12, <2>1 DEF WriteFrame, Farewell
<1>13. CASE WriterEnds
  BY <1>13 DEF WriterEnds, WriteFails, QueueFirst, Farewell
<1>14. CASE WriterAborted
  BY <1>14 DEF WriterAborted, Farewell
<1> QED
  BY <1>1, <1>2, <1>3, <1>4, <1>5, <1>6, <1>7, <1>8, <1>9, <1>10, <1>11, <1>12, <1>13, <1>14
     DEF Next, Client, Writer

-----------------------------------------------------------------------------

LEMMA InStepInit == Init => InStepInv
<1> SUFFICES ASSUME Init PROVE InStepInv
  OBVIOUS
<1>1. /\ wire = <<>> /\ writer = "none" /\ server = "new" /\ painted = Blank /\ captured = FALSE
  BY DEF Init
<1> QED BY <1>1, TypeInit DEF InStepInv, Chain, Edges, Farewell

LEMMA InStepAlways == Spec => []InStepInv
<1>1. InStepInv /\ [Next]_vars => InStepInv'
  BY TypeStep, ChainStep, EdgesStep, FarewellStep DEF InStepInv
<1> QED BY <1>1, InStepInit, PTL DEF Spec

LEMMA InStepSuffices == InStepInv => WriterInStep
<1> SUFFICES ASSUME InStepInv PROVE WriterInStep
  OBVIOUS
<1>1. NeverTorn
  BY BodyFacts DEF InStepInv, Chain, NeverTorn
<1>2. CaptureInStep
  BY DEF InStepInv, Edges, CaptureInStep
<1>3. LastWordWritten
  <2>1. ASSUME writer = "done", client # "gone"
        PROVE  wire[Len(wire)] = Bye
    <3>1. wire # <<>> /\ wire[Len(wire)].kind = "bye" /\ Len(wire) \in DOMAIN wire
      BY <2>1, WireFacts DEF InStepInv, Farewell
    <3> QED BY <3>1, WireFacts, MsgTypes DEF InStepInv
  <2>2. \A i \in 1..Len(wire) - 1 : wire[i].kind # "bye"
    BY WireFacts DEF InStepInv, Farewell
  <2>3. \A i \in 1..Len(wire) - 1 : wire[i] # Bye
    BY <2>2 DEF Bye
  <2> QED BY <2>1, <2>3 DEF LastWordWritten, InStepInv, Farewell
<1> QED BY <1>1, <1>2, <1>3 DEF WriterInStep, InStepInv

\* For any sizes, texts and bounds: a difference is only ever applied to what it was
\* taken from, mouse reporting ends up as the last frame wanted it, and the goodbye is
\* written once and last (spawn_writer, server/mod.rs).
THEOREM WriterInStepHolds == Spec => []WriterInStep
BY InStepAlways, InStepSuffices, PTL
=============================================================================
