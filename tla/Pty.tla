--------------------------------- MODULE Pty --------------------------------
(***************************************************************************)
(* What is behind a pane (src/pane/mod.rs: PaneRuntime; src/server/mod.rs: *)
(* spawn_pane_forwarder and the PaneOutput arms of run; src/session.rs:    *)
(* spawn_pane, feed, write_to_pane, close).  A child and perhaps a job it  *)
(* leaves behind share a PTY whose two directions have room for so much.   *)
(* A thread reads the PTY and sends on a channel, a task forwards from the *)
(* channel to the events of the loop, the loop feeds the pane's screen,    *)
(* which may answer.  Whatever is written to the child is written by the   *)
(* loop itself, which waits for room (write_all).                          *)
(***************************************************************************)
EXTENDS Naturals, Sequences, SequencesExt

CONSTANTS Ids,       \* the ids of panes, in the order of next_pane_id: 1..n
          MaxSaid,   \* bound on what the processes of a pane say
          MaxTyped   \* bound on what is typed

\* What each direction of a PTY holds, in units of what is said at once.
PtyRoom == 1

VARIABLES tty,       \* the processes that hold the terminal of each pane
          child,     \* what the child is about to do
          said,      \* how much was said in each pane
          input,     \* what of the input the child has not read
          output,    \* what was said and not read by the thread
          reader,    \* the reader thread
          chan,      \* the channel from the thread to the forwarder
          events,    \* the events of the loop
          writing,   \* what the loop is in the middle of writing, and to whom
          panes,     \* the panes of the session
          fed,       \* what the screen of each pane was fed
          closing,   \* the runtimes handed to spawn_blocking
          typed      \* a count of what was typed

ttyVars  == <<tty, child, said, input, output>>
flowVars == <<reader, chan, events>>
vars     == <<ttyVars, flowVars, writing, panes, fed, closing, typed>>

Nobody  == [to |-> 0, left |-> 0]
Exited  == 0
Empty   == [p \in Ids |-> <<>>]

Init ==
  /\ tty = [p \in Ids |-> {}] /\ child = [p \in Ids |-> "none"]
  /\ said = [p \in Ids |-> 0] /\ input = [p \in Ids |-> 0]
  /\ output = Empty /\ chan = Empty /\ events = <<>> /\ fed = Empty
  /\ reader = [p \in Ids |-> "none"]
  /\ writing = Nobody /\ panes = {} /\ closing = {} /\ typed = 0

-----------------------------------------------------------------------------
(* The processes of a pane                                                 *)

\* What may still be said, besides what the child is about to say.
Unsaid(p) == MaxSaid - said[p] - (IF child[p] = "says" THEN 1 ELSE 0)

MaySay(p, who) ==
  /\ who \in tty[p]
  /\ IF who = "child" THEN child[p] = "says" ELSE Unsaid(p) > 0
  /\ Len(output[p]) < PtyRoom

\* A chunk is numbered from 1; it may hold a query that the terminal answers.
Says(p, who) ==
  /\ MaySay(p, who)
  /\ said' = [said EXCEPT ![p] = @ + 1]
  /\ \E asks \in BOOLEAN :
       output' = [output EXCEPT ![p] = Append(@, [of |-> p, n |-> said'[p], asks |-> asks])]
  /\ child' = IF who = "child" THEN [child EXCEPT ![p] = "hears"] ELSE child
  /\ UNCHANGED <<tty, input, flowVars, writing, panes, fed, closing, typed>>

MayHear(p) == child[p] = "hears" /\ input[p] > 0

\* The child reads, and may have to say something before it reads again.
Hears(p) ==
  /\ MayHear(p)
  /\ input' = [input EXCEPT ![p] = @ - 1]
  /\ \E next \in {"hears"} \cup {s \in {"says"} : Unsaid(p) > 0} :
       child' = [child EXCEPT ![p] = next]
  /\ UNCHANGED <<tty, said, output, flowVars, writing, panes, fed, closing, typed>>

\* It says something of its own accord, stops listening, or leaves a job behind.
Turns(p) ==
  /\ child[p] = "hears"
  /\ \/ /\ Unsaid(p) > 0 /\ child' = [child EXCEPT ![p] = "says"] /\ UNCHANGED tty
     \/ child' = [child EXCEPT ![p] = "deaf"] /\ UNCHANGED tty
     \/ tty' = [tty EXCEPT ![p] = @ \cup {"job"}] /\ UNCHANGED child
  /\ UNCHANGED <<said, input, output, flowVars, writing, panes, fed, closing, typed>>

Dies(p, who) ==
  /\ who \in tty[p]
  /\ tty' = [tty EXCEPT ![p] = @ \ {who}]
  /\ child' = IF who = "child" THEN [child EXCEPT ![p] = "none"] ELSE child
  /\ UNCHANGED <<said, input, output, flowVars, writing, panes, fed, closing, typed>>

-----------------------------------------------------------------------------
(* The thread and the forwarder                                            *)

\* Both channels are unbounded: a send never waits.
SendableOne(queue) == Len(queue) < 1
Sendable(queue)    == TRUE

MayRead(p) == reader[p] = "reads" /\ output[p] # <<>> /\ Sendable(chan[p])

Reads(p) ==
  /\ MayRead(p)
  /\ chan' = [chan EXCEPT ![p] = Append(@, Head(output[p]))]
  /\ output' = [output EXCEPT ![p] = Tail(@)]
  /\ UNCHANGED <<tty, child, said, input, reader, events, writing, panes, fed, closing, typed>>

\* The end of the terminal: nobody holds it and nothing is left to read.
Eof(p)      == tty[p] = {} /\ output[p] = <<>>

ReaderEndsOn(p, over) ==
  /\ reader[p] = "reads" /\ over
  /\ reader' = [reader EXCEPT ![p] = "over"]
  /\ chan' = [chan EXCEPT ![p] = Append(@, [of |-> p, n |-> Exited])]
  /\ UNCHANGED <<ttyVars, events, writing, panes, fed, closing, typed>>

ReaderEndsWithChild(p) == ReaderEndsOn(p, "child" \notin tty[p])
ReaderEnds(p)          == ReaderEndsOn(p, Eof(p))

MayForward(p) == chan[p] # <<>> /\ Sendable(events)

Forwards(p) ==
  /\ MayForward(p)
  /\ events' = Append(events, Head(chan[p]))
  /\ chan' = [chan EXCEPT ![p] = Tail(@)]
  /\ UNCHANGED <<ttyVars, reader, writing, panes, fed, closing, typed>>

-----------------------------------------------------------------------------
(* The loop                                                                *)

Idle == writing = Nobody

\* An id is never used again; the thread and the forwarder start with the pane.
SpawnPane(p) ==
  /\ Idle /\ \A q \in Ids : (q < p) <=> (reader[q] # "none")
  /\ tty' = [tty EXCEPT ![p] = {"child"}] /\ child' = [child EXCEPT ![p] = "hears"]
  /\ reader' = [reader EXCEPT ![p] = "reads"]
  /\ panes' = panes \cup {p}
  /\ UNCHANGED <<said, input, output, chan, events, writing, fed, closing, typed>>

\* Keys, pastes and the text of a command go to any live pane.
WriteToPane(p, size) ==
  /\ Idle /\ p \in panes /\ typed + size <= MaxTyped
  /\ typed' = typed + size
  /\ writing' = [to |-> p, left |-> size]
  /\ UNCHANGED <<ttyVars, flowVars, panes, fed, closing>>

\* write_all goes on as room comes up; an error ends it and is ignored.
Writes ==
  /\ ~Idle
  /\ LET p == writing.to
     IN  \/ /\ input[p] < PtyRoom
            /\ input' = [input EXCEPT ![p] = @ + 1]
            /\ writing' = IF writing.left = 1 THEN Nobody
                          ELSE [writing EXCEPT !.left = @ - 1]
         \/ tty[p] = {} /\ writing' = Nobody /\ UNCHANGED input
  /\ UNCHANGED <<tty, child, said, output, flowVars, panes, fed, closing, typed>>

\* Output of a pane that is gone is dropped; an answer is written at once.
Feed ==
  /\ Idle /\ events # <<>> /\ Head(events).n # Exited
  /\ events' = Tail(events)
  /\ LET chunk == Head(events)
         p     == chunk.of
     IN  IF p \in panes
         THEN /\ fed' = [fed EXCEPT ![p] = Append(@, chunk)]
              /\ writing' = IF chunk.asks THEN [to |-> p, left |-> 1] ELSE Nobody
         ELSE UNCHANGED <<fed, writing>>
  /\ UNCHANGED <<ttyVars, reader, chan, panes, closing, typed>>

PaneExited ==
  /\ Idle /\ events # <<>> /\ Head(events).n = Exited
  /\ events' = Tail(events)
  /\ closing' = closing \cup ({Head(events).of} \cap panes)
  /\ panes' = panes \ {Head(events).of}
  /\ UNCHANGED <<ttyVars, reader, chan, writing, fed, typed>>

ClosePane(p) ==
  /\ Idle /\ p \in panes
  /\ panes' = panes \ {p} /\ closing' = closing \cup {p}
  /\ UNCHANGED <<ttyVars, flowVars, writing, fed, typed>>

\* ChildKiller: kill and wait, off the loop; a job is not its child.
Kills(p) ==
  /\ p \in closing
  /\ closing' = closing \ {p}
  /\ tty' = [tty EXCEPT ![p] = @ \ {"child"}]
  /\ child' = [child EXCEPT ![p] = "none"]
  /\ UNCHANGED <<said, input, output, flowVars, writing, panes, fed, typed>>

Next ==
  \/ \E p \in Ids : \/ \E who \in {"child", "job"} : Says(p, who) \/ Dies(p, who)
                    \/ Hears(p) \/ Turns(p) \/ Reads(p) \/ ReaderEnds(p) \/ Forwards(p)
                    \/ SpawnPane(p) \/ ClosePane(p) \/ Kills(p)
                    \/ \E size \in 1..MaxTyped : WriteToPane(p, size)
  \/ Writes \/ Feed \/ PaneExited

Spec == Init /\ [][Next]_vars

-----------------------------------------------------------------------------
(* What is asked of it                                                     *)

\* A pane that goes because its terminal ended ("a one-time exit signal") was fed
\* everything that was ever said in it, once and in order, be it by a job the shell
\* left behind, and no process is left in it.  Three queues lie in between.
ExitIsLast ==
  [][\A p \in panes \ panes' :
       PaneExited => /\ tty[p] = {} /\ Len(fed[p]) = said[p]
                     /\ \A i \in DOMAIN fed[p] : fed[p][i].of = p /\ fed[p][i].n = i]_vars

\* Loop, child and thread never wait for each other in a ring: when the loop waits
\* for room in the input of a child that still listens, then the child, the thread
\* or the forwarder has a step to take that brings the room closer (the conditions
\* are those of Writes, Hears, Says, Reads and Forwards).
NoStandoff ==
  ~Idle => LET p == writing.to
           IN  \/ child[p] \in {"deaf", "none"}
               \/ input[p] < PtyRoom \/ tty[p] = {}
               \/ MayHear(p) \/ MaySay(p, "child") \/ MayRead(p) \/ MayForward(p)
=============================================================================
