------------------------------- MODULE Server -------------------------------
(***************************************************************************)
(* The central loop of the daemon (src/server/mod.rs, `run`): one task     *)
(* that owns the session and takes events from every client's reader and   *)
(* writer, from the panes' forwarders and from management connections, and *)
(* publishes frames on a 16 ms tick.                                       *)
(*                                                                         *)
(* A handler is one action, but a batch of input, whose events the loop    *)
(* applies one after another, is a turn of several: readers and writers    *)
(* are other tasks and go on meanwhile.  The events waiting in ev_rx are   *)
(* not kept: a sender never looks at the loop again after it has sent, so  *)
(* taking an event when it is handled gives the same orders.               *)
(*                                                                         *)
(* Of the session (module Session) the loop reads four things: whether     *)
(* copy mode is on, the picture compose() makes, the viewport it has, and  *)
(* whether it is empty.  `told` is auxiliary.                              *)
(***************************************************************************)
EXTENDS Naturals, FiniteSets

CONSTANTS Clients,      \* client ids ever given out; an id is never reused
          Sizes,        \* terminal sizes
          Scenes        \* pictures of the session, sizes and owner apart

ASSUME ClientsAssumption == IsFiniteSet(Clients)
ASSUME SizesAssumption  == Sizes # {}
ASSUME ScenesAssumption == Scenes # {}

None == "none"
ASSUME NoneAssumption == None \notin Clients

VARIABLES clients,      \* the client map's keys
          size,         \* each client's last-known terminal size
          stamp,        \* each client's last_activity, as a rank
          mailbox,      \* each client's grid_tx: the latest frame, no others
          escaping,     \* each client's escape_deadline is set
          foreground, copy_mode_owner, dirty,
          copy, scene, dims, empty,     \* the session
          pc,           \* "idle", "turn", "tick" or "stopped"
          turn,         \* the batch of input being applied
          due,          \* in a tick: clients whose lone ESC is still to flush
          reader,       \* each connection's reader: "new", "open" or "done"
          writer,       \* each client's writer task, in the same way
          told          \* the last word queued for a client's writer

clientVars  == <<clients, size, stamp, mailbox, escaping>>
sessionVars == <<copy, scene, dims, empty>>
loopVars    == <<pc, turn, due>>
taskVars    == <<reader, writer>>
vars == <<clientVars, foreground, copy_mode_owner, dirty, sessionVars,
          loopVars, taskVars, told>>

NoFrame == [scene |-> None]
NoTurn  == [client |-> None]

\* compose(): what a client's writer is given to show.
Frame(s, d, o) == [scene |-> s, dims |-> d, owner |-> o]

Init ==
  /\ clients = {}
  /\ size = [c \in Clients |-> None]
  /\ stamp = [c \in Clients |-> 0]
  /\ mailbox = [c \in Clients |-> NoFrame]
  /\ escaping = [c \in Clients |-> FALSE]
  /\ foreground = None
  /\ copy_mode_owner = None /\ dirty = FALSE
  /\ copy = FALSE /\ scene \in Scenes /\ dims \in Sizes /\ empty = FALSE
  /\ pc = "idle" /\ turn = NoTurn /\ due = {}
  /\ reader = [c \in Clients |-> "new"]
  /\ writer = [c \in Clients |-> "new"]
  /\ told = [c \in Clients |-> None]

-----------------------------------------------------------------------------
(* Pieces shared by the handlers                                           *)

\* promote.  The code stamps with a counter that only grows; what is read of
\* the stamps is their order, so that here they are ranks up to Newest.
Newest == Cardinality(Clients)
Promoted(c) ==
  /\ foreground' = c
  /\ stamp' = [d \in Clients |-> IF d = c THEN Newest
                                 ELSE IF stamp[d] > stamp[c] THEN stamp[d] - 1
                                 ELSE stamp[d]]

\* session.resize: a menu whose anchor no longer fits goes with it.
Resized(d) == dims' = d /\ scene' \in Scenes

\* The clients with the highest stamp (one, but for ties).
Latest(cs) == {c \in cs : \A d \in cs : stamp[d] <= stamp[c]}

\* remove_client: the latest of the others takes over, if there is one.
TakesOver(c) == foreground = c /\ clients \ {c} # {}

\* A client's entry in the map, and all that is kept there, is dropped.
Dropped(c) ==
  /\ clients' = clients \ {c}
  /\ size' = [size EXCEPT ![c] = None]
  /\ stamp' = [stamp EXCEPT ![c] = 0]
  /\ mailbox' = [mailbox EXCEPT ![c] = NoFrame]
  /\ escaping' = [escaping EXCEPT ![c] = FALSE]

\* Mutant: the survivor is promoted and the session keeps its size.
RemovedUnsized(c) ==
  /\ Dropped(c)
  /\ IF TakesOver(c) THEN foreground' \in Latest(clients \ {c})
     ELSE foreground' = IF foreground = c THEN None ELSE foreground
  /\ UNCHANGED <<dims, scene>>

Removed(c) ==
  /\ Dropped(c)
  /\ IF TakesOver(c)
     THEN foreground' \in Latest(clients \ {c}) /\ Resized(size[foreground'])
     ELSE /\ foreground' = IF foreground = c THEN None ELSE foreground
          /\ UNCHANGED <<dims, scene>>

\* Mutant: the owner is left to the next batch of input.
OwnerAnyway(on) == copy_mode_owner' = copy_mode_owner

\* Copy mode may have ended: clear the owner.
OwnerIf(on) == copy_mode_owner' = IF on THEN copy_mode_owner ELSE None

\* Mutant: only the foreground client is told.
StopForeground ==
  /\ pc' = "stopped"
  /\ told' = [c \in Clients |-> IF c = foreground THEN "closed" ELSE told[c]]
  /\ clients' = {}
  /\ foreground' = None

\* Teardown, close_all: Closed is queued for everyone still attached.
Stop ==
  /\ pc' = "stopped"
  /\ told' = [c \in Clients |-> IF c \in clients THEN "closed" ELSE told[c]]
  /\ clients' = {}
  /\ foreground' = None

-----------------------------------------------------------------------------
(* Clients coming, resizing and going                                      *)

\* Event::ClientConnected: everyone gets the first frame at the new size.
Connect(c, d) ==
  /\ pc = "idle"
  /\ reader[c] = "new"
  /\ Resized(d)
  /\ OwnerIf(copy)
  /\ clients' = clients \cup {c}
  /\ mailbox' = [x \in Clients |-> IF x \in clients'
                                   THEN Frame(scene', dims', copy_mode_owner')
                                   ELSE mailbox[x]]
  /\ size' = [size EXCEPT ![c] = d]
  /\ Promoted(c)
  /\ dirty' = FALSE
  /\ reader' = [reader EXCEPT ![c] = "open"]
  /\ writer' = [writer EXCEPT ![c] = "open"]
  /\ UNCHANGED <<escaping, copy, empty, loopVars, told>>

\* Event::ClientResize, which a client that has detached may still send.
ClientResize(c, d) ==
  /\ pc = "idle"
  /\ reader[c] = "open"
  /\ size' = IF c \in clients THEN [size EXCEPT ![c] = d] ELSE size
  /\ IF foreground = c THEN Resized(d) /\ dirty' = TRUE
                       ELSE UNCHANGED <<dims, scene, dirty>>
  /\ UNCHANGED <<clients, stamp, mailbox, escaping, foreground, copy_mode_owner,
                 copy, empty, loopVars, taskVars, told>>

\* Mutant: only a client still in the map gives copy mode back.
LeavesCopyAttached(c) == copy_mode_owner = c /\ c \in clients
LeavesCopy(c) == copy_mode_owner = c

\* Mutant: leaving copy mode does not redraw.
GoneDirtyUnlessCopy(c) == dirty \/ TakesOver(c)
GoneDirty(c) == dirty \/ TakesOver(c) \/ LeavesCopy(c)

\* Event::ClientGone.
Gone(c) ==
  /\ pc = "idle"
  /\ Removed(c)
  /\ dirty' = GoneDirty(c)
  /\ copy' = (copy /\ ~LeavesCopy(c))
  /\ copy_mode_owner' = IF LeavesCopy(c) THEN None ELSE copy_mode_owner
  /\ UNCHANGED <<empty, loopVars, told>>

\* The connection's reading half ends.
ReaderGone(c) ==
  /\ reader[c] = "open"
  /\ Gone(c)
  /\ reader' = [reader EXCEPT ![c] = "done"]
  /\ UNCHANGED writer

\* A write to the client fails; its reader may go on for a while.
WriterGone(c) ==
  /\ writer[c] = "open"
  /\ Gone(c)
  /\ writer' = [writer EXCEPT ![c] = "done"]
  /\ UNCHANGED reader

-----------------------------------------------------------------------------
(* A batch of input                                                        *)

\* The parser's copy-mode bit, read once for the whole batch.
CopyBit(c) == copy /\ copy_mode_owner = c

\* commit_input: the sender takes the foreground and, if it did not have it,
\* the geometry; a batch of wheel events alone takes neither.
Begin(c, wheel, tick) ==
  /\ pc' = "turn"
  /\ turn' = [client |-> c, bit |-> CopyBit(c), wheel |-> wheel, tick |-> tick]
  /\ IF wheel THEN UNCHANGED <<foreground, stamp, dims, scene, dirty>>
     ELSE /\ Promoted(c)
          /\ IF foreground = c THEN UNCHANGED <<dims, scene, dirty>>
                               ELSE Resized(size[c]) /\ dirty' = TRUE
  /\ UNCHANGED <<clients, size, mailbox, copy_mode_owner, copy, empty, taskVars,
                 told>>

\* Event::ClientInput.  The bytes of a client that has left parse to nothing,
\* and only the owner is reconciled, which changes nothing (OwnerMatchesCopy).
ClientInput(c, wheel) ==
  /\ pc = "idle"
  /\ c \in clients /\ reader[c] = "open"
  /\ Begin(c, wheel, FALSE)
  /\ \E held \in BOOLEAN : escaping' = [escaping EXCEPT ![c] = held]
  /\ UNCHANGED due

\* The bytes are the start of an escape sequence and parse to nothing yet.
EscapeHeld(c) ==
  /\ pc = "idle"
  /\ c \in clients /\ reader[c] = "open"
  /\ escaping' = [escaping EXCEPT ![c] = TRUE]
  /\ UNCHANGED <<clients, size, stamp, mailbox, foreground, copy_mode_owner,
                 dirty, sessionVars, loopVars, taskVars, told>>

InTurn == pc = "turn"
Typed  == InTurn /\ ~turn.wheel /\ ~turn.tick
turnRest == <<size, stamp, mailbox, escaping, loopVars, taskVars>>

\* A command, an event an overlay takes, the owner's copy keys and mouse, a
\* lone Escape: the picture changes and copy mode may end.
Acts ==
  /\ InTurn /\ ~turn.wheel
  /\ scene' \in Scenes
  /\ copy' \in {copy, FALSE}
  /\ dirty' = TRUE
  /\ UNCHANGED <<clients, foreground, copy_mode_owner, dims, empty, turnRest,
                 told>>

\* A wheel event.  In copy mode that of a client other than the owner is
\* dropped, unless an overlay scrolls.
Wheels ==
  /\ InTurn /\ ~turn.tick
  /\ scene' \in Scenes
  /\ dirty' = TRUE
  /\ UNCHANGED <<clients, foreground, copy_mode_owner, copy, dims, empty,
                 turnRest, told>>

\* The last pane is closed.
ClosesLast ==
  /\ Typed
  /\ empty' = TRUE
  /\ copy' = FALSE
  /\ dirty' = TRUE
  /\ UNCHANGED <<clients, foreground, copy_mode_owner, scene, dims, turnRest,
                 told>>

\* Command::EnterCopyMode.  In copy mode only a prefix that an earlier batch left
\* armed makes a command of a key, and what the batch began with may be over.
EntersCopy ==
  /\ Typed
  /\ ~copy /\ ~empty
  /\ copy' = TRUE
  /\ scene' \in Scenes
  /\ dirty' = TRUE
  /\ UNCHANGED <<clients, foreground, copy_mode_owner, dims, empty, turnRest, told>>

\* A press and then a drag: the owner is set at once, for the drags that
\* follow in the batch, even if copy mode refuses to start.
DragsIntoCopy ==
  /\ Typed
  /\ ~copy
  /\ turn.client \in clients
  /\ copy' \in {FALSE, ~empty}
  /\ copy_mode_owner' = turn.client
  /\ scene' \in Scenes
  /\ dirty' = TRUE
  /\ UNCHANGED <<clients, foreground, dims, empty, turnRest, told>>

\* Command::Detach, as above; a second one in the batch finds the client gone.
Detaches ==
  /\ Typed
  /\ Removed(turn.client)
  /\ dirty' = TRUE
  /\ told' = IF turn.client \in clients
             THEN [told EXCEPT ![turn.client] = "detach"] ELSE told
  /\ UNCHANGED <<copy_mode_owner, copy, empty, loopVars, taskVars>>

\* The owner after the events of client c.
OwnerAfter(c) == IF ~copy THEN None
                 ELSE IF copy_mode_owner = None THEN c ELSE copy_mode_owner

Finished == empty

\* After the last event the owner is reconciled; a tick then goes on with its
\* next client, and an empty session ends the loop.
EndTurn ==
  /\ InTurn
  /\ copy_mode_owner' = OwnerAfter(turn.client)
  /\ turn' = NoTurn
  /\ IF Finished /\ ~turn.tick THEN Stop
     ELSE /\ pc' = IF turn.tick THEN "tick" ELSE "idle"
          /\ UNCHANGED <<clients, foreground, told>>
  /\ UNCHANGED <<size, stamp, mailbox, escaping, dirty, sessionVars,
                 due, taskVars>>

-----------------------------------------------------------------------------
(* The tick                                                                *)

\* Every lone Escape whose deadline has passed is flushed, then a frame goes
\* out if something changed.
TickBegin ==
  /\ pc = "idle"
  /\ pc' = "tick"
  /\ due' \in SUBSET {c \in clients : escaping[c]}
  /\ UNCHANGED <<clientVars, foreground, copy_mode_owner, dirty, sessionVars, turn,
                 taskVars, told>>

TickFlush(c) ==
  /\ pc = "tick"
  /\ c \in due
  /\ due' = due \ {c}
  /\ escaping' = [escaping EXCEPT ![c] = FALSE]
  /\ Begin(c, FALSE, TRUE)

\* Mutant: what has been published stays marked as unpublished.
StillDirty == dirty
Settled == FALSE

Publish ==
  /\ pc = "tick" /\ due = {}
  /\ pc' = "idle"
  /\ IF dirty /\ clients # {} /\ ~empty
     THEN /\ dirty' = Settled
          /\ OwnerIf(copy)
          /\ mailbox' = [c \in Clients |-> IF c \in clients
                                           THEN Frame(scene, dims, copy_mode_owner')
                                           ELSE mailbox[c]]
     ELSE UNCHANGED <<dirty, copy_mode_owner, mailbox>>
  /\ UNCHANGED <<clients, size, stamp, escaping, foreground, sessionVars, turn, due,
                 taskVars, told>>

-----------------------------------------------------------------------------
(* Everyone else                                                           *)

loopRest == <<size, stamp, mailbox, escaping, dims, turn, due,
              taskVars>>

\* Output of a pane, a new window name, an agent's state: the picture changes.
Redraws ==
  /\ pc = "idle"
  /\ scene' \in Scenes
  /\ dirty' = TRUE
  /\ UNCHANGED <<clients, foreground, copy_mode_owner, copy, empty, pc, told, loopRest>>

\* A pane's process is gone: maybe the one copy mode is on, maybe the last.
PaneExited ==
  /\ pc = "idle"
  /\ copy' \in {copy, FALSE}
  /\ scene' \in Scenes
  /\ empty' \in BOOLEAN
  /\ IF empty' THEN Stop /\ UNCHANGED <<copy_mode_owner, dirty>>
     ELSE /\ OwnerIf(copy')
          /\ dirty' = TRUE
          /\ UNCHANGED <<clients, foreground, pc, told>>
  /\ UNCHANGED loopRest

\* Event::ControlCommand that is carried out; it cannot close the last pane
\* nor enter copy mode, but it can leave it.
ControlCommand ==
  /\ pc = "idle"
  /\ scene' \in Scenes
  /\ copy' \in {copy, FALSE}
  /\ OwnerIf(copy')
  /\ dirty' = TRUE
  /\ UNCHANGED <<clients, foreground, empty, pc, told, loopRest>>

\* Event::Shutdown.
Shutdown ==
  /\ pc = "idle"
  /\ Stop
  /\ UNCHANGED <<copy_mode_owner, dirty, copy, scene, empty, loopRest>>

-----------------------------------------------------------------------------

Client(c) ==
  \/ \E d \in Sizes : Connect(c, d) \/ ClientResize(c, d)
  \/ ReaderGone(c)
  \/ WriterGone(c)
  \/ \E wheel \in BOOLEAN : ClientInput(c, wheel)
  \/ EscapeHeld(c)

Turn == Acts \/ Wheels \/ ClosesLast \/ EntersCopy \/ DragsIntoCopy \/ Detaches

Next ==
  \/ \E c \in Clients : Client(c) \/ TickFlush(c)
  \/ Turn
  \/ EndTurn
  \/ TickBegin
  \/ Publish
  \/ Redraws
  \/ PaneExited
  \/ ControlCommand
  \/ Shutdown

Spec == Init /\ [][Next]_vars

\* A batch is finite and the loop goes on with what it began.  select! takes
\* a ready arm at random, so that no stream of events keeps the tick out for
\* ever.  A client that is told to detach exits, which closes its connection.
Fairness ==
  /\ WF_vars(EndTurn)
  /\ WF_vars(Publish \/ \E c \in Clients : TickFlush(c))
  /\ SF_vars(TickBegin)
  /\ \A c \in Clients : SF_vars(told[c] = "detach" /\ ReaderGone(c))

FairSpec == Spec /\ Fairness
=============================================================================
