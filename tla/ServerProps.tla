---------------------------- MODULE ServerProps ----------------------------
(***************************************************************************)
(* What is asked of module Server.                                         *)
(***************************************************************************)
EXTENDS Server

Frames == {NoFrame} \cup [scene : Scenes, dims : Sizes, owner : Clients \cup {None}]
Turns  == {NoTurn} \cup [client : Clients, bit : BOOLEAN, wheel : BOOLEAN, tick : BOOLEAN]

\* Every variable has its type (ClientState and the locals of `run`,
\* server/mod.rs).
TypeOK ==
  /\ clients \subseteq Clients
  /\ size \in [Clients -> Sizes \cup {None}]
  /\ stamp \in [Clients -> 0..Newest]
  /\ mailbox \in [Clients -> Frames]
  /\ escaping \in [Clients -> BOOLEAN]
  /\ foreground \in Clients \cup {None}
  /\ copy_mode_owner \in Clients \cup {None}
  /\ dirty \in BOOLEAN
  /\ copy \in BOOLEAN /\ scene \in Scenes /\ dims \in Sizes /\ empty \in BOOLEAN
  /\ pc \in {"idle", "turn", "tick", "stopped"}
  /\ turn \in Turns
  /\ due \subseteq Clients
  /\ reader \in [Clients -> {"new", "open", "done"}]
  /\ writer \in [Clients -> {"new", "open", "done"}]
  /\ told \in [Clients -> {None, "detach", "closed"}]

\* While someone is attached, the client with the highest activity stamp has
\* the foreground ("the client with the highest stamp is the foreground",
\* ClientState), and the session has that client's size, so that what one
\* client sees unclipped is what the most recently active one asked for.
ForegroundIsLatest ==
  IF clients = {} THEN foreground = None
  ELSE /\ foreground \in Latest(clients)
       /\ dims = size[foreground]

\* Between events copy mode is on exactly if it has an owner: keys cannot be
\* taken for copy keys of nobody, nor the next to enter be denied ownership.
OwnerMatchesCopy == pc = "idle" => (copy <=> copy_mode_owner # None)

\* The owner's departure is still to come: its reader has not reported it, so
\* that copy mode will be left when nobody can leave it from the keyboard.
OwnerAccountable ==
  copy_mode_owner # None => reader[copy_mode_owner] = "open"

\* With nothing left to draw, every client's mailbox holds the current frame,
\* for all the places that change the session and have to say so.
FreshUnlessDirty ==
  pc \in {"idle", "tick"} /\ ~dirty =>
    \A c \in clients : mailbox[c] = Frame(scene, dims, copy_mode_owner)

\* Copy keys are only ever those of copy mode's owner (debug_assert in
\* apply_events), whatever the earlier events of the batch did.
CopyKeysFromOwner == InTurn /\ turn.bit => copy_mode_owner = turn.client

\* The loop never waits with an empty session, which compose() for the next
\* client would index out of bounds.
NeverIdlesEmpty == pc \in {"idle", "tick"} => ~empty

\* Whoever leaves the client map was told why, or its connection had failed.
NobodyDroppedSilently ==
  \A c \in Clients \ clients :
    reader[c] = "new" \/ reader[c] = "done" \/ writer[c] = "done" \/ told[c] # None

\* Whenever the loop waits, every client has been handed what there is to see,
\* and there is something to compose for the next one to come (`run`).
IdleInOrder == TypeOK /\ FreshUnlessDirty /\ NeverIdlesEmpty

\* Copy mode has an owner who can leave it, and takes its keys from nobody else
\* (copy_mode_owner of `run` and apply_events).
CopyOwned == OwnerMatchesCopy /\ OwnerAccountable /\ CopyKeysFromOwner

-----------------------------------------------------------------------------

\* Changes are published: a dirty session does not stay dirty while someone
\* watches, whatever else the loop has to do.
ChangesPublished == dirty ~> (~dirty \/ clients = {} \/ pc = "stopped")

\* Copy mode does not stay frozen on a client that is no longer attached
\* (comment at Event::ClientGone: "no live client can exit it").
NotFrozen ==
  \A c \in Clients :
    (copy /\ copy_mode_owner = c /\ c \notin clients)
      ~> (copy_mode_owner # c \/ pc = "stopped")
=============================================================================
