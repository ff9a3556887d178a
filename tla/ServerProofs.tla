---------------------------- MODULE ServerProofs ----------------------------
(***************************************************************************)
(* Theorems about Server, for every finite set of clients and any sizes    *)
(* and scenes; about Wire, for messages and frames of any length; and      *)
(* about Config and Cli, for any files and command lines.                  *)
(***************************************************************************)
EXTENDS MCServer, SequenceTheorems, FiniteSetTheorems, WellFoundedInduction, TLAPS

-----------------------------------------------------------------------------
(* What the shared pieces do                                               *)

\* Ranks are numbers.
LEMMA NewestIsNat == Newest \in Nat
BY ClientsAssumption, FS_CardinalityType DEF Newest

\* Promoting a client makes it the latest of all, and ranks stay ranks.
LEMMA PromotedFacts ==
  ASSUME NEW c \in Clients, stamp \in [Clients -> 0..Newest], Promoted(c)
  PROVE  /\ foreground' = c
         /\ stamp' \in [Clients -> 0..Newest]
         /\ \A d \in Clients : stamp'[d] <= stamp'[c]
<1> USE NewestIsNat
<1>1. \A d \in Clients : stamp[d] \in 0..Newest
  OBVIOUS
<1>2. \A d \in Clients : stamp'[d] = IF d = c THEN Newest
                                    ELSE IF stamp[d] > stamp[c] THEN stamp[d] - 1
                                    ELSE stamp[d]
  BY DEF Promoted
<1>3. \A d \in Clients : stamp'[d] \in 0..Newest
  BY <1>1, <1>2
<1> QED
  BY <1>1, <1>2, <1>3 DEF Promoted

\* Dropping a client keeps the types of the map, and the others' entries.
LEMMA DroppedFacts ==
  ASSUME TypeOK, NEW c \in Clients, Dropped(c)
  PROVE  /\ clients' = clients \ {c} /\ clients' \subseteq Clients
         /\ size' \in [Clients -> Sizes \cup {None}]
         /\ stamp' \in [Clients -> 0..Newest]
         /\ mailbox' \in [Clients -> Frames]
         /\ escaping' \in [Clients -> BOOLEAN]
         /\ \A d \in clients' : /\ size'[d] = size[d] /\ stamp'[d] = stamp[d]
                                /\ mailbox'[d] = mailbox[d]
BY NewestIsNat DEF Dropped, TypeOK, Frames

\* What remove_client does to the foreground and the geometry.
LEMMA RemovedFacts ==
  ASSUME TypeOK, \A d \in clients : size[d] \in Sizes, NEW c \in Clients, Removed(c)
  PROVE  /\ Dropped(c)
         /\ foreground' \in Clients \cup {None}
         /\ dims' \in Sizes /\ scene' \in Scenes
         /\ TakesOver(c) => /\ foreground' \in Latest(clients \ {c})
                            /\ dims' = size[foreground']
         /\ ~TakesOver(c) => /\ foreground' = IF foreground = c THEN None ELSE foreground
                             /\ dims' = dims /\ scene' = scene
<1>1. CASE TakesOver(c)
  <2>1. foreground' \in clients \ {c}
    BY <1>1 DEF Removed, Latest
  <2> QED
    BY <1>1, <2>1 DEF Removed, Resized, TypeOK
<1>2. CASE ~TakesOver(c)
  BY <1>2 DEF Removed, TypeOK
<1> QED
  BY <1>1, <1>2

\* A frame made of typed parts is a frame.
LEMMA FrameTyped ==
  ASSUME NEW s \in Scenes, NEW d \in Sizes, NEW o \in Clients \cup {None}
  PROVE  Frame(s, d, o) \in Frames
BY DEF Frame, Frames

-----------------------------------------------------------------------------
(* Types                                                                   *)

\* The types, with what they need to be kept: a client in the map has a size,
\* a turn is a client's, and the clients due in a tick are attached.
Typing ==
  /\ TypeOK
  /\ \A c \in clients : size[c] \in Sizes
  /\ InTurn => turn # NoTurn
  /\ due \subseteq clients
  /\ due # {} => pc = "tick" \/ (InTurn /\ turn.tick)

\* Every step keeps the types.
LEMMA TypingStep ==
  Typing /\ [Next]_vars => Typing'
<1> SUFFICES ASSUME Typing, [Next]_vars
             PROVE  Typing'
  OBVIOUS
<1> USE NewestIsNat, NoneAssumption DEF Typing, TypeOK, Turns, NoTurn, InTurn, clientVars, sessionVars, loopVars,
           taskVars, turnRest, loopRest
<1>1. ASSUME NEW c \in Clients, NEW d \in Sizes, Connect(c, d) PROVE Typing'
  <2>1. copy_mode_owner' \in Clients \cup {None}
    BY <1>1 DEF Connect, OwnerIf
  <2>2. mailbox' \in [Clients -> Frames]
    BY <1>1, <2>1, FrameTyped DEF Connect, Resized
  <2>3. foreground' = c /\ stamp' \in [Clients -> 0..Newest]
    BY <1>1, PromotedFacts DEF Connect
  <2>4. /\ size' \in [Clients -> Sizes \cup {None}]
        /\ \A x \in clients' : size'[x] \in Sizes
    BY <1>1 DEF Connect
  <2> QED
    BY <1>1, <2>1, <2>2, <2>3, <2>4 DEF Connect, Resized
<1>2. ASSUME NEW c \in Clients, NEW d \in Sizes, ClientResize(c, d) PROVE Typing'
  BY <1>2 DEF ClientResize, Resized
<1>3. ASSUME NEW c \in Clients, ReaderGone(c) PROVE Typing'
  <2>1. Removed(c)
    BY <1>3 DEF ReaderGone, Gone
  <2>2. dirty' \in BOOLEAN
    BY <1>3 DEF ReaderGone, Gone, GoneDirty, TakesOver, LeavesCopy
  <2>3. Dropped(c) /\ dims' \in Sizes /\ scene' \in Scenes
        /\ foreground' \in Clients \cup {None}
    BY <2>1, RemovedFacts
  <2>4. /\ clients' = clients \ {c}
        /\ size' \in [Clients -> Sizes \cup {None}]
        /\ stamp' \in [Clients -> 0..Newest]
        /\ mailbox' \in [Clients -> Frames]
        /\ escaping' \in [Clients -> BOOLEAN]
        /\ \A d \in clients' : size'[d] \in Sizes
    BY <2>3, DroppedFacts
  <2>5. due = {}
    BY <1>3 DEF ReaderGone, Gone
  <2> QED
    BY <1>3, <2>2, <2>3, <2>4, <2>5 DEF ReaderGone, Gone, LeavesCopy
<1>4. ASSUME NEW c \in Clients, WriterGone(c) PROVE Typing'
  <2>1. Removed(c)
    BY <1>4 DEF WriterGone, Gone
  <2>2. dirty' \in BOOLEAN
    BY <1>4 DEF WriterGone, Gone, GoneDirty, TakesOver, LeavesCopy
  <2>3. Dropped(c) /\ dims' \in Sizes /\ scene' \in Scenes
        /\ foreground' \in Clients \cup {None}
    BY <2>1, RemovedFacts
  <2>4. /\ clients' = clients \ {c}
        /\ size' \in [Clients -> Sizes \cup {None}]
        /\ stamp' \in [Clients -> 0..Newest]
        /\ mailbox' \in [Clients -> Frames]
        /\ escaping' \in [Clients -> BOOLEAN]
        /\ \A d \in clients' : size'[d] \in Sizes
    BY <2>3, DroppedFacts
  <2>5. due = {}
    BY <1>4 DEF WriterGone, Gone
  <2> QED
    BY <1>4, <2>2, <2>3, <2>4, <2>5 DEF WriterGone, Gone, LeavesCopy
<1>5. ASSUME NEW c \in Clients, NEW w \in BOOLEAN, ClientInput(c, w) PROVE Typing'
  <2>1. Begin(c, w, FALSE)
    BY <1>5 DEF ClientInput
  <2>2. /\ foreground' \in Clients \cup {None}
        /\ stamp' \in [Clients -> 0..Newest]
    BY <2>1, PromotedFacts DEF Begin
  <2>3. /\ dims' \in Sizes /\ scene' \in Scenes /\ dirty' \in BOOLEAN
        /\ clients' = clients /\ size' = size
    <3>1. size[c] \in Sizes
      BY <1>5 DEF ClientInput
    <3> QED
      BY <2>1, <3>1 DEF Begin, Resized
  <2>4. turn' \in Turns /\ turn' # NoTurn
    BY <2>1 DEF Begin, CopyBit
  <2>5. escaping' \in [Clients -> BOOLEAN] /\ due' \subseteq due
    BY <1>5 DEF ClientInput
  <2> QED
    BY <1>5, <2>1, <2>2, <2>3, <2>4, <2>5 DEF ClientInput, Begin
<1>6. ASSUME NEW c \in Clients, EscapeHeld(c) PROVE Typing'
  BY <1>6 DEF EscapeHeld
<1>7. ASSUME NEW c \in Clients, TickFlush(c) PROVE Typing'
  <2>1. Begin(c, FALSE, TRUE)
    BY <1>7 DEF TickFlush
  <2>2. /\ foreground' \in Clients \cup {None}
        /\ stamp' \in [Clients -> 0..Newest]
    BY <2>1, PromotedFacts DEF Begin
  <2>3. /\ dims' \in Sizes /\ scene' \in Scenes /\ dirty' \in BOOLEAN
        /\ clients' = clients /\ size' = size
    <3>1. size[c] \in Sizes
      BY <1>7 DEF TickFlush
    <3> QED
      BY <2>1, <3>1 DEF Begin, Resized
  <2>4. turn' \in Turns /\ turn' # NoTurn
    BY <2>1 DEF Begin, CopyBit
  <2>5. escaping' \in [Clients -> BOOLEAN] /\ due' \subseteq due
    BY <1>7 DEF TickFlush
  <2> QED
    BY <1>7, <2>1, <2>2, <2>3, <2>4, <2>5 DEF TickFlush, Begin
<1>8. CASE Acts
  BY <1>8 DEF Acts
<1>9. CASE Wheels
  BY <1>9 DEF Wheels
<1>10. CASE ClosesLast
  BY <1>10 DEF ClosesLast, Typed
<1>11. CASE EntersCopy
  BY <1>11 DEF EntersCopy, Typed
<1>12. CASE DragsIntoCopy
  BY <1>12 DEF DragsIntoCopy, Typed
<1>13. CASE Detaches
  <2>1. turn.client \in Clients
    BY <1>13 DEF Detaches, Typed
  <2>2. Removed(turn.client)
    BY <1>13 DEF Detaches
  <2>3. Dropped(turn.client) /\ dims' \in Sizes /\ scene' \in Scenes
        /\ foreground' \in Clients \cup {None}
    BY <2>1, <2>2, RemovedFacts
  <2>4. /\ clients' = clients \ {turn.client}
        /\ size' \in [Clients -> Sizes \cup {None}]
        /\ stamp' \in [Clients -> 0..Newest]
        /\ mailbox' \in [Clients -> Frames]
        /\ escaping' \in [Clients -> BOOLEAN]
        /\ \A d \in clients' : size'[d] \in Sizes
    BY <2>1, <2>3, DroppedFacts
  <2>5. due = {}
    BY <1>13 DEF Detaches, Typed
  <2> QED
    BY <1>13, <2>3, <2>4, <2>5 DEF Detaches
<1>14. CASE EndTurn
  BY <1>14 DEF EndTurn, OwnerAfter, Finished, Stop
<1>15. CASE TickBegin
  BY <1>15 DEF TickBegin
<1>16. CASE Publish
  <2>1. copy_mode_owner' \in Clients \cup {None}
    BY <1>16 DEF Publish, OwnerIf
  <2>2. mailbox' \in [Clients -> Frames]
    BY <1>16, <2>1, FrameTyped DEF Publish
  <2> QED
    BY <1>16, <2>1, <2>2 DEF Publish, Settled
<1>17. CASE Redraws
  BY <1>17 DEF Redraws
<1>18. CASE PaneExited
  BY ZenonT(30), <1>18 DEF PaneExited, OwnerIf, Stop
<1>19. CASE ControlCommand
  BY <1>19 DEF ControlCommand, OwnerIf
<1>20. CASE Shutdown
  BY <1>20 DEF Shutdown, Stop
<1>21. CASE UNCHANGED vars
  BY <1>21 DEF vars
<1> HIDE DEF Typing, TypeOK, Turns, NoTurn, InTurn, clientVars, sessionVars, loopVars, taskVars,
             turnRest, loopRest
<1> QED
  BY <1>1, <1>2, <1>3, <1>4, <1>5, <1>6, <1>7, <1>8, <1>9, <1>10, <1>11,
     <1>12, <1>13, <1>14, <1>15, <1>16, <1>17, <1>18, <1>19, <1>20, <1>21
  DEF Next, Client, Turn

\* The initial values have their types.
LEMMA TypingInit == Init => Typing
<1> SUFFICES ASSUME Init PROVE Typing
  OBVIOUS
<1> USE DEF Init
<1>1. /\ stamp \in [Clients -> 0..Newest]
      /\ size \in [Clients -> Sizes \cup {None}]
      /\ mailbox \in [Clients -> Frames]
      /\ escaping \in [Clients -> BOOLEAN]
  BY NewestIsNat DEF Frames
<1>2. TypeOK
  BY <1>1 DEF TypeOK, Turns
<1> QED
  BY <1>2 DEF Typing, InTurn

\* Every variable has its type (ClientState and the locals of `run`,
\* server/mod.rs).
THEOREM TypeOKHolds == Spec => []TypeOK
<1>1. Typing => TypeOK
  BY DEF Typing
<1> QED
  BY <1>1, TypingInit, TypingStep, PTL DEF Spec

-----------------------------------------------------------------------------
(* The foreground                                                          *)

\* Removing a client leaves the latest of the others in front, at its size.
LEMMA RemovedKeepsForeground ==
  ASSUME Typing, ForegroundIsLatest, NEW c \in Clients, Removed(c)
  PROVE  ForegroundIsLatest'
<1>1. /\ clients' = clients \ {c}
      /\ \A d \in clients' : size'[d] = size[d] /\ stamp'[d] = stamp[d]
  BY RemovedFacts, DroppedFacts DEF Typing
<1>2. Latest(clients)' = {d \in clients' : \A e \in clients' : stamp[e] <= stamp[d]}
  BY <1>1 DEF Latest
<1>3. CASE TakesOver(c)
  <2>1. foreground' \in Latest(clients \ {c}) /\ dims' = size[foreground']
    BY <1>3, RemovedFacts DEF Typing
  <2> QED
    BY <1>1, <1>2, <2>1 DEF Latest, ForegroundIsLatest
<1>4. CASE ~TakesOver(c)
  <2>1. foreground' = (IF foreground = c THEN None ELSE foreground) /\ dims' = dims
    BY <1>4, RemovedFacts DEF Typing
  <2>2. CASE clients' = {}
    <3>1. foreground \in {c, None}
      BY <1>1, <2>2 DEF ForegroundIsLatest, Latest
    <3> QED
      BY <2>1, <2>2, <3>1 DEF ForegroundIsLatest
  <2>3. CASE clients' # {}
    <3>1. foreground # c /\ foreground \in clients' /\ clients # {}
      BY <1>1, <1>4, <2>3 DEF TakesOver, ForegroundIsLatest, Latest
    <3> QED
      BY <1>1, <1>2, <2>1, <2>3, <3>1 DEF ForegroundIsLatest, Latest
  <2> QED
    BY <2>2, <2>3
<1> QED
  BY <1>3, <1>4

\* Input puts its sender in front, at its size, unless it is only the wheel.
LEMMA BeginKeepsForeground ==
  ASSUME Typing, ForegroundIsLatest, NEW c \in clients, NEW w \in BOOLEAN,
         NEW t \in BOOLEAN, Begin(c, w, t)
  PROVE  ForegroundIsLatest'
<1> c \in Clients
  BY DEF Typing, TypeOK
<1>1. CASE w
  BY <1>1 DEF Begin, ForegroundIsLatest, Latest
<1>2. CASE ~w
  <2>1. foreground' = c /\ \A d \in Clients : stamp'[d] <= stamp'[c]
    BY <1>2, PromotedFacts DEF Begin, Typing, TypeOK
  <2>2. clients' = clients /\ size' = size /\ dims' = size[c]
    BY <1>2 DEF Begin, Resized, ForegroundIsLatest
  <2> QED
    BY <2>1, <2>2 DEF ForegroundIsLatest, Latest, Typing, TypeOK
<1> QED
  BY <1>1, <1>2

\* Every step keeps the latest client in front.
LEMMA ForegroundStep ==
  Typing /\ ForegroundIsLatest /\ [Next]_vars => ForegroundIsLatest'
<1> SUFFICES ASSUME Typing, ForegroundIsLatest, [Next]_vars
             PROVE  ForegroundIsLatest'
  OBVIOUS
<1> USE NoneAssumption DEF Typing, TypeOK, ForegroundIsLatest, Latest, clientVars, sessionVars, loopVars,
           taskVars, turnRest, loopRest
<1>1. ASSUME NEW c \in Clients, NEW d \in Sizes, Connect(c, d) PROVE ForegroundIsLatest'
  <2>1. foreground' = c /\ \A e \in Clients : stamp'[e] <= stamp'[c]
    BY <1>1, PromotedFacts DEF Connect
  <2> QED
    BY <1>1, <2>1 DEF Connect, Resized, Latest
<1>2. ASSUME NEW c \in Clients, NEW d \in Sizes, ClientResize(c, d) PROVE ForegroundIsLatest'
  BY <1>2 DEF ClientResize, Resized
<1>3. ASSUME NEW c \in Clients, ReaderGone(c) PROVE ForegroundIsLatest'
  <2>1. Removed(c)
    BY <1>3 DEF ReaderGone, Gone
  <2> QED
    BY <2>1, RemovedKeepsForeground
<1>4. ASSUME NEW c \in Clients, WriterGone(c) PROVE ForegroundIsLatest'
  <2>1. Removed(c)
    BY <1>4 DEF WriterGone, Gone
  <2> QED
    BY <2>1, RemovedKeepsForeground
<1>5. ASSUME NEW c \in Clients, NEW w \in BOOLEAN, ClientInput(c, w) PROVE ForegroundIsLatest'
  <2>1. c \in clients /\ Begin(c, w, FALSE)
    BY <1>5 DEF ClientInput
  <2>2. Typing /\ ForegroundIsLatest
    OBVIOUS
  <2> HIDE DEF Typing, TypeOK, ForegroundIsLatest
  <2> QED
    BY <2>1, <2>2, BeginKeepsForeground
<1>6. ASSUME NEW c \in Clients, EscapeHeld(c) PROVE ForegroundIsLatest'
  BY <1>6 DEF EscapeHeld
<1>7. ASSUME NEW c \in Clients, TickFlush(c) PROVE ForegroundIsLatest'
  <2>1. c \in clients /\ Begin(c, FALSE, TRUE)
    BY <1>7 DEF TickFlush
  <2> QED
    BY <2>1, BeginKeepsForeground
<1>8. CASE Acts
  BY <1>8 DEF Acts
<1>9. CASE Wheels
  BY <1>9 DEF Wheels
<1>10. CASE ClosesLast
  BY <1>10 DEF ClosesLast, Typed
<1>11. CASE EntersCopy
  BY <1>11 DEF EntersCopy, Typed
<1>12. CASE DragsIntoCopy
  BY <1>12 DEF DragsIntoCopy, Typed
<1>13. CASE Detaches
  <2>1. turn.client \in Clients /\ Removed(turn.client)
    BY <1>13 DEF Detaches, Typed, InTurn, Turns, NoTurn
  <2> QED
    BY <2>1, RemovedKeepsForeground
<1>14. CASE EndTurn
  BY <1>14 DEF EndTurn, OwnerAfter, Finished, Stop
<1>15. CASE TickBegin
  BY <1>15 DEF TickBegin
<1>16. CASE Publish
  BY <1>16 DEF Publish, OwnerIf, Settled
<1>17. CASE Redraws
  BY <1>17 DEF Redraws
<1>18. CASE PaneExited
  BY <1>18 DEF PaneExited, OwnerIf, Stop
<1>19. CASE ControlCommand
  BY <1>19 DEF ControlCommand, OwnerIf
<1>20. CASE Shutdown
  BY <1>20 DEF Shutdown, Stop
<1>21. CASE UNCHANGED vars
  BY <1>21 DEF vars
<1> QED
  BY <1>1, <1>2, <1>3, <1>4, <1>5, <1>6, <1>7, <1>8, <1>9, <1>10, <1>11,
     <1>12, <1>13, <1>14, <1>15, <1>16, <1>17, <1>18, <1>19, <1>20, <1>21
  DEF Next, Client, Turn

\* The most recently active attached client has the foreground and the session
\* has its size, whoever comes, goes, types or resizes (promote, remove_client).
THEOREM ForegroundIsLatestHolds == Spec => []ForegroundIsLatest
<1>1. Init => Typing /\ ForegroundIsLatest
  BY TypingInit DEF Init, ForegroundIsLatest
<1> QED
  BY <1>1, TypingStep, ForegroundStep, PTL DEF Spec

-----------------------------------------------------------------------------
(* Who owns copy mode                                                      *)

\* The strengthening: whoever has, or by its turn may get, copy mode is one
\* whose reader has yet to report that it is gone, and a batch parsed with the
\* copy-mode bit is its owner's to the end.
OwnerInv ==
  /\ pc \in {"idle", "tick"} => (copy <=> copy_mode_owner # None)
  /\ copy_mode_owner # None => reader[copy_mode_owner] = "open"
  /\ \A c \in clients : reader[c] = "open"
  /\ InTurn => reader[turn.client] = "open"
  /\ InTurn /\ turn.bit => copy_mode_owner = turn.client

\* Every step keeps the owner accountable.
LEMMA OwnerStep ==
  Typing /\ OwnerInv /\ [Next]_vars => OwnerInv'
<1> SUFFICES ASSUME Typing, OwnerInv, [Next]_vars
             PROVE  OwnerInv'
  OBVIOUS
<1> USE NoneAssumption DEF Typing, TypeOK, clientVars, sessionVars, loopVars,
           taskVars, turnRest, loopRest, OwnerInv, InTurn, Turns, NoTurn
<1>1. ASSUME NEW c \in Clients, NEW d \in Sizes, Connect(c, d) PROVE OwnerInv'
  BY <1>1 DEF Connect, Resized, OwnerIf
<1>2. ASSUME NEW c \in Clients, NEW d \in Sizes, ClientResize(c, d) PROVE OwnerInv'
  BY <1>2 DEF ClientResize, Resized
<1>3. ASSUME NEW c \in Clients, ReaderGone(c) PROVE OwnerInv'
  <2>1. Removed(c)
    BY <1>3 DEF ReaderGone, Gone
  <2>2. Dropped(c)
    BY <2>1 DEF Removed
  <2> QED
    BY <1>3, <2>2 DEF Dropped, ReaderGone, Gone, LeavesCopy
<1>4. ASSUME NEW c \in Clients, WriterGone(c) PROVE OwnerInv'
  <2>1. Removed(c)
    BY <1>4 DEF WriterGone, Gone
  <2>2. Dropped(c)
    BY <2>1 DEF Removed
  <2> QED
    BY <1>4, <2>2 DEF Dropped, WriterGone, Gone, LeavesCopy
<1>5. ASSUME NEW c \in Clients, NEW w \in BOOLEAN, ClientInput(c, w) PROVE OwnerInv'
  BY <1>5 DEF ClientInput, Begin, Resized, CopyBit
<1>6. ASSUME NEW c \in Clients, EscapeHeld(c) PROVE OwnerInv'
  BY <1>6 DEF EscapeHeld
<1>7. ASSUME NEW c \in Clients, TickFlush(c) PROVE OwnerInv'
  BY <1>7 DEF TickFlush, Begin, Resized, CopyBit
<1>8. CASE Acts
  BY <1>8 DEF Acts
<1>9. CASE Wheels
  BY <1>9 DEF Wheels
<1>10. CASE ClosesLast
  BY <1>10 DEF ClosesLast, Typed
<1>11. CASE EntersCopy
  BY <1>11 DEF EntersCopy, Typed
<1>12. CASE DragsIntoCopy
  BY <1>12 DEF DragsIntoCopy, Typed, Turns, NoTurn
<1>13. CASE Detaches
  <2>1. Dropped(turn.client)
    BY <1>13 DEF Detaches, Removed
  <2> QED
    BY <1>13, <2>1 DEF Detaches, Dropped
<1>14. CASE EndTurn
  BY <1>14 DEF EndTurn, OwnerAfter, Finished, Stop
<1>15. CASE TickBegin
  BY <1>15 DEF TickBegin
<1>16. CASE Publish
  BY <1>16 DEF Publish, OwnerIf, Settled
<1>17. CASE Redraws
  BY <1>17 DEF Redraws
<1>18. CASE PaneExited
  <2>0. copy' \in {copy, FALSE}
    BY <1>18 DEF PaneExited, Stop
  <2>1. copy' => copy
    BY <2>0, Zenon
  <2>4. pc = "idle" /\ reader' = reader /\ turn' = turn /\ clients' \subseteq clients
    BY <1>18 DEF PaneExited, Stop
  <2>2. pc' \in {"idle", "stopped"} /\ (pc' = "idle" => copy_mode_owner' = IF copy' THEN copy_mode_owner ELSE None)
    BY <1>18 DEF PaneExited, Stop, OwnerIf
  <2>3. copy_mode_owner' \in {copy_mode_owner, None}
    BY <1>18 DEF PaneExited, Stop, OwnerIf
  <2> QED
    BY <2>1, <2>2, <2>3, <2>4
<1>19. CASE ControlCommand
  <2>0. copy' \in {copy, FALSE}
    BY <1>19 DEF ControlCommand
  <2>1. copy' => copy
    BY <2>0, Zenon
  <2>4. pc = "idle" /\ reader' = reader /\ turn' = turn /\ clients' \subseteq clients
    BY <1>19 DEF ControlCommand
  <2>2. pc' \in {"idle", "stopped"} /\ (pc' = "idle" => copy_mode_owner' = IF copy' THEN copy_mode_owner ELSE None)
    BY <1>19 DEF ControlCommand, OwnerIf
  <2>3. copy_mode_owner' \in {copy_mode_owner, None}
    BY <1>19 DEF ControlCommand, OwnerIf
  <2> QED
    BY <2>1, <2>2, <2>3, <2>4
<1>20. CASE Shutdown
  BY <1>20 DEF Shutdown, Stop
<1>21. CASE UNCHANGED vars
  BY <1>21 DEF vars
<1> QED
  BY <1>1, <1>2, <1>3, <1>4, <1>5, <1>6, <1>7, <1>8, <1>9, <1>10, <1>11,
     <1>12, <1>13, <1>14, <1>15, <1>16, <1>17, <1>18, <1>19, <1>20, <1>21
  DEF Next, Client, Turn

\* OwnerInv holds throughout.
LEMMA OwnerInvHolds == Spec => [](Typing /\ OwnerInv)
<1>1. Init => Typing /\ OwnerInv
  BY TypingInit DEF Init, OwnerInv, InTurn
<1> QED
  BY <1>1, TypingStep, OwnerStep, PTL DEF Spec

\* Between events copy mode is on exactly if it has an owner, whichever of the
\* loop's paths turned it off.
THEOREM OwnerMatchesCopyHolds == Spec => []OwnerMatchesCopy
<1>1. Typing /\ OwnerInv => OwnerMatchesCopy
  BY DEF OwnerInv, OwnerMatchesCopy
<1> QED
  BY <1>1, OwnerInvHolds, PTL

\* The owner of copy mode can still be seen to leave (Event::ClientGone).
THEOREM OwnerAccountableHolds == Spec => []OwnerAccountable
<1>1. Typing /\ OwnerInv => OwnerAccountable
  BY DEF OwnerInv, OwnerAccountable
<1> QED
  BY <1>1, OwnerInvHolds, PTL

\* Copy keys are only ever the owner's (debug_assert in apply_events).
THEOREM CopyKeysFromOwnerHolds == Spec => []CopyKeysFromOwner
<1>1. Typing /\ OwnerInv => CopyKeysFromOwner
  BY DEF OwnerInv, CopyKeysFromOwner
<1> QED
  BY <1>1, OwnerInvHolds, PTL

-----------------------------------------------------------------------------
(* What the clients have been shown                                        *)

\* The strengthening: with nothing to draw the owner is in order too, even in
\* the middle of a batch, so that reconciling it later changes no picture.
Fresh ==
  pc # "stopped" /\ ~dirty =>
    /\ copy <=> copy_mode_owner # None
    /\ \A c \in clients : mailbox[c] = Frame(scene, dims, copy_mode_owner)

\* Every step that changes a picture says so.
LEMMA FreshStep ==
  Typing /\ OwnerInv /\ Fresh /\ [Next]_vars => Fresh'
<1> SUFFICES ASSUME Typing, OwnerInv, Fresh, [Next]_vars
             PROVE  Fresh'
  OBVIOUS
<1> USE NoneAssumption DEF Typing, TypeOK, clientVars, sessionVars, loopVars,
           taskVars, turnRest, loopRest, Fresh, Frame
<1>1. ASSUME NEW c \in Clients, NEW d \in Sizes, Connect(c, d) PROVE Fresh'
  BY <1>1 DEF Connect, OwnerIf, OwnerInv
<1>2. ASSUME NEW c \in Clients, NEW d \in Sizes, ClientResize(c, d) PROVE Fresh'
  BY <1>2 DEF ClientResize, Resized
<1>3. ASSUME NEW c \in Clients, ReaderGone(c) PROVE Fresh'
  <2>1. Removed(c) /\ c \in Clients
    BY <1>3 DEF ReaderGone, Gone
  <2>2. Dropped(c) /\ (~TakesOver(c) => dims' = dims /\ scene' = scene)
    BY <2>1 DEF Removed
  <2>3. \A d \in clients' : d \in clients /\ mailbox'[d] = mailbox[d]
    BY <2>2 DEF Dropped
  <2> QED
    BY <1>3, <2>2, <2>3 DEF ReaderGone, Gone, GoneDirty, LeavesCopy
<1>4. ASSUME NEW c \in Clients, WriterGone(c) PROVE Fresh'
  <2>1. Removed(c) /\ c \in Clients
    BY <1>4 DEF WriterGone, Gone
  <2>2. Dropped(c) /\ (~TakesOver(c) => dims' = dims /\ scene' = scene)
    BY <2>1 DEF Removed
  <2>3. \A d \in clients' : d \in clients /\ mailbox'[d] = mailbox[d]
    BY <2>2 DEF Dropped
  <2> QED
    BY <1>4, <2>2, <2>3 DEF WriterGone, Gone, GoneDirty, LeavesCopy
<1>5. ASSUME NEW c \in Clients, NEW w \in BOOLEAN, ClientInput(c, w) PROVE Fresh'
  BY <1>5 DEF ClientInput, Begin
<1>6. ASSUME NEW c \in Clients, EscapeHeld(c) PROVE Fresh'
  BY <1>6 DEF EscapeHeld
<1>7. ASSUME NEW c \in Clients, TickFlush(c) PROVE Fresh'
  BY <1>7 DEF TickFlush, Begin
<1>8. CASE Acts
  BY <1>8 DEF Acts
<1>9. CASE Wheels
  BY <1>9 DEF Wheels
<1>10. CASE ClosesLast
  BY <1>10 DEF ClosesLast, Typed
<1>11. CASE EntersCopy
  BY <1>11 DEF EntersCopy, Typed
<1>12. CASE DragsIntoCopy
  BY <1>12 DEF DragsIntoCopy, Typed
<1>13. CASE Detaches
  BY <1>13 DEF Detaches
<1>14. CASE EndTurn
  <2>1. CASE ~dirty /\ pc' # "stopped"
    <3>1. copy_mode_owner' = copy_mode_owner
      BY <1>14, <2>1 DEF EndTurn, OwnerAfter, InTurn
    <3>2. clients' = clients /\ scene' = scene /\ dims' = dims /\ mailbox' = mailbox /\ copy' = copy
      BY <1>14, <2>1 DEF EndTurn, Stop
    <3> QED
      BY <1>14, <2>1, <3>1, <3>2 DEF EndTurn, InTurn
  <2>2. CASE dirty \/ pc' = "stopped"
    BY <1>14, <2>2 DEF EndTurn
  <2> QED
    BY <2>1, <2>2
<1>15. CASE TickBegin
  BY <1>15 DEF TickBegin
<1>16. CASE Publish
  BY <1>16 DEF Publish, OwnerIf, OwnerInv, Settled
<1>17. CASE Redraws
  BY <1>17 DEF Redraws
<1>18. CASE PaneExited
  BY <1>18 DEF PaneExited, OwnerIf, Stop
<1>19. CASE ControlCommand
  BY <1>19 DEF ControlCommand, OwnerIf
<1>20. CASE Shutdown
  BY <1>20 DEF Shutdown, Stop
<1>21. CASE UNCHANGED vars
  BY <1>21 DEF vars
<1> QED
  BY <1>1, <1>2, <1>3, <1>4, <1>5, <1>6, <1>7, <1>8, <1>9, <1>10, <1>11,
     <1>12, <1>13, <1>14, <1>15, <1>16, <1>17, <1>18, <1>19, <1>20, <1>21
  DEF Next, Client, Turn

\* With nothing left to draw every client has been given the current frame,
\* whichever handler ran last (the `dirty` local of `run`).
THEOREM FreshUnlessDirtyHolds == Spec => []FreshUnlessDirty
<1>1. Init => Fresh
  BY DEF Init, Fresh
<1>2. Fresh => FreshUnlessDirty
  BY DEF Fresh, FreshUnlessDirty
<1> QED
  BY <1>1, <1>2, OwnerInvHolds, FreshStep, PTL DEF Spec

-----------------------------------------------------------------------------
(* The end                                                                 *)

\* The strengthening: a session is only ever empty in the batch of input that
\* emptied it, which is not one that a tick began.
Emptied == empty => pc = "stopped" \/ (InTurn /\ ~turn.tick)

\* Every step keeps an emptied session on its way out.
LEMMA EmptiedStep ==
  Typing /\ Emptied /\ [Next]_vars => Emptied'
<1> SUFFICES ASSUME Typing, Emptied, [Next]_vars
             PROVE  Emptied'
  OBVIOUS
<1> USE DEF Typing, TypeOK, clientVars, sessionVars, loopVars,
           taskVars, turnRest, loopRest, Emptied, InTurn
<1>1. ASSUME NEW c \in Clients, NEW d \in Sizes, Connect(c, d) PROVE Emptied'
  BY <1>1 DEF Connect, Resized, OwnerIf
<1>2. ASSUME NEW c \in Clients, NEW d \in Sizes, ClientResize(c, d) PROVE Emptied'
  BY <1>2 DEF ClientResize, Resized
<1>3. ASSUME NEW c \in Clients, ReaderGone(c) PROVE Emptied'
  BY <1>3 DEF ReaderGone, Gone
<1>4. ASSUME NEW c \in Clients, WriterGone(c) PROVE Emptied'
  BY <1>4 DEF WriterGone, Gone
<1>5. ASSUME NEW c \in Clients, NEW w \in BOOLEAN, ClientInput(c, w) PROVE Emptied'
  BY <1>5 DEF ClientInput, Begin, Resized, CopyBit
<1>6. ASSUME NEW c \in Clients, EscapeHeld(c) PROVE Emptied'
  BY <1>6 DEF EscapeHeld
<1>7. ASSUME NEW c \in Clients, TickFlush(c) PROVE Emptied'
  BY <1>7 DEF TickFlush, Begin, Resized, CopyBit
<1>8. CASE Acts
  BY <1>8 DEF Acts
<1>9. CASE Wheels
  BY <1>9 DEF Wheels
<1>10. CASE ClosesLast
  BY <1>10 DEF ClosesLast, Typed
<1>11. CASE EntersCopy
  BY <1>11 DEF EntersCopy, Typed
<1>12. CASE DragsIntoCopy
  BY <1>12 DEF DragsIntoCopy, Typed
<1>13. CASE Detaches
  BY <1>13 DEF Detaches, Typed
<1>14. CASE EndTurn
  BY <1>14 DEF EndTurn, OwnerAfter, Finished, Stop
<1>15. CASE TickBegin
  BY <1>15 DEF TickBegin
<1>16. CASE Publish
  BY <1>16 DEF Publish, OwnerIf, Settled
<1>17. CASE Redraws
  BY <1>17 DEF Redraws
<1>18. CASE PaneExited
  BY <1>18 DEF PaneExited, OwnerIf, Stop
<1>19. CASE ControlCommand
  BY <1>19 DEF ControlCommand, OwnerIf
<1>20. CASE Shutdown
  BY <1>20 DEF Shutdown, Stop
<1>21. CASE UNCHANGED vars
  BY <1>21 DEF vars
<1> QED
  BY <1>1, <1>2, <1>3, <1>4, <1>5, <1>6, <1>7, <1>8, <1>9, <1>10, <1>11,
     <1>12, <1>13, <1>14, <1>15, <1>16, <1>17, <1>18, <1>19, <1>20, <1>21
  DEF Next, Client, Turn

\* The loop never waits with an empty session, which the next compose() would
\* index out of bounds (Session::compose).
THEOREM NeverIdlesEmptyHolds == Spec => []NeverIdlesEmpty
<1>1. Init => Emptied
  BY DEF Init, Emptied
<1>2. Emptied => NeverIdlesEmpty
  BY DEF Emptied, NeverIdlesEmpty, InTurn
<1>3. Spec => []Typing
  BY TypingInit, TypingStep, PTL DEF Spec
<1> QED
  BY <1>1, <1>2, <1>3, EmptiedStep, PTL DEF Spec

\* No step drops a client without a word.
LEMMA DroppedStep ==
  Typing /\ NobodyDroppedSilently /\ [Next]_vars => NobodyDroppedSilently'
<1> SUFFICES ASSUME Typing, NobodyDroppedSilently, [Next]_vars
             PROVE  NobodyDroppedSilently'
  OBVIOUS
<1> USE NoneAssumption DEF Typing, TypeOK, clientVars, sessionVars, loopVars,
           taskVars, turnRest, loopRest, NobodyDroppedSilently
<1>1. ASSUME NEW c \in Clients, NEW d \in Sizes, Connect(c, d) PROVE NobodyDroppedSilently'
  BY <1>1 DEF Connect
<1>2. ASSUME NEW c \in Clients, NEW d \in Sizes, ClientResize(c, d) PROVE NobodyDroppedSilently'
  BY <1>2 DEF ClientResize
<1>3. ASSUME NEW c \in Clients, ReaderGone(c) PROVE NobodyDroppedSilently'
  <2>1. clients' = clients \ {c}
    BY <1>3 DEF ReaderGone, Gone, Removed, Dropped
  <2> QED
    BY <1>3, <2>1 DEF ReaderGone, Gone
<1>4. ASSUME NEW c \in Clients, WriterGone(c) PROVE NobodyDroppedSilently'
  <2>1. clients' = clients \ {c}
    BY <1>4 DEF WriterGone, Gone, Removed, Dropped
  <2> QED
    BY <1>4, <2>1 DEF WriterGone, Gone
<1>5. ASSUME NEW c \in Clients, NEW w \in BOOLEAN, ClientInput(c, w) PROVE NobodyDroppedSilently'
  BY <1>5 DEF ClientInput, Begin
<1>6. ASSUME NEW c \in Clients, EscapeHeld(c) PROVE NobodyDroppedSilently'
  BY <1>6 DEF EscapeHeld
<1>7. ASSUME NEW c \in Clients, TickFlush(c) PROVE NobodyDroppedSilently'
  BY <1>7 DEF TickFlush, Begin
<1>8. CASE Acts
  BY <1>8 DEF Acts
<1>9. CASE Wheels
  BY <1>9 DEF Wheels
<1>10. CASE ClosesLast
  BY <1>10 DEF ClosesLast, Typed
<1>11. CASE EntersCopy
  BY <1>11 DEF EntersCopy, Typed
<1>12. CASE DragsIntoCopy
  BY <1>12 DEF DragsIntoCopy, Typed
<1>13. CASE Detaches
  <2>1. clients' = clients \ {turn.client} /\ reader' = reader /\ writer' = writer
    BY <1>13 DEF Detaches, Removed, Dropped
  <2>2. \/ turn.client \notin clients /\ told' = told
        \/ told' = [told EXCEPT ![turn.client] = "detach"]
    BY <1>13 DEF Detaches
  <2>3. "detach" # None
    BY DEF None
  <2> QED
    BY <2>1, <2>2, <2>3
<1>14. CASE EndTurn
  <2>1. reader' = reader /\ writer' = writer
    BY <1>14 DEF EndTurn
  <2>2. \/ clients' = clients /\ told' = told
        \/ told' = [c \in Clients |-> IF c \in clients THEN "closed" ELSE told[c]]
    BY <1>14 DEF EndTurn, Stop, Finished
  <2>3. "closed" # None
    BY DEF None
  <2> QED
    BY <2>1, <2>2, <2>3
<1>15. CASE TickBegin
  BY <1>15 DEF TickBegin
<1>16. CASE Publish
  BY <1>16 DEF Publish, OwnerIf, Settled
<1>17. CASE Redraws
  BY <1>17 DEF Redraws
<1>18. CASE PaneExited
  <2>1. reader' = reader /\ writer' = writer
    BY <1>18 DEF PaneExited
  <2>2. \/ clients' = clients /\ told' = told
        \/ told' = [c \in Clients |-> IF c \in clients THEN "closed" ELSE told[c]]
    BY <1>18 DEF PaneExited, Stop
  <2>3. "closed" # None
    BY DEF None
  <2> QED
    BY <2>1, <2>2, <2>3
<1>19. CASE ControlCommand
  BY <1>19 DEF ControlCommand, OwnerIf
<1>20. CASE Shutdown
  <2>1. reader' = reader /\ writer' = writer
    BY <1>20 DEF Shutdown
  <2>2. \/ clients' = clients /\ told' = told
        \/ told' = [c \in Clients |-> IF c \in clients THEN "closed" ELSE told[c]]
    BY <1>20 DEF Shutdown, Stop
  <2>3. "closed" # None
    BY DEF None
  <2> QED
    BY <2>1, <2>2, <2>3
<1>21. CASE UNCHANGED vars
  BY <1>21 DEF vars
<1> QED
  BY <1>1, <1>2, <1>3, <1>4, <1>5, <1>6, <1>7, <1>8, <1>9, <1>10, <1>11,
     <1>12, <1>13, <1>14, <1>15, <1>16, <1>17, <1>18, <1>19, <1>20, <1>21
  DEF Next, Client, Turn

\* Whoever leaves the client map was told why, or its connection had failed
\* (Command::Detach, close_all).
THEOREM NobodyDroppedSilentlyHolds == Spec => []NobodyDroppedSilently
<1>1. Init => NobodyDroppedSilently
  BY DEF Init, NobodyDroppedSilently
<1>2. Spec => []Typing
  BY TypingInit, TypingStep, PTL DEF Spec
<1> QED
  BY <1>1, <1>2, DroppedStep, PTL DEF Spec

\* Whenever the loop waits, every client has been handed what there is to see,
\* and the next to come finds something to compose.
THEOREM IdleInOrderHolds == Spec => []IdleInOrder
BY TypeOKHolds, FreshUnlessDirtyHolds, NeverIdlesEmptyHolds, PTL DEF IdleInOrder

\* Copy mode has an owner who can leave it, and takes its keys from nobody else.
THEOREM CopyOwnedHolds == Spec => []CopyOwned
BY OwnerMatchesCopyHolds, OwnerAccountableHolds, CopyKeysFromOwnerHolds, PTL DEF CopyOwned

-----------------------------------------------------------------------------
(* One connection: its bytes implement a queue of whole messages           *)

\* A stream of bytes is what the frames after the k-th make, one after the other;
\* st tells how many of its bytes lie before each.
Laid(S, fs, k, st) ==
  /\ st \in [k + 1..Len(fs) + 1 -> Nat] /\ st[k + 1] = 0 /\ st[Len(fs) + 1] = Len(S)
  /\ \A j \in k + 1..Len(fs) : /\ st[j + 1] = st[j] + Len(fs[j])
                               /\ \A x \in 1..Len(fs[j]) : S[st[j] + x] = fs[j][x]
  /\ \A i, j \in k + 1..Len(fs) + 1 : i <= j => st[i] <= st[j]
Joined(S, fs, k) == \E st \in [k + 1..Len(fs) + 1 -> Nat] : Laid(S, fs, k, st)

\* It begins with the next frame.
LEMMA JoinedFirst ==
  ASSUME NEW S \in Seq(Nat), NEW fs \in Seq(Seq(Nat)), NEW k \in 0..Len(fs), Joined(S, fs, k)
  PROVE  /\ S # <<>> => k < Len(fs)
         /\ k < Len(fs) => /\ Len(S) >= Len(fs[k + 1])
                           /\ \A x \in 1..Len(fs[k + 1]) : S[x] = fs[k + 1][x]
<1>1. PICK st \in [k + 1..Len(fs) + 1 -> Nat] : Laid(S, fs, k, st)
  BY DEF Joined
<1>2. k \in Nat /\ Len(fs) \in Nat /\ k <= Len(fs)
  OBVIOUS
<1>3. ASSUME S # <<>> PROVE k < Len(fs)
  <2>1. Len(S) > 0
    BY <1>3
  <2>2. Len(fs) + 1 # k + 1
    BY <1>1, <2>1 DEF Laid
  <2> QED
    BY <1>2, <2>2
<1>4. ASSUME k < Len(fs)
      PROVE  Len(S) >= Len(fs[k + 1]) /\ \A x \in 1..Len(fs[k + 1]) : S[x] = fs[k + 1][x]
  <2>1. /\ k + 1 \in k + 1..Len(fs) /\ k + 2 \in k + 1..Len(fs) + 1
        /\ Len(fs) + 1 \in k + 1..Len(fs) + 1 /\ k + 2 <= Len(fs) + 1 /\ (k + 1) + 1 = k + 2
    BY <1>2, <1>4
  <2>2. /\ st[k + 1] = 0 /\ st[k + 2] = st[k + 1] + Len(fs[k + 1]) /\ st[k + 2] <= Len(S)
        /\ \A x \in 1..Len(fs[k + 1]) : S[st[k + 1] + x] = fs[k + 1][x]
    BY <1>1, <2>1 DEF Laid
  <2>3. fs[k + 1] \in Seq(Nat)
    BY <2>1
  <2>4. Len(fs[k + 1]) \in Nat
    BY <2>3
  <2>5. \A x \in 1..Len(fs[k + 1]) : 0 + x = x
    BY <2>4
  <2>6. 0 + Len(fs[k + 1]) = Len(fs[k + 1])
    BY <2>4
  <2>7. \A x \in 1..Len(fs[k + 1]) : S[0 + x] = fs[k + 1][x]
    BY <2>2
  <2>8. \A x \in 1..Len(fs[k + 1]) : S[x] = fs[k + 1][x]
    BY <2>5, <2>7
  <2>9. Len(fs[k + 1]) <= Len(S)
    BY <2>2, <2>6
  <2> QED
    BY <2>4, <2>8, <2>9
<1> QED
  BY <1>3, <1>4

\* And it ends with the last one.
LEMMA JoinedLast ==
  ASSUME NEW S \in Seq(Nat), NEW fs \in Seq(Seq(Nat)), NEW k \in 0..Len(fs), Joined(S, fs, k)
  PROVE  /\ k < Len(fs) => Len(S) >= Len(fs[Len(fs)])
         /\ k + 1 < Len(fs) => Len(S) >= Len(fs[k + 1]) + Len(fs[Len(fs)])
<1>1. PICK st \in [k + 1..Len(fs) + 1 -> Nat] : Laid(S, fs, k, st)
  BY DEF Joined
<1>2. k \in Nat /\ Len(fs) \in Nat /\ k <= Len(fs) /\ Len(S) \in Nat
  OBVIOUS
<1>3. \A j \in k + 1..Len(fs) : Len(fs[j]) \in Nat /\ st[j] \in Nat
  <2> SUFFICES ASSUME NEW j \in k + 1..Len(fs) PROVE Len(fs[j]) \in Nat /\ st[j] \in Nat
    OBVIOUS
  <2>1. j \in 1..Len(fs) /\ j \in k + 1..Len(fs) + 1
    BY <1>2
  <2>2. fs[j] \in Seq(Nat)
    BY <2>1
  <2> QED
    BY <2>1, <2>2
<1>4. ASSUME k < Len(fs)
      PROVE  /\ Len(fs[Len(fs)]) \in Nat /\ st[Len(fs)] \in Nat
             /\ Len(S) = st[Len(fs)] + Len(fs[Len(fs)])
  <2>1. Len(fs) \in k + 1..Len(fs)
    BY <1>2, <1>4
  <2> QED
    BY <1>1, <1>3, <2>1 DEF Laid
<1>5. ASSUME k + 1 < Len(fs)
      PROVE  Len(fs[k + 1]) \in Nat /\ Len(fs[k + 1]) <= st[Len(fs)]
  <2>1. /\ k + 1 \in k + 1..Len(fs) /\ k + 2 \in k + 1..Len(fs) + 1
        /\ Len(fs) \in k + 1..Len(fs) + 1 /\ k + 2 <= Len(fs) /\ (k + 1) + 1 = k + 2
    BY <1>2, <1>5
  <2>2. st[k + 1] = 0 /\ st[k + 2] = st[k + 1] + Len(fs[k + 1]) /\ st[k + 2] <= st[Len(fs)]
    BY <1>1, <2>1 DEF Laid
  <2>3. Len(fs[k + 1]) \in Nat
    BY <1>3, <2>1
  <2>4. 0 + Len(fs[k + 1]) = Len(fs[k + 1])
    BY <2>3
  <2> QED
    BY <2>2, <2>3, <2>4
<1>6. ASSUME NEW a \in Nat, NEW b \in Nat, NEW c \in Nat, NEW s, s = a + b, c <= a
      PROVE  s >= b /\ s >= c + b
  BY <1>6
<1>7. ASSUME k < Len(fs) PROVE Len(S) >= Len(fs[Len(fs)])
  BY <1>4, <1>7, <1>6
<1>8. ASSUME k + 1 < Len(fs) PROVE Len(S) >= Len(fs[k + 1]) + Len(fs[Len(fs)])
  <2>1. k < Len(fs)
    BY <1>2, <1>8
  <2> QED
    BY <1>4, <1>5, <1>6, <1>8, <2>1
<1> QED
  BY <1>7, <1>8

\* What is left of it without the first frame.
LEMMA JoinedDropped ==
  ASSUME NEW S \in Seq(Nat), NEW fs \in Seq(Seq(Nat)), NEW k \in 0..Len(fs), Joined(S, fs, k),
         k < Len(fs), NEW T \in Seq(Nat), Len(S) = Len(fs[k + 1]) + Len(T),
         \A i \in 1..Len(T) : T[i] = S[Len(fs[k + 1]) + i]
  PROVE  Joined(T, fs, k + 1)
<1>1. PICK st \in [k + 1..Len(fs) + 1 -> Nat] : Laid(S, fs, k, st)
  BY DEF Joined
<1> DEFINE n == Len(fs)
           d == Len(fs[k + 1])
           new == [j \in k + 2..n + 1 |-> st[j] - d]
<1>2. k \in Nat /\ n \in Nat /\ k < n /\ Len(S) \in Nat /\ Len(T) \in Nat /\ d \in Nat
  <2>1. fs[k + 1] \in Seq(Nat)
    OBVIOUS
  <2> QED
    BY <2>1
<1>3. st[k + 2] = d /\ st[n + 1] = Len(S)
  <2>1. k + 1 \in k + 1..n /\ (k + 1) + 1 = k + 2
    BY <1>2
  <2>2. st[k + 1] = 0 /\ st[k + 2] = st[k + 1] + d /\ st[n + 1] = Len(S)
    BY <1>1, <2>1 DEF Laid
  <2> QED
    BY <1>2, <2>2
<1>4. \A j \in k + 2..n + 1 : st[j] \in Nat /\ st[j] >= d /\ st[j] <= Len(S)
  <2>1. \A j \in k + 2..n + 1 : /\ j \in k + 1..n + 1 /\ k + 2 \in k + 1..n + 1 /\ k + 2 <= j
                                /\ n + 1 \in k + 1..n + 1 /\ j <= n + 1
    BY <1>2
  <2>2. \A i, j \in k + 1..n + 1 : i <= j => st[i] <= st[j]
    BY <1>1 DEF Laid
  <2> QED
    BY <1>3, <2>1, <2>2
<1>5. Len(S) = d + Len(T) /\ \A i \in 1..Len(T) : T[i] = S[d + i]
  OBVIOUS
<1> HIDE DEF d
<1>6. new \in [k + 2..n + 1 -> Nat] /\ \A j \in k + 2..n + 1 : new[j] = st[j] - d
  BY <1>2, <1>4
<1> HIDE DEF new
<1>7. new[k + 2] = 0 /\ new[n + 1] = Len(T)
  <2>1. k + 2 \in k + 2..n + 1 /\ n + 1 \in k + 2..n + 1
    BY <1>2
  <2>2. new[k + 2] = d - d /\ new[n + 1] = Len(S) - d
    BY <1>3, <1>6, <2>1
  <2> HIDE DEF n
  <2>3. ASSUME NEW a \in Nat, NEW b \in Nat, NEW c \in Nat, c = a + b
        PROVE  a - a = 0 /\ c - a = b
    BY <2>3
  <2> QED
    BY <1>2, <1>5, <2>2, <2>3
<1>8. \A i, j \in k + 2..n + 1 : i <= j => new[i] <= new[j]
  <2>1. \A i, j \in k + 2..n + 1 : i <= j => st[i] <= st[j]
    <3>1. \A i \in k + 2..n + 1 : i \in k + 1..n + 1
      BY <1>2
    <3> QED
      BY <1>1, <3>1 DEF Laid
  <2> QED
    BY <1>2, <1>4, <1>6, <2>1
<1>9. ASSUME NEW j \in k + 2..n
      PROVE  /\ new[j + 1] = new[j] + Len(fs[j])
             /\ \A x \in 1..Len(fs[j]) : T[new[j] + x] = fs[j][x]
  <2>0. fs[j] \in Seq(Nat)
    <3>1. j \in 1..n
      BY <1>2
    <3> QED
      BY <3>1
  <2>1. j \in k + 1..n /\ j \in k + 2..n + 1 /\ j + 1 \in k + 2..n + 1
    <3> HIDE DEF n
    <3> QED
      BY <1>2
  <2>2. /\ st[j + 1] = st[j] + Len(fs[j])
        /\ \A x \in 1..Len(fs[j]) : S[st[j] + x] = fs[j][x]
    BY <1>1, <2>1 DEF Laid
  <2>3. Len(fs[j]) \in Nat
    BY <2>0
  <2>4. /\ new[j] = st[j] - d /\ new[j + 1] = st[j + 1] - d /\ st[j] \in Nat /\ st[j] >= d
        /\ st[j + 1] <= d + Len(T)
    BY <1>4, <1>5, <1>6, <2>1
  <2> DEFINE a == st[j]  b == st[j + 1]  e == new[j]  f == new[j + 1]  l == Len(fs[j])
  <2>5. /\ b = a + l /\ e = a - d /\ f = b - d /\ a >= d /\ b <= d + Len(T)
        /\ a \in Nat /\ l \in Nat
    BY <2>2, <2>3, <2>4
  <2>6. f = e + l /\ \A x \in 1..l : e + x \in 1..Len(T) /\ d + (e + x) = a + x
    <3> HIDE DEF a, b, e, f, l
    <3> QED
      BY <1>2, <2>5
  <2>7. ASSUME NEW x \in 1..Len(fs[j]) PROVE T[new[j] + x] = fs[j][x]
    <3>1. T[new[j] + x] = S[d + (new[j] + x)]
      BY <1>5, <2>6
    <3> QED
      BY <2>2, <2>6, <3>1
  <2> QED
    BY <2>6, <2>7
<1>10. (k + 1) + 1 = k + 2
  BY <1>2
<1>11. Laid(T, fs, k + 1, new)
  BY <1>6, <1>7, <1>8, <1>9, <1>10 DEF Laid
<1> QED
  BY <1>6, <1>10, <1>11 DEF Joined

\* Another frame behind it.
LEMMA JoinedMore ==
  ASSUME NEW S \in Seq(Nat), NEW fs \in Seq(Seq(Nat)), NEW k \in 0..Len(fs), Joined(S, fs, k),
         NEW f \in Seq(Nat), NEW T \in Seq(Nat), Len(T) = Len(S) + Len(f),
         \A i \in 1..Len(S) : T[i] = S[i], \A x \in 1..Len(f) : T[Len(S) + x] = f[x]
  PROVE  Joined(T, Append(fs, f), k)
<1>1. PICK st \in [k + 1..Len(fs) + 1 -> Nat] : Laid(S, fs, k, st)
  BY DEF Joined
<1> DEFINE n == Len(fs)
           gs == Append(fs, f)
           new == [j \in k + 1..n + 2 |-> IF j = n + 2 THEN Len(T) ELSE st[j]]
<1>2. k \in Nat /\ n \in Nat /\ k <= n /\ Len(S) \in Nat /\ Len(T) \in Nat /\ Len(f) \in Nat
  OBVIOUS
<1>3. Len(gs) = n + 1 /\ gs[n + 1] = f /\ \A j \in 1..n : gs[j] = fs[j]
  OBVIOUS
<1>4. \A j \in k + 1..n + 1 : st[j] \in Nat /\ st[j] <= Len(S)
  <2>1. \A j \in k + 1..n + 1 : n + 1 \in k + 1..n + 1 /\ j <= n + 1
    BY <1>2
  <2> QED
    BY <1>1, <2>1 DEF Laid
<1> HIDE DEF n, gs
<1>5. /\ new \in [k + 1..n + 2 -> Nat] /\ new[n + 2] = Len(T)
      /\ \A j \in k + 1..n + 1 : new[j] = st[j]
  <2>1. \A j \in k + 1..n + 2 : j # n + 2 => j \in k + 1..n + 1
    BY <1>2
  <2>2. n + 2 \in k + 1..n + 2 /\ \A j \in k + 1..n + 1 : j \in k + 1..n + 2 /\ j # n + 2
    BY <1>2
  <2> QED
    BY <1>2, <1>4, <2>1, <2>2
<1> HIDE DEF new
<1>6. new[k + 1] = 0
  <2>1. k + 1 \in k + 1..n + 1
    BY <1>2
  <2> QED
    BY <1>1, <1>5, <2>1 DEF Laid
<1>7. \A i, j \in k + 1..n + 2 : i <= j => new[i] <= new[j]
  <2>1. \A i, j \in k + 1..n + 1 : i <= j => new[i] <= new[j]
    BY <1>1, <1>5 DEF Laid, n
  <2>2. \A i \in k + 1..n + 1 : new[i] <= Len(T)
    BY SMTT(30), <1>2, <1>4, <1>5
  <2>3. \A j \in k + 1..n + 2 : j \in k + 1..n + 1 \/ j = n + 2
    BY <1>2
  <2>4. \A j \in k + 1..n + 1 : ~(n + 2 <= j)
    BY <1>2
  <2> SUFFICES ASSUME NEW i \in k + 1..n + 2, NEW j \in k + 1..n + 2, i <= j
               PROVE  new[i] <= new[j]
    OBVIOUS
  <2>5. CASE j \in k + 1..n + 1
    <3>1. i \in k + 1..n + 1
      BY <2>3, <2>4, <2>5
    <3> QED
      BY <2>1, <2>5, <3>1
  <2>6. CASE j = n + 2
    <3>1. Len(T) <= Len(T)
      BY <1>2
    <3> QED
      BY <1>5, <2>2, <2>3, <2>6, <3>1
  <2> QED
    BY <2>3, <2>5, <2>6
<1>8. ASSUME NEW j \in k + 1..n + 1
      PROVE  /\ new[j + 1] = new[j] + Len(gs[j])
             /\ \A x \in 1..Len(gs[j]) : T[new[j] + x] = gs[j][x]
  <2>1. CASE j = n + 1
    <3>1. new[j] = Len(S) /\ new[j + 1] = Len(S) + Len(f)
      <4>1. n + 1 \in k + 1..n + 1 /\ (n + 1) + 1 = n + 2
        BY <1>2
      <4> QED
        BY <1>1, <1>5, <2>1, <4>1 DEF Laid, n
    <3> QED
      BY <1>3, <2>1, <3>1
  <2>2. CASE j # n + 1
    <3>1. j \in k + 1..n /\ j \in 1..n /\ j \in k + 1..n + 1 /\ j + 1 \in k + 1..n + 1
      BY <1>2, <2>2
    <3>2. fs[j] \in Seq(Nat)
      BY <3>1 DEF n
    <3>3. /\ gs[j] = fs[j] /\ new[j] = st[j] /\ new[j + 1] = st[j + 1] /\ st[j] \in Nat
          /\ st[j + 1] <= Len(S) /\ Len(fs[j]) \in Nat
      <4>1. gs[j] = fs[j]
        BY <1>3, <3>1
      <4>2. new[j] = st[j] /\ new[j + 1] = st[j + 1]
        BY <1>5, <3>1
      <4>3. st[j] \in Nat /\ st[j + 1] <= Len(S)
        BY <1>4, <3>1
      <4>4. Len(fs[j]) \in Nat
        BY <3>2
      <4> QED
        BY <4>1, <4>2, <4>3, <4>4
    <3>4. st[j + 1] = st[j] + Len(fs[j]) /\ \A x \in 1..Len(fs[j]) : S[st[j] + x] = fs[j][x]
      BY <1>1, <3>1 DEF Laid, n
    <3>5. \A x \in 1..Len(fs[j]) : st[j] + x \in 1..Len(S)
      <4> DEFINE a == st[j]  b == st[j + 1]  l == Len(fs[j])
      <4>1. a \in Nat /\ l \in Nat /\ b = a + l /\ b <= Len(S)
        BY <3>3, <3>4
      <4>2. \A x \in 1..l : a + x \in 1..Len(S)
        <5> HIDE DEF a, b, l
        <5> QED
          BY <1>2, <4>1
      <4> QED
        BY <4>2
    <3> QED
      BY <3>3, <3>4, <3>5
  <2> QED
    BY <2>1, <2>2
<1>9. (n + 1) + 1 = n + 2
  BY <1>2
<1>10. Laid(T, gs, k, new)
  BY <1>3, <1>5, <1>6, <1>7, <1>8, <1>9 DEF Laid
<1> QED
  BY <1>3, <1>5, <1>9, <1>10 DEF Joined, gs

-----------------------------------------------------------------------------

Framed(m) == W!BeBytes(Len(m)) \o m
Encoded  == [j \in 1..Len(sent) |-> Framed(sent[j])]
Taken    == header \o payload
Stream   == Taken \o (socket \o writing)
Outcome  == IF W!Listening THEN "no" ELSE task

WireTyped ==
  /\ alive \in BOOLEAN /\ task \in {"hello", "open", "eof", "error"}
  /\ writing \in Seq(Nat) /\ socket \in Seq(Nat) /\ header \in Seq(Nat) /\ payload \in Seq(Nat)
  /\ sent \in Seq(Messages) /\ got \in Seq(Messages)

\* What was delivered is what was sent first, and begins with the greeting.
Delivered ==
  /\ Len(got) <= Len(sent) /\ \A i \in 1..Len(got) : got[i] = sent[i]
  /\ task = "hello" => got = <<>>
  /\ task = "open"  => got # <<>> /\ sent[1] = Greeting
  /\ \A j \in 2..Len(sent) : Len(sent[j]) <= MaxFrame

\* While the task reads, what it has of a message, what the socket holds and what the
\* client has still to write are together the frames that were not delivered yet.
Streaming ==
  /\ Joined(Stream, Encoded, Len(got))
  /\ Len(header) <= 2 /\ (Len(header) < 2 => payload = <<>>)
  /\ Len(header) = 2 => Len(payload) < W!FromBe(header)
  /\ writing # <<>> => /\ Len(got) < Len(sent)
                       /\ Len(writing) < Len(Framed(sent[Len(sent)]))

WireInv == WireTyped /\ Delivered /\ (W!Listening => Streaming)

\* Sequences of bytes behind one another.
LEMMA BytesJoin ==
  ASSUME NEW a \in Seq(Nat), NEW b \in Seq(Nat)
  PROVE  /\ a \o b \in Seq(Nat) /\ Len(a \o b) = Len(a) + Len(b)
         /\ \A i \in 1..Len(a) + Len(b) : (a \o b)[i] = IF i <= Len(a) THEN a[i] ELSE b[i - Len(a)]
BY ConcatProperties

LEMMA BytesAssociate ==
  ASSUME NEW a \in Seq(Nat), NEW b \in Seq(Nat), NEW c \in Seq(Nat)
  PROVE  (a \o b) \o c = a \o (b \o c)
BY SMTT(30), ConcatAssociative

LEMMA FrameFacts ==
  ASSUME NEW m \in Seq(Nat)
  PROVE  /\ Framed(m) \in Seq(Nat) /\ Len(Framed(m)) = Len(m) + 2
         /\ W!FromBe(Framed(m)) = Len(m) /\ \A i \in 1..Len(m) : Framed(m)[i + 2] = m[i]
<1> DEFINE l == Len(m)
<1>1. l \in Nat
  OBVIOUS
<1>2. W!BeBytes(l) \in Seq(Nat) /\ Len(W!BeBytes(l)) = 2
      /\ W!BeBytes(l)[1] = l \div 2 /\ W!BeBytes(l)[2] = l % 2
  <2>1. l \div 2 \in Nat /\ l % 2 \in Nat
    BY <1>1
  <2> QED
    BY <2>1 DEF W!BeBytes
<1>3. /\ Framed(m) \in Seq(Nat) /\ Len(Framed(m)) = l + 2
      /\ Framed(m)[1] = l \div 2 /\ Framed(m)[2] = l % 2
      /\ \A i \in 1..l : Framed(m)[i + 2] = m[i]
  <2> DEFINE h == W!BeBytes(l)
  <2>1. Framed(m) = h \o m /\ h \in Seq(Nat) /\ Len(h) = 2 /\ h[1] = l \div 2 /\ h[2] = l % 2
    BY <1>2 DEF Framed
  <2>0. l \in Nat /\ l = Len(m)
    BY <1>1
  <2> HIDE DEF h, l
  <2>2. /\ h \o m \in Seq(Nat) /\ Len(h \o m) = 2 + l
        /\ \A i \in 1..2 + l : (h \o m)[i] = IF i <= 2 THEN h[i] ELSE m[i - 2]
    <3>1. /\ h \o m \in Seq(Nat) /\ Len(h \o m) = Len(h) + Len(m)
          /\ \A i \in 1..Len(h) + Len(m) :
               (h \o m)[i] = IF i <= Len(h) THEN h[i] ELSE m[i - Len(h)]
      BY <2>1, BytesJoin
    <3> QED
      BY <2>0, <2>1, <3>1
  <2>3. \A i \in 1..l : i + 2 \in 1..2 + l /\ ~(i + 2 <= 2) /\ (i + 2) - 2 = i
    BY <2>0
  <2>4. 1 \in 1..2 + l /\ 2 \in 1..2 + l /\ 2 + l = l + 2
    BY <2>0
  <2>5. Framed(m)[1] = h[1] /\ Framed(m)[2] = h[2]
    BY <2>1, <2>2, <2>4
  <2>6. \A i \in 1..l : Framed(m)[i + 2] = m[i]
    BY <2>1, <2>2, <2>3
  <2> QED
    BY <2>1, <2>2, <2>4, <2>5, <2>6
<1>4. 2 * (l \div 2) + (l % 2) = l
  <2> HIDE DEF l
  <2> QED
    BY <1>1
<1> QED
  BY <1>3, <1>4 DEF W!FromBe

LEMMA EncodedFacts ==
  ASSUME WireTyped
  PROVE  /\ Encoded \in Seq(Seq(Nat)) /\ Len(Encoded) = Len(sent)
         /\ \A j \in 1..Len(sent) : Encoded[j] = Framed(sent[j]) /\ sent[j] \in Seq(Nat)
<1>1. \A j \in 1..Len(sent) : sent[j] \in Seq(Nat)
  BY MessagesAssumption DEF WireTyped
<1>2. \A j \in 1..Len(sent) : Framed(sent[j]) \in Seq(Nat)
  BY <1>1, FrameFacts
<1>3. Len(sent) \in Nat
  BY DEF WireTyped
<1> QED
  BY <1>1, <1>2, <1>3 DEF Encoded

LEMMA StreamFacts ==
  ASSUME WireTyped
  PROVE  /\ Stream \in Seq(Nat)
         /\ Len(Stream) = Len(header) + Len(payload) + Len(socket) + Len(writing)
BY DEF WireTyped, Stream, Taken

\* A byte passes from one queue to the next.
LEMMA Passes ==
  ASSUME NEW a \in Seq(Nat), NEW b \in Seq(Nat), NEW c \in Seq(Nat), b # <<>>
  PROVE  /\ Append(a, Head(b)) \o Tail(b) = a \o b
         /\ Append(a, Head(b)) \o (Tail(b) \o c) = a \o (b \o c)
<1>1. Head(b) \in Nat /\ Tail(b) \in Seq(Nat) /\ Len(Tail(b)) = Len(b) - 1 /\ Len(b) \in Nat \ {0}
      /\ b[1] = Head(b) /\ \A i \in 1..Len(Tail(b)) : Tail(b)[i] = b[i + 1]
  OBVIOUS
<1> DEFINE x == Head(b)  t == Tail(b)  o == <<x>>
<1>2. o \in Seq(Nat) /\ Append(a, x) = a \o o
  BY <1>1, AppendIsConcat
<1>3. b = o \o t
  <2>1. o \o t \in Seq(Nat) /\ Len(o \o t) = Len(b) /\ \A i \in 1..Len(b) : (o \o t)[i] = b[i]
    <3>1. Len(o) = 1 /\ o[1] = x
      OBVIOUS
    <3> HIDE DEF o, x, t
    <3>2. t \in Seq(Nat) /\ Len(t) = Len(b) - 1 /\ b[1] = x /\ \A i \in 1..Len(t) : t[i] = b[i + 1]
      BY <1>1 DEF x, t
    <3>3. /\ o \o t \in Seq(Nat) /\ Len(o \o t) = 1 + Len(t)
          /\ \A i \in 1..1 + Len(t) : (o \o t)[i] = IF i <= 1 THEN o[i] ELSE t[i - 1]
      BY SMTT(30), <1>2, <3>1, <3>2, BytesJoin
    <3>4. \A i \in 1..Len(b) : (o \o t)[i] = b[i]
      <4> SUFFICES ASSUME NEW i \in 1..Len(b) PROVE (o \o t)[i] = b[i]
        OBVIOUS
      <4>1. CASE i = 1
        BY <1>1, <3>1, <3>2, <3>3, <4>1
      <4>2. CASE i # 1
        <5>1. i - 1 \in 1..Len(t) /\ ~(i <= 1) /\ i \in 1..1 + Len(t) /\ (i - 1) + 1 = i
          BY <1>1, <3>2, <4>2
        <5> QED
          BY <3>2, <3>3, <5>1
      <4> QED
        BY <4>1, <4>2
    <3>5. Len(o \o t) = Len(b)
      BY <1>1, <3>2, <3>3
    <3> QED
      BY <3>3, <3>4, <3>5
  <2> HIDE DEF o, t
  <2> QED
    BY <2>1, SeqEqual
<1>0. t \in Seq(Nat)
  BY <1>1
<1> HIDE DEF o, t, x
<1>4. (a \o o) \o t = a \o (o \o t) /\ o \o (t \o c) = (o \o t) \o c
  BY ZenonT(30), <1>0, <1>2, BytesAssociate
<1>5. (a \o o) \o (t \o c) = a \o (o \o (t \o c))
  <2>1. t \o c \in Seq(Nat)
    BY <1>0, BytesJoin
  <2> QED
    BY ZenonT(30), <1>0, <1>2, <2>1, BytesAssociate
<1> QED
  BY <1>2, <1>3, <1>4, <1>5 DEF t, x

\* What the stream begins with is the next message, behind its length.
LEMMA NextFrame ==
  ASSUME WireTyped, NEW S \in Seq(Nat), NEW k \in 0..Len(sent), Joined(S, Encoded, k)
  PROVE  /\ S # <<>> => k < Len(sent)
         /\ k < Len(sent) =>
              /\ sent[k + 1] \in Seq(Nat) /\ sent[k + 1] \in Messages
              /\ Len(S) >= Len(sent[k + 1]) + 2 /\ W!FromBe(S) = Len(sent[k + 1])
              /\ \A i \in 1..Len(sent[k + 1]) : S[i + 2] = sent[k + 1][i]
<1>1. Encoded \in Seq(Seq(Nat)) /\ Len(Encoded) = Len(sent) /\ Len(sent) \in Nat
  BY EncodedFacts DEF WireTyped
<1>2. /\ S # <<>> => k < Len(sent)
      /\ k < Len(sent) => /\ Len(S) >= Len(Encoded[k + 1])
                          /\ \A x \in 1..Len(Encoded[k + 1]) : S[x] = Encoded[k + 1][x]
  BY <1>1, JoinedFirst
<1>3. ASSUME k < Len(sent)
      PROVE  /\ sent[k + 1] \in Seq(Nat) /\ sent[k + 1] \in Messages
             /\ Len(S) >= Len(sent[k + 1]) + 2 /\ W!FromBe(S) = Len(sent[k + 1])
             /\ \A i \in 1..Len(sent[k + 1]) : S[i + 2] = sent[k + 1][i]
  <2> DEFINE m == sent[k + 1]  f == Framed(m)
  <2>1. k + 1 \in 1..Len(sent)
    BY <1>1, <1>3
  <2>2. Encoded[k + 1] = f /\ m \in Seq(Nat) /\ m \in Messages
    BY <2>1, EncodedFacts DEF WireTyped
  <2>3. /\ f \in Seq(Nat) /\ Len(f) = Len(m) + 2 /\ W!FromBe(f) = Len(m)
        /\ \A i \in 1..Len(m) : f[i + 2] = m[i]
    BY <2>2, FrameFacts
  <2>4. Len(S) >= Len(f) /\ \A x \in 1..Len(f) : S[x] = f[x]
    BY <1>2, <1>3, <2>2
  <2>5. Len(m) \in Nat
    BY <2>2
  <2> HIDE DEF f, m
  <2>6. 1 \in 1..Len(f) /\ 2 \in 1..Len(f) /\ \A i \in 1..Len(m) : i + 2 \in 1..Len(f)
    BY <2>3, <2>5
  <2>7. W!FromBe(S) = Len(m)
    BY <2>3, <2>4, <2>6 DEF W!FromBe
  <2>8. \A i \in 1..Len(m) : S[i + 2] = m[i]
    BY <2>3, <2>4, <2>6
  <2>9. Len(S) >= Len(m) + 2
    BY <2>3, <2>4
  <2> QED
    BY <2>2, <2>7, <2>8, <2>9 DEF m
<1> QED
  BY <1>2, <1>3

\* A length and as many bytes as it says are the next message.
LEMMA WholeFrame ==
  ASSUME WireTyped, NEW k \in 0..Len(sent),
         NEW h \in Seq(Nat), NEW q \in Seq(Nat), NEW r \in Seq(Nat),
         Len(h) = 2, Len(q) = W!FromBe(h), Joined((h \o q) \o r, Encoded, k)
  PROVE  k < Len(sent) /\ q = sent[k + 1] /\ Joined(r, Encoded, k + 1)
<1> DEFINE S == (h \o q) \o r
           m == sent[k + 1]
<1>1. /\ h \o q \in Seq(Nat) /\ Len(h \o q) = 2 + Len(q)
      /\ \A i \in 1..2 + Len(q) : (h \o q)[i] = IF i <= 2 THEN h[i] ELSE q[i - 2]
  <2>1. /\ h \o q \in Seq(Nat) /\ Len(h \o q) = Len(h) + Len(q)
        /\ \A i \in 1..Len(h) + Len(q) :
             (h \o q)[i] = IF i <= Len(h) THEN h[i] ELSE q[i - Len(h)]
    BY BytesJoin
  <2> QED
    BY <2>1
<1>2. /\ S \in Seq(Nat) /\ Len(S) = Len(h \o q) + Len(r)
      /\ \A i \in 1..Len(h \o q) + Len(r) :
           S[i] = IF i <= Len(h \o q) THEN (h \o q)[i] ELSE r[i - Len(h \o q)]
  BY <1>1, BytesJoin
<1>3. Len(q) \in Nat /\ Len(r) \in Nat /\ k \in Nat /\ Len(sent) \in Nat
  BY DEF WireTyped
<1>4. Joined(S, Encoded, k)
  OBVIOUS
<1> DEFINE a == h \o q
<1>5. a \in Seq(Nat) /\ Len(a) = 2 + Len(q) /\ Len(S) = Len(a) + Len(r)
  BY <1>1, <1>2
<1>6. /\ S[1] = h[1] /\ S[2] = h[2] /\ \A i \in 1..Len(q) : S[i + 2] = q[i]
      /\ \A i \in 1..Len(r) : S[Len(a) + i] = r[i]
  <2>1. /\ \A i \in 1..Len(a) + Len(r) : S[i] = IF i <= Len(a) THEN a[i] ELSE r[i - Len(a)]
        /\ \A i \in 1..2 + Len(q) : a[i] = IF i <= 2 THEN h[i] ELSE q[i - 2]
    BY <1>1, <1>2
  <2> HIDE DEF a, S
  <2>2. /\ 1 \in 1..Len(a) + Len(r) /\ 1 <= Len(a) /\ 1 \in 1..2 + Len(q)
        /\ 2 \in 1..Len(a) + Len(r) /\ 2 <= Len(a) /\ 2 \in 1..2 + Len(q)
    BY <1>3, <1>5
  <2>3. \A i \in 1..Len(q) : /\ i + 2 \in 1..Len(a) + Len(r) /\ i + 2 <= Len(a)
                             /\ i + 2 \in 1..2 + Len(q) /\ ~(i + 2 <= 2) /\ (i + 2) - 2 = i
    <3>1. ASSUME NEW u \in Nat, NEW v \in Nat, NEW w, w = 2 + u, NEW i \in 1..u
          PROVE  /\ i + 2 \in 1..w + v /\ i + 2 <= w
                 /\ i + 2 \in 1..2 + u /\ ~(i + 2 <= 2) /\ (i + 2) - 2 = i
      BY <3>1
    <3> QED
      BY <1>3, <1>5, <3>1
  <2>4. \A i \in 1..Len(r) : /\ Len(a) + i \in 1..Len(a) + Len(r) /\ ~(Len(a) + i <= Len(a))
                             /\ (Len(a) + i) - Len(a) = i
    <3>1. ASSUME NEW w \in Nat, NEW v \in Nat, NEW i \in 1..v
          PROVE  w + i \in 1..w + v /\ ~(w + i <= w) /\ (w + i) - w = i
      OBVIOUS
    <3>2. Len(a) \in Nat
      BY <1>5
    <3> QED
      BY <1>3, <3>1, <3>2
  <2>5. S[1] = h[1] /\ S[2] = h[2]
    BY <2>1, <2>2
  <2>6. \A i \in 1..Len(q) : S[i + 2] = q[i]
    BY <2>1, <2>3
  <2>7. \A i \in 1..Len(r) : S[Len(a) + i] = r[i]
    BY <2>1, <2>4
  <2> QED
    BY <2>5, <2>6, <2>7
<1>7. W!FromBe(S) = Len(q)
  BY <1>6 DEF W!FromBe
<1> HIDE DEF S, a
<1>8. S # <<>>
  <2>1. Len(S) > 0
    BY <1>3, <1>5
  <2> QED
    BY <2>1
<1>9. /\ k < Len(sent) /\ m \in Seq(Nat) /\ W!FromBe(S) = Len(m)
      /\ \A i \in 1..Len(m) : S[i + 2] = m[i]
  BY <1>2, <1>4, <1>8, NextFrame
<1>10. q = m
  <2> HIDE DEF m
  <2>1. Len(q) = Len(m) /\ \A i \in 1..Len(q) : q[i] = m[i]
    BY <1>6, <1>7, <1>9
  <2> QED
    BY <1>9, <2>1, SeqEqual
<1>11. Joined(r, Encoded, k + 1)
  <2>1. k + 1 \in 1..Len(sent)
    BY <1>3, <1>9
  <2>2. Encoded[k + 1] = Framed(m) /\ Encoded \in Seq(Seq(Nat)) /\ Len(Encoded) = Len(sent)
    BY <2>1, EncodedFacts
  <2>3. Len(Encoded[k + 1]) = Len(a)
    <3>1. Len(Framed(m)) = Len(m) + 2
      BY <1>9, FrameFacts
    <3> QED
      BY SMTT(30), <1>3, <1>5, <1>10, <2>2, <3>1
  <2>4. /\ Len(S) = Len(Encoded[k + 1]) + Len(r)
        /\ \A i \in 1..Len(r) : r[i] = S[Len(Encoded[k + 1]) + i]
    BY <1>5, <1>6, <2>3
  <2> HIDE DEF m
  <2> QED
    BY <1>2, <1>4, <1>9, <2>2, <2>4, JoinedDropped
<1> QED
  BY <1>9, <1>10, <1>11 DEF m

\* A connection begins with nothing on its way.
LEMMA WireStarts ==
  ASSUME W!Init
  PROVE  WireInv
<1>1. WireTyped /\ Delivered
  BY DEF W!Init, WireTyped, Delivered
<1>2. Stream = <<>> /\ Encoded = <<>> /\ Len(got) = 0
  BY DEF W!Init, Stream, Taken, Encoded
<1>3. Joined(Stream, Encoded, Len(got))
  <2> DEFINE st == [j \in 0 + 1..Len(Encoded) + 1 |-> 0]
  <2>1. Len(Encoded) = 0 /\ Len(Stream) = 0
    BY <1>2
  <2>2. st \in [0 + 1..Len(Encoded) + 1 -> Nat] /\ Laid(Stream, Encoded, 0, st)
    BY <2>1 DEF Laid
  <2> QED
    BY <1>2, <2>2 DEF Joined
<1>4. Streaming
  BY <1>3 DEF W!Init, Streaming
<1> QED
  BY <1>1, <1>4 DEF WireInv

\* A client begins to write a message, or gives up before it.
LEMMA WireBegins ==
  ASSUME WireInv, NEW m \in Messages, W!WriteMsg(m)
  PROVE  WireInv' /\ W!Queue!Next
<1>1. CASE W!TooLong(m)
  <2>1. alive /\ alive' = FALSE /\ UNCHANGED <<writing, sent, socket, header, payload, task, got>>
    BY <1>1 DEF W!WriteMsg, W!taskVars
  <2>2. W!Queue!Leave
    BY <2>1 DEF W!Queue!Leave, W!Listening
  <2>3. WireInv'
    BY <2>1 DEF WireInv, WireTyped, Delivered, Streaming, W!Listening, Stream, Taken, Encoded
  <2> QED
    BY <2>2, <2>3 DEF W!Queue!Next
<1>2. CASE ~W!TooLong(m)
  <2> DEFINE f == Framed(m)
  <2>1. /\ alive /\ alive' = alive /\ writing = <<>> /\ writing' = Tail(f)
        /\ socket' = Append(socket, Head(f)) /\ sent' = Append(sent, m)
        /\ header' = header /\ payload' = payload /\ task' = task /\ got' = got
    BY <1>2 DEF W!WriteMsg, W!taskVars, Framed
  <2>2. WireTyped /\ Delivered
    BY DEF WireInv
  <2>3. m \in Seq(Nat) /\ f \in Seq(Nat) /\ Len(f) = Len(m) + 2 /\ Len(m) \in Nat
    <3>1. m \in Seq(Nat)
      BY MessagesAssumption
    <3> QED
      BY <3>1, FrameFacts
  <2> HIDE DEF f
  <2>4. f # <<>> /\ Head(f) \in Nat /\ Tail(f) \in Seq(Nat) /\ Len(Tail(f)) < Len(f)
    BY <2>3
  <2>5. WireTyped'
    BY <2>1, <2>2, <2>4 DEF WireTyped
  <2>6. /\ Len(sent) \in Nat /\ Len(got) \in Nat /\ Len(sent') = Len(sent) + 1
        /\ sent'[Len(sent) + 1] = m /\ \A i \in 1..Len(sent) : sent'[i] = sent[i]
    BY <2>1, <2>2 DEF WireTyped
  <2>7. Delivered'
    <3>1. Len(got) <= Len(sent) /\ \A i \in 1..Len(got) : got[i] = sent[i]
      BY <2>2 DEF Delivered
    <3>2. Len(got') <= Len(sent') /\ \A i \in 1..Len(got') : got'[i] = sent'[i]
      BY <2>1, <2>6, <3>1
    <3>3. task' = "hello" => got' = <<>>
      BY <2>1, <2>2 DEF Delivered
    <3>4. ASSUME task' = "open" PROVE got' # <<>> /\ sent'[1] = Greeting
      <4>1. got # <<>> /\ sent[1] = Greeting
        BY <2>1, <2>2, <3>4 DEF Delivered
      <4>2. Len(got) > 0
        BY <2>2, <4>1 DEF WireTyped
      <4>3. 1 \in 1..Len(sent)
        BY <2>6, <3>1, <4>2
      <4> QED
        BY <2>1, <2>6, <4>1, <4>3
    <3>5. ASSUME NEW j \in 2..Len(sent') PROVE Len(sent'[j]) <= MaxFrame
      <4>1. CASE j \in 2..Len(sent)
        BY <2>2, <2>6, <4>1 DEF Delivered
      <4>2. CASE j = Len(sent) + 1
        <5>1. sent # <<>>
          BY <2>6, <3>5, <4>2
        <5>2. ~(Len(m) > MaxFrame)
          BY <1>2, <5>1 DEF W!TooLong
        <5> QED
          BY <2>3, <2>6, <4>2, <5>2, MessagesAssumption
      <4> QED
        BY <2>6, <4>1, <4>2
    <3> QED
      BY <3>2, <3>3, <3>4, <3>5 DEF Delivered
  <2>8. ASSUME W!Listening' PROVE Streaming'
    <3>1. Streaming
      BY <2>1, <2>8 DEF WireInv, W!Listening
    <3>2. Stream' = Stream \o f
      <4>1. Taken \in Seq(Nat) /\ socket \in Seq(Nat)
        BY <2>2 DEF WireTyped, Taken
      <4>2. Stream = Taken \o socket
        BY <2>1, <4>1 DEF Stream
      <4>3. Append(socket, Head(f)) \o Tail(f) = socket \o f
        BY <2>3, <2>4, <4>1, Passes
      <4>4. Stream' = Taken \o (Append(socket, Head(f)) \o Tail(f))
        BY <2>1 DEF Stream, Taken
      <4>5. (Taken \o socket) \o f = Taken \o (socket \o f)
        BY <2>3, <4>1, BytesAssociate
      <4> QED
        BY <4>2, <4>3, <4>4, <4>5
    <3>3. Encoded' = Append(Encoded, f)
      <4> DEFINE g == Append(Encoded, f)
      <4>1. Encoded \in Seq(Seq(Nat)) /\ Len(Encoded) = Len(sent)
            /\ \A j \in 1..Len(sent) : Encoded[j] = Framed(sent[j])
        BY <2>2, EncodedFacts
      <4>2. g \in Seq(Seq(Nat)) /\ Len(g) = Len(sent) + 1 /\ g[Len(sent) + 1] = f
            /\ \A j \in 1..Len(sent) : g[j] = Encoded[j]
        BY <2>3, <4>1
      <4>3. Encoded' \in Seq(Seq(Nat)) /\ Len(Encoded') = Len(sent')
            /\ \A j \in 1..Len(sent') : Encoded'[j] = Framed(sent'[j])
        <5>1. \A j \in 1..Len(sent') : sent'[j] \in Seq(Nat)
          BY <2>5, MessagesAssumption DEF WireTyped
        <5>2. \A j \in 1..Len(sent') : Framed(sent'[j]) \in Seq(Nat)
          BY <5>1, FrameFacts
        <5>3. Encoded' = [j \in 1..Len(sent') |-> Framed(sent'[j])]
          BY DEF Encoded, Framed, W!BeBytes
        <5> QED
          BY <2>6, <5>2, <5>3
      <4> HIDE DEF g
      <4>4. \A j \in 1..Len(sent') : Encoded'[j] = g[j]
        <5> SUFFICES ASSUME NEW j \in 1..Len(sent') PROVE Encoded'[j] = g[j]
          OBVIOUS
        <5>1. CASE j \in 1..Len(sent)
          BY <2>6, <4>1, <4>2, <4>3, <5>1
        <5>2. CASE j = Len(sent) + 1
          BY <2>6, <4>2, <4>3, <5>2 DEF f
        <5> QED
          BY <2>6, <5>1, <5>2
      <4>5. Encoded' = g
        BY <2>6, <4>2, <4>3, <4>4, SeqEqual
      <4> QED
        BY <4>5 DEF g
    <3>4. Joined(Stream', Encoded', Len(got'))
      <4>1. /\ Stream \in Seq(Nat) /\ Encoded \in Seq(Seq(Nat)) /\ Len(got) \in 0..Len(Encoded)
            /\ Joined(Stream, Encoded, Len(got))
        BY <2>2, <2>6, <3>1, StreamFacts, EncodedFacts DEF Streaming, Delivered
      <4> DEFINE S == Stream  T == Stream \o f
      <4>2. /\ T \in Seq(Nat) /\ Len(T) = Len(S) + Len(f)
            /\ \A i \in 1..Len(S) + Len(f) : T[i] = IF i <= Len(S) THEN S[i] ELSE f[i - Len(S)]
        BY <2>3, <4>1, BytesJoin
      <4>3. Len(S) \in Nat /\ Len(f) \in Nat
        BY <2>3, <4>1
      <4> HIDE DEF S, T
      <4>4. \A i \in 1..Len(S) : i \in 1..Len(S) + Len(f) /\ i <= Len(S)
        BY <4>3
      <4>5. \A x \in 1..Len(f) : /\ Len(S) + x \in 1..Len(S) + Len(f)
                                 /\ ~(Len(S) + x <= Len(S)) /\ (Len(S) + x) - Len(S) = x
        BY <4>3
      <4>6. (\A i \in 1..Len(S) : T[i] = S[i]) /\ \A x \in 1..Len(f) : T[Len(S) + x] = f[x]
        BY <4>2, <4>4, <4>5
      <4>7. Joined(T, Append(Encoded, f), Len(got))
        BY <2>3, <4>1, <4>2, <4>6, JoinedMore DEF S
      <4> QED
        BY <2>1, <3>2, <3>3, <4>7 DEF T
    <3>5. writing' # <<>> => /\ Len(got') < Len(sent')
                             /\ Len(writing') < Len(Framed(sent'[Len(sent')]))
      BY <2>1, <2>2, <2>4, <2>6 DEF Delivered, f
    <3>6. /\ Len(header') <= 2 /\ (Len(header') < 2 => payload' = <<>>)
          /\ Len(header') = 2 => Len(payload') < W!FromBe(header')
      BY <2>1, <3>1 DEF Streaming
    <3> QED
      BY <3>4, <3>5, <3>6 DEF Streaming, Framed, W!BeBytes, W!FromBe
  <2>9. W!Queue!Send(m)
    BY <2>1 DEF W!Queue!Send, W!Listening
  <2> QED
    BY <2>5, <2>7, <2>8, <2>9 DEF WireInv, W!Queue!Next
<1> QED
  BY <1>1, <1>2

\* The socket takes a byte.
LEMMA WireWrites ==
  ASSUME WireInv, W!WriteByte
  PROVE  WireInv' /\ UNCHANGED <<alive, sent, got, task>>
<1>1. /\ writing # <<>> /\ socket' = Append(socket, Head(writing)) /\ writing' = Tail(writing)
      /\ UNCHANGED <<alive, sent, header, payload, task, got>>
  BY DEF W!WriteByte, W!taskVars
<1>2. WireTyped /\ Delivered
  BY DEF WireInv
<1>3. /\ writing \in Seq(Nat) /\ socket \in Seq(Nat) /\ Taken \in Seq(Nat)
      /\ Len(Tail(writing)) < Len(writing) /\ Tail(writing) \in Seq(Nat) /\ Head(writing) \in Nat
  BY <1>1, <1>2 DEF WireTyped, Taken
<1>4. WireTyped' /\ Delivered'
  BY <1>1, <1>2, <1>3 DEF WireTyped, Delivered
<1>5. Stream' = Stream /\ Encoded' = Encoded
  <2>1. Append(socket, Head(writing)) \o Tail(writing) = socket \o writing
    BY <1>1, <1>3, Passes
  <2> QED
    BY <1>1, <2>1 DEF Stream, Taken, Encoded
<1>6. ASSUME W!Listening' PROVE Streaming'
  <2>1. Streaming
    BY <1>1, <1>6 DEF WireInv, W!Listening
  <2>2. writing' # <<>> => /\ Len(got') < Len(sent')
                           /\ Len(writing') < Len(Framed(sent'[Len(sent')]))
    <3>1. Len(got) < Len(sent) /\ Len(writing) < Len(Framed(sent[Len(sent)]))
      BY <1>1, <2>1 DEF Streaming
    <3>2. Len(sent) \in 1..Len(sent)
      BY <1>2, <3>1 DEF WireTyped
    <3>3. sent[Len(sent)] \in Seq(Nat)
      BY <1>2, <3>2, EncodedFacts
    <3>4. Len(Framed(sent[Len(sent)])) \in Nat
      BY <3>3, FrameFacts
    <3> QED
      BY <1>1, <1>3, <3>1, <3>4
  <2>3. /\ Joined(Stream', Encoded', Len(got'))
        /\ Len(header') <= 2 /\ (Len(header') < 2 => payload' = <<>>)
        /\ Len(header') = 2 => Len(payload') < W!FromBe(header')
    BY <1>1, <1>5, <2>1 DEF Streaming
  <2> QED
    BY <2>2, <2>3 DEF Streaming, Framed, W!BeBytes, W!FromBe
<1> QED
  BY <1>1, <1>4, <1>6 DEF WireInv

\* A whole message: it is delivered, or the client is not listened to.
LEMMA WireTakes ==
  ASSUME WireInv, W!Listening, NEW h \in Seq(Nat), NEW q \in Seq(Nat), Len(h) = 2,
         Len(q) = W!FromBe(h), socket # <<>>, socket' = Tail(socket),
         (h \o q) \o (Tail(socket) \o writing) = Stream, W!Message(q),
         UNCHANGED <<alive, writing, sent>>
  PROVE  WireInv' /\ W!Queue!Next
<1>1. WireTyped /\ Delivered /\ Streaming
  BY DEF WireInv
<1> DEFINE k == Len(got)  r == Tail(socket) \o writing
<1>2. /\ k \in 0..Len(sent) /\ k \in Nat /\ Len(sent) \in Nat
      /\ Tail(socket) \in Seq(Nat) /\ r \in Seq(Nat)
  <2>1. k <= Len(sent) /\ k \in Nat /\ Len(sent) \in Nat /\ Tail(socket) \in Seq(Nat)
    BY <1>1 DEF WireTyped, Delivered
  <2> QED
    BY <1>1, <2>1, BytesJoin DEF WireTyped
<1>3. k < Len(sent) /\ q = sent[k + 1] /\ Joined(r, Encoded, k + 1)
  <2>1. Joined((h \o q) \o r, Encoded, k)
    BY <1>1 DEF Streaming
  <2> HIDE DEF k, r
  <2> QED
    BY <1>1, <1>2, <2>1, WholeFrame
<1>4. header' = <<>> /\ payload' = <<>>
  BY DEF W!Message
<1>5. CASE W!Reject(q)
  <2>1. task = "hello" /\ q # Greeting /\ task' = "error" /\ got' = got /\ got = <<>>
    BY <1>1, <1>5 DEF W!Message, W!Reject, Delivered
  <2>2. k = 0 /\ sent # <<>> /\ sent[1] # Greeting
    BY <1>2, <1>3, <2>1
  <2>3. W!Queue!End
    BY <2>1, <2>2 DEF W!Queue!End, W!Queue!Foreign, W!Listening
  <2>4. WireInv'
    BY <1>1, <1>2, <1>4, <2>1 DEF WireInv, WireTyped, Delivered, W!Listening
  <2> QED
    BY <2>3, <2>4 DEF W!Queue!Next
<1>6. CASE ~W!Reject(q)
  <2>1. got' = Append(got, q) /\ task' = "open"
    BY <1>6 DEF W!Message
  <2>2. k + 1 \in 1..Len(sent) /\ q \in Messages
    <3>1. k + 1 \in 1..Len(sent)
      BY <1>2, <1>3
    <3> QED
      BY <1>1, <1>3, <3>1 DEF WireTyped
  <2>3. sent # <<>> /\ sent[1] = Greeting
    <3>1. CASE task = "hello"
      BY <1>1, <1>2, <1>3, <1>6, <3>1 DEF W!Reject, Delivered
    <3>2. CASE task = "open"
      BY <1>1, <1>2, <1>3, <3>2 DEF Delivered
    <3> QED
      BY <3>1, <3>2 DEF W!Listening
  <2>4. W!Queue!Deliver
    BY <1>3, <2>1, <2>3 DEF W!Queue!Deliver, W!Queue!Foreign, W!Listening
  <2>5. WireTyped'
    BY <1>1, <1>2, <1>4, <2>1, <2>2 DEF WireTyped
  <2>6. Len(got') = k + 1 /\ got' # <<>> /\ got'[k + 1] = q /\ \A i \in 1..k : got'[i] = got[i]
    <3>1. got \in Seq(Messages) /\ got' = Append(got, q) /\ q \in Messages
      BY <1>1, <2>1, <2>2 DEF WireTyped
    <3>2. /\ Len(got') = Len(got) + 1 /\ got'[Len(got) + 1] = q
          /\ \A i \in 1..Len(got) : got'[i] = got[i]
      BY <3>1
    <3>3. Len(got') > 0
      BY <1>2, <3>2
    <3>4. got' # <<>>
      BY <3>3
    <3> QED
      BY <3>2, <3>4
  <2>7. Delivered'
    <3>1. \A i \in 1..k : got[i] = sent[i]
      BY <1>1 DEF Delivered
    <3>2. \A i \in 1..k + 1 : i \in 1..k \/ i = k + 1
      <4> HIDE DEF k
      <4> QED
        BY <1>2
    <3>3. \A i \in 1..k + 1 : got'[i] = sent[i]
      BY <1>3, <2>6, <3>1, <3>2
    <3>4. k + 1 <= Len(sent)
      BY <1>2, <1>3
    <3>5. \A j \in 2..Len(sent) : Len(sent[j]) <= MaxFrame
      BY <1>1 DEF Delivered
    <3> HIDE DEF k
    <3> QED
      BY <2>1, <2>3, <2>6, <3>3, <3>4, <3>5 DEF Delivered
  <2>8. Streaming'
    <3>1. Stream' = r /\ Encoded' = Encoded
      <4>1. Stream' = (<<>> \o <<>>) \o r
        BY <1>4 DEF Stream, Taken
      <4>2. <<>> \o <<>> = <<>> /\ <<>> \o r = r
        BY <1>2, ConcatEmptySeq
      <4> QED
        BY <4>1, <4>2 DEF Encoded
    <3>2. Joined(Stream', Encoded', Len(got'))
      BY <1>3, <2>6, <3>1
    <3>3. ASSUME writing' # <<>>
          PROVE  Len(got') < Len(sent') /\ Len(writing') < Len(Framed(sent'[Len(sent')]))
      <4>1. Len(writing) < Len(Framed(sent[Len(sent)]))
        BY <1>1, <3>3 DEF Streaming
      <4>2. r # <<>>
        <5>1. Len(writing) > 0 /\ Len(Tail(socket)) \in Nat
          BY <1>1, <1>2, <3>3 DEF WireTyped
        <5>2. Len(r) = Len(Tail(socket)) + Len(writing)
          BY <1>1, <1>2, BytesJoin DEF WireTyped
        <5> HIDE DEF r
        <5>3. Len(r) > 0
          BY <1>1, <5>1, <5>2 DEF WireTyped
        <5> QED
          BY <5>3
      <4>3. k + 1 \in 0..Len(sent)
        BY <2>2
      <4>4. k + 1 < Len(sent)
        <5> HIDE DEF k, r
        <5> QED
          BY <1>1, <1>2, <1>3, <4>2, <4>3, NextFrame
      <4> QED
        BY <2>6, <4>1, <4>4
    <3> QED
      BY <1>4, <3>2, <3>3 DEF Streaming, Framed, W!BeBytes, W!FromBe
  <2> QED
    BY <2>4, <2>5, <2>7, <2>8 DEF WireInv, W!Queue!Next
<1> QED
  BY <1>5, <1>6

\* A byte is read: it adds to the length, to the payload, or makes a message whole.
LEMMA WireReads ==
  ASSUME WireInv, W!ReadByte
  PROVE  WireInv' /\ (W!Queue!Next \/ UNCHANGED <<alive, sent, got, task>>)
<1> DEFINE b == Head(socket)  rest == Tail(socket)  h == Append(header, b)  p == Append(payload, b)
<1>1. WireTyped /\ Delivered /\ Streaming /\ W!Listening
  BY DEF WireInv, W!ReadByte
<1>2. /\ socket # <<>> /\ socket' = rest /\ UNCHANGED <<alive, writing, sent>>
      /\ IF Len(header) < 2
         THEN IF Len(h) = 2 /\ W!FromBe(h) > MaxFrame
              THEN task' = "error" /\ UNCHANGED <<header, payload, got>>
              ELSE IF Len(h) = 2 /\ W!FromBe(h) = 0 THEN W!Message(<<>>)
              ELSE header' = h /\ UNCHANGED <<payload, task, got>>
         ELSE IF Len(p) = W!FromBe(header) THEN W!Message(p)
              ELSE payload' = p /\ UNCHANGED <<header, task, got>>
  BY DEF W!ReadByte, W!clientVars
<1>3. /\ b \in Nat /\ rest \in Seq(Nat) /\ h \in Seq(Nat) /\ p \in Seq(Nat)
      /\ Len(h) = Len(header) + 1 /\ Len(p) = Len(payload) + 1
      /\ header \in Seq(Nat) /\ payload \in Seq(Nat) /\ socket \in Seq(Nat) /\ writing \in Seq(Nat)
      /\ Taken \in Seq(Nat) /\ Len(header) \in Nat /\ Len(payload) \in Nat
  BY <1>1, <1>2 DEF WireTyped, Taken
<1> HIDE DEF b, rest, h, p
<1>4. Append(Taken, b) \o (rest \o writing) = Stream
  <2>1. /\ Taken \in Seq(Nat) /\ socket \in Seq(Nat) /\ writing \in Seq(Nat) /\ socket # <<>>
    BY <1>2, <1>3
  <2>2. Append(Taken, Head(socket)) \o (Tail(socket) \o writing) = Taken \o (socket \o writing)
    BY <2>1, Passes
  <2> QED
    BY <2>2 DEF Stream, b, rest
<1>5. ASSUME UNCHANGED <<task, got>>, Taken' = Append(Taken, b),
             header' \in Seq(Nat), payload' \in Seq(Nat),
             Len(header') <= 2 /\ (Len(header') < 2 => payload' = <<>>),
             Len(header') = 2 => Len(payload') < W!FromBe(header')
      PROVE  WireInv' /\ UNCHANGED <<alive, sent, got, task>>
  <2>1. Stream' = Stream /\ Encoded' = Encoded
    BY <1>2, <1>4, <1>5 DEF Stream, Encoded
  <2>2. WireTyped' /\ Delivered'
    BY <1>1, <1>2, <1>3, <1>5 DEF WireTyped, Delivered
  <2>3. Streaming'
    BY <1>1, <1>2, <1>5, <2>1 DEF Streaming, Framed, W!BeBytes, W!FromBe
  <2> QED
    BY <1>2, <1>5, <2>2, <2>3 DEF WireInv
<1>6. CASE Len(header) < 2
  <2>1. payload = <<>> /\ Taken = header
    <3>1. payload = <<>>
      BY <1>1, <1>6 DEF Streaming
    <3> QED
      BY <1>3, <3>1, ConcatEmptySeq DEF Taken
  <2>2. h \o (rest \o writing) = Stream
    BY <1>4, <2>1 DEF h
  <2>3. CASE Len(h) = 2 /\ W!FromBe(h) > MaxFrame
    <3>1. task' = "error" /\ UNCHANGED <<header, payload, got>>
      BY <1>2, <1>6, <2>3
    <3> DEFINE k == Len(got)  m == sent[k + 1]
    <3>2. k \in 0..Len(sent) /\ Stream \in Seq(Nat) /\ Joined(Stream, Encoded, k)
      BY <1>1, StreamFacts DEF WireTyped, Delivered, Streaming
    <3>3. Stream # <<>> /\ W!FromBe(Stream) = W!FromBe(h)
      <4> DEFINE r == rest \o writing
      <4>1. r \in Seq(Nat)
        BY <1>3, BytesJoin
      <4> HIDE DEF r
      <4>2. /\ Len(h \o r) = Len(h) + Len(r) /\ Len(r) \in Nat
            /\ \A i \in 1..Len(h) + Len(r) :
                 (h \o r)[i] = IF i <= Len(h) THEN h[i] ELSE r[i - Len(h)]
        <5>1. h \in Seq(Nat) /\ r \in Seq(Nat)
          BY <1>3, <4>1
        <5> QED
          BY <5>1, BytesJoin
      <4>3. Stream = h \o r
        BY <2>2 DEF r
      <4>4. 1 \in 1..Len(h) + Len(r) /\ 2 \in 1..Len(h) + Len(r) /\ 1 <= Len(h) /\ 2 <= Len(h)
        BY <2>3, <4>2
      <4>5. Stream[1] = h[1] /\ Stream[2] = h[2] /\ Len(Stream) > 0
        BY <2>3, <4>2, <4>3, <4>4
      <4> QED
        BY <4>5 DEF W!FromBe
    <3> HIDE DEF k
    <3>4. k < Len(sent) /\ m \in Seq(Nat) /\ W!FromBe(Stream) = Len(m)
      BY <1>1, <3>2, <3>3, NextFrame
    <3>5. Len(m) > MaxFrame /\ ~(Len(m) <= MaxFrame)
      BY <2>3, <3>3, <3>4, MessagesAssumption
    <3>6. k \in Nat /\ Len(sent) \in Nat
      BY <1>1, <3>2 DEF WireTyped
    <3>7. k = 0
      <4>1. k + 1 \in 2..Len(sent) => FALSE
        BY <1>1, <3>5 DEF Delivered
      <4> QED
        BY <3>4, <3>6, <4>1
    <3>8. got = <<>>
      BY <1>1, <3>7 DEF WireTyped, k
    <3>9. sent # <<>> /\ sent[1] # Greeting
      BY <3>4, <3>5, <3>6, <3>7, GreetingAssumption
    <3>10. W!Queue!End
      BY <1>1, <1>2, <3>1, <3>8, <3>9 DEF W!Queue!End, W!Queue!Foreign, W!Listening
    <3>11. WireInv'
      BY <1>1, <1>2, <1>3, <3>1 DEF WireInv, WireTyped, Delivered, W!Listening
    <3> QED
      BY <3>10, <3>11 DEF W!Queue!Next
  <2>4. CASE Len(h) = 2 /\ W!FromBe(h) = 0
    <3>1. W!Message(<<>>)
      BY <1>2, <1>6, <2>4, MessagesAssumption
    <3>2. h \o <<>> = h /\ <<>> \in Seq(Nat) /\ Len(<<>>) = 0
      BY <1>3, ConcatEmptySeq
    <3>3. (h \o <<>>) \o (Tail(socket) \o writing) = Stream
      BY <2>2, <3>2 DEF rest
    <3>4. WireInv' /\ W!Queue!Next
      BY <1>1, <1>2, <1>3, <2>4, <3>1, <3>2, <3>3, WireTakes DEF rest
    <3> QED
      BY <3>4
  <2>5. CASE ~(Len(h) = 2 /\ W!FromBe(h) > MaxFrame) /\ ~(Len(h) = 2 /\ W!FromBe(h) = 0)
    <3>1. header' = h /\ payload' = <<>> /\ UNCHANGED <<task, got>>
      BY <1>2, <1>6, <2>1, <2>5
    <3>2. Taken' = Append(Taken, b)
      <4>1. h \o <<>> = h
        BY <1>3, ConcatEmptySeq
      <4> QED
        BY <2>1, <3>1, <4>1 DEF Taken, h
    <3>3. Len(h) <= 2
      BY <1>3, <1>6
    <3>4. Len(h) = 2 => 0 < W!FromBe(h)
      <4> SUFFICES ASSUME Len(h) = 2 PROVE 0 < W!FromBe(h)
        OBVIOUS
      <4>1. h[1] \in Nat /\ h[2] \in Nat
        <5>1. h \in Seq(Nat) /\ Len(h) = 2
          BY <1>3
        <5>2. 1 \in 1..Len(h) /\ 2 \in 1..Len(h)
          BY <5>1
        <5> QED
          BY <5>1, <5>2, ElementOfSeq
      <4>2. W!FromBe(h) \in Nat
        BY <4>1 DEF W!FromBe
      <4> QED
        BY <2>5, <4>2
    <3>5. header' \in Seq(Nat) /\ payload' \in Seq(Nat) /\ Len(payload') = 0
      BY <1>3, <3>1
    <3> QED
      BY <1>5, <3>1, <3>2, <3>3, <3>4, <3>5 DEF W!FromBe
  <2> QED
    BY <2>3, <2>4, <2>5
<1>7. CASE ~(Len(header) < 2)
  <2>1. Len(header) = 2 /\ Len(payload) < W!FromBe(header)
    <3>1. Len(header) <= 2 /\ Len(header) \in Nat
      BY <1>1, <1>3 DEF Streaming
    <3>2. \A v \in Nat : v <= 2 /\ ~(v < 2) => v = 2
      OBVIOUS
    <3>3. Len(header) = 2
      BY <1>7, <3>1, <3>2
    <3> QED
      BY <1>1, <3>3 DEF Streaming
  <2>2. Append(Taken, b) = header \o p
    <3> DEFINE o == <<b>>
    <3>1. o \in Seq(Nat)
      BY <1>3
    <3>2. Append(Taken, b) = Taken \o o /\ Append(payload, b) = payload \o o
      <4>1. Taken \in Seq(Nat) /\ payload \in Seq(Nat) /\ b \in Nat
        BY <1>3
      <4> QED
        BY <4>1, AppendIsConcat
    <3> HIDE DEF o
    <3>3. (header \o payload) \o o = header \o (payload \o o)
      <4>1. header \in Seq(Nat) /\ payload \in Seq(Nat)
        BY <1>3
      <4> QED
        BY <3>1, <4>1, BytesAssociate
    <3> QED
      BY <3>2, <3>3 DEF Taken, p
  <2>3. CASE Len(p) = W!FromBe(header)
    <3>1. W!Message(p)
      BY <1>2, <1>7, <2>3
    <3>2. (header \o p) \o (Tail(socket) \o writing) = Stream
      BY <1>4, <2>2 DEF rest
    <3>3. WireInv' /\ W!Queue!Next
      BY <1>1, <1>2, <1>3, <2>1, <2>3, <3>1, <3>2, WireTakes DEF rest
    <3> QED
      BY <3>3
  <2>4. CASE Len(p) # W!FromBe(header)
    <3>1. payload' = p /\ UNCHANGED <<header, task, got>>
      BY <1>2, <1>7, <2>4
    <3>2. Taken' = Append(Taken, b)
      BY <2>2, <3>1 DEF Taken
    <3>3. Len(p) < W!FromBe(header)
      <4>1. header[1] \in Nat /\ header[2] \in Nat
        <5>1. header \in Seq(Nat) /\ Len(header) = 2
          BY <1>3, <2>1
        <5>2. 1 \in 1..Len(header) /\ 2 \in 1..Len(header)
          BY <5>1
        <5> QED
          BY <5>1, <5>2, ElementOfSeq
      <4>2. W!FromBe(header) \in Nat
        BY <4>1 DEF W!FromBe
      <4> QED
        BY <1>3, <2>1, <2>4, <4>2
    <3>4. /\ header' \in Seq(Nat) /\ payload' \in Seq(Nat) /\ Len(header') = 2
          /\ Len(payload') < W!FromBe(header')
      BY <1>3, <2>1, <3>1, <3>3 DEF W!FromBe
    <3> QED
      BY <1>5, <3>1, <3>2, <3>4
  <2> QED
    BY <2>3, <2>4
<1> QED
  BY <1>6, <1>7

\* The end of the stream: clean if the task has nothing of a message.
LEMMA WireEnds ==
  ASSUME WireInv, W!ReadEnd
  PROVE  WireInv' /\ W!Queue!Next
<1> DEFINE k == Len(got)  n == Len(sent)
<1>1. WireTyped /\ Delivered /\ Streaming /\ W!Listening
  BY DEF WireInv, W!ReadEnd
<1>2. /\ socket = <<>> /\ ~alive /\ task' = IF header = <<>> THEN "eof" ELSE "error"
      /\ UNCHANGED <<socket, header, payload, got, alive, writing, sent>>
  BY DEF W!ReadEnd, W!AtBoundary, W!clientVars
<1>3. /\ got \in Seq(Messages) /\ sent \in Seq(Messages) /\ k \in Nat /\ n \in Nat /\ k <= n
      /\ header \in Seq(Nat) /\ payload \in Seq(Nat) /\ writing \in Seq(Nat)
      /\ Len(header) \in Nat /\ Len(payload) \in Nat /\ Len(writing) \in Nat
  BY <1>1 DEF WireTyped, Delivered
<1>4. WireInv'
  BY <1>1, <1>2 DEF WireInv, WireTyped, Delivered, W!Listening
<1>5. /\ Stream \in Seq(Nat) /\ Len(Stream) = Len(header) + Len(payload) + Len(writing)
      /\ Len(Stream) \in Nat
  BY <1>1, <1>2, <1>3, StreamFacts
<1>6. /\ Encoded \in Seq(Seq(Nat)) /\ Len(Encoded) = n /\ k \in 0..n
      /\ Joined(Stream, Encoded, k)
      /\ \A j \in 1..n : Encoded[j] = Framed(sent[j]) /\ sent[j] \in Seq(Nat)
  BY <1>1, <1>3, EncodedFacts DEF Streaming
<1>7. k < n => n \in 1..n /\ Len(Encoded[n]) \in Nat /\ Len(Encoded[n]) >= 2
  <2> SUFFICES ASSUME k < n PROVE n \in 1..n /\ Len(Encoded[n]) \in Nat /\ Len(Encoded[n]) >= 2
    OBVIOUS
  <2>1. n \in 1..n
    BY <1>3
  <2>2. Encoded[n] = Framed(sent[n]) /\ sent[n] \in Seq(Nat)
    BY <1>6, <2>1
  <2>3. Len(Framed(sent[n])) = Len(sent[n]) + 2 /\ Len(sent[n]) \in Nat
    BY <2>2, FrameFacts
  <2> QED
    BY <2>1, <2>2, <2>3
<1>8. writing # <<>> => k < n /\ Len(writing) < Len(Encoded[n])
  <2> SUFFICES ASSUME writing # <<>> PROVE k < n /\ Len(writing) < Len(Encoded[n])
    OBVIOUS
  <2>1. k < n /\ Len(writing) < Len(Framed(sent[n]))
    BY <1>1 DEF Streaming
  <2> QED
    BY <1>6, <1>7, <2>1
<1>9. writing = <<>> => Len(writing) = 0
  OBVIOUS
<1>10. /\ k < n => Len(Stream) >= Len(Encoded[n])
       /\ k + 1 < n => Len(Stream) >= Len(Encoded[k + 1]) + Len(Encoded[n])
  <2> HIDE DEF k, n
  <2> QED
    BY <1>5, <1>6, JoinedLast
<1>11. /\ Len(header) <= 2 /\ (Len(header) < 2 => payload = <<>>)
       /\ Len(header) = 2 => Len(payload) < W!FromBe(header)
  BY <1>1 DEF Streaming
<1> HIDE DEF k, n
<1>12. CASE header = <<>>
  <2>1. Len(header) = 0 /\ Len(payload) = 0
    BY <1>11, <1>12
  <2>2. Len(Stream) = Len(writing)
    BY <1>3, <1>5, <2>1
  <2>3. ~(k < n)
    BY <1>3, <1>5, <1>7, <1>8, <1>9, <1>10, <2>2
  <2>4. Len(got) = Len(sent) /\ \A i \in 1..Len(got) : got[i] = sent[i]
    BY <1>1, <1>3, <2>3 DEF Delivered, k, n
  <2>5. got = sent
    BY <1>3, <2>4, SeqEqual
  <2>6. W!Queue!End
    BY <1>1, <1>2, <1>12, <2>5 DEF W!Queue!End, W!Listening
  <2> QED
    BY <1>4, <2>6 DEF W!Queue!Next
<1>13. CASE header # <<>>
  <2>1. Len(header) > 0
    BY <1>3, <1>13
  <2>2. Stream # <<>>
    <3>1. Len(Stream) > 0
      BY <1>3, <1>5, <2>1
    <3> QED
      BY <1>5, <3>1
  <2>3. /\ k < n /\ Len(sent[k + 1]) \in Nat /\ W!FromBe(Stream) = Len(sent[k + 1])
    <3>1. Stream \in Seq(Nat) /\ k \in 0..Len(sent) /\ Joined(Stream, Encoded, k)
      BY <1>5, <1>6 DEF n
    <3>2. k < Len(sent) /\ sent[k + 1] \in Seq(Nat) /\ W!FromBe(Stream) = Len(sent[k + 1])
      BY <1>1, <2>2, <3>1, NextFrame
    <3> QED
      BY <3>2 DEF n
  <2>4. Len(Encoded[k + 1]) = Len(sent[k + 1]) + 2
    <3>1. k + 1 \in 1..n
      BY <1>3, <2>3
    <3> QED
      BY <1>6, <3>1, FrameFacts
  <2>5. Len(header) + Len(payload) < Len(Encoded[k + 1])
    <3>1. CASE Len(header) < 2
      <4>1. Len(payload) = 0
        BY <1>11, <3>1
      <4> QED
        BY <1>3, <2>3, <2>4, <3>1, <4>1
    <3>2. CASE Len(header) = 2
      <4>1. W!FromBe(header) = W!FromBe(Stream)
        <5> DEFINE r == payload \o (socket \o writing)
        <5>1. socket \o writing \in Seq(Nat) /\ r \in Seq(Nat)
          BY <1>1 DEF WireTyped
        <5>2. Stream = header \o r
          BY <1>3, <5>1, BytesAssociate DEF Stream, Taken
        <5> HIDE DEF r
        <5>3. /\ Len(header \o r) = Len(header) + Len(r) /\ Len(r) \in Nat
              /\ \A i \in 1..Len(header) + Len(r) :
                    (header \o r)[i] = IF i <= Len(header) THEN header[i] ELSE r[i - Len(header)]
          <6>1. header \in Seq(Nat) /\ r \in Seq(Nat)
            BY <1>3, <5>1
          <6> QED
            BY <6>1, BytesJoin
        <5>4. /\ 1 \in 1..Len(header) + Len(r) /\ 1 <= Len(header)
              /\ 2 \in 1..Len(header) + Len(r) /\ 2 <= Len(header)
          BY <3>2, <5>3
        <5>5. Stream[1] = header[1] /\ Stream[2] = header[2]
          BY <5>2, <5>3, <5>4
        <5> QED
          BY <5>5 DEF W!FromBe
      <4> QED
        BY <1>3, <1>11, <2>3, <2>4, <3>2, <4>1
    <3>3. Len(header) < 2 \/ Len(header) = 2
      <4>1. Len(header) \in Nat /\ Len(header) <= 2
        BY <1>3, <1>11
      <4>2. \A v \in Nat : v <= 2 => v < 2 \/ v = 2
        OBVIOUS
      <4> QED
        BY <4>1, <4>2
    <3> QED
      BY <3>1, <3>2, <3>3
  <2>6. k + 1 = n
    <3>1. SUFFICES ASSUME k + 1 < n PROVE FALSE
      BY <1>3, <2>3
    <3>2. Len(Stream) >= Len(Encoded[k + 1]) + Len(Encoded[n])
      BY <1>10, <3>1
    <3>3. Len(writing) < Len(Encoded[n])
      BY <1>3, <1>7, <1>8, <1>9, <2>3
    <3>4. Len(Encoded[n]) \in Nat /\ Len(Encoded[k + 1]) \in Nat
      BY <1>7, <2>3, <2>4
    <3>5. ASSUME NEW h \in Nat, NEW p \in Nat, NEW w \in Nat, NEW a \in Nat, NEW e \in Nat,
                 h + p + w >= a + e, w < e, h + p < a
          PROVE  FALSE
      BY <3>5
    <3> QED
      BY <1>3, <1>5, <2>5, <3>2, <3>3, <3>4, <3>5
  <2>7. W!Queue!End
    BY <1>1, <1>2, <1>13, <2>6 DEF W!Queue!End, W!Listening, k, n
  <2> QED
    BY <1>4, <2>7 DEF W!Queue!Next
<1> QED
  BY <1>12, <1>13

\* The bytes of a connection carry its messages: what the daemon's task hands to its
\* loop is a queue of whole messages that loses at most the one being written.
THEOREM CarriesMessagesHolds == SumSpec => CarriesMessages
<1> DEFINE over == IF W!Listening THEN "no" ELSE task
<1>1. SumInit => WireInv /\ W!Queue!Init
  BY WireStarts DEF SumInit, W!Init, W!Queue!Init, W!Listening
<1>2. WireInv /\ [SumNext]_SumVars
        => WireInv' /\ [W!Queue!Next]_<<alive, sent, got, IF W!Listening THEN "no" ELSE task>>
  <2> SUFFICES ASSUME WireInv, [SumNext]_SumVars
               PROVE  /\ WireInv'
                      /\ [W!Queue!Next]_<<alive, sent, got, IF W!Listening THEN "no" ELSE task>>
    OBVIOUS
  <2>1. CASE UNCHANGED wireVars
    <3>1. UNCHANGED <<alive, writing, socket, header, payload, task, sent, got>>
      BY <2>1 DEF wireVars
    <3>2. WireInv'
      BY <3>1 DEF WireInv, WireTyped, Delivered, Streaming, W!Listening, Stream, Taken, Encoded,
                  Framed, W!BeBytes, W!FromBe
    <3> QED
      BY <3>1, <3>2 DEF W!Listening
  <2>2. CASE W!Next
    <3>1. ASSUME NEW m \in Messages, W!WriteMsg(m) PROVE WireInv' /\ W!Queue!Next
      BY <3>1, WireBegins
    <3>2. CASE W!WriteByte
      BY <3>2, WireWrites DEF W!Listening
    <3>3. CASE W!Leaves
      <4>1. /\ alive /\ alive' = FALSE
            /\ UNCHANGED <<writing, socket, header, payload, task, sent, got>>
        BY <3>3 DEF W!Leaves, W!taskVars
      <4>2. W!Queue!Leave
        BY <4>1 DEF W!Queue!Leave, W!Listening
      <4>3. WireInv'
        BY <4>1 DEF WireInv, WireTyped, Delivered, Streaming, W!Listening, Stream, Taken, Encoded,
                    Framed, W!BeBytes, W!FromBe
      <4> QED
        BY <4>2, <4>3 DEF W!Queue!Next
    <3>4. CASE W!ReadByte
      BY <3>4, WireReads DEF W!Listening
    <3>5. CASE W!ReadEnd
      BY <3>5, WireEnds
    <3> QED
      BY <2>2, <3>1, <3>2, <3>3, <3>4, <3>5 DEF W!Next
  <2> QED
    BY <2>1, <2>2 DEF SumNext, SumVars
<1> QED
  BY <1>1, <1>2, PTL DEF SumSpec, CarriesMessages, W!CarriesMessages, W!Queue!Spec

-----------------------------------------------------------------------------
(* Numbers and folds                                                        *)

\* Of natural numbers there is a least.
LEMMA LeastNumber ==
  ASSUME NEW T, T \subseteq Nat, T # {}
  PROVE  \E x \in T : \A y \in T : x <= y
<1> DEFINE R == {ss \in Nat \X Nat : ss[1] < ss[2]}
<1>1. R = OpToRel(<, Nat)
  BY DEF OpToRel
<1>2. IsWellFoundedOn(R, Nat)
  BY <1>1, NatLessThanWellFounded
<1> HIDE DEF R
<1>3. PICK x \in T : \A y \in T : ~(<<y, x>> \in R)
  BY <1>2, WFMin
<1>4. ASSUME NEW y \in T PROVE x <= y
  <2>1. x \in Nat /\ y \in Nat /\ <<y, x>> \notin R
    BY <1>3
  <2> QED
    BY <2>1 DEF R
<1> QED
  BY <1>4

\* A set of numbers that has the first, and with a number the next, has them all.
LEMMA Climbs ==
  ASSUME NEW n \in Nat, NEW T, 0 \in T, \A i \in 1..n : i - 1 \in T => i \in T
  PROVE  0..n \subseteq T
<1> DEFINE U == {i \in 0..n : i \notin T}
<1>1. SUFFICES ASSUME U # {} PROVE FALSE
  OBVIOUS
<1>2. U \subseteq Nat
  OBVIOUS
<1>3. PICK x \in U : \A y \in U : x <= y
  BY <1>1, <1>2, LeastNumber
<1>4. x \in 1..n /\ x - 1 \in 0..n /\ ~(x <= x - 1)
  BY <1>3
<1>5. x - 1 \in T
  BY <1>3, <1>4
<1> QED
  BY <1>3, <1>4, <1>5

IsFold(f, s0, n, F) == f = [i \in 0..n |-> IF i = 0 THEN s0 ELSE F[<<f[i - 1], i>>]]

\* A recursive function over the numbers up to n exists, and stays in a set that its
\* step keeps.
LEMMA FoldExists ==
  ASSUME NEW S, NEW s0 \in S, NEW n \in Nat, NEW F, F \in [S \X (1..n) -> S]
  PROVE  \E f \in [0..n -> S] : IsFold(f, s0, n, F)
<1> DEFINE Upto(k, f) == /\ f \in [0..k -> S]
                         /\ f[0] = s0
                         /\ \A i \in 1..k : f[i] = F[<<f[i - 1], i>>]
           T == {k \in 0..n : \E f : Upto(k, f)}
<1>1. 0 \in T
  <2>1. Upto(0, [i \in 0..0 |-> s0])
    OBVIOUS
  <2>2. 0 \in 0..n
    OBVIOUS
  <2> HIDE DEF Upto
  <2> QED
    BY <2>1, <2>2
<1>2. ASSUME NEW k \in 1..n, k - 1 \in T PROVE k \in T
  <2>1. PICK f : Upto(k - 1, f)
    BY <1>2
  <2> DEFINE g == [i \in 0..k |-> IF i = k THEN F[<<f[k - 1], k>>] ELSE f[i]]
  <2>2. f[k - 1] \in S /\ F[<<f[k - 1], k>>] \in S
    BY <2>1
  <2>3. \A i \in 0..k : i # k => i \in 0..k - 1
    OBVIOUS
  <2>4. g \in [0..k -> S]
    BY <2>1, <2>2, <2>3
  <2>5. g[0] = s0
    BY <2>1
  <2>6. ASSUME NEW i \in 1..k PROVE g[i] = F[<<g[i - 1], i>>]
    <3>1. CASE i = k
      <4>1. k \in 0..k /\ k - 1 \in 0..k /\ k - 1 # k
        OBVIOUS
      <4>2. g[k] = F[<<f[k - 1], k>>] /\ g[k - 1] = f[k - 1]
        BY <4>1
      <4> HIDE DEF g
      <4> QED
        BY <3>1, <4>2
    <3>2. CASE i # k
      <4>1. i \in 1..k - 1 /\ i \in 0..k /\ i - 1 \in 0..k /\ i - 1 # k
        BY <3>2
      <4>2. g[i] = f[i] /\ g[i - 1] = f[i - 1]
        BY <3>2, <4>1
      <4>3. f[i] = F[<<f[i - 1], i>>]
        BY <4>1, <2>1
      <4> HIDE DEF g, Upto
      <4> QED
        BY <4>2, <4>3
    <3> QED
      BY <3>1, <3>2
  <2>7. Upto(k, g)
    BY <2>4, <2>5, <2>6
  <2>8. k \in 0..n
    OBVIOUS
  <2> HIDE DEF Upto, g
  <2> QED
    BY <2>7, <2>8
<1> HIDE DEF T
<1>3. n \in T
  BY <1>1, <1>2, Climbs
<1>4. PICK f : Upto(n, f)
  BY <1>3 DEF T
<1>5. f = [i \in 0..n |-> f[i]]
  BY <1>4
<1>6. \A i \in 0..n : f[i] = IF i = 0 THEN s0 ELSE F[<<f[i - 1], i>>]
  BY <1>4
<1>7. f = [i \in 0..n |-> IF i = 0 THEN s0 ELSE F[<<f[i - 1], i>>]]
  BY <1>5, <1>6
<1> QED
  BY <1>4, <1>7 DEF IsFold

-----------------------------------------------------------------------------
(* What the help says                                                      *)

Fields == DOMAIN C!Default
Specs  == {e \in [kind : {"char", "ctrl", "named"}, of : Nat] : e.kind = "named" => e.of \in 1..4}
Ground == [mode |-> "Ground", out |-> <<>>]

\* Every key of the configuration is one.
LEMMA DefaultTyped == C!Default \in [Fields -> Specs]
BY DEF C!Default, C!Ctrl, C!Char, C!Arrow, C!Entry, Specs, Fields

LEMMA FromTomlTyped ==
  ASSUME NEW file \in C!FileKinds, file.state \notin {"missing", "unreadable"}
  PROVE  C!FromToml(file) \in [Fields -> Specs]
<1>1. CASE file.state = "malformed"
  BY <1>1, DefaultTyped DEF C!FromToml
<1>2. CASE file.state # "malformed"
  <2>1. file.entries \in [Fields -> C!Entries]
    BY <1>2 DEF C!FileKinds, Fields
  <2>2. ASSUME NEW e \in C!Entries, NEW d \in Specs PROVE C!SpecOrDefault(e, d) \in Specs
    BY DEF C!SpecOrDefault, C!Parses, C!Parsed, C!Entries, Specs, C!Ctrl, C!Entry, C!UpperCase
  <2>3. C!FromToml(file) = [f \in Fields |-> C!SpecOrDefault(file.entries[f], C!Default[f])]
    BY <1>2 DEF C!FromToml, Fields
  <2> HIDE DEF Fields, Specs
  <2> QED
    BY <2>1, <2>2, <2>3, DefaultTyped
<1> QED
  BY <1>1, <1>2

LEMMA ConfigTyped == C!Init => config \in [Fields -> Specs]
<1> SUFFICES ASSUME NEW files \in Files PROVE C!Load(files) \in [Fields -> Specs]
  BY DEF C!Init
<1> DEFINE there == {i \in DOMAIN files : files[i].state # "missing"}
           first == files[C!Min(there)]
<1>1. files \in Seq(C!FileKinds)
  BY FilesAssumption DEF C!FilesTyped
<1>2. CASE there = {}
  BY <1>2, DefaultTyped DEF C!Load
<1>3. CASE there # {}
  <2>1. C!Min(there) \in there
    <3>1. there \subseteq Nat
      BY <1>1
    <3> HIDE DEF there
    <3> QED
      BY <1>3, <3>1, LeastNumber DEF C!Min
  <2> QED
    <3>1. first \in C!FileKinds /\ first.state # "missing"
      BY <1>1, <2>1
    <3>2. C!Load(files) = IF first.state = "unreadable" THEN C!Default ELSE C!FromToml(first)
      BY <1>3 DEF C!Load
    <3> HIDE DEF first
    <3> QED
      BY <3>1, <3>2, DefaultTyped, FromTomlTyped
<1> QED
  BY <1>2, <1>3

\* The states of the parser while it is fed some bytes, and the one behind the last.
After(c, f, bytes) ==
  f = [i \in 0..Len(bytes) |-> IF i = 0 THEN Ground ELSE C!Armed(c, f[i - 1], bytes[i])]

Feeds(c, bytes, p) == \E f : After(c, f, bytes) /\ f[Len(bytes)] = p

LEMMA AfterIs ==
  ASSUME NEW c, NEW f, NEW bytes \in Seq(Nat), After(c, f, bytes)
  PROVE  /\ f[0] = Ground
         /\ \A i \in 1..Len(bytes) : f[i] = C!Armed(c, f[i - 1], bytes[i])
BY DEF After

LEMMA FedNothing == \A c : Feeds(c, <<>>, Ground)
<1> TAKE c
<1> DEFINE f == [i \in 0..0 |-> Ground]
<1>1. Len(<<>>) = 0 /\ f[0] = Ground
  OBVIOUS
<1>2. \A i \in 0..0 : i = 0
  OBVIOUS
<1>3. f = [i \in 0..0 |-> IF i = 0 THEN Ground ELSE C!Armed(c, f[i - 1], <<>>[i])]
  BY <1>2
<1> HIDE DEF f
<1>4. After(c, f, <<>>)
  BY <1>1, <1>3 DEF After
<1> QED
  BY <1>1, <1>4 DEF Feeds

LEMMA FedOneMore ==
  ASSUME NEW c, NEW bytes \in Seq(Nat), NEW p, Feeds(c, bytes, p), NEW b \in Nat
  PROVE  Append(bytes, b) \in Seq(Nat) /\ Feeds(c, Append(bytes, b), C!Armed(c, p, b))
<1> DEFINE n == Len(bytes)
           more == Append(bytes, b)
<1>1. PICK f : After(c, f, bytes) /\ f[n] = p
  BY DEF Feeds
<1> DEFINE g == [i \in 0..n + 1 |-> IF i = n + 1 THEN C!Armed(c, p, b) ELSE f[i]]
<1>2. n \in Nat /\ more \in Seq(Nat) /\ Len(more) = n + 1 /\ more[n + 1] = b
      /\ \A i \in 1..n : more[i] = bytes[i]
  OBVIOUS
<1> HIDE DEF more, n
<1>3. f[0] = Ground /\ \A i \in 1..n : f[i] = C!Armed(c, f[i - 1], bytes[i])
  BY <1>1, AfterIs DEF n
<1>4. ASSUME NEW i \in 0..n + 1 PROVE g[i] = IF i = 0 THEN Ground ELSE C!Armed(c, g[i - 1], more[i])
  <2>1. CASE i = 0
    BY <1>2, <1>3, <2>1
  <2>2. CASE i = n + 1
    <3>1. n \in 0..n + 1 /\ n # n + 1 /\ i - 1 = n /\ i # 0
      BY <1>2, <2>2
    <3>2. g[n] = p /\ g[n + 1] = C!Armed(c, p, b)
      BY <1>1, <1>2, <3>1 DEF n
    <3> HIDE DEF g
    <3> QED
      BY <1>2, <2>2, <3>1, <3>2
  <2>3. CASE i \in 1..n
    <3>1. i \in 0..n + 1 /\ i # n + 1 /\ i - 1 \in 0..n + 1 /\ i - 1 # n + 1 /\ i # 0
      BY <1>2, <2>3
    <3>2. g[i] = f[i] /\ g[i - 1] = f[i - 1]
      BY <3>1
    <3> HIDE DEF g
    <3> QED
      BY <1>2, <1>3, <2>3, <3>1, <3>2
  <2>4. i = 0 \/ i = n + 1 \/ i \in 1..n
    BY <1>2
  <2> QED
    BY <2>1, <2>2, <2>3, <2>4
<1>5. g = [i \in 0..n + 1 |-> g[i]] /\ g[n + 1] = C!Armed(c, p, b)
  BY <1>2
<1> HIDE DEF g
<1>6. g = [i \in 0..n + 1 |-> IF i = 0 THEN Ground ELSE C!Armed(c, g[i - 1], more[i])]
  BY <1>4, <1>5
<1>7. After(c, g, more)
  BY <1>2, <1>6 DEF After
<1>8. Feeds(c, more, C!Armed(c, p, b))
  BY <1>2, <1>5, <1>7 DEF Feeds
<1> QED
  BY <1>2, <1>8 DEF more

LEMMA TypedIs ==
  ASSUME NEW c, NEW bytes \in Seq(Nat), NEW p, Feeds(c, bytes, p)
  PROVE  C!Typed(c, bytes) = p.out
<1> DEFINE g == CHOOSE h : h = [i \in 0..Len(bytes) |-> IF i = 0 THEN [mode |-> "Ground", out |-> <<>>]
                                                        ELSE C!Armed(c, h[i - 1], bytes[i])]
<1>1. PICK f : After(c, f, bytes) /\ f[Len(bytes)] = p
  BY DEF Feeds
<1>2. After(c, g, bytes)
  BY <1>1, Zenon DEF After, Ground
<1>3. C!Typed(c, bytes) = g[Len(bytes)].out
  BY Zenon DEF C!Typed
<1> HIDE DEF g
<1> DEFINE T == {i \in 0..Len(bytes) : f[i] = g[i]}
<1>4. /\ f[0] = Ground /\ g[0] = Ground
      /\ \A i \in 1..Len(bytes) : f[i] = C!Armed(c, f[i - 1], bytes[i])
      /\ \A i \in 1..Len(bytes) : g[i] = C!Armed(c, g[i - 1], bytes[i])
  BY <1>1, <1>2, AfterIs
<1>5. 0 \in T /\ Len(bytes) \in Nat
  BY <1>4
<1>6. ASSUME NEW i \in 1..Len(bytes), i - 1 \in T PROVE i \in T
  <2>1. f[i - 1] = g[i - 1] /\ i \in 0..Len(bytes)
    BY <1>6
  <2> QED
    BY <1>4, <2>1
<1> HIDE DEF T
<1>7. 0..Len(bytes) \subseteq T
  BY <1>5, <1>6, Climbs
<1>8. f[Len(bytes)] = g[Len(bytes)]
  BY <1>5, <1>7 DEF T
<1> QED
  BY <1>1, <1>3, <1>8

\* What one byte does after the prefix.
State(mode, out) == [mode |-> mode, out |-> out]

LEMMA PrefixArms ==
  ASSUME NEW c, NEW b, NEW out, C!Matches(c.prefix, C!Byte(b))
  PROVE  C!Armed(c, State("Ground", out), b) = State("Armed", out)
BY DEF C!Armed, State

LEMMA KeyResolves ==
  ASSUME NEW c, NEW b, NEW out, b # C!Esc
  PROVE  C!Armed(c, State("Armed", out), b) = State("Ground", out \o C!ResolveKey(c, C!Byte(b)))
BY DEF C!Armed, State

LEMMA EscapeBegins ==
  ASSUME NEW c, NEW out
  PROVE  /\ C!Armed(c, State("Armed", out), C!Esc) = State("AEsc", out)
         /\ C!Armed(c, State("AEsc", out), 91) = State("ACsi", out)
         /\ C!Armed(c, State("AEsc", out), 79) = State("ASs3", out)
BY DEF C!Armed, State

IsArrow(b, a) == C!NamedOf(b) = {a}

LEMMA ArrowResolves ==
  ASSUME NEW c, NEW b, NEW out, NEW a, IsArrow(b, a)
  PROVE  /\ C!Armed(c, State("ACsi", out), b) = State("Ground", out \o C!ResolveKey(c, C!Named(a)))
         /\ C!Armed(c, State("ASs3", out), b) = State("Ground", out \o C!ResolveKey(c, C!Named(a)))
<1>1. (CHOOSE e \in {a} : TRUE) = a
  OBVIOUS
<1> QED
  BY <1>1 DEF C!Armed, State, IsArrow

\* The last byte of an arrow's sequence tells which it is.
LEMMA ArrowIs ==
  ASSUME NEW a \in 1..4
  PROVE  /\ C!ArrowBytes[a] \in Nat
         /\ IsArrow(C!ArrowBytes[a], a)
BY DEF C!ArrowBytes, C!NamedOf, IsArrow

\* Every field that help shows is bound once.
LEMMA BoundOnce ==
  ASSUME NEW i \in DOMAIN C!HelpFields
  PROVE  /\ C!HelpFields[i] \in Fields
         /\ \E j \in DOMAIN C!CommandOf :
              /\ C!CommandOf[j][1] = C!HelpFields[i]
              /\ \A k \in DOMAIN C!CommandOf : C!CommandOf[k][1] = C!HelpFields[i] => k = j
<1>1. C!HelpFields[i] \in Fields
  BY DEF C!HelpFields, Fields, C!Default
<1>2. \E j \in DOMAIN C!CommandOf :
              /\ C!CommandOf[j][1] = C!HelpFields[i]
              /\ \A k \in DOMAIN C!CommandOf : C!CommandOf[k][1] = C!HelpFields[i] => k = j
  BY DEF C!HelpFields, C!CommandOf
<1> QED
  BY <1>1, <1>2

\* What is left of a command is the first field that the key matches.
LEMMA ResolveIs ==
  ASSUME NEW c, NEW key
  PROVE  \/ /\ C!Resolve(c, key) = <<>>
            /\ \A j \in DOMAIN C!CommandOf : ~C!Matches(c[C!CommandOf[j][1]], key)
         \/ \E j \in DOMAIN C!CommandOf : C!Resolve(c, key) = <<C!CommandOf[j][2]>>
<1> DEFINE bound == {j \in DOMAIN C!CommandOf : C!Matches(c[C!CommandOf[j][1]], key)}
<1>1. CASE bound = {}
  BY <1>1 DEF C!Resolve
<1>2. CASE bound # {}
  <2>1. bound \subseteq Nat
    BY DEF C!CommandOf
  <2>2. C!Resolve(c, key) = <<C!CommandOf[C!Min(bound)][2]>>
    BY <1>2 DEF C!Resolve
  <2>3. C!Min(bound) \in bound
    <3> HIDE DEF bound
    <3> QED
      BY <1>2, <2>1, LeastNumber DEF C!Min
  <2> QED
    BY <2>2, <2>3
<1> QED
  BY <1>1, <1>2

\* A row whose key is its own does what the row says.
LEMMA RowResolves ==
  ASSUME NEW row \in C!HelpRows(config) \cup C!LitRows, ~C!Taken(row[2], C!KeyOf(row[1]))
  PROVE  C!ResolveKey(config, C!KeyOf(row[1])) = <<C!CommandFor(row)>>
<1> DEFINE key == C!KeyOf(row[1])
<1>1. ~C!Matches(config.prefix, key)
  BY DEF C!Taken
<1>2. C!Resolve(config, key)
        \in {<<>>} \cup {<<C!CommandOf[j][2]>> : j \in {k \in DOMAIN C!CommandOf : C!CommandOf[k][1] = row[2]}}
  BY DEF C!Taken
<1>3. CASE row \in C!HelpRows(config)
  <2>1. PICK i \in DOMAIN C!HelpFields : row = <<config[C!HelpFields[i]], C!HelpFields[i]>>
    BY <1>3 DEF C!HelpRows
  <2>2. PICK j \in DOMAIN C!CommandOf :
          /\ C!CommandOf[j][1] = row[2]
          /\ \A k \in DOMAIN C!CommandOf : C!CommandOf[k][1] = row[2] => k = j
    BY <2>1, BoundOnce
  <2>3. C!Resolve(config, key) # <<>>
    <3>1. C!Matches(config[C!CommandOf[j][1]], key)
      BY <2>1, <2>2 DEF C!Matches
    <3>2. \A x : <<x>> # <<>>
      OBVIOUS
    <3>3. \/ \A k \in DOMAIN C!CommandOf : ~C!Matches(config[C!CommandOf[k][1]], key)
          \/ \E k \in DOMAIN C!CommandOf : C!Resolve(config, key) = <<C!CommandOf[k][2]>>
      BY ResolveIs
    <3> QED
      BY <3>1, <3>2, <3>3, Zenon
  <2>4. C!Resolve(config, key) = <<C!CommandOf[j][2]>>
    BY <1>2, <2>2, <2>3
  <2>5. C!CommandFor(row) = C!CommandOf[j][2]
    <3> DEFINE named == {k \in DOMAIN C!CommandOf : C!CommandOf[k][1] = row[2]}
    <3>1. named = {j} /\ j \in Nat
      BY <2>2 DEF C!CommandOf
    <3>2. C!CommandFor(row) = C!CommandOf[C!Min(named)][2]
      BY <3>1 DEF C!CommandFor
    <3> HIDE DEF named
    <3>3. C!Min(named) = j
      BY <3>1 DEF C!Min
    <3> QED
      BY <3>2, <3>3
  <2> QED
    BY <1>1, <2>3, <2>4, <2>5, Zenon DEF C!ResolveKey
<1>4. CASE row \in C!LitRows
  <2>1. PICK n \in 0..9 : row = <<C!Char(48 + n), IF n = 0 THEN "ToggleZoom" ELSE C!SelectWindow[n]>>
    <3>1. CASE row = <<C!Char(48), "ToggleZoom">>
      BY <3>1
    <3>2. CASE row \in {<<C!Char(48 + n), C!SelectWindow[n]>> : n \in 1..9}
      BY <3>2
    <3> QED
      BY <1>4, <3>1, <3>2 DEF C!LitRows
  <2>2. \A k \in DOMAIN C!CommandOf : C!CommandOf[k][1] # row[2]
    BY <2>1 DEF C!CommandOf, C!SelectWindow
  <2>3. C!Resolve(config, key) = <<>>
    BY <1>2, <2>2
  <2>4. C!CommandFor(row) = row[2]
    BY <2>2 DEF C!CommandFor
  <2>5. key.byte = TRUE /\ key.is = 48 + n
    BY <2>1 DEF C!KeyOf, C!Char, C!Entry
  <2> HIDE DEF key
  <2>6. C!ResolveKey(config, key) = IF key.is = 48 THEN <<"ToggleZoom">> ELSE <<C!SelectWindow[key.is - 48]>>
    <3>1. key.byte /\ key.is \in C!Digits
      BY <2>5 DEF C!Digits
    <3> QED
      BY <1>1, <2>3, <3>1, Zenon DEF C!ResolveKey
  <2>7. C!ResolveKey(config, key) = <<row[2]>>
    <3>1. CASE n = 0
      BY <2>1, <2>5, <2>6, <3>1
    <3>2. CASE n # 0
      <4>1. key.is # 48 /\ key.is - 48 = n
        BY <2>5, <3>2
      <4> QED
        BY <2>1, <2>6, <3>2, <4>1
    <3> QED
      BY <3>1, <3>2
  <2> QED
    BY <2>4, <2>7 DEF key
<1> QED
  BY <1>3, <1>4

\* A key that help shows, typed after the prefix, does what help says it does.
LEMMA RowIsTrue ==
  ASSUME config \in [Fields -> Specs], C!Arms,
         NEW row \in C!HelpRows(config) \cup C!LitRows, ~C!Taken(row[2], C!KeyOf(row[1])),
         NEW pre \in C!Sends(config.prefix), NEW keys \in C!Sends(row[1])
  PROVE  C!Typed(config, pre \o keys) = <<C!CommandFor(row)>>
<1> DEFINE key == C!KeyOf(row[1])
           does == <<C!CommandFor(row)>>
           Armed == State("Armed", <<>>)
<1>1. C!ResolveKey(config, key) = does
  BY RowResolves
<1>2. config.prefix \in Specs /\ config.prefix.kind # "named" /\ row[1] \in Specs
  <2>1. "prefix" \in Fields
    BY DEF Fields, C!Default
  <2>2. row \in C!HelpRows(config) => row[1] \in Specs
    BY BoundOnce DEF C!HelpRows
  <2>3. row \in C!LitRows => row[1] \in Specs
    BY DEF C!LitRows, C!Char, C!Entry, Specs
  <2> QED
    BY <2>1, <2>2, <2>3 DEF C!Arms
<1>3. ASSUME NEW spec \in Specs, spec.kind # "named"
      PROVE  /\ C!KeyOf(spec).is \in Nat /\ C!KeyOf(spec) = C!Byte(C!KeyOf(spec).is)
             /\ C!Sends(spec) = {<<C!KeyOf(spec).is>>}
  <2>1. C!Sends(spec) = {<<C!KeyOf(spec).is>>}
    BY <1>3, Zenon DEF C!Sends
  <2>2. CASE spec.kind = "char"
    <3>1. C!KeyOf(spec) = [byte |-> TRUE, is |-> spec.of] /\ spec.of \in Nat
      BY <2>2 DEF C!KeyOf, Specs
    <3> QED
      BY <2>1, <3>1 DEF C!Byte
  <2>3. CASE spec.kind = "ctrl"
    <3>1. C!KeyOf(spec) = [byte |-> TRUE, is |-> spec.of % 32] /\ spec.of % 32 \in Nat
      BY <2>3 DEF C!KeyOf, C!CtrlByte, Specs
    <3> QED
      BY <2>1, <3>1 DEF C!Byte
  <2> QED
    BY <1>3, <2>2, <2>3 DEF Specs
<1>4. PICK p \in Nat : pre = <<p>> /\ C!Matches(config.prefix, C!Byte(p))
  BY <1>2, <1>3 DEF C!Matches
<1>5. Feeds(config, <<p>>, Armed)
  <2>1. Feeds(config, Append(<<>>, p), C!Armed(config, Ground, p))
    <3>1. <<>> \in Seq(Nat) /\ p \in Nat /\ Feeds(config, <<>>, Ground)
      BY <1>4, FedNothing
    <3> QED
      BY <3>1, FedOneMore
  <2>2. C!Armed(config, Ground, p) = Armed
    <3>1. Ground = State("Ground", <<>>)
      BY DEF Ground, State
    <3> QED
      BY <1>4, <3>1, PrefixArms
  <2>4. Append(<<>>, p) = <<p>>
    OBVIOUS
  <2> QED
    BY <2>1, <2>2, <2>4
<1>6. <<p>> \in Seq(Nat) /\ <<>> \o does = does
  OBVIOUS
<1> HIDE DEF does
<1>7. CASE row[1].kind # "named"
  <2> DEFINE b == key.is
             done == C!Armed(config, Armed, b)
  <2>1. keys = <<b>> /\ b \in Nat /\ key = C!Byte(b) /\ b # C!Esc
    BY <1>2, <1>3, <1>7 DEF C!Taken
  <2>2. done.out = does
    <3>1. done = State("Ground", <<>> \o C!ResolveKey(config, C!Byte(b)))
      BY <2>1, KeyResolves
    <3> QED
      BY <1>1, <1>6, <2>1, <3>1 DEF State
  <2> HIDE DEF Armed, done, key
  <2>3. Append(<<p>>, b) \in Seq(Nat) /\ Feeds(config, Append(<<p>>, b), done)
    BY <1>5, <1>6, <2>1, FedOneMore DEF done
  <2>4. C!Typed(config, Append(<<p>>, b)) = does
    BY <2>2, <2>3, TypedIs
  <2>5. pre \o keys = Append(<<p>>, b)
    BY <1>4, <2>1
  <2> QED
    BY <2>4, <2>5 DEF does
<1>8. CASE row[1].kind = "named"
  <2> DEFINE a == row[1].of
             b == C!ArrowBytes[a]
  <2>1. a \in 1..4 /\ key = C!Named(a)
    BY <1>2, <1>8 DEF Specs, C!KeyOf, C!Named
  <2>2. PICK intro \in {91, 79} : keys = <<C!Esc, intro, b>>
    BY <1>8 DEF C!Sends
  <2>3. b \in Nat /\ IsArrow(b, a)
    BY <2>1, ArrowIs
  <2> DEFINE mode == IF intro = 91 THEN "ACsi" ELSE "ASs3"
             q1 == State("AEsc", <<>>)
             q2 == State(mode, <<>>)
             q3 == State("Ground", does)
             b1 == Append(<<p>>, C!Esc)
             b2 == Append(b1, intro)
             b3 == Append(b2, b)
  <2>4. C!Armed(config, Armed, C!Esc) = q1
    BY EscapeBegins
  <2>5. C!Armed(config, q1, intro) = q2
    <3>1. CASE intro = 91
      BY <3>1, EscapeBegins
    <3>2. CASE intro = 79
      BY <3>2, EscapeBegins
    <3> QED
      BY <3>1, <3>2
  <2>6. C!Armed(config, q2, b) = q3
    <3>1. q2 = State("ACsi", <<>>) \/ q2 = State("ASs3", <<>>)
      OBVIOUS
    <3> HIDE DEF b, q2, a
    <3>2. C!Armed(config, q2, b) = State("Ground", <<>> \o C!ResolveKey(config, C!Named(a)))
      <4>1. /\ C!Armed(config, State("ACsi", <<>>), b)
               = State("Ground", <<>> \o C!ResolveKey(config, C!Named(a)))
            /\ C!Armed(config, State("ASs3", <<>>), b)
               = State("Ground", <<>> \o C!ResolveKey(config, C!Named(a)))
        BY <2>3, ArrowResolves
      <4> QED
        BY <3>1, <4>1, Zenon
    <3> QED
      BY <1>1, <1>6, <2>1, <3>2
  <2>7. q3.out = does
    BY DEF State
  <2>8. C!Esc \in Nat /\ intro \in Nat
    BY DEF C!Esc
  <2>9. pre \o keys = b3
    <3> HIDE DEF b
    <3> QED
      BY <1>4, <2>2
  <2> HIDE DEF Armed, q1, q2, q3, b, b1, b2, b3
  <2>10. b1 \in Seq(Nat) /\ Feeds(config, b1, q1)
    BY <1>5, <1>6, <2>4, <2>8, FedOneMore DEF b1
  <2>11. b2 \in Seq(Nat) /\ Feeds(config, b2, q2)
    BY <2>5, <2>8, <2>10, FedOneMore DEF b2
  <2>12. b3 \in Seq(Nat) /\ Feeds(config, b3, q3)
    BY <2>3, <2>6, <2>11, FedOneMore DEF b3
  <2>13. C!Typed(config, b3) = does
    BY <2>7, <2>12, TypedIs
  <2> QED
    BY <2>9, <2>13 DEF does
<1> QED
  BY <1>2, <1>7, <1>8

LEMMA HelpHolds == config \in [Fields -> Specs] => C!HelpIsTrue
BY RowIsTrue DEF C!HelpIsTrue

-----------------------------------------------------------------------------
(* What the command line says                                              *)

\* What strip_session keeps of words of Ws.
Kept(Ws) == [rest : Seq(Ws), chosen : Seq(Ws), skip : BOOLEAN]

\* The states of strip_session behind each word.
Strips(st, words, Ws) ==
  /\ st \in [0..Len(words) -> Kept(Ws)]
  /\ st[0] = [rest |-> <<>>, chosen |-> <<>>, skip |-> FALSE]
  /\ \A i \in 1..Len(words) : st[i] = L!Stripped(words, st[i - 1], i)
  /\ L!Unselected(words) = st[Len(words)]

LEMMA StrippedTyped ==
  ASSUME NEW Ws, NEW words \in Seq(Ws), NEW s \in Kept(Ws), NEW i \in 1..Len(words)
  PROVE  L!Stripped(words, s, i) \in Kept(Ws)
<1>1. words[i] \in Ws /\ <<words[i]>> \in Seq(Ws) /\ Append(s.rest, words[i]) \in Seq(Ws)
  BY DEF Kept
<1>2. [rest |-> s.rest, chosen |-> <<words[i]>>, skip |-> FALSE] \in Kept(Ws)
  BY <1>1 DEF Kept
<1>3. [s EXCEPT !.skip = TRUE] \in Kept(Ws)
  BY DEF Kept
<1>4. [s EXCEPT !.rest = Append(s.rest, words[i])] \in Kept(Ws)
  BY <1>1 DEF Kept
<1> QED
  BY <1>2, <1>3, <1>4 DEF L!Stripped

LEMMA StripFold ==
  ASSUME NEW Ws, NEW words \in Seq(Ws)
  PROVE  \E st : Strips(st, words, Ws)
<1> DEFINE n == Len(words)
           S == Kept(Ws)
           s0 == [rest |-> <<>>, chosen |-> <<>>, skip |-> FALSE]
           F == [sk \in S \X (1..n) |-> L!Stripped(words, sk[1], sk[2])]
           Eq(f) == f = [i \in 0..n |-> IF i = 0 THEN s0 ELSE L!Stripped(words, f[i - 1], i)]
           st == CHOOSE f : Eq(f)
<1>1. n \in Nat
  OBVIOUS
<1>2. s0 \in S
  BY DEF Kept
<1>3. F \in [S \X (1..n) -> S]
  <2>1. ASSUME NEW s \in S, NEW i \in 1..n PROVE L!Stripped(words, s, i) \in S
    BY StrippedTyped
  <2> HIDE DEF S
  <2> QED
    BY <2>1
<1>4. PICK f \in [0..n -> S] : IsFold(f, s0, n, F)
  <2> HIDE DEF S, F, s0
  <2> QED
    BY <1>1, <1>2, <1>3, FoldExists
<1>5. Eq(f)
  <2>1. ASSUME NEW i \in 0..n, i # 0
        PROVE  F[<<f[i - 1], i>>] = L!Stripped(words, f[i - 1], i)
    <3>1. i - 1 \in 0..n /\ i \in 1..n
      BY <1>1, <2>1
    <3>2. <<f[i - 1], i>> \in S \X (1..n)
      BY <1>4, <3>1
    <3> HIDE DEF S
    <3> QED
      BY <3>2
  <2>2. f = [i \in 0..n |-> IF i = 0 THEN s0 ELSE F[<<f[i - 1], i>>]]
    BY <1>4 DEF IsFold
  <2> HIDE DEF F, S, s0
  <2> QED
    BY <2>1, <2>2
<1>6. Eq(st)
  BY <1>5, Zenon
<1>7. L!Unselected(words) = st[n]
  BY Zenon DEF L!Unselected
<1> HIDE DEF st
<1>8. st[0] = s0 /\ \A i \in 1..n : st[i] = L!Stripped(words, st[i - 1], i)
  <2> HIDE DEF s0
  <2> QED
    BY <1>1, <1>6
<1>9. st = [i \in 0..n |-> st[i]]
  BY <1>6
<1>10. 0..n \subseteq {i \in 0..n : st[i] \in S}
  <2> DEFINE T == {i \in 0..n : st[i] \in S}
  <2>1. 0 \in T
    BY <1>1, <1>2, <1>8
  <2>2. ASSUME NEW i \in 1..n, i - 1 \in T PROVE i \in T
    <3>1. st[i - 1] \in S
      BY <2>2
    <3>2. st[i] \in S
      BY <1>8, <3>1, StrippedTyped
    <3> QED
      BY <1>1, <3>2
  <2> HIDE DEF T
  <2>3. 0..n \subseteq T
    BY <1>1, <2>1, <2>2, Climbs
  <2> QED
    BY <2>3 DEF T
<1>11. st \in [0..n -> S]
  <2> HIDE DEF S
  <2> QED
    BY <1>9, <1>10
<1> HIDE DEF S
<1> QED
  BY <1>7, <1>8, <1>11 DEF Strips, S

\* What is true of a state of strip_session behind the first i words.
Chosen(words, s) ==
  \/ s.chosen = <<>>
  \/ \E j \in 2..Len(words) : s.chosen = <<words[j]>> /\ words[j - 1] = "--session"
Skips(words, s, i) == s.skip => i \in 1..Len(words) - 1 /\ words[i] = "--session"
Spared(words, s, i) ==
  s.chosen = <<>> /\ ~s.skip => \A j \in 1..i : j < Len(words) => words[j] # "--session"
Starts(words, s, i) ==
  /\ i = 0 => s.rest = <<>>
  /\ i \in 1..Len(words) /\ words[1] # "--session" => s.rest # <<>> /\ s.rest[1] = words[1]
Behind(words, s, i) ==
  Chosen(words, s) /\ Skips(words, s, i) /\ Spared(words, s, i) /\ Starts(words, s, i)

LEMMA AppendKeepsFirst ==
  ASSUME NEW S, NEW r \in Seq(S), r # <<>>, NEW x \in S
  PROVE  Append(r, x) # <<>> /\ Append(r, x)[1] = r[1]
<1>1. 1 \in 1..Len(r)
  OBVIOUS
<1> QED
  BY <1>1, AppendProperties

LEMMA SameBefore ==
  ASSUME NEW S, NEW r \in Seq(S), NEW t \in Seq(S), NEW x \in S, Append(r, x) = Append(t, x)
  PROVE  r = t
BY AppendInjective

LEMMA StrippedBehind ==
  ASSUME NEW Ws, NEW words \in Seq(Ws), NEW i \in 1..Len(words), NEW s \in Kept(Ws),
         Behind(words, s, i - 1)
  PROVE  Behind(words, L!Stripped(words, s, i), i)
<1> DEFINE t == L!Stripped(words, s, i)
<1>1. s.rest \in Seq(Ws) /\ s.chosen \in Seq(Ws) /\ words[i] \in Ws /\ Len(words) \in Nat
  BY DEF Kept
<1>2. CASE s.skip
  <2>1. t = [rest |-> s.rest, chosen |-> <<words[i]>>, skip |-> FALSE]
    BY <1>2 DEF L!Stripped
  <2>2. i - 1 \in 1..Len(words) - 1 /\ words[i - 1] = "--session"
    BY <1>2 DEF Behind, Skips
  <2>3. t.rest = s.rest /\ t.chosen = <<words[i]>> /\ t.skip = FALSE /\ t.chosen # <<>>
    BY <2>1
  <2> HIDE DEF t
  <2>4. i \in 2..Len(words)
    BY <2>2
  <2>5. Chosen(words, t)
    BY <2>2, <2>3, <2>4 DEF Chosen
  <2>6. Skips(words, t, i) /\ Spared(words, t, i)
    BY <2>3 DEF Skips, Spared
  <2>7. Starts(words, t, i)
    BY <2>2, <2>3, <1>1 DEF Behind, Starts
  <2> QED
    BY <2>5, <2>6, <2>7 DEF Behind, t
<1>3. CASE ~s.skip /\ words[i] = "--session" /\ i < Len(words)
  <2>1. t = [s EXCEPT !.skip = TRUE]
    BY <1>3 DEF L!Stripped
  <2>2. t.rest = s.rest /\ t.chosen = s.chosen /\ t.skip = TRUE
    BY <2>1 DEF Kept
  <2> HIDE DEF t
  <2>3. Chosen(words, t)
    BY <2>2 DEF Behind, Chosen
  <2>4. Skips(words, t, i) /\ Spared(words, t, i)
    BY <2>2, <1>3, <1>1 DEF Skips, Spared
  <2>5. Starts(words, t, i)
    <3>1. i = 1 \/ i - 1 \in 1..Len(words)
      BY <1>1
    <3> QED
      BY <2>2, <3>1, <1>3 DEF Behind, Starts
  <2> QED
    BY <2>3, <2>4, <2>5 DEF Behind, t
<1>4. CASE ~s.skip /\ ~(words[i] = "--session" /\ i < Len(words))
  <2>1. t = [s EXCEPT !.rest = Append(s.rest, words[i])]
    BY <1>4 DEF L!Stripped
  <2>2. t.rest = Append(s.rest, words[i]) /\ t.chosen = s.chosen /\ t.skip = FALSE
    BY <2>1, <1>4 DEF Kept
  <2> HIDE DEF t
  <2>3. Chosen(words, t)
    BY <2>2 DEF Behind, Chosen
  <2>4. Skips(words, t, i)
    BY <2>2 DEF Skips
  <2>5. Spared(words, t, i)
    <3>1. SUFFICES ASSUME s.chosen = <<>>, NEW j \in 1..i, j < Len(words)
                   PROVE  words[j] # "--session"
      BY <2>2 DEF Spared
    <3>2. j = i \/ j \in 1..i - 1
      OBVIOUS
    <3> QED
      BY <3>1, <3>2, <1>4 DEF Behind, Spared
  <2>6. Starts(words, t, i)
    <3>1. CASE i = 1
      <4>1. s.rest = <<>>
        BY <3>1 DEF Behind, Starts
      <4>2. t.rest = <<words[1]>>
        BY <2>2, <3>1, <4>1
      <4>3. t.rest # <<>> /\ t.rest[1] = words[1]
        BY <4>2
      <4> QED
        BY <4>3, <3>1 DEF Starts
    <3>2. CASE i # 1
      <4>1. i - 1 \in 1..Len(words)
        BY <3>2
      <4>2. SUFFICES ASSUME words[1] # "--session" PROVE t.rest # <<>> /\ t.rest[1] = words[1]
        BY DEF Starts
      <4>3. s.rest # <<>> /\ s.rest[1] = words[1]
        BY <4>1, <4>2 DEF Behind, Starts
      <4>4. t.rest # <<>> /\ t.rest[1] = s.rest[1]
        BY <4>3, <2>2, <1>1, AppendKeepsFirst
      <4> QED
        BY <4>3, <4>4
    <3> QED
      BY <3>1, <3>2
  <2> QED
    BY <2>3, <2>4, <2>5, <2>6 DEF Behind, t
<1> QED
  BY <1>2, <1>3, <1>4

LEMMA StripsBehind ==
  ASSUME NEW Ws, NEW words \in Seq(Ws), NEW st, Strips(st, words, Ws)
  PROVE  \A i \in 0..Len(words) : st[i] \in Kept(Ws) /\ Behind(words, st[i], i)
<1> DEFINE n == Len(words)
           T == {i \in 0..n : Behind(words, st[i], i)}
<1>1. n \in Nat /\ \A i \in 0..n : st[i] \in Kept(Ws)
  BY DEF Strips
<1>2. 0 \in T
  <2>1. st[0].rest = <<>> /\ st[0].chosen = <<>> /\ st[0].skip = FALSE
    BY DEF Strips
  <2> QED
    BY <1>1, <2>1 DEF Behind, Chosen, Skips, Spared, Starts
<1>3. ASSUME NEW i \in 1..n, i - 1 \in T PROVE i \in T
  <2>1. st[i - 1] \in Kept(Ws) /\ Behind(words, st[i - 1], i - 1) /\ i \in 1..Len(words)
    BY <1>1, <1>3
  <2>2. st[i] = L!Stripped(words, st[i - 1], i)
    BY DEF Strips
  <2>3. Behind(words, st[i], i)
    BY <2>1, <2>2, StrippedBehind
  <2> QED
    BY <1>1, <2>3
<1> HIDE DEF T
<1>4. 0..n \subseteq T
  BY <1>1, <1>2, <1>3, Climbs
<1> QED
  BY <1>1, <1>4 DEF T

\* What is left of a line, and the session it names.
LEMMA UnselectedIs ==
  ASSUME NEW Ws, NEW words \in Seq(Ws), NEW u, u = L!Unselected(words)
  PROVE  /\ u \in Kept(Ws) /\ ~u.skip
         /\ words # <<>> /\ words[1] # "--session" => u.rest # <<>> /\ u.rest[1] = words[1]
         /\ Chosen(words, u)
         /\ u.chosen = <<>> => \A j \in 1..Len(words) : j < Len(words) => words[j] # "--session"
<1> DEFINE n == Len(words)
<1>1. PICK st : Strips(st, words, Ws)
  BY StripFold
<1>2. u = st[n] /\ n \in Nat
  BY <1>1 DEF Strips
<1>3. u \in Kept(Ws) /\ Behind(words, u, n)
  BY <1>1, <1>2, StripsBehind
<1>4. ~u.skip
  BY <1>2, <1>3 DEF Behind, Skips
<1>5. words # <<>> => n \in 1..Len(words)
  OBVIOUS
<1> QED
  BY <1>3, <1>4, <1>5 DEF Behind, Starts, Spared

\* Words without the flag are left as they are.
LEMMA UnselectedPlain ==
  ASSUME NEW Ws, NEW words \in Seq(Ws), \A j \in 1..Len(words) : words[j] # "--session"
  PROVE  L!Unselected(words) = [rest |-> words, chosen |-> <<>>, skip |-> FALSE]
<1> DEFINE n == Len(words)
           Same(s, i) == /\ s.chosen = <<>> /\ s.skip = FALSE /\ Len(s.rest) = i
                         /\ \A j \in 1..i : s.rest[j] = words[j]
           T(st) == {i \in 0..n : Same(st[i], i)}
<1>1. PICK st : Strips(st, words, Ws)
  BY StripFold
<1>2. n \in Nat /\ \A i \in 0..n : st[i] \in Kept(Ws)
  BY <1>1 DEF Strips
<1>3. 0 \in T(st)
  BY <1>1, <1>2 DEF Strips
<1>4. ASSUME NEW i \in 1..n, i - 1 \in T(st) PROVE i \in T(st)
  <2>1. st[i - 1] \in Kept(Ws) /\ Same(st[i - 1], i - 1)
    BY <1>2, <1>4
  <2>2. st[i] = [st[i - 1] EXCEPT !.rest = Append(st[i - 1].rest, words[i])]
    BY <1>1, <2>1 DEF Strips, L!Stripped
  <2>3. st[i].rest = Append(st[i - 1].rest, words[i]) /\ st[i].chosen = <<>> /\ st[i].skip = FALSE
    BY <2>1, <2>2 DEF Kept
  <2>4. st[i - 1].rest \in Seq(Ws) /\ words[i] \in Ws
    BY <2>1 DEF Kept
  <2>5. Same(st[i], i)
    BY <2>1, <2>3, <2>4
  <2> HIDE DEF Same
  <2> QED
    BY <1>2, <2>5
<1>5. 0..n \subseteq T(st)
  <2> HIDE DEF T
  <2> QED
    BY <1>2, <1>3, <1>4, Climbs
<1>6. Same(st[n], n) /\ st[n] \in Kept(Ws) /\ L!Unselected(words) = st[n]
  BY <1>1, <1>2, <1>5 DEF Strips
<1>7. st[n].rest = words
  BY <1>6 DEF Kept
<1> QED
  BY <1>6, <1>7 DEF Kept

\* One word more is either left behind the others, or the value of a flag that was last.
Adds(u, v, w)    == v.rest = Append(u.rest, w) /\ v.chosen = u.chosen
Chooses(u, v, w) == u.rest = Append(v.rest, "--session") /\ v.chosen = <<w>>
Dangles(words) == /\ words # <<>> /\ words[Len(words)] = "--session"
                  /\ Len(words) = 1 \/ words[Len(words) - 1] # "--session"

LEMMA UnselectedMore ==
  ASSUME NEW Ws, NEW words \in Seq(Ws), NEW w \in Ws,
         NEW u, u = L!Unselected(words), NEW v, v = L!Unselected(Append(words, w))
  PROVE  /\ Adds(u, v, w) \/ Chooses(u, v, w)
         /\ words = <<>> \/ words[Len(words)] # "--session" => Adds(u, v, w)
         /\ Dangles(words) => Chooses(u, v, w)
<1> DEFINE n == Len(words)
           more == Append(words, w)
<1>1. /\ n \in Nat /\ more \in Seq(Ws) /\ Len(more) = n + 1 /\ more[n + 1] = w
      /\ \A i \in 1..n : more[i] = words[i]
  OBVIOUS
<1> HIDE DEF more
<1>2. PICK f : Strips(f, words, Ws)
  BY StripFold
<1>3. PICK g : Strips(g, more, Ws)
  BY <1>1, StripFold
<1>4. /\ u = f[n] /\ v = g[n + 1] /\ f[0] = g[0]
      /\ f[0] = [rest |-> <<>>, chosen |-> <<>>, skip |-> FALSE]
      /\ \A i \in 1..n : f[i] = L!Stripped(words, f[i - 1], i)
      /\ \A i \in 1..n + 1 : g[i] = L!Stripped(more, g[i - 1], i)
  BY <1>1, <1>2, <1>3 DEF Strips, more
<1>5. ASSUME NEW i \in 1..n, i < n, NEW s PROVE L!Stripped(words, s, i) = L!Stripped(more, s, i)
  <2>1. more[i] = words[i] /\ i < Len(words) /\ i < Len(more)
    BY <1>1, <1>5
  <2> QED
    BY <2>1, Zenon DEF L!Stripped
<1> DEFINE T == {i \in 0..n : i = 0 \/ i < n => f[i] = g[i]}
<1>6. 0..n \subseteq T
  <2>1. 0 \in T
    <3>1. f[0] = g[0]
      BY <1>4
    <3> QED
      BY <3>1, <1>1
  <2>2. ASSUME NEW i \in 1..n, i - 1 \in T PROVE i \in T
    <3>1. SUFFICES ASSUME i < n PROVE f[i] = g[i]
      BY <1>1
    <3>2. f[i - 1] = g[i - 1] /\ i \in 1..n + 1
      BY <1>1, <2>2, <3>1
    <3> QED
      BY <1>4, <1>5, <3>1, <3>2
  <2> HIDE DEF T
  <2> QED
    BY <1>1, <2>1, <2>2, Climbs
<1>7. CASE n = 0
  <2>1. words = <<>> /\ 1 \in 1..n + 1
    BY <1>1, <1>7
  <2>2. u = [rest |-> <<>>, chosen |-> <<>>, skip |-> FALSE] /\ v = L!Stripped(more, u, 1)
    <3>1. u = f[0] /\ v = g[1] /\ u = g[0]
      BY <1>4, <1>7
    <3>2. g[1] = L!Stripped(more, g[0], 1)
      <4>1. \A i \in 1..n + 1 : g[i] = L!Stripped(more, g[i - 1], i)
        BY <1>4
      <4>2. g[1] = L!Stripped(more, g[1 - 1], 1)
        BY <4>1, <2>1
      <4> QED
        BY <4>2
    <3> QED
      BY <1>4, <3>1, <3>2
  <2>3. v = [u EXCEPT !.rest = Append(u.rest, w)]
    BY <2>2, <1>1, <1>7 DEF L!Stripped
  <2>4. Adds(u, v, w)
    BY <2>2, <2>3 DEF Adds
  <2> QED
    BY <2>1, <2>4 DEF Dangles
<1>8. CASE n # 0
  <2> DEFINE p == f[n - 1]
             q == g[n]
  <2>1. n \in 1..n /\ n \in 1..n + 1 /\ n + 1 \in 1..n + 1 /\ n - 1 \in 0..n /\ words # <<>>
    BY <1>1, <1>8
  <2>2. p = g[n - 1] /\ p \in Kept(Ws) /\ Behind(words, p, n - 1)
    <3>1. n - 1 \in T
      BY <1>6, <2>1
    <3>2. p \in Kept(Ws) /\ Behind(words, p, n - 1)
      BY <1>2, <2>1, StripsBehind
    <3> QED
      BY <3>1, <3>2, <2>1, <1>1
  <2>3. u = L!Stripped(words, p, n) /\ q = L!Stripped(more, p, n) /\ v = L!Stripped(more, q, n + 1)
    BY <1>1, <1>4, <2>1, <2>2
  <2> HIDE DEF p, q
  <2>4. more[n] = words[n] /\ n < Len(more) /\ ~(n < Len(words)) /\ ~(n + 1 < Len(more))
    BY <1>1, <2>1
  <2>5. CASE p.skip
    <3>1. n - 1 \in 1..n - 1 /\ words[n - 1] = "--session"
      BY <2>2, <2>5, <1>1 DEF Behind, Skips
    <3>2. u = [rest |-> p.rest, chosen |-> <<words[n]>>, skip |-> FALSE] /\ q = u
      BY <2>3, <2>4, <2>5 DEF L!Stripped
    <3>3. v = [u EXCEPT !.rest = Append(u.rest, w)]
      <4>1. ~q.skip /\ more[n + 1] = w
        BY <3>2, <1>1
      <4>2. v = [q EXCEPT !.rest = Append(q.rest, more[n + 1])]
        BY <2>3, <2>4, <4>1, Zenon DEF L!Stripped
      <4> QED
        BY <3>2, <4>1, <4>2
    <3>4. Adds(u, v, w)
      BY <3>2, <3>3 DEF Adds
    <3> QED
      BY <3>1, <3>4, <1>1 DEF Dangles
  <2>6. CASE ~p.skip /\ words[n] = "--session"
    <3>1. u = [p EXCEPT !.rest = Append(p.rest, "--session")]
      BY <2>3, <2>4, <2>6 DEF L!Stripped
    <3>2. q = [p EXCEPT !.skip = TRUE]
      BY <2>3, <2>4, <2>6 DEF L!Stripped
    <3>3. q.skip /\ q.rest = p.rest
      BY <3>2, <2>2 DEF Kept
    <3>4. v = [rest |-> p.rest, chosen |-> <<w>>, skip |-> FALSE]
      BY <2>3, <3>3, <1>1 DEF L!Stripped
    <3>5. Chooses(u, v, w)
      BY <3>1, <3>4, <2>2 DEF Chooses, Kept
    <3> QED
      BY <3>5, <2>6, <2>1
  <2>7. CASE ~p.skip /\ words[n] # "--session"
    <3>1. u = [p EXCEPT !.rest = Append(p.rest, words[n])] /\ q = u
      BY <2>3, <2>4, <2>7 DEF L!Stripped
    <3>2. u.rest = Append(p.rest, words[n]) /\ u.chosen = p.chosen /\ ~u.skip /\ u \in Kept(Ws)
      <4>1. words[n] \in Ws
        BY <2>1
      <4>2. Append(p.rest, words[n]) \in Seq(Ws)
        BY <4>1, <2>2 DEF Kept
      <4> QED
        BY <3>1, <2>2, <2>7, <4>2 DEF Kept
    <3>3. v = [u EXCEPT !.rest = Append(u.rest, w)]
      BY <2>3, <2>4, <3>1, <3>2, <1>1 DEF L!Stripped
    <3>4. Adds(u, v, w)
      BY <3>2, <3>3 DEF Adds, Kept
    <3> QED
      BY <3>4, <2>7 DEF Dangles
  <2> QED
    BY <2>5, <2>6, <2>7
<1> QED
  BY <1>7, <1>8

\* How parse_args tells lines apart.
Asks(words)     == \/ L!ToSet(words) \cap {"-h", "--help"} # {}
                   \/ words # <<>> /\ Head(words) = "help"
Versions(words) == L!ToSet(words) \cap {"-V", "--version"} # {}
Names(words)    == words # <<>> /\ Head(words) \in L!Nouns \cup DOMAIN L!At

LEMMA AtIs == /\ DOMAIN L!At = {"@work", "@api"}
              /\ L!At["@work"] = "work" /\ L!At["@api"] = "api"
BY DEF L!At

LEMMA ParsedHelp ==
  ASSUME NEW words, Asks(words)
  PROVE  L!ParseArgs(words) = <<"help">>
BY DEF Asks, L!ParseArgs

LEMMA ParsedVersion ==
  ASSUME NEW words, ~Asks(words), Versions(words)
  PROVE  L!ParseArgs(words) = <<"version">>
BY DEF Asks, Versions, L!ParseArgs

LEMMA ParsedNothing ==
  ASSUME NEW words, ~Asks(words), ~Versions(words), words = <<>>
  PROVE  L!ParseArgs(words) = <<"run", "default">>
BY DEF Asks, Versions, L!ParseArgs

LEMMA ParsedControl ==
  ASSUME NEW words, ~Asks(words), ~Versions(words), Names(words)
  PROVE  L!ParseArgs(words) = <<"control">>
BY DEF Asks, Versions, Names, L!ParseArgs

LEMMA ParsedCommand ==
  ASSUME NEW words, ~Asks(words), ~Versions(words), words # <<>>, ~Names(words)
  PROVE  L!ParseArgs(words) = L!Routed(Head(words), Tail(words))
BY DEF Asks, Versions, Names, L!ParseArgs

\* What the words behind a command come to.
LEMMA RoutedIs ==
  ASSUME NEW first, NEW rest
  PROVE  /\ first = "server" => L!Routed(first, rest) = L!ServerOf(rest)
         /\ first = "ls" => L!Routed(first, rest) = IF rest = <<>> THEN <<"ls">> ELSE <<"usage">>
         /\ first = "new" => L!Routed(first, rest) = L!Flagged(rest, "-s", "run")
         /\ first \in {"attach", "a"} => L!Routed(first, rest) = L!Flagged(rest, "-t", "attach")
         /\ first = "stop" => L!Routed(first, rest) = L!Flagged(rest, "-t", "stop")
         /\ first = "ssh" => L!Routed(first, rest) = L!Ssh(rest)
         /\ first = "bridge" => L!Routed(first, rest) = L!BridgeOf(rest)
         /\ first = "update" => L!Routed(first, rest) = L!UpdateFlags(L!ToSet(rest))
         /\ first = "version" => L!Routed(first, rest) = <<"usage">>
         /\ first \notin {"server", "ls", "new", "attach", "a", "stop", "ssh", "bridge", "update", "version"}
            => L!Routed(first, rest) = IF rest = <<>> THEN <<"run", first>> ELSE <<"usage">>
BY DEF L!Routed

LEMMA ServerIs ==
  ASSUME NEW S, NEW rest \in Seq(S)
  PROVE  /\ rest = <<>> => L!ServerOf(rest) = <<"server", "default">>
         /\ Len(rest) = 1 => L!ServerOf(rest) = <<"server", rest[1]>>
         /\ Len(rest) > 1 => L!ServerOf(rest) = <<"usage">>
BY DEF L!ServerOf

LEMMA BridgeIs ==
  ASSUME NEW S, NEW rest \in Seq(S)
  PROVE  /\ rest = <<>> => L!BridgeOf(rest) = <<"bridge">>
         /\ Len(rest) = 1 => L!BridgeOf(rest)
                             = <<"bridge", IF rest[1] \in DOMAIN L!At THEN L!At[rest[1]] ELSE rest[1]>>
         /\ Len(rest) > 1 => L!BridgeOf(rest) = <<"usage">>
BY DEF L!BridgeOf

LEMMA UpdateIs ==
  ASSUME NEW words
  PROVE  L!UpdateFlags(words) \in {<<"usage">>, <<"update", "force">>, <<"update", "skip">>,
                                   <<"update", "prompt">>}
<1> DEFINE both == {"--restart", "--no-restart"}
<1>1. \/ ~(words \subseteq both) \/ words = both \/ words = {"--restart"}
      \/ words = {"--no-restart"} \/ words = {}
  <2>1. words \subseteq both => \/ words = {} \/ words = {"--restart"} \/ words = {"--no-restart"} \/ words = both
    OBVIOUS
  <2> QED
    BY <2>1
<1> QED
  BY <1>1 DEF L!UpdateFlags

-----------------------------------------------------------------------------
(* The lines of the help and of the manual                                 *)

UsageWords == {"window", "new", "close", "next", "prev", "pane", "split", "right", "down", "zoom",
               "sidebar", "toggle", "--name", "logs", "rename", "select", "2"}
Spoken     == UsageWords \cup {"--session", "@work", "@api", "work", "api"}

\* A usage of the control commands is a command, and none of its words is a flag of
\* another part of the program.
IsUsage(u) == /\ u \in Seq(UsageWords) /\ Len(u) \in 2..4
              /\ u[1] \in L!Nouns /\ L!ParseCommand(u) = u

LEMMA UsageHolds == \A u \in L!Usage : IsUsage(u)
<1> TAKE u \in L!Usage
<1>1. u \in L!Plain => u \in Seq(UsageWords) /\ Len(u) \in 2..4 /\ u[1] \in L!Nouns
  <2>1. \A a, b \in UsageWords : a \in L!Nouns =>
          /\ <<a, b>> \in Seq(UsageWords) /\ Len(<<a, b>>) \in 2..4 /\ <<a, b>>[1] \in L!Nouns
    OBVIOUS
  <2>2. \A a, b, c \in UsageWords : a \in L!Nouns =>
          /\ <<a, b, c>> \in Seq(UsageWords) /\ Len(<<a, b, c>>) \in 2..4 /\ <<a, b, c>>[1] \in L!Nouns
    OBVIOUS
  <2>3. L!Plain \subseteq {<<a, b>> : a \in L!Nouns, b \in UsageWords}
                           \cup {<<a, b, c>> : a \in L!Nouns, b \in UsageWords, c \in UsageWords}
    BY DEF L!Plain, UsageWords, L!Nouns
  <2>4. L!Nouns \subseteq UsageWords
    BY DEF L!Nouns, UsageWords
  <2>5. SUFFICES ASSUME u \in L!Plain
                 PROVE  u \in Seq(UsageWords) /\ Len(u) \in 2..4 /\ u[1] \in L!Nouns
    OBVIOUS
  <2>6. CASE \E a \in L!Nouns, b \in UsageWords : u = <<a, b>>
    BY <2>1, <2>4, <2>6
  <2>7. CASE \E a \in L!Nouns, b \in UsageWords, c \in UsageWords : u = <<a, b, c>>
    BY <2>2, <2>4, <2>7
  <2> QED
    BY <2>3, <2>5, <2>6, <2>7
<1>2. u \in L!Plain => L!ParseCommand(u) = u
  BY DEF L!ParseCommand
<1>3. CASE u = <<"window", "new", "--name", "logs">>
  <2>1. "logs" \in L!ToSet(u)
    BY <1>3 DEF L!ToSet
  <2>2. L!ParseCommand(u) = u
    BY <1>3, <2>1 DEF L!ParseCommand
  <2> QED
    BY <1>3, <2>2 DEF IsUsage, UsageWords, L!Nouns
<1>4. CASE u = <<"window", "rename", "logs">>
  <2>1. "logs" \in L!ToSet(u)
    BY <1>4 DEF L!ToSet
  <2>2. L!ParseCommand(u) = u
    BY <1>4, <2>1 DEF L!ParseCommand
  <2> QED
    BY <1>4, <2>2 DEF IsUsage, UsageWords, L!Nouns
<1>5. CASE u = <<"window", "select", "2">>
  <2>1. "2" \in L!ToSet(u)
    BY <1>5 DEF L!ToSet
  <2>2. "2" \in DOMAIN L!Numbers /\ L!Numbers["2"] >= 1
    BY DEF L!Numbers
  <2>3. L!ParseCommand(u) = u
    BY <1>5, <2>1, <2>2 DEF L!ParseCommand
  <2> QED
    BY <1>5, <2>3 DEF IsUsage, UsageWords, L!Nouns
<1> QED
  BY <1>1, <1>2, <1>3, <1>4, <1>5 DEF IsUsage, L!Usage

\* A line of spoken words asks for neither help nor the version.
LEMMA SpokenAsksNothing ==
  ASSUME NEW words \in Seq(Spoken), words # <<>>
  PROVE  ~Asks(words) /\ ~Versions(words)
<1>1. L!ToSet(words) \subseteq Spoken /\ Head(words) \in Spoken
  BY DEF L!ToSet
<1>2. Spoken \cap {"-h", "--help", "-V", "--version", "help"} = {}
  BY DEF Spoken, UsageWords
<1> QED
  BY <1>1, <1>2 DEF Asks, Versions

\* What a control line does whose words, but for the flag and the at sign, are a usage.
LEMMA ControlReaches ==
  ASSUME NEW words \in Seq(Spoken), words # <<>>, Names(words), NEW inside,
         NEW u, IsUsage(u), NEW session, L!Valid(session),
         L!StripSession(words, inside) = [session |-> session, rest |-> u]
  PROVE  L!Outcome(words, inside) = <<"control", session>> \o u
<1>1. L!ParseArgs(words) = <<"control">>
  BY SpokenAsksNothing, ParsedControl
<1>2. L!ParseCommand(u) = u /\ u # <<"usage">>
  <2>1. Len(<<"usage">>) \notin 2..4
    OBVIOUS
  <2>2. L!ParseCommand(u) = u /\ Len(u) \in 2..4
    BY DEF IsUsage
  <2> QED
    BY <2>1, <2>2, Zenon
<1>3. L!Control(words, inside) = <<"control", session>> \o u
  BY <1>2 DEF L!Control
<1> QED
  BY <1>1, <1>3 DEF L!Outcome

LEMMA UsageSpoken ==
  ASSUME NEW u, IsUsage(u)
  PROVE  /\ u \in Seq(Spoken) /\ u # <<>> /\ Head(u) = u[1] /\ u[1] \in L!Nouns
         /\ u[1] \notin DOMAIN L!At
         /\ \A j \in 1..Len(u) : u[j] # "--session"
<1>1. u \in Seq(UsageWords) /\ Len(u) \in 2..4 /\ u[1] \in L!Nouns
  BY DEF IsUsage
<1>2. \A j \in 1..Len(u) : u[j] \in UsageWords
  BY <1>1
<1>3. "--session" \notin UsageWords /\ L!Nouns \cap {"@work", "@api"} = {}
  BY DEF UsageWords, L!Nouns
<1>4. u \in Seq(Spoken)
  <2>1. UsageWords \subseteq Spoken
    BY DEF Spoken
  <2> HIDE DEF Spoken
  <2> QED
    BY <1>1, <2>1
<1> HIDE DEF UsageWords
<1> QED
  BY <1>1, <1>2, <1>3, <1>4, AtIs

LEMMA NamesValid == /\ L!Valid("work") /\ L!Valid("api") /\ L!Valid("default")
                    /\ \A w \in DOMAIN L!At : L!Valid(L!At[w])
BY AtIs DEF L!Valid

\* A flag and its value behind plain words are taken out.
LEMMA FlagBehind ==
  ASSUME NEW Ws, NEW words \in Seq(Ws), \A j \in 1..Len(words) : words[j] # "--session",
         "--session" \in Ws, NEW x \in Ws, NEW v, v = L!Unselected(words \o <<"--session", x>>)
  PROVE  v.rest = words /\ v.chosen = <<x>>
<1> DEFINE a == Append(words, "--session")
           u == L!Unselected(a)
           n == Len(words)
<1>1. /\ a \in Seq(Ws) /\ n \in Nat /\ Len(a) = n + 1 /\ a[n + 1] = "--session" /\ a # <<>>
      /\ \A i \in 1..n : a[i] = words[i]
  OBVIOUS
<1>2. words \o <<"--session", x>> = Append(a, x)
  OBVIOUS
<1> HIDE DEF a
<1>3. v = L!Unselected(Append(a, x))
  BY <1>2
<1>4. L!Unselected(words) = [rest |-> words, chosen |-> <<>>, skip |-> FALSE]
  BY UnselectedPlain
<1>5. Adds(L!Unselected(words), u, "--session")
  <2>1. words = <<>> \/ words[Len(words)] # "--session"
    OBVIOUS
  <2> QED
    BY <2>1, UnselectedMore DEF a
<1>6. Dangles(a)
  <2>1. n = 0 \/ a[n] # "--session"
    BY <1>1
  <2>2. Len(a) - 1 = n
    BY <1>1
  <2> HIDE DEF n
  <2> QED
    BY <1>1, <2>1, <2>2 DEF Dangles
<1>7. Chooses(u, v, x)
  BY <1>1, <1>3, <1>6, UnselectedMore
<1>8. v \in Kept(Ws)
  <2>1. Append(a, x) \in Seq(Ws)
    BY <1>1
  <2> QED
    BY <1>3, <2>1, UnselectedIs
<1> HIDE DEF u
<1>9. u.rest = Append(words, "--session")
  BY <1>4, <1>5 DEF Adds
<1>10. Append(v.rest, "--session") = Append(words, "--session") /\ v.chosen = <<x>>
  BY <1>7, <1>9 DEF Chooses
<1>11. v.rest \in Seq(Ws)
  BY <1>8 DEF Kept
<1>12. v.rest = words
  BY <1>10, <1>11, SameBefore
<1> QED
  BY <1>10, <1>12

\* The four ways to write a usage, and the session each is for.
LEMMA Unnamed ==
  ASSUME NEW u, IsUsage(u), NEW inside
  PROVE  L!StripSession(u, inside)
         = [session |-> IF inside = L!NoParent THEN "default" ELSE inside, rest |-> u]
<1>1. L!Unselected(u) = [rest |-> u, chosen |-> <<>>, skip |-> FALSE]
  BY UsageSpoken, UnselectedPlain
<1>2. u # <<>> /\ Head(u) \notin DOMAIN L!At
  BY UsageSpoken
<1> QED
  BY <1>1, <1>2 DEF L!StripSession

LEMMA NamedInFront ==
  ASSUME NEW u, IsUsage(u), NEW w \in DOMAIN L!At, NEW inside
  PROVE  /\ <<w>> \o u \in Seq(Spoken)
         /\ \A j \in 1..Len(<<w>> \o u) : (<<w>> \o u)[j] # "--session"
         /\ L!StripSession(<<w>> \o u, inside) = [session |-> L!At[w], rest |-> u]
<1> DEFINE words == <<w>> \o u
<1>1. u \in Seq(Spoken) /\ \A j \in 1..Len(u) : u[j] # "--session"
  BY UsageSpoken
<1>2. w \in Spoken /\ w # "--session"
  BY AtIs DEF Spoken
<1>3. words \in Seq(Spoken) /\ Len(words) = Len(u) + 1
  BY <1>1, <1>2
<1>4. ASSUME NEW j \in 1..Len(words) PROVE words[j] # "--session"
  <2>1. CASE j = 1
    BY <1>1, <1>2, <2>1
  <2>2. CASE j # 1
    <3>1. j - 1 \in 1..Len(u) /\ words[j] = u[j - 1]
      BY <1>1, <1>3, <2>2
    <3> QED
      BY <1>1, <3>1
  <2> QED
    BY <2>1, <2>2
<1>5. words # <<>> /\ Head(words) = w /\ Tail(words) = u
  BY <1>1
<1> HIDE DEF words
<1>6. L!Unselected(words) = [rest |-> words, chosen |-> <<>>, skip |-> FALSE]
  BY <1>3, <1>4, UnselectedPlain
<1>7. L!StripSession(words, inside) = [session |-> L!At[w], rest |-> u]
  BY <1>5, <1>6 DEF L!StripSession
<1> QED
  BY <1>3, <1>4, <1>7 DEF words

LEMMA NamedBehind ==
  ASSUME NEW u, IsUsage(u), NEW x \in {"work", "api"}, NEW inside
  PROVE  L!StripSession(u \o <<"--session", x>>, inside) = [session |-> x, rest |-> u]
<1> DEFINE v == L!Unselected(u \o <<"--session", x>>)
<1>1. u \in Seq(Spoken) /\ \A j \in 1..Len(u) : u[j] # "--session"
  BY UsageSpoken
<1>2. "--session" \in Spoken /\ x \in Spoken
  BY DEF Spoken
<1>3. v.rest = u /\ v.chosen = <<x>>
  BY <1>1, <1>2, FlagBehind
<1>4. u # <<>> /\ Head(u) \notin DOMAIN L!At
  BY UsageSpoken
<1>5. v.chosen # <<>> /\ v.chosen[1] = x
  BY <1>3
<1> QED
  BY <1>3, <1>4, <1>5 DEF L!StripSession

LEMMA NamedTwice ==
  ASSUME NEW u, IsUsage(u), NEW w \in DOMAIN L!At, NEW x \in {"work", "api"}, NEW inside
  PROVE  L!StripSession(<<w>> \o u \o <<"--session", x>>, inside)
         = [session |-> L!At[w], rest |-> u]
<1> DEFINE words == <<w>> \o u
           v == L!Unselected(words \o <<"--session", x>>)
<1>1. words \in Seq(Spoken) /\ \A j \in 1..Len(words) : words[j] # "--session"
  BY NamedInFront
<1>2. "--session" \in Spoken /\ x \in Spoken
  BY DEF Spoken
<1>3. u \in Seq(Spoken)
  BY UsageSpoken
<1>4. words # <<>> /\ Head(words) = w /\ Tail(words) = u
  BY <1>3
<1> HIDE DEF words
<1>5. v.rest = words
  BY <1>1, <1>2, FlagBehind
<1> HIDE DEF v
<1>6. L!StripSession(words \o <<"--session", x>>, inside) = [session |-> L!At[w], rest |-> u]
  BY <1>4, <1>5 DEF L!StripSession, v
<1> QED
  BY <1>6 DEF words

\* A documented control line does what it is documented for.
LEMMA ControlRowHolds ==
  ASSUME NEW inside, L!Valid(inside), NEW row \in L!ControlRows(inside)
  PROVE  L!Outcome(row[1], inside) = row[2] /\ row[2][1] = "control"
<1> DEFINE s == IF inside = L!NoParent THEN "default" ELSE inside
<1>1. ASSUME NEW session, NEW u, IsUsage(u) PROVE (<<"control", session>> \o u)[1] = "control"
  <2>1. u \in Seq(Spoken)
    BY <1>1, UsageSpoken
  <2> QED
    BY <2>1
<1>2. ASSUME NEW w \in DOMAIN L!At PROVE w \in Spoken /\ L!At[w] \in Spoken /\ L!At[w] \in {"work", "api"}
  BY AtIs DEF Spoken
<1>3. "--session" \in Spoken /\ "work" \in Spoken
  BY DEF Spoken
<1>4. ASSUME NEW u, IsUsage(u) PROVE L!Outcome(u, inside) = <<"control", s>> \o u
  <2>1. u \in Seq(Spoken) /\ u # <<>> /\ Names(u)
    BY <1>4, UsageSpoken DEF Names
  <2>2. L!Valid(s)
    BY NamesValid
  <2>3. L!StripSession(u, inside) = [session |-> s, rest |-> u]
    BY <1>4, Unnamed
  <2> HIDE DEF s
  <2> QED
    BY <1>4, <2>1, <2>2, <2>3, ControlReaches
<1>5. ASSUME NEW u, IsUsage(u), NEW w \in DOMAIN L!At
      PROVE  L!Outcome(<<w>> \o u, inside) = <<"control", L!At[w]>> \o u
  <2> DEFINE words == <<w>> \o u
  <2>1. words \in Seq(Spoken) /\ L!StripSession(words, inside) = [session |-> L!At[w], rest |-> u]
    BY <1>5, NamedInFront
  <2>2. words # <<>> /\ Head(words) = w
    <3>1. u \in Seq(Spoken)
      BY <1>5, UsageSpoken
    <3> QED
      BY <3>1
  <2> HIDE DEF words
  <2>3. Names(words)
    BY <2>2 DEF Names
  <2>4. L!Outcome(words, inside) = <<"control", L!At[w]>> \o u
    BY <1>5, <2>1, <2>2, <2>3, NamesValid, ControlReaches
  <2> QED
    BY <2>4 DEF words
<1>6. ASSUME NEW u, IsUsage(u), NEW w \in DOMAIN L!At
      PROVE  L!Outcome(u \o <<"--session", L!At[w]>>, inside) = <<"control", L!At[w]>> \o u
  <2> DEFINE words == u \o <<"--session", L!At[w]>>
  <2>1. L!StripSession(words, inside) = [session |-> L!At[w], rest |-> u]
    BY <1>2, <1>6, NamedBehind
  <2>2. words \in Seq(Spoken) /\ words # <<>> /\ Head(words) = u[1]
    <3>1. u \in Seq(Spoken) /\ u # <<>>
      BY <1>6, UsageSpoken
    <3> QED
      BY <1>2, <1>3, <3>1
  <2> HIDE DEF words
  <2>3. Names(words)
    BY <1>6, <2>2, UsageSpoken DEF Names
  <2>4. L!Outcome(words, inside) = <<"control", L!At[w]>> \o u
    BY <1>6, <2>1, <2>2, <2>3, NamesValid, ControlReaches
  <2> QED
    BY <2>4 DEF words
<1>7. ASSUME NEW u, IsUsage(u), NEW w \in DOMAIN L!At
      PROVE  L!Outcome(<<w>> \o u \o <<"--session", "work">>, inside) = <<"control", L!At[w]>> \o u
  <2> DEFINE words == <<w>> \o u \o <<"--session", "work">>
  <2>1. L!StripSession(words, inside) = [session |-> L!At[w], rest |-> u]
    BY <1>7, NamedTwice
  <2>2. words \in Seq(Spoken) /\ words # <<>> /\ Head(words) = w
    <3>1. u \in Seq(Spoken)
      BY <1>7, UsageSpoken
    <3> QED
      BY <1>2, <1>3, <3>1
  <2> HIDE DEF words
  <2>3. Names(words)
    BY <2>2 DEF Names
  <2>4. L!Outcome(words, inside) = <<"control", L!At[w]>> \o u
    BY <1>7, <2>1, <2>2, <2>3, NamesValid, ControlReaches
  <2> QED
    BY <2>4 DEF words
<1>8. PICK u \in L!Usage :
        \/ row = <<u, <<"control", s>> \o u>>
        \/ \E w \in DOMAIN L!At : row = <<<<w>> \o u, <<"control", L!At[w]>> \o u>>
        \/ \E w \in DOMAIN L!At : row = <<u \o <<"--session", L!At[w]>>, <<"control", L!At[w]>> \o u>>
        \/ \E w \in DOMAIN L!At :
             row = <<<<w>> \o u \o <<"--session", "work">>, <<"control", L!At[w]>> \o u>>
  BY Zenon DEF L!ControlRows
<1>9. IsUsage(u)
  BY UsageHolds
<1> HIDE DEF s
<1>10. CASE row = <<u, <<"control", s>> \o u>>
  <2>1. row[1] = u /\ row[2] = <<"control", s>> \o u
    BY <1>10
  <2> QED
    BY <2>1, <1>1, <1>4, <1>9
<1>11. CASE \E w \in DOMAIN L!At : row = <<<<w>> \o u, <<"control", L!At[w]>> \o u>>
  <2>1. PICK w \in DOMAIN L!At : row = <<<<w>> \o u, <<"control", L!At[w]>> \o u>>
    BY <1>11
  <2>2. row[1] = <<w>> \o u /\ row[2] = <<"control", L!At[w]>> \o u
    BY <2>1
  <2> QED
    BY <2>2, <1>1, <1>5, <1>9
<1>12. CASE \E w \in DOMAIN L!At :
              row = <<u \o <<"--session", L!At[w]>>, <<"control", L!At[w]>> \o u>>
  <2>1. PICK w \in DOMAIN L!At : row = <<u \o <<"--session", L!At[w]>>, <<"control", L!At[w]>> \o u>>
    BY <1>12
  <2>2. row[1] = u \o <<"--session", L!At[w]>> /\ row[2] = <<"control", L!At[w]>> \o u
    BY <2>1
  <2> QED
    BY <2>2, <1>1, <1>6, <1>9
<1>13. CASE \E w \in DOMAIN L!At :
              row = <<<<w>> \o u \o <<"--session", "work">>, <<"control", L!At[w]>> \o u>>
  <2>1. PICK w \in DOMAIN L!At :
          row = <<<<w>> \o u \o <<"--session", "work">>, <<"control", L!At[w]>> \o u>>
    BY <1>13
  <2>2. row[1] = <<w>> \o u \o <<"--session", "work">> /\ row[2] = <<"control", L!At[w]>> \o u
    BY <2>1
  <2> QED
    BY <2>2, <1>1, <1>7, <1>9
<1> QED
  BY <1>8, <1>10, <1>11, <1>12, <1>13

\* Lines of one, two and three words that go by their first.
Flags     == {"-h", "--help", "-V", "--version"}
Commanding(w) == w \notin Flags \cup {"help", "window", "pane", "sidebar", "@work", "@api"}

LEMMA OneWord ==
  ASSUME NEW x, Commanding(x)
  PROVE  L!ParseArgs(<<x>>) = L!Routed(x, <<>>)
<1> DEFINE words == <<x>>
<1>1. L!ToSet(words) = {x}
  BY DEF L!ToSet
<1>2. words # <<>> /\ Head(words) = x /\ Tail(words) = <<>>
  OBVIOUS
<1> HIDE DEF words
<1>3. ~Asks(words) /\ ~Versions(words) /\ ~Names(words)
  BY <1>1, <1>2, AtIs DEF Asks, Versions, Names, Commanding, Flags, L!Nouns
<1> QED
  BY <1>2, <1>3, ParsedCommand DEF words

LEMMA TwoWords ==
  ASSUME NEW x, NEW y, Commanding(x), y \notin Flags
  PROVE  L!ParseArgs(<<x, y>>) = L!Routed(x, <<y>>)
<1> DEFINE words == <<x, y>>
<1>1. L!ToSet(words) = {x, y}
  BY DEF L!ToSet
<1>2. words # <<>> /\ Head(words) = x /\ Tail(words) = <<y>>
  OBVIOUS
<1> HIDE DEF words
<1>3. ~Asks(words) /\ ~Versions(words) /\ ~Names(words)
  BY <1>1, <1>2, AtIs DEF Asks, Versions, Names, Commanding, Flags, L!Nouns
<1> QED
  BY <1>2, <1>3, ParsedCommand DEF words

LEMMA ThreeWords ==
  ASSUME NEW x, NEW y, NEW z, Commanding(x), y \notin Flags, z \notin Flags
  PROVE  L!ParseArgs(<<x, y, z>>) = L!Routed(x, <<y, z>>)
<1> DEFINE words == <<x, y, z>>
<1>1. L!ToSet(words) = {x, y, z}
  BY DEF L!ToSet
<1>2. words # <<>> /\ Head(words) = x /\ Tail(words) = <<y, z>>
  OBVIOUS
<1> HIDE DEF words
<1>3. ~Asks(words) /\ ~Versions(words) /\ ~Names(words)
  BY <1>1, <1>2, AtIs DEF Asks, Versions, Names, Commanding, Flags, L!Nouns
<1> QED
  BY <1>2, <1>3, ParsedCommand DEF words

LEMMA OneJoined ==
  ASSUME NEW x, NEW y
  PROVE  <<x>> \o <<y>> = <<x, y>>
<1>1. <<x>> \in Seq({x, y}) /\ <<y>> \in Seq({x, y}) /\ <<x, y>> \in Seq({x, y})
  OBVIOUS
<1>2. Len(<<x>> \o <<y>>) = 2 /\ (<<x>> \o <<y>>)[1] = x /\ (<<x>> \o <<y>>)[2] = y
  BY <1>1
<1>3. <<x>> \o <<y>> \in Seq({x, y})
  BY <1>1
<1>4. \A s \in Seq({x, y}) : Len(s) = 2 => s = <<s[1], s[2]>>
  OBVIOUS
<1> QED
  BY <1>2, <1>3, <1>4, Zenon

LEMMA TwoJoined ==
  ASSUME NEW x, NEW y, NEW z
  PROVE  <<x>> \o <<y, z>> = <<x, y, z>>
<1> DEFINE S == {x, y, z}
<1>1. <<x>> \in Seq(S) /\ <<y, z>> \in Seq(S) /\ <<x, y, z>> \in Seq(S)
  OBVIOUS
<1>2. /\ Len(<<x>> \o <<y, z>>) = 3 /\ (<<x>> \o <<y, z>>)[1] = x
      /\ (<<x>> \o <<y, z>>)[2] = y /\ (<<x>> \o <<y, z>>)[3] = z
  BY <1>1
<1>3. <<x>> \o <<y, z>> \in Seq(S)
  BY <1>1
<1>4. \A s \in Seq(S) : Len(s) = 3 => s = <<s[1], s[2], s[3]>>
  OBVIOUS
<1> QED
  BY <1>2, <1>3, <1>4, Zenon

\* Every documented line that is no control command is taken for what it is documented as.
LEMMA CommandRowParses ==
  ASSUME NEW name \in {"work", "api"}, NEW row \in L!CommandRows(name) \cup L!HelpFlagRow
  PROVE  L!ParseArgs(row[1]) = row[2]
<1>1. /\ \A x \in {"ls", "bridge", "server", "update", name} : Commanding(x)
      /\ \A x \in {"new", "attach", "a", "stop", "ssh"} : Commanding(x)
      /\ \A x \in {"-s", "-t", "host", name, "--restart", "--no-restart", "@work", "@api"} : x \notin Flags
  BY DEF Commanding, Flags
<1>2. /\ L!ParseArgs(<<"ls">>) = <<"ls">> /\ L!ParseArgs(<<name>>) = <<"run", name>>
      /\ L!ParseArgs(<<"bridge">>) = <<"bridge">>
      /\ L!ParseArgs(<<"server">>) = <<"server", "default">>
  <2>1. <<>> \in Seq({name})
    OBVIOUS
  <2>2. L!Routed("ls", <<>>) = <<"ls">> /\ L!Routed(name, <<>>) = <<"run", name>>
    BY RoutedIs
  <2>3. L!Routed("bridge", <<>>) = <<"bridge">>
    BY <2>1, RoutedIs, BridgeIs
  <2>4. L!Routed("server", <<>>) = <<"server", "default">>
    BY <2>1, RoutedIs, ServerIs
  <2> QED
    BY <1>1, <2>2, <2>3, <2>4, OneWord
<1>3. L!ParseArgs(<<"update">>) = <<"update", "prompt">>
  <2>1. L!ToSet(<<>>) = {}
    BY DEF L!ToSet
  <2>2. L!UpdateFlags({}) = <<"update", "prompt">>
    BY DEF L!UpdateFlags
  <2>3. L!ParseArgs(<<"update">>) = L!Routed("update", <<>>)
    BY <1>1, OneWord
  <2>4. L!Routed("update", <<>>) = L!UpdateFlags(L!ToSet(<<>>))
    BY RoutedIs
  <2> QED
    BY <2>1, <2>2, <2>3, <2>4, Zenon
<1>4. /\ L!ParseArgs(<<"update", "--restart">>) = <<"update", "force">>
      /\ L!ParseArgs(<<"update", "--no-restart">>) = <<"update", "skip">>
  <2>1. L!ToSet(<<"--restart">>) = {"--restart"} /\ L!ToSet(<<"--no-restart">>) = {"--no-restart"}
    BY DEF L!ToSet
  <2>2. /\ L!UpdateFlags({"--restart"}) = <<"update", "force">>
        /\ L!UpdateFlags({"--no-restart"}) = <<"update", "skip">>
    BY DEF L!UpdateFlags
  <2>3. ASSUME NEW f \in {"--restart", "--no-restart"}
        PROVE  L!ParseArgs(<<"update", f>>) = L!UpdateFlags(L!ToSet(<<f>>))
    <3>1. L!ParseArgs(<<"update", f>>) = L!Routed("update", <<f>>)
      BY <1>1, TwoWords
    <3> QED
      BY <3>1, RoutedIs
  <2> QED
    BY <2>1, <2>2, <2>3
<1>5. /\ L!ParseArgs(<<"server", name>>) = <<"server", name>>
      /\ L!ParseArgs(<<"ssh", "host">>) = <<"ssh", "host">>
  <2>1. <<name>> \in Seq({name}) /\ Len(<<name>>) = 1 /\ <<name>>[1] = name
    OBVIOUS
  <2>2. L!ServerOf(<<name>>) = <<"server", name>>
    BY <2>1, ServerIs
  <2>3. L!ToSet(<<"host">>) = {"host"}
    BY DEF L!ToSet
  <2>4. L!Ssh(<<"host">>) = <<"ssh", "host">>
    <3>1. Len(<<"host">>) \in 1..2 /\ {"host"} \cap L!Dashed = {}
      BY DEF L!Dashed
    <3>2. <<"ssh">> \o <<"host">> = <<"ssh", "host">>
      BY OneJoined
    <3> QED
      BY <2>3, <3>1, <3>2, Zenon DEF L!Ssh
  <2>5. /\ L!ParseArgs(<<"server", name>>) = L!Routed("server", <<name>>)
        /\ L!ParseArgs(<<"ssh", "host">>) = L!Routed("ssh", <<"host">>)
    BY <1>1, TwoWords
  <2>6. /\ L!Routed("server", <<name>>) = L!ServerOf(<<name>>)
        /\ L!Routed("ssh", <<"host">>) = L!Ssh(<<"host">>)
    BY RoutedIs
  <2> QED
    BY <2>2, <2>4, <2>5, <2>6, Zenon
<1>6. ASSUME NEW w \in DOMAIN L!At PROVE L!ParseArgs(<<"bridge", w>>) = <<"bridge", L!At[w]>>
  <2>1. <<w>> \in Seq({w}) /\ Len(<<w>>) = 1 /\ <<w>>[1] = w
    OBVIOUS
  <2>2. L!BridgeOf(<<w>>) = <<"bridge", L!At[w]>>
    BY <2>1, BridgeIs
  <2>3. w \notin Flags
    BY <1>1, AtIs
  <2> QED
    BY <1>1, <2>2, <2>3, TwoWords, RoutedIs
<1>7. /\ L!ParseArgs(<<"new", "-s", name>>) = <<"run", name>>
      /\ L!ParseArgs(<<"attach", "-t", name>>) = <<"attach", name>>
      /\ L!ParseArgs(<<"a", "-t", name>>) = <<"attach", name>>
      /\ L!ParseArgs(<<"stop", "-t", name>>) = <<"stop", name>>
  <2>1. ASSUME NEW f, NEW c PROVE L!Flagged(<<f, name>>, f, c) = <<c, name>>
    BY DEF L!Flagged
  <2>2. ASSUME NEW x \in {"new", "attach", "a", "stop"}, NEW f \in {"-s", "-t"}
        PROVE  L!ParseArgs(<<x, f, name>>) = L!Routed(x, <<f, name>>)
    BY <1>1, ThreeWords
  <2>3. /\ L!Routed("new", <<"-s", name>>) = <<"run", name>>
        /\ L!Routed("attach", <<"-t", name>>) = <<"attach", name>>
    BY <2>1, RoutedIs
  <2>4. /\ L!Routed("a", <<"-t", name>>) = <<"attach", name>>
        /\ L!Routed("stop", <<"-t", name>>) = <<"stop", name>>
    BY <2>1, RoutedIs
  <2> QED
    BY <2>2, <2>3, <2>4
<1>8. L!ParseArgs(<<"ssh", "host", name>>) = <<"ssh", "host", name>>
  <2>1. L!ToSet(<<"host", name>>) = {"host", name}
    BY DEF L!ToSet
  <2>2. L!Ssh(<<"host", name>>) = <<"ssh", "host", name>>
    <3>1. Len(<<"host", name>>) \in 1..2 /\ {"host", name} \cap L!Dashed = {}
      BY DEF L!Dashed
    <3>2. <<"ssh">> \o <<"host", name>> = <<"ssh", "host", name>>
      BY TwoJoined
    <3> QED
      BY <2>1, <3>1, <3>2, Zenon DEF L!Ssh
  <2>3. L!ParseArgs(<<"ssh", "host", name>>) = L!Routed("ssh", <<"host", name>>)
    BY <1>1, ThreeWords
  <2> QED
    BY <2>2, <2>3, RoutedIs
<1>9. L!ParseArgs(<<>>) = <<"run", "default">>
  BY ParsedNothing DEF Asks, Versions, L!ToSet
<1>10. ASSUME NEW w \in {"--version", "-V"} PROVE L!ParseArgs(<<w>>) = <<"version">>
  <2>1. L!ToSet(<<w>>) = {w} /\ Head(<<w>>) = w
    BY DEF L!ToSet
  <2> QED
    BY <2>1, ParsedVersion DEF Asks, Versions
<1>11. ASSUME NEW w \in {"-h", "--help", "help"} PROVE L!ParseArgs(<<w>>) = <<"help">>
  <2>1. L!ToSet(<<w>>) = {w} /\ Head(<<w>>) = w /\ <<w>> # <<>>
    BY DEF L!ToSet
  <2> QED
    BY <2>1, ParsedHelp DEF Asks
<1> DEFINE Right(q) == L!ParseArgs(q[1]) = q[2]
<1>12. ASSUME NEW words, NEW out, L!ParseArgs(words) = out PROVE Right(<<words, out>>)
  BY <1>12
<1> SUFFICES Right(row)
  OBVIOUS
<1> HIDE DEF Right
<1>13. CASE row \in L!HelpFlagRow
  BY <1>11, <1>12, <1>13 DEF L!HelpFlagRow
<1>14. CASE row \in {<<<<"bridge", w>>, <<"bridge", L!At[w]>>>> : w \in DOMAIN L!At}
  BY <1>6, <1>12, <1>14
<1>15. CASE row \in L!CommandRows(name) \ {<<<<"bridge", w>>, <<"bridge", L!At[w]>>>> : w \in DOMAIN L!At}
  <2>1. \/ row = <<<<>>, <<"run", "default">>>> \/ row = <<<<name>>, <<"run", name>>>>
        \/ row = <<<<"new", "-s", name>>, <<"run", name>>>>
        \/ row = <<<<"attach", "-t", name>>, <<"attach", name>>>>
        \/ row = <<<<"a", "-t", name>>, <<"attach", name>>>>
        \/ row = <<<<"ls">>, <<"ls">>>> \/ row = <<<<"stop", "-t", name>>, <<"stop", name>>>>
        \/ row = <<<<"ssh", "host">>, <<"ssh", "host">>>>
        \/ row = <<<<"ssh", "host", name>>, <<"ssh", "host", name>>>>
        \/ row = <<<<"bridge">>, <<"bridge">>>>
        \/ row = <<<<"server">>, <<"server", "default">>>>
        \/ row = <<<<"server", name>>, <<"server", name>>>>
        \/ row = <<<<"update">>, <<"update", "prompt">>>>
        \/ row = <<<<"update", "--restart">>, <<"update", "force">>>>
        \/ row = <<<<"update", "--no-restart">>, <<"update", "skip">>>>
        \/ row = <<<<"--version">>, <<"version">>>> \/ row = <<<<"-V">>, <<"version">>>>
    BY <1>15, Zenon DEF L!CommandRows
  <2>2. /\ Right(<<<<>>, <<"run", "default">>>>) /\ Right(<<<<name>>, <<"run", name>>>>)
        /\ Right(<<<<"ls">>, <<"ls">>>>) /\ Right(<<<<"bridge">>, <<"bridge">>>>)
        /\ Right(<<<<"server">>, <<"server", "default">>>>)
    BY <1>2, <1>9, <1>12
  <2>3. /\ Right(<<<<"new", "-s", name>>, <<"run", name>>>>)
        /\ Right(<<<<"attach", "-t", name>>, <<"attach", name>>>>)
        /\ Right(<<<<"a", "-t", name>>, <<"attach", name>>>>)
        /\ Right(<<<<"stop", "-t", name>>, <<"stop", name>>>>)
    BY <1>7, <1>12
  <2>4. /\ Right(<<<<"ssh", "host">>, <<"ssh", "host">>>>)
        /\ Right(<<<<"ssh", "host", name>>, <<"ssh", "host", name>>>>)
        /\ Right(<<<<"server", name>>, <<"server", name>>>>)
    BY <1>5, <1>8, <1>12
  <2>5. /\ Right(<<<<"update">>, <<"update", "prompt">>>>)
        /\ Right(<<<<"update", "--restart">>, <<"update", "force">>>>)
        /\ Right(<<<<"update", "--no-restart">>, <<"update", "skip">>>>)
    BY <1>3, <1>4, <1>12
  <2>6. Right(<<<<"--version">>, <<"version">>>>) /\ Right(<<<<"-V">>, <<"version">>>>)
    BY <1>10, <1>12
  <2> QED
    BY <2>1, <2>2, <2>3, <2>4, <2>5, <2>6, Zenon
<1> QED
  BY <1>13, <1>14, <1>15

\* The names in the documented lines are good ones.
LEMMA RowUnchecked ==
  ASSUME NEW name \in {"work", "api"}, NEW row \in L!CommandRows(name) \cup L!HelpFlagRow
  PROVE  row[2] # <<"control">> /\ ~L!Checked(row[2])
<1> DEFINE good == {"work", "api", "default"}
           Fine(q) == q[2] # <<"control">> /\ ~L!Checked(q[2])
<1>1. \A x \in good : L!Valid(x)
  BY NamesValid
<1>2. ASSUME NEW w, NEW k \in {"run", "attach", "stop", "server"}, NEW x \in good
      PROVE  Fine(<<w, <<k, x>>>>)
  <2>1. <<k, x>>[1] = k /\ <<k, x>>[2] = x /\ <<"control">>[1] = "control"
    OBVIOUS
  <2>2. ~L!Checked(<<k, x>>)
    BY <1>1, <2>1 DEF L!Checked
  <2> QED
    BY <2>1, <2>2
<1>3. ASSUME NEW w, NEW x \in good PROVE Fine(<<w, <<"bridge", x>>>>)
  <2>1. <<"bridge", x>>[1] = "bridge" /\ <<"bridge", x>>[2] = x /\ <<"control">>[1] = "control"
    OBVIOUS
  <2>2. ~L!Checked(<<"bridge", x>>)
    BY <1>1, <2>1 DEF L!Checked
  <2> QED
    BY <2>1, <2>2
<1>4. ASSUME NEW w, NEW x \in good PROVE Fine(<<w, <<"ssh", "host", x>>>>)
  <2>1. /\ <<"ssh", "host", x>>[1] = "ssh" /\ <<"ssh", "host", x>>[3] = x
        /\ <<"control">>[1] = "control"
    OBVIOUS
  <2>2. ~L!Checked(<<"ssh", "host", x>>)
    BY <1>1, <2>1 DEF L!Checked
  <2> QED
    BY <2>1, <2>2
<1>5. ASSUME NEW w, NEW x PROVE Fine(<<w, <<"update", x>>>>)
  <2>1. <<"update", x>>[1] = "update" /\ <<"control">>[1] = "control"
    OBVIOUS
  <2>2. ~L!Checked(<<"update", x>>)
    BY <2>1 DEF L!Checked
  <2> QED
    BY <2>1, <2>2
<1>6. ASSUME NEW w PROVE Fine(<<w, <<"ssh", "host">>>>)
  <2>1. /\ <<"ssh", "host">>[1] = "ssh" /\ Len(<<"ssh", "host">>) # 3
        /\ <<"control">>[1] = "control"
    OBVIOUS
  <2>2. ~L!Checked(<<"ssh", "host">>)
    BY <2>1 DEF L!Checked
  <2> QED
    BY <2>1, <2>2
<1>7. ASSUME NEW w, NEW k \in {"ls", "bridge", "version", "help"} PROVE Fine(<<w, <<k>>>>)
  <2>1. <<k>>[1] = k /\ Len(<<k>>) # 2 /\ <<"control">>[1] = "control"
    OBVIOUS
  <2>2. ~L!Checked(<<k>>)
    BY <2>1 DEF L!Checked
  <2> QED
    BY <2>1, <2>2
<1> SUFFICES Fine(row)
  OBVIOUS
<1> HIDE DEF Fine
<1>8. CASE row \in L!HelpFlagRow
  BY <1>7, <1>8 DEF L!HelpFlagRow
<1>9. CASE row \in {<<<<"bridge", w>>, <<"bridge", L!At[w]>>>> : w \in DOMAIN L!At}
  BY <1>3, <1>9, AtIs
<1>10. CASE row \in L!CommandRows(name) \ {<<<<"bridge", w>>, <<"bridge", L!At[w]>>>> : w \in DOMAIN L!At}
  <2>1. \/ row = <<<<>>, <<"run", "default">>>> \/ row = <<<<name>>, <<"run", name>>>>
        \/ row = <<<<"new", "-s", name>>, <<"run", name>>>>
        \/ row = <<<<"attach", "-t", name>>, <<"attach", name>>>>
        \/ row = <<<<"a", "-t", name>>, <<"attach", name>>>>
        \/ row = <<<<"ls">>, <<"ls">>>> \/ row = <<<<"stop", "-t", name>>, <<"stop", name>>>>
        \/ row = <<<<"ssh", "host">>, <<"ssh", "host">>>>
        \/ row = <<<<"ssh", "host", name>>, <<"ssh", "host", name>>>>
        \/ row = <<<<"bridge">>, <<"bridge">>>>
        \/ row = <<<<"server">>, <<"server", "default">>>>
        \/ row = <<<<"server", name>>, <<"server", name>>>>
        \/ row = <<<<"update">>, <<"update", "prompt">>>>
        \/ row = <<<<"update", "--restart">>, <<"update", "force">>>>
        \/ row = <<<<"update", "--no-restart">>, <<"update", "skip">>>>
        \/ row = <<<<"--version">>, <<"version">>>> \/ row = <<<<"-V">>, <<"version">>>>
    BY <1>10, Zenon DEF L!CommandRows
  <2> QED
    BY <2>1, <1>2, <1>4, <1>5, <1>6, <1>7
<1> QED
  BY <1>8, <1>9, <1>10

LEMMA AsDocumentedHolds == parent \in Parents => L!AsDocumented
<1> SUFFICES ASSUME parent \in Parents, NEW row \in L!Documented(parent), row[1] = line
             PROVE  L!Outcome(line, parent)
                    = IF L!Nested(row[2], parent) THEN <<"nested">> ELSE row[2]
  BY DEF L!AsDocumented
<1>1. L!Valid(parent)
  BY LinesAssumption DEF L!LinesTyped
<1>2. CASE row \in L!ControlRows(parent)
  <2>1. L!Outcome(row[1], parent) = row[2] /\ row[2][1] = "control"
    BY <1>1, <1>2, ControlRowHolds
  <2>2. ~L!Nested(row[2], parent)
    BY <2>1 DEF L!Nested
  <2> QED
    BY <2>1, <2>2
<1>3. CASE \E name \in {"work", "api"} : row \in L!CommandRows(name) \cup L!HelpFlagRow
  <2>1. L!ParseArgs(line) = row[2] /\ row[2] # <<"control">> /\ ~L!Checked(row[2])
    BY <1>3, CommandRowParses, RowUnchecked
  <2> QED
    BY <2>1, Zenon DEF L!Outcome
<1>4. \/ row \in L!ControlRows(parent)
      \/ \E name \in {"work", "api"} : row \in L!CommandRows(name) \cup L!HelpFlagRow
  <2>1. \/ row \in UNION {L!CommandRows(name) : name \in {"work", "api"}}
        \/ row \in L!HelpFlagRow \/ row \in L!ControlRows(parent)
    BY Zenon DEF L!Documented
  <2>2. "work" \in {"work", "api"}
    OBVIOUS
  <2> QED
    BY <2>1, <2>2
<1> QED
  BY <1>2, <1>3, <1>4

-----------------------------------------------------------------------------
(* Any line                                                                *)

LEMMA WordJoined ==
  ASSUME NEW S, NEW rest \in Seq(S), NEW k
  PROVE  (<<k>> \o rest)[1] = k /\ Len(<<k>> \o rest) = Len(rest) + 1
<1> DEFINE Q == S \cup {k}
<1>1. <<k>> \in Seq(Q) /\ rest \in Seq(Q) /\ Len(<<k>>) = 1 /\ <<k>>[1] = k
  OBVIOUS
<1> QED
  BY <1>1

LEMMA Sized ==
  ASSUME NEW S, NEW rest \in Seq(S)
  PROVE  rest = <<>> \/ Len(rest) = 1 \/ Len(rest) > 1
<1>1. Len(rest) \in Nat /\ (Len(rest) = 0 => rest = <<>>)
  OBVIOUS
<1>2. \A n \in Nat : n = 0 \/ n = 1 \/ n > 1
  OBVIOUS
<1> QED
  BY <1>1, <1>2, Zenon

\* What is a control command, and what names the session that is attached or stopped.
LEMMA RoutedHead ==
  ASSUME NEW S, NEW rest \in Seq(S), NEW first, NEW r, r = L!Routed(first, rest)
  PROVE  /\ r[1] # "control"
         /\ r[1] \in {"attach", "stop"} => Len(rest) = 2 /\ rest[1] = "-t" /\ r[2] = rest[2]
<1> DEFINE Good(q) == /\ q[1] # "control"
                      /\ q[1] \in {"attach", "stop"} => Len(rest) = 2 /\ rest[1] = "-t" /\ q[2] = rest[2]
<1>1. ASSUME NEW k \in {"usage", "ls", "bridge"} PROVE Good(<<k>>)
  BY <1>1
<1>2. ASSUME NEW k \in {"server", "run", "bridge", "update"}, NEW x PROVE Good(<<k, x>>)
  BY <1>2
<1>3. Good(L!ServerOf(rest))
  <2>1. rest = <<>> \/ Len(rest) = 1 \/ Len(rest) > 1
    BY Sized
  <2> HIDE DEF Good
  <2> QED
    BY <2>1, <1>1, <1>2, ServerIs
<1>4. Good(L!BridgeOf(rest))
  <2>1. rest = <<>> \/ Len(rest) = 1 \/ Len(rest) > 1
    BY Sized
  <2> HIDE DEF Good
  <2> QED
    BY <2>1, <1>1, <1>2, BridgeIs
<1>5. Good(L!UpdateFlags(L!ToSet(rest)))
  <2> HIDE DEF Good
  <2> QED
    BY <1>1, <1>2, UpdateIs
<1>6. Good(L!Ssh(rest))
  <2>1. CASE L!Ssh(rest) = <<"usage">>
    BY <2>1
  <2>2. CASE L!Ssh(rest) = <<"ssh">> \o rest
    BY <2>2, WordJoined
  <2> QED
    BY <2>1, <2>2 DEF L!Ssh
<1>7. Good(L!Flagged(rest, "-s", "run"))
  <2> HIDE DEF Good
  <2> QED
    BY <1>1, <1>2 DEF L!Flagged
<1>8. ASSUME NEW k \in {"attach", "stop"} PROVE Good(L!Flagged(rest, "-t", k))
  <2>1. CASE L!Flagged(rest, "-t", k) = <<"usage">>
    BY <2>1
  <2>2. CASE Len(rest) = 2 /\ rest[1] = "-t" /\ L!Flagged(rest, "-t", k) = <<k, rest[2]>>
    BY <2>2
  <2> QED
    BY <2>1, <2>2 DEF L!Flagged
<1> SUFFICES Good(r)
  OBVIOUS
<1> HIDE DEF Good
<1>9. CASE first \in {"server", "ls", "new"}
  BY <1>9, <1>1, <1>3, <1>7, RoutedIs
<1>10. CASE first \in {"attach", "a", "stop"}
  BY <1>10, <1>8, RoutedIs
<1>11. CASE first \in {"ssh", "bridge", "update", "version"}
  BY <1>11, <1>1, <1>4, <1>5, <1>6, RoutedIs
<1>12. CASE first \notin {"server", "ls", "new", "attach", "a", "stop", "ssh", "bridge", "update", "version"}
  BY <1>12, <1>1, <1>2, RoutedIs
<1> QED
  BY <1>9, <1>10, <1>11, <1>12

\* The outcome of a line that is no control command.
LEMMA OutcomeIs ==
  ASSUME NEW words, NEW inside, NEW p, p = L!ParseArgs(words), p[1] # "control"
  PROVE  L!Outcome(words, inside) \in {p, <<"nested">>, <<"invalid">>}
<1>1. <<"control">>[1] = "control"
  OBVIOUS
<1>2. p # <<"control">>
  BY <1>1
<1> QED
  BY <1>2 DEF L!Outcome

\* The outcome of one that is.
LEMMA OutcomeControls ==
  ASSUME NEW words, NEW inside, ~Asks(words), ~Versions(words), Names(words),
         NEW s, s = L!StripSession(words, inside)
  PROVE  \/ L!Outcome(words, inside) \in {<<"usage">>, <<"invalid">>}
         \/ /\ L!Outcome(words, inside) = <<"control", s.session>> \o s.rest
            /\ L!ParseCommand(s.rest) = s.rest /\ s.rest # <<"usage">>
<1>1. L!Outcome(words, inside) = L!Control(words, inside)
  BY ParsedControl DEF L!Outcome
<1>2. L!ParseCommand(s.rest) \in {s.rest, <<"usage">>}
  BY Zenon DEF L!ParseCommand
<1> QED
  BY <1>1, <1>2 DEF L!Control

\* What a line comes to that is no control command.
LEMMA ParsedOther ==
  ASSUME NEW S, NEW words \in Seq(S), ~(~Asks(words) /\ ~Versions(words) /\ Names(words)),
         NEW p, p = L!ParseArgs(words)
  PROVE  /\ p[1] # "control"
         /\ p[1] \in {"attach", "stop"} => /\ Len(words) = 3 /\ words[2] = "-t" /\ p[2] = words[3]
                                          /\ Head(words) \notin DOMAIN L!At
<1>1. CASE Asks(words)
  BY <1>1, ParsedHelp
<1>2. CASE ~Asks(words) /\ Versions(words)
  BY <1>2, ParsedVersion
<1>3. CASE ~Asks(words) /\ ~Versions(words) /\ words = <<>>
  BY <1>3, ParsedNothing
<1>4. CASE ~Asks(words) /\ ~Versions(words) /\ words # <<>> /\ ~Names(words)
  <2> DEFINE rest == Tail(words)
  <2>1. rest \in Seq(S) /\ Len(words) = Len(rest) + 1 /\ \A i \in 1..Len(rest) : rest[i] = words[i + 1]
    BY <1>4
  <2>2. p = L!Routed(Head(words), rest)
    BY <1>4, ParsedCommand
  <2> HIDE DEF rest
  <2>3. /\ p[1] # "control"
        /\ p[1] \in {"attach", "stop"} => Len(rest) = 2 /\ rest[1] = "-t" /\ p[2] = rest[2]
    BY <2>1, <2>2, RoutedHead
  <2>4. Head(words) \notin DOMAIN L!At
    BY <1>4 DEF Names
  <2> QED
    BY <2>1, <2>3, <2>4
<1> QED
  BY <1>1, <1>2, <1>3, <1>4

\* The session and the words that are left of a control line.
LEMMA StripIs ==
  ASSUME NEW S, NEW words \in Seq(S), Names(words), NEW inside,
         NEW s, s = L!StripSession(words, inside), NEW u, u = L!Unselected(words)
  PROVE  /\ u \in Kept(S) /\ u.rest # <<>> /\ s.rest \in Seq(S)
         /\ Head(words) \in DOMAIN L!At => s.session = L!At[Head(words)]
         /\ Head(words) \notin DOMAIN L!At
            => s.session = IF u.chosen # <<>> THEN u.chosen[1]
                           ELSE IF inside # L!NoParent THEN inside ELSE "default"
         /\ Len(s.rest) = IF Head(words) \in DOMAIN L!At THEN Len(u.rest) - 1 ELSE Len(u.rest)
<1>1. words # <<>> /\ words[1] = Head(words)
  BY DEF Names
<1>2. words[1] # "--session"
  BY <1>1, AtIs DEF Names, L!Nouns
<1>3. u \in Kept(S) /\ u.rest # <<>> /\ u.rest[1] = words[1]
  BY <1>1, <1>2, UnselectedIs
<1>4. u.rest \in Seq(S) /\ Head(u.rest) = Head(words)
  BY <1>1, <1>3 DEF Kept
<1>5. Tail(u.rest) \in Seq(S) /\ Len(Tail(u.rest)) = Len(u.rest) - 1
  BY <1>3, <1>4
<1>6. CASE Head(words) \in DOMAIN L!At
  <2>1. s.session = L!At[Head(words)] /\ s.rest = Tail(u.rest)
    BY <1>3, <1>4, <1>6 DEF L!StripSession
  <2> QED
    BY <1>3, <1>5, <1>6, <2>1
<1>7. CASE Head(words) \notin DOMAIN L!At
  <2>1. /\ s.session = IF u.chosen # <<>> THEN u.chosen[1]
                       ELSE IF inside # L!NoParent THEN inside ELSE "default"
        /\ s.rest = u.rest
    BY <1>3, <1>4, <1>7 DEF L!StripSession
  <2> QED
    BY <1>3, <1>4, <1>7, <2>1
<1> QED
  BY <1>6, <1>7

LEMMA ControlJoined ==
  ASSUME NEW S, NEW rest \in Seq(S), NEW x, NEW y
  PROVE  /\ (<<x, y>> \o rest)[1] = x /\ (<<x, y>> \o rest)[2] = y
         /\ Len(<<x, y>> \o rest) = Len(rest) + 2
<1> DEFINE Q == S \cup {x, y}
<1>1. <<x, y>> \in Seq(Q) /\ rest \in Seq(Q) /\ Len(<<x, y>>) = 2 /\ <<x, y>>[1] = x /\ <<x, y>>[2] = y
  OBVIOUS
<1> QED
  BY <1>1

\* A control line that is accepted.
LEMMA ControlIs ==
  ASSUME NEW S, NEW words \in Seq(S), NEW inside, ~Asks(words), ~Versions(words), Names(words),
         NEW c, c = L!Outcome(words, inside), NEW s, s = L!StripSession(words, inside)
  PROVE  \/ c[1] \in {"usage", "invalid"}
         \/ c[1] = "control" /\ c[2] = s.session /\ Len(c) = Len(s.rest) + 2
<1>1. s.rest \in Seq(S)
  BY StripIs
<1>2. c \in {<<"usage">>, <<"invalid">>} \/ c = <<"control", s.session>> \o s.rest
  BY OutcomeControls
<1>3. CASE c \in {<<"usage">>, <<"invalid">>}
  BY <1>3
<1>4. CASE c = <<"control", s.session>> \o s.rest
  BY <1>1, <1>4, ControlJoined
<1> QED
  BY <1>2, <1>3, <1>4

LEMMA ReachesHolds == line \in Seq(STRING) => L!ReachesWhatWasNamed
<1> DEFINE c == L!Outcome(line, parent)
           flag == IF c[1] = "control" THEN "--session" ELSE "-t"
           named == {line[i] : i \in {j \in 2..Len(line) : line[j - 1] = flag}}
<1> SUFFICES ASSUME line \in Seq(STRING), c[1] \in {"control", "attach", "stop"}
             PROVE  IF Head(line) \in DOMAIN L!At THEN c[2] = L!At[Head(line)]
                    ELSE IF named # {} THEN c[2] \in named
                    ELSE /\ c[1] = "control"
                         /\ c[2] = (IF parent = L!NoParent THEN "default" ELSE parent)
  BY DEF L!ReachesWhatWasNamed
<1>1. CASE ~Asks(line) /\ ~Versions(line) /\ Names(line)
  <2> DEFINE s == L!StripSession(line, parent)
             u == L!Unselected(line)
  <2> HIDE DEF s, u
  <2>1. c[1] = "control" /\ c[2] = s.session
    <3> HIDE DEF c
    <3>1. c = L!Outcome(line, parent)
      BY DEF c
    <3>2. \/ c[1] \in {"usage", "invalid"}
          \/ c[1] = "control" /\ c[2] = s.session /\ Len(c) = Len(s.rest) + 2
      BY <1>1, <3>1, ControlIs DEF s
    <3> QED
      BY <3>2
  <2>2. /\ Head(line) \in DOMAIN L!At => s.session = L!At[Head(line)]
        /\ Head(line) \notin DOMAIN L!At
           => s.session = IF u.chosen # <<>> THEN u.chosen[1]
                          ELSE IF parent # L!NoParent THEN parent ELSE "default"
    BY <1>1, StripIs DEF s, u
  <2>3. /\ Chosen(line, u)
        /\ u.chosen = <<>> => \A j \in 1..Len(line) : j < Len(line) => line[j] # "--session"
    BY UnselectedIs DEF u
  <2>4. named = {line[i] : i \in {j \in 2..Len(line) : line[j - 1] = "--session"}}
    BY <2>1
  <2> HIDE DEF c, named
  <2>5. CASE u.chosen = <<>>
    <3>1. named = {}
      <4>1. \A j \in 2..Len(line) : j - 1 \in 1..Len(line) /\ j - 1 < Len(line)
        OBVIOUS
      <4> QED
        BY <2>3, <2>4, <2>5, <4>1
    <3> QED
      BY <2>1, <2>2, <2>5, <3>1
  <2>6. CASE u.chosen # <<>>
    <3>1. PICK j \in 2..Len(line) : u.chosen = <<line[j]>> /\ line[j - 1] = "--session"
      BY <2>3, <2>6 DEF Chosen
    <3>2. line[j] \in named
      BY <2>4, <3>1
    <3>3. u.chosen[1] = line[j]
      BY <3>1
    <3> QED
      BY <2>1, <2>2, <2>6, <3>2, <3>3
  <2> QED
    BY <2>5, <2>6
<1>2. CASE ~(~Asks(line) /\ ~Versions(line) /\ Names(line))
  <2> DEFINE p == L!ParseArgs(line)
  <2> HIDE DEF p
  <2>1. /\ p[1] # "control"
        /\ p[1] \in {"attach", "stop"} => /\ Len(line) = 3 /\ line[2] = "-t" /\ p[2] = line[3]
                                          /\ Head(line) \notin DOMAIN L!At
    BY <1>2, ParsedOther DEF p
  <2>2. c \in {p, <<"nested">>, <<"invalid">>}
    BY <2>1, OutcomeIs DEF p
  <2>3. <<"nested">>[1] = "nested" /\ <<"invalid">>[1] = "invalid"
    OBVIOUS
  <2>4. c = p
    <3> HIDE DEF c
    <3> QED
      BY <2>2, <2>3
  <2>5. p[1] \in {"attach", "stop"}
    <3> HIDE DEF c
    <3> QED
      BY <2>1, <2>4
  <2>6. named = {line[i] : i \in {j \in 2..Len(line) : line[j - 1] = "-t"}}
    <3>1. flag = "-t"
      BY <2>1, <2>4
    <3> QED
      BY <3>1
  <2> HIDE DEF c, named
  <2>7. line[3] \in named
    <3>1. 3 \in 2..Len(line) /\ line[3 - 1] = "-t"
      BY <2>1, <2>5
    <3> QED
      BY <2>6, <3>1
  <2> QED
    BY <2>1, <2>4, <2>5, <2>7
<1> QED
  BY <1>1, <1>2

\* A word more behind a command is not ignored.
LEMMA RoutedMore ==
  ASSUME NEW S, NEW rest \in Seq(S), NEW w \in S, w # "default", NEW first,
         NEW r, r = L!Routed(first, rest), r[1] \notin {"usage", "update"}
  PROVE  L!Routed(first, Append(rest, w)) # r
<1> DEFINE more == Append(rest, w)
           q == L!Routed(first, more)
<1>1. more \in Seq(S) /\ Len(more) = Len(rest) + 1 /\ more # <<>> /\ Len(rest) \in Nat
  OBVIOUS
<1>2. rest = <<>> => Len(more) = 1 /\ more[1] = w
  OBVIOUS
<1>3. rest # <<>> => Len(rest) > 0 /\ Len(more) > 1
  <2>1. Len(rest) = 0 => rest = <<>>
    OBVIOUS
  <2> HIDE DEF more
  <2> QED
    BY <1>1, <2>1
<1> HIDE DEF more
<1>4. <<"usage">>[1] = "usage"
  OBVIOUS
<1>5. q = <<"usage">> => q # r
  BY <1>4
<1>6. r # <<"usage">>
  BY <1>4
<1> SUFFICES q # r
  BY DEF more
<1>7. CASE first = "server"
  <2>1. r = L!ServerOf(rest) /\ q = L!ServerOf(more)
    BY <1>7, RoutedIs
  <2> HIDE DEF q
  <2>2. CASE rest = <<>>
    <3>1. r = <<"server", "default">> /\ q = <<"server", w>>
      BY <1>1, <1>2, <2>1, <2>2, ServerIs
    <3> QED
      BY <3>1
  <2>3. CASE rest # <<>>
    BY <1>1, <1>3, <1>5, <2>1, <2>3, ServerIs
  <2> QED
    BY <2>2, <2>3
<1>8. CASE first = "ls"
  BY <1>1, <1>5, <1>8, RoutedIs
<1>9. CASE first \in {"new", "attach", "a", "stop"}
  <2>1. PICK f, k : r = L!Flagged(rest, f, k) /\ q = L!Flagged(more, f, k)
    BY <1>9, RoutedIs
  <2> HIDE DEF q
  <2>2. Len(rest) = 2
    BY <1>6, <2>1 DEF L!Flagged
  <2>3. q = <<"usage">>
    BY <1>1, <2>1, <2>2 DEF L!Flagged
  <2> QED
    BY <1>5, <2>3
<1>10. CASE first = "ssh"
  <2>1. r = L!Ssh(rest) /\ q = L!Ssh(more)
    BY <1>10, RoutedIs
  <2> HIDE DEF q
  <2>2. r = <<"ssh">> \o rest
    BY <1>6, <2>1 DEF L!Ssh
  <2>3. q = <<"usage">> \/ q = <<"ssh">> \o more
    BY <2>1 DEF L!Ssh
  <2>4. Len(r) = Len(rest) + 1 /\ Len(<<"ssh">> \o more) = Len(more) + 1
    BY <1>1, <2>2, WordJoined
  <2>5. q = <<"ssh">> \o more => Len(q) # Len(r)
    BY <1>1, <2>4
  <2> QED
    BY <1>5, <2>3, <2>5
<1>11. CASE first = "bridge"
  <2>1. r = L!BridgeOf(rest) /\ q = L!BridgeOf(more)
    BY <1>11, RoutedIs
  <2> HIDE DEF q
  <2>2. CASE rest = <<>>
    <3>1. PICK x : r = <<"bridge">> /\ q = <<"bridge", x>>
      BY <1>1, <1>2, <2>1, <2>2, BridgeIs
    <3>2. Len(<<"bridge">>) # Len(<<"bridge", x>>)
      OBVIOUS
    <3> QED
      BY <3>1, <3>2
  <2>3. CASE rest # <<>>
    BY <1>1, <1>3, <1>5, <2>1, <2>3, BridgeIs
  <2> QED
    BY <2>2, <2>3
<1>12. CASE first = "update"
  <2>1. r = L!UpdateFlags(L!ToSet(rest))
    BY <1>12, RoutedIs
  <2>2. r[1] \in {"usage", "update"}
    BY <2>1, UpdateIs
  <2> QED
    BY <2>2
<1>13. CASE first = "version"
  BY <1>6, <1>13, RoutedIs
<1>14. CASE first \notin {"server", "ls", "new", "attach", "a", "stop", "ssh", "bridge", "update", "version"}
  BY <1>1, <1>5, <1>14, RoutedIs
<1> QED
  BY <1>7, <1>8, <1>9, <1>10, <1>11, <1>12, <1>13, <1>14

\* What opens the default session when nothing is said does not when something is.
LEMMA RoutedAlone ==
  ASSUME NEW w, w # "default", NEW q, q = L!Routed(w, <<>>)
  PROVE  q # <<"run", "default">>
<1> DEFINE d == <<"run", "default">>
<1>1. d[1] = "run" /\ d[2] = "default" /\ Len(d) = 2
  OBVIOUS
<1> HIDE DEF d
<1>2. \A k \in {"usage", "ls", "bridge", "server", "update", "ssh"} : <<k>> # d
  BY <1>1
<1>3. \A k \in {"server", "update"} : \A x : <<k, x>> # d
  BY <1>1
<1>4. <<>> \in Seq({w}) /\ ~(Len(<<>>) \in 1..2) /\ Len(<<>>) # 2
  OBVIOUS
<1>5. CASE w \in {"server", "bridge", "update", "ls", "version"}
  <2>1. /\ L!ServerOf(<<>>) = <<"server", "default">> /\ L!BridgeOf(<<>>) = <<"bridge">>
        /\ L!UpdateFlags(L!ToSet(<<>>)) # d
    BY <1>2, <1>3, <1>4, ServerIs, BridgeIs, UpdateIs
  <2> QED
    BY <1>2, <1>3, <1>5, <2>1, RoutedIs DEF d
<1>6. CASE w \in {"new", "attach", "a", "stop", "ssh"}
  <2>1. L!Ssh(<<>>) = <<"usage">> /\ \A f, k : L!Flagged(<<>>, f, k) = <<"usage">>
    BY <1>4 DEF L!Ssh, L!Flagged
  <2> QED
    BY <1>2, <1>6, <2>1, RoutedIs DEF d
<1>7. CASE w \notin {"server", "ls", "new", "attach", "a", "stop", "ssh", "bridge", "update", "version"}
  <2>1. q = <<"run", w>>
    BY <1>7, RoutedIs
  <2>2. <<"run", w>>[2] # d[2]
    BY <1>1
  <2> QED
    BY <2>1, <2>2 DEF d
<1> QED
  BY <1>5, <1>6, <1>7

\* Asking for help or the version is another outcome than any that counts its words.
LEMMA AskedIs ==
  ASSUME NEW words, NEW inside, Asks(words) \/ Versions(words)
  PROVE  L!Outcome(words, inside)[1] \in {"help", "version", "nested", "invalid"}
<1> DEFINE p == L!ParseArgs(words)
<1>1. p = <<"help">> \/ p = <<"version">>
  BY ParsedHelp, ParsedVersion
<1> HIDE DEF p
<1>2. p[1] \in {"help", "version"}
  BY <1>1
<1>3. L!Outcome(words, inside) \in {p, <<"nested">>, <<"invalid">>}
  BY <1>2, OutcomeIs DEF p
<1> QED
  BY <1>2, <1>3

LEMMA NothingIgnoredHolds == line \in Seq(STRING) => L!NothingIgnored
<1> DEFINE c == L!Outcome(line, parent)
<1> SUFFICES ASSUME line \in Seq(STRING), ~L!Insensitive(c),
                    NEW w \in Vocabulary \ {"default"}
             PROVE  L!Outcome(Append(line, w), parent) # c
  BY DEF L!NothingIgnored
<1> DEFINE more == Append(line, w)
           d == L!Outcome(more, parent)
<1>1. w \in STRING /\ w # "default"
  BY LinesAssumption DEF L!LinesTyped
<1>2. c[1] \notin {"help", "version", "update", "usage", "invalid", "nested"}
  BY DEF L!Insensitive
<1>3. /\ more \in Seq(STRING) /\ more # <<>>
      /\ line # <<>> => Head(more) = Head(line) /\ Tail(more) = Append(Tail(line), w)
      /\ line = <<>> => Head(more) = w /\ Tail(more) = <<>>
  <2>1. more \in Seq(STRING) /\ more # <<>>
    BY <1>1
  <2>2. line # <<>> => Head(more) = Head(line) /\ Tail(more) = Append(Tail(line), w)
    BY <1>1
  <2>3. line = <<>> => Head(more) = w /\ Tail(more) = <<>>
    BY <1>1
  <2> QED
    BY <2>1, <2>2, <2>3
<1> SUFFICES d # c
  OBVIOUS
<1>4. CASE Asks(more) \/ Versions(more)
  <2>1. d[1] \in {"help", "version", "nested", "invalid"}
    BY <1>4, AskedIs
  <2> HIDE DEF c, d
  <2> QED
    BY <1>2, <2>1
<1>5. CASE ~Asks(line) /\ ~Versions(line) /\ Names(line) /\ ~Asks(more) /\ ~Versions(more)
  <2> DEFINE s == L!StripSession(line, parent)
             t == L!StripSession(more, parent)
             u == L!Unselected(line)
             v == L!Unselected(more)
  <2>1. line # <<>> /\ Names(more) /\ Head(more) = Head(line) /\ line[1] = Head(line)
    BY <1>3, <1>5 DEF Names
  <2>2. c[1] = "control" /\ Len(c) = Len(s.rest) + 2
    <3> HIDE DEF s, c
    <3>1. \/ c[1] \in {"usage", "invalid"}
          \/ c[1] = "control" /\ c[2] = s.session /\ Len(c) = Len(s.rest) + 2
      BY <1>5, ControlIs DEF s, c
    <3> QED
      BY <1>2, <3>1
  <2>3. d[1] \in {"usage", "invalid"} \/ Len(d) = Len(t.rest) + 2
    <3> HIDE DEF t, d, more
    <3> QED
      BY <1>3, <1>5, <2>1, ControlIs DEF t, d
  <2>4. /\ Len(s.rest) = IF Head(line) \in DOMAIN L!At THEN Len(u.rest) - 1 ELSE Len(u.rest)
        /\ u \in Kept(STRING)
    <3> HIDE DEF s, u
    <3> QED
      BY <1>5, StripIs DEF s, u
  <2>5. /\ Len(t.rest) = IF Head(line) \in DOMAIN L!At THEN Len(v.rest) - 1 ELSE Len(v.rest)
        /\ v \in Kept(STRING)
    <3> HIDE DEF t, v, more
    <3>1. /\ Len(t.rest) = IF Head(more) \in DOMAIN L!At THEN Len(v.rest) - 1 ELSE Len(v.rest)
          /\ v \in Kept(STRING)
      BY <1>3, <2>1, StripIs DEF t, v
    <3> QED
      BY <2>1, <3>1
  <2>6. Adds(u, v, w) \/ Chooses(u, v, w)
    <3> HIDE DEF u, v
    <3> QED
      BY <1>1, UnselectedMore DEF u, v
  <2> HIDE DEF s, t, u, v, c, d, more
  <2>7. Len(u.rest) \in Nat /\ Len(v.rest) \in Nat /\ Len(u.rest) # Len(v.rest)
    <3>1. u.rest \in Seq(STRING) /\ v.rest \in Seq(STRING)
      BY <2>4, <2>5 DEF Kept
    <3>2. CASE v.rest = Append(u.rest, w)
      BY <3>1, <3>2, <1>1
    <3>3. CASE u.rest = Append(v.rest, "--session")
      BY <3>1, <3>3
    <3> QED
      BY <2>6, <3>2, <3>3 DEF Adds, Chooses
  <2>8. Len(s.rest) # Len(t.rest) /\ Len(s.rest) \in Int /\ Len(t.rest) \in Int
    BY <2>4, <2>5, <2>7
  <2> QED
    BY <1>2, <2>2, <2>3, <2>8
<1>6. CASE ~(~Asks(line) /\ ~Versions(line) /\ Names(line)) /\ ~Asks(more) /\ ~Versions(more)
  <2> DEFINE p == L!ParseArgs(line)
             q == L!ParseArgs(more)
  <2>1. c = p
    <3> HIDE DEF p
    <3>1. p[1] # "control"
      BY <1>6, ParsedOther DEF p
    <3>2. c \in {p, <<"nested">>, <<"invalid">>}
      BY <3>1, OutcomeIs DEF p
    <3>3. <<"nested">>[1] = "nested" /\ <<"invalid">>[1] = "invalid"
      OBVIOUS
    <3> HIDE DEF c
    <3> QED
      BY <1>2, <3>2, <3>3
  <2>2. ~Asks(line) /\ ~Versions(line)
    <3>1. Asks(line) => p[1] = "help"
      BY ParsedHelp
    <3>2. ~Asks(line) /\ Versions(line) => p[1] = "version"
      BY ParsedVersion
    <3> HIDE DEF c, p
    <3> QED
      BY <1>2, <2>1, <3>1, <3>2
  <2>3. CASE line = <<>>
    <3>1. c = <<"run", "default">>
      BY <2>1, <2>2, <2>3, ParsedNothing
    <3>2. c[1] = "run"
      BY <3>1
    <3>3. CASE Names(more)
      <4> DEFINE t == L!StripSession(more, parent)
      <4>1. d[1] \in {"usage", "invalid", "control"}
        <5> HIDE DEF t, d, more
        <5> QED
          BY <1>3, <1>6, <3>3, ControlIs DEF t, d
      <4> HIDE DEF c, d
      <4> QED
        BY <3>2, <4>1
    <3>4. CASE ~Names(more)
      <4>1. q = L!Routed(w, <<>>)
        <5> HIDE DEF more
        <5> QED
          BY <1>3, <1>6, <2>3, <3>4, ParsedCommand
      <4>2. q # c
        BY <1>1, <3>1, <4>1, RoutedAlone
      <4>3. q[1] # "control"
        <5> HIDE DEF more
        <5> QED
          BY <1>3, <3>4, ParsedOther
      <4>4. d \in {q, <<"nested">>, <<"invalid">>}
        <5> HIDE DEF q
        <5> QED
          BY <4>3, OutcomeIs DEF q
      <4>5. <<"nested">>[1] = "nested" /\ <<"invalid">>[1] = "invalid"
        OBVIOUS
      <4> HIDE DEF c, d, q
      <4> QED
        BY <3>2, <4>2, <4>4, <4>5
    <3> QED
      BY <3>3, <3>4
  <2>4. CASE line # <<>>
    <3>1. ~Names(line) /\ ~Names(more)
      BY <1>3, <1>6, <2>2, <2>4 DEF Names
    <3>2. p = L!Routed(Head(line), Tail(line)) /\ Tail(line) \in Seq(STRING)
      BY <2>2, <2>4, <3>1, ParsedCommand
    <3>3. q = L!Routed(Head(line), Append(Tail(line), w))
      <4>1. q = L!Routed(Head(more), Tail(more))
        <5> HIDE DEF more
        <5> QED
          BY <1>3, <1>6, <3>1, ParsedCommand
      <4> QED
        BY <1>3, <2>4, <4>1
    <3>4. q # p
      <4> HIDE DEF q, p, c
      <4> QED
        BY <1>1, <1>2, <2>1, <3>2, <3>3, RoutedMore
    <3>5. q[1] # "control"
      <4> HIDE DEF more
      <4> QED
        BY <1>3, <3>1, ParsedOther
    <3>6. d \in {q, <<"nested">>, <<"invalid">>}
      <4> HIDE DEF q
      <4> QED
        BY <3>5, OutcomeIs DEF q
    <3>7. <<"nested">>[1] = "nested" /\ <<"invalid">>[1] = "invalid"
      OBVIOUS
    <3> HIDE DEF c, d, p, q
    <3> QED
      BY <1>2, <2>1, <3>4, <3>6, <3>7
  <2> QED
    BY <2>3, <2>4
<1> HIDE DEF c, d, more
<1> QED
  BY <1>4, <1>5, <1>6

\* What is said to a daemon, whatever the files and the lines are.
SaidInv == /\ part = "config" => config \in [Fields -> Specs]
           /\ part = "cli" => line \in Seq(STRING) /\ parent \in Parents

\* HelpIsTrue (help::build_view and Config::load; main.rs parse_args and control::run): for all
\* the configuration files there may be, the rows of the help name the keys that the parser
\* takes for those commands; and for all the command lines and values of $DVLPR, a documented
\* line does what is written of it, a word too many is never ignored (but in what help, the
\* version and an update are asked for with), and a command reaches
\* the session that is named.
THEOREM HelpIsTrueHolds == SumSpec => []HelpIsTrue
<1>1. SumInit => SaidInv
  <2> SUFFICES ASSUME SumInit PROVE SaidInv
    OBVIOUS
  <2>1. part = "config" => config \in [Fields -> Specs]
    BY ConfigTyped DEF SumInit
  <2>2. part = "cli" => line \in Seq(STRING) /\ parent \in Parents
    BY LinesAssumption DEF SumInit, L!Init, L!LinesTyped
  <2> QED
    BY <2>1, <2>2 DEF SaidInv
<1>2. SaidInv /\ [SumNext]_SumVars => SaidInv'
  <2>1. SaidInv /\ UNCHANGED <<part, saidVars>> => SaidInv'
    BY DEF SaidInv, saidVars
  <2>2. [SumNext]_SumVars => UNCHANGED <<part, saidVars>>
    BY DEF SumNext, SumVars
  <2> QED
    BY <2>1, <2>2
<1>3. SaidInv => HelpIsTrue
  <2>1. SaidInv /\ part = "config" => C!HelpIsTrue
    BY HelpHolds DEF SaidInv
  <2>2. SaidInv /\ part = "cli" => L!CliIsTrue
    BY AsDocumentedHolds, NothingIgnoredHolds, ReachesHolds DEF SaidInv, L!CliIsTrue
  <2> QED
    BY <2>1, <2>2 DEF HelpIsTrue
<1> QED
  BY <1>1, <1>2, <1>3, PTL DEF SumSpec
=============================================================================
