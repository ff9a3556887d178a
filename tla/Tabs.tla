-------------------------------- MODULE Tabs --------------------------------
(***************************************************************************)
(* What the tab bar promises a user: a list of windows in the order they   *)
(* were opened, and one of them in front.  The window in front is named by *)
(* its identity, not by its position, so nothing here can slide under it.  *)
(* Session implements this with a vector and an index (session.rs          *)
(* `windows`, `active_window`).                                            *)
(***************************************************************************)
EXTENDS Integers, Sequences, SequencesExt

CONSTANT WindowId   \* the identities a window may have
CONSTANT NoWindow   \* in front of an empty bar

VARIABLES order,    \* the open windows, in tab order
          front     \* the one shown

tvars == <<order, front>>

Init == \E w \in WindowId : order = <<w>> /\ front = w

\* A new window goes last and comes to the front.
Open(w) == /\ w \notin ToSet(order)
           /\ order' = Append(order, w)
           /\ front' = w

\* Another window comes to the front; the bar does not change.
Switch(w) == /\ w \in ToSet(order)
             /\ front' = w
             /\ UNCHANGED order

\* A window goes away.  The one in front stays there, unless it is the one
\* that went: then the next on its right comes up, or the last of the bar.
Close(i) ==
  /\ order' = RemoveAt(order, i)
  /\ front' = IF front # order[i] THEN front
              ELSE IF i < Len(order) THEN order[i + 1]
              ELSE IF i > 1 THEN order[i - 1]
              ELSE NoWindow

Next == \/ \E w \in WindowId : Open(w) \/ Switch(w)
        \/ \E i \in DOMAIN order : Close(i)

Spec == Init /\ [][Next]_tvars
=============================================================================
