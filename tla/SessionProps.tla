---------------------------- MODULE SessionProps ----------------------------
(***************************************************************************)
(* What is asked of module Session: invariants, action properties, and the *)
(* refinement of Tabs.                                                     *)
(***************************************************************************)
EXTENDS Session

RectType == [content : [rows : Nat, sidebar : BOOLEAN],
             cuts    : Seq(Ratios \X {First, Second})]

MenuType == {NoMenu} \cup [kind : {"pane"}, pane : PaneId, row : Nat]
                     \cup [kind : {"tab"}, window : Nat, row : Nat]
DialogType == {NoDialog, [mode |-> "new"]}
              \cup [mode : {"rename"}, window : Nat]

\* Every variable has its type (the fields of struct Session, session.rs).
TypeOK ==
  /\ windows \in Seq([id : PaneId, tree : {windows[i].tree : i \in DOMAIN windows},
                      focused : PaneId, zoomed : BOOLEAN, pinned : BOOLEAN])
  /\ \A i \in DOMAIN windows :
       IsTree(windows[i].tree) /\ PanesOf(windows[i]) \subseteq PaneId
  /\ active \in Nat \ {0}
  /\ DOMAIN panes \subseteq PaneId
  /\ \A p \in DOMAIN panes : panes[p] \in RectType
  /\ nextPane \in 1..MaxPanes + 1
  /\ rows \in Rows /\ sidebar \in BOOLEAN
  /\ menu \in MenuType /\ help \in BOOLEAN /\ dialog \in DialogType
  /\ copy \in PaneId \cup {NoPane}
  /\ dirty \in BOOLEAN
  /\ drag \in [Clients -> [window : Nat, path : Path, target : Nat]]
  /\ press \in [Clients -> PaneId \cup {NoPane}]

-----------------------------------------------------------------------------
(* Invariants                                                              *)

\* The pane map and the trees hold the same panes, each in one window only:
\* no PTY without a place on screen and no leaf without a PTY.  Ids are never
\* used again, so that late output of a dead pane finds no other (feed).
PanesPlaced ==
  /\ DOMAIN panes = Placed(windows)
  /\ \A p \in DOMAIN panes : p < nextPane
  /\ \A i, j \in DOMAIN windows :
        i # j => PanesOf(windows[i]) \cap PanesOf(windows[j]) = {}

\* The active position is a window (while there is one) and the pane with the
\* focus is a leaf of its window, so that compose and input never index past.
FocusInWindow ==
  /\ Running => active \in DOMAIN windows
  /\ \A i \in DOMAIN windows : windows[i].focused \in PanesOf(windows[i])

\* Every window is a full binary tree over its panes.
TreesWellFormed == \A i \in DOMAIN windows : WellFormedTree(windows[i].tree)

\* "Only the active window is ever zoomed" (relayout_all).
ZoomOnlyActive == \A i \in DOMAIN windows : windows[i].zoomed => i = active

\* At most one of menu, help and dialog is open: one keyboard, one modal.  (Copy mode
\* is not among them, whatever the field copy_mode says: entering it closes the others,
\* but help and dialogs of another client open over it.)
OneOverlay ==
  /\ help => menu = NoMenu /\ dialog = NoDialog
  /\ menu # NoMenu => dialog = NoDialog

\* Copy mode never outlives its pane.
CopyPaneLive == copy # NoPane => copy \in DOMAIN panes

\* An open pane menu belongs to a pane of the window in front.
MenuPaneShown ==
  menu.kind = "pane" => Running /\ menu.pane \in PanesOf(windows[active])

\* Whatever opens, closes, dies or is split, every pane has its one place, every
\* window its tree and its focus, and every index its window (session.rs,
\* "windows", "panes", "active_window" of struct Session).
WellPlaced == TypeOK /\ PanesPlaced /\ FocusInWindow /\ TreesWellFormed

\* Zoom, overlays and copy mode keep to themselves and to what is there: they
\* are opened and closed from the keyboard, the mouse, control commands and by
\* dying panes, each of which has to think of the others.
ModesConsistent == ZoomOnlyActive /\ OneOverlay /\ CopyPaneLive /\ MenuPaneShown

-----------------------------------------------------------------------------
(* Action properties                                                       *)

Trees == [i \in DOMAIN windows |-> windows[i].tree]

\* Is every pane on screen as big as the rectangle it is drawn in?
DrawnAsSized ==
  \A p \in Visible : panes[p] = DrawnRect(active, p)

\* A step that changes a tree or the viewport leaves every visible PTY with
\* the size it is drawn at, whatever was stale before ("called after any
\* structural change and on viewport resize", relayout_all).
ChangesAreLaidOut ==
  [][Trees' # Trees \/ viewVars' # viewVars => DrawnAsSized']_vars

Restorable ==
  <<[i \in DOMAIN windows |->
       [tree |-> windows[i].tree, focused |-> windows[i].focused,
        zoomed |-> windows[i].zoomed, pinned |-> windows[i].pinned]],
    active, sidebar>>

\* No change of what a snapshot holds goes unnoticed by the snapshot cadence.
ChangesAreSnapshotted == [][Restorable' # Restorable => dirty']_vars

Window(id) == windows[CHOOSE i \in DOMAIN windows : windows[i].id = id]

\* "A pane dying in a background window must NOT disturb the active view":
\* the same window stays in front, with its focus and its zoom.
BackgroundExitIsQuiet ==
  [][\A p \in DOMAIN panes :
       p \notin DOMAIN panes' /\ p \notin PanesOf(windows[active])
       => /\ windows'[active'].id = windows[active].id
          /\ windows'[active'].focused = windows[active].focused
          /\ windows'[active'].zoomed = windows[active].zoomed]_vars

\* The window vector and its index behave as the tab bar of module Tabs.
TabBar == INSTANCE Tabs WITH
            WindowId <- PaneId,
            NoWindow <- NoPane,
            order    <- [i \in DOMAIN windows |-> windows[i].id],
            front    <- IF Running THEN windows[active].id ELSE NoPane
ShowsTabs == TabBar!Spec

-----------------------------------------------------------------------------
(* A promise of a comment that the code breaks                             *)

\* "Operates on the explicit `window` the drag started in" (resize_divider).
\* It is kept as a position, which is another window's once one to its left
\* has closed.
DragKeepsItsWindow ==
  [][\A c \in Clients, r \in Ratios : DragDivider(c, r)
       => windows[drag[c].window].id = drag[c].target]_vars
=============================================================================
