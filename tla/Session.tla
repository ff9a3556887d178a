------------------------------ MODULE Session ------------------------------
(***************************************************************************)
(* The layout authority of the daemon (src/session.rs, struct Session):    *)
(* windows and their split trees, the pane map, the geometry given to each *)
(* pane's PTY, the modal overlays (context menu, help, window-name dialog),*)
(* copy mode, and the divider and selection drags that the server keeps    *)
(* for each client.  The server's loop calls it from one task, so every    *)
(* call is one atomic step; what interleaves are the calls: keystrokes and *)
(* mouse events of several clients, control commands, pane exits, resizes. *)
(*                                                                         *)
(* Window positions count from 1.  Pane contents, names and key bindings   *)
(* are left out.  `id` in a window and `target` in a drag are auxiliary: *)
(* no action's guard or code value depends on them; they let properties    *)
(* say which window an index was taken for.                                *)
(***************************************************************************)
EXTENDS Layout, FiniteSets

CONSTANTS Clients,    \* the attached clients
          Rows,       \* viewport heights, at least 2
          MaxPanes    \* bound on panes ever spawned

ASSUME RowsAssumption == Rows # {} /\ Rows \subseteq Nat \ {0, 1}
ASSUME MaxPanesAssumption == MaxPanes \in Nat \ {0}

VARIABLES windows,    \* the window vector
          active,     \* position of the active window
          panes,      \* pane map: pane id -> the rectangle its PTY was given
          nextPane,   \* next_pane_id
          rows,       \* viewport height
          sidebar,    \* sidebar_visible
          menu, help, dialog,
          copy,       \* the pane copy mode is frozen on
          dirty,      \* snapshot_dirty
          drag,       \* each client's divider drag: window position and path
          press       \* each client's pending_copy_press

tabVars   == <<windows, active>>
paneVars  == <<panes, nextPane>>
viewVars  == <<rows, sidebar>>
modalVars == <<menu, help, dialog, copy>>
mouseVars == <<drag, press>>
vars == <<tabVars, paneVars, viewVars, modalVars, dirty, mouseVars>>

NoPane   == 0
NoMenu   == [kind |-> "none"]
NoDialog == [mode |-> "none"]
NoDrag   == [window |-> 0, path |-> <<>>, target |-> 0]

PaneId == 1..MaxPanes

-----------------------------------------------------------------------------
(* Reading the state                                                       *)

Running == windows # <<>>
Focused == IF active \in DOMAIN windows THEN windows[active].focused ELSE NoPane
Zoomed  == active \in DOMAIN windows /\ windows[active].zoomed

PanesOf(w) == AllPanes(w.tree)
Placed(ws) == UNION {PanesOf(ws[i]) : i \in DOMAIN ws}
WindowOf(ws, p) == CHOOSE i \in DOMAIN ws : p \in PanesOf(ws[i])

\* The panes drawn, and hence clickable: a zoomed window hides the siblings.
Visible == IF ~Running THEN {}
           ELSE IF Zoomed THEN {Focused} ELSE PanesOf(windows[active])

Content(r, sb) == [rows |-> r - 1, sidebar |-> sb]

\* The rectangle in which pane p of window i is drawn when that is active.
DrawnRect(i, p) ==
  IF windows[i].zoomed THEN FullRect(Content(rows, sidebar))
                       ELSE PaneRect(windows[i].tree, p, Content(rows, sidebar))

-----------------------------------------------------------------------------
(* Pieces shared by the operations                                         *)

Unzoomed(ws) == IF active \in DOMAIN ws THEN [ws EXCEPT ![active].zoomed = FALSE]
                                        ELSE ws

\* Mutant: a pane of any window that dies unzooms the window in front.
UnzoomedAnyway(ws, i) == Unzoomed(ws)

\* A pane of window i dies: the zoom goes only if that window is in front.
UnzoomedBy(ws, i) == IF i = active THEN Unzoomed(ws) ELSE ws

\* Mutant: the zoom is ignored and every pane is tiled.
RelaidTiled(ws, act, live, r, sb) ==
  [p \in live |-> PaneRect(ws[WindowOf(ws, p)].tree, p, Content(r, sb))]

\* relayout_all over the panes `live`: tiled rectangles everywhere, but in an
\* active zoomed window only the focused pane is resized.
Relaid(ws, act, live, r, sb) ==
  [p \in live |->
     IF p \notin Placed(ws) THEN panes[p]
     ELSE LET i == WindowOf(ws, p)
              c == Content(r, sb)
              hides == i = act /\ ws[i].zoomed
          IN  CASE hides /\ p = ws[i].focused -> FullRect(c)
                [] hides /\ p # ws[i].focused -> panes[p]
                [] OTHER                      -> PaneRect(ws[i].tree, p, c)]

\* Mutant: only the anchor is looked at.
ReconciledByAnchor(m, ws, act, r) ==
  IF m # NoMenu /\ m.row < r THEN m ELSE NoMenu

\* reconcile_menu: the menu m survives if its anchor is inside the content
\* area and what it was opened on is still there.
Reconciled(m, ws, act, r) ==
  LET alive == CASE m.kind = "pane" -> act \in DOMAIN ws /\ m.pane \in PanesOf(ws[act])
                 [] m.kind = "tab"  -> m.window \in DOMAIN ws
                 [] OTHER           -> FALSE
  IN  IF alive /\ m.row < r THEN m ELSE NoMenu

NewWindowRec(n, pinned) ==
  [id |-> n, tree |-> Leaf(n), focused |-> n, zoomed |-> FALSE, pinned |-> pinned]

SplitIn(ws, i, n) ==
  [ws EXCEPT ![i].tree = SplitPane(ws[i].tree, ws[i].focused, n), ![i].focused = n]

\* A spawn succeeded: the new pane enters the map and everything is laid out.
Spawned(ws, act) ==
  /\ nextPane <= MaxPanes
  /\ windows' = ws
  /\ active' = act
  /\ panes' = Relaid(ws, act, DOMAIN panes \cup {nextPane}, rows, sidebar)
  /\ nextPane' = nextPane + 1
  /\ dirty' = TRUE

\* Mutant: the unzoom before a failed spawn is not recorded.
RefusedSilently(ws) ==
  /\ windows' = ws
  /\ UNCHANGED <<dirty, active, paneVars>>

\* A spawn failed, or the pane is too small to split (MIN_SPLIT_AXIS): the
\* operation returns before laying anything out.
Refused(ws) ==
  /\ windows' = ws
  /\ dirty' = (dirty \/ ws # windows)
  /\ UNCHANGED <<active, paneVars>>

Focus(p) ==
  /\ windows' = IF Running /\ p \in PanesOf(windows[active])
                THEN [windows EXCEPT ![active].focused = p] ELSE windows
  /\ dirty' = (dirty \/ windows' # windows)

-----------------------------------------------------------------------------
(* Initial states: Session::new                                            *)

Init ==
  /\ rows \in Rows
  /\ sidebar = TRUE
  /\ windows = <<NewWindowRec(1, FALSE)>>
  /\ active = 1
  /\ panes = [p \in {1} |-> FullRect(Content(rows, sidebar))]
  /\ nextPane = 2
  /\ menu = NoMenu /\ help = FALSE /\ dialog = NoDialog /\ copy = NoPane
  /\ dirty = TRUE
  /\ drag = [c \in Clients |-> NoDrag]
  /\ press = [c \in Clients |-> NoPane]

-----------------------------------------------------------------------------
(* Structural commands.  `m` is the menu on entry: the open one when the   *)
(* command comes from the keyboard or the control socket, NoMenu when the  *)
(* menu itself dispatched it after closing.                                *)

SplitFocused(m) ==
  /\ Running
  /\ LET ws == Unzoomed(windows)
     IN Spawned(SplitIn(ws, active, nextPane), active) \/ Refused(ws)
  /\ menu' = Reconciled(m, windows', active', rows)
  /\ UNCHANGED <<viewVars, help, dialog, copy>>

\* `dvlpr control pane split --window i`: straight to split_in_window, with
\* neither the unzoom nor the menu check of a command.
SplitWindow(i) ==
  /\ Spawned(SplitIn(windows, i, nextPane), active)
  /\ UNCHANGED <<viewVars, modalVars>>

Survivors(gone) == DOMAIN panes \ gone

CopyAfter(gone) == IF copy \in gone THEN NoPane ELSE copy

FocusAfter(w, p, t) == IF w.focused = p THEN FirstLeaf(t) ELSE w.focused

\* Mutant: the active position does not follow its window down.
ActiveUnmoved(i) == IF active = Len(windows) /\ active > 1 THEN active - 1 ELSE active

\* The active position once window i is removed: it follows its window down,
\* and one past the end is clamped.
ActiveAfter(i) ==
  LET down  == IF active > i THEN active - 1 ELSE active
      count == Len(windows) - 1
  IN  IF count > 0 /\ down > count THEN count ELSE down

\* A pane is gone from window i.  Its parent split collapses; focus falls on
\* the first leaf if it was there; the active window is unzoomed.
Shrink(p, i, m) ==
  LET w == windows[i]
      t == ClosePane(w.tree, p)
  IN  /\ windows' = [UnzoomedBy(windows, i) EXCEPT
                       ![i].tree = t, ![i].focused = FocusAfter(w, p, t)]
      /\ active' = active
      /\ panes' = Relaid(windows', active, Survivors({p}), rows, sidebar)
      /\ copy' = CopyAfter({p})
      /\ menu' = Reconciled(m, windows', active, rows)

\* Every pane of window i is gone and so is the window.
DropWindow(i, m) ==
  LET gone == PanesOf(windows[i])
  IN  /\ windows' = RemoveAt(windows, i)
      /\ active' = ActiveAfter(i)
      /\ panes' = Relaid(windows', active', Survivors(gone), rows, sidebar)
      /\ copy' = CopyAfter(gone)
      /\ menu' = Reconciled(m, windows', active', rows)

PaneExited(p, m) ==
  /\ p \in DOMAIN panes
  /\ LET i == WindowOf(windows, p)
     IN  IF IsLeaf(windows[i].tree) THEN DropWindow(i, m) ELSE Shrink(p, i, m)
  /\ dirty' = TRUE
  /\ UNCHANGED <<nextPane, viewVars, help, dialog>>

CloseFocused(m) == Running /\ PaneExited(Focused, m)

CloseWindow(i, m) ==
  /\ i \in DOMAIN windows
  /\ DropWindow(i, m)
  /\ dirty' = TRUE
  /\ UNCHANGED <<nextPane, viewVars, help, dialog>>

\* Command::NewWindow and the control command: the window in front is left
\* unzoomed, even if the spawn then fails.
NewWindow(pinned) ==
  /\ LET ws == Unzoomed(windows)
     IN  \/ Spawned(Append(ws, NewWindowRec(nextPane, pinned)), Len(ws) + 1)
         \/ Refused(ws)
  /\ menu' = NoMenu
  /\ UNCHANGED <<viewVars, help, dialog, copy>>

\* Next, Prev and Select: any position can be reached, nothing is laid out.
SwitchWindow(i) ==
  /\ i \in DOMAIN windows
  /\ windows' = Unzoomed(windows)
  /\ active' = i
  /\ copy' = NoPane
  /\ menu' = NoMenu
  /\ dirty' = TRUE
  /\ UNCHANGED <<paneVars, viewVars, help, dialog>>

ToggleZoom(m) ==
  /\ Running
  /\ windows' = [windows EXCEPT ![active].zoomed = ~@]
  /\ panes' = Relaid(windows', active, DOMAIN panes, rows, sidebar)
  /\ dirty' = TRUE
  /\ menu' = Reconciled(m, windows', active, rows)
  /\ UNCHANGED <<active, nextPane, viewVars, help, dialog, copy>>

ToggleSidebar ==
  /\ Running
  /\ sidebar' = ~sidebar
  /\ panes' = Relaid(windows, active, DOMAIN panes, rows, sidebar')
  /\ dirty' = TRUE
  /\ menu' = NoMenu
  /\ UNCHANGED <<tabVars, nextPane, rows, help, dialog, copy>>

\* A rename pins the name; an empty one gives it back to the auto-namer.
SetWindowName(i, pinned) ==
  /\ i \in DOMAIN windows
  /\ windows' = [windows EXCEPT ![i].pinned = pinned]
  /\ dirty' = TRUE

RenameWindow(i, pinned) ==
  /\ SetWindowName(i, pinned)
  /\ UNCHANGED <<active, paneVars, viewVars, modalVars>>

\* The viewport follows the foreground client.
Resize(r) ==
  /\ Running
  /\ rows' = r
  /\ panes' = Relaid(windows, active, DOMAIN panes, r, sidebar)
  /\ menu' = Reconciled(menu, windows, active, r)
  /\ UNCHANGED <<tabVars, nextPane, sidebar, help, dialog, copy, dirty>>

-----------------------------------------------------------------------------
(* Overlays from the keyboard.  Help, dialog and menu are asked in this    *)
(* order; the first that is open swallows the event unless it passes it on.*)

NoOverlay == ~help /\ dialog = NoDialog /\ menu = NoMenu

\* Help passes ShowHelp on to apply_command, which closes it.
ShowHelp ==
  /\ help \/ NoOverlay
  /\ help' = ~help
  /\ menu' = IF help THEN Reconciled(menu, windows, active, rows) ELSE NoMenu
  /\ UNCHANGED <<tabVars, paneVars, viewVars, dialog, copy, dirty>>

\* q, Escape or ? with help open.
DismissHelp ==
  /\ help
  /\ help' = FALSE
  /\ UNCHANGED <<tabVars, paneVars, viewVars, menu, dialog, copy, dirty>>

OpenNewWindowDialog ==
  /\ NoOverlay
  /\ dialog' = [mode |-> "new"]
  /\ menu' = NoMenu
  /\ UNCHANGED <<tabVars, paneVars, viewVars, help, copy, dirty>>

CancelDialog ==
  /\ dialog # NoDialog
  /\ ~help
  /\ dialog' = NoDialog
  /\ UNCHANGED <<tabVars, paneVars, viewVars, menu, help, copy, dirty>>

SubmitNewWindow(pinned) ==
  /\ dialog.mode = "new"
  /\ ~help
  /\ dialog' = NoDialog
  /\ LET ws == Unzoomed(windows)
     IN  \/ Spawned(Append(ws, NewWindowRec(nextPane, pinned)), Len(ws) + 1)
         \/ Refused(ws)
  /\ UNCHANGED <<viewVars, menu, help, copy>>

\* The rename goes to whatever window now holds the remembered position.
SubmitRename(pinned) ==
  /\ dialog.mode = "rename"
  /\ ~help
  /\ dialog' = NoDialog
  /\ IF dialog.window \in DOMAIN windows
     THEN SetWindowName(dialog.window, pinned)
     ELSE UNCHANGED <<windows, dirty>>
  /\ UNCHANGED <<active, paneVars, viewVars, menu, help, copy>>

\* Enter copy mode on the focused pane, closing every overlay.
EnterCopy(p) ==
  /\ copy' = p
  /\ menu' = NoMenu /\ help' = FALSE /\ dialog' = NoDialog

EnterCopyMode ==
  /\ NoOverlay
  /\ Running
  /\ copy = NoPane
  /\ EnterCopy(Focused)
  /\ UNCHANGED <<tabVars, paneVars, viewVars, dirty>>

\* A copy key that exits or yanks, the release that ends a mouse selection,
\* or the departure of the client that owns copy mode.
ExitCopyMode ==
  /\ copy # NoPane
  /\ copy' = NoPane
  /\ UNCHANGED <<tabVars, paneVars, viewVars, menu, help, dialog, dirty>>

\* An item of the open menu, by Enter or by a click: the menu closes first.
ChooseItem ==
  /\ ~help /\ dialog = NoDialog
  /\ \/ /\ menu.kind = "pane"
        /\ SplitFocused(NoMenu) \/ ToggleZoom(NoMenu) \/ CloseFocused(NoMenu)
     \/ /\ menu.kind = "tab"
        /\ CloseWindow(menu.window, NoMenu)
     \/ /\ menu.kind = "tab"
        /\ menu.window \in DOMAIN windows
        /\ dialog' = [mode |-> "rename", window |-> menu.window]
        /\ menu' = NoMenu
        /\ UNCHANGED <<tabVars, paneVars, viewVars, help, copy, dirty>>

DismissMenu ==
  /\ menu # NoMenu
  /\ ~help /\ dialog = NoDialog
  /\ menu' = NoMenu
  /\ UNCHANGED <<tabVars, paneVars, viewVars, help, dialog, copy, dirty>>

-----------------------------------------------------------------------------
(* The mouse of client c.  The dialog swallows it; in copy mode it drives  *)
(* the selection instead.  A left press first notes the pane under it as a *)
(* possible start of a selection, whatever overlay is drawn on top, unless *)
(* the application in that pane tracks the mouse itself.                   *)

MouseFree == copy = NoPane /\ dialog = NoDialog
Plain     == MouseFree /\ ~help /\ menu = NoMenu

Arms(c, hit) == \E p \in (hit \cap DOMAIN panes) \cup {NoPane} :
                   press' = [press EXCEPT ![c] = p]
Disarms(c)   == press' = [press EXCEPT ![c] = NoPane]
SetsDrag(c, d) == drag' = [drag EXCEPT ![c] = d]

\* A click while help or a menu is open goes to that overlay.
ClickOverlay(c) ==
  /\ MouseFree
  /\ Arms(c, Visible)
  /\ UNCHANGED drag
  /\ \/ DismissHelp
     \/ ~help /\ (ChooseItem \/ DismissMenu)
     \/ /\ help \/ menu # NoMenu
        /\ UNCHANGED <<tabVars, paneVars, viewVars, modalVars, dirty>>

ClickPane(c, p) ==
  /\ Plain
  /\ p \in Visible
  /\ Arms(c, {p})
  /\ Focus(p)
  /\ SetsDrag(c, NoDrag)
  /\ UNCHANGED <<active, paneVars, viewVars, modalVars>>

\* A tab click switches like SelectWindow does, again without a relayout.
ClickTab(c, i) ==
  /\ Plain
  /\ i \in DOMAIN windows
  /\ windows' = Unzoomed(windows)
  /\ active' = i
  /\ dirty' = TRUE
  /\ Disarms(c) /\ SetsDrag(c, NoDrag)
  /\ UNCHANGED <<paneVars, viewVars, modalVars>>

\* A sidebar row of an agent in pane p of window i.
ClickSidebar(c, i, p) ==
  /\ Plain
  /\ sidebar
  /\ i \in DOMAIN windows /\ p \in PanesOf(windows[i])
  /\ windows' = [Unzoomed(windows) EXCEPT ![i].focused = p, ![i].zoomed = FALSE]
  /\ active' = i
  /\ panes' = Relaid(windows', i, DOMAIN panes, rows, sidebar)
  /\ dirty' = TRUE
  /\ Disarms(c) /\ SetsDrag(c, NoDrag)
  /\ UNCHANGED <<nextPane, viewVars, modalVars>>

\* A divider: only visible when the window is not zoomed.
ClickDivider(c, s) ==
  /\ Plain
  /\ Running /\ ~Zoomed
  /\ s \in SplitPaths(windows[active].tree)
  /\ SetsDrag(c, [window |-> active, path |-> s, target |-> windows[active].id])
  /\ Disarms(c)
  /\ UNCHANGED <<tabVars, paneVars, viewVars, modalVars, dirty>>

\* The [+] button of the tab bar.
ClickPlus(c) ==
  /\ Plain
  /\ dialog' = [mode |-> "new"]
  /\ Disarms(c) /\ SetsDrag(c, NoDrag)
  /\ UNCHANGED <<tabVars, paneVars, viewVars, menu, help, copy, dirty>>

\* A right press opens a menu on a pane, which takes the focus, or on a tab.
\* It is dropped during a divider drag, unless a menu is open already.
OpenMenu(c) ==
  \/ \E p \in Visible, r \in 1..rows-1 :
        /\ Focus(p)
        /\ menu' = [kind |-> "pane", pane |-> p, row |-> r]
  \/ \E i \in DOMAIN windows :
        /\ menu' = [kind |-> "tab", window |-> i, row |-> rows]
        /\ UNCHANGED <<windows, dirty>>

RightClick(c) ==
  /\ MouseFree /\ ~help
  /\ menu = NoMenu => drag[c] = NoDrag
  /\ OpenMenu(c)
  /\ UNCHANGED <<active, paneVars, viewVars, help, dialog, copy, mouseVars>>

\* The first motion after a press that armed a selection: focus that pane if
\* it is in the active window, then enter copy mode on the focused pane.
DragSelect(c) ==
  /\ MouseFree
  /\ Running
  /\ press[c] # NoPane
  /\ Focus(press[c])
  /\ EnterCopy(windows'[active].focused)
  /\ Disarms(c)
  /\ UNCHANGED <<active, paneVars, viewVars, drag>>

\* Any other motion moves the divider being dragged: in the window that now
\* holds the remembered position, if the path still leads to a split there.
DragDivider(c, r) ==
  /\ Plain
  /\ drag[c].window \in DOMAIN windows
  /\ drag[c].path \in SplitPaths(windows[drag[c].window].tree)
  /\ windows' = [windows EXCEPT ![drag[c].window].tree = SetRatio(@, drag[c].path, r)]
  /\ panes' = Relaid(windows', active, DOMAIN panes, rows, sidebar)
  /\ dirty' = TRUE
  /\ Disarms(c)
  /\ UNCHANGED <<active, nextPane, viewVars, modalVars, drag>>

\* A release ends both drags, but an overlay keeps it from the divider drag.
Release(c) ==
  /\ MouseFree
  /\ Disarms(c)
  /\ IF Plain THEN SetsDrag(c, NoDrag) ELSE UNCHANGED drag
  /\ UNCHANGED <<tabVars, paneVars, viewVars, modalVars, dirty>>

\* The server forgets a client that left, with its drags.
ClientGone(c) ==
  /\ Disarms(c) /\ SetsDrag(c, NoDrag)
  /\ UNCHANGED <<tabVars, paneVars, viewVars, modalVars, dirty>>

\* The snapshot cadence takes the dirty bit.
TakeSnapshotDirty ==
  /\ dirty
  /\ dirty' = FALSE
  /\ UNCHANGED <<tabVars, paneVars, viewVars, modalVars>>

-----------------------------------------------------------------------------
\* Keyboard commands with no overlay open, and control commands in any state.
\* The control socket refuses to close the last pane or window.
Command ==
  \/ SplitFocused(menu)
  \/ \E i \in DOMAIN windows : SplitWindow(i)
  \/ NoOverlay /\ CloseFocused(menu)
  \/ Cardinality(DOMAIN panes) > 1 /\ CloseFocused(menu)
  \/ Len(windows) > 1 /\ \E i \in DOMAIN windows : CloseWindow(i, menu)
  \/ \E pinned \in BOOLEAN : NewWindow(pinned)
  \/ \E i \in DOMAIN windows : SwitchWindow(i)
  \/ ToggleZoom(menu)
  \/ ToggleSidebar
  \/ \E i \in DOMAIN windows, pinned \in BOOLEAN : RenameWindow(i, pinned)
  \/ ShowHelp
  \/ OpenNewWindowDialog
  \/ EnterCopyMode

Overlay ==
  \/ DismissHelp
  \/ CancelDialog
  \/ \E pinned \in BOOLEAN : SubmitNewWindow(pinned) \/ SubmitRename(pinned)
  \/ ChooseItem
  \/ DismissMenu
  \/ ExitCopyMode

Outside ==
  \/ \E p \in PaneId : PaneExited(p, menu)
  \/ \E r \in Rows : Resize(r)
  \/ TakeSnapshotDirty

Mouse(c) ==
  \/ ClickOverlay(c)
  \/ \E p \in Visible : ClickPane(c, p)
  \/ \E i \in DOMAIN windows : ClickTab(c, i)
  \/ \E i \in DOMAIN windows, p \in DOMAIN panes : ClickSidebar(c, i, p)
  \/ Running /\ \E s \in SplitPaths(windows[active].tree) : ClickDivider(c, s)
  \/ ClickPlus(c)
  \/ RightClick(c)
  \/ DragSelect(c)
  \/ \E r \in Ratios : DragDivider(c, r)
  \/ Release(c)
  \/ ClientGone(c)

Next == \/ (Command \/ Overlay \/ Outside) /\ UNCHANGED mouseVars
        \/ \E c \in Clients : Mouse(c)

Spec == Init /\ [][Next]_vars
=============================================================================
