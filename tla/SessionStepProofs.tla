-------------------------- MODULE SessionStepProofs -------------------------
(***************************************************************************)
(* What a step of Session may do, for any number of clients, panes and     *)
(* windows: what it changes of a snapshot it marks, what it changes of a   *)
(* tree or the viewport it lays out, a pane that dies in the background    *)
(* disturbs nothing in front, and the window vector and the active         *)
(* position implement the tab bar of module Tabs.                          *)
(***************************************************************************)
EXTENDS SessionProofs

-----------------------------------------------------------------------------
(* Nothing that a snapshot holds changes unnoticed                         *)

Noticed == dirty' \/ UNCHANGED <<windows, active, sidebar>>

LEMMA SpawnedNoticed ==
  ASSUME NEW ws, NEW act, Spawned(ws, act) \/ Refused(Unzoomed(windows)), UNCHANGED viewVars
  PROVE  Noticed
BY DEF Spawned, Refused, Noticed, viewVars

LEMMA FocusNoticed ==
  ASSUME NEW p, Focus(p), UNCHANGED <<active, viewVars>>
  PROVE  Noticed
BY DEF Focus, Noticed, viewVars

LEMMA PiecesNoticed ==
  /\ \A m : SplitFocused(m) \/ ToggleZoom(m) \/ CloseFocused(m) => Noticed
  /\ \A i, m : SplitWindow(i) \/ CloseWindow(i, m) => Noticed
  /\ \A p, m : PaneExited(p, m) => Noticed
<1>1. ASSUME NEW m, SplitFocused(m) PROVE Noticed
  BY <1>1, SpawnedNoticed DEF SplitFocused
<1>2. ASSUME NEW m, ToggleZoom(m) PROVE Noticed
  BY <1>2 DEF ToggleZoom, Noticed
<1>3. ASSUME NEW p, NEW m, PaneExited(p, m) PROVE Noticed
  BY <1>3 DEF PaneExited, Noticed
<1>4. ASSUME NEW i, SplitWindow(i) PROVE Noticed
  BY <1>4, SpawnedNoticed DEF SplitWindow
<1>5. ASSUME NEW i, NEW m, CloseWindow(i, m) PROVE Noticed
  BY <1>5 DEF CloseWindow, Noticed
<1> QED BY <1>1, <1>2, <1>3, <1>4, <1>5 DEF CloseFocused

LEMMA ChoiceNoticed == ChooseItem => Noticed
<1> SUFFICES ASSUME ChooseItem PROVE Noticed
  OBVIOUS
<1>1. CASE UNCHANGED <<tabVars, viewVars>>
  BY <1>1 DEF Noticed, tabVars, viewVars
<1> QED BY <1>1, PiecesNoticed DEF ChooseItem

LEMMA KeyboardNoticed ==
  ASSUME Command \/ Overlay \/ Outside
  PROVE  Noticed
<1>1. CASE UNCHANGED <<tabVars, viewVars>>
  BY <1>1 DEF Noticed, tabVars, viewVars
<1>2. ASSUME NEW pinned, NewWindow(pinned) \/ SubmitNewWindow(pinned) PROVE Noticed
  BY <1>2, SpawnedNoticed DEF NewWindow, SubmitNewWindow
<1>3. ASSUME NEW i, SwitchWindow(i) PROVE Noticed
  BY <1>3 DEF SwitchWindow, Noticed
<1>4. ASSUME NEW i, NEW pinned, RenameWindow(i, pinned) PROVE Noticed
  BY <1>4 DEF RenameWindow, SetWindowName, Noticed
<1>5. ASSUME NEW pinned, SubmitRename(pinned) PROVE Noticed
  BY <1>5 DEF SubmitRename, SetWindowName, Noticed, viewVars
<1>6. CASE ToggleSidebar
  BY <1>6 DEF ToggleSidebar, Noticed
<1>7. ASSUME NEW r, Resize(r) PROVE Noticed
  BY <1>7 DEF Resize, Noticed, tabVars
<1>8. CASE ShowHelp \/ OpenNewWindowDialog \/ EnterCopyMode \/ TakeSnapshotDirty
  BY <1>1, <1>8 DEF ShowHelp, OpenNewWindowDialog, EnterCopyMode, TakeSnapshotDirty
<1>9. CASE DismissHelp \/ CancelDialog \/ DismissMenu \/ ExitCopyMode
  BY <1>1, <1>9 DEF DismissHelp, CancelDialog, DismissMenu, ExitCopyMode
<1>10. CASE Command
  BY <1>2, <1>3, <1>4, <1>6, <1>8, <1>10, PiecesNoticed DEF Command
<1>11. CASE Overlay
  BY <1>2, <1>5, <1>9, <1>11, ChoiceNoticed DEF Overlay
<1>12. CASE Outside
  BY <1>7, <1>8, <1>12, PiecesNoticed DEF Outside
<1> QED BY <1>10, <1>11, <1>12

LEMMA MouseNoticed ==
  ASSUME NEW c \in Clients, Mouse(c)
  PROVE  Noticed
<1>1. CASE UNCHANGED <<tabVars, viewVars>>
  BY <1>1 DEF Noticed, tabVars, viewVars
<1>2. CASE ClickOverlay(c)
  BY <1>1, <1>2, ChoiceNoticed DEF ClickOverlay, DismissHelp, DismissMenu
<1>3. ASSUME NEW p, ClickPane(c, p) PROVE Noticed
  BY <1>3, FocusNoticed DEF ClickPane
<1>4. ASSUME NEW i, ClickTab(c, i) PROVE Noticed
  BY <1>4 DEF ClickTab, Noticed
<1>5. ASSUME NEW i, NEW p, ClickSidebar(c, i, p) PROVE Noticed
  BY <1>5 DEF ClickSidebar, Noticed
<1>6. ASSUME NEW s, ClickDivider(c, s) PROVE Noticed
  BY <1>1, <1>6 DEF ClickDivider
<1>7. CASE ClickPlus(c) \/ Release(c) \/ ClientGone(c)
  BY <1>1, <1>7 DEF ClickPlus, Release, ClientGone
<1>8. CASE RightClick(c)
  <2>1. ASSUME NEW p, Focus(p) PROVE Noticed
    BY <1>8, <2>1, FocusNoticed DEF RightClick
  <2>2. CASE UNCHANGED windows
    BY <1>8, <2>2 DEF RightClick, Noticed, viewVars
  <2> QED BY <1>8, <2>1, <2>2 DEF RightClick, OpenMenu
<1>9. CASE DragSelect(c)
  BY <1>9, FocusNoticed DEF DragSelect
<1>10. ASSUME NEW r, DragDivider(c, r) PROVE Noticed
  BY <1>10 DEF DragDivider, Noticed
<1> QED
  BY <1>2, <1>3, <1>4, <1>5, <1>6, <1>7, <1>8, <1>9, <1>10 DEF Mouse

\* Whatever changes of what a snapshot holds sets the bit that the snapshot cadence
\* reads (snapshot_dirty, session.rs), for any clients, panes and windows.
THEOREM ChangesAreSnapshottedHolds == Spec => ChangesAreSnapshotted
<1>1. ASSUME [Next]_vars PROVE [Restorable' # Restorable => dirty']_vars
  <2>1. CASE UNCHANGED vars
    BY <2>1
  <2>2. CASE Next
    <3>1. Noticed
      BY <2>2, KeyboardNoticed, MouseNoticed DEF Next
    <3>2. UNCHANGED <<windows, active, sidebar>> => Restorable' = Restorable
      BY DEF Restorable
    <3> QED BY <3>1, <3>2 DEF Noticed
  <2> QED BY <1>1, <2>1, <2>2
<1> QED BY <1>1, PTL DEF Spec, ChangesAreSnapshotted

-----------------------------------------------------------------------------
(* What a step changes of a tree or the viewport it lays out               *)

LaidOut == panes' = Relaid(windows', active', DOMAIN panes', rows', sidebar')

SameTrees(ws) == /\ DOMAIN ws = DOMAIN windows
                 /\ \A i \in DOMAIN windows : ws[i].tree = windows[i].tree

Settled == LaidOut \/ (SameTrees(windows') /\ UNCHANGED viewVars)

\* Every pane on screen has the rectangle it is drawn in once everything is laid out:
\* relayout_all leaves alone only what a zoomed window hides.
LEMMA LaidOutDrawn == Placing' /\ LaidOut => DrawnAsSized'
<1> SUFFICES ASSUME Placing', LaidOut, NEW p \in Visible'
             PROVE  panes'[p] = DrawnRect(active, p)'
  BY DEF DrawnAsSized
<1>1. Running' /\ active' \in DOMAIN windows'
  BY DEF Visible, Running, Placing, Placement
<1>2. p \in PanesOf(windows'[active']) /\ (Zoomed' => p = windows'[active'].focused)
  BY <1>1 DEF Visible, Focused, Zoomed, Placing, Placement
<1>3. p \in Placed(windows') /\ p \in DOMAIN panes'
  BY <1>1, <1>2 DEF Placed, Placing, Placement
<1>4. WindowOf(windows', p) = active'
  BY <1>1, <1>2, <1>3, WindowOfPane DEF Placing, Placement, Disjoint
<1>5. Zoomed' <=> windows'[active'].zoomed
  BY <1>1 DEF Zoomed
<1>6. DrawnRect(active, p)' = IF windows'[active'].zoomed
                              THEN FullRect(Content(rows', sidebar'))
                              ELSE PaneRect(windows'[active'].tree, p, Content(rows', sidebar'))
  BY DEF DrawnRect
<1>7. panes'[p] = Relaid(windows', active', DOMAIN panes', rows', sidebar')[p]
  BY DEF LaidOut
<1> DEFINE ws == windows'
           c  == Content(rows', sidebar')
<1> HIDE DEF c
<1>8. CASE ws[active'].zoomed
  BY <1>2, <1>3, <1>4, <1>5, <1>6, <1>7, <1>8 DEF Relaid, c
<1>9. CASE ~ws[active'].zoomed
  BY <1>2, <1>3, <1>4, <1>5, <1>6, <1>7, <1>9 DEF Relaid, c
<1> QED BY <1>8, <1>9

LEMMA SettledDrawn ==
  ASSUME Placing', Settled
  PROVE  Trees' # Trees \/ viewVars' # viewVars => DrawnAsSized'
<1>1. SameTrees(windows') => Trees' = Trees
  BY DEF SameTrees, Trees
<1> QED BY <1>1, LaidOutDrawn DEF Settled

LEMMA ReplacedTrees ==
  ASSUME NEW ws, SameTrees(ws), NEW i \in DOMAIN windows, NEW w, w.tree = windows[i].tree
  PROVE  SameTrees([ws EXCEPT ![i] = w])
BY DEF SameTrees

LEMMA UnzoomedTrees == Placing => SameTrees(Unzoomed(windows))
BY UnzoomedPlacement DEF SameTrees

LEMMA QuietSettled ==
  ASSUME UNCHANGED <<windows, viewVars>>
  PROVE  Settled
BY DEF Settled, SameTrees

LEMMA SpawnedSettled ==
  ASSUME Placing, NEW ws, NEW act, Spawned(ws, act) \/ Refused(Unzoomed(windows)),
         UNCHANGED viewVars
  PROVE  Settled
<1>1. CASE Spawned(ws, act)
  BY <1>1, RelaidDomain DEF Spawned, Settled, LaidOut, viewVars
<1>2. CASE Refused(Unzoomed(windows))
  BY <1>2, UnzoomedTrees DEF Refused, Settled
<1> QED BY <1>1, <1>2

LEMMA FocusSettled ==
  ASSUME Placing, NEW p, Focus(p), UNCHANGED viewVars
  PROVE  Settled
<1>1. CASE Running /\ p \in PanesOf(windows[active])
  <2> DEFINE w == [windows[active] EXCEPT !.focused = p]
  <2>1. active \in DOMAIN windows /\ windows[active] \in WindowType
    BY <1>1, WindowFacts DEF Placing, Placement, Running
  <2>2. windows' = [windows EXCEPT ![active] = w] /\ w.tree = windows[active].tree
    BY <1>1, <2>1 DEF Focus, WindowType
  <2> HIDE DEF w
  <2>3. SameTrees(windows)
    BY DEF SameTrees
  <2> QED BY <2>1, <2>2, <2>3, ReplacedTrees DEF Settled
<1>2. CASE ~(Running /\ p \in PanesOf(windows[active]))
  BY <1>2, QuietSettled DEF Focus
<1> QED BY <1>1, <1>2

LEMMA NameSettled ==
  ASSUME Placing, NEW i, NEW pinned, SetWindowName(i, pinned), UNCHANGED viewVars
  PROVE  Settled
<1> DEFINE w == [windows[i] EXCEPT !.pinned = pinned]
<1>1. i \in DOMAIN windows /\ windows[i] \in WindowType
  BY WindowFacts DEF SetWindowName, Placing
<1>2. windows' = [windows EXCEPT ![i] = w] /\ w.tree = windows[i].tree
  BY <1>1 DEF SetWindowName, WindowType
<1> HIDE DEF w
<1> QED BY <1>1, <1>2, ReplacedTrees DEF Settled, SameTrees

LEMMA PiecesSettled ==
  ASSUME Placing
  PROVE  /\ \A m : SplitFocused(m) \/ ToggleZoom(m) \/ CloseFocused(m) => Settled
         /\ \A i, m : SplitWindow(i) \/ CloseWindow(i, m) => Settled
         /\ \A p, m : PaneExited(p, m) => Settled
<1>1. ASSUME NEW m, SplitFocused(m) PROVE Settled
  BY <1>1, SpawnedSettled DEF SplitFocused
<1>2. ASSUME NEW m, ToggleZoom(m) PROVE Settled
  BY <1>2, RelaidDomain DEF ToggleZoom, Settled, LaidOut, viewVars
<1>3. ASSUME NEW i, NEW m, DropWindow(i, m), UNCHANGED viewVars PROVE Settled
  BY <1>3, RelaidDomain DEF DropWindow, Settled, LaidOut, viewVars
<1>4. ASSUME NEW p, NEW i, NEW m, Shrink(p, i, m), UNCHANGED viewVars PROVE Settled
  BY <1>4, RelaidDomain DEF Shrink, Settled, LaidOut, viewVars
<1>5. ASSUME NEW p, NEW m, PaneExited(p, m) PROVE Settled
  BY <1>3, <1>4, <1>5 DEF PaneExited
<1>6. ASSUME NEW i, SplitWindow(i) PROVE Settled
  BY <1>6, SpawnedSettled DEF SplitWindow
<1>7. ASSUME NEW i, NEW m, CloseWindow(i, m) PROVE Settled
  BY <1>3, <1>7 DEF CloseWindow
<1> QED BY <1>1, <1>2, <1>5, <1>6, <1>7 DEF CloseFocused

LEMMA ChoiceSettled == Placing /\ ChooseItem => Settled
<1> SUFFICES ASSUME Placing, ChooseItem PROVE Settled
  OBVIOUS
<1>1. CASE UNCHANGED <<tabVars, viewVars>>
  BY <1>1, QuietSettled DEF tabVars, viewVars
<1> QED BY <1>1, PiecesSettled DEF ChooseItem

LEMMA KeyboardSettled ==
  ASSUME Placing, Command \/ Overlay \/ Outside
  PROVE  Settled
<1>1. CASE UNCHANGED <<tabVars, viewVars>>
  BY <1>1, QuietSettled DEF tabVars, viewVars
<1>2. ASSUME NEW pinned, NewWindow(pinned) \/ SubmitNewWindow(pinned) PROVE Settled
  BY <1>2, SpawnedSettled DEF NewWindow, SubmitNewWindow
<1>3. ASSUME NEW i, SwitchWindow(i) PROVE Settled
  BY <1>3, UnzoomedTrees DEF SwitchWindow, Settled
<1>4. ASSUME NEW i, NEW pinned, RenameWindow(i, pinned) PROVE Settled
  BY <1>4, NameSettled DEF RenameWindow
<1>5. ASSUME NEW pinned, SubmitRename(pinned) PROVE Settled
  BY <1>5, NameSettled, QuietSettled DEF SubmitRename
<1>6. CASE ToggleSidebar
  BY <1>6, RelaidDomain DEF ToggleSidebar, Settled, LaidOut, tabVars
<1>7. ASSUME NEW r, Resize(r) PROVE Settled
  BY <1>7, RelaidDomain DEF Resize, Settled, LaidOut, tabVars
<1>8. CASE ShowHelp \/ OpenNewWindowDialog \/ EnterCopyMode \/ TakeSnapshotDirty
  BY <1>1, <1>8 DEF ShowHelp, OpenNewWindowDialog, EnterCopyMode, TakeSnapshotDirty
<1>9. CASE DismissHelp \/ CancelDialog \/ DismissMenu \/ ExitCopyMode
  BY <1>1, <1>9 DEF DismissHelp, CancelDialog, DismissMenu, ExitCopyMode
<1>10. CASE Command
  BY <1>2, <1>3, <1>4, <1>6, <1>8, <1>10, PiecesSettled DEF Command
<1>11. CASE Overlay
  BY <1>2, <1>5, <1>9, <1>11, ChoiceSettled DEF Overlay
<1>12. CASE Outside
  BY <1>7, <1>8, <1>12, PiecesSettled DEF Outside
<1> QED BY <1>10, <1>11, <1>12

LEMMA MouseSettled ==
  ASSUME Placing, NEW c \in Clients, Mouse(c)
  PROVE  Settled
<1>1. CASE UNCHANGED <<tabVars, viewVars>>
  BY <1>1, QuietSettled DEF tabVars, viewVars
<1>2. CASE ClickOverlay(c)
  BY <1>1, <1>2, ChoiceSettled DEF ClickOverlay, DismissHelp, DismissMenu
<1>3. ASSUME NEW p, ClickPane(c, p) PROVE Settled
  BY <1>3, FocusSettled DEF ClickPane
<1>4. ASSUME NEW i, ClickTab(c, i) PROVE Settled
  BY <1>4, UnzoomedTrees DEF ClickTab, Settled
<1>5. ASSUME NEW i, NEW p, ClickSidebar(c, i, p) PROVE Settled
  <2>1. panes' = Relaid(windows', active', DOMAIN panes, rows, sidebar) /\ UNCHANGED viewVars
    BY <1>5 DEF ClickSidebar
  <2> QED BY <2>1, RelaidDomain DEF Settled, LaidOut, viewVars
<1>6. ASSUME NEW s, ClickDivider(c, s) PROVE Settled
  BY <1>1, <1>6 DEF ClickDivider
<1>7. CASE ClickPlus(c) \/ Release(c) \/ ClientGone(c)
  BY <1>1, <1>7 DEF ClickPlus, Release, ClientGone
<1>8. CASE RightClick(c)
  <2>1. ASSUME NEW p, Focus(p) PROVE Settled
    BY <1>8, <2>1, FocusSettled DEF RightClick
  <2>2. CASE UNCHANGED windows
    BY <1>8, <2>2, QuietSettled DEF RightClick
  <2> QED BY <1>8, <2>1, <2>2 DEF RightClick, OpenMenu
<1>9. CASE DragSelect(c)
  BY <1>9, FocusSettled DEF DragSelect
<1>10. ASSUME NEW r, DragDivider(c, r) PROVE Settled
  BY <1>10, RelaidDomain DEF DragDivider, Settled, LaidOut, viewVars
<1> QED
  BY <1>2, <1>3, <1>4, <1>5, <1>6, <1>7, <1>8, <1>9, <1>10 DEF Mouse

\* Whatever changes a tree or the viewport leaves every pane on screen with the size it
\* is drawn at ("called after any structural change and on viewport resize",
\* relayout_all, session.rs), for any clients, panes and windows.
THEOREM ChangesAreLaidOutHolds == Spec => ChangesAreLaidOut
<1>1. ASSUME Placing, Placing', [Next]_vars
      PROVE  [Trees' # Trees \/ viewVars' # viewVars => DrawnAsSized']_vars
  <2>1. CASE UNCHANGED vars
    BY <2>1
  <2>2. CASE Next
    <3>1. Settled
      BY <1>1, <2>2, KeyboardSettled, MouseSettled DEF Next
    <3> QED BY <1>1, <3>1, SettledDrawn
  <2> QED BY <1>1, <2>1, <2>2
<1> QED BY <1>1, PlacingAlways, PTL DEF Spec, ChangesAreLaidOut

-----------------------------------------------------------------------------
(* A pane that dies in the background                                      *)

\* The window in front is the same, with its focus and its zoom.
Undisturbed == /\ windows'[active'].id = windows[active].id
               /\ windows'[active'].focused = windows[active].focused
               /\ windows'[active'].zoomed = windows[active].zoomed

Quiet == DOMAIN panes \ DOMAIN panes' \subseteq PanesOf(windows[active]) \/ Undisturbed

\* Window i goes, which is not the one in front.
LEMMA DroppedBehind ==
  ASSUME Placing, NEW i \in DOMAIN windows, i # active, NEW m, DropWindow(i, m)
  PROVE  Undisturbed
<1>1. /\ Len(windows) \in Nat /\ i \in 1..Len(windows) /\ active \in 1..Len(windows)
      /\ windows \in Seq(WindowType)
  BY DEF Placing, Placement
<1>2. PICK ws : ws = RemoveAt(windows, i)
  OBVIOUS
<1>3. \A j \in 1..Len(windows) - 1 : ws[j] = IF j < i THEN windows[j] ELSE windows[j + 1]
  BY <1>1, <1>2, RemoveAtFacts
<1>4. ws[ActiveAfter(i)] = windows[active]
  BY <1>1, <1>3 DEF ActiveAfter
<1> QED BY <1>2, <1>4 DEF DropWindow, Undisturbed

\* A pane of window i goes, which is not the one in front.
LEMMA ShrunkBehind ==
  ASSUME Placing, NEW i \in DOMAIN windows, i # active, NEW p, NEW m, Shrink(p, i, m)
  PROVE  Undisturbed
<1>1. active \in DOMAIN windows
  BY DEF Placing, Placement
<1>2. UnzoomedBy(windows, i) = windows
  BY DEF UnzoomedBy
<1>3. windows'[active] = windows[active] /\ active' = active
  BY <1>1, <1>2 DEF Shrink
<1> QED BY <1>3 DEF Undisturbed

LEMMA ExitIsQuiet ==
  ASSUME Placing, NEW p, NEW m, PaneExited(p, m)
  PROVE  Quiet
<1> DEFINE i == WindowOf(windows, p)
<1>1. i \in DOMAIN windows /\ p \in PanesOf(windows[i])
  BY WindowOfPane DEF PaneExited, Placing
<1>2. CASE i # active
  BY <1>1, <1>2, DroppedBehind, ShrunkBehind DEF PaneExited, Quiet
<1>3. CASE i = active /\ IsLeaf(windows[i].tree)
  BY <1>3, RelaidDomain DEF PaneExited, DropWindow, Survivors, Quiet
<1>4. CASE i = active /\ ~IsLeaf(windows[i].tree)
  BY <1>1, <1>4, RelaidDomain DEF PaneExited, Shrink, Survivors, Quiet
<1> QED BY <1>2, <1>3, <1>4

LEMMA CloseIsQuiet ==
  ASSUME Placing, NEW i, NEW m, CloseWindow(i, m)
  PROVE  Quiet
<1>1. CASE i # active
  BY <1>1, DroppedBehind DEF CloseWindow, Quiet
<1>2. CASE i = active
  BY <1>2, RelaidDomain DEF CloseWindow, DropWindow, Survivors, Quiet
<1> QED BY <1>1, <1>2

LEMMA KeptQuiet ==
  ASSUME DOMAIN panes \subseteq DOMAIN panes'
  PROVE  Quiet
BY DEF Quiet

LEMMA SpawnedQuiet ==
  ASSUME NEW ws, NEW act, NEW vs, Spawned(ws, act) \/ Refused(vs)
  PROVE  Quiet
BY RelaidDomain, KeptQuiet DEF Spawned, Refused, paneVars

LEMMA PiecesQuiet ==
  ASSUME Placing
  PROVE  /\ \A m : SplitFocused(m) \/ ToggleZoom(m) \/ CloseFocused(m) => Quiet
         /\ \A i, m : SplitWindow(i) \/ CloseWindow(i, m) => Quiet
         /\ \A p, m : PaneExited(p, m) => Quiet
<1>1. ASSUME NEW m, SplitFocused(m) PROVE Quiet
  BY <1>1, SpawnedQuiet DEF SplitFocused
<1>2. ASSUME NEW m, ToggleZoom(m) PROVE Quiet
  BY <1>2, RelaidDomain, KeptQuiet DEF ToggleZoom
<1>3. ASSUME NEW i, SplitWindow(i) PROVE Quiet
  BY <1>3, SpawnedQuiet DEF SplitWindow
<1> QED BY <1>1, <1>2, <1>3, ExitIsQuiet, CloseIsQuiet DEF CloseFocused

LEMMA KeyboardQuiet ==
  ASSUME Placing, Command \/ Overlay \/ Outside
  PROVE  Quiet
<1>1. CASE UNCHANGED paneVars
  BY <1>1, KeptQuiet DEF paneVars
<1>2. ASSUME NEW pinned, NewWindow(pinned) \/ SubmitNewWindow(pinned) PROVE Quiet
  BY <1>2, SpawnedQuiet DEF NewWindow, SubmitNewWindow
<1>3. ASSUME NEW i, NEW pinned, SwitchWindow(i) \/ RenameWindow(i, pinned) \/ SubmitRename(pinned)
      PROVE  Quiet
  BY <1>1, <1>3 DEF SwitchWindow, RenameWindow, SubmitRename
<1>4. ASSUME NEW r, ToggleSidebar \/ Resize(r) PROVE Quiet
  BY <1>4, RelaidDomain, KeptQuiet DEF ToggleSidebar, Resize
<1>5. CASE ShowHelp \/ OpenNewWindowDialog \/ EnterCopyMode \/ TakeSnapshotDirty
  BY <1>1, <1>5 DEF ShowHelp, OpenNewWindowDialog, EnterCopyMode, TakeSnapshotDirty
<1>6. CASE DismissHelp \/ CancelDialog \/ DismissMenu \/ ExitCopyMode
  BY <1>1, <1>6 DEF DismissHelp, CancelDialog, DismissMenu, ExitCopyMode
<1>7. CASE ChooseItem
  BY <1>1, <1>7, PiecesQuiet DEF ChooseItem
<1>8. CASE Command
  BY <1>2, <1>3, <1>4, <1>5, <1>8, PiecesQuiet DEF Command
<1>9. CASE Overlay
  BY <1>2, <1>3, <1>6, <1>7, <1>9 DEF Overlay
<1>10. CASE Outside
  BY <1>4, <1>5, <1>10, PiecesQuiet DEF Outside
<1> QED BY <1>8, <1>9, <1>10

LEMMA MouseQuiet ==
  ASSUME Placing, NEW c \in Clients, Mouse(c)
  PROVE  Quiet
<1>1. CASE UNCHANGED paneVars
  BY <1>1, KeptQuiet DEF paneVars
<1>2. CASE ClickOverlay(c)
  BY <1>1, <1>2, KeyboardQuiet DEF ClickOverlay, Overlay
<1>3. ASSUME NEW i, NEW p, ClickSidebar(c, i, p) PROVE Quiet
  <2>1. \E ws : panes' = Relaid(ws, i, DOMAIN panes, rows, sidebar)
    BY <1>3 DEF ClickSidebar
  <2> QED BY <2>1, RelaidDomain, KeptQuiet
<1>4. ASSUME NEW r, DragDivider(c, r) PROVE Quiet
  BY <1>4, RelaidDomain, KeptQuiet DEF DragDivider
<1>5. ASSUME NEW i, ClickPane(c, i) \/ ClickTab(c, i) \/ ClickDivider(c, i) PROVE Quiet
  BY <1>1, <1>5 DEF ClickPane, ClickTab, ClickDivider
<1>6. CASE ClickPlus(c) \/ RightClick(c) \/ DragSelect(c) \/ Release(c) \/ ClientGone(c)
  BY <1>1, <1>6 DEF ClickPlus, RightClick, DragSelect, Release, ClientGone
<1> QED BY <1>2, <1>3, <1>4, <1>5, <1>6 DEF Mouse

\* "A pane dying in a background window must NOT disturb the active view" (session.rs): whichever pane dies and wherever its window stands, the window in front
\* is the same afterwards, with its focus and its zoom.
THEOREM BackgroundExitIsQuietHolds == Spec => BackgroundExitIsQuiet
<1> DEFINE Died == \A p \in DOMAIN panes :
                     p \notin DOMAIN panes' /\ p \notin PanesOf(windows[active])
                     => /\ windows'[active'].id = windows[active].id
                        /\ windows'[active'].focused = windows[active].focused
                        /\ windows'[active'].zoomed = windows[active].zoomed
<1>1. ASSUME Placing, [Next]_vars PROVE [Died]_vars
  <2>1. CASE UNCHANGED vars
    BY <2>1
  <2>2. CASE Next
    <3>1. Quiet
      BY <1>1, <2>2, KeyboardQuiet, MouseQuiet DEF Next
    <3> QED BY <3>1 DEF Quiet, Undisturbed
  <2> QED BY <1>1, <2>1, <2>2
<1> QED BY <1>1, PlacingAlways, PTL DEF Spec, BackgroundExitIsQuiet

-----------------------------------------------------------------------------
(* The tab bar.  A step opens a window, drops one, or leaves the           *)
(* identities in place; in the bar these are Open, Close, and Switch or    *)
(* nothing.                                                                *)

\* What a step does to the identities of the windows.
SameIds(ws) == /\ Len(ws) = Len(windows)
               /\ \A i \in DOMAIN windows : ws[i].id = windows[i].id

Stays    == SameIds(windows') /\ nextPane <= nextPane'
Opens    == /\ nextPane <= MaxPanes /\ nextPane' = nextPane + 1
            /\ Len(windows') = Len(windows) + 1 /\ active' = Len(windows) + 1
            /\ \A i \in DOMAIN windows : windows'[i].id = windows[i].id
            /\ windows'[Len(windows) + 1].id = nextPane
Drops(i) == /\ windows' = RemoveAt(windows, i) /\ active' = ActiveAfter(i)
            /\ nextPane' = nextPane
Tabbed   == Stays \/ Opens \/ \E i \in DOMAIN windows : Drops(i)

LEMMA PlacingFacts ==
  ASSUME Placing
  PROVE  /\ windows \in Seq(WindowType) /\ Len(windows) \in Nat
         /\ DOMAIN windows = 1..Len(windows) /\ nextPane \in Nat
         /\ Running => active \in DOMAIN windows
         /\ \A i \in DOMAIN windows : windows[i] \in WindowType
BY MaxPanesAssumption DEF Placing, Placement, Running

\* Replacing a window by one of the same identity.
LEMMA ReplacedIds ==
  ASSUME Placing, NEW ws \in Seq(WindowType), SameIds(ws), NEW i \in DOMAIN windows,
         NEW w, w.id = windows[i].id
  PROVE  SameIds([ws EXCEPT ![i] = w])
<1>1. DOMAIN ws = DOMAIN windows /\ Len(ws) = Len(windows) /\ i \in DOMAIN ws
  BY PlacingFacts DEF SameIds
<1>2. DOMAIN [ws EXCEPT ![i] = w] = DOMAIN ws
  OBVIOUS
<1>3. Len([ws EXCEPT ![i] = w]) = Len(windows)
  BY <1>1, <1>2, PlacingFacts
<1>4. \A j \in DOMAIN windows : [ws EXCEPT ![i] = w][j].id = windows[j].id
  BY <1>1 DEF SameIds
<1> QED BY <1>3, <1>4 DEF SameIds

LEMMA UnzoomedIds ==
  ASSUME Placing
  PROVE  SameIds(Unzoomed(windows)) /\ Unzoomed(windows) \in Seq(WindowType)
<1>1. SameIds(windows)
  BY DEF SameIds
<1>2. CASE active \in DOMAIN windows
  <2> DEFINE w == [windows[active] EXCEPT !.zoomed = FALSE]
  <2>1. w.id = windows[active].id
    BY <1>2, PlacingFacts DEF WindowType
  <2>2. Unzoomed(windows) = [windows EXCEPT ![active] = w]
    BY <1>2 DEF Unzoomed
  <2> HIDE DEF w
  <2> QED BY ZenonT(30), <1>1, <1>2, <2>1, <2>2, PlacingFacts, ReplacedIds, UnzoomedPlacement
<1>3. CASE active \notin DOMAIN windows
  BY <1>1, <1>3, UnzoomedPlacement DEF Unzoomed
<1> QED BY <1>2, <1>3

LEMMA UnzoomedByIds ==
  ASSUME Placing, NEW i
  PROVE  SameIds(UnzoomedBy(windows, i)) /\ UnzoomedBy(windows, i) \in Seq(WindowType)
BY UnzoomedIds, PlacingFacts DEF UnzoomedBy, SameIds

LEMMA QuietTabs ==
  ASSUME Placing, UNCHANGED <<windows, nextPane>>
  PROVE  Tabbed
BY PlacingFacts DEF Tabbed, Stays, SameIds

LEMMA RefusedTabs ==
  ASSUME Placing, Refused(Unzoomed(windows))
  PROVE  Tabbed
BY UnzoomedIds, PlacingFacts DEF Refused, Tabbed, Stays, paneVars

\* The focused pane of a window is split.
LEMMA SplitIds ==
  ASSUME Placing, NEW ws \in Seq(WindowType), SameIds(ws), NEW i \in DOMAIN windows,
         Spawned(SplitIn(ws, i, nextPane), active)
  PROVE  Tabbed
<1> DEFINE w == [ws[i] EXCEPT !.tree = SplitPane(ws[i].tree, ws[i].focused, nextPane),
                              !.focused = nextPane]
<1>1. i \in DOMAIN ws /\ ws[i] \in WindowType
  BY PlacingFacts DEF SameIds
<1>2. w.id = windows[i].id
  BY <1>1 DEF WindowType, SameIds
<1>3. windows' = [ws EXCEPT ![i] = w]
  BY <1>1 DEF Spawned, SplitIn
<1> HIDE DEF w
<1>4. SameIds(windows')
  BY <1>2, <1>3, ReplacedIds
<1> QED BY <1>4, PlacingFacts DEF Spawned, Tabbed, Stays

LEMMA SplitTabs ==
  ASSUME Placing
  PROVE  /\ \A m : SplitFocused(m) => Tabbed
         /\ \A i \in DOMAIN windows : SplitWindow(i) => Tabbed
<1>1. ASSUME NEW m, SplitFocused(m) PROVE Tabbed
  <2>1. active \in DOMAIN windows
    BY <1>1, PlacingFacts DEF SplitFocused
  <2> QED BY <1>1, <2>1, UnzoomedIds, SplitIds, RefusedTabs DEF SplitFocused
<1>2. ASSUME NEW i \in DOMAIN windows, SplitWindow(i) PROVE Tabbed
  <2>1. SameIds(windows) /\ windows \in Seq(WindowType)
    BY PlacingFacts DEF SameIds
  <2> QED BY <1>2, <2>1, SplitIds DEF SplitWindow
<1> QED BY <1>1, <1>2

LEMMA AppendTabs ==
  ASSUME Placing, NEW pinned \in BOOLEAN,
         LET ws == Unzoomed(windows)
         IN  \/ Spawned(Append(ws, NewWindowRec(nextPane, pinned)), Len(ws) + 1)
             \/ Refused(ws)
  PROVE  Tabbed
<1> DEFINE ws == Unzoomed(windows)
           w  == NewWindowRec(nextPane, pinned)
<1>1. CASE Spawned(Append(ws, w), Len(ws) + 1)
  <2>1. ws \in Seq(WindowType) /\ Len(ws) = Len(windows) /\ DOMAIN windows = 1..Len(windows)
        /\ \A i \in DOMAIN windows : ws[i].id = windows[i].id
    BY UnzoomedIds, PlacingFacts DEF SameIds
  <2>2. w.id = nextPane
    BY DEF NewWindowRec
  <2>3. /\ windows' = Append(ws, w) /\ active' = Len(ws) + 1
        /\ nextPane <= MaxPanes /\ nextPane' = nextPane + 1
    BY <1>1 DEF Spawned
  <2> HIDE DEF ws, w
  <2>4. /\ Len(windows') = Len(ws) + 1 /\ windows'[Len(ws) + 1] = w
        /\ \A i \in 1..Len(ws) : windows'[i] = ws[i]
    BY <2>1, <2>3, AppendProperties
  <2> QED BY <2>1, <2>2, <2>3, <2>4 DEF Tabbed, Opens
<1>2. CASE Refused(ws)
  BY <1>2, RefusedTabs
<1> QED BY <1>1, <1>2

LEMMA RemovalTabs ==
  ASSUME Placing, UNCHANGED nextPane
  PROVE  /\ \A i \in DOMAIN windows : \A m : DropWindow(i, m) => Tabbed
         /\ \A p, m : PaneExited(p, m) => Tabbed
<1>1. ASSUME NEW i \in DOMAIN windows, NEW m, DropWindow(i, m) PROVE Tabbed
  BY <1>1 DEF DropWindow, Tabbed, Drops
<1>2. ASSUME NEW p, NEW m, PaneExited(p, m) PROVE Tabbed
  <2> DEFINE i == WindowOf(windows, p)
  <2>1. i \in DOMAIN windows
    BY <1>2, WindowOfPane DEF PaneExited, Placing
  <2>2. CASE IsLeaf(windows[i].tree)
    BY <1>1, <1>2, <2>1, <2>2 DEF PaneExited
  <2>3. CASE ~IsLeaf(windows[i].tree)
    <3> DEFINE ws == UnzoomedBy(windows, i)
               t  == ClosePane(windows[i].tree, p)
               f  == FocusAfter(windows[i], p, t)
               w  == [ws[i] EXCEPT !.tree = t, !.focused = f]
    <3>1. Shrink(p, i, m)
      BY <1>2, <2>3 DEF PaneExited
    <3>2. windows' = [ws EXCEPT ![i].tree = t, ![i].focused = f]
      BY <3>1 DEF Shrink
    <3>3. SameIds(ws) /\ ws \in Seq(WindowType)
      BY UnzoomedByIds
    <3> HIDE DEF i, ws, t, f
    <3>4. ws[i] \in WindowType /\ i \in DOMAIN ws
      BY <2>1, <3>3, PlacingFacts DEF SameIds
    <3>5. windows' = [ws EXCEPT ![i] = w] /\ w.id = windows[i].id
      BY <2>1, <3>2, <3>3, <3>4 DEF WindowType, SameIds
    <3> HIDE DEF w
    <3>6. SameIds(windows')
      BY <2>1, <3>3, <3>5, ReplacedIds
    <3> QED BY <3>6, PlacingFacts DEF Tabbed, Stays
  <2> QED BY <2>2, <2>3
<1> QED BY <1>1, <1>2

LEMMA FocusTabs ==
  ASSUME Placing, NEW p, Focus(p), UNCHANGED <<active, paneVars>>
  PROVE  Tabbed
<1>1. CASE Running /\ p \in PanesOf(windows[active])
  <2> DEFINE w == [windows[active] EXCEPT !.focused = p]
  <2>1. active \in DOMAIN windows /\ windows[active] \in WindowType
    BY <1>1, PlacingFacts
  <2>2. windows' = [windows EXCEPT ![active] = w] /\ w.id = windows[active].id
    BY <1>1, <2>1 DEF Focus, WindowType
  <2> HIDE DEF w
  <2>3. SameIds(windows) /\ windows \in Seq(WindowType)
    BY PlacingFacts DEF SameIds
  <2>4. SameIds(windows')
    BY <2>1, <2>2, <2>3, ReplacedIds
  <2> QED BY <2>4, PlacingFacts DEF Tabbed, Stays, paneVars
<1>2. CASE ~(Running /\ p \in PanesOf(windows[active]))
  BY <1>2, QuietTabs DEF Focus, paneVars
<1> QED BY <1>1, <1>2

LEMMA SwitchTabs ==
  ASSUME Placing, windows' = Unzoomed(windows), UNCHANGED nextPane
  PROVE  Tabbed
BY UnzoomedIds, PlacingFacts DEF Tabbed, Stays

LEMMA SidebarTabs ==
  ASSUME Placing, NEW c, NEW i, NEW p, ClickSidebar(c, i, p)
  PROVE  Tabbed
<1> DEFINE ws == Unzoomed(windows)
           w  == [ws[i] EXCEPT !.focused = p, !.zoomed = FALSE]
<1>1. i \in DOMAIN windows /\ SameIds(ws) /\ ws \in Seq(WindowType)
  BY UnzoomedIds DEF ClickSidebar
<1>2. i \in DOMAIN ws /\ ws[i] \in WindowType
  BY <1>1, PlacingFacts DEF SameIds
<1>3. windows' = [ws EXCEPT ![i] = w] /\ nextPane' = nextPane
  BY <1>2 DEF ClickSidebar
<1> HIDE DEF ws
<1>4. w.id = windows[i].id
  BY <1>1, <1>2 DEF SameIds, WindowType
<1> HIDE DEF w
<1>5. SameIds(windows')
  BY <1>1, <1>3, <1>4, ReplacedIds
<1> QED BY <1>3, <1>5, PlacingFacts DEF Tabbed, Stays

\* A name, a zoom or a divider of window i changes.
LEMMA ChangeTabs ==
  ASSUME Placing, NEW i \in DOMAIN windows, NEW w, w.id = windows[i].id,
         windows' = [windows EXCEPT ![i] = w], UNCHANGED nextPane
  PROVE  Tabbed
<1>1. SameIds(windows) /\ windows \in Seq(WindowType)
  BY PlacingFacts DEF SameIds
<1>2. SameIds(windows')
  BY <1>1, ReplacedIds
<1> QED BY <1>2, PlacingFacts DEF Tabbed, Stays

LEMMA NameTabs ==
  ASSUME Placing, NEW i, NEW pinned, SetWindowName(i, pinned), UNCHANGED nextPane
  PROVE  Tabbed
<1>1. i \in DOMAIN windows /\ windows[i] \in WindowType
  BY PlacingFacts DEF SetWindowName
<1>2. /\ windows' = [windows EXCEPT ![i] = [windows[i] EXCEPT !.pinned = pinned]]
      /\ [windows[i] EXCEPT !.pinned = pinned].id = windows[i].id
  BY <1>1 DEF SetWindowName, WindowType
<1> QED BY <1>1, <1>2, ChangeTabs

LEMMA ZoomTabs ==
  ASSUME Placing, NEW m, ToggleZoom(m)
  PROVE  Tabbed
<1>1. active \in DOMAIN windows /\ windows[active] \in WindowType
  BY PlacingFacts DEF ToggleZoom
<1>2. /\ windows' = [windows EXCEPT ![active] = [windows[active] EXCEPT !.zoomed = ~@]]
      /\ [windows[active] EXCEPT !.zoomed = ~@].id = windows[active].id
      /\ nextPane' = nextPane
  BY <1>1 DEF ToggleZoom, WindowType
<1> QED BY <1>1, <1>2, ChangeTabs

LEMMA DividerTabs ==
  ASSUME Placing, NEW c, NEW r, DragDivider(c, r)
  PROVE  Tabbed
<1> DEFINE i == drag[c].window
           t == SetRatio(windows[i].tree, drag[c].path, r)
<1>1. i \in DOMAIN windows /\ windows[i] \in WindowType
  BY PlacingFacts DEF DragDivider
<1>2. /\ windows' = [windows EXCEPT ![i] = [windows[i] EXCEPT !.tree = t]]
      /\ nextPane' = nextPane
  BY <1>1 DEF DragDivider
<1> HIDE DEF t
<1>3. [windows[i] EXCEPT !.tree = t].id = windows[i].id
  BY <1>1 DEF WindowType
<1> QED BY <1>1, <1>2, <1>3, ChangeTabs

LEMMA ChoiceTabs ==
  ASSUME Placing, ChooseItem
  PROVE  Tabbed
<1>1. CASE SplitFocused(NoMenu)
  BY <1>1, SplitTabs
<1>2. CASE ToggleZoom(NoMenu)
  BY <1>2, ZoomTabs
<1>3. CASE CloseFocused(NoMenu)
  BY <1>3, RemovalTabs DEF CloseFocused, PaneExited
<1>4. CASE CloseWindow(menu.window, NoMenu)
  BY <1>4, RemovalTabs DEF CloseWindow
<1>5. CASE UNCHANGED <<tabVars, paneVars>>
  BY <1>5, QuietTabs DEF tabVars, paneVars
<1> QED BY <1>1, <1>2, <1>3, <1>4, <1>5 DEF ChooseItem

LEMMA CommandTabs ==
  ASSUME Placing, Command
  PROVE  Tabbed
<1>1. ASSUME NEW m, SplitFocused(m) PROVE Tabbed
  BY <1>1, SplitTabs
<1>2. ASSUME NEW i \in DOMAIN windows, SplitWindow(i) PROVE Tabbed
  BY <1>2, SplitTabs
<1>3. ASSUME NEW m, CloseFocused(m) PROVE Tabbed
  BY <1>3, RemovalTabs DEF CloseFocused, PaneExited
<1>4. ASSUME NEW i \in DOMAIN windows, CloseWindow(i, menu) PROVE Tabbed
  BY <1>4, RemovalTabs DEF CloseWindow
<1>5. ASSUME NEW pinned \in BOOLEAN, NewWindow(pinned) PROVE Tabbed
  BY <1>5, AppendTabs DEF NewWindow
<1>6. ASSUME NEW i \in DOMAIN windows, SwitchWindow(i) PROVE Tabbed
  BY <1>6, SwitchTabs DEF SwitchWindow, paneVars
<1>7. CASE ToggleZoom(menu)
  BY <1>7, ZoomTabs
<1>8. CASE ToggleSidebar
  BY <1>8, QuietTabs DEF ToggleSidebar, tabVars
<1>9. ASSUME NEW i \in DOMAIN windows, NEW pinned \in BOOLEAN, RenameWindow(i, pinned)
      PROVE  Tabbed
  BY <1>9, NameTabs DEF RenameWindow, paneVars
<1>10. CASE ShowHelp \/ OpenNewWindowDialog \/ EnterCopyMode
  BY <1>10, QuietTabs DEF ShowHelp, OpenNewWindowDialog, EnterCopyMode, tabVars, paneVars
<1> QED
  BY <1>1, <1>2, <1>3, <1>4, <1>5, <1>6, <1>7, <1>8, <1>9, <1>10 DEF Command

LEMMA OverlayTabs ==
  ASSUME Placing, Overlay
  PROVE  Tabbed
<1>1. ASSUME NEW pinned \in BOOLEAN, SubmitNewWindow(pinned) PROVE Tabbed
  BY <1>1, AppendTabs DEF SubmitNewWindow
<1>2. ASSUME NEW pinned \in BOOLEAN, SubmitRename(pinned) PROVE Tabbed
  BY <1>2, NameTabs, QuietTabs DEF SubmitRename, paneVars
<1>3. CASE DismissHelp \/ CancelDialog \/ DismissMenu \/ ExitCopyMode
  BY <1>3, QuietTabs
  DEF DismissHelp, CancelDialog, DismissMenu, ExitCopyMode, tabVars, paneVars
<1> QED BY <1>1, <1>2, <1>3, ChoiceTabs DEF Overlay

LEMMA OutsideTabs ==
  ASSUME Placing, Outside
  PROVE  Tabbed
<1>1. ASSUME NEW p, PaneExited(p, menu) PROVE Tabbed
  BY <1>1, RemovalTabs DEF PaneExited
<1>2. ASSUME NEW r, Resize(r) PROVE Tabbed
  BY <1>2, QuietTabs DEF Resize, tabVars
<1>3. CASE TakeSnapshotDirty
  BY <1>3, QuietTabs DEF TakeSnapshotDirty, tabVars, paneVars
<1> QED BY <1>1, <1>2, <1>3 DEF Outside

LEMMA MouseTabs ==
  ASSUME Placing, NEW c \in Clients, Mouse(c)
  PROVE  Tabbed
<1>1. CASE ClickOverlay(c)
  BY <1>1, ChoiceTabs, QuietTabs
  DEF ClickOverlay, DismissHelp, DismissMenu, tabVars, paneVars
<1>2. ASSUME NEW p, ClickPane(c, p) PROVE Tabbed
  BY <1>2, FocusTabs DEF ClickPane
<1>3. ASSUME NEW i, ClickTab(c, i) PROVE Tabbed
  BY <1>3, SwitchTabs DEF ClickTab, paneVars
<1>4. ASSUME NEW i, NEW p, ClickSidebar(c, i, p) PROVE Tabbed
  BY <1>4, SidebarTabs
<1>5. ASSUME NEW s, ClickDivider(c, s) PROVE Tabbed
  BY <1>5, QuietTabs DEF ClickDivider, tabVars, paneVars
<1>6. CASE ClickPlus(c) \/ Release(c) \/ ClientGone(c)
  BY <1>6, QuietTabs DEF ClickPlus, Release, ClientGone, tabVars, paneVars
<1>7. CASE RightClick(c)
  <2>1. ASSUME NEW p, Focus(p) PROVE Tabbed
    BY <1>7, <2>1, FocusTabs DEF RightClick
  <2>2. CASE UNCHANGED windows
    BY <1>7, <2>2, QuietTabs DEF RightClick, paneVars
  <2> QED BY <1>7, <2>1, <2>2 DEF RightClick, OpenMenu
<1>8. CASE DragSelect(c)
  BY <1>8, FocusTabs DEF DragSelect
<1>9. ASSUME NEW r, DragDivider(c, r) PROVE Tabbed
  BY <1>9, DividerTabs
<1> QED
  BY <1>1, <1>2, <1>3, <1>4, <1>5, <1>6, <1>7, <1>8, <1>9 DEF Mouse

LEMMA StepTabs == Placing /\ [Next]_vars => Tabbed
<1> SUFFICES ASSUME Placing, [Next]_vars PROVE Tabbed
  OBVIOUS
<1>1. CASE UNCHANGED vars
  BY <1>1, QuietTabs DEF vars, tabVars, paneVars
<1> QED
  BY <1>1, CommandTabs, OverlayTabs, OutsideTabs, MouseTabs DEF Next

-----------------------------------------------------------------------------
(* Identities are never used twice.                                        *)

Distinct == /\ \A i \in DOMAIN windows : windows[i].id < nextPane
            /\ \A i, j \in DOMAIN windows : windows[i].id = windows[j].id => i = j

\* Window i is gone: what is where, and who is in front.
LEMMA DroppedWindows ==
  ASSUME Placing, NEW i \in DOMAIN windows, Drops(i)
  PROVE  /\ windows' \in Seq(WindowType) /\ Len(windows') = Len(windows) - 1
         /\ DOMAIN windows' = 1..Len(windows) - 1
         /\ \A j \in 1..Len(windows) - 1 :
               windows'[j] = IF j < i THEN windows[j] ELSE windows[j + 1]
<1>1. i \in 1..Len(windows) /\ windows \in Seq(WindowType)
  BY PlacingFacts
<1>2. PICK vs : vs = RemoveAt(windows, i)
  OBVIOUS
<1>3. /\ vs \in Seq(WindowType) /\ Len(vs) = Len(windows) - 1
      /\ \A j \in 1..Len(windows) - 1 : vs[j] = IF j < i THEN windows[j] ELSE windows[j + 1]
  BY <1>1, <1>2, RemoveAtFacts
<1>4. windows' = vs
  BY <1>2 DEF Drops
<1> QED BY <1>3, <1>4

LEMMA DistinctStep == Placing /\ Placing' /\ Distinct /\ Tabbed => Distinct'
<1> SUFFICES ASSUME Placing, Placing', Distinct, Tabbed PROVE Distinct'
  OBVIOUS
<1>1. \A j \in DOMAIN windows : windows[j].id \in Nat
  BY PlacingFacts DEF WindowType, PaneId
<1>2. /\ windows \in Seq(WindowType) /\ Len(windows) \in Nat
      /\ DOMAIN windows = 1..Len(windows) /\ nextPane \in Nat
  BY PlacingFacts
<1>3. /\ windows' \in Seq(WindowType) /\ DOMAIN windows' = 1..Len(windows')
      /\ nextPane' \in Nat
  BY MaxPanesAssumption DEF Placing, Placement
<1>4. CASE Stays
  BY <1>1, <1>2, <1>3, <1>4 DEF Stays, SameIds, Distinct
<1>5. CASE Opens
  BY SMTT(30), <1>1, <1>2, <1>3, <1>5 DEF Opens, Distinct
<1>6. ASSUME NEW i \in DOMAIN windows, Drops(i) PROVE Distinct'
  <2> DEFINE was(j) == IF j < i THEN j ELSE j + 1
  <2>1. DOMAIN windows' = 1..Len(windows) - 1 /\ nextPane' = nextPane
    BY <1>6, DroppedWindows DEF Drops
  <2>2. \A j \in DOMAIN windows' : was(j) \in DOMAIN windows /\ windows'[j] = windows[was(j)]
    <3>1. \A j \in 1..Len(windows) - 1 :
             windows'[j] = IF j < i THEN windows[j] ELSE windows[j + 1]
      BY <1>6, DroppedWindows
    <3>2. \A j \in 1..Len(windows) - 1 : was(j) \in 1..Len(windows)
      BY <1>2
    <3>3. \A j \in 1..Len(windows) - 1 : windows'[j] = windows[was(j)]
      BY <3>1
    <3> HIDE DEF was
    <3> QED BY <1>2, <2>1, <3>2, <3>3
  <2>3. \A j, k \in DOMAIN windows' : was(j) = was(k) => j = k
    BY <1>2, <2>1
  <2> HIDE DEF was
  <2> QED BY <2>1, <2>2, <2>3 DEF Distinct
<1> QED BY <1>4, <1>5, <1>6 DEF Tabbed

LEMMA DistinctAlways == Spec => []Distinct
<1>1. Init => Distinct
  BY DEF Init, Distinct, NewWindowRec
<1>2. Placing /\ Placing' /\ Distinct /\ [Next]_vars => Distinct'
  BY StepTabs, DistinctStep
<1> QED BY <1>1, <1>2, PlacingAlways, PTL DEF Spec

-----------------------------------------------------------------------------
(* The refinement                                                          *)

Ids   == [i \in DOMAIN windows |-> windows[i].id]
Shown == IF Running THEN windows[active].id ELSE NoPane

LEMMA IdsFacts ==
  ASSUME Placing
  PROVE  /\ Ids \in Seq(PaneId) /\ Len(Ids) = Len(windows) /\ DOMAIN Ids = DOMAIN windows
         /\ \A i \in DOMAIN windows : Ids[i] = windows[i].id /\ windows[i].id \in PaneId
         /\ ToSet(Ids) = {windows[i].id : i \in DOMAIN windows}
<1>1. /\ windows \in Seq(WindowType) /\ Len(windows) \in Nat
      /\ DOMAIN windows = 1..Len(windows)
      /\ \A i \in DOMAIN windows : windows[i].id \in PaneId
  BY PlacingFacts DEF WindowType
<1>2. Ids \in [1..Len(windows) -> PaneId]
  BY <1>1 DEF Ids
<1>3. Ids \in Seq(PaneId) /\ Len(Ids) = Len(windows)
  BY <1>1, <1>2
<1>4. ToSet(Ids) = {windows[i].id : i \in DOMAIN windows}
  BY DEF ToSet, Ids
<1> QED BY <1>1, <1>3, <1>4 DEF Ids

\* The operators on sequences that Tabs takes are those of Session.
LEMMA SameOperators ==
  ASSUME NEW s, NEW i
  PROVE  TabBar!ToSet(s) = ToSet(s) /\ TabBar!RemoveAt(s, i) = RemoveAt(s, i)
BY DEF ToSet, RemoveAt, TabBar!ToSet, TabBar!RemoveAt

LEMMA AppendFacts ==
  ASSUME NEW S, NEW s \in Seq(S), NEW e \in S
  PROVE  Append(s, e) = [i \in 1..Len(s) + 1 |-> IF i <= Len(s) THEN s[i] ELSE e]
<1>1. /\ Append(s, e) \in Seq(S) /\ Len(Append(s, e)) = Len(s) + 1
      /\ \A i \in 1..Len(s) : Append(s, e)[i] = s[i]
      /\ Append(s, e)[Len(s) + 1] = e
  OBVIOUS
<1>2. PICK t : t = Append(s, e)
  OBVIOUS
<1>3. t \in Seq(S) /\ DOMAIN t = 1..Len(s) + 1 /\ Len(s) \in Nat
  BY <1>1, <1>2
<1>4. t = [i \in 1..Len(s) + 1 |-> t[i]]
  BY <1>3
<1>5. \A i \in 1..Len(s) + 1 : t[i] = IF i <= Len(s) THEN s[i] ELSE e
  BY <1>1, <1>2, <1>3
<1> QED BY <1>2, <1>4, <1>5

\* Opening a window.
LEMMA OpensTab ==
  ASSUME Placing, Placing', Distinct, Opens
  PROVE  \E w \in PaneId : TabBar!Open(w)
<1>1. nextPane \in PaneId /\ nextPane \notin ToSet(Ids)
  <2>1. nextPane \in 1..MaxPanes
    BY MaxPanesAssumption DEF Placing, Placement, Opens
  <2>2. \A i \in DOMAIN windows : windows[i].id # nextPane
    BY PlacingFacts DEF Distinct, WindowType, PaneId
  <2> QED BY <2>1, <2>2, IdsFacts DEF PaneId
<1>2. /\ windows' \in Seq(WindowType) /\ Len(windows') = Len(windows) + 1
      /\ DOMAIN windows' = 1..Len(windows) + 1 /\ Running'
  BY PlacingFacts DEF Opens, Placing, Placement, Running
<1>3. Ids' = Append(Ids, nextPane)
  <2>1. \A i \in 1..Len(windows) + 1 : Ids'[i] = IF i <= Len(windows) THEN Ids[i] ELSE nextPane
    BY <1>2, PlacingFacts DEF Ids, Opens
  <2>2. DOMAIN Ids' = 1..Len(windows) + 1 /\ Ids' = [i \in DOMAIN windows' |-> windows'[i].id]
    BY <1>2 DEF Ids
  <2>3. Append(Ids, nextPane) = [i \in 1..Len(Ids) + 1 |-> IF i <= Len(Ids) THEN Ids[i] ELSE nextPane]
    BY <1>1, IdsFacts, AppendFacts
  <2> QED BY <2>1, <2>2, <2>3, <1>2, IdsFacts
<1>4. Shown' = nextPane
  BY <1>2 DEF Shown, Opens
<1> QED BY <1>1, <1>3, <1>4, SameOperators DEF TabBar!Open, Ids, Shown

\* Another window in front, or the same.
LEMMA StaysTab ==
  ASSUME Placing, Placing', Stays
  PROVE  (\E w \in PaneId : TabBar!Switch(w)) \/ UNCHANGED <<Ids, Shown>>
<1>1. Ids' = Ids /\ DOMAIN windows' = DOMAIN windows
  BY PlacingFacts DEF Stays, SameIds, Ids, Placing, Placement
<1>2. CASE Running'
  <2>1. active' \in DOMAIN windows
    BY <1>1, <1>2 DEF Placing, Placement, Running
  <2>2. Shown' = windows[active'].id
    BY <1>2, <2>1 DEF Shown, Stays, SameIds
  <2>3. Shown' \in ToSet(Ids) /\ Shown' \in PaneId
    BY <2>1, <2>2, IdsFacts
  <2>4. TabBar!Switch(Shown')
    BY <1>1, <2>3, SameOperators DEF TabBar!Switch, Ids, Shown
  <2> QED BY <2>3, <2>4
<1>3. CASE ~Running'
  <2>1. ~Running
    BY <1>1, <1>3, PlacingFacts DEF Running, Placing, Placement
  <2> QED BY <1>1, <1>3, <2>1 DEF Shown
<1> QED BY <1>2, <1>3

\* A window goes.
LEMMA DropsTab ==
  ASSUME Placing, Placing', Distinct, NEW i \in DOMAIN windows, Drops(i)
  PROVE  i \in DOMAIN Ids /\ TabBar!Close(i)
<1>1. /\ Len(windows) \in Nat /\ i \in 1..Len(windows) /\ active \in 1..Len(windows)
      /\ DOMAIN windows = 1..Len(windows) /\ Running
  BY PlacingFacts DEF Running
<1>2. /\ DOMAIN windows' = 1..Len(windows) - 1 /\ Len(windows') = Len(windows) - 1
      /\ \A j \in 1..Len(windows) - 1 :
            windows'[j] = IF j < i THEN windows[j] ELSE windows[j + 1]
      /\ active' = ActiveAfter(i)
  BY DroppedWindows DEF Drops
<1>3. Ids' = RemoveAt(Ids, i)
  <2>1. PICK r : r = RemoveAt(Ids, i)
    OBVIOUS
  <2>2. /\ r \in Seq(PaneId) /\ Len(r) = Len(windows) - 1
        /\ \A j \in 1..Len(windows) - 1 : r[j] = IF j < i THEN Ids[j] ELSE Ids[j + 1]
    <3>1. Ids \in Seq(PaneId) /\ Len(Ids) = Len(windows) /\ i \in 1..Len(Ids)
      BY <1>1, IdsFacts
    <3>2. /\ RemoveAt(Ids, i) \in Seq(PaneId) /\ Len(RemoveAt(Ids, i)) = Len(Ids) - 1
          /\ \A j \in 1..Len(Ids) - 1 : RemoveAt(Ids, i)[j] = IF j < i THEN Ids[j] ELSE Ids[j + 1]
      BY <3>1, RemoveAtFacts
    <3> QED
      BY <2>1, <3>1, <3>2
  <2>3. r = [j \in 1..Len(windows) - 1 |-> r[j]]
    BY <2>2
  <2>4. \A j \in 1..Len(windows) - 1 : r[j] = windows'[j].id
    BY SMTT(30), <1>1, <1>2, <2>2, IdsFacts
  <2>5. Ids' = [j \in 1..Len(windows) - 1 |-> windows'[j].id]
    BY <1>2 DEF Ids
  <2> QED BY <2>1, <2>3, <2>4, <2>5
<1>4. Running' <=> Len(windows) > 1
  BY <1>1, <1>2, PlacingFacts DEF Running, Placing, Placement
<1>5. Shown' = IF Shown # Ids[i] THEN Shown
               ELSE IF i < Len(Ids) THEN Ids[i + 1]
               ELSE IF i > 1 THEN Ids[i - 1]
               ELSE NoPane
  <2>1. Shown = windows[active].id /\ Ids[i] = windows[i].id /\ Len(Ids) = Len(windows)
    BY <1>1, IdsFacts DEF Shown
  <2>2. Shown # Ids[i] <=> active # i
    BY <1>1, <2>1 DEF Distinct
  <2>3. CASE active # i
    <3>1. Len(windows) > 1 /\ Running'
      BY <1>1, <1>4, <2>3
    <3>2. windows'[active'] = windows[active]
      BY <1>1, <1>2, <2>3 DEF ActiveAfter
    <3> QED BY <2>1, <2>2, <2>3, <3>1, <3>2 DEF Shown
  <2>4. CASE active = i /\ i < Len(windows)
    <3>1. Running' /\ windows'[active'] = windows[i + 1] /\ i + 1 \in DOMAIN windows
      BY <1>1, <1>2, <1>4, <2>4 DEF ActiveAfter
    <3>2. Shown' = windows[i + 1].id
      BY <3>1 DEF Shown
    <3>3. Shown' = Ids[i + 1] /\ Shown = Ids[i] /\ i < Len(Ids)
      BY <2>1, <2>4, <3>1, <3>2, IdsFacts
    <3> QED BY <3>3
  <2>5. CASE active = i /\ i = Len(windows) /\ Len(windows) > 1
    <3>1. Running' /\ windows'[active'] = windows[i - 1] /\ i - 1 \in DOMAIN windows
      BY <1>1, <1>2, <1>4, <2>5 DEF ActiveAfter
    <3>2. Shown' = windows[i - 1].id
      BY <3>1 DEF Shown
    <3>3. /\ Shown' = Ids[i - 1] /\ Shown = Ids[i]
          /\ ~(i < Len(Ids)) /\ i > 1
      BY <2>1, <2>5, <3>1, <3>2, IdsFacts
    <3> QED BY <3>3
  <2>6. CASE active = i /\ Len(windows) = 1
    BY <1>1, <1>4, <2>1, <2>2, <2>6 DEF Shown
  <2> QED BY <1>1, <2>3, <2>4, <2>5, <2>6
<1> QED BY <1>1, <1>3, <1>5, IdsFacts, SameOperators DEF TabBar!Close, Ids, Shown

\* The window vector and its index are the tab bar of Tabs: whatever opens, closes or
\* exits, the window in front stays in front unless it is the one that goes
\* (`windows` and `active_window`, session.rs).
THEOREM ShowsTabsHolds == Spec => ShowsTabs
<1>1. Init => TabBar!Init
  <2> SUFFICES ASSUME Init PROVE TabBar!Init
    OBVIOUS
  <2>1. windows = <<NewWindowRec(1, FALSE)>> /\ active = 1 /\ 1 \in PaneId
    BY MaxPanesAssumption DEF Init, PaneId
  <2>2. Running /\ windows[1].id = 1 /\ DOMAIN windows = {1}
    BY <2>1 DEF Running, NewWindowRec
  <2>3. [i \in DOMAIN windows |-> windows[i].id] = <<1>>
    BY <2>2
  <2> QED BY <2>1, <2>2, <2>3 DEF TabBar!Init
<1>2. Placing /\ Placing' /\ Distinct /\ [Next]_vars => [TabBar!Next]_(TabBar!tvars)
  <2> SUFFICES ASSUME Placing, Placing', Distinct, [Next]_vars
               PROVE  [TabBar!Next]_(TabBar!tvars)
    OBVIOUS
  <2>1. CASE Stays
    <3>1. CASE \E w \in PaneId : TabBar!Switch(w)
      BY <3>1 DEF TabBar!Next
    <3>2. CASE UNCHANGED <<Ids, Shown>>
      BY <3>2 DEF TabBar!tvars, Ids, Shown
    <3> QED BY <2>1, <3>1, <3>2, StaysTab
  <2>2. CASE Opens
    <3>1. \E w \in PaneId : TabBar!Open(w)
      BY <2>2, OpensTab
    <3>2. TabBar!Next
      BY <3>1 DEF TabBar!Next
    <3> QED BY <3>2
  <2>3. ASSUME NEW i \in DOMAIN windows, Drops(i) PROVE TabBar!Next
    BY <2>3, DropsTab DEF TabBar!Next, Ids
  <2> QED BY <2>1, <2>2, <2>3, StepTabs DEF Tabbed
<1> QED
  BY <1>1, <1>2, PlacingAlways, DistinctAlways, PTL DEF Spec, ShowsTabs, TabBar!Spec
=============================================================================
