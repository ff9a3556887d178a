----------------------------- MODULE FrameProps -----------------------------
(***************************************************************************)
(* What is asked of a frame, in every scene of `Scenes` that comes about   *)
(* with the tree of the state, while the tree is small (FramedPanes).      *)
(***************************************************************************)
EXTENDS Frame, LayoutTreeProps

CONSTANTS Scenes,       \* the scenes looked at
          FramedPanes   \* bound on the panes ever made in a framed tree

Framed == IF nextPane <= FramedPanes + 1 THEN {s \in Scenes : Arises(s)} ELSE {}
Screen(s) == (0..Viewport(s).w-1) \X (0..Viewport(s).h-1)

\* What was painted at a cell, as the answer expected of a press there.
Meant(s, o, shows) ==
  CASE s.overlay = "menu" -> IF "item" \in DOMAIN o \/ "border" \in DOMAIN o
                             THEN o ELSE [outside |-> TRUE]
    [] s.overlay = "help" -> IF "chip" \in DOMAIN o THEN o
                             ELSE IF "row" \in DOMAIN o \/ "box" \in DOMAIN o \/ ~shows
                             THEN [box |-> TRUE] ELSE [outside |-> TRUE]
    [] OTHER              -> o

\* The menu is not cut off.
Whole(m) == MenuRect(m, area).w = MenuW(m) /\ MenuRect(m, area).h = MenuH(m)

\* Cells where the code is known to differ: the end of a label written past
\* its chip, and a menu or a row of chips the content area cuts off.
Known(s, c) ==
  \/ LET bar == TabBar(s, Viewport(s).w)
     IN  /\ s.overlay # "menu" /\ c[2] = area.h
         /\ \E i \in DOMAIN bar.tabs : c[1] \in Written(s, bar, i, Viewport(s).w)
                                     /\ c[1] > bar.tabs[i].to
  \/ s.overlay = "menu" /\ ~Whole(s.menu)
  \/ /\ s.overlay = "help"
     /\ LET r == HelpRect(s.help, area)
        IN  r.x + r.w - 1 \in TabRegion(r, "keys") \cup TabRegion(r, "commands")

\* A press acts on what is painted under it, whatever the tree, the zoom, the
\* sidebar, the tabs and the overlay: Session::hit, menu_hit and help_hit
\* compute again what compose drew ("single source of truth shared by the
\* compositor's drawing and the click hit-testing", TabRegion).  A press on a
\* divider then drags the split that was drawn there.
PointerMeetsWhatIsShown ==
  \A s \in {s \in Framed : s.overlay \in {"none", "menu", "help"}} :
    LET frame == Compose(s)
        shows == Renderable(HelpRect(s.help, area))
    IN  \A c \in Screen(s) :
          /\ ~Known(s, c) => Pressed(s, c[1], c[2]) = Meant(s, frame[c], shows)
          /\ LET h == SessionHit(s, c[1], c[2])
             IN  "divider" \in DOMAIN h =>
                   Contains(SplitAreaAt(tree, area, h.divider).area, c[1], c[2])

\* The rows seen when help is scrolled down again and again.
RowsSeen(h) ==
  LET r == HelpRect(h, area)
      after[k \in 0..HelpRows[h.tab]] == IF k = 0 THEN h ELSE HelpScrolled(after[k-1], 1, r)
  IN  UNION {{o.row : o \in {f[c] : c \in {c \in DOMAIN f : "row" \in DOMAIN f[c]}}} :
               f \in {DrawHelp(after[k], area) : k \in 0..HelpRows[h.tab]}}

\* An overlay leaves the bar and the sidebar alone ("the bar/sidebar are never
\* overwritten"), the caret of the dialog is between its borders, and every
\* row of help can be scrolled to.
OverlaysFit ==
  \A s \in {s \in Framed : s.overlay # "none"} :
    LET frame == Compose(s)
        bare  == Bare(s)
        box   == DialogRect(area)
    IN  /\ \A c \in DOMAIN frame :
             c \in Cells(area) \/ (c \in DOMAIN bare /\ frame[c] = bare[c])
        /\ s.overlay = "dialog" /\ DialogShown(box) =>
             Cursor(s) \in Cells(Rect(box.x + 1, box.y + 1, box.w - 2, box.h - 2))
        /\ s.overlay = "help" /\ Renderable(HelpRect(s.help, area)) /\ area.h > HelpChrome =>
             RowsSeen([s.help EXCEPT !.scroll = 0]) = 1..HelpRows[s.help.tab]

\* The pointer finds what is drawn, and what is drawn is where it belongs.
DrawnAndFound == PointerMeetsWhatIsShown /\ OverlaysFit
=============================================================================
