------------------------------- MODULE Frame --------------------------------
(***************************************************************************)
(* One composed frame (src/compositor.rs) and what a pointer does on it    *)
(* (layout, menu, help, session::hit), over the trees of LayoutTree.       *)
(*                                                                         *)
(* A frame is a function from cells to what was painted there, last writer *)
(* first; characters and styles are left out, widths are not.  A scene is  *)
(* what Session hands over besides the tree:                               *)
(*   wide     the terminal has the columns of a sidebar                    *)
(*   sidebar  the sidebar is asked for                                     *)
(*   zoomed, focused                                                       *)
(*   names    the width of the name of every window, active their index   *)
(*   agents   the entries of the sidebar                                   *)
(*   menu, help, dialog, copy   the overlay, if any                        *)
(***************************************************************************)
EXTENDS LayoutTree, TLC

CONSTANTS SidebarWidth,   \* from the configuration
          MinContent,     \* SIDEBAR_MIN_CONTENT_COLS, 20 in the code
          SessionName,    \* its width
          NoAgents,       \* the width of "(no agents)"
          MenuItems,      \* the number of items of a kind of menu
          MenuLabel,      \* the width of its widest label
          HelpRows,       \* the number of rows of a help tab
          HelpChip,       \* the width of its label
          HelpMinW, HelpMaxW, FieldW, DesiredH

None == [none |-> TRUE]
Low0(n) == IF n > 0 THEN n ELSE 0
Min2(a, b) == IF a < b THEN a ELSE b
Max2(a, b) == IF a > b THEN a ELSE b

Cells(r) == (r.x .. r.x + r.w - 1) \X (r.y .. r.y + r.h - 1)
Painted(r, what) == [c \in Cells(r) |-> what]

-----------------------------------------------------------------------------
(* The partition of the viewport                                           *)

Regions(v, asked) ==
  LET shown == asked /\ v.w >= SidebarWidth + MinContent
      w == IF shown THEN v.w - SidebarWidth ELSE v.w
      h == Low0(v.h - 1)
  IN  [content |-> Rect(0, 0, w, h),
       tabRow  |-> h,
       sidebar |-> IF shown THEN Rect(w, 0, SidebarWidth, h) ELSE Rect(0, 0, 0, 0)]

\* The terminal of a scene.
Viewport(s) == [w |-> area.w + (IF s.wide THEN SidebarWidth ELSE 0), h |-> area.h + 1]

-----------------------------------------------------------------------------
(* The tab bar                                                             *)

TabNameMax == 12
PlusGap    == 2
PlusWidth  == 3

\* "<n>:<name>", then * on the active window and Z if it is zoomed.
TabLabel(s, i) ==
  2 + Min2(s.names[i], TabNameMax)
    + (IF i = s.active THEN IF s.zoomed THEN 2 ELSE 1 ELSE 0)
Chip(s, i) == TabLabel(s, i) + (IF i = s.active THEN 2 ELSE 0)

\* Chips in a row of `width` cells; those that would start beyond are left out.
TabLayout(s, width) ==
  LET start[i \in 1..Len(s.names)] ==
        IF i = 1 THEN SessionName + 2 ELSE start[i-1] + Chip(s, i-1) + 1
  IN  [i \in {i \in 1..Len(s.names) : start[i] < width} |->
         [from |-> start[i], to |-> Min2(start[i] + Chip(s, i) - 1, width - 1)]]

TabWidth(width) == Low0(width - (PlusGap + PlusWidth))

TabBar(s, width) ==
  LET tabs  == TabLayout(s, TabWidth(width))
      after == IF DOMAIN tabs = {} THEN SessionName + 2
               ELSE tabs[Cardinality(DOMAIN tabs)].to + 1
      from  == after + PlusGap
  IN  [tabs |-> tabs,
       plus |-> IF from + PlusWidth - 1 < width THEN from .. from + PlusWidth - 1 ELSE {}]

\* A label that is not active is written to the edge of the screen, also past
\* the end of its chip.
Written(s, bar, i, cols) ==
  IF i = s.active THEN bar.tabs[i].from .. bar.tabs[i].to
  ELSE bar.tabs[i].from .. Min2(bar.tabs[i].from + TabLabel(s, i), cols) - 1

DrawTabs(s, cols, y) ==
  LET bar == TabBar(s, cols)
      at(x) == {i \in DOMAIN bar.tabs : x \in Written(s, bar, i, cols)}
  IN  [c \in (0..cols-1) \X {y} |->
         IF c[1] \in bar.plus THEN [plus |-> TRUE]
         ELSE IF at(c[1]) # {}
              THEN [tab |-> CHOOSE i \in at(c[1]) : \A j \in at(c[1]) : j <= i]
              ELSE None]

-----------------------------------------------------------------------------
(* The sidebar: a header of two rows, a gap, and three rows per agent, the *)
(* last of them blank                                                      *)

Rooms(h) == Low0(h - 3) \div 3

\* Mutant: rows are counted from below the header.
RowsFromHeader(sb, i) == {sb.y + 3 * i - 1, sb.y + 3 * i}
EntryRows(sb, i) == {sb.y + 3 * i, sb.y + 3 * i + 1}

DrawSidebar(s, sb) ==
  IF sb.h < 3 THEN <<>>
  ELSE LET first == sb.x + 1 + Low0(sb.w - 1 - NoAgents) \div 2
           empty == {<<x, sb.y + 3>> : x \in first .. Min2(first + NoAgents, sb.x + sb.w) - 1}
           rows(i) == {<<x, y>> : x \in sb.x .. sb.x + sb.w - 1,
                                  y \in {sb.y + 3 * i, sb.y + 3 * i + 1}}
           drawn == 1..Min2(Len(s.agents), Rooms(sb.h))
       IN  [c \in UNION {rows(i) : i \in drawn} |->
              [entry |-> s.agents[CHOOSE i \in drawn : c \in rows(i)]]]
           @@ [c \in Cells(sb) \cup (IF s.agents = <<>> THEN empty ELSE {}) |-> None]

-----------------------------------------------------------------------------
(* The context menu: at the click, moved left or above it if need be, and  *)
(* clipped                                                                 *)

MenuW(m) == MenuLabel[m.kind] + 4
MenuH(m) == MenuItems[m.kind] + 2

Corner(m, a) ==
  LET ax == Low0(m.at[1] - 1)
      ay == Low0(m.at[2] - 1)
      right  == a.x + Low0(a.w - 1)
      bottom == a.y + Low0(a.h - 1)
  IN  <<IF ax + MenuW(m) - 1 > right THEN Max2(Low0(right - (MenuW(m) - 1)), a.x) ELSE ax,
        IF ay + MenuH(m) - 1 > bottom THEN Max2(Low0(ay - (MenuH(m) - 1)), a.y) ELSE ay>>

\* Mutant: the menu is clipped to the screen, not to the content.
MenuRectLoose(m, a) ==
  LET k == Corner(m, a) IN Rect(k[1], k[2], MenuW(m), MenuH(m))
MenuRect(m, a) ==
  LET k  == Corner(m, a)
      x0 == Max2(k[1], a.x)
      y0 == Max2(k[2], a.y)
      x1 == Min2(k[1] + MenuW(m) - 1, a.x + Low0(a.w - 1))
      y1 == Min2(k[2] + MenuH(m) - 1, a.y + Low0(a.h - 1))
  IN  Rect(x0, y0, Low0(x1 - x0) + 1, Low0(y1 - y0) + 1)

\* Borders are painted where the whole menu would have them.
DrawMenu(m, a) ==
  LET k == Corner(m, a)
  IN  [c \in Cells(MenuRect(m, a)) |->
         IF c[1] \in {k[1], k[1] + MenuW(m) - 1} \/ c[2] \in {k[2], k[2] + MenuH(m) - 1}
         THEN [border |-> TRUE]
         ELSE [item |-> c[2] - k[2]]]

MenuHit(m, a, x, y) ==
  LET r == MenuRect(m, a)
  IN  IF ~Contains(r, x, y) THEN [outside |-> TRUE]
      ELSE IF \/ x \in {r.x, r.x + r.w - 1} \/ y \in {r.y, r.y + r.h - 1}
              \/ y - r.y > MenuItems[m.kind]
           THEN [border |-> TRUE]
           ELSE [item |-> y - r.y]

-----------------------------------------------------------------------------
(* The help box, with two chips in its second row                          *)

HelpChrome == 5

HelpRect(h, a) ==
  LET height == Min2(HelpChrome + HelpRows[h.tab], a.h)
      width  == Min2(a.w, HelpMaxW)
  IN  Rect(a.x + (a.w - width) \div 2, a.y + (a.h - height) \div 2, width, height)

Renderable(r) == r.h >= HelpChrome /\ r.w >= HelpMinW

TabRegion(r, tab) ==
  LET first == r.x + 2
      second == first + HelpChip["keys"] + 2 + 2
  IN  IF tab = "keys" THEN first .. first + HelpChip["keys"] + 1
      ELSE second .. second + HelpChip["commands"] + 1

MaxScroll(h, r) == Low0(HelpRows[h.tab] - Low0(r.h - HelpChrome))

\* help_scroll, then the clamp when it is painted.
HelpScrolled(h, delta, r) ==
  [h EXCEPT !.scroll = IF delta < 0 THEN Low0(@ - 1) ELSE Min2(@ + 1, MaxScroll(h, r))]
FirstRow(h, r) == Min2(h.scroll, MaxScroll(h, r)) + 1

DrawHelp(h, a) ==
  LET r == HelpRect(h, a)
      inner == r.x + 1 .. r.x + r.w - 2
      body(c) == FirstRow(h, r) + c[2] - (r.y + 3)
  IN  IF ~Renderable(r) THEN <<>>
      ELSE [c \in Cells(r) |->
              IF c[2] = r.y + 1 /\ \E t \in DOMAIN HelpRows : c[1] \in TabRegion(r, t) \cap inner
              THEN [chip |-> CHOOSE t \in DOMAIN HelpRows : c[1] \in TabRegion(r, t)]
              ELSE IF c[2] \in r.y + 3 .. r.y + r.h - 3 /\ body(c) <= HelpRows[h.tab]
                   THEN [row |-> body(c)]
                   ELSE [box |-> TRUE]]

HelpHit(h, a, x, y) ==
  LET r == HelpRect(h, a)
      on == {t \in DOMAIN HelpRows : x \in TabRegion(r, t)}
  IN  IF ~Renderable(r) THEN [box |-> TRUE]
      ELSE IF ~Contains(r, x, y) THEN [outside |-> TRUE]
      ELSE IF y = r.y + 1 /\ on # {} THEN [chip |-> CHOOSE t \in on : TRUE]
      ELSE [box |-> TRUE]

-----------------------------------------------------------------------------
(* The dialog and its caret                                                *)

DialogRect(a) ==
  LET w == Min2(FieldW + 8, a.w)
      h == Min2(DesiredH, a.h)
  IN  Rect(a.x + (a.w - w) \div 2, a.y + (a.h - h) \div 2, w, h)

DialogShown(r) == r.w >= 8 /\ r.h >= 5

\* d: how many characters were typed.  The tail that fits is shown.
Shown(d, r) == Min2(d, Low0(Low0(r.w - 8) - 1))

Caret(d, r) == <<Min2(Min2(r.x + 4 + Shown(d, r), r.x + r.w - 1), r.x + r.w - 2), r.y + 3>>

DrawDialog(a) ==
  IF DialogShown(DialogRect(a)) THEN Painted(DialogRect(a), [box |-> TRUE]) ELSE <<>>

-----------------------------------------------------------------------------
(* compose                                                                 *)

Drawn(s) == IF s.zoomed THEN {[pane |-> s.focused, rect |-> area]} ELSE PaneRects(tree, area)

DrawPanes(s) ==
  LET rects == Drawn(s)
      at(c) == {r \in rects : Contains(r.rect, c[1], c[2])}
  IN  [c \in UNION {Cells(r.rect) : r \in rects} |-> [pane |-> (CHOOSE r \in at(c) : TRUE).pane]]

DrawDividers(s) ==
  LET ds == IF s.zoomed THEN {} ELSE Dividers(tree, area, <<>>)
      at(c) == {d \in ds : Contains(d.rect, c[1], c[2])}
  IN  [c \in UNION {Cells(d.rect) : d \in ds} |-> [divider |-> (CHOOSE d \in at(c) : TRUE).path]]

\* Copy mode writes its status over the last row of its pane.
CopyRect(s) == IF s.zoomed THEN area ELSE RectOf(s.focused)

Overlay(s) ==
  CASE s.overlay = "menu"   -> DrawMenu(s.menu, area)
    [] s.overlay = "help"   -> DrawHelp(s.help, area)
    [] s.overlay = "dialog" -> DrawDialog(area)
    [] s.overlay = "copy"   -> Painted([CopyRect(s) EXCEPT !.y = @ + CopyRect(s).h - 1,
                                                           !.h = Min2(1, CopyRect(s).h)],
                                       [pane |-> s.focused])
    [] OTHER                -> <<>>

Bare(s) ==
  LET v == Viewport(s)
      r == Regions(v, s.sidebar)
  IN  (IF r.sidebar.w > 0 THEN DrawSidebar(s, r.sidebar) ELSE <<>>)
      @@ DrawTabs(s, v.w, r.tabRow) @@ DrawDividers(s) @@ DrawPanes(s)

Compose(s) == Overlay(s) @@ Bare(s)

Cursor(s) ==
  LET f == IF s.zoomed THEN area ELSE RectOf(s.focused)
  IN  IF s.overlay = "dialog" /\ DialogShown(DialogRect(area))
      THEN Caret(s.typed, DialogRect(area))
      ELSE <<f.x + Min2(s.at[1], Low0(f.w - 1)), f.y + Min2(s.at[2], Low0(f.h - 1))>>

-----------------------------------------------------------------------------
(* Session::hit, and the dispatch of a press in handle_mouse               *)

SidebarHit(s, sb, y) ==
  LET on == {i \in 1..Min2(Len(s.agents), Rooms(sb.h)) : y \in EntryRows(sb, i)}
  IN  IF on = {} THEN None ELSE [entry |-> s.agents[CHOOSE i \in on : TRUE]]

TabHit(s, cols, x) ==
  LET bar == TabBar(s, cols)
      on == {i \in DOMAIN bar.tabs : x \in bar.tabs[i].from .. bar.tabs[i].to}
  IN  IF x \in bar.plus THEN [plus |-> TRUE]
      ELSE IF on = {} THEN None ELSE [tab |-> CHOOSE i \in on : \A j \in on : i <= j]

SessionHit(s, x, y) ==
  LET v == Viewport(s)
      r == Regions(v, s.sidebar)
  IN  CASE Contains(r.sidebar, x, y) -> SidebarHit(s, r.sidebar, y)
        [] ~Contains(r.sidebar, x, y) /\ y = r.tabRow -> TabHit(s, v.w, x)
        [] OTHER -> IF s.zoomed
                    THEN IF Contains(r.content, x, y) THEN [pane |-> s.focused] ELSE None
                    ELSE LET h == Hit(x, y) IN IF "miss" \in DOMAIN h THEN None ELSE h

\* What a press does at (x, y): the dialog and copy mode take it elsewhere.
Pressed(s, x, y) ==
  CASE s.overlay = "help" -> HelpHit(s.help, area, x, y)
    [] s.overlay = "menu" -> MenuHit(s.menu, area, x, y)
    [] OTHER              -> SessionHit(s, x, y)

\* The menu a right press opens.
MenuAt(s, x, y) ==
  LET h == SessionHit(s, x, y)
  IN  CASE "pane" \in DOMAIN h -> [kind |-> "pane", at |-> <<x + 1, y + 1>>]
        [] "tab" \in DOMAIN h  -> [kind |-> "tab", at |-> <<x + 1, y + 1>>]
        [] OTHER               -> None

\* Scenes that come about with this tree: the content has the size it is laid
\* out for, the focused pane exists, and a right press opened the menu.
Arises(s) ==
  /\ Regions(Viewport(s), s.sidebar).content = area
  /\ Holds(tree, s.focused)
  /\ s.overlay = "menu" => MenuAt(s, s.menu.at[1] - 1, s.menu.at[2] - 1) = s.menu
=============================================================================
