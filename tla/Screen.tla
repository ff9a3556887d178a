------------------------------- MODULE Screen -------------------------------
(***************************************************************************)
(* The rows of one pane (src/ghostty/screen.rs) and the coordinates of     *)
(* copy mode (src/copymode/mod.rs).  A screen is [first, total, rows,      *)
(* top]: the number of the oldest row kept, how many rows there are, how   *)
(* many the pane shows, and the row its viewport is held at, or Live when  *)
(* it follows the output.  Rows are numbered as they are written, so a row *)
(* keeps its number; its SCREEN coordinate is its distance from first,     *)
(* which changes when older rows are dropped.  The engine itself is an     *)
(* external library: its part is what screen.rs relies on.                 *)
(***************************************************************************)
EXTENDS Integers, FiniteSetsExt

CONSTANTS Cols,         \* the columns of the pane
          Scrollback    \* the rows of history kept

ASSUME ScreenAssumption == Cols \in Nat \ {0} /\ Scrollback \in Nat

Live == -1

\* saturating_sub
Minus(a, b) == IF a > b THEN a - b ELSE 0

FreshScreen(rows) == [first |-> 0, total |-> rows, rows |-> rows, top |-> Live]

LiveTop(s) == s.first + s.total - s.rows
TopRow(s)  == IF s.top = Live THEN LiveTop(s) ELSE Max({s.top, s.first})

ViewportOffset(s) == LiveTop(s) - TopRow(s)
ScrollbackRows(s) == s.total - s.rows

\* The viewport at row t, as far as there are rows; at the bottom it follows again.
HeldAt(s, t) == [s EXCEPT !.top = IF t >= LiveTop(s) THEN Live ELSE Max({t, s.first})]

ScrollBottom(s)   == [s EXCEPT !.top = Live]
ScrollTop(s)      == HeldAt(s, s.first)
ScrollDelta(s, d) == HeldAt(s, TopRow(s) + d)

\* One more line of output; the oldest row goes when the history is full.
Fed(s) ==
  IF s.total < s.rows + Scrollback THEN [s EXCEPT !.total = @ + 1]
  ELSE [s EXCEPT !.first = @ + 1]

\* A height the pane is given; rows come from and go to the history.
Resized(s, rows) ==
  LET t == [s EXCEPT !.rows = rows, !.total = Max({@, rows})]
      u == [t EXCEPT !.total = Min({@, rows + Scrollback}),
                     !.first = @ + Minus(t.total, rows + Scrollback)]
  IN  IF s.top = Live THEN u ELSE HeldAt(u, s.top)

-----------------------------------------------------------------------------
(* Points and selections: [x, y], y the SCREEN coordinate.                 *)

Before(a, b) == a.y < b.y \/ (a.y = b.y /\ a.x <= b.x)
Normalized(sel) ==
  IF Before(sel.anchor, sel.head) THEN sel ELSE [anchor |-> sel.head, head |-> sel.anchor]

\* The SCREEN coordinate copy mode believes to be at the top of the viewport.
ViewTop(s, offset) == Minus(Minus(s.total, s.rows), offset)

Unproject(s, offset, cursor) == [x |-> cursor.x, y |-> ViewTop(s, offset) + cursor.y]

InView(s, offset, y) == y \in ViewTop(s, offset)..ViewTop(s, offset) + s.rows - 1

\* The part of a selection in view, in viewport coordinates; the empty tuple when none is.
ClipSelection(s, offset, sel) ==
  LET n   == Normalized(sel)
      top == ViewTop(s, offset)
      At(p, otherwise) == IF InView(s, offset, p.y) THEN [x |-> p.x, y |-> p.y - top] ELSE otherwise
  IN  IF n.head.y < top \/ n.anchor.y > top + s.rows - 1 THEN <<>>
      ELSE << At(n.anchor, [x |-> 0, y |-> 0]), At(n.head, [x |-> Cols - 1, y |-> s.rows - 1]) >>

\* The cells from a to b in reading order, where row 0 of the coordinates is `origin`.
Span(a, b, origin) ==
  {<<origin + y, x>> : y \in a.y..b.y, x \in 0..Cols - 1}
    \ ({<<origin + a.y, x>> : x \in 0..a.x - 1}
        \cup {<<origin + b.y, x>> : x \in b.x + 1..Cols - 1})

\* selection_text: nothing when an end is not on the screen.
SelectionText(s, a, b) ==
  IF a.y \in 0..s.total - 1 /\ b.y \in 0..s.total - 1 THEN Span(a, b, s.first) ELSE {}

\* Mutant: the whole selection is copied, in view or not.
YankedWhole(s, offset, sel) ==
  SelectionText(s, Normalized(sel).anchor, Normalized(sel).head)

\* What clipped_selection_osc52 puts on the clipboard, and what compose and
\* draw_copy_mode show inverted.
Yanked(s, offset, sel) ==
  LET clip == ClipSelection(s, offset, sel)
  IN  IF clip = <<>> THEN {}
      ELSE SelectionText(s, Unproject(s, offset, clip[1]), Unproject(s, offset, clip[2]))

Highlighted(s, offset, sel) ==
  LET clip == ClipSelection(s, offset, sel)
  IN  IF clip = <<>> THEN {} ELSE Span(clip[1], clip[2], TopRow(s))

ClampedToScreen(s, sel) ==
  LET Clamp(p) == [x |-> Min({p.x, Cols - 1}), y |-> Min({p.y, Minus(s.total, 1)})]
  IN  [anchor |-> Clamp(sel.anchor), head |-> Clamp(sel.head)]
=============================================================================
