----------------------------- MODULE LayoutTree -----------------------------
(***************************************************************************)
(* The recursive tree of src/layout/mod.rs as the code has it, with its    *)
(* directions, its rectangles in cells and its ratios in f32, next to the  *)
(* flat representation of module Layout, which Session is built on.        *)
(*                                                                         *)
(* A tree is a record with a pane (a leaf) or with two children.  An f32   *)
(* is a mantissa m below 2^24 and an exponent e, standing for m / 2^e.     *)
(* `flat` is auxiliary: the same operations, done the flat way.            *)
(***************************************************************************)
EXTENDS Integers, Sequences, FiniteSets

CONSTANTS Areas,      \* content areas, as rectangles at the origin
          Pointers,   \* the columns and rows a pointer is dragged to
          MaxPanes    \* bound on panes ever made

ASSUME AreasAssumption == \A a \in Areas : a.w < 128 /\ a.h < 128

VARIABLES tree, area, nextPane, flat

vars == <<tree, area, nextPane, flat>>

-----------------------------------------------------------------------------
(* Ratios: 32-bit floating point, rounding to nearest, ties to even        *)

Rounded(a, b) ==
  LET q == a \div b
      r == a % b
  IN  IF 2 * r > b \/ (2 * r = b /\ q % 2 = 1) THEN q + 1 ELSE q

Half == [m |-> 2^23, e |-> 24]
Low  == [m |-> 13421773, e |-> 28]   \* 0.05
High == [m |-> 15938355, e |-> 24]   \* 0.95

\* k / n, clamped: the pointer's offset k in an axis of n cells.
RatioAt(k, n) ==
  IF 20 * k <= n THEN Low
  ELSE IF 20 * k >= 19 * n THEN High
  ELSE LET d == CHOOSE d \in 0..5 : k * 2^d >= n /\ \A c \in 0..d-1 : k * 2^c < n
       IN  [m |-> Rounded(k * 2^(d + 23), n), e |-> d + 23]

\* floor(r * n), of the product as an f32.
Cut(r, n) ==
  LET p == r.m * n
      s == CHOOSE s \in 0..7 : p \div 2^s < 2^24 /\ \A c \in 0..s-1 : p \div 2^c >= 2^24
  IN  Rounded(p, 2^s) \div 2^(r.e - s)

-----------------------------------------------------------------------------
(* The tree                                                                *)

Leaf(p) == [pane |-> p]
Split(d, r, a, b) == [dir |-> d, ratio |-> r, first |-> a, second |-> b]
IsLeaf(n) == "pane" \in DOMAIN n

RECURSIVE AllPanes(_)
AllPanes(n) == IF IsLeaf(n) THEN <<n.pane>> ELSE AllPanes(n.first) \o AllPanes(n.second)

Holds(n, p) == \E i \in DOMAIN AllPanes(n) : AllPanes(n)[i] = p

\* Mutant: the new pane goes first.
NewFirst(p, d, new) == Split(d, Half, Leaf(new), Leaf(p))
Halved(p, d, new) == Split(d, Half, Leaf(p), Leaf(new))

RECURSIVE SplitPane(_, _, _, _)
SplitPane(n, p, d, new) ==
  IF IsLeaf(n) THEN IF n.pane = p THEN Halved(p, d, new) ELSE n
  ELSE IF Holds(n.first, p) THEN [n EXCEPT !.first = SplitPane(n.first, p, d, new)]
  ELSE [n EXCEPT !.second = SplitPane(n.second, p, d, new)]

\* Mutant: the way up gives every split its first ratio again.
RebuiltHalf(n, a, b) == Split(n.dir, Half, a, b)
Rebuilt(n, a, b) == Split(n.dir, n.ratio, a, b)

\* The caller keeps the last pane of a window from being closed here.
RECURSIVE ClosePane(_, _)
ClosePane(n, p) ==
  IF IsLeaf(n) THEN n
  ELSE IF n.first = Leaf(p) THEN n.second
  ELSE IF n.second = Leaf(p) THEN n.first
  ELSE Rebuilt(n, ClosePane(n.first, p), ClosePane(n.second, p))

RECURSIVE FirstLeaf(_)
FirstLeaf(n) == IF IsLeaf(n) THEN n.pane ELSE FirstLeaf(n.first)

RECURSIVE SetRatio(_, _, _)
SetRatio(n, path, r) ==
  IF IsLeaf(n) THEN n
  ELSE IF path = <<>> THEN [n EXCEPT !.ratio = r]
  ELSE IF Head(path) = 1 THEN [n EXCEPT !.first = SetRatio(n.first, Tail(path), r)]
  ELSE [n EXCEPT !.second = SetRatio(n.second, Tail(path), r)]

-----------------------------------------------------------------------------
(* Geometry                                                                *)

Rect(x, y, w, h) == [x |-> x, y |-> y, w |-> w, h |-> h]
Contains(r, x, y) == x \in r.x .. r.x + r.w - 1 /\ y \in r.y .. r.y + r.h - 1

\* Mutant: an axis of no cells still gets a divider.
AlwaysOne(axis) == 1
Line(axis) == IF axis >= 1 THEN 1 ELSE 0

\* split_area: first child, divider, second child.
SplitArea(a, d, r) ==
  IF d = "horizontal"
  THEN LET l == Line(a.h)
           k == Cut(r, a.h - l)
       IN  <<Rect(a.x, a.y, a.w, k), Rect(a.x, a.y + k, a.w, l),
             Rect(a.x, a.y + k + l, a.w, a.h - l - k)>>
  ELSE LET l == Line(a.w)
           k == Cut(r, a.w - l)
       IN  <<Rect(a.x, a.y, k, a.h), Rect(a.x + k, a.y, l, a.h),
             Rect(a.x + k + l, a.y, a.w - l - k, a.h)>>

\* pane_rects and dividers, as sets: what they hold is disjoint (Tiled).
RECURSIVE PaneRects(_, _)
PaneRects(n, a) ==
  IF IsLeaf(n) THEN {[pane |-> n.pane, rect |-> a]}
  ELSE UNION {PaneRects(n.first, s[1]) \cup PaneRects(n.second, s[3]) :
                s \in {SplitArea(a, n.dir, n.ratio)}}

RECURSIVE Dividers(_, _, _)
Dividers(n, a, path) ==
  IF IsLeaf(n) THEN {}
  ELSE UNION {{[path |-> path, rect |-> s[2]]}
                \cup Dividers(n.first, s[1], Append(path, 1))
                \cup Dividers(n.second, s[3], Append(path, 2)) :
                s \in {SplitArea(a, n.dir, n.ratio)}}

Through(s, side) == IF side = 1 THEN s[1] ELSE s[3]

\* split_area_at: the area and direction of the split a path leads to.
RECURSIVE SplitAreaAt(_, _, _)
SplitAreaAt(n, a, path) ==
  IF path = <<>> THEN [area |-> a, dir |-> n.dir]
  ELSE SplitAreaAt(IF Head(path) = 1 THEN n.first ELSE n.second,
                   Through(SplitArea(a, n.dir, n.ratio), Head(path)), Tail(path))

\* hit_within_content: dividers are asked first.
Hit(x, y) ==
  LET ds == {d \in Dividers(tree, area, <<>>) : Contains(d.rect, x, y)}
      ps == {p \in PaneRects(tree, area) : Contains(p.rect, x, y)}
  IN  CASE ds # {}             -> [divider |-> (CHOOSE d \in ds : TRUE).path]
        [] ds = {} /\ ps # {} -> [pane |-> (CHOOSE p \in ps : TRUE).pane]
        [] OTHER               -> [miss |-> TRUE]

-----------------------------------------------------------------------------
(* A window over time                                                      *)

Flat == INSTANCE Layout WITH Ratios <- {Half}, Half <- Half

Init ==
  /\ tree = Leaf(1) /\ flat = Flat!Leaf(1)
  /\ area \in Areas
  /\ nextPane = 2

RectOf(p) == (CHOOSE r \in PaneRects(tree, area) : r.pane = p).rect

MinSplitAxis == 5

\* Mutant: any axis will do.
AnyRoom(axis) == TRUE
Room(axis) == axis >= MinSplitAxis

\* split_in_window, refused if the pane is too small.
Splits(p, d) ==
  /\ nextPane <= MaxPanes
  /\ Holds(tree, p)
  /\ Room(IF d = "horizontal" THEN RectOf(p).h ELSE RectOf(p).w)
  /\ tree' = SplitPane(tree, p, d, nextPane)
  /\ flat' = Flat!SplitPane(flat, p, nextPane)
  /\ nextPane' = nextPane + 1
  /\ UNCHANGED area

Closes(p) ==
  /\ ~IsLeaf(tree)
  /\ Holds(tree, p)
  /\ tree' = ClosePane(tree, p)
  /\ flat' = Flat!ClosePane(flat, p)
  /\ UNCHANGED <<area, nextPane>>

\* resize_divider, with the pointer at cell (x, y) of the content area.
Drags(path, x, y) ==
  LET s == SplitAreaAt(tree, area, path)
      before(p, start) == IF p > start THEN p - start ELSE 0
      atLeastOne(n) == IF n > 1 THEN n ELSE 1
      r == IF s.dir = "vertical"
           THEN RatioAt(before(x, s.area.x), atLeastOne(s.area.w - 1))
           ELSE RatioAt(before(y, s.area.y), atLeastOne(s.area.h - 1))
  IN  /\ tree' = SetRatio(tree, path, r)
      /\ flat' = Flat!SetRatio(flat, path, r)
      /\ UNCHANGED <<area, nextPane>>

\* The viewport follows a terminal.
Resizes(a) == area' = a /\ UNCHANGED <<tree, nextPane, flat>>

Paths == {d.path : d \in Dividers(tree, area, <<>>)}

Next ==
  \/ \E p \in 1..MaxPanes : Closes(p) \/ \E d \in {"horizontal", "vertical"} : Splits(p, d)
  \/ \E path \in Paths, x, y \in Pointers : Drags(path, x, y)
  \/ \E a \in Areas : Resizes(a)

Spec == Init /\ [][Next]_vars
=============================================================================
