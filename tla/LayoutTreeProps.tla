-------------------------- MODULE LayoutTreeProps --------------------------
(***************************************************************************)
(* What is asked of module LayoutTree.                                     *)
(***************************************************************************)
EXTENDS LayoutTree

RECURSIVE TreeOK(_)
TreeOK(n) == IF IsLeaf(n) THEN n.pane \in 1..MaxPanes
             ELSE /\ n.dir \in {"horizontal", "vertical"}
                  /\ n.ratio.m \in 2^23..2^24 /\ n.ratio.e \in 24..28
                  /\ TreeOK(n.first) /\ TreeOK(n.second)

\* Every variable has its type (enum Node, layout/mod.rs); a ratio is a
\* normalised f32 between 1/32 and 1, so that nothing here overflows.
TypeOK == TreeOK(tree) /\ area \in Areas /\ nextPane \in 2..MaxPanes + 1

RECURSIVE Leaves(_, _)
Leaves(n, path) == IF IsLeaf(n) THEN {<<n.pane, path>>}
                   ELSE Leaves(n.first, Append(path, 1)) \cup Leaves(n.second, Append(path, 2))
RECURSIVE Inner(_, _)
Inner(n, path) ==
  IF IsLeaf(n) THEN {}
  ELSE {<<path, n.ratio>>} \cup Inner(n.first, Append(path, 1)) \cup Inner(n.second, Append(path, 2))

\* The recursive functions of the code and the flat operators of module
\* Layout, on which the model of Session rests, describe the same tree.
FlatAgrees ==
  /\ TypeOK
  /\ Leaves(tree, <<>>) = {<<p, flat.path[p]>> : p \in Flat!AllPanes(flat)}
  /\ Inner(tree, <<>>) = {<<s, flat.ratio[s]>> : s \in Flat!SplitPaths(flat)}
  /\ FirstLeaf(tree) = Flat!FirstLeaf(flat)

\* Panes and dividers cover every cell of the content area once, at any size
\* ("the three sum EXACTLY to `area` for ANY size", split_area).
Covered ==
  LET rects == PaneRects(tree, area) \cup Dividers(tree, area, <<>>)
  IN  /\ \A r \in rects : /\ r.rect.w >= 0 /\ r.rect.x + r.rect.w <= area.w
                          /\ r.rect.h >= 0 /\ r.rect.y + r.rect.h <= area.h
      /\ \A x \in 0..area.w-1, y \in 0..area.h-1 :
           Cardinality({r \in rects : Contains(r.rect, x, y)}) = 1

\* The tree is the one the model of Session has, and tiles the screen.
Tiled == FlatAgrees /\ Covered

\* Splitting a pane that is not refused leaves both halves two cells ("two
\* 2-cell children plus a 1-cell divider", MIN_SPLIT_AXIS), wherever it is.
HalvesHaveRoom ==
  [][\A p \in 1..MaxPanes, d \in {"horizontal", "vertical"} : Splits(p, d) =>
       \A q \in {p, nextPane} :
         (IF d = "horizontal" THEN RectOf(q)'.h ELSE RectOf(q)'.w) >= 2]_vars

Placed == PaneRects(tree, area)

\* The step moved the divider of split s, or closed a pane right below it.
Touches(s) ==
  \/ /\ flat'.path = flat.path
     /\ \A r \in Flat!SplitPaths(flat) \ {s} : flat'.ratio[r] = flat.ratio[r]
  \/ \E q \in 1..MaxPanes : /\ Holds(tree, q) /\ ~Holds(tree', q)
                            /\ s = Flat!Front(flat.path[q])

\* Closing a pane or moving a divider leaves every pane outside of that split
\* where it was: only the sibling grows, only the split's own panes move; and
\* splitting one has room for it.
ChangesAreLocal ==
  /\ HalvesHaveRoom
  /\ [][\A s \in Flat!SplitPaths(flat) : area' = area /\ Touches(s) =>
          \A r \in Placed : ~Flat!Below(flat.path[r.pane], s) => r \in Placed']_vars
=============================================================================
