------------------------------- MODULE Layout -------------------------------
(***************************************************************************)
(* The split tree of a window (src/layout/mod.rs), as pure operators.      *)
(*                                                                         *)
(* The code's tree is a recursive enum: a leaf holds a pane, a split holds *)
(* a direction, a ratio and two children.  Here a tree is described from   *)
(* its leaves: every pane is mapped to its path from the root (the code's  *)
(* SplitPath, 1 for Side::First and 2 for Side::Second), and every split   *)
(* path to the ratio of that split.  Finding a pane, splitting it and      *)
(* collapsing its parent are then updates of two functions, without        *)
(* recursion.  Module LayoutTree states the recursive definitions of the   *)
(* code and checks these against them.                                     *)
(*                                                                         *)
(* The direction of a split is left out: it is fixed when the split is     *)
(* created and no operation reads it except to turn a rectangle into two.  *)
(***************************************************************************)
EXTENDS Integers, Sequences, SequencesExt

CONSTANT Ratios   \* the divider positions told apart
CONSTANT Half     \* the ratio a new split is given

ASSUME HalfAssumption == Half \in Ratios

First  == 1
Second == 2
Path   == Seq({First, Second})

\* A window that is a single leaf.
Leaf(p) == [path |-> [q \in {p} |-> <<>>], ratio |-> <<>>]

AllPanes(t) == DOMAIN t.path
SplitPaths(t) == DOMAIN t.ratio
IsLeaf(t) == SplitPaths(t) = {}

\* Does the path s lead strictly below the split r?
Below(s, r) == IsStrictPrefix(r, s)

\* The leaf p becomes a split of p and the new pane n.
SplitPane(t, p, n) ==
  LET here == t.path[p]
  IN  [path  |-> [q \in AllPanes(t) \cup {n} |->
                    CASE q = n -> Append(here, Second)
                      [] q = p -> Append(here, First)
                      [] OTHER -> t.path[q]],
       ratio |-> [s \in SplitPaths(t) \cup {here} |->
                    IF s = here THEN Half ELSE t.ratio[s]]]

\* Mutant: two levels are taken out.
LiftedTwice(s, parent) ==
  IF Below(s, parent) THEN parent \o SubSeq(s, Len(parent) + 3, Len(s)) ELSE s

\* A path below the collapsing split loses the side it took there.
Lifted(s, parent) ==
  IF Below(s, parent) THEN parent \o SubSeq(s, Len(parent) + 2, Len(s)) ELSE s

\* The leaf p is removed and its sibling's subtree takes the parent's place.
ClosePane(t, p) ==
  LET parent == Front(t.path[p])
      kept   == SplitPaths(t) \ {parent}
  IN  [path  |-> [q \in AllPanes(t) \ {p} |-> Lifted(t.path[q], parent)],
       ratio |-> [s \in {Lifted(r, parent) : r \in kept} |->
                    t.ratio[CHOOSE r \in kept : Lifted(r, parent) = s]]]

\* The pane reached by taking the first child at every split.
FirstLeaf(t) ==
  CHOOSE p \in AllPanes(t) : \A k \in 1..Len(t.path[p]) : t.path[p][k] = First

\* Moves the divider of the split at s, when s still leads to a split.
SetRatio(t, s, r) ==
  IF s \in SplitPaths(t) THEN [t EXCEPT !.ratio[s] = r] ELSE t

\* What decides the rectangle of pane p in a content area: the ratio and the
\* side of every split on its path.  Panes of one tree have different ones
\* where the screen has; at two moments a path may have had splits of another
\* direction, which is not told apart.
PaneRect(t, p, content) ==
  [content |-> content,
   cuts    |-> [k \in 1..Len(t.path[p]) |->
                  <<t.ratio[SubSeq(t.path[p], 1, k - 1)], t.path[p][k]>>]]

\* The whole content area: the rectangle of a zoomed pane or an only leaf.
FullRect(content) == [content |-> content, cuts |-> <<>>]

\* The shape of the representation.
IsTree(t) ==
  /\ t = [path |-> t.path, ratio |-> t.ratio]
  /\ t.path \in [AllPanes(t) -> Path]
  /\ SplitPaths(t) \subseteq Path
  /\ t.ratio \in [SplitPaths(t) -> Ratios]

\* The paths that lead to a leaf or to a split.
Nodes(t) == SplitPaths(t) \cup {t.path[p] : p \in AllPanes(t)}

\* From the split s, taking first children only leads to a leaf.
LeftmostBelow(t, s) ==
  \E p \in AllPanes(t) :
     /\ Below(t.path[p], s)
     /\ \A k \in Len(s)+1..Len(t.path[p]) : t.path[p][k] = First

\* A full binary tree: no leaf is a split and no two leaves share a path, what
\* is on the way to a node is a split, and a split has both its children.
WellFormedTree(t) ==
  /\ AllPanes(t) # {}
  /\ \A p \in AllPanes(t) : t.path[p] \notin SplitPaths(t)
  /\ \A p, q \in AllPanes(t) : t.path[p] = t.path[q] => p = q
  /\ \A s \in Nodes(t) : \A k \in 0..Len(s)-1 : SubSeq(s, 1, k) \in SplitPaths(t)
  /\ \A s \in SplitPaths(t) : \A side \in {First, Second} : Append(s, side) \in Nodes(t)
  /\ \A s \in SplitPaths(t) : LeftmostBelow(t, s)
=============================================================================
