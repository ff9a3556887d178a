--------------------------- MODULE SessionProofs ---------------------------
(***************************************************************************)
(* Theorems about Session, for every set of clients, every set of viewport *)
(* heights and every bound on panes; and, first, about the split tree, for *)
(* trees of every size: splitting a leaf, closing a pane and moving a      *)
(* divider keep it a full binary tree.                                     *)
(***************************************************************************)
EXTENDS SessionProps, SequenceTheorems, TLAPS

-----------------------------------------------------------------------------
(* Paths                                                                   *)

\* Paths are equal when they have the same sides.
LEMMA PathsEqual ==
  ASSUME NEW s \in Path, NEW r \in Path, Len(s) = Len(r),
         \A i \in 1..Len(s) : s[i] = r[i]
  PROVE  s = r
BY SeqEqual DEF Path

LEMMA PathElements ==
  ASSUME NEW s \in Path
  PROVE  /\ Len(s) \in Nat
         /\ \A i \in 1..Len(s) : s[i] \in {First, Second}
BY DEF Path

\* The first k sides of a path.
LEMMA PathPrefix ==
  ASSUME NEW s \in Path, NEW k \in 0..Len(s)
  PROVE  /\ SubSeq(s, 1, k) \in Path
         /\ Len(SubSeq(s, 1, k)) = k
         /\ \A i \in 1..k : SubSeq(s, 1, k)[i] = s[i]
<1>1. \A i \in 1..k : s[i] \in {First, Second}
  BY PathElements
<1>2. k \in Int /\ k \in Nat
  BY PathElements
<1> QED
  BY <1>1, <1>2, SubSeqProperties DEF Path

LEMMA Appended ==
  ASSUME NEW s \in Path, NEW side \in {First, Second}
  PROVE  /\ Append(s, side) \in Path
         /\ Len(Append(s, side)) = Len(s) + 1
         /\ \A i \in 1..Len(s) : Append(s, side)[i] = s[i]
         /\ Append(s, side)[Len(s) + 1] = side
BY DEF Path

\* Strictly below means longer and equal as far as the shorter one goes.
LEMMA BelowMeans ==
  ASSUME NEW s \in Path, NEW r \in Path
  PROVE  Below(s, r) <=> Len(r) < Len(s) /\ \A i \in 1..Len(r) : r[i] = s[i]
<1>0. Len(s) \in Nat /\ Len(r) \in Nat
  BY PathElements
<1>1. ASSUME Below(s, r) PROVE Len(r) < Len(s) /\ \A i \in 1..Len(r) : r[i] = s[i]
  <2>1. Len(r) <= Len(s) /\ SubSeq(r, 1, Len(r)) = SubSeq(s, 1, Len(r)) /\ r # s
    BY <1>1 DEF Below, IsStrictPrefix, IsPrefix
  <2>2. \A i \in 1..Len(r) : r[i] = s[i]
    BY <1>0, <2>1, PathPrefix
  <2> QED
    BY <1>0, <2>1, <2>2, PathsEqual
<1>2. ASSUME Len(r) < Len(s), \A i \in 1..Len(r) : r[i] = s[i] PROVE Below(s, r)
  <2>1. SubSeq(r, 1, Len(r)) = SubSeq(s, 1, Len(r))
    BY <1>0, <1>2, PathPrefix, PathsEqual
  <2> QED
    BY <1>0, <1>2, <2>1 DEF Below, IsStrictPrefix, IsPrefix
<1> QED
  BY <1>1, <1>2

LEMMA BelowTransitive ==
  ASSUME NEW s \in Path, NEW r \in Path, NEW v \in Path, Below(s, r), Below(r, v)
  PROVE  Below(s, v)
<1>1. Len(s) \in Nat /\ Len(r) \in Nat /\ Len(v) \in Nat
  BY PathElements
<1>2. Len(v) < Len(s) /\ \A i \in 1..Len(v) : v[i] = s[i]
  BY <1>1, BelowMeans
<1> QED
  BY <1>2, BelowMeans

-----------------------------------------------------------------------------
(* Trees                                                                   *)

LEMMA NodesArePaths ==
  ASSUME NEW t, IsTree(t)
  PROVE  Nodes(t) \subseteq Path
BY DEF IsTree, Nodes, AllPanes

\* What a node lies below is a split.
LEMMA Ancestors ==
  ASSUME NEW t, IsTree(t), WellFormedTree(t),
         NEW s \in Nodes(t), NEW r \in Path, Below(s, r)
  PROVE  r \in SplitPaths(t)
<1>1. s \in Path /\ Len(s) \in Nat /\ Len(r) \in Nat
  BY NodesArePaths, PathElements
<1>2. Len(r) < Len(s) /\ \A i \in 1..Len(r) : r[i] = s[i]
  BY <1>1, BelowMeans
<1>3. Len(r) \in 0..Len(s) /\ Len(r) \in 0..Len(s)-1
  BY <1>1, <1>2
<1>4. SubSeq(s, 1, Len(r)) = r
  <2>1. /\ SubSeq(s, 1, Len(r)) \in Path
        /\ Len(SubSeq(s, 1, Len(r))) = Len(r)
        /\ \A i \in 1..Len(r) : SubSeq(s, 1, Len(r))[i] = s[i]
    BY <1>1, <1>3, PathPrefix
  <2> QED
    BY <1>2, <2>1, PathsEqual
<1> QED
  BY <1>3, <1>4 DEF WellFormedTree

\* The first leaf is a pane of the tree.
LEMMA FirstLeafIsPane ==
  ASSUME NEW t, IsTree(t), WellFormedTree(t)
  PROVE  FirstLeaf(t) \in AllPanes(t)
<1> SUFFICES \E p \in AllPanes(t) : \A k \in 1..Len(t.path[p]) : t.path[p][k] = First
  BY DEF FirstLeaf
<1>1. <<>> \in Path /\ Len(<<>>) = 0
  BY DEF Path
<1>2. CASE <<>> \in SplitPaths(t)
  BY <1>1, <1>2 DEF WellFormedTree, LeftmostBelow
<1>3. CASE <<>> \notin SplitPaths(t)
  <2>1. PICK p \in AllPanes(t) : TRUE
    BY DEF WellFormedTree
  <2>2. t.path[p] \in Path /\ t.path[p] \in Nodes(t) /\ Len(t.path[p]) \in Nat
    BY PathElements DEF IsTree, Nodes
  <2>3. Len(t.path[p]) = 0
    BY <1>1, <1>3, <2>2, BelowMeans, Ancestors
  <2> QED
    BY <2>3
<1> QED
  BY <1>2, <1>3

LEMMA LeafWellFormed ==
  ASSUME NEW n
  PROVE  IsTree(Leaf(n)) /\ WellFormedTree(Leaf(n)) /\ AllPanes(Leaf(n)) = {n}
<1>1. <<>> \in Path /\ Len(<<>>) = 0 /\ DOMAIN <<>> = {}
  BY DEF Path
<1>2. AllPanes(Leaf(n)) = {n} /\ SplitPaths(Leaf(n)) = {} /\ Leaf(n).path[n] = <<>>
  BY <1>1 DEF AllPanes, SplitPaths, Leaf
<1>3. IsTree(Leaf(n))
  BY <1>1 DEF IsTree, Leaf, AllPanes, SplitPaths
<1> QED
  BY <1>1, <1>2, <1>3 DEF WellFormedTree, Nodes

LEMMA SetRatioWellFormed ==
  ASSUME NEW t, IsTree(t), WellFormedTree(t), NEW s, NEW r \in Ratios
  PROVE  /\ IsTree(SetRatio(t, s, r))
         /\ WellFormedTree(SetRatio(t, s, r))
         /\ AllPanes(SetRatio(t, s, r)) = AllPanes(t)
<1> DEFINE u == SetRatio(t, s, r)
<1>1. u.path = t.path /\ SplitPaths(u) = SplitPaths(t) /\ AllPanes(u) = AllPanes(t)
  BY DEF SetRatio, IsTree, AllPanes, SplitPaths
<1>2. IsTree(u)
  BY <1>1 DEF SetRatio, IsTree, AllPanes, SplitPaths
<1>3. Nodes(u) = Nodes(t)
  BY <1>1 DEF Nodes
<1> HIDE DEF u
<1>4. \A q \in AllPanes(u) : u.path[q] \notin SplitPaths(u)
  BY <1>1, Zenon DEF WellFormedTree
<1>5. \A p, q \in AllPanes(u) : u.path[p] = u.path[q] => p = q
  BY <1>1, Zenon DEF WellFormedTree
<1>6. \A x \in Nodes(u) : \A k \in 0..Len(x)-1 : SubSeq(x, 1, k) \in SplitPaths(u)
  BY <1>1, <1>3 DEF WellFormedTree
<1>7. \A x \in SplitPaths(u) : \A side \in {First, Second} : Append(x, side) \in Nodes(u)
  BY <1>1, <1>3 DEF WellFormedTree
<1>8. ASSUME NEW x \in SplitPaths(u) PROVE LeftmostBelow(u, x)
  <2>1. LeftmostBelow(t, x)
    BY <1>1 DEF WellFormedTree
  <2>2. PICK p \in AllPanes(t) :
          /\ Below(t.path[p], x)
          /\ \A k \in Len(x)+1..Len(t.path[p]) : t.path[p][k] = First
    BY <2>1 DEF LeftmostBelow
  <2>3. u.path[p] = t.path[p] /\ p \in AllPanes(u)
    BY <1>1, <2>2
  <2> QED
    BY <2>2, <2>3 DEF LeftmostBelow
<1>9. WellFormedTree(u)
  BY <1>1, <1>4, <1>5, <1>6, <1>7, <1>8 DEF WellFormedTree
<1> QED
  BY <1>1, <1>2, <1>9 DEF u

\* Splitting the pane p for a new pane n.
THEOREM SplitPaneWellFormed ==
  ASSUME NEW t, IsTree(t), WellFormedTree(t),
         NEW p \in AllPanes(t), NEW n, n \notin AllPanes(t)
  PROVE  /\ IsTree(SplitPane(t, p, n))
         /\ WellFormedTree(SplitPane(t, p, n))
         /\ AllPanes(SplitPane(t, p, n)) = AllPanes(t) \cup {n}
<1> DEFINE u    == SplitPane(t, p, n)
           here == t.path[p]
           one  == Append(here, First)
           two  == Append(here, Second)
<1>1. here \in Path /\ here \in Nodes(t) /\ here \notin SplitPaths(t) /\ Len(here) \in Nat
  BY PathElements DEF IsTree, Nodes, WellFormedTree
<1>2. /\ one \in Path /\ Len(one) = Len(here) + 1
      /\ \A i \in 1..Len(here) : one[i] = here[i]
      /\ one[Len(here) + 1] = First
  BY <1>1, Appended DEF First, Second
<1>3. /\ two \in Path /\ Len(two) = Len(here) + 1
      /\ \A i \in 1..Len(here) : two[i] = here[i]
      /\ two[Len(here) + 1] = Second
  BY <1>1, Appended DEF First, Second
<1>7. /\ AllPanes(u) = AllPanes(t) \cup {n}
      /\ SplitPaths(u) = SplitPaths(t) \cup {here}
  BY DEF SplitPane, AllPanes, SplitPaths
<1>8. /\ u.path[n] = two /\ u.path[p] = one
      /\ \A q \in AllPanes(t) \ {p} : u.path[q] = t.path[q]
  BY DEF SplitPane, AllPanes
<1>9. IsTree(u)
  <2>1. u = [path |-> u.path, ratio |-> u.ratio]
    BY DEF SplitPane
  <2>2. u.path \in [AllPanes(u) -> Path]
    <3>1. \A q \in AllPanes(u) : u.path[q] \in Path
      BY <1>2, <1>3, <1>7, <1>8 DEF IsTree
    <3> QED
      BY <3>1 DEF SplitPane, AllPanes
  <2>3. u.ratio \in [SplitPaths(u) -> Ratios]
    BY HalfAssumption DEF SplitPane, SplitPaths, IsTree
  <2> QED
    BY <1>1, <1>7, <2>1, <2>2, <2>3 DEF IsTree
<1> HIDE DEF u, here, one, two
<1>4. one # two
  BY <1>1, <1>2, <1>3 DEF First, Second
<1>5. Below(one, here) /\ Below(two, here)
  BY <1>1, <1>2, <1>3, BelowMeans
<1>6. one \notin Nodes(t) /\ two \notin Nodes(t)
  BY <1>1, <1>5, Ancestors
<1>10. Nodes(u) = Nodes(t) \cup {one, two}
  BY <1>7, <1>8 DEF Nodes, here
<1>11. \A q \in AllPanes(u) : u.path[q] \notin SplitPaths(u)
  <2>1. \A q \in AllPanes(t) \ {p} : t.path[q] # here
    BY DEF WellFormedTree, here
  <2>2. one # here /\ two # here
    BY <1>1, <1>2, <1>3
  <2> QED
    BY <1>6, <1>7, <1>8, <2>1, <2>2 DEF WellFormedTree, Nodes
<1>12. \A q, v \in AllPanes(u) : u.path[q] = u.path[v] => q = v
  BY <1>4, <1>6, <1>7, <1>8 DEF WellFormedTree, Nodes
<1>13. \A s \in Nodes(u) : \A k \in 0..Len(s)-1 : SubSeq(s, 1, k) \in SplitPaths(u)
  <2>1. ASSUME NEW s \in {one, two}, NEW k \in 0..Len(s)-1
        PROVE  SubSeq(s, 1, k) \in SplitPaths(u)
    <3>1. k \in 0..Len(s) /\ k \in 0..Len(here) /\ s \in Path
      BY <1>1, <1>2, <1>3
    <3>2. PICK r \in Path : /\ r = SubSeq(s, 1, k) /\ Len(r) = k
                            /\ \A i \in 1..k : r[i] = s[i]
      BY <3>1, PathPrefix
    <3>3. \A i \in 1..k : r[i] = here[i]
      BY <1>1, <1>2, <1>3, <3>1, <3>2
    <3>4. CASE k = Len(here)
      BY <1>1, <1>7, <3>2, <3>3, <3>4, PathsEqual
    <3>5. CASE k # Len(here)
      <4>1. Len(r) < Len(here) /\ \A i \in 1..Len(r) : r[i] = here[i]
        BY <1>1, <3>1, <3>2, <3>3, <3>5
      <4>2. Below(here, r)
        BY <1>1, <4>1, BelowMeans
      <4> QED
        BY <1>1, <1>7, <3>2, <4>2, Ancestors
    <3> QED
      BY <3>4, <3>5
  <2> QED
    BY <1>7, <1>10, <2>1 DEF WellFormedTree
<1>14. \A s \in SplitPaths(u) : \A side \in {First, Second} : Append(s, side) \in Nodes(u)
  BY <1>7, <1>10 DEF WellFormedTree, one, two
<1>15. ASSUME NEW s \in SplitPaths(u) PROVE LeftmostBelow(u, s)
  <2>1. CASE s = here
    BY <1>1, <1>2, <1>5, <1>7, <1>8, <2>1 DEF LeftmostBelow
  <2>2. CASE s # here
    <3>1. s \in SplitPaths(t) /\ s \in Path /\ Len(s) \in Nat
      BY <1>7, <2>2, PathElements DEF IsTree
    <3>2. PICK q \in AllPanes(t) : /\ Below(t.path[q], s)
                                   /\ \A k \in Len(s)+1..Len(t.path[q]) : t.path[q][k] = First
      BY <3>1 DEF WellFormedTree, LeftmostBelow
    <3>3. CASE q # p
      BY <1>7, <1>8, <3>2, <3>3 DEF LeftmostBelow
    <3>4. CASE q = p
      <4>1. Len(s) < Len(here) /\ \A i \in 1..Len(s) : s[i] = here[i]
        BY <1>1, <3>1, <3>2, <3>4, BelowMeans DEF here
      <4>2. Below(one, s)
        BY <1>1, <1>2, <3>1, <4>1, BelowMeans
      <4>3. \A k \in Len(s)+1..Len(one) : one[k] = First
        BY <1>1, <1>2, <3>1, <3>2, <3>4 DEF here
      <4> QED
        BY <1>7, <1>8, <4>2, <4>3 DEF LeftmostBelow
    <3> QED
      BY <3>3, <3>4
  <2> QED
    BY <2>1, <2>2
<1>16. WellFormedTree(u)
  BY <1>7, <1>11, <1>12, <1>13, <1>14, <1>15 DEF WellFormedTree
<1> QED
  BY <1>7, <1>9, <1>16 DEF u

\* What Lifted does to a path: below the parent it drops one side.
LEMMA LiftedPath ==
  ASSUME NEW s \in Path, NEW parent \in Path
  PROVE  /\ Lifted(s, parent) \in Path
         /\ ~Below(s, parent) => Lifted(s, parent) = s
         /\ Below(s, parent) =>
              /\ Len(Lifted(s, parent)) = Len(s) - 1
              /\ \A i \in 1..Len(parent) : Lifted(s, parent)[i] = s[i]
              /\ \A i \in Len(parent)+1..Len(s)-1 : Lifted(s, parent)[i] = s[i + 1]
<1>1. CASE ~Below(s, parent)
  BY <1>1 DEF Lifted
<1>2. CASE Below(s, parent)
  <2>1. /\ Len(s) \in Nat /\ Len(parent) \in Nat /\ Len(parent) < Len(s)
        /\ \A i \in 1..Len(s) : s[i] \in {First, Second}
        /\ \A i \in 1..Len(parent) : parent[i] = s[i]
    BY <1>2, PathElements, BelowMeans
  <2>2. PICK r : r = SubSeq(s, Len(parent) + 2, Len(s))
    OBVIOUS
  <2>3. /\ r \in Path /\ Len(r) = Len(s) - Len(parent) - 1
        /\ \A i \in 1..Len(s) - Len(parent) - 1 : r[i] = s[i + Len(parent) + 1]
    <3>1. Len(parent) + 2 \in Int /\ Len(s) \in Int
      BY <2>1
    <3>2. \A i \in Len(parent) + 2 .. Len(s) : s[i] \in {First, Second}
      BY <2>1
    <3>3. /\ SubSeq(s, Len(parent) + 2, Len(s)) \in Path
          /\ Len(SubSeq(s, Len(parent) + 2, Len(s))) =
               IF Len(parent) + 2 <= Len(s) THEN Len(s) - (Len(parent) + 2) + 1 ELSE 0
          /\ \A i \in 1..Len(s) - (Len(parent) + 2) + 1 :
               SubSeq(s, Len(parent) + 2, Len(s))[i] = s[Len(parent) + 2 + i - 1]
      BY <3>1, <3>2, SubSeqProperties DEF Path
    <3> QED
      BY <2>1, <2>2, <3>3
  <2>4. PICK l : l = parent \o r
    OBVIOUS
  <2>5. /\ l \in Path /\ Len(l) = Len(parent) + Len(r)
        /\ \A i \in 1..Len(parent) + Len(r) :
             l[i] = IF i <= Len(parent) THEN parent[i] ELSE r[i - Len(parent)]
    BY <2>3, <2>4, ConcatProperties DEF Path
  <2>6. l = Lifted(s, parent)
    BY <1>2, <2>2, <2>4 DEF Lifted
  <2>7. Len(l) = Len(s) - 1 /\ \A i \in 1..Len(parent) : l[i] = s[i]
    BY <2>1, <2>3, <2>5
  <2>8. \A i \in Len(parent)+1..Len(s)-1 : l[i] = s[i + 1]
    BY <2>1, <2>3, <2>5
  <2> QED
    BY <1>2, <2>5, <2>6, <2>7, <2>8
<1> QED
  BY <1>1, <1>2

\* Closing the pane p of a window that has another one.
THEOREM ClosePaneWellFormed ==
  ASSUME NEW t, IsTree(t), WellFormedTree(t), NEW p \in AllPanes(t), ~IsLeaf(t)
  PROVE  /\ IsTree(ClosePane(t, p))
         /\ WellFormedTree(ClosePane(t, p))
         /\ AllPanes(ClosePane(t, p)) = AllPanes(t) \ {p}
<1> DEFINE u      == ClosePane(t, p)
           gone   == t.path[p]
           parent == Front(gone)
           up(s)  == Lifted(s, parent)
           kept   == Nodes(t) \ {parent, gone}
<1>1. gone \in Path /\ gone \in Nodes(t) /\ gone \notin SplitPaths(t) /\ Len(gone) \in Nat
  BY PathElements DEF IsTree, Nodes, WellFormedTree
<1>2. Len(gone) > 0
  <2>1. PICK s \in SplitPaths(t) : s \in Path /\ s \in Nodes(t) /\ Len(s) \in Nat
    BY PathElements DEF IsLeaf, IsTree, Nodes
  <2>2. s # gone
    BY <1>1, <2>1
  <2>3. ~Below(s, gone)
    BY <1>1, <2>1, Ancestors
  <2>4. CASE Len(gone) = 0
    <3> HIDE DEF gone
    <3>1. Len(s) # 0
      BY <1>1, <2>1, <2>2, <2>4, PathsEqual
    <3>2. Len(gone) < Len(s) /\ \A i \in 1..Len(gone) : gone[i] = s[i]
      BY <2>1, <2>4, <3>1
    <3> QED
      BY <1>1, <2>1, <2>3, <3>2, BelowMeans
  <2> QED
    BY <1>1, <2>4
<1>3. /\ parent \in Path /\ Len(parent) \in Nat /\ Len(parent) = Len(gone) - 1
      /\ \A i \in 1..Len(parent) : parent[i] = gone[i]
  <2> HIDE DEF gone, parent
  <2>1. Len(gone) - 1 \in 0..Len(gone)
    BY <1>1, <1>2
  <2>2. parent = SubSeq(gone, 1, Len(gone) - 1)
    BY DEF Front, parent
  <2>3. /\ parent \in Path /\ Len(parent) = Len(gone) - 1
        /\ \A i \in 1..Len(gone) - 1 : parent[i] = gone[i]
    BY <1>1, <2>1, <2>2, PathPrefix
  <2> QED
    BY <1>1, <1>2, <2>3
<1>4. /\ AllPanes(u) = AllPanes(t) \ {p}
      /\ \A q \in AllPanes(u) : u.path[q] = up(t.path[q])
      /\ SplitPaths(u) = {up(s) : s \in SplitPaths(t) \ {parent}}
  BY DEF ClosePane, AllPanes, SplitPaths
<1>5. IsTree(u)
  <2>1. u = [path |-> u.path, ratio |-> u.ratio]
    BY DEF ClosePane
  <2>2. \A s \in Path : up(s) \in Path
    BY <1>3, LiftedPath
  <2>3. u.path \in [AllPanes(u) -> Path]
    BY <2>2 DEF ClosePane, AllPanes, IsTree
  <2>4. SplitPaths(u) \subseteq Path
    BY <1>4, <2>2 DEF IsTree
  <2>5. u.ratio \in [SplitPaths(u) -> Ratios]
    <3>1. \A s \in SplitPaths(u) :
             /\ u.ratio[s] = t.ratio[CHOOSE r \in SplitPaths(t) \ {parent} : up(r) = s]
             /\ (CHOOSE r \in SplitPaths(t) \ {parent} : up(r) = s) \in SplitPaths(t)
      BY DEF ClosePane, SplitPaths
    <3>2. \A s \in SplitPaths(u) : u.ratio[s] \in Ratios
      BY <3>1 DEF IsTree
    <3> QED
      BY <3>2 DEF ClosePane, SplitPaths
  <2> QED
    BY <2>1, <2>3, <2>4, <2>5 DEF IsTree
<1> HIDE DEF u, parent, gone, up
<1>6. Below(gone, parent) /\ parent \in SplitPaths(t) /\ parent \in Nodes(t)
  <2>1. Below(gone, parent)
    BY <1>1, <1>2, <1>3, BelowMeans
  <2> QED
    BY <1>1, <1>3, <2>1, Ancestors DEF Nodes
\* gone is the only node on its side of the parent
<1>7. \A s \in Nodes(t) \ {gone} :
         Below(s, parent) => s[Len(parent) + 1] # gone[Len(parent) + 1]
  <2> SUFFICES ASSUME NEW s \in Nodes(t), s # gone, Below(s, parent),
                      s[Len(parent) + 1] = gone[Len(parent) + 1]
               PROVE  FALSE
    OBVIOUS
  <2>1. /\ s \in Path /\ Len(s) \in Nat /\ Len(parent) < Len(s)
        /\ \A i \in 1..Len(parent) : parent[i] = s[i]
    BY <1>3, NodesArePaths, PathElements, BelowMeans
  <2>2. \A i \in 1..Len(gone) : gone[i] = s[i]
    BY <1>1, <1>3, <2>1
  <2>3. CASE Len(s) = Len(gone)
    BY <1>1, <2>1, <2>2, <2>3, PathsEqual
  <2>4. CASE Len(s) # Len(gone)
    <3>1. Below(s, gone)
      BY <1>1, <1>3, <2>1, <2>2, <2>4, BelowMeans
    <3> QED
      BY <1>1, <3>1, Ancestors
  <2> QED
    BY <2>3, <2>4
\* what up does to the nodes that stay
<1>8. \A s \in kept :
         /\ s \in Path /\ Len(s) \in Nat /\ up(s) \in Path
         /\ \A i \in 1..Len(s) : s[i] \in {First, Second}
         /\ ~Below(s, parent) => up(s) = s
         /\ Below(s, parent) =>
              /\ Len(parent) < Len(s) /\ Len(up(s)) = Len(s) - 1
              /\ \A i \in 1..Len(parent) : up(s)[i] = parent[i] /\ s[i] = parent[i]
              /\ \A i \in Len(parent)+1..Len(s)-1 : up(s)[i] = s[i + 1]
  <2> SUFFICES ASSUME NEW s \in kept
               PROVE  /\ s \in Path /\ Len(s) \in Nat /\ up(s) \in Path
                      /\ \A i \in 1..Len(s) : s[i] \in {First, Second}
                      /\ ~Below(s, parent) => up(s) = s
                      /\ Below(s, parent) =>
                           /\ Len(parent) < Len(s) /\ Len(up(s)) = Len(s) - 1
                           /\ \A i \in 1..Len(parent) : up(s)[i] = parent[i] /\ s[i] = parent[i]
                           /\ \A i \in Len(parent)+1..Len(s)-1 : up(s)[i] = s[i + 1]
    OBVIOUS
  <2>1. s \in Path /\ Len(s) \in Nat /\ \A i \in 1..Len(s) : s[i] \in {First, Second}
    BY NodesArePaths, PathElements
  <2>2. Below(s, parent) => Len(parent) < Len(s) /\ \A i \in 1..Len(parent) : s[i] = parent[i]
    BY <1>3, <2>1, BelowMeans
  <2> QED
    BY <1>3, <2>1, <2>2, LiftedPath DEF up
<1>9. \A s, r \in kept : up(s) = up(r) => s = r
  <2> SUFFICES ASSUME NEW s \in kept, NEW r \in kept, up(s) = up(r)
               PROVE  s = r
    OBVIOUS
  <2>1. CASE ~Below(s, parent) /\ ~Below(r, parent)
    BY <1>8, <2>1
  <2>2. CASE Below(s, parent) /\ Below(r, parent)
    <3>1. Len(s) = Len(r)
      BY <1>8, <2>2
    <3>2. s[Len(parent) + 1] = r[Len(parent) + 1]
      <4>1. /\ s[Len(parent) + 1] # gone[Len(parent) + 1]
            /\ r[Len(parent) + 1] # gone[Len(parent) + 1]
        BY <1>7, <2>2
      <4>2. /\ s[Len(parent) + 1] \in {First, Second} /\ r[Len(parent) + 1] \in {First, Second}
            /\ gone[Len(parent) + 1] \in {First, Second}
        BY <1>1, <1>3, <1>8, <2>2, PathElements
      <4> QED
        BY <4>1, <4>2
    <3>3. ASSUME NEW i \in 1..Len(s) PROVE s[i] = r[i]
      <4>1. CASE i <= Len(parent)
        BY <1>3, <1>8, <2>2, <4>1
      <4>2. CASE i = Len(parent) + 1
        BY <3>2, <4>2
      <4>3. CASE i > Len(parent) + 1
        <5>1. i - 1 \in Len(parent)+1..Len(s)-1 /\ (i - 1) + 1 = i
          BY <1>3, <1>8, <4>3
        <5>2. up(s)[i - 1] = s[(i - 1) + 1] /\ up(r)[i - 1] = r[(i - 1) + 1]
          BY <1>8, <2>2, <3>1, <5>1
        <5> QED
          BY <5>1, <5>2
      <4> QED
        BY <1>3, <1>8, <4>1, <4>2, <4>3
    <3> QED
      BY <1>8, <3>1, <3>3, PathsEqual
  <2>3. ASSUME NEW a \in kept, NEW b \in kept, Below(a, parent), ~Below(b, parent)
        PROVE  up(a) # up(b)
    <3> SUFFICES ASSUME up(a) = b PROVE FALSE
      BY <1>8, <2>3
    <3>1. b \in Path /\ Len(b) \in Nat /\ Len(b) >= Len(parent)
          /\ \A i \in 1..Len(parent) : parent[i] = b[i]
      BY <1>3, <1>8, <2>3
    <3>2. CASE Len(b) = Len(parent)
      BY <1>3, <3>1, <3>2, PathsEqual
    <3>3. CASE Len(b) # Len(parent)
      <4>1. Len(parent) < Len(b)
        BY <1>3, <3>1, <3>3
      <4> QED
        BY <1>3, <2>3, <3>1, <4>1, BelowMeans
    <3> QED
      BY <3>2, <3>3
  <2> QED
    BY <2>1, <2>2, <2>3
<1>10. \A q \in AllPanes(u) : t.path[q] \in kept /\ t.path[q] \notin SplitPaths(t)
  BY <1>4, <1>6 DEF Nodes, WellFormedTree, gone
<1>11. \A s \in SplitPaths(t) \ {parent} : s \in kept
  BY <1>1 DEF Nodes
<1>12. Nodes(u) = {up(s) : s \in kept}
  <2>1. Nodes(u) \subseteq {up(s) : s \in kept}
    BY <1>4, <1>10, <1>11 DEF Nodes
  <2>2. ASSUME NEW s \in kept PROVE up(s) \in Nodes(u)
    <3>1. CASE s \in SplitPaths(t)
      BY <1>4, <3>1 DEF Nodes
    <3>2. CASE s \notin SplitPaths(t)
      <4>1. PICK q \in AllPanes(t) : s = t.path[q]
        BY <3>2 DEF Nodes
      <4>2. q \in AllPanes(u)
        BY <1>4, <4>1 DEF gone
      <4> QED
        BY <1>4, <4>1, <4>2 DEF Nodes
    <3> QED
      BY <3>1, <3>2
  <2> QED
    BY <2>1, <2>2
\* the sibling, which takes the parent's place
<1>13. PICK sib \in kept : /\ Below(sib, parent) /\ Len(sib) = Len(parent) + 1
                           /\ up(sib) = parent
  <2>1. PICK side \in {First, Second} : side # gone[Len(parent) + 1]
    BY DEF First, Second
  <2>2. PICK sib : sib = Append(parent, side)
    OBVIOUS
  <2>3. /\ sib \in Path /\ Len(sib) = Len(parent) + 1
        /\ \A i \in 1..Len(parent) : sib[i] = parent[i]
        /\ sib[Len(parent) + 1] = side
    BY <1>3, <2>2, Appended
  <2>4. Below(sib, parent)
    BY <1>3, <2>3, BelowMeans
  <2>5. sib \in kept
    BY <1>3, <1>6, <2>1, <2>2, <2>3 DEF WellFormedTree
  <2>6. up(sib) = parent
    <3>1. /\ up(sib) \in Path /\ Len(up(sib)) = Len(parent)
          /\ \A i \in 1..Len(parent) : up(sib)[i] = parent[i]
      BY <1>3, <1>8, <2>3, <2>4, <2>5
    <3> QED
      BY <1>3, <3>1, PathsEqual
  <2> QED
    BY <2>3, <2>4, <2>5, <2>6
<1>14. \A q \in AllPanes(u) : u.path[q] \notin SplitPaths(u)
  BY <1>4, <1>9, <1>10, <1>11
<1>15. \A q, v \in AllPanes(u) : u.path[q] = u.path[v] => q = v
  BY <1>4, <1>9, <1>10 DEF WellFormedTree
\* a node below another one stays below it
<1>16. \A s, r \in kept : Below(s, r) => Below(up(s), up(r))
  <2> SUFFICES ASSUME NEW s \in kept, NEW r \in kept, Below(s, r)
               PROVE  Below(up(s), up(r))
    OBVIOUS
  <2>1. Len(r) < Len(s) /\ \A i \in 1..Len(r) : r[i] = s[i]
    BY <1>8, BelowMeans
  <2>2. CASE ~Below(s, parent)
    <3>1. ~Below(r, parent)
      <4>1. CASE Below(r, parent)
        <5>1. Len(parent) < Len(s) /\ \A i \in 1..Len(parent) : parent[i] = s[i]
          BY <1>3, <1>8, <2>1, <4>1
        <5> QED
          BY <1>3, <1>8, <2>2, <5>1, BelowMeans
      <4> QED
        BY <4>1
    <3> QED
      BY <1>8, <2>2, <3>1
  <2>3. CASE Below(s, parent) /\ ~Below(r, parent)
    <3>1. Len(r) < Len(parent)
      <4>1. CASE Len(r) >= Len(parent)
        <5>1. \A i \in 1..Len(parent) : parent[i] = r[i]
          BY <1>3, <1>8, <2>1, <2>3, <4>1
        <5>2. Len(r) = Len(parent)
          <6>1. ~(Len(parent) < Len(r))
            BY <1>3, <1>8, <2>3, <5>1, BelowMeans
          <6> QED
            BY <1>3, <1>8, <4>1, <6>1
        <5> QED
          BY <1>3, <1>8, <5>1, <5>2, PathsEqual
      <4> QED
        BY <1>3, <1>8, <4>1
    <3>2. Len(r) < Len(up(s)) /\ \A i \in 1..Len(r) : r[i] = up(s)[i]
      BY <1>3, <1>8, <2>1, <2>3, <3>1
    <3> QED
      BY <1>8, <2>3, <3>2, BelowMeans
  <2>4. CASE Below(s, parent) /\ Below(r, parent)
    <3>1. Len(up(r)) < Len(up(s))
      BY <1>8, <2>1, <2>4
    <3>2. ASSUME NEW i \in 1..Len(up(r)) PROVE up(r)[i] = up(s)[i]
      <4>1. CASE i <= Len(parent)
        BY <1>3, <1>8, <2>1, <2>4, <4>1
      <4>2. CASE i > Len(parent)
        <5>1. i \in Len(parent)+1..Len(r)-1 /\ i \in Len(parent)+1..Len(s)-1
          BY <1>3, <1>8, <2>1, <2>4, <4>2
        <5>2. up(r)[i] = r[i + 1] /\ up(s)[i] = s[i + 1]
          BY <1>8, <2>4, <5>1
        <5>3. i + 1 \in 1..Len(r)
          BY <1>3, <1>8, <5>1
        <5> QED
          BY <2>1, <5>2, <5>3
      <4> QED
        BY <1>3, <1>8, <2>4, <4>1, <4>2
    <3> QED
      BY <1>8, <3>1, <3>2, BelowMeans
  <2> QED
    BY <2>2, <2>3, <2>4
<1>17. ASSUME NEW s \in Nodes(u), NEW k \in 0..Len(s)-1
       PROVE  SubSeq(s, 1, k) \in SplitPaths(u)
  <2>1. PICK v \in kept : s = up(v)
    BY <1>12
  <2>2. PICK pre \in Path : /\ pre = SubSeq(s, 1, k) /\ Len(pre) = k
                            /\ \A i \in 1..k : pre[i] = s[i]
    <3>1. s \in Path /\ Len(s) \in Nat /\ k \in 0..Len(s)
      BY <1>8, <2>1, PathElements
    <3> QED
      BY <3>1, PathPrefix
  <2>3. /\ Len(s) \in Nat /\ k \in Nat /\ k < Len(s) /\ s \in Path
        /\ Len(pre) = k /\ \A i \in 1..k : pre[i] = s[i]
    BY <1>8, <2>1, <2>2, PathElements
  <2>4. CASE ~Below(v, parent)
    <3>1. s = v /\ Below(v, pre)
      BY <1>8, <2>1, <2>3, <2>4, BelowMeans
    <3>2. pre \in SplitPaths(t) \ {parent}
      BY <2>4, <3>1, Ancestors
    <3>3. up(pre) = pre
      BY <1>3, <1>8, <1>11, <2>4, <3>1, <3>2, BelowTransitive
    <3> QED
      BY <1>4, <2>2, <3>2, <3>3
  <2>5. CASE Below(v, parent) /\ k < Len(parent)
    <3>1. Len(pre) < Len(parent) /\ \A i \in 1..Len(pre) : pre[i] = parent[i]
      <4>1. \A i \in 1..Len(parent) : s[i] = parent[i]
        BY <1>8, <2>1, <2>5
      <4>2. \A i \in 1..k : i \in 1..Len(parent)
        BY <1>3, <2>3, <2>5
      <4> QED
        BY <2>3, <2>5, <4>1, <4>2
    <3>2. Below(parent, pre)
      BY <1>3, <3>1, BelowMeans
    <3>3. pre \in SplitPaths(t) \ {parent}
      BY <1>3, <1>6, <3>1, <3>2, Ancestors
    <3>4. ~Below(pre, parent)
      BY <1>3, <2>3, <3>1, BelowMeans
    <3> QED
      BY ZenonT(30), <1>4, <1>8, <1>11, <2>2, <3>3, <3>4
  <2>6. CASE Below(v, parent) /\ k >= Len(parent)
    <3>1. k + 1 \in 0..Len(v)-1 /\ k + 1 \in 0..Len(v)
      BY <1>8, <2>1, <2>3, <2>6
    <3>2. PICK pv \in Path : /\ pv = SubSeq(v, 1, k + 1) /\ Len(pv) = k + 1
                             /\ \A i \in 1..k + 1 : pv[i] = v[i]
      BY <1>8, <3>1, PathPrefix
    <3>3. pv \in SplitPaths(t)
      BY <3>1, <3>2 DEF WellFormedTree
    <3>4. Len(pv) = k + 1 /\ \A i \in 1..k + 1 : pv[i] = v[i]
      BY <3>2
    <3>5. Len(parent) < Len(pv) /\ \A i \in 1..Len(parent) : parent[i] = pv[i]
      BY SMTT(30), <1>3, <1>8, <2>3, <2>6, <3>4
    <3>6. Below(pv, parent) /\ pv # parent
      BY <1>3, <3>5, BelowMeans
    <3>7. pv \in kept
      BY <1>11, <3>3, <3>6
    <3>8. Len(up(pv)) = k
      BY <1>8, <2>3, <3>4, <3>6, <3>7
    <3>9. ASSUME NEW i \in 1..k PROVE up(pv)[i] = pre[i]
      <4>1. CASE i <= Len(parent)
        BY SMTT(30), <1>3, <1>8, <2>1, <2>3, <2>6, <3>6, <3>7, <4>1
      <4>2. CASE i > Len(parent)
        <5>1. i \in Len(parent)+1..Len(pv)-1 /\ i \in Len(parent)+1..Len(v)-1
          BY <1>3, <1>8, <2>1, <2>3, <2>6, <3>4, <4>2
        <5>2. up(pv)[i] = pv[i + 1] /\ up(v)[i] = v[i + 1]
          BY <1>8, <2>6, <3>6, <3>7, <5>1
        <5>3. i + 1 \in 1..k + 1
          BY <2>3
        <5> QED
          BY <2>1, <2>3, <3>4, <5>2, <5>3
      <4> QED
        BY <1>3, <2>3, <4>1, <4>2
    <3>10. up(pv) = pre
      BY <1>8, <2>3, <3>7, <3>8, <3>9, PathsEqual
    <3> QED
      BY <1>4, <2>2, <3>3, <3>6, <3>10
  <2> QED
    BY <1>3, <2>3, <2>4, <2>5, <2>6
<1>18. ASSUME NEW s \in SplitPaths(u), NEW side \in {First, Second}
       PROVE  Append(s, side) \in Nodes(u)
  <2>1. PICK v \in SplitPaths(t) \ {parent} : s = up(v) /\ v \in kept
    BY <1>4, <1>11
  <2>2. PICK w : w = Append(v, side)
    OBVIOUS
  <2>3. /\ w \in Path /\ Len(w) = Len(v) + 1 /\ w[Len(v) + 1] = side
        /\ \A i \in 1..Len(v) : w[i] = v[i]
    BY <1>8, <2>1, <2>2, Appended
  <2>4. w \in Nodes(t)
    BY <2>1, <2>2 DEF WellFormedTree
  <2>5. w # gone
    <3> SUFFICES ASSUME w = gone PROVE v = parent
      BY <2>1
    <3> QED
      BY <1>3, <1>8, <2>1, <2>3, PathsEqual
  <2>6. CASE w = parent
    <3>1. ~Below(v, parent)
      BY <1>3, <1>8, <2>1, <2>3, <2>6, BelowMeans
    <3>2. s = v
      BY <1>8, <2>1, <3>1
    <3>3. parent \in Nodes(u)
      BY <1>12, <1>13
    <3> QED
      BY <2>2, <2>6, <3>2, <3>3
  <2>7. CASE w # parent /\ ~Below(v, parent)
    <3>1. ~Below(w, parent)
      <4> SUFFICES ASSUME Below(w, parent) PROVE FALSE
        OBVIOUS
      <4>1. Len(parent) <= Len(v) /\ \A i \in 1..Len(parent) : parent[i] = v[i]
        BY SMTT(30), <1>3, <1>8, <2>1, <2>3, BelowMeans
      <4>2. CASE Len(parent) = Len(v)
        BY <1>3, <1>8, <2>1, <4>1, <4>2, PathsEqual
      <4>3. CASE Len(parent) # Len(v)
        <5>1. Len(parent) < Len(v)
          BY <1>3, <1>8, <2>1, <4>1, <4>3
        <5> QED
          BY <1>3, <1>8, <2>1, <2>7, <4>1, <5>1, BelowMeans
      <4> QED
        BY <4>2, <4>3
    <3> QED
      BY <1>8, <1>12, <2>1, <2>2, <2>4, <2>5, <2>7, <3>1
  <2>8. CASE Below(v, parent)
    <3>1. Len(parent) < Len(w) /\ \A i \in 1..Len(parent) : parent[i] = w[i]
      BY <1>3, <1>8, <2>1, <2>3, <2>8
    <3>2. Below(w, parent) /\ w # parent
      BY <1>3, <2>3, <3>1, BelowMeans
    <3>3. w \in kept
      BY <2>4, <2>5, <3>2
    <3>4. PICK x : x = Append(s, side)
      OBVIOUS
    <3>5. /\ x \in Path /\ Len(x) = Len(s) + 1 /\ x[Len(s) + 1] = side
          /\ \A i \in 1..Len(s) : x[i] = s[i]
      BY <1>8, <2>1, <3>4, Appended
    <3>6. Len(s) = Len(v) - 1 /\ Len(up(w)) = Len(v)
      BY <1>8, <2>1, <2>3, <2>8, <3>2, <3>3
    <3>7. ASSUME NEW i \in 1..Len(v) PROVE up(w)[i] = x[i]
      <4>1. CASE i <= Len(parent)
        <5>1. i \in 1..Len(parent) /\ i \in 1..Len(s)
          BY <1>3, <1>8, <2>1, <2>8, <3>6, <4>1
        <5>2. up(w)[i] = parent[i] /\ up(v)[i] = parent[i]
          BY <1>8, <2>1, <2>8, <3>2, <3>3, <5>1
        <5> QED
          BY <2>1, <3>5, <5>1, <5>2
      <4>2. CASE i > Len(parent)
        <5>1. i \in Len(parent)+1..Len(w)-1
          BY <1>3, <1>8, <2>1, <2>3, <4>2
        <5>2. up(w)[i] = w[i + 1]
          BY <1>8, <3>2, <3>3, <5>1
        <5>3. CASE i = Len(v)
          BY <1>8, <2>1, <2>3, <3>5, <3>6, <5>2, <5>3
        <5>4. CASE i # Len(v)
          <6>1. /\ i \in Len(parent)+1..Len(v)-1 /\ i \in 1..Len(s) /\ i + 1 \in 1..Len(v)
            BY <1>3, <1>8, <2>1, <3>6, <4>2, <5>4
          <6>2. up(v)[i] = v[i + 1]
            BY <1>8, <2>1, <2>8, <6>1
          <6> QED
            BY <2>1, <2>3, <3>5, <5>2, <6>1, <6>2
        <5> QED
          BY <5>3, <5>4
      <4> QED
        <5>1. i \in Int /\ Len(parent) \in Int
          BY <1>3, <1>8, <2>1
        <5> QED
          BY <4>1, <4>2, <5>1
    <3>8. up(w) = x
      <4>1. Len(x) = Len(v)
        BY <1>8, <2>1, <3>5, <3>6
      <4> QED
        BY <1>8, <3>3, <3>5, <3>6, <3>7, <4>1, PathsEqual
    <3> QED
      BY <1>12, <3>3, <3>4, <3>8
  <2> QED
    BY <2>6, <2>7, <2>8
\* the leaf the sibling's first children lead to
<1>19. PICK h \in AllPanes(u) :
         /\ up(t.path[h]) \in Path
         /\ \A i \in 1..Len(parent) : up(t.path[h])[i] = parent[i]
         /\ \A i \in Len(parent)+1..Len(up(t.path[h])) : up(t.path[h])[i] = First
         /\ Len(parent) <= Len(up(t.path[h]))
  <2>1. CASE sib \notin SplitPaths(t)
    <3>1. PICK q \in AllPanes(t) : sib = t.path[q]
      BY <2>1 DEF Nodes
    <3>2. q \in AllPanes(u)
      BY <1>4, <3>1 DEF gone
    <3> QED
      BY <1>3, <1>13, <3>1, <3>2
  <2>2. CASE sib \in SplitPaths(t)
    <3>1. PICK q \in AllPanes(t) :
            /\ Below(t.path[q], sib)
            /\ \A i \in Len(sib)+1..Len(t.path[q]) : t.path[q][i] = First
      BY <2>2 DEF WellFormedTree, LeftmostBelow
    <3>2. PICK w \in Path : w = t.path[q] /\ w \in Nodes(t) /\ Len(w) \in Nat
      BY PathElements DEF IsTree, Nodes
    <3>3. Len(sib) < Len(w) /\ Below(w, parent)
      BY <1>3, <1>8, <1>13, <3>1, <3>2, BelowMeans, BelowTransitive
    <3>4. q \in AllPanes(u)
      <4>1. w # gone
        BY <1>1, <1>3, <1>8, <1>13, <3>2, <3>3
      <4> QED
        BY <1>4, <3>2, <4>1 DEF gone
    <3>5. w \in kept
      BY <1>10, <3>2, <3>4
    <3>6. /\ up(w) \in Path /\ Len(up(w)) = Len(w) - 1 /\ Len(parent) <= Len(up(w))
          /\ \A i \in 1..Len(parent) : up(w)[i] = parent[i]
      <4>1. /\ up(w) \in Path /\ Len(up(w)) = Len(w) - 1
            /\ Len(parent) < Len(w) /\ Len(w) \in Nat
            /\ \A i \in 1..Len(parent) : up(w)[i] = parent[i]
        BY <1>8, <3>3, <3>5
      <4> QED
        BY <1>3, <4>1
    <3>7. ASSUME NEW i \in Len(parent)+1..Len(up(w)) PROVE up(w)[i] = First
      <4>1. i \in Len(parent)+1..Len(w)-1 /\ i + 1 \in Len(sib)+1..Len(w)
        BY <1>3, <1>13, <3>2, <3>6
      <4>2. up(w)[i] = w[i + 1]
        BY <1>8, <3>3, <3>5, <4>1
      <4> QED
        BY <3>1, <3>2, <4>1, <4>2
    <3> QED
      BY <3>2, <3>4, <3>6, <3>7
  <2> QED
    BY <2>1, <2>2
<1>20. ASSUME NEW s \in SplitPaths(u) PROVE LeftmostBelow(u, s)
  <2>1. PICK v \in SplitPaths(t) \ {parent} : s = up(v) /\ v \in kept
    BY <1>4, <1>11
  <2>2. PICK q \in AllPanes(t) : /\ Below(t.path[q], v)
                                 /\ \A i \in Len(v)+1..Len(t.path[q]) : t.path[q][i] = First
    BY <2>1 DEF WellFormedTree, LeftmostBelow
  <2>3. CASE q # p
    <3>1. PICK w : w = t.path[q]
      OBVIOUS
    <3>2. q \in AllPanes(u) /\ w \in kept /\ u.path[q] = up(w) /\ Below(up(w), s)
      BY <1>4, <1>10, <1>16, <2>1, <2>2, <2>3, <3>1
    <3>3. ASSUME NEW i \in Len(s)+1..Len(up(w)) PROVE up(w)[i] = First
      <4>1. CASE ~Below(w, parent)
        <5>1. ~Below(v, parent)
          BY <1>3, <1>8, <2>1, <2>2, <3>1, <3>2, <4>1, BelowTransitive
        <5> QED
          BY <1>8, <2>1, <2>2, <3>1, <3>2, <4>1, <5>1
      <4>2. CASE Below(w, parent) /\ ~Below(v, parent)
        <5>1. s = v /\ Len(up(w)) = Len(w) - 1
          BY <1>8, <2>1, <3>2, <4>2
        <5>2. i \in Len(v)+1..Len(w) /\ i + 1 \in Len(v)+1..Len(w)
          BY <1>8, <2>1, <3>2, <5>1
        <5>3. w[i] = First /\ w[i + 1] = First
          BY <2>2, <3>1, <5>2
        <5>4. CASE i <= Len(parent)
          <6>1. i \in 1..Len(parent)
            BY <1>3, <1>8, <2>1, <5>2, <5>4
          <6>2. up(w)[i] = w[i]
            BY <1>8, <3>2, <4>2, <6>1
          <6> QED
            BY <5>3, <6>2
        <5>5. CASE i > Len(parent)
          <6>1. i \in Len(parent)+1..Len(w)-1
            BY <1>3, <1>8, <2>1, <3>2, <5>1, <5>5
          <6>2. up(w)[i] = w[i + 1]
            BY <1>8, <3>2, <4>2, <6>1
          <6> QED
            BY <5>3, <6>2
        <5> QED
          BY <1>3, <1>8, <2>1, <5>2, <5>4, <5>5
      <4>3. CASE Below(w, parent) /\ Below(v, parent)
        <5>1. Len(s) = Len(v) - 1 /\ Len(up(w)) = Len(w) - 1 /\ Len(parent) < Len(v)
          BY <1>8, <2>1, <3>2, <4>3
        <5>2. i \in Len(parent)+1..Len(w)-1 /\ i + 1 \in Len(v)+1..Len(w)
          BY <1>3, <1>8, <2>1, <3>2, <5>1
        <5>3. up(w)[i] = w[i + 1]
          BY <1>8, <3>2, <4>3, <5>2
        <5> QED
          BY <2>2, <3>1, <5>2, <5>3
      <4> QED
        BY <4>1, <4>2, <4>3
    <3> QED
      BY <3>2, <3>3 DEF LeftmostBelow
  <2>4. CASE q = p
    <3>1. /\ Len(v) < Len(gone) /\ Below(gone, v)
          /\ \A i \in 1..Len(v) : v[i] = gone[i]
          /\ \A i \in Len(v)+1..Len(gone) : gone[i] = First
      <4>1. gone = t.path[q]
        BY <2>4 DEF gone
      <4> QED
        BY <1>1, <1>8, <2>1, <2>2, <4>1, BelowMeans
    <3>2. Len(v) < Len(parent)
      <4>1. \A i \in 1..Len(v) : v[i] = parent[i]
        BY <1>1, <1>3, <1>8, <2>1, <3>1
      <4>2. Len(v) # Len(parent)
        BY <1>3, <1>8, <2>1, <4>1, PathsEqual
      <4> QED
        BY <1>1, <1>3, <1>8, <2>1, <3>1, <4>2
    <3>3. s = v
      BY <1>3, <1>8, <2>1, <3>2, BelowMeans
    <3>4. PICK x : x = up(t.path[h])
      OBVIOUS
    <3>5. /\ x \in Path /\ Len(x) \in Nat /\ Len(parent) <= Len(x)
          /\ \A i \in 1..Len(parent) : x[i] = gone[i]
          /\ \A i \in Len(parent)+1..Len(x) : x[i] = First
      BY <1>3, <1>19, <3>4, PathElements
    <3>6. Len(v) < Len(x) /\ \A i \in 1..Len(v) : v[i] = x[i]
      BY <1>3, <1>8, <2>1, <3>1, <3>2, <3>5
    <3>7. Below(x, s)
      BY <1>8, <2>1, <3>3, <3>5, <3>6, BelowMeans
    <3>8. ASSUME NEW i \in Len(s)+1..Len(x) PROVE x[i] = First
      BY SMTT(30), <1>3, <1>8, <2>1, <3>1, <3>2, <3>3, <3>5
    <3> QED
      BY <1>4, <1>19, <3>4, <3>7, <3>8 DEF LeftmostBelow
  <2> QED
    BY <2>3, <2>4
<1>21. WellFormedTree(u)
  <2>1. AllPanes(u) # {}
    BY <1>19
  <2> QED
    BY <1>14, <1>15, <1>17, <1>18, <1>20, <2>1 DEF WellFormedTree
<1> QED
  BY <1>4, <1>5, <1>21 DEF u

-----------------------------------------------------------------------------
(* Overlays                                                                *)

\* A menu that is reconciled stays as it is or closes.
LEMMA ReconciledOrClosed ==
  ASSUME NEW m, NEW ws, NEW act, NEW r
  PROVE  Reconciled(m, ws, act, r) \in {m, NoMenu}
BY DEF Reconciled

\* No step opens an overlay over another one.
LEMMA OverlayStep == OneOverlay /\ [Next]_vars => OneOverlay'
<1> SUFFICES ASSUME OneOverlay, [Next]_vars
             PROVE  OneOverlay'
  OBVIOUS
<1> USE DEF OneOverlay, modalVars
<1>a. ASSUME NEW m \in {menu, NoMenu}, menu' \in {m, NoMenu}, UNCHANGED <<help, dialog>>
      PROVE  OneOverlay'
  BY <1>a
<1>1. ASSUME NEW m \in {menu, NoMenu}, SplitFocused(m) PROVE OneOverlay'
  BY <1>1, <1>a, ReconciledOrClosed DEF SplitFocused
<1>2. ASSUME NEW m \in {menu, NoMenu}, NEW p, PaneExited(p, m) PROVE OneOverlay'
  BY <1>2, <1>a, ReconciledOrClosed DEF PaneExited, Shrink, DropWindow
<1>3. ASSUME NEW m \in {menu, NoMenu}, CloseFocused(m) PROVE OneOverlay'
  BY <1>3, <1>2 DEF CloseFocused
<1>4. ASSUME NEW m \in {menu, NoMenu}, NEW i, CloseWindow(i, m) PROVE OneOverlay'
  BY <1>4, <1>a, ReconciledOrClosed DEF CloseWindow, DropWindow
<1>5. ASSUME NEW m \in {menu, NoMenu}, ToggleZoom(m) PROVE OneOverlay'
  BY <1>5, <1>a, ReconciledOrClosed DEF ToggleZoom
<1>6. ASSUME NEW i, SplitWindow(i) PROVE OneOverlay'
  BY <1>6 DEF SplitWindow
<1>7. ASSUME NEW pinned, NewWindow(pinned) PROVE OneOverlay'
  BY <1>7 DEF NewWindow
<1>8. ASSUME NEW i, SwitchWindow(i) PROVE OneOverlay'
  BY <1>8 DEF SwitchWindow
<1>9. CASE ToggleSidebar
  BY <1>9 DEF ToggleSidebar
<1>10. ASSUME NEW i, NEW pinned, RenameWindow(i, pinned) PROVE OneOverlay'
  BY <1>10 DEF RenameWindow
<1>11. CASE ShowHelp
  BY <1>11, ReconciledOrClosed DEF ShowHelp, NoOverlay
<1>12. CASE OpenNewWindowDialog
  BY <1>12 DEF OpenNewWindowDialog, NoOverlay
<1>13. CASE EnterCopyMode
  BY <1>13 DEF EnterCopyMode, EnterCopy
<1>14. CASE Command
  BY <1>14, <1>1, <1>3, <1>4, <1>5, <1>6, <1>7, <1>8, <1>9, <1>10, <1>11, <1>12, <1>13
  DEF Command
<1>15. CASE DismissHelp
  BY <1>15 DEF DismissHelp
<1>16. CASE CancelDialog
  BY <1>16 DEF CancelDialog
<1>17. ASSUME NEW pinned, SubmitNewWindow(pinned) \/ SubmitRename(pinned) PROVE OneOverlay'
  BY <1>17 DEF SubmitNewWindow, SubmitRename
<1>18. CASE ChooseItem
  BY <1>18, <1>1, <1>3, <1>4, <1>5 DEF ChooseItem
<1>19. CASE DismissMenu
  BY <1>19 DEF DismissMenu
<1>20. CASE Overlay
  BY <1>20, <1>15, <1>16, <1>17, <1>18, <1>19 DEF Overlay, ExitCopyMode
<1>21. CASE Outside
  BY <1>21, <1>2, <1>a, ReconciledOrClosed DEF Outside, Resize, TakeSnapshotDirty
<1>22. ASSUME NEW c \in Clients, Mouse(c) PROVE OneOverlay'
  <2> USE DEF MouseFree, Plain
  <2>1. CASE ClickOverlay(c)
    BY <2>1, <1>15, <1>18, <1>19 DEF ClickOverlay
  <2>2. CASE RightClick(c)
    BY <2>2 DEF RightClick
  <2>3. CASE DragSelect(c)
    BY <2>3 DEF DragSelect, EnterCopy
  <2>4. CASE ClickPlus(c)
    BY <2>4 DEF ClickPlus
  <2>5. ASSUME NEW p, ClickPane(c, p) PROVE OneOverlay'
    BY <2>5 DEF ClickPane
  <2>6. ASSUME NEW i, ClickTab(c, i) PROVE OneOverlay'
    BY <2>6 DEF ClickTab
  <2>7. ASSUME NEW i, NEW p, ClickSidebar(c, i, p) PROVE OneOverlay'
    BY <2>7 DEF ClickSidebar
  <2>8. ASSUME NEW s, ClickDivider(c, s) PROVE OneOverlay'
    BY <2>8 DEF ClickDivider
  <2>9. ASSUME NEW r, DragDivider(c, r) PROVE OneOverlay'
    BY <2>9 DEF DragDivider
  <2>10. CASE Release(c) \/ ClientGone(c)
    BY <2>10 DEF Release, ClientGone
  <2> QED
    BY <1>22, <2>1, <2>2, <2>3, <2>4, <2>5, <2>6, <2>7, <2>8, <2>9, <2>10 DEF Mouse
<1>23. CASE UNCHANGED vars
  BY <1>23 DEF vars
<1> QED
  BY <1>14, <1>20, <1>21, <1>22, <1>23 DEF Next

\* At most one of the context menu, help and the window-name dialog is open,
\* whatever the clients, the control socket and the panes do (session.rs,
\* `menu`, `help`, `dialog`): one client's keys never reach two overlays.
THEOREM OneOverlayHolds == Spec => []OneOverlay
<1>1. Init => OneOverlay
  BY DEF Init, OneOverlay
<1> QED
  BY <1>1, OverlayStep, PTL DEF Spec

-----------------------------------------------------------------------------
(* Windows, trees and panes.                                               *)
(*                                                                         *)
(* The invariants about where panes are hold together or not at all: the   *)
(* window a pane leaves is found by looking for it, the focus falls on the *)
(* first leaf of what is left, and the active position moves with the      *)
(* vector.  Placement states them as one formula of the window vector, the *)
(* active position, the live panes and the next id, so that each change of *)
(* the vector is a lemma of its own.                                       *)

TreeType == {t \in [path  : UNION {[P -> Path] : P \in SUBSET PaneId},
                    ratio : UNION {[S -> Ratios] : S \in SUBSET Path}] :
               WellFormedTree(t)}

WindowType == [id : PaneId, tree : TreeType, focused : PaneId,
               zoomed : BOOLEAN, pinned : BOOLEAN]

Disjoint(ws) == \A i, j \in DOMAIN ws : i # j => PanesOf(ws[i]) \cap PanesOf(ws[j]) = {}

Placement(ws, act, live, next) ==
  /\ ws \in Seq(WindowType)
  /\ act \in Nat \ {0}
  /\ ws # <<>> => act \in DOMAIN ws
  /\ \A i \in DOMAIN ws : ws[i].focused \in PanesOf(ws[i])
  /\ \A i \in DOMAIN ws : ws[i].zoomed => i = act
  /\ Disjoint(ws)
  /\ live = Placed(ws)
  /\ next \in 1..MaxPanes + 1
  /\ \A p \in live : p < next

LEMMA TreeTypeMeans ==
  ASSUME NEW t
  PROVE  t \in TreeType <=> IsTree(t) /\ AllPanes(t) \subseteq PaneId /\ WellFormedTree(t)
<1>1. ASSUME t \in TreeType
      PROVE  IsTree(t) /\ AllPanes(t) \subseteq PaneId /\ WellFormedTree(t)
  <2>1. PICK P \in SUBSET PaneId, S \in SUBSET Path :
           /\ t = [path |-> t.path, ratio |-> t.ratio]
           /\ t.path \in [P -> Path] /\ t.ratio \in [S -> Ratios]
    BY <1>1 DEF TreeType
  <2>2. AllPanes(t) = P /\ SplitPaths(t) = S
    BY <2>1 DEF AllPanes, SplitPaths
  <2> QED
    BY <1>1, <2>1, <2>2 DEF IsTree, TreeType
<1>2. ASSUME IsTree(t), AllPanes(t) \subseteq PaneId, WellFormedTree(t)
      PROVE  t \in TreeType
  <2>1. t.path \in UNION {[P -> Path] : P \in SUBSET PaneId}
    BY <1>2 DEF IsTree
  <2>2. t.ratio \in UNION {[S -> Ratios] : S \in SUBSET Path}
    BY <1>2 DEF IsTree
  <2> QED
    BY <1>2, <2>1, <2>2 DEF IsTree, TreeType
<1> QED
  BY <1>1, <1>2

\* What the placement of panes says about window i.
LEMMA WindowFacts ==
  ASSUME NEW ws, NEW act, NEW live, NEW next, Placement(ws, act, live, next),
         NEW i \in DOMAIN ws
  PROVE  /\ ws[i] \in WindowType /\ DOMAIN ws = 1..Len(ws) /\ Len(ws) \in Nat
         /\ IsTree(ws[i].tree) /\ WellFormedTree(ws[i].tree)
         /\ PanesOf(ws[i]) \subseteq live /\ PanesOf(ws[i]) \subseteq PaneId
         /\ ws[i].focused \in PanesOf(ws[i])
<1>1. ws \in Seq(WindowType) /\ ws[i] \in WindowType /\ DOMAIN ws = 1..Len(ws) /\ Len(ws) \in Nat
  BY DEF Placement
<1>2. ws[i].tree \in TreeType
  BY <1>1 DEF WindowType
<1>3. PanesOf(ws[i]) \subseteq live
  BY DEF Placement, Placed
<1> QED
  BY <1>1, <1>2, <1>3, TreeTypeMeans DEF Placement, PanesOf

\* The window found for a pane holds it.
LEMMA WindowOfPane ==
  ASSUME NEW ws, NEW act, NEW live, NEW next, Placement(ws, act, live, next),
         NEW p \in live
  PROVE  WindowOf(ws, p) \in DOMAIN ws /\ p \in PanesOf(ws[WindowOf(ws, p)])
<1>1. \E i \in DOMAIN ws : p \in PanesOf(ws[i])
  BY DEF Placement, Placed
<1> QED
  BY <1>1 DEF WindowOf

LEMMA LivePanes ==
  ASSUME NEW ws, NEW act, NEW live, NEW next, Placement(ws, act, live, next),
         NEW p \in live
  PROVE  p \in PaneId /\ p < next
<1>1. PICK i \in DOMAIN ws : p \in PanesOf(ws[i])
  BY WindowOfPane
<1>2. PanesOf(ws[i]) \subseteq PaneId
  BY WindowFacts
<1> QED
  BY <1>1, <1>2 DEF Placement

\* Changes that leave every window its panes: focus, zoom, name, ratios and
\* the active position.
LEMMA UpdatePlacement ==
  ASSUME NEW ws, NEW act, NEW live, NEW next, Placement(ws, act, live, next),
         NEW vs \in Seq(WindowType), NEW new \in Nat \ {0},
         Len(vs) = Len(ws), ws # <<>> => new \in DOMAIN ws,
         \A i \in DOMAIN ws : /\ PanesOf(vs[i]) = PanesOf(ws[i])
                              /\ vs[i].focused \in PanesOf(ws[i])
                              /\ vs[i].zoomed => i = new
  PROVE  Placement(vs, new, live, next)
<1>1. ws \in Seq(WindowType) /\ DOMAIN vs = DOMAIN ws
  BY DEF Placement
<1>2. Placed(vs) = Placed(ws)
  BY <1>1 DEF Placed
<1>3. Disjoint(vs)
  BY <1>1 DEF Disjoint, Placement
<1>4. vs # <<>> => new \in DOMAIN vs
  BY <1>1
<1> QED
  BY <1>1, <1>2, <1>3, <1>4 DEF Placement

\* A new window with one new pane.
LEMMA AppendPlacement ==
  ASSUME NEW ws, NEW act, NEW live, NEW next, Placement(ws, act, live, next),
         \A i \in DOMAIN ws : ~ws[i].zoomed,
         next <= MaxPanes, NEW pinned \in BOOLEAN
  PROVE  Placement(Append(ws, NewWindowRec(next, pinned)), Len(ws) + 1,
                   live \cup {next}, next + 1)
<1> DEFINE w  == NewWindowRec(next, pinned)
           vs == Append(ws, w)
<1>1. /\ ws \in Seq(WindowType) /\ Len(ws) \in Nat /\ DOMAIN ws = 1..Len(ws)
      /\ next \in 1..MaxPanes + 1 /\ next \in PaneId /\ next \notin live
      /\ live = Placed(ws) /\ MaxPanes \in Nat
  BY MaxPanesAssumption DEF Placement, PaneId
<1>2. /\ w \in WindowType /\ PanesOf(w) = {next} /\ w.focused = next /\ ~w.zoomed
  BY <1>1, LeafWellFormed, TreeTypeMeans DEF NewWindowRec, WindowType, PanesOf
<1> HIDE DEF w
<1>3. /\ vs \in Seq(WindowType) /\ Len(vs) = Len(ws) + 1 /\ DOMAIN vs = 1..Len(ws) + 1
      /\ \A i \in 1..Len(ws) : vs[i] = ws[i]
      /\ vs[Len(ws) + 1] = w
  BY <1>1, <1>2
<1> HIDE DEF vs
<1>4. \A i \in DOMAIN vs : i \in DOMAIN ws \/ i = Len(ws) + 1
  BY <1>1, <1>3
<1>5. Placed(vs) = live \cup {next}
  BY <1>1, <1>2, <1>3, <1>4 DEF Placed
<1>6. Disjoint(vs)
  <2>1. \A i \in DOMAIN ws : next \notin PanesOf(ws[i])
    BY <1>1 DEF Placed
  <2> QED
    BY <1>1, <1>2, <1>3, <1>4, <2>1 DEF Disjoint, Placement
<1>7. \A i \in DOMAIN vs : vs[i].focused \in PanesOf(vs[i]) /\ ~vs[i].zoomed
  BY <1>1, <1>2, <1>3, <1>4 DEF Placement
<1>8. \A p \in live \cup {next} : p < next + 1
  BY <1>1, LivePanes DEF PaneId
<1>9. Len(ws) + 1 \in DOMAIN vs /\ Len(ws) + 1 \in Nat \ {0} /\ next + 1 \in 1..MaxPanes + 1
  BY <1>1, <1>3
<1>10. Placement(vs, Len(ws) + 1, live \cup {next}, next + 1)
  BY <1>3, <1>5, <1>6, <1>7, <1>8, <1>9 DEF Placement
<1> QED
  BY <1>10 DEF vs, w

\* One window's panes change to `now`; the others stay.
LEMMA ReplacePlacement ==
  ASSUME NEW ws, NEW act, NEW live, NEW next, Placement(ws, act, live, next),
         NEW i \in DOMAIN ws, NEW w \in WindowType,
         w.focused \in PanesOf(w), w.zoomed => ws[i].zoomed,
         PanesOf(w) \cap live \subseteq PanesOf(ws[i]),
         NEW next2 \in 1..MaxPanes + 1,
         \A p \in (live \ PanesOf(ws[i])) \cup PanesOf(w) : p < next2
  PROVE  Placement([ws EXCEPT ![i] = w], act, (live \ PanesOf(ws[i])) \cup PanesOf(w), next2)
<1> DEFINE vs == [ws EXCEPT ![i] = w]
<1>1. /\ ws \in Seq(WindowType) /\ DOMAIN ws = 1..Len(ws) /\ Len(ws) \in Nat
      /\ live = Placed(ws)
  BY DEF Placement
<1>2. /\ vs \in Seq(WindowType) /\ Len(vs) = Len(ws) /\ DOMAIN vs = DOMAIN ws
      /\ vs[i] = w /\ \A j \in DOMAIN ws : j # i => vs[j] = ws[j]
  BY <1>1
<1> HIDE DEF vs
<1>3. Placed(vs) = (live \ PanesOf(ws[i])) \cup PanesOf(w)
  <2>1. ASSUME NEW j \in DOMAIN ws, j # i
        PROVE  PanesOf(vs[j]) \subseteq live \ PanesOf(ws[i])
    BY <1>1, <1>2, <2>1 DEF Placed, Placement, Disjoint
  <2>2. ASSUME NEW p \in live \ PanesOf(ws[i])
        PROVE  \E j \in DOMAIN vs : p \in PanesOf(vs[j])
    BY <1>1, <1>2 DEF Placed
  <2> QED
    BY <1>2, <2>1, <2>2 DEF Placed
<1>4. Disjoint(vs)
  BY <1>1, <1>2 DEF Placed, Placement, Disjoint
<1>5. \A j \in DOMAIN vs : vs[j].focused \in PanesOf(vs[j]) /\ (vs[j].zoomed => j = act)
  BY <1>2 DEF Placement
<1>6. act \in Nat \ {0} /\ (vs # <<>> => act \in DOMAIN vs)
  BY <1>1, <1>2 DEF Placement
<1>7. Placement(vs, act, (live \ PanesOf(ws[i])) \cup PanesOf(w), next2)
  BY <1>2, <1>3, <1>4, <1>5, <1>6 DEF Placement
<1> QED
  BY <1>7 DEF vs

\* The focused pane of window i is split.
LEMMA SplitPlacement ==
  ASSUME NEW ws, NEW act, NEW live, NEW next, Placement(ws, act, live, next),
         NEW i \in DOMAIN ws, next <= MaxPanes
  PROVE  Placement(SplitIn(ws, i, next), act, live \cup {next}, next + 1)
<1> DEFINE t == SplitPane(ws[i].tree, ws[i].focused, next)
           w == [ws[i] EXCEPT !.tree = t, !.focused = next]
<1>1. /\ ws[i] \in WindowType /\ IsTree(ws[i].tree) /\ WellFormedTree(ws[i].tree)
      /\ PanesOf(ws[i]) \subseteq live /\ PanesOf(ws[i]) \subseteq PaneId
      /\ ws[i].focused \in PanesOf(ws[i])
  BY WindowFacts
<1>2. next \in PaneId /\ next \notin live /\ next + 1 \in 1..MaxPanes + 1 /\ next \in Nat
  BY MaxPanesAssumption, LivePanes DEF Placement, PaneId
<1>3. IsTree(t) /\ WellFormedTree(t) /\ AllPanes(t) = PanesOf(ws[i]) \cup {next}
  BY <1>1, <1>2, SplitPaneWellFormed DEF PanesOf
<1>4. t \in TreeType
  BY <1>1, <1>2, <1>3, TreeTypeMeans
<1> HIDE DEF t
<1>5. /\ w \in WindowType /\ w.focused = next /\ w.zoomed = ws[i].zoomed
      /\ PanesOf(w) = PanesOf(ws[i]) \cup {next}
  BY <1>1, <1>2, <1>3, <1>4 DEF WindowType, PanesOf
<1>6. SplitIn(ws, i, next) = [ws EXCEPT ![i] = w]
  BY DEF SplitIn, t
<1> HIDE DEF w
<1>7. (live \ PanesOf(ws[i])) \cup PanesOf(w) = live \cup {next}
  BY <1>1, <1>5
<1>8. \A p \in live \cup {next} : p < next + 1
  BY <1>2, LivePanes DEF PaneId
<1>9. PanesOf(w) \cap live \subseteq PanesOf(ws[i])
  BY <1>2, <1>5
<1>10. Placement([ws EXCEPT ![i] = w], act, (live \ PanesOf(ws[i])) \cup PanesOf(w), next + 1)
  BY <1>2, <1>5, <1>7, <1>8, <1>9, ReplacePlacement
<1> QED
  BY <1>6, <1>7, <1>10

\* A pane of window i is closed and others of it stay.
LEMMA ShrinkPlacement ==
  ASSUME NEW ws, NEW act, NEW live, NEW next, Placement(ws, act, live, next),
         NEW i \in DOMAIN ws, NEW p \in PanesOf(ws[i]), ~IsLeaf(ws[i].tree)
  PROVE  LET t == ClosePane(ws[i].tree, p)
         IN  Placement([ws EXCEPT ![i].tree = t, ![i].focused = FocusAfter(ws[i], p, t)],
                       act, live \ {p}, next)
<1> DEFINE t == ClosePane(ws[i].tree, p)
           f == FocusAfter(ws[i], p, t)
           w == [ws[i] EXCEPT !.tree = t, !.focused = f]
<1>1. /\ ws[i] \in WindowType /\ IsTree(ws[i].tree) /\ WellFormedTree(ws[i].tree)
      /\ PanesOf(ws[i]) \subseteq live /\ PanesOf(ws[i]) \subseteq PaneId
      /\ ws[i].focused \in PanesOf(ws[i])
  BY WindowFacts
<1>2. IsTree(t) /\ WellFormedTree(t) /\ AllPanes(t) = PanesOf(ws[i]) \ {p}
  BY <1>1, ClosePaneWellFormed DEF PanesOf
<1>3. t \in TreeType
  BY <1>1, <1>2, TreeTypeMeans
<1> HIDE DEF t
<1>4. f \in AllPanes(t)
  BY <1>1, <1>2, FirstLeafIsPane DEF FocusAfter
<1> HIDE DEF f
<1>5. /\ w \in WindowType /\ w.focused = f /\ w.zoomed = ws[i].zoomed
      /\ PanesOf(w) = PanesOf(ws[i]) \ {p}
  BY <1>1, <1>2, <1>3, <1>4 DEF WindowType, PanesOf
<1>6. [ws EXCEPT ![i].tree = t, ![i].focused = f] = [ws EXCEPT ![i] = w]
  BY <1>1
<1> HIDE DEF w
<1>7. (live \ PanesOf(ws[i])) \cup PanesOf(w) = live \ {p}
  BY <1>1, <1>5
<1>8. next \in 1..MaxPanes + 1 /\ \A q \in live \ {p} : q < next
  BY DEF Placement
<1>9. Placement([ws EXCEPT ![i] = w], act, (live \ PanesOf(ws[i])) \cup PanesOf(w), next)
  BY <1>2, <1>4, <1>5, <1>7, <1>8, ReplacePlacement
<1> QED
  BY <1>6, <1>7, <1>9 DEF t, f

\* What is left of a sequence when one element is removed.
LEMMA RemoveAtFacts ==
  ASSUME NEW S, NEW s \in Seq(S), NEW i \in 1..Len(s)
  PROVE  /\ RemoveAt(s, i) \in Seq(S)
         /\ Len(RemoveAt(s, i)) = Len(s) - 1
         /\ \A j \in 1..Len(s) - 1 :
               RemoveAt(s, i)[j] = IF j < i THEN s[j] ELSE s[j + 1]
<1>1. Len(s) \in Nat /\ i \in Int /\ i - 1 \in Int /\ i + 1 \in Int /\ 1 \in Int /\ Len(s) \in Int
  OBVIOUS
<1>2. PICK a : a = SubSeq(s, 1, i - 1)
  OBVIOUS
<1>3. PICK b : b = SubSeq(s, i + 1, Len(s))
  OBVIOUS
<1>4. a \in Seq(S) /\ Len(a) = i - 1 /\ \A j \in 1..i - 1 : a[j] = s[j]
  <2>1. \A j \in 1..i - 1 : s[j] \in S
    BY ElementOfSeq
  <2>2. /\ SubSeq(s, 1, i - 1) \in Seq(S)
        /\ Len(SubSeq(s, 1, i - 1)) = IF 1 <= i - 1 THEN (i - 1) - 1 + 1 ELSE 0
        /\ \A j \in 1..(i - 1) - 1 + 1 : SubSeq(s, 1, i - 1)[j] = s[1 + j - 1]
    BY <1>1, <2>1, SubSeqProperties
  <2> QED
    BY <1>2, <2>2
<1>5. /\ b \in Seq(S) /\ Len(b) = Len(s) - i
      /\ \A j \in 1..Len(s) - i : b[j] = s[i + j]
  <2>1. \A j \in i + 1..Len(s) : s[j] \in S
    BY ElementOfSeq
  <2>2. /\ SubSeq(s, i + 1, Len(s)) \in Seq(S)
        /\ Len(SubSeq(s, i + 1, Len(s))) =
             IF i + 1 <= Len(s) THEN Len(s) - (i + 1) + 1 ELSE 0
        /\ \A j \in 1..Len(s) - (i + 1) + 1 : SubSeq(s, i + 1, Len(s))[j] = s[i + 1 + j - 1]
    BY <1>1, <2>1, SubSeqProperties
  <2> QED
    BY <1>1, <1>3, <2>2
<1>6. RemoveAt(s, i) = a \o b
  BY <1>2, <1>3 DEF RemoveAt
<1>7. PICK c : c = a \o b
  OBVIOUS
<1>8. /\ c \in Seq(S) /\ Len(c) = Len(a) + Len(b)
      /\ \A j \in 1..Len(a) + Len(b) : c[j] = IF j <= Len(a) THEN a[j] ELSE b[j - Len(a)]
  BY <1>4, <1>5, <1>7, ConcatProperties
<1>9. /\ Len(c) = Len(s) - 1
      /\ \A j \in 1..Len(s) - 1 : c[j] = IF j <= i - 1 THEN a[j] ELSE b[j - (i - 1)]
  <2>1. Len(a) + Len(b) = Len(s) - 1 /\ Len(a) = i - 1
    BY <1>1, <1>4, <1>5
  <2> QED
    BY <1>8, <2>1
<1>10. ASSUME NEW j \in 1..Len(s) - 1
       PROVE  c[j] = IF j < i THEN s[j] ELSE s[j + 1]
  <2>1. CASE j < i
    <3>1. j <= i - 1 /\ j \in 1..i - 1
      BY <1>1, <2>1
    <3> QED
      BY <1>4, <1>9, <2>1, <3>1
  <2>2. CASE j >= i
    <3>1. c[j] = b[j - (i - 1)] /\ j - (i - 1) \in 1..Len(s) - i
      BY <1>1, <1>9, <2>2
    <3>2. i + (j - (i - 1)) = j + 1
      BY <1>1
    <3>3. b[j - (i - 1)] = s[i + (j - (i - 1))]
      BY <1>5, <3>1
    <3> QED
      BY <1>1, <2>2, <3>1, <3>2, <3>3
  <2> QED
    BY <1>1, <2>1, <2>2
<1> QED
  BY <1>6, <1>7, <1>8, <1>9, <1>10

\* Window i goes with all its panes.
LEMMA DropPlacement ==
  ASSUME NEW live, NEW next, Placement(windows, active, live, next),
         NEW i \in DOMAIN windows
  PROVE  Placement(RemoveAt(windows, i), ActiveAfter(i), live \ PanesOf(windows[i]), next)
<1>1. /\ windows \in Seq(WindowType) /\ Len(windows) \in Nat /\ i \in 1..Len(windows)
      /\ DOMAIN windows = 1..Len(windows) /\ active \in 1..Len(windows)
      /\ live = Placed(windows) /\ windows # <<>>
  BY DEF Placement
<1>2. PICK vs : vs = RemoveAt(windows, i)
  OBVIOUS
<1>3. /\ vs \in Seq(WindowType) /\ Len(vs) = Len(windows) - 1
      /\ \A j \in 1..Len(windows) - 1 : vs[j] = IF j < i THEN windows[j] ELSE windows[j + 1]
  BY <1>1, <1>2, RemoveAtFacts
<1>4. DOMAIN vs = 1..Len(windows) - 1
  BY <1>1, <1>3
<1> DEFINE was(j) == IF j < i THEN j ELSE j + 1
<1>5. \A j \in DOMAIN vs : was(j) \in DOMAIN windows \ {i} /\ vs[j] = windows[was(j)]
  BY <1>1, <1>3, <1>4
<1>6. \A j \in DOMAIN windows \ {i} : \E k \in DOMAIN vs : was(k) = j
  <2> SUFFICES ASSUME NEW j \in DOMAIN windows \ {i} PROVE \E k \in DOMAIN vs : was(k) = j
    OBVIOUS
  <2>1. CASE j < i
    <3>1. j \in DOMAIN vs /\ was(j) = j
      BY <1>1, <1>4, <2>1
    <3> QED
      BY <3>1
  <2>2. CASE j > i
    <3>1. j - 1 \in DOMAIN vs /\ was(j - 1) = j
      BY <1>1, <1>4, <2>2
    <3> QED
      BY <3>1
  <2> QED
    BY <1>1, <2>1, <2>2
<1>7. \A j, k \in DOMAIN vs : was(j) = was(k) => j = k
  BY <1>1, <1>4
<1>8. /\ ActiveAfter(i) \in Nat \ {0}
      /\ vs # <<>> => ActiveAfter(i) \in DOMAIN vs
      /\ \A j \in DOMAIN vs : was(j) = active => j = ActiveAfter(i)
  BY <1>1, <1>3, <1>4 DEF ActiveAfter
<1> HIDE DEF was
<1>9. Placed(vs) = live \ PanesOf(windows[i])
  <2>1. ASSUME NEW j \in DOMAIN vs PROVE PanesOf(vs[j]) \subseteq live \ PanesOf(windows[i])
    BY <1>1, <1>5 DEF Placed, Placement, Disjoint
  <2>2. ASSUME NEW p \in live \ PanesOf(windows[i])
        PROVE  \E j \in DOMAIN vs : p \in PanesOf(vs[j])
    BY <1>1, <1>5, <1>6 DEF Placed
  <2> QED
    BY <2>1, <2>2 DEF Placed
<1>10. Disjoint(vs)
  BY <1>5, <1>7 DEF Placement, Disjoint
<1>11. \A j \in DOMAIN vs : /\ vs[j].focused \in PanesOf(vs[j])
                            /\ vs[j].zoomed => j = ActiveAfter(i)
  BY <1>5, <1>8 DEF Placement
<1>12. /\ next \in 1..MaxPanes + 1
       /\ \A p \in live \ PanesOf(windows[i]) : p < next
  BY DEF Placement
<1>13. Placement(vs, ActiveAfter(i), live \ PanesOf(windows[i]), next)
  BY <1>3, <1>8, <1>9, <1>10, <1>11, <1>12 DEF Placement
<1> QED
  BY <1>2, <1>13

-----------------------------------------------------------------------------
(* Every step keeps the placement.                                         *)

Placing == Placement(windows, active, DOMAIN panes, nextPane)

LEMMA RelaidDomain ==
  ASSUME NEW ws, NEW act, NEW live, NEW r, NEW sb
  PROVE  DOMAIN Relaid(ws, act, live, r, sb) = live
BY DEF Relaid

LEMMA UnzoomedPlacement ==
  ASSUME Placing
  PROVE  /\ Placement(Unzoomed(windows), active, DOMAIN panes, nextPane)
         /\ Len(Unzoomed(windows)) = Len(windows)
         /\ DOMAIN Unzoomed(windows) = DOMAIN windows
         /\ Unzoomed(windows) \in Seq(WindowType)
         /\ \A i \in DOMAIN windows :
               /\ ~Unzoomed(windows)[i].zoomed
               /\ Unzoomed(windows)[i] \in WindowType
               /\ Unzoomed(windows)[i].tree = windows[i].tree
               /\ Unzoomed(windows)[i].focused = windows[i].focused
<1> DEFINE vs == Unzoomed(windows)
<1>1. /\ windows \in Seq(WindowType) /\ DOMAIN windows = 1..Len(windows)
      /\ Len(windows) \in Nat /\ active \in Nat \ {0}
      /\ windows # <<>> => active \in DOMAIN windows
  BY DEF Placing, Placement
<1>2. /\ vs \in Seq(WindowType) /\ Len(vs) = Len(windows) /\ DOMAIN vs = DOMAIN windows
      /\ \A i \in DOMAIN windows :
            vs[i] = IF i = active THEN [windows[i] EXCEPT !.zoomed = FALSE] ELSE windows[i]
  <2>1. CASE active \in DOMAIN windows
    <3> DEFINE w == [windows[active] EXCEPT !.zoomed = FALSE]
    <3>1. windows[active] \in WindowType
      BY <1>1, <2>1
    <3>2. w \in WindowType
      BY <3>1 DEF WindowType
    <3>3. vs = [windows EXCEPT ![active] = w]
      BY <2>1 DEF Unzoomed
    <3> HIDE DEF vs
    <3>4. \A i \in DOMAIN windows : i # active => vs[i] = windows[i]
      BY <1>1, <3>3
    <3>5. vs[active] = w /\ vs \in Seq(WindowType) /\ Len(vs) = Len(windows)
      <4> HIDE DEF w
      <4> QED
        BY <1>1, <2>1, <3>2, <3>3
    <3>6. DOMAIN vs = DOMAIN windows
      BY <1>1, <3>5
    <3> QED
      BY <3>4, <3>5, <3>6
  <2>2. CASE active \notin DOMAIN windows
    BY <1>1, <2>2 DEF Unzoomed
  <2> QED
    BY <2>1, <2>2
<1> HIDE DEF vs
<1>3. ASSUME NEW i \in DOMAIN windows
      PROVE  /\ ~vs[i].zoomed /\ vs[i] \in WindowType
             /\ vs[i].tree = windows[i].tree /\ vs[i].focused = windows[i].focused
  <2>1. windows[i] \in WindowType /\ (windows[i].zoomed => i = active)
    BY <1>1 DEF Placing, Placement
  <2> QED
    BY <1>2, <2>1 DEF WindowType
<1>4. \A i \in DOMAIN windows : /\ PanesOf(vs[i]) = PanesOf(windows[i])
                                /\ vs[i].focused \in PanesOf(windows[i])
  BY <1>3 DEF PanesOf, Placing, Placement
<1>5. Placement(vs, active, DOMAIN panes, nextPane)
  BY <1>1, <1>2, <1>3, <1>4, UpdatePlacement DEF Placing
<1> QED
  BY <1>2, <1>3, <1>5 DEF vs

\* The pane map after a change is laid out again over the panes that live.
LEMMA SpawnedPlacing ==
  ASSUME NEW ws, NEW act, Spawned(ws, act),
         Placement(ws, act, DOMAIN panes \cup {nextPane}, nextPane + 1)
  PROVE  Placing'
BY RelaidDomain DEF Spawned, Placing

\* Window i loses window w's place to v, which has the same panes.
LEMMA ChangePlacement ==
  ASSUME Placing, NEW i \in DOMAIN windows, NEW w \in WindowType,
         PanesOf(w) = PanesOf(windows[i]), w.focused \in PanesOf(w),
         w.zoomed => i = active
  PROVE  Placement([windows EXCEPT ![i] = w], active, DOMAIN panes, nextPane)
<1> DEFINE vs == [windows EXCEPT ![i] = w]
<1>1. /\ windows \in Seq(WindowType) /\ DOMAIN windows = 1..Len(windows)
      /\ active \in Nat \ {0} /\ (windows # <<>> => active \in DOMAIN windows)
  BY DEF Placing, Placement
<1>2. /\ vs \in Seq(WindowType) /\ Len(vs) = Len(windows) /\ vs[i] = w
      /\ \A j \in DOMAIN windows : j # i => vs[j] = windows[j]
  BY <1>1
<1> HIDE DEF vs
<1>3. \A j \in DOMAIN windows : /\ PanesOf(vs[j]) = PanesOf(windows[j])
                                /\ vs[j].focused \in PanesOf(windows[j])
                                /\ vs[j].zoomed => j = active
  BY <1>2 DEF Placing, Placement
<1>4. Placement(vs, active, DOMAIN panes, nextPane)
  BY <1>1, <1>2, <1>3, UpdatePlacement DEF Placing
<1> QED
  BY <1>4 DEF vs

LEMMA FocusPlacing ==
  ASSUME Placing, NEW p, Focus(p), UNCHANGED <<active, paneVars>>
  PROVE  Placing'
<1>1. CASE Running /\ p \in PanesOf(windows[active])
  <2> DEFINE w == [windows[active] EXCEPT !.focused = p]
  <2>1. active \in DOMAIN windows /\ windows[active] \in WindowType
        /\ PanesOf(windows[active]) \subseteq PaneId
    <3>1. active \in DOMAIN windows
      BY <1>1 DEF Placing, Placement, Running
    <3> QED
      BY <3>1, WindowFacts DEF Placing
  <2>2. w \in WindowType /\ PanesOf(w) = PanesOf(windows[active]) /\ w.focused = p
        /\ w.zoomed = windows[active].zoomed
    BY <1>1, <2>1 DEF WindowType, PanesOf
  <2>3. windows' = [windows EXCEPT ![active] = w]
    BY <1>1, <2>1 DEF Focus
  <2> HIDE DEF w
  <2>4. Placement(windows', active, DOMAIN panes, nextPane)
    BY <1>1, <2>1, <2>2, <2>3, ChangePlacement
  <2> QED
    BY <2>4 DEF Placing, paneVars
<1>2. CASE ~(Running /\ p \in PanesOf(windows[active]))
  BY <1>2 DEF Focus, Placing, paneVars
<1> QED
  BY <1>1, <1>2

\* A spawn that is refused leaves at most the zoom changed.
LEMMA RefusedPlacing ==
  ASSUME Placing, Refused(Unzoomed(windows))
  PROVE  Placing'
BY UnzoomedPlacement DEF Refused, Placing, paneVars

LEMMA SplitPlacing ==
  ASSUME Placing
  PROVE  /\ \A m : SplitFocused(m) => Placing'
         /\ \A i \in DOMAIN windows : SplitWindow(i) => Placing'
<1>1. ASSUME NEW m, SplitFocused(m) PROVE Placing'
  <2> DEFINE ws == Unzoomed(windows)
  <2>1. active \in DOMAIN windows
    BY <1>1 DEF SplitFocused, Placing, Placement, Running
  <2>2. Placement(ws, active, DOMAIN panes, nextPane) /\ active \in DOMAIN ws
    BY <2>1, UnzoomedPlacement
  <2>3. CASE Spawned(SplitIn(ws, active, nextPane), active)
    <3>1. nextPane <= MaxPanes
      BY <2>3 DEF Spawned
    <3>2. Placement(SplitIn(ws, active, nextPane), active, DOMAIN panes \cup {nextPane},
                    nextPane + 1)
      BY <2>2, <3>1, SplitPlacement
    <3> QED
      BY <2>3, <3>2, SpawnedPlacing
  <2>4. CASE Refused(ws)
    BY <2>4, RefusedPlacing
  <2> QED
    BY <1>1, <2>3, <2>4 DEF SplitFocused
<1>2. ASSUME NEW i \in DOMAIN windows, SplitWindow(i) PROVE Placing'
  <2>1. nextPane <= MaxPanes /\ Spawned(SplitIn(windows, i, nextPane), active)
    BY <1>2 DEF SplitWindow, Spawned
  <2>2. Placement(SplitIn(windows, i, nextPane), active, DOMAIN panes \cup {nextPane},
                  nextPane + 1)
    BY <2>1, SplitPlacement DEF Placing
  <2> QED
    BY <2>1, <2>2, SpawnedPlacing
<1> QED
  BY <1>1, <1>2

\* A new window, by command or from the dialog.
LEMMA AppendPlacing ==
  ASSUME Placing, NEW pinned \in BOOLEAN,
         LET ws == Unzoomed(windows)
         IN  \/ Spawned(Append(ws, NewWindowRec(nextPane, pinned)), Len(ws) + 1)
             \/ Refused(ws)
  PROVE  Placing'
<1> DEFINE ws == Unzoomed(windows)
<1>1. CASE Spawned(Append(ws, NewWindowRec(nextPane, pinned)), Len(ws) + 1)
  <2>1. nextPane <= MaxPanes
    BY <1>1 DEF Spawned
  <2>2. /\ Placement(ws, active, DOMAIN panes, nextPane)
        /\ \A i \in DOMAIN ws : ~ws[i].zoomed
    BY UnzoomedPlacement
  <2> HIDE DEF ws
  <2>3. Placement(Append(ws, NewWindowRec(nextPane, pinned)), Len(ws) + 1,
                  DOMAIN panes \cup {nextPane}, nextPane + 1)
    BY <2>1, <2>2, AppendPlacement
  <2> QED
    BY <1>1, <2>3, SpawnedPlacing
<1>2. CASE Refused(ws)
  BY <1>2, RefusedPlacing
<1> QED
  BY <1>1, <1>2

\* A window is dropped, or shrinks.
LEMMA RemovalPlacing ==
  ASSUME Placing, UNCHANGED nextPane
  PROVE  /\ \A i \in DOMAIN windows : \A m : DropWindow(i, m) => Placing'
         /\ \A p, m : PaneExited(p, m) => Placing'
<1>1. ASSUME NEW i \in DOMAIN windows, NEW m, DropWindow(i, m) PROVE Placing'
  <2>1. DOMAIN panes' = DOMAIN panes \ PanesOf(windows[i])
    BY <1>1, RelaidDomain DEF DropWindow, Survivors
  <2>2. Placement(RemoveAt(windows, i), ActiveAfter(i), DOMAIN panes \ PanesOf(windows[i]),
                  nextPane)
    BY DropPlacement DEF Placing
  <2> QED
    BY <1>1, <2>1, <2>2 DEF DropWindow, Placing
<1>2. ASSUME NEW p, NEW m, PaneExited(p, m) PROVE Placing'
  <2> DEFINE i == WindowOf(windows, p)
  <2>1. i \in DOMAIN windows /\ p \in PanesOf(windows[i])
    BY <1>2, WindowOfPane DEF PaneExited, Placing
  <2>2. CASE IsLeaf(windows[i].tree)
    BY <1>1, <1>2, <2>1, <2>2 DEF PaneExited
  <2>3. CASE ~IsLeaf(windows[i].tree)
    <3> DEFINE ws == UnzoomedBy(windows, i)
               t  == ClosePane(windows[i].tree, p)
    <3>1. Shrink(p, i, m)
      BY <1>2, <2>3 DEF PaneExited
    <3>2. /\ Placement(ws, active, DOMAIN panes, nextPane) /\ DOMAIN ws = DOMAIN windows
          /\ ws[i].tree = windows[i].tree /\ ws[i].focused = windows[i].focused
      BY <2>1, UnzoomedPlacement DEF UnzoomedBy, Placing
    <3> HIDE DEF i, ws
    <3>3. PanesOf(ws[i]) = PanesOf(windows[i]) /\ i \in DOMAIN ws
          /\ FocusAfter(ws[i], p, t) = FocusAfter(windows[i], p, t)
      BY <2>1, <3>2 DEF PanesOf, FocusAfter
    <3>4. Placement([ws EXCEPT ![i].tree = t, ![i].focused = FocusAfter(windows[i], p, t)],
                    active, DOMAIN panes \ {p}, nextPane)
      BY <2>1, <2>3, <3>2, <3>3, ShrinkPlacement
    <3>5. /\ windows' = [ws EXCEPT ![i].tree = t, ![i].focused = FocusAfter(windows[i], p, t)]
          /\ active' = active /\ DOMAIN panes' = DOMAIN panes \ {p}
      BY <3>1, RelaidDomain DEF Shrink, ws, Survivors
    <3> QED
      BY <3>4, <3>5 DEF Placing
  <2> QED
    BY <2>2, <2>3
<1> QED
  BY <1>1, <1>2

\* Another window comes to the front: the zoom goes, a pane may be focused.
LEMMA SwitchPlacing ==
  ASSUME Placing, NEW i \in DOMAIN windows,
         windows' = Unzoomed(windows), active' = i,
         DOMAIN panes' = DOMAIN panes, UNCHANGED nextPane
  PROVE  Placing'
<1>1. /\ windows' \in Seq(WindowType) /\ i \in Nat \ {0} /\ Len(windows') = Len(windows)
      /\ \A j \in DOMAIN windows : /\ PanesOf(windows'[j]) = PanesOf(windows[j])
                                   /\ windows'[j].focused \in PanesOf(windows[j])
                                   /\ ~windows'[j].zoomed
  BY UnzoomedPlacement DEF PanesOf, Placing, Placement
<1> QED
  BY <1>1, UpdatePlacement DEF Placing

LEMMA SidebarPlacing ==
  ASSUME Placing, NEW c, NEW i, NEW p, ClickSidebar(c, i, p)
  PROVE  Placing'
<1> DEFINE ws == Unzoomed(windows)
           w  == [ws[i] EXCEPT !.focused = p, !.zoomed = FALSE]
<1>1. i \in DOMAIN windows /\ p \in PanesOf(windows[i]) /\ p \in PaneId /\ i \in Nat \ {0}
  <2>1. i \in DOMAIN windows /\ p \in PanesOf(windows[i])
    BY DEF ClickSidebar
  <2> QED
    BY <2>1, WindowFacts DEF Placing
<1>2. /\ ws \in Seq(WindowType) /\ Len(ws) = Len(windows) /\ DOMAIN ws = DOMAIN windows
      /\ ws[i] \in WindowType
      /\ \A j \in DOMAIN windows : /\ ~ws[j].zoomed
                                   /\ ws[j].tree = windows[j].tree
                                   /\ ws[j].focused = windows[j].focused
  BY <1>1, UnzoomedPlacement
<1>3. windows' = [ws EXCEPT ![i] = w]
  BY <1>1, <1>2 DEF ClickSidebar
<1> HIDE DEF ws
<1>4. w \in WindowType /\ w.focused = p /\ ~w.zoomed /\ w.tree = windows[i].tree
  BY <1>1, <1>2 DEF WindowType
<1> HIDE DEF w
<1>5. /\ windows' \in Seq(WindowType) /\ Len(windows') = Len(windows) /\ windows'[i] = w
      /\ \A j \in DOMAIN windows : j # i => windows'[j] = ws[j]
  BY <1>1, <1>2, <1>3, <1>4
<1>6. \A j \in DOMAIN windows : /\ PanesOf(windows'[j]) = PanesOf(windows[j])
                                /\ windows'[j].focused \in PanesOf(windows[j])
                                /\ ~windows'[j].zoomed
  BY <1>1, <1>2, <1>4, <1>5 DEF PanesOf, Placing, Placement
<1>7. Placement(windows', i, DOMAIN panes, nextPane)
  BY <1>1, <1>5, <1>6, UpdatePlacement DEF Placing
<1> QED
  <2>1. panes' = Relaid(windows', i, DOMAIN panes, rows, sidebar)
        /\ active' = i /\ nextPane' = nextPane
    BY DEF ClickSidebar
  <2> HIDE DEF ClickSidebar
  <2> QED
    BY <1>7, <2>1, RelaidDomain DEF Placing

LEMMA NamePlacing ==
  ASSUME Placing, NEW i, NEW pinned \in BOOLEAN, SetWindowName(i, pinned),
         UNCHANGED <<active, paneVars>>
  PROVE  Placing'
<1> DEFINE w == [windows[i] EXCEPT !.pinned = pinned]
<1>1. i \in DOMAIN windows /\ windows[i] \in WindowType /\ windows' = [windows EXCEPT ![i] = w]
  BY WindowFacts DEF SetWindowName, Placing
<1>2. /\ w \in WindowType /\ PanesOf(w) = PanesOf(windows[i])
      /\ w.focused \in PanesOf(w) /\ (w.zoomed => i = active)
  BY <1>1 DEF WindowType, PanesOf, Placing, Placement
<1> HIDE DEF w
<1>3. Placement(windows', active, DOMAIN panes, nextPane)
  BY <1>1, <1>2, ChangePlacement
<1> QED
  BY <1>3 DEF Placing, paneVars

LEMMA ZoomPlacing ==
  ASSUME Placing, NEW m, ToggleZoom(m)
  PROVE  Placing'
<1> DEFINE w == [windows[active] EXCEPT !.zoomed = ~@]
<1>1. active \in DOMAIN windows /\ windows[active] \in WindowType
  <2>1. active \in DOMAIN windows
    BY DEF ToggleZoom, Running, Placing, Placement
  <2> QED
    BY <2>1, WindowFacts DEF Placing
<1>2. windows' = [windows EXCEPT ![active] = w]
  BY <1>1 DEF ToggleZoom
<1>3. w \in WindowType /\ PanesOf(w) = PanesOf(windows[active]) /\ w.focused \in PanesOf(w)
  BY <1>1 DEF WindowType, PanesOf, Placing, Placement
<1> HIDE DEF w
<1>4. Placement(windows', active, DOMAIN panes, nextPane)
  BY <1>1, <1>2, <1>3, ChangePlacement
<1> QED
  BY <1>4, RelaidDomain DEF ToggleZoom, Placing

LEMMA DividerPlacing ==
  ASSUME Placing, NEW c, NEW r \in Ratios, DragDivider(c, r)
  PROVE  Placing'
<1> DEFINE i == drag[c].window
           t == SetRatio(windows[i].tree, drag[c].path, r)
           w == [windows[i] EXCEPT !.tree = t]
<1>1. i \in DOMAIN windows /\ windows[i] \in WindowType
  <2>1. i \in DOMAIN windows
    BY DEF DragDivider
  <2> QED
    BY <2>1, WindowFacts DEF Placing
<1>2. windows' = [windows EXCEPT ![i] = w]
  BY <1>1 DEF DragDivider
<1>3. t \in TreeType /\ AllPanes(t) = PanesOf(windows[i])
  <2> HIDE DEF i
  <2>1. IsTree(windows[i].tree) /\ WellFormedTree(windows[i].tree)
        /\ PanesOf(windows[i]) \subseteq PaneId
    BY <1>1, WindowFacts DEF Placing
  <2>2. IsTree(t) /\ WellFormedTree(t) /\ AllPanes(t) = AllPanes(windows[i].tree)
    BY <2>1, SetRatioWellFormed
  <2> HIDE DEF t
  <2> QED
    BY <2>1, <2>2, TreeTypeMeans DEF PanesOf
<1> HIDE DEF t, i
<1>4. w \in WindowType /\ PanesOf(w) = PanesOf(windows[i]) /\ w.focused \in PanesOf(w)
      /\ (w.zoomed => i = active)
  BY <1>1, <1>3 DEF WindowType, PanesOf, Placing, Placement
<1> HIDE DEF w
<1>5. Placement(windows', active, DOMAIN panes, nextPane)
  BY <1>1, <1>2, <1>4, ChangePlacement
<1> QED
  BY <1>5, RelaidDomain DEF DragDivider, Placing

\* Steps that touch neither the windows nor the set of panes.
LEMMA QuietPlacing ==
  ASSUME Placing, UNCHANGED <<tabVars, nextPane>>, DOMAIN panes' = DOMAIN panes
  PROVE  Placing'
BY DEF Placing, tabVars

LEMMA ChoicePlacing ==
  ASSUME Placing, ChooseItem
  PROVE  Placing'
<1>1. CASE SplitFocused(NoMenu)
  BY <1>1, SplitPlacing
<1>2. CASE ToggleZoom(NoMenu)
  BY <1>2, ZoomPlacing
<1>3. CASE CloseFocused(NoMenu)
  BY <1>3, RemovalPlacing DEF CloseFocused, PaneExited
<1>4. CASE CloseWindow(menu.window, NoMenu)
  BY <1>4, RemovalPlacing DEF CloseWindow
<1>5. CASE UNCHANGED <<tabVars, paneVars>>
  BY <1>5, QuietPlacing DEF paneVars
<1> QED
  BY <1>1, <1>2, <1>3, <1>4, <1>5 DEF ChooseItem

LEMMA CommandPlacing ==
  ASSUME Placing, Command
  PROVE  Placing'
<1>1. ASSUME NEW m, SplitFocused(m) PROVE Placing'
  BY <1>1, SplitPlacing
<1>2. ASSUME NEW i \in DOMAIN windows, SplitWindow(i) PROVE Placing'
  BY <1>2, SplitPlacing
<1>3. ASSUME NEW m, CloseFocused(m) PROVE Placing'
  BY <1>3, RemovalPlacing DEF CloseFocused, PaneExited
<1>4. ASSUME NEW i \in DOMAIN windows, CloseWindow(i, menu) PROVE Placing'
  BY <1>4, RemovalPlacing DEF CloseWindow
<1>5. ASSUME NEW pinned \in BOOLEAN, NewWindow(pinned) PROVE Placing'
  BY <1>5, AppendPlacing DEF NewWindow
<1>6. ASSUME NEW i \in DOMAIN windows, SwitchWindow(i) PROVE Placing'
  BY <1>6, SwitchPlacing DEF SwitchWindow, paneVars
<1>7. CASE ToggleZoom(menu)
  BY <1>7, ZoomPlacing
<1>8. CASE ToggleSidebar
  BY <1>8, QuietPlacing, RelaidDomain DEF ToggleSidebar
<1>9. ASSUME NEW i \in DOMAIN windows, NEW pinned \in BOOLEAN, RenameWindow(i, pinned)
      PROVE  Placing'
  BY <1>9, NamePlacing DEF RenameWindow
<1>10. CASE ShowHelp \/ OpenNewWindowDialog \/ EnterCopyMode
  BY <1>10, QuietPlacing DEF ShowHelp, OpenNewWindowDialog, EnterCopyMode, paneVars
<1> QED
  BY <1>1, <1>2, <1>3, <1>4, <1>5, <1>6, <1>7, <1>8, <1>9, <1>10 DEF Command

LEMMA OverlayPlacing ==
  ASSUME Placing, Overlay
  PROVE  Placing'
<1>1. ASSUME NEW pinned \in BOOLEAN, SubmitNewWindow(pinned) PROVE Placing'
  BY <1>1, AppendPlacing DEF SubmitNewWindow
<1>2. ASSUME NEW pinned \in BOOLEAN, SubmitRename(pinned) PROVE Placing'
  <2>1. CASE SetWindowName(dialog.window, pinned)
    BY <1>2, <2>1, NamePlacing DEF SubmitRename
  <2>2. CASE UNCHANGED windows
    BY <1>2, <2>2, QuietPlacing DEF SubmitRename, tabVars, paneVars
  <2> QED
    BY <1>2, <2>1, <2>2 DEF SubmitRename
<1>3. CASE DismissHelp \/ CancelDialog \/ DismissMenu \/ ExitCopyMode
  BY <1>3, QuietPlacing
  DEF DismissHelp, CancelDialog, DismissMenu, ExitCopyMode, paneVars
<1> QED
  BY <1>1, <1>2, <1>3, ChoicePlacing DEF Overlay

LEMMA OutsidePlacing ==
  ASSUME Placing, Outside
  PROVE  Placing'
<1>1. ASSUME NEW p, PaneExited(p, menu) PROVE Placing'
  BY <1>1, RemovalPlacing DEF PaneExited
<1>2. ASSUME NEW r, Resize(r) PROVE Placing'
  BY <1>2, QuietPlacing, RelaidDomain DEF Resize
<1>3. CASE TakeSnapshotDirty
  BY <1>3, QuietPlacing DEF TakeSnapshotDirty, paneVars
<1> QED
  BY <1>1, <1>2, <1>3 DEF Outside

LEMMA MousePlacing ==
  ASSUME Placing, NEW c \in Clients, Mouse(c)
  PROVE  Placing'
<1>1. CASE ClickOverlay(c)
  BY <1>1, ChoicePlacing, QuietPlacing
  DEF ClickOverlay, DismissHelp, DismissMenu, paneVars
<1>2. ASSUME NEW p, ClickPane(c, p) PROVE Placing'
  BY <1>2, FocusPlacing DEF ClickPane
<1>3. ASSUME NEW i \in DOMAIN windows, ClickTab(c, i) PROVE Placing'
  BY <1>3, SwitchPlacing DEF ClickTab, paneVars
<1>4. ASSUME NEW i, NEW p, ClickSidebar(c, i, p) PROVE Placing'
  BY <1>4, SidebarPlacing
<1>5. ASSUME NEW s, ClickDivider(c, s) PROVE Placing'
  BY <1>5, QuietPlacing DEF ClickDivider, paneVars
<1>6. CASE ClickPlus(c) \/ Release(c) \/ ClientGone(c)
  BY <1>6, QuietPlacing DEF ClickPlus, Release, ClientGone, paneVars
<1>7. CASE RightClick(c)
  <2>1. ASSUME NEW p, Focus(p) PROVE Placing'
    BY <1>7, <2>1, FocusPlacing DEF RightClick
  <2>2. CASE UNCHANGED windows
    BY <1>7, <2>2, QuietPlacing DEF RightClick, tabVars, paneVars
  <2> QED
    BY <1>7, <2>1, <2>2 DEF RightClick, OpenMenu
<1>8. CASE DragSelect(c)
  BY <1>8, FocusPlacing DEF DragSelect
<1>9. ASSUME NEW r \in Ratios, DragDivider(c, r) PROVE Placing'
  BY <1>9, DividerPlacing
<1> QED
  BY <1>1, <1>2, <1>3, <1>4, <1>5, <1>6, <1>7, <1>8, <1>9 DEF Mouse

LEMMA InitPlacing == Init => Placing
<1> SUFFICES ASSUME Init PROVE Placing
  OBVIOUS
<1> DEFINE w == NewWindowRec(1, FALSE)
<1>1. windows = <<w>> /\ active = 1 /\ DOMAIN panes = {1} /\ nextPane = 2
  BY DEF Init
<1>2. 1 \in PaneId /\ 2 \in 1..MaxPanes + 1
  BY MaxPanesAssumption DEF PaneId
<1>3. w \in WindowType /\ PanesOf(w) = {1} /\ w.focused = 1 /\ ~w.zoomed
  BY <1>2, LeafWellFormed, TreeTypeMeans DEF NewWindowRec, WindowType, PanesOf
<1> HIDE DEF w
<1>4. windows \in Seq(WindowType) /\ DOMAIN windows = {1} /\ windows[1] = w
  BY <1>1, <1>3
<1>5. Placed(windows) = {1} /\ Disjoint(windows)
  BY <1>3, <1>4 DEF Placed, Disjoint
<1> QED
  BY <1>1, <1>2, <1>3, <1>4, <1>5 DEF Placing, Placement

LEMMA PlacingAlways == Spec => []Placing
<1>1. Placing /\ [Next]_vars => Placing'
  <2> SUFFICES ASSUME Placing, [Next]_vars PROVE Placing'
    OBVIOUS
  <2>1. CASE UNCHANGED vars
    BY <2>1, QuietPlacing DEF vars, paneVars
  <2> QED
    BY <2>1, CommandPlacing, OverlayPlacing, OutsidePlacing, MousePlacing DEF Next
<1> QED
  BY <1>1, InitPlacing, PTL DEF Spec

\* Panes and leaves are the same set, each pane is in one window, and its id
\* is not handed out again (spawn_pane, pane_exited, close_window).
THEOREM PanesPlacedHolds == Spec => []PanesPlaced
<1>1. Placing => PanesPlaced
  BY DEF Placing, Placement, Disjoint, PanesPlaced
<1> QED
  BY <1>1, PlacingAlways, PTL

\* The active position is a window and every focus is a leaf of its window
\* (active_window, Window::focused).
THEOREM FocusInWindowHolds == Spec => []FocusInWindow
<1>1. Placing => FocusInWindow
  BY DEF Placing, Placement, FocusInWindow, Running
<1> QED
  BY <1>1, PlacingAlways, PTL

\* Every window is a full binary tree, after any mix of splits, closes and
\* divider drags (layout/mod.rs).
THEOREM TreesWellFormedHolds == Spec => []TreesWellFormed
<1>1. Placing => TreesWellFormed
  BY WindowFacts DEF Placing, TreesWellFormed
<1> QED
  BY <1>1, PlacingAlways, PTL

\* "Only the active window is ever zoomed" (relayout_all).
THEOREM ZoomOnlyActiveHolds == Spec => []ZoomOnlyActive
<1>1. Placing => ZoomOnlyActive
  BY DEF Placing, Placement, ZoomOnlyActive
<1> QED
  BY <1>1, PlacingAlways, PTL

-----------------------------------------------------------------------------
(* Copy mode and the pane menu point at panes that are there.              *)

\* The panes a step removes take copy mode with them.
LEMMA CopyRemoval ==
  /\ \A p, m : PaneExited(p, m) /\ CopyPaneLive => CopyPaneLive'
  /\ \A i, m : DropWindow(i, m) /\ CopyPaneLive => CopyPaneLive'
<1>1. ASSUME NEW gone, CopyPaneLive, copy' = CopyAfter(gone),
             DOMAIN panes' = Survivors(gone)
      PROVE  CopyPaneLive'
  BY <1>1 DEF CopyPaneLive, CopyAfter, Survivors
<1>2. ASSUME NEW i, NEW m, DropWindow(i, m), CopyPaneLive PROVE CopyPaneLive'
  <2> DEFINE gone == PanesOf(windows[i])
  <2>1. copy' = CopyAfter(gone) /\ DOMAIN panes' = Survivors(gone)
    BY <1>2, RelaidDomain DEF DropWindow
  <2> QED
    BY <1>1, <1>2, <2>1
<1>3. ASSUME NEW p, NEW i, NEW m, Shrink(p, i, m), CopyPaneLive PROVE CopyPaneLive'
  <2>1. copy' = CopyAfter({p}) /\ DOMAIN panes' = Survivors({p})
    BY <1>3, RelaidDomain DEF Shrink
  <2> QED
    BY <1>1, <1>3, <2>1
<1> QED
  BY <1>2, <1>3 DEF PaneExited

\* Copy mode is entered on the pane with the focus.
LEMMA CopyEntry ==
  ASSUME Placing', Running', copy' = Focused'
  PROVE  CopyPaneLive'
<1>1. active' \in DOMAIN windows' /\ Focused' = windows'[active'].focused
  BY DEF Placing, Placement, Running, Focused
<1>2. Focused' \in PanesOf(windows'[active']) /\ PanesOf(windows'[active']) \subseteq DOMAIN panes'
  BY <1>1, WindowFacts DEF Placing
<1> QED
  BY <1>2 DEF CopyPaneLive

LEMMA CopyStep == Placing /\ Placing' /\ CopyPaneLive /\ [Next]_vars => CopyPaneLive'
<1> SUFFICES ASSUME Placing, Placing', CopyPaneLive, [Next]_vars PROVE CopyPaneLive'
  OBVIOUS
<1>1. ASSUME copy' \in {copy, NoPane}, DOMAIN panes \subseteq DOMAIN panes'
      PROVE  CopyPaneLive'
  BY <1>1 DEF CopyPaneLive
<1>2. \A ws, act : Spawned(ws, act) => DOMAIN panes \subseteq DOMAIN panes'
  BY RelaidDomain DEF Spawned
<1>3. \A ws : Refused(ws) => DOMAIN panes \subseteq DOMAIN panes'
  BY DEF Refused, paneVars
<1>4. ASSUME NEW m, SplitFocused(m) \/ ToggleZoom(m) \/ CloseFocused(m) PROVE CopyPaneLive'
  <2>1. CASE SplitFocused(m)
    BY <1>1, <1>2, <1>3, <2>1 DEF SplitFocused
  <2>2. CASE ToggleZoom(m)
    BY <1>1, <2>2, RelaidDomain DEF ToggleZoom
  <2> QED
    BY <1>4, <2>1, <2>2, CopyRemoval DEF CloseFocused
<1>5. ASSUME NEW i, NEW m, CloseWindow(i, m) PROVE CopyPaneLive'
  BY <1>5, CopyRemoval DEF CloseWindow
<1>6. CASE Command
  <2>1. ASSUME NEW i, SplitWindow(i) PROVE CopyPaneLive'
    BY <1>1, <1>2, <2>1 DEF SplitWindow, modalVars
  <2>2. ASSUME NEW pinned, NewWindow(pinned) PROVE CopyPaneLive'
    BY <1>1, <1>2, <1>3, <2>2 DEF NewWindow
  <2>3. ASSUME NEW i, SwitchWindow(i) PROVE CopyPaneLive'
    BY <1>1, <2>3 DEF SwitchWindow, paneVars
  <2>4. CASE ToggleSidebar
    BY <1>1, <2>4, RelaidDomain DEF ToggleSidebar
  <2>5. ASSUME NEW i, NEW pinned, RenameWindow(i, pinned) PROVE CopyPaneLive'
    BY <1>1, <2>5 DEF RenameWindow, paneVars, modalVars
  <2>6. CASE ShowHelp \/ OpenNewWindowDialog
    BY <1>1, <2>6 DEF ShowHelp, OpenNewWindowDialog, paneVars
  <2>7. CASE EnterCopyMode
    BY <2>7, CopyEntry DEF EnterCopyMode, EnterCopy, Running, Focused, tabVars
  <2> QED
    BY <1>4, <1>5, <1>6, <2>1, <2>2, <2>3, <2>4, <2>5, <2>6, <2>7 DEF Command
<1>7. CASE ChooseItem
  BY <1>1, <1>4, <1>5, <1>7 DEF ChooseItem, paneVars
<1>8. CASE Overlay
  <2>1. ASSUME NEW pinned, SubmitNewWindow(pinned) PROVE CopyPaneLive'
    BY <1>1, <1>2, <1>3, <2>1 DEF SubmitNewWindow
  <2>2. ASSUME NEW pinned, SubmitRename(pinned) PROVE CopyPaneLive'
    BY <1>1, <2>2 DEF SubmitRename, paneVars
  <2>3. CASE DismissHelp \/ CancelDialog \/ DismissMenu \/ ExitCopyMode
    BY <1>1, <2>3 DEF DismissHelp, CancelDialog, DismissMenu, ExitCopyMode, paneVars
  <2> QED
    BY <1>7, <1>8, <2>1, <2>2, <2>3 DEF Overlay
<1>9. CASE Outside
  <2>1. ASSUME NEW r, Resize(r) PROVE CopyPaneLive'
    BY <1>1, <2>1, RelaidDomain DEF Resize
  <2>2. CASE TakeSnapshotDirty
    BY <1>1, <2>2 DEF TakeSnapshotDirty, paneVars, modalVars
  <2> QED
    BY <1>9, <2>1, <2>2, CopyRemoval DEF Outside
<1>10. ASSUME NEW c \in Clients, Mouse(c) PROVE CopyPaneLive'
  <2>1. CASE ClickOverlay(c)
    BY <1>1, <1>7, <2>1 DEF ClickOverlay, DismissHelp, DismissMenu, paneVars, modalVars
  <2>2. ASSUME NEW p, ClickPane(c, p) PROVE CopyPaneLive'
    BY <1>1, <2>2 DEF ClickPane, paneVars, modalVars
  <2>3. ASSUME NEW i, ClickTab(c, i) PROVE CopyPaneLive'
    BY <1>1, <2>3 DEF ClickTab, paneVars, modalVars
  <2>4. ASSUME NEW i, NEW p, ClickSidebar(c, i, p) PROVE CopyPaneLive'
    <3>1. copy' = copy /\ panes' = Relaid(windows', i, DOMAIN panes, rows, sidebar)
      BY <2>4 DEF ClickSidebar, modalVars
    <3> QED
      BY <1>1, <3>1, RelaidDomain
  <2>5. ASSUME NEW s, ClickDivider(c, s) PROVE CopyPaneLive'
    BY <1>1, <2>5 DEF ClickDivider, paneVars, modalVars
  <2>6. CASE ClickPlus(c) \/ Release(c) \/ ClientGone(c) \/ RightClick(c)
    BY <1>1, <2>6 DEF ClickPlus, Release, ClientGone, RightClick, paneVars, modalVars
  <2>7. CASE DragSelect(c)
    <3>1. Running /\ active' = active /\ Placing /\ Len(windows') = Len(windows)
      BY <2>7, ExceptSeq DEF DragSelect, Focus, Placing, Placement, Running
    <3>2. windows' # <<>> /\ active' \in DOMAIN windows'
      BY <3>1 DEF Placing, Placement, Running
    <3> QED
      BY <2>7, <3>1, <3>2, CopyEntry DEF DragSelect, EnterCopy, Running, Focused
  <2>8. ASSUME NEW r, DragDivider(c, r) PROVE CopyPaneLive'
    BY <1>1, <2>8, RelaidDomain DEF DragDivider, modalVars
  <2> QED
    BY <1>10, <2>1, <2>2, <2>3, <2>4, <2>5, <2>6, <2>7, <2>8 DEF Mouse
<1>11. CASE UNCHANGED vars
  BY <1>1, <1>11 DEF vars, paneVars, modalVars
<1> QED
  BY <1>6, <1>8, <1>9, <1>10, <1>11 DEF Next

\* Copy mode never outlives the pane it is frozen on, whichever of the ways a
\* pane can die is taken (pane_exited, close_window; compose reads that pane).
THEOREM CopyPaneLiveHolds == Spec => []CopyPaneLive
<1>1. Init => CopyPaneLive
  BY DEF Init, CopyPaneLive
<1> QED
  BY <1>1, PlacingAlways, CopyStep, PTL DEF Spec

-----------------------------------------------------------------------------
(* The pane menu                                                           *)

\* A menu that has been reconciled with the windows as they are is right.
LEMMA ReconciledShown ==
  ASSUME NEW m, NEW r, menu' = Reconciled(m, windows', active', r)
  PROVE  MenuPaneShown'
<1> SUFFICES ASSUME menu'.kind = "pane"
             PROVE  Running' /\ menu'.pane \in PanesOf(windows'[active'])
  BY DEF MenuPaneShown
<1>1. menu' # NoMenu
  BY DEF NoMenu
<1>2. menu' = m /\ active' \in DOMAIN windows' /\ m.pane \in PanesOf(windows'[active'])
  BY <1>1 DEF Reconciled
<1> QED
  BY <1>2 DEF Running

LEMMA ClosedShown == menu' = NoMenu => MenuPaneShown'
BY DEF NoMenu, MenuPaneShown

\* The window in front keeps the panes it has, or gets more.
LEMMA KeptShown ==
  ASSUME MenuPaneShown, menu' = menu, Running => Running',
         Running => PanesOf(windows[active]) \subseteq PanesOf(windows'[active'])
  PROVE  MenuPaneShown'
BY DEF MenuPaneShown

\* A rename leaves every window its panes.
LEMMA RenamedShown ==
  ASSUME Placing, MenuPaneShown, NEW i, NEW pinned, SetWindowName(i, pinned),
         UNCHANGED <<active, menu>>
  PROVE  MenuPaneShown'
<1>1. windows' = [windows EXCEPT ![i].pinned = pinned] /\ i \in DOMAIN windows
  BY DEF SetWindowName
<1>2. active \in DOMAIN windows
  BY <1>1 DEF Placing, Placement
<1>3. windows'[active].tree = windows[active].tree /\ Running'
  BY <1>1, <1>2, WindowFacts DEF Running, WindowType, Placing
<1> QED
  BY <1>3 DEF MenuPaneShown, PanesOf

LEMMA MenuStep ==
  Placing /\ Placing' /\ OneOverlay /\ MenuPaneShown /\ [Next]_vars => MenuPaneShown'
<1> SUFFICES ASSUME Placing, Placing', OneOverlay, MenuPaneShown, [Next]_vars
             PROVE  MenuPaneShown'
  OBVIOUS
<1>a. ASSUME UNCHANGED <<windows, active, menu>> PROVE MenuPaneShown'
  BY <1>a DEF MenuPaneShown, Running
<1>b. ASSUME menu = NoMenu, menu' = menu PROVE MenuPaneShown'
  BY <1>b, ClosedShown
<1>1. ASSUME NEW m, SplitFocused(m) \/ ToggleZoom(m) \/ CloseFocused(m) PROVE MenuPaneShown'
  <2>1. CASE SplitFocused(m) \/ ToggleZoom(m)
    BY <2>1, ReconciledShown DEF SplitFocused, ToggleZoom
  <2>2. CASE CloseFocused(m)
    BY <2>2, ReconciledShown DEF CloseFocused, PaneExited, Shrink, DropWindow
  <2> QED
    BY <1>1, <2>1, <2>2
<1>2. ASSUME NEW i, NEW m, CloseWindow(i, m) PROVE MenuPaneShown'
  BY <1>2, ReconciledShown DEF CloseWindow, DropWindow
<1>3. CASE Command
  <2>1. ASSUME NEW i \in DOMAIN windows, SplitWindow(i) PROVE MenuPaneShown'
    <3>1. /\ windows' = SplitIn(windows, i, nextPane) /\ active' = active /\ menu' = menu
          /\ nextPane <= MaxPanes
      BY <2>1 DEF SplitWindow, Spawned, modalVars
    <3>2. active \in DOMAIN windows
      BY <2>1 DEF Placing, Placement
    <3>3. PanesOf(windows[active]) \subseteq PanesOf(windows'[active])
      <4>1. CASE i # active
        BY <3>1, <3>2, <4>1 DEF SplitIn
      <4>2. CASE i = active
        <5> DEFINE t == SplitPane(windows[i].tree, windows[i].focused, nextPane)
        <5>1. /\ IsTree(windows[i].tree) /\ WellFormedTree(windows[i].tree)
              /\ windows[i].focused \in PanesOf(windows[i])
              /\ windows[i] \in WindowType
          BY WindowFacts DEF Placing
        <5>2. nextPane \in PaneId /\ nextPane \notin PanesOf(windows[i])
          <6>1. nextPane \in PaneId /\ nextPane \notin DOMAIN panes
            BY <3>1, MaxPanesAssumption, LivePanes DEF Placing, Placement, PaneId
          <6> QED
            BY <6>1, WindowFacts DEF Placing
        <5>3. AllPanes(t) = PanesOf(windows[i]) \cup {nextPane}
          BY <5>1, <5>2, SplitPaneWellFormed, WindowFacts DEF PanesOf, PaneId
        <5> HIDE DEF t
        <5>4. windows'[i].tree = t
          BY <3>1, <5>1 DEF SplitIn, t, WindowType
        <5> QED
          BY <4>2, <5>3, <5>4 DEF PanesOf
      <4> QED
        BY <4>1, <4>2
    <3>4. Running'
      BY <3>1, <3>2 DEF SplitIn, Running
    <3> QED
      BY <3>1, <3>3, <3>4, KeptShown
  <2>2. ASSUME NEW pinned, NewWindow(pinned) PROVE MenuPaneShown'
    BY <2>2, ClosedShown DEF NewWindow
  <2>3. ASSUME NEW i, SwitchWindow(i) PROVE MenuPaneShown'
    BY <2>3, ClosedShown DEF SwitchWindow
  <2>4. CASE ToggleSidebar \/ OpenNewWindowDialog \/ EnterCopyMode
    BY <2>4, ClosedShown DEF ToggleSidebar, OpenNewWindowDialog, EnterCopyMode, EnterCopy
  <2>5. ASSUME NEW i, NEW pinned, RenameWindow(i, pinned) PROVE MenuPaneShown'
    BY <2>5, RenamedShown DEF RenameWindow, modalVars
  <2>6. CASE ShowHelp
    <3>1. CASE help
      BY <2>6, <3>1, ReconciledShown DEF ShowHelp, tabVars
    <3>2. CASE ~help
      BY <2>6, <3>2, ClosedShown DEF ShowHelp
    <3> QED
      BY <3>1, <3>2
  <2> QED
    BY <1>1, <1>2, <1>3, <2>1, <2>2, <2>3, <2>4, <2>5, <2>6 DEF Command
<1>4. CASE ChooseItem
  BY <1>1, <1>2, <1>4, ClosedShown DEF ChooseItem
<1>5. CASE DismissMenu
  BY <1>5, ClosedShown DEF DismissMenu
<1>6. CASE Overlay
  <2>1. ASSUME NEW pinned, SubmitNewWindow(pinned) \/ SubmitRename(pinned) PROVE MenuPaneShown'
    <3>1. dialog # NoDialog /\ menu' = menu
      BY <2>1 DEF SubmitNewWindow, SubmitRename, NoDialog
    <3> QED
      BY <3>1, <1>b DEF OneOverlay
  <2>2. CASE DismissHelp \/ CancelDialog \/ ExitCopyMode
    BY <1>a, <2>2 DEF DismissHelp, CancelDialog, ExitCopyMode, tabVars
  <2> QED
    BY <1>4, <1>5, <1>6, <2>1, <2>2 DEF Overlay
<1>7. CASE Outside
  <2>1. ASSUME NEW r, Resize(r) PROVE MenuPaneShown'
    BY <2>1, ReconciledShown DEF Resize, tabVars
  <2>2. ASSUME NEW p, NEW m, PaneExited(p, m) PROVE MenuPaneShown'
    BY <2>2, ReconciledShown DEF PaneExited, Shrink, DropWindow
  <2>3. CASE TakeSnapshotDirty
    BY <1>a, <2>3 DEF TakeSnapshotDirty, tabVars, modalVars
  <2> QED
    BY <1>7, <2>1, <2>2, <2>3 DEF Outside
<1>8. ASSUME NEW c \in Clients, Mouse(c) PROVE MenuPaneShown'
  <2>1. CASE ClickOverlay(c)
    BY <1>4, <1>5, <1>a, <2>1 DEF ClickOverlay, DismissHelp, tabVars, modalVars
  <2>2. CASE RightClick(c)
    <3>1. ASSUME NEW p \in Visible, Focus(p), menu'.kind = "pane" => menu'.pane = p
          PROVE  MenuPaneShown'
      <4>1. active' = active
        BY <2>2 DEF RightClick
      <4>2. Running /\ active \in DOMAIN windows /\ p \in PanesOf(windows[active])
        BY <3>1, WindowFacts DEF Visible, Focused, Placing, Placement, Running
      <4>3. windows' = [windows EXCEPT ![active].focused = p]
        BY <3>1, <4>2 DEF Focus
      <4>4. windows'[active].tree = windows[active].tree /\ Running'
        BY <4>2, <4>3, WindowFacts DEF Running, WindowType, Placing
      <4> QED
        BY <3>1, <4>1, <4>2, <4>4 DEF MenuPaneShown, PanesOf
    <3>2. CASE menu'.kind = "tab"
      BY <3>2 DEF MenuPaneShown
    <3> QED
      BY <2>2, <3>1, <3>2 DEF RightClick, OpenMenu
  <2>3. CASE DragSelect(c)
    BY <2>3, ClosedShown DEF DragSelect, EnterCopy
  <2>4. CASE Release(c) \/ ClientGone(c)
    BY <1>a, <2>4 DEF Release, ClientGone, tabVars, modalVars
  <2>5. CASE Plain /\ menu' = menu
    BY <1>b, <2>5 DEF Plain
  <2>6. ASSUME NEW p, ClickPane(c, p) PROVE MenuPaneShown'
    BY <2>5, <2>6 DEF ClickPane, modalVars
  <2>7. ASSUME NEW i, ClickTab(c, i) PROVE MenuPaneShown'
    BY <2>5, <2>7 DEF ClickTab, modalVars
  <2>8. ASSUME NEW i, NEW p, ClickSidebar(c, i, p) PROVE MenuPaneShown'
    BY <2>5, <2>8 DEF ClickSidebar, modalVars
  <2>9. ASSUME NEW s, ClickDivider(c, s) PROVE MenuPaneShown'
    BY <2>5, <2>9 DEF ClickDivider, modalVars
  <2>10. ASSUME NEW r, DragDivider(c, r) PROVE MenuPaneShown'
    BY <2>5, <2>10 DEF DragDivider, modalVars
  <2>11. CASE ClickPlus(c)
    BY <2>5, <2>11 DEF ClickPlus
  <2> QED
    BY <1>8, <2>1, <2>2, <2>3, <2>4, <2>6, <2>7, <2>8, <2>9, <2>10, <2>11 DEF Mouse
<1>9. CASE UNCHANGED vars
  BY <1>a, <1>9 DEF vars, tabVars, modalVars
<1> QED
  BY <1>3, <1>6, <1>7, <1>8, <1>9 DEF Next

\* A menu opened on a pane never acts on one that has died or is in the
\* background (reconcile_menu is called wherever that could come about).
THEOREM MenuPaneShownHolds == Spec => []MenuPaneShown
<1>1. Init => MenuPaneShown
  BY DEF Init, MenuPaneShown, NoMenu
<1> QED
  BY <1>1, PlacingAlways, OneOverlayHolds, MenuStep, PTL DEF Spec

\* Zoom, overlays, copy mode and menus stay consistent with each other and
\* with the windows, for any clients, heights and number of panes.
THEOREM ModesConsistentHolds == Spec => []ModesConsistent
BY ZoomOnlyActiveHolds, OneOverlayHolds, CopyPaneLiveHolds, MenuPaneShownHolds, PTL
DEF ModesConsistent

-----------------------------------------------------------------------------
(* Types                                                                   *)

PanesTyped == \A p \in DOMAIN panes : panes[p] \in RectType
ViewTyped  == rows \in Rows /\ sidebar \in BOOLEAN /\ dirty \in BOOLEAN
ModalTyped == /\ menu \in MenuType /\ help \in BOOLEAN /\ dialog \in DialogType
              /\ copy \in PaneId \cup {NoPane}
MouseTyped == /\ drag \in [Clients -> [window : Nat, path : Path, target : Nat]]
              /\ press \in [Clients -> PaneId \cup {NoPane}]

LEMMA PaneRectTyped ==
  ASSUME NEW t, IsTree(t), WellFormedTree(t), NEW p \in AllPanes(t),
         NEW r \in Rows, NEW sb \in BOOLEAN
  PROVE  PaneRect(t, p, Content(r, sb)) \in RectType /\ FullRect(Content(r, sb)) \in RectType
<1>1. Content(r, sb) \in [rows : Nat, sidebar : BOOLEAN]
  BY RowsAssumption DEF Content
<1>2. t.path[p] \in Path /\ t.path[p] \in Nodes(t) /\ Len(t.path[p]) \in Nat
  BY PathElements DEF IsTree, Nodes
<1>3. PICK s : s = t.path[p]
  OBVIOUS
<1>4. ASSUME NEW k \in 1..Len(s)
      PROVE  <<t.ratio[SubSeq(s, 1, k - 1)], s[k]>> \in Ratios \X {First, Second}
  <2>1. k - 1 \in 0..Len(s)-1
    BY <1>2, <1>3
  <2>2. SubSeq(s, 1, k - 1) \in SplitPaths(t)
    BY <1>2, <1>3, <2>1 DEF WellFormedTree
  <2>3. t.ratio[SubSeq(s, 1, k - 1)] \in Ratios
    BY <2>2 DEF IsTree
  <2>4. s[k] \in {First, Second}
    BY <1>2, <1>3, PathElements
  <2> QED
    BY <2>3, <2>4
<1>5. [k \in 1..Len(s) |-> <<t.ratio[SubSeq(s, 1, k - 1)], s[k]>>] \in Seq(Ratios \X {First, Second})
  BY <1>2, <1>3, <1>4
<1>6. <<>> \in Seq(Ratios \X {First, Second})
  OBVIOUS
<1> QED
  BY <1>1, <1>3, <1>5, <1>6 DEF PaneRect, FullRect, RectType

\* A pane without a rectangle of its own yet has the focus of its window.
LEMMA RelaidTyped ==
  ASSUME NEW ws, NEW act, NEW live, NEW next, Placement(ws, act, live, next),
         PanesTyped, NEW r \in Rows, NEW sb \in BOOLEAN,
         \A p \in live \ DOMAIN panes : \A i \in DOMAIN ws :
            p \in PanesOf(ws[i]) => p = ws[i].focused
  PROVE  \A p \in live : Relaid(ws, act, live, r, sb)[p] \in RectType
<1> SUFFICES ASSUME NEW p \in live PROVE Relaid(ws, act, live, r, sb)[p] \in RectType
  OBVIOUS
<1> DEFINE i == WindowOf(ws, p)
           c == Content(r, sb)
<1>1. i \in DOMAIN ws /\ p \in PanesOf(ws[i]) /\ p \in Placed(ws)
  BY WindowOfPane DEF Placement
<1>2. IsTree(ws[i].tree) /\ WellFormedTree(ws[i].tree)
  BY <1>1, WindowFacts
<1>3. PaneRect(ws[i].tree, p, c) \in RectType /\ FullRect(c) \in RectType
  BY <1>1, <1>2, PaneRectTyped DEF PanesOf
<1>4. Relaid(ws, act, live, r, sb)[p] =
        CASE i = act /\ ws[i].zoomed /\ p = ws[i].focused -> FullRect(c)
          [] i = act /\ ws[i].zoomed /\ p # ws[i].focused -> panes[p]
          [] OTHER -> PaneRect(ws[i].tree, p, c)
  BY <1>1 DEF Relaid
<1>5. p # ws[i].focused => panes[p] \in RectType
  BY <1>1 DEF PanesTyped
<1> HIDE DEF i, c
<1>6. CASE ~(i = act /\ ws[i].zoomed)
  BY <1>3, <1>4, <1>6
<1>7. CASE i = act /\ ws[i].zoomed /\ p = ws[i].focused
  BY <1>3, <1>4, <1>7
<1>8. CASE i = act /\ ws[i].zoomed /\ p # ws[i].focused
  BY <1>4, <1>5, <1>8
<1> QED
  BY <1>6, <1>7, <1>8

\* The same when no pane is new.
LEMMA RelaidOldTyped ==
  ASSUME Placing', PanesTyped, DOMAIN panes' \subseteq DOMAIN panes,
         NEW r \in Rows, NEW sb \in BOOLEAN, NEW act, act = active',
         panes' = Relaid(windows', act, DOMAIN panes', r, sb)
  PROVE  PanesTyped'
<1>1. \A p \in DOMAIN panes' : Relaid(windows', act, DOMAIN panes', r, sb)[p] \in RectType
  BY RelaidTyped DEF Placing
<1> QED
  BY <1>1 DEF PanesTyped

\* The new pane of a split or of a new window has the focus there.
LEMMA NewPaneFocused ==
  ASSUME NEW ws, Placement(ws, active, DOMAIN panes, nextPane)
  PROVE  /\ \A i, j \in DOMAIN ws :
               nextPane \in PanesOf(SplitIn(ws, i, nextPane)[j])
               => SplitIn(ws, i, nextPane)[j].focused = nextPane
         /\ \A pinned \in BOOLEAN, j \in 1..Len(ws) + 1 :
               LET vs == Append(ws, NewWindowRec(nextPane, pinned))
               IN  nextPane \in PanesOf(vs[j]) => vs[j].focused = nextPane
<1>1. \A j \in DOMAIN ws : nextPane \notin PanesOf(ws[j])
  <2>1. nextPane \notin DOMAIN panes
    BY MaxPanesAssumption, LivePanes DEF Placement
  <2> QED
    BY <2>1, WindowFacts
<1>2. ws \in Seq(WindowType) /\ DOMAIN ws = 1..Len(ws) /\ Len(ws) \in Nat
  BY DEF Placement
<1>3. ASSUME NEW i \in DOMAIN ws, NEW j \in DOMAIN ws,
             nextPane \in PanesOf(SplitIn(ws, i, nextPane)[j])
      PROVE  SplitIn(ws, i, nextPane)[j].focused = nextPane
  <2>1. CASE i = j
    BY <1>2, <2>1 DEF SplitIn, WindowType
  <2>2. CASE i # j
    BY <1>1, <1>2, <1>3, <2>2 DEF SplitIn
  <2> QED
    BY <2>1, <2>2
<1>4. ASSUME NEW pinned \in BOOLEAN, NEW j \in 1..Len(ws) + 1,
             nextPane \in PanesOf(Append(ws, NewWindowRec(nextPane, pinned))[j])
      PROVE  Append(ws, NewWindowRec(nextPane, pinned))[j].focused = nextPane
  <2> DEFINE w == NewWindowRec(nextPane, pinned)
  <2>1. w.focused = nextPane /\ nextPane \in PanesOf(Append(ws, w)[j])
    BY <1>4 DEF NewWindowRec
  <2> HIDE DEF w
  <2>2. Append(ws, w)[j] = IF j = Len(ws) + 1 THEN w ELSE ws[j]
    BY <1>2
  <2>3. j # Len(ws) + 1 => j \in DOMAIN ws
    BY <1>2
  <2>4. Append(ws, w)[j].focused = nextPane
    BY <1>1, <2>1, <2>2, <2>3
  <2> QED
    BY <2>4 DEF w
<1> QED
  BY <1>3, <1>4

\* After a spawn every pane has a rectangle.
LEMMA SpawnedTyped ==
  ASSUME NEW ws, NEW act, Spawned(ws, act), Placing', PanesTyped, ViewTyped,
         DOMAIN panes' = DOMAIN panes \cup {nextPane},
         \A j \in DOMAIN ws : nextPane \in PanesOf(ws[j]) => ws[j].focused = nextPane
  PROVE  PanesTyped'
<1>1. /\ windows' = ws /\ active' = act
      /\ panes' = Relaid(ws, act, DOMAIN panes', rows, sidebar)
  BY DEF Spawned
<1>2. Placement(ws, act, DOMAIN panes', nextPane')
  BY <1>1 DEF Placing
<1>3. \A p \in DOMAIN panes' \ DOMAIN panes : \A j \in DOMAIN ws :
         p \in PanesOf(ws[j]) => p = ws[j].focused
  OBVIOUS
<1>4. \A p \in DOMAIN panes' : Relaid(ws, act, DOMAIN panes', rows, sidebar)[p] \in RectType
  BY <1>2, <1>3, RelaidTyped DEF ViewTyped
<1> QED
  BY <1>1, <1>4 DEF PanesTyped

LEMMA RefusedTyped ==
  ASSUME NEW ws, Refused(ws), PanesTyped
  PROVE  PanesTyped'
BY DEF Refused, PanesTyped, paneVars

LEMMA SplitTyped ==
  ASSUME Placing, Placing', PanesTyped, ViewTyped
  PROVE  /\ \A m : SplitFocused(m) => PanesTyped'
         /\ \A i \in DOMAIN windows : SplitWindow(i) => PanesTyped'
<1>1. ASSUME NEW ws, Placement(ws, active, DOMAIN panes, nextPane), NEW i \in DOMAIN ws,
             Spawned(SplitIn(ws, i, nextPane), active)
      PROVE  PanesTyped'
  <2> DEFINE vs == SplitIn(ws, i, nextPane)
  <2>1. DOMAIN vs = DOMAIN ws
    BY DEF SplitIn
  <2>2. \A j \in DOMAIN vs : nextPane \in PanesOf(vs[j]) => vs[j].focused = nextPane
    BY <1>1, <2>1, NewPaneFocused
  <2>3. DOMAIN panes' = DOMAIN panes \cup {nextPane}
    BY <1>1, RelaidDomain DEF Spawned
  <2> HIDE DEF vs
  <2>4. Spawned(vs, active)
    BY <1>1 DEF vs
  <2> QED
    BY <2>2, <2>3, <2>4, SpawnedTyped
<1>2. ASSUME NEW m, SplitFocused(m) PROVE PanesTyped'
  <2>1. active \in DOMAIN windows
    BY <1>2 DEF SplitFocused, Placing, Placement, Running
  <2>2. Placement(Unzoomed(windows), active, DOMAIN panes, nextPane)
        /\ active \in DOMAIN Unzoomed(windows)
    BY <2>1, UnzoomedPlacement
  <2> QED
    BY <1>1, <1>2, <2>2, RefusedTyped DEF SplitFocused
<1>3. ASSUME NEW i \in DOMAIN windows, SplitWindow(i) PROVE PanesTyped'
  BY <1>1, <1>3 DEF SplitWindow, Placing
<1> QED
  BY <1>2, <1>3

LEMMA AppendTyped ==
  ASSUME Placing, Placing', PanesTyped, ViewTyped, NEW pinned \in BOOLEAN,
         LET ws == Unzoomed(windows)
         IN  \/ Spawned(Append(ws, NewWindowRec(nextPane, pinned)), Len(ws) + 1)
             \/ Refused(ws)
  PROVE  PanesTyped'
<1> DEFINE ws == Unzoomed(windows)
           vs == Append(ws, NewWindowRec(nextPane, pinned))
<1>1. Placement(ws, active, DOMAIN panes, nextPane)
  BY UnzoomedPlacement
<1>2. CASE Spawned(vs, Len(ws) + 1)
  <2> HIDE DEF ws
  <2>1. DOMAIN vs = 1..Len(ws) + 1
    BY <1>1 DEF Placement
  <2>2. \A j \in DOMAIN vs : nextPane \in PanesOf(vs[j]) => vs[j].focused = nextPane
    BY <1>1, <2>1, NewPaneFocused
  <2>3. DOMAIN panes' = DOMAIN panes \cup {nextPane}
    BY <1>2, RelaidDomain DEF Spawned
  <2> HIDE DEF vs
  <2> QED
    BY <1>2, <2>2, <2>3, SpawnedTyped
<1>3. CASE Refused(ws)
  BY <1>3, RefusedTyped
<1> QED
  BY <1>2, <1>3

LEMMA RemovalTyped ==
  ASSUME Placing', PanesTyped, ViewTyped
  PROVE  /\ \A i, m : DropWindow(i, m) => PanesTyped'
         /\ \A p, m : PaneExited(p, m) => PanesTyped'
<1>1. ASSUME NEW i, NEW m, DropWindow(i, m) PROVE PanesTyped'
  <2>1. DOMAIN panes' = Survivors(PanesOf(windows[i]))
        /\ panes' = Relaid(windows', active', DOMAIN panes', rows, sidebar)
    BY <1>1, RelaidDomain DEF DropWindow
  <2> QED
    BY <2>1, RelaidOldTyped DEF Survivors, ViewTyped
<1>2. ASSUME NEW p, NEW i, NEW m, Shrink(p, i, m) PROVE PanesTyped'
  <2>1. DOMAIN panes' = Survivors({p})
        /\ panes' = Relaid(windows', active', DOMAIN panes', rows, sidebar)
    BY <1>2, RelaidDomain DEF Shrink
  <2> QED
    BY <2>1, RelaidOldTyped DEF Survivors, ViewTyped
<1> QED
  BY <1>1, <1>2 DEF PaneExited

LEMMA SamePanesTyped ==
  ASSUME PanesTyped, UNCHANGED panes
  PROVE  PanesTyped'
BY DEF PanesTyped

LEMMA PanesTypedStep ==
  ASSUME Placing, Placing', PanesTyped, ViewTyped, [Next]_vars
  PROVE  PanesTyped'
<1>1. ASSUME NEW m, SplitFocused(m) \/ ToggleZoom(m) \/ CloseFocused(m) PROVE PanesTyped'
  <2>1. CASE ToggleZoom(m)
    <3>1. panes' = Relaid(windows', active', DOMAIN panes', rows, sidebar)
          /\ DOMAIN panes' = DOMAIN panes
      BY <2>1, RelaidDomain DEF ToggleZoom
    <3> QED
      BY <3>1, RelaidOldTyped DEF ViewTyped
  <2> QED
    BY <1>1, <2>1, SplitTyped, RemovalTyped DEF CloseFocused
<1>2. ASSUME NEW i, NEW m, CloseWindow(i, m) PROVE PanesTyped'
  BY <1>2, RemovalTyped DEF CloseWindow
<1>3. CASE Command
  <2>1. ASSUME NEW i \in DOMAIN windows, SplitWindow(i) PROVE PanesTyped'
    BY <2>1, SplitTyped
  <2>2. ASSUME NEW pinned \in BOOLEAN, NewWindow(pinned) PROVE PanesTyped'
    BY <2>2, AppendTyped DEF NewWindow
  <2>3. CASE ToggleSidebar
    <3>1. panes' = Relaid(windows', active', DOMAIN panes', rows, ~sidebar)
          /\ DOMAIN panes' = DOMAIN panes
      BY <2>3, RelaidDomain DEF ToggleSidebar, tabVars
    <3> QED
      BY <3>1, RelaidOldTyped DEF ViewTyped
  <2>4. ASSUME NEW i, NEW pinned, SwitchWindow(i) \/ RenameWindow(i, pinned)
        PROVE  PanesTyped'
    BY <2>4, SamePanesTyped DEF SwitchWindow, RenameWindow, paneVars
  <2>5. CASE ShowHelp \/ OpenNewWindowDialog \/ EnterCopyMode
    BY <2>5, SamePanesTyped DEF ShowHelp, OpenNewWindowDialog, EnterCopyMode, paneVars
  <2> QED
    BY <1>1, <1>2, <1>3, <2>1, <2>2, <2>3, <2>4, <2>5 DEF Command
<1>4. CASE ChooseItem
  BY <1>1, <1>2, <1>4, SamePanesTyped DEF ChooseItem, paneVars
<1>5. CASE Overlay
  <2>1. ASSUME NEW pinned \in BOOLEAN, SubmitNewWindow(pinned) \/ SubmitRename(pinned)
        PROVE  PanesTyped'
    <3>1. CASE SubmitNewWindow(pinned)
      BY <3>1, AppendTyped DEF SubmitNewWindow
    <3>2. CASE SubmitRename(pinned)
      BY <3>2, SamePanesTyped DEF SubmitRename, paneVars
    <3> QED
      BY <2>1, <3>1, <3>2
  <2>2. CASE DismissHelp \/ CancelDialog \/ DismissMenu \/ ExitCopyMode
    BY <2>2, SamePanesTyped
    DEF DismissHelp, CancelDialog, DismissMenu, ExitCopyMode, paneVars
  <2> QED
    BY <1>4, <1>5, <2>1, <2>2 DEF Overlay
<1>6. CASE Outside
  <2>1. ASSUME NEW r \in Rows, Resize(r) PROVE PanesTyped'
    <3>1. panes' = Relaid(windows', active', DOMAIN panes', r, sidebar)
          /\ DOMAIN panes' = DOMAIN panes
      BY <2>1, RelaidDomain DEF Resize, tabVars
    <3> QED
      BY <3>1, RelaidOldTyped DEF ViewTyped
  <2>2. CASE TakeSnapshotDirty
    BY <2>2, SamePanesTyped DEF TakeSnapshotDirty, paneVars
  <2> QED
    BY <1>6, <2>1, <2>2, RemovalTyped DEF Outside
<1>7. ASSUME NEW c \in Clients, Mouse(c) PROVE PanesTyped'
  <2>1. CASE ClickOverlay(c)
    BY <1>4, <2>1, SamePanesTyped DEF ClickOverlay, DismissHelp, DismissMenu, paneVars
  <2>2. ASSUME NEW p, ClickPane(c, p) PROVE PanesTyped'
    BY <2>2, SamePanesTyped DEF ClickPane, paneVars
  <2>3. ASSUME NEW i, ClickTab(c, i) PROVE PanesTyped'
    BY <2>3, SamePanesTyped DEF ClickTab, paneVars
  <2>4. ASSUME NEW i, NEW p, ClickSidebar(c, i, p) PROVE PanesTyped'
    <3>1. panes' = Relaid(windows', i, DOMAIN panes, rows, sidebar) /\ active' = i
      BY <2>4 DEF ClickSidebar
    <3>2. DOMAIN panes' = DOMAIN panes
      BY <3>1, RelaidDomain
    <3> QED
      BY <3>1, <3>2, RelaidOldTyped DEF ViewTyped
  <2>5. ASSUME NEW s, ClickDivider(c, s) PROVE PanesTyped'
    BY <2>5, SamePanesTyped DEF ClickDivider, paneVars
  <2>6. CASE ClickPlus(c) \/ Release(c) \/ ClientGone(c) \/ RightClick(c) \/ DragSelect(c)
    BY <2>6, SamePanesTyped
    DEF ClickPlus, Release, ClientGone, RightClick, DragSelect, paneVars
  <2>7. ASSUME NEW r, DragDivider(c, r) PROVE PanesTyped'
    <3>1. panes' = Relaid(windows', active', DOMAIN panes, rows, sidebar)
      BY <2>7 DEF DragDivider
    <3>2. DOMAIN panes' = DOMAIN panes
      BY <3>1, RelaidDomain
    <3> QED
      BY <3>1, <3>2, RelaidOldTyped DEF ViewTyped
  <2> QED
    BY <1>7, <2>1, <2>2, <2>3, <2>4, <2>5, <2>6, <2>7 DEF Mouse
<1>8. CASE UNCHANGED vars
  BY <1>8, SamePanesTyped DEF vars, paneVars
<1> QED
  BY <1>3, <1>5, <1>6, <1>7, <1>8 DEF Next

LEMMA ViewTypedStep ==
  ASSUME ViewTyped, [Next]_vars
  PROVE  ViewTyped'
<1>1. ASSUME UNCHANGED viewVars, dirty' \in BOOLEAN PROVE ViewTyped'
  BY <1>1 DEF ViewTyped, viewVars
<1>2. /\ \A ws, act : Spawned(ws, act) => dirty' \in BOOLEAN
      /\ \A ws : Refused(ws) => dirty' \in BOOLEAN
      /\ \A p : Focus(p) => dirty' \in BOOLEAN
      /\ \A i, pinned : SetWindowName(i, pinned) => dirty' \in BOOLEAN
  BY DEF Spawned, Refused, Focus, SetWindowName, ViewTyped
<1>3. ASSUME NEW m, SplitFocused(m) \/ ToggleZoom(m) \/ CloseFocused(m) PROVE ViewTyped'
  <2>1. CASE SplitFocused(m)
    BY <1>1, <1>2, <2>1 DEF SplitFocused
  <2> QED
    BY <1>1, <1>3, <2>1 DEF ToggleZoom, CloseFocused, PaneExited
<1>4. ASSUME NEW i, NEW m, CloseWindow(i, m) PROVE ViewTyped'
  BY <1>1, <1>4 DEF CloseWindow
<1>5. CASE Command
  <2>1. ASSUME NEW i, SplitWindow(i) PROVE ViewTyped'
    BY <1>1, <1>2, <2>1 DEF SplitWindow
  <2>2. ASSUME NEW pinned, NewWindow(pinned) PROVE ViewTyped'
    BY <1>1, <1>2, <2>2 DEF NewWindow
  <2>3. ASSUME NEW i, SwitchWindow(i) PROVE ViewTyped'
    BY <1>1, <2>3 DEF SwitchWindow
  <2>4. CASE ToggleSidebar
    BY <2>4 DEF ToggleSidebar, ViewTyped
  <2>5. ASSUME NEW i, NEW pinned, RenameWindow(i, pinned) PROVE ViewTyped'
    BY <1>1, <1>2, <2>5 DEF RenameWindow
  <2>6. CASE ShowHelp \/ OpenNewWindowDialog \/ EnterCopyMode
    BY <1>1, <2>6 DEF ShowHelp, OpenNewWindowDialog, EnterCopyMode, ViewTyped
  <2> QED
    BY <1>3, <1>4, <1>5, <2>1, <2>2, <2>3, <2>4, <2>5, <2>6 DEF Command
<1>6. CASE ChooseItem
  BY <1>1, <1>3, <1>4, <1>6 DEF ChooseItem, ViewTyped
<1>7. CASE Overlay
  <2>1. ASSUME NEW pinned, SubmitNewWindow(pinned) PROVE ViewTyped'
    BY <1>1, <1>2, <2>1 DEF SubmitNewWindow
  <2>2. ASSUME NEW pinned, SubmitRename(pinned) PROVE ViewTyped'
    BY <1>1, <1>2, <2>2 DEF SubmitRename, ViewTyped
  <2>3. CASE DismissHelp \/ CancelDialog \/ DismissMenu \/ ExitCopyMode
    BY <1>1, <2>3 DEF DismissHelp, CancelDialog, DismissMenu, ExitCopyMode, ViewTyped
  <2> QED
    BY <1>6, <1>7, <2>1, <2>2, <2>3 DEF Overlay
<1>8. CASE Outside
  <2>1. ASSUME NEW r \in Rows, Resize(r) PROVE ViewTyped'
    BY <2>1 DEF Resize, ViewTyped
  <2>2. ASSUME NEW p, NEW m, PaneExited(p, m) PROVE ViewTyped'
    BY <1>1, <2>2 DEF PaneExited
  <2>3. CASE TakeSnapshotDirty
    BY <1>1, <2>3 DEF TakeSnapshotDirty
  <2> QED
    BY <1>8, <2>1, <2>2, <2>3 DEF Outside
<1>9. ASSUME NEW c \in Clients, Mouse(c) PROVE ViewTyped'
  <2>1. CASE ClickOverlay(c)
    BY <1>1, <1>6, <2>1 DEF ClickOverlay, DismissHelp, DismissMenu, ViewTyped
  <2>2. ASSUME NEW p, ClickPane(c, p) PROVE ViewTyped'
    BY <1>1, <1>2, <2>2 DEF ClickPane
  <2>3. ASSUME NEW i, ClickTab(c, i) PROVE ViewTyped'
    BY <1>1, <2>3 DEF ClickTab
  <2>4. ASSUME NEW i, NEW p, ClickSidebar(c, i, p) PROVE ViewTyped'
    BY <1>1, <2>4 DEF ClickSidebar
  <2>5. ASSUME NEW s, ClickDivider(c, s) PROVE ViewTyped'
    BY <1>1, <2>5 DEF ClickDivider, ViewTyped
  <2>6. CASE ClickPlus(c) \/ Release(c) \/ ClientGone(c)
    BY <1>1, <2>6 DEF ClickPlus, Release, ClientGone, ViewTyped
  <2>7. CASE RightClick(c)
    BY <1>1, <1>2, <2>7 DEF RightClick, OpenMenu, ViewTyped
  <2>8. CASE DragSelect(c)
    BY <1>1, <1>2, <2>8 DEF DragSelect
  <2>9. ASSUME NEW r, DragDivider(c, r) PROVE ViewTyped'
    BY <1>1, <2>9 DEF DragDivider
  <2> QED
    BY <1>9, <2>1, <2>2, <2>3, <2>4, <2>5, <2>6, <2>7, <2>8, <2>9 DEF Mouse
<1>10. CASE UNCHANGED vars
  BY <1>1, <1>10 DEF vars, viewVars, ViewTyped
<1> QED
  BY <1>5, <1>7, <1>8, <1>9, <1>10 DEF Next

\* What the pointer can hit.
LEMMA VisiblePanes ==
  ASSUME Placing
  PROVE  Visible \subseteq PaneId
<1>1. CASE Running
  <2>1. active \in DOMAIN windows
    BY <1>1 DEF Placing, Placement, Running
  <2>2. PanesOf(windows[active]) \subseteq PaneId
        /\ windows[active].focused \in PanesOf(windows[active])
    BY <2>1, WindowFacts DEF Placing
  <2> QED
    BY <2>1, <2>2 DEF Visible, Focused
<1> QED
  BY <1>1 DEF Visible

MenusTyped == menu \in MenuType /\ help \in BOOLEAN /\ dialog \in DialogType

LEMMA MenusTypedStep ==
  ASSUME Placing, ViewTyped, MenusTyped, [Next]_vars
  PROVE  MenusTyped'
<1>1. ASSUME menu' \in {menu, NoMenu}, help' \in BOOLEAN, dialog' \in {dialog, NoDialog, [mode |-> "new"]}
      PROVE  MenusTyped'
  BY <1>1 DEF MenusTyped, MenuType, DialogType
<1>2. help \in BOOLEAN
  BY DEF MenusTyped
<1>3. ASSUME NEW m \in {menu, NoMenu}, SplitFocused(m) \/ ToggleZoom(m) \/ CloseFocused(m)
      PROVE  MenusTyped'
  <2>1. CASE SplitFocused(m)
    BY <1>1, <1>2, <2>1, ReconciledOrClosed DEF SplitFocused
  <2>2. CASE ToggleZoom(m)
    BY <1>1, <1>2, <2>2, ReconciledOrClosed DEF ToggleZoom
  <2>3. CASE CloseFocused(m)
    BY <1>1, <1>2, <2>3, ReconciledOrClosed DEF CloseFocused, PaneExited, Shrink, DropWindow
  <2> QED
    BY <1>3, <2>1, <2>2, <2>3
<1>4. ASSUME NEW i, NEW m \in {menu, NoMenu}, CloseWindow(i, m) PROVE MenusTyped'
  BY <1>1, <1>2, <1>4, ReconciledOrClosed DEF CloseWindow, DropWindow
<1>5. CASE Command
  <2>1. ASSUME NEW i, SplitWindow(i) PROVE MenusTyped'
    BY <1>1, <1>2, <2>1 DEF SplitWindow, modalVars
  <2>2. ASSUME NEW pinned, NewWindow(pinned) PROVE MenusTyped'
    BY <1>1, <1>2, <2>2 DEF NewWindow
  <2>3. ASSUME NEW i, SwitchWindow(i) PROVE MenusTyped'
    BY <1>1, <1>2, <2>3 DEF SwitchWindow
  <2>4. CASE ToggleSidebar \/ OpenNewWindowDialog \/ EnterCopyMode
    BY <1>1, <1>2, <2>4 DEF ToggleSidebar, OpenNewWindowDialog, EnterCopyMode, EnterCopy
  <2>5. ASSUME NEW i, NEW pinned, RenameWindow(i, pinned) PROVE MenusTyped'
    BY <1>1, <1>2, <2>5 DEF RenameWindow, modalVars
  <2>6. CASE ShowHelp
    BY <1>1, <1>2, <2>6, ReconciledOrClosed DEF ShowHelp
  <2> QED
    BY <1>3, <1>4, <1>5, <2>1, <2>2, <2>3, <2>4, <2>5, <2>6 DEF Command
<1>6. CASE ChooseItem
  <2>1. ASSUME menu.window \in DOMAIN windows,
               dialog' = [mode |-> "rename", window |-> menu.window],
               menu' = NoMenu, UNCHANGED help
        PROVE  MenusTyped'
    <3>1. menu.window \in Nat
      BY <2>1 DEF Placing, Placement
    <3> QED
      BY <1>2, <2>1, <3>1 DEF MenusTyped, MenuType, DialogType
  <2> QED
    BY <1>3, <1>4, <1>6, <2>1 DEF ChooseItem
<1>7. CASE Overlay
  <2>1. ASSUME NEW pinned, SubmitNewWindow(pinned) \/ SubmitRename(pinned) PROVE MenusTyped'
    BY <1>1, <1>2, <2>1 DEF SubmitNewWindow, SubmitRename
  <2>2. CASE DismissHelp \/ CancelDialog \/ DismissMenu \/ ExitCopyMode
    BY <1>1, <1>2, <2>2 DEF DismissHelp, CancelDialog, DismissMenu, ExitCopyMode
  <2> QED
    BY <1>6, <1>7, <2>1, <2>2 DEF Overlay
<1>8. CASE Outside
  <2>1. ASSUME NEW r, Resize(r) PROVE MenusTyped'
    BY <1>1, <1>2, <2>1, ReconciledOrClosed DEF Resize
  <2>2. ASSUME NEW p, PaneExited(p, menu) PROVE MenusTyped'
    BY <1>1, <1>2, <2>2, ReconciledOrClosed DEF PaneExited, Shrink, DropWindow
  <2>3. CASE TakeSnapshotDirty
    BY <1>1, <1>2, <2>3 DEF TakeSnapshotDirty, modalVars
  <2> QED
    BY <1>8, <2>1, <2>2, <2>3 DEF Outside
<1>9. ASSUME NEW c \in Clients, Mouse(c) PROVE MenusTyped'
  <2>1. CASE ClickOverlay(c)
    BY <1>1, <1>2, <1>6, <2>1 DEF ClickOverlay, DismissHelp, DismissMenu, modalVars
  <2>2. ASSUME UNCHANGED modalVars PROVE MenusTyped'
    BY <1>1, <1>2, <2>2 DEF modalVars
  <2>3. ASSUME NEW p, ClickPane(c, p) PROVE MenusTyped'
    BY <2>2, <2>3 DEF ClickPane
  <2>4. ASSUME NEW i, ClickTab(c, i) PROVE MenusTyped'
    BY <2>2, <2>4 DEF ClickTab
  <2>5. ASSUME NEW i, NEW p, ClickSidebar(c, i, p) PROVE MenusTyped'
    BY <2>2, <2>5 DEF ClickSidebar
  <2>6. ASSUME NEW s, ClickDivider(c, s) PROVE MenusTyped'
    BY <2>2, <2>6 DEF ClickDivider
  <2>7. CASE Release(c) \/ ClientGone(c)
    BY <2>2, <2>7 DEF Release, ClientGone
  <2>8. CASE ClickPlus(c)
    BY <1>1, <1>2, <2>8 DEF ClickPlus
  <2>9. CASE DragSelect(c)
    BY <1>1, <1>2, <2>9 DEF DragSelect, EnterCopy
  <2>10. ASSUME NEW r, DragDivider(c, r) PROVE MenusTyped'
    BY <2>2, <2>10 DEF DragDivider
  <2>11. CASE RightClick(c)
    <3>1. rows \in Nat /\ 1..rows-1 \subseteq Nat /\ DOMAIN windows \subseteq Nat
      BY RowsAssumption DEF ViewTyped, Placing, Placement
    <3>2. ASSUME NEW p \in Visible, NEW r \in 1..rows-1,
                 menu' = [kind |-> "pane", pane |-> p, row |-> r]
          PROVE  menu' \in MenuType
      BY <3>1, <3>2, VisiblePanes DEF MenuType
    <3>3. ASSUME NEW i \in DOMAIN windows,
                 menu' = [kind |-> "tab", window |-> i, row |-> rows]
          PROVE  menu' \in MenuType
      BY <3>1, <3>3 DEF MenuType
    <3>4. menu' \in MenuType
      BY <2>11, <3>2, <3>3 DEF RightClick, OpenMenu
    <3> QED
      BY <2>11, <3>4 DEF RightClick, MenusTyped
  <2> QED
    BY <1>9, <2>1, <2>3, <2>4, <2>5, <2>6, <2>7, <2>8, <2>9, <2>10, <2>11 DEF Mouse
<1>10. CASE UNCHANGED vars
  BY <1>1, <1>2, <1>10 DEF vars, modalVars
<1> QED
  BY <1>5, <1>7, <1>8, <1>9, <1>10 DEF Next

LEMMA MouseTypedStep ==
  ASSUME Placing, MouseTyped, [Next]_vars
  PROVE  MouseTyped'
<1>1. CASE UNCHANGED mouseVars
  BY <1>1 DEF MouseTyped, mouseVars
<1>2. ASSUME NEW c \in Clients, Mouse(c) PROVE MouseTyped'
  <2>1. Disarms(c) => press' \in [Clients -> PaneId \cup {NoPane}]
    BY DEF Disarms, MouseTyped
  <2>2. ASSUME NEW hit, Arms(c, hit) PROVE press' \in [Clients -> PaneId \cup {NoPane}]
    BY <2>2, LivePanes DEF Arms, MouseTyped, Placing
  <2>3. SetsDrag(c, NoDrag) => drag' \in [Clients -> [window : Nat, path : Path, target : Nat]]
    <3>1. NoDrag \in [window : Nat, path : Path, target : Nat]
      BY DEF NoDrag, Path
    <3> QED
      BY <3>1 DEF SetsDrag, MouseTyped
  <2>4. UNCHANGED drag => drag' \in [Clients -> [window : Nat, path : Path, target : Nat]]
    BY DEF MouseTyped
  <2>5. CASE ClickOverlay(c)
    BY <2>2, <2>4, <2>5 DEF ClickOverlay, MouseTyped
  <2>6. ASSUME NEW p, ClickPane(c, p) PROVE MouseTyped'
    BY <2>2, <2>3, <2>6 DEF ClickPane, MouseTyped
  <2>7. ASSUME NEW i, ClickTab(c, i) PROVE MouseTyped'
    BY <2>1, <2>3, <2>7 DEF ClickTab, MouseTyped
  <2>8. ASSUME NEW i, NEW p, ClickSidebar(c, i, p) PROVE MouseTyped'
    BY <2>1, <2>3, <2>8 DEF ClickSidebar, MouseTyped
  <2>9. ASSUME NEW s, ClickDivider(c, s) PROVE MouseTyped'
    <3>1. active \in DOMAIN windows /\ s \in SplitPaths(windows[active].tree)
      BY <2>9 DEF ClickDivider, Placing, Placement, Running
    <3>2. /\ windows[active].id \in PaneId /\ active \in Nat
          /\ SplitPaths(windows[active].tree) \subseteq Path
      <4>1. windows[active] \in WindowType /\ IsTree(windows[active].tree)
        BY <3>1, WindowFacts DEF Placing
      <4>2. active \in Nat
        BY DEF Placing, Placement
      <4> QED
        BY <4>1, <4>2 DEF WindowType, IsTree
    <3>3. [window |-> active, path |-> s, target |-> windows[active].id]
            \in [window : Nat, path : Path, target : Nat]
      BY <3>1, <3>2, MaxPanesAssumption DEF PaneId
    <3> HIDE DEF PaneId
    <3> QED
      BY <2>1, <2>9, <3>3 DEF ClickDivider, SetsDrag, MouseTyped
  <2>10. CASE ClickPlus(c) \/ ClientGone(c)
    BY <2>1, <2>3, <2>10 DEF ClickPlus, ClientGone, MouseTyped
  <2>11. CASE Release(c)
    BY <2>1, <2>3, <2>4, <2>11 DEF Release, MouseTyped
  <2>12. CASE RightClick(c)
    BY <1>1, <2>12 DEF RightClick
  <2>13. CASE DragSelect(c)
    BY <2>1, <2>4, <2>13 DEF DragSelect, MouseTyped
  <2>14. ASSUME NEW r, DragDivider(c, r) PROVE MouseTyped'
    BY <2>1, <2>4, <2>14 DEF DragDivider, MouseTyped
  <2> QED
    BY <1>2, <2>5, <2>6, <2>7, <2>8, <2>9, <2>10, <2>11, <2>12, <2>13, <2>14 DEF Mouse
<1> QED
  BY <1>1, <1>2 DEF Next, vars

LEMMA TypesTogether ==
  ASSUME Placing, PanesTyped, ViewTyped, ModalTyped, MouseTyped
  PROVE  TypeOK
<1>1. windows \in Seq([id : PaneId, tree : {windows[i].tree : i \in DOMAIN windows},
                       focused : PaneId, zoomed : BOOLEAN, pinned : BOOLEAN])
  <2>1. windows \in Seq(WindowType) /\ DOMAIN windows = 1..Len(windows) /\ Len(windows) \in Nat
    BY DEF Placing, Placement
  <2> DEFINE W == [id : PaneId, tree : {windows[i].tree : i \in DOMAIN windows},
                   focused : PaneId, zoomed : BOOLEAN, pinned : BOOLEAN]
  <2>2. ASSUME NEW i \in 1..Len(windows) PROVE windows[i] \in W
    <3>1. windows[i] \in WindowType
      BY <2>1
    <3>2. windows[i].tree \in {windows[j].tree : j \in DOMAIN windows}
      BY <2>1
    <3>3. PICK T : T = {windows[j].tree : j \in DOMAIN windows}
      OBVIOUS
    <3>4. windows[i] \in [id : PaneId, tree : T, focused : PaneId,
                         zoomed : BOOLEAN, pinned : BOOLEAN]
      BY <3>1, <3>2, <3>3 DEF WindowType
    <3> QED
      BY <3>3, <3>4
  <2> HIDE DEF W
  <2>3. windows \in Seq(W)
    BY <2>1, <2>2, SeqDef
  <2> QED
    BY <2>3 DEF W
<1>2. \A i \in DOMAIN windows : IsTree(windows[i].tree) /\ PanesOf(windows[i]) \subseteq PaneId
  BY WindowFacts DEF Placing
<1>3. active \in Nat \ {0} /\ nextPane \in 1..MaxPanes + 1
  BY DEF Placing, Placement
<1>4. DOMAIN panes \subseteq PaneId
  BY LivePanes DEF Placing
<1> QED
  BY <1>1, <1>2, <1>3, <1>4 DEF PanesTyped, ViewTyped, ModalTyped, MouseTyped, TypeOK

\* Every field of the session has its type, whatever happens to it.
THEOREM TypeOKHolds == Spec => []TypeOK
<1> DEFINE Typed == PanesTyped /\ ViewTyped /\ MenusTyped /\ MouseTyped
<1>1. Init => Typed
  <2> SUFFICES ASSUME Init PROVE Typed
    OBVIOUS
  <2>1. ViewTyped
    BY DEF Init, ViewTyped
  <2>2. PanesTyped
    <3>1. <<>> \in Seq(Ratios \X {First, Second}) /\ rows - 1 \in Nat
      BY RowsAssumption DEF Init
    <3> QED
      BY <3>1 DEF Init, PanesTyped, FullRect, Content, RectType
  <2>3. MenusTyped
    BY DEF Init, MenusTyped, MenuType, DialogType
  <2>4. MouseTyped
    BY DEF Init, MouseTyped, NoDrag, Path
  <2> QED
    BY <2>1, <2>2, <2>3, <2>4
<1>2. Placing /\ Placing' /\ Typed /\ [Next]_vars => Typed'
  BY PanesTypedStep, ViewTypedStep, MenusTypedStep, MouseTypedStep
<1>3. Placing /\ CopyPaneLive /\ Typed => TypeOK
  BY TypesTogether, LivePanes DEF Placing, CopyPaneLive, ModalTyped, MenusTyped
<1> QED
  BY <1>1, <1>2, <1>3, PlacingAlways, CopyPaneLiveHolds, PTL DEF Spec

\* Every pane has one place, every window its tree and its focus, and every
\* index its window, for any clients, heights and number of panes.
THEOREM WellPlacedHolds == Spec => []WellPlaced
BY TypeOKHolds, PanesPlacedHolds, FocusInWindowHolds, TreesWellFormedHolds, PTL
DEF WellPlaced
=============================================================================
