---------------------------- MODULE SnapshotProps ---------------------------
(***************************************************************************)
(* What is asked of a session restored from its snapshot, while its tree   *)
(* is small (RestoredPanes).                                               *)
(***************************************************************************)
EXTENDS Snapshot

CONSTANTS Worlds,        \* what the panes are, and what is left on the disk
          RestoredPanes  \* bound on the panes ever made in a tree looked at

\* A session of two windows: the one whose tree is the state, and another.
Sessions(w) ==
  {[windows |-> IF right THEN <<win, other>> ELSE <<other, win>>,
    active |-> a, panes |-> w.panes] :
     right \in BOOLEAN, a \in {1, 2},
     win \in {[root |-> tree, focused |-> p, zoomed |-> z, name |-> "one"] :
                p \in {AllPanes(tree)[i] : i \in DOMAIN AllPanes(tree)}, z \in BOOLEAN},
     other \in {[root |-> Leaf(MaxPanes + 1), focused |-> MaxPanes + 1, zoomed |-> FALSE,
                 name |-> "two"]}}

\* What is seen of window i of a session, at the size of the state: every
\* place with what runs there, focus, zoom and name.
SeenIn(s, i) ==
  LET w == s.windows[i]
      here == {r \in PaneRects(w.root, area) : r.pane = w.focused}
  IN  [panes |-> {[rect |-> r.rect, runs |-> s.panes[r.pane]] : r \in PaneRects(w.root, area)},
       dividers |-> Dividers(w.root, area, <<>>),
       focus |-> {r.rect : r \in here},
       zoomed |-> w.zoomed, name |-> w.name]

\* What a pane is once the disk has lost something: each pane for itself.
Remains(p, disk) ==
  LET there == p.cwd \in disk.dirs
  IN  [cwd |-> IF there THEN p.cwd ELSE Home,
       agent |-> IF p.agent # Shell /\ there /\ p.agent.id \in disk.uuids
                    /\ p.agent.transcript \in disk.transcripts
                 THEN p.agent ELSE Shell]

\* A restored session shows every window as it was, with every pane running in
\* its own directory and its own agent resumed ("plan pane `k` always maps to
\* snapshot leaf `k`", restore); the summary counts exactly the panes that come
\* back as something else ("the message and behavior use identical logic",
\* plan_restore); and a second crash loses nothing more ("seeding it keeps the
\* on-disk snapshot truthful", build_node).
RestoresWhatWasSaved ==
  nextPane <= RestoredPanes + 1 => \A w \in Worlds : \A s \in Sessions(w) :
    LET r == Restored(Saved(s), w.disk)
        same == [s EXCEPT !.panes = [p \in DOMAIN @ |-> Remains(@[p], w.disk)]]
        lost == {p \in UNION {{r2.pane : r2 \in PaneRects(s.windows[i].root, area)} : i \in {1, 2}} :
                   Remains(s.panes[p], w.disk) # s.panes[p]}
    IN  /\ r.active = s.active
        /\ \A i \in {1, 2} : SeenIn(r, i) = SeenIn(same, i)
        /\ Downgrades(PlanRestore(Saved(s), w.disk)) = Cardinality(lost)
        /\ Restored(Saved(r), w.disk) = r
=============================================================================
