------------------------------ MODULE Snapshot ------------------------------
(***************************************************************************)
(* What a snapshot keeps of a session and what a daemon makes of it after  *)
(* a crash (src/persist/mod.rs; snapshot, restore and build_node in        *)
(* src/session.rs), over the trees of LayoutTree.                          *)
(*                                                                         *)
(* A session is its windows [root, focused, zoomed, name], the position of *)
(* the active one, and what every pane is to be resumed with: a directory  *)
(* and an agent, [id, transcript] or Shell.  The disk is the directories   *)
(* and transcripts there are; ids that are UUIDs are in `uuids`.           *)
(***************************************************************************)
EXTENDS LayoutTree, FiniteSetsExt

CONSTANTS Home, Shell

-----------------------------------------------------------------------------
(* snapshot                                                                *)

RECURSIVE NodeSnapshot(_, _)
NodeSnapshot(panes, n) ==
  IF IsLeaf(n) THEN [saved |-> panes[n.pane]]
  ELSE Split(n.dir, n.ratio, NodeSnapshot(panes, n.first), NodeSnapshot(panes, n.second))

FocusedLeaf(w) ==
  LET at == {i \in DOMAIN AllPanes(w.root) : AllPanes(w.root)[i] = w.focused}
  IN  IF at = {} THEN 1 ELSE CHOOSE i \in at : TRUE

Saved(s) ==
  [windows |-> [i \in DOMAIN s.windows |->
                  LET w == s.windows[i]
                  IN  [name |-> w.name, zoomed |-> w.zoomed, leaf |-> FocusedLeaf(w),
                       layout |-> NodeSnapshot(s.panes, w.root)]],
   active  |-> s.active]

-----------------------------------------------------------------------------
(* plan_restore: one entry per leaf, in the order of all_panes             *)

ResolvePane(p, disk) ==
  LET there == p.cwd \in disk.dirs
      sound == \/ p.agent = Shell
               \/ /\ p.agent.id \in disk.uuids
                  /\ p.agent.transcript \in disk.transcripts
                  /\ there
  IN  [cwd |-> IF there THEN p.cwd ELSE Home,
       agent |-> IF sound THEN p.agent ELSE Shell,
       downgraded |-> ~sound \/ ~there]

\* Mutant: the second child goes first.
RECURSIVE CollectBackwards(_)
CollectBackwards(n) ==
  IF "saved" \in DOMAIN n THEN <<n.saved>>
  ELSE CollectBackwards(n.second) \o CollectBackwards(n.first)
RECURSIVE CollectPanes(_)
CollectPanes(n) ==
  IF "saved" \in DOMAIN n THEN <<n.saved>> ELSE CollectPanes(n.first) \o CollectPanes(n.second)

PlanRestore(snap, disk) ==
  LET of[i \in 0..Len(snap.windows)] ==
        IF i = 0 THEN <<>> ELSE of[i-1] \o CollectPanes(snap.windows[i].layout)
      leaves == of[Len(snap.windows)]
  IN  [k \in DOMAIN leaves |-> ResolvePane(leaves[k], disk)]

\* The count in the summary a user is asked about.
Downgrades(plan) == Cardinality({k \in DOMAIN plan : plan[k].downgraded})

-----------------------------------------------------------------------------
(* restore: panes are spawned leaf by leaf, so that the k-th entry of the  *)
(* plan goes to pane k                                                     *)

\* build_node: the node, and the number of its last pane.
RECURSIVE BuildNode(_, _)
BuildNode(n, before) ==
  IF "saved" \in DOMAIN n THEN <<Leaf(before + 1), before + 1>>
  ELSE LET a == BuildNode(n.first, before)
           b == BuildNode(n.second, a[2])
       IN  <<Split(n.dir, n.ratio, a[1], b[1]), b[2]>>

Restored(snap, disk) ==
  LET plan == PlanRestore(snap, disk)
      built[i \in 0..Len(snap.windows)] ==
        IF i = 0 THEN <<Leaf(0), 0>> ELSE BuildNode(snap.windows[i].layout, built[i-1][2])
      window(i) ==
        LET order == AllPanes(built[i][1])
            w     == snap.windows[i]
        IN  [root |-> built[i][1], name |-> w.name, zoomed |-> w.zoomed,
             focused |-> IF w.leaf \in DOMAIN order THEN order[w.leaf] ELSE order[1]]
  IN  [windows |-> [i \in DOMAIN snap.windows |-> window(i)],
       active  |-> Min({snap.active, Len(snap.windows)}),
       panes   |-> [k \in DOMAIN plan |-> [cwd |-> plan[k].cwd, agent |-> plan[k].agent]]]
=============================================================================
