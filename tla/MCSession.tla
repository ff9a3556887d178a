----------------------------- MODULE MCSession -----------------------------
(* Instances of Session for TLC.  Clients, panes and heights are few; what *)
(* each run needs is given in its cfg.                                     *)
EXTENDS SessionProps

CONSTANTS c1, low, mid

OneClient  == {c1}
Ratios2    == {low, mid}
Ratios1    == {mid}
OneHeight  == {2}

\* A selection is begun on pane 2 only, which can die before the others and after.
Selectable  == {NoPane, 2}
BoundedNext == Next /\ \A c \in Clients : press'[c] \in Selectable
BoundedSpec == Init /\ [][BoundedNext]_vars
=============================================================================
