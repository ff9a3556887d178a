----------------------------- MODULE MCCopyMode -----------------------------
(* Instances of CopyMode for TLC.                                            *)
EXTENDS CopyModeProps

Pr   == <<Key("P")>>
Copy == <<Key("P"), Key("[")>>
K(c) == <<Key(c)>>
PageUp == <<Key("esc"), Key("["), Key("5"), Key("~")>>

FewKeys == {Pr, Copy, K("0"), K("k"), K("v"), K("y"), K("esc"), K("["), PageUp}
Two     == {2}
TwoHeights == {1, 2}
Corners == {<<1, 2>>, <<2, 3>>}
Ends    == {<<0, 0>>, <<1, 2>>}
Mouse   == {"button", "drag", "scrollup"}
=============================================================================
