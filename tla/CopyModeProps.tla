---------------------------- MODULE CopyModeProps ----------------------------
(***************************************************************************)
(* What is asked of module CopyMode.                                       *)
(***************************************************************************)
EXTENDS CopyMode

\* Copy mode is where the pane is: its offset is the engine's, its cursor is on the
\* pane and its selection on rows that exist, as long as the pane has not written or
\* changed its size since copy mode began, on whatever view the wheel had left it.
ViewInStep ==
  cm # None /\ ~moved =>
    /\ cm.offset = ViewportOffset(scr)
    /\ cm.cursor \in [x : 0..Cols - 1, y : 0..scr.rows - 1]
    /\ cm.sel # None => {cm.sel.anchor.y, cm.sel.head.y} \subseteq 0..scr.total - 1

\* Copy mode that the mouse began lasts as long as the button: it is held, or the
\* report of its release is still to be read.
MouseSessionEnds ==
  cm # None /\ cm.mouse =>
    held \/ torn \/ \E i \in DOMAIN wire : wire[i].rep /\ wire[i].c = "m"

\* What goes to the clipboard is what was shown inverted, unless the pane had written
\* or changed its size since copy mode began.
CopiesWhatIsShown == step.slid \/ step.clip = step.shown

\* A selection lies where the pane is, and what it copies is what it showed.
SelectsWhatIsShown == ViewInStep /\ CopiesWhatIsShown

\* What reaches the pane was meant for it, however the bytes are cut into reads.
\* No byte of a mouse report is typed, unless the prefix, a sequence that was typed and
\* left open, or the timer took the start of the report; and a read that begins in copy
\* mode, with no prefix pending from before, types nothing, whatever state the parser
\* is in.
TypedIsMeant ==
  [][/\ torn' \/ \A i \in DOMAIN step'.typed : ~step'.typed[i].rep
     /\ cm # None /\ par.mode \in {"Ground", "NEsc", "NCsi", "NMouse"}
          => step'.typed = <<>>]_vars
=============================================================================
