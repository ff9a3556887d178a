------------------------------- MODULE CopyMode -------------------------------
(***************************************************************************)
(* One client, its terminal's bytes and the pane it selects text in        *)
(* (src/session.rs: enter_copy_mode, handle_copy_mode_key,                 *)
(* handle_copy_mode_mouse, begin_drag_select, wheel, apply_motion;         *)
(* src/server/mod.rs: ClientInput, the escape timer of the tick, the mouse *)
(* and copy key branches of apply_events).  The terminal sends keys and    *)
(* mouse reports as sequences of bytes; the daemon reads them in whatever  *)
(* pieces they arrive, and parses each piece with the copy bit of the      *)
(* moment, while the pane goes on writing and changes its size.  The       *)
(* client is the one that copy mode belongs to: others are in Server.      *)
(***************************************************************************)
EXTENDS Input, Screen

CONSTANTS Keys,       \* what a key of the keyboard sends: sequences of bytes
          Heights,    \* the heights the pane may be given beside others
          FullHeight, \* its height when zoomed
          Spots,      \* where the mouse may point, 1-based
          Carets,     \* where the application may have left the engine's cursor, 0-based
          Buttons,    \* the reports of the mouse: "button", "drag", "scrollup", "scrolldown"
          MaxWire,    \* bound on bytes under way, when a key or report is not alone
          MaxActs,    \* bound on keys and reports
          MaxCuts,    \* bound on reads that leave part of the bytes behind
          MaxTurns    \* bound on lines the pane writes, on changes of its height and of
                      \* its use of the mouse

ASSUME CopyModeAssumption ==
  /\ {MaxWire, MaxActs, MaxCuts, MaxTurns} \subseteq Nat /\ Heights # {}
  /\ Keys \subseteq Seq({Key(c) : c \in Class}) /\ Spots \subseteq Nat \X Nat
  /\ Carets \subseteq Nat \X Nat
  /\ Buttons \subseteq {"button", "drag", "scrollup", "scrolldown"}
  /\ Heights \subseteq Nat \ {0} /\ FullHeight \in Nat /\ \A h \in Heights : h < FullHeight

VARIABLES scr,       \* the screen of the pane
          height,    \* the height of its place among the tiles
          zoomed,    \* it fills the window instead
          tracking,  \* its application asked for the mouse
          cm,        \* copy_mode: None or the CopyModeState of this pane
          press,     \* pending_copy_press: None or where the button went down
          par,       \* the client's parser
          wire,      \* bytes sent and not read
          held,      \* the user holds the button
          left,      \* what is left of the bounds
          \* auxiliary
          step,      \* what the last step wrote to the pane and to the clipboard, what was
                     \* shown inverted, and if the pane had moved under it
          moved,     \* the pane wrote or was resized since copy mode began
          torn       \* a sequence typed before it, or the timer, took the start of a report

pane == <<scr, height, zoomed, tracking>>
term == <<wire, held>>
vars == <<pane, cm, press, par, term, left, step, moved, torn>>

None == [none |-> TRUE]
NoStep == [typed |-> <<>>, forwarded |-> 0, clip |-> {}, shown |-> {}, slid |-> FALSE]

Tile(h)  == [x |-> 0, y |-> 1, h |-> h]
Full     == [x |-> 0, y |-> 0, h |-> FullHeight]
Rect     == IF zoomed THEN Full ELSE Tile(height)
Within(r, col, row) == col \in r.x..r.x + Cols - 1 /\ row \in r.y..r.y + r.h - 1

WheelStep == 3

\* The text: every other row ends in a blank.
BlankAt(row, x) == x = Cols - 1 /\ row % 2 = 1

\* The pane may have written before, and be zoomed.
Init ==
  /\ height \in Heights /\ zoomed \in BOOLEAN /\ tracking = FALSE
  /\ scr \in LET s == FreshScreen(IF zoomed THEN FullHeight ELSE height) IN {s, Fed(s)}
  /\ cm = None /\ press = None /\ par = Quiet
  /\ wire = <<>> /\ held = FALSE
  /\ left = [acts |-> MaxActs, cuts |-> MaxCuts, turns |-> MaxTurns]
  /\ step = NoStep /\ moved = FALSE /\ torn = FALSE

-----------------------------------------------------------------------------
(* Copy mode: operators on c, the copy mode state, and s, the screen, as   *)
(* a record [cm, scr].                                                     *)

\* The engine's cursor, which it keeps on the screen.
CaretOn(s, caret) == [x |-> Min({caret[1], Cols - 1}), y |-> Min({caret[2], s.rows - 1})]

\* Mutant: entering forgets that the wheel has scrolled the pane.
EnteredAtBottom(s, caret) == [cursor |-> CaretOn(s, caret), offset |-> 0,
                              sel |-> None, dragging |-> FALSE, mouse |-> FALSE]

Entered(s, caret) == [cursor |-> CaretOn(s, caret), offset |-> ViewportOffset(s),
                      sel |-> None, dragging |-> FALSE, mouse |-> FALSE]

Here(c, s) == Unproject(s, c.offset, c.cursor)
HeadAt(c, s) == IF c.sel = None THEN c ELSE [c EXCEPT !.sel.head = Here(c, s)]
Clamped(c, s) == IF c.sel = None THEN c ELSE [c EXCEPT !.sel = ClampedToScreen(s, @)]

Up(c, s, n) ==
  LET k == Min({n, Minus(ScrollbackRows(s), c.offset)})
  IN  [cm |-> [c EXCEPT !.offset = @ + k], scr |-> IF k = 0 THEN s ELSE ScrollDelta(s, -k)]
Down(c, s, n) ==
  LET k == Min({n, c.offset})
  IN  [cm |-> [c EXCEPT !.offset = @ - k], scr |-> IF k = 0 THEN s ELSE ScrollDelta(s, k)]
Stay(c, s) == [cm |-> c, scr |-> s]

\* How far a loop goes that stops before one of the columns `set`, or at the end of
\* the row; and how far back one goes that stops behind one of them, or at its start.
FirstFrom(x, set) == Min({Cols - 1} \cup {y \in x..Cols - 1 : y \in set})
LastBelow(x, set) == Max({0} \cup {y \in 1..x : y - 1 \in set})

ColumnAfter(m, c, s) ==
  LET x == c.cursor.x
      blank == {y \in 0..Cols - 1 : BlankAt(TopRow(s) + c.cursor.y, y)}
      ink   == 0..Cols - 1 \ blank
  IN  CASE m = "Left"      -> Minus(x, 1)
        [] m = "Right"     -> Min({x + 1, Cols - 1})
        [] m = "LineStart" -> 0
        [] m = "LineEnd"   -> Max({0} \cup ink)
        [] m = "WordFwd"   -> FirstFrom(FirstFrom(x, blank), ink)
        [] m = "WordBack"  -> LastBelow(LastBelow(x, ink), blank)
        [] OTHER           -> x

Moved(m, c, s) ==
  LET last == s.rows - 1
      half == Max({s.rows \div 2, 1})
  IN  CASE m = "Up" /\ c.cursor.y > 0      -> Stay([c EXCEPT !.cursor.y = @ - 1], s)
        [] m = "Up" /\ c.cursor.y = 0      -> Up(c, s, 1)
        [] m = "Down" /\ c.cursor.y < last -> Stay([c EXCEPT !.cursor.y = @ + 1], s)
        [] m = "Down" /\ c.cursor.y >= last -> Down(c, s, 1)
        [] m = "Top"    -> Stay([c EXCEPT !.offset = ScrollbackRows(s), !.cursor.y = 0], ScrollTop(s))
        [] m = "Bottom" -> Stay([c EXCEPT !.offset = 0, !.cursor.y = last], ScrollBottom(s))
        [] m = "HalfPageUp"   -> Up(c, s, half)
        [] m = "HalfPageDown" -> Down(c, s, half)
        [] m = "PageUp"       -> Up(c, s, s.rows)
        [] m = "PageDown"     -> Down(c, s, s.rows)
        [] OTHER -> Stay([c EXCEPT !.cursor.x = ColumnAfter(m, c, s)], s)

\* resolve_copy_key, over the classes of bytes and the names of CsiToCopyKey.
Motion ==
  [k \in {"h", "l", "k", "up", "j", "0", "$", "w", "b", "g", "G", "home",
          "P", "pageup", "half-up", "half-down", "pagedown"} |->
     CASE k = "h" -> "Left" [] k = "l" -> "Right" [] k \in {"k", "up"} -> "Up"
       [] k = "j" -> "Down" [] k \in {"0", "home"} -> "LineStart" [] k = "$" -> "LineEnd"
       [] k = "w" -> "WordFwd" [] k = "b" -> "WordBack" [] k = "g" -> "Top" [] k = "G" -> "Bottom"
       [] k = "half-up" -> "HalfPageUp" [] k = "half-down" -> "HalfPageDown"
       [] k \in {"P", "pageup"} -> "PageUp" [] k = "pagedown" -> "PageDown"]

\* An event handler takes the state w = [scr, cm, press, zoomed, step,
\* moved] to the next.
Yanks(w) ==
  IF w.cm.sel = None THEN [w EXCEPT !.cm = None]
  ELSE [w EXCEPT !.cm = None,
                 !.step.clip  = Yanked(w.scr, w.cm.offset, w.cm.sel),
                 !.step.shown = Highlighted(w.scr, w.cm.offset, w.cm.sel),
                 !.step.slid  = w.moved]
Exits(w) == [w EXCEPT !.cm = None, !.scr = ScrollBottom(@)]
Puts(w, after) == [w EXCEPT !.cm = Clamped(after.cm, w.scr), !.scr = after.scr]

CopyModeKey(w, k) ==
  CASE w.cm = None       -> w
    [] w.cm # None /\ k \in {"q", "esc"} -> Exits(w)
    [] w.cm # None /\ k \in {"y", "cr"}  -> Yanks(w)
    [] w.cm # None /\ k = "v" ->
         Puts(w, Stay([w.cm EXCEPT !.sel = IF @ # None THEN None
                         ELSE [anchor |-> Here(w.cm, w.scr), head |-> Here(w.cm, w.scr)]], w.scr))
    [] w.cm # None /\ k \in DOMAIN Motion ->
         LET m == Moved(Motion[k], w.cm, w.scr)
         IN  Puts(w, Stay(HeadAt(m.cm, m.scr), m.scr))
    [] OTHER -> Puts(w, Stay(w.cm, w.scr))

EnterCopyMode(w, caret) ==
  IF Scrollback = 0 \/ w.cm # None THEN w ELSE [w EXCEPT !.cm = Entered(w.scr, caret), !.moved = FALSE]

\* The rectangle is that of the tile, zoomed or not.
At(w, col, row) ==
  [x |-> Min({Minus(col - 1, 0), Cols - 1}),
   y |-> Min({Minus(row - 1, Tile(height).y), w.scr.rows - 1})]

Pressed(w, e) ==
  LET c == [w.cm EXCEPT !.cursor = At(w, e.col, e.row)]
  IN  Puts(w, Stay([c EXCEPT !.sel = [anchor |-> Here(c, w.scr), head |-> Here(c, w.scr)],
                             !.dragging = TRUE], w.scr))

\* A drag at the edge scrolls; the head goes where the pointer is.
Dragged(w, e) ==
  LET r == Tile(height)
      a == CASE e.row - 1 <= r.y -> Up(w.cm, w.scr, 1)
             [] e.row - 1 > r.y /\ e.row - 1 >= r.y + r.h - 1 -> Down(w.cm, w.scr, 1)
             [] OTHER -> Stay(w.cm, w.scr)
  IN  Puts(w, Stay(HeadAt([a.cm EXCEPT !.cursor = At(w, e.col, e.row)], a.scr), a.scr))

\* Mutant: a click without a drag stays in copy mode whoever began it.
ReleasedStaying(w) ==
  IF w.cm.sel # None /\ w.cm.sel.anchor # w.cm.sel.head THEN Yanks(w)
  ELSE Puts(w, Stay([w.cm EXCEPT !.dragging = FALSE], w.scr))

\* Releasing after a drag copies; a session the mouse began ends with the button.
Released(w) ==
  CASE w.cm.sel # None /\ w.cm.sel.anchor # w.cm.sel.head -> Yanks(w)
    [] (w.cm.sel = None \/ w.cm.sel.anchor = w.cm.sel.head) /\ w.cm.mouse -> Exits(w)
    [] OTHER -> Puts(w, Stay([w.cm EXCEPT !.dragging = FALSE], w.scr))

CopyModeMouse(w, e) ==
  CASE w.cm = None \/ (~Within(Tile(height), e.col - 1, e.row - 1)
                         /\ e.kind \notin {"drag", "release"}) -> w
    [] w.cm # None /\ e.kind = "drag"    -> Dragged(w, e)
    [] w.cm # None /\ e.kind = "release" -> Released(w)
    [] w.cm # None /\ Within(Tile(height), e.col - 1, e.row - 1) /\ e.kind = "press" -> Pressed(w, e)
    [] w.cm # None /\ Within(Tile(height), e.col - 1, e.row - 1) /\ e.kind = "scrollup" ->
         Puts(w, Up(w.cm, w.scr, WheelStep))
    [] OTHER -> Puts(w, Down(w.cm, w.scr, WheelStep))

\* The wheel outside copy mode; an application that tracks the mouse is sent the event.
Wheel(w, e) ==
  CASE ~Within(IF w.zoomed THEN Full ELSE Tile(height), e.col - 1, e.row - 1) -> w
    [] tracking -> [w EXCEPT !.step.forwarded = @ + 1]
    [] OTHER -> [w EXCEPT !.scr = ScrollDelta(@, IF e.kind = "scrollup" THEN -WheelStep ELSE WheelStep)]

BeginDragSelect(w, e, caret) ==
  LET entered == EnterCopyMode(w, caret)
      begun   == [entered EXCEPT !.cm.mouse = TRUE, !.press = None]
      pressed == CopyModeMouse(begun, [w.press EXCEPT !.kind = "press"])
  IN  IF entered.cm = None THEN [w EXCEPT !.press = None]
      ELSE CopyModeMouse(pressed, e)

MouseEvent(w, e, caret) ==
  CASE w.cm # None -> CopyModeMouse(w, e)
    [] w.cm = None /\ e.kind \in {"scrollup", "scrolldown"} -> Wheel(w, e)
    [] w.cm = None /\ e.kind = "press" ->
         [w EXCEPT !.press =
            IF ~tracking /\ Within(IF w.zoomed THEN Full ELSE Tile(height), e.col - 1, e.row - 1)
            THEN e ELSE None]
    [] w.cm = None /\ e.kind = "drag" /\ w.press # None ->
         IF tracking THEN [w EXCEPT !.press = None] ELSE BeginDragSelect(w, e, caret)
    [] w.cm = None /\ e.kind = "release" -> [w EXCEPT !.press = None]
    [] OTHER -> w

\* The commands of the prefix that matter to the pane.
Commanded(w, name, caret) ==
  IF name = "EnterCopyMode" THEN EnterCopyMode(w, caret)
  ELSE [w EXCEPT !.zoomed = ~@, !.moved = (w.cm # None),
                 !.scr = Resized(@, IF w.zoomed THEN height ELSE FullHeight)]

ApplyEvent(w, e, caret) ==
  CASE e.ev = "pane"    -> [w EXCEPT !.step.typed = @ \o e.bytes]
    [] e.ev = "command" -> Commanded(w, e.name, caret)
    [] e.ev = "mouse"   -> MouseEvent(w, e, caret)
    [] e.ev = "copykey" -> CopyModeKey(w, e.key)
    [] OTHER            -> w

Applied(w, events, caret) ==
  LET after[n \in 0..Len(events)] ==
        IF n = 0 THEN w ELSE ApplyEvent(after[n - 1], events[n], caret)
  IN  after[Len(events)]

\* The application may have left the engine's cursor anywhere.
ApplyEvents(events) ==
  \E caret \in Carets :
    LET w == Applied([scr |-> scr, cm |-> cm, press |-> press, zoomed |-> zoomed,
                      step |-> NoStep, moved |-> moved], events, caret)
    IN  /\ scr' = w.scr /\ cm' = w.cm /\ press' = w.press /\ zoomed' = w.zoomed /\ step' = w.step
        /\ moved' = w.moved

-----------------------------------------------------------------------------
(* The daemon reads                                                        *)

CopyBit == cm # None

\* A report is torn when the prefix, or a sequence that was typed and is still open,
\* takes its first byte.
Tears(p, bytes) ==
  \E i \in DOMAIN bytes :
    /\ bytes[i].rep /\ bytes[i].c = "esc"
    /\ Feed(p, SubSeq(bytes, 1, i - 1), CopyBit).mode \in {"Armed", "NCsi", "ACsi", "ASs3"}

CutsOff(p) ==
  p.mode \in {"NEsc", "AEsc"} /\ wire # <<>> /\ Head(wire).rep /\ Head(wire).c # "esc"

\* Event::ClientInput: the next n bytes, after an escape whose time is up (late).
ClientInput(n, late) ==
  /\ late => PendingEscape(par)
  /\ LET p == IF late THEN FlushEscapeTimeout(par, CopyBit) ELSE par
         q == Feed(p, SubSeq(wire, 1, n), CopyBit)
     IN  /\ ApplyEvents(q.out)
         /\ par' = [q EXCEPT !.out = <<>>]
         /\ torn' = (torn \/ Tears(p, SubSeq(wire, 1, n))
                          \/ (late /\ CutsOff(par)))
  /\ wire' = SubSeq(wire, n + 1, Len(wire))
  /\ wire' = <<>> \/ left.cuts > 0
  /\ left' = IF wire' = <<>> THEN left ELSE [left EXCEPT !.cuts = @ - 1]
  /\ UNCHANGED <<height, tracking, held>>

\* The tick finds an escape that nothing followed in time.
EscapeTimeout ==
  /\ PendingEscape(par)
  /\ LET q == FlushEscapeTimeout(par, CopyBit)
     IN  /\ ApplyEvents(q.out)
         /\ par' = [q EXCEPT !.out = <<>>]
  /\ torn' = (torn \/ CutsOff(par))
  /\ UNCHANGED <<height, tracking, term, left>>

-----------------------------------------------------------------------------
(* The surroundings                                                        *)

Unread == UNCHANGED <<cm, press, par, torn>> /\ step' = NoStep

Sends(bytes) ==
  /\ left.acts > 0 /\ (wire = <<>> \/ Len(wire) + Len(bytes) <= MaxWire)
  /\ wire' = wire \o bytes
  /\ left' = [left EXCEPT !.acts = @ - 1]
  /\ UNCHANGED <<pane, moved>> /\ Unread

Type(key) == key \in Keys /\ Sends(key) /\ UNCHANGED held

Report(kind, spot, final) ==
  LET B(c) == [Key(c) EXCEPT !.rep = TRUE]
  IN  <<B("esc"), B("["), B("<"),
        [B("5") EXCEPT !.at = [kind |-> kind, col |-> spot[1], row |-> spot[2]]], B(final)>>

\* The button goes down on the pane as it is drawn.
MousePress(spot) ==
  /\ "button" \in Buttons /\ ~held /\ Within(Rect, spot[1] - 1, spot[2] - 1)
  /\ Sends(Report("button", spot, "M"))
  /\ held' = TRUE

MouseDrag(spot)    == "drag" \in Buttons /\ held /\ Sends(Report("drag", spot, "M")) /\ UNCHANGED held
MouseRelease(spot) == held /\ Sends(Report("button", spot, "m")) /\ held' = FALSE
MouseWheel(kind, spot) ==
  kind \in Buttons \cap {"scrollup", "scrolldown"} /\ Sends(Report(kind, spot, "M")) /\ UNCHANGED held

Output ==
  /\ left.turns > 0
  /\ scr' = Fed(scr)
  /\ left' = [left EXCEPT !.turns = @ - 1]
  /\ moved' = (moved \/ cm # None)
  /\ UNCHANGED <<height, zoomed, tracking, term>> /\ Unread

\* The pane is given another height: a divider moved, or the client's terminal did.
Resize(h) ==
  /\ left.turns > 0 /\ h \in Heights \ {height} /\ ~zoomed
  /\ height' = h
  /\ scr' = Resized(scr, h)
  /\ left' = [left EXCEPT !.turns = @ - 1]
  /\ moved' = (moved \/ cm # None)
  /\ UNCHANGED <<zoomed, tracking, term>> /\ Unread

MouseTracking ==
  /\ left.turns > 0
  /\ tracking' = ~tracking
  /\ left' = [left EXCEPT !.turns = @ - 1]
  /\ UNCHANGED <<scr, height, zoomed, term, moved>> /\ Unread

Next ==
  \/ \E n \in 1..Len(wire), late \in BOOLEAN : ClientInput(n, late)
  \/ EscapeTimeout
  \/ \E key \in Keys : Type(key)
  \/ \E spot \in Spots : MousePress(spot) \/ MouseDrag(spot) \/ MouseRelease(spot)
  \/ \E spot \in Spots, kind \in Buttons : MouseWheel(kind, spot)
  \/ Output
  \/ \E h \in Heights : Resize(h)
  \/ MouseTracking

Spec == Init /\ [][Next]_vars
=============================================================================
