-------------------------------- MODULE Input --------------------------------
(***************************************************************************)
(* The parser that turns the bytes of one client into events               *)
(* (src/input/mod.rs: InputParser, csi_to_copykey, resolve_key,            *)
(* parse_sgr).  A byte is [c, at, rep]: its class, for the parameter run   *)
(* of a mouse report what it says, and whether the user's terminal sent it *)
(* as part of a report (nothing of the parser reads rep).  The classes are *)
(* the bytes the parser tells apart; a parameter run is one byte "5".      *)
(***************************************************************************)
EXTENDS Naturals, Sequences, SequencesExt

CONSTANT MaxSeq   \* MAX_CSI_SEQ and MAX_MOUSE_SEQ, in bytes of this module

\* A report fits.
ASSUME MaxSeqAssumption == MaxSeq \in Nat \ 0..3

\* A byte that ends a CSI sequence, 0x40..=0x7e.
CsiFinal == {"A", "G", "H", "I", "M", "O", "[", "b", "g", "h", "j", "k", "l", "m",
             "q", "v", "w", "y", "~"}

Class == CsiFinal \cup {"esc", "cr", "P", "0", "5", "<", "$"}

NoMouse == [kind |-> "none", col |-> 0, row |-> 0]
Key(c)  == [c |-> c, at |-> NoMouse, rep |-> FALSE]

Byte == [c : Class, rep : BOOLEAN,
         at : [kind : {"none", "button", "drag", "scrollup", "scrolldown"}, col : Nat, row : Nat]]

Quiet == [mode |-> "Ground", pending |-> <<>>, ground |-> <<>>, out |-> <<>>]

Emitted(p, e) == [p EXCEPT !.out = Append(@, e)]
InMode(p, mode, bytes) == [p EXCEPT !.mode = mode, !.pending = bytes]
Pane(bytes)   == [ev |-> "pane", bytes |-> bytes]
CopyKey(c)    == [ev |-> "copykey", key |-> c]
Command(name) == [ev |-> "command", name |-> name]

FlushGround(p) ==
  IF p.ground = <<>> THEN p
  ELSE [Emitted(p, Pane(p.ground)) EXCEPT !.ground = <<>>]

\* The key after the prefix: the prefix itself, a bound key, or the digit 0.
ResolveKey(p, b) ==
  CASE b.c = "P" -> Emitted(p, Pane(<<b>>))
    [] b.c = "[" -> Emitted(p, Command("EnterCopyMode"))
    [] b.c = "0" -> Emitted(p, Command("ToggleZoom"))
    [] OTHER     -> p

\* The keys copy mode knows a CSI sequence for.
CsiToCopyKey(pending) ==
  CASE Last(pending).c = "A" -> <<CopyKey("up")>>
    [] Last(pending).c = "H" -> <<CopyKey("home")>>
    [] Last(pending).c = "~" /\ Len(pending) = 4 /\ pending[3].c = "5"
         -> <<CopyKey("pageup")>>
    [] OTHER -> <<>>

\* The parameters of a report say wheel, drag or button; the final byte tells a press
\* from a release.
ParseSgr(pending) ==
  IF Len(pending) # 5 \/ pending[4].at = NoMouse THEN <<>>
  ELSE LET at == pending[4].at
       IN  <<[ev |-> "mouse", col |-> at.col, row |-> at.row,
              kind |-> IF at.kind # "button" THEN at.kind
                       ELSE IF Last(pending).c = "M" THEN "press" ELSE "release"]>>

Ground(p, b, copy) ==
  CASE b.c = "esc"            -> InMode(FlushGround(p), "NEsc", <<b>>)
    [] copy /\ b.c # "esc"    -> Emitted(InMode(FlushGround(p), "Ground", <<>>), CopyKey(b.c))
    [] ~copy /\ b.c = "P"     -> InMode(FlushGround(p), "Armed", <<>>)
    [] OTHER                  -> [InMode(p, "Ground", <<>>) EXCEPT !.ground = Append(@, b)]

AfterEsc(p, b, copy) ==
  IF b.c = "[" THEN InMode(p, "NCsi", Append(p.pending, b))
  ELSE Ground(Emitted(p, IF copy THEN CopyKey("esc") ELSE Pane(p.pending)), b, copy)

\* Mutant: what copy mode has no key for goes to the pane.
InCsiThrough(p, b, copy) ==
  LET got == Append(p.pending, b)
  IN  IF b.c = "<" /\ Len(p.pending) = 2 THEN InMode(p, "NMouse", got)
      ELSE IF b.c \notin CsiFinal /\ Len(got) < MaxSeq THEN InMode(p, "NCsi", got)
      ELSE [InMode(p, "Ground", <<>>) EXCEPT !.out = Append(@, Pane(got))]

InCsi(p, b, copy) ==
  LET got == Append(p.pending, b)
  IN  CASE b.c = "<" /\ Len(p.pending) = 2 -> InMode(p, "NMouse", got)
        [] b.c \in {"I", "O"} /\ Len(p.pending) = 2 ->
             InMode(IF b.c = "I" THEN Emitted(p, [ev |-> "focus"]) ELSE p, "Ground", <<>>)
        [] b.c \notin CsiFinal /\ ~(b.c = "<" /\ Len(p.pending) = 2) /\ Len(got) < MaxSeq ->
             InMode(p, "NCsi", got)
        [] OTHER ->
             [InMode(p, "Ground", <<>>) EXCEPT
                !.out = @ \o (IF copy THEN CsiToCopyKey(got) ELSE <<Pane(got)>>)]

InMouse(p, b, copy) ==
  CASE b.c \in {"M", "m"} ->
         [InMode(p, "Ground", <<>>) EXCEPT !.out = @ \o ParseSgr(Append(p.pending, b))]
    [] b.c \in {"0", "5"} /\ Len(p.pending) < MaxSeq -> InMode(p, "NMouse", Append(p.pending, b))
    [] OTHER -> Ground(p, b, copy)

\* With the prefix armed an arrow is a command of its own, none of which matters here.
Armed(p, b, copy) ==
  CASE p.mode = "Armed" /\ b.c = "esc" -> InMode(p, "AEsc", <<b>>)
    [] p.mode = "Armed" /\ b.c # "esc" -> InMode(ResolveKey(p, b), "Ground", <<>>)
    [] p.mode = "AEsc" /\ b.c = "["    -> InMode(p, "ACsi", p.pending)
    [] p.mode = "AEsc" /\ b.c = "O"    -> InMode(p, "ASs3", p.pending)
    [] p.mode = "AEsc" /\ b.c \notin {"[", "O"} -> Ground(p, b, copy)
    [] p.mode = "ACsi" /\ b.c \in {"I", "O"} ->
         InMode(IF b.c = "I" THEN Emitted(p, [ev |-> "focus"]) ELSE p, "Armed", <<>>)
    [] OTHER -> InMode(p, "Ground", <<>>)

Step(p, b, copy) ==
  CASE p.mode = "Ground" -> Ground(p, b, copy)
    [] p.mode = "NEsc"   -> AfterEsc(p, b, copy)
    [] p.mode = "NCsi"   -> InCsi(p, b, copy)
    [] p.mode = "NMouse" -> InMouse(p, b, copy)
    [] OTHER             -> Armed(p, b, copy)

\* Feed keeps state and pending between calls; out holds the events of the call.
Feed(p, bytes, copy) ==
  LET after[n \in 0..Len(bytes)] == IF n = 0 THEN p ELSE Step(after[n - 1], bytes[n], copy)
  IN  FlushGround(after[Len(bytes)])

\* Only these two states are ambiguous, and timed.
PendingEscape(p) == p.mode \in {"NEsc", "AEsc"}

FlushEscapeTimeout(p, copy) ==
  InMode(CASE p.mode = "NEsc" /\ copy    -> Emitted(p, CopyKey("esc"))
           [] p.mode = "NEsc" /\ ~copy -> Emitted(p, Pane(p.pending))
           [] OTHER                      -> p, "Ground", <<>>)
=============================================================================
