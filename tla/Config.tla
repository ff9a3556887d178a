------------------------------- MODULE Config -------------------------------
(***************************************************************************)
(* The configuration and the keys it binds (src/config/mod.rs; the part of *)
(* src/input/mod.rs that asks it; src/help/mod.rs: build_view).  Bytes and *)
(* characters are numbers.  What a file says of a key is an entry: absent, *)
(* bad (no key at all), a character, a control combination or an arrow.    *)
(***************************************************************************)
EXTENDS Naturals, Sequences, SequencesExt, FiniteSetsExt

CONSTANT Files   \* what may be found at the two places of the file

VARIABLE config  \* what the daemon loaded, once, when it started

Esc == 27
Digits == 48..57
UpperCase == 65..90
LowerCase == 97..122

Entry(kind, of) == [kind |-> kind, of |-> of]
Char(c)  == Entry("char", c)
Ctrl(c)  == Entry("ctrl", c)
Arrow(a) == Entry("named", a)
Absent   == Entry("absent", 0)
Bad      == Entry("bad", 0)

\* Up, Down, Right, Left, as the last bytes of their sequences.
ArrowBytes == <<65, 66, 67, 68>>

Default ==
  [prefix |-> Ctrl(98),
   split_horizontal |-> Arrow(2), split_vertical |-> Arrow(3), close_pane |-> Char(120),
   new_window |-> Char(99), next_window |-> Char(110), prev_window |-> Char(112),
   detach |-> Char(100), help |-> Char(63), toggle_sidebar |-> Char(115),
   copy_mode |-> Char(91)]

\* The commands of the keymap, in the order of resolve.
CommandOf ==
  <<<<"split_horizontal", "SplitHorizontal">>, <<"split_vertical", "SplitVertical">>,
    <<"close_pane", "ClosePane">>, <<"new_window", "OpenNewWindowDialog">>,
    <<"next_window", "NextWindow">>, <<"prev_window", "PrevWindow">>,
    <<"detach", "Detach">>, <<"help", "ShowHelp">>, <<"toggle_sidebar", "ToggleSidebar">>,
    <<"copy_mode", "EnterCopyMode">>>>

\* What a file may say: of every key an entry, unless it is not read as a table.
Entries == {e \in [kind : {"char", "ctrl", "named", "absent", "bad"}, of : Nat] :
              e.kind = "named" => e.of \in 1..4}
FileKinds ==
  [state : {"missing", "unreadable", "malformed"}]
  \cup [state : {"read"}, entries : [DOMAIN Default -> Entries]]
FilesTyped == Files \subseteq Seq(FileKinds)

-----------------------------------------------------------------------------
(* Loading                                                                 *)

\* KeySpec::from_str: a control combination is of a letter, whose case is dropped, and
\* a character is an ASCII one.
Parses(e) == CASE e.kind = "ctrl"  -> e.of \in UpperCase \cup LowerCase
               [] e.kind = "char"  -> e.of < 128
               [] OTHER            -> e.kind = "named"
Parsed(e) == IF e.kind = "ctrl" /\ e.of \in UpperCase THEN Ctrl(e.of + 32) ELSE e

SpecOrDefault(e, default) == IF Parses(e) THEN Parsed(e) ELSE default

\* from_toml_str: a file that is no TOML counts for nothing.
FromToml(file) ==
  IF file.state = "malformed" THEN Default
  ELSE [f \in DOMAIN Default |-> SpecOrDefault(file.entries[f], Default[f])]

\* load: the first file that is there decides, even if it cannot be read.
Load(files) ==
  LET there == {i \in DOMAIN files : files[i].state # "missing"}
      first == files[Min(there)]
  IN  IF there = {} THEN Default
      ELSE IF first.state = "unreadable" THEN Default ELSE FromToml(first)

-----------------------------------------------------------------------------
(* The keymap                                                              *)

CtrlByte(c) == c % 32

\* A key is a byte or an arrow.
KeyOf(spec) == CASE spec.kind = "char"  -> [byte |-> TRUE, is |-> spec.of]
                 [] spec.kind = "ctrl"  -> [byte |-> TRUE, is |-> CtrlByte(spec.of)]
                 [] spec.kind = "named" -> [byte |-> FALSE, is |-> spec.of]
Byte(b)  == [byte |-> TRUE, is |-> b]
Named(a) == [byte |-> FALSE, is |-> a]

Matches(spec, key) == KeyOf(spec) = key

Resolve(c, key) ==
  LET bound == {i \in DOMAIN CommandOf : Matches(c[CommandOf[i][1]], key)}
  IN  IF bound = {} THEN <<>> ELSE <<CommandOf[Min(bound)][2]>>

SelectWindow == <<"1", "2", "3", "4", "5", "6", "7", "8", "9">>

\* resolve_key: what one key after the prefix does.
ResolveKey(c, key) ==
  CASE Matches(c.prefix, key)   -> <<"literal prefix">>
    [] ~Matches(c.prefix, key) /\ Resolve(c, key) # <<>> -> Resolve(c, key)
    [] OTHER -> IF ~key.byte \/ key.is \notin Digits THEN <<>>
                ELSE IF key.is = 48 THEN <<"ToggleZoom">>
                ELSE <<SelectWindow[key.is - 48]>>

\* The arrow a last byte stands for.  Mutant: right and left the other way about.
NamedSwapped(b) == {a \in 1..4 : ArrowBytes[a] = (IF b < 67 THEN b ELSE 135 - b)}
NamedOf(b)      == {a \in 1..4 : ArrowBytes[a] = b}

\* The states of the parser from the prefix on, reports of focus left to module Input:
\* a byte, or an arrow in one of its two encodings.
Armed(c, p, b) ==
  CASE p.mode = "Ground" -> IF Matches(c.prefix, Byte(b)) THEN [p EXCEPT !.mode = "Armed"]
                            ELSE [p EXCEPT !.out = Append(@, "to the pane")]
    [] p.mode = "Armed"  -> IF b = Esc THEN [p EXCEPT !.mode = "AEsc"]
                            ELSE [mode |-> "Ground", out |-> p.out \o ResolveKey(c, Byte(b))]
    [] p.mode = "AEsc"   -> IF b = 91 THEN [p EXCEPT !.mode = "ACsi"]
                            ELSE IF b = 79 THEN [p EXCEPT !.mode = "ASs3"]
                            ELSE [mode |-> "Ground", out |-> Append(p.out, "to the pane")]
    [] p.mode \in {"ACsi", "ASs3"} ->
         [mode |-> "Ground",
          out |-> p.out \o (IF NamedOf(b) = {} THEN <<>>
                            ELSE ResolveKey(c, Named(CHOOSE a \in NamedOf(b) : TRUE)))]

Typed(c, bytes) ==
  LET after[i \in 0..Len(bytes)] ==
        IF i = 0 THEN [mode |-> "Ground", out |-> <<>>] ELSE Armed(c, after[i - 1], bytes[i])
  IN  after[Len(bytes)].out

-----------------------------------------------------------------------------
(* Help                                                                    *)

\* build_view: the rows with a key of the keymap; copy mode has none.
HelpFields == <<"split_vertical", "split_horizontal", "close_pane", "new_window",
                "next_window", "prev_window", "detach", "help", "toggle_sidebar">>

\* What a terminal sends for a key as help shows it, in either encoding of an arrow.
Sends(spec) ==
  IF spec.kind = "named" THEN {<<Esc, intro, ArrowBytes[spec.of]>> : intro \in {91, 79}}
  ELSE {<<KeyOf(spec).is>>}

HelpRows(c) == {<<c[HelpFields[i]], HelpFields[i]>> : i \in DOMAIN HelpFields}
LitRows     == {<<Char(48), "ToggleZoom">>} \cup {<<Char(48 + n), SelectWindow[n]>> : n \in 1..9}

-----------------------------------------------------------------------------
(* What is asked of it                                                     *)

Init == config \in {Load(files) : files \in Files}

\* A key that the prefix takes, or a command before the row's in resolve, is not the
\* row's; nor is Escape, which begins an arrow.
Taken(field, key) ==
  \/ Matches(config.prefix, key) \/ key = Byte(Esc)
  \/ Resolve(config, key) \notin {<<>>} \cup {<<CommandOf[i][2]>> : i \in {i \in DOMAIN CommandOf : CommandOf[i][1] = field}}

\* Only a byte arms the parser.
Arms == config.prefix.kind # "named" /\ KeyOf(config.prefix) # Byte(Esc)

CommandFor(row) == LET named == {i \in DOMAIN CommandOf : CommandOf[i][1] = row[2]}
                   IN  IF named = {} THEN row[2] ELSE CommandOf[Min(named)][2]

\* Whatever the files say, and whichever of their entries are bad, the key that help
\* shows for a command does that command when it is typed after the prefix, in either
\* encoding of an arrow, unless the loaded keys contradict each other there ("rendered
\* from `prefix`/`keys` so a user's rebinds show", "These literals MUST stay in sync").
HelpIsTrue ==
  Arms => \A row \in HelpRows(config) \cup LitRows :
    \/ Taken(row[2], KeyOf(row[1]))
    \/ \A pre \in Sends(config.prefix), keys \in Sends(row[1]) :
         Typed(config, pre \o keys) = <<CommandFor(row)>>
=============================================================================
