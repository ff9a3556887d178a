-------------------------------- MODULE Cli --------------------------------
(***************************************************************************)
(* What a command line asks for (src/main.rs: parse_args, nested_block and *)
(* the commands' checks of names; src/control/mod.rs).  A line is a        *)
(* sequence of words, the program's name left out.  What it comes to is a  *)
(* sequence too: the command, the session it is for and its arguments, or  *)
(* one word for a refusal ("usage", "invalid", "nested").                  *)
(***************************************************************************)
EXTENDS Naturals, Sequences, SequencesExt

CONSTANTS Vocabulary,  \* words that may follow a line
          Lines,       \* what is typed
          Parents      \* what $DVLPR may be, NoParent outside of a session

VARIABLES line, parent

NoParent == "none"

\* The sessions named with an at sign in front.
At == [w \in {"@work", "@api"} |-> IF w = "@work" THEN "work" ELSE "api"]

Dashed  == {"-h", "--help", "-V", "--version", "-s", "-t", "--name", "--session",
            "--restart", "--no-restart"}
Numbers == [w \in {"0", "2"} |-> IF w = "0" THEN 0 ELSE 2]

\* validate_session_name: letters, digits, dots, dashes and underscores.
Valid(name) == name \notin DOMAIN At \cup {"", ".", ".."}

-----------------------------------------------------------------------------
(* parse_args                                                              *)

\* The flags of update: at most one of the two, as often as one likes.
UpdateFlags(words) ==
  CASE ~(words \subseteq {"--restart", "--no-restart"})  -> <<"usage">>
    [] words = {"--restart", "--no-restart"}             -> <<"usage">>
    [] words = {"--restart"}    -> <<"update", "force">>
    [] words = {"--no-restart"} -> <<"update", "skip">>
    [] words = {}               -> <<"update", "prompt">>

\* dvlpr ssh: neither word is a flag.
Ssh(rest) ==
  IF Len(rest) \in 1..2 /\ ToSet(rest) \cap Dashed = {} THEN <<"ssh">> \o rest ELSE <<"usage">>

\* A command with one flag and its value.
Flagged(rest, flag, command) ==
  IF Len(rest) = 2 /\ rest[1] = flag THEN <<command, rest[2]>> ELSE <<"usage">>

\* dvlpr server [name]
ServerOf(rest) ==
  CASE rest = <<>>    -> <<"server", "default">>
    [] Len(rest) = 1  -> <<"server", rest[1]>>
    [] OTHER          -> <<"usage">>

\* dvlpr bridge [@session], the at sign being optional.
BridgeOf(rest) ==
  CASE rest = <<>>    -> <<"bridge">>
    [] Len(rest) = 1  -> <<"bridge", IF rest[1] \in DOMAIN At THEN At[rest[1]] ELSE rest[1]>>
    [] OTHER          -> <<"usage">>

\* The first word decides; one that is no command is a session, if it is alone.
Routed(first, rest) ==
  CASE first = "server"         -> ServerOf(rest)
    [] first = "ls"             -> IF rest = <<>> THEN <<"ls">> ELSE <<"usage">>
    [] first = "new"            -> Flagged(rest, "-s", "run")
    [] first \in {"attach", "a"} -> Flagged(rest, "-t", "attach")
    [] first = "stop"           -> Flagged(rest, "-t", "stop")
    [] first = "ssh"            -> Ssh(rest)
    [] first = "bridge"         -> BridgeOf(rest)
    [] first = "update"         -> UpdateFlags(ToSet(rest))
    [] first = "version"        -> <<"usage">>
    [] OTHER                    -> IF rest = <<>> THEN <<"run", first>> ELSE <<"usage">>

Nouns == {"window", "pane", "sidebar"}

\* Help anywhere goes before the version anywhere, and that before all commands.
ParseArgs(words) ==
  LET help    == \/ ToSet(words) \cap {"-h", "--help"} # {}
                 \/ words # <<>> /\ Head(words) = "help"
      version == ~help /\ ToSet(words) \cap {"-V", "--version"} # {}
  IN  CASE help    -> <<"help">>
        [] version -> <<"version">>
        [] OTHER   -> IF words = <<>> THEN <<"run", "default">>
                      ELSE IF Head(words) \in Nouns \cup DOMAIN At THEN <<"control">>
                      ELSE Routed(Head(words), Tail(words))

-----------------------------------------------------------------------------
(* The control commands                                                    *)

\* strip_session, first pass: every --session with a word behind it is taken out with
\* that word, of which the last counts.
Stripped(words, s, i) ==
  IF s.skip THEN [rest |-> s.rest, chosen |-> <<words[i]>>, skip |-> FALSE]
  ELSE IF words[i] = "--session" /\ i < Len(words) THEN [s EXCEPT !.skip = TRUE]
  ELSE [s EXCEPT !.rest = Append(s.rest, words[i])]

Unselected(words) ==
  LET after[i \in 0..Len(words)] ==
        IF i = 0 THEN [rest |-> <<>>, chosen |-> <<>>, skip |-> FALSE]
        ELSE Stripped(words, after[i - 1], i)
  IN  after[Len(words)]

\* strip_session: a leading at sign, --session, $DVLPR, "default".
StripSession(words, inside) ==
  LET s  == Unselected(words)
      at == s.rest # <<>> /\ Head(s.rest) \in DOMAIN At
  IN  [session |-> IF at THEN At[Head(s.rest)] ELSE IF s.chosen # <<>> THEN s.chosen[1]
                   ELSE IF inside # NoParent THEN inside ELSE "default",
       rest    |-> IF at THEN Tail(s.rest) ELSE s.rest]

Plain == {<<"window", "new">>, <<"window", "close">>, <<"window", "next">>, <<"window", "prev">>,
          <<"pane", "split", "right">>, <<"pane", "split", "down">>, <<"pane", "close">>,
          <<"pane", "zoom">>, <<"sidebar", "toggle">>}

\* parse_command: a command is as good as the words it is written with.
ParseCommand(words) ==
  IF \/ words \in Plain
     \/ \E w \in ToSet(words) :
          \/ words \in {<<"window", "new", "--name", w>>, <<"window", "rename", w>>}
          \/ words = <<"window", "select", w>> /\ w \in DOMAIN Numbers /\ Numbers[w] >= 1
  THEN words ELSE <<"usage">>

\* control::run, up to the message it sends.
Control(words, inside) ==
  LET s == StripSession(words, inside)
      c == ParseCommand(s.rest)
  IN  IF c = <<"usage">> THEN c
      ELSE IF ~Valid(s.session) THEN <<"invalid">> ELSE <<"control", s.session>> \o c

-----------------------------------------------------------------------------
(* nested_block: no session is opened inside a session.                    *)
Nested(c, inside) == inside # NoParent /\ c[1] \in {"run", "attach"}

\* The commands that check the name of a session.
Checked(c) ==
  CASE c[1] \in {"run", "attach", "stop", "server"} -> ~Valid(c[2])
    [] c[1] = "bridge" -> Len(c) = 2 /\ ~Valid(c[2])
    [] c[1] = "ssh"    -> Len(c) = 3 /\ ~Valid(c[3])
    [] OTHER           -> FALSE

Outcome(words, inside) ==
  LET c == ParseArgs(words)
  IN  IF c = <<"control">> THEN Control(words, inside)
      ELSE IF Nested(c, inside) THEN <<"nested">>
      ELSE IF Checked(c) THEN <<"invalid">> ELSE c

Init == line \in Lines /\ parent \in Parents

\* A daemon tells its panes its own name, which was checked when it was given.
LinesTyped == Lines \subseteq Seq(STRING) /\ Vocabulary \subseteq STRING /\ \A p \in Parents : Valid(p)

-----------------------------------------------------------------------------
(* What the help and the manual say                                        *)

\* COMMAND_ROWS, and the flags of update.
CommandRows(name) ==
  {<<<<>>, <<"run", "default">>>>, <<<<name>>, <<"run", name>>>>,
   <<<<"new", "-s", name>>, <<"run", name>>>>,
   <<<<"attach", "-t", name>>, <<"attach", name>>>>, <<<<"a", "-t", name>>, <<"attach", name>>>>,
   <<<<"ls">>, <<"ls">>>>, <<<<"stop", "-t", name>>, <<"stop", name>>>>,
   <<<<"ssh", "host">>, <<"ssh", "host">>>>, <<<<"ssh", "host", name>>, <<"ssh", "host", name>>>>,
   <<<<"bridge">>, <<"bridge">>>>,
   <<<<"server">>, <<"server", "default">>>>, <<<<"server", name>>, <<"server", name>>>>,
   <<<<"update">>, <<"update", "prompt">>>>, <<<<"update", "--restart">>, <<"update", "force">>>>,
   <<<<"update", "--no-restart">>, <<"update", "skip">>>>,
   <<<<"--version">>, <<"version">>>>, <<<<"-V">>, <<"version">>>>}
  \cup {<<<<"bridge", w>>, <<"bridge", At[w]>>>> : w \in DOMAIN At}

HelpFlagRow == {<<<<w>>, <<"help">>>> : w \in {"-h", "--help", "help"}}

\* USAGE of the control commands.
Usage == Plain \cup {<<"window", "new", "--name", "logs">>, <<"window", "rename", "logs">>,
                     <<"window", "select", "2">>}

\* A leading @name, or a trailing --session NAME, or neither (README, "Session
\* targeting": "@name / --session > $DVLPR > default").
ControlRows(inside) ==
  UNION {{<<u, <<"control", IF inside = NoParent THEN "default" ELSE inside>> \o u>>}
         \cup {<<<<w>> \o u, <<"control", At[w]>> \o u>> : w \in DOMAIN At}
         \cup {<<u \o <<"--session", At[w]>>, <<"control", At[w]>> \o u>> : w \in DOMAIN At}
         \cup {<<<<w>> \o u \o <<"--session", "work">>, <<"control", At[w]>> \o u>> : w \in DOMAIN At}
         : u \in Usage}

Documented(inside) ==
  (UNION {CommandRows(n) : n \in {"work", "api"}}) \cup HelpFlagRow \cup ControlRows(inside)

\* Every line that the help or the manual shows does what it says there, except that
\* no session is opened from inside one (nested_block).
AsDocumented ==
  \A row \in Documented(parent) :
    row[1] = line => Outcome(line, parent) = IF Nested(row[2], parent) THEN <<"nested">> ELSE row[2]

\* Where a word more makes no difference: help and version are asked for anywhere,
\* and a flag of update may be repeated.
Insensitive(c) == c[1] \in {"help", "version", "update", "usage", "invalid", "nested"}

\* A word too many is never ignored (comment of parse_args: "extra positional junk is a
\* usage error rather than a silently-ignored typo"); to name the default is no junk.
NothingIgnored ==
  LET c == Outcome(line, parent)
  IN  Insensitive(c) \/ \A w \in Vocabulary \ {"default"} : Outcome(Append(line, w), parent) # c

\* A command reaches the session that is named in front of it, or else one that is named
\* behind its flag, and the one it is typed in or the default only if none is named.
ReachesWhatWasNamed ==
  LET c     == Outcome(line, parent)
      flag  == IF c[1] = "control" THEN "--session" ELSE "-t"
      named == {line[i] : i \in {j \in 2..Len(line) : line[j - 1] = flag}}
  IN  c[1] \in {"control", "attach", "stop"} =>
        IF Head(line) \in DOMAIN At THEN c[2] = At[Head(line)]
        ELSE IF named # {} THEN c[2] \in named
        ELSE c[1] = "control" /\ c[2] = (IF parent = NoParent THEN "default" ELSE parent)

CliIsTrue == AsDocumented /\ NothingIgnored /\ ReachesWhatWasNamed
=============================================================================
