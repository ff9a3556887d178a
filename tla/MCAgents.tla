------------------------------ MODULE MCAgents ------------------------------
(* Instances for TLC of what goes on in panes: of Agents, with two panes in  *)
(* one directory and a screen for each answer of the classifier; of Pty,     *)
(* with one pane; of Names, with two panes of one window.  The three are     *)
(* checked side by side: a behaviour is of one of them (part), and the       *)
(* variables of the others stand still.                                      *)
EXTENDS Agents

CONSTANTS Ids, MaxSaid, MaxTyped,
          Programs, Startup, UserNames, PlaceOf, Beginnings, LinesOf, Heads,
          Cap, Ends, Limit, Interval, MaxEdits

\* next_pane_id counts from 1.
ASSUME IdsAssumption == Ids \subseteq Nat \ {0}

VARIABLES part, tty, child, said, input, output, reader, chan, events, writing,
          panes, fed, closing, typed, cmd, osc, logs, head, focus, name, pinned,
          meta, edits, given, named, still

P == INSTANCE Pty
N == INSTANCE Names

ASSUME NamesAssumption == N!ConstantsTyped

paneVars == <<tty, child, said, input, output, reader, chan, events, writing,
              panes, fed, closing, typed>>
nameVars == <<cmd, osc, logs, head, focus, name, pinned, meta, edits, given, named, still>>
SumVars  == <<part, vars, paneVars, nameVars>>

\* The parts a behaviour is not of are in one state of theirs.
SumInit ==
  /\ part \in {"agents", "pty", "names"} /\ Init /\ P!Init /\ N!Init
  /\ part # "agents" => front = 1 /\ disk = {}
  /\ part # "names" => logs[1][1].lines = <<>>
SumNext ==
  \/ part = "agents" /\ Next /\ UNCHANGED <<part, paneVars, nameVars>>
  \/ part = "pty" /\ P!Next /\ UNCHANGED <<part, vars, nameVars>>
  \/ part = "names" /\ N!Next /\ UNCHANGED <<part, vars, paneVars>>

SumSpec == SumInit /\ [][SumNext]_SumVars /\ WF_vars(Tick)

ExitIsLast  == P!ExitIsLast
NoStandoff  == P!NoStandoff
ShownIsTrue == N!ShownIsTrue

-----------------------------------------------------------------------------

TwoPanes  == {1, 2}
OneDir    == [p \in TwoPanes |-> <<"/", "a", ".", "b">>]
OnlyTwo   == {2}
Claude    == {"claude"}
Two       == {"claude", "codex"}

Waiting   == <<{"rule"}, {"prompt"}, {"rule"}>>
Streaming == <<{"rule"}, {"prompt"}, {"rule"}, {"verb"}>>
Asking    == <<{"want"}, {"choice", "yes"}>>
Three     == {Waiting, Streaming, Asking}
Sides     == {Waiting, Streaming}

OneId     == {1}

Word(b)   == [is |-> "word", base |-> b, js |-> FALSE]
Node      == Word("node")
ClaudeJs  == [Word("claude") EXCEPT !.js = TRUE]
Code(b)   == [Word(b) EXCEPT !.is = "source"]
Mark(is)  == [is |-> is, base |-> "-", js |-> FALSE]
Commands  == {<<Node, Mark("flag"), ClaudeJs>>, <<Node, Mark("flag")>>,
              <<Node, Mark("eval"), Code("source")>>, <<Word("codex")>>,
              <<Node, Mark("bundle"), Code("bundled")>>}
OneName   == {"mine"}
TwoPlaces == [p \in TwoPanes |->
                IF p = 1 THEN [path |-> <<"/", "a">>, ancestors |-> <<None, "own", "linked">>]
                         ELSE [path |-> <<"/", ".", "b">>, ancestors |-> <<"linked", "own">>]]
Line(k)   == [kind |-> k, size |-> 1]
SomeLines == {Line("title"), Line("user"), Line("meta"), [Line("answer") EXCEPT !.size = 2]}
Openings  == {<<>>, <<Line("title"), Line("user")>>,
              <<Line("user"), [Line("answer") EXCEPT !.size = 2]>>}
AtFirst   == [p \in TwoPanes |-> IF p = 1 THEN <<Node, Mark("flag"), ClaudeJs>> ELSE <<Node, Mark("flag")>>]
TwoHeads  == {"main", "junk"}
=============================================================================
