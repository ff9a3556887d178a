------------------------------ MODULE MCFrame -------------------------------
EXTENDS FrameProps, SnapshotProps

Area(w, h) == [x |-> 0, y |-> 0, w |-> w, h |-> h]

Small == {Area(11, 7), Area(1, 0)}
Few   == {1, 3}

ItemsOf == [pane |-> 4, tab |-> 2]
LabelOf == [pane |-> 4, tab |-> 2]
RowsOf  == [keys |-> 4, commands |-> 3]
ChipOf  == [keys |-> 1, commands |-> 1]

Plain == [overlay |-> "none", wide |-> FALSE, sidebar |-> FALSE, zoomed |-> FALSE,
          focused |-> 1, names |-> <<1>>, active |-> 1, agents |-> <<>>,
          menu |-> None, help |-> [tab |-> "keys", scroll |-> 0], typed |-> 0, at |-> <<0, 0>>]

Bars == {[Plain EXCEPT !.names = n, !.active = a, !.zoomed = z, !.wide = w, !.sidebar = w, !.agents = g] :
           n \in {<<1, 1>>, <<2, 1>>}, a \in {1, 2}, z \in BOOLEAN, w \in BOOLEAN,
           g \in {<<>>, <<[window |-> 1, pane |-> 1], [window |-> 2, pane |-> 9]>>}}
Menus == {[Plain EXCEPT !.overlay = "menu", !.menu = [kind |-> k, at |-> <<x, y>>], !.wide = w, !.sidebar = w] :
           k \in {"pane", "tab"}, x \in {1, 5, 11}, y \in {1, 4, 8}, w \in BOOLEAN}
Helps == {[Plain EXCEPT !.overlay = "help", !.help = [tab |-> t, scroll |-> k]] :
           t \in {"keys", "commands"}, k \in {0, 2}}
Dialogs == {[Plain EXCEPT !.overlay = "dialog", !.typed = d] : d \in {0, 1, 6}}
Copies  == {[Plain EXCEPT !.overlay = "copy", !.zoomed = z, !.focused = p] : z \in BOOLEAN, p \in {1, 2}}

AShell == [id |-> "none", transcript |-> "none"]
ClaudeAt(t) == [id |-> "a", transcript |-> t]
Panes(p1, p2, rest) == [p \in 1..MaxPanes + 1 |-> CASE p = 1 -> p1 [] p = 2 -> p2 [] OTHER -> rest]
Disk(d, t) == [dirs |-> {"home"} \cup d, transcripts |-> t, uuids |-> {"a", "b"}]
InHome(a) == [cwd |-> "home", agent |-> a]
InWork(a) == [cwd |-> "work", agent |-> a]
LostAndKept ==
  {[panes |-> Panes(InWork(ClaudeAt("t1")), InHome(ClaudeAt("t2")), InWork(AShell)), disk |-> Disk(d, t)] :
     d \in {{}, {"work"}}, t \in {{"t1"}, {"t1", "t2"}}}
  \cup {[panes |-> Panes(InWork(AShell), InHome([id |-> "no uuid", transcript |-> "t1"]), InHome(AShell)),
         disk |-> Disk({}, {"t1"})]}

AllScenes == Bars \cup Menus \cup Helps \cup Dialogs \cup Copies
=============================================================================
