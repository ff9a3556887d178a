------------------------------- MODULE Names -------------------------------
(***************************************************************************)
(* What the daemon calls the things it shows: the name of a window in the  *)
(* tab bar, and the label and the branch of an agent in the sidebar        *)
(* (src/session.rs: refresh_window_names, set_window_name,                 *)
(* refresh_agent_meta; src/procinfo: friendly_name, parse_procargs2;       *)
(* src/agent_meta).  The three are read off a moving world by polling:     *)
(* processes start and end, transcripts grow, branches are checked out,    *)
(* and any one reading may fail.  One window, all of whose panes count.    *)
(*                                                                         *)
(* A word of a command line is a record: what it is to the program that    *)
(* reads it ("word", "flag", an exact "eval" flag, a "bundle" of flags     *)
(* with one of these among them, "source", "env"), the last part of its    *)
(* path, and whether that ends like a JavaScript file.  No word is empty.  *)
(***************************************************************************)
EXTENDS Detect

CONSTANTS Panes,
          Programs,   \* the command lines processes are started with
          Startup,    \* the one each pane starts with
          UserNames,  \* the names a user gives to windows
          PlaceOf,    \* the working directory of each pane
          Beginnings, \* what the transcripts of pane 1's directory may hold at first
          LinesOf,    \* what an agent may write
          Heads,      \* what HEAD may say
          Cap, Ends,  \* JSONL_READ_CAP and JSONL_HEAD_TAIL_KIB, in cells
          Limit,      \* ANCESTOR_LIMIT
          Interval,   \* ticks between two refreshes of an agent's label
          MaxEdits    \* bound on what happens around the daemon

VARIABLES cmd,        \* the command line in front of each pane
          osc,        \* the title each pane has set, or None
          logs,       \* per pane, the transcripts of its directory, the newest last
          head,       \* what the HEAD of each git directory says
          focus,      \* the focused pane of the window
          name, pinned,
          meta,       \* per pane: agent, label, branch, ticks since they were read
          edits, given, named, still  \* auxiliary, see below

worldVars == <<cmd, osc, logs, head>>
shownVars == <<focus, name, pinned, meta>>
nameVars  == <<worldVars, shownVars, edits, given, named, still>>

-----------------------------------------------------------------------------
(* Command lines                                                           *)

Runtimes == {"node", "python", "python3", "ruby", "deno", "bun"}

Nul == [is |-> "nul", base |-> "", js |-> FALSE]
Env == [is |-> "env", base |-> "PATH", js |-> FALSE]

\* What sysctl answers: the path of the program, padding, the words, and the
\* environment behind them.
Procargs(args) ==
  LET words == Append(args, Env)
  IN  <<args[1], Nul, Nul>> \o [i \in 1..2 * Len(words) |->
        IF i % 2 = 1 THEN words[(i + 1) \div 2] ELSE Nul]

\* parse_procargs2: the words behind the padding, each a cell and its end, as many
\* as the count says and as there are.
ParseWords(argc, buf) ==
  LET first == Min({i \in 2..Len(buf) : buf[i] # Nul})
  IN  [k \in 1..Min({argc, (Len(buf) - first) \div 2 + 1}) |-> buf[first + 2 * (k - 1)]]

ArgvOf(args) == ParseWords(Len(args), Procargs(args))

\* friendly_name: a runtime goes by the script it runs, the first argument that is
\* no flag; by its own name when one of the flags before says that code follows.
FriendlyName(args) ==
  LET stops == {i \in 2..Len(args) : args[i].is \notin {"flag", "bundle"}}
  IN  IF args[1].base \in Runtimes /\ stops # {} /\ args[Min(stops)].is # "eval"
      THEN <<args[Min(stops)].base, FALSE>> ELSE <<args[1].base, args[1].js>>

ProcessName(args) == FriendlyName(ArgvOf(args))

AgentIn(args) ==
  IF ProcessName(args)[2] THEN None ELSE AgentFor(ProcessName(args)[1])

\* initial_window_name
InitialName(args) == <<args[1].base, args[1].js>>

-----------------------------------------------------------------------------
(* Labels.  A transcript is a record of its id and its lines, a line one   *)
(* of its kind and its size in cells; a label says which line it is of, 0  *)
(* for the tail of the id.                                                 *)

NoLabel == [id |-> 0, line |-> 0]

EncodeCwd(path) == [i \in DOMAIN path |-> IF path[i] = "/" THEN "-" ELSE path[i]]

SizeTo(lines, n) == FoldFunctionOnSet(+, 0, [i \in DOMAIN lines |-> lines[i].size], 1..n)

\* read_capped: the whole of a small file; of a larger one the lines that lie in
\* its first and its last cells, those that are cut being no JSON any more.
ReadCapped(lines) ==
  LET size == SizeTo(lines, Len(lines))
  IN  IF size <= Cap THEN DOMAIN lines
      ELSE {i \in DOMAIN lines : SizeTo(lines, i) <= Ends \/ SizeTo(lines, i - 1) >= size - Ends}

\* Mutant: a label follows the opening prompt.
ScanLabelOpening(lines, read) ==
  LET of(kind) == {i \in read : lines[i].kind = kind}
  IN  IF of("title") # {} THEN Min(of("title"))
      ELSE IF of("user") # {} THEN Min(of("user")) ELSE 0

\* scan_label: the first title there is, or else the last message of the user
\* that is not the harness's own.
ScanLabel(lines, read) ==
  LET of(kind) == {i \in read : lines[i].kind = kind}
  IN  IF of("title") # {} THEN Min(of("title"))
      ELSE IF of("user") # {} THEN Max(of("user")) ELSE 0

UuidTail(id) == [id |-> id, line |-> 0]

\* session_label: of the newest transcript in the directory named after the
\* working directory, if that is the one Claude writes to.
SessionLabel(path, files) ==
  IF EncodeCwd(path) # ProjectDirname(path) \/ files = <<>> THEN NoLabel
  ELSE LET f    == Last(files)
           line == ScanLabel(f.lines, ReadCapped(f.lines))
       IN  IF line = 0 THEN UuidTail(f.id) ELSE [id |-> f.id, line |-> line]

\* The title an agent sets goes before what it writes.
LabelOf(agent, title, path, files) ==
  IF title # None THEN [id |-> 0, line |-> 1]
  ELSE IF agent = "claude" THEN SessionLabel(path, files) ELSE NoLabel

-----------------------------------------------------------------------------
(* Branches.  The ancestors of a directory, itself first, each hold no     *)
(* .git, a directory, a file that points to one, or a file that does not.  *)

GitDirs == {"own", "linked"}

\* find_dot_git: the first .git on the way up decides, whatever it is.
DotGit(ancestors) ==
  LET found == {i \in 1..Min({Limit, Len(ancestors)}) : ancestors[i] # None}
  IN  IF found = {} THEN None ELSE ancestors[Min(found)]

\* parse_head: a branch, another ref or the beginning of a hash; nothing else.
ParseHead(content) == IF content = "junk" THEN None ELSE content

\* detect_branch, resolve_gitdir
DetectBranch(ancestors, heads) ==
  IF DotGit(ancestors) \in GitDirs THEN ParseHead(heads[DotGit(ancestors)]) ELSE None

-----------------------------------------------------------------------------
(* The constants: a command line begins with the program; no word ends in  *)
(* what stands for the environment, and one that is code ("source" here)   *)
(* follows the flag that says so.                                          *)

Words == [is : {"word", "flag", "eval", "bundle", "source"}, base : STRING, js : BOOLEAN]
Lines == [kind : {"title", "user", "meta", "answer"}, size : Nat]

IsCommandLine(args) ==
  /\ args # <<>> /\ args[1].is = "word"
  /\ \A i \in DOMAIN args :
       /\ args[i].base # "PATH"
       /\ args[i].base = "source" => i > 1 /\ args[i - 1].is = "eval"

ConstantsTyped ==
  /\ 1 \in Panes /\ Interval \in Nat /\ MaxEdits \in Nat
  /\ Programs \subseteq Seq(Words) /\ \A args \in Programs : IsCommandLine(args)
  /\ Startup \in [Panes -> Programs]
  /\ UserNames \cap {None, "source", "PATH"} = {}
  /\ Beginnings \subseteq Seq(Lines) /\ LinesOf \subseteq Lines
  /\ Heads # {}

-----------------------------------------------------------------------------
Unknown == [agent |-> None, of |-> <<>>, label |-> NoLabel, branch |-> None,
            since |-> Interval + 1]

Init ==
  /\ cmd = Startup
  /\ osc = [p \in Panes |-> None]
  /\ \E lines \in Beginnings :
       logs = [p \in Panes |-> IF p = 1 THEN <<[id |-> 1, lines |-> lines]>> ELSE <<>>]
  /\ head = [g \in GitDirs |-> CHOOSE h \in Heads : TRUE]
  /\ focus = 1
  /\ name = InitialName(Startup[1]) /\ pinned = FALSE
  /\ meta = [p \in Panes |-> Unknown]
  /\ edits = 0 /\ given = None /\ named = FALSE /\ still = 0

(* The surroundings.  `edits` counts what happens in them; `still` counts  *)
(* the good ticks since; `named` says that the name was read since.        *)

Stirred == /\ edits < MaxEdits
           /\ edits' = edits + 1
           /\ still' = 0 /\ named' = FALSE
           /\ UNCHANGED <<pinned, meta, given>>

Exec(p, args) ==
  /\ Stirred /\ args # cmd[p]
  /\ cmd' = [cmd EXCEPT ![p] = args]
  /\ UNCHANGED <<osc, logs, head, focus, name>>

SetTitle(p, t) ==
  /\ Stirred /\ t # osc[p]
  /\ osc' = [osc EXCEPT ![p] = t]
  /\ UNCHANGED <<cmd, logs, head, focus, name>>

\* An agent goes on with one of the transcripts of the directory, or begins one.
Say(p, i, line) ==
  /\ Stirred /\ i \in DOMAIN logs[p]
  /\ LET grown == [logs[p][i] EXCEPT !.lines = Append(@, line)]
     IN  logs' = [logs EXCEPT ![p] = Append(RemoveAt(@, i), grown)]
  /\ UNCHANGED <<cmd, osc, head, focus, name>>

Begin(p) ==
  /\ Stirred
  /\ logs' = [logs EXCEPT ![p] = Append(@, [id |-> Len(@) + 1, lines |-> <<>>])]
  /\ UNCHANGED <<cmd, osc, head, focus, name>>

Checkout(g, h) ==
  /\ Stirred /\ h # head[g]
  /\ head' = [head EXCEPT ![g] = h]
  /\ UNCHANGED <<cmd, osc, logs, focus, name>>

-----------------------------------------------------------------------------
(* The name of the window                                                  *)

\* refresh_window_names: a name the user gave stays; when the process cannot be
\* read the name stays too.
Refreshed(on, pin, old, read) == IF pin \/ ~read THEN old ELSE ProcessName(cmd[on])

NameTick(read) ==
  /\ name' = Refreshed(focus, pinned, name, read)
  /\ named' = (named \/ read)
  /\ UNCHANGED <<worldVars, focus, pinned, meta, edits, given, still>>

\* Every command that moves the focus ends in a refresh of the names.
Select(p, read) ==
  /\ Stirred /\ p # focus
  /\ focus' = p
  /\ name' = Refreshed(p, pinned, name, read)
  /\ UNCHANGED worldVars

\* set_window_name: a name pins, no name unpins and refreshes.
Rename(n, read) ==
  /\ edits < MaxEdits /\ edits' = edits + 1
  /\ pinned' = (n # None) /\ given' = n
  /\ name' = IF n # None THEN <<n, FALSE>> ELSE Refreshed(focus, FALSE, name, read)
  /\ named' = (n = None /\ read)
  /\ UNCHANGED <<worldVars, focus, meta, still>>

-----------------------------------------------------------------------------
(* The agent tick.  What may go wrong with a pane in it: its foreground    *)
(* process is not to be had ("lost"), or the name ("unnamed") or the       *)
(* directory ("nowhere") of that process.                                  *)

Faults == {None, "lost", "unnamed", "nowhere"}

\* refresh_agent_states, as far as it says which agent there is: a process known
\* from the last tick is not looked up again.
Identified(p, fault) ==
  LET m == meta[p]
  IN  CASE fault = "lost" -> [m EXCEPT !.agent = None, !.of = <<>>]
        [] fault # "lost" /\ m.of = cmd[p] -> m
        [] fault = "unnamed" /\ m.of # cmd[p] -> [m EXCEPT !.agent = None, !.of = <<>>]
        [] OTHER -> [m EXCEPT !.agent = AgentIn(cmd[p]), !.of = cmd[p]]

\* refresh_agent_meta: of agents only, and not before the interval is over, which
\* begins anew even if nothing can be read.
MetaRead(p, m, fault, early) ==
  IF m.agent = None \/ m.since < Interval \/ (early /\ m.since = Interval) THEN m
  ELSE IF fault = "nowhere" THEN [m EXCEPT !.since = 0]
  ELSE [m EXCEPT !.since = 0,
                 !.branch = DetectBranch(PlaceOf[p].ancestors, head),
                 !.label  = LabelOf(m.agent, osc[p], PlaceOf[p].path, logs[p])]

Later(m) == [m EXCEPT !.since = Min({@ + 1, Interval + 1})]

\* A tick of 500 ms may find the interval of 2 s not quite over (`early`).
AgentTick(p, fault, early) ==
  LET faultOf(q) == IF p = q THEN fault ELSE None
  IN  /\ meta' = [q \in Panes |-> MetaRead(q, Later(Identified(q, faultOf(q))), faultOf(q), early)]
      /\ still' = IF fault = None THEN Min({still + 1, Interval + 1}) ELSE 0
      /\ UNCHANGED <<worldVars, focus, name, pinned, edits, given, named>>

\* agent_entries: the sidebar has a row for every pane with an agent in it.
AgentEntries == {p \in Panes : meta[p].agent # None}

-----------------------------------------------------------------------------
World ==
  \/ \E p \in Panes, args \in Programs : Exec(p, args)
  \/ \E p \in Panes, t \in {None, "title"} : SetTitle(p, t)
  \/ \E p \in Panes, line \in LinesOf : \E i \in DOMAIN logs[p] : Say(p, i, line)
  \/ \E p \in Panes : Begin(p)
  \/ \E g \in GitDirs, h \in Heads : Checkout(g, h)

Named ==
  \E read \in BOOLEAN :
    \/ NameTick(read)
    \/ \E p \in Panes : Select(p, read)
    \/ \E n \in UserNames \cup {None} : Rename(n, read)

Watched == \E p \in Panes :
  \/ \E fault \in Faults : AgentTick(p, fault, FALSE)
  \/ AgentTick(p, None, TRUE)

Next == World \/ Named \/ Watched

Spec == Init /\ [][Next]_nameVars

-----------------------------------------------------------------------------
(* Properties                                                              *)

\* The name is the one the user gave, or that of the program in the focused pane;
\* inline code never becomes a name (comment of friendly_name), except behind a
\* bundle of flags, which is not recognised: its code is a word of its own here.
NameTrue ==
  /\ pinned = (given # None)
  /\ pinned => name = <<given, FALSE>>
  /\ named /\ ~pinned => name = FriendlyName(cmd[focus])
  /\ name[1] \notin {"source", "PATH"}

\* What the newest transcript of the directory is called when all of it counts:
\* by the last title, or else by the last thing the user said.
TrueLine(lines) ==
  LET of(kind) == {i \in DOMAIN lines : lines[i].kind = kind}
  IN  IF of("title") # {} THEN Max(of("title"))
      ELSE IF of("user") # {} THEN Max(of("user")) ELSE 0

\* Where the label is known to be another one: after a second title, when the line
\* it should name lies in the part that is not read, in a directory with a dot.
Mistaken(p) ==
  LET lines == Last(logs[p]).lines
  IN  \/ EncodeCwd(PlaceOf[p].path) # ProjectDirname(PlaceOf[p].path)
      \/ \E i, j \in DOMAIN lines : i # j /\ lines[i].kind = "title" /\ lines[j].kind = "title"
      \/ TrueLine(lines) \notin ReadCapped(lines) \cup {0}

\* Once nothing has changed for the interval and a tick, whatever happened and
\* failed before, a row of the sidebar tells of the agent that runs: not of the
\* one before it in the pane, nor of an earlier transcript, title or branch.
RowsTrue ==
  \A p \in AgentEntries :
    still > Interval =>
      /\ meta[p].agent = AgentIn(cmd[p])
      /\ meta[p].branch = DetectBranch(PlaceOf[p].ancestors, head)
      /\ osc[p] # None => meta[p].label = [id |-> 0, line |-> 1]
      /\ osc[p] = None /\ meta[p].agent = "claude" /\ logs[p] # <<>> /\ ~Mistaken(p) =>
           meta[p].label = [id |-> Last(logs[p]).id, line |-> TrueLine(Last(logs[p]).lines)]

\* No row is ever named after what the harness wrote in the user's name, nor
\* after an answer (comment of is_meta_user_content).
NoNoise ==
  \A p \in Panes : \A i \in DOMAIN logs[p] :
    LET l == meta[p].label
    IN  l.id = logs[p][i].id /\ l.line # 0 =>
          logs[p][i].lines[l.line].kind \in {"title", "user"}

TypeOK ==
  /\ cmd \in [Panes -> Programs] /\ focus \in Panes /\ head \in [GitDirs -> Heads]
  /\ \A p \in Panes : meta[p].since \in 0..Interval + 1 /\ meta[p].branch \in Heads \cup {None}

\* What the tab bar and the sidebar show is true.
ShownIsTrue == TypeOK /\ NameTrue /\ RowsTrue /\ NoNoise
=============================================================================
