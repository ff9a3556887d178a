------------------------------- MODULE Detect -------------------------------
(***************************************************************************)
(* What the daemon reads off a pane to tell which agent runs in it, what   *)
(* it is doing, and which transcript is its own (src/detect, src/procinfo, *)
(* assign_transcripts in src/session.rs).  Pure operators.                 *)
(*                                                                         *)
(* A screen is a sequence of lines, a line the set of marks found in it:   *)
(* "rule" (a row of box drawing only), "prompt" (begins with the cursor),  *)
(* "choice" (the cursor before a number and a dot), "tokens" (the          *)
(* throughput footer), "verb" (a spinner verb with an ellipsis),           *)
(* "interrupt", "want", "like" (the two openings of a question), "yes",    *)
(* "dialog" (a phrase only a dialog has), "search" (a prompt of the        *)
(* scrollback browser); for Codex "approval", "confirm", "cancel", "menu". *)
(***************************************************************************)
EXTENDS Integers, Sequences, FiniteSets, FiniteSetsExt, SequencesExt

None == "none"

AgentFor(name) == IF name \in {"claude", "codex"} THEN name ELSE None

-----------------------------------------------------------------------------
(* Screens                                                                 *)

Shows(screen, mark)     == \E i \in DOMAIN screen : mark \in screen[i]
ShowsIn(screen, is, ms) == \E i \in is : screen[i] \cap ms # {}

\* active_input_box: the lines between the last two rules, if one of them
\* begins with the cursor; no box otherwise.
InputBox(screen) ==
  LET rules == {i \in DOMAIN screen : "rule" \in screen[i]}
      bot   == Max(rules)
      box   == Max(rules \ {bot}) + 1 .. bot - 1
  IN  IF Cardinality(rules) >= 2 /\ ShowsIn(screen, box, {"prompt"})
      THEN box ELSE {}

Outside(screen) == DOMAIN screen \ InputBox(screen)

\* has_confirmation_prompt: the first "do you want", or for want of any the
\* first "would you like", with a yes behind it or a yes or a cursor
\* on a line below.
ConfirmationPrompt(screen) ==
  LET at(mark) == {i \in DOMAIN screen : mark \in screen[i]}
      asked    == IF at("want") # {} THEN at("want") ELSE at("like")
  IN  /\ asked # {}
      /\ \/ "yes" \in screen[Min(asked)]
         \/ ShowsIn(screen, Min(asked) + 1 .. Len(screen), {"yes", "prompt", "choice"})

\* The numbered menu counts only while no input box is on the screen.
ClaudeBlocked(screen) ==
  \/ ConfirmationPrompt(screen)
  \/ Shows(screen, "dialog")
  \/ InputBox(screen) = {} /\ Shows(screen, "choice")

ClassifyClaude(screen) ==
  IF Shows(screen, "search") THEN "idle"
  ELSE IF ShowsIn(screen, Outside(screen), {"tokens"}) THEN "working"
  ELSE IF ClaudeBlocked(screen) THEN "blocked"
  ELSE IF ShowsIn(screen, Outside(screen), {"interrupt", "verb"}) THEN "working"
  ELSE "idle"

CodexBlocked(screen) ==
  \/ Shows(screen, "approval")
  \/ Shows(screen, "confirm") /\ Shows(screen, "cancel")
  \/ Shows(screen, "menu")

ClassifyCodex(screen) ==
  IF CodexBlocked(screen) THEN "blocked"
  ELSE IF Shows(screen, "interrupt") THEN "working" ELSE "idle"

Classify(agent, screen) ==
  IF agent = "claude" THEN ClassifyClaude(screen) ELSE ClassifyCodex(screen)

-----------------------------------------------------------------------------
(* Transcripts on disk.  A directory is a sequence of characters.          *)

\* Claude's directory of a working directory: slashes and dots become dashes,
\* so that two directories may share one.
ProjectDirname(cwd) ==
  [i \in DOMAIN cwd |-> IF cwd[i] \in {"/", "."} THEN "-" ELSE cwd[i]]

\* Those of Claude are known by the name of their directory; those of Codex lie by
\* date, and record the directory in their first line (codex_head_cwd_id).
ClaudeFiles(disk, cwd) ==
  {f \in disk : f.agent = "claude" /\ ProjectDirname(f.cwd) = ProjectDirname(cwd)}
Rollouts(disk, cwd) == {f \in disk : f.agent = "codex" /\ f.cwd = cwd}

\* agent_transcripts: all files of the agent that may belong to the directory.
AgentTranscripts(disk, cwd, agent) ==
  IF agent = "claude" THEN ClaudeFiles(disk, cwd) ELSE Rollouts(disk, cwd)

Youngest(files) == CHOOSE f \in files : \A g \in files : g.birth <= f.birth

\* Mutant: a pane may claim what was born after the next one started.
ClaimableAny(files, start, order, i) == files
Claimable(files, start, order, i) ==
  {f \in files : i < Len(order) => f.birth < start[order[i + 1]]}

\* The panes by their start, the last to start last.
ByStart(start) ==
  CHOOSE order \in [1..Cardinality(DOMAIN start) -> DOMAIN start] :
    \A i, j \in DOMAIN order :
      i < j => order[i] # order[j] /\ start[order[i]] <= start[order[j]]

\* What pane i of the order adds to the claims before: the newest file that nobody
\* claimed yet and that was born before the next younger pane started.
Claimed(start, files, order, before, i) ==
  LET free == Claimable(files \ {before[p] : p \in DOMAIN before}, start, order, i)
  IN  IF free = {} THEN before
      ELSE [p \in DOMAIN before \cup {order[i]} |->
              IF p = order[i] THEN Youngest(free) ELSE before[p]]

\* assign_transcripts: the youngest pane first.  Panes that find none are left out of
\* the result.
AssignTranscripts(start, files) ==
  LET order == ByStart(start)
      n     == Cardinality(DOMAIN start)
      claims[k \in 0..n] ==
        IF k = 0 THEN <<>> ELSE Claimed(start, files, order, claims[k - 1], n - k + 1)
  IN  claims[n]
=============================================================================
