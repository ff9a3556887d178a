------------------------------- MODULE Agents -------------------------------
(***************************************************************************)
(* The daemon's watch over the agents in its panes (src/session.rs:        *)
(* refresh_agent_states, refresh_restore_meta;                             *)
(* src/server/mod.rs: the agent and snapshot ticks of run).  Twice a       *)
(* second it reads which process is in front of each pane and what its     *)
(* screen says; once a second it matches panes to transcripts on disk.     *)
(* Between two ticks processes start and end, screens are painted, files   *)
(* are written, and the user looks at another window.  Each pane is the    *)
(* only one of its window, so the window in front is known by its pane.    *)
(***************************************************************************)
EXTENDS Detect

CONSTANTS Panes,
          Kinds,      \* the agents that may be started
          Screens,    \* what an application may paint
          CwdOf,      \* the working directory of each pane
          Flaky,      \* the panes whose process may be unreadable at a tick
          MaxTime     \* bound on starts of processes and births of files

ASSUME MaxTimeAssumption == MaxTime \in Nat
\* An application may leave its screen empty, or show nothing that tells of work.
ASSUME ScreensAssumption == \E s \in Screens : Classify("claude", s) = "idle"
ASSUME PanesAssumption == Panes # {} /\ IsFiniteSet(Panes) /\ Panes \subseteq Nat \ {0}
ASSUME CwdAssumption == CwdOf \in [Panes -> Seq({"/", ".", "a", "b"})]

VARIABLES now,        \* a count of starts and births, which orders them
          fg,         \* the process in front of each pane; its pid tells its start
          screen,     \* what each pane shows
          front,      \* the pane of the active window
          disk,       \* the transcripts written
          watch,      \* per pane: agent, agent_id_pid, agent_state, idle_streak
          resume,     \* per pane: agent_resume
          captured,   \* per pane: captured_for_pid
          quiet,      \* auxiliary: the panes whose screen read idle at the last tick
          past        \* auxiliary: per pane, what became of the agents seen in it

envVars  == <<now, fg, screen, front, disk>>
restVars == <<resume, captured>>
vars == <<envVars, watch, restVars, quiet, past>>

NoPid    == 0
NoFile   == [agent |-> None]
Blank    == [agent |-> None, idPid |-> NoPid, state |-> "idle", streak |-> 0]

\* Shells were started before everything else, that of pane 1 last.
Shell(p) == [pid |-> -p, name |-> "shell"]

\* A transcript of a run long over, one of which a restored pane is seeded with.
Old(p)   == [agent |-> "claude", cwd |-> CwdOf[p], birth |-> 0 - p, pid |-> NoPid]

-----------------------------------------------------------------------------
(* The surroundings                                                        *)

Alive(p) == fg[p] # Shell(p)

Init ==
  /\ now = 0
  /\ fg = [p \in Panes |-> Shell(p)]
  /\ screen \in [Panes -> {CHOOSE s \in Screens : Classify("claude", s) = "idle"}]
  /\ front \in Panes
  /\ \E seeded \in SUBSET Panes :
       /\ disk = {Old(p) : p \in seeded}
       /\ resume = [p \in Panes |-> IF p \in seeded THEN Old(p) ELSE NoFile]
  /\ watch = [p \in Panes |-> Blank]
  /\ captured = [p \in Panes |-> NoPid]
  /\ quiet = {}
  /\ past = [p \in Panes |-> "none"]

Unwatched == UNCHANGED <<watch, restVars, quiet, past>>

Start(p, name) ==
  /\ ~Alive(p)
  /\ now < MaxTime
  /\ now' = now + 1
  /\ fg' = [fg EXCEPT ![p] = [pid |-> now', name |-> name]]
  /\ UNCHANGED <<screen, front, disk>> /\ Unwatched

\* The agent ends and the shell is back in front.
End(p) ==
  /\ Alive(p)
  /\ fg' = [fg EXCEPT ![p] = Shell(p)]
  /\ UNCHANGED <<now, screen, front, disk>> /\ Unwatched

Paint(p, s) ==
  /\ Alive(p)
  /\ screen' = [screen EXCEPT ![p] = s]
  /\ UNCHANGED <<now, fg, front, disk>> /\ Unwatched

Look(p) ==
  /\ front' = p
  /\ UNCHANGED <<now, fg, screen, disk>> /\ Unwatched

\* An agent begins a transcript: its first message, or the first after /clear.
Write(p) ==
  /\ Alive(p)
  /\ now < MaxTime
  /\ now' = now + 1
  /\ disk' = disk \cup {[agent |-> fg[p].name, cwd |-> CwdOf[p],
                         birth |-> now', pid |-> fg[p].pid]}
  /\ UNCHANGED <<fg, screen, front>> /\ Unwatched

-----------------------------------------------------------------------------
(* The agent tick, every 500 ms                                            *)

\* Step 1: a process not seen before starts afresh, and is remembered only once
\* its name could be resolved.
Identified(p, seen, name, named) ==
  CASE seen = NoPid -> Blank
    [] seen # NoPid /\ seen = watch[p].idPid -> watch[p]
    [] OTHER -> IF named
                THEN [Blank EXCEPT !.agent = AgentFor(name), !.idPid = seen]
                ELSE Blank

\* Mutants: the streak survives a burst of work; the end of work is told only to
\* a user who looks.
StabilizedKeeping(w, reading, focused) ==
  IF reading # "idle" THEN [w EXCEPT !.state = reading]
  ELSE CASE w.state \in {"working", "blocked"} /\ w.streak = 0 -> [w EXCEPT !.streak = 1]
         [] w.state \in {"working", "blocked"} /\ w.streak # 0 ->
              [w EXCEPT !.state = IF focused THEN "idle" ELSE "done", !.streak = 2]
         [] OTHER -> [w EXCEPT !.state = IF focused THEN "idle" ELSE @, !.streak = 2]
StabilizedSeen(w, reading, focused) ==
  IF reading # "idle" THEN [w EXCEPT !.state = reading, !.streak = 0]
  ELSE CASE w.state \in {"working", "blocked"} /\ ~focused -> [w EXCEPT !.streak = 1]
         [] OTHER -> [w EXCEPT !.state = IF focused THEN "idle" ELSE @, !.streak = 2]

\* Step 5: two idle readings in a row end the work; work that ends unseen is
\* "done" until a tick finds the window in front.
Stabilized(w, reading, focused) ==
  IF reading # "idle" THEN [w EXCEPT !.state = reading, !.streak = 0]
  ELSE CASE w.state \in {"working", "blocked"} /\ w.streak = 0 -> [w EXCEPT !.streak = 1]
         [] w.state \in {"working", "blocked"} /\ w.streak # 0 ->
              [w EXCEPT !.state = IF focused THEN "idle" ELSE "done", !.streak = 2]
         [] OTHER -> [w EXCEPT !.state = IF focused THEN "idle" ELSE @, !.streak = 2]

Readings == [k \in Kinds |-> [s \in Screens |-> Classify(k, s)]]

Reading(w, p) == IF w.agent = None THEN None ELSE Readings[w.agent][screen[p]]

Watched(p, seen, named) ==
  LET w == Identified(p, seen, fg[p].name, named)
  IN  IF w.agent = None THEN w ELSE Stabilized(w, Reading(w, p), p = front)

\* `lost` are panes whose foreground process cannot be read at this moment,
\* `unnamed` those whose process is gone before its name is.
AgentTick(lost, unnamed) ==
  LET seen(p) == IF p \in lost THEN NoPid ELSE fg[p].pid
  IN  /\ watch' = [p \in Panes |-> Watched(p, seen(p), p \notin unnamed)]
      /\ quiet' = {p \in Panes : Reading(watch'[p], p) = "idle"}
      /\ past' = [p \in Panes |-> IF past[p] = "found" /\ watch'[p].agent = None
                                  THEN "gone" ELSE past[p]]
      /\ UNCHANGED <<envVars, restVars>>

-----------------------------------------------------------------------------
(* The snapshot tick, every second, and the last one before a restart      *)

\* Mutant: a pane whose agent was never confirmed is cleared as well.
ClearedEagerly(p) == watch[p].agent = None

\* A pane whose confirmed agent is gone; one that waits for the agent it was
\* restored with keeps its seed.
Cleared(p) == watch[p].agent = None /\ captured[p] # NoPid

\* Whom the panes of a directory and an agent are matched with.
Matched(dir, agent, start, files) ==
  AssignTranscripts(start, AgentTranscripts(files, dir, agent))

\* refresh_restore_meta.  A pane is `unread` when its foreground process, its
\* directory (which is kept once read) or its time of start cannot be told now:
\* it takes no part in the matching and keeps what it has.
SnapshotTick(unread) ==
  LET group(p) == {q \in Panes \ unread :
                     CwdOf[q] = CwdOf[p] /\ watch[q].agent = watch[p].agent}
      found(p) == LET m == Matched(CwdOf[p], watch[p].agent,
                                   [q \in group(p) |-> fg[q].pid], disk)
                  IN  IF watch[p].agent # None /\ p \in group(p) /\ p \in DOMAIN m
                      THEN m[p] ELSE NoFile
      files    == [p \in Panes |-> found(p)]
  IN  /\ resume' = [p \in Panes |-> IF files[p] # NoFile THEN files[p]
                                    ELSE IF Cleared(p) THEN NoFile ELSE resume[p]]
      /\ captured' = [p \in Panes |-> IF files[p] # NoFile THEN fg[p].pid
                                      ELSE IF Cleared(p) THEN NoPid ELSE captured[p]]
      /\ past' = [p \in Panes |-> IF files[p] # NoFile THEN "found"
                                  ELSE IF past[p] = "gone" /\ watch[p].agent = None
                                       THEN "shell" ELSE past[p]]
      /\ UNCHANGED <<envVars, watch, quiet>>

-----------------------------------------------------------------------------
Tick     == \E ps \in SUBSET Flaky : AgentTick(ps, {}) \/ AgentTick({}, ps)
SnapTick == \E unread \in SUBSET Flaky : SnapshotTick(unread)

Surroundings ==
  \E p \in Panes : \/ \E k \in Kinds : Start(p, k)
                   \/ End(p)
                   \/ \E s \in Screens : Paint(p, s)
                   \/ Look(p)
                   \/ Write(p)

Next == \/ Surroundings
        \/ Tick
        \/ SnapTick

Spec == Init /\ [][Next]_vars

\* The agent tick is an interval of the loop.
FairSpec == /\ Spec
            /\ WF_vars(Tick)

-----------------------------------------------------------------------------
(* What is asked of it                                                     *)

\* Every variable has its type (struct Pane, session.rs).
TypeOK ==
  /\ now \in 0..MaxTime
  /\ \A p \in Panes : Alive(p) => fg[p].pid \in 1..now /\ fg[p].name \in Kinds
  /\ screen \in [Panes -> Screens] /\ front \in Panes
  /\ watch \in [Panes -> [agent : Kinds \cup {None}, idPid : Int,
                          state : {"idle", "working", "blocked", "done"}, streak : 0..2]]
  /\ \A p \in Panes : /\ resume[p] \in disk \cup {NoFile}
                      /\ captured[p] \in Int
  /\ quiet \subseteq Panes

\* A pane turns "done" only when work or a question it showed has been off its
\* screen for two ticks in a row, of one and the same process, in a window that
\* was not in front; a single idle reading amid the work never does it.
DoneMeansMissed ==
  [][\A p \in Panes :
       watch[p].state # "done" /\ watch'[p].state = "done"
       => /\ watch[p].state \in {"working", "blocked"}
          /\ p \in quiet /\ p \in quiet'
          /\ watch'[p].idPid = watch[p].idPid
          /\ front # p]_vars

\* The agent of a pane in the background is not at work, for good.
Resting(p) ==
  Alive(p) /\ p # front /\ Readings[fg[p].name][screen[p]] = "idle"

\* Work that ends for good in a background window is eventually told to the
\* user: the pane does not stay "working", however the readings interleave.
WorkEnds ==
  \A p \in Panes :
    <>[]Resting(p) => <>[](watch[p].state \notin {"working", "blocked"})

\* assign_transcripts against what it is for.  A history tells whose each start or
\* birth of a file was, the first of a pane being its start; 0 are runs long over.
\* When every agent of a directory began its transcripts before the next one started,
\* each gets the last one of its own, whatever older files lie there.
StartIn(h, p) == Min({i \in DOMAIN h : h[i] = p})
RunsIn(h)     == {h[i] : i \in DOMAIN h} \ {0}

Orderly(h) ==
  /\ \A i, k \in DOMAIN h : h[i] = h[k] => \A j \in i..k : h[j] = h[i]
  /\ \A i \in DOMAIN h : h[i] = 0 => h[1] = 0
  /\ \A p \in RunsIn(h) : \E i \in DOMAIN h : h[i] = p /\ i # StartIn(h, p)

OwnSessionsIn(length, runs) ==
  \A h \in [1..length -> 0..runs] : Orderly(h) =>
    LET files == {[birth |-> i] :
                    i \in {j \in DOMAIN h : h[j] = 0 \/ j # StartIn(h, h[j])}}
        got   == AssignTranscripts([p \in RunsIn(h) |-> StartIn(h, p)], files)
    IN  \A p \in RunsIn(h) :
          /\ p \in DOMAIN got
          /\ got[p].birth = Max({i \in DOMAIN h : h[i] = p})

OwnSessions == OwnSessionsIn(7, 3)

\* Each pane keeps what it is known to run, and the pairing of panes with
\* transcripts finds for each its own (evaluated once, before anything starts).
SessionsMatched == TypeOK /\ (now = 0 => OwnSessions)

\* What a pane would be restarted with, over what happened in it.  Until an agent of its
\* own was found, one whose transcript is known, it is what the pane was restored with,
\* whatever shells, agents without a transcript and unreadable processes the ticks saw.
\* From then on it is the transcript of some agent until an agent tick finds the agent
\* gone, and nothing once a snapshot tick has come while it was.
Seed(p) == IF Old(p) \in disk THEN Old(p) ELSE NoFile

SeedKept ==
  \A p \in Panes : /\ past[p] = "none"  => resume[p] = Seed(p)
                   /\ past[p] = "found" => resume[p] # NoFile
                   /\ past[p] = "shell" => resume[p] = NoFile
=============================================================================
