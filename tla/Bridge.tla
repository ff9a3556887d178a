------------------------------- MODULE Bridge -------------------------------
(***************************************************************************)
(* dvlpr bridge (src/bridge): one process that scans the runtime           *)
(* directory for sessions, subscribes to the roster of agents of each      *)
(* daemon, follows the transcripts a consumer watches, and forwards the    *)
(* consumer's commands; with the daemon's side of it (src/server/mod.rs:   *)
(* the roster channel, subscribers, the epoch of a daemon).                *)
(*                                                                         *)
(* Daemons come and go, and each numbers its panes anew: the epoch tells   *)
(* one incarnation from the next.  A transcript is a sequence of halves of *)
(* lines, "head" and "end": it grows by either, and is cut or replaced.    *)
(* The socket between a daemon and the task that subscribed to it, and the *)
(* channel from the tasks to the loop, are one queue.                      *)
(***************************************************************************)
EXTENDS Naturals, Sequences, FiniteSets, SequencesExt

CONSTANTS Sessions,
          Panes,       \* the panes every daemon starts with
          AgentPanes,  \* those agents are started in
          Files,       \* transcripts
          MaxEpoch,    \* bound on daemons started, for each session
          MaxQueue,    \* bound on what the tasks have sent and the loop not read
          MaxHalves,   \* bound on the halves of lines in a file
          MaxReplaced, \* bound on how often a file is cut or replaced
          MaxCmds      \* bound on the consumer's commands

ASSUME BoundsAssumption ==
  /\ {MaxEpoch, MaxQueue, MaxHalves, MaxReplaced, MaxCmds} \subseteq Nat
  /\ Panes \subseteq Nat /\ AgentPanes \subseteq Panes

VARIABLES up,        \* per session: the epoch of the daemon that runs, 0 for none
          epochs,    \* per session: daemons started so far
          socket,    \* the sessions whose socket file is there
          windows,   \* per session: the pane of each window
          agents,    \* per session: the transcript of each pane with an agent
          roster,    \* per session: the value of the roster channel
          foreign,   \* the sessions whose daemon speaks another version of the protocol
          file,      \* per file: inode, content, and a count of cuts (auxiliary)
          tasks,     \* the subscriber tasks: session and daemon, 0 while connecting
          told,      \* per session: the roster last sent to its subscriber, if any
          chan,      \* from the tasks to the loop
          loop,      \* whether run loops, or has returned: at the end of its input, or failed
          subscribed,\* keys of subscriber_tasks
          sessions,  \* per known session: epoch and roster
          watches,   \* per watched key: the tail of its transcript
          busy,      \* the command the loop is forwarding
          count,     \* commands given so far
          replies,   \* per command: its reply
          applied    \* per command: the daemons that carried it out (auxiliary)

daemonVars == <<up, epochs, socket, windows, agents, roster, foreign>>
loopVars   == <<loop, subscribed, sessions, watches>>
cmdVars    == <<busy, count, replies, applied>>
vars == <<daemonVars, file, tasks, told, chan, loopVars, cmdVars>>

Nothing   == [none |-> TRUE]
NoEpoch   == 0
Keys      == Sessions \X Panes
EmptyFcn  == <<>>

\* agent_infos, of which the bridge reads the panes, their windows and transcripts.
RosterOf(s) ==
  [p \in DOMAIN agents[s] |->
     [window |-> CHOOSE i \in DOMAIN windows[s] : windows[s][i] = p,
      transcript |-> agents[s][p]]]

Without(f, gone) == [x \in DOMAIN f \ gone |-> f[x]]

-----------------------------------------------------------------------------
(* Daemons                                                                 *)

\* The daemon may be of another release of the program than the bridge.
Start(s) ==
  /\ up[s] = 0 /\ epochs[s] < MaxEpoch
  /\ epochs' = [epochs EXCEPT ![s] = @ + 1]
  /\ up' = [up EXCEPT ![s] = epochs'[s]]
  /\ socket' = socket \cup {s}
  /\ windows' = [windows EXCEPT ![s] = SetToSortSeq(Panes, <)]
  /\ foreign' \in {foreign, foreign \cup {s}}
  /\ told' = [told EXCEPT ![s] = {}]
  /\ UNCHANGED <<agents, roster, file, tasks, chan, loopVars, cmdVars>>

\* An orderly exit removes the socket, a crash leaves it; the rest of the daemon is gone.
Exit(s, crash) ==
  /\ up[s] # 0
  /\ up' = [up EXCEPT ![s] = 0]
  /\ socket' = IF crash THEN socket ELSE socket \ {s}
  /\ windows' = [windows EXCEPT ![s] = <<>>]
  /\ agents' = [agents EXCEPT ![s] = EmptyFcn]
  /\ roster' = [roster EXCEPT ![s] = EmptyFcn]
  /\ foreign' = foreign \ {s}
  /\ UNCHANGED <<epochs, file, tasks, told, chan, loopVars, cmdVars>>

\* What the agent and snapshot ticks find in a pane: an agent begins, finds its
\* transcript or changes to another one, or ends.
AgentSeen(s, p, f) ==
  /\ up[s] # 0 /\ Contains(windows[s], p)
  /\ agents' = [agents EXCEPT ![s] = [q \in DOMAIN @ \cup {p} |-> IF q = p THEN f ELSE @[q]]]
  /\ agents' # agents
  /\ UNCHANGED <<up, epochs, socket, windows, roster, foreign, file, tasks, told, chan, loopVars, cmdVars>>

AgentEnds(s, p) ==
  /\ up[s] # 0 /\ p \in DOMAIN agents[s]
  /\ agents' = [agents EXCEPT ![s] = Without(@, {p})]
  /\ UNCHANGED <<up, epochs, socket, windows, roster, foreign, file, tasks, told, chan, loopVars, cmdVars>>

\* The tasks that hold a receiver of the daemon's roster channel.
Receivers(s) == {t \in tasks : t.session = s /\ t.daemon = up[s]}

\* Mutant: the value a receiver finds when it subscribes is taken for sent.
ToldOnConnect(s) == {roster[s]}
ToldFirst(s)     == {}

\* The tail of the agent tick.  A send on a channel nobody receives from fails
\* and leaves the old value in it.
Publish(s) ==
  /\ up[s] # 0
  /\ roster[s] # RosterOf(s)
  /\ Receivers(s) # {}
  /\ roster' = [roster EXCEPT ![s] = RosterOf(s)]
  /\ UNCHANGED <<up, epochs, socket, windows, agents, foreign, file, tasks, told, chan, loopVars, cmdVars>>

-----------------------------------------------------------------------------
(* Transcripts                                                             *)

\* Half a line is appended: every line is a head and an end.
Append1(f) ==
  LET c == file[f].content
  IN  /\ Len(c) < MaxHalves
      /\ file' = [file EXCEPT ![f].content =
                    Append(c, IF c # <<>> /\ Last(c) = "head" THEN "end" ELSE "head")]
      /\ UNCHANGED <<daemonVars, tasks, told, chan, loopVars, cmdVars>>

Replace(f, inPlace) ==
  /\ file[f].cuts < MaxReplaced
  /\ file' = [file EXCEPT ![f] = [ino     |-> IF inPlace THEN @.ino ELSE @.ino + 1,
                                  content |-> <<>>,
                                  cuts    |-> @.cuts + 1]]
  /\ UNCHANGED <<daemonVars, tasks, told, chan, loopVars, cmdVars>>

-----------------------------------------------------------------------------
(* Subscriber tasks                                                        *)

\* subscribe_session: the task connects to the daemon that listens, or fails.
Connect(t) ==
  /\ t \in tasks /\ t.daemon = 0
  /\ up[t.session] # 0 /\ t.session \notin foreign
  /\ tasks' = (tasks \ {t}) \cup {[t EXCEPT !.daemon = up[t.session]]}
  /\ told' = [told EXCEPT ![t.session] = ToldFirst(t.session)]
  /\ UNCHANGED <<daemonVars, file, chan, loopVars, cmdVars>>

\* The writer task of the daemon and the reader of the bridge: the roster on
\* connect and whenever it changed, the latest only.
Push(t) ==
  LET s == t.session
  IN  /\ t \in tasks /\ t.daemon # 0 /\ t.daemon = up[s]
      /\ told[s] # {roster[s]}
      /\ Len(chan) < MaxQueue
      /\ told' = [told EXCEPT ![s] = {roster[s]}]
      /\ chan' = Append(chan, [kind |-> "roster", session |-> s,
                               epoch |-> t.daemon, agents |-> roster[s]])
      /\ UNCHANGED <<daemonVars, file, tasks, loopVars, cmdVars>>

\* The daemon cannot be reached, hangs up on a hello of another version, or is gone:
\* the task ends, and says so.
Close(t) ==
  /\ t \in tasks
  /\ IF t.daemon = 0 THEN up[t.session] = 0 \/ t.session \in foreign
                     ELSE t.daemon # up[t.session]
  /\ Len(chan) < MaxQueue
  /\ tasks' = tasks \ {t}
  /\ chan' = Append(chan, [kind |-> "gone", session |-> t.session])
  /\ UNCHANGED <<daemonVars, file, told, loopVars, cmdVars>>

-----------------------------------------------------------------------------
(* The loop of the bridge                                                  *)

\* An arm of the loop is chosen when none is at work.
Idle == loop = "runs" /\ busy = Nothing

NewSessions == socket \ subscribed

Scan ==
  /\ Idle
  /\ NewSessions # {}
  /\ subscribed' = subscribed \cup NewSessions
  /\ tasks' = tasks \cup {[session |-> s, daemon |-> 0] : s \in NewSessions}
  /\ UNCHANGED <<daemonVars, file, told, chan, loop, sessions, watches, cmdVars>>

\* Mutant: the watches of a session outlive it.
KeptAll(s) == watches
Kept(s)    == Without(watches, {s} \X Panes)

Receive ==
  /\ Idle /\ chan # <<>>
  /\ chan' = Tail(chan)
  /\ LET m == Head(chan)
     IN \/ /\ m.kind = "roster"
           /\ sessions' = [s \in DOMAIN sessions \cup {m.session} |->
                             IF s = m.session THEN [epoch |-> m.epoch, agents |-> m.agents]
                                              ELSE sessions[s]]
           /\ UNCHANGED <<subscribed, watches>>
        \/ /\ m.kind = "gone"
           /\ sessions' = Without(sessions, {m.session})
           /\ subscribed' = subscribed \ {m.session}
           /\ watches' = Kept(m.session)
  /\ UNCHANGED <<daemonVars, file, tasks, told, loop, cmdVars>>

\* TranscriptTail::open, with auxiliary fields: where it began, how often the file
\* had been cut, the lines the consumer got, and the pieces taken for lines.
Tail0(f, full, epoch) ==
  [path |-> f, ino |-> file[f].ino, pos |-> IF full THEN 0 ELSE Len(file[f].content),
   partial |-> <<>>, start |-> IF full THEN 0 ELSE Len(file[f].content),
   cuts |-> file[f].cuts, lines |-> 0, torn |-> 0, epoch |-> epoch]

\* Mutant: the unfinished line at the end of a poll is forgotten.
PolledForgetful(t) ==
  LET c     == file[t.path].content
      whole == {i \in t.pos + 2 .. Len(c) : c[i] = "end" /\ c[i - 1] = "head"}
  IN  [t EXCEPT !.pos = Len(c), !.partial = <<>>, !.lines = @ + Cardinality(whole)]

\* Whatever ends with a newline is handed out as a line.  A tail that began in the
\* middle of a line hands out the rest of it, which is no JSON and is skipped.
Polled(t) ==
  LET c     == file[t.path].content
      bytes == t.partial \o SubSeq(c, t.pos + 1, Len(c))
      ends  == {i \in DOMAIN bytes : bytes[i] = "end"}
      whole == {i \in ends : i > 1 /\ bytes[i - 1] = "head"}
      rest  == IF bytes # <<>> /\ Last(bytes) = "head" THEN <<"head">> ELSE <<>>
  IN  [t EXCEPT !.pos = Len(c), !.partial = rest,
                !.lines = @ + Cardinality(whole), !.torn = @ + Cardinality(ends \ whole)]

\* The file has another inode or is shorter than what was read of it.
Reset(t) == file[t.path].ino # t.ino \/ Len(file[t.path].content) < t.pos

\* poll_watches, over all keys; a tail that must be reset is dropped.
Poll ==
  /\ Idle
  /\ watches' = [k \in {j \in DOMAIN watches : ~Reset(watches[j])} |-> Polled(watches[k])]
  /\ watches' # watches
  /\ UNCHANGED <<daemonVars, file, tasks, told, chan, loop, subscribed, sessions, cmdVars>>

-----------------------------------------------------------------------------
(* Commands.  A line of the consumer is read only when the loop is idle.   *)

Reply(code) == replies' = Append(replies, code)

\* run returns: its tasks end with it.
Returns(how) ==
  /\ loop' = how
  /\ tasks' = {} /\ told' = [s \in Sessions |-> {}] /\ chan' = <<>>
  /\ subscribed' = {} /\ sessions' = EmptyFcn /\ watches' = EmptyFcn

\* The consumer closes its end.
HangUp ==
  /\ Idle
  /\ Returns("ended")
  /\ UNCHANGED <<daemonVars, file, cmdVars>>

\* A line that is no UTF-8: next_line fails, and run with it, without a reply.
Garbled ==
  /\ Idle /\ count < MaxCmds
  /\ count' = count + 1
  /\ applied' = Append(applied, {})
  /\ Returns("failed")
  /\ UNCHANGED <<daemonVars, file, busy, replies>>

\* A command that is answered at once.
Answered(code) ==
  /\ Idle /\ count < MaxCmds
  /\ count' = count + 1
  /\ Reply(code)
  /\ applied' = Append(applied, {})
  /\ UNCHANGED <<daemonVars, file, tasks, told, chan, loop, subscribed, sessions, busy>>

\* The checks of a watch, in their order.
WatchCode(s, p, epoch) ==
  CASE epoch = NoEpoch                         -> "missing_epoch"
    [] epoch # NoEpoch /\ s \notin DOMAIN sessions -> "unknown_session"
    [] OTHER ->
       IF epoch # sessions[s].epoch THEN "stale_target"
       ELSE IF p \notin DOMAIN sessions[s].agents THEN "unknown_pane"
       ELSE IF sessions[s].agents[p].transcript = Nothing THEN "no_transcript"
       ELSE "ok"

Watch(s, p, epoch, full) ==
  /\ Answered(WatchCode(s, p, epoch))
  /\ watches' = IF WatchCode(s, p, epoch) # "ok" THEN watches
                ELSE LET t == Tail0(sessions[s].agents[p].transcript, full, epoch)
                     IN  [k \in DOMAIN watches \cup {<<s, p>>} |->
                            IF k = <<s, p>> THEN t ELSE watches[k]]

Unwatch(k) ==
  /\ Answered("ok")
  /\ watches' = Without(watches, {k})

\* A line of text that is no command, or a command without an epoch.
BadCommand ==
  /\ Answered("bad")
  /\ UNCHANGED watches

\* forward: connect to the session's daemon and wait for its answer.  The command
\* goes to a pane by its number or to a window by its position.
Forward(s, cmd) ==
  /\ Idle /\ count < MaxCmds
  /\ count' = count + 1
  /\ applied' = Append(applied, {})
  /\ \/ /\ up[s] # 0
        /\ busy' = [session |-> s, cmd |-> cmd, daemon |-> up[s], result |-> "none"]
        /\ UNCHANGED replies
     \/ /\ up[s] = 0
        /\ Reply("unreachable")
        /\ UNCHANGED busy
  /\ UNCHANGED <<daemonVars, file, tasks, told, chan, loopVars>>

\* Mutant: a pane that exists is right enough.
EpochOkWindows(s, cmd) == cmd.kind = "pane" \/ cmd.epoch = up[s]
EpochOk(s, cmd)      == cmd.epoch = up[s]

\* apply_control_command, behind the check of the epoch: text or a key for a pane,
\* or the close of a window, which is refused for the last one.
Outcome(s, cmd) ==
  IF ~EpochOk(s, cmd) THEN "stale_target"
  ELSE IF cmd.kind = "pane"
       THEN IF Contains(windows[s], cmd.pane) THEN "ok" ELSE "refused"
       ELSE IF cmd.window \in DOMAIN windows[s] /\ Len(windows[s]) > 1 THEN "ok" ELSE "refused"

Apply ==
  /\ busy # Nothing /\ busy.result = "none"
  /\ LET s   == busy.session
         cmd == busy.cmd
         r   == Outcome(s, cmd)
     IN /\ up[s] = busy.daemon /\ s \notin foreign
        /\ busy' = [busy EXCEPT !.result = r]
        /\ applied' = IF r = "ok" THEN [applied EXCEPT ![count] = @ \cup {up[s]}] ELSE applied
        /\ IF r = "ok" /\ cmd.kind = "window"
           THEN /\ windows' = [windows EXCEPT ![s] = RemoveAt(@, cmd.window)]
                /\ agents' = [agents EXCEPT ![s] = Without(@, {windows[s][cmd.window]})]
           ELSE UNCHANGED <<windows, agents>>
  /\ UNCHANGED <<up, epochs, socket, roster, foreign, file, tasks, told, chan, loopVars, count, replies>>

\* The reply arrives, also when the daemon ends just after it was written.
Replied ==
  /\ busy # Nothing /\ busy.result # "none"
  /\ Reply(busy.result)
  /\ busy' = Nothing
  /\ UNCHANGED <<daemonVars, file, tasks, told, chan, loopVars, count, applied>>

\* The daemon ends before it has replied, whether or not it had obeyed; one of another
\* version hangs up.
Lost ==
  /\ busy # Nothing
  /\ up[busy.session] # busy.daemon \/ busy.session \in foreign
  /\ Reply("unreachable")
  /\ busy' = Nothing
  /\ UNCHANGED <<daemonVars, file, tasks, told, chan, loopVars, count, applied>>

-----------------------------------------------------------------------------
Init ==
  /\ up = [s \in Sessions |-> 0] /\ epochs = [s \in Sessions |-> 0]
  /\ socket = {}
  /\ windows = [s \in Sessions |-> <<>>]
  /\ agents = [s \in Sessions |-> EmptyFcn] /\ roster = [s \in Sessions |-> EmptyFcn]
  /\ file = [f \in Files |-> [ino |-> 0, content |-> <<>>, cuts |-> 0]]
  /\ foreign = {}
  /\ tasks = {} /\ chan = <<>>
  /\ told = [s \in Sessions |-> {}]
  /\ loop = "runs" /\ subscribed = {} /\ sessions = EmptyFcn /\ watches = EmptyFcn
  /\ busy = Nothing /\ count = 0 /\ replies = <<>> /\ applied = <<>>

\* The consumer names an epoch it was told of, or none.
Given(s) == {NoEpoch} \cup 1..epochs[s]

Daemons ==
  \E s \in Sessions :
    \/ Start(s)
    \/ \E crash \in BOOLEAN : Exit(s, crash)
    \/ \E p \in AgentPanes : \/ \E f \in Files \cup {Nothing} : AgentSeen(s, p, f)
                             \/ AgentEnds(s, p)

Transcripts == \E f \in Files : \/ Append1(f)
                                \/ \E inPlace \in BOOLEAN : Replace(f, inPlace)

Consumer ==
  \/ HangUp \/ Garbled \/ BadCommand
  \/ \E k \in Keys : Unwatch(k)
  \/ \E s \in Sessions, p \in Panes, full \in BOOLEAN : \E e \in Given(s) : Watch(s, p, e, full)
  \/ \E s \in Sessions : \E e \in Given(s) \ {NoEpoch} : \E n \in Panes :
       \/ Forward(s, [kind |-> "pane", pane |-> n, epoch |-> e])
       \/ Forward(s, [kind |-> "window", window |-> n, epoch |-> e])

Tasks == \E t \in tasks : Connect(t) \/ Push(t) \/ Close(t)

Next ==
  \/ Daemons \/ Transcripts \/ Consumer
  \/ \E s \in Sessions : Publish(s)
  \/ Tasks
  \/ Scan \/ Receive \/ Poll
  \/ Apply \/ Replied \/ Lost

Spec == Init /\ [][Next]_vars

\* The agent tick, the tasks and the arms of the loop run; a daemon answers what it
\* was asked, or hangs up.
FairSpec ==
  /\ Spec
  /\ \A s \in Sessions : WF_vars(Publish(s))
  /\ WF_vars(Tasks)
  /\ WF_vars(Scan) /\ WF_vars(Receive) /\ WF_vars(Poll)
  /\ WF_vars(Apply) /\ WF_vars(Replied) /\ WF_vars(Lost)
=============================================================================
