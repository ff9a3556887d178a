---------------------------- MODULE BridgeProofs ----------------------------
(***************************************************************************)
(* Theorems about module Bridge, for any sessions, panes, transcripts and  *)
(* bounds: commands are accounted for, a watch is of the incarnation the   *)
(* bridge knows, and a tail delivers every line once.                      *)
(***************************************************************************)
EXTENDS BridgeProps, SequenceTheorems, FiniteSetTheorems, TLAPS

Halves      == {"head", "end"}
Transcript  == Files \cup {Nothing}
Codes       == Definite \cup {"ok", "unreachable"}
Commands    == [kind : {"pane"}, pane : Panes, epoch : Nat]
               \cup [kind : {"window"}, window : Panes, epoch : Nat]
Forwarded   == [session : Sessions, cmd : Commands, daemon : Nat \ {0},
                result : {"none", "ok", "stale_target", "refused"}]
Tails       == [path : Files, ino : Nat, pos : Nat, partial : {<<>>, <<"head">>},
                start : Nat, cuts : Nat, lines : Nat, torn : Nat, epoch : Nat]

\* Daemons, files, tasks and the channel have their types.
DaemonsTyped ==
  /\ up \in [Sessions -> Nat] /\ epochs \in [Sessions -> Nat]
  /\ socket \subseteq Sessions
  /\ file \in [Files -> [ino : Nat, content : Seq(Halves), cuts : Nat]]
  /\ tasks \subseteq [session : Sessions, daemon : Nat]
  /\ subscribed \subseteq Sessions
  /\ chan \in Seq(Range(chan))
  /\ \A i \in 1..Len(chan) : chan[i].session \in Sessions /\ chan[i].kind \in {"roster", "gone"}

\* Wherever the bridge reads of a transcript, it is a file or none.
Named(r) == \A p \in DOMAIN r : r[p].transcript \in Transcript

TranscriptsNamed ==
  /\ DOMAIN agents = Sessions /\ DOMAIN roster = Sessions
  /\ \A s \in Sessions : \A p \in DOMAIN agents[s] : agents[s][p] \in Transcript
  /\ \A s \in Sessions : Named(roster[s])
  /\ \A i \in 1..Len(chan) : chan[i].kind = "roster" => Named(chan[i].agents)
  /\ \A s \in DOMAIN sessions : Named(sessions[s].agents)

WatchesTyped ==
  /\ DOMAIN watches \subseteq Keys
  /\ \A k \in DOMAIN watches : watches[k] \in Tails

\* The command that is forwarded is the last one given, and has no reply yet.
CommandsInv ==
  /\ count \in Nat /\ replies \in Seq(Codes) /\ applied \in Seq(SUBSET Nat)
  /\ Len(applied) = count
  /\ busy \in {Nothing} \cup Forwarded
  /\ busy # Nothing => count > 0
  /\ CommandsAccounted

-----------------------------------------------------------------------------
(* The loop knows one incarnation of a session at a time.                  *)

Of(s) == {i \in 1..Len(chan) : chan[i].session = s}

\* A session the bridge has a task or a message of is subscribed to.
Subscribed(s) ==
  (Of(s) # {} \/ (\E t \in tasks : t.session = s) \/ s \in DOMAIN sessions) => s \in subscribed

\* The end of a subscription is the last that is heard of it, and what is known and
\* what is still on its way are of one epoch.
OneEpoch(s) ==
  /\ \A i, j \in Of(s) : i < j => chan[i].kind = "roster"
  /\ \A i, j \in Of(s) : chan[i].kind = "roster" /\ chan[j].kind = "roster"
                           => chan[i].epoch = chan[j].epoch
  /\ s \in DOMAIN sessions => \A i \in Of(s) : chan[i].kind = "roster"
                                                 => chan[i].epoch = sessions[s].epoch

\* While a task runs, that epoch is of the daemon it is connected to, and before it is
\* connected nothing is known or on its way.
TaskEpoch(s) ==
  \A t \in tasks : t.session = s =>
    /\ \A u \in tasks : u.session = s => u = t
    /\ \A i \in Of(s) : chan[i].kind = "roster" /\ chan[i].epoch = t.daemon
    /\ s \in DOMAIN sessions => sessions[s].epoch = t.daemon
    /\ t.daemon = 0 => Of(s) = {} /\ s \notin DOMAIN sessions

Incarnations ==
  /\ DOMAIN sessions \subseteq Sessions
  /\ \A s \in Sessions : Subscribed(s) /\ OneEpoch(s) /\ TaskEpoch(s)

-----------------------------------------------------------------------------
(* The lines of a tail.                                                    *)

Lines(c, from, to) == {i \in from + 2 .. to : c[i] = "end" /\ c[i - 1] = "head"}

Unfinished(c, from, to) == IF to > from /\ c[to] = "head" THEN <<"head">> ELSE <<>>

\* A tail has counted the lines between where it began and where it is, and keeps the
\* half of the line it is in.
TailOK(t) ==
  /\ t.cuts <= file[t.path].cuts
  /\ t.cuts = file[t.path].cuts =>
       /\ t.start <= t.pos /\ t.pos <= Len(file[t.path].content)
       /\ t.partial = Unfinished(file[t.path].content, t.start, t.pos)
       /\ t.lines = Cardinality(Lines(file[t.path].content, t.start, t.pos))

TailsInv == \A k \in DOMAIN watches : TailOK(watches[k])

IInv == /\ DaemonsTyped /\ TranscriptsNamed /\ WatchesTyped
        /\ CommandsInv /\ Incarnations /\ WatchesCurrent /\ TailsInv

-----------------------------------------------------------------------------
(* The channel.                                                            *)

\* A sequence is one over its own elements.
LEMMA SeqOverRange ==
  ASSUME NEW S, NEW c \in Seq(S)
  PROVE  c \in Seq(Range(c)) /\ DOMAIN c = 1..Len(c) /\ Len(c) \in Nat
<1>1. c \in [1..Len(c) -> S] /\ Len(c) \in Nat
  BY LenProperties
<1>2. c \in [1..Len(c) -> Range(c)]
  BY <1>1 DEF Range
<1> QED BY <1>1, <1>2, SeqDef

LEMMA Appended ==
  ASSUME NEW c, c \in Seq(Range(c)), NEW m
  PROVE  /\ Append(c, m) \in Seq(Range(Append(c, m)))
         /\ Len(c) \in Nat /\ Len(Append(c, m)) = Len(c) + 1
         /\ \A i \in 1..Len(c) : Append(c, m)[i] = c[i]
         /\ Append(c, m)[Len(c) + 1] = m
<1> DEFINE S == Range(c) \cup {m}
<1> HIDE DEF S
<1>1. c \in Seq(S) /\ m \in S
  <2>1. c \in [1..Len(c) -> Range(c)] /\ Len(c) \in Nat
    BY LenProperties
  <2> QED BY <2>1, SeqDef DEF S
<1>2. Append(c, m) \in Seq(S)
  BY <1>1, AppendProperties
<1>3. Append(c, m) \in Seq(Range(Append(c, m)))
  BY <1>2, SeqOverRange
<1> QED
  BY <1>1, <1>3, AppendProperties, LenProperties

LEMMA Shifted ==
  ASSUME NEW c, c \in Seq(Range(c)), c # <<>>
  PROVE  /\ Tail(c) \in Seq(Range(Tail(c)))
         /\ Head(c) = c[1] /\ Len(c) \in Nat \ {0} /\ Len(Tail(c)) = Len(c) - 1
         /\ \A i \in 1..Len(c) - 1 : Tail(c)[i] = c[i + 1]
<1>1. /\ Tail(c) \in Seq(Range(c)) /\ Len(c) \in Nat \ {0} /\ Len(Tail(c)) = Len(c) - 1
      /\ \A i \in 1..Len(Tail(c)) : Tail(c)[i] = c[i + 1]
  BY HeadTailProperties, LenProperties, EmptySeq
<1>2. Tail(c) \in Seq(Range(Tail(c)))
  BY <1>1, SeqOverRange
<1>3. Head(c) = c[1]
  BY SMT
<1> QED BY <1>1, <1>2, <1>3

-----------------------------------------------------------------------------
(* What each action leaves alone, by groups of variables.                  *)

LEMMA DaemonSteps ==
  ASSUME Next
  PROVE  \/ UNCHANGED <<up, epochs, socket>>
         \/ \E s \in Sessions : Start(s) \/ \E crash \in BOOLEAN : Exit(s, crash)
BY ZenonT(40) DEF Next, Daemons, AgentSeen, AgentEnds, Transcripts, Append1, Replace, Consumer, HangUp,
       Garbled, BadCommand, Unwatch, Watch, Answered, Forward, Publish, Tasks, Connect, Push, Close,
       Scan, Receive, Poll, Apply, Replied, Lost, daemonVars

LEMMA FileSteps ==
  ASSUME Next
  PROVE  \/ UNCHANGED file
         \/ \E f \in Files : Append1(f) \/ \E inPlace \in BOOLEAN : Replace(f, inPlace)
BY Zenon DEF Next, Daemons, Start, Exit, AgentSeen, AgentEnds, Transcripts, Consumer, HangUp, Garbled,
       BadCommand, Unwatch, Watch, Answered, Forward, Publish, Tasks, Connect, Push, Close, Scan, Receive, Poll,
       Apply, Replied, Lost

\* The loop returns, in one way or the other.
Stops == HangUp \/ Garbled

LEMMA LoopSteps ==
  ASSUME Next
  PROVE  \/ UNCHANGED <<tasks, chan, subscribed, sessions>>
         \/ \E t \in tasks : Connect(t) \/ Push(t) \/ Close(t)
         \/ Scan \/ Receive \/ Stops
BY ZenonT(40) DEF Stops, Next, Daemons, Start, Exit, AgentSeen, AgentEnds, Transcripts, Append1, Replace, Consumer,
       BadCommand, Unwatch, Watch, Answered, Forward, Publish, Tasks, Poll, Apply, Replied,
       Lost, loopVars

LEMMA WatchSteps ==
  ASSUME Next
  PROVE  \/ UNCHANGED watches
         \/ Receive \/ Poll \/ Stops \/ \E k \in Keys : Unwatch(k)
         \/ \E s \in Sessions, p \in Panes, full \in BOOLEAN : \E e \in Given(s) : Watch(s, p, e, full)
BY Zenon DEF Stops, Next, Daemons, Start, Exit, AgentSeen, AgentEnds, Transcripts, Append1, Replace, Consumer,
       BadCommand, Forward, Publish, Tasks, Connect, Push, Close, Scan, Apply, Replied, Lost,
       loopVars

LEMMA CommandSteps ==
  ASSUME Next
  PROVE  \/ UNCHANGED <<cmdVars, loop>>
         \/ HangUp \/ Garbled
         \/ \E code \in Definite \cup {"ok"} : Answered(code)
         \/ \E s \in Sessions : \E e \in Given(s) \ {NoEpoch} : \E n \in Panes :
              \/ Forward(s, [kind |-> "pane", pane |-> n, epoch |-> e])
              \/ Forward(s, [kind |-> "window", window |-> n, epoch |-> e])
         \/ Apply \/ Replied \/ Lost
<1>1. ASSUME NEW s, NEW p, NEW e PROVE WatchCode(s, p, e) \in Definite \cup {"ok"}
  BY SMT DEF WatchCode, Definite
<1>2. "bad" \in Definite
  BY DEF Definite
<1> QED
  BY <1>1, <1>2, Zenon DEF Next, Daemons, Start, Exit, AgentSeen, AgentEnds, Transcripts, Append1,
     Replace, Consumer, BadCommand, Unwatch, Watch, Publish, Tasks, Connect, Push, Close,
     Scan, Receive, Poll, loopVars

LEMMA AgentSteps ==
  ASSUME Next
  PROVE  \/ UNCHANGED <<agents, roster>>
         \/ \E s \in Sessions : \/ Publish(s) \/ \E crash \in BOOLEAN : Exit(s, crash)
                                \/ \E p \in AgentPanes : \/ \E f \in Transcript : AgentSeen(s, p, f)
                                                         \/ AgentEnds(s, p)
         \/ Apply
BY Zenon DEF Next, Daemons, Start, Transcripts, Append1, Replace, Consumer, HangUp, Garbled,
       BadCommand, Unwatch, Watch,
       Answered, Forward, Tasks, Connect, Push, Close, Scan, Receive, Poll, Replied, Lost,
       daemonVars, Transcript

-----------------------------------------------------------------------------
(* Types                                                                   *)

LEMMA InitHolds == Init => IInv
<1> SUFFICES ASSUME Init PROVE IInv
  OBVIOUS
<1>1. DaemonsTyped
  <2>1. chan \in Seq(Range(chan)) /\ Len(chan) = 0
    BY EmptySeq DEF Init
  <2>2. file \in [Files -> [ino : Nat, content : Seq(Halves), cuts : Nat]]
    BY EmptySeq DEF Init
  <2> QED BY <2>1, <2>2 DEF Init, DaemonsTyped
<1>2. DOMAIN sessions = {} /\ DOMAIN watches = {} /\ chan = <<>> /\ Len(chan) = 0
  BY SMT DEF Init, EmptyFcn
<1>3. TranscriptsNamed
  BY <1>2, SMT DEF Init, TranscriptsNamed, EmptyFcn, Named
<1>4. WatchesTyped /\ WatchesCurrent /\ TailsInv
  BY <1>2, SMT DEF WatchesTyped, WatchesCurrent, TailsInv
<1>5. Incarnations
  BY <1>2, SMT DEF Init, Incarnations, Subscribed, OneEpoch, TaskEpoch, Of
<1>6. CommandsInv
  BY EmptySeq, SMT DEF Init, CommandsInv, CommandsAccounted
<1> QED BY <1>1, <1>3, <1>4, <1>5, <1>6 DEF IInv

LEMMA Emptied ==
  ASSUME Stops
  PROVE  /\ tasks' = {} /\ subscribed' = {} /\ chan' = <<>> /\ Len(chan') = 0
         /\ chan' \in Seq(Range(chan'))
         /\ DOMAIN sessions' = {} /\ DOMAIN watches' = {} /\ UNCHANGED file
<1>1. /\ tasks' = {} /\ subscribed' = {} /\ chan' = <<>> /\ UNCHANGED file
      /\ sessions' = EmptyFcn /\ watches' = EmptyFcn
  BY Zenon DEF Stops, HangUp, Garbled, Returns
<1> QED BY <1>1, EmptySeq, SMT DEF EmptyFcn

LEMMA DaemonsTypedStep ==
  ASSUME IInv, Next
  PROVE  DaemonsTyped'
<1> USE DEF IInv, DaemonsTyped
<1>1. /\ up' \in [Sessions -> Nat] /\ epochs' \in [Sessions -> Nat]
      /\ socket' \subseteq Sessions
  <2>1. ASSUME NEW s \in Sessions, Start(s) PROVE <1>1!1 /\ <1>1!2
    <3>1. /\ epochs' = [epochs EXCEPT ![s] = @ + 1]
          /\ up' = [up EXCEPT ![s] = epochs'[s]] /\ socket' = socket \cup {s}
      BY <2>1, Zenon DEF Start
    <3>2. epochs' \in [Sessions -> Nat]
      BY <3>1
    <3> QED BY <3>1, <3>2
  <2>2. ASSUME NEW s \in Sessions, NEW crash \in BOOLEAN, Exit(s, crash) PROVE <1>1!1 /\ <1>1!2
    BY <2>2 DEF Exit
  <2> QED BY <2>1, <2>2, DaemonSteps
<1>2. file' \in [Files -> [ino : Nat, content : Seq(Halves), cuts : Nat]]
  <2>1. CASE UNCHANGED file
    BY <2>1
  <2>2. ASSUME NEW f \in Files, Append1(f) PROVE file' \in [Files -> [ino : Nat, content : Seq(Halves), cuts : Nat]]
    <3> DEFINE c == file[f].content
               h == IF c # <<>> /\ Last(c) = "head" THEN "end" ELSE "head"
    <3>1. Append(c, h) \in Seq(Halves)
      BY AppendProperties DEF Halves
    <3>2. file' = [file EXCEPT ![f].content = Append(c, h)]
      BY <2>2 DEF Append1
    <3> HIDE DEF h
    <3> QED BY <3>1, <3>2
  <2>3. ASSUME NEW f \in Files, NEW b \in BOOLEAN, Replace(f, b)
        PROVE  file' \in [Files -> [ino : Nat, content : Seq(Halves), cuts : Nat]]
    <3> DEFINE new == [ino     |-> IF b THEN file[f].ino ELSE file[f].ino + 1,
                       content |-> <<>>, cuts |-> file[f].cuts + 1]
    <3>1. new \in [ino : Nat, content : Seq(Halves), cuts : Nat]
      BY EmptySeq
    <3>2. file' = [file EXCEPT ![f] = new]
      BY <2>3 DEF Replace
    <3> HIDE DEF new
    <3> QED BY <3>1, <3>2
  <2> QED BY <2>1, <2>2, <2>3, FileSteps
<1>3. /\ tasks' \subseteq [session : Sessions, daemon : Nat]
      /\ subscribed' \subseteq Sessions
      /\ chan' \in Seq(Range(chan'))
      /\ \A i \in 1..Len(chan') : chan'[i].session \in Sessions /\ chan'[i].kind \in {"roster", "gone"}
  <2> USE DEF loopVars
  <2>1. CASE UNCHANGED <<tasks, chan, subscribed, sessions>>
    BY <2>1
  <2>2. ASSUME NEW t \in tasks, Connect(t) PROVE <1>3!1 /\ <1>3!2 /\ <1>3!3 /\ <1>3!4
    BY <2>2 DEF Connect
  <2>3. ASSUME NEW t \in tasks, Push(t) PROVE <1>3!1 /\ <1>3!2 /\ <1>3!3 /\ <1>3!4
    BY <2>3, Appended DEF Push
  <2>4. ASSUME NEW t \in tasks, Close(t) PROVE <1>3!1 /\ <1>3!2 /\ <1>3!3 /\ <1>3!4
    BY <2>4, Appended DEF Close
  <2>5. CASE Scan
    BY <2>5 DEF Scan, NewSessions
  <2>6. CASE Receive
    BY <2>6, Shifted DEF Receive
  <2>7. CASE Stops
    BY <2>7, Emptied
  <2> QED BY <2>1, <2>2, <2>3, <2>4, <2>5, <2>6, <2>7, LoopSteps
<1> QED BY <1>1, <1>2, <1>3

\* What the bridge and the daemons take for a transcript.
LEMMA TranscriptsNamedStep ==
  ASSUME IInv, Next
  PROVE  TranscriptsNamed'
<1> USE DEF IInv, TranscriptsNamed
<1>1. /\ DOMAIN agents' = Sessions /\ DOMAIN roster' = Sessions
      /\ \A s \in Sessions : \A p \in DOMAIN agents'[s] : agents'[s][p] \in Transcript
      /\ \A s \in Sessions : Named(roster'[s])
  <2>1. CASE UNCHANGED <<agents, roster>>
    BY <2>1
  <2>2. ASSUME NEW s \in Sessions, NEW crash, Exit(s, crash) PROVE <1>1!1 /\ <1>1!2 /\ <1>1!3
    <3>1. /\ agents' = [agents EXCEPT ![s] = EmptyFcn]
          /\ roster' = [roster EXCEPT ![s] = EmptyFcn]
      BY <2>2, Zenon DEF Exit
    <3>2. DOMAIN EmptyFcn = {}
      BY DEF EmptyFcn
    <3> QED BY <3>1, <3>2 DEF Named
  <2>3. ASSUME NEW s \in Sessions, Publish(s) PROVE <1>1!1 /\ <1>1!2 /\ <1>1!3
    <3>1. Named(RosterOf(s))
      BY DEF Named, RosterOf
    <3> QED BY <2>3, <3>1 DEF Publish
  <2>4. ASSUME NEW s \in Sessions, NEW p, NEW f \in Transcript, AgentSeen(s, p, f)
        PROVE  <1>1!1 /\ <1>1!2 /\ <1>1!3
    BY <2>4 DEF AgentSeen
  <2>5. ASSUME NEW s \in Sessions, NEW p, AgentEnds(s, p) PROVE <1>1!1 /\ <1>1!2 /\ <1>1!3
    BY <2>5 DEF AgentEnds, Without
  <2>6. CASE Apply
    <3>0. roster' = roster
      BY <2>6, Zenon DEF Apply
    <3>1. CASE UNCHANGED agents
      BY <3>0, <3>1
    <3>2. ASSUME NEW gone, agents' = [agents EXCEPT ![busy.session] = Without(@, gone)]
          PROVE  <1>1!1 /\ <1>1!2 /\ <1>1!3
      BY <3>0, <3>2 DEF Without
    <3> DEFINE s == busy.session
               cmd == busy.cmd
               closes == Outcome(s, cmd) = "ok" /\ cmd.kind = "window"
    <3>3. CASE closes
      <4>1. agents' = [agents EXCEPT ![s] = Without(@, {windows[s][cmd.window]})]
        BY <2>6, <3>3, Zenon DEF Apply
      <4> QED BY <3>2, <4>1
    <3>4. CASE ~closes
      <4>1. UNCHANGED agents
        BY <2>6, <3>4, Zenon DEF Apply
      <4> QED BY <3>1, <4>1
    <3> QED BY <3>3, <3>4
  <2> QED BY <2>1, <2>2, <2>3, <2>4, <2>5, <2>6, AgentSteps
<1>2. /\ \A i \in 1..Len(chan') : chan'[i].kind = "roster" => Named(chan'[i].agents)
      /\ \A s \in DOMAIN sessions' : Named(sessions'[s].agents)
  <2> USE DEF DaemonsTyped, loopVars
  <2>1. CASE UNCHANGED <<tasks, chan, subscribed, sessions>>
    BY <2>1
  <2>2. ASSUME NEW t \in tasks, Connect(t) PROVE <1>2!1 /\ <1>2!2
    BY <2>2 DEF Connect
  <2>3. ASSUME NEW t \in tasks, Push(t) PROVE <1>2!1 /\ <1>2!2
    BY <2>3, Appended DEF Push
  <2>4. ASSUME NEW t \in tasks, Close(t) PROVE <1>2!1 /\ <1>2!2
    BY <2>4, Appended DEF Close
  <2>5. CASE Scan
    BY <2>5 DEF Scan
  <2>6. CASE Receive
    <3>1. <1>2!1
      BY <2>6, Shifted DEF Receive
    <3>2. CASE /\ Head(chan).kind = "roster"
               /\ sessions' = [s \in DOMAIN sessions \cup {Head(chan).session} |->
                                 IF s = Head(chan).session
                                 THEN [epoch |-> Head(chan).epoch, agents |-> Head(chan).agents]
                                 ELSE sessions[s]]
      <4>1. Named(Head(chan).agents)
        BY <2>6, <3>2, Shifted DEF Receive
      <4> QED BY <3>1, <3>2, <4>1
    <3>3. CASE sessions' = Without(sessions, {Head(chan).session})
      BY <3>1, <3>3 DEF Without
    <3> QED
      BY <2>6, <3>2, <3>3, Zenon DEF Receive
  <2>7. CASE Stops
    BY <2>7, Emptied
  <2> QED BY <2>1, <2>2, <2>3, <2>4, <2>5, <2>6, <2>7, LoopSteps
<1> QED BY <1>1, <1>2

\* A command that is forwarded is a record, which the idle loop's is not.
LEMMA BusyRecord == Nothing \notin Forwarded
<1> SUFFICES ASSUME Nothing \in Forwarded PROVE FALSE
  OBVIOUS
<1>1. DOMAIN Nothing = {"none"}
  BY DEF Nothing
<1>2. "session" \in DOMAIN Nothing
  BY SMT DEF Forwarded
<1> QED BY <1>1, <1>2

LEMMA ReplyGiven ==
  ASSUME CommandsInv, NEW code \in Codes, Reply(code)
  PROVE  /\ replies' \in Seq(Codes) /\ Len(replies') = Len(replies) + 1
         /\ \A i \in 1..Len(replies) : replies'[i] = replies[i]
         /\ replies'[Len(replies) + 1] = code
         /\ DOMAIN replies = 1..Len(replies) /\ DOMAIN replies' = 1..Len(replies) + 1
BY AppendProperties, LenProperties DEF CommandsInv, Reply

LEMMA CommandTaken ==
  ASSUME CommandsInv, applied' = Append(applied, {})
  PROVE  /\ applied' \in Seq(SUBSET Nat) /\ Len(applied') = Len(applied) + 1
         /\ \A i \in 1..Len(applied) : applied'[i] = applied[i]
         /\ applied'[Len(applied) + 1] = {}
         /\ DOMAIN applied = 1..Len(applied) /\ DOMAIN applied' = 1..Len(applied) + 1
         /\ \A i \in DOMAIN applied' : Cardinality(applied'[i]) <= 1
<1>1. {} \in SUBSET Nat
  OBVIOUS
<1>2. /\ applied' \in Seq(SUBSET Nat) /\ Len(applied') = Len(applied) + 1
      /\ \A i \in 1..Len(applied) : applied'[i] = applied[i]
      /\ applied'[Len(applied) + 1] = {}
      /\ DOMAIN applied = 1..Len(applied) /\ DOMAIN applied' = 1..Len(applied) + 1
      /\ Len(applied) \in Nat
  BY <1>1, AppendProperties, LenProperties DEF CommandsInv
<1>3. \A i \in DOMAIN applied' : Cardinality(applied'[i]) <= 1
  BY <1>2, FS_EmptySet DEF CommandsInv, CommandsAccounted
<1> QED BY <1>2, <1>3

LEMMA CommandsStep ==
  ASSUME IInv, Next
  PROVE  CommandsInv'
<1>0. CommandsInv /\ CommandsAccounted /\ up \in [Sessions -> Nat] /\ epochs \in [Sessions -> Nat]
  BY DEF IInv, CommandsInv, DaemonsTyped
<1>1. CASE UNCHANGED <<cmdVars, loop>>
  BY <1>0, <1>1 DEF cmdVars, CommandsInv, CommandsAccounted
<1>9. ASSUME HangUp PROVE CommandsInv'
  <2>1. UNCHANGED cmdVars /\ loop = "runs" /\ loop' = "ended" /\ busy = Nothing
    BY <1>9, Zenon DEF HangUp, Idle, Returns
  <2> QED BY <1>0, <2>1 DEF cmdVars, CommandsInv, CommandsAccounted
<1>10. ASSUME Garbled PROVE CommandsInv'
  <2>1. /\ busy = Nothing /\ busy' = Nothing /\ count' = count + 1 /\ replies' = replies
        /\ applied' = Append(applied, {}) /\ loop = "runs" /\ loop' = "failed"
    BY <1>10, Zenon DEF Garbled, Idle, Returns
  <2>2. Len(replies) = count /\ Len(applied) = count /\ count \in Nat
    BY <1>0, <2>1 DEF CommandsInv, CommandsAccounted
  <2>3. DOMAIN replies = 1..Len(replies)
    BY <1>0, LenProperties DEF CommandsInv
  <2>4. \A i \in DOMAIN replies' : replies'[i] \in Definite => applied'[i] = {}
    BY <1>0, <2>1, <2>2, <2>3, CommandTaken DEF CommandsAccounted
  <2> QED BY <1>0, <2>1, <2>2, <2>4, CommandTaken DEF CommandsInv, CommandsAccounted
<1>2. ASSUME NEW code \in Definite \cup {"ok"}, Answered(code) PROVE CommandsInv'
  <2>1. /\ busy = Nothing /\ busy' = Nothing /\ count' = count + 1 /\ loop = "runs" /\ loop' = loop
        /\ Reply(code) /\ applied' = Append(applied, {})
    BY <1>2 DEF Answered, Idle
  <2>2. code \in Codes
    BY DEF Codes
  <2>3. Len(replies) = count /\ Len(applied) = count /\ count \in Nat
    BY <1>0, <2>1 DEF CommandsInv, CommandsAccounted
  <2>4. \A i \in DOMAIN replies' : replies'[i] \in Definite => applied'[i] = {}
    BY <1>0, <2>1, <2>2, <2>3, ReplyGiven, CommandTaken DEF CommandsAccounted
  <2> QED BY <1>0, <2>1, <2>2, <2>3, <2>4, ReplyGiven, CommandTaken DEF CommandsInv, CommandsAccounted
<1>3. ASSUME NEW s \in Sessions, NEW cmd \in Commands, Forward(s, cmd) PROVE CommandsInv'
  <2>1. /\ busy = Nothing /\ count' = count + 1 /\ applied' = Append(applied, {})
        /\ loop = "runs" /\ loop' = loop
    BY <1>3, Zenon DEF Forward, Idle, loopVars
  <2>2. Len(replies) = count /\ Len(applied) = count /\ count \in Nat
    BY <1>0, <2>1 DEF CommandsInv, CommandsAccounted
  <2>3. DOMAIN replies = 1..Len(replies)
    BY <1>0, LenProperties DEF CommandsInv
  <2>4. CASE up[s] # 0
    <3>1. busy' = [session |-> s, cmd |-> cmd, daemon |-> up[s], result |-> "none"] /\ replies' = replies
      BY <1>3, <2>4 DEF Forward
    <3>2. busy' \in Forwarded /\ busy'.result = "none"
      BY <1>0, <2>4, <3>1 DEF Forwarded
    <3>3. \A i \in DOMAIN replies' : replies'[i] \in Definite => applied'[i] = {}
      BY <1>0, <2>1, <2>2, <2>3, <3>1, CommandTaken DEF CommandsAccounted
    <3> QED
      BY <1>0, <2>1, <2>2, <3>1, <3>2, <3>3, BusyRecord, CommandTaken DEF CommandsInv, CommandsAccounted
  <2>5. CASE up[s] = 0
    <3>1. busy' = Nothing /\ Reply("unreachable") /\ "unreachable" \in Codes
      BY <1>3, <2>1, <2>5 DEF Forward, Codes
    <3>2. \A i \in DOMAIN replies' : replies'[i] \in Definite => applied'[i] = {}
      BY <1>0, <2>1, <2>2, <3>1, ReplyGiven, CommandTaken DEF CommandsAccounted, Definite
    <3> QED
      BY <1>0, <2>1, <2>2, <3>1, <3>2, ReplyGiven, CommandTaken DEF CommandsInv, CommandsAccounted
  <2> QED BY <2>4, <2>5
<1>4. CASE Apply
  <2> DEFINE r == Outcome(busy.session, busy.cmd)
  <2>1. /\ busy \in Forwarded /\ busy # Nothing /\ busy.result = "none"
        /\ up[busy.session] = busy.daemon /\ busy' = [busy EXCEPT !.result = r]
        /\ applied' = IF r = "ok" THEN [applied EXCEPT ![count] = @ \cup {up[busy.session]}] ELSE applied
        /\ count' = count /\ replies' = replies /\ loop = "runs" /\ loop' = loop
    <3>1. busy # Nothing
      BY <1>4 DEF Apply
    <3>2. busy \in Forwarded /\ loop = "runs"
      BY <1>0, <3>1 DEF CommandsInv, CommandsAccounted
    <3> QED BY <1>4, <3>1, <3>2, Zenon DEF Apply, loopVars
  <2>2. r \in {"ok", "stale_target", "refused"} /\ (r = "ok" => busy.cmd.epoch = up[busy.session])
    BY DEF Outcome, EpochOk
  <2> HIDE DEF r
  <2>3. /\ busy' \in Forwarded /\ busy' # Nothing
        /\ busy'.result = r /\ busy'.daemon = busy.daemon /\ busy'.cmd = busy.cmd
    BY <2>1, <2>2, BusyRecord DEF Forwarded
  <2>4. /\ Len(replies) = count - 1 /\ Len(applied) = count /\ count \in Nat \ {0}
        /\ applied[count] = {} /\ DOMAIN replies = 1..Len(replies) /\ DOMAIN applied = 1..count
    BY <1>0, <2>1, LenProperties DEF CommandsInv, CommandsAccounted
  <2>5. CASE r = "ok"
    <3>1. applied' = [applied EXCEPT ![count] = {busy.daemon}] /\ {busy.daemon} \in SUBSET Nat
      BY <2>1, <2>4, <2>5 DEF Forwarded
    <3>2. /\ applied' \in Seq(SUBSET Nat) /\ Len(applied') = count /\ DOMAIN applied' = 1..count
          /\ \A i \in 1..count : applied'[i] = IF i = count THEN {busy.daemon} ELSE applied[i]
      BY <1>0, <2>4, <3>1, ExceptSeq, LenProperties DEF CommandsInv
    <3>3. \A i \in DOMAIN applied' : Cardinality(applied'[i]) <= 1
      <4> SUFFICES ASSUME NEW i \in 1..count PROVE Cardinality(applied'[i]) <= 1
        BY <3>2
      <4>1. CASE i = count
        <5>1. applied'[i] = {busy.daemon}
          BY <3>2, <4>1
        <5>2. Cardinality(applied'[i]) = 1
          BY <5>1, FS_Singleton
        <5> QED BY <5>2
      <4>2. CASE i # count
        <5>1. applied'[i] = applied[i] /\ Cardinality(applied[i]) <= 1
          BY <1>0, <2>4, <3>2, <4>2 DEF CommandsAccounted
        <5> QED BY <5>1
      <4> QED BY <4>1, <4>2
    <3>4. \A i \in DOMAIN replies' : replies'[i] \in Definite => applied'[i] = {}
      BY <1>0, <2>1, <2>4, <3>2 DEF CommandsAccounted
    <3> QED
      <4>1. applied'[count'] = {busy'.daemon} /\ busy'.daemon = busy'.cmd.epoch
        BY <2>1, <2>2, <2>3, <2>4, <2>5, <3>2
      <4> QED BY <1>0, <2>1, <2>3, <2>4, <2>5, <3>2, <3>3, <3>4, <4>1 DEF CommandsInv, CommandsAccounted
  <2>6. CASE r # "ok"
    BY <1>0, <2>1, <2>3, <2>4, <2>6 DEF CommandsInv, CommandsAccounted
  <2> QED BY <2>5, <2>6
<1>5. ASSUME NEW code \in Codes, Reply(code), busy # Nothing, busy' = Nothing, UNCHANGED <<count, applied, loop>>,
             code \in Definite => applied[count] = {}
      PROVE  CommandsInv'
  <2>1. Len(replies) = count - 1 /\ count \in Nat /\ loop = "runs"
    BY <1>0, <1>5 DEF CommandsInv, CommandsAccounted
  <2>2. \A i \in DOMAIN replies' : replies'[i] \in Definite => applied'[i] = {}
    <3>1. /\ DOMAIN replies = 1..count - 1 /\ DOMAIN replies' = 1..count
          /\ replies'[count] = code /\ \A i \in 1..count - 1 : replies'[i] = replies[i]
      BY <1>0, <1>5, <2>1, ReplyGiven
    <3>2. \A i \in 1..count - 1 : replies[i] \in Definite => applied[i] = {}
      BY <1>0, <3>1 DEF CommandsAccounted
    <3> QED BY <1>5, <2>1, <3>1, <3>2
  <2> QED BY <1>0, <1>5, <2>1, <2>2, ReplyGiven DEF CommandsInv, CommandsAccounted
<1>6. CASE Replied
  <2>1. busy \in Forwarded /\ busy # Nothing /\ busy.result # "none"
    BY <1>0, <1>6 DEF Replied, CommandsInv
  <2>2. busy.result \in Codes /\ (busy.result \in Definite => applied[count] = {})
    BY <1>0, <2>1 DEF Forwarded, Codes, Definite, CommandsAccounted
  <2> QED BY <1>5, <1>6, <2>1, <2>2 DEF Replied, loopVars
<1>7. CASE Lost
  <2>1. "unreachable" \in Codes /\ "unreachable" \notin Definite
    BY DEF Codes, Definite
  <2> QED BY <1>5, <1>7, <2>1 DEF Lost, loopVars
<1>8. \A s \in Sessions : \A e \in Given(s) \ {NoEpoch} : \A n \in Panes :
        /\ [kind |-> "pane", pane |-> n, epoch |-> e] \in Commands
        /\ [kind |-> "window", window |-> n, epoch |-> e] \in Commands
  <2>1. \A s \in Sessions : \A e \in Given(s) : e \in Nat
    BY <1>0 DEF Given, NoEpoch
  <2> QED BY <2>1 DEF Commands
<1> QED BY <1>1, <1>2, <1>3, <1>4, <1>6, <1>7, <1>8, <1>9, <1>10, CommandSteps

-----------------------------------------------------------------------------
(* One incarnation at a time                                               *)

\* A session none of whose messages, task and roster changes.
LEMMA SessionUnchanged ==
  ASSUME NEW s, Subscribed(s), OneEpoch(s), TaskEpoch(s),
         s \in subscribed' <=> s \in subscribed,
         UNCHANGED chan,
         {t \in tasks' : t.session = s} = {t \in tasks : t.session = s},
         s \in DOMAIN sessions' <=> s \in DOMAIN sessions,
         s \in DOMAIN sessions => sessions'[s] = sessions[s]
  PROVE  Subscribed(s)' /\ OneEpoch(s)' /\ TaskEpoch(s)'
<1>1. Of(s)' = Of(s)
  BY DEF Of
<1>2. \A t : (t \in tasks' /\ t.session = s) <=> (t \in tasks /\ t.session = s)
  OBVIOUS
<1>3. Subscribed(s)'
  BY <1>1, <1>2 DEF Subscribed
<1>4. OneEpoch(s)'
  BY <1>1 DEF OneEpoch
<1>5. TaskEpoch(s)'
  BY <1>1, <1>2 DEF TaskEpoch
<1> QED BY <1>3, <1>4, <1>5

\* A session whose messages, task and roster do not change, wherever it is in the queue.
LEMMA SessionElsewhere ==
  ASSUME NEW s, Subscribed(s), OneEpoch(s), TaskEpoch(s), UNCHANGED <<subscribed, sessions>>,
         Of(s)' = Of(s), \A i \in Of(s) : chan'[i] = chan[i],
         {t \in tasks' : t.session = s} = {t \in tasks : t.session = s}
  PROVE  Subscribed(s)' /\ OneEpoch(s)' /\ TaskEpoch(s)'
<1>1. \A t : (t \in tasks' /\ t.session = s) <=> (t \in tasks /\ t.session = s)
  OBVIOUS
<1>2. Subscribed(s)'
  BY <1>1 DEF Subscribed
<1>3. OneEpoch(s)'
  BY DEF OneEpoch
<1>4. TaskEpoch(s)'
  BY <1>1 DEF TaskEpoch
<1> QED BY <1>2, <1>3, <1>4

\* The messages there are after one is added, and after one is read.
LEMMA OfAppended ==
  ASSUME DaemonsTyped, NEW m, chan' = Append(chan, m), NEW s
  PROVE  /\ Of(s)' = Of(s) \cup (IF m.session = s THEN {Len(chan) + 1} ELSE {})
         /\ \A i \in Of(s) : chan'[i] = chan[i] /\ i <= Len(chan)
         /\ chan'[Len(chan) + 1] = m /\ Len(chan) \in Nat
<1>1. /\ Len(chan) \in Nat /\ Len(chan') = Len(chan) + 1
      /\ \A i \in 1..Len(chan) : chan'[i] = chan[i]
      /\ chan'[Len(chan) + 1] = m
  BY Appended DEF DaemonsTyped
<1> QED BY <1>1 DEF Of

LEMMA OfShifted ==
  ASSUME DaemonsTyped, chan # <<>>, chan' = Tail(chan), NEW s
  PROVE  /\ Of(s)' = {i \in 1..Len(chan) - 1 : i + 1 \in Of(s)}
         /\ \A i \in Of(s)' : chan'[i] = chan[i + 1] /\ i + 1 \in Of(s) /\ i \in Nat \ {0}
         /\ Head(chan) = chan[1] /\ (Head(chan).session = s <=> 1 \in Of(s))
<1>1. /\ Head(chan) = chan[1] /\ Len(chan) \in Nat \ {0} /\ Len(chan') = Len(chan) - 1
      /\ \A i \in 1..Len(chan) - 1 : chan'[i] = chan[i + 1]
  BY Shifted DEF DaemonsTyped
<1> QED BY <1>1 DEF Of

LEMMA IncarnationsStep ==
  ASSUME IInv, Next
  PROVE  Incarnations'
<1> USE DEF IInv, Incarnations
<1>0. DaemonsTyped
  OBVIOUS
<1>1. CASE UNCHANGED <<tasks, chan, subscribed, sessions>>
  BY <1>1 DEF Subscribed, OneEpoch, TaskEpoch, Of
<1>2. ASSUME NEW t \in tasks, Connect(t) PROVE Incarnations'
  <2> DEFINE u == [t EXCEPT !.daemon = up[t.session]]
  <2>1. /\ tasks' = (tasks \ {t}) \cup {u} /\ t.daemon = 0 /\ t.session \in Sessions
        /\ UNCHANGED <<chan, subscribed, sessions>>
        /\ u.session = t.session /\ u.daemon = up[t.session] /\ u.daemon # 0
    BY <1>2 DEF Connect, DaemonsTyped, loopVars
  <2> HIDE DEF u
  <2>2. ASSUME NEW s \in Sessions PROVE Subscribed(s)' /\ OneEpoch(s)' /\ TaskEpoch(s)'
    <3>1. CASE s # t.session
      BY <2>1, <3>1, SessionUnchanged
    <3>2. CASE s = t.session
      <4>1. Of(s)' = {} /\ s \notin DOMAIN sessions' /\ s \in subscribed'
        BY <2>1, <3>2 DEF TaskEpoch, Of, Subscribed
      <4>2. \A v \in tasks' : v.session = s => v = u
        BY <2>1, <3>2 DEF TaskEpoch
      <4> QED BY <2>1, <4>1, <4>2 DEF Subscribed, OneEpoch, TaskEpoch
    <3> QED BY <3>1, <3>2
  <2> QED BY <2>1, <2>2
<1>3. ASSUME NEW t \in tasks, Push(t) PROVE Incarnations'
  <2> DEFINE m == [kind |-> "roster", session |-> t.session, epoch |-> t.daemon,
                   agents |-> roster[t.session]]
  <2>1. chan' = Append(chan, m) /\ t.daemon # 0 /\ UNCHANGED <<tasks, subscribed, sessions>>
    BY <1>3 DEF Push, loopVars
  <2>2. m.session = t.session /\ m.kind = "roster" /\ m.epoch = t.daemon
    OBVIOUS
  <2> HIDE DEF m
  <2>3. ASSUME NEW s \in Sessions PROVE Subscribed(s)' /\ OneEpoch(s)' /\ TaskEpoch(s)'
    <3>1. /\ Of(s)' = Of(s) \cup (IF m.session = s THEN {Len(chan) + 1} ELSE {})
          /\ \A i \in Of(s) : chan'[i] = chan[i] /\ i <= Len(chan)
          /\ chan'[Len(chan) + 1] = m /\ Len(chan) \in Nat
      BY <1>0, <2>1, OfAppended
    <3>2. CASE s # t.session
      <4>1. Of(s)' = Of(s) /\ \A i \in Of(s) : chan'[i] = chan[i]
        BY <2>2, <3>1, <3>2
      <4>2. {u \in tasks' : u.session = s} = {u \in tasks : u.session = s}
        BY <2>1, <3>2
      <4> QED BY <2>1, <4>1, <4>2, SessionElsewhere
    <3>3. CASE s = t.session
      <4>1. Subscribed(s)'
        BY <2>1, <3>3 DEF Subscribed
      <4>2. \A i \in Of(s)' : chan'[i].kind = "roster" /\ chan'[i].epoch = t.daemon
        BY <2>2, <3>1, <3>3 DEF TaskEpoch
      <4>3. OneEpoch(s)'
        <5>1. s \in DOMAIN sessions' => sessions'[s].epoch = t.daemon
          BY <2>1, <3>3 DEF TaskEpoch
        <5> HIDE DEF IInv, Incarnations
        <5> QED BY <4>2, <5>1 DEF OneEpoch
      <4>4. TaskEpoch(s)'
        BY <2>1, <3>3, <4>2 DEF TaskEpoch
      <4> QED BY <4>1, <4>3, <4>4
    <3> QED BY <3>2, <3>3
  <2> QED BY <2>1, <2>3
<1>4. ASSUME NEW t \in tasks, Close(t) PROVE Incarnations'
  <2> DEFINE m == [kind |-> "gone", session |-> t.session]
  <2>1. /\ chan' = Append(chan, m) /\ tasks' = tasks \ {t} /\ UNCHANGED <<subscribed, sessions>>
    BY <1>4 DEF Close, loopVars
  <2>2. m.session = t.session /\ m.kind = "gone"
    OBVIOUS
  <2> HIDE DEF m
  <2>3. ASSUME NEW s \in Sessions PROVE Subscribed(s)' /\ OneEpoch(s)' /\ TaskEpoch(s)'
    <3>1. /\ Of(s)' = Of(s) \cup (IF m.session = s THEN {Len(chan) + 1} ELSE {})
          /\ \A i \in Of(s) : chan'[i] = chan[i] /\ i <= Len(chan)
          /\ chan'[Len(chan) + 1] = m /\ Len(chan) \in Nat
      BY <1>0, <2>1, OfAppended
    <3>2. CASE s # t.session
      <4>1. Of(s)' = Of(s) /\ \A i \in Of(s) : chan'[i] = chan[i]
        BY <2>2, <3>1, <3>2
      <4>2. {u \in tasks' : u.session = s} = {u \in tasks : u.session = s}
        BY <2>1, <3>2
      <4> QED BY <2>1, <4>1, <4>2, SessionElsewhere
    <3>3. CASE s = t.session
      <4>1. Subscribed(s)'
        BY <2>1, <3>3 DEF Subscribed
      <4>2. \A v \in tasks' : v.session # s
        BY <2>1, <3>3 DEF TaskEpoch
      <4>3. \A i \in Of(s) : chan'[i].kind = "roster"
        BY <3>1, <3>3 DEF TaskEpoch
      <4>4. OneEpoch(s)'
        <5>0. Of(s)' = Of(s) \cup {Len(chan) + 1} /\ \A i \in Of(s) : i \in Nat
          BY <2>2, <3>1, <3>3 DEF Of
        <5>1. \A i, j \in Of(s)' : i < j => chan'[i].kind = "roster"
          BY <3>1, <4>3, <5>0
        <5>2. \A i \in Of(s)' : chan'[i].kind = "roster" => i \in Of(s) /\ chan'[i] = chan[i]
          BY <2>2, <3>1, <5>0
        <5>3. OneEpoch(s)
          OBVIOUS
        <5> HIDE DEF IInv, Incarnations
        <5>4. \A i, j \in Of(s)' : chan'[i].kind = "roster" /\ chan'[j].kind = "roster"
                                     => chan'[i].epoch = chan'[j].epoch
          BY <5>2, <5>3 DEF OneEpoch
        <5>5. s \in DOMAIN sessions' => \A i \in Of(s)' : chan'[i].kind = "roster"
                                                       => chan'[i].epoch = sessions'[s].epoch
          BY <2>1, <5>2, <5>3 DEF OneEpoch
        <5> QED BY <5>1, <5>4, <5>5 DEF OneEpoch
      <4>5. TaskEpoch(s)'
        BY <4>2 DEF TaskEpoch
      <4> QED BY <4>1, <4>4, <4>5
    <3> QED BY <3>2, <3>3
  <2> QED BY <2>1, <2>3
<1>5. CASE Scan
  <2>1. /\ subscribed' = subscribed \cup NewSessions /\ NewSessions \cap subscribed = {}
        /\ tasks' = tasks \cup {[session |-> s, daemon |-> 0] : s \in NewSessions}
        /\ UNCHANGED <<chan, sessions>>
    BY <1>5 DEF Scan, NewSessions
  <2>2. ASSUME NEW s \in Sessions PROVE Subscribed(s)' /\ OneEpoch(s)' /\ TaskEpoch(s)'
    <3>1. CASE s \notin NewSessions
      <4>1. {t \in tasks' : t.session = s} = {t \in tasks : t.session = s}
        BY <2>1, <3>1
      <4> QED BY <2>1, <3>1, <4>1, SessionUnchanged
    <3>2. CASE s \in NewSessions
      <4>1. Of(s)' = {} /\ s \notin DOMAIN sessions' /\ s \in subscribed'
            /\ \A t \in tasks : t.session # s
        BY <2>1, <3>2 DEF Subscribed, Of
      <4>2. \A t \in tasks' : t.session = s => t = [session |-> s, daemon |-> 0]
        BY <2>1, <4>1
      <4> QED BY <4>1, <4>2 DEF Subscribed, OneEpoch, TaskEpoch
    <3> QED BY <3>1, <3>2
  <2> QED BY <2>1, <2>2
<1>6. CASE Receive
  <2> DEFINE m == Head(chan)
  <2>0. chan # <<>> /\ chan' = Tail(chan) /\ UNCHANGED tasks
    BY <1>6 DEF Receive
  <2>1. m = chan[1] /\ m.session \in Sessions
    BY <1>0, <2>0, Shifted DEF DaemonsTyped
  <2> HIDE DEF m
  <2>2. CASE m.kind = "roster" /\ UNCHANGED subscribed
             /\ DOMAIN sessions' = DOMAIN sessions \cup {m.session}
             /\ sessions'[m.session].epoch = m.epoch
             /\ \A s \in DOMAIN sessions : s # m.session => sessions'[s] = sessions[s]
    <3>1. ASSUME NEW s \in Sessions PROVE Subscribed(s)' /\ OneEpoch(s)' /\ TaskEpoch(s)'
      <4>1. /\ Of(s)' = {i \in 1..Len(chan) - 1 : i + 1 \in Of(s)}
            /\ \A i \in Of(s)' : chan'[i] = chan[i + 1] /\ i + 1 \in Of(s) /\ i \in Nat \ {0}
            /\ m = chan[1] /\ (m.session = s <=> 1 \in Of(s))
        BY <1>0, <2>0, OfShifted DEF m
      <4>2. Subscribed(s)'
        BY <2>0, <2>2, <4>1 DEF Subscribed
      <4>3. OneEpoch(s)'
        <5>1. \A i, j \in Of(s)' : i < j => chan'[i].kind = "roster"
          BY <4>1 DEF OneEpoch
        <5>2. \A i, j \in Of(s)' : chan'[i].kind = "roster" /\ chan'[j].kind = "roster"
                                     => chan'[i].epoch = chan'[j].epoch
          BY <4>1 DEF OneEpoch
        <5>3. CASE s # m.session
          BY <2>2, <4>1, <5>1, <5>2, <5>3 DEF OneEpoch
        <5>4. CASE s = m.session
          <6>1. \A i \in Of(s)' : chan'[i].kind = "roster" => chan'[i].epoch = m.epoch
            BY <2>2, <4>1, <5>4 DEF OneEpoch
          <6> QED BY <2>2, <5>1, <5>2, <5>4, <6>1 DEF OneEpoch
        <5> QED BY <5>3, <5>4
      <4>4. TaskEpoch(s)'
        BY <2>0, <2>2, <4>1 DEF TaskEpoch
      <4> QED BY <4>2, <4>3, <4>4
    <3> QED BY <2>1, <2>2, <3>1
  <2>3. CASE m.kind = "gone" /\ subscribed' = subscribed \ {m.session}
             /\ sessions' = Without(sessions, {m.session})
    <3>1. DOMAIN sessions' = DOMAIN sessions \ {m.session}
          /\ \A s \in DOMAIN sessions' : sessions'[s] = sessions[s]
      BY <2>3 DEF Without
    <3>2. ASSUME NEW s \in Sessions PROVE Subscribed(s)' /\ OneEpoch(s)' /\ TaskEpoch(s)'
      <4>1. /\ Of(s)' = {i \in 1..Len(chan) - 1 : i + 1 \in Of(s)}
            /\ \A i \in Of(s)' : chan'[i] = chan[i + 1] /\ i + 1 \in Of(s) /\ i \in Nat \ {0}
            /\ m = chan[1] /\ (m.session = s <=> 1 \in Of(s))
        BY <1>0, <2>0, OfShifted DEF m
      <4>2. CASE s # m.session
        <5>1. Subscribed(s)'
          BY <2>0, <2>3, <3>1, <4>1, <4>2 DEF Subscribed
        <5>2. OneEpoch(s)'
          BY <3>1, <4>1, <4>2 DEF OneEpoch
        <5>3. TaskEpoch(s)'
          BY <2>0, <3>1, <4>1, <4>2 DEF TaskEpoch
        <5> QED BY <5>1, <5>2, <5>3
      <4>3. CASE s = m.session
        <5>1. Of(s)' = {}
          BY <2>3, <4>1, <4>3 DEF OneEpoch
        <5>2. \A t \in tasks' : t.session # s
          BY <2>0, <2>3, <4>1, <4>3 DEF TaskEpoch
        <5> QED BY <3>1, <4>3, <5>1, <5>2 DEF Subscribed, OneEpoch, TaskEpoch
      <4> QED BY <4>2, <4>3
    <3> QED BY <3>1, <3>2
  <2> QED BY <1>6, <2>2, <2>3 DEF Receive, m
<1>7. CASE Stops
  BY <1>7, Emptied DEF Subscribed, OneEpoch, TaskEpoch, Of
<1> QED BY <1>1, <1>2, <1>3, <1>4, <1>5, <1>6, <1>7, LoopSteps

-----------------------------------------------------------------------------
(* Watches                                                                 *)

\* A tail that is polled keeps what it is of.
LEMMA PolledKeeps ==
  ASSUME NEW t \in Tails, NEW c, c = file[t.path].content, c \in Seq(Halves)
  PROVE  /\ Polled(t) \in Tails /\ Polled(t).path = t.path /\ Polled(t).epoch = t.epoch
         /\ Polled(t).start = t.start /\ Polled(t).cuts = t.cuts /\ Polled(t).pos = Len(c)
<1> DEFINE bytes == t.partial \o SubSeq(c, t.pos + 1, Len(c))
           ends  == {i \in DOMAIN bytes : bytes[i] = "end"}
           whole == {i \in ends : i > 1 /\ bytes[i - 1] = "head"}
           rest  == IF bytes # <<>> /\ Last(bytes) = "head" THEN <<"head">> ELSE <<>>
<1>1. Polled(t) = [t EXCEPT !.pos = Len(c), !.partial = rest, !.lines = @ + Cardinality(whole),
                            !.torn = @ + Cardinality(ends \ whole)]
  BY DEF Polled
<1>2. bytes \in Seq(Halves)
  <2>1. t.partial \in Seq(Halves) /\ t.pos \in Nat /\ Len(c) \in Nat
    <3>1. <<>> \in Seq(Halves) /\ <<"head">> \in Seq(Halves)
      BY EmptySeq, SMT DEF Halves
    <3> QED BY <3>1, LenProperties DEF Tails
  <2>2. \A i \in t.pos + 1 .. Len(c) : c[i] \in Halves
    BY <2>1, LenProperties
  <2>3. SubSeq(c, t.pos + 1, Len(c)) \in Seq(Halves)
    BY <2>1, <2>2, SubSeqProperties
  <2> QED BY <2>1, <2>3, ConcatProperties
<1>3. Cardinality(whole) \in Nat /\ Cardinality(ends \ whole) \in Nat
  <2>1. DOMAIN bytes = 1..Len(bytes) /\ Len(bytes) \in Nat
    BY <1>2, LenProperties
  <2>2. \A n \in Nat : IsFiniteSet(1..n)
    <3>1. \A n \in Nat : n \in Int /\ 1 \in Int
      OBVIOUS
    <3> QED BY <3>1, FS_Interval
  <2>3. whole \in SUBSET (1..Len(bytes)) /\ ends \ whole \in SUBSET (1..Len(bytes))
    BY <2>1
  <2> HIDE DEF bytes, whole, ends
  <2>4. IsFiniteSet(whole) /\ IsFiniteSet(ends \ whole)
    BY <2>1, <2>2, <2>3, FS_Subset
  <2> QED BY <2>4, FS_CardinalityType
<1>4. rest \in {<<>>, <<"head">>} /\ Len(c) \in Nat
  BY LenProperties
<1> HIDE DEF bytes, rest, whole, ends
<1> DEFINE n == t.lines + Cardinality(whole)
           o == t.torn + Cardinality(ends \ whole)
<1>5. n \in Nat /\ o \in Nat
  BY <1>3 DEF Tails
<1>6. Polled(t) = [t EXCEPT !.pos = Len(c), !.partial = rest, !.lines = n, !.torn = o]
  BY <1>1
<1> HIDE DEF n, o
<1> QED BY <1>4, <1>5, <1>6 DEF Tails

LEMMA WatchesTypedStep ==
  ASSUME IInv, Next
  PROVE  WatchesTyped'
<1> USE DEF IInv, WatchesTyped
<1>1. CASE UNCHANGED watches
  BY <1>1
<1>2. CASE Receive
  BY <1>2, Zenon DEF Receive, Kept, Without
<1>3. CASE Poll
  <2>1. \A k \in DOMAIN watches : Polled(watches[k]) \in Tails
    BY PolledKeeps DEF DaemonsTyped, Tails
  <2>2. watches' = [k \in {j \in DOMAIN watches : ~Reset(watches[j])} |-> Polled(watches[k])]
    BY <1>3 DEF Poll
  <2> QED BY <2>1, <2>2
<1>4. ASSUME NEW k \in Keys, Unwatch(k) PROVE WatchesTyped'
  BY <1>4 DEF Unwatch, Without
<1>5. ASSUME NEW s \in Sessions, NEW p \in Panes, NEW full \in BOOLEAN, NEW e \in Given(s), Watch(s, p, e, full)
      PROVE  WatchesTyped'
  <2>1. CASE WatchCode(s, p, e) # "ok"
    BY <1>5, <2>1 DEF Watch
  <2>2. CASE WatchCode(s, p, e) = "ok"
    <3> DEFINE f == sessions[s].agents[p].transcript
    <3>1. f \in Files /\ e \in Nat
      BY <2>2, SMT DEF WatchCode, TranscriptsNamed, Named, Transcript, DaemonsTyped, Given, NoEpoch
    <3>2. Tail0(f, full, e) \in Tails
      <4>1. Len(file[f].content) \in Nat /\ file[f].ino \in Nat /\ file[f].cuts \in Nat
        BY <3>1, LenProperties DEF DaemonsTyped
      <4> QED BY <3>1, <4>1 DEF Tail0, Tails
    <3>3. watches' = [k \in DOMAIN watches \cup {<<s, p>>} |->
                        IF k = <<s, p>> THEN Tail0(f, full, e) ELSE watches[k]]
      BY <1>5, <2>2, Zenon DEF Watch
    <3>4. <<s, p>> \in Keys
      BY DEF Keys
    <3> QED BY <3>2, <3>3, <3>4
  <2> QED BY <2>1, <2>2
<1>6. CASE Stops
  BY <1>6, Emptied
<1> QED BY <1>1, <1>2, <1>3, <1>4, <1>5, <1>6, WatchSteps

LEMMA WatchesCurrentStep ==
  ASSUME IInv, Next
  PROVE  WatchesCurrent'
<1> USE DEF IInv, WatchesCurrent
<1>1. CASE UNCHANGED watches /\ ~Receive
  <2>1. CASE UNCHANGED <<tasks, chan, subscribed, sessions>>
    BY <1>1, <2>1
  <2>2. ASSUME NEW t \in tasks, Connect(t) \/ Push(t) \/ Close(t) PROVE WatchesCurrent'
    BY <1>1, <2>2 DEF Connect, Push, Close, loopVars
  <2>3. CASE Scan
    BY <1>1, <2>3 DEF Scan
  <2>4. CASE Stops
    BY <2>4, Emptied
  <2> QED BY <1>1, <2>1, <2>2, <2>3, <2>4, LoopSteps
<1>2. CASE Receive
  <2> DEFINE m == Head(chan)
  <2>1. chan # <<>> /\ m = chan[1] /\ m.session \in Sessions /\ 1 \in Of(m.session)
    BY <1>2, Shifted DEF Receive, DaemonsTyped, Of
  <2> HIDE DEF m
  <2>2. CASE m.kind = "roster" /\ UNCHANGED watches
             /\ DOMAIN sessions' = DOMAIN sessions \cup {m.session}
             /\ sessions'[m.session].epoch = m.epoch
             /\ \A s \in DOMAIN sessions : s # m.session => sessions'[s] = sessions[s]
    <3>1. m.session \in DOMAIN sessions => m.epoch = sessions[m.session].epoch
      BY <2>1, <2>2 DEF Incarnations, OneEpoch
    <3> QED BY <2>2, <3>1
  <2>3. CASE m.kind = "gone" /\ sessions' = Without(sessions, {m.session}) /\ watches' = Kept(m.session)
    <3>1. /\ DOMAIN watches' = DOMAIN watches \ ({m.session} \X Panes)
          /\ \A k \in DOMAIN watches' : watches'[k] = watches[k]
      BY <2>3 DEF Kept, Without
    <3>2. \A k \in DOMAIN watches' : k[1] # m.session
      BY <3>1 DEF WatchesTyped, Keys
    <3> QED BY <2>3, <3>1, <3>2 DEF Without
  <2> QED BY <1>2, <2>2, <2>3 DEF Receive, m
<1>3. CASE Poll
  <2>1. \A k \in DOMAIN watches : Polled(watches[k]).epoch = watches[k].epoch
    BY PolledKeeps DEF DaemonsTyped, Tails, WatchesTyped
  <2>2. watches' = [k \in {j \in DOMAIN watches : ~Reset(watches[j])} |-> Polled(watches[k])]
        /\ UNCHANGED sessions
    BY <1>3 DEF Poll
  <2> QED BY <2>1, <2>2
<1>4. ASSUME NEW k \in Keys, Unwatch(k) PROVE WatchesCurrent'
  BY <1>4 DEF Unwatch, Without, Answered
<1>5. ASSUME NEW s \in Sessions, NEW p \in Panes, NEW full \in BOOLEAN, NEW e \in Given(s), Watch(s, p, e, full)
      PROVE  WatchesCurrent'
  <2>0. UNCHANGED sessions
    BY <1>5, Zenon DEF Watch, Answered
  <2>1. CASE WatchCode(s, p, e) # "ok"
    BY <1>5, <2>0, <2>1, Zenon DEF Watch
  <2>2. CASE WatchCode(s, p, e) = "ok"
    <3> DEFINE t == Tail0(sessions[s].agents[p].transcript, full, e)
    <3>1. s \in DOMAIN sessions /\ e = sessions[s].epoch
      BY <2>2, SMT DEF WatchCode
    <3>2. t.epoch = e
      BY DEF Tail0
    <3>3. watches' = [k \in DOMAIN watches \cup {<<s, p>>} |-> IF k = <<s, p>> THEN t ELSE watches[k]]
      BY <1>5, <2>2, Zenon DEF Watch
    <3> HIDE DEF t
    <3>4. <<s, p>>[1] = s
      OBVIOUS
    <3> QED BY <2>0, <3>1, <3>2, <3>3, <3>4
  <2> QED BY <2>1, <2>2
<1>6. CASE Stops
  BY <1>6, Emptied
<1> QED BY <1>1, <1>2, <1>3, <1>4, <1>5, <1>6, WatchSteps

-----------------------------------------------------------------------------
(* Tails                                                                   *)


\* The half lines read after the p-th, behind what was kept of the line they go on with.
Bytes(c, partial, p) == partial \o SubSeq(c, p + 1, Len(c))
Whole(b)             == {i \in DOMAIN b : b[i] = "end" /\ i > 1 /\ b[i - 1] = "head"}

LEMMA BytesRead ==
  ASSUME NEW c \in Seq(Halves), NEW p \in Nat, p <= Len(c), NEW a \in Nat
  PROVE  LET u == Unfinished(c, a, p)
             b == Bytes(c, u, p)
         IN  /\ Len(u) \in {0, 1} /\ (Len(u) = 1 <=> (p > a /\ c[p] = "head"))
             /\ b \in Seq(Halves) /\ Len(b) \in Nat /\ Len(b) = Len(u) + Len(c) - p
             /\ DOMAIN b = 1..Len(b)
             /\ \A j \in 1..Len(b) : b[j] = c[p - Len(u) + j]
<1> DEFINE u   == Unfinished(c, a, p)
           sub == SubSeq(c, p + 1, Len(c))
           b   == Bytes(c, u, p)
<1>1. /\ Len(c) \in Nat /\ sub \in Seq(Halves) /\ Len(sub) = Len(c) - p
      /\ \A i \in 1..Len(c) - p : sub[i] = c[p + i]
  BY LenProperties, SMT
<1>2. b = u \o sub
  BY DEF Bytes
<1> HIDE DEF sub, b
<1>3. CASE p > a /\ c[p] = "head"
  <2>1. u = <<"head">> /\ Len(u) = 1 /\ u \in Seq(Halves) /\ u[1] = c[p]
    BY <1>3, SMT DEF Unfinished, Halves
  <2> HIDE DEF u
  <2>2. /\ b \in Seq(Halves) /\ Len(b) = 1 + (Len(c) - p) /\ DOMAIN b = 1..Len(b) /\ Len(b) \in Nat
        /\ \A i \in 1 .. Len(b) : b[i] = IF i <= 1 THEN u[i] ELSE sub[i - 1]
    <3>1. /\ b \in Seq(Halves) /\ Len(b) = Len(u) + Len(sub)
          /\ \A i \in 1 .. Len(u) + Len(sub) : b[i] = IF i <= Len(u) THEN u[i] ELSE sub[i - Len(u)]
      BY <1>1, <1>2, <2>1, ConcatProperties
    <3> QED BY <1>1, <2>1, <3>1, LenProperties
  <2>3. \A j \in 1..Len(b) : b[j] = c[p - 1 + j]
    <3> SUFFICES ASSUME NEW j \in 1..Len(b) PROVE b[j] = c[p - 1 + j]
      OBVIOUS
    <3>1. CASE j = 1
      BY <2>1, <2>2, <3>1
    <3>2. CASE j # 1
      <4>1. j - 1 \in 1..Len(c) - p /\ p + (j - 1) = p - 1 + j /\ ~(j <= 1)
        BY <1>1, <2>2, <3>2
      <4> QED BY <1>1, <2>2, <4>1
    <3> QED BY <3>1, <3>2
  <2> QED BY <1>1, <1>3, <2>1, <2>2, <2>3 DEF b, u
<1>4. CASE ~(p > a /\ c[p] = "head")
  <2>1. u = <<>> /\ Len(u) = 0
    BY <1>4, EmptySeq DEF Unfinished
  <2> HIDE DEF u
  <2>2. b = sub
    BY <1>1, <1>2, <2>1, ConcatEmptySeq
  <2> QED BY <1>1, <1>4, <2>1, <2>2, LenProperties DEF b, u
<1> QED BY <1>3, <1>4

\* The lines completed among the bytes are those of the file between the two positions.
LEMMA LinesRead ==
  ASSUME NEW c \in Seq(Halves), NEW p \in Nat, p <= Len(c), NEW a \in Nat, a <= p
  PROVE  LET b == Bytes(c, Unfinished(c, a, p), p)
         IN  /\ IF b # <<>> /\ Last(b) = "head" THEN Unfinished(c, a, Len(c)) = <<"head">>
                                                ELSE Unfinished(c, a, Len(c)) = <<>>
             /\ Cardinality(Lines(c, a, Len(c)))
                  = Cardinality(Lines(c, a, p)) + Cardinality(Whole(b))
<1> DEFINE L == Len(c)
           k == Len(Unfinished(c, a, p))
           b == Bytes(c, Unfinished(c, a, p), p)
           n == Len(b)
           fresh == {i \in p + 1 .. L : i >= a + 2 /\ c[i] = "end" /\ c[i - 1] = "head"}
<1>1. /\ L \in Nat /\ k \in Nat /\ n \in Nat /\ (k = 0 \/ k = 1) /\ (k = 1 <=> (p > a /\ c[p] = "head"))
      /\ n = k + L - p /\ DOMAIN b = 1..n /\ b \in Seq(Halves)
  BY BytesRead, LenProperties
<1>2. \A j \in 1..n : b[j] = c[p - k + j]
  BY BytesRead
<1>3. Last(b) = b[n] /\ (b # <<>> <=> n > 0)
  BY <1>1, EmptySeq DEF Last
<1>4. p <= L /\ Unfinished(c, a, L) = Unfinished(c, a, Len(c))
  OBVIOUS
<1>5. Unfinished(c, a, L) = IF L > a /\ c[L] = "head" THEN <<"head">> ELSE <<>>
  BY DEF Unfinished
<1>6. Lines(c, a, L) = {i \in a + 2 .. L : c[i] = "end" /\ c[i - 1] = "head"}
  BY DEF Lines
<1>7. Lines(c, a, p) = {i \in a + 2 .. p : c[i] = "end" /\ c[i - 1] = "head"}
  BY DEF Lines
<1> SUFFICES /\ IF b # <<>> /\ Last(b) = "head" THEN Unfinished(c, a, L) = <<"head">>
                                                ELSE Unfinished(c, a, L) = <<>>
             /\ Cardinality(Lines(c, a, L)) = Cardinality(Lines(c, a, p)) + Cardinality(Whole(b))
  OBVIOUS
<1> HIDE DEF L, k, b, n
<1>8. IF b # <<>> /\ Last(b) = "head" THEN Unfinished(c, a, L) = <<"head">>
                                      ELSE Unfinished(c, a, L) = <<>>
  <2>1. CASE n > 0
    <3>1. n \in 1..n /\ p - k + n = L
      BY <1>1, <2>1
    <3>2. b[n] = c[L]
      BY <1>2, <3>1
    <3>3. c[L] = "head" => L > a
      BY <1>1, <1>4, <2>1
    <3> QED BY <1>3, <1>5, <2>1, <3>2, <3>3
  <2>2. CASE ~(n > 0)
    <3>1. k = 0 /\ L = p
      BY <1>1, <1>4, <2>2
    <3>2. ~(L > a /\ c[L] = "head")
      BY <1>1, <3>1
    <3> QED BY <1>3, <1>5, <2>2, <3>2
  <2> QED BY <2>1, <2>2
<1>9. Whole(b) = {j \in 2..n : b[j] = "end" /\ b[j - 1] = "head"}
  BY <1>1 DEF Whole
<1>10. ExistsBijection(Whole(b), fresh)
  <2> DEFINE f == [j \in Whole(b) |-> p - k + j]
  <2>1. ASSUME NEW j \in Whole(b) PROVE p - k + j \in fresh
    <3>1. j \in 2..n /\ j - 1 \in 1..n /\ j \in 1..n /\ b[j] = "end" /\ b[j - 1] = "head"
      BY <1>1, <1>9
    <3>2. p - k + j \in p + 1 .. L /\ p - k + j >= a + 2 /\ p - k + (j - 1) = (p - k + j) - 1
      BY <1>1, <1>4, <3>1
    <3> QED BY <1>2, <3>1, <3>2
  <2>2. ASSUME NEW i \in fresh PROVE i - p + k \in Whole(b) /\ p - k + (i - p + k) = i
    <3>1. i \in p + 1 .. L /\ i >= a + 2 /\ c[i] = "end" /\ c[i - 1] = "head"
      OBVIOUS
    <3>2. k = 0 => i # p + 1
      BY <1>1, <3>1
    <3>3. /\ i - p + k \in 2..n /\ i - p + k \in 1..n /\ (i - p + k) - 1 \in 1..n
          /\ p - k + (i - p + k) = i /\ p - k + ((i - p + k) - 1) = i - 1
      BY <1>1, <1>4, <3>1, <3>2
    <3>4. b[i - p + k] = "end" /\ b[(i - p + k) - 1] = "head"
      BY <1>2, <3>1, <3>3
    <3> QED BY <1>9, <3>3, <3>4
  <2>3. \A i, j \in Whole(b) : p - k + i = p - k + j => i = j
    BY <1>1, <1>9
  <2> HIDE DEF fresh
  <2>4. f \in [Whole(b) -> fresh]
    BY <2>1
  <2>5. \A i, j \in Whole(b) : f[i] = f[j] => i = j
    BY <2>3
  <2>6. \A i \in fresh : \E j \in Whole(b) : f[j] = i
    BY <2>2
  <2> HIDE DEF f
  <2> QED BY <2>4, <2>5, <2>6 DEF ExistsBijection, Bijection, Injection, IsInjective, Surjection
<1>11. Lines(c, a, L) = Lines(c, a, p) \cup fresh /\ Lines(c, a, p) \cap fresh = {}
  BY <1>1, <1>4, <1>6, <1>7
<1>12. IsFiniteSet(Whole(b)) /\ IsFiniteSet(Lines(c, a, p))
  <2>1. \A m \in Nat : IsFiniteSet(1..m)
    <3>1. \A m \in Nat : m \in Int /\ 1 \in Int
      OBVIOUS
    <3> QED BY <3>1, FS_Interval
  <2>2. Whole(b) \in SUBSET (1..n)
    BY <1>1, <1>9
  <2>3. Lines(c, a, p) \in SUBSET (1..p)
    BY <1>7
  <2> QED BY <1>1, <2>1, <2>2, <2>3, FS_Subset
<1> HIDE DEF fresh
<1>13. IsFiniteSet(fresh) /\ Cardinality(fresh) = Cardinality(Whole(b))
  BY <1>10, <1>12, FS_Bijection
<1>14. Cardinality(Lines(c, a, L)) = Cardinality(Lines(c, a, p)) + Cardinality(fresh) - Cardinality({})
  BY <1>11, <1>12, <1>13, FS_Union
<1>15. /\ Cardinality({}) = 0 /\ Cardinality(Lines(c, a, p)) \in Nat
       /\ Cardinality(Whole(b)) \in Nat
  BY <1>12, FS_EmptySet, FS_CardinalityType
<1>16. Cardinality(Lines(c, a, L)) = Cardinality(Lines(c, a, p)) + Cardinality(Whole(b))
  BY <1>13, <1>14, <1>15
<1> QED BY <1>8, <1>16

\* A poll of a file that was not cut.
LEMMA PolledIsWhole ==
  ASSUME NEW t \in Tails, NEW c \in Seq(Halves), c = file[t.path].content,
         t.start <= t.pos, t.pos <= Len(c),
         t.partial = Unfinished(c, t.start, t.pos),
         t.lines = Cardinality(Lines(c, t.start, t.pos))
  PROVE  /\ Polled(t).partial = Unfinished(c, t.start, Len(c))
         /\ Polled(t).lines = Cardinality(Lines(c, t.start, Len(c)))
<1> DEFINE b == Bytes(c, t.partial, t.pos)
<1>1. t \in Tails /\ t.pos \in Nat /\ t.start \in Nat
  BY DEF Tails
<1>2. {i \in {j \in DOMAIN b : b[j] = "end"} : i > 1 /\ b[i - 1] = "head"} = Whole(b)
  BY DEF Whole
<1> DEFINE pieces == Cardinality({i \in DOMAIN b : b[i] = "end"} \ Whole(b))
<1>3. Polled(t) = [t EXCEPT !.pos = Len(c), !.lines = @ + Cardinality(Whole(b)),
                            !.torn = @ + pieces, !.partial = IF b # <<>> /\ Last(b) = "head" THEN <<"head">> ELSE <<>>]
  BY ZenonT(30), <1>1, <1>2 DEF Polled, Bytes, Tails
<1>4. /\ Polled(t).lines = t.lines + Cardinality(Whole(b))
      /\ Polled(t).partial = IF b # <<>> /\ Last(b) = "head" THEN <<"head">> ELSE <<>>
  <2> HIDE DEF b, pieces
  <2> QED BY <1>1, <1>3 DEF Tails
<1>5. /\ IF b # <<>> /\ Last(b) = "head" THEN Unfinished(c, t.start, Len(c)) = <<"head">>
                                         ELSE Unfinished(c, t.start, Len(c)) = <<>>
      /\ Cardinality(Lines(c, t.start, Len(c)))
           = Cardinality(Lines(c, t.start, t.pos)) + Cardinality(Whole(b))
  BY <1>1, LinesRead
<1> HIDE DEF b
<1> QED BY <1>4, <1>5

\* A file that grows keeps what a tail has read of it.
LEMMA GrownKeeps ==
  ASSUME NEW c \in Seq(Halves), NEW h \in Halves, NEW a \in Nat, NEW p \in Nat, p <= Len(c)
  PROVE  /\ p <= Len(Append(c, h))
         /\ Unfinished(Append(c, h), a, p) = Unfinished(c, a, p)
         /\ Lines(Append(c, h), a, p) = Lines(c, a, p)
<1> DEFINE d == Append(c, h)
<1>1. Len(c) \in Nat /\ Len(d) = Len(c) + 1 /\ \A i \in 1..Len(c) : d[i] = c[i]
  BY AppendProperties, LenProperties
<1> HIDE DEF d
<1>2. Unfinished(d, a, p) = Unfinished(c, a, p)
  BY <1>1 DEF Unfinished
<1>3. \A i \in a + 2 .. p : d[i] = c[i] /\ d[i - 1] = c[i - 1]
  BY <1>1
<1>4. Lines(d, a, p) = Lines(c, a, p)
  BY <1>3 DEF Lines
<1> QED BY <1>1, <1>2, <1>4 DEF d

LEMMA TailsStep ==
  ASSUME IInv, Next
  PROVE  TailsInv'
<1>0. /\ file \in [Files -> [ino : Nat, content : Seq(Halves), cuts : Nat]]
      /\ \A k \in DOMAIN watches : watches[k] \in Tails /\ TailOK(watches[k])
  BY DEF IInv, DaemonsTyped, WatchesTyped, TailsInv
<1>1. CASE UNCHANGED <<watches, file>>
  BY <1>0, <1>1 DEF TailsInv, TailOK
<1>2. ASSUME NEW f \in Files, Append1(f) PROVE TailsInv'
  <2> DEFINE c == file[f].content
             h == IF c # <<>> /\ Last(c) = "head" THEN "end" ELSE "head"
  <2>1. file' = [file EXCEPT ![f].content = Append(c, h)] /\ UNCHANGED watches /\ h \in Halves
    BY <1>2, Zenon DEF Append1, loopVars, Halves
  <2> HIDE DEF h
  <2>2. ASSUME NEW k \in DOMAIN watches PROVE TailOK(watches[k])'
    <3> DEFINE t == watches[k]
    <3>0. t \in Tails /\ TailOK(t) /\ t' = t
      BY <1>0, <2>1
    <3> HIDE DEF t
    <3>1. t.path \in Files /\ t.pos \in Nat /\ t.start \in Nat
      BY <3>0 DEF Tails
    <3>2. CASE t.path # f
      <4>1. file'[t.path] = file[t.path]
        BY <1>0, <2>1, <3>1, <3>2
      <4>2. TailOK(t)'
        BY <3>0, <4>1 DEF TailOK
      <4> QED BY <4>2 DEF t
    <3>3. CASE t.path = f
      <4>1. c \in Seq(Halves) /\ file'[f].content = Append(c, h) /\ file'[f].cuts = file[f].cuts
        BY <1>0, <2>1
      <4> HIDE DEF c
      <4>2. c = file[f].content
        BY DEF c
      <4>3. t.pos <= Len(c) => /\ t.pos <= Len(Append(c, h))
                               /\ Unfinished(Append(c, h), t.start, t.pos) = Unfinished(c, t.start, t.pos)
                               /\ Lines(Append(c, h), t.start, t.pos) = Lines(c, t.start, t.pos)
        BY <2>1, <3>1, <4>1, GrownKeeps
      <4>4. TailOK(t)'
        BY <3>0, <3>3, <4>1, <4>2, <4>3 DEF TailOK
      <4> QED BY <4>4 DEF t
    <3> QED BY <3>2, <3>3
  <2> QED BY <2>1, <2>2 DEF TailsInv
<1>3. ASSUME NEW f \in Files, NEW b \in BOOLEAN, Replace(f, b) PROVE TailsInv'
  <2>1. /\ UNCHANGED watches
        /\ \A g \in Files : g # f => file'[g] = file[g]
        /\ file'[f].cuts = file[f].cuts + 1
    BY <1>0, <1>3 DEF Replace, loopVars
  <2>2. ASSUME NEW k \in DOMAIN watches PROVE TailOK(watches[k])'
    <3> DEFINE t == watches[k]
    <3>0. t \in Tails /\ TailOK(t) /\ t' = t
      BY <1>0, <2>1
    <3> HIDE DEF t
    <3>1. t.path \in Files /\ t.cuts \in Nat /\ file[f].cuts \in Nat
      BY <1>0, <3>0 DEF Tails
    <3>2. TailOK(t)'
      BY <2>1, <3>0, <3>1 DEF TailOK
    <3> QED BY <3>2 DEF t
  <2> QED BY <2>1, <2>2 DEF TailsInv
<1>4. CASE Receive
  <2>1. UNCHANGED file /\ DOMAIN watches' \subseteq DOMAIN watches
        /\ \A k \in DOMAIN watches' : watches'[k] = watches[k]
    BY <1>4, Zenon DEF Receive, Kept, Without
  <2> QED BY <1>0, <2>1 DEF TailsInv, TailOK
<1>5. CASE Poll
  <2>1. UNCHANGED file
        /\ watches' = [k \in {j \in DOMAIN watches : ~Reset(watches[j])} |-> Polled(watches[k])]
    BY <1>5 DEF Poll
  <2>2. ASSUME NEW k \in DOMAIN watches, ~Reset(watches[k]) PROVE TailOK(Polled(watches[k]))
    <3> DEFINE t == watches[k]
               c == file[t.path].content
               q == Polled(t)
    <3>1. t \in Tails /\ TailOK(t) /\ c \in Seq(Halves) /\ t.path \in Files
      BY <1>0 DEF Tails
    <3>2. Len(c) \in Nat /\ t.pos \in Nat /\ t.start \in Nat
      BY <3>1, LenProperties DEF Tails
    <3>3. /\ q.path = t.path /\ q.start = t.start /\ q.cuts = t.cuts /\ q.pos = Len(c)
      BY <3>1, PolledKeeps
    <3>4. t.cuts = file[t.path].cuts =>
            /\ t.start <= t.pos /\ t.pos <= Len(c)
            /\ q.partial = Unfinished(c, t.start, Len(c))
            /\ q.lines = Cardinality(Lines(c, t.start, Len(c)))
      BY <3>1, PolledIsWhole DEF TailOK
    <3>5. c = file[q.path].content
      BY <3>3
    <3>6. t.cuts <= file[t.path].cuts
      BY <3>1 DEF TailOK
    <3> HIDE DEF q, c, t
    <3>7. TailOK(q)
      BY <3>2, <3>3, <3>4, <3>5, <3>6 DEF TailOK
    <3> QED BY <3>7 DEF q, t
  <2> QED BY <2>1, <2>2 DEF TailsInv, TailOK
<1>6. ASSUME NEW k \in Keys, Unwatch(k) PROVE TailsInv'
  <2>1. UNCHANGED file /\ watches' = Without(watches, {k})
    BY <1>6 DEF Unwatch, Answered
  <2> QED BY <1>0, <2>1 DEF TailsInv, TailOK, Without
<1>7. ASSUME NEW s \in Sessions, NEW p \in Panes, NEW full \in BOOLEAN, NEW e \in Given(s), Watch(s, p, e, full)
      PROVE  TailsInv'
  <2>0. UNCHANGED file
    BY <1>7, Zenon DEF Watch, Answered
  <2>1. CASE WatchCode(s, p, e) # "ok"
    <3>1. UNCHANGED watches
      BY <1>7, <2>1, Zenon DEF Watch
    <3> QED BY <1>1, <2>0, <3>1
  <2>2. CASE WatchCode(s, p, e) = "ok"
    <3> DEFINE f == sessions[s].agents[p].transcript
               t == Tail0(f, full, e)
               c == file[f].content
    <3>1. f \in Files
      BY <2>2, SMT DEF WatchCode, IInv, TranscriptsNamed, Named, Transcript, NoEpoch
    <3>2. watches' = [k \in DOMAIN watches \cup {<<s, p>>} |-> IF k = <<s, p>> THEN t ELSE watches[k]]
      BY <1>7, <2>2, Zenon DEF Watch
    <3>3. /\ t.path = f /\ t.pos = t.start /\ t.partial = <<>> /\ t.cuts = file[f].cuts
          /\ t.lines = 0 /\ t.start \in {0, Len(c)}
      BY DEF Tail0
    <3> HIDE DEF f, t
    <3>4. Len(c) \in Nat /\ file[f].cuts \in Nat
      BY <1>0, <3>1, LenProperties
    <3>5. Lines(c, t.start, t.start) = {} /\ Unfinished(c, t.start, t.start) = <<>>
      BY <3>3, <3>4 DEF Lines, Unfinished
    <3>6. TailOK(t)
      BY <3>3, <3>4, <3>5, FS_EmptySet DEF TailOK
    <3> QED BY <1>0, <2>0, <3>2, <3>6 DEF TailsInv, TailOK
  <2> QED BY <2>1, <2>2
<1>11. CASE Stops
  BY <1>11, Emptied DEF TailsInv
<1>8. UNCHANGED watches \/ UNCHANGED file
  BY FileSteps, Zenon DEF Append1, Replace, loopVars
<1>9. CASE UNCHANGED watches
  BY <1>1, <1>2, <1>3, <1>9, FileSteps
<1>10. CASE ~UNCHANGED watches
  BY <1>4, <1>5, <1>6, <1>7, <1>10, <1>11, WatchSteps
<1> QED BY <1>9, <1>10

-----------------------------------------------------------------------------

LEMMA StepHolds == IInv /\ [Next]_vars => IInv'
<1> SUFFICES ASSUME IInv, [Next]_vars PROVE IInv'
  OBVIOUS
<1>1. CASE Next
  BY <1>1, DaemonsTypedStep, TranscriptsNamedStep, WatchesTypedStep, CommandsStep,
     IncarnationsStep, WatchesCurrentStep, TailsStep DEF IInv
<1>2. CASE UNCHANGED vars
  <2>1. UNCHANGED <<up, epochs, socket, agents, roster, file, tasks, chan, loop, subscribed,
                    sessions, watches, busy, count, replies, applied>>
    BY <1>2 DEF vars, daemonVars, loopVars, cmdVars
  <2>2. DaemonsTyped' /\ TranscriptsNamed' /\ WatchesTyped'
    BY <2>1 DEF IInv, DaemonsTyped, TranscriptsNamed, WatchesTyped
  <2>3. CommandsInv'
    BY <2>1 DEF IInv, CommandsInv, CommandsAccounted
  <2>4. Incarnations' /\ WatchesCurrent'
    BY <2>1 DEF IInv, Incarnations, Subscribed, OneEpoch, TaskEpoch, Of, WatchesCurrent
  <2>5. TailsInv'
    BY <2>1 DEF IInv, TailsInv, TailOK
  <2> QED BY <2>2, <2>3, <2>4, <2>5 DEF IInv
<1> QED BY <1>1, <1>2

LEMMA Inductive == Spec => []IInv
BY InitHolds, StepHolds, PTL DEF Spec

\* However the halves of lines come and the polls fall, a tail of a file that is not cut
\* has delivered, each once, the lines that were begun and completed since it was opened
\* (TranscriptTail::poll).
THEOREM TailsWholeHolds == Spec => []TailsWhole
<1>1. IInv => TailsWhole
  BY DEF IInv, TailsInv, TailOK, TailsWhole, Lines
<1> QED BY <1>1, Inductive, PTL

\* However daemons restart and the ends of connections, scans and rosters interleave, a
\* watch is of the incarnation of its session that the bridge knows.
THEOREM WatchesCurrentHolds == Spec => []WatchesCurrent
<1>1. IInv => WatchesCurrent
  BY DEF IInv
<1> QED BY <1>1, Inductive, PTL

\* Every line of text a consumer writes is answered once, unless the bridge ended at one
\* that is no UTF-8, and a definite answer tells what was done, although the daemon may
\* end at any moment of it.
THEOREM CommandsAccountedHolds == Spec => []CommandsAccounted
<1>1. IInv => CommandsAccounted
  BY DEF IInv, CommandsInv
<1> QED BY <1>1, Inductive, PTL
=============================================================================
