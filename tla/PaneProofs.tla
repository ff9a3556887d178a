----------------------------- MODULE PaneProofs -----------------------------
(***************************************************************************)
(* Theorems about what goes on in panes: about the watch over agents       *)
(* (Agents), for any panes, agents, screens and bounds, and the matching   *)
(* of panes with transcripts, for any history; about the way of a          *)
(* pane's output to its screen (Pty), for any panes and bounds; and about  *)
(* the names, labels and branches that are shown (Names), for any command  *)
(* lines, transcripts, directories, interval and bounds.                   *)
(***************************************************************************)
EXTENDS MCAgents, SequenceTheorems, FiniteSetTheorems, WellFoundedInduction, TLAPS

States    == {"idle", "working", "blocked", "done"}
Readable  == {"idle", "working", "blocked"}
Watches   == [agent : Kinds \cup {None}, idPid : Int, state : States, streak : 0..2]
Processes == [pid : Int, name : Kinds \cup {"shell"}]

\* A streak amid work tells that the last tick read the screen as idle.
WatchInv ==
  /\ now \in Nat
  /\ fg \in [Panes -> Processes]
  /\ screen \in [Panes -> Screens]
  /\ watch \in [Panes -> Watches]
  /\ \A p \in Panes : watch[p].state \in {"working", "blocked"} /\ watch[p].streak # 0
                        => p \in quiet
  /\ \A p \in Panes : watch[p].agent = None => watch[p].state = "idle"

\* The classifiers never answer "done": only the hysteresis does.
LEMMA ReadingsTyped == \A k \in Kinds, s \in Screens : Readings[k][s] \in Readable
<1>1. ASSUME NEW k \in Kinds, NEW s \in Screens PROVE Classify(k, s) \in Readable
  BY <1>1 DEF Classify, ClassifyClaude, ClassifyCodex, Readable
<1> QED
  BY <1>1 DEF Readings

\* Two idle readings in a row end the work.
LEMMA StabilizedFacts ==
  ASSUME NEW v \in Watches, NEW r \in Readable, NEW p \in Panes,
         NEW w, w = Stabilized(v, r, p = front)
  PROVE  /\ w \in Watches /\ w.agent = v.agent /\ w.idPid = v.idPid
         /\ w.state \in {"working", "blocked"} /\ w.streak # 0 => r = "idle"
         /\ w.state = "done" => \/ v.state = "done"
                                \/ /\ v.state \in {"working", "blocked"} /\ v.streak # 0
                                   /\ r = "idle" /\ p # front
<1> DEFINE With(state, streak) == [v EXCEPT !.state = state, !.streak = streak]
<1>1. ASSUME NEW state \in States, NEW streak \in 0..2
      PROVE  /\ With(state, streak) \in Watches
             /\ With(state, streak).agent = v.agent /\ With(state, streak).idPid = v.idPid
             /\ With(state, streak).state = state /\ With(state, streak).streak = streak
  BY DEF Watches
<1>2. v.state \in States /\ v.streak \in 0..2 /\ [v EXCEPT !.streak = 1] = With(v.state, 1)
  BY DEF Watches
<1>3. CASE r # "idle"
  <2>1. w = With(r, 0)
    BY <1>3 DEF Stabilized
  <2>2. r \in States /\ r # "done"
    BY DEF Readable, States
  <2> HIDE DEF With
  <2> QED
    BY <1>1, <2>1, <2>2
<1>4. CASE r = "idle" /\ v.state \in {"working", "blocked"} /\ v.streak = 0
  <2>1. w = With(v.state, 1)
    BY <1>2, <1>4 DEF Stabilized
  <2> HIDE DEF With
  <2> QED
    BY <1>1, <1>2, <1>4, <2>1
<1>5. CASE r = "idle" /\ v.state \in {"working", "blocked"} /\ v.streak # 0
  <2>1. w = With(IF p = front THEN "idle" ELSE "done", 2)
    BY <1>5 DEF Stabilized
  <2>2. (IF p = front THEN "idle" ELSE "done") \in States
    BY DEF States
  <2> HIDE DEF With
  <2> QED
    BY <1>1, <1>5, <2>1, <2>2
<1>6. CASE r = "idle" /\ v.state \notin {"working", "blocked"}
  <2>1. w = With(IF p = front THEN "idle" ELSE v.state, 2)
    BY <1>6 DEF Stabilized
  <2>2. (IF p = front THEN "idle" ELSE v.state) \in States
    BY <1>2 DEF States
  <2> HIDE DEF With
  <2> QED
    BY <1>1, <1>6, <2>1, <2>2
<1> QED
  BY <1>3, <1>4, <1>5, <1>6

\* What a tick makes of a pane.
LEMMA WatchedFacts ==
  ASSUME WatchInv, NEW p \in Panes, NEW seen \in Int, NEW known \in BOOLEAN,
         NEW w, w = Watched(p, seen, known)
  PROVE  /\ w \in Watches
         /\ w.agent = None => w.state = "idle"
         /\ w.state \in {"working", "blocked"} /\ w.streak # 0 => Reading(w, p) = "idle"
         /\ w.state = "done" /\ watch[p].state # "done" =>
              /\ watch[p].state \in {"working", "blocked"} /\ watch[p].streak # 0
              /\ Reading(w, p) = "idle" /\ w.idPid = watch[p].idPid /\ p # front
<1> DEFINE v == Identified(p, seen, fg[p].name, known)
           r == Reading(v, p)
<1>1. v \in Watches /\ (v = watch[p] \/ (v.state = "idle" /\ v.streak = 0))
  <2>1. fg[p].name \in Kinds \cup {"shell"} /\ watch[p] \in Watches
    BY DEF WatchInv, Processes
  <2>2. AgentFor(fg[p].name) \in Kinds \cup {None}
    BY <2>1 DEF AgentFor, None
  <2> DEFINE First == [agent |-> AgentFor(fg[p].name), idPid |-> seen,
                       state |-> "idle", streak |-> 0]
  <2>3. v \in {Blank, watch[p], First}
    BY DEF Identified, Blank
  <2>4. First \in Watches /\ Blank \in Watches
    BY <2>2 DEF Blank, NoPid, Watches, States
  <2> QED
    BY <2>1, <2>3, <2>4 DEF Blank
<1>2. CASE v.agent = None
  <2>1. w = v
    BY <1>2 DEF Watched
  <2> QED
    BY <1>1, <1>2, <2>1 DEF WatchInv, Reading
<1>3. CASE v.agent # None
  <2>1. r \in Readable
    BY <1>1, <1>3, ReadingsTyped DEF Reading, Watches, WatchInv
  <2>2. w = Stabilized(v, r, p = front)
    BY <1>3 DEF Watched
  <2> HIDE DEF v, r
  <2>3. /\ w \in Watches /\ w.agent = v.agent /\ w.idPid = v.idPid
        /\ w.state \in {"working", "blocked"} /\ w.streak # 0 => r = "idle"
        /\ w.state = "done" => \/ v.state = "done"
                               \/ /\ v.state \in {"working", "blocked"} /\ v.streak # 0
                                  /\ r = "idle" /\ p # front
    BY <1>1, <2>1, <2>2, StabilizedFacts
  <2>4. Reading(w, p) = r
    BY <2>3 DEF Reading, r
  <2> QED
    BY <1>1, <1>3, <2>3, <2>4
<1> QED
  BY <1>2, <1>3

LEMMA WatchInvInit == Init => WatchInv
<1> SUFFICES ASSUME Init PROVE WatchInv
  OBVIOUS
<1>1. Panes \subseteq Nat
  BY PanesAssumption
<1>2. (CHOOSE s \in Screens : Classify("claude", s) = "idle") \in Screens
  BY ScreensAssumption
<1>3. screen \in [Panes -> Screens]
  BY <1>2 DEF Init
<1>4. fg \in [Panes -> Processes]
  BY <1>1 DEF Init, Shell, Processes
<1> QED
  BY <1>3, <1>4 DEF Init, WatchInv, Watches, States, Blank, NoPid

\* The only step that reads screens is the tick.
LEMMA TickFacts ==
  ASSUME WatchInv, NEW lost, NEW unnamed, AgentTick(lost, unnamed), NEW p \in Panes
  PROVE  \E seen \in Int, known \in BOOLEAN :
           /\ watch'[p] = Watched(p, seen, known)
           /\ p \in quiet' <=> Reading(watch'[p], p) = "idle"
<1> DEFINE seen(q) == IF q \in lost THEN NoPid ELSE fg[q].pid
<1>1. seen(p) \in Int
  BY DEF WatchInv, Processes, NoPid
<1>2. watch'[p] = Watched(p, seen(p), p \notin unnamed)
  BY DEF AgentTick
<1>3. p \in quiet' <=> Reading(watch'[p], p) = "idle"
  BY DEF AgentTick
<1> QED
  BY <1>1, <1>2, <1>3

LEMMA WatchInvStep ==
  ASSUME WatchInv, [Next]_vars
  PROVE  WatchInv'
<1>1. ASSUME NEW p \in Panes, NEW k \in Kinds, Start(p, k) PROVE WatchInv'
  BY <1>1 DEF Start, Unwatched, WatchInv, Processes
<1>2. ASSUME NEW p \in Panes, End(p) PROVE WatchInv'
  BY <1>2, PanesAssumption DEF End, Unwatched, WatchInv, Processes, Shell
<1>3. ASSUME NEW p \in Panes, NEW s \in Screens, Paint(p, s) PROVE WatchInv'
  BY <1>3 DEF Paint, Unwatched, WatchInv
<1>4. ASSUME NEW p \in Panes, Look(p) \/ Write(p) PROVE WatchInv'
  BY <1>4 DEF Look, Write, Unwatched, WatchInv
<1>5. ASSUME NEW lost, NEW unnamed, AgentTick(lost, unnamed) PROVE WatchInv'
  <2>1. UNCHANGED <<now, fg, screen, front>>
    BY <1>5 DEF AgentTick, envVars
  <2>2. DOMAIN watch' = Panes /\ watch' = [p \in Panes |-> watch'[p]]
    BY <1>5 DEF AgentTick
  <2>3. ASSUME NEW p \in Panes
        PROVE  /\ watch'[p] \in Watches
               /\ watch'[p].state \in {"working", "blocked"} /\ watch'[p].streak # 0
                    => p \in quiet'
               /\ watch'[p].agent = None => watch'[p].state = "idle"
    BY <1>5, TickFacts, WatchedFacts
  <2> QED
    BY <2>1, <2>2, <2>3 DEF WatchInv
<1>6. ASSUME NEW unread, SnapshotTick(unread) PROVE WatchInv'
  <2>1. UNCHANGED <<now, fg, screen, watch, quiet>>
    BY <1>6 DEF SnapshotTick, envVars
  <2> QED
    BY <2>1 DEF WatchInv
<1>7. CASE UNCHANGED vars
  BY <1>7 DEF vars, envVars, WatchInv
<1> QED
  BY <1>1, <1>2, <1>3, <1>4, <1>5, <1>6, <1>7 DEF Next, Surroundings, Tick, SnapTick

LEMMA WatchInvHolds == SumSpec => []WatchInv
<1>1. SumInit => WatchInv
  BY WatchInvInit DEF SumInit
<1>2. WatchInv /\ [SumNext]_SumVars => WatchInv'
  BY WatchInvStep DEF SumNext, SumVars
<1> QED
  BY <1>1, <1>2, PTL DEF SumSpec

\* What a pane shows as "done" was work that ended unseen: two idle readings in a
\* row, of one process, in a window that was not in front (refresh_agent_states).
THEOREM DoneMeansMissedHolds == SumSpec => DoneMeansMissed
<1> DEFINE Missed(p) ==
      watch[p].state # "done" /\ watch'[p].state = "done"
      => /\ watch[p].state \in {"working", "blocked"}
         /\ p \in quiet /\ p \in quiet'
         /\ watch'[p].idPid = watch[p].idPid
         /\ front # p
<1>1. WatchInv /\ [SumNext]_SumVars => [\A p \in Panes : Missed(p)]_vars
  <2> SUFFICES ASSUME WatchInv, Next, NEW p \in Panes PROVE Missed(p)
    BY DEF SumNext, SumVars
  <2>1. ASSUME NEW lost, NEW unnamed, AgentTick(lost, unnamed) PROVE Missed(p)
    BY <2>1, TickFacts, WatchedFacts DEF WatchInv
  <2>2. CASE UNCHANGED watch
    BY <2>2
  <2>3. Surroundings => UNCHANGED watch
    BY DEF Surroundings, Start, End, Paint, Look, Write, Unwatched
  <2>4. SnapTick => UNCHANGED watch
    BY DEF SnapTick, SnapshotTick
  <2> QED
    BY <2>1, <2>2, <2>3, <2>4 DEF Next, Tick
<1> QED
  BY <1>1, WatchInvHolds, PTL DEF SumSpec, DoneMeansMissed

\* What the history of a pane tells of what the daemon knows of it: nothing was captured
\* before an agent was found, and an agent that was found and is there, or was found
\* gone since the last snapshot tick, has been captured.
Moments == {"none", "found", "gone", "shell"}

PastInv ==
  /\ past \in [Panes -> Moments]
  /\ \A p \in Panes :
       /\ fg[p].pid # NoPid
       /\ past[p] = "none" => captured[p] = NoPid
       /\ past[p] \in {"found", "gone"} => captured[p] # NoPid
       /\ past[p] = "found" => watch[p].agent # None
  /\ SeedKept

LEMMA PastInvInit == Init => PastInv
<1> SUFFICES ASSUME Init PROVE PastInv
  OBVIOUS
<1>1. Panes \subseteq Nat \ {0}
  BY PanesAssumption
<1>2. PICK seeded \in SUBSET Panes :
        /\ disk = {Old(p) : p \in seeded}
        /\ resume = [p \in Panes |-> IF p \in seeded THEN Old(p) ELSE NoFile]
  BY Zenon DEF Init
<1>3. ASSUME NEW p \in Panes PROVE resume[p] = Seed(p)
  <2>1. ASSUME NEW q \in seeded, Old(q) = Old(p) PROVE q = p
    <3>1. 0 - q = 0 - p
      BY <2>1 DEF Old
    <3> QED BY <1>1, <3>1
  <2>2. Old(p) \in disk <=> p \in seeded
    BY <1>2, <2>1
  <2> QED BY <1>2, <2>2 DEF Seed
<1>4. ASSUME NEW p \in Panes PROVE fg[p].pid # NoPid
  BY <1>1 DEF Init, Shell, NoPid
<1> QED BY <1>3, <1>4 DEF Init, PastInv, Moments, SeedKept

\* A step that has no part in what is captured, and writes no old transcript.
LEMMA PastKept ==
  ASSUME PastInv, UNCHANGED <<watch, resume, captured, past>>,
         \A p \in Panes : fg'[p].pid # NoPid,
         \A p \in Panes : Old(p) \in disk' <=> Old(p) \in disk
  PROVE  PastInv'
<1>1. \A p \in Panes : Seed(p)' = Seed(p)
  BY DEF Seed
<1> QED BY <1>1 DEF PastInv, SeedKept

\* What a snapshot tick does to a pane, by the transcript it was paired with.
LEMMA SnapshotFacts ==
  ASSUME NEW unread, SnapshotTick(unread)
  PROVE  /\ UNCHANGED <<fg, disk, watch>>
         /\ \E files :
              /\ past' = [p \in Panes |-> IF files[p] # NoFile THEN "found"
                                          ELSE IF past[p] = "gone" /\ watch[p].agent = None
                                               THEN "shell" ELSE past[p]]
              /\ \A p \in Panes :
                   /\ files[p] # NoFile => watch[p].agent # None
                   /\ resume'[p] = IF files[p] # NoFile THEN files[p]
                                   ELSE IF Cleared(p) THEN NoFile ELSE resume[p]
                   /\ captured'[p] = IF files[p] # NoFile THEN fg[p].pid
                                     ELSE IF Cleared(p) THEN NoPid ELSE captured[p]
BY Zenon DEF SnapshotTick, envVars

LEMMA PastInvStep ==
  ASSUME WatchInv, PastInv, [Next]_vars
  PROVE  PastInv'
<1>0. Panes \subseteq Nat \ {0} /\ now \in Nat
  BY PanesAssumption DEF WatchInv
<1>1. ASSUME NEW q \in Panes, NEW k \in Kinds, Start(q, k) PROVE PastInv'
  <2>1. \A p \in Panes : fg'[p].pid # NoPid
    <3>1. fg' = [fg EXCEPT ![q] = [pid |-> now + 1, name |-> k]]
      BY <1>1 DEF Start
    <3> QED BY <1>0, <3>1 DEF PastInv, WatchInv, NoPid
  <2> QED BY <1>1, <2>1, PastKept DEF Start, Unwatched, restVars
<1>2. ASSUME NEW q \in Panes, End(q) PROVE PastInv'
  <2>1. \A p \in Panes : fg'[p].pid # NoPid
    BY <1>0, <1>2 DEF End, Shell, NoPid, PastInv, WatchInv
  <2> QED BY <1>2, <2>1, PastKept DEF End, Unwatched, restVars
<1>3. ASSUME NEW q \in Panes, NEW s \in Screens, Paint(q, s) \/ Look(q) PROVE PastInv'
  <2>1. \A p \in Panes : fg'[p].pid # NoPid
    BY <1>3 DEF Paint, Look, PastInv
  <2> QED BY <1>3, <2>1, PastKept DEF Paint, Look, Unwatched, restVars
<1>4. ASSUME NEW q \in Panes, Write(q) PROVE PastInv'
  <2> DEFINE new == [agent |-> fg[q].name, cwd |-> CwdOf[q], birth |-> now + 1, pid |-> fg[q].pid]
  <2>1. disk' = disk \cup {new} /\ fg' = fg
    BY <1>4 DEF Write
  <2>2. ASSUME NEW p \in Panes PROVE Old(p) # new
    <3>1. Old(p).birth = 0 - p /\ new.birth = now + 1
      BY DEF Old
    <3>2. 0 - p # now + 1
      BY <1>0
    <3> QED BY <3>1, <3>2
  <2>3. \A p \in Panes : fg'[p].pid # NoPid
    BY <2>1 DEF PastInv
  <2> HIDE DEF new
  <2> QED BY <1>4, <2>1, <2>2, <2>3, PastKept DEF Write, Unwatched, restVars
<1>5. ASSUME NEW lost, NEW unnamed, AgentTick(lost, unnamed) PROVE PastInv'
  <2>1. UNCHANGED <<fg, disk, resume, captured>>
    BY <1>5 DEF AgentTick, envVars, restVars
  <2>2. past' = [p \in Panes |-> IF past[p] = "found" /\ watch'[p].agent = None
                                 THEN "gone" ELSE past[p]]
    BY <1>5 DEF AgentTick
  <2>3. \A p \in Panes : Seed(p)' = Seed(p)
    BY <2>1 DEF Seed
  <2> QED BY <2>1, <2>2, <2>3 DEF PastInv, SeedKept, Moments
<1>6. ASSUME NEW unread, SnapshotTick(unread) PROVE PastInv'
  <2>1. UNCHANGED <<fg, disk, watch>>
    BY <1>6, SnapshotFacts
  <2>2. PICK files :
          /\ past' = [p \in Panes |-> IF files[p] # NoFile THEN "found"
                                      ELSE IF past[p] = "gone" /\ watch[p].agent = None
                                           THEN "shell" ELSE past[p]]
          /\ \A p \in Panes :
               /\ files[p] # NoFile => watch[p].agent # None
               /\ resume'[p] = IF files[p] # NoFile THEN files[p]
                               ELSE IF Cleared(p) THEN NoFile ELSE resume[p]
               /\ captured'[p] = IF files[p] # NoFile THEN fg[p].pid
                                 ELSE IF Cleared(p) THEN NoPid ELSE captured[p]
    BY <1>6, SnapshotFacts
  <2>3. \A p \in Panes : Seed(p)' = Seed(p)
    BY <2>1 DEF Seed
  <2>4. past' \in [Panes -> Moments]
    BY <2>2 DEF PastInv, Moments
  <2>5. ASSUME NEW p \in Panes
        PROVE  /\ fg'[p].pid # NoPid
               /\ past'[p] = "none" => captured'[p] = NoPid /\ resume'[p] = Seed(p)
               /\ past'[p] \in {"found", "gone"} => captured'[p] # NoPid
               /\ past'[p] = "found" => watch'[p].agent # None /\ resume'[p] # NoFile
               /\ past'[p] = "shell" => resume'[p] = NoFile
    BY <2>1, <2>2 DEF PastInv, SeedKept, Cleared, Moments
  <2> QED BY <2>3, <2>4, <2>5 DEF PastInv, SeedKept
<1>7. CASE UNCHANGED vars
  <2>1. UNCHANGED <<fg, disk, watch, resume, captured, past>>
    BY <1>7 DEF vars, envVars, restVars
  <2>2. \A p \in Panes : fg'[p].pid # NoPid
    BY <2>1 DEF PastInv
  <2> QED BY <2>1, <2>2, PastKept
<1> QED
  BY <1>1, <1>2, <1>3, <1>4, <1>5, <1>6, <1>7, ScreensAssumption
  DEF Next, Surroundings, Tick, SnapTick

\* A pane restored with a conversation keeps it until an agent of its own was found in it,
\* the conversation of an agent that is there is never lost, and that of one that is gone
\* does not come back (refresh_restore_meta beside refresh_agent_states).
THEOREM SeedKeptHolds == SumSpec => []SeedKept
<1>1. SumInit => PastInv
  BY PastInvInit DEF SumInit
<1>2. WatchInv /\ PastInv /\ [SumNext]_SumVars => PastInv'
  BY PastInvStep DEF SumNext, SumVars
<1>3. PastInv => SeedKept
  BY DEF PastInv
<1> QED
  BY <1>1, <1>2, <1>3, WatchInvHolds, PTL DEF SumSpec

-----------------------------------------------------------------------------
(* From the processes of a pane to its screen                              *)

Numbered == [of : Ids, n : Nat \ {0}, asks : BOOLEAN]
Chunks   == Numbered \cup [of : Ids, n : {P!Exited}]
Moods    == {"none", "hears", "says", "deaf"}
Queues   == [Ids -> Seq(Chunks)]

PtyTyped ==
  /\ tty \in [Ids -> SUBSET {"child", "job"}] /\ child \in [Ids -> Moods]
  /\ said \in [Ids -> Nat] /\ input \in [Ids -> Nat]
  /\ output \in Queues /\ chan \in Queues /\ fed \in Queues /\ events \in Seq(Chunks)
  /\ reader \in [Ids -> {"none", "reads", "over"}]
  /\ panes \subseteq Ids /\ writing \in {P!Nobody} \cup [to : Ids, left : Int]

\* As long as somebody holds the terminal the thread reads it, and the child the
\* screen knows of is one of them.
Held(p) ==
  /\ child[p] # "none" <=> "child" \in tty[p]
  /\ tty[p] # {} => reader[p] = "reads"
  /\ reader[p] = "over" => output[p] = <<>>

\* The place of a chunk in what a pane says; the exit is behind all that was said.
Place(p, chunk) == IF chunk.n = P!Exited THEN said[p] + 1 ELSE chunk.n
WasRead(p)      == said[p] - Len(output[p])
Sent(p)         == WasRead(p) + (IF reader[p] = "over" THEN 1 ELSE 0)
Forwarded(p)    == Sent(p) - Len(chan[p])

\* The PTY and the channel hold the chunks of a pane in order and without a gap,
\* and the screen was fed the first ones.
Lined(p) ==
  /\ WasRead(p) \in Nat /\ Forwarded(p) \in Nat /\ Forwarded(p) >= Len(fed[p])
  /\ \A i \in 1..Len(output[p]) : output[p][i].of = p /\ output[p][i].n = WasRead(p) + i
  /\ \A i \in 1..Len(chan[p]) : /\ chan[p][i].of = p /\ chan[p][i].n <= said[p]
                                /\ Place(p, chan[p][i]) = Forwarded(p) + i
  /\ \A i \in 1..Len(fed[p]) : fed[p][i].of = p /\ fed[p][i].n = i
  /\ reader[p] = "none" => p \notin panes /\ said[p] = 0 /\ chan[p] = <<>> /\ fed[p] = <<>>

\* Among the events of the loop are those between what was forwarded of a pane and
\* what its screen was fed, in this order.
Coming(p) == {i \in 1..Len(events) : events[i].of = p}
Due(p)    == Len(fed[p]) + 1..Forwarded(p)

InOrder(p) ==
  /\ \A i \in Coming(p) : events[i].n <= said[p] /\ reader[p] # "none"
  /\ p \in panes =>
       /\ \A i \in Coming(p) : Place(p, events[i]) \in Due(p)
       /\ \A i, j \in Coming(p) : i < j => Place(p, events[i]) < Place(p, events[j])
       /\ \A n \in Due(p) : \E i \in Coming(p) : Place(p, events[i]) = n

PtyInv == PtyTyped /\ \A p \in Ids : Held(p) /\ Lined(p) /\ InOrder(p)

LEMMA PtyInvInit == P!Init => PtyInv
<1> SUFFICES ASSUME P!Init PROVE PtyInv
  OBVIOUS
<1>1. PtyTyped
  BY DEF P!Init, P!Empty, PtyTyped, Queues, Moods
<1>2. ASSUME NEW p \in Ids PROVE Held(p)
  BY <1>2 DEF P!Init, P!Empty, Held
<1>3. ASSUME NEW p \in Ids PROVE Lined(p)
  BY <1>3 DEF P!Init, P!Empty, Lined, WasRead, Sent, Forwarded
<1>4. ASSUME NEW p \in Ids PROVE InOrder(p)
  BY <1>4 DEF P!Init, P!Empty, InOrder, Coming
<1> QED
  BY <1>1, <1>2, <1>3, <1>4 DEF PtyInv

-----------------------------------------------------------------------------
(* What a step leaves alone                                                *)

LEMMA LinedKept ==
  ASSUME NEW p \in Ids, Lined(p),
         UNCHANGED <<said[p], output[p], reader[p], chan[p], fed[p]>>,
         p \in panes' => p \in panes \/ reader[p] # "none"
  PROVE  Lined(p)'
BY DEF Lined, WasRead, Sent, Forwarded, Place

LEMMA InOrderKept ==
  ASSUME NEW p \in Ids, InOrder(p),
         UNCHANGED <<said[p], reader[p], fed[p], events>>, Forwarded(p)' = Forwarded(p),
         p \in panes' => p \in panes
  PROVE  InOrder(p)'
BY SMTT(30) DEF InOrder, Coming, Due, Place

\* Of a pane that is gone nothing is asked but that it was there.
LEMMA GoneInOrder ==
  ASSUME PtyTyped, NEW p \in Ids, InOrder(p), events # <<>>, p \notin panes',
         UNCHANGED <<said[p], reader[p]>>, events' = Tail(events)
  PROVE  InOrder(p)'
<1>1. /\ Len(events) \in Nat /\ Len(events) >= 1 /\ Len(events') = Len(events) - 1
      /\ \A i \in 1..Len(events') : events'[i] = events[i + 1]
  BY DEF PtyTyped
<1>2. \A i \in Coming(p)' : i + 1 \in Coming(p) /\ events'[i] = events[i + 1]
  BY <1>1 DEF Coming
<1>3. \A i \in Coming(p)' : events'[i].n <= said'[p] /\ reader'[p] # "none"
  BY <1>2 DEF InOrder
<1> QED
  BY <1>3 DEF InOrder

\* The loop takes an event of another pane.
LEMMA InOrderBehind ==
  ASSUME PtyTyped, NEW p \in Ids, InOrder(p), events # <<>>, Head(events).of # p,
         UNCHANGED <<said[p], reader[p], fed[p]>>, Forwarded(p)' = Forwarded(p),
         events' = Tail(events), p \in panes' => p \in panes
  PROVE  InOrder(p)'
<1>1. /\ Len(events) \in Nat /\ Len(events) >= 1 /\ Len(events') = Len(events) - 1
      /\ \A i \in 1..Len(events') : events'[i] = events[i + 1]
      /\ Head(events) = events[1]
  BY DEF PtyTyped
<1>2. \A i \in Coming(p)' : i + 1 \in Coming(p) /\ events'[i] = events[i + 1]
  BY <1>1 DEF Coming
<1>3. \A i \in Coming(p) : i - 1 \in Coming(p)' /\ events'[i - 1] = events[i]
  BY <1>1 DEF Coming
<1>4. \A e : Place(p, e)' = Place(p, e)
  BY DEF Place
<1>5. Due(p)' = Due(p)
  BY DEF Due
<1>6. \A i \in Coming(p)' : events'[i].n <= said'[p] /\ reader'[p] # "none"
  BY <1>2 DEF InOrder
<1>7. ASSUME p \in panes' PROVE \A i \in Coming(p)' : Place(p, events[i])' \in Due(p)'
  BY <1>2, <1>5, <1>7 DEF InOrder, Place
<1>8. ASSUME p \in panes', NEW i \in Coming(p)', NEW j \in Coming(p)', i < j
      PROVE  Place(p, events[i])' < Place(p, events[j])'
  <2>1. i + 1 < j + 1
    BY <1>8 DEF Coming
  <2>2. i + 1 \in Coming(p) /\ j + 1 \in Coming(p)
    BY <1>2, <1>8
  <2>3. Place(p, events[i + 1]) < Place(p, events[j + 1])
    BY <1>8, <2>1, <2>2 DEF InOrder
  <2> QED
    BY <1>2, <1>4, <1>8, <2>3
<1>9. ASSUME p \in panes', NEW n \in Due(p)'
      PROVE  \E i \in Coming(p)' : Place(p, events[i])' = n
  <2>1. PICK i \in Coming(p) : Place(p, events[i]) = n
    BY <1>5, <1>9 DEF InOrder
  <2> QED
    BY <1>3, <2>1 DEF Place
<1> QED
  BY <1>6, <1>7, <1>8, <1>9 DEF InOrder

\* A chunk comes in behind the others.
LEMMA InOrderAhead ==
  ASSUME PtyTyped, NEW p \in Ids, InOrder(p), NEW chunk \in Chunks,
         UNCHANGED <<said[p], reader[p], fed[p], panes>>, events' = Append(events, chunk),
         Forwarded(p) \in Nat, Forwarded(p) >= Len(fed[p]),
         IF chunk.of = p
         THEN /\ Forwarded(p)' = Forwarded(p) + 1 /\ Place(p, chunk) = Forwarded(p) + 1
              /\ chunk.n <= said[p] /\ reader[p] # "none"
         ELSE Forwarded(p)' = Forwarded(p)
  PROVE  InOrder(p)'
<1> DEFINE last == Len(events) + 1
<1>1. /\ Len(events) \in Nat /\ Len(events') = last /\ last \in Nat
      /\ \A i \in 1..Len(events) : events'[i] = events[i]
      /\ events'[last] = chunk
  BY DEF PtyTyped
<1>2. Coming(p)' = Coming(p) \cup {i \in {last} : chunk.of = p}
  BY <1>1 DEF Coming
<1>3. /\ \A i \in Coming(p) : i \in Nat /\ i < last /\ events'[i] = events[i]
      /\ \A e : Place(p, e)' = Place(p, e)
  BY <1>1 DEF Coming, Place
<1>4. Due(p)' = Due(p) \cup {n \in {Forwarded(p) + 1} : chunk.of = p}
  <2>1. Len(fed[p]) \in Nat
    BY DEF PtyTyped, Queues
  <2> HIDE DEF Forwarded
  <2> QED
    BY <2>1 DEF Due
<1> HIDE DEF last
<1>5. \A i \in Coming(p)' : events'[i].n <= said'[p] /\ reader'[p] # "none"
  BY <1>1, <1>2, <1>3 DEF InOrder
<1>6. ASSUME p \in panes', NEW i \in Coming(p)' PROVE Place(p, events[i])' \in Due(p)'
  <2>1. CASE i \in Coming(p)
    BY <1>3, <1>4, <1>6, <2>1 DEF InOrder, Place
  <2>2. CASE i = last /\ chunk.of = p
    BY <1>1, <1>4, <2>2 DEF Place
  <2> QED
    BY <1>2, <1>6, <2>1, <2>2
<1>7. ASSUME p \in panes', NEW i \in Coming(p)', NEW j \in Coming(p)', i < j
      PROVE  Place(p, events[i])' < Place(p, events[j])'
  <2>1. i \in Coming(p)
    <3>1. i # last
      BY <1>1, <1>2, <1>3, <1>7
    <3> QED
      BY <1>2, <3>1
  <2>2. CASE j \in Coming(p)
    BY <1>3, <1>7, <2>1, <2>2 DEF InOrder, Place
  <2>3. CASE j = last /\ chunk.of = p
    <3>1. Place(p, events[i])' \in Len(fed[p]) + 1..Forwarded(p)
      BY <1>3, <1>7, <2>1 DEF InOrder, Place, Due
    <3>2. Place(p, events[j])' = Forwarded(p) + 1
      BY <1>1, <2>3 DEF Place
    <3>3. Len(fed[p]) \in Nat
      BY DEF PtyTyped, Queues
    <3>4. ASSUME NEW a, NEW b, a \in Len(fed[p]) + 1..Forwarded(p), b = Forwarded(p) + 1
          PROVE  a < b
      <4> HIDE DEF Forwarded
      <4> QED
        BY <3>3, <3>4
    <3> QED
      BY <3>1, <3>2, <3>4
  <2> QED
    BY <1>2, <1>7, <2>2, <2>3
<1>8. ASSUME p \in panes', NEW n \in Due(p)'
      PROVE  \E i \in Coming(p)' : Place(p, events[i])' = n
  <2>1. CASE n \in Due(p)
    <3>1. PICK i \in Coming(p) : Place(p, events[i]) = n
      BY <1>8, <2>1 DEF InOrder
    <3> QED
      BY <1>2, <1>3, <3>1 DEF Place
  <2>2. CASE n = Forwarded(p) + 1 /\ chunk.of = p
    BY <1>1, <1>2, <2>2 DEF Place
  <2> QED
    BY <1>4, <1>8, <2>1, <2>2
<1> QED
  BY <1>5, <1>6, <1>7, <1>8 DEF InOrder

\* The first event of a pane of the session is the next its screen is due.
LEMMA HeadIsNext ==
  ASSUME PtyTyped, events # <<>>, NEW p \in panes, Head(events).of = p, InOrder(p), Lined(p)
  PROVE  Place(p, Head(events)) = Len(fed[p]) + 1 /\ Forwarded(p) >= Len(fed[p]) + 1
<1>1. p \in Ids /\ Len(fed[p]) \in Nat /\ Forwarded(p) \in Nat
  BY DEF PtyTyped, Queues, Lined
<1>2. Len(events) \in Nat /\ 1 \in 1..Len(events) /\ Head(events) = events[1]
  BY DEF PtyTyped
<1>3. 1 \in Coming(p) /\ \A i \in Coming(p) : i = 1 \/ i > 1
  BY <1>2 DEF Coming
<1>4. Place(p, events[1]) \in Len(fed[p]) + 1..Forwarded(p)
  BY <1>3 DEF InOrder, Due
<1>5. Len(fed[p]) + 1 \in Due(p)
  <2> HIDE DEF Forwarded, Place
  <2> QED
    BY <1>1, <1>4 DEF Due
<1>6. PICK i \in Coming(p) : Place(p, events[i]) = Len(fed[p]) + 1
  BY <1>5 DEF InOrder
<1>7. ~(i > 1)
  <2>1. i > 1 => Place(p, events[1]) < Place(p, events[i])
    BY <1>3 DEF InOrder
  <2> HIDE DEF Forwarded, Place
  <2> QED
    BY <1>1, <1>4, <1>6, <2>1
<1>8. i = 1
  BY <1>3, <1>7
<1> HIDE DEF Forwarded, Place
<1> QED
  BY <1>1, <1>2, <1>4, <1>6, <1>8

\* The loop feeds the screen of a pane.
LEMMA InOrderFed ==
  ASSUME PtyTyped, events # <<>>, NEW p \in panes, Head(events).of = p, InOrder(p), Lined(p),
         UNCHANGED <<said[p], reader[p], panes>>, Forwarded(p)' = Forwarded(p),
         events' = Tail(events), Len(fed'[p]) = Len(fed[p]) + 1
  PROVE  InOrder(p)'
<1>0. p \in Ids /\ Len(fed[p]) \in Nat /\ Forwarded(p) \in Nat
  BY DEF PtyTyped, Queues, Lined
<1>1. /\ Len(events) \in Nat /\ Len(events) >= 1 /\ Len(events') = Len(events) - 1
      /\ \A i \in 1..Len(events') : events'[i] = events[i + 1]
      /\ Head(events) = events[1]
  BY DEF PtyTyped
<1>2. \A i \in Coming(p)' : i + 1 \in Coming(p) /\ events'[i] = events[i + 1] /\ 1 < i + 1
  BY <1>1 DEF Coming
<1>3. \A i \in Coming(p) : i # 1 => i - 1 \in Coming(p)' /\ events'[i - 1] = events[i]
  BY <1>1 DEF Coming
<1>4. /\ 1 \in Coming(p) /\ Place(p, events[1]) = Len(fed[p]) + 1
      /\ \A e : Place(p, e)' = Place(p, e)
  BY SMTT(30), <1>1, HeadIsNext DEF Coming, Place
<1>5. Due(p)' = Due(p) \ {Len(fed[p]) + 1}
  <2> HIDE DEF Forwarded
  <2> QED
    BY <1>0 DEF Due
<1>6. \A i \in Coming(p)' : events'[i].n <= said'[p] /\ reader'[p] # "none"
  BY <1>2 DEF InOrder
<1>7. ASSUME NEW i \in Coming(p)' PROVE Place(p, events[i])' \in Due(p)'
  <2>1. /\ Place(p, events[i])' = Place(p, events[i + 1])
        /\ Place(p, events[i + 1]) \in Due(p)
        /\ Place(p, events[1]) < Place(p, events[i + 1])
    BY <1>2, <1>4 DEF InOrder, Place
  <2>2. ASSUME NEW m \in Due(p), Len(fed[p]) + 1 < m PROVE m \in Due(p)'
    <3> HIDE DEF Forwarded
    <3> QED
      BY <1>0, <1>5, <2>2 DEF Due
  <2>3. Len(fed[p]) + 1 < Place(p, events[i + 1])
    BY <1>4, <2>1
  <2> QED
    BY <2>1, <2>2, <2>3
<1>8. ASSUME NEW i \in Coming(p)', NEW j \in Coming(p)', i < j
      PROVE  Place(p, events[i])' < Place(p, events[j])'
  <2>1. i + 1 < j + 1
    BY <1>8 DEF Coming
  <2>2. Place(p, events[i + 1]) < Place(p, events[j + 1])
    BY <1>2, <1>8, <2>1 DEF InOrder
  <2> QED
    BY <1>2, <1>8, <2>2 DEF Place
<1>9. ASSUME NEW n \in Due(p)' PROVE \E i \in Coming(p)' : Place(p, events[i])' = n
  <2>1. PICK i \in Coming(p) : Place(p, events[i]) = n
    BY <1>5, <1>9 DEF InOrder
  <2>2. i # 1
    BY <1>4, <1>5, <1>9, <2>1
  <2> QED
    BY <1>3, <2>1, <2>2 DEF Place
<1> QED
  BY <1>6, <1>7, <1>8, <1>9 DEF InOrder

-----------------------------------------------------------------------------
(* The steps of processes, thread, forwarder and loop                      *)

LEMMA PtyTypedStep ==
  ASSUME PtyInv, [P!Next]_paneVars
  PROVE  PtyTyped'
<1> USE DEF PtyInv, PtyTyped, Queues
<1>0. CASE UNCHANGED paneVars
  BY <1>0 DEF paneVars
<1> SUFFICES ASSUME P!Next PROVE PtyTyped'
  BY <1>0
<1>1. ASSUME NEW p \in Ids, NEW who \in {"child", "job"}, P!Says(p, who) PROVE PtyTyped'
  <2>1. PICK asks \in BOOLEAN :
          output' = [output EXCEPT ![p] = Append(@, [of |-> p, n |-> said'[p], asks |-> asks])]
    BY <1>1 DEF P!Says
  <2>2. said' \in [Ids -> Nat] /\ said'[p] \in Nat \ {0}
    BY <1>1 DEF P!Says
  <2>3. [of |-> p, n |-> said'[p], asks |-> asks] \in Chunks
    BY <2>2 DEF Chunks, Numbered
  <2>4. output' \in [Ids -> Seq(Chunks)]
    BY <2>1, <2>3
  <2> QED
    BY <1>1, <2>2, <2>4 DEF P!Says, P!flowVars, Moods
<1>2. ASSUME NEW p \in Ids, NEW who \in {"child", "job"}, P!Dies(p, who) PROVE PtyTyped'
  BY <1>2 DEF P!Dies, P!flowVars, Moods
<1>3. ASSUME NEW p \in Ids, P!Hears(p) PROVE PtyTyped'
  BY <1>3 DEF P!Hears, P!MayHear, P!flowVars, Moods
<1>4. ASSUME NEW p \in Ids, P!Turns(p) PROVE PtyTyped'
  <2>1. child' \in [Ids -> Moods]
    BY <1>4 DEF P!Turns, Moods
  <2>2. tty' \in [Ids -> SUBSET {"child", "job"}]
    <3>1. tty' = tty \/ tty' = [tty EXCEPT ![p] = tty[p] \cup {"job"}]
      BY <1>4 DEF P!Turns
    <3>2. tty[p] \cup {"job"} \in SUBSET {"child", "job"}
      OBVIOUS
    <3> QED
      BY <3>1, <3>2
  <2> QED
    BY <1>4, <2>1, <2>2 DEF P!Turns, P!flowVars
<1>5. ASSUME NEW p \in Ids, P!Reads(p) PROVE PtyTyped'
  BY <1>5 DEF P!Reads, P!MayRead
<1>6. ASSUME NEW p \in Ids, P!ReaderEnds(p) PROVE PtyTyped'
  <2>1. [of |-> p, n |-> P!Exited] \in Chunks
    BY DEF Chunks
  <2> QED
    BY <1>6, <2>1 DEF P!ReaderEnds, P!ReaderEndsOn, P!ttyVars
<1>7. ASSUME NEW p \in Ids, P!Forwards(p) PROVE PtyTyped'
  BY <1>7 DEF P!Forwards, P!MayForward, P!ttyVars
<1>8. ASSUME NEW p \in Ids, P!SpawnPane(p) PROVE PtyTyped'
  BY <1>8 DEF P!SpawnPane, Moods
<1>9. ASSUME NEW p \in Ids, P!ClosePane(p) PROVE PtyTyped'
  BY <1>9 DEF P!ClosePane, P!ttyVars, P!flowVars
<1>14. ASSUME NEW p \in Ids, P!Kills(p) PROVE PtyTyped'
  BY <1>14 DEF P!Kills, P!flowVars, Moods
<1>10. ASSUME NEW p \in Ids, NEW size \in 1..MaxTyped, P!WriteToPane(p, size) PROVE PtyTyped'
  <2>1. size \in Int
    OBVIOUS
  <2> QED
    BY <1>10, <2>1 DEF P!WriteToPane, P!ttyVars, P!flowVars
<1>11. CASE P!Writes
  <2>1. writing \in [to : Ids, left : Int]
    BY <1>11 DEF P!Writes, P!Idle
  <2>2. writing' \in {P!Nobody} \cup [to : Ids, left : Int]
    <3>1. writing' = P!Nobody \/ writing' = [writing EXCEPT !.left = writing.left - 1]
      BY <1>11 DEF P!Writes
    <3>2. writing.to \in Ids /\ writing.left - 1 \in Int
      BY <2>1
    <3> HIDE DEF PtyInv, PtyTyped
    <3>3. [writing EXCEPT !.left = writing.left - 1] \in [to : Ids, left : Int]
      BY <2>1, <3>2
    <3> QED
      BY <3>1, <3>3
  <2>3. input' \in [Ids -> Nat]
    <3>1. \/ input' = input
          \/ input' = [input EXCEPT ![writing.to] = input[writing.to] + 1]
      BY <1>11 DEF P!Writes
    <3>2. writing.to \in Ids
      BY <2>1
    <3>3. input \in [Ids -> Nat]
      OBVIOUS
    <3> HIDE DEF PtyInv, PtyTyped
    <3> QED
      BY <3>1, <3>2, <3>3
  <2> QED
    BY <1>11, <2>2, <2>3 DEF P!Writes, P!flowVars
<1>12. CASE P!Feed
  <2>1. Head(events) \in Chunks /\ Head(events).of \in Ids
    BY <1>12 DEF P!Feed, Chunks, Numbered
  <2>2. writing' \in {P!Nobody} \cup [to : Ids, left : Int]
    BY <1>12, <2>1 DEF P!Feed
  <2>3. fed' \in [Ids -> Seq(Chunks)]
    <3> DEFINE p == Head(events).of
    <3>1. fed' = fed \/ fed' = [fed EXCEPT ![p] = Append(fed[p], Head(events))]
      BY <1>12 DEF P!Feed
    <3>2. Append(fed[p], Head(events)) \in Seq(Chunks)
      BY <2>1
    <3> QED
      BY <3>1, <3>2
  <2>4. events' \in Seq(Chunks)
    BY <1>12 DEF P!Feed
  <2> QED
    BY <1>12, <2>2, <2>3, <2>4 DEF P!Feed, P!ttyVars
<1>13. CASE P!PaneExited
  BY <1>13 DEF P!PaneExited, P!ttyVars
<1> HIDE DEF PtyInv, PtyTyped, Queues
<1> QED
  BY <1>1, <1>2, <1>3, <1>4, <1>5, <1>6, <1>7, <1>8, <1>9, <1>10, <1>11, <1>12, <1>13, <1>14
     DEF P!Next

LEMMA HeldStep ==
  ASSUME PtyInv, [P!Next]_paneVars, NEW q \in Ids
  PROVE  Held(q)'
<1> USE DEF PtyInv, PtyTyped, Held
<1>0. CASE UNCHANGED <<tty, child, reader, output>>
  BY <1>0
<1>1. ASSUME NEW p \in Ids, NEW who \in {"child", "job"}, P!Says(p, who) PROVE Held(q)'
  BY <1>1 DEF P!Says, P!MaySay, P!flowVars
<1>2. ASSUME NEW p \in Ids, NEW who \in {"child", "job"}, P!Dies(p, who) PROVE Held(q)'
  BY <1>2 DEF P!Dies, P!flowVars
<1>3. ASSUME NEW p \in Ids, P!Hears(p) PROVE Held(q)'
  BY <1>3 DEF P!Hears, P!MayHear, P!flowVars
<1>4. ASSUME NEW p \in Ids, P!Turns(p) PROVE Held(q)'
  BY <1>4 DEF P!Turns, P!flowVars
<1>5. ASSUME NEW p \in Ids, P!Reads(p) PROVE Held(q)'
  BY <1>5 DEF P!Reads, P!MayRead, Queues
<1>6. ASSUME NEW p \in Ids, P!ReaderEnds(p) PROVE Held(q)'
  BY <1>6 DEF P!ReaderEnds, P!ReaderEndsOn, P!Eof, P!ttyVars
<1>7. ASSUME NEW p \in Ids, P!SpawnPane(p) PROVE Held(q)'
  BY <1>7 DEF P!SpawnPane
<1>8. ASSUME NEW p \in Ids, P!Kills(p) PROVE Held(q)'
  BY <1>8 DEF P!Kills, P!flowVars
<1>9. P!Writes \/ P!Feed \/ P!PaneExited \/ UNCHANGED paneVars => Held(q)'
  BY <1>0 DEF P!Writes, P!Feed, P!PaneExited, paneVars, P!ttyVars, P!flowVars
<1>10. ASSUME NEW p \in Ids, NEW size, P!ClosePane(p) \/ P!Forwards(p) \/ P!WriteToPane(p, size)
       PROVE  Held(q)'
  BY <1>0, <1>10 DEF P!ClosePane, P!Forwards, P!WriteToPane, P!ttyVars, P!flowVars
<1> QED
  BY <1>1, <1>2, <1>3, <1>4, <1>5, <1>6, <1>7, <1>8, <1>9, <1>10 DEF P!Next

\* What is said is new at the far end: the screen, the channel and the events have
\* no exit in them while somebody may say something.
LEMMA SaysStep ==
  ASSUME PtyInv, NEW p \in Ids, NEW who \in {"child", "job"}, P!Says(p, who)
  PROVE  Lined(p)' /\ InOrder(p)'
<1>1. /\ said'[p] = said[p] + 1 /\ said[p] \in Nat
      /\ Len(output'[p]) = Len(output[p]) + 1 /\ Len(output[p]) \in Nat
      /\ \A i \in 1..Len(output[p]) : output'[p][i] = output[p][i]
      /\ output'[p][Len(output[p]) + 1].of = p
      /\ output'[p][Len(output[p]) + 1].n = said[p] + 1
  <2>1. PICK asks \in BOOLEAN :
          output' = [output EXCEPT ![p] = Append(output[p], [of |-> p, n |-> said'[p], asks |-> asks])]
    BY DEF P!Says
  <2>2. output[p] \in Seq(Chunks) /\ said[p] \in Nat /\ said'[p] = said[p] + 1
    BY DEF P!Says, PtyInv, PtyTyped, Queues
  <2> DEFINE new == [of |-> p, n |-> said'[p], asks |-> asks]
  <2>3. output'[p] = Append(output[p], new) /\ new.of = p /\ new.n = said[p] + 1
    BY <2>1, <2>2 DEF PtyInv, PtyTyped, Queues
  <2> HIDE DEF new
  <2> QED
    BY <2>2, <2>3
<1>2. UNCHANGED <<reader, chan, events, panes, fed>> /\ reader[p] = "reads"
  BY DEF P!Says, P!MaySay, P!flowVars, PtyInv, Held
<1>3. WasRead(p)' = WasRead(p) /\ Forwarded(p)' = Forwarded(p) /\ Sent(p) = WasRead(p)
  BY SMTT(30), <1>1, <1>2 DEF WasRead, Sent, Forwarded
<1>4. /\ WasRead(p) \in Nat /\ Forwarded(p) \in Nat /\ Len(chan[p]) \in Nat
      /\ Forwarded(p) + Len(chan[p]) = WasRead(p) /\ WasRead(p) <= said[p]
  <2>1. WasRead(p) \in Nat /\ Forwarded(p) \in Nat /\ Len(chan[p]) \in Nat
    BY DEF PtyInv, PtyTyped, Queues, Lined
  <2> QED
    BY <1>1, <1>2, <2>1 DEF WasRead, Sent, Forwarded
<1>5. \A i \in 1..Len(chan[p]) : chan[p][i].n # P!Exited
  <2> SUFFICES ASSUME NEW i \in 1..Len(chan[p]), chan[p][i].n = P!Exited PROVE FALSE
    OBVIOUS
  <2>1. said[p] + 1 = Forwarded(p) + i
    BY DEF PtyInv, Lined, Place
  <2> HIDE DEF Forwarded, WasRead
  <2> QED
    BY <1>1, <1>4, <2>1
<1>6. p \in panes => \A i \in Coming(p) : events[i].n # P!Exited
  <2> SUFFICES ASSUME p \in panes, NEW i \in Coming(p), events[i].n = P!Exited PROVE FALSE
    OBVIOUS
  <2>1. said[p] + 1 \in Due(p)
    BY DEF PtyInv, InOrder, Place
  <2>2. Len(fed[p]) \in Nat
    BY DEF PtyInv, PtyTyped, Queues
  <2> HIDE DEF Forwarded, WasRead
  <2> QED
    BY <1>1, <1>4, <2>1, <2>2 DEF Due
<1>7. Lined(p)'
  <2>1. \A i \in 1..Len(output'[p]) : output'[p][i].of = p /\ output'[p][i].n = WasRead(p) + i
    <3>1. \A i \in 1..Len(output[p]) : output[p][i].of = p /\ output[p][i].n = WasRead(p) + i
      BY DEF PtyInv, Lined
    <3>2. WasRead(p) + (Len(output[p]) + 1) = said[p] + 1
      BY <1>1 DEF WasRead
    <3> HIDE DEF WasRead
    <3> QED
      BY <1>1, <3>1, <3>2
  <2>2. \A i \in 1..Len(chan[p]) : /\ chan[p][i].of = p /\ chan[p][i].n <= said[p] + 1
                                   /\ Place(p, chan[p][i])' = Forwarded(p) + i
    <3>1. \A i \in 1..Len(chan[p]) : /\ chan[p][i].of = p /\ chan[p][i].n <= said[p]
                                     /\ chan[p][i] \in Chunks
                                     /\ chan[p][i].n = Forwarded(p) + i
      BY <1>5 DEF PtyInv, Lined, Place, PtyTyped, Queues
    <3>2. \A i \in 1..Len(chan[p]) : chan[p][i].n \in Nat
      BY <3>1 DEF Chunks, Numbered, P!Exited
    <3> HIDE DEF Forwarded
    <3> QED
      BY <1>1, <1>2, <1>5, <3>1, <3>2 DEF Place
  <2> QED
    BY <1>1, <1>2, <1>3, <2>1, <2>2 DEF PtyInv, Lined
<1>8. InOrder(p)'
  <2>1. Coming(p)' = Coming(p) /\ Due(p)' = Due(p)
    BY <1>2, <1>3 DEF Coming, Due
  <2>2. p \in panes => \A i \in Coming(p) : Place(p, events[i])' = Place(p, events[i])
    BY <1>2, <1>6 DEF Place
  <2>3. \A i \in Coming(p) : events[i].n <= said[p] + 1
    <3>1. \A i \in Coming(p) : events[i].n <= said[p] /\ events[i] \in Chunks
      BY DEF PtyInv, InOrder, Coming, PtyTyped
    <3> QED
      BY <1>1, <3>1 DEF Chunks, Numbered, P!Exited
  <2> QED
    BY <1>1, <1>2, <2>1, <2>2, <2>3 DEF PtyInv, InOrder
<1> QED
  BY <1>7, <1>8

\* The thread passes on what it reads.
LEMMA ReadsStep ==
  ASSUME PtyInv, NEW p \in Ids, P!Reads(p)
  PROVE  Lined(p)' /\ InOrder(p)'
<1>1. UNCHANGED <<said, reader, events, panes, fed>> /\ reader[p] = "reads" /\ output[p] # <<>>
  BY DEF P!Reads, P!MayRead
<1>2. /\ output[p] \in Seq(Chunks) /\ chan[p] \in Seq(Chunks) /\ said[p] \in Nat
      /\ output'[p] = Tail(output[p]) /\ chan'[p] = Append(chan[p], Head(output[p]))
  BY DEF P!Reads, PtyInv, PtyTyped, Queues
<1>3. /\ Len(output[p]) \in Nat \ {0} /\ Len(output'[p]) = Len(output[p]) - 1
      /\ \A i \in 1..Len(output'[p]) : output'[p][i] = output[p][i + 1]
      /\ Len(chan[p]) \in Nat /\ Len(chan'[p]) = Len(chan[p]) + 1
      /\ \A i \in 1..Len(chan[p]) : chan'[p][i] = chan[p][i]
      /\ chan'[p][Len(chan[p]) + 1] = output[p][1]
  BY <1>1, <1>2
<1>4. /\ WasRead(p) \in Nat /\ Forwarded(p) \in Nat /\ WasRead(p)' = WasRead(p) + 1
      /\ Forwarded(p)' = Forwarded(p) /\ Forwarded(p) + Len(chan[p]) = WasRead(p)
      /\ WasRead(p) + Len(output[p]) = said[p]
  <2>1. WasRead(p) \in Nat /\ Forwarded(p) \in Nat
    BY DEF PtyInv, Lined
  <2>2. /\ WasRead(p) = said[p] - Len(output[p]) /\ Forwarded(p) = WasRead(p) - Len(chan[p])
        /\ WasRead(p)' = said[p] - Len(output'[p])
        /\ Forwarded(p)' = WasRead(p)' - Len(chan'[p])
    <3>1. reader[p] # "over" /\ reader'[p] # "over" /\ said'[p] = said[p]
      BY <1>1
    <3>2. WasRead(p) = said[p] - Len(output[p]) /\ WasRead(p)' = said[p] - Len(output'[p])
      BY <3>1 DEF WasRead
    <3>3. /\ said[p] - Len(output[p]) \in Int /\ said[p] - Len(output'[p]) \in Int
      BY <1>2, <1>3
    <3> HIDE DEF WasRead
    <3>4. Sent(p) = WasRead(p) /\ Sent(p)' = WasRead(p)'
      BY <3>1, <3>2, <3>3 DEF Sent
    <3> QED
      BY <3>2, <3>4 DEF Forwarded
  <2> DEFINE wasRead == WasRead(p)'  fwd == Forwarded(p)'
  <2>3. wasRead = said[p] - Len(output'[p]) /\ fwd = wasRead - Len(chan'[p])
    BY <2>2
  <2> HIDE DEF wasRead, fwd, WasRead, Forwarded
  <2>4. wasRead = WasRead(p) + 1
    <3>1. /\ said[p] \in Int /\ Len(output[p]) \in Int
          /\ Len(output'[p]) = Len(output[p]) - 1
          /\ wasRead = said[p] - Len(output'[p]) /\ WasRead(p) = said[p] - Len(output[p])
      BY <1>2, <1>3, <2>2, <2>3
    <3> QED
      BY <3>1
  <2>5. fwd = Forwarded(p)
    <3>1. /\ Len(chan[p]) \in Nat /\ Len(chan'[p]) = Len(chan[p]) + 1
          /\ fwd = wasRead - Len(chan'[p]) /\ Forwarded(p) = WasRead(p) - Len(chan[p])
      BY <1>3, <2>2, <2>3
    <3> QED
      BY <2>1, <2>4, <3>1
  <2> QED
    BY SMTT(30), <1>2, <1>3, <2>1, <2>2, <2>4, <2>5 DEF wasRead, fwd
<1>5. \A i \in 1..Len(output[p]) : output[p][i].of = p /\ output[p][i].n = WasRead(p) + i
  BY DEF PtyInv, Lined
<1>6. \A i \in 1..Len(output'[p]) : output'[p][i].of = p /\ output'[p][i].n = WasRead(p) + 1 + i
  <2> SUFFICES ASSUME NEW i \in 1..Len(output'[p])
               PROVE  output'[p][i].of = p /\ output'[p][i].n = WasRead(p) + 1 + i
    OBVIOUS
  <2>1. i + 1 \in 1..Len(output[p]) /\ output'[p][i] = output[p][i + 1] /\ i \in Nat
    BY <1>3
  <2>2. output'[p][i].of = p /\ output'[p][i].n = WasRead(p) + (i + 1)
    BY <1>5, <2>1
  <2> HIDE DEF WasRead
  <2> QED
    BY <1>4, <2>1, <2>2
<1>7. \A i \in 1..Len(chan'[p]) : /\ chan'[p][i].of = p /\ chan'[p][i].n <= said[p]
                                  /\ Place(p, chan'[p][i]) = Forwarded(p) + i
  <2> SUFFICES ASSUME NEW i \in 1..Len(chan'[p])
               PROVE  /\ chan'[p][i].of = p /\ chan'[p][i].n <= said[p]
                      /\ Place(p, chan'[p][i]) = Forwarded(p) + i
    OBVIOUS
  <2>1. CASE i \in 1..Len(chan[p])
    <3>1. chan'[p][i] = chan[p][i]
      BY <1>3, <2>1
    <3>2. /\ chan[p][i].of = p /\ chan[p][i].n <= said[p]
          /\ Place(p, chan[p][i]) = Forwarded(p) + i
      BY <2>1 DEF PtyInv, Lined
    <3> QED
      BY <3>1, <3>2 DEF Place
  <2>2. CASE i = Len(chan[p]) + 1
    <3>1. chan'[p][i].of = p /\ chan'[p][i].n = WasRead(p) + 1
      BY <1>3, <1>5, <2>2
    <3> HIDE DEF WasRead, Forwarded
    <3>2. chan'[p][i].n # P!Exited /\ chan'[p][i].n <= said[p]
      BY SMTT(30), <1>3, <1>4, <3>1 DEF P!Exited
    <3>3. Place(p, chan'[p][i]) = WasRead(p) + 1
      BY <3>1, <3>2 DEF Place
    <3> QED
      BY <1>3, <1>4, <2>2, <3>1, <3>2, <3>3
  <2> QED
    BY <1>3, <2>1, <2>2
<1>8. Lined(p)'
  <2>1. \A i \in 1..Len(chan'[p]) : Place(p, chan[p][i])' = Forwarded(p) + i
    BY <1>1, <1>7 DEF Place
  <2>2. WasRead(p)' \in Nat /\ Forwarded(p)' \in Nat /\ Forwarded(p)' >= Len(fed'[p])
    <3> HIDE DEF WasRead, Forwarded
    <3> QED
      BY <1>1, <1>4 DEF PtyInv, Lined
  <2>3. /\ \A i \in 1..Len(fed'[p]) : fed'[p][i].of = p /\ fed'[p][i].n = i
        /\ reader'[p] # "none"
    BY <1>1 DEF PtyInv, Lined
  <2> QED
    BY <1>1, <1>4, <1>6, <1>7, <2>1, <2>2, <2>3 DEF Lined
<1>9. InOrder(p)'
  BY <1>1, <1>4, InOrderKept DEF PtyInv
<1> QED
  BY <1>8, <1>9

\* The thread ends at the end of the terminal, and says so.
LEMMA ReaderEndsStep ==
  ASSUME PtyInv, NEW p \in Ids, P!ReaderEnds(p)
  PROVE  Lined(p)' /\ InOrder(p)'
<1>1. /\ UNCHANGED <<said, output, events, panes, fed>> /\ output[p] = <<>>
      /\ reader[p] = "reads" /\ reader'[p] = "over"
      /\ chan'[p] = Append(chan[p], [of |-> p, n |-> P!Exited])
  BY DEF P!ReaderEnds, P!ReaderEndsOn, P!Eof, P!ttyVars, PtyInv, PtyTyped, Queues
<1>2. chan[p] \in Seq(Chunks) /\ said[p] \in Nat
  BY DEF PtyInv, PtyTyped, Queues
<1>3. /\ Len(chan[p]) \in Nat /\ Len(chan'[p]) = Len(chan[p]) + 1
      /\ \A i \in 1..Len(chan[p]) : chan'[p][i] = chan[p][i]
      /\ chan'[p][Len(chan[p]) + 1] = [of |-> p, n |-> P!Exited]
  BY <1>1, <1>2
<1>4. WasRead(p) = said[p] /\ WasRead(p)' = said[p]
  BY <1>1, <1>2 DEF WasRead
<1>5. Forwarded(p) = said[p] - Len(chan[p]) /\ Forwarded(p)' = said[p] + 1 - Len(chan'[p])
  BY SMTT(30), <1>1, <1>2, <1>3, <1>4 DEF Sent, Forwarded
<1>6. Forwarded(p)' = Forwarded(p)
  BY <1>2, <1>3, <1>5
<1>7. \A i \in 1..Len(chan'[p]) : /\ chan'[p][i].of = p /\ chan'[p][i].n <= said[p]
                                  /\ Place(p, chan'[p][i]) = Forwarded(p) + i
  <2> SUFFICES ASSUME NEW i \in 1..Len(chan'[p])
               PROVE  /\ chan'[p][i].of = p /\ chan'[p][i].n <= said[p]
                      /\ Place(p, chan'[p][i]) = Forwarded(p) + i
    OBVIOUS
  <2>1. CASE i \in 1..Len(chan[p])
    <3>1. chan'[p][i] = chan[p][i]
      BY <1>3, <2>1
    <3>2. /\ chan[p][i].of = p /\ chan[p][i].n <= said[p]
          /\ Place(p, chan[p][i]) = Forwarded(p) + i
      BY <2>1 DEF PtyInv, Lined
    <3> QED
      BY <3>1, <3>2 DEF Place
  <2>2. CASE i = Len(chan[p]) + 1
    <3>1. chan'[p][i].of = p /\ chan'[p][i].n = 0 /\ Place(p, chan'[p][i]) = said[p] + 1
      BY <1>3, <2>2 DEF Place, P!Exited
    <3> HIDE DEF Forwarded, Place
    <3> QED
      BY <1>2, <1>3, <1>5, <2>2, <3>1
  <2> QED
    BY <1>3, <2>1, <2>2
<1>8. Lined(p)'
  <2>1. \A i \in 1..Len(chan'[p]) : Place(p, chan[p][i])' = Forwarded(p) + i
    BY <1>1, <1>7 DEF Place
  <2>2. WasRead(p)' \in Nat /\ Forwarded(p)' \in Nat /\ Forwarded(p)' >= Len(fed'[p])
    BY <1>1, <1>2, <1>4, <1>6 DEF PtyInv, Lined
  <2>3. /\ \A i \in 1..Len(fed'[p]) : fed'[p][i].of = p /\ fed'[p][i].n = i
        /\ \A i \in 1..Len(output'[p]) : FALSE
    BY <1>1 DEF PtyInv, Lined
  <2> QED
    BY <1>1, <1>6, <1>7, <2>1, <2>2, <2>3 DEF Lined
<1>9. InOrder(p)'
  <2>1. \A e : Place(p, e)' = Place(p, e)
    BY <1>1 DEF Place
  <2>2. Coming(p)' = Coming(p) /\ Due(p)' = Due(p)
    BY <1>1, <1>6 DEF Coming, Due
  <2> QED
    BY <1>1, <2>1, <2>2 DEF PtyInv, InOrder, Place
<1> QED
  BY <1>8, <1>9

\* The forwarder passes on the next one.
LEMMA ForwardsStep ==
  ASSUME PtyInv, NEW p \in Ids, P!Forwards(p), NEW q \in Ids
  PROVE  Lined(q)' /\ InOrder(q)'
<1> DEFINE chunk == Head(chan[p])
<1>1. /\ UNCHANGED <<said, output, reader, panes, fed>> /\ chan[p] # <<>>
      /\ chan' = [chan EXCEPT ![p] = Tail(chan[p])] /\ events' = Append(events, chunk)
  BY DEF P!Forwards, P!MayForward, P!ttyVars
<1>2. /\ chan[p] \in Seq(Chunks) /\ chan'[p] = Tail(chan[p])
      /\ \A r \in Ids : r # p => chan'[r] = chan[r]
  BY <1>1 DEF PtyInv, PtyTyped, Queues
<1>3. /\ Len(chan[p]) \in Nat \ {0} /\ Len(chan'[p]) = Len(chan[p]) - 1
      /\ \A i \in 1..Len(chan'[p]) : chan'[p][i] = chan[p][i + 1]
      /\ chunk = chan[p][1] /\ chunk \in Chunks
  <2>1. chan[p] # <<>>
    BY <1>1
  <2>2. Len(chan[p]) \in Nat \ {0} /\ Head(chan[p]) = chan[p][1] /\ Head(chan[p]) \in Chunks
    BY <1>2, <2>1
  <2>3. /\ Len(Tail(chan[p])) = Len(chan[p]) - 1
        /\ \A i \in 1..Len(Tail(chan[p])) : Tail(chan[p])[i] = chan[p][i + 1]
    BY <1>2, <2>1
  <2> QED
    BY <1>2, <2>2, <2>3
<1>4. /\ chunk.of = p /\ chunk.n <= said[p] /\ Place(p, chunk) = Forwarded(p) + 1
      /\ Forwarded(p) \in Nat /\ Forwarded(p) >= Len(fed[p])
  BY <1>3 DEF PtyInv, Lined
<1>5. reader[p] # "none"
  BY <1>1 DEF PtyInv, Lined
<1>6. Sent(p) \in Int /\ Sent(p)' = Sent(p) /\ WasRead(p)' = WasRead(p)
  <2>1. WasRead(p) \in Nat /\ WasRead(p)' = WasRead(p)
    BY <1>1 DEF PtyInv, Lined, WasRead
  <2> HIDE DEF WasRead
  <2> QED
    BY <1>1, <2>1 DEF Sent
<1>7. Forwarded(p)' = Forwarded(p) + 1
  <2> HIDE DEF Sent
  <2> QED
    BY <1>3, <1>6 DEF Forwarded
<1>8. CASE q = p
  <2>1. \A i \in 1..Len(chan'[p]) : /\ chan'[p][i].of = p /\ chan'[p][i].n <= said[p]
                                    /\ Place(p, chan'[p][i]) = Forwarded(p) + 1 + i
    <3> SUFFICES ASSUME NEW i \in 1..Len(chan'[p])
                 PROVE  /\ chan'[p][i].of = p /\ chan'[p][i].n <= said[p]
                        /\ Place(p, chan'[p][i]) = Forwarded(p) + 1 + i
      OBVIOUS
    <3>1. i + 1 \in 1..Len(chan[p]) /\ chan'[p][i] = chan[p][i + 1] /\ i \in Nat
      BY <1>3
    <3>2. /\ chan[p][i + 1].of = p /\ chan[p][i + 1].n <= said[p]
          /\ Place(p, chan[p][i + 1]) = Forwarded(p) + (i + 1)
      BY <3>1 DEF PtyInv, Lined
    <3>3. Forwarded(p) + (i + 1) = Forwarded(p) + 1 + i
      <4> HIDE DEF Forwarded
      <4> QED
        BY <1>4, <3>1
    <3> QED
      BY <3>1, <3>2, <3>3
  <2>2. \A i \in 1..Len(chan'[p]) : Place(p, chan[p][i])' = Forwarded(p) + 1 + i
    BY <1>1, <2>1 DEF Place
  <2>3. /\ \A i \in 1..Len(output[p]) : output[p][i].of = p /\ output[p][i].n = WasRead(p) + i
        /\ \A i \in 1..Len(fed[p]) : fed[p][i].of = p /\ fed[p][i].n = i
        /\ WasRead(p) \in Nat /\ Len(fed[p]) \in Nat
    BY SMTT(30) DEF PtyInv, PtyTyped, Queues, Lined
  <2>4. Forwarded(p)' \in Nat /\ Forwarded(p)' >= Len(fed'[p])
    <3> HIDE DEF Forwarded
    <3> QED
      BY <1>1, <1>4, <1>7, <2>3
  <2>5. Lined(p)'
    BY <1>1, <1>5, <1>6, <1>7, <2>1, <2>2, <2>3, <2>4 DEF Lined
  <2>6. InOrder(p)'
    BY <1>1, <1>3, <1>4, <1>5, <1>7, InOrderAhead DEF PtyInv
  <2> QED
    BY <1>8, <2>5, <2>6
<1>9. CASE q # p
  <2>1. chan'[q] = chan[q]
    BY <1>2, <1>9
  <2>2. Forwarded(q)' = Forwarded(q) /\ Forwarded(q) \in Nat /\ Forwarded(q) >= Len(fed[q])
    BY <1>1, <2>1 DEF PtyInv, Lined, WasRead, Sent, Forwarded
  <2>3. Lined(q)'
    BY <1>1, <2>1, LinedKept DEF PtyInv
  <2>4. InOrder(q)'
    <3> HIDE DEF chunk
    <3> QED
      BY <1>1, <1>3, <1>4, <1>9, <2>2, InOrderAhead DEF PtyInv
  <2> QED
    BY <2>3, <2>4
<1> QED
  BY <1>8, <1>9

\* A pane starts with nothing said, sent or fed.
LEMMA SpawnStep ==
  ASSUME PtyInv, NEW p \in Ids, P!SpawnPane(p)
  PROVE  Lined(p)' /\ InOrder(p)'
<1>1. /\ UNCHANGED <<said, output, chan, events, fed>>
      /\ reader'[p] = "reads" /\ panes' = panes \cup {p}
  BY DEF P!SpawnPane, PtyInv, PtyTyped
<1>2. reader[p] = "none"
  <2>1. ~(p < p)
    BY IdsAssumption
  <2> QED
    BY <2>1 DEF P!SpawnPane
<1>3. /\ said[p] = 0 /\ chan[p] = <<>> /\ fed[p] = <<>> /\ p \notin panes
      /\ WasRead(p) \in Nat /\ Len(output[p]) \in Nat
      /\ \A i \in 1..Len(output[p]) : output[p][i].of = p /\ output[p][i].n = WasRead(p) + i
      /\ Coming(p) = {}
  BY <1>2 DEF PtyInv, PtyTyped, Queues, Lined, InOrder
<1>4. WasRead(p) = 0 /\ WasRead(p)' = 0 /\ Forwarded(p)' = 0
  <2>1. WasRead(p) = 0 - Len(output[p]) /\ WasRead(p)' = WasRead(p)
    BY <1>1, <1>3 DEF WasRead
  <2>2. WasRead(p) = 0
    <3> HIDE DEF WasRead
    <3> QED
      BY <1>3, <2>1
  <2> QED
    BY <1>1, <1>3, <2>1, <2>2 DEF Forwarded, Sent
<1>5. Lined(p)'
  BY <1>1, <1>3, <1>4 DEF Lined
<1>6. InOrder(p)'
  <2>1. Coming(p)' = {} /\ Due(p)' = {}
    BY <1>1, <1>3, <1>4 DEF Coming, Due
  <2> QED
    BY <2>1 DEF InOrder
<1> QED
  BY <1>5, <1>6

\* The loop takes an event that is not an exit.
LEMMA FeedStep ==
  ASSUME PtyInv, P!Feed, NEW q \in Ids
  PROVE  Lined(q)' /\ InOrder(q)'
<1> DEFINE p == Head(events).of
<1>1. /\ UNCHANGED <<said, output, reader, chan, panes>> /\ events # <<>>
      /\ events' = Tail(events) /\ Head(events).n # P!Exited
      /\ IF p \in panes THEN fed' = [fed EXCEPT ![p] = Append(fed[p], Head(events))]
                        ELSE fed' = fed
  BY DEF P!Feed, P!ttyVars
<1>2. Forwarded(q)' = Forwarded(q)
  BY <1>1 DEF Forwarded, Sent, WasRead
<1>3. CASE q = p /\ p \in panes
  <2>1. fed[q] \in Seq(Chunks) /\ fed'[q] = Append(fed[q], Head(events))
    BY <1>1, <1>3 DEF PtyInv, PtyTyped, Queues
  <2>2. /\ Len(fed[q]) \in Nat /\ Len(fed'[q]) = Len(fed[q]) + 1
        /\ \A i \in 1..Len(fed[q]) : fed'[q][i] = fed[q][i]
        /\ fed'[q][Len(fed[q]) + 1] = Head(events)
    <3>1. Head(events) \in Chunks
      BY <1>1 DEF PtyInv, PtyTyped
    <3> QED
      BY <2>1, <3>1
  <2>3. Head(events).n = Len(fed[q]) + 1 /\ Forwarded(q) >= Len(fed[q]) + 1
    BY <1>1, <1>3, HeadIsNext DEF PtyInv, Place
  <2>4. InOrder(q)'
    BY <1>1, <1>2, <1>3, <2>2, InOrderFed DEF PtyInv
  <2>5. \A i \in 1..Len(fed'[q]) : fed'[q][i].of = q /\ fed'[q][i].n = i
    <3>1. \A i \in 1..Len(fed[q]) : fed[q][i].of = q /\ fed[q][i].n = i
      BY DEF PtyInv, Lined
    <3> HIDE DEF p
    <3>2. Head(events).of = q
      BY <1>3 DEF p
    <3> QED
      BY SMTT(30), <2>2, <2>3, <3>1, <3>2
  <2>6. WasRead(q)' = WasRead(q) /\ \A e : Place(q, e)' = Place(q, e)
    BY <1>1 DEF WasRead, Place
  <2>7. Lined(q)'
    <3>1. /\ reader[q] # "none" /\ WasRead(q) \in Nat /\ Forwarded(q) \in Nat
          /\ \A i \in 1..Len(output[q]) : output[q][i].of = q /\ output[q][i].n = WasRead(q) + i
          /\ \A i \in 1..Len(chan[q]) : /\ chan[q][i].of = q /\ chan[q][i].n <= said[q]
                                        /\ Place(q, chan[q][i]) = Forwarded(q) + i
      BY <1>3 DEF PtyInv, Lined
    <3>2. \A i \in 1..Len(chan[q]) : Place(q, chan[q][i])' = Forwarded(q) + i
      BY <1>1, <3>1 DEF Place
    <3> QED
      BY <1>1, <1>2, <2>2, <2>3, <2>5, <2>6, <3>1, <3>2 DEF Lined
  <2> QED
    BY <2>4, <2>7
<1>4. CASE q # p
  <2>1. fed'[q] = fed[q]
    BY <1>1, <1>4 DEF PtyInv, PtyTyped, Queues
  <2> QED
    BY <1>1, <1>2, <1>4, <2>1, LinedKept, InOrderBehind DEF PtyInv
<1>5. CASE q = p /\ p \notin panes
  <2>1. fed' = fed
    BY <1>1, <1>5
  <2>2. Lined(q)'
    BY <1>1, <2>1, LinedKept DEF PtyInv
  <2>3. InOrder(q)'
    BY <1>1, <1>5, <2>1, GoneInOrder DEF PtyInv
  <2> QED
    BY <2>2, <2>3
<1> QED
  BY <1>3, <1>4, <1>5

\* The loop takes an exit: the pane leaves.
LEMMA PaneExitedStep ==
  ASSUME PtyInv, P!PaneExited, NEW q \in Ids
  PROVE  Lined(q)' /\ InOrder(q)'
<1>1. /\ UNCHANGED <<said, output, reader, chan, fed>> /\ events # <<>>
      /\ events' = Tail(events) /\ panes' = panes \ {Head(events).of}
  BY DEF P!PaneExited, P!ttyVars
<1>2. Lined(q)'
  BY <1>1, LinedKept DEF PtyInv
<1>3. CASE q # Head(events).of
  <2>1. Forwarded(q)' = Forwarded(q)
    BY <1>1 DEF Forwarded, Sent, WasRead
  <2> QED
    BY <1>1, <1>2, <1>3, <2>1, InOrderBehind DEF PtyInv
<1>4. CASE q = Head(events).of
  BY <1>1, <1>2, <1>4, GoneInOrder DEF PtyInv
<1> QED
  BY <1>3, <1>4

\* The other steps leave the way of the output alone.
LEMMA PtyInvStep ==
  ASSUME PtyInv, [P!Next]_paneVars
  PROVE  PtyInv'
<1>1. PtyTyped' /\ \A q \in Ids : Held(q)'
  BY PtyTypedStep, HeldStep
<1>2. ASSUME NEW q \in Ids PROVE Lined(q)' /\ InOrder(q)'
  <2>0. PtyTyped /\ Lined(q) /\ InOrder(q) /\ q \in DOMAIN reader
    BY DEF PtyInv, PtyTyped
  <2>1. ASSUME UNCHANGED <<said[q], output[q], reader[q], chan[q], fed[q], events>>,
               q \in panes' => q \in panes
        PROVE  Lined(q)' /\ InOrder(q)'
    <3>1. Forwarded(q)' = Forwarded(q)
      BY <2>1 DEF Forwarded, Sent, WasRead
    <3> QED
      BY <2>0, <2>1, <3>1, LinedKept, InOrderKept
  <2>2. ASSUME NEW p \in Ids, NEW who \in {"child", "job"}, P!Says(p, who)
        PROVE  Lined(q)' /\ InOrder(q)'
    <3>1. CASE q # p
      BY <2>1, <2>2, <3>1 DEF P!Says, P!flowVars, PtyInv, PtyTyped, Queues
    <3> QED
      BY <2>2, <3>1, SaysStep
  <2>3. ASSUME NEW p \in Ids, P!Reads(p) PROVE Lined(q)' /\ InOrder(q)'
    <3>1. CASE q # p
      BY <2>1, <2>3, <3>1 DEF P!Reads, PtyInv, PtyTyped, Queues
    <3> QED
      BY <2>3, <3>1, ReadsStep
  <2>4. ASSUME NEW p \in Ids, P!ReaderEnds(p) PROVE Lined(q)' /\ InOrder(q)'
    <3>1. CASE q # p
      BY <2>1, <2>4, <3>1
         DEF P!ReaderEnds, P!ReaderEndsOn, P!ttyVars, PtyInv, PtyTyped, Queues
    <3> QED
      BY <2>4, <3>1, ReaderEndsStep
  <2>5. ASSUME NEW p \in Ids, P!SpawnPane(p) PROVE Lined(q)' /\ InOrder(q)'
    <3>1. CASE q # p
      BY <2>1, <2>5, <3>1 DEF P!SpawnPane, PtyInv, PtyTyped
    <3> QED
      BY <2>5, <3>1, SpawnStep
  <2>6. ASSUME NEW p \in Ids, NEW who, NEW size,
               P!Dies(p, who) \/ P!Hears(p) \/ P!Turns(p) \/ P!ClosePane(p) \/ P!Kills(p)
                 \/ P!WriteToPane(p, size) \/ P!Writes \/ UNCHANGED paneVars
        PROVE  Lined(q)' /\ InOrder(q)'
    <3>1. UNCHANGED <<said, output, reader, chan, fed, events>> /\ panes' \subseteq panes
      BY <2>6 DEF P!Dies, P!Hears, P!Turns, P!ClosePane, P!Kills, P!WriteToPane, P!Writes,
                  paneVars, P!ttyVars, P!flowVars
    <3> QED
      BY <2>1, <3>1
  <2> QED
    BY <2>2, <2>3, <2>4, <2>5, <2>6, ForwardsStep, FeedStep, PaneExitedStep DEF P!Next
<1> QED
  BY <1>1, <1>2 DEF PtyInv

LEMMA PtyInvHolds == SumSpec => []PtyInv
<1>1. SumInit => PtyInv
  BY PtyInvInit DEF SumInit
<1>2. PtyInv /\ [SumNext]_SumVars => PtyInv'
  BY PtyInvStep DEF SumNext, SumVars
<1> QED
  BY <1>1, <1>2, PTL DEF SumSpec

\* Through the PTY, the channel and the events of the loop everything said in a pane
\* reaches its screen, once and in order, before the exit does, and the exit comes
\* when no process is left (PaneRuntime, spawn_pane_forwarder, run).
THEOREM ExitIsLastHolds == SumSpec => ExitIsLast
<1> DEFINE Finished(p) ==
      P!PaneExited => /\ tty[p] = {} /\ Len(fed[p]) = said[p]
                      /\ \A i \in DOMAIN fed[p] : fed[p][i].of = p /\ fed[p][i].n = i
<1>1. PtyInv => [\A p \in panes \ panes' : Finished(p)]_(P!vars)
  <2> SUFFICES ASSUME PtyInv, NEW p \in panes \ panes', P!PaneExited
               PROVE  /\ tty[p] = {} /\ Len(fed[p]) = said[p]
                      /\ \A i \in DOMAIN fed[p] : fed[p][i].of = p /\ fed[p][i].n = i
    OBVIOUS
  <2>1. p \in Ids /\ said[p] \in Nat /\ fed[p] \in Seq(Chunks)
    BY DEF PtyInv, PtyTyped, Queues
  <2>2. events # <<>> /\ Head(events).of = p /\ Head(events).n = P!Exited
    BY DEF P!PaneExited
  <2>3. Place(p, Head(events)) = said[p] + 1
    BY <2>2 DEF Place
  <2>4. said[p] + 1 = Len(fed[p]) + 1 /\ Forwarded(p) >= Len(fed[p]) + 1
    BY <2>1, <2>2, <2>3, HeadIsNext DEF PtyInv
  <2>5. Len(fed[p]) = said[p]
    BY <2>1, <2>4
  <2>6. reader[p] = "over"
    <3> SUFFICES ASSUME reader[p] # "over" PROVE FALSE
      OBVIOUS
    <3>1. /\ Len(output[p]) \in Nat /\ Len(chan[p]) \in Nat
          /\ Forwarded(p) = said[p] - Len(output[p]) + 0 - Len(chan[p])
      BY <2>1 DEF Forwarded, Sent, WasRead, PtyInv, PtyTyped, Queues
    <3> HIDE DEF Forwarded
    <3> QED
      BY <2>1, <2>4, <3>1
  <2>7. tty[p] = {}
    BY <2>1, <2>6 DEF PtyInv, Held
  <2>8. \A i \in DOMAIN fed[p] : fed[p][i].of = p /\ fed[p][i].n = i
    BY <2>1 DEF PtyInv, Lined
  <2> QED
    BY <2>5, <2>7, <2>8
<1> QED
  BY <1>1, PtyInvHolds, PTL DEF ExitIsLast, P!ExitIsLast

\* The loop, which writes to a child itself and waits for room, never waits in a ring
\* with the child, the thread and the forwarder (write_input, spawn).
THEOREM NoStandoffHolds == SumSpec => []NoStandoff
<1>1. PtyInv => NoStandoff
  <2> SUFFICES ASSUME PtyInv, ~P!Idle, NEW p, p = writing.to
               PROVE  \/ child[p] \in {"deaf", "none"}
                      \/ input[p] < P!PtyRoom \/ tty[p] = {}
                      \/ P!MayHear(p) \/ P!MaySay(p, "child")
                      \/ P!MayRead(p) \/ P!MayForward(p)
    BY DEF NoStandoff, P!NoStandoff
  <2>1. p \in Ids
    BY DEF P!Idle, PtyInv, PtyTyped
  <2>2. child[p] \in Moods /\ input[p] \in Nat /\ output[p] \in Seq(Chunks) /\ Held(p)
    BY <2>1 DEF PtyInv, PtyTyped, Queues
  <2>3. CASE child[p] = "hears"
    BY <2>2, <2>3 DEF P!PtyRoom, P!MayHear
  <2>4. CASE child[p] = "says"
    <3>1. "child" \in tty[p] /\ reader[p] = "reads"
      BY <2>2, <2>4 DEF Held
    <3>2. Len(output[p]) < P!PtyRoom \/ output[p] # <<>>
      BY <2>2 DEF P!PtyRoom
    <3> QED
      BY <2>4, <3>1, <3>2 DEF P!MaySay, P!MayRead, P!Sendable
  <2> QED
    BY <2>2, <2>3, <2>4 DEF Moods
<1> QED
  BY <1>1, PtyInvHolds, PTL

-----------------------------------------------------------------------------
(* What the daemon calls the things it shows                               *)

AgentNames == {"claude", "codex"}
Labels   == [id : Nat, line : Nat]
Files    == [id : Nat, lines : Seq(N!Lines)]
Answers  == AgentNames \cup {N!None}
Origins  == Programs \cup {<<>>}
Branches == Heads \cup {N!None}
Ages     == 0..Interval + 1
Metas    == [agent : Answers, of : Origins, label : Labels, branch : Branches, since : Ages]

NamesTyped ==
  /\ cmd \in [Panes -> Programs] /\ head \in [N!GitDirs -> Heads] /\ focus \in Panes
  /\ logs \in [Panes -> Seq(Files)] /\ meta \in [Panes -> Metas]
  /\ still \in Ages /\ named \in BOOLEAN /\ pinned \in BOOLEAN

\* The transcripts of a directory are numbered from 1 as they are begun, whatever
\* order they were last written in.
NumberedFiles(files) ==
  \A i \in 1..Len(files) :
    /\ files[i].id \in 1..Len(files)
    /\ \A j \in 1..Len(files) : files[i].id = files[j].id => i = j

\* A label is of a transcript that was begun, and of a line in it that counts.
Counts(l, files) ==
  /\ l.id <= Len(files)
  /\ \A i \in 1..Len(files) :
       l.id = files[i].id /\ l.line # 0 =>
         /\ l.line \in 1..Len(files[i].lines)
         /\ files[i].lines[l.line].kind \in {"title", "user"}

\* What a row tells of a process is what its command line says.
KnownIn(m) ==
  /\ m.of = <<>> => m.agent = N!None
  /\ m.of # <<>> => m.agent = N!AgentIn(m.of)

\* A row that is up to date, and one that was not read since the last change but
\* waits for the interval, which the good ticks since bring to its end.
Fresh(p) ==
  /\ meta[p].branch = N!DetectBranch(PlaceOf[p].ancestors, head)
  /\ meta[p].label = N!LabelOf(meta[p].agent, osc[p], PlaceOf[p].path, logs[p])

Catching(p) ==
  still # 0 =>
    /\ meta[p].of = cmd[p]
    /\ meta[p].agent # N!None => Fresh(p) \/ (meta[p].since >= still /\ meta[p].since <= Interval)

NamesInv ==
  /\ NamesTyped /\ N!NameTrue
  /\ \A p \in Panes : /\ NumberedFiles(logs[p]) /\ Counts(meta[p].label, logs[p])
                    /\ KnownIn(meta[p]) /\ Catching(p)

-----------------------------------------------------------------------------
(* Least and greatest                                                      *)

\* Of natural numbers there is a least.
LEMMA LeastNumber ==
  ASSUME NEW T, T \subseteq Nat, T # {}
  PROVE  \E x \in T : \A y \in T : x <= y
<1> DEFINE R == {ss \in Nat \X Nat : ss[1] < ss[2]}
<1>1. R = OpToRel(<, Nat)
  BY DEF OpToRel
<1>2. IsWellFoundedOn(R, Nat)
  BY <1>1, NatLessThanWellFounded
<1> HIDE DEF R
<1>3. PICK x \in T : \A y \in T : ~(<<y, x>> \in R)
  BY <1>2, WFMin
<1>4. ASSUME NEW y \in T PROVE x <= y
  <2>1. x \in Nat /\ y \in Nat /\ <<y, x>> \notin R
    BY <1>3
  <2> QED
    BY <2>1 DEF R
<1> QED
  BY <1>4

LEMMA LeastIs ==
  ASSUME NEW T, T \subseteq Nat, T # {}
  PROVE  N!Min(T) \in T /\ \A y \in T : N!Min(T) <= y
BY LeastNumber DEF N!Min

LEMMA GreatestIs ==
  ASSUME NEW n \in Nat, NEW T, T \subseteq 0..n, T # {}
  PROVE  N!Max(T) \in T /\ \A y \in T : N!Max(T) >= y
<1> DEFINE U == {n - x : x \in T}
<1>1. U \subseteq Nat /\ U # {}
  <2>1. PICK t \in T : TRUE
    OBVIOUS
  <2>2. n - t \in U
    OBVIOUS
  <2> QED
    BY <2>2
<1>2. PICK d \in U : \A y \in U : d <= y
  BY <1>1, LeastNumber
<1>3. PICK x \in T : d = n - x
  BY <1>2
<1>4. ASSUME NEW y \in T PROVE x >= y
  <2>1. n - y \in U
    OBVIOUS
  <2>2. d <= n - y
    BY <1>2, <2>1
  <2> QED
    BY <1>3, <2>2
<1> QED
  BY <1>4 DEF N!Max

LEMMA LeastOfTwo ==
  ASSUME NEW a \in Int, NEW b \in Int
  PROVE  N!Min({a, b}) = IF a <= b THEN a ELSE b
<1> DEFINE m == IF a <= b THEN a ELSE b
<1>1. m \in {a, b} /\ \A y \in {a, b} : m <= y
  OBVIOUS
<1>2. \A x \in {a, b} : (\A y \in {a, b} : x <= y) => x = m
  OBVIOUS
<1> QED
  BY <1>1, <1>2 DEF N!Min

-----------------------------------------------------------------------------
(* Command lines                                                           *)

\* What parse_procargs2 reads is what the process was started with.
LEMMA ArgvIs ==
  ASSUME NEW args \in Programs
  PROVE  N!ArgvOf(args) = args
<1> DEFINE n     == Len(args)
           words == Append(args, N!Env)
           cells == [i \in 1..2 * Len(words) |->
                       IF i % 2 = 1 THEN words[(i + 1) \div 2] ELSE N!Nul]
           buf   == <<args[1], N!Nul, N!Nul>> \o cells
<1>1. args \in Seq(N!Words) /\ n \in Nat \ {0} /\ args[1] \in N!Words
  BY NamesAssumption DEF N!ConstantsTyped, N!IsCommandLine
<1>2. N!Env # N!Nul /\ \A w \in N!Words : w # N!Nul
  <2>1. N!Env.is = "env" /\ N!Nul.is = "nul" /\ \A w \in N!Words : w.is # "nul"
    BY DEF N!Env, N!Nul, N!Words
  <2> QED
    BY <2>1
<1>3. /\ Len(words) = n + 1
      /\ \A k \in 1..n : words[k] = args[k] /\ words[k] # N!Nul
      /\ words[n + 1] = N!Env
  BY <1>1, <1>2
<1>4. N!Procargs(args) = buf
  BY DEF N!Procargs
<1> HIDE DEF words
<1>5. cells \in Seq({cells[i] : i \in 1..2 * n + 2}) /\ Len(cells) = 2 * n + 2
  <2>1. 2 * Len(words) = 2 * n + 2 /\ 2 * n + 2 \in Nat
    BY <1>1, <1>3
  <2>2. DOMAIN cells = 1..2 * n + 2
    BY <2>1
  <2>3. cells = [i \in 1..2 * n + 2 |-> cells[i]]
    BY <2>2
  <2> DEFINE S == {cells[i] : i \in 1..2 * n + 2}
  <2>4. \A i \in 1..2 * n + 2 : cells[i] \in S
    OBVIOUS
  <2> HIDE DEF cells, S
  <2>5. cells \in [1..2 * n + 2 -> S]
    BY <2>3, <2>4
  <2>6. cells \in Seq(S)
    BY <2>1, <2>5, SeqDef
  <2>7. Len(cells) = 2 * n + 2
    BY <2>1, <2>2, <2>6, LenProperties
  <2> QED
    BY <2>6, <2>7 DEF S
<1>6. \A k \in 1..n + 1 : cells[2 * k - 1] = words[k]
  <2> TAKE k \in 1..n + 1
  <2>1. 2 * k - 1 \in 1..2 * Len(words) /\ (2 * k - 1) % 2 = 1 /\ (2 * k - 1 + 1) \div 2 = k
    BY <1>1, <1>3
  <2> QED
    BY <2>1
<1> HIDE DEF cells
<1>7. /\ Len(buf) = 2 * n + 5 /\ buf[2] = N!Nul /\ buf[3] = N!Nul
      /\ \A i \in 1..2 * n + 2 : buf[3 + i] = cells[i]
  <2> DEFINE S   == {cells[i] : i \in 1..2 * n + 2} \cup {args[1], N!Nul}
             pad == <<args[1], N!Nul, N!Nul>>
  <2>1. pad \in Seq(S) /\ Len(pad) = 3 /\ pad[2] = N!Nul /\ pad[3] = N!Nul
    OBVIOUS
  <2>2. cells \in Seq(S)
    BY <1>5
  <2> HIDE DEF pad, S
  <2>7. /\ Len(pad \o cells) = Len(pad) + Len(cells)
        /\ \A i \in 1..Len(pad) + Len(cells) :
             (pad \o cells)[i] = IF i <= Len(pad) THEN pad[i] ELSE cells[i - Len(pad)]
    BY <2>1, <2>2, ConcatProperties, Zenon
  <2>3. /\ Len(pad \o cells) = 3 + Len(cells)
        /\ \A i \in 1..3 + Len(cells) : (pad \o cells)[i] = IF i <= 3 THEN pad[i] ELSE cells[i - 3]
    BY <2>1, <2>7
  <2>4. buf = pad \o cells
    BY DEF pad
  <2> HIDE DEF buf
  <2>6. Len(buf) = 2 * n + 5 /\ buf[2] = N!Nul /\ buf[3] = N!Nul
    BY <1>1, <1>5, <2>1, <2>3, <2>4
  <2>5. \A i \in 1..2 * n + 2 : 3 + i \in 1..3 + Len(cells) /\ ~(3 + i <= 3) /\ (3 + i) - 3 = i
    BY <1>1, <1>5
  <2> QED
    BY <2>3, <2>4, <2>5, <2>6
<1> HIDE DEF buf
<1>8. \A k \in 1..n : buf[4 + 2 * (k - 1)] = args[k]
  <2> TAKE k \in 1..n
  <2>1. 2 * k - 1 \in 1..2 * n + 2 /\ 3 + (2 * k - 1) = 4 + 2 * (k - 1) /\ k \in 1..n + 1
    BY <1>1
  <2> QED
    BY <1>3, <1>6, <1>7, <2>1
<1> DEFINE full == {i \in 2..Len(buf) : buf[i] # N!Nul}
<1>9. N!Min(full) = 4
  <2>1. buf[4] # N!Nul
    BY <1>1, <1>3, <1>8
  <2>2. full \subseteq Nat /\ 4 \in full /\ \A i \in full : 4 <= i
    BY <1>1, <1>7, <2>1
  <2> HIDE DEF full
  <2>3. N!Min(full) \in full /\ \A y \in full : N!Min(full) <= y
    BY <2>2, LeastIs, Zenon
  <2> DEFINE m == N!Min(full)
  <2>4. m \in Nat /\ 4 <= m /\ m <= 4
    BY <2>2, <2>3
  <2> HIDE DEF m
  <2>5. m = 4
    BY <2>4
  <2> QED
    BY <2>5 DEF m
<1>10. N!Min({n, (Len(buf) - 4) \div 2 + 1}) = n
  <2>1. (Len(buf) - 4) \div 2 + 1 \in Int /\ n <= (Len(buf) - 4) \div 2 + 1
    BY <1>1, <1>7
  <2> QED
    BY <1>1, <2>1, LeastOfTwo
<1>11. N!ParseWords(n, buf) = [k \in 1..n |-> buf[4 + 2 * (k - 1)]]
  <2> HIDE DEF n
  <2> QED
    BY <1>9, <1>10, Zenon DEF N!ParseWords
<1> QED
  BY <1>1, <1>4, <1>8, <1>11 DEF N!ArgvOf
\* A name is never a piece of code, nor what is behind the words.
LEMMA NameIsClean ==
  ASSUME NEW args \in Programs
  PROVE  /\ N!ProcessName(args) = N!FriendlyName(args)
         /\ N!FriendlyName(args)[1] \notin {"source", "PATH"}
         /\ N!InitialName(args)[1] \notin {"source", "PATH"}
<1>1. args \in Seq(N!Words) /\ N!IsCommandLine(args) /\ Len(args) \in Nat \ {0}
  BY NamesAssumption DEF N!ConstantsTyped, N!IsCommandLine
<1>2. args[1].base \notin {"source", "PATH"}
  BY <1>1 DEF N!IsCommandLine
<1> DEFINE stops == {i \in 2..Len(args) : args[i].is \notin {"flag", "bundle"}}
           m     == N!Min(stops)
<1>3. ASSUME stops # {}, args[m].is # "eval" PROVE args[m].base \notin {"source", "PATH"}
  <2>1. m \in stops /\ \A y \in stops : m <= y
    <3>1. stops \subseteq Nat
      BY <1>1
    <3> HIDE DEF stops
    <3> QED
      BY <1>3, <3>1, LeastIs
  <2>2. m \in 2..Len(args) /\ args[m].base # "PATH"
    BY <1>1, <2>1 DEF N!IsCommandLine
  <2>3. ASSUME args[m].base = "source" PROVE FALSE
    <3>1. args[m - 1].is = "eval"
      BY <1>1, <2>2, <2>3 DEF N!IsCommandLine
    <3>2. m - 1 # 1
      BY <1>1, <3>1 DEF N!IsCommandLine
    <3>3. m - 1 \in stops /\ ~(m <= m - 1)
      BY <1>1, <2>2, <3>1, <3>2
    <3> QED
      BY <2>1, <3>3
  <2> QED
    BY <2>2, <2>3
<1>4. N!FriendlyName(args) = IF args[1].base \in N!Runtimes /\ stops # {} /\ args[m].is # "eval"
                             THEN <<args[m].base, FALSE>> ELSE <<args[1].base, args[1].js>>
  BY DEF N!FriendlyName
<1> HIDE DEF stops, m
<1>5. N!FriendlyName(args)[1] \notin {"source", "PATH"}
  BY <1>2, <1>3, <1>4
<1> QED
  BY <1>2, <1>5, ArgvIs DEF N!ProcessName, N!InitialName

LEMMA AgentTyped == N!None \in Answers /\ \A args : N!AgentIn(args) \in Answers
BY DEF Answers, N!AgentIn, N!AgentFor, N!None, AgentNames

-----------------------------------------------------------------------------
(* Branches and labels                                                     *)

LEMMA BranchTyped ==
  ASSUME NEW heads \in [N!GitDirs -> Heads], NEW ancestors
  PROVE  N!DetectBranch(ancestors, heads) \in Branches
<1> DEFINE g == N!DotGit(ancestors)
<1>1. N!DetectBranch(ancestors, heads) = IF g \in N!GitDirs THEN N!ParseHead(heads[g]) ELSE N!None
  BY DEF N!DetectBranch
<1> HIDE DEF g
<1> QED
  BY <1>1 DEF N!ParseHead, Branches

LEMMA ReadIsIn == \A lines : N!ReadCapped(lines) \subseteq DOMAIN lines
BY Zenon DEF N!ReadCapped

\* A scan finds a line that counts among those it reads, or none.
LEMMA ScanFinds ==
  ASSUME NEW lines \in Seq(N!Lines), NEW read, read \subseteq 1..Len(lines),
         NEW n, n = N!ScanLabel(lines, read)
  PROVE  n # 0 => n \in 1..Len(lines) /\ lines[n].kind \in {"title", "user"}
<1> DEFINE of(kind) == {i \in read : lines[i].kind = kind}
<1>1. n = IF of("title") # {} THEN N!Min(of("title"))
          ELSE IF of("user") # {} THEN N!Max(of("user")) ELSE 0
  BY DEF N!ScanLabel
<1>5. Len(lines) \in Nat
  OBVIOUS
<1>6. read \subseteq Nat /\ read \subseteq 0..Len(lines)
  BY <1>5
<1>2. of("title") \subseteq Nat /\ of("user") \subseteq 0..Len(lines)
  BY <1>6
<1>3. of("title") # {} => N!Min(of("title")) \in of("title")
  <2> HIDE DEF of
  <2> QED
    BY <1>2, LeastIs
<1>4. of("user") # {} => N!Max(of("user")) \in of("user")
  <2> HIDE DEF of
  <2> QED
    BY <1>2, <1>5, GreatestIs
<1> QED
  BY <1>1, <1>3, <1>4

\* With one title at most, and what tells in what it reads, it finds what is true.
LEMMA ScanIsTrue ==
  ASSUME NEW lines \in Seq(N!Lines), NEW read, read \subseteq 1..Len(lines),
         N!TrueLine(lines) \in read \cup {0},
         ~ \E i, j \in DOMAIN lines : i # j /\ lines[i].kind = "title" /\ lines[j].kind = "title"
  PROVE  N!ScanLabel(lines, read) = N!TrueLine(lines)
<1> DEFINE of(kind)  == {i \in read : lines[i].kind = kind}
           all(kind) == {i \in DOMAIN lines : lines[i].kind = kind}
           n == N!ScanLabel(lines, read)
           t == N!TrueLine(lines)
<1>1. n = IF of("title") # {} THEN N!Min(of("title"))
          ELSE IF of("user") # {} THEN N!Max(of("user")) ELSE 0
  BY DEF N!ScanLabel
<1>2. t = IF all("title") # {} THEN N!Max(all("title"))
          ELSE IF all("user") # {} THEN N!Max(all("user")) ELSE 0
  BY DEF N!TrueLine
<1>3. /\ Len(lines) \in Nat /\ DOMAIN lines = 1..Len(lines)
      /\ \A kind : of(kind) \subseteq all(kind) /\ all(kind) \subseteq 1..Len(lines)
      /\ \A kind : \A i \in all(kind) \cap read : i \in of(kind)
      /\ \A i, j \in all("title") : i = j
  <2>1. Len(lines) \in Nat /\ DOMAIN lines = 1..Len(lines)
    OBVIOUS
  <2>2. \A kind : of(kind) \subseteq all(kind) /\ all(kind) \subseteq 1..Len(lines)
    <3> TAKE kind
    <3> QED
      BY <2>1
  <2>3. \A kind : \A i \in all(kind) \cap read : i \in of(kind)
    <3> TAKE kind
    <3> QED
      BY <2>1
  <2>4. \A i, j \in all("title") : i = j
    OBVIOUS
  <2> HIDE DEF of, all
  <2> QED
    BY <2>1, <2>2, <2>3, <2>4
<1>4. t \in read \cup {0}
  OBVIOUS
<1> HIDE DEF of, all, n, t
<1>5. ASSUME NEW kind PROVE /\ of(kind) \subseteq Nat /\ of(kind) \subseteq 0..Len(lines)
                            /\ all(kind) \subseteq 0..Len(lines)
  BY <1>3
<1>6. CASE all("title") # {}
  <2>1. t \in all("title")
    BY <1>2, <1>3, <1>5, <1>6, GreatestIs
  <2>2. t # 0
    BY <1>3, <2>1
  <2>3. t \in of("title")
    BY <1>3, <1>4, <2>1, <2>2
  <2>4. N!Min(of("title")) \in of("title")
    BY <1>5, <2>3, LeastIs
  <2>5. n \in all("title")
    BY <1>1, <1>3, <2>3, <2>4
  <2>6. n = t
    BY <1>3, <2>1, <2>5
  <2> QED
    BY <2>6 DEF n, t
<1>7. CASE all("title") = {} /\ all("user") # {}
  <2>1. t \in all("user") /\ \A y \in all("user") : t >= y
    BY <1>2, <1>3, <1>5, <1>7, GreatestIs
  <2>2. t # 0
    BY <1>3, <2>1
  <2>3. t \in of("user") /\ of("title") = {}
    BY <1>3, <1>4, <1>7, <2>1, <2>2
  <2>4. n \in of("user") /\ \A y \in of("user") : n >= y
    BY <1>1, <1>3, <1>5, <2>3, GreatestIs
  <2>5. n \in Nat /\ t \in Nat /\ n >= t /\ t >= n
    BY <1>3, <1>5, <2>1, <2>3, <2>4
  <2> QED
    BY <2>5 DEF n, t
<1>8. CASE all("title") = {} /\ all("user") = {}
  <2>1. of("title") = {} /\ of("user") = {}
    BY <1>3, <1>8
  <2> QED
    BY <1>1, <1>2, <1>8, <2>1 DEF n, t
<1> QED
  BY <1>6, <1>7, <1>8 DEF n, t

\* The label that is read is of a line that counts.
LEMMA LabelCounts ==
  ASSUME NEW agent, NEW title, NEW path, NEW files \in Seq(Files), NumberedFiles(files),
         NEW l, l = N!LabelOf(agent, title, path, files)
  PROVE  l \in Labels /\ Counts(l, files)
<1>1. ASSUME l.id = 0, l \in Labels PROVE Counts(l, files)
  BY <1>1 DEF Counts, NumberedFiles
<1>2. CASE l = [id |-> 0, line |-> 1] \/ l = N!NoLabel
  <2>1. l.id = 0 /\ l \in Labels
    BY <1>2 DEF N!NoLabel, Labels
  <2> QED
    BY <1>1, <2>1
<1>3. CASE ~(l = [id |-> 0, line |-> 1] \/ l = N!NoLabel)
  <2>1. l = N!SessionLabel(path, files)
    BY <1>3 DEF N!LabelOf
  <2> DEFINE f    == N!Last(files)
             line == N!ScanLabel(f.lines, N!ReadCapped(f.lines))
             n    == Len(files)
  <2>2. /\ files # <<>>
        /\ l = IF line = 0 THEN [id |-> f.id, line |-> 0] ELSE [id |-> f.id, line |-> line]
    BY <1>3, <2>1, Zenon DEF N!SessionLabel, N!UuidTail
  <2>3. n \in Nat \ {0} /\ f = files[n] /\ f \in Files
    BY <2>2 DEF N!Last
  <2>4. f.lines \in Seq(N!Lines) /\ f.id \in 1..n /\ f.id \in Nat
    BY <2>3 DEF NumberedFiles, Files
  <2>5. N!ReadCapped(f.lines) \subseteq 1..Len(f.lines)
    BY <2>4, ReadIsIn
  <2> HIDE DEF f
  <2>6. line # 0 => line \in 1..Len(f.lines) /\ f.lines[line].kind \in {"title", "user"}
    BY <2>4, <2>5, ScanFinds
  <2> HIDE DEF line
  <2>7. l.id = f.id /\ l.line = line /\ line \in Nat /\ l \in Labels
    BY <2>2, <2>4, <2>6 DEF Labels
  <2>8. ASSUME NEW i \in 1..n, f.id = files[i].id PROVE files[i] = f
    BY <2>3, <2>8 DEF NumberedFiles
  <2> QED
    BY <2>3, <2>4, <2>6, <2>7, <2>8 DEF Counts
<1> QED
  BY <1>2, <1>3

LEMMA FileFields ==
  ASSUME NEW f \in Files
  PROVE  /\ f.id \in Nat /\ f.lines \in Seq(N!Lines) /\ Len(f.lines) \in Nat
         /\ f = [id |-> f.id, lines |-> f.lines]
<1>1. f.id \in Nat /\ f.lines \in Seq(N!Lines) /\ f = [id |-> f.id, lines |-> f.lines]
  BY DEF Files
<1> QED
  BY <1>1

LEMMA FileWithLine ==
  ASSUME NEW f \in Files, NEW line \in N!Lines,
         NEW new, new = [f EXCEPT !.lines = Append(@, line)]
  PROVE  /\ new \in Files /\ new.id = f.id
         /\ Len(new.lines) = Len(f.lines) + 1
         /\ \A k \in 1..Len(f.lines) : new.lines[k] = f.lines[k]
<1>1. f.id \in Nat /\ f.lines \in Seq(N!Lines) /\ f = [id |-> f.id, lines |-> f.lines]
  BY FileFields, Zenon
<1> DEFINE a == f.id
           b == f.lines
           c == Append(b, line)
<1>2. /\ c \in Seq(N!Lines) /\ Len(c) = Len(b) + 1
      /\ \A k \in 1..Len(b) : c[k] = b[k]
  BY <1>1
<1>3. f = [id |-> a, lines |-> b] /\ new = [f EXCEPT !.lines = c]
  BY <1>1
<1> HIDE DEF a, b, c
<1>4. new = [id |-> a, lines |-> c] /\ new.id = a /\ new.lines = c /\ a \in Nat
  BY <1>1, <1>3 DEF a
<1>5. new \in Files
  BY <1>2, <1>4 DEF Files
<1> QED
  BY <1>2, <1>4, <1>5 DEF a, b

\* A transcript that grows comes last, and keeps its lines.
LEMMA GrownFiles ==
  ASSUME NEW files \in Seq(Files), NEW i \in 1..Len(files), NEW line \in N!Lines, NEW l \in Labels,
         NumberedFiles(files), Counts(l, files),
         NEW after, after = Append(N!RemoveAt(files, i), [files[i] EXCEPT !.lines = Append(@, line)])
  PROVE  after \in Seq(Files) /\ NumberedFiles(after) /\ Counts(l, after)
<1> DEFINE n   == Len(files)
           new == [files[i] EXCEPT !.lines = Append(@, line)]
           old == N!RemoveAt(files, i)
           was(k) == IF k < i THEN k ELSE IF k < n THEN k + 1 ELSE i
<1>1. n \in Nat /\ i \in 1..n /\ files[i] \in Files /\ Len(files[i].lines) \in Nat
  <2>1. n \in Nat /\ files[i] \in Files
    OBVIOUS
  <2> QED
    BY <2>1, FileFields
<1>2. /\ new \in Files /\ new.id = files[i].id
      /\ Len(new.lines) = Len(files[i].lines) + 1
      /\ \A k \in 1..Len(files[i].lines) : new.lines[k] = files[i].lines[k]
  BY <1>1, FileWithLine
<1> HIDE DEF new
<1>3. /\ old \in Seq(Files) /\ Len(old) = n - 1
      /\ \A k \in 1..n - 1 : old[k] = files[IF k < i THEN k ELSE k + 1]
  <2> DEFINE s1 == SubSeq(files, 1, i - 1)
             s2 == SubSeq(files, i + 1, n)
  <2>1. /\ s1 \in Seq(Files) /\ Len(s1) = i - 1
        /\ \A k \in 1..i - 1 : s1[k] = files[k]
    BY <1>1
  <2>2. /\ s2 \in Seq(Files) /\ Len(s2) = n - i
        /\ \A k \in 1..n - i : s2[k] = files[i + k]
    BY <1>1
  <2>3. old = s1 \o s2
    BY DEF N!RemoveAt
  <2> HIDE DEF s1, s2, old
  <2>4. /\ s1 \o s2 \in Seq(Files) /\ Len(s1 \o s2) = Len(s1) + Len(s2)
        /\ \A k \in 1..Len(s1) + Len(s2) :
             (s1 \o s2)[k] = IF k <= Len(s1) THEN s1[k] ELSE s2[k - Len(s1)]
    BY <2>1, <2>2, ConcatProperties, Zenon
  <2>5. ASSUME NEW k \in 1..n - 1 PROVE old[k] = files[IF k < i THEN k ELSE k + 1]
    <3> HIDE DEF n
    <3>1. CASE k < i
      <4>1. k \in 1..Len(s1) + Len(s2) /\ k <= Len(s1) /\ k \in 1..i - 1
        BY <1>1, <2>1, <2>2, <3>1
      <4>2. old[k] = s1[k]
        BY <2>3, <2>4, <4>1
      <4> QED
        BY <2>1, <3>1, <4>1, <4>2
    <3>2. CASE ~(k < i)
      <4>1. k \in 1..Len(s1) + Len(s2) /\ ~(k <= Len(s1)) /\ k - Len(s1) \in 1..n - i
            /\ i + (k - Len(s1)) = k + 1
        BY <1>1, <2>1, <2>2, <3>2
      <4>2. old[k] = s2[k - Len(s1)]
        BY <2>3, <2>4, <4>1
      <4>3. s2[k - Len(s1)] = files[i + (k - Len(s1))]
        BY <2>2, <4>1
      <4> QED
        BY <3>2, <4>1, <4>2, <4>3
    <3> QED
      BY <3>1, <3>2
  <2>6. old \in Seq(Files) /\ Len(old) = n - 1
    <3>1. old \in Seq(Files) /\ Len(old) = Len(s1) + Len(s2)
      BY <2>3, <2>4
    <3> QED
      BY <1>1, <2>1, <2>2, <3>1
  <2> QED
    BY <2>5, <2>6
<1> HIDE DEF old
<1>4. after = Append(old, new)
  BY DEF old, new
<1>5. /\ after \in Seq(Files) /\ Len(after) = n /\ after[n] = new
      /\ \A k \in 1..n - 1 : after[k] = old[k]
  <2>1. new \in Files
    BY <1>2
  <2>2. Append(old, new) \in Seq(Files) /\ Len(Append(old, new)) = Len(old) + 1
    BY <1>3, <2>1
  <2>3. Append(old, new)[Len(old) + 1] = new /\ \A k \in 1..Len(old) : Append(old, new)[k] = old[k]
    BY <1>3, <2>1
  <2> HIDE DEF n
  <2>4. Len(old) = n - 1 /\ n - 1 + 1 = n
    BY <1>1, <1>3
  <2> QED
    BY <1>4, <2>2, <2>3, <2>4
<1>6. ASSUME NEW k \in 1..n
      PROVE  /\ was(k) \in 1..n /\ after[k].id = files[was(k)].id
             /\ Len(after[k].lines) >= Len(files[was(k)].lines)
             /\ \A m \in 1..Len(files[was(k)].lines) : after[k].lines[m] = files[was(k)].lines[m]
  <2>1. CASE k = n
    <3>1. was(k) = i
      BY <1>1, <2>1
    <3>2. after[k] = new
      BY <1>5, <2>1
    <3> HIDE DEF was, n
    <3>3. after[k].id = files[was(k)].id /\ was(k) \in 1..n
      BY <1>1, <1>2, <3>1, <3>2
    <3>4. Len(after[k].lines) = Len(files[was(k)].lines) + 1 /\ Len(files[was(k)].lines) \in Nat
      BY <1>1, <1>2, <3>1, <3>2
    <3>5. \A m \in 1..Len(files[was(k)].lines) : after[k].lines[m] = files[was(k)].lines[m]
      BY <1>2, <3>1, <3>2
    <3> DEFINE x == Len(after[k].lines)
               y == Len(files[was(k)].lines)
    <3>6. y \in Nat /\ x = y + 1
      BY <3>4
    <3> HIDE DEF x, y
    <3>7. x >= y
      BY <3>6
    <3> QED
      BY <3>3, <3>5, <3>7 DEF x, y
  <2>2. CASE k < n
    <3>1. was(k) = (IF k < i THEN k ELSE k + 1) /\ was(k) \in 1..n /\ k \in 1..n - 1
      BY <1>1, <2>2
    <3>2. after[k] = old[k]
      BY <1>5, <3>1
    <3>3. after[k] = files[was(k)]
      BY <1>3, <3>1, <3>2
    <3>5. files[was(k)] \in Files
      BY <3>1
    <3>4. Len(files[was(k)].lines) \in Nat
      BY <3>5, FileFields
    <3> HIDE DEF was, n
    <3> DEFINE x == Len(after[k].lines)
               y == Len(files[was(k)].lines)
    <3>6. y \in Nat /\ x = y
      BY <3>3, <3>4
    <3> HIDE DEF x, y
    <3>7. x >= y
      BY <3>6
    <3> QED
      BY <3>1, <3>3, <3>7 DEF x, y
  <2>3. k = n \/ k < n
    BY <1>1
  <2> HIDE DEF was
  <2> QED
    BY <2>1, <2>2, <2>3
<1>7. \A k, m \in 1..n : was(k) = was(m) => k = m
  BY <1>1
<1> HIDE DEF was, n
<1>8. Len(files) = n
  BY DEF n
<1>11. \A k \in 1..n : files[k].id \in 1..n /\ \A m \in 1..n : files[k].id = files[m].id => k = m
  BY <1>8 DEF NumberedFiles
<1>12. \A k \in 1..n : was(k) \in 1..n /\ after[k].id = files[was(k)].id
  BY <1>6
<1>9. NumberedFiles(after)
  <2>1. \A k \in 1..n : after[k].id \in 1..n
    BY <1>11, <1>12
  <2>2. ASSUME NEW k \in 1..n, NEW m \in 1..n, after[k].id = after[m].id PROVE k = m
    <3>2. was(k) \in 1..n /\ was(m) \in 1..n /\ files[was(k)].id = files[was(m)].id
      BY <1>12, <2>2
    <3>1. was(k) = was(m)
      BY <1>11, <3>2
    <3> QED
      BY <1>7, <3>1
  <2> QED
    BY <1>5, <2>1, <2>2 DEF NumberedFiles
<1>10. Counts(l, after)
  <2> SUFFICES ASSUME NEW k \in 1..n, l.id = after[k].id, l.line # 0
               PROVE  /\ l.line \in 1..Len(after[k].lines)
                      /\ after[k].lines[l.line].kind \in {"title", "user"}
    BY <1>5, <1>8 DEF Counts
  <2>1. /\ l.line \in 1..Len(files[was(k)].lines)
        /\ files[was(k)].lines[l.line].kind \in {"title", "user"}
    BY <1>6, <1>8 DEF Counts
  <2>3. after[k] \in Files /\ files[was(k)] \in Files
    BY <1>5, <1>6, <1>8
  <2>2. Len(after[k].lines) \in Nat /\ Len(files[was(k)].lines) \in Nat
    BY <2>3, FileFields
  <2>4. l.line \in 1..Len(after[k].lines)
    <3> DEFINE x == Len(after[k].lines)
               y == Len(files[was(k)].lines)
    <3>1. x >= y /\ x \in Nat /\ y \in Nat /\ l.line \in 1..y
      BY <1>6, <2>1, <2>2
    <3> HIDE DEF x, y
    <3>2. l.line \in 1..x
      BY <3>1
    <3> QED
      BY <3>2 DEF x
  <2>5. after[k].lines[l.line] = files[was(k)].lines[l.line]
    BY <1>6, <2>1
  <2> QED
    BY <2>1, <2>4, <2>5
<1> QED
  BY <1>5, <1>9, <1>10

\* One that is begun has a number of its own.
LEMMA BegunFiles ==
  ASSUME NEW files \in Seq(Files), NEW l \in Labels, NumberedFiles(files), Counts(l, files),
         NEW after, after = Append(files, [id |-> Len(files) + 1, lines |-> <<>>])
  PROVE  after \in Seq(Files) /\ NumberedFiles(after) /\ Counts(l, after)
<1> DEFINE n   == Len(files)
           new == [id |-> n + 1, lines |-> <<>>]
<1>1. n \in Nat /\ new \in Files /\ new.id = n + 1
  BY DEF Files
<1>2. after = Append(files, new)
  OBVIOUS
<1> HIDE DEF new
<1>3. /\ after \in Seq(Files) /\ Len(after) = n + 1 /\ after[n + 1] = new
      /\ \A k \in 1..n : after[k] = files[k] /\ files[k].id \in 1..n
  BY <1>1, <1>2 DEF NumberedFiles
<1>4. NumberedFiles(after)
  BY <1>1, <1>3 DEF NumberedFiles
<1>5. Counts(l, after)
  BY <1>1, <1>3 DEF Counts, Labels
<1> QED
  BY <1>3, <1>4, <1>5

-----------------------------------------------------------------------------
(* What a tick makes of a row                                              *)

LEMMA MetaFields ==
  ASSUME NEW m \in Metas
  PROVE  /\ m.agent \in Answers /\ m.of \in Origins /\ m.label \in Labels
         /\ m.branch \in Branches /\ m.since \in Ages
         /\ m = [agent |-> m.agent, of |-> m.of, label |-> m.label, branch |-> m.branch, since |-> m.since]
BY DEF Metas

LEMMA IdentifiedIs ==
  ASSUME NamesInv, NEW q \in Panes, NEW f \in N!Faults, NEW m, m = N!Identified(q, f)
  PROVE  /\ m \in Metas /\ KnownIn(m)
         /\ m.label = meta[q].label /\ m.branch = meta[q].branch /\ m.since = meta[q].since
         /\ f = N!None => m.of = cmd[q]
         /\ f = N!None /\ meta[q].of = cmd[q] => m = meta[q]
<1>1. meta[q] \in Metas /\ KnownIn(meta[q]) /\ cmd[q] \in Programs /\ cmd[q] # <<>>
  <2>1. meta[q] \in Metas /\ cmd[q] \in Programs
    BY DEF NamesInv, NamesTyped
  <2>2. cmd[q] # <<>>
    BY <2>1, NamesAssumption DEF N!ConstantsTyped, N!IsCommandLine
  <2> QED
    BY <2>1, <2>2 DEF NamesInv
<1>2. <<>> \in Origins /\ cmd[q] \in Origins /\ N!None \in Answers /\ N!AgentIn(cmd[q]) \in Answers
  BY <1>1, AgentTyped DEF Origins
<1>3. N!None # "lost" /\ N!None # "unnamed"
  BY DEF N!None
<1>4. ASSUME NEW a \in Answers, NEW o \in Origins, m = [meta[q] EXCEPT !.agent = a, !.of = o]
      PROVE  /\ m \in Metas /\ m.agent = a /\ m.of = o
             /\ m.label = meta[q].label /\ m.branch = meta[q].branch /\ m.since = meta[q].since
  <2>1. m \in Metas
    BY <1>1, <1>4 DEF Metas
  <2> QED
    BY <1>1, <1>4, <2>1 DEF Metas
<1>5. CASE f # "lost" /\ meta[q].of = cmd[q]
  <2>1. m = meta[q]
    BY <1>5, Zenon DEF N!Identified
  <2> QED
    BY <1>1, <1>5, <2>1
<1>6. CASE f = "lost" \/ (f = "unnamed" /\ meta[q].of # cmd[q])
  <2>1. m = [meta[q] EXCEPT !.agent = N!None, !.of = <<>>]
    <3>1. CASE f = "lost"
      BY <3>1 DEF N!Identified
    <3>2. CASE f # "lost" /\ f = "unnamed" /\ meta[q].of # cmd[q]
      BY <3>2, Zenon DEF N!Identified
    <3> QED
      BY <1>6, <3>1, <3>2
  <2>2. /\ m \in Metas /\ m.agent = N!None /\ m.of = <<>>
        /\ m.label = meta[q].label /\ m.branch = meta[q].branch /\ m.since = meta[q].since
    BY <1>2, <1>4, <2>1
  <2> QED
    BY <1>3, <1>6, <2>2 DEF KnownIn
<1>7. CASE f # "lost" /\ f # "unnamed" /\ meta[q].of # cmd[q]
  <2>1. m = [meta[q] EXCEPT !.agent = N!AgentIn(cmd[q]), !.of = cmd[q]]
    BY <1>7, Zenon DEF N!Identified
  <2>2. /\ m \in Metas /\ m.agent = N!AgentIn(cmd[q]) /\ m.of = cmd[q]
        /\ m.label = meta[q].label /\ m.branch = meta[q].branch /\ m.since = meta[q].since
    BY <1>2, <1>4, <2>1
  <2> QED
    BY <1>1, <1>7, <2>2 DEF KnownIn
<1> QED
  BY <1>5, <1>6, <1>7

LEMMA LaterIs ==
  ASSUME NEW w \in Metas, NEW m, m = N!Later(w)
  PROVE  /\ m \in Metas /\ m.agent = w.agent /\ m.of = w.of
         /\ m.label = w.label /\ m.branch = w.branch
         /\ m.since = IF w.since <= Interval THEN w.since + 1 ELSE Interval + 1
<1>1. Interval \in Nat /\ w.since \in 0..Interval + 1 /\ 0 \in Ages
  BY NamesAssumption, MetaFields DEF N!ConstantsTyped, Ages
<1> DEFINE s == N!Min({w.since + 1, Interval + 1})
<1>2. s = IF w.since <= Interval THEN w.since + 1 ELSE Interval + 1
  BY <1>1, LeastOfTwo
<1>3. m = [w EXCEPT !.since = s]
  BY DEF N!Later
<1> HIDE DEF s
<1>4. s \in Ages
  BY <1>1, <1>2 DEF Ages
<1> QED
  BY <1>2, <1>3, <1>4 DEF Metas

\* What a reading that comes about leaves in a row.
LEMMA ReadIs ==
  ASSUME NamesInv, NEW q \in Panes, NEW f, NEW early \in BOOLEAN, NEW w \in Metas,
         Counts(w.label, logs[q]), NEW m, m = N!MetaRead(q, w, f, early)
  PROVE  /\ m \in Metas /\ m.agent = w.agent /\ m.of = w.of /\ Counts(m.label, logs[q])
         /\ \/ /\ m = w
               /\ w.agent = N!None \/ w.since < Interval \/ w.since = Interval
            \/ f = "nowhere"
            \/ /\ m.branch = N!DetectBranch(PlaceOf[q].ancestors, head)
               /\ m.label = N!LabelOf(m.agent, osc[q], PlaceOf[q].path, logs[q])
<1>1. Interval \in Nat /\ w.since \in 0..Interval + 1 /\ 0 \in Ages
  BY NamesAssumption, MetaFields DEF N!ConstantsTyped, Ages
<1> DEFINE waits == w.agent = N!None \/ w.since < Interval \/ (early /\ w.since = Interval)
           b     == N!DetectBranch(PlaceOf[q].ancestors, head)
           l     == N!LabelOf(w.agent, osc[q], PlaceOf[q].path, logs[q])
<1>2. CASE waits
  <2>1. m = w
    BY <1>2 DEF N!MetaRead
  <2> QED
    BY <1>2, <2>1
<1>3. CASE ~waits /\ f = "nowhere"
  <2>1. m = [w EXCEPT !.since = 0]
    BY <1>3, Zenon DEF N!MetaRead
  <2>2. m \in Metas /\ m.agent = w.agent /\ m.of = w.of /\ m.label = w.label
    BY <1>1, <2>1 DEF Metas
  <2> QED
    BY <1>3, <2>2
<1>4. CASE ~waits /\ f # "nowhere"
  <2>1. m = [w EXCEPT !.since = 0, !.branch = b, !.label = l]
    BY <1>4, Zenon DEF N!MetaRead
  <2>2. logs[q] \in Seq(Files) /\ NumberedFiles(logs[q]) /\ head \in [N!GitDirs -> Heads]
    BY DEF NamesInv, NamesTyped
  <2>3. l \in Labels /\ Counts(l, logs[q])
    BY <2>2, LabelCounts
  <2>4. b \in Branches
    BY <2>2, BranchTyped
  <2>5. l = N!LabelOf(w.agent, osc[q], PlaceOf[q].path, logs[q]) /\ b = N!DetectBranch(PlaceOf[q].ancestors, head)
    OBVIOUS
  <2> HIDE DEF b, l
  <2>6. m \in Metas /\ m.agent = w.agent /\ m.of = w.of /\ m.label = l /\ m.branch = b
    BY <1>1, <2>1, <2>3, <2>4 DEF Metas
  <2> QED
    BY <2>3, <2>5, <2>6
<1> QED
  BY <1>2, <1>3, <1>4

-----------------------------------------------------------------------------
(* The steps                                                               *)

LEMMA NamesInvInit == N!Init => NamesInv
<1> SUFFICES ASSUME N!Init PROVE NamesInv
  OBVIOUS
<1>1. /\ 1 \in Panes /\ Interval \in Nat /\ Startup \in [Panes -> Programs] /\ Heads # {}
      /\ Beginnings \subseteq Seq(N!Lines)
  BY NamesAssumption DEF N!ConstantsTyped
<1>2. cmd \in [Panes -> Programs] /\ head \in [N!GitDirs -> Heads] /\ focus \in Panes
  BY <1>1 DEF N!Init
<1>3. PICK lines \in Beginnings :
        logs = [p \in Panes |-> IF p = 1 THEN <<[id |-> 1, lines |-> lines]>> ELSE <<>>]
  BY DEF N!Init
<1> DEFINE f == [id |-> 1, lines |-> lines]
<1>4. f \in Files /\ f.id = 1
  BY <1>1 DEF Files
<1>5. ASSUME NEW p \in Panes
      PROVE  logs[p] \in Seq(Files) /\ NumberedFiles(logs[p]) /\ Counts(N!NoLabel, logs[p])
  <2> HIDE DEF f
  <2>1. <<f>> \in Seq(Files) /\ Len(<<f>>) = 1 /\ <<f>>[1] = f
    BY <1>4
  <2>2. <<>> \in Seq(Files) /\ Len(<<>>) = 0
    OBVIOUS
  <2>3. logs[p] = <<f>> \/ logs[p] = <<>>
    BY <1>3 DEF f
  <2>4. N!NoLabel.line = 0 /\ N!NoLabel.id = 0
    BY DEF N!NoLabel
  <2>5. CASE logs[p] = <<f>>
    <3> DEFINE files == <<f>>
    <3>1. files \in Seq(Files) /\ Len(files) = 1 /\ files[1].id = 1
      BY <1>4, <2>1
    <3> HIDE DEF files
    <3>2. NumberedFiles(files)
      BY <3>1 DEF NumberedFiles
    <3>3. Counts(N!NoLabel, files)
      BY <2>4, <3>1 DEF Counts
    <3> QED
      BY <2>5, <3>1, <3>2, <3>3 DEF files
  <2>6. CASE logs[p] = <<>>
    BY <2>2, <2>4, <2>6 DEF NumberedFiles, Counts
  <2> QED
    BY <2>3, <2>5, <2>6
<1>6. logs \in [Panes -> Seq(Files)]
  BY <1>3, <1>5
<1>7. N!Unknown \in Metas /\ KnownIn(N!Unknown) /\ N!Unknown.label = N!NoLabel
  <2>1. /\ N!None \in Answers /\ N!None \in Branches /\ <<>> \in Origins
        /\ Interval + 1 \in Ages /\ N!NoLabel \in Labels
    BY <1>1 DEF Answers, Branches, Origins, Ages, Labels, N!NoLabel
  <2> QED
    BY <2>1 DEF N!Unknown, Metas, KnownIn
<1>8. meta = [p \in Panes |-> N!Unknown] /\ still = 0 /\ named = FALSE /\ pinned = FALSE /\ given = N!None
  BY DEF N!Init
<1>9. NamesTyped
  <2>1. 0 \in Ages
    BY <1>1 DEF Ages
  <2> QED
    BY <1>2, <1>6, <1>7, <1>8, <2>1 DEF NamesTyped
<1>10. N!NameTrue
  <2>1. name = N!InitialName(Startup[1]) /\ Startup[1] \in Programs
    BY <1>1 DEF N!Init
  <2>2. name[1] \notin {"source", "PATH"}
    BY <2>1, NameIsClean
  <2> QED
    BY <1>8, <2>2 DEF N!NameTrue
<1>11. ASSUME NEW p \in Panes
       PROVE  Counts(meta[p].label, logs[p]) /\ KnownIn(meta[p]) /\ Catching(p)
  BY <1>5, <1>7, <1>8 DEF Catching
<1> QED
  BY <1>5, <1>9, <1>10, <1>11 DEF NamesInv

\* A step that stirs the surroundings leaves the rows to the ticks.
LEMMA StirredKeeps ==
  ASSUME NamesInv, N!Stirred, NEW p \in Panes
  PROVE  meta' = meta /\ still' = 0 /\ KnownIn(meta[p])' /\ Catching(p)'
<1>1. meta' = meta /\ still' = 0
  BY DEF N!Stirred
<1> QED
  BY <1>1 DEF NamesInv, Catching, KnownIn

LEMMA LogsStep ==
  ASSUME NamesInv, N!World
  PROVE  /\ logs' \in [Panes -> Seq(Files)] /\ meta' = meta
         /\ \A p \in Panes : NumberedFiles(logs'[p]) /\ Counts(meta[p].label, logs'[p])
<1>1. /\ logs \in [Panes -> Seq(Files)] /\ meta' = meta
      /\ \A p \in Panes : NumberedFiles(logs[p]) /\ Counts(meta[p].label, logs[p]) /\ meta[p].label \in Labels
  <2>1. meta' = meta
    BY DEF N!World, N!Exec, N!SetTitle, N!Say, N!Begin, N!Checkout, N!Stirred
  <2>2. \A p \in Panes : meta[p].label \in Labels
    BY MetaFields DEF NamesInv, NamesTyped
  <2> QED
    BY <2>1, <2>2 DEF NamesInv, NamesTyped
<1>2. CASE UNCHANGED logs
  BY <1>1, <1>2
<1>3. ASSUME NEW p \in Panes, NEW after, logs' = [logs EXCEPT ![p] = after],
             after \in Seq(Files), NumberedFiles(after), Counts(meta[p].label, after)
      PROVE  /\ logs' \in [Panes -> Seq(Files)]
             /\ \A q \in Panes : NumberedFiles(logs'[q]) /\ Counts(meta[q].label, logs'[q])
  <2>1. logs' \in [Panes -> Seq(Files)]
    BY <1>1, <1>3
  <2>2. \A q \in Panes : logs'[q] = IF q = p THEN after ELSE logs[q]
    BY <1>1, <1>3
  <2> QED
    BY <1>1, <1>3, <2>1, <2>2
<1>4. ASSUME NEW p \in Panes, NEW line \in LinesOf, NEW i \in DOMAIN logs[p], N!Say(p, i, line)
      PROVE  /\ logs' \in [Panes -> Seq(Files)]
             /\ \A q \in Panes : NumberedFiles(logs'[q]) /\ Counts(meta[q].label, logs'[q])
  <2> DEFINE files == logs[p]
             grown == [files[i] EXCEPT !.lines = Append(@, line)]
             after == Append(N!RemoveAt(files, i), grown)
  <2>1. logs' = [logs EXCEPT ![p] = after]
    <3>1. logs' = [logs EXCEPT ![p] = Append(N!RemoveAt(@, i), grown)]
      BY <1>4 DEF N!Say
    <3> HIDE DEF grown
    <3> QED
      BY <3>1, Zenon
  <2>2. line \in N!Lines /\ files \in Seq(Files) /\ i \in 1..Len(files)
    BY <1>1, NamesAssumption DEF N!ConstantsTyped
  <2>3. NumberedFiles(files) /\ Counts(meta[p].label, files) /\ meta[p].label \in Labels
    BY <1>1
  <2>4. after = Append(N!RemoveAt(files, i), [files[i] EXCEPT !.lines = Append(@, line)])
    OBVIOUS
  <2> HIDE DEF files, grown, after
  <2>5. after \in Seq(Files) /\ NumberedFiles(after) /\ Counts(meta[p].label, after)
    BY <2>2, <2>3, <2>4, GrownFiles
  <2> QED
    BY <1>3, <2>1, <2>5
<1>5. ASSUME NEW p \in Panes, N!Begin(p)
      PROVE  /\ logs' \in [Panes -> Seq(Files)]
             /\ \A q \in Panes : NumberedFiles(logs'[q]) /\ Counts(meta[q].label, logs'[q])
  <2> DEFINE files == logs[p]
             after == Append(files, [id |-> Len(files) + 1, lines |-> <<>>])
  <2>1. logs' = [logs EXCEPT ![p] = after]
    <3>1. logs' = [logs EXCEPT ![p] = Append(@, [id |-> Len(@) + 1, lines |-> <<>>])]
      BY <1>5 DEF N!Begin
    <3> DEFINE new == [id |-> Len(logs[p]) + 1, lines |-> <<>>]
    <3>2. logs' = [logs EXCEPT ![p] = Append(logs[p], new)]
      BY <3>1, Zenon
    <3> QED
      BY <3>2
  <2>3. files \in Seq(Files) /\ NumberedFiles(files) /\ Counts(meta[p].label, files) /\ meta[p].label \in Labels
    BY <1>1
  <2>4. after = Append(files, [id |-> Len(files) + 1, lines |-> <<>>])
    OBVIOUS
  <2> HIDE DEF files, after
  <2>5. after \in Seq(Files) /\ NumberedFiles(after) /\ Counts(meta[p].label, after)
    BY <2>3, <2>4, BegunFiles
  <2> QED
    BY <1>3, <2>1, <2>5
<1> QED
  BY <1>1, <1>2, <1>4, <1>5 DEF N!World, N!Exec, N!SetTitle, N!Checkout

LEMMA NameStep ==
  ASSUME NamesInv, N!Next
  PROVE  N!NameTrue'
<1>1. /\ cmd \in [Panes -> Programs] /\ focus \in Panes /\ named \in BOOLEAN /\ pinned \in BOOLEAN
      /\ pinned => name = <<given, FALSE>>
      /\ named /\ ~pinned => name = N!FriendlyName(cmd[focus])
      /\ name[1] \notin {"source", "PATH"}
  BY DEF NamesInv, NamesTyped, N!NameTrue
<1>8. pinned = (given # N!None)
  BY DEF NamesInv, N!NameTrue
<1>2. ASSUME NEW on \in Panes, NEW pin \in BOOLEAN, NEW read \in BOOLEAN,
             NEW n, n = N!Refreshed(on, pin, name, read)
      PROVE  /\ pin \/ ~read => n = name
             /\ ~pin /\ read => n = N!FriendlyName(cmd[on])
             /\ n[1] \notin {"source", "PATH"}
  <2>1. cmd[on] \in Programs
    BY <1>1
  <2>2. n = IF pin \/ ~read THEN name ELSE N!FriendlyName(cmd[on])
    BY <1>2, <2>1, NameIsClean DEF N!Refreshed
  <2> QED
    BY <1>1, <2>1, <2>2, NameIsClean
<1>3. CASE N!World
  <2>1. pinned' = pinned /\ given' = given /\ name' = name /\ named' = FALSE
    BY <1>3 DEF N!World, N!Exec, N!SetTitle, N!Say, N!Begin, N!Checkout, N!Stirred
  <2>2. pinned' = (given' # N!None)
    BY <1>8, <2>1, Zenon
  <2>5. /\ pinned' => name' = <<given', FALSE>>
        /\ named' /\ ~pinned' => name' = N!FriendlyName(cmd'[focus'])
        /\ name'[1] \notin {"source", "PATH"}
    BY <1>1, <2>1
  <2> QED
    BY <2>2, <2>5, Zenon DEF N!NameTrue
<1>4. ASSUME NEW read \in BOOLEAN, N!NameTick(read) PROVE N!NameTrue'
  <2>1. /\ name' = N!Refreshed(focus, pinned, name, read) /\ named' = (named \/ read)
        /\ pinned' = pinned /\ given' = given /\ cmd' = cmd /\ focus' = focus
    BY <1>4 DEF N!NameTick, N!worldVars
  <2>2. pinned \in BOOLEAN
    BY <1>1
  <2>3. /\ pinned \/ ~read => name' = name
        /\ ~pinned /\ read => name' = N!FriendlyName(cmd[focus])
        /\ name'[1] \notin {"source", "PATH"}
    BY <1>1, <1>2, <2>1, <2>2
  <2>4. pinned' = (given' # N!None)
    BY <1>8, <2>1, Zenon
  <2>5. /\ pinned' => name' = <<given', FALSE>>
        /\ named' /\ ~pinned' => name' = N!FriendlyName(cmd'[focus'])
        /\ name'[1] \notin {"source", "PATH"}
    BY <1>1, <2>1, <2>3
  <2> QED
    BY <2>4, <2>5, Zenon DEF N!NameTrue
<1>5. ASSUME NEW p \in Panes, NEW read \in BOOLEAN, N!Select(p, read) PROVE N!NameTrue'
  <2>1. /\ name' = N!Refreshed(p, pinned, name, read) /\ named' = FALSE
        /\ pinned' = pinned /\ given' = given
    BY <1>5 DEF N!Select, N!Stirred
  <2>2. pinned \in BOOLEAN
    BY <1>1
  <2>3. /\ pinned => name' = name
        /\ name'[1] \notin {"source", "PATH"}
    BY <1>2, <2>1, <2>2
  <2>4. pinned' = (given' # N!None)
    BY <1>8, <2>1, Zenon
  <2>5. /\ pinned' => name' = <<given', FALSE>>
        /\ named' /\ ~pinned' => name' = N!FriendlyName(cmd'[focus'])
        /\ name'[1] \notin {"source", "PATH"}
    BY <1>1, <2>1, <2>3
  <2> QED
    BY <2>4, <2>5, Zenon DEF N!NameTrue
<1>6. ASSUME NEW read \in BOOLEAN, NEW n \in UserNames \cup {N!None}, N!Rename(n, read) PROVE N!NameTrue'
  <2>1. /\ pinned' = (n # N!None) /\ given' = n /\ cmd' = cmd /\ focus' = focus
        /\ name' = IF n # N!None THEN <<n, FALSE>> ELSE N!Refreshed(focus, FALSE, name, read)
        /\ named' = (n = N!None /\ read)
    BY <1>6 DEF N!Rename, N!worldVars
  <2>2. CASE n # N!None
    <3>1. n \notin {"source", "PATH"}
      BY <2>2, NamesAssumption DEF N!ConstantsTyped
    <3> QED
      BY <2>1, <2>2, <3>1 DEF N!NameTrue
  <2>3. CASE n = N!None
    <3>1. /\ read => name' = N!FriendlyName(cmd[focus])
          /\ name'[1] \notin {"source", "PATH"}
      BY <1>1, <1>2, <2>1, <2>3
    <3> QED
      BY <2>1, <2>3, <3>1 DEF N!NameTrue
  <2> QED
    BY <2>2, <2>3
<1>7. CASE N!Watched
  <2>1. /\ pinned' = pinned /\ given' = given /\ name' = name /\ named' = named
        /\ cmd' = cmd /\ focus' = focus
    BY <1>7 DEF N!Watched, N!AgentTick, N!worldVars
  <2>2. pinned' = (given' # N!None)
    BY <1>8, <2>1, Zenon
  <2>5. /\ pinned' => name' = <<given', FALSE>>
        /\ named' /\ ~pinned' => name' = N!FriendlyName(cmd'[focus'])
        /\ name'[1] \notin {"source", "PATH"}
    BY <1>1, <2>1
  <2> QED
    BY <2>2, <2>5, Zenon DEF N!NameTrue
<1> QED
  BY <1>3, <1>4, <1>5, <1>6, <1>7 DEF N!Next, N!Named

LEMMA TickStep ==
  ASSUME NamesInv, NEW p \in Panes, NEW fault \in N!Faults, NEW early \in BOOLEAN, N!AgentTick(p, fault, early)
  PROVE  /\ meta' \in [Panes -> Metas] /\ still' \in Ages
         /\ \A q \in Panes : Counts(meta'[q].label, logs[q]) /\ KnownIn(meta'[q]) /\ Catching(q)'
<1> DEFINE faultOf(q) == IF p = q THEN fault ELSE N!None
           next == IF fault = N!None THEN N!Min({still + 1, Interval + 1}) ELSE 0
<1>1. /\ meta' = [q \in Panes |-> N!MetaRead(q, N!Later(N!Identified(q, faultOf(q))), faultOf(q), early)]
      /\ still' = next /\ UNCHANGED <<cmd, osc, logs, head>>
  BY Zenon DEF N!AgentTick, N!worldVars
<1>2. Interval \in Nat /\ still \in 0..Interval + 1 /\ N!None \in N!Faults
  BY NamesAssumption DEF N!ConstantsTyped, NamesInv, NamesTyped, Ages, N!Faults
<1>3. next = IF fault = N!None THEN (IF still <= Interval THEN still + 1 ELSE Interval + 1) ELSE 0
  BY <1>2, LeastOfTwo
<1> HIDE DEF next
<1>4. next \in Ages
  BY <1>2, <1>3 DEF Ages
<1>5. ASSUME NEW q \in Panes
      PROVE  /\ meta'[q] \in Metas /\ KnownIn(meta'[q]) /\ Counts(meta'[q].label, logs[q])
             /\ Catching(q)'
  <2> DEFINE f  == faultOf(q)
             m1 == N!Identified(q, f)
             m2 == N!Later(m1)
             m  == N!MetaRead(q, m2, f, early)
  <2>1. meta'[q] = m /\ f \in N!Faults /\ (fault = N!None => f = N!None)
    BY <1>1, <1>2
  <2> HIDE DEF f
  <2>2. /\ m1 \in Metas /\ KnownIn(m1)
        /\ m1.label = meta[q].label /\ m1.branch = meta[q].branch /\ m1.since = meta[q].since
        /\ f = N!None => m1.of = cmd[q]
        /\ f = N!None /\ meta[q].of = cmd[q] => m1 = meta[q]
    BY <2>1, IdentifiedIs
  <2> HIDE DEF m1
  <2>3. /\ m2 \in Metas /\ m2.agent = m1.agent /\ m2.of = m1.of
        /\ m2.label = m1.label /\ m2.branch = m1.branch
        /\ m2.since = IF m1.since <= Interval THEN m1.since + 1 ELSE Interval + 1
    BY <2>2, LaterIs
  <2> HIDE DEF m2
  <2>4. Counts(m2.label, logs[q])
    BY <2>2, <2>3 DEF NamesInv
  <2>5. /\ m \in Metas /\ m.agent = m2.agent /\ m.of = m2.of /\ Counts(m.label, logs[q])
        /\ \/ /\ m = m2
              /\ m2.agent = N!None \/ m2.since < Interval \/ m2.since = Interval
           \/ f = "nowhere"
           \/ /\ m.branch = N!DetectBranch(PlaceOf[q].ancestors, head)
              /\ m.label = N!LabelOf(m.agent, osc[q], PlaceOf[q].path, logs[q])
    BY <2>3, <2>4, ReadIs
  <2> HIDE DEF m
  <2>6. KnownIn(m)
    BY <2>2, <2>3, <2>5 DEF KnownIn
  <2>7. Catching(q)'
    <3> DEFINE current == /\ m.branch = N!DetectBranch(PlaceOf[q].ancestors, head)
                          /\ m.label = N!LabelOf(m.agent, osc[q], PlaceOf[q].path, logs[q])
    <3> SUFFICES ASSUME next # 0
                 PROVE  /\ m.of = cmd[q]
                        /\ m.agent # N!None => current \/ (m.since >= next /\ m.since <= Interval)
      BY <1>1, <2>1 DEF Catching, Fresh
    <3>1. fault = N!None /\ f = N!None /\ f # "nowhere"
      BY <1>3, <2>1 DEF N!None
    <3>2. m.of = cmd[q] /\ m1.since \in 0..Interval + 1
      BY <2>2, <2>3, <2>5, <3>1, MetaFields DEF Ages
    <3>3. CASE m = m2 /\ m2.agent # N!None /\ (m2.since < Interval \/ m2.since = Interval)
      <4>1. CASE still = 0
        <5>1. next = 1 /\ m2.since >= 1 /\ m2.since <= Interval
          BY <1>2, <1>3, <2>3, <3>1, <3>2, <3>3, <4>1
        <5> QED
          BY <3>2, <3>3, <5>1
      <4>2. CASE still # 0
        <5>1. meta[q].of = cmd[q]
          BY <4>2 DEF NamesInv, Catching
        <5>2. m1 = meta[q]
          BY <2>2, <3>1, <5>1
        <5>3. Fresh(q) \/ (meta[q].since >= still /\ meta[q].since <= Interval)
          BY <2>3, <3>3, <4>2, <5>2 DEF NamesInv, Catching
        <5>4. CASE Fresh(q)
          <6>1. /\ m.branch = N!DetectBranch(PlaceOf[q].ancestors, head)
                /\ m.label = N!LabelOf(m.agent, osc[q], PlaceOf[q].path, logs[q])
            BY <2>3, <3>3, <5>2, <5>4 DEF Fresh
          <6> QED
            BY <3>2, <6>1
        <5>5. CASE meta[q].since >= still /\ meta[q].since <= Interval
          <6>1. m2.since = m1.since + 1 /\ m1.since >= still /\ m1.since <= Interval /\ m2.since <= Interval
            BY <1>2, <2>3, <3>2, <3>3, <5>2, <5>5
          <6>2. next = still + 1
            BY <1>2, <1>3, <3>1, <3>2, <6>1
          <6>3. m2.since >= next
            BY <1>2, <3>2, <6>1, <6>2
          <6> QED
            BY <3>2, <3>3, <6>1, <6>3
        <5> QED
          BY <5>3, <5>4, <5>5
      <4> QED
        BY <4>1, <4>2
    <3> QED
      BY <2>5, <3>1, <3>2, <3>3
  <2> QED
    BY <2>1, <2>5, <2>6, <2>7
<1> QED
  BY <1>1, <1>4, <1>5

LEMMA NamesInvStep == NamesInv /\ [N!Next]_(N!nameVars) => NamesInv'
<1> SUFFICES ASSUME NamesInv, [N!Next]_(N!nameVars) PROVE NamesInv'
  OBVIOUS
<1>1. CASE UNCHANGED N!nameVars
  BY <1>1 DEF N!nameVars, N!worldVars, N!shownVars, NamesInv, NamesTyped, N!NameTrue, Catching, Fresh
<1>2. CASE N!Next
  <2>1. N!NameTrue'
    BY <1>2, NameStep
  <2>2. NamesTyped
    BY DEF NamesInv
  <2>3. 0 \in Ages
    BY NamesAssumption DEF N!ConstantsTyped, Ages
  <2>4. CASE N!World
    <3>1. /\ logs' \in [Panes -> Seq(Files)] /\ meta' = meta
          /\ \A p \in Panes : NumberedFiles(logs'[p]) /\ Counts(meta[p].label, logs'[p])
      BY <2>4, LogsStep
    <3>2. N!Stirred /\ UNCHANGED <<focus, pinned>>
      BY <2>4 DEF N!World, N!Exec, N!SetTitle, N!Say, N!Begin, N!Checkout, N!Stirred
    <3>3. cmd' \in [Panes -> Programs]
      BY <2>2, <2>4 DEF N!World, N!Exec, N!SetTitle, N!Say, N!Begin, N!Checkout, NamesTyped
    <3>4. head' \in [N!GitDirs -> Heads]
      BY <2>2, <2>4 DEF N!World, N!Exec, N!SetTitle, N!Say, N!Begin, N!Checkout, NamesTyped
    <3>5. named' = FALSE
      BY <3>2 DEF N!Stirred
    <3>6. \A p \in Panes : meta' = meta /\ still' = 0 /\ KnownIn(meta[p])' /\ Catching(p)'
      BY <3>2, StirredKeeps
    <3>7. still' = 0
      BY <3>2 DEF N!Stirred
    <3>8. NamesTyped'
      BY <2>2, <2>3, <3>1, <3>2, <3>3, <3>4, <3>5, <3>7 DEF NamesTyped
    <3> QED
      BY <2>1, <3>1, <3>6, <3>8 DEF NamesInv
  <2>5. ASSUME NEW read \in BOOLEAN, NEW p \in Panes, N!Select(p, read) PROVE NamesInv'
    <3>1. N!Stirred /\ focus' = p /\ UNCHANGED <<cmd, osc, logs, head>>
      BY <2>5 DEF N!Select, N!worldVars
    <3>2. named' = FALSE /\ still' = 0 /\ meta' = meta /\ pinned' = pinned
      BY <3>1 DEF N!Stirred
    <3>3. NamesTyped'
      BY <2>2, <2>3, <3>1, <3>2 DEF NamesTyped
    <3>4. \A q \in Panes : KnownIn(meta[q])' /\ Catching(q)'
      BY <3>1, StirredKeeps
    <3> QED
      BY <2>1, <3>1, <3>2, <3>3, <3>4 DEF NamesInv
  <2>6. ASSUME UNCHANGED <<cmd, osc, logs, head, focus, meta, still>>,
               named' \in BOOLEAN, pinned' \in BOOLEAN
        PROVE  NamesInv'
    <3>1. NamesTyped'
      BY <2>2, <2>6 DEF NamesTyped
    <3> QED
      BY <2>1, <2>6, <3>1 DEF NamesInv, Catching, Fresh
  <2>7. ASSUME NEW read \in BOOLEAN, N!NameTick(read) PROVE NamesInv'
    <3>1. UNCHANGED <<cmd, osc, logs, head, focus, meta, still, pinned>> /\ named' = (named \/ read)
      BY <2>7 DEF N!NameTick, N!worldVars
    <3> QED
      BY <2>2, <2>6, <3>1 DEF NamesTyped
  <2>8. ASSUME NEW read \in BOOLEAN, NEW n, N!Rename(n, read) PROVE NamesInv'
    <3>1. /\ UNCHANGED <<cmd, osc, logs, head, focus, meta, still>>
          /\ named' = (n = N!None /\ read) /\ pinned' = (n # N!None)
      BY <2>8 DEF N!Rename, N!worldVars
    <3>2. named' \in BOOLEAN /\ pinned' \in BOOLEAN
      BY <3>1
    <3> QED
      BY <2>6, <3>1, <3>2
  <2>9. ASSUME NEW p \in Panes, NEW fault \in N!Faults, NEW early \in BOOLEAN, N!AgentTick(p, fault, early)
        PROVE  NamesInv'
    <3>1. /\ meta' \in [Panes -> Metas] /\ still' \in Ages
          /\ \A q \in Panes : Counts(meta'[q].label, logs[q]) /\ KnownIn(meta'[q]) /\ Catching(q)'
      BY <2>9, TickStep
    <3>2. UNCHANGED <<cmd, osc, logs, head, focus, named, pinned>>
      BY <2>9 DEF N!AgentTick, N!worldVars
    <3>3. NamesTyped'
      BY <2>2, <3>1, <3>2 DEF NamesTyped
    <3> QED
      BY <2>1, <3>1, <3>2, <3>3 DEF NamesInv
  <2>10. N!None \in N!Faults
    BY DEF N!Faults
  <2> QED
    BY <1>2, <2>4, <2>5, <2>7, <2>8, <2>9, <2>10 DEF N!Next, N!Named, N!Watched
<1> QED
  BY <1>1, <1>2

LEMMA NamesInvHolds == SumSpec => []NamesInv
<1>1. SumInit => NamesInv
  BY NamesInvInit DEF SumInit
<1>2. NamesInv /\ [SumNext]_SumVars => NamesInv'
  <2>1. [SumNext]_SumVars => [N!Next]_(N!nameVars)
    BY DEF SumNext, SumVars, nameVars, N!nameVars, N!worldVars, N!shownVars
  <2> QED
    BY <2>1, NamesInvStep
<1> QED
  BY <1>1, <1>2, PTL DEF SumSpec

\* What the tab bar and the sidebar show is true: the name of the window, the agent,
\* the branch and the label of each row, once nothing has changed for the interval,
\* whatever failed before; and no row is named after what the harness or the agent
\* wrote (refresh_window_names, refresh_agent_meta, scan_label).
THEOREM ShownIsTrueHolds == SumSpec => []ShownIsTrue
<1>1. NamesInv => ShownIsTrue
  <2> SUFFICES ASSUME NamesInv PROVE N!ShownIsTrue
    BY DEF ShownIsTrue
  <2>1. Interval \in Nat /\ still \in 0..Interval + 1
    BY NamesAssumption DEF N!ConstantsTyped, NamesInv, NamesTyped, Ages
  <2>2. N!TypeOK
    <3>1. ASSUME NEW p \in Panes
          PROVE  meta[p].since \in 0..Interval + 1 /\ meta[p].branch \in Heads \cup {N!None}
      <4>1. meta[p] \in Metas
        BY DEF NamesInv, NamesTyped
      <4> QED
        BY <4>1, MetaFields DEF Ages, Branches
    <3> QED
      BY <3>1 DEF N!TypeOK, NamesInv, NamesTyped
  <2>3. N!RowsTrue
    <3> SUFFICES ASSUME NEW p \in Panes, meta[p].agent # N!None, still > Interval
                 PROVE  /\ meta[p].agent = N!AgentIn(cmd[p])
                        /\ meta[p].branch = N!DetectBranch(PlaceOf[p].ancestors, head)
                        /\ osc[p] # N!None => meta[p].label = [id |-> 0, line |-> 1]
                        /\ /\ osc[p] = N!None /\ meta[p].agent = "claude" /\ logs[p] # <<>>
                           /\ ~N!Mistaken(p)
                           => meta[p].label = [id   |-> N!Last(logs[p]).id,
                                               line |-> N!TrueLine(N!Last(logs[p]).lines)]
      BY Zenon DEF N!RowsTrue, N!AgentEntries
    <3>1. KnownIn(meta[p]) /\ Catching(p) /\ still # 0
      BY <2>1 DEF NamesInv
    <3>2. meta[p].of = cmd[p] /\ Fresh(p)
      <4>1. meta[p].of = cmd[p] /\ (Fresh(p) \/ (meta[p].since >= still /\ meta[p].since <= Interval))
        BY <3>1 DEF Catching
      <4>2. meta[p].since \in 0..Interval + 1
        BY <2>2 DEF N!TypeOK
      <4> QED
        BY <2>1, <4>1, <4>2
    <3>3. meta[p].agent = N!AgentIn(cmd[p])
      BY <3>1, <3>2 DEF KnownIn
    <3>4. ASSUME osc[p] # N!None PROVE meta[p].label = [id |-> 0, line |-> 1]
      BY <3>2, <3>4 DEF Fresh, N!LabelOf
    <3>5. ASSUME osc[p] = N!None, meta[p].agent = "claude", logs[p] # <<>>, ~N!Mistaken(p)
          PROVE  meta[p].label = [id   |-> N!Last(logs[p]).id,
                                  line |-> N!TrueLine(N!Last(logs[p]).lines)]
      <4> DEFINE f == N!Last(logs[p])
                 n == N!ScanLabel(f.lines, N!ReadCapped(f.lines))
      <4>1. meta[p].label = N!SessionLabel(PlaceOf[p].path, logs[p])
        BY <3>2, <3>5 DEF Fresh, N!LabelOf
      <4>2. /\ N!EncodeCwd(PlaceOf[p].path) = N!ProjectDirname(PlaceOf[p].path)
            /\ ~ \E i, j \in DOMAIN f.lines : i # j /\ f.lines[i].kind = "title" /\ f.lines[j].kind = "title"
            /\ N!TrueLine(f.lines) \in N!ReadCapped(f.lines) \cup {0}
        BY <3>5, Zenon DEF N!Mistaken
      <4>3. meta[p].label = IF n = 0 THEN [id |-> f.id, line |-> 0] ELSE [id |-> f.id, line |-> n]
        BY <3>5, <4>1, <4>2, Zenon DEF N!SessionLabel, N!UuidTail
      <4>4. f.lines \in Seq(N!Lines)
        <5>1. logs[p] \in Seq(Files)
          BY DEF NamesInv, NamesTyped
        <5>2. f \in Files
          BY <3>5, <5>1 DEF N!Last
        <5> QED
          BY <5>2, FileFields
      <4> HIDE DEF f
      <4>5. N!ReadCapped(f.lines) \subseteq 1..Len(f.lines)
        BY <4>4, ReadIsIn
      <4>6. n = N!TrueLine(f.lines)
        BY <4>2, <4>4, <4>5, ScanIsTrue
      <4> HIDE DEF n
      <4>7. meta[p].label = [id |-> f.id, line |-> n]
        BY <4>3
      <4> QED
        BY <4>6, <4>7 DEF f
    <3> QED
      BY <3>2, <3>3, <3>4, <3>5, Zenon DEF Fresh
  <2>4. N!NoNoise
    <3> SUFFICES ASSUME NEW p \in Panes, NEW i \in DOMAIN logs[p],
                        meta[p].label.id = logs[p][i].id, meta[p].label.line # 0
                 PROVE  logs[p][i].lines[meta[p].label.line].kind \in {"title", "user"}
      BY DEF N!NoNoise
    <3>1. logs[p] \in Seq(Files) /\ Counts(meta[p].label, logs[p])
      BY DEF NamesInv, NamesTyped
    <3>2. i \in 1..Len(logs[p])
      BY <3>1
    <3> QED
      BY <3>1, <3>2 DEF Counts
  <2> QED
    BY <2>2, <2>3, <2>4 DEF N!ShownIsTrue, NamesInv
<1> QED
  BY <1>1, NamesInvHolds, PTL

-----------------------------------------------------------------------------
(* Whose transcript is whose                                               *)

\* A set of numbers that has the first, and with a number the next, has them all.
LEMMA Climbs ==
  ASSUME NEW n \in Nat, NEW T, 0 \in T, \A i \in 1..n : i - 1 \in T => i \in T
  PROVE  0..n \subseteq T
<1> DEFINE U == {i \in 0..n : i \notin T}
<1>1. SUFFICES ASSUME U # {} PROVE FALSE
  OBVIOUS
<1>2. U \subseteq Nat
  OBVIOUS
<1>3. PICK x \in U : \A y \in U : x <= y
  BY <1>1, <1>2, LeastNumber
<1>4. x \in 1..n /\ x - 1 \in 0..n /\ ~(x <= x - 1)
  BY <1>3
<1>5. x - 1 \in T
  BY <1>3, <1>4
<1> QED
  BY <1>3, <1>4, <1>5

IsFold(f, s0, n, F) == f = [i \in 0..n |-> IF i = 0 THEN s0 ELSE F[<<f[i - 1], i>>]]

\* A recursive function over the numbers up to n exists, and stays in a set that its
\* step keeps.
LEMMA FoldExists ==
  ASSUME NEW S, NEW s0 \in S, NEW n \in Nat, NEW F, F \in [S \X (1..n) -> S]
  PROVE  \E f \in [0..n -> S] : IsFold(f, s0, n, F)
<1> DEFINE Upto(k, f) == /\ f \in [0..k -> S]
                         /\ f[0] = s0
                         /\ \A i \in 1..k : f[i] = F[<<f[i - 1], i>>]
           T == {k \in 0..n : \E f : Upto(k, f)}
<1>1. 0 \in T
  <2>1. Upto(0, [i \in 0..0 |-> s0])
    OBVIOUS
  <2>2. 0 \in 0..n
    OBVIOUS
  <2> HIDE DEF Upto
  <2> QED
    BY <2>1, <2>2
<1>2. ASSUME NEW k \in 1..n, k - 1 \in T PROVE k \in T
  <2>1. PICK f : Upto(k - 1, f)
    BY <1>2
  <2> DEFINE g == [i \in 0..k |-> IF i = k THEN F[<<f[k - 1], k>>] ELSE f[i]]
  <2>2. f[k - 1] \in S /\ F[<<f[k - 1], k>>] \in S
    BY <2>1
  <2>3. \A i \in 0..k : i # k => i \in 0..k - 1
    OBVIOUS
  <2>4. g \in [0..k -> S]
    BY <2>1, <2>2, <2>3
  <2>5. g[0] = s0
    BY <2>1
  <2>6. ASSUME NEW i \in 1..k PROVE g[i] = F[<<g[i - 1], i>>]
    <3>1. CASE i = k
      <4>1. k \in 0..k /\ k - 1 \in 0..k /\ k - 1 # k
        OBVIOUS
      <4>2. g[k] = F[<<f[k - 1], k>>] /\ g[k - 1] = f[k - 1]
        BY <4>1
      <4> HIDE DEF g
      <4> QED
        BY <3>1, <4>2
    <3>2. CASE i # k
      <4>1. i \in 1..k - 1 /\ i \in 0..k /\ i - 1 \in 0..k /\ i - 1 # k
        BY <3>2
      <4>2. g[i] = f[i] /\ g[i - 1] = f[i - 1]
        BY <3>2, <4>1
      <4>3. f[i] = F[<<f[i - 1], i>>]
        BY <4>1, <2>1
      <4> HIDE DEF g, Upto
      <4> QED
        BY <4>2, <4>3
    <3> QED
      BY <3>1, <3>2
  <2>7. Upto(k, g)
    BY <2>4, <2>5, <2>6
  <2>8. k \in 0..n
    OBVIOUS
  <2> HIDE DEF Upto, g
  <2> QED
    BY <2>7, <2>8
<1> HIDE DEF T
<1>3. n \in T
  BY <1>1, <1>2, Climbs
<1>4. PICK f : Upto(n, f)
  BY <1>3 DEF T
<1>5. f = [i \in 0..n |-> f[i]]
  BY <1>4
<1>6. \A i \in 0..n : f[i] = IF i = 0 THEN s0 ELSE F[<<f[i - 1], i>>]
  BY <1>4
<1>7. f = [i \in 0..n |-> IF i = 0 THEN s0 ELSE F[<<f[i - 1], i>>]]
  BY <1>5, <1>6
<1> QED
  BY <1>4, <1>7 DEF IsFold

LEMMA LeastOf ==
  ASSUME NEW T, T \subseteq Nat, T # {}
  PROVE  Min(T) \in T /\ \A y \in T : Min(T) <= y
BY LeastNumber DEF Min

LEMMA GreatestOf ==
  ASSUME NEW n \in Nat, NEW T, T \subseteq 0..n, T # {}
  PROVE  Max(T) \in T /\ \A y \in T : Max(T) >= y
BY GreatestIs DEF Max, N!Max

Born(files, last) == \A f \in files : f.birth \in Int /\ f.birth <= last

\* Of files whose births are bounded there is a youngest.
LEMMA YoungestIs ==
  ASSUME NEW files, files # {}, NEW last \in Int, Born(files, last)
  PROVE  Youngest(files) \in files /\ \A g \in files : g.birth <= Youngest(files).birth
<1> USE DEF Born
<1> DEFINE T == {last - f.birth : f \in files}
<1>1. T \subseteq Nat /\ T # {}
  <2>1. PICK f \in files : TRUE
    OBVIOUS
  <2>2. last - f.birth \in T
    OBVIOUS
  <2> QED
    BY <2>2
<1>2. PICK d \in T : \A y \in T : d <= y
  BY <1>1, LeastNumber
<1>3. PICK f \in files : d = last - f.birth
  BY <1>2
<1>4. ASSUME NEW g \in files PROVE g.birth <= f.birth
  <2>1. last - g.birth \in T
    OBVIOUS
  <2>2. d <= last - g.birth
    BY <1>2, <2>1
  <2> QED
    BY <1>3, <2>2
<1> QED
  BY <1>4 DEF Youngest

-----------------------------------------------------------------------------
(* The matching as a fold                                                  *)

Claims(panesOf, files) == UNION {[D -> files] : D \in SUBSET panesOf}

LEMMA ClaimedTyped ==
  ASSUME NEW S, NEW files, NEW last \in Int, Born(files, last),
         NEW start, NEW order, NEW i, order[i] \in S, NEW before \in Claims(S, files)
  PROVE  Claimed(start, files, order, before, i) \in Claims(S, files)
<1> USE DEF Born
<1> DEFINE free == Claimable(files \ {before[p] : p \in DOMAIN before}, start, order, i)
           D    == DOMAIN before \cup {order[i]}
           c    == [p \in D |-> IF p = order[i] THEN Youngest(free) ELSE before[p]]
<1>1. PICK E \in SUBSET S : before \in [E -> files]
  BY DEF Claims
<1>2. free \subseteq files
  BY DEF Claimable
<1>3. ASSUME free # {} PROVE c \in Claims(S, files)
  <2>1. Youngest(free) \in files
    <3>1. \A f \in free : f.birth \in Int /\ f.birth <= last
      BY <1>2
    <3> HIDE DEF free
    <3> QED
      BY <1>2, <1>3, <3>1, YoungestIs
  <2> HIDE DEF free
  <2>2. c \in [D -> files] /\ D \in SUBSET S
    BY <1>1, <2>1
  <2> HIDE DEF c, D
  <2> QED
    BY <2>2 DEF Claims
<1>4. Claimed(start, files, order, before, i) = IF free = {} THEN before ELSE c
  BY DEF Claimed
<1> HIDE DEF free, c
<1> QED
  BY <1>3, <1>4

\* The claims after each pane had its turn.
Assigns(claims, start, files, order, n) ==
  /\ claims \in [0..n -> Claims({order[i] : i \in 1..n}, files)]
  /\ claims[0] = <<>>
  /\ \A k \in 1..n : claims[k] = Claimed(start, files, order, claims[k - 1], n - k + 1)
  /\ AssignTranscripts(start, files) = claims[n]

LEMMA AssignFold ==
  ASSUME NEW start, IsFiniteSet(DOMAIN start), NEW files, NEW last \in Int, Born(files, last),
         NEW order, order = ByStart(start), NEW n, n = Cardinality(DOMAIN start)
  PROVE  \E claims : Assigns(claims, start, files, order, n)
<1> DEFINE Owners == {order[i] : i \in 1..n}
           S == Claims(Owners, files)
           F == [bk \in S \X (1..n) |-> Claimed(start, files, order, bk[1], n - bk[2] + 1)]
           Eq(f) == f = [k \in 0..n |-> IF k = 0 THEN <<>>
                                        ELSE Claimed(start, files, order, f[k - 1], n - k + 1)]
           claims == CHOOSE f : Eq(f)
<1>1. n \in Nat
  BY FS_CardinalityType
<1>2. <<>> \in S
  <2>1. <<>> \in [{} -> files]
    OBVIOUS
  <2> QED
    BY <2>1 DEF Claims
<1>3. F \in [S \X (1..n) -> S]
  <2>1. ASSUME NEW b \in S, NEW k \in 1..n
        PROVE  Claimed(start, files, order, b, n - k + 1) \in S
    <3>1. n - k + 1 \in 1..n
      BY <1>1
    <3>2. order[n - k + 1] \in Owners
      BY <3>1
    <3> HIDE DEF Owners
    <3> QED
      BY <3>2, ClaimedTyped
  <2> HIDE DEF S
  <2> QED
    BY <2>1
<1>4. PICK f \in [0..n -> S] : IsFold(f, <<>>, n, F)
  <2> HIDE DEF S, F
  <2> QED
    BY <1>1, <1>2, <1>3, FoldExists
<1>5. Eq(f)
  <2>1. ASSUME NEW k \in 0..n, k # 0
        PROVE  F[<<f[k - 1], k>>] = Claimed(start, files, order, f[k - 1], n - k + 1)
    <3>1. k - 1 \in 0..n /\ k \in 1..n
      BY <1>1, <2>1
    <3>2. <<f[k - 1], k>> \in S \X (1..n)
      BY <1>4, <3>1
    <3> HIDE DEF S
    <3> QED
      BY <3>2
  <2>2. f = [k \in 0..n |-> IF k = 0 THEN <<>> ELSE F[<<f[k - 1], k>>]]
    BY <1>4 DEF IsFold
  <2> HIDE DEF F, S
  <2> QED
    BY <2>1, <2>2
<1>6. Eq(claims)
  BY <1>5, Zenon
<1>7. AssignTranscripts(start, files) = claims[n]
  BY Zenon DEF AssignTranscripts
<1> HIDE DEF claims
<1>8. \A k \in 0..n : claims[k] = IF k = 0 THEN <<>>
                                   ELSE Claimed(start, files, order, claims[k - 1], n - k + 1)
  BY <1>6
<1>9. claims = [k \in 0..n |-> claims[k]]
  BY <1>6
<1>10. 0..n \subseteq {k \in 0..n : claims[k] \in S}
  <2> DEFINE T == {k \in 0..n : claims[k] \in S}
  <2>1. 0 \in T
    BY <1>1, <1>2, <1>8
  <2>2. ASSUME NEW k \in 1..n, k - 1 \in T PROVE k \in T
    <3>1. k \in 0..n /\ k # 0 /\ n - k + 1 \in 1..n
      BY <1>1
    <3>2. claims[k] = Claimed(start, files, order, claims[k - 1], n - k + 1)
      BY <1>8, <3>1
    <3>3. claims[k - 1] \in S
      BY <2>2
    <3>4. order[n - k + 1] \in Owners
      BY <3>1
    <3> HIDE DEF Owners
    <3>5. claims[k] \in S
      BY <3>2, <3>3, <3>4, ClaimedTyped
    <3> QED
      BY <3>1, <3>5
  <2> HIDE DEF T
  <2>3. 0..n \subseteq T
    BY <1>1, <2>1, <2>2, Climbs
  <2> QED
    BY <2>3 DEF T
<1>11. claims \in [0..n -> S]
  <2> HIDE DEF S
  <2> QED
    BY <1>9, <1>10
<1>12. claims[0] = <<>>
  BY <1>1, <1>8
<1>13. \A k \in 1..n : claims[k] = Claimed(start, files, order, claims[k - 1], n - k + 1)
  BY <1>1, <1>8
<1>14. Assigns(claims, start, files, order, n)
  BY <1>7, <1>11, <1>12, <1>13 DEF Assigns
<1> QED
  BY <1>14

\* Whom a pane is matched with is one of the files.
LEMMA AssignedIsFile ==
  ASSUME NEW start, IsFiniteSet(DOMAIN start), NEW files, NEW last \in Int, Born(files, last),
         NEW p \in DOMAIN AssignTranscripts(start, files)
  PROVE  AssignTranscripts(start, files)[p] \in files
<1> DEFINE order == ByStart(start)
           n     == Cardinality(DOMAIN start)
           Owners     == {order[i] : i \in 1..n}
           m     == AssignTranscripts(start, files)
<1>1. n \in Nat
  BY FS_CardinalityType
<1>2. PICK claims : Assigns(claims, start, files, order, n)
  <2> HIDE DEF order, n
  <2>1. order = ByStart(start) /\ n = Cardinality(DOMAIN start)
    BY DEF order, n
  <2> QED
    BY <2>1, AssignFold
<1>3. m \in Claims(Owners, files)
  BY <1>1, <1>2 DEF Assigns
<1> HIDE DEF m, Owners
<1>4. PICK D \in SUBSET Owners : m \in [D -> files]
  BY <1>3 DEF Claims
<1>5. p \in DOMAIN m
  BY DEF m
<1>6. m[p] \in files
  BY <1>4, <1>5
<1> QED
  BY <1>6 DEF m

\* Panes whose starts differ are put in order.
Sorts(order, n, start, S) ==
  /\ n \in Nat /\ order \in [1..n -> S]
  /\ \A i, j \in 1..n : i < j => start[order[i]] < start[order[j]]
  /\ \A p \in S : \E i \in 1..n : order[i] = p

LEMMA OrderIs ==
  ASSUME NEW S, IsFiniteSet(S), NEW start \in [S -> Int],
         \A p, q \in S : start[p] = start[q] => p = q,
         NEW n, n = Cardinality(S), NEW order, order = ByStart(start)
  PROVE  Sorts(order, n, start, S)
<1> DEFINE upto(p) == {q \in S : start[q] <= start[p]}
           rank    == [p \in S |-> Cardinality(upto(p))]
           Sorted(o) == \A i, j \in 1..n : i < j => o[i] # o[j] /\ start[o[i]] <= start[o[j]]
<1>1. n \in Nat
  BY FS_CardinalityType
<1>2. ASSUME NEW p \in S PROVE rank[p] \in 1..n
  <2>1. upto(p) \in SUBSET S /\ p \in upto(p)
    OBVIOUS
  <2>2. IsFiniteSet(upto(p)) /\ Cardinality(upto(p)) <= n
    BY <2>1, FS_Subset
  <2>3. Cardinality(upto(p)) \in Nat /\ Cardinality(upto(p)) # 0
    BY <2>1, <2>2, FS_CardinalityType, FS_EmptySet
  <2> HIDE DEF upto
  <2> QED
    BY <1>1, <2>2, <2>3
<1>3. ASSUME NEW p \in S, NEW q \in S, start[p] < start[q] PROVE rank[p] < rank[q]
  <2>1. upto(p) \in SUBSET upto(q) /\ q \in upto(q) /\ q \notin upto(p) /\ upto(q) \in SUBSET S
    BY <1>3
  <2>2. IsFiniteSet(upto(q))
    BY <2>1, FS_Subset
  <2>3. Cardinality(upto(p)) <= Cardinality(upto(q)) /\ Cardinality(upto(p)) # Cardinality(upto(q))
    BY <2>1, <2>2, FS_Subset
  <2>4. rank[p] = Cardinality(upto(p)) /\ rank[q] = Cardinality(upto(q))
    OBVIOUS
  <2>5. rank[p] \in Nat /\ rank[q] \in Nat
    BY <1>1, <1>2
  <2> HIDE DEF upto, rank
  <2> QED
    BY <2>3, <2>4, <2>5
<1>4. rank \in [S -> 1..n]
  BY <1>2
<1> HIDE DEF rank
<1>5. \A p, q \in S : rank[p] = rank[q] => p = q
  <2> TAKE p \in S, q \in S
  <2> HAVE rank[p] = rank[q]
  <2>1. rank[p] \in Int /\ ~(rank[p] < rank[q]) /\ ~(rank[q] < rank[p])
    BY <1>1, <1>4
  <2>2. start[p] \in Int /\ start[q] \in Int /\ ~(start[p] < start[q]) /\ ~(start[q] < start[p])
    BY <1>3, <2>1
  <2> QED
    BY <2>2
<1>6. \A i \in 1..n : \E p \in S : rank[p] = i
  <2>1. rank \in Injection(S, 1..n)
    BY <1>4, <1>5 DEF Injection, IsInjective
  <2>2. IsFiniteSet(1..n) /\ Cardinality(1..n) = n
    BY <1>1, FS_Interval
  <2>3. rank \in Surjection(S, 1..n)
    BY <2>1, <2>2, FS_Injection
  <2> QED
    BY <2>3 DEF Surjection
<1> DEFINE o == [i \in 1..n |-> CHOOSE p \in S : rank[p] = i]
<1>7. o \in [1..n -> S] /\ \A i \in 1..n : rank[o[i]] = i
  <2>1. ASSUME NEW i \in 1..n PROVE o[i] \in S /\ rank[o[i]] = i
    BY <1>6
  <2> QED
    BY <2>1
<1> HIDE DEF o
<1>8. Sorted(o)
  <2> SUFFICES ASSUME NEW i \in 1..n, NEW j \in 1..n, i < j
               PROVE  o[i] # o[j] /\ start[o[i]] <= start[o[j]]
    OBVIOUS
  <2>1. rank[o[i]] = i /\ rank[o[j]] = j /\ o[i] \in S /\ o[j] \in S
    BY <1>7
  <2>2. o[i] # o[j] /\ ~(rank[o[j]] < rank[o[i]])
    BY <1>1, <2>1
  <2>3. ~(start[o[j]] < start[o[i]]) /\ start[o[i]] \in Int /\ start[o[j]] \in Int
    BY <1>3, <2>1, <2>2
  <2> QED
    BY <2>2, <2>3
<1>9. order \in [1..n -> S] /\ Sorted(order)
  <2> DEFINE Ok(x) == \A i, j \in DOMAIN x : i < j => x[i] # x[j] /\ start[x[i]] <= start[x[j]]
  <2>1. order = CHOOSE x \in [1..n -> S] : Ok(x)
    BY DEF ByStart
  <2>2. \A x \in [1..n -> S] : Ok(x) <=> Sorted(x)
    OBVIOUS
  <2> HIDE DEF Ok, Sorted
  <2>3. \E x \in [1..n -> S] : Ok(x)
    BY <1>7, <1>8, <2>2
  <2>4. order \in [1..n -> S] /\ Ok(order)
    BY <2>1, <2>3
  <2> QED
    BY <2>2, <2>4
<1>10. ASSUME NEW i \in 1..n, NEW j \in 1..n, i < j PROVE start[order[i]] < start[order[j]]
  <2>1. order[i] # order[j] /\ start[order[i]] <= start[order[j]] /\ order[i] \in S /\ order[j] \in S
    BY <1>9, <1>10
  <2>2. start[order[i]] # start[order[j]] /\ start[order[i]] \in Int /\ start[order[j]] \in Int
    BY <2>1
  <2> QED
    BY <2>1, <2>2
<1>11. \A p \in S : \E i \in 1..n : order[i] = p
  <2>1. \A i, j \in 1..n : order[i] = order[j] => i = j
    <3> TAKE i \in 1..n, j \in 1..n
    <3>1. i \in Int /\ j \in Int /\ (i < j => order[i] # order[j]) /\ (j < i => order[j] # order[i])
      BY <1>1, <1>9
    <3> QED
      BY <3>1
  <2>2. order \in Injection(1..n, S)
    BY <1>9, <2>1 DEF Injection, IsInjective
  <2>3. Cardinality(1..n) = Cardinality(S)
    BY <1>1, FS_Interval
  <2>4. order \in Surjection(1..n, S)
    BY <2>2, <2>3, FS_Injection
  <2> QED
    BY <2>4 DEF Surjection
<1> QED
  BY <1>1, <1>9, <1>10, <1>11 DEF Sorts

Runs(h)     == [p \in RunsIn(h) |-> StartIn(h, p)]
Births(h)   == {[birth |-> i] : i \in {j \in DOMAIN h : h[j] = 0 \/ j # StartIn(h, h[j])}}

\* The panes from place i of the order on have each the last of its own.
HaveOwn(c, h, order, i, n) ==
  /\ DOMAIN c = {order[j] : j \in i..n}
  /\ \A p \in DOMAIN c : c[p].birth = Max({k \in DOMAIN h : h[k] = p})

\* The turn of a pane, when the younger ones have their own: it gets the last of its own.
LEMMA TurnIs ==
  ASSUME NEW length \in Nat, NEW runs \in Nat, NEW h \in [1..length -> 0..runs], Orderly(h),
         NEW start, start = Runs(h), NEW files, files = Births(h),
         NEW n, NEW order, Sorts(order, n, start, RunsIn(h)),
         NEW i \in 1..n, NEW before, HaveOwn(before, h, order, i + 1, n),
         NEW after, after = Claimed(start, files, order, before, i)
  PROVE  HaveOwn(after, h, order, i, n)
<1> USE DEF Runs, Births, Sorts, HaveOwn
<1> DEFINE own(p) == {k \in DOMAIN h : h[k] = p}
           Begun(p) == StartIn(h, p)
           Ended(p) == Max(own(p))
           Free == Claimable(files \ {before[p] : p \in DOMAIN before}, start, order, i)
           me == order[i]
<1>1. DOMAIN h = 1..length /\ \A k \in 1..length : h[k] \in 0..runs
  OBVIOUS
<1>2. ASSUME NEW p \in RunsIn(h)
      PROVE  /\ p # 0 /\ Begun(p) \in 1..length /\ Ended(p) \in 1..length
             /\ h[Begun(p)] = p /\ h[Ended(p)] = p
             /\ \A k \in 1..length : h[k] = p => Begun(p) <= k /\ k <= Ended(p)
             /\ Begun(p) < Ended(p)
             /\ \A k \in 1..length : Begun(p) <= k /\ k <= Ended(p) => h[k] = p
  <2>1. p # 0 /\ own(p) # {}
    BY DEF RunsIn
  <2>2. own(p) \subseteq Nat /\ own(p) \subseteq 0..length /\ own(p) \subseteq 1..length
    BY <1>1
  <2>3. Begun(p) = Min(own(p))
    BY DEF StartIn
  <2> HIDE DEF own, Begun
  <2>4. Begun(p) \in own(p) /\ \A y \in own(p) : Begun(p) <= y
    BY <2>1, <2>2, <2>3, LeastOf
  <2>5. Ended(p) \in own(p) /\ \A y \in own(p) : Ended(p) >= y
    BY <2>1, <2>2, GreatestOf
  <2>6. PICK k \in DOMAIN h : h[k] = p /\ k # Begun(p)
    BY DEF Orderly, Begun
  <2> HIDE DEF Ended
  <2>7. k \in own(p) /\ \A y \in own(p) : y \in DOMAIN h /\ h[y] = p
    BY <2>6 DEF own
  <2>8. Begun(p) < Ended(p)
    BY <2>2, <2>4, <2>5, <2>6, <2>7
  <2>9. \A y \in 1..length : h[y] = p => y \in own(p)
    BY <1>1 DEF own
  <2>10. \A y \in Begun(p)..Ended(p) : h[y] = p
    <3>1. Begun(p) \in DOMAIN h /\ Ended(p) \in DOMAIN h /\ h[Begun(p)] = p /\ h[Ended(p)] = p
      BY <2>4, <2>5, <2>7
    <3>2. \A j \in Begun(p)..Ended(p) : h[j] = h[Begun(p)]
      BY <3>1 DEF Orderly
    <3> QED
      BY <3>1, <3>2
  <2> QED
    BY <1>1, <2>1, <2>2, <2>4, <2>5, <2>7, <2>8, <2>9, <2>10
<1>3. \A p \in RunsIn(h) : start[p] = Begun(p)
  OBVIOUS
<1>4. me \in RunsIn(h)
  OBVIOUS
<1>5. ASSUME NEW f
      PROVE  f \in files <=> \E k \in 1..length : f = [birth |-> k] /\ (h[k] = 0 \/ k # Begun(h[k]))
  BY <1>1
<1> HIDE DEF Begun, own
<1>o1. ASSUME NEW j \in 1..n
       PROVE  order[j] \in RunsIn(h) /\ start[order[j]] = Begun(order[j]) /\ Begun(order[j]) \in Int
  <2>1. order[j] \in RunsIn(h)
    OBVIOUS
  <2> QED
    BY <1>2, <1>3, <2>1
<1>o2. ASSUME NEW j \in 1..n, NEW k \in 1..n, j < k PROVE Begun(order[j]) < Begun(order[k])
  <2>1. start[order[j]] < start[order[k]]
    BY <1>o2
  <2> QED
    BY <1>o1, <2>1
<1>o3. ASSUME NEW j \in 1..n, NEW k \in 1..n, j < k \/ j = k
       PROVE  Begun(order[j]) <= Begun(order[k])
  <2> DEFINE a == Begun(order[j])
             b == Begun(order[k])
  <2>0. a \in Int /\ b \in Int
    BY <1>o1
  <2>1. CASE j < k
    <3>1. a < b
      BY <1>o2, <2>1
    <3> HIDE DEF a, b
    <3>2. a <= b
      BY <2>0, <3>1
    <3> QED
      BY <3>2 DEF a, b
  <2>2. CASE j = k
    <3>1. a = b
      BY <2>2
    <3> HIDE DEF a, b
    <3>2. a <= b
      BY <2>0, <3>1
    <3> QED
      BY <3>2 DEF a, b
  <2> QED
    BY <1>o3, <2>1, <2>2
<1>6. ASSUME NEW k \in 1..length, i < n => k < start[order[i + 1]], h[k] = 0 \/ h[k] \in RunsIn(h)
      PROVE  k <= Ended(me)
  <2> SUFFICES ASSUME k > Ended(me) PROVE FALSE
    BY <1>1, <1>2, <1>4
  <2>1. CASE h[k] = 0
    <3>1. h[1] = 0 /\ 1 \in 1..length
      BY <1>1, <2>1 DEF Orderly
    <3>2. \A y \in 1..k : h[y] = 0
      BY <1>1, <2>1, <3>1 DEF Orderly
    <3>3. Begun(me) \in 1..k /\ h[Begun(me)] # 0
      BY <1>2, <1>4
    <3> QED
      BY <3>2, <3>3
  <2>2. CASE h[k] # 0
    <3> DEFINE r == h[k]
    <3>1. r \in RunsIn(h)
      BY <1>6, <2>2
    <3>2. PICK j \in 1..n : order[j] = r
      BY <3>1
    <3>3. Begun(r) <= k /\ k <= Ended(r) /\ r # me
      BY <1>2, <1>4, <3>1
    <3>4. ~(Begun(r) < Begun(me))
      <4>1. ASSUME Begun(r) < Begun(me) PROVE FALSE
        <5>1. Begun(me) <= Ended(r) /\ Begun(me) \in 1..length
          BY <1>2, <1>4, <3>1, <3>3
        <5>2. h[Begun(me)] = r
          BY <1>2, <3>1, <4>1, <5>1
        <5> QED
          BY <1>2, <1>4, <3>3, <5>2
      <4> QED
        BY <4>1
    <3>5. ~(j < i) /\ j # i
      BY <1>o2, <3>2, <3>3, <3>4
    <3>6. i < n /\ i + 1 \in 1..n /\ (i + 1 < j \/ i + 1 = j)
      BY <3>5
    <3>7. order[i + 1] \in RunsIn(h) /\ Begun(order[i + 1]) <= Begun(r)
      BY <1>o1, <1>o3, <3>2, <3>6
    <3>8. k < Begun(order[i + 1])
      BY <1>o1, <1>6, <3>6
    <3>9. Begun(r) \in Int /\ Begun(order[i + 1]) \in Int /\ k \in Int
      BY <1>2, <3>1, <3>7
    <3> QED
      BY <3>3, <3>7, <3>8, <3>9
  <2> QED
    BY <2>1, <2>2
<1>7. ASSUME i < n PROVE Ended(me) < start[order[i + 1]]
  <2> DEFINE q == order[i + 1]
  <2>0. i + 1 \in 1..n /\ i < i + 1
    BY <1>7
  <2>1. q \in RunsIn(h) /\ start[q] = Begun(q)
    BY <1>o1, <2>0
  <2>2. Begun(me) < Begun(q)
    BY <1>o2, <2>0
  <2> HIDE DEF q
  <2>3. ASSUME ~(Ended(me) < Begun(q)) PROVE FALSE
    <3>1. Begun(q) \in 1..length /\ h[Begun(q)] = q
      BY <1>2, <2>1
    <3>2. Begun(me) \in Int /\ Ended(me) \in Int
      BY <1>2, <1>4
    <3>3. Begun(me) <= Begun(q) /\ Begun(q) <= Ended(me)
      BY <2>2, <2>3, <3>1, <3>2
    <3>4. h[Begun(q)] = me
      BY <1>2, <1>4, <3>1, <3>3
    <3> QED
      BY <2>2, <3>1, <3>2, <3>4
  <2>4. Ended(me) < start[q]
    BY <2>1, <2>3
  <2> QED
    BY <2>4 DEF q
<1>8. \A p \in DOMAIN before : i < n /\ before[p].birth >= start[order[i + 1]]
  <2> TAKE p \in DOMAIN before
  <2>1. PICK j \in i + 1..n : order[j] = p
    OBVIOUS
  <2>2. j \in 1..n /\ i < n /\ i + 1 \in 1..n /\ (i + 1 < j \/ i + 1 = j)
    BY <2>1
  <2>3. p \in RunsIn(h) /\ before[p].birth = Ended(p)
    BY <1>o1, <2>1, <2>2 DEF own
  <2>4. Begun(order[i + 1]) <= Begun(p)
    BY <1>o3, <2>1, <2>2
  <2>5. Begun(p) \in Int /\ Ended(p) \in Int /\ Begun(p) < Ended(p)
    BY <1>2, <2>3
  <2>6. start[order[i + 1]] = Begun(order[i + 1]) /\ Begun(order[i + 1]) \in Int
    BY <1>o1, <2>2
  <2> QED
    BY <2>2, <2>3, <2>4, <2>5, <2>6
<1>9. [birth |-> Ended(me)] \in Free
  <2> DEFINE f == [birth |-> Ended(me)]
  <2>1. f \in files
    <3>1. Ended(me) \in 1..length /\ h[Ended(me)] = me /\ Ended(me) # Begun(me)
      BY <1>2, <1>4
    <3>2. \E k \in 1..length : f = [birth |-> k] /\ (h[k] = 0 \/ k # Begun(h[k]))
      BY <3>1
    <3> HIDE DEF f
    <3> QED
      BY <1>5, <3>2
  <2>2. i < n => f.birth < start[order[i + 1]]
    BY <1>7
  <2>3. ASSUME NEW p \in DOMAIN before, f = before[p] PROVE FALSE
    <3>1. i < n /\ f.birth >= start[order[i + 1]] /\ f.birth < start[order[i + 1]]
      BY <1>8, <2>2, <2>3
    <3>2. i + 1 \in 1..n
      BY <3>1
    <3>3. start[order[i + 1]] \in Int
      BY <1>o1, <3>2
    <3>4. f.birth \in Int
      BY <1>2, <1>4
    <3> HIDE DEF f
    <3> QED
      BY <3>1, <3>3, <3>4
  <2>4. n = Len(order)
    OBVIOUS
  <2> DEFINE left == files \ {before[p] : p \in DOMAIN before}
  <2>6. Free = {g \in left : i < Len(order) => g.birth < start[order[i + 1]]}
    BY DEF Claimable
  <2> HIDE DEF f, Free
  <2>5. f \in left
    BY <2>1, <2>3
  <2> HIDE DEF left
  <2>7. f \in Free
    BY <2>2, <2>4, <2>5, <2>6
  <2> QED
    BY <2>7 DEF f
<1>10. \A f \in Free : f.birth \in 1..length /\ f.birth <= Ended(me)
  <2> TAKE f \in Free
  <2>1. f \in files /\ (i < n => f.birth < start[order[i + 1]])
    BY DEF Claimable
  <2>2. PICK k \in 1..length : f = [birth |-> k] /\ (h[k] = 0 \/ k # Begun(h[k]))
    BY <1>5, <2>1
  <2>3. f.birth = k /\ (h[k] = 0 \/ h[k] \in RunsIn(h))
    BY <1>1, <2>2 DEF RunsIn
  <2> HIDE DEF Free
  <2> QED
    BY <1>6, <2>1, <2>3
<1>11. Youngest(Free) \in Free /\ Youngest(Free).birth = Ended(me)
  <2> DEFINE f == [birth |-> Ended(me)]
  <2>1. f \in Free /\ f.birth = Ended(me) /\ Ended(me) \in Int
    BY <1>2, <1>4, <1>9
  <2> HIDE DEF Free, f
  <2>2. Free # {} /\ Born(Free, Ended(me))
    BY <1>10, <2>1 DEF Born
  <2> HIDE DEF Ended
  <2>3. Youngest(Free) \in Free /\ \A g \in Free : g.birth <= Youngest(Free).birth
    BY <2>1, <2>2, YoungestIs
  <2>4. Youngest(Free).birth \in Int /\ Youngest(Free).birth <= Ended(me) /\ Ended(me) <= Youngest(Free).birth
    BY <2>1, <2>2, <2>3 DEF Born
  <2> QED
    BY <2>1, <2>3, <2>4
<1>12. after = [p \in DOMAIN before \cup {me} |-> IF p = me THEN Youngest(Free) ELSE before[p]]
  <2>1. Free # {}
    BY <1>9
  <2>2. after = IF Free = {} THEN before
                ELSE [p \in DOMAIN before \cup {me} |-> IF p = me THEN Youngest(Free) ELSE before[p]]
    BY DEF Claimed
  <2> HIDE DEF Free
  <2> QED
    BY <2>1, <2>2
<1> HIDE DEF Free
<1>13. DOMAIN before \cup {me} = {order[j] : j \in i..n}
  <2>1. \A j \in i..n : j = i \/ j \in i + 1..n
    OBVIOUS
  <2>2. \A j \in i + 1..n : j \in i..n
    OBVIOUS
  <2>3. i \in i..n
    OBVIOUS
  <2> QED
    BY <2>1, <2>2, <2>3
<1>14. \A p \in DOMAIN after : after[p].birth = Ended(p)
  <2> TAKE p \in DOMAIN after
  <2>1. CASE p = me
    BY <1>11, <1>12, <2>1
  <2>2. CASE p # me
    <3>1. p \in DOMAIN before /\ after[p] = before[p]
      BY <1>12, <2>2
    <3> QED
      BY <3>1 DEF own
  <2> QED
    BY <2>1, <2>2
<1> QED
  BY <1>12, <1>13, <1>14 DEF own

\* Whatever the history: each pane gets the last transcript of its own.
LEMMA OwnSessionsHold ==
  ASSUME NEW length \in Nat, NEW runs \in Nat
  PROVE  OwnSessionsIn(length, runs)
<1> SUFFICES ASSUME NEW h \in [1..length -> 0..runs], Orderly(h), NEW p \in RunsIn(h)
             PROVE  LET got == AssignTranscripts(Runs(h), Births(h))
                    IN  p \in DOMAIN got /\ got[p].birth = Max({i \in DOMAIN h : h[i] = p})
  BY DEF OwnSessionsIn, Runs, Births
<1> DEFINE files == Births(h)
           start == Runs(h)
           order == ByStart(start)
           n     == Cardinality(RunsIn(h))
           got   == AssignTranscripts(start, files)
<1>1. IsFiniteSet(RunsIn(h))
  <2>1. RunsIn(h) \in SUBSET (0..runs)
    BY DEF RunsIn
  <2>2. IsFiniteSet(0..runs)
    BY FS_Interval
  <2> QED
    BY <2>1, <2>2, FS_Subset
<1>2. ASSUME NEW q \in RunsIn(h) PROVE StartIn(h, q) \in 1..length /\ h[StartIn(h, q)] = q
  <2> DEFINE own == {k \in DOMAIN h : h[k] = q}
  <2>1. own \subseteq 1..length /\ own \subseteq Nat /\ own # {}
    BY DEF RunsIn
  <2>2. StartIn(h, q) = Min(own)
    BY DEF StartIn
  <2>3. StartIn(h, q) \in own
    <3> HIDE DEF own
    <3> QED
      BY <2>1, <2>2, LeastOf
  <2> QED
    BY <2>1, <2>3
<1>3. Born(files, length)
  BY DEF Born, Births
<1>4. start \in [RunsIn(h) -> Int] /\ DOMAIN start = RunsIn(h)
  BY <1>2 DEF Runs
<1>5. \A p1, q1 \in RunsIn(h) : start[p1] = start[q1] => p1 = q1
  BY <1>2 DEF Runs
<1> HIDE DEF files, start
<1>6. Sorts(order, n, start, RunsIn(h))
  BY <1>1, <1>4, <1>5, OrderIs
<1>7. PICK claims : Assigns(claims, start, files, order, n)
  BY <1>1, <1>3, <1>4, AssignFold
<1>8. n \in Nat
  BY <1>6 DEF Sorts
<1> DEFINE T == {k \in 0..n : HaveOwn(claims[k], h, order, n - k + 1, n)}
<1> HIDE DEF order, n
<1>9. 0 \in T
  <2>1. n - 0 + 1..n = {} /\ 0 \in 0..n
    BY <1>8
  <2>2. DOMAIN claims[0] = {}
    BY <1>7 DEF Assigns
  <2> QED
    BY <2>1, <2>2 DEF HaveOwn
<1>10. ASSUME NEW k \in 1..n, k - 1 \in T PROVE k \in T
  <2>1. n - k + 1 \in 1..n /\ n - (k - 1) + 1 = n - k + 1 + 1 /\ k \in 0..n
    BY <1>8
  <2>2. HaveOwn(claims[k - 1], h, order, n - k + 1 + 1, n)
    BY <1>10, <2>1
  <2>3. claims[k] = Claimed(start, files, order, claims[k - 1], n - k + 1)
    BY <1>7 DEF Assigns
  <2>4. start = Runs(h) /\ files = Births(h)
    BY DEF start, files
  <2>5. HaveOwn(claims[k], h, order, n - k + 1, n)
    BY <1>6, <2>1, <2>2, <2>3, <2>4, TurnIs
  <2> QED
    BY <2>1, <2>5
<1>11. n \in T
  <2> HIDE DEF T
  <2>1. 0..n \subseteq T
    BY <1>8, <1>9, <1>10, Climbs
  <2> QED
    BY <1>8, <2>1
<1>12. HaveOwn(got, h, order, 1, n)
  <2>1. HaveOwn(claims[n], h, order, n - n + 1, n) /\ n - n + 1 = 1
    BY <1>8, <1>11
  <2> QED
    BY <1>7, <2>1 DEF Assigns
<1>13. p \in DOMAIN got /\ got[p].birth = Max({i \in DOMAIN h : h[i] = p})
  BY <1>6, <1>12 DEF Sorts, HaveOwn
<1> QED
  BY <1>13 DEF start, files

-----------------------------------------------------------------------------
(* The type of the watch                                                   *)

\* The births of transcripts are told apart by the count of what happened, and the
\* resume data of a pane is of a transcript.
AgentsInv ==
  /\ WatchInv
  /\ now \in 0..MaxTime /\ front \in Panes /\ quiet \subseteq Panes
  /\ \A p \in Panes : fg[p] = Shell(p) \/ (fg[p].pid \in 1..now /\ fg[p].name \in Kinds)
  /\ Born(disk, now)
  /\ \A p \in Panes : resume[p] \in disk \cup {NoFile} /\ captured[p] \in Int

LEMMA AgentsInvInit == Init => AgentsInv
<1> SUFFICES ASSUME Init PROVE AgentsInv
  OBVIOUS
<1>1. WatchInv
  BY WatchInvInit
<1>2. now \in 0..MaxTime /\ front \in Panes /\ quiet \subseteq Panes
  BY MaxTimeAssumption DEF Init
<1>3. \A p \in Panes : fg[p] = Shell(p)
  BY DEF Init
<1>4. PICK seeded \in SUBSET Panes :
        /\ disk = {Old(p) : p \in seeded}
        /\ resume = [p \in Panes |-> IF p \in seeded THEN Old(p) ELSE NoFile]
  BY DEF Init
<1>5. Born(disk, now)
  <2>1. \A p \in seeded : Old(p).birth \in Int /\ Old(p).birth <= 0
    BY PanesAssumption DEF Old
  <2>2. now = 0
    BY DEF Init
  <2> QED
    BY <1>4, <2>1, <2>2 DEF Born
<1>6. \A p \in Panes : resume[p] \in disk \cup {NoFile}
  BY <1>4
<1>7. \A p \in Panes : captured[p] \in Int
  BY DEF Init, NoPid
<1> QED
  BY <1>1, <1>2, <1>3, <1>5, <1>6, <1>7 DEF AgentsInv

\* What a snapshot finds for a pane is on the disk.
LEMMA MatchedOnDisk ==
  ASSUME Born(disk, now), now \in Int, NEW group, group \subseteq Panes,
         NEW start, start = [q \in group |-> fg[q].pid], NEW dir, NEW agent,
         NEW p \in DOMAIN Matched(dir, agent, start, disk)
  PROVE  Matched(dir, agent, start, disk)[p] \in disk
<1> DEFINE files == AgentTranscripts(disk, dir, agent)
<1>1. files \subseteq disk
  BY DEF AgentTranscripts, ClaudeFiles, Rollouts
<1>2. Born(files, now)
  BY <1>1 DEF Born
<1>3. IsFiniteSet(DOMAIN start)
  BY PanesAssumption, FS_Subset
<1> HIDE DEF files
<1>4. Matched(dir, agent, start, disk) = AssignTranscripts(start, files)
  BY DEF Matched, files
<1>5. AssignTranscripts(start, files)[p] \in files
  BY <1>2, <1>3, <1>4, AssignedIsFile
<1> QED
  BY <1>1, <1>4, <1>5

LEMMA AgentsInvStep ==
  ASSUME AgentsInv, [Next]_vars
  PROVE  AgentsInv'
<1>1. WatchInv /\ WatchInv'
  BY WatchInvStep DEF AgentsInv
<1>2. now \in Int /\ MaxTime \in Int
  BY MaxTimeAssumption DEF AgentsInv
<1> DEFINE InFront(p) == fg[p] = Shell(p) \/ (fg[p].pid \in 1..now /\ fg[p].name \in Kinds)
           Known(p) == resume[p] \in disk \cup {NoFile} /\ captured[p] \in Int
<1>3. ASSUME NEW p \in Panes, NEW k \in Kinds, Start(p, k) PROVE AgentsInv'
  <2>1. now' = now + 1 /\ now' \in 0..MaxTime /\ UNCHANGED <<front, disk, resume, captured, quiet>>
    BY <1>2, <1>3 DEF Start, Unwatched, restVars, AgentsInv
  <2>2. ASSUME NEW q \in Panes PROVE InFront(q)'
    <3>1. CASE q = p
      <4>1. fg'[q] = [pid |-> now', name |-> k]
        BY <1>1, <1>3, <3>1 DEF Start, WatchInv
      <4>2. now' \in 1..now'
        BY <2>1 DEF AgentsInv
      <4> QED
        BY <4>1, <4>2
    <3>2. CASE q # p
      <4>1. fg'[q] = fg[q] /\ Shell(q)' = Shell(q)
        BY <1>1, <1>3, <3>2 DEF Start, WatchInv, Shell
      <4>2. 1..now \subseteq 1..now'
        BY <1>2, <2>1
      <4> QED
        BY <4>1, <4>2 DEF AgentsInv
    <3> QED
      BY <3>1, <3>2
  <2>3. Born(disk, now)'
    BY <1>2, <2>1 DEF Born, AgentsInv
  <2> QED
    BY <1>1, <2>1, <2>2, <2>3 DEF AgentsInv
<1>4. ASSUME NEW p \in Panes, End(p) PROVE AgentsInv'
  <2>1. UNCHANGED <<now, front, disk, resume, captured, quiet>>
    BY <1>4 DEF End, Unwatched, restVars
  <2>2. ASSUME NEW q \in Panes PROVE InFront(q)'
    <3>1. fg'[q] = IF q = p THEN Shell(p) ELSE fg[q]
      BY <1>1, <1>4 DEF End, WatchInv
    <3> QED
      BY <2>1, <3>1 DEF AgentsInv, Shell
  <2> QED
    BY <1>1, <2>1, <2>2 DEF AgentsInv, Born
<1>5. ASSUME NEW p \in Panes, NEW s \in Screens, Paint(p, s) PROVE AgentsInv'
  BY <1>1, <1>5 DEF Paint, Unwatched, restVars, AgentsInv, Born, Shell
<1>6. ASSUME NEW p \in Panes, Look(p) PROVE AgentsInv'
  BY <1>1, <1>6 DEF Look, Unwatched, restVars, AgentsInv, Born, Shell
<1>7. ASSUME NEW p \in Panes, Write(p) PROVE AgentsInv'
  <2>1. now' = now + 1 /\ now' \in 0..MaxTime /\ UNCHANGED <<fg, front, resume, captured, quiet>>
    BY <1>2, <1>7 DEF Write, Unwatched, restVars, AgentsInv
  <2>2. ASSUME NEW q \in Panes PROVE InFront(q)' /\ Known(q)'
    <3>1. 1..now \subseteq 1..now'
      BY <1>2, <2>1
    <3>2. disk \subseteq disk'
      BY <1>7 DEF Write
    <3> QED
      BY <2>1, <3>1, <3>2 DEF AgentsInv, Shell
  <2>3. Born(disk, now)'
    <3> DEFINE new == [agent |-> fg[p].name, cwd |-> CwdOf[p], birth |-> now', pid |-> fg[p].pid]
    <3>1. disk' = disk \cup {new} /\ new.birth = now'
      BY <1>7 DEF Write
    <3> HIDE DEF new
    <3> QED
      BY <1>2, <2>1, <3>1 DEF Born, AgentsInv
  <2> QED
    BY <1>1, <2>1, <2>2, <2>3 DEF AgentsInv
<1>8. ASSUME NEW lost, NEW unnamed, AgentTick(lost, unnamed) PROVE AgentsInv'
  <2>1. UNCHANGED <<now, fg, front, disk, resume, captured>> /\ quiet' \subseteq Panes
    BY <1>8 DEF AgentTick, envVars, restVars
  <2> QED
    BY <1>1, <2>1 DEF AgentsInv, Born, Shell
<1>9. ASSUME NEW unread, SnapshotTick(unread) PROVE AgentsInv'
  <2>1. UNCHANGED <<now, fg, front, disk, quiet>>
    BY <1>9 DEF SnapshotTick, envVars
  <2>2. ASSUME NEW p \in Panes PROVE Known(p)'
    <3> DEFINE group(q) == {r \in Panes \ unread :
                              CwdOf[r] = CwdOf[q] /\ watch[r].agent = watch[q].agent}
               start == [q \in group(p) |-> fg[q].pid]
               m     == Matched(CwdOf[p], watch[p].agent, start, disk)
               found == IF watch[p].agent # None /\ p \in group(p) /\ p \in DOMAIN m
                        THEN m[p] ELSE NoFile
    <3>1. /\ resume'[p] = IF found # NoFile THEN found
                          ELSE IF Cleared(p) THEN NoFile ELSE resume[p]
          /\ captured'[p] = IF found # NoFile THEN fg[p].pid
                            ELSE IF Cleared(p) THEN NoPid ELSE captured[p]
      BY <1>9 DEF SnapshotTick
    <3>2. p \in DOMAIN m => m[p] \in disk
      <4>1. group(p) \subseteq Panes /\ start = [q \in group(p) |-> fg[q].pid]
        OBVIOUS
      <4>2. Born(disk, now)
        BY DEF AgentsInv
      <4> HIDE DEF start, group
      <4> QED
        BY <1>2, <4>1, <4>2, MatchedOnDisk
    <3> HIDE DEF m, group
    <3>3. found \in disk \cup {NoFile}
      BY <3>2
    <3>4. fg[p].pid \in Int
      BY <1>1 DEF WatchInv, Processes
    <3>5. resume[p] \in disk \cup {NoFile} /\ captured[p] \in Int
      BY DEF AgentsInv
    <3> HIDE DEF found
    <3> QED
      BY <2>1, <3>1, <3>3, <3>4, <3>5 DEF NoPid
  <2> QED
    BY <1>1, <2>1, <2>2 DEF AgentsInv, Born, Shell
<1>10. CASE UNCHANGED vars
  BY <1>1, <1>10 DEF vars, envVars, restVars, AgentsInv, Born, Shell
<1> QED
  BY <1>3, <1>4, <1>5, <1>6, <1>7, <1>8, <1>9, <1>10 DEF Next, Surroundings, Tick, SnapTick

\* Every pane keeps what it is known to run; and of panes of a directory whose agents
\* began their transcripts one after the other, each is matched with its own last one,
\* whatever the history (assign_transcripts, refresh_restore_meta).
THEOREM SessionsMatchedHolds == SumSpec => []SessionsMatched
<1>1. SumInit => AgentsInv
  BY AgentsInvInit DEF SumInit
<1>2. AgentsInv /\ [SumNext]_SumVars => AgentsInv'
  BY AgentsInvStep DEF SumNext, SumVars
<1>3. AgentsInv => SessionsMatched
  <2>1. OwnSessions
    BY OwnSessionsHold DEF OwnSessions
  <2>2. ASSUME AgentsInv PROVE TypeOK
    BY <2>2 DEF AgentsInv, WatchInv, TypeOK, Alive, Watches, States
  <2> QED
    BY <2>1, <2>2 DEF SessionsMatched
<1> QED
  BY <1>1, <1>2, <1>3, PTL DEF SumSpec
=============================================================================
