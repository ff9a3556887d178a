--------------------------- MODULE LifecycleProofs ---------------------------
(***************************************************************************)
(* Theorems about module Lifecycle, for any daemons, terminals, layouts    *)
(* and number of crashes, and about the swap of the program (Install), for *)
(* any number of updates and releases.                                     *)
(***************************************************************************)
EXTENDS MCUpdate, TLAPS

\* From the lock to the end of run_server a daemon holds the lock.
Holding == {"locked", "bound", "serving", "saving", "closing", "deleting", "leaving"}

\* What a listener's being reachable rests on: the lock is held by whoever is
\* on its way to the socket or away from it, so that no other can be.
LockInv ==
  /\ proc \in [Daemons -> Stages]
  /\ \A d \in Daemons : proc[d] \in Holding => lock = d
  /\ \A d \in Daemons : proc[d] \in Listening => sock = d

LEMMA LockInvInit == Init => LockInv
BY DEF Init, LockInv, Holding, Listening, Stages

\* A step that starts, stops or kills no daemon and leaves the files alone.
LEMMA LockInvUnchanged ==
  ASSUME LockInv, UNCHANGED <<proc, lock, sock>>
  PROVE  LockInv'
BY DEF LockInv

\* A process is started in a free slot.
LEMMA LockInvSpawned ==
  ASSUME LockInv, NEW d \in Daemons, NEW r, Spawned(d, r), UNCHANGED <<lock, sock>>
  PROVE  LockInv'
BY DEF LockInv, Spawned, Goes, Holding, Listening, Stages

\* The stages of a daemon.
LEMMA LockInvDaemon ==
  ASSUME LockInv, NEW d \in Daemons, Daemon(d)
  PROVE  LockInv'
<1> USE NoneAssumption DEF LockInv, Goes, Vanishes, Holding, Listening, Stages
<1>1. CASE Locks(d)
  BY <1>1 DEF Locks, Free
<1>2. CASE Binds(d)
  BY <1>2 DEF Binds
<1>3. CASE Loads(d)
  BY <1>3 DEF Loads, fileVars
<1>4. CASE ShutsDown(d)
  BY <1>4 DEF ShutsDown, LoopEnds, fileVars
<1>5. CASE FinalWrite(d)
  BY <1>5 DEF FinalWrite
<1>6. CASE Unlinks(d)
  BY <1>6 DEF Unlinks
<1>7. CASE Deletes(d)
  BY <1>7 DEF Deletes
<1>8. CASE Unlocks(d)
  BY <1>8 DEF Unlocks
<1>9. CASE Exits(d)
  BY <1>9 DEF Exits, fileVars
<1> QED
  BY <1>1, <1>2, <1>3, <1>4, <1>5, <1>6, <1>7, <1>8, <1>9 DEF Daemon

\* Every step.
LEMMA LockInvStep ==
  ASSUME LockInv, [Next]_vars
  PROVE  LockInv'
<1>1. ASSUME NEW d \in Daemons, Daemon(d) PROVE LockInv'
  BY <1>1, LockInvDaemon
<1>2. ASSUME NEW d \in Daemons, Thread(d) \/ Changes(d) \/ SnapshotTick(d) PROVE LockInv'
  BY <1>2, LockInvUnchanged DEF Thread, Writes, WriteFails, Changes, SnapshotTick, fileVars
<1>3. ASSUME NEW d \in Daemons, Empties(d) PROVE LockInv'
  BY <1>3 DEF Empties, LoopEnds, Goes, fileVars, LockInv, Holding, Listening, Stages
<1>4. ASSUME NEW d \in Daemons, Crashes(d) PROVE LockInv'
  BY <1>4 DEF Crashes, Vanishes, Goes, LockInv, Holding, Listening, Stages
<1>5. ASSUME NEW u \in Users, Terminal(u) PROVE LockInv'
  <2>1. CASE Probes(u) \/ Asks(u) \/ SeesUp(u) \/ GivesUp(u) \/ Attaches(u) \/ Leaves(u)
    BY <2>1, LockInvUnchanged
       DEF Probes, Asks, SeesUp, GivesUp, Attaches, Leaves, daemonVars, userRest, fileVars
  <2>2. ASSUME NEW d \in Daemons, Starts(u, d) \/ Declines(u, d) PROVE LockInv'
    BY <2>2, LockInvSpawned DEF Starts, Declines, userRest, fileVars
  <2> QED
    BY <1>5, <2>1, <2>2 DEF Terminal
<1>6. CASE Stop
  BY <1>6, LockInvUnchanged DEF Stop, killRest, fileVars
<1>7. CASE Update
  <2>1. CASE UpdProbes \/ UpdStops \/ UpdSeesDead \/ UpdGivesUp \/ UpdSeesUp
    BY <2>1, LockInvUnchanged
       DEF UpdProbes, UpdStops, UpdSeesDead, UpdGivesUp, UpdSeesUp, killRest, fileVars
  <2>2. ASSUME NEW d \in Daemons, UpdRespawns(d) PROVE LockInv'
    BY <2>2, LockInvSpawned DEF UpdRespawns, fileVars
  <2> QED
    BY <1>7, <2>1, <2>2 DEF Update
<1>8. CASE UNCHANGED vars
  BY <1>8, LockInvUnchanged DEF vars, daemonVars, fileVars
<1> QED
  BY <1>1, <1>2, <1>3, <1>4, <1>5, <1>6, <1>7, <1>8 DEF Next

\* However many daemons start, stop and die at whatever moment, one that
\* listens is the one at the path of the socket and holds the lock: the order
\* of the teardown in server::run and run_server keeps the next one away until
\* the path is gone.
THEOREM ListenerReachableHolds == Spec => []ListenerReachable
<1>1. Init => LockInv
  BY LockInvInit
<1>2. LockInv /\ [Next]_vars => LockInv'
  BY LockInvStep
<1>3. LockInv => ListenerReachable
  BY DEF LockInv, ListenerReachable, Listening, Holding
<1> QED
  BY <1>1, <1>2, <1>3, PTL DEF Spec

-----------------------------------------------------------------------------

LEMMA TypeInit == Init => TypeOK
BY FreshAssumption, CrashesAssumption DEF Init, TypeOK, Stages

\* The types of the daemons and the files, apart from those of the commands.
DaemonTypes ==
  /\ proc \in [Daemons -> Stages]
  /\ restores \in [Daemons -> BOOLEAN]
  /\ layout \in [Daemons -> Layouts]
  /\ dirty \in [Daemons -> BOOLEAN]
  /\ writing \in [Daemons -> Layouts \cup {None}]
  /\ keep \in [Daemons -> BOOLEAN]
  /\ kill \in [Daemons -> {None, "stop", "keep"}]
  /\ lock \in Daemons \cup {None}
  /\ sock \in Daemons \cup {None}
  /\ snapshot \in Layouts \cup {None}
  /\ spoiled \in {None, "write", "other"}

UserTypes ==
  /\ user \in [Users -> {"away", "down", "asked", "waiting", "attaching", "attached"}]
  /\ at \in [Users -> Daemons \cup {None}]
  /\ \A u \in Users : at[u] # None <=> user[u] \in {"attaching", "attached"}

CommandTypes ==
  /\ upd \in {"idle", "eligible", "stopping", "respawning", "respawned"}
  /\ crashes \in 0..MaxCrashes

LEMMA TypeParts == TypeOK <=> DaemonTypes /\ UserTypes /\ CommandTypes
BY DEF TypeOK, DaemonTypes, UserTypes, CommandTypes

LEMMA CutOffTypes ==
  ASSUME UserTypes, NEW d \in Daemons, CutOff(d)
  PROVE  UserTypes'
BY NoneAssumption DEF UserTypes, CutOff

LEMMA DaemonTypesDaemon ==
  ASSUME DaemonTypes, NEW d \in Daemons,
         Daemon(d) \/ Thread(d) \/ Changes(d) \/ SnapshotTick(d) \/ Empties(d) \/ Crashes(d)
  PROVE  DaemonTypes'
<1> USE NoneAssumption, FreshAssumption
    DEF DaemonTypes, Goes, Vanishes, Stages, sessionRest, fileVars
<1>1. CASE Locks(d)
  <2>1. CASE Goes(d, "locked") /\ lock' = d /\ UNCHANGED <<restores, sessionRest>>
    BY <1>1, <2>1 DEF Locks
  <2>2. CASE Vanishes(d) /\ UNCHANGED lock
    BY <1>1, <2>2 DEF Locks
  <2> QED
    BY <1>1, <2>1, <2>2 DEF Locks
<1>2. CASE Binds(d)
  BY <1>2 DEF Binds
<1>3. CASE Loads(d)
  BY <1>3 DEF Loads
<1>4. CASE ShutsDown(d) \/ Empties(d)
  <2>1. PICK s \in {"saving", "closing"} : LoopEnds(d, s)
    BY <1>4 DEF ShutsDown, Empties
  <2>2. layout' \in [Daemons -> Layouts]
    BY <2>1 DEF LoopEnds
  <2> QED
    BY <2>1, <2>2 DEF LoopEnds
<1>5. CASE FinalWrite(d)
  BY <1>5 DEF FinalWrite
<1>6. CASE Unlinks(d)
  BY <1>6 DEF Unlinks
<1>7. CASE Deletes(d)
  BY <1>7 DEF Deletes
<1>8. CASE Unlocks(d)
  BY <1>8 DEF Unlocks
<1>9. CASE Exits(d)
  BY <1>9 DEF Exits
<1>10. CASE Writes(d)
  BY <1>10 DEF Writes
<1>11. CASE WriteFails(d)
  BY <1>11 DEF WriteFails
<1>12. CASE Changes(d)
  BY <1>12 DEF Changes
<1>13. CASE SnapshotTick(d)
  BY <1>13 DEF SnapshotTick, Requested
<1>14. CASE Crashes(d)
  BY <1>14 DEF Crashes
<1>15. \/ Locks(d) \/ Binds(d) \/ Loads(d) \/ ShutsDown(d) \/ Empties(d) \/ FinalWrite(d)
       \/ Unlinks(d) \/ Deletes(d) \/ Unlocks(d) \/ Exits(d) \/ Writes(d) \/ WriteFails(d)
       \/ Changes(d) \/ SnapshotTick(d) \/ Crashes(d)
  BY DEF Daemon, Thread
<1> HIDE DEF DaemonTypes
<1> QED
  BY <1>1, <1>2, <1>3, <1>4, <1>5, <1>6, <1>7, <1>8, <1>9, <1>10, <1>11, <1>12, <1>13, <1>14, <1>15

LEMMA OtherTypesDaemon ==
  ASSUME UserTypes, CommandTypes, NEW d \in Daemons,
         Daemon(d) \/ Thread(d) \/ Changes(d) \/ SnapshotTick(d) \/ Empties(d) \/ Crashes(d)
  PROVE  UserTypes' /\ CommandTypes'
<1>1. CASE UNCHANGED <<userVars, upd, crashes>>
  BY <1>1 DEF UserTypes, CommandTypes, userVars
<1>2. CASE Unlinks(d)
  BY <1>2, CutOffTypes DEF Unlinks, CommandTypes
<1>3. CASE Crashes(d)
  BY <1>3, CutOffTypes, CrashesAssumption DEF Crashes, CommandTypes
<1> QED
  BY <1>1, <1>2, <1>3
     DEF Daemon, Locks, Binds, Loads, ShutsDown, LoopEnds, FinalWrite, Deletes, Unlocks, Exits,
         Thread, Writes, WriteFails, Changes, SnapshotTick, Empties

LEMMA TypeTerminal ==
  ASSUME TypeOK, NEW u \in Users, Terminal(u)
  PROVE  TypeOK'
<1> USE NoneAssumption DEF TypeOK, Comes, Connects, daemonVars, fileVars, userRest
<1>1. CASE Probes(u)
  BY <1>1 DEF Probes, Live
<1>2. CASE Asks(u)
  BY <1>2 DEF Asks
<1>3. CASE SeesUp(u)
  BY <1>3 DEF SeesUp, Live
<1>4. CASE GivesUp(u)
  BY <1>4 DEF GivesUp
<1>5. CASE Attaches(u)
  BY <1>5 DEF Attaches
<1>6. CASE Leaves(u)
  BY <1>6 DEF Leaves
<1>7. ASSUME NEW d \in Daemons, Starts(u, d) PROVE TypeOK'
  BY ZenonT(30), <1>7 DEF Starts, Spawned, Goes, Stages
<1>8. ASSUME NEW d \in Daemons, Declines(u, d) PROVE TypeOK'
  BY <1>8 DEF Declines, Spawned, Goes, Stages
<1> QED
  BY <1>1, <1>2, <1>3, <1>4, <1>5, <1>6, <1>7, <1>8 DEF Terminal

LEMMA TypeCommands ==
  ASSUME TypeOK, Stop \/ Update
  PROVE  TypeOK'
<1> USE NoneAssumption DEF TypeOK, Killed, killRest, fileVars, userVars
<1>1. CASE Stop
  BY <1>1 DEF Stop
<1>2. CASE UpdProbes \/ UpdSeesDead \/ UpdGivesUp \/ UpdSeesUp
  BY <1>2 DEF UpdProbes, UpdSeesDead, UpdGivesUp, UpdSeesUp
<1>3. CASE UpdStops
  BY <1>3 DEF UpdStops
<1>4. ASSUME NEW d \in Daemons, UpdRespawns(d) PROVE TypeOK'
  BY <1>4 DEF UpdRespawns, Spawned, Goes, Stages, Retry
<1> QED
  BY <1>1, <1>2, <1>3, <1>4 DEF Update

LEMMA TypeStep ==
  ASSUME TypeOK, [Next]_vars
  PROVE  TypeOK'
<1>1. CASE UNCHANGED vars
  BY <1>1 DEF vars, daemonVars, fileVars, userVars, TypeOK
<1>2. ASSUME NEW d \in Daemons,
             Daemon(d) \/ Thread(d) \/ Changes(d) \/ SnapshotTick(d) \/ Empties(d) \/ Crashes(d)
      PROVE  TypeOK'
  <2>1. DaemonTypes'
    BY <1>2, TypeParts, DaemonTypesDaemon
  <2>2. UserTypes' /\ CommandTypes'
    BY <1>2, TypeParts, OtherTypesDaemon
  <2> QED
    BY <2>1, <2>2 DEF TypeOK, DaemonTypes, UserTypes, CommandTypes
<1> QED
  BY <1>1, <1>2, TypeTerminal, TypeCommands DEF Next

\* Every variable of the model keeps its type, and a terminal is connected
\* exactly while it waits for a daemon's loop or is attached.
THEOREM TypeOKHolds == Spec => []TypeOK
<1>1. TypeOK /\ [Next]_vars => TypeOK'
  BY TypeStep
<1> QED
  BY TypeInit, <1>1, PTL DEF Spec

-----------------------------------------------------------------------------

\* What the two properties of the file rest on: a daemon that keeps its
\* snapshot has no writer, and a writer at work with the bit taken has the
\* session as it is.
WriterInv ==
  /\ \A d \in Daemons : keep[d] => proc[d] \in {"closing", "leaving", "exiting"}
                                    /\ writing[d] = None
  /\ \A d \in Daemons : proc[d] = "serving" /\ ~dirty[d] /\ writing[d] # None
                          => writing[d] = layout[d]

FileInv == DaemonTypes /\ LockInv /\ WriterInv /\ CleanIsSaved /\ FinalWriteStays
Saved   == WriterInv /\ CleanIsSaved /\ FinalWriteStays

LEMMA SavedInit == Init => Saved
BY DEF Init, Saved, WriterInv, CleanIsSaved, FinalWriteStays

LEMMA SavedUnchanged ==
  ASSUME Saved, UNCHANGED <<proc, layout, dirty, writing, keep, snapshot, spoiled>>
  PROVE  Saved'
BY DEF Saved, WriterInv, CleanIsSaved, FinalWriteStays

LEMMA SavedSpawned ==
  ASSUME FileInv, NEW d \in Daemons, NEW r, Spawned(d, r),
         UNCHANGED <<snapshot, spoiled>> \/ spoiled' = "other"
  PROVE  Saved'
<1> USE DEF FileInv, DaemonTypes, Spawned, Goes
<1>1. WriterInv'
  BY DEF WriterInv
<1>2. CASE UNCHANGED <<snapshot, spoiled>>
  BY <1>1, <1>2 DEF Saved, CleanIsSaved, FinalWriteStays
<1>3. CASE spoiled' = "other"
  BY <1>1, <1>3 DEF Saved, CleanIsSaved, FinalWriteStays, None
<1> QED
  BY <1>2, <1>3

\* A daemon moves where nothing is asked of it.
LEMMA SavedMoves ==
  ASSUME FileInv, NEW d \in Daemons, NEW s \in {"locked", "bound", "exiting"}, Goes(d, s),
         keep[d] => s = "exiting", UNCHANGED <<layout, dirty, writing, keep, snapshot, spoiled>>
  PROVE  Saved'
BY DEF FileInv, DaemonTypes, Saved, WriterInv, CleanIsSaved, FinalWriteStays, Goes

LEMMA SavedVanishes ==
  ASSUME FileInv, NEW d \in Daemons, Vanishes(d), UNCHANGED <<snapshot, spoiled>>
  PROVE  Saved'
BY DEF FileInv, DaemonTypes, Saved, WriterInv, CleanIsSaved, FinalWriteStays, Vanishes, Goes

LEMMA SavedDaemon ==
  ASSUME FileInv, NEW d \in Daemons,
         Daemon(d) \/ Thread(d) \/ Changes(d) \/ SnapshotTick(d) \/ Empties(d) \/ Crashes(d)
  PROVE  Saved'
<1> USE DEF FileInv
<1>1. CASE Locks(d)
  <2>1. CASE Vanishes(d)
    BY <1>1, <2>1, SavedVanishes DEF Locks
  <2>2. CASE Goes(d, "locked") /\ UNCHANGED sessionRest
    BY <1>1, <2>2, SavedMoves DEF Locks, sessionRest, WriterInv
  <2> QED
    BY <1>1, <2>1, <2>2 DEF Locks
<1>2. CASE Binds(d)
  BY <1>2, SavedMoves DEF Binds, sessionRest, WriterInv
<1>3. CASE Loads(d)
  BY <1>3 DEF Loads, fileVars, Goes, DaemonTypes, Saved, WriterInv, CleanIsSaved, FinalWriteStays
<1>4. CASE ShutsDown(d) \/ Empties(d)
  BY <1>4 DEF ShutsDown, Empties, LoopEnds, fileVars, Goes, DaemonTypes, Saved, WriterInv,
              CleanIsSaved, FinalWriteStays
<1>5. CASE FinalWrite(d)
  <2>1. \A e \in Daemons \ {d} : proc[e] \notin Holding
    BY <1>5 DEF FinalWrite, LockInv, Holding
  <2>2. WriterInv'
    BY <1>5 DEF FinalWrite, WriterDone, Goes, DaemonTypes, WriterInv
  <2>3. CASE snapshot' = layout'[d] /\ spoiled' = None
    BY <1>5, <2>1, <2>2, <2>3
       DEF FinalWrite, Goes, DaemonTypes, Saved, CleanIsSaved, FinalWriteStays, Holding
  <2>4. CASE spoiled' = "write"
    BY <2>2, <2>4 DEF Saved, CleanIsSaved, FinalWriteStays, None
  <2> QED
    BY <1>5, <2>3, <2>4 DEF FinalWrite
<1>6. CASE Unlinks(d)
  BY <1>6 DEF Unlinks, Goes, DaemonTypes, Saved, WriterInv, CleanIsSaved, FinalWriteStays
<1>7. CASE Deletes(d)
  <2>1. \A e \in Daemons \ {d} : proc[e] \notin Holding
    BY <1>7 DEF Deletes, LockInv, Holding
  <2>2. ~keep[d]
    BY <1>7 DEF Deletes, WriterInv
  <2> QED
    BY <1>7, <2>1, <2>2 DEF Deletes, Goes, DaemonTypes, Saved, WriterInv, CleanIsSaved,
                            FinalWriteStays, Holding
<1>8. CASE Unlocks(d)
  BY <1>8, SavedMoves DEF Unlocks
<1>9. CASE Exits(d)
  BY <1>9, SavedVanishes DEF Exits, fileVars
<1>10. CASE Writes(d)
  <2>1. WriterInv'
    BY <1>10 DEF Writes, DaemonTypes, WriterInv
  <2>2. CASE lock # d
    BY <1>10, <2>1, <2>2 DEF Writes, Saved, CleanIsSaved, FinalWriteStays, None
  <2>3. CASE lock = d
    <3>1. \A e \in Daemons \ {d} : proc[e] \notin Holding
      BY <2>3 DEF LockInv
    <3>2. ~keep[d]
      BY <1>10 DEF Writes, WriterInv
    <3> QED
      BY <1>10, <2>1, <3>1, <3>2 DEF Writes, DaemonTypes, Saved, WriterInv, CleanIsSaved,
                                     FinalWriteStays, Holding
  <2> QED
    BY <2>2, <2>3
<1>11. CASE WriteFails(d)
  <2>1. WriterInv'
    BY <1>11 DEF WriteFails, DaemonTypes, WriterInv
  <2>2. CASE lock = d
    BY <1>11, <2>1, <2>2 DEF WriteFails, Saved, CleanIsSaved, FinalWriteStays, None
  <2>3. CASE lock # d
    <3>1. proc[d] \notin Holding
      BY <2>3 DEF LockInv
    <3> QED
      BY <1>11, <2>1, <2>3, <3>1 DEF WriteFails, fileVars, DaemonTypes, Saved, CleanIsSaved,
                                     FinalWriteStays, Holding
  <2> QED
    BY <2>2, <2>3
<1>12. CASE Changes(d)
  BY <1>12 DEF Changes, fileVars, DaemonTypes, Saved, WriterInv, CleanIsSaved, FinalWriteStays
<1>13. CASE SnapshotTick(d)
  <2>1. PICK l \in Layouts :
          /\ layout' = [layout EXCEPT ![d] = l]
          /\ dirty' = [dirty EXCEPT ![d] = Requested(d)]
          /\ writing' = IF writing[d] = None THEN [writing EXCEPT ![d] = l] ELSE writing
    BY <1>13 DEF SnapshotTick
  <2>2. l # None /\ proc[d] = "serving" /\ UNCHANGED <<proc, keep, snapshot, spoiled>>
    BY <1>13, NoneAssumption DEF SnapshotTick, fileVars
  <2>3. /\ \A e \in Daemons \ {d} : layout'[e] = layout[e] /\ dirty'[e] = dirty[e]
                                     /\ writing'[e] = writing[e]
        /\ writing'[d] # None /\ layout'[d] = l
        /\ dirty'[d] \/ writing'[d] = l
    BY <2>1, <2>2 DEF DaemonTypes, Requested
  <2> QED
    BY <2>2, <2>3 DEF Saved, WriterInv, CleanIsSaved, FinalWriteStays
<1>14. CASE Crashes(d)
  BY <1>14, SavedVanishes DEF Crashes
<1> QED
  BY <1>1, <1>2, <1>3, <1>4, <1>5, <1>6, <1>7, <1>8, <1>9, <1>10, <1>11, <1>12, <1>13, <1>14
     DEF Daemon, Thread

LEMMA SavedStep ==
  ASSUME FileInv, [Next]_vars
  PROVE  Saved'
<1>1. ASSUME NEW d \in Daemons,
             Daemon(d) \/ Thread(d) \/ Changes(d) \/ SnapshotTick(d) \/ Empties(d) \/ Crashes(d)
      PROVE  Saved'
  BY <1>1, SavedDaemon
<1>2. ASSUME NEW u \in Users, Terminal(u) PROVE Saved'
  <2>1. CASE Probes(u) \/ Asks(u) \/ SeesUp(u) \/ GivesUp(u) \/ Attaches(u) \/ Leaves(u)
    BY <2>1, SavedUnchanged
       DEF FileInv, Saved, Probes, Asks, SeesUp, GivesUp, Attaches, Leaves, daemonVars, userRest,
           fileVars
  <2>2. ASSUME NEW d \in Daemons, Starts(u, d) \/ Declines(u, d) PROVE Saved'
    BY <2>2, SavedSpawned DEF Starts, Declines, userRest, fileVars
  <2> QED
    BY <1>2, <2>1, <2>2 DEF Terminal
<1>3. CASE Stop
  BY <1>3, SavedUnchanged DEF FileInv, Saved, Stop, killRest, fileVars
<1>4. CASE Update
  <2>1. CASE UpdProbes \/ UpdStops \/ UpdSeesDead \/ UpdGivesUp \/ UpdSeesUp
    BY <2>1, SavedUnchanged
       DEF FileInv, Saved, UpdProbes, UpdStops, UpdSeesDead, UpdGivesUp, UpdSeesUp, killRest, fileVars
  <2>2. ASSUME NEW d \in Daemons, UpdRespawns(d) PROVE Saved'
    BY <2>2, SavedSpawned DEF UpdRespawns, fileVars
  <2> QED
    BY <1>4, <2>1, <2>2 DEF Update
<1>5. CASE UNCHANGED vars
  BY <1>5, SavedUnchanged DEF FileInv, Saved, vars, daemonVars, fileVars
<1> QED
  BY <1>1, <1>2, <1>3, <1>4, <1>5 DEF Next

LEMMA SavedHolds == Spec => []Saved
<1>1. Init => TypeOK /\ LockInv /\ Saved
  BY TypeInit, LockInvInit, SavedInit
<1>2. TypeOK /\ LockInv /\ Saved /\ [Next]_vars => TypeOK' /\ LockInv' /\ Saved'
  BY TypeStep, LockInvStep, SavedStep, TypeParts DEF FileInv, Saved
<1> QED
  BY <1>1, <1>2, PTL DEF Spec

\* Whatever may be lost with a daemon that is killed, it is not a session that
\* the daemon believes saved: taking the bit, a busy writer and the write
\* itself leave no moment where bit, writer and file all miss a change.
THEOREM CleanIsSavedHolds == Spec => []CleanIsSaved
<1>1. Saved => CleanIsSaved
  BY DEF Saved
<1> QED
  BY SavedHolds, <1>1, PTL

\* After a stop that keeps the snapshot the file is the session as it ended:
\* the writer was waited for, and the lock keeps other daemons from the file.
THEOREM FinalWriteStaysHolds == Spec => []FinalWriteStays
<1>1. Saved => FinalWriteStays
  BY DEF Saved
<1> QED
  BY SavedHolds, <1>1, PTL

\* The snapshot file is what a daemon believes it to be.
THEOREM SnapshotIsKeptHolds == Spec => []SnapshotIsKept
BY CleanIsSavedHolds, FinalWriteStaysHolds, PTL DEF SnapshotIsKept

\* The session is in one place, and can be reached there.
THEOREM OneReachableHolds == Spec => []OneReachable
BY TypeOKHolds, ListenerReachableHolds, PTL DEF OneReachable

-----------------------------------------------------------------------------
(* That the program at its path is whole, for any number of updates and of *)
(* releases.  The strengthening says what each step of an update leaves in *)
(* its staging directory: from the checksum on the archive is the one      *)
(* published, from the unpacking on the binary is.                         *)

SwapSteps    == {"away", "asks", "probes", "fetches", "sums", "verifies", "unpacks",
             "renames", "over", "killed"}
Chosen   == {"probes", "fetches", "sums", "verifies", "unpacks", "renames"}
Staged   == Chosen \ {"probes"}
Program  == [release : Nat, whole : BOOLEAN]

\* Every variable has its type.
SwapTyped ==
  /\ latest \in Nat /\ exe \in Program
  /\ own \in [Updates -> Nat] /\ target \in [Updates -> Nat]
  /\ step \in [Updates -> SwapSteps] /\ exit \in [Updates -> 0..I!NoExit]
  /\ dirs \subseteq Updates
  /\ archive \in [Updates -> Program] /\ sum \in [Updates -> Program]
  /\ binary \in [Updates -> Program]
  /\ applied \subseteq Updates

\* What is true of one update at each of its steps.
Staging(u) ==
  /\ target[u] <= latest
  /\ step[u] \in Chosen => target[u] > own[u]
  /\ step[u] \in Staged => u \in dirs
  /\ step[u] = "verifies" => sum[u] = I!Whole(target[u])
  /\ step[u] \in {"unpacks", "renames"} => archive[u] = I!Whole(target[u])
  /\ step[u] = "renames" => binary[u] = I!Whole(target[u])
  /\ step[u] = "over" => u \notin dirs
  /\ u \in applied => step[u] = "over" /\ exit[u] = 0 /\ target[u] > own[u]
  /\ exit[u] # I!NoExit => step[u] = "over"
  /\ exit[u] = 0 => u \in applied \/ target[u] <= own[u]

SwapInv == SwapTyped /\ exe.whole /\ exe.release <= latest /\ \A u \in Updates : Staging(u)

LEMMA SwapInit == I!Init => SwapInv
BY SMT DEF I!Init, SwapInv, SwapTyped, Staging, SwapSteps, Program, Chosen, Staged, I!Whole, I!Nothing, I!NoExit

\* An update that ends, with any result but that of a rename.
LEMMA SwapEnds ==
  ASSUME SwapInv, NEW u \in Updates, NEW result \in {"ok", "denied", "failed"}, I!Ends(u, result),
         u \notin applied, result = "ok" => target'[u] <= own[u],
         latest' = latest, exe' = exe, own' = own, applied' = applied,
         target' \in [Updates -> Nat], target'[u] <= latest,
         \A v \in Updates : v # u => target'[v] = target[v]
  PROVE  SwapInv'
<1> USE DEF SwapInv
<1>1. I!ExitCode(result) \in 0..I!NoExit
  BY SMT DEF I!ExitCode, I!NoExit
<1>2. SwapTyped'
  <2>1. exit' \in [Updates -> 0..I!NoExit] /\ step' \in [Updates -> SwapSteps]
    BY <1>1, SMT DEF SwapTyped, I!Ends, I!Goes, SwapSteps
  <2>2. dirs' \subseteq Updates
    BY DEF SwapTyped, I!Ends
  <2> QED BY <2>1, <2>2 DEF SwapTyped, I!Ends
<1>3. ASSUME NEW v \in Updates PROVE Staging(v)'
  <2>1. CASE v = u
    BY <2>1, SMT DEF SwapTyped, I!Ends, I!Goes, I!ExitCode, I!NoExit, Staging, Chosen, Staged
  <2>2. CASE v # u
    BY <2>2, SMT DEF SwapTyped, I!Ends, I!Goes, Staging, Chosen, Staged
  <2> QED BY <2>1, <2>2
<1> QED BY <1>2, <1>3

\* What a step of one update leaves of the others.
LEMMA SwapOthers ==
  ASSUME SwapInv, NEW u \in Updates, NEW v \in Updates, v # u, NEW s, I!Goes(u, s),
         latest' = latest, own'[v] = own[v], target'[v] = target[v], exit'[v] = exit[v],
         archive'[v] = archive[v], sum'[v] = sum[v], binary'[v] = binary[v],
         v \in dirs' <=> v \in dirs, v \in applied' <=> v \in applied
  PROVE  Staging(v)'
BY SMT DEF SwapInv, SwapTyped, I!Goes, Staging

LEMMA SwapNext == SwapInv /\ [I!Next]_(I!vars) => SwapInv'
<1> SUFFICES ASSUME SwapInv, [I!Next]_(I!vars) PROVE SwapInv'
  OBVIOUS
<1> USE DEF SwapInv
<1>1. CASE I!Publish
  BY <1>1, SMT DEF I!Publish, I!staging, SwapTyped, Staging, Program
<1>2. ASSUME NEW u \in Updates, I!Starts(u) PROVE SwapInv'
  <2>1. exe.release \in Nat
    BY DEF SwapTyped, Program
  <2>2. SwapTyped'
    BY <1>2, <2>1, SMT DEF I!Starts, I!staging, I!Goes, SwapTyped, SwapSteps
  <2>3. ASSUME NEW v \in Updates PROVE Staging(v)'
    BY <1>2, SMT DEF I!Starts, I!staging, I!Goes, SwapTyped, Staging, Chosen, Staged, I!NoExit
  <2> QED BY <1>2, <2>2, <2>3 DEF I!Starts
<1>3. ASSUME NEW u \in Updates, I!Asks(u) PROVE SwapInv'
  <2>1. CASE latest <= own[u]
    <3>1. u \notin applied
      BY <1>3 DEF I!Asks, Staging
    <3>2. /\ target' \in [Updates -> Nat] /\ target'[u] = latest
          /\ \A v \in Updates : v # u => target'[v] = target[v]
      BY <1>3 DEF I!Asks, SwapTyped
    <3> QED
      BY <1>3, <2>1, <3>1, <3>2, SwapEnds, SMT DEF I!Asks, SwapTyped
  <2>2. CASE ~(latest <= own[u])
    BY <1>3, <2>2, SMT DEF I!Asks, I!staging, I!Goes, SwapTyped, Staging, SwapSteps, Chosen, Staged, I!NoExit
  <2> QED BY <2>1, <2>2
<1>4. ASSUME NEW u \in Updates, I!Probes(u) PROVE SwapInv'
  BY <1>4, SMT DEF I!Probes, I!Goes, SwapTyped, Staging, SwapSteps, Chosen, Staged, I!NoExit
<1>5. ASSUME NEW u \in Updates, I!Fetches(u) PROVE SwapInv'
  <2>1. SwapTyped'
    BY <1>5, SMT DEF I!Fetches, I!Goes, SwapTyped, SwapSteps, Program
  <2>2. Staging(u)'
    BY <1>5, SMT DEF I!Fetches, I!Goes, SwapTyped, Staging, Chosen, Staged, I!NoExit
  <2>3. ASSUME NEW v \in Updates, v # u PROVE Staging(v)'
    BY <1>5, <2>3, SwapOthers DEF I!Fetches, SwapTyped
  <2> QED BY <1>5, <2>1, <2>2, <2>3 DEF I!Fetches
<1>6. ASSUME NEW u \in Updates, I!FetchesSum(u) PROVE SwapInv'
  <2>1. SwapTyped'
    BY <1>6, SMT DEF I!FetchesSum, I!Goes, SwapTyped, SwapSteps, Program, I!Whole
  <2>2. Staging(u)'
    BY <1>6, SMT DEF I!FetchesSum, I!Goes, SwapTyped, Staging, Chosen, Staged, I!NoExit
  <2>3. ASSUME NEW v \in Updates, v # u PROVE Staging(v)'
    BY <1>6, <2>3, SwapOthers DEF I!FetchesSum, SwapTyped
  <2> QED BY <1>6, <2>1, <2>2, <2>3 DEF I!FetchesSum
<1>7. ASSUME NEW u \in Updates, I!Verifies(u) PROVE SwapInv'
  <2>1. CASE I!Verified(u)
    BY <1>7, <2>1, SMT DEF I!Verifies, I!Verified, I!staging, I!Goes, SwapTyped, Staging, SwapSteps, Chosen, Staged, I!NoExit
  <2>2. CASE ~I!Verified(u)
    BY <1>7, <2>2, SwapEnds, SMT DEF I!Verifies, SwapTyped, Staging
  <2> QED BY <2>1, <2>2
<1>8. ASSUME NEW u \in Updates, I!Unpacks(u) PROVE SwapInv'
  <2>1. [release |-> target[u], whole |-> FALSE] \in Program /\ archive[u] \in Program
    BY SMT DEF SwapTyped, Program
  <2>2. SwapTyped'
    <3>1. binary' \in [Updates -> Program]
      BY <1>8, <2>1 DEF I!Unpacks, SwapTyped
    <3>2. step' \in [Updates -> SwapSteps]
      BY <1>8, SMT DEF I!Unpacks, I!Goes, SwapTyped, SwapSteps
    <3> QED BY <1>8, <3>1, <3>2 DEF I!Unpacks, SwapTyped
  <2>3. Staging(u)'
    BY <1>8, SMT DEF I!Unpacks, I!Goes, SwapTyped, Staging, Chosen, Staged, I!NoExit
  <2>4. ASSUME NEW v \in Updates, v # u PROVE Staging(v)'
    BY <1>8, <2>4, SMT DEF I!Unpacks, I!Goes, SwapTyped, Staging
  <2> QED BY <1>8, <2>2, <2>3, <2>4 DEF I!Unpacks
<1>9. ASSUME NEW u \in Updates, I!Renames(u) PROVE SwapInv'
  <2>1. binary[u] = I!Whole(target[u]) /\ target[u] <= latest /\ target[u] > own[u]
    BY <1>9 DEF I!Renames, Staging, Chosen
  <2>2. exe' = I!Whole(target[u]) /\ exe' \in Program /\ exe'.whole /\ exe'.release = target[u]
    BY <1>9, <2>1, SMT DEF I!Renames, I!Whole, Program, SwapTyped
  <2>3. SwapTyped' /\ exe'.release <= latest'
    BY <1>9, <2>1, <2>2, SMT DEF I!Renames, I!Ends, I!Goes, I!ExitCode, SwapTyped, SwapSteps, I!NoExit
  <2>4. ASSUME NEW v \in Updates PROVE Staging(v)'
    <3>1. CASE v = u
      BY <1>9, <2>1, <3>1, SMT DEF I!Renames, I!Ends, I!Goes, I!ExitCode, SwapTyped, I!NoExit, Staging, Chosen, Staged
    <3>2. CASE v # u
      BY <1>9, <3>2, SMT DEF I!Renames, I!Ends, I!Goes, SwapTyped, Staging
    <3> QED BY <3>1, <3>2
  <2> QED BY <2>2, <2>3, <2>4
<1>10. ASSUME NEW u \in Updates, I!Fails(u) PROVE SwapInv'
  BY <1>10, SwapEnds, SMT DEF I!Fails, SwapTyped, Staging
<1>11. ASSUME NEW u \in Updates, I!Killed(u) PROVE SwapInv'
  BY <1>11, SMT DEF I!Killed, I!staging, I!Goes, SwapTyped, Staging, SwapSteps, Chosen, Staged
<1>12. CASE UNCHANGED I!vars
  BY <1>12, SMT DEF I!vars, I!staging, SwapTyped, Staging
<1> QED
  BY <1>1, <1>2, <1>3, <1>4, <1>5, <1>6, <1>7, <1>8, <1>9, <1>10, <1>11, <1>12 DEF I!Next, I!Swap

\* At every moment of any number of concurrent updates, whatever fails and whoever is
\* killed, the program at its path is whole and published, and what an update reports
\* is what it did.  The specification of the runs has the swap beside the daemons, on
\* variables of their own.
THEOREM AlwaysAProgramHolds == SumSpec => []AlwaysAProgram
<1>1. SwapInv => AlwaysAProgram
  BY SMT DEF SwapInv, SwapTyped, Staging, AlwaysAProgram, I!AlwaysAProgram, I!NoExit
<1>2. SumInit => SwapInv
  BY SwapInit DEF SumInit
<1>3. SwapInv /\ [SumNext]_SumVars => SwapInv'
  <2>1. [SumNext]_SumVars => [I!Next]_(I!vars)
    BY DEF SumNext, SumVars, installVars, I!vars, I!staging
  <2> QED BY <2>1, SwapNext
<1> QED BY <1>1, <1>2, <1>3, PTL DEF SumSpec
=============================================================================
