------------------------------ MODULE Lifecycle ------------------------------
(***************************************************************************)
(* One session's name over the lives of its daemons: who may be the daemon *)
(* (the lock, the socket), what survives it (the snapshot file), and the   *)
(* commands that start, stop and replace it: `dvlpr NAME` (run_or_attach), *)
(* `dvlpr stop`, and the restart at the end of `dvlpr update`.             *)
(*                                                                         *)
(* Every daemon and every command is a process of its own; they meet in    *)
(* the file system.  A daemon has a thread besides its loop, which writes  *)
(* a snapshot.  A daemon may be killed at any step.                        *)
(*                                                                         *)
(* The session is its restorable layout; module Session shows that each    *)
(* change of it sets the dirty bit.  Daemons are process slots, used again *)
(* once free.                                                              *)
(***************************************************************************)
EXTENDS Naturals

CONSTANTS Daemons,      \* bound on daemon processes at one time
          Users,        \* terminals that run `dvlpr NAME`
          Layouts,      \* what a session's layout can be
          Fresh,        \* the layout of a session that was not restored
          MaxCrashes    \* bound on daemons killed

ASSUME FreshAssumption   == Fresh \in Layouts
ASSUME CrashesAssumption == MaxCrashes \in Nat

None == "none"
ASSUME NoneAssumption == None \notin Daemons \cup Layouts

VARIABLES proc,       \* how far each daemon has come
          restores,   \* DVLPR_RESTORE of each daemon's environment
          layout,     \* its session
          dirty,      \* snapshot_dirty
          writing,    \* the snapshot its writer thread has in hand
          keep,       \* keep_snapshot_on_exit
          kill,       \* the first Shutdown event it has been sent
          lock, sock, snapshot,   \* the files: holder, listener, content
          user, at,   \* each terminal, and the daemon it is connected to
          upd,        \* the restart of `dvlpr update`
          crashes,
          spoiled     \* auxiliary: the file is not what a daemon last saved

daemonVars == <<proc, restores, layout, dirty, writing, keep, kill>>
fileVars   == <<lock, sock, snapshot>>
userVars   == <<user, at>>
vars == <<daemonVars, fileVars, userVars, upd, crashes, spoiled>>

\* The files are those of earlier lives: a snapshot, and the socket of a daemon
\* that was killed.
Init ==
  /\ proc = [d \in Daemons |-> "none"]
  /\ restores = [d \in Daemons |-> FALSE]
  /\ layout = [d \in Daemons |-> Fresh]
  /\ dirty = [d \in Daemons |-> FALSE]
  /\ writing = [d \in Daemons |-> None]
  /\ keep = [d \in Daemons |-> FALSE]
  /\ kill = [d \in Daemons |-> None]
  /\ lock = None
  /\ sock \in Daemons \cup {None}
  /\ snapshot \in Layouts \cup {None}
  /\ user = [u \in Users |-> "away"]
  /\ at = [u \in Users |-> None]
  /\ upd = "idle"
  /\ crashes = 0
  /\ spoiled = None

-----------------------------------------------------------------------------

\* is_live: somebody listens at the path of the socket.  A daemon does from
\* bind to the removal of the path, whether its loop runs or not.
Listening == {"bound", "serving", "saving", "closing"}
Live == sock # None /\ proc[sock] \in Listening

Goes(d, s)  == proc' = [proc EXCEPT ![d] = s]
Comes(u, s) == user' = [user EXCEPT ![u] = s]

\* spawn_detached_server: a process with DVLPR_RESTORE set or cleared.
Spawned(d, r) ==
  /\ proc[d] = "none"
  /\ Goes(d, "starting")
  /\ restores' = [restores EXCEPT ![d] = r]
  /\ UNCHANGED <<layout, dirty, writing, keep, kill>>

\* Everyone connected to d is cut off.
CutOff(d) ==
  /\ user' = [u \in Users |-> IF at[u] = d THEN "away" ELSE user[u]]
  /\ at'   = [u \in Users |-> IF at[u] = d THEN None ELSE at[u]]

-----------------------------------------------------------------------------
(* A daemon's life: run_server and server::run                             *)

\* Its process is no more.
Vanishes(d) ==
  /\ Goes(d, "none")
  /\ restores' = [restores EXCEPT ![d] = FALSE]
  /\ layout' = [layout EXCEPT ![d] = Fresh]
  /\ dirty' = [dirty EXCEPT ![d] = FALSE]
  /\ writing' = [writing EXCEPT ![d] = None]
  /\ keep' = [keep EXCEPT ![d] = FALSE]
  /\ kill' = [kill EXCEPT ![d] = None]

\* Mutant: the lock is not exclusive.
FreeAlways == TRUE
Free == lock = None

sessionRest == <<layout, dirty, writing, keep, kill>>

\* acquire_instance_lock: whoever does not get it exits.
Locks(d) ==
  /\ proc[d] = "starting"
  /\ \/ /\ Free
        /\ lock' = d
        /\ Goes(d, "locked")
        /\ UNCHANGED <<restores, sessionRest>>
     \/ /\ ~Free
        /\ Vanishes(d)
        /\ UNCHANGED lock
  /\ UNCHANGED <<sock, snapshot, userVars, upd, crashes, spoiled>>

\* Mutant: a socket left behind is taken for a live one.
PathFree == sock = None

\* A socket left behind is replaced.  (A live one would be an error, but its
\* owner would hold the lock.)
Replaceable == ~Live

Binds(d) ==
  /\ proc[d] = "locked"
  /\ Replaceable
  /\ Goes(d, "bound")
  /\ sock' = d
  /\ UNCHANGED <<restores, sessionRest, lock, snapshot, userVars, upd, crashes, spoiled>>

\* The session is restored from the snapshot, or new; its bit is set.
\* (A restore that fails ends the daemon as a crash here would.)
Loads(d) ==
  /\ proc[d] = "bound"
  /\ Goes(d, "serving")
  /\ restores' = [restores EXCEPT ![d] = FALSE]   \* not read again
  /\ layout' = [layout EXCEPT ![d] = IF restores[d] /\ snapshot # None
                                     THEN snapshot ELSE Fresh]
  /\ dirty' = [dirty EXCEPT ![d] = TRUE]
  /\ keep' = [keep EXCEPT ![d] = FALSE]
  /\ UNCHANGED <<writing, kill, fileVars, userVars, upd, crashes, spoiled>>

\* A structural change.
Changes(d) ==
  /\ proc[d] = "serving"
  /\ layout' \in {[layout EXCEPT ![d] = l] : l \in Layouts}
  /\ dirty' = [dirty EXCEPT ![d] = TRUE]
  /\ UNCHANGED <<proc, restores, writing, keep, kill, fileVars, userVars, upd,
                 crashes, spoiled>>

\* Mutant: the bit that was taken is not given back.
Forgotten(d) == FALSE

\* A writer is still busy: the bit is set again (request_snapshot).
Requested(d) == writing[d] # None

\* snapshot_tick: what has become of the panes' directories and agents is
\* looked up; the bit is taken; a writer is started unless one is busy.
SnapshotTick(d) ==
  /\ proc[d] = "serving"
  /\ \E l \in Layouts :
       /\ layout' = [layout EXCEPT ![d] = l]
       /\ dirty[d] \/ l # layout[d]
       /\ dirty' = [dirty EXCEPT ![d] = Requested(d)]
       /\ writing' = IF writing[d] = None THEN [writing EXCEPT ![d] = l] ELSE writing
  /\ UNCHANGED <<proc, restores, keep, kill, fileVars, userVars, upd, crashes, spoiled>>

\* write_atomic in the thread, up to the rename.  It goes on while the loop
\* is torn down, until the process exits.
Writes(d) ==
  /\ writing[d] # None
  /\ snapshot' = writing[d]
  /\ writing' = [writing EXCEPT ![d] = None]
  /\ spoiled' = IF lock = d THEN None ELSE "other"
  /\ UNCHANGED <<proc, restores, layout, dirty, keep, kill, lock, sock, userVars,
                 upd, crashes>>

\* The write fails, which is logged.
WriteFails(d) ==
  /\ writing[d] # None
  /\ writing' = [writing EXCEPT ![d] = None]
  /\ spoiled' = IF lock = d THEN "write" ELSE spoiled
  /\ UNCHANGED <<proc, restores, layout, dirty, keep, kill, fileVars, userVars,
                 upd, crashes>>

\* The loop is over: nobody reads its queue, its bit and its session again,
\* unless the session is to be saved.
LoopEnds(d, s) ==
  /\ Goes(d, s)
  /\ kill' = [kill EXCEPT ![d] = None]
  /\ dirty' = [dirty EXCEPT ![d] = FALSE]
  /\ layout' = IF s = "saving" THEN layout ELSE [layout EXCEPT ![d] = Fresh]
  /\ UNCHANGED <<restores, writing, keep, fileVars, userVars, upd, crashes, spoiled>>

\* Event::Shutdown, the first to arrive; or the last pane exits.
ShutsDown(d) ==
  /\ proc[d] = "serving"
  /\ \/ kill[d] = "keep" /\ LoopEnds(d, "saving")
     \/ kill[d] = "stop" /\ LoopEnds(d, "closing")

Empties(d) == proc[d] = "serving" /\ LoopEnds(d, "closing")

\* Mutant: the final write does not wait for the one in hand.
WriterDoneNot(d) == TRUE
WriterDone(d) == writing[d] = None

\* A shutdown that keeps the snapshot waits for the writer, then writes the
\* session as it is; a failure is only logged.
FinalWrite(d) ==
  /\ proc[d] = "saving"
  /\ WriterDone(d)
  /\ Goes(d, "closing")
  /\ layout' \in {[layout EXCEPT ![d] = l] : l \in Layouts}
  /\ keep' = [keep EXCEPT ![d] = TRUE]
  /\ \/ snapshot' = layout'[d] /\ spoiled' = None
     \/ UNCHANGED snapshot /\ spoiled' = "write"
  /\ UNCHANGED <<restores, dirty, writing, kill, lock, sock, userVars, upd, crashes>>

\* Teardown: the clients are told, then the path of the socket is removed.
Unlinks(d) ==
  /\ proc[d] = "closing"
  /\ CutOff(d)
  /\ sock' = None
  /\ Goes(d, IF keep[d] THEN "leaving" ELSE "deleting")
  /\ UNCHANGED <<restores, layout, dirty, writing, keep, kill, lock, snapshot, upd,
                 crashes, spoiled>>

\* A session that was ended leaves no snapshot.
Deletes(d) ==
  /\ proc[d] = "deleting"
  /\ snapshot' = None
  /\ Goes(d, "leaving")
  /\ UNCHANGED <<restores, layout, dirty, writing, keep, kill, lock, sock, userVars,
                 upd, crashes, spoiled>>

\* run_server returns, which closes the lock's file; its thread lives on.
Unlocks(d) ==
  /\ proc[d] = "leaving"
  /\ lock' = IF lock = d THEN None ELSE lock
  /\ Goes(d, "exiting")
  /\ UNCHANGED <<restores, layout, dirty, writing, keep, kill, sock, snapshot,
                 userVars, upd, crashes, spoiled>>

Exits(d) ==
  /\ proc[d] = "exiting"
  /\ Vanishes(d)
  /\ UNCHANGED <<fileVars, userVars, upd, crashes, spoiled>>

\* Killed; the kernel releases the lock, the socket's path stays.
Crashes(d) ==
  /\ proc[d] # "none"
  /\ crashes < MaxCrashes
  /\ crashes' = crashes + 1
  /\ Vanishes(d)
  /\ CutOff(d)
  /\ lock' = IF lock = d THEN None ELSE lock
  /\ UNCHANGED <<sock, snapshot, upd, spoiled>>

-----------------------------------------------------------------------------
(* `dvlpr NAME` at terminal u: run_or_attach                               *)

userRest == <<fileVars, upd, crashes, spoiled>>

Connects(u) == Comes(u, "attaching") /\ at' = [at EXCEPT ![u] = sock]

Probes(u) ==
  /\ user[u] = "away"
  /\ IF Live THEN Connects(u) ELSE Comes(u, "down") /\ UNCHANGED at
  /\ UNCHANGED <<daemonVars, userRest>>

\* There is a snapshot: the user is asked whether to restore it.
Asks(u) ==
  /\ user[u] = "down"
  /\ snapshot # None
  /\ Comes(u, "asked")
  /\ UNCHANGED <<daemonVars, at, userRest>>

Starts(u, d) ==
  /\ \/ user[u] = "down" /\ snapshot = None /\ Spawned(d, FALSE)
     \/ user[u] = "asked" /\ Spawned(d, TRUE)
  /\ Comes(u, "waiting")
  /\ UNCHANGED <<at, userRest>>

\* The answer is no: the snapshot, whosever it is by now, is put aside.
Declines(u, d) ==
  /\ user[u] = "asked"
  /\ snapshot' = None
  /\ spoiled' = "other"
  /\ Spawned(d, FALSE)
  /\ Comes(u, "waiting")
  /\ UNCHANGED <<at, lock, sock, upd, crashes>>

SeesUp(u) ==
  /\ user[u] = "waiting"
  /\ Live
  /\ Connects(u)
  /\ UNCHANGED <<daemonVars, userRest>>

\* Two seconds of polling are over; a daemon on its way is up by then.
GivesUp(u) ==
  /\ user[u] = "waiting"
  /\ ~Live /\ \A d \in Daemons : proc[d] \notin {"starting", "locked"}
  /\ Comes(u, "away")
  /\ UNCHANGED <<daemonVars, at, userRest>>

\* The loop takes the new client.
Attaches(u) ==
  /\ user[u] = "attaching"
  /\ proc[at[u]] = "serving"
  /\ Comes(u, "attached")
  /\ UNCHANGED <<daemonVars, at, userRest>>

\* The client is detached.
Leaves(u) ==
  /\ user[u] = "attached"
  /\ Comes(u, "away")
  /\ at' = [at EXCEPT ![u] = None]
  /\ UNCHANGED <<daemonVars, userRest>>

-----------------------------------------------------------------------------
(* `dvlpr stop` and `dvlpr update`                                         *)

\* send_kill: the event is queued, also in a daemon that is still starting; the
\* first one ends the loop.
Killed(d, how) == kill' = [kill EXCEPT ![d] = IF @ = None /\ proc[d] \in {"bound", "serving"} THEN how ELSE @]
killRest == <<proc, restores, layout, dirty, writing, keep, fileVars, userVars,
              crashes, spoiled>>

Stop ==
  /\ Live
  /\ Killed(sock, "stop")
  /\ UNCHANGED <<upd, killRest>>

\* classify_sessions: the session is live, its loop answers, nobody is attached.
UpdProbes ==
  /\ upd = "idle"
  /\ Live /\ proc[sock] = "serving"
  /\ ~ \E u \in Users : user[u] = "attached" /\ at[u] = sock
  /\ upd' = "eligible"
  /\ UNCHANGED <<kill, killRest>>

\* restart_one: the stop is sent if anybody listens.
UpdStops ==
  /\ upd = "eligible"
  /\ IF Live THEN upd' = "stopping" /\ Killed(sock, "keep")
             ELSE upd' = "idle" /\ UNCHANGED kill
  /\ UNCHANGED killRest

UpdSeesDead ==
  /\ upd = "stopping"
  /\ ~Live
  /\ upd' = "respawning"
  /\ UNCHANGED <<kill, killRest>>

\* Two seconds are over and a daemon that was not sent a stop is serving.
UpdGivesUp ==
  /\ upd = "stopping"
  /\ Live /\ proc[sock] = "serving" /\ kill[sock] = None
  /\ upd' = "idle"
  /\ UNCHANGED <<kill, killRest>>

\* Mutant: one attempt is made.
Again == "respawned"
Retry == "respawning"

\* A daemon is started again and again until one is up, since one that comes
\* before the old one has let go of the lock exits (100 attempts in the code).
UpdRespawns(d) ==
  /\ upd = "respawning"
  /\ Spawned(d, TRUE)
  /\ upd' = Retry
  /\ UNCHANGED <<fileVars, userVars, crashes, spoiled>>

UpdSeesUp ==
  /\ upd \in {"respawning", "respawned"}
  /\ Live
  /\ upd' = "idle"
  /\ UNCHANGED <<kill, killRest>>

-----------------------------------------------------------------------------

Daemon(d) ==
  \/ Locks(d) \/ Binds(d) \/ Loads(d)
  \/ ShutsDown(d) \/ FinalWrite(d) \/ Unlinks(d) \/ Deletes(d) \/ Unlocks(d) \/ Exits(d)

Thread(d) == Writes(d) \/ WriteFails(d)

Terminal(u) ==
  \/ Probes(u) \/ Asks(u) \/ SeesUp(u) \/ GivesUp(u) \/ Attaches(u) \/ Leaves(u)
  \/ \E d \in Daemons : Starts(u, d) \/ Declines(u, d)

Update ==
  \/ UpdProbes \/ UpdStops \/ UpdSeesDead \/ UpdGivesUp \/ UpdSeesUp
  \/ \E d \in Daemons : UpdRespawns(d)

Next ==
  \/ \E d \in Daemons : Daemon(d) \/ Thread(d) \/ Changes(d) \/ SnapshotTick(d)
                        \/ Empties(d) \/ Crashes(d)
  \/ \E u \in Users : Terminal(u)
  \/ Stop
  \/ Update

Spec == Init /\ [][Next]_vars

\* Processes and threads run; a poll every 20 ms sees what stays or recurs.
\* What users do, and which writes fail, is not up to the code.
Fairness ==
  /\ \A d \in Daemons : WF_vars(Daemon(d)) /\ WF_vars(Thread(d))
  /\ \A u \in Users : SF_vars(SeesUp(u)) /\ WF_vars(GivesUp(u)) /\ WF_vars(Attaches(u))
  /\ WF_vars(UpdStops) /\ SF_vars(UpdSeesDead) /\ SF_vars(UpdSeesUp) /\ WF_vars(UpdGivesUp)
  /\ WF_vars(\E d \in Daemons : UpdRespawns(d))

FairSpec == Spec /\ Fairness

\* A storage that fails now and then: of writes tried again and again one works.
Storage == \A d \in Daemons : WF_vars(SnapshotTick(d)) /\ SF_vars(Writes(d))

StorageFairSpec == FairSpec /\ Storage
=============================================================================
