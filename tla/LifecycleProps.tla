--------------------------- MODULE LifecycleProps ---------------------------
(***************************************************************************)
(* What is asked of module Lifecycle.                                      *)
(***************************************************************************)
EXTENDS Lifecycle

Stages == {"none", "starting", "locked", "bound", "serving", "saving", "closing",
           "deleting", "leaving", "exiting"}

\* Every variable has its type, and a terminal is connected to a daemon while
\* it waits for it or is attached to it.
TypeOK ==
  /\ proc \in [Daemons -> Stages]
  /\ restores \in [Daemons -> BOOLEAN]
  /\ layout \in [Daemons -> Layouts]
  /\ dirty \in [Daemons -> BOOLEAN]
  /\ writing \in [Daemons -> Layouts \cup {None}]
  /\ keep \in [Daemons -> BOOLEAN]
  /\ kill \in [Daemons -> {None, "stop", "keep"}]
  /\ lock \in Daemons \cup {None}
  /\ sock \in Daemons \cup {None}
  /\ snapshot \in Layouts \cup {None}
  /\ user \in [Users -> {"away", "down", "asked", "waiting", "attaching", "attached"}]
  /\ at \in [Users -> Daemons \cup {None}]
  /\ \A u \in Users : at[u] # None <=> user[u] \in {"attaching", "attached"}
  /\ upd \in {"idle", "eligible", "stopping", "respawning", "respawned"}
  /\ crashes \in 0..MaxCrashes
  /\ spoiled \in {None, "write", "other"}

\* A daemon that listens is the one at the path of the socket and holds the
\* lock: no other took its place, and none removed the path under it, which
\* would leave a session that runs and that nobody can reach.
ListenerReachable ==
  \A d \in Daemons : proc[d] \in Listening => sock = d /\ lock = d

\* However many daemons start, stop and die, the session is in one place (the
\* instance lock and the bind of server::run).
OneReachable == TypeOK /\ ListenerReachable

\* What a crash loses: a session with nothing to save and no writer busy is in
\* the file as it is, unless the last write failed or another process touched
\* the file ("at most ~1s of state is at risk", write_atomic).
CleanIsSaved ==
  \A d \in Daemons :
    proc[d] = "serving" /\ ~dirty[d] /\ writing[d] = None /\ spoiled = None
      => snapshot = layout[d]

\* A stop that keeps the snapshot leaves the session as it was at the end: no
\* older write overtakes the final one, and nobody deletes it.
FinalWriteStays ==
  \A d \in Daemons :
    proc[d] \in {"closing", "leaving"} /\ keep[d] /\ spoiled = None
      => snapshot = layout[d]

\* The snapshot file is what a daemon believes it to be, while it serves and after.
SnapshotIsKept == CleanIsSaved /\ FinalWriteStays

-----------------------------------------------------------------------------

\* `dvlpr update` does not leave a session it stopped down: it ends with a
\* daemon up, however often the new one loses the lock to the old (restart_one).
RestartCompletes == upd = "stopping" ~> (upd = "idle" /\ Live)

\* No terminal waits for ever for a daemon that lost the race for the lock.
LaunchEnds == \A u \in Users : user[u] = "waiting" ~> user[u] # "waiting"

-----------------------------------------------------------------------------

\* request_snapshot: "Used by the server to retry after a transient
\* `write_atomic` failure".  It is not.
FailedWritesRetried ==
  spoiled = "write" ~> (spoiled # "write" \/ \A d \in Daemons : proc[d] # "serving")
=============================================================================
