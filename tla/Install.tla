------------------------------- MODULE Install ------------------------------
(***************************************************************************)
(* The swap of `dvlpr update` (src/update/mod.rs: run_with, install_self,  *)
(* error_to_exit): the latest release is asked for, its archive and        *)
(* checksum are fetched to a directory next to the program, verified and   *)
(* unpacked, and the binary is renamed over the program.  Several updates  *)
(* may run, each may be killed at any moment, any step may fail, and new   *)
(* releases come out meanwhile.  Release 0 is the program's own at first.  *)
(***************************************************************************)
EXTENDS Naturals, FiniteSets

CONSTANTS Updates,     \* update processes, each with a pid of its own
          MaxRelease   \* bound on releases

VARIABLES latest,      \* the latest release
          exe,         \* the program at its path
          own,         \* the release each process was built from
          step,        \* how far each process has come
          target,      \* the release it was told of
          dirs,        \* the staging directories there are, each named for a pid
          archive, sum, binary,   \* and the files in them
          exit,        \* exit codes
          applied      \* auxiliary: the processes that renamed

staging == <<dirs, archive, sum, binary>>
vars    == <<latest, exe, own, step, target, staging, exit, applied>>

Whole(r) == [release |-> r, whole |-> TRUE]
Nothing  == [release |-> 0, whole |-> FALSE]
NoExit   == 3

Init ==
  /\ latest = 0 /\ exe = Whole(0)
  /\ own = [u \in Updates |-> 0] /\ target = [u \in Updates |-> 0]
  /\ step = [u \in Updates |-> "away"] /\ exit = [u \in Updates |-> NoExit]
  /\ dirs = {} /\ archive = [u \in Updates |-> Nothing]
  /\ sum = archive /\ binary = archive /\ applied = {}

Goes(u, s) == step' = [step EXCEPT ![u] = s]

\* error_to_exit: permission denied has a code of its own.
ExitCode(result) == CASE result = "ok"     -> 0
                      [] result = "denied" -> 2
                      [] OTHER             -> 1

\* The staging directory goes with its guard, however the function is left.
Ends(u, result) ==
  /\ Goes(u, "over")
  /\ exit' = [exit EXCEPT ![u] = ExitCode(result)]
  /\ dirs' = dirs \ {u}
  /\ UNCHANGED <<archive, sum, binary>>

\* Any call may fail: curl, the checksum program, tar, the file system.
Fails(u) ==
  /\ step[u] \notin {"away", "over", "killed"}
  /\ \E result \in {"denied", "failed"} : Ends(u, result)
  /\ UNCHANGED <<latest, exe, own, target, applied>>

Killed(u) ==
  /\ step[u] \notin {"away", "over", "killed"}
  /\ Goes(u, "killed")
  /\ UNCHANGED <<latest, exe, own, target, staging, exit, applied>>

Publish ==
  /\ latest < MaxRelease /\ latest' = latest + 1
  /\ UNCHANGED <<exe, own, step, target, staging, exit, applied>>

-----------------------------------------------------------------------------

\* The program is run as whatever is at its path.
Starts(u) ==
  /\ step[u] = "away"
  /\ own' = [own EXCEPT ![u] = exe.release]
  /\ Goes(u, "asks")
  /\ UNCHANGED <<latest, exe, target, staging, exit, applied>>

\* fetch_latest_release, parse_remote_version and the comparison.
Asks(u) ==
  /\ step[u] = "asks"
  /\ target' = [target EXCEPT ![u] = latest]
  /\ IF latest <= own[u] THEN Ends(u, "ok")
     ELSE Goes(u, "probes") /\ UNCHANGED <<staging, exit>>
  /\ UNCHANGED <<latest, exe, own, applied>>

\* parent_writable: a no ends it before anything is downloaded.
Probes(u) ==
  /\ step[u] = "probes"
  /\ Goes(u, "fetches")
  /\ dirs' = dirs \cup {u}
  /\ UNCHANGED <<latest, exe, own, target, archive, sum, binary, exit, applied>>

\* curl leaves what it got, which need not be what was published.
Fetches(u) ==
  /\ step[u] = "fetches"
  /\ \E whole \in BOOLEAN :
       archive' = [archive EXCEPT ![u] = [release |-> target[u], whole |-> whole]]
  /\ Goes(u, "sums")
  /\ UNCHANGED <<latest, exe, own, target, dirs, sum, binary, exit, applied>>

FetchesSum(u) ==
  /\ step[u] = "sums"
  /\ sum' = [sum EXCEPT ![u] = Whole(target[u])]
  /\ Goes(u, "verifies")
  /\ UNCHANGED <<latest, exe, own, target, dirs, archive, binary, exit, applied>>

\* Mutant: the status of the checksum program is not looked at.
UnVerified(u) == TRUE
Verified(u)   == archive[u] = sum[u]

Verifies(u) ==
  /\ step[u] = "verifies"
  /\ IF Verified(u) THEN Goes(u, "unpacks") /\ UNCHANGED <<staging, exit>>
     ELSE Ends(u, "failed")
  /\ UNCHANGED <<latest, exe, own, target, applied>>

\* tar writes the binary bit by bit.
Unpacks(u) ==
  /\ step[u] = "unpacks"
  /\ IF binary[u] = Nothing
     THEN binary' = [binary EXCEPT ![u] = [release |-> target[u], whole |-> FALSE]] /\ UNCHANGED step
     ELSE binary' = [binary EXCEPT ![u] = archive[u]] /\ Goes(u, "renames")
  /\ UNCHANGED <<latest, exe, own, target, dirs, archive, sum, exit, applied>>

Renames(u) ==
  /\ step[u] = "renames"
  /\ exe' = binary[u]
  /\ applied' = applied \cup {u}
  /\ Ends(u, "ok")
  /\ UNCHANGED <<latest, own, target>>

Swap(u) == \/ Starts(u) \/ Asks(u) \/ Probes(u) \/ Fetches(u) \/ FetchesSum(u)
           \/ Verifies(u) \/ Unpacks(u) \/ Renames(u)

Next == Publish \/ \E u \in Updates : Swap(u) \/ Fails(u) \/ Killed(u)

Spec == Init /\ [][Next]_vars

-----------------------------------------------------------------------------
(* What is asked of it                                                     *)

\* At every moment, whichever steps of whichever updates failed or were cut off, the
\* program at its path is a whole, published one; an update that reports success has
\* put a newer one than its own there, or had none to put, and one that reports an
\* error has not touched it; and only an update that was killed leaves its staging
\* directory behind (the documentation of install_self and error_to_exit).
AlwaysAProgram ==
  /\ exe.whole /\ exe.release <= latest
  /\ \A u \in Updates :
       /\ exit[u] = 0 => u \in applied \/ target[u] <= own[u]
       /\ exit[u] \in {1, 2} => u \notin applied
       /\ u \in applied => target[u] > own[u]
       /\ step[u] = "over" => u \notin dirs
=============================================================================
