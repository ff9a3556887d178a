------------------------------ MODULE MCUpdate ------------------------------
(* Instances for TLC of the life of a session's daemons and of the program   *)
(* they are: of Lifecycle, and of the swap of the program by updates         *)
(* (Install).  They are checked side by side: a behaviour is of the one or   *)
(* of the other (part), and the variables of the other stand still.          *)
EXTENDS MCLifecycle

CONSTANTS Updates, MaxRelease

VARIABLES part, latest, exe, own, step, target, dirs, archive, sum, binary, exit, applied

I == INSTANCE Install

installVars == <<latest, exe, own, step, target, dirs, archive, sum, binary, exit, applied>>
SumVars     == <<part, vars, installVars>>

SumInit == part \in {"session", "program"} /\ Init /\ I!Init
SumNext ==
  \/ part = "session" /\ Next /\ UNCHANGED <<part, installVars>>
  \/ part = "program" /\ I!Next /\ UNCHANGED <<part, vars>>

SumSpec == SumInit /\ [][SumNext]_SumVars /\ Fairness

AlwaysAProgram == I!AlwaysAProgram
TwoUpdates     == {1, 2}
=============================================================================
