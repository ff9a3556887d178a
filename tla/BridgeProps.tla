---------------------------- MODULE BridgeProps ----------------------------
(***************************************************************************)
(* What is asked of module Bridge.                                         *)
(***************************************************************************)
EXTENDS Bridge

\* A tail delivers every line that was begun and completed after it was opened, once,
\* whatever halves of lines each poll found, as long as the file is not cut.  (Of a
\* line half written when it was opened: see CompleteLinesOnly.)
TailsWhole ==
  \A k \in DOMAIN watches :
    LET t == watches[k]
        c == file[t.path].content
    IN  t.cuts = file[t.path].cuts
        => t.lines = Cardinality({i \in t.start + 2 .. t.pos :
                                    c[i] = "end" /\ c[i - 1] = "head"})

\* A watch is of the incarnation the bridge knows: when a daemon restarts, however
\* the ends of connections, scans and rosters interleave, no transcript of a pane of
\* the old one goes on under the key of a pane of the new one.
WatchesCurrent ==
  \A k \in DOMAIN watches :
    k[1] \in DOMAIN sessions /\ watches[k].epoch = sessions[k[1]].epoch

\* Every line of text the bridge reads is answered once, in order, a line that is none
\* ends it (Garbled).  While a command is forwarded, "ok" means that the daemon it was
\* meant for, and no other, carried it out, and anything else that none has; of the
\* answers only "ok" and "unreachable" are of commands that may have been carried out.
Definite == {"stale_target", "refused", "bad", "missing_epoch", "unknown_session",
             "unknown_pane", "no_transcript"}

CommandsAccounted ==
  /\ Len(replies) = IF busy = Nothing /\ loop # "failed" THEN count ELSE count - 1
  /\ busy # Nothing => loop = "runs"
  /\ \A i \in DOMAIN replies : replies[i] \in Definite => applied[i] = {}
  /\ \A i \in DOMAIN applied : Cardinality(applied[i]) <= 1
  /\ busy # Nothing =>
       IF busy.result = "ok"
       THEN applied[count] = {busy.daemon} /\ busy.daemon = busy.cmd.epoch
       ELSE applied[count] = {}

\* As long as the bridge runs, the consumer comes to know the agents of a daemon that
\* stays up, also when it connects while the roster channel still holds an old value;
\* a session that is gone for good, or whose daemon is of another version, is forgotten.
Known(s) ==
  IF up[s] = 0 \/ s \in foreign
  THEN s \notin DOMAIN sessions
  ELSE s \in DOMAIN sessions /\ sessions[s] = [epoch |-> up[s], agents |-> RosterOf(s)]

Disturbed(s) == up'[s] # up[s] \/ agents'[s] # agents[s]

RostersConverge ==
  \A s \in Sessions : []<>(loop = "runs" => Known(s)) \/ []<><<Disturbed(s)>>_vars

\* What the lines of a poll are said to be (TailPoll::Lines, src/bridge/tail.rs: "Zero
\* or more COMPLETE new lines"): pieces of lines are not among them.  A tail that is
\* opened at the end of the file while a line is half written hands out its rest.
CompleteLinesOnly ==
  \A k \in DOMAIN watches :
    watches[k].cuts = file[watches[k].path].cuts => watches[k].torn = 0
=============================================================================
