------------------------------- MODULE Conduit ------------------------------
(***************************************************************************)
(* What an attached client's connection is to the daemon: a queue of whole *)
(* messages, in order and once.  When the client is gone everything it     *)
(* wrote arrives before the end, but for the message it was in the middle  *)
(* of, and a client that speaks another version is not listened to.        *)
(***************************************************************************)
EXTENDS Naturals, Sequences

CONSTANTS Messages, Greeting

VARIABLES alive,    \* the client writes
          sent,     \* what it began to write
          got,      \* what was taken to the loop
          over      \* "no", or how the connection came to an end

Init == alive = TRUE /\ sent = <<>> /\ got = <<>> /\ over = "no"

Foreign == sent # <<>> /\ sent[1] # Greeting

Send(m) == alive /\ sent' = Append(sent, m) /\ UNCHANGED <<alive, got, over>>

Leave == alive /\ alive' = FALSE /\ UNCHANGED <<sent, got, over>>

Deliver ==
  /\ over = "no" /\ ~Foreign /\ Len(got) < Len(sent)
  /\ got' = Append(got, sent[Len(got) + 1])
  /\ UNCHANGED <<alive, sent, over>>

\* The end is clean exactly if nothing was lost.
End ==
  /\ over = "no"
  /\ over' \in {"eof", "error"}
  /\ \/ ~alive /\ over' = "eof" /\ got = sent
     \/ ~alive /\ over' = "error" /\ Len(got) + 1 = Len(sent)
     \/ Foreign /\ over' = "error" /\ got = <<>>
  /\ UNCHANGED <<alive, sent, got>>

Next == (\E m \in Messages : Send(m)) \/ Leave \/ Deliver \/ End

Spec == Init /\ [][Next]_<<alive, sent, got, over>>
=============================================================================
