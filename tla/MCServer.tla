------------------------------ MODULE MCServer ------------------------------
(* Instances for TLC of the daemon's side of its clients and of what is said *)
(* to it: of Server, with two clients; of Wire, with the bytes of one        *)
(* connection; of Config, the keys those bytes are; of Cli, command lines.   *)
(* They are checked side by side: a behaviour is of one of them (part), and  *)
(* the variables of the others stand still.                                  *)
EXTENDS ServerProps, Sequences

CONSTANTS Messages, Greeting, MaxFrame, SocketRoom, MaxSent, Files,
          Vocabulary, Lines, Parents

\* Payloads are bytes; the hello of this version is far shorter than a frame may be.
ASSUME MessagesAssumption == Messages \subseteq Seq(Nat) /\ MaxFrame \in Nat
ASSUME GreetingAssumption == Greeting \in Seq(Nat) /\ Len(Greeting) <= MaxFrame

VARIABLES part, alive, writing, socket, header, payload, task, sent, got, config,
          line, parent

W == INSTANCE Wire
C == INSTANCE Config
L == INSTANCE Cli

wireVars == <<alive, writing, socket, header, payload, task, sent, got>>
saidVars == <<config, line, parent>>
SumVars  == <<part, vars, wireVars, saidVars>>

SumInit ==
  /\ part \in {"loop", "wire", "config", "cli"} /\ Init /\ W!Init
  /\ part # "loop" => scene = CHOOSE p \in Scenes : TRUE
  /\ part # "loop" => dims = CHOOSE d \in Sizes : TRUE
  /\ IF part = "config" THEN C!Init ELSE config = C!Default
  /\ IF part = "cli" THEN L!Init ELSE line = <<>> /\ parent = L!NoParent
SumNext ==
  \/ part = "loop" /\ Next /\ UNCHANGED <<part, wireVars, saidVars>>
  \/ part = "wire" /\ W!Next /\ UNCHANGED <<part, vars, saidVars>>

SumSpec == SumInit /\ [][SumNext]_SumVars /\ Fairness

CarriesMessages == W!CarriesMessages
ASSUME FilesAssumption == C!FilesTyped
ASSUME LinesAssumption == L!LinesTyped

HelpIsTrue      == /\ part = "config" => C!HelpIsTrue
                   /\ part = "cli" => L!CliIsTrue

-----------------------------------------------------------------------------

CONSTANTS c1, c2, s1, s2, p1, p2

TwoClients == {c1, c2}
TwoSizes   == {s1, s2}
TwoScenes  == {p1, p2}

Hello    == <<1>>
Payloads == {<<>>, <<0>>, Hello, <<0, 1>>, <<1, 1, 1>>}

\* The keys and the command lines that the instances below are made of.
K == INSTANCE Config WITH Files <- {}
O == INSTANCE Cli WITH Vocabulary <- {}, Lines <- {}, Parents <- {}

\* Files that say something of up to two keys, at either place, and files that
\* cannot be used.
Entries == {K!Bad, K!Char(110), K!Char(49), K!Char(0), K!Char(200), K!Ctrl(78), K!Ctrl(49),
            K!Ctrl(98), K!Arrow(3), K!Arrow(4)}
Says(f, g, e, d) == [state |-> "read",
                     entries |-> [h \in DOMAIN K!Default |->
                                    IF h = f THEN e ELSE IF h = g THEN d ELSE K!Absent]]
Written == {Says(f, g, e, d) : f \in DOMAIN K!Default, g \in {"prefix", "split_horizontal"},
                               e \in Entries, d \in Entries}
Useless == {[state |-> s] : s \in {"missing", "unreadable", "malformed"}}
AllFiles == {<<a, b>> : a \in Useless, b \in Useless \cup Written}
            \cup {<<a, [state |-> "missing"]>> : a \in Written}

Words == {"", "server", "ls", "new", "attach", "stop", "ssh", "bridge", "update", "version", "help",
          "window", "pane", "sidebar", "rename", "select", "close", "zoom", "toggle", "split",
          "right", "2", "0", "work", "api", "@work", "@api", "host"} \cup O!Dashed
Inside     == {O!NoParent, "api"}
Shell      == {<<>>} \cup [1..1 -> Words] \cup [1..2 -> Words]
              \cup {<<w>> \o u : w \in Words, u \in O!Usage}
              \cup {u \o <<"--session", w>> : w \in Words, u \in O!Usage}
              \cup UNION {{row[1] : row \in O!Documented(p)} : p \in Inside}
=============================================================================
