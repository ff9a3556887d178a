--------------------------- MODULE CopyModeProofs ---------------------------
(***************************************************************************)
(* Theorems about CopyMode, for any keys, screens, heights and bounds.  A  *)
(* read is a fold over bytes and then over events: what every step of a    *)
(* fold keeps, the fold keeps, by the least number at which it would not.  *)
(***************************************************************************)
EXTENDS CopyModeProps, WellFoundedInduction, SequenceTheorems, TLAPS

-----------------------------------------------------------------------------
(* Numbers and folds                                                       *)

\* Of natural numbers there is a least.
LEMMA LeastNumber ==
  ASSUME NEW T, T \subseteq Nat, T # {}
  PROVE  \E x \in T : \A y \in T : x <= y
<1> DEFINE R == {ss \in Nat \X Nat : ss[1] < ss[2]}
<1>1. R = OpToRel(<, Nat)
  BY DEF OpToRel
<1>2. IsWellFoundedOn(R, Nat)
  BY <1>1, NatLessThanWellFounded
<1> HIDE DEF R
<1>3. PICK x \in T : \A y \in T : ~(<<y, x>> \in R)
  BY <1>2, WFMin
<1>4. ASSUME NEW y \in T PROVE x <= y
  <2>1. x \in Nat /\ y \in Nat /\ <<y, x>> \notin R
    BY <1>3
  <2> QED
    BY <2>1 DEF R
<1> QED
  BY <1>4

\* A set of numbers that has the first, and with a number the next, has them all.
LEMMA Climbs ==
  ASSUME NEW n \in Nat, NEW T, 0 \in T, \A i \in 1..n : i - 1 \in T => i \in T
  PROVE  0..n \subseteq T
<1> DEFINE U == {i \in 0..n : i \notin T}
<1>1. SUFFICES ASSUME U # {} PROVE FALSE
  OBVIOUS
<1>2. U \subseteq Nat
  OBVIOUS
<1>3. PICK x \in U : \A y \in U : x <= y
  BY <1>1, <1>2, LeastNumber
<1>4. x \in 1..n /\ x - 1 \in 0..n /\ ~(x <= x - 1)
  BY <1>3
<1>5. x - 1 \in T
  BY <1>3, <1>4
<1> QED
  BY <1>3, <1>4, <1>5

IsFold(f, s0, n, F) == f = [i \in 0..n |-> IF i = 0 THEN s0 ELSE F[<<f[i - 1], i>>]]

\* A recursive function over the numbers up to n exists, and stays in a set that its
\* step keeps.
LEMMA FoldExists ==
  ASSUME NEW S, NEW s0 \in S, NEW n \in Nat, NEW F, F \in [S \X (1..n) -> S]
  PROVE  \E f \in [0..n -> S] : IsFold(f, s0, n, F)
<1> DEFINE Upto(k, f) == /\ f \in [0..k -> S]
                         /\ f[0] = s0
                         /\ \A i \in 1..k : f[i] = F[<<f[i - 1], i>>]
           T == {k \in 0..n : \E f : Upto(k, f)}
<1>1. 0 \in T
  <2>1. Upto(0, [i \in 0..0 |-> s0])
    OBVIOUS
  <2>2. 0 \in 0..n
    OBVIOUS
  <2> HIDE DEF Upto
  <2> QED
    BY <2>1, <2>2
<1>2. ASSUME NEW k \in 1..n, k - 1 \in T PROVE k \in T
  <2>1. PICK f : Upto(k - 1, f)
    BY <1>2
  <2> DEFINE g == [i \in 0..k |-> IF i = k THEN F[<<f[k - 1], k>>] ELSE f[i]]
  <2>2. f[k - 1] \in S /\ F[<<f[k - 1], k>>] \in S
    BY <2>1
  <2>3. \A i \in 0..k : i # k => i \in 0..k - 1
    OBVIOUS
  <2>4. g \in [0..k -> S]
    BY <2>1, <2>2, <2>3
  <2>5. g[0] = s0
    BY <2>1
  <2>6. ASSUME NEW i \in 1..k PROVE g[i] = F[<<g[i - 1], i>>]
    <3>1. CASE i = k
      <4>1. k \in 0..k /\ k - 1 \in 0..k /\ k - 1 # k
        OBVIOUS
      <4>2. g[k] = F[<<f[k - 1], k>>] /\ g[k - 1] = f[k - 1]
        BY <4>1
      <4> HIDE DEF g
      <4> QED
        BY <3>1, <4>2
    <3>2. CASE i # k
      <4>1. i \in 1..k - 1 /\ i \in 0..k /\ i - 1 \in 0..k /\ i - 1 # k
        BY <3>2
      <4>2. g[i] = f[i] /\ g[i - 1] = f[i - 1]
        BY <3>2, <4>1
      <4>3. f[i] = F[<<f[i - 1], i>>]
        BY <4>1, <2>1
      <4> HIDE DEF g, Upto
      <4> QED
        BY <4>2, <4>3
    <3> QED
      BY <3>1, <3>2
  <2>7. Upto(k, g)
    BY <2>4, <2>5, <2>6
  <2>8. k \in 0..n
    OBVIOUS
  <2> HIDE DEF Upto, g
  <2> QED
    BY <2>7, <2>8
<1> HIDE DEF T
<1>3. n \in T
  BY <1>1, <1>2, Climbs
<1>4. PICK f : Upto(n, f)
  BY <1>3 DEF T
<1>5. f = [i \in 0..n |-> f[i]]
  BY <1>4
<1>6. \A i \in 0..n : f[i] = IF i = 0 THEN s0 ELSE F[<<f[i - 1], i>>]
  BY <1>4
<1>7. f = [i \in 0..n |-> IF i = 0 THEN s0 ELSE F[<<f[i - 1], i>>]]
  BY <1>5, <1>6
<1> QED
  BY <1>4, <1>7 DEF IsFold

LEMMA MinOfTwo ==
  ASSUME NEW a \in Int, NEW b \in Int
  PROVE  Min({a, b}) = IF a <= b THEN a ELSE b
<1> DEFINE m == IF a <= b THEN a ELSE b
<1>1. m \in {a, b} /\ \A y \in {a, b} : m <= y
  OBVIOUS
<1>2. \A x \in {a, b} : (\A y \in {a, b} : x <= y) => x = m
  OBVIOUS
<1> QED
  BY <1>1, <1>2 DEF Min

LEMMA MaxOfTwo ==
  ASSUME NEW a \in Int, NEW b \in Int
  PROVE  Max({a, b}) = IF a >= b THEN a ELSE b
<1> DEFINE m == IF a >= b THEN a ELSE b
<1>1. m \in {a, b} /\ \A y \in {a, b} : m >= y
  OBVIOUS
<1>2. \A x \in {a, b} : (\A y \in {a, b} : x >= y) => x = m
  OBVIOUS
<1> QED
  BY <1>1, <1>2 DEF Max

\* The least and the greatest of some columns are of them.
LEMMA MinIsIn ==
  ASSUME NEW S, S \subseteq Nat, S # {}
  PROVE  Min(S) \in S
BY LeastNumber DEF Min

LEMMA MaxIsIn ==
  ASSUME NEW n \in Nat, NEW S, S \subseteq 0..n, S # {}
  PROVE  Max(S) \in S
<1> DEFINE T == {n - x : x \in S}
<1>1. T \subseteq Nat
  OBVIOUS
<1> PICK s \in S : TRUE
  OBVIOUS
<1> n - s \in T
  OBVIOUS
<1>2. PICK d \in T : \A y \in T : d <= y
  BY <1>1, LeastNumber
<1>3. PICK x \in S : d = n - x
  BY <1>2
<1>4. ASSUME NEW y \in S PROVE x >= y
  <2>1. n - x <= n - y /\ x \in Int /\ y \in Int
    BY <1>2, <1>3
  <2> QED
    BY <2>1
<1> QED
  BY <1>4 DEF Max

-----------------------------------------------------------------------------
(* The parser                                                              *)

Mode == {"Ground", "NEsc", "NCsi", "NMouse", "Armed", "AEsc", "ACsi", "ASs3"}
KeyName == Class \cup {"up", "home", "pageup"}
MouseKind == {"none", "press", "release", "button", "drag", "scrollup", "scrolldown"}

Event ==
  [ev : {"pane"}, bytes : Seq(Byte)] \cup [ev : {"copykey"}, key : KeyName]
    \cup [ev : {"command"}, name : {"EnterCopyMode", "ToggleZoom"}] \cup [ev : {"focus"}]
    \cup [ev : {"mouse"}, col : Nat, row : Nat, kind : MouseKind]

Parser == [mode : Mode, pending : Seq(Byte), ground : Seq(Byte), out : Seq(Event)]

\* What a field of a parser may be given, whatever its bytes and events are.
LEMMA ParserFields ==
  ASSUME NEW B, NEW E, NEW M,
         NEW p \in [mode : M, pending : Seq(B), ground : Seq(B), out : Seq(E)]
  PROVE  LET Ps == [mode : M, pending : Seq(B), ground : Seq(B), out : Seq(E)]
         IN  /\ \A e \in E : [p EXCEPT !.out = Append(@, e)] \in Ps
             /\ \A es \in Seq(E) : [p EXCEPT !.out = @ \o es] \in Ps
             /\ \A b \in B : [p EXCEPT !.ground = Append(@, b)] \in Ps
             /\ [p EXCEPT !.ground = <<>>] \in Ps
             /\ [p EXCEPT !.out = <<>>] \in Ps
             /\ \A mode \in M, bs \in Seq(B) :
                  [p EXCEPT !.mode = mode, !.pending = bs] \in Ps
<1>1. \A e \in E : Append(p.out, e) \in Seq(E)
  OBVIOUS
<1>2. \A es \in Seq(E) : p.out \o es \in Seq(E)
  OBVIOUS
<1>3. \A b \in B : Append(p.ground, b) \in Seq(B)
  OBVIOUS
<1>4. <<>> \in Seq(B) /\ <<>> \in Seq(E)
  OBVIOUS
<1> DEFINE SB == Seq(B)
           SE == Seq(E)
<1>5. p \in [mode : M, pending : SB, ground : SB, out : SE]
  OBVIOUS
<1>6. /\ \A e \in E : Append(p.out, e) \in SE
      /\ \A es \in SE : p.out \o es \in SE
      /\ \A b \in B : Append(p.ground, b) \in SB
      /\ <<>> \in SB /\ <<>> \in SE
  BY <1>1, <1>2, <1>3, <1>4
<1>7. /\ [p EXCEPT !.ground = <<>>] \in [mode : M, pending : SB, ground : SB, out : SE]
      /\ [p EXCEPT !.out = <<>>] \in [mode : M, pending : SB, ground : SB, out : SE]
      /\ \A mode \in M, bs \in SB : [p EXCEPT !.mode = mode, !.pending = bs]
            \in [mode : M, pending : SB, ground : SB, out : SE]
  <2> HIDE DEF SB, SE
  <2> QED BY <1>5, <1>6
<1>8. \A e \in E : [p EXCEPT !.out = Append(@, e)]
            \in [mode : M, pending : SB, ground : SB, out : SE]
  <2> HIDE DEF SB, SE
  <2> QED BY <1>5, <1>6
<1>9. \A es \in SE : [p EXCEPT !.out = @ \o es]
            \in [mode : M, pending : SB, ground : SB, out : SE]
  <2> HIDE DEF SB, SE
  <2> QED BY <1>5, <1>6
<1>10. \A b \in B : [p EXCEPT !.ground = Append(@, b)]
            \in [mode : M, pending : SB, ground : SB, out : SE]
  <2> HIDE DEF SB, SE
  <2> QED BY <1>5, <1>6
<1> QED
  BY <1>7, <1>8, <1>9, <1>10

LEMMA EmittedTyped ==
  ASSUME NEW p \in Parser, NEW e \in Event
  PROVE  Emitted(p, e) \in Parser
<1> HIDE DEF Event
<1> QED
  BY ParserFields DEF Emitted, Parser

LEMMA InModeTyped ==
  ASSUME NEW p \in Parser, NEW mode \in Mode, NEW bytes \in Seq(Byte)
  PROVE  InMode(p, mode, bytes) \in Parser
BY ParserFields DEF InMode, Parser

\* With no byte pending, and with one.
LEMMA RestartTyped ==
  ASSUME NEW p \in Parser, NEW mode \in Mode
  PROVE  /\ InMode(p, mode, <<>>) \in Parser
         /\ \A b \in Byte : InMode(p, mode, <<b>>) \in Parser
         /\ \A b \in Byte : InMode(p, mode, Append(p.pending, b)) \in Parser
<1>1. \A bytes \in Seq(Byte) : InMode(p, mode, bytes) \in Parser
  BY InModeTyped
<1>2. <<>> \in Seq(Byte) /\ \A b \in Byte : <<b>> \in Seq(Byte)
  OBVIOUS
<1>3. p.pending \in Seq(Byte)
  BY DEF Parser
<1>4. \A b \in Byte : Append(p.pending, b) \in Seq(Byte)
  BY <1>3
<1> QED
  BY <1>1, <1>2, <1>4, Zenon

LEMMA SendsTyped ==
  ASSUME NEW p \in Parser, NEW es \in Seq(Event)
  PROVE  [p EXCEPT !.out = @ \o es] \in Parser
BY ParserFields DEF Parser

LEMMA GathersTyped ==
  ASSUME NEW p \in Parser
  PROVE  /\ [p EXCEPT !.ground = <<>>] \in Parser /\ [p EXCEPT !.out = <<>>] \in Parser
         /\ \A b \in Byte : [p EXCEPT !.ground = Append(@, b)] \in Parser
BY ParserFields DEF Parser

LEMMA EventsTyped ==
  /\ \A bytes \in Seq(Byte) : Pane(bytes) \in Event
  /\ \A c \in KeyName : CopyKey(c) \in Event
  /\ \A name \in {"EnterCopyMode", "ToggleZoom"} : Command(name) \in Event
  /\ [ev |-> "focus"] \in Event
BY DEF Event, Pane, CopyKey, Command

LEMMA FlushGroundTyped ==
  ASSUME NEW p \in Parser
  PROVE  FlushGround(p) \in Parser
<1>0. p.ground \in Seq(Byte)
  BY DEF Parser
<1>1. Pane(p.ground) \in Event
  BY <1>0, EventsTyped
<1>2. Emitted(p, Pane(p.ground)) \in Parser
  BY <1>1, EmittedTyped
<1> QED
  BY <1>2, GathersTyped DEF FlushGround

LEMMA GroundTyped ==
  ASSUME NEW p \in Parser, NEW b \in Byte, NEW copy \in BOOLEAN
  PROVE  Ground(p, b, copy) \in Parser
<1>1. FlushGround(p) \in Parser
  BY FlushGroundTyped
<1>2. b.c \in KeyName
  BY DEF Byte, KeyName
<1>3. /\ InMode(FlushGround(p), "NEsc", <<b>>) \in Parser
      /\ InMode(FlushGround(p), "Ground", <<>>) \in Parser
      /\ InMode(FlushGround(p), "Armed", <<>>) \in Parser
      /\ InMode(p, "Ground", <<>>) \in Parser
  BY <1>1, RestartTyped DEF Mode
<1>4. Emitted(InMode(FlushGround(p), "Ground", <<>>), CopyKey(b.c)) \in Parser
  BY <1>2, <1>3, EventsTyped, EmittedTyped
<1>5. [InMode(p, "Ground", <<>>) EXCEPT !.ground = Append(@, b)] \in Parser
  BY <1>3, GathersTyped
<1> QED
  BY <1>3, <1>4, <1>5 DEF Ground

LEMMA AfterEscTyped ==
  ASSUME NEW p \in Parser, NEW b \in Byte, NEW copy \in BOOLEAN
  PROVE  AfterEsc(p, b, copy) \in Parser
<1>1. p.pending \in Seq(Byte)
  BY DEF Parser
<1>2. Pane(p.pending) \in Event /\ CopyKey("esc") \in Event
  BY <1>1, EventsTyped DEF KeyName, Class
<1>3. Emitted(p, IF copy THEN CopyKey("esc") ELSE Pane(p.pending)) \in Parser
  BY <1>2, EmittedTyped
<1>4. Ground(Emitted(p, IF copy THEN CopyKey("esc") ELSE Pane(p.pending)), b, copy) \in Parser
  BY <1>3, GroundTyped
<1>5. InMode(p, "NCsi", Append(p.pending, b)) \in Parser
  BY RestartTyped DEF Mode
<1> QED
  BY <1>4, <1>5 DEF AfterEsc

LEMMA InCsiTyped ==
  ASSUME NEW p \in Parser, NEW b \in Byte, NEW copy \in BOOLEAN
  PROVE  InCsi(p, b, copy) \in Parser
<1> DEFINE got == Append(p.pending, b)
           es  == IF copy THEN CsiToCopyKey(got) ELSE <<Pane(got)>>
<1>1. p.pending \in Seq(Byte)
  BY DEF Parser
<1>2. got \in Seq(Byte)
  BY <1>1
<1>3. /\ InMode(p, "NMouse", got) \in Parser /\ InMode(p, "NCsi", got) \in Parser
      /\ InMode(p, "Ground", <<>>) \in Parser
  BY RestartTyped DEF Mode
<1>4. Emitted(p, [ev |-> "focus"]) \in Parser
  BY EventsTyped, EmittedTyped
<1>5. InMode(IF b.c = "I" THEN Emitted(p, [ev |-> "focus"]) ELSE p, "Ground", <<>>) \in Parser
  BY <1>4, RestartTyped DEF Mode
<1>6. Pane(got) \in Event /\ \A c \in KeyName : CopyKey(c) \in Event
  BY <1>2, EventsTyped
<1> HIDE DEF got
<1>7. es \in Seq(Event)
  <2> HIDE DEF Event
  <2>1. \A e \in Event : <<e>> \in Seq(Event)
    OBVIOUS
  <2>2. <<>> \in Seq(Event)
    OBVIOUS
  <2>3. CsiToCopyKey(got) \in Seq(Event)
    <3>1. \A c \in KeyName : <<CopyKey(c)>> \in Seq(Event)
      BY <1>6, <2>1
    <3> QED
      BY <2>2, <3>1 DEF CsiToCopyKey, KeyName
  <2> QED
    BY <1>6, <2>1, <2>3
<1> HIDE DEF es
<1>8. [InMode(p, "Ground", <<>>) EXCEPT !.out = @ \o es] \in Parser
  BY <1>3, <1>7, SendsTyped
<1> QED
  BY <1>3, <1>5, <1>8 DEF InCsi, got, es

LEMMA InMouseTyped ==
  ASSUME NEW p \in Parser, NEW b \in Byte, NEW copy \in BOOLEAN
  PROVE  InMouse(p, b, copy) \in Parser
<1> DEFINE got == Append(p.pending, b)
<1>1. p.pending \in Seq(Byte)
  BY DEF Parser
<1>2. got \in Seq(Byte)
  BY <1>1
<1>3. InMode(p, "NMouse", got) \in Parser /\ InMode(p, "Ground", <<>>) \in Parser
  BY RestartTyped DEF Mode
<1> HIDE DEF got
<1>4. ParseSgr(got) \in Seq(Event)
  <2>1. CASE Len(got) # 5 \/ got[4].at = NoMouse
    BY <2>1 DEF ParseSgr
  <2>2. CASE ~(Len(got) # 5 \/ got[4].at = NoMouse)
    <3> DEFINE at == got[4].at
               e  == [ev |-> "mouse", col |-> at.col, row |-> at.row,
                      kind |-> IF at.kind # "button" THEN at.kind
                               ELSE IF Last(got).c = "M" THEN "press" ELSE "release"]
    <3>1. got[4] \in Byte
      BY <1>2, <2>2
    <3>2. at.col \in Nat /\ at.row \in Nat /\ at.kind \in MouseKind
      BY <3>1 DEF Byte, MouseKind
    <3> HIDE DEF at
    <3>3. e \in Event
      BY <3>2 DEF Event, MouseKind
    <3> HIDE DEF e
    <3>4. ParseSgr(got) = <<e>>
      BY <2>2 DEF ParseSgr, e, at
    <3> HIDE DEF Event
    <3> QED
      BY <3>3, <3>4
  <2> QED
    BY <2>1, <2>2
<1>5. [InMode(p, "Ground", <<>>) EXCEPT !.out = @ \o ParseSgr(got)] \in Parser
  BY <1>3, <1>4, SendsTyped
<1>6. Ground(p, b, copy) \in Parser
  BY GroundTyped
<1> QED
  BY <1>3, <1>5, <1>6 DEF InMouse, got

LEMMA ArmedTyped ==
  ASSUME NEW p \in Parser, NEW b \in Byte, NEW copy \in BOOLEAN
  PROVE  Armed(p, b, copy) \in Parser
<1>1. p.pending \in Seq(Byte) /\ <<b>> \in Seq(Byte)
  BY DEF Parser
<1>2. Pane(<<b>>) \in Event /\ Command("EnterCopyMode") \in Event /\ Command("ToggleZoom") \in Event
  BY <1>1, EventsTyped
<1>3. ResolveKey(p, b) \in Parser
  BY <1>2, EmittedTyped DEF ResolveKey
<1>4. InMode(ResolveKey(p, b), "Ground", <<>>) \in Parser
  BY <1>3, RestartTyped DEF Mode
<1>5. Emitted(p, [ev |-> "focus"]) \in Parser
  BY EventsTyped, EmittedTyped
<1>6. InMode(IF b.c = "I" THEN Emitted(p, [ev |-> "focus"]) ELSE p, "Armed", <<>>) \in Parser
  BY <1>5, RestartTyped DEF Mode
<1>7. /\ InMode(p, "AEsc", <<b>>) \in Parser /\ InMode(p, "Ground", <<>>) \in Parser
      /\ InMode(p, "ACsi", p.pending) \in Parser /\ InMode(p, "ASs3", p.pending) \in Parser
  BY <1>1, RestartTyped, InModeTyped DEF Mode
<1>8. Ground(p, b, copy) \in Parser
  BY GroundTyped
<1> QED
  BY <1>4, <1>6, <1>7, <1>8 DEF Armed

LEMMA StepTyped ==
  ASSUME NEW p \in Parser, NEW b \in Byte, NEW copy \in BOOLEAN
  PROVE  Step(p, b, copy) \in Parser
BY GroundTyped, AfterEscTyped, InCsiTyped, InMouseTyped, ArmedTyped DEF Step

LEMMA FlushEscapeTimeoutTyped ==
  ASSUME NEW p \in Parser, NEW copy \in BOOLEAN
  PROVE  FlushEscapeTimeout(p, copy) \in Parser
<1>1. p.pending \in Seq(Byte)
  BY DEF Parser
<1>2. Pane(p.pending) \in Event /\ CopyKey("esc") \in Event
  BY <1>1, EventsTyped DEF KeyName, Class
<1>3. Emitted(p, CopyKey("esc")) \in Parser /\ Emitted(p, Pane(p.pending)) \in Parser
  BY <1>2, EmittedTyped
<1>4. \A q \in Parser : InMode(q, "Ground", <<>>) \in Parser
  BY RestartTyped DEF Mode
<1> QED
  BY <1>3, <1>4 DEF FlushEscapeTimeout

Steps(f, p, bytes, n, copy) == f[0] = p /\ \A i \in 1..n : f[i] = Step(f[i - 1], bytes[i], copy)

\* Feed is its steps, one after the other.
LEMMA FeedIs ==
  ASSUME NEW p \in Parser, NEW bytes \in Seq(Byte), NEW copy \in BOOLEAN
  PROVE  \E f \in [0..Len(bytes) -> Parser] :
           Steps(f, p, bytes, Len(bytes), copy) /\ Feed(p, bytes, copy) = FlushGround(f[Len(bytes)])
<1> DEFINE n == Len(bytes)
           Eq(f) == f = [i \in 0..n |-> IF i = 0 THEN p ELSE Step(f[i - 1], bytes[i], copy)]
           F == [x \in Parser \X (1..n) |-> Step(x[1], bytes[x[2]], copy)]
           after == CHOOSE f : Eq(f)
<1>1. n \in Nat /\ \A i \in 1..n : bytes[i] \in Byte
  OBVIOUS
<1>2. F \in [Parser \X (1..n) -> Parser]
  BY <1>1, StepTyped
<1>3. \A q \in Parser, i \in 1..n : F[<<q, i>>] = Step(q, bytes[i], copy)
  OBVIOUS
<1> HIDE DEF F, n
<1>4. PICK f \in [0..n -> Parser] : IsFold(f, p, n, F)
  BY <1>1, <1>2, FoldExists
<1>5. \A i \in 0..n : (IF i = 0 THEN p ELSE F[<<f[i - 1], i>>])
                       = IF i = 0 THEN p ELSE Step(f[i - 1], bytes[i], copy)
  <2>1. \A i \in 0..n : i # 0 => i \in 1..n /\ i - 1 \in 0..n
    BY <1>1
  <2>2. \A i \in 0..n : f[i] \in Parser
    BY <1>4
  <2> QED
    BY <1>3, <2>1, <2>2
<1>6. Eq(f)
  BY <1>4, <1>5 DEF IsFold
<1>7. Eq(after)
  BY <1>6
<1>8. Feed(p, bytes, copy) = FlushGround(after[n])
  BY DEF Feed, n
<1> DEFINE T == {i \in 0..n : after[i] \in Parser}
<1> HIDE DEF after
<1>9. 0 \in T
  BY <1>1, <1>7
<1>10. \A i \in 1..n : after[i] = Step(after[i - 1], bytes[i], copy)
  <2> SUFFICES ASSUME NEW i \in 1..n PROVE after[i] = Step(after[i - 1], bytes[i], copy)
    OBVIOUS
  <2>1. i \in 0..n /\ i # 0
    BY <1>1
  <2> QED
    BY <1>7, <2>1
<1>11. ASSUME NEW i \in 1..n, i - 1 \in T PROVE i \in T
  <2>1. i \in 0..n
    BY <1>1
  <2> QED
    BY <1>1, <1>10, <1>11, <2>1, StepTyped
<1>12. after[0] = p
  BY <1>1, <1>7
<1>17. after = [i \in 0..n |-> after[i]]
  BY <1>7
<1> HIDE DEF T
<1>13. \A i \in 1..n : i - 1 \in T => i \in T
  BY <1>11
<1>14. 0..n \subseteq T
  BY <1>1, <1>9, <1>13, Climbs, Zenon
<1>15. \A i \in 0..n : after[i] \in Parser
  BY <1>14 DEF T
<1> HIDE DEF Eq
<1>16. after \in [0..n -> Parser]
  BY <1>15, <1>17
<1>18. Steps(after, p, bytes, n, copy)
  BY <1>10, <1>12 DEF Steps
<1> QED
  BY <1>8, <1>16, <1>18 DEF n

LEMMA FeedTyped ==
  ASSUME NEW p \in Parser, NEW bytes \in Seq(Byte), NEW copy \in BOOLEAN
  PROVE  Feed(p, bytes, copy) \in Parser
<1>1. Len(bytes) \in 0..Len(bytes)
  OBVIOUS
<1> QED
  BY <1>1, FeedIs, FlushGroundTyped

-----------------------------------------------------------------------------
(* The screen                                                              *)

Screens == [first : Nat, total : Nat, rows : Nat, top : Nat \cup {Live}]

ScreenOk(s) ==
  /\ s \in Screens
  /\ 1 <= s.rows /\ s.rows <= s.total /\ s.total <= s.rows + Scrollback
  /\ s.top # Live => s.top <= LiveTop(s)

LEMMA MinusIs ==
  ASSUME NEW a \in Int, NEW b \in Int
  PROVE  Minus(a, b) \in Nat /\ Minus(a, b) = IF a > b THEN a - b ELSE 0
BY DEF Minus

LEMMA ScreenFacts ==
  ASSUME NEW s, ScreenOk(s)
  PROVE  /\ s.first \in Nat /\ s.total \in Nat /\ s.rows \in Nat /\ 1 <= s.rows
         /\ LiveTop(s) \in Nat /\ s.first <= LiveTop(s)
         /\ LiveTop(s) = s.first + s.total - s.rows
         /\ TopRow(s) \in Nat /\ s.first <= TopRow(s) /\ TopRow(s) <= LiveTop(s)
         /\ ScrollbackRows(s) \in Nat /\ ScrollbackRows(s) = s.total - s.rows
         /\ ViewportOffset(s) \in Nat /\ ViewportOffset(s) <= ScrollbackRows(s)
         /\ ViewportOffset(s) = LiveTop(s) - TopRow(s)
<1>1. s.first \in Nat /\ s.total \in Nat /\ s.rows \in Nat /\ s.top \in Nat \cup {Live}
  BY DEF ScreenOk, Screens
<1>2. 1 <= s.rows /\ s.rows <= s.total /\ (s.top # Live => s.top <= LiveTop(s))
  BY DEF ScreenOk
<1>3. LiveTop(s) = s.first + s.total - s.rows /\ LiveTop(s) \in Nat /\ s.first <= LiveTop(s)
  BY <1>1, <1>2 DEF LiveTop
<1>4. TopRow(s) \in Nat /\ s.first <= TopRow(s) /\ TopRow(s) <= LiveTop(s)
  <2>1. CASE s.top = Live
    BY <2>1, <1>3 DEF TopRow
  <2>2. CASE s.top # Live
    <3>1. s.top \in Nat
      BY <1>1, <2>2
    <3>2. Max({s.top, s.first}) = IF s.top >= s.first THEN s.top ELSE s.first
      BY <3>1, <1>1, MaxOfTwo
    <3> QED
      BY <3>1, <3>2, <2>2, <1>1, <1>2, <1>3 DEF TopRow
  <2> QED
    BY <2>1, <2>2
<1> QED
  BY <1>1, <1>2, <1>3, <1>4 DEF ScrollbackRows, ViewportOffset

\* The viewport at row t.
LEMMA HeldFacts ==
  ASSUME NEW s, ScreenOk(s), NEW t \in Int
  PROVE  LET r == HeldAt(s, t)
         IN  /\ ScreenOk(r) /\ r.total = s.total /\ r.rows = s.rows
             /\ ViewportOffset(r) = IF t >= LiveTop(s) THEN 0
                                    ELSE IF t >= s.first THEN LiveTop(s) - t
                                    ELSE ScrollbackRows(s)
<1> DEFINE m == IF t >= s.first THEN t ELSE s.first
           v == IF t >= LiveTop(s) THEN Live ELSE m
           r == [s EXCEPT !.top = v]
<1>1. s \in Screens /\ s.first \in Nat /\ LiveTop(s) \in Nat /\ s.first <= LiveTop(s)
  BY ScreenFacts DEF ScreenOk
<1>2. Max({t, s.first}) = m
  BY <1>1, MaxOfTwo
<1>3. HeldAt(s, t) = r
  BY <1>2 DEF HeldAt
<1>4. m \in Nat /\ (t < LiveTop(s) => m <= LiveTop(s))
  BY <1>1
<1>5. v \in Nat \cup {Live} /\ (v # Live => v = m /\ t < LiveTop(s))
  BY <1>4, <1>1
<1> HIDE DEF v, m
<1>6. r \in Screens /\ r.first = s.first /\ r.total = s.total /\ r.rows = s.rows /\ r.top = v
  BY <1>1, <1>5 DEF Screens
<1> HIDE DEF r
<1>7. LiveTop(r) = LiveTop(s)
  BY <1>6 DEF LiveTop
<1>8. ScreenOk(r)
  BY <1>4, <1>5, <1>6, <1>7 DEF ScreenOk
<1>9. ViewportOffset(r) = IF t >= LiveTop(s) THEN 0
                          ELSE IF t >= s.first THEN LiveTop(s) - t ELSE ScrollbackRows(s)
  <2>1. CASE t >= LiveTop(s)
    <3>1. v = Live
      BY <2>1 DEF v
    <3> QED
      BY <3>1, <2>1, <1>1, <1>6, <1>7 DEF ViewportOffset, TopRow
  <2>2. CASE ~(t >= LiveTop(s))
    <3>1. v = m /\ m \in Nat /\ m # Live /\ m >= s.first
      BY <2>2, <1>1, <1>4 DEF v, m, Live
    <3>2. Max({v, s.first}) = m
      BY <3>1, <1>1, MaxOfTwo
    <3>3. TopRow(r) = m
      BY <3>1, <3>2, <1>6 DEF TopRow
    <3>4. ViewportOffset(r) = LiveTop(s) - m
      BY <3>3, <1>7 DEF ViewportOffset
    <3>5. ScrollbackRows(s) = LiveTop(s) - s.first
      BY ScreenFacts
    <3> QED
      BY <3>4, <3>5, <2>2 DEF m
  <2> QED
    BY <2>1, <2>2
<1> QED
  BY <1>3, <1>6, <1>8, <1>9

LEMMA ScrollBottomFacts ==
  ASSUME NEW s, ScreenOk(s)
  PROVE  LET r == ScrollBottom(s)
         IN  ScreenOk(r) /\ r.total = s.total /\ r.rows = s.rows /\ ViewportOffset(r) = 0
<1> DEFINE r == [s EXCEPT !.top = Live]
<1>1. s \in Screens /\ LiveTop(s) \in Nat
  BY ScreenFacts DEF ScreenOk
<1>2. r \in Screens /\ r.first = s.first /\ r.total = s.total /\ r.rows = s.rows /\ r.top = Live
  BY <1>1 DEF Screens
<1> HIDE DEF r
<1>3. LiveTop(r) = LiveTop(s)
  BY <1>2 DEF LiveTop
<1>4. ScreenOk(r)
  BY <1>2 DEF ScreenOk
<1>5. ViewportOffset(r) = 0
  BY <1>1, <1>2, <1>3 DEF ViewportOffset, TopRow
<1> QED
  BY <1>2, <1>4, <1>5 DEF ScrollBottom, r

LEMMA ScrollTopFacts ==
  ASSUME NEW s, ScreenOk(s)
  PROVE  LET r == ScrollTop(s)
         IN  /\ ScreenOk(r) /\ r.total = s.total /\ r.rows = s.rows
             /\ ViewportOffset(r) = ScrollbackRows(s)
<1>1. /\ s.first \in Nat /\ LiveTop(s) \in Nat /\ s.first <= LiveTop(s)
      /\ ScrollbackRows(s) = LiveTop(s) - s.first
  BY ScreenFacts
<1>2. s.first \in Int
  BY <1>1
<1>3. LET r == HeldAt(s, s.first)
      IN  /\ ScreenOk(r) /\ r.total = s.total /\ r.rows = s.rows
          /\ ViewportOffset(r) = IF s.first >= LiveTop(s) THEN 0
                                 ELSE IF s.first >= s.first THEN LiveTop(s) - s.first
                                 ELSE ScrollbackRows(s)
  BY <1>2, HeldFacts
<1> QED
  BY <1>1, <1>3 DEF ScrollTop

\* d rows down, as far as the view can go.
LEMMA ScrollDeltaFacts ==
  ASSUME NEW s, ScreenOk(s), NEW d \in Int
  PROVE  LET r == ScrollDelta(s, d)
         IN  /\ ScreenOk(r) /\ r.total = s.total /\ r.rows = s.rows
             /\ ViewportOffset(s) - d \in 0..ScrollbackRows(s)
                  => ViewportOffset(r) = ViewportOffset(s) - d
<1>1. /\ s.first \in Nat /\ LiveTop(s) \in Nat /\ TopRow(s) \in Nat
      /\ ScrollbackRows(s) = LiveTop(s) - s.first
      /\ ViewportOffset(s) = LiveTop(s) - TopRow(s)
  BY ScreenFacts
<1>2. TopRow(s) + d \in Int
  BY <1>1
<1>3. LET r == HeldAt(s, TopRow(s) + d)
      IN  /\ ScreenOk(r) /\ r.total = s.total /\ r.rows = s.rows
          /\ ViewportOffset(r) = IF TopRow(s) + d >= LiveTop(s) THEN 0
                                 ELSE IF TopRow(s) + d >= s.first THEN LiveTop(s) - (TopRow(s) + d)
                                 ELSE ScrollbackRows(s)
  BY <1>2, HeldFacts
<1> QED
  BY <1>1, <1>3 DEF ScrollDelta

LEMMA FedOk ==
  ASSUME NEW s, ScreenOk(s)
  PROVE  ScreenOk(Fed(s))
<1> USE ScreenAssumption
<1>1. /\ s \in Screens /\ s.first \in Nat /\ s.total \in Nat /\ s.rows \in Nat /\ 1 <= s.rows
      /\ s.rows <= s.total /\ s.total <= s.rows + Scrollback
      /\ s.top \in Nat \cup {Live}
      /\ s.top # Live => s.top <= s.first + s.total - s.rows
  BY DEF ScreenOk, Screens, LiveTop
<1>2. CASE s.total < s.rows + Scrollback
  <2> DEFINE r == [s EXCEPT !.total = @ + 1]
  <2>1. r \in Screens /\ r.first = s.first /\ r.total = s.total + 1 /\ r.rows = s.rows /\ r.top = s.top
    BY <1>1 DEF Screens
  <2>2. Fed(s) = r
    BY <1>2 DEF Fed
  <2> HIDE DEF r
  <2> QED
    BY <1>1, <1>2, <2>1, <2>2 DEF ScreenOk, LiveTop, Live
<1>3. CASE ~(s.total < s.rows + Scrollback)
  <2> DEFINE r == [s EXCEPT !.first = @ + 1]
  <2>1. r \in Screens /\ r.first = s.first + 1 /\ r.total = s.total /\ r.rows = s.rows /\ r.top = s.top
    BY <1>1 DEF Screens
  <2>2. Fed(s) = r
    BY <1>3 DEF Fed
  <2> HIDE DEF r
  <2> QED
    BY <1>1, <1>3, <2>1, <2>2 DEF ScreenOk, LiveTop, Live
<1> QED
  BY <1>2, <1>3

LEMMA FreshOk ==
  ASSUME NEW rows \in Nat, 1 <= rows
  PROVE  ScreenOk(FreshScreen(rows))
<1> USE ScreenAssumption
<1> DEFINE s == FreshScreen(rows)
<1>1. s \in Screens /\ s.first = 0 /\ s.total = rows /\ s.rows = rows /\ s.top = Live
  BY DEF FreshScreen, Screens
<1> HIDE DEF s
<1>2. ScreenOk(s)
  BY <1>1 DEF ScreenOk
<1> QED
  BY <1>2 DEF s

LEMMA ResizedOk ==
  ASSUME NEW s, ScreenOk(s), NEW rows \in Nat, 1 <= rows
  PROVE  ScreenOk(Resized(s, rows))
<1> USE ScreenAssumption
<1> DEFINE all  == IF s.total >= rows THEN s.total ELSE rows
           kept == IF all <= rows + Scrollback THEN all ELSE rows + Scrollback
           gone == IF all > rows + Scrollback THEN all - (rows + Scrollback) ELSE 0
           t    == [s EXCEPT !.rows = rows, !.total = all]
           u    == [t EXCEPT !.total = kept, !.first = @ + gone]
           v    == [u EXCEPT !.top = Live]
<1>1. /\ s \in Screens /\ s.first \in Nat /\ s.total \in Nat /\ s.rows \in Nat
      /\ s.top \in Nat \cup {Live}
  BY DEF ScreenOk, Screens
<1>2. all \in Nat /\ rows <= all
  BY <1>1
<1>3. Max({s.total, rows}) = all
  BY <1>1, MaxOfTwo
<1> HIDE DEF all
<1>4. Min({all, rows + Scrollback}) = kept
  BY <1>2, MinOfTwo
<1>5. Minus(all, rows + Scrollback) = gone
  BY <1>2 DEF Minus, gone
<1>6. kept \in Nat /\ gone \in Nat /\ rows <= kept /\ kept <= rows + Scrollback
  BY <1>2
<1> HIDE DEF kept, gone
<1>7. t \in Screens /\ t.first = s.first /\ t.total = all /\ t.rows = rows /\ t.top = s.top
  BY <1>1, <1>2 DEF Screens
<1>8. Resized(s, rows) = IF s.top = Live THEN u ELSE HeldAt(u, s.top)
  <2>1. t = [s EXCEPT !.rows = rows, !.total = Max({@, rows})]
    BY <1>3
  <2> HIDE DEF t
  <2>2. u = [t EXCEPT !.total = Min({@, rows + Scrollback}),
                      !.first = @ + Minus(t.total, rows + Scrollback)]
    BY <1>4, <1>5, <1>7
  <2> HIDE DEF u
  <2> QED
    BY <2>1, <2>2 DEF Resized
<1> HIDE DEF t
<1>12. t.first + gone \in Nat
  BY <1>1, <1>6, <1>7
<1>9. u \in Screens /\ u.first = s.first + gone /\ u.total = kept /\ u.rows = rows /\ u.top = s.top
  BY <1>1, <1>6, <1>7, <1>12 DEF Screens
<1> HIDE DEF u
<1>10. CASE s.top = Live
  <2>1. ScreenOk(u)
    BY <1>6, <1>9, <1>10 DEF ScreenOk
  <2> QED
    BY <1>8, <1>10, <2>1
<1>11. CASE s.top # Live
  \* Where the viewport was does not matter to where it is put.
  <2>1. v \in Screens /\ v.first = u.first /\ v.total = kept /\ v.rows = rows /\ v.top = Live
    BY <1>9 DEF Screens
  <2>2. HeldAt(v, s.top) = HeldAt(u, s.top)
    <3>1. LiveTop(v) = LiveTop(u)
      BY <1>9, <2>1 DEF LiveTop
    <3>2. \A x : [v EXCEPT !.top = x] = [u EXCEPT !.top = x]
      BY <1>9 DEF Screens
    <3> HIDE DEF v
    <3> QED
      BY <2>1, <3>1, <3>2 DEF HeldAt
  <2> HIDE DEF v
  <2>3. ScreenOk(v)
    BY <1>6, <2>1 DEF ScreenOk
  <2>4. s.top \in Int
    BY <1>1, <1>11
  <2>5. ScreenOk(HeldAt(v, s.top))
    BY <2>3, <2>4, HeldFacts
  <2> QED
    BY <1>8, <1>11, <2>2, <2>5
<1> QED
  BY <1>10, <1>11

-----------------------------------------------------------------------------
(* Selections                                                              *)

Point     == [x : Nat, y : Nat]
Selection == [anchor : Point, head : Point]
Cells     == SUBSET (Int \X Int)

LEMMA NormalizedTyped ==
  ASSUME NEW sel \in Selection
  PROVE  Normalized(sel) \in Selection /\ Normalized(sel).anchor \in Point
         /\ Normalized(sel).head \in Point
<1>1. Normalized(sel) \in Selection
  BY DEF Normalized, Selection
<1> QED
  BY <1>1 DEF Selection

LEMMA SpanTyped ==
  ASSUME NEW a \in Point, NEW b \in Point, NEW origin \in Int
  PROVE  Span(a, b, origin) \in Cells
<1> USE ScreenAssumption
<1>1. a.y \in Nat /\ b.y \in Nat
  BY DEF Point
<1>2. {<<origin + y, x>> : y \in a.y..b.y, x \in 0..Cols - 1} \subseteq Int \X Int
  BY <1>1
<1> QED
  BY <1>2 DEF Span, Cells

\* What is in view of a selection.
LEMMA ClipFacts ==
  ASSUME NEW s, ScreenOk(s), NEW offset \in Nat, NEW sel \in Selection
  PROVE  LET clip == ClipSelection(s, offset, sel)
         IN  \/ clip = <<>>
             \/ /\ clip # <<>>
                /\ clip[1] \in Point /\ clip[2] \in Point
                /\ clip[1].y < s.rows /\ clip[2].y < s.rows
<1> USE ScreenAssumption
<1> DEFINE n   == Normalized(sel)
           top == ViewTop(s, offset)
           At1(p, otherwise) == IF InView(s, offset, p.y) THEN [x |-> p.x, y |-> p.y - top] ELSE otherwise
           a == At1(n.anchor, [x |-> 0, y |-> 0])
           b == At1(n.head, [x |-> Cols - 1, y |-> s.rows - 1])
<1>1. n.anchor \in Point /\ n.head \in Point
  BY NormalizedTyped
<1>2. s.rows \in Nat /\ s.total \in Nat /\ 1 <= s.rows
  BY ScreenFacts
<1>3. top \in Nat
  <2>1. Minus(s.total, s.rows) \in Nat
    BY <1>2 DEF Minus
  <2>2. \A m \in Nat : Minus(m, offset) \in Nat
    BY DEF Minus
  <2> QED
    BY <2>1, <2>2 DEF ViewTop
<1>4. \A p \in Point : InView(s, offset, p.y) =>
        [x |-> p.x, y |-> p.y - top] \in Point /\ p.y - top < s.rows
  <2> SUFFICES ASSUME NEW p \in Point, InView(s, offset, p.y)
               PROVE  [x |-> p.x, y |-> p.y - top] \in Point /\ p.y - top < s.rows
    OBVIOUS
  <2>1. p.x \in Nat /\ p.y \in Nat
    BY DEF Point
  <2>2. p.y \in top..top + s.rows - 1
    BY DEF InView
  <2> HIDE DEF top
  <2>3. p.y - top \in Nat /\ p.y - top < s.rows
    BY <1>2, <1>3, <2>1, <2>2
  <2> QED
    BY <2>1, <2>3 DEF Point
<1>5. /\ [x |-> 0, y |-> 0] \in Point
      /\ [x |-> Cols - 1, y |-> s.rows - 1] \in Point
  BY <1>2 DEF Point
<1> HIDE DEF n, top
<1>6. a \in Point /\ a.y < s.rows
  BY <1>1, <1>2, <1>4, <1>5
<1>7. b \in Point /\ b.y < s.rows
  BY <1>1, <1>2, <1>4, <1>5
<1>8. ClipSelection(s, offset, sel) = IF n.head.y < top \/ n.anchor.y > top + s.rows - 1 THEN <<>>
                                      ELSE <<a, b>>
  BY DEF ClipSelection, n, top
<1> HIDE DEF a, b
<1>9. <<a, b>> # <<>> /\ <<a, b>>[1] = a /\ <<a, b>>[2] = b
  OBVIOUS
<1> QED
  BY <1>6, <1>7, <1>8, <1>9

\* A span moves with its coordinates.
LEMMA SpanShifts ==
  ASSUME NEW a \in Point, NEW b \in Point, NEW origin \in Int, NEW d \in Nat
  PROVE  Span([x |-> a.x, y |-> d + a.y], [x |-> b.x, y |-> d + b.y], origin)
           = Span(a, b, origin + d)
<1> USE ScreenAssumption
<1> DEFINE P(lo, hi, o) == {<<o + y, x>> : y \in lo..hi, x \in 0..Cols - 1}
<1>1. a.y \in Nat /\ b.y \in Nat /\ a.x \in Nat /\ b.x \in Nat
  BY DEF Point
<1>2. P(d + a.y, d + b.y, origin) = P(a.y, b.y, origin + d)
  <2>1. ASSUME NEW y \in d + a.y..d + b.y
        PROVE  y - d \in a.y..b.y /\ origin + y = origin + d + (y - d)
    BY <1>1
  <2>2. ASSUME NEW y \in a.y..b.y
        PROVE  d + y \in d + a.y..d + b.y /\ origin + (d + y) = origin + d + y
    BY <1>1
  <2> QED
    BY <2>1, <2>2
<1>3. origin + (d + a.y) = origin + d + a.y /\ origin + (d + b.y) = origin + d + b.y
  BY <1>1
<1> HIDE DEF P
<1> QED
  BY <1>2, <1>3 DEF Span, P

\* What is copied is what is shown, where copy mode believes the view to be where it is.
LEMMA YankedIsHighlighted ==
  ASSUME NEW s, ScreenOk(s), NEW sel \in Selection
  PROVE  Yanked(s, ViewportOffset(s), sel) = Highlighted(s, ViewportOffset(s), sel)
<1> DEFINE offset == ViewportOffset(s)
           clip == ClipSelection(s, offset, sel)
           top  == ViewTop(s, offset)
<1>1. /\ s.first \in Nat /\ s.total \in Nat /\ s.rows \in Nat /\ offset \in Nat
      /\ LiveTop(s) = s.first + s.total - s.rows
      /\ offset <= s.total - s.rows /\ s.total - s.rows \in Nat
      /\ offset = LiveTop(s) - TopRow(s) /\ TopRow(s) \in Nat /\ LiveTop(s) \in Nat
  BY ScreenFacts
<1> HIDE DEF offset
<1>2. top = s.total - s.rows - offset /\ top \in Nat /\ s.first + top = TopRow(s)
  <2>1. Minus(s.total, s.rows) = s.total - s.rows
    BY <1>1 DEF Minus
  <2>2. Minus(s.total - s.rows, offset) = s.total - s.rows - offset
    BY <1>1, MinusIs
  <2>3. top = s.total - s.rows - offset
    BY <2>1, <2>2 DEF ViewTop
  <2> HIDE DEF top
  <2> QED
    BY <1>1, <2>3
<1>3. CASE clip = <<>>
  BY <1>3 DEF Yanked, Highlighted, offset
<1>4. CASE clip # <<>>
  <2>1. clip[1] \in Point /\ clip[2] \in Point /\ clip[1].y < s.rows /\ clip[2].y < s.rows
    BY <1>1, <1>4, ClipFacts
  <2> DEFINE a == [x |-> clip[1].x, y |-> top + clip[1].y]
             b == [x |-> clip[2].x, y |-> top + clip[2].y]
  <2>2. a = Unproject(s, offset, clip[1]) /\ b = Unproject(s, offset, clip[2])
    BY DEF Unproject
  <2>3. clip[1].y \in Nat /\ clip[2].y \in Nat
    BY <2>1 DEF Point
  <2> HIDE DEF clip, top
  <2>4. top + clip[1].y \in 0..s.total - 1 /\ top + clip[2].y \in 0..s.total - 1
    BY <1>1, <1>2, <2>1, <2>3
  <2>5. SelectionText(s, a, b) = Span(a, b, s.first)
    BY <2>4 DEF SelectionText
  <2>6. Span(a, b, s.first) = Span(clip[1], clip[2], s.first + top)
    BY <2>1, <1>1, <1>2, SpanShifts
  <2>7. Yanked(s, offset, sel) = SelectionText(s, a, b)
    BY <1>4, <2>2 DEF Yanked, clip
  <2>8. Highlighted(s, offset, sel) = Span(clip[1], clip[2], TopRow(s))
    BY <1>4 DEF Highlighted, clip
  <2> QED
    BY <1>2, <2>5, <2>6, <2>7, <2>8 DEF offset
<1> QED
  BY <1>3, <1>4

-----------------------------------------------------------------------------
(* Copy mode                                                               *)

Copies == [cursor : Point, offset : Nat, sel : Selection \cup {None},
           dragging : BOOLEAN, mouse : BOOLEAN]

\* Copy mode is where the pane is; the ends of its selection are looked after by Clamped.
Placed(c, s) ==
  /\ c.offset = ViewportOffset(s)
  /\ c.cursor.x < Cols /\ c.cursor.y < s.rows

\* What an operation on c and s may return.
Keeps(a, c, s) ==
  /\ a.cm \in Copies
  /\ ScreenOk(a.scr) /\ a.scr.total = s.total /\ a.scr.rows = s.rows
  /\ Placed(c, s) => Placed(a.cm, a.scr)

\* What a field of copy mode may be given, whatever the selections are.
LEMMA CopyFields ==
  ASSUME NEW Ss, NEW c \in [cursor : Point, offset : Nat, sel : Ss,
                            dragging : BOOLEAN, mouse : BOOLEAN]
  PROVE  LET Cs == [cursor : Point, offset : Nat, sel : Ss, dragging : BOOLEAN, mouse : BOOLEAN]
         IN  /\ c.cursor \in Point /\ c.offset \in Nat /\ c.sel \in Ss
             /\ \A o \in Nat : /\ [c EXCEPT !.offset = o] \in Cs
                               /\ [c EXCEPT !.offset = o].offset = o
                               /\ [c EXCEPT !.offset = o].cursor = c.cursor
             /\ \A q \in Point : /\ [c EXCEPT !.cursor = q] \in Cs
                                 /\ [c EXCEPT !.cursor = q].offset = c.offset
                                 /\ [c EXCEPT !.cursor = q].cursor = q
             /\ \A sel \in Ss : /\ [c EXCEPT !.sel = sel] \in Cs
                                /\ [c EXCEPT !.sel = sel].offset = c.offset
                                /\ [c EXCEPT !.sel = sel].cursor = c.cursor
                                /\ [c EXCEPT !.sel = sel].sel = sel
             /\ \A d \in BOOLEAN : /\ [c EXCEPT !.dragging = d] \in Cs
                                   /\ [c EXCEPT !.dragging = d].offset = c.offset
                                   /\ [c EXCEPT !.dragging = d].cursor = c.cursor
             /\ \A m \in BOOLEAN : /\ [c EXCEPT !.mouse = m] \in Cs
                                   /\ [c EXCEPT !.mouse = m].offset = c.offset
                                   /\ [c EXCEPT !.mouse = m].cursor = c.cursor
OBVIOUS

LEMMA CopyTyped ==
  ASSUME NEW c \in Copies
  PROVE  /\ c.cursor \in Point /\ c.offset \in Nat /\ c.sel \in Selection \cup {None}
         /\ c.cursor.x \in Nat /\ c.cursor.y \in Nat
         /\ c.sel # None => c.sel \in Selection
BY CopyFields DEF Copies, Point

LEMMA AtOffset ==
  ASSUME NEW c \in Copies, NEW o \in Nat
  PROVE  LET r == [c EXCEPT !.offset = o]
         IN  r \in Copies /\ r.offset = o /\ r.cursor = c.cursor
BY CopyFields DEF Copies

LEMMA AtCursor ==
  ASSUME NEW c \in Copies, NEW q \in Point
  PROVE  LET r == [c EXCEPT !.cursor = q]
         IN  r \in Copies /\ r.offset = c.offset /\ r.cursor = q
BY CopyFields DEF Copies

LEMMA WithSelection ==
  ASSUME NEW c \in Copies, NEW sel \in Selection \cup {None}
  PROVE  LET r == [c EXCEPT !.sel = sel]
         IN  r \in Copies /\ r.offset = c.offset /\ r.cursor = c.cursor /\ r.sel = sel
BY CopyFields DEF Copies

LEMMA WithDragging ==
  ASSUME NEW c \in Copies, NEW d \in BOOLEAN
  PROVE  LET r == [c EXCEPT !.dragging = d]
         IN  r \in Copies /\ r.offset = c.offset /\ r.cursor = c.cursor
BY CopyFields DEF Copies

LEMMA WithMouse ==
  ASSUME NEW c \in Copies, NEW m \in BOOLEAN
  PROVE  LET r == [c EXCEPT !.mouse = m]
         IN  r \in Copies /\ r.offset = c.offset /\ r.cursor = c.cursor
BY CopyFields DEF Copies

LEMMA HereTyped ==
  ASSUME NEW c \in Copies, NEW s, ScreenOk(s)
  PROVE  Here(c, s) \in Point
<1>1. c.cursor.x \in Nat /\ c.cursor.y \in Nat /\ c.offset \in Nat
  BY CopyTyped
<1>2. s.total \in Nat /\ s.rows \in Nat
  BY ScreenFacts
<1>3. Minus(s.total, s.rows) \in Nat
  BY <1>2 DEF Minus
<1>4. \A m \in Nat : Minus(m, c.offset) \in Nat
  BY <1>1 DEF Minus
<1>5. ViewTop(s, c.offset) \in Nat
  BY <1>3, <1>4 DEF ViewTop
<1> QED
  BY <1>1, <1>5 DEF Here, Unproject, Point

\* The head of the selection goes where the cursor is.
LEMMA HeadAtFacts ==
  ASSUME NEW c \in Copies, NEW s, ScreenOk(s)
  PROVE  /\ HeadAt(c, s) \in Copies
         /\ HeadAt(c, s).offset = c.offset /\ HeadAt(c, s).cursor = c.cursor
<1>1. CASE c.sel = None
  BY <1>1 DEF HeadAt
<1>2. CASE c.sel # None
  <2> DEFINE h == Here(c, s)
             sel == [c.sel EXCEPT !.head = h]
  <2>1. h \in Point /\ c.sel \in Selection
    BY <1>2, HereTyped, CopyTyped
  <2> HIDE DEF h
  <2>2. sel \in Selection
    BY <2>1 DEF Selection
  <2> HIDE DEF sel
  <2>3. LET r == [c EXCEPT !.sel = sel]
        IN  r \in Copies /\ r.offset = c.offset /\ r.cursor = c.cursor
    BY <2>2, WithSelection
  <2>4. HeadAt(c, s) = [c EXCEPT !.sel = sel]
    BY <1>2 DEF HeadAt, sel, h
  <2> QED
    BY <2>3, <2>4
<1> QED
  BY <1>1, <1>2

LEMMA ClampedFacts ==
  ASSUME NEW c \in Copies, NEW s, ScreenOk(s)
  PROVE  LET r == Clamped(c, s)
         IN  /\ r \in Copies /\ r.offset = c.offset /\ r.cursor = c.cursor
             /\ r.sel # None => r.sel.anchor.y < s.total /\ r.sel.head.y < s.total
<1> USE ScreenAssumption
<1>1. CASE c.sel = None
  BY <1>1 DEF Clamped
<1>2. CASE c.sel # None
  <2> DEFINE C(p) == [x |-> Min({p.x, Cols - 1}), y |-> Min({p.y, Minus(s.total, 1)})]
             a == C(c.sel.anchor)
             b == C(c.sel.head)
             sel == [anchor |-> a, head |-> b]
  <2>1. c.sel.anchor \in Point /\ c.sel.head \in Point
    BY <1>2, CopyTyped DEF Selection
  <2>2. s.total \in Nat /\ 1 <= s.total
    BY ScreenFacts DEF ScreenOk
  <2>3. Minus(s.total, 1) \in Nat /\ Minus(s.total, 1) < s.total
    BY <2>2 DEF Minus
  <2>4. \A m, k \in Nat : Min({m, k}) \in Nat /\ Min({m, k}) <= k
    BY MinOfTwo
  <2>5. ASSUME NEW p \in Point PROVE C(p) \in Point /\ C(p).y < s.total
    <3>1. p.x \in Nat /\ p.y \in Nat /\ Cols - 1 \in Nat
      BY DEF Point
    <3>2. Min({p.x, Cols - 1}) \in Nat /\ Min({p.y, Minus(s.total, 1)}) \in Nat
          /\ Min({p.y, Minus(s.total, 1)}) <= Minus(s.total, 1)
      BY <2>3, <2>4, <3>1
    <3> QED
      BY <2>2, <2>3, <3>2 DEF Point
  <2>6. a \in Point /\ a.y < s.total /\ b \in Point /\ b.y < s.total
    BY <2>1, <2>5
  <2>7. ClampedToScreen(s, c.sel) = sel
    BY DEF ClampedToScreen
  <2> HIDE DEF a, b
  <2>8. sel \in Selection /\ sel.anchor.y < s.total /\ sel.head.y < s.total
    BY <2>6 DEF Selection
  <2> HIDE DEF sel
  <2>9. LET r == [c EXCEPT !.sel = sel]
        IN  r \in Copies /\ r.offset = c.offset /\ r.cursor = c.cursor /\ r.sel = sel
    BY <2>8, WithSelection
  <2>10. Clamped(c, s) = [c EXCEPT !.sel = sel]
    BY <1>2, <2>7 DEF Clamped
  <2> QED
    BY <2>8, <2>9, <2>10
<1> QED
  BY <1>1, <1>2

LEMMA StayKeeps ==
  ASSUME NEW c \in Copies, NEW s, ScreenOk(s)
  PROVE  Keeps(Stay(c, s), c, s)
BY DEF Keeps, Stay

LEMMA UpKeeps ==
  ASSUME NEW c \in Copies, NEW s, ScreenOk(s), NEW n \in Nat
  PROVE  Keeps(Up(c, s, n), c, s)
<1> DEFINE room == Minus(ScrollbackRows(s), c.offset)
           k == IF n <= room THEN n ELSE room
           d == [c EXCEPT !.offset = @ + k]
           t == IF k = 0 THEN s ELSE ScrollDelta(s, -k)
<1>1. c.offset \in Nat /\ ScrollbackRows(s) \in Nat /\ ViewportOffset(s) \in Nat
      /\ ViewportOffset(s) <= ScrollbackRows(s)
  BY CopyTyped, ScreenFacts
<1>2. room \in Nat /\ room = IF ScrollbackRows(s) > c.offset THEN ScrollbackRows(s) - c.offset ELSE 0
  BY <1>1 DEF Minus
<1>3. Min({n, room}) = k
  BY <1>2, MinOfTwo
<1>4. Up(c, s, n) = [cm |-> d, scr |-> t]
  BY <1>3 DEF Up
<1> HIDE DEF room
<1>5. k \in Nat /\ k <= room
  BY <1>2
<1> HIDE DEF k
<1>6. d \in Copies /\ d.offset = c.offset + k /\ d.cursor = c.cursor
  BY <1>1, <1>5, AtOffset
<1>7. -k \in Int
  BY <1>5
<1>8. /\ ScreenOk(t) /\ t.total = s.total /\ t.rows = s.rows
      /\ c.offset = ViewportOffset(s) => ViewportOffset(t) = c.offset + k
  <2>1. CASE k = 0
    BY <2>1, <1>1
  <2>2. CASE k # 0
    <3> DEFINE r == ScrollDelta(s, -k)
    <3>1. /\ ScreenOk(r) /\ r.total = s.total /\ r.rows = s.rows
          /\ ViewportOffset(s) - (-k) \in 0..ScrollbackRows(s)
               => ViewportOffset(r) = ViewportOffset(s) - (-k)
      BY <1>7, ScrollDeltaFacts
    <3>2. t = r
      BY <2>2
    <3> HIDE DEF r, t
    <3>3. c.offset = ViewportOffset(s) =>
             /\ ViewportOffset(s) - (-k) \in 0..ScrollbackRows(s)
             /\ ViewportOffset(s) - (-k) = c.offset + k
      BY <1>1, <1>2, <1>5
    <3> QED
      BY <3>1, <3>2, <3>3
  <2> QED
    BY <2>1, <2>2
<1> HIDE DEF d, t
<1>9. [cm |-> d, scr |-> t].cm = d /\ [cm |-> d, scr |-> t].scr = t
  OBVIOUS
<1> QED
  BY <1>4, <1>6, <1>8, <1>9 DEF Keeps, Placed

LEMMA DownKeeps ==
  ASSUME NEW c \in Copies, NEW s, ScreenOk(s), NEW n \in Nat
  PROVE  Keeps(Down(c, s, n), c, s)
<1> DEFINE k == IF n <= c.offset THEN n ELSE c.offset
           d == [c EXCEPT !.offset = @ - k]
           t == IF k = 0 THEN s ELSE ScrollDelta(s, k)
<1>1. c.offset \in Nat /\ ScrollbackRows(s) \in Nat /\ ViewportOffset(s) \in Nat
      /\ ViewportOffset(s) <= ScrollbackRows(s)
  BY CopyTyped, ScreenFacts
<1>3. Min({n, c.offset}) = k
  BY <1>1, MinOfTwo
<1>4. Down(c, s, n) = [cm |-> d, scr |-> t]
  BY <1>3 DEF Down
<1>5. k \in Nat /\ k <= c.offset /\ c.offset - k \in Nat
  BY <1>1
<1> HIDE DEF k
<1>6. d \in Copies /\ d.offset = c.offset - k /\ d.cursor = c.cursor
  BY <1>5, AtOffset
<1>7. k \in Int
  BY <1>5
<1>8. /\ ScreenOk(t) /\ t.total = s.total /\ t.rows = s.rows
      /\ c.offset = ViewportOffset(s) => ViewportOffset(t) = c.offset - k
  <2>1. CASE k = 0
    BY <2>1, <1>1
  <2>2. CASE k # 0
    <3> DEFINE r == ScrollDelta(s, k)
    <3>1. /\ ScreenOk(r) /\ r.total = s.total /\ r.rows = s.rows
          /\ ViewportOffset(s) - k \in 0..ScrollbackRows(s)
               => ViewportOffset(r) = ViewportOffset(s) - k
      BY <1>7, ScrollDeltaFacts
    <3>2. t = r
      BY <2>2
    <3> HIDE DEF r, t
    <3>3. c.offset = ViewportOffset(s) =>
             /\ ViewportOffset(s) - k \in 0..ScrollbackRows(s)
             /\ ViewportOffset(s) - k = c.offset - k
      BY <1>1, <1>5
    <3> QED
      BY <3>1, <3>2, <3>3
  <2> QED
    BY <2>1, <2>2
<1> HIDE DEF d, t
<1>9. [cm |-> d, scr |-> t].cm = d /\ [cm |-> d, scr |-> t].scr = t
  OBVIOUS
<1> QED
  BY <1>4, <1>6, <1>8, <1>9 DEF Keeps, Placed

\* Words end on the row they are looked for on.
LEMMA FirstFromTyped ==
  ASSUME NEW x \in Nat, NEW set
  PROVE  FirstFrom(x, set) \in 0..Cols - 1
<1> USE ScreenAssumption
<1> DEFINE S == {Cols - 1} \cup {y \in x..Cols - 1 : y \in set}
<1>1. S \subseteq 0..Cols - 1 /\ Cols - 1 \in S
  OBVIOUS
<1>2. S \subseteq Nat /\ S # {}
  BY <1>1
<1> HIDE DEF S
<1>3. Min(S) \in S
  BY <1>2, MinIsIn
<1> QED
  BY <1>1, <1>3 DEF FirstFrom, S

LEMMA LastBelowTyped ==
  ASSUME NEW x \in Nat, NEW set
  PROVE  LastBelow(x, set) \in 0..x
<1> DEFINE S == {0} \cup {y \in 1..x : y - 1 \in set}
<1>1. S \subseteq 0..x /\ 0 \in S
  OBVIOUS
<1>2. S # {}
  BY <1>1
<1> HIDE DEF S
<1>3. Max(S) \in S
  BY <1>1, <1>2, MaxIsIn
<1> QED
  BY <1>1, <1>3 DEF LastBelow, S

LEMMA ColumnTyped ==
  ASSUME NEW m, NEW c \in Copies, NEW s
  PROVE  ColumnAfter(m, c, s) \in Nat /\ (c.cursor.x < Cols => ColumnAfter(m, c, s) < Cols)
<1> USE ScreenAssumption
<1> DEFINE x == c.cursor.x
           blank == {y \in 0..Cols - 1 : BlankAt(TopRow(s) + c.cursor.y, y)}
           ink   == 0..Cols - 1 \ blank
<1>1. x \in Nat
  BY CopyTyped
<1>2. ink \subseteq 0..Cols - 1
  OBVIOUS
<1>3. ColumnAfter(m, c, s) =
        CASE m = "Left"      -> Minus(x, 1)
          [] m = "Right"     -> Min({x + 1, Cols - 1})
          [] m = "LineStart" -> 0
          [] m = "LineEnd"   -> Max({0} \cup ink)
          [] m = "WordFwd"   -> FirstFrom(FirstFrom(x, blank), ink)
          [] m = "WordBack"  -> LastBelow(LastBelow(x, ink), blank)
          [] OTHER           -> x
  BY DEF ColumnAfter
<1> HIDE DEF x, blank, ink
<1>4. Minus(x, 1) \in Nat /\ Minus(x, 1) <= x
  BY <1>1 DEF Minus
<1>5. Min({x + 1, Cols - 1}) \in Nat /\ Min({x + 1, Cols - 1}) < Cols
  <2>1. Min({x + 1, Cols - 1}) = IF x + 1 <= Cols - 1 THEN x + 1 ELSE Cols - 1
    BY <1>1, MinOfTwo
  <2> QED
    BY <1>1, <2>1
<1>6. Max({0} \cup ink) \in 0..Cols - 1
  <2>1. {0} \cup ink \subseteq 0..Cols - 1 /\ {0} \cup ink # {} /\ Cols - 1 \in Nat
    BY <1>2
  <2>2. Max({0} \cup ink) \in {0} \cup ink
    BY <2>1, MaxIsIn
  <2> QED
    BY <2>1, <2>2
<1>7. FirstFrom(FirstFrom(x, blank), ink) \in 0..Cols - 1
  <2>1. FirstFrom(x, blank) \in Nat
    BY <1>1, FirstFromTyped
  <2> QED
    BY <2>1, FirstFromTyped
<1>8. LastBelow(LastBelow(x, ink), blank) \in Nat /\ LastBelow(LastBelow(x, ink), blank) <= x
  <2>1. LastBelow(x, ink) \in 0..x
    BY <1>1, LastBelowTyped
  <2>2. LastBelow(x, ink) \in Nat
    BY <2>1
  <2>3. LastBelow(LastBelow(x, ink), blank) \in 0..LastBelow(x, ink)
    BY <2>2, LastBelowTyped
  <2> QED
    BY <1>1, <2>1, <2>2, <2>3
<1>9. /\ Minus(x, 1) \in Nat /\ (x < Cols => Minus(x, 1) < Cols)
      /\ Max({0} \cup ink) \in Nat /\ Max({0} \cup ink) < Cols
      /\ FirstFrom(FirstFrom(x, blank), ink) \in Nat
      /\ FirstFrom(FirstFrom(x, blank), ink) < Cols
      /\ x < Cols => LastBelow(LastBelow(x, ink), blank) < Cols
      /\ 0 < Cols
  BY <1>1, <1>4, <1>6, <1>7, <1>8
<1>10. ColumnAfter(m, c, s) \in Nat /\ (x < Cols => ColumnAfter(m, c, s) < Cols)
  BY <1>1, <1>3, <1>5, <1>8, <1>9
<1> QED
  BY <1>10 DEF x

\* A cursor on the pane, whichever part of it moves.
LEMMA CursorMoved ==
  ASSUME NEW c \in Copies, NEW v \in Nat
  PROVE  /\ LET r == [c EXCEPT !.cursor.x = v]
            IN  r \in Copies /\ r.offset = c.offset /\ r.cursor.x = v /\ r.cursor.y = c.cursor.y
         /\ LET r == [c EXCEPT !.cursor.y = v]
            IN  r \in Copies /\ r.offset = c.offset /\ r.cursor.y = v /\ r.cursor.x = c.cursor.x
<1> DEFINE p == [c.cursor EXCEPT !.x = v]
           q == [c.cursor EXCEPT !.y = v]
<1>1. c.cursor \in Point
  BY CopyTyped
<1>2. /\ p \in Point /\ p.x = v /\ p.y = c.cursor.y
      /\ q \in Point /\ q.y = v /\ q.x = c.cursor.x
  BY <1>1 DEF Point
<1>3. [c EXCEPT !.cursor.x = v] = [c EXCEPT !.cursor = p]
  OBVIOUS
<1>4. [c EXCEPT !.cursor.y = v] = [c EXCEPT !.cursor = q]
  OBVIOUS
<1> HIDE DEF p, q
<1>5. LET r == [c EXCEPT !.cursor = p] IN r \in Copies /\ r.offset = c.offset /\ r.cursor = p
  BY <1>2, AtCursor
<1>6. LET r == [c EXCEPT !.cursor = q] IN r \in Copies /\ r.offset = c.offset /\ r.cursor = q
  BY <1>2, AtCursor
<1> QED
  BY <1>2, <1>3, <1>4, <1>5, <1>6

LEMMA MovedKeeps ==
  ASSUME NEW m, NEW c \in Copies, NEW s, ScreenOk(s)
  PROVE  Keeps(Moved(m, c, s), c, s)
<1> DEFINE last == s.rows - 1
           half == Max({s.rows \div 2, 1})
<1>1. s.rows \in Nat /\ 1 <= s.rows /\ s.total \in Nat
      /\ ScrollbackRows(s) \in Nat /\ c.cursor.x \in Nat /\ c.cursor.y \in Nat
  BY ScreenFacts, CopyTyped
<1>2. last \in Nat /\ last < s.rows
  BY <1>1
<1>3. half \in Nat
  <2>1. s.rows \div 2 \in Nat
    BY <1>1
  <2>2. Max({s.rows \div 2, 1}) = IF s.rows \div 2 >= 1 THEN s.rows \div 2 ELSE 1
    BY <2>1, MaxOfTwo
  <2> QED
    BY <2>1, <2>2
<1>4. \A n \in Nat : Keeps(Up(c, s, n), c, s) /\ Keeps(Down(c, s, n), c, s)
  BY UpKeeps, DownKeeps
<1>5. \A d \in Copies :
        (Placed(c, s) => Placed(d, s)) => Keeps(Stay(d, s), c, s)
  BY DEF Keeps, Stay
<1>6. CASE m = "Up" /\ c.cursor.y > 0
  <2> DEFINE d == [c EXCEPT !.cursor.y = c.cursor.y - 1]
  <2>1. c.cursor.y - 1 \in Nat
    BY <1>1, <1>6
  <2>2. d \in Copies /\ d.offset = c.offset /\ d.cursor.y = c.cursor.y - 1 /\ d.cursor.x = c.cursor.x
    BY <2>1, CursorMoved
  <2>3. Moved(m, c, s) = Stay([c EXCEPT !.cursor.y = @ - 1], s)
    BY <1>6 DEF Moved
  <2>4. [c EXCEPT !.cursor.y = @ - 1] = d
    OBVIOUS
  <2> HIDE DEF d
  <2>5. Placed(c, s) => Placed(d, s)
    BY <1>1, <2>2 DEF Placed
  <2> QED
    BY <1>5, <2>2, <2>3, <2>4, <2>5
<1>7. CASE m = "Down" /\ c.cursor.y < last
  <2> DEFINE d == [c EXCEPT !.cursor.y = c.cursor.y + 1]
  <2>1. c.cursor.y + 1 \in Nat /\ c.cursor.y + 1 < s.rows
    BY <1>1, <1>7
  <2>2. d \in Copies /\ d.offset = c.offset /\ d.cursor.y = c.cursor.y + 1 /\ d.cursor.x = c.cursor.x
    BY <2>1, CursorMoved
  <2>3. Moved(m, c, s) = Stay([c EXCEPT !.cursor.y = @ + 1], s)
    BY <1>1, <1>7 DEF Moved
  <2>4. [c EXCEPT !.cursor.y = @ + 1] = d
    OBVIOUS
  <2> HIDE DEF d
  <2>5. Placed(c, s) => Placed(d, s)
    BY <2>1, <2>2 DEF Placed
  <2> QED
    BY <1>5, <2>2, <2>3, <2>4, <2>5
<1>8. CASE m = "Top"
  <2> DEFINE o == ScrollbackRows(s)
             d == [c EXCEPT !.offset = o]
             e == [d EXCEPT !.cursor.y = 0]
  <2>1. d \in Copies /\ d.offset = o /\ d.cursor = c.cursor
    BY <1>1, AtOffset
  <2>2. Moved(m, c, s) = [cm |-> e, scr |-> ScrollTop(s)]
    BY <1>8 DEF Moved, Stay
  <2> HIDE DEF d
  <2>6. d \in Copies /\ 0 \in Nat
    BY <2>1
  <2>5. e \in Copies /\ e.offset = d.offset /\ e.cursor.y = 0 /\ e.cursor.x = d.cursor.x
    BY <2>6, CursorMoved
  <2>3. e \in Copies /\ e.offset = o /\ e.cursor.y = 0 /\ e.cursor.x = c.cursor.x
    <3> HIDE DEF e
    <3> QED BY <2>1, <2>5
  <2> HIDE DEF e
  <2>4. LET r == ScrollTop(s)
        IN  ScreenOk(r) /\ r.total = s.total /\ r.rows = s.rows /\ ViewportOffset(r) = o
    BY ScrollTopFacts
  <2> HIDE DEF o
  <2> QED
    BY <1>1, <2>2, <2>3, <2>4 DEF Keeps, Placed
<1>9. CASE m = "Bottom"
  <2> DEFINE d == [c EXCEPT !.offset = 0]
             e == [d EXCEPT !.cursor.y = last]
  <2>1. d \in Copies /\ d.offset = 0 /\ d.cursor = c.cursor
    BY AtOffset
  <2>2. Moved(m, c, s) = [cm |-> e, scr |-> ScrollBottom(s)]
    BY <1>9 DEF Moved, Stay
  <2> HIDE DEF d
  <2>6. d \in Copies /\ last \in Nat
    BY <1>2, <2>1
  <2>5. e \in Copies /\ e.offset = d.offset /\ e.cursor.y = last /\ e.cursor.x = d.cursor.x
    BY <2>6, CursorMoved
  <2>3. e \in Copies /\ e.offset = 0 /\ e.cursor.y = last /\ e.cursor.x = c.cursor.x
    <3> HIDE DEF e
    <3> QED BY <2>1, <2>5
  <2> HIDE DEF e
  <2>4. LET r == ScrollBottom(s)
        IN  ScreenOk(r) /\ r.total = s.total /\ r.rows = s.rows /\ ViewportOffset(r) = 0
    BY ScrollBottomFacts
  <2> QED
    BY <1>2, <2>2, <2>3, <2>4 DEF Keeps, Placed
<1>10. CASE \/ m = "Up" /\ ~(c.cursor.y > 0)
            \/ m = "Down" /\ ~(c.cursor.y < last)
            \/ m \in {"HalfPageUp", "HalfPageDown", "PageUp", "PageDown"}
  <2>1. Moved(m, c, s) \in {Up(c, s, 1), Down(c, s, 1), Up(c, s, half), Down(c, s, half),
                            Up(c, s, s.rows), Down(c, s, s.rows)}
    <3> HIDE DEF half
    <3>1. m = "Up" /\ ~(c.cursor.y > 0) => c.cursor.y = 0
      BY <1>1
    <3>2. m = "Down" /\ ~(c.cursor.y < last) => c.cursor.y >= last
      BY <1>1, <1>2
    <3> QED
      BY <1>10, <3>1, <3>2 DEF Moved, half
  <2> HIDE DEF half
  <2> QED
    BY <1>1, <1>3, <1>4, <2>1
<1>11. CASE m \notin {"Up", "Down", "Top", "Bottom", "HalfPageUp", "HalfPageDown", "PageUp", "PageDown"}
  <2> DEFINE x == ColumnAfter(m, c, s)
             d == [c EXCEPT !.cursor.x = x]
  <2>1. x \in Nat /\ (c.cursor.x < Cols => x < Cols)
    BY ColumnTyped
  <2>2. Moved(m, c, s) = Stay(d, s)
    BY <1>11 DEF Moved
  <2> HIDE DEF x
  <2>3. d \in Copies /\ d.offset = c.offset /\ d.cursor.x = x /\ d.cursor.y = c.cursor.y
    BY <2>1, CursorMoved
  <2> HIDE DEF d
  <2>4. Placed(c, s) => Placed(d, s)
    BY <2>1, <2>3 DEF Placed
  <2> QED
    BY <1>5, <2>2, <2>3, <2>4
<1> HIDE DEF last
<1> QED
  BY <1>6, <1>7, <1>8, <1>9, <1>10, <1>11

\* What is kept of a, with its cursor and its selection given anew.
LEMMA StayKeepsIf ==
  ASSUME NEW c \in Copies, NEW s, NEW d \in Copies, NEW t, ScreenOk(t),
         t.total = s.total, t.rows = s.rows, Placed(c, s) => Placed(d, t)
  PROVE  Keeps(Stay(d, t), c, s)
<1>1. Stay(d, t).cm = d /\ Stay(d, t).scr = t
  BY DEF Stay
<1> QED
  BY <1>1 DEF Keeps

LEMMA HeadKeeps ==
  ASSUME NEW c \in Copies, NEW s, NEW a, Keeps(a, c, s)
  PROVE  Keeps(Stay(HeadAt(a.cm, a.scr), a.scr), c, s)
<1> DEFINE d == HeadAt(a.cm, a.scr)
<1>1. /\ a.cm \in Copies /\ ScreenOk(a.scr) /\ a.scr.total = s.total /\ a.scr.rows = s.rows
      /\ Placed(c, s) => Placed(a.cm, a.scr)
  BY DEF Keeps
<1>2. d \in Copies /\ d.offset = a.cm.offset /\ d.cursor = a.cm.cursor
  BY <1>1, HeadAtFacts
<1> HIDE DEF d
<1>3. Placed(c, s) => Placed(d, a.scr)
  BY <1>1, <1>2 DEF Placed
<1>4. Keeps(Stay(d, a.scr), c, s)
  BY <1>1, <1>2, <1>3, StayKeepsIf
<1> QED
  BY <1>4 DEF d

\* The pointer is put on the pane, wherever it is.
LEMMA PointedFacts ==
  ASSUME NEW w, ScreenOk(w.scr), NEW col \in Nat, NEW row \in Nat
  PROVE  LET q == At(w, col, row)
         IN  q \in Point /\ q.x < Cols /\ q.y < w.scr.rows
<1> USE ScreenAssumption
<1> DEFINE x == Minus(col - 1, 0)
           y == Minus(row - 1, Tile(height).y)
           q == At(w, col, row)
<1>1. w.scr.rows \in Nat /\ 1 <= w.scr.rows
  BY ScreenFacts
<1>2. Tile(height).y = 1
  BY DEF Tile
<1>3. x \in Nat /\ y \in Nat
  BY <1>2 DEF Minus
<1>4. q = [x |-> Min({x, Cols - 1}), y |-> Min({y, w.scr.rows - 1})]
  BY DEF At
<1> HIDE DEF x, y, q
<1>5. Min({x, Cols - 1}) = IF x <= Cols - 1 THEN x ELSE Cols - 1
  BY <1>3, MinOfTwo
<1>6. Min({y, w.scr.rows - 1}) = IF y <= w.scr.rows - 1 THEN y ELSE w.scr.rows - 1
  BY <1>1, <1>3, MinOfTwo
<1>7. /\ Min({x, Cols - 1}) \in Nat /\ Min({x, Cols - 1}) < Cols
      /\ Min({y, w.scr.rows - 1}) \in Nat /\ Min({y, w.scr.rows - 1}) < w.scr.rows
  BY <1>1, <1>3, <1>5, <1>6
<1>8. q \in Point /\ q.x < Cols /\ q.y < w.scr.rows
  BY <1>4, <1>7 DEF Point
<1> QED
  BY <1>8 DEF q

-----------------------------------------------------------------------------
(* The state an event handler takes to the next                            *)

MouseReport == [ev : {"mouse"}, col : Nat, row : Nat, kind : MouseKind]
StepRecord  == [typed : Seq(Byte), forwarded : Nat, clip : Cells, shown : Cells, slid : BOOLEAN]

Fits(c, s) ==
  /\ Placed(c, s)
  /\ c.sel # None => c.sel.anchor.y < s.total /\ c.sel.head.y < s.total

StateFields == {"scr", "cm", "press", "zoomed", "step", "moved"}

Good(w) ==
  /\ DOMAIN w = StateFields
  /\ ScreenOk(w.scr)
  /\ w.cm \in Copies \cup {None}
  /\ w.press \in MouseReport \cup {None}
  /\ w.zoomed \in BOOLEAN /\ w.moved \in BOOLEAN
  /\ w.step \in StepRecord
  /\ w.step.slid \/ w.step.clip = w.step.shown
  /\ w.cm # None /\ ~w.moved => Fits(w.cm, w.scr)

LEMMA PutsGood ==
  ASSUME NEW w, Good(w), w.cm # None, NEW after, Keeps(after, w.cm, w.scr)
  PROVE  Good(Puts(w, after))
<1> DEFINE d == Clamped(after.cm, w.scr)
           r == Puts(w, after)
<1>1. /\ DOMAIN w = StateFields
      /\ w.cm \in Copies /\ ScreenOk(w.scr) /\ w.press \in MouseReport \cup {None}
      /\ w.zoomed \in BOOLEAN /\ w.moved \in BOOLEAN /\ w.step \in StepRecord
      /\ w.step.slid \/ w.step.clip = w.step.shown
      /\ ~w.moved => Fits(w.cm, w.scr)
  BY DEF Good
<1>2. /\ after.cm \in Copies /\ ScreenOk(after.scr)
      /\ after.scr.total = w.scr.total /\ after.scr.rows = w.scr.rows
      /\ Placed(w.cm, w.scr) => Placed(after.cm, after.scr)
  BY DEF Keeps
<1>3. /\ d \in Copies /\ d.offset = after.cm.offset /\ d.cursor = after.cm.cursor
      /\ d.sel # None => d.sel.anchor.y < w.scr.total /\ d.sel.head.y < w.scr.total
  BY <1>1, <1>2, ClampedFacts
<1>4. /\ DOMAIN r = StateFields /\ r.cm = d /\ r.scr = after.scr /\ r.press = w.press
      /\ r.zoomed = w.zoomed /\ r.step = w.step /\ r.moved = w.moved
  BY <1>1 DEF Puts, StateFields
<1> HIDE DEF d, r
<1>5. ~w.moved => Fits(d, after.scr)
  BY <1>1, <1>2, <1>3 DEF Fits, Placed
<1>6. Good(r)
  BY <1>1, <1>2, <1>3, <1>4, <1>5 DEF Good
<1> QED
  BY <1>6 DEF r

LEMMA ExitsGood ==
  ASSUME NEW w, Good(w)
  PROVE  Good(Exits(w))
<1> DEFINE r == Exits(w)
<1>1. /\ DOMAIN w = StateFields
      /\ ScreenOk(w.scr) /\ w.press \in MouseReport \cup {None}
      /\ w.zoomed \in BOOLEAN /\ w.moved \in BOOLEAN /\ w.step \in StepRecord
      /\ w.step.slid \/ w.step.clip = w.step.shown
  BY DEF Good
<1>2. ScreenOk(ScrollBottom(w.scr))
  BY <1>1, ScrollBottomFacts
<1>3. /\ DOMAIN r = StateFields /\ r.cm = None /\ r.scr = ScrollBottom(w.scr) /\ r.press = w.press
      /\ r.zoomed = w.zoomed /\ r.step = w.step /\ r.moved = w.moved
  BY <1>1 DEF Exits, StateFields
<1> HIDE DEF r
<1>4. Good(r)
  BY <1>1, <1>2, <1>3 DEF Good
<1> QED
  BY <1>4 DEF r

\* What is copied, and what was shown, are cells.
LEMMA ShownTyped ==
  ASSUME NEW s, ScreenOk(s), NEW offset \in Nat, NEW sel \in Selection
  PROVE  Yanked(s, offset, sel) \in Cells /\ Highlighted(s, offset, sel) \in Cells
<1> DEFINE clip == ClipSelection(s, offset, sel)
<1>1. {} \in Cells
  BY DEF Cells
<1>2. CASE clip = <<>>
  BY <1>1, <1>2 DEF Yanked, Highlighted
<1>3. CASE clip # <<>>
  <2> DEFINE a == Unproject(s, offset, clip[1])
             b == Unproject(s, offset, clip[2])
  <2>1. clip[1] \in Point /\ clip[2] \in Point
    BY <1>3, ClipFacts
  <2>2. s.total \in Nat /\ s.rows \in Nat /\ s.first \in Nat /\ TopRow(s) \in Nat
    BY ScreenFacts
  <2>3. ViewTop(s, offset) \in Nat
    <3>1. Minus(s.total, s.rows) \in Nat
      BY <2>2 DEF Minus
    <3>2. \A m \in Nat : Minus(m, offset) \in Nat
      BY DEF Minus
    <3> QED
      BY <3>1, <3>2 DEF ViewTop
  <2>4. Yanked(s, offset, sel) = SelectionText(s, a, b)
        /\ Highlighted(s, offset, sel) = Span(clip[1], clip[2], TopRow(s))
    BY <1>3 DEF Yanked, Highlighted
  <2> HIDE DEF clip
  <2>5. a \in Point /\ b \in Point
    BY <2>1, <2>3 DEF Unproject, Point
  <2> HIDE DEF a, b
  <2>6. Span(a, b, s.first) \in Cells /\ Span(clip[1], clip[2], TopRow(s)) \in Cells
    BY <2>1, <2>2, <2>5, SpanTyped
  <2> QED
    BY <1>1, <2>4, <2>6 DEF SelectionText
<1> QED
  BY <1>2, <1>3

LEMMA YanksGood ==
  ASSUME NEW w, Good(w), w.cm # None
  PROVE  Good(Yanks(w))
<1> DEFINE r == Yanks(w)
           clip  == Yanked(w.scr, w.cm.offset, w.cm.sel)
           shown == Highlighted(w.scr, w.cm.offset, w.cm.sel)
<1>1. /\ DOMAIN w = StateFields
      /\ w.cm \in Copies /\ ScreenOk(w.scr) /\ w.press \in MouseReport \cup {None}
      /\ w.zoomed \in BOOLEAN /\ w.moved \in BOOLEAN /\ w.step \in StepRecord
      /\ w.step.slid \/ w.step.clip = w.step.shown
      /\ ~w.moved => Fits(w.cm, w.scr)
  BY DEF Good
<1>2. CASE w.cm.sel = None
  <2>1. /\ DOMAIN r = StateFields /\ r.cm = None /\ r.scr = w.scr /\ r.press = w.press
        /\ r.zoomed = w.zoomed /\ r.step = w.step /\ r.moved = w.moved
    BY <1>1, <1>2 DEF Yanks, StateFields
  <2> HIDE DEF r
  <2>2. Good(r)
    BY <1>1, <2>1 DEF Good
  <2> QED
    BY <2>2 DEF r
<1>3. CASE w.cm.sel # None
  <2>1. w.cm.sel \in Selection /\ w.cm.offset \in Nat
    BY <1>1, <1>3, CopyTyped
  <2>2. clip \in Cells /\ shown \in Cells
    BY <1>1, <2>1, ShownTyped
  <2>3. w.moved \/ clip = shown
    BY <1>1, <2>1, YankedIsHighlighted DEF Fits, Placed
  <2>4. /\ DOMAIN r = StateFields /\ r.cm = None /\ r.scr = w.scr /\ r.press = w.press
        /\ r.zoomed = w.zoomed /\ r.moved = w.moved
    BY <1>1, <1>3 DEF Yanks, StateFields
  <2>5. r.step = [w.step EXCEPT !.clip = clip, !.shown = shown, !.slid = w.moved]
    BY <1>1, <1>3 DEF Yanks, StateFields
  <2> HIDE DEF r, clip, shown
  <2>6. /\ r.step \in StepRecord /\ r.step.clip = clip /\ r.step.shown = shown
        /\ r.step.slid = w.moved
    <3> DEFINE SB == Seq(Byte)
    <3>1. w.step \in [typed : SB, forwarded : Nat, clip : Cells, shown : Cells, slid : BOOLEAN]
      BY <1>1 DEF StepRecord
    <3> HIDE DEF SB
    <3>2. r.step \in [typed : SB, forwarded : Nat, clip : Cells, shown : Cells, slid : BOOLEAN]
          /\ r.step.clip = clip /\ r.step.shown = shown /\ r.step.slid = w.moved
      BY <1>1, <2>2, <2>5, <3>1
    <3> QED
      BY <3>2 DEF StepRecord, SB
  <2>7. Good(r)
    BY <1>1, <2>3, <2>4, <2>6 DEF Good
  <2> QED
    BY <2>7 DEF r
<1> QED
  BY <1>2, <1>3

LEMMA GoodCopy ==
  ASSUME NEW w, Good(w), w.cm # None
  PROVE  w.cm \in Copies /\ ScreenOk(w.scr)
BY DEF Good

LEMMA CopyModeKeyGood ==
  ASSUME NEW w, Good(w), NEW k
  PROVE  Good(CopyModeKey(w, k))
<1>1. CASE w.cm = None
  BY <1>1 DEF CopyModeKey
<1>2. CASE w.cm # None
  <2> DEFINE sel == IF w.cm.sel # None THEN None
                    ELSE [anchor |-> Here(w.cm, w.scr), head |-> Here(w.cm, w.scr)]
             d == [w.cm EXCEPT !.sel = sel]
             m == Moved(Motion[k], w.cm, w.scr)
  <2>1. w.cm \in Copies /\ ScreenOk(w.scr)
    BY <1>2, GoodCopy
  <2>2. Good(Exits(w)) /\ Good(Yanks(w))
    BY <1>2, ExitsGood, YanksGood
  <2>3. Good(Puts(w, Stay(w.cm, w.scr)))
    BY <1>2, <2>1, StayKeeps, PutsGood
  <2>4. Good(Puts(w, Stay(d, w.scr)))
    <3>1. sel \in Selection \cup {None}
      <4>1. Here(w.cm, w.scr) \in Point
        BY <2>1, HereTyped
      <4> QED
        BY <4>1 DEF Selection
    <3> HIDE DEF sel
    <3>2. d \in Copies /\ d.offset = w.cm.offset /\ d.cursor = w.cm.cursor
      BY <2>1, <3>1, WithSelection
    <3> HIDE DEF d
    <3>3. Placed(w.cm, w.scr) => Placed(d, w.scr)
      BY <3>2 DEF Placed
    <3>4. Keeps(Stay(d, w.scr), w.cm, w.scr)
      BY <2>1, <3>2, <3>3, StayKeepsIf
    <3> QED
      BY <1>2, <3>4, PutsGood
  <2>5. Good(Puts(w, Stay(HeadAt(m.cm, m.scr), m.scr)))
    <3>1. Keeps(m, w.cm, w.scr)
      BY <2>1, MovedKeeps
    <3> HIDE DEF m
    <3>2. Keeps(Stay(HeadAt(m.cm, m.scr), m.scr), w.cm, w.scr)
      BY <2>1, <3>1, HeadKeeps
    <3> QED
      BY <1>2, <3>2, PutsGood
  <2>6. d = [w.cm EXCEPT !.sel = IF @ # None THEN None
                ELSE [anchor |-> Here(w.cm, w.scr), head |-> Here(w.cm, w.scr)]]
    BY <2>1 DEF Copies
  <2>7. CopyModeKey(w, k) \in {Exits(w), Yanks(w), Puts(w, Stay(w.cm, w.scr)),
                               Puts(w, Stay(d, w.scr)),
                               Puts(w, Stay(HeadAt(m.cm, m.scr), m.scr))}
    <3>1. CASE k \in {"q", "esc"}
      BY <1>2, <3>1 DEF CopyModeKey
    <3>2. CASE k \in {"y", "cr"}
      BY <1>2, <3>2 DEF CopyModeKey
    <3>3. CASE k = "v"
      <4>1. CopyModeKey(w, k) =
              Puts(w, Stay([w.cm EXCEPT !.sel = IF @ # None THEN None
                              ELSE [anchor |-> Here(w.cm, w.scr), head |-> Here(w.cm, w.scr)]], w.scr))
        <5>1. k \notin {"q", "esc"} /\ k \notin {"y", "cr"} /\ k \notin DOMAIN Motion
          BY <3>3 DEF Motion
        <5> QED
          BY <1>2, <3>3, <5>1, Zenon DEF CopyModeKey
      <4>2. CopyModeKey(w, k) = Puts(w, Stay(d, w.scr))
        BY <4>1, <2>6
      <4> HIDE DEF d, m
      <4> QED
        BY <4>2
    <3>4. CASE k \notin {"q", "esc", "y", "cr", "v"}
      <4> HIDE DEF d
      <4>1. CASE k \in DOMAIN Motion
        <5>1. CopyModeKey(w, k) = Puts(w, Stay(HeadAt(m.cm, m.scr), m.scr))
          BY <1>2, <3>4, <4>1 DEF CopyModeKey
        <5> HIDE DEF m
        <5> QED
          BY <5>1
      <4>2. CASE k \notin DOMAIN Motion
        BY <1>2, <3>4, <4>2 DEF CopyModeKey
      <4> QED
        BY <4>1, <4>2
    <3> QED
      BY <3>1, <3>2, <3>3, <3>4
  <2> HIDE DEF d, m
  <2> QED
    BY <2>2, <2>3, <2>4, <2>5, <2>7
<1> QED
  BY <1>1, <1>2

\* The engine's cursor is on the screen.
LEMMA CaretOnScreen ==
  ASSUME NEW s, s.rows \in Nat, 1 <= s.rows, NEW caret \in Carets
  PROVE  /\ CaretOn(s, caret) \in Point
         /\ CaretOn(s, caret).x \in 0..Cols - 1 /\ CaretOn(s, caret).y \in 0..s.rows - 1
<1> DEFINE x == Min({caret[1], Cols - 1})
           y == Min({caret[2], s.rows - 1})
<1>1. caret[1] \in Nat /\ caret[2] \in Nat /\ Cols \in Nat /\ 1 <= Cols
  BY CopyModeAssumption, ScreenAssumption
<1>2. x = IF caret[1] <= Cols - 1 THEN caret[1] ELSE Cols - 1
  BY <1>1, MinOfTwo
<1>3. y = IF caret[2] <= s.rows - 1 THEN caret[2] ELSE s.rows - 1
  BY <1>1, MinOfTwo
<1>4. CaretOn(s, caret) = [x |-> x, y |-> y]
  BY DEF CaretOn
<1> HIDE DEF x, y
<1>5. x \in 0..Cols - 1 /\ y \in 0..s.rows - 1
  BY <1>1, <1>2, <1>3
<1> QED
  BY <1>4, <1>5 DEF Point

LEMMA EnterCopyModeGood ==
  ASSUME NEW w, Good(w), NEW caret \in Carets
  PROVE  Good(EnterCopyMode(w, caret))
<1> DEFINE c == Entered(w.scr, caret)
           r == EnterCopyMode(w, caret)
<1>1. CASE Scrollback = 0 \/ w.cm # None
  BY <1>1 DEF EnterCopyMode
<1>2. CASE ~(Scrollback = 0 \/ w.cm # None)
  <2>1. /\ DOMAIN w = StateFields
        /\ ScreenOk(w.scr) /\ w.press \in MouseReport \cup {None}
        /\ w.zoomed \in BOOLEAN /\ w.step \in StepRecord
        /\ w.step.slid \/ w.step.clip = w.step.shown
    BY DEF Good
  <2>2. ViewportOffset(w.scr) \in Nat /\ w.scr.rows \in Nat /\ 1 <= w.scr.rows
    BY <2>1, ScreenFacts
  <2> DEFINE q == CaretOn(w.scr, caret)
  <2>3. /\ q \in Point
        /\ q.x \in 0..Cols - 1 /\ q.y \in 0..w.scr.rows - 1
    BY <2>2, CaretOnScreen
  <2> HIDE DEF q
  <2>8. c = [cursor |-> q, offset |-> ViewportOffset(w.scr), sel |-> None,
             dragging |-> FALSE, mouse |-> FALSE]
    BY DEF Entered, q
  <2>4. c \in Copies /\ c.offset = ViewportOffset(w.scr) /\ c.cursor = q /\ c.sel = None
    BY <2>2, <2>3, <2>8 DEF Copies
  <2>5. Fits(c, w.scr)
    <3> HIDE DEF c
    <3>1. c.cursor.x < Cols /\ c.cursor.y < w.scr.rows
      BY <2>2, <2>3, <2>4, ScreenAssumption
    <3> QED
      BY <2>4, <3>1 DEF Fits, Placed
  <2>6. /\ DOMAIN r = StateFields /\ r.cm = c /\ r.scr = w.scr /\ r.press = w.press
        /\ r.zoomed = w.zoomed /\ r.step = w.step /\ r.moved = FALSE
    BY <1>2, <2>1 DEF EnterCopyMode, StateFields
  <2> HIDE DEF c, r
  <2>7. Good(r)
    BY <2>1, <2>4, <2>5, <2>6 DEF Good
  <2> QED
    BY <2>7 DEF r
<1> QED
  BY <1>1, <1>2

LEMMA PressedGood ==
  ASSUME NEW w, Good(w), w.cm # None, NEW e \in MouseReport
  PROVE  Good(Pressed(w, e))
<1> DEFINE q   == At(w, e.col, e.row)
           c   == [w.cm EXCEPT !.cursor = q]
           sel == [anchor |-> Here(c, w.scr), head |-> Here(c, w.scr)]
           d   == [c EXCEPT !.sel = sel]
           f   == [d EXCEPT !.dragging = TRUE]
<1>1. w.cm \in Copies /\ ScreenOk(w.scr) /\ e.col \in Nat /\ e.row \in Nat
  BY GoodCopy DEF MouseReport
<1>2. q \in Point /\ q.x < Cols /\ q.y < w.scr.rows
  BY <1>1, PointedFacts
<1>3. Pressed(w, e) = Puts(w, Stay(f, w.scr))
  BY DEF Pressed
<1> HIDE DEF q
<1>4. c \in Copies /\ c.offset = w.cm.offset /\ c.cursor = q
  BY <1>1, <1>2, AtCursor
<1> HIDE DEF c
<1>5. sel \in Selection \cup {None}
  <2>1. Here(c, w.scr) \in Point
    BY <1>1, <1>4, HereTyped
  <2> QED
    BY <2>1 DEF Selection
<1> HIDE DEF sel
<1>6. d \in Copies /\ d.offset = c.offset /\ d.cursor = c.cursor
  BY <1>4, <1>5, WithSelection
<1> HIDE DEF d
<1>7. f \in Copies /\ f.offset = d.offset /\ f.cursor = d.cursor
  BY <1>6, WithDragging
<1> HIDE DEF f
<1>8. Placed(w.cm, w.scr) => Placed(f, w.scr)
  BY <1>2, <1>4, <1>6, <1>7 DEF Placed
<1>9. Keeps(Stay(f, w.scr), w.cm, w.scr)
  BY <1>1, <1>7, <1>8, StayKeepsIf
<1> QED
  BY <1>3, <1>9, PutsGood

LEMMA DraggedGood ==
  ASSUME NEW w, Good(w), w.cm # None, NEW e \in MouseReport, height \in Nat
  PROVE  Good(Dragged(w, e))
<1> DEFINE r == Tile(height)
           a == CASE e.row - 1 <= r.y -> Up(w.cm, w.scr, 1)
                  [] e.row - 1 > r.y /\ e.row - 1 >= r.y + r.h - 1 -> Down(w.cm, w.scr, 1)
                  [] OTHER -> Stay(w.cm, w.scr)
           q == At(w, e.col, e.row)
           d == [a.cm EXCEPT !.cursor = q]
<1>1. w.cm \in Copies /\ ScreenOk(w.scr) /\ e.col \in Nat /\ e.row \in Nat
  BY GoodCopy DEF MouseReport
<1>2. q \in Point /\ q.x < Cols /\ q.y < w.scr.rows
  BY <1>1, PointedFacts
<1>3. Dragged(w, e) = Puts(w, Stay(HeadAt(d, a.scr), a.scr))
  BY DEF Dragged
<1>4. Keeps(a, w.cm, w.scr)
  <2>1. /\ Keeps(Up(w.cm, w.scr, 1), w.cm, w.scr)
        /\ Keeps(Down(w.cm, w.scr, 1), w.cm, w.scr)
        /\ Keeps(Stay(w.cm, w.scr), w.cm, w.scr)
    BY <1>1, UpKeeps, DownKeeps, StayKeeps
  <2>2. a \in {Up(w.cm, w.scr, 1), Down(w.cm, w.scr, 1), Stay(w.cm, w.scr)}
    <3> HIDE DEF r
    <3> QED
      OBVIOUS
  <2> HIDE DEF a
  <2> QED
    BY <2>1, <2>2
<1> HIDE DEF a, q
<1>5. /\ a.cm \in Copies /\ ScreenOk(a.scr) /\ a.scr.total = w.scr.total /\ a.scr.rows = w.scr.rows
      /\ Placed(w.cm, w.scr) => Placed(a.cm, a.scr)
  BY <1>4 DEF Keeps
<1>6. d \in Copies /\ d.offset = a.cm.offset /\ d.cursor = q
  BY <1>2, <1>5, AtCursor
<1> HIDE DEF d
<1>7. Placed(w.cm, w.scr) => Placed(d, a.scr)
  BY <1>2, <1>5, <1>6 DEF Placed
<1>8. Keeps(Stay(d, a.scr), w.cm, w.scr)
  BY <1>1, <1>5, <1>6, <1>7, StayKeepsIf
<1>9. Stay(d, a.scr).cm = d /\ Stay(d, a.scr).scr = a.scr
  BY DEF Stay
<1>10. Keeps(Stay(HeadAt(d, a.scr), a.scr), w.cm, w.scr)
  BY <1>1, <1>8, <1>9, HeadKeeps
<1> QED
  BY <1>3, <1>10, PutsGood

LEMMA ReleasedGood ==
  ASSUME NEW w, Good(w), w.cm # None
  PROVE  Good(Released(w))
<1> DEFINE f == [w.cm EXCEPT !.dragging = FALSE]
<1>1. w.cm \in Copies /\ ScreenOk(w.scr)
  BY GoodCopy
<1>2. f \in Copies /\ f.offset = w.cm.offset /\ f.cursor = w.cm.cursor
  BY <1>1, WithDragging
<1>3. Released(w) \in {Yanks(w), Exits(w), Puts(w, Stay(f, w.scr))}
  BY DEF Released
<1> HIDE DEF f
<1>4. Placed(w.cm, w.scr) => Placed(f, w.scr)
  BY <1>2 DEF Placed
<1>5. Keeps(Stay(f, w.scr), w.cm, w.scr)
  BY <1>1, <1>2, <1>4, StayKeepsIf
<1>6. Good(Yanks(w)) /\ Good(Exits(w)) /\ Good(Puts(w, Stay(f, w.scr)))
  BY <1>5, YanksGood, ExitsGood, PutsGood
<1> QED
  BY <1>3, <1>6

LEMMA CopyModeMouseGood ==
  ASSUME NEW w, Good(w), NEW e \in MouseReport, height \in Nat
  PROVE  Good(CopyModeMouse(w, e))
<1>1. CASE w.cm = None
  BY <1>1 DEF CopyModeMouse
<1>2. CASE w.cm # None
  <2>1. w.cm \in Copies /\ ScreenOk(w.scr)
    BY <1>2, GoodCopy
  <2>2. Good(Pressed(w, e)) /\ Good(Dragged(w, e)) /\ Good(Released(w))
    BY <1>2, PressedGood, DraggedGood, ReleasedGood
  <2>3. WheelStep \in Nat
    BY DEF WheelStep
  <2>4. /\ Keeps(Up(w.cm, w.scr, WheelStep), w.cm, w.scr)
        /\ Keeps(Down(w.cm, w.scr, WheelStep), w.cm, w.scr)
    BY <2>1, <2>3, UpKeeps, DownKeeps
  <2>5. /\ Good(Puts(w, Up(w.cm, w.scr, WheelStep)))
        /\ Good(Puts(w, Down(w.cm, w.scr, WheelStep)))
    BY <1>2, <2>4, PutsGood
  <2>6. CopyModeMouse(w, e) \in {w, Pressed(w, e), Dragged(w, e), Released(w),
                                 Puts(w, Up(w.cm, w.scr, WheelStep)),
                                 Puts(w, Down(w.cm, w.scr, WheelStep))}
    BY DEF CopyModeMouse
  <2> QED
    BY <2>2, <2>5, <2>6
<1> QED
  BY <1>1, <1>2

\* The wheel and the press where copy mode is not.
LEMMA WheelGood ==
  ASSUME NEW w, Good(w), w.cm = None, NEW e
  PROVE  Good(Wheel(w, e))
<1> DEFINE d == IF e.kind = "scrollup" THEN -WheelStep ELSE WheelStep
           sent == [w.step EXCEPT !.forwarded = @ + 1]
           f == [w EXCEPT !.step.forwarded = @ + 1]
           r == [w EXCEPT !.scr = ScrollDelta(@, d)]
<1>1. /\ DOMAIN w = StateFields
      /\ ScreenOk(w.scr) /\ w.press \in MouseReport \cup {None}
      /\ w.zoomed \in BOOLEAN /\ w.moved \in BOOLEAN /\ w.step \in StepRecord
      /\ w.step.slid \/ w.step.clip = w.step.shown
  BY DEF Good
<1>2. d \in Int
  BY DEF WheelStep
<1>3. Wheel(w, e) \in {w, f, r}
  BY DEF Wheel
<1> HIDE DEF d
<1>4. Good(f)
  <2>1. /\ DOMAIN f = StateFields /\ f.scr = w.scr /\ f.cm = None /\ f.press = w.press
        /\ f.zoomed = w.zoomed /\ f.step = sent /\ f.moved = w.moved
    BY <1>1 DEF StateFields
  <2>2. sent \in StepRecord /\ sent.clip = w.step.clip /\ sent.shown = w.step.shown
        /\ sent.slid = w.step.slid
    <3> DEFINE SB == Seq(Byte)
    <3>1. w.step \in [typed : SB, forwarded : Nat, clip : Cells, shown : Cells, slid : BOOLEAN]
      BY <1>1 DEF StepRecord
    <3> HIDE DEF SB
    <3>2. sent \in [typed : SB, forwarded : Nat, clip : Cells, shown : Cells, slid : BOOLEAN]
          /\ sent.clip = w.step.clip /\ sent.shown = w.step.shown /\ sent.slid = w.step.slid
      BY <3>1
    <3> HIDE DEF sent
    <3> QED
      BY <3>2 DEF StepRecord, SB
  <2> HIDE DEF f, sent
  <2> QED
    BY <1>1, <2>1, <2>2 DEF Good
<1>5. Good(r)
  <2>1. /\ DOMAIN r = StateFields /\ r.scr = ScrollDelta(w.scr, d) /\ r.cm = None /\ r.press = w.press
        /\ r.zoomed = w.zoomed /\ r.step = w.step /\ r.moved = w.moved
    BY <1>1 DEF StateFields
  <2>2. ScreenOk(ScrollDelta(w.scr, d))
    BY <1>1, <1>2, ScrollDeltaFacts
  <2> HIDE DEF r
  <2> QED
    BY <1>1, <2>1, <2>2 DEF Good
<1> HIDE DEF f, r
<1> QED
  BY <1>3, <1>4, <1>5

LEMMA PressGood ==
  ASSUME NEW w, Good(w), NEW p \in MouseReport \cup {None}
  PROVE  Good([w EXCEPT !.press = p])
<1> DEFINE r == [w EXCEPT !.press = p]
<1>1. /\ DOMAIN w = StateFields
      /\ ScreenOk(w.scr) /\ w.cm \in Copies \cup {None}
      /\ w.zoomed \in BOOLEAN /\ w.moved \in BOOLEAN /\ w.step \in StepRecord
      /\ w.step.slid \/ w.step.clip = w.step.shown
      /\ w.cm # None /\ ~w.moved => Fits(w.cm, w.scr)
  BY DEF Good
<1>2. /\ DOMAIN r = StateFields /\ r.scr = w.scr /\ r.cm = w.cm /\ r.press = p
      /\ r.zoomed = w.zoomed /\ r.step = w.step /\ r.moved = w.moved
  BY <1>1 DEF StateFields
<1> HIDE DEF r
<1>3. Good(r)
  BY <1>1, <1>2 DEF Good
<1> QED
  BY <1>3 DEF r

\* A drag that begins copy mode: entered, pressed where the button went down, dragged.
LEMMA BeginDragSelectGood ==
  ASSUME NEW w, Good(w), NEW caret \in Carets, w.press # None, NEW e \in MouseReport, height \in Nat
  PROVE  Good(BeginDragSelect(w, e, caret))
<1> DEFINE entered == EnterCopyMode(w, caret)
           c       == [entered.cm EXCEPT !.mouse = TRUE]
           begun   == [entered EXCEPT !.cm.mouse = TRUE, !.press = None]
           down    == [w.press EXCEPT !.kind = "press"]
           pressed == CopyModeMouse(begun, down)
<1>1. Good(entered)
  BY EnterCopyModeGood
<1>2. Good([w EXCEPT !.press = None])
  BY PressGood
<1>3. down \in MouseReport
  BY DEF Good, MouseReport, MouseKind
<1>4. CASE entered.cm = None
  BY <1>2, <1>4 DEF BeginDragSelect
<1>5. CASE entered.cm # None
  <2>1. BeginDragSelect(w, e, caret) = CopyModeMouse(pressed, e)
    BY <1>5 DEF BeginDragSelect
  <2> HIDE DEF entered
  <2>2. /\ DOMAIN entered = StateFields
        /\ entered.cm \in Copies /\ ScreenOk(entered.scr)
        /\ entered.zoomed \in BOOLEAN /\ entered.moved \in BOOLEAN /\ entered.step \in StepRecord
        /\ entered.step.slid \/ entered.step.clip = entered.step.shown
        /\ ~entered.moved => Fits(entered.cm, entered.scr)
    BY <1>1, <1>5 DEF Good
  <2>3. /\ DOMAIN begun = StateFields /\ begun.scr = entered.scr /\ begun.cm = c /\ begun.press = None
        /\ begun.zoomed = entered.zoomed /\ begun.step = entered.step /\ begun.moved = entered.moved
    BY <2>2 DEF StateFields
  <2>4. c \in Copies /\ c.offset = entered.cm.offset /\ c.cursor = entered.cm.cursor
    BY <2>2, WithMouse
  <2>5. c.sel = entered.cm.sel
    BY <2>2 DEF Copies
  <2>6. Fits(entered.cm, entered.scr) => Fits(c, entered.scr)
    <3> HIDE DEF c
    <3> QED
      BY <2>4, <2>5 DEF Fits, Placed
  <2> HIDE DEF begun, c
  <2>7. Good(begun)
    BY <2>2, <2>3, <2>4, <2>6 DEF Good
  <2> HIDE DEF down
  <2>8. Good(pressed)
    BY <1>3, <2>7, CopyModeMouseGood
  <2> HIDE DEF pressed
  <2> QED
    BY <2>1, <2>8, CopyModeMouseGood
<1> QED
  BY <1>4, <1>5

LEMMA MouseEventGood ==
  ASSUME NEW w, Good(w), NEW caret \in Carets, NEW e \in MouseReport, height \in Nat
  PROVE  Good(MouseEvent(w, e, caret))
<1>1. Good([w EXCEPT !.press = None]) /\ Good([w EXCEPT !.press = e])
  BY PressGood
<1>2. Good(CopyModeMouse(w, e))
  BY CopyModeMouseGood
<1>3. CASE w.cm # None
  BY <1>2, <1>3 DEF MouseEvent
<1>4. CASE w.cm = None
  <2>1. Good(Wheel(w, e))
    BY <1>4, WheelGood
  <2>2. w.press # None => Good(BeginDragSelect(w, e, caret))
    BY BeginDragSelectGood
  <2>3. \/ MouseEvent(w, e, caret) \in {w, Wheel(w, e), [w EXCEPT !.press = None], [w EXCEPT !.press = e]}
        \/ w.press # None /\ MouseEvent(w, e, caret) = BeginDragSelect(w, e, caret)
    <3>1. CASE e.kind \in {"scrollup", "scrolldown"}
      BY <1>4, <3>1 DEF MouseEvent
    <3>2. CASE e.kind = "press"
      BY <1>4, <3>2 DEF MouseEvent
    <3>3. CASE e.kind = "drag" /\ w.press # None
      BY <1>4, <3>3 DEF MouseEvent
    <3>4. CASE e.kind = "release"
      BY <1>4, <3>4 DEF MouseEvent
    <3>5. CASE e.kind \notin {"scrollup", "scrolldown", "press", "release"}
               /\ ~(e.kind = "drag" /\ w.press # None)
      BY <1>4, <3>5 DEF MouseEvent
    <3> QED
      BY <3>1, <3>2, <3>3, <3>4, <3>5
  <2> QED
    BY <1>1, <2>1, <2>2, <2>3
<1> QED
  BY <1>3, <1>4

LEMMA CommandedGood ==
  ASSUME NEW w, Good(w), NEW caret \in Carets, NEW name, height \in Heights
  PROVE  Good(Commanded(w, name, caret))
<1>1. CASE name = "EnterCopyMode"
  BY <1>1, EnterCopyModeGood DEF Commanded
<1>2. CASE name # "EnterCopyMode"
  <2> DEFINE rows == IF w.zoomed THEN height ELSE FullHeight
             s == Resized(w.scr, rows)
             r == Commanded(w, name, caret)
  <2>1. /\ DOMAIN w = StateFields
        /\ ScreenOk(w.scr) /\ w.cm \in Copies \cup {None} /\ w.press \in MouseReport \cup {None}
        /\ w.zoomed \in BOOLEAN /\ w.step \in StepRecord
        /\ w.step.slid \/ w.step.clip = w.step.shown
    BY DEF Good
  <2>2. /\ height \in Nat /\ 1 <= height /\ FullHeight \in Nat /\ 1 <= FullHeight
    <3>1. height \in Nat \ {0} /\ FullHeight \in Nat /\ height < FullHeight
      BY CopyModeAssumption
    <3> QED
      BY <3>1
  <2>3. rows \in Nat /\ 1 <= rows
    BY <2>2
  <2>4. /\ DOMAIN r = StateFields /\ r.scr = s /\ r.cm = w.cm /\ r.press = w.press
        /\ r.zoomed = ~w.zoomed /\ r.step = w.step /\ r.moved = (w.cm # None)
    BY <1>2, <2>1 DEF Commanded, StateFields
  <2> HIDE DEF rows
  <2>5. ScreenOk(s)
    BY <2>1, <2>3, ResizedOk
  <2> HIDE DEF r, s
  <2>6. Good(r)
    BY <2>1, <2>4, <2>5 DEF Good
  <2> QED
    BY <2>6 DEF r
<1> QED
  BY <1>1, <1>2

LEMMA ApplyEventGood ==
  ASSUME NEW w, Good(w), NEW caret \in Carets, NEW e \in Event, height \in Heights
  PROVE  Good(ApplyEvent(w, e, caret))
<1>1. height \in Nat
  BY CopyModeAssumption
<1>2. CASE e.ev = "pane"
  <2> DEFINE r == ApplyEvent(w, e, caret)
             sent == [w.step EXCEPT !.typed = @ \o e.bytes]
  <2>1. e.bytes \in Seq(Byte)
    BY <1>2 DEF Event
  <2>2. /\ DOMAIN w = StateFields
        /\ ScreenOk(w.scr) /\ w.cm \in Copies \cup {None} /\ w.press \in MouseReport \cup {None}
        /\ w.zoomed \in BOOLEAN /\ w.moved \in BOOLEAN /\ w.step \in StepRecord
        /\ w.step.slid \/ w.step.clip = w.step.shown
        /\ w.cm # None /\ ~w.moved => Fits(w.cm, w.scr)
    BY DEF Good
  <2>3. /\ DOMAIN r = StateFields /\ r.scr = w.scr /\ r.cm = w.cm /\ r.press = w.press
        /\ r.zoomed = w.zoomed /\ r.step = sent /\ r.moved = w.moved
    BY <1>2, <2>2 DEF ApplyEvent, StateFields
  <2>4. sent \in StepRecord /\ sent.clip = w.step.clip /\ sent.shown = w.step.shown
        /\ sent.slid = w.step.slid
    <3> DEFINE SB == Seq(Byte)
               b  == w.step.typed \o e.bytes
    <3>1. w.step \in [typed : SB, forwarded : Nat, clip : Cells, shown : Cells, slid : BOOLEAN]
      BY <2>2 DEF StepRecord
    <3>2. w.step.typed \in Seq(Byte)
      BY <3>1
    <3>3. b \in SB
      BY <2>1, <3>2
    <3>4. sent = [w.step EXCEPT !.typed = b]
      OBVIOUS
    <3> HIDE DEF SB, b, sent
    <3>5. sent \in [typed : SB, forwarded : Nat, clip : Cells, shown : Cells, slid : BOOLEAN]
          /\ sent.clip = w.step.clip /\ sent.shown = w.step.shown /\ sent.slid = w.step.slid
      BY <3>1, <3>3, <3>4
    <3> QED
      BY <3>5 DEF StepRecord, SB
  <2> HIDE DEF r, sent
  <2>5. Good(r)
    BY <2>2, <2>3, <2>4 DEF Good
  <2> QED
    BY <2>5 DEF r
<1>3. CASE e.ev = "command"
  BY <1>3, CommandedGood DEF ApplyEvent
<1>4. CASE e.ev = "mouse"
  <2>1. e \in MouseReport
    BY <1>4 DEF Event, MouseReport
  <2> QED
    BY <1>1, <1>4, <2>1, MouseEventGood DEF ApplyEvent
<1>5. CASE e.ev = "copykey"
  BY <1>5, CopyModeKeyGood DEF ApplyEvent
<1>6. CASE e.ev \notin {"pane", "command", "mouse", "copykey"}
  BY <1>6 DEF ApplyEvent
<1> QED
  BY <1>2, <1>3, <1>4, <1>5, <1>6

\* The events of a read, one after the other.  (The states an event handler takes are
\* not a set, so FoldExists does not say that the function is there.)
IsApplied(f, w, events, caret, n) ==
  f = [i \in 0..n |-> IF i = 0 THEN w ELSE ApplyEvent(f[i - 1], events[i], caret)]

LEMMA AppliedExists ==
  ASSUME NEW w, NEW events, NEW caret, NEW n \in Nat
  PROVE  \E f : IsApplied(f, w, events, caret, n)
<1> DEFINE Upto(k, f) == f = [i \in 0..k |-> IF i = 0 THEN w ELSE ApplyEvent(f[i - 1], events[i], caret)]
           T == {k \in 0..n : \E f : Upto(k, f)}
<1>1. 0 \in T
  <2>1. Upto(0, [i \in 0..0 |-> w])
    OBVIOUS
  <2>2. 0 \in 0..n
    OBVIOUS
  <2> HIDE DEF Upto
  <2> QED
    BY <2>1, <2>2
<1>2. ASSUME NEW k \in 1..n, k - 1 \in T PROVE k \in T
  <2>1. PICK f : Upto(k - 1, f)
    BY <1>2
  <2> DEFINE new == ApplyEvent(f[k - 1], events[k], caret)
             g == [i \in 0..k |-> IF i = k THEN new ELSE f[i]]
  <2>2. ASSUME NEW i \in 0..k
        PROVE  g[i] = IF i = 0 THEN w ELSE ApplyEvent(g[i - 1], events[i], caret)
    <3>1. CASE i = k
      <4>1. i # 0 /\ k - 1 \in 0..k /\ k - 1 # k
        BY <3>1
      <4>2. g[i] = new /\ g[k - 1] = f[k - 1]
        BY <3>1, <4>1
      <4> HIDE DEF g
      <4> QED
        BY <3>1, <4>1, <4>2
    <3>2. CASE i # k
      <4>1. i \in 0..k - 1 /\ (i # 0 => i - 1 \in 0..k /\ i - 1 # k)
        BY <3>2
      <4>2. g[i] = f[i] /\ (i # 0 => g[i - 1] = f[i - 1])
        BY <3>2, <4>1
      <4>3. f[i] = IF i = 0 THEN w ELSE ApplyEvent(f[i - 1], events[i], caret)
        BY <2>1, <4>1
      <4> HIDE DEF g, Upto
      <4> QED
        BY <4>2, <4>3
    <3> QED
      BY <3>1, <3>2
  <2>3. g = [i \in 0..k |-> g[i]]
    OBVIOUS
  <2> HIDE DEF g
  <2>4. Upto(k, g)
    BY <2>2, <2>3
  <2>5. k \in 0..n
    OBVIOUS
  <2> HIDE DEF Upto
  <2> QED
    BY <2>4, <2>5
<1> HIDE DEF T
<1>4. n \in Nat
  OBVIOUS
<1>5. \A k \in 1..n : k - 1 \in T => k \in T
  BY <1>2
<1>6. 0..n \subseteq T
  BY <1>1, <1>4, <1>5, Climbs, Zenon
<1>3. 0..n \subseteq T /\ n \in 0..n
  BY <1>4, <1>6
<1> QED
  BY <1>3 DEF T, IsApplied

LEMMA AppliedGood ==
  ASSUME NEW w, Good(w), NEW caret \in Carets, NEW events \in Seq(Event), height \in Heights
  PROVE  Good(Applied(w, events, caret))
<1> DEFINE n == Len(events)
           Eq(f) == f = [i \in 0..n |-> IF i = 0 THEN w ELSE ApplyEvent(f[i - 1], events[i], caret)]
           after == CHOOSE f : Eq(f)
<1> HIDE DEF Event
<1>1. n \in Nat /\ \A i \in 1..n : events[i] \in Event
  OBVIOUS
<1>2. Eq(after)
  <2>1. PICK f : IsApplied(f, w, events, caret, n)
    BY <1>1, AppliedExists
  <2>2. Eq(f)
    BY <2>1 DEF IsApplied
  <2> QED
    BY <2>2
<1>3. Applied(w, events, caret) = after[n]
  BY DEF Applied
<1> HIDE DEF after, n
<1> DEFINE T == {i \in 0..n : Good(after[i])}
<1>4. 0 \in T
  BY <1>1, <1>2
<1>5. ASSUME NEW i \in 1..n, i - 1 \in T PROVE i \in T
  <2>1. i \in 0..n /\ i # 0
    BY <1>1
  <2>2. after[i] = ApplyEvent(after[i - 1], events[i], caret)
    BY <1>2, <2>1
  <2>3. Good(after[i - 1])
    BY <1>5
  <2>4. Good(after[i])
    BY <1>1, <2>2, <2>3, ApplyEventGood
  <2> QED
    BY <2>1, <2>4
<1> HIDE DEF T
<1>8. n \in Nat
  BY <1>1
<1>9. \A i \in 1..n : i - 1 \in T => i \in T
  BY <1>5
<1>10. 0..n \subseteq T
  BY <1>4, <1>8, <1>9, Climbs, Zenon
<1>6. 0..n \subseteq T /\ n \in 0..n
  BY <1>8, <1>10
<1>7. Good(after[n])
  BY <1>6 DEF T
<1> QED
  BY <1>3, <1>7

-----------------------------------------------------------------------------
(* The invariant                                                           *)

Present == [scr |-> scr, cm |-> cm, press |-> press, zoomed |-> zoomed, step |-> step, moved |-> moved]

\* The state is good, and what was sent and what is half parsed are bytes.
Kept ==
  /\ Good(Present)
  /\ height \in Heights
  /\ par \in Parser
  /\ wire \in Seq(Byte)

LEMMA PresentFields ==
  /\ DOMAIN Present = StateFields
  /\ Present.scr = scr /\ Present.cm = cm /\ Present.press = press /\ Present.zoomed = zoomed
  /\ Present.step = step /\ Present.moved = moved
BY DEF Present, StateFields

LEMMA NoStepTyped == NoStep \in StepRecord /\ NoStep.clip = NoStep.shown
BY DEF NoStep, StepRecord, Cells

\* What Kept says of the variables.
LEMMA KeptParts ==
  ASSUME Kept
  PROVE  /\ ScreenOk(scr) /\ cm \in Copies \cup {None} /\ press \in MouseReport \cup {None}
         /\ zoomed \in BOOLEAN /\ moved \in BOOLEAN /\ step \in StepRecord
         /\ step.slid \/ step.clip = step.shown
         /\ cm # None /\ ~moved => Fits(cm, scr)
<1> HIDE DEF Present
<1> QED
  BY PresentFields DEF Kept, Good

\* A step that gives the variables good values.
LEMMA KeptNext ==
  ASSUME ScreenOk(scr'), cm' \in Copies \cup {None}, press' \in MouseReport \cup {None},
         zoomed' \in BOOLEAN, moved' \in BOOLEAN, step' \in StepRecord,
         step'.slid \/ step'.clip = step'.shown,
         cm' # None /\ ~moved' => Fits(cm', scr'),
         height' \in Heights, par' \in Parser, wire' \in Seq(Byte)
  PROVE  Kept'
<1> DEFINE w == [scr |-> scr', cm |-> cm', press |-> press', zoomed |-> zoomed', step |-> step',
                 moved |-> moved']
<1>1. Present' = w
  BY DEF Present
<1>2. /\ DOMAIN w = StateFields
      /\ w.scr = scr' /\ w.cm = cm' /\ w.press = press' /\ w.zoomed = zoomed'
      /\ w.step = step' /\ w.moved = moved'
  BY DEF StateFields
<1> HIDE DEF w
<1>3. Good(w)
  BY <1>2 DEF Good
<1> QED
  BY <1>1, <1>3 DEF Kept

\* A read that is applied: from the state before, nothing written yet.
LEMMA ReadKept ==
  ASSUME Kept, NEW events \in Seq(Event), ApplyEvents(events),
         height' = height, par' \in Parser, wire' \in Seq(Byte)
  PROVE  Kept'
<1>0. PICK caret \in Carets :
        LET v == Applied([scr |-> scr, cm |-> cm, press |-> press, zoomed |-> zoomed,
                          step |-> NoStep, moved |-> moved], events, caret)
        IN  /\ scr' = v.scr /\ cm' = v.cm /\ press' = v.press /\ zoomed' = v.zoomed
            /\ step' = v.step /\ moved' = v.moved
  BY DEF ApplyEvents
<1> DEFINE w0 == [scr |-> scr, cm |-> cm, press |-> press, zoomed |-> zoomed,
                  step |-> NoStep, moved |-> moved]
           w  == Applied(w0, events, caret)
<1>1. /\ DOMAIN w0 = StateFields
      /\ w0.scr = scr /\ w0.cm = cm /\ w0.press = press /\ w0.zoomed = zoomed
      /\ w0.step = NoStep /\ w0.moved = moved
  BY DEF StateFields
<1>2. /\ scr' = w.scr /\ cm' = w.cm /\ press' = w.press /\ zoomed' = w.zoomed /\ step' = w.step
      /\ moved' = w.moved
  BY <1>0
<1>3. height \in Heights
  BY DEF Kept
<1> HIDE DEF w0
<1>4. Good(w0)
  BY <1>1, KeptParts, NoStepTyped DEF Good
<1>5. Good(w)
  BY <1>3, <1>4, AppliedGood
<1> HIDE DEF w
<1>6. /\ ScreenOk(w.scr) /\ w.cm \in Copies \cup {None} /\ w.press \in MouseReport \cup {None}
      /\ w.zoomed \in BOOLEAN /\ w.moved \in BOOLEAN /\ w.step \in StepRecord
      /\ w.step.slid \/ w.step.clip = w.step.shown
      /\ w.cm # None /\ ~w.moved => Fits(w.cm, w.scr)
  BY <1>5 DEF Good
<1>7. /\ ScreenOk(scr') /\ cm' \in Copies \cup {None} /\ press' \in MouseReport \cup {None}
      /\ zoomed' \in BOOLEAN /\ moved' \in BOOLEAN /\ step' \in StepRecord
      /\ step'.slid \/ step'.clip = step'.shown
      /\ cm' # None /\ ~moved' => Fits(cm', scr')
      /\ height' \in Heights
  BY <1>2, <1>3, <1>6
<1> QED
  BY <1>7, KeptNext

LEMMA InitKept == Init => Kept
<1> SUFFICES ASSUME Init PROVE Kept
  OBVIOUS
<1> USE DEF Init
<1>1. height \in Heights /\ height \in Nat /\ 1 <= height /\ FullHeight \in Nat /\ 1 <= FullHeight
  <2>1. height \in Nat \ {0} /\ FullHeight \in Nat /\ height < FullHeight
    BY CopyModeAssumption
  <2> QED
    BY <2>1
<1>2. ScreenOk(scr)
  <2> DEFINE rows == IF zoomed THEN FullHeight ELSE height
  <2>1. rows \in Nat /\ 1 <= rows
    BY <1>1
  <2>2. scr \in {FreshScreen(rows), Fed(FreshScreen(rows))}
    OBVIOUS
  <2> HIDE DEF rows
  <2>3. ScreenOk(FreshScreen(rows))
    BY <2>1, FreshOk
  <2>4. ScreenOk(Fed(FreshScreen(rows)))
    BY <2>3, FedOk
  <2> QED
    BY <2>2, <2>3, <2>4
<1>3. par \in Parser /\ wire \in Seq(Byte)
  <2>1. <<>> \in Seq(Byte) /\ <<>> \in Seq(Event)
    OBVIOUS
  <2> QED
    BY <2>1 DEF Quiet, Parser, Mode
<1> HIDE DEF Present
<1>4. Good(Present)
  BY <1>2, PresentFields, NoStepTyped DEF Good
<1> QED
  BY <1>1, <1>3, <1>4 DEF Kept

\* A key is bytes, none of them of a report.
LEMMA KeyTyped ==
  ASSUME NEW s \in Seq({Key(c) : c \in Class})
  PROVE  s \in Seq(Byte) /\ \A i \in 1..Len(s) : ~s[i].rep /\ s[i].at.kind # "drag"
<1> DEFINE K == {Key(c) : c \in Class}
<1>1. \A b \in K : b \in Byte /\ ~b.rep /\ b.at.kind # "drag"
  <2> SUFFICES ASSUME NEW c \in Class
               PROVE  Key(c) \in Byte /\ ~Key(c).rep /\ Key(c).at.kind # "drag"
    OBVIOUS
  <2> HIDE DEF Class
  <2> QED
    BY DEF Key, NoMouse, Byte
<1> HIDE DEF K, Byte
<1> QED
  BY <1>1 DEF K

\* A report is bytes.
LEMMA ReportTyped ==
  ASSUME NEW kind \in {"button", "drag", "scrollup", "scrolldown"}, NEW spot \in Spots,
         NEW final \in {"M", "m"}
  PROVE  Report(kind, spot, final) \in Seq(Byte)
<1> DEFINE B(c) == [Key(c) EXCEPT !.rep = TRUE]
           p == [B("5") EXCEPT !.at = [kind |-> kind, col |-> spot[1], row |-> spot[2]]]
<1>1. \A c \in Class : B(c) \in Byte
  BY DEF Key, NoMouse, Byte
<1>2. {"esc", "[", "<", "5", final} \subseteq Class
  BY DEF Class, CsiFinal
<1>3. spot[1] \in Nat /\ spot[2] \in Nat
  BY CopyModeAssumption
<1>4. p \in Byte
  <2>1. B("5") \in Byte
    BY <1>1, <1>2
  <2> HIDE DEF B
  <2> QED
    BY <1>3, <2>1 DEF Byte
<1>5. B("esc") \in Byte /\ B("[") \in Byte /\ B("<") \in Byte /\ B(final) \in Byte
  BY <1>1, <1>2
<1>6. Report(kind, spot, final) = <<B("esc"), B("["), B("<"), p, B(final)>>
  BY DEF Report
<1> HIDE DEF B, p, Byte
<1> QED
  BY <1>4, <1>5, <1>6

\* What the terminal sends, and what the pane does: nothing is read.
LEMMA UnreadKept ==
  ASSUME Kept, Unread, ScreenOk(scr'), zoomed' = zoomed, height' \in Heights, wire' \in Seq(Byte),
         moved' \in BOOLEAN, ~moved' /\ cm # None => ~moved /\ scr' = scr
  PROVE  Kept'
<1>1. /\ cm \in Copies \cup {None} /\ press \in MouseReport \cup {None}
      /\ zoomed \in BOOLEAN /\ moved \in BOOLEAN
      /\ cm # None /\ ~moved => Fits(cm, scr)
  BY KeptParts
<1>2. cm' = cm /\ press' = press /\ par' = par /\ step' = NoStep
  BY DEF Unread
<1>3. par \in Parser
  BY DEF Kept
<1>4. cm' # None /\ ~moved' => Fits(cm', scr')
  BY <1>1, <1>2
<1>5. /\ cm' \in Copies \cup {None} /\ press' \in MouseReport \cup {None}
      /\ zoomed' \in BOOLEAN /\ step' \in StepRecord /\ step'.clip = step'.shown /\ par' \in Parser
  BY <1>1, <1>2, <1>3, NoStepTyped
<1> QED
  BY <1>4, <1>5, KeptNext

LEMMA SendsKept ==
  ASSUME Kept, NEW bytes \in Seq(Byte), Sends(bytes)
  PROVE  Kept'
<1>1. /\ wire' = wire \o bytes /\ moved' = moved /\ Unread
      /\ scr' = scr /\ height' = height /\ zoomed' = zoomed
  BY DEF Sends, pane
<1>2. wire \in Seq(Byte) /\ height \in Heights
  BY DEF Kept
<1>3. wire' \in Seq(Byte)
  BY <1>1, <1>2
<1>4. ScreenOk(scr) /\ moved \in BOOLEAN
  BY KeptParts
<1> QED
  BY <1>1, <1>2, <1>3, <1>4, UnreadKept

LEMMA ClientInputKept ==
  ASSUME Kept, NEW n \in 1..Len(wire), NEW late \in BOOLEAN, ClientInput(n, late)
  PROVE  Kept'
<1> DEFINE p == IF late THEN FlushEscapeTimeout(par, CopyBit) ELSE par
           bytes == SubSeq(wire, 1, n)
           q == Feed(p, bytes, CopyBit)
<1>1. wire \in Seq(Byte) /\ par \in Parser /\ CopyBit \in BOOLEAN
  BY DEF Kept, CopyBit
<1>2. p \in Parser
  BY <1>1, FlushEscapeTimeoutTyped
<1>3. bytes \in Seq(Byte) /\ SubSeq(wire, n + 1, Len(wire)) \in Seq(Byte)
  BY <1>1
<1>4. /\ ApplyEvents(q.out) /\ par' = [q EXCEPT !.out = <<>>]
      /\ wire' = SubSeq(wire, n + 1, Len(wire)) /\ height' = height
  BY DEF ClientInput
<1> HIDE DEF p, bytes
<1>5. q \in Parser
  BY <1>1, <1>2, <1>3, FeedTyped
<1> HIDE DEF q
<1>6. q.out \in Seq(Event) /\ [q EXCEPT !.out = <<>>] \in Parser
  BY <1>5, GathersTyped DEF Parser
<1>7. par' \in Parser /\ wire' \in Seq(Byte)
  BY <1>3, <1>4, <1>6
<1> QED
  BY <1>4, <1>6, <1>7, ReadKept

LEMMA EscapeTimeoutKept ==
  ASSUME Kept, EscapeTimeout
  PROVE  Kept'
<1> DEFINE q == FlushEscapeTimeout(par, CopyBit)
<1>1. wire \in Seq(Byte) /\ par \in Parser /\ CopyBit \in BOOLEAN
  BY DEF Kept, CopyBit
<1>2. q \in Parser
  BY <1>1, FlushEscapeTimeoutTyped
<1>3. /\ ApplyEvents(q.out) /\ par' = [q EXCEPT !.out = <<>>]
      /\ wire' = wire /\ height' = height
  BY DEF EscapeTimeout, term
<1> HIDE DEF q
<1>4. q.out \in Seq(Event) /\ [q EXCEPT !.out = <<>>] \in Parser
  BY <1>2, GathersTyped DEF Parser
<1>5. par' \in Parser /\ wire' \in Seq(Byte)
  BY <1>1, <1>3, <1>4
<1> QED
  BY <1>3, <1>4, <1>5, ReadKept

LEMMA StepKept == Kept /\ [Next]_vars => Kept'
<1> SUFFICES ASSUME Kept, [Next]_vars PROVE Kept'
  OBVIOUS
<1>1. /\ ScreenOk(scr) /\ moved \in BOOLEAN /\ height \in Heights /\ wire \in Seq(Byte)
      /\ cm \in Copies \cup {None} /\ press \in MouseReport \cup {None} /\ zoomed \in BOOLEAN
      /\ par \in Parser
  BY KeptParts DEF Kept
<1>2. ASSUME NEW n \in 1..Len(wire), NEW late \in BOOLEAN, ClientInput(n, late) PROVE Kept'
  BY <1>2, ClientInputKept
<1>3. CASE EscapeTimeout
  BY <1>3, EscapeTimeoutKept
<1>4. ASSUME NEW key \in Keys, Type(key) PROVE Kept'
  <2>1. key \in Seq({Key(c) : c \in Class}) /\ Sends(key)
    BY <1>4, CopyModeAssumption DEF Type
  <2>2. key \in Seq(Byte)
    BY <2>1, KeyTyped
  <2> QED
    BY <2>1, <2>2, SendsKept
<1>5. ASSUME NEW spot \in Spots, MousePress(spot) \/ MouseDrag(spot) \/ MouseRelease(spot) PROVE Kept'
  <2>1. /\ Report("button", spot, "M") \in Seq(Byte) /\ Report("drag", spot, "M") \in Seq(Byte)
        /\ Report("button", spot, "m") \in Seq(Byte)
    BY ReportTyped
  <2>2. \/ Sends(Report("button", spot, "M")) \/ Sends(Report("drag", spot, "M"))
        \/ Sends(Report("button", spot, "m"))
    BY <1>5 DEF MousePress, MouseDrag, MouseRelease
  <2> QED
    BY <2>1, <2>2, SendsKept
<1>6. ASSUME NEW spot \in Spots, NEW kind \in Buttons, MouseWheel(kind, spot) PROVE Kept'
  <2>1. kind \in {"scrollup", "scrolldown"} /\ Sends(Report(kind, spot, "M"))
    BY <1>6 DEF MouseWheel
  <2>2. Report(kind, spot, "M") \in Seq(Byte)
    BY <2>1, ReportTyped
  <2> QED
    BY <2>1, <2>2, SendsKept
<1>7. CASE Output
  <2>1. /\ scr' = Fed(scr) /\ moved' = (moved \/ cm # None) /\ Unread
        /\ height' = height /\ zoomed' = zoomed /\ wire' = wire
    BY <1>7 DEF Output, term
  <2>2. ScreenOk(scr')
    BY <1>1, <2>1, FedOk
  <2> QED
    BY <1>1, <2>1, <2>2, UnreadKept
<1>8. ASSUME NEW h \in Heights, Resize(h) PROVE Kept'
  <2>1. /\ scr' = Resized(scr, h) /\ moved' = (moved \/ cm # None) /\ Unread
        /\ height' = h /\ zoomed' = zoomed /\ wire' = wire
    BY <1>8 DEF Resize, term
  <2>2. h \in Nat /\ 1 <= h
    <3>1. h \in Nat \ {0}
      BY CopyModeAssumption
    <3> QED
      BY <3>1
  <2>3. ScreenOk(scr')
    BY <1>1, <2>1, <2>2, ResizedOk
  <2> QED
    BY <1>1, <2>1, <2>3, UnreadKept
<1>9. CASE MouseTracking
  <2>1. scr' = scr /\ moved' = moved /\ Unread /\ height' = height /\ zoomed' = zoomed /\ wire' = wire
    BY <1>9 DEF MouseTracking, term
  <2> QED
    BY <1>1, <2>1, UnreadKept
<1>10. CASE UNCHANGED vars
  <2>1. /\ scr' = scr /\ cm' = cm /\ press' = press /\ zoomed' = zoomed /\ moved' = moved
        /\ step' = step /\ height' = height /\ par' = par /\ wire' = wire
    BY <1>10 DEF vars, pane, term
  <2>2. /\ step \in StepRecord /\ (step.slid \/ step.clip = step.shown)
        /\ cm # None /\ ~moved => Fits(cm, scr)
    BY KeptParts
  <2> QED
    BY <1>1, <2>1, <2>2, KeptNext
<1> QED
  BY <1>2, <1>3, <1>4, <1>5, <1>6, <1>7, <1>8, <1>9, <1>10 DEF Next

\* Every state is good.
THEOREM KeptHolds == Spec => []Kept
BY InitKept, StepKept, PTL DEF Spec

\* Copy mode is where the pane is, until the pane moves under it.
THEOREM ViewInStepHolds == Spec => []ViewInStep
<1>1. Kept => ViewInStep
  <2> SUFFICES ASSUME Kept, cm # None, ~moved PROVE ViewInStep
    BY DEF ViewInStep
  <2>1. cm \in Copies /\ ScreenOk(scr) /\ Fits(cm, scr)
    BY KeptParts
  <2>2. /\ cm.offset = ViewportOffset(scr) /\ cm.cursor.x < Cols /\ cm.cursor.y < scr.rows
        /\ cm.sel # None => cm.sel.anchor.y < scr.total /\ cm.sel.head.y < scr.total
    BY <2>1 DEF Fits, Placed
  <2>3. /\ cm.cursor \in Point /\ scr.rows \in Nat /\ scr.total \in Nat
        /\ cm.sel # None => cm.sel \in Selection
    BY <2>1, CopyTyped, ScreenFacts
  <2>4. cm.cursor \in [x : 0..Cols - 1, y : 0..scr.rows - 1]
    BY <2>2, <2>3, ScreenAssumption DEF Point
  <2>5. cm.sel # None => {cm.sel.anchor.y, cm.sel.head.y} \subseteq 0..scr.total - 1
    BY <2>2, <2>3 DEF Selection, Point
  <2> QED
    BY <2>2, <2>4, <2>5 DEF ViewInStep
<1> QED
  BY <1>1, KeptHolds, PTL

\* What goes to the clipboard was shown.
THEOREM CopiesWhatIsShownHolds == Spec => []CopiesWhatIsShown
<1>1. Kept => CopiesWhatIsShown
  BY KeptParts DEF CopiesWhatIsShown
<1> QED
  BY <1>1, KeptHolds, PTL

\* A selection lies where the pane is, and what it copies is what it showed.
THEOREM SelectsWhatIsShownHolds == Spec => []SelectsWhatIsShown
<1>1. ViewInStep /\ CopiesWhatIsShown => SelectsWhatIsShown
  BY DEF SelectsWhatIsShown
<1> QED
  BY <1>1, ViewInStepHolds, CopiesWhatIsShownHolds, PTL

-----------------------------------------------------------------------------
(* The bytes of a report                                                   *)

Meant    == {b \in Byte : ~b.rep}
Finals   == {"M", "m"}
Swallows == {"Armed", "NCsi", "ACsi", "ASs3"}
Normal   == {"Ground", "NEsc", "NCsi", "NMouse"}

\* One byte of a report and the next.
Follows(a, b) ==
  /\ a.rep /\ b.rep
  /\ \/ a.c = "esc" /\ b.c = "["
     \/ a.c = "[" /\ b.c = "<"
     \/ a.c = "<" /\ b.c = "5" /\ b.at.kind # "none"
     \/ a.c = "5" /\ a.at.kind # "none" /\ b.c = "M"
     \/ a.c = "5" /\ a.at.kind = "button" /\ b.c = "m"

\* A byte of a report is followed by the next, and follows the one before, where the
\* bytes have not been read.
Chained(w) ==
  \A i \in 1..Len(w) : w[i].rep =>
    /\ w[i].c \notin Finals => i < Len(w) /\ Follows(w[i], w[i + 1])
    /\ w[i].c # "esc" /\ i > 1 => Follows(w[i - 1], w[i])

\* After k bytes of w the parser is between reports, or in the middle of one.
Clear(p, w, k) ==
  /\ \A i \in 1..Len(p.pending) : ~p.pending[i].rep
  /\ k < Len(w) /\ w[k + 1].rep => w[k + 1].c = "esc"

Cut(p, w, k) ==
  /\ k < Len(w) /\ p.pending # <<>> /\ Follows(p.pending[Len(p.pending)], w[k + 1])
  /\ LET l == p.pending[Len(p.pending)].c
     IN  \/ p.mode = "NEsc" /\ Len(p.pending) = 1 /\ l = "esc"
         \/ p.mode = "NCsi" /\ Len(p.pending) = 2 /\ l = "["
         \/ p.mode = "NMouse" /\ Len(p.pending) = 3 /\ l = "<"
         \/ p.mode = "NMouse" /\ Len(p.pending) = 4 /\ l = "5"

Aligned(p, w, k) == Clear(p, w, k) \/ Cut(p, w, k)

\* What the parser has for the pane is of C.
PanesIn(out, C) == \A i \in 1..Len(out) : out[i].ev = "pane" => out[i].bytes \in Seq(C)
Types(p, C) == p.ground \in Seq(C) /\ PanesIn(p.out, C)

LEMMA PanesAppend ==
  ASSUME NEW out \in Seq(Event), NEW e \in Event, NEW C, PanesIn(out, C),
         e.ev = "pane" => e.bytes \in Seq(C)
  PROVE  PanesIn(Append(out, e), C)
<1> DEFINE r == Append(out, e)
<1> HIDE DEF Event
<1>1. Len(r) = Len(out) + 1 /\ Len(out) \in Nat
      /\ \A i \in 1..Len(out) + 1 : r[i] = IF i = Len(out) + 1 THEN e ELSE out[i]
  OBVIOUS
<1> HIDE DEF r
<1>2. ASSUME NEW i \in 1..Len(r), r[i].ev = "pane" PROVE r[i].bytes \in Seq(C)
  <2>1. CASE i = Len(out) + 1
    BY <1>1, <1>2, <2>1
  <2>2. CASE i # Len(out) + 1
    <3>1. i \in 1..Len(out) /\ r[i] = out[i]
      BY <1>1, <2>2
    <3> QED
      BY <1>2, <3>1 DEF PanesIn
  <2> QED
    BY <2>1, <2>2
<1> QED
  BY <1>2 DEF PanesIn, r

\* The fields of the parsers that the helpers return.
LEMMA EmittedFields ==
  ASSUME NEW p \in Parser, NEW e
  PROVE  LET r == Emitted(p, e)
         IN  /\ r.mode = p.mode /\ r.pending = p.pending /\ r.ground = p.ground
             /\ r.out = Append(p.out, e)
BY DEF Emitted, Parser

LEMMA InModeFields ==
  ASSUME NEW p \in Parser, NEW mode, NEW bytes
  PROVE  LET r == InMode(p, mode, bytes)
         IN  r.mode = mode /\ r.pending = bytes /\ r.ground = p.ground /\ r.out = p.out
BY DEF InMode, Parser

LEMMA GathersFields ==
  ASSUME NEW p \in Parser, NEW g
  PROVE  LET r == [p EXCEPT !.ground = g]
         IN  r.mode = p.mode /\ r.pending = p.pending /\ r.ground = g /\ r.out = p.out
BY DEF Parser

LEMMA SendsFields ==
  ASSUME NEW p \in Parser, NEW es
  PROVE  LET r == [p EXCEPT !.out = @ \o es]
         IN  r.mode = p.mode /\ r.pending = p.pending /\ r.ground = p.ground /\ r.out = p.out \o es
BY DEF Parser

LEMMA EmitsTypes ==
  ASSUME NEW p \in Parser, NEW C, Types(p, C), NEW e \in Event,
         e.ev = "pane" => e.bytes \in Seq(C)
  PROVE  Types(Emitted(p, e), C)
<1> HIDE DEF Event
<1>1. p.out \in Seq(Event)
  BY DEF Parser
<1>2. PanesIn(Append(p.out, e), C)
  BY <1>1, PanesAppend DEF Types
<1> QED
  BY <1>2, EmittedFields DEF Types

LEMMA InModeTypes ==
  ASSUME NEW p \in Parser, NEW C, Types(p, C), NEW mode, NEW bytes
  PROVE  Types(InMode(p, mode, bytes), C)
BY InModeFields DEF Types

LEMMA FlushTypes ==
  ASSUME NEW p \in Parser, NEW C, Types(p, C)
  PROVE  LET r == FlushGround(p)
         IN  Types(r, C) /\ r.ground = <<>> /\ r.mode = p.mode /\ r.pending = p.pending
<1>1. CASE p.ground = <<>>
  BY <1>1 DEF FlushGround
<1>2. CASE p.ground # <<>>
  <2> DEFINE q == Emitted(p, Pane(p.ground))
             r == [q EXCEPT !.ground = <<>>]
  <2>1. p.ground \in Seq(Byte) /\ p.ground \in Seq(C)
    BY DEF Parser, Types
  <2>2. Pane(p.ground) \in Event /\ Pane(p.ground).bytes = p.ground
    BY <2>1, EventsTyped DEF Pane
  <2>3. q \in Parser /\ Types(q, C) /\ q.mode = p.mode /\ q.pending = p.pending
    BY <2>1, <2>2, EmittedTyped, EmitsTypes, EmittedFields
  <2>4. FlushGround(p) = r
    BY <1>2 DEF FlushGround
  <2> HIDE DEF q
  <2>5. r.mode = q.mode /\ r.pending = q.pending /\ r.ground = <<>> /\ r.out = q.out
    BY <2>3, GathersFields
  <2> HIDE DEF r
  <2>6. <<>> \in Seq(C)
    OBVIOUS
  <2> QED
    BY <2>3, <2>4, <2>5, <2>6 DEF Types
<1> QED
  BY <1>1, <1>2

LEMMA GroundTypes ==
  ASSUME NEW p \in Parser, NEW b \in Byte, NEW copy \in BOOLEAN, NEW C, Types(p, C),
         copy \/ b.c = "esc" \/ b \in C
  PROVE  LET r == Ground(p, b, copy)
         IN  /\ Types(r, C)
             /\ b.c = "esc" => r.mode = "NEsc" /\ r.pending = <<b>>
             /\ copy => r.mode \in Normal
<1> DEFINE f == FlushGround(p)
<1>1. f \in Parser /\ Types(f, C)
  BY FlushGroundTyped, FlushTypes
<1> HIDE DEF f
<1>2. CASE b.c = "esc"
  <2>1. Ground(p, b, copy) = InMode(f, "NEsc", <<b>>)
    BY <1>2 DEF Ground, f
  <2> QED
    BY <1>1, <2>1, InModeTypes, InModeFields DEF Normal
<1>3. CASE b.c # "esc" /\ copy
  <2> DEFINE g == InMode(f, "Ground", <<>>)
  <2>1. Ground(p, b, copy) = Emitted(g, CopyKey(b.c))
    BY <1>3 DEF Ground, f
  <2>2. g \in Parser /\ Types(g, C) /\ g.mode = "Ground"
    BY <1>1, RestartTyped, InModeTypes, InModeFields DEF Mode
  <2>3. CopyKey(b.c) \in Event /\ CopyKey(b.c).ev # "pane"
    <3>1. b.c \in KeyName
      BY DEF Byte, KeyName
    <3> QED
      BY <3>1, EventsTyped DEF CopyKey
  <2> HIDE DEF g
  <2>4. Types(Emitted(g, CopyKey(b.c)), C) /\ Emitted(g, CopyKey(b.c)).mode = "Ground"
    BY <2>2, <2>3, EmitsTypes, EmittedFields
  <2> QED
    BY <1>3, <2>1, <2>4 DEF Normal
<1>4. CASE ~copy /\ b.c = "P"
  <2>1. Ground(p, b, copy) = InMode(f, "Armed", <<>>)
    BY <1>4 DEF Ground, f
  <2> QED
    BY <1>1, <1>4, <2>1, InModeTypes
<1>5. CASE ~copy /\ b.c \notin {"esc", "P"}
  <2> DEFINE g == InMode(p, "Ground", <<>>)
             s == Append(g.ground, b)
             r == [g EXCEPT !.ground = s]
  <2>1. Ground(p, b, copy) = r
    BY <1>5 DEF Ground
  <2>2. g \in Parser /\ Types(g, C)
    BY RestartTyped, InModeTypes DEF Mode
  <2> HIDE DEF g
  <2>3. s \in Seq(C)
    BY <1>5, <2>2 DEF Types
  <2> HIDE DEF s
  <2>4. r.ground = s /\ r.out = g.out
    BY <2>2, GathersFields
  <2> HIDE DEF r
  <2>5. Types(r, C)
    BY <2>2, <2>3, <2>4 DEF Types
  <2> QED
    BY <1>5, <2>1, <2>5
<1> QED
  BY <1>2, <1>3, <1>4, <1>5

\* At most one event more.
LEMMA SendsTypes ==
  ASSUME NEW p \in Parser, NEW C, Types(p, C), NEW es,
         es = <<>> \/ \E e \in Event : es = <<e>> /\ (e.ev = "pane" => e.bytes \in Seq(C))
  PROVE  Types([p EXCEPT !.out = @ \o es], C)
<1> DEFINE r == [p EXCEPT !.out = @ \o es]
<1>1. p.out \in Seq(Event)
  BY DEF Parser
<1>2. r.ground = p.ground /\ r.out = p.out \o es
  BY SendsFields
<1> HIDE DEF r, Event
<1>3. CASE es = <<>>
  <2>1. r.out = p.out
    BY <1>1, <1>2, <1>3
  <2> QED
    BY <1>2, <2>1 DEF Types
<1>4. CASE es # <<>>
  <2>3. PICK e \in Event : es = <<e>> /\ (e.ev = "pane" => e.bytes \in Seq(C))
    BY <1>4
  <2>1. r.out = Append(p.out, e)
    BY <1>1, <1>2, <2>3
  <2>2. PanesIn(Append(p.out, e), C)
    BY <1>1, <2>3, PanesAppend DEF Types
  <2> QED
    BY <1>2, <2>1, <2>2 DEF Types
<1> QED
  BY <1>3, <1>4, Zenon DEF r

LEMMA AfterEscTypes ==
  ASSUME NEW p \in Parser, NEW b \in Byte, NEW copy \in BOOLEAN, NEW C, Types(p, C),
         copy \/ (p.pending \in Seq(C) /\ (b.c = "esc" \/ b \in C))
  PROVE  LET r == AfterEsc(p, b, copy)
         IN  /\ Types(r, C)
             /\ b.c = "esc" => r.mode = "NEsc" /\ r.pending = <<b>>
             /\ copy => r.mode \in Normal
<1> DEFINE e == IF copy THEN CopyKey("esc") ELSE Pane(p.pending)
           q == Emitted(p, e)
<1>1. p.pending \in Seq(Byte)
  BY DEF Parser
<1>2. e \in Event /\ (e.ev = "pane" => e.bytes \in Seq(C))
  <2>1. Pane(p.pending) \in Event /\ CopyKey("esc") \in Event
    BY <1>1, EventsTyped DEF KeyName, Class
  <2>2. CopyKey("esc").ev # "pane" /\ Pane(p.pending).bytes = p.pending
    BY DEF CopyKey, Pane
  <2> QED
    BY <2>1, <2>2
<1> HIDE DEF e
<1>3. q \in Parser /\ Types(q, C)
  BY <1>2, EmittedTyped, EmitsTypes
<1>4. CASE b.c = "["
  <2>1. AfterEsc(p, b, copy) = InMode(p, "NCsi", Append(p.pending, b))
    BY <1>4 DEF AfterEsc
  <2>2. b.c # "esc"
    BY <1>4
  <2> QED
    BY <2>1, <2>2, InModeTypes, InModeFields DEF Normal
<1>5. CASE b.c # "["
  <2>1. AfterEsc(p, b, copy) = Ground(q, b, copy)
    BY <1>5 DEF AfterEsc, e
  <2> HIDE DEF q
  <2>2. copy \/ b.c = "esc" \/ b \in C
    OBVIOUS
  <2> QED
    BY <1>3, <2>1, <2>2, GroundTypes
<1> QED
  BY <1>4, <1>5

LEMMA InCsiTypes ==
  ASSUME NEW p \in Parser, NEW b \in Byte, NEW copy \in BOOLEAN, NEW C, Types(p, C),
         copy \/ (p.pending \in Seq(C) /\ b \in C)
  PROVE  Types(InCsi(p, b, copy), C) /\ InCsi(p, b, copy).mode \in Normal
<1> DEFINE got == Append(p.pending, b)
           es  == IF copy THEN CsiToCopyKey(got) ELSE <<Pane(got)>>
           g   == InMode(p, "Ground", <<>>)
           f   == Emitted(p, [ev |-> "focus"])
           r   == [g EXCEPT !.out = @ \o es]
<1>1. p.pending \in Seq(Byte)
  BY DEF Parser
<1>2. got \in Seq(Byte) /\ (~copy => got \in Seq(C))
  <2>1. got \in Seq(Byte)
    BY <1>1
  <2>2. ~copy => got \in Seq(C)
    OBVIOUS
  <2> QED
    BY <2>1, <2>2
<1> HIDE DEF got
<1>3. /\ \A m, bs : Types(InMode(p, m, bs), C) /\ InMode(p, m, bs).mode = m
      /\ g \in Parser
  <2>1. \A m, bs : Types(InMode(p, m, bs), C)
    BY InModeTypes
  <2>2. \A m, bs : InMode(p, m, bs).mode = m
    BY InModeFields
  <2>3. g \in Parser
    BY RestartTyped DEF Mode
  <2> QED
    BY <2>1, <2>2, <2>3
<1>4. f \in Parser /\ Types(f, C)
  <2>1. [ev |-> "focus"] \in Event /\ [ev |-> "focus"].ev # "pane"
    BY EventsTyped
  <2> HIDE DEF Event
  <2> QED
    BY <2>1, EmittedTyped, EmitsTypes
<1>5. Types(InMode(f, "Ground", <<>>), C) /\ InMode(f, "Ground", <<>>).mode = "Ground"
  BY <1>4, InModeTypes, InModeFields
<1>6. es = <<>> \/ \E e \in Event : es = <<e>> /\ (e.ev = "pane" => e.bytes \in Seq(C))
  <2>1. CASE copy
    <3>1. \A c \in KeyName : CopyKey(c) \in Event /\ CopyKey(c).ev # "pane"
      BY EventsTyped DEF CopyKey
    <3>2. {"up", "home", "pageup"} \subseteq KeyName
      BY DEF KeyName
    <3>3. CsiToCopyKey(got) \in {<<>>, <<CopyKey("up")>>, <<CopyKey("home")>>, <<CopyKey("pageup")>>}
      BY DEF CsiToCopyKey
    <3> HIDE DEF Event
    <3> QED
      BY <2>1, <3>1, <3>2, <3>3
  <2>2. CASE ~copy
    <3>1. Pane(got) \in Event /\ Pane(got).bytes = got
      BY <1>2, EventsTyped DEF Pane
    <3> QED
      BY <1>2, <2>2, <3>1
  <2> QED
    BY <2>1, <2>2
<1>7. Types(r, C) /\ r.mode = "Ground"
  <2> HIDE DEF es, g, Event
  <2>1. Types(g, C) /\ g.mode = "Ground"
    BY <1>3 DEF g, Mode
  <2> QED
    BY <1>3, <1>6, <2>1, SendsTypes, SendsFields
<1>8. InCsi(p, b, copy) \in {InMode(p, "NMouse", got), InMode(f, "Ground", <<>>),
                             InMode(p, "Ground", <<>>), InMode(p, "NCsi", got), r}
  <2>1. r = [InMode(p, "Ground", <<>>) EXCEPT
                !.out = @ \o (IF copy THEN CsiToCopyKey(got) ELSE <<Pane(got)>>)]
    OBVIOUS
  <2> HIDE DEF r, es, g, f
  <2>2. CASE b.c = "<" /\ Len(p.pending) = 2
    BY <2>2 DEF InCsi, got
  <2>3. CASE b.c \in {"I", "O"} /\ Len(p.pending) = 2
    <3>1. b.c # "<" /\ b.c \in CsiFinal
      BY <2>3 DEF CsiFinal
    <3>2. InCsi(p, b, copy) = InMode(IF b.c = "I" THEN Emitted(p, [ev |-> "focus"]) ELSE p, "Ground", <<>>)
      BY <2>3, <3>1, Zenon DEF InCsi
    <3> QED
      BY <3>2 DEF f
  <2>4. CASE ~(b.c = "<" /\ Len(p.pending) = 2) /\ ~(b.c \in {"I", "O"} /\ Len(p.pending) = 2)
    <3>1. CASE b.c \notin CsiFinal /\ Len(got) < MaxSeq
      <4>1. InCsi(p, b, copy) = InMode(p, "NCsi", got)
        BY <2>4, <3>1, Zenon DEF InCsi, got
      <4> QED
        BY <4>1
    <3>2. CASE ~(b.c \notin CsiFinal /\ Len(got) < MaxSeq)
      <4>1. InCsi(p, b, copy) = r
        BY <2>1, <2>4, <3>2, Zenon DEF InCsi, got
      <4> QED
        BY <4>1
    <3> QED
      BY <3>1, <3>2
  <2> QED
    BY <2>2, <2>3, <2>4
<1>9. {"NMouse", "NCsi", "Ground"} \subseteq Mode \cap Normal
  BY DEF Mode, Normal
<1> HIDE DEF r, f, g
<1> QED
  BY <1>3, <1>5, <1>7, <1>8, <1>9

\* The event of a report, if it is one.
LEMMA ParseSgrFacts ==
  ASSUME NEW got \in Seq(Byte)
  PROVE  IF Len(got) = 5 /\ got[4].at # NoMouse
         THEN \E e \in Event :
                /\ ParseSgr(got) = <<e>> /\ e.ev = "mouse"
                /\ e.kind = "drag" => got[4].at.kind = "drag"
                /\ got[4].at.kind = "button" /\ Last(got).c # "M" => e.kind = "release"
         ELSE ParseSgr(got) = <<>>
<1>1. CASE ~(Len(got) = 5 /\ got[4].at # NoMouse)
  BY <1>1 DEF ParseSgr
<1>2. CASE Len(got) = 5 /\ got[4].at # NoMouse
  <2> DEFINE at == got[4].at
             e  == [ev |-> "mouse", col |-> at.col, row |-> at.row,
                    kind |-> IF at.kind # "button" THEN at.kind
                             ELSE IF Last(got).c = "M" THEN "press" ELSE "release"]
  <2>1. got[4] \in Byte
    BY <1>2
  <2>2. at.col \in Nat /\ at.row \in Nat /\ at.kind \in MouseKind
    BY <2>1 DEF Byte, MouseKind
  <2>4. ParseSgr(got) = <<e>>
    BY <1>2 DEF ParseSgr
  <2> HIDE DEF at
  <2>3. /\ e \in Event /\ e.ev = "mouse" /\ (e.kind = "drag" => at.kind = "drag")
        /\ at.kind = "button" /\ Last(got).c # "M" => e.kind = "release"
    BY <2>2 DEF Event, MouseKind
  <2> HIDE DEF e, Event
  <2> QED
    BY <1>2, <2>3, <2>4 DEF at
<1> QED
  BY <1>1, <1>2

LEMMA InMouseTypes ==
  ASSUME NEW p \in Parser, NEW b \in Byte, NEW copy \in BOOLEAN, NEW C, Types(p, C),
         copy \/ b.c = "esc" \/ b \in C
  PROVE  LET r == InMouse(p, b, copy)
         IN  /\ Types(r, C)
             /\ b.c = "esc" => r.mode = "NEsc" /\ r.pending = <<b>>
             /\ copy => r.mode \in Normal
<1> DEFINE got == Append(p.pending, b)
           g   == InMode(p, "Ground", <<>>)
           r   == [g EXCEPT !.out = @ \o ParseSgr(got)]
<1>1. p.pending \in Seq(Byte)
  BY DEF Parser
<1>2. got \in Seq(Byte)
  BY <1>1
<1> HIDE DEF got
<1>3. ParseSgr(got) = <<>> \/ \E e \in Event : ParseSgr(got) = <<e>> /\ e.ev = "mouse"
  BY <1>2, ParseSgrFacts
<1>4. g \in Parser /\ Types(g, C) /\ g.mode = "Ground"
  BY RestartTyped, InModeTypes, InModeFields DEF Mode
<1>5. Types(r, C) /\ r.mode = "Ground"
  <2> HIDE DEF g, Event
  <2>1. ParseSgr(got) = <<>> \/ \E e \in Event : ParseSgr(got) = <<e>> /\ (e.ev = "pane" => e.bytes \in Seq(C))
    BY <1>3
  <2> QED
    BY <1>4, <2>1, SendsTypes, SendsFields
<1>6. CASE b.c \in {"M", "m"}
  <2>1. InMouse(p, b, copy) = r
    BY <1>6 DEF InMouse, got
  <2>2. b.c # "esc"
    BY <1>6
  <2> QED
    BY <1>5, <2>1, <2>2 DEF Normal
<1>7. CASE b.c \in {"0", "5"} /\ Len(p.pending) < MaxSeq
  <2>1. b.c \notin {"M", "m", "esc"}
    BY <1>7
  <2>2. InMouse(p, b, copy) = InMode(p, "NMouse", got)
    BY <1>7, <2>1, Zenon DEF InMouse, got
  <2> QED
    BY <2>1, <2>2, InModeTypes, InModeFields DEF Normal
<1>8. CASE ~(b.c \in {"M", "m"}) /\ ~(b.c \in {"0", "5"} /\ Len(p.pending) < MaxSeq)
  <2>1. InMouse(p, b, copy) = Ground(p, b, copy)
    BY <1>8, Zenon DEF InMouse
  <2> QED
    BY <2>1, GroundTypes
<1> QED
  BY <1>6, <1>7, <1>8

LEMMA ArmedTypes ==
  ASSUME NEW p \in Parser, p.mode \notin Normal, NEW b \in Byte, NEW copy \in BOOLEAN, NEW C,
         Types(p, C), b \in C \/ (b.c = "esc" /\ p.mode \notin Swallows)
  PROVE  LET r == Armed(p, b, copy)
         IN  /\ Types(r, C)
             /\ b.c = "esc" /\ p.mode \notin Swallows => r.mode = "NEsc" /\ r.pending = <<b>>
<1> DEFINE k == ResolveKey(p, b)
           f == Emitted(p, [ev |-> "focus"])
<1>1. p.mode \in {"Armed", "AEsc", "ACsi", "ASs3"}
  BY DEF Parser, Mode, Normal
<1>2. f \in Parser /\ Types(f, C)
  <2>1. [ev |-> "focus"] \in Event /\ [ev |-> "focus"].ev # "pane"
    BY EventsTyped
  <2> HIDE DEF Event
  <2> QED
    BY <2>1, EmittedTyped, EmitsTypes
<1>3. b \in C => k \in Parser /\ Types(k, C)
  <2> SUFFICES ASSUME b \in C PROVE k \in Parser /\ Types(k, C)
    OBVIOUS
  <2>1. <<b>> \in Seq(Byte) /\ <<b>> \in Seq(C)
    OBVIOUS
  <2>2. /\ Pane(<<b>>) \in Event /\ Pane(<<b>>).bytes = <<b>>
        /\ Command("EnterCopyMode") \in Event /\ Command("EnterCopyMode").ev # "pane"
        /\ Command("ToggleZoom") \in Event /\ Command("ToggleZoom").ev # "pane"
    BY <2>1, EventsTyped DEF Pane, Command
  <2>3. k \in {Emitted(p, Pane(<<b>>)), Emitted(p, Command("EnterCopyMode")),
               Emitted(p, Command("ToggleZoom")), p}
    BY DEF ResolveKey
  <2> HIDE DEF k, Event
  <2>4. \A e \in Event : (e.ev = "pane" => e.bytes \in Seq(C)) =>
           Emitted(p, e) \in Parser /\ Types(Emitted(p, e), C)
    BY EmittedTyped, EmitsTypes
  <2> QED
    BY <2>1, <2>2, <2>3, <2>4
<1> HIDE DEF k, f
<1>4. CASE p.mode = "Armed" /\ b.c = "esc"
  <2>1. Armed(p, b, copy) = InMode(p, "AEsc", <<b>>)
    BY <1>4 DEF Armed
  <2> QED
    BY <1>4, <2>1, InModeTypes DEF Swallows
<1>5. CASE p.mode = "Armed" /\ b.c # "esc"
  <2>1. Armed(p, b, copy) = InMode(k, "Ground", <<>>)
    BY <1>5, Zenon DEF Armed, k
  <2> QED
    BY <1>3, <1>5, <2>1, InModeTypes
<1>6. CASE p.mode = "AEsc" /\ b.c \in {"[", "O"}
  <2>0. p.mode # "Armed" /\ b.c # "esc"
    BY <1>6
  <2>1. Armed(p, b, copy) \in {InMode(p, "ACsi", p.pending), InMode(p, "ASs3", p.pending)}
    <3>1. CASE b.c = "["
      <4>1. Armed(p, b, copy) = InMode(p, "ACsi", p.pending)
        BY <1>6, <2>0, <3>1, Zenon DEF Armed
      <4> QED
        BY <4>1
    <3>2. CASE b.c = "O"
      <4>1. b.c # "["
        BY <3>2
      <4>2. Armed(p, b, copy) = InMode(p, "ASs3", p.pending)
        BY <1>6, <2>0, <3>2, <4>1, Zenon DEF Armed
      <4> QED
        BY <4>2
    <3> QED
      BY <1>6, <3>1, <3>2
  <2> QED
    BY <2>0, <2>1, InModeTypes
<1>7. CASE p.mode = "AEsc" /\ b.c \notin {"[", "O"}
  <2>1. p.mode # "Armed" /\ b.c # "[" /\ b.c # "O"
    BY <1>7
  <2>2. Armed(p, b, copy) = Ground(p, b, copy)
    BY <1>7, <2>1, Zenon DEF Armed
  <2> QED
    BY <2>2, GroundTypes
<1>8. CASE p.mode = "ACsi" /\ b.c \in {"I", "O"}
  <2>1. p.mode # "Armed" /\ p.mode # "AEsc" /\ b.c # "esc"
    BY <1>8
  <2>2. Armed(p, b, copy) = InMode(IF b.c = "I" THEN f ELSE p, "Armed", <<>>)
    BY <1>8, <2>1, Zenon DEF Armed, f
  <2> QED
    BY <1>2, <2>1, <2>2, InModeTypes
<1>9. CASE p.mode \in {"ACsi", "ASs3"} /\ ~(p.mode = "ACsi" /\ b.c \in {"I", "O"})
  <2>1. p.mode # "Armed" /\ p.mode # "AEsc"
    BY <1>9
  <2>2. Armed(p, b, copy) = InMode(p, "Ground", <<>>)
    BY <1>9, <2>1, Zenon DEF Armed
  <2> QED
    BY <1>9, <2>2, InModeTypes DEF Swallows
<1> QED
  BY <1>1, <1>4, <1>5, <1>6, <1>7, <1>8, <1>9

\* What a byte makes the parser type is of C when the byte, and what it has pending, are;
\* in copy mode it types nothing.
LEMMA StepTypes ==
  ASSUME NEW p \in Parser, NEW b \in Byte, NEW copy \in BOOLEAN, NEW C, Types(p, C),
         \/ copy /\ p.mode \in Normal
         \/ p.pending \in Seq(C) /\ (b \in C \/ (b.c = "esc" /\ p.mode \notin Swallows))
  PROVE  LET r == Step(p, b, copy)
         IN  /\ Types(r, C)
             /\ b.c = "esc" /\ p.mode \notin Swallows => r.mode = "NEsc" /\ r.pending = <<b>>
             /\ copy /\ p.mode \in Normal => r.mode \in Normal
<1>1. CASE p.mode = "Ground"
  BY <1>1, GroundTypes DEF Step
<1>2. CASE p.mode = "NEsc"
  <2>1. copy \/ (p.pending \in Seq(C) /\ (b.c = "esc" \/ b \in C))
    OBVIOUS
  <2> QED
    BY <1>2, <2>1, AfterEscTypes DEF Step
<1>3. CASE p.mode = "NCsi"
  <2>1. copy \/ (p.pending \in Seq(C) /\ b \in C)
    BY <1>3 DEF Swallows
  <2> QED
    BY <1>3, <2>1, InCsiTypes DEF Step, Swallows
<1>4. CASE p.mode = "NMouse"
  BY <1>4, InMouseTypes DEF Step
<1>5. CASE p.mode \notin Normal
  <2>1. Step(p, b, copy) = Armed(p, b, copy)
    BY <1>5 DEF Step, Normal
  <2> QED
    BY <1>5, <2>1, ArmedTypes
<1> QED
  BY <1>1, <1>2, <1>3, <1>4, <1>5 DEF Normal

-----------------------------------------------------------------------------
(* The mouse                                                               *)

IsDrag(e)    == e.ev = "mouse" /\ e.kind = "drag"
IsRelease(e) == e.ev = "mouse" /\ e.kind = "release"

\* After the events `out` copy mode may be on by the mouse: it was (on), or a drag began
\* it, and no release has ended it.
Unended(on, out) ==
  \/ on /\ \A j \in 1..Len(out) : ~IsRelease(out[j])
  \/ \E i \in 1..Len(out) : IsDrag(out[i]) /\ \A j \in i + 1..Len(out) : ~IsRelease(out[j])

\* The parser is in the middle of a drag.
Dragging(p) == \E i \in 1..Len(p.pending) : p.pending[i].at.kind = "drag"

LEMMA UnendedAppend ==
  ASSUME NEW out \in Seq(Event), NEW e \in Event, NEW on \in BOOLEAN, Unended(on, Append(out, e))
  PROVE  ~IsRelease(e) /\ (IsDrag(e) \/ Unended(on, out))
<1> DEFINE r == Append(out, e)
           n == Len(out)
<1> HIDE DEF Event
<1>1. Len(r) = n + 1 /\ n \in Nat /\ r[n + 1] = e /\ \A i \in 1..n : r[i] = out[i]
  OBVIOUS
<1>2. Unended(on, r)
  OBVIOUS
<1> HIDE DEF r, n
<1>3. CASE on /\ \A j \in 1..Len(r) : ~IsRelease(r[j])
  <2>1. ~IsRelease(r[n + 1])
    BY <1>1, <1>3
  <2>2. ASSUME NEW j \in 1..n PROVE ~IsRelease(out[j])
    <3>1. j \in 1..Len(r) /\ r[j] = out[j]
      BY <1>1
    <3> QED
      BY <1>3, <3>1
  <2> QED
    BY <1>1, <1>3, <2>1, <2>2 DEF Unended, n
<1>4. ASSUME NEW i \in 1..Len(r), IsDrag(r[i]), \A j \in i + 1..Len(r) : ~IsRelease(r[j])
      PROVE  ~IsRelease(e) /\ (IsDrag(e) \/ Unended(on, out))
  <2>1. CASE i = n + 1
    <3>1. IsDrag(e)
      BY <1>1, <1>4, <2>1
    <3> QED
      BY <3>1 DEF IsDrag, IsRelease
  <2>2. CASE i # n + 1
    <3>1. i \in 1..n /\ n + 1 \in i + 1..Len(r)
      BY <1>1, <2>2
    <3>2. ~IsRelease(e)
      BY <1>1, <1>4, <3>1
    <3>3. IsDrag(out[i])
      BY <1>1, <1>4, <3>1
    <3>4. ASSUME NEW j \in i + 1..n PROVE ~IsRelease(out[j])
      <4>1. j \in 1..n /\ j \in i + 1..Len(r)
        BY <1>1, <3>1
      <4>2. r[j] = out[j]
        BY <1>1, <4>1
      <4> QED
        BY <1>4, <4>1, <4>2
    <3> QED
      BY <3>1, <3>2, <3>3, <3>4 DEF Unended, n
  <2> QED
    BY <2>1, <2>2
<1> QED
  BY <1>2, <1>3, <1>4 DEF Unended

\* A release ends it.
LEMMA ReleaseEnds ==
  ASSUME NEW out \in Seq(Event), NEW e \in Event, IsRelease(e), NEW on \in BOOLEAN
  PROVE  ~Unended(on, Append(out, e))
BY UnendedAppend

\* What a byte adds to a parser: what it has pending, and the events, of which only the
\* end of a drag is one.
Grows(p, b, r) ==
  /\ r.pending \in {<<>>, <<b>>, p.pending, Append(p.pending, b)}
  /\ \A on \in BOOLEAN : Unended(on, r.out) => Unended(on, p.out) \/ Dragging(p)

\* Nothing of the mouse is in the events of r that is not in those of p.
Quiets(p, r) == \A on \in BOOLEAN : Unended(on, r.out) => Unended(on, p.out)

LEMMA EmitsQuiets ==
  ASSUME NEW p \in Parser, NEW e \in Event, e.ev # "mouse"
  PROVE  Quiets(p, Emitted(p, e))
<1> HIDE DEF Event
<1>1. p.out \in Seq(Event)
  BY DEF Parser
<1>2. \A on \in BOOLEAN : Unended(on, Append(p.out, e)) => Unended(on, p.out)
  BY <1>1, UnendedAppend DEF IsDrag
<1> QED
  BY <1>2, EmittedFields DEF Quiets

LEMMA FlushQuiets ==
  ASSUME NEW p \in Parser
  PROVE  Quiets(p, FlushGround(p))
<1>1. CASE p.ground = <<>>
  BY <1>1 DEF FlushGround, Quiets
<1>2. CASE p.ground # <<>>
  <2> DEFINE q == Emitted(p, Pane(p.ground))
             r == [q EXCEPT !.ground = <<>>]
  <2>1. p.ground \in Seq(Byte)
    BY DEF Parser
  <2>2. Pane(p.ground) \in Event /\ Pane(p.ground).ev # "mouse"
    BY <2>1, EventsTyped DEF Pane
  <2>3. q \in Parser /\ Quiets(p, q)
    BY <2>2, EmittedTyped, EmitsQuiets
  <2>4. FlushGround(p) = r
    BY <1>2 DEF FlushGround
  <2> HIDE DEF q
  <2>5. r.out = q.out
    BY <2>3, GathersFields
  <2> HIDE DEF r
  <2> QED
    BY <2>3, <2>4, <2>5 DEF Quiets
<1> QED
  BY <1>1, <1>2

LEMMA GroundQuiets ==
  ASSUME NEW p \in Parser, NEW b \in Byte, NEW copy \in BOOLEAN
  PROVE  Quiets(p, Ground(p, b, copy)) /\ Ground(p, b, copy).pending \in {<<>>, <<b>>}
<1> DEFINE f == FlushGround(p)
           g == InMode(f, "Ground", <<>>)
           h == InMode(p, "Ground", <<>>)
           r == [h EXCEPT !.ground = Append(@, b)]
<1>1. f \in Parser /\ Quiets(p, f)
  BY FlushGroundTyped, FlushQuiets
<1>2. Ground(p, b, copy) \in {InMode(f, "NEsc", <<b>>), Emitted(g, CopyKey(b.c)),
                              InMode(f, "Armed", <<>>), r}
  BY DEF Ground
<1> HIDE DEF f
<1>3. g \in Parser /\ h \in Parser
  BY <1>1, RestartTyped DEF Mode
<1>4. g.out = f.out /\ g.pending = <<>> /\ h.out = p.out /\ h.pending = <<>>
  BY <1>1, InModeFields
<1> HIDE DEF g, h
<1>5. CopyKey(b.c) \in Event /\ CopyKey(b.c).ev # "mouse"
  <2>1. b.c \in KeyName
    BY DEF Byte, KeyName
  <2> QED
    BY <2>1, EventsTyped DEF CopyKey
<1>6. Quiets(g, Emitted(g, CopyKey(b.c))) /\ Emitted(g, CopyKey(b.c)).pending = <<>>
  BY <1>3, <1>4, <1>5, EmitsQuiets, EmittedFields
<1>7. r.out = h.out /\ r.pending = h.pending
  BY <1>3, GathersFields
<1>8. /\ InMode(f, "NEsc", <<b>>).out = f.out /\ InMode(f, "NEsc", <<b>>).pending = <<b>>
      /\ InMode(f, "Armed", <<>>).out = f.out /\ InMode(f, "Armed", <<>>).pending = <<>>
  BY <1>1, InModeFields
<1> HIDE DEF r
<1> QED
  BY <1>1, <1>2, <1>4, <1>6, <1>7, <1>8 DEF Quiets

LEMMA SendsQuiets ==
  ASSUME NEW p \in Parser, NEW es, es = <<>> \/ \E e \in Event : es = <<e>> /\ e.ev # "mouse"
  PROVE  Quiets(p, [p EXCEPT !.out = @ \o es])
<1> DEFINE r == [p EXCEPT !.out = @ \o es]
<1>1. p.out \in Seq(Event)
  BY DEF Parser
<1>2. r.out = p.out \o es
  BY SendsFields
<1> HIDE DEF r, Event
<1>3. es = <<>> => Quiets(p, r)
  <2> SUFFICES ASSUME es = <<>> PROVE Quiets(p, r)
    OBVIOUS
  <2>1. r.out = p.out
    BY <1>1, <1>2
  <2> QED
    BY <2>1, Zenon DEF Quiets
<1>4. es # <<>> => Quiets(p, r)
  <2> SUFFICES ASSUME es # <<>> PROVE Quiets(p, r)
    OBVIOUS
  <2>1. PICK e \in Event : es = <<e>> /\ e.ev # "mouse"
    OBVIOUS
  <2>2. r.out = Append(p.out, e)
    BY <1>1, <1>2, <2>1
  <2>3. \A on \in BOOLEAN : Unended(on, Append(p.out, e)) => Unended(on, p.out)
    BY <1>1, <2>1, UnendedAppend DEF IsDrag
  <2> QED
    BY <2>2, <2>3, Zenon DEF Quiets
<1> QED
  BY <1>3, <1>4, Zenon DEF r

LEMMA AfterEscGrows ==
  ASSUME NEW p \in Parser, NEW b \in Byte, NEW copy \in BOOLEAN
  PROVE  Grows(p, b, AfterEsc(p, b, copy))
<1> DEFINE e == IF copy THEN CopyKey("esc") ELSE Pane(p.pending)
           q == Emitted(p, e)
<1>1. p.pending \in Seq(Byte)
  BY DEF Parser
<1>2. e \in Event /\ e.ev # "mouse"
  <2>1. Pane(p.pending) \in Event /\ CopyKey("esc") \in Event
    BY <1>1, EventsTyped DEF KeyName, Class
  <2>2. CopyKey("esc").ev # "mouse" /\ Pane(p.pending).ev # "mouse"
    BY DEF CopyKey, Pane
  <2> QED
    BY <2>1, <2>2
<1> HIDE DEF e
<1>3. q \in Parser /\ Quiets(p, q)
  BY <1>2, EmittedTyped, EmitsQuiets
<1>4. CASE b.c = "["
  <2>1. AfterEsc(p, b, copy) = InMode(p, "NCsi", Append(p.pending, b))
    BY <1>4 DEF AfterEsc
  <2> DEFINE got == Append(p.pending, b)
  <2> HIDE DEF got
  <2>2. AfterEsc(p, b, copy) = InMode(p, "NCsi", got)
    BY <2>1 DEF got
  <2>3. InMode(p, "NCsi", got).out = p.out /\ InMode(p, "NCsi", got).pending = got
    BY InModeFields
  <2> QED
    BY <2>2, <2>3 DEF Grows, got
<1>5. CASE b.c # "["
  <2>1. AfterEsc(p, b, copy) = Ground(q, b, copy)
    BY <1>5 DEF AfterEsc, e
  <2> HIDE DEF q
  <2>2. Quiets(q, Ground(q, b, copy)) /\ Ground(q, b, copy).pending \in {<<>>, <<b>>}
    BY <1>3, GroundQuiets
  <2>3. \A on \in BOOLEAN : Unended(on, Ground(q, b, copy).out) => Unended(on, p.out)
    BY <1>3, <2>2, Zenon DEF Quiets
  <2> QED
    BY <2>1, <2>2, <2>3 DEF Grows
<1> QED
  BY <1>4, <1>5

LEMMA InCsiGrows ==
  ASSUME NEW p \in Parser, NEW b \in Byte, NEW copy \in BOOLEAN
  PROVE  Grows(p, b, InCsi(p, b, copy))
<1> DEFINE got == Append(p.pending, b)
           es  == IF copy THEN CsiToCopyKey(got) ELSE <<Pane(got)>>
           g   == InMode(p, "Ground", <<>>)
           f   == Emitted(p, [ev |-> "focus"])
           r   == [g EXCEPT !.out = @ \o es]
<1>1. p.pending \in Seq(Byte)
  BY DEF Parser
<1>2. got \in Seq(Byte)
  BY <1>1
<1>3. InCsi(p, b, copy) \in {InMode(p, "NMouse", got), InMode(f, "Ground", <<>>),
                             InMode(p, "Ground", <<>>), InMode(p, "NCsi", got), r}
  BY DEF InCsi
<1> HIDE DEF got
<1>4. f \in Parser /\ Quiets(p, f)
  <2>1. [ev |-> "focus"] \in Event /\ [ev |-> "focus"].ev # "mouse"
    BY EventsTyped
  <2> HIDE DEF Event
  <2> QED
    BY <2>1, EmittedTyped, EmitsQuiets
<1>5. /\ InMode(f, "Ground", <<>>).out = f.out /\ InMode(f, "Ground", <<>>).pending = <<>>
      /\ g.out = p.out /\ g.pending = <<>> /\ g \in Parser
      /\ InMode(p, "NMouse", got).out = p.out /\ InMode(p, "NMouse", got).pending = got
      /\ InMode(p, "NCsi", got).out = p.out /\ InMode(p, "NCsi", got).pending = got
  BY <1>4, InModeFields, RestartTyped DEF Mode
<1>6. es = <<>> \/ \E e \in Event : es = <<e>> /\ e.ev # "mouse"
  <2>1. \A c \in KeyName : CopyKey(c) \in Event /\ CopyKey(c).ev # "mouse"
    BY EventsTyped DEF CopyKey
  <2>2. {"up", "home", "pageup"} \subseteq KeyName
    BY DEF KeyName
  <2>3. CsiToCopyKey(got) \in {<<>>, <<CopyKey("up")>>, <<CopyKey("home")>>, <<CopyKey("pageup")>>}
    BY DEF CsiToCopyKey
  <2>4. Pane(got) \in Event /\ Pane(got).ev # "mouse"
    BY <1>2, EventsTyped DEF Pane
  <2> HIDE DEF Event
  <2> QED
    BY <2>1, <2>2, <2>3, <2>4
<1>7. Quiets(g, r) /\ r.pending = g.pending
  <2> HIDE DEF es, g, Event
  <2> QED
    BY <1>5, <1>6, SendsQuiets, SendsFields
<1>8. InMode(p, "Ground", <<>>) = g
  OBVIOUS
<1> HIDE DEF r, f, g
<1> QED
  BY <1>3, <1>4, <1>5, <1>7, <1>8 DEF Grows, Quiets, got

LEMMA InMouseGrows ==
  ASSUME NEW p \in Parser, NEW b \in Byte, NEW copy \in BOOLEAN
  PROVE  Grows(p, b, InMouse(p, b, copy))
<1> DEFINE got == Append(p.pending, b)
           es  == ParseSgr(got)
           g   == InMode(p, "Ground", <<>>)
           r   == [g EXCEPT !.out = @ \o es]
<1>1. p.pending \in Seq(Byte)
  BY DEF Parser
<1>2. got \in Seq(Byte) /\ Len(got) = Len(p.pending) + 1 /\ Len(p.pending) \in Nat
      /\ \A i \in 1..Len(p.pending) : got[i] = p.pending[i]
  BY <1>1
<1>13. Len(got) = 5 => Len(p.pending) = 4
  <2>1. \A n \in Nat : n + 1 = 5 => n = 4
    OBVIOUS
  <2> QED
    BY <1>2, <2>1, Zenon
<1>3. InMouse(p, b, copy) \in {r, InMode(p, "NMouse", got), Ground(p, b, copy)}
  BY DEF InMouse
<1>4. IF Len(got) = 5 /\ got[4].at # NoMouse
      THEN \E e \in Event : es = <<e>> /\ (IsDrag(e) => got[4].at.kind = "drag")
      ELSE es = <<>>
  BY <1>2, ParseSgrFacts DEF IsDrag
<1> HIDE DEF got, es
<1>5. g \in Parser /\ g.out = p.out /\ g.pending = <<>>
  BY InModeFields, RestartTyped DEF Mode
<1>6. InMode(p, "NMouse", got).out = p.out /\ InMode(p, "NMouse", got).pending = got
  BY InModeFields
<1> HIDE DEF g
<1>7. r.out = p.out \o es /\ r.pending = <<>>
  BY <1>5, SendsFields
<1> HIDE DEF r, Event
<1>8. p.out \in Seq(Event)
  BY DEF Parser
<1>9. ASSUME NEW on \in BOOLEAN, Unended(on, r.out) PROVE Unended(on, p.out) \/ Dragging(p)
  <2>1. CASE ~(Len(got) = 5 /\ got[4].at # NoMouse)
    <3>1. r.out = p.out
      BY <1>4, <1>7, <1>8, <2>1
    <3> QED
      BY <1>9, <3>1, Zenon
  <2>2. CASE Len(got) = 5 /\ got[4].at # NoMouse
    <3>1. PICK e \in Event : es = <<e>> /\ (IsDrag(e) => got[4].at.kind = "drag")
      BY <1>4, <2>2
    <3>2. r.out = Append(p.out, e)
      BY <1>7, <1>8, <3>1
    <3>3. IsDrag(e) \/ Unended(on, p.out)
      BY <1>8, <1>9, <3>2, UnendedAppend
    <3>5. Len(p.pending) = 4
      BY <1>13, <2>2, Zenon
    <3>4. 4 \in 1..Len(p.pending) /\ got[4] = p.pending[4]
      BY <1>2, <3>5
    <3> QED
      BY <3>1, <3>3, <3>4 DEF Dragging
  <2> QED
    BY <2>1, <2>2, Zenon
<1>10. Grows(p, b, r)
  BY <1>7, <1>9 DEF Grows
<1>11. Grows(p, b, InMode(p, "NMouse", got))
  BY <1>6 DEF Grows, got
<1>12. Grows(p, b, Ground(p, b, copy))
  BY GroundQuiets DEF Grows, Quiets
<1> QED
  BY <1>3, <1>10, <1>11, <1>12

LEMMA ArmedGrows ==
  ASSUME NEW p \in Parser, NEW b \in Byte, NEW copy \in BOOLEAN
  PROVE  Grows(p, b, Armed(p, b, copy))
<1> DEFINE k == ResolveKey(p, b)
           f == Emitted(p, [ev |-> "focus"])
<1>1. f \in Parser /\ Quiets(p, f)
  <2>1. [ev |-> "focus"] \in Event /\ [ev |-> "focus"].ev # "mouse"
    BY EventsTyped
  <2> HIDE DEF Event
  <2> QED
    BY <2>1, EmittedTyped, EmitsQuiets
<1>2. k \in Parser /\ Quiets(p, k)
  <2>1. <<b>> \in Seq(Byte)
    OBVIOUS
  <2>2. /\ Pane(<<b>>) \in Event /\ Pane(<<b>>).ev # "mouse"
        /\ Command("EnterCopyMode") \in Event /\ Command("EnterCopyMode").ev # "mouse"
        /\ Command("ToggleZoom") \in Event /\ Command("ToggleZoom").ev # "mouse"
    BY <2>1, EventsTyped DEF Pane, Command
  <2>3. k \in {Emitted(p, Pane(<<b>>)), Emitted(p, Command("EnterCopyMode")),
               Emitted(p, Command("ToggleZoom")), p}
    BY DEF ResolveKey
  <2>5. Quiets(p, p)
    BY DEF Quiets
  <2> HIDE DEF k, Event
  <2>4. \A e \in Event : e.ev # "mouse" => Emitted(p, e) \in Parser /\ Quiets(p, Emitted(p, e))
    BY EmittedTyped, EmitsQuiets
  <2> QED
    BY <2>2, <2>3, <2>4, <2>5
<1>3. Armed(p, b, copy) \in {InMode(p, "AEsc", <<b>>), InMode(k, "Ground", <<>>),
        InMode(p, "ACsi", p.pending), InMode(p, "ASs3", p.pending), Ground(p, b, copy),
        InMode(f, "Armed", <<>>), InMode(p, "Armed", <<>>), InMode(p, "Ground", <<>>)}
  BY DEF Armed
<1> HIDE DEF k, f
<1>4. /\ \A m, bs : InMode(p, m, bs).out = p.out /\ InMode(p, m, bs).pending = bs
      /\ \A m, bs : InMode(k, m, bs).out = k.out /\ InMode(k, m, bs).pending = bs
      /\ \A m, bs : InMode(f, m, bs).out = f.out /\ InMode(f, m, bs).pending = bs
  BY <1>1, <1>2, InModeFields
<1>5. Grows(p, b, Ground(p, b, copy))
  BY GroundQuiets DEF Grows, Quiets
<1>6. /\ Grows(p, b, InMode(p, "AEsc", <<b>>)) /\ Grows(p, b, InMode(k, "Ground", <<>>))
      /\ Grows(p, b, InMode(p, "ACsi", p.pending)) /\ Grows(p, b, InMode(p, "ASs3", p.pending))
      /\ Grows(p, b, InMode(f, "Armed", <<>>)) /\ Grows(p, b, InMode(p, "Armed", <<>>))
      /\ Grows(p, b, InMode(p, "Ground", <<>>))
  BY <1>1, <1>2, <1>4 DEF Grows, Quiets
<1> QED
  BY <1>3, <1>5, <1>6

LEMMA StepGrows ==
  ASSUME NEW p \in Parser, NEW b \in Byte, NEW copy \in BOOLEAN
  PROVE  Grows(p, b, Step(p, b, copy))
<1>1. Step(p, b, copy) \in {Ground(p, b, copy), AfterEsc(p, b, copy), InCsi(p, b, copy),
                            InMouse(p, b, copy), Armed(p, b, copy)}
  BY DEF Step
<1>2. Grows(p, b, Ground(p, b, copy))
  BY GroundQuiets DEF Grows, Quiets
<1> QED
  BY <1>1, <1>2, AfterEscGrows, InCsiGrows, InMouseGrows, ArmedGrows

-----------------------------------------------------------------------------
(* A report, byte by byte                                                  *)

\* Read in the middle of a report, its next byte is the parser's; the last is the event.
LEMMA CutStep ==
  ASSUME NEW p \in Parser, NEW w \in Seq(Byte), NEW k \in Nat, Chained(w), Cut(p, w, k),
         NEW copy \in BOOLEAN
  PROVE  LET b == w[k + 1]
             r == Step(p, b, copy)
         IN  IF b.c \in Finals
             THEN /\ r.pending = <<>> /\ r.ground = p.ground
                  /\ \E e \in Event : /\ r.out = Append(p.out, e) /\ e.ev = "mouse"
                                      /\ b.c = "m" => IsRelease(e)
             ELSE /\ r.pending = Append(p.pending, b) /\ r.ground = p.ground /\ r.out = p.out
                  /\ Cut(r, w, k + 1)
<1> USE MaxSeqAssumption
<1> DEFINE b == w[k + 1]
           n == Len(p.pending)
           a == p.pending[n]
           r == Step(p, b, copy)
           got == Append(p.pending, b)
<1>1. p.pending \in Seq(Byte) /\ n \in Nat /\ p.out \in Seq(Event)
  BY DEF Parser
<1>2. k < Len(w) /\ Len(w) \in Nat /\ k + 1 \in 1..Len(w) /\ b \in Byte /\ Follows(a, b)
  BY DEF Cut
<1>3. got \in Seq(Byte) /\ Len(got) = n + 1 /\ got[n + 1] = b /\ \A i \in 1..n : got[i] = p.pending[i]
  BY <1>1, <1>2
<1>4. b.rep /\ (b.c \notin Finals => k + 1 < Len(w) /\ Follows(b, w[k + 2]))
  <2>1. b.rep
    BY <1>2 DEF Follows
  <2>2. k + 1 + 1 = k + 2
    OBVIOUS
  <2> QED
    BY <1>2, <2>1, <2>2 DEF Chained
<1>5. \/ p.mode = "NEsc" /\ n = 1 /\ a.c = "esc"
      \/ p.mode = "NCsi" /\ n = 2 /\ a.c = "["
      \/ p.mode = "NMouse" /\ n = 3 /\ a.c = "<"
      \/ p.mode = "NMouse" /\ n = 4 /\ a.c = "5"
  BY DEF Cut
<1>6. \/ a.c = "esc" /\ b.c = "["
      \/ a.c = "[" /\ b.c = "<"
      \/ a.c = "<" /\ b.c = "5" /\ b.at.kind # "none"
      \/ a.c = "5" /\ a.at.kind # "none" /\ b.c = "M"
      \/ a.c = "5" /\ a.at.kind = "button" /\ b.c = "m"
  BY <1>2 DEF Follows
<1> HIDE DEF a, b, n, got
<1> SUFFICES IF b.c \in Finals
             THEN /\ r.pending = <<>> /\ r.ground = p.ground
                  /\ \E e \in Event : /\ r.out = Append(p.out, e) /\ e.ev = "mouse"
                                      /\ b.c = "m" => IsRelease(e)
             ELSE /\ r.pending = got /\ r.ground = p.ground /\ r.out = p.out
                  /\ Cut(r, w, k + 1)
  BY DEF b, got
<1>7. ASSUME NEW m, r = InMode(p, m, got), b.c \notin Finals,
             \/ m = "NCsi" /\ n = 1 /\ b.c = "["
             \/ m = "NMouse" /\ n = 2 /\ b.c = "<"
             \/ m = "NMouse" /\ n = 3 /\ b.c = "5"
      PROVE  /\ r.pending = got /\ r.ground = p.ground /\ r.out = p.out
             /\ Cut(r, w, k + 1)
  <2>1. r.mode = m /\ r.pending = got /\ r.ground = p.ground /\ r.out = p.out
    BY <1>7, InModeFields
  <2> HIDE DEF r
  <2>2. Len(r.pending) = n + 1 /\ r.pending # <<>> /\ r.pending[Len(r.pending)] = b
    BY <1>1, <1>3, <2>1
  <2>3. k + 1 < Len(w) /\ k + 1 + 1 = k + 2 /\ Follows(b, w[k + 2])
    BY <1>4, <1>7
  <2>4. \/ r.mode = "NCsi" /\ Len(r.pending) = 2 /\ b.c = "["
        \/ r.mode = "NMouse" /\ Len(r.pending) = 3 /\ b.c = "<"
        \/ r.mode = "NMouse" /\ Len(r.pending) = 4 /\ b.c = "5"
    BY <1>1, <1>7, <2>1, <2>2
  <2> QED
    BY <2>1, <2>2, <2>3, <2>4 DEF Cut
<1>8. CASE p.mode = "NEsc" /\ n = 1 /\ b.c = "["
  <2>1. r = InMode(p, "NCsi", got)
    BY <1>8 DEF Step, AfterEsc, got
  <2>2. b.c \notin Finals
    BY <1>8 DEF Finals
  <2> HIDE DEF r
  <2> QED
    BY <1>7, <1>8, <2>1, <2>2
<1>9. CASE p.mode = "NCsi" /\ n = 2 /\ b.c = "<"
  <2>1. b.c \notin {"I", "O"}
    BY <1>9
  <2>2. r = InCsi(p, b, copy)
    BY <1>9 DEF Step
  <2>4. Len(p.pending) = 2
    BY <1>9 DEF n
  <2>3. InCsi(p, b, copy) = InMode(p, "NMouse", got)
    BY <1>9, <2>1, <2>4 DEF InCsi, got
  <2>5. b.c \notin Finals
    BY <1>9 DEF Finals
  <2> HIDE DEF r
  <2> QED
    BY <1>7, <1>9, <2>2, <2>3, <2>5
<1>10. CASE p.mode = "NMouse" /\ n = 3 /\ b.c = "5"
  <2>1. b.c \notin {"M", "m"} /\ Len(p.pending) < MaxSeq
    BY <1>10 DEF n
  <2>2. r = InMouse(p, b, copy)
    BY <1>10 DEF Step
  <2>3. InMouse(p, b, copy) = InMode(p, "NMouse", got)
    BY <1>10, <2>1 DEF InMouse, got
  <2>5. b.c \notin Finals
    BY <1>10 DEF Finals
  <2> HIDE DEF r
  <2> QED
    BY <1>7, <1>10, <2>2, <2>3, <2>5
<1>11. CASE p.mode = "NMouse" /\ n = 4 /\ a.c = "5"
  <2> DEFINE g == InMode(p, "Ground", <<>>)
  <2>1. b.c \in Finals /\ a.at.kind # "none" /\ (b.c = "m" => a.at.kind = "button")
    BY <1>6, <1>11 DEF Finals
  <2>2. r = InMouse(p, b, copy)
    BY <1>11 DEF Step
  <2>3. InMouse(p, b, copy) = [g EXCEPT !.out = @ \o ParseSgr(got)]
    BY <2>1 DEF InMouse, got, Finals
  <2>4. Len(got) = 5 /\ got[4] = a /\ got[4].at # NoMouse
    <3>1. Len(got) = 5 /\ got[4] = a
      BY <1>1, <1>3, <1>11 DEF a
    <3> QED
      BY <2>1, <3>1 DEF NoMouse
  <2>5. Last(got).c = b.c
    BY <1>3, <1>11 DEF Last
  <2>6. PICK e \in Event : /\ ParseSgr(got) = <<e>> /\ e.ev = "mouse"
                           /\ got[4].at.kind = "button" /\ Last(got).c # "M" => e.kind = "release"
    BY <1>3, <2>4, ParseSgrFacts
  <2>7. b.c = "m" => IsRelease(e)
    BY <2>1, <2>4, <2>5, <2>6 DEF IsRelease
  <2>8. g \in Parser /\ g.pending = <<>> /\ g.ground = p.ground /\ g.out = p.out
    BY InModeFields, RestartTyped DEF Mode
  <2> HIDE DEF r, g, Event
  <2>9. r.pending = <<>> /\ r.ground = p.ground /\ r.out = p.out \o <<e>>
    BY <2>2, <2>3, <2>6, <2>8, SendsFields
  <2>10. r.out = Append(p.out, e)
    BY <1>1, <2>9
  <2> QED
    BY <2>1, <2>6, <2>7, <2>9, <2>10
<1>12. \/ p.mode = "NEsc" /\ n = 1 /\ b.c = "["
       \/ p.mode = "NCsi" /\ n = 2 /\ b.c = "<"
       \/ p.mode = "NMouse" /\ n = 3 /\ b.c = "5"
       \/ p.mode = "NMouse" /\ n = 4 /\ a.c = "5"
  BY <1>5, <1>6
<1>13. b.c \in {"[", "<", "5"} => b.c \notin Finals
  BY DEF Finals
<1> HIDE DEF r
<1> QED
  BY <1>8, <1>9, <1>10, <1>11, <1>12, <1>13

\* A byte read keeps the parser aligned with the reports, and what it types meant, unless
\* a sequence that was typed takes the start of one.
LEMMA StepAligned ==
  ASSUME NEW p \in Parser, NEW w \in Seq(Byte), NEW k \in 0..Len(w) - 1, Chained(w),
         Aligned(p, w, k), Types(p, Meant), NEW copy \in BOOLEAN,
         ~(w[k + 1].rep /\ w[k + 1].c = "esc" /\ p.mode \in Swallows)
  PROVE  LET r == Step(p, w[k + 1], copy)
         IN  Aligned(r, w, k + 1) /\ Types(r, Meant)
<1> DEFINE b == w[k + 1]
           r == Step(p, b, copy)
<1>1. k \in Nat /\ Len(w) \in Nat /\ k < Len(w) /\ k + 1 \in 1..Len(w) /\ b \in Byte
  OBVIOUS
<1>2. r \in Parser
  BY <1>1, StepTyped
<1>3. p.pending \in Seq(Byte) /\ r.pending \in Seq(Byte) /\ p.out \in Seq(Event)
  BY <1>2 DEF Parser
\* What follows b in w.
<1>4. ASSUME k + 1 < Len(w), w[k + 1 + 1].rep, w[k + 1 + 1].c # "esc" PROVE Follows(b, w[k + 1 + 1])
  <2>1. k + 1 + 1 \in 1..Len(w) /\ k + 1 + 1 > 1 /\ (k + 1 + 1) - 1 = k + 1
    BY <1>1, <1>4
  <2> QED
    BY <1>4, <2>1 DEF Chained
<1>8. Clear(p, w, k) => p.pending \in Seq(Meant)
  <2> DEFINE s == p.pending
  <2> HIDE DEF s
  <2>1. s \in Seq(Byte)
    BY <1>3 DEF s
  <2>2. Clear(p, w, k) => \A i \in 1..Len(s) : s[i] \in Meant
    BY <2>1 DEF Clear, Meant, s
  <2> HIDE DEF Byte, Meant
  <2>3. (\A i \in 1..Len(s) : s[i] \in Meant) => s \in Seq(Meant)
    BY <2>1
  <2> QED
    BY <2>2, <2>3 DEF s
<1>5. CASE Cut(p, w, k)
  <2>1. IF b.c \in Finals
        THEN /\ r.pending = <<>> /\ r.ground = p.ground
             /\ \E e \in Event : r.out = Append(p.out, e) /\ e.ev = "mouse"
        ELSE r.ground = p.ground /\ r.out = p.out /\ Cut(r, w, k + 1)
    BY <1>1, <1>5, CutStep
  <2> HIDE DEF r, b, Event
  <2>2. CASE b.c \in Finals
    <3>1. PICK e \in Event : r.out = Append(p.out, e) /\ e.ev = "mouse"
      BY <2>1, <2>2
    <3>2. PanesIn(r.out, Meant)
      BY <1>3, <3>1, PanesAppend DEF Types
    <3>3. Types(r, Meant)
      BY <2>1, <2>2, <3>2 DEF Types
    <3>4. ~(k + 1 < Len(w) /\ w[k + 1 + 1].rep /\ w[k + 1 + 1].c # "esc")
      BY <1>4, <2>2 DEF Follows, Finals
    <3>5. Len(r.pending) = 0
      BY <2>1, <2>2
    <3>6. Clear(r, w, k + 1)
      BY <3>4, <3>5 DEF Clear
    <3> QED
      BY <3>3, <3>6 DEF Aligned, r, b
  <2>3. CASE b.c \notin Finals
    BY <2>1, <2>3 DEF Types, Aligned, r, b
  <2> QED
    BY <2>2, <2>3
<1>6. CASE Clear(p, w, k) /\ ~b.rep
  <2>1. b \in Meant /\ p.pending \in Seq(Meant)
    BY <1>1, <1>6, <1>8 DEF Meant
  <2>2. Types(r, Meant)
    BY <1>1, <2>1, StepTypes
  <2>3. r.pending \in {<<>>, <<b>>, p.pending, Append(p.pending, b)}
    BY <1>1, StepGrows DEF Grows
  <2> HIDE DEF r, b, Byte
  <2>4. r.pending \in Seq(Meant)
    <3>1. <<>> \in Seq(Meant) /\ <<b>> \in Seq(Meant) /\ Append(p.pending, b) \in Seq(Meant)
      BY <2>1
    <3> QED
      BY <2>1, <2>3, <3>1
  <2>5. \A i \in 1..Len(r.pending) : ~r.pending[i].rep
    <3>1. \A i \in 1..Len(r.pending) : r.pending[i] \in Meant
      BY <2>4
    <3> QED
      BY <3>1 DEF Meant
  <2>6. ~(k + 1 < Len(w) /\ w[k + 1 + 1].rep /\ w[k + 1 + 1].c # "esc")
    BY <1>4, <1>6 DEF Follows
  <2>7. Clear(r, w, k + 1)
    BY <2>5, <2>6 DEF Clear
  <2> QED
    BY <2>2, <2>7 DEF Aligned, r, b
<1>7. CASE Clear(p, w, k) /\ b.rep
  <2>1. b.c = "esc"
    BY <1>1, <1>7 DEF Clear
  <2>2. p.mode \notin Swallows
    BY <1>7, <2>1
  <2>3. p.pending \in Seq(Meant)
    BY <1>7, <1>8
  <2>4. Types(r, Meant) /\ r.mode = "NEsc" /\ r.pending = <<b>>
    BY <1>1, <2>1, <2>2, <2>3, StepTypes
  <2>5. b.c \notin Finals
    BY <2>1 DEF Finals
  <2>6. k + 1 < Len(w) /\ Follows(b, w[k + 1 + 1])
    BY <1>1, <1>7, <2>5 DEF Chained
  <2> HIDE DEF r, b
  <2>7. Len(r.pending) = 1 /\ r.pending[1] = b /\ r.pending # <<>>
    BY <2>4
  <2>8. Cut(r, w, k + 1)
    BY <2>1, <2>4, <2>6, <2>7 DEF Cut
  <2> QED
    BY <2>4, <2>8 DEF Aligned, r, b
<1> QED
  BY <1>5, <1>6, <1>7 DEF Aligned

-----------------------------------------------------------------------------
(* The end of a drag                                                       *)

\* A release is on its way behind the first k bytes; and one is behind every drag.
Releases(w, k) == \E j \in k + 1..Len(w) : w[j].rep /\ w[j].c = "m"
Ending(w) == \A i \in 1..Len(w) : w[i].at.kind = "drag" => Releases(w, i)

\* Copy mode that the mouse began, or is beginning, will be ended.
Due(on, p, w, k) == Unended(on, p.out) \/ Dragging(p) => Releases(w, k)

LEMMA StepDue ==
  ASSUME NEW p \in Parser, NEW w \in Seq(Byte), NEW k \in 0..Len(w) - 1, Chained(w),
         Aligned(p, w, k), NEW copy \in BOOLEAN, NEW on \in BOOLEAN, Ending(w), Due(on, p, w, k)
  PROVE  Due(on, Step(p, w[k + 1], copy), w, k + 1)
<1> DEFINE b == w[k + 1]
           r == Step(p, b, copy)
<1>1. k \in Nat /\ Len(w) \in Nat /\ k < Len(w) /\ k + 1 \in 1..Len(w) /\ b \in Byte
  OBVIOUS
<1>2. p.pending \in Seq(Byte) /\ p.out \in Seq(Event)
  BY DEF Parser
<1>3. CASE b.rep /\ b.c = "m"
  <2>1. Cut(p, w, k)
    BY <1>1, <1>3 DEF Aligned, Clear
  <2>2. b.c \in Finals
    BY <1>3 DEF Finals
  <2>3. r.pending = <<>> /\ \E e \in Event : r.out = Append(p.out, e) /\ IsRelease(e)
    BY <1>1, <1>3, <2>1, <2>2, CutStep
  <2> HIDE DEF r, b, Event
  <2>4. ~Unended(on, r.out)
    BY <1>2, <2>3, ReleaseEnds
  <2>5. ~Dragging(r)
    BY <2>3 DEF Dragging
  <2> QED
    BY <2>4, <2>5 DEF Due, r, b
<1>4. CASE ~(b.rep /\ b.c = "m")
  <2>1. Releases(w, k) => Releases(w, k + 1)
    <3> SUFFICES ASSUME NEW j \in k + 1..Len(w), w[j].rep, w[j].c = "m" PROVE Releases(w, k + 1)
      BY DEF Releases
    <3>1. j # k + 1
      BY <1>4
    <3>2. j \in k + 1 + 1..Len(w)
      BY <1>1, <3>1
    <3> QED
      BY <3>2 DEF Releases
  <2>2. Grows(p, b, r)
    BY <1>1, StepGrows
  <2> HIDE DEF r
  <2>3. Unended(on, r.out) => Unended(on, p.out) \/ Dragging(p)
    BY <2>2 DEF Grows
  <2>4. Dragging(r) => Dragging(p) \/ b.at.kind = "drag"
    <3> DEFINE n == Len(p.pending)
               got == Append(p.pending, b)
    <3>1. n \in Nat /\ Len(got) = n + 1 /\ got[n + 1] = b /\ \A i \in 1..n : got[i] = p.pending[i]
      BY <1>1, <1>2
    <3>2. r.pending \in {<<>>, <<b>>, p.pending, got}
      BY <2>2 DEF Grows
    <3>6. Len(<<b>>) = 1 /\ <<b>>[1] = b
      OBVIOUS
    <3> HIDE DEF got, b
    <3>3. CASE r.pending = <<>>
      BY <3>3 DEF Dragging
    <3>4. CASE r.pending = <<b>>
      <4>1. \A i \in 1..Len(<<b>>) : i = 1
        BY <3>6
      <4> QED
        BY <3>4, <3>6, <4>1 DEF Dragging
    <3>5. CASE r.pending = p.pending
      BY <3>5 DEF Dragging
    <3>7. CASE r.pending = got
      <4> SUFFICES ASSUME NEW i \in 1..Len(got), got[i].at.kind = "drag"
                   PROVE  Dragging(p) \/ b.at.kind = "drag"
        BY <3>7 DEF Dragging
      <4>1. i = n + 1 \/ i \in 1..n
        BY <3>1
      <4> QED
        BY <3>1, <4>1 DEF Dragging
    <3> QED
      BY <3>2, <3>3, <3>4, <3>5, <3>7
  <2>5. b.at.kind = "drag" => Releases(w, k + 1)
    BY <1>1 DEF Ending
  <2> QED
    BY <2>1, <2>3, <2>4, <2>5 DEF Due, r
<1> QED
  BY <1>3, <1>4

-----------------------------------------------------------------------------
(* What is read                                                            *)

\* Of the same bytes the steps are the same.
LEMMA StepsSame ==
  ASSUME NEW f, NEW g, NEW p, NEW bytes, NEW others, NEW n, NEW m \in Nat, NEW copy,
         Steps(f, p, bytes, n, copy), Steps(g, p, others, m, copy),
         1..m \subseteq 1..n, \A i \in 1..m : bytes[i] = others[i]
  PROVE  f[m] = g[m]
<1> DEFINE T == {i \in 0..m : f[i] = g[i]}
<1>1. 0 \in T
  BY DEF Steps
<1>2. ASSUME NEW i \in 1..m, i - 1 \in T PROVE i \in T
  <2>1. i \in 0..m /\ i \in 1..n
    OBVIOUS
  <2>2. f[i] = Step(f[i - 1], bytes[i], copy) /\ g[i] = Step(g[i - 1], others[i], copy)
    BY <2>1 DEF Steps
  <2> QED
    BY <1>2, <2>1, <2>2
<1> HIDE DEF T
<1>3. \A i \in 1..m : i - 1 \in T => i \in T
  BY <1>2
<1>4. 0..m \subseteq T
  BY <1>1, <1>3, Climbs, Zenon
<1>5. m \in 0..m
  OBVIOUS
<1> QED
  BY <1>4, <1>5 DEF T

LEMMA FlushFields ==
  ASSUME NEW p \in Parser
  PROVE  LET r == FlushGround(p)
         IN  r.ground = <<>> /\ r.mode = p.mode /\ r.pending = p.pending
<1>1. CASE p.ground = <<>>
  BY <1>1 DEF FlushGround
<1>2. CASE p.ground # <<>>
  <2> DEFINE q == Emitted(p, Pane(p.ground))
  <2>1. p.ground \in Seq(Byte)
    BY DEF Parser
  <2>2. q \in Parser /\ q.mode = p.mode /\ q.pending = p.pending
    BY <2>1, EventsTyped, EmittedTyped, EmittedFields
  <2>3. FlushGround(p) = [q EXCEPT !.ground = <<>>]
    BY <1>2 DEF FlushGround
  <2> HIDE DEF q
  <2> QED
    BY <2>2, <2>3, GathersFields
<1> QED
  BY <1>1, <1>2

\* The sequence that was typed takes no start of a report among the first n bytes.
Untorn(p, w, n, copy) ==
  \A i \in 1..n : w[i].rep /\ w[i].c = "esc"
                    => Feed(p, SubSeq(w, 1, i - 1), copy).mode \notin Swallows

\* A read of n bytes.
LEMMA ReadAligned ==
  ASSUME NEW p \in Parser, NEW w \in Seq(Byte), NEW n \in 0..Len(w), NEW copy \in BOOLEAN,
         Chained(w), Aligned(p, w, 0), Types(p, Meant), Untorn(p, w, n, copy)
  PROVE  LET q == Feed(p, SubSeq(w, 1, n), copy)
         IN  /\ Aligned(q, w, n) /\ Types(q, Meant)
             /\ \A on \in BOOLEAN : Ending(w) /\ Due(on, p, w, 0) => Due(on, q, w, n)
<1> DEFINE bytes == SubSeq(w, 1, n)
<1>1. n \in Nat /\ bytes \in Seq(Byte) /\ Len(bytes) = n /\ \A i \in 1..n : bytes[i] = w[i]
  OBVIOUS
<1> HIDE DEF bytes
<1>2. PICK f \in [0..n -> Parser] :
        Steps(f, p, bytes, n, copy) /\ Feed(p, bytes, copy) = FlushGround(f[n])
  BY <1>1, FeedIs
<1>3. f[0] = p /\ \A i \in 1..n : f[i] = Step(f[i - 1], w[i], copy)
  BY <1>1, <1>2 DEF Steps
<1>4. ASSUME NEW i \in 1..n, w[i].rep, w[i].c = "esc" PROVE f[i - 1].mode \notin Swallows
  <2> DEFINE m == i - 1
             others == SubSeq(w, 1, m)
  <2>1. m \in Nat /\ m \in 0..n /\ others \in Seq(Byte) /\ Len(others) = m
        /\ (\A j \in 1..m : others[j] = w[j]) /\ 1..m \subseteq 1..n
    BY <1>1
  <2> HIDE DEF m, others
  <2>2. PICK g \in [0..m -> Parser] :
          Steps(g, p, others, m, copy) /\ Feed(p, others, copy) = FlushGround(g[m])
    BY <2>1, FeedIs
  <2>5. \A j \in 1..m : bytes[j] = others[j]
    BY <1>1, <2>1
  <2>3. f[m] = g[m]
    BY <1>2, <2>1, <2>2, <2>5, StepsSame
  <2>4. f[m] \in Parser
    BY <1>2, <2>1
  <2>6. Feed(p, others, copy).mode = f[m].mode
    BY <2>2, <2>3, <2>4, FlushFields
  <2>7. Feed(p, others, copy).mode \notin Swallows
    BY <1>4 DEF Untorn, m, others
  <2> QED
    BY <2>6, <2>7 DEF m
<1> DEFINE Fine(i) == /\ Aligned(f[i], w, i) /\ Types(f[i], Meant)
                      /\ \A on \in BOOLEAN : Ending(w) /\ Due(on, p, w, 0) => Due(on, f[i], w, i)
           T == {i \in 0..n : Fine(i)}
<1>5. 0 \in T
  BY <1>1, <1>3
<1>6. ASSUME NEW i \in 1..n, i - 1 \in T PROVE i \in T
  <2> DEFINE k == i - 1
  <2>1. k \in 0..Len(w) - 1 /\ k + 1 = i /\ k \in 0..n /\ i \in 0..n
    BY <1>1
  <2>2. Fine(k)
    BY <1>6
  <2> HIDE DEF k
  <2>3. f[k] \in Parser
    BY <1>2, <2>1
  <2>4. f[k + 1] = Step(f[k], w[k + 1], copy)
    BY <1>3, <2>1 DEF k
  <2>5. ~(w[k + 1].rep /\ w[k + 1].c = "esc" /\ f[k].mode \in Swallows)
    BY <1>4, <2>1 DEF k
  <2>6. Aligned(f[k + 1], w, k + 1) /\ Types(f[k + 1], Meant)
    BY <2>1, <2>2, <2>3, <2>4, <2>5, StepAligned
  <2>7. ASSUME NEW on \in BOOLEAN, Ending(w), Due(on, p, w, 0) PROVE Due(on, f[k + 1], w, k + 1)
    <3>1. Due(on, f[k], w, k)
      BY <2>2, <2>7
    <3> QED
      BY <2>1, <2>2, <2>3, <2>4, <2>7, <3>1, StepDue
  <2>8. Fine(k + 1)
    BY <2>6, <2>7
  <2> QED
    BY <2>1, <2>8
<1>7. Fine(n)
  <2> HIDE DEF T, Fine
  <2>1. \A i \in 1..n : i - 1 \in T => i \in T
    BY <1>6
  <2>2. 0..n \subseteq T
    BY <1>1, <1>5, <2>1, Climbs, Zenon
  <2>3. n \in 0..n
    BY <1>1
  <2> QED
    BY <2>2, <2>3 DEF T
<1> DEFINE q == FlushGround(f[n])
<1>8. f[n] \in Parser
  BY <1>1, <1>2
<1>9. Types(q, Meant) /\ q.mode = f[n].mode /\ q.pending = f[n].pending
  BY <1>7, <1>8, FlushTypes
<1>10. Quiets(f[n], q)
  BY <1>8, FlushQuiets
<1> HIDE DEF q
<1>11. Aligned(q, w, n)
  BY <1>7, <1>9 DEF Aligned, Clear, Cut
<1>12. ASSUME NEW on \in BOOLEAN, Ending(w), Due(on, p, w, 0) PROVE Due(on, q, w, n)
  <2>1. Due(on, f[n], w, n)
    BY <1>7, <1>12
  <2>2. Dragging(q) => Dragging(f[n])
    BY <1>9 DEF Dragging
  <2>3. Unended(on, q.out) => Unended(on, f[n].out)
    BY <1>10 DEF Quiets
  <2> QED
    BY <2>1, <2>2, <2>3 DEF Due
<1> QED
  BY <1>2, <1>9, <1>11, <1>12 DEF q, bytes

\* A read in copy mode types nothing.
LEMMA ReadSilent ==
  ASSUME NEW p \in Parser, p.mode \in Normal, Types(p, {}), NEW bytes \in Seq(Byte)
  PROVE  Types(Feed(p, bytes, TRUE), {})
<1> DEFINE n == Len(bytes)
<1>1. n \in Nat /\ \A i \in 1..n : bytes[i] \in Byte
  OBVIOUS
<1>2. PICK f \in [0..n -> Parser] :
        Steps(f, p, bytes, n, TRUE) /\ Feed(p, bytes, TRUE) = FlushGround(f[n])
  BY FeedIs
<1> HIDE DEF n
<1> DEFINE T == {i \in 0..n : Types(f[i], {}) /\ f[i].mode \in Normal}
<1>3. 0 \in T
  BY <1>1, <1>2 DEF Steps
<1>4. ASSUME NEW i \in 1..n, i - 1 \in T PROVE i \in T
  <2>1. i \in 0..n /\ i - 1 \in 0..n /\ bytes[i] \in Byte
    BY <1>1
  <2>2. f[i - 1] \in Parser /\ f[i] = Step(f[i - 1], bytes[i], TRUE)
    BY <1>2, <2>1 DEF Steps
  <2>3. Types(f[i - 1], {}) /\ f[i - 1].mode \in Normal
    BY <1>4
  <2>4. Types(f[i], {}) /\ f[i].mode \in Normal
    BY <2>1, <2>2, <2>3, StepTypes
  <2> QED
    BY <2>1, <2>4
<1> HIDE DEF T
<1>5. \A i \in 1..n : i - 1 \in T => i \in T
  BY <1>4
<1>6. 0..n \subseteq T
  BY <1>1, <1>3, <1>5, Climbs, Zenon
<1>7. n \in 0..n
  BY <1>1
<1>8. Types(f[n], {}) /\ f[n] \in Parser
  BY <1>2, <1>6, <1>7 DEF T
<1> QED
  BY <1>2, <1>8, FlushTypes

\* The escape whose time is up is one that was typed, if it was not cut off.
LEMMA TimeoutAligned ==
  ASSUME NEW p \in Parser, PendingEscape(p), NEW w \in Seq(Byte), Aligned(p, w, 0), Types(p, Meant),
         NEW copy \in BOOLEAN,
         ~(w # <<>> /\ w[1].rep /\ w[1].c # "esc")
  PROVE  LET q == FlushEscapeTimeout(p, copy)
         IN  /\ Aligned(q, w, 0) /\ Types(q, Meant)
             /\ \A on \in BOOLEAN : Due(on, p, w, 0) => Due(on, q, w, 0)
<1> DEFINE e == IF copy THEN CopyKey("esc") ELSE Pane(p.pending)
           f == Emitted(p, e)
           q == FlushEscapeTimeout(p, copy)
<1>1. p.pending \in Seq(Byte)
  BY DEF Parser
<1>2. Clear(p, w, 0)
  <2>1. SUFFICES ASSUME Cut(p, w, 0) PROVE FALSE
    BY DEF Aligned
  <2>2. 0 < Len(w) /\ Follows(p.pending[Len(p.pending)], w[0 + 1])
    BY <2>1 DEF Cut
  <2>3. w # <<>> /\ w[1].rep /\ w[1].c # "esc"
    BY <2>2 DEF Follows
  <2> QED
    BY <2>3
<1>3. p.pending \in Seq(Meant)
  <2> DEFINE s == p.pending
  <2> HIDE DEF s
  <2>1. s \in Seq(Byte)
    BY <1>1 DEF s
  <2>2. \A i \in 1..Len(s) : s[i] \in Meant
    BY <1>2, <2>1 DEF Clear, Meant, s
  <2> HIDE DEF Byte, Meant
  <2>3. s \in Seq(Meant)
    BY <2>1, <2>2
  <2> QED
    BY <2>3 DEF s
<1>4. e \in Event /\ e.ev # "mouse" /\ (e.ev = "pane" => e.bytes \in Seq(Meant))
  <2>1. Pane(p.pending) \in Event /\ CopyKey("esc") \in Event
    BY <1>1, EventsTyped DEF KeyName, Class
  <2>2. CopyKey("esc").ev = "copykey" /\ Pane(p.pending).ev = "pane" /\ Pane(p.pending).bytes = p.pending
    BY DEF CopyKey, Pane
  <2> QED
    BY <1>3, <2>1, <2>2
<1> HIDE DEF e
<1>5. f \in Parser /\ Types(f, Meant) /\ Quiets(p, f)
  BY <1>4, EmittedTyped, EmitsTypes, EmitsQuiets
<1>6. q = InMode(f, "Ground", <<>>) \/ q = InMode(p, "Ground", <<>>)
  BY DEF FlushEscapeTimeout, e
<1>7. Quiets(p, p)
  BY DEF Quiets
<1> HIDE DEF f, q
<1>8. q.pending = <<>> /\ Types(q, Meant) /\ Quiets(p, q)
  <2>1. ASSUME NEW g \in Parser, Types(g, Meant), Quiets(p, g), q = InMode(g, "Ground", <<>>)
        PROVE  q.pending = <<>> /\ Types(q, Meant) /\ Quiets(p, q)
    BY <2>1, InModeTypes, InModeFields DEF Quiets
  <2> QED
    BY <1>5, <1>6, <1>7, <2>1
<1>9. Clear(q, w, 0)
  <2>1. Len(q.pending) = 0
    BY <1>8
  <2> QED
    BY <1>2, <2>1 DEF Clear
<1>10. ASSUME NEW on \in BOOLEAN, Due(on, p, w, 0) PROVE Due(on, q, w, 0)
  <2>1. ~Dragging(q)
    BY <1>8 DEF Dragging
  <2> QED
    BY <1>8, <1>10, <2>1 DEF Due, Quiets
<1> QED
  BY <1>8, <1>9, <1>10 DEF Aligned, q

\* In copy mode the escape is a key of copy mode.
LEMMA TimeoutSilent ==
  ASSUME NEW p \in Parser, PendingEscape(p), Types(p, {})
  PROVE  LET q == FlushEscapeTimeout(p, TRUE)
         IN  Types(q, {}) /\ q.mode = "Ground"
<1> DEFINE f == Emitted(p, CopyKey("esc"))
           q == FlushEscapeTimeout(p, TRUE)
<1>1. f \in Parser /\ Types(f, {})
  <2>1. CopyKey("esc") \in Event /\ CopyKey("esc").ev # "pane"
    BY EventsTyped DEF KeyName, Class, CopyKey
  <2> HIDE DEF Event
  <2> QED
    BY <2>1, EmittedTyped, EmitsTypes
<1>2. q = InMode(f, "Ground", <<>>) \/ q = InMode(p, "Ground", <<>>)
  BY DEF FlushEscapeTimeout
<1>3. \A g \in Parser : Types(g, {}) => LET r == InMode(g, "Ground", <<>>)
                                      IN  Types(r, {}) /\ r.mode = "Ground"
  BY InModeTypes, InModeFields
<1> HIDE DEF f, q
<1>4. Types(q, {}) /\ q.mode = "Ground"
  BY <1>1, <1>2, <1>3
<1> QED
  BY <1>4 DEF q

-----------------------------------------------------------------------------
(* What is under way                                                       *)

\* The bytes that are read leave the others as they were.
LEMMA DropAligned ==
  ASSUME NEW w \in Seq(Byte), NEW n \in 0..Len(w), Chained(w), NEW p \in Parser, Aligned(p, w, n)
  PROVE  LET v == SubSeq(w, n + 1, Len(w))
             q == [p EXCEPT !.out = <<>>]
         IN  /\ Chained(v) /\ Aligned(q, v, 0)
             /\ Releases(w, n) => Releases(v, 0)
             /\ Ending(w) => Ending(v)
<1> DEFINE v == SubSeq(w, n + 1, Len(w))
           q == [p EXCEPT !.out = <<>>]
           l == Len(w) - n
<1>1. n \in Nat /\ Len(w) \in Nat /\ l \in Nat /\ Len(v) = l /\ Len(w) = n + l
      /\ \A i \in 1..l : v[i] = w[i + n]
  OBVIOUS
<1>2. q.mode = p.mode /\ q.pending = p.pending
  BY DEF Parser
<1> HIDE DEF v, q, l
<1>3. Chained(v)
  <2> SUFFICES ASSUME NEW i \in 1..Len(v), v[i].rep
               PROVE  /\ v[i].c \notin Finals => i < Len(v) /\ Follows(v[i], v[i + 1])
                      /\ v[i].c # "esc" /\ i > 1 => Follows(v[i - 1], v[i])
    BY DEF Chained
  <2>1. i \in 1..l /\ i + n \in 1..Len(w) /\ v[i] = w[i + n]
    BY <1>1
  <2>2. /\ w[i + n].c \notin Finals => i + n < Len(w) /\ Follows(w[i + n], w[(i + n) + 1])
        /\ w[i + n].c # "esc" /\ i + n > 1 => Follows(w[(i + n) - 1], w[i + n])
    BY <2>1 DEF Chained
  <2>3. i + n < Len(w) => i < Len(v) /\ v[i + 1] = w[(i + n) + 1]
    <3>1. i + n < Len(w) => i + 1 \in 1..l /\ (i + 1) + n = (i + n) + 1
      BY <1>1, <2>1
    <3>2. \A m : m \in 1..l => v[m] = w[m + n]
      BY <1>1
    <3>3. i + n < Len(w) => i < Len(v)
      BY <1>1, <2>1
    <3> QED
      BY <3>1, <3>2, <3>3
  <2>4. i > 1 => i + n > 1 /\ v[i - 1] = w[(i + n) - 1]
    <3>1. i > 1 => i - 1 \in 1..l /\ (i - 1) + n = (i + n) - 1 /\ i + n > 1
      BY <1>1, <2>1
    <3>2. \A m : m \in 1..l => v[m] = w[m + n]
      BY <1>1
    <3> QED
      BY <3>1, <3>2
  <2> QED
    BY <2>1, <2>2, <2>3, <2>4
<1>4. n < Len(w) <=> 0 < Len(v)
  BY <1>1
<1>5. n < Len(w) => v[0 + 1] = w[n + 1]
  BY <1>1
<1>6. Aligned(q, v, 0)
  BY <1>2, <1>4, <1>5 DEF Aligned, Clear, Cut
<1>7. ASSUME NEW k \in Nat, Releases(w, k + n) PROVE Releases(v, k)
  <2>1. PICK j \in k + n + 1..Len(w) : w[j].rep /\ w[j].c = "m"
    BY <1>7 DEF Releases
  <2>2. j - n \in k + 1..Len(v) /\ j - n \in 1..l /\ (j - n) + n = j
    BY <1>1, <2>1
  <2>3. v[j - n] = w[j]
    BY <1>1, <2>2
  <2> QED
    BY <2>1, <2>2, <2>3 DEF Releases
<1>8. Releases(w, n) => Releases(v, 0)
  <2>1. 0 \in Nat /\ 0 + n = n
    BY <1>1
  <2> QED
    BY <1>7, <2>1
<1>9. Ending(w) => Ending(v)
  <2> SUFFICES ASSUME Ending(w), NEW i \in 1..Len(v), v[i].at.kind = "drag" PROVE Releases(v, i)
    BY DEF Ending
  <2>1. i \in Nat /\ i + n \in 1..Len(w) /\ v[i] = w[i + n]
    BY <1>1
  <2>2. Releases(w, i + n)
    BY <2>1 DEF Ending
  <2> QED
    BY <1>7, <2>1, <2>2
<1> QED
  BY <1>3, <1>6, <1>8, <1>9 DEF v, q

\* What is sent does not begin in the middle of a report.
LEMMA SentAligned ==
  ASSUME NEW w \in Seq(Byte), Chained(w), NEW s \in Seq(Byte), Chained(s),
         s # <<>> /\ s[1].rep => s[1].c = "esc", NEW p, Aligned(p, w, 0)
  PROVE  /\ Chained(w \o s) /\ Aligned(p, w \o s, 0)
         /\ \A k \in Nat : Releases(w, k) => Releases(w \o s, k)
         /\ \A k \in 0..Len(w) : Releases(s, 0) => Releases(w \o s, k)
         /\ Ending(w) /\ Ending(s) => Ending(w \o s)
         /\ Releases(s, 0) /\ Ending(s) => Ending(w \o s)
<1> DEFINE v == w \o s
           n == Len(w)
           l == Len(s)
<1>1. n \in Nat /\ l \in Nat /\ Len(v) = n + l /\ (l = 0 <=> s = <<>>)
      /\ (\A i \in 1..n : v[i] = w[i]) /\ \A i \in 1..l : v[i + n] = s[i]
  OBVIOUS
<1>2. \A i \in 1..Len(v) : i \in 1..n \/ (i - n \in 1..l /\ (i - n) + n = i)
  BY <1>1
<1> HIDE DEF v, n, l
<1>3. Chained(v)
  <2> SUFFICES ASSUME NEW i \in 1..Len(v), v[i].rep
               PROVE  /\ v[i].c \notin Finals => i < Len(v) /\ Follows(v[i], v[i + 1])
                      /\ v[i].c # "esc" /\ i > 1 => Follows(v[i - 1], v[i])
    BY DEF Chained
  <2>1. CASE i \in 1..n
    <3>1. v[i] = w[i] /\ n <= Len(v)
      BY <1>1, <2>1
    <3>2. /\ w[i].c \notin Finals => i < n /\ Follows(w[i], w[i + 1])
          /\ w[i].c # "esc" /\ i > 1 => Follows(w[i - 1], w[i])
      BY <2>1, <3>1 DEF Chained, n
    <3>3. i < n => i < Len(v) /\ v[i + 1] = w[i + 1]
      BY <1>1, <2>1
    <3>4. i > 1 => v[i - 1] = w[i - 1]
      BY <1>1, <2>1
    <3> QED
      BY <3>1, <3>2, <3>3, <3>4
  <2>2. CASE i \notin 1..n
    <3> DEFINE j == i - n
    <3>1. j \in 1..l /\ i = j + n /\ v[i] = s[j]
      BY <1>1, <1>2, <2>2
    <3> HIDE DEF j
    <3>2. /\ s[j].c \notin Finals => j < l /\ Follows(s[j], s[j + 1])
          /\ s[j].c # "esc" /\ j > 1 => Follows(s[j - 1], s[j])
      BY <3>1 DEF Chained, l
    <3>3. j < l => i < Len(v) /\ v[i + 1] = s[j + 1]
      <4> SUFFICES ASSUME j < l PROVE i < Len(v) /\ v[i + 1] = s[j + 1]
        OBVIOUS
      <4>1. j + 1 \in 1..l /\ (j + 1) + n = i + 1 /\ i < Len(v)
        BY <1>1, <3>1
      <4> QED
        BY <1>1, <4>1
    <3>4. s[j].c # "esc" => j > 1
      <4>1. j = 1 => s # <<>> /\ s[1].rep
        BY <1>1, <3>1
      <4> QED
        BY <3>1, <4>1
    <3>5. j > 1 => v[i - 1] = s[j - 1]
      <4> SUFFICES ASSUME j > 1 PROVE v[i - 1] = s[j - 1]
        OBVIOUS
      <4>1. j - 1 \in 1..l /\ (j - 1) + n = i - 1
        BY <1>1, <3>1
      <4> QED
        BY <1>1, <4>1
    <3> QED
      BY <3>1, <3>2, <3>3, <3>4, <3>5
  <2> QED
    BY <2>1, <2>2
<1>4. Aligned(p, v, 0)
  <2>1. CASE n # 0
    <3>1. 0 < n /\ 0 < Len(v) /\ v[0 + 1] = w[0 + 1]
      BY <1>1, <2>1
    <3> QED
      BY <3>1 DEF Aligned, Clear, Cut, n
  <2>2. CASE n = 0
    <3>1. ~(0 < n)
      BY <2>2
    <3>2. Clear(p, w, 0)
      BY <3>1 DEF Aligned, Cut, n
    <3>3. 0 < Len(v) => s # <<>> /\ v[0 + 1] = s[1]
      <4>1. 0 < Len(v) => 1 \in 1..l /\ 1 + n = 0 + 1
        BY <1>1, <2>2
      <4> QED
        BY <1>1, <4>1
    <3> QED
      BY <3>2, <3>3 DEF Aligned, Clear
  <2> QED
    BY <2>1, <2>2
<1>5. ASSUME NEW k \in Nat, Releases(w, k) PROVE Releases(v, k)
  <2>1. PICK j \in k + 1..Len(w) : w[j].rep /\ w[j].c = "m"
    BY <1>5 DEF Releases
  <2>2. j \in k + 1..Len(v) /\ v[j] = w[j]
    BY <1>1, <2>1 DEF n
  <2> QED
    BY <2>1, <2>2 DEF Releases
<1>6. ASSUME NEW k \in Nat, Releases(s, k) PROVE \A m \in 0..k + n : Releases(v, m)
  <2>1. PICK j \in k + 1..Len(s) : s[j].rep /\ s[j].c = "m"
    BY <1>6 DEF Releases
  <2>2. j \in 1..l /\ j + n \in k + n + 1..Len(v)
    BY <1>1, <2>1 DEF l
  <2>3. v[j + n] = s[j]
    BY <1>1, <2>2
  <2>4. \A m \in 0..k + n : j + n \in m + 1..Len(v)
    BY <1>1, <2>2
  <2> QED
    BY <2>1, <2>3, <2>4 DEF Releases
<1>7. Releases(s, 0) => \A k \in 0..n : Releases(v, k)
  <2>1. 0 + n = n /\ 0 \in Nat
    BY <1>1
  <2> QED
    BY <1>6, <2>1
<1>8. ASSUME Ending(w) \/ Releases(s, 0), Ending(s) PROVE Ending(v)
  <2> SUFFICES ASSUME NEW i \in 1..Len(v), v[i].at.kind = "drag" PROVE Releases(v, i)
    BY DEF Ending
  <2>1. CASE i \in 1..n
    <3>1. v[i] = w[i] /\ i \in Nat /\ i \in 0..n
      BY <1>1, <2>1
    <3>2. Ending(w) => Releases(w, i)
      BY <2>1, <3>1 DEF Ending, n
    <3> QED
      BY <1>5, <1>7, <1>8, <3>1, <3>2
  <2>2. CASE i \notin 1..n
    <3> DEFINE j == i - n
    <3>1. j \in 1..l /\ i = j + n /\ v[i] = s[j] /\ j \in Nat /\ i \in 0..j + n
      BY <1>1, <1>2, <2>2
    <3> HIDE DEF j
    <3>2. Releases(s, j)
      BY <1>8, <3>1 DEF Ending, l
    <3> QED
      BY <1>6, <3>1, <3>2
  <2> QED
    BY <2>1, <2>2
<1> QED
  BY <1>3, <1>4, <1>5, <1>7, <1>8 DEF v, n

LEMMA KeySent ==
  ASSUME NEW s \in Seq({Key(c) : c \in Class})
  PROVE  s \in Seq(Byte) /\ Chained(s) /\ Ending(s) /\ (s # <<>> => ~s[1].rep)
<1>1. s \in Seq(Byte) /\ \A i \in 1..Len(s) : ~s[i].rep /\ s[i].at.kind # "drag"
  BY KeyTyped
<1>2. s # <<>> => 1 \in 1..Len(s)
  BY <1>1
<1> QED
  BY <1>1, <1>2 DEF Chained, Ending

LEMMA ReportSent ==
  ASSUME NEW kind \in {"button", "drag", "scrollup", "scrolldown"}, NEW spot \in Spots,
         NEW final \in {"M", "m"}, final = "M" \/ kind = "button"
  PROVE  LET s == Report(kind, spot, final)
         IN  /\ s \in Seq(Byte) /\ Chained(s)
             /\ s # <<>> /\ s[1].rep => s[1].c = "esc"
             /\ kind # "drag" => Ending(s)
             /\ final = "m" => Releases(s, 0)
<1> DEFINE B(c) == [Key(c) EXCEPT !.rep = TRUE]
           p == [B("5") EXCEPT !.at = [kind |-> kind, col |-> spot[1], row |-> spot[2]]]
           s == Report(kind, spot, final)
<1>1. s \in Seq(Byte)
  BY ReportTyped
<1>2. \A c : B(c).c = c /\ B(c).rep /\ B(c).at.kind = "none"
  BY DEF Key, NoMouse
<1>3. p.c = "5" /\ p.rep /\ p.at.kind = kind
  BY DEF Key, NoMouse
<1>4. s = <<B("esc"), B("["), B("<"), p, B(final)>>
  BY DEF Report
<1> HIDE DEF B, p
<1>5. /\ Len(s) = 5 /\ s[1] = B("esc") /\ s[2] = B("[") /\ s[3] = B("<") /\ s[4] = p
      /\ s[5] = B(final)
  BY <1>4
<1> HIDE DEF s
<1>6. /\ Follows(s[1], s[2]) /\ Follows(s[2], s[3]) /\ Follows(s[3], s[4]) /\ Follows(s[4], s[5])
      /\ s[1].c = "esc" /\ s[5].c \in Finals
  BY <1>2, <1>3, <1>5 DEF Follows, Finals
<1>7. Chained(s)
  <2> SUFFICES ASSUME NEW i \in 1..5
               PROVE  /\ s[i].c \notin Finals => i < 5 /\ Follows(s[i], s[i + 1])
                      /\ s[i].c # "esc" /\ i > 1 => Follows(s[i - 1], s[i])
    BY <1>5 DEF Chained
  <2>1. i = 1 \/ i = 2 \/ i = 3 \/ i = 4 \/ i = 5
    OBVIOUS
  <2> QED
    BY <1>6, <2>1
<1>8. \A i \in 1..5 : s[i].at.kind = "drag" => kind = "drag"
  <2> SUFFICES ASSUME NEW i \in 1..5, s[i].at.kind = "drag" PROVE kind = "drag"
    OBVIOUS
  <2>1. i = 1 \/ i = 2 \/ i = 3 \/ i = 4 \/ i = 5
    OBVIOUS
  <2> QED
    BY <1>2, <1>3, <1>5, <2>1
<1>9. final = "m" => Releases(s, 0)
  <2>1. 5 \in 0 + 1..Len(s)
    BY <1>5
  <2> QED
    BY <1>2, <1>5, <2>1 DEF Releases
<1> QED
  BY <1>1, <1>2, <1>5, <1>7, <1>8, <1>9 DEF Ending, s

-----------------------------------------------------------------------------
(* What an event types, and how copy mode by the mouse begins and ends     *)

MouseOn(w) == w.cm # None /\ w.cm.mouse

\* Nothing is typed, and no copy mode by the mouse begun.
Lets(r, w) == r.step.typed = w.step.typed /\ (MouseOn(r) => MouseOn(w))

LEMMA MouseFields ==
  ASSUME NEW Ss, NEW c \in [cursor : Point, offset : Nat, sel : Ss,
                            dragging : BOOLEAN, mouse : BOOLEAN]
  PROVE  /\ \A o : [c EXCEPT !.offset = o].mouse = c.mouse
         /\ \A q : [c EXCEPT !.cursor = q].mouse = c.mouse
         /\ \A o, y : [c EXCEPT !.offset = o, !.cursor.y = y].mouse = c.mouse
         /\ \A x : [c EXCEPT !.cursor.x = x].mouse = c.mouse
         /\ \A y : [c EXCEPT !.cursor.y = y].mouse = c.mouse
         /\ \A sel : [c EXCEPT !.sel = sel].mouse = c.mouse
         /\ \A h : [c EXCEPT !.sel.head = h].mouse = c.mouse
         /\ \A d : [c EXCEPT !.dragging = d].mouse = c.mouse
OBVIOUS

LEMMA SameMouse ==
  ASSUME NEW c \in Copies
  PROVE  /\ \A o : [c EXCEPT !.offset = o].mouse = c.mouse
         /\ \A q : [c EXCEPT !.cursor = q].mouse = c.mouse
         /\ \A o, y : [c EXCEPT !.offset = o, !.cursor.y = y].mouse = c.mouse
         /\ \A x : [c EXCEPT !.cursor.x = x].mouse = c.mouse
         /\ \A y : [c EXCEPT !.cursor.y = y].mouse = c.mouse
         /\ \A sel : [c EXCEPT !.sel = sel].mouse = c.mouse
         /\ \A h : [c EXCEPT !.sel.head = h].mouse = c.mouse
         /\ \A d : [c EXCEPT !.dragging = d].mouse = c.mouse
BY MouseFields DEF Copies

LEMMA ScrollsMouse ==
  ASSUME NEW c \in Copies, NEW s, NEW n
  PROVE  /\ Up(c, s, n).cm.mouse = c.mouse /\ Down(c, s, n).cm.mouse = c.mouse
         /\ Stay(c, s).cm.mouse = c.mouse
<1>1. /\ \A k : [c EXCEPT !.offset = @ + k].mouse = c.mouse
      /\ \A k : [c EXCEPT !.offset = @ - k].mouse = c.mouse
  BY DEF Copies
<1> QED
  BY <1>1 DEF Up, Down, Stay

LEMMA HeadAtMouse ==
  ASSUME NEW c \in Copies, NEW s
  PROVE  HeadAt(c, s).mouse = c.mouse /\ Clamped(c, s).mouse = c.mouse
<1>1. [c EXCEPT !.sel = ClampedToScreen(s, @)].mouse = c.mouse
  BY DEF Copies
<1> QED
  BY <1>1, SameMouse DEF HeadAt, Clamped

LEMMA MovedMouse ==
  ASSUME NEW m, NEW c \in Copies, NEW s, ScreenOk(s)
  PROVE  Moved(m, c, s).cm.mouse = c.mouse
<1> DEFINE last == s.rows - 1
           half == Max({s.rows \div 2, 1})
           x == ColumnAfter(m, c, s)
           top == [c EXCEPT !.offset = ScrollbackRows(s), !.cursor.y = 0]
           bottom == [c EXCEPT !.offset = 0, !.cursor.y = last]
           above == [c EXCEPT !.cursor.y = @ - 1]
           below == [c EXCEPT !.cursor.y = @ + 1]
           across == [c EXCEPT !.cursor.x = x]
<1>1. c.cursor.y \in Nat /\ s.rows \in Nat
  BY CopyTyped, ScreenFacts
<1>2. /\ top.mouse = c.mouse /\ bottom.mouse = c.mouse /\ across.mouse = c.mouse
      /\ above.mouse = c.mouse /\ below.mouse = c.mouse
  <2>1. above.mouse = c.mouse /\ below.mouse = c.mouse
    BY DEF Copies
  <2> HIDE DEF last, x
  <2> QED
    BY <2>1, SameMouse
<1> HIDE DEF top, bottom, across, above, below, last, half, x
<1>3. \A d, t : Stay(d, t).cm = d
  BY DEF Stay
<1>4. \A n : Up(c, s, n).cm.mouse = c.mouse /\ Down(c, s, n).cm.mouse = c.mouse
  BY ScrollsMouse
<1>5. CASE m = "Up"
  <2>1. CASE c.cursor.y > 0
    <3>1. Moved(m, c, s) = Stay(above, s)
      BY <1>5, <2>1 DEF Moved, above
    <3> QED
      BY <1>2, <1>3, <3>1
  <2>2. CASE c.cursor.y = 0
    <3>1. Moved(m, c, s) = Up(c, s, 1)
      BY <1>5, <2>2 DEF Moved
    <3> QED
      BY <1>4, <3>1
  <2> QED
    BY <1>1, <2>1, <2>2
<1>6. CASE m = "Down"
  <2>1. CASE c.cursor.y < last
    <3>1. Moved(m, c, s) = Stay(below, s)
      BY <1>1, <1>6, <2>1 DEF Moved, below, last
    <3> QED
      BY <1>2, <1>3, <3>1
  <2>2. CASE c.cursor.y >= last
    <3>1. ~(c.cursor.y < last)
      BY <1>1, <2>2 DEF last
    <3>2. Moved(m, c, s) = Down(c, s, 1)
      BY <1>6, <2>2, <3>1 DEF Moved, last
    <3> QED
      BY <1>4, <3>2
  <2> QED
    BY <1>1, <2>1, <2>2 DEF last
<1>7. CASE m \notin {"Up", "Down"}
  <2>1. Moved(m, c, s) \in {Stay(top, ScrollTop(s)), Stay(bottom, ScrollBottom(s)),
          Up(c, s, half), Down(c, s, half), Up(c, s, s.rows), Down(c, s, s.rows), Stay(across, s)}
    <3>1. CASE m = "Top"
      BY <3>1 DEF Moved, top
    <3>2. CASE m = "Bottom"
      BY <3>2 DEF Moved, bottom, last
    <3>3. CASE m = "HalfPageUp"
      BY <3>3 DEF Moved, half
    <3>4. CASE m = "HalfPageDown"
      BY <3>4 DEF Moved, half
    <3>5. CASE m \in {"PageUp", "PageDown"}
      BY <3>5 DEF Moved
    <3>6. CASE m \notin {"Up", "Down", "Top", "Bottom", "HalfPageUp", "HalfPageDown", "PageUp", "PageDown"}
      BY <3>6 DEF Moved, across, x
    <3> QED
      BY <1>7, <3>1, <3>2, <3>3, <3>4, <3>5, <3>6
  <2> QED
    BY <1>2, <1>3, <1>4, <2>1
<1> QED
  BY <1>5, <1>6, <1>7

\* What puts copy mode back with its flag.
LEMMA PutsLets ==
  ASSUME NEW w, Good(w), w.cm # None, NEW after, after.cm \in Copies, after.cm.mouse = w.cm.mouse
  PROVE  LET r == Puts(w, after)
         IN  Lets(r, w) /\ (MouseOn(r) => w.cm.mouse)
<1> DEFINE d == Clamped(after.cm, w.scr)
           r == Puts(w, after)
<1>1. DOMAIN w = StateFields
  BY DEF Good
<1>2. d.mouse = w.cm.mouse
  BY HeadAtMouse
<1> HIDE DEF d
<1>3. r.cm = d /\ r.step = w.step
  BY <1>1 DEF Puts, StateFields, d
<1> HIDE DEF r
<1>4. Lets(r, w) /\ (MouseOn(r) => w.cm.mouse)
  BY <1>2, <1>3 DEF Lets, MouseOn
<1> QED
  BY <1>4 DEF r

\* Copy mode ends.
LEMMA EndsLets ==
  ASSUME NEW w, Good(w), w.cm # None
  PROVE  /\ Lets(Exits(w), w) /\ ~MouseOn(Exits(w))
         /\ Lets(Yanks(w), w) /\ ~MouseOn(Yanks(w))
<1>1. DOMAIN w = StateFields
  BY DEF Good
<1>2. Exits(w).cm = None /\ Exits(w).step = w.step
  BY <1>1 DEF Exits, StateFields
<1>3. Yanks(w).cm = None
  BY <1>1 DEF Yanks, StateFields
<1>4. Yanks(w).step.typed = w.step.typed
  <2> DEFINE clip  == Yanked(w.scr, w.cm.offset, w.cm.sel)
             shown == Highlighted(w.scr, w.cm.offset, w.cm.sel)
             SB == Seq(Byte)
  <2>1. w.step \in [typed : SB, forwarded : Nat, clip : Cells, shown : Cells, slid : BOOLEAN]
    BY DEF Good, StepRecord
  <2>2. Yanks(w).step \in {w.step, [w.step EXCEPT !.clip = clip, !.shown = shown, !.slid = w.moved]}
    BY <1>1 DEF Yanks, StateFields
  <2> HIDE DEF SB, clip, shown
  <2>3. [w.step EXCEPT !.clip = clip, !.shown = shown, !.slid = w.moved].typed = w.step.typed
    BY <2>1
  <2> QED
    BY <2>2, <2>3
<1> QED
  BY <1>2, <1>3, <1>4 DEF Lets, MouseOn

LEMMA CopyModeKeyLets ==
  ASSUME NEW w, Good(w), NEW k
  PROVE  Lets(CopyModeKey(w, k), w)
<1>1. CASE w.cm = None
  BY <1>1 DEF CopyModeKey, Lets
<1>2. CASE w.cm # None
  <2> DEFINE d == [w.cm EXCEPT !.sel = IF @ # None THEN None
                     ELSE [anchor |-> Here(w.cm, w.scr), head |-> Here(w.cm, w.scr)]]
             sel == IF w.cm.sel # None THEN None
                    ELSE [anchor |-> Here(w.cm, w.scr), head |-> Here(w.cm, w.scr)]
             m == Moved(Motion[k], w.cm, w.scr)
  <2>1. w.cm \in Copies /\ ScreenOk(w.scr)
    BY <1>2, GoodCopy
  <2>2. Lets(Exits(w), w) /\ Lets(Yanks(w), w)
    BY <1>2, EndsLets
  <2>9. \A c, t : Stay(c, t).cm = c
    BY DEF Stay
  <2>3. Lets(Puts(w, Stay(w.cm, w.scr)), w)
    BY <1>2, <2>1, <2>9, PutsLets
  <2>4. Lets(Puts(w, Stay(d, w.scr)), w)
    <3>1. sel \in Selection \cup {None}
      <4>1. Here(w.cm, w.scr) \in Point
        BY <2>1, HereTyped
      <4> QED
        BY <4>1 DEF Selection
    <3>2. d = [w.cm EXCEPT !.sel = sel]
      BY <2>1 DEF Copies
    <3> HIDE DEF sel, d
    <3>3. d \in Copies /\ d.mouse = w.cm.mouse
      BY <2>1, <3>1, <3>2, WithSelection, SameMouse
    <3> QED
      BY <1>2, <2>9, <3>3, PutsLets
  <2>5. Lets(Puts(w, Stay(HeadAt(m.cm, m.scr), m.scr)), w)
    <3>1. Keeps(m, w.cm, w.scr) /\ m.cm.mouse = w.cm.mouse
      BY <2>1, MovedKeeps, MovedMouse
    <3> HIDE DEF m
    <3>2. m.cm \in Copies /\ ScreenOk(m.scr)
      BY <3>1 DEF Keeps
    <3>3. HeadAt(m.cm, m.scr) \in Copies /\ HeadAt(m.cm, m.scr).mouse = w.cm.mouse
      BY <3>1, <3>2, HeadAtFacts, HeadAtMouse
    <3> QED
      BY <1>2, <2>9, <3>3, PutsLets
  <2>6. CASE k \in {"q", "esc", "y", "cr"}
    <3> HIDE DEF d, m
    <3>1. CASE k \in {"q", "esc"}
      <4>1. k \notin {"y", "cr"} /\ k # "v" /\ k \notin DOMAIN Motion
        BY <3>1 DEF Motion
      <4>2. CopyModeKey(w, k) = Exits(w)
        BY <1>2, <3>1, <4>1, Zenon DEF CopyModeKey
      <4> QED
        BY <2>2, <4>2
    <3>2. CASE k \in {"y", "cr"}
      <4>1. k \notin {"q", "esc"} /\ k # "v" /\ k \notin DOMAIN Motion
        BY <3>2 DEF Motion
      <4>2. CopyModeKey(w, k) = Yanks(w)
        BY <1>2, <3>2, <4>1, Zenon DEF CopyModeKey
      <4> QED
        BY <2>2, <4>2
    <3> QED
      BY <2>6, <3>1, <3>2
  <2>7. CASE k = "v"
    <3>1. k \notin {"q", "esc"} /\ k \notin {"y", "cr"} /\ k \notin DOMAIN Motion
      BY <2>7 DEF Motion
    <3>2. CopyModeKey(w, k) = Puts(w, Stay(d, w.scr))
      BY <1>2, <2>7, <3>1, Zenon DEF CopyModeKey, d
    <3> HIDE DEF d
    <3> QED
      BY <2>4, <3>2
  <2>8. CASE k \notin {"q", "esc", "y", "cr", "v"}
    <3> HIDE DEF d
    <3>1. CASE k \in DOMAIN Motion
      <4>1. CopyModeKey(w, k) = Puts(w, Stay(HeadAt(m.cm, m.scr), m.scr))
        BY <1>2, <2>8, <3>1 DEF CopyModeKey
      <4> HIDE DEF m
      <4> QED
        BY <2>5, <4>1
    <3>2. CASE k \notin DOMAIN Motion
      <4>1. CopyModeKey(w, k) = Puts(w, Stay(w.cm, w.scr))
        BY <1>2, <2>8, <3>2 DEF CopyModeKey
      <4> QED
        BY <2>3, <4>1
    <3> QED
      BY <3>1, <3>2
  <2> QED
    BY <2>6, <2>7, <2>8
<1> QED
  BY <1>1, <1>2

LEMMA EnterCopyModeLets ==
  ASSUME NEW w, Good(w), NEW caret \in Carets
  PROVE  Lets(EnterCopyMode(w, caret), w)
<1> DEFINE r == EnterCopyMode(w, caret)
<1>1. CASE Scrollback = 0 \/ w.cm # None
  BY <1>1 DEF EnterCopyMode, Lets
<1>2. CASE ~(Scrollback = 0 \/ w.cm # None)
  <2>1. DOMAIN w = StateFields
    BY DEF Good
  <2>2. r.cm = Entered(w.scr, caret) /\ r.step = w.step
    BY <1>2, <2>1 DEF EnterCopyMode, StateFields
  <2>3. Entered(w.scr, caret).mouse = FALSE
    BY DEF Entered
  <2> HIDE DEF r
  <2>4. Lets(r, w)
    BY <2>2, <2>3 DEF Lets, MouseOn
  <2> QED
    BY <2>4 DEF r
<1> QED
  BY <1>1, <1>2

LEMMA CopyModeMouseLets ==
  ASSUME NEW w, Good(w), NEW e \in MouseReport, height \in Nat
  PROVE  LET r == CopyModeMouse(w, e)
         IN  Lets(r, w) /\ (MouseOn(r) => e.kind # "release")
<1> DEFINE r == CopyModeMouse(w, e)
<1>1. CASE w.cm = None
  <2>1. r = w
    BY <1>1 DEF CopyModeMouse
  <2> HIDE DEF r
  <2>2. Lets(r, w) /\ ~MouseOn(r)
    BY <1>1, <2>1 DEF Lets, MouseOn
  <2> QED
    BY <2>2 DEF r
<1>2. CASE w.cm # None
  <2>1. w.cm \in Copies /\ ScreenOk(w.scr) /\ e.col \in Nat /\ e.row \in Nat
    BY <1>2, GoodCopy DEF MouseReport
  <2>2. \A c, t : Stay(c, t).cm = c
    BY DEF Stay
  <2>3. At(w, e.col, e.row) \in Point
    BY <2>1, PointedFacts
  <2>4. Lets(Pressed(w, e), w)
    <3> DEFINE q   == At(w, e.col, e.row)
               c   == [w.cm EXCEPT !.cursor = q]
               sel == [anchor |-> Here(c, w.scr), head |-> Here(c, w.scr)]
               d   == [c EXCEPT !.sel = sel]
               f   == [d EXCEPT !.dragging = TRUE]
    <3>1. Pressed(w, e) = Puts(w, Stay(f, w.scr))
      BY DEF Pressed
    <3> HIDE DEF q
    <3>2. c \in Copies /\ c.mouse = w.cm.mouse
      BY <2>1, <2>3, AtCursor, SameMouse DEF q
    <3> HIDE DEF c
    <3>3. sel \in Selection \cup {None}
      <4>1. Here(c, w.scr) \in Point
        BY <2>1, <3>2, HereTyped
      <4> QED
        BY <4>1 DEF Selection
    <3> HIDE DEF sel
    <3>4. d \in Copies /\ d.mouse = c.mouse
      BY <3>2, <3>3, WithSelection, SameMouse
    <3> HIDE DEF d
    <3>5. f \in Copies /\ f.mouse = d.mouse
      BY <3>4, WithDragging, SameMouse
    <3> HIDE DEF f
    <3> QED
      BY <1>2, <2>2, <3>1, <3>2, <3>4, <3>5, PutsLets
  <2>5. Lets(Dragged(w, e), w)
    <3> DEFINE t == Tile(height)
               a == CASE e.row - 1 <= t.y -> Up(w.cm, w.scr, 1)
                      [] e.row - 1 > t.y /\ e.row - 1 >= t.y + t.h - 1 -> Down(w.cm, w.scr, 1)
                      [] OTHER -> Stay(w.cm, w.scr)
               q == At(w, e.col, e.row)
               d == [a.cm EXCEPT !.cursor = q]
    <3>1. Dragged(w, e) = Puts(w, Stay(HeadAt(d, a.scr), a.scr))
      BY DEF Dragged
    <3>2. a \in {Up(w.cm, w.scr, 1), Down(w.cm, w.scr, 1), Stay(w.cm, w.scr)}
      <4> HIDE DEF t
      <4> QED
        OBVIOUS
    <3> HIDE DEF a, q
    <3>3. /\ Keeps(Up(w.cm, w.scr, 1), w.cm, w.scr)
          /\ Keeps(Down(w.cm, w.scr, 1), w.cm, w.scr)
          /\ Keeps(Stay(w.cm, w.scr), w.cm, w.scr)
      BY <2>1, UpKeeps, DownKeeps, StayKeeps
    <3>4. Keeps(a, w.cm, w.scr) /\ a.cm.mouse = w.cm.mouse
      BY <2>1, <3>2, <3>3, ScrollsMouse
    <3>5. a.cm \in Copies /\ ScreenOk(a.scr)
      BY <3>4 DEF Keeps
    <3>6. d \in Copies /\ d.mouse = a.cm.mouse
      BY <2>3, <3>5, AtCursor, SameMouse DEF q
    <3> HIDE DEF d
    <3>7. HeadAt(d, a.scr) \in Copies /\ HeadAt(d, a.scr).mouse = d.mouse
      BY <3>5, <3>6, HeadAtFacts, HeadAtMouse
    <3> QED
      BY <1>2, <2>2, <3>1, <3>4, <3>6, <3>7, PutsLets
  <2>6. Lets(Released(w), w) /\ ~MouseOn(Released(w))
    <3> DEFINE f == [w.cm EXCEPT !.dragging = FALSE]
    <3>1. f \in Copies /\ f.mouse = w.cm.mouse
      BY <2>1, WithDragging, SameMouse
    <3>2. \/ Released(w) \in {Yanks(w), Exits(w)}
          \/ ~w.cm.mouse /\ Released(w) = Puts(w, Stay(f, w.scr))
      <4>1. CASE w.cm.sel # None /\ w.cm.sel.anchor # w.cm.sel.head
        BY <4>1 DEF Released
      <4>2. CASE ~(w.cm.sel # None /\ w.cm.sel.anchor # w.cm.sel.head) /\ w.cm.mouse
        BY <4>2 DEF Released
      <4>3. CASE ~(w.cm.sel # None /\ w.cm.sel.anchor # w.cm.sel.head) /\ ~w.cm.mouse
        <5>1. Released(w) = Puts(w, Stay(f, w.scr))
          BY <4>3, Zenon DEF Released
        <5> HIDE DEF f
        <5> QED
          BY <4>3, <5>1
      <4> QED
        BY <4>1, <4>2, <4>3
    <3> HIDE DEF f
    <3>3. LET g == Puts(w, Stay(f, w.scr)) IN Lets(g, w) /\ (MouseOn(g) => w.cm.mouse)
      BY <1>2, <2>2, <3>1, PutsLets
    <3> QED
      BY <1>2, <3>2, <3>3, EndsLets
  <2>7. /\ Lets(Puts(w, Up(w.cm, w.scr, WheelStep)), w)
        /\ Lets(Puts(w, Down(w.cm, w.scr, WheelStep)), w)
    <3>1. /\ Keeps(Up(w.cm, w.scr, WheelStep), w.cm, w.scr)
          /\ Keeps(Down(w.cm, w.scr, WheelStep), w.cm, w.scr)
      BY <2>1, UpKeeps, DownKeeps DEF WheelStep
    <3>2. /\ Up(w.cm, w.scr, WheelStep).cm \in Copies
          /\ Down(w.cm, w.scr, WheelStep).cm \in Copies
      BY <3>1 DEF Keeps
    <3> QED
      BY <1>2, <2>1, <3>2, ScrollsMouse, PutsLets
  <2>8. CASE e.kind = "release"
    <3>1. r = Released(w)
      BY <1>2, <2>8 DEF CopyModeMouse
    <3> QED
      BY <2>6, <3>1
  <2>9. CASE e.kind # "release"
    <3>1. r \in {w, Pressed(w, e), Dragged(w, e), Puts(w, Up(w.cm, w.scr, WheelStep)),
                 Puts(w, Down(w.cm, w.scr, WheelStep))}
      BY <1>2, <2>9 DEF CopyModeMouse
    <3>2. Lets(w, w)
      BY DEF Lets
    <3> HIDE DEF r
    <3>3. Lets(r, w)
      BY <2>4, <2>5, <2>7, <3>1, <3>2
    <3> QED
      BY <2>9, <3>3 DEF r
  <2> QED
    BY <2>8, <2>9
<1> QED
  BY <1>1, <1>2

\* A drag begins copy mode by the mouse, and types nothing.
LEMMA BeginDragSelectTyped ==
  ASSUME NEW w, Good(w), NEW caret \in Carets, w.press # None, NEW e \in MouseReport, height \in Nat
  PROVE  BeginDragSelect(w, e, caret).step.typed = w.step.typed
<1> DEFINE entered == EnterCopyMode(w, caret)
           c       == [entered.cm EXCEPT !.mouse = TRUE]
           begun   == [entered EXCEPT !.cm.mouse = TRUE, !.press = None]
           down    == [w.press EXCEPT !.kind = "press"]
           pressed == CopyModeMouse(begun, down)
<1>1. Good(entered) /\ entered.step.typed = w.step.typed
  BY EnterCopyModeGood, EnterCopyModeLets DEF Lets
<1>3. down \in MouseReport
  BY DEF Good, MouseReport, MouseKind
<1>4. CASE entered.cm = None
  <2>1. DOMAIN w = StateFields
    BY DEF Good
  <2>2. BeginDragSelect(w, e, caret) = [w EXCEPT !.press = None]
    BY <1>4 DEF BeginDragSelect
  <2> HIDE DEF entered
  <2>3. [w EXCEPT !.press = None].step = w.step
    BY <2>1 DEF StateFields
  <2> QED
    BY <2>2, <2>3
<1>5. CASE entered.cm # None
  <2>1. BeginDragSelect(w, e, caret) = CopyModeMouse(pressed, e)
    BY <1>5 DEF BeginDragSelect
  <2> HIDE DEF entered
  <2>2. /\ DOMAIN entered = StateFields
        /\ entered.cm \in Copies /\ ScreenOk(entered.scr)
        /\ entered.zoomed \in BOOLEAN /\ entered.moved \in BOOLEAN /\ entered.step \in StepRecord
        /\ entered.step.slid \/ entered.step.clip = entered.step.shown
        /\ ~entered.moved => Fits(entered.cm, entered.scr)
    BY <1>1, <1>5 DEF Good
  <2>3. /\ DOMAIN begun = StateFields /\ begun.scr = entered.scr /\ begun.cm = c /\ begun.press = None
        /\ begun.zoomed = entered.zoomed /\ begun.step = entered.step /\ begun.moved = entered.moved
    BY <2>2 DEF StateFields
  <2>4. c \in Copies /\ c.offset = entered.cm.offset /\ c.cursor = entered.cm.cursor
    BY <2>2, WithMouse
  <2>5. c.sel = entered.cm.sel
    BY <2>2 DEF Copies
  <2>6. Fits(entered.cm, entered.scr) => Fits(c, entered.scr)
    <3> HIDE DEF c
    <3> QED
      BY <2>4, <2>5 DEF Fits, Placed
  <2> HIDE DEF begun, c
  <2>7. Good(begun)
    BY <2>2, <2>3, <2>4, <2>6 DEF Good
  <2> HIDE DEF down
  <2>8. Good(pressed) /\ pressed.step.typed = begun.step.typed
    BY <1>3, <2>7, CopyModeMouseGood, CopyModeMouseLets DEF Lets
  <2> HIDE DEF pressed
  <2>9. CopyModeMouse(pressed, e).step.typed = pressed.step.typed
    BY <2>8, CopyModeMouseLets DEF Lets
  <2> QED
    BY <1>1, <2>1, <2>3, <2>8, <2>9
<1> QED
  BY <1>4, <1>5

\* What an event does to what is typed, and to copy mode by the mouse.
Does(r, w, e) ==
  /\ r.step.typed = IF e.ev = "pane" THEN w.step.typed \o e.bytes ELSE w.step.typed
  /\ MouseOn(r) => IsDrag(e) \/ (MouseOn(w) /\ ~IsRelease(e))

LEMMA MouseEventDoes ==
  ASSUME NEW w, Good(w), NEW caret \in Carets, NEW e \in MouseReport, height \in Nat
  PROVE  Does(MouseEvent(w, e, caret), w, e)
<1> DEFINE r == MouseEvent(w, e, caret)
<1>0. e.ev = "mouse"
  BY DEF MouseReport
<1>1. CASE w.cm # None
  <2>1. r = CopyModeMouse(w, e)
    BY <1>1 DEF MouseEvent
  <2> QED
    BY <1>0, <2>1, CopyModeMouseLets DEF Does, Lets, IsDrag, IsRelease
<1>2. CASE w.cm = None /\ e.kind = "drag" /\ w.press # None /\ ~tracking
  <2>1. r = BeginDragSelect(w, e, caret)
    BY <1>2 DEF MouseEvent
  <2>2. r.step.typed = w.step.typed
    BY <1>2, <2>1, BeginDragSelectTyped
  <2> HIDE DEF r
  <2>3. Does(r, w, e)
    BY <1>0, <1>2, <2>2 DEF Does, IsDrag
  <2> QED
    BY <2>3 DEF r
<1>3. CASE w.cm = None /\ ~(e.kind = "drag" /\ w.press # None /\ ~tracking)
  <2> DEFINE d == IF e.kind = "scrollup" THEN -WheelStep ELSE WheelStep
             f == [w EXCEPT !.step.forwarded = @ + 1]
             g == [w EXCEPT !.scr = ScrollDelta(@, d)]
             h == [w EXCEPT !.press = None]
             k == [w EXCEPT !.press = e]
  <2>1. r \in {w, Wheel(w, e), h, k}
    <3>1. CASE e.kind \in {"scrollup", "scrolldown"}
      BY <1>3, <3>1 DEF MouseEvent
    <3>2. CASE e.kind = "press"
      BY <1>3, <3>2 DEF MouseEvent
    <3>3. CASE e.kind = "drag" /\ w.press # None
      BY <1>3, <3>3 DEF MouseEvent
    <3>4. CASE e.kind = "release"
      BY <1>3, <3>4 DEF MouseEvent
    <3>5. CASE e.kind \notin {"scrollup", "scrolldown", "press", "release"}
               /\ ~(e.kind = "drag" /\ w.press # None)
      BY <1>3, <3>5 DEF MouseEvent
    <3> QED
      BY <3>1, <3>2, <3>3, <3>4, <3>5
  <2>2. Wheel(w, e) \in {w, f, g}
    BY DEF Wheel
  <2>3. DOMAIN w = StateFields /\ w.step \in StepRecord
    BY DEF Good
  <2>4. \A x \in {w, f, g, h, k} : x.cm = w.cm /\ x.step.typed = w.step.typed
    <3>1. f.cm = w.cm /\ f.step = [w.step EXCEPT !.forwarded = @ + 1]
      BY <2>3 DEF StateFields
    <3>2. [w.step EXCEPT !.forwarded = @ + 1].typed = w.step.typed
      <4> DEFINE SB == Seq(Byte)
      <4>1. w.step \in [typed : SB, forwarded : Nat, clip : Cells, shown : Cells, slid : BOOLEAN]
        BY <2>3 DEF StepRecord
      <4> HIDE DEF SB
      <4> QED
        BY <4>1
    <3>3. g.cm = w.cm /\ g.step = w.step /\ h.cm = w.cm /\ h.step = w.step
          /\ k.cm = w.cm /\ k.step = w.step
      BY <2>3 DEF StateFields
    <3> HIDE DEF f, g, h, k
    <3> QED
      BY <3>1, <3>2, <3>3
  <2> HIDE DEF f, g, h, k, r
  <2>5. r.cm = None /\ r.step.typed = w.step.typed
    BY <1>3, <2>1, <2>2, <2>4
  <2>6. Does(r, w, e)
    BY <1>0, <2>5 DEF Does, MouseOn
  <2> QED
    BY <2>6 DEF r
<1> QED
  BY <1>1, <1>2, <1>3

LEMMA ApplyEventDoes ==
  ASSUME NEW w, Good(w), NEW caret \in Carets, NEW e \in Event, height \in Heights
  PROVE  Does(ApplyEvent(w, e, caret), w, e)
<1> DEFINE r == ApplyEvent(w, e, caret)
<1>1. height \in Nat /\ DOMAIN w = StateFields /\ w.step \in StepRecord
  BY CopyModeAssumption DEF Good
<1>2. CASE e.ev = "pane"
  <2> DEFINE sent == [w.step EXCEPT !.typed = @ \o e.bytes]
  <2>1. r.cm = w.cm /\ r.step = sent
    BY <1>1, <1>2 DEF ApplyEvent, StateFields
  <2>2. sent.typed = w.step.typed \o e.bytes
    <3> DEFINE SB == Seq(Byte)
               b  == w.step.typed \o e.bytes
    <3>1. w.step \in [typed : SB, forwarded : Nat, clip : Cells, shown : Cells, slid : BOOLEAN]
      BY <1>1 DEF StepRecord
    <3>2. sent = [w.step EXCEPT !.typed = b]
      OBVIOUS
    <3> HIDE DEF SB, b, sent
    <3>3. sent.typed = b
      BY <3>1, <3>2
    <3> QED
      BY <3>3 DEF b
  <2> HIDE DEF r, sent
  <2>3. Does(r, w, e)
    BY <1>2, <2>1, <2>2 DEF Does, MouseOn, IsRelease
  <2> QED
    BY <2>3 DEF r
<1>3. ASSUME e.ev \notin {"pane", "mouse"}, Lets(r, w) PROVE Does(r, w, e)
  BY <1>3 DEF Does, Lets, IsRelease
<1>4. CASE e.ev = "command"
  <2>1. r = Commanded(w, e.name, caret)
    BY <1>4 DEF ApplyEvent
  <2>2. CASE e.name = "EnterCopyMode"
    <3>1. Lets(r, w)
      BY <2>1, <2>2, EnterCopyModeLets DEF Commanded
    <3> QED
      BY <1>3, <1>4, <3>1
  <2>3. CASE e.name # "EnterCopyMode"
    <3>1. r.cm = w.cm /\ r.step = w.step
      BY <1>1, <2>1, <2>3 DEF Commanded, StateFields
    <3>2. Lets(r, w)
      BY <3>1 DEF Lets, MouseOn
    <3> QED
      BY <1>3, <1>4, <3>2
  <2> QED
    BY <2>2, <2>3
<1>5. CASE e.ev = "mouse"
  <2>1. e \in MouseReport
    BY <1>5 DEF Event, MouseReport
  <2>2. r = MouseEvent(w, e, caret)
    BY <1>5 DEF ApplyEvent
  <2> QED
    BY <1>1, <2>1, <2>2, MouseEventDoes
<1>6. CASE e.ev = "copykey"
  <2>1. r = CopyModeKey(w, e.key)
    BY <1>6 DEF ApplyEvent
  <2>2. Lets(r, w)
    BY <2>1, CopyModeKeyLets
  <2> QED
    BY <1>3, <1>6, <2>2
<1>7. CASE e.ev \notin {"pane", "command", "mouse", "copykey"}
  <2>1. r = w
    BY <1>7 DEF ApplyEvent
  <2>2. Lets(r, w)
    BY <2>1 DEF Lets
  <2> QED
    BY <1>3, <1>7, <2>2
<1> QED
  BY <1>2, <1>4, <1>5, <1>6, <1>7

\* The events of a read, one after the other: what they type is of C, and copy mode by
\* the mouse is as they leave it.
LEMMA AppliedDoes ==
  ASSUME NEW w, Good(w), NEW caret \in Carets, NEW events \in Seq(Event), height \in Heights
  PROVE  /\ \A C : PanesIn(events, C) /\ w.step.typed \in Seq(C)
                  => Applied(w, events, caret).step.typed \in Seq(C)
         /\ MouseOn(Applied(w, events, caret)) => Unended(MouseOn(w), events)
<1> DEFINE n == Len(events)
           Eq(f) == f = [i \in 0..n |-> IF i = 0 THEN w ELSE ApplyEvent(f[i - 1], events[i], caret)]
           after == CHOOSE f : Eq(f)
           Upto(i) == \/ MouseOn(w) /\ \A j \in 1..i : ~IsRelease(events[j])
                      \/ \E k \in 1..i : IsDrag(events[k]) /\ \A j \in k + 1..i : ~IsRelease(events[j])
           Fine(i) == /\ Good(after[i])
                      /\ \A C : PanesIn(events, C) /\ w.step.typed \in Seq(C)
                                => after[i].step.typed \in Seq(C)
                      /\ MouseOn(after[i]) => Upto(i)
<1> HIDE DEF Event
<1>1. n \in Nat /\ \A i \in 1..n : events[i] \in Event
  OBVIOUS
<1>2. Eq(after)
  <2>1. PICK f : IsApplied(f, w, events, caret, n)
    BY <1>1, AppliedExists
  <2>2. Eq(f)
    BY <2>1 DEF IsApplied
  <2> QED
    BY <2>2
<1>3. Applied(w, events, caret) = after[n]
  BY DEF Applied
<1>4. MouseOn(w) \in BOOLEAN
  BY DEF MouseOn, Good, Copies
<1> HIDE DEF after, n
<1> DEFINE T == {i \in 0..n : Fine(i)}
<1>5. 0 \in T
  <2>1. after[0] = w /\ 0 \in 0..n
    BY <1>1, <1>2
  <2> QED
    BY <2>1
<1>6. ASSUME NEW i \in 1..n, i - 1 \in T PROVE i \in T
  <2> DEFINE v == after[i - 1]
             r == after[i]
             e == events[i]
  <2>1. i \in 0..n /\ i # 0
    BY <1>1
  <2>2. r = ApplyEvent(v, e, caret)
    BY <1>2, <2>1
  <2>3. Fine(i - 1)
    BY <1>6
  <2>4. Good(r) /\ Does(r, v, e)
    BY <1>1, <2>2, <2>3, ApplyEventGood, ApplyEventDoes
  <2>5. ASSUME NEW C, PanesIn(events, C), w.step.typed \in Seq(C) PROVE r.step.typed \in Seq(C)
    <3>1. v.step.typed \in Seq(C)
      BY <2>3, <2>5
    <3>2. e.ev = "pane" => e.bytes \in Seq(C)
      BY <2>5 DEF PanesIn, n
    <3> DEFINE old == v.step.typed
    <3>3. r.step.typed = old \/ (e.ev = "pane" /\ r.step.typed = old \o e.bytes)
      BY <2>4 DEF Does
    <3> HIDE DEF old, r, e
    <3>4. old \in Seq(C)
      BY <3>1 DEF old
    <3>5. \A x, y \in Seq(C) : x \o y \in Seq(C)
      OBVIOUS
    <3> QED
      BY <3>2, <3>3, <3>4, <3>5
  <2>6. ASSUME MouseOn(r) PROVE Upto(i)
    <3>1. IsDrag(e) \/ (MouseOn(v) /\ ~IsRelease(e))
      BY <2>4, <2>6 DEF Does
    <3>2. CASE IsDrag(e)
      <4>1. i \in 1..i /\ \A j \in i + 1..i : FALSE
        BY <1>1
      <4> QED
        BY <3>2, <4>1
    <3>3. CASE MouseOn(v) /\ ~IsRelease(e)
      <4>1. Upto(i - 1)
        BY <2>3, <3>3
      <4>2. \A j \in Int : j <= i => j = i \/ j <= i - 1
        OBVIOUS
      <4>3. CASE MouseOn(w) /\ \A j \in 1..i - 1 : ~IsRelease(events[j])
        <5>1. \A j \in 1..i : j = i \/ j \in 1..i - 1
          OBVIOUS
        <5> QED
          BY <3>3, <4>3, <5>1
      <4>4. ASSUME NEW k \in 1..i - 1, IsDrag(events[k]), \A j \in k + 1..i - 1 : ~IsRelease(events[j])
            PROVE  Upto(i)
        <5>1. k \in 1..i /\ \A j \in k + 1..i : j = i \/ j \in k + 1..i - 1
          BY <1>1
        <5>2. \A j \in k + 1..i : ~IsRelease(events[j])
          BY <3>3, <4>4, <5>1
        <5> QED
          BY <4>4, <5>1, <5>2
      <4> QED
        BY <4>1, <4>3, <4>4
    <3> QED
      BY <3>1, <3>2, <3>3
  <2>7. Fine(i)
    BY <2>4, <2>5, <2>6
  <2> QED
    BY <2>1, <2>7
<1> HIDE DEF T
<1>7. \A i \in 1..n : i - 1 \in T => i \in T
  BY <1>6
<1>8. 0..n \subseteq T
  BY <1>1, <1>5, <1>7, Climbs, Zenon
<1>9. n \in 0..n
  BY <1>1
<1>10. Fine(n)
  BY <1>8, <1>9 DEF T
<1>11. Upto(n) => Unended(MouseOn(w), events)
  BY DEF Unended, n
<1> HIDE DEF Upto
<1> QED
  BY <1>3, <1>10, <1>11

-----------------------------------------------------------------------------
(* The reports                                                             *)

\* The parser and what is under way are between reports or in the middle of one, and
\* when the button is up a release is on its way behind copy mode that the mouse began
\* and behind every drag.
Reports ==
  /\ torn \in BOOLEAN /\ held \in BOOLEAN
  /\ par.out = <<>> /\ par.ground = <<>>
  /\ torn \/ (Chained(wire) /\ Aligned(par, wire, 0))
  /\ torn \/ held \/ (Ending(wire) /\ Due(MouseOn(Present), par, wire, 0))

LEMMA PresentMouse == MouseOn(Present) <=> cm # None /\ cm.mouse
BY PresentFields DEF MouseOn

LEMMA PresentMouseNext == MouseOn(Present)' <=> cm' # None /\ cm'.mouse
BY DEF MouseOn, Present

LEMMA MouseOnIs == Kept => MouseOn(Present) \in BOOLEAN
BY DEF Kept, Good, MouseOn, Copies

LEMMA EmptyTypes ==
  ASSUME NEW p, p.out = <<>>, p.ground = <<>>, NEW C
  PROVE  Types(p, C)
<1>1. Len(<<>>) = 0 /\ <<>> \in Seq(C)
  OBVIOUS
<1> QED
  BY <1>1 DEF Types, PanesIn

\* Between reads what is due is due by the state.
LEMMA EmptyDue ==
  ASSUME NEW p, p.out = <<>>, NEW on \in BOOLEAN, NEW w, NEW k
  PROVE  Due(on, p, w, k) <=> (on \/ Dragging(p) => Releases(w, k))
<1>1. Len(<<>>) = 0
  OBVIOUS
<1> QED
  BY <1>1 DEF Due, Unended

LEMMA InitReports == Init => Reports
<1> SUFFICES ASSUME Init PROVE Reports
  OBVIOUS
<1> USE DEF Init
<1>1. par.out = <<>> /\ par.ground = <<>> /\ par.pending = <<>>
  BY DEF Quiet
<1>2. Len(wire) = 0 /\ Len(<<>>) = 0
  OBVIOUS
<1>3. Chained(wire) /\ Clear(par, wire, 0) /\ Ending(wire)
  BY <1>1, <1>2 DEF Chained, Clear, Ending
<1>4. ~MouseOn(Present)
  BY PresentMouse
<1>5. ~Dragging(par)
  BY <1>1, <1>2 DEF Dragging
<1>6. ~Unended(MouseOn(Present), par.out)
  BY <1>1, <1>2, <1>4 DEF Unended
<1> QED
  BY <1>1, <1>3, <1>5, <1>6 DEF Reports, Aligned, Due

\* A read that is applied, of the first n bytes: q is the parser after it.
LEMMA AppliedReports ==
  ASSUME Kept, Reports, NEW q \in Parser, q.ground = <<>>, NEW n \in 0..Len(wire),
         ApplyEvents(q.out), par' = [q EXCEPT !.out = <<>>],
         wire' = SubSeq(wire, n + 1, Len(wire)), held' = held,
         torn' \in BOOLEAN, torn => torn',
         ~torn' => /\ Aligned(q, wire, n) /\ Types(q, Meant)
                   /\ \A on \in BOOLEAN : Ending(wire) /\ Due(on, par, wire, 0) => Due(on, q, wire, n)
  PROVE  Reports' /\ (torn' \/ step'.typed \in Seq(Meant))
<1>0. PICK caret \in Carets :
        LET v == Applied([scr |-> scr, cm |-> cm, press |-> press, zoomed |-> zoomed,
                          step |-> NoStep, moved |-> moved], q.out, caret)
        IN  /\ scr' = v.scr /\ cm' = v.cm /\ press' = v.press /\ zoomed' = v.zoomed
            /\ step' = v.step /\ moved' = v.moved
  BY DEF ApplyEvents
<1> DEFINE w0 == [scr |-> scr, cm |-> cm, press |-> press, zoomed |-> zoomed,
                  step |-> NoStep, moved |-> moved]
           w  == Applied(w0, q.out, caret)
<1>1. /\ DOMAIN w0 = StateFields
      /\ w0.scr = scr /\ w0.cm = cm /\ w0.press = press /\ w0.zoomed = zoomed
      /\ w0.step = NoStep /\ w0.moved = moved
  BY DEF StateFields
<1>2. cm' = w.cm /\ step' = w.step
  BY <1>0
<1>3. height \in Heights /\ wire \in Seq(Byte)
  BY DEF Kept
<1> HIDE DEF w0
<1>4. Good(w0)
  BY <1>1, KeptParts, NoStepTyped DEF Good
<1>5. q.out \in Seq(Event)
  BY DEF Parser
<1>6. /\ \A C : PanesIn(q.out, C) /\ w0.step.typed \in Seq(C) => w.step.typed \in Seq(C)
      /\ MouseOn(w) => Unended(MouseOn(w0), q.out)
  BY <1>3, <1>4, <1>5, AppliedDoes
<1> HIDE DEF w
<1>7. MouseOn(w0) <=> MouseOn(Present)
  BY <1>1, PresentMouse DEF MouseOn
<1>8. (MouseOn(Present))' <=> MouseOn(w)
  BY <1>2, PresentMouseNext DEF MouseOn
<1>9. torn \in BOOLEAN /\ held \in BOOLEAN /\ torn' \in BOOLEAN /\ held' \in BOOLEAN
  BY DEF Reports
<1>10. par'.out = <<>> /\ par'.ground = <<>> /\ par'.pending = q.pending
  BY DEF Parser
<1>11. CASE torn'
  BY <1>9, <1>10, <1>11 DEF Reports
<1>12. CASE ~torn'
  <2>1. ~torn /\ Chained(wire)
    BY <1>9, <1>12 DEF Reports
  <2>2. /\ Aligned(q, wire, n) /\ Types(q, Meant)
        /\ \A on \in BOOLEAN : Ending(wire) /\ Due(on, par, wire, 0) => Due(on, q, wire, n)
    BY <1>12
  <2>3. /\ Chained(wire') /\ Aligned(par', wire', 0)
        /\ Releases(wire, n) => Releases(wire', 0)
        /\ Ending(wire) => Ending(wire')
    BY <1>3, <2>1, <2>2, DropAligned
  <2>4. step'.typed \in Seq(Meant)
    <3>1. w0.step.typed \in Seq(Meant)
      BY <1>1 DEF NoStep
    <3> QED
      BY <1>2, <1>6, <2>2, <3>1 DEF Types
  <2>5. ASSUME ~held PROVE Ending(wire') /\ Due((MouseOn(Present))', par', wire', 0)
    <3>1. Ending(wire) /\ Due(MouseOn(Present), par, wire, 0)
      BY <2>1, <2>5 DEF Reports
    <3>2. MouseOn(Present) \in BOOLEAN /\ (MouseOn(Present))' \in BOOLEAN
      <4>1. (MouseOn(Present))' \in BOOLEAN
        BY <1>3, <1>4, <1>5, <1>8, AppliedGood DEF Good, MouseOn, Copies, w
      <4> QED
        BY <4>1, MouseOnIs
    <3>3. Due(MouseOn(Present), q, wire, n)
      BY <2>2, <3>1, <3>2
    <3>4. (MouseOn(Present))' => Releases(wire, n)
      <4>1. MouseOn(w0) = MouseOn(Present)
        BY <1>1, PresentFields DEF MouseOn
      <4> QED
        BY <1>6, <1>8, <3>3, <4>1 DEF Due
    <3>5. Dragging(par') => Releases(wire, n)
      BY <1>10, <3>3 DEF Due, Dragging
    <3>6. Due((MouseOn(Present))', par', wire', 0)
      <4> DEFINE on == (MouseOn(Present))'
      <4> HIDE DEF on
      <4>1. on \in BOOLEAN /\ (on \/ Dragging(par') => Releases(wire', 0))
        BY <2>3, <3>2, <3>4, <3>5 DEF on
      <4>2. Due(on, par', wire', 0)
        BY <1>10, <4>1, EmptyDue
      <4> QED
        BY <4>2 DEF on
    <3> QED
      BY <2>3, <3>1, <3>6
  <2>6. Reports'
    BY <1>9, <1>10, <2>3, <2>5 DEF Reports
  <2> QED
    BY <2>4, <2>6
<1> QED
  BY <1>9, <1>11, <1>12

LEMMA TimeoutFields ==
  ASSUME NEW p \in Parser, NEW copy
  PROVE  FlushEscapeTimeout(p, copy).ground = p.ground
<1> DEFINE e == IF copy THEN CopyKey("esc") ELSE Pane(p.pending)
           f == Emitted(p, e)
           q == FlushEscapeTimeout(p, copy)
<1>1. f.ground = p.ground /\ DOMAIN f = DOMAIN p /\ DOMAIN p = {"mode", "pending", "ground", "out"}
  BY DEF Emitted, Parser
<1>2. q = InMode(f, "Ground", <<>>) \/ q = InMode(p, "Ground", <<>>)
  BY DEF FlushEscapeTimeout
<1> HIDE DEF f, e, q
<1>3. \A g : DOMAIN g = {"mode", "pending", "ground", "out"} => InMode(g, "Ground", <<>>).ground = g.ground
  BY DEF InMode
<1> QED
  BY <1>1, <1>2, <1>3 DEF q

\* The parser before the bytes of a read: after the escape, when its time is up.
LEMMA LateAligned ==
  ASSUME Kept, Reports, ~torn, NEW late \in BOOLEAN, late => PendingEscape(par) /\ ~CutsOff(par)
  PROVE  LET p == IF late THEN FlushEscapeTimeout(par, CopyBit) ELSE par
         IN  /\ Aligned(p, wire, 0) /\ Types(p, Meant)
             /\ \A on \in BOOLEAN : Due(on, par, wire, 0) => Due(on, p, wire, 0)
<1>1. wire \in Seq(Byte) /\ par \in Parser /\ CopyBit \in BOOLEAN
  BY DEF Kept, CopyBit
<1>2. Aligned(par, wire, 0) /\ Types(par, Meant)
  BY EmptyTypes DEF Reports
<1>3. CASE ~late
  BY <1>2, <1>3
<1>4. CASE late
  <2>1. PendingEscape(par) /\ ~(wire # <<>> /\ wire[1].rep /\ wire[1].c # "esc")
    <3>1. wire # <<>> => Head(wire) = wire[1]
      BY <1>1
    <3> QED
      BY <1>4, <3>1 DEF CutsOff, PendingEscape
  <2> QED
    BY <1>1, <1>2, <1>4, <2>1, TimeoutAligned
<1> QED
  BY <1>3, <1>4

LEMMA LateParser ==
  ASSUME Kept, Reports, NEW late \in BOOLEAN
  PROVE  LET p == IF late THEN FlushEscapeTimeout(par, CopyBit) ELSE par
         IN  p \in Parser /\ p.ground = <<>>
<1>1. par \in Parser /\ CopyBit \in BOOLEAN /\ par.ground = <<>>
  BY DEF Kept, CopyBit, Reports
<1> QED
  BY <1>1, FlushEscapeTimeoutTyped, TimeoutFields

\* The first bytes of the first bytes.
LEMMA FirstBytes ==
  ASSUME NEW w \in Seq(Byte), NEW n \in 0..Len(w), NEW m \in 0..n
  PROVE  SubSeq(SubSeq(w, 1, n), 1, m) = SubSeq(w, 1, m)
<1> DEFINE B == Byte
<1> HIDE DEF B
<1>1. w \in Seq(B)
  BY DEF B
<1> QED
  BY <1>1

LEMMA ClientInputReports ==
  ASSUME Kept, Reports, NEW n \in 1..Len(wire), NEW late \in BOOLEAN, ClientInput(n, late)
  PROVE  Reports' /\ (torn' \/ step'.typed \in Seq(Meant))
<1> DEFINE p == IF late THEN FlushEscapeTimeout(par, CopyBit) ELSE par
           bytes == SubSeq(wire, 1, n)
           q == Feed(p, bytes, CopyBit)
<1>1. wire \in Seq(Byte) /\ par \in Parser /\ CopyBit \in BOOLEAN /\ n \in 0..Len(wire)
      /\ torn \in BOOLEAN /\ held \in BOOLEAN
  BY DEF Kept, CopyBit, Reports
<1>2. p \in Parser
  BY LateParser
<1>3. bytes \in Seq(Byte)
  BY <1>1
<1>4. /\ ApplyEvents(q.out) /\ par' = [q EXCEPT !.out = <<>>]
      /\ wire' = SubSeq(wire, n + 1, Len(wire)) /\ height' = height /\ held' = held
      /\ torn' = (torn \/ Tears(p, bytes) \/ (late /\ CutsOff(par)))
      /\ late => PendingEscape(par)
  BY DEF ClientInput
<1>5. Tears(p, bytes) \in BOOLEAN /\ CutsOff(par) \in BOOLEAN
  BY DEF Tears, CutsOff
<1>6. ~torn' => /\ Aligned(p, wire, 0) /\ Types(p, Meant)
                /\ \A on \in BOOLEAN : Due(on, par, wire, 0) => Due(on, p, wire, 0)
  BY <1>4, LateAligned
<1> HIDE DEF p
<1>7. ~torn' => Untorn(p, wire, n, CopyBit)
  <2> SUFFICES ASSUME ~torn', NEW i \in 1..n, wire[i].rep, wire[i].c = "esc",
                      Feed(p, SubSeq(wire, 1, i - 1), CopyBit).mode \in Swallows
               PROVE  FALSE
    BY DEF Untorn
  <2>1. ~Tears(p, bytes)
    BY <1>4
  <2>2. i \in DOMAIN bytes /\ bytes[i] = wire[i] /\ i - 1 \in 0..n
    BY <1>1
  <2>3. SubSeq(bytes, 1, i - 1) = SubSeq(wire, 1, i - 1)
    BY <1>1, <2>2, FirstBytes
  <2> HIDE DEF bytes
  <2> QED
    BY <2>1, <2>2, <2>3 DEF Tears, Swallows
<1>8. ~torn => Chained(wire)
  BY DEF Reports
<1>9. ~torn' => /\ Aligned(q, wire, n) /\ Types(q, Meant)
                /\ \A on \in BOOLEAN : Ending(wire) /\ Due(on, p, wire, 0) => Due(on, q, wire, n)
  BY <1>1, <1>2, <1>4, <1>6, <1>7, <1>8, ReadAligned
<1>10. q \in Parser /\ q.ground = <<>>
  <2>1. PICK f \in [0..Len(bytes) -> Parser] : q = FlushGround(f[Len(bytes)])
    BY <1>1, <1>2, <1>3, FeedIs
  <2>2. f[Len(bytes)] \in Parser
    BY <1>3
  <2> QED
    BY <2>1, <2>2, FlushFields, FlushGroundTyped
<1> HIDE DEF q, bytes
<1>11. ~torn' => /\ Aligned(q, wire, n) /\ Types(q, Meant)
                 /\ \A on \in BOOLEAN : Ending(wire) /\ Due(on, par, wire, 0) => Due(on, q, wire, n)
  BY <1>6, <1>9
<1>12. torn' \in BOOLEAN /\ (torn => torn')
  BY <1>1, <1>4
<1> QED
  BY <1>1, <1>4, <1>10, <1>11, <1>12, AppliedReports

LEMMA EscapeTimeoutReports ==
  ASSUME Kept, Reports, EscapeTimeout
  PROVE  Reports' /\ (torn' \/ step'.typed \in Seq(Meant))
<1> DEFINE q == FlushEscapeTimeout(par, CopyBit)
<1>1. wire \in Seq(Byte) /\ par \in Parser /\ CopyBit \in BOOLEAN /\ torn \in BOOLEAN
      /\ held \in BOOLEAN
  BY DEF Kept, CopyBit, Reports
<1>2. /\ ApplyEvents(q.out) /\ par' = [q EXCEPT !.out = <<>>] /\ PendingEscape(par)
      /\ torn' = (torn \/ CutsOff(par)) /\ wire' = wire /\ held' = held
  BY DEF EscapeTimeout, term
<1>3. CutsOff(par) \in BOOLEAN
  BY DEF CutsOff
<1>4. q \in Parser /\ q.ground = <<>>
  BY LateParser
<1>5. ~torn' => /\ Aligned(q, wire, 0) /\ Types(q, Meant)
                /\ \A on \in BOOLEAN : Due(on, par, wire, 0) => Due(on, q, wire, 0)
  BY <1>2, LateAligned
<1>6. 0 \in 0..Len(wire) /\ wire = SubSeq(wire, 0 + 1, Len(wire))
  <2> DEFINE B == Byte
  <2> HIDE DEF B
  <2>1. wire \in Seq(B)
    BY <1>1 DEF B
  <2> QED
    BY <2>1
<1> HIDE DEF q
<1>7. torn' \in BOOLEAN /\ (torn => torn')
  BY <1>1, <1>2, <1>3
<1>8. wire' = SubSeq(wire, 0 + 1, Len(wire))
  BY <1>2, <1>6
<1> QED
  BY <1>2, <1>4, <1>5, <1>6, <1>7, <1>8, AppliedReports

\* What the terminal sends does not disturb the parser.
LEMMA UnreadReports ==
  ASSUME Reports, Unread, torn' = torn, held' = held, wire' = wire
  PROVE  Reports'
<1>1. cm' = cm /\ par' = par
  BY DEF Unread
<1>2. (MouseOn(Present))' <=> MouseOn(Present)
  BY <1>1, PresentMouse, PresentMouseNext
<1>3. par'.out = <<>> /\ Len(<<>>) = 0
  BY <1>1 DEF Reports
<1>4. Due(MouseOn(Present), par, wire, 0) => Due((MouseOn(Present))', par', wire', 0)
  BY <1>1, <1>2 DEF Due, Unended
<1> QED
  BY <1>1, <1>4 DEF Reports

\* A key or a report is sent; after it the button may be up only if it was, or if the
\* release is in it.
LEMMA SendsReports ==
  ASSUME Kept, Reports, NEW s \in Seq(Byte), Sends(s), held' \in BOOLEAN,
         Chained(s), s # <<>> /\ s[1].rep => s[1].c = "esc",
         held' \/ (~held /\ Ending(s)) \/ (Releases(s, 0) /\ Ending(s))
  PROVE  Reports'
<1>1. wire' = wire \o s /\ cm' = cm /\ par' = par /\ torn' = torn /\ Unread
  BY DEF Sends, Unread
<1>2. wire \in Seq(Byte) /\ Len(wire) \in Nat /\ MouseOn(Present) \in BOOLEAN
  BY MouseOnIs DEF Kept
<1>3. (MouseOn(Present))' = MouseOn(Present)
  BY <1>1 DEF MouseOn, Present
<1>4. /\ torn \in BOOLEAN /\ held \in BOOLEAN /\ par.out = <<>> /\ par.ground = <<>>
      /\ torn \/ (Chained(wire) /\ Aligned(par, wire, 0))
      /\ torn \/ held \/ (Ending(wire) /\ Due(MouseOn(Present), par, wire, 0))
  BY DEF Reports
<1>5. CASE torn
  BY <1>1, <1>4, <1>5 DEF Reports
<1>6. CASE ~torn
  <2>1. /\ Chained(wire') /\ Aligned(par', wire', 0)
        /\ Releases(wire, 0) => Releases(wire', 0)
        /\ Releases(s, 0) => Releases(wire', 0)
        /\ Ending(wire) /\ Ending(s) => Ending(wire')
        /\ Releases(s, 0) /\ Ending(s) => Ending(wire')
    <3>1. 0 \in Nat /\ 0 \in 0..Len(wire)
      BY <1>2
    <3> QED
      BY <1>1, <1>2, <1>4, <1>6, <3>1, SentAligned
  <2>2. Due(MouseOn(Present), par, wire, 0) /\ Releases(wire, 0)
          => Due((MouseOn(Present))', par', wire', 0)
    BY <2>1 DEF Due
  <2>3. ASSUME ~held' PROVE Ending(wire') /\ Due((MouseOn(Present))', par', wire', 0)
    <3>1. CASE Releases(s, 0) /\ Ending(s)
      BY <2>1, <3>1 DEF Due
    <3>2. CASE ~held /\ Ending(s)
      <4>1. Ending(wire) /\ Due(MouseOn(Present), par, wire, 0)
        BY <1>4, <1>6, <3>2
      <4>2. Due((MouseOn(Present))', par', wire', 0)
        BY <1>1, <1>3, <2>1, <4>1 DEF Due
      <4> QED
        BY <2>1, <3>2, <4>1, <4>2
    <3> QED
      BY <2>3, <3>1, <3>2
  <2> QED
    BY <1>1, <1>4, <2>1, <2>3 DEF Reports
<1> QED
  BY <1>4, <1>5, <1>6

LEMMA StepReports == Kept /\ Reports /\ [Next]_vars => Reports'
<1> SUFFICES ASSUME Kept, Reports, [Next]_vars PROVE Reports'
  OBVIOUS
<1>0. torn \in BOOLEAN /\ held \in BOOLEAN
  BY DEF Reports
<1>1. ASSUME NEW n \in 1..Len(wire), NEW late \in BOOLEAN, ClientInput(n, late) PROVE Reports'
  BY <1>1, ClientInputReports
<1>2. CASE EscapeTimeout
  BY <1>2, EscapeTimeoutReports
<1>3. ASSUME NEW key \in Keys, Type(key) PROVE Reports'
  <2>1. key \in Seq({Key(c) : c \in Class}) /\ Sends(key) /\ held' = held
    BY <1>3, CopyModeAssumption DEF Type
  <2>2. key \in Seq(Byte) /\ Chained(key) /\ Ending(key) /\ (key # <<>> => ~key[1].rep)
    BY <2>1, KeySent
  <2> QED
    BY <1>0, <2>1, <2>2, SendsReports
<1>4. ASSUME NEW spot \in Spots, MousePress(spot) PROVE Reports'
  <2>1. ~held /\ Sends(Report("button", spot, "M")) /\ held' = TRUE
    BY <1>4 DEF MousePress
  <2> QED
    BY <2>1, ReportSent, SendsReports
<1>5. ASSUME NEW spot \in Spots, MouseDrag(spot) PROVE Reports'
  <2>1. held /\ Sends(Report("drag", spot, "M")) /\ held' = held
    BY <1>5 DEF MouseDrag
  <2> QED
    BY <1>0, <2>1, ReportSent, SendsReports
<1>6. ASSUME NEW spot \in Spots, MouseRelease(spot) PROVE Reports'
  <2>1. Sends(Report("button", spot, "m")) /\ held' = FALSE
    BY <1>6 DEF MouseRelease
  <2> QED
    BY <2>1, ReportSent, SendsReports
<1>7. ASSUME NEW spot \in Spots, NEW kind \in Buttons, MouseWheel(kind, spot) PROVE Reports'
  <2>1. kind \in {"scrollup", "scrolldown"} /\ Sends(Report(kind, spot, "M")) /\ held' = held
    BY <1>7 DEF MouseWheel
  <2> QED
    BY <1>0, <2>1, ReportSent, SendsReports
<1>8. CASE Output
  BY <1>8, UnreadReports DEF Output, Unread, term
<1>9. ASSUME NEW h \in Heights, Resize(h) PROVE Reports'
  BY <1>9, UnreadReports DEF Resize, Unread, term
<1>10. CASE MouseTracking
  BY <1>10, UnreadReports DEF MouseTracking, Unread, term
<1>11. CASE UNCHANGED vars
  <2>1. cm' = cm /\ par' = par /\ wire' = wire /\ torn' = torn /\ held' = held
    BY <1>11 DEF vars, term
  <2>2. (MouseOn(Present))' = MouseOn(Present)
    BY <2>1 DEF MouseOn, Present
  <2> QED
    BY <2>1, <2>2 DEF Reports
<1> QED
  BY <1>1, <1>2, <1>3, <1>4, <1>5, <1>6, <1>7, <1>8, <1>9, <1>10, <1>11 DEF Next

\* A read that begins in copy mode, with no prefix pending, types nothing.
LEMMA SilentRead ==
  ASSUME Kept, Reports, cm # None, par.mode \in Normal,
         EscapeTimeout \/ \E n \in 1..Len(wire), late \in BOOLEAN : ClientInput(n, late)
  PROVE  step'.typed = <<>>
<1>1. wire \in Seq(Byte) /\ par \in Parser /\ CopyBit = TRUE /\ height \in Heights
  BY DEF Kept, CopyBit
<1>2. Types(par, {})
  BY EmptyTypes DEF Reports
<1>3. PendingEscape(par) => LET p == FlushEscapeTimeout(par, TRUE)
                            IN  p \in Parser /\ Types(p, {}) /\ p.mode \in Normal
  <2>1. "Ground" \in Normal
    BY DEF Normal
  <2> QED
    BY <1>1, <1>2, <2>1, TimeoutSilent, FlushEscapeTimeoutTyped
<1>4. ASSUME NEW q \in Parser, Types(q, {}), ApplyEvents(q.out) PROVE step'.typed = <<>>
  <2>0. PICK caret \in Carets :
          LET v == Applied([scr |-> scr, cm |-> cm, press |-> press, zoomed |-> zoomed,
                            step |-> NoStep, moved |-> moved], q.out, caret)
          IN  /\ scr' = v.scr /\ cm' = v.cm /\ press' = v.press /\ zoomed' = v.zoomed
              /\ step' = v.step /\ moved' = v.moved
    BY <1>4 DEF ApplyEvents
  <2> DEFINE w0 == [scr |-> scr, cm |-> cm, press |-> press, zoomed |-> zoomed,
                    step |-> NoStep, moved |-> moved]
             w  == Applied(w0, q.out, caret)
  <2>1. /\ DOMAIN w0 = StateFields
        /\ w0.scr = scr /\ w0.cm = cm /\ w0.press = press /\ w0.zoomed = zoomed
        /\ w0.step = NoStep /\ w0.moved = moved
    BY DEF StateFields
  <2>2. step' = w.step
    BY <2>0
  <2> HIDE DEF w0
  <2>3. Good(w0)
    BY <2>1, KeptParts, NoStepTyped DEF Good
  <2>4. q.out \in Seq(Event) /\ PanesIn(q.out, {})
    BY <1>4 DEF Parser, Types
  <2>5. w0.step.typed \in Seq({})
    BY <2>1 DEF NoStep
  <2>6. w.step.typed \in Seq({})
    BY <1>1, <2>3, <2>4, <2>5, AppliedDoes
  <2> HIDE DEF w
  <2> QED
    BY <2>2, <2>6
<1>5. CASE EscapeTimeout
  <2>1. PendingEscape(par) /\ ApplyEvents(FlushEscapeTimeout(par, TRUE).out)
    BY <1>1, <1>5 DEF EscapeTimeout
  <2> QED
    BY <1>3, <1>4, <2>1
<1>6. ASSUME NEW n \in 1..Len(wire), NEW late \in BOOLEAN, ClientInput(n, late)
      PROVE  step'.typed = <<>>
  <2> DEFINE p == IF late THEN FlushEscapeTimeout(par, TRUE) ELSE par
             bytes == SubSeq(wire, 1, n)
             q == Feed(p, bytes, TRUE)
  <2>1. ApplyEvents(q.out) /\ (late => PendingEscape(par))
    BY <1>1, <1>6 DEF ClientInput
  <2>2. p \in Parser /\ Types(p, {}) /\ p.mode \in Normal
    BY <1>1, <1>2, <1>3, <2>1
  <2>3. bytes \in Seq(Byte)
    BY <1>1
  <2> HIDE DEF p, bytes
  <2>4. q \in Parser /\ Types(q, {})
    BY <2>2, <2>3, ReadSilent, FeedTyped
  <2> HIDE DEF q
  <2> QED
    BY <1>4, <2>1, <2>4
<1> QED
  BY <1>5, <1>6

\* The parser is between reports or in the middle of one, and releases are on their way.
THEOREM ReportsHolds == Spec => []Reports
BY InitKept, StepKept, InitReports, StepReports, PTL DEF Spec

\* Copy mode that the mouse began lasts no longer than the button is held or its release
\* under way.
THEOREM MouseSessionEndsHolds == Spec => []MouseSessionEnds
<1>1. Kept /\ Reports => MouseSessionEnds
  <2> SUFFICES ASSUME Kept, Reports, cm # None, cm.mouse, ~held, ~torn
               PROVE  \E i \in DOMAIN wire : wire[i].rep /\ wire[i].c = "m"
    BY DEF MouseSessionEnds
  <2>1. Due(MouseOn(Present), par, wire, 0) /\ par.out = <<>> /\ MouseOn(Present) \in BOOLEAN
    BY MouseOnIs DEF Reports
  <2>2. MouseOn(Present)
    BY PresentMouse
  <2>3. Releases(wire, 0)
    BY <2>1, <2>2, EmptyDue
  <2>4. PICK i \in 0 + 1..Len(wire) : wire[i].rep /\ wire[i].c = "m"
    BY <2>3 DEF Releases
  <2>5. wire \in Seq(Byte)
    BY DEF Kept
  <2>6. i \in DOMAIN wire
    BY <2>4, <2>5
  <2> QED
    BY <2>4, <2>6
<1> QED
  BY <1>1, KeptHolds, ReportsHolds, PTL

\* No byte of a report is typed, and nothing is in copy mode.
THEOREM TypedIsMeantHolds == Spec => TypedIsMeant
<1> DEFINE A == /\ torn' \/ \A i \in DOMAIN step'.typed : ~step'.typed[i].rep
                /\ cm # None /\ par.mode \in {"Ground", "NEsc", "NCsi", "NMouse"}
                      => step'.typed = <<>>
<1>1. Kept /\ Reports /\ Next => A
  <2> SUFFICES ASSUME Kept, Reports, Next PROVE A
    OBVIOUS
  <2>1. CASE EscapeTimeout \/ \E n \in 1..Len(wire), late \in BOOLEAN : ClientInput(n, late)
    <3>1. torn' \/ step'.typed \in Seq(Meant)
      BY <2>1, EscapeTimeoutReports, ClientInputReports
    <3>2. step'.typed \in Seq(Meant) => \A i \in DOMAIN step'.typed : ~step'.typed[i].rep
      <4> DEFINE t == step'.typed
      <4>1. t \in Seq(Meant) => \A i \in DOMAIN t : t[i] \in Meant
        <5> HIDE DEF t
        <5> QED
          OBVIOUS
      <4> QED
        BY <4>1 DEF Meant
    <3>3. cm # None /\ par.mode \in Normal => step'.typed = <<>>
      BY <2>1, SilentRead
    <3> QED
      BY <3>1, <3>2, <3>3 DEF Normal
  <2>2. CASE ~(EscapeTimeout \/ \E n \in 1..Len(wire), late \in BOOLEAN : ClientInput(n, late))
    <3>1. step' = NoStep
      BY <2>2 DEF Next, Type, MousePress, MouseDrag, MouseRelease, MouseWheel, Sends, Output, Resize,
                  MouseTracking, Unread
    <3>2. step'.typed = <<>> /\ DOMAIN <<>> = {}
      BY <3>1 DEF NoStep
    <3> QED
      BY <3>2
  <2> QED
    BY <2>1, <2>2
<1>2. Kept /\ Reports /\ [Next]_vars => [A]_vars
  BY <1>1
<1>3. TypedIsMeant <=> [][A]_vars
  BY DEF TypedIsMeant
<1> HIDE DEF A
<1> QED
  BY <1>2, <1>3, KeptHolds, ReportsHolds, PTL DEF Spec
=============================================================================
