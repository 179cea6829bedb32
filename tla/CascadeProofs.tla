--------------------------- MODULE CascadeProofs ----------------------------
(* The bill of a run is exact, its budget is a ceiling, and no agent answers *)
(* more often than it was asked: for every group of agents, every limit, and *)
(* any interleaving of turns, errands and a stop.                            *)
EXTENDS Cascade, FiniteSetTheorems, SequenceTheorems, WellFoundedInduction, TLAPS

\* A turn has a call in the air exactly while it waits for one, and an errand
\* claims a call only when it has none.
OneCallEach ==
    /\ \A a \in Agent : <<a, 0>> \in air <=> pc[a] = "calling"
    /\ ready \cap air = {}

\* The budget is a ceiling across all agents: no claim passes it.
BudgetHolds == steps \in 0..MaxSteps

BillInv ==
    /\ BudgetHolds /\ billed \in Nat
    /\ pc \in [Agent -> Control]
    /\ air \subseteq Call /\ ready \subseteq Agent \X (1..MostAtOnce)
    /\ OneCallEach
    /\ BillExact

-----------------------------------------------------------------------------
LEMMA Bounds == MaxSteps \in Nat /\ MostAtOnce \in Nat /\ Headroom \in Nat
BY CascadeAssumption

LEMMA AirIsFinite ==
    ASSUME air \subseteq Call
    PROVE  IsFiniteSet(air) /\ Cardinality(air) \in Nat
<1>1. IsFiniteSet(Agent) /\ MostAtOnce \in Nat
  BY CascadeAssumption
<1>2. IsFiniteSet(0..MostAtOnce)
  BY <1>1, FS_Interval
<1>3. IsFiniteSet(Call)
  BY <1>1, <1>2, FS_Product DEF Call
<1> QED
  BY <1>3, FS_Subset, FS_CardinalityType

\* A claim within the budget puts a new call in the air.
LEMMA ClaimKeepsBill ==
    ASSUME BillInv, NEW c \in Call, c \notin air, steps < MaxSteps,
           steps' = steps + 1, air' = air \cup {c}, billed' = billed
    PROVE  BudgetHolds' /\ BillExact'
<1>1. IsFiniteSet(air) /\ Cardinality(air) \in Nat
  BY AirIsFinite DEF BillInv
<1>2. Cardinality(air') = Cardinality(air) + 1
  BY <1>1, FS_AddElement
<1> QED
  BY <1>1, <1>2, Bounds DEF BillInv, BudgetHolds, BillExact

\* A call comes down answered or failed, on the bill; or it is given back.
LEMMA EndKeepsBill ==
    ASSUME BillInv, NEW c \in air, Bill(c) \/ ReleaseStep(c)
    PROVE  BudgetHolds' /\ BillExact' /\ billed' \in Nat
<1>1. IsFiniteSet(air) /\ Cardinality(air) \in Nat
  BY AirIsFinite DEF BillInv
<1>2. Cardinality(air \ {c}) = Cardinality(air) - 1 /\ Cardinality(air) # 0
  BY <1>1, FS_RemoveElement, FS_EmptySet
<1> QED
  BY <1>1, <1>2, Bounds DEF BillInv, BudgetHolds, BillExact, Bill, ReleaseStep

\* A step that claims nothing and ends no call leaves all of this alone.
LEMMA OtherKeepsBill ==
    ASSUME BillInv, UNCHANGED <<steps, billed, air, ready>>, NEW a \in Agent,
           pc[a] # "calling", NEW l \in Control \ {"calling"},
           pc' = [pc EXCEPT ![a] = l]
    PROVE  BillInv'
BY DEF BillInv, BudgetHolds, OneCallEach, BillExact

LEMMA IdleKeepsBill ==
    ASSUME BillInv, UNCHANGED <<steps, billed, air, ready, pc>>
    PROVE  BillInv'
BY DEF BillInv, BudgetHolds, OneCallEach, BillExact

LEMMA InitBill == Init => BillInv
<1> SUFFICES ASSUME Init PROVE BillInv
  OBVIOUS
<1>1. Cardinality({}) = 0
  BY FS_EmptySet
<1> QED
  BY <1>1, Bounds DEF Init, BillInv, BudgetHolds, OneCallEach, BillExact, Control

-----------------------------------------------------------------------------
(* One step of the actor of a.                                             *)

LEMMA ReadKeepsBill ==
    ASSUME BillInv, NEW a \in Agent, Read(a) \/ Expire(a)
    PROVE  BillInv'
<1>1. CASE Wake(a)
  BY <1>1, OtherKeepsBill DEF Wake, Goto, guard, ledger, Control
<1>2. CASE Gather(a)
  BY <1>2, IdleKeepsBill DEF Gather, guard, ledger
<1>3. CASE Gathered(a)
  BY <1>3, OtherKeepsBill DEF Gathered, Moves, Rest, Goto, guard, ledger, Control
<1>4. CASE Listen(a) \/ GiveUp(a) \/ Expire(a)
  BY <1>4, OtherKeepsBill DEF Listen, GiveUp, Expire, Moves, Rest, Goto, guard, ledger, Control
<1> QED
  BY <1>1, <1>2, <1>3, <1>4 DEF Read

LEMMA ClaimStep ==
    ASSUME BillInv, NEW a \in Agent, Claim(a)
    PROVE  BillInv'
<1>1. pc[a] = "claim" /\ ready' = ready
  BY DEF Claim, Rest
<1>2. CASE Reserve(<<a, 0>>) /\ Goto(a, "calling")
  <2>1. <<a, 0>> \in Call /\ <<a, 0>> \notin air /\ <<a, 0>> \notin ready
    BY <1>1, Bounds DEF Call, BillInv, OneCallEach
  <2>2. steps < MaxSteps
    BY <1>2, Bounds DEF Reserve, Left, BillInv, BudgetHolds
  <2>3. BudgetHolds' /\ BillExact'
    BY <1>2, <2>1, <2>2, ClaimKeepsBill DEF Reserve
  <2>4. OneCallEach'
    BY <1>1, <1>2, <2>1 DEF Reserve, Goto, BillInv, OneCallEach
  <2> QED
    BY <1>1, <1>2, <2>1, <2>3, <2>4 DEF Reserve, Goto, BillInv, Control
<1>3. CASE Left = 0 /\ Goto(a, "close") /\ UNCHANGED <<steps, ledger>>
  BY <1>1, <1>3, OtherKeepsBill DEF Goto, ledger, Control
<1> QED
  BY <1>2, <1>3 DEF Claim

LEMMA CallStep ==
    ASSUME BillInv, NEW a \in Agent, Answered(a) \/ Dropped(a)
    PROVE  BillInv'
<1>1. /\ pc[a] = "calling" /\ ready' = ready
      /\ \E l \in {"tools", "close", "finish"} : pc' = [pc EXCEPT ![a] = l]
      /\ Bill(<<a, 0>>) \/ ReleaseStep(<<a, 0>>)
  BY DEF Answered, Dropped, Goto, Rest
<1>2. <<a, 0>> \in air
  BY <1>1 DEF BillInv, OneCallEach
<1>3. BudgetHolds' /\ BillExact' /\ billed' \in Nat
  BY <1>1, <1>2, EndKeepsBill
<1>4. air' = air \ {<<a, 0>>}
  BY <1>1 DEF Bill, ReleaseStep
<1>5. OneCallEach'
  BY <1>1, <1>4 DEF BillInv, OneCallEach
<1> QED
  BY <1>1, <1>3, <1>4, <1>5 DEF BillInv, Control

LEMMA TurnKeepsBill ==
    ASSUME BillInv, NEW a \in Agent, Turn(a)
    PROVE  BillInv'
<1> USE DEF guard, sends, ledger, Goto, Moves, Rest, Control
<1>1. CASE Start(a)
  BY <1>1, OtherKeepsBill DEF Start
<1>2. CASE Round(a) \/ ToolsDone(a) \/ SendTool(a) \/ Sent(a) \/ Close(a) \/ Silent(a)
  BY <1>2, OtherKeepsBill DEF Round, ToolsDone, SendTool, Sent, Close, Silent
<1>3. CASE Claim(a) \/ Answered(a) \/ Dropped(a)
  BY <1>3, ClaimStep, CallStep
<1>4. CASE \E b \in Agent, t \in Text, work \in BOOLEAN : Send(a, b, t, work)
  <2>1. PICK b \in Agent, t \in Text, work \in BOOLEAN : Send(a, b, t, work)
    BY <1>4
  <2> QED
    BY <2>1, OtherKeepsBill, IdleKeepsBill DEF Send
<1>5. CASE \E t \in LastWords : Reply(a, t)
  BY <1>5, OtherKeepsBill DEF Reply
<1>6. CASE Post(a) \/ PostReply(a)
  BY <1>6, OtherKeepsBill DEF Post, PostReply
<1>7. CASE PostFails(a)
  BY <1>7, OtherKeepsBill DEF PostFails
<1>8. CASE Badge(a)
  BY <1>8, OtherKeepsBill DEF Badge
<1>9. CASE Note(a) \/ SendErrands(a) \/ ErrandsBack(a)
  BY <1>9, OtherKeepsBill DEF Note, SendErrands, ErrandsBack
<1>10. CASE Finish(a) \/ Idle(a)
  BY <1>10, OtherKeepsBill DEF Finish, Idle
<1> QED
  BY <1>1, <1>2, <1>3, <1>4, <1>5, <1>6, <1>7, <1>8, <1>9, <1>10 DEF Turn

LEMMA ErrandKeepsBill ==
    ASSUME BillInv, NEW a \in Agent, NEW i \in 1..MostAtOnce, ErrandStep(a, i)
    PROVE  BillInv'
<1>1. <<a, i>> \in Call /\ <<a, i>> \in Agent \X (1..MostAtOnce) /\ i # 0
  BY Bounds DEF Call
<1>2. pc' = pc
  BY DEF ErrandStep, ErrandRound, ErrandClaim, ErrandAnswered, ErrandDropped
<1>3. CASE ErrandRound(a, i)
  BY <1>1, <1>2, <1>3 DEF ErrandRound, guard, ledger, BillInv, BudgetHolds, OneCallEach, BillExact
<1>4. CASE ErrandClaim(a, i)
  <2>1. <<a, i>> \in ready /\ <<a, i>> \notin air /\ ready' = ready \ {<<a, i>>}
    BY <1>4 DEF ErrandClaim, BillInv, OneCallEach
  <2>2. CASE ReserveLeaving(<<a, i>>)
    <3>1. steps < MaxSteps
      BY <2>2, Bounds DEF ReserveLeaving, Left, BillInv, BudgetHolds
    <3>2. BudgetHolds' /\ BillExact'
      BY <1>1, <2>1, <2>2, <3>1, ClaimKeepsBill DEF ReserveLeaving
    <3>3. OneCallEach'
      BY <1>1, <1>2, <2>1, <2>2 DEF ReserveLeaving, BillInv, OneCallEach
    <3> QED
      BY <1>1, <1>2, <2>1, <2>2, <3>2, <3>3 DEF ReserveLeaving, BillInv
  <2>3. CASE UNCHANGED <<steps, ledger>>
    BY <1>2, <2>1, <2>3 DEF ledger, BillInv, BudgetHolds, OneCallEach, BillExact
  <2> QED
    BY <1>4, <2>2, <2>3 DEF ErrandClaim
<1>5. CASE ErrandAnswered(a, i) \/ ErrandDropped(a, i)
  <2>1. /\ <<a, i>> \in air /\ ready' = ready
        /\ Bill(<<a, i>>) \/ ReleaseStep(<<a, i>>)
    BY <1>5 DEF ErrandAnswered, ErrandDropped
  <2>2. BudgetHolds' /\ BillExact' /\ billed' \in Nat
    BY <2>1, EndKeepsBill
  <2>3. air' = air \ {<<a, i>>}
    BY <2>1 DEF Bill, ReleaseStep
  <2>4. OneCallEach'
    BY <1>1, <1>2, <2>1, <2>3 DEF BillInv, OneCallEach
  <2> QED
    BY <1>2, <2>1, <2>2, <2>3, <2>4 DEF BillInv
<1> QED
  BY <1>3, <1>4, <1>5 DEF ErrandStep

-----------------------------------------------------------------------------
LEMMA StepKeepsBill == BillInv /\ [Next]_vars => BillInv'
<1> SUFFICES ASSUME BillInv, [Next]_vars PROVE BillInv'
  OBVIOUS
<1>1. CASE UNCHANGED vars
  BY <1>1, IdleKeepsBill DEF vars, guard, ledger
<1>2. CASE StopRun
  BY <1>2, IdleKeepsBill DEF StopRun, Rest, guard, ledger
<1>3. ASSUME NEW a \in Agent, Read(a) \/ Expire(a) \/ Turn(a)
      PROVE  BillInv'
  BY <1>3, ReadKeepsBill, TurnKeepsBill
<1>4. ASSUME NEW a \in Agent, NEW i \in 1..MostAtOnce, ErrandStep(a, i)
      PROVE  BillInv'
  BY <1>4, ErrandKeepsBill
<1> QED
  BY <1>1, <1>2, <1>3, <1>4 DEF Next

(* reserve_step, reserve_step_leaving and release_step: turns and errands of *)
(* all the agents of a run claim from one budget, a stop drops some of their *)
(* calls in mid-air, and yet the budget is never passed and never wraps.     *)
THEOREM BudgetIsACeiling == Spec => []BudgetHolds
<1>1. Spec => []BillInv
  BY InitBill, StepKeepsBill, PTL DEF Spec
<1>2. BillInv => BudgetHolds
  BY DEF BillInv
<1> QED
  BY <1>1, <1>2, PTL

(* "A run's steps have to equal the calls it actually made" (run_turn): they *)
(* are those that answered or failed, and those in the air.                  *)
THEOREM BillIsExact == Spec => []BillExact
<1>1. Spec => []BillInv
  BY InitBill, StepKeepsBill, PTL DEF Spec
<1>2. BillInv => BillExact
  BY DEF BillInv
<1> QED
  BY <1>1, <1>2, PTL
-----------------------------------------------------------------------------
(* Counting asks.                                                           *)

\* The asks of b among the messages of a line.
AsksOf(line, b) == {i \in DOMAIN line : line[i].asks /\ line[i].from = b}

LEMMA AsksFinite ==
    ASSUME NEW line \in Seq(Message), NEW b
    PROVE  IsFiniteSet(AsksOf(line, b)) /\ Cardinality(AsksOf(line, b)) \in Nat
<1>1. DOMAIN line = 1..Len(line) /\ Len(line) \in Nat
  OBVIOUS
<1>2. AsksOf(line, b) \in SUBSET (1..Len(line))
  BY <1>1 DEF AsksOf
<1>3. IsFiniteSet(1..Len(line))
  BY <1>1, FS_Interval
<1> QED
  BY <1>2, <1>3, FS_Subset, FS_CardinalityType

LEMMA AskArrives ==
    ASSUME NEW line \in Seq(Message), NEW m \in Message, NEW b
    PROVE  Cardinality(AsksOf(Append(line, m), b)) =
             Cardinality(AsksOf(line, b)) + (IF m.asks /\ m.from = b THEN 1 ELSE 0)
<1>1. /\ Len(line) \in Nat /\ DOMAIN line = 1..Len(line)
      /\ DOMAIN Append(line, m) = 1..(Len(line) + 1)
      /\ \A i \in 1..Len(line) : Append(line, m)[i] = line[i]
      /\ Append(line, m)[Len(line) + 1] = m
  OBVIOUS
<1>2. IsFiniteSet(AsksOf(line, b)) /\ Cardinality(AsksOf(line, b)) \in Nat
  BY AsksFinite
<1>3. CASE m.asks /\ m.from = b
  <2>1. AsksOf(Append(line, m), b) = AsksOf(line, b) \cup {Len(line) + 1}
    BY <1>1, <1>3 DEF AsksOf
  <2>2. Len(line) + 1 \notin AsksOf(line, b)
    BY <1>1 DEF AsksOf
  <2>3. Cardinality(AsksOf(line, b) \cup {Len(line) + 1}) = Cardinality(AsksOf(line, b)) + 1
    BY <1>2, <2>2, FS_AddElement
  <2> QED
    BY <1>3, <2>1, <2>3
<1>4. CASE ~(m.asks /\ m.from = b)
  <2>1. AsksOf(Append(line, m), b) = AsksOf(line, b)
    BY <1>1, <1>4 DEF AsksOf
  <2> QED
    BY <1>2, <1>4, <2>1
<1> QED
  BY <1>3, <1>4

LEMMA AskIsTaken ==
    ASSUME NEW line \in Seq(Message), line # <<>>, NEW b
    PROVE  /\ Tail(line) \in Seq(Message) /\ Head(line) \in Message /\ Head(line) = line[1]
           /\ Cardinality(AsksOf(line, b)) = Cardinality(AsksOf(Tail(line), b))
                 + (IF Head(line).asks /\ Head(line).from = b THEN 1 ELSE 0)
<1>1. /\ Len(line) \in Nat \ {0} /\ DOMAIN line = 1..Len(line)
      /\ Tail(line) \in Seq(Message) /\ Head(line) \in Message /\ Head(line) = line[1]
      /\ DOMAIN Tail(line) = 1..(Len(line) - 1)
      /\ \A i \in 1..(Len(line) - 1) : Tail(line)[i] = line[i + 1]
  OBVIOUS
<1> DEFINE S == AsksOf(Tail(line), b)
           T == AsksOf(line, b) \ {1}
           f == [i \in S |-> i + 1]
<1>2. IsFiniteSet(S) /\ Cardinality(S) \in Nat /\ IsFiniteSet(AsksOf(line, b))
      /\ Cardinality(AsksOf(line, b)) \in Nat
  BY <1>1, AsksFinite
<1>3. \A i \in S : i \in Nat /\ i + 1 \in T
  BY <1>1 DEF AsksOf
<1>4. \A j \in T : j - 1 \in S /\ (j - 1) + 1 = j
  BY <1>1 DEF AsksOf
<1> HIDE DEF S, T
<1>5. f \in Bijection(S, T)
  <2>1. f \in [S -> T]
    BY <1>3
  <2>2. \A x, y \in S : f[x] = f[y] => x = y
    BY <1>3
  <2>3. \A t \in T : \E s \in S : f[s] = t
    BY <1>4
  <2> QED
    BY <2>1, <2>2, <2>3 DEF Bijection, Injection, Surjection, IsInjective
<1>6. Cardinality(T) = Cardinality(S)
  BY <1>2, <1>5, FS_Bijection DEF ExistsBijection
<1>7. 1 \in AsksOf(line, b) <=> Head(line).asks /\ Head(line).from = b
  BY <1>1 DEF AsksOf
<1>8. Cardinality(T) = IF 1 \in AsksOf(line, b) THEN Cardinality(AsksOf(line, b)) - 1
                                              ELSE Cardinality(AsksOf(line, b))
  BY <1>2, FS_RemoveElement DEF T
<1>9. Cardinality(AsksOf(line, b)) = Cardinality(S)
         + (IF Head(line).asks /\ Head(line).from = b THEN 1 ELSE 0)
  BY <1>2, <1>6, <1>7, <1>8
<1> QED
  BY <1>1, <1>9 DEF S

LEMMA NoAsks ==
    ASSUME NEW b
    PROVE  Cardinality(AsksOf(<<>>, b)) = 0
BY FS_EmptySet DEF AsksOf

\* A batch in which somebody's hop is read has a greatest hop.
LEMMA GreatestOfSet ==
    ASSUME NEW n \in Nat, NEW S \in SUBSET (0..n), S # {}
    PROVE  Max(S) \in S
<1> DEFINE T == {n - x : x \in S}
<1>1. T \in SUBSET Nat
  OBVIOUS
<1>2. T # {}
  <2>1. PICK x : x \in S
    OBVIOUS
  <2>2. n - x \in T
    BY <2>1
  <2> QED
    BY <2>2
<1>3. PICK t \in T : \A y \in T : ~(<<y, t>> \in OpToRel(<, Nat))
  BY <1>1, <1>2, NatLessThanWellFounded, WFMin
<1>4. \A y \in T : ~(<<y, t>> \in {ss \in Nat \X Nat : ss[1] < ss[2]})
  BY <1>3 DEF OpToRel
<1>5. \A y \in T : ~(y < t)
  BY <1>1, <1>4
<1>6. ASSUME NEW y \in T PROVE t <= y
  <2>1. y \in Nat /\ t \in Nat
    BY <1>1
  <2>2. ~(y < t)
    BY <1>5
  <2> QED
    BY <2>1, <2>2
<1>7. PICK x \in S : t = n - x
  OBVIOUS
<1>8. \A y \in S : x >= y
  BY <1>6, <1>7
<1> QED
  BY <1>8 DEF Max

-----------------------------------------------------------------------------
(* What a turn has in hand, and the types that rest on it.                  *)

\* A turn has something to read, begins no round past the last, writes only in
\* its own name, and answers whoever asked with what asks nothing.
TurnOf(a) ==
    /\ pc[a] \notin {"idle", "resting", "queueing"} => batch[a] # <<>>
    /\ pc[a] \in {"round", "claim", "calling"} => rounds[a] < MaxRounds
    /\ \A m \in outgoing[a] : m.from = a /\ m.to \in Agent
    /\ pc[a] = "answering" => \A m \in outgoing[a] : m.to \in Asker(a) /\ ~m.asks
Turns == \A a \in Agent : TurnOf(a)

\* The types BillInv says nothing of.
RestTyped ==
    /\ pairs \in [Pair -> 0..MaxPair]
    /\ prints \subseteq Agent \X Agent \X Text
    /\ expecting \subseteq Pair
    /\ stopped \in BOOLEAN
    /\ inbox \in [Agent -> Seq(Message)]
    /\ activity \in [Agent -> {"idle", "queued", "thinking"}]
    /\ batch \in [Agent -> Seq(Message)]
    /\ rounds \in [Agent -> 0..MaxRounds]
    /\ addressed \in [Agent -> SUBSET Agent]
    /\ outgoing \in [Agent -> SUBSET Message]
    /\ errands \in [Agent -> SUBSET (1..MostAtOnce)]
    /\ asked \in [Pair -> Nat] /\ replied \in [Pair -> Nat]

TurnInv == BillInv /\ RestTyped /\ Turns

LEMMA TurnTypes == TurnInv => TypeOK
<1> SUFFICES ASSUME TurnInv PROVE TypeOK
  OBVIOUS
<1>1. ready \subseteq Call
  BY Bounds DEF TurnInv, BillInv, Call
<1> QED
  BY <1>1 DEF TurnInv, BillInv, BudgetHolds, RestTyped, TypeOK

\* The hop a turn answers at, and whom.
LEMMA BatchRead ==
    ASSUME TurnInv, NEW a \in Agent, batch[a] # <<>>
    PROVE  InboundHop(a) \in 0..MaxHops /\ Asker(a) \subseteq Agent \cup {Human}
<1>1. batch[a] \in Seq(Message) /\ DOMAIN batch[a] = 1..Len(batch[a]) /\ Len(batch[a]) \in Nat \ {0}
  BY DEF TurnInv, RestTyped
<1>2. \A i \in DOMAIN batch[a] : batch[a][i] \in Message
  BY <1>1
<1>3. 1 \in DOMAIN batch[a] /\ batch[a][1] \in Message
  BY <1>1
<1> DEFINE hops == {batch[a][i].hop : i \in DOMAIN batch[a]}
<1>4. hops \in SUBSET (0..MaxHops)
  BY <1>2 DEF Message
<1>5. batch[a][1].hop \in hops
  BY <1>3
<1>6. Max(hops) \in hops
  BY <1>4, <1>5, CascadeAssumption, GreatestOfSet
<1>7. InboundHop(a) \in 0..MaxHops
  BY <1>4, <1>6 DEF InboundHop
<1>8. Asker(a) \subseteq Agent \cup {Human}
  BY <1>3 DEF Asker, Message
<1> QED
  BY <1>7, <1>8

\* Only the turn of a moves.
LEMMA OneTurn ==
    ASSUME TurnInv, NEW a \in Agent, TurnOf(a)',
           \A c \in Agent \ {a} : /\ pc'[c] = pc[c] /\ batch'[c] = batch[c]
                                  /\ rounds'[c] = rounds[c] /\ outgoing'[c] = outgoing[c]
    PROVE  Turns'
<1>1. ASSUME NEW c \in Agent, c # a
      PROVE  TurnOf(c)'
  <2>1. TurnOf(c)
    BY DEF TurnInv, Turns
  <2>2. Asker(c)' = Asker(c)
    BY <1>1 DEF Asker
  <2> QED
    BY <1>1, <2>1, <2>2 DEF TurnOf
<1> QED
  BY <1>1 DEF Turns

\* It goes from one place to another.
LEMMA PcMoves ==
    ASSUME TurnInv, NEW a \in Agent, NEW l \in Control, pc' = [pc EXCEPT ![a] = l],
           UNCHANGED <<batch, rounds, outgoing>>,
           l \notin {"idle", "resting", "queueing"} =>
              pc[a] \notin {"idle", "resting", "queueing"},
           l \in {"round", "claim", "calling"} => rounds[a] < MaxRounds,
           l # "answering"
    PROVE  Turns'
<1>1. TurnOf(a)'
  BY DEF TurnInv, BillInv, Turns, TurnOf
<1> QED
  BY <1>1, OneTurn DEF TurnInv, BillInv

LEMMA TurnsStill ==
    ASSUME TurnInv, UNCHANGED <<pc, batch, rounds, outgoing>>
    PROVE  Turns'
BY DEF TurnInv, Turns, TurnOf, Asker

-----------------------------------------------------------------------------
(* One step of the actor of a: what it holds keeps its type.                *)

LEMMA MovesKeepsTurns ==
    ASSUME TurnInv, NEW a \in Agent, NEW l \in Control, Moves(a, l),
           l \notin {"idle", "resting", "queueing"} =>
              pc[a] \notin {"idle", "resting", "queueing"},
           l \in {"round", "claim", "calling"} => rounds[a] < MaxRounds,
           l # "answering"
    PROVE  RestTyped' /\ Turns'
<1>1. RestTyped'
  BY DEF Moves, Rest, guard, sends, task, history, TurnInv, RestTyped
<1>2. Turns'
  BY PcMoves DEF Moves, Goto, Rest, task
<1> QED
  BY <1>1, <1>2

LEMMA ReadKeepsTurns ==
    ASSUME TurnInv, NEW a \in Agent, Read(a) \/ Expire(a)
    PROVE  RestTyped' /\ Turns'
<1>1. CASE Wake(a)
  <2>1. inbox[a] \in Seq(Message) /\ inbox[a] # <<>>
    BY <1>1 DEF Wake, TurnInv, RestTyped
  <2>2. Head(inbox[a]) \in Message /\ Tail(inbox[a]) \in Seq(Message)
    BY <2>1
  <2>3. /\ batch' = [batch EXCEPT ![a] = <<Head(inbox[a])>>]
        /\ inbox' = [inbox EXCEPT ![a] = Tail(inbox[a])]
        /\ \E l \in {"turn", "gather"} : pc' = [pc EXCEPT ![a] = l]
        /\ UNCHANGED <<guard, stopped, activity, rounds, addressed, outgoing, errands, history>>
    BY <1>1 DEF Wake, Goto
  <2>4. RestTyped'
    BY <2>2, <2>3 DEF TurnInv, RestTyped, guard, sends, history
  <2>5. TurnOf(a)'
    BY <2>3 DEF TurnInv, BillInv, RestTyped, Turns, TurnOf
  <2>6. Turns'
    BY <2>3, <2>5, OneTurn DEF TurnInv, BillInv, RestTyped
  <2> QED
    BY <2>4, <2>6
<1>2. CASE Gather(a)
  <2>1. inbox[a] \in Seq(Message) /\ inbox[a] # <<>> /\ batch[a] \in Seq(Message) /\ pc[a] = "gather"
    BY <1>2 DEF Gather, TurnInv, RestTyped
  <2>2. Head(inbox[a]) \in Message /\ Tail(inbox[a]) \in Seq(Message)
    BY <2>1
  <2>3. Append(batch[a], Head(inbox[a])) \in Seq(Message) \ {<<>>}
    BY <2>1, <2>2, AppendProperties
  <2>4. /\ batch' = [batch EXCEPT ![a] = Append(batch[a], Head(inbox[a]))]
        /\ inbox' = [inbox EXCEPT ![a] = Tail(inbox[a])]
        /\ UNCHANGED <<guard, stopped, activity, pc, rounds, addressed, outgoing, errands, history>>
    BY <1>2 DEF Gather
  <2>5. RestTyped'
    BY <2>2, <2>4, <2>3 DEF TurnInv, RestTyped, guard, sends, history
  <2>6. TurnOf(a)'
    BY <2>1, <2>4, <2>3 DEF TurnInv, BillInv, RestTyped, Turns, TurnOf
  <2>7. Turns'
    BY <2>4, <2>6, OneTurn DEF TurnInv, BillInv, RestTyped
  <2> QED
    BY <2>5, <2>7
<1>3. CASE Gathered(a)
  BY <1>3, MovesKeepsTurns DEF Gathered, Control
<1>4. CASE Listen(a) \/ GiveUp(a) \/ Expire(a)
  BY <1>4, MovesKeepsTurns DEF Listen, GiveUp, Expire, Control
<1> QED
  BY <1>1, <1>2, <1>3, <1>4 DEF Read

\* The steps of a round, from its top to its tool calls.
LEMMA RoundKeepsTurns ==
    ASSUME TurnInv, NEW a \in Agent,
           Start(a) \/ Round(a) \/ Claim(a) \/ Answered(a) \/ Dropped(a) \/ ToolsDone(a)
    PROVE  RestTyped' /\ Turns'
<1>0. MaxRounds \in Nat \ {0} /\ TurnOf(a)
  BY CascadeAssumption DEF TurnInv, Turns
<1>1. CASE Start(a)
  <2>1. CASE stopped \/ Left = 0
    <3>1. pc' = [pc EXCEPT ![a] = "finish"] /\ pc[a] = "turn"
          /\ UNCHANGED <<sends, stopped, inbox, activity, batch, rounds, addressed, outgoing,
                         errands, history>>
      BY <1>1, <2>1 DEF Start, Goto, guard
    <3>2. RestTyped'
      BY <3>1 DEF TurnInv, RestTyped, sends, history
    <3> QED
      BY <3>1, <3>2, PcMoves DEF Control
  <2>2. CASE ~(stopped \/ Left = 0)
    <3>1. /\ pc[a] = "turn" /\ pc' = [pc EXCEPT ![a] = "round"]
          /\ activity' = [activity EXCEPT ![a] = "thinking"]
          /\ rounds' = [rounds EXCEPT ![a] = 0]
          /\ addressed' = [addressed EXCEPT ![a] = {}]
          /\ UNCHANGED <<sends, stopped, inbox, batch, outgoing, errands, history>>
      BY <1>1, <2>2 DEF Start, Goto, Becomes, guard
    <3>2. RestTyped'
      BY <3>1, <1>0 DEF TurnInv, RestTyped, sends, history
    <3>3. TurnOf(a)'
      BY <3>1, <1>0 DEF TurnInv, BillInv, RestTyped, TurnOf
    <3> QED
      BY <3>1, <3>2, <3>3, OneTurn DEF TurnInv, BillInv, RestTyped
  <2> QED
    BY <2>1, <2>2
<1>2. CASE Round(a)
  BY <1>0, <1>2, MovesKeepsTurns DEF Round, TurnOf, Control
<1>3. CASE Claim(a)
  <2>1. /\ pc[a] = "claim" /\ Rest /\ UNCHANGED <<sends, stopped, inbox, activity>>
        /\ \E l \in {"calling", "close"} : pc' = [pc EXCEPT ![a] = l]
    BY <1>3 DEF Claim, Goto
  <2>2. RestTyped'
    BY <2>1 DEF Rest, sends, task, history, TurnInv, RestTyped
  <2> QED
    BY <1>0, <2>1, <2>2, PcMoves DEF Rest, task, TurnOf, Control
<1>4. CASE Answered(a)
  <2>1. /\ pc[a] = "calling" /\ rounds' = [rounds EXCEPT ![a] = rounds[a] + 1]
        /\ \E l \in {"tools", "close", "finish"} : pc' = [pc EXCEPT ![a] = l]
        /\ UNCHANGED <<sends, stopped, inbox, activity, batch, addressed, outgoing, errands, history>>
    BY <1>4 DEF Answered, Goto
  <2>2. rounds[a] \in 0..MaxRounds /\ rounds[a] + 1 \in 0..MaxRounds
    BY <1>0, <2>1 DEF TurnInv, RestTyped, TurnOf
  <2>3. RestTyped'
    BY <2>1, <2>2 DEF sends, history, TurnInv, RestTyped
  <2>4. TurnOf(a)'
    BY <1>0, <2>1 DEF TurnInv, BillInv, RestTyped, TurnOf
  <2> QED
    BY <2>1, <2>3, <2>4, OneTurn DEF TurnInv, BillInv, RestTyped
<1>5. CASE Dropped(a)
  <2>1. /\ pc[a] = "calling" /\ pc' = [pc EXCEPT ![a] = "finish"] /\ Rest
        /\ UNCHANGED <<sends, stopped, inbox, activity>>
    BY <1>5 DEF Dropped, Goto
  <2>2. RestTyped'
    BY <2>1 DEF Rest, sends, task, history, TurnInv, RestTyped
  <2> QED
    BY <2>1, <2>2, PcMoves DEF Rest, task, Control
<1>6. CASE ToolsDone(a)
  <2>1. /\ pc[a] = "tools"
        /\ \E l \in {"finish", "round", "close"} :
              Moves(a, l) /\ (l = "round" => rounds[a] < MaxRounds)
    BY <1>6 DEF ToolsDone
  <2> QED
    BY <2>1, MovesKeepsTurns DEF Control
<1> QED
  BY <1>1, <1>2, <1>3, <1>4, <1>5, <1>6

\* What the guard records of a send it allows.
LEMMA RecordKeepsSends ==
    ASSUME TurnInv, NEW a \in Agent, NEW b \in Agent, NEW t \in Text,
           MaxPair \in Nat, pairs[<<a, b>>] < MaxPair,
           pairs' = [pairs EXCEPT ![<<a, b>>] = pairs[<<a, b>>] + 1],
           prints' = prints \cup {<<a, b, t>>},
           expecting' \subseteq expecting
    PROVE  /\ pairs' \in [Pair -> 0..MaxPair] /\ prints' \subseteq Agent \X Agent \X Text
           /\ expecting' \subseteq Pair
<1>1. <<a, b>> \in Pair
  BY DEF Pair
<1>2. pairs \in [Pair -> 0..MaxPair]
  BY DEF TurnInv, RestTyped
<1>3. pairs[<<a, b>>] \in 0..MaxPair
  BY <1>1, <1>2
<1>4. pairs[<<a, b>>] + 1 \in 0..MaxPair
  BY <1>3
<1>5. pairs' \in [Pair -> 0..MaxPair]
  BY <1>1, <1>2, <1>4
<1>6. <<a, b, t>> \in Agent \X Agent \X Text
  OBVIOUS
<1>7. prints' \subseteq Agent \X Agent \X Text
  BY <1>6 DEF TurnInv, RestTyped
<1>8. expecting' \subseteq Pair
  BY DEF TurnInv, RestTyped
<1> QED
  BY <1>5, <1>7, <1>8

LEMMA SendKeepsTurns ==
    ASSUME TurnInv, NEW a \in Agent, NEW b \in Agent, NEW t \in Text, NEW work \in BOOLEAN,
           Send(a, b, t, work)
    PROVE  RestTyped' /\ Turns'
<1>1. pc[a] = "sending" /\ batch[a] # <<>> /\ work \in BOOLEAN
  BY CascadeAssumption DEF Send, TurnInv, Turns, TurnOf
<1>2. /\ InboundHop(a) \in 0..MaxHops /\ InboundHop(a) < MaxHops /\ MaxHops \in Nat
      /\ pairs[<<a, b>>] < MaxPair /\ MaxPair \in Nat
      /\ pairs' = [pairs EXCEPT ![<<a, b>>] = pairs[<<a, b>>] + 1]
      /\ prints' = prints \cup {<<a, b, t>>}
      /\ expecting' \subseteq expecting
  BY <1>1, BatchRead, CascadeAssumption DEF Send, Evaluate
<1>3. UNCHANGED <<stopped, inbox, activity, batch, rounds, addressed, errands, history>>
  BY DEF Send, task
<1>4. pairs' \in [Pair -> 0..MaxPair] /\ prints' \subseteq Agent \X Agent \X Text
      /\ expecting' \subseteq Pair
  BY <1>2, RecordKeepsSends
<1>5. CASE UNCHANGED <<outgoing, pc>>
  <2>1. RestTyped'
    BY <1>3, <1>4, <1>5 DEF TurnInv, RestTyped, history
  <2> QED
    BY <2>1, <1>3, <1>5, TurnsStill
<1>6. CASE ~UNCHANGED <<outgoing, pc>>
  <2> DEFINE m == [from |-> a, to |-> b, hop |-> InboundHop(a) + 1,
                   asks |-> ~HasWritten(b, a) \/ work]
  <2>1. outgoing' = [outgoing EXCEPT ![a] = {m}] /\ pc' = [pc EXCEPT ![a] = "posting"]
    BY <1>6 DEF Send, Goto
  <2>2. InboundHop(a) + 1 \in 0..MaxHops /\ (~HasWritten(b, a) \/ work) \in BOOLEAN
    BY <1>2
  <2>3. m \in Message /\ m.from = a /\ m.to = b
    BY <2>2 DEF Message
  <2> HIDE DEF m
  <2>4. RestTyped'
    BY <1>3, <1>4, <2>1, <2>3 DEF TurnInv, RestTyped, history
  <2>5. TurnOf(a)'
    BY <1>1, <1>3, <2>1, <2>3 DEF TurnInv, BillInv, RestTyped, TurnOf
  <2> QED
    BY <1>3, <2>1, <2>4, <2>5, OneTurn DEF TurnInv, BillInv, RestTyped
<1> QED
  BY <1>5, <1>6

LEMMA ReplyKeepsTurns ==
    ASSUME TurnInv, NEW a \in Agent, NEW t \in LastWords, Reply(a, t)
    PROVE  RestTyped' /\ Turns'
<1> t \in Text
  BY CascadeAssumption
<1>1. pc[a] = "reply" /\ batch[a] # <<>>
  BY DEF Reply, TurnInv, Turns, TurnOf
<1>2. PICK b \in (Asker(a) \cap Agent) \ addressed[a] :
         /\ Evaluate(a, b, t)
         /\ outgoing' = [outgoing EXCEPT ![a] = {Answer(a, b)}]
  BY DEF Reply
<1>3. /\ InboundHop(a) \in 0..MaxHops /\ InboundHop(a) < MaxHops /\ MaxHops \in Nat
      /\ pairs[<<a, b>>] < MaxPair /\ MaxPair \in Nat
      /\ pairs' = [pairs EXCEPT ![<<a, b>>] = pairs[<<a, b>>] + 1]
      /\ prints' = prints \cup {<<a, b, t>>}
      /\ expecting' \subseteq expecting
  BY <1>1, <1>2, BatchRead, CascadeAssumption DEF Evaluate
<1>4. /\ UNCHANGED <<stopped, inbox, activity, batch, rounds, addressed, errands, history>>
      /\ pc' = [pc EXCEPT ![a] = "answering"]
  BY DEF Reply, task, Goto
<1>5. pairs' \in [Pair -> 0..MaxPair] /\ prints' \subseteq Agent \X Agent \X Text
      /\ expecting' \subseteq Pair
  BY <1>2, <1>3, RecordKeepsSends
<1>6. Answer(a, b) \in Message /\ Answer(a, b).from = a /\ Answer(a, b).to = b /\ ~Answer(a, b).asks
  BY <1>2, <1>3 DEF Answer, Message
<1>7. RestTyped'
  BY <1>2, <1>4, <1>5, <1>6 DEF TurnInv, RestTyped, history
<1>8. TurnOf(a)'
  <2>1. outgoing'[a] = {Answer(a, b)} /\ Asker(a)' = Asker(a)
    BY <1>2, <1>4 DEF TurnInv, RestTyped, Asker
  <2> QED
    BY <1>1, <1>2, <1>4, <1>6, <2>1 DEF TurnInv, BillInv, RestTyped, TurnOf
<1> QED
  BY <1>2, <1>4, <1>7, <1>8, OneTurn DEF TurnInv, BillInv, RestTyped

\* A delivery, of a send or of an answer.
LEMMA PostKeepsTurns ==
    ASSUME TurnInv, NEW a \in Agent, Post(a) \/ PostReply(a)
    PROVE  RestTyped' /\ Turns'
<1>1. PICK m \in outgoing[a] : inbox' = [inbox EXCEPT ![m.to] = Append(@, m)]
  BY DEF Post, PostReply
<1>2. m \in Message /\ m.to \in Agent /\ <<a, m.to>> \in Pair
  BY DEF TurnInv, RestTyped, Turns, TurnOf, Pair
<1>3. Append(inbox[m.to], m) \in Seq(Message)
  BY <1>2 DEF TurnInv, RestTyped
<1>4. /\ pc[a] \in {"posting", "answering"}
      /\ \E l \in {"badging", "answered"} : pc' = [pc EXCEPT ![a] = l]
      /\ UNCHANGED <<sends, stopped, activity, batch, rounds, addressed, outgoing, errands>>
  BY DEF Post, PostReply, Goto, guard, task
<1>5. asked' \in [Pair -> Nat] /\ replied' \in [Pair -> Nat]
  <2>1. CASE Post(a)
    <3>1. PICK n \in outgoing[a] :
             asked' = IF n.asks THEN [asked EXCEPT ![<<a, n.to>>] = @ + 1] ELSE asked
      BY <2>1 DEF Post
    <3>2. <<a, n.to>> \in Pair /\ replied' = replied
      BY <2>1 DEF Post, TurnInv, Turns, TurnOf, Pair
    <3> QED
      BY <3>1, <3>2 DEF TurnInv, RestTyped
  <2>2. CASE PostReply(a)
    <3>1. PICK n \in outgoing[a] : replied' = [replied EXCEPT ![<<a, n.to>>] = @ + 1]
      BY <2>2 DEF PostReply
    <3>2. <<a, n.to>> \in Pair /\ asked' = asked
      BY <2>2 DEF PostReply, TurnInv, Turns, TurnOf, Pair
    <3> QED
      BY <3>1, <3>2 DEF TurnInv, RestTyped
  <2> QED
    BY <2>1, <2>2
<1>6. RestTyped'
  BY <1>1, <1>2, <1>3, <1>4, <1>5 DEF TurnInv, RestTyped, sends
<1>7. Turns'
  BY <1>4, PcMoves DEF Control
<1> QED
  BY <1>6, <1>7

LEMMA BadgeKeepsTurns ==
    ASSUME TurnInv, NEW a \in Agent, PostFails(a) \/ Badge(a) \/ Note(a)
    PROVE  RestTyped' /\ Turns'
<1>1. /\ pc[a] \in {"posting", "answering", "badging", "answered", "noting"}
      /\ \E l \in {"sending", "finish", "noting"} : pc' = [pc EXCEPT ![a] = l]
      /\ outgoing' = outgoing \/ outgoing' = [outgoing EXCEPT ![a] = {}]
      /\ UNCHANGED <<pairs, prints, stopped, inbox, batch, rounds, errands, history>>
  BY DEF PostFails, Badge, Note, Goto, guard, sends, task
<1>2. activity' \in [Agent -> {"idle", "queued", "thinking"}]
  <2>1. CASE Badge(a)
    BY <2>1 DEF Badge, Becomes, TurnInv, RestTyped
  <2>2. CASE PostFails(a) \/ Note(a)
    BY <2>2 DEF PostFails, Note, TurnInv, RestTyped
  <2> QED
    BY <2>1, <2>2
<1>3. expecting' \subseteq Pair /\ addressed' \in [Agent -> SUBSET Agent]
  <2>1. CASE Note(a)
    <3>1. PICK m \in outgoing[a] :
            /\ expecting' = IF m.asks THEN expecting \cup {<<a, m.to>>} ELSE expecting
            /\ addressed' = [addressed EXCEPT ![a] = @ \cup {m.to}]
      BY <2>1 DEF Note
    <3>2. m.to \in Agent
      BY DEF TurnInv, Turns, TurnOf
    <3> QED
      BY <3>1, <3>2 DEF TurnInv, RestTyped, Pair
  <2>2. CASE PostFails(a) \/ Badge(a)
    BY <2>2 DEF PostFails, Badge, guard, sends, task, TurnInv, RestTyped
  <2> QED
    BY <2>1, <2>2
<1>4. RestTyped'
  BY <1>1, <1>2, <1>3 DEF TurnInv, RestTyped, history
<1>5. TurnOf(a)'
  BY <1>1 DEF TurnInv, BillInv, RestTyped, Turns, TurnOf
<1> QED
  BY <1>1, <1>4, <1>5, OneTurn DEF TurnInv, BillInv, RestTyped

LEMMA EndKeepsTurns ==
    ASSUME TurnInv, NEW a \in Agent,
           SendErrands(a) \/ ErrandsBack(a) \/ SendTool(a) \/ Sent(a) \/ Close(a) \/ Silent(a)
           \/ Finish(a) \/ Idle(a)
    PROVE  RestTyped' /\ Turns'
<1>1. CASE SendErrands(a)
  <2>1. /\ pc[a] = "tools" /\ pc' = [pc EXCEPT ![a] = "errands"]
        /\ \E n \in 1..MostAtOnce : errands' = [errands EXCEPT ![a] = 1..n]
        /\ UNCHANGED <<sends, stopped, inbox, activity, batch, rounds, addressed, outgoing, history>>
    BY <1>1 DEF SendErrands, Goto, guard, task
  <2>2. \A n \in 1..MostAtOnce : 1..n \subseteq 1..MostAtOnce
    BY Bounds
  <2>3. RestTyped'
    BY <2>1, <2>2 DEF TurnInv, RestTyped, sends, history
  <2> QED
    BY <2>1, <2>3, PcMoves DEF Control
<1>2. CASE ErrandsBack(a) \/ SendTool(a) \/ Sent(a) \/ Close(a) \/ Silent(a)
  <2>1. /\ pc[a] \notin {"idle", "resting", "queueing"}
        /\ \E l \in {"tools", "sending", "finish", "reply"} : Moves(a, l)
    BY <1>2 DEF ErrandsBack, SendTool, Sent, Close, Silent
  <2> QED
    BY <2>1, MovesKeepsTurns DEF Control
<1>3. CASE Finish(a)
  <2>1. /\ \E l \in {"resting", "queueing"} : pc' = [pc EXCEPT ![a] = l]
        /\ batch' = [batch EXCEPT ![a] = <<>>] /\ pc[a] = "finish"
        /\ UNCHANGED <<sends, stopped, inbox, activity, rounds, addressed, outgoing, errands, history>>
    BY <1>3 DEF Finish, Goto, guard
  <2>2. RestTyped'
    BY <2>1 DEF TurnInv, RestTyped, sends, history
  <2>3. TurnOf(a)'
    BY <2>1 DEF TurnInv, BillInv, RestTyped, Turns, TurnOf
  <2> QED
    BY <2>1, <2>2, <2>3, OneTurn DEF TurnInv, BillInv, RestTyped
<1>4. CASE Idle(a)
  <2>1. /\ pc' = [pc EXCEPT ![a] = "idle"]
        /\ \E x \in {"idle", "queued"} : activity' = [activity EXCEPT ![a] = x]
        /\ UNCHANGED <<sends, stopped, inbox, batch, rounds, addressed, outgoing, errands, history>>
    BY <1>4 DEF Idle, Goto, Becomes, Rest, guard, task
  <2>2. RestTyped'
    BY <2>1 DEF TurnInv, RestTyped, sends, history
  <2> QED
    BY <2>1, <2>2, PcMoves DEF Control
<1> QED
  BY <1>1, <1>2, <1>3, <1>4

LEMMA ErrandKeepsTurns ==
    ASSUME TurnInv, NEW a \in Agent, NEW i \in 1..MostAtOnce, ErrandStep(a, i)
    PROVE  RestTyped' /\ Turns'
<1>1. /\ errands' = errands \/ errands' = [errands EXCEPT ![a] = errands[a] \ {i}]
      /\ UNCHANGED <<sends, stopped, inbox, activity, pc, batch, rounds, addressed, outgoing, history>>
  BY DEF ErrandStep, ErrandRound, ErrandClaim, ErrandAnswered, ErrandDropped, guard, task
<1>2. RestTyped'
  BY <1>1 DEF TurnInv, RestTyped, sends, history
<1> QED
  BY <1>1, <1>2, TurnsStill

LEMMA StepKeepsTurns == TurnInv /\ [Next]_vars => TurnInv'
<1> SUFFICES ASSUME TurnInv, [Next]_vars PROVE TurnInv'
  OBVIOUS
<1>1. BillInv'
  BY StepKeepsBill DEF TurnInv
<1>2. CASE StopRun
  <2>1. UNCHANGED <<sends, inbox, activity, pc, batch, rounds, addressed, outgoing, errands, history>>
        /\ stopped' = TRUE
    BY <1>2 DEF StopRun, Rest, guard, task
  <2>2. RestTyped'
    BY <2>1 DEF TurnInv, RestTyped, sends, history
  <2> QED
    BY <1>1, <2>1, <2>2, TurnsStill DEF TurnInv
<1>3. CASE UNCHANGED vars
  <2>1. UNCHANGED <<pairs, prints, expecting, stopped, inbox, activity, pc, batch, rounds,
                    addressed, outgoing, errands, asked, replied>>
    BY <1>3 DEF vars, guard, sends, task, history
  <2> QED
    BY <1>1, <2>1, TurnsStill DEF TurnInv, RestTyped
<1>4. ASSUME NEW a \in Agent, Turn(a)
      PROVE  RestTyped' /\ Turns'
  BY <1>4, RoundKeepsTurns, SendKeepsTurns, ReplyKeepsTurns, PostKeepsTurns, BadgeKeepsTurns,
     EndKeepsTurns DEF Turn
<1> QED
  BY <1>1, <1>2, <1>3, <1>4, ReadKeepsTurns, ErrandKeepsTurns DEF Next, TurnInv

LEMMA InitTurns == Init => TurnInv
<1> SUFFICES ASSUME Init PROVE TurnInv
  OBVIOUS
<1>1. BillInv
  BY InitBill
<1>2. [from |-> Human, to |-> First, hop |-> 0, asks |-> TRUE] \in Message
  BY CascadeAssumption DEF Message
<1> DEFINE m == [from |-> Human, to |-> First, hop |-> 0, asks |-> TRUE]
<1> HIDE DEF m
<1>3. <<m>> \in Seq(Message) /\ <<>> \in Seq(Message)
  BY <1>2 DEF m
<1>4. inbox = [a \in Agent |-> IF a = First THEN <<m>> ELSE <<>>]
  BY DEF Init, m
<1>5. inbox \in [Agent -> Seq(Message)]
  BY <1>3, <1>4
<1>6. MaxPair \in Nat /\ MaxRounds \in Nat /\ First \in Agent
  BY CascadeAssumption
<1>7. pairs \in [Pair -> 0..MaxPair] /\ rounds \in [Agent -> 0..MaxRounds]
  <2>1. 0 \in 0..MaxPair /\ 0 \in 0..MaxRounds
    BY <1>6
  <2> QED
    BY <2>1 DEF Init
<1>8. prints \subseteq Agent \X Agent \X Text /\ expecting \subseteq Pair
  BY DEF Init
<1>9. batch \in [Agent -> Seq(Message)]
  BY <1>3 DEF Init
<1>10. /\ activity \in [Agent -> {"idle", "queued", "thinking"}] /\ stopped \in BOOLEAN
       /\ addressed \in [Agent -> SUBSET Agent] /\ outgoing \in [Agent -> SUBSET Message]
       /\ errands \in [Agent -> SUBSET (1..MostAtOnce)]
  BY DEF Init
<1>11. asked \in [Pair -> Nat] /\ replied \in [Pair -> Nat]
  BY DEF Init
<1>12. RestTyped
  BY <1>5, <1>7, <1>8, <1>9, <1>10, <1>11 DEF RestTyped
<1>13. Turns
  BY DEF Init, Turns, TurnOf
<1> QED
  BY <1>1, <1>12, <1>13 DEF TurnInv

(* What a turn holds, reads and has said stays what the guard allows: hops,   *)
(* pairs and rounds never pass their limits (evaluate, run_turn), whatever    *)
(* turns of other agents, errands and a stop do in between.                   *)
THEOREM CascadeTypes == Spec => []TypeOK
<1>1. Spec => []TurnInv
  BY InitTurns, StepKeepsTurns, PTL DEF Spec
<1> QED
  BY <1>1, TurnTypes, PTL

-----------------------------------------------------------------------------
(* Answers and asks.                                                        *)

\* The places of a turn that has not delivered its answer.
Unanswered == Control \ {"idle", "answered", "finish", "resting", "queueing"}

\* The ask of b the turn of a has read and not answered.
Facing(a, b) == IF pc[a] \in Unanswered /\ b \in Asker(a) THEN 1 ELSE 0

\* An ask is answered, or in front of the turn that read it, or in the inbox:
\* at most one of them.
AsksCovered ==
    \A a, b \in Agent :
        replied[<<a, b>>] + Cardinality(AsksOf(inbox[a], b)) + Facing(a, b) <= asked[<<b, a>>]

AnswerInv == TurnInv /\ AsksCovered

\* The counts are numbers.
LEMMA CountsTyped ==
    ASSUME TurnInv, NEW a \in Agent, NEW b \in Agent
    PROVE  /\ replied[<<a, b>>] \in Nat /\ asked[<<b, a>>] \in Nat
           /\ Cardinality(AsksOf(inbox[a], b)) \in Nat /\ Facing(a, b) \in {0, 1}
<1>1. <<a, b>> \in Pair /\ <<b, a>> \in Pair
  BY DEF Pair
<1>2. inbox[a] \in Seq(Message)
  BY DEF TurnInv, RestTyped
<1>3. Cardinality(AsksOf(inbox[a], b)) \in Nat
  BY <1>2, AsksFinite
<1> QED
  BY <1>1, <1>3 DEF TurnInv, RestTyped, Facing

\* A step that delivers and reads nothing, and brings no turn back to an ask.
Quiet ==
    /\ UNCHANGED <<inbox, asked, replied>>
    /\ \A c \in Agent : pc'[c] \in Unanswered =>
                           pc[c] \in Unanswered /\ batch'[c] = batch[c]

LEMMA QuietKeepsAsks ==
    ASSUME AnswerInv, TurnInv', Quiet
    PROVE  AsksCovered'
<1> SUFFICES ASSUME NEW a \in Agent, NEW b \in Agent
             PROVE  replied'[<<a, b>>] + Cardinality(AsksOf(inbox'[a], b)) + Facing(a, b)'
                      <= asked'[<<b, a>>]
  BY DEF AsksCovered, AsksOf
<1>1. /\ replied[<<a, b>>] \in Nat /\ asked[<<b, a>>] \in Nat
      /\ Cardinality(AsksOf(inbox[a], b)) \in Nat /\ Facing(a, b) \in {0, 1}
  BY CountsTyped DEF AnswerInv
<1>2. Facing(a, b)' \in {0, 1} /\ (Facing(a, b)' = 1 => Facing(a, b) = 1)
  BY DEF Quiet, Facing, Asker
<1>3. replied[<<a, b>>] + Cardinality(AsksOf(inbox[a], b)) + Facing(a, b) <= asked[<<b, a>>]
  BY DEF AnswerInv, AsksCovered
<1>4. inbox' = inbox /\ asked' = asked /\ replied' = replied
  BY DEF Quiet
<1> QED
  BY <1>1, <1>2, <1>3, <1>4

\* A turn that goes on, anywhere but back to an ask.
LEMMA MovesQuietly ==
    ASSUME TurnInv, NEW a \in Agent, NEW l \in Control, pc' = [pc EXCEPT ![a] = l],
           l \in Unanswered => pc[a] \in Unanswered,
           UNCHANGED <<batch, inbox, asked, replied>>
    PROVE  Quiet
<1>1. pc \in [Agent -> Control]
  BY DEF TurnInv, BillInv
<1> QED
  BY <1>1 DEF Quiet

\* The head of the inbox is taken and put in front of the turn ...
LEMMA WakeKeepsAsks ==
    ASSUME AnswerInv, NEW a \in Agent, Wake(a)
    PROVE  AsksCovered'
<1>0. TurnInv
  BY DEF AnswerInv
<1>1. inbox[a] \in Seq(Message) /\ inbox[a] # <<>> /\ pc[a] = "idle" /\ pc \in [Agent -> Control]
      /\ batch \in [Agent -> Seq(Message)] /\ inbox \in [Agent -> Seq(Message)]
  BY <1>0 DEF Wake, TurnInv, BillInv, RestTyped
<1>2. /\ batch' = [batch EXCEPT ![a] = <<Head(inbox[a])>>]
      /\ inbox' = [inbox EXCEPT ![a] = Tail(inbox[a])]
      /\ \E l \in {"turn", "gather"} : pc' = [pc EXCEPT ![a] = l]
      /\ asked' = asked /\ replied' = replied
  BY DEF Wake, Goto, history
<1> SUFFICES ASSUME NEW c \in Agent, NEW b \in Agent
             PROVE  replied'[<<c, b>>] + Cardinality(AsksOf(inbox'[c], b)) + Facing(c, b)'
                      <= asked'[<<b, c>>]
  BY DEF AsksCovered, AsksOf
<1>3. /\ replied[<<c, b>>] \in Nat /\ asked[<<b, c>>] \in Nat
      /\ Cardinality(AsksOf(inbox[c], b)) \in Nat /\ Facing(c, b) \in {0, 1}
  BY <1>0, CountsTyped
<1>4. replied[<<c, b>>] + Cardinality(AsksOf(inbox[c], b)) + Facing(c, b) <= asked[<<b, c>>]
  BY DEF AnswerInv, AsksCovered
<1>5. CASE c # a
  <2>1. inbox'[c] = inbox[c] /\ Facing(c, b)' = Facing(c, b)
    BY <1>1, <1>2, <1>5 DEF Facing, Asker
  <2> QED
    BY <1>2, <1>4, <2>1
<1>6. CASE c = a
  <2>1. inbox'[a] = Tail(inbox[a]) /\ batch'[a][1] = Head(inbox[a])
    BY <1>1, <1>2
  <2>2. Facing(a, b) = 0
    BY <1>1 DEF Facing, Unanswered
  <2>3. Facing(a, b)' = IF Head(inbox[a]).asks /\ Head(inbox[a]).from = b THEN 1 ELSE 0
    BY <1>1, <1>2, <2>1 DEF Facing, Asker, Unanswered, Control
  <2>4. Cardinality(AsksOf(inbox[a], b)) = Cardinality(AsksOf(Tail(inbox[a]), b))
                 + (IF Head(inbox[a]).asks /\ Head(inbox[a]).from = b THEN 1 ELSE 0)
        /\ Tail(inbox[a]) \in Seq(Message)
    BY <1>1, AskIsTaken
  <2>5. Cardinality(AsksOf(Tail(inbox[a]), b)) \in Nat
    BY <2>4, AsksFinite
  <2> QED
    BY <1>2, <1>3, <1>4, <1>6, <2>1, <2>2, <2>3, <2>4, <2>5
<1> QED
  BY <1>5, <1>6

\* ... and what is read beside it asks nothing.
LEMMA GatherKeepsAsks ==
    ASSUME AnswerInv, NEW a \in Agent, Gather(a)
    PROVE  AsksCovered'
<1>0. TurnInv
  BY DEF AnswerInv
<1>1. inbox[a] \in Seq(Message) /\ inbox[a] # <<>> /\ pc[a] = "gather"
      /\ batch \in [Agent -> Seq(Message)] /\ inbox \in [Agent -> Seq(Message)]
      /\ batch[a] # <<>> /\ ~Head(inbox[a]).asks
  BY <1>0 DEF Gather, TurnInv, BillInv, RestTyped, Turns, TurnOf
<1>2. /\ batch' = [batch EXCEPT ![a] = Append(batch[a], Head(inbox[a]))]
      /\ inbox' = [inbox EXCEPT ![a] = Tail(inbox[a])]
      /\ pc' = pc /\ asked' = asked /\ replied' = replied
  BY DEF Gather, history
<1>3. batch[a] \in Seq(Message) /\ Len(batch[a]) \in Nat \ {0} /\ Head(inbox[a]) \in Message
  BY <1>1
<1>4. Append(batch[a], Head(inbox[a]))[1] = batch[a][1]
  BY <1>3
<1> SUFFICES ASSUME NEW c \in Agent, NEW b \in Agent
             PROVE  replied'[<<c, b>>] + Cardinality(AsksOf(inbox'[c], b)) + Facing(c, b)'
                      <= asked'[<<b, c>>]
  BY DEF AsksCovered, AsksOf
<1>5. replied[<<c, b>>] + Cardinality(AsksOf(inbox[c], b)) + Facing(c, b) <= asked[<<b, c>>]
  BY DEF AnswerInv, AsksCovered
<1>6. Facing(c, b)' = Facing(c, b)
  BY <1>1, <1>2, <1>4 DEF Facing, Asker
<1>7. CASE c # a
  BY <1>1, <1>2, <1>5, <1>6, <1>7
<1>8. CASE c = a
  <2>1. inbox'[a] = Tail(inbox[a])
    BY <1>1, <1>2
  <2>2. Cardinality(AsksOf(inbox[a], b)) = Cardinality(AsksOf(Tail(inbox[a]), b)) + 0
        /\ Tail(inbox[a]) \in Seq(Message)
    BY <1>1, AskIsTaken
  <2>3. Cardinality(AsksOf(Tail(inbox[a]), b)) \in Nat
    BY <2>2, AsksFinite
  <2> QED
    BY <1>2, <1>5, <1>6, <1>8, <2>1, <2>2, <2>3
<1> QED
  BY <1>7, <1>8

\* An ask delivered is an ask asked.
LEMMA PostKeepsAsks ==
    ASSUME AnswerInv, NEW a \in Agent, Post(a)
    PROVE  AsksCovered'
<1>0. TurnInv
  BY DEF AnswerInv
<1>1. PICK m \in outgoing[a] :
         /\ inbox' = [inbox EXCEPT ![m.to] = Append(@, m)]
         /\ asked' = IF m.asks THEN [asked EXCEPT ![<<a, m.to>>] = @ + 1] ELSE asked
  BY DEF Post
<1>2. m \in Message /\ m.from = a /\ m.to \in Agent /\ <<a, m.to>> \in Pair
      /\ inbox \in [Agent -> Seq(Message)] /\ asked \in [Pair -> Nat] /\ pc \in [Agent -> Control]
  BY <1>0 DEF TurnInv, BillInv, RestTyped, Turns, TurnOf, Pair
<1>3. pc[a] = "posting" /\ pc' = [pc EXCEPT ![a] = "badging"] /\ batch' = batch
      /\ replied' = replied
  BY DEF Post, Goto, task
<1> SUFFICES ASSUME NEW c \in Agent, NEW b \in Agent
             PROVE  replied'[<<c, b>>] + Cardinality(AsksOf(inbox'[c], b)) + Facing(c, b)'
                      <= asked'[<<b, c>>]
  BY DEF AsksCovered, AsksOf
<1>4. /\ replied[<<c, b>>] \in Nat /\ asked[<<b, c>>] \in Nat
      /\ Cardinality(AsksOf(inbox[c], b)) \in Nat /\ Facing(c, b) \in {0, 1}
  BY <1>0, CountsTyped
<1>5. replied[<<c, b>>] + Cardinality(AsksOf(inbox[c], b)) + Facing(c, b) <= asked[<<b, c>>]
  BY DEF AnswerInv, AsksCovered
<1>6. Facing(c, b)' = Facing(c, b)
  BY <1>2, <1>3 DEF Facing, Asker, Unanswered, Control
<1>7. Cardinality(AsksOf(inbox'[c], b)) =
        Cardinality(AsksOf(inbox[c], b)) + (IF c = m.to /\ m.asks /\ b = a THEN 1 ELSE 0)
  <2>1. CASE c = m.to
    <3>1. inbox'[c] = Append(inbox[c], m) /\ inbox[c] \in Seq(Message)
      BY <1>1, <1>2, <2>1
    <3>2. Cardinality(AsksOf(Append(inbox[c], m), b)) =
            Cardinality(AsksOf(inbox[c], b)) + (IF m.asks /\ m.from = b THEN 1 ELSE 0)
      BY <1>2, <3>1, AskArrives
    <3> QED
      BY <1>2, <2>1, <3>1, <3>2
  <2>2. CASE c # m.to
    <3>1. inbox'[c] = inbox[c]
      BY <1>1, <1>2, <2>2
    <3> QED
      BY <1>4, <2>2, <3>1
  <2> QED
    BY <2>1, <2>2
<1>8. asked'[<<b, c>>] = asked[<<b, c>>] + (IF c = m.to /\ m.asks /\ b = a THEN 1 ELSE 0)
  <2>1. <<b, c>> \in Pair
    BY DEF Pair
  <2>2. CASE m.asks /\ c = m.to /\ b = a
    BY <1>1, <1>2, <2>1, <2>2
  <2>3. CASE ~(m.asks /\ c = m.to /\ b = a)
    <3>1. asked'[<<b, c>>] = asked[<<b, c>>]
      BY <1>1, <1>2, <2>1, <2>3
    <3> QED
      BY <1>4, <2>3, <3>1
  <2> QED
    BY <2>2, <2>3
<1> QED
  BY <1>3, <1>4, <1>5, <1>6, <1>7, <1>8

\* An answer delivered answers the ask in front of the turn, and asks nothing.
LEMMA AnswerKeepsAsks ==
    ASSUME AnswerInv, NEW a \in Agent, PostReply(a)
    PROVE  AsksCovered'
<1>0. TurnInv
  BY DEF AnswerInv
<1>1. PICK m \in outgoing[a] :
         /\ inbox' = [inbox EXCEPT ![m.to] = Append(@, m)]
         /\ replied' = [replied EXCEPT ![<<a, m.to>>] = @ + 1]
  BY DEF PostReply
<1>2. pc[a] = "answering" /\ pc' = [pc EXCEPT ![a] = "answered"] /\ batch' = batch
      /\ asked' = asked
  BY DEF PostReply, Goto, task
<1>3. m \in Message /\ m.to \in Agent /\ <<a, m.to>> \in Pair /\ m.to \in Asker(a) /\ ~m.asks
      /\ inbox \in [Agent -> Seq(Message)] /\ replied \in [Pair -> Nat] /\ pc \in [Agent -> Control]
  BY <1>0, <1>2 DEF TurnInv, BillInv, RestTyped, Turns, TurnOf, Pair
<1> SUFFICES ASSUME NEW c \in Agent, NEW b \in Agent
             PROVE  replied'[<<c, b>>] + Cardinality(AsksOf(inbox'[c], b)) + Facing(c, b)'
                      <= asked'[<<b, c>>]
  BY DEF AsksCovered, AsksOf
<1>4. /\ replied[<<c, b>>] \in Nat /\ asked[<<b, c>>] \in Nat
      /\ Cardinality(AsksOf(inbox[c], b)) \in Nat /\ Facing(c, b) \in {0, 1}
  BY <1>0, CountsTyped
<1>5. replied[<<c, b>>] + Cardinality(AsksOf(inbox[c], b)) + Facing(c, b) <= asked[<<b, c>>]
  BY DEF AnswerInv, AsksCovered
<1>6. Cardinality(AsksOf(inbox'[c], b)) = Cardinality(AsksOf(inbox[c], b))
  <2>1. CASE c = m.to
    <3>1. inbox'[c] = Append(inbox[c], m) /\ inbox[c] \in Seq(Message)
      BY <1>1, <1>3, <2>1
    <3>2. Cardinality(AsksOf(Append(inbox[c], m), b)) = Cardinality(AsksOf(inbox[c], b)) + 0
      BY <1>3, <3>1, AskArrives
    <3> QED
      BY <1>4, <3>1, <3>2
  <2>2. CASE c # m.to
    BY <1>1, <1>3, <2>2
  <2> QED
    BY <2>1, <2>2
<1>7. CASE c = a /\ b = m.to
  <2>1. Facing(a, b) = 1 /\ Facing(a, b)' = 0
    BY <1>2, <1>3, <1>7 DEF Facing, Unanswered, Control
  <2>2. replied'[<<a, b>>] = replied[<<a, b>>] + 1
    BY <1>1, <1>3, <1>7
  <2> QED
    BY <1>2, <1>4, <1>5, <1>6, <1>7, <2>1, <2>2
<1>8. CASE ~(c = a /\ b = m.to)
  <2>1. Facing(c, b)' \in {0, 1} /\ (Facing(c, b)' = 1 => Facing(c, b) = 1)
    BY <1>2, <1>3 DEF Facing, Asker, Unanswered, Control
  <2>2. replied'[<<c, b>>] = replied[<<c, b>>]
    <3>1. <<c, b>> \in Pair /\ <<c, b>> # <<a, m.to>>
      BY <1>8 DEF Pair
    <3> QED
      BY <1>1, <1>3, <3>1
  <2> QED
    BY <1>2, <1>4, <1>5, <1>6, <2>1, <2>2
<1> QED
  BY <1>7, <1>8

\* Nothing else in a turn delivers or reads.
LEMMA TurnIsQuiet ==
    ASSUME TurnInv, NEW a \in Agent, Turn(a), ~Post(a), ~PostReply(a)
    PROVE  Quiet
<1>1. CASE Start(a) \/ Round(a) \/ Claim(a) \/ Answered(a) \/ Dropped(a) \/ ToolsDone(a)
  <2>1. /\ pc[a] \in {"turn", "round", "claim", "calling", "tools"}
        /\ \E l \in {"finish", "round", "claim", "calling", "close", "tools"} :
              pc' = [pc EXCEPT ![a] = l]
        /\ UNCHANGED <<batch, inbox, asked, replied>>
    BY <1>1 DEF Start, Round, Claim, Answered, Dropped, ToolsDone, Moves, Goto, Rest, task, history
  <2> QED
    BY <2>1, MovesQuietly DEF Unanswered, Control
<1>2. CASE SendTool(a) \/ Sent(a) \/ SendErrands(a) \/ ErrandsBack(a) \/ Close(a) \/ Silent(a)
  <2>1. /\ pc[a] \in {"tools", "sending", "errands", "close", "reply"}
        /\ \E l \in {"sending", "tools", "errands", "finish", "reply"} :
              pc' = [pc EXCEPT ![a] = l]
        /\ UNCHANGED <<batch, inbox, asked, replied>>
    BY <1>2 DEF SendTool, Sent, SendErrands, ErrandsBack, Close, Silent, Moves, Goto, Rest, task,
                history
  <2> QED
    BY <2>1, MovesQuietly DEF Unanswered, Control
<1>3. CASE \E b \in Agent, t \in Text, work \in BOOLEAN : Send(a, b, t, work)
  <2>1. /\ pc[a] = "sending"
        /\ pc' = pc \/ pc' = [pc EXCEPT ![a] = "posting"]
        /\ UNCHANGED <<batch, inbox, asked, replied>>
    BY <1>3 DEF Send, Goto, task, history
  <2>2. CASE pc' = pc
    BY <2>1, <2>2 DEF Quiet
  <2> QED
    BY <2>1, <2>2, MovesQuietly DEF Unanswered, Control
<1>4. CASE PostFails(a) \/ Badge(a) \/ Note(a) \/ \E t \in LastWords : Reply(a, t)
  <2>1. /\ \E l \in {"sending", "finish", "noting", "answering"} :
              pc' = [pc EXCEPT ![a] = l] /\ (l # "finish" => pc[a] \in Unanswered)
        /\ UNCHANGED <<batch, inbox, asked, replied>>
    BY <1>4 DEF PostFails, Badge, Note, Reply, Goto, task, history, Unanswered, Control
  <2> QED
    BY <2>1, MovesQuietly DEF Unanswered, Control
<1>5. CASE Finish(a) \/ Idle(a)
  <2>1. /\ \E l \in {"resting", "queueing", "idle"} : pc' = [pc EXCEPT ![a] = l]
        /\ batch' = batch \/ batch' = [batch EXCEPT ![a] = <<>>]
        /\ UNCHANGED <<inbox, asked, replied>>
    BY <1>5 DEF Finish, Idle, Goto, Rest, task, history
  <2> QED
    BY <2>1 DEF Quiet, Unanswered, TurnInv, BillInv, RestTyped
<1> QED
  BY <1>1, <1>2, <1>3, <1>4, <1>5 DEF Turn

LEMMA StepKeepsAsks == AnswerInv /\ [Next]_vars => AnswerInv'
<1> SUFFICES ASSUME AnswerInv, [Next]_vars PROVE AnswerInv'
  OBVIOUS
<1>1. TurnInv /\ TurnInv'
  BY StepKeepsTurns DEF AnswerInv
<1>2. CASE StopRun
  <2>1. Quiet
    BY <1>2 DEF StopRun, Rest, task, history, Quiet
  <2> QED
    BY <1>1, <2>1, QuietKeepsAsks DEF AnswerInv
<1>3. CASE UNCHANGED vars
  <2>1. Quiet
    BY <1>3 DEF vars, task, history, Quiet
  <2> QED
    BY <1>1, <2>1, QuietKeepsAsks DEF AnswerInv
<1>4. ASSUME NEW a \in Agent, Read(a) \/ Expire(a)
      PROVE  AsksCovered'
  <2>1. CASE Wake(a) \/ Gather(a)
    BY <2>1, WakeKeepsAsks, GatherKeepsAsks
  <2>2. CASE ~(Wake(a) \/ Gather(a))
    <3>1. /\ pc[a] \in {"gather", "listen"}
          /\ \E l \in {"gather", "listen", "turn"} : pc' = [pc EXCEPT ![a] = l]
          /\ UNCHANGED <<batch, inbox, asked, replied>>
      BY <1>4, <2>2 DEF Read, Gathered, Listen, GiveUp, Expire, Moves, Goto, Rest, task, history
    <3>2. Quiet
      BY <1>1, <3>1, MovesQuietly DEF Unanswered, Control
    <3> QED
      BY <1>1, <3>2, QuietKeepsAsks
  <2> QED
    BY <2>1, <2>2
<1>5. ASSUME NEW a \in Agent, Turn(a)
      PROVE  AsksCovered'
  BY <1>1, <1>5, PostKeepsAsks, AnswerKeepsAsks, TurnIsQuiet, QuietKeepsAsks
<1>6. ASSUME NEW a \in Agent, NEW i \in 1..MostAtOnce, ErrandStep(a, i)
      PROVE  AsksCovered'
  <2>1. Quiet
    BY <1>6 DEF ErrandStep, ErrandRound, ErrandClaim, ErrandAnswered, ErrandDropped, task, history,
                Quiet
  <2> QED
    BY <1>1, <2>1, QuietKeepsAsks
<1> QED
  BY <1>1, <1>2, <1>3, <1>4, <1>5, <1>6 DEF Next, AnswerInv

\* The operator's message is no agent's ask.
LEMMA InitAsks == Init => AnswerInv
<1> SUFFICES ASSUME Init PROVE AnswerInv
  OBVIOUS
<1>1. TurnInv
  BY InitTurns
<1> SUFFICES ASSUME NEW a \in Agent, NEW b \in Agent
             PROVE  replied[<<a, b>>] + Cardinality(AsksOf(inbox[a], b)) + Facing(a, b)
                      <= asked[<<b, a>>]
  BY <1>1 DEF AnswerInv, AsksCovered
<1>2. replied[<<a, b>>] = 0 /\ asked[<<b, a>>] = 0
  BY DEF Init, Pair
<1>3. Facing(a, b) = 0
  BY DEF Init, Facing, Unanswered
<1>4. AsksOf(inbox[a], b) = {}
  <2>1. CASE a = First
    <3>1. inbox[a] = <<[from |-> Human, to |-> a, hop |-> 0, asks |-> TRUE]>>
      BY <2>1 DEF Init
    <3>2. \A i \in DOMAIN inbox[a] : inbox[a][i].from = Human
      BY <3>1
    <3> QED
      BY <3>2, CascadeAssumption DEF AsksOf
  <2>2. CASE a # First
    <3>1. inbox[a] = <<>>
      BY <2>2 DEF Init
    <3> QED
      BY <3>1 DEF AsksOf
  <2> QED
    BY <2>1, <2>2
<1> QED
  BY <1>2, <1>3, <1>4, FS_EmptySet

(* emit_reply: an automatic answer goes only to a peer that asked, once for  *)
(* each time it asked, so two agents never answer each other's answers -- in *)
(* any group, however their turns, a stop and a failing store interleave.    *)
THEOREM AnswersMatchAsks == Spec => []RepliesAnswerAsks
<1>1. Spec => []AnswerInv
  BY InitAsks, StepKeepsAsks, PTL DEF Spec
<1>2. AnswerInv => RepliesAnswerAsks
  <2> SUFFICES ASSUME AnswerInv, NEW a \in Agent, NEW b \in Agent
               PROVE  replied[<<a, b>>] <= asked[<<b, a>>]
    BY DEF RepliesAnswerAsks
  <2>1. /\ replied[<<a, b>>] \in Nat /\ asked[<<b, a>>] \in Nat
        /\ Cardinality(AsksOf(inbox[a], b)) \in Nat /\ Facing(a, b) \in {0, 1}
    BY CountsTyped DEF AnswerInv
  <2>2. replied[<<a, b>>] + Cardinality(AsksOf(inbox[a], b)) + Facing(a, b) <= asked[<<b, a>>]
    BY DEF AnswerInv, AsksCovered
  <2> QED
    BY <2>1, <2>2
<1> QED
  BY <1>1, <1>2, PTL
=============================================================================
