-------------------------- MODULE ApprovalsProofs ---------------------------
(* What a turn makes of a request is what the operator's row says, and no    *)
(* wake-up is lost, for every set of agents, conversations and requests.     *)
EXTENDS Approvals, TLAPS

\* A turn is on a request it has no verdict for, whose row is written from when it
\* asks; it comes back to a row that is settled.
Held ==
    \A a \in Agent : pc[a] # "free" =>
        /\ result[asking[a]] = "none"
        /\ (pc[a] = "calling" <=> row[asking[a]] = "none")
        /\ (pc[a] = "back" => asking[a] \in failed \/ row[asking[a]] # "pending")

\* A waker is held, or has been sent, from the moment a turn looks for a stop.
Wakeable ==
    \A a \in Agent : pc[a] \in {"armed", "parked"} => asking[a] \in waiting \cup woken

\* Whoever settled the row of a turn that is not back yet wakes it, or did, or came
\* before its waker was held.
Heard ==
    \A a \in Agent :
        pc[a] \in {"asked", "armed", "parked"} /\ row[asking[a]] # "pending"
            => asking[a] \in settled \cup woken \cup missed

\* A waker is sent after its row has moved; a sweep reads the rows of stopped runs.
Sent ==
    /\ \A k \in settled \cup woken : row[k] \notin {"none", "pending"}
    /\ \A k \in todo : Within[k] \in stopped /\ row[k] # "none"

ParkInv == TypeOK /\ Held /\ Wakeable /\ Sent /\ Heard /\ NoDeadButtons /\ VerdictIsTheRow

-----------------------------------------------------------------------------
\* The request a turn is on is one of its own agent's.
LEMMA Mine ==
    ASSUME TypeOK, NEW a \in Agent, pc[a] # "free"
    PROVE  asking[a] \in Request /\ By[asking[a]] = a
BY DEF TypeOK

LEMMA Nobody ==
    ASSUME TypeOK, NEW a \in Agent, pc[a] = "free"
    PROVE  asking[a] = Nothing
BY DEF TypeOK

\* A pending row has no verdict yet: it may move, and no other row does.
LEMMA MovedKeepsVerdicts ==
    ASSUME ParkInv, NEW k \in Request, NEW s, row[k] = "pending",
           row' = [row EXCEPT ![k] = s], result' = result, failed' = failed
    PROVE  VerdictIsTheRow'
<1>0. \A j \in Request \ {k} : row'[j] = row[j]
  BY DEF ParkInv, TypeOK
<1>1. CASE k \in failed
  BY <1>0, <1>1 DEF ParkInv, VerdictIsTheRow, Word
<1>2. CASE k \notin failed
  <2>1. result[k] = "none"
    <3>1. asking[By[k]] = k /\ By[k] \in Agent
      BY <1>2, ApprovalsAssumption DEF ParkInv, NoDeadButtons
    <3>2. pc[By[k]] # "free"
      BY <3>1, Nobody, ApprovalsAssumption DEF ParkInv
    <3> QED
      BY <3>1, <3>2 DEF ParkInv, Held
  <2> QED
    BY <1>0, <1>2, <2>1 DEF ParkInv, VerdictIsTheRow, Word
<1> QED
  BY <1>1, <1>2

LEMMA InitParks == Init => ParkInv
<1> SUFFICES ASSUME Init PROVE ParkInv
  OBVIOUS
<1>1. TypeOK
  BY DEF Init, TypeOK, States, Results
<1>2. Held /\ Wakeable /\ Sent /\ Heard
  BY DEF Init, Held, Wakeable, Sent, Heard
<1>3. NoDeadButtons /\ VerdictIsTheRow
  BY DEF Init, NoDeadButtons, VerdictIsTheRow
<1> QED
  BY <1>1, <1>2, <1>3 DEF ParkInv

-----------------------------------------------------------------------------
(* One lemma per step: a conjunct of the invariant at a time.               *)

LEMMA SetOutParks ==
    ASSUME ParkInv, NEW k \in Request, SetOut(k)
    PROVE  ParkInv'
<1>1. TypeOK'
  BY ApprovalsAssumption DEF ParkInv, SetOut, Goto, wakers, stops, TypeOK
<1>2. Held'
  BY ApprovalsAssumption, SMTT(20) DEF ParkInv, SetOut, Goto, Held, TypeOK
<1>3. Wakeable'
  BY DEF ParkInv, SetOut, Goto, wakers, Wakeable, TypeOK
<1>4. Sent'
  BY DEF ParkInv, SetOut, wakers, stops, Sent, TypeOK
<1>5. Heard'
  BY DEF ParkInv, SetOut, Goto, wakers, Heard, TypeOK
<1>6. NoDeadButtons'
  BY ApprovalsAssumption, Nobody DEF ParkInv, SetOut, NoDeadButtons, TypeOK
<1>7. VerdictIsTheRow'
  BY DEF ParkInv, SetOut, VerdictIsTheRow
<1> QED
  BY <1>1, <1>2, <1>3, <1>4, <1>5, <1>6, <1>7 DEF ParkInv

LEMMA AskParks ==
    ASSUME ParkInv, NEW a \in Agent, Ask(a)
    PROVE  ParkInv'
<1>1. asking[a] \in Request /\ By[asking[a]] = a /\ pc[a] = "calling"
  BY Mine DEF ParkInv, Ask
<1>2. row[asking[a]] = "none" /\ result[asking[a]] = "none"
  BY <1>1 DEF ParkInv, Held
<1>3. CASE StandingGrant(asking[a])
  <2>1. /\ result' = [result EXCEPT ![asking[a]] = "granted"]
        /\ asking' = [asking EXCEPT ![a] = Nothing]
        /\ pc' = [pc EXCEPT ![a] = "free"]
        /\ missed' = missed \ {asking[a]}
        /\ UNCHANGED <<row, waiting, woken, settled, stopped, todo, sweeps, failed>>
    BY <1>3 DEF Ask, Ends, Goto, stops
  <2>2. TypeOK'
    BY <1>1, <2>1 DEF ParkInv, TypeOK, Results
  <2>3. Held' /\ Wakeable'
    BY <1>1, <2>1, Mine DEF ParkInv, Held, Wakeable, TypeOK
  <2>4. Sent' /\ Heard'
    BY <1>1, <2>1, Mine DEF ParkInv, Sent, Heard, TypeOK
  <2>5. NoDeadButtons'
    BY <1>1, <1>2, <2>1 DEF ParkInv, NoDeadButtons, TypeOK
  <2>6. VerdictIsTheRow'
    <3>1. For[asking[a]] \in Stands /\ result'[asking[a]] = "granted"
      BY <1>1, <1>3, <2>1 DEF ParkInv, TypeOK, StandingGrant
    <3>2. \A k \in Request \ {asking[a]} : result'[k] = result[k]
      BY <2>1 DEF ParkInv, TypeOK
    <3> QED
      BY <1>2, <2>1, <3>1, <3>2, Zenon DEF ParkInv, VerdictIsTheRow, Word
  <2> QED
    BY <2>2, <2>3, <2>4, <2>5, <2>6 DEF ParkInv
<1>4. CASE ~StandingGrant(asking[a])
  <2>1. /\ row' = [row EXCEPT ![asking[a]] = "pending"]
        /\ pc' = [pc EXCEPT ![a] = "asked"]
        /\ UNCHANGED <<waiting, woken, settled, missed, asking, result, stopped, todo, sweeps,
                       failed>>
    BY <1>4 DEF Ask, Goto, wakers, stops
  <2>2. TypeOK'
    BY <1>1, <2>1 DEF ParkInv, TypeOK, States
  <2>3. Held' /\ Wakeable'
    BY <1>1, <1>2, <2>1, Mine DEF ParkInv, Held, Wakeable, TypeOK
  <2>4. Sent' /\ Heard'
    BY <1>1, <1>2, <2>1, Mine DEF ParkInv, Sent, Heard, TypeOK
  <2>5. NoDeadButtons'
    BY <1>1, <2>1 DEF ParkInv, NoDeadButtons, TypeOK
  <2>6. VerdictIsTheRow'
    BY <1>1, <1>2, <2>1 DEF ParkInv, VerdictIsTheRow, TypeOK
  <2> QED
    BY <2>2, <2>3, <2>4, <2>5, <2>6 DEF ParkInv
<1> QED
  BY <1>3, <1>4

LEMMA ArmParks ==
    ASSUME ParkInv, NEW a \in Agent, Arm(a)
    PROVE  ParkInv'
<1>1. TypeOK'
  BY DEF ParkInv, Arm, Goto, stops, TypeOK
<1>2. Held'
  BY SMTT(20) DEF ParkInv, Arm, Goto, stops, Held
<1>3. Wakeable'
  BY DEF ParkInv, Arm, Goto, Wakeable
<1>4. Sent'
  BY DEF ParkInv, Arm, stops, Sent
<1>5. Heard'
  BY Mine DEF ParkInv, Arm, Goto, Heard
<1>6. NoDeadButtons'
  BY DEF ParkInv, Arm, NoDeadButtons
<1>7. VerdictIsTheRow'
  BY DEF ParkInv, Arm, VerdictIsTheRow
<1> QED
  BY <1>1, <1>2, <1>3, <1>4, <1>5, <1>6, <1>7 DEF ParkInv

LEMMA LookParks ==
    ASSUME ParkInv, NEW a \in Agent, Look(a)
    PROVE  ParkInv'
<1>1. TypeOK'
  <2>1. asking[a] \in Request
    BY Mine DEF ParkInv, Look
  <2>2. /\ row' \in [Request -> States] /\ failed' \subseteq Request /\ missed' \subseteq Request
        /\ result' \in [Request -> Results]
    BY <2>1 DEF ParkInv, Look, Expire, Settle, Ends, TypeOK, States, Results
  <2>3. /\ pc' \in [Agent -> {"free", "calling", "asked", "armed", "parked", "late", "back"}]
        /\ asking' \in [Agent -> Request \cup {Nothing}]
        /\ \A b \in Agent : IF pc'[b] = "free" THEN asking'[b] = Nothing
                                               ELSE asking'[b] \in {k \in Request : By[k] = b}
    BY DEF ParkInv, Look, Goto, Ends, TypeOK
  <2> QED
    BY <2>2, <2>3 DEF ParkInv, Look, stops, TypeOK
<1>2. Held'
  BY SMTT(20) DEF ParkInv, Look, Goto, Ends, Expire, Settle, stops, Held, TypeOK
<1>3. Wakeable'
  BY DEF ParkInv, Look, Goto, Ends, Wakeable, TypeOK
<1>4. Sent'
  BY DEF ParkInv, Look, Expire, Settle, stops, Sent, TypeOK
<1>5. Heard'
  BY Mine DEF ParkInv, Look, Goto, Ends, Expire, Settle, Heard, TypeOK, Held
<1>6. NoDeadButtons'
  BY ApprovalsAssumption DEF ParkInv, Look, Ends, Expire, Settle, NoDeadButtons, TypeOK
<1>7. VerdictIsTheRow'
  BY DEF ParkInv, Look, Ends, Expire, Settle, VerdictIsTheRow, TypeOK, Held, Word,
       States, Results
<1> QED
  BY <1>1, <1>2, <1>3, <1>4, <1>5, <1>6, <1>7 DEF ParkInv

LEMMA WakesParks ==
    ASSUME ParkInv, NEW a \in Agent, Wakes(a)
    PROVE  ParkInv'
<1>1. TypeOK'
  BY DEF ParkInv, Wakes, Goto, stops, TypeOK
<1>2. Held'
  BY SMTT(20) DEF ParkInv, Wakes, Goto, stops, Held, Sent
<1>3. Wakeable'
  BY DEF ParkInv, Wakes, Goto, Wakeable, TypeOK
<1>4. Sent'
  BY DEF ParkInv, Wakes, stops, Sent
<1>5. Heard'
  BY Mine DEF ParkInv, Wakes, Goto, Heard, TypeOK
<1>6. NoDeadButtons'
  BY DEF ParkInv, Wakes, NoDeadButtons
<1>7. VerdictIsTheRow'
  BY DEF ParkInv, Wakes, VerdictIsTheRow
<1> QED
  BY <1>1, <1>2, <1>3, <1>4, <1>5, <1>6, <1>7 DEF ParkInv

LEMMA WindowParks ==
    ASSUME ParkInv, NEW a \in Agent, Window(a)
    PROVE  ParkInv'
<1>1. TypeOK'
  BY DEF ParkInv, Window, Goto, stops, TypeOK
<1>2. Held'
  BY SMTT(20) DEF ParkInv, Window, Goto, stops, Held
<1>3. Wakeable'
  BY DEF ParkInv, Window, Goto, Wakeable, TypeOK
<1>4. Sent'
  BY DEF ParkInv, Window, stops, Sent
<1>5. Heard'
  BY Mine DEF ParkInv, Window, Goto, Heard
<1>6. NoDeadButtons'
  BY DEF ParkInv, Window, NoDeadButtons
<1>7. VerdictIsTheRow'
  BY DEF ParkInv, Window, VerdictIsTheRow
<1> QED
  BY <1>1, <1>2, <1>3, <1>4, <1>5, <1>6, <1>7 DEF ParkInv

LEMMA LateParks ==
    ASSUME ParkInv, NEW a \in Agent, Late(a)
    PROVE  ParkInv'
<1>1. TypeOK'
  BY ApprovalsAssumption DEF ParkInv, Late, Goto, Expire, Settle, wakers, stops, TypeOK,
       States, Results
<1>2. Held'
  BY SMTT(20) DEF ParkInv, Late, Goto, Expire, Settle, stops, Held, TypeOK
<1>3. Wakeable'
  BY DEF ParkInv, Late, Goto, wakers, Wakeable
<1>4. Sent'
  BY DEF ParkInv, Late, Expire, Settle, wakers, stops, Sent, TypeOK
<1>5. Heard'
  BY Mine DEF ParkInv, Late, Goto, Expire, Settle, wakers, Heard, TypeOK
<1>6. NoDeadButtons'
  BY DEF ParkInv, Late, Expire, Settle, NoDeadButtons, TypeOK
<1>7. VerdictIsTheRow'
  BY DEF ParkInv, Late, Expire, Settle, VerdictIsTheRow, TypeOK, Word, States, Results
<1> QED
  BY <1>1, <1>2, <1>3, <1>4, <1>5, <1>6, <1>7 DEF ParkInv

LEMMA BackParks ==
    ASSUME ParkInv, NEW a \in Agent, Back(a)
    PROVE  ParkInv'
<1>1. TypeOK'
  BY DEF ParkInv, Back, Goto, Ends, Word, wakers, stops, TypeOK, States, Results
<1>2. Held'
  BY SMTT(20) DEF ParkInv, Back, Goto, Ends, stops, Held, TypeOK
<1>3. Wakeable'
  BY DEF ParkInv, Back, Goto, Ends, wakers, Wakeable
<1>4. Sent'
  BY DEF ParkInv, Back, wakers, stops, Sent
<1>5. Heard'
  BY Mine DEF ParkInv, Back, Goto, Ends, wakers, Heard
<1>6. NoDeadButtons'
  BY DEF ParkInv, Back, Ends, NoDeadButtons, Held
<1>7. VerdictIsTheRow'
  <2>1. asking[a] \in Request /\ row' = row /\ failed' = failed
    BY Mine DEF ParkInv, Back
  <2>2. asking[a] \in failed \/ row[asking[a]] \notin {"none", "pending"}
    BY DEF ParkInv, Held, Back
  <2>3. result' = [result EXCEPT ![asking[a]] = Word(row[asking[a]])]
    BY DEF Back, Ends
  <2>4. /\ result'[asking[a]] = Word(row[asking[a]])
        /\ \A k \in Request \ {asking[a]} : result'[k] = result[k]
    BY <2>1, <2>3 DEF ParkInv, TypeOK
  <2>5. row[asking[a]] = "gone" => Word(row[asking[a]]) = "unanswered"
    BY DEF Word
  <2> QED
    BY <2>1, <2>2, <2>4, <2>5 DEF ParkInv, VerdictIsTheRow, Word
<1> QED
  BY <1>1, <1>2, <1>3, <1>4, <1>5, <1>6, <1>7 DEF ParkInv

LEMMA DecideParks ==
    ASSUME ParkInv, NEW k \in Request, NEW d \in {"allow", "always", "deny"}, Decide(k, d)
    PROVE  ParkInv'
<1>1. TypeOK'
  BY DEF ParkInv, Decide, Moves, Settle, turns, stops, TypeOK, States, Results
<1>2. Held'
  BY SMTT(20) DEF ParkInv, Decide, Moves, Settle, turns, stops, Held, TypeOK
<1>3. Wakeable'
  BY DEF ParkInv, Decide, turns, Wakeable
<1>4. Sent'
  BY DEF ParkInv, Decide, Moves, Settle, stops, Sent, TypeOK
<1>5. Heard'
  BY Mine DEF ParkInv, Decide, Moves, Settle, turns, Heard
<1>6. NoDeadButtons'
  BY DEF ParkInv, Decide, Moves, Settle, turns, NoDeadButtons
<1>7. VerdictIsTheRow'
  BY MovedKeepsVerdicts DEF Decide, Moves, Settle, turns
<1> QED
  BY <1>1, <1>2, <1>3, <1>4, <1>5, <1>6, <1>7 DEF ParkInv

LEMMA AnswerQuestionParks ==
    ASSUME ParkInv, NEW k \in Request, AnswerQuestion(k)
    PROVE  ParkInv'
<1>1. TypeOK'
  BY DEF ParkInv, AnswerQuestion, Moves, Settle, turns, stops, TypeOK, States, Results
<1>2. Held'
  BY SMTT(20) DEF ParkInv, AnswerQuestion, Moves, Settle, turns, stops, Held,
       TypeOK
<1>3. Wakeable'
  BY DEF ParkInv, AnswerQuestion, turns, Wakeable
<1>4. Sent'
  BY DEF ParkInv, AnswerQuestion, Moves, Settle, stops, Sent, TypeOK
<1>5. Heard'
  BY Mine DEF ParkInv, AnswerQuestion, Moves, Settle, turns, Heard
<1>6. NoDeadButtons'
  BY DEF ParkInv, AnswerQuestion, Moves, Settle, turns, NoDeadButtons
<1>7. VerdictIsTheRow'
  BY MovedKeepsVerdicts DEF AnswerQuestion, Moves, Settle, turns
<1> QED
  BY <1>1, <1>2, <1>3, <1>4, <1>5, <1>6, <1>7 DEF ParkInv

LEMMA WakeParks ==
    ASSUME ParkInv, NEW k \in Request, Wake(k)
    PROVE  ParkInv'
<1>1. TypeOK'
  BY DEF ParkInv, Wake, turns, stops, TypeOK
<1>2. Held'
  BY SMTT(20) DEF ParkInv, Wake, turns, stops, Held
<1>3. Wakeable'
  BY DEF ParkInv, Wake, turns, Wakeable
<1>4. Sent'
  BY DEF ParkInv, Wake, stops, Sent
<1>5. Heard'
  <2>1. UNCHANGED <<row, pc, asking>> /\ woken \subseteq woken' /\ missed \subseteq missed'
    BY DEF Wake, turns
  <2>2. settled' = settled \ {k}
    BY DEF Wake
  <2>3. ASSUME NEW a \in Agent, asking[a] = k, pc[a] \in {"asked", "armed", "parked"}
        PROVE  k \in woken' \cup missed'
    <3>1. By[k] = a
      BY <2>3, Mine DEF ParkInv
    <3>2. pc[a] = "asked" => k \in missed'
      BY <2>3, <3>1 DEF Wake, Unarmed
    <3>3. pc[a] # "asked" => k \in woken'
      BY <2>3 DEF ParkInv, Wakeable, Wake
    <3> QED
      BY <3>2, <3>3
  <2> QED
    BY <2>1, <2>2, <2>3 DEF ParkInv, Heard
<1>6. NoDeadButtons'
  BY DEF ParkInv, Wake, turns, NoDeadButtons
<1>7. VerdictIsTheRow'
  BY DEF ParkInv, Wake, turns, VerdictIsTheRow
<1> QED
  BY <1>1, <1>2, <1>3, <1>4, <1>5, <1>6, <1>7 DEF ParkInv

LEMMA RevokeParks ==
    ASSUME ParkInv, NEW a \in Agent, NEW x \in Action, Revoke(a, x)
    PROVE  ParkInv'
<1>1. TypeOK'
  BY DEF ParkInv, Revoke, turns, wakers, stops, TypeOK, States, Results
<1>2. Held'
  BY SMTT(20) DEF ParkInv, Revoke, turns, stops, Held, TypeOK
<1>3. Wakeable'
  BY DEF ParkInv, Revoke, turns, wakers, Wakeable
<1>4. Sent'
  BY DEF ParkInv, Revoke, wakers, stops, Sent, TypeOK
<1>5. Heard'
  BY Mine DEF ParkInv, Revoke, turns, wakers, Heard, TypeOK
<1>6. NoDeadButtons'
  BY DEF ParkInv, Revoke, turns, NoDeadButtons
<1>7. VerdictIsTheRow'
  BY DEF ParkInv, Revoke, turns, VerdictIsTheRow, Word
<1> QED
  BY <1>1, <1>2, <1>3, <1>4, <1>5, <1>6, <1>7 DEF ParkInv

LEMMA StopRunParks ==
    ASSUME ParkInv, NEW r \in Run, StopRun(r)
    PROVE  ParkInv'
<1>1. TypeOK'
  BY DEF ParkInv, StopRun, turns, wakers, TypeOK
<1>2. Held'
  BY SMTT(20) DEF ParkInv, StopRun, turns, Held
<1>3. Wakeable'
  BY DEF ParkInv, StopRun, turns, wakers, Wakeable
<1>4. Sent'
  BY DEF ParkInv, StopRun, wakers, Sent
<1>5. Heard'
  BY Mine DEF ParkInv, StopRun, turns, wakers, Heard
<1>6. NoDeadButtons'
  BY DEF ParkInv, StopRun, turns, NoDeadButtons
<1>7. VerdictIsTheRow'
  BY DEF ParkInv, StopRun, turns, VerdictIsTheRow
<1> QED
  BY <1>1, <1>2, <1>3, <1>4, <1>5, <1>6, <1>7 DEF ParkInv

LEMMA DrainParks ==
    ASSUME ParkInv, Drain
    PROVE  ParkInv'
<1>1. TypeOK'
  BY DEF ParkInv, Drain, turns, wakers, TypeOK
<1>2. Held'
  BY SMTT(20) DEF ParkInv, Drain, turns, Held, TypeOK
<1>3. Wakeable'
  BY DEF ParkInv, Drain, turns, wakers, Wakeable
<1>4. Sent'
  BY DEF ParkInv, Drain, wakers, Sent, TypeOK
<1>5. Heard'
  BY Mine DEF ParkInv, Drain, turns, wakers, Heard
<1>6. NoDeadButtons'
  BY DEF ParkInv, Drain, turns, NoDeadButtons
<1>7. VerdictIsTheRow'
  BY DEF ParkInv, Drain, turns, VerdictIsTheRow
<1> QED
  BY <1>1, <1>2, <1>3, <1>4, <1>5, <1>6, <1>7 DEF ParkInv

LEMMA SweepParks ==
    ASSUME ParkInv, NEW r \in Run, Sweep(r)
    PROVE  ParkInv'
<1>1. TypeOK'
  BY DEF ParkInv, Sweep, turns, wakers, TypeOK
<1>2. Held'
  BY SMTT(20) DEF ParkInv, Sweep, turns, Held
<1>3. Wakeable'
  BY DEF ParkInv, Sweep, turns, wakers, Wakeable
<1>4. Sent'
  BY DEF ParkInv, Sweep, wakers, Sent, TypeOK
<1>5. Heard'
  BY Mine DEF ParkInv, Sweep, turns, wakers, Heard
<1>6. NoDeadButtons'
  BY DEF ParkInv, Sweep, turns, NoDeadButtons
<1>7. VerdictIsTheRow'
  BY DEF ParkInv, Sweep, turns, VerdictIsTheRow
<1> QED
  BY <1>1, <1>2, <1>3, <1>4, <1>5, <1>6, <1>7 DEF ParkInv

LEMMA CloseParks ==
    ASSUME ParkInv, NEW k \in Request, Close(k)
    PROVE  ParkInv'
<1>1. TypeOK'
  BY DEF ParkInv, Close, Moves, Settle, turns, TypeOK, States, Results
<1>2. Held'
  BY SMTT(20) DEF ParkInv, Close, Moves, Settle, turns, Held, TypeOK, Sent
<1>3. Wakeable'
  BY DEF ParkInv, Close, turns, Wakeable
<1>4. Sent'
  BY DEF ParkInv, Close, Moves, Settle, Sent, TypeOK
<1>5. Heard'
  BY Mine DEF ParkInv, Close, Moves, Settle, turns, Heard, TypeOK
<1>6. NoDeadButtons'
  BY DEF ParkInv, Close, Moves, Settle, turns, NoDeadButtons, TypeOK
<1>7. VerdictIsTheRow'
  BY DEF ParkInv, Close, Moves, Settle, turns, VerdictIsTheRow, TypeOK, Word, States, Results
<1> QED
  BY <1>1, <1>2, <1>3, <1>4, <1>5, <1>6, <1>7 DEF ParkInv

LEMMA RestartParks ==
    ASSUME ParkInv, Restart
    PROVE  ParkInv'
<1>1. TypeOK'
  BY DEF ParkInv, Restart, TypeOK, States, Results
<1>2. Held'
  BY SMTT(20) DEF Restart, Held
<1>3. Wakeable'
  BY DEF Restart, Wakeable
<1>4. Sent'
  BY DEF Restart, Sent
<1>5. Heard'
  BY Mine DEF Restart, Heard
<1>6. NoDeadButtons'
  BY DEF Restart, NoDeadButtons
<1>7. VerdictIsTheRow'
  BY DEF ParkInv, Restart, VerdictIsTheRow, Word
<1> QED
  BY <1>1, <1>2, <1>3, <1>4, <1>5, <1>6, <1>7 DEF ParkInv

-----------------------------------------------------------------------------
LEMMA StepParks == ParkInv /\ [Next]_vars => ParkInv'
<1> SUFFICES ASSUME ParkInv, [Next]_vars PROVE ParkInv'
  OBVIOUS
<1>1. CASE UNCHANGED vars
  <2>1. TypeOK' /\ Held' /\ Wakeable' /\ Sent'
    BY <1>1 DEF vars, wakers, turns, stops, ParkInv, TypeOK, Held, Wakeable, Sent
  <2>2. Heard' /\ NoDeadButtons' /\ VerdictIsTheRow'
    BY <1>1 DEF vars, wakers, turns, stops, ParkInv, Heard, NoDeadButtons, VerdictIsTheRow
  <2> QED
    BY <2>1, <2>2 DEF ParkInv
<1>2. ASSUME NEW k \in Request, SetOut(k) \/ Wake(k) \/ Close(k) PROVE ParkInv'
  BY <1>2, SetOutParks, WakeParks, CloseParks
<1>3. ASSUME NEW a \in Agent, Park(a) \/ Window(a) PROVE ParkInv'
  BY <1>3, AskParks, ArmParks, LookParks, WakesParks, LateParks, BackParks, WindowParks DEF Park
<1>4. ASSUME NEW r \in Run, Sweep(r) PROVE ParkInv'
  BY <1>4, SweepParks
<1>5. CASE Operator
  BY <1>5, DecideParks, AnswerQuestionParks, RevokeParks, StopRunParks DEF Operator
<1>6. CASE Drain \/ Restart
  BY <1>6, DrainParks, RestartParks
<1> QED
  BY <1>1, <1>2, <1>3, <1>4, <1>5, <1>6 DEF Next

(* The invariant the others are read from: a turn holds one request of its    *)
(* own, its waker is kept from before the stop is looked for, and a waker is   *)
(* sent only once its row has moved.                                           *)
THEOREM ParkInvariant == Spec => []ParkInv
<1> QED
  BY InitParks, StepParks, PTL DEF Spec

(* "A button that visibly said allowed allowed it" (ask_permission): whoever   *)
(* came first, the operator, the window, a stop, a drain or a restart, a turn  *)
(* makes of a request what its row says, unless it was called off before it    *)
(* parked or the store failed to close that row.                               *)
THEOREM VerdictsAreRows == Spec => []VerdictIsTheRow
<1>1. ParkInv => VerdictIsTheRow
  BY DEF ParkInv
<1> QED
  BY <1>1, ParkInvariant, PTL

(* A turn that is parked on a request somebody has settled has been woken, or  *)
(* whoever settled it is about to (park, decide_approval, release_parked), or  *)
(* the answer came whole between the row and the waker of the turn.            *)
THEOREM WakesAreNotLost == Spec => []NoLostWake
<1>1. ParkInv => NoLostWake
  BY DEF ParkInv, Heard, NoLostWake
<1> QED
  BY <1>1, ParkInvariant, PTL

(* A pending row has a turn that will still read it, through every restart     *)
(* (expire_pending_approvals), unless the store failed to close that row.      *)
THEOREM ButtonsAreAlive == Spec => []NoDeadButtons
<1>1. ParkInv => NoDeadButtons
  BY DEF ParkInv
<1> QED
  BY <1>1, ParkInvariant, PTL

(* ask_permission, park and whoever answers, waits on a window, stops or     *)
(* restarts keep rows, results and who is parked within their types: in      *)
(* particular a turn is only ever on a request of its own agent.             *)
THEOREM ApprovalTypes == Spec => []TypeOK
<1>1. ParkInv => TypeOK
  BY DEF ParkInv
<1> QED
  BY <1>1, ParkInvariant, PTL
=============================================================================
