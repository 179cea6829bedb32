-------------------------- MODULE DecisionsProofs --------------------------
(* An answer goes with the question it was given to, in one conversation at  *)
(* a time, and a snooze is kept, for all questions, windows, runs and hours. *)
EXTENDS Decisions, WellFoundedInduction, TLAPS

Settled == Is("answered") \/ Is("completed")

\* What is on a screen is no newer than the row, and of one stamp the same question.
Stamped ==
    /\ row = None => \A w \in Window : seen[w] = None
    /\ Is("pending") => \A w \in Window : seen[w] # None =>
          /\ seen[w].updated_at <= row.updated_at
          /\ seen[w].updated_at = row.updated_at => seen[w].question = row.question

\* Nothing is carried before there is an answer, and then it is that answer.
Meant ==
    /\ ~Settled => \A r \in Run : carries[r] = None
    /\ Settled => meant # None

\* Runs are used in their order, and the row names the latest.
Latest ==
    /\ ~Settled => \A r \in Run : run[r] = "none"
    /\ Settled => row.run \in Run /\ \A r \in Run : run[r] # "none" <=> r <= row.run

\* What a host that is up, down or recovering can have in its hands.
Phases ==
    \A r \in Run :
        /\ up = "up" => run[r] \notin {"put", "held"}
        /\ up = "down" => run[r] \notin {"booked", "live", "held"}
        /\ up = "recovering" => run[r] \notin {"booked", "live", "put"}

\* A conversation that goes on is the latest or has strayed, and where the answer
\* may be resumed it has strayed.
Carriers ==
    Settled => \A r \in Run : run[r] \in Going =>
        /\ r = row.run \/ r \in strayed
        /\ Is("answered") /\ row.interrupted => r \in strayed

DecisionInv ==
    TypeOK /\ Stamped /\ Meant /\ Latest /\ Phases /\ Carriers /\ AnswerFits /\ BootAccounts /\ RemindersHold
-----------------------------------------------------------------------------
(* The hours: a least and a greatest, the next briefing and the reminder.   *)

LEMMA LeastOfSet ==
    ASSUME NEW S \in SUBSET Nat, S # {}
    PROVE  Least(S) \in S /\ \A y \in S : Least(S) <= y
<1>1. PICK x \in S : \A y \in S : ~(<<y, x>> \in OpToRel(<, Nat))
  BY NatLessThanWellFounded, WFMin
<1>2. \A y \in S : ~(<<y, x>> \in {ss \in Nat \X Nat : ss[1] < ss[2]})
  BY <1>1 DEF OpToRel
<1>3. \A y \in S : ~(y < x)
  BY <1>2
<1>4. \A y \in S : x <= y
  BY <1>3
<1> QED
  BY <1>4 DEF Least

LEMMA GreatestOfTwo ==
    ASSUME NEW a \in Nat, NEW b \in Nat
    PROVE  Greatest({a, b}) \in {a, b} /\ a <= Greatest({a, b}) /\ b <= Greatest({a, b})
<1>1. \E x \in {a, b} : \A y \in {a, b} : x >= y
  OBVIOUS
<1> QED
  BY DEF Greatest

LEMMA RoundsUp ==
    ASSUME NEW n \in Nat, NEW h \in Nat \ {0}
    PROVE  (n + h - (n % h)) % h = 0
BY SMTT(20)

LEMMA RemainderInRange ==
    ASSUME NEW n \in Nat, NEW h \in Nat \ {0}
    PROVE  n % h \in 0..h - 1
BY SMTT(20)

LEMMA RowTypes ==
    ASSUME TypeOK
    PROVE  /\ row # None => row \in Row
           /\ now \in 0..MaxNow /\ now \in 0..MaxStamp /\ now \in Time
           /\ 1..MaxNow \subseteq Time
BY DecisionsAssumption DEF TypeOK, Time

\* A briefing is at most half a day away.
LEMMA BriefingAhead ==
    ASSUME now \in 0..MaxNow
    PROVE  next_briefing \in Time /\ now < next_briefing
<1> DEFINE S == {t \in Time : t > now /\ t % Half = 0}
<1>0. now \in Nat /\ Half \in Nat \ {0}
  BY DecisionsAssumption
<1>1. PICK m \in 0..Half - 1 : (now + Half - m) % Half = 0
  <2>1. (now % Half) \in 0..Half - 1
    BY <1>0, RemainderInRange
  <2>2. (now + Half - (now % Half)) % Half = 0
    BY <1>0, RoundsUp
  <2> QED
    BY <2>1, <2>2, Zenon
<1> DEFINE b == now + Half - m
<1>2. b % Half = 0
  BY <1>1
<1>3. b \in Time /\ b > now
  BY DecisionsAssumption DEF Time
<1>4. S \in SUBSET Nat
  BY DEF Time
<1> HIDE DEF b
<1>5. Least(S) \in S
  BY <1>2, <1>3, <1>4, LeastOfSet
<1> QED
  BY <1>5 DEF next_briefing

\* A deadline still more than Lead away is reminded of before that.
LEMMA NextReminderInTime ==
    ASSUME now \in 0..MaxNow, NEW due \in Time \cup {None}
    PROVE  /\ next_reminder(due) \in Time /\ now < next_reminder(due)
           /\ due # None /\ now + Lead < due => next_reminder(due) + Lead <= due
<1> DEFINE D == IF due = None THEN {} ELSE {t \in now + 1..due : t + Lead = due}
           S == {next_briefing} \cup D
<1>1. D \in SUBSET Time /\ \A t \in D : now < t
  BY DecisionsAssumption DEF Time
<1>2. S \in SUBSET Time /\ S \in SUBSET Nat /\ S # {} /\ \A t \in S : now < t
  BY BriefingAhead, DecisionsAssumption DEF Time
<1>3. due # None /\ now + Lead < due => due - Lead \in S
  BY DecisionsAssumption DEF Time
<1> HIDE DEF S
<1>4. Least(S) \in S /\ \A y \in S : Least(S) <= y
  BY <1>2, LeastOfSet
<1>5. next_reminder(due) = Least(S)
  BY DEF next_reminder, S
<1>6. next_reminder(due) \in Time /\ now < next_reminder(due)
  BY <1>2, <1>4, <1>5
<1>7. ASSUME due # None, now + Lead < due PROVE next_reminder(due) + Lead <= due
  <2>1. next_reminder(due) <= due - Lead
    BY <1>3, <1>4, <1>5, <1>7
  <2> QED
    BY <2>1, <1>6, DecisionsAssumption DEF Time
<1> QED
  BY <1>6, <1>7

LEMMA ReminderInTime ==
    ASSUME now \in 0..MaxNow, NEW due \in Time \cup {None}
    PROVE  /\ Reminder(due) \in Time /\ now <= Reminder(due)
           /\ due # None /\ now + Lead < due => Reminder(due) + Lead <= due
BY BriefingAhead, NextReminderInTime, DecisionsAssumption DEF Reminder, Time


-----------------------------------------------------------------------------
(* One lemma per step: a conjunct of the invariant at a time.               *)

LEMMA RaiseKeeps ==
    ASSUME DecisionInv, NEW q \in Question, NEW due \in 1..MaxNow \cup {None}, Request(q, due), Raise(q, due)
    PROVE  DecisionInv'
<1>a. /\ up = "up" /\ row = None
      /\ row' = [question |-> q, due |-> due, status |-> "pending", updated_at |-> now,
                  remind_at |-> Reminder(due), snoozed |-> None, answer |-> None,
                  run |-> None, interrupted |-> FALSE]
      /\ UNCHANGED <<seen, run, carries, up, agent, inbox, now, stops, here, meant, strayed>>
  BY DEF Request, Raise, crew, histories
<1>b. /\ row' \in Row /\ row'.status = "pending" /\ row'.snoozed = None /\ row'.due = due
      /\ row'.remind_at = Reminder(due)
  BY <1>a, RowTypes, ReminderInTime DEF DecisionInv, Row, Status
<1>1. TypeOK'
  BY <1>a, <1>b DEF DecisionInv, TypeOK
<1>2. Stamped'
  BY <1>a DEF DecisionInv, Stamped
<1>3. Meant'
  BY <1>a DEF DecisionInv, Meant, Settled, Is
<1>4. Latest'
  BY <1>a DEF DecisionInv, Latest, Settled, Is
<1>5. Phases'
  BY <1>a DEF DecisionInv, Phases
<1>6. Carriers'
  BY <1>b DEF Carriers, Settled, Is
<1>7. AnswerFits'
  BY <1>a DEF DecisionInv, AnswerFits, Is
<1>8. BootAccounts'
  BY <1>b DEF BootAccounts, Is
<1>9. RemindersHold'
  BY <1>a, ReminderInTime, DecisionsAssumption DEF DecisionInv, TypeOK, RemindersHold, Time
<1> QED
  BY <1>1, <1>2, <1>3, <1>4, <1>5, <1>6, <1>7, <1>8, <1>9 DEF DecisionInv

LEMMA ReviseKeeps ==
    ASSUME DecisionInv, NEW q \in Question, NEW due \in 1..MaxNow \cup {None}, Request(q, due), Revise(q, due)
    PROVE  DecisionInv'
<1>a. /\ up = "up" /\ Is("pending")
      /\ row' = [row EXCEPT !.question = q, !.due = due, !.remind_at = Unsnoozed(due),
                         !.updated_at = Greatest({row.updated_at + 1, now})]
      /\ Greatest({row.updated_at + 1, now}) <= MaxStamp
      /\ UNCHANGED <<seen, run, carries, up, agent, inbox, now, stops, here, meant, strayed>>
  BY DEF Request, Revise, Revised, crew, histories
<1>c. /\ Unsnoozed(due) \in Time
      /\ row.snoozed # None => Unsnoozed(due) = row.remind_at
      /\ row.snoozed = None => Unsnoozed(due) \in {row.remind_at, Reminder(due)} /\ Unsnoozed(due) <= Reminder(due)
      /\ due # None /\ now + Lead < due => Reminder(due) + Lead <= due /\ Reminder(due) \in Time
  <2>1. row \in Row /\ now \in 0..MaxNow /\ due \in Time \cup {None}
    BY <1>a, DecisionsAssumption DEF DecisionInv, TypeOK, Is, Time
  <2>2. /\ Reminder(due) \in Time /\ now <= Reminder(due)
        /\ due # None /\ now + Lead < due => Reminder(due) + Lead <= due
    BY <2>1, ReminderInTime
  <2>3. row.remind_at \in Time /\ (row.snoozed # None => row.remind_at = row.snoozed)
    BY <1>a, <2>1 DEF DecisionInv, RemindersHold, Open, Row
  <2>4. {row.remind_at, Reminder(due)} \in SUBSET Nat
    BY <2>2, <2>3 DEF Time
  <2>5. /\ Sooner(due) \in {row.remind_at, Reminder(due)}
        /\ Sooner(due) <= row.remind_at /\ Sooner(due) <= Reminder(due)
    BY <2>4, LeastOfSet DEF Sooner
  <2>6. row.snoozed # None /\ ~(row.snoozed > now) => Sooner(due) = row.remind_at
    BY <2>1, <2>2, <2>3, <2>5 DEF Time
  <2> QED
    BY <2>2, <2>3, <2>5, <2>6 DEF Unsnoozed
<1>b. /\ row \in Row /\ row' \in Row /\ row'.status = row.status /\ row'.snoozed = row.snoozed /\ row'.due = due
      /\ row'.updated_at >= row.updated_at + 1
      /\ row'.remind_at = Unsnoozed(due)
  <2>1. row \in Row /\ row.updated_at \in Nat /\ now \in Nat
    BY <1>a, RowTypes DEF DecisionInv, Row, Is
  <2>2. /\ Greatest({row.updated_at + 1, now}) >= row.updated_at + 1
        /\ Greatest({row.updated_at + 1, now}) \in 0..MaxStamp
    <3>1. row.updated_at + 1 \in Nat
      BY <2>1
    <3>2. /\ Greatest({row.updated_at + 1, now}) \in Nat
          /\ row.updated_at + 1 <= Greatest({row.updated_at + 1, now})
      BY <2>1, GreatestOfTwo
    <3> QED
      BY <1>a, <3>2
  <2>3. due \in Time \cup {None}
    BY RowTypes DEF DecisionInv
  <2> QED
    BY <1>a, <1>c, <2>1, <2>2, <2>3 DEF Row
<1>1. TypeOK'
  BY <1>a, <1>b DEF DecisionInv, TypeOK
<1>2. Stamped'
  <2>1. row.updated_at \in Nat /\ row'.updated_at \in Nat
    BY <1>b DEF Row
  <2>2. \A w \in Window : seen[w] # None => seen[w].updated_at \in Nat
    BY DEF DecisionInv, TypeOK
  <2>3. \A w \in Window : seen[w] # None => seen[w].updated_at # row'.updated_at
                                            /\ seen[w].updated_at <= row'.updated_at
    BY <1>a, <1>b, <2>1, <2>2 DEF DecisionInv, Stamped
  <2> QED
    BY <1>a, <1>b, <2>3, NoneIsNoRow DEF Stamped
<1>3. Meant'
  BY <1>a DEF DecisionInv, Meant, Settled, Is
<1>4. Latest'
  BY <1>a DEF DecisionInv, Latest, Settled, Is
<1>5. Phases'
  BY <1>a DEF DecisionInv, Phases
<1>6. Carriers'
  BY <1>a DEF Carriers, Settled, Is
<1>7. AnswerFits'
  BY <1>a DEF DecisionInv, AnswerFits, Is
<1>8. BootAccounts'
  BY <1>a DEF BootAccounts, Is
<1>9. RemindersHold'
  <2>1. row.snoozed # None => row'.remind_at = row.snoozed
    BY <1>a, <1>c DEF DecisionInv, RemindersHold, Open
  <2>2. row.snoozed = None /\ due # None /\ now + Lead < due => row'.remind_at + Lead <= due
    BY <1>b, <1>c, DecisionsAssumption DEF Time
  <2> QED
    BY <1>a, <2>1, <2>2 DEF RemindersHold
<1> QED
  BY <1>1, <1>2, <1>3, <1>4, <1>5, <1>6, <1>7, <1>8, <1>9 DEF DecisionInv

LEMMA CompleteKeeps ==
    ASSUME DecisionInv, Complete
    PROVE  DecisionInv'
<1>a. /\ up = "up" /\ Is("answered")
      /\ row' = [row EXCEPT !.status = "completed", !.updated_at = now, !.snoozed = None]
      /\ UNCHANGED <<seen, run, carries, up, agent, inbox, now, stops, here, meant, strayed>>
  BY DEF Complete, Finish, crew, histories
<1>b. /\ row \in Row /\ row' \in Row /\ row'.status = "completed" /\ row'.run = row.run
      /\ row'.question = row.question /\ row'.answer = row.answer
  BY <1>a, RowTypes DEF DecisionInv, Row, Status, Is
<1>1. TypeOK'
  BY <1>a, <1>b DEF DecisionInv, TypeOK
<1>2. Stamped'
  BY <1>b, NoneIsNoRow DEF Stamped, Is
<1>3. Meant'
  BY <1>a, <1>b, NoneIsNoRow DEF DecisionInv, Meant, Settled, Is
<1>4. Latest'
  BY <1>a, <1>b, NoneIsNoRow DEF DecisionInv, Latest, Settled, Is
<1>5. Phases'
  BY <1>a DEF DecisionInv, Phases
<1>6. Carriers'
  BY <1>a DEF DecisionInv, Carriers, Settled
<1>7. AnswerFits'
  BY <1>a DEF DecisionInv, AnswerFits
<1>8. BootAccounts'
  BY <1>b DEF BootAccounts, Is
<1>9. RemindersHold'
  BY <1>a DEF RemindersHold, Is
<1> QED
  BY <1>1, <1>2, <1>3, <1>4, <1>5, <1>6, <1>7, <1>8, <1>9 DEF DecisionInv

LEMMA WithdrawKeeps ==
    ASSUME DecisionInv, Withdraw
    PROVE  DecisionInv'
<1>a. /\ up = "up" /\ Is("pending")
      /\ row' = [row EXCEPT !.status = "withdrawn", !.updated_at = now, !.snoozed = None]
      /\ UNCHANGED <<seen, run, carries, up, agent, inbox, now, stops, here, meant, strayed>>
  BY DEF Withdraw, Finish, crew, histories
<1>b. /\ row \in Row /\ row' \in Row /\ row'.status = "withdrawn" /\ row'.run = row.run
      /\ row'.question = row.question /\ row'.answer = row.answer
  BY <1>a, RowTypes DEF DecisionInv, Row, Status, Is
<1>1. TypeOK'
  BY <1>a, <1>b DEF DecisionInv, TypeOK
<1>2. Stamped'
  BY <1>b, NoneIsNoRow DEF Stamped, Is
<1>3. Meant'
  BY <1>a DEF DecisionInv, Meant, Settled, Is
<1>4. Latest'
  BY <1>a DEF DecisionInv, Latest, Settled, Is
<1>5. Phases'
  BY <1>a DEF DecisionInv, Phases
<1>6. Carriers'
  BY <1>b DEF Carriers, Settled, Is
<1>7. AnswerFits'
  BY <1>a DEF DecisionInv, AnswerFits, Is
<1>8. BootAccounts'
  BY <1>b DEF BootAccounts, Is
<1>9. RemindersHold'
  BY <1>a DEF RemindersHold, Is
<1> QED
  BY <1>1, <1>2, <1>3, <1>4, <1>5, <1>6, <1>7, <1>8, <1>9 DEF DecisionInv

LEMMA LookKeeps ==
    ASSUME DecisionInv, NEW w \in Window, Look(w)
    PROVE  DecisionInv'
<1>a. /\ row' = row /\ Is("pending") /\ up = "up"
      /\ seen' = [seen EXCEPT ![w] = [question |-> row.question, updated_at |-> row.updated_at]]
      /\ UNCHANGED <<run, carries, up, agent, inbox, now, stops, here, meant, strayed>>
  BY DEF Look, crew, histories
<1>1. TypeOK'
  <2>1. row.question \in Question /\ row.updated_at \in 0..MaxStamp
    BY <1>a, RowTypes DEF DecisionInv, Row, Is
  <2> QED
    BY <1>a, <2>1 DEF DecisionInv, TypeOK
<1>2. Stamped'
  BY <1>a DEF DecisionInv, TypeOK, Row, Stamped, Is
<1>3. Meant'
  BY <1>a DEF DecisionInv, Meant, Settled, Is
<1>4. Latest'
  BY <1>a DEF DecisionInv, Latest, Settled, Is
<1>5. Phases'
  BY <1>a DEF DecisionInv, Phases
<1>6. Carriers'
  BY <1>a DEF Carriers, Settled, Is
<1>7. AnswerFits'
  BY <1>a DEF DecisionInv, AnswerFits, Is
<1>8. BootAccounts'
  BY <1>a DEF BootAccounts, Is
<1>9. RemindersHold'
  BY <1>a DEF DecisionInv, RemindersHold, Open
<1> QED
  BY <1>1, <1>2, <1>3, <1>4, <1>5, <1>6, <1>7, <1>8, <1>9 DEF DecisionInv

LEMMA AnswerKeeps ==
    ASSUME DecisionInv, NEW w \in Window, NEW r \in Run, Answer(w, r)
    PROVE  DecisionInv'
<1>a. /\ up = "up" /\ Is("pending") /\ seen[w] # None /\ seen[w].updated_at = row.updated_at
      /\ meant' = [question |-> seen[w].question, answer |-> w]
      /\ row' = [row EXCEPT !.status = "answered", !.answer = w, !.updated_at = now,
                         !.snoozed = None, !.remind_at = next_briefing, !.run = r,
                         !.interrupted = FALSE]
      /\ run' = [run EXCEPT ![r] = "booked"] /\ here' = here \cup {r}
      /\ carries' = [carries EXCEPT ![r] = [question |-> row.question, answer |-> w]]
      /\ Fresh(r)
      /\ UNCHANGED <<seen, up, agent, inbox, now, stops, strayed>>
  BY DEF Answer, Accept, crew
<1>b. /\ row \in Row /\ row' \in Row /\ row'.status = "answered" /\ row'.run = r /\ ~row'.interrupted
      /\ row'.question = row.question /\ row'.answer = w /\ row'.snoozed = None
      /\ row'.due = row.due
  BY <1>a, RowTypes, BriefingAhead DEF DecisionInv, Row, Status, Is
<1>1. TypeOK'
  BY <1>a, <1>b DEF DecisionInv, TypeOK, Row, Carried
<1>2. Stamped'
  BY <1>b, NoneIsNoRow DEF Stamped, Is
<1>3. Meant'
  <2>1. meant' \in Carried
    BY <1>a DEF DecisionInv, TypeOK, Carried
  <2> QED
    BY <1>b, <2>1, NoneIsNoRow DEF Meant, Settled, Is
<1>4. Latest'
  BY <1>a, <1>b, NoneIsNoRow DEF DecisionInv, TypeOK, Latest, Settled, Is, Run, Fresh
<1>5. Phases'
  BY <1>a DEF DecisionInv, Phases
<1>6. Carriers'
  BY <1>a DEF DecisionInv, Carriers, Latest, Settled, Going, Is
<1>7. AnswerFits'
  <2>1. seen[w].question = row.question
    BY <1>a DEF DecisionInv, Stamped
  <2>2. \A q \in Run : carries[q] = None
    BY <1>a DEF DecisionInv, Meant, Settled, Is
  <2>3. carries'[r] = meant' /\ \A q \in Run \ {r} : carries'[q] = None
    BY <1>a, <2>1, <2>2 DEF DecisionInv, TypeOK
  <2> QED
    BY <1>a, <2>1, <2>3 DEF AnswerFits
<1>8. BootAccounts'
  BY <1>a DEF BootAccounts
<1>9. RemindersHold'
  BY <1>b DEF RemindersHold, Is
<1> QED
  BY <1>1, <1>2, <1>3, <1>4, <1>5, <1>6, <1>7, <1>8, <1>9 DEF DecisionInv

LEMMA ResumeKeeps ==
    ASSUME DecisionInv, NEW r \in Run, Resume(r)
    PROVE  DecisionInv'
<1>c. meant \in Carried /\ meant = [question |-> row.question, answer |-> row.answer]
  BY DEF DecisionInv, TypeOK, Meant, AnswerFits, Settled, Resume, Carried
<1>a. /\ up = "up" /\ Is("answered") /\ row.interrupted
      /\ row' = [row EXCEPT !.status = "answered", !.answer = row.answer, !.updated_at = now,
                         !.snoozed = None, !.remind_at = next_briefing, !.run = r,
                         !.interrupted = FALSE]
      /\ run' = [run EXCEPT ![r] = "booked"] /\ here' = here \cup {r}
      /\ carries' = [carries EXCEPT ![r] = [question |-> row.question, answer |-> row.answer]]
      /\ Fresh(r)
      /\ UNCHANGED <<seen, up, agent, inbox, now, stops, meant, strayed>>
  BY DEF Resume, Accept, crew
<1>b. /\ row \in Row /\ row' \in Row /\ row'.status = "answered" /\ row'.run = r /\ ~row'.interrupted
      /\ row'.question = row.question /\ row'.answer = row.answer /\ row'.snoozed = None
      /\ row'.due = row.due
  BY <1>a, RowTypes, BriefingAhead DEF DecisionInv, Row, Is
<1>1. TypeOK'
  BY <1>a, <1>b, <1>c DEF DecisionInv, TypeOK
<1>2. Stamped'
  BY <1>b, NoneIsNoRow DEF Stamped, Is
<1>3. Meant'
  BY <1>a, <1>b, NoneIsNoRow DEF DecisionInv, Meant, Settled, Is
<1>4. Latest'
  BY <1>a, <1>b, NoneIsNoRow DEF DecisionInv, TypeOK, Latest, Settled, Is, Run, Fresh
<1>5. Phases'
  BY <1>a DEF DecisionInv, Phases
<1>6. Carriers'
  BY <1>a DEF DecisionInv, Carriers, Settled
<1>7. AnswerFits'
  BY <1>a, <1>c DEF DecisionInv, AnswerFits
<1>8. BootAccounts'
  BY <1>a DEF BootAccounts
<1>9. RemindersHold'
  BY <1>b DEF RemindersHold, Is
<1> QED
  BY <1>1, <1>2, <1>3, <1>4, <1>5, <1>6, <1>7, <1>8, <1>9 DEF DecisionInv

LEMMA SnoozeKeeps ==
    ASSUME DecisionInv, NEW until \in 1..MaxNow, Snooze(until)
    PROVE  DecisionInv'
<1>a. /\ up = "up" /\ Open
      /\ row' = [row EXCEPT !.snoozed = until, !.remind_at = until]
      /\ UNCHANGED <<seen, run, carries, up, agent, inbox, now, stops, here, meant, strayed>>
  BY DEF Snooze, crew, histories
<1>b. /\ row \in Row /\ row' \in Row
      /\ row'.status = row.status /\ row'.run = row.run /\ row'.interrupted = row.interrupted
      /\ row'.question = row.question /\ row'.answer = row.answer /\ row'.updated_at = row.updated_at
      /\ row'.due = row.due /\ row'.snoozed = until /\ row'.remind_at = until
  BY <1>a, RowTypes DEF DecisionInv, Row, Open, Is
<1>1. TypeOK'
  BY <1>a, <1>b DEF DecisionInv, TypeOK
<1>2. Stamped'
  BY <1>a, <1>b, NoneIsNoRow DEF DecisionInv, Stamped, Is
<1>3. Meant'
  BY <1>a, <1>b, NoneIsNoRow DEF DecisionInv, Meant, Settled, Is
<1>4. Latest'
  BY <1>a, <1>b, NoneIsNoRow DEF DecisionInv, Latest, Settled, Is
<1>5. Phases'
  BY <1>a DEF DecisionInv, Phases
<1>6. Carriers'
  BY <1>a, <1>b, NoneIsNoRow DEF DecisionInv, Carriers, Settled, Is
<1>7. AnswerFits'
  BY <1>a, <1>b, NoneIsNoRow DEF DecisionInv, AnswerFits, Is
<1>8. BootAccounts'
  BY <1>a, <1>b, NoneIsNoRow DEF DecisionInv, BootAccounts, Is
<1>9. RemindersHold'
  BY <1>b, DecisionsAssumption DEF RemindersHold
<1> QED
  BY <1>1, <1>2, <1>3, <1>4, <1>5, <1>6, <1>7, <1>8, <1>9 DEF DecisionInv

LEMMA DeleteKeeps ==
    ASSUME DecisionInv, Delete
    PROVE  DecisionInv'
<1>a. /\ row' = row
      /\ agent' = FALSE
      /\ UNCHANGED <<seen, run, carries, up, inbox, now, stops, here, meant, strayed>>
  BY DEF Delete, histories
<1>1. TypeOK'
  BY <1>a DEF DecisionInv, TypeOK
<1>2. Stamped'
  BY <1>a DEF DecisionInv, Stamped, Is
<1>3. Meant'
  BY <1>a DEF DecisionInv, Meant, Settled, Is
<1>4. Latest'
  BY <1>a DEF DecisionInv, Latest, Settled, Is
<1>5. Phases'
  BY <1>a DEF DecisionInv, Phases
<1>6. Carriers'
  BY <1>a DEF DecisionInv, Carriers, Settled, Is
<1>7. AnswerFits'
  BY <1>a DEF DecisionInv, AnswerFits, Is
<1>8. BootAccounts'
  BY <1>a DEF DecisionInv, BootAccounts, Is
<1>9. RemindersHold'
  BY <1>a DEF DecisionInv, RemindersHold, Open, Is
<1> QED
  BY <1>1, <1>2, <1>3, <1>4, <1>5, <1>6, <1>7, <1>8, <1>9 DEF DecisionInv

LEMMA DropKeeps ==
    ASSUME DecisionInv, Drop
    PROVE  DecisionInv'
<1>a. /\ row' = row
      /\ inbox' = FALSE
      /\ UNCHANGED <<seen, run, carries, up, agent, now, stops, here, meant, strayed>>
  BY DEF Drop, histories
<1>1. TypeOK'
  BY <1>a DEF DecisionInv, TypeOK
<1>2. Stamped'
  BY <1>a DEF DecisionInv, Stamped, Is
<1>3. Meant'
  BY <1>a DEF DecisionInv, Meant, Settled, Is
<1>4. Latest'
  BY <1>a DEF DecisionInv, Latest, Settled, Is
<1>5. Phases'
  BY <1>a DEF DecisionInv, Phases
<1>6. Carriers'
  BY <1>a DEF DecisionInv, Carriers, Settled, Is
<1>7. AnswerFits'
  BY <1>a DEF DecisionInv, AnswerFits, Is
<1>8. BootAccounts'
  BY <1>a DEF DecisionInv, BootAccounts, Is
<1>9. RemindersHold'
  BY <1>a DEF DecisionInv, RemindersHold, Open, Is
<1> QED
  BY <1>1, <1>2, <1>3, <1>4, <1>5, <1>6, <1>7, <1>8, <1>9 DEF DecisionInv

LEMMA UndeleteKeeps ==
    ASSUME DecisionInv, Undelete
    PROVE  DecisionInv'
<1>a. /\ row' = row
      /\ agent' = TRUE /\ inbox' = TRUE
      /\ UNCHANGED <<seen, run, carries, up, now, stops, here, meant, strayed>>
  BY DEF Undelete, histories
<1>1. TypeOK'
  BY <1>a DEF DecisionInv, TypeOK
<1>2. Stamped'
  BY <1>a DEF DecisionInv, Stamped, Is
<1>3. Meant'
  BY <1>a DEF DecisionInv, Meant, Settled, Is
<1>4. Latest'
  BY <1>a DEF DecisionInv, Latest, Settled, Is
<1>5. Phases'
  BY <1>a DEF DecisionInv, Phases
<1>6. Carriers'
  BY <1>a DEF DecisionInv, Carriers, Settled, Is
<1>7. AnswerFits'
  BY <1>a DEF DecisionInv, AnswerFits, Is
<1>8. BootAccounts'
  BY <1>a DEF DecisionInv, BootAccounts, Is
<1>9. RemindersHold'
  BY <1>a DEF DecisionInv, RemindersHold, Open, Is
<1> QED
  BY <1>1, <1>2, <1>3, <1>4, <1>5, <1>6, <1>7, <1>8, <1>9 DEF DecisionInv

\* A step that leaves the row as it is, or only marks it interrupted.
Marks ==
    /\ row = None <=> row' = None
    /\ row # None =>
          /\ row \in Row /\ row' \in Row
          /\ row'.status = row.status /\ row'.run = row.run
          /\ row'.question = row.question /\ row'.answer = row.answer
          /\ row'.updated_at = row.updated_at /\ row'.due = row.due
          /\ row'.snoozed = row.snoozed /\ row'.remind_at = row.remind_at
          /\ row.interrupted => row'.interrupted

LEMMA MarkOrNot ==
    ASSUME DecisionInv, row' = row \/ (Is("answered") /\ row' = [row EXCEPT !.interrupted = TRUE])
    PROVE  Marks
<1>1. CASE row' = row
  BY <1>1, RowTypes DEF DecisionInv, Marks
<1>2. CASE Is("answered") /\ row' = [row EXCEPT !.interrupted = TRUE]
  <2>1. row \in Row
    BY <1>2, RowTypes DEF DecisionInv, Is
  <2>2. row' \in Row
    BY <2>1 DEF Row
  <2>3. row # None /\ row' # None
    BY <2>1, <2>2, NoneIsNoRow
  <2> QED
    BY <1>2, <2>1, <2>2, <2>3 DEF Marks
<1> QED
  BY <1>1, <1>2


LEMMA DeliverKeeps ==
    ASSUME DecisionInv, NEW r \in Run, Deliver(r)
    PROVE  DecisionInv'
<1>a. /\ up = "up" /\ run[r] = "booked"
      /\ \/ row' = row /\ run' = [run EXCEPT ![r] = "live"]
         \/ /\ run' = [run EXCEPT ![r] = "over"]
            /\ row' = IF Is("answered") /\ row.run = r THEN [row EXCEPT !.interrupted = TRUE] ELSE row
      /\ UNCHANGED <<seen, carries, up, agent, inbox, now, stops, here, meant, strayed>>
  BY DEF Deliver, Interrupts, crew, histories
<1>b. /\ Marks
      /\ row' = row \/ (Is("answered") /\ row.run = r /\ run'[r] = "over")
  <2>1. row' = row \/ (Is("answered") /\ row' = [row EXCEPT !.interrupted = TRUE])
    BY <1>a, Zenon
  <2> QED
    BY <1>a, MarkOrNot DEF DecisionInv, TypeOK
<1>1. TypeOK'
  BY <1>a, <1>b DEF DecisionInv, Marks, TypeOK
<1>2. Stamped'
  BY <1>a, <1>b DEF DecisionInv, Marks, Stamped, Is
<1>3. Meant'
  BY <1>a, <1>b DEF DecisionInv, Marks, Meant, Settled, Is
<1>4. Latest'
  BY <1>a, <1>b, DecisionsAssumption, NoneIsNoRow DEF DecisionInv, Marks, TypeOK, Latest, Settled, Is, Run
<1>5. Phases'
  BY <1>a DEF DecisionInv, TypeOK, Phases
<1>6. Carriers'
  BY <1>a DEF DecisionInv, TypeOK, Carriers, Latest, Going, Is
<1>7. AnswerFits'
  BY <1>a, <1>b DEF DecisionInv, Marks, AnswerFits, Is
<1>8. BootAccounts'
  BY <1>a, <1>b DEF DecisionInv, Marks, BootAccounts, Is
<1>9. RemindersHold'
  BY <1>a, <1>b DEF DecisionInv, Marks, RemindersHold, Open, Is
<1> QED
  BY <1>1, <1>2, <1>3, <1>4, <1>5, <1>6, <1>7, <1>8, <1>9 DEF DecisionInv

LEMMA StrayKeeps ==
    ASSUME DecisionInv, NEW r \in Run, Stray(r)
    PROVE  DecisionInv'
<1>a. /\ up = "up" /\ run[r] = "live"
      /\ strayed' = strayed \cup {r}
      /\ row' = IF Is("answered") /\ row.run = r THEN [row EXCEPT !.interrupted = TRUE] ELSE row
      /\ UNCHANGED <<seen, run, carries, up, agent, inbox, now, stops, here, meant>>
  BY DEF Stray, Interrupts, crew
<1>b. /\ Marks
      /\ row' = row \/ (Is("answered") /\ row.run = r)
  <2>1. row' = row \/ (Is("answered") /\ row' = [row EXCEPT !.interrupted = TRUE])
    BY <1>a, Zenon
  <2> QED
    BY <1>a, MarkOrNot
<1>1. TypeOK'
  BY <1>a, <1>b DEF DecisionInv, Marks, TypeOK
<1>2. Stamped'
  BY <1>a, <1>b DEF DecisionInv, Marks, Stamped, Is
<1>3. Meant'
  BY <1>a, <1>b DEF DecisionInv, Marks, Meant, Settled, Is
<1>4. Latest'
  BY <1>a, <1>b DEF DecisionInv, Marks, Latest, Settled, Is
<1>5. Phases'
  BY <1>a DEF DecisionInv, Phases
<1>6. Carriers'
  BY <1>a DEF DecisionInv, Carriers, Settled, Is
<1>7. AnswerFits'
  BY <1>a DEF DecisionInv, AnswerFits, Is
<1>8. BootAccounts'
  BY <1>a DEF DecisionInv, BootAccounts, Is
<1>9. RemindersHold'
  BY <1>a DEF DecisionInv, RemindersHold, Open, Is
<1> QED
  BY <1>1, <1>2, <1>3, <1>4, <1>5, <1>6, <1>7, <1>8, <1>9 DEF DecisionInv

LEMMA EndsKeeps ==
    ASSUME DecisionInv, NEW r \in Run, Ends(r)
    PROVE  DecisionInv'
<1>a. /\ up = "up" /\ row' = row
      /\ run[r] = "live" /\ run' = [run EXCEPT ![r] = "over"]
      /\ UNCHANGED <<seen, carries, up, agent, inbox, now, stops, here, meant, strayed>>
  BY DEF Ends, crew, histories
<1>1. TypeOK'
  BY <1>a DEF DecisionInv, TypeOK
<1>2. Stamped'
  BY <1>a DEF DecisionInv, Stamped, Is
<1>3. Meant'
  BY <1>a DEF DecisionInv, Meant, Settled, Is
<1>4. Latest'
  BY <1>a DEF DecisionInv, Latest, Settled, Is
<1>5. Phases'
  BY <1>a DEF DecisionInv, Phases
<1>6. Carriers'
  BY <1>a DEF DecisionInv, Carriers, Settled, Going, Is
<1>7. AnswerFits'
  BY <1>a DEF DecisionInv, AnswerFits, Is
<1>8. BootAccounts'
  BY <1>a DEF DecisionInv, BootAccounts, Is
<1>9. RemindersHold'
  BY <1>a DEF DecisionInv, RemindersHold, Open, Is
<1> QED
  BY <1>1, <1>2, <1>3, <1>4, <1>5, <1>6, <1>7, <1>8, <1>9 DEF DecisionInv

LEMMA StopKeeps ==
    ASSUME DecisionInv, NEW put \in SUBSET Run, Stop(put)
    PROVE  DecisionInv'
<1>a. /\ row' = row /\ up' = "down" /\ here' = {} /\ up # "down"
      /\ stops < MaxStops /\ stops' = stops + 1
      /\ put \subseteq Running /\ (up = "recovering" => put = {})
      /\ run' = [r \in Run |-> IF r \in put THEN "put"
                              ELSE IF r \in Running \/ run[r] = "held" THEN "over" ELSE run[r]]
      /\ UNCHANGED <<seen, carries, agent, inbox, now, meant, strayed>>
  BY DEF Stop, crew
<1>1. TypeOK'
  BY <1>a, DecisionsAssumption DEF DecisionInv, TypeOK
<1>2. Stamped'
  BY <1>a DEF DecisionInv, Stamped, Is
<1>3. Meant'
  BY <1>a DEF DecisionInv, Meant, Settled, Is
<1>4. Latest'
  BY <1>a DEF DecisionInv, Latest, Settled, Is, Running
<1>5. Phases'
  BY <1>a DEF Phases, Running
<1>6. Carriers'
  BY <1>a DEF DecisionInv, Carriers, Settled, Going, Is, Running
<1>7. AnswerFits'
  BY <1>a DEF DecisionInv, AnswerFits, Is
<1>8. BootAccounts'
  BY <1>a DEF BootAccounts
<1>9. RemindersHold'
  BY <1>a DEF DecisionInv, RemindersHold, Open, Is
<1> QED
  BY <1>1, <1>2, <1>3, <1>4, <1>5, <1>6, <1>7, <1>8, <1>9 DEF DecisionInv

LEMMA RecoverKeeps ==
    ASSUME DecisionInv, Recover
    PROVE  DecisionInv'
<1>a. /\ row' = row /\ up = "down" /\ up' = "recovering" /\ inbox' = agent
      /\ run' = [r \in Run |-> IF run[r] = "put" THEN "held" ELSE run[r]]
      /\ UNCHANGED <<seen, carries, agent, now, stops, here, meant, strayed>>
  BY DEF Recover, histories
<1>1. TypeOK'
  BY <1>a DEF DecisionInv, TypeOK
<1>2. Stamped'
  BY <1>a DEF DecisionInv, Stamped, Is
<1>3. Meant'
  BY <1>a DEF DecisionInv, Meant, Settled, Is
<1>4. Latest'
  BY <1>a DEF DecisionInv, Latest, Settled, Is
<1>5. Phases'
  BY <1>a DEF DecisionInv, Phases
<1>6. Carriers'
  BY <1>a DEF DecisionInv, Carriers, Settled, Going, Is
<1>7. AnswerFits'
  BY <1>a DEF DecisionInv, AnswerFits, Is
<1>8. BootAccounts'
  BY <1>a DEF BootAccounts
<1>9. RemindersHold'
  BY <1>a DEF DecisionInv, RemindersHold, Open, Is
<1> QED
  BY <1>1, <1>2, <1>3, <1>4, <1>5, <1>6, <1>7, <1>8, <1>9 DEF DecisionInv

LEMMA RecoverDecisionsKeeps ==
    ASSUME DecisionInv, RecoverDecisions
    PROVE  DecisionInv'
<1>a. /\ up = "recovering" /\ up' = "up"
      /\ row' = IF Cut THEN [row EXCEPT !.interrupted = TRUE] ELSE row
      /\ run' = [r \in Run |-> IF run[r] = "held" THEN "booked" ELSE run[r]]
      /\ here' = {r \in Run : run[r] = "held"}
      /\ UNCHANGED <<seen, carries, agent, inbox, now, stops, meant, strayed>>
  BY DEF RecoverDecisions, crew
<1>b. /\ Marks
      /\ (row' = row /\ ~Cut) \/ (Cut /\ row'.interrupted = TRUE)
  <2>1. Cut => Is("answered")
    BY DEF Cut
  <2>2. Cut => row \in Row
    BY <2>1, RowTypes DEF DecisionInv, Is
  <2>3. (~Cut /\ row' = row) \/ (Cut /\ row' = [row EXCEPT !.interrupted = TRUE])
    BY <1>a, Zenon
  <2>4. Marks
    BY <2>1, <2>3, MarkOrNot
  <2> QED
    BY <2>2, <2>3, <2>4 DEF Row
<1>1. TypeOK'
  BY <1>a, <1>b DEF DecisionInv, Marks, TypeOK
<1>2. Stamped'
  BY <1>a, <1>b DEF DecisionInv, Marks, Stamped, Is
<1>3. Meant'
  BY <1>a, <1>b DEF DecisionInv, Marks, Meant, Settled, Is
<1>4. Latest'
  BY <1>a, <1>b DEF DecisionInv, Marks, Latest, Settled, Is
<1>5. Phases'
  BY <1>a DEF DecisionInv, Phases
<1>6. Carriers'
  BY <1>a, DecisionsAssumption DEF DecisionInv, Carriers, Settled, Going, Is, Run, Cut, Phases
<1>7. AnswerFits'
  BY <1>a, <1>b DEF DecisionInv, Marks, AnswerFits, Is
<1>8. BootAccounts'
  <2>1. ASSUME Is("answered")', ~row'.interrupted PROVE row'.run \in here'
    <3>1. Is("answered") /\ ~Cut /\ row' = row
      BY <1>b, <2>1 DEF Is
    <3>2. row.run \in Run
      BY <3>1 DEF DecisionInv, Latest, Settled
    <3>3. run[row.run] = "held"
      BY <3>1 DEF Cut
    <3> QED
      BY <1>a, <3>2, <3>3
  <2> QED
    BY <2>1 DEF BootAccounts
<1>9. RemindersHold'
  BY <1>a, <1>b DEF DecisionInv, Marks, RemindersHold, Open, Is
<1> QED
  BY <1>1, <1>2, <1>3, <1>4, <1>5, <1>6, <1>7, <1>8, <1>9 DEF DecisionInv

LEMMA SweepKeeps ==
    ASSUME DecisionInv, Sweep
    PROVE  DecisionInv'
<1>a. /\ up = "up" /\ Open
      /\ row' = [row EXCEPT !.remind_at = next_reminder(row.due), !.snoozed = None]
      /\ UNCHANGED <<seen, run, carries, up, agent, inbox, now, stops, here, meant, strayed>>
  BY DEF Sweep, crew, histories
<1>b. /\ row \in Row /\ row' \in Row
      /\ row'.status = row.status /\ row'.run = row.run /\ row'.interrupted = row.interrupted
      /\ row'.question = row.question /\ row'.answer = row.answer /\ row'.updated_at = row.updated_at
      /\ row'.due = row.due /\ row'.snoozed = None /\ row'.remind_at = next_reminder(row.due)
      /\ row.due \in Time \cup {None}
  BY <1>a, RowTypes, NextReminderInTime DEF DecisionInv, Row, Open, Is
<1>1. TypeOK'
  BY <1>a, <1>b DEF DecisionInv, TypeOK
<1>2. Stamped'
  BY <1>a, <1>b, NoneIsNoRow DEF DecisionInv, Stamped, Is
<1>3. Meant'
  BY <1>a, <1>b, NoneIsNoRow DEF DecisionInv, Meant, Settled, Is
<1>4. Latest'
  BY <1>a, <1>b, NoneIsNoRow DEF DecisionInv, Latest, Settled, Is
<1>5. Phases'
  BY <1>a DEF DecisionInv, Phases
<1>6. Carriers'
  BY <1>a, <1>b, NoneIsNoRow DEF DecisionInv, Carriers, Settled, Is
<1>7. AnswerFits'
  BY <1>a, <1>b, NoneIsNoRow DEF DecisionInv, AnswerFits, Is
<1>8. BootAccounts'
  BY <1>a, <1>b, NoneIsNoRow DEF DecisionInv, BootAccounts, Is
<1>9. RemindersHold'
  BY <1>a, <1>b, NextReminderInTime DEF DecisionInv, TypeOK, RemindersHold
<1> QED
  BY <1>1, <1>2, <1>3, <1>4, <1>5, <1>6, <1>7, <1>8, <1>9 DEF DecisionInv

LEMMA TickKeeps ==
    ASSUME DecisionInv, Tick
    PROVE  DecisionInv'
<1>a. /\ row' = row /\ now < MaxNow /\ now' = now + 1
      /\ UNCHANGED <<seen, run, carries, up, agent, inbox, stops, here, meant, strayed>>
  BY DEF Tick, crew, histories
<1>1. TypeOK'
  BY <1>a, DecisionsAssumption DEF DecisionInv, TypeOK
<1>2. Stamped'
  BY <1>a DEF DecisionInv, Stamped, Is
<1>3. Meant'
  BY <1>a DEF DecisionInv, Meant, Settled, Is
<1>4. Latest'
  BY <1>a DEF DecisionInv, Latest, Settled, Is
<1>5. Phases'
  BY <1>a DEF DecisionInv, Phases
<1>6. Carriers'
  BY <1>a DEF DecisionInv, Carriers, Settled, Is
<1>7. AnswerFits'
  BY <1>a DEF DecisionInv, AnswerFits, Is
<1>8. BootAccounts'
  BY <1>a DEF DecisionInv, BootAccounts, Is
<1>9. RemindersHold'
  <2>1. \A due \in Time : now' + Lead < due => now + Lead < due
    BY <1>a, DecisionsAssumption DEF DecisionInv, TypeOK, Time
  <2> QED
    BY <1>a, <2>1, RowTypes DEF DecisionInv, Row, RemindersHold, Open, Is
<1> QED
  BY <1>1, <1>2, <1>3, <1>4, <1>5, <1>6, <1>7, <1>8, <1>9 DEF DecisionInv

-----------------------------------------------------------------------------
(* The steps together, and what follows from the invariant.                 *)

LEMMA InitDecisions == Init => DecisionInv
<1> SUFFICES ASSUME Init PROVE DecisionInv
  OBVIOUS
<1>1. TypeOK
  BY DecisionsAssumption DEF Init, TypeOK
<1>2. Stamped /\ Meant /\ Latest /\ Phases /\ Carriers
  BY DEF Init, Stamped, Meant, Latest, Phases, Carriers, Settled, Is
<1>3. AnswerFits /\ BootAccounts /\ RemindersHold
  BY DEF Init, AnswerFits, BootAccounts, RemindersHold, Open, Is
<1> QED
  BY <1>1, <1>2, <1>3 DEF DecisionInv

LEMMA RequestKeeps ==
    ASSUME DecisionInv, NEW q \in Question, NEW due \in 1..MaxNow \cup {None}, Request(q, due)
    PROVE  DecisionInv'
<1>1. Raise(q, due) \/ Revise(q, due)
  BY DEF Request
<1> QED
  BY <1>1, RaiseKeeps, ReviseKeeps

LEMMA StepKeeps ==
    ASSUME DecisionInv, [Next]_vars
    PROVE  DecisionInv'
<1>1. CASE AgentStep
  BY <1>1, CompleteKeeps, WithdrawKeeps, RequestKeeps DEF AgentStep
<1>2. CASE OperatorStep
  BY <1>2, LookKeeps, AnswerKeeps, ResumeKeeps, SnoozeKeeps, DeleteKeeps, DropKeeps, UndeleteKeeps
     DEF OperatorStep
<1>3. CASE RunStep
  BY <1>3, DeliverKeeps, StrayKeeps, EndsKeeps DEF RunStep
<1>4. CASE HostStep
  BY <1>4, RecoverKeeps, RecoverDecisionsKeeps, SweepKeeps, StopKeeps DEF HostStep
<1>5. CASE Tick
  BY <1>5, TickKeeps
<1>6. CASE UNCHANGED vars
  BY <1>6
     DEF vars, crew, histories, DecisionInv, TypeOK, Stamped, Meant, Latest, Phases, Carriers,
         AnswerFits, BootAccounts, RemindersHold, Settled, Open, Is
<1> QED
  BY <1>1, <1>2, <1>3, <1>4, <1>5, <1>6 DEF Next

(* Whatever is asked, revised, answered, snoozed, stopped and picked up, in *)
(* any order, the row, the screens and the runs keep together: the          *)
(* inductive invariant the rest follows from (db/decisions.rs).             *)
THEOREM DecisionInvariant == Spec => []DecisionInv
<1>1. DecisionInv /\ [Next]_vars => DecisionInv'
  BY StepKeeps
<1> QED
  BY <1>1, InitDecisions, PTL DEF Spec

(* Every message that carries the answer carries the question its operator  *)
(* was reading, for any number of questions, windows, runs and revisions    *)
(* (request_decision, answer_decision).                                     *)
THEOREM AnswersFit == Spec => []AnswerFits
<1>1. DecisionInv => AnswerFits
  BY DEF DecisionInv
<1> QED
  BY <1>1, DecisionInvariant, PTL

\* Of two conversations that go on, only the latest need not have strayed.
LEMMA EarlierHasStrayed ==
    ASSUME DecisionInv
    PROVE  CarriedOnce
<1> SUFFICES ASSUME NEW r \in Run, NEW later \in Run, r < later,
                    run[r] \in Going, run[later] \in Going
             PROVE  r \in strayed
  BY DEF CarriedOnce
<1>1. Settled
  BY DEF DecisionInv, Latest, Going
<1>2. later <= row.run /\ row.run \in Run
  BY DEF DecisionInv, Latest, Going
<1>3. r # row.run
  BY <1>2 DEF Run
<1> QED
  BY <1>1, <1>3 DEF DecisionInv, Carriers

(* The answer is acted on in one conversation, unless the earlier wrote to  *)
(* an agent that had gone, for any number of resumptions and of hosts that  *)
(* stop (queue, recover_decisions).                                         *)
THEOREM CarriedByOne == Spec => []CarriedOnce
<1>1. DecisionInv => CarriedOnce
  BY EarlierHasStrayed
<1> QED
  BY <1>1, DecisionInvariant, PTL

(* No answered decision waits, unmarked, on a conversation that died with   *)
(* an earlier host (recover, recover_decisions).                            *)
THEOREM BootsAccount == Spec => []BootAccounts
<1>1. DecisionInv => BootAccounts
  BY DEF DecisionInv
<1> QED
  BY <1>1, DecisionInvariant, PTL

(* A snooze outlasts every rescan, and a deadline is reminded of before its *)
(* last hour, for every clock, briefing and lead (next_reminder,            *)
(* request_decision, decision_reminders).                                   *)
THEOREM RemindersAreKept == Spec => []RemindersHold
<1>1. DecisionInv => RemindersHold
  BY DEF DecisionInv
<1> QED
  BY <1>1, DecisionInvariant, PTL
=============================================================================
