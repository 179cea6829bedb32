------------------------------ MODULE Decisions ------------------------------
(***************************************************************************)
(* One decision an agent leaves for its operator: request_decision,        *)
(* answer_decision, finish_decision, snooze_decision,                      *)
(* interrupt_decision_run, recover_decisions and decision_reminders        *)
(* (db/decisions.rs), with the runs that carry its answer, the host that   *)
(* stops under them, and the clock that reminds.                           *)
(*                                                                         *)
(* A run is the message that carries the answer and every turn that comes  *)
(* of it.  A tick of the clock is both the millisecond of a stamp and the  *)
(* hour of a deadline.                                                     *)
(***************************************************************************)
EXTENDS Naturals, FiniteSets

CONSTANTS
    Question,    \* what an agent may ask under the one topic
    Window,      \* the operator's windows
    None,
    Half,        \* from one briefing to the next
    Lead,        \* how long before a deadline it is reminded of
    MaxNow,      \* bound: the clock
    MaxStamp,    \* bound: the stamps a row is given
    MaxRuns,     \* bound: runs that carry the answer
    MaxStops     \* bound: hosts that stop

ASSUME DecisionsAssumption ==
    /\ Half \in Nat \ {0} /\ Lead \in Nat
    /\ {MaxNow, MaxStamp, MaxRuns, MaxStops} \subseteq Nat /\ MaxNow <= MaxStamp
    /\ None \notin Question \cup Window \cup Nat

Run == 1..MaxRuns
Time == 0..MaxNow + Half
Status == {"pending", "answered", "completed", "withdrawn"}
Row == [question : Question, due : Time \cup {None}, status : Status,
        updated_at : 0..MaxStamp, remind_at : Time, snoozed : Time \cup {None},
        answer : Window \cup {None}, run : Run \cup {None}, interrupted : BOOLEAN]
Carried == [question : Question, answer : Window]
ASSUME NoneIsNoRow == None \notin Row \cup Carried

VARIABLES
    row,         \* the decision in the store, or None
    seen,        \* what each window has on its screen of it
    run, carries,    \* where each run is, and what its first message says
    up,          \* the host: down, recovering, or up
    agent, inbox,    \* is the agent not deleted, and can mail reach it?
    now, stops,
    here,        \* history: runs this host has had in its hands
    meant,       \* history: what the operator answered, to which question
    strayed      \* history: runs that sent to an agent that had gone

crew == <<agent, inbox>>
histories == <<here, meant, strayed>>
vars == <<row, seen, run, carries, up, crew, now, stops, histories>>

(* Every variable keeps its type. *)
TypeOK ==
    /\ row \in Row \cup {None}
    /\ seen \in [Window -> [question : Question, updated_at : 0..MaxStamp] \cup {None}]
    /\ run \in [Run -> {"none", "booked", "live", "put", "held", "over"}]
    /\ carries \in [Run -> Carried \cup {None}]
    /\ up \in {"down", "recovering", "up"} /\ agent \in BOOLEAN /\ inbox \in BOOLEAN
    /\ now \in 0..MaxNow /\ stops \in 0..MaxStops
    /\ here \subseteq Run /\ strayed \subseteq Run /\ meant \in Carried \cup {None}

Init ==
    /\ row = None /\ seen = [w \in Window |-> None]
    /\ run = [r \in Run |-> "none"] /\ carries = [r \in Run |-> None]
    /\ up = "up" /\ agent = TRUE /\ inbox = TRUE /\ now = 0 /\ stops = 0
    /\ here = {} /\ meant = None /\ strayed = {}

Least(S) == CHOOSE x \in S : \A y \in S : x <= y
Greatest(S) == CHOOSE x \in S : \A y \in S : x >= y

\* next_briefing and next_reminder: the next of the day's two, or the hour
\* before the deadline if that is sooner and still to come.
next_briefing == Least({t \in Time : t > now /\ t % Half = 0})
next_reminder(due) ==
    Least({next_briefing} \cup
          (IF due = None THEN {} ELSE {t \in now + 1..due : t + Lead = due}))
\* A deadline within the hour is reminded of at once.
Reminder(due) ==
    IF due = None THEN next_briefing ELSE IF due <= now + Lead THEN now ELSE next_reminder(due)

Is(status) == row # None /\ row.status = status
Open == Is("pending") \/ Is("answered")
Fresh(r) == run[r] = "none" /\ \A q \in 1..r - 1 : run[q] # "none"

-----------------------------------------------------------------------------
(* The agent.                                                              *)

Raise(q, due) ==
    /\ row = None
    /\ row' = [question |-> q, due |-> due, status |-> "pending", updated_at |-> now,
               remind_at |-> Reminder(due), snoozed |-> None, answer |-> None,
               run |-> None, interrupted |-> FALSE]

\* A row revised to say q by due, stamped, and reminded of when it is.
Revised(q, due, stamp, remind) ==
    /\ Is("pending") /\ <<row.question, row.due>> # <<q, due>> /\ stamp <= MaxStamp
    /\ row' = [row EXCEPT !.question = q, !.due = due, !.updated_at = stamp, !.remind_at = remind]
Sooner(due) == Least({row.remind_at, Reminder(due)})
Unsnoozed(due) ==
    IF row.snoozed = None THEN Sooner(due)
    ELSE IF row.snoozed > now THEN row.remind_at ELSE Sooner(due)

\* Mutants of Revise: its stamp is the time; a scan reminds whatever is snoozed.
ReviseNow(q, due) == Revised(q, due, now, Unsnoozed(due))
ReviseLoudly(q, due) == Revised(q, due, Greatest({row.updated_at + 1, now}), Sooner(due))

\* Only a pending row is revised, and only by what is not what it says.
Revise(q, due) == Revised(q, due, Greatest({row.updated_at + 1, now}), Unsnoozed(due))

Request(q, due) ==
    /\ up = "up" /\ agent
    /\ Raise(q, due) \/ Revise(q, due)
    /\ UNCHANGED <<seen, run, carries, up, crew, now, stops, histories>>

\* finish_decision, from one status to another, and not while interrupted.
Finish(from, to) ==
    /\ up = "up" /\ Is(from) /\ ~row.interrupted
    /\ row' = [row EXCEPT !.status = to, !.updated_at = now, !.snoozed = None]
    /\ UNCHANGED <<seen, run, carries, up, crew, now, stops, histories>>
Complete == Finish("answered", "completed")
Withdraw == Finish("pending", "withdrawn")

-----------------------------------------------------------------------------
(* The operator.                                                           *)

Look(w) ==
    /\ Is("pending") /\ up = "up"
    /\ seen' = [seen EXCEPT ![w] = [question |-> row.question, updated_at |-> row.updated_at]]
    /\ UNCHANGED <<row, run, carries, up, crew, now, stops, histories>>

\* The answer, its message and its run are one commit, and the run is booked
\* before the runs' lock is let go.
Accept(r, answer) ==
    /\ up = "up" /\ agent /\ Fresh(r)
    /\ run' = [run EXCEPT ![r] = "booked"] /\ here' = here \cup {r}
    /\ carries' = [carries EXCEPT ![r] = [question |-> row.question, answer |-> answer]]
    /\ row' = [row EXCEPT !.status = "answered", !.answer = answer, !.updated_at = now,
                          !.snoozed = None, !.remind_at = next_briefing, !.run = r,
                          !.interrupted = FALSE]
    /\ UNCHANGED <<seen, up, crew, now, stops, strayed>>

\* A window sends the stamp of what it shows (commands.rs, answer_decision); a
\* resume sends none.
Answer(w, r) ==
    /\ seen[w] # None /\ Is("pending") /\ seen[w].updated_at = row.updated_at
    /\ meant' = [question |-> seen[w].question, answer |-> w]
    /\ Accept(r, w)

Resume(r) == Is("answered") /\ row.interrupted /\ Accept(r, row.answer) /\ UNCHANGED meant

Snooze(until) ==
    /\ up = "up" /\ Open /\ until > now
    /\ row' = [row EXCEPT !.snoozed = until, !.remind_at = until]
    /\ UNCHANGED <<seen, run, carries, up, crew, now, stops, histories>>

\* discard_agent marks it deleted and then drops its inbox; restore_agent
\* undoes both.  A turn that is running runs on.
Delete ==
    /\ up = "up" /\ agent /\ agent' = FALSE
    /\ UNCHANGED <<row, seen, run, carries, up, inbox, now, stops, histories>>
Drop ==
    /\ up = "up" /\ ~agent /\ inbox /\ inbox' = FALSE
    /\ UNCHANGED <<row, seen, run, carries, up, agent, now, stops, histories>>
Undelete ==
    /\ up = "up" /\ ~agent /\ ~inbox /\ agent' = TRUE /\ inbox' = TRUE
    /\ UNCHANGED <<row, seen, run, carries, up, now, stops, histories>>

-----------------------------------------------------------------------------
(* The runs that carry it.                                                 *)

\* interrupt_decision_run: this run's follow-through needs somebody.
Interrupts(r) ==
    row' = IF Is("answered") /\ row.run = r THEN [row EXCEPT !.interrupted = TRUE] ELSE row

\* queue, of the answer itself: to an inbox, or to nobody.
Deliver(r) ==
    /\ up = "up" /\ run[r] = "booked"
    /\ \/ inbox /\ run' = [run EXCEPT ![r] = "live"] /\ UNCHANGED row
       \/ ~inbox /\ run' = [run EXCEPT ![r] = "over"] /\ Interrupts(r)
    /\ UNCHANGED <<seen, carries, up, crew, now, stops, histories>>

\* queue, of what a turn of the run sends to an agent that has gone.
Stray(r) ==
    /\ up = "up" /\ run[r] = "live" /\ r \notin strayed
    /\ Interrupts(r) /\ strayed' = strayed \cup {r}
    /\ UNCHANGED <<seen, run, carries, up, crew, now, stops, here, meant>>

\* It settles, fails, is dropped with its inbox or is stopped by the operator,
\* and none of them says so of the decision.
Ends(r) ==
    /\ up = "up" /\ run[r] = "live" /\ run' = [run EXCEPT ![r] = "over"]
    /\ UNCHANGED <<row, seen, carries, up, crew, now, stops, histories>>

-----------------------------------------------------------------------------
(* The host.                                                               *)

Running == {r \in Run : run[r] \in {"booked", "live"}}

\* It drains, putting down what it can, or dies putting down nothing.
Stop(put) ==
    /\ up # "down" /\ stops < MaxStops /\ stops' = stops + 1
    /\ put \subseteq Running /\ (up = "recovering" => put = {})
    /\ run' = [r \in Run |-> IF r \in put THEN "put"
                             ELSE IF r \in Running \/ run[r] = "held" THEN "over" ELSE run[r]]
    /\ up' = "down" /\ here' = {}
    /\ UNCHANGED <<row, seen, carries, crew, now, meant, strayed>>

\* recover: what was put down is taken off the list, into the host's hands.
Recover ==
    /\ up = "down" /\ up' = "recovering" /\ inbox' = agent
    /\ run' = [r \in Run |-> IF run[r] = "put" THEN "held" ELSE run[r]]
    /\ UNCHANGED <<row, seen, carries, agent, now, stops, histories>>

\* Mutant of Cut: every answered decision is interrupted.
RecoverAll == Is("answered")
\* recover_decisions: answered, and its run is not one that is picked up.
Cut == Is("answered") /\ (IF row.run = None THEN TRUE ELSE run[row.run] # "held")

\* Mutant of RecoverDecisions: a decision waits as it was.
RecoverNothing ==
    /\ up = "recovering" /\ up' = "up" /\ UNCHANGED row
    /\ run' = [r \in Run |-> IF run[r] = "held" THEN "booked" ELSE run[r]]
    /\ here' = {r \in Run : run[r] = "held"}
    /\ UNCHANGED <<seen, carries, crew, now, stops, meant, strayed>>

\* recover_decisions, and then pick_up of what was put down.
RecoverDecisions ==
    /\ up = "recovering" /\ up' = "up"
    /\ row' = IF Cut THEN [row EXCEPT !.interrupted = TRUE] ELSE row
    /\ run' = [r \in Run |-> IF run[r] = "held" THEN "booked" ELSE run[r]]
    /\ here' = {r \in Run : run[r] = "held"}
    /\ UNCHANGED <<seen, carries, crew, now, stops, meant, strayed>>

\* decision_reminders: the next reminder is set as this one is claimed.
Sweep ==
    /\ up = "up" /\ agent /\ Open /\ row.remind_at <= now
    /\ row' = [row EXCEPT !.remind_at = next_reminder(row.due), !.snoozed = None]
    /\ UNCHANGED <<seen, run, carries, up, crew, now, stops, histories>>

Tick ==
    /\ now < MaxNow /\ now' = now + 1
    /\ UNCHANGED <<row, seen, run, carries, up, crew, stops, histories>>

-----------------------------------------------------------------------------

AgentStep == Complete \/ Withdraw \/ \E q \in Question, due \in 1..MaxNow \cup {None} : Request(q, due)
OperatorStep ==
    \/ \E w \in Window : Look(w) \/ \E r \in Run : Answer(w, r)
    \/ \E r \in Run : Resume(r)
    \/ \E until \in 1..MaxNow : Snooze(until)
    \/ Delete \/ Drop \/ Undelete
RunStep == \E r \in Run : Deliver(r) \/ Stray(r) \/ Ends(r)
HostStep == Recover \/ RecoverDecisions \/ Sweep \/ \E put \in SUBSET Run : Stop(put)

Next == AgentStep \/ OperatorStep \/ RunStep \/ HostStep \/ Tick
Spec == Init /\ [][Next]_vars

(* Every message that carries the answer carries the question its operator  *)
(* was reading when they gave it, and so does the row from then on, though  *)
(* the agent revises what it asks while it is on the screen                 *)
(* (request_decision, answer_decision).                                     *)
AnswerFits ==
    /\ Is("answered") \/ Is("completed") =>
          row.question = meant.question /\ row.answer = meant.answer
    /\ \A r \in Run : carries[r] # None => carries[r] = meant

Going == {"booked", "live", "put", "held"}
(* The answer is being acted on in one conversation: two carry it only when *)
(* the earlier had written to an agent that had gone, which is taken for    *)
(* the answer not reaching anybody (recover_decisions, queue).              *)
CarriedOnce ==
    \A r, later \in Run :
        r < later /\ run[r] \in Going /\ run[later] \in Going => r \in strayed

(* Once a host is up, an answered decision that does not ask to be resumed  *)
(* is one this host has had in its hands: none waits on a conversation that *)
(* died with an earlier one (recover, recover_decisions).                   *)
BootAccounts ==
    up = "up" /\ Is("answered") /\ ~row.interrupted => row.run \in here

(* A snooze is kept until it is over, whatever a rescan says of the         *)
(* question, and an unsnoozed deadline more than an hour off is reminded of *)
(* before that hour (request_decision, snooze_decision, decision_reminders). *)
RemindersHold ==
    Open =>
        /\ row.snoozed # None => row.remind_at = row.snoozed
        /\ Is("pending") /\ row.snoozed = None /\ row.due # None =>
              (now + Lead < row.due => row.remind_at + Lead <= row.due)
=============================================================================
