------------------------------ MODULE Schedule ------------------------------
(***************************************************************************)
(* An agent's routines: the rows (db/store.rs), when a cadence is next due *)
(* (domain/routine.rs), and the two that fire them: the scheduler's sweep  *)
(* and the receiver of events (runtime/mod.rs: sweep_schedule,             *)
(* deliver_event).  Either reads the rows once and then works through its  *)
(* copies, while the operator and the agents edit (commands.rs, the        *)
(* schedule tool).                                                         *)
(*                                                                         *)
(* A moment is a day: what is due later that day is due.                   *)
(***************************************************************************)
EXTENDS Integers, FiniteSets

CONSTANTS
    Routine, Agent,
    Of,           \* whose a routine is
    Triggers,     \* the triggers that are used
    Delays,       \* the stated starts, in days from now
    Gap,          \* the gap of "every", in days
    Week,         \* the length of a week
    Weekend,      \* the days no weekday routine runs on
    Calendar,     \* the month and the day of the month a day is
    Horizon,      \* the last day on the clock
    None,         \* no slot, no stated start, no row, nothing in hand
    MaxWrites,    \* how often a row is written by hand
    MaxTroubles   \* how often the store fails, or the process ends

Cadence == {"once", "every", "daily", "weekdays", "weekly", "monthly"}
Day == DOMAIN Calendar

ASSUME ScheduleAssumption ==
    /\ Of \in [Routine -> Agent] /\ Triggers \subseteq Cadence \cup {"event"}
    /\ Delays \subseteq Nat /\ {Horizon, MaxWrites, MaxTroubles} \subseteq Nat
    /\ {Gap, Week} \subseteq Nat \ {0}
    /\ Day \subseteq Nat /\ 0..Horizon \subseteq Day /\ Weekend \subseteq Day
    /\ \A d \in Day : Calendar[d].month \in Nat /\ Calendar[d].day \in Nat
    /\ None \notin Nat

VARIABLES
    now,
    row,          \* the routines table
    editing,      \* the row an edit has read, to write it back
    due,          \* of each sweeper: the copies it has yet to reach,
    hand,         \* the copy it is on
    stage,        \* what it has done with it
    skipping,     \* was the agent working when it asked?
    acts,         \* the agents that are active
    up, draining,
    troubles,     \* how often the store failed or the process ended
    writes,       \* history: how often a row was written by hand,
    anchor,       \* the slot it was given then,
    overtaken,    \* whether a sweeper was on its way to it then,
    fired         \* and the clock's firings of a routine, delivered or skipped

sweep == <<due, hand, stage, skipping>>
host == <<acts, up, draining, troubles>>
history == <<writes, anchor, overtaken, fired>>
vars == <<now, row, editing, sweep, host, history>>

Sweeper == {"clock", "receiver"}
Row == [trigger : Triggers, slot : Nat \cup {None}, skip : BOOLEAN, active : BOOLEAN]
Copy == [id : Routine, row : Row, write : Nat, at : 0..Horizon]
Firing == [write : Nat, slot : Nat, at : Nat]

(* Every variable keeps its type, and a sweeper has a copy in hand while it  *)
(* is on one.                                                                *)
TypeOK ==
    /\ now \in 0..Horizon
    /\ row \in [Routine -> Row \cup {None}]
    /\ editing \in (Routine \X Row) \cup {None}
    /\ due \in [Sweeper -> SUBSET Copy]
    /\ stage \in [Sweeper -> {"idle", "asked", "moved"}]
    /\ hand \in [Sweeper -> Copy \cup {None}]
    /\ \A s \in Sweeper : stage[s] # "idle" => hand[s] \in Copy
    /\ skipping \in [Sweeper -> BOOLEAN]
    /\ acts \subseteq Agent
    /\ up \in BOOLEAN /\ draining \in BOOLEAN
    /\ troubles \in 0..MaxTroubles
    /\ writes \in [Routine -> 0..MaxWrites]
    /\ anchor \in [Routine -> Nat \cup {None}]
    /\ overtaken \subseteq Routine
    /\ fired \in [Routine -> SUBSET Firing]

Init ==
    /\ now = 0 /\ row = [r \in Routine |-> None] /\ editing = None
    /\ due = [s \in Sweeper |-> {}]
    /\ hand = [s \in Sweeper |-> None] /\ stage = [s \in Sweeper |-> "idle"]
    /\ skipping = [s \in Sweeper |-> FALSE]
    /\ acts = Agent /\ up = TRUE /\ draining = FALSE
    /\ troubles = 0
    /\ writes = [r \in Routine |-> 0] /\ anchor = [r \in Routine |-> None]
    /\ overtaken = {} /\ fired = [r \in Routine |-> {}]

-----------------------------------------------------------------------------
(* When a cadence falls due (domain/routine.rs).                            *)

Least(S) == CHOOSE d \in S : \A e \in S : d <= e

DaysIn(month) == Cardinality({d \in Day : Calendar[d].month = month})

\* nth_date: the days a calendar cadence falls on, counted from a slot.
Falls(c, slot, d) ==
    CASE c = "daily"    -> TRUE
      [] c = "weekly"   -> (d - slot) % Week = 0
      [] c = "weekdays" -> d \notin Weekend
      [] c = "monthly"  -> /\ Calendar[d].month > Calendar[slot].month
                           /\ Calendar[d].day =
                                Least({Calendar[slot].day, DaysIn(Calendar[d].month)})

Accepts(c, d) == c = "weekdays" => d \notin Weekend

\* A calendar cadence always falls on some day to come: the code's calendar has no
\* last day, the model's has enough of them.
ASSUME CalendarGoesOn ==
    \A c \in Triggers \cap {"daily", "weekly", "weekdays", "monthly"} :
    \A slot \in 0..Horizon \cup (IF c = "weekdays" THEN Weekend ELSE {}), t \in 0..Horizon :
        \E d \in Day : d > slot /\ d > t /\ Falls(c, slot, d)

\* Mutant of NextAfter: a day late is a day caught up on.
NextAfterEach(c, slot, t) ==
    IF c = "every" THEN slot + Gap ELSE Least({d \in Day : d > slot /\ Falls(c, slot, d)})

\* next_after, of a cadence that repeats: one slot, and ahead of now.
NextAfter(c, slot, t) ==
    IF c = "every" THEN t + Gap
                   ELSE Least({d \in Day : d > slot /\ d > t /\ Falls(c, slot, d)})

\* A start on a day the cadence never fires on keeps the start and moves the day.
FirstRun(c, delay) ==
    LET start == IF delay = None THEN now ELSE now + delay IN
    IF c = "event" THEN None
    ELSE IF c = "once" \/ (delay # None /\ Accepts(c, start)) THEN start
    ELSE NextAfter(c, start, now)

\* Mutant of NextSlotFor: an untouched time stays, whatever the trigger becomes.
NextSlotKept(c, slot, delay) ==
    IF c = "event" THEN None
    ELSE IF delay # None \/ slot = None THEN FirstRun(c, delay)
    ELSE slot

\* An untouched time keeps its slot, unless the new trigger never fires on it.
NextSlotFor(c, slot, delay) ==
    IF c = "event" THEN None
    ELSE IF delay # None \/ slot = None THEN FirstRun(c, delay)
    ELSE IF Accepts(c, slot) THEN slot
    ELSE NextAfter(c, slot, now)

\* after_running: what becomes of a row that has just run on day t.
Ran(old, t) ==
    IF old.trigger = "event" THEN [old EXCEPT !.slot = None]
    ELSE IF old.trigger = "once" THEN None
    ELSE [old EXCEPT !.slot = NextAfter(old.trigger, IF old.slot = None THEN t ELSE old.slot, t)]

-----------------------------------------------------------------------------
(* Rows written by hand: by the operator, or by an agent's schedule tool.   *)

\* A start means nothing to an event, and only a repeat may skip (validate).
Valid(c, delay, skip) ==
    /\ c = "event" => delay = None
    /\ c = "once" => ~skip

OnItsWay(r) ==
    \E s \in Sweeper : \/ \E k \in due[s] : k.id = r
                       \/ stage[s] = "asked" /\ hand[s].id = r

Written(r, new) ==
    /\ row' = [row EXCEPT ![r] = new]
    /\ writes' = [writes EXCEPT ![r] = @ + 1]
    /\ anchor' = [anchor EXCEPT ![r] = new.slot]
    /\ overtaken' = IF OnItsWay(r) THEN overtaken \cup {r} ELSE overtaken \ {r}
    /\ UNCHANGED fired

Create(r, c, delay, skip) ==
    /\ up /\ row[r] = None /\ writes[r] = 0 /\ MaxWrites > 0
    /\ Valid(c, delay, skip)
    /\ Written(r, [trigger |-> c, slot |-> FirstRun(c, delay), skip |-> skip, active |-> TRUE])
    /\ UNCHANGED <<now, editing, sweep, host>>

\* An edit reads the row, and writes what it makes of it as a step of its own.
Open(r) ==
    /\ up /\ editing = None /\ row[r] # None /\ writes[r] < MaxWrites
    /\ editing' = <<r, row[r]>>
    /\ UNCHANGED <<now, row, sweep, host, history>>

Save(c, delay, skip) ==
    /\ editing # None
    /\ Valid(c, delay, skip)
    /\ LET r == editing[1]
       IN  IF row[r] = None
             THEN UNCHANGED <<row, history>>
             ELSE Written(r, [trigger |-> c, skip |-> skip, active |-> row[r].active,
                              slot |-> NextSlotFor(c, editing[2].slot, delay)])
    /\ editing' = None
    /\ UNCHANGED <<now, sweep, host>>

SetActive(r) ==
    /\ up /\ row[r] # None
    /\ row' = [row EXCEPT ![r].active = ~@]
    /\ UNCHANGED <<now, editing, sweep, host, history>>

Delete(r) ==
    /\ up /\ row[r] # None
    /\ row' = [row EXCEPT ![r] = None]
    /\ UNCHANGED <<now, editing, sweep, host, history>>

-----------------------------------------------------------------------------
(* Firing.                                                                  *)

Standing(r) == row[r] # None /\ row[r].active /\ Of[r] \in acts

\* due_routines: a row without a slot is never due.
Due(r) == Standing(r) /\ row[r].slot \in 0..now

Reads(s, rows) ==
    /\ up /\ stage[s] = "idle" /\ due[s] = {} /\ rows # {}
    /\ due' = [due EXCEPT ![s] =
                {[id |-> r, row |-> row[r], write |-> writes[r], at |-> now] : r \in rows}]
    /\ UNCHANGED <<now, row, editing, hand, stage, skipping, host, history>>

\* Mutant of Sweep: only what is due this very day.
SweepToday == ~draining /\ Reads("clock", {r \in Routine : Standing(r) /\ row[r].slot = now})

\* Nothing fires by the clock on a host that is stopping.
Sweep == ~draining /\ Reads("clock", {r \in Routine : Due(r)})

Post == Reads("receiver", {r \in Routine : Standing(r) /\ row[r].trigger = "event"})

Goto(s, l) == stage' = [stage EXCEPT ![s] = l]

Done(s) ==
    /\ hand' = [hand EXCEPT ![s] = None]
    /\ skipping' = [skipping EXCEPT ![s] = FALSE]
    /\ Goto(s, "idle")

\* Asked before the slot moves, of whatever the agent is doing; the clock takes the
\* oldest first.
Ask(s, k) ==
    /\ stage[s] = "idle" /\ k \in due[s]
    /\ s = "clock" => \A j \in due[s] : k.row.slot <= j.row.slot
    /\ due' = [due EXCEPT ![s] = @ \ {k}]
    /\ hand' = [hand EXCEPT ![s] = k]
    /\ \E working \in BOOLEAN : skipping' = [skipping EXCEPT ![s] = k.row.skip /\ working]
    /\ Goto(s, "asked")
    /\ UNCHANGED <<now, row, editing, host, history>>

\* routine_ran: the row moves before anything is delivered, by what the copy says.
Move(s) ==
    /\ stage[s] = "asked"
    /\ LET k == hand[s] IN
       row' = [row EXCEPT ![k.id] = IF @ = None THEN None ELSE
                 LET new == Ran(k.row, k.at) IN IF new = None THEN None ELSE [@ EXCEPT !.slot = new.slot]]
    /\ Goto(s, "moved")
    /\ UNCHANGED <<now, editing, due, hand, skipping, host, history>>

\* A row that cannot be moved is not fired.
MoveFails(s) ==
    /\ stage[s] = "asked" /\ troubles < MaxTroubles
    /\ troubles' = troubles + 1
    /\ Done(s)
    /\ UNCHANGED <<now, row, editing, due, acts, up, draining, history>>

\* Delivered to an agent that acts, or skipped; either is written down.
Fire(s) ==
    /\ stage[s] = "moved"
    /\ LET k == hand[s] IN
       fired' = IF s = "clock" /\ (skipping[s] \/ Of[k.id] \in acts)
                  THEN [fired EXCEPT ![k.id] =
                          @ \cup {[write |-> k.write, slot |-> k.row.slot, at |-> k.at]}]
                  ELSE fired
    /\ Done(s)
    /\ UNCHANGED <<now, row, editing, due, acts, up, draining, troubles,
                   writes, anchor, overtaken>>

-----------------------------------------------------------------------------
(* The host around it.                                                      *)

Tick == now < Horizon /\ now' = now + 1 /\ UNCHANGED <<row, editing, sweep, host, history>>

\* Paused, resumed, discarded or restored.
Acts(a) ==
    /\ up
    /\ acts' = IF a \in acts THEN acts \ {a} ELSE acts \cup {a}
    /\ UNCHANGED <<now, row, editing, sweep, up, draining, troubles, history>>

Drain ==
    /\ up /\ ~draining /\ troubles < MaxTroubles
    /\ draining' = TRUE
    /\ troubles' = troubles + 1
    /\ UNCHANGED <<now, row, editing, sweep, acts, up, history>>

\* The process ends, stopped or not: what was in memory is gone.
Ends ==
    /\ up /\ up' = FALSE /\ draining' = FALSE
    /\ IF draining THEN UNCHANGED troubles
                   ELSE troubles < MaxTroubles /\ troubles' = troubles + 1
    /\ due' = [s \in Sweeper |-> {}] /\ hand' = [s \in Sweeper |-> None]
    /\ stage' = [s \in Sweeper |-> "idle"] /\ skipping' = [s \in Sweeper |-> FALSE]
    /\ editing' = None
    /\ UNCHANGED <<now, row, acts, history>>

Start ==
    /\ ~up /\ up' = TRUE
    /\ UNCHANGED <<now, row, editing, sweep, acts, draining, troubles, history>>

Next ==
    \/ \E r \in Routine, c \in Triggers, d \in Delays \cup {None}, skip \in BOOLEAN : Create(r, c, d, skip)
    \/ \E r \in Routine : Open(r) \/ SetActive(r) \/ Delete(r)
    \/ \E c \in Triggers, d \in Delays \cup {None}, skip \in BOOLEAN : Save(c, d, skip)
    \/ Sweep \/ Post
    \/ \E s \in Sweeper : (\E k \in due[s] : Ask(s, k)) \/ Move(s) \/ MoveFails(s) \/ Fire(s)
    \/ \E a \in Agent : Acts(a)
    \/ Tick \/ Drain \/ Ends \/ Start

\* Sweepers are tasks, a drain is bounded, and a service manager starts the host.
Fairness ==
    /\ WF_vars(Sweep) /\ WF_vars(Start) /\ WF_vars(draining /\ Ends)
    /\ \A s \in Sweeper : WF_vars(\E k \in due[s] : Ask(s, k)) /\ WF_vars(Move(s)) /\ WF_vars(Fire(s))

Spec == Init /\ [][Next]_vars
FairSpec == Spec /\ Fairness

-----------------------------------------------------------------------------
(* "A machine asleep through Tuesday and Wednesday should wake and fire     *)
(* once on Thursday": a slot somebody wrote is fired once, and a routine    *)
(* not twice for the days it slept through, whatever ends, fails or is      *)
(* switched off and on in between (next_after, routine_ran, sweep_schedule).*)
FiresOnce ==
    stage["clock"] = "moved" =>
        LET k == hand["clock"] IN
        \A f \in fired[k.id] : f.write = k.write => f.slot # k.row.slot /\ f.at < k.at

(* "Or the label and the firing disagree": a clock holds a slot and an event *)
(* none, no weekday routine is due on a weekend, and a weekly one keeps the  *)
(* weekday it was given (next_slot_for, after_running).  The exception is a  *)
(* row edited while a sweeper already held its copy.                         *)
LabelHolds ==
    \A r \in Routine : row[r] # None /\ r \notin overtaken =>
        /\ row[r].trigger = "event" <=> row[r].slot = None
        /\ row[r].trigger = "weekdays" => row[r].slot \notin Weekend
        /\ row[r].trigger = "weekly" => (row[r].slot - anchor[r]) % Week = 0

(* "Counted from the anchor every time ... so a monthly routine set on the   *)
(* 31st is the 28th in February and the 31st again in March": a monthly      *)
(* routine keeps the day of the month it was given (nth_date).               *)
KeepsItsDay ==
    \A r \in Routine : row[r] # None /\ row[r].trigger = "monthly" /\ r \notin overtaken =>
        LET slot == row[r].slot IN
        Calendar[slot].day = Least({Calendar[anchor[r]].day, DaysIn(Calendar[slot].month)})

(* What is due is fired or skipped, moved or taken off, across drains,       *)
(* crashes and a store that fails: no slot is left behind (sweep_schedule).  *)
DueFires == \A r \in Routine : Due(r) ~> ~Due(r)
=============================================================================
