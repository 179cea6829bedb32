--------------------------- MODULE ScheduleProofs ---------------------------
(* A slot somebody wrote is fired once, and the slot of a row is one its     *)
(* label fires on: for all calendars, routines, edits, crashes and failures  *)
(* of the store.                                                             *)
EXTENDS Schedule, WellFoundedInduction, TLAPS

\* What the clock's rounds hold: the rows they are yet to reach, and the one they are on.
Held(k) == k \in due["clock"] \/ (stage["clock"] # "idle" /\ k = hand["clock"])

\* A firing was of a slot that had come, for a row already written.
Fired ==
    \A r \in Routine : \A f \in fired[r] : f.slot <= f.at /\ f.write <= writes[r]

\* A row's slot is past the last day its own slots were fired on.
Ahead ==
    \A r \in Routine : row[r] # None /\ row[r].slot # None =>
        \A f \in fired[r] : f.write = writes[r] => f.at < row[r].slot

\* A copy in the clock's hands was due when it was read, is as new as anything fired
\* of its routine, and is not of a slot already fired.
Carried ==
    \A k \in Copy : Held(k) =>
        /\ k.row.slot \in 0..k.at /\ k.write <= writes[k.id]
        /\ \A f \in fired[k.id] : f.write <= k.write /\ (f.write = k.write => f.at < k.row.slot)

\* The clock holds one copy of a routine.
Single == \A j, k \in Copy : Held(j) /\ Held(k) /\ j.id = k.id => j = k

\* The copy it is on is not also one it has yet to reach.
Taken == stage["clock"] # "idle" => hand["clock"] \notin due["clock"]

\* Once moved, the row is past the day the copy was read on.
Moved ==
    stage["clock"] = "moved" =>
        LET k == hand["clock"] IN
        k.write = writes[k.id] /\ row[k.id] # None /\ row[k.id].slot # None => k.at < row[k.id].slot

\* A receiver holds events only.
Received ==
    \A k \in Copy : k \in due["receiver"] \/ (stage["receiver"] # "idle" /\ k = hand["receiver"]) =>
        k.row.trigger = "event"

\* A row there is was written, and the row an edit holds can be written once more.
Counted ==
    /\ \A r \in Routine : row[r] # None => writes[r] > 0
    /\ editing # None => writes[editing[1]] \in 1..(MaxWrites - 1)

ScheduleInv == TypeOK /\ Counted /\ Fired /\ Ahead /\ Carried /\ Single /\ Taken /\ Moved /\ Received
-----------------------------------------------------------------------------
(* When a cadence falls due.                                                *)

LEMMA LeastOfSet ==
    ASSUME NEW S \in SUBSET Nat, S # {}
    PROVE  Least(S) \in S /\ \A y \in S : Least(S) <= y
<1>1. PICK x \in S : \A y \in S : ~(<<y, x>> \in OpToRel(<, Nat))
  BY NatLessThanWellFounded, WFMin
<1>2. \A y \in S : ~(<<y, x>> \in {ss \in Nat \X Nat : ss[1] < ss[2]})
  BY <1>1 DEF OpToRel
<1>3. \A y \in S : ~(y < x)
  BY <1>2
<1>4. \A y \in S : x <= y
  BY <1>3
<1> QED
  BY <1>4 DEF Least

\* The next slot of a cadence that repeats is a day, and past now.
LEMMA NextAfterIsAhead ==
    ASSUME NEW c \in Triggers, c \notin {"once", "event"}, NEW t \in 0..Horizon, NEW slot \in Nat,
           c # "every" => slot \in 0..Horizon \/ (c = "weekdays" /\ slot \in Weekend)
    PROVE  NextAfter(c, slot, t) \in Nat /\ NextAfter(c, slot, t) > t
<1>0. t \in Nat /\ Gap \in Nat \ {0}
  BY ScheduleAssumption
<1>1. CASE c = "every"
  BY <1>0, <1>1 DEF NextAfter
<1>2. CASE c # "every"
  <2> DEFINE S == {d \in Day : d > slot /\ d > t /\ Falls(c, slot, d)}
  <2>1. c \in Triggers \cap {"daily", "weekly", "weekdays", "monthly"}
    BY <1>2, ScheduleAssumption DEF Cadence
  <2>2. slot \in 0..Horizon \cup (IF c = "weekdays" THEN Weekend ELSE {})
    BY <1>2
  <2>3. S # {}
    BY <2>1, CalendarGoesOn
  <2>4. S \in SUBSET Nat
    BY ScheduleAssumption
  <2> HIDE DEF S
  <2>5. Least(S) \in S
    BY <2>3, <2>4, LeastOfSet
  <2>6. NextAfter(c, slot, t) = Least(S)
    BY <1>2 DEF NextAfter, S
  <2>7. Least(S) \in Day /\ Least(S) > t
    BY <2>5 DEF S
  <2> QED
    BY <2>6, <2>7, ScheduleAssumption
<1> QED
  BY <1>1, <1>2

LEMMA FirstRunIsASlot ==
    ASSUME now \in 0..Horizon, NEW c \in Triggers, NEW delay \in Delays \cup {None}
    PROVE  FirstRun(c, delay) \in Nat \cup {None}
<1> DEFINE start == IF delay = None THEN now ELSE now + delay
<1>1. start \in Nat /\ (delay = None => start \in 0..Horizon)
  BY ScheduleAssumption
<1> HIDE DEF start
<1>2. CASE c = "event" \/ c = "once" \/ (delay # None /\ Accepts(c, start))
  BY <1>1, <1>2 DEF FirstRun, start
<1>3. CASE ~(c = "event" \/ c = "once" \/ (delay # None /\ Accepts(c, start)))
  <2>1. (c = "weekdays" /\ start \in Weekend) \/ delay = None
    BY <1>3 DEF Accepts
  <2>2. NextAfter(c, start, now) \in Nat
    BY <1>1, <1>3, <2>1, NextAfterIsAhead
  <2> QED
    BY <1>3, <2>2 DEF FirstRun, start
<1> QED
  BY <1>2, <1>3

LEMMA NextSlotIsASlot ==
    ASSUME now \in 0..Horizon, NEW c \in Triggers, NEW delay \in Delays \cup {None},
           NEW slot \in Nat \cup {None}
    PROVE  NextSlotFor(c, slot, delay) \in Nat \cup {None}
<1>1. CASE c = "event" \/ delay # None \/ slot = None
  BY <1>1, FirstRunIsASlot DEF NextSlotFor
<1>2. CASE ~(c = "event" \/ delay # None \/ slot = None)
  <2>1. CASE Accepts(c, slot)
    BY <1>2, <2>1 DEF NextSlotFor
  <2>2. CASE ~Accepts(c, slot)
    <3>1. c = "weekdays" /\ slot \in Weekend /\ slot \in Nat
      BY <1>2, <2>2 DEF Accepts
    <3>2. NextAfter(c, slot, now) \in Nat
      BY <3>1, NextAfterIsAhead
    <3> QED
      BY <1>2, <3>2 DEF NextSlotFor
  <2> QED
    BY <2>1, <2>2
<1> QED
  BY <1>1, <1>2

\* What has run is taken off, has no slot, or has one past the day it ran on.
LEMMA RanIsAhead ==
    ASSUME NEW old \in Row, NEW t \in 0..Horizon, old.slot \in 0..t \/ old.trigger = "event"
    PROVE  Ran(old, t) # None =>
              \/ Ran(old, t).slot = None
              \/ /\ Ran(old, t).slot \in Nat /\ Ran(old, t).slot > t
                 /\ old.trigger # "event"
<1>1. CASE old.trigger = "event" \/ old.trigger = "once"
  BY <1>1 DEF Ran
<1>2. CASE ~(old.trigger = "event" \/ old.trigger = "once")
  <2>1. old.slot \in 0..Horizon /\ old.slot \in Nat /\ old.slot # None /\ old.trigger \in Triggers
    BY <1>2, ScheduleAssumption DEF Row
  <2>2. NextAfter(old.trigger, old.slot, t) \in Nat /\ NextAfter(old.trigger, old.slot, t) > t
    BY <1>2, <2>1, NextAfterIsAhead
  <2>3. Ran(old, t).slot = NextAfter(old.trigger, old.slot, t)
    BY <1>2, <2>1 DEF Ran
  <2> QED
    BY <1>2, <2>2, <2>3
<1> QED
  BY <1>1, <1>2
-----------------------------------------------------------------------------
(* Every step preserves the invariant.                                      *)

\* A row written by hand starts a count of its own.
LEMMA WrittenKeeps ==
    ASSUME ScheduleInv, NEW r \in Routine, NEW new \in Row, writes[r] < MaxWrites,
           Written(r, new), UNCHANGED <<now, sweep, host>>,
           editing' \in {editing, None}, writes[r] = 0 \/ editing' = None
    PROVE  ScheduleInv'
<1>1. TypeOK'
  BY ScheduleAssumption DEF ScheduleInv, TypeOK, Row, Written, sweep, host
<1>2. Counted'
  BY DEF ScheduleInv, Counted, TypeOK, Written
<1>3. Fired'
  BY DEF ScheduleInv, Fired, TypeOK, Firing, Written
<1>4. Ahead'
  <2> SUFFICES ASSUME NEW q \in Routine, (row[q] # None /\ row[q].slot # None)',
                      NEW f \in fired[q], f.write = writes'[q]
               PROVE  f.at < row'[q].slot
    BY DEF Ahead, Written
  <2>1. f.write <= writes[q] /\ writes[q] \in Nat /\ f.write \in Nat
    BY DEF ScheduleInv, Fired, TypeOK, Firing
  <2>2. q # r
    BY <2>1 DEF Written, ScheduleInv, TypeOK
  <2> QED
    BY <2>2 DEF Written, ScheduleInv, Ahead
<1>5. Carried'
  BY DEF ScheduleInv, Carried, TypeOK, Copy, Held, Written, sweep
<1>6. Single'
  BY DEF ScheduleInv, Single, Held, sweep
<1>7. Taken'
  BY DEF ScheduleInv, Taken, sweep
<1>8. Moved'
  <2> DEFINE k == hand["clock"]
  <2> SUFFICES ASSUME stage["clock"] = "moved", k.write = writes'[k.id],
                      row'[k.id] # None, row'[k.id].slot # None
               PROVE  k.at < row'[k.id].slot
    BY DEF Moved, sweep
  <2>1. k \in Copy
    BY DEF ScheduleInv, TypeOK, Sweeper
  <2>2. k.write <= writes[k.id] /\ k.write \in Nat /\ writes[k.id] \in Nat /\ k.id \in Routine
    BY <2>1 DEF ScheduleInv, Carried, Held, TypeOK, Copy
  <2> HIDE DEF k
  <2>3. k.id # r
    BY <2>2 DEF Written, ScheduleInv, TypeOK
  <2>4. row'[k.id] = row[k.id] /\ writes'[k.id] = writes[k.id]
    BY <2>3 DEF Written
  <2> QED
    BY <2>4 DEF ScheduleInv, Moved, k
<1>9. Received'
  BY DEF ScheduleInv, Received, sweep
<1> QED
  BY <1>1, <1>2, <1>3, <1>4, <1>5, <1>6, <1>7, <1>8, <1>9 DEF ScheduleInv

LEMMA OpenKeeps ==
    ASSUME ScheduleInv, NEW r \in Routine, Open(r)
    PROVE  ScheduleInv'
<1>1. TypeOK'
  BY DEF ScheduleInv, TypeOK, Open, sweep, host, history
<1>2. Counted'
  <2>1. writes[r] > 0 /\ writes[r] \in Nat /\ writes[r] < MaxWrites /\ MaxWrites \in Nat
    BY ScheduleAssumption DEF ScheduleInv, Counted, Open, TypeOK
  <2>2. editing'[1] = r /\ writes' = writes /\ row' = row
    BY DEF Open, history
  <2>3. writes'[editing'[1]] \in 1..(MaxWrites - 1)
    BY <2>1, <2>2
  <2> QED
    BY <2>2, <2>3 DEF ScheduleInv, Counted
<1>3. Fired'
  BY DEF ScheduleInv, Fired, Open, history
<1>4. Ahead'
  BY DEF ScheduleInv, Ahead, Open, history
<1>5. Carried'
  BY DEF ScheduleInv, Carried, Held, Open, sweep, history
<1>6. Single'
  BY DEF ScheduleInv, Single, Held, Open, sweep
<1>7. Taken'
  BY DEF ScheduleInv, Taken, Open, sweep
<1>8. Moved'
  BY DEF ScheduleInv, Moved, Open, sweep, history
<1>9. Received'
  BY DEF ScheduleInv, Received, Open, sweep
<1> QED
  BY <1>1, <1>2, <1>3, <1>4, <1>5, <1>6, <1>7, <1>8, <1>9 DEF ScheduleInv

LEMMA SetActiveKeeps ==
    ASSUME ScheduleInv, NEW r \in Routine, SetActive(r)
    PROVE  ScheduleInv'
<1>1. TypeOK'
  <2>1. row[r] \in Row
    BY DEF ScheduleInv, TypeOK, SetActive
  <2>2. row[r].active \in BOOLEAN
    BY <2>1 DEF Row
  <2>3. [row[r] EXCEPT !.active = ~row[r].active] \in Row
    BY <2>1 DEF Row
  <2>4. row' \in [Routine -> Row \cup {None}]
    BY <2>3 DEF ScheduleInv, TypeOK, SetActive
  <2> QED
    BY <2>4 DEF ScheduleInv, TypeOK, SetActive, sweep, host, history
<1>2. Counted'
  BY DEF ScheduleInv, Counted, SetActive, history
<1>3. Fired'
  BY DEF ScheduleInv, Fired, SetActive, history
<1>4. Ahead'
  BY DEF ScheduleInv, Ahead, SetActive, history
<1>5. Carried'
  BY DEF ScheduleInv, Carried, Held, SetActive, sweep, history
<1>6. Single'
  BY DEF ScheduleInv, Single, Held, SetActive, sweep
<1>7. Taken'
  BY DEF ScheduleInv, Taken, SetActive, sweep
<1>8. Moved'
  BY DEF ScheduleInv, Moved, SetActive, sweep, history
<1>9. Received'
  BY DEF ScheduleInv, Received, SetActive, sweep
<1> QED
  BY <1>1, <1>2, <1>3, <1>4, <1>5, <1>6, <1>7, <1>8, <1>9 DEF ScheduleInv

LEMMA DeleteKeeps ==
    ASSUME ScheduleInv, NEW r \in Routine, Delete(r)
    PROVE  ScheduleInv'
<1>1. TypeOK'
  BY DEF ScheduleInv, TypeOK, Delete, sweep, host, history
<1>2. Counted'
  BY DEF ScheduleInv, Counted, Delete, history
<1>3. Fired'
  BY DEF ScheduleInv, Fired, Delete, history
<1>4. Ahead'
  BY DEF ScheduleInv, Ahead, Delete, history
<1>5. Carried'
  BY DEF ScheduleInv, Carried, Held, Delete, sweep, history
<1>6. Single'
  BY DEF ScheduleInv, Single, Held, Delete, sweep
<1>7. Taken'
  BY DEF ScheduleInv, Taken, Delete, sweep
<1>8. Moved'
  BY DEF ScheduleInv, Moved, Delete, sweep, history
<1>9. Received'
  BY DEF ScheduleInv, Received, Delete, sweep
<1> QED
  BY <1>1, <1>2, <1>3, <1>4, <1>5, <1>6, <1>7, <1>8, <1>9 DEF ScheduleInv

LEMMA ReadsKeeps ==
    ASSUME ScheduleInv, NEW s \in Sweeper, NEW rows \in SUBSET Routine, \A r \in rows : row[r] # None,
           s = "clock" => \A r \in rows : row[r].slot \in 0..now,
           s = "receiver" => \A r \in rows : row[r].trigger = "event",
           Reads(s, rows)
    PROVE  ScheduleInv'
<1>1. TypeOK'
  BY DEF ScheduleInv, TypeOK, Copy, Reads, host, history
<1>2. Counted'
  BY DEF ScheduleInv, Counted, Reads, history
<1>3. Fired'
  BY DEF ScheduleInv, Fired, Reads, history
<1>4. Ahead'
  BY DEF ScheduleInv, Ahead, Reads, history
<1>5. Carried'
  <2> SUFFICES ASSUME NEW k \in Copy, Held(k)'
               PROVE  /\ k.row.slot \in 0..k.at /\ k.write <= writes[k.id]
                      /\ \A f \in fired[k.id] :
                            f.write <= k.write /\ (f.write = k.write => f.at < k.row.slot)
    BY DEF Carried, Reads, history
  <2>1. CASE Held(k)
    BY <2>1 DEF ScheduleInv, Carried
  <2>2. CASE ~Held(k)
    <3>1. s = "clock" /\ k \in due'["clock"]
      BY <2>2 DEF Held, Reads
    <3>2. PICK r \in rows : k = [id |-> r, row |-> row[r], write |-> writes[r], at |-> now]
      BY <3>1 DEF Reads
    <3>3. r \in Routine /\ row[r] # None /\ row[r] \in Row /\ row[r].slot \in 0..now
      BY <3>1 DEF ScheduleInv, TypeOK
    <3>4. row[r].slot # None
      BY <3>3, ScheduleAssumption
    <3>5. \A f \in fired[r] : f.write \in Nat /\ f.write <= writes[r]
      BY DEF ScheduleInv, Fired, TypeOK, Firing
    <3>6. \A f \in fired[r] : f.write = writes[r] => f.at < row[r].slot
      BY <3>4 DEF ScheduleInv, Ahead
    <3>7. writes[r] <= writes[r]
      BY DEF ScheduleInv, TypeOK
    <3> QED
      BY <3>2, <3>3, <3>5, <3>6, <3>7
  <2> QED
    BY <2>1, <2>2
<1>6. Single'
  BY DEF ScheduleInv, Single, Held, Reads
<1>7. Taken'
  BY DEF ScheduleInv, Taken, Reads
<1>8. Moved'
  BY DEF ScheduleInv, Moved, Reads, history
<1>9. Received'
  BY DEF ScheduleInv, Received, Reads
<1> QED
  BY <1>1, <1>2, <1>3, <1>4, <1>5, <1>6, <1>7, <1>8, <1>9 DEF ScheduleInv

LEMMA AskKeeps ==
    ASSUME ScheduleInv, NEW s \in Sweeper, NEW k \in due[s], Ask(s, k)
    PROVE  ScheduleInv'
<1>1. TypeOK'
  BY DEF ScheduleInv, TypeOK, Ask, Goto, host, history
<1>2. Counted'
  BY DEF ScheduleInv, Counted, Ask, history
<1>3. Fired'
  BY DEF ScheduleInv, Fired, Ask, history
<1>4. Ahead'
  BY DEF ScheduleInv, Ahead, Ask, history
<1>5. Carried'
  BY DEF ScheduleInv, Carried, TypeOK, Held, Ask, Goto, history
<1>6. Single'
  BY DEF ScheduleInv, Single, TypeOK, Held, Ask, Goto
<1>7. Taken'
  BY DEF ScheduleInv, Taken, TypeOK, Ask, Goto
<1>8. Moved'
  BY DEF ScheduleInv, Moved, Ask, Goto, history
<1>9. Received'
  BY DEF ScheduleInv, Received, TypeOK, Ask, Goto
<1> QED
  BY <1>1, <1>2, <1>3, <1>4, <1>5, <1>6, <1>7, <1>8, <1>9 DEF ScheduleInv

LEMMA MoveKeeps ==
    ASSUME ScheduleInv, NEW s \in Sweeper, Move(s)
    PROVE  ScheduleInv'
<1>1. TypeOK'
  <2> DEFINE k == hand[s]
             new == Ran(k.row, k.at)
  <2>1. k \in Copy /\ k.id \in Routine /\ k.row \in Row /\ k.at \in 0..Horizon
    BY DEF ScheduleInv, TypeOK, Move, Copy
  <2>2. k.row.slot \in 0..k.at \/ k.row.trigger = "event"
    BY <2>1 DEF ScheduleInv, Carried, Received, Held, Sweeper, Move
  <2>3. new # None => \/ new.slot = None
                      \/ /\ new.slot \in Nat /\ new.slot > k.at
                         /\ k.row.trigger # "event"
    BY <2>1, <2>2, RanIsAhead
  <2>4. row' = [row EXCEPT ![k.id] = IF @ = None THEN None ELSE
                             IF new = None THEN None ELSE [@ EXCEPT !.slot = new.slot]]
    BY DEF Move
  <2> HIDE DEF k, new

  <2>5. row[k.id] # None /\ new # None => [row[k.id] EXCEPT !.slot = new.slot] \in Row
    <3> SUFFICES ASSUME row[k.id] # None, new # None
                 PROVE  [row[k.id] EXCEPT !.slot = new.slot] \in Row
      OBVIOUS
    <3>1. row[k.id] \in Row
      BY <2>1 DEF ScheduleInv, TypeOK
    <3>2. new.slot \in Nat \cup {None}
      BY <2>3
    <3> QED
      BY <3>1, <3>2 DEF Row
  <2>6. row' \in [Routine -> Row \cup {None}]
    BY <2>4, <2>5 DEF ScheduleInv, TypeOK
  <2>7. stage' \in [Sweeper -> {"idle", "asked", "moved"}]
    BY DEF ScheduleInv, TypeOK, Move, Goto
  <2>8. \A z \in Sweeper : stage'[z] # "idle" => hand'[z] \in Copy
    BY DEF ScheduleInv, TypeOK, Move, Goto
  <2> QED
    BY <2>6, <2>7, <2>8 DEF ScheduleInv, TypeOK, Move, host, history
<1>2. Counted'
  BY DEF ScheduleInv, Counted, Move, history
<1>3. Fired'
  BY DEF ScheduleInv, Fired, Move, history
<1>4. Ahead'
  <2> DEFINE k == hand[s]
             new == Ran(k.row, k.at)
  <2>1. k \in Copy /\ k.id \in Routine /\ k.row \in Row /\ k.at \in 0..Horizon
    BY DEF ScheduleInv, TypeOK, Move, Copy
  <2>2. k.row.slot \in 0..k.at \/ k.row.trigger = "event"
    BY <2>1 DEF ScheduleInv, Carried, Received, Held, Sweeper, Move
  <2>3. new # None => \/ new.slot = None
                      \/ /\ new.slot \in Nat /\ new.slot > k.at
                         /\ k.row.trigger # "event"
    BY <2>1, <2>2, RanIsAhead
  <2>4. row' = [row EXCEPT ![k.id] = IF @ = None THEN None ELSE
                             IF new = None THEN None ELSE [@ EXCEPT !.slot = new.slot]]
    BY DEF Move
  <2> HIDE DEF k, new

  <2> SUFFICES ASSUME NEW r \in Routine, (row[r] # None /\ row[r].slot # None)',
                      NEW f \in fired[r], f.write = writes[r]
               PROVE  f.at < row'[r].slot
    BY DEF Ahead, Move, history
  <2>5. CASE r # k.id
    BY <2>4, <2>5 DEF ScheduleInv, Ahead
  <2>6. CASE r = k.id
    <3>1. row[r] # None /\ row[r] \in Row
      BY <2>4 DEF ScheduleInv, TypeOK
    <3>2. new # None /\ row'[r].slot = new.slot
      BY <2>4, <2>6 DEF ScheduleInv, TypeOK
    <3>3. new.slot \in Nat /\ new.slot > k.at /\ k.row.trigger # "event"
      BY <2>3, <3>2
    <3>4. s = "clock" /\ Held(k)
      BY <2>1, <3>3 DEF ScheduleInv, Received, Sweeper, Held, Move, k
    <3>5. k.row.slot \in 0..k.at /\ k.write <= writes[r]
      BY <2>1, <2>6, <3>4 DEF ScheduleInv, Carried
    <3>6. f.write <= k.write /\ (f.write = k.write => f.at < k.row.slot)
      BY <2>1, <2>6, <3>4 DEF ScheduleInv, Carried
    <3>7. f \in Firing /\ writes[r] \in Nat /\ k.write \in Nat /\ k.at \in Nat
      BY <2>1 DEF ScheduleInv, TypeOK, Copy
    <3>8. f.write \in Nat /\ f.at \in Nat
      BY <3>7 DEF Firing
    <3>9. f.write = k.write
      BY <3>5, <3>6, <3>7
    <3> QED
      BY <3>2, <3>3, <3>5, <3>6, <3>7, <3>8
  <2> QED
    BY <2>5, <2>6
<1>5. Carried'
  BY DEF ScheduleInv, Carried, TypeOK, Copy, Row, Firing, Held, Sweeper, Move, Goto, sweep, host, history
<1>6. Single'
  BY DEF ScheduleInv, Single, Held, Move, Goto
<1>7. Taken'
  BY DEF ScheduleInv, Taken, Move, Goto
<1>8. Moved'
  <2> DEFINE k == hand[s]
             new == Ran(k.row, k.at)
  <2>1. k \in Copy /\ k.id \in Routine /\ k.row \in Row /\ k.at \in 0..Horizon
    BY DEF ScheduleInv, TypeOK, Move, Copy
  <2>2. k.row.slot \in 0..k.at \/ k.row.trigger = "event"
    BY <2>1 DEF ScheduleInv, Carried, Received, Held, Sweeper, Move
  <2>3. new # None => \/ new.slot = None
                      \/ /\ new.slot \in Nat /\ new.slot > k.at
                         /\ k.row.trigger # "event"
    BY <2>1, <2>2, RanIsAhead
  <2>4. row' = [row EXCEPT ![k.id] = IF @ = None THEN None ELSE
                             IF new = None THEN None ELSE [@ EXCEPT !.slot = new.slot]]
    BY DEF Move
  <2> HIDE DEF k, new

  <2>0. hand' = hand /\ writes' = writes
    BY DEF Move, history
  <2>5. CASE s = "clock"
    <3> SUFFICES ASSUME row'[k.id] # None, row'[k.id].slot # None
                 PROVE  k.at < row'[k.id].slot
      BY <2>0, <2>5 DEF Moved, k
    <3>1. row[k.id] # None /\ row[k.id] \in Row
      BY <2>1, <2>4 DEF ScheduleInv, TypeOK
    <3>2. new # None /\ row'[k.id].slot = new.slot
      BY <2>1, <2>4 DEF ScheduleInv, TypeOK
    <3>3. new.slot \in Nat /\ new.slot > k.at
      BY <2>3, <3>2
    <3>4. k.at \in Nat
      BY <2>1
    <3> QED
      BY <3>2, <3>3
  <2>6. CASE s = "receiver"
    <3> DEFINE c == hand["clock"]
    <3>1. k.row.trigger = "event"
      BY <2>1, <2>6 DEF ScheduleInv, Received, Move, k
    <3>2. new # None => new.slot = None
      BY <2>3, <3>1
    <3> SUFFICES ASSUME stage["clock"] = "moved", c.write = writes[c.id],
                        row'[c.id] # None, row'[c.id].slot # None
                 PROVE  c.at < row'[c.id].slot
      BY <2>0, <2>6 DEF Moved, Move, Goto, ScheduleInv, TypeOK, Sweeper
    <3>3. c \in Copy /\ c.id \in Routine
      BY DEF ScheduleInv, TypeOK, Sweeper, Copy
    <3> HIDE DEF c
    <3>4. row'[c.id] = row[c.id]
      <4>1. CASE c.id # k.id
        BY <2>4, <4>1
      <4>2. CASE c.id = k.id
        <5>1. row[k.id] # None /\ row[k.id] \in Row /\ new # None
          BY <2>1, <2>4, <4>2 DEF ScheduleInv, TypeOK
        <5>2. row'[k.id].slot = new.slot
          BY <2>1, <2>4, <5>1 DEF ScheduleInv, TypeOK
        <5> QED
          BY <3>2, <4>2, <5>1, <5>2
      <4> QED
        BY <4>1, <4>2
    <3> QED
      BY <3>4 DEF ScheduleInv, Moved, c
  <2> QED
    BY <2>5, <2>6 DEF Sweeper
<1>9. Received'
  BY DEF ScheduleInv, Received, Move, Goto
<1> QED
  BY <1>1, <1>2, <1>3, <1>4, <1>5, <1>6, <1>7, <1>8, <1>9 DEF ScheduleInv

LEMMA MoveFailsKeeps ==
    ASSUME ScheduleInv, NEW s \in Sweeper, MoveFails(s)
    PROVE  ScheduleInv'
<1>1. TypeOK'
  BY ScheduleAssumption DEF ScheduleInv, TypeOK, MoveFails, Done, Goto, history
<1>2. Counted'
  BY DEF ScheduleInv, Counted, MoveFails, history
<1>3. Fired'
  BY DEF ScheduleInv, Fired, MoveFails, history
<1>4. Ahead'
  BY DEF ScheduleInv, Ahead, MoveFails, history
<1>5. Carried'
  BY DEF ScheduleInv, Carried, TypeOK, Held, MoveFails, Done, Goto, history
<1>6. Single'
  BY DEF ScheduleInv, Single, TypeOK, Held, MoveFails, Done, Goto
<1>7. Taken'
  BY DEF ScheduleInv, Taken, TypeOK, MoveFails, Done, Goto
<1>8. Moved'
  BY DEF ScheduleInv, Moved, MoveFails, Done, Goto, history
<1>9. Received'
  BY DEF ScheduleInv, Received, TypeOK, MoveFails, Done, Goto
<1> QED
  BY <1>1, <1>2, <1>3, <1>4, <1>5, <1>6, <1>7, <1>8, <1>9 DEF ScheduleInv

LEMMA FireKeeps ==
    ASSUME ScheduleInv, NEW s \in Sweeper, Fire(s)
    PROVE  ScheduleInv'
<1>1. TypeOK'
  <2> DEFINE k == hand[s]
             f0 == [write |-> k.write, slot |-> k.row.slot, at |-> k.at]
  <2>1. k \in Copy /\ k.id \in Routine /\ k.row \in Row /\ k.at \in 0..Horizon /\ k.write \in Nat
    BY DEF ScheduleInv, TypeOK, Fire, Copy
  <2>2. \/ fired' = fired
        \/ s = "clock" /\ fired' = [fired EXCEPT ![k.id] = @ \cup {f0}]
    BY DEF Fire
  <2>3. s = "clock" => Held(k)
    BY DEF Held, Fire
  <2>4. s = "clock" => k.row.slot \in 0..k.at /\ k.write <= writes[k.id]
    BY <2>1, <2>3 DEF ScheduleInv, Carried
  <2>5. f0.write = k.write /\ f0.slot = k.row.slot /\ f0.at = k.at
    OBVIOUS
  <2>6. s = "clock" => f0 \in Firing
    BY <2>1, <2>4 DEF Firing
  <2> HIDE DEF k, f0
  <2>7. \A r \in Routine : fired'[r] = fired[r] \/ (s = "clock" /\ r = k.id /\ fired'[r] = fired[r] \cup {f0})
    BY <2>2 DEF ScheduleInv, TypeOK

  <2>8. fired' \in [Routine -> SUBSET Firing]
    BY <2>2, <2>6 DEF ScheduleInv, TypeOK
  <2>9. /\ hand' \in [Sweeper -> Copy \cup {None}]
        /\ stage' \in [Sweeper -> {"idle", "asked", "moved"}]
        /\ \A z \in Sweeper : stage'[z] # "idle" => hand'[z] \in Copy
    BY DEF ScheduleInv, TypeOK, Fire, Done, Goto
  <2>10. skipping' \in [Sweeper -> BOOLEAN]
    BY DEF ScheduleInv, TypeOK, Fire, Done
  <2> QED
    BY <2>8, <2>9, <2>10 DEF ScheduleInv, TypeOK, Fire
<1>2. Counted'
  BY DEF ScheduleInv, Counted, Fire
<1>3. Fired'
  <2> DEFINE k == hand[s]
             f0 == [write |-> k.write, slot |-> k.row.slot, at |-> k.at]
  <2>1. k \in Copy /\ k.id \in Routine /\ k.row \in Row /\ k.at \in 0..Horizon /\ k.write \in Nat
    BY DEF ScheduleInv, TypeOK, Fire, Copy
  <2>2. \/ fired' = fired
        \/ s = "clock" /\ fired' = [fired EXCEPT ![k.id] = @ \cup {f0}]
    BY DEF Fire
  <2>3. s = "clock" => Held(k)
    BY DEF Held, Fire
  <2>4. s = "clock" => k.row.slot \in 0..k.at /\ k.write <= writes[k.id]
    BY <2>1, <2>3 DEF ScheduleInv, Carried
  <2>5. f0.write = k.write /\ f0.slot = k.row.slot /\ f0.at = k.at
    OBVIOUS
  <2>6. s = "clock" => f0 \in Firing
    BY <2>1, <2>4 DEF Firing
  <2> HIDE DEF k, f0
  <2>7. \A r \in Routine : fired'[r] = fired[r] \/ (s = "clock" /\ r = k.id /\ fired'[r] = fired[r] \cup {f0})
    BY <2>2 DEF ScheduleInv, TypeOK

  <2> SUFFICES ASSUME NEW r \in Routine, NEW f \in fired'[r]
               PROVE  f.slot <= f.at /\ f.write <= writes[r]
    BY DEF Fired, Fire
  <2>8. CASE f \in fired[r]
    BY <2>8 DEF ScheduleInv, Fired
  <2>9. CASE s = "clock" /\ r = k.id /\ f = f0
    BY <2>4, <2>5, <2>9
  <2> QED
    BY <2>7, <2>8, <2>9
<1>4. Ahead'
  <2> DEFINE k == hand[s]
             f0 == [write |-> k.write, slot |-> k.row.slot, at |-> k.at]
  <2>1. k \in Copy /\ k.id \in Routine /\ k.row \in Row /\ k.at \in 0..Horizon /\ k.write \in Nat
    BY DEF ScheduleInv, TypeOK, Fire, Copy
  <2>2. \/ fired' = fired
        \/ s = "clock" /\ fired' = [fired EXCEPT ![k.id] = @ \cup {f0}]
    BY DEF Fire
  <2>3. s = "clock" => Held(k)
    BY DEF Held, Fire
  <2>4. s = "clock" => k.row.slot \in 0..k.at /\ k.write <= writes[k.id]
    BY <2>1, <2>3 DEF ScheduleInv, Carried
  <2>5. f0.write = k.write /\ f0.slot = k.row.slot /\ f0.at = k.at
    OBVIOUS
  <2>6. s = "clock" => f0 \in Firing
    BY <2>1, <2>4 DEF Firing
  <2> HIDE DEF k, f0
  <2>7. \A r \in Routine : fired'[r] = fired[r] \/ (s = "clock" /\ r = k.id /\ fired'[r] = fired[r] \cup {f0})
    BY <2>2 DEF ScheduleInv, TypeOK

  <2> SUFFICES ASSUME NEW r \in Routine, row[r] # None, row[r].slot # None,
                      NEW f \in fired'[r], f.write = writes[r]
               PROVE  f.at < row[r].slot
    BY DEF Ahead, Fire
  <2>8. CASE f \in fired[r]
    BY <2>8 DEF ScheduleInv, Ahead
  <2>9. CASE s = "clock" /\ r = k.id /\ f = f0
    BY <2>5, <2>9 DEF ScheduleInv, Moved, Fire, k
  <2> QED
    BY <2>7, <2>8, <2>9
<1>5. Carried'
  <2> DEFINE k == hand[s]
             f0 == [write |-> k.write, slot |-> k.row.slot, at |-> k.at]
  <2>1. k \in Copy /\ k.id \in Routine /\ k.row \in Row /\ k.at \in 0..Horizon /\ k.write \in Nat
    BY DEF ScheduleInv, TypeOK, Fire, Copy
  <2>2. \/ fired' = fired
        \/ s = "clock" /\ fired' = [fired EXCEPT ![k.id] = @ \cup {f0}]
    BY DEF Fire
  <2>3. s = "clock" => Held(k)
    BY DEF Held, Fire
  <2>4. s = "clock" => k.row.slot \in 0..k.at /\ k.write <= writes[k.id]
    BY <2>1, <2>3 DEF ScheduleInv, Carried
  <2>5. f0.write = k.write /\ f0.slot = k.row.slot /\ f0.at = k.at
    OBVIOUS
  <2>6. s = "clock" => f0 \in Firing
    BY <2>1, <2>4 DEF Firing
  <2> HIDE DEF k, f0
  <2>7. \A r \in Routine : fired'[r] = fired[r] \/ (s = "clock" /\ r = k.id /\ fired'[r] = fired[r] \cup {f0})
    BY <2>2 DEF ScheduleInv, TypeOK

  <2> SUFFICES ASSUME NEW j \in Copy, Held(j)'
               PROVE  /\ j.row.slot \in 0..j.at /\ j.write <= writes[j.id]
                      /\ \A f \in fired'[j.id] :
                            f.write <= j.write /\ (f.write = j.write => f.at < j.row.slot)
    BY DEF Carried, Fire
  <2>8. Held(j) /\ (s = "clock" => j \in due["clock"])
    BY DEF Held, Fire, Done, Goto, ScheduleInv, TypeOK
  <2>9. s = "clock" => j.id # k.id
    <3> SUFFICES ASSUME s = "clock", j.id = k.id PROVE FALSE
      OBVIOUS
    <3>1. j = k
      BY <2>1, <2>3, <2>8 DEF ScheduleInv, Single
    <3> QED
      BY <2>8, <3>1 DEF ScheduleInv, Taken, Fire, k
  <2>10. j.id \in Routine
    BY DEF Copy
  <2>11. fired'[j.id] = fired[j.id]
    BY <2>7, <2>9, <2>10
  <2> QED
    BY <2>8, <2>11 DEF ScheduleInv, Carried
<1>6. Single'
  BY DEF ScheduleInv, Single, TypeOK, Held, Fire, Done, Goto
<1>7. Taken'
  BY DEF ScheduleInv, Taken, TypeOK, Fire, Done, Goto
<1>8. Moved'
  BY DEF ScheduleInv, Moved, TypeOK, Fire, Done, Goto
<1>9. Received'
  BY DEF ScheduleInv, Received, TypeOK, Fire, Done, Goto
<1> QED
  BY <1>1, <1>2, <1>3, <1>4, <1>5, <1>6, <1>7, <1>8, <1>9 DEF ScheduleInv

LEMMA ActsKeeps ==
    ASSUME ScheduleInv, NEW a \in Agent, Acts(a)
    PROVE  ScheduleInv'
<1>1. TypeOK'
  BY DEF ScheduleInv, TypeOK, Acts, sweep, history
<1>2. Counted'
  BY DEF ScheduleInv, Counted, Acts, history
<1>3. Fired'
  BY DEF ScheduleInv, Fired, Acts, history
<1>4. Ahead'
  BY DEF ScheduleInv, Ahead, Acts, history
<1>5. Carried'
  BY DEF ScheduleInv, Carried, Held, Acts, sweep, history
<1>6. Single'
  BY DEF ScheduleInv, Single, Held, Acts, sweep
<1>7. Taken'
  BY DEF ScheduleInv, Taken, Acts, sweep
<1>8. Moved'
  BY DEF ScheduleInv, Moved, Acts, sweep, history
<1>9. Received'
  BY DEF ScheduleInv, Received, Acts, sweep
<1> QED
  BY <1>1, <1>2, <1>3, <1>4, <1>5, <1>6, <1>7, <1>8, <1>9 DEF ScheduleInv

LEMMA TickKeeps ==
    ASSUME ScheduleInv, Tick
    PROVE  ScheduleInv'
<1>1. TypeOK'
  BY ScheduleAssumption DEF ScheduleInv, TypeOK, Tick, sweep, host, history
<1>2. Counted'
  BY DEF ScheduleInv, Counted, Tick, history
<1>3. Fired'
  BY DEF ScheduleInv, Fired, Tick, history
<1>4. Ahead'
  BY DEF ScheduleInv, Ahead, Tick, history
<1>5. Carried'
  BY DEF ScheduleInv, Carried, Held, Tick, sweep, history
<1>6. Single'
  BY DEF ScheduleInv, Single, Held, Tick, sweep
<1>7. Taken'
  BY DEF ScheduleInv, Taken, Tick, sweep
<1>8. Moved'
  BY DEF ScheduleInv, Moved, Tick, sweep, history
<1>9. Received'
  BY DEF ScheduleInv, Received, Tick, sweep
<1> QED
  BY <1>1, <1>2, <1>3, <1>4, <1>5, <1>6, <1>7, <1>8, <1>9 DEF ScheduleInv

LEMMA DrainKeeps ==
    ASSUME ScheduleInv, Drain
    PROVE  ScheduleInv'
<1>1. TypeOK'
  BY ScheduleAssumption DEF ScheduleInv, TypeOK, Drain, sweep, history
<1>2. Counted'
  BY DEF ScheduleInv, Counted, Drain, history
<1>3. Fired'
  BY DEF ScheduleInv, Fired, Drain, history
<1>4. Ahead'
  BY DEF ScheduleInv, Ahead, Drain, history
<1>5. Carried'
  BY DEF ScheduleInv, Carried, Held, Drain, sweep, history
<1>6. Single'
  BY DEF ScheduleInv, Single, Held, Drain, sweep
<1>7. Taken'
  BY DEF ScheduleInv, Taken, Drain, sweep
<1>8. Moved'
  BY DEF ScheduleInv, Moved, Drain, sweep, history
<1>9. Received'
  BY DEF ScheduleInv, Received, Drain, sweep
<1> QED
  BY <1>1, <1>2, <1>3, <1>4, <1>5, <1>6, <1>7, <1>8, <1>9 DEF ScheduleInv

LEMMA EndsKeeps ==
    ASSUME ScheduleInv, Ends
    PROVE  ScheduleInv'
<1>1. TypeOK'
  <2>1. /\ due' \in [Sweeper -> SUBSET Copy] /\ hand' \in [Sweeper -> Copy \cup {None}]
        /\ stage' \in [Sweeper -> {"idle", "asked", "moved"}]
        /\ \A z \in Sweeper : stage'[z] = "idle"
    BY DEF Ends
  <2>2. skipping' \in [Sweeper -> BOOLEAN]
    BY DEF Ends
  <2>3. troubles' \in 0..MaxTroubles
    BY ScheduleAssumption DEF Ends, ScheduleInv, TypeOK
  <2> QED
    BY <2>3 DEF Ends, ScheduleInv, TypeOK, history
<1>2. Counted'
  BY DEF ScheduleInv, Counted, Ends, history
<1>3. Fired'
  BY DEF ScheduleInv, Fired, Ends, history
<1>4. Ahead'
  BY DEF ScheduleInv, Ahead, Ends, history
<1>5. Carried'
  BY DEF Carried, Held, Sweeper, Ends
<1>6. Single'
  BY DEF Single, Held, Sweeper, Ends
<1>7. Taken'
  BY DEF Taken, Sweeper, Ends
<1>8. Moved'
  BY DEF Moved, Sweeper, Ends
<1>9. Received'
  BY DEF Received, Sweeper, Ends
<1> QED
  BY <1>1, <1>2, <1>3, <1>4, <1>5, <1>6, <1>7, <1>8, <1>9 DEF ScheduleInv

LEMMA StartKeeps ==
    ASSUME ScheduleInv, Start
    PROVE  ScheduleInv'
<1>1. TypeOK'
  BY DEF ScheduleInv, TypeOK, Start, sweep, history
<1>2. Counted'
  BY DEF ScheduleInv, Counted, Start, history
<1>3. Fired'
  BY DEF ScheduleInv, Fired, Start, history
<1>4. Ahead'
  BY DEF ScheduleInv, Ahead, Start, history
<1>5. Carried'
  BY DEF ScheduleInv, Carried, Held, Start, sweep, history
<1>6. Single'
  BY DEF ScheduleInv, Single, Held, Start, sweep
<1>7. Taken'
  BY DEF ScheduleInv, Taken, Start, sweep
<1>8. Moved'
  BY DEF ScheduleInv, Moved, Start, sweep, history
<1>9. Received'
  BY DEF ScheduleInv, Received, Start, sweep
<1> QED
  BY <1>1, <1>2, <1>3, <1>4, <1>5, <1>6, <1>7, <1>8, <1>9 DEF ScheduleInv

LEMMA ScheduleInvStep == ScheduleInv /\ [Next]_vars => ScheduleInv'
<1> SUFFICES ASSUME ScheduleInv, [Next]_vars PROVE ScheduleInv'
  OBVIOUS
<1>1. CASE UNCHANGED vars
  BY <1>1
     DEF ScheduleInv, TypeOK, Counted, Fired, Ahead, Carried, Single, Taken, Moved, Received, Held,
         vars, sweep, host, history
<1>2. ASSUME NEW r \in Routine, NEW c \in Triggers, NEW d \in Delays \cup {None},
             NEW skip \in BOOLEAN, Create(r, c, d, skip)
      PROVE  ScheduleInv'
  <2> DEFINE new == [trigger |-> c, slot |-> FirstRun(c, d), skip |-> skip, active |-> TRUE]
  <2>1. FirstRun(c, d) \in Nat \cup {None}
    BY FirstRunIsASlot DEF ScheduleInv, TypeOK
  <2>2. new \in Row
    BY <2>1 DEF Row
  <2>3. Written(r, new) /\ writes[r] = 0 /\ writes[r] < MaxWrites /\ editing' = editing
        /\ UNCHANGED <<now, sweep, host>>
    BY <1>2 DEF Create
  <2> HIDE DEF new
  <2> QED
    BY <2>2, <2>3, WrittenKeeps
<1>3. ASSUME NEW c \in Triggers, NEW d \in Delays \cup {None}, NEW skip \in BOOLEAN,
             Save(c, d, skip)
      PROVE  ScheduleInv'
  <2> DEFINE r == editing[1]
             new == [trigger |-> c, skip |-> skip, active |-> row[r].active,
                     slot |-> NextSlotFor(c, editing[2].slot, d)]
  <2>1. r \in Routine /\ editing[2] \in Row /\ writes[r] \in 1..(MaxWrites - 1)
    BY <1>3 DEF Save, ScheduleInv, TypeOK, Counted
  <2>2. UNCHANGED <<now, sweep, host>> /\ editing' = None
    BY <1>3 DEF Save
  <2>3. CASE row[r] = None
    <3>1. UNCHANGED <<row, history>>
      BY <1>3, <2>3 DEF Save
    <3>2. TypeOK'
      BY <2>2, <3>1 DEF ScheduleInv, TypeOK, sweep, host, history
    <3> QED
      BY <2>2, <3>1, <3>2
         DEF ScheduleInv, Counted, Fired, Ahead, Carried, Single, Taken, Moved, Received, Held,
             sweep, history
  <2>4. CASE row[r] # None
    <3>1. NextSlotFor(c, editing[2].slot, d) \in Nat \cup {None}
      BY <2>1, NextSlotIsASlot DEF ScheduleInv, TypeOK, Row
    <3>2. row[r].active \in BOOLEAN
      BY <2>1, <2>4 DEF ScheduleInv, TypeOK, Row
    <3>3. new \in Row
      BY <3>1, <3>2 DEF Row
    <3>4. Written(r, new) /\ writes[r] < MaxWrites
      BY <1>3, <2>1, <2>4, ScheduleAssumption DEF Save
    <3> HIDE DEF new, r
    <3> QED
      BY <2>1, <2>2, <3>3, <3>4, WrittenKeeps
  <2> QED
    BY <2>3, <2>4
<1>4. ASSUME NEW r \in Routine, Open(r) \/ SetActive(r) \/ Delete(r)
      PROVE  ScheduleInv'
  BY <1>4, OpenKeeps, SetActiveKeeps, DeleteKeeps
<1>5. ASSUME Sweep PROVE ScheduleInv'
  <2> DEFINE rows == {r \in Routine : Due(r)}
  <2>1. Reads("clock", rows) /\ rows \in SUBSET Routine
    BY <1>5 DEF Sweep
  <2>2. \A r \in rows : row[r] # None /\ row[r].slot \in 0..now
    BY DEF Due, Standing
  <2> HIDE DEF rows
  <2> QED
    BY <2>1, <2>2, ReadsKeeps DEF Sweeper
<1>6. ASSUME Post PROVE ScheduleInv'
  <2> DEFINE rows == {r \in Routine : Standing(r) /\ row[r].trigger = "event"}
  <2>1. Reads("receiver", rows) /\ rows \in SUBSET Routine
    BY <1>6 DEF Post
  <2>2. \A r \in rows : row[r] # None /\ row[r].trigger = "event"
    BY DEF Standing
  <2> HIDE DEF rows
  <2> QED
    BY <2>1, <2>2, ReadsKeeps DEF Sweeper
<1>7. ASSUME NEW s \in Sweeper, (\E k \in due[s] : Ask(s, k)) \/ Move(s) \/ MoveFails(s) \/ Fire(s)
      PROVE  ScheduleInv'
  BY <1>7, AskKeeps, MoveKeeps, MoveFailsKeeps, FireKeeps
<1>8. ASSUME NEW a \in Agent, Acts(a) PROVE ScheduleInv'
  BY <1>8, ActsKeeps
<1>9. ASSUME Tick \/ Drain \/ Ends \/ Start PROVE ScheduleInv'
  BY <1>9, TickKeeps, DrainKeeps, EndsKeeps, StartKeeps
<1> QED
  BY <1>1, <1>2, <1>3, <1>4, <1>5, <1>6, <1>7, <1>8, <1>9 DEF Next

LEMMA InitIsScheduled == Init => ScheduleInv
<1> SUFFICES ASSUME Init PROVE ScheduleInv
  OBVIOUS
<1>1. TypeOK /\ Counted
  <2>1. now \in 0..Horizon /\ troubles \in 0..MaxTroubles
    BY ScheduleAssumption DEF Init
  <2>2. /\ row \in [Routine -> Row \cup {None}] /\ due \in [Sweeper -> SUBSET Copy]
        /\ hand \in [Sweeper -> Copy \cup {None}] /\ skipping \in [Sweeper -> BOOLEAN]
    BY DEF Init
  <2>3. /\ stage \in [Sweeper -> {"idle", "asked", "moved"}]
        /\ \A s \in Sweeper : stage[s] = "idle"
    BY DEF Init
  <2>4. writes \in [Routine -> 0..MaxWrites]
    BY ScheduleAssumption DEF Init
  <2>5. anchor \in [Routine -> Nat \cup {None}] /\ fired \in [Routine -> SUBSET Firing]
    BY DEF Init
  <2>6. editing = None /\ acts \subseteq Agent /\ up \in BOOLEAN /\ draining \in BOOLEAN
        /\ overtaken \subseteq Routine
    BY DEF Init
  <2>7. Counted
    BY DEF Init, Counted
  <2> QED
    BY <2>1, <2>2, <2>3, <2>4, <2>5, <2>6, <2>7 DEF TypeOK
<1>2. Fired /\ Ahead /\ Taken /\ Moved
  BY DEF Init, Fired, Ahead, Taken, Moved, Sweeper
<1>3. \A k \in Copy : ~Held(k)
  BY DEF Init, Held, Sweeper
<1>4. Carried /\ Single
  BY <1>3 DEF Carried, Single
<1>5. Received
  BY DEF Init, Received, Sweeper
<1> QED
  BY <1>1, <1>2, <1>4, <1>5 DEF ScheduleInv

(* What the rounds of the clock and of the receiver hold agrees with the     *)
(* rows and with what was fired, whatever is edited, ends or fails meanwhile *)
(* (sweep_schedule, deliver_event, routine_ran).                             *)
THEOREM ScheduleInvariant == Spec => []ScheduleInv
<1> QED
  BY InitIsScheduled, ScheduleInvStep, PTL DEF Spec

(* "A machine asleep through Tuesday and Wednesday should wake and fire      *)
(* once": of every routine and on every calendar, a written slot is fired    *)
(* once, and a day that was slept through is not caught up on (next_after).  *)
THEOREM SlotsFireOnce == Spec => []FiresOnce
<1>1. ScheduleInv => FiresOnce
  <2> DEFINE k == hand["clock"]
  <2> SUFFICES ASSUME ScheduleInv, stage["clock"] = "moved",
                      NEW f \in fired[k.id], f.write = k.write
               PROVE  f.slot # k.row.slot /\ f.at < k.at
    BY DEF FiresOnce
  <2>1. k \in Copy /\ k.id \in Routine /\ k.at \in Nat
    BY DEF ScheduleInv, TypeOK, Sweeper, Copy
  <2>2. Held(k)
    BY DEF Held
  <2>3. k.row.slot \in 0..k.at /\ f.at < k.row.slot
    BY <2>1, <2>2 DEF ScheduleInv, Carried
  <2>4. f \in Firing /\ f.slot <= f.at
    BY <2>1 DEF ScheduleInv, TypeOK, Fired
  <2>5. f.slot \in Nat /\ f.at \in Nat
    BY <2>4 DEF Firing
  <2> QED
    BY <2>1, <2>3, <2>4, <2>5
<1> QED
  BY <1>1, ScheduleInvariant, PTL
-----------------------------------------------------------------------------
(* A row's slot is one its label fires on.                                  *)

\* What the label says of a slot, b being the slot the row was given by hand.
Labelled(c, slot, b) ==
    /\ c = "event" <=> slot = None
    /\ c = "weekdays" => slot \notin Weekend
    /\ c = "weekly" => b \in Nat /\ (slot - b) % Week = 0

RowsLabelled ==
    \A r \in Routine : row[r] # None /\ r \notin overtaken =>
        Labelled(row[r].trigger, row[r].slot, anchor[r])

\* A copy that will still move its row.
Under(k) == \E s \in Sweeper : k \in due[s] \/ (stage[s] = "asked" /\ k = hand[s])

\* Nobody has edited the row behind such a copy, or it is known to be overtaken.
CopiesLabelled ==
    \A k \in Copy : Under(k) /\ row[k.id] # None /\ k.id \notin overtaken =>
        /\ k.row.trigger = row[k.id].trigger
        /\ Labelled(k.row.trigger, k.row.slot, anchor[k.id])

LabelInv == ScheduleInv /\ RowsLabelled /\ CopiesLabelled

\* Whole weeks add up to whole weeks.
LEMMA WeeksAddUp ==
    ASSUME NEW x \in Int, NEW y \in Int, x % Week = 0, y % Week = 0
    PROVE  (x + y) % Week = 0
<1>0. Week \in Nat \ {0}
  BY ScheduleAssumption
<1>1. \A z \in Int : z % Week = 0 => z = Week * (z \div Week) /\ z \div Week \in Int
  BY <1>0, Z3
<1>2. \A p, q \in Int : Week * p + Week * q = Week * (p + q)
  BY <1>0, Z3
<1>3. \A q \in Int : (Week * q) % Week = 0
  BY <1>0, Z3
<1> DEFINE p == x \div Week
           q == y \div Week
<1>4. x = Week * p /\ y = Week * q /\ p \in Int /\ q \in Int
  BY <1>1
<1> HIDE DEF p, q
<1>5. p + q \in Int
  BY <1>4
<1>6. x + y = Week * (p + q)
  BY <1>2, <1>4
<1> QED
  BY <1>3, <1>5, <1>6

LEMMA NoTimeIsWholeWeeks ==
    ASSUME NEW x \in Nat
    PROVE  (x - x) % Week = 0
<1>1. Week \in Nat \ {0}
  BY ScheduleAssumption
<1> QED
  BY <1>1, SMT

\* The next slot of a calendar cadence is a day it falls on.
LEMMA NextAfterFalls ==
    ASSUME NEW c \in Triggers, c \notin {"once", "event", "every"}, NEW t \in 0..Horizon,
           NEW slot \in Nat, slot \in 0..Horizon \/ (c = "weekdays" /\ slot \in Weekend)
    PROVE  Falls(c, slot, NextAfter(c, slot, t))
<1> DEFINE S == {d \in Day : d > slot /\ d > t /\ Falls(c, slot, d)}
<1>1. c \in Triggers \cap {"daily", "weekly", "weekdays", "monthly"}
  BY ScheduleAssumption DEF Cadence
<1>2. slot \in 0..Horizon \cup (IF c = "weekdays" THEN Weekend ELSE {})
  OBVIOUS
<1>3. S # {}
  BY <1>1, <1>2, CalendarGoesOn
<1>4. S \in SUBSET Nat
  BY ScheduleAssumption
<1>5. NextAfter(c, slot, t) = Least(S)
  BY DEF NextAfter
<1> HIDE DEF S
<1>6. Least(S) \in S
  BY <1>3, <1>4, LeastOfSet
<1> QED
  BY <1>5, <1>6 DEF S

LEMMA NextWorkday ==
    ASSUME NEW t \in 0..Horizon, "weekdays" \in Triggers,
           NEW slot \in Nat, slot \in 0..Horizon \/ slot \in Weekend
    PROVE  NextAfter("weekdays", slot, t) \notin Weekend
BY NextAfterFalls DEF Falls

\* A slot reckoned from now is one the label fires on.
LEMMA FirstRunLabels ==
    ASSUME now \in 0..Horizon, NEW c \in Triggers, NEW delay \in Delays \cup {None}
    PROVE  /\ c = "event" <=> FirstRun(c, delay) = None
           /\ c = "weekdays" => FirstRun(c, delay) \notin Weekend
<1> DEFINE start == IF delay = None THEN now ELSE now + delay
<1>1. start \in Nat /\ (delay = None => start \in 0..Horizon) /\ None \notin Nat
  BY ScheduleAssumption
<1> HIDE DEF start
<1>2. CASE c = "event"
  BY <1>2 DEF FirstRun
<1>3. CASE c # "event" /\ (c = "once" \/ (delay # None /\ Accepts(c, start)))
  BY <1>1, <1>3 DEF FirstRun, Accepts, start
<1>4. CASE c # "event" /\ ~(c = "once" \/ (delay # None /\ Accepts(c, start)))
  <2>1. (c = "weekdays" /\ start \in Weekend) \/ delay = None
    BY <1>4 DEF Accepts
  <2>2. NextAfter(c, start, now) \in Nat
    BY <1>1, <1>4, <2>1, NextAfterIsAhead
  <2>3. c = "weekdays" => NextAfter(c, start, now) \notin Weekend
    BY <1>1, <2>1, NextWorkday
  <2>4. FirstRun(c, delay) = NextAfter(c, start, now)
    BY <1>4 DEF FirstRun, start
  <2> QED
    BY <1>1, <1>4, <2>2, <2>3, <2>4
<1> QED
  BY <1>2, <1>3, <1>4

LEMMA NextSlotLabels ==
    ASSUME now \in 0..Horizon, NEW c \in Triggers, NEW delay \in Delays \cup {None},
           NEW slot \in Nat \cup {None}
    PROVE  /\ c = "event" <=> NextSlotFor(c, slot, delay) = None
           /\ c = "weekdays" => NextSlotFor(c, slot, delay) \notin Weekend
<1>0. None \notin Nat
  BY ScheduleAssumption
<1>1. CASE c = "event"
  BY <1>1 DEF NextSlotFor
<1>2. CASE c # "event" /\ (delay # None \/ slot = None)
  BY <1>2, FirstRunLabels DEF NextSlotFor
<1>3. CASE c # "event" /\ ~(delay # None \/ slot = None) /\ Accepts(c, slot)
  BY <1>0, <1>3 DEF NextSlotFor, Accepts
<1>4. CASE c # "event" /\ ~(delay # None \/ slot = None) /\ ~Accepts(c, slot)
  <2>1. c = "weekdays" /\ slot \in Weekend /\ slot \in Nat
    BY <1>4 DEF Accepts
  <2>2. NextAfter(c, slot, now) \in Nat
    BY <2>1, NextAfterIsAhead
  <2>3. NextAfter(c, slot, now) \notin Weekend
    BY <2>1, NextWorkday
  <2>4. NextSlotFor(c, slot, delay) = NextAfter(c, slot, now)
    BY <1>4 DEF NextSlotFor
  <2> QED
    BY <1>0, <1>4, <2>2, <2>3, <2>4
<1> QED
  BY <1>1, <1>2, <1>3, <1>4

\* A row that has run keeps to its label.
LEMMA RanLabels ==
    ASSUME NEW old \in Row, NEW t \in 0..Horizon, old.slot \in 0..t \/ old.trigger = "event",
           NEW b, Labelled(old.trigger, old.slot, b), Ran(old, t) # None
    PROVE  Labelled(old.trigger, Ran(old, t).slot, b)
<1> DEFINE n == NextAfter(old.trigger, old.slot, t)
<1>0. old.trigger \in Triggers /\ None \notin Nat
  BY ScheduleAssumption DEF Row
<1>1. CASE old.trigger = "event"
  <2>1. Ran(old, t).slot = None
    BY <1>1 DEF Ran, Row
  <2> QED
    BY <1>1, <2>1 DEF Labelled
<1>2. CASE old.trigger # "event"
  <2>1. old.trigger # "once" /\ old.slot \in 0..Horizon /\ old.slot \in Nat /\ old.slot # None
    BY <1>0, <1>2, ScheduleAssumption DEF Ran
  <2>2. Ran(old, t).slot = n
    BY <1>2, <2>1 DEF Ran, Row
  <2>3. n \in Nat
    BY <1>0, <1>2, <2>1, NextAfterIsAhead
  <2>4. old.trigger = "weekdays" => n \notin Weekend
    BY <1>0, <2>1, NextWorkday
  <2>5. old.trigger = "weekly" => b \in Nat /\ (n - b) % Week = 0
    <3> SUFFICES ASSUME old.trigger = "weekly"
                 PROVE  b \in Nat /\ (n - b) % Week = 0
      OBVIOUS
    <3>1. b \in Nat /\ (old.slot - b) % Week = 0
      BY DEF Labelled
    <3>2. Falls(old.trigger, old.slot, n)
      BY <1>0, <2>1, NextAfterFalls
    <3> HIDE DEF n
    <3>3. (n - old.slot) % Week = 0
      BY <3>2 DEF Falls
    <3>4. n - old.slot \in Int /\ old.slot - b \in Int
          /\ (n - old.slot) + (old.slot - b) = n - b
      BY <2>1, <2>3, <3>1
    <3>5. ((n - old.slot) + (old.slot - b)) % Week = 0
      BY <3>1, <3>3, <3>4, WeeksAddUp
    <3> QED
      BY <3>1, <3>4, <3>5
  <2> HIDE DEF n
  <2> QED
    BY <1>0, <1>2, <2>2, <2>3, <2>4, <2>5 DEF Labelled
<1> QED
  BY <1>1, <1>2

-----------------------------------------------------------------------------
(* Every step keeps rows and copies to their labels.                        *)

\* No row is given another slot, and no copy made.
LEMMA QuietKeepsLabels ==
    ASSUME LabelInv, UNCHANGED <<anchor, overtaken>>,
           \A r \in Routine : \/ row'[r] = None
                              \/ /\ row[r] # None /\ row'[r].trigger = row[r].trigger
                                 /\ row'[r].slot = row[r].slot,
           \A k \in Copy : Under(k)' => Under(k)
    PROVE  RowsLabelled' /\ CopiesLabelled'
<1>1. RowsLabelled'
  BY DEF LabelInv, RowsLabelled
<1>2. CopiesLabelled'
  <2> SUFFICES ASSUME NEW k \in Copy, Under(k)', row'[k.id] # None, k.id \notin overtaken
               PROVE  /\ k.row.trigger = row'[k.id].trigger
                      /\ Labelled(k.row.trigger, k.row.slot, anchor[k.id])
    BY DEF CopiesLabelled
  <2>1. Under(k) /\ k.id \in Routine
    BY DEF Copy
  <2>2. row[k.id] # None /\ row'[k.id].trigger = row[k.id].trigger
    BY <2>1
  <2> QED
    BY <2>1, <2>2 DEF LabelInv, CopiesLabelled
<1> QED
  BY <1>1, <1>2

LEMMA WrittenKeepsLabels ==
    ASSUME LabelInv, NEW r \in Routine, NEW new \in Row, Written(r, new), UNCHANGED sweep,
           new.trigger = "event" <=> new.slot = None,
           new.trigger = "weekdays" => new.slot \notin Weekend
    PROVE  RowsLabelled' /\ CopiesLabelled'
<1>0. /\ row \in [Routine -> Row \cup {None}] /\ anchor \in [Routine -> Nat \cup {None}]
      /\ new.slot \in Nat \cup {None}
  BY ScheduleAssumption DEF LabelInv, ScheduleInv, TypeOK, Row
<1>1. Labelled(new.trigger, new.slot, new.slot)
  <2>1. new.trigger = "weekly" => new.slot \in Nat
    BY <1>0
  <2> QED
    BY <2>1, NoTimeIsWholeWeeks DEF Labelled
<1>2. /\ row'[r] = new /\ anchor'[r] = new.slot
      /\ \A q \in Routine \ {r} : row'[q] = row[q] /\ anchor'[q] = anchor[q]
                                  /\ (q \in overtaken' <=> q \in overtaken)
  BY <1>0 DEF Written
<1>3. RowsLabelled'
  BY <1>1, <1>2 DEF LabelInv, RowsLabelled
<1>4. CopiesLabelled'
  <2> SUFFICES ASSUME NEW k \in Copy, Under(k)', row'[k.id] # None, k.id \notin overtaken'
               PROVE  /\ k.row.trigger = row'[k.id].trigger
                      /\ Labelled(k.row.trigger, k.row.slot, anchor'[k.id])
    BY DEF CopiesLabelled
  <2>1. Under(k) /\ k.id \in Routine
    BY DEF Copy, Under, sweep
  <2>2. k.id # r
    BY <2>1 DEF Under, OnItsWay, Written
  <2> QED
    BY <1>2, <2>1, <2>2 DEF LabelInv, CopiesLabelled
<1> QED
  BY <1>3, <1>4

LEMMA ReadsKeepsLabels ==
    ASSUME LabelInv, NEW s \in Sweeper, NEW rows \in SUBSET Routine, Reads(s, rows)
    PROVE  RowsLabelled' /\ CopiesLabelled'
<1>1. UNCHANGED <<row, anchor, overtaken, hand, stage>>
      /\ due' = [due EXCEPT ![s] =
            {[id |-> r, row |-> row[r], write |-> writes[r], at |-> now] : r \in rows}]
      /\ due \in [Sweeper -> SUBSET Copy]
  BY DEF Reads, history, LabelInv, ScheduleInv, TypeOK
<1>2. RowsLabelled'
  BY <1>1 DEF LabelInv, RowsLabelled
<1>3. CopiesLabelled'
  <2> SUFFICES ASSUME NEW k \in Copy, Under(k)', row[k.id] # None, k.id \notin overtaken
               PROVE  /\ k.row.trigger = row[k.id].trigger
                      /\ Labelled(k.row.trigger, k.row.slot, anchor[k.id])
    BY <1>1 DEF CopiesLabelled
  <2>1. CASE Under(k)
    BY <2>1 DEF LabelInv, CopiesLabelled
  <2>2. CASE ~Under(k)
    <3>1. k \in due'[s]
      BY <1>1, <2>2 DEF Under
    <3>2. PICK r \in rows : k = [id |-> r, row |-> row[r], write |-> writes[r], at |-> now]
      BY <1>1, <3>1
    <3>3. k.id = r /\ k.row = row[r] /\ r \in Routine
      BY <3>2
    <3> QED
      BY <3>3 DEF LabelInv, RowsLabelled
  <2> QED
    BY <2>1, <2>2
<1> QED
  BY <1>2, <1>3

LEMMA MoveKeepsLabels ==
    ASSUME LabelInv, NEW s \in Sweeper, Move(s)
    PROVE  RowsLabelled' /\ CopiesLabelled'
<1> DEFINE k == hand[s]
           new == Ran(k.row, k.at)
<1>1. /\ k \in Copy /\ k.id \in Routine /\ k.row \in Row /\ k.at \in 0..Horizon
      /\ row \in [Routine -> Row \cup {None}]
  BY DEF LabelInv, ScheduleInv, TypeOK, Move, Copy
<1>2. k.row.slot \in 0..k.at \/ k.row.trigger = "event"
  BY <1>1 DEF LabelInv, ScheduleInv, Carried, Received, Held, Sweeper, Move
<1>3. UNCHANGED <<anchor, overtaken, due, hand>>
      /\ row' = [row EXCEPT ![k.id] = IF @ = None THEN None ELSE
                           IF new = None THEN None ELSE [@ EXCEPT !.slot = new.slot]]
  BY DEF Move, history
<1>4. Under(k) /\ \A j \in Copy : Under(j)' => Under(j)
  BY DEF Under, Move, Goto, LabelInv, ScheduleInv, TypeOK
<1>5. row'[k.id] # None => /\ row[k.id] # None /\ new # None
                           /\ row'[k.id].trigger = row[k.id].trigger
                           /\ row'[k.id].slot = new.slot
  <2> HIDE DEF k, new
  <2>1. row[k.id] # None => row[k.id] \in Row
    BY <1>1
  <2> QED
    BY <1>1, <1>3, <2>1 DEF Row
<1>6. \A r \in Routine \ {k.id} : row'[r] = row[r]
  <2> HIDE DEF k, new
  <2> QED
    BY <1>1, <1>3
<1>7. row'[k.id] # None /\ k.id \notin overtaken =>
         /\ k.row.trigger = row[k.id].trigger
         /\ Labelled(k.row.trigger, new.slot, anchor[k.id])
  <2> SUFFICES ASSUME row'[k.id] # None, k.id \notin overtaken
               PROVE  /\ k.row.trigger = row[k.id].trigger
                      /\ Labelled(k.row.trigger, new.slot, anchor[k.id])
    OBVIOUS
  <2> HIDE DEF k
  <2>1. /\ k.row.trigger = row[k.id].trigger
        /\ Labelled(k.row.trigger, k.row.slot, anchor[k.id])
    BY <1>1, <1>4, <1>5 DEF LabelInv, CopiesLabelled
  <2> QED
    BY <1>1, <1>2, <1>5, <2>1, RanLabels
<1> HIDE DEF k, new
<1>8. RowsLabelled'
  <2> SUFFICES ASSUME NEW r \in Routine, row'[r] # None, r \notin overtaken
               PROVE  Labelled(row'[r].trigger, row'[r].slot, anchor[r])
    BY <1>3 DEF RowsLabelled
  <2>1. CASE r = k.id
    BY <1>5, <1>7, <2>1
  <2>2. CASE r # k.id
    BY <1>6, <2>2 DEF LabelInv, RowsLabelled
  <2> QED
    BY <2>1, <2>2
<1>9. CopiesLabelled'
  <2> SUFFICES ASSUME NEW j \in Copy, Under(j)', row'[j.id] # None, j.id \notin overtaken
               PROVE  /\ j.row.trigger = row'[j.id].trigger
                      /\ Labelled(j.row.trigger, j.row.slot, anchor[j.id])
    BY <1>3 DEF CopiesLabelled
  <2>1. Under(j) /\ j.id \in Routine
    BY <1>4 DEF Copy
  <2>2. row[j.id] # None /\ row'[j.id].trigger = row[j.id].trigger
    BY <1>5, <1>6, <2>1
  <2> QED
    BY <2>1, <2>2 DEF LabelInv, CopiesLabelled
<1> QED
  BY <1>8, <1>9

LEMMA StepKeepsLabels == LabelInv /\ [Next]_vars => LabelInv'
<1> SUFFICES ASSUME LabelInv, [Next]_vars PROVE RowsLabelled' /\ CopiesLabelled'
  BY ScheduleInvStep DEF LabelInv
<1>0. ScheduleInv /\ TypeOK /\ now \in 0..Horizon
  BY DEF LabelInv, ScheduleInv, TypeOK
<1>1. CASE UNCHANGED vars
  <2>1. UNCHANGED <<row, anchor, overtaken, due, hand, stage>>
    BY <1>1 DEF vars, sweep, history
  <2>2. \A k \in Copy : Under(k)' => Under(k)
    BY <2>1 DEF Under
  <2>3. \A r \in Routine : row'[r] = None \/ (row[r] # None /\ row'[r] = row[r])
    BY <2>1
  <2> QED
    BY <2>1, <2>2, <2>3, QuietKeepsLabels
<1>2. ASSUME NEW r \in Routine, NEW c \in Triggers, NEW d \in Delays \cup {None},
             NEW skip \in BOOLEAN, Create(r, c, d, skip)
      PROVE  RowsLabelled' /\ CopiesLabelled'
  <2> DEFINE new == [trigger |-> c, slot |-> FirstRun(c, d), skip |-> skip, active |-> TRUE]
  <2>1. FirstRun(c, d) \in Nat \cup {None}
    BY <1>0, FirstRunIsASlot
  <2>2. new \in Row /\ new.trigger = c /\ new.slot = FirstRun(c, d)
    BY <2>1 DEF Row
  <2>3. /\ c = "event" <=> FirstRun(c, d) = None
        /\ c = "weekdays" => FirstRun(c, d) \notin Weekend
    BY <1>0, FirstRunLabels
  <2>4. Written(r, new) /\ UNCHANGED sweep
    BY <1>2 DEF Create
  <2> HIDE DEF new
  <2> QED
    BY <2>2, <2>3, <2>4, WrittenKeepsLabels
<1>3. ASSUME NEW c \in Triggers, NEW d \in Delays \cup {None}, NEW skip \in BOOLEAN,
             Save(c, d, skip)
      PROVE  RowsLabelled' /\ CopiesLabelled'
  <2> DEFINE r == editing[1]
             old == editing[2].slot
             new == [trigger |-> c, skip |-> skip, active |-> row[r].active,
                     slot |-> NextSlotFor(c, old, d)]
  <2>1. r \in Routine /\ old \in Nat \cup {None} /\ UNCHANGED sweep
    BY <1>0, <1>3 DEF Save, TypeOK, Row
  <2>2. CASE row[r] = None
    <3>1. UNCHANGED <<row, anchor, overtaken, due, hand, stage>>
      BY <1>3, <2>2 DEF Save, sweep, history
    <3>2. \A k \in Copy : Under(k)' => Under(k)
      BY <3>1 DEF Under
    <3>3. \A q \in Routine : row'[q] = None \/ (row[q] # None /\ row'[q] = row[q])
      BY <3>1
    <3> QED
      BY <3>1, <3>2, <3>3, QuietKeepsLabels
  <2>3. CASE row[r] # None
    <3>1. Written(r, new)
      BY <1>3, <2>3 DEF Save
    <3>2. row[r].active \in BOOLEAN
      BY <1>0, <2>1, <2>3 DEF TypeOK, Row
    <3> HIDE DEF r, old
    <3>3. NextSlotFor(c, old, d) \in Nat \cup {None}
      BY <1>0, <2>1, NextSlotIsASlot
    <3>4. new \in Row /\ new.trigger = c /\ new.slot = NextSlotFor(c, old, d)
      BY <3>2, <3>3 DEF Row
    <3>5. /\ c = "event" <=> NextSlotFor(c, old, d) = None
          /\ c = "weekdays" => NextSlotFor(c, old, d) \notin Weekend
      BY <1>0, <2>1, NextSlotLabels
    <3> HIDE DEF new
    <3> QED
      BY <2>1, <3>1, <3>4, <3>5, WrittenKeepsLabels
  <2> QED
    BY <2>2, <2>3
<1>4. ASSUME NEW r \in Routine, Open(r) \/ SetActive(r) \/ Delete(r)
      PROVE  RowsLabelled' /\ CopiesLabelled'
  <2>1. UNCHANGED <<anchor, overtaken, due, hand, stage>>
    BY <1>4 DEF Open, SetActive, Delete, sweep, history
  <2>2. \A k \in Copy : Under(k)' => Under(k)
    BY <2>1 DEF Under
  <2>3. row \in [Routine -> Row \cup {None}] /\ (row[r] # None => row[r] \in Row)
    BY <1>0 DEF TypeOK
  <2>4. \A q \in Routine : \/ row'[q] = None
                           \/ /\ row[q] # None /\ row'[q].trigger = row[q].trigger
                              /\ row'[q].slot = row[q].slot
    BY <1>4, <2>3 DEF Open, SetActive, Delete, Row
  <2> QED
    BY <2>1, <2>2, <2>4, QuietKeepsLabels
<1>5. CASE Sweep
  BY <1>5, ReadsKeepsLabels DEF Sweep, Sweeper
<1>6. CASE Post
  BY <1>6, ReadsKeepsLabels DEF Post, Sweeper
<1>7. ASSUME NEW s \in Sweeper, (\E k \in due[s] : Ask(s, k)) \/ MoveFails(s) \/ Fire(s)
      PROVE  RowsLabelled' /\ CopiesLabelled'
  <2>1. UNCHANGED <<row, anchor, overtaken>>
    BY <1>7 DEF Ask, MoveFails, Fire, history
  <2>2. \A k \in Copy : Under(k)' => Under(k)
    BY <1>0, <1>7 DEF Under, Ask, MoveFails, Fire, Done, Goto, TypeOK
  <2>3. \A r \in Routine : row'[r] = None \/ (row[r] # None /\ row'[r] = row[r])
    BY <2>1
  <2> QED
    BY <2>1, <2>2, <2>3, QuietKeepsLabels
<1>8. ASSUME NEW s \in Sweeper, Move(s) PROVE RowsLabelled' /\ CopiesLabelled'
  BY <1>8, MoveKeepsLabels
<1>9. CASE Tick \/ Drain \/ Ends \/ Start \/ \E a \in Agent : Acts(a)
  <2>1. UNCHANGED <<row, anchor, overtaken>>
    BY <1>9 DEF Tick, Drain, Ends, Start, Acts, history
  <2>2. \A k \in Copy : Under(k)' => Under(k)
    BY <1>9 DEF Under, Tick, Drain, Ends, Start, Acts, sweep
  <2>3. \A r \in Routine : row'[r] = None \/ (row[r] # None /\ row'[r] = row[r])
    BY <2>1
  <2> QED
    BY <2>1, <2>2, <2>3, QuietKeepsLabels
<1> QED
  BY <1>1, <1>2, <1>3, <1>4, <1>5, <1>6, <1>7, <1>8, <1>9 DEF Next

(* "Or the label and the firing disagree" (next_slot_for, after_running):    *)
(* the slot of a row is one its label fires on, and a weekly routine keeps   *)
(* the weekday it was given, for all calendars and lengths of a week; unless *)
(* a sweeper already held a copy of the row when it was edited.              *)
THEOREM LabelsHold == Spec => []LabelHolds
<1>1. Init => LabelInv
  <2> SUFFICES ASSUME Init PROVE RowsLabelled /\ CopiesLabelled
    BY InitIsScheduled DEF LabelInv
  <2>1. \A r \in Routine : row[r] = None
    BY DEF Init
  <2>2. \A k \in Copy : ~Under(k)
    BY DEF Init, Under
  <2> QED
    BY <2>1, <2>2 DEF RowsLabelled, CopiesLabelled
<1>2. LabelInv => LabelHolds
  BY DEF LabelInv, RowsLabelled, Labelled, LabelHolds
<1> QED
  BY <1>1, <1>2, StepKeepsLabels, PTL DEF Spec
=============================================================================
