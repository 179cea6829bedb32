----------------------------- MODULE MCSchedule -----------------------------
(* A calendar of short months, and a week of one working day.                 *)
EXTENDS Schedule, TLC
CONSTANTS a, p, q

MCOf == [r \in Routine |-> a]

\* Months of four, three and four days, again and again.
MCCalendar ==
    [d \in 0..22 |->
        LET n == d % 11
            m == 3 * (d \div 11)
        IN  IF n < 4 THEN [month |-> m, day |-> n + 1]
            ELSE IF n < 7 THEN [month |-> m + 1, day |-> n - 3]
            ELSE [month |-> m + 2, day |-> n - 6]]

MCWeekend == {d \in 0..22 : d % 2 = 1}
=============================================================================
