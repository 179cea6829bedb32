----------------------------- MODULE MCDecisions -----------------------------
(* Two questions, two windows and a host that stops twice.                   *)
EXTENDS Decisions, TLC
CONSTANTS q1, q2, w1, w2
Screens == Permutations(Question) \cup Permutations(Window)
=============================================================================
