--------------------------- MODULE MCSubscription ---------------------------
(* A crew of turns on one sign-in.                                           *)
EXTENDS Subscription, TLC
CONSTANTS t1, t2, t3
Crew == Permutations(Turn)
=============================================================================
