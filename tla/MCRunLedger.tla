---------------------------- MODULE MCRunLedger ----------------------------
(* Two agents and two conversations: r1 goes from the operator to a (m1),   *)
(* from a to b (m2) and back (m3); m4 is a second line of the operator's to *)
(* a, on a conversation of its own, that a's turn may absorb.               *)
EXTENDS RunLedger, TLC
CONSTANTS a, b, out, r1, r2, m1, m2, m3, m4

MCRunOf == [e \in Envelope |-> IF e = m4 THEN r2 ELSE r1]
MCTo    == [e \in Envelope |-> IF e = m2 THEN b ELSE a]
MCFrom  == [e \in Envelope |-> CASE e = m2 -> a [] e = m3 -> b [] OTHER -> out]
=============================================================================
