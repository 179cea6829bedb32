---------------------------- MODULE MCApprovals -----------------------------
(* In one run a asks twice for the same thing, and b asks a question.        *)
EXTENDS Approvals, TLC
CONSTANTS a, b, r, k1, k2, k3, create, question

MCBy     == [k \in Request |-> IF k = k3 THEN b ELSE a]
MCWithin == [k \in Request |-> r]
MCFor    == [k \in Request |-> IF k = k3 THEN question ELSE create]
=============================================================================
