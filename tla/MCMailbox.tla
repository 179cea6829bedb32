----------------------------- MODULE MCMailbox ------------------------------
(* One agent and its actors.  m1 and m3 belong to r1, the others to runs of *)
(* their own; m2 is a line of the operator's, m4 a question of a peer's.    *)
EXTENDS Mailbox, TLC
CONSTANTS r1, r2, r3, m1, m2, m3, m4

\* m1 and m3 tell nothing apart: the safety runs may exchange them.
Alike == Permutations({m1, m3})

MCRunOf == [e \in Envelope |-> CASE e = m2 -> r2 [] e = m4 -> r3 [] OTHER -> r1]
=============================================================================
