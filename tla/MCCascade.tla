----------------------------- MODULE MCCascade ------------------------------
(* The operator writes to p.  In Talk it and q may write each other anything. *)
(* In Tri it asks q and r, and r, before it answers, asks p something as work *)
(* of its own: with q's answer to read and r's still owed p gathers, while r, *)
(* with p's second line to read and p's answer owed, gathers too.             *)
EXTENDS Cascade, TLC
CONSTANTS p, q, r

Talk == {m \in {p, q} \X {p, q} \X Text \X BOOLEAN : m[1] # m[2]}
Tri  == {<<p, q, "hi", FALSE>>, <<p, r, "hi", FALSE>>, <<p, r, "ho", FALSE>>,
         <<r, p, "hi", TRUE>>}
=============================================================================
