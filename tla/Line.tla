-------------------------------- MODULE Line --------------------------------
(* What the inbox of an actor promises: a line of messages.  A message joins *)
(* at the end and is read from the front; nothing else may leave from the    *)
(* middle but what the operator called off, and a line whose agent was       *)
(* deleted, or whose host is stopping, is cleared as a whole.                *)
EXTENDS Sequences, SequencesExt

CONSTANTS Actor, Envelope, Run, RunOf

VARIABLES
    line,      \* what each actor has yet to read, in the order it arrived
    stopped    \* the conversations called off

TypeOK ==
    /\ line \in [Actor -> Seq(Envelope)]
    /\ stopped \subseteq Run

Init == line = [i \in Actor |-> <<>>] /\ stopped = {}

Arrive(i, e) == line' = [line EXCEPT ![i] = Append(@, e)]

Read(i) == line[i] # <<>> /\ line' = [line EXCEPT ![i] = Tail(@)]

\* Only what is called off is passed over.
PassOver(i, k) ==
    /\ k \in DOMAIN line[i] /\ RunOf[line[i][k]] \in stopped
    /\ line' = [line EXCEPT ![i] = RemoveAt(@, k)]

Clear(i) == line' = [line EXCEPT ![i] = <<>>]

\* The operator stops a conversation, or the last of it ends.
Stop == stopped' \subseteq Run /\ UNCHANGED line

Next ==
    \/ Stop
    \/ /\ stopped' \subseteq Run
       /\ \E i \in Actor :
            \/ \E e \in Envelope : Arrive(i, e)
            \/ Read(i) \/ Clear(i)
            \/ \E k \in DOMAIN line[i] : PassOver(i, k)

Spec == Init /\ [][Next]_<<line, stopped>>
=============================================================================
