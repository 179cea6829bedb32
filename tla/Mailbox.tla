------------------------------ MODULE Mailbox -------------------------------
(***************************************************************************)
(* The actor of one agent: its inbox, its holding queue, and what wakes it *)
(* (actor_loop, start_agent, stop_agent, queue of runtime/mod.rs).         *)
(*                                                                         *)
(* The agent may be paused, resumed, deleted and restored; each time it is *)
(* started an actor of its own reads an inbox of its own.  A step is one   *)
(* read of shared state by an actor, or one command of the operator.  What *)
(* a turn does is reduced to what it takes from the inbox and when it      *)
(* ends; the recovery journal is the business of RunLedger.tla.            *)
(***************************************************************************)
EXTENDS Naturals, Sequences, SequencesExt, FiniteSets

CONSTANTS
    Envelope,     \* every message to the agent that may ever be sent
    Run, RunOf,   \* the conversations, and the one of each message
    Asks,         \* messages whose sender waits for an answer
    Absorbable,   \* messages from the operator or from Guaca itself
    Answers,      \* of those, the operator's answers to a decision
    MaxActors,    \* bound: how many times the agent is started
    MaxBatch,     \* MAX_BATCH
    Deletes,      \* may the operator delete and restore the agent?
    Drains        \* may the host be asked to stop?

ASSUME MailboxAssumption ==
    /\ RunOf \in [Envelope -> Run]
    /\ Asks \subseteq Envelope /\ Answers \subseteq Absorbable
    /\ Absorbable \subseteq Envelope
    /\ MaxActors \in Nat \ {0} /\ MaxBatch \in Nat \ {0}
    /\ Deletes \in BOOLEAN /\ Drains \in BOOLEAN

Actor == 1..MaxActors

VARIABLES
    lifecycle,    \* of the agent's card
    inbox,        \* the actor whose inbox is in Runtime::inboxes, 0 for none
    born,         \* how many actors were started
    draining, stopped, booked,   \* Runs, the bookings as a set of messages
    fate,         \* what became of each message
    rx, carry,    \* of each actor: its channel, and its holding queue
    depth,        \* and the count the rail shows of both
    batch,        \* what the actor took off the line for its next turn
    pc,           \* where the actor is
    armed, woken, \* is it registered with its notifier, and was it notified?
    calls         \* notifications an operator's call has yet to make

vars == <<lifecycle, inbox, born, draining, stopped, booked, fate, rx, carry,
          depth, batch, pc, armed, woken, calls>>
card  == <<lifecycle, inbox, born>>
queue == <<rx, carry, depth>>
wakes == <<armed, woken, calls>>

Control == {"unborn", "recv", "gate", "arm", "draining?", "stopped?", "any?",
            "sweep", "park", "calledoff", "putdown", "abandon", "exiting",
            "exited", "gather", "turn", "working"}
\* "posted": booked, not yet in an inbox; "lost": in a channel when its receiver
\* was dropped; "read": joined a turn in progress.
Fate == {"new", "posted", "queued", "read", "ended", "putdown", "lost"}

OfRun(r)   == {e \in Envelope : RunOf[e] = r}
LineOf(i)  == carry[i] \o rx[i]
InHand(i)  == ToSet(batch[i]) \cup ToSet(carry[i]) \cup ToSet(rx[i])
RunOfTurn(i) == RunOf[batch[i][1]]

TypeOK ==
    /\ lifecycle \in {"active", "paused", "terminated"}
    /\ inbox \in {0} \cup Actor /\ born \in 0..MaxActors
    /\ draining \in BOOLEAN /\ stopped \subseteq Run /\ booked \subseteq Envelope
    /\ fate \in [Envelope -> Fate]
    /\ rx \in [Actor -> Seq(Envelope)] /\ carry \in [Actor -> Seq(Envelope)]
    /\ depth \in [Actor -> Nat]
    /\ batch \in [Actor -> Seq(Envelope)]
    /\ pc \in [Actor -> Control]
    /\ armed \in [Actor -> BOOLEAN] /\ woken \in [Actor -> BOOLEAN]
    /\ calls \subseteq {"all", "resume"}

Init ==
    /\ lifecycle = "active" /\ inbox = 1 /\ born = 1
    /\ draining = FALSE /\ stopped = {} /\ booked = {}
    /\ fate = [e \in Envelope |-> "new"]
    /\ rx = [i \in Actor |-> <<>>] /\ carry = [i \in Actor |-> <<>>]
    /\ depth = [i \in Actor |-> 0]
    /\ batch = [i \in Actor |-> <<>>]
    /\ pc = [i \in Actor |-> IF i = 1 THEN "recv" ELSE "unborn"]
    /\ armed = [i \in Actor |-> FALSE] /\ woken = [i \in Actor |-> FALSE]
    /\ calls = {}

Goto(i, l) == pc' = [pc EXCEPT ![i] = l]
Fated(E, f) == fate' = [e \in Envelope |-> IF e \in E THEN f ELSE fate[e]]

\* track_inflight: the messages of E are released, and a run with none left is
\* no longer stopped.
Release(E) ==
    /\ booked' = booked \ E
    /\ stopped' = {r \in stopped : OfRun(r) \cap E # {} => OfRun(r) \cap booked' # {}}

\* put_down: released too, but a run put down keeps its mark until it settles.
PutDown(E) == booked' = booked \ E /\ UNCHANGED stopped

-----------------------------------------------------------------------------
(* Sending.                                                                *)

\* deliver books the message; the sender found the agent in the roster.  A
\* stopping host books only answers and what belongs to a stopped run.
Post(e) ==
    /\ fate[e] = "new" /\ lifecycle # "terminated"
    /\ draining => RunOf[e] \in stopped \/ e \in Answers
    /\ booked' = booked \cup {e}
    /\ Fated({e}, "posted")
    /\ UNCHANGED <<card, draining, stopped, queue, batch, pc, wakes>>

\* queue: into the inbox, or released if there is none or nobody reads it.
Queue(e) ==
    /\ fate[e] = "posted"
    /\ IF inbox # 0 /\ pc[inbox] # "exited"
         THEN /\ rx' = [rx EXCEPT ![inbox] = Append(@, e)]
              /\ depth' = [depth EXCEPT ![inbox] = @ + 1]
              /\ Fated({e}, "queued")
              /\ UNCHANGED <<carry, booked, stopped>>
         ELSE Release({e}) /\ Fated({e}, "ended") /\ UNCHANGED queue
    /\ UNCHANGED <<card, draining, batch, pc, wakes>>

-----------------------------------------------------------------------------
(* The operator and the host.  A command changes the card or the books      *)
(* first and notifies afterwards.                                           *)

Pause ==
    /\ lifecycle = "active"
    /\ lifecycle' = "paused"
    /\ UNCHANGED <<inbox, born, draining, stopped, booked, fate, queue, batch, pc, wakes>>

Resume ==
    /\ lifecycle = "paused"
    /\ lifecycle' = "active"
    /\ calls' = calls \cup {"resume"}
    /\ UNCHANGED <<inbox, born, draining, stopped, booked, fate, queue, batch, pc,
                   armed, woken>>

StopRun(r) ==
    /\ OfRun(r) \cap booked # {}
    /\ stopped' = stopped \cup {r}
    /\ calls' = calls \cup {"all"}
    /\ UNCHANGED <<card, draining, booked, fate, queue, batch, pc, armed, woken>>

Drain ==
    /\ Drains /\ ~draining
    /\ draining' = TRUE
    /\ calls' = calls \cup {"all"}
    /\ UNCHANGED <<card, stopped, booked, fate, queue, batch, pc, armed, woken>>

\* Mutants of Notify: only an actor already asleep is woken; and a resume wakes
\* nobody.
NotifyParked(c) ==
    /\ c \in calls
    /\ calls' = calls \ {c}
    /\ woken' = [i \in Actor |-> woken[i] \/ (i = inbox /\ pc[i] = "park")]
    /\ UNCHANGED <<card, draining, stopped, booked, fate, queue, batch, pc, armed>>

NotifyStops(c) ==
    /\ c \in calls
    /\ calls' = calls \ {c}
    /\ woken' = [i \in Actor |-> woken[i] \/ (c = "all" /\ i = inbox /\ armed[i])]
    /\ UNCHANGED <<card, draining, stopped, booked, fate, queue, batch, pc, armed>>

\* notify_waiters wakes the actor that is registered and nobody else.
Notify(c) ==
    /\ c \in calls
    /\ calls' = calls \ {c}
    /\ woken' = [i \in Actor |-> woken[i] \/ (i = inbox /\ armed[i])]
    /\ UNCHANGED <<card, draining, stopped, booked, fate, queue, batch, pc, armed>>

\* discard_agent: the card is marked, and then stop_agent drops the inbox and
\* wakes its actor.
Discard ==
    /\ Deletes /\ lifecycle # "terminated"
    /\ lifecycle' = "terminated"
    /\ UNCHANGED <<inbox, born, draining, stopped, booked, fate, queue, batch, pc, wakes>>

StopAgent ==
    /\ lifecycle = "terminated" /\ inbox # 0
    /\ inbox' = 0
    /\ woken' = [i \in Actor |-> woken[i] \/ (i = inbox /\ armed[i])]
    /\ UNCHANGED <<lifecycle, born, draining, stopped, booked, fate, queue, batch,
                   pc, armed, calls>>

\* restore_agent: the agent comes back paused, with a new actor.
Restore ==
    /\ lifecycle = "terminated" /\ inbox = 0 /\ born < MaxActors
    /\ lifecycle' = "paused" /\ born' = born + 1 /\ inbox' = born + 1
    /\ Goto(born + 1, "recv")
    /\ UNCHANGED <<draining, stopped, booked, fate, queue, batch, wakes>>

-----------------------------------------------------------------------------
(* The actor, between turns.                                               *)

\* Mutant of Pop: the channel is read before the holding queue.
PopChannelFirst(i) ==
    /\ LineOf(i) # <<>>
    /\ IF rx[i] # <<>>
         THEN rx' = [rx EXCEPT ![i] = Tail(@)] /\ UNCHANGED carry
         ELSE carry' = [carry EXCEPT ![i] = Tail(@)] /\ UNCHANGED rx
    /\ depth' = [depth EXCEPT ![i] = @ - 1]

\* The head of the line leaves it: the holding queue first, then the channel.
Pop(i) ==
    /\ LineOf(i) # <<>>
    /\ IF carry[i] # <<>>
         THEN carry' = [carry EXCEPT ![i] = Tail(@)] /\ UNCHANGED rx
         ELSE rx' = [rx EXCEPT ![i] = Tail(@)] /\ UNCHANGED carry
    /\ depth' = [depth EXCEPT ![i] = @ - 1]

\* Mutant of PutBack: what is only set aside is no longer counted.
PutBackUncounted(i) ==
    IF carry[i] = <<>> /\ rx[i] # <<>>
      THEN /\ carry' = [carry EXCEPT ![i] = <<Head(rx[i])>>]
           /\ rx' = [rx EXCEPT ![i] = Tail(@)]
           /\ depth' = [depth EXCEPT ![i] = @ - 1]
      ELSE UNCHANGED queue

\* A head that cannot be taken goes back in front of what is held.
PutBack(i) ==
    IF carry[i] = <<>> /\ rx[i] # <<>>
      THEN /\ carry' = [carry EXCEPT ![i] = <<Head(rx[i])>>]
           /\ rx' = [rx EXCEPT ![i] = Tail(@)]
           /\ UNCHANGED depth
      ELSE UNCHANGED queue

Take(i) ==
    /\ pc[i] = "recv" /\ Pop(i)
    /\ batch' = [batch EXCEPT ![i] = <<Head(LineOf(i))>>]
    /\ Goto(i, IF draining THEN "putdown" ELSE "gate")
    /\ UNCHANGED <<card, draining, stopped, booked, fate, wakes>>

\* recv answers None: the sender was dropped and the channel is empty.
Close(i) ==
    /\ pc[i] = "recv" /\ LineOf(i) = <<>> /\ inbox # i
    /\ Goto(i, "exited")
    /\ UNCHANGED <<card, draining, stopped, booked, fate, queue, batch, wakes>>

\* The card is read ...
Gate(i) ==
    /\ pc[i] = "gate"
    /\ Goto(i, CASE lifecycle = "terminated" -> "abandon"
                 [] lifecycle = "active"     -> "gather"
                 [] lifecycle = "paused"     -> "arm")
    /\ UNCHANGED <<card, draining, stopped, booked, fate, queue, batch, wakes>>

\* ... and a paused actor registers with its notifier ...
Arm(i) ==
    /\ pc[i] = "arm"
    /\ armed' = [armed EXCEPT ![i] = TRUE]
    /\ woken' = [woken EXCEPT ![i] = FALSE]
    /\ Goto(i, "draining?")
    /\ UNCHANGED <<card, draining, stopped, booked, fate, queue, batch, calls>>

\* ... then looks at the drain, at the stop of what it holds, and at any stop.
CheckDrain(i) ==
    /\ pc[i] = "draining?"
    /\ Goto(i, IF draining /\ RunOfTurn(i) \notin stopped THEN "putdown" ELSE "stopped?")
    /\ UNCHANGED <<card, draining, stopped, booked, fate, queue, batch, wakes>>

CheckStop(i) ==
    /\ pc[i] = "stopped?"
    /\ Goto(i, IF draining \/ RunOfTurn(i) \in stopped THEN "calledoff" ELSE "any?")
    /\ UNCHANGED <<card, draining, stopped, booked, fate, queue, batch, wakes>>

\* Mutant of CheckAny: nothing behind what is held is looked at.
CheckNothing(i) ==
    /\ pc[i] = "any?"
    /\ Goto(i, "park")
    /\ UNCHANGED <<card, draining, stopped, booked, fate, queue, batch, wakes>>

CheckAny(i) ==
    /\ pc[i] = "any?"
    /\ Goto(i, IF stopped # {} THEN "sweep" ELSE "park")
    /\ UNCHANGED <<card, draining, stopped, booked, fate, queue, batch, wakes>>

\* Mutant of Sweep: the whole channel ends, whatever is called off.
SweepAll(i) ==
    /\ pc[i] = "sweep" /\ rx[i] # <<>>
    /\ Release({Head(rx[i])}) /\ Fated({Head(rx[i])}, "ended")
    /\ rx' = [rx EXCEPT ![i] = Tail(@)]
    /\ depth' = [depth EXCEPT ![i] = @ - 1]
    /\ UNCHANGED <<card, draining, carry, batch, pc, wakes>>

\* The channel is swept: what is called off ends, the rest is held.
Sweep(i) ==
    /\ pc[i] = "sweep" /\ rx[i] # <<>>
    /\ LET e == Head(rx[i])
       IN  IF RunOf[e] \in stopped
             THEN /\ depth' = [depth EXCEPT ![i] = @ - 1]
                  /\ Release({e}) /\ Fated({e}, "ended")
                  /\ UNCHANGED carry
             ELSE /\ carry' = [carry EXCEPT ![i] = Append(@, e)]
                  /\ UNCHANGED <<depth, booked, stopped, fate>>
    /\ rx' = [rx EXCEPT ![i] = Tail(@)]
    /\ UNCHANGED <<card, draining, batch, pc, wakes>>

Swept(i) ==
    /\ pc[i] = "sweep" /\ rx[i] = <<>>
    /\ Goto(i, "park")
    /\ UNCHANGED <<card, draining, stopped, booked, fate, queue, batch, wakes>>

Wake(i) ==
    /\ pc[i] = "park" /\ woken[i]
    /\ armed' = [armed EXCEPT ![i] = FALSE]
    /\ woken' = [woken EXCEPT ![i] = FALSE]
    /\ Goto(i, "gate")
    /\ UNCHANGED <<card, draining, stopped, booked, fate, queue, batch, calls>>

\* Leaving the pause drops the registration.
Disarmed(i) ==
    /\ armed' = [armed EXCEPT ![i] = FALSE]
    /\ woken' = [woken EXCEPT ![i] = FALSE]
    /\ UNCHANGED calls

CalledOff(i) ==
    /\ pc[i] = "calledoff"
    /\ Release({batch[i][1]}) /\ Fated({batch[i][1]}, "ended")
    /\ batch' = [batch EXCEPT ![i] = <<>>]
    /\ Goto(i, "recv") /\ Disarmed(i)
    /\ UNCHANGED <<card, draining, queue>>

Emptied(i) ==
    /\ rx' = [rx EXCEPT ![i] = <<>>]
    /\ carry' = [carry EXCEPT ![i] = <<>>]
    /\ depth' = [depth EXCEPT ![i] = 0]
    /\ batch' = [batch EXCEPT ![i] = <<>>]

\* put_down_queue: what is called off ends, the rest is the next host's.
PutDownQueue(i) ==
    /\ pc[i] = "putdown"
    /\ LET off  == {e \in InHand(i) : RunOf[e] \in stopped}
           kept == InHand(i) \ off
       IN  /\ booked' = booked \ InHand(i)
           /\ stopped' = {r \in stopped : OfRun(r) \cap off # {}
                                            => OfRun(r) \cap booked' # {}}
           /\ fate' = [e \in Envelope |-> CASE e \in off -> "ended"
                                            [] e \in kept -> "putdown"
                                            [] OTHER -> fate[e]]
    /\ Emptied(i)
    /\ Goto(i, "recv") /\ Disarmed(i)
    /\ UNCHANGED <<card, draining>>

\* Mutant of Abandon: the holding queue is forgotten.
AbandonChannel(i) ==
    /\ pc[i] = "abandon"
    /\ LET E == ToSet(batch[i]) \cup ToSet(rx[i])
       IN  Release(E) /\ Fated(E, "ended")
    /\ Emptied(i)
    /\ Goto(i, "exiting") /\ Disarmed(i)
    /\ UNCHANGED <<card, draining>>

\* A deleted agent: everything in hand is released; then the task ends, and
\* with it the receiver and whatever reached the channel meanwhile.
Abandon(i) ==
    /\ pc[i] = "abandon"
    /\ Release(InHand(i)) /\ Fated(InHand(i), "ended")
    /\ Emptied(i)
    /\ Goto(i, "exiting") /\ Disarmed(i)
    /\ UNCHANGED <<card, draining>>

Exit(i) ==
    /\ pc[i] = "exiting"
    /\ Fated(ToSet(rx[i]), "lost")
    /\ rx' = [rx EXCEPT ![i] = <<>>]
    /\ Goto(i, "exited")
    /\ UNCHANGED <<card, draining, stopped, booked, carry, depth, batch, wakes>>
-----------------------------------------------------------------------------
(* The batch, and the turn.                                                *)

\* Context is read in one batch: what follows in line, wants no answer and is
\* of the same conversation.
Joins(i, e) == e \notin Asks /\ RunOf[e] = RunOfTurn(i)
Gathers(i)  == batch[i][1] \notin Asks /\ Len(batch[i]) < MaxBatch

Gather(i) ==
    /\ pc[i] = "gather" /\ Gathers(i)
    /\ LineOf(i) # <<>> /\ Joins(i, Head(LineOf(i)))
    /\ Pop(i)
    /\ batch' = [batch EXCEPT ![i] = Append(@, Head(LineOf(i)))]
    /\ UNCHANGED <<card, draining, stopped, booked, fate, pc, wakes>>

\* Otherwise the turn begins, though an empty line may be waited at first.
Gathered(i) ==
    /\ pc[i] = "gather"
    /\ IF Gathers(i)
         THEN /\ LineOf(i) # <<>> => ~Joins(i, Head(LineOf(i)))
              /\ PutBack(i)
         ELSE UNCHANGED queue
    /\ Goto(i, "turn")
    /\ UNCHANGED <<card, draining, stopped, booked, fate, batch, wakes>>

\* The top of run_turn: a deleted agent, a drain, a stop; or the turn starts.
StartTurn(i) ==
    /\ pc[i] = "turn"
    /\ LET E == ToSet(batch[i]) r == RunOfTurn(i)
       IN  \/ /\ lifecycle = "terminated" \/ r \in stopped
              /\ Release(E) /\ Fated(E, "ended")
              /\ batch' = [batch EXCEPT ![i] = <<>>] /\ Goto(i, "recv")
           \/ /\ lifecycle # "terminated" /\ draining /\ r \notin stopped
              /\ PutDown(E) /\ Fated(E, "putdown")
              /\ batch' = [batch EXCEPT ![i] = <<>>] /\ Goto(i, "recv")
           \/ /\ lifecycle # "terminated" /\ ~draining /\ r \notin stopped
              /\ Goto(i, "working")
              /\ UNCHANGED <<booked, stopped, fate, batch>>
    /\ UNCHANGED <<card, draining, queue, wakes>>

\* take_in: the operator's own line joins a turn that answers no peer ...
TakeIn(i) ==
    /\ pc[i] = "working" /\ ~draining /\ ToSet(batch[i]) \cap Asks \subseteq Absorbable
    /\ LineOf(i) # <<>>
    /\ LET e == Head(LineOf(i))
       IN  /\ e \in Absorbable /\ RunOf[e] \notin stopped
           /\ Release({e}) /\ Fated({e}, "read")
    /\ Pop(i)
    /\ UNCHANGED <<card, draining, batch, pc, wakes>>

\* ... and what may not goes back to the front of the line.
TakeInEnds(i) ==
    /\ pc[i] = "working" /\ ToSet(batch[i]) \cap Asks \subseteq Absorbable
    /\ carry[i] = <<>> /\ rx[i] # <<>>
    /\ \/ Head(rx[i]) \notin Absorbable
       \/ draining \/ RunOf[Head(rx[i])] \in stopped
    /\ PutBack(i)
    /\ UNCHANGED <<card, draining, stopped, booked, fate, batch, pc, wakes>>

\* The turn ends; one the host stopped is put down.
EndTurn(i) ==
    /\ pc[i] = "working"
    /\ LET E == ToSet(batch[i])
       IN  \/ Release(E) /\ Fated(E, "ended")
           \/ /\ draining /\ RunOfTurn(i) \notin stopped
              /\ PutDown(E) /\ Fated(E, "putdown")
    /\ batch' = [batch EXCEPT ![i] = <<>>]
    /\ Goto(i, "recv")
    /\ UNCHANGED <<card, draining, queue, wakes>>
-----------------------------------------------------------------------------
Step(i) ==
    \/ Take(i) \/ Close(i) \/ Gate(i) \/ Arm(i) \/ CheckDrain(i) \/ CheckStop(i)
    \/ CheckAny(i) \/ Sweep(i) \/ Swept(i) \/ Wake(i) \/ CalledOff(i)
    \/ PutDownQueue(i) \/ Abandon(i) \/ Exit(i) \/ Gather(i) \/ Gathered(i)
    \/ StartTurn(i) \/ TakeIn(i) \/ TakeInEnds(i) \/ EndTurn(i)

Next ==
    \/ \E e \in Envelope : Post(e) \/ Queue(e)
    \/ Pause \/ Resume \/ Drain \/ Discard \/ StopAgent \/ Restore
    \/ \E r \in Run : StopRun(r)
    \/ \E c \in {"all", "resume"} : Notify(c)
    \/ \E i \in Actor : Step(i)

Spec == Init /\ [][Next]_vars

\* Tasks keep running, turns end, and a command that was begun is finished.
\* Nobody has to send, pause, resume, stop, drain or delete.
Fairness ==
    /\ \A e \in Envelope : WF_vars(Queue(e))
    /\ \A i \in Actor : WF_vars(Step(i))
    /\ \A c \in {"all", "resume"} : WF_vars(Notify(c))
    /\ WF_vars(StopAgent)

FairSpec == Spec /\ Fairness

-----------------------------------------------------------------------------
(* Properties.                                                             *)

\* Whatever the actor moves between channel, holding queue and turn, it reads
\* in the order of arrival, passing over nothing but what is called off.
InLine == INSTANCE Line WITH line <- [i \in Actor |-> LineOf(i)]
ReadsInOrder == InLine!Spec

\* "A held envelope is as queued as one still in the channel": the count the
\* rail shows is the length of the line.
DepthExact ==
    \A i \in Actor : pc[i] # "exited" => depth[i] = Len(carry[i]) + Len(rx[i])

\* No booking is lost between the hands its message goes through, and no message
\* is in two: a booked message is on its way to the inbox, or an actor holds it,
\* once.  The exception is a message that reached a deleted agent's channel
\* before it was dropped ("lost"): it stays booked, and in no hand.
BookedIsHeld ==
    /\ booked = {e \in Envelope : fate[e] \in {"posted", "lost"}}
                   \cup UNION {InHand(i) : i \in Actor}
    /\ \A i, j \in Actor : i # j => InHand(i) \cap InHand(j) = {}
    /\ \A i \in Actor : IsInjective(batch[i] \o LineOf(i))

\* A message nobody called off is ended by a turn that read it, as long as the
\* agent is there and the host is not stopping: one that is may also end what a
\* paused actor holds as if the operator had called it off.
NeverEndedUnread ==
    [][\A e \in Envelope :
          /\ fate[e] \in {"posted", "queued"} /\ fate'[e] = "ended"
          /\ ~\E i \in Actor : pc[i] = "working" /\ e \in ToSet(batch[i])
          => RunOf[e] \in stopped \/ draining \/ lifecycle = "terminated" \/ born > 1]_vars

\* A stop ends what it finds in the line, the agent paused or not, but for what a
\* sweep for an earlier stop has set aside.
Notified(e) == fate[e] = "queued" /\ RunOf[e] \in stopped /\ "all" \in calls
StopEnds ==
    \A e \in Envelope : Notified(e) ~>
            \/ e \notin booked
            \/ \E i \in Actor : pc[i] = "park" /\ e \in ToSet(carry[i])

\* A resume wakes the actor that is parked when it notifies.
ResumeWakes ==
    \A i \in Actor :
        pc[i] = "park" /\ inbox = i /\ "resume" \in calls ~> pc[i] # "park"

\* A drain leaves no message with the actor, paused or not.
DrainEmpties == draining ~> booked = {}
=============================================================================
