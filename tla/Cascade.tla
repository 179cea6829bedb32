------------------------------ MODULE Cascade -------------------------------
(***************************************************************************)
(* One conversation among the agents of a group, and the guard that bounds *)
(* it: RunState of runtime/guard.rs, the sends and replies of a turn       *)
(* (send_to_peers, emit_reply of runtime/mod.rs), the errands it runs      *)
(* (runtime/errand.rs), and the gather in which an agent waits for answers *)
(* it is owed (actor_loop).                                                *)
(*                                                                         *)
(* A step is one critical section of a lock, one delivery, or one boundary *)
(* of a turn: what is read under one lock and acted on under another is    *)
(* two steps.  What a model says is a choice; the text of a message        *)
(* matters only for being the same as another.                             *)
(***************************************************************************)
EXTENDS Naturals, Sequences, FiniteSets, FiniteSetsExt

CONSTANTS
    Agent,        \* the agents of the group
    Human,        \* the operator
    First,        \* the agent the operator wrote to
    Thinks,       \* bound: who may think of writing what to whom, and as work
    Text,         \* what a message may say
    LastWords,    \* bound: the texts a turn may end with
    Stops,        \* may the operator stop the conversation?
    StoreFails,   \* may the store refuse a message?
    MaxHops, MaxSteps, MaxPair, MaxRounds,   \* GuardLimits, sanitized
    MaxBatch,     \* MAX_BATCH
    MostAtOnce,   \* errands of one call
    Headroom      \* steps an errand never takes

ASSUME CascadeAssumption ==
    /\ IsFiniteSet(Agent) /\ First \in Agent /\ Human \notin Agent
    /\ Thinks \subseteq {m \in Agent \X Agent \X Text \X BOOLEAN : m[1] # m[2]}
    /\ LastWords \subseteq Text /\ {Stops, StoreFails} \subseteq BOOLEAN
    /\ {MaxHops, MaxSteps, MaxPair, MaxRounds, MaxBatch} \subseteq Nat \ {0}
    /\ MostAtOnce \in Nat /\ Headroom \in Nat

VARIABLES
    steps, pairs, prints, expecting,   \* RunState
    stopped,      \* is the run called off?
    inbox,        \* of each agent
    activity,     \* the badge of each agent
    pc, batch,    \* where its actor is, and what it reads
    rounds,       \* rounds its turn has begun
    addressed,    \* peers its turn has written to
    outgoing,     \* the message it has in hand, if any
    errands,      \* the errands of its turn that have not ended ...
    ready,        \* ... and those about to claim a call
    air,          \* model calls in flight: of a turn (0) or of an errand
    billed,       \* history: model calls that answered or failed
    asked, replied   \* history: asks and answers delivered

sends == <<pairs, prints, expecting>>
guard == <<steps, sends>>
task  == <<batch, rounds, addressed>>
ledger == <<air, billed>>
history == <<asked, replied>>
vars == <<guard, stopped, inbox, activity, pc, task, outgoing, errands, ready, ledger, history>>

Pair  == Agent \X Agent
Call  == Agent \X (0..MostAtOnce)
Message == [from: Agent \cup {Human}, to: Agent, hop: 0..MaxHops, asks: BOOLEAN]
Control == {"idle", "gather", "listen", "turn", "round", "claim", "calling", "tools",
            "sending", "posting", "badging", "noting", "errands", "close", "reply",
            "answering", "answered", "finish", "resting", "queueing"}

Init ==
    /\ steps = 0 /\ prints = {} /\ expecting = {}
    /\ pairs = [p \in Pair |-> 0]
    /\ stopped = FALSE
    /\ inbox = [a \in Agent |->
                  IF a = First THEN <<[from |-> Human, to |-> a, hop |-> 0, asks |-> TRUE]>>
                               ELSE <<>>]
    /\ activity = [a \in Agent |-> IF a = First THEN "queued" ELSE "idle"]
    /\ pc = [a \in Agent |-> "idle"]
    /\ batch = [a \in Agent |-> <<>>]
    /\ rounds = [a \in Agent |-> 0]
    /\ addressed = [a \in Agent |-> {}]
    /\ outgoing = [a \in Agent |-> {}]
    /\ errands = [a \in Agent |-> {}]
    /\ ready = {} /\ air = {} /\ billed = 0
    /\ asked = [p \in Pair |-> 0] /\ replied = [p \in Pair |-> 0]

Goto(a, l) == pc' = [pc EXCEPT ![a] = l]
Becomes(a, x) == activity' = [activity EXCEPT ![a] = x]
Rest == UNCHANGED <<task, outgoing, errands, ready, history>>
Moves(a, l) == Goto(a, l) /\ Rest /\ UNCHANGED <<guard, stopped, inbox, activity, ledger>>

Left == MaxSteps - steps
\* Whoever the turn of a has to answer: a batch with an ask in it is that ask.
Asker(a) == IF batch[a][1].asks THEN {batch[a][1].from} ELSE {}
InboundHop(a) == Max({batch[a][i].hop : i \in DOMAIN batch[a]})

-----------------------------------------------------------------------------
(* The guard.                                                              *)

\* Mutant of Reserve: a spent run goes on.
ReserveOver(c) == steps' = steps + 1 /\ air' = air \cup {c} /\ UNCHANGED billed

\* reserve_step: one model call is claimed.
Reserve(c) ==
    /\ Left > 0
    /\ steps' = steps + 1
    /\ air' = air \cup {c} /\ UNCHANGED billed

\* reserve_step_leaving: the claim of an errand.
ReserveLeaving(c) ==
    /\ Left > Headroom
    /\ steps' = steps + 1
    /\ air' = air \cup {c} /\ UNCHANGED billed

\* A call answered, or failed every attempt: either way it is on the bill.
Bill(c) == air' = air \ {c} /\ billed' = billed + 1 /\ UNCHANGED steps

\* Mutant of ReleaseStep: the step stays claimed.
ReleaseStepNot(c) == UNCHANGED <<steps, billed>> /\ air' = air \ {c}

\* release_step: a call the stop cut short is given back.
ReleaseStep(c) == steps' = steps - 1 /\ air' = air \ {c} /\ UNCHANGED billed

\* evaluate: what it allows it records, and a message either way settles what
\* its sender owed its recipient.
Evaluate(a, b, t) ==
    /\ InboundHop(a) < MaxHops
    /\ Left > 0
    /\ pairs[a, b] < MaxPair
    /\ <<a, b, t>> \notin prints
    /\ pairs' = [pairs EXCEPT ![<<a, b>>] = @ + 1]
    /\ prints' = prints \cup {<<a, b, t>>}
    /\ expecting' = expecting \ {<<b, a>>}

HasWritten(b, a) == pairs[b, a] > 0

\* awaited_still_working: an answer a is owed, by somebody whose badge is busy.
AwaitedWorking(a) ==
    \E b \in Agent : <<a, b>> \in expecting /\ activity[b] \in {"queued", "thinking"}

-----------------------------------------------------------------------------
(* From the inbox to the turn (actor_loop).                                *)

Wake(a) ==
    /\ pc[a] = "idle" /\ inbox[a] # <<>>
    /\ batch' = [batch EXCEPT ![a] = <<Head(inbox[a])>>]
    /\ inbox' = [inbox EXCEPT ![a] = Tail(@)]
    /\ Goto(a, IF Head(inbox[a]).asks THEN "turn" ELSE "gather")
    /\ UNCHANGED <<guard, stopped, activity, rounds, addressed, outgoing, errands, ready,
                   ledger, history>>

\* What wants no answer is read together.
Gather(a) ==
    /\ pc[a] = "gather" /\ Len(batch[a]) < MaxBatch
    /\ inbox[a] # <<>> /\ ~Head(inbox[a]).asks
    /\ batch' = [batch EXCEPT ![a] = Append(@, Head(inbox[a]))]
    /\ inbox' = [inbox EXCEPT ![a] = Tail(@)]
    /\ UNCHANGED <<guard, stopped, activity, pc, rounds, addressed, outgoing, errands,
                   ready, ledger, history>>

\* An ask ends the batch; with nothing there, a looks at what it is owed.
Gathered(a) ==
    /\ pc[a] = "gather"
    /\ Len(batch[a]) < MaxBatch /\ inbox[a] # <<>> => Head(inbox[a]).asks
    /\ Moves(a, IF Len(batch[a]) < MaxBatch /\ inbox[a] = <<>> THEN "listen" ELSE "turn")

\* It looks again, BURST_POLL later, while an answer is being worked on ...
Listen(a) ==
    /\ pc[a] = "listen"
    /\ ~stopped /\ AwaitedWorking(a)
    /\ Moves(a, "gather")

\* ... and goes on with what it has when none is ...
GiveUp(a) ==
    /\ pc[a] = "listen"
    /\ stopped \/ ~AwaitedWorking(a)
    /\ Moves(a, "turn")

\* Mutant of Expire: a wait has no window.
ExpireNever(a) ==
    /\ pc[a] = "listen" /\ stopped
    /\ Moves(a, "turn")

\* ... or when GATHER_WINDOW has passed.
Expire(a) ==
    /\ pc[a] = "listen"
    /\ Moves(a, "turn")

-----------------------------------------------------------------------------
(* The turn (run_turn).                                                    *)

\* A run called off or spent ends the batch before anything is claimed.
Start(a) ==
    /\ pc[a] = "turn"
    /\ IF stopped \/ Left = 0
         THEN Goto(a, "finish") /\ UNCHANGED <<activity, rounds, addressed>>
         ELSE /\ Goto(a, "round") /\ Becomes(a, "thinking")
              /\ rounds' = [rounds EXCEPT ![a] = 0]
              /\ addressed' = [addressed EXCEPT ![a] = {}]
    /\ UNCHANGED <<guard, stopped, inbox, batch, outgoing, errands, ready, ledger, history>>

\* The top of a round: the stop is looked for ...
Round(a) ==
    /\ pc[a] = "round"
    /\ Moves(a, IF stopped THEN "finish" ELSE "claim")

\* ... and a call claimed and made, or the turn closes short.
Claim(a) ==
    /\ pc[a] = "claim"
    /\ \/ Reserve(<<a, 0>>) /\ Goto(a, "calling")
       \/ Left = 0 /\ Goto(a, "close") /\ UNCHANGED <<steps, ledger>>
    /\ Rest
    /\ UNCHANGED <<sends, stopped, inbox, activity>>

\* The call comes back, with tool calls, with a last word, or failed.
Answered(a) ==
    /\ pc[a] = "calling"
    /\ Bill(<<a, 0>>)
    /\ rounds' = [rounds EXCEPT ![a] = @ + 1]
    /\ \E l \in {"tools", "close", "finish"} : Goto(a, l)
    /\ UNCHANGED <<sends, stopped, inbox, activity, batch, addressed, outgoing, errands,
                   ready, history>>

\* Or the stop cuts it short.
Dropped(a) ==
    /\ pc[a] = "calling" /\ stopped
    /\ ReleaseStep(<<a, 0>>)
    /\ Goto(a, "finish") /\ Rest
    /\ UNCHANGED <<sends, stopped, inbox, activity>>

\* The tool calls of a round are done, or the stop is seen between two.
ToolsDone(a) ==
    /\ pc[a] = "tools"
    /\ Moves(a, IF stopped THEN "finish" ELSE IF rounds[a] < MaxRounds THEN "round" ELSE "close")

\* A send_message call, which reaches its recipients one after the other.
SendTool(a) == pc[a] = "tools" /\ ~stopped /\ Moves(a, "sending")
Sent(a)     == pc[a] = "sending" /\ Moves(a, "tools")

\* send_to_peers, one recipient.  What the guard refuses changes nothing; a
\* courtesy to a peer that has had its say, from a turn nobody asked anything,
\* is refused after the guard has recorded it.
Send(a, b, t, work) ==
    /\ pc[a] = "sending" /\ <<a, b, t, work>> \in Thinks
    /\ Evaluate(a, b, t)
    /\ IF Asker(a) = {} /\ HasWritten(b, a) /\ ~work
         THEN UNCHANGED <<outgoing, pc>>
         ELSE /\ outgoing' = [outgoing EXCEPT ![a] =
                   {[from |-> a, to |-> b, hop |-> InboundHop(a) + 1,
                     asks |-> ~HasWritten(b, a) \/ work]}]
              /\ Goto(a, "posting")
    /\ UNCHANGED <<steps, stopped, inbox, activity, task, errands, ready, ledger, history>>

\* deliver.  The message is in the inbox before the badge says so.
Post(a) ==
    /\ pc[a] = "posting"
    /\ \E m \in outgoing[a] :
         /\ inbox' = [inbox EXCEPT ![m.to] = Append(@, m)]
         /\ asked' = IF m.asks THEN [asked EXCEPT ![<<a, m.to>>] = @ + 1] ELSE asked
    /\ Goto(a, "badging")
    /\ UNCHANGED <<guard, stopped, activity, task, outgoing, errands, ready, ledger, replied>>

\* What the store will not hold reached nobody.
PostFails(a) ==
    /\ StoreFails
    /\ \/ pc[a] = "posting" /\ Goto(a, "sending")
       \/ pc[a] = "answering" /\ Goto(a, "finish")
    /\ outgoing' = [outgoing EXCEPT ![a] = {}]
    /\ UNCHANGED <<guard, stopped, inbox, activity, task, errands, ready, ledger, history>>

\* queue: the badge of an agent that is thinking is left alone.
Badge(a) ==
    /\ \E m \in outgoing[a] :
         IF activity[m.to] = "thinking" THEN UNCHANGED activity ELSE Becomes(m.to, "queued")
    /\ \/ pc[a] = "badging" /\ Goto(a, "noting") /\ UNCHANGED outgoing
       \/ pc[a] = "answered" /\ Goto(a, "finish")
          /\ outgoing' = [outgoing EXCEPT ![a] = {}]
    /\ UNCHANGED <<guard, stopped, inbox, task, errands, ready, ledger, history>>

\* note_sent, after the delivery: an ask is owed an answer.
Note(a) ==
    /\ pc[a] = "noting"
    /\ \E m \in outgoing[a] :
         /\ expecting' = IF m.asks THEN expecting \cup {<<a, m.to>>} ELSE expecting
         /\ addressed' = [addressed EXCEPT ![a] = @ \cup {m.to}]
    /\ outgoing' = [outgoing EXCEPT ![a] = {}]
    /\ Goto(a, "sending")
    /\ UNCHANGED <<steps, pairs, prints, stopped, inbox, activity, batch, rounds, errands,
                   ready, ledger, history>>

\* send_errands: up to MostAtOnce run at once, and the turn waits for all.
SendErrands(a) ==
    /\ pc[a] = "tools" /\ ~stopped
    /\ \E n \in 1..MostAtOnce : errands' = [errands EXCEPT ![a] = 1..n]
    /\ Goto(a, "errands")
    /\ UNCHANGED <<guard, stopped, inbox, activity, task, outgoing, ready, ledger, history>>

\* run_errand: the top of a round of one errand looks for the stop ...
ErrandRound(a, i) ==
    /\ pc[a] = "errands" /\ i \in errands[a] /\ <<a, i>> \notin ready \cup air
    /\ IF stopped THEN errands' = [errands EXCEPT ![a] = @ \ {i}] /\ UNCHANGED ready
                  ELSE ready' = ready \cup {<<a, i>>} /\ UNCHANGED errands
    /\ UNCHANGED <<guard, stopped, inbox, activity, pc, task, outgoing, ledger, history>>

\* ... and claims a call, or ends for want of budget.
ErrandClaim(a, i) ==
    /\ <<a, i>> \in ready
    /\ ready' = ready \ {<<a, i>>}
    /\ \/ ReserveLeaving(<<a, i>>) /\ UNCHANGED errands
       \/ /\ Left <= Headroom
          /\ errands' = [errands EXCEPT ![a] = @ \ {i}]
          /\ UNCHANGED <<steps, ledger>>
    /\ UNCHANGED <<sends, stopped, inbox, activity, pc, task, outgoing, history>>

\* Its call comes back with tool calls, or it is the errand's last: the answer,
\* a failure, or the last of its rounds.
ErrandAnswered(a, i) ==
    /\ <<a, i>> \in air /\ i # 0
    /\ Bill(<<a, i>>)
    /\ errands' \in {errands, [errands EXCEPT ![a] = @ \ {i}]}
    /\ UNCHANGED <<sends, stopped, inbox, activity, pc, task, outgoing, ready, history>>

\* Or the stop cuts it short.
ErrandDropped(a, i) ==
    /\ <<a, i>> \in air /\ i # 0 /\ stopped
    /\ ReleaseStep(<<a, i>>)
    /\ errands' = [errands EXCEPT ![a] = @ \ {i}]
    /\ UNCHANGED <<sends, stopped, inbox, activity, pc, task, outgoing, ready, history>>

ErrandsBack(a) == pc[a] = "errands" /\ errands[a] = {} /\ Moves(a, "tools")

\* The last look at the stop: a turn called off answers nobody.
Close(a) == pc[a] = "close" /\ Moves(a, IF stopped THEN "finish" ELSE "reply")

\* Mutant of Answer: an answer demands an answer.
AnswerAsks(a, b) == [from |-> a, to |-> b, hop |-> InboundHop(a) + 1, asks |-> TRUE]

\* "An agent's answer never itself demands an answer."
Answer(a, b) == [from |-> a, to |-> b, hop |-> InboundHop(a) + 1, asks |-> FALSE]

\* emit_reply: the answer to the peer that asked, unless this turn has written
\* to that peer already.
Reply(a, t) ==
    /\ pc[a] = "reply"
    /\ \E b \in (Asker(a) \cap Agent) \ addressed[a] :
         /\ Evaluate(a, b, t)
         /\ outgoing' = [outgoing EXCEPT ![a] = {Answer(a, b)}]
    /\ Goto(a, "answering")
    /\ UNCHANGED <<steps, stopped, inbox, activity, task, errands, ready, ledger, history>>

\* There is nothing to say, nobody to say it to, or the guard refuses it.
Silent(a) == pc[a] = "reply" /\ Moves(a, "finish")

PostReply(a) ==
    /\ pc[a] = "answering"
    /\ \E m \in outgoing[a] :
         /\ inbox' = [inbox EXCEPT ![m.to] = Append(@, m)]
         /\ replied' = [replied EXCEPT ![<<a, m.to>>] = @ + 1]
    /\ Goto(a, "answered")
    /\ UNCHANGED <<guard, stopped, activity, task, outgoing, errands, ready, ledger,
                   asked>>

\* finish_turn reads the depth of the queue ...
Finish(a) ==
    /\ pc[a] = "finish"
    /\ batch' = [batch EXCEPT ![a] = <<>>]
    /\ Goto(a, IF inbox[a] = <<>> THEN "resting" ELSE "queueing")
    /\ UNCHANGED <<guard, stopped, inbox, activity, rounds, addressed, outgoing, errands,
                   ready, ledger, history>>

\* ... and then sets the badge by it.
Idle(a) ==
    /\ pc[a] \in {"resting", "queueing"}
    /\ Becomes(a, IF pc[a] = "resting" THEN "idle" ELSE "queued")
    /\ Goto(a, "idle") /\ Rest
    /\ UNCHANGED <<guard, stopped, inbox, ledger>>

-----------------------------------------------------------------------------
\* stop_run, while anything of the run is booked.
StopRun ==
    /\ Stops /\ ~stopped
    /\ \E a \in Agent : inbox[a] # <<>> \/ batch[a] # <<>>
    /\ stopped' = TRUE /\ Rest
    /\ UNCHANGED <<guard, inbox, activity, pc, ledger>>

Read(a) == Wake(a) \/ Gather(a) \/ Gathered(a) \/ Listen(a) \/ GiveUp(a)
Turn(a) ==
    \/ Start(a) \/ Round(a) \/ Claim(a) \/ Answered(a) \/ Dropped(a) \/ ToolsDone(a)
    \/ SendTool(a) \/ Sent(a) \/ Post(a) \/ PostFails(a) \/ Badge(a) \/ Note(a)
    \/ \E b \in Agent, t \in Text, work \in BOOLEAN : Send(a, b, t, work)
    \/ SendErrands(a) \/ ErrandsBack(a) \/ Close(a) \/ Silent(a)
    \/ \E t \in LastWords : Reply(a, t)
    \/ PostReply(a) \/ Finish(a) \/ Idle(a)
ErrandStep(a, i) ==
    ErrandRound(a, i) \/ ErrandClaim(a, i) \/ ErrandAnswered(a, i) \/ ErrandDropped(a, i)

Next ==
    \/ StopRun
    \/ \E a \in Agent : Read(a) \/ Expire(a) \/ Turn(a)
                        \/ \E i \in 1..MostAtOnce : ErrandStep(a, i)

Spec == Init /\ [][Next]_vars

\* Tasks run on, a model call answers or fails, the clock passes the window of
\* a wait that goes on, and the tool calls of one completion are finitely many.
Fairness ==
    \A a \in Agent :
        /\ WF_vars(Read(a) \/ Turn(a))
        /\ SF_vars(Expire(a) \/ ToolsDone(a))
        /\ \A i \in 1..MostAtOnce : WF_vars(ErrandStep(a, i))

FairSpec == Spec /\ Fairness

-----------------------------------------------------------------------------
(* Every variable keeps its type: in particular the claims of any number of *)
(* turns and errands never pass the budget, and no count wraps below zero.  *)
TypeOK ==
    /\ steps \in 0..MaxSteps
    /\ pairs \in [Pair -> 0..MaxPair]
    /\ prints \subseteq Agent \X Agent \X Text
    /\ expecting \subseteq Pair
    /\ stopped \in BOOLEAN
    /\ inbox \in [Agent -> Seq(Message)]
    /\ activity \in [Agent -> {"idle", "queued", "thinking"}]
    /\ pc \in [Agent -> Control]
    /\ batch \in [Agent -> Seq(Message)]
    /\ rounds \in [Agent -> 0..MaxRounds]
    /\ addressed \in [Agent -> SUBSET Agent]
    /\ outgoing \in [Agent -> SUBSET Message]
    /\ errands \in [Agent -> SUBSET (1..MostAtOnce)]
    /\ ready \subseteq Call /\ air \subseteq Call
    /\ billed \in Nat
    /\ {asked, replied} \subseteq [Pair -> Nat]

(* The steps of a run are the calls that answered or failed and those still *)
(* in the air, however turns, errands and a stop interleave: the equation   *)
(* the run's bill is read by (release_step).                                *)
BillExact == steps = billed + Cardinality(air)

(* An automatic answer goes only to a peer that asked, once for each time it *)
(* asked: nothing bounces back and forth on its own (emit_reply).            *)
RepliesAnswerAsks == \A a, b \in Agent : replied[a, b] <= asked[b, a]

(* A conversation ends of itself, with nobody to stop it: two agents that     *)
(* gather at once, each for the other's answer, do not wait for ever, and no  *)
(* badge or debt left behind holds a gather for ever.                         *)
CascadeEnds == <>[](\A a \in Agent : pc[a] = "idle" /\ inbox[a] = <<>>)
=============================================================================
