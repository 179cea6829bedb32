----------------------------- MODULE RunLedger -----------------------------
(***************************************************************************)
(* What is owed, per conversation, and what survives the process.          *)
(*                                                                         *)
(* This is `Runs` of runtime/mod.rs with every critical section that       *)
(* touches it: accepting a message (`deliver`), the turn that reads it,    *)
(* the release that settles a run (`track_inflight`), the operator's stop, *)
(* the drain of a stopping host, and the journal the next host recovers    *)
(* from (db/put_down.rs).  A step of this module is one critical section   *)
(* of the run lock, or one read of it that a later step relies on.         *)
(*                                                                         *)
(* An inbox is a set here, and a command marks and notifies in one step:   *)
(* the order of messages, the holding queue and the interleavings of a     *)
(* single wake-up are the business of Mailbox.tla.                         *)
(***************************************************************************)
EXTENDS Naturals, FiniteSets

CONSTANTS
    Agent,        \* the agents of the workspace
    Outside,      \* the operator, the scheduler and the webhooks, as a sender
    Envelope,     \* every message addressed to an agent that may ever be sent
    Run,          \* the conversations
    RunOf,        \* the conversation of a message
    To,           \* the agent it is addressed to
    From,         \* who sends it
    Asks,         \* the ones an agent sends and waits for an answer to
    Answers,      \* the ones that carry the operator's answer to a decision
    Pausable,     \* bound: the agents the operator may pause
    Deletable,    \* bound: the agents the operator may delete
    StoreFails,   \* may a write to the store fail while work is put down?
    MaxCrashes    \* bound: how many times the process ends

ASSUME LedgerAssumption ==
    /\ IsFiniteSet(Envelope)
    /\ Outside \notin Agent
    /\ RunOf \in [Envelope -> Run]
    /\ To \in [Envelope -> Agent]
    /\ From \in [Envelope -> Agent \cup {Outside}]
    /\ Asks \subseteq {e \in Envelope : From[e] \in Agent}
    /\ Answers \subseteq {e \in Envelope : From[e] = Outside}
    \* Whatever comes from outside opens a conversation of its own (RunId::new).
    /\ \A d, e \in Envelope :
          RunOf[d] = RunOf[e] /\ From[d] = Outside /\ From[e] = Outside => d = e
    /\ Pausable \subseteq Agent /\ Deletable \subseteq Agent
    /\ StoreFails \in BOOLEAN
    /\ MaxCrashes \in Nat

VARIABLES
    up,           \* is a process running?
    draining,     \* Runs::draining
    outstanding,  \* Runs::outstanding, with 0 for a run that is not a key
    stopped,      \* Runs::stopped
    putDown,      \* Runs::put_down
    place,        \* where each message is
    pc, batch,    \* what each actor is doing, and the messages it does it for
    taken,        \* what the running turn absorbed on the way (`taken_in`)
    off,          \* what put_down_queue found called off and has yet to end
    terminated,   \* agents whose card says so
    gone,         \* agents whose inbox is no longer in Runtime::inboxes
    paused,       \* agents whose card said so last
    woken,        \* actors notified since they registered with their notifier
    late,         \* history: the ones that registered after the card had changed
    pending,      \* table pending_runs, by message
    rows, whole,  \* tables put_down and put_down_runs
    crashes,
    settled,      \* history: RunSettled events of each run
    pickups,      \* history: messages of each run picked up by a later host
    calledOff,    \* history: runs whose stop answered the operator `true`
    reported      \* history: runs a restart reported interrupted

runs    == <<draining, outstanding, stopped, putDown>>
actors  == <<pc, batch, taken, off>>
agents  == <<terminated, gone, paused, woken, late>>
journal == <<pending, rows, whole>>
history == <<settled, pickups, calledOff, reported>>
vars == <<up, runs, place, actors, agents, journal, crashes, history>>

\* Places in which a message is booked against its run.
Booked == {"posted", "repicked", "queued", "held", "stranded", "lost"}
\* "posted" and "repicked": booked, not yet in an inbox; "held": in a batch;
\* "stranded": left counted by a turn whose record could not be written;
\* "lost": left counted in a channel whose receiver was dropped;
\* "absorbed": read by a turn still running, its booking already released;
\* "swallowed": absorbed by a turn that was neither finished nor put down;
\* "kept": only in the put_down table; "cut": the process ended under it, or
\* its put-down row was never written; "recovered": read back, not yet picked
\* up; "ended": somebody's turn answered it, or said why it would not.
Place == Booked \cup {"new", "absorbed", "swallowed", "kept", "cut",
                      "recovered", "ended"}
Control == {"idle", "gate", "arm", "stopped?", "sweep", "park", "starting", "working",
            "replying", "halted", "putting", "leaving", "exiting", "exited"}

OfRun(r)    == {e \in Envelope : RunOf[e] = r}
Live(r)     == {e \in OfRun(r) : place[e] \in Booked}
Inbox(a)    == {e \in Envelope : To[e] = a /\ place[e] = "queued"}
RunsOf(E)   == {RunOf[e] : e \in E}
Moved(E, p) == [e \in Envelope |-> IF e \in E THEN p ELSE place[e]]
\* The turn of actor a is a turn of run r: a batch is single-run.
TurnOf(a, r) == batch[a] # {} /\ batch[a] \subseteq OfRun(r)
Goto(a, l)   == pc' = [pc EXCEPT ![a] = l]

TypeOK ==
    /\ up \in BOOLEAN /\ draining \in BOOLEAN
    /\ outstanding \in [Run -> Nat]
    /\ stopped \subseteq Run /\ putDown \subseteq Run
    /\ place \in [Envelope -> Place]
    /\ pc \in [Agent -> Control]
    /\ batch \in [Agent -> SUBSET Envelope]
    /\ taken \in [Agent -> SUBSET Envelope]
    /\ off \in [Agent -> SUBSET Envelope]
    /\ terminated \subseteq Agent /\ gone \subseteq Agent
    /\ paused \subseteq Agent /\ woken \subseteq Agent /\ late \subseteq Agent
    /\ pending \subseteq Envelope /\ rows \subseteq Envelope
    /\ whole \subseteq Run
    /\ crashes \in Nat
    /\ settled \in [Run -> Nat] /\ pickups \in [Run -> Nat]
    /\ calledOff \subseteq Run /\ reported \subseteq Run

Idle == [a \in Agent |-> "idle"]
None == [a \in Agent |-> {}]

Init ==
    /\ up = TRUE /\ draining = FALSE
    /\ outstanding = [r \in Run |-> 0]
    /\ stopped = {} /\ putDown = {}
    /\ place = [e \in Envelope |-> "new"]
    /\ pc = Idle /\ batch = None /\ taken = None /\ off = None
    /\ terminated = {} /\ gone = {} /\ paused = {} /\ woken = {} /\ late = {}
    /\ pending = {} /\ rows = {} /\ whole = {}
    /\ crashes = 0
    /\ settled = [r \in Run |-> 0] /\ pickups = [r \in Run |-> 0]
    /\ calledOff = {} /\ reported = {}

-----------------------------------------------------------------------------
\* Mutant of Release: what is put down is forgotten when the rest is over.
ReleaseForgetsPutDown(r, E) ==
    LET n == Cardinality(E)
        left == IF outstanding[r] > n THEN outstanding[r] - n ELSE 0
        over == left = 0
    IN  /\ outstanding' = [outstanding EXCEPT ![r] = left]
        /\ stopped' = IF over THEN stopped \ {r} ELSE stopped
        /\ IF over
             THEN /\ pending' = pending \ OfRun(r)
                  /\ settled' = [settled EXCEPT ![r] = @ + 1]
             ELSE UNCHANGED <<pending, settled>>
        /\ UNCHANGED <<putDown, rows, whole>>

(* track_inflight with a negative delta: the messages of E, all of run r,  *)
(* are over.  At zero the run settles, or is marked whole if part of it is *)
(* put down.                                                               *)
Release(r, E) ==
    LET n == Cardinality(E)
        left == IF outstanding[r] > n THEN outstanding[r] - n ELSE 0
        over == left = 0
    IN  /\ outstanding' = [outstanding EXCEPT ![r] = left]
        /\ stopped' = IF over THEN stopped \ {r} ELSE stopped
        /\ whole' = IF over /\ r \in putDown THEN whole \cup {r} ELSE whole
        /\ IF over /\ r \notin putDown
             THEN /\ pending' = pending \ OfRun(r)
                  /\ settled' = [settled EXCEPT ![r] = @ + 1]
             ELSE UNCHANGED <<pending, settled>>
        /\ UNCHANGED <<putDown, rows>>

\* What actor a holds is over, and so is everything its turn absorbed.
Over(a, r, next) ==
    /\ Release(r, batch[a])
    /\ place' = Moved(batch[a] \cup taken[a], "ended")
    /\ Goto(a, next)
    /\ batch' = [batch EXCEPT ![a] = {}]
    /\ taken' = [taken EXCEPT ![a] = {}]
    /\ UNCHANGED <<up, draining, off, agents, crashes, pickups, calledOff, reported>>

EndTurn(a, r) == Over(a, r, "idle")

\* boot::open has returned: the server and the desktop only then hand the
\* operator's calls, and the signal to stop, to the runtime.
Open == up /\ \A e \in Envelope : place[e] \notin {"recovered", "repicked"}

-----------------------------------------------------------------------------
(* Accepting a message.  One actor sends one at a time, from inside its    *)
(* turn; the outside sends once the host is open.  The sender looked the   *)
(* recipient up earlier, so it may be gone by now: `queue` finds out.      *)
MaySend(e) ==
    /\ up /\ place[e] = "new"
    /\ IF From[e] = Outside
         THEN Open
         ELSE /\ pc[From[e]] \in {"working", "replying"}
              /\ TurnOf(From[e], RunOf[e])
              /\ \A d \in Envelope : place[d] = "posted" => From[d] # From[e]

\* A stopping host writes the message down for the next one instead.
PutsDown(e) == draining /\ RunOf[e] \notin stopped /\ e \notin Answers

DeliverKept(e) ==
    /\ MaySend(e) /\ PutsDown(e)
    /\ place' = Moved({e}, "kept")
    /\ pending' = pending \cup {e}
    /\ rows' = rows \cup {e}
    /\ whole' = IF outstanding[RunOf[e]] = 0 THEN whole \cup {RunOf[e]} ELSE whole
    /\ putDown' = putDown \cup {RunOf[e]}
    /\ UNCHANGED <<up, draining, outstanding, stopped, actors, agents, crashes, history>>

\* Otherwise it is booked, in the critical section that journals it; a run
\* already stopped is booked and not journalled.
Deliver(e) ==
    /\ MaySend(e) /\ ~PutsDown(e)
    /\ place' = Moved({e}, "posted")
    /\ outstanding' = [outstanding EXCEPT ![RunOf[e]] = @ + 1]
    /\ pending' = IF RunOf[e] \in stopped THEN pending ELSE pending \cup {e}
    /\ UNCHANGED <<up, draining, stopped, putDown, actors, agents, rows, whole,
                   crashes, history>>

\* queue: the booked message reaches the inbox, unless there is none any more
\* or its receiver was dropped.
Queue(e) ==
    /\ up /\ place[e] \in {"posted", "repicked"}
    /\ IF To[e] \in gone \/ pc[To[e]] = "exited"
         THEN /\ Release(RunOf[e], {e})
              /\ place' = Moved({e}, "ended")
              /\ UNCHANGED <<up, draining, actors, agents, crashes,
                             pickups, calledOff, reported>>
         ELSE /\ place' = Moved({e}, "queued")
              /\ UNCHANGED <<up, runs, actors, agents, journal, crashes, history>>
-----------------------------------------------------------------------------
(* An actor, from the message it takes to the gate of a turn.              *)

\* actor_loop: a message is taken off the inbox; an actor of a stopping host
\* puts down what it holds instead (SweepQueue).
Take(a, e) ==
    /\ up /\ ~draining /\ pc[a] = "idle" /\ e \in Inbox(a)
    /\ place' = Moved({e}, "held")
    /\ batch' = [batch EXCEPT ![a] = {e}]
    /\ Goto(a, "gate")
    /\ UNCHANGED <<up, runs, taken, off, agents, journal, crashes, history>>

\* The card is read.  An agent at work joins to what it took more of the run ...
Begin(a) ==
    /\ up /\ pc[a] = "gate" /\ a \notin terminated \cup paused
    /\ \E r \in Run : \E B \in SUBSET (Inbox(a) \cap OfRun(r)) :
         /\ TurnOf(a, r)
         /\ batch' = [batch EXCEPT ![a] = @ \cup B]
         /\ place' = Moved(B, "held")
    /\ Goto(a, "starting")
    /\ UNCHANGED <<up, runs, taken, off, agents, journal, crashes, history>>

\* ... a paused one is about to register with its notifier ...
Pausing(a) ==
    /\ up /\ pc[a] = "gate" /\ a \in paused
    /\ Goto(a, "arm")
    /\ UNCHANGED <<up, runs, place, batch, taken, off, agents, journal, crashes, history>>

\* ... and a deleted one lets go of what it took, of what its inbox still holds,
Abandon(a) ==
    /\ up /\ pc[a] = "gate" /\ a \in terminated
    /\ \E r \in Run : TurnOf(a, r) /\ Over(a, r, "leaving")

Orphan(a, e) ==
    /\ up /\ pc[a] = "leaving" /\ e \in Inbox(a)
    /\ Release(RunOf[e], {e})
    /\ place' = Moved({e}, "ended")
    /\ UNCHANGED <<up, draining, actors, agents, crashes, pickups, calledOff, reported>>

Leave(a) ==
    /\ up /\ pc[a] = "leaving" /\ Inbox(a) = {}
    /\ Goto(a, "exiting")
    /\ UNCHANGED <<up, runs, place, batch, taken, off, agents, journal, crashes, history>>

\* and then of the receiver, with what was sent to it since: `stop_agent` may
\* not have taken the inbox out of the map yet.
Exit(a) ==
    /\ up /\ pc[a] = "exiting"
    /\ place' = Moved(Inbox(a), "lost")
    /\ Goto(a, "exited")
    /\ UNCHANGED <<up, runs, batch, taken, off, agents, journal, crashes, history>>

(* A paused agent's actor, holding the message it took.  Registered, it     *)
(* looks at the drain (SweepQueue, if the message is to be put down) ...    *)
Arm(a) ==
    /\ up /\ pc[a] = "arm"
    /\ \E r \in Run : TurnOf(a, r) /\ (~draining \/ r \in stopped)
    /\ woken' = woken \ {a}
    /\ late' = IF a \in paused THEN late \ {a} ELSE late \cup {a}
    /\ Goto(a, "stopped?")
    /\ UNCHANGED <<up, runs, place, batch, taken, off, terminated, gone, paused,
                   journal, crashes, history>>

\* ... then at the stop of what it holds, which a drain begun since looks like ...
LookStopped(a) ==
    /\ up /\ pc[a] = "stopped?"
    /\ \E r \in Run :
         /\ TurnOf(a, r)
         /\ \/ (draining \/ r \in stopped) /\ EndTurn(a, r)
            \/ /\ ~draining /\ r \notin stopped
               /\ Goto(a, "sweep")
               /\ UNCHANGED <<up, runs, place, batch, taken, off, agents, journal,
                              crashes, history>>

\* ... and ends what is called off behind it, but for what it set aside before ...
Sweep(a, e) ==
    /\ up /\ pc[a] = "sweep" /\ e \in Inbox(a) /\ RunOf[e] \in stopped
    /\ Release(RunOf[e], {e})
    /\ place' = Moved({e}, "ended")
    /\ UNCHANGED <<up, draining, actors, agents, crashes, pickups, calledOff, reported>>

\* ... before it sleeps until it is woken.
Park(a) ==
    /\ up /\ pc[a] = "sweep"
    /\ Goto(a, "park")
    /\ UNCHANGED <<up, runs, place, batch, taken, off, agents, journal, crashes, history>>

Wake(a) ==
    /\ up /\ pc[a] = "park" /\ a \in woken
    /\ woken' = woken \ {a} /\ late' = late \ {a}
    /\ Goto(a, "gate")
    /\ UNCHANGED <<up, runs, place, batch, taken, off, terminated, gone, paused,
                   journal, crashes, history>>

-----------------------------------------------------------------------------
(* The turn.                                                               *)

\* run_turn, before anything is spent: a deleted agent, a run called off and a
\* run without budget (or whose record of before the restart is unreadable)
\* end the batch; a stopping host puts it down.
Start(a) ==
    /\ up /\ pc[a] = "starting"
    /\ \E r \in Run :
         /\ TurnOf(a, r)
         /\ \/ (a \in terminated \/ r \in stopped \/ ~draining) /\ EndTurn(a, r)
            \/ /\ a \notin terminated /\ draining /\ r \notin stopped
               /\ pc' = [pc EXCEPT ![a] = "putting"]
               /\ UNCHANGED <<up, runs, place, batch, taken, off, agents, journal,
                              crashes, history>>
            \/ /\ a \notin terminated /\ ~draining /\ r \notin stopped
               /\ pc' = [pc EXCEPT ![a] = "working"]
               /\ UNCHANGED <<up, runs, place, batch, taken, off, agents, journal,
                              crashes, history>>

\* take_in / absorb: the operator's or Guaca's own message joins the turn in
\* progress, unless that one answers a peer, and is released against its own run
\* at once.
Absorb(a, e) ==
    /\ up /\ pc[a] = "working" /\ batch[a] \cap Asks = {}
    /\ e \in Inbox(a) /\ From[e] = Outside
    /\ ~draining /\ RunOf[e] \notin stopped
    /\ Release(RunOf[e], {e})
    /\ place' = Moved({e}, "absorbed")
    /\ taken' = [taken EXCEPT ![a] = @ \cup {e}]
    /\ UNCHANGED <<up, draining, pc, batch, off, agents, crashes,
                   pickups, calledOff, reported>>

\* A boundary of the round loop at which stopped() answers true.
Halt(a) ==
    /\ up /\ pc[a] = "working"
    /\ \E r \in Run : TurnOf(a, r) /\ (draining \/ r \in stopped)
    /\ \A e \in Envelope : place[e] = "posted" => From[e] # a
    /\ pc' = [pc EXCEPT ![a] = "halted"]
    /\ UNCHANGED <<up, runs, place, batch, taken, off, agents, journal, crashes, history>>

\* The loop ends by itself; the operator's stop, and only that, still counts.
EndRounds(a) ==
    /\ up /\ pc[a] = "working"
    /\ \A e \in Envelope : place[e] = "posted" => From[e] # a
    /\ \E r \in Run :
         /\ TurnOf(a, r)
         /\ pc' = [pc EXCEPT ![a] = IF r \in stopped THEN "halted" ELSE "replying"]
    /\ UNCHANGED <<up, runs, place, batch, taken, off, agents, journal, crashes, history>>

\* emit_reply has sent what it sends (Deliver, above), and the turn finishes.
Finish(a) ==
    /\ up /\ pc[a] = "replying"
    /\ \A e \in Envelope : place[e] = "posted" => From[e] # a
    /\ \E r \in Run : TurnOf(a, r) /\ EndTurn(a, r)

\* After the loop of a halted turn: called off, it ends with its notice;
\* stopped by the host, it writes its record and is put down.  A record that
\* cannot be written leaves the turn counted and puts nothing down.
Halted(a) ==
    /\ up /\ pc[a] = "halted"
    /\ \E r \in Run :
         /\ TurnOf(a, r)
         /\ \/ r \in stopped /\ EndTurn(a, r)
            \/ /\ r \notin stopped
               /\ pc' = [pc EXCEPT ![a] = "putting"]
               /\ UNCHANGED <<up, runs, place, batch, taken, off, agents, journal,
                              crashes, history>>
            \/ /\ r \notin stopped /\ StoreFails
               /\ pc' = [pc EXCEPT ![a] = "idle"]
               /\ place' = [e \in Envelope |-> CASE e \in batch[a] -> "stranded"
                                                 [] e \in taken[a] -> "swallowed"
                                                 [] OTHER -> place[e]]
               /\ batch' = [batch EXCEPT ![a] = {}]
               /\ taken' = [taken EXCEPT ![a] = {}]
               /\ UNCHANGED <<up, runs, off, agents, journal, crashes, history>>

-----------------------------------------------------------------------------
(* The drain.                                                              *)

\* An actor at rest with something in its inbox, or one that holds the message
\* of a paused agent and has just looked.
PutsQueueDown(a) ==
    \/ pc[a] = "idle" /\ Inbox(a) # {}
    \/ pc[a] = "arm" /\ \A e \in batch[a] : RunOf[e] \notin stopped

\* put_down_queue: everything this actor holds, split by what is called off.
SweepQueue(a) ==
    /\ up /\ draining /\ PutsQueueDown(a)
    /\ LET dead == {e \in Inbox(a) : RunOf[e] \in stopped}
       IN  /\ off' = [off EXCEPT ![a] = dead]
           /\ batch' = [batch EXCEPT ![a] = (@ \cup Inbox(a)) \ dead]
    /\ place' = Moved(Inbox(a), "held")
    /\ Goto(a, "putting")
    /\ UNCHANGED <<up, runs, taken, agents, journal, crashes, history>>

\* What it found called off ends as a stop ends it, one by one ...
EndCalledOff(a, e) ==
    /\ up /\ pc[a] = "putting" /\ e \in off[a]
    /\ Release(RunOf[e], {e})
    /\ off' = [off EXCEPT ![a] = @ \ {e}]
    /\ place' = Moved({e}, "ended")
    /\ UNCHANGED <<up, draining, pc, batch, taken, agents, crashes,
                   pickups, calledOff, reported>>

\* Mutant of LeftBy: what the turn absorbed is released a second time.
LeftByAll(a) ==
    [r \in Run |-> outstanding[r] - Cardinality((batch[a] \cup taken[a]) \cap OfRun(r))]

\* The books without what actor a puts down: only its batch was still booked.
LeftBy(a) ==
    [r \in Run |-> LET n == Cardinality(batch[a] \cap OfRun(r))
                   IN  IF outstanding[r] > n THEN outstanding[r] - n ELSE 0]

\* Mutant of NowIdle: every run touched is marked whole.
EveryTouched(a) == RunsOf(batch[a] \cup taken[a])

\* The runs this leaves with nothing outstanding.
NowIdle(a) == {r \in RunsOf(batch[a] \cup taken[a]) : LeftBy(a)[r] = 0}

\* ... and put_down takes the rest out of the books and writes it down, with a
\* mark on every run this leaves with nothing outstanding.  A failed write
\* leaves the messages to their pending rows.
PutDown(a) ==
    /\ up /\ pc[a] = "putting" /\ off[a] = {}
    /\ LET down == batch[a] \cup taken[a]
       IN  /\ outstanding' = LeftBy(a)
           /\ putDown' = putDown \cup RunsOf(down)
           /\ \/ /\ rows' = rows \cup down
                 /\ whole' = whole \cup NowIdle(a)
                 /\ place' = Moved(down, "kept")
              \/ /\ StoreFails
                 /\ place' = Moved(down, "cut")
                 /\ UNCHANGED <<rows, whole>>
    /\ pc' = [pc EXCEPT ![a] = "idle"]
    /\ batch' = [batch EXCEPT ![a] = {}]
    /\ taken' = [taken EXCEPT ![a] = {}]
    /\ UNCHANGED <<up, draining, stopped, off, agents, pending, crashes, history>>

-----------------------------------------------------------------------------
(* The operator, and the host.                                             *)

\* notify_waiters reaches the actors that are registered; an inbox that is no
\* longer listed hands its notifier to nobody.
Registered(a) == pc[a] \in {"stopped?", "sweep", "park"}
Waiting == {a \in Agent \ gone : Registered(a)}

\* stop_run: it marks, takes the run off both journals and releases nothing; then
\* it wakes everybody.
StopRun(r) ==
    /\ Open /\ outstanding[r] > 0
    /\ stopped' = stopped \cup {r}
    /\ calledOff' = calledOff \cup {r}
    /\ pending' = pending \ OfRun(r)
    /\ IF r \in putDown
         THEN /\ putDown' = putDown \ {r}
              /\ rows' = rows \ OfRun(r)
              /\ whole' = whole \ {r}
              /\ place' = Moved({e \in OfRun(r) : place[e] = "kept"}, "ended")
         ELSE UNCHANGED <<putDown, rows, whole, place>>
    /\ woken' = woken \cup Waiting
    /\ UNCHANGED <<up, draining, outstanding, actors, terminated, gone, paused, late,
                   crashes, settled, pickups, reported>>

\* The operator's pause; the resume wakes the agent's actor, if it is registered.
Pause(a) ==
    /\ Open /\ a \in Pausable \ (paused \cup terminated)
    /\ paused' = paused \cup {a}
    /\ UNCHANGED <<up, runs, place, actors, terminated, gone, woken, late, journal,
                   crashes, history>>

Resume(a) ==
    /\ Open /\ a \in paused
    /\ paused' = paused \ {a}
    /\ woken' = woken \cup ({a} \cap Waiting)
    /\ UNCHANGED <<up, runs, place, actors, terminated, gone, late, journal, crashes,
                   history>>

\* discard_agent: the card is marked first.
Discard(a) ==
    /\ Open /\ a \in Deletable \ terminated
    /\ terminated' = terminated \cup {a}
    /\ paused' = paused \ {a}
    /\ UNCHANGED <<up, runs, place, actors, gone, woken, late, journal, crashes, history>>

\* Mutant of StopAgent: the actor that sleeps is not told.
StopAgentSilently(a) ==
    /\ up /\ a \in terminated \ gone
    /\ gone' = gone \cup {a}
    /\ UNCHANGED <<up, runs, place, actors, terminated, paused, woken, late, journal,
                   crashes, history>>

\* discard_agent's second half: the inbox is dropped, and its actor woken.
StopAgent(a) ==
    /\ up /\ a \in terminated \ gone
    /\ gone' = gone \cup {a}
    /\ woken' = woken \cup ({a} \cap Waiting)
    /\ UNCHANGED <<up, runs, place, actors, terminated, paused, late, journal, crashes,
                   history>>

\* Mutant of Drain: it waits for whatever an actor was doing.
DrainSilently ==
    /\ Open /\ ~draining
    /\ draining' = TRUE
    /\ UNCHANGED <<up, outstanding, stopped, putDown, place, actors, agents, journal,
                   crashes, history>>

\* The drain wakes every actor that sleeps on a paused agent.
Drain ==
    /\ Open /\ ~draining
    /\ draining' = TRUE
    /\ woken' = woken \cup Waiting
    /\ UNCHANGED <<up, outstanding, stopped, putDown, place, actors, terminated, gone,
                   paused, late, journal, crashes, history>>

\* The process ends: by a crash, or after a drain, complete or out of time.  The
\* next one starts an actor for every agent that is not terminated.
HostEnds ==
    /\ up /\ crashes < MaxCrashes
    /\ up' = FALSE /\ crashes' = crashes + 1
    /\ draining' = FALSE
    /\ outstanding' = [r \in Run |-> 0]
    /\ stopped' = {} /\ putDown' = {}
    /\ pc' = Idle /\ batch' = None /\ taken' = None /\ off' = None
    /\ gone' = terminated /\ woken' = {} /\ late' = {}
    /\ place' = [e \in Envelope |->
                   CASE place[e] \in Booked \cup {"recovered"} -> "cut"
                     [] place[e] = "absorbed" -> "swallowed"
                     [] OTHER -> place[e]]
    /\ UNCHANGED <<terminated, paused, journal, history>>

\* Mutant of Resumed: whatever was put down is picked up.
ResumedAll == rows

\* What the next host picks up: the rows of the runs marked whole.
Resumed == {e \in rows : RunOf[e] \in whole}

\* Mutants of Interrupted: only what was put down is looked at; and what is
\* picked up is reported all the same.
InterruptedRowsOnly == RunsOf(rows) \ RunsOf(Resumed)
InterruptedAll == RunsOf(pending \cup rows)

\* What it reports: every other run the tables name.
Interrupted == RunsOf(pending \cup rows) \ RunsOf(Resumed)

\* Store::recover, one commit: whole runs are read back, every other run the
\* tables still name is reported interrupted.
Recover ==
    /\ ~up
    /\ reported' = reported \cup Interrupted
    /\ pending' = {e \in pending : RunOf[e] \in RunsOf(Resumed)} \cup Resumed
    /\ place' = [e \in Envelope |-> IF e \in Resumed THEN "recovered"
                                    ELSE IF place[e] = "kept" THEN "cut" ELSE place[e]]
    /\ rows' = {} /\ whole' = {} /\ up' = TRUE
    /\ UNCHANGED <<runs, actors, agents, crashes, settled, pickups, calledOff>>

\* pick_up: each message read back is booked again, then queued.
PickUp(e) ==
    /\ up /\ place[e] = "recovered"
    /\ \A d \in Envelope : place[d] # "repicked"
    /\ place' = Moved({e}, "repicked")
    /\ outstanding' = [outstanding EXCEPT ![RunOf[e]] = @ + 1]
    /\ pickups' = [pickups EXCEPT ![RunOf[e]] = @ + 1]
    /\ UNCHANGED <<up, draining, stopped, putDown, actors, agents, journal,
                   crashes, settled, calledOff, reported>>

Act(a) ==
    \/ Begin(a) \/ Pausing(a) \/ Abandon(a) \/ Leave(a) \/ Exit(a)
    \/ Arm(a) \/ LookStopped(a) \/ Park(a) \/ Wake(a)
    \/ Start(a) \/ Halt(a) \/ EndRounds(a) \/ Finish(a) \/ Halted(a)
    \/ SweepQueue(a) \/ PutDown(a)
    \/ \E e \in Envelope : \/ Take(a, e) \/ Orphan(a, e) \/ Sweep(a, e)
                          \/ Absorb(a, e) \/ EndCalledOff(a, e)

Next ==
    \/ \E e \in Envelope : DeliverKept(e) \/ Deliver(e) \/ Queue(e) \/ PickUp(e)
    \/ \E a \in Agent : Act(a) \/ Pause(a) \/ Resume(a) \/ Discard(a) \/ StopAgent(a)
    \/ \E r \in Run : StopRun(r)
    \/ Drain \/ HostEnds \/ Recover

Spec == Init /\ [][Next]_vars

\* Every task of the runtime keeps running, model and tool calls come back, a
\* deletion that was begun is finished, and a host that stopped is started again.
\* Nobody has to send, pause, resume, stop, delete or drain.
Fairness ==
    /\ \A a \in Agent : WF_vars(Act(a))
    /\ WF_vars(\E e \in Envelope : Queue(e) \/ PickUp(e))
    /\ WF_vars(Recover \/ \E a \in Agent : StopAgent(a))

FairSpec == Spec /\ Fairness
-----------------------------------------------------------------------------
(* Properties.                                                             *)

\* The count of a run is the number of its messages somebody has yet to
\* release: every accepted message is booked once, before it can be read, and
\* released once, whatever ends it.
BookingsExact == \A r \in Run : outstanding[r] = Cardinality(Live(r))

\* track_inflight: RunSettled is emitted only once nothing of the conversation
\* is booked and nothing of it is put down for the next host.
SettlesWhenOver ==
    [][\A r \in Run : settled'[r] # settled[r] =>
          \A e \in OfRun(r) : place'[e] \notin Booked \cup {"kept"}]_vars

\* put_down_runs: while a conversation is marked whole nothing of it is running.
WholeMeansIdle == \A r \in whole : up => Live(r) = {}

\* Store::recover picks a conversation up with no hole in it: no message of it was
\* waiting or in hand when a host ended and is missing ("cut").
PickedUpIntact ==
    [][\A d, e \in Envelope :
          RunOf[d] = RunOf[e] /\ place[e] # "recovered" /\ place'[e] = "recovered"
            => place'[d] # "cut"]_vars

\* A message that was waiting or in hand when the process ended is reported with
\* its conversation, unless the operator called that off.  The exception is a
\* conversation a host had begun to pick up, message by message, and that settled
\* under it; and a message a turn had absorbed ("swallowed") is no longer booked.
NothingSilent ==
    up => \A e \in Envelope : place[e] = "cut" =>
             \/ RunOf[e] \in reported \cup calledOff
             \/ pickups[RunOf[e]] > 0 /\ settled[RunOf[e]] > 0

\* What was reported interrupted is never replayed.
NeverReplayed ==
    \A r \in reported : \A e \in OfRun(r) :
        place[e] \notin Booked \cup {"kept", "recovered"}

\* An actor that nobody will wake: the resume or the deletion it sleeps through
\* came between the read of the card and Arm.
Overslept(a) == pc[a] = "park" /\ a \in late \ woken

\* Every accepted message is over in the end: again and again an agent comes to
\* the point where it owes nothing, unless it is paused then, or overslept.  A message
\* stays for ever that reached a deleted agent's channel after its actor had
\* emptied it, while the inbox was still in the map ("lost").
OwedBy(a) == {e \in Envelope : To[e] = a /\ place[e] \in Booked \ {"lost"}}
AcceptedEnds == \A a \in Agent : []<>(OwedBy(a) = {} \/ a \in paused \/ Overslept(a))

\* A host that drains comes to the point where nothing is outstanding, or ends,
\* whatever an actor was doing, asleep on a paused agent's message or not.  What
\* may stay is what a deletion leaves: a message lost with its channel, or one
\* behind an actor that read the card before the deletion and registered after
\* the inbox was gone.
DrainCompletes ==
    []<>(draining => \A e \in Envelope : place[e] \in Booked =>
                        place[e] = "lost" \/ (To[e] \in gone /\ Overslept(To[e])))
=============================================================================
