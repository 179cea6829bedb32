# Guaca, in TLA+

Guaca runs a workspace of language-model agents. Each agent is an actor with an
inbox; agents write to each other and to the operator; everything one request
sets off is a *run*, a conversation, with a budget, a stop button and a place in
a recovery journal. This directory models that runtime: what is owed and to
whom, in which order an inbox is read, what a cascade of agents may spend, how a
turn waits for the operator, what becomes of a decision left for the operator, how a
crew shares one sign-in, how a host is replaced by its successor, and what survives the
end of the process.

The modules are translated from the Rust source under `src-tauri/src`. Paths below
are relative to it; `mod.rs` is `runtime/mod.rs`. `PROJECT.json` names, for every
definition, the lines it stands for.

    tlc -workers 2 -config MCApprovals_park.cfg MCApprovals
    tlapm RunLedgerProofs.tla

## The system

How a message travels: `deliver` books it against its run and journals it, `queue`
puts it into the recipient's channel, `actor_loop` takes it off (with what may be
read together with it), `run_turn` calls the model and the tools in rounds, tools
send further messages through the guard, `finish_turn` releases the booking, and
the last release settles the run. Shared state is behind mutexes: `Runs` (books,
stops, drain), the guard registry (budgets), `inboxes`, `waiting` (wakers), the
store (SQLite, one connection pool). Everything else is a channel or a `Notify`.

| Component | State it keeps | Operations | What is hard | What makes it correct |
|---|---|---|---|---|
| Run ledger, drain, recovery (`mod.rs`, `drain.rs`, `db/put_down.rs`, `boot.rs`) | outstanding bookings, stops, what is put down; tables `pending_runs`, `put_down`, `put_down_runs` | deliver, queue, release, absorb, stop, drain, put down, recover, pick up | every step races a stop, a drain, a deletion or the end of the process | books exact; settled only when over; nothing silent, nothing replayed; a drain completes |
| Actor loop and inbox (`mod.rs`) | channel, holding queue, depth, notifier, card | take, gather, put back, sweep, pause, resume, delete, restore | wake-ups lost between a look and a sleep; two actors of one agent | read in order; depth exact; each booked message in exactly one hand; a stop reaches what is held |
| Guard, cascade, errands (`runtime/guard.rs`, `runtime/errand.rs`, `mod.rs`) | steps, pair counts, fingerprints, debts, badges | reserve, release, evaluate, note, gather, send, reply, errand | claims of many agents on one budget; agents that wait for each other | the bill is exact and bounded; answers follow asks; every cascade ends |
| Approvals and questions (`mod.rs`, `db/store.rs`) | `approvals` table, wakers in memory | ask, park, decide, answer, expire, release, revoke | an answer racing the window, a stop, a restart | the turn acts on what the row says; no lost wake-up; no button that answers nothing |
| Decisions (`db/decisions.rs`, `runtime/decisions.rs`) | `decisions` table with a stamp, screens | raise, revise, answer, resume, snooze, complete, withdraw, interrupt, recover, remind | an answer against a stamp that has moved; an answer whose run dies, is stopped, or is picked up | one answer, to the question that was shown, acted on in one conversation; a reminder in time |
| Scheduler, routines, events (`mod.rs`, `db/store.rs`, `domain/routine.rs`, `webhook.rs`) | `routines` table with a slot per row; copies in the hands of a sweep | create, edit, switch, delete, sweep, post, ask, move, fire | rows edited while a sweep holds copies; a crash between the move and the delivery; sleep through several slots | what is due fires once; the slot is one the label allows |
| Agents, groups, compost (`mod.rs`, `domain/agent.rs`, `domain/group.rs`) | cards, lifecycles, places | create, pause, resume, delete, restore, move | commands against a running turn | part of the first two components |
| Turn contents (`runtime/prompt.rs`, `llm/tools.rs`, `domain/*.rs`) | none between calls | build a prompt, parse a call | text | outside a state machine |
| Model providers (`llm/*.rs`) | none between calls | a call: answered, failed, cut short | I/O | its three outcomes are in Cascade |
| Credentials and sign-in (`subscription.rs`, `oauth.rs`, `account.rs`, `secrets.rs`, `pickup.rs`) | tokens in memory and in a file, a refresh gate | access, renew, refresh, store, sign in, sign out | a crew that all see one refused token; an answer that does not arrive; a sign-in or sign-out while a refresh is out | a refresh token is spent once, and for a cause |
| Plugins and MCP (`plugins.rs`, `mcp.rs`, `mcp/stdio.rs`) | none between calls | a session per call | I/O | - |
| Machines and browsers (`e2b.rs`, `kernel.rs`, `cdp.rs`, `proxy.rs`) | the provider's | create, use, sweep | I/O | - |
| Store, migrations, search (`db/*.rs`, `domain/search.rs`) | SQLite | transactions | one commit is one step | its recovery and approval tables are in RunLedger and Approvals |
| Host replacement, updates (`host.rs`, `updater.rs`, `updates.rs`, `rebuild.rs`) | a journal on disk, a container, volumes | start, update, back up, replace, verify, restore, settle, prune | any Docker call or record that fails, a crash between any two steps | a host runs over a workspace it can read; a way back while it is replaced; nothing lost; it comes up |
| Server, live events, commands (`server/*.rs`, `ipc.rs`, `commands.rs`, `runtime/events.rs`) | subscriptions | one runtime call per handler | - | those calls are the actions of the modules |
| Files, skills, notebook, workspace (`files.rs`, `skills*.rs`, `notebook.rs`, ...) | documents on disk | read, write whole | - | - |
| Evals and trajectories (`eval.rs`, `trajectory.rs`) | none | read what a run did | - | the equation they read a bill by is `BillExact` |
| Desktop shell, binaries, front end (`app.rs`, `tray.rs`, `bin/`, the React client) | windows | draw, start, stop | - | their order of opening and draining is in RunLedger |

## The modules

    RunLedger     <- MCRunLedger    (2 configurations)   RunLedgerProofs
    Line          <- the abstract inbox
    Mailbox       <- MCMailbox      (2 configurations)   MailboxProofs: Mailbox implements Line
    Cascade       <- MCCascade      (2 configurations)   CascadeProofs
    Approvals     <- MCApprovals    (1 configuration)    ApprovalsProofs
    Decisions     <- MCDecisions    (1 configuration)    DecisionsProofs
    Schedule      <- MCSchedule     (2 configurations)   ScheduleProofs
    Subscription  <- MCSubscription (1 configuration)    SubscriptionProofs
    HostUpdate    <- MCHostUpdate   (1 configuration)    HostUpdateProofs

The first four components cut the runtime along its locks. They meet in a few places, and each of
these is modelled on both sides: a booking (RunLedger counts it, Mailbox holds the
message it stands for), the stop (RunLedger marks it, Mailbox ends what is in line,
Cascade cuts calls short, Approvals wakes who is parked), the drain (RunLedger puts
the work down, Mailbox empties the line, Approvals expires the requests). What Schedule
fires is a message that RunLedger's `Deliver` begins with. The runs of Decisions are
conversations of RunLedger seen from outside: booked, live, put down, held by a host that
recovers, over. Subscription is what a model call of Cascade waits for, and HostUpdate is
the stop and the start around all of it.

A definition whose comment begins "Mutant of" is a plausible bug in the definition
that follows it; it is used by no run and says what the properties would notice.

### RunLedger

One step is one critical section of the run lock, or one read of it that a later
step relies on. `outstanding`, `stopped`, `putDown` and `draining` are the fields of
`Runs`; `pending`, `rows` and `whole` are the tables of the journal; `place` says in
whose hands each message is, `pc`, `batch`, `taken` and `off` what each actor is
doing. `terminated`, `gone` and `paused` are what a card and the map of inboxes say of an
agent, and `woken` the actors notified since they registered. The last variables, with
`late`, are histories that properties need: how often a run settled, what was picked up,
called off, reported, and who registered after the card had changed.

`Deliver` and `DeliverKept` are the two arms of `deliver`, `Queue` is `queue`, with its
release when the inbox is gone; `Begin` to `Finish` are a turn, with `Absorb` for what
joins it on the way (`take_in`), `Halt` for each boundary that finds a stop or a drain,
and `Halted` for what comes after the loop. `SweepQueue`, `EndCalledOff` and `PutDown`
are `put_down_queue` and `put_down`; `StopRun`, `Pause`, `Resume`, `Discard` and `Drain` the
operator's; `HostEnds` a crash or an exit at any moment; `Recover` and `PickUp` the next host.
A run without budget ends its batch at `Start` by choice; the budget is Cascade's.
An inbox is a set here: its order is Mailbox's business, and so is a restoration.

Between `Take` and `Begin` an actor reads the card (`pc` is `gate`). Finding it paused, it
registers (`Arm`), looks at the drain and then at the stop of what it holds (`LookStopped`),
ends what is called off behind it (`Sweep`), and sleeps (`Park`) until it is woken (`Wake`):
all that time its message is booked. Finding it terminated, it lets go of that message
(`Abandon`), empties the channel (`Orphan`, `Leave`) and drops its receiver (`Exit`). A
deletion is two steps, as in `discard_agent`: `Discard` marks the card and `StopAgent` takes the
inbox out of the map and wakes whoever sleeps on it. In between a sender still finds the inbox.

Two things follow, and the liveness properties name them as their exceptions:

- a message sent after the actor of a deleted agent has emptied its channel and before the
  inbox has left the map reaches nobody, and stays booked until the process ends (place `lost`;
  mod.rs 7773 to 7777 against 1142 to 1143). Its run never settles, and a drain waits out its
  deadline for it. `AcceptedEnds` and `DrainCompletes` except that message, and no other;
- an actor that read the card before a resume or a deletion and registers after it has been
  notified is woken by neither (`Overslept`). A stop or a drain still wakes it, unless its
  inbox is gone, since `notify_waiters` is called on the inboxes in the map: the other exception.

What the model shows and no property forbids: a message absorbed into a turn that is
put down has settled its own run (mod.rs 3737) and is put down with the other; a
put-down row that cannot be written is forgotten by this process and its message left
to `pending_runs` (drain.rs 180); and `pick_up` books a conversation one message at a
time (drain.rs 340) while actors run, so it may settle with part of it still to come.
The last is the exception that `NothingSilent` spells out.

### Line and Mailbox

`Line` is what an inbox promises: messages join at the end and are read from the front,
only what is called off may leave from the middle, and a line may be cleared as a whole.
`Mailbox` is the actor of one agent, with a channel `rx` and a holding queue `carry`, and
the notifier with which it parks while the agent is paused. Its program counter follows
`actor_loop` read by read: the card, then the registration (`armed`), then the drain, the
stop of what it holds, any stop at all, then sleep. `calls` are the notifications that a
command has still to make, since a command changes the state first and notifies second.
Deleting and restoring the agent starts another actor with an inbox of its own while the
first may still be in a turn; `MaxActors` bounds how often. `ReadsInOrder` is `Line`'s
specification under the mapping that appends the channel to the holding queue.

What it shows, stated as the exceptions of its properties:

- a message of a stopped conversation that reaches a paused agent after the stop
  notified is not looked at until a resume or another notification: a parked actor looks
  at its channel when it is notified, not when a message arrives (mod.rs 7747), and
  `StopEnds` speaks of what was in line;
- what a sweep has set aside is not swept again: a stop that comes while the actor is
  parked on it waits for a resume (mod.rs 7726; the second disjunct of `StopEnds`);
- a resume that lands between the read of the card (mod.rs 7657) and the registration is
  not heard, and the actor sleeps until the next one: `ResumeWakes` speaks of an actor that
  is parked. The same read, made before a deletion and acted on after a restoration,
  leaves the old actor parked with what it holds;
- a send that succeeds between the last `try_recv` and the drop of the receiver
  (mod.rs 7777) is lost, still booked (`lost`; the exception of `BookedIsHeld`);
- a drain that begins between the two looks at mod.rs 7700 ends what a paused actor
  holds as called off (the `draining` exception of `NeverEndedUnread`).

### Cascade

One conversation among the agents of a group, from the operator's message to silence.
`steps`, `pairs`, `prints` and `expecting` are `RunState` of `guard.rs`. A turn is a program
counter through `run_turn`, `send_to_peers` and `emit_reply`, one step per critical
section, so that what is read under one lock and acted on under another can be
overtaken: the gather's look at the inbox and its look at the badges (`Gathered`, then
`Listen`, `GiveUp` or `Expire`), the delivery and the badge (`Post`, `Badge`), the delivery
and the debt (`Note`), the depth and the badge at the end (`Finish`, `Idle`). What a model
says is a choice of the step, from `Thinks`, the messages the agents of an instance may think
of, and `LastWords`, what a turn may end with. `errands` run inside one call of their turn, each with its
own claims, which leave `Headroom` to the others.

Left out: more than one run at a time, and with it the registry's reap, which drops the
limits of a run after an hour, live or not (guard.rs 482); `take_in` inside a turn
(Mailbox has it); files, reports and commentary, which are part of `Silent`; the twelve
rounds of an errand, which end by choice; the `AwaitingApproval` badge.

What it shows and no property forbids: the gather's two looks (see below); a courtesy that is turned away as settled has already
been recorded by the guard, so it uses up the pair and its words are refused when they
are sent again as work, as the refusal advises (mod.rs 5655, guard.rs 185); a badge may be left `queued` by a delivery that the
recipient's whole turn overtook (mod.rs 1580), or `idle` by a turn that read its depth
before a delivery (mod.rs 3778); a debt may be written after it was paid (mod.rs 5694); two
agents may each gather for the other, neither looking at what the other has asked, until the
window closes (`cascade_live` has this: p is owed an answer by r and r, which asked p back as
work, one by p); the steps an errand
leaves (guard.rs 316) may be claimed by another agent's turn; and a claim may follow a stop
it did not see (guard.rs 337). None of these keeps a cascade from ending or a bill from
being exact, which is what the properties say.

### Approvals

A request is a row, which only ever moves out of `pending`, and a waker in memory.
`SetOut` is the tool call that will ask, which begins only where no stop was seen; `Ask`, `Arm`,
`Look`, `Wakes`, `Window`, `Late`, `Back` are `ask_permission`, `ask_question` and
`park` in order: the row is written whether the run has been called off meanwhile or not
(mod.rs 2699), the waker comes next, and only then the look for a stop (mod.rs 2721), which is
what catches a row that was written after the sweep had read the table.
`Decide`, `AnswerQuestion` and `Close` move the row, and `Wake` sends the
waker as a step of its own; whoever has the id of a pending row may answer it, announced
or not, as `decide_approval` allows. `StopRun` and `Drain` mark first and `Sweep` reads the rows
later, as `release_parked` does. `Restart` is a new process. The store may fail to close a
row of `Fails`, which leaves it pending and its waker alone; `failed` remembers it, and
the properties except that request. Rows of deleted agents, and what an
approved action then does, are left out.

Two exceptions are in the formulas. A waker that is looked for between the row and its
registration is not there to be sent (`missed`): the turn then parks on a row that is already
decided, until its window closes, stopped or not, and reads the verdict then (`NoLostWake`,
`StopReleases`).
And a turn that finds the stop after the row may have been answered between the two: it is
called off and makes nothing of the answer (`calledoff` in `VerdictIsTheRow`).

### Schedule

A row is a trigger, a slot, the skip flag and the switch; a moment is a day, and the
calendar is a constant, as chrono is to the code. `NextAfter`, `FirstRun`, `NextSlotFor`
and `Ran` are the functions of `domain/routine.rs`. `Sweep` (the clock) and `Post` (an event)
read the rows that qualify and leave copies of them in `due`; then, for each, `Ask` reads
whether the agent is working (any answer: its badge belongs to Cascade), `Move` writes the
slot that the copy gives, and `Fire` delivers or skips. An edit is `Open` and `Save`, because
`update_routine` reads the row in one statement and writes it in another. `Drain`, `Ends`
and `Start` are the host, and `anchor`, `writes`, `fired` and `overtaken` are histories.

Left out: the test button and the table of past firings, which move no slot; more than
one event at a time; a delivery that the store refuses, which loses the firing as a crash
between `Move` and `Fire` does.

What it shows and no property forbids: `routine_ran` writes what the copy says, so a row
that was edited after the sweep read it may get the slot of its old trigger or be deleted
as the one-off that it was (store.rs 948). Such a row is `overtaken`, until it is written
again, and `LabelHolds` excepts it. And an edit that read the row before a firing writes
the fired slot back, which fires again (commands.rs 2618): `FiresOnce` counts the slot an
edit writes as a new one.

### Decisions

One decision under one topic, since a topic is the key of a row. `row` is the record, `seen`
what each window of the operator shows (the stamp it will answer with), `run` where each
conversation that carried the answer is, `carries` what its first message says. A tick is
both the millisecond of a stamp and the hour of a deadline, so two writes in one tick have
one stamp unless the code makes them differ: `Revise` does (`request_decision` takes the
greater of the time and one past the last), and that is what keeps an answer from fitting a
question it was not given to. The stamp of `answer_decision` is optional (db/decisions.rs 131);
every window sends it (commands.rs 3018) and only a resume, which answers nothing, does not
(commands.rs 3021), so `Answer` compares it always. `Request` is `request_decision` with its two arms, `Complete`
and `Withdraw` the two of `finish_decision`; `Answer`, `Resume` and `Snooze` are the
operator's; `Deliver` and `Stray` are `queue` of the answer and of anything else its
conversation sends; `Stop`, `Recover` and `RecoverDecisions` the host's; `Sweep` is
`decision_reminders` with `next_reminder`. Deleting the agent is two steps, the card and the
inbox. `meant`, `here` and `strayed` are histories.

Left out: what a question says, its options, the list of at most a hundred rows, the
notification a reminder becomes, and how a conversation works (RunLedger has it).

What it shows and no property forbids: a message of the answer's conversation that finds
no inbox interrupts the decision (mod.rs 1595), whichever message it is, so a turn that is
still working on the answer can no longer complete it, and the operator may resume it into a
second conversation beside the first: the exception of `CarriedOnce`. A conversation that
ends, or is stopped by the operator, without `finish_decision` leaves the decision answered,
neither interrupted nor resumable, until the next host's recovery marks it. A topic stays
used after its decision was withdrawn.

### Subscription

The sign-in of one subscription and the turns that spend it. `tokens` and `file` are the two
places a token set is kept, `renewing` the gate of `renew`, `pc` a turn from `access` through
a call, the gate, the question to the service and the storing of its answer. The service is
external: it rotates a refresh token or lets it stand, retires what was traded in, may retire
one for its own reasons, may turn down one that is good (any 400, 401 or 403 is terminal to
`is_terminal`), and its answers may be lost on the way. `SignIn` and `SignOut` are the
operator's and hold no gate. `Restart` reads the file, which a sign-out
that could not remove it has left there. `lost` remembers the refresh tokens that
were retired without their replacement reaching this machine, or turned down while good.

Left out: the browser's half of a sign-in (`oauth.rs`, `pickup.rs`), the account table and the
secrets file, and a second turn's waiting at the gate in the order it came.

What it shows and no property forbids: "The operator's click wins" (subscription.rs 486) holds
of what the turn goes on with, and not of what is stored. A refresh that was out when the
operator signed out stores its answer over the sign-out, and one that was out when they signed
in stores it over the new sign-in; a terminal refusal of the old token forgets the new one.

### HostUpdate

One operation at a time on one host. `journal` is the operation on disk and `op` the manager's
copy; `pc` walks through `settle`, `admit`, `replace`, `verify` and `restore`, one step per Docker
call or record. Any of them may fail, the ones that admit an update too (`Admit`), and a Docker
call that fails may have done what was asked (`MayRun`, `Stop`, `Remove`); a record is written or not when its write is reported failed
(`Unrecorded`). `Crash` ends the manager between any two steps, and the next begins with
`Start`, as `keep_started` does. A workspace is what was written in it, the newest image that
migrated it, and whether it is whole: a copy that is under way is not. `Broken` images start,
migrate and do not verify. `base` and `waived` are histories: what the stopped host had, and what
only the copies that `prune` takes away held.

Left out: a second manager (`process_lock` excludes it), a `docker` command that outlives the
manager that began it, a reboot of the machine, the updater that replaces itself, the pruning
of images, and ports.

What it shows and no property forbids: a `docker stop` that is reported failed and did stop the
host is `Canceled` with nobody starting it until a manager next does; an update whose `Updated`
cannot be recorded ends `Canceled` over the new host; a restore whose `Restored` cannot be
recorded is rolled back once more by the next start; a restore that is begun again copies the
half-emptied workspace aside and names that copy in `preserved`, though the first copy is still
there, which is why `NothingLost` holds; and `settle` records `Canceled` before the old host is
started again.

## What is checked

| Run | Instance | What it shows |
|---|---|---|
| `ledger_twice` | operator -> a -> b and a second line of the operator's, b deleted in two steps, two restarts, a failing store; 1.66 million states | `TypeOK`, `BookingsExact`, `WholeMeansIdle`, `NeverReplayed`, `SettlesWhenOver` |
| `ledger_live` | the same messages, the second line an answered decision; a, which two messages are for, paused, resumed and deleted in two steps; one restart, a store that works; 395,000 states; fair | `NothingSilent`, `PickedUpIntact`, `AcceptedEnds`, `DrainCompletes` |
| `mailbox_lines` | three messages of two conversations, two actors of one agent, every command; 1.2 million states up to the exchange of two alike messages | `TypeOK`, `DepthExact`, `BookedIsHeld`, `ReadsInOrder`, `NeverEndedUnread` |
| `mailbox_live` | a batchable message, a peer's question, the operator's own line; fair | `StopEnds`, `ResumeWakes`, `DrainEmpties` |
| `cascade_bill` | two agents that may both write, two texts, work or not, five steps, an errand, a failing store, a stop; 2 million states | `TypeOK` (the budget), `BillExact`, `RepliesAnswerAsks` |
| `cascade_live` | three agents: p asks q and r twice, r asks p as work, and p and r may gather for each other; 401,000 states; fair | `CascadeEnds` |
| `approvals` | an agent that asks twice for one action, a peer with a question that the store may fail to close, one run; stop, drain, restart; 897,000 states; fair | `TypeOK`, `VerdictIsTheRow`, `NoDeadButtons`, `NoLostWake`, `StopReleases` |
| `schedule` | one routine of five kinds of trigger, three days, a week of two, written twice, edited, switched and deleted; two troubles among drains, crashes and a failing store; fair | `FiresOnce`, `LabelHolds`, `DueFires` |
| `schedule_month` | one monthly routine, months of four, three and four days | finding |
| `decisions` | two questions, two windows, two runs, two hosts that stop, a clock of three ticks to the next briefing; 3.3 million states up to the exchange of questions and of windows | `AnswerFits`, `CarriedOnce`, `BootAccounts`, `RemindersHold` |
| `subscription` | two turns, three token sets, refusals for any reason, an operator who signs in and out, a file that stays, restarts; 7.3 million states | `SpentOnce`, `RefreshedForCause` |
| `host` | three releases of which the second is broken, two updates, two things written, any three failures or crashes; 731,000 states; fair | `RunsWhole`, `RecoveryPoint`, `NothingLost`, `LastWord`, `ComesUp` |

Why these bounds are enough. Two agents and two conversations are the smallest
instance in which a turn sends, absorbs another conversation's message, and is put down
while the other agent works; a second restart is what lets a conversation be picked up,
put down and picked up again. `ledger_twice` pauses nobody, since a pause adds no way to release
or to put down that a drain does not have, and `ledger_live` has every step of a paused and of a
deleted agent; the theorems are about both. An order needs two messages of one conversation, and a
passing-over a third of another; a second actor is what a restoration adds, and a third
would only repeat it. A gather needs a coordinator that is owed two answers, and two gathers that wait for each other
need one whose peer asks it back. `cascade_live` has no stop, errand or failing delivery, which
only shorten a cascade; `cascade_bill` has all three. A budget of
three or five steps runs out in the middle of a round, between two claims and with an
errand's headroom left. A standing yes needs a second request of the same agent for the
same action. A slot is late, and a repeat catches up, within three days; two writes make
an edit; and two troubles are a drain with a crash or a failure after it. A second window
is what a stale screen needs, a second run what a resumption adds. Three token sets are a
sign-in, its refresh, and either the refresh of that or a sign-in meanwhile. A second update
is the first to find copies of an earlier one to prune; three failures are one in a
replacement, one in its restore and a crash in what settles both; `MaxNames` is as many
volumes as the updates and restores of that instance can name, so it stops nothing.
`MaxCrashes`, `MaxActors`, `MaxHops`, `MaxSteps`, `MaxPair`, `MaxRounds`, `MaxBatch`,
`MostAtOnce`, `Horizon`, `MaxWrites`, `MaxTroubles`, `MaxNow`, `MaxStamp`, `MaxRuns`, `MaxStops`,
`MaxGrants`, `MaxImage`, `MaxUpdates`, `MaxNames` and `MaxFaults` are the only bounds; `MaxHops`
to `MostAtOnce` are the code's own limits with small values, the others are the models'.
`TypeOK` of Decisions, Schedule, Subscription and HostUpdate is in no configuration: it is part
of what is proved of them. Messages and requests
are finite sets and each is used once. Deadlock is not checked: all of these
systems stop when nobody sends any more.

Fairness. Each actor is a task of a multi-threaded executor and each step ends in
finite time (a model call has a timeout, a tool call one of its own), so every actor
step, delivery and notification that stays possible is taken: weak fairness. A host
that stopped is started again (`Recover`), by the service manager the docs install.
Nothing is assumed of the operator: nobody has to send, stop, resume, drain, or answer.
The window of a request carries no fairness either, so what `StopReleases` shows does
not wait for it. A sweep of the schedule is a loop of a task, `DueFires` assumes that a
drain ends the process (it has a deadline), and nothing makes the clock tick. A deletion that has
marked the card goes on to take the inbox away: both are one call (`StopAgent`). Cascade assumes strong fairness of two steps that are possible again
and again and not continuously: the expiry of a gather, whose deadline is an instant
that passes however often the loop looks again, and the end of the tool calls of a
completion, which are a list the model has finished writing. HostUpdate assumes weak
fairness of the manager as a whole: it goes on with what it began, and `keep_started` asks
again every minute for a host that has not started. `ComesUp` needs the failures to end,
which `MaxFaults` gives, and nothing of the operator.

## Where the documents and the code part

- `KeepsItsDay`: "a monthly routine set on the 31st is the 28th in February and the 31st
  again in March" (routine.rs 249). The anchor it counts from is the stored slot, which
  each firing overwrites with the clamped day. This one is a run, `schedule_month`.

These follow from the modelled steps and have no run of their own:

- "A conversation the operator stopped is never picked up" (docs/HOSTING.md 540). An
  actor's look at what is called off and its `put_down` are two critical sections; a stop
  between them answers true and the rows are written.
- "Anything else the next host finds [...] becomes a durable interruption notice"
  (docs/HOSTING.md 531). What a turn absorbed has left the journal when the process ends:
  the next host does not find it, and nobody reports it.
- "The race this cannot lose" (mod.rs 2261). The gather looks at the inbox first and at who
  is working second, and an answer may arrive between them.
- "Enabling the future first closes that window — and closes the same one `pause_agent` and
  `resume_agent` have always had" (mod.rs 7674). It closes it from the registration on; the
  card is read before, and a resume in between is heard by nobody (`Overslept`).
- "The operator's click wins" (subscription.rs 486): see Subscription.

## What is proved

For every value of the constants that the named assumptions allow: any finite set of
messages, any agents, conversations, limits, and any number of restarts. Every invariant
and every safety action property that a passing run checks is a theorem here, with the same
definition; `PROJECT.json` pairs them. Each strengthened invariant was checked by TLC on
the run's instance before it was proved.

- `RunLedgerProofs`: `LedgerInvariant`, `LedgerTypes`, `BooksAreExact`, `SettlesOnlyWhenOver`. The count of a
  run is a saturating subtraction, so exactness needs more than itself: `LedgerInv` adds
  `Hands`, which says that what an actor has in its batch is held, what it absorbed is no
  longer booked, what it found called off is disjoint from both, and that a process that is
  down holds nothing. The lemma `ReleaseKeepsBooks` is the heart: releasing exactly the live
  messages that leave keeps a run's count. `SettlesOnlyWhenOver` follows in each step from
  the exact count, since a run is over when that is zero.
  `WholeIsIdle` and `ReportedStaysOver` are about the journal, and neither is inductive without
  the other. `MarksInv` is both with three more: `OpensFirst`, while what opens a conversation has
  not come nothing of it has; `OnlyBegun`, only a conversation that has begun is put down or
  reported; `PhasesApart`, a host picks up before it drains and puts down only while it drains,
  so that the two never overlap. `HaltsForCause`, an actor that puts something down does so
  because its host drains, comes from `LedgerInv` alone. With them a message sent now, inside a turn or from outside,
  belongs to no conversation that is marked whole or reported (the lemma `SentWhere`). This is
  where it is needed that every message from outside opens a conversation of its own.
  `NothingLostSilently` and `ReadBackIntact` are about the end of a process. `IntactInv` adds
  `Journalled`, what is kept has its row and what is booked its pending row or an account;
  `CutIsOver`, a message the process ended under ends its conversation, of which nothing is in
  hand and nothing will be read back; and `CutIsJournalled`, the same across the gap between two
  hosts. Both theorems have the hypothesis `~StoreFails`, which is the instance of `ledger_live`: with
  a store that fails to write a put-down row this host forgets the message, and the next reports
  it only if its pending row is still there, which it is not for what a turn had absorbed.
  Neither says that nothing is lost: `NothingSilent` leaves out what a turn absorbed and excepts a
  half picked up conversation that settled, and `PickedUpIntact` only says that nothing of a
  conversation that is read back was cut short by the end of a process; part of it may have been
  called off, absorbed or answered.
- `MailboxProofs`: `MailboxIsALine` (Mailbox implements Line), `DepthIsExact`, `MailboxTypes`,
  `BookingsAreHeld`, `UnreadIsNotEnded`, `StopsAreHeard`.
  `LineInv` adds to types and depth that an actor not yet started is nowhere, and that one
  whose task is ending holds nothing. Lemmas on sequences say what taking from two queues
  in a row, putting a head back and dropping from the middle do to their concatenation;
  one lemma per kind of step applies them.
  `HeldInv` adds to the books of `BookedIsHeld` that what is in a hand has been queued and nothing
  has become of it (`HandsAreQueued`), and where an actor has a batch and of what length
  (`BatchAt`); its lemmas are about sequences in which nothing is twice. `UnreadInv` adds
  `GoneIsDeleted`, an inbox is missing or its actor going only after a deletion; `CalledOffIsStopped`, an
  actor about to call off what it holds still has the cause for it, since a run stays stopped as
  long as a message of it is booked; and `OneRun`, a batch is of one conversation. `StopsAreHeard`
  is the safety half of `StopEnds` and `DrainEmpties`, and says why the code registers first: past
  its looks at the books, a stop of what the actor holds, or a drain, has notified it or will.
- `CascadeProofs`: `BudgetIsACeiling`, `BillIsExact`, `CascadeTypes`, `AnswersMatchAsks`. `BillInv`
  adds that a turn has a call in the air exactly while it waits for one and an errand only when
  it claims none, so that a claim always adds a call and an end always removes one. `TurnInv`
  adds what a turn is at each step: it has a batch, claims only below its rounds, sends in its
  own name, and answers only whoever asked. `AsksCovered` is the count behind `AnswersMatchAsks`: of
  the asks of one agent to another, those answered, those waiting in the inbox and the one in
  front of the turn that read it are together no more than were sent. It holds because an ask
  leaves the inbox alone, never with others in a batch, and its turn answers it once.
- `ApprovalsProofs`: `ParkInvariant`, `VerdictsAreRows`, `WakesAreNotLost`,
  `ButtonsAreAlive`, `ApprovalTypes`. None of the three properties is inductive alone, so `ParkInv` adds
  four parts: `Held`, a turn is on a request it has no verdict for, whose row is there from when it
  asks; `Wakeable`, a waker is held or already sent from the moment the turn looks for a stop
  (which is why the code arms first); `Heard`, whoever settled the row of a turn that is not back
  yet wakes it, or did, or came before there was a waker; `Sent`, a waker is sent only after its
  row has moved, and a sweep only reads the rows of stopped runs. The lemma `MovedKeepsVerdicts` is why a decided row is safe to trust: a row
  that is still pending has a turn on it and no verdict. One lemma per step, one step of it
  per conjunct.
- `DecisionsProofs`: `DecisionInvariant`, `AnswersFit`, `CarriedByOne`, `BootsAccount`,
  `RemindersAreKept`. `DecisionInv` adds `Stamped`, a screen is never newer than the row and of
  one stamp shows the same question, which is what makes the stamp a check of the question;
  `Meant`, what is carried is the answer that was given; `Latest`, conversations are used in
  their order and the row names the last; `Phases`, what a host that is up, down or recovering
  can hold; and `Carriers`, a conversation that goes on is the row's or has strayed, and is never
  beside an answer that may be resumed unless it has. The clock's part rests on lemmas about the
  least hour of a set and the later of two.
- `SubscriptionProofs`: `SignInInvariant`, `TokensAreSpentOnce`, `RenewalsHaveACause`. `SignInInv`
  adds `OneAtATime`, who is past the gate holds it; `InHand`, what a turn past the gate offers or
  was given is known to the service or was lost on its way, and that it came there over a token
  that was turned down; `Copies`, of memory and file only the set a turn has traded in and not
  yet replaced may be spent, and the file is replaced first; `Apart`, a sign-in that is written
  and not yet held is nobody else's; and `Numbered`, nothing is newer than what was issued.
- `HostUpdateProofs`: `HostInvariant`, `HostsRunWhole`, `ThereIsAWayBack`, `NothingIsLost`,
  `TheLastWordIsTrue`. `HostInv` is the account of an update from anywhere in it: `Unnamed`, volumes
  not yet named hold nothing; `HostFits`, the image of a container there is can read the workspace;
  `Intact` and `FirstFits`, before the swap the workspace is what the stopped host left and the
  first image of the operation fits it; `Over`, what the journal calls updated or restored
  has that image; `Replacing` and `Restoring`, which of the copies is whole at each step. There is
  one lemma for each step of the manager and one for each way it fails, since a failed step may
  have done its work.
- `ScheduleProofs`: `ScheduleInvariant`, `SlotsFireOnce`, `LabelsHold`. The copies are what is hard: `Carried` says
  that a copy in the clock's hands was due when it was read, that nothing newer was fired of
  its routine since, and nothing of the same writing on its slot or after; `Single` that there is one of a
  routine, `Ahead` and `Moved` that a slot lies past the last firing of its own writing. That a
  repeat always moves ahead of now is the lemma `NextAfterIsAhead`, from `CalendarGoesOn`: the model's
  calendar, unlike the code's, must be told that it does not end. `LabelInv` says that a row nobody
  edited under a sweeper is labelled rightly (`RowsLabelled`), and so is every copy that will
  still move it, with the same trigger (`CopiesLabelled`): the row is moved by what the copy says. That
  whole weeks add up to whole weeks is the lemma `WeeksAddUp`, for a week of any length.

The assumptions are the ones TLC evaluates in every run: limits are numbers, `None` is nothing
else, the calendar reaches far enough, and a message from outside opens a conversation of its
own, which is `RunId::new` in `send_from_routine`, `send_from_human_with` and `retry_turn` (mod.rs 1971, 2197, 2235). No
proof assumes anything of the code's environment that the modules do not, but for the
`~StoreFails` of the two theorems above.

Only model-checked: the liveness properties, which are beyond the prover (`AcceptedEnds`,
`DrainCompletes`, `StopEnds`, `ResumeWakes`, `DrainEmpties`, `CascadeEnds`, `StopReleases`, `DueFires`, `ComesUp`).

## What is not modelled, and the plan

Not modelled at all, because there is no state machine in it or it belongs to somebody
else's service: prompts and parsing (`runtime/prompt.rs`, `llm/tools.rs`), the requests of
providers, plugins and MCP, machines and browsers, files and skills, search, evals, the shell and the
client. They are most of the source: the text a model is shown, the schema of a tool, SQL,
HTTP, and drawing. A call of any of them from the modelled code is a step that succeeds, fails or is cut short.

Within the modelled parts, left out for size: of the store, everything but the rows the modules
keep; of the sign-in, `oauth.rs`, `account.rs`, `secrets.rs` and `pickup.rs`; of the host, a second
manager, a `docker` command that outlives its manager, a reboot, the updater that replaces
itself, the pruning of images, and ports; of the guard, a registry of several runs.

What would come next, in the order of its worth:

1. The guard registry over several runs: what a reap re-arms (guard.rs 482).
2. The safety half of the other liveness properties proved, as `StopsAreHeard` is of `StopEnds`:
   what is booked while a host drains has an actor that will put it down; a cascade that is not
   over has a turn that can go on, or a message in an inbox.
3. RunLedger with Mailbox's order instead of a set, so that what is put down keeps its order
   across a restart.
