----------------------------- MODULE HostUpdate -----------------------------
(***************************************************************************)
(* Replacing a host: update, admit, replace, verify, settle, restore,      *)
(* prune and start (host.rs), and keep_started (updater.rs), over a Docker *)
(* daemon that can fail any call and a manager that can die between any    *)
(* two.                                                                    *)
(*                                                                         *)
(* The journal is one operation, replaced whole; op is the manager's copy  *)
(* of it.  A workspace is what it holds, the newest image that has         *)
(* migrated it, and whether it is whole: a copy under way is not.  Images  *)
(* are numbered in the order they were released.                           *)
(***************************************************************************)
EXTENDS Naturals, FiniteSets

CONSTANTS
    MaxImage,    \* the images there are
    Broken,      \* those that start, migrate the workspace and do not verify
    MaxUpdates,  \* bound: updates asked for
    MaxNames,    \* bound: volumes named
    MaxWrites,   \* bound: what is written in the workspace
    MaxFaults,   \* bound: calls, records and managers that fail
    None

ASSUME HostUpdateAssumption ==
    /\ MaxImage \in Nat \ {0} /\ Broken \subseteq 2..MaxImage
    /\ {MaxUpdates, MaxNames, MaxWrites, MaxFaults} \subseteq Nat

Image == 1..MaxImage
Name == 1..MaxNames
First == 1   \* the image a host is first made from
Workspace == [whole : BOOLEAN, by : 0..MaxImage, work : SUBSET (1..MaxWrites)]
Torn == [whole |-> FALSE, by |-> 0, work |-> {}]

Stage == {"downloading", "stopping", "backingUp", "starting", "verifying", "updated",
          "canceled", "restoring", "restored", "recoveryNeeded"}
Finished == {"updated", "canceled", "restored"}
Swapped == {"starting", "verifying"}
Operation == [stage : Stage, backup : Name \cup {None}, previous : Image \cup {None},
              target : Image, preserved : Name \cup {None}]
Container == [image : Image, running : BOOLEAN]
ASSUME NoneIsNothing == None \notin Nat \cup Workspace \cup Operation \cup Container

VARIABLES
    journal, op,      \* the operation on disk, and as the manager has it
    pc, job,          \* where the manager is, and the image it was asked for, if any
    settling,         \* is it still settling what an earlier one left?
    starting,         \* keep_started: the host has yet to start since the manager did
    host,             \* the container: its image, and is it running?
    live, volumes,    \* the workspace, and the volumes beside it
    names, updates, written, faults,  \* how many so far
    base,             \* history: what was written when the host was last stopped
    waived            \* history: what only copies that were pruned held

manager == <<op, pc, job, settling, starting>>
docker == <<host, live, volumes>>
vars == <<journal, manager, docker, names, updates, written, faults, base, waived>>

Labels == {"idle", "settle", "resume", "begin", "download", "stop", "name", "copy", "copying",
           "commit", "prune", "remove", "create", "created", "verify", "conclude", "back",
           "cancel", "restore", "clear", "aside", "asiding", "keep", "wipe", "fill",
           "revive", "restored", "giveUp"}

(* Every variable keeps its type. *)
TypeOK ==
    /\ journal \in Operation \cup {None} /\ op \in Operation \cup {None}
    /\ pc \in Labels /\ job \in {None} \cup Image
    /\ settling \in BOOLEAN /\ starting \in BOOLEAN
    /\ host \in Container \cup {None}
    /\ live \in Workspace /\ volumes \in [Name -> Workspace \cup {None}]
    /\ names \in 0..MaxNames /\ updates \in 0..MaxUpdates
    /\ written \in 0..MaxWrites /\ faults \in 0..MaxFaults
    /\ base \subseteq 1..MaxWrites /\ waived \subseteq 1..MaxWrites

Init ==
    /\ journal = None /\ op = None
    /\ pc = "idle" /\ job = None /\ settling = FALSE /\ starting = TRUE
    /\ host = None /\ live = [whole |-> TRUE, by |-> 0, work |-> {}]
    /\ volumes = [n \in Name |-> None]
    /\ names = 0 /\ updates = 0 /\ written = 0 /\ faults = 0
    /\ base = {} /\ waived = {}

Goto(l) == pc' = l
Rest == pc' = "idle" /\ op' = None
Fault == faults < MaxFaults /\ faults' = faults + 1
Works == UNCHANGED faults

\* write_journal: whole or not at all, and the rename stands even if syncing
\* the directory after it fails.
Record(o) == journal' = o /\ Works
Unrecorded(o) == journal' \in {journal, o} /\ Fault
At(stage) == [op EXCEPT !.stage = stage]

\* A container of image i comes up over the workspace and migrates it.
Runs(i) ==
    /\ host' = [image |-> i, running |-> TRUE]
    /\ live' = [live EXCEPT !.by = IF i > @ THEN i ELSE @]
\* A call that fails may still have brought it up.
MayRun(i) == Fault /\ (Runs(i) \/ UNCHANGED <<host, live>>)
Runnable(i) == i \notin Broken

\* update, on an error: what was swapped is restored, and the rest canceled.
Errs == Goto(IF op.stage \in Swapped THEN "restore" ELSE "cancel") /\ Fault
Asks == UNCHANGED <<job, starting>>
Counts == <<names, updates, written, base, waived>>

-----------------------------------------------------------------------------
(* What is asked of the manager, and settling what an earlier one left.    *)

Start ==
    /\ pc = "idle" /\ starting
    /\ job' = None /\ Goto("settle") /\ settling' = TRUE
    /\ UNCHANGED <<journal, op, starting, docker, Counts, faults>>

Update(target) ==
    /\ pc = "idle" /\ updates < MaxUpdates /\ updates' = updates + 1
    /\ job' = target /\ Goto("settle") /\ settling' = TRUE
    /\ UNCHANGED <<journal, op, starting, docker, names, written, base, waived, faults>>

\* finished: the target, running and answering as it.
Verified(o) == host # None /\ host.image = o.target /\ host.running /\ Runnable(o.target)

Left == IF journal = None THEN "nothing" ELSE journal.stage
SettleNothing ==
    /\ Left \in Finished \cup {"nothing"}
    /\ Goto("begin") /\ Works /\ UNCHANGED <<journal, op>>
SettleStuck ==
    /\ Left = "recoveryNeeded"
    /\ Rest /\ Works /\ UNCHANGED journal
SettleUnswapped ==
    /\ Left \in {"downloading", "stopping", "backingUp"}
    /\ LET canceled == [journal EXCEPT !.stage = "canceled"] IN
       \/ Record(canceled) /\ Goto("resume") /\ UNCHANGED op
       \/ Unrecorded(canceled) /\ Rest

\* Mutant of SettleSwapped: whatever is there is taken for the update.
SettleSwappedTrusting ==
    /\ Left \in Swapped
    /\ Record([journal EXCEPT !.stage = "updated"]) /\ Goto("begin") /\ UNCHANGED op
\* The host that is there is the update, or is not, or is and does not say so.
SettleSwapped ==
    /\ Left \in Swapped
    /\ LET updated == [journal EXCEPT !.stage = "updated"] IN
       \/ Verified(journal) /\ Record(updated) /\ Goto("begin") /\ UNCHANGED op
       \/ Verified(journal) /\ Unrecorded(updated) /\ Rest
       \/ /\ IF Verified(journal) THEN Fault ELSE Works
          /\ op' = journal /\ Goto("restore") /\ UNCHANGED journal

\* Mutant of SettleRestoring: a restore that was cut short is left to somebody.
SettleRestoringWaits ==
    /\ Left = "restoring"
    /\ Rest /\ Works /\ UNCHANGED journal
SettleRestoring ==
    /\ Left = "restoring"
    /\ op' = journal /\ Goto("restore") /\ Works /\ UNCHANGED journal

Settle ==
    /\ pc = "settle" /\ Asks /\ UNCHANGED <<settling, docker, Counts>>
    /\ SettleNothing \/ SettleStuck \/ SettleUnswapped \/ SettleSwapped \/ SettleRestoring

\* docker start: the container that was never removed runs again.
Resume ==
    /\ pc = "resume" /\ Asks /\ UNCHANGED <<journal, settling, volumes, Counts>>
    /\ \/ /\ Goto("begin") /\ Works /\ UNCHANGED op
          /\ IF host = None THEN UNCHANGED <<host, live>> ELSE Runs(host.image)
       \/ host # None /\ MayRun(host.image) /\ Rest

\* start_unlocked, for start: made if there is none, else started.
Begin ==
    /\ pc = "begin" /\ job = None /\ Rest /\ settling' = FALSE
    /\ LET image == IF host = None THEN First ELSE host.image IN
       \/ Runs(image) /\ Works /\ starting' = ~Runnable(image)
       \/ MayRun(image) /\ UNCHANGED starting
    /\ UNCHANGED <<journal, job, volumes, Counts>>

\* admit: refused before anything is touched, begun, or cut short by a Docker call
\* that fails, before it has read which image is there.
Asked(target) == [stage |-> "downloading", backup |-> None, target |-> target, preserved |-> None,
                  previous |-> IF host = None THEN None ELSE host.image]
Unread(target) == [Asked(target) EXCEPT !.previous = None]
Admit ==
    /\ pc = "begin" /\ job # None /\ settling' = FALSE
    /\ \/ op' = Unread(job) /\ Goto("cancel") /\ Fault /\ UNCHANGED journal
       \/ IF host = None \/ host.image >= job
            THEN op' = Asked(job) /\ Goto("cancel") /\ Works /\ UNCHANGED journal
            ELSE \/ Record(Asked(job)) /\ op' = Asked(job) /\ Goto("download")
                 \/ Unrecorded(Asked(job)) /\ Rest
    /\ Asks /\ UNCHANGED <<docker, Counts>>

-----------------------------------------------------------------------------
(* replace.                                                                *)

Replaces == Asks /\ UNCHANGED settling

\* image_ready and the label, and then the record of what comes next.
Download ==
    /\ pc = "download" /\ Replaces /\ UNCHANGED <<docker, Counts>>
    /\ \/ Record(At("stopping")) /\ op' = journal' /\ Goto("stop")
       \/ Errs /\ journal' \in {journal, At("stopping")} /\ UNCHANGED op

\* docker stop, which can fail and have stopped it.
Stop ==
    /\ pc = "stop" /\ Replaces
    /\ \/ host' = [host EXCEPT !.running = FALSE] /\ base' = live.work /\ Goto("name") /\ Works
       \/ host' \in {host, [host EXCEPT !.running = FALSE]} /\ Errs /\ UNCHANGED base
    /\ UNCHANGED <<journal, op, live, volumes, names, updates, written, waived>>

\* The backup is named before it is made.
NameBackup ==
    /\ pc = "name" /\ names < MaxNames /\ names' = names + 1
    /\ op' = [At("backingUp") EXCEPT !.backup = names']
    /\ \/ Record(op') /\ Goto("copy")
       \/ Unrecorded(op') /\ Goto("back")
    /\ Replaces /\ UNCHANGED <<docker, updates, written, base, waived>>

Copy ==
    /\ pc = "copy" /\ Replaces /\ UNCHANGED <<journal, op, host, live, Counts>>
    /\ \/ volumes' = [volumes EXCEPT ![op.backup] = Torn] /\ Goto("copying") /\ Works
       \/ Fault /\ Goto("back") /\ UNCHANGED volumes

Copied ==
    /\ pc = "copying" /\ Replaces /\ UNCHANGED <<journal, op, host, live, Counts>>
    /\ \/ volumes' = [volumes EXCEPT ![op.backup] = live] /\ Goto("commit") /\ Works
       \/ Fault /\ Goto("back") /\ UNCHANGED volumes

\* No backup: the old host is started again.
Back ==
    /\ pc = "back" /\ Goto("cancel") /\ Replaces /\ UNCHANGED <<journal, op, volumes, Counts>>
    /\ (Runs(host.image) /\ Works) \/ MayRun(host.image)

\* The recovery point.  Its stage is the manager's even if it is not recorded.
Commit ==
    /\ pc = "commit" /\ op' = At("starting") /\ Replaces /\ UNCHANGED <<docker, Counts>>
    /\ \/ Record(op') /\ Goto("prune")
       \/ Unrecorded(op') /\ Goto("restore")

\* What is written in the workspaces of S.
Held(S) == UNION {v.work : v \in {w \in S : w # None /\ w.whole}}
Kept(vs) == Held({vs[n] : n \in Name} \cup {live})

\* Mutant of Prune: every backup goes.
PruneAll ==
    /\ pc = "prune" /\ Goto("remove") /\ Works
    /\ volumes' = [n \in Name |-> None] /\ waived' = waived
    /\ Replaces /\ UNCHANGED <<journal, op, host, live, names, updates, written, base>>

\* Any one of the others may stay.
Prune ==
    /\ pc = "prune" /\ Goto("remove") /\ Replaces
    /\ \/ volumes' = [n \in Name |-> IF n = op.backup THEN volumes[n] ELSE None] /\ Works
       \/ \E gone \in SUBSET (Name \ {op.backup}) : Fault /\
            volumes' = [n \in Name |-> IF n \in gone THEN None ELSE volumes[n]]
    /\ waived' = waived \cup (Kept(volumes) \ Kept(volumes'))
    /\ UNCHANGED <<journal, op, host, live, names, updates, written, base>>

Remove ==
    /\ pc = "remove" /\ Replaces /\ UNCHANGED <<journal, op, live, volumes, Counts>>
    /\ \/ host' = None /\ Goto("create") /\ Works
       \/ host' \in {host, None} /\ Errs

\* start_unlocked: the target over the same workspace, and its connection.
Create ==
    /\ pc = "create" /\ Replaces /\ UNCHANGED <<journal, op, volumes, Counts>>
    /\ \/ Runs(op.target) /\ Goto("created") /\ Works
       \/ Runs(op.target) /\ ~Runnable(op.target) /\ Goto("restore") /\ Works
       \/ MayRun(op.target) /\ Goto("restore")

Verifying ==
    /\ pc = "created" /\ op' = At("verifying") /\ Replaces /\ UNCHANGED <<docker, Counts>>
    /\ \/ Record(op') /\ Goto("verify")
       \/ Unrecorded(op') /\ Goto("restore")

Verify ==
    /\ pc = "verify" /\ Replaces /\ UNCHANGED <<journal, op, docker, Counts>>
    /\ \/ Runnable(op.target) /\ Goto("conclude") /\ Works
       \/ Goto("restore") /\ IF Runnable(op.target) THEN Fault ELSE Works

\* An update that cannot be recorded is canceled, with the new host running.
Conclude ==
    /\ pc = "conclude" /\ Replaces /\ UNCHANGED <<docker, Counts>>
    /\ \/ Record(At("updated")) /\ Rest
       \/ Unrecorded(At("updated")) /\ op' = At("updated") /\ Goto("cancel")

\* A cancellation that cannot be recorded is logged.
Cancel ==
    /\ pc = "cancel" /\ Rest /\ Replaces /\ UNCHANGED <<docker, Counts>>
    /\ Record(At("canceled")) \/ Unrecorded(At("canceled"))

-----------------------------------------------------------------------------
(* restore.                                                                *)

Restore ==
    /\ pc = "restore" /\ Replaces /\ UNCHANGED <<docker, Counts>>
    /\ \/ Record(At("restoring")) /\ op' = journal' /\ Goto("clear")
       \/ Unrecorded(At("restoring")) /\ Rest

GivesUp == Fault /\ Goto("giveUp")

\* Mutant of Clear: the previous image is run over what the failed one left.
ClearInPlace ==
    /\ pc = "clear" /\ host' = None /\ Goto("revive") /\ Works
    /\ Replaces /\ UNCHANGED <<journal, op, live, volumes, Counts>>
\* Mutant of Clear: what the failed version left is not copied aside.
ClearStraight ==
    /\ pc = "clear" /\ host' = None /\ Goto("wipe") /\ Works
    /\ Replaces /\ UNCHANGED <<journal, op, live, volumes, Counts>>
Clear ==
    /\ pc = "clear" /\ Replaces /\ UNCHANGED <<journal, op, live, volumes, Counts>>
    /\ \/ host' = None /\ Goto("aside") /\ Works
       \/ host' \in {host, None} /\ GivesUp

\* What the failed version left is copied aside, under a name of its own.
Aside ==
    /\ pc = "aside" /\ names < MaxNames /\ names' = names + 1
    /\ \/ volumes' = [volumes EXCEPT ![names'] = Torn] /\ Goto("asiding") /\ Works
       \/ GivesUp /\ UNCHANGED volumes
    /\ Replaces /\ UNCHANGED <<journal, op, host, live, updates, written, base, waived>>
Asided ==
    /\ pc = "asiding" /\ Replaces /\ UNCHANGED <<journal, op, host, live, Counts>>
    /\ \/ volumes' = [volumes EXCEPT ![names] = live] /\ Goto("keep") /\ Works
       \/ GivesUp /\ UNCHANGED volumes
Keep ==
    /\ pc = "keep" /\ op' = [op EXCEPT !.preserved = names]
    /\ \/ Record(op') /\ Goto("wipe")
       \/ Unrecorded(op') /\ Goto("giveUp")
    /\ Replaces /\ UNCHANGED <<docker, Counts>>

\* The workspace is emptied, and then filled from the backup.
Wipe ==
    /\ pc = "wipe" /\ Replaces /\ UNCHANGED <<journal, op, host, volumes, Counts>>
    /\ \/ live' = Torn /\ Goto("fill") /\ Works
       \/ GivesUp /\ UNCHANGED live
Fill ==
    /\ pc = "fill" /\ Replaces /\ UNCHANGED <<journal, op, host, volumes, Counts>>
    /\ \/ live' = volumes[op.backup] /\ Goto("revive") /\ Works
       \/ GivesUp /\ UNCHANGED live

Revive ==
    /\ pc = "revive" /\ Replaces /\ UNCHANGED <<journal, op, volumes, Counts>>
    /\ \/ Runs(op.previous) /\ Goto("restored") /\ Works
       \/ MayRun(op.previous) /\ Goto("giveUp")

\* A settled restore goes on to what was asked; an update's own ends there.
Restored ==
    /\ pc = "restored" /\ Replaces /\ UNCHANGED <<docker, Counts>>
    /\ \/ Record(At("restored")) /\ op' = None /\ Goto(IF settling THEN "begin" ELSE "idle")
       \/ Unrecorded(At("restored")) /\ Rest
GiveUp ==
    /\ pc = "giveUp" /\ Rest /\ Replaces /\ UNCHANGED <<docker, Counts>>
    /\ Record(At("recoveryNeeded")) \/ Unrecorded(At("recoveryNeeded"))

-----------------------------------------------------------------------------
(* The host at work, and the manager dying.                                *)

Work ==
    /\ host # None /\ host.running /\ written < MaxWrites
    /\ written' = written + 1 /\ live' = [live EXCEPT !.work = @ \cup {written'}]
    /\ UNCHANGED <<journal, manager, host, volumes, names, updates, base, waived, faults>>

\* A manager that starts again starts its host.
Crash ==
    /\ pc # "idle" /\ Fault /\ Rest
    /\ job' = None /\ settling' = FALSE /\ starting' = TRUE
    /\ UNCHANGED <<journal, docker, Counts>>

Settles == Start \/ Settle \/ Resume \/ Begin \/ Admit
Replace ==
    \/ Download \/ Stop \/ NameBackup \/ Copy \/ Copied \/ Back \/ Commit \/ Prune \/ Remove
    \/ Create \/ Verifying \/ Verify \/ Conclude \/ Cancel
Restores ==
    \/ Restore \/ Clear \/ Aside \/ Asided \/ Keep \/ Wipe \/ Fill \/ Revive \/ Restored
    \/ GiveUp
Manager == Settles \/ Replace \/ Restores

Next == Manager \/ (\E target \in Image : Update(target)) \/ Work \/ Crash

Spec == Init /\ [][Next]_vars
\* The manager goes on with what it began, and asks again for a host that has
\* not started.
FairSpec == Spec /\ WF_vars(Manager)

-----------------------------------------------------------------------------

(* A host only ever runs over a whole workspace that no newer image has     *)
(* migrated: an older one would be refused its own database (replace,       *)
(* restore_unrecorded, settle).                                             *)
RunsWhole ==
    host # None /\ host.running => live.whole /\ live.by <= host.image

(* From the record that begins the swap until the operation is over, the    *)
(* journal names a whole copy of the workspace, as it was when the host was *)
(* stopped and no newer than the image it would go back to, whatever fails  *)
(* or dies (replace, prune, restore).                                       *)
RecoveryPoint ==
    journal # None /\ journal.stage \in Swapped \cup {"restoring", "recoveryNeeded"} =>
        /\ journal.backup # None /\ journal.previous # None
        /\ LET backup == volumes[journal.backup] IN
              backup # None /\ backup.whole /\ backup.work = base /\ backup.by <= journal.previous

(* Nothing that was written is lost: it is in the workspace, or in a whole  *)
(* copy beside it, until an update that has a backup of its own prunes the  *)
(* copies of what failed before it (restore_unrecorded, prune).             *)
NothingLost == 1..written \subseteq Kept(volumes) \cup waived

(* What the journal says is over is so, once the manager rests: an update   *)
(* left the target there and a restore the previous image, and in either,   *)
(* and in one canceled, the workspace has all that the stopped host had     *)
(* (settle, update, restore).                                               *)
LastWord ==
    pc = "idle" /\ journal # None =>
        /\ journal.stage = "updated" => host # None /\ host.image = journal.target
        /\ journal.stage = "restored" => host # None /\ host.image = journal.previous
        /\ journal.stage \in Finished => live.whole /\ base \subseteq live.work

(* A manager that starts comes to run its host, out of whatever an earlier  *)
(* one left midway, unless the journal says that only somebody can          *)
(* (keep_started, settle).                                                  *)
ComesUp ==
    starting ~> \/ ~starting /\ host # None /\ host.running
                \/ journal # None /\ journal.stage = "recoveryNeeded"
=============================================================================
