-------------------------- MODULE HostUpdateProofs --------------------------
(* Whatever fails and whenever the manager dies, for every release, broken   *)
(* or not: a host runs over a workspace it can read, there is a copy to go   *)
(* back to while one is replaced, and nothing that was written is lost.      *)
EXTENDS HostUpdate, TLAPS

\* A copy of the workspace that o can be taken back to.
Point(o) ==
    /\ o.backup # None /\ o.previous # None
    /\ LET backup == volumes[o.backup] IN
          backup # None /\ backup.whole /\ backup.work = base /\ backup.by <= o.previous

\* No volume has a name that was not given yet.
Unnamed == \A n \in Name : n > names => volumes[n] = None

\* A host that is there, running or not, can run over the workspace.
HostFits == host # None => live.whole /\ live.by <= host.image

\* The workspace is what was stopped, or more, unless it is being restored.
Away == journal # None /\ journal.stage \in {"restoring", "recoveryNeeded"}
Intact == ~Away => live.whole /\ base \subseteq live.work

\* Where no swap is under way, a host that is made is the first.
FirstFits ==
    journal = None \/ journal.stage \notin Swapped \cup {"restoring", "recoveryNeeded"} =>
        (host = None => live.by <= First)

\* What is over is so, wherever the manager is.
Over ==
    journal # None =>
        /\ journal.stage = "updated" => host # None /\ host.image = journal.target
        /\ journal.stage = "restored" => host # None /\ host.image = journal.previous

\* What the manager knows at each step of an update ...
Replacing ==
    /\ pc \in {"begin"} => journal = None \/ journal.stage \in Finished
    /\ pc = "resume" => journal # None /\ journal.stage = "canceled"
    /\ pc \in {"download", "stop", "name", "copy", "copying", "back", "commit", "prune", "remove"} =>
          op # None /\ journal # None /\ host # None /\ host.image = op.previous /\ op.previous < op.target
    /\ pc = "download" => op = journal /\ op.stage = "downloading"
    /\ pc \in {"stop", "name"} => op = journal /\ op.stage = "stopping"
    /\ pc \in {"copy", "copying", "commit"} => op = journal /\ op.stage = "backingUp" /\ op.backup = names
    /\ pc = "back" => op.stage = "backingUp" /\ journal.stage \in {"stopping", "backingUp"}
    /\ pc \in {"name", "copy", "copying", "commit"} => ~host.running /\ live.work = base
    /\ pc = "copy" => volumes[op.backup] = None
    /\ pc = "copying" => volumes[op.backup] = Torn
    /\ pc = "commit" => Point(op)
    /\ pc \in {"prune", "remove", "create", "created"} =>
          op # None /\ op = journal /\ op.stage = "starting" /\ Point(op)
    /\ pc \in {"verify", "conclude"} => op # None /\ op = journal /\ op.stage = "verifying" /\ Point(op)
    /\ pc = "create" => host = None /\ live.by <= op.previous /\ op.previous < op.target
    /\ pc \in {"created", "verify", "conclude"} => host # None /\ host.image = op.target
    /\ pc = "cancel" => op # None /\ ~Away /\ (host = None => live.by <= First)

\* ... and of a restore.
Restoring ==
    /\ pc = "restore" => op # None /\ Point(op)
    /\ pc \in {"clear", "aside", "asiding", "keep", "wipe", "fill", "revive", "restored", "giveUp"} =>
          /\ op # None /\ journal # None /\ op.stage = "restoring" /\ journal.stage = "restoring"
          /\ journal.backup = op.backup /\ journal.previous = op.previous /\ Point(op)
    /\ pc \in {"aside", "asiding", "keep", "wipe", "fill", "revive"} => host = None
    /\ pc \in {"asiding", "keep"} => names \in Name /\ op.backup # names
    /\ pc = "asiding" => volumes[names] = Torn
    /\ pc = "keep" => volumes[names] = live
    /\ pc = "wipe" => (live.whole => live.work \subseteq Held({volumes[n] : n \in Name}))
    /\ pc = "fill" => live = Torn
    /\ pc = "revive" => live.whole /\ live.work = base /\ live.by <= op.previous
    /\ pc = "restored" => host # None /\ host.image = op.previous /\ base \subseteq live.work

HostInv ==
    /\ TypeOK /\ Unnamed /\ HostFits /\ Intact /\ FirstFits /\ Over /\ RecoveryPoint
    /\ NothingLost /\ Replacing /\ Restoring

-----------------------------------------------------------------------------
(* What is kept, an operation at a stage, and a host that is run.           *)

\* What the manager has in hand is an operation, and so is it at another stage.
LEMMA AtStage ==
    ASSUME TypeOK, op # None, NEW s \in Stage
    PROVE  /\ op \in Operation /\ At(s) \in Operation /\ At(s) # None
           /\ At(s).stage = s /\ At(s).backup = op.backup /\ At(s).previous = op.previous
           /\ At(s).target = op.target /\ At(s).preserved = op.preserved
<1>1. op \in Operation
  BY DEF TypeOK
<1>2. At(s) \in Operation
  BY <1>1 DEF At, Operation
<1> QED
  BY <1>1, <1>2, NoneIsNothing DEF At

LEMMA KeptIs ==
    ASSUME TypeOK, NEW x
    PROVE  x \in Kept(volumes) <=>
              \/ live.whole /\ x \in live.work
              \/ \E n \in Name : volumes[n] # None /\ volumes[n].whole /\ x \in volumes[n].work
<1>1. live # None
  BY NoneIsNothing DEF TypeOK
<1> QED
  BY <1>1 DEF Kept, Held

LEMMA KeptIsNext ==
    ASSUME TypeOK', NEW x
    PROVE  x \in Kept(volumes)' <=>
              \/ live'.whole /\ x \in live'.work
              \/ \E n \in Name : volumes'[n] # None /\ volumes'[n].whole /\ x \in volumes'[n].work
<1>1. live' # None
  BY NoneIsNothing DEF TypeOK
<1> QED
  BY <1>1 DEF Kept, Held

\* Nothing is lost by a step that keeps what it had and loses no copy.
LEMMA KeptOn ==
    ASSUME HostInv, TypeOK', written' = written, waived \subseteq waived',
           \A x : x \in Kept(volumes) => x \in Kept(volumes)' \/ x \in waived'
    PROVE  NothingLost'
BY DEF HostInv, NothingLost

\* A step that leaves Docker alone.
LEMMA DockerSame ==
    ASSUME HostInv, TypeOK', UNCHANGED docker, UNCHANGED written, UNCHANGED waived
    PROVE  HostFits' /\ NothingLost'
<1>1. HostFits'
  BY DEF HostInv, HostFits, docker
<1>2. \A x : x \in Kept(volumes) => x \in Kept(volumes)'
  BY KeptIs, KeptIsNext DEF HostInv, docker
<1> QED
  BY <1>1, <1>2, KeptOn

\* A host that is run, or may be, over a workspace that is no newer.
LEMMA RunOrNot ==
    ASSUME HostInv, NEW i \in Image, Runs(i) \/ UNCHANGED <<host, live>>,
           live.whole, live.by <= i
    PROVE  /\ host' \in Container \cup {None} /\ live' \in Workspace
           /\ live'.whole = live.whole /\ live'.work = live.work /\ live'.by \in {live.by, i}
           /\ host' # None => live'.by <= host'.image
           /\ Runs(i) => host' # None /\ host'.image = i
<1>1. live \in Workspace /\ live.by \in Nat /\ i \in Nat
  BY DEF HostInv, TypeOK, Workspace, Image
<1>2. ASSUME Runs(i) PROVE host' \in Container /\ host' # None /\ host'.image = i
  <2>1. host' = [image |-> i, running |-> TRUE]
    BY <1>2 DEF Runs
  <2>2. [image |-> i, running |-> TRUE] \in Container
    BY DEF Container
  <2> QED
    BY <2>1, <2>2, NoneIsNothing
<1>3. CASE Runs(i)
  <2>1. live' = [live EXCEPT !.by = IF i > live.by THEN i ELSE live.by] /\ i \in 0..MaxImage
    BY <1>3 DEF Runs, Image
  <2>2. live' \in Workspace
    BY <1>1, <2>1 DEF Workspace
  <2>3. /\ live'.whole = live.whole /\ live'.work = live.work
        /\ live'.by = IF i > live.by THEN i ELSE live.by
    BY <1>1, <2>1 DEF Workspace
  <2>4. live'.by \in {live.by, i} /\ live'.by <= i
    BY <1>1, <2>3
  <2> QED
    BY <1>2, <1>3, <2>2, <2>3, <2>4
<1>4. CASE UNCHANGED <<host, live>>
  <2>1. host \in Container \cup {None} /\ (host # None => live.by <= host.image)
    BY DEF HostInv, TypeOK, HostFits
  <2> QED
    BY <1>1, <1>2, <1>4, <2>1
<1> QED
  BY <1>3, <1>4

LEMMA RunKeepsAll ==
    ASSUME HostInv, TypeOK', UNCHANGED volumes, UNCHANGED written, UNCHANGED waived,
           live'.whole = live.whole, live'.work = live.work
    PROVE  NothingLost'
<1>1. \A x : x \in Kept(volumes) => x \in Kept(volumes)'
  BY KeptIs, KeptIsNext DEF HostInv
<1> QED
  BY <1>1, KeptOn

\* The host that is there is run again, or may be.
LEMMA RunAgain ==
    ASSUME HostInv, host # None, Runs(host.image) \/ UNCHANGED <<host, live>>
    PROVE  /\ host' \in Container /\ host' # None /\ host'.image = host.image
           /\ live' \in Workspace /\ live'.whole = live.whole /\ live'.work = live.work
           /\ live'.by <= host'.image
<1>1. host \in Container /\ host.image \in Image /\ live.whole /\ live.by <= host.image
  BY DEF HostInv, TypeOK, HostFits, Container
<1>2. CASE Runs(host.image)
  BY <1>1, RunOrNot
<1>3. CASE UNCHANGED <<host, live>>
  BY <1>1, RunOrNot
<1> QED
  BY <1>2, <1>3

LEMMA StartKeeps ==
    ASSUME HostInv, Start
    PROVE  HostInv'
<1>a. /\ pc = "idle" /\ pc' = "settle" /\ job' = None /\ settling' = TRUE
      /\ UNCHANGED <<journal, op, starting>>
      /\ UNCHANGED <<host, live, volumes, updates, written, base, waived, names>>
      /\ faults' = faults \/ (faults < MaxFaults /\ faults' = faults + 1)
  BY DEF Start, Goto, docker, Counts
<1>1. TypeOK'
  BY <1>a, HostUpdateAssumption DEF HostInv, TypeOK, Labels
<1>2. Unnamed'
  BY <1>a DEF HostInv, Unnamed
<1>3. HostFits'
  BY <1>a, <1>1, DockerSame DEF docker
<1>4. Intact'
  BY <1>a DEF HostInv, Intact, Away
<1>5. FirstFits'
  BY <1>a DEF HostInv, FirstFits
<1>6. Over'
  BY <1>a DEF HostInv, Over
<1>7. RecoveryPoint'
  BY <1>a DEF HostInv, RecoveryPoint
<1>8. NothingLost'
  BY <1>a, <1>1, DockerSame DEF docker
<1>9. Replacing'
  BY <1>a DEF Replacing
<1>10. Restoring'
  BY <1>a DEF Restoring
<1> QED
  BY <1>1, <1>2, <1>3, <1>4, <1>5, <1>6, <1>7, <1>8, <1>9, <1>10 DEF HostInv

LEMMA UpdateKeeps ==
    ASSUME HostInv, NEW target \in Image, Update(target)
    PROVE  HostInv'
<1>a. /\ pc = "idle" /\ pc' = "settle" /\ job' = target /\ settling' = TRUE
      /\ updates < MaxUpdates /\ updates' = updates + 1
      /\ UNCHANGED <<journal, op, starting>>
      /\ UNCHANGED <<host, live, volumes, written, base, waived, names>>
      /\ faults' = faults \/ (faults < MaxFaults /\ faults' = faults + 1)
  BY DEF Update, Goto, docker
<1>1. TypeOK'
  BY <1>a, HostUpdateAssumption DEF HostInv, TypeOK, Labels
<1>2. Unnamed'
  BY <1>a DEF HostInv, Unnamed
<1>3. HostFits'
  BY <1>a, <1>1, DockerSame DEF docker
<1>4. Intact'
  BY <1>a DEF HostInv, Intact, Away
<1>5. FirstFits'
  BY <1>a DEF HostInv, FirstFits
<1>6. Over'
  BY <1>a DEF HostInv, Over
<1>7. RecoveryPoint'
  BY <1>a DEF HostInv, RecoveryPoint
<1>8. NothingLost'
  BY <1>a, <1>1, DockerSame DEF docker
<1>9. Replacing'
  BY <1>a DEF Replacing
<1>10. Restoring'
  BY <1>a DEF Restoring
<1> QED
  BY <1>1, <1>2, <1>3, <1>4, <1>5, <1>6, <1>7, <1>8, <1>9, <1>10 DEF HostInv

LEMMA SettleNothingKeeps ==
    ASSUME HostInv, Settle, SettleNothing
    PROVE  HostInv'
<1>a. /\ pc = "settle" /\ (journal = None \/ journal.stage \in Finished)
      /\ pc' = "begin" /\ journal' = journal /\ op' = op
      /\ UNCHANGED <<job, starting, settling>>
      /\ UNCHANGED <<host, live, volumes, updates, written, base, waived, names>>
      /\ faults' = faults \/ (faults < MaxFaults /\ faults' = faults + 1)
  BY DEF HostInv, TypeOK, Operation, Stage, SettleNothing, Settle, Asks, Left, Goto, docker, Counts,
         Works
<1>1. TypeOK'
  BY <1>a, HostUpdateAssumption DEF HostInv, TypeOK, Labels
<1>2. Unnamed'
  BY <1>a DEF HostInv, Unnamed
<1>3. HostFits'
  BY <1>a, <1>1, DockerSame DEF docker
<1>4. Intact'
  BY <1>a DEF HostInv, Intact, Away
<1>5. FirstFits'
  BY <1>a DEF HostInv, FirstFits
<1>6. Over'
  BY <1>a DEF HostInv, Over
<1>7. RecoveryPoint'
  BY <1>a DEF HostInv, RecoveryPoint
<1>8. NothingLost'
  BY <1>a, <1>1, DockerSame DEF docker
<1>9. Replacing'
  BY <1>a DEF Replacing
<1>10. Restoring'
  BY <1>a DEF Restoring
<1> QED
  BY <1>1, <1>2, <1>3, <1>4, <1>5, <1>6, <1>7, <1>8, <1>9, <1>10 DEF HostInv

LEMMA SettleStuckKeeps ==
    ASSUME HostInv, Settle, SettleStuck
    PROVE  HostInv'
<1>a. /\ pc = "settle" /\ pc' = "idle" /\ journal' = journal /\ op' = None
      /\ UNCHANGED <<job, starting, settling>>
      /\ UNCHANGED <<host, live, volumes, updates, written, base, waived, names>>
      /\ faults' = faults \/ (faults < MaxFaults /\ faults' = faults + 1)
  BY DEF SettleStuck, Settle, Asks, Rest, docker, Counts, Works
<1>1. TypeOK'
  BY <1>a, HostUpdateAssumption DEF HostInv, TypeOK, Labels
<1>2. Unnamed'
  BY <1>a DEF HostInv, Unnamed
<1>3. HostFits'
  BY <1>a, <1>1, DockerSame DEF docker
<1>4. Intact'
  BY <1>a DEF HostInv, Intact, Away
<1>5. FirstFits'
  BY <1>a DEF HostInv, FirstFits
<1>6. Over'
  BY <1>a DEF HostInv, Over
<1>7. RecoveryPoint'
  BY <1>a DEF HostInv, RecoveryPoint
<1>8. NothingLost'
  BY <1>a, <1>1, DockerSame DEF docker
<1>9. Replacing'
  BY <1>a DEF Replacing
<1>10. Restoring'
  BY <1>a DEF Restoring
<1> QED
  BY <1>1, <1>2, <1>3, <1>4, <1>5, <1>6, <1>7, <1>8, <1>9, <1>10 DEF HostInv

LEMMA SettleUnswappedKeeps ==
    ASSUME HostInv, Settle, SettleUnswapped
    PROVE  HostInv'
<1>a. /\ pc = "settle" /\ journal # None /\ journal.stage \in {"downloading", "stopping", "backingUp"}
      /\ \/ journal' = [journal EXCEPT !.stage = "canceled"] /\ pc' = "resume" /\ op' = op
         \/ /\ journal' \in {journal, [journal EXCEPT !.stage = "canceled"]}
            /\ pc' = "idle" /\ op' = None
      /\ UNCHANGED <<job, starting, settling>>
      /\ UNCHANGED <<host, live, volumes, updates, written, base, waived, names>>
      /\ faults' = faults \/ (faults < MaxFaults /\ faults' = faults + 1)
  BY DEF SettleUnswapped, Settle, Asks, Left, Goto, Rest, Record, Unrecorded, docker, Counts, Fault,
         Works
<1>b. /\ journal \in Operation /\ [journal EXCEPT !.stage = "canceled"] \in Operation
      /\ [journal EXCEPT !.stage = "canceled"].stage = "canceled"
      /\ [journal EXCEPT !.stage = "canceled"].target = journal.target
      /\ [journal EXCEPT !.stage = "canceled"] # None
  <2>1. journal \in Operation
    BY <1>a DEF HostInv, TypeOK
  <2>2. [journal EXCEPT !.stage = "canceled"] \in Operation
    BY <2>1 DEF Operation, Stage
  <2> QED
    BY <2>1, <2>2, NoneIsNothing
<1>1. TypeOK'
  BY <1>a, <1>b, HostUpdateAssumption DEF HostInv, TypeOK, Labels
<1>2. Unnamed'
  BY <1>a DEF HostInv, Unnamed
<1>3. HostFits'
  BY <1>a, <1>1, DockerSame DEF docker
<1>4. Intact'
  BY <1>a DEF HostInv, Intact, Away
<1>5. FirstFits'
  BY <1>a DEF HostInv, FirstFits, Swapped
<1>6. Over'
  BY <1>a, <1>b DEF Over
<1>7. RecoveryPoint'
  BY <1>a, <1>b DEF RecoveryPoint, Swapped
<1>8. NothingLost'
  BY <1>a, <1>1, DockerSame DEF docker
<1>9. Replacing'
  BY <1>a, <1>b DEF Replacing
<1>10. Restoring'
  BY <1>a DEF Restoring
<1> QED
  BY <1>1, <1>2, <1>3, <1>4, <1>5, <1>6, <1>7, <1>8, <1>9, <1>10 DEF HostInv

LEMMA SettleSwappedKeeps ==
    ASSUME HostInv, Settle, SettleSwapped
    PROVE  HostInv'
<1>a. /\ pc = "settle" /\ journal # None /\ journal.stage \in Swapped
      /\ \/ /\ Verified(journal) /\ journal' = [journal EXCEPT !.stage = "updated"]
            /\ pc' = "begin" /\ op' = op
         \/ /\ Verified(journal) /\ journal' \in {journal, [journal EXCEPT !.stage = "updated"]}
            /\ pc' = "idle" /\ op' = None
         \/ journal' = journal /\ op' = journal /\ pc' = "restore"
      /\ UNCHANGED <<job, starting, settling>>
      /\ UNCHANGED <<host, live, volumes, updates, written, base, waived, names>>
      /\ faults' = faults \/ (faults < MaxFaults /\ faults' = faults + 1)
  BY DEF SettleSwapped, Swapped, Settle, Asks, Left, Goto, Rest, Record, Unrecorded, docker, Counts,
         Fault, Works
<1>b. /\ journal \in Operation /\ [journal EXCEPT !.stage = "updated"] \in Operation
      /\ [journal EXCEPT !.stage = "updated"].stage = "updated"
      /\ [journal EXCEPT !.stage = "updated"].target = journal.target
      /\ [journal EXCEPT !.stage = "updated"] # None
  <2>1. journal \in Operation
    BY <1>a DEF HostInv, TypeOK
  <2>2. [journal EXCEPT !.stage = "updated"] \in Operation
    BY <2>1 DEF Operation, Stage
  <2> QED
    BY <2>1, <2>2, NoneIsNothing
<1>c. /\ Verified(journal) => host # None /\ host.image = journal.target
      /\ Point(journal)
  BY <1>a DEF HostInv, RecoveryPoint, Point, Verified
<1>1. TypeOK'
  BY <1>a, <1>b, HostUpdateAssumption DEF HostInv, TypeOK, Labels
<1>2. Unnamed'
  BY <1>a DEF HostInv, Unnamed
<1>3. HostFits'
  BY <1>a, <1>1, DockerSame DEF docker
<1>4. Intact'
  BY <1>a DEF HostInv, Intact, Away, Swapped
<1>5. FirstFits'
  BY <1>a, <1>c DEF FirstFits
<1>6. Over'
  BY <1>a, <1>b, <1>c DEF HostInv, Over
<1>7. RecoveryPoint'
  BY <1>a, <1>b DEF HostInv, RecoveryPoint, Swapped
<1>8. NothingLost'
  BY <1>a, <1>1, DockerSame DEF docker
<1>9. Replacing'
  BY <1>a, <1>b DEF Replacing, Finished
<1>10. Restoring'
  BY <1>a, <1>c DEF Restoring, Point
<1> QED
  BY <1>1, <1>2, <1>3, <1>4, <1>5, <1>6, <1>7, <1>8, <1>9, <1>10 DEF HostInv

LEMMA SettleRestoringKeeps ==
    ASSUME HostInv, Settle, SettleRestoring
    PROVE  HostInv'
<1>a. /\ pc = "settle" /\ journal # None /\ journal.stage = "restoring"
      /\ journal' = journal /\ op' = journal /\ pc' = "restore"
      /\ UNCHANGED <<job, starting, settling>>
      /\ UNCHANGED <<host, live, volumes, updates, written, base, waived, names>>
      /\ faults' = faults \/ (faults < MaxFaults /\ faults' = faults + 1)
  BY DEF SettleRestoring, Settle, Asks, Left, Goto, docker, Counts, Works
<1>b. Point(journal)
  BY <1>a DEF HostInv, RecoveryPoint, Point
<1>1. TypeOK'
  BY <1>a, HostUpdateAssumption DEF HostInv, TypeOK, Labels
<1>2. Unnamed'
  BY <1>a DEF HostInv, Unnamed
<1>3. HostFits'
  BY <1>a, <1>1, DockerSame DEF docker
<1>4. Intact'
  BY <1>a DEF Intact, Away
<1>5. FirstFits'
  BY <1>a DEF FirstFits
<1>6. Over'
  BY <1>a DEF Over
<1>7. RecoveryPoint'
  BY <1>a DEF HostInv, RecoveryPoint
<1>8. NothingLost'
  BY <1>a, <1>1, DockerSame DEF docker
<1>9. Replacing'
  BY <1>a DEF Replacing
<1>10. Restoring'
  BY <1>a, <1>b DEF Restoring, Point
<1> QED
  BY <1>1, <1>2, <1>3, <1>4, <1>5, <1>6, <1>7, <1>8, <1>9, <1>10 DEF HostInv

LEMMA SettleKeeps ==
    ASSUME HostInv, Settle
    PROVE  HostInv'
BY SettleNothingKeeps, SettleStuckKeeps, SettleUnswappedKeeps, SettleSwappedKeeps,
   SettleRestoringKeeps
   DEF Settle

LEMMA AdmitKeeps ==
    ASSUME HostInv, Admit
    PROVE  HostInv'
<1>a. /\ pc = "begin" /\ settling' = FALSE /\ job \in Image
      /\ \/ op' = Unread(job) /\ pc' = "cancel" /\ journal' = journal
         \/ /\ host = None \/ host.image >= job
            /\ op' = Asked(job) /\ pc' = "cancel" /\ journal' = journal
         \/ /\ host # None /\ ~(host.image >= job)
            /\ \/ journal' = Asked(job) /\ op' = Asked(job) /\ pc' = "download"
               \/ journal' \in {journal, Asked(job)} /\ pc' = "idle" /\ op' = None
      /\ UNCHANGED <<job, starting>>
      /\ UNCHANGED <<host, live, volumes, updates, written, base, waived, names>>
      /\ faults' = faults \/ (faults < MaxFaults /\ faults' = faults + 1)
  BY DEF HostInv, TypeOK, Admit, Asks, Goto, Rest, Record, Unrecorded, docker, Counts, Fault, Works
<1>b. /\ Asked(job) \in Operation /\ Asked(job) # None /\ Asked(job).stage = "downloading"
      /\ Asked(job).target = job /\ (host # None => Asked(job).previous = host.image)
  <2>1. Asked(job) \in Operation
    BY <1>a DEF HostInv, TypeOK, Asked, Operation, Stage, Container
  <2> QED
    BY <2>1, NoneIsNothing DEF Asked
<1>d. /\ Unread(job) \in Operation /\ Unread(job) # None
  BY <1>b, NoneIsNothing DEF Unread, Operation
<1>c. /\ journal = None \/ journal.stage \in Finished
      /\ host # None => host.image \in Nat /\ job \in Nat
  BY <1>a DEF HostInv, TypeOK, Replacing, Container, Image
<1>1. TypeOK'
  <2>1. journal' \in Operation \cup {None} /\ op' \in Operation \cup {None} /\ pc' \in Labels
    BY <1>a, <1>b, <1>d DEF HostInv, TypeOK, Labels
  <2>2. job' \in {None} \cup Image /\ settling' \in BOOLEAN /\ starting' \in BOOLEAN
    BY <1>a DEF HostInv, TypeOK
  <2>3. faults' \in 0..MaxFaults
    BY <1>a, HostUpdateAssumption DEF HostInv, TypeOK
  <2> QED
    BY <1>a, <2>1, <2>3 DEF HostInv, TypeOK
<1>2. Unnamed'
  BY <1>a DEF HostInv, Unnamed
<1>3. HostFits'
  BY <1>a, <1>1, DockerSame DEF docker
<1>4. Intact'
  BY <1>a, <1>c DEF HostInv, Intact, Away, Finished
<1>5. FirstFits'
  BY <1>a DEF HostInv, FirstFits
<1>6. Over'
  BY <1>a, <1>b DEF HostInv, Over
<1>7. RecoveryPoint'
  BY <1>a, <1>b DEF HostInv, RecoveryPoint, Swapped
<1>8. NothingLost'
  BY <1>a, <1>1, DockerSame DEF docker
<1>9. Replacing'
  <2>1. CASE op' \in {Asked(job), Unread(job)} /\ pc' = "cancel" /\ journal' = journal
    BY <1>a, <1>b, <1>d, <2>1 DEF HostInv, Replacing, Away, Finished, FirstFits, Swapped
  <2>2. CASE journal' = Asked(job) /\ op' = Asked(job) /\ pc' = "download" /\ host # None /\ ~(host.image >= job)
    BY <1>a, <1>b, <1>c, <2>2 DEF Replacing
  <2>3. CASE journal' \in {journal, Asked(job)} /\ pc' = "idle" /\ op' = None
    BY <2>3 DEF Replacing
  <2> QED
    BY <1>a, <2>1, <2>2, <2>3
<1>10. Restoring'
  BY <1>a DEF Restoring
<1> QED
  BY <1>1, <1>2, <1>3, <1>4, <1>5, <1>6, <1>7, <1>8, <1>9, <1>10 DEF HostInv

LEMMA DownloadKeeps ==
    ASSUME HostInv, Download
    PROVE  HostInv'
<1>a. /\ pc = "download"
      /\ \/ journal' = At("stopping") /\ op' = At("stopping") /\ pc' = "stop"
         \/ journal' \in {journal, At("stopping")} /\ op' = op /\ pc' = "cancel"
      /\ UNCHANGED <<job, starting, settling>>
      /\ UNCHANGED <<host, live, volumes, updates, written, base, waived, names>>
      /\ faults' = faults \/ (faults < MaxFaults /\ faults' = faults + 1)
  BY DEF HostInv, Replacing, Swapped, Download, Replaces, Asks, Goto, Record, Errs, docker, Counts,
         Fault, Works
<1>b. /\ At("stopping") \in Operation /\ At("stopping") # None /\ At("stopping").stage = "stopping"
      /\ At("stopping").backup = op.backup /\ At("stopping").previous = op.previous /\ At("stopping").target = op.target
      /\ op \in Operation
  BY <1>a, AtStage DEF HostInv, Replacing, Stage
<1>1. TypeOK'
  BY <1>a, <1>b, HostUpdateAssumption DEF HostInv, TypeOK, Labels
<1>2. Unnamed'
  BY <1>a DEF HostInv, Unnamed
<1>3. HostFits'
  BY <1>a, <1>1, DockerSame DEF docker
<1>4. Intact'
  BY <1>a DEF HostInv, Intact, Away, Replacing
<1>5. FirstFits'
  BY <1>a DEF HostInv, FirstFits, Replacing
<1>6. Over'
  BY <1>a, <1>b DEF HostInv, Over
<1>7. RecoveryPoint'
  BY <1>a, <1>b DEF HostInv, RecoveryPoint, Swapped
<1>8. NothingLost'
  BY <1>a, <1>1, DockerSame DEF docker
<1>9. Replacing'
  BY <1>a, <1>b DEF HostInv, Replacing, Away
<1>10. Restoring'
  BY <1>a DEF Restoring
<1> QED
  BY <1>1, <1>2, <1>3, <1>4, <1>5, <1>6, <1>7, <1>8, <1>9, <1>10 DEF HostInv

LEMMA StopKeeps ==
    ASSUME HostInv, Stop
    PROVE  HostInv'
<1>a. /\ pc = "stop" /\ host # None
      /\ \/ host' = [host EXCEPT !.running = FALSE] /\ base' = live.work /\ pc' = "name"
         \/ host' \in {host, [host EXCEPT !.running = FALSE]} /\ base' = base /\ pc' = "cancel"
      /\ UNCHANGED <<job, starting, settling>>
      /\ UNCHANGED <<journal, op, live, volumes, names, updates, written, waived>>
      /\ faults' = faults \/ (faults < MaxFaults /\ faults' = faults + 1)
  BY DEF HostInv, Replacing, Swapped, Fault, Works, Stop, Replaces, Asks, Goto, Errs
<1>b. /\ host' \in Container /\ host' # None /\ host'.image = host.image
      /\ host' = [host EXCEPT !.running = FALSE] => ~host'.running
  <2>1. host \in Container /\ [host EXCEPT !.running = FALSE] \in Container
    BY <1>a DEF HostInv, TypeOK, Container
  <2> QED
    BY <1>a, <2>1, NoneIsNothing DEF Container
<1>c. /\ journal = op /\ op # None /\ op.stage = "stopping"
      /\ live \in Workspace /\ live.work \subseteq 1..MaxWrites
  BY <1>a DEF HostInv, TypeOK, Replacing, Workspace
<1>1. TypeOK'
  BY <1>a, <1>b, <1>c, HostUpdateAssumption DEF HostInv, TypeOK, Labels
<1>2. Unnamed'
  BY <1>a DEF HostInv, Unnamed
<1>3. HostFits'
  BY <1>a, <1>b DEF HostInv, HostFits
<1>4. Intact'
  BY <1>a DEF HostInv, Intact, Away
<1>5. FirstFits'
  BY <1>b DEF FirstFits
<1>6. Over'
  BY <1>a, <1>c DEF Over
<1>7. RecoveryPoint'
  BY <1>a, <1>c DEF RecoveryPoint, Swapped
<1>8. NothingLost'
  BY <1>a, <1>1, RunKeepsAll
<1>9. Replacing'
  BY <1>a, <1>b DEF HostInv, Replacing, Away
<1>10. Restoring'
  BY <1>a DEF Restoring
<1> QED
  BY <1>1, <1>2, <1>3, <1>4, <1>5, <1>6, <1>7, <1>8, <1>9, <1>10 DEF HostInv

LEMMA NameBackupKeeps ==
    ASSUME HostInv, NameBackup
    PROVE  HostInv'
<1>a. /\ pc = "name" /\ names < MaxNames /\ names' = names + 1
      /\ op' = [At("backingUp") EXCEPT !.backup = names + 1]
      /\ \/ journal' = op' /\ pc' = "copy"
         \/ journal' \in {journal, op'} /\ pc' = "back"
      /\ UNCHANGED <<job, starting, settling>>
      /\ UNCHANGED <<host, live, volumes, updates, written, base, waived>>
      /\ faults' = faults \/ (faults < MaxFaults /\ faults' = faults + 1)
  BY DEF NameBackup, Replaces, Asks, Goto, Record, Unrecorded, docker, Fault, Works
<1>b. /\ At("backingUp") \in Operation /\ At("backingUp") # None /\ At("backingUp").stage = "backingUp"
      /\ At("backingUp").backup = op.backup /\ At("backingUp").previous = op.previous /\ At("backingUp").target = op.target
      /\ op \in Operation
  BY <1>a, AtStage DEF HostInv, Replacing, Stage
<1>c. /\ op' \in Operation /\ op' # None /\ op'.stage = "backingUp" /\ op'.backup = names + 1
      /\ op'.previous = op.previous /\ op'.target = op.target /\ names + 1 \in Name
      /\ volumes[names + 1] = None
  <2>1. names + 1 \in Name /\ names + 1 > names
    BY <1>a, HostUpdateAssumption DEF HostInv, TypeOK, Name
  <2>2. op' \in Operation
    BY <1>a, <1>b, <2>1 DEF Operation
  <2> QED
    BY <1>a, <1>b, <2>1, <2>2, NoneIsNothing DEF HostInv, Unnamed
<1>1. TypeOK'
  BY <1>a, <1>c, HostUpdateAssumption DEF HostInv, TypeOK, Labels
<1>2. Unnamed'
  <2>1. names \in Nat
    BY DEF HostInv, TypeOK
  <2> QED
    BY <1>a, <2>1 DEF HostInv, Unnamed, Name
<1>3. HostFits'
  BY <1>a, <1>1, DockerSame DEF docker
<1>4. Intact'
  BY <1>a DEF HostInv, Intact, Away, Replacing
<1>5. FirstFits'
  BY <1>a DEF HostInv, FirstFits, Replacing
<1>6. Over'
  BY <1>a, <1>c DEF HostInv, Over
<1>7. RecoveryPoint'
  BY <1>a, <1>c DEF HostInv, RecoveryPoint, Swapped
<1>8. NothingLost'
  BY <1>a, <1>1, DockerSame DEF docker
<1>9. Replacing'
  BY <1>a, <1>c DEF HostInv, Replacing
<1>10. Restoring'
  BY <1>a DEF Restoring
<1> QED
  BY <1>1, <1>2, <1>3, <1>4, <1>5, <1>6, <1>7, <1>8, <1>9, <1>10 DEF HostInv

LEMMA CopyKeeps ==
    ASSUME HostInv, Copy
    PROVE  HostInv'
<1>a. /\ pc = "copy"
      /\ \/ volumes' = [volumes EXCEPT ![op.backup] = Torn] /\ pc' = "copying"
         \/ volumes' = volumes /\ pc' = "back"
      /\ UNCHANGED <<job, starting, settling>>
      /\ UNCHANGED <<journal, op, host, live, names, updates, written, base, waived>>
      /\ faults' = faults \/ (faults < MaxFaults /\ faults' = faults + 1)
  BY DEF Copy, Counts, Fault, Works, Replaces, Asks, Goto
<1>b. /\ op \in Operation /\ op = journal /\ op.backup = names /\ op.stage = "backingUp"
      /\ names \in Name /\ names \in Nat /\ op.previous # None /\ host.image = op.previous
      /\ live \in Workspace /\ live # None /\ Torn \in Workspace /\ Torn # None /\ ~Torn.whole
  <2>1. op \in Operation /\ op = journal /\ op.backup = names /\ op.stage = "backingUp"
    BY <1>a DEF HostInv, TypeOK, Replacing
  <2>2. names \in Nat /\ names # None
    BY NoneIsNothing DEF HostInv, TypeOK
  <2>3. names \in Name
    BY <2>1, <2>2 DEF Operation
  <2>4. live \in Workspace /\ Torn \in Workspace /\ ~Torn.whole
    BY HostUpdateAssumption DEF HostInv, TypeOK, Torn, Workspace
  <2>5. host \in Container /\ host.image = op.previous
    BY <1>a DEF HostInv, TypeOK, Replacing
  <2>6. op.previous # None
    BY <2>5, NoneIsNothing DEF Container, Image
  <2> QED
    BY <2>1, <2>2, <2>3, <2>4, <2>5, <2>6, NoneIsNothing
<1>1. TypeOK'
  BY <1>a, <1>b, HostUpdateAssumption DEF HostInv, TypeOK, Labels
<1>2. Unnamed'
  BY <1>a, <1>b DEF HostInv, TypeOK, Unnamed
<1>3. HostFits'
  BY <1>a DEF HostInv, HostFits
<1>4. Intact'
  BY <1>a DEF HostInv, Intact, Away
<1>5. FirstFits'
  BY <1>a DEF HostInv, FirstFits
<1>6. Over'
  BY <1>a, <1>b DEF Over
<1>7. RecoveryPoint'
  BY <1>a, <1>b DEF RecoveryPoint, Swapped
<1>8. NothingLost'
  <2>1. \A x : x \in Kept(volumes) => x \in Kept(volumes)'
    BY <1>a, <1>1, KeptIs, KeptIsNext DEF HostInv, TypeOK, Replacing
  <2> QED
    BY <1>a, <1>1, <2>1, KeptOn
<1>9. Replacing'
  BY <1>a, <1>b DEF HostInv, TypeOK, Replacing
<1>10. Restoring'
  BY <1>a DEF Restoring
<1> QED
  BY <1>1, <1>2, <1>3, <1>4, <1>5, <1>6, <1>7, <1>8, <1>9, <1>10 DEF HostInv

LEMMA CopiedKeeps ==
    ASSUME HostInv, Copied
    PROVE  HostInv'
<1>a. /\ pc = "copying"
      /\ \/ volumes' = [volumes EXCEPT ![op.backup] = live] /\ pc' = "commit"
         \/ volumes' = volumes /\ pc' = "back"
      /\ UNCHANGED <<job, starting, settling>>
      /\ UNCHANGED <<journal, op, host, live, names, updates, written, base, waived>>
      /\ faults' = faults \/ (faults < MaxFaults /\ faults' = faults + 1)
  BY DEF Copied, Counts, Fault, Works, Replaces, Asks, Goto
<1>b. /\ op \in Operation /\ op = journal /\ op.backup = names /\ op.stage = "backingUp"
      /\ names \in Name /\ names \in Nat /\ op.previous # None /\ host.image = op.previous
      /\ live \in Workspace /\ live # None /\ Torn \in Workspace /\ Torn # None /\ ~Torn.whole
  <2>1. op \in Operation /\ op = journal /\ op.backup = names /\ op.stage = "backingUp"
    BY <1>a DEF HostInv, TypeOK, Replacing
  <2>2. names \in Nat /\ names # None
    BY NoneIsNothing DEF HostInv, TypeOK
  <2>3. names \in Name
    BY <2>1, <2>2 DEF Operation
  <2>4. live \in Workspace /\ Torn \in Workspace /\ ~Torn.whole
    BY HostUpdateAssumption DEF HostInv, TypeOK, Torn, Workspace
  <2>5. host \in Container /\ host.image = op.previous
    BY <1>a DEF HostInv, TypeOK, Replacing
  <2>6. op.previous # None
    BY <2>5, NoneIsNothing DEF Container, Image
  <2> QED
    BY <2>1, <2>2, <2>3, <2>4, <2>5, <2>6, NoneIsNothing
<1>1. TypeOK'
  BY <1>a, HostUpdateAssumption DEF HostInv, TypeOK, Labels
<1>2. Unnamed'
  BY <1>a, <1>b DEF HostInv, TypeOK, Unnamed
<1>3. HostFits'
  BY <1>a DEF HostInv, HostFits
<1>4. Intact'
  BY <1>a DEF HostInv, Intact, Away
<1>5. FirstFits'
  BY <1>a DEF HostInv, FirstFits
<1>6. Over'
  BY <1>a, <1>b DEF Over
<1>7. RecoveryPoint'
  BY <1>a, <1>b DEF RecoveryPoint, Swapped
<1>8. NothingLost'
  <2>1. \A x : x \in Kept(volumes) => x \in Kept(volumes)'
    BY <1>a, <1>b, <1>1, KeptIs, KeptIsNext DEF HostInv, TypeOK, Replacing
  <2> QED
    BY <1>a, <1>1, <2>1, KeptOn
<1>9. Replacing'
  BY <1>a, <1>b, NoneIsNothing DEF HostInv, TypeOK, Replacing, Point, HostFits
<1>10. Restoring'
  BY <1>a DEF Restoring
<1> QED
  BY <1>1, <1>2, <1>3, <1>4, <1>5, <1>6, <1>7, <1>8, <1>9, <1>10 DEF HostInv

LEMMA ResumeKeeps ==
    ASSUME HostInv, Resume
    PROVE  HostInv'
<1>a. /\ pc = "resume"
      /\ IF host = None THEN UNCHANGED <<host, live>>
                        ELSE Runs(host.image) \/ UNCHANGED <<host, live>>
      /\ (pc' = "begin" /\ op' = op) \/ (pc' = "idle" /\ op' = None)
      /\ UNCHANGED <<job, starting, settling>>
      /\ UNCHANGED <<journal, volumes, names, updates, written, base, waived>>
      /\ faults' = faults \/ (faults < MaxFaults /\ faults' = faults + 1)
  BY DEF Resume, MayRun, Counts, Fault, Works, Asks, Goto, Rest
<1>b. /\ host' \in Container \cup {None} /\ (host = None <=> host' = None)
      /\ host # None => host'.image = host.image /\ live'.by <= host'.image
      /\ live' \in Workspace /\ live'.whole = live.whole /\ live'.work = live.work
      /\ host = None => live' = live
  <2>1. CASE host = None
    BY <1>a, <2>1 DEF HostInv, TypeOK
  <2>2. CASE host # None
    <3>1. Runs(host.image) \/ UNCHANGED <<host, live>>
      BY <1>a, <2>2
    <3> QED
      BY <2>2, <3>1, RunAgain
  <2> QED
    BY <2>1, <2>2
<1>1. TypeOK'
  BY <1>a, <1>b, HostUpdateAssumption DEF HostInv, TypeOK, Labels
<1>2. Unnamed'
  BY <1>a DEF HostInv, Unnamed
<1>3. HostFits'
  BY <1>b DEF HostInv, HostFits
<1>4. Intact'
  BY <1>a, <1>b DEF HostInv, Intact, Away
<1>5. FirstFits'
  BY <1>a, <1>b DEF HostInv, FirstFits
<1>6. Over'
  BY <1>a, <1>b DEF HostInv, Over
<1>7. RecoveryPoint'
  BY <1>a DEF HostInv, RecoveryPoint
<1>8. NothingLost'
  BY <1>a, <1>b, <1>1, RunKeepsAll
<1>9. Replacing'
  BY <1>a DEF HostInv, Replacing, Finished
<1>10. Restoring'
  BY <1>a DEF Restoring
<1> QED
  BY <1>1, <1>2, <1>3, <1>4, <1>5, <1>6, <1>7, <1>8, <1>9, <1>10 DEF HostInv

LEMMA BeginKeeps ==
    ASSUME HostInv, Begin
    PROVE  HostInv'
<1>a. /\ pc = "begin" /\ pc' = "idle" /\ op' = None /\ settling' = FALSE /\ starting' \in BOOLEAN
      /\ host # None => Runs(host.image) \/ UNCHANGED <<host, live>>
      /\ host = None => Runs(First) \/ UNCHANGED <<host, live>>
      /\ UNCHANGED <<journal, job, volumes, names, updates, written, base, waived>>
      /\ faults' = faults \/ (faults < MaxFaults /\ faults' = faults + 1)
  BY DEF HostInv, TypeOK, Begin, MayRun, Counts, Fault, Works, Rest
<1>b. journal = None \/ journal.stage \in Finished
  BY <1>a DEF HostInv, Replacing
<1>c. /\ host' \in Container \cup {None} /\ (host' # None => live'.by <= host'.image)
      /\ host # None => host' # None /\ host'.image = host.image
      /\ live' \in Workspace /\ live'.whole = live.whole /\ live'.work = live.work
      /\ host' = None => live'.by <= First
  <2>1. CASE host = None
    <3>1. First \in Image /\ live.whole /\ live.by <= First
      BY <1>b, <2>1, HostUpdateAssumption
         DEF HostInv, Intact, Away, FirstFits, Swapped, Finished, First, Image
    <3>2. Runs(First) \/ UNCHANGED <<host, live>>
      BY <1>a, <2>1
    <3>3. /\ host' \in Container \cup {None} /\ live' \in Workspace
          /\ live'.whole = live.whole /\ live'.work = live.work /\ live'.by \in {live.by, First}
          /\ host' # None => live'.by <= host'.image
      BY <3>1, <3>2, RunOrNot
    <3> QED
      BY <2>1, <3>1, <3>3 DEF First
  <2>2. CASE host # None
    <3>1. Runs(host.image) \/ UNCHANGED <<host, live>>
      BY <1>a, <2>2
    <3> QED
      BY <2>2, <3>1, RunAgain
  <2> QED
    BY <2>1, <2>2
<1>1. TypeOK'
  <2>1. pc' \in Labels /\ op' \in Operation \cup {None} /\ settling' \in BOOLEAN /\ starting' \in BOOLEAN
    BY <1>a DEF Labels
  <2>2. faults' \in 0..MaxFaults
    BY <1>a, HostUpdateAssumption DEF HostInv, TypeOK
  <2> QED
    BY <1>a, <1>c, <2>1, <2>2 DEF HostInv, TypeOK
<1>2. Unnamed'
  BY <1>a DEF HostInv, Unnamed
<1>3. HostFits'
  <2>1. host' # None => live.whole
    BY <1>b DEF HostInv, Intact, Away, Finished
  <2> QED
    BY <1>c, <2>1 DEF HostFits
<1>4. Intact'
  BY <1>a, <1>c DEF HostInv, Intact, Away
<1>5. FirstFits'
  BY <1>c DEF FirstFits
<1>6. Over'
  BY <1>a, <1>c DEF HostInv, Over
<1>7. RecoveryPoint'
  BY <1>a DEF HostInv, RecoveryPoint
<1>8. NothingLost'
  BY <1>a, <1>c, <1>1, RunKeepsAll
<1>9. Replacing'
  BY <1>a DEF Replacing
<1>10. Restoring'
  BY <1>a DEF Restoring
<1> QED
  BY <1>1, <1>2, <1>3, <1>4, <1>5, <1>6, <1>7, <1>8, <1>9, <1>10 DEF HostInv

LEMMA BackKeeps ==
    ASSUME HostInv, Back
    PROVE  HostInv'
<1>a. /\ pc = "back" /\ pc' = "cancel" /\ op' = op /\ host # None
      /\ Runs(host.image) \/ UNCHANGED <<host, live>>
      /\ UNCHANGED <<job, starting, settling>>
      /\ UNCHANGED <<journal, volumes, names, updates, written, base, waived>>
      /\ faults' = faults \/ (faults < MaxFaults /\ faults' = faults + 1)
  BY DEF HostInv, Replacing, Back, MayRun, Counts, Fault, Works, Replaces, Asks, Goto
<1>b. /\ host' \in Container /\ host' # None /\ host'.image = host.image
      /\ live' \in Workspace /\ live'.whole = live.whole /\ live'.work = live.work
      /\ live'.by <= host'.image
  BY <1>a, RunAgain
<1>1. TypeOK'
  BY <1>a, <1>b, HostUpdateAssumption DEF HostInv, TypeOK, Labels
<1>2. Unnamed'
  BY <1>a DEF HostInv, Unnamed
<1>3. HostFits'
  BY <1>a, <1>b DEF HostInv, HostFits
<1>4. Intact'
  BY <1>a, <1>b DEF HostInv, Intact, Away
<1>5. FirstFits'
  BY <1>b DEF FirstFits
<1>6. Over'
  BY <1>a, <1>b DEF HostInv, Over
<1>7. RecoveryPoint'
  BY <1>a DEF HostInv, RecoveryPoint
<1>8. NothingLost'
  BY <1>a, <1>b, <1>1, RunKeepsAll
<1>9. Replacing'
  BY <1>a, <1>b DEF HostInv, Replacing, Away
<1>10. Restoring'
  BY <1>a DEF Restoring
<1> QED
  BY <1>1, <1>2, <1>3, <1>4, <1>5, <1>6, <1>7, <1>8, <1>9, <1>10 DEF HostInv

LEMMA CommitKeeps ==
    ASSUME HostInv, Commit
    PROVE  HostInv'
<1>a. /\ pc = "commit" /\ op' = At("starting")
      /\ \/ journal' = op' /\ pc' = "prune"
         \/ journal' \in {journal, op'} /\ pc' = "restore"
      /\ UNCHANGED <<job, starting, settling>>
      /\ UNCHANGED <<host, live, volumes, updates, written, base, waived, names>>
      /\ faults' = faults \/ (faults < MaxFaults /\ faults' = faults + 1)
  BY DEF Commit, Replaces, Asks, Goto, Record, Unrecorded, docker, Counts, Fault, Works
<1>b. /\ At("starting") \in Operation /\ At("starting") # None /\ At("starting").stage = "starting"
      /\ At("starting").backup = op.backup /\ At("starting").previous = op.previous /\ At("starting").target = op.target
      /\ op \in Operation
  BY <1>a, AtStage DEF HostInv, Replacing, Stage
<1>c. Point(op) /\ journal = op
  BY <1>a DEF HostInv, Replacing
<1>1. TypeOK'
  BY <1>a, <1>b, HostUpdateAssumption DEF HostInv, TypeOK, Labels
<1>2. Unnamed'
  BY <1>a DEF HostInv, Unnamed
<1>3. HostFits'
  BY <1>a, <1>1, DockerSame DEF docker
<1>4. Intact'
  BY <1>a DEF HostInv, Intact, Away, Replacing
<1>5. FirstFits'
  BY <1>a, <1>b DEF HostInv, FirstFits, Swapped
<1>6. Over'
  BY <1>a, <1>b DEF HostInv, Over
<1>7. RecoveryPoint'
  BY <1>a, <1>b, <1>c DEF RecoveryPoint, Point
<1>8. NothingLost'
  BY <1>a, <1>1, DockerSame DEF docker
<1>9. Replacing'
  BY <1>a, <1>b DEF HostInv, Replacing, Point
<1>10. Restoring'
  BY <1>a, <1>b, <1>c DEF Restoring, Point
<1> QED
  BY <1>1, <1>2, <1>3, <1>4, <1>5, <1>6, <1>7, <1>8, <1>9, <1>10 DEF HostInv

LEMMA PruneKeeps ==
    ASSUME HostInv, Prune
    PROVE  HostInv'
<1>a. /\ pc = "prune" /\ pc' = "remove"
      /\ \/ volumes' = [n \in Name |-> IF n = op.backup THEN volumes[n] ELSE None]
         \/ \E gone \in SUBSET (Name \ {op.backup}) :
               volumes' = [n \in Name |-> IF n \in gone THEN None ELSE volumes[n]]
      /\ waived' = waived \cup (Kept(volumes) \ Kept(volumes'))
      /\ UNCHANGED <<job, starting, settling>>
      /\ UNCHANGED <<journal, op, host, live, names, updates, written, base>>
      /\ faults' = faults \/ (faults < MaxFaults /\ faults' = faults + 1)
  BY DEF Prune, Fault, Works, Replaces, Asks, Goto
<1>b. /\ op \in Operation /\ op = journal /\ op.stage \in Swapped /\ Point(op) /\ op.backup \in Name
  <2>1. op \in Operation /\ op = journal /\ op.stage \in Swapped /\ Point(op)
    BY <1>a DEF HostInv, TypeOK, Replacing, Swapped
  <2> QED
    BY <2>1 DEF Operation, Point
<1>c. /\ volumes' \in [Name -> Workspace \cup {None}]
      /\ \A n \in Name : volumes'[n] \in {volumes[n], None}
      /\ volumes'[op.backup] = volumes[op.backup]
  BY <1>a, <1>b DEF HostInv, TypeOK
<1>d. /\ Kept(volumes)' = Kept(volumes')
      /\ Kept(volumes) \subseteq 1..MaxWrites
  <2>1. Kept(volumes)' = Kept(volumes')
    BY <1>a DEF Kept
  <2>2. Kept(volumes) \subseteq 1..MaxWrites
    BY KeptIs DEF HostInv, TypeOK, Workspace
  <2> QED
    BY <2>1, <2>2
<1>1. TypeOK'
  <2>1. waived' \subseteq 1..MaxWrites
    BY <1>a, <1>d DEF HostInv, TypeOK
  <2>2. faults' \in 0..MaxFaults
    BY <1>a, HostUpdateAssumption DEF HostInv, TypeOK
  <2> QED
    BY <1>a, <2>1, <2>2 DEF HostInv, TypeOK, Labels
<1>2. Unnamed'
  BY <1>a DEF HostInv, Unnamed
<1>3. HostFits'
  BY <1>a DEF HostInv, HostFits
<1>4. Intact'
  BY <1>a DEF HostInv, Intact, Away
<1>5. FirstFits'
  BY <1>a, <1>b, NoneIsNothing DEF FirstFits
<1>6. Over'
  BY <1>a DEF HostInv, Over
<1>7. RecoveryPoint'
  BY <1>a, <1>b DEF HostInv, RecoveryPoint
<1>8. NothingLost'
  <2>1. \A x : x \in Kept(volumes) => x \in Kept(volumes)' \/ x \in waived'
    BY <1>a, <1>d
  <2> QED
    BY <1>a, <1>1, <2>1, KeptOn
<1>9. Replacing'
  BY <1>a, <1>c DEF HostInv, Replacing, Point
<1>10. Restoring'
  BY <1>a DEF Restoring
<1> QED
  BY <1>1, <1>2, <1>3, <1>4, <1>5, <1>6, <1>7, <1>8, <1>9, <1>10 DEF HostInv

LEMMA RemoveKeeps ==
    ASSUME HostInv, Remove
    PROVE  HostInv'
<1>a. /\ pc = "remove"
      /\ \/ host' = None /\ pc' = "create"
         \/ host' \in {host, None} /\ pc' = "restore"
      /\ UNCHANGED <<job, starting, settling>>
      /\ UNCHANGED <<journal, op, live, volumes, names, updates, written, base, waived>>
      /\ faults' = faults \/ (faults < MaxFaults /\ faults' = faults + 1)
  BY DEF HostInv, Replacing, Swapped, Remove, Counts, Fault, Works, Replaces, Asks, Goto, Errs
<1>b. /\ op \in Operation /\ op = journal /\ op.stage \in Swapped /\ Point(op) /\ op.backup \in Name
  <2>1. op \in Operation /\ op = journal /\ op.stage \in Swapped /\ Point(op)
    BY <1>a DEF HostInv, TypeOK, Replacing, Swapped
  <2> QED
    BY <2>1 DEF Operation, Point
<1>1. TypeOK'
  BY <1>a, HostUpdateAssumption DEF HostInv, TypeOK, Labels
<1>2. Unnamed'
  BY <1>a DEF HostInv, Unnamed
<1>3. HostFits'
  BY <1>a DEF HostInv, HostFits
<1>4. Intact'
  BY <1>a DEF HostInv, Intact, Away
<1>5. FirstFits'
  BY <1>a, <1>b, NoneIsNothing DEF FirstFits
<1>6. Over'
  BY <1>a, <1>b DEF Over, Swapped
<1>7. RecoveryPoint'
  BY <1>a DEF HostInv, RecoveryPoint
<1>8. NothingLost'
  BY <1>a, <1>1, RunKeepsAll
<1>9. Replacing'
  BY <1>a DEF HostInv, Replacing, Point, HostFits
<1>10. Restoring'
  BY <1>a, <1>b, NoneIsNothing DEF Restoring, Point
<1> QED
  BY <1>1, <1>2, <1>3, <1>4, <1>5, <1>6, <1>7, <1>8, <1>9, <1>10 DEF HostInv

LEMMA CreateKeeps ==
    ASSUME HostInv, Create
    PROVE  HostInv'
<1>a. /\ pc = "create" /\ host = None
      /\ Runs(op.target) \/ UNCHANGED <<host, live>>
      /\ (pc' = "created" /\ Runs(op.target)) \/ pc' = "restore"
      /\ UNCHANGED <<job, starting, settling>>
      /\ UNCHANGED <<journal, op, volumes, names, updates, written, base, waived>>
      /\ faults' = faults \/ (faults < MaxFaults /\ faults' = faults + 1)
  BY DEF HostInv, Replacing, Create, MayRun, Counts, Fault, Works, Replaces, Asks, Goto
<1>b. /\ op \in Operation /\ op = journal /\ op.stage \in Swapped /\ Point(op) /\ op.backup \in Name
  <2>1. op \in Operation /\ op = journal /\ op.stage \in Swapped /\ Point(op)
    BY <1>a DEF HostInv, TypeOK, Replacing, Swapped
  <2> QED
    BY <2>1 DEF Operation, Point
<1>c. /\ op.target \in Image /\ live.whole /\ live.by <= op.target
  <2>1. op.target \in Image /\ op.target \in Nat /\ op.previous \in Image \cup {None} /\ live.by \in Nat
    BY <1>b DEF HostInv, TypeOK, Operation, Image, Workspace
  <2>2. op.previous \in Nat /\ live.by <= op.previous /\ op.previous < op.target
    BY <1>a, <2>1 DEF HostInv, Replacing, Point, Image
  <2>3. live.whole
    BY <1>b DEF HostInv, Intact, Away, Swapped
  <2> QED
    BY <2>1, <2>2, <2>3
<1>d. /\ host' \in Container \cup {None} /\ live' \in Workspace
      /\ live'.whole = live.whole /\ live'.work = live.work
      /\ host' # None => live'.by <= host'.image
      /\ Runs(op.target) => host' # None /\ host'.image = op.target
  BY <1>a, <1>c, RunOrNot
<1>1. TypeOK'
  BY <1>a, <1>d, HostUpdateAssumption DEF HostInv, TypeOK, Labels
<1>2. Unnamed'
  BY <1>a DEF HostInv, Unnamed
<1>3. HostFits'
  BY <1>c, <1>d DEF HostFits
<1>4. Intact'
  BY <1>a, <1>d DEF HostInv, Intact, Away
<1>5. FirstFits'
  BY <1>a, <1>b, NoneIsNothing DEF FirstFits
<1>6. Over'
  BY <1>a DEF HostInv, Over
<1>7. RecoveryPoint'
  BY <1>a DEF HostInv, RecoveryPoint
<1>8. NothingLost'
  BY <1>a, <1>d, <1>1, RunKeepsAll
<1>9. Replacing'
  BY <1>a, <1>d DEF HostInv, Replacing, Point
<1>10. Restoring'
  BY <1>a, <1>b, NoneIsNothing DEF Restoring, Point
<1> QED
  BY <1>1, <1>2, <1>3, <1>4, <1>5, <1>6, <1>7, <1>8, <1>9, <1>10 DEF HostInv

LEMMA VerifyingKeeps ==
    ASSUME HostInv, Verifying
    PROVE  HostInv'
<1>a. /\ pc = "created" /\ op' = At("verifying")
      /\ \/ journal' = op' /\ pc' = "verify"
         \/ journal' \in {journal, op'} /\ pc' = "restore"
      /\ UNCHANGED <<job, starting, settling>>
      /\ UNCHANGED <<host, live, volumes, updates, written, base, waived, names>>
      /\ faults' = faults \/ (faults < MaxFaults /\ faults' = faults + 1)
  BY DEF Verifying, Replaces, Asks, Goto, Record, Unrecorded, docker, Counts, Fault, Works
<1>b. /\ At("verifying") \in Operation /\ At("verifying") # None /\ At("verifying").stage = "verifying"
      /\ At("verifying").backup = op.backup /\ At("verifying").previous = op.previous /\ At("verifying").target = op.target
      /\ op \in Operation
  BY <1>a, AtStage DEF HostInv, Replacing, Stage
<1>c. /\ op \in Operation /\ op = journal /\ op.stage \in Swapped /\ Point(op) /\ op.backup \in Name
  <2>1. op \in Operation /\ op = journal /\ op.stage \in Swapped /\ Point(op)
    BY <1>a DEF HostInv, TypeOK, Replacing, Swapped
  <2> QED
    BY <2>1 DEF Operation, Point
<1>1. TypeOK'
  BY <1>a, <1>b, HostUpdateAssumption DEF HostInv, TypeOK, Labels
<1>2. Unnamed'
  BY <1>a DEF HostInv, Unnamed
<1>3. HostFits'
  BY <1>a, <1>1, DockerSame DEF docker
<1>4. Intact'
  BY <1>a, <1>c DEF HostInv, Intact, Away, Swapped
<1>5. FirstFits'
  BY <1>a, <1>b, <1>c, NoneIsNothing DEF FirstFits, Swapped
<1>6. Over'
  BY <1>a, <1>b DEF HostInv, Over
<1>7. RecoveryPoint'
  BY <1>a, <1>b, <1>c DEF RecoveryPoint, Point
<1>8. NothingLost'
  BY <1>a, <1>1, DockerSame DEF docker
<1>9. Replacing'
  BY <1>a, <1>b DEF HostInv, Replacing, Point
<1>10. Restoring'
  BY <1>a, <1>b, <1>c DEF Restoring, Point
<1> QED
  BY <1>1, <1>2, <1>3, <1>4, <1>5, <1>6, <1>7, <1>8, <1>9, <1>10 DEF HostInv

LEMMA VerifyKeeps ==
    ASSUME HostInv, Verify
    PROVE  HostInv'
<1>a. /\ pc = "verify" /\ (pc' = "conclude" \/ pc' = "restore")
      /\ UNCHANGED <<journal, op>>
      /\ UNCHANGED <<job, starting, settling>>
      /\ UNCHANGED <<host, live, volumes, updates, written, base, waived, names>>
      /\ faults' = faults \/ (faults < MaxFaults /\ faults' = faults + 1)
  BY DEF Verify, Replaces, Asks, Goto, docker, Counts, Fault, Works
<1>b. /\ op \in Operation /\ op = journal /\ op.stage \in Swapped /\ Point(op) /\ op.backup \in Name
  <2>1. op \in Operation /\ op = journal /\ op.stage \in Swapped /\ Point(op)
    BY <1>a DEF HostInv, TypeOK, Replacing, Swapped
  <2> QED
    BY <2>1 DEF Operation, Point
<1>1. TypeOK'
  BY <1>a, HostUpdateAssumption DEF HostInv, TypeOK, Labels
<1>2. Unnamed'
  BY <1>a DEF HostInv, Unnamed
<1>3. HostFits'
  BY <1>a, <1>1, DockerSame DEF docker
<1>4. Intact'
  BY <1>a DEF HostInv, Intact, Away
<1>5. FirstFits'
  BY <1>a, <1>b, NoneIsNothing DEF FirstFits
<1>6. Over'
  BY <1>a DEF HostInv, Over
<1>7. RecoveryPoint'
  BY <1>a DEF HostInv, RecoveryPoint
<1>8. NothingLost'
  BY <1>a, <1>1, DockerSame DEF docker
<1>9. Replacing'
  BY <1>a DEF HostInv, Replacing, Point
<1>10. Restoring'
  BY <1>a, <1>b, NoneIsNothing DEF Restoring, Point
<1> QED
  BY <1>1, <1>2, <1>3, <1>4, <1>5, <1>6, <1>7, <1>8, <1>9, <1>10 DEF HostInv

LEMMA ConcludeKeeps ==
    ASSUME HostInv, Conclude
    PROVE  HostInv'
<1>a. /\ pc = "conclude"
      /\ \/ journal' = At("updated") /\ op' = None /\ pc' = "idle"
         \/ journal' \in {journal, At("updated")} /\ op' = At("updated") /\ pc' = "cancel"
      /\ UNCHANGED <<job, starting, settling>>
      /\ UNCHANGED <<host, live, volumes, updates, written, base, waived, names>>
      /\ faults' = faults \/ (faults < MaxFaults /\ faults' = faults + 1)
  BY DEF Conclude, Replaces, Asks, Goto, Record, Unrecorded, Rest, docker, Counts, Fault, Works
<1>b. /\ At("updated") \in Operation /\ At("updated") # None /\ At("updated").stage = "updated"
      /\ At("updated").backup = op.backup /\ At("updated").previous = op.previous /\ At("updated").target = op.target
      /\ op \in Operation
  BY <1>a, AtStage DEF HostInv, Replacing, Stage
<1>c. /\ op \in Operation /\ op = journal /\ op.stage \in Swapped /\ Point(op) /\ op.backup \in Name
  <2>1. op \in Operation /\ op = journal /\ op.stage \in Swapped /\ Point(op)
    BY <1>a DEF HostInv, TypeOK, Replacing, Swapped
  <2> QED
    BY <2>1 DEF Operation, Point
<1>1. TypeOK'
  BY <1>a, <1>b, HostUpdateAssumption DEF HostInv, TypeOK, Labels
<1>2. Unnamed'
  BY <1>a DEF HostInv, Unnamed
<1>3. HostFits'
  BY <1>a, <1>1, DockerSame DEF docker
<1>4. Intact'
  BY <1>a, <1>c DEF HostInv, Intact, Away, Swapped
<1>5. FirstFits'
  BY <1>a DEF HostInv, FirstFits, Replacing
<1>6. Over'
  BY <1>a, <1>b DEF HostInv, Over, Replacing
<1>7. RecoveryPoint'
  BY <1>a, <1>b, <1>c, NoneIsNothing DEF HostInv, RecoveryPoint
<1>8. NothingLost'
  BY <1>a, <1>1, DockerSame DEF docker
<1>9. Replacing'
  BY <1>a, <1>b DEF HostInv, Replacing, Away
<1>10. Restoring'
  BY <1>a DEF Restoring
<1> QED
  BY <1>1, <1>2, <1>3, <1>4, <1>5, <1>6, <1>7, <1>8, <1>9, <1>10 DEF HostInv

LEMMA CancelKeeps ==
    ASSUME HostInv, Cancel
    PROVE  HostInv'
<1>a. /\ pc = "cancel" /\ pc' = "idle" /\ op' = None
      /\ journal' \in {journal, At("canceled")}
      /\ UNCHANGED <<job, starting, settling>>
      /\ UNCHANGED <<host, live, volumes, updates, written, base, waived, names>>
      /\ faults' = faults \/ (faults < MaxFaults /\ faults' = faults + 1)
  BY DEF Cancel, Replaces, Asks, Record, Unrecorded, Rest, docker, Counts, Fault, Works
<1>b. /\ At("canceled") \in Operation /\ At("canceled") # None /\ At("canceled").stage = "canceled"
      /\ At("canceled").backup = op.backup /\ At("canceled").previous = op.previous /\ At("canceled").target = op.target
      /\ op \in Operation
  BY <1>a, AtStage DEF HostInv, Replacing, Stage
<1>1. TypeOK'
  BY <1>a, <1>b, HostUpdateAssumption DEF HostInv, TypeOK, Labels
<1>2. Unnamed'
  BY <1>a DEF HostInv, Unnamed
<1>3. HostFits'
  BY <1>a, <1>1, DockerSame DEF docker
<1>4. Intact'
  BY <1>a DEF HostInv, Intact, Replacing
<1>5. FirstFits'
  BY <1>a DEF HostInv, FirstFits, Replacing
<1>6. Over'
  BY <1>a, <1>b DEF HostInv, Over
<1>7. RecoveryPoint'
  BY <1>a, <1>b DEF HostInv, RecoveryPoint, Swapped
<1>8. NothingLost'
  BY <1>a, <1>1, DockerSame DEF docker
<1>9. Replacing'
  BY <1>a DEF Replacing
<1>10. Restoring'
  BY <1>a DEF Restoring
<1> QED
  BY <1>1, <1>2, <1>3, <1>4, <1>5, <1>6, <1>7, <1>8, <1>9, <1>10 DEF HostInv

LEMMA RestoreKeeps ==
    ASSUME HostInv, Restore
    PROVE  HostInv'
<1>a. /\ pc = "restore"
      /\ \/ journal' = At("restoring") /\ op' = At("restoring") /\ pc' = "clear"
         \/ journal' \in {journal, At("restoring")} /\ op' = None /\ pc' = "idle"
      /\ UNCHANGED <<job, starting, settling>>
      /\ UNCHANGED <<host, live, volumes, updates, written, base, waived, names>>
      /\ faults' = faults \/ (faults < MaxFaults /\ faults' = faults + 1)
  BY DEF Restore, Replaces, Asks, Goto, Record, Unrecorded, Rest, docker, Counts, Fault, Works
<1>b. /\ At("restoring") \in Operation /\ At("restoring") # None /\ At("restoring").stage = "restoring"
      /\ At("restoring").backup = op.backup /\ At("restoring").previous = op.previous /\ At("restoring").target = op.target
      /\ op \in Operation
  BY <1>a, AtStage DEF HostInv, Restoring, Stage
<1>1. TypeOK'
  BY <1>a, <1>b, HostUpdateAssumption DEF HostInv, TypeOK, Labels
<1>2. Unnamed'
  BY <1>a DEF HostInv, Unnamed
<1>3. HostFits'
  BY <1>a, <1>1, DockerSame DEF docker
<1>4. Intact'
  BY <1>a, <1>b DEF HostInv, Intact, Away
<1>5. FirstFits'
  BY <1>a, <1>b DEF HostInv, FirstFits
<1>6. Over'
  BY <1>a, <1>b DEF HostInv, Over
<1>7. RecoveryPoint'
  BY <1>a, <1>b DEF HostInv, RecoveryPoint, Restoring, Point
<1>8. NothingLost'
  BY <1>a, <1>1, DockerSame DEF docker
<1>9. Replacing'
  BY <1>a DEF Replacing
<1>10. Restoring'
  BY <1>a, <1>b DEF HostInv, Restoring, Point
<1> QED
  BY <1>1, <1>2, <1>3, <1>4, <1>5, <1>6, <1>7, <1>8, <1>9, <1>10 DEF HostInv

LEMMA ClearKeeps ==
    ASSUME HostInv, Clear
    PROVE  HostInv'
<1>a. /\ pc = "clear"
      /\ \/ host' = None /\ pc' = "aside"
         \/ host' \in {host, None} /\ pc' = "giveUp"
      /\ UNCHANGED <<job, starting, settling>>
      /\ UNCHANGED <<journal, op, live, volumes, names, updates, written, base, waived>>
      /\ faults' = faults \/ (faults < MaxFaults /\ faults' = faults + 1)
  BY DEF Clear, GivesUp, Counts, Fault, Works, Replaces, Asks, Goto
<1>b. /\ op \in Operation /\ op.stage = "restoring" /\ Point(op) /\ op.backup \in Name /\ op.previous \in Image
      /\ journal \in Operation /\ journal # None /\ journal.stage = "restoring"
      /\ journal.backup = op.backup /\ journal.previous = op.previous
  <2>1. /\ op \in Operation /\ op.stage = "restoring" /\ Point(op) /\ journal \in Operation /\ journal # None
        /\ journal.stage = "restoring" /\ journal.backup = op.backup /\ journal.previous = op.previous
    BY <1>a DEF HostInv, TypeOK, Restoring
  <2> QED
    BY <2>1 DEF Operation, Point
<1>1. TypeOK'
  BY <1>a, HostUpdateAssumption DEF HostInv, TypeOK, Labels
<1>2. Unnamed'
  BY <1>a DEF HostInv, Unnamed
<1>3. HostFits'
  BY <1>a DEF HostInv, HostFits
<1>4. Intact'
  BY <1>a, <1>b DEF Intact, Away
<1>5. FirstFits'
  BY <1>a, <1>b DEF FirstFits
<1>6. Over'
  BY <1>a, <1>b DEF Over
<1>7. RecoveryPoint'
  BY <1>a DEF HostInv, RecoveryPoint
<1>8. NothingLost'
  BY <1>a, <1>1, RunKeepsAll
<1>9. Replacing'
  BY <1>a DEF Replacing
<1>10. Restoring'
  BY <1>a, <1>b, NoneIsNothing DEF Restoring, Point
<1> QED
  BY <1>1, <1>2, <1>3, <1>4, <1>5, <1>6, <1>7, <1>8, <1>9, <1>10 DEF HostInv

LEMMA AsideKeeps ==
    ASSUME HostInv, Aside
    PROVE  HostInv'
<1>a. /\ pc = "aside" /\ names < MaxNames /\ names' = names + 1
      /\ \/ volumes' = [volumes EXCEPT ![names + 1] = Torn] /\ pc' = "asiding"
         \/ volumes' = volumes /\ pc' = "giveUp"
      /\ UNCHANGED <<job, starting, settling>>
      /\ UNCHANGED <<journal, op, host, live, updates, written, base, waived>>
      /\ faults' = faults \/ (faults < MaxFaults /\ faults' = faults + 1)
  BY DEF Aside, GivesUp, Fault, Works, Replaces, Asks, Goto
<1>b. /\ op \in Operation /\ op.stage = "restoring" /\ Point(op) /\ op.backup \in Name /\ op.previous \in Image
      /\ journal \in Operation /\ journal # None /\ journal.stage = "restoring"
      /\ journal.backup = op.backup /\ journal.previous = op.previous
  <2>1. /\ op \in Operation /\ op.stage = "restoring" /\ Point(op) /\ journal \in Operation /\ journal # None
        /\ journal.stage = "restoring" /\ journal.backup = op.backup /\ journal.previous = op.previous
    BY <1>a DEF HostInv, TypeOK, Restoring
  <2> QED
    BY <2>1 DEF Operation, Point
<1>c. /\ names + 1 \in Name /\ names \in Nat /\ op.backup # names + 1 /\ volumes[names + 1] = None
      /\ Torn \in Workspace /\ ~Torn.whole
  <2>1. names + 1 \in Name /\ names \in Nat /\ names + 1 > names
    BY <1>a, HostUpdateAssumption DEF HostInv, TypeOK, Name
  <2>2. volumes[names + 1] = None
    BY <2>1 DEF HostInv, Unnamed
  <2>3. Torn \in Workspace /\ ~Torn.whole
    BY HostUpdateAssumption DEF Torn, Workspace
  <2> QED
    BY <1>b, <2>1, <2>2, <2>3 DEF Point
<1>1. TypeOK'
  BY <1>a, <1>c, HostUpdateAssumption DEF HostInv, TypeOK, Labels
<1>2. Unnamed'
  <2>1. \A n \in Name : n > names' => n > names /\ n # names + 1
    BY <1>a, <1>c DEF Name
  <2> QED
    BY <1>a, <2>1 DEF HostInv, TypeOK, Unnamed
<1>3. HostFits'
  BY <1>a DEF HostInv, HostFits
<1>4. Intact'
  BY <1>a, <1>b DEF Intact, Away
<1>5. FirstFits'
  BY <1>a, <1>b DEF FirstFits
<1>6. Over'
  BY <1>a, <1>b DEF Over
<1>7. RecoveryPoint'
  BY <1>a, <1>b, <1>c DEF HostInv, TypeOK, RecoveryPoint
<1>8. NothingLost'
  <2>1. \A x : x \in Kept(volumes) => x \in Kept(volumes)'
    BY <1>a, <1>c, <1>1, KeptIs, KeptIsNext DEF HostInv, TypeOK
  <2> QED
    BY <1>a, <1>1, <2>1, KeptOn
<1>9. Replacing'
  BY <1>a DEF Replacing
<1>10. Restoring'
  BY <1>a, <1>b, <1>c DEF HostInv, TypeOK, Restoring, Point
<1> QED
  BY <1>1, <1>2, <1>3, <1>4, <1>5, <1>6, <1>7, <1>8, <1>9, <1>10 DEF HostInv

LEMMA AsidedKeeps ==
    ASSUME HostInv, Asided
    PROVE  HostInv'
<1>a. /\ pc = "asiding" /\ host = None
      /\ \/ volumes' = [volumes EXCEPT ![names] = live] /\ pc' = "keep"
         \/ volumes' = volumes /\ pc' = "giveUp"
      /\ UNCHANGED <<job, starting, settling>>
      /\ UNCHANGED <<journal, op, host, live, names, updates, written, base, waived>>
      /\ faults' = faults \/ (faults < MaxFaults /\ faults' = faults + 1)
  BY DEF HostInv, Restoring, Asided, GivesUp, Counts, Fault, Works, Replaces, Asks, Goto
<1>b. /\ op \in Operation /\ op.stage = "restoring" /\ Point(op) /\ op.backup \in Name /\ op.previous \in Image
      /\ journal \in Operation /\ journal # None /\ journal.stage = "restoring"
      /\ journal.backup = op.backup /\ journal.previous = op.previous
  <2>1. /\ op \in Operation /\ op.stage = "restoring" /\ Point(op) /\ journal \in Operation /\ journal # None
        /\ journal.stage = "restoring" /\ journal.backup = op.backup /\ journal.previous = op.previous
    BY <1>a DEF HostInv, TypeOK, Restoring
  <2> QED
    BY <2>1 DEF Operation, Point
<1>c. /\ names \in Name /\ names \in Nat /\ op.backup # names /\ volumes[names] = Torn
      /\ ~Torn.whole
  <2>1. names \in Name /\ op.backup # names /\ volumes[names] = Torn
    BY <1>a DEF HostInv, Restoring
  <2> QED
    BY <2>1 DEF Torn, Name
<1>1. TypeOK'
  BY <1>a, HostUpdateAssumption DEF HostInv, TypeOK, Labels
<1>2. Unnamed'
  BY <1>a DEF HostInv, TypeOK, Unnamed
<1>3. HostFits'
  BY <1>a DEF HostFits
<1>4. Intact'
  BY <1>a, <1>b DEF Intact, Away
<1>5. FirstFits'
  BY <1>a, <1>b DEF FirstFits
<1>6. Over'
  BY <1>a, <1>b DEF Over
<1>7. RecoveryPoint'
  BY <1>a, <1>b, <1>c DEF HostInv, TypeOK, RecoveryPoint
<1>8. NothingLost'
  <2>1. \A x : x \in Kept(volumes) => x \in Kept(volumes)'
    BY <1>a, <1>c, <1>1, KeptIs, KeptIsNext DEF HostInv, TypeOK
  <2> QED
    BY <1>a, <1>1, <2>1, KeptOn
<1>9. Replacing'
  BY <1>a DEF Replacing
<1>10. Restoring'
  BY <1>a, <1>b DEF HostInv, TypeOK, Restoring, Point
<1> QED
  BY <1>1, <1>2, <1>3, <1>4, <1>5, <1>6, <1>7, <1>8, <1>9, <1>10 DEF HostInv

LEMMA KeepKeeps ==
    ASSUME HostInv, Keep
    PROVE  HostInv'
<1>a. /\ pc = "keep" /\ op' = [op EXCEPT !.preserved = names]
      /\ (journal' = op' /\ pc' = "wipe") \/ (journal' \in {journal, op'} /\ pc' = "giveUp")
      /\ UNCHANGED <<job, starting, settling>>
      /\ UNCHANGED <<host, live, volumes, updates, written, base, waived, names>>
      /\ faults' = faults \/ (faults < MaxFaults /\ faults' = faults + 1)
  BY DEF Keep, Replaces, Asks, Goto, Record, Unrecorded, docker, Counts, Fault, Works
<1>b. /\ op \in Operation /\ op.stage = "restoring" /\ Point(op) /\ op.backup \in Name /\ op.previous \in Image
      /\ journal \in Operation /\ journal # None /\ journal.stage = "restoring"
      /\ journal.backup = op.backup /\ journal.previous = op.previous
  <2>1. /\ op \in Operation /\ op.stage = "restoring" /\ Point(op) /\ journal \in Operation /\ journal # None
        /\ journal.stage = "restoring" /\ journal.backup = op.backup /\ journal.previous = op.previous
    BY <1>a DEF HostInv, TypeOK, Restoring
  <2> QED
    BY <2>1 DEF Operation, Point
<1>c. /\ op' \in Operation /\ op' # None /\ op'.stage = "restoring"
      /\ op'.backup = op.backup /\ op'.previous = op.previous
      /\ volumes[names] = live /\ names \in Name
  <2>1. volumes[names] = live /\ names \in Name
    BY <1>a DEF HostInv, Restoring
  <2>2. op' \in Operation
    BY <1>a, <1>b, <2>1 DEF Operation
  <2> QED
    BY <1>a, <1>b, <2>1, <2>2, NoneIsNothing
<1>d. live.whole => live.work \subseteq Held({volumes[n] : n \in Name})
  <2>1. live # None
    BY NoneIsNothing DEF HostInv, TypeOK
  <2> QED
    BY <1>c, <2>1 DEF Held
<1>1. TypeOK'
  BY <1>a, <1>c, HostUpdateAssumption DEF HostInv, TypeOK, Labels
<1>2. Unnamed'
  BY <1>a DEF HostInv, Unnamed
<1>3. HostFits'
  BY <1>a, <1>1, DockerSame DEF docker
<1>4. Intact'
  BY <1>a, <1>b, <1>c DEF Intact, Away
<1>5. FirstFits'
  BY <1>a, <1>b, <1>c DEF FirstFits
<1>6. Over'
  BY <1>a, <1>b, <1>c DEF Over
<1>7. RecoveryPoint'
  BY <1>a, <1>b, <1>c DEF RecoveryPoint, Point
<1>8. NothingLost'
  BY <1>a, <1>1, DockerSame DEF docker
<1>9. Replacing'
  BY <1>a DEF Replacing
<1>10. Restoring'
  <2>1. Held({volumes'[n] : n \in Name}) = Held({volumes[n] : n \in Name}) /\ live' = live
    BY <1>a
  <2>2. pc' = "wipe" => (live'.whole => live'.work \subseteq Held({volumes'[n] : n \in Name}))
    BY <1>d, <2>1
  <2> QED
    BY <1>a, <1>c, <2>2 DEF HostInv, Restoring, Point
<1> QED
  BY <1>1, <1>2, <1>3, <1>4, <1>5, <1>6, <1>7, <1>8, <1>9, <1>10 DEF HostInv

LEMMA WipeKeeps ==
    ASSUME HostInv, Wipe
    PROVE  HostInv'
<1>a. /\ pc = "wipe" /\ host = None
      /\ (live' = Torn /\ pc' = "fill") \/ (live' = live /\ pc' = "giveUp")
      /\ UNCHANGED <<job, starting, settling>>
      /\ UNCHANGED <<journal, op, host, volumes, names, updates, written, base, waived>>
      /\ faults' = faults \/ (faults < MaxFaults /\ faults' = faults + 1)
  BY DEF HostInv, Restoring, Wipe, GivesUp, Counts, Fault, Works, Replaces, Asks, Goto
<1>b. /\ op \in Operation /\ op.stage = "restoring" /\ Point(op) /\ op.backup \in Name /\ op.previous \in Image
      /\ journal \in Operation /\ journal # None /\ journal.stage = "restoring"
      /\ journal.backup = op.backup /\ journal.previous = op.previous
  <2>1. /\ op \in Operation /\ op.stage = "restoring" /\ Point(op) /\ journal \in Operation /\ journal # None
        /\ journal.stage = "restoring" /\ journal.backup = op.backup /\ journal.previous = op.previous
    BY <1>a DEF HostInv, TypeOK, Restoring
  <2> QED
    BY <2>1 DEF Operation, Point
<1>c. Torn \in Workspace /\ (live.whole => live.work \subseteq Held({volumes[n] : n \in Name}))
  <2>1. Torn \in Workspace
    BY HostUpdateAssumption DEF Torn, Workspace
  <2> QED
    BY <1>a, <2>1 DEF HostInv, Restoring
<1>1. TypeOK'
  BY <1>a, <1>c, HostUpdateAssumption DEF HostInv, TypeOK, Labels
<1>2. Unnamed'
  BY <1>a DEF HostInv, Unnamed
<1>3. HostFits'
  BY <1>a DEF HostFits
<1>4. Intact'
  BY <1>a, <1>b DEF Intact, Away
<1>5. FirstFits'
  BY <1>a, <1>b DEF FirstFits
<1>6. Over'
  BY <1>a, <1>b DEF Over
<1>7. RecoveryPoint'
  BY <1>a DEF HostInv, RecoveryPoint
<1>8. NothingLost'
  <2>1. ASSUME NEW x \in Kept(volumes) PROVE x \in Kept(volumes)'
    <3>1. CASE live.whole /\ x \in live.work
      <4>1. \E n \in Name : volumes[n] # None /\ volumes[n].whole /\ x \in volumes[n].work
        BY <1>c, <3>1 DEF Held
      <4> QED
        BY <1>a, <1>1, <4>1, KeptIsNext
    <3>2. CASE \E n \in Name : volumes[n] # None /\ volumes[n].whole /\ x \in volumes[n].work
      BY <1>a, <1>1, <3>2, KeptIsNext
    <3> QED
      BY <3>1, <3>2, KeptIs DEF HostInv
  <2> QED
    BY <1>a, <1>1, <2>1, KeptOn
<1>9. Replacing'
  BY <1>a DEF Replacing
<1>10. Restoring'
  BY <1>a, <1>b, NoneIsNothing DEF Restoring, Point
<1> QED
  BY <1>1, <1>2, <1>3, <1>4, <1>5, <1>6, <1>7, <1>8, <1>9, <1>10 DEF HostInv

LEMMA FillKeeps ==
    ASSUME HostInv, Fill
    PROVE  HostInv'
<1>a. /\ pc = "fill" /\ host = None /\ live = Torn
      /\ (live' = volumes[op.backup] /\ pc' = "revive") \/ (live' = live /\ pc' = "giveUp")
      /\ UNCHANGED <<job, starting, settling>>
      /\ UNCHANGED <<journal, op, host, volumes, names, updates, written, base, waived>>
      /\ faults' = faults \/ (faults < MaxFaults /\ faults' = faults + 1)
  BY DEF HostInv, Restoring, Fill, GivesUp, Counts, Fault, Works, Replaces, Asks, Goto
<1>b. /\ op \in Operation /\ op.stage = "restoring" /\ Point(op) /\ op.backup \in Name /\ op.previous \in Image
      /\ journal \in Operation /\ journal # None /\ journal.stage = "restoring"
      /\ journal.backup = op.backup /\ journal.previous = op.previous
  <2>1. /\ op \in Operation /\ op.stage = "restoring" /\ Point(op) /\ journal \in Operation /\ journal # None
        /\ journal.stage = "restoring" /\ journal.backup = op.backup /\ journal.previous = op.previous
    BY <1>a DEF HostInv, TypeOK, Restoring
  <2> QED
    BY <2>1 DEF Operation, Point
<1>c. ~Torn.whole /\ volumes[op.backup] \in Workspace
  BY <1>b DEF HostInv, TypeOK, Point, Torn
<1>1. TypeOK'
  BY <1>a, <1>c, HostUpdateAssumption DEF HostInv, TypeOK, Labels
<1>2. Unnamed'
  BY <1>a DEF HostInv, Unnamed
<1>3. HostFits'
  BY <1>a DEF HostFits
<1>4. Intact'
  BY <1>a, <1>b DEF Intact, Away
<1>5. FirstFits'
  BY <1>a, <1>b DEF FirstFits
<1>6. Over'
  BY <1>a, <1>b DEF Over
<1>7. RecoveryPoint'
  BY <1>a DEF HostInv, RecoveryPoint
<1>8. NothingLost'
  <2>1. \A x : x \in Kept(volumes) => x \in Kept(volumes)'
    BY <1>a, <1>c, <1>1, KeptIs, KeptIsNext DEF HostInv
  <2> QED
    BY <1>a, <1>1, <2>1, KeptOn
<1>9. Replacing'
  BY <1>a DEF Replacing
<1>10. Restoring'
  BY <1>a, <1>b, NoneIsNothing DEF Restoring, Point
<1> QED
  BY <1>1, <1>2, <1>3, <1>4, <1>5, <1>6, <1>7, <1>8, <1>9, <1>10 DEF HostInv

LEMMA ReviveKeeps ==
    ASSUME HostInv, Revive
    PROVE  HostInv'
<1>a. /\ pc = "revive" /\ host = None
      /\ Runs(op.previous) \/ UNCHANGED <<host, live>>
      /\ (pc' = "restored" /\ Runs(op.previous)) \/ pc' = "giveUp"
      /\ UNCHANGED <<job, starting, settling>>
      /\ UNCHANGED <<journal, op, volumes, names, updates, written, base, waived>>
      /\ faults' = faults \/ (faults < MaxFaults /\ faults' = faults + 1)
  BY DEF HostInv, Restoring, Revive, MayRun, Counts, Fault, Works, Replaces, Asks, Goto
<1>b. /\ op \in Operation /\ op.stage = "restoring" /\ Point(op) /\ op.backup \in Name /\ op.previous \in Image
      /\ journal \in Operation /\ journal # None /\ journal.stage = "restoring"
      /\ journal.backup = op.backup /\ journal.previous = op.previous
  <2>1. /\ op \in Operation /\ op.stage = "restoring" /\ Point(op) /\ journal \in Operation /\ journal # None
        /\ journal.stage = "restoring" /\ journal.backup = op.backup /\ journal.previous = op.previous
    BY <1>a DEF HostInv, TypeOK, Restoring
  <2> QED
    BY <2>1 DEF Operation, Point
<1>c. live.whole /\ live.work = base /\ live.by <= op.previous
  BY <1>a DEF HostInv, Restoring
<1>d. /\ host' \in Container \cup {None} /\ live' \in Workspace
      /\ live'.whole = live.whole /\ live'.work = live.work
      /\ host' # None => live'.by <= host'.image
      /\ Runs(op.previous) => host' # None /\ host'.image = op.previous
  BY <1>a, <1>b, <1>c, RunOrNot
<1>1. TypeOK'
  BY <1>a, <1>d, HostUpdateAssumption DEF HostInv, TypeOK, Labels
<1>2. Unnamed'
  BY <1>a DEF HostInv, Unnamed
<1>3. HostFits'
  BY <1>c, <1>d DEF HostFits
<1>4. Intact'
  BY <1>a, <1>c, <1>d DEF Intact
<1>5. FirstFits'
  BY <1>a, <1>b DEF FirstFits
<1>6. Over'
  BY <1>a, <1>b DEF Over
<1>7. RecoveryPoint'
  BY <1>a DEF HostInv, RecoveryPoint
<1>8. NothingLost'
  BY <1>a, <1>d, <1>1, RunKeepsAll
<1>9. Replacing'
  BY <1>a DEF Replacing
<1>10. Restoring'
  BY <1>a, <1>b, <1>c, <1>d, NoneIsNothing DEF Restoring, Point
<1> QED
  BY <1>1, <1>2, <1>3, <1>4, <1>5, <1>6, <1>7, <1>8, <1>9, <1>10 DEF HostInv

LEMMA RestoredKeeps ==
    ASSUME HostInv, Restored
    PROVE  HostInv'
<1>a. /\ pc = "restored" /\ op' = None
      /\ \/ journal' = At("restored") /\ pc' \in {"begin", "idle"}
         \/ journal' \in {journal, At("restored")} /\ pc' = "idle"
      /\ UNCHANGED <<job, starting, settling>>
      /\ UNCHANGED <<host, live, volumes, updates, written, base, waived, names>>
      /\ faults' = faults \/ (faults < MaxFaults /\ faults' = faults + 1)
  BY DEF Restored, Replaces, Asks, Goto, Record, Unrecorded, Rest, docker, Counts, Fault, Works
<1>b. /\ At("restored") \in Operation /\ At("restored") # None /\ At("restored").stage = "restored"
      /\ At("restored").backup = op.backup /\ At("restored").previous = op.previous /\ At("restored").target = op.target
      /\ op \in Operation
  BY <1>a, AtStage DEF HostInv, Restoring, Stage
<1>c. host # None /\ host.image = op.previous /\ base \subseteq live.work /\ live.whole
  BY <1>a DEF HostInv, Restoring, HostFits
<1>d. /\ op \in Operation /\ op.stage = "restoring" /\ Point(op) /\ op.backup \in Name /\ op.previous \in Image
      /\ journal \in Operation /\ journal # None /\ journal.stage = "restoring"
      /\ journal.backup = op.backup /\ journal.previous = op.previous
  <2>1. /\ op \in Operation /\ op.stage = "restoring" /\ Point(op) /\ journal \in Operation /\ journal # None
        /\ journal.stage = "restoring" /\ journal.backup = op.backup /\ journal.previous = op.previous
    BY <1>a DEF HostInv, TypeOK, Restoring
  <2> QED
    BY <2>1 DEF Operation, Point
<1>1. TypeOK'
  BY <1>a, <1>b, HostUpdateAssumption DEF HostInv, TypeOK, Labels
<1>2. Unnamed'
  BY <1>a DEF HostInv, Unnamed
<1>3. HostFits'
  BY <1>a, <1>1, DockerSame DEF docker
<1>4. Intact'
  BY <1>a, <1>c DEF Intact
<1>5. FirstFits'
  BY <1>a, <1>c DEF FirstFits
<1>6. Over'
  BY <1>a, <1>b, <1>c, <1>d DEF Over
<1>7. RecoveryPoint'
  BY <1>a, <1>b, <1>d DEF HostInv, RecoveryPoint
<1>8. NothingLost'
  BY <1>a, <1>1, DockerSame DEF docker
<1>9. Replacing'
  BY <1>a, <1>b DEF Replacing, Finished
<1>10. Restoring'
  BY <1>a DEF Restoring
<1> QED
  BY <1>1, <1>2, <1>3, <1>4, <1>5, <1>6, <1>7, <1>8, <1>9, <1>10 DEF HostInv

LEMMA GiveUpKeeps ==
    ASSUME HostInv, GiveUp
    PROVE  HostInv'
<1>a. /\ pc = "giveUp" /\ pc' = "idle" /\ op' = None
      /\ journal' \in {journal, At("recoveryNeeded")}
      /\ UNCHANGED <<job, starting, settling>>
      /\ UNCHANGED <<host, live, volumes, updates, written, base, waived, names>>
      /\ faults' = faults \/ (faults < MaxFaults /\ faults' = faults + 1)
  BY DEF GiveUp, Replaces, Asks, Record, Unrecorded, Rest, docker, Counts, Fault, Works
<1>b. /\ At("recoveryNeeded") \in Operation /\ At("recoveryNeeded") # None /\ At("recoveryNeeded").stage = "recoveryNeeded"
      /\ At("recoveryNeeded").backup = op.backup /\ At("recoveryNeeded").previous = op.previous /\ At("recoveryNeeded").target = op.target
      /\ op \in Operation
  BY <1>a, AtStage DEF HostInv, Restoring, Stage
<1>c. /\ op \in Operation /\ op.stage = "restoring" /\ Point(op) /\ op.backup \in Name /\ op.previous \in Image
      /\ journal \in Operation /\ journal # None /\ journal.stage = "restoring"
      /\ journal.backup = op.backup /\ journal.previous = op.previous
  <2>1. /\ op \in Operation /\ op.stage = "restoring" /\ Point(op) /\ journal \in Operation /\ journal # None
        /\ journal.stage = "restoring" /\ journal.backup = op.backup /\ journal.previous = op.previous
    BY <1>a DEF HostInv, TypeOK, Restoring
  <2> QED
    BY <2>1 DEF Operation, Point
<1>1. TypeOK'
  BY <1>a, <1>b, HostUpdateAssumption DEF HostInv, TypeOK, Labels
<1>2. Unnamed'
  BY <1>a DEF HostInv, Unnamed
<1>3. HostFits'
  BY <1>a, <1>1, DockerSame DEF docker
<1>4. Intact'
  BY <1>a, <1>b, <1>c DEF Intact, Away
<1>5. FirstFits'
  BY <1>a, <1>b, <1>c DEF FirstFits
<1>6. Over'
  BY <1>a, <1>b, <1>c DEF Over
<1>7. RecoveryPoint'
  BY <1>a, <1>b, <1>c DEF RecoveryPoint, Point
<1>8. NothingLost'
  BY <1>a, <1>1, DockerSame DEF docker
<1>9. Replacing'
  BY <1>a DEF Replacing
<1>10. Restoring'
  BY <1>a DEF Restoring
<1> QED
  BY <1>1, <1>2, <1>3, <1>4, <1>5, <1>6, <1>7, <1>8, <1>9, <1>10 DEF HostInv

LEMMA WorkKeeps ==
    ASSUME HostInv, Work
    PROVE  HostInv'
<1>a. /\ host # None /\ host.running /\ written < MaxWrites /\ written' = written + 1
      /\ live' = [live EXCEPT !.work = live.work \cup {written + 1}]
      /\ UNCHANGED <<journal, op, pc, job, settling, starting, host, volumes, names, updates, base, waived, faults>>
  BY DEF Work, manager
<1>b. /\ written + 1 \in 1..MaxWrites /\ written \in Nat /\ live' \in Workspace
      /\ live'.whole = live.whole /\ live.whole /\ live'.by = live.by
      /\ live'.work = live.work \cup {written + 1}
  <2>1. written + 1 \in 1..MaxWrites /\ written \in Nat /\ live \in Workspace
    BY <1>a, HostUpdateAssumption DEF HostInv, TypeOK
  <2>2. live' \in Workspace
    BY <1>a, <2>1 DEF Workspace
  <2> QED
    BY <1>a, <2>1, <2>2 DEF HostInv, HostFits
<1>1. TypeOK'
  BY <1>a, <1>b DEF HostInv, TypeOK
<1>2. Unnamed'
  BY <1>a DEF HostInv, Unnamed
<1>3. HostFits'
  BY <1>a DEF HostInv, HostFits
<1>4. Intact'
  BY <1>a DEF HostInv, Intact, Away
<1>5. FirstFits'
  BY <1>a DEF FirstFits
<1>6. Over'
  BY <1>a DEF HostInv, Over
<1>7. RecoveryPoint'
  BY <1>a DEF HostInv, RecoveryPoint
<1>8. NothingLost'
  <2>1. \A x : x \in Kept(volumes) => x \in Kept(volumes)'
    BY <1>a, <1>1, KeptIs, KeptIsNext DEF HostInv
  <2>2. written + 1 \in Kept(volumes)'
    BY <1>b, <1>1, KeptIsNext
  <2>3. 1..written' \subseteq 1..written \cup {written + 1}
    BY <1>a, <1>b
  <2> QED
    BY <1>a, <2>1, <2>2, <2>3 DEF HostInv, NothingLost
<1>9. Replacing'
  BY <1>a DEF HostInv, Replacing, Point, Away
<1>10. Restoring'
  BY <1>a DEF HostInv, Restoring, Point
<1> QED
  BY <1>1, <1>2, <1>3, <1>4, <1>5, <1>6, <1>7, <1>8, <1>9, <1>10 DEF HostInv

LEMMA CrashKeeps ==
    ASSUME HostInv, Crash
    PROVE  HostInv'
<1>a. /\ pc' = "idle" /\ op' = None /\ job' = None /\ settling' = FALSE /\ starting' = TRUE
      /\ UNCHANGED journal
      /\ UNCHANGED <<host, live, volumes, updates, written, base, waived, names>>
      /\ faults' = faults \/ (faults < MaxFaults /\ faults' = faults + 1)
  BY DEF Crash, Rest, docker, Counts, Fault
<1>1. TypeOK'
  <2>1. pc' \in Labels /\ op' \in Operation \cup {None} /\ settling' \in BOOLEAN /\ starting' \in BOOLEAN
    BY <1>a DEF Labels
  <2>2. faults' \in 0..MaxFaults
    BY <1>a, HostUpdateAssumption DEF HostInv, TypeOK
  <2> QED
    BY <1>a, <2>1, <2>2 DEF HostInv, TypeOK
<1>2. Unnamed'
  BY <1>a DEF HostInv, Unnamed
<1>3. HostFits'
  BY <1>a, <1>1, DockerSame DEF docker
<1>4. Intact'
  BY <1>a DEF HostInv, Intact, Away
<1>5. FirstFits'
  BY <1>a DEF HostInv, FirstFits
<1>6. Over'
  BY <1>a DEF HostInv, Over
<1>7. RecoveryPoint'
  BY <1>a DEF HostInv, RecoveryPoint
<1>8. NothingLost'
  BY <1>a, <1>1, DockerSame DEF docker
<1>9. Replacing'
  BY <1>a DEF Replacing
<1>10. Restoring'
  BY <1>a DEF Restoring
<1> QED
  BY <1>1, <1>2, <1>3, <1>4, <1>5, <1>6, <1>7, <1>8, <1>9, <1>10 DEF HostInv

-----------------------------------------------------------------------------
(* The steps together, and what follows from the invariant.                 *)

LEMMA InitHost == Init => HostInv
<1> SUFFICES ASSUME Init PROVE HostInv
  OBVIOUS
<1>1. TypeOK
  <2>1. live \in Workspace
    BY HostUpdateAssumption DEF Init, Workspace
  <2>2. volumes \in [Name -> Workspace \cup {None}] /\ pc \in Labels
    BY DEF Init, Labels
  <2>3. /\ names \in 0..MaxNames /\ updates \in 0..MaxUpdates
        /\ written \in 0..MaxWrites /\ faults \in 0..MaxFaults
    BY HostUpdateAssumption DEF Init
  <2> QED
    BY <2>1, <2>2, <2>3 DEF Init, TypeOK
<1>2. Unnamed /\ HostFits /\ Intact /\ FirstFits /\ Over /\ RecoveryPoint
  BY DEF Init, Unnamed, HostFits, Intact, FirstFits, Over, RecoveryPoint, First
<1>3. NothingLost
  BY DEF Init, NothingLost
<1>4. Replacing /\ Restoring
  BY DEF Init, Replacing, Restoring
<1> QED
  BY <1>1, <1>2, <1>3, <1>4 DEF HostInv

LEMMA StutterKeeps ==
    ASSUME HostInv, UNCHANGED vars
    PROVE  HostInv'
<1>1. UNCHANGED <<journal, op, pc, job, settling, starting, host, live, volumes, names, updates,
                  written, faults, base, waived>>
  BY DEF vars, manager, docker
<1>2. TypeOK' /\ Unnamed' /\ HostFits' /\ Intact' /\ FirstFits' /\ Over'
  BY <1>1 DEF HostInv, TypeOK, Unnamed, HostFits, Intact, Away, FirstFits, Over
<1>3. RecoveryPoint' /\ NothingLost'
  BY <1>1 DEF HostInv, RecoveryPoint, NothingLost, Kept
<1>4. Replacing' /\ Restoring'
  BY <1>1 DEF HostInv, Replacing, Restoring, Point, Away
<1> QED
  BY <1>2, <1>3, <1>4 DEF HostInv

LEMMA StepKeeps ==
    ASSUME HostInv, [Next]_vars
    PROVE  HostInv'
<1>1. CASE Settles
  BY <1>1, StartKeeps, SettleKeeps, ResumeKeeps, BeginKeeps, AdmitKeeps DEF Settles
<1>2. CASE Replace
  BY <1>2, DownloadKeeps, StopKeeps, NameBackupKeeps, CopyKeeps, CopiedKeeps, BackKeeps,
     CommitKeeps, PruneKeeps, RemoveKeeps, CreateKeeps, VerifyingKeeps, VerifyKeeps, ConcludeKeeps,
     CancelKeeps
     DEF Replace
<1>3. CASE Restores
  BY <1>3, RestoreKeeps, ClearKeeps, AsideKeeps, AsidedKeeps, KeepKeeps, WipeKeeps, FillKeeps,
     ReviveKeeps, RestoredKeeps, GiveUpKeeps
     DEF Restores
<1>4. CASE \E target \in Image : Update(target)
  BY <1>4, UpdateKeeps
<1>5. CASE Work \/ Crash
  BY <1>5, WorkKeeps, CrashKeeps
<1>6. CASE UNCHANGED vars
  BY <1>6, StutterKeeps
<1> QED
  BY <1>1, <1>2, <1>3, <1>4, <1>5, <1>6 DEF Next, Manager

(* Whatever Docker, the disk and the manager do, the journal, the host, the *)
(* workspace and its copies keep together: the inductive invariant the rest *)
(* follows from (host.rs).                                                  *)
THEOREM HostInvariant == Spec => []HostInv
<1>1. HostInv /\ [Next]_vars => HostInv'
  BY StepKeeps
<1> QED
  BY <1>1, InitHost, PTL DEF Spec

(* A host only ever runs over a whole workspace that no newer image has     *)
(* migrated, for any number of releases, updates and failures (replace,     *)
(* restore_unrecorded, settle).                                             *)
THEOREM HostsRunWhole == Spec => []RunsWhole
<1>1. HostInv => RunsWhole
  BY DEF HostInv, HostFits, RunsWhole
<1> QED
  BY <1>1, HostInvariant, PTL

(* While a swap or a restore is not over, there is a copy to go back to     *)
(* (replace, prune, restore).                                               *)
THEOREM ThereIsAWayBack == Spec => []RecoveryPoint
<1>1. HostInv => RecoveryPoint
  BY DEF HostInv
<1> QED
  BY <1>1, HostInvariant, PTL

(* What was written is in the workspace or in a whole copy, until an update *)
(* with a backup of its own prunes the copies (restore_unrecorded, prune).  *)
THEOREM NothingIsLost == Spec => []NothingLost
<1>1. HostInv => NothingLost
  BY DEF HostInv
<1> QED
  BY <1>1, HostInvariant, PTL

(* What the journal says is over is so, once the manager rests (settle,     *)
(* update, restore).                                                        *)
THEOREM TheLastWordIsTrue == Spec => []LastWord
<1>1. HostInv => LastWord
  BY DEF HostInv, Over, Intact, Away, LastWord, Finished
<1> QED
  BY <1>1, HostInvariant, PTL
=============================================================================
