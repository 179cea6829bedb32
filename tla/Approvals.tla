----------------------------- MODULE Approvals ------------------------------
(***************************************************************************)
(* Requests to the operator and the turns parked on them: park,            *)
(* ask_permission and ask_question, decide_approval and answer_question,   *)
(* release_parked under a stop or a drain (runtime/mod.rs, drain.rs), and  *)
(* the approvals table (db/store.rs).                                      *)
(*                                                                         *)
(* A request is a row, which only ever moves out of "pending", and a waker *)
(* held in memory.  Whoever moves the row wakes the turn next, as a step   *)
(* of its own.  The row comes first, then the waker, then the look for a   *)
(* stop: an operator, a stop or a drain may come between any two of them.  *)
(***************************************************************************)
EXTENDS FiniteSets

CONSTANTS
    Agent, Run, Request,
    By, Within,   \* the agent that makes a request, and in which run
    Action,       \* the protected actions
    For,          \* the action a request is for; any other value is a question
    Stands,       \* the actions a yes can stand for
    Nothing,      \* no request
    Drains,       \* may the host be stopped?
    Fails         \* bound: the requests the store may fail to close

ASSUME ApprovalsAssumption ==
    /\ By \in [Request -> Agent] /\ Within \in [Request -> Run]
    /\ Stands \subseteq Action /\ Nothing \notin Request
    /\ Drains \in BOOLEAN /\ Fails \subseteq Request

VARIABLES
    row,          \* the approvals table
    waiting,      \* requests whose waker is held
    woken,        \* requests whose waker has been sent
    settled,      \* requests whose row was just moved, their waker still to send
    missed,       \* history: requests in hand whose waker was looked for before it was held
    pc, asking,   \* of each agent: where park is, and with which request
    result,       \* what the turn made of a request
    stopped,      \* runs called off, or put down by a drain
    todo, sweeps, \* release_parked: what it read, and the runs it has yet to read
    failed        \* history: the requests the store failed to close

turns == <<pc, asking, result>>
wakers == <<waiting, woken, settled, missed>>
stops == <<stopped, todo, sweeps>>
vars == <<row, wakers, turns, stops, failed>>

Results == {"none", "granted", "refused", "answered", "unanswered", "calledoff"}
States == {"none", "pending", "allow", "always", "deny", "answered", "expired", "gone"}

(* Every variable keeps its type, and an agent is on one request of its own *)
(* at a time.                                                               *)
TypeOK ==
    /\ row \in [Request -> States]
    /\ waiting \subseteq Request /\ woken \subseteq Request
    /\ settled \subseteq Request /\ missed \subseteq Request
    /\ pc \in [Agent -> {"free", "calling", "asked", "armed", "parked", "late", "back"}]
    /\ asking \in [Agent -> Request \cup {Nothing}]
    /\ \A a \in Agent : IF pc[a] = "free" THEN asking[a] = Nothing
                                         ELSE asking[a] \in {k \in Request : By[k] = a}
    /\ result \in [Request -> Results]
    /\ stopped \subseteq Run /\ todo \subseteq Request /\ sweeps \subseteq stopped
    /\ failed \subseteq Request

Init ==
    /\ row = [k \in Request |-> "none"]
    /\ waiting = {} /\ woken = {} /\ settled = {} /\ missed = {}
    /\ pc = [a \in Agent |-> "free"]
    /\ asking = [a \in Agent |-> Nothing]
    /\ result = [k \in Request |-> "none"]
    /\ stopped = {} /\ todo = {} /\ sweeps = {} /\ failed = {}

Goto(a, l) == pc' = [pc EXCEPT ![a] = l]
\* Mutant of Ends: the turn goes on holding the request.
EndsHolding(a, x) ==
    /\ result' = [result EXCEPT ![asking[a]] = x]
    /\ Goto(a, "free") /\ UNCHANGED <<asking, missed>>

\* park returns, and its caller makes this of the request.
Ends(a, x) ==
    /\ result' = [result EXCEPT ![asking[a]] = x]
    /\ asking' = [asking EXCEPT ![a] = Nothing]
    /\ missed' = missed \ {asking[a]}
    /\ Goto(a, "free")

\* settle_approval: a row moves out of pending and never again.
Settle(k, s) == row[k] = "pending" /\ row' = [row EXCEPT ![k] = s]

\* Closing a request for the operator: it may have been answered, or not be written.
Expire(k) ==
    \/ Settle(k, "expired") /\ UNCHANGED failed
    \/ row[k] # "pending" /\ UNCHANGED <<row, failed>>
    \/ k \in Fails /\ row[k] = "pending" /\ failed' = failed \cup {k} /\ UNCHANGED row

-----------------------------------------------------------------------------
(* The turn (ask_permission, ask_question, park).                          *)

StandingGrant(k) ==
    For[k] \in Stands /\ \E j \in Request : By[j] = By[k] /\ For[j] = For[k] /\ row[j] = "always"

\* A tool call that will ask begins: run_turn looks for a stop between two of them.
SetOut(k) ==
    /\ pc[By[k]] = "free" /\ row[k] = "none" /\ result[k] = "none"
    /\ Within[k] \notin stopped
    /\ Goto(By[k], "calling")
    /\ asking' = [asking EXCEPT ![By[k]] = k]
    /\ UNCHANGED <<row, wakers, result, stops, failed>>

\* A standing yes is the only shortcut; otherwise the row is written, whether the
\* run has been called off meanwhile or not.
Ask(a) ==
    /\ pc[a] = "calling"
    /\ IF StandingGrant(asking[a])
         THEN Ends(a, "granted") /\ UNCHANGED <<row, waiting, woken, settled>>
         ELSE /\ row' = [row EXCEPT ![asking[a]] = "pending"]
              /\ Goto(a, "asked")
              /\ UNCHANGED <<wakers, asking, result>>
    /\ UNCHANGED <<stops, failed>>

Arm(a) ==
    /\ pc[a] = "asked"
    /\ waiting' = waiting \cup {asking[a]}
    /\ Goto(a, "armed")
    /\ UNCHANGED <<row, woken, settled, missed, asking, result, stops, failed>>

\* Mutant of Look: whoever arms its waker parks.
LookNever(a) ==
    /\ pc[a] = "armed"
    /\ Goto(a, "parked")
    /\ UNCHANGED <<row, wakers, asking, result, stops, failed>>

\* The mark is read after the waker is held, and before the turn parks.  A turn
\* called off here makes nothing of its request: park returns Ok(None).
Look(a) ==
    /\ pc[a] = "armed"
    /\ IF Within[asking[a]] \in stopped
         THEN /\ waiting' = waiting \ {asking[a]}
              /\ Expire(asking[a])
              /\ Ends(a, "calledoff")
         ELSE /\ Goto(a, "parked")
              /\ UNCHANGED <<row, waiting, missed, failed, asking, result>>
    /\ UNCHANGED <<woken, settled, stops>>

Wakes(a) ==
    /\ pc[a] = "parked" /\ asking[a] \in woken
    /\ woken' = woken \ {asking[a]}
    /\ Goto(a, "back")
    /\ UNCHANGED <<row, waiting, settled, missed, asking, result, stops, failed>>

\* APPROVAL_WINDOW closes ...
Window(a) ==
    /\ pc[a] = "parked" /\ asking[a] \notin woken
    /\ waiting' = waiting \ {asking[a]}
    /\ Goto(a, "late")
    /\ UNCHANGED <<row, woken, settled, missed, asking, result, stops, failed>>

\* Mutant of Late: nobody closes the row.
LateOpen(a) ==
    /\ pc[a] = "late"
    /\ Goto(a, "back")
    /\ UNCHANGED <<row, wakers, asking, result, stops, failed>>

\* Mutant of Late: a window that closed is nobody's answer.
LateUnanswered(a) ==
    /\ pc[a] = "late"
    /\ Expire(asking[a])
    /\ Ends(a, "unanswered")
    /\ UNCHANGED <<waiting, woken, settled, stops>>

\* ... and closes the request, unless an answer landed in this instant.
Late(a) ==
    /\ pc[a] = "late"
    /\ Expire(asking[a])
    /\ Goto(a, "back")
    /\ UNCHANGED <<wakers, asking, result, stops>>

Word(s) == CASE s \in {"allow", "always"} -> "granted"
             [] s = "deny" -> "refused"
             [] s = "answered" -> "answered"
             [] s \in {"none", "pending", "expired", "gone"} -> "unanswered"

\* The verdict is read back from the row.
Back(a) ==
    /\ pc[a] = "back"
    /\ Ends(a, Word(row[asking[a]]))
    /\ UNCHANGED <<row, waiting, woken, settled, stops, failed>>

-----------------------------------------------------------------------------
(* The operator.  Whoever has the id of a pending row may answer it, also   *)
(* before it is announced: a window that reads the rows sees it at once.    *)

\* Mutant of Moves: the row moves and nobody is woken.
MovesOnly(k, s) == Settle(k, s) /\ UNCHANGED settled

Moves(k, s) == Settle(k, s) /\ settled' = settled \cup {k}

\* decide_approval: an "always" for what cannot stand is a yes for this once.
Decide(k, d) ==
    /\ For[k] \in Action
    /\ Moves(k, IF d = "always" /\ For[k] \notin Stands THEN "allow" ELSE d)
    /\ UNCHANGED <<waiting, woken, missed, turns, stops, failed>>

AnswerQuestion(k) ==
    /\ For[k] \notin Action
    /\ Moves(k, "answered")
    /\ UNCHANGED <<waiting, woken, missed, turns, stops, failed>>

\* The turn of this request has written its row and holds no waker yet.
Unarmed(k) == asking[By[k]] = k /\ pc[By[k]] = "asked"

\* Whoever moved the row takes the waker, if it is held, and sends it.
Wake(k) ==
    /\ k \in settled
    /\ settled' = settled \ {k}
    /\ waiting' = waiting \ {k}
    /\ woken' = IF k \in waiting THEN woken \cup {k} ELSE woken
    /\ missed' = IF Unarmed(k) THEN missed \cup {k} ELSE missed
    /\ UNCHANGED <<row, turns, stops, failed>>

\* revoke_grant: the rows of a standing yes go.
Revoke(a, x) ==
    /\ \E k \in Request : By[k] = a /\ For[k] = x /\ row[k] = "always"
    /\ row' = [k \in Request |->
                 IF By[k] = a /\ For[k] = x /\ row[k] = "always" THEN "gone" ELSE row[k]]
    /\ UNCHANGED <<wakers, turns, stops, failed>>

\* stop_run: the run is marked, and then its requests are read.
StopRun(r) ==
    /\ r \notin stopped /\ \E a \in Agent : pc[a] # "free" /\ Within[asking[a]] = r
    /\ stopped' = stopped \cup {r} /\ sweeps' = sweeps \cup {r}
    /\ UNCHANGED <<row, wakers, turns, todo, failed>>

\* drain: every run is marked, and then every request is read.
Drain ==
    /\ Drains /\ stopped # Run
    /\ stopped' = Run /\ sweeps' = Run
    /\ UNCHANGED <<row, wakers, turns, todo, failed>>

\* release_parked.
Sweep(r) ==
    /\ r \in sweeps
    /\ sweeps' = sweeps \ {r}
    /\ todo' = todo \cup {k \in Request : Within[k] = r /\ row[k] = "pending"}
    /\ UNCHANGED <<row, wakers, turns, stopped, failed>>

\* What it cannot close it leaves alone, waker and all.
Close(k) ==
    /\ k \in todo
    /\ todo' = todo \ {k}
    /\ \/ Moves(k, "expired") /\ UNCHANGED failed
       \/ row[k] # "pending" /\ UNCHANGED <<row, settled, failed>>
       \/ /\ k \in Fails /\ row[k] = "pending"
          /\ failed' = failed \cup {k}
          /\ UNCHANGED <<row, settled>>
    /\ UNCHANGED <<waiting, woken, missed, turns, stopped, sweeps>>

\* The process goes, and the next one closes what nobody waits for any more
\* (expire_pending_approvals, before anything is served).
Restart ==
    /\ row' = [k \in Request |-> IF row[k] = "pending" THEN "expired" ELSE row[k]]
    /\ waiting' = {} /\ woken' = {} /\ settled' = {} /\ missed' = {}
    /\ pc' = [a \in Agent |-> "free"]
    /\ asking' = [a \in Agent |-> Nothing]
    /\ stopped' = {} /\ todo' = {} /\ sweeps' = {}
    /\ \E a \in Agent : pc[a] # "free"
    /\ UNCHANGED <<result, failed>>

Park(a) == Ask(a) \/ Arm(a) \/ Look(a) \/ Wakes(a) \/ Late(a) \/ Back(a)
Operator ==
    \/ \E k \in Request, d \in {"allow", "always", "deny"} : Decide(k, d)
    \/ \E k \in Request : AnswerQuestion(k)
    \/ \E a \in Agent, x \in Action : Revoke(a, x)
    \/ \E r \in Run : StopRun(r)

Next ==
    \/ \E k \in Request : SetOut(k) \/ Wake(k) \/ Close(k)
    \/ \E a \in Agent : Park(a) \/ Window(a)
    \/ \E r \in Run : Sweep(r)
    \/ Operator \/ Drain \/ Restart

Spec == Init /\ [][Next]_vars

\* Threads run on.  Nothing is assumed of the operator, nor of the window:
\* ten minutes are what an answer or a stop must not have to wait for.
Fairness ==
    /\ \A a \in Agent : WF_vars(Park(a))
    /\ WF_vars(\E k \in Request : Wake(k) \/ Close(k))
    /\ WF_vars(\E r \in Run : Sweep(r))

FairSpec == Spec /\ Fairness

-----------------------------------------------------------------------------
(* "A button that visibly said allowed allowed it" (ask_permission): what a   *)
(* turn made of a request is what its row says, whichever of an answer, the   *)
(* window, a stop and a restart came first; a yes without a row of its own    *)
(* was a standing one.  A turn called off before it parked makes nothing of   *)
(* its request, answered or not, and a row the store failed to close is       *)
(* answered too late.                                                         *)
VerdictIsTheRow ==
    \A k \in Request \ failed : result[k] \notin {"none", "calledoff"} =>
        /\ row[k] = "none" => result[k] = "granted" /\ For[k] \in Stands
        /\ row[k] = "gone" => result[k] \in {"granted", "unanswered"}
        /\ row[k] \notin {"none", "gone"} => result[k] = Word(row[k])

(* No button is live that answers nothing: a pending row has a turn that will *)
(* still read it (expire_pending_approvals, park), unless the store failed.   *)
NoDeadButtons ==
    \A k \in Request \ failed : row[k] = "pending" => asking[By[k]] = k

\* In park, with the row yet to be read back.
Parked(a) == pc[a] \in {"asked", "armed", "parked", "late"}

(* No wake-up is lost: a parked turn whose row has moved has been woken, or   *)
(* is about to be, and does not sit out the window.  The exception is an      *)
(* answer that came whole between the row and its waker ("missed").           *)
NoLostWake ==
    \A a \in Agent :
        pc[a] = "parked" /\ row[asking[a]] # "pending"
            => asking[a] \in settled \cup woken \cup missed

(* A stop or a drain closes every request of the runs it ends without the     *)
(* window, one whose row is written while it sweeps or after it too: no turn  *)
(* stays parked in a run that has been called off (release_parked, and park,  *)
(* which looks for the stop once its waker is held), unless the store failed, *)
(* or the request was answered already and the turn missed it.                *)
StopReleases ==
    \A a \in Agent : []<>(~Parked(a) \/ Within[asking[a]] \notin stopped
                            \/ asking[a] \in failed \cup missed)

=============================================================================
