-------------------------- MODULE RunLedgerProofs --------------------------
(* The books of RunLedger are exact, a conversation settles and is marked   *)
(* whole only when it is over, and what was reported is never replayed: for *)
(* every set of agents, conversations and messages, with any number of      *)
(* restarts, pauses and deletions, and with failing writes.  With a store   *)
(* that works, every message that was waiting or in hand when the process   *)
(* ended is accounted for (Accounted, below), and no conversation is picked *)
(* up of which such a message is missing.                                   *)
EXTENDS RunLedger, FiniteSetTheorems, TLAPS

\* Whose hands a message is in: an actor holds only what is addressed to it,
\* and nobody holds anything while no process runs.
Hands ==
    /\ \A a \in Agent :
         /\ \A e \in batch[a] : To[e] = a /\ place[e] = "held"
         /\ \A e \in off[a] : To[e] = a /\ place[e] = "held"
         /\ \A e \in taken[a] : To[e] = a /\ place[e] = "absorbed"
         /\ batch[a] \cap off[a] = {}
    /\ ~up => \A e \in Envelope : place[e] \notin Booked \cup {"absorbed"}
    /\ \A e \in rows : place[e] = "kept"

LedgerInv == TypeOK /\ Hands /\ BookingsExact

-----------------------------------------------------------------------------
\* Counting the live messages of a run: a finite set, and what is left of it
\* when some of them go or one arrives.
LEMMA LiveFinite ==
    ASSUME NEW r \in Run
    PROVE  IsFiniteSet(Live(r)) /\ Cardinality(Live(r)) \in Nat
<1>1. Live(r) \in SUBSET Envelope
  BY DEF Live, OfRun
<1>2. IsFiniteSet(Live(r))
  BY <1>1, FS_Subset, LedgerAssumption
<1> QED
  BY <1>2, FS_CardinalityType

LEMMA LiveLess ==
    ASSUME NEW r \in Run, NEW E \in SUBSET Live(r)
    PROVE  /\ Cardinality(E) \in Nat
           /\ Cardinality(E) <= Cardinality(Live(r))
           /\ Cardinality(Live(r) \ E) = Cardinality(Live(r)) - Cardinality(E)
<1>1. IsFiniteSet(Live(r)) /\ Cardinality(Live(r)) \in Nat
  BY LiveFinite
<1>2. IsFiniteSet(E) /\ Cardinality(E) <= Cardinality(Live(r))
  BY <1>1, FS_Subset
<1>3. Cardinality(E) \in Nat
  BY <1>2, FS_CardinalityType
<1>4. Live(r) \cap E = E
  OBVIOUS
<1>5. Cardinality(Live(r) \ E) = Cardinality(Live(r)) - Cardinality(Live(r) \cap E)
  BY <1>1, FS_Difference
<1> QED
  BY <1>2, <1>3, <1>4, <1>5

LEMMA LiveMore ==
    ASSUME NEW r \in Run, NEW e, e \notin Live(r)
    PROVE  Cardinality(Live(r) \cup {e}) = Cardinality(Live(r)) + 1
BY LiveFinite, FS_AddElement

\* track_inflight keeps the books: if exactly the messages of E leave the live
\* ones of run r, and no other run is touched, releasing E leaves them exact.
LEMMA ReleaseKeepsBooks ==
    ASSUME LedgerInv, NEW r \in Run, NEW E \in SUBSET Live(r), Release(r, E),
           Live(r)' = Live(r) \ E,
           \A q \in Run \ {r} : Live(q)' = Live(q)
    PROVE  BookingsExact' /\ outstanding' \in [Run -> Nat]
<1>1. /\ Cardinality(E) \in Nat
      /\ Cardinality(E) <= outstanding[r]
      /\ Cardinality(Live(r) \ E) = outstanding[r] - Cardinality(E)
  BY LiveLess DEF LedgerInv, BookingsExact
<1>2. outstanding \in [Run -> Nat]
  BY DEF LedgerInv, TypeOK
<1>3. outstanding' = [outstanding EXCEPT ![r] = outstanding[r] - Cardinality(E)]
  <2>1. outstanding' = [outstanding EXCEPT ![r] =
            IF outstanding[r] > Cardinality(E) THEN outstanding[r] - Cardinality(E) ELSE 0]
    BY DEF Release
  <2>2. outstanding[r] \in Nat
    BY <1>2
  <2>3. (IF outstanding[r] > Cardinality(E) THEN outstanding[r] - Cardinality(E) ELSE 0)
           = outstanding[r] - Cardinality(E)
    BY <1>1, <2>2
  <2> QED
    BY <2>1, <2>3
<1>4. outstanding'[r] = Cardinality(Live(r)')
  BY <1>1, <1>2, <1>3
<1>5. ASSUME NEW q \in Run, q # r
      PROVE  outstanding'[q] = Cardinality(Live(q)')
  BY <1>2, <1>3, <1>5 DEF LedgerInv, BookingsExact
<1> QED
  BY <1>1, <1>2, <1>3, <1>4, <1>5 DEF BookingsExact

\* The rest of what track_inflight touches keeps its type.
LEMMA ReleaseTypes ==
    ASSUME TypeOK, NEW r \in Run, NEW E, Release(r, E)
    PROVE  /\ stopped' \subseteq Run /\ whole' \subseteq Run
           /\ pending' \subseteq Envelope /\ settled' \in [Run -> Nat]
           /\ putDown' = putDown /\ rows' = rows
BY DEF Release, TypeOK
\* Nobody's books change when no message becomes live or stops being live.
LEMMA SameBooks ==
    ASSUME LedgerInv, outstanding' = outstanding,
           \A e \in Envelope : place'[e] \in Booked <=> place[e] \in Booked
    PROVE  BookingsExact'
<1>1. \A r \in Run : Live(r)' = Live(r)
  BY DEF Live, OfRun
<1> QED
  BY <1>1 DEF LedgerInv, BookingsExact

\* One message becomes live and is booked.
LEMMA BookOne ==
    ASSUME LedgerInv, NEW e \in Envelope, place[e] \notin Booked, NEW p \in Booked,
           place' = Moved({e}, p),
           outstanding' = [outstanding EXCEPT ![RunOf[e]] = @ + 1]
    PROVE  BookingsExact' /\ outstanding' \in [Run -> Nat]
<1>1. outstanding \in [Run -> Nat] /\ RunOf[e] \in Run
  BY LedgerAssumption DEF LedgerInv, TypeOK
<1>2. Live(RunOf[e])' = Live(RunOf[e]) \cup {e} /\ e \notin Live(RunOf[e])
  BY DEF Live, OfRun, Moved
<1>3. \A q \in Run \ {RunOf[e]} : Live(q)' = Live(q)
  BY DEF Live, OfRun, Moved
<1>4. outstanding'[RunOf[e]] = Cardinality(Live(RunOf[e])')
  BY <1>1, <1>2, LiveMore DEF LedgerInv, BookingsExact
<1>5. ASSUME NEW q \in Run, q # RunOf[e]
      PROVE  outstanding'[q] = Cardinality(Live(q)')
  BY <1>1, <1>3, <1>5 DEF LedgerInv, BookingsExact
<1> QED
  BY <1>1, <1>4, <1>5 DEF BookingsExact

\* The messages of E, all of run r and all live, are released and go to a place
\* in which nothing is booked, with some others that were not booked anyway.
LEMMA ReleaseMoved ==
    ASSUME LedgerInv, NEW r \in Run, NEW E \in SUBSET Live(r), Release(r, E),
           NEW F \in SUBSET Envelope, \A e \in F : place[e] \notin Booked,
           NEW p, p \notin Booked, place' = Moved(E \cup F, p)
    PROVE  BookingsExact' /\ outstanding' \in [Run -> Nat]
<1>1. Live(r)' = Live(r) \ E
  BY DEF Live, OfRun, Moved
<1>2. \A q \in Run \ {r} : Live(q)' = Live(q)
  BY DEF Live, OfRun, Moved
<1> QED
  BY <1>1, <1>2, ReleaseKeepsBooks

LEMMA OneIsLive ==
    ASSUME NEW e \in Envelope, place[e] \in Booked
    PROVE  RunOf[e] \in Run /\ {e} \in SUBSET Live(RunOf[e])
BY LedgerAssumption DEF Live, OfRun

-----------------------------------------------------------------------------
(* One lemma per kind of step.                                             *)

LEMMA OverInv ==
    ASSUME LedgerInv, up, NEW a \in Agent, NEW r \in Run, TurnOf(a, r),
           NEW l \in Control, Over(a, r, l)
    PROVE  LedgerInv'
<1> USE DEF LedgerInv
<1>1. batch[a] \in SUBSET Live(r)
  BY DEF TurnOf, Hands, Live, OfRun, Booked, TypeOK
<1>2. taken[a] \in SUBSET Envelope /\ \A e \in taken[a] : place[e] \notin Booked
  BY DEF Hands, TypeOK, Booked
<1>3. place' = Moved(batch[a] \cup taken[a], "ended") /\ "ended" \notin Booked
  BY DEF Over, Booked
<1>4. BookingsExact' /\ outstanding' \in [Run -> Nat]
  BY <1>1, <1>2, <1>3, ReleaseMoved DEF Over
<1>5. TypeOK'
  BY <1>3, <1>4, ReleaseTypes DEF Over, TypeOK, Moved, Place, Goto, agents
<1>6. Hands'
  BY <1>3, ReleaseTypes DEF Over, Hands, Moved, TypeOK, Booked
<1> QED
  BY <1>4, <1>5, <1>6

LEMMA EndTurnInv ==
    ASSUME LedgerInv, up, NEW a \in Agent, NEW r \in Run, TurnOf(a, r), EndTurn(a, r)
    PROVE  LedgerInv'
<1>1. "idle" \in Control
  BY DEF Control
<1> QED
  BY <1>1, OverInv DEF EndTurn

\* A booked message that leaves nobody's hands is released on its own: an
\* inbox that is gone (Queue), a deleted agent's queue (Orphan), a called-off
\* one (Sweep, EndCalledOff), one absorbed.
LEMMA ReleaseOne ==
    ASSUME LedgerInv, NEW e \in Envelope, place[e] \in Booked, Release(RunOf[e], {e}),
           NEW p \in Place, p \notin Booked, place' = Moved({e}, p)
    PROVE  /\ BookingsExact' /\ outstanding' \in [Run -> Nat]
           /\ stopped' \subseteq Run /\ whole' \subseteq Run
           /\ pending' \subseteq Envelope /\ settled' \in [Run -> Nat]
           /\ putDown' = putDown /\ rows' = rows
           /\ place' \in [Envelope -> Place]
<1>1. RunOf[e] \in Run /\ {e} \in SUBSET Live(RunOf[e])
  BY OneIsLive
<1>2. place' = Moved({e} \cup {}, p) /\ {} \in SUBSET Envelope
  OBVIOUS
<1>3. BookingsExact' /\ outstanding' \in [Run -> Nat]
  BY <1>1, <1>2, ReleaseMoved
<1>4. TypeOK
  BY DEF LedgerInv
<1>5. place' \in [Envelope -> Place]
  BY <1>4 DEF Moved, TypeOK
<1> QED
  BY <1>1, <1>3, <1>4, <1>5, ReleaseTypes

LEMMA DeliverInv ==
    ASSUME LedgerInv, NEW e \in Envelope, Deliver(e)
    PROVE  LedgerInv'
<1> USE DEF LedgerInv
<1>1. place[e] = "new" /\ place[e] \notin Booked /\ "posted" \in Booked
  BY DEF Deliver, MaySend, Booked
<1>2. BookingsExact' /\ outstanding' \in [Run -> Nat]
  BY <1>1, BookOne DEF Deliver
<1>3. TypeOK'
  BY <1>2 DEF Deliver, TypeOK, Moved, Place, Booked, actors, history, agents
<1>4. Hands'
  BY <1>1 DEF Deliver, MaySend, Hands, Moved, TypeOK, Booked, actors
<1> QED
  BY <1>2, <1>3, <1>4

LEMMA PickUpInv ==
    ASSUME LedgerInv, NEW e \in Envelope, PickUp(e)
    PROVE  LedgerInv'
<1> USE DEF LedgerInv
<1>1. place[e] = "recovered" /\ place[e] \notin Booked /\ "repicked" \in Booked
  BY DEF PickUp, Booked
<1>2. BookingsExact' /\ outstanding' \in [Run -> Nat]
  BY <1>1, BookOne DEF PickUp
<1>3. pickups' \in [Run -> Nat]
  <2>1. pickups \in [Run -> Nat] /\ RunOf[e] \in Run
    BY LedgerAssumption DEF TypeOK
  <2>2. pickups' = [pickups EXCEPT ![RunOf[e]] = pickups[RunOf[e]] + 1]
    BY DEF PickUp
  <2> QED
    BY <2>1, <2>2
<1>4. TypeOK'
  BY <1>2, <1>3 DEF PickUp, TypeOK, Moved, Place, Booked, actors, journal, agents
<1>5. Hands'
  BY <1>1 DEF PickUp, Hands, Moved, TypeOK, Booked, actors, journal
<1> QED
  BY <1>2, <1>4, <1>5

LEMMA DeliverKeptInv ==
    ASSUME LedgerInv, NEW e \in Envelope, DeliverKept(e)
    PROVE  LedgerInv'
<1> USE DEF LedgerInv
<1>1. \A d \in Envelope : place'[d] \in Booked <=> place[d] \in Booked
  BY DEF DeliverKept, MaySend, Moved, Booked
<1>2. BookingsExact'
  BY <1>1, SameBooks DEF DeliverKept
<1>3. TypeOK'
  BY LedgerAssumption DEF DeliverKept, TypeOK, Moved, Place, actors, history, agents
<1>4. Hands'
  BY DEF DeliverKept, MaySend, Hands, Moved, TypeOK, Booked, actors
<1> QED
  BY <1>2, <1>3, <1>4

LEMMA QueueInv ==
    ASSUME LedgerInv, NEW e \in Envelope, Queue(e)
    PROVE  LedgerInv'
<1> USE DEF LedgerInv
<1>1. place[e] \in {"posted", "repicked"} /\ place[e] \in Booked /\ up
  BY DEF Queue, Booked
<1>2. CASE To[e] \in gone \/ pc[To[e]] = "exited"
  <2>1. Release(RunOf[e], {e}) /\ place' = Moved({e}, "ended")
    BY <1>2 DEF Queue
  <2>2. "ended" \in Place /\ "ended" \notin Booked
    BY DEF Place, Booked
  <2>3. /\ BookingsExact' /\ outstanding' \in [Run -> Nat]
        /\ stopped' \subseteq Run /\ whole' \subseteq Run
        /\ pending' \subseteq Envelope /\ settled' \in [Run -> Nat]
        /\ putDown' = putDown /\ rows' = rows
        /\ place' \in [Envelope -> Place]
    BY <1>1, <2>1, <2>2, ReleaseOne
  <2>4. TypeOK'
    BY <1>2, <2>3 DEF Queue, TypeOK, actors, agents
  <2>5. Hands'
    BY <1>1, <1>2, <2>1, <2>3 DEF Queue, Hands, Moved, TypeOK, actors
  <2> QED
    BY <2>3, <2>4, <2>5
<1>3. CASE ~(To[e] \in gone \/ pc[To[e]] = "exited")
  <2>1. \A d \in Envelope : place'[d] \in Booked <=> place[d] \in Booked
    BY <1>1, <1>3 DEF Queue, Moved, Booked
  <2>2. BookingsExact'
    BY <1>3, <2>1, SameBooks DEF Queue, runs
  <2>3. TypeOK'
    BY <1>3 DEF Queue, TypeOK, Moved, Place, Booked, runs, actors, agents, journal, history
  <2>4. Hands'
    BY <1>1, <1>3 DEF Queue, Hands, Moved, TypeOK, actors, journal
  <2> QED
    BY <2>2, <2>3, <2>4
<1> QED
  BY <1>2, <1>3

LEMMA TakeInv ==
    ASSUME LedgerInv, NEW a \in Agent, NEW e \in Envelope, Take(a, e)
    PROVE  LedgerInv'
<1> USE DEF LedgerInv
<1>1. /\ place[e] = "queued" /\ To[e] = a /\ up
      /\ batch' = [batch EXCEPT ![a] = {e}] /\ place' = Moved({e}, "held")
  BY DEF Take, Inbox
<1>2. BookingsExact'
  <2>1. \A d \in Envelope : place'[d] \in Booked <=> place[d] \in Booked
    BY <1>1 DEF Moved, Booked
  <2> QED
    BY <2>1, SameBooks DEF Take, runs
<1>3. TypeOK'
  BY <1>1 DEF Take, TypeOK, Moved, Place, Booked, Control, Goto, runs, agents, journal, history
<1>4. Hands'
  BY <1>1 DEF Take, Hands, Moved, TypeOK, journal
<1> QED
  BY <1>2, <1>3, <1>4

LEMMA BeginInv ==
    ASSUME LedgerInv, NEW a \in Agent, Begin(a)
    PROVE  LedgerInv'
<1> USE DEF LedgerInv
<1>1. PICK B \in SUBSET Inbox(a) : /\ batch' = [batch EXCEPT ![a] = batch[a] \cup B]
                                  /\ place' = Moved(B, "held")
  BY DEF Begin
<1>2. B \in SUBSET Envelope /\ \A e \in B : To[e] = a /\ place[e] = "queued"
  BY DEF Inbox
<1>3. BookingsExact'
  <2>1. \A d \in Envelope : place'[d] \in Booked <=> place[d] \in Booked
    BY <1>1, <1>2 DEF Moved, Booked
  <2> QED
    BY <2>1, SameBooks DEF Begin, runs
<1>4. TypeOK'
  <2>1. place' \in [Envelope -> Place]
    BY <1>1, <1>2 DEF TypeOK, Moved, Place, Booked
  <2>2. batch' \in [Agent -> SUBSET Envelope]
    BY <1>1, <1>2 DEF TypeOK
  <2>3. pc' \in [Agent -> Control]
    BY DEF Begin, Goto, TypeOK, Control
  <2> QED
    BY <2>1, <2>2, <2>3 DEF Begin, TypeOK, runs, agents, journal, history
<1>5. Hands'
  <2>1. \A e \in Envelope \ B : place'[e] = place[e]
    BY <1>1 DEF Moved
  <2>2. \A e \in B : place'[e] = "held"
    BY <1>1, <1>2 DEF Moved
  <2>3. up /\ UNCHANGED <<up, taken, off, rows>>
    BY DEF Begin, journal
  <2> QED
    BY <1>1, <1>2, <2>1, <2>2, <2>3 DEF Hands, TypeOK
<1> QED
  BY <1>3, <1>4, <1>5

LEMMA AbandonInv ==
    ASSUME LedgerInv, NEW a \in Agent, Abandon(a)
    PROVE  LedgerInv'
<1>1. "leaving" \in Control
  BY DEF Control
<1> QED
  BY <1>1, OverInv DEF Abandon

\* What a deleted agent's inbox still holds, and what is called off behind the
\* message of a paused one.
LEMMA OrphanInv ==
    ASSUME LedgerInv, NEW a \in Agent, NEW e \in Envelope, Orphan(a, e) \/ Sweep(a, e)
    PROVE  LedgerInv'
<1> USE DEF LedgerInv
<1>1. place[e] = "queued" /\ place[e] \in Booked /\ up
  BY DEF Orphan, Sweep, Inbox, Booked
<1>2. Release(RunOf[e], {e}) /\ place' = Moved({e}, "ended")
  BY DEF Orphan, Sweep
<1>3. "ended" \in Place /\ "ended" \notin Booked
  BY DEF Place, Booked
<1>4. /\ BookingsExact' /\ outstanding' \in [Run -> Nat]
      /\ stopped' \subseteq Run /\ whole' \subseteq Run
      /\ pending' \subseteq Envelope /\ settled' \in [Run -> Nat]
      /\ putDown' = putDown /\ rows' = rows
      /\ place' \in [Envelope -> Place]
  BY <1>1, <1>2, <1>3, ReleaseOne
<1>5. UNCHANGED <<up, draining, pc, batch, taken, off>>
      /\ UNCHANGED <<terminated, gone, paused, woken, late>>
      /\ UNCHANGED <<crashes, pickups, calledOff, reported>>
  BY DEF Orphan, Sweep, actors, agents
<1>6. TypeOK'
  BY <1>4, <1>5 DEF TypeOK
<1>7. Hands'
  BY <1>1, <1>2, <1>4, <1>5 DEF Hands, Moved, TypeOK
<1> QED
  BY <1>4, <1>6, <1>7

\* The receiver is dropped: what is lost with it stays booked.
LEMMA ExitInv ==
    ASSUME LedgerInv, NEW a \in Agent, Exit(a)
    PROVE  LedgerInv'
<1> USE DEF LedgerInv
<1>1. /\ \A e \in Inbox(a) : place[e] = "queued"
      /\ place' = Moved(Inbox(a), "lost")
  BY DEF Exit, Inbox
<1>2. BookingsExact'
  <2>1. \A d \in Envelope : place'[d] \in Booked <=> place[d] \in Booked
    BY <1>1 DEF Moved, Booked
  <2> QED
    BY <2>1, SameBooks DEF Exit, runs
<1>3. TypeOK'
  BY <1>1 DEF Exit, TypeOK, Moved, Place, Booked, Control, Goto, runs, agents, journal, history
<1>4. Hands'
  BY <1>1 DEF Exit, Hands, Moved, TypeOK, journal
<1> QED
  BY <1>2, <1>3, <1>4

LEMMA AbsorbInv ==
    ASSUME LedgerInv, NEW a \in Agent, NEW e \in Envelope, Absorb(a, e)
    PROVE  LedgerInv'
<1> USE DEF LedgerInv
<1>1. place[e] = "queued" /\ place[e] \in Booked /\ To[e] = a /\ up
  BY DEF Absorb, Inbox, Booked
<1>2. /\ Release(RunOf[e], {e}) /\ place' = Moved({e}, "absorbed")
      /\ taken' = [taken EXCEPT ![a] = taken[a] \cup {e}]
  BY DEF Absorb
<1>3. "absorbed" \in Place /\ "absorbed" \notin Booked
  BY DEF Place, Booked
<1>4. /\ BookingsExact' /\ outstanding' \in [Run -> Nat]
      /\ stopped' \subseteq Run /\ whole' \subseteq Run
      /\ pending' \subseteq Envelope /\ settled' \in [Run -> Nat]
      /\ putDown' = putDown /\ rows' = rows
      /\ place' \in [Envelope -> Place]
  BY <1>1, <1>2, <1>3, ReleaseOne
<1>5. TypeOK'
  <2>1. taken' \in [Agent -> SUBSET Envelope]
    BY <1>2 DEF TypeOK
  <2> QED
    BY <1>4, <2>1 DEF Absorb, TypeOK, agents
<1>6. Hands'
  BY <1>1, <1>2, <1>4 DEF Absorb, Hands, Moved, TypeOK
<1> QED
  BY <1>4, <1>5, <1>6

LEMMA EndCalledOffInv ==
    ASSUME LedgerInv, NEW a \in Agent, NEW e \in Envelope, EndCalledOff(a, e)
    PROVE  LedgerInv'
<1> USE DEF LedgerInv
<1>1. place[e] = "held" /\ place[e] \in Booked /\ To[e] = a /\ e \in off[a] /\ up
  BY DEF EndCalledOff, Hands, Booked
<1>2. /\ Release(RunOf[e], {e}) /\ place' = Moved({e}, "ended")
      /\ off' = [off EXCEPT ![a] = off[a] \ {e}]
  BY DEF EndCalledOff
<1>3. "ended" \in Place /\ "ended" \notin Booked
  BY DEF Place, Booked
<1>4. /\ BookingsExact' /\ outstanding' \in [Run -> Nat]
      /\ stopped' \subseteq Run /\ whole' \subseteq Run
      /\ pending' \subseteq Envelope /\ settled' \in [Run -> Nat]
      /\ putDown' = putDown /\ rows' = rows
      /\ place' \in [Envelope -> Place]
  BY <1>1, <1>2, <1>3, ReleaseOne
<1>5. TypeOK'
  BY <1>2, <1>4 DEF EndCalledOff, TypeOK, agents
<1>6. Hands'
  BY <1>1, <1>2, <1>4 DEF EndCalledOff, Hands, Moved, TypeOK
<1> QED
  BY <1>4, <1>5, <1>6
LEMMA StartInv ==
    ASSUME LedgerInv, NEW a \in Agent, Start(a) \/ LookStopped(a)
    PROVE  LedgerInv'
<1>1. PICK r \in Run : TurnOf(a, r)
        /\ \/ EndTurn(a, r)
           \/ /\ \E l \in Control : pc' = [pc EXCEPT ![a] = l]
              /\ UNCHANGED <<up, runs, place, batch, taken, off, agents, journal,
                             crashes, history>>
  BY DEF Start, LookStopped, Goto, Control
<1>2. CASE EndTurn(a, r)
  BY <1>1, <1>2, EndTurnInv DEF Start, LookStopped
<1>3. CASE /\ \E l \in Control : pc' = [pc EXCEPT ![a] = l]
           /\ UNCHANGED <<up, runs, place, batch, taken, off, agents, journal,
                          crashes, history>>
  <2>1. BookingsExact'
    BY <1>3, SameBooks DEF runs
  <2>2. TypeOK'
    BY <1>3 DEF LedgerInv, TypeOK, runs, agents, journal, history
  <2>3. Hands'
    BY <1>3 DEF LedgerInv, Hands, journal
  <2> QED
    BY <2>1, <2>2, <2>3 DEF LedgerInv
<1> QED
  BY <1>1, <1>2, <1>3

\* The steps of an actor from one place to the next, with what it holds.
Walks(a) ==
    Pausing(a) \/ Leave(a) \/ Arm(a) \/ Park(a) \/ Wake(a) \/ Halt(a) \/ EndRounds(a)

LEMMA WalksOn ==
    ASSUME TypeOK, NEW a \in Agent, Walks(a)
    PROVE  /\ up /\ UNCHANGED <<up, runs, place, batch, taken, off, terminated, gone,
                                paused, journal, crashes, history>>
           /\ woken' \subseteq Agent /\ late' \subseteq Agent
           /\ \E l \in Control \ {"putting"} : pc' = [pc EXCEPT ![a] = l]
<1>1. CASE Pausing(a) \/ Leave(a) \/ Park(a)
  BY <1>1 DEF Pausing, Leave, Park, Goto, Control, TypeOK, agents
<1>2. CASE Arm(a) \/ Wake(a)
  BY <1>2 DEF Arm, Wake, Goto, Control, TypeOK
<1>3. CASE Halt(a) \/ EndRounds(a)
  BY <1>3 DEF Halt, EndRounds, Control, TypeOK, agents
<1> QED
  BY <1>1, <1>2, <1>3 DEF Walks

LEMMA WalksInv ==
    ASSUME LedgerInv, NEW a \in Agent, Walks(a)
    PROVE  LedgerInv'
<1>1. /\ \E l \in Control : pc' = [pc EXCEPT ![a] = l]
      /\ woken' \subseteq Agent /\ late' \subseteq Agent
      /\ UNCHANGED <<up, runs, place, batch, taken, off, terminated, gone, paused,
                     journal, crashes, history>>
  BY WalksOn DEF LedgerInv
<1>2. BookingsExact'
  BY <1>1, SameBooks DEF runs
<1>3. TypeOK'
  BY <1>1 DEF LedgerInv, TypeOK, runs, journal, history
<1>4. Hands'
  BY <1>1 DEF LedgerInv, Hands, journal
<1> QED
  BY <1>2, <1>3, <1>4 DEF LedgerInv

LEMMA HaltedInv ==
    ASSUME LedgerInv, NEW a \in Agent, Halted(a)
    PROVE  LedgerInv'
<1>1. PICK r \in Run : TurnOf(a, r)
        /\ \/ EndTurn(a, r)
           \/ /\ pc' = [pc EXCEPT ![a] = "putting"]
              /\ UNCHANGED <<up, runs, place, batch, taken, off, agents, journal,
                             crashes, history>>
           \/ /\ pc' = [pc EXCEPT ![a] = "idle"]
              /\ place' = [e \in Envelope |-> CASE e \in batch[a] -> "stranded"
                                                [] e \in taken[a] -> "swallowed"
                                                [] OTHER -> place[e]]
              /\ batch' = [batch EXCEPT ![a] = {}]
              /\ taken' = [taken EXCEPT ![a] = {}]
              /\ UNCHANGED <<up, runs, off, agents, journal, crashes, history>>
  BY DEF Halted
<1>2. CASE EndTurn(a, r)
  BY <1>1, <1>2, EndTurnInv DEF Halted
<1>3. CASE /\ pc' = [pc EXCEPT ![a] = "putting"]
           /\ UNCHANGED <<up, runs, place, batch, taken, off, agents, journal,
                          crashes, history>>
  <2>1. BookingsExact'
    BY <1>3, SameBooks DEF runs
  <2>2. TypeOK'
    BY <1>3 DEF LedgerInv, TypeOK, Control, runs, agents, journal, history
  <2>3. Hands'
    BY <1>3 DEF LedgerInv, Hands, journal
  <2> QED
    BY <2>1, <2>2, <2>3 DEF LedgerInv
<1>4. CASE /\ pc' = [pc EXCEPT ![a] = "idle"]
           /\ place' = [e \in Envelope |-> CASE e \in batch[a] -> "stranded"
                                             [] e \in taken[a] -> "swallowed"
                                             [] OTHER -> place[e]]
           /\ batch' = [batch EXCEPT ![a] = {}]
           /\ taken' = [taken EXCEPT ![a] = {}]
           /\ UNCHANGED <<up, runs, off, agents, journal, crashes, history>>
  <2>1. \A e \in Envelope : e \in batch[a] \/ e \in taken[a] \/ place'[e] = place[e]
    BY <1>4
  <2>2. /\ \A e \in batch[a] : place[e] = "held" /\ place'[e] = "stranded"
        /\ \A e \in taken[a] : place[e] = "absorbed" /\ place'[e] = "swallowed"
    BY <1>4 DEF LedgerInv, Hands, TypeOK
  <2>3. \A e \in Envelope : place'[e] \in Booked <=> place[e] \in Booked
    BY <2>1, <2>2 DEF Booked
  <2>4. BookingsExact'
    BY <1>4, <2>3, SameBooks DEF runs
  <2>5. place' \in [Envelope -> Place]
    <3>1. \A e \in Envelope : place'[e] \in Place
      BY <2>1, <2>2 DEF LedgerInv, TypeOK, Place, Booked
    <3> QED
      BY <1>4, <3>1
  <2>6. TypeOK'
    BY <1>4, <2>5 DEF LedgerInv, TypeOK, Control, runs, agents, journal, history
  <2>7. Hands'
    BY <1>4, <2>1, <2>2, <2>3 DEF LedgerInv, Hands, TypeOK, journal
  <2> QED
    BY <2>4, <2>6, <2>7 DEF LedgerInv
<1> QED
  BY <1>1, <1>2, <1>3, <1>4

LEMMA SweepQueueInv ==
    ASSUME LedgerInv, NEW a \in Agent, SweepQueue(a)
    PROVE  LedgerInv'
<1> USE DEF LedgerInv
<1>1. PICK D \in SUBSET Inbox(a) :
        /\ off' = [off EXCEPT ![a] = D]
        /\ batch' = [batch EXCEPT ![a] = (batch[a] \cup Inbox(a)) \ D]
        /\ place' = Moved(Inbox(a), "held")
        /\ pc' = [pc EXCEPT ![a] = "putting"]
        /\ UNCHANGED <<up, runs, taken, agents, journal, crashes, history>>
  BY DEF SweepQueue, Goto
<1>2. Inbox(a) \in SUBSET Envelope /\ \A e \in Inbox(a) : To[e] = a /\ place[e] = "queued"
  BY DEF Inbox
<1>3. \A e \in Envelope : place'[e] \in Booked <=> place[e] \in Booked
  BY <1>1, <1>2 DEF Moved, Booked
<1>4. BookingsExact'
  BY <1>1, <1>3, SameBooks DEF runs
<1>5. TypeOK'
  BY <1>1, <1>2 DEF TypeOK, Moved, Place, Booked, Control, runs, agents, journal, history
<1>6. Hands'
  BY <1>1, <1>2 DEF Hands, Moved, TypeOK, journal, SweepQueue
<1> QED
  BY <1>4, <1>5, <1>6
LEMMA PutDownInv ==
    ASSUME LedgerInv, NEW a \in Agent, PutDown(a)
    PROVE  LedgerInv'
<1> USE DEF LedgerInv
<1> DEFINE down == batch[a] \cup taken[a]
           Left(r) == LET n == Cardinality(batch[a] \cap OfRun(r))
                      IN  IF outstanding[r] > n THEN outstanding[r] - n ELSE 0
<1>1. outstanding' = [r \in Run |-> Left(r)]
  BY DEF PutDown, LeftBy
<1>2. PICK p \in {"kept", "cut"} :
        place' = Moved(down, p) /\ (p = "cut" => rows' = rows) /\ rows' \subseteq rows \cup down
  BY DEF PutDown
<1>3. whole' \subseteq Run /\ putDown' \subseteq Run /\ down \subseteq Envelope
  <2>1. down \subseteq Envelope
    BY DEF TypeOK
  <2>2. RunsOf(down) \subseteq Run
    BY <2>1, LedgerAssumption DEF RunsOf
  <2>3. putDown' = putDown \cup RunsOf(down) /\ whole' \subseteq whole \cup RunsOf(down)
    BY DEF PutDown, NowIdle
  <2> QED
    BY <2>1, <2>2, <2>3 DEF TypeOK
<1>4. \A e \in taken[a] : place[e] \notin Booked
  BY DEF Hands, Booked
<1>5. \A e \in batch[a] : place[e] \in Booked /\ e \in Envelope
  BY DEF Hands, Booked, TypeOK
<1>6. ASSUME NEW r \in Run
      PROVE  /\ Left(r) = Cardinality(Live(r)')
             /\ Left(r) \in Nat
  <2> DEFINE E == batch[a] \cap OfRun(r)
  <2>1. E \in SUBSET Live(r)
    BY <1>5 DEF Live
  <2>2. Live(r)' = Live(r) \ E
    BY <1>2, <1>3, <1>4, <1>5 DEF Live, OfRun, Moved, Booked
  <2>3. /\ Cardinality(E) \in Nat
        /\ Cardinality(E) <= outstanding[r]
        /\ Cardinality(Live(r) \ E) = outstanding[r] - Cardinality(E)
    BY <2>1, LiveLess DEF BookingsExact
  <2>4. outstanding[r] \in Nat
    BY DEF TypeOK
  <2>5. Left(r) = outstanding[r] - Cardinality(E) /\ Left(r) \in Nat
    BY <2>3, <2>4
  <2> QED
    BY <2>2, <2>3, <2>5
<1>7. BookingsExact' /\ outstanding' \in [Run -> Nat]
  BY <1>1, <1>6 DEF BookingsExact
<1>8. TypeOK'
  <2>1. rows' \subseteq Envelope
    BY <1>2, <1>3 DEF TypeOK
  <2>2. place' \in [Envelope -> Place]
    BY <1>2, <1>3 DEF TypeOK, Moved, Place
  <2> QED
    BY <1>3, <1>7, <2>1, <2>2 DEF PutDown, TypeOK, Control, history, agents
<1>9. Hands'
  <2>1. /\ batch' = [batch EXCEPT ![a] = {}] /\ taken' = [taken EXCEPT ![a] = {}]
        /\ off' = off /\ up' = up /\ off[a] = {} /\ up
    BY DEF PutDown
  <2>2. \A c \in Agent \ {a} : /\ \A e \in batch[c] \cup off[c] \cup taken[c] : e \notin down
                              /\ batch[c] \cup off[c] \cup taken[c] \subseteq Envelope
    BY DEF Hands, TypeOK
  <2>3. \A e \in Envelope \ down : place'[e] = place[e]
    BY <1>2 DEF Moved
  <2>4. \A e \in rows' : place'[e] = "kept"
    <3>1. \A e \in down : place[e] # "kept"
      BY DEF Hands
    <3>2. \A e \in rows : e \in Envelope /\ e \notin down /\ place[e] = "kept"
      BY <3>1 DEF Hands, TypeOK
    <3>3. CASE p = "kept"
      BY <1>2, <1>3, <2>3, <3>2, <3>3 DEF Moved
    <3>4. CASE p = "cut"
      BY <1>2, <2>3, <3>2, <3>4
    <3> QED
      BY <3>3, <3>4
  <2> QED
    BY <2>1, <2>2, <2>3, <2>4 DEF Hands, TypeOK
<1> QED
  BY <1>7, <1>8, <1>9

LEMMA StopRunInv ==
    ASSUME LedgerInv, NEW r \in Run, StopRun(r)
    PROVE  LedgerInv'
<1> USE DEF LedgerInv
<1>1. place' = place \/ place' = Moved({e \in OfRun(r) : place[e] = "kept"}, "ended")
  BY DEF StopRun
<1>2. \A e \in Envelope : place[e] # "kept" => place'[e] = place[e]
  BY <1>1 DEF Moved
<1>3. BookingsExact'
  <2>1. \A e \in Envelope : place'[e] \in Booked <=> place[e] \in Booked
    BY <1>1 DEF Moved, Booked
  <2>2. outstanding' = outstanding
    BY DEF StopRun
  <2> QED
    BY <2>1, <2>2, SameBooks
<1>4. TypeOK'
  BY <1>1 DEF StopRun, TypeOK, Moved, Place, Waiting, actors
<1>5. \A e \in rows' : place'[e] = "kept"
  BY DEF StopRun, Hands, Moved, OfRun, TypeOK
<1>6. Hands'
  <2>1. up /\ UNCHANGED <<up, pc, batch, taken, off>>
    BY DEF StopRun, Open, actors
  <2>2. \A a \in Agent : \A e \in batch[a] \cup off[a] \cup taken[a] :
           e \in Envelope /\ place'[e] = place[e]
    BY <1>2 DEF Hands, TypeOK
  <2> QED
    BY <1>5, <2>1, <2>2 DEF Hands
<1> QED
  BY <1>3, <1>4, <1>6

\* A command that moves no message: the card, the inbox, the drain's mark.
Commands(a) == Pause(a) \/ Resume(a) \/ Discard(a) \/ StopAgent(a)

LEMMA HostInv ==
    ASSUME LedgerInv, (\E a \in Agent : Commands(a)) \/ Drain
    PROVE  LedgerInv'
<1> USE DEF LedgerInv
<1>1. /\ draining' \in BOOLEAN /\ terminated' \subseteq Agent /\ gone' \subseteq Agent
      /\ paused' \subseteq Agent /\ woken' \subseteq Agent /\ late' \subseteq Agent
      /\ UNCHANGED <<up, outstanding, stopped, putDown, place, actors, journal,
                     crashes, history>>
  BY DEF Commands, Pause, Resume, Discard, StopAgent, Drain, Waiting, runs, TypeOK
<1>2. BookingsExact'
  BY <1>1, SameBooks
<1>3. TypeOK'
  BY <1>1 DEF TypeOK, actors, journal, history
<1>4. Hands'
  BY <1>1 DEF Hands, actors, journal
<1> QED
  BY <1>2, <1>3, <1>4

LEMMA HostEndsInv ==
    ASSUME LedgerInv, HostEnds
    PROVE  LedgerInv'
<1> USE DEF LedgerInv
<1>1. \A e \in Envelope : /\ place'[e] \notin Booked /\ place'[e] # "absorbed"
                         /\ place'[e] \in Place
                         /\ (place[e] = "kept" => place'[e] = "kept")
  BY DEF HostEnds, Booked, TypeOK, Place
<1>2. \A r \in Run : Live(r)' = {}
  BY <1>1 DEF Live, OfRun, Booked
<1>3. BookingsExact'
  BY <1>2, FS_EmptySet DEF BookingsExact, HostEnds
<1>4. place' \in [Envelope -> Place]
  <2>1. place' = [e \in Envelope |->
                   CASE place[e] \in Booked \cup {"recovered"} -> "cut"
                     [] place[e] = "absorbed" -> "swallowed"
                     [] OTHER -> place[e]]
    BY DEF HostEnds
  <2> QED
    BY <1>1, <2>1
<1>5. /\ UNCHANGED <<terminated, paused, pending, rows, whole, settled, pickups>>
      /\ UNCHANGED <<calledOff, reported>> /\ gone' = terminated /\ woken' = {} /\ late' = {}
      /\ up' = FALSE /\ draining' = FALSE /\ stopped' = {} /\ putDown' = {}
      /\ outstanding' = [r \in Run |-> 0] /\ crashes' = crashes + 1
      /\ pc' = [a \in Agent |-> "idle"]
      /\ batch' = [a \in Agent |-> {}] /\ taken' = batch' /\ off' = batch'
  BY DEF HostEnds, Idle, None, journal, history
<1>6. TypeOK'
  <2>1. crashes' \in Nat
    BY <1>5 DEF TypeOK
  <2>2. pc' \in [Agent -> Control] /\ outstanding' \in [Run -> Nat]
    BY <1>5 DEF Control
  <2>3. /\ batch' \in [Agent -> SUBSET Envelope] /\ taken' \in [Agent -> SUBSET Envelope]
        /\ off' \in [Agent -> SUBSET Envelope]
    BY <1>5
  <2> QED
    BY <1>4, <1>5, <2>1, <2>2, <2>3 DEF TypeOK
<1>7. Hands'
  <2>1. \A e \in rows' : place'[e] = "kept"
    BY <1>1, <1>5 DEF Hands, TypeOK
  <2> QED
    BY <1>1, <1>5, <2>1 DEF Hands
<1> QED
  BY <1>3, <1>6, <1>7

LEMMA RecoverInv ==
    ASSUME LedgerInv, Recover
    PROVE  LedgerInv'
<1> USE DEF LedgerInv
<1>1. \A e \in Envelope : /\ place[e] \notin Booked \cup {"absorbed"}
                         /\ place'[e] \notin Booked /\ place'[e] \in Place
  BY DEF Recover, Resumed, Hands, TypeOK, Booked, Place
<1>2. BookingsExact'
  BY <1>1, SameBooks DEF Recover, runs
<1>3. place' \in [Envelope -> Place] /\ pending' \subseteq Envelope /\ reported' \subseteq Run
  BY <1>1, LedgerAssumption DEF Recover, Resumed, Interrupted, TypeOK, RunsOf
<1>4. TypeOK'
  BY <1>3 DEF Recover, TypeOK, runs, actors, agents
<1>5. \A a \in Agent : batch[a] = {} /\ off[a] = {} /\ taken[a] = {}
  BY <1>1 DEF Hands, TypeOK, Booked
<1>6. Hands'
  BY <1>5 DEF Recover, Hands, actors
<1> QED
  BY <1>2, <1>4, <1>6

-----------------------------------------------------------------------------
LEMMA InitLedger == Init => LedgerInv
<1> SUFFICES ASSUME Init PROVE LedgerInv
  OBVIOUS
<1>1. TypeOK
  BY DEF Init, TypeOK, Idle, None, Control, Place
<1>2. Hands
  BY DEF Init, Hands, None
<1>3. \A r \in Run : Live(r) = {}
  BY DEF Init, Live, OfRun, Booked
<1>4. BookingsExact
  BY <1>3, FS_EmptySet DEF Init, BookingsExact
<1> QED
  BY <1>1, <1>2, <1>4 DEF LedgerInv

LEMMA NextLedger == LedgerInv /\ [Next]_vars => LedgerInv'
<1> SUFFICES ASSUME LedgerInv, [Next]_vars PROVE LedgerInv'
  OBVIOUS
<1>1. ASSUME NEW e \in Envelope, DeliverKept(e) \/ Deliver(e) \/ Queue(e) \/ PickUp(e)
      PROVE  LedgerInv'
  BY <1>1, DeliverKeptInv, DeliverInv, QueueInv, PickUpInv
<1>2. ASSUME NEW a \in Agent, Act(a)
      PROVE  LedgerInv'
  <2>1. CASE Finish(a)
    BY <2>1, EndTurnInv DEF Finish
  <2>2. CASE \E e \in Envelope : \/ Take(a, e) \/ Orphan(a, e) \/ Sweep(a, e)
                                \/ Absorb(a, e) \/ EndCalledOff(a, e)
    BY <2>2, TakeInv, OrphanInv, AbsorbInv, EndCalledOffInv
  <2>3. CASE Walks(a)
    BY <2>3, WalksInv
  <2>4. CASE Begin(a) \/ Abandon(a) \/ Exit(a) \/ Start(a) \/ LookStopped(a)
             \/ Halted(a) \/ SweepQueue(a) \/ PutDown(a)
    BY <2>4, BeginInv, AbandonInv, ExitInv, StartInv, HaltedInv, SweepQueueInv, PutDownInv
  <2> QED
    BY <1>2, <2>1, <2>2, <2>3, <2>4 DEF Act, Walks
<1>3. ASSUME NEW r \in Run, StopRun(r)
      PROVE  LedgerInv'
  BY <1>3, StopRunInv
<1>4. CASE UNCHANGED vars
  <2>1. /\ UNCHANGED <<up, draining, outstanding, stopped, putDown, place>>
        /\ UNCHANGED <<pc, batch, taken, off, terminated, gone, paused, woken, late>>
        /\ UNCHANGED <<pending, rows, whole>>
        /\ UNCHANGED <<crashes, settled, pickups, calledOff, reported>>
    BY <1>4 DEF vars, runs, actors, agents, journal, history
  <2>2. BookingsExact'
    BY <2>1, SameBooks
  <2> QED
    BY <2>1, <2>2 DEF LedgerInv, TypeOK, Hands
<1> QED
  BY <1>1, <1>2, <1>3, <1>4, HostInv, HostEndsInv, RecoverInv DEF Next, Commands

\* The variables keep their types, and the actors hold only what is theirs.
THEOREM LedgerInvariant == Spec => []LedgerInv
<1>1. Init => LedgerInv
  BY InitLedger
<1>2. LedgerInv /\ [Next]_vars => LedgerInv'
  BY NextLedger
<1> QED
  BY <1>1, <1>2, PTL DEF Spec

\* `Runs::outstanding`: every message is booked once and released once, in every
\* interleaving of turns, stops, drains, deletions and restarts.
THEOREM BooksAreExact == Spec => []BookingsExact
<1>1. LedgerInv => BookingsExact
  BY DEF LedgerInv
<1> QED
  BY <1>1, LedgerInvariant, PTL
-----------------------------------------------------------------------------
(* A run settles only once nothing of it is booked or kept.  The booked half *)
(* is the exactness of the books; the kept half is that a running process    *)
(* remembers every run it has put something of down.                         *)
KeptIsPutDown == up => \A e \in Envelope : place[e] = "kept" => RunOf[e] \in putDown

\* The steps that release one message out of an actor's inbox or hands.
Ones(a, e) == Orphan(a, e) \/ Sweep(a, e) \/ Absorb(a, e) \/ EndCalledOff(a, e)

LEMMA OnesRelease ==
    ASSUME LedgerInv, NEW a \in Agent, NEW e \in Envelope, Ones(a, e)
    PROVE  /\ place[e] \in Booked /\ RunOf[e] \in Run
           /\ up /\ up' /\ Release(RunOf[e], {e})
           /\ \E p \in {"ended", "absorbed"} : place' = Moved({e}, p)
           /\ UNCHANGED <<pc, batch, draining, pickups, calledOff, reported>>
<1>1. place[e] \in Booked /\ RunOf[e] \in Run
  BY LedgerAssumption DEF Ones, Orphan, Sweep, Absorb, EndCalledOff, Inbox, LedgerInv, Hands, Booked
<1> QED
  BY <1>1 DEF Ones, Orphan, Sweep, Absorb, EndCalledOff, actors

LEMMA NextKept == LedgerInv /\ KeptIsPutDown /\ [Next]_vars => KeptIsPutDown'
<1> SUFFICES ASSUME LedgerInv, KeptIsPutDown, [Next]_vars, up'
             PROVE  \A e \in Envelope : place'[e] = "kept" => RunOf[e] \in putDown'
  BY DEF KeptIsPutDown
<1> DEFINE Keeps == \A e \in Envelope : place'[e] = "kept" => RunOf[e] \in putDown'
           Quiet == /\ up /\ putDown \subseteq putDown'
                    /\ \A e \in Envelope : place'[e] = "kept" => place[e] = "kept"
<1>1. Quiet => Keeps
  BY DEF KeptIsPutDown
<1>2. ASSUME NEW a \in Agent, NEW r \in Run, NEW l, up, Over(a, r, l)
      PROVE  Quiet
  BY <1>2 DEF Over, Release, Moved, LedgerInv, TypeOK
<1>3. ASSUME NEW e \in Envelope, DeliverKept(e)
      PROVE  Keeps
  BY <1>3 DEF DeliverKept, MaySend, Moved, KeptIsPutDown, LedgerInv, TypeOK
<1>4. ASSUME NEW e \in Envelope, Deliver(e) \/ PickUp(e)
      PROVE  Quiet
  BY <1>4 DEF Deliver, PickUp, MaySend, Moved, LedgerInv, TypeOK
<1>5. ASSUME NEW e \in Envelope, Queue(e)
      PROVE  Quiet
  BY <1>5 DEF Queue, Release, runs, Moved, LedgerInv, TypeOK
<1>6. ASSUME NEW a \in Agent, Act(a)
      PROVE  Keeps
  <2>1. CASE Begin(a) \/ (\E e \in Envelope : Take(a, e)) \/ Exit(a)
    <3>1. up /\ UNCHANGED runs /\ \E B, p : p # "kept" /\ place' = Moved(B, p)
      BY <2>1 DEF Begin, Take, Exit
    <3> QED
      BY <3>1, <1>1 DEF runs, Moved, LedgerInv, TypeOK
  <2>2. CASE Start(a) \/ LookStopped(a) \/ Abandon(a)
    <3>1. up /\ ((\E r \in Run, l \in Control : Over(a, r, l)) \/ UNCHANGED <<runs, place>>)
      BY <2>2 DEF Start, LookStopped, Abandon, EndTurn, Control
    <3> QED
      BY <3>1, <1>1, <1>2 DEF runs
  <2>3. CASE Walks(a)
    BY <2>3, <1>1, WalksOn DEF LedgerInv, runs
  <2>4. CASE Finish(a)
    BY <2>4, <1>1, <1>2 DEF Finish, EndTurn
  <2>5. CASE Halted(a)
    <3>1. /\ up
          /\ \/ \E r \in Run : EndTurn(a, r)
             \/ UNCHANGED <<runs, place>>
             \/ /\ UNCHANGED runs
                /\ place' = [e \in Envelope |-> CASE e \in batch[a] -> "stranded"
                                                  [] e \in taken[a] -> "swallowed"
                                                  [] OTHER -> place[e]]
      BY <2>5 DEF Halted
    <3>2. CASE \E r \in Run : EndTurn(a, r)
      BY <3>1, <3>2, <1>1, <1>2 DEF EndTurn
    <3>3. CASE UNCHANGED <<runs, place>>
      BY <3>1, <3>3, <1>1 DEF runs
    <3>4. CASE /\ UNCHANGED runs
               /\ place' = [e \in Envelope |-> CASE e \in batch[a] -> "stranded"
                                                 [] e \in taken[a] -> "swallowed"
                                                 [] OTHER -> place[e]]
      <4>1. \A e \in Envelope : place'[e] = "kept" => place[e] = "kept"
        BY <3>4
      <4> QED
        BY <3>1, <3>4, <4>1, <1>1 DEF runs
    <3> QED
      BY <3>1, <3>2, <3>3, <3>4
  <2>6. CASE SweepQueue(a)
    BY <2>6, <1>1 DEF SweepQueue, runs, Moved, LedgerInv, TypeOK
  <2>7. CASE PutDown(a)
    <3>1. /\ up /\ putDown' = putDown \cup RunsOf(batch[a] \cup taken[a])
          /\ \E p \in {"kept", "cut"} : place' = Moved(batch[a] \cup taken[a], p)
      BY <2>7 DEF PutDown
    <3> QED
      BY <3>1 DEF KeptIsPutDown, RunsOf, Moved
  <2>8. ASSUME NEW e \in Envelope, Ones(a, e)
        PROVE  Quiet
    <3>1. PICK p \in {"ended", "absorbed"} : place' = Moved({e}, p)
      BY <2>8, OnesRelease
    <3>2. up /\ putDown' = putDown
      BY <2>8, OnesRelease DEF Release
    <3> QED
      BY <3>1, <3>2 DEF Moved
  <2> QED
    BY <1>6, <2>1, <2>2, <2>3, <2>4, <2>5, <2>6, <2>7, <2>8, <1>1 DEF Act, Walks, Ones
<1>7. ASSUME NEW r \in Run, StopRun(r)
      PROVE  Keeps
  <2>1. up /\ \/ putDown' = putDown /\ place' = place
              \/ /\ putDown' = putDown \ {r}
                 /\ place' = Moved({e \in OfRun(r) : place[e] = "kept"}, "ended")
    BY <1>7 DEF StopRun, Open
  <2> QED
    BY <2>1 DEF KeptIsPutDown, Moved, OfRun
<1>8. CASE (\E a \in Agent : Commands(a)) \/ Drain
  BY <1>8, <1>1 DEF Commands, Pause, Resume, Discard, StopAgent, Drain, Open, runs
<1>9. CASE HostEnds
  BY <1>9 DEF HostEnds
<1>10. CASE Recover
  <2>1. \A e \in Envelope : place'[e] # "kept"
    BY <1>10 DEF Recover
  <2> QED
    BY <2>1
<1>11. CASE UNCHANGED vars
  BY <1>11, <1>1 DEF vars, runs
<1> QED
  BY <1>1, <1>3, <1>4, <1>5, <1>6, <1>7, <1>8, <1>9, <1>10, <1>11 DEF Next, Commands

\* A release that settles run r leaves nothing of it booked.
LEMMA SettledIsEmpty ==
    ASSUME LedgerInv', NEW r \in Run, outstanding'[r] = 0
    PROVE  \A e \in OfRun(r) : place'[e] \notin Booked
<1>1. Cardinality(Live(r)') = 0
  BY DEF LedgerInv, BookingsExact
<1>2. Live(r)' \in SUBSET Envelope
  BY DEF Live, OfRun
<1>3. IsFiniteSet(Live(r)')
  BY <1>2, FS_Subset, LedgerAssumption
<1>4. Live(r)' = {}
  BY <1>1, <1>3, FS_EmptySet
<1> QED
  BY <1>4 DEF Live, OfRun, Booked

LEMMA SettleStep ==
    ASSUME LedgerInv, KeptIsPutDown, [Next]_vars, LedgerInv', KeptIsPutDown',
           NEW r \in Run, settled'[r] # settled[r]
    PROVE  up' /\ outstanding'[r] = 0 /\ r \notin putDown'
<1>1. ASSUME NEW q \in Run, NEW E, Release(q, E), up' = up, up
      PROVE  up' /\ outstanding'[r] = 0 /\ r \notin putDown'
  <2>1. q = r /\ outstanding'[r] = 0 /\ r \notin putDown /\ putDown' = putDown
    BY <1>1 DEF Release, LedgerInv, TypeOK
  <2> QED
    BY <1>1, <2>1
<1>2. ASSUME NEW a \in Agent, NEW q \in Run, NEW l, Over(a, q, l), up
      PROVE  up' /\ outstanding'[r] = 0 /\ r \notin putDown'
  BY <1>1, <1>2 DEF Over
<1>3. ASSUME NEW e \in Envelope, Deliver(e) \/ DeliverKept(e) \/ PickUp(e)
      PROVE  FALSE
  BY <1>3 DEF Deliver, DeliverKept, PickUp, history
<1>4. ASSUME NEW e \in Envelope, Queue(e)
      PROVE  up' /\ outstanding'[r] = 0 /\ r \notin putDown'
  BY <1>4, <1>1, LedgerAssumption DEF Queue, history
<1>5. ASSUME NEW a \in Agent, NEW e \in Envelope, Ones(a, e)
      PROVE  up' /\ outstanding'[r] = 0 /\ r \notin putDown'
  <2>1. RunOf[e] \in Run /\ up /\ up' /\ Release(RunOf[e], {e})
    BY <1>5, OnesRelease
  <2> QED
    BY <2>1, <1>1
<1>6. ASSUME NEW a \in Agent,
             \/ Walks(a) \/ (\E e \in Envelope : Take(a, e)) \/ Begin(a) \/ Exit(a)
             \/ SweepQueue(a) \/ PutDown(a)
      PROVE  FALSE
  <2>1. Walks(a) => UNCHANGED history
    BY WalksOn DEF LedgerInv
  <2> QED
    BY <1>6, <2>1 DEF Take, Begin, Exit, SweepQueue, PutDown, history
<1>7. ASSUME NEW a \in Agent,
             Start(a) \/ LookStopped(a) \/ Abandon(a) \/ Finish(a) \/ Halted(a)
      PROVE  up' /\ outstanding'[r] = 0 /\ r \notin putDown'
  <2>1. up /\ ((\E q \in Run, l \in Control : Over(a, q, l)) \/ UNCHANGED history)
    BY <1>7 DEF Start, LookStopped, Abandon, Finish, Halted, EndTurn, Control
  <2> QED
    BY <2>1, <1>2 DEF history
<1>8. ASSUME NEW q \in Run, StopRun(q)
      PROVE  FALSE
  BY <1>8 DEF StopRun
<1>9. (\E a \in Agent : Commands(a)) \/ Drain \/ HostEnds \/ Recover => FALSE
  BY DEF Commands, Pause, Resume, Discard, StopAgent, Drain, HostEnds, Recover, history
<1>10. UNCHANGED vars => FALSE
  BY DEF vars, history
<1> QED
  BY <1>3, <1>4, <1>5, <1>6, <1>7, <1>8, <1>9, <1>10 DEF Next, Act, Walks, Ones, Commands

\* `RunSettled` is emitted only with nothing of the conversation booked anywhere
\* and nothing of it put down for the next host.
THEOREM SettlesOnlyWhenOver == Spec => SettlesWhenOver
<1>1. Init => LedgerInv /\ KeptIsPutDown
  BY InitLedger DEF Init, KeptIsPutDown
<1>2. LedgerInv /\ KeptIsPutDown /\ [Next]_vars => LedgerInv' /\ KeptIsPutDown'
  BY NextLedger, NextKept
<1>3. LedgerInv /\ KeptIsPutDown /\ [Next]_vars =>
        [\A r \in Run : settled'[r] # settled[r] =>
            \A e \in OfRun(r) : place'[e] \notin Booked \cup {"kept"}]_vars
  <2> SUFFICES ASSUME LedgerInv, KeptIsPutDown, [Next]_vars, LedgerInv', KeptIsPutDown',
                      NEW r \in Run, settled'[r] # settled[r],
                      NEW e \in OfRun(r)
               PROVE  place'[e] \notin Booked \cup {"kept"}
    BY <1>2
  <2>1. up' /\ outstanding'[r] = 0 /\ r \notin putDown'
    BY SettleStep
  <2>2. place'[e] \notin Booked
    BY <2>1, SettledIsEmpty
  <2>3. place'[e] # "kept"
    BY <2>1 DEF KeptIsPutDown, OfRun
  <2> QED
    BY <2>2, <2>3
<1> QED
  BY <1>1, <1>2, <1>3, PTL DEF Spec, SettlesWhenOver
-----------------------------------------------------------------------------
(* What a step does to the books, the journal and the history, whoever takes *)
(* it: the invariants below look at nothing else.                            *)

\* Somebody's messages of run r are over (Release), or join a turn.
Ends(r) ==
    /\ up /\ up'
    /\ UNCHANGED <<draining, putDown, rows, pickups, calledOff, reported>>
    /\ stopped' \subseteq stopped
    /\ Live(r) # {}
    /\ \/ whole' = whole
       \/ whole' = whole \cup {r} /\ r \in putDown /\ outstanding'[r] = 0
    /\ \/ pending' = pending /\ settled' = settled
       \/ /\ pending' = pending \ OfRun(r)
          /\ settled' = [settled EXCEPT ![r] = @ + 1]
          /\ outstanding'[r] = 0 /\ r \notin putDown
    /\ \A e \in Envelope :
          \/ place'[e] = place[e]
          \/ /\ place[e] \in Booked \cup {"absorbed"}
             /\ place'[e] \in {"ended", "absorbed"}

\* Messages pass from hand to hand, and nothing is written or released.
Passes ==
    /\ up /\ up'
    /\ UNCHANGED <<draining, stopped, putDown, journal, history>>
    /\ \A e \in Envelope :
          \/ place'[e] = place[e]
          \/ place[e] \in Booked /\ place'[e] \in {"queued", "held", "stranded", "lost"}
          \/ place[e] = "absorbed" /\ place'[e] = "swallowed"

LEMMA ReleaseEnds ==
    ASSUME LedgerInv, up, up', NEW r \in Run, NEW E \in SUBSET Live(r), E # {},
           NEW F \in SUBSET Envelope, \A e \in F : place[e] = "absorbed",
           Release(r, E), NEW p \in {"ended", "absorbed"}, place' = Moved(E \cup F, p),
           UNCHANGED <<draining, pickups, calledOff, reported>>
    PROVE  Ends(r)
<1>1. \A e \in Envelope :
          \/ place'[e] = place[e]
          \/ /\ place[e] \in Booked \cup {"absorbed"}
             /\ place'[e] \in {"ended", "absorbed"}
  BY DEF Moved, Live, OfRun
<1>2. Live(r) # {}
  OBVIOUS
<1>3. outstanding'[r] = 0 <=> ~(outstanding[r] > Cardinality(E)
                               /\ outstanding[r] - Cardinality(E) # 0)
  BY DEF Release, LedgerInv, TypeOK
<1>4. stopped' \subseteq stopped /\ UNCHANGED <<putDown, rows>>
  BY DEF Release
<1>5. \/ whole' = whole
      \/ whole' = whole \cup {r} /\ r \in putDown /\ outstanding'[r] = 0
  BY <1>3 DEF Release
<1>6. \/ pending' = pending /\ settled' = settled
      \/ /\ pending' = pending \ OfRun(r)
         /\ settled' = [settled EXCEPT ![r] = @ + 1]
         /\ outstanding'[r] = 0 /\ r \notin putDown
  BY <1>3 DEF Release
<1> QED
  BY <1>1, <1>2, <1>4, <1>5, <1>6 DEF Ends

LEMMA OneEnds ==
    ASSUME LedgerInv, up, up', NEW e \in Envelope, place[e] \in Booked,
           Release(RunOf[e], {e}), NEW p \in {"ended", "absorbed"}, place' = Moved({e}, p),
           UNCHANGED <<draining, pickups, calledOff, reported>>
    PROVE  \E r \in Run : Ends(r)
<1>1. RunOf[e] \in Run /\ {e} \in SUBSET Live(RunOf[e]) /\ {e} # {}
  BY OneIsLive
<1>2. {} \in SUBSET Envelope /\ (\A d \in {} : place[d] = "absorbed")
      /\ place' = Moved({e} \cup {}, p)
  OBVIOUS
<1>3. Ends(RunOf[e])
  BY <1>1, <1>2, ReleaseEnds
<1> QED
  BY <1>1, <1>3

LEMMA TurnEnds ==
    ASSUME LedgerInv, up, NEW a \in Agent, NEW r \in Run, TurnOf(a, r),
           NEW l, Over(a, r, l)
    PROVE  Ends(r)
<1>1. batch[a] \in SUBSET Live(r) /\ batch[a] # {}
  BY DEF LedgerInv, TurnOf, Hands, Live, OfRun, Booked, TypeOK
<1>2. taken[a] \in SUBSET Envelope /\ \A e \in taken[a] : place[e] = "absorbed"
  BY DEF LedgerInv, Hands, TypeOK
<1>3. /\ Release(r, batch[a]) /\ place' = Moved(batch[a] \cup taken[a], "ended")
      /\ up' /\ UNCHANGED <<draining, pickups, calledOff, reported>>
  BY DEF Over
<1> QED
  BY <1>1, <1>2, <1>3, ReleaseEnds

\* What the steps of an actor's turn come down to.
LEMMA ActKinds ==
    ASSUME LedgerInv, NEW a \in Agent, Act(a)
    PROVE  (\E r \in Run : Ends(r)) \/ Passes \/ PutDown(a)
<1> USE DEF LedgerInv
<1>1. CASE Begin(a) \/ (\E e \in Envelope : Take(a, e)) \/ Exit(a)
  <2>1. \A e \in Inbox(a) : place[e] \in Booked
    BY DEF Inbox, Booked
  <2>2. /\ up /\ up' /\ UNCHANGED <<runs, journal, history>>
        /\ \E B \in SUBSET Inbox(a) : \E p \in {"held", "lost"} : place' = Moved(B, p)
    <3>1. CASE Begin(a)
      BY <3>1 DEF Begin
    <3>2. CASE \E e \in Envelope : Take(a, e)
      BY <3>2 DEF Take
    <3>3. CASE Exit(a)
      BY <3>3 DEF Exit
    <3> QED
      BY <1>1, <3>1, <3>2, <3>3
  <2> QED
    BY <2>1, <2>2 DEF Passes, Moved, TypeOK, runs
<1>2. CASE Start(a) \/ LookStopped(a) \/ Abandon(a)
  <2>1. up /\ ((\E r \in Run, l \in Control : TurnOf(a, r) /\ Over(a, r, l))
               \/ UNCHANGED <<up, runs, place, journal, history>>)
    BY <1>2 DEF Start, LookStopped, Abandon, EndTurn, Control
  <2> QED
    BY <2>1, TurnEnds DEF Passes, runs
<1>3. CASE Walks(a)
  BY <1>3, WalksOn DEF Passes, runs
<1>4. CASE Finish(a)
  BY <1>4, TurnEnds DEF Finish, EndTurn
<1>5. CASE Halted(a)
  <2>1. up /\ \/ \E r \in Run : TurnOf(a, r) /\ EndTurn(a, r)
              \/ UNCHANGED <<up, runs, place, journal, history>>
              \/ /\ UNCHANGED <<up, runs, journal, history>>
                 /\ place' = [e \in Envelope |-> CASE e \in batch[a] -> "stranded"
                                                   [] e \in taken[a] -> "swallowed"
                                                   [] OTHER -> place[e]]
    BY <1>5 DEF Halted
  <2>2. CASE \E r \in Run : TurnOf(a, r) /\ EndTurn(a, r)
    BY <2>1, <2>2, TurnEnds DEF EndTurn
  <2>3. CASE UNCHANGED <<up, runs, place, journal, history>>
    BY <2>1, <2>3 DEF Passes, runs
  <2>4. CASE /\ UNCHANGED <<up, runs, journal, history>>
             /\ place' = [e \in Envelope |-> CASE e \in batch[a] -> "stranded"
                                               [] e \in taken[a] -> "swallowed"
                                               [] OTHER -> place[e]]
    <3>1. /\ \A e \in batch[a] : place[e] \in Booked /\ e \notin taken[a]
          /\ \A e \in taken[a] : place[e] = "absorbed"
      BY DEF Hands, Booked
    <3>2. \A e \in Envelope : /\ e \in batch[a] => place'[e] = "stranded"
                              /\ e \in taken[a] => place'[e] = "swallowed"
                              /\ e \notin batch[a] \cup taken[a] => place'[e] = place[e]
      BY <2>4, <3>1
    <3> QED
      BY <2>1, <2>4, <3>1, <3>2 DEF Passes, runs
  <2> QED
    BY <2>1, <2>2, <2>3, <2>4
<1>6. CASE SweepQueue(a)
  <2>1. \A e \in Inbox(a) : place[e] \in Booked
    BY DEF Inbox, Booked
  <2> QED
    BY <1>6, <2>1 DEF SweepQueue, Passes, Moved, TypeOK, runs
<1>7. ASSUME NEW e \in Envelope, Ones(a, e)
      PROVE  \E r \in Run : Ends(r)
  BY <1>7, OnesRelease, OneEnds
<1> QED
  BY <1>1, <1>2, <1>3, <1>4, <1>5, <1>6, <1>7 DEF Act, Walks, Ones

\* ... and every step.
LEMMA StepKinds ==
    ASSUME LedgerInv, [Next]_vars
    PROVE  \/ \E r \in Run : Ends(r)
           \/ Passes
           \/ \E e \in Envelope : DeliverKept(e) \/ Deliver(e) \/ PickUp(e)
           \/ \E a \in Agent : PutDown(a)
           \/ \E r \in Run : StopRun(r)
           \/ Drain \/ HostEnds \/ Recover \/ UNCHANGED vars
<1>1. ASSUME NEW e \in Envelope, Queue(e)
      PROVE  (\E r \in Run : Ends(r)) \/ Passes
  <2>1. up /\ place[e] \in Booked
    BY <1>1 DEF Queue, Booked
  <2>2. CASE To[e] \in gone \/ pc[To[e]] = "exited"
    BY <1>1, <2>1, <2>2, OneEnds DEF Queue, history
  <2>3. CASE ~(To[e] \in gone \/ pc[To[e]] = "exited")
    BY <1>1, <2>1, <2>3 DEF Queue, Passes, Moved, LedgerInv, TypeOK, runs
  <2> QED
    BY <2>2, <2>3
<1>2. ASSUME NEW a \in Agent, Commands(a)
      PROVE  Passes
  BY <1>2 DEF Commands, Pause, Resume, Discard, StopAgent, Open, Passes, runs
<1> QED
  BY <1>1, <1>2, ActKinds DEF Next, Commands
-----------------------------------------------------------------------------
(* Only a draining host puts anything down.                                  *)

\* An actor that stopped at a boundary had a reason that lasts until its turn
\* is over: the drain, or its run called off.
HaltsForCause ==
    \A a \in Agent :
        /\ pc[a] = "putting" => draining
        /\ pc[a] = "halted" /\ ~draining => \E e \in batch[a] : RunOf[e] \in stopped

\* A run is called off for as long as something of it is booked.
LEMMA ReleaseKeepsStopped ==
    ASSUME LedgerInv, LedgerInv', NEW r \in Run, NEW E, Release(r, E),
           NEW e \in Envelope, RunOf[e] \in stopped, place'[e] \in Booked
    PROVE  RunOf[e] \in stopped'
<1>1. CASE RunOf[e] # r
  BY <1>1 DEF Release
<1>2. CASE RunOf[e] = r
  <2>1. e \in OfRun(r)
    BY <1>2 DEF OfRun
  <2>2. outstanding'[r] # 0
    BY <2>1, SettledIsEmpty
  <2>3. stopped' = stopped
    BY <2>2 DEF Release, LedgerInv, TypeOK
  <2> QED
    BY <2>3
<1> QED
  BY <1>1, <1>2

LEMMA NextHaltsForCause ==
    LedgerInv /\ HaltsForCause /\ [Next]_vars => HaltsForCause'
<1> SUFFICES ASSUME LedgerInv, HaltsForCause, [Next]_vars, LedgerInv'
             PROVE  HaltsForCause'
  BY NextLedger
<1> USE DEF LedgerInv
<1>1. ASSUME UNCHANGED <<pc, batch>>, stopped \subseteq stopped', draining => draining'
      PROVE  HaltsForCause'
  BY <1>1 DEF HaltsForCause
\* A release: the other actors still hold what they held.
<1>2. ASSUME NEW r \in Run, NEW E, Release(r, E), draining' = draining, up',
             NEW a \in Agent,
             \A c \in Agent \ {a} : pc'[c] = pc[c] /\ batch'[c] = batch[c],
             \/ pc'[a] \in {"idle", "leaving"}
             \/ pc'[a] = pc[a] /\ batch'[a] = batch[a]
      PROVE  HaltsForCause'
  <2>1. SUFFICES ASSUME NEW c \in Agent
                 PROVE  /\ pc'[c] = "putting" => draining'
                        /\ pc'[c] = "halted" /\ ~draining' =>
                              \E e \in batch'[c] : RunOf[e] \in stopped'
    BY DEF HaltsForCause
  <2>2. CASE pc'[c] \in {"idle", "leaving"}
    BY <2>2
  <2>3. CASE pc'[c] = pc[c] /\ batch'[c] = batch[c]
    <3>1. \A e \in batch'[c] : e \in Envelope /\ place'[e] \in Booked
      BY DEF Hands, TypeOK, Booked
    <3>2. \A e \in batch'[c] : RunOf[e] \in stopped => RunOf[e] \in stopped'
      BY <3>1, <1>2, ReleaseKeepsStopped
    <3> QED
      BY <1>2, <2>3, <3>2 DEF HaltsForCause
  <2> QED
    BY <1>2, <2>2, <2>3
<1>3. ASSUME NEW a \in Agent, NEW r \in Run, up, NEW l \in {"idle", "leaving"},
             Over(a, r, l)
      PROVE  HaltsForCause'
  <2>1. /\ \A c \in Agent \ {a} : pc'[c] = pc[c] /\ batch'[c] = batch[c]
        /\ pc'[a] = l /\ draining' = draining /\ up' /\ Release(r, batch[a])
    BY <1>3 DEF Over, Goto, TypeOK
  <2> QED
    BY <2>1, <1>2
<1>4. ASSUME NEW e \in Envelope, Queue(e)
      PROVE  HaltsForCause'
  <2>1. CASE To[e] \in gone \/ pc[To[e]] = "exited"
    <3>1. /\ Release(RunOf[e], {e}) /\ draining' = draining /\ up'
          /\ UNCHANGED <<pc, batch>> /\ RunOf[e] \in Run /\ To[e] \in Agent
      BY <1>4, <2>1, LedgerAssumption DEF Queue, actors
    <3> QED
      BY <3>1, <1>2
  <2>2. CASE ~(To[e] \in gone \/ pc[To[e]] = "exited")
    BY <1>4, <2>2, <1>1 DEF Queue, runs, actors
  <2> QED
    BY <2>1, <2>2
<1>5. ASSUME NEW a \in Agent, NEW e \in Envelope, Ones(a, e)
      PROVE  HaltsForCause'
  <2>1. /\ Release(RunOf[e], {e}) /\ draining' = draining /\ up'
        /\ UNCHANGED <<pc, batch>> /\ RunOf[e] \in Run
    BY <1>5, OnesRelease
  <2> QED
    BY <2>1, <1>2
<1>6. ASSUME NEW a \in Agent, draining' = draining, stopped' = stopped,
             \A c \in Agent \ {a} : pc'[c] = pc[c] /\ batch'[c] = batch[c],
             pc'[a] = "putting" => draining,
             pc'[a] = "halted" /\ ~draining => \E e \in batch'[a] : RunOf[e] \in stopped
      PROVE  HaltsForCause'
  BY <1>6 DEF HaltsForCause
<1>7. ASSUME NEW a \in Agent, Act(a)
      PROVE  HaltsForCause'
  <2>1. CASE Begin(a) \/ (\E e \in Envelope : Take(a, e)) \/ Exit(a)
    <3>1. /\ UNCHANGED runs
          /\ \E l \in {"gate", "starting", "exited"} : pc' = [pc EXCEPT ![a] = l]
          /\ \E B : batch' = [batch EXCEPT ![a] = B] \/ batch' = batch
      BY <2>1 DEF Begin, Take, Exit, Goto
    <3> QED
      BY <3>1, <1>6 DEF TypeOK, runs
  <2>2. CASE Start(a) \/ LookStopped(a) \/ Abandon(a)
    <3>1. up /\ \/ \E r \in Run, l \in {"idle", "leaving"} : Over(a, r, l)
                \/ /\ draining /\ pc' = [pc EXCEPT ![a] = "putting"]
                   /\ UNCHANGED <<runs, batch>>
                \/ /\ \E l \in {"working", "sweep"} : pc' = [pc EXCEPT ![a] = l]
                   /\ UNCHANGED <<runs, batch>>
      BY <2>2 DEF Start, LookStopped, Abandon, EndTurn, Goto
    <3> QED
      BY <3>1, <1>3, <1>6 DEF TypeOK, runs
  <2>3. CASE Walks(a)
    <3>1. /\ UNCHANGED <<draining, stopped, batch>>
          /\ \E l \in Control \ {"putting"} : pc' = [pc EXCEPT ![a] = l]
      BY <2>3, WalksOn DEF runs
    <3>2. CASE Halt(a) \/ EndRounds(a)
      <4>1. \E r \in Run :
                /\ TurnOf(a, r)
                /\ \/ pc' = [pc EXCEPT ![a] = "replying"]
                   \/ pc' = [pc EXCEPT ![a] = "halted"] /\ (draining \/ r \in stopped)
        BY <3>2 DEF Halt, EndRounds
      <4>2. \A r \in Run : TurnOf(a, r) /\ r \in stopped =>
               \E e \in batch[a] : RunOf[e] \in stopped
        BY DEF TurnOf, OfRun
      <4> QED
        BY <3>1, <4>1, <4>2, <1>6 DEF TypeOK
    <3>3. CASE Pausing(a) \/ Leave(a) \/ Arm(a) \/ Park(a) \/ Wake(a)
      <4>1. \E l \in {"arm", "exiting", "stopped?", "park", "gate"} :
               pc' = [pc EXCEPT ![a] = l]
        BY <3>3 DEF Pausing, Leave, Arm, Park, Wake, Goto
      <4> QED
        BY <3>1, <4>1, <1>6 DEF TypeOK
    <3> QED
      BY <2>3, <3>2, <3>3 DEF Walks
  <2>4. CASE Finish(a)
    BY <2>4, <1>3 DEF Finish, EndTurn
  <2>5. CASE Halted(a)
    <3>1. \A r \in Run : TurnOf(a, r) /\ r \notin stopped => draining
      BY <2>5 DEF Halted, HaltsForCause, TurnOf, OfRun
    <3>2. up /\ \/ \E r \in Run : EndTurn(a, r)
                \/ /\ draining /\ pc' = [pc EXCEPT ![a] = "putting"]
                   /\ UNCHANGED <<runs, batch>>
                \/ /\ pc' = [pc EXCEPT ![a] = "idle"]
                   /\ batch' = [batch EXCEPT ![a] = {}]
                   /\ UNCHANGED runs
      BY <2>5, <3>1 DEF Halted
    <3> QED
      BY <3>2, <1>3, <1>6 DEF EndTurn, TypeOK, runs
  <2>6. CASE SweepQueue(a)
    <3>1. PICK B : batch' = [batch EXCEPT ![a] = B]
      BY <2>6 DEF SweepQueue
    <3> QED
      BY <2>6, <3>1, <1>6 DEF SweepQueue, Goto, TypeOK, runs
  <2>7. CASE PutDown(a)
    BY <2>7, <1>6 DEF PutDown, TypeOK
  <2> QED
    BY <1>7, <2>1, <2>2, <2>3, <2>4, <2>5, <2>6, <2>7, <1>5 DEF Act, Walks, Ones
<1>8. ASSUME NEW e \in Envelope, DeliverKept(e) \/ Deliver(e) \/ PickUp(e)
      PROVE  HaltsForCause'
  BY <1>8, <1>1 DEF DeliverKept, Deliver, PickUp, actors
<1>9. (\E r \in Run : StopRun(r)) \/ (\E a \in Agent : Commands(a)) \/ Drain
         => HaltsForCause'
  <2>1. ASSUME NEW r \in Run, StopRun(r)
        PROVE  UNCHANGED <<pc, batch, draining>> /\ stopped \subseteq stopped'
    BY <2>1 DEF StopRun, actors
  <2>2. ASSUME NEW a \in Agent, Commands(a)
        PROVE  UNCHANGED <<pc, batch, draining, stopped>>
    BY <2>2 DEF Commands, Pause, Resume, Discard, StopAgent, runs, actors
  <2>3. Drain => UNCHANGED <<pc, batch, stopped>> /\ draining'
    BY DEF Drain, actors
  <2> QED
    BY <2>1, <2>2, <2>3, <1>1
<1>10. HostEnds => HaltsForCause'
  BY DEF HostEnds, Idle, HaltsForCause
<1>11. Recover \/ UNCHANGED vars => HaltsForCause'
  BY <1>1 DEF Recover, vars, runs, actors
<1> QED
  BY <1>4, <1>7, <1>8, <1>9, <1>10, <1>11 DEF Next, Commands

-----------------------------------------------------------------------------
(* What a host has put down or reported it never works on: an invariant of   *)
(* five parts, each needed by the others.                                    *)

\* Whatever comes from outside opens its conversation: while it has not come,
\* nothing of the conversation has.
OpensFirst ==
    \A d \in Envelope : From[d] = Outside /\ place[d] = "new" =>
        \A e \in OfRun(RunOf[d]) : place[e] = "new"

\* Only what was sent is journalled, put down or reported.
Begun(r) == \E e \in OfRun(r) : place[e] # "new"
OnlyBegun ==
    /\ \A e \in pending \cup rows : place[e] # "new"
    /\ \A r \in putDown \cup reported : Begun(r)

\* Picking up and putting down never overlap: a host drains only once it is
\* open, and puts down only while it drains.
PhasesApart ==
    /\ up /\ draining =>
          \A e \in Envelope : place[e] \notin {"recovered", "repicked"}
    /\ up => whole \subseteq putDown
    /\ ~draining => putDown = {}
    /\ ~up => ~draining /\ \A e \in Envelope : place[e] # "recovered"

\* Nothing of a reported conversation is in anybody's hands.
ReportedIsOver ==
    \A r \in reported : \A e \in OfRun(r) :
        place[e] \notin Booked \cup {"absorbed", "kept", "recovered"}

MarksInv == OpensFirst /\ OnlyBegun /\ PhasesApart /\ WholeMeansIdle /\ ReportedIsOver

\* A message sent now is sent inside a turn of its conversation, or opens one
\* nobody has heard of: in either case none that is put down whole or reported.
LEMMA SentWhere ==
    ASSUME LedgerInv, MarksInv, NEW e \in Envelope, MaySend(e)
    PROVE  /\ RunOf[e] \in Run /\ e \in OfRun(RunOf[e])
           /\ RunOf[e] \notin whole /\ RunOf[e] \notin reported
           /\ \/ From[e] = Outside /\ ~Begun(RunOf[e])
              \/ Live(RunOf[e]) # {}
<1>1. RunOf[e] \in Run /\ e \in OfRun(RunOf[e]) /\ up /\ place[e] = "new"
  BY LedgerAssumption DEF MaySend, OfRun
<1>2. CASE From[e] = Outside
  <2>1. ~Begun(RunOf[e])
    BY <1>1, <1>2 DEF MarksInv, OpensFirst, Begun
  <2> QED
    BY <1>1, <1>2, <2>1 DEF MarksInv, OnlyBegun, PhasesApart
<1>3. CASE From[e] # Outside
  <2>1. From[e] \in Agent /\ TurnOf(From[e], RunOf[e])
    BY <1>3, LedgerAssumption DEF MaySend
  <2>2. PICK d \in batch[From[e]] : d \in OfRun(RunOf[e]) /\ place[d] = "held"
    BY <2>1 DEF TurnOf, LedgerInv, Hands
  <2>3. d \in Live(RunOf[e])
    BY <2>2 DEF Live, Booked
  <2> QED
    BY <1>1, <2>2, <2>3 DEF MarksInv, WholeMeansIdle, ReportedIsOver, Live
<1> QED
  BY <1>2, <1>3

\* A run with a zero in exact books has nothing live.
LEMMA ZeroIsIdle ==
    ASSUME LedgerInv, NEW r \in Run, outstanding[r] = 0
    PROVE  Live(r) = {}
<1>1. Cardinality(Live(r)) = 0 /\ IsFiniteSet(Live(r))
  BY LiveFinite DEF LedgerInv, BookingsExact
<1> QED
  BY <1>1, FS_EmptySet

LEMMA ZeroIsIdleNext ==
    ASSUME LedgerInv', NEW r \in Run, outstanding'[r] = 0
    PROVE  Live(r)' = {}
BY SettledIsEmpty DEF Live, OfRun

LEMMA EndsMarks ==
    ASSUME LedgerInv, LedgerInv', MarksInv, NEW r \in Run, Ends(r)
    PROVE  MarksInv'
<1>1. OpensFirst'
  BY DEF Ends, MarksInv, OpensFirst, OfRun, Booked
<1>2. OnlyBegun'
  BY DEF Ends, MarksInv, OnlyBegun, Begun, OfRun, Booked, LedgerInv, TypeOK
<1>3. PhasesApart'
  BY DEF Ends, MarksInv, PhasesApart, Booked
<1>4. WholeMeansIdle'
  <2>1. ASSUME NEW q \in whole'
        PROVE  Live(q)' = {}
    <3>1. CASE q \in whole
      <4>1. Live(q) = {}
        BY <3>1 DEF MarksInv, WholeMeansIdle, Ends
      <4> QED
        BY <4>1 DEF Ends, Live, OfRun, Booked
    <3>2. CASE q \notin whole
      BY <2>1, <3>2, ZeroIsIdleNext DEF Ends
    <3> QED
      BY <3>1, <3>2
  <2> QED
    BY <2>1 DEF WholeMeansIdle
<1>5. ReportedIsOver'
  BY DEF Ends, MarksInv, ReportedIsOver, OfRun, Booked
<1> QED
  BY <1>1, <1>2, <1>3, <1>4, <1>5 DEF MarksInv

LEMMA PassesMarks ==
    ASSUME LedgerInv, MarksInv, Passes
    PROVE  MarksInv'
<1>1. OpensFirst'
  BY DEF Passes, MarksInv, OpensFirst, OfRun, Booked
<1>2. OnlyBegun'
  BY DEF Passes, MarksInv, OnlyBegun, Begun, OfRun, Booked, LedgerInv, TypeOK, journal, history
<1>3. PhasesApart'
  BY DEF Passes, MarksInv, PhasesApart, Booked, journal
<1>4. WholeMeansIdle'
  BY DEF Passes, MarksInv, WholeMeansIdle, Live, OfRun, Booked, journal
<1>5. ReportedIsOver'
  BY DEF Passes, MarksInv, ReportedIsOver, OfRun, Booked, history
<1> QED
  BY <1>1, <1>2, <1>3, <1>4, <1>5 DEF MarksInv

LEMMA DeliverMarks ==
    ASSUME LedgerInv, MarksInv, NEW e \in Envelope, Deliver(e)
    PROVE  MarksInv'
<1>1. /\ RunOf[e] \in Run /\ e \in OfRun(RunOf[e])
      /\ RunOf[e] \notin whole /\ RunOf[e] \notin reported
      /\ \/ From[e] = Outside /\ ~Begun(RunOf[e])
         \/ Live(RunOf[e]) # {}
  BY SentWhere DEF Deliver
<1>2. /\ place'[e] = "posted"
      /\ \A d \in Envelope \ {e} : place'[d] = place[d]
  BY DEF Deliver, Moved
<1>3. /\ up' = up /\ up
      /\ UNCHANGED <<draining, stopped, putDown, rows, whole, reported>>
      /\ pending' \subseteq pending \cup {e}
  BY DEF Deliver, MaySend, history
<1>4. OpensFirst'
  <2>1. SUFFICES ASSUME NEW d \in Envelope, From[d] = Outside, place'[d] = "new",
                        NEW c \in OfRun(RunOf[d])
                 PROVE  place'[c] = "new"
    BY DEF OpensFirst, OfRun
  <2>2. d # e /\ place[d] = "new" /\ place[c] = "new" /\ c \in Envelope
    BY <2>1, <1>2 DEF MarksInv, OpensFirst, OfRun
  <2>3. c # e
    <3>1. SUFFICES ASSUME c = e PROVE FALSE
      OBVIOUS
    <3>2. RunOf[d] = RunOf[e] /\ ~Begun(RunOf[e]) => From[e] # Outside
      BY <2>1, <2>2, LedgerAssumption
    <3>3. RunOf[d] = RunOf[e] /\ Live(RunOf[e]) = {}
      BY <2>1, <2>2, <3>1 DEF MarksInv, OpensFirst, OfRun, Live, Booked
    <3> QED
      BY <1>1, <3>2, <3>3
  <2> QED
    BY <2>2, <2>3, <1>2
<1>5. OnlyBegun'
  BY <1>2, <1>3 DEF MarksInv, OnlyBegun, Begun, OfRun, LedgerInv, TypeOK
<1>6. PhasesApart'
  BY <1>2, <1>3 DEF MarksInv, PhasesApart
<1>7. WholeMeansIdle'
  BY <1>1, <1>2, <1>3 DEF MarksInv, WholeMeansIdle, Live, OfRun
<1>8. ReportedIsOver'
  BY <1>1, <1>2, <1>3 DEF MarksInv, ReportedIsOver, OfRun
<1> QED
  BY <1>4, <1>5, <1>6, <1>7, <1>8 DEF MarksInv
LEMMA DeliverKeptMarks ==
    ASSUME LedgerInv, MarksInv, NEW e \in Envelope, DeliverKept(e)
    PROVE  MarksInv'
<1>1. /\ RunOf[e] \in Run /\ e \in OfRun(RunOf[e])
      /\ RunOf[e] \notin whole /\ RunOf[e] \notin reported
      /\ \/ From[e] = Outside /\ ~Begun(RunOf[e])
         \/ Live(RunOf[e]) # {}
  BY SentWhere DEF DeliverKept
<1>2. /\ place'[e] = "kept"
      /\ \A d \in Envelope \ {e} : place'[d] = place[d]
      /\ place[e] = "new"
  BY DEF DeliverKept, MaySend, Moved
<1>3. /\ up' = up /\ up /\ draining' = draining /\ draining
      /\ reported' = reported /\ putDown' = putDown \cup {RunOf[e]}
      /\ pending' = pending \cup {e} /\ rows' = rows \cup {e}
      /\ \/ whole' = whole
         \/ whole' = whole \cup {RunOf[e]} /\ outstanding[RunOf[e]] = 0
  BY DEF DeliverKept, MaySend, PutsDown, history
<1>4. OpensFirst'
  <2>1. SUFFICES ASSUME NEW d \in Envelope, From[d] = Outside, place'[d] = "new",
                        NEW c \in OfRun(RunOf[d])
                 PROVE  place'[c] = "new"
    BY DEF OpensFirst, OfRun
  <2>2. d # e /\ place[d] = "new" /\ place[c] = "new" /\ c \in Envelope
    BY <2>1, <1>2 DEF MarksInv, OpensFirst, OfRun
  <2>3. c # e
    <3>1. SUFFICES ASSUME c = e PROVE FALSE
      OBVIOUS
    <3>2. RunOf[d] = RunOf[e] /\ ~Begun(RunOf[e]) => From[e] # Outside
      BY <2>1, <2>2, LedgerAssumption
    <3>3. RunOf[d] = RunOf[e] /\ Live(RunOf[e]) = {}
      BY <2>1, <2>2, <3>1 DEF MarksInv, OpensFirst, OfRun, Live, Booked
    <3> QED
      BY <1>1, <3>2, <3>3
  <2> QED
    BY <2>2, <2>3, <1>2
<1>5. OnlyBegun'
  <2>1. \A r \in Run : Begun(r) => Begun(r)'
    BY <1>2 DEF Begun, OfRun
  <2>2. Begun(RunOf[e])'
    BY <1>1, <1>2 DEF Begun, OfRun
  <2>3. \A r \in putDown' \cup reported' : Begun(r)'
    BY <2>1, <2>2, <1>3 DEF MarksInv, OnlyBegun, LedgerInv, TypeOK
  <2>4. \A d \in pending' \cup rows' : place'[d] # "new"
    BY <1>2, <1>3 DEF MarksInv, OnlyBegun, LedgerInv, TypeOK
  <2> QED
    BY <2>3, <2>4 DEF OnlyBegun
<1>6. PhasesApart'
  BY <1>2, <1>3 DEF MarksInv, PhasesApart
<1>7. WholeMeansIdle'
  <2>1. ASSUME NEW q \in whole'
        PROVE  Live(q) = {}
    BY <2>1, <1>1, <1>3, ZeroIsIdle DEF MarksInv, WholeMeansIdle
  <2>2. ASSUME NEW q \in whole'
        PROVE  Live(q)' = {}
    BY <2>1, <2>2, <1>2 DEF Live, OfRun, Booked
  <2> QED
    BY <2>2 DEF WholeMeansIdle
<1>8. ReportedIsOver'
  BY <1>1, <1>2, <1>3 DEF MarksInv, ReportedIsOver, OfRun
<1> QED
  BY <1>4, <1>5, <1>6, <1>7, <1>8 DEF MarksInv

LEMMA PickUpMarks ==
    ASSUME LedgerInv, MarksInv, NEW e \in Envelope, PickUp(e)
    PROVE  MarksInv'
<1>1. /\ place[e] = "recovered" /\ place'[e] = "repicked" /\ up /\ up' /\ RunOf[e] \in Run
      /\ \A d \in Envelope \ {e} : place'[d] = place[d]
      /\ UNCHANGED <<draining, putDown, pending, rows, whole, reported>>
  BY LedgerAssumption DEF PickUp, Moved, journal, LedgerInv, TypeOK
<1>2. ~draining /\ putDown = {} /\ whole = {}
  BY <1>1 DEF MarksInv, PhasesApart
<1>3. OpensFirst'
  BY <1>1 DEF MarksInv, OpensFirst, OfRun
<1>4. OnlyBegun'
  BY <1>1 DEF MarksInv, OnlyBegun, Begun, OfRun, LedgerInv, TypeOK
<1>5. PhasesApart'
  BY <1>1, <1>2 DEF PhasesApart
<1>6. WholeMeansIdle'
  BY <1>1, <1>2 DEF WholeMeansIdle
<1>7. ReportedIsOver'
  BY <1>1 DEF MarksInv, ReportedIsOver, OfRun
<1> QED
  BY <1>3, <1>4, <1>5, <1>6, <1>7 DEF MarksInv

LEMMA PutDownMarks ==
    ASSUME LedgerInv, LedgerInv', HaltsForCause, MarksInv, NEW a \in Agent, PutDown(a)
    PROVE  MarksInv'
<1> DEFINE down == batch[a] \cup taken[a]
<1>1. /\ up /\ up' /\ draining /\ draining'
      /\ UNCHANGED <<pending, reported>>
      /\ putDown' = putDown \cup RunsOf(down)
      /\ \A e \in Envelope : place'[e] = place[e] \/ (e \in down /\ place'[e] \in {"kept", "cut"})
  <2>1. draining /\ up /\ UNCHANGED <<up, draining, pending, reported>>
    BY DEF PutDown, HaltsForCause, history
  <2>2. putDown' = putDown \cup RunsOf(down)
    BY DEF PutDown
  <2>3. place' = Moved(down, "kept") \/ place' = Moved(down, "cut")
    BY DEF PutDown
  <2> QED
    BY <2>1, <2>2, <2>3 DEF Moved
<1>2. \A e \in down : e \in Envelope /\ place[e] \in {"held", "absorbed"}
                     /\ place'[e] \in {"kept", "cut"} /\ RunOf[e] \in Run
  BY LedgerAssumption DEF PutDown, Moved, LedgerInv, Hands, TypeOK
<1>3. \/ rows' = rows /\ whole' = whole
      \/ rows' = rows \cup down /\ whole' = whole \cup NowIdle(a)
  BY DEF PutDown
<1>4. \A r \in NowIdle(a) : r \in RunsOf(down) /\ r \in Run /\ outstanding'[r] = 0
  BY <1>2 DEF NowIdle, PutDown, RunsOf
<1> HIDE DEF down
<1>5. OpensFirst'
  BY <1>1, <1>2 DEF MarksInv, OpensFirst, OfRun
<1>6. OnlyBegun'
  <2>1. \A r \in Run : Begun(r) => Begun(r)'
    BY <1>1 DEF Begun, OfRun
  <2>2. \A r \in RunsOf(down) : Begun(r)'
    BY <1>2 DEF Begun, OfRun, RunsOf
  <2>3. \A r \in putDown' \cup reported' : Begun(r)'
    BY <2>1, <2>2, <1>1 DEF MarksInv, OnlyBegun, LedgerInv, TypeOK
  <2>4. \A d \in pending' \cup rows' : place'[d] # "new"
    BY <1>1, <1>2, <1>3 DEF MarksInv, OnlyBegun, LedgerInv, TypeOK
  <2> QED
    BY <2>3, <2>4 DEF OnlyBegun
<1>7. PhasesApart'
  BY <1>1, <1>3, <1>4 DEF MarksInv, PhasesApart
<1>8. WholeMeansIdle'
  <2>1. ASSUME NEW q \in whole'
        PROVE  Live(q)' = {}
    <3>1. CASE q \in whole
      <4>1. Live(q) = {}
        BY <3>1, <1>1 DEF MarksInv, WholeMeansIdle
      <4> QED
        BY <4>1, <1>1 DEF Live, OfRun, Booked
    <3>2. CASE q \in NowIdle(a)
      BY <3>2, <1>4, ZeroIsIdleNext
    <3> QED
      BY <2>1, <1>3, <3>1, <3>2
  <2> QED
    BY <2>1 DEF WholeMeansIdle
<1>9. ReportedIsOver'
  BY <1>1, <1>2 DEF MarksInv, ReportedIsOver, OfRun, Booked
<1> QED
  BY <1>5, <1>6, <1>7, <1>8, <1>9 DEF MarksInv

LEMMA StopRunMarks ==
    ASSUME LedgerInv, MarksInv, NEW r \in Run, StopRun(r)
    PROVE  MarksInv'
<1>1. /\ up /\ up' /\ UNCHANGED <<draining, reported>>
      /\ putDown' \subseteq putDown /\ rows' \subseteq rows /\ pending' \subseteq pending
      /\ whole' \subseteq whole
      /\ r \in putDown => putDown' = putDown \ {r} /\ whole' = whole \ {r}
      /\ r \notin putDown => putDown' = putDown /\ whole' = whole
      /\ \A e \in Envelope : \/ place'[e] = place[e]
                             \/ place[e] = "kept" /\ place'[e] = "ended"
  BY DEF StopRun, Open, Moved
<1>2. OpensFirst'
  BY <1>1 DEF MarksInv, OpensFirst, OfRun
<1>3. OnlyBegun'
  BY <1>1 DEF MarksInv, OnlyBegun, Begun, OfRun, LedgerInv, TypeOK
<1>4. PhasesApart'
  BY <1>1 DEF MarksInv, PhasesApart
<1>5. WholeMeansIdle'
  BY <1>1 DEF MarksInv, WholeMeansIdle, Live, OfRun, Booked
<1>6. ReportedIsOver'
  BY <1>1 DEF MarksInv, ReportedIsOver, OfRun, Booked
<1> QED
  BY <1>2, <1>3, <1>4, <1>5, <1>6 DEF MarksInv

LEMMA DrainMarks ==
    ASSUME MarksInv, Drain
    PROVE  MarksInv'
<1>1. /\ up /\ \A e \in Envelope : place[e] \notin {"recovered", "repicked"}
      /\ UNCHANGED <<up, putDown, place, pending, rows, whole, reported>>
  BY DEF Drain, Open, journal, history
<1>2. OpensFirst' /\ OnlyBegun' /\ WholeMeansIdle' /\ ReportedIsOver'
  BY <1>1 DEF MarksInv, OpensFirst, OnlyBegun, Begun, WholeMeansIdle, ReportedIsOver, Live, OfRun
<1>3. PhasesApart'
  <2>1. ~draining /\ draining'
    BY DEF Drain
  <2> QED
    BY <1>1, <2>1 DEF MarksInv, PhasesApart
<1> QED
  BY <1>2, <1>3 DEF MarksInv

LEMMA HostEndsMarks ==
    ASSUME LedgerInv, MarksInv, HostEnds
    PROVE  MarksInv'
<1>1. \A e \in Envelope :
        /\ place'[e] = place[e] \/ place'[e] \in {"cut", "swallowed"}
        /\ place'[e] \notin Booked \cup {"absorbed", "recovered"}
        /\ place[e] # "new" => place'[e] # "new"
        /\ place[e] = "new" => place'[e] = "new"
  BY DEF HostEnds, Booked, LedgerInv, TypeOK, Place
<1>2. /\ ~up' /\ ~draining' /\ putDown' = {}
      /\ UNCHANGED <<pending, rows, whole, reported>>
  BY DEF HostEnds, journal, history
<1>3. OpensFirst'
  BY <1>1 DEF MarksInv, OpensFirst, OfRun
<1>4. OnlyBegun'
  BY <1>1, <1>2 DEF MarksInv, OnlyBegun, Begun, OfRun, LedgerInv, TypeOK
<1>5. PhasesApart' /\ WholeMeansIdle'
  BY <1>1, <1>2 DEF PhasesApart, WholeMeansIdle
<1>6. ReportedIsOver'
  BY <1>1, <1>2 DEF MarksInv, ReportedIsOver, OfRun
<1> QED
  BY <1>3, <1>4, <1>5, <1>6 DEF MarksInv

LEMMA RecoverMarks ==
    ASSUME LedgerInv, MarksInv, Recover
    PROVE  MarksInv'
<1>1. \A e \in Envelope : place[e] \notin Booked \cup {"absorbed", "recovered"}
  BY DEF Recover, LedgerInv, Hands, MarksInv, PhasesApart
<1>2. \A e \in Envelope :
        /\ e \in Resumed => place[e] = "kept" /\ place'[e] = "recovered"
        /\ e \notin Resumed => \/ place[e] = "kept" /\ place'[e] = "cut"
                               \/ place[e] # "kept" /\ place'[e] = place[e]
  <2>1. \A e \in Resumed : place[e] = "kept"
    BY DEF LedgerInv, Hands, Resumed
  <2> QED
    BY <2>1 DEF Recover
<1>3. /\ ~up /\ up' /\ UNCHANGED <<draining, putDown>> /\ ~draining /\ whole' = {}
      /\ rows' = {} /\ pending' \subseteq pending \cup rows
      /\ reported' = reported \cup Interrupted
  BY DEF Recover, runs, Resumed, MarksInv, PhasesApart
<1>4. OpensFirst'
  BY <1>2 DEF MarksInv, OpensFirst, OfRun
<1>5. OnlyBegun'
  <2>1. \A r \in Interrupted : Begun(r)
    BY DEF Interrupted, RunsOf, Begun, OfRun, MarksInv, OnlyBegun, LedgerInv, TypeOK
  <2>2. \A r \in Run : Begun(r) => Begun(r)'
    BY <1>2 DEF Begun, OfRun
  <2>3. Interrupted \subseteq Run
    BY LedgerAssumption DEF Interrupted, RunsOf, LedgerInv, TypeOK
  <2>4. \A r \in putDown' \cup reported' : Begun(r)'
    BY <1>3, <2>1, <2>2, <2>3 DEF MarksInv, OnlyBegun, LedgerInv, TypeOK
  <2>5. \A d \in pending' \cup rows' : place'[d] # "new"
    BY <1>2, <1>3 DEF MarksInv, OnlyBegun, LedgerInv, TypeOK
  <2> QED
    BY <2>4, <2>5 DEF OnlyBegun
<1>6. PhasesApart'
  <2>1. putDown = {}
    BY <1>3 DEF MarksInv, PhasesApart
  <2> QED
    BY <1>3, <2>1 DEF PhasesApart
<1>7. WholeMeansIdle'
  BY <1>3 DEF WholeMeansIdle
<1>8. ReportedIsOver'
  <2>1. SUFFICES ASSUME NEW r \in reported', NEW e \in OfRun(r)
                 PROVE  place'[e] \notin Booked \cup {"absorbed", "kept", "recovered"}
    BY DEF ReportedIsOver, OfRun
  <2>2. e \in Envelope /\ RunOf[e] = r
    BY <2>1 DEF OfRun
  <2>3. e \notin Resumed
    <3>1. CASE r \in reported
      BY <3>1, <2>2, <1>2 DEF MarksInv, ReportedIsOver, OfRun
    <3>2. CASE r \in Interrupted
      BY <3>2, <2>2 DEF Interrupted, RunsOf
    <3> QED
      BY <2>1, <1>3, <3>1, <3>2
  <2> QED
    BY <2>2, <2>3, <1>1, <1>2 DEF Booked
<1> QED
  BY <1>4, <1>5, <1>6, <1>7, <1>8 DEF MarksInv

LEMMA NextMarks ==
    LedgerInv /\ HaltsForCause /\ MarksInv /\ [Next]_vars => MarksInv'
<1> SUFFICES ASSUME LedgerInv, HaltsForCause, MarksInv, [Next]_vars, LedgerInv'
             PROVE  MarksInv'
  BY NextLedger
<1>1. UNCHANGED vars => MarksInv'
  BY DEF vars, runs, journal, history, MarksInv, OpensFirst, OnlyBegun, Begun, PhasesApart,
         WholeMeansIdle, ReportedIsOver, Live, OfRun
<1> QED
  BY <1>1, StepKinds, EndsMarks, PassesMarks, DeliverMarks, DeliverKeptMarks, PickUpMarks,
     PutDownMarks, StopRunMarks, DrainMarks, HostEndsMarks, RecoverMarks

\* The whole invariant, from the initial states on.
LedgerMarks == LedgerInv /\ HaltsForCause /\ MarksInv

LEMMA MarksInvariant == Spec => []LedgerMarks
<1>1. Init => LedgerMarks
  <2> SUFFICES ASSUME Init PROVE HaltsForCause /\ MarksInv
    BY InitLedger DEF LedgerMarks
  <2>1. HaltsForCause
    BY DEF Init, Idle, HaltsForCause
  <2>2. MarksInv
    BY DEF Init, MarksInv, OpensFirst, OnlyBegun, PhasesApart, WholeMeansIdle,
           ReportedIsOver, OfRun
  <2> QED
    BY <2>1, <2>2
<1>2. LedgerMarks /\ [Next]_vars => LedgerMarks'
  BY NextLedger, NextHaltsForCause, NextMarks DEF LedgerMarks
<1> QED
  BY <1>1, <1>2, PTL DEF Spec

\* put_down_runs: a conversation marked whole has nothing running in it, whatever
\* stops, sends, drains, failed writes and restarts came before.
THEOREM WholeIsIdle == Spec => []WholeMeansIdle
<1>1. LedgerMarks => WholeMeansIdle
  BY DEF LedgerMarks, MarksInv
<1> QED
  BY <1>1, MarksInvariant, PTL

\* Store::recover: what one host reported interrupted no later host books, keeps
\* or reads back, so nothing the operator was told died is answered after all.
THEOREM ReportedStaysOver == Spec => []NeverReplayed
<1>1. LedgerMarks => NeverReplayed
  BY DEF LedgerMarks, MarksInv, ReportedIsOver, NeverReplayed
<1> QED
  BY <1>1, MarksInvariant, PTL

-----------------------------------------------------------------------------
(* What the process ended under is on the journal and comes back as a report, *)
(* as long as the store takes what is written to it while work is put down.   *)

\* The next host or the operator has dealt with the message: its run was
\* reported or called off, or settled under a host that had begun to pick it up.
Accounted(e) ==
    \/ RunOf[e] \in reported \cup calledOff
    \/ pickups[RunOf[e]] > 0 /\ settled[RunOf[e]] > 0

\* Whatever is kept has its row, and whatever is booked its pending row: the
\* run that has lost it was called off, or settled with the rest unread.
Journalled ==
    /\ stopped \subseteq calledOff
    /\ \A e \in Envelope : place[e] = "kept" => e \in rows
    /\ up => \A e \in Envelope : place[e] \in Booked \cup {"recovered"} =>
                 e \in pending \/ Accounted(e)
    /\ \A e \in Envelope : place[e] = "recovered" /\ Live(RunOf[e]) # {} =>
           pickups[RunOf[e]] > 0

\* A message the process ended under ends its conversation: nothing of it is in
\* hand, and nothing of it is read back.
CutIsOver ==
    \A d \in Envelope : place[d] = "cut" =>
        /\ ~up => RunOf[d] \notin RunsOf(Resumed)
        /\ up => \A e \in OfRun(RunOf[d]) :
                   place[e] \notin Booked \cup {"absorbed", "kept", "recovered"}

\* Between two hosts, what the last one ended under is on the journal.
CutIsJournalled ==
    ~up => \A e \in Envelope : place[e] = "cut" => e \in pending \/ Accounted(e)

IntactInv == Journalled /\ CutIsOver /\ CutIsJournalled /\ NothingSilent

\* What is accounted for stays so.
LEMMA AccountedGrows ==
    ASSUME TypeOK, NEW e \in Envelope, Accounted(e),
           reported \subseteq reported', calledOff \subseteq calledOff',
           \/ settled' = settled
           \/ \E r \in Run : settled' = [settled EXCEPT ![r] = @ + 1],
           \/ pickups' = pickups
           \/ \E r \in Run : pickups' = [pickups EXCEPT ![r] = @ + 1]
    PROVE  Accounted(e)'
<1>1. RunOf[e] \in Run /\ settled[RunOf[e]] \in Nat /\ pickups[RunOf[e]] \in Nat
  BY LedgerAssumption DEF TypeOK
<1>2. settled'[RunOf[e]] \in Nat /\ settled'[RunOf[e]] >= settled[RunOf[e]]
  BY <1>1 DEF TypeOK
<1>3. pickups'[RunOf[e]] \in Nat /\ pickups'[RunOf[e]] >= pickups[RunOf[e]]
  BY <1>1 DEF TypeOK
<1> QED
  BY <1>1, <1>2, <1>3 DEF Accounted

LEMMA EndsIntact ==
    ASSUME LedgerInv, LedgerInv', IntactInv, NEW r \in Run, Ends(r)
    PROVE  IntactInv'
<1> USE DEF IntactInv
<1>1. \A e \in Envelope : Accounted(e) => Accounted(e)'
  BY AccountedGrows DEF Ends, LedgerInv
<1>2. Journalled'
  <2>1. stopped' \subseteq calledOff'
    BY DEF Ends, Journalled
  <2>2. \A e \in Envelope : place'[e] = "kept" => e \in rows'
    BY DEF Ends, Journalled
  <2>3. ASSUME NEW e \in Envelope, place'[e] \in Booked \cup {"recovered"}
        PROVE  e \in pending' \/ Accounted(e)'
    <3>1. place[e] = place'[e] /\ (e \in pending \/ Accounted(e))
      BY <2>3 DEF Ends, Journalled, Booked
    <3>2. CASE pending' = pending
      BY <3>1, <3>2, <1>1
    <3>3. CASE /\ pending' = pending \ OfRun(r)
               /\ settled' = [settled EXCEPT ![r] = @ + 1]
               /\ outstanding'[r] = 0
      <4>1. CASE e \notin OfRun(r)
        BY <3>1, <3>3, <4>1, <1>1
      <4>2. CASE e \in OfRun(r)
        <5>1. place'[e] = "recovered" /\ RunOf[e] = r
          BY <2>3, <3>3, <4>2, SettledIsEmpty DEF OfRun
        <5>2. pickups[r] > 0 /\ pickups' = pickups
          BY <3>1, <5>1 DEF Ends, Journalled
        <5>3. settled'[r] > 0
          BY <3>3 DEF LedgerInv, TypeOK
        <5> QED
          BY <5>1, <5>2, <5>3 DEF Accounted
      <4> QED
        BY <4>1, <4>2
    <3> QED
      BY <3>2, <3>3 DEF Ends
  <2>4. ASSUME NEW e \in Envelope, place'[e] = "recovered", Live(RunOf[e])' # {}
        PROVE  pickups'[RunOf[e]] > 0
    <3>1. place[e] = "recovered" /\ Live(RunOf[e]) # {}
      BY <2>4 DEF Ends, Live, OfRun, Booked
    <3> QED
      BY <3>1 DEF Ends, Journalled
  <2> QED
    BY <2>1, <2>2, <2>3, <2>4 DEF Journalled
<1>3. CutIsOver'
  BY DEF Ends, CutIsOver, OfRun, Booked
<1>4. CutIsJournalled' /\ NothingSilent'
  BY <1>1 DEF Ends, CutIsJournalled, NothingSilent, Accounted
<1> QED
  BY <1>2, <1>3, <1>4

LEMMA PassesIntact ==
    ASSUME LedgerInv, IntactInv, Passes
    PROVE  IntactInv'
<1> USE DEF IntactInv
<1>1. \A e \in Envelope : Accounted(e)' <=> Accounted(e)
  BY DEF Passes, Accounted, history
<1>2. Journalled'
  BY <1>1 DEF Passes, Journalled, Live, OfRun, Booked, journal, history
<1>3. CutIsOver'
  BY DEF Passes, CutIsOver, OfRun, Booked
<1>4. CutIsJournalled' /\ NothingSilent'
  BY <1>1 DEF Passes, CutIsJournalled, NothingSilent, Accounted
<1> QED
  BY <1>2, <1>3, <1>4

\* A sent message belongs to no conversation something of which was cut short.
LEMMA SentIsNotCut ==
    ASSUME LedgerInv, MarksInv, IntactInv, NEW e \in Envelope, MaySend(e),
           NEW d \in Envelope, place[d] = "cut"
    PROVE  RunOf[d] # RunOf[e]
<1>1. up /\ (~Begun(RunOf[e]) \/ Live(RunOf[e]) # {})
  BY SentWhere DEF MaySend
<1>2. Live(RunOf[d]) = {} /\ Begun(RunOf[d])
  BY <1>1 DEF IntactInv, CutIsOver, Live, Begun, OfRun
<1> QED
  BY <1>1, <1>2

LEMMA DeliverIntact ==
    ASSUME LedgerInv, MarksInv, IntactInv, NEW e \in Envelope, Deliver(e)
    PROVE  IntactInv'
<1>1. /\ up /\ up' /\ place[e] = "new" /\ place'[e] = "posted"
      /\ \A d \in Envelope \ {e} : place'[d] = place[d]
      /\ UNCHANGED <<stopped, rows, whole>> /\ UNCHANGED history
      /\ pending' = IF RunOf[e] \in stopped THEN pending ELSE pending \cup {e}
  BY DEF Deliver, MaySend, Moved
<1>2. \A d \in Envelope : Accounted(d)' <=> Accounted(d)
  BY <1>1 DEF Accounted, history
<1>3. Journalled'
  <2>1. stopped' \subseteq calledOff' /\ \A d \in Envelope : place'[d] = "kept" => d \in rows'
    BY <1>1 DEF IntactInv, Journalled, history
  <2>2. ASSUME NEW d \in Envelope, place'[d] \in Booked \cup {"recovered"}
        PROVE  d \in pending' \/ Accounted(d)'
    <3>1. CASE d = e
      <4>1. RunOf[e] \in stopped => Accounted(e)
        BY DEF IntactInv, Journalled, Accounted
      <4> QED
        BY <3>1, <4>1, <1>1, <1>2
    <3>2. CASE d # e
      BY <2>2, <3>2, <1>1, <1>2 DEF IntactInv, Journalled
    <3> QED
      BY <3>1, <3>2
  <2>3. ASSUME NEW d \in Envelope, place'[d] = "recovered", Live(RunOf[d])' # {}
        PROVE  pickups'[RunOf[d]] > 0
    <3>1. place[d] = "recovered" /\ d # e
      BY <2>3, <1>1
    <3>2. From[e] # Outside
      BY <3>1 DEF Deliver, MaySend, Open
    <3>3. Live(RunOf[e]) # {}
      BY <3>2, SentWhere DEF Deliver
    <3>4. Live(RunOf[d]) # {}
      <4>1. CASE RunOf[d] = RunOf[e]
        BY <3>3, <4>1
      <4>2. CASE RunOf[d] # RunOf[e]
        BY <2>3, <4>2, <1>1 DEF Live, OfRun
      <4> QED
        BY <4>1, <4>2
    <3> QED
      BY <3>1, <3>4, <1>1 DEF IntactInv, Journalled, history
  <2> QED
    BY <2>1, <2>2, <2>3 DEF Journalled
<1>4. CutIsOver'
  <2>1. \A d \in Envelope : place[d] = "cut" => RunOf[d] # RunOf[e]
    BY SentIsNotCut DEF Deliver
  <2> QED
    BY <2>1, <1>1 DEF IntactInv, CutIsOver, OfRun
<1>5. CutIsJournalled' /\ NothingSilent'
  BY <1>1, <1>2 DEF IntactInv, CutIsJournalled, NothingSilent, Accounted
<1> QED
  BY <1>3, <1>4, <1>5 DEF IntactInv

LEMMA DeliverKeptIntact ==
    ASSUME LedgerInv, MarksInv, IntactInv, NEW e \in Envelope, DeliverKept(e)
    PROVE  IntactInv'
<1>1. /\ up /\ up' /\ place[e] = "new" /\ place'[e] = "kept"
      /\ \A d \in Envelope \ {e} : place'[d] = place[d]
      /\ UNCHANGED stopped /\ UNCHANGED history
      /\ rows' = rows \cup {e} /\ pending' = pending \cup {e}
  BY DEF DeliverKept, MaySend, Moved
<1>2. \A d \in Envelope : Accounted(d)' <=> Accounted(d)
  BY <1>1 DEF Accounted, history
<1>3. Journalled'
  BY <1>1, <1>2 DEF IntactInv, Journalled, Live, OfRun, Booked, history
<1>4. CutIsOver'
  <2>1. \A d \in Envelope : place[d] = "cut" => RunOf[d] # RunOf[e]
    BY SentIsNotCut DEF DeliverKept
  <2> QED
    BY <2>1, <1>1 DEF IntactInv, CutIsOver, OfRun
<1>5. CutIsJournalled' /\ NothingSilent'
  BY <1>1, <1>2 DEF IntactInv, CutIsJournalled, NothingSilent, Accounted
<1> QED
  BY <1>3, <1>4, <1>5 DEF IntactInv

LEMMA PickUpIntact ==
    ASSUME LedgerInv, IntactInv, NEW e \in Envelope, PickUp(e)
    PROVE  IntactInv'
<1>1. /\ up /\ up' /\ place[e] = "recovered" /\ place'[e] = "repicked"
      /\ \A d \in Envelope \ {e} : place'[d] = place[d]
      /\ UNCHANGED <<stopped, rows, pending, settled, calledOff, reported>>
      /\ pickups' = [pickups EXCEPT ![RunOf[e]] = @ + 1] /\ RunOf[e] \in Run
  BY LedgerAssumption DEF PickUp, Moved, journal
<1>2. \A d \in Envelope : Accounted(d) => Accounted(d)'
  BY <1>1, AccountedGrows DEF LedgerInv
<1>3. Journalled'
  <2>1. stopped' \subseteq calledOff' /\ \A d \in Envelope : place'[d] = "kept" => d \in rows'
    BY <1>1 DEF IntactInv, Journalled
  <2>2. \A d \in Envelope : place'[d] \in Booked \cup {"recovered"} =>
           d \in pending' \/ Accounted(d)'
    BY <1>1, <1>2 DEF IntactInv, Journalled
  <2>3. ASSUME NEW d \in Envelope, place'[d] = "recovered", Live(RunOf[d])' # {}
        PROVE  pickups'[RunOf[d]] > 0
    <3>1. RunOf[d] \in Run /\ pickups \in [Run -> Nat] /\ place[d] = "recovered"
      BY <2>3, <1>1, LedgerAssumption DEF LedgerInv, TypeOK
    <3>2. CASE RunOf[d] = RunOf[e]
      BY <3>1, <3>2, <1>1
    <3>3. CASE RunOf[d] # RunOf[e]
      <4>1. Live(RunOf[d]) # {}
        BY <2>3, <3>3, <1>1 DEF Live, OfRun
      <4> QED
        BY <3>1, <3>3, <4>1, <1>1 DEF IntactInv, Journalled
    <3> QED
      BY <3>2, <3>3
  <2> QED
    BY <2>1, <2>2, <2>3 DEF Journalled
<1>4. CutIsOver'
  BY <1>1 DEF IntactInv, CutIsOver, OfRun
<1>5. CutIsJournalled' /\ NothingSilent'
  BY <1>1, <1>2 DEF IntactInv, CutIsJournalled, NothingSilent, Accounted
<1> QED
  BY <1>3, <1>4, <1>5 DEF IntactInv

LEMMA PutDownIntact ==
    ASSUME ~StoreFails, LedgerInv, IntactInv, NEW a \in Agent, PutDown(a)
    PROVE  IntactInv'
<1> DEFINE down == batch[a] \cup taken[a]
<1>1. /\ up /\ up' /\ UNCHANGED <<stopped, pending>> /\ UNCHANGED history
      /\ rows' = rows \cup down /\ place' = Moved(down, "kept")
  BY DEF PutDown
<1>2. \A e \in down : e \in Envelope /\ place[e] \in Booked \cup {"absorbed"}
  BY DEF LedgerInv, Hands, TypeOK, Booked
<1> HIDE DEF down
<1>3. \A e \in Envelope : \/ place'[e] = place[e]
                          \/ e \in down /\ place'[e] = "kept"
  <2>1. place' = Moved(down, "kept")
    BY <1>1
  <2> QED
    BY <2>1 DEF Moved
<1>4. \A e \in Envelope : Accounted(e)' <=> Accounted(e)
  BY <1>1 DEF Accounted, history
<1>5. Journalled'
  BY <1>1, <1>3, <1>4 DEF IntactInv, Journalled, Live, OfRun, Booked, history
<1>6. CutIsOver'
  BY <1>1, <1>2, <1>3 DEF IntactInv, CutIsOver, OfRun
<1>7. CutIsJournalled' /\ NothingSilent'
  BY <1>1, <1>3, <1>4 DEF IntactInv, CutIsJournalled, NothingSilent, Accounted
<1> QED
  BY <1>5, <1>6, <1>7 DEF IntactInv

LEMMA StopRunIntact ==
    ASSUME LedgerInv, IntactInv, NEW r \in Run, StopRun(r)
    PROVE  IntactInv'
<1>1. /\ up /\ up' /\ stopped' = stopped \cup {r} /\ calledOff' = calledOff \cup {r}
      /\ pending' = pending \ OfRun(r) /\ UNCHANGED <<settled, pickups, reported>>
      /\ \/ rows' = rows /\ place' = place
         \/ /\ rows' = rows \ OfRun(r)
            /\ place' = Moved({e \in OfRun(r) : place[e] = "kept"}, "ended")
  BY DEF StopRun, Open
<1>2. \A e \in Envelope : \/ place'[e] = place[e]
                          \/ place[e] = "kept" /\ place'[e] = "ended"
  <2>1. \/ place' = place
        \/ place' = Moved({e \in OfRun(r) : place[e] = "kept"}, "ended")
    BY <1>1
  <2> QED
    BY <2>1 DEF Moved
<1>3. \A e \in Envelope : Accounted(e) => Accounted(e)'
  BY <1>1 DEF Accounted
<1>4. \A e \in OfRun(r) : Accounted(e)'
  BY <1>1 DEF Accounted, OfRun
<1>5. Journalled'
  <2>1. stopped' \subseteq calledOff'
    BY <1>1 DEF IntactInv, Journalled
  <2>2. \A e \in Envelope : place'[e] = "kept" => e \in rows'
    BY <1>1, <1>2 DEF IntactInv, Journalled, Moved
  <2>3. \A e \in Envelope : place'[e] \in Booked \cup {"recovered"} =>
           e \in pending' \/ Accounted(e)'
    BY <1>1, <1>2, <1>3, <1>4 DEF IntactInv, Journalled, Booked
  <2>4. \A e \in Envelope : place'[e] = "recovered" /\ Live(RunOf[e])' # {} =>
           pickups'[RunOf[e]] > 0
    BY <1>1, <1>2 DEF IntactInv, Journalled, Live, OfRun, Booked
  <2> QED
    BY <2>1, <2>2, <2>3, <2>4 DEF Journalled
<1>6. CutIsOver'
  BY <1>1, <1>2 DEF IntactInv, CutIsOver, OfRun, Booked
<1>7. CutIsJournalled' /\ NothingSilent'
  BY <1>1, <1>2, <1>3 DEF IntactInv, CutIsJournalled, NothingSilent, Accounted
<1> QED
  BY <1>5, <1>6, <1>7 DEF IntactInv

LEMMA HostEndsIntact ==
    ASSUME LedgerInv, MarksInv, IntactInv, HostEnds
    PROVE  IntactInv'
<1>1. \A e \in Envelope :
        /\ place'[e] \notin Booked \cup {"recovered", "absorbed"}
        /\ place'[e] = "kept" => place[e] = "kept"
        /\ place'[e] = "cut" => place[e] \in Booked \cup {"recovered", "cut"}
  BY DEF HostEnds, Booked, LedgerInv, TypeOK, Place
<1>2. up /\ ~up' /\ stopped' = {} /\ UNCHANGED journal /\ UNCHANGED history
  BY DEF HostEnds
<1>3. \A e \in Envelope : Accounted(e)' <=> Accounted(e)
  BY <1>2 DEF Accounted, history
<1>4. Journalled'
  BY <1>1, <1>2 DEF IntactInv, Journalled, journal
<1>5. CutIsOver'
  <2>1. SUFFICES ASSUME NEW d \in Envelope, place'[d] = "cut", NEW e \in rows,
                        RunOf[e] \in whole, RunOf[e] = RunOf[d]
                 PROVE  FALSE
    BY <1>2 DEF CutIsOver, Resumed, RunsOf, journal
  <2>2. e \in OfRun(RunOf[d]) /\ place[e] = "kept"
    BY <2>1 DEF LedgerInv, TypeOK, Hands, OfRun
  <2>3. CASE place[d] \in Booked
    <3>1. d \in Live(RunOf[d])
      BY <2>3 DEF Live, OfRun
    <3> QED
      BY <3>1, <2>1, <1>2 DEF MarksInv, WholeMeansIdle
  <2>4. CASE place[d] = "recovered"
    BY <2>1, <2>4, <1>2 DEF MarksInv, PhasesApart
  <2>5. CASE place[d] = "cut"
    BY <2>2, <2>5, <1>2 DEF IntactInv, CutIsOver
  <2> QED
    BY <2>1, <2>3, <2>4, <2>5, <1>1
<1>6. CutIsJournalled'
  BY <1>1, <1>2, <1>3 DEF IntactInv, CutIsJournalled, Journalled, NothingSilent, Accounted, journal
<1>7. NothingSilent'
  BY <1>2 DEF NothingSilent
<1> QED
  BY <1>4, <1>5, <1>6, <1>7 DEF IntactInv

\* What Recover makes of each message: read back with its whole run, or not.
LEMMA RecoverPlaces ==
    ASSUME LedgerInv, MarksInv, IntactInv, Recover
    PROVE  /\ \A e \in Envelope :
                \/ e \in Resumed /\ place[e] = "kept" /\ place'[e] = "recovered"
                \/ /\ place[e] = "kept" /\ place'[e] = "cut"
                   /\ e \in rows /\ RunOf[e] \notin RunsOf(Resumed)
                \/ place[e] # "kept" /\ place'[e] = place[e]
           /\ \A e \in Envelope :
                place[e] \notin Booked \cup {"absorbed", "recovered"}
           /\ \A d, e \in Envelope :
                place'[d] = "cut" /\ place'[e] = "recovered" => RunOf[d] # RunOf[e]
<1>1. \A e \in Envelope : place[e] \notin Booked \cup {"absorbed", "recovered"}
  BY DEF Recover, LedgerInv, Hands, MarksInv, PhasesApart
<1>2. /\ \A e \in Resumed : e \in Envelope /\ place[e] = "kept"
      /\ \A e \in rows : RunOf[e] \in RunsOf(Resumed) => e \in Resumed
  BY DEF LedgerInv, TypeOK, Hands, Resumed, RunsOf
<1>3. \A e \in Envelope : place[e] = "kept" => e \in rows
  BY DEF IntactInv, Journalled
<1>4. \A e \in Envelope :
        \/ e \in Resumed /\ place[e] = "kept" /\ place'[e] = "recovered"
        \/ /\ place[e] = "kept" /\ place'[e] = "cut"
           /\ e \in rows /\ RunOf[e] \notin RunsOf(Resumed)
        \/ place[e] # "kept" /\ place'[e] = place[e]
  BY <1>2, <1>3 DEF Recover
<1>5. ASSUME NEW d \in Envelope, NEW e \in Envelope,
             place'[d] = "cut", place'[e] = "recovered"
      PROVE  RunOf[d] # RunOf[e]
  <2>1. e \in Resumed /\ RunOf[e] \in RunsOf(Resumed)
    BY <1>1, <1>4, <1>5 DEF RunsOf
  <2>2. RunOf[d] \notin RunsOf(Resumed)
    BY <1>4, <1>5 DEF IntactInv, CutIsOver, Recover
  <2> QED
    BY <2>1, <2>2
<1> QED
  BY <1>1, <1>4, <1>5

LEMMA RecoverIntact ==
    ASSUME LedgerInv, MarksInv, IntactInv, Recover
    PROVE  IntactInv'
<1>1. /\ ~up /\ up' /\ UNCHANGED <<stopped, settled, pickups, calledOff>>
      /\ reported' = reported \cup Interrupted
      /\ Resumed \subseteq pending'
  BY DEF Recover, runs
<1>2. \A e \in Envelope : Accounted(e) => Accounted(e)'
  BY <1>1 DEF Accounted
<1>3. \A e \in pending \cup rows : RunOf[e] \notin RunsOf(Resumed) => Accounted(e)'
  BY <1>1 DEF Accounted, Interrupted, RunsOf
<1>4. Journalled'
  <2>1. stopped' \subseteq calledOff'
    BY <1>1 DEF IntactInv, Journalled
  <2>2. \A e \in Envelope : place'[e] # "kept" /\ place'[e] \notin Booked
    BY RecoverPlaces DEF Booked
  <2>3. \A e \in Envelope : place'[e] = "recovered" => e \in pending'
    BY <1>1, RecoverPlaces
  <2>4. \A r : Live(r)' = {}
    BY <2>2 DEF Live, OfRun
  <2> QED
    BY <2>1, <2>2, <2>3, <2>4 DEF Journalled
<1>5. CutIsOver'
  <2>1. SUFFICES ASSUME NEW d \in Envelope, place'[d] = "cut", NEW e \in OfRun(RunOf[d])
                 PROVE  place'[e] \notin Booked \cup {"absorbed", "kept", "recovered"}
    BY <1>1 DEF CutIsOver, OfRun
  <2>2. e \in Envelope /\ RunOf[e] = RunOf[d]
    BY DEF OfRun
  <2> QED
    BY <2>1, <2>2, RecoverPlaces DEF Booked
<1>6. \A e \in Envelope : place'[e] = "cut" => Accounted(e)'
  <2>1. SUFFICES ASSUME NEW e \in Envelope, place'[e] = "cut"
                 PROVE  Accounted(e)'
    OBVIOUS
  <2>2. CASE place[e] = "kept"
    BY <2>1, <2>2, <1>3, RecoverPlaces
  <2>3. CASE place[e] = "cut"
    BY <2>3, <1>1, <1>2, <1>3 DEF IntactInv, CutIsOver, CutIsJournalled
  <2> QED
    BY <2>1, <2>2, <2>3, RecoverPlaces
<1>7. CutIsJournalled' /\ NothingSilent'
  BY <1>1, <1>6 DEF CutIsJournalled, NothingSilent, Accounted
<1> QED
  BY <1>4, <1>5, <1>7 DEF IntactInv

LEMMA NextIntact ==
    ASSUME ~StoreFails, LedgerInv, LedgerInv', MarksInv, IntactInv, [Next]_vars
    PROVE  IntactInv'
<1>1. CASE Drain
  BY <1>1 DEF Drain, journal, history, IntactInv, Journalled, Accounted, CutIsOver,
              CutIsJournalled, NothingSilent, Live, OfRun, Resumed, RunsOf
<1>2. CASE UNCHANGED vars
  BY <1>2 DEF vars, runs, journal, history, IntactInv, Journalled, Accounted, CutIsOver,
              CutIsJournalled, NothingSilent, Live, OfRun, Resumed, RunsOf
<1> QED
  BY <1>1, <1>2, StepKinds, EndsIntact, PassesIntact, DeliverIntact, DeliverKeptIntact,
     PickUpIntact, PutDownIntact, StopRunIntact, HostEndsIntact, RecoverIntact

LEMMA IntactInvariant == ~StoreFails => (Spec => [](LedgerMarks /\ IntactInv))
<1> SUFFICES ASSUME ~StoreFails PROVE Spec => [](LedgerMarks /\ IntactInv)
  OBVIOUS
<1>1. Init => IntactInv
  BY DEF Init, IntactInv, Journalled, CutIsOver, CutIsJournalled, NothingSilent, OfRun, Booked
<1>2. LedgerMarks /\ LedgerMarks' /\ IntactInv /\ [Next]_vars => IntactInv'
  BY NextIntact DEF LedgerMarks
<1> QED
  BY <1>1, <1>2, MarksInvariant, PTL DEF Spec

\* Store::recover: a message that was booked, or read back and not picked up yet,
\* when a process ended is reported with its conversation by the next host, or the
\* operator called that off, or the conversation settled under a host that had
\* begun to pick it up.  A message a turn had absorbed is not among them: its
\* booking was released on the way, and it may go with the turn.  With a store
\* that may fail, what could not be put down waits unreported for the next host, and
\* is reported then if it still has its pending row.
THEOREM NothingLostSilently == ~StoreFails => (Spec => []NothingSilent)
<1> SUFFICES ASSUME ~StoreFails PROVE Spec => []NothingSilent
  OBVIOUS
<1>1. IntactInv => NothingSilent
  BY DEF IntactInv
<1> QED
  BY <1>1, IntactInvariant, PTL

\* Store::recover: of no conversation that is read back is a message missing that
\* was waiting or in hand when a host ended.  Messages of it that were called off,
\* absorbed or answered before may be over.
THEOREM ReadBackIntact == ~StoreFails => (Spec => PickedUpIntact)
<1> SUFFICES ASSUME ~StoreFails PROVE Spec => PickedUpIntact
  OBVIOUS
<1>1. LedgerMarks /\ IntactInv /\ [Next]_vars =>
        [\A d, e \in Envelope :
            RunOf[d] = RunOf[e] /\ place[e] # "recovered" /\ place'[e] = "recovered"
              => place'[d] # "cut"]_vars
  <2> SUFFICES ASSUME LedgerInv, MarksInv, IntactInv, [Next]_vars,
                      NEW d \in Envelope, NEW e \in Envelope, RunOf[d] = RunOf[e],
                      place[e] # "recovered", place'[e] = "recovered"
               PROVE  place'[d] # "cut"
    BY DEF LedgerMarks
  <2>1. CASE Recover
    BY <2>1, RecoverPlaces
  <2>2. ASSUME NEW r \in Run, Ends(r) \/ StopRun(r)
        PROVE  FALSE
    BY <2>2 DEF Ends, StopRun, Moved
  <2>3. ASSUME NEW c \in Envelope, DeliverKept(c) \/ Deliver(c) \/ PickUp(c)
        PROVE  FALSE
    BY <2>3 DEF DeliverKept, Deliver, PickUp, Moved
  <2>4. ASSUME NEW a \in Agent, PutDown(a)
        PROVE  FALSE
    BY <2>4 DEF PutDown, Moved
  <2>5. Passes \/ Drain \/ HostEnds \/ UNCHANGED vars => FALSE
    BY DEF Passes, Drain, HostEnds, vars, LedgerInv, TypeOK, Place, Booked
  <2> QED
    BY <2>1, <2>2, <2>3, <2>4, <2>5, StepKinds
<1> QED
  BY <1>1, IntactInvariant, PTL DEF Spec, PickedUpIntact

\* The variables of the ledger keep their types: no sequence of steps takes a count
\* below zero, or puts into a table or a batch anything but a message.
THEOREM LedgerTypes == Spec => []TypeOK
<1>1. LedgerInv => TypeOK
  BY DEF LedgerInv
<1> QED
  BY <1>1, LedgerInvariant, PTL
=============================================================================
