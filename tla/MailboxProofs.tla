--------------------------- MODULE MailboxProofs ----------------------------
(* An actor reads its inbox in the order of arrival, passing over nothing but *)
(* what is called off; its length is the count the rail shows; what a turn    *)
(* has in hand is on the books of its conversation; a message nobody called   *)
(* off is never ended unread; and no stop is slept through: for every set of  *)
(* messages and conversations, and however often the agent is paused,         *)
(* stopped, deleted and restored.                                             *)
EXTENDS Mailbox, SequenceTheorems, TLAPS

\* An actor that was never started is nowhere, and one whose agent was deleted
\* holds nothing any more when its task ends.
Lives ==
    \A i \in Actor : /\ i > born => pc[i] = "unborn"
                     /\ pc[i] = "exiting" => carry[i] = <<>>

LineInv == TypeOK /\ Lives /\ DepthExact

\* The line each actor implements, and a step of it, or none.
Lines == [i \in Actor |-> LineOf(i)]
InLineStep == [InLine!Next]_<<Lines, stopped>>

-----------------------------------------------------------------------------
(* Channel and holding queue as one line.                                  *)

LEMMA LineTypes ==
    ASSUME TypeOK, NEW i \in Actor
    PROVE  /\ rx[i] \in Seq(Envelope) /\ carry[i] \in Seq(Envelope)
           /\ LineOf(i) \in Seq(Envelope)
           /\ Len(LineOf(i)) = Len(carry[i]) + Len(rx[i])
           /\ Len(rx[i]) \in Nat /\ Len(carry[i]) \in Nat
           /\ LineOf(i) = <<>> <=> carry[i] = <<>> /\ rx[i] = <<>>
<1>1. rx[i] \in Seq(Envelope) /\ carry[i] \in Seq(Envelope)
  BY DEF TypeOK
<1> QED
  BY <1>1, ConcatProperties, ConcatEqualIffEmpty, LenProperties DEF LineOf

LEMMA ConcatTail ==
    ASSUME NEW S, NEW s \in Seq(S), NEW t \in Seq(S), s # <<>>
    PROVE  Tail(s \o t) = Tail(s) \o t
<1>1. /\ s \o t \in Seq(S) /\ s \o t # <<>>
      /\ Tail(s) \in Seq(S) /\ Tail(s) \o t \in Seq(S) /\ Tail(s \o t) \in Seq(S)
  BY ConcatProperties, ConcatEqualIffEmpty, HeadTailProperties
<1>2. Len(s) \in Nat /\ Len(t) \in Nat /\ Len(s) # 0
  BY LenProperties, EmptySeq
<1>3. Len(Tail(s \o t)) = Len(Tail(s) \o t)
  BY <1>1, <1>2, ConcatProperties, HeadTailProperties
<1>4. \A n \in 1..Len(Tail(s \o t)) : Tail(s \o t)[n] = (Tail(s) \o t)[n]
  BY <1>1, <1>2, <1>3, ConcatProperties, HeadTailProperties
<1> QED
  BY <1>1, <1>3, <1>4, SeqEqual

LEMMA ConcatAppend ==
    \A s, t \in Seq(Envelope), e \in Envelope : s \o Append(t, e) = Append(s \o t, e)
<1> SUFFICES ASSUME NEW s \in Seq(Envelope), NEW t \in Seq(Envelope), NEW e \in Envelope
             PROVE  s \o Append(t, e) = Append(s \o t, e)
  OBVIOUS
<1>1. <<e>> \in Seq(Envelope) /\ s \o t \in Seq(Envelope)
  BY ConcatProperties
<1>2. Append(t, e) = t \o <<e>> /\ Append(s \o t, e) = (s \o t) \o <<e>>
  BY <1>1, AppendIsConcat
<1> QED
  BY <1>1, <1>2, ConcatAssociative

LEMMA HeadAndTail ==
    ASSUME NEW S, NEW s \in Seq(S), s # <<>>
    PROVE  /\ Head(s) \in S /\ Tail(s) \in Seq(S) /\ <<Head(s)>> \o Tail(s) = s
           /\ Len(Tail(s)) = Len(s) - 1 /\ Len(s) \in Nat \ {0}
<1>1. Head(s) \in S /\ Tail(s) \in Seq(S) /\ Len(Tail(s)) = Len(s) - 1
  BY HeadTailProperties
<1>2. Len(s) \in Nat \ {0}
  BY EmptySeq
<1>3. s = SubSeq(s, 1, Len(s)) /\ Tail(s) = SubSeq(s, 2, Len(s)) /\ s[1] = Head(s)
  BY SubSeqFull, TailIsSubSeq
<1> QED
  BY <1>1, <1>2, <1>3, SubSeqRecursiveFirst

\* What is set aside from the channel keeps its place.
LEMMA SetAside ==
    ASSUME NEW S, NEW s \in Seq(S), NEW t \in Seq(S), t # <<>>
    PROVE  Append(s, Head(t)) \o Tail(t) = s \o t
<1>1. Head(t) \in S /\ Tail(t) \in Seq(S) /\ <<Head(t)>> \o Tail(t) = t
  BY HeadAndTail
<1>2. <<Head(t)>> \in Seq(S)
  BY <1>1
<1> QED
  BY <1>1, <1>2, AppendIsConcat, ConcatAssociative

\* What is dropped from the head of the channel leaves the middle of the line.
LEMMA DropMiddle ==
    ASSUME NEW S, NEW s \in Seq(S), NEW t \in Seq(S), t # <<>>
    PROVE  /\ Len(s) + 1 \in DOMAIN (s \o t)
           /\ (s \o t)[Len(s) + 1] = Head(t)
           /\ RemoveAt(s \o t, Len(s) + 1) = s \o Tail(t)
<1> DEFINE l == s \o t
           n == Len(s)
<1>1. /\ l \in Seq(S) /\ Len(l) = n + Len(t) /\ n \in Nat /\ Len(t) \in Nat \ {0}
      /\ DOMAIN l = 1..Len(l) /\ t[1] = Head(t)
  BY ConcatProperties, LenProperties, EmptySeq
<1>2. n + 1 \in DOMAIN l /\ l[n + 1] = Head(t)
  BY <1>1, ConcatProperties
<1>3. SubSeq(l, 1, n) = s
  <2>1. CASE n = 0
    BY <2>1, <1>1, EmptySeq, SubSeqEmpty
  <2>2. CASE n # 0
    <3>1. 1 \in 1..n /\ n \in 1..n
      BY <1>1, <2>2
    <3> QED
      BY <3>1, SubSeqOfConcat1, SubSeqFull
  <2> QED
    BY <2>1, <2>2
<1>4. SubSeq(l, n + 2, Len(l)) = Tail(t)
  <2>1. CASE Len(t) = 1
    <3>1. Tail(t) \in Seq(S) /\ Len(Tail(t)) = 0
      BY <2>1, HeadAndTail
    <3>2. Tail(t) = <<>>
      BY <3>1, EmptySeq
    <3>3. Len(l) < n + 2 /\ n + 2 \in Int /\ Len(l) \in Int
      BY <1>1, <2>1
    <3>4. SubSeq(l, n + 2, Len(l)) = <<>>
      BY <3>3, SubSeqEmpty
    <3> QED
      BY <3>2, <3>4
  <2>2. CASE Len(t) # 1
    <3>1. n \in Nat /\ Len(t) \in Nat \ {0}
      BY <1>1
    <3>2. \A i \in Nat, j \in Nat \ {0} :
            j # 1 => i + 2 \in i+1..i+j /\ i + j \in i+1..i+j
      OBVIOUS
    <3>3. n + 2 \in n+1..n+Len(t) /\ n + Len(t) \in n+1..n+Len(t)
      BY <2>2, <3>1, <3>2
    <3>4. SubSeq(l, n + 2, n + Len(t)) = SubSeq(t, (n + 2) - n, (n + Len(t)) - n)
      BY <3>3, SubSeqOfConcat2
    <3>5. (n + 2) - n = 2 /\ (n + Len(t)) - n = Len(t)
      BY <1>1
    <3>6. Tail(t) = SubSeq(t, 2, Len(t))
      BY TailIsSubSeq
    <3> QED
      BY <1>1, <3>4, <3>5, <3>6
  <2> QED
    BY <2>1, <2>2
<1>5. RemoveAt(l, n + 1) = SubSeq(l, 1, n) \o SubSeq(l, n + 2, Len(l))
  <2>1. (n + 1) - 1 = n /\ (n + 1) + 1 = n + 2
    BY <1>1
  <2> QED
    BY <2>1 DEF RemoveAt
<1>6. RemoveAt(l, n + 1) = s \o Tail(t)
  BY <1>3, <1>4, <1>5
<1> QED
  BY <1>2, <1>6

-----------------------------------------------------------------------------
(* What a step does to a line, and what that is in Line.                   *)

LEMMA Still ==
    ASSUME UNCHANGED <<rx, carry>>, stopped' \subseteq Run
    PROVE  InLineStep
<1>1. Lines' = Lines
  BY DEF Lines, LineOf
<1> QED
  BY <1>1 DEF InLineStep, InLine!Next, InLine!Stop, Lines

LEMMA OneMoves ==
    ASSUME NEW i \in Actor, NEW l, LineOf(i)' = l,
           \A j \in Actor \ {i} : LineOf(j)' = LineOf(j)
    PROVE  Lines' = [Lines EXCEPT ![i] = l]
BY DEF Lines

LEMMA ReadStep ==
    ASSUME NEW i \in Actor, LineOf(i) # <<>>, LineOf(i)' = Tail(LineOf(i)),
           \A j \in Actor \ {i} : LineOf(j)' = LineOf(j), stopped' \subseteq Run
    PROVE  InLineStep
<1>1. InLine!Read(i)
  BY OneMoves DEF InLine!Read, Lines
<1> QED
  BY <1>1 DEF InLineStep, InLine!Next

LEMMA ArriveStep ==
    ASSUME NEW i \in Actor, NEW e \in Envelope, LineOf(i)' = Append(LineOf(i), e),
           \A j \in Actor \ {i} : LineOf(j)' = LineOf(j), stopped' \subseteq Run
    PROVE  InLineStep
<1>1. InLine!Arrive(i, e)
  BY OneMoves DEF InLine!Arrive, Lines
<1> QED
  BY <1>1 DEF InLineStep, InLine!Next

LEMMA ClearStep ==
    ASSUME NEW i \in Actor, LineOf(i)' = <<>>,
           \A j \in Actor \ {i} : LineOf(j)' = LineOf(j), stopped' \subseteq Run
    PROVE  InLineStep
<1>1. InLine!Clear(i)
  BY OneMoves DEF InLine!Clear, Lines
<1> QED
  BY <1>1 DEF InLineStep, InLine!Next

LEMMA PassOverStep ==
    ASSUME NEW i \in Actor, NEW k \in DOMAIN LineOf(i), RunOf[LineOf(i)[k]] \in stopped,
           LineOf(i)' = RemoveAt(LineOf(i), k),
           \A j \in Actor \ {i} : LineOf(j)' = LineOf(j), stopped' \subseteq Run
    PROVE  InLineStep
<1>1. InLine!PassOver(i, k)
  BY OneMoves DEF InLine!PassOver, InLine!RemoveAt, RemoveAt, Lines
<1>2. k \in DOMAIN Lines[i]
  BY DEF Lines
<1> QED
  BY <1>1, <1>2 DEF InLineStep, InLine!Next, Lines

-----------------------------------------------------------------------------
(* What the operations on channel and holding queue do.                    *)

QueueTypes ==
    /\ rx \in [Actor -> Seq(Envelope)] /\ carry \in [Actor -> Seq(Envelope)]
    /\ depth \in [Actor -> Nat]
Counted(i) == depth[i] = Len(carry[i]) + Len(rx[i])

LEMMA ReleaseStops ==
    ASSUME TypeOK, NEW E, Release(E)
    PROVE  stopped' \subseteq Run /\ booked' \subseteq Envelope
BY DEF Release, TypeOK

LEMMA PopReads ==
    ASSUME LineInv, NEW i \in Actor, pc[i] # "exited", Pop(i)
    PROVE  /\ QueueTypes' /\ Counted(i)' /\ Head(LineOf(i)) \in Envelope
           /\ LineOf(i) # <<>> /\ LineOf(i)' = Tail(LineOf(i))
           /\ \A j \in Actor \ {i} : LineOf(j)' = LineOf(j) /\ Counted(j)' = Counted(j)
           /\ carry[i] = <<>> => carry' = carry
<1>1. /\ rx[i] \in Seq(Envelope) /\ carry[i] \in Seq(Envelope) /\ depth[i] \in Nat
      /\ depth[i] = Len(carry[i]) + Len(rx[i]) /\ LineOf(i) # <<>>
      /\ LineOf(i) \in Seq(Envelope)
      /\ QueueTypes
  BY LineTypes DEF LineInv, TypeOK, DepthExact, Pop, QueueTypes
<1>2. CASE carry[i] # <<>>
  <2>1. /\ Tail(carry[i]) \in Seq(Envelope) /\ Len(Tail(carry[i])) = Len(carry[i]) - 1
        /\ Len(carry[i]) \in Nat \ {0} /\ Len(rx[i]) \in Nat
    BY <1>1, <1>2, HeadAndTail, LenProperties
  <2>2. /\ carry' = [carry EXCEPT ![i] = Tail(@)] /\ rx' = rx
        /\ depth' = [depth EXCEPT ![i] = @ - 1]
    BY <1>2 DEF Pop
  <2>3. QueueTypes' /\ Counted(i)'
    BY <1>1, <2>1, <2>2 DEF QueueTypes, Counted
  <2>4. LineOf(i)' = Tail(LineOf(i))
    BY <1>1, <1>2, <2>2, ConcatTail DEF LineOf, QueueTypes
  <2>5. \A j \in Actor \ {i} : LineOf(j)' = LineOf(j) /\ Counted(j)' = Counted(j)
    BY <1>1, <2>2 DEF LineOf, Counted, QueueTypes
  <2> QED
    BY <1>1, <1>2, <2>3, <2>4, <2>5, HeadAndTail
<1>3. CASE carry[i] = <<>>
  <2>1. rx[i] # <<>> /\ LineOf(i) = rx[i]
    BY <1>1, <1>3, ConcatEmptySeq, LineTypes DEF LineOf, LineInv
  <2>2. /\ Tail(rx[i]) \in Seq(Envelope) /\ Len(Tail(rx[i])) = Len(rx[i]) - 1
        /\ Len(rx[i]) \in Nat \ {0} /\ Len(carry[i]) = 0
    BY <1>1, <1>3, <2>1, HeadAndTail, EmptySeq
  <2>3. /\ rx' = [rx EXCEPT ![i] = Tail(@)] /\ carry' = carry
        /\ depth' = [depth EXCEPT ![i] = @ - 1]
    BY <1>3 DEF Pop
  <2>4. QueueTypes' /\ Counted(i)'
    BY <1>1, <2>2, <2>3 DEF QueueTypes, Counted
  <2>5. LineOf(i)' = Tail(LineOf(i))
    BY <1>1, <1>3, <2>1, <2>2, <2>3, ConcatEmptySeq DEF LineOf, QueueTypes
  <2>6. \A j \in Actor \ {i} : LineOf(j)' = LineOf(j) /\ Counted(j)' = Counted(j)
    BY <1>1, <2>3 DEF LineOf, Counted, QueueTypes
  <2> QED
    BY <1>1, <2>3, <2>4, <2>5, <2>6, HeadAndTail
<1> QED
  BY <1>2, <1>3

LEMMA PutBackKeeps ==
    ASSUME LineInv, NEW i \in Actor, pc[i] # "exited", PutBack(i)
    PROVE  /\ QueueTypes' /\ Counted(i)'
           /\ \A j \in Actor : LineOf(j)' = LineOf(j)
           /\ \A j \in Actor \ {i} : Counted(j)' = Counted(j)
           /\ \A j \in Actor \ {i} : carry'[j] = carry[j]
<1>1. /\ rx[i] \in Seq(Envelope) /\ carry[i] \in Seq(Envelope) /\ depth[i] \in Nat
      /\ depth[i] = Len(carry[i]) + Len(rx[i])
      /\ QueueTypes
  BY DEF LineInv, TypeOK, DepthExact, QueueTypes
<1>2. CASE carry[i] = <<>> /\ rx[i] # <<>>
  <2>1. /\ Tail(rx[i]) \in Seq(Envelope) /\ Len(Tail(rx[i])) = Len(rx[i]) - 1
        /\ Len(rx[i]) \in Nat \ {0} /\ Len(carry[i]) = 0 /\ Head(rx[i]) \in Envelope
        /\ <<Head(rx[i])>> \o Tail(rx[i]) = rx[i]
    BY <1>1, <1>2, HeadAndTail, EmptySeq
  <2>2. /\ carry' = [carry EXCEPT ![i] = <<Head(rx[i])>>]
        /\ rx' = [rx EXCEPT ![i] = Tail(@)] /\ depth' = depth
    BY <1>2 DEF PutBack
  <2>3. <<Head(rx[i])>> \in Seq(Envelope) /\ Len(<<Head(rx[i])>>) = 1
    BY <2>1
  <2>4. QueueTypes' /\ Counted(i)'
    BY <1>1, <2>1, <2>2, <2>3 DEF QueueTypes, Counted
  <2>5. LineOf(i)' = LineOf(i)
    BY <1>1, <1>2, <2>1, <2>2, ConcatEmptySeq DEF LineOf, QueueTypes
  <2>6. \A j \in Actor \ {i} : /\ LineOf(j)' = LineOf(j) /\ Counted(j)' = Counted(j)
                               /\ carry'[j] = carry[j]
    BY <1>1, <2>2 DEF LineOf, Counted, QueueTypes
  <2> QED
    BY <2>4, <2>5, <2>6
<1>3. CASE ~(carry[i] = <<>> /\ rx[i] # <<>>)
  BY <1>1, <1>3 DEF PutBack, queue, QueueTypes, Counted, LineOf
<1> QED
  BY <1>2, <1>3

\* The actor moves on, and was neither unborn nor gone before.
LEMMA Onward ==
    ASSUME LineInv, NEW i \in Actor, NEW l \in Control \ {"unborn", "exiting"},
           pc[i] \notin {"unborn", "exited"}, pc' = [pc EXCEPT ![i] = l], born' = born,
           QueueTypes', Counted(i)',
           \A j \in Actor \ {i} : Counted(j)' = Counted(j) /\ carry'[j] = carry[j]
    PROVE  Lives' /\ DepthExact' /\ pc' \in [Actor -> Control]
<1>1. pc' \in [Actor -> Control]
  BY DEF LineInv, TypeOK
<1>2. Lives'
  BY DEF LineInv, Lives, TypeOK
<1>3. DepthExact'
  BY DEF LineInv, DepthExact, Counted, TypeOK
<1> QED
  BY <1>1, <1>2, <1>3

\* The queue is left alone.
LEMMA QueueKept ==
    ASSUME LineInv, UNCHANGED queue
    PROVE  /\ QueueTypes' /\ \A j \in Actor : Counted(j)' = Counted(j) /\ carry'[j] = carry[j]
           /\ \A j \in Actor : pc[j] # "exited" => Counted(j)'
BY DEF LineInv, TypeOK, DepthExact, queue, QueueTypes, Counted

-----------------------------------------------------------------------------
LEMMA SendFollows ==
    ASSUME LineInv, NEW e \in Envelope, Post(e) \/ Queue(e)
    PROVE  LineInv' /\ InLineStep
<1>1. CASE Post(e)
  <2>1. UNCHANGED <<rx, carry, depth, pc, born, stopped>>
    BY <1>1 DEF Post, card, queue
  <2>2. TypeOK'
    BY <1>1, <2>1 DEF LineInv, TypeOK, Post, card, wakes, Fated, Fate
  <2> QED
    BY <2>1, <2>2, Still DEF LineInv, TypeOK, Lives, DepthExact
<1>2. CASE Queue(e) /\ inbox # 0 /\ pc[inbox] # "exited"
  <2>1. PICK i \in Actor :
        /\ inbox = i /\ pc' = pc /\ born' = born /\ carry' = carry
        /\ rx' = [rx EXCEPT ![i] = Append(@, e)]
        /\ depth' = [depth EXCEPT ![i] = @ + 1]
        /\ stopped' = stopped /\ booked' = booked
    BY <1>2 DEF LineInv, TypeOK, Queue, card
  <2>2. /\ rx[i] \in Seq(Envelope) /\ carry[i] \in Seq(Envelope)
        /\ Append(rx[i], e) \in Seq(Envelope) /\ Len(Append(rx[i], e)) = Len(rx[i]) + 1
        /\ Len(rx[i]) \in Nat /\ Len(carry[i]) \in Nat
        /\ depth[i] = Len(carry[i]) + Len(rx[i])
    BY <1>2, <2>1, AppendProperties, LenProperties DEF LineInv, TypeOK, DepthExact
  <2>3. LineOf(i)' = Append(LineOf(i), e)
    <3>1. rx'[i] = Append(rx[i], e) /\ carry'[i] = carry[i]
      BY <2>1 DEF LineInv, TypeOK
    <3>2. carry[i] \o Append(rx[i], e) = Append(carry[i] \o rx[i], e)
      BY <2>2, ConcatAppend
    <3> QED
      BY <3>1, <3>2 DEF LineOf
  <2>4. \A j \in Actor \ {i} : LineOf(j)' = LineOf(j) /\ Counted(j)' = Counted(j)
    BY <2>1 DEF LineOf, Counted, LineInv, TypeOK
  <2>5. TypeOK'
    <3>1. /\ rx' \in [Actor -> Seq(Envelope)] /\ carry' \in [Actor -> Seq(Envelope)]
          /\ depth' \in [Actor -> Nat] /\ fate' \in [Envelope -> Fate]
      BY <1>2, <2>1, <2>2 DEF LineInv, TypeOK, Queue, Fated, Fate
    <3> QED
      BY <1>2, <2>1, <3>1 DEF LineInv, TypeOK, Queue, card, wakes
  <2>6. Lives' /\ DepthExact'
    BY <2>1, <2>2, <2>4 DEF LineInv, TypeOK, Lives, DepthExact, Counted
  <2>7. InLineStep
    BY <2>1, <2>3, <2>4, ArriveStep DEF LineInv, TypeOK
  <2> QED
    BY <2>5, <2>6, <2>7 DEF LineInv
<1>3. CASE Queue(e) /\ ~(inbox # 0 /\ pc[inbox] # "exited")
  <2>1. UNCHANGED <<rx, carry, depth, pc, born>> /\ Release({e})
    BY <1>3 DEF Queue, card, queue
  <2>2. stopped' \subseteq Run /\ booked' \subseteq Envelope
    BY <2>1, ReleaseStops DEF LineInv
  <2>3. TypeOK'
    BY <1>3, <2>1, <2>2 DEF LineInv, TypeOK, Queue, card, wakes, Fated, Fate
  <2> QED
    BY <2>1, <2>2, <2>3, Still DEF LineInv, Lives, DepthExact
<1> QED
  BY <1>1, <1>2, <1>3

\* The operator's commands and the notifications touch no line.
Command ==
    \/ Pause \/ Resume \/ Drain \/ Discard \/ StopAgent
    \/ \E r \in Run : StopRun(r)
    \/ \E c \in {"all", "resume"} : Notify(c)

LEMMA CommandFollows ==
    ASSUME LineInv, Command
    PROVE  LineInv' /\ InLineStep
<1>1. UNCHANGED <<rx, carry, depth, pc, born, batch, fate, booked, armed>>
  BY DEF Command, Pause, Resume, Drain, Discard, StopAgent, StopRun, Notify, card, queue, wakes
<1>2. stopped' \subseteq Run
  BY DEF LineInv, TypeOK, Command, Pause, Resume, Drain, Discard, StopAgent, StopRun, Notify
<1>3. /\ lifecycle' \in {"active", "paused", "terminated"} /\ inbox' \in {0} \cup Actor
      /\ draining' \in BOOLEAN /\ calls' \subseteq {"all", "resume"}
  BY DEF LineInv, TypeOK, Command, Pause, Resume, Drain, Discard, StopAgent, StopRun, Notify,
         card, wakes
<1>4. woken' \in [Actor -> BOOLEAN]
  BY DEF LineInv, TypeOK, Command, Pause, Resume, Drain, Discard, StopAgent, StopRun, Notify,
         card, wakes
<1>5. TypeOK'
  BY <1>1, <1>2, <1>3, <1>4 DEF LineInv, TypeOK
<1>6. Lives' /\ DepthExact'
  BY <1>1 DEF LineInv, Lives, DepthExact
<1> QED
  BY <1>1, <1>2, <1>5, <1>6, Still DEF LineInv

LEMMA RestoreFollows ==
    ASSUME LineInv, Restore
    PROVE  LineInv' /\ InLineStep
<1>1. UNCHANGED <<rx, carry, depth, stopped>> /\ born' = born + 1 /\ born + 1 \in Actor
  BY MailboxAssumption DEF LineInv, TypeOK, Restore, queue, Actor
<1>2. pc[born + 1] = "unborn" /\ pc' = [pc EXCEPT ![born + 1] = "recv"]
  BY <1>1, MailboxAssumption DEF LineInv, TypeOK, Lives, Restore, Goto
<1>3. TypeOK'
  BY <1>1, <1>2, MailboxAssumption DEF LineInv, TypeOK, Restore, wakes, queue, Control, Actor
<1>4. Lives' /\ DepthExact'
  BY <1>1, <1>2, MailboxAssumption DEF LineInv, TypeOK, Lives, DepthExact, Actor
<1> QED
  BY <1>1, <1>3, <1>4, Still DEF LineInv, TypeOK

-----------------------------------------------------------------------------
(* The actor's own steps.                                                  *)

\* A step that leaves the queue alone.
Quiet(i) ==
    \/ Close(i) \/ Gate(i) \/ Arm(i) \/ CheckDrain(i) \/ CheckStop(i) \/ CheckAny(i)
    \/ Swept(i) \/ Wake(i) \/ CalledOff(i) \/ StartTurn(i) \/ EndTurn(i)

LEMMA QuietFollows ==
    ASSUME LineInv, NEW i \in Actor, Quiet(i)
    PROVE  LineInv' /\ InLineStep
<1> USE DEF Quiet, Close, Gate, Arm, CheckDrain, CheckStop, CheckAny, Swept, Wake,
            CalledOff, StartTurn, EndTurn
<1>1. UNCHANGED <<rx, carry, depth, born, draining, calls, lifecycle, inbox>>
  BY DEF card, queue, wakes, Disarmed
<1>2. stopped' \subseteq Run /\ booked' \subseteq Envelope
  <2>1. UNCHANGED <<stopped, booked>> \/ (\E E : Release(E) \/ PutDown(E))
    OBVIOUS
  <2>2. ASSUME NEW E, PutDown(E) PROVE stopped' \subseteq Run /\ booked' \subseteq Envelope
    BY <2>2 DEF PutDown, LineInv, TypeOK
  <2> QED
    BY <2>1, <2>2, ReleaseStops DEF LineInv, TypeOK
<1>3. fate' \in [Envelope -> Fate]
  <2>1. fate' = fate \/ (\E E : Fated(E, "ended") \/ Fated(E, "putdown"))
    OBVIOUS
  <2> QED
    BY <2>1 DEF Fated, Fate, LineInv, TypeOK
<1>4. batch' \in [Actor -> Seq(Envelope)]
  <2>1. batch' = batch \/ batch' = [batch EXCEPT ![i] = <<>>]
    OBVIOUS
  <2>2. <<>> \in Seq(Envelope)
    BY EmptySeq
  <2> QED
    BY <2>1, <2>2 DEF LineInv, TypeOK
<1>5. armed' \in [Actor -> BOOLEAN] /\ woken' \in [Actor -> BOOLEAN]
  <2>1. /\ armed' = armed \/ \E x \in BOOLEAN : armed' = [armed EXCEPT ![i] = x]
        /\ woken' = woken \/ \E x \in BOOLEAN : woken' = [woken EXCEPT ![i] = x]
    BY DEF wakes, Disarmed
  <2> QED
    BY <2>1 DEF LineInv, TypeOK
<1>6. /\ pc[i] \notin {"unborn", "exited"}
      /\ \E l \in Control \ {"unborn", "exiting"} : pc' = [pc EXCEPT ![i] = l]
  BY DEF Goto, Control, LineInv, TypeOK
<1>7. Lives' /\ DepthExact' /\ pc' \in [Actor -> Control]
  BY <1>1, <1>6, QueueKept, Onward DEF queue
<1>8. TypeOK'
  BY <1>1, <1>2, <1>3, <1>4, <1>5, <1>7 DEF LineInv, TypeOK
<1> QED
  BY <1>1, <1>2, <1>7, <1>8, Still DEF LineInv

\* A step that takes the head of the line.
Takes(i) == Take(i) \/ Gather(i) \/ TakeIn(i)

LEMMA TakesFollows ==
    ASSUME LineInv, NEW i \in Actor, Takes(i)
    PROVE  LineInv' /\ InLineStep
<1> USE DEF Takes, Take, Gather, TakeIn
<1>1. /\ UNCHANGED <<born, draining, calls, lifecycle, inbox, armed, woken>> /\ Pop(i)
      /\ pc[i] \notin {"unborn", "exited"}
      /\ \E l \in Control \ {"unborn", "exiting"} : pc' = [pc EXCEPT ![i] = l]
  BY DEF card, wakes, Goto, Control, LineInv, TypeOK
<1>2. stopped' \subseteq Run /\ booked' \subseteq Envelope
  <2>1. UNCHANGED <<stopped, booked>> \/ \E E : Release(E)
    OBVIOUS
  <2> QED
    BY <2>1, ReleaseStops DEF LineInv, TypeOK
<1>3. fate' \in [Envelope -> Fate]
  <2>1. fate' = fate \/ \E E : Fated(E, "read")
    OBVIOUS
  <2> QED
    BY <2>1 DEF Fated, Fate, LineInv, TypeOK
<1>4. /\ QueueTypes' /\ Counted(i)' /\ Head(LineOf(i)) \in Envelope
      /\ LineOf(i) # <<>> /\ LineOf(i)' = Tail(LineOf(i))
      /\ \A j \in Actor \ {i} : LineOf(j)' = LineOf(j) /\ Counted(j)' = Counted(j)
  BY <1>1, PopReads
<1>5. \A j \in Actor \ {i} : carry'[j] = carry[j]
  BY <1>1 DEF Pop, LineInv, TypeOK
<1>6. batch' \in [Actor -> Seq(Envelope)]
  <2>1. \/ batch' = batch
        \/ batch' = [batch EXCEPT ![i] = <<Head(LineOf(i))>>]
        \/ batch' = [batch EXCEPT ![i] = Append(@, Head(LineOf(i)))]
    OBVIOUS
  <2>2. /\ <<Head(LineOf(i))>> \in Seq(Envelope) /\ batch[i] \in Seq(Envelope)
        /\ Append(batch[i], Head(LineOf(i))) \in Seq(Envelope)
    BY <1>4, AppendProperties DEF LineInv, TypeOK
  <2> QED
    BY <2>1, <2>2 DEF LineInv, TypeOK
<1>7. Lives' /\ DepthExact' /\ pc' \in [Actor -> Control]
  BY <1>1, <1>4, <1>5, Onward
<1>8. TypeOK'
  BY <1>1, <1>2, <1>3, <1>4, <1>6, <1>7 DEF LineInv, TypeOK, QueueTypes
<1> QED
  BY <1>2, <1>4, <1>7, <1>8, ReadStep DEF LineInv

\* A step that puts the head of the line back.
LEMMA PutsBackFollows ==
    ASSUME LineInv, NEW i \in Actor, Gathered(i) \/ TakeInEnds(i)
    PROVE  LineInv' /\ InLineStep
<1> USE DEF Gathered, TakeInEnds
<1>1. /\ UNCHANGED <<born, draining, calls, lifecycle, inbox, armed, woken, booked, fate,
                     stopped, batch>>
      /\ pc[i] \notin {"unborn", "exited"}
      /\ \E l \in Control \ {"unborn", "exiting"} : pc' = [pc EXCEPT ![i] = l]
  BY DEF card, wakes, Goto, Control, LineInv, TypeOK
<1>2. /\ QueueTypes' /\ Counted(i)'
      /\ \A j \in Actor : LineOf(j)' = LineOf(j)
      /\ \A j \in Actor \ {i} : Counted(j)' = Counted(j) /\ carry'[j] = carry[j]
  <2>1. CASE PutBack(i)
    BY <1>1, <2>1, PutBackKeeps
  <2>2. CASE UNCHANGED queue
    BY <1>1, <2>2, QueueKept DEF queue, LineOf
  <2> QED
    BY <2>1, <2>2
<1>3. Lives' /\ DepthExact' /\ pc' \in [Actor -> Control]
  BY <1>1, <1>2, Onward
<1>4. TypeOK'
  BY <1>1, <1>2, <1>3 DEF LineInv, TypeOK, QueueTypes
<1>5. Lines' = Lines
  BY <1>2 DEF Lines
<1>6. InLineStep
  BY <1>1, <1>5 DEF InLineStep, Lines
<1> QED
  BY <1>3, <1>4, <1>6 DEF LineInv

\* The sweep of a channel: what is called off leaves the middle of the line, and
\* what is set aside keeps its place.
LEMMA SweepFollows ==
    ASSUME LineInv, NEW i \in Actor, Sweep(i)
    PROVE  LineInv' /\ InLineStep
<1> DEFINE e == Head(rx[i])
<1>1. /\ UNCHANGED <<born, draining, calls, lifecycle, inbox, armed, woken, batch, pc>>
      /\ pc[i] = "sweep" /\ rx[i] # <<>> /\ rx' = [rx EXCEPT ![i] = Tail(@)]
  BY DEF Sweep, card, wakes
<1>2. /\ rx[i] \in Seq(Envelope) /\ carry[i] \in Seq(Envelope) /\ depth[i] \in Nat
      /\ depth[i] = Len(carry[i]) + Len(rx[i]) /\ Len(carry[i]) \in Nat
      /\ QueueTypes
  BY <1>1, LenProperties DEF LineInv, TypeOK, DepthExact, QueueTypes
<1>3. /\ e \in Envelope /\ Tail(rx[i]) \in Seq(Envelope)
      /\ Len(Tail(rx[i])) = Len(rx[i]) - 1 /\ Len(rx[i]) \in Nat \ {0}
  BY <1>1, <1>2, HeadAndTail
<1>4. pc' = [pc EXCEPT ![i] = "sweep"] /\ "sweep" \in Control \ {"unborn", "exiting"}
  BY <1>1 DEF LineInv, TypeOK, Control
<1>5. CASE RunOf[e] \in stopped
  <2>1. /\ depth' = [depth EXCEPT ![i] = @ - 1] /\ carry' = carry
        /\ Release({e}) /\ Fated({e}, "ended")
    BY <1>5 DEF Sweep
  <2>2. stopped' \subseteq Run /\ booked' \subseteq Envelope
    BY <2>1, ReleaseStops DEF LineInv
  <2>3. fate' \in [Envelope -> Fate]
    BY <2>1 DEF Fated, Fate, LineInv, TypeOK
  <2>4. QueueTypes' /\ Counted(i)'
    BY <1>1, <1>2, <1>3, <2>1 DEF QueueTypes, Counted
  <2>5. \A j \in Actor \ {i} : /\ LineOf(j)' = LineOf(j) /\ Counted(j)' = Counted(j)
                               /\ carry'[j] = carry[j]
    BY <1>1, <1>2, <2>1 DEF LineOf, Counted, QueueTypes
  <2>6. LineOf(i)' = carry[i] \o Tail(rx[i])
    BY <1>1, <1>2, <2>1 DEF LineOf, QueueTypes
  <2>7. /\ Len(carry[i]) + 1 \in DOMAIN LineOf(i)
        /\ LineOf(i)[Len(carry[i]) + 1] = e
        /\ RemoveAt(LineOf(i), Len(carry[i]) + 1) = carry[i] \o Tail(rx[i])
    BY <1>1, <1>2, DropMiddle DEF LineOf
  <2>8. PICK k \in DOMAIN LineOf(i) :
          RunOf[LineOf(i)[k]] \in stopped /\ LineOf(i)' = RemoveAt(LineOf(i), k)
    BY <1>5, <2>6, <2>7
  <2>9. InLineStep
    BY <2>2, <2>5, <2>8, PassOverStep
  <2>10. Lives' /\ DepthExact' /\ pc' \in [Actor -> Control]
    BY <1>1, <1>4, <2>4, <2>5, Onward
  <2>11. TypeOK'
    BY <1>1, <2>2, <2>3, <2>4, <2>10 DEF LineInv, TypeOK, QueueTypes
  <2> QED
    BY <2>9, <2>10, <2>11 DEF LineInv
<1>6. CASE RunOf[e] \notin stopped
  <2>1. /\ carry' = [carry EXCEPT ![i] = Append(@, e)]
        /\ UNCHANGED <<depth, booked, stopped, fate>>
    BY <1>6 DEF Sweep
  <2>2. Append(carry[i], e) \in Seq(Envelope) /\ Len(Append(carry[i], e)) = Len(carry[i]) + 1
    BY <1>2, <1>3, AppendProperties
  <2>3. QueueTypes' /\ Counted(i)'
    BY <1>1, <1>2, <1>3, <2>1, <2>2 DEF QueueTypes, Counted
  <2>4. \A j \in Actor \ {i} : /\ LineOf(j)' = LineOf(j) /\ Counted(j)' = Counted(j)
                               /\ carry'[j] = carry[j]
    BY <1>1, <1>2, <2>1 DEF LineOf, Counted, QueueTypes
  <2>5. LineOf(i)' = Append(carry[i], e) \o Tail(rx[i])
    BY <1>1, <1>2, <2>1 DEF LineOf, QueueTypes
  <2>6. LineOf(i)' = LineOf(i)
    BY <1>1, <1>2, <2>5, SetAside DEF LineOf
  <2>7. Lines' = Lines
    BY <2>4, <2>6 DEF Lines
  <2>8. InLineStep
    BY <2>1, <2>7 DEF InLineStep, Lines
  <2>9. Lives' /\ DepthExact' /\ pc' \in [Actor -> Control]
    BY <1>1, <1>4, <2>3, <2>4, Onward
  <2>10. TypeOK'
    BY <1>1, <2>1, <2>3, <2>9 DEF LineInv, TypeOK, QueueTypes
  <2> QED
    BY <2>8, <2>9, <2>10 DEF LineInv
<1> QED
  BY <1>5, <1>6

\* A line that is put down for the next host, or released with its agent.
LEMMA EmptiedFollows ==
    ASSUME LineInv, NEW i \in Actor, PutDownQueue(i) \/ Abandon(i)
    PROVE  LineInv' /\ InLineStep
<1>1. /\ UNCHANGED <<born, draining, calls, lifecycle, inbox>>
      /\ Emptied(i) /\ Disarmed(i) /\ pc[i] \in {"putdown", "abandon"}
      /\ \E l \in {"recv", "exiting"} : pc' = [pc EXCEPT ![i] = l]
  BY DEF PutDownQueue, Abandon, card, Goto, Disarmed
<1>2. stopped' \subseteq Run /\ booked' \subseteq Envelope
  <2>1. CASE Abandon(i)
    BY <2>1, ReleaseStops DEF Abandon, LineInv
  <2>2. CASE PutDownQueue(i)
    BY <2>2 DEF PutDownQueue, LineInv, TypeOK
  <2> QED
    BY <2>1, <2>2
<1>3. fate' \in [Envelope -> Fate]
  <2>1. CASE Abandon(i)
    BY <2>1 DEF Abandon, Fated, Fate, LineInv, TypeOK
  <2>2. CASE PutDownQueue(i)
    BY <2>2 DEF PutDownQueue, Fate, LineInv, TypeOK
  <2> QED
    BY <2>1, <2>2
<1>4. <<>> \in Seq(Envelope) /\ Len(<<>>) = 0 /\ <<>> \o <<>> = <<>>
  BY EmptySeq, ConcatEmptySeq
<1>5. /\ rx'[i] = <<>> /\ carry'[i] = <<>> /\ depth'[i] = 0
      /\ QueueTypes' /\ batch' \in [Actor -> Seq(Envelope)]
      /\ \A j \in Actor \ {i} : rx'[j] = rx[j] /\ carry'[j] = carry[j] /\ depth'[j] = depth[j]
  BY <1>1, <1>4 DEF Emptied, LineInv, TypeOK, QueueTypes
<1>6. LineOf(i)' = <<>> /\ \A j \in Actor \ {i} : LineOf(j)' = LineOf(j)
  BY <1>4, <1>5 DEF LineOf
<1>7. armed' \in [Actor -> BOOLEAN] /\ woken' \in [Actor -> BOOLEAN]
  BY <1>1 DEF Disarmed, LineInv, TypeOK
<1>8. pc' \in [Actor -> Control]
  BY <1>1 DEF LineInv, TypeOK, Control
<1>9. TypeOK'
  BY <1>1, <1>2, <1>3, <1>5, <1>7, <1>8 DEF LineInv, TypeOK, QueueTypes
<1>10. Lives'
  BY <1>1, <1>5 DEF LineInv, Lives, TypeOK
<1>11. DepthExact'
  <2>1. depth'[i] = Len(carry'[i]) + Len(rx'[i])
    BY <1>4, <1>5
  <2>2. \A j \in Actor \ {i} : pc'[j] # "exited" => depth'[j] = Len(carry'[j]) + Len(rx'[j])
    BY <1>1, <1>5 DEF LineInv, DepthExact, TypeOK
  <2> QED
    BY <2>1, <2>2 DEF DepthExact
<1> QED
  BY <1>2, <1>6, <1>9, <1>10, <1>11, ClearStep DEF LineInv

\* The task of a deleted agent ends, and what reached its channel goes with it.
LEMMA ExitFollows ==
    ASSUME LineInv, NEW i \in Actor, Exit(i)
    PROVE  LineInv' /\ InLineStep
<1>1. /\ UNCHANGED <<born, draining, calls, lifecycle, inbox, armed, woken, stopped,
                     booked, carry, depth, batch>>
      /\ pc[i] = "exiting" /\ pc' = [pc EXCEPT ![i] = "exited"]
      /\ rx' = [rx EXCEPT ![i] = <<>>] /\ Fated(ToSet(rx[i]), "lost")
  BY DEF Exit, card, wakes, Goto
<1>2. <<>> \in Seq(Envelope) /\ <<>> \o <<>> = <<>> /\ carry[i] = <<>>
  BY <1>1, EmptySeq, ConcatEmptySeq DEF LineInv, Lives
<1>3. fate' \in [Envelope -> Fate]
  BY <1>1 DEF Fated, Fate, LineInv, TypeOK
<1>4. rx' \in [Actor -> Seq(Envelope)] /\ pc' \in [Actor -> Control]
  BY <1>1, <1>2 DEF LineInv, TypeOK, Control
<1>5. TypeOK'
  BY <1>1, <1>3, <1>4 DEF LineInv, TypeOK
<1>6. LineOf(i)' = <<>> /\ \A j \in Actor \ {i} : LineOf(j)' = LineOf(j)
  BY <1>1, <1>2 DEF LineOf, LineInv, TypeOK
<1>7. Lives' /\ DepthExact'
  BY <1>1 DEF LineInv, Lives, DepthExact, TypeOK
<1>8. stopped' \subseteq Run
  BY <1>1 DEF LineInv, TypeOK
<1> QED
  BY <1>5, <1>6, <1>7, <1>8, ClearStep DEF LineInv

-----------------------------------------------------------------------------
LEMMA InitFollows == Init => LineInv /\ InLine!Init
<1> SUFFICES ASSUME Init PROVE LineInv /\ InLine!Init
  OBVIOUS
<1>1. <<>> \in Seq(Envelope) /\ Len(<<>>) = 0 /\ <<>> \o <<>> = <<>>
  BY EmptySeq, ConcatEmptySeq
<1>2. 1 \in Actor /\ Actor \subseteq Nat
  BY MailboxAssumption DEF Actor
<1>3. TypeOK
  <2>1. born \in 0..MaxActors
    BY MailboxAssumption DEF Init
  <2>2. pc \in [Actor -> Control] /\ fate \in [Envelope -> Fate]
    BY DEF Init, Control, Fate
  <2>3. /\ rx \in [Actor -> Seq(Envelope)] /\ carry \in [Actor -> Seq(Envelope)]
        /\ batch \in [Actor -> Seq(Envelope)] /\ depth \in [Actor -> Nat]
    BY <1>1 DEF Init
  <2> QED
    BY <1>2, <2>1, <2>2, <2>3 DEF Init, TypeOK
<1>4. Lives
  BY <1>2 DEF Init, Lives, Actor
<1>5. DepthExact
  BY <1>1 DEF Init, DepthExact
<1>6. InLine!Init
  BY <1>1 DEF Init, InLine!Init, LineOf
<1> QED
  BY <1>3, <1>4, <1>5, <1>6 DEF LineInv

LEMMA StepFollows == LineInv /\ [Next]_vars => LineInv' /\ InLineStep
<1> SUFFICES ASSUME LineInv, [Next]_vars PROVE LineInv' /\ InLineStep
  OBVIOUS
<1>1. CASE UNCHANGED vars
  <2>1. LineInv'
    BY <1>1 DEF vars, LineInv, TypeOK, Lives, DepthExact
  <2> QED
    BY <1>1, <2>1, Still DEF vars, LineInv, TypeOK
<1>2. ASSUME NEW e \in Envelope, Post(e) \/ Queue(e) PROVE LineInv' /\ InLineStep
  BY <1>2, SendFollows
<1>3. CASE Command
  BY <1>3, CommandFollows
<1>4. CASE Restore
  BY <1>4, RestoreFollows
<1>5. ASSUME NEW i \in Actor, Step(i) PROVE LineInv' /\ InLineStep
  <2>1. CASE Quiet(i)
    BY <2>1, QuietFollows
  <2>2. CASE Takes(i)
    BY <2>2, TakesFollows
  <2>3. CASE Gathered(i) \/ TakeInEnds(i)
    BY <2>3, PutsBackFollows
  <2>4. CASE Sweep(i)
    BY <2>4, SweepFollows
  <2>5. CASE PutDownQueue(i) \/ Abandon(i)
    BY <2>5, EmptiedFollows
  <2>6. CASE Exit(i)
    BY <2>6, ExitFollows
  <2> QED
    BY <1>5, <2>1, <2>2, <2>3, <2>4, <2>5, <2>6 DEF Step, Quiet, Takes
<1> QED
  BY <1>1, <1>2, <1>3, <1>4, <1>5 DEF Next, Command

(* The channel, the holding queue and every path that takes a message off     *)
(* them or puts one back keep their types, for any number of restarts.        *)
THEOREM MailboxTypes == Spec => []TypeOK
<1>1. Init => LineInv
  BY InitFollows
<1>2. LineInv /\ [Next]_vars => LineInv'
  BY StepFollows
<1>3. LineInv => TypeOK
  BY DEF LineInv
<1> QED
  BY <1>1, <1>2, <1>3, PTL DEF Spec

(* "A held envelope is as queued as one still in the channel" (Intake): the   *)
(* count of an inbox is the length of channel and holding queue together.     *)
THEOREM DepthIsExact == Spec => []DepthExact
<1>1. Init => LineInv
  BY InitFollows
<1>2. LineInv /\ [Next]_vars => LineInv'
  BY StepFollows
<1>3. LineInv => DepthExact
  BY DEF LineInv
<1> QED
  BY <1>1, <1>2, <1>3, PTL DEF Spec

(* What the actor moves between channel, holding queue and turn, it reads in  *)
(* the order of arrival (actor_loop, put_back, sweep): each actor implements  *)
(* a line, from which only what is called off leaves out of turn.             *)
THEOREM MailboxIsALine == Spec => ReadsInOrder
<1>1. Init => LineInv /\ InLine!Init
  BY InitFollows
<1>2. LineInv /\ [Next]_vars => LineInv' /\ [InLine!Next]_<<Lines, stopped>>
  BY StepFollows DEF InLineStep
<1> QED
  BY <1>1, <1>2, PTL DEF Spec, ReadsInOrder, InLine!Spec, Lines

-----------------------------------------------------------------------------
(* Sequences in which nothing is twice.                                     *)

\* Where the elements of a concatenation come from.
LEMMA ConcatIndex ==
    ASSUME NEW S, NEW s \in Seq(S), NEW t \in Seq(S)
    PROVE  /\ s \o t \in Seq(S) /\ Len(s) \in Nat /\ Len(t) \in Nat
           /\ DOMAIN s = 1..Len(s) /\ DOMAIN t = 1..Len(t)
           /\ DOMAIN (s \o t) = 1..(Len(s) + Len(t))
           /\ \A i \in 1..Len(s) : (s \o t)[i] = s[i]
           /\ \A j \in 1..Len(t) : (s \o t)[Len(s) + j] = t[j]
  OBVIOUS

LEMMA ElementsOfConcat ==
    ASSUME NEW S, NEW s \in Seq(S), NEW t \in Seq(S)
    PROVE  ToSet(s \o t) = ToSet(s) \cup ToSet(t)
<1> DEFINE u == s \o t
           m == Len(s)
           n == Len(t)
<1>1. /\ m \in Nat /\ n \in Nat /\ DOMAIN s = 1..m /\ DOMAIN t = 1..n /\ DOMAIN u = 1..(m + n)
      /\ \A i \in 1..m : u[i] = s[i]
      /\ \A j \in 1..n : u[m + j] = t[j]
  BY ConcatIndex
<1> HIDE DEF u, m, n
<1>2. ASSUME NEW k \in 1..(m + n) PROVE u[k] \in ToSet(s) \cup ToSet(t)
  <2>1. CASE k \in 1..m
    BY <1>1, <2>1 DEF ToSet
  <2>2. CASE k \notin 1..m
    <3>1. k - m \in 1..n /\ m + (k - m) = k
      BY <1>1, <2>2
    <3>2. u[k] = t[k - m]
      BY <1>1, <3>1
    <3> QED
      BY <1>1, <3>1, <3>2 DEF ToSet
  <2> QED
    BY <2>1, <2>2
<1>3. ASSUME NEW i \in 1..m PROVE s[i] \in ToSet(u)
  <2>1. i \in 1..(m + n)
    BY <1>1
  <2> QED
    BY <1>1, <2>1 DEF ToSet
<1>4. ASSUME NEW j \in 1..n PROVE t[j] \in ToSet(u)
  <2>1. m + j \in 1..(m + n)
    BY <1>1
  <2> QED
    BY <1>1, <2>1 DEF ToSet
<1>5. ToSet(u) \subseteq ToSet(s) \cup ToSet(t)
  BY <1>1, <1>2 DEF ToSet
<1>6. ToSet(s) \subseteq ToSet(u) /\ ToSet(t) \subseteq ToSet(u)
  BY <1>1, <1>3, <1>4 DEF ToSet
<1> QED
  BY <1>5, <1>6 DEF u

\* One element leaves, and the others are still there once.
LEMMA OneLeaves ==
    ASSUME NEW S, NEW s \in Seq(S), NEW t \in Seq(S), t # <<>>, IsInjective(s \o t)
    PROVE  /\ IsInjective(s \o Tail(t))
           /\ ToSet(s \o Tail(t)) = ToSet(s \o t) \ {Head(t)}
<1> DEFINE u == s \o t
           v == s \o Tail(t)
           m == Len(s)
           n == Len(t)
           g == [k \in 1..(m + n - 1) |-> IF k <= m THEN k ELSE k + 1]
<1>1. /\ Tail(t) \in Seq(S) /\ Len(Tail(t)) = n - 1 /\ n \in Nat \ {0} /\ Head(t) = t[1]
      /\ m \in Nat
      /\ \A j \in 1..(n - 1) : Tail(t)[j] = t[j + 1]
  OBVIOUS
<1>2. /\ DOMAIN u = 1..(m + n)
      /\ \A i \in 1..m : u[i] = s[i]
      /\ \A j \in 1..n : u[m + j] = t[j]
  BY ConcatIndex
<1>3. /\ DOMAIN v = 1..(m + (n - 1))
      /\ \A i \in 1..m : v[i] = s[i]
      /\ \A j \in 1..(n - 1) : v[m + j] = Tail(t)[j]
  BY <1>1, ConcatIndex
<1>4. \A a, b \in 1..(m + n) : u[a] = u[b] => a = b
  BY <1>2 DEF IsInjective
<1> HIDE DEF u, v, m, n
<1>5. ASSUME NEW k \in 1..(m + n - 1)
      PROVE  g[k] \in 1..(m + n) /\ g[k] # m + 1 /\ v[k] = u[g[k]]
  <2>1. CASE k <= m
    <3>1. k \in 1..m
      BY <1>1, <2>1
    <3> QED
      BY <1>1, <1>2, <1>3, <2>1, <3>1
  <2>2. CASE ~(k <= m)
    <3>1. PICK j \in 1..(n - 1) : k = m + j
      BY <1>1, <2>2
    <3>2. v[k] = t[j + 1]
      BY <1>1, <1>3, <3>1
    <3>3. j + 1 \in 1..n /\ m + (j + 1) = k + 1 /\ k \in Nat
      BY <1>1, <3>1
    <3>4. u[m + (j + 1)] = t[j + 1]
      BY <1>2, <3>3
    <3>5. g[k] = k + 1 /\ k + 1 \in 1..(m + n) /\ k + 1 # m + 1
      BY <1>1, <2>2
    <3> QED
      BY <3>2, <3>3, <3>4, <3>5
  <2> QED
    BY <2>1, <2>2
<1>6. \A a, b \in 1..(m + n - 1) : g[a] = g[b] => a = b
  BY <1>1
<1>7. ASSUME NEW k \in 1..(m + n), k # m + 1
      PROVE  \E j \in 1..(m + n - 1) : g[j] = k
  <2>1. CASE k <= m
    <3>1. k \in 1..(m + n - 1) /\ g[k] = k
      BY <1>1, <2>1
    <3> QED
      BY <3>1
  <2>2. CASE ~(k <= m)
    <3>1. k - 1 \in 1..(m + n - 1) /\ g[k - 1] = k
      BY <1>1, <1>7, <2>2
    <3> QED
      BY <3>1
  <2> QED
    BY <2>1, <2>2
<1> HIDE DEF g
<1>8. DOMAIN v = 1..(m + n - 1)
  BY <1>1, <1>3
<1>9. IsInjective(v)
  <2>1. ASSUME NEW a \in 1..(m + n - 1), NEW b \in 1..(m + n - 1), v[a] = v[b]
        PROVE  a = b
    BY <1>4, <1>5, <1>6, <2>1
  <2> QED
    BY <1>8, <2>1 DEF IsInjective
<1>10. u[m + 1] = Head(t) /\ m + 1 \in 1..(m + n)
  BY <1>1, <1>2
<1>11. ToSet(v) \subseteq ToSet(u) \ {Head(t)}
  <2>1. ASSUME NEW k \in 1..(m + n - 1) PROVE v[k] \in ToSet(u) /\ v[k] # Head(t)
    BY <1>2, <1>4, <1>5, <1>10 DEF ToSet
  <2> QED
    BY <1>8, <2>1 DEF ToSet
<1>12. ToSet(u) \ {Head(t)} \subseteq ToSet(v)
  <2>1. ASSUME NEW k \in 1..(m + n), u[k] # Head(t) PROVE u[k] \in ToSet(v)
    <3>1. PICK j \in 1..(m + n - 1) : g[j] = k
      BY <1>7, <1>10, <2>1
    <3>2. v[j] = u[k]
      BY <1>5, <3>1
    <3> QED
      BY <1>8, <3>2 DEF ToSet
  <2> QED
    BY <1>2, <2>1 DEF ToSet
<1> QED
  BY <1>9, <1>11, <1>12 DEF u, v

\* What was in front leaves.
LEMMA FrontLeaves ==
    ASSUME NEW S, NEW s \in Seq(S), NEW t \in Seq(S), IsInjective(s \o t)
    PROVE  /\ IsInjective(t)
           /\ ToSet(t) = ToSet(s \o t) \ ToSet(s)
<1> DEFINE u == s \o t
           m == Len(s)
           n == Len(t)
<1>1. /\ m \in Nat /\ n \in Nat /\ DOMAIN s = 1..m /\ DOMAIN t = 1..n /\ DOMAIN u = 1..(m + n)
      /\ \A i \in 1..m : u[i] = s[i]
      /\ \A j \in 1..n : u[m + j] = t[j]
  BY ConcatIndex
<1>2. \A a, b \in 1..(m + n) : u[a] = u[b] => a = b
  BY <1>1 DEF IsInjective
<1>3. ToSet(u) = ToSet(s) \cup ToSet(t)
  BY ElementsOfConcat
<1> HIDE DEF u, m, n
<1>4. \A j \in 1..n : m + j \in 1..(m + n)
  BY <1>1
<1>5. ASSUME NEW a \in 1..n, NEW b \in 1..n, t[a] = t[b] PROVE a = b
  <2>1. m + a = m + b
    BY <1>1, <1>2, <1>4, <1>5
  <2> QED
    BY <1>1, <2>1
<1>6. ASSUME NEW a \in 1..n, NEW b \in 1..m PROVE t[a] # s[b]
  <2>1. m + a # b /\ b \in 1..(m + n)
    BY <1>1
  <2> QED
    BY <1>1, <1>2, <1>4, <2>1
<1>7. IsInjective(t)
  BY <1>1, <1>5 DEF IsInjective
<1>8. ToSet(t) \cap ToSet(s) = {}
  BY <1>1, <1>6 DEF ToSet
<1> QED
  BY <1>3, <1>7, <1>8 DEF u

\* A newcomer joins at the end.
LEMMA OneJoins ==
    ASSUME NEW S, NEW s \in Seq(S), NEW e \in S, IsInjective(s), e \notin ToSet(s)
    PROVE  /\ IsInjective(Append(s, e))
           /\ ToSet(Append(s, e)) = ToSet(s) \cup {e}
<1> DEFINE u == Append(s, e)
           n == Len(s)
<1>1. /\ n \in Nat /\ DOMAIN s = 1..n /\ DOMAIN u = 1..(n + 1)
      /\ \A i \in 1..n : u[i] = s[i]
      /\ u[n + 1] = e
  OBVIOUS
<1>2. \A a, b \in 1..n : s[a] = s[b] => a = b
  BY <1>1 DEF IsInjective
<1>3. \A a \in 1..n : s[a] # e
  BY <1>1 DEF ToSet
<1> HIDE DEF u, n
<1>4. \A a \in 1..(n + 1) : a \in 1..n \/ a = n + 1
  BY <1>1
<1>5. 1..n \subseteq 1..(n + 1) /\ n + 1 \in 1..(n + 1)
  BY <1>1
<1>6. IsInjective(u)
  BY <1>1, <1>2, <1>3, <1>4 DEF IsInjective
<1>7. ToSet(u) = ToSet(s) \cup {e}
  BY <1>1, <1>4, <1>5 DEF ToSet
<1> QED
  BY <1>6, <1>7 DEF u

LEMMA HeadIsThere ==
    ASSUME NEW S, NEW s \in Seq(S), s # <<>>
    PROVE  Head(s) \in ToSet(s)
<1>1. 1 \in DOMAIN s /\ s[1] = Head(s)
  OBVIOUS
<1> QED
  BY <1>1 DEF ToSet

LEMMA ConcatThree ==
    \A r, s, t \in Seq(Envelope) : (r \o s) \o t = r \o (s \o t)
BY ConcatAssociative

LEMMA SetAsideAnywhere ==
    \A s, t \in Seq(Envelope) : t # <<>> => Append(s, Head(t)) \o Tail(t) = s \o t
BY SetAside

-----------------------------------------------------------------------------
(* What an actor has in hand.                                               *)

\* Its batch, and what it has yet to read.
Held(i) == batch[i] \o LineOf(i)

\* What is in a hand is nowhere else: it has been queued, and nothing has
\* become of it yet.
HandsAreQueued == \A i \in Actor : \A e \in InHand(i) : fate[e] = "queued"

\* Where an actor has a batch, and where it holds the one message it took.
BatchAt ==
    \A i \in Actor :
        /\ pc[i] \in {"unborn", "recv", "exiting", "exited"} => batch[i] = <<>>
        /\ pc[i] \in {"gate", "arm", "draining?", "stopped?", "any?", "sweep", "park",
                      "calledoff"} => Len(batch[i]) = 1

HeldInv == LineInv /\ BookedIsHeld /\ HandsAreQueued /\ BatchAt

HandsAsHeld ==
    \A i \in Actor : /\ InHand(i) = ToSet(Held(i)) /\ Held(i) \in Seq(Envelope)
                     /\ batch[i] \in Seq(Envelope) /\ LineOf(i) \in Seq(Envelope)
                     /\ InHand(i) = ToSet(batch[i]) \cup ToSet(LineOf(i))

LEMMA HandIsHeld == TypeOK => HandsAsHeld
<1> SUFFICES ASSUME TypeOK, NEW i \in Actor
             PROVE  /\ InHand(i) = ToSet(Held(i)) /\ Held(i) \in Seq(Envelope)
                    /\ batch[i] \in Seq(Envelope) /\ LineOf(i) \in Seq(Envelope)
                    /\ InHand(i) = ToSet(batch[i]) \cup ToSet(LineOf(i))
  BY DEF HandsAsHeld
<1>1. /\ batch[i] \in Seq(Envelope) /\ carry[i] \in Seq(Envelope) /\ rx[i] \in Seq(Envelope)
      /\ LineOf(i) \in Seq(Envelope)
  BY LineTypes DEF TypeOK
<1>2. ToSet(LineOf(i)) = ToSet(carry[i]) \cup ToSet(rx[i])
  BY <1>1, ElementsOfConcat DEF LineOf
<1>3. ToSet(Held(i)) = ToSet(batch[i]) \cup ToSet(LineOf(i)) /\ Held(i) \in Seq(Envelope)
  BY <1>1, ElementsOfConcat, ConcatProperties DEF Held
<1> QED
  BY <1>1, <1>2, <1>3 DEF InHand

LEMMA HandIsHeldNext == TypeOK' => HandsAsHeld'
BY HandIsHeld, PTL

\* BookedIsHeld, hand by hand.
LEMMA HeldFacts ==
    ASSUME HeldInv
    PROVE  /\ TypeOK
           /\ \A i \in Actor : InHand(i) \subseteq booked /\ IsInjective(Held(i))
           /\ \A i, j \in Actor : i # j => InHand(i) \cap InHand(j) = {}
           /\ \A e \in Envelope : e \in booked <=>
                 fate[e] \in {"posted", "lost"} \/ \E i \in Actor : e \in InHand(i)
<1>1. TypeOK
  BY DEF HeldInv, LineInv
<1>2. \A i \in Actor : InHand(i) \subseteq Envelope
  BY <1>1, HandIsHeld DEF HandsAsHeld, ToSet
<1> QED
  BY <1>1, <1>2 DEF HeldInv, BookedIsHeld, Held

\* BookedIsHeld again, after the step.
LEMMA HeldBack ==
    ASSUME TypeOK',
           \A i \in Actor : IsInjective(Held(i)'),
           \A i, j \in Actor : i # j => InHand(i)' \cap InHand(j)' = {},
           \A e \in Envelope : e \in booked' <=>
                 fate'[e] \in {"posted", "lost"} \/ \E i \in Actor : e \in InHand(i)'
    PROVE  BookedIsHeld'
<1>1. \A i \in Actor : InHand(i)' = ToSet(Held(i)') /\ Held(i)' \in Seq(Envelope)
  BY HandIsHeldNext DEF HandsAsHeld
<1>2. \A i \in Actor : InHand(i)' \subseteq Envelope
  BY <1>1 DEF ToSet
<1>3. booked' \subseteq Envelope
  BY DEF TypeOK
<1>4. booked' = {e \in Envelope : fate'[e] \in {"posted", "lost"}}
                   \cup UNION {InHand(i)' : i \in Actor}
  BY <1>2, <1>3
<1> QED
  BY <1>4 DEF BookedIsHeld, Held

\* Nothing moves.
LEMMA HandsStill ==
    ASSUME HeldInv, UNCHANGED <<batch, rx, carry, booked, fate>>
    PROVE  BookedIsHeld' /\ HandsAreQueued'
<1>1. \A i \in Actor : InHand(i)' = InHand(i) /\ LineOf(i)' = LineOf(i)
  BY DEF InHand, LineOf
<1> QED
  BY <1>1 DEF HeldInv, BookedIsHeld, HandsAreQueued

\* One hand lets go of the messages of E, which are released with it.
LEMMA HandLetsGo ==
    ASSUME HeldInv, LineInv', NEW i \in Actor, NEW E,
           InHand(i)' = InHand(i) \ E, IsInjective(Held(i)'), E \subseteq InHand(i),
           \A j \in Actor \ {i} : batch'[j] = batch[j] /\ LineOf(j)' = LineOf(j),
           booked' = booked \ E,
           \A e \in Envelope : fate'[e] = fate[e] \/ (e \in E /\ fate'[e] \notin {"posted", "lost"})
    PROVE  BookedIsHeld' /\ HandsAreQueued'
<1>1. /\ TypeOK
      /\ \A j \in Actor : InHand(j) \subseteq booked /\ IsInjective(Held(j))
      /\ \A j, k \in Actor : j # k => InHand(j) \cap InHand(k) = {}
      /\ \A e \in Envelope : e \in booked <=>
            fate[e] \in {"posted", "lost"} \/ \E j \in Actor : e \in InHand(j)
  BY HeldFacts
<1>2. TypeOK'
  BY DEF LineInv
<1>3. \A j \in Actor : InHand(j) = ToSet(Held(j)) /\ Held(j) \in Seq(Envelope)
  BY <1>1, HandIsHeld DEF HandsAsHeld
<1>4. \A j \in Actor : InHand(j)' = ToSet(Held(j)') /\ Held(j)' \in Seq(Envelope)
  BY <1>2, HandIsHeldNext DEF HandsAsHeld
<1>5. \A j \in Actor \ {i} : Held(j)' = Held(j)
  BY DEF Held
<1>6. \A j \in Actor \ {i} : InHand(j)' = InHand(j)
  BY <1>3, <1>4, <1>5
<1>7. \A j \in Actor : InHand(j)' = InHand(j) \ E
  BY <1>1, <1>6
<1>8. \A j \in Actor : IsInjective(Held(j)')
  BY <1>1, <1>5
<1>9. \A j, k \in Actor : j # k => InHand(j)' \cap InHand(k)' = {}
  BY <1>1, <1>7
<1>10. \A j \in Actor : \A e \in InHand(j) : fate[e] = "queued" /\ e \in Envelope
  BY <1>3 DEF HeldInv, HandsAreQueued, ToSet
<1>11. \A e \in Envelope : e \in booked' <=>
            fate'[e] \in {"posted", "lost"} \/ \E j \in Actor : e \in InHand(j)'
  <2> SUFFICES ASSUME NEW e \in Envelope
               PROVE  e \in booked' <=>
                        fate'[e] \in {"posted", "lost"} \/ \E j \in Actor : e \in InHand(j)'
    OBVIOUS
  <2>1. CASE e \in E
    <3>1. e \notin booked' /\ \A j \in Actor : e \notin InHand(j)'
      BY <1>7, <2>1
    <3>2. fate[e] = "queued"
      BY <1>10, <2>1
    <3> QED
      BY <3>1, <3>2
  <2>2. CASE e \notin E
    BY <1>1, <1>7, <2>2
  <2> QED
    BY <2>1, <2>2
<1>12. BookedIsHeld'
  BY <1>2, <1>8, <1>9, <1>11, HeldBack
<1>13. HandsAreQueued'
  <2>1. ASSUME NEW j \in Actor, NEW e \in InHand(j)' PROVE fate'[e] = "queued"
    <3>1. e \in InHand(j) /\ e \notin E
      BY <1>7
    <3> QED
      BY <1>10, <3>1
  <2> QED
    BY <2>1 DEF HandsAreQueued
<1> QED
  BY <1>12, <1>13

\* A hand is shuffled, and holds what it held.
LEMMA HandShuffles ==
    ASSUME HeldInv, LineInv', NEW i \in Actor, Held(i)' = Held(i),
           \A j \in Actor \ {i} : batch'[j] = batch[j] /\ LineOf(j)' = LineOf(j),
           UNCHANGED <<booked, fate>>
    PROVE  BookedIsHeld' /\ HandsAreQueued'
<1>1. TypeOK /\ IsInjective(Held(i))
  BY HeldFacts
<1>2. InHand(i) = ToSet(Held(i))
  BY <1>1, HandIsHeld DEF HandsAsHeld
<1>3. InHand(i)' = ToSet(Held(i)')
  BY HandIsHeldNext DEF LineInv, HandsAsHeld
<1> DEFINE E == {}
<1>4. /\ InHand(i)' = InHand(i) \ E /\ booked' = booked \ E /\ IsInjective(Held(i)')
      /\ E \subseteq InHand(i)
  BY <1>1, <1>2, <1>3
<1>5. \A e \in Envelope : fate'[e] = fate[e] \/ (e \in E /\ fate'[e] \notin {"posted", "lost"})
  OBVIOUS
<1> HIDE DEF E
<1> QED
  BY <1>4, <1>5, HandLetsGo

\* Only the batch of one actor changes, and where it is.
LEMMA OneBatch ==
    ASSUME HeldInv, NEW i \in Actor, NEW l \in Control, pc' = [pc EXCEPT ![i] = l],
           \A j \in Actor \ {i} : batch'[j] = batch[j],
           l \in {"unborn", "recv", "exiting", "exited"} => batch'[i] = <<>>,
           l \in {"gate", "arm", "draining?", "stopped?", "any?", "sweep", "park",
                  "calledoff"} => Len(batch'[i]) = 1
    PROVE  BatchAt'
<1>1. pc \in [Actor -> Control]
  BY DEF HeldInv, LineInv, TypeOK
<1> QED
  BY <1>1 DEF HeldInv, BatchAt

\* A message on its way reaches a hand, or nobody reads it and it is released.
LEMMA SendKeepsHands ==
    ASSUME HeldInv, LineInv', NEW e \in Envelope, Post(e) \/ Queue(e)
    PROVE  BookedIsHeld' /\ HandsAreQueued' /\ BatchAt'
<1>1. /\ TypeOK
      /\ \A j \in Actor : InHand(j) \subseteq booked /\ IsInjective(Held(j))
      /\ \A j, k \in Actor : j # k => InHand(j) \cap InHand(k) = {}
      /\ \A x \in Envelope : x \in booked <=>
            fate[x] \in {"posted", "lost"} \/ \E j \in Actor : x \in InHand(j)
  BY HeldFacts
<1>2. TypeOK' /\ fate \in [Envelope -> Fate]
  BY <1>1 DEF LineInv, TypeOK
<1>3. \A j \in Actor : InHand(j) = ToSet(Held(j)) /\ Held(j) \in Seq(Envelope)
                       /\ batch[j] \in Seq(Envelope) /\ LineOf(j) \in Seq(Envelope)
  BY <1>1, HandIsHeld DEF HandsAsHeld
<1>4. fate[e] # "queued" /\ \A j \in Actor : e \notin InHand(j)
  BY DEF Post, Queue, HeldInv, HandsAreQueued
<1>5. BatchAt'
  <2>1. batch' = batch /\ pc' = pc
    BY DEF Post, Queue
  <2> QED
    BY <2>1 DEF HeldInv, BatchAt
<1>6. CASE Post(e)
  <2>1. /\ UNCHANGED <<batch, rx, carry>> /\ booked' = booked \cup {e} /\ Fated({e}, "posted")
    BY <1>6 DEF Post, queue
  <2>2. \A j \in Actor : InHand(j)' = InHand(j) /\ Held(j)' = Held(j)
    BY <2>1 DEF InHand, Held, LineOf
  <2>3. \A x \in Envelope : fate'[x] = IF x = e THEN "posted" ELSE fate[x]
    BY <1>2, <2>1 DEF Fated
  <2>4. \A x \in Envelope : x \in booked' <=>
            fate'[x] \in {"posted", "lost"} \/ \E j \in Actor : x \in InHand(j)'
    BY <1>1, <2>1, <2>2, <2>3
  <2>5. BookedIsHeld'
    BY <1>1, <1>2, <2>2, <2>4, HeldBack
  <2>6. HandsAreQueued'
    <3>1. \A j \in Actor : \A x \in InHand(j) : x \in Envelope
      BY <1>3 DEF ToSet
    <3> QED
      BY <1>4, <2>2, <2>3, <3>1 DEF HeldInv, HandsAreQueued
  <2> QED
    BY <1>5, <2>5, <2>6
<1>7. CASE Queue(e) /\ inbox # 0 /\ pc[inbox] # "exited"
  <2>1. PICK i \in Actor :
        /\ rx' = [rx EXCEPT ![i] = Append(@, e)] /\ UNCHANGED <<batch, carry, booked>>
        /\ Fated({e}, "queued")
    BY <1>1, <1>7 DEF TypeOK, Queue
  <2>2. rx[i] \in Seq(Envelope) /\ carry[i] \in Seq(Envelope) /\ rx \in [Actor -> Seq(Envelope)]
    BY <1>1 DEF TypeOK
  <2>3. Held(i)' = Append(Held(i), e)
    <3>1. rx'[i] = Append(rx[i], e) /\ carry'[i] = carry[i] /\ batch'[i] = batch[i]
      BY <2>1, <2>2
    <3>2. LineOf(i)' = Append(LineOf(i), e)
      BY <2>2, <3>1, ConcatAppend DEF LineOf
    <3>3. batch[i] \o Append(LineOf(i), e) = Append(batch[i] \o LineOf(i), e)
      BY <1>3, ConcatAppend
    <3> QED
      BY <3>1, <3>2, <3>3 DEF Held
  <2>4. \A j \in Actor \ {i} : Held(j)' = Held(j)
    BY <2>1, <2>2 DEF Held, LineOf
  <2>5. IsInjective(Append(Held(i), e)) /\ ToSet(Append(Held(i), e)) = ToSet(Held(i)) \cup {e}
    BY <1>1, <1>3, <1>4, OneJoins
  <2>6. \A j \in Actor : InHand(j)' = ToSet(Held(j)')
    BY <1>2, HandIsHeldNext DEF HandsAsHeld
  <2>7. /\ InHand(i)' = InHand(i) \cup {e} /\ \A j \in Actor \ {i} : InHand(j)' = InHand(j)
        /\ \A j \in Actor : IsInjective(Held(j)')
    <3>1. InHand(i)' = InHand(i) \cup {e} /\ IsInjective(Held(i)')
      BY <1>3, <2>3, <2>5, <2>6
    <3>2. ASSUME NEW j \in Actor \ {i} PROVE InHand(j)' = InHand(j) /\ IsInjective(Held(j)')
      BY <1>1, <1>3, <2>4, <2>6
    <3> QED
      BY <3>1, <3>2
  <2>8. \A x \in Envelope : fate'[x] = IF x = e THEN "queued" ELSE fate[x]
    BY <1>2, <2>1 DEF Fated
  <2>9. e \in booked
    BY <1>1, <1>7 DEF Queue
  <2>10. \A x \in Envelope : x \in booked' <=>
            fate'[x] \in {"posted", "lost"} \/ \E j \in Actor : x \in InHand(j)'
    <3> SUFFICES ASSUME NEW x \in Envelope
                 PROVE  x \in booked' <=>
                          fate'[x] \in {"posted", "lost"} \/ \E j \in Actor : x \in InHand(j)'
      OBVIOUS
    <3>1. CASE x = e
      BY <2>1, <2>7, <2>9, <3>1
    <3>2. CASE x # e
      <4>1. \A j \in Actor : x \in InHand(j)' <=> x \in InHand(j)
        BY <2>7, <3>2
      <4> QED
        BY <1>1, <2>1, <2>8, <3>2, <4>1
    <3> QED
      BY <3>1, <3>2
  <2>11. \A j, k \in Actor : j # k => InHand(j)' \cap InHand(k)' = {}
    BY <1>1, <1>4, <2>7
  <2>12. BookedIsHeld'
    BY <1>2, <2>7, <2>10, <2>11, HeldBack
  <2>13. HandsAreQueued'
    <3>1. ASSUME NEW j \in Actor, NEW x \in InHand(j)' PROVE fate'[x] = "queued"
      <4>1. x \in InHand(j) \/ x = e
        BY <2>7
      <4>2. x \in Envelope
        BY <1>3, <4>1 DEF ToSet
      <4> QED
        BY <2>8, <4>1, <4>2 DEF HeldInv, HandsAreQueued
    <3> QED
      BY <3>1 DEF HandsAreQueued
  <2> QED
    BY <1>5, <2>12, <2>13
<1>8. CASE Queue(e) /\ ~(inbox # 0 /\ pc[inbox] # "exited")
  <2>1. /\ UNCHANGED <<batch, rx, carry>> /\ booked' = booked \ {e} /\ Fated({e}, "ended")
    BY <1>8 DEF Queue, queue, Release
  <2>2. \A j \in Actor : InHand(j)' = InHand(j) /\ Held(j)' = Held(j)
    BY <2>1 DEF InHand, Held, LineOf
  <2>3. \A x \in Envelope : fate'[x] = IF x = e THEN "ended" ELSE fate[x]
    BY <1>2, <2>1 DEF Fated
  <2>4. \A x \in Envelope : x \in booked' <=>
            fate'[x] \in {"posted", "lost"} \/ \E j \in Actor : x \in InHand(j)'
    BY <1>1, <1>4, <2>1, <2>2, <2>3
  <2>5. BookedIsHeld'
    BY <1>1, <1>2, <2>2, <2>4, HeldBack
  <2>6. HandsAreQueued'
    <3>1. \A j \in Actor : \A x \in InHand(j) : x \in Envelope
      BY <1>3 DEF ToSet
    <3> QED
      BY <1>4, <2>2, <2>3, <3>1 DEF HeldInv, HandsAreQueued
  <2> QED
    BY <1>5, <2>5, <2>6
<1> QED
  BY <1>6, <1>7, <1>8

\* A batch is let go of: it has ended, or is put down.
LEMMA BatchLetGo ==
    ASSUME HeldInv, LineInv', NEW i \in Actor, NEW f \in {"ended", "putdown"},
           batch' = [batch EXCEPT ![i] = <<>>], UNCHANGED <<rx, carry>>,
           booked' = booked \ ToSet(batch[i]), Fated(ToSet(batch[i]), f),
           pc' = [pc EXCEPT ![i] = "recv"]
    PROVE  BookedIsHeld' /\ HandsAreQueued' /\ BatchAt'
<1>1. TypeOK /\ IsInjective(Held(i))
  BY HeldFacts
<1>2. /\ InHand(i) = ToSet(Held(i)) /\ batch[i] \in Seq(Envelope) /\ LineOf(i) \in Seq(Envelope)
      /\ InHand(i) = ToSet(batch[i]) \cup ToSet(LineOf(i))
  BY <1>1, HandIsHeld DEF HandsAsHeld
<1>3. batch \in [Actor -> Seq(Envelope)] /\ fate \in [Envelope -> Fate]
  BY <1>1 DEF TypeOK
<1>4. Held(i)' = LineOf(i)
  <2>1. batch'[i] = <<>> /\ LineOf(i)' = LineOf(i)
    BY <1>3 DEF LineOf
  <2> QED
    BY <1>2, <2>1, ConcatEmptySeq DEF Held
<1>5. IsInjective(LineOf(i)) /\ ToSet(LineOf(i)) = ToSet(Held(i)) \ ToSet(batch[i])
  BY <1>1, <1>2, FrontLeaves DEF Held
<1>6. InHand(i)' = ToSet(Held(i)')
  BY HandIsHeldNext DEF LineInv, HandsAsHeld
<1>7. /\ InHand(i)' = InHand(i) \ ToSet(batch[i]) /\ IsInjective(Held(i)')
      /\ ToSet(batch[i]) \subseteq InHand(i)
  BY <1>2, <1>4, <1>5, <1>6
<1>8. \A j \in Actor \ {i} : batch'[j] = batch[j] /\ LineOf(j)' = LineOf(j)
  BY <1>3 DEF LineOf
<1>9. \A e \in Envelope :
         fate'[e] = fate[e] \/ (e \in ToSet(batch[i]) /\ fate'[e] \notin {"posted", "lost"})
  BY <1>3 DEF Fated
<1>10. BookedIsHeld' /\ HandsAreQueued'
  BY <1>7, <1>8, <1>9, HandLetsGo
<1>11. batch'[i] = <<>> /\ "recv" \in Control
  BY <1>3 DEF Control
<1>12. BatchAt'
  BY <1>8, <1>11, OneBatch
<1> QED
  BY <1>10, <1>12

LEMMA BatchIsOne ==
    ASSUME HeldInv, NEW i \in Actor, Len(batch[i]) = 1
    PROVE  ToSet(batch[i]) = {batch[i][1]}
<1>1. batch[i] \in Seq(Envelope)
  BY DEF HeldInv, LineInv, TypeOK
<1>2. DOMAIN batch[i] = {1}
  BY <1>1
<1> QED
  BY <1>2 DEF ToSet

LEMMA QuietKeepsHands ==
    ASSUME HeldInv, LineInv', NEW i \in Actor, Quiet(i)
    PROVE  BookedIsHeld' /\ HandsAreQueued' /\ BatchAt'
<1>1. pc \in [Actor -> Control] /\ UNCHANGED <<rx, carry>>
  BY DEF HeldInv, LineInv, TypeOK, Quiet, Close, Gate, Arm, CheckDrain, CheckStop, CheckAny, Swept,
         Wake, CalledOff, StartTurn, EndTurn, queue
<1>2. BatchAt
  BY DEF HeldInv
<1>3. CASE UNCHANGED <<batch, booked, fate>>
  <2>1. BookedIsHeld' /\ HandsAreQueued'
    BY <1>1, <1>3, HandsStill
  <2>2. PICK l \in Control : pc' = [pc EXCEPT ![i] = l]
             /\ (l \in {"unborn", "recv", "exiting", "exited"} => batch[i] = <<>>)
             /\ (l \in {"gate", "arm", "draining?", "stopped?", "any?", "sweep", "park",
                        "calledoff"} => Len(batch[i]) = 1)
    <3>1. CASE Close(i) \/ Gate(i) \/ Arm(i) \/ Wake(i) \/ Swept(i)
      BY <1>1, <1>2, <3>1 DEF Close, Gate, Arm, Wake, Swept, Goto, BatchAt, HeldInv, LineInv,
                              TypeOK, Control
    <3>2. CASE CheckDrain(i) \/ CheckStop(i) \/ CheckAny(i)
      BY <1>1, <1>2, <3>2 DEF CheckDrain, CheckStop, CheckAny, Goto, BatchAt, Control
    <3>3. CASE CalledOff(i)
      <4>1. batch[i] = <<>> /\ Len(batch[i]) = 1
        <5>1. batch'[i] = <<>> /\ pc[i] = "calledoff"
          BY <3>3 DEF CalledOff, HeldInv, LineInv, TypeOK
        <5> QED
          BY <1>2, <1>3, <5>1 DEF BatchAt
      <4> QED
        BY <4>1
    <3>4. CASE StartTurn(i) \/ EndTurn(i)
      <4>1. \/ pc' = [pc EXCEPT ![i] = "working"]
            \/ pc' = [pc EXCEPT ![i] = "recv"] /\ batch' = [batch EXCEPT ![i] = <<>>]
        BY <3>4 DEF StartTurn, EndTurn, Goto
      <4>2. batch \in [Actor -> Seq(Envelope)]
        BY DEF HeldInv, LineInv, TypeOK
      <4> QED
        BY <1>3, <4>1, <4>2 DEF Control
    <3> QED
      BY <3>1, <3>2, <3>3, <3>4 DEF Quiet
  <2> QED
    BY <1>3, <2>1, <2>2, OneBatch
<1>4. CASE ~UNCHANGED <<batch, booked, fate>>
  <2>1. CASE CalledOff(i)
    <3>1. ToSet(batch[i]) = {batch[i][1]}
      BY <1>2, <2>1, BatchIsOne DEF CalledOff, BatchAt
    <3>2. /\ batch' = [batch EXCEPT ![i] = <<>>] /\ pc' = [pc EXCEPT ![i] = "recv"]
          /\ booked' = booked \ ToSet(batch[i]) /\ Fated(ToSet(batch[i]), "ended")
      BY <2>1, <3>1 DEF CalledOff, Goto, Release
    <3> QED
      BY <1>1, <3>2, BatchLetGo
  <2>2. CASE StartTurn(i) \/ EndTurn(i)
    <3>1. /\ batch' = [batch EXCEPT ![i] = <<>>] /\ pc' = [pc EXCEPT ![i] = "recv"]
          /\ booked' = booked \ ToSet(batch[i])
          /\ Fated(ToSet(batch[i]), "ended") \/ Fated(ToSet(batch[i]), "putdown")
      BY <1>4, <2>2 DEF StartTurn, EndTurn, Goto, Release, PutDown
    <3> QED
      BY <1>1, <3>1, BatchLetGo
  <2> QED
    BY <1>4, <2>1, <2>2 DEF Quiet, Close, Gate, Arm, CheckDrain, CheckStop, CheckAny, Swept, Wake
<1> QED
  BY <1>3, <1>4

\* The head of the line joins the batch, or the turn in progress.
LEMMA TakesKeepsHands ==
    ASSUME HeldInv, LineInv', NEW i \in Actor, Takes(i)
    PROVE  BookedIsHeld' /\ HandsAreQueued' /\ BatchAt'
<1>1. TypeOK /\ IsInjective(Held(i)) /\ LineInv
  BY HeldFacts DEF HeldInv
<1>2. /\ InHand(i) = ToSet(Held(i)) /\ batch[i] \in Seq(Envelope) /\ LineOf(i) \in Seq(Envelope)
      /\ InHand(i) = ToSet(batch[i]) \cup ToSet(LineOf(i))
  BY <1>1, HandIsHeld DEF HandsAsHeld
<1>3. batch \in [Actor -> Seq(Envelope)] /\ fate \in [Envelope -> Fate] /\ pc \in [Actor -> Control]
  BY <1>1 DEF TypeOK
<1>4. Pop(i) /\ pc[i] \in {"recv", "gather", "working"}
  BY DEF Takes, Take, Gather, TakeIn
<1>5. /\ LineOf(i) # <<>> /\ LineOf(i)' = Tail(LineOf(i)) /\ Head(LineOf(i)) \in Envelope
      /\ \A j \in Actor \ {i} : LineOf(j)' = LineOf(j)
  BY <1>1, <1>4, PopReads
<1>6. CASE Take(i)
  <2>1. /\ batch' = [batch EXCEPT ![i] = <<Head(LineOf(i))>>] /\ batch[i] = <<>>
        /\ \E l \in {"putdown", "gate"} : pc' = [pc EXCEPT ![i] = l]
        /\ UNCHANGED <<booked, fate>>
    BY <1>6 DEF Take, Goto, HeldInv, BatchAt
  <2>2. batch'[i] = <<Head(LineOf(i))>> /\ \A j \in Actor \ {i} : batch'[j] = batch[j]
    BY <1>3, <2>1
  <2>3. Held(i)' = Held(i)
    <3>1. <<Head(LineOf(i))>> \o Tail(LineOf(i)) = LineOf(i)
      BY <1>2, <1>5, HeadAndTail
    <3>2. <<>> \o LineOf(i) = LineOf(i)
      BY <1>2, ConcatEmptySeq
    <3> QED
      BY <1>5, <2>1, <2>2, <3>1, <3>2 DEF Held
  <2>4. BookedIsHeld' /\ HandsAreQueued'
    BY <1>5, <2>1, <2>2, <2>3, HandShuffles
  <2>5. Len(batch'[i]) = 1
    BY <2>2
  <2>6. BatchAt'
    BY <2>1, <2>2, <2>5, OneBatch DEF Control
  <2> QED
    BY <2>4, <2>6
<1>7. CASE Gather(i)
  <2>1. /\ batch' = [batch EXCEPT ![i] = Append(batch[i], Head(LineOf(i)))]
        /\ pc' = [pc EXCEPT ![i] = "gather"]
        /\ UNCHANGED <<booked, fate>>
    BY <1>3, <1>7 DEF Gather
  <2>2. /\ batch'[i] = Append(batch[i], Head(LineOf(i)))
        /\ \A j \in Actor \ {i} : batch'[j] = batch[j]
    BY <1>3, <2>1
  <2>3. Held(i)' = Held(i)
    BY <1>2, <1>5, <2>2, SetAside DEF Held
  <2>4. BookedIsHeld' /\ HandsAreQueued'
    BY <1>5, <2>1, <2>2, <2>3, HandShuffles
  <2>5. BatchAt'
    BY <2>1, <2>2, OneBatch DEF Control
  <2> QED
    BY <2>4, <2>5
<1>8. CASE TakeIn(i)
  <2> DEFINE E == {Head(LineOf(i))}
  <2>1. /\ UNCHANGED <<batch, pc>> /\ booked' = booked \ E /\ Fated(E, "read")
    BY <1>8 DEF TakeIn, Release
  <2>2. Held(i)' = batch[i] \o Tail(LineOf(i))
    BY <1>5, <2>1 DEF Held
  <2>3. IsInjective(Held(i)') /\ ToSet(Held(i)') = ToSet(Held(i)) \ E
    BY <1>1, <1>2, <1>5, <2>2, OneLeaves DEF Held
  <2>4. InHand(i)' = ToSet(Held(i)')
    BY HandIsHeldNext DEF LineInv, HandsAsHeld
  <2>5. E \subseteq InHand(i)
    BY <1>2, <1>5, HeadIsThere
  <2>6. \A e \in Envelope : fate'[e] = fate[e] \/ (e \in E /\ fate'[e] \notin {"posted", "lost"})
    BY <1>3, <2>1 DEF Fated
  <2>7. InHand(i)' = InHand(i) \ E
    BY <1>2, <2>3, <2>4
  <2>8. booked' = booked \ E /\ \A j \in Actor \ {i} : batch'[j] = batch[j]
    BY <2>1
  <2>9. BatchAt'
    BY <2>1 DEF HeldInv, BatchAt
  <2> HIDE DEF E
  <2>10. BookedIsHeld' /\ HandsAreQueued'
    BY <1>5, <2>3, <2>5, <2>6, <2>7, <2>8, HandLetsGo
  <2> QED
    BY <2>9, <2>10
<1> QED
  BY <1>6, <1>7, <1>8 DEF Takes

LEMMA PutsBackKeepsHands ==
    ASSUME HeldInv, LineInv', NEW i \in Actor, Gathered(i) \/ TakeInEnds(i)
    PROVE  BookedIsHeld' /\ HandsAreQueued' /\ BatchAt'
<1>1. /\ UNCHANGED <<booked, fate, batch>> /\ pc[i] \in {"gather", "working"}
      /\ \E l \in {"turn", "working"} : pc' = [pc EXCEPT ![i] = l]
      /\ PutBack(i) \/ UNCHANGED queue
  BY DEF Gathered, TakeInEnds, Goto, HeldInv, LineInv, TypeOK
<1>2. \A j \in Actor : LineOf(j)' = LineOf(j)
  <2>1. CASE PutBack(i)
    BY <1>1, <2>1, PutBackKeeps DEF HeldInv
  <2>2. CASE UNCHANGED queue
    BY <2>2 DEF queue, LineOf
  <2> QED
    BY <1>1, <2>1, <2>2
<1>3. Held(i)' = Held(i)
  BY <1>1, <1>2 DEF Held
<1>4. BookedIsHeld' /\ HandsAreQueued'
  BY <1>1, <1>2, <1>3, HandShuffles
<1>5. BatchAt'
  BY <1>1, OneBatch DEF Control
<1> QED
  BY <1>4, <1>5

LEMMA SweepKeepsHands ==
    ASSUME HeldInv, LineInv', NEW i \in Actor, Sweep(i)
    PROVE  BookedIsHeld' /\ HandsAreQueued' /\ BatchAt'
<1> DEFINE e == Head(rx[i])
<1>1. TypeOK /\ IsInjective(Held(i))
  BY HeldFacts
<1>2. /\ InHand(i) = ToSet(Held(i)) /\ batch[i] \in Seq(Envelope)
      /\ carry[i] \in Seq(Envelope) /\ rx[i] \in Seq(Envelope) /\ rx[i] # <<>>
      /\ rx \in [Actor -> Seq(Envelope)] /\ carry \in [Actor -> Seq(Envelope)]
      /\ fate \in [Envelope -> Fate]
  BY <1>1, HandIsHeld DEF HandsAsHeld, TypeOK, Sweep
<1>3. /\ UNCHANGED <<batch, pc>> /\ rx' = [rx EXCEPT ![i] = Tail(@)]
      /\ rx'[i] = Tail(rx[i]) /\ \A j \in Actor \ {i} : rx'[j] = rx[j]
  BY <1>2 DEF Sweep
<1>4. BatchAt'
  BY <1>3 DEF HeldInv, BatchAt
<1>5. CASE RunOf[e] \in stopped
  <2> DEFINE E == {e}
  <2>1. carry' = carry /\ booked' = booked \ E /\ Fated(E, "ended")
    BY <1>5 DEF Sweep, Release
  <2>2. \A j \in Actor \ {i} : batch'[j] = batch[j] /\ LineOf(j)' = LineOf(j)
    BY <1>3, <2>1 DEF LineOf
  <2>3. batch[i] \o carry[i] \in Seq(Envelope)
    BY <1>2, ConcatProperties
  <2>4. Held(i) = (batch[i] \o carry[i]) \o rx[i]
    <3>1. (batch[i] \o carry[i]) \o rx[i] = batch[i] \o (carry[i] \o rx[i])
      BY <1>2, ConcatThree
    <3> QED
      BY <3>1 DEF Held, LineOf
  <2>5. Held(i)' = (batch[i] \o carry[i]) \o Tail(rx[i])
    <3>1. Tail(rx[i]) \in Seq(Envelope)
      BY <1>2, HeadTailProperties
    <3>2. Held(i)' = batch[i] \o (carry[i] \o Tail(rx[i]))
      BY <1>3, <2>1 DEF Held, LineOf
    <3>3. (batch[i] \o carry[i]) \o Tail(rx[i]) = batch[i] \o (carry[i] \o Tail(rx[i]))
      BY <1>2, <3>1, ConcatThree
    <3> QED
      BY <3>2, <3>3
  <2>6. IsInjective(Held(i)') /\ ToSet(Held(i)') = ToSet(Held(i)) \ E
    <3>1. IsInjective((batch[i] \o carry[i]) \o rx[i])
      BY <1>1, <2>4
    <3>2. /\ IsInjective((batch[i] \o carry[i]) \o Tail(rx[i]))
          /\ ToSet((batch[i] \o carry[i]) \o Tail(rx[i])) =
               ToSet((batch[i] \o carry[i]) \o rx[i]) \ {Head(rx[i])}
      BY <1>2, <2>3, <3>1, OneLeaves
    <3> QED
      BY <2>4, <2>5, <3>2
  <2>7. InHand(i)' = ToSet(Held(i)')
    BY HandIsHeldNext DEF LineInv, HandsAsHeld
  <2>8. E \subseteq InHand(i)
    <3>1. e \in ToSet(rx[i])
      BY <1>2, HeadIsThere
    <3> QED
      BY <3>1 DEF InHand
  <2>9. \A x \in Envelope : fate'[x] = fate[x] \/ (x \in E /\ fate'[x] \notin {"posted", "lost"})
    BY <1>2, <2>1 DEF Fated
  <2>10. InHand(i)' = InHand(i) \ E /\ booked' = booked \ E
    BY <1>2, <2>1, <2>6, <2>7
  <2> HIDE DEF E
  <2>11. BookedIsHeld' /\ HandsAreQueued'
    BY <2>2, <2>6, <2>8, <2>9, <2>10, HandLetsGo
  <2> QED
    BY <1>4, <2>11
<1>6. CASE RunOf[e] \notin stopped
  <2>1. carry' = [carry EXCEPT ![i] = Append(@, e)] /\ UNCHANGED <<booked, fate>>
    BY <1>6 DEF Sweep
  <2>2. carry'[i] = Append(carry[i], e) /\ \A j \in Actor \ {i} : carry'[j] = carry[j]
    BY <1>2, <2>1
  <2>3. LineOf(i)' = LineOf(i) /\ \A j \in Actor \ {i} : LineOf(j)' = LineOf(j)
    <3>1. Append(carry[i], Head(rx[i])) \o Tail(rx[i]) = carry[i] \o rx[i]
      BY <1>2, SetAsideAnywhere
    <3> QED
      BY <1>3, <2>2, <3>1 DEF LineOf
  <2>4. Held(i)' = Held(i)
    BY <1>3, <2>3 DEF Held
  <2>5. BookedIsHeld' /\ HandsAreQueued'
    BY <1>3, <2>1, <2>3, <2>4, HandShuffles
  <2> QED
    BY <1>4, <2>5
<1> QED
  BY <1>5, <1>6

LEMMA EmptiedKeepsHands ==
    ASSUME HeldInv, LineInv', NEW i \in Actor, PutDownQueue(i) \/ Abandon(i)
    PROVE  BookedIsHeld' /\ HandsAreQueued' /\ BatchAt'
<1>1. TypeOK
  BY HeldFacts
<1>2. /\ Emptied(i) /\ booked' = booked \ InHand(i)
      /\ \E l \in {"recv", "exiting"} : pc' = [pc EXCEPT ![i] = l]
  BY DEF PutDownQueue, Abandon, Goto, Release
<1>3. \A e \in Envelope :
         fate'[e] = fate[e] \/ (e \in InHand(i) /\ fate'[e] \notin {"posted", "lost"})
  BY DEF PutDownQueue, Abandon, Fated
<1>4. /\ batch'[i] = <<>> /\ rx'[i] = <<>> /\ carry'[i] = <<>>
      /\ \A j \in Actor \ {i} : batch'[j] = batch[j] /\ rx'[j] = rx[j] /\ carry'[j] = carry[j]
  BY <1>1, <1>2 DEF Emptied, TypeOK
<1>5. Held(i)' = <<>> /\ InHand(i)' = {}
  <2>1. <<>> \o (<<>> \o <<>>) = <<>> /\ ToSet(<<>>) = {}
    BY EmptySeq, ConcatEmptySeq DEF ToSet
  <2> QED
    BY <1>4, <2>1 DEF Held, LineOf, InHand
<1>6. IsInjective(Held(i)')
  BY <1>5 DEF IsInjective
<1>7. \A j \in Actor \ {i} : batch'[j] = batch[j] /\ LineOf(j)' = LineOf(j)
  BY <1>4 DEF LineOf
<1>8. BookedIsHeld' /\ HandsAreQueued'
  <2> DEFINE E == InHand(i)
  <2>1. InHand(i)' = InHand(i) \ E /\ E \subseteq InHand(i) /\ booked' = booked \ E
    BY <1>2, <1>5
  <2>2. \A e \in Envelope : fate'[e] = fate[e] \/ (e \in E /\ fate'[e] \notin {"posted", "lost"})
    BY <1>3
  <2> HIDE DEF E
  <2> QED
    BY <1>6, <1>7, <2>1, <2>2, HandLetsGo
<1>9. BatchAt'
  BY <1>2, <1>4, OneBatch DEF Control
<1> QED
  BY <1>8, <1>9

\* What reached the channel of a deleted agent stays booked, in no hand.
LEMMA ExitKeepsHands ==
    ASSUME HeldInv, LineInv', NEW i \in Actor, Exit(i)
    PROVE  BookedIsHeld' /\ HandsAreQueued' /\ BatchAt'
<1>1. /\ TypeOK
      /\ \A j \in Actor : InHand(j) \subseteq booked /\ IsInjective(Held(j))
      /\ \A j, k \in Actor : j # k => InHand(j) \cap InHand(k) = {}
      /\ \A e \in Envelope : e \in booked <=>
            fate[e] \in {"posted", "lost"} \/ \E j \in Actor : e \in InHand(j)
  BY HeldFacts
<1>2. /\ UNCHANGED <<booked, carry, batch>> /\ pc' = [pc EXCEPT ![i] = "exited"]
      /\ rx' = [rx EXCEPT ![i] = <<>>] /\ Fated(ToSet(rx[i]), "lost") /\ pc[i] = "exiting"
  BY DEF Exit, Goto
<1>3. batch[i] = <<>> /\ carry[i] = <<>>
  BY <1>2 DEF HeldInv, BatchAt, LineInv, Lives
<1>4. rx \in [Actor -> Seq(Envelope)] /\ fate \in [Envelope -> Fate] /\ TypeOK'
  BY <1>1 DEF TypeOK, LineInv
<1>5. rx'[i] = <<>> /\ \A j \in Actor \ {i} : rx'[j] = rx[j]
  BY <1>4, <1>2
<1>6. ToSet(<<>>) = {} /\ <<>> \o (<<>> \o <<>>) = <<>>
  BY EmptySeq, ConcatEmptySeq DEF ToSet
<1>7. InHand(i) = ToSet(rx[i]) /\ InHand(i)' = {} /\ Held(i)' = <<>>
  BY <1>2, <1>3, <1>5, <1>6 DEF InHand, Held, LineOf
<1>8. \A j \in Actor \ {i} : InHand(j)' = InHand(j) /\ Held(j)' = Held(j)
  BY <1>2, <1>5 DEF InHand, Held, LineOf
<1>9. \A e \in Envelope : fate'[e] = IF e \in InHand(i) THEN "lost" ELSE fate[e]
  BY <1>2, <1>4, <1>7 DEF Fated
<1>10. \A e \in Envelope : e \in booked' <=>
            fate'[e] \in {"posted", "lost"} \/ \E j \in Actor : e \in InHand(j)'
  <2> SUFFICES ASSUME NEW e \in Envelope
               PROVE  e \in booked' <=>
                        fate'[e] \in {"posted", "lost"} \/ \E j \in Actor : e \in InHand(j)'
    OBVIOUS
  <2>1. CASE e \in InHand(i)
    BY <1>1, <1>2, <1>9, <2>1
  <2>2. CASE e \notin InHand(i)
    <3>1. \A j \in Actor : e \in InHand(j)' <=> e \in InHand(j)
      BY <1>7, <1>8, <2>2
    <3> QED
      BY <1>1, <1>2, <1>9, <2>2, <3>1
  <2> QED
    BY <2>1, <2>2
<1>11. BookedIsHeld'
  <2>1. \A j \in Actor : IsInjective(Held(j)')
    <3>1. IsInjective(<<>>)
      BY DEF IsInjective
    <3> QED
      BY <1>1, <1>7, <1>8, <3>1
  <2>2. \A j, k \in Actor : j # k => InHand(j)' \cap InHand(k)' = {}
    BY <1>1, <1>7, <1>8
  <2> QED
    BY <1>4, <1>10, <2>1, <2>2, HeldBack
<1>12. HandsAreQueued'
  <2>1. ASSUME NEW j \in Actor, NEW e \in InHand(j)' PROVE fate'[e] = "queued"
    <3>1. j # i /\ e \in InHand(j) /\ e \notin InHand(i)
      BY <1>1, <1>7, <1>8
    <3>2. e \in Envelope
      BY <1>1, <3>1, HandIsHeld DEF HandsAsHeld, ToSet
    <3> QED
      BY <1>9, <3>1, <3>2 DEF HeldInv, HandsAreQueued
  <2> QED
    BY <2>1 DEF HandsAreQueued
<1>13. BatchAt'
  BY <1>2, <1>3, OneBatch DEF Control
<1> QED
  BY <1>11, <1>12, <1>13

LEMMA StepKeepsHands == HeldInv /\ [Next]_vars => HeldInv'
<1> SUFFICES ASSUME HeldInv, [Next]_vars PROVE HeldInv'
  OBVIOUS
<1>1. LineInv /\ LineInv'
  BY StepFollows DEF HeldInv
<1>2. CASE UNCHANGED vars \/ Command
  <2>1. UNCHANGED <<batch, rx, carry, booked, fate, pc>>
    BY <1>2 DEF vars, Command, Pause, Resume, Drain, Discard, StopAgent, StopRun, Notify, card, queue
  <2>2. BatchAt'
    BY <2>1 DEF HeldInv, BatchAt
  <2> QED
    BY <1>1, <2>1, <2>2, HandsStill DEF HeldInv
<1>3. CASE Restore
  <2>1. /\ UNCHANGED <<batch, rx, carry, booked, fate>> /\ pc' = [pc EXCEPT ![born + 1] = "recv"]
        /\ born + 1 \in Actor
    BY <1>1, <1>3, MailboxAssumption DEF Restore, Goto, queue, LineInv, TypeOK, Actor
  <2>2. batch[born + 1] = <<>>
    BY <1>1, <2>1, MailboxAssumption DEF HeldInv, BatchAt, LineInv, Lives, TypeOK, Actor
  <2>3. BatchAt'
    BY <2>1, <2>2, OneBatch DEF Control
  <2> QED
    BY <1>1, <2>1, <2>3, HandsStill DEF HeldInv
<1>4. ASSUME NEW e \in Envelope, Post(e) \/ Queue(e) PROVE HeldInv'
  BY <1>1, <1>4, SendKeepsHands DEF HeldInv
<1>5. ASSUME NEW i \in Actor, Step(i) PROVE HeldInv'
  <2>1. BookedIsHeld' /\ HandsAreQueued' /\ BatchAt'
    BY <1>1, <1>5, QuietKeepsHands, TakesKeepsHands, PutsBackKeepsHands, SweepKeepsHands,
       EmptiedKeepsHands, ExitKeepsHands DEF Step, Quiet, Takes
  <2> QED
    BY <1>1, <2>1 DEF HeldInv
<1> QED
  BY <1>2, <1>3, <1>4, <1>5 DEF Next, Command

LEMMA InitHands == Init => HeldInv
<1> SUFFICES ASSUME Init PROVE HeldInv
  OBVIOUS
<1>1. LineInv
  BY InitFollows
<1>2. ToSet(<<>>) = {} /\ <<>> \o (<<>> \o <<>>) = <<>>
  BY EmptySeq, ConcatEmptySeq DEF ToSet
<1>3. \A i \in Actor : InHand(i) = {} /\ batch[i] \o LineOf(i) = <<>>
  BY <1>2 DEF Init, InHand, LineOf
<1>4. IsInjective(<<>>)
  BY DEF IsInjective
<1>5. BookedIsHeld
  BY <1>3, <1>4 DEF Init, BookedIsHeld
<1>6. HandsAreQueued
  BY <1>3 DEF HandsAreQueued
<1>7. BatchAt
  BY DEF Init, BatchAt
<1> QED
  BY <1>1, <1>5, <1>6, <1>7 DEF HeldInv

(* track_inflight and every path a message takes from deliver to the end of   *)
(* the turn that read it (queue, put_back, sweep, take_in, put_down_queue):   *)
(* what is booked is on its way to the inbox, or in exactly one hand, once, or *)
(* was in the channel of a deleted agent when its receiver was dropped (fate   *)
(* "lost"): that message stays booked and nobody holds it.  Nothing else is    *)
(* booked, however often the agent is paused, stopped, deleted and restored.   *)
THEOREM BookingsAreHeld == Spec => []BookedIsHeld
<1>1. Spec => []HeldInv
  BY InitHands, StepKeepsHands, PTL DEF Spec
<1>2. HeldInv => BookedIsHeld
  BY DEF HeldInv
<1> QED
  BY <1>1, <1>2, PTL

-----------------------------------------------------------------------------
(* What is ended unread.                                                    *)

\* An inbox is missing, or its actor gone or going, only where the agent was
\* deleted; and it was restored since, or it still is.
GoneIsDeleted ==
    /\ born # 0
    /\ inbox = 0 => lifecycle = "terminated"
    /\ inbox # 0 /\ pc[inbox] \in {"abandon", "exiting", "exited"} => lifecycle = "terminated"
    /\ \A i \in Actor : pc[i] = "abandon" => lifecycle = "terminated" \/ born > 1

\* An actor about to call off what it holds has seen a stop or a drain, and the
\* stop is still there: a run is stopped as long as a message of it is booked.
CalledOffIsStopped ==
    \A i \in Actor : pc[i] = "calledoff" => draining \/ RunOfTurn(i) \in stopped

\* A batch is of one conversation.
OneRun == \A i \in Actor : \A e \in ToSet(batch[i]) : RunOf[e] = RunOfTurn(i)

UnreadInv == HeldInv /\ GoneIsDeleted /\ CalledOffIsStopped /\ OneRun

\* A step of an actor moves that actor alone.
LEMMA ActorAlone ==
    ASSUME LineInv, NEW i \in Actor, Step(i)
    PROVE  /\ UNCHANGED <<lifecycle, inbox, born, draining>>
           /\ \A j \in Actor \ {i} : pc'[j] = pc[j] /\ batch'[j] = batch[j]
<1>1. pc \in [Actor -> Control] /\ batch \in [Actor -> Seq(Envelope)]
  BY DEF LineInv, TypeOK
<1>2. CASE Quiet(i)
  <2>1. UNCHANGED <<lifecycle, inbox, born, draining>>
    BY <1>2 DEF Quiet, Close, Gate, Arm, CheckDrain, CheckStop, CheckAny, Swept, Wake, CalledOff,
                StartTurn, EndTurn, card
  <2>2. \E l : pc' = [pc EXCEPT ![i] = l]
    BY <1>2 DEF Quiet, Close, Gate, Arm, CheckDrain, CheckStop, CheckAny, Swept, Wake, CalledOff,
                StartTurn, EndTurn, Goto
  <2>3. batch' = batch \/ batch' = [batch EXCEPT ![i] = <<>>]
    BY <1>2 DEF Quiet, Close, Gate, Arm, CheckDrain, CheckStop, CheckAny, Swept, Wake, CalledOff,
                StartTurn, EndTurn
  <2> QED
    BY <1>1, <2>1, <2>2, <2>3
<1>3. CASE Takes(i) \/ Gathered(i) \/ TakeInEnds(i) \/ Sweep(i)
  <2>1. /\ UNCHANGED <<lifecycle, inbox, born, draining>>
        /\ pc' = pc \/ \E l \in Control : pc' = [pc EXCEPT ![i] = l]
        /\ batch' = batch \/ \E b : batch' = [batch EXCEPT ![i] = b]
    BY <1>1, <1>3 DEF Takes, Take, Gather, TakeIn, Gathered, TakeInEnds, Sweep, card, Goto, Control
  <2> QED
    BY <1>1, <2>1
<1>4. CASE PutDownQueue(i) \/ Abandon(i) \/ Exit(i)
  <2>1. /\ UNCHANGED <<lifecycle, inbox, born, draining>>
        /\ \E l \in Control : pc' = [pc EXCEPT ![i] = l]
        /\ batch' = batch \/ batch' = [batch EXCEPT ![i] = <<>>]
    BY <1>1, <1>4 DEF PutDownQueue, Abandon, Exit, Emptied, card, Goto, Control
  <2> QED
    BY <1>1, <2>1
<1> QED
  BY <1>2, <1>3, <1>4 DEF Step, Quiet, Takes

\* A stop outlives every message of its run that is still booked.
LEMMA StopsStay ==
    ASSUME [Next]_vars, NEW r \in stopped, OfRun(r) \cap booked' # {}
    PROVE  r \in stopped'
<1>1. CASE UNCHANGED stopped
  BY <1>1
<1>2. ASSUME NEW E, Release(E) PROVE r \in stopped'
  BY <1>2 DEF Release
<1>3. ASSUME NEW e \in Envelope, Post(e) \/ Queue(e) PROVE r \in stopped'
  BY <1>1, <1>2, <1>3 DEF Post, Queue
<1>4. CASE UNCHANGED vars \/ Pause \/ Resume \/ Drain \/ Discard \/ StopAgent \/ Restore
  BY <1>1, <1>4 DEF vars, Pause, Resume, Drain, Discard, StopAgent, Restore
<1>5. ASSUME NEW q \in Run, StopRun(q) PROVE r \in stopped'
  BY <1>5 DEF StopRun
<1>6. ASSUME NEW c \in {"all", "resume"}, Notify(c) PROVE r \in stopped'
  BY <1>1, <1>6 DEF Notify
<1>7. ASSUME NEW i \in Actor, Step(i) PROVE r \in stopped'
  <2>1. CASE Quiet(i)
    BY <1>1, <1>2, <2>1 DEF Quiet, Close, Gate, Arm, CheckDrain, CheckStop, CheckAny, Swept, Wake,
                            CalledOff, StartTurn, EndTurn, PutDown
  <2>2. CASE Takes(i) \/ Gathered(i) \/ TakeInEnds(i) \/ Sweep(i) \/ Abandon(i) \/ Exit(i)
    BY <1>1, <1>2, <2>2 DEF Takes, Take, Gather, TakeIn, Gathered, TakeInEnds, Sweep, Abandon, Exit
  <2>3. CASE PutDownQueue(i)
    BY <2>3 DEF PutDownQueue
  <2> QED
    BY <1>7, <2>1, <2>2, <2>3 DEF Step, Quiet, Takes
<1> QED
  BY <1>3, <1>4, <1>5, <1>6, <1>7 DEF Next

\* Only the last look at the stops calls off what is held.
LEMMA CallsOff ==
    ASSUME LineInv, NEW i \in Actor, Step(i), pc'[i] = "calledoff"
    PROVE  CheckStop(i)
<1>1. pc \in [Actor -> Control]
  BY DEF LineInv, TypeOK
<1>2. CASE Quiet(i)
  <2>1. CASE Close(i) \/ Gate(i) \/ Arm(i) \/ CheckDrain(i) \/ CheckAny(i)
    BY <1>1, <2>1 DEF Close, Gate, Arm, CheckDrain, CheckAny, Goto, LineInv, TypeOK
  <2>2. CASE Swept(i) \/ Wake(i) \/ CalledOff(i) \/ StartTurn(i) \/ EndTurn(i)
    <3>1. \E l \in {"park", "gate", "recv", "working"} : pc' = [pc EXCEPT ![i] = l]
      BY <2>2 DEF Swept, Wake, CalledOff, StartTurn, EndTurn, Goto
    <3> QED
      BY <1>1, <3>1
  <2> QED
    BY <1>2, <2>1, <2>2 DEF Quiet
<1>3. CASE Takes(i) \/ Gathered(i) \/ TakeInEnds(i) \/ Sweep(i)
  BY <1>1, <1>3 DEF Takes, Take, Gather, TakeIn, Gathered, TakeInEnds, Sweep, Goto
<1>4. CASE PutDownQueue(i) \/ Abandon(i) \/ Exit(i)
  BY <1>1, <1>4 DEF PutDownQueue, Abandon, Exit, Goto
<1> QED
  BY <1>2, <1>3, <1>4 DEF Step, Quiet, Takes

\* Nor does anybody else give an agent up.
LEMMA GivesUp ==
    ASSUME LineInv, NEW i \in Actor, Step(i), pc'[i] \in {"abandon", "exiting", "exited"}
    PROVE  \/ lifecycle = "terminated"
           \/ pc[i] \in {"abandon", "exiting"} /\ pc'[i] # "abandon"
           \/ inbox # i /\ pc'[i] = "exited"
<1>1. pc \in [Actor -> Control] /\ lifecycle \in {"active", "paused", "terminated"}
  BY DEF LineInv, TypeOK
<1>2. CASE Quiet(i)
  BY <1>1, <1>2 DEF Quiet, Close, Gate, Arm, CheckDrain, CheckStop, CheckAny, Swept, Wake,
                    CalledOff, StartTurn, EndTurn, Goto
<1>3. CASE Takes(i) \/ Gathered(i) \/ TakeInEnds(i) \/ Sweep(i)
  BY <1>1, <1>3 DEF Takes, Take, Gather, TakeIn, Gathered, TakeInEnds, Sweep, Goto
<1>4. CASE PutDownQueue(i) \/ Abandon(i) \/ Exit(i)
  BY <1>1, <1>4 DEF PutDownQueue, Abandon, Exit, Goto
<1> QED
  BY <1>2, <1>3, <1>4 DEF Step, Quiet, Takes

LEMMA BatchesKeepOneRun ==
    ASSUME UnreadInv, NEW i \in Actor, Step(i)
    PROVE  \A e \in ToSet(batch'[i]) : RunOf[e] = RunOf[batch'[i][1]]
<1>1. batch \in [Actor -> Seq(Envelope)] /\ batch[i] \in Seq(Envelope)
      /\ \A e \in ToSet(batch[i]) : RunOf[e] = RunOf[batch[i][1]]
  BY DEF UnreadInv, HeldInv, LineInv, TypeOK, OneRun, RunOfTurn
<1>2. CASE batch'[i] = batch[i]
  BY <1>1, <1>2
<1>3. CASE batch'[i] = <<>>
  BY <1>3 DEF ToSet
<1>4. CASE Take(i)
  <2>1. batch'[i] = <<Head(LineOf(i))>>
    BY <1>1, <1>4 DEF Take
  <2> QED
    BY <2>1 DEF ToSet
<1>5. CASE Gather(i)
  <2> DEFINE h == Head(LineOf(i))
  <2>1. batch'[i] = Append(batch[i], h) /\ RunOf[h] = RunOf[batch[i][1]]
    BY <1>1, <1>5 DEF Gather, Joins, RunOfTurn
  <2>2. h \in Envelope
    BY <1>5, PopReads DEF Gather, UnreadInv, HeldInv
  <2> HIDE DEF h
  <2>3. /\ DOMAIN Append(batch[i], h) = 1..(Len(batch[i]) + 1) /\ Len(batch[i]) \in Nat
        /\ DOMAIN batch[i] = 1..Len(batch[i])
        /\ Append(batch[i], h)[Len(batch[i]) + 1] = h
        /\ \A k \in 1..Len(batch[i]) : Append(batch[i], h)[k] = batch[i][k]
    BY <1>1, <2>2
  <2>4. CASE Len(batch[i]) = 0
    BY <2>1, <2>3, <2>4 DEF ToSet
  <2>5. CASE Len(batch[i]) # 0
    <3>1. 1 \in 1..Len(batch[i]) /\ Append(batch[i], h)[1] = batch[i][1]
      BY <2>3, <2>5
    <3>2. ASSUME NEW k \in 1..(Len(batch[i]) + 1)
          PROVE  RunOf[Append(batch[i], h)[k]] = RunOf[batch[i][1]]
      <4>1. CASE k = Len(batch[i]) + 1
        BY <2>1, <2>3, <4>1
      <4>2. CASE k # Len(batch[i]) + 1
        <5>1. k \in 1..Len(batch[i])
          BY <2>3, <4>2
        <5> QED
          BY <1>1, <2>3, <5>1 DEF ToSet
      <4> QED
        BY <4>1, <4>2
    <3> QED
      BY <2>1, <2>3, <3>1, <3>2 DEF ToSet
  <2> QED
    BY <2>3, <2>4, <2>5
<1>6. CASE Quiet(i)
  <2>1. batch' = batch \/ batch' = [batch EXCEPT ![i] = <<>>]
    BY <1>6 DEF Quiet, Close, Gate, Arm, CheckDrain, CheckStop, CheckAny, Swept, Wake, CalledOff,
                StartTurn, EndTurn
  <2> QED
    BY <1>1, <1>2, <1>3, <2>1
<1>7. CASE TakeIn(i) \/ Gathered(i) \/ TakeInEnds(i) \/ Sweep(i) \/ Exit(i)
  BY <1>2, <1>7 DEF TakeIn, Gathered, TakeInEnds, Sweep, Exit
<1>8. CASE PutDownQueue(i) \/ Abandon(i)
  BY <1>1, <1>3, <1>8 DEF PutDownQueue, Abandon, Emptied
<1> QED
  BY <1>4, <1>5, <1>6, <1>7, <1>8 DEF Step, Quiet

LEMMA StepKeepsUnread == UnreadInv /\ [Next]_vars => UnreadInv'
<1> SUFFICES ASSUME UnreadInv, [Next]_vars PROVE UnreadInv'
  OBVIOUS
<1>1. HeldInv /\ HeldInv' /\ LineInv /\ TypeOK
  BY StepKeepsHands DEF UnreadInv, HeldInv, LineInv
<1>2. pc \in [Actor -> Control] /\ inbox \in {0} \cup Actor /\ born \in 0..MaxActors /\ born # 0
      /\ MaxActors \in Nat
  BY <1>1, MailboxAssumption DEF TypeOK, UnreadInv, GoneIsDeleted
<1>3. ASSUME NEW j \in Actor, pc[j] = "calledoff", pc'[j] = "calledoff", batch'[j] = batch[j],
             draining => draining'
      PROVE  draining' \/ RunOfTurn(j)' \in stopped'
  <2>1. CASE draining
    BY <1>3, <2>1
  <2>2. CASE ~draining
    <3>1. RunOfTurn(j) \in stopped
      BY <1>3, <2>2 DEF UnreadInv, CalledOffIsStopped
    <3>2. batch'[j] \in Seq(Envelope) /\ Len(batch'[j]) = 1
      BY <1>1, <1>3 DEF HeldInv, BatchAt, LineInv, TypeOK
    <3>3. 1 \in DOMAIN batch'[j] /\ batch'[j][1] \in Envelope
      BY <3>2
    <3>4. batch'[j][1] \in ToSet(batch'[j])
      BY <3>3 DEF ToSet
    <3>5. batch'[j][1] \in booked'
      BY <1>1, <3>4 DEF HeldInv, BookedIsHeld, InHand
    <3>6. OfRun(RunOfTurn(j)) \cap booked' # {}
      BY <1>3, <3>3, <3>5 DEF OfRun, RunOfTurn
    <3>7. RunOfTurn(j) \in stopped'
      BY <3>1, <3>6, StopsStay
    <3> QED
      BY <1>3, <3>7 DEF RunOfTurn
  <2> QED
    BY <2>1, <2>2
<1>4. CASE UNCHANGED vars \/ Command \/ \E e \in Envelope : Post(e) \/ Queue(e)
  <2>1. UNCHANGED <<pc, batch, born>> /\ (draining => draining')
    <3>1. CASE UNCHANGED vars
      BY <3>1 DEF vars, card
    <3>2. CASE Command
      BY <3>2 DEF Command, Pause, Resume, Drain, Discard, StopAgent, StopRun, Notify, card
    <3>3. ASSUME NEW e \in Envelope, Post(e)
          PROVE  UNCHANGED <<pc, batch, born>> /\ (draining => draining')
      BY <3>3 DEF Post, card
    <3>4. ASSUME NEW e \in Envelope, Queue(e)
          PROVE  UNCHANGED <<pc, batch, born>> /\ (draining => draining')
      BY <3>4 DEF Queue, card
    <3> QED
      BY <1>4, <3>1, <3>2, <3>3, <3>4
  <2>2. /\ lifecycle = "terminated" => lifecycle' = "terminated"
        /\ inbox' = inbox \/ (inbox' = 0 /\ lifecycle' = "terminated")
    BY <1>4 DEF vars, Command, Pause, Resume, Drain, Discard, StopAgent, StopRun, Notify, Post, Queue,
                card
  <2>3. GoneIsDeleted'
    BY <2>1, <2>2 DEF UnreadInv, GoneIsDeleted
  <2>4. CalledOffIsStopped'
    BY <1>3, <2>1 DEF CalledOffIsStopped
  <2>5. OneRun'
    BY <2>1 DEF UnreadInv, OneRun, RunOfTurn
  <2> QED
    BY <1>1, <2>3, <2>4, <2>5 DEF UnreadInv
<1>5. CASE Restore
  <2>1. /\ UNCHANGED <<batch, draining>> /\ born' = born + 1 /\ inbox' = born + 1
        /\ born + 1 \in Actor /\ pc' = [pc EXCEPT ![born + 1] = "recv"]
    BY <1>2, <1>5 DEF Restore, Goto, Actor
  <2>2. GoneIsDeleted'
    BY <1>2, <2>1 DEF GoneIsDeleted, Actor
  <2>3. CalledOffIsStopped'
    BY <1>2, <1>3, <2>1 DEF CalledOffIsStopped
  <2>4. OneRun'
    BY <2>1 DEF UnreadInv, OneRun, RunOfTurn
  <2> QED
    BY <1>1, <2>2, <2>3, <2>4 DEF UnreadInv
<1>6. ASSUME NEW i \in Actor, Step(i)
      PROVE  UnreadInv'
  <2>1. /\ UNCHANGED <<lifecycle, inbox, born, draining>>
        /\ \A j \in Actor \ {i} : pc'[j] = pc[j] /\ batch'[j] = batch[j]
    BY <1>1, <1>6, ActorAlone
  <2>2. GoneIsDeleted'
    <3>1. inbox # 0 /\ pc'[inbox] \in {"abandon", "exiting", "exited"} => lifecycle = "terminated"
      BY <1>1, <1>2, <1>6, <2>1, GivesUp DEF UnreadInv, GoneIsDeleted
    <3>2. \A j \in Actor : pc'[j] = "abandon" => lifecycle = "terminated" \/ born > 1
      BY <1>1, <1>6, <2>1, GivesUp DEF UnreadInv, GoneIsDeleted
    <3> QED
      BY <2>1, <3>1, <3>2 DEF UnreadInv, GoneIsDeleted
  <2>3. CalledOffIsStopped'
    <3>1. ASSUME pc'[i] = "calledoff" PROVE draining' \/ RunOfTurn(i)' \in stopped'
      <4>1. CheckStop(i)
        BY <1>1, <1>6, <3>1, CallsOff
      <4> QED
        BY <1>2, <3>1, <4>1 DEF CheckStop, Goto, RunOfTurn
    <3>2. ASSUME NEW j \in Actor \ {i}, pc'[j] = "calledoff"
          PROVE  draining' \/ RunOfTurn(j)' \in stopped'
      BY <1>3, <2>1, <3>2
    <3> QED
      BY <3>1, <3>2 DEF CalledOffIsStopped
  <2>4. OneRun'
    <3>1. ASSUME NEW j \in Actor \ {i}, NEW e \in ToSet(batch'[j])
          PROVE  RunOf[e] = RunOf[batch'[j][1]]
      BY <2>1, <3>1 DEF UnreadInv, OneRun, RunOfTurn
    <3>2. \A e \in ToSet(batch'[i]) : RunOf[e] = RunOf[batch'[i][1]]
      BY <1>6, BatchesKeepOneRun
    <3> QED
      BY <3>1, <3>2 DEF OneRun, RunOfTurn
  <2> QED
    BY <1>1, <2>2, <2>3, <2>4 DEF UnreadInv
<1> QED
  BY <1>4, <1>5, <1>6 DEF Next, Command

LEMMA InitUnread == Init => UnreadInv
<1> SUFFICES ASSUME Init PROVE UnreadInv
  OBVIOUS
<1>1. HeldInv
  BY InitHands
<1>2. 1 \in Actor
  BY MailboxAssumption DEF Actor
<1>3. GoneIsDeleted
  BY <1>2 DEF Init, GoneIsDeleted
<1>4. CalledOffIsStopped
  BY DEF Init, CalledOffIsStopped
<1>5. OneRun
  <2>1. ToSet(<<>>) = {}
    BY EmptySeq DEF ToSet
  <2> QED
    BY <2>1 DEF Init, OneRun
<1> QED
  BY <1>1, <1>3, <1>4, <1>5 DEF UnreadInv

\* What ends, and why it may.
LEMMA EndsForCause ==
    ASSUME UnreadInv, [Next]_vars, NEW e \in Envelope,
           fate[e] \in {"posted", "queued"}, fate'[e] = "ended",
           ~\E i \in Actor : pc[i] = "working" /\ e \in ToSet(batch[i])
    PROVE  RunOf[e] \in stopped \/ draining \/ lifecycle = "terminated" \/ born > 1
<1>1. fate \in [Envelope -> Fate] /\ HeldInv /\ TypeOK
  BY DEF UnreadInv, HeldInv, LineInv, TypeOK
<1>2. CASE UNCHANGED vars \/ Command \/ Restore \/ \E x \in Envelope : Post(x)
  BY <1>1, <1>2 DEF vars, Command, Pause, Resume, Drain, Discard, StopAgent, StopRun, Notify,
                    Restore, Post, Fated
<1>3. ASSUME NEW x \in Envelope, Queue(x)
      PROVE  lifecycle = "terminated"
  <2>1. ~(inbox # 0 /\ pc[inbox] # "exited")
    BY <1>1, <1>3 DEF Queue, Fated
  <2> QED
    BY <2>1 DEF UnreadInv, GoneIsDeleted
<1>4. ASSUME NEW i \in Actor, Step(i)
      PROVE  RunOf[e] \in stopped \/ draining \/ lifecycle = "terminated" \/ born > 1
  <2>1. \A x \in ToSet(batch[i]) : RunOf[x] = RunOfTurn(i)
    BY DEF UnreadInv, OneRun
  <2>2. CASE Close(i) \/ Gate(i) \/ Arm(i) \/ CheckDrain(i) \/ CheckStop(i) \/ CheckAny(i)
             \/ Swept(i) \/ Wake(i) \/ Take(i) \/ Gather(i) \/ Gathered(i) \/ TakeInEnds(i)
    BY <1>1, <2>2 DEF Close, Gate, Arm, CheckDrain, CheckStop, CheckAny, Swept, Wake, Take, Gather,
                      Gathered, TakeInEnds
  <2>3. CASE TakeIn(i) \/ Exit(i)
    BY <1>1, <2>3 DEF TakeIn, Exit, Fated
  <2>4. CASE Sweep(i)
    <3>1. fate' = fate \/ (RunOf[Head(rx[i])] \in stopped /\ Fated({Head(rx[i])}, "ended"))
      BY <2>4 DEF Sweep
    <3> QED
      BY <1>1, <3>1 DEF Fated
  <2>5. CASE CalledOff(i)
    <3>1. e = batch[i][1] /\ pc[i] = "calledoff"
      BY <1>1, <2>5 DEF CalledOff, Fated
    <3> QED
      BY <3>1 DEF UnreadInv, CalledOffIsStopped, RunOfTurn
  <2>6. CASE PutDownQueue(i)
    BY <1>1, <2>6 DEF PutDownQueue
  <2>7. CASE Abandon(i)
    BY <2>7 DEF Abandon, UnreadInv, GoneIsDeleted
  <2>8. CASE StartTurn(i)
    <3>1. \/ lifecycle = "terminated" \/ RunOfTurn(i) \in stopped
          \/ fate' = fate \/ Fated(ToSet(batch[i]), "putdown")
      BY <2>8 DEF StartTurn
    <3>2. e \in ToSet(batch[i])
      BY <1>1, <2>8 DEF StartTurn, Fated
    <3> QED
      BY <1>1, <2>1, <3>1, <3>2 DEF Fated
  <2>9. CASE EndTurn(i)
    BY <1>1, <2>9 DEF EndTurn, Fated
  <2> QED
    BY <1>4, <2>2, <2>3, <2>4, <2>5, <2>6, <2>7, <2>8, <2>9 DEF Step
<1> QED
  BY <1>2, <1>3, <1>4 DEF Next, Command

(* actor_loop, track_inflight, run_turn: a message nobody called off is       *)
(* ended by the turn that read it, never on the way there, while the agent    *)
(* was not deleted and the host is not stopping.                              *)
THEOREM UnreadIsNotEnded == Spec => NeverEndedUnread
<1>1. Spec => []UnreadInv
  BY InitUnread, StepKeepsUnread, PTL DEF Spec
<1>2. UnreadInv /\ [Next]_vars =>
        [\A e \in Envelope :
            /\ fate[e] \in {"posted", "queued"} /\ fate'[e] = "ended"
            /\ ~\E i \in Actor : pc[i] = "working" /\ e \in ToSet(batch[i])
            => RunOf[e] \in stopped \/ draining \/ lifecycle = "terminated" \/ born > 1]_vars
  BY EndsForCause
<1> QED
  BY <1>1, <1>2, PTL DEF Spec, NeverEndedUnread

-----------------------------------------------------------------------------
(* A wake-up that must be heard.                                            *)

\* Registered first, and only then are the books looked at.
Registered ==
    \A i \in Actor : pc[i] \in {"draining?", "stopped?", "any?", "sweep", "park"} => armed[i]

\* Past that look, a drain, or a stop of what it holds, has woken the actor whose
\* inbox the agent has, or the call that made it is about to.
NoStopUnheard ==
    \A i \in Actor :
        /\ pc[i] \in {"any?", "sweep", "park"} /\ inbox = i
        /\ draining \/ RunOfTurn(i) \in stopped
        => woken[i] \/ "all" \in calls

HeardInv == LineInv /\ Registered /\ NoStopUnheard

\* What an actor's step leaves alone of the wake-ups, and how it comes to park.
LEMMA ActorHears ==
    ASSUME HeardInv, NEW i \in Actor, Step(i)
    PROVE  /\ calls' = calls /\ stopped' \subseteq stopped
           /\ \A j \in Actor \ {i} : armed'[j] = armed[j] /\ woken'[j] = woken[j]
           /\ \/ pc'[i] \notin {"draining?", "stopped?", "any?", "sweep", "park"}
              \/ pc'[i] = "draining?" /\ armed'[i]
              \/ /\ armed'[i] /\ UNCHANGED <<woken, batch, stopped>>
                 /\ \/ pc'[i] = "stopped?"
                    \/ pc'[i] = "any?" /\ ~draining /\ RunOfTurn(i) \notin stopped
                    \/ pc'[i] \in {"sweep", "park"} /\ pc[i] \in {"any?", "sweep"}
              \/ /\ pc[i] = "sweep" /\ pc'[i] = "sweep" /\ UNCHANGED <<armed, woken, batch>>
<1>1. /\ pc \in [Actor -> Control] /\ armed \in [Actor -> BOOLEAN] /\ woken \in [Actor -> BOOLEAN]
      /\ lifecycle \in {"active", "paused", "terminated"}
  BY DEF HeardInv, LineInv, TypeOK
<1>2. \A E : Release(E) => stopped' \subseteq stopped
  BY DEF Release
<1>3. CASE Close(i) \/ Gate(i)
  <2>1. UNCHANGED <<stopped, armed, woken, calls>>
    BY <1>3 DEF Close, Gate, wakes
  <2>2. pc'[i] \in {"exited", "abandon", "gather", "arm"}
    BY <1>1, <1>3 DEF Close, Gate, Goto
  <2> QED
    BY <2>1, <2>2
<1>4. CASE Arm(i)
  BY <1>1, <1>4 DEF Arm, Goto
<1>5. CASE CheckDrain(i) \/ CheckStop(i) \/ CheckAny(i) \/ Swept(i)
  <2>1. UNCHANGED <<stopped, armed, woken, calls, batch>>
    BY <1>5 DEF CheckDrain, CheckStop, CheckAny, Swept, wakes
  <2>2. pc[i] \in {"draining?", "stopped?", "any?", "sweep"} /\ armed[i]
    BY <1>5 DEF CheckDrain, CheckStop, CheckAny, Swept, HeardInv, Registered
  <2>3. \/ pc'[i] \in {"putdown", "calledoff", "stopped?"}
        \/ pc'[i] = "any?" /\ ~draining /\ RunOfTurn(i) \notin stopped
        \/ pc'[i] \in {"sweep", "park"} /\ pc[i] \in {"any?", "sweep"}
    BY <1>1, <1>5 DEF CheckDrain, CheckStop, CheckAny, Swept, Goto
  <2> QED
    BY <2>1, <2>2, <2>3
<1>6. CASE Sweep(i)
  <2>1. /\ UNCHANGED <<armed, woken, calls, batch, pc>> /\ pc[i] = "sweep"
        /\ stopped' = stopped \/ \E E : Release(E)
    BY <1>6 DEF Sweep, wakes
  <2> QED
    BY <1>2, <2>1
<1>7. CASE Wake(i) \/ CalledOff(i)
  <2>1. /\ calls' = calls /\ (stopped' = stopped \/ \E E : Release(E))
        /\ armed' = [armed EXCEPT ![i] = FALSE] /\ woken' = [woken EXCEPT ![i] = FALSE]
    BY <1>7 DEF Wake, CalledOff, Disarmed
  <2>2. pc'[i] \in {"gate", "recv"}
    BY <1>1, <1>7 DEF Wake, CalledOff, Goto
  <2> QED
    BY <1>1, <1>2, <2>1, <2>2
<1>8. CASE PutDownQueue(i) \/ Abandon(i)
  <2>1. /\ calls' = calls /\ stopped' \subseteq stopped
        /\ armed' = [armed EXCEPT ![i] = FALSE] /\ woken' = [woken EXCEPT ![i] = FALSE]
    BY <1>2, <1>8 DEF PutDownQueue, Abandon, Disarmed
  <2>2. pc'[i] \in {"recv", "exiting"}
    BY <1>1, <1>8 DEF PutDownQueue, Abandon, Goto
  <2> QED
    BY <1>1, <2>1, <2>2
<1>9. CASE Exit(i) \/ Takes(i) \/ Gathered(i) \/ TakeInEnds(i)
  <2>1. UNCHANGED <<armed, woken, calls>> /\ stopped' \subseteq stopped
    BY <1>2, <1>9 DEF Exit, Takes, Take, Gather, TakeIn, Gathered, TakeInEnds, wakes
  <2>2. pc'[i] \in {"exited", "putdown", "gate", "gather", "turn", "working"}
    BY <1>1, <1>9 DEF Exit, Takes, Take, Gather, TakeIn, Gathered, TakeInEnds, Goto
  <2> QED
    BY <2>1, <2>2
<1>10. CASE StartTurn(i) \/ EndTurn(i)
  <2>1. UNCHANGED <<armed, woken, calls>> /\ stopped' \subseteq stopped
    BY <1>2, <1>10 DEF StartTurn, EndTurn, PutDown, wakes
  <2>2. pc'[i] \in {"recv", "working"}
    BY <1>1, <1>10 DEF StartTurn, EndTurn, Goto
  <2> QED
    BY <2>1, <2>2
<1> QED
  BY <1>3, <1>4, <1>5, <1>6, <1>7, <1>8, <1>9, <1>10 DEF Step, Takes

\* Where nobody moves, nobody is stopped, and nobody is put to sleep again.
LEMMA NothingToHear ==
    ASSUME HeardInv, UNCHANGED <<pc, batch, draining, armed, inbox>>, stopped' \subseteq stopped,
           \A i \in Actor : woken[i] => woken'[i],
           "all" \in calls => "all" \in calls' \/ \A i \in Actor : inbox = i /\ armed[i] => woken'[i]
    PROVE  Registered' /\ NoStopUnheard'
BY DEF HeardInv, Registered, NoStopUnheard, RunOfTurn

LEMMA StepIsHeard == HeardInv /\ [Next]_vars => HeardInv'
<1> SUFFICES ASSUME HeardInv, [Next]_vars PROVE Registered' /\ NoStopUnheard'
  BY StepFollows DEF HeardInv
<1>1. CASE UNCHANGED vars
  BY <1>1, NothingToHear DEF vars
<1>2. ASSUME NEW e \in Envelope, Post(e) PROVE Registered' /\ NoStopUnheard'
  BY <1>2, NothingToHear DEF Post, card, wakes
<1>3. ASSUME NEW e \in Envelope, Queue(e) PROVE Registered' /\ NoStopUnheard'
  BY <1>3, NothingToHear DEF Queue, Release, card, wakes
<1>4. CASE Pause \/ Resume \/ Discard
  BY <1>4, NothingToHear DEF Pause, Resume, Discard, wakes
<1>5. CASE Drain \/ \E r \in Run : StopRun(r)
  <2>1. "all" \in calls' /\ UNCHANGED <<pc, armed>>
    BY <1>5 DEF Drain, StopRun
  <2> QED
    BY <2>1 DEF HeardInv, Registered, NoStopUnheard
<1>6. ASSUME NEW c \in {"all", "resume"}, Notify(c) PROVE Registered' /\ NoStopUnheard'
  <2>1. /\ UNCHANGED <<pc, batch, draining, armed, inbox, stopped>>
        /\ \A i \in Actor : woken'[i] = (woken[i] \/ (i = inbox /\ armed[i]))
        /\ calls' = calls \ {c}
    BY <1>6 DEF Notify, card
  <2>2. \A i \in Actor : (woken[i] => woken'[i]) /\ (inbox = i /\ armed[i] => woken'[i])
    BY <2>1
  <2> QED
    BY <2>1, <2>2, NothingToHear
<1>7. CASE StopAgent
  <2>1. inbox' = 0 /\ 0 \notin Actor /\ UNCHANGED <<pc, armed>>
    BY <1>7 DEF StopAgent, Actor
  <2> QED
    BY <2>1 DEF HeardInv, Registered, NoStopUnheard
<1>8. CASE Restore
  <2>1. /\ inbox' = born + 1 /\ pc' = [pc EXCEPT ![born + 1] = "recv"] /\ armed' = armed
        /\ pc \in [Actor -> Control]
    BY <1>8 DEF Restore, Goto, wakes, HeardInv, LineInv, TypeOK
  <2>2. \A i \in Actor : pc'[i] = "recv" \/ (pc'[i] = pc[i] /\ inbox' # i)
    BY <2>1
  <2> QED
    BY <2>1, <2>2 DEF HeardInv, Registered, NoStopUnheard
<1>9. ASSUME NEW i \in Actor, Step(i) PROVE Registered' /\ NoStopUnheard'
  <2>1. /\ UNCHANGED <<inbox, draining>>
        /\ \A j \in Actor \ {i} : pc'[j] = pc[j] /\ batch'[j] = batch[j]
    BY <1>9, ActorAlone DEF HeardInv
  <2>2. /\ calls' = calls /\ stopped' \subseteq stopped
        /\ \A j \in Actor \ {i} : armed'[j] = armed[j] /\ woken'[j] = woken[j]
    BY <1>9, ActorHears
  <2>3. ASSUME NEW j \in Actor \ {i}
        PROVE  /\ pc'[j] \in {"draining?", "stopped?", "any?", "sweep", "park"} => armed'[j]
               /\ /\ pc'[j] \in {"any?", "sweep", "park"} /\ inbox' = j
                  /\ draining' \/ RunOf[batch'[j][1]] \in stopped'
                  => woken'[j] \/ "all" \in calls'
    BY <2>1, <2>2, <2>3 DEF HeardInv, Registered, NoStopUnheard, RunOfTurn
  <2>4. /\ pc'[i] \in {"draining?", "stopped?", "any?", "sweep", "park"} => armed'[i]
        /\ /\ pc'[i] \in {"any?", "sweep", "park"} /\ inbox' = i
           /\ draining' \/ RunOf[batch'[i][1]] \in stopped'
           => woken'[i] \/ "all" \in calls'
    BY <1>9, <2>1, <2>2, ActorHears DEF HeardInv, Registered, NoStopUnheard, RunOfTurn
  <2> QED
    BY <2>3, <2>4 DEF Registered, NoStopUnheard, RunOfTurn
<1> QED
  BY <1>1, <1>2, <1>3, <1>4, <1>5, <1>6, <1>7, <1>8, <1>9 DEF Next

(* "Registered before the stop is read, and that ordering is the whole of     *)
(* it" (actor_loop).  A stop of what a paused actor holds, or a drain, is not *)
(* slept through: whatever lands between its looks and its sleep, the actor   *)
(* that reads the agent's inbox has been woken, or the call that stopped the  *)
(* run has yet to notify (stop_run).                                          *)
THEOREM StopsAreHeard == Spec => []NoStopUnheard
<1>1. Init => HeardInv
  <2> SUFFICES ASSUME Init PROVE Registered /\ NoStopUnheard
    BY InitFollows DEF HeardInv
  <2>1. \A i \in Actor : pc[i] \in {"recv", "unborn"}
    BY DEF Init
  <2> QED
    BY <2>1 DEF Registered, NoStopUnheard
<1>2. HeardInv => NoStopUnheard
  BY DEF HeardInv
<1> QED
  BY <1>1, <1>2, StepIsHeard, PTL DEF Spec
=============================================================================
