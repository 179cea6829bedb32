------------------------- MODULE SubscriptionProofs -------------------------
(* A crew never spends a refresh token twice of its own accord, and never    *)
(* renews a token nobody turned down, for every number of turns.             *)
EXTENDS Subscription, TLAPS

\* The gate: who is past it holds it.
Holding == {"asking", "refused", "clearing", "storing", "stored", "taking"}
OneAtATime == \A t \in Turn : pc[t] \in Holding => renewing = t

\* A refresh token the service honours, or one that was lost on the way.
Known(r) == r \in good \cup lost

\* What a turn past the gate has in its hands; it came there for a cause.
InHand ==
    \A t \in Turn :
        /\ pc[t] \in Holding \ {"taking"} => offered[t] \in Stored
        /\ pc[t] = "asking" => Known(offered[t].refresh)
        /\ pc[t] \in {"refused", "clearing"} => offered[t].refresh \in lost
        /\ pc[t] \in {"storing", "stored"} => got[t] \in Stored /\ Known(got[t].refresh)
        /\ pc[t] = "gate" => spends[t] \in dead \cup old
        /\ pc[t] = "asking" => offered[t].access \in dead \cup old

\* The copies: only the set that a turn has traded in and not yet replaced may
\* be one the service has retired, and then the file is replaced before the memory.
Copies ==
    /\ tokens # None =>
          Known(tokens.refresh)
          \/ \E t \in Turn : pc[t] \in {"storing", "stored"} /\ tokens.refresh = offered[t].refresh
    /\ file # None =>
          Known(file.refresh)
          \/ \E t \in Turn : pc[t] = "storing" /\ file.refresh = offered[t].refresh
    /\ signin # None => Known(signin.refresh)

\* A sign-in that is written and not yet held is nobody else's.
Apart ==
    signin # None =>
        /\ tokens # None => tokens.refresh # signin.refresh
        /\ \A t \in Turn :
              /\ pc[t] \in {"asking", "storing", "stored"} => offered[t].refresh # signin.refresh
              /\ pc[t] \in {"storing", "stored"} => got[t].refresh # signin.refresh

\* Nothing is older than what the service issues next.
Numbered ==
    /\ good \subseteq 1..issued
    /\ tokens # None => tokens.refresh <= issued
    /\ file # None => file.refresh <= issued
    /\ signin # None => signin.refresh <= issued
    /\ \A t \in Turn :
          /\ pc[t] \in {"asking", "storing", "stored"} => offered[t].refresh <= issued
          /\ pc[t] \in {"storing", "stored"} => got[t].refresh <= issued

SignInInv == TypeOK /\ OneAtATime /\ InHand /\ Copies /\ Apart /\ Numbered

-----------------------------------------------------------------------------
(* One lemma per step: a conjunct of the invariant at a time.               *)

LEMMA AccessKeeps ==
    ASSUME SignInInv, NEW t \in Turn, Access(t)
    PROVE  SignInInv'
<1>1. TypeOK'
  BY DEF SignInInv, TypeOK, Stored, Access, Goto, Spend, operator, service
<1>2. OneAtATime'
  BY DEF SignInInv, TypeOK, OneAtATime, Holding, Access, Goto, Spend
<1>3. InHand'
  BY DEF SignInInv, TypeOK, InHand, Known, Holding, Access, Goto, Spend, service
<1>4. Copies'
  BY DEF SignInInv, TypeOK, Copies, Known, Access, Goto, Spend, operator, service
<1>5. Apart'
  BY DEF SignInInv, TypeOK, Apart, Access, Goto, Spend, operator
<1>6. Numbered'
  BY DEF SignInInv, TypeOK, Numbered, Access, Goto, Spend, operator, service
<1> QED
  BY <1>1, <1>2, <1>3, <1>4, <1>5, <1>6 DEF SignInInv

LEMMA CallKeeps ==
    ASSUME SignInInv, NEW t \in Turn, Call(t)
    PROVE  SignInInv'
<1>1. TypeOK'
  BY DEF SignInInv, TypeOK, Call, Goto, Ends, operator, service
<1>2. OneAtATime'
  BY DEF SignInInv, TypeOK, OneAtATime, Holding, Call, Goto, Ends
<1>3. InHand'
  BY DEF SignInInv, TypeOK, InHand, Known, Holding, Call, Goto, Ends, service
<1>4. Copies'
  BY DEF SignInInv, TypeOK, Copies, Known, Call, Goto, Ends, operator, service
<1>5. Apart'
  BY DEF SignInInv, TypeOK, Apart, Call, Goto, Ends, operator
<1>6. Numbered'
  BY DEF SignInInv, TypeOK, Numbered, Call, Goto, Ends, operator, service
<1> QED
  BY <1>1, <1>2, <1>3, <1>4, <1>5, <1>6 DEF SignInInv

LEMMA EnterKeeps ==
    ASSUME SignInInv, NEW t \in Turn, Enter(t)
    PROVE  SignInInv'
<1>1. TypeOK'
  BY DEF SignInInv, TypeOK, Stored, Enter, Goto, Ends, Spend, operator, service
<1>2. OneAtATime'
  BY SubscriptionAssumption DEF SignInInv, TypeOK, OneAtATime, Holding, Enter, Goto, Ends, Spend
<1>3. InHand'
  <2>1. CASE pc'[t] # "asking"
    BY <2>1 DEF SignInInv, TypeOK, InHand, Known, Holding, Enter, Goto, Ends, Spend, service
  <2>2. CASE pc'[t] = "asking"
    <3>1. /\ tokens \in Stored /\ offered' = [offered EXCEPT ![t] = tokens]
          /\ tokens.access = spends[t] /\ pc[t] = "gate" /\ pc' = [pc EXCEPT ![t] = "asking"]
      BY <2>2 DEF SignInInv, TypeOK, Enter, Goto, Ends, Spend
    <3>2. Known(tokens.refresh)
      BY <3>1, NoneIsNoSignIn, SubscriptionAssumption
         DEF SignInInv, OneAtATime, Copies, Holding, Enter
    <3>3. spends' = spends /\ got' = got /\ good' = good /\ lost' = lost /\ dead' = dead /\ old' = old
      BY <2>2 DEF SignInInv, TypeOK, Enter, Goto, Ends, Spend, service
    <3>4. \A u \in Turn \ {t} : pc'[u] = pc[u] /\ offered'[u] = offered[u]
      BY <3>1
    <3>5. offered'[t] = tokens /\ tokens.access \in dead \cup old
      BY <3>1 DEF SignInInv, TypeOK, InHand
    <3> QED
      BY <3>1, <3>2, <3>3, <3>5 DEF SignInInv, InHand, Known
  <2> QED
    BY <2>1, <2>2
<1>4. Copies'
  BY SubscriptionAssumption
     DEF SignInInv, OneAtATime, Copies, Known, Holding, Enter, operator, service
<1>5. Apart'
  BY DEF SignInInv, TypeOK, Apart, Enter, Goto, Ends, Spend, operator
<1>6. Numbered'
  BY DEF SignInInv, TypeOK, Numbered, Enter, Goto, Ends, Spend, operator, service
<1> QED
  BY <1>1, <1>2, <1>3, <1>4, <1>5, <1>6 DEF SignInInv

LEMMA AnsweredKeeps ==
    ASSUME SignInInv, NEW t \in Turn, Answered(t)
    PROVE  SignInInv'
<1> PICK set \in Stored : Traded(t, set) /\ got' = [got EXCEPT ![t] = set]
  BY DEF Answered
<1>a. /\ issued' = issued + 1 /\ issued' \in Token /\ offered[t].refresh \in good
      /\ \/ set.refresh = issued' /\ good' = (good \ {offered[t].refresh}) \cup {issued'}
         \/ set.refresh = offered[t].refresh /\ good' = good
  BY SubscriptionAssumption DEF SignInInv, TypeOK, Traded, Token
<1>1. TypeOK'
  <2>1. issued' \in 0..MaxGrants
    BY <1>a DEF Token
  <2>2. good' \subseteq Token
    BY <1>a DEF SignInInv, TypeOK
  <2> QED
    BY <2>1, <2>2 DEF SignInInv, TypeOK, Answered, Traded, Goto, operator
<1>2. OneAtATime'
  BY DEF SignInInv, OneAtATime, Holding, Answered, Goto
<1>3. InHand'
  BY DEF SignInInv, TypeOK, OneAtATime, InHand, Known, Holding, Answered, Goto, Traded
<1>4. Copies'
  <2>1. /\ pc'[t] = "storing" /\ UNCHANGED <<tokens, file, signin, offered, lost>>
        /\ \A r : Known(r) => Known(r)' \/ r = offered[t].refresh
    BY <1>a DEF SignInInv, TypeOK, Known, Answered, Goto, operator
  <2>2. signin # None => Known(signin.refresh)'
    BY <2>1 DEF SignInInv, Copies, Apart, Answered
  <2>3. \A u \in Turn \ {t} : pc[u] \notin {"storing", "stored"}
    BY DEF SignInInv, OneAtATime, Holding, Answered
  <2> QED
    BY <2>1, <2>2, <2>3 DEF SignInInv, Copies
<1>5. Apart'
  BY DEF SignInInv, TypeOK, Apart, Numbered, Answered, Goto, Traded, operator
<1>6. Numbered'
  <2>0. issued \in Nat /\ good \subseteq 1..issued
    BY DEF SignInInv, TypeOK, Numbered
  <2>1. good' \subseteq 1..issued'
    <3>1. issued' = issued + 1 /\ good' \subseteq good \cup {issued'}
      BY <1>a
    <3> QED
      BY <2>0, <3>1
  <2>2. set.refresh <= issued'
    <3>1. set.refresh \in 1..issued'
      BY <1>a, <2>1
    <3>2. issued' \in Nat
      BY <1>a, <2>0
    <3> QED
      BY <3>1, <3>2
  <2> QED
    BY <1>a, <2>1
       DEF SignInInv, TypeOK, Stored, Token, InHand, Holding, Numbered, Answered, Goto, operator
<1> QED
  BY <1>1, <1>2, <1>3, <1>4, <1>5, <1>6 DEF SignInInv

LEMMA AnswerLostKeeps ==
    ASSUME SignInInv, NEW t \in Turn, AnswerLost(t)
    PROVE  SignInInv'
<1> PICK set \in Stored : Traded(t, set) /\ Loses(offered[t], set)
  BY DEF AnswerLost
<1>a. /\ issued' = issued + 1 /\ issued' \in Token /\ offered[t].refresh \in good
      /\ \/ good' = (good \ {offered[t].refresh}) \cup {issued'}
         \/ good' = good
      /\ lost' \in {lost, lost \cup {offered[t].refresh}}
  BY SubscriptionAssumption DEF SignInInv, TypeOK, Traded, Loses, Token
<1>1. TypeOK'
  <2>1. issued' \in 0..MaxGrants
    BY <1>a DEF Token
  <2>2. good' \subseteq Token /\ lost' \subseteq Token
    BY <1>a DEF SignInInv, TypeOK
  <2> QED
    BY <2>1, <2>2
       DEF SignInInv, TypeOK, AnswerLost, Traded, Goto, Ends, Leaves, Unreached, Fails, operator
<1>2. OneAtATime'
  BY DEF SignInInv, TypeOK, OneAtATime, Holding, AnswerLost, Goto, Ends, Unreached, Fails
<1>3. InHand'
  BY DEF SignInInv, TypeOK, InHand, Known, Holding, AnswerLost, Goto, Ends, Leaves, Traded, Loses,
         Unreached, Fails
<1>4. Copies'
  BY DEF SignInInv, OneAtATime, Copies, Known, Holding, AnswerLost, Traded, Loses, operator
<1>5. Apart'
  BY DEF SignInInv, TypeOK, Apart, AnswerLost, Goto, Ends, Leaves, Unreached, Fails, operator
<1>6. Numbered'
  <2>0. issued \in Nat /\ good \subseteq 1..issued
    BY DEF SignInInv, TypeOK, Numbered
  <2>1. good' \subseteq 1..issued'
    <3>1. issued' = issued + 1 /\ good' \subseteq good \cup {issued'}
      BY <1>a
    <3> QED
      BY <2>0, <3>1
  <2> QED
    BY <1>a, <2>1
       DEF SignInInv, TypeOK, Stored, Token, InHand, Holding, Numbered, AnswerLost, Goto, Ends,
           Leaves, Unreached, Fails, operator
<1> QED
  BY <1>1, <1>2, <1>3, <1>4, <1>5, <1>6 DEF SignInInv

LEMMA BadMinuteKeeps ==
    ASSUME SignInInv, NEW t \in Turn, BadMinute(t)
    PROVE  SignInInv'
<1>1. TypeOK'
  BY DEF SignInInv, TypeOK, BadMinute, Goto, Ends, Leaves, Unreached, Fails, operator, service
<1>2. OneAtATime'
  BY DEF SignInInv, TypeOK, OneAtATime, Holding, BadMinute, Goto, Ends, Unreached, Fails
<1>3. InHand'
  BY DEF SignInInv, TypeOK, InHand, Known, Holding, BadMinute, Goto, Ends, Leaves, Unreached, Fails,
         service
<1>4. Copies'
  BY DEF SignInInv, OneAtATime, Copies, Known, Holding, BadMinute, operator, service
<1>5. Apart'
  BY DEF SignInInv, TypeOK, Apart, BadMinute, Goto, Ends, Leaves, Unreached, Fails, operator
<1>6. Numbered'
  BY DEF SignInInv, TypeOK, Numbered, BadMinute, Goto, Ends, Leaves, Unreached, Fails, operator,
         service
<1> QED
  BY <1>1, <1>2, <1>3, <1>4, <1>5, <1>6 DEF SignInInv

LEMMA TerminalKeeps ==
    ASSUME SignInInv, NEW t \in Turn, Terminal(t)
    PROVE  SignInInv'
<1>1. TypeOK'
  BY DEF SignInInv, TypeOK, Terminal, Goto, operator, service
<1>2. OneAtATime'
  BY DEF SignInInv, OneAtATime, Holding, Terminal, Goto
<1>3. InHand'
  BY DEF SignInInv, InHand, Known, Holding, Terminal, Goto, service
<1>4. Copies'
  BY DEF SignInInv, Copies, Known, Terminal, Goto, operator, service
<1>5. Apart'
  BY DEF SignInInv, Apart, Terminal, Goto, operator
<1>6. Numbered'
  BY DEF SignInInv, Numbered, Terminal, Goto, operator, service
<1> QED
  BY <1>1, <1>2, <1>3, <1>4, <1>5, <1>6 DEF SignInInv

LEMMA ForgetKeeps ==
    ASSUME SignInInv, NEW t \in Turn, Forget(t)
    PROVE  SignInInv'
<1>1. TypeOK'
  BY DEF SignInInv, TypeOK, Forget, Goto, operator, service
<1>2. OneAtATime'
  BY DEF SignInInv, OneAtATime, Holding, Forget, Goto
<1>3. InHand'
  BY DEF SignInInv, InHand, Known, Holding, Forget, Goto, service
<1>4. Copies'
  BY DEF SignInInv, Copies, Known, Forget, Goto, operator, service
<1>5. Apart'
  BY DEF SignInInv, Apart, Forget, Goto, operator
<1>6. Numbered'
  BY DEF SignInInv, Numbered, Forget, Goto, operator, service
<1> QED
  BY <1>1, <1>2, <1>3, <1>4, <1>5, <1>6 DEF SignInInv

LEMMA ClearKeeps ==
    ASSUME SignInInv, NEW t \in Turn, Clear(t)
    PROVE  SignInInv'
<1>1. TypeOK'
  BY DEF SignInInv, TypeOK, Clear, Goto, Ends, Leaves, operator, service
<1>2. OneAtATime'
  BY DEF SignInInv, TypeOK, OneAtATime, Holding, Clear, Goto, Ends
<1>3. InHand'
  BY DEF SignInInv, TypeOK, InHand, Known, Holding, Clear, Goto, Ends, Leaves, service
<1>4. Copies'
  BY DEF SignInInv, Copies, Known, Clear, Goto, Ends, Leaves, operator, service
<1>5. Apart'
  BY DEF SignInInv, Apart, Clear, Goto, Ends, Leaves, operator
<1>6. Numbered'
  BY DEF SignInInv, Numbered, Clear, Goto, Ends, Leaves, operator, service
<1> QED
  BY <1>1, <1>2, <1>3, <1>4, <1>5, <1>6 DEF SignInInv

LEMMA WriteKeeps ==
    ASSUME SignInInv, NEW t \in Turn, Write(t)
    PROVE  SignInInv'
<1>1. TypeOK'
  <2>1. offered[t] \in Stored
    BY DEF SignInInv, InHand, Holding, Write
  <2>2. lost' \subseteq Token
    BY <2>1 DEF SignInInv, TypeOK, Stored, Write, Loses
  <2> QED
    BY <2>2 DEF SignInInv, TypeOK, Write, Goto, Ends, Leaves, operator, service
<1>2. OneAtATime'
  BY DEF SignInInv, TypeOK, OneAtATime, Holding, Write, Goto, Ends
<1>3. InHand'
  BY DEF SignInInv, TypeOK, InHand, Known, Holding, Write, Goto, Ends, Leaves, Loses, service
<1>4. Copies'
  BY DEF SignInInv, TypeOK, InHand, Copies, Known, Write, Goto, Ends, Leaves, Loses, operator,
         service
<1>5. Apart'
  BY DEF SignInInv, TypeOK, Apart, Write, Goto, Ends, Leaves, operator
<1>6. Numbered'
  BY DEF SignInInv, TypeOK, Numbered, Write, Goto, Ends, Leaves, operator, service
<1> QED
  BY <1>1, <1>2, <1>3, <1>4, <1>5, <1>6 DEF SignInInv

LEMMA HoldKeeps ==
    ASSUME SignInInv, NEW t \in Turn, Hold(t)
    PROVE  SignInInv'
<1>1. TypeOK'
  BY DEF SignInInv, TypeOK, Hold, Goto, operator, service
<1>2. OneAtATime'
  BY DEF SignInInv, OneAtATime, Holding, Hold, Goto
<1>3. InHand'
  BY DEF SignInInv, InHand, Known, Hold, Goto, service
<1>4. Copies'
  BY DEF SignInInv, InHand, Copies, Known, Hold, Goto, operator, service
<1>5. Apart'
  BY DEF SignInInv, Apart, Hold, Goto, operator
<1>6. Numbered'
  BY DEF SignInInv, Numbered, Hold, Goto, operator, service
<1> QED
  BY <1>1, <1>2, <1>3, <1>4, <1>5, <1>6 DEF SignInInv

LEMMA TakeKeeps ==
    ASSUME SignInInv, NEW t \in Turn, Take(t)
    PROVE  SignInInv'
<1>1. TypeOK'
  BY DEF SignInInv, TypeOK, Stored, Token, Take, Goto, Ends, Leaves, Spend, operator, service
<1>2. OneAtATime'
  BY DEF SignInInv, TypeOK, OneAtATime, Holding, Take, Goto, Ends, Spend
<1>3. InHand'
  BY DEF SignInInv, TypeOK, InHand, Known, Holding, Take, Goto, Ends, Leaves, Spend, service
<1>4. Copies'
  BY DEF SignInInv, OneAtATime, Copies, Known, Holding, Take, operator, service
<1>5. Apart'
  BY DEF SignInInv, TypeOK, Apart, Take, Goto, Ends, Leaves, Spend, operator
<1>6. Numbered'
  BY DEF SignInInv, TypeOK, Numbered, Take, Goto, Ends, Leaves, Spend, operator, service
<1> QED
  BY <1>1, <1>2, <1>3, <1>4, <1>5, <1>6 DEF SignInInv

LEMMA SignInKeeps ==
    ASSUME SignInInv, SignIn
    PROVE  SignInInv'
<1>1. TypeOK'
  BY SubscriptionAssumption DEF SignInInv, TypeOK, Stored, Token, SignIn, turns
<1>2. OneAtATime'
  BY DEF SignInInv, OneAtATime, SignIn, turns
<1>3. InHand'
  BY DEF SignInInv, InHand, Known, SignIn, turns
<1>4. Copies'
  BY DEF SignInInv, Copies, Known, SignIn, turns
<1>5. Apart'
  BY DEF SignInInv, TypeOK, Apart, Numbered, SignIn, turns
<1>6. Numbered'
  BY DEF SignInInv, TypeOK, Stored, Token, InHand, Holding, Numbered, SignIn, turns
<1> QED
  BY <1>1, <1>2, <1>3, <1>4, <1>5, <1>6 DEF SignInInv

LEMMA SignedInKeeps ==
    ASSUME SignInInv, SignedIn
    PROVE  SignInInv'
<1>1. TypeOK'
  BY DEF SignInInv, TypeOK, SignedIn, turns, service
<1>2. OneAtATime'
  BY DEF SignInInv, OneAtATime, SignedIn, turns
<1>3. InHand'
  BY DEF SignInInv, InHand, Known, SignedIn, turns, service
<1>4. Copies'
  BY DEF SignInInv, Copies, Known, SignedIn, turns, service
<1>5. Apart'
  BY DEF Apart, SignedIn
<1>6. Numbered'
  BY DEF SignInInv, Numbered, SignedIn, turns, service
<1> QED
  BY <1>1, <1>2, <1>3, <1>4, <1>5, <1>6 DEF SignInInv

LEMMA SignOutKeeps ==
    ASSUME SignInInv, SignOut
    PROVE  SignInInv'
<1>1. TypeOK'
  BY DEF SignInInv, TypeOK, SignOut, turns, service
<1>2. OneAtATime'
  BY DEF SignInInv, OneAtATime, SignOut, turns
<1>3. InHand'
  BY DEF SignInInv, InHand, Known, SignOut, turns, service
<1>4. Copies'
  BY DEF SignInInv, Copies, Known, SignOut, turns, service
<1>5. Apart'
  BY DEF SignInInv, Apart, SignOut, turns
<1>6. Numbered'
  BY DEF SignInInv, Numbered, SignOut, turns, service
<1> QED
  BY <1>1, <1>2, <1>3, <1>4, <1>5, <1>6 DEF SignInInv

LEMMA SignedOutKeeps ==
    ASSUME SignInInv, SignedOut
    PROVE  SignInInv'
<1>1. TypeOK'
  BY DEF SignInInv, TypeOK, SignedOut, turns, service
<1>2. OneAtATime'
  BY DEF SignInInv, OneAtATime, SignedOut, turns
<1>3. InHand'
  BY DEF SignInInv, InHand, Known, SignedOut, turns, service
<1>4. Copies'
  BY DEF SignInInv, Copies, Known, SignedOut, turns, service
<1>5. Apart'
  BY DEF SignInInv, Apart, SignedOut, turns
<1>6. Numbered'
  BY DEF SignInInv, Numbered, SignedOut, turns, service
<1> QED
  BY <1>1, <1>2, <1>3, <1>4, <1>5, <1>6 DEF SignInInv

LEMMA DiesKeeps ==
    ASSUME SignInInv, NEW a \in Token, Dies(a)
    PROVE  SignInInv'
<1>1. TypeOK'
  BY DEF SignInInv, TypeOK, Dies, turns, operator
<1>2. OneAtATime'
  BY DEF SignInInv, OneAtATime, Dies, turns
<1>3. InHand'
  BY DEF SignInInv, InHand, Known, Dies, turns
<1>4. Copies'
  BY DEF SignInInv, Copies, Known, Dies, turns, operator
<1>5. Apart'
  BY DEF SignInInv, Apart, Dies, turns, operator
<1>6. Numbered'
  BY DEF SignInInv, Numbered, Dies, turns, operator
<1> QED
  BY <1>1, <1>2, <1>3, <1>4, <1>5, <1>6 DEF SignInInv

LEMMA AgesKeeps ==
    ASSUME SignInInv, NEW a \in Token, Ages(a)
    PROVE  SignInInv'
<1>1. TypeOK'
  BY DEF SignInInv, TypeOK, Ages, turns, operator
<1>2. OneAtATime'
  BY DEF SignInInv, OneAtATime, Ages, turns
<1>3. InHand'
  BY DEF SignInInv, InHand, Known, Ages, turns
<1>4. Copies'
  BY DEF SignInInv, Copies, Known, Ages, turns, operator
<1>5. Apart'
  BY DEF SignInInv, Apart, Ages, turns, operator
<1>6. Numbered'
  BY DEF SignInInv, Numbered, Ages, turns, operator
<1> QED
  BY <1>1, <1>2, <1>3, <1>4, <1>5, <1>6 DEF SignInInv

LEMMA RetiresKeeps ==
    ASSUME SignInInv, NEW r \in Token, Retires(r)
    PROVE  SignInInv'
<1>1. TypeOK'
  BY DEF SignInInv, TypeOK, Retires, turns, operator
<1>2. OneAtATime'
  BY DEF SignInInv, OneAtATime, Retires, turns
<1>3. InHand'
  BY DEF SignInInv, InHand, Known, Retires, turns
<1>4. Copies'
  BY DEF SignInInv, Copies, Known, Retires, turns, operator
<1>5. Apart'
  BY DEF SignInInv, Apart, Retires, turns, operator
<1>6. Numbered'
  BY DEF SignInInv, Numbered, Retires, turns, operator
<1> QED
  BY <1>1, <1>2, <1>3, <1>4, <1>5, <1>6 DEF SignInInv

LEMMA RestartKeeps ==
    ASSUME SignInInv, Restart
    PROVE  SignInInv'
<1>1. TypeOK'
  <2>1. \A u \in Turn : pc[u] = "storing" => offered[u].refresh \in Token
    BY DEF SignInInv, InHand, Holding, Stored
  <2> QED
    BY <2>1 DEF SignInInv, TypeOK, Restart, service
<1>2. OneAtATime'
  BY DEF OneAtATime, Holding, Restart
<1>3. InHand'
  BY DEF InHand, Holding, Restart
<1>4. Copies'
  BY DEF SignInInv, InHand, Copies, Known, Restart, service
<1>5. Apart'
  BY DEF Apart, Restart
<1>6. Numbered'
  BY DEF SignInInv, Numbered, Restart, service
<1> QED
  BY <1>1, <1>2, <1>3, <1>4, <1>5, <1>6 DEF SignInInv

-----------------------------------------------------------------------------

LEMMA InitSignIn == Init => SignInInv
<1> SUFFICES ASSUME Init PROVE SignInInv
  OBVIOUS
<1>1. TypeOK
  <2>1. issued \in 0..MaxGrants
    BY SubscriptionAssumption DEF Init
  <2> QED
    BY <2>1 DEF Init, TypeOK
<1>2. OneAtATime /\ InHand
  BY DEF Init, OneAtATime, InHand, Holding
<1>3. Copies /\ Apart /\ Numbered
  BY DEF Init, Copies, Apart, Numbered
<1> QED
  BY <1>1, <1>2, <1>3 DEF SignInInv

LEMMA StepKeeps == SignInInv /\ [Next]_vars => SignInInv'
<1> SUFFICES ASSUME SignInInv, [Next]_vars PROVE SignInInv'
  OBVIOUS
<1>1. CASE UNCHANGED vars
  BY <1>1
     DEF vars, turns, operator, service, SignInInv, TypeOK, OneAtATime, InHand, Known, Copies,
         Apart, Numbered
<1>2. ASSUME NEW t \in Turn, TurnStep(t) PROVE SignInInv'
  BY <1>2, AccessKeeps, CallKeeps, EnterKeeps, AnsweredKeeps, AnswerLostKeeps, BadMinuteKeeps,
     TerminalKeeps, ForgetKeeps, ClearKeeps, WriteKeeps, HoldKeeps, TakeKeeps
     DEF TurnStep
<1>3. CASE Operator
  BY <1>3, SignInKeeps, SignedInKeeps, SignOutKeeps, SignedOutKeeps DEF Operator
<1>4. CASE Service
  BY <1>4, DiesKeeps, AgesKeeps, RetiresKeeps DEF Service
<1>5. CASE Restart
  BY <1>5, RestartKeeps
<1> QED
  BY <1>1, <1>2, <1>3, <1>4, <1>5 DEF Next

(* The invariant the two below are read from: one turn is past the gate, every *)
(* copy of the sign-in but the one it is replacing carries a refresh token     *)
(* that is honoured or was lost, and a sign-in being written is its own.       *)
THEOREM SignInInvariant == Spec => []SignInInv
<1> QED
  BY InitSignIn, StepKeeps, PTL DEF Spec

(* However many turns are refused at once, and whatever the operator, the      *)
(* service and the process do meanwhile, a retired refresh token is offered    *)
(* only where its replacement never arrived (renew, store).                    *)
THEOREM TokensAreSpentOnce == Spec => []SpentOnce
<1>1. SignInInv => SpentOnce
  BY DEF SignInInv, InHand, SpentOnce
<1> QED
  BY <1>1, SignInInvariant, PTL

(* The service is asked only about a set that was turned down or is near its   *)
(* end, by whichever of the crew comes first (renew).                          *)
THEOREM RenewalsHaveACause == Spec => []RefreshedForCause
<1>1. SignInInv => RefreshedForCause
  BY DEF SignInInv, InHand, RefreshedForCause
<1> QED
  BY <1>1, SignInInvariant, PTL
=============================================================================
