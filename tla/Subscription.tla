---------------------------- MODULE Subscription ----------------------------
(***************************************************************************)
(* The ChatGPT sign-in that pays for a crew's turns: access, renew and     *)
(* refresh, store and write, complete and sign_out (subscription.rs), and  *)
(* the one retry a refused model call makes (llm/codex.rs).                *)
(*                                                                         *)
(* A token set is the number of the access token and the number of the     *)
(* refresh token that came with it; the service numbers what it issues.    *)
(* It is held in memory and written to a file, and the two are two steps.  *)
(* A refresh token that is traded in is retired, and one that is offered   *)
(* again ends the sign-in.                                                 *)
(***************************************************************************)
EXTENDS Naturals, FiniteSets

CONSTANTS
    Turn,       \* the turns that spend the sign-in
    None,       \* nobody, and no sign-in
    MaxGrants   \* bound: token sets the service issues

ASSUME SubscriptionAssumption == MaxGrants \in Nat /\ None \notin Turn

Token == 1..MaxGrants
Stored == [access : Token, refresh : Token]
ASSUME NoneIsNoSignIn == None \notin Stored

VARIABLES
    tokens, file,    \* the token set in memory, and the one on disk
    renewing,        \* who holds the refresh gate
    pc,              \* where each turn is
    spends,          \* of a turn: the access token it calls with, or was refused
    early, renewed,  \* turns that renew ahead of expiry; turns that have renewed
    offered, got,    \* of a turn: the set it refreshes, and the service's answer
    signin, signout, \* the operator's two commands, which hold no gate
    issued, good,    \* the service: sets issued, refresh tokens honoured
    dead, old,       \* access tokens refused, and access tokens near expiry
    lost             \* history: refresh tokens retired, or refused unasked, unknown
                     \* to this machine

turns == <<pc, spends, early, renewed, offered, got>>
operator == <<signin, signout>>
service == <<issued, good, dead, old>>
vars == <<tokens, file, renewing, turns, operator, service, lost>>

(* Every variable keeps its type; the gate is held from the question to    *)
(* the token set that came of it.                                          *)
TypeOK ==
    /\ tokens \in Stored \cup {None} /\ file \in Stored \cup {None}
    /\ pc \in [Turn -> {"idle", "call", "gate", "asking", "refused", "clearing",
                        "storing", "stored", "taking"}]
    /\ spends \in [Turn -> Token \cup {None}]
    /\ early \subseteq Turn /\ renewed \subseteq Turn
    /\ offered \in [Turn -> Stored \cup {None}] /\ got \in [Turn -> Stored \cup {None}]
    /\ signin \in Stored \cup {None} /\ signout \in BOOLEAN
    /\ issued \in 0..MaxGrants /\ good \subseteq Token
    /\ dead \subseteq Token /\ old \subseteq Token /\ lost \subseteq Token
    /\ renewing \in Turn \cup {None}

Init ==
    /\ tokens = None /\ file = None /\ renewing = None
    /\ pc = [t \in Turn |-> "idle"] /\ spends = [t \in Turn |-> None]
    /\ early = {} /\ renewed = {}
    /\ offered = [t \in Turn |-> None] /\ got = [t \in Turn |-> None]
    /\ signin = None /\ signout = FALSE
    /\ issued = 0 /\ good = {} /\ dead = {} /\ old = {} /\ lost = {}

Goto(t, l) == pc' = [pc EXCEPT ![t] = l]
\* The model call under this token.
Spend(t, a) == Goto(t, "call") /\ spends' = [spends EXCEPT ![t] = a]
\* The turn is over with it, answered or refused.
Ends(t) == Goto(t, "idle") /\ spends' = [spends EXCEPT ![t] = None]
\* renew returns, and its locals go with it.
Leaves(t) ==
    /\ renewing' = None
    /\ offered' = [offered EXCEPT ![t] = None] /\ got' = [got EXCEPT ![t] = None]
\* A retired refresh token whose replacement does not get here.
Loses(set, by) == lost' = IF by.refresh # set.refresh THEN lost \cup {set.refresh} ELSE lost

-----------------------------------------------------------------------------
(* A model call (codex::stream).                                           *)

\* access: a token with life in it is handed out, one near its end renewed.
Access(t) ==
    /\ pc[t] = "idle" /\ tokens # None
    /\ renewed' = renewed \ {t}
    /\ IF tokens.access \in old
         THEN /\ Goto(t, "gate") /\ spends' = [spends EXCEPT ![t] = tokens.access]
              /\ early' = early \cup {t}
         ELSE Spend(t, tokens.access) /\ early' = early \ {t}
    /\ UNCHANGED <<tokens, file, renewing, offered, got, operator, service, lost>>

\* The call is answered, or refused: once is renewed, twice ends the turn.
Call(t) ==
    /\ pc[t] = "call"
    /\ IF spends[t] \in dead /\ t \notin renewed
         THEN Goto(t, "gate") /\ renewed' = renewed \cup {t} /\ UNCHANGED spends
         ELSE Ends(t) /\ UNCHANGED renewed
    /\ early' = early \ {t}
    /\ UNCHANGED <<tokens, file, renewing, offered, got, operator, service, lost>>

-----------------------------------------------------------------------------
(* renew: one at a time, and only the token that was turned down.          *)

\* Mutants of Enter: nobody waits at the gate; what is held now is not compared.
EnterTogether(t) ==
    /\ pc[t] = "gate" /\ tokens # None
    /\ IF tokens.access # spends[t]
         THEN Spend(t, tokens.access) /\ UNCHANGED <<renewing, offered>>
         ELSE /\ Goto(t, "asking") /\ renewing' = t
              /\ offered' = [offered EXCEPT ![t] = tokens] /\ UNCHANGED spends
    /\ UNCHANGED <<tokens, file, early, renewed, got, operator, service, lost>>
EnterAnyway(t) ==
    /\ pc[t] = "gate" /\ renewing = None /\ tokens # None
    /\ Goto(t, "asking") /\ renewing' = t
    /\ offered' = [offered EXCEPT ![t] = tokens]
    /\ UNCHANGED <<tokens, file, spends, early, renewed, got, operator, service, lost>>

Enter(t) ==
    /\ pc[t] = "gate" /\ renewing = None
    /\ IF tokens = None
         THEN Ends(t) /\ UNCHANGED <<renewing, offered>>
         ELSE IF tokens.access # spends[t]
           THEN Spend(t, tokens.access) /\ UNCHANGED <<renewing, offered>>
           ELSE /\ Goto(t, "asking") /\ renewing' = t
                /\ offered' = [offered EXCEPT ![t] = tokens] /\ UNCHANGED spends
    /\ UNCHANGED <<tokens, file, early, renewed, got, operator, service, lost>>

\* The service trades the token in, and rotates it or lets it stand ...
Traded(t, set) ==
    /\ issued < MaxGrants /\ offered[t].refresh \in good
    /\ issued' = issued + 1 /\ set.access = issued + 1
    /\ \/ set.refresh = issued + 1
          /\ good' = (good \ {offered[t].refresh}) \cup {issued + 1}
       \/ set.refresh = offered[t].refresh /\ UNCHANGED good
    /\ UNCHANGED <<dead, old>>

\* ... and the answer arrives,
Answered(t) ==
    /\ pc[t] = "asking"
    /\ \E set \in Stored : Traded(t, set) /\ got' = [got EXCEPT ![t] = set]
    /\ Goto(t, "storing")
    /\ UNCHANGED <<tokens, file, renewing, spends, early, renewed, offered, operator, lost>>

\* A turn that only came early goes on with the token it has, where the
\* service could not be reached; any other error ends the turn.
Unreached(t) ==
    /\ IF t \in early THEN Goto(t, "call") /\ UNCHANGED spends ELSE Ends(t)
    /\ Leaves(t)
Fails(t) == Ends(t) /\ Leaves(t)

\* or the answer is lost, or cannot be read,
AnswerLost(t) ==
    /\ pc[t] = "asking"
    /\ \E set \in Stored : Traded(t, set) /\ Loses(offered[t], set)
    /\ Unreached(t) \/ Fails(t)
    /\ UNCHANGED <<tokens, file, early, renewed, operator>>

\* or the service is away, or answers with an error that is not about the sign-in.
BadMinute(t) ==
    /\ pc[t] = "asking" /\ (Unreached(t) \/ Fails(t))
    /\ UNCHANGED <<tokens, file, early, renewed, operator, service, lost>>

\* A refresh token that is refused, with any of 400, 401 and 403, is the end of
\* the sign-in: one that was retired, or that the service turns down unasked.
Terminal(t) ==
    /\ pc[t] = "asking" /\ Goto(t, "refused")
    /\ IF offered[t].refresh \in good THEN lost' = lost \cup {offered[t].refresh}
                                      ELSE UNCHANGED lost
    /\ UNCHANGED <<tokens, file, renewing, spends, early, renewed, offered, got,
                   operator, service>>

\* sign_out, by renew: the memory, then the file, which may not go away: the next
\* host reads it.
Forget(t) ==
    /\ pc[t] = "refused" /\ tokens' = None /\ Goto(t, "clearing")
    /\ UNCHANGED <<file, renewing, spends, early, renewed, offered, got, operator, service, lost>>
Clear(t) ==
    /\ pc[t] = "clearing" /\ file' \in {None, file} /\ Ends(t) /\ Leaves(t)
    /\ UNCHANGED <<tokens, early, renewed, operator, service, lost>>

\* store: the file first; one that cannot be written leaves both as they were.
Write(t) ==
    /\ pc[t] = "storing"
    /\ \/ file' = got[t] /\ Goto(t, "stored")
          /\ UNCHANGED <<spends, renewing, offered, got, lost>>
       \/ Ends(t) /\ Leaves(t) /\ Loses(offered[t], got[t]) /\ UNCHANGED file
    /\ UNCHANGED <<tokens, early, renewed, operator, service>>

Hold(t) ==
    /\ pc[t] = "stored" /\ tokens' = got[t] /\ Goto(t, "taking")
    /\ UNCHANGED <<file, renewing, spends, early, renewed, offered, got, operator, service, lost>>

\* What is held now, which a sign-out may have taken.
Take(t) ==
    /\ pc[t] = "taking" /\ Leaves(t)
    /\ IF tokens = None THEN Ends(t) ELSE Spend(t, tokens.access)
    /\ UNCHANGED <<tokens, file, early, renewed, operator, service, lost>>

-----------------------------------------------------------------------------
(* The operator, who may do either while a refresh is out.                 *)

\* complete: a new sign-in, written and then held.
SignIn ==
    /\ signin = None /\ issued < MaxGrants
    /\ issued' = issued + 1 /\ good' = good \cup {issued + 1}
    /\ signin' = [access |-> issued + 1, refresh |-> issued + 1]
    /\ file' = signin'
    /\ UNCHANGED <<tokens, renewing, turns, signout, dead, old, lost>>
SignedIn ==
    /\ signin # None /\ tokens' = signin /\ signin' = None
    /\ UNCHANGED <<file, renewing, turns, signout, service, lost>>

\* sign_out: the memory, then the file, which may stay.
SignOut ==
    /\ ~signout /\ tokens' = None /\ signout' = TRUE
    /\ UNCHANGED <<file, renewing, turns, signin, service, lost>>
SignedOut ==
    /\ signout /\ file' \in {None, file} /\ signout' = FALSE
    /\ UNCHANGED <<tokens, renewing, turns, signin, service, lost>>

-----------------------------------------------------------------------------
(* The service and the host.                                               *)

\* The backend stops accepting an access token, whatever its exp says ...
Dies(a) ==
    /\ a \in 1..issued \ dead /\ dead' = dead \cup {a}
    /\ UNCHANGED <<tokens, file, renewing, turns, operator, issued, good, old, lost>>
\* ... an access token comes within REFRESH_SKEW of its exp ...
Ages(a) ==
    /\ a \in 1..issued \ old /\ old' = old \cup {a}
    /\ UNCHANGED <<tokens, file, renewing, turns, operator, issued, good, dead, lost>>
\* ... and a refresh token may be retired for the service's own reasons.
Retires(r) ==
    /\ r \in good /\ good' = good \ {r} /\ lost' = lost \cup {r}
    /\ UNCHANGED <<tokens, file, renewing, turns, operator, issued, dead, old>>

\* open_at: what is on disk is the sign-in.
Restart ==
    /\ tokens' = file /\ renewing' = None
    /\ pc' = [t \in Turn |-> "idle"] /\ spends' = [t \in Turn |-> None]
    /\ early' = {} /\ renewed' = {}
    /\ offered' = [t \in Turn |-> None] /\ got' = [t \in Turn |-> None]
    /\ signin' = None /\ signout' = FALSE
    /\ lost' = lost \cup {offered[t].refresh : t \in {u \in Turn :
                 pc[u] = "storing" /\ got[u].refresh # offered[u].refresh}}
    /\ UNCHANGED <<file, service>>

TurnStep(t) ==
    \/ Access(t) \/ Call(t) \/ Enter(t)
    \/ Answered(t) \/ AnswerLost(t) \/ BadMinute(t) \/ Terminal(t)
    \/ Forget(t) \/ Clear(t) \/ Write(t) \/ Hold(t) \/ Take(t)
Operator == SignIn \/ SignedIn \/ SignOut \/ SignedOut
Service == \E n \in Token : Dies(n) \/ Ages(n) \/ Retires(n)

Next == (\E t \in Turn : TurnStep(t)) \/ Operator \/ Service \/ Restart
Spec == Init /\ [][Next]_vars

-----------------------------------------------------------------------------
(* A refresh token is offered after it was retired only where its          *)
(* replacement never got here: the answer was lost, could not be saved or  *)
(* died with the process, or the service retired it, or turned it down,    *)
(* unasked.  A crew that is refused all at once never signs itself out     *)
(* (renew, store).                                                         *)
SpentOnce == \A t \in Turn : pc[t] \in {"refused", "clearing"} => offered[t].refresh \in lost

(* The service is asked only about a set whose access token was refused or *)
(* is near its end: nobody burns the one a colleague has just fetched      *)
(* (renew's comparison with what was turned down).                         *)
RefreshedForCause == \A t \in Turn : pc[t] = "asking" => offered[t].access \in dead \cup old
=============================================================================
