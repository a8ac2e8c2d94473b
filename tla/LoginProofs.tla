----------------------------- MODULE LoginProofs -----------------------------
(* Theorems about the two session services together. *)
EXTENDS Login, AuthenticationSessionProofs

-----------------------------------------------------------------------------
(* The composition keeps the behaviour of its parts *)

LEMMA StepOfPart == [LoginNext]_loginVars => [Next]_vars
<1>1. ASSUME NEW r \in Requests, Serve(r)
      PROVE  [Next]_vars
  BY <1>1 DEF Serve, Next
<1>2. ASSUME NEW r \in Requests, Crash(r)
      PROVE  [Next]_vars
  BY <1>2 DEF Crash
<1>3. ASSUME NEW r \in Requests, NEW s \in IdentitySessions, Issue(r, s)
      PROVE  [Next]_vars
  BY <1>3 DEF Issue
<1>4. ASSUME NEW s \in IdentitySessions, NEW t \in IdentitySessions,
             Refresh(s, t) \/ Revoke(s) \/ Remove(s)
      PROVE  [Next]_vars
  BY <1>4 DEF Refresh, Revoke, Remove
<1>5. CASE Around
  BY <1>5 DEF Around, Next
<1>6. CASE UNCHANGED loginVars
  BY <1>6 DEF loginVars
<1> QED BY <1>1, <1>2, <1>3, <1>4, <1>5, <1>6 DEF LoginNext

(* What is proved of the authentication session service holds in the       *)
(* composition.                                                            *)
THEOREM LoginImplementsService == LoginSpec => Spec
<1>1. LoginInit => Init
  BY DEF LoginInit
<1> QED BY <1>1, StepOfPart, PTL DEF LoginSpec, Spec

-----------------------------------------------------------------------------
(* The inductive invariant *)

LoginShapes ==
  /\ granted \in [Requests -> Grant \cup {None}]
  /\ login \in [IdentitySessions -> Grant \cup {None}]
  /\ Families!PromiseTypeOK

(* The answer to a login that was done, and is over. *)
Earned(grant) ==
  /\ grant \in Grant
  /\ grant.row.identity # None
  /\ Sound(grant.row)
  /\ completions[grant.of] > 0

AllEarned ==
  /\ \A r \in Requests : granted[r] # None => Earned(granted[r])
  /\ \A s \in IdentitySessions : status[s] # "unused" => Earned(login[s])

(* When requests take turns, a login is in one place at most: with a       *)
(* request, or in a usable session.                                        *)
OnePlace ==
  TakeTurns =>
    /\ \A q, r \in Requests :
         granted[q] # None /\ granted[r] # None /\ granted[q].of = granted[r].of => q = r
    /\ \A r \in Requests, s \in IdentitySessions :
         granted[r] # None /\ status[s] = "live" => granted[r].of # login[s].of
    /\ \A s, t \in IdentitySessions :
         status[s] = "live" /\ status[t] = "live" /\ login[s].of = login[t].of => s = t

LInv == LoginShapes /\ AllEarned /\ OnePlace

LEMMA InitLInv == LoginInit => LInv
<1> SUFFICES ASSUME LoginInit PROVE LInv
  OBVIOUS
<1>1. /\ \A r \in Requests : granted[r] = None
      /\ \A s \in IdentitySessions : status[s] = "unused"
      /\ LoginShapes
  BY DEF LoginInit, LoginShapes, Families!PromiseInit, Families!PromiseTypeOK
<1> QED BY <1>1 DEF LInv, AllEarned, OnePlace

-----------------------------------------------------------------------------
(* Steps *)

(* What complete answers is a login that was done, and when requests take  *)
(* turns nobody had that answer before.                                    *)
LEMMA CompletionsOf ==
  ASSUME IInv, [Next]_vars
  PROVE  \/ completions' = completions
         \/ \E r \in Requests :
              /\ holds[r] \in Sessions
              /\ completions' = [completions EXCEPT ![holds[r]] = @ + 1]
<1>1. Effect /\ completions \in [Sessions -> Nat] /\ issued \subseteq Sessions
  BY NextEffect DEF IInv, Shapes, TypeOK
<1> QED BY <1>1 DEF Effect, Still, Started, Inserted, Presented, Read, Left, Moved, Wrote,
                    Deleted, Completed

LEMMA CompletionsGrow ==
  ASSUME IInv, [Next]_vars, NEW s \in Sessions
  PROVE  completions[s] \in Nat /\ completions'[s] \in Nat /\ completions'[s] >= completions[s]
<1>1. completions \in [Sessions -> Nat]
  BY DEF IInv, Shapes, TypeOK
<1> QED BY <1>1, CompletionsOf

LEMMA EarnedStays ==
  ASSUME IInv, [Next]_vars, NEW grant, Earned(grant)
  PROVE  Earned(grant)'
<1>1. grant.of \in Sessions
  BY DEF Earned, Grant
<1>2. Sound(grant.row)'
  BY DEF Earned, Sound, LegalPath, Attached, Reached
<1> QED BY <1>1, <1>2, CompletionsGrow DEF Earned

LEMMA ServeGrants ==
  ASSUME IInv, IInv', [Next]_vars, NEW r \in Requests, Serve(r), completions' # completions,
         NEW grant, grant = [of |-> holds[r], row |-> copy[r]]
  PROVE  /\ Earned(grant)'
         /\ TakeTurns => completions[grant.of] = 0
<1>1. Delete(r)
  BY DEF Serve, Call, Step, CallStart, CallValidate, CallFactors, CallAdvance, CallComplete,
         BeginScan, Insert, Lookup, Validated, Scan, FactorsReturned, AdvanceRefused,
         AdvanceObject, Update, CompleteRefused, CompleteDecided, Raise, Abandon
<1>2. /\ holds[r] \in Sessions
      /\ copy[r] \in Row
      /\ copy[r].identity # None
      /\ Sound(copy[r])
  BY <1>1 DEF Delete, IInv, Shapes, TypeOK, Calls, Held, Justified, Working, Paths
<1>3. /\ completions[holds[r]] \in Nat
      /\ completions'[holds[r]] = completions[holds[r]] + 1
  BY <1>1, <1>2 DEF Delete, IInv, Shapes, TypeOK
<1>4. TakeTurns => completions'[holds[r]] <= 1
  BY <1>2 DEF IInv, Turns
<1>5. grant \in Grant /\ grant.of = holds[r] /\ grant.row = copy[r]
  BY <1>2 DEF Grant
<1> QED BY <1>2, <1>3, <1>4, <1>5 DEF Earned

LEMMA NextLInv ==
  ASSUME IInv, IInv', LInv, [LoginNext]_loginVars
  PROVE  LInv'
<1>0. [Next]_vars
  BY StepOfPart
<1>1. /\ LoginShapes /\ AllEarned /\ OnePlace
      /\ status \in [IdentitySessions -> {"live", "rotated", "revoked", "unused", "gone"}]
      /\ family \in [IdentitySessions -> IdentitySessions \cup {None}]
      /\ granted \in [Requests -> Grant \cup {None}]
      /\ login \in [IdentitySessions -> Grant \cup {None}]
  BY DEF LInv, LoginShapes, Families!PromiseTypeOK, Families!Recorded
<1>2. ASSUME NEW grant, Earned(grant)
      PROVE  Earned(grant)' /\ grant \in Grant /\ grant # None
  BY <1>0, <1>2, EarnedStays, LoginAssumption DEF Earned
<1>3. CASE UNCHANGED <<granted, sessions>>
  BY <1>1, <1>2, <1>3
     DEF sessions, LInv, LoginShapes, AllEarned, OnePlace, Families!PromiseTypeOK
<1>4. ASSUME NEW r \in Requests, Serve(r), completions' # completions
      PROVE  LInv'
  <2>0. PICK grant : grant = [of |-> holds[r], row |-> copy[r]]
    OBVIOUS
  <2>1. /\ Earned(grant)'
        /\ TakeTurns => completions[grant.of] = 0
    BY <1>0, <1>4, <2>0, ServeGrants
  <2>2. /\ granted' = [granted EXCEPT ![r] = grant]
        /\ UNCHANGED <<login, status, family>>
    BY <1>4, <2>0 DEF Serve, sessions
  <2>3. grant \in Grant /\ grant # None
    BY <2>1, LoginAssumption DEF Earned
  <2>4. LoginShapes'
    BY <1>1, <2>2, <2>3 DEF LoginShapes, Families!PromiseTypeOK
  <2>5. AllEarned'
    BY <1>1, <1>2, <2>1, <2>2 DEF AllEarned
  <2>6. ASSUME TakeTurns
        PROVE  /\ \A q \in Requests : granted[q] # None => granted[q].of # grant.of
               /\ \A s \in IdentitySessions : status[s] = "live" => login[s].of # grant.of
    <3>1. completions[grant.of] = 0
      BY <2>1, <2>6
    <3> QED BY <1>1, <3>1 DEF AllEarned, Earned
  <2>7. OnePlace'
    BY <1>1, <2>2, <2>6 DEF OnePlace
  <2> QED BY <2>4, <2>5, <2>7 DEF LInv
<1>5. ASSUME NEW r \in Requests, Crash(r)
      PROVE  LInv'
  <2>1. /\ granted' = [granted EXCEPT ![r] = None]
        /\ UNCHANGED <<login, status, family>>
    BY <1>5 DEF Crash, sessions
  <2>2. LoginShapes' /\ OnePlace'
    BY <1>1, <2>1 DEF LoginShapes, OnePlace, Families!PromiseTypeOK
  <2>3. AllEarned'
    BY <1>1, <1>2, <2>1 DEF AllEarned
  <2> QED BY <2>2, <2>3 DEF LInv
<1>6. ASSUME NEW r \in Requests, NEW s \in IdentitySessions, Issue(r, s)
      PROVE  LInv'
  <2>1. /\ granted[r] # None
        /\ status[s] = "unused"
        /\ status' = [status EXCEPT ![s] = "live"]
        /\ family' = [family EXCEPT ![s] = s]
        /\ login' = [login EXCEPT ![s] = granted[r]]
        /\ granted' = [granted EXCEPT ![r] = None]
    BY <1>6 DEF Issue, Families!Open
  <2>2. PICK grant : grant = granted[r]
    OBVIOUS
  <2>3. grant \in Grant /\ Earned(grant)'
    BY <1>1, <1>2, <2>1, <2>2 DEF AllEarned
  <2>4. LoginShapes'
    BY <1>1, <2>1, <2>2, <2>3 DEF LoginShapes, Families!PromiseTypeOK, Families!Recorded
  <2>5. AllEarned'
    BY <1>1, <1>2, <2>1, <2>2, <2>3 DEF AllEarned
  <2>6. OnePlace'
    BY <1>1, <2>1 DEF OnePlace
  <2> QED BY <2>4, <2>5, <2>6 DEF LInv
<1>7. ASSUME NEW s \in IdentitySessions, NEW t \in IdentitySessions, Refresh(s, t)
      PROVE  LInv'
  <2>1. /\ status[s] = "live"
        /\ status[t] = "unused"
        /\ status' = [status EXCEPT ![s] = "rotated", ![t] = "live"]
        /\ family' = [family EXCEPT ![t] = family[s]]
        /\ login' = [login EXCEPT ![t] = login[s]]
        /\ granted' = granted
    BY <1>7 DEF Refresh, Families!Rotate
  <2>2. PICK grant : grant = login[s]
    OBVIOUS
  <2>3. grant \in Grant /\ Earned(grant)'
    BY <1>1, <1>2, <2>1, <2>2 DEF AllEarned
  <2>4. LoginShapes'
    BY <1>1, <2>1, <2>2, <2>3 DEF LoginShapes, Families!PromiseTypeOK, Families!Recorded
  <2>5. AllEarned'
    BY <1>1, <1>2, <2>1, <2>2, <2>3 DEF AllEarned
  <2>6. OnePlace'
    BY <1>1, <2>1 DEF OnePlace
  <2> QED BY <2>4, <2>5, <2>6 DEF LInv
<1>8. ASSUME NEW s \in IdentitySessions, Revoke(s) \/ Remove(s)
      PROVE  LInv'
  <2>1. /\ granted' = granted
        /\ login' = login
        /\ status' \in [IdentitySessions -> {"live", "rotated", "revoked", "unused", "gone"}]
        /\ family' \in [IdentitySessions -> IdentitySessions \cup {None}]
        /\ \A t \in IdentitySessions : /\ status'[t] = "live" => status[t] = "live"
                                       /\ status[t] = "unused" => status'[t] = "unused"
    BY <1>1, <1>8 DEF Revoke, Remove, Families!Kill, Families!Forget, Families!Recorded
  <2>2. LoginShapes' /\ OnePlace'
    BY <1>1, <2>1 DEF LoginShapes, OnePlace, Families!PromiseTypeOK, Families!Recorded
  <2>3. AllEarned'
    BY <1>1, <1>2, <2>1 DEF AllEarned
  <2> QED BY <2>2, <2>3 DEF LInv
<1>9. ASSUME NEW r \in Requests, Serve(r), completions' = completions
      PROVE  LInv'
  BY <1>3, <1>9 DEF Serve
<1> QED BY <1>3, <1>4, <1>5, <1>6, <1>7, <1>8, <1>9 DEF LoginNext, Around, loginVars

-----------------------------------------------------------------------------
(* Theorems *)

(* The inductive invariant of the composition, on that of the service.     *)
THEOREM LoginInductive == LoginSpec => [](IInv /\ LInv)
<1>1. IInv /\ IInv' /\ LInv /\ [LoginNext]_loginVars => LInv'
  BY NextLInv
<1>2. LoginSpec => []IInv
  BY LoginImplementsService, Inductive, PTL
<1> QED BY <1>1, <1>2, InitLInv, PTL DEF LoginSpec

(* When requests take turns, one login is worth one usable session.        *)
THEOREM OneSessionPerLoginHolds == LoginSpec => []OneSessionPerLogin
<1>1. LInv => OneSessionPerLogin
  BY DEF LInv, OnePlace, OneSessionPerLogin
<1> QED BY <1>1, LoginInductive, PTL

(* Every identity session goes back to a login that was done and is over.  *)
THEOREM SessionsAreEarnedHolds == LoginSpec => []SessionsAreEarned
<1>1. IInv /\ LInv => SessionsAreEarned
  <2> SUFFICES ASSUME IInv, LInv, NEW s \in IdentitySessions, status[s] # "unused"
               PROVE  /\ login[s] # None
                      /\ login[s].row.identity # None
                      /\ Sound(login[s].row)
                      /\ store[login[s].of] = None
    BY DEF SessionsAreEarned, Sound
  <2>1. Earned(login[s])
    BY DEF LInv, AllEarned
  <2>2. login[s] # None /\ login[s].of \in Sessions
    BY <2>1, LoginAssumption DEF Earned, Grant
  <2>3. store[login[s].of] = None
    BY <2>1, <2>2 DEF Earned, IInv, Shapes, Rows
  <2> QED BY <2>1, <2>2, <2>3 DEF Earned
<1> QED BY <1>1, LoginInductive, PTL

(* What is proved of requests that take turns holds of a whole login too:  *)
(* complete skips no factor and answers once, and the table keeps the      *)
(* promise of LoginProgress.                                               *)
THEOREM ServiceInLogin ==
  LoginSpec => /\ [](TypeOK /\ CompletionJustified /\ CompletedOnce)
               /\ KeepsProgress
BY LoginImplementsService, TypesHold, CompletionHolds, CompletedOnceHolds,
   KeepsProgressHolds, PTL

(* The identity sessions of the composition live as SessionFamilies says,  *)
(* which is all that IdentitySession is proved to do.                      *)
THEOREM LoginImplementsFamilies == LoginSpec => Families!Promise
<1>1. LoginInit => Families!PromiseInit
  BY DEF LoginInit
<1>2. [LoginNext]_loginVars => [Families!PromiseNext]_<<status, family>>
  <2> SUFFICES ASSUME [LoginNext]_loginVars
               PROVE  [Families!PromiseNext]_<<status, family>>
    OBVIOUS
  <2>1. ASSUME NEW r \in Requests, Serve(r) \/ Crash(r)
        PROVE  UNCHANGED <<status, family>>
    BY <2>1 DEF Serve, Crash, sessions
  <2>2. ASSUME NEW r \in Requests, NEW s \in IdentitySessions, Issue(r, s)
        PROVE  Families!PromiseNext
    BY <2>2 DEF Issue, Families!PromiseNext
  <2>3. ASSUME NEW s \in IdentitySessions, NEW t \in IdentitySessions, Refresh(s, t)
        PROVE  Families!PromiseNext
    BY <2>3 DEF Refresh, Families!PromiseNext
  <2>4. ASSUME NEW s \in IdentitySessions, Revoke(s) \/ Remove(s)
        PROVE  Families!PromiseNext
    BY <2>4 DEF Revoke, Remove, Families!PromiseNext
  <2>5. Around \/ UNCHANGED loginVars => UNCHANGED <<status, family>>
    BY DEF Around, loginVars, sessions
  <2> QED BY <2>1, <2>2, <2>3, <2>4, <2>5 DEF LoginNext
<1> QED BY <1>1, <1>2, PTL DEF LoginSpec, Families!Promise

=============================================================================
