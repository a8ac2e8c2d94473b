-------------------------------- MODULE Login --------------------------------
(***************************************************************************)
(* From the first factor to a revoked session: the authentication session  *)
(* service composed with the identity session service, by an application   *)
(* that keeps their contract.  What complete returns is passed to issue,   *)
(* once: "The caller is responsible for authenticating the identity before *)
(* issuance" (reauth/identity_session.py:128).                             *)
(*                                                                         *)
(* Between the two calls the login is in the memory of one request only:   *)
(* the authentication session is deleted, the identity session not stored. *)
(* The identity session service is its abstract specification here, which  *)
(* IdentitySession implements.                                             *)
(***************************************************************************)
EXTENDS AuthenticationSession

CONSTANT IdentitySessions  \* ids of the identity_sessions table

(* An answer of complete: whose it is, and the session it was decided on.  *)
Grant == [of : Sessions, row : Row]

ASSUME LoginAssumption == None \notin Grant

VARIABLES granted,  \* the answer of complete each request has not used yet
          login,    \* history: the answer each identity session goes back to
          status,   \* of the identity sessions, as in SessionFamilies
          family

Families == INSTANCE SessionFamilies WITH Sessions <- IdentitySessions

sessions == <<login, status, family>>

loginVars == <<vars, granted, sessions>>

LoginInit ==
  /\ Init
  /\ granted = [r \in Requests |-> None]
  /\ login = [s \in IdentitySessions |-> None]
  /\ Families!PromiseInit

(* A request works on its authentication session; complete may answer it.  *)
Serve(r) ==
  /\ granted[r] = None
  /\ Call(r) \/ Step(r) \/ Raise(r) \/ Abandon(r)
  /\ granted' = IF completions' = completions THEN granted
                ELSE [granted EXCEPT ![r] = [of |-> holds[r], row |-> copy[r]]]
  /\ UNCHANGED sessions

Around ==
  /\ \/ \E identity \in Identities, f \in Factors :
          Enroll(identity, f) \/ Unenroll(identity, f)
     \/ \E s \in Sessions : Purge(s)
     \/ Tick
  /\ UNCHANGED <<granted, sessions>>

(* issue stores the session; whether it returns or its answer is lost, the *)
(* application does not call it a second time with the same answer.        *)
Issue(r, s) ==
  /\ granted[r] # None
  /\ Families!Open(s)
  /\ login' = [login EXCEPT ![s] = granted[r]]
  /\ granted' = [granted EXCEPT ![r] = None]
  /\ UNCHANGED vars

(* The process dies, or insert fails, after complete: nothing is stored.   *)
Crash(r) ==
  /\ granted[r] # None
  /\ granted' = [granted EXCEPT ![r] = None]
  /\ UNCHANGED <<vars, sessions>>

Refresh(s, t) ==
  /\ Families!Rotate(s, t)
  /\ login' = [login EXCEPT ![t] = login[s]]
  /\ UNCHANGED <<vars, granted>>

Revoke(f) ==
  /\ Families!Kill(f)
  /\ UNCHANGED <<vars, granted, login>>

Remove(s) ==
  /\ Families!Forget(s)
  /\ UNCHANGED <<vars, granted, login>>

LoginNext ==
  \/ \E r \in Requests : Serve(r) \/ Crash(r)
  \/ \E r \in Requests, s \in IdentitySessions : Issue(r, s)
  \/ \E s, t \in IdentitySessions : Refresh(s, t)
  \/ \E s \in IdentitySessions : Revoke(s) \/ Remove(s)
  \/ Around

LoginSpec == LoginInit /\ [][LoginNext]_loginVars

-----------------------------------------------------------------------------
(* Properties *)

(* When requests take turns, one login is worth one usable session, however*)
(* complete is retried, its answer lost, or the session refreshed: nobody  *)
(* stays logged in elsewhere after a revocation.                           *)
OneSessionPerLogin ==
  TakeTurns =>
    \A s, t \in IdentitySessions :
      /\ status[s] = "live" /\ status[t] = "live"
      /\ login[s].of = login[t].of
      => s = t

(* An identity session goes back to a login that was done: of factors each *)
(* used when it was due, the last of them for the identity it was issued   *)
(* to, on an authentication session that nobody can find any more.         *)
SessionsAreEarned ==
  \A s \in IdentitySessions :
    status[s] # "unused" =>
      /\ login[s] # None
      /\ login[s].row.identity # None
      /\ LegalPath(login[s].row)
      /\ Attached(login[s].row)
      /\ store[login[s].of] = None

=============================================================================
