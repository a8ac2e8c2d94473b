------------------------------ MODULE OAuth2Flow ------------------------------
(***************************************************************************)
(* The OAuth2 factor (reauth/factors/oauth2/base.py) over its state        *)
(* service (state.py): start stores a state and hands out an authorization *)
(* URL; callback consumes the state, redeems the code at the provider, and *)
(* finds, updates or inserts the enrollment of the account; enroll inserts *)
(* the enrollment of an account that signs up.                             *)
(*                                                                         *)
(* Every call of the stores and of the provider is an await.  A flow is    *)
(* what one start makes: its random state token, its code verifier (if     *)
(* PKCE is used) and its scope are unique to it, and stand for it.         *)
(***************************************************************************)
EXTENDS Naturals

CONSTANTS Flows,         \* states that can be created
          Requests,      \* calls that may be in flight together
          Identities,
          Accounts,      \* accounts at the provider
          EnrollmentIds, \* ids the enrollment store can hand out
          Pkce,          \* whether a start may be with, or without, PKCE
          Lifetime,      \* lifetime of a state, in seconds
          MaxTime,       \* bound on the clock
          None           \* Python's None, and "no row"

(* What the user approves at the provider: one account, from the URL of    *)
(* one flow.                                                               *)
Code == [flow : Flows, account : Accounts]

(* OAuth2State, its token aside. *)
State == [identity   : Identities \cup {None},
          verifier   : Flows \cup {None},
          scope      : Flows,
          expires_at : Nat]

(* OAuth2Enrollment, its id aside; an OAuth2Account has no identity.  The  *)
(* access, refresh and ID tokens are those the code was exchanged for.     *)
Enrollment == [identity : Identities \cup {None},
               account  : Accounts,
               tokens   : Code,
               scope    : Flows]

(* What a flow was started with: the URL has the verifier's challenge. *)
Asked == [identity : Identities \cup {None}, verifier : Flows \cup {None}]

ASSUME OAuth2Assumption ==
  /\ Pkce \subseteq BOOLEAN
  /\ Lifetime \in Nat
  /\ MaxTime \in Nat
  /\ None \notin Identities
  /\ None \notin Flows
  /\ None \notin EnrollmentIds
  /\ None \notin Code
  /\ None \notin Asked
  /\ None \notin State
  /\ None \notin Enrollment

VARIABLES now,         \* get_current_timestamp()
          asked,       \* what each flow was started with: never forgotten
          states,      \* the table of states
          urls,        \* flows whose authorization URL was handed out
          codes,       \* codes the provider has issued
          redeemed,    \* codes the provider will not exchange any more
          enrollments, \* the table of enrollments
          usedIds,     \* ids of enrollments handed out: they are not reused
          pc,          \* where each request is
          flow,        \* the flow it starts, or whose state it presents
          code,        \* the code it presents: None with an error or without code
          state,       \* oauth2_state
          object,      \* the enrollment or account being made
          target,      \* id of the existing enrollment
          consumed,    \* how many times consume returned each state
          late         \* whether the state had been consumed before the call

provider == <<urls, codes, redeemed>>
tables == <<states, enrollments, usedIds>>
locals == <<flow, code, state, object, target, late>>

vars == <<now, asked, provider, tables, pc, locals, consumed>>

Init ==
  /\ now = 0
  /\ asked = [t \in Flows |-> None]
  /\ states = [t \in Flows |-> None]
  /\ urls = {}
  /\ codes = {}
  /\ redeemed = {}
  /\ enrollments = [e \in EnrollmentIds |-> None]
  /\ usedIds = {}
  /\ pc = [r \in Requests |-> "idle"]
  /\ flow = [r \in Requests |-> None]
  /\ code = [r \in Requests |-> None]
  /\ state = [r \in Requests |-> None]
  /\ object = [r \in Requests |-> None]
  /\ target = [r \in Requests |-> None]
  /\ consumed = [t \in Flows |-> 0]
  /\ late = [r \in Requests |-> FALSE]

Goto(r, label) == pc' = [pc EXCEPT ![r] = label]

(* The call returns or raises, and whoever made it is done. *)
Leave(r) ==
  /\ Goto(r, "idle")
  /\ flow' = [flow EXCEPT ![r] = None]
  /\ code' = [code EXCEPT ![r] = None]
  /\ state' = [state EXCEPT ![r] = None]
  /\ object' = [object EXCEPT ![r] = None]
  /\ target' = [target EXCEPT ![r] = None]
  /\ late' = [late EXCEPT ![r] = FALSE]

-----------------------------------------------------------------------------
(* start *)

NewState(t, identity, pkce) ==
  [identity   |-> identity,
   verifier   |-> IF pkce THEN t ELSE None,
   scope      |-> t,
   expires_at |-> now + Lifetime]

(* A signup or a login when identity is None, otherwise the association of *)
(* an account with that identity.                                          *)
CallStart(r, t, identity, pkce) ==
  /\ pc[r] = "idle"
  /\ asked[t] = None
  /\ asked' = [asked EXCEPT ![t] = [identity |-> identity,
                                    verifier |-> IF pkce THEN t ELSE None]]
  /\ flow' = [flow EXCEPT ![r] = t]
  /\ state' = [state EXCEPT ![r] = NewState(t, identity, pkce)]
  /\ Goto(r, "insert")
  /\ UNCHANGED <<now, provider, tables, code, object, target, late, consumed>>

(* Once the state is stored, nothing more can happen to it in start, which *)
(* returns the URL it is in.                                               *)
Insert(r) ==
  /\ pc[r] = "insert"
  /\ states' = [states EXCEPT ![flow[r]] = state[r]]
  /\ urls' = urls \cup {flow[r]}
  /\ Leave(r)
  /\ UNCHANGED <<now, asked, codes, redeemed, enrollments, usedIds, consumed>>

-----------------------------------------------------------------------------
(* The user and the provider *)

(* The user follows a flow's URL and approves, once per account. *)
Authorize(t, account) ==
  /\ t \in urls
  /\ [flow |-> t, account |-> account] \notin codes
  /\ codes' = codes \cup {[flow |-> t, account |-> account]}
  /\ UNCHANGED <<now, asked, urls, redeemed, tables, pc, locals, consumed>>

(* RFC 6749 and 7636: a code is redeemed once, and with the verifier of    *)
(* the challenge in the URL it was issued from, if there was one.          *)
Redeemable(c, verifier) ==
  /\ c \notin redeemed
  /\ asked[c.flow].verifier \in {None, verifier}

-----------------------------------------------------------------------------
(* callback: consume the state *)

(* A response may be old, repeated or of another tab of the user's browser;*)
(* without a code it is an error response, or it has no code parameter.    *)
CallCallback(r, t, c) ==
  /\ pc[r] = "idle"
  /\ flow' = [flow EXCEPT ![r] = t]
  /\ code' = [code EXCEPT ![r] = c]
  /\ late' = [late EXCEPT ![r] = consumed[t] > 0]
  /\ Goto(r, "lookup")
  /\ UNCHANGED <<now, asked, provider, tables, state, object, target, consumed>>

Lookup(r) ==
  /\ pc[r] = "lookup"
  /\ state' = [state EXCEPT ![r] = states[flow[r]]]
  /\ Goto(r, "loaded")
  /\ UNCHANGED <<now, asked, provider, tables, flow, code, object, target, late, consumed>>

Valid(s) == s # None /\ now < s.expires_at

StateRefused(r) ==
  /\ pc[r] = "loaded"
  /\ ~Valid(state[r])
  /\ Leave(r)
  /\ UNCHANGED <<now, asked, provider, tables, consumed>>

StateAccepted(r) ==
  /\ pc[r] = "loaded"
  /\ Valid(state[r])
  /\ Goto(r, "delete")
  /\ UNCHANGED <<now, asked, provider, tables, locals, consumed>>

(* Fault: the state is left to expire. *)
KeepState(r) ==
  /\ pc[r] = "delete"
  /\ consumed' = [consumed EXCEPT ![flow[r]] = @ + 1]
  /\ Goto(r, "consumed")
  /\ UNCHANGED <<now, asked, provider, tables, locals>>

(* delete does not say whether there was a row to delete. *)
Delete(r) ==
  /\ pc[r] = "delete"
  /\ states' = [states EXCEPT ![flow[r]] = None]
  /\ consumed' = [consumed EXCEPT ![flow[r]] = @ + 1]
  /\ Goto(r, "consumed")
  /\ UNCHANGED <<now, asked, provider, enrollments, usedIds, locals>>

(* An error response, or no code: the exception takes the state with it. *)
NoCode(r) ==
  /\ pc[r] = "consumed"
  /\ code[r] = None
  /\ Leave(r)
  /\ UNCHANGED <<now, asked, provider, tables, consumed>>

-----------------------------------------------------------------------------
(* callback: exchange the code *)

Exchange(r) ==
  /\ pc[r] = "consumed"
  /\ code[r] # None
  /\ Redeemable(code[r], state[r].verifier)
  /\ redeemed' = redeemed \cup {code[r]}
  /\ object' = [object EXCEPT ![r] = [identity |-> None,
                                      account  |-> code[r].account,
                                      tokens   |-> code[r],
                                      scope    |-> state[r].scope]]
  /\ Goto(r, "find")
  /\ UNCHANGED <<now, asked, urls, codes, tables, flow, code, state, target, late, consumed>>

ExchangeRefused(r) ==
  /\ pc[r] = "consumed"
  /\ code[r] # None
  /\ ~Redeemable(code[r], state[r].verifier)
  /\ Leave(r)
  /\ UNCHANGED <<now, asked, provider, tables, consumed>>

(* The provider redeemed the code, but its answer is lost or not usable. *)
ExchangeLost(r) ==
  /\ pc[r] = "consumed"
  /\ code[r] # None
  /\ Redeemable(code[r], state[r].verifier)
  /\ redeemed' = redeemed \cup {code[r]}
  /\ Leave(r)
  /\ UNCHANGED <<now, asked, urls, codes, tables, consumed>>

-----------------------------------------------------------------------------
(* callback: resolve the identity *)

EnrolledAs(account) ==
  {e \in EnrollmentIds : enrollments[e] # None /\ enrollments[e].account = account}

(* Fault: the identity of the state is not compared. *)
FindAny(r) ==
  /\ pc[r] = "find"
  /\ \E e \in EnrolledAs(object[r].account) :
       /\ target' = [target EXCEPT ![r] = e]
       /\ object' = [object EXCEPT ![r].identity = enrollments[e].identity]
  /\ Goto(r, "update")
  /\ UNCHANGED <<now, asked, provider, tables, flow, code, state, late, consumed>>

(* If an account has several enrollments, the store returns any of them.   *)
(* The object that callback changes, and writes, is the one returned.      *)
FindMatch(r) ==
  /\ pc[r] = "find"
  /\ \E e \in EnrolledAs(object[r].account) :
       /\ state[r].identity \in {None, enrollments[e].identity}
       /\ target' = [target EXCEPT ![r] = e]
       /\ object' = [object EXCEPT ![r].identity = enrollments[e].identity]
  /\ Goto(r, "update")
  /\ UNCHANGED <<now, asked, provider, tables, flow, code, state, late, consumed>>

FindMismatch(r) ==
  /\ pc[r] = "find"
  /\ \E e \in EnrolledAs(object[r].account) :
       state[r].identity \notin {None, enrollments[e].identity}
  /\ Leave(r)
  /\ UNCHANGED <<now, asked, provider, tables, consumed>>

(* The account is not known: it is enrolled for the identity of the state. *)
Associate(r) ==
  /\ pc[r] = "find"
  /\ EnrolledAs(object[r].account) = {}
  /\ state[r].identity # None
  /\ object' = [object EXCEPT ![r].identity = state[r].identity]
  /\ Goto(r, "enroll")
  /\ UNCHANGED <<now, asked, provider, tables, flow, code, state, target, late, consumed>>

(* Fault: the account is enrolled at once, for no identity. *)
SignupDangling(r) ==
  /\ pc[r] = "find"
  /\ EnrolledAs(object[r].account) = {}
  /\ state[r].identity = None
  /\ Goto(r, "enroll")
  /\ UNCHANGED <<now, asked, provider, tables, locals, consumed>>

(* It is not known, and the state has no identity: callback returns the    *)
(* account, and the application goes on with it.                           *)
Signup(r) ==
  /\ pc[r] = "find"
  /\ EnrolledAs(object[r].account) = {}
  /\ state[r].identity = None
  /\ Goto(r, "account")
  /\ UNCHANGED <<now, asked, provider, tables, locals, consumed>>

(* Fault: a missing row is inserted. *)
UpsertedEnrollment(row, new) == new

(* Fault: the scope that was granted first is kept. *)
ScopeKept(row, new) == IF row = None THEN None ELSE [new EXCEPT !.scope = row.scope]

(* update overwrites the row, if there still is one. *)
UpdatedEnrollment(row, new) == IF row = None THEN None ELSE new

Update(r) ==
  /\ pc[r] = "update"
  /\ enrollments' = [enrollments EXCEPT ![target[r]] = UpdatedEnrollment(@, object[r])]
  /\ Leave(r)
  /\ UNCHANGED <<now, asked, provider, states, usedIds, consumed>>

-----------------------------------------------------------------------------
(* enroll, and the insert of both *)

CallEnroll(r, identity) ==
  /\ pc[r] = "account"
  /\ object' = [object EXCEPT ![r].identity = identity]
  /\ Goto(r, "enroll")
  /\ UNCHANGED <<now, asked, provider, tables, flow, code, state, target, late, consumed>>

InsertEnrollment(r) ==
  /\ pc[r] = "enroll"
  /\ \E e \in EnrollmentIds \ usedIds :
       /\ enrollments' = [enrollments EXCEPT ![e] = object[r]]
       /\ usedIds' = usedIds \cup {e}
  /\ Leave(r)
  /\ UNCHANGED <<now, asked, provider, states, consumed>>

-----------------------------------------------------------------------------
(* The environment *)

(* A write takes effect, but the call raises; an application that has an   *)
(* account to enroll may call enroll with it again.                        *)
RaiseAfter(r) ==
  \/ /\ pc[r] = "delete"
     /\ states' = [states EXCEPT ![flow[r]] = None]
     /\ Leave(r)
     /\ UNCHANGED <<now, asked, provider, enrollments, usedIds, consumed>>
  \/ /\ pc[r] = "enroll"
     /\ state[r].identity = None
     /\ \E e \in EnrollmentIds \ usedIds :
          /\ enrollments' = [enrollments EXCEPT ![e] = object[r]]
          /\ usedIds' = usedIds \cup {e}
     /\ Goto(r, "account")
     /\ UNCHANGED <<now, asked, provider, states, locals, consumed>>

(* The call raises before its next effect, is cancelled, or dies. *)
Abandon(r) ==
  /\ pc[r] # "idle"
  /\ Leave(r)
  /\ UNCHANGED <<now, asked, provider, tables, consumed>>

(* The application removes an enrollment. *)
Unlink(e) ==
  /\ enrollments[e] # None
  /\ enrollments' = [enrollments EXCEPT ![e] = None]
  /\ UNCHANGED <<now, asked, provider, states, usedIds, pc, locals, consumed>>

(* The application deletes a state that expired. *)
Purge(t) ==
  /\ states[t] # None
  /\ now >= states[t].expires_at
  /\ states' = [states EXCEPT ![t] = None]
  /\ UNCHANGED <<now, asked, provider, enrollments, usedIds, pc, locals, consumed>>

Tick ==
  /\ now < MaxTime
  /\ now' = now + 1
  /\ UNCHANGED <<asked, provider, tables, pc, locals, consumed>>

Call(r) ==
  \/ \E t \in Flows, identity \in Identities \cup {None}, pkce \in Pkce :
       CallStart(r, t, identity, pkce)
  \/ \E t \in urls, c \in codes \cup {None} : CallCallback(r, t, c)
  \/ \E identity \in Identities : CallEnroll(r, identity)

Step(r) ==
  \/ Insert(r)
  \/ Lookup(r)
  \/ StateRefused(r)
  \/ StateAccepted(r)
  \/ Delete(r)
  \/ NoCode(r)
  \/ Exchange(r)
  \/ ExchangeRefused(r)
  \/ ExchangeLost(r)
  \/ FindMatch(r)
  \/ FindMismatch(r)
  \/ Associate(r)
  \/ Signup(r)
  \/ Update(r)
  \/ InsertEnrollment(r)

Next ==
  \/ \E r \in Requests : Call(r) \/ Step(r) \/ RaiseAfter(r) \/ Abandon(r)
  \/ \E t \in Flows, account \in Accounts : Authorize(t, account)
  \/ \E e \in EnrollmentIds : Unlink(e)
  \/ \E t \in Flows : Purge(t)
  \/ Tick

Spec == Init /\ [][Next]_vars

-----------------------------------------------------------------------------
(* Properties *)

(* Rows and objects are well formed; a stored enrollment has an identity.  *)
TypeOK ==
  /\ now \in Nat
  /\ asked \in [Flows -> Asked \cup {None}]
  /\ states \in [Flows -> State \cup {None}]
  /\ urls \subseteq Flows
  /\ codes \subseteq Code
  /\ redeemed \subseteq codes
  /\ enrollments \in [EnrollmentIds -> Enrollment \cup {None}]
  /\ \A e \in EnrollmentIds : enrollments[e] # None => enrollments[e].identity # None
  /\ usedIds \subseteq EnrollmentIds
  /\ pc \in [Requests -> {"idle", "insert", "lookup", "loaded", "delete", "consumed",
                          "find", "update", "enroll", "account"}]
  /\ flow \in [Requests -> Flows \cup {None}]
  /\ code \in [Requests -> Code \cup {None}]
  /\ state \in [Requests -> State \cup {None}]
  /\ object \in [Requests -> Enrollment \cup {None}]
  /\ target \in [Requests -> EnrollmentIds \cup {None}]
  /\ consumed \in [Flows -> Nat]
  /\ late \in [Requests -> BOOLEAN]

(* consume: "Atomically retrieve and delete an OAuth2 state".  A state is  *)
(* given to one callback at most.                                          *)
ConsumedOnce == \A t \in Flows : consumed[t] <= 1

(* A callback that begins after a state was consumed never gets past       *)
(* consume with it, however many calls are under way.                      *)
NoLateConsume ==
  \A r \in Requests : late[r] => pc[r] \in {"idle", "lookup", "loaded"}

WithPkce(t) == asked[t].verifier # None

(* Whichever states and codes meet in a callback: if a flow was started    *)
(* for an identity, with PKCE, then what the user approved in that flow    *)
(* ends up in enrollments of that identity only.                           *)
LinkedToRequester ==
  \A e \in EnrollmentIds :
    LET row == enrollments[e]
    IN  row # None /\ WithPkce(row.tokens.flow) =>
          asked[row.tokens.flow].identity \in {None, row.identity}

(* With PKCE, the scope written next to the tokens is the one asked for in *)
(* the flow the tokens come from.                                          *)
ScopeOfTokens ==
  \A e \in EnrollmentIds :
    LET row == enrollments[e]
    IN  row # None /\ WithPkce(row.tokens.flow) => row.scope = row.tokens.flow

(* Callbacks under way neither bring a removed enrollment back nor move an *)
(* enrollment to another identity or account.                              *)
EnrollmentKept ==
  [][\A e \in usedIds :
       enrollments'[e] # None =>
         /\ enrollments[e] # None
         /\ enrollments'[e].identity = enrollments[e].identity
         /\ enrollments'[e].account = enrollments[e].account]_vars

=============================================================================
