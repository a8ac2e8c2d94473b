---------------------------- MODULE OAuth2FlowProofs ----------------------------
(* Theorems about the OAuth2 factor. *)
EXTENDS OAuth2Flow, TLAPS

USE OAuth2Assumption

-----------------------------------------------------------------------------
(* Records *)

LEMMA StateFields ==
  ASSUME NEW s \in State
  PROVE  /\ s.identity \in Identities \cup {None}
         /\ s.verifier \in Flows \cup {None}
         /\ s.scope \in Flows
BY DEF State

LEMMA EnrollmentFields ==
  ASSUME NEW row \in Enrollment
  PROVE  /\ row.identity \in Identities \cup {None}
         /\ row.account \in Accounts
         /\ row.tokens \in Code
         /\ row.tokens.flow \in Flows
         /\ row.scope \in Flows
BY DEF Enrollment, Code

LEMMA WithIdentity ==
  ASSUME NEW row \in Enrollment, NEW identity \in Identities \cup {None}
  PROVE  LET new == [row EXCEPT !.identity = identity]
         IN  /\ new \in Enrollment
             /\ new.identity = identity
             /\ new.account = row.account
             /\ new.tokens = row.tokens
             /\ new.scope = row.scope
BY DEF Enrollment

LEMMA NewStateFields ==
  ASSUME now \in Nat, NEW t \in Flows, NEW identity \in Identities \cup {None},
         NEW pkce \in Pkce
  PROVE  LET new == NewState(t, identity, pkce)
         IN  /\ new \in State
             /\ new.identity = identity
             /\ new.verifier = IF pkce THEN t ELSE None
             /\ new.scope = t
<1>1. now + Lifetime \in Nat
  OBVIOUS
<1>2. (IF pkce THEN t ELSE None) \in Flows \cup {None}
  OBVIOUS
<1> QED BY <1>1, <1>2 DEF NewState, State

-----------------------------------------------------------------------------
(* Types *)

Resolving == {"find", "update", "enroll", "account"}

(* What a call has by the time it is at each label. *)
Shape ==
  /\ TypeOK
  /\ \A r \in Requests :
       /\ pc[r] # "idle" => flow[r] \in Flows /\ asked[flow[r]] # None
       /\ pc[r] \in Resolving \cup {"insert", "delete", "consumed"} => state[r] \in State
       /\ pc[r] \in Resolving => object[r] \in Enrollment
       /\ pc[r] \in {"update", "enroll"} => object[r].identity # None
       /\ pc[r] = "update" => target[r] \in EnrollmentIds
  /\ \A r \in Requests : code[r] # None => code[r] \in codes
  /\ \A t \in urls : asked[t] # None
  /\ \A c \in codes : asked[c.flow] # None

LEMMA InitShape == Init => Shape
BY DEF Init, Shape, TypeOK, Resolving

LEMMA NextShape ==
  ASSUME Shape, [Next]_vars
  PROVE  Shape'
<1> USE DEF Shape, TypeOK, Goto, Resolving
<1>1. CASE UNCHANGED vars
  BY <1>1 DEF vars, provider, tables, locals
<1>2. ASSUME NEW r \in Requests, NEW t \in Flows, NEW identity \in Identities \cup {None}, NEW pkce \in Pkce,
            CallStart(r, t, identity, pkce)
      PROVE  Shape'
  <2>1. NewState(t, identity, pkce) \in State
    BY NewStateFields
  <2>2. [identity |-> identity, verifier |-> IF pkce THEN t ELSE None] \in Asked
    BY DEF Asked
  <2> QED BY <1>2, <2>1, <2>2 DEF CallStart, provider, tables, locals
<1>3. ASSUME NEW r \in Requests, NEW t \in urls, NEW c \in codes \cup {None}, CallCallback(r, t, c)
      PROVE  Shape'
  BY <1>3 DEF CallCallback, provider, tables, locals
<1>4. ASSUME NEW r \in Requests, NEW identity \in Identities, CallEnroll(r, identity)
      PROVE  Shape'
  <2>1. /\ object[r] \in Enrollment
        /\ [object[r] EXCEPT !.identity = identity] \in Enrollment
        /\ [object[r] EXCEPT !.identity = identity].identity # None
    BY <1>4, WithIdentity DEF CallEnroll
  <2>2. object' = [object EXCEPT ![r] = [object[r] EXCEPT !.identity = identity]]
    BY <1>4 DEF CallEnroll
  <2> QED BY <1>4, <2>1, <2>2 DEF CallEnroll, provider, tables, locals
<1>5. ASSUME NEW r \in Requests, Insert(r)
      PROVE  Shape'
  BY <1>5 DEF Insert, Leave, provider, tables, locals
<1>6. ASSUME NEW r \in Requests, Lookup(r)
      PROVE  Shape'
  BY <1>6 DEF Lookup, provider, tables, locals
<1>7. ASSUME NEW r \in Requests, StateAccepted(r)
      PROVE  Shape'
  BY <1>7 DEF StateAccepted, Valid, provider, tables, locals
<1>8. ASSUME NEW r \in Requests, Delete(r)
      PROVE  Shape'
  BY <1>8 DEF Delete, provider, tables, locals
<1>9. ASSUME NEW r \in Requests, Exchange(r)
      PROVE  Shape'
  <2> DEFINE new == [identity |-> None, account |-> code[r].account, tokens |-> code[r],
                     scope |-> state[r].scope]
  <2>1. /\ code[r] \in Code
        /\ code[r].account \in Accounts
        /\ state[r].scope \in Flows
        /\ code[r] \in codes
    BY <1>9, StateFields DEF Exchange, Code
  <2>2. new \in Enrollment
    BY <2>1 DEF Enrollment
  <2>3. object' = [object EXCEPT ![r] = new]
    BY <1>9 DEF Exchange
  <2> HIDE DEF new
  <2> QED BY <1>9, <2>1, <2>2, <2>3 DEF Exchange, tables, locals
<1>10. ASSUME NEW r \in Requests, FindMatch(r)
      PROVE  Shape'
  <2>1. PICK e \in EnrolledAs(object[r].account) :
          /\ target' = [target EXCEPT ![r] = e]
          /\ object' = [object EXCEPT ![r] = [object[r] EXCEPT !.identity = enrollments[e].identity]]
    BY <1>10 DEF FindMatch
  <2>2. /\ e \in EnrollmentIds
        /\ enrollments[e] \in Enrollment
        /\ enrollments[e].identity # None
        /\ object[r] \in Enrollment
    BY <1>10 DEF EnrolledAs, FindMatch
  <2>3. /\ [object[r] EXCEPT !.identity = enrollments[e].identity] \in Enrollment
        /\ [object[r] EXCEPT !.identity = enrollments[e].identity].identity # None
    BY <2>2, WithIdentity, EnrollmentFields
  <2> QED BY <1>10, <2>1, <2>2, <2>3 DEF FindMatch, provider, tables, locals
<1>11. ASSUME NEW r \in Requests, Associate(r)
      PROVE  Shape'
  <2>1. /\ object[r] \in Enrollment
        /\ state[r].identity \in Identities
    BY <1>11, StateFields DEF Associate
  <2>2. /\ [object[r] EXCEPT !.identity = state[r].identity] \in Enrollment
        /\ [object[r] EXCEPT !.identity = state[r].identity].identity # None
    BY <2>1, WithIdentity
  <2>3. object' = [object EXCEPT ![r] = [object[r] EXCEPT !.identity = state[r].identity]]
    BY <1>11 DEF Associate
  <2> QED BY <1>11, <2>1, <2>2, <2>3 DEF Associate, provider, tables, locals
<1>12. ASSUME NEW r \in Requests, Signup(r)
      PROVE  Shape'
  BY <1>12 DEF Signup, provider, tables, locals
<1>13. ASSUME NEW r \in Requests, Update(r)
      PROVE  Shape'
  BY <1>13 DEF Update, UpdatedEnrollment, Leave, provider, tables, locals
<1>14. ASSUME NEW r \in Requests, InsertEnrollment(r)
      PROVE  Shape'
  BY <1>14 DEF InsertEnrollment, Leave, provider, tables, locals
<1>15. ASSUME NEW r \in Requests, RaiseAfter(r)
      PROVE  Shape'
  <2>1. CASE pc[r] = "delete"
    <3>1. /\ states' = [states EXCEPT ![flow[r]] = None]
          /\ Leave(r)
          /\ UNCHANGED <<now, asked, provider, enrollments, usedIds, consumed>>
      BY <1>15, <2>1 DEF RaiseAfter
    <3> QED BY <2>1, <3>1 DEF Leave, provider
  <2>2. CASE pc[r] = "enroll"
    BY <1>15, <2>2 DEF RaiseAfter, provider, locals
  <2> QED BY <1>15, <2>1, <2>2 DEF RaiseAfter
<1>16. ASSUME NEW r \in Requests,
            StateRefused(r) \/ NoCode(r) \/ ExchangeRefused(r) \/ FindMismatch(r) \/ Abandon(r)
      PROVE  Shape'
  <2>1. Leave(r) /\ UNCHANGED <<now, asked, provider, tables, consumed>>
    BY <1>16 DEF StateRefused, NoCode, ExchangeRefused, FindMismatch, Abandon
  <2> QED BY <2>1 DEF Leave, provider, tables
<1>17. ASSUME NEW r \in Requests, ExchangeLost(r)
      PROVE  Shape'
  <2>1. /\ Leave(r)
        /\ redeemed' = redeemed \cup {code[r]}
        /\ code[r] \in codes
        /\ UNCHANGED <<now, asked, urls, codes, tables, consumed>>
    BY <1>17 DEF ExchangeLost
  <2> QED BY <2>1 DEF Leave, tables
<1>18. ASSUME NEW t \in Flows, NEW account \in Accounts, Authorize(t, account)
      PROVE  Shape'
  BY <1>18 DEF Authorize, tables, locals, Code
<1>19. ASSUME NEW e \in EnrollmentIds, Unlink(e)
      PROVE  Shape'
  BY <1>19 DEF Unlink, provider, locals
<1>20. ASSUME NEW t \in Flows, Purge(t)
      PROVE  Shape'
  BY <1>20 DEF Purge, provider, locals
<1>21. CASE Tick
  BY <1>21 DEF Tick, provider, tables, locals
<1> QED BY <1>1, <1>2, <1>3, <1>4, <1>5, <1>6, <1>7, <1>8, <1>9, <1>10, <1>11,
           <1>12, <1>13, <1>14, <1>15, <1>16, <1>17, <1>18, <1>19, <1>20, <1>21
       DEF Next, Call, Step

-----------------------------------------------------------------------------
(* States, objects and enrollments belong to flows *)

(* A state of flow t says what start was called with: a. *)
StateOf(s, t, a) ==
  /\ s.identity = a.identity
  /\ s.verifier = a.verifier
  /\ s.scope = t

(* The tokens are of the flow whose scope is next to them, if it was       *)
(* started, with a, with PKCE.                                             *)
OneFlow(row, a) == a.verifier # None => row.scope = row.tokens.flow

(* They are its owner's. *)
Linked(row, a) == a.verifier # None => a.identity \in {None, row.identity}

(* What is enrolled, when all says what each flow was started with. *)
RowBound(row, all) ==
  LET a == all[row.tokens.flow]
  IN  a # None /\ OneFlow(row, a) /\ Linked(row, a)

(* A call at a label, with a flow, its state and the object being made. *)
CallBound(label, t, s, row, all) ==
  /\ label = "idle" => s = None
  /\ label = "account" => s.identity = None
  /\ s # None => StateOf(s, t, all[t])
  /\ label \in Resolving =>
       LET a == all[row.tokens.flow]
       IN  /\ a # None
           /\ OneFlow(row, a)
           /\ a.verifier # None => row.tokens.flow = t
           /\ label \in {"update", "enroll"} => Linked(row, a)

AskedBound == \A t \in Flows : asked[t] # None => asked[t].verifier \in {None, t}

StatesBound ==
  \A t \in Flows : states[t] # None => asked[t] # None /\ StateOf(states[t], t, asked[t])

EnrollmentsBound ==
  \A e \in EnrollmentIds : enrollments[e] # None => RowBound(enrollments[e], asked)

CallsBound == \A r \in Requests : CallBound(pc[r], flow[r], state[r], object[r], asked)

Bound == AskedBound /\ StatesBound /\ EnrollmentsBound /\ CallsBound

LEMMA InitBound == Init => Bound
BY DEF Init, Bound, AskedBound, StatesBound, EnrollmentsBound, CallsBound, CallBound, Resolving

(* The other calls are where they were. *)
Still(r) ==
  \A q \in Requests : q # r => /\ pc'[q] = pc[q]
                               /\ flow'[q] = flow[q]
                               /\ state'[q] = state[q]
                               /\ object'[q] = object[q]

(* Nothing but a start changes what the flows were started with. *)
LEMMA OneCallBound ==
  ASSUME Bound, UNCHANGED <<asked, states, enrollments>>, NEW r \in Requests, Still(r),
         CallBound(pc'[r], flow'[r], state'[r], object'[r], asked)
  PROVE  Bound'
<1>1. CallsBound'
  BY DEF Bound, CallsBound, Still
<1> QED BY <1>1 DEF Bound, AskedBound, StatesBound, EnrollmentsBound

(* Nor does it matter what becomes of the tables, if they stay bound. *)
LEMMA LeaveBound ==
  ASSUME Shape, Bound, UNCHANGED asked, StatesBound', EnrollmentsBound',
         NEW r \in Requests, Leave(r)
  PROVE  Bound'
<1>1. pc'[r] = "idle" /\ state'[r] = None /\ Still(r)
  BY DEF Leave, Goto, Shape, TypeOK, Still
<1>2. CallsBound'
  BY <1>1 DEF Bound, CallsBound, CallBound, Resolving, Still
<1> QED BY <1>2 DEF Bound, AskedBound

(* A state of a flow that was started, or no state, written for it. *)
LEMMA StateWritten ==
  ASSUME Shape, StatesBound, UNCHANGED asked, NEW t \in Flows, NEW s,
         s # None => asked[t] # None /\ StateOf(s, t, asked[t]),
         states' = [states EXCEPT ![t] = s]
  PROVE  StatesBound'
<1>1. states'[t] = s /\ \A u \in Flows : u # t => states'[u] = states[u]
  BY DEF Shape, TypeOK
<1> QED BY <1>1 DEF StatesBound

LEMMA EnrollmentWritten ==
  ASSUME Shape, EnrollmentsBound, UNCHANGED asked, NEW e \in EnrollmentIds, NEW row,
         row = None \/ RowBound(row, asked),
         enrollments' = [enrollments EXCEPT ![e] = row]
  PROVE  EnrollmentsBound'
<1>1. enrollments'[e] = row /\ \A x \in EnrollmentIds : x # e => enrollments'[x] = enrollments[x]
  BY DEF Shape, TypeOK
<1> QED BY <1>1 DEF EnrollmentsBound

LEMMA StartBound ==
  ASSUME Shape, Bound, NEW r \in Requests, NEW t \in Flows,
         NEW identity \in Identities \cup {None}, NEW pkce \in Pkce,
         CallStart(r, t, identity, pkce)
  PROVE  Bound'
<1> DEFINE a == [identity |-> identity, verifier |-> IF pkce THEN t ELSE None]
           s == NewState(t, identity, pkce)
<1>1. s # None /\ StateOf(s, t, a) /\ a.verifier \in {None, t}
  BY NewStateFields DEF StateOf, Shape, TypeOK
<1>2. a # None
  BY DEF Asked
<1>3. /\ asked[t] = None
      /\ asked' = [asked EXCEPT ![t] = a]
      /\ flow' = [flow EXCEPT ![r] = t]
      /\ state' = [state EXCEPT ![r] = s]
      /\ pc' = [pc EXCEPT ![r] = "insert"]
      /\ UNCHANGED <<states, enrollments, object>>
  BY DEF CallStart, Goto, tables
<1> HIDE DEF a, s
<1>4. asked'[t] = a /\ \A u \in Flows : u # t => asked'[u] = asked[u]
  BY <1>3 DEF Shape, TypeOK
<1>5. /\ pc'[r] = "insert" /\ flow'[r] = t /\ state'[r] = s
      /\ \A q \in Requests : q # r => /\ pc'[q] = pc[q]
                                      /\ flow'[q] = flow[q]
                                      /\ state'[q] = state[q]
      /\ \A q \in Requests : object'[q] = object[q]
  BY <1>3 DEF Shape, TypeOK
<1>6. AskedBound'
  BY <1>1, <1>4 DEF Bound, AskedBound
<1>7. StatesBound'
  BY <1>3, <1>4 DEF Bound, StatesBound
<1>8. ASSUME NEW e \in EnrollmentIds, enrollments'[e] # None
      PROVE  RowBound(enrollments[e], asked)'
  <2>1. enrollments[e].tokens.flow \in Flows /\ enrollments'[e] = enrollments[e]
    BY <1>3, <1>8, EnrollmentFields DEF Shape, TypeOK
  <2>2. RowBound(enrollments[e], asked)
    BY <1>8, <2>1 DEF Bound, EnrollmentsBound
  <2> QED BY <1>3, <1>4, <2>1, <2>2 DEF RowBound
<1>9. ASSUME NEW q \in Requests
      PROVE  CallBound(pc[q], flow[q], state[q], object[q], asked)'
  <2>1. CASE q = r
    BY <1>1, <1>2, <1>4, <1>5, <2>1 DEF CallBound, Resolving
  <2>2. CASE q # r /\ pc[q] = "idle"
    BY <1>5, <2>2 DEF Bound, CallsBound, CallBound, Resolving
  <2>3. CASE q # r /\ pc[q] # "idle"
    <3>1. flow[q] \in Flows /\ flow[q] # t
      BY <1>3, <2>3 DEF Shape
    <3>2. pc[q] \in Resolving => object[q].tokens.flow \in Flows
      BY EnrollmentFields DEF Shape
    <3>3. CallBound(pc[q], flow[q], state[q], object[q], asked)
      BY DEF Bound, CallsBound
    <3>4. pc[q] \in Resolving => object[q].tokens.flow # t
      BY <1>3, <3>3 DEF CallBound
    <3> QED BY <1>4, <1>5, <2>3, <3>1, <3>2, <3>3, <3>4 DEF CallBound
  <2> QED BY <2>1, <2>2, <2>3
<1> QED BY <1>6, <1>7, <1>8, <1>9 DEF Bound, EnrollmentsBound, CallsBound

(* With PKCE, the code that is redeemed is of the flow of the state. *)
LEMMA ExchangeBound ==
  ASSUME Shape, Bound, NEW r \in Requests, Exchange(r)
  PROVE  Bound'
<1> DEFINE c == code[r]
           new == [identity |-> None, account |-> c.account, tokens |-> c,
                   scope |-> state[r].scope]
<1>1. /\ pc[r] = "consumed"
      /\ c \in codes
      /\ asked[c.flow].verifier \in {None, state[r].verifier}
      /\ object' = [object EXCEPT ![r] = new]
      /\ pc' = [pc EXCEPT ![r] = "find"]
      /\ UNCHANGED <<asked, states, enrollments, flow, state>>
  BY DEF Exchange, Redeemable, Goto, tables, Shape
<1>2. /\ state[r] # None
      /\ flow[r] \in Flows
      /\ c.flow \in Flows
      /\ asked[c.flow] # None
      /\ asked[flow[r]] # None
  BY <1>1 DEF Shape, TypeOK, Code
<1>3. CallBound(pc[r], flow[r], state[r], object[r], asked)
  BY DEF Bound, CallsBound
<1>4. asked[c.flow].verifier # None => c.flow = flow[r] /\ state[r].scope = c.flow
  BY <1>1, <1>2, <1>3 DEF CallBound, StateOf, Bound, AskedBound
<1>5. new.tokens = c /\ OneFlow(new, asked[c.flow])
  BY <1>4 DEF OneFlow
<1> HIDE DEF c, new
<1>6. /\ pc'[r] = "find" /\ flow'[r] = flow[r] /\ state'[r] = state[r] /\ object'[r] = new
      /\ Still(r)
  BY <1>1 DEF Shape, TypeOK, Still
<1>7. CallBound("find", flow[r], state[r], new, asked)
  BY <1>1, <1>2, <1>3, <1>4, <1>5 DEF CallBound, Resolving
<1> QED BY <1>1, <1>6, <1>7, OneCallBound

(* An account that is given an identity: the state's, the one it is        *)
(* enrolled for already, or any if the state has none.                     *)
LEMMA IdentifyBound ==
  ASSUME Shape, Bound, NEW r \in Requests, NEW identity \in Identities \cup {None},
         pc[r] \in {"find", "account"},
         state[r].identity \in {None, identity},
         NEW label \in {"update", "enroll"},
         object' = [object EXCEPT ![r] = [object[r] EXCEPT !.identity = identity]],
         pc' = [pc EXCEPT ![r] = label],
         UNCHANGED <<asked, states, enrollments, flow, state>>
  PROVE  Bound'
<1> DEFINE new == [object[r] EXCEPT !.identity = identity]
<1>1. /\ object[r] \in Enrollment
      /\ object[r].tokens.flow \in Flows
      /\ state[r] # None
  BY EnrollmentFields DEF Shape, Resolving
<1>2. /\ new.tokens = object[r].tokens
      /\ new.scope = object[r].scope
      /\ new.identity = identity
  BY <1>1, WithIdentity
<1>3. CallBound(pc[r], flow[r], state[r], object[r], asked)
  BY DEF Bound, CallsBound
<1>4. object' = [object EXCEPT ![r] = new]
  OBVIOUS
<1> HIDE DEF new
<1>5. CallBound(label, flow[r], state[r], new, asked)
  BY <1>1, <1>2, <1>3 DEF CallBound, Resolving, StateOf, OneFlow, Linked
<1>6. /\ pc'[r] = label /\ flow'[r] = flow[r] /\ state'[r] = state[r] /\ object'[r] = new
      /\ Still(r)
  BY <1>4 DEF Shape, TypeOK, Still
<1> QED BY <1>5, <1>6, OneCallBound

(* Only the label changes, and the next place needs nothing more. *)
LEMMA GoBound ==
  ASSUME Shape, Bound, NEW r \in Requests, NEW label,
         pc[r] # "idle", label # "idle",
         label = "account" => state[r].identity = None,
         label \in Resolving => pc[r] \in Resolving,
         label \notin {"update", "enroll"},
         pc' = [pc EXCEPT ![r] = label],
         UNCHANGED <<asked, states, enrollments, flow, state, object>>
  PROVE  Bound'
<1>1. CallBound(pc[r], flow[r], state[r], object[r], asked)
  BY DEF Bound, CallsBound
<1>2. CallBound(label, flow[r], state[r], object[r], asked)
  BY <1>1 DEF CallBound
<1>3. /\ pc'[r] = label /\ flow'[r] = flow[r] /\ state'[r] = state[r] /\ object'[r] = object[r]
      /\ Still(r)
  BY DEF Shape, TypeOK, Still
<1> QED BY <1>2, <1>3, OneCallBound

(* What a call writes is what it has. *)
LEMMA ObjectBound ==
  ASSUME Shape, Bound, NEW r \in Requests, pc[r] \in {"update", "enroll"}
  PROVE  RowBound(object[r], asked)
BY DEF Bound, CallsBound, CallBound, RowBound, Resolving

LEMMA NextBound ==
  ASSUME Shape, Bound, [Next]_vars
  PROVE  Bound'
<1>1. ASSUME UNCHANGED <<asked, states, enrollments, pc, flow, state, object>>
      PROVE  Bound'
  BY <1>1 DEF Bound, AskedBound, StatesBound, EnrollmentsBound, CallsBound
<1>2. CASE UNCHANGED vars
  BY <1>1, <1>2 DEF vars, tables, locals
<1>3. ASSUME NEW r \in Requests, Call(r)
      PROVE  Bound'
  <2>1. ASSUME NEW t \in urls, NEW c \in codes \cup {None}, CallCallback(r, t, c)
        PROVE  Bound'
    <3>1. /\ pc[r] = "idle"
          /\ flow' = [flow EXCEPT ![r] = t]
          /\ pc' = [pc EXCEPT ![r] = "lookup"]
          /\ UNCHANGED <<asked, states, enrollments, state, object>>
      BY <2>1 DEF CallCallback, Goto, tables
    <3>2. CallBound("lookup", t, state[r], object[r], asked)
      BY <3>1 DEF Bound, CallsBound, CallBound, Resolving
    <3>3. /\ pc'[r] = "lookup" /\ flow'[r] = t /\ state'[r] = state[r] /\ object'[r] = object[r]
          /\ Still(r)
      BY <3>1 DEF Shape, TypeOK, Still
    <3> QED BY <3>1, <3>2, <3>3, OneCallBound
  <2>2. ASSUME NEW identity \in Identities, CallEnroll(r, identity)
        PROVE  Bound'
    <3>1. /\ pc[r] = "account"
          /\ object' = [object EXCEPT ![r] = [object[r] EXCEPT !.identity = identity]]
          /\ pc' = [pc EXCEPT ![r] = "enroll"]
          /\ UNCHANGED <<asked, states, enrollments, flow, state>>
      BY <2>2 DEF CallEnroll, Goto, tables
    <3>2. state[r].identity = None
      BY <3>1 DEF Bound, CallsBound, CallBound
    <3> QED BY <3>1, <3>2, IdentifyBound
  <2> QED BY <1>3, <2>1, <2>2, StartBound DEF Call
<1>4. ASSUME NEW r \in Requests, Insert(r)
      PROVE  Bound'
  <2>1. /\ pc[r] = "insert"
        /\ states' = [states EXCEPT ![flow[r]] = state[r]]
        /\ Leave(r)
        /\ UNCHANGED <<asked, enrollments>>
    BY <1>4 DEF Insert
  <2>2. /\ flow[r] \in Flows /\ asked[flow[r]] # None
        /\ StateOf(state[r], flow[r], asked[flow[r]])
    BY <2>1 DEF Shape, Bound, CallsBound, CallBound
  <2>3. StatesBound'
    BY <2>1, <2>2, StateWritten DEF Bound
  <2> QED BY <2>1, <2>3, LeaveBound DEF Bound, EnrollmentsBound
<1>5. ASSUME NEW r \in Requests, Lookup(r)
      PROVE  Bound'
  <2>1. /\ pc[r] = "lookup"
        /\ state' = [state EXCEPT ![r] = states[flow[r]]]
        /\ pc' = [pc EXCEPT ![r] = "loaded"]
        /\ UNCHANGED <<asked, states, enrollments, flow, object>>
    BY <1>5 DEF Lookup, Goto, tables
  <2>2. CallBound("loaded", flow[r], states[flow[r]], object[r], asked)
    BY <2>1 DEF Shape, Bound, StatesBound, CallBound, Resolving
  <2>3. /\ pc'[r] = "loaded" /\ flow'[r] = flow[r]
        /\ state'[r] = states[flow[r]] /\ object'[r] = object[r]
        /\ Still(r)
    BY <2>1 DEF Shape, TypeOK, Still
  <2> QED BY <2>1, <2>2, <2>3, OneCallBound
<1>6. ASSUME NEW r \in Requests, StateAccepted(r) \/ Signup(r)
      PROVE  Bound'
  <2>1. CASE StateAccepted(r)
    BY <2>1, GoBound DEF StateAccepted, Goto, tables, locals, Resolving
  <2>2. CASE Signup(r)
    BY <2>2, GoBound DEF Signup, Goto, tables, locals, Resolving
  <2> QED BY <1>6, <2>1, <2>2
<1>7. ASSUME NEW r \in Requests, pc[r] = "delete",
             states' = [states EXCEPT ![flow[r]] = None],
             UNCHANGED <<asked, enrollments>>,
             Leave(r) \/ (Goto(r, "consumed") /\ UNCHANGED locals)
      PROVE  Bound'
  <2>1. StatesBound' /\ EnrollmentsBound'
    BY <1>7, StateWritten DEF Shape, Bound, EnrollmentsBound
  <2>2. CASE Leave(r)
    BY <1>7, <2>1, <2>2, LeaveBound
  <2>3. CASE Goto(r, "consumed") /\ UNCHANGED locals
    <3>1. /\ pc'[r] = "consumed"
          /\ \A q \in Requests : q # r => pc'[q] = pc[q]
          /\ UNCHANGED <<flow, state, object>>
      BY <2>3 DEF Goto, locals, Shape, TypeOK
    <3>2. CallsBound'
      BY <1>7, <3>1 DEF Bound, CallsBound, CallBound, Resolving
    <3> QED BY <1>7, <2>1, <3>2 DEF Bound, AskedBound
  <2> QED BY <1>7, <2>2, <2>3
<1>8. ASSUME NEW r \in Requests, Delete(r)
      PROVE  Bound'
  BY <1>7, <1>8 DEF Delete
<1>9. ASSUME NEW r \in Requests, FindMatch(r)
      PROVE  Bound'
  <2>1. PICK e \in EnrolledAs(object[r].account) :
          /\ state[r].identity \in {None, enrollments[e].identity}
          /\ object' = [object EXCEPT ![r].identity = enrollments[e].identity]
    BY <1>9 DEF FindMatch
  <2>2. enrollments[e].identity \in Identities \cup {None}
    BY EnrollmentFields DEF EnrolledAs, Shape, TypeOK
  <2>3. /\ pc[r] = "find"
        /\ object' = [object EXCEPT ![r] = [object[r] EXCEPT !.identity = enrollments[e].identity]]
        /\ pc' = [pc EXCEPT ![r] = "update"]
        /\ UNCHANGED <<asked, states, enrollments, flow, state>>
    BY <1>9, <2>1 DEF FindMatch, Goto, tables
  <2> QED BY <2>1, <2>2, <2>3, IdentifyBound
<1>10. ASSUME NEW r \in Requests, Associate(r)
       PROVE  Bound'
  <2>1. /\ pc[r] = "find"
        /\ object' = [object EXCEPT ![r] = [object[r] EXCEPT !.identity = state[r].identity]]
        /\ pc' = [pc EXCEPT ![r] = "enroll"]
        /\ UNCHANGED <<asked, states, enrollments, flow, state>>
    BY <1>10 DEF Associate, Goto, tables
  <2>2. state[r].identity \in Identities \cup {None}
    BY <2>1, StateFields DEF Shape, Resolving
  <2> QED BY <2>1, <2>2, IdentifyBound
<1>11. ASSUME NEW r \in Requests, Update(r)
       PROVE  Bound'
  <2> DEFINE row == UpdatedEnrollment(enrollments[target[r]], object[r])
  <2>1. /\ pc[r] = "update"
        /\ enrollments' = [enrollments EXCEPT ![target[r]] = row]
        /\ UNCHANGED <<asked, states>>
        /\ Leave(r)
    BY <1>11 DEF Update
  <2>2. row = None \/ RowBound(row, asked)
    BY <2>1, ObjectBound DEF UpdatedEnrollment
  <2>3. target[r] \in EnrollmentIds
    BY <2>1 DEF Shape
  <2> HIDE DEF row
  <2>4. EnrollmentsBound'
    BY <2>1, <2>2, <2>3, EnrollmentWritten DEF Bound
  <2> QED BY <2>1, <2>4, LeaveBound DEF Bound, StatesBound
<1>12. ASSUME NEW r \in Requests, NEW e \in EnrollmentIds, pc[r] = "enroll",
              enrollments' = [enrollments EXCEPT ![e] = object[r]],
              UNCHANGED <<asked, states>>,
              \/ Leave(r)
              \/ Goto(r, "account") /\ state[r].identity = None /\ UNCHANGED locals
       PROVE  Bound'
  <2>1. StatesBound' /\ EnrollmentsBound'
    BY <1>12, ObjectBound, EnrollmentWritten DEF Bound, StatesBound
  <2>2. CASE Leave(r)
    BY <1>12, <2>1, <2>2, LeaveBound
  <2>3. CASE Goto(r, "account") /\ state[r].identity = None /\ UNCHANGED locals
    <3>1. /\ pc'[r] = "account"
          /\ \A q \in Requests : q # r => pc'[q] = pc[q]
          /\ UNCHANGED <<flow, state, object>>
      BY <2>3 DEF Goto, locals, Shape, TypeOK
    <3>2. CallsBound'
      BY <1>12, <2>3, <3>1 DEF Bound, CallsBound, CallBound, Resolving
    <3> QED BY <1>12, <2>1, <3>2 DEF Bound, AskedBound
  <2> QED BY <1>12, <2>2, <2>3
<1>13. ASSUME NEW r \in Requests, InsertEnrollment(r)
       PROVE  Bound'
  BY <1>12, <1>13 DEF InsertEnrollment
<1>14. ASSUME NEW r \in Requests, RaiseAfter(r)
       PROVE  Bound'
  BY <1>7, <1>12, <1>14 DEF RaiseAfter
<1>15. ASSUME NEW r \in Requests, Leave(r), UNCHANGED <<asked, tables>>
       PROVE  Bound'
  BY <1>15, LeaveBound DEF Bound, StatesBound, EnrollmentsBound, tables
<1>16. ASSUME NEW r \in Requests, StateRefused(r) \/ NoCode(r) \/ Abandon(r)
       PROVE  Bound'
  BY <1>15, <1>16 DEF StateRefused, NoCode, Abandon
<1>17. ASSUME NEW r \in Requests, ExchangeRefused(r) \/ ExchangeLost(r) \/ FindMismatch(r)
       PROVE  Bound'
  BY <1>15, <1>17 DEF ExchangeRefused, ExchangeLost, FindMismatch
<1>18. ASSUME NEW t \in Flows, NEW account \in Accounts, Authorize(t, account)
       PROVE  Bound'
  BY <1>1, <1>18 DEF Authorize, tables, locals
<1>19. ASSUME NEW e \in EnrollmentIds, Unlink(e)
       PROVE  Bound'
  <2>1. EnrollmentsBound'
    BY <1>19, EnrollmentWritten DEF Unlink, Bound
  <2> QED BY <1>19, <2>1
          DEF Unlink, locals, Bound, AskedBound, StatesBound, CallsBound
<1>20. ASSUME NEW t \in Flows, Purge(t)
       PROVE  Bound'
  <2>1. StatesBound'
    BY <1>20, StateWritten DEF Purge, Bound
  <2> QED BY <1>20, <2>1
          DEF Purge, locals, Bound, AskedBound, EnrollmentsBound, CallsBound
<1>21. CASE Tick
  BY <1>1, <1>21 DEF Tick, tables, locals
<1>22. ASSUME NEW r \in Requests, Step(r)
       PROVE  Bound'
  BY <1>4, <1>5, <1>6, <1>8, <1>9, <1>10, <1>11, <1>13, <1>16, <1>17, <1>22, ExchangeBound
     DEF Step
<1> QED BY <1>2, <1>3, <1>14, <1>16, <1>18, <1>19, <1>20, <1>21, <1>22 DEF Next

-----------------------------------------------------------------------------
(* A state is not consumed late *)

(* Consumed states are not in the table, and nobody will insert them any   *)
(* more; a call that began late finds nothing.                             *)
Once ==
  /\ \A t \in Flows : consumed[t] > 0 => t \in urls /\ states[t] = None
  /\ \A r \in Requests :
       /\ pc[r] = "insert" => flow[r] \notin urls
       /\ pc[r] \notin {"idle", "insert"} => flow[r] \in urls
       /\ late[r] => pc[r] \in {"lookup", "loaded"} /\ consumed[flow[r]] > 0
       /\ late[r] /\ pc[r] = "loaded" => state[r] = None
  /\ \A q, r \in Requests :
       pc[q] = "insert" /\ pc[r] = "insert" /\ flow[q] = flow[r] => q = r

LEMMA InitOnce == Init => Once
BY DEF Init, Once

LEMMA NextOnce ==
  ASSUME Shape, Once, [Next]_vars
  PROVE  Once'
<1> USE DEF Once, Goto
<1>0. /\ TypeOK
      /\ \A r \in Requests : pc[r] # "idle" => flow[r] \in Flows /\ asked[flow[r]] # None
      /\ \A t \in urls : asked[t] # None
      /\ \A t \in Flows : ~(consumed[t] > 0) => consumed[t] = 0
  BY DEF Shape, TypeOK
<1>1. CASE UNCHANGED vars
  BY <1>0, <1>1 DEF vars, provider, tables, locals, TypeOK
<1>2. ASSUME NEW r \in Requests, NEW t \in Flows, NEW identity \in Identities \cup {None}, NEW pkce \in Pkce,
            CallStart(r, t, identity, pkce)
      PROVE  Once'
  BY <1>0, <1>2 DEF CallStart, NewState, provider, tables, locals, TypeOK
<1>3. ASSUME NEW r \in Requests, NEW t \in urls, NEW c \in codes \cup {None}, CallCallback(r, t, c)
      PROVE  Once'
  BY <1>0, <1>3 DEF CallCallback, provider, tables, locals, TypeOK
<1>4. ASSUME NEW r \in Requests, NEW identity \in Identities, CallEnroll(r, identity)
      PROVE  Once'
  BY <1>0, <1>4 DEF CallEnroll, provider, tables, locals, TypeOK
<1>5. ASSUME NEW r \in Requests, Insert(r)
      PROVE  Once'
  BY <1>0, <1>5 DEF Insert, Leave, provider, tables, locals, TypeOK
<1>6. ASSUME NEW r \in Requests, Lookup(r)
      PROVE  Once'
  BY <1>0, <1>6 DEF Lookup, provider, tables, locals, TypeOK
<1>7. ASSUME NEW r \in Requests, StateAccepted(r)
      PROVE  Once'
  BY <1>0, <1>7 DEF StateAccepted, Valid, provider, tables, locals, TypeOK
<1>8. ASSUME NEW r \in Requests, Delete(r)
      PROVE  Once'
  BY <1>0, <1>8 DEF Delete, provider, tables, locals, TypeOK
<1>9. ASSUME NEW r \in Requests, Exchange(r)
      PROVE  Once'
  BY <1>0, <1>9 DEF Exchange, Redeemable, provider, tables, locals, TypeOK
<1>10. ASSUME NEW r \in Requests, FindMatch(r)
      PROVE  Once'
  BY <1>0, <1>10 DEF FindMatch, EnrolledAs, provider, tables, locals, TypeOK
<1>11. ASSUME NEW r \in Requests, Associate(r)
      PROVE  Once'
  BY <1>0, <1>11 DEF Associate, provider, tables, locals, TypeOK
<1>12. ASSUME NEW r \in Requests, Signup(r)
      PROVE  Once'
  BY <1>0, <1>12 DEF Signup, provider, tables, locals, TypeOK
<1>13. ASSUME NEW r \in Requests, Update(r)
      PROVE  Once'
  BY <1>0, <1>13 DEF Update, UpdatedEnrollment, Leave, provider, tables, locals, TypeOK
<1>14. ASSUME NEW r \in Requests, InsertEnrollment(r)
      PROVE  Once'
  BY <1>0, <1>14 DEF InsertEnrollment, Leave, provider, tables, locals, TypeOK
<1>15. ASSUME NEW r \in Requests, RaiseAfter(r)
      PROVE  Once'
  BY <1>0, <1>15 DEF RaiseAfter, Leave, provider, tables, locals, TypeOK
<1>16. ASSUME NEW r \in Requests,
            StateRefused(r) \/ NoCode(r) \/ ExchangeRefused(r) \/ FindMismatch(r) \/ Abandon(r)
      PROVE  Once'
  <2>1. Leave(r) /\ UNCHANGED <<provider, tables, consumed>>
    BY <1>16 DEF StateRefused, NoCode, ExchangeRefused, FindMismatch, Abandon
  <2> QED BY <1>0, <2>1 DEF Leave, provider, tables, TypeOK
<1>17. ASSUME NEW r \in Requests, ExchangeLost(r)
      PROVE  Once'
  BY <1>0, <1>17 DEF ExchangeLost, Redeemable, Leave, tables, TypeOK
<1>18. ASSUME NEW t \in Flows, NEW account \in Accounts, Authorize(t, account)
      PROVE  Once'
  BY <1>0, <1>18 DEF Authorize, tables, locals, Code, TypeOK
<1>19. ASSUME NEW e \in EnrollmentIds, Unlink(e)
      PROVE  Once'
  BY <1>0, <1>19 DEF Unlink, provider, locals, TypeOK
<1>20. ASSUME NEW t \in Flows, Purge(t)
      PROVE  Once'
  BY <1>0, <1>20 DEF Purge, provider, locals, TypeOK
<1>21. CASE Tick
  BY <1>0, <1>21 DEF Tick, provider, tables, locals, TypeOK
<1> QED BY <1>1, <1>2, <1>3, <1>4, <1>5, <1>6, <1>7, <1>8, <1>9, <1>10, <1>11,
           <1>12, <1>13, <1>14, <1>15, <1>16, <1>17, <1>18, <1>19, <1>20, <1>21
       DEF Next, Call, Step

-----------------------------------------------------------------------------
(* Enrollments stay *)

(* Ids are handed out once; the enrollment a call is about to overwrite is *)
(* the one it found, or none.                                              *)
Same(row, new) == row.identity = new.identity /\ row.account = new.account

Kept ==
  /\ \A e \in EnrollmentIds : enrollments[e] # None => e \in usedIds
  /\ \A r \in Requests :
       pc[r] = "update" =>
         /\ target[r] \in usedIds
         /\ enrollments[target[r]] # None => Same(enrollments[target[r]], object[r])

LEMMA InitKept == Init => Kept
BY DEF Init, Kept

LEMMA NextKept ==
  ASSUME Shape, Kept, [Next]_vars
  PROVE  Kept'
<1> USE DEF Kept, Goto
<1>0. /\ TypeOK
      /\ \A r \in Requests : /\ pc[r] = "update" => target[r] \in EnrollmentIds
                             /\ pc[r] = "find" => object[r] \in Enrollment
  BY DEF Shape, Resolving
<1>1. CASE UNCHANGED vars
  BY <1>0, <1>1 DEF vars, provider, tables, locals, TypeOK
<1>2. ASSUME NEW r \in Requests, NEW t \in Flows, NEW identity \in Identities \cup {None}, NEW pkce \in Pkce,
            CallStart(r, t, identity, pkce)
      PROVE  Kept'
  BY <1>0, <1>2 DEF CallStart, NewState, provider, tables, locals, TypeOK
<1>3. ASSUME NEW r \in Requests, NEW t \in urls, NEW c \in codes \cup {None}, CallCallback(r, t, c)
      PROVE  Kept'
  BY <1>0, <1>3 DEF CallCallback, provider, tables, locals, TypeOK
<1>4. ASSUME NEW r \in Requests, NEW identity \in Identities, CallEnroll(r, identity)
      PROVE  Kept'
  BY <1>0, <1>4 DEF CallEnroll, provider, tables, locals, TypeOK
<1>5. ASSUME NEW r \in Requests, Insert(r)
      PROVE  Kept'
  BY <1>0, <1>5 DEF Insert, Leave, provider, tables, locals, TypeOK
<1>6. ASSUME NEW r \in Requests, Lookup(r)
      PROVE  Kept'
  BY <1>0, <1>6 DEF Lookup, provider, tables, locals, TypeOK
<1>7. ASSUME NEW r \in Requests, StateAccepted(r)
      PROVE  Kept'
  BY <1>0, <1>7 DEF StateAccepted, Valid, provider, tables, locals, TypeOK
<1>8. ASSUME NEW r \in Requests, Delete(r)
      PROVE  Kept'
  BY <1>0, <1>8 DEF Delete, provider, tables, locals, TypeOK
<1>9. ASSUME NEW r \in Requests, Exchange(r)
      PROVE  Kept'
  BY <1>0, <1>9 DEF Exchange, Redeemable, provider, tables, locals, TypeOK
<1>10. ASSUME NEW r \in Requests, FindMatch(r)
      PROVE  Kept'
  <2>1. PICK e \in EnrolledAs(object[r].account) :
          /\ target' = [target EXCEPT ![r] = e]
          /\ object' = [object EXCEPT ![r] = [object[r] EXCEPT !.identity = enrollments[e].identity]]
    BY <1>10 DEF FindMatch
  <2> DEFINE new == [object[r] EXCEPT !.identity = enrollments[e].identity]
  <2>2. /\ e \in EnrollmentIds
        /\ enrollments[e] \in Enrollment
        /\ enrollments[e].account = object[r].account
        /\ e \in usedIds
        /\ object[r] \in Enrollment
    BY <1>0, <1>10 DEF EnrolledAs, FindMatch, TypeOK
  <2>3. Same(enrollments[e], new)
    BY <2>2, EnrollmentFields, WithIdentity DEF Same
  <2>4. /\ object' = [object EXCEPT ![r] = new]
        /\ pc' = [pc EXCEPT ![r] = "update"]
        /\ UNCHANGED <<enrollments, usedIds>>
    BY <1>10, <2>1 DEF FindMatch, tables
  <2> HIDE DEF new
  <2> QED BY <1>0, <2>1, <2>2, <2>3, <2>4 DEF TypeOK
<1>11. ASSUME NEW r \in Requests, Associate(r)
      PROVE  Kept'
  BY <1>0, <1>11 DEF Associate, provider, tables, locals, TypeOK
<1>12. ASSUME NEW r \in Requests, Signup(r)
      PROVE  Kept'
  BY <1>0, <1>12 DEF Signup, provider, tables, locals, TypeOK
<1>13. ASSUME NEW r \in Requests, Update(r)
      PROVE  Kept'
  <2>1. /\ pc[r] = "update"
        /\ enrollments' = [enrollments EXCEPT ![target[r]] =
                              UpdatedEnrollment(enrollments[target[r]], object[r])]
        /\ UNCHANGED usedIds
        /\ Leave(r)
    BY <1>13 DEF Update
  <2>2. IF enrollments[target[r]] = None
        THEN UpdatedEnrollment(enrollments[target[r]], object[r]) = None
        ELSE UpdatedEnrollment(enrollments[target[r]], object[r]) = object[r]
    BY DEF UpdatedEnrollment
  <2>3. ASSUME NEW q \in Requests, pc'[q] = "update"
        PROVE  /\ target'[q] \in usedIds'
               /\ enrollments'[target'[q]] # None =>
                    Same(enrollments'[target'[q]], object'[q])
    <3>1. q # r /\ pc[q] = "update" /\ target'[q] = target[q] /\ object'[q] = object[q]
      BY <1>0, <2>1, <2>3 DEF Leave, TypeOK
    <3>2. CASE target[q] = target[r]
      BY <1>0, <2>1, <2>2, <3>1, <3>2 DEF Same, TypeOK
    <3>3. CASE target[q] # target[r]
      BY <1>0, <2>1, <3>1, <3>3 DEF TypeOK
    <3> QED BY <3>2, <3>3
  <2> QED BY <1>0, <2>1, <2>2, <2>3 DEF TypeOK
<1>14. ASSUME NEW r \in Requests, InsertEnrollment(r)
      PROVE  Kept'
  BY <1>0, <1>14 DEF InsertEnrollment, Leave, provider, tables, locals, TypeOK
<1>15. ASSUME NEW r \in Requests, RaiseAfter(r)
      PROVE  Kept'
  BY <1>0, <1>15 DEF RaiseAfter, Leave, provider, tables, locals, TypeOK
<1>16. ASSUME NEW r \in Requests,
            StateRefused(r) \/ NoCode(r) \/ ExchangeRefused(r) \/ FindMismatch(r) \/ Abandon(r)
      PROVE  Kept'
  <2>1. Leave(r) /\ UNCHANGED tables
    BY <1>16 DEF StateRefused, NoCode, ExchangeRefused, FindMismatch, Abandon
  <2> QED BY <1>0, <2>1 DEF Leave, tables, TypeOK
<1>17. ASSUME NEW r \in Requests, ExchangeLost(r)
      PROVE  Kept'
  BY <1>0, <1>17 DEF ExchangeLost, Redeemable, Leave, tables, TypeOK
<1>18. ASSUME NEW t \in Flows, NEW account \in Accounts, Authorize(t, account)
      PROVE  Kept'
  BY <1>0, <1>18 DEF Authorize, tables, locals, Code, TypeOK
<1>19. ASSUME NEW e \in EnrollmentIds, Unlink(e)
      PROVE  Kept'
  BY <1>0, <1>19 DEF Unlink, provider, locals, TypeOK
<1>20. ASSUME NEW t \in Flows, Purge(t)
      PROVE  Kept'
  BY <1>0, <1>20 DEF Purge, provider, locals, TypeOK
<1>21. CASE Tick
  BY <1>0, <1>21 DEF Tick, provider, tables, locals, TypeOK
<1> QED BY <1>1, <1>2, <1>3, <1>4, <1>5, <1>6, <1>7, <1>8, <1>9, <1>10, <1>11,
           <1>12, <1>13, <1>14, <1>15, <1>16, <1>17, <1>18, <1>19, <1>20, <1>21
       DEF Next, Call, Step

-----------------------------------------------------------------------------
(* Theorems *)

IInv == Shape /\ Bound /\ Once /\ Kept

LEMMA InitIInv == Init => IInv
BY InitShape, InitBound, InitOnce, InitKept DEF IInv

LEMMA NextIInv == IInv /\ [Next]_vars => IInv'
BY NextShape, NextBound, NextOnce, NextKept DEF IInv

(* The inductive invariant: what belongs to which flow, what was consumed, *)
(* and which enrollment a call is about to write.                          *)
THEOREM Inductive == Spec => []IInv
BY InitIInv, NextIInv, PTL DEF Spec

(* Rows and calls keep their shapes.                                       *)
THEOREM TypesHold == Spec => []TypeOK
<1>1. IInv => TypeOK
  BY DEF IInv, Shape
<1> QED BY <1>1, Inductive, PTL

(* A callback that begins after its state was consumed is refused.         *)
THEOREM NoLateConsumeHolds == Spec => []NoLateConsume
<1>1. IInv => NoLateConsume
  BY DEF IInv, Once, NoLateConsume
<1> QED BY <1>1, Inductive, PTL

(* What is approved in a flow with PKCE is enrolled for its identity only. *)
THEOREM LinkedToRequesterHolds == Spec => []LinkedToRequester
<1>1. IInv => LinkedToRequester
  BY DEF IInv, Bound, EnrollmentsBound, RowBound, Linked, WithPkce, LinkedToRequester
<1> QED BY <1>1, Inductive, PTL

(* With PKCE, scope and tokens are of one flow.                            *)
THEOREM ScopeOfTokensHolds == Spec => []ScopeOfTokens
<1>1. IInv => ScopeOfTokens
  BY DEF IInv, Bound, EnrollmentsBound, RowBound, OneFlow, WithPkce, ScopeOfTokens
<1> QED BY <1>1, Inductive, PTL

(* What is enrolled changes at an id that was used only by an update, or   *)
(* because it is removed.                                                  *)
LEMMA OnlyUpdateChanges ==
  ASSUME TypeOK, [Next]_vars, NEW e \in usedIds,
         enrollments'[e] # None, enrollments'[e] # enrollments[e]
  PROVE  \E r \in Requests : Update(r)
<1>0. e \in EnrollmentIds /\ enrollments \in [EnrollmentIds -> Enrollment \cup {None}]
  BY DEF TypeOK
<1>1. enrollments' # enrollments
  OBVIOUS
<1>2. \A r \in Requests, x \in EnrollmentIds \ usedIds :
        enrollments' # [enrollments EXCEPT ![x] = object[r]]
  BY <1>0
<1>3. \A x \in EnrollmentIds : enrollments' # [enrollments EXCEPT ![x] = None]
  BY <1>0
<1>4. \A r \in Requests : ~Call(r)
  BY <1>1 DEF Call, CallStart, CallCallback, CallEnroll, tables
<1>5. \A r \in Requests : ~Insert(r) /\ ~InsertEnrollment(r)
  BY <1>1, <1>2 DEF Insert, InsertEnrollment
<1>6. \A r \in Requests : ~Lookup(r) /\ ~StateRefused(r) /\ ~StateAccepted(r) /\ ~Delete(r)
  BY <1>1 DEF Lookup, StateRefused, StateAccepted, Delete, tables
<1>7. \A r \in Requests : ~NoCode(r) /\ ~Exchange(r) /\ ~ExchangeRefused(r) /\ ~ExchangeLost(r)
  BY <1>1 DEF NoCode, Exchange, ExchangeRefused, ExchangeLost, tables
<1>8. \A r \in Requests : ~FindMatch(r) /\ ~FindMismatch(r) /\ ~Associate(r) /\ ~Signup(r)
  BY <1>1 DEF FindMatch, FindMismatch, Associate, Signup, tables
<1>9. \A r \in Requests : ~RaiseAfter(r) /\ ~Abandon(r)
  BY <1>1, <1>2 DEF RaiseAfter, Abandon, tables
<1>10. \A t \in Flows : ~Purge(t) /\ \A account \in Accounts : ~Authorize(t, account)
  BY <1>1 DEF Purge, Authorize, tables
<1>11. ~Tick /\ \A x \in EnrollmentIds : ~Unlink(x)
  BY <1>1, <1>3 DEF Tick, Unlink, tables
<1>12. Next
  BY <1>1 DEF vars, tables
<1>13. PICK r \in Requests : Step(r)
  BY <1>4, <1>9, <1>10, <1>11, <1>12 DEF Next
<1> QED BY <1>5, <1>6, <1>7, <1>8, <1>13 DEF Step

(* No step restores an enrollment or gives it another identity or account. *)
THEOREM EnrollmentKeptHolds == Spec => EnrollmentKept
<1>1. ASSUME IInv, [Next]_vars, NEW e \in usedIds, enrollments'[e] # None
      PROVE  /\ enrollments[e] # None
             /\ enrollments'[e].identity = enrollments[e].identity
             /\ enrollments'[e].account = enrollments[e].account
  <2>0. TypeOK /\ Kept /\ e \in EnrollmentIds
    BY <1>1 DEF IInv, Shape, TypeOK
  <2>1. CASE enrollments'[e] = enrollments[e]
    BY <1>1, <2>1
  <2>2. ASSUME NEW r \in Requests, Update(r), enrollments'[e] # enrollments[e]
        PROVE  enrollments[e] # None /\ Same(enrollments[e], enrollments'[e])
    <3>1. /\ pc[r] = "update"
          /\ target[r] = e
          /\ enrollments'[e] = UpdatedEnrollment(enrollments[e], object[r])
      BY <2>0, <2>2 DEF Update, TypeOK
    <3>2. enrollments[e] # None /\ enrollments'[e] = object[r]
      BY <1>1, <3>1 DEF UpdatedEnrollment
    <3> QED BY <2>0, <3>1, <3>2 DEF Kept
  <2>3. ASSUME enrollments'[e] # enrollments[e]
        PROVE  \E r \in Requests : Update(r)
    BY <1>1, <2>0, <2>3, OnlyUpdateChanges
  <2> QED BY <2>1, <2>2, <2>3 DEF Same
<1>2. IInv /\ [Next]_vars =>
        [\A e \in usedIds :
           enrollments'[e] # None =>
             /\ enrollments[e] # None
             /\ enrollments'[e].identity = enrollments[e].identity
             /\ enrollments'[e].account = enrollments[e].account]_vars
  BY <1>1
<1> QED BY <1>2, Inductive, PTL DEF Spec, EnrollmentKept

=============================================================================
