------------------------- MODULE AuthenticationSession -------------------------
(***************************************************************************)
(* The authentication session service (reauth/authentication_session.py):  *)
(* the pre-login state that several factors advance, in turn, until no     *)
(* factor is left to ask for and the session is completed.                 *)
(*                                                                         *)
(* A request gets hold of a copy of the session (start or validate), and   *)
(* calls the other methods with it.  Nothing locks the row meanwhile:      *)
(* advance writes the whole copy back, and complete decides on the copy.   *)
(* get_available_factors awaits one enrollment after the other, so         *)
(* factors can be enrolled, and other requests can act, between its reads. *)
(***************************************************************************)
EXTENDS Naturals, Sequences

CONSTANTS Sessions,    \* ids the store can hand out
          Requests,    \* requests that may be in flight together
          Identities,
          Factors,     \* the service's factors
          Amrs,        \* authentication method references
          Amr,         \* Factor.AMR
          StepOf,      \* factor.step
          AdvanceBy,   \* factor.advance_by
          Enrollments, \* <<identity, factor>> there can be an enrollment for
          Lifetime,    \* lifetime, in seconds
          MaxTime,     \* bound on the clock
          TakeTurns,   \* whether the application lets one request at a time
                       \* work on a session: the service does not see to it
          None         \* Python's None, and "no row"

(* A used factor, with the identity it was completed for: the properties   *)
(* need to know, the code only stores the factor's identifier.             *)
Use == [factor : Factors, identity : Identities]

(* AuthenticationSession, its id and token aside. *)
Row == [identity   : Identities \cup {None},
        step       : Nat,
        amr        : Seq(Amrs),
        used       : Seq(Use),
        expires_at : Nat]

ASSUME FactorsAssumption ==
  /\ Amr \in [Factors -> Amrs]
  /\ StepOf \in [Factors -> Nat]
  /\ AdvanceBy \in [Factors -> Nat \ {0}]

ASSUME OtherAssumption ==
  /\ Enrollments \subseteq Identities \X Factors
  /\ Lifetime \in Nat
  /\ MaxTime \in Nat
  /\ TakeTurns \in BOOLEAN
  /\ None \notin Identities
  /\ None \notin Sessions
  /\ None \notin Row

VARIABLES now,        \* get_current_timestamp()
          issued,     \* ids the store has handed out: they are not reused
          store,      \* the authentication_sessions table
          enrolled,   \* <<identity, factor>>: get_enrollment is not None
          pc,         \* where each request is, "idle" when it has no session
          holds,      \* the id of the session each request works on
          copy,       \* the object it holds: authentication_session
          arg,        \* the method it is in, and the method's arguments
          todo,       \* factors get_available_factors has still to look up
          found,      \* its set "available"
          steady,     \* factors enrolled ever since that scan began
          ever,       \* history: what was enrolled at some time
          completions \* how many times each session was completed

vars == <<now, issued, store, enrolled, pc, holds, copy, arg, todo, found,
          steady, ever, completions>>

-----------------------------------------------------------------------------
(* Sessions *)

(* Fault: the lifetime is forgotten. *)
FreshForever ==
  [identity |-> None, step |-> 0, amr |-> <<>>, used |-> <<>>, expires_at |-> None]

Fresh ==
  [identity   |-> None,
   step       |-> 0,
   amr        |-> <<>>,
   used       |-> <<>>,
   expires_at |-> now + Lifetime]

Elements(seq) == {seq[i] : i \in DOMAIN seq}

(* The factors get_available_factors does not skip before it awaits: not   *)
(* of a kind already used, and at the session's step.                      *)
Candidates(row) ==
  {f \in Factors : Amr[f] \notin Elements(row.amr) /\ StepOf[f] = row.step}

(* Fault: the session moves one step, whatever the factor's advance_by. *)
AdvancedOneStep(row, identity, f) ==
  [row EXCEPT !.identity = identity,
              !.step = @ + 1,
              !.amr = Append(@, Amr[f]),
              !.used = Append(@, [factor |-> f, identity |-> identity])]

(* Fault: only the last factor is remembered. *)
AdvancedAfresh(row, identity, f) ==
  [row EXCEPT !.identity = identity,
              !.step = @ + AdvanceBy[f],
              !.amr = <<Amr[f]>>,
              !.used = <<[factor |-> f, identity |-> identity]>>]

(* advance, once the factor is known to be available. *)
Advanced(row, identity, f) ==
  [row EXCEPT !.identity = identity,
              !.step = @ + AdvanceBy[f],
              !.amr = Append(@, Amr[f]),
              !.used = Append(@, [factor |-> f, identity |-> identity])]

(* Fault: a missing row is inserted. *)
UpsertedRow(row, object) == object

(* update overwrites every column of the row, if there is one. *)
UpdatedRow(row, object) == IF row = None THEN None ELSE object

-----------------------------------------------------------------------------
(* Requests *)

NoArg == [op |-> "none", factor |-> None, identity |-> None]

Init ==
  /\ now = 0
  /\ issued = {}
  /\ store = [s \in Sessions |-> None]
  /\ enrolled \in SUBSET Enrollments
  /\ pc = [r \in Requests |-> "idle"]
  /\ holds = [r \in Requests |-> None]
  /\ copy = [r \in Requests |-> None]
  /\ arg = [r \in Requests |-> NoArg]
  /\ todo = [r \in Requests |-> {}]
  /\ found = [r \in Requests |-> {}]
  /\ steady = [r \in Requests |-> {}]
  /\ ever = enrolled
  /\ completions = [s \in Sessions |-> 0]

Goto(r, label) == pc' = [pc EXCEPT ![r] = label]

Environment == <<now, issued, enrolled, ever>>

(* The scan of get_available_factors is over, or there was none. *)
ScanOver(r) ==
  /\ todo' = [todo EXCEPT ![r] = {}]
  /\ found' = [found EXCEPT ![r] = {}]
  /\ steady' = [steady EXCEPT ![r] = {}]

(* The method returns or raises; the request still has its object. *)
Return(r) ==
  /\ Goto(r, "ready")
  /\ arg' = [arg EXCEPT ![r] = NoArg]
  /\ ScanOver(r)

(* The request is over, or the method gave it no object to go on with. *)
Leave(r) ==
  /\ Goto(r, "idle")
  /\ holds' = [holds EXCEPT ![r] = None]
  /\ copy' = [copy EXCEPT ![r] = None]
  /\ arg' = [arg EXCEPT ![r] = NoArg]
  /\ ScanOver(r)

-----------------------------------------------------------------------------
(* start and validate *)

CallStart(r) ==
  /\ pc[r] = "idle"
  /\ copy' = [copy EXCEPT ![r] = Fresh]
  /\ Goto(r, "insert")
  /\ UNCHANGED <<Environment, store, holds, arg, todo, found, steady, completions>>

Insert(r) ==
  /\ pc[r] = "insert"
  /\ \E s \in Sessions \ issued :
       /\ issued' = issued \cup {s}
       /\ store' = [store EXCEPT ![s] = copy[r]]
       /\ holds' = [holds EXCEPT ![r] = s]
  /\ Goto(r, "ready")
  /\ UNCHANGED <<now, enrolled, ever, copy, arg, todo, found, steady, completions>>

Free(s) == TakeTurns => \A q \in Requests : holds[q] # s

CallValidate(r, s) ==
  /\ pc[r] = "idle"
  /\ Free(s)
  /\ holds' = [holds EXCEPT ![r] = s]
  /\ Goto(r, "lookup")
  /\ UNCHANGED <<Environment, store, copy, arg, todo, found, steady, completions>>

Lookup(r) ==
  /\ pc[r] = "lookup"
  /\ copy' = [copy EXCEPT ![r] = store[holds[r]]]
  /\ Goto(r, "loaded")
  /\ UNCHANGED <<Environment, store, holds, arg, todo, found, steady, completions>>

Usable(row) == row # None /\ now < row.expires_at

Validated(r) ==
  /\ pc[r] = "loaded"
  /\ \/ /\ Usable(copy[r])
        /\ Goto(r, "ready")
        /\ UNCHANGED <<holds, copy, arg, todo, found, steady>>
     \/ ~Usable(copy[r]) /\ Leave(r)
  /\ UNCHANGED <<Environment, store, completions>>

-----------------------------------------------------------------------------
(* get_available_factors, which advance and complete begin with *)

EnrolledFactors(identity) == {f \in Factors : <<identity, f>> \in enrolled}

(* With no identity nothing is awaited: every candidate is available. *)
BeginScan(r, op, factor, identity) ==
  LET row == copy[r]
      attached == row.identity # None
  IN  /\ pc[r] = "ready"
      /\ arg' = [arg EXCEPT ![r] = [op |-> op, factor |-> factor, identity |-> identity]]
      /\ todo' = [todo EXCEPT ![r] = IF attached THEN Candidates(row) ELSE {}]
      /\ found' = [found EXCEPT ![r] = IF attached THEN {} ELSE Candidates(row)]
      /\ steady' = [steady EXCEPT ![r] =
                      IF attached THEN EnrolledFactors(row.identity) ELSE {}]
      /\ Goto(r, "scan")
      /\ UNCHANGED <<Environment, store, holds, copy, completions>>

CallFactors(r) == BeginScan(r, "factors", None, None)

(* The application passes the identity that completed the factor, whether  *)
(* or not it is the one attached to the session: advance does not compare. *)
CallAdvance(r, identity, factor) == BeginScan(r, "advance", factor, identity)

(* complete raises at once, and changes nothing, if no identity is attached. *)
CallComplete(r) ==
  /\ copy[r] # None
  /\ copy[r].identity # None
  /\ BeginScan(r, "complete", None, None)

(* Fault: the first factor that is not enrolled ends the loop. *)
ScanUntilMissing(r) ==
  /\ pc[r] = "scan"
  /\ \E f \in todo[r] :
       IF <<copy[r].identity, f>> \in enrolled
       THEN /\ todo' = [todo EXCEPT ![r] = @ \ {f}]
            /\ found' = [found EXCEPT ![r] = @ \cup {f}]
       ELSE /\ todo' = [todo EXCEPT ![r] = {}]
            /\ UNCHANGED found
  /\ UNCHANGED <<Environment, store, pc, holds, copy, arg, steady, completions>>

(* Fault: the enrollment looked up is that of the identity passed. *)
ScanForPassed(r) ==
  LET identity == IF arg[r].op = "advance" THEN arg[r].identity ELSE copy[r].identity
  IN  /\ pc[r] = "scan"
      /\ \E f \in todo[r] :
           /\ todo' = [todo EXCEPT ![r] = @ \ {f}]
           /\ found' = [found EXCEPT ![r] =
                          IF <<identity, f>> \in enrolled THEN @ \cup {f} ELSE @]
      /\ UNCHANGED <<Environment, store, pc, holds, copy, arg, steady, completions>>

(* factors is a set: it is iterated in any order. *)
Scan(r) ==
  /\ pc[r] = "scan"
  /\ \E f \in todo[r] :
       /\ todo' = [todo EXCEPT ![r] = @ \ {f}]
       /\ found' = [found EXCEPT ![r] =
                      IF <<copy[r].identity, f>> \in enrolled THEN @ \cup {f} ELSE @]
  /\ UNCHANGED <<Environment, store, pc, holds, copy, arg, steady, completions>>

Scanned(r, op) == pc[r] = "scan" /\ todo[r] = {} /\ arg[r].op = op

FactorsReturned(r) ==
  /\ Scanned(r, "factors")
  /\ Return(r)
  /\ UNCHANGED <<Environment, store, holds, copy, completions>>

-----------------------------------------------------------------------------
(* advance *)

AdvanceRefused(r) ==
  /\ Scanned(r, "advance")
  /\ arg[r].factor \notin found[r]
  /\ Return(r)
  /\ UNCHANGED <<Environment, store, holds, copy, completions>>

(* The object changes before the row does. *)
AdvanceObject(r) ==
  /\ Scanned(r, "advance")
  /\ arg[r].factor \in found[r]
  /\ copy' = [copy EXCEPT ![r] = Advanced(copy[r], arg[r].identity, arg[r].factor)]
  /\ ScanOver(r)
  /\ Goto(r, "update")
  /\ UNCHANGED <<Environment, store, holds, arg, completions>>

Update(r) ==
  /\ pc[r] = "update"
  /\ store' = [store EXCEPT ![holds[r]] = UpdatedRow(@, copy[r])]
  /\ Return(r)
  /\ UNCHANGED <<Environment, holds, copy, completions>>

-----------------------------------------------------------------------------
(* complete *)

CompleteRefused(r) ==
  /\ Scanned(r, "complete")
  /\ found[r] # {}
  /\ Return(r)
  /\ UNCHANGED <<Environment, store, holds, copy, completions>>

CompleteDecided(r) ==
  /\ Scanned(r, "complete")
  /\ found[r] = {}
  /\ Goto(r, "delete")
  /\ UNCHANGED <<Environment, store, holds, copy, arg, todo, found, steady, completions>>

(* Fault: the row is left to expire. *)
CompleteKeepingRow(r) ==
  /\ pc[r] = "delete"
  /\ completions' = [completions EXCEPT ![holds[r]] = @ + 1]
  /\ Leave(r)
  /\ UNCHANGED <<Environment, store>>

(* complete returns the identity and amr of the copy; a request that has   *)
(* them is done with the session.                                          *)
Delete(r) ==
  /\ pc[r] = "delete"
  /\ store' = [store EXCEPT ![holds[r]] = None]
  /\ completions' = [completions EXCEPT ![holds[r]] = @ + 1]
  /\ Leave(r)
  /\ UNCHANGED Environment

-----------------------------------------------------------------------------
(* The environment *)

(* A store operation or a get_enrollment raises, with or without effect;   *)
(* the request keeps the object it has and may try again.                  *)
Raise(r) ==
  /\ \/ pc[r] \in {"update", "delete", "scan"} /\ UNCHANGED store
     \/ pc[r] = "update" /\ store' = [store EXCEPT ![holds[r]] = UpdatedRow(@, copy[r])]
     \/ pc[r] = "delete" /\ store' = [store EXCEPT ![holds[r]] = None]
  /\ Return(r)
  /\ UNCHANGED <<Environment, holds, copy, completions>>

(* The request ends, is cancelled or dies. *)
Abandon(r) ==
  /\ pc[r] # "idle"
  /\ Leave(r)
  /\ UNCHANGED <<Environment, store, completions>>

Enroll(identity, f) ==
  /\ <<identity, f>> \in Enrollments \ enrolled
  /\ enrolled' = enrolled \cup {<<identity, f>>}
  /\ ever' = ever \cup {<<identity, f>>}
  /\ UNCHANGED <<now, issued, store, pc, holds, copy, arg, todo, found, steady, completions>>

(* A scan under way for this identity can no longer count on the factor. *)
Unenroll(identity, f) ==
  /\ <<identity, f>> \in enrolled
  /\ enrolled' = enrolled \ {<<identity, f>>}
  /\ steady' = [r \in Requests |->
                  IF pc[r] = "scan" /\ copy[r].identity = identity
                  THEN steady[r] \ {f} ELSE steady[r]]
  /\ UNCHANGED <<now, issued, store, ever, pc, holds, copy, arg, todo, found, completions>>

Tick ==
  /\ now < MaxTime
  /\ now' = now + 1
  /\ UNCHANGED <<issued, store, enrolled, ever, pc, holds, copy, arg, todo, found, steady, completions>>

(* The application deletes an expired row. *)
Purge(s) ==
  /\ store[s] # None
  /\ now >= store[s].expires_at
  /\ store' = [store EXCEPT ![s] = None]
  /\ UNCHANGED <<Environment, pc, holds, copy, arg, todo, found, steady, completions>>

Step(r) ==
  \/ Insert(r)
  \/ Lookup(r)
  \/ Validated(r)
  \/ Scan(r)
  \/ FactorsReturned(r)
  \/ AdvanceRefused(r)
  \/ AdvanceObject(r)
  \/ Update(r)
  \/ CompleteRefused(r)
  \/ CompleteDecided(r)
  \/ Delete(r)

Call(r) ==
  \/ CallStart(r)
  \/ \E s \in issued : CallValidate(r, s)
  \/ CallFactors(r)
  \/ \E identity \in Identities, f \in Factors : CallAdvance(r, identity, f)
  \/ CallComplete(r)

Next ==
  \/ \E r \in Requests : Call(r) \/ Step(r) \/ Raise(r) \/ Abandon(r)
  \/ \E identity \in Identities, f \in Factors :
       Enroll(identity, f) \/ Unenroll(identity, f)
  \/ \E s \in Sessions : Purge(s)
  \/ Tick

Spec == Init /\ [][Next]_vars

-----------------------------------------------------------------------------
(* Properties *)

(* Stored sessions, and the objects requests hold, are well formed.        *)
TypeOK ==
  /\ now \in Nat
  /\ issued \subseteq Sessions
  /\ store \in [Sessions -> Row \cup {None}]
  /\ enrolled \subseteq ever
  /\ ever \subseteq Enrollments
  /\ pc \in [Requests -> {"idle", "insert", "lookup", "loaded", "ready", "scan",
                         "update", "delete"}]
  /\ holds \in [Requests -> Sessions \cup {None}]
  /\ copy \in [Requests -> Row \cup {None}]
  /\ arg \in [Requests -> [op       : {"none", "factors", "advance", "complete"},
                           factor   : Factors \cup {None},
                           identity : Identities \cup {None}]]
  /\ todo \in [Requests -> SUBSET Factors]
  /\ found \in [Requests -> SUBSET Factors]
  /\ steady \in [Requests -> SUBSET Factors]
  /\ completions \in [Sessions -> Nat]

(* The sessions anybody can see: rows, and the copies requests hold.       *)
Objects == (Elements(store) \cup Elements(copy)) \ {None}

(* The step a session is at after its first i factors. *)
Reached(used, i) ==
  IF i = 0 THEN 0 ELSE StepOf[used[i].factor] + AdvanceBy[used[i].factor]

LegalPath(row) ==
  /\ \A i \in 1..Len(row.used) : StepOf[row.used[i].factor] = Reached(row.used, i - 1)
  /\ row.step = Reached(row.used, Len(row.used))
  /\ DOMAIN row.amr = DOMAIN row.used
  /\ \A i \in DOMAIN row.used : row.amr[i] = Amr[row.used[i].factor]
  /\ \A i, j \in DOMAIN row.amr : row.amr[i] = row.amr[j] => i = j
  /\ row.identity = None <=> row.used = <<>>

(* Whatever updates are lost or arrive late, a session shows one legal     *)
(* login: each factor was used at the step the ones before it led to, no   *)
(* kind of factor counts twice, and step, amr and identity agree.          *)
PathIsLegal == \A row \in Objects : LegalPath(row)

(* However requests that pass different identities overwrite each other's  *)
(* row: a session is attached to the identity that its last factor was     *)
(* completed for, and every factor after the first was enrolled, at some   *)
(* time, for the identity attached when advance looked for it, which is    *)
(* the one the factor before was completed for.                            *)
Attached(row) ==
  row.used # <<>> => row.identity = row.used[Len(row.used)].identity

FactorsEnrolled ==
  \A row \in Objects :
    /\ Attached(row)
    /\ \A i \in 2..Len(row.used) :
         <<row.used[i - 1].identity, row.used[i].factor>> \in ever

(* A completion is never granted over a factor of the session's step, of a *)
(* kind not used yet, that the identity had enrolled all the while         *)
(* complete was looking.                                                   *)
CompletionJustified ==
  \A r \in Requests :
    pc[r] = "delete" => /\ copy[r].identity # None
                        /\ Candidates(copy[r]) \cap steady[r] = {}

(* A completed session is out of the store, and validate never finds it    *)
(* again, whichever updates were still under way.                          *)
CompletedIsGone == \A s \in Sessions : completions[s] > 0 => store[s] = None

(* No update, however late, brings a deleted session back or moves the     *)
(* time at which a session expires.                                        *)
LifeNotProlonged ==
  [][\A s \in issued :
       store'[s] # None => /\ store[s] # None
                           /\ store'[s].expires_at = store[s].expires_at]_vars

(* When requests take turns, a session is completed at most once: one      *)
(* login makes one identity session.                                       *)
CompletedOnce == TakeTurns => \A s \in Sessions : completions[s] <= 1

(* Phase, Path: how LoginProgress sees the table. *)
Phase == [s \in Sessions |-> IF store[s] # None THEN "open"
                             ELSE IF s \in issued THEN "over" ELSE "unused"]

Path == [s \in Sessions |-> IF store[s] = None THEN <<>> ELSE store[s].used]

Promised == INSTANCE LoginProgress WITH Orderly <- TakeTurns, phase <- Phase,
                                        path <- Path, answers <- completions

(* The service keeps the promise of LoginProgress: whatever updates fail,  *)
(* come late or are repeated, the table goes from one legal login to       *)
(* another, and a session that ended stays so; if requests take turns,     *)
(* logins only grow and complete answers once.                             *)
KeepsProgress == Promised!Progress

=============================================================================
