--------------------------- MODULE AuthenticatorOTP ---------------------------
(***************************************************************************)
(* The factors of an authenticator app, HOTP (reauth/factors/hotp.py) and  *)
(* TOTP (reauth/factors/totp.py).  Both make codes from a secret and a     *)
(* number, which is a counter for the one and a time step for the other;   *)
(* enroll, enable and verify are the same in both classes but for the      *)
(* window of numbers whose codes _verify accepts.                          *)
(*                                                                         *)
(* enable and verify read the enrollment, change the copy and write all of *)
(* it back; enroll reads, deletes and inserts.  Each of these is an await, *)
(* and nothing keeps the calls for one identity from overlapping.          *)
(***************************************************************************)
EXTENDS Integers

CONSTANTS Ids,          \* ids the stores can hand out; an id stands for its secret
          Requests,     \* calls that may be in flight together
          Identities,   \* identities, each with one of the two factors
          Hotp,         \* those whose factor is HOTP; the others' is TOTP
          Codes,
          CodeOf(_, _), \* the code of a secret and a number: codes may coincide
          LookAhead,    \* HOTPFactor.look_ahead
          Drift,        \* TOTPFactor.drift_tolerance
          MaxTime,      \* bound on the clock
          MaxNumber,    \* bound on the numbers that are accepted
          None          \* Python's None, and "no row"

(* HOTPEnrollment and TOTPEnrollment, id and secret aside.  "next" is the  *)
(* least number that may still be accepted: the counter, or the step after *)
(* last_verified_time_step, which is 0 as long as that is None.            *)
Row == [identity : Identities, enabled : BOOLEAN, next : Nat]

(* A call's arguments, where it is, and the enrollment it found.  "began"  *)
(* and "late" are history: the clock, and what was verified, at its start. *)
Call == [op       : {"enroll", "enable", "verify"},
         identity : Identities,
         code     : Codes \cup {None},
         began    : Nat,
         late     : [Ids -> SUBSET Nat],
         at       : {"find", "found", "delete", "insert", "update"},
         id       : Ids \cup {None},
         row      : Row \cup {None}]

ASSUME AuthenticatorAssumption ==
  /\ Hotp \subseteq Identities
  /\ LookAhead \in Nat
  /\ Drift \in Nat
  /\ MaxTime \in Nat
  /\ MaxNumber \in Nat
  /\ None \notin Ids
  /\ None \notin Codes
  /\ None \notin Row
  /\ None \notin Call

VARIABLES now,      \* int(time.time()) // time_step
          used,     \* ids handed out: they are not reused
          rows,     \* the enrollments
          calls,    \* the calls in flight
          loose,    \* identities for which two calls have ever overlapped
          proved,   \* numbers whose codes calls have presented, by secret
          verified, \* those for which calls have returned
          answers   \* how many calls were answered before the owner was loose

vars == <<now, used, rows, calls, loose, proved, verified, answers>>

Init ==
  /\ now = Drift
  /\ used = {}
  /\ rows = [e \in Ids |-> None]
  /\ calls = [r \in Requests |-> None]
  /\ loose = {}
  /\ proved = [e \in Ids |-> {}]
  /\ verified = [e \in Ids |-> {}]
  /\ answers = [e \in Ids |-> 0]

(* The call is in flight, at this await. *)
At(r, where) == calls[r] # None /\ calls[r].at = where

Goto(r, where) == calls' = [calls EXCEPT ![r].at = where]

(* The call returns, raises, is cancelled or dies. *)
End(r) == calls' = [calls EXCEPT ![r] = None]

RowsOf(identity) == {e \in Ids : rows[e] # None /\ rows[e].identity = identity}

-----------------------------------------------------------------------------
(* Calls *)

Begin(r, op, identity, code) ==
  /\ calls[r] = None
  /\ calls' = [calls EXCEPT ![r] = [op |-> op, identity |-> identity, code |-> code,
                                    began |-> now, late |-> verified,
                                    at |-> "find", id |-> None, row |-> None]]
  /\ loose' = loose \cup {calls[q].identity : q \in {q \in Requests :
                            calls[q] # None /\ calls[q].identity = identity}}
  /\ UNCHANGED <<now, used, rows, proved, verified, answers>>

CallEnroll(r, identity) == Begin(r, "enroll", identity, None)

CallEnable(r, identity, code) == Begin(r, "enable", identity, code)

CallVerify(r, identity, code) == Begin(r, "verify", identity, code)

(* get_by_identity_id: if there are several, the store returns any.        *)
Find(r) ==
  /\ At(r, "find")
  /\ \/ \E e \in RowsOf(calls[r].identity) :
          calls' = [calls EXCEPT ![r].at = "found", ![r].id = e, ![r].row = rows[e]]
     \/ RowsOf(calls[r].identity) = {} /\ Goto(r, "found")
  /\ UNCHANGED <<now, used, rows, loose, proved, verified, answers>>

Found(r, op) == At(r, "found") /\ calls[r].op = op

-----------------------------------------------------------------------------
(* enroll *)

EnrollRefused(r) ==
  /\ Found(r, "enroll")
  /\ calls[r].row # None
  /\ calls[r].row.enabled
  /\ End(r)
  /\ UNCHANGED <<now, used, rows, loose, proved, verified, answers>>

(* Fault: the disabled enrollment is left where it is. *)
EnrollAnyway(r) ==
  /\ Found(r, "enroll")
  /\ calls[r].row # None => ~calls[r].row.enabled
  /\ Goto(r, "insert")
  /\ UNCHANGED <<now, used, rows, loose, proved, verified, answers>>

EnrollAllowed(r) ==
  /\ Found(r, "enroll")
  /\ calls[r].row # None => ~calls[r].row.enabled
  /\ Goto(r, IF calls[r].row = None THEN "insert" ELSE "delete")
  /\ UNCHANGED <<now, used, rows, loose, proved, verified, answers>>

(* The enrollment found disabled is deleted, whatever it is by now. *)
Delete(r) ==
  /\ At(r, "delete")
  /\ rows' = [rows EXCEPT ![calls[r].id] = None]
  /\ Goto(r, "insert")
  /\ UNCHANGED <<now, used, loose, proved, verified, answers>>

(* Fault: the counter is left to the first verification. *)
InsertUnset(r) ==
  /\ At(r, "insert")
  /\ \E e \in Ids \ used :
       /\ rows' = [rows EXCEPT ![e] = [identity |-> calls[r].identity,
                                       enabled |-> FALSE, next |-> None]]
       /\ used' = used \cup {e}
  /\ End(r)
  /\ UNCHANGED <<now, loose, proved, verified, answers>>

Insert(r) ==
  /\ At(r, "insert")
  /\ \E e \in Ids \ used :
       /\ rows' = [rows EXCEPT ![e] = [identity |-> calls[r].identity,
                                       enabled |-> FALSE, next |-> 0]]
       /\ used' = used \cup {e}
  /\ End(r)
  /\ UNCHANGED <<now, loose, proved, verified, answers>>

-----------------------------------------------------------------------------
(* enable and verify *)

(* Fault: the counter that stops the loop is tried, too. *)
HotpWindowWide(row) == row.next .. row.next + LookAhead + 1

(* The counters the loop of HOTPFactor._verify can get to. *)
HotpWindow(row) == row.next .. row.next + LookAhead

(* Fault: the time step verified last is accepted again. *)
TotpWindowAgain(row) == {n \in now - Drift .. now + Drift : n + 1 >= row.next}

(* Fault: the drift is allowed for twice. *)
TotpWindowWide(row) == {n \in now - 2 * Drift .. now + 2 * Drift : n >= row.next}

(* The time steps the loop of TOTPFactor._verify does not skip. *)
TotpWindow(row) == {n \in now - Drift .. now + Drift : n >= row.next}

(* The numbers in the window with the code that is presented.  (A code of  *)
(* another length, or not of digits, is no number's.)                      *)
Matching(call) ==
  {n \in IF call.identity \in Hotp THEN HotpWindow(call.row) ELSE TotpWindow(call.row) :
     CodeOf(call.id, n) = call.code}

(* Not enrolled, already enabled, or no number of the window matches. *)
EnableRefused(r) ==
  /\ Found(r, "enable")
  /\ calls[r].row # None => calls[r].row.enabled \/ Matching(calls[r]) = {}
  /\ End(r)
  /\ UNCHANGED <<now, used, rows, loose, proved, verified, answers>>

(* Not enrolled, not enabled, or no number of the window matches. *)
VerifyRefused(r) ==
  /\ Found(r, "verify")
  /\ calls[r].row # None => ~calls[r].row.enabled \/ Matching(calls[r]) = {}
  /\ End(r)
  /\ UNCHANGED <<now, used, rows, loose, proved, verified, answers>>

(* Both loops go upwards and stop at the first number that matches.        *)
Accept(r) ==
  \E n \in Matching(calls[r]) :
    /\ \A m \in Matching(calls[r]) : n <= m
    /\ n <= MaxNumber
    /\ calls' = [calls EXCEPT ![r].at = "update",
                              ![r].row = [@ EXCEPT !.enabled = TRUE, !.next = n + 1]]
    /\ proved' = [proved EXCEPT ![calls[r].id] = @ \cup {n}]
    /\ UNCHANGED <<now, used, rows, loose, verified, answers>>

EnableAccepted(r) ==
  /\ Found(r, "enable")
  /\ calls[r].row # None
  /\ ~calls[r].row.enabled
  /\ Accept(r)

VerifyAccepted(r) ==
  /\ Found(r, "verify")
  /\ calls[r].row # None
  /\ calls[r].row.enabled
  /\ Accept(r)

(* Fault: the enrollments of the identity are written. *)
WriteAll(call) ==
  [e \in Ids |-> IF e \in RowsOf(call.identity) THEN call.row ELSE rows[e]]

(* update overwrites every column of the row, if there still is one.       *)
Write(call) ==
  [e \in Ids |-> IF e = call.id /\ rows[e] # None THEN call.row ELSE rows[e]]

Update(r) ==
  /\ At(r, "update")
  /\ rows' = Write(calls[r])
  /\ verified' = [verified EXCEPT ![calls[r].id] = @ \cup {calls[r].row.next - 1}]
  /\ answers' = [answers EXCEPT ![calls[r].id] =
                   IF calls[r].identity \in loose THEN @ ELSE @ + 1]
  /\ End(r)
  /\ UNCHANGED <<now, used, loose, proved>>

-----------------------------------------------------------------------------
(* The environment *)

(* A store operation takes effect, but the call raises. *)
RaiseAfter(r) ==
  /\ \/ /\ At(r, "delete")
        /\ rows' = [rows EXCEPT ![calls[r].id] = None]
     \/ /\ At(r, "update")
        /\ rows' = Write(calls[r])
  /\ End(r)
  /\ UNCHANGED <<now, used, loose, proved, verified, answers>>

(* The call raises before its next effect, is cancelled or dies. *)
Abandon(r) ==
  /\ calls[r] # None
  /\ End(r)
  /\ UNCHANGED <<now, used, rows, loose, proved, verified, answers>>

(* The application removes an enrollment. *)
Remove(e) ==
  /\ rows[e] # None
  /\ rows' = [rows EXCEPT ![e] = None]
  /\ UNCHANGED <<now, used, calls, loose, proved, verified, answers>>

Tick ==
  /\ now < MaxTime
  /\ now' = now + 1
  /\ UNCHANGED <<used, rows, calls, loose, proved, verified, answers>>

Start(r) ==
  \E identity \in Identities :
    \/ CallEnroll(r, identity)
    \/ \E code \in Codes : CallEnable(r, identity, code) \/ CallVerify(r, identity, code)

Step(r) ==
  \/ Find(r)
  \/ EnrollRefused(r)
  \/ EnrollAllowed(r)
  \/ Delete(r)
  \/ Insert(r)
  \/ EnableRefused(r)
  \/ VerifyRefused(r)
  \/ EnableAccepted(r)
  \/ VerifyAccepted(r)
  \/ Update(r)

Next ==
  \/ \E r \in Requests : Start(r) \/ Step(r) \/ RaiseAfter(r) \/ Abandon(r)
  \/ \E e \in Ids : Remove(e)
  \/ Tick

Spec == Init /\ [][Next]_vars

-----------------------------------------------------------------------------
(* Properties *)

(* Enrollments and calls are well formed.                                  *)
TypeOK ==
  /\ now \in Nat
  /\ used \subseteq Ids
  /\ rows \in [Ids -> Row \cup {None}]
  /\ calls \in [Requests -> Call \cup {None}]
  /\ loose \subseteq Identities
  /\ proved \in [Ids -> SUBSET Nat]
  /\ verified \in [Ids -> SUBSET Nat]
  /\ answers \in [Ids -> Nat]

(* However enrolls, enables and verifies of an identity overlap, what an   *)
(* enrollment says comes from codes of its own secret: it is enabled when  *)
(* one was presented, and goes on from the number of one that was.         *)
RowIsProved ==
  \A e \in Ids : rows[e] # None =>
    /\ rows[e].enabled <=> rows[e].next > 0
    /\ rows[e].enabled => rows[e].next - 1 \in proved[e]

(* As long as the calls for an identity do not overlap, it has one         *)
(* enrollment, whatever calls failed between their steps.                  *)
OneEnrollment ==
  \A d, e \in Ids :
    /\ rows[d] # None
    /\ rows[e] # None
    /\ rows[d].identity = rows[e].identity
    /\ rows[d].identity \notin loose
    => d = e

(* TOTP's verify refuses a code that has already been used (totp.py,       *)
(* TOTPFactor.verify, and "Replay protection" in _verify): a time step is  *)
(* not accepted by a verify that begins after a call returned for it.      *)
ReplayRefused ==
  \A r \in Requests :
    At(r, "update") /\ calls[r].op = "verify" /\ calls[r].identity \notin Hotp
    => calls[r].row.next - 1 \notin calls[r].late[calls[r].id]

(* HOTP and TOTP keep the promise of OneTimeCodes: as long as the calls    *)
(* for an identity do not overlap, each answer costs a number that was not *)
(* spent, and with it all the numbers below.  The number's code is the one *)
(* presented, and it is at most LookAhead above the counter, or no further *)
(* than Drift from the clock at some time during the call.                 *)
Status == [e \in Ids |-> IF e \notin used THEN "unused"
                         ELSE IF rows[e] = None THEN "gone"
                         ELSE IF rows[e].identity \in loose THEN "loose"
                         ELSE "guarded"]

Spent == [e \in Ids |-> IF Status[e] = "guarded" THEN 0 .. rows[e].next - 1 ELSE {}]

Answers == [e \in Ids |-> IF Status[e] = "guarded" THEN answers[e] ELSE 0]

InTime(e, call, n) ==
  IF call.identity \in Hotp THEN n <= rows[e].next + LookAhead
                            ELSE call.began - Drift <= n /\ n <= now + Drift

Presented == [e \in Ids |-> {n \in 0 .. MaxNumber : \E r \in Requests :
                /\ rows[e] # None
                /\ calls[r] # None
                /\ calls[r].identity = rows[e].identity
                /\ calls[r].code = CodeOf(e, n)
                /\ InTime(e, calls[r], n)}]

Promised == INSTANCE OneTimeCodes WITH Enrollments <- Ids, Codes <- 0 .. MaxNumber,
                                       Takes <- [n \in 0 .. MaxNumber |-> 0 .. n],
                                       status <- Status, spent <- Spent, answers <- Answers,
                                       presented <- Presented

KeepsPromise == Promised!Promise

=============================================================================
