------------------------------ MODULE BackupCodes ------------------------------
(***************************************************************************)
(* The factor of backup codes (reauth/factors/backup_codes.py).  enroll    *)
(* makes a new set of codes and withdraws the set there was, with a read,  *)
(* a delete and an insert.  verify reads the set, adds the code to a copy  *)
(* of the list of used codes and writes the whole copy back.  Each of      *)
(* these is an await, and calls for one identity may overlap.              *)
(***************************************************************************)
EXTENDS Naturals

CONSTANTS Ids,        \* ids the store can hand out; an id stands for its codes
          Requests,   \* calls that may be in flight together
          Identities,
          Slots,      \* 1 .. code_count: the codes of one set
          None        \* Python's None, and "no row"

(* BackupCodesEnrollment: what of codes_hashes is in used_codes_hashes.    *)
Row == [identity : Identities, used : SUBSET Slots]

(* The hash of a code is found in the set the code is from only.           *)
Code == [set : Ids, slot : Slots]

(* A call's arguments, where it is, and the enrollment it found.  "late"   *)
(* is history: the code had bought an answer before the call began.        *)
Call == [op       : {"enroll", "verify"},
         identity : Identities,
         code     : Code \cup {None},
         late     : BOOLEAN,
         at       : {"find", "found", "delete", "insert", "update"},
         id       : Ids \cup {None},
         row      : Row \cup {None}]

ASSUME BackupCodesAssumption ==
  /\ None \notin Ids
  /\ None \notin Row
  /\ None \notin Code
  /\ None \notin Call

VARIABLES used,    \* ids handed out: they are not reused
          rows,    \* the enrollments
          calls,   \* the calls in flight
          loose,   \* identities for which two calls have ever overlapped
          spent,   \* the codes that have bought an answer
          answers  \* how many calls were answered before the owner was loose

vars == <<used, rows, calls, loose, spent, answers>>

Init ==
  /\ used = {}
  /\ rows = [e \in Ids |-> None]
  /\ calls = [r \in Requests |-> None]
  /\ loose = {}
  /\ spent = {}
  /\ answers = [e \in Ids |-> 0]

(* The call is in flight, at this await. *)
At(r, where) == calls[r] # None /\ calls[r].at = where

Goto(r, where) == calls' = [calls EXCEPT ![r].at = where]

(* The call returns, raises, is cancelled or dies. *)
End(r) == calls' = [calls EXCEPT ![r] = None]

RowsOf(identity) == {e \in Ids : rows[e] # None /\ rows[e].identity = identity}

Begin(r, op, identity, code) ==
  /\ calls[r] = None
  /\ calls' = [calls EXCEPT ![r] = [op |-> op, identity |-> identity, code |-> code,
                                    late |-> code \in spent,
                                    at |-> "find", id |-> None, row |-> None]]
  /\ loose' = loose \cup {calls[q].identity : q \in {q \in Requests :
                            calls[q] # None /\ calls[q].identity = identity}}
  /\ UNCHANGED <<used, rows, spent, answers>>

CallEnroll(r, identity) == Begin(r, "enroll", identity, None)

(* Users have the codes they were given; a code made up is not found.      *)
CallVerify(r, identity, code) ==
  /\ code.set \in used
  /\ Begin(r, "verify", identity, code)

(* get_enrollment: if there are several, the store returns any.            *)
Find(r) ==
  /\ At(r, "find")
  /\ \/ \E e \in RowsOf(calls[r].identity) :
          calls' = [calls EXCEPT ![r].at = "found", ![r].id = e, ![r].row = rows[e]]
     \/ RowsOf(calls[r].identity) = {} /\ Goto(r, "found")
  /\ UNCHANGED <<used, rows, loose, spent, answers>>

Found(r, op) == At(r, "found") /\ calls[r].op = op

-----------------------------------------------------------------------------
(* enroll *)

(* Fault: the codes there are stay valid. *)
KeepExisting(r) ==
  /\ Found(r, "enroll")
  /\ Goto(r, "insert")
  /\ UNCHANGED <<used, rows, loose, spent, answers>>

Enroll(r) ==
  /\ Found(r, "enroll")
  /\ Goto(r, IF calls[r].row = None THEN "insert" ELSE "delete")
  /\ UNCHANGED <<used, rows, loose, spent, answers>>

Delete(r) ==
  /\ At(r, "delete")
  /\ rows' = [rows EXCEPT ![calls[r].id] = None]
  /\ Goto(r, "insert")
  /\ UNCHANGED <<used, loose, spent, answers>>

Insert(r) ==
  /\ At(r, "insert")
  /\ \E e \in Ids \ used :
       /\ rows' = [rows EXCEPT ![e] = [identity |-> calls[r].identity, used |-> {}]]
       /\ used' = used \cup {e}
  /\ End(r)
  /\ UNCHANGED <<loose, spent, answers>>

-----------------------------------------------------------------------------
(* verify *)

(* The code's hash is one of the set's, and not among the used ones.       *)
Usable(call) ==
  /\ call.row # None
  /\ call.code.set = call.id
  /\ call.code.slot \notin call.row.used

(* Not enrolled, not a code of the enrollment, or a used one.              *)
VerifyRefused(r) ==
  /\ Found(r, "verify")
  /\ ~Usable(calls[r])
  /\ End(r)
  /\ UNCHANGED <<used, rows, loose, spent, answers>>

(* Fault: the code is listed, not its hash. *)
VerifyPlain(r) ==
  /\ Found(r, "verify")
  /\ Usable(calls[r])
  /\ calls' = [calls EXCEPT ![r].at = "update", ![r].row.used = @ \cup {calls[r].code}]
  /\ UNCHANGED <<used, rows, loose, spent, answers>>

(* Fault: the list is replaced by one with the code. *)
VerifyAlone(r) ==
  /\ Found(r, "verify")
  /\ Usable(calls[r])
  /\ calls' = [calls EXCEPT ![r].at = "update", ![r].row.used = {calls[r].code.slot}]
  /\ UNCHANGED <<used, rows, loose, spent, answers>>

VerifyAccepted(r) ==
  /\ Found(r, "verify")
  /\ Usable(calls[r])
  /\ LET row == calls[r].row
     IN  calls' = [calls EXCEPT ![r].at = "update",
                                ![r].row = [row EXCEPT !.used = @ \cup {calls[r].code.slot}]]
  /\ UNCHANGED <<used, rows, loose, spent, answers>>

(* update overwrites every column of the row, if there still is one.       *)
Write(call) ==
  [e \in Ids |-> IF e = call.id /\ rows[e] # None THEN call.row ELSE rows[e]]

Update(r) ==
  /\ At(r, "update")
  /\ rows' = Write(calls[r])
  /\ spent' = spent \cup {calls[r].code}
  /\ answers' = [answers EXCEPT ![calls[r].id] =
                   IF calls[r].identity \in loose THEN @ ELSE @ + 1]
  /\ End(r)
  /\ UNCHANGED <<used, loose>>

-----------------------------------------------------------------------------
(* The environment *)

(* A store operation takes effect, but the call raises. *)
RaiseAfter(r) ==
  /\ \/ /\ At(r, "delete")
        /\ rows' = [rows EXCEPT ![calls[r].id] = None]
     \/ /\ At(r, "update")
        /\ rows' = Write(calls[r])
  /\ End(r)
  /\ UNCHANGED <<used, loose, spent, answers>>

(* The call raises before its next effect, is cancelled or dies. *)
Abandon(r) ==
  /\ calls[r] # None
  /\ End(r)
  /\ UNCHANGED <<used, rows, loose, spent, answers>>

(* The application removes an enrollment. *)
Remove(e) ==
  /\ rows[e] # None
  /\ rows' = [rows EXCEPT ![e] = None]
  /\ UNCHANGED <<used, calls, loose, spent, answers>>

Start(r) ==
  \E identity \in Identities :
    CallEnroll(r, identity) \/ \E code \in Code : CallVerify(r, identity, code)

Step(r) ==
  \/ Find(r)
  \/ Enroll(r)
  \/ Delete(r)
  \/ Insert(r)
  \/ VerifyRefused(r)
  \/ VerifyAccepted(r)
  \/ Update(r)

Next ==
  \/ \E r \in Requests : Start(r) \/ Step(r) \/ RaiseAfter(r) \/ Abandon(r)
  \/ \E e \in Ids : Remove(e)

Spec == Init /\ [][Next]_vars

-----------------------------------------------------------------------------
(* Properties *)

(* Enrollments and calls are well formed.                                  *)
TypeOK ==
  /\ used \subseteq Ids
  /\ rows \in [Ids -> Row \cup {None}]
  /\ calls \in [Requests -> Call \cup {None}]
  /\ loose \subseteq Identities
  /\ spent \subseteq Code
  /\ answers \in [Ids -> Nat]

(* As long as the calls for an identity do not overlap, it has one set of  *)
(* codes, whatever calls failed between their steps: an enroll withdraws   *)
(* the set before it.                                                      *)
OneEnrollment ==
  \A d, e \in Ids :
    /\ rows[d] # None
    /\ rows[e] # None
    /\ rows[d].identity = rows[e].identity
    /\ rows[d].identity \notin loose
    => d = e

(* Backup codes are single-use (backup_codes.py, BackupCodesFactor): a     *)
(* code is not accepted by a call that begins after one was answered.      *)
SingleUse == \A r \in Requests : At(r, "update") => ~calls[r].late

(* Backup codes keep the promise of OneTimeCodes: as long as the calls for *)
(* an identity do not overlap, each answer costs the code that was         *)
(* presented, which was not used, and no other.                            *)
Status == [e \in Ids |-> IF e \notin used THEN "unused"
                         ELSE IF rows[e] = None THEN "gone"
                         ELSE IF rows[e].identity \in loose THEN "loose"
                         ELSE "guarded"]

Spent == [e \in Ids |-> IF Status[e] = "guarded" THEN rows[e].used ELSE {}]

Answers == [e \in Ids |-> IF Status[e] = "guarded" THEN answers[e] ELSE 0]

Presented == [e \in Ids |-> {s \in Slots : \E r \in Requests :
                calls[r] # None /\ calls[r].code = [set |-> e, slot |-> s]}]

Promised == INSTANCE OneTimeCodes WITH Enrollments <- Ids, Codes <- Slots,
                                       Takes <- [s \in Slots |-> {s}],
                                       status <- Status, spent <- Spent, answers <- Answers,
                                       presented <- Presented

KeepsPromise == Promised!Promise

=============================================================================
