-------------------------- MODULE BackupCodesProofs --------------------------
(* Theorems about the factor of backup codes. *)
EXTENDS BackupCodes, TLAPS

USE BackupCodesAssumption

-----------------------------------------------------------------------------
(* What a call knows *)

(* A call has the enrollment it found, of its identity, and writes the set *)
(* that the code it was given is from.                                     *)
CallFit(r) ==
  calls[r] # None =>
    LET c == calls[r] IN
    /\ c.row # None =>
         /\ c.id \in used
         /\ c.row.identity = c.identity
         /\ rows[c.id] # None => rows[c.id].identity = c.identity
    /\ c.row = None => c.id = None
    /\ c.at = "find" => c.row = None
    /\ c.at \in {"delete", "update"} => c.row # None
    /\ c.op = "verify" => c.code \in Code
    /\ c.at = "update" => c.op = "verify" /\ c.code.set = c.id

RowsFit ==
  \A e \in Ids :
    /\ rows[e] # None => e \in used
    /\ e \notin used => answers[e] = 0

Shape ==
  /\ TypeOK
  /\ \A r \in Requests : CallFit(r)
  /\ RowsFit

LEMMA InitShape == Init => Shape
BY DEF Init, Shape, TypeOK, CallFit, RowsFit

(* What VerifyAccepted makes of the call.                                  *)
Accepted(r) ==
  [calls[r] EXCEPT !.at = "update",
                   !.row = [calls[r].row EXCEPT !.used = calls[r].row.used \cup {calls[r].code.slot}]]

LEMMA AcceptedCall ==
  ASSUME Shape, NEW r \in Requests, VerifyAccepted(r)
  PROVE  /\ calls[r] \in Call /\ calls[r].row \in Row /\ calls[r].id \in Ids
         /\ calls[r].code \in Code /\ calls[r].op = "verify"
         /\ calls[r].code.set = calls[r].id
         /\ calls' = [calls EXCEPT ![r] = Accepted(r)]
         /\ calls'[r] = Accepted(r)
         /\ Accepted(r) \in Call
         /\ Accepted(r).row \in Row
         /\ Accepted(r).row.used = calls[r].row.used \cup {calls[r].code.slot}
         /\ Accepted(r).row.identity = calls[r].row.identity
         /\ Accepted(r).identity = calls[r].identity
         /\ Accepted(r).id = calls[r].id
         /\ Accepted(r).op = "verify"
         /\ Accepted(r).code = calls[r].code
         /\ Accepted(r).at = "update"
<1>1. /\ calls[r] \in Call /\ calls[r].row \in Row /\ calls[r].id \in Ids
      /\ calls[r].code \in Code /\ calls[r].op = "verify"
      /\ calls[r].code.set = calls[r].id
  BY DEF VerifyAccepted, Found, At, Usable, Shape, TypeOK, Call, CallFit
<1>2. calls' = [calls EXCEPT ![r] = Accepted(r)]
  BY <1>1 DEF VerifyAccepted, Shape, TypeOK, Accepted
<1>3. /\ [calls[r].row EXCEPT !.used = calls[r].row.used \cup {calls[r].code.slot}] \in Row
      /\ [calls[r].row EXCEPT !.used = calls[r].row.used \cup {calls[r].code.slot}].used
           = calls[r].row.used \cup {calls[r].code.slot}
      /\ [calls[r].row EXCEPT !.used = calls[r].row.used \cup {calls[r].code.slot}].identity
           = calls[r].row.identity
  BY <1>1 DEF Row, Code
<1>4. Accepted(r) \in Call
  BY <1>1, <1>3 DEF Accepted, Call
<1> QED BY <1>1, <1>2, <1>3, <1>4 DEF Accepted, Call, Shape, TypeOK

LEMMA AcceptShape ==
  ASSUME Shape, NEW r \in Requests, VerifyAccepted(r)
  PROVE  Shape'
<1>1. UNCHANGED <<used, rows, loose, spent, answers>>
  BY DEF VerifyAccepted
<1>2. TypeOK'
  BY <1>1, AcceptedCall DEF Shape, TypeOK
<1>3. ASSUME NEW q \in Requests PROVE CallFit(q)'
  <2>1. CASE q = r
    <3>1. CallFit(r) /\ calls[r].row # None
      BY AcceptedCall DEF Shape
    <3>2. None \notin Row /\ Accepted(r) # None
      BY AcceptedCall
    <3> HIDE DEF Accepted
    <3> QED BY <1>1, <2>1, <3>1, <3>2, AcceptedCall DEF CallFit
  <2>2. CASE q # r
    BY <1>1, <2>2, AcceptedCall DEF CallFit, Shape, TypeOK
  <2> QED BY <2>1, <2>2
<1> QED BY <1>1, <1>2, <1>3 DEF Shape, RowsFit

LEMMA WriteShape ==
  ASSUME Shape, NEW r \in Requests, At(r, "update"), rows' = Write(calls[r]), End(r),
         answers' \in [Ids -> Nat], \A e \in Ids : answers'[e] = answers[e] \/ e = calls[r].id,
         spent' \subseteq Code,
         UNCHANGED <<used, loose>>
  PROVE  Shape'
<1>1. calls[r] \in Call /\ calls[r].row \in Row /\ calls[r].id \in Ids /\ CallFit(r)
  BY DEF Shape, TypeOK, At, Call, CallFit
<1>2. TypeOK'
  BY <1>1 DEF Shape, TypeOK, End, Write
<1>3. ASSUME NEW q \in Requests PROVE CallFit(q)'
  BY <1>1 DEF Shape, TypeOK, End, Write, CallFit, At
<1>4. RowsFit'
  BY <1>1 DEF Shape, TypeOK, Write, RowsFit, CallFit, At
<1> QED BY <1>2, <1>3, <1>4 DEF Shape

LEMMA NextShape ==
  ASSUME Shape, [Next]_vars
  PROVE  Shape'
<1> USE DEF Shape, TypeOK, RowsFit
<1>1. CASE UNCHANGED vars
  BY <1>1 DEF vars, CallFit
<1>2. ASSUME NEW r \in Requests, NEW op \in {"enroll", "verify"},
             NEW i \in Identities, NEW c \in Code \cup {None},
             op = "verify" => c \in Code, Begin(r, op, i, c)
      PROVE  Shape'
  BY <1>2 DEF Begin, Call, CallFit
<1>3. ASSUME NEW r \in Requests, Find(r)
      PROVE  Shape'
  <2>1. CASE Goto(r, "found")
    <3>1. calls[r] \in Call
      BY <1>3 DEF Find, At
    <3>2. [calls[r] EXCEPT !.at = "found"] \in Call
      BY <3>1 DEF Call
    <3>3. ASSUME NEW q \in Requests PROVE CallFit(q)'
      BY <1>3, <2>1, <3>1, <3>2 DEF Find, Goto, CallFit, Call
    <3> QED BY <1>3, <2>1, <3>2, <3>3 DEF Find, Goto
  <2>2. ASSUME NEW e \in RowsOf(calls[r].identity),
               calls' = [calls EXCEPT ![r].at = "found", ![r].id = e, ![r].row = rows[e]]
        PROVE  Shape'
    <3>1. /\ e \in Ids
          /\ rows[e] \in Row
          /\ rows[e].identity = calls[r].identity
          /\ calls[r] \in Call
      BY <1>3, <2>2 DEF Find, At, RowsOf
    <3>2. calls' = [calls EXCEPT ![r] = [calls[r] EXCEPT !.at = "found", !.id = e,
                                                         !.row = rows[e]]]
      BY <2>2
    <3>3. [calls[r] EXCEPT !.at = "found", !.id = e, !.row = rows[e]] \in Call
      BY <3>1 DEF Call
    <3>4. TypeOK'
      BY <1>3, <3>2, <3>3 DEF Find
    <3>5. ASSUME NEW q \in Requests PROVE CallFit(q)'
      BY <1>3, <3>1, <3>2, <3>3 DEF Find, CallFit, Call
    <3> QED BY <1>3, <3>4, <3>5 DEF Find
  <2> QED BY <1>3, <2>1, <2>2 DEF Find
<1>4. ASSUME NEW r \in Requests, Enroll(r)
      PROVE  Shape'
  BY <1>4 DEF Enroll, Found, At, Goto, Call, CallFit
<1>5. ASSUME NEW r \in Requests, Delete(r)
      PROVE  Shape'
  BY <1>5 DEF Delete, At, Goto, Call, CallFit
<1>6. ASSUME NEW r \in Requests, Insert(r)
      PROVE  Shape'
  BY <1>6 DEF Insert, At, End, Row, Call, CallFit
<1>7. ASSUME NEW r \in Requests, VerifyAccepted(r)
      PROVE  Shape'
  BY <1>7, AcceptShape
<1>8. ASSUME NEW r \in Requests, Update(r)
      PROVE  Shape'
  <2>1. calls[r].id \in Ids /\ calls[r].code \in Code
    BY <1>8 DEF Update, At, Call, CallFit
  <2> QED BY <1>8, <2>1, WriteShape DEF Update
<1>9. ASSUME NEW r \in Requests, RaiseAfter(r)
      PROVE  Shape'
  <2>1. CASE At(r, "delete")
    BY <1>9, <2>1 DEF RaiseAfter, At, End, CallFit
  <2>2. CASE At(r, "update")
    BY <1>9, <2>2, WriteShape DEF RaiseAfter, At
  <2> QED BY <1>9, <2>1, <2>2 DEF RaiseAfter
<1>10. ASSUME NEW r \in Requests, VerifyRefused(r) \/ Abandon(r)
       PROVE  Shape'
  BY <1>10 DEF VerifyRefused, Abandon, End, CallFit
<1>11. ASSUME NEW e \in Ids, Remove(e)
       PROVE  Shape'
  BY <1>11 DEF Remove, CallFit
<1> QED BY <1>1, <1>2, <1>3, <1>4, <1>5, <1>6, <1>7, <1>8, <1>9, <1>10, <1>11
       DEF Next, Start, Step, CallEnroll, CallVerify


-----------------------------------------------------------------------------
(* Owners whose calls do not overlap *)

(* Such a call is the only one, and what it found is still so.             *)
Alone(r) ==
  calls[r] # None /\ calls[r].identity \notin loose =>
    LET c == calls[r] IN
    /\ \A q \in Requests : calls[q] # None /\ calls[q].identity = c.identity => q = r
    /\ c.at = "insert" => RowsOf(c.identity) = {}
    /\ c.at \in {"found", "delete", "update"} => RowsOf(c.identity) \subseteq {c.id}
    /\ c.at = "found" /\ c.row # None => rows[c.id] \in {c.row, None}
    /\ c.at = "update" /\ rows[c.id] # None =>
         /\ c.code.slot \notin rows[c.id].used
         /\ c.row.used = rows[c.id].used \cup {c.code.slot}

IInv ==
  /\ Shape
  /\ OneEnrollment
  /\ \A r \in Requests : Alone(r)

LEMMA InitIInv == Init => IInv
BY InitShape DEF Init, IInv, OneEnrollment, Alone

(* A step of one call is none of the other calls' of lonely owners.        *)
LEMMA OthersAlone ==
  ASSUME IInv, Shape', NEW r \in Requests, calls[r] # None,
         NEW q \in Requests, q # r,
         \A p \in Requests : p # r => calls'[p] = calls[p],
         calls'[r] = None \/ calls'[r].identity = calls[r].identity,
         loose' = loose,
         \A e \in Ids : \/ rows'[e] \in {rows[e], None}
                        \/ /\ rows'[e].identity = calls[r].identity
                           /\ rows[e] # None => rows[e].identity = calls[r].identity
  PROVE  Alone(q)'
<1> SUFFICES ASSUME calls[q] # None, calls[q].identity \notin loose
             PROVE  Alone(q)'
  BY DEF Alone
<1>1. Alone(q) /\ CallFit(q) /\ calls[q] \in Call
  BY DEF IInv, Shape, TypeOK
<1>2. calls[r].identity # calls[q].identity
  BY <1>1 DEF Alone
<1>3. RowsOf(calls[q].identity)' \subseteq RowsOf(calls[q].identity)
  BY <1>2 DEF RowsOf
<1>4. calls[q].row # None => rows'[calls[q].id] \in {rows[calls[q].id], None}
  BY <1>1, <1>2 DEF CallFit, IInv, Shape, TypeOK
<1>5. ASSUME NEW p \in Requests, calls'[p] # None, calls'[p].identity = calls[q].identity
      PROVE  p = q
  BY <1>1, <1>2, <1>5 DEF Alone
<1>6. calls[q].at \in {"delete", "update"} => calls[q].row # None
  BY <1>1 DEF CallFit
<1> QED BY <1>1, <1>3, <1>4, <1>5, <1>6 DEF Alone

LEMMA FewerRows ==
  ASSUME OneEnrollment, \A e \in Ids : rows'[e] \in {rows[e], None}, loose' = loose
  PROVE  OneEnrollment'
BY DEF OneEnrollment

LEMMA WriteAlone ==
  ASSUME IInv, Shape', NEW r \in Requests, At(r, "update"), rows' = Write(calls[r]), End(r),
         loose' = loose
  PROVE  IInv'
<1>1. /\ calls[r] \in Call
      /\ calls[r].row \in Row
      /\ calls[r].id \in Ids
      /\ calls[r].row.identity = calls[r].identity
      /\ rows[calls[r].id] # None => rows[calls[r].id].identity = calls[r].identity
  BY DEF IInv, Shape, TypeOK, At, Call, CallFit
<1>2. ASSUME NEW q \in Requests PROVE Alone(q)'
  <2>1. CASE q = r
    BY <2>1 DEF End, Alone, IInv, Shape, TypeOK
  <2>2. CASE q # r
    BY <1>1, <2>2, OthersAlone DEF End, At, Write, IInv, Shape, TypeOK
  <2> QED BY <2>1, <2>2
<1>3. OneEnrollment'
  BY <1>1 DEF OneEnrollment, Write, IInv
<1> QED BY <1>2, <1>3 DEF IInv

LEMMA NextIInv ==
  ASSUME IInv, [Next]_vars
  PROVE  IInv'
<1>1. Shape /\ Shape'
  BY NextShape DEF IInv
<1>2. CASE UNCHANGED vars
  BY <1>1, <1>2 DEF vars, IInv, OneEnrollment, Alone, RowsOf
<1>3. ASSUME NEW r \in Requests, NEW op, NEW i \in Identities, NEW c, Begin(r, op, i, c)
      PROVE  IInv'
  <2>1. OneEnrollment'
    BY <1>3 DEF Begin, OneEnrollment, IInv
  <2>2. calls' = [calls EXCEPT ![r] = calls'[r]] /\ calls'[r].identity = i
    BY <1>1, <1>3 DEF Begin, Shape, TypeOK
  <2>3. ASSUME NEW q \in Requests, calls[q] # None, calls[q].identity = i
        PROVE  i \in loose'
    BY <1>3, <2>3 DEF Begin
  <2>4. ASSUME NEW q \in Requests PROVE Alone(q)'
    <3>1. CASE q = r
      BY <1>1, <1>3, <2>2, <2>3, <3>1 DEF Begin, Alone, Shape, TypeOK
    <3>2. CASE q # r
      <4>1. calls'[q] = calls[q] /\ rows' = rows /\ loose \subseteq loose'
        BY <1>1, <1>3, <2>2, <3>2 DEF Begin, Shape, TypeOK
      <4> QED BY <1>1, <2>2, <2>3, <3>2, <4>1 DEF Alone, IInv, RowsOf, Shape, TypeOK
    <3> QED BY <3>1, <3>2
  <2> QED BY <1>1, <2>1, <2>4 DEF IInv
<1>4. ASSUME NEW r \in Requests, Find(r)
      PROVE  IInv'
  <2>1. /\ calls[r] # None
        /\ calls[r] \in Call
        /\ rows' = rows
        /\ loose' = loose
        /\ calls' = [calls EXCEPT ![r] = calls'[r]]
    BY <1>1, <1>4 DEF Find, At, Goto, Shape, TypeOK
  <2>2. /\ calls'[r].identity = calls[r].identity
        /\ calls'[r].at = "found"
        /\ \/ /\ calls'[r].id \in RowsOf(calls[r].identity)
              /\ calls'[r].row = rows[calls'[r].id]
           \/ /\ RowsOf(calls[r].identity) = {}
              /\ calls'[r].row = None
    <3>1. CASE RowsOf(calls[r].identity) = {} /\ Goto(r, "found")
      BY <1>1, <1>4, <2>1, <3>1 DEF Find, At, Goto, Shape, TypeOK, CallFit, Call
    <3>2. ASSUME NEW e \in RowsOf(calls[r].identity),
                 calls' = [calls EXCEPT ![r].at = "found", ![r].id = e, ![r].row = rows[e]]
          PROVE  /\ calls'[r].identity = calls[r].identity
                 /\ calls'[r].at = "found"
                 /\ calls'[r].id = e
                 /\ calls'[r].row = rows[e]
      BY <1>1, <2>1, <3>2 DEF Shape, TypeOK, Call
    <3> QED BY <1>4, <3>1, <3>2 DEF Find
  <2>3. ASSUME NEW q \in Requests PROVE Alone(q)'
    <3>1. CASE q = r
      <4>1. SUFFICES ASSUME calls[r].identity \notin loose PROVE Alone(r)'
        BY <2>1, <2>2, <3>1 DEF Alone
      <4>2. RowsOf(calls[r].identity) \subseteq {calls'[r].id}
        BY <2>2, <4>1 DEF IInv, OneEnrollment, RowsOf
      <4> QED BY <1>1, <2>1, <2>2, <4>1, <4>2 DEF IInv, Alone, RowsOf, Shape, TypeOK
    <3>2. CASE q # r
      BY <1>1, <2>1, <2>2, <3>2, OthersAlone DEF Shape, TypeOK
    <3> QED BY <3>1, <3>2
  <2> QED BY <1>1, <2>1, <2>3, FewerRows DEF IInv
<1>5. ASSUME NEW r \in Requests, Enroll(r)
      PROVE  IInv'
  <2>1. /\ At(r, "found")
        /\ calls[r] \in Call
        /\ rows' = rows
        /\ loose' = loose
        /\ calls' = [calls EXCEPT ![r] = [calls[r] EXCEPT !.at = calls'[r].at]]
        /\ calls'[r].at = IF calls[r].row = None THEN "insert" ELSE "delete"
    BY <1>1, <1>5 DEF Enroll, Found, At, Goto, Shape, TypeOK, Call
  <2>2. calls'[r].identity = calls[r].identity /\ calls'[r].id = calls[r].id
    BY <1>1, <2>1 DEF Shape, TypeOK, Call
  <2>3. ASSUME NEW q \in Requests PROVE Alone(q)'
    <3>1. CASE q = r
      BY <1>1, <2>1, <2>2, <3>1
         DEF IInv, Alone, CallFit, RowsOf, At, Shape, TypeOK
    <3>2. CASE q # r
      BY <1>1, <2>1, <2>2, <3>2, OthersAlone DEF Shape, TypeOK, At
    <3> QED BY <3>1, <3>2
  <2> QED BY <1>1, <2>1, <2>3, FewerRows DEF IInv
<1>6. ASSUME NEW r \in Requests, Delete(r)
      PROVE  IInv'
  <2>1. /\ At(r, "delete")
        /\ calls[r] \in Call
        /\ calls[r].id \in Ids
        /\ rows' = [rows EXCEPT ![calls[r].id] = None]
        /\ loose' = loose
        /\ calls' = [calls EXCEPT ![r] = [calls[r] EXCEPT !.at = "insert"]]
    BY <1>1, <1>6 DEF Delete, At, Goto, Shape, TypeOK, Call, CallFit
  <2>2. calls'[r].identity = calls[r].identity /\ calls'[r].at = "insert"
    BY <1>1, <2>1 DEF Shape, TypeOK, Call
  <2>3. ASSUME NEW q \in Requests PROVE Alone(q)'
    <3>1. CASE q = r
      BY <1>1, <2>1, <2>2, <3>1 DEF IInv, Alone, RowsOf, At, Shape, TypeOK
    <3>2. CASE q # r
      BY <1>1, <2>1, <2>2, <3>2, OthersAlone DEF Shape, TypeOK, At
    <3> QED BY <3>1, <3>2
  <2>4. OneEnrollment'
    BY <1>1, <2>1, FewerRows DEF IInv, Shape, TypeOK
  <2> QED BY <1>1, <2>3, <2>4 DEF IInv
<1>7. ASSUME NEW r \in Requests, Insert(r)
      PROVE  IInv'
  <2>1. PICK e \in Ids \ used :
          rows' = [rows EXCEPT ![e] = [identity |-> calls[r].identity,
                                       used |-> {}]]
    BY <1>7 DEF Insert
  <2>2. /\ At(r, "insert")
        /\ loose' = loose
        /\ End(r)
        /\ rows[e] = None
        /\ rows'[e].identity = calls[r].identity
        /\ \A d \in Ids : d # e => rows'[d] = rows[d]
    BY <1>1, <1>7, <2>1 DEF Insert, Shape, TypeOK, RowsFit
  <2>3. ASSUME NEW q \in Requests PROVE Alone(q)'
    <3>1. CASE q = r
      BY <1>1, <2>2, <3>1 DEF End, Alone, Shape, TypeOK
    <3>2. CASE q # r
      BY <1>1, <2>2, <3>2, OthersAlone DEF End, At, Shape, TypeOK
    <3> QED BY <3>1, <3>2
  <2>4. calls[r].identity \notin loose => RowsOf(calls[r].identity) = {}
    BY <2>2 DEF IInv, Alone, At
  <2>5. OneEnrollment'
    BY <2>2, <2>4 DEF IInv, OneEnrollment, RowsOf
  <2> QED BY <1>1, <2>3, <2>5 DEF IInv
<1>8. ASSUME NEW r \in Requests, VerifyAccepted(r)
      PROVE  IInv'
  <2>1. At(r, "found") /\ Usable(calls[r]) /\ rows' = rows /\ loose' = loose
    BY <1>8 DEF VerifyAccepted, Found
  <2>2. ASSUME NEW q \in Requests PROVE Alone(q)'
    <3>1. CASE q = r
      <4> SUFFICES ASSUME calls[r].identity \notin loose PROVE Alone(r)'
        BY <1>1, <1>8, <2>1, <3>1, AcceptedCall DEF Alone
      <4>1. /\ \A p \in Requests :
                 calls[p] # None /\ calls[p].identity = calls[r].identity => p = r
            /\ RowsOf(calls[r].identity) \subseteq {calls[r].id}
            /\ rows[calls[r].id] \in {calls[r].row, None}
        BY <2>1 DEF IInv, Alone, At, Usable
      <4> QED BY <1>1, <1>8, <2>1, <4>1, AcceptedCall DEF Alone, RowsOf, Usable, Shape, TypeOK
    <3>2. CASE q # r
      BY <1>1, <1>8, <2>1, <3>2, AcceptedCall, OthersAlone DEF Shape, TypeOK, At
    <3> QED BY <3>1, <3>2
  <2> QED BY <1>1, <2>1, <2>2, FewerRows DEF IInv
<1>9. ASSUME NEW r \in Requests, Update(r)
      PROVE  IInv'
  BY <1>1, <1>9, WriteAlone DEF Update
<1>10. ASSUME NEW r \in Requests, RaiseAfter(r)
       PROVE  IInv'
  <2>1. CASE At(r, "delete") /\ rows' = [rows EXCEPT ![calls[r].id] = None]
    <3>1. /\ calls[r].id \in Ids
          /\ loose' = loose
          /\ End(r)
          /\ \A e \in Ids : rows'[e] \in {rows[e], None}
      BY <1>1, <1>10, <2>1 DEF RaiseAfter, At, Shape, TypeOK, Call, CallFit
    <3>2. ASSUME NEW q \in Requests PROVE Alone(q)'
      <4>1. CASE q = r
        BY <1>1, <3>1, <4>1 DEF End, Alone, Shape, TypeOK
      <4>2. CASE q # r
        BY <1>1, <2>1, <3>1, <4>2, OthersAlone DEF End, At, Shape, TypeOK
      <4> QED BY <4>1, <4>2
    <3> QED BY <1>1, <3>1, <3>2, FewerRows DEF IInv
  <2>2. CASE At(r, "update") /\ rows' = Write(calls[r])
    BY <1>1, <1>10, <2>2, WriteAlone DEF RaiseAfter
  <2> QED BY <1>10, <2>1, <2>2 DEF RaiseAfter
<1>11. ASSUME NEW r \in Requests, VerifyRefused(r) \/ Abandon(r)
       PROVE  IInv'
  <2>1. End(r) /\ calls[r] # None /\ UNCHANGED <<rows, loose>>
    BY <1>11 DEF VerifyRefused, Abandon, Found, At
  <2>2. ASSUME NEW q \in Requests PROVE Alone(q)'
    <3>1. CASE q = r
      BY <1>1, <2>1, <3>1 DEF End, Alone, Shape, TypeOK
    <3>2. CASE q # r
      BY <1>1, <2>1, <3>2, OthersAlone DEF End, Shape, TypeOK
    <3> QED BY <3>1, <3>2
  <2> QED BY <1>1, <2>1, <2>2, FewerRows DEF IInv
<1>12. ASSUME NEW e \in Ids, Remove(e)
       PROVE  IInv'
  <2>1. /\ \A d \in Ids : rows'[d] \in {rows[d], None}
        /\ UNCHANGED <<calls, loose>>
    BY <1>1, <1>12 DEF Remove, Shape, TypeOK
  <2>2. ASSUME NEW q \in Requests PROVE Alone(q)'
    <3>1. Alone(q) /\ CallFit(q)
      BY <1>1 DEF IInv, Shape
    <3>2. calls[q] # None /\ calls[q].row # None => calls[q].id \in Ids
      BY <1>1, <3>1 DEF CallFit, Shape, TypeOK
    <3> QED BY <2>1, <3>1, <3>2 DEF Alone, RowsOf, CallFit
  <2> QED BY <1>1, <2>1, <2>2, FewerRows DEF IInv
<1> QED BY <1>2, <1>3, <1>4, <1>5, <1>6, <1>7, <1>8, <1>9, <1>10, <1>11, <1>12
       DEF Next, Start, Step, CallEnroll, CallVerify

(* The inductive invariant.                                                *)
THEOREM Inductive == Spec => []IInv
BY InitIInv, NextIInv, PTL DEF Spec

(* Enrollments and calls are well formed.                                  *)
THEOREM TypesHold == Spec => []TypeOK
<1>1. IInv => TypeOK
  BY DEF IInv, Shape
<1> QED BY <1>1, Inductive, PTL

(* An identity whose calls do not overlap has one set of codes.            *)
THEOREM OneEnrollmentHolds == Spec => []OneEnrollment
<1>1. IInv => OneEnrollment
  BY DEF IInv
<1> QED BY <1>1, Inductive, PTL


-----------------------------------------------------------------------------
(* The refinement *)

Kept == UNCHANGED <<Status, Spent, Answers>>

LEMMA InitPromise == Init => Promised!PromiseInit
BY DEF Init, Promised!PromiseInit, Status, Spent, Answers

LEMMA GonePromise ==
  ASSUME Shape, NEW e \in Ids, rows' = [rows EXCEPT ![e] = None],
         UNCHANGED <<used, loose, answers>>
  PROVE  Promised!PromiseNext \/ Kept
<1>1. CASE rows[e] = None
  <2>1. rows' = rows
    BY <1>1 DEF Shape, TypeOK
  <2> QED BY <2>1 DEF Kept, Status, Spent, Answers
<1>2. CASE rows[e] # None
  <2>1. Status[e] \in {"guarded", "loose"}
    BY <1>2 DEF Status, Shape, RowsFit
  <2>2. /\ rows'[e] = None
        /\ \A d \in Ids : d # e => rows'[d] = rows[d]
    BY DEF Shape, TypeOK
  <2>3. Status' = [d \in Ids |-> IF d \in {e} THEN "gone" ELSE Status[d]]
    BY <1>2, <2>2 DEF Status, Shape, RowsFit
  <2>4. Spent' = [d \in Ids |-> IF d \in {e} THEN {} ELSE Spent[d]]
    <3>1. \A d \in Ids : d # e => Status'[d] = Status[d]
      BY <2>3 DEF Status
    <3>2. Status'[e] = "gone"
      BY <2>3
    <3> QED BY <2>2, <3>1, <3>2 DEF Spent
  <2>5. Answers' = [d \in Ids |-> IF d \in {e} THEN 0 ELSE Answers[d]]
    BY <2>3 DEF Answers, Status
  <2>6. Promised!Quit({e}, "gone")
    BY <2>1, <2>3, <2>4, <2>5 DEF Promised!Quit
  <2> QED BY <2>6 DEF Promised!PromiseNext
<1> QED BY <1>1, <1>2

LEMMA BeginPromise ==
  ASSUME Shape, NEW r \in Requests, NEW op, NEW i, NEW c, Begin(r, op, i, c)
  PROVE  Promised!PromiseNext
<1> DEFINE es == {e \in Ids : Status[e] = "guarded" /\ rows[e].identity \in loose'}
<1>1. loose \subseteq loose' /\ UNCHANGED <<used, rows, answers>>
  BY DEF Begin
<1>2. \A e \in es : Status[e] \in {"guarded", "loose"}
  OBVIOUS
<1>3. Status' = [e \in Ids |-> IF e \in es THEN "loose" ELSE Status[e]]
  BY <1>1 DEF Status
<1>4. \A e \in Ids : Status'[e] = "guarded" <=> Status[e] = "guarded" /\ e \notin es
  BY <1>1, <1>3 DEF Status
<1>5. Spent' = [e \in Ids |-> IF e \in es THEN {} ELSE Spent[e]]
  BY <1>1, <1>4 DEF Spent
<1>6. Answers' = [e \in Ids |-> IF e \in es THEN 0 ELSE Answers[e]]
  BY <1>1, <1>4 DEF Answers
<1>7. Promised!Quit(es, "loose")
  BY <1>2, <1>3, <1>5, <1>6 DEF Promised!Quit
<1> QED BY <1>7 DEF Promised!PromiseNext

LEMMA InsertPromise ==
  ASSUME Shape, NEW r \in Requests, Insert(r)
  PROVE  Promised!PromiseNext
<1>1. PICK e \in Ids \ used :
        /\ rows' = [rows EXCEPT ![e] = [identity |-> calls[r].identity,
                                        used |-> {}]]
        /\ used' = used \cup {e}
  BY DEF Insert
<1>2. UNCHANGED <<loose, answers>>
  BY DEF Insert
<1>3. calls[r].identity \in Identities
  BY DEF Insert, At, Shape, TypeOK, Call
<1>4. /\ rows'[e] # None
      /\ rows'[e].used = {}
      /\ rows'[e].identity = calls[r].identity
      /\ \A d \in Ids : d # e => rows'[d] = rows[d]
  <2>1. [identity |-> calls[r].identity, used |-> {}] \in Row
    BY <1>3 DEF Row
  <2> QED BY <1>1, <2>1 DEF Shape, TypeOK
<1> DEFINE to == IF calls[r].identity \in loose THEN "loose" ELSE "guarded"
<1>5. Status[e] = "unused"
  BY <1>1 DEF Status
<1>6. Status'[e] = to /\ \A d \in Ids : d # e => Status'[d] = Status[d]
  BY <1>1, <1>2, <1>4 DEF Status
<1>7. Status' = [Status EXCEPT ![e] = to]
  BY <1>6 DEF Status
<1>8. answers[e] = 0
  BY <1>1 DEF Shape, RowsFit
<1>9. \A d \in Ids : Spent'[d] = Spent[d]
  BY <1>4, <1>5, <1>6 DEF Spent
<1>10. Spent' = Spent /\ Answers' = Answers
  BY <1>2, <1>5, <1>6, <1>8, <1>9 DEF Spent, Answers
<1>11. Promised!Offer(e)
  BY <1>5, <1>7, <1>10 DEF Promised!Offer
<1> QED BY <1>1, <1>11 DEF Promised!PromiseNext

LEMMA WritePromise ==
  ASSUME IInv, NEW r \in Requests, At(r, "update"), rows' = Write(calls[r]),
         UNCHANGED <<used, loose>>,
         NEW bought \in {0, 1},
         answers' = [answers EXCEPT ![calls[r].id] =
                       IF calls[r].identity \in loose THEN @ ELSE @ + bought]
  PROVE  Promised!PromiseNext \/ Kept
<1> DEFINE e == calls[r].id
           row == calls[r].row
<1>1. /\ e \in Ids
      /\ row \in Row
      /\ row.identity = calls[r].identity
      /\ calls[r].code \in Code
      /\ calls[r].code.set = e
      /\ rows[e] # None => rows[e] \in Row /\ rows[e].identity = calls[r].identity
      /\ answers \in [Ids -> Nat]
  BY DEF IInv, Shape, TypeOK, CallFit, Call, At
<1>2. \A d \in Ids : d # e => rows'[d] = rows[d] /\ answers'[d] = answers[d]
  BY <1>1 DEF Write
<1>3. rows'[e] = IF rows[e] = None THEN None ELSE row
  BY <1>1 DEF Write
<1>4. Status' = Status
  BY <1>1, <1>2, <1>3 DEF Status
<1>5. CASE Status[e] # "guarded"
  <2>1. \A d \in Ids : Spent'[d] = Spent[d] /\ Answers'[d] = Answers[d]
    BY <1>2, <1>4, <1>5 DEF Spent, Answers
  <2>2. Spent' = Spent /\ Answers' = Answers
    BY <2>1 DEF Spent, Answers
  <2> QED BY <1>4, <2>2 DEF Kept
<1>6. CASE Status[e] = "guarded"
  <2>1. rows[e] # None /\ calls[r].identity \notin loose
    BY <1>1, <1>6 DEF Status
  <2> DEFINE slot == calls[r].code.slot
  <2>2. slot \notin rows[e].used /\ row.used = rows[e].used \cup {slot}
    BY <1>1, <2>1 DEF IInv, Alone, At
  <2>3. Spent[e] = rows[e].used /\ Spent'[e] = row.used
    BY <1>1, <1>3, <1>4, <1>6, <2>1 DEF Spent
  <2>4. slot \in Presented[e] \ Spent[e]
    <3>1. slot \in Slots /\ calls[r].code = [set |-> e, slot |-> slot]
      BY <1>1 DEF Code
    <3> QED BY <1>1, <2>2, <2>3, <3>1 DEF Presented, At
  <2>5. Spent'[e] = Spent[e] \cup {slot}
    BY <2>2, <2>3
  <2>6. \A d \in Ids : d # e => Spent'[d] = Spent[d]
    BY <1>2, <1>4 DEF Spent
  <2>7. Spent' = [Spent EXCEPT ![e] = @ \cup [s \in Slots |-> {s}][slot]]
    <3>1. slot \in Slots
      BY <1>1 DEF Code
    <3>2. [s \in Slots |-> {s}][slot] = {slot}
      BY <3>1
    <3>3. Spent' = [Spent EXCEPT ![e] = Spent[e] \cup {slot}]
      BY <1>1, <2>5, <2>6 DEF Spent
    <3> HIDE DEF slot
    <3> QED BY <3>2, <3>3
  <2>8. Answers' = [Answers EXCEPT ![e] = @ + bought]
    <3>1. Answers'[e] = Answers[e] + bought
      BY <1>1, <1>4, <1>6, <2>1 DEF Answers
    <3>2. \A d \in Ids : d # e => Answers'[d] = Answers[d]
      BY <1>2, <1>4 DEF Answers
    <3> QED BY <1>1, <3>1, <3>2 DEF Answers
  <2>9. Promised!Spend(e)
    BY <1>4, <1>6, <2>4, <2>7, <2>8 DEF Promised!Spend
  <2> QED BY <1>1, <2>9 DEF Promised!PromiseNext
<1> QED BY <1>5, <1>6

(* As long as calls of their owners do not overlap, backup codes keep the  *)
(* promise of OneTimeCodes.                                                *)
THEOREM KeepsPromiseHolds == Spec => KeepsPromise
<1>1. IInv /\ [Next]_vars => [Promised!PromiseNext]_<<Status, Spent, Answers>>
  <2> SUFFICES ASSUME IInv, [Next]_vars
               PROVE  Promised!PromiseNext \/ Kept
    BY DEF Kept
  <2>1. Shape
    BY DEF IInv
  <2>2. CASE UNCHANGED <<used, rows, loose, answers>>
    BY <2>2 DEF Kept, Status, Spent, Answers
  <2>3. ASSUME NEW r \in Requests, Update(r)
        PROVE  Promised!PromiseNext \/ Kept
    BY <2>3, WritePromise DEF Update
  <2>4. ASSUME NEW r \in Requests, At(r, "update"), RaiseAfter(r)
        PROVE  Promised!PromiseNext \/ Kept
    <3>1. answers' = [answers EXCEPT ![calls[r].id] =
                        IF calls[r].identity \in loose THEN @ ELSE @ + 0]
      BY <2>1, <2>4 DEF RaiseAfter, Shape, TypeOK
    <3> QED BY <2>4, <3>1, WritePromise DEF RaiseAfter, At
  <2>5. ASSUME NEW r \in Requests, At(r, "delete"), Delete(r) \/ RaiseAfter(r)
        PROVE  Promised!PromiseNext \/ Kept
    <3>1. calls[r].id \in Ids
      BY <2>1, <2>5 DEF Shape, TypeOK, Call, CallFit, At
    <3> QED BY <2>1, <2>5, <3>1, GonePromise DEF Delete, RaiseAfter, At
  <2>6. ASSUME NEW e \in Ids, Remove(e)
        PROVE  Promised!PromiseNext \/ Kept
    BY <2>1, <2>6, GonePromise DEF Remove
  <2> QED BY <2>1, <2>2, <2>3, <2>4, <2>5, <2>6, BeginPromise, InsertPromise
          DEF Next, vars, Start, Step, CallEnroll, CallVerify, Find, Enroll, Delete,
              VerifyRefused, VerifyAccepted, RaiseAfter, Abandon
<1> QED BY <1>1, InitPromise, Inductive, PTL DEF Spec, KeepsPromise, Promised!Promise

=============================================================================
