---------------------------- MODULE EmailOTPProofs ----------------------------
(* Theorems about the email OTP factor. *)
EXTENDS EmailOTP, TLAPS

USE EmailOTPAssumption

-----------------------------------------------------------------------------
(* Types *)

(* What a call has by the time it is at each label. *)
Shape ==
  /\ TypeOK
  /\ \A r \in Requests :
       /\ pc[r] # "idle" => session[r] \in Sessions
       /\ pc[r] = "lookup" => code[r] \in Codes
       /\ pc[r] = "insert" => row[r] \in Row
       /\ pc[r] = "delete" => otp[r] \in Otps
       /\ row[r] # None /\ pc[r] = "loaded" => otp[r] \in Otps
       /\ pc[r] \in {"idle", "clear", "cleared", "lookup"} => otp[r] = None /\ row[r] = None

LEMMA InitShape == Init => Shape
BY DEF Init, Shape, TypeOK

LEMMA NextShape ==
  ASSUME Shape, [Next]_vars
  PROVE  Shape'
<1> USE DEF Shape, TypeOK, Goto
<1>1. CASE UNCHANGED vars
  BY <1>1 DEF vars
<1>2. ASSUME NEW r \in Requests, NEW s \in Sessions, CallCreate(r, s)
      PROVE  Shape'
  BY <1>2 DEF CallCreate
<1>3. ASSUME NEW r \in Requests, NEW s \in Sessions, NEW c \in Codes, CallConsume(r, s, c)
      PROVE  Shape'
  BY <1>3 DEF CallConsume
<1>4. ASSUME NEW r \in Requests, Clear(r)
      PROVE  Shape'
  BY <1>4 DEF Clear, OtpsOf
<1>5. ASSUME NEW r \in Requests, NEW c \in Codes, Generate(r, c)
      PROVE  Shape'
  BY <1>5 DEF Generate, Row
<1>6. ASSUME NEW r \in Requests, Insert(r)
      PROVE  Shape'
  BY <1>6 DEF Insert, Leave
<1>7. ASSUME NEW r \in Requests, Lookup(r)
      PROVE  Shape'
  BY <1>7 DEF Lookup, OtpsOf
<1>8. ASSUME NEW r \in Requests, Refused(r) \/ Abandon(r)
      PROVE  Shape'
  BY <1>8 DEF Refused, Abandon, Leave
<1>9. ASSUME NEW r \in Requests, Accepted(r)
      PROVE  Shape'
  BY <1>9 DEF Accepted, Usable
<1>10. ASSUME NEW r \in Requests, Delete(r)
       PROVE  Shape'
  BY <1>10 DEF Delete, Leave
<1>11. ASSUME NEW o \in Otps, Purge(o)
       PROVE  Shape'
  BY <1>11 DEF Purge
<1>12. CASE Tick
  BY <1>12 DEF Tick
<1> QED BY <1>1, <1>2, <1>3, <1>4, <1>5, <1>6, <1>7, <1>8, <1>9, <1>10, <1>11, <1>12
       DEF Next, Call, Step

-----------------------------------------------------------------------------
(* Replaced and spent OTPs *)

(* Rows have ids that were handed out, and spent ones are gone for good.   *)
Gone ==
  /\ \A o \in Otps : otps[o] # None => o \in used
  /\ \A o \in spent : o \in used /\ otps[o] = None
  /\ \A r \in Requests : otp[r] # None => otp[r] \in used

(* What a call remembers from its beginning still is so. *)
Remembered ==
  \A r \in Requests :
    /\ pc[r] \in {"clear", "cleared", "insert"} => before[r] \subseteq used
    /\ pc[r] \in {"lookup", "loaded", "delete"} => before[r] \subseteq spent
    /\ otp[r] \notin before[r]

IInv == Shape /\ Gone /\ Remembered /\ ExistingReplaced

LEMMA InitIInv == Init => IInv
<1> SUFFICES ASSUME Init
             PROVE  IInv
  OBVIOUS
<1>1. Shape
  BY InitShape
<1>2. Gone /\ Remembered /\ ExistingReplaced
  BY DEF Init, Gone, Remembered, ExistingReplaced
<1> QED BY <1>1, <1>2 DEF IInv

LEMMA NextIInv ==
  ASSUME IInv, [Next]_vars
  PROVE  IInv'
<1> USE DEF Gone, Remembered, ExistingReplaced, OtpsOf, Goto
<1>0. /\ Shape'
      /\ TypeOK
      /\ Gone /\ Remembered /\ ExistingReplaced
      /\ \A r \in Requests : /\ pc[r] # "idle" => session[r] \in Sessions
                             /\ pc[r] = "delete" => otp[r] \in Otps
                             /\ pc[r] = "insert" => row[r] \in Row
                             /\ pc[r] = "idle" => otp[r] = None
  BY NextShape DEF IInv, Shape
<1> DEFINE Rest == Gone /\ Remembered /\ ExistingReplaced
<1>1. CASE UNCHANGED vars
  BY <1>0, <1>1 DEF vars, IInv
<1>2. ASSUME NEW r \in Requests, NEW s \in Sessions, CallCreate(r, s)
      PROVE  Rest'
  BY <1>0, <1>2 DEF CallCreate, TypeOK
<1>3. ASSUME NEW r \in Requests, NEW s \in Sessions, NEW c \in Codes, CallConsume(r, s, c)
      PROVE  Rest'
  BY <1>0, <1>3 DEF CallConsume, TypeOK
<1>4. ASSUME NEW r \in Requests, Clear(r)
      PROVE  Rest'
  BY <1>0, <1>4 DEF Clear, TypeOK
<1>5. ASSUME NEW r \in Requests, NEW c \in Codes, Generate(r, c)
      PROVE  Rest'
  BY <1>0, <1>5 DEF Generate, TypeOK
<1>6. ASSUME NEW r \in Requests, Insert(r)
      PROVE  Rest'
  BY <1>0, <1>6 DEF Insert, Leave, TypeOK
<1>7. ASSUME NEW r \in Requests, Lookup(r)
      PROVE  Rest'
  BY <1>0, <1>7 DEF Lookup, TypeOK
<1>8. ASSUME NEW r \in Requests, Refused(r) \/ Abandon(r)
      PROVE  Rest'
  BY <1>0, <1>8 DEF Refused, Abandon, Leave, TypeOK
<1>9. ASSUME NEW r \in Requests, Accepted(r)
      PROVE  Rest'
  BY <1>0, <1>9 DEF Accepted, TypeOK
<1>10. ASSUME NEW r \in Requests, Delete(r)
       PROVE  Rest'
  BY <1>0, <1>10 DEF Delete, Leave, TypeOK
<1>11. ASSUME NEW o \in Otps, Purge(o)
       PROVE  Rest'
  BY <1>0, <1>11 DEF Purge, TypeOK
<1>12. CASE Tick
  BY <1>0, <1>12 DEF Tick, TypeOK, IInv
<1> QED
  <2>1. Rest' => IInv'
    BY <1>0 DEF IInv
  <2> QED BY <1>1, <1>2, <1>3, <1>4, <1>5, <1>6, <1>7, <1>8, <1>9, <1>10, <1>11, <1>12, <2>1
         DEF Next, Call, Step

-----------------------------------------------------------------------------
(* Theorems *)

(* The inductive invariant: ids are not reused, and what is spent is gone. *)
THEOREM Inductive == Spec => []IInv
BY InitIInv, NextIInv, PTL DEF Spec

(* Rows and calls keep their shapes. *)
THEOREM TypesHold == Spec => []TypeOK
<1>1. IInv => TypeOK
  BY DEF IInv, Shape
<1> QED BY <1>1, Inductive, PTL

(* A create leaves none of the OTPs its session had when it was called.    *)
THEOREM ExistingReplacedHolds == Spec => []ExistingReplaced
<1>1. IInv => ExistingReplaced
  BY DEF IInv
<1> QED BY <1>1, Inductive, PTL

(* No consume accepts an OTP that was accepted or replaced before it began.*)
THEOREM NoSpentAcceptHolds == Spec => []NoSpentAccept
<1>1. IInv => NoSpentAccept
  BY DEF IInv, Remembered, NoSpentAccept
<1> QED BY <1>1, Inductive, PTL

=============================================================================
