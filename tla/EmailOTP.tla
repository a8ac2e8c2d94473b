------------------------------- MODULE EmailOTP -------------------------------
(***************************************************************************)
(* The email OTP factor (reauth/factors/email_otp.py): create deletes the  *)
(* codes of an authentication session and inserts a new one; consume looks *)
(* a code up and deletes it.  Each store operation is an await, so calls   *)
(* for one session can overlap between any two of them.                    *)
(*                                                                         *)
(* A code is a few digits: two OTPs may well have the same.  To whom it    *)
(* was sent is left out: consume returns it as the row has it.             *)
(***************************************************************************)
EXTENDS Naturals

CONSTANTS Otps,     \* ids the store can hand out
          Requests, \* calls that may be in flight together
          Sessions, \* authentication sessions
          Codes,
          Lifetime, \* lifetime of a code, in seconds
          MaxTime,  \* bound on the clock
          None      \* Python's None, and "no row"

(* EmailOTP, its id and recipient aside. *)
Row == [session : Sessions, code : Codes, expires_at : Nat]

ASSUME EmailOTPAssumption ==
  /\ Lifetime \in Nat
  /\ MaxTime \in Nat
  /\ None \notin Otps
  /\ None \notin Sessions
  /\ None \notin Codes
  /\ None \notin Row

VARIABLES now,     \* get_current_timestamp()
          used,    \* ids handed out: they are not reused
          otps,    \* the table of OTPs
          pc,      \* where each call is
          session, \* its authentication session
          code,    \* the code it is given, or has generated
          otp,     \* the id of the OTP consume found
          row,     \* the OTP found, or to be inserted
          before,  \* for create: the OTPs made before the call;
                   \* for consume: the OTPs that were of no use by then
          spent    \* OTPs a consume accepted or a create replaced

vars == <<now, used, otps, pc, session, code, otp, row, before, spent>>

Init ==
  /\ now = 0
  /\ used = {}
  /\ otps = [o \in Otps |-> None]
  /\ pc = [r \in Requests |-> "idle"]
  /\ session = [r \in Requests |-> None]
  /\ code = [r \in Requests |-> None]
  /\ otp = [r \in Requests |-> None]
  /\ row = [r \in Requests |-> None]
  /\ before = [r \in Requests |-> {}]
  /\ spent = {}

Goto(r, label) == pc' = [pc EXCEPT ![r] = label]

(* The call returns, raises, is cancelled or dies. *)
Leave(r) ==
  /\ Goto(r, "idle")
  /\ session' = [session EXCEPT ![r] = None]
  /\ code' = [code EXCEPT ![r] = None]
  /\ otp' = [otp EXCEPT ![r] = None]
  /\ row' = [row EXCEPT ![r] = None]
  /\ before' = [before EXCEPT ![r] = {}]

OtpsOf(s) == {o \in Otps : otps[o] # None /\ otps[o].session = s}

-----------------------------------------------------------------------------
(* create *)

CallCreate(r, s) ==
  /\ pc[r] = "idle"
  /\ session' = [session EXCEPT ![r] = s]
  /\ before' = [before EXCEPT ![r] = used]
  /\ Goto(r, "clear")
  /\ UNCHANGED <<now, used, otps, code, otp, row, spent>>

(* Fault: one OTP is deleted, as if there could not be more. *)
ClearOne(r) ==
  /\ pc[r] = "clear"
  /\ \/ \E o \in OtpsOf(session[r]) :
          /\ otps' = [otps EXCEPT ![o] = None]
          /\ spent' = spent \cup {o}
     \/ OtpsOf(session[r]) = {} /\ UNCHANGED <<otps, spent>>
  /\ Goto(r, "cleared")
  /\ UNCHANGED <<now, used, session, code, otp, row, before>>

(* delete_by_authentication_session_id *)
Clear(r) ==
  /\ pc[r] = "clear"
  /\ otps' = [o \in Otps |-> IF o \in OtpsOf(session[r]) THEN None ELSE otps[o]]
  /\ spent' = spent \cup OtpsOf(session[r])
  /\ Goto(r, "cleared")
  /\ UNCHANGED <<now, used, session, code, otp, row, before>>

(* Fault: the code has no end. *)
GenerateForever(r, c) ==
  /\ pc[r] = "cleared"
  /\ row' = [row EXCEPT ![r] = [session |-> session[r], code |-> c, expires_at |-> None]]
  /\ Goto(r, "insert")
  /\ UNCHANGED <<now, used, otps, session, code, otp, before, spent>>

Generate(r, c) ==
  /\ pc[r] = "cleared"
  /\ row' = [row EXCEPT ![r] = [session    |-> session[r],
                                code       |-> c,
                                expires_at |-> now + Lifetime]]
  /\ Goto(r, "insert")
  /\ UNCHANGED <<now, used, otps, session, code, otp, before, spent>>

Insert(r) ==
  /\ pc[r] = "insert"
  /\ \E o \in Otps \ used :
       /\ otps' = [otps EXCEPT ![o] = row[r]]
       /\ used' = used \cup {o}
  /\ Leave(r)
  /\ UNCHANGED <<now, spent>>

-----------------------------------------------------------------------------
(* consume *)

CallConsume(r, s, c) ==
  /\ pc[r] = "idle"
  /\ session' = [session EXCEPT ![r] = s]
  /\ code' = [code EXCEPT ![r] = c]
  /\ before' = [before EXCEPT ![r] = spent]
  /\ Goto(r, "lookup")
  /\ UNCHANGED <<now, used, otps, otp, row, spent>>

(* If several OTPs match, the store returns any of them. *)
Lookup(r) ==
  LET matching == {o \in OtpsOf(session[r]) : otps[o].code = code[r]}
  IN  /\ pc[r] = "lookup"
      /\ \/ \E o \in matching :
              /\ otp' = [otp EXCEPT ![r] = o]
              /\ row' = [row EXCEPT ![r] = otps[o]]
         \/ matching = {} /\ UNCHANGED <<otp, row>>
      /\ Goto(r, "loaded")
      /\ UNCHANGED <<now, used, otps, session, code, before, spent>>

Usable(o) == o # None /\ now < o.expires_at

Refused(r) ==
  /\ pc[r] = "loaded"
  /\ ~Usable(row[r])
  /\ Leave(r)
  /\ UNCHANGED <<now, used, otps, spent>>

Accepted(r) ==
  /\ pc[r] = "loaded"
  /\ Usable(row[r])
  /\ Goto(r, "delete")
  /\ UNCHANGED <<now, used, otps, session, code, otp, row, before, spent>>

(* Fault: the OTP is left to expire. *)
KeepOtp(r) ==
  /\ pc[r] = "delete"
  /\ spent' = spent \cup {otp[r]}
  /\ Leave(r)
  /\ UNCHANGED <<now, used, otps>>

(* delete does not say whether there was a row to delete. *)
Delete(r) ==
  /\ pc[r] = "delete"
  /\ otps' = [otps EXCEPT ![otp[r]] = None]
  /\ spent' = spent \cup {otp[r]}
  /\ Leave(r)
  /\ UNCHANGED <<now, used>>

-----------------------------------------------------------------------------
(* The environment *)

(* A call raises before its next effect, is cancelled or dies.  (If it has *)
(* its effect and raises, that is the step itself, with nobody told.)      *)
Abandon(r) ==
  /\ pc[r] # "idle"
  /\ Leave(r)
  /\ UNCHANGED <<now, used, otps, spent>>

(* The application deletes an OTP that expired. *)
Purge(o) ==
  /\ otps[o] # None
  /\ now >= otps[o].expires_at
  /\ otps' = [otps EXCEPT ![o] = None]
  /\ UNCHANGED <<now, used, pc, session, code, otp, row, before, spent>>

Tick ==
  /\ now < MaxTime
  /\ now' = now + 1
  /\ UNCHANGED <<used, otps, pc, session, code, otp, row, before, spent>>

Call(r) ==
  \E s \in Sessions :
    \/ CallCreate(r, s)
    \/ \E c \in Codes : CallConsume(r, s, c)

Step(r) ==
  \/ Clear(r)
  \/ \E c \in Codes : Generate(r, c)
  \/ Insert(r)
  \/ Lookup(r)
  \/ Refused(r)
  \/ Accepted(r)
  \/ Delete(r)

Next ==
  \/ \E r \in Requests : Call(r) \/ Step(r) \/ Abandon(r)
  \/ \E o \in Otps : Purge(o)
  \/ Tick

Spec == Init /\ [][Next]_vars

-----------------------------------------------------------------------------
(* Properties *)

(* OTPs, stored and held, are well formed.                                 *)
TypeOK ==
  /\ now \in Nat
  /\ used \subseteq Otps
  /\ otps \in [Otps -> Row \cup {None}]
  /\ pc \in [Requests -> {"idle", "clear", "cleared", "insert", "lookup", "loaded", "delete"}]
  /\ session \in [Requests -> Sessions \cup {None}]
  /\ code \in [Requests -> Codes \cup {None}]
  /\ otp \in [Requests -> Otps \cup {None}]
  /\ row \in [Requests -> Row \cup {None}]
  /\ before \in [Requests -> SUBSET Otps]
  /\ spent \subseteq Otps

(* create: "If an existing OTP for the same authentication session exists, *)
(* it's deleted and replaced".  However many there are, once overlapping   *)
(* calls have left several: none that was made before the call is still    *)
(* there when its own is inserted.                                         *)
ExistingReplaced ==
  \A r \in Requests :
    pc[r] \in {"cleared", "insert"} => OtpsOf(session[r]) \cap before[r] = {}

(* A consume never accepts an OTP that another call had accepted, or       *)
(* replaced, before it began, whatever else is under way.                  *)
NoSpentAccept == \A r \in Requests : pc[r] = "delete" => otp[r] \notin before[r]

=============================================================================
