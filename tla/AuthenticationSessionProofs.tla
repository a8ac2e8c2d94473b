---------------------- MODULE AuthenticationSessionProofs ----------------------
(* Theorems about the authentication session service. *)
EXTENDS AuthenticationSession, TLAPS

-----------------------------------------------------------------------------
(* Sessions *)

(* What a session holds. *)
LEMMA RowFields ==
  ASSUME NEW row \in Row
  PROVE  /\ row.identity \in Identities \cup {None}
         /\ row.step \in Nat
         /\ row.amr \in Seq(Amrs)
         /\ row.used \in Seq(Use)
         /\ row.expires_at \in Nat
BY DEF Row

(* A legal login, attached to the identity of its last factor. *)
Sound(row) == LegalPath(row) /\ Attached(row)

(* start makes a session on which nothing was done yet. *)
LEMMA FreshRow ==
  ASSUME now \in Nat
  PROVE  Fresh \in Row /\ Sound(Fresh)
<1>1. now + Lifetime \in Nat
  BY OtherAssumption
<1>2. Fresh \in Row
  BY <1>1 DEF Fresh, Row
<1>3. Len(<<>>) = 0 /\ DOMAIN <<>> = {} /\ 1..0 = {}
  OBVIOUS
<1>4. /\ Fresh.used = <<>>
      /\ Fresh.amr = <<>>
      /\ Fresh.step = 0
      /\ Fresh.identity = None
  BY DEF Fresh
<1>5. Sound(Fresh)
  BY <1>3, <1>4 DEF Sound, LegalPath, Attached, Reached
<1> QED BY <1>2, <1>5

(* advance adds its factor at the end of the lists, and moves the step.    *)
LEMMA AdvancedFields ==
  ASSUME NEW row \in Row, NEW identity \in Identities, NEW f \in Factors
  PROVE  LET new == Advanced(row, identity, f)
         IN  /\ new \in Row
             /\ new.identity = identity
             /\ new.step = row.step + AdvanceBy[f]
             /\ new.amr = Append(row.amr, Amr[f])
             /\ new.used = Append(row.used, [factor |-> f, identity |-> identity])
             /\ new.expires_at = row.expires_at
<1> DEFINE use == [factor |-> f, identity |-> identity]
           steps == row.step + AdvanceBy[f]
           amrs == Append(row.amr, Amr[f])
           uses == Append(row.used, use)
<1>1. steps \in Nat
  BY RowFields, FactorsAssumption
<1>2. amrs \in Seq(Amrs)
  <2>1. Amr[f] \in Amrs
    BY FactorsAssumption
  <2> QED BY <2>1, RowFields
<1>3. uses \in Seq(Use)
  <2>1. use \in Use
    BY DEF Use
  <2> HIDE DEF use
  <2> QED BY <2>1, RowFields
<1>4. Advanced(row, identity, f) =
        [row EXCEPT !.identity = identity, !.step = steps, !.amr = amrs, !.used = uses]
  BY DEF Advanced
<1> HIDE DEF use, steps, amrs, uses
<1>5. Advanced(row, identity, f) =
        [identity |-> identity, step |-> steps, amr |-> amrs, used |-> uses,
         expires_at |-> row.expires_at]
  BY <1>4 DEF Row
<1>6. Advanced(row, identity, f) \in Row
  BY <1>1, <1>2, <1>3, <1>5, RowFields DEF Row
<1> QED BY <1>5, <1>6 DEF use, steps, amrs, uses

(* It goes on with a legal login, if the factor was a candidate, whichever *)
(* identity is passed.                                                     *)
LEMMA AdvancedSound ==
  ASSUME NEW row \in Row, NEW identity \in Identities, NEW f \in Candidates(row),
         Sound(row)
  PROVE  Sound(Advanced(row, identity, f))
<1> DEFINE new == Advanced(row, identity, f)
           n == Len(row.used)
           use == [factor |-> f, identity |-> identity]
<1>1. /\ f \in Factors
      /\ StepOf[f] = row.step
      /\ Amr[f] \notin Elements(row.amr)
  BY DEF Candidates
<1>2. /\ n \in Nat
      /\ DOMAIN row.used = 1..n
      /\ row.used \in Seq(Use)
      /\ row.amr \in Seq(Amrs)
      /\ DOMAIN row.amr = 1..n
      /\ Len(row.amr) = n
  BY RowFields DEF Sound, LegalPath
<1>3. /\ new.identity = identity
      /\ new.step = row.step + AdvanceBy[f]
      /\ new.amr = Append(row.amr, Amr[f])
      /\ new.used = Append(row.used, use)
  BY <1>1, AdvancedFields
<1> HIDE DEF new
<1>4. /\ Len(new.used) = n + 1
      /\ DOMAIN new.used = 1..(n + 1)
      /\ DOMAIN new.amr = 1..(n + 1)
      /\ new.used[n + 1] = use
      /\ new.amr[n + 1] = Amr[f]
      /\ \A i \in 1..n : new.used[i] = row.used[i] /\ new.amr[i] = row.amr[i]
  BY <1>2, <1>3
<1> HIDE DEF n
<1>5. Reached(new.used, n + 1) = StepOf[f] + AdvanceBy[f]
  BY <1>2, <1>4 DEF Reached
<1>6. \A i \in 0..n : Reached(new.used, i) = Reached(row.used, i)
  BY <1>2, <1>4 DEF Reached
<1>7. \A i \in 1..(n + 1) : StepOf[new.used[i].factor] = Reached(new.used, i - 1)
  <2>1. TAKE i \in 1..(n + 1)
  <2>2. CASE i \in 1..n
    <3>1. StepOf[row.used[i].factor] = Reached(row.used, i - 1)
      BY <2>2 DEF Sound, LegalPath, n
    <3>2. i - 1 \in 0..n
      BY <2>2, <1>2
    <3> QED BY <2>2, <3>1, <3>2, <1>4, <1>6
  <2>3. CASE i = n + 1
    <3>1. row.step = Reached(row.used, n)
      BY DEF Sound, LegalPath, n
    <3> QED BY <2>3, <3>1, <1>1, <1>2, <1>4, <1>6
  <2> QED BY <2>2, <2>3, <1>2
<1>8. new.step = Reached(new.used, n + 1)
  BY <1>1, <1>3, <1>5
<1>9. \A i \in 1..(n + 1) : new.amr[i] = Amr[new.used[i].factor]
  <2>1. \A i \in 1..n : row.amr[i] = Amr[row.used[i].factor]
    BY <1>2 DEF Sound, LegalPath
  <2>2. new.amr[n + 1] = Amr[new.used[n + 1].factor]
    BY <1>4
  <2> QED BY <2>1, <2>2, <1>2, <1>4
<1>10. \A i, j \in 1..(n + 1) : new.amr[i] = new.amr[j] => i = j
  <2>1. \A i \in 1..n : row.amr[i] # Amr[f]
    BY <1>1, <1>2 DEF Elements
  <2>2. \A i, j \in 1..n : row.amr[i] = row.amr[j] => i = j
    BY <1>2 DEF Sound, LegalPath
  <2> QED BY <2>1, <2>2, <1>2, <1>4
<1>11. new.identity # None /\ new.used # <<>>
  <2>1. new.identity # None
    BY <1>3, OtherAssumption
  <2>2. Len(new.used) # 0 /\ Len(<<>>) = 0
    BY <1>2, <1>4
  <2> QED BY <2>1, <2>2
<1>12. Attached(new)
  <2>1. new.used[Len(new.used)] = use
    BY <1>4
  <2>2. new.identity = use.identity
    BY <1>3
  <2> QED BY <2>1, <2>2 DEF Attached
<1>13. Sound(new)
  BY <1>4, <1>7, <1>8, <1>9, <1>10, <1>11, <1>12 DEF Sound, LegalPath
<1> QED BY <1>13 DEF new

-----------------------------------------------------------------------------
(* The inductive invariant *)

Working == {"ready", "scan", "update", "delete"}

(* What a request holds at each place it can be. *)
Held(r) ==
  /\ pc[r] \in {"idle", "insert"} => holds[r] = None
  /\ pc[r] \notin {"idle", "insert"} => holds[r] \in issued
  /\ pc[r] \in {"idle", "lookup"} => copy[r] = None
  /\ pc[r] \in Working \cup {"insert"} => copy[r] # None

(* A scan looks at candidates only, finds what was enrolled, and has yet   *)
(* to look at each of them it has not found, unless that was not enrolled  *)
(* all the while.                                                          *)
Scanning(r) ==
  pc[r] = "scan" =>
    /\ todo[r] \cup found[r] \subseteq Candidates(copy[r])
    /\ copy[r].identity # None =>
         /\ \A f \in found[r] : <<copy[r].identity, f>> \in ever
         /\ steady[r] \subseteq EnrolledFactors(copy[r].identity)
         /\ Candidates(copy[r]) \cap steady[r] \subseteq todo[r] \cup found[r]
    /\ arg[r].op = "advance" => /\ arg[r].factor \in Factors
                                /\ arg[r].identity \in Identities
    /\ arg[r].op = "complete" => copy[r].identity # None

Justified(r) ==
  pc[r] = "delete" => /\ copy[r].identity # None
                      /\ Candidates(copy[r]) \cap steady[r] = {}

Calls == \A r \in Requests : Held(r) /\ Scanning(r) /\ Justified(r)

(* Rows exist for ids that were handed out, and not for completed sessions. *)
Rows ==
  \A s \in Sessions :
    /\ store[s] # None => s \in issued
    /\ completions[s] > 0 => s \in issued /\ store[s] = None

Shapes == TypeOK /\ Calls /\ Rows

-----------------------------------------------------------------------------
(* Types *)

LEMMA InitShapes == Init => Shapes
BY OtherAssumption, FactorsAssumption
   DEF Init, Shapes, TypeOK, Calls, Held, Scanning, Justified, Rows, NoArg, Working

(* Ids are only ever added, and so is what was once enrolled. *)
LEMMA IssuedGrows ==
  ASSUME Shapes, [Next]_vars
  PROVE  issued \subseteq issued' /\ ever \subseteq ever'
<1> DEFINE Grown == issued \subseteq issued' /\ ever \subseteq ever'
<1>1. \A r \in Requests : Call(r) => Grown
  BY DEF Call, CallStart, CallValidate, CallFactors, CallAdvance, CallComplete, BeginScan,
         Environment
<1>2. \A r \in Requests : Step(r) => Grown
  <2>1. \A r \in Requests : Insert(r) \/ Lookup(r) \/ Validated(r) \/ Scan(r) =>
          Grown
    BY DEF Insert, Lookup, Validated, Scan, Environment
  <2>2. \A r \in Requests : FactorsReturned(r) \/ AdvanceRefused(r) \/ AdvanceObject(r)
                          \/ Update(r) => Grown
    BY DEF FactorsReturned, AdvanceRefused, AdvanceObject, Update, Environment
  <2>3. \A r \in Requests : CompleteRefused(r) \/ CompleteDecided(r) \/ Delete(r) =>
          Grown
    BY DEF CompleteRefused, CompleteDecided, Delete, Environment
  <2> QED BY <2>1, <2>2, <2>3 DEF Step
<1>3. \A r \in Requests : Raise(r) \/ Abandon(r) => Grown
  BY DEF Raise, Abandon, Environment
<1>4. \A identity \in Identities, f \in Factors :
        Enroll(identity, f) \/ Unenroll(identity, f) => Grown
  BY DEF Enroll, Unenroll
<1>5. (\E s \in Sessions : Purge(s)) \/ Tick \/ UNCHANGED vars => Grown
  BY DEF Purge, Tick, vars, Environment
<1> QED BY <1>1, <1>2, <1>3, <1>4, <1>5 DEF Next

(* update leaves the object where there was a row, and no row elsewhere.  *)
LEMMA UpdatedRowIs ==
  ASSUME NEW row, NEW object
  PROVE  /\ row = None => UpdatedRow(row, object) = None
         /\ row # None => UpdatedRow(row, object) = object
BY DEF UpdatedRow

(* No row appears. *)
NoNewRow ==
  /\ store' \in [Sessions -> Row \cup {None}]
  /\ \A s \in Sessions : store'[s] # None => store[s] # None

(* A request that leaves, or returns to its caller, is well formed. *)
LEMMA LeaveShapes ==
  ASSUME Shapes, NEW r \in Requests, Leave(r), NoNewRow,
         UNCHANGED <<Environment, completions>>
  PROVE  Shapes'
BY OtherAssumption
   DEF Shapes, TypeOK, Calls, Held, Scanning, Justified, Rows, Leave, ScanOver, Goto, NoArg,
       NoNewRow, Environment, Working, Candidates, EnrolledFactors

LEMMA ReturnShapes ==
  ASSUME Shapes, NEW r \in Requests, Return(r), pc[r] \in Working, NoNewRow,
         UNCHANGED <<Environment, holds, copy, completions>>
  PROVE  Shapes'
BY OtherAssumption
   DEF Shapes, TypeOK, Calls, Held, Scanning, Justified, Rows, Return, ScanOver, Goto, NoArg,
       NoNewRow, Environment, Working, Candidates, EnrolledFactors

LEMMA SameStore ==
  ASSUME Shapes, UNCHANGED store
  PROVE  NoNewRow
BY DEF Shapes, TypeOK, NoNewRow

LEMMA BeginScanShapes ==
  ASSUME Shapes, NEW r \in Requests, copy[r] # None,
         NEW op \in {"factors", "advance", "complete"},
         NEW factor \in Factors \cup {None}, NEW identity \in Identities \cup {None},
         op = "advance" => factor \in Factors /\ identity \in Identities,
         op = "complete" => copy[r].identity # None,
         BeginScan(r, op, factor, identity)
  PROVE  Shapes'
<1>1. /\ Candidates(copy[r]) \subseteq Factors
      /\ EnrolledFactors(copy[r].identity) \subseteq Factors
  BY DEF Candidates, EnrolledFactors
<1>2. TypeOK'
  BY <1>1 DEF Shapes, TypeOK, BeginScan, Goto, Environment
<1>3. Calls'
  <2> SUFFICES ASSUME NEW q \in Requests
               PROVE  (Held(q) /\ Scanning(q) /\ Justified(q))'
    BY DEF Calls
  <2>2. CASE q = r
    BY <2>2 DEF Shapes, TypeOK, Calls, Held, Scanning, Justified, BeginScan, Goto, Environment,
                Working, Candidates, EnrolledFactors
  <2>3. CASE q # r
    BY <2>3 DEF Shapes, TypeOK, Calls, Held, Scanning, Justified, BeginScan, Goto, Environment,
                Working, Candidates, EnrolledFactors
  <2> QED BY <2>2, <2>3
<1>4. Rows'
  BY DEF Shapes, Rows, BeginScan, Environment
<1> QED BY <1>2, <1>3, <1>4 DEF Shapes

LEMMA CallShapes ==
  ASSUME Shapes, NEW r \in Requests, Call(r)
  PROVE  Shapes'
<1> USE OtherAssumption
<1>1. CASE CallStart(r)
  <2>1. Fresh \in Row
    BY FreshRow DEF Shapes, TypeOK
  <2> HIDE DEF Row
  <2> QED BY <1>1, <2>1
          DEF CallStart, Shapes, TypeOK, Calls, Held, Scanning, Justified, Rows, Goto,
              Environment, Working, Candidates, EnrolledFactors
<1>2. ASSUME NEW s \in issued, CallValidate(r, s)
      PROVE  Shapes'
  BY <1>2 DEF CallValidate, Shapes, TypeOK, Calls, Held, Scanning, Justified, Rows, Goto,
              Environment, Working, Candidates, EnrolledFactors
<1>3. CASE CallFactors(r)
  <2>1. copy[r] # None
    BY <1>3 DEF CallFactors, BeginScan, Shapes, Calls, Held, Working
  <2> QED BY <1>3, <2>1, BeginScanShapes DEF CallFactors
<1>4. ASSUME NEW identity \in Identities, NEW f \in Factors, CallAdvance(r, identity, f)
      PROVE  Shapes'
  <2>1. copy[r] # None
    BY <1>4 DEF CallAdvance, BeginScan, Shapes, Calls, Held, Working
  <2> QED BY <1>4, <2>1, BeginScanShapes DEF CallAdvance
<1>5. CASE CallComplete(r)
  BY <1>5, BeginScanShapes DEF CallComplete
<1> QED BY <1>1, <1>2, <1>3, <1>4, <1>5 DEF Call

LEMMA InsertShapes ==
  ASSUME Shapes, NEW r \in Requests, Insert(r)
  PROVE  Shapes'
<1>1. PICK s \in Sessions \ issued :
             /\ issued' = issued \cup {s}
             /\ store' = [store EXCEPT ![s] = copy[r]]
             /\ holds' = [holds EXCEPT ![r] = s]
  BY DEF Insert
<1>2. copy[r] \in Row /\ copy[r] # None
  BY DEF Insert, Shapes, TypeOK, Calls, Held, Working
<1>3. completions[s] = 0
  BY DEF Shapes, TypeOK, Rows
<1>4. TypeOK'
  BY <1>1, <1>2 DEF Insert, Shapes, TypeOK, Goto
<1>5. Calls'
  BY <1>1, <1>2, OtherAssumption
     DEF Insert, Shapes, TypeOK, Calls, Held, Scanning, Justified, Goto, Working, Candidates, EnrolledFactors
<1>6. Rows'
  BY <1>1, <1>3 DEF Insert, Shapes, TypeOK, Rows
<1> QED BY <1>4, <1>5, <1>6 DEF Shapes

LEMMA ReadShapes ==
  ASSUME Shapes, NEW r \in Requests, Lookup(r) \/ Validated(r)
  PROVE  Shapes'
<1>1. CASE Lookup(r)
  <2>1. holds[r] \in Sessions /\ store[holds[r]] \in Row \cup {None}
    BY <1>1 DEF Lookup, Shapes, TypeOK, Calls, Held
  <2> HIDE DEF Row
  <2> QED BY <1>1, <2>1
          DEF Lookup, Shapes, TypeOK, Calls, Held, Scanning, Justified, Rows, Goto,
              Environment, Working, Candidates, EnrolledFactors
<1>2. CASE Validated(r) /\ Usable(copy[r])
  BY <1>2 DEF Validated, Usable, Shapes, TypeOK, Calls, Held, Scanning, Justified, Rows, Goto,
              Environment, Working, Candidates, EnrolledFactors
<1>3. CASE Validated(r) /\ ~Usable(copy[r])
  BY <1>3, LeaveShapes, SameStore DEF Validated
<1> QED BY <1>1, <1>2, <1>3

LEMMA ScanShapes ==
  ASSUME Shapes, NEW r \in Requests, Scan(r)
  PROVE  Shapes'
<1>1. PICK f \in todo[r] :
             /\ todo' = [todo EXCEPT ![r] = @ \ {f}]
             /\ found' = [found EXCEPT ![r] = IF <<copy[r].identity, f>> \in enrolled
                                              THEN @ \cup {f} ELSE @]
  BY DEF Scan
<1>2. f \in Factors /\ f \in Candidates(copy[r])
  BY DEF Scan, Shapes, TypeOK, Calls, Scanning
<1>3. UNCHANGED <<Environment, store, pc, holds, copy, arg, steady, completions>>
  BY DEF Scan
<1>4. TypeOK'
  BY <1>1, <1>2, <1>3 DEF Shapes, TypeOK, Environment
<1>5. Rows'
  BY <1>3 DEF Shapes, Rows, Environment
<1>6. ASSUME NEW q \in Requests
      PROVE  (Held(q) /\ Scanning(q) /\ Justified(q))'
  <2>1. Held(q)' /\ Justified(q)'
    BY <1>3 DEF Shapes, Calls, Held, Justified, Environment, Candidates
  <2>2. CASE q # r
    BY <1>1, <1>3, <2>1, <2>2
       DEF Shapes, TypeOK, Calls, Scanning, Environment, Candidates, EnrolledFactors
  <2>3. CASE q = r
    <3>1. /\ todo'[r] = todo[r] \ {f}
          /\ found[r] \subseteq found'[r]
          /\ found'[r] \subseteq found[r] \cup {f}
          /\ <<copy[r].identity, f>> \in enrolled => f \in found'[r]
      BY <1>1 DEF Shapes, TypeOK
    <3>2. f \in EnrolledFactors(copy[r].identity) => f \in found'[r]
      BY <3>1 DEF EnrolledFactors
    <3>3. Scanning(r)
      BY DEF Shapes, Calls
    <3>4. /\ Candidates(copy[r])' = Candidates(copy[r])
          /\ EnrolledFactors(copy[r].identity)' = EnrolledFactors(copy[r].identity)
      BY <1>3 DEF Candidates, EnrolledFactors, Environment
    <3>5. \A g \in found'[r] : g \in found[r] \/ <<copy[r].identity, g>> \in ever
      BY <1>1 DEF Shapes, TypeOK
    <3>6. Scanning(r)'
      BY <1>2, <1>3, <3>1, <3>2, <3>3, <3>4, <3>5 DEF Scanning, Environment
    <3> QED BY <2>1, <2>3, <3>6
  <2> QED BY <2>2, <2>3
<1> QED BY <1>4, <1>5, <1>6 DEF Shapes, Calls

LEMMA WriteShapes ==
  ASSUME Shapes, NEW r \in Requests,
         pc[r] \in {"update", "delete"},
         NEW row \in {None, UpdatedRow(store[holds[r]], copy[r])},
         store' = [store EXCEPT ![holds[r]] = row]
  PROVE  NoNewRow
<1>1. /\ holds[r] \in Sessions
      /\ copy[r] \in Row
  BY DEF Shapes, TypeOK, Calls, Held, Working
<1>2. row \in Row \cup {None} /\ (row # None => store[holds[r]] # None)
  BY <1>1, UpdatedRowIs
<1> HIDE DEF Row
<1> QED BY <1>1, <1>2 DEF Shapes, TypeOK, NoNewRow

LEMMA AdvanceShapes ==
  ASSUME Shapes, NEW r \in Requests, AdvanceObject(r)
  PROVE  Shapes'
<1> DEFINE new == Advanced(copy[r], arg[r].identity, arg[r].factor)
<1>1. /\ copy[r] \in Row
      /\ arg[r].identity \in Identities
      /\ arg[r].factor \in Factors
  BY DEF AdvanceObject, Scanned, Shapes, TypeOK, Calls, Held, Scanning, Working
<1>2. new \in Row /\ new # None
  <2>1. new \in Row
    BY <1>1, AdvancedFields
  <2> HIDE DEF new, Row
  <2> QED BY <2>1, OtherAssumption
<1>3. /\ copy' = [copy EXCEPT ![r] = new]
      /\ pc' = [pc EXCEPT ![r] = "update"]
      /\ ScanOver(r)
      /\ UNCHANGED <<Environment, store, holds, arg, completions>>
      /\ pc[r] = "scan"
  BY DEF AdvanceObject, Goto, Scanned
<1> HIDE DEF new, Row
<1> QED BY <1>2, <1>3
        DEF Shapes, TypeOK, Calls, Held, Scanning, Justified, Rows, ScanOver, Environment,
            Working, Candidates, EnrolledFactors

LEMMA DecideShapes ==
  ASSUME Shapes, NEW r \in Requests, CompleteDecided(r)
  PROVE  Shapes'
<1>1. copy[r].identity # None /\ Candidates(copy[r]) \cap steady[r] = {}
  BY DEF CompleteDecided, Scanned, Shapes, Calls, Scanning
<1> QED BY <1>1 DEF CompleteDecided, Scanned, Shapes, TypeOK, Calls, Held, Scanning, Justified,
                    Rows, Goto, Environment, Working, Candidates, EnrolledFactors

LEMMA DeleteShapes ==
  ASSUME Shapes, NEW r \in Requests, Delete(r)
  PROVE  Shapes'
<1>1. /\ holds[r] \in Sessions
      /\ holds[r] \in issued
  BY DEF Delete, Shapes, TypeOK, Calls, Held
<1>2. completions[holds[r]] + 1 \in Nat
  BY <1>1 DEF Shapes, TypeOK
<1>3. TypeOK'
  BY <1>1, <1>2, OtherAssumption
     DEF Delete, Leave, ScanOver, Goto, NoArg, Environment, Shapes, TypeOK
<1>4. Calls'
  BY OtherAssumption
     DEF Delete, Leave, ScanOver, Goto, NoArg, Environment, Shapes, TypeOK, Calls, Held,
         Scanning, Justified, Working, Candidates, EnrolledFactors
<1>5. Rows'
  BY <1>1, <1>2 DEF Delete, Environment, Shapes, TypeOK, Rows
<1> QED BY <1>3, <1>4, <1>5 DEF Shapes

LEMMA StepShapes ==
  ASSUME Shapes, NEW r \in Requests, Step(r)
  PROVE  Shapes'
<1>1. CASE Insert(r)
  BY <1>1, InsertShapes
<1>2. CASE Lookup(r) \/ Validated(r)
  BY <1>2, ReadShapes
<1>3. CASE Scan(r)
  BY <1>3, ScanShapes
<1>4. CASE FactorsReturned(r) \/ AdvanceRefused(r) \/ CompleteRefused(r)
  BY <1>4, ReturnShapes, SameStore
     DEF FactorsReturned, AdvanceRefused, CompleteRefused, Scanned, Working
<1>5. CASE AdvanceObject(r)
  BY <1>5, AdvanceShapes
<1>6. CASE Update(r)
  <2>1. /\ pc[r] = "update"
        /\ store' = [store EXCEPT ![holds[r]] = UpdatedRow(store[holds[r]], copy[r])]
    BY <1>6 DEF Update
  <2> QED BY <1>6, <2>1, WriteShapes, ReturnShapes DEF Update, Working
<1>7. CASE CompleteDecided(r)
  BY <1>7, DecideShapes
<1>8. CASE Delete(r)
  BY <1>8, DeleteShapes
<1> QED BY <1>1, <1>2, <1>3, <1>4, <1>5, <1>6, <1>7, <1>8 DEF Step

LEMMA EnvironmentShapes ==
  ASSUME Shapes, \/ \E r \in Requests : Raise(r) \/ Abandon(r)
                 \/ \E identity \in Identities, f \in Factors :
                      Enroll(identity, f) \/ Unenroll(identity, f)
                 \/ \E s \in Sessions : Purge(s)
                 \/ Tick
                 \/ UNCHANGED vars
  PROVE  Shapes'
<1>1. ASSUME NEW r \in Requests, Raise(r)
      PROVE  Shapes'
  <2>1. CASE UNCHANGED store
    BY <1>1, <2>1, ReturnShapes, SameStore DEF Raise, Working
  <2>2. CASE /\ pc[r] = "update"
             /\ store' = [store EXCEPT ![holds[r]] = UpdatedRow(store[holds[r]], copy[r])]
    BY <1>1, <2>2, WriteShapes, ReturnShapes DEF Raise, Working
  <2>3. CASE pc[r] = "delete" /\ store' = [store EXCEPT ![holds[r]] = None]
    BY <1>1, <2>3, WriteShapes, ReturnShapes DEF Raise, Working
  <2> QED BY <1>1, <2>1, <2>2, <2>3 DEF Raise
<1>2. ASSUME NEW r \in Requests, Abandon(r)
      PROVE  Shapes'
  BY <1>2, LeaveShapes, SameStore DEF Abandon
<1>3. ASSUME NEW identity \in Identities, NEW f \in Factors, Enroll(identity, f)
      PROVE  Shapes'
  <2>1. TypeOK' /\ Rows'
    BY <1>3 DEF Enroll, Shapes, TypeOK, Rows
  <2>2. \A someone \in Identities : EnrolledFactors(someone) \subseteq EnrolledFactors(someone)'
    BY <1>3 DEF Enroll, EnrolledFactors
  <2>3. Calls'
    BY <1>3, <2>2 DEF Enroll, Shapes, TypeOK, Calls, Held, Scanning, Justified, Candidates,
                      EnrolledFactors
  <2> QED BY <2>1, <2>3 DEF Shapes
<1>4. ASSUME NEW identity \in Identities, NEW f \in Factors, Unenroll(identity, f)
      PROVE  Shapes'
  <2>1. TypeOK' /\ Rows'
    BY <1>4 DEF Unenroll, Shapes, TypeOK, Rows
  <2>2. Calls'
    BY <1>4 DEF Unenroll, Shapes, TypeOK, Calls, Held, Scanning, Justified, Candidates,
                EnrolledFactors
  <2> QED BY <2>1, <2>2 DEF Shapes
<1>5. ASSUME NEW s \in Sessions, Purge(s)
      PROVE  Shapes'
  BY <1>5 DEF Purge, Shapes, TypeOK, Calls, Held, Scanning, Justified, Rows, Environment,
              Candidates, EnrolledFactors
<1>6. CASE Tick
  BY <1>6 DEF Tick, Shapes, TypeOK, Calls, Held, Scanning, Justified, Rows, Candidates,
              EnrolledFactors
<1>7. CASE UNCHANGED vars
  BY <1>7 DEF vars, Shapes, TypeOK, Calls, Held, Scanning, Justified, Rows, Candidates,
              EnrolledFactors
<1> QED BY <1>1, <1>2, <1>3, <1>4, <1>5, <1>6, <1>7

LEMMA NextShapes == Shapes /\ [Next]_vars => Shapes'
BY CallShapes, StepShapes, EnvironmentShapes DEF Next

(* Whatever requests overlap and whatever fails, stored sessions and the   *)
(* objects that requests hold are well formed.                             *)
THEOREM TypesHold == Spec => []TypeOK
<1>1. Shapes => TypeOK
  BY DEF Shapes
<1> QED BY <1>1, InitShapes, NextShapes, PTL DEF Spec

(* complete decides on a full scan: it does not pass over a factor of the  *)
(* session's step that was enrolled throughout.                            *)
THEOREM CompletionHolds == Spec => []CompletionJustified
<1>1. Shapes => CompletionJustified
  BY DEF Shapes, Calls, Justified, CompletionJustified
<1> QED BY <1>1, InitShapes, NextShapes, PTL DEF Spec

(* No update, in whatever order it comes, restores a completed session.    *)
THEOREM CompletedIsGoneHolds == Spec => []CompletedIsGone
<1>1. Shapes => CompletedIsGone
  BY DEF Shapes, Rows, CompletedIsGone
<1> QED BY <1>1, InitShapes, NextShapes, PTL DEF Spec

-----------------------------------------------------------------------------
(* What a step does to sessions and to who holds them *)

Started(r) ==
  /\ holds[r] = None
  /\ copy' = [copy EXCEPT ![r] = Fresh]
  /\ UNCHANGED <<issued, store, holds, completions>>

Inserted(r, s) ==
  /\ holds[r] = None
  /\ copy[r] # None
  /\ issued' = issued \cup {s}
  /\ store' = [store EXCEPT ![s] = copy[r]]
  /\ holds' = [holds EXCEPT ![r] = s]
  /\ UNCHANGED <<copy, completions>>

Presented(r, s) ==
  /\ Free(s)
  /\ copy[r] = None
  /\ holds' = [holds EXCEPT ![r] = s]
  /\ UNCHANGED <<issued, store, copy, completions>>

Read(r) ==
  /\ holds[r] \in issued
  /\ copy' = [copy EXCEPT ![r] = store[holds[r]]]
  /\ UNCHANGED <<issued, store, holds, completions>>

Left(r) ==
  /\ holds' = [holds EXCEPT ![r] = None]
  /\ copy' = [copy EXCEPT ![r] = None]
  /\ UNCHANGED <<issued, store, completions>>

Moved(r) ==
  /\ holds[r] \in issued
  /\ copy[r] # None
  /\ \E identity \in Identities, f \in Candidates(copy[r]) :
       /\ copy[r].identity # None => <<copy[r].identity, f>> \in ever
       /\ copy' = [copy EXCEPT ![r] = Advanced(copy[r], identity, f)]
  /\ UNCHANGED <<issued, store, holds, completions>>

Wrote(r) ==
  /\ holds[r] \in issued
  /\ copy[r] # None
  /\ store' = [store EXCEPT ![holds[r]] = UpdatedRow(store[holds[r]], copy[r])]
  /\ UNCHANGED <<issued, holds, copy, completions>>

Deleted(s) ==
  /\ store' = [store EXCEPT ![s] = None]
  /\ UNCHANGED <<issued, holds, copy, completions>>

Completed(r) ==
  /\ holds[r] \in issued
  /\ copy[r] # None
  /\ store' = [store EXCEPT ![holds[r]] = None]
  /\ completions' = [completions EXCEPT ![holds[r]] = @ + 1]
  /\ holds' = [holds EXCEPT ![r] = None]
  /\ copy' = [copy EXCEPT ![r] = None]
  /\ UNCHANGED issued

Still == UNCHANGED <<issued, store, holds, copy, completions>>

Effect ==
  \/ Still
  \/ \E r \in Requests : Started(r) \/ Read(r) \/ Left(r) \/ Moved(r) \/ Wrote(r) \/ Completed(r)
  \/ \E r \in Requests, s \in Sessions \ issued : Inserted(r, s)
  \/ \E r \in Requests, s \in issued : Presented(r, s)
  \/ \E s \in Sessions : Deleted(s)

LEMMA CallEffect ==
  ASSUME Shapes, NEW r \in Requests, Call(r)
  PROVE  Effect
<1>1. CASE CallStart(r)
  BY <1>1 DEF CallStart, Environment, Shapes, Calls, Held, Started, Effect
<1>2. ASSUME NEW s \in issued, CallValidate(r, s)
      PROVE  Effect
  BY <1>2 DEF CallValidate, Environment, Shapes, Calls, Held, Presented, Effect
<1>3. CASE CallFactors(r)
  BY <1>3 DEF CallFactors, BeginScan, Environment, Still, Effect
<1>4. ASSUME NEW identity \in Identities, NEW f \in Factors, CallAdvance(r, identity, f)
      PROVE  Effect
  BY <1>4 DEF CallAdvance, BeginScan, Environment, Still, Effect
<1>5. CASE CallComplete(r)
  BY <1>5 DEF CallComplete, BeginScan, Environment, Still, Effect
<1> QED BY <1>1, <1>2, <1>3, <1>4, <1>5 DEF Call

LEMMA StepEffect ==
  ASSUME Shapes, NEW r \in Requests, Step(r)
  PROVE  Effect
<1>1. CASE Insert(r)
  BY <1>1 DEF Insert, Shapes, Calls, Held, Working, Inserted, Effect
<1>2. CASE Lookup(r)
  BY <1>2 DEF Lookup, Environment, Shapes, Calls, Held, Read, Effect
<1>3. CASE Validated(r)
  BY <1>3 DEF Validated, Leave, Environment, Left, Still, Effect
<1>4. CASE Scan(r)
  BY <1>4 DEF Scan, Environment, Still, Effect
<1>5. CASE FactorsReturned(r) \/ AdvanceRefused(r) \/ CompleteRefused(r) \/ CompleteDecided(r)
  BY <1>5 DEF FactorsReturned, AdvanceRefused, CompleteRefused, CompleteDecided, Environment,
              Still, Effect
<1>6. CASE AdvanceObject(r)
  <2>1. /\ arg[r].identity \in Identities
        /\ arg[r].factor \in Candidates(copy[r])
        /\ copy[r].identity # None => <<copy[r].identity, arg[r].factor>> \in ever
        /\ holds[r] \in issued
        /\ copy[r] # None
    BY <1>6 DEF AdvanceObject, Scanned, Shapes, Calls, Held, Scanning, Working
  <2>2. Moved(r)
    BY <1>6, <2>1 DEF AdvanceObject, Environment, Moved
  <2> QED BY <2>2 DEF Effect
<1>7. CASE Update(r)
  <2>1. Wrote(r)
    BY <1>7 DEF Update, Environment, Shapes, Calls, Held, Working, Wrote
  <2> QED BY <2>1 DEF Effect
<1>8. CASE Delete(r)
  <2>1. Completed(r)
    BY <1>8 DEF Delete, Leave, Environment, Shapes, Calls, Held, Working, Completed
  <2> QED BY <2>1 DEF Effect
<1> QED BY <1>1, <1>2, <1>3, <1>4, <1>5, <1>6, <1>7, <1>8 DEF Step

LEMMA NextEffect ==
  ASSUME Shapes, [Next]_vars
  PROVE  Effect
<1>1. ASSUME NEW r \in Requests, Raise(r)
      PROVE  Effect
  <2>1. CASE UNCHANGED store
    BY <1>1, <2>1 DEF Raise, Environment, Still, Effect
  <2>2. CASE /\ pc[r] = "update"
             /\ store' = [store EXCEPT ![holds[r]] = UpdatedRow(store[holds[r]], copy[r])]
    BY <1>1, <2>2 DEF Raise, Environment, Shapes, Calls, Held, Working, Wrote, Effect
  <2>3. CASE pc[r] = "delete" /\ store' = [store EXCEPT ![holds[r]] = None]
    <3>1. holds[r] \in Sessions
      BY <2>3 DEF Shapes, TypeOK, Calls, Held
    <3> QED BY <1>1, <2>3, <3>1 DEF Raise, Environment, Deleted, Effect
  <2> QED BY <1>1, <2>1, <2>2, <2>3 DEF Raise
<1>2. ASSUME NEW r \in Requests, Abandon(r)
      PROVE  Effect
  BY <1>2 DEF Abandon, Leave, Environment, Left, Effect
<1>3. ASSUME NEW identity \in Identities, NEW f \in Factors,
             Enroll(identity, f) \/ Unenroll(identity, f)
      PROVE  Effect
  BY <1>3 DEF Enroll, Unenroll, Still, Effect
<1>4. ASSUME NEW s \in Sessions, Purge(s)
      PROVE  Effect
  BY <1>4 DEF Purge, Environment, Deleted, Effect
<1>5. CASE Tick \/ UNCHANGED vars
  BY <1>5 DEF Tick, vars, Still, Effect
<1> QED BY <1>1, <1>2, <1>3, <1>4, <1>5, CallEffect, StepEffect DEF Next

-----------------------------------------------------------------------------
(* Legal logins *)

Paths ==
  /\ \A s \in Sessions : store[s] # None => Sound(store[s])
  /\ \A r \in Requests : copy[r] # None => Sound(copy[r])

LEMMA InitPaths == Init => Paths
BY DEF Init, Paths

LEMMA NextPaths ==
  ASSUME Shapes, Paths, Effect
  PROVE  Paths'
<1> USE DEF Paths
<1>0. /\ store \in [Sessions -> Row \cup {None}]
      /\ copy \in [Requests -> Row \cup {None}]
      /\ issued \subseteq Sessions
      /\ now \in Nat
  BY DEF Shapes, TypeOK
<1> HIDE DEF Row
<1>1. CASE Still
  BY <1>1 DEF Still
<1>2. ASSUME NEW r \in Requests, Started(r)
      PROVE  Paths'
  BY <1>0, <1>2, FreshRow DEF Started
<1>3. ASSUME NEW r \in Requests, NEW s \in Sessions \ issued, Inserted(r, s)
      PROVE  Paths'
  BY <1>0, <1>3 DEF Inserted
<1>4. ASSUME NEW r \in Requests, NEW s \in issued, Presented(r, s)
      PROVE  Paths'
  BY <1>4 DEF Presented
<1>5. ASSUME NEW r \in Requests, Read(r)
      PROVE  Paths'
  BY <1>0, <1>5 DEF Read
<1>6. ASSUME NEW r \in Requests, Left(r)
      PROVE  Paths'
  BY <1>0, <1>6 DEF Left
<1>7. ASSUME NEW r \in Requests, Moved(r)
      PROVE  Paths'
  <2>1. PICK identity \in Identities, f \in Candidates(copy[r]) :
               copy' = [copy EXCEPT ![r] = Advanced(copy[r], identity, f)]
    BY <1>7 DEF Moved
  <2>2. Sound(Advanced(copy[r], identity, f))
    BY <1>0, <1>7, <2>1, AdvancedSound DEF Moved
  <2> QED BY <1>0, <1>7, <2>1, <2>2 DEF Moved
<1>8. ASSUME NEW r \in Requests, Wrote(r)
      PROVE  Paths'
  BY <1>0, <1>8, UpdatedRowIs DEF Wrote
<1>9. ASSUME NEW s \in Sessions, Deleted(s)
      PROVE  Paths'
  BY <1>0, <1>9 DEF Deleted
<1>10. ASSUME NEW r \in Requests, Completed(r)
       PROVE  Paths'
  BY <1>0, <1>10 DEF Completed
<1> QED BY <1>1, <1>2, <1>3, <1>4, <1>5, <1>6, <1>7, <1>8, <1>9, <1>10 DEF Effect

(* Every factor after the first was known to be enrolled for the identity  *)
(* that the one before was completed for.                                  *)
LookedUp(row, known) ==
  \A i \in 2..Len(row.used) :
    <<row.used[i - 1].identity, row.used[i].factor>> \in known

Lookups ==
  /\ \A s \in Sessions : store[s] # None => LookedUp(store[s], ever)
  /\ \A r \in Requests : copy[r] # None => LookedUp(copy[r], ever)

LEMMA AdvancedLookedUp ==
  ASSUME NEW row \in Row, NEW identity \in Identities, NEW f \in Factors, NEW known,
         Sound(row), LookedUp(row, known),
         row.identity # None => <<row.identity, f>> \in known
  PROVE  LookedUp(Advanced(row, identity, f), known)
<1> DEFINE new == Advanced(row, identity, f)
           n == Len(row.used)
           use == [factor |-> f, identity |-> identity]
<1>1. new.used = Append(row.used, use) /\ row.used \in Seq(Use)
  BY AdvancedFields, RowFields
<1> HIDE DEF new
<1>2. /\ n \in Nat
      /\ Len(new.used) = n + 1
      /\ new.used[n + 1] = use
      /\ \A i \in 1..n : new.used[i] = row.used[i]
  BY <1>1
<1>3. n # 0 => row.identity # None /\ row.used[n].identity = row.identity
  BY <1>1 DEF Sound, LegalPath, Attached
<1>4. ASSUME NEW i \in 2..(n + 1)
      PROVE  <<new.used[i - 1].identity, new.used[i].factor>> \in known
  <2>1. CASE i = n + 1
    <3>1. n # 0 /\ n \in 1..n /\ i - 1 = n
      BY <1>2, <1>4, <2>1
    <3>2. new.used[i - 1].identity = row.identity /\ new.used[i].factor = f
      BY <1>2, <1>3, <2>1, <3>1
    <3> QED BY <1>3, <3>1, <3>2
  <2>2. CASE i # n + 1
    <3>1. i \in 2..n /\ i \in 1..n /\ i - 1 \in 1..n
      BY <1>2, <1>4, <2>2
    <3>2. <<row.used[i - 1].identity, row.used[i].factor>> \in known
      BY <3>1 DEF LookedUp
    <3> QED BY <1>2, <3>1, <3>2
  <2> QED BY <2>1, <2>2
<1> QED BY <1>2, <1>4 DEF LookedUp, new

LEMMA InitLookups == Init => Lookups
BY DEF Init, Lookups

LEMMA NextLookups ==
  ASSUME Shapes, Paths, Lookups, Effect, ever \subseteq ever'
  PROVE  Lookups'
<1>1. /\ store \in [Sessions -> Row \cup {None}]
      /\ copy \in [Requests -> Row \cup {None}]
      /\ issued \subseteq Sessions
  BY DEF Shapes, TypeOK
<1>2. /\ \A s \in Sessions : store[s] # None => LookedUp(store[s], ever')
      /\ \A r \in Requests : copy[r] # None => LookedUp(copy[r], ever')
  BY DEF Lookups, LookedUp
<1>3. LookedUp(Fresh, ever')
  <2>1. Fresh.used = <<>> /\ Len(<<>>) = 0 /\ 2..0 = {}
    BY DEF Fresh
  <2> QED BY <2>1 DEF LookedUp
<1>4. ASSUME NEW r \in Requests, Moved(r)
      PROVE  Lookups'
  <2>1. PICK identity \in Identities, f \in Candidates(copy[r]) :
               /\ copy[r].identity # None => <<copy[r].identity, f>> \in ever
               /\ copy' = [copy EXCEPT ![r] = Advanced(copy[r], identity, f)]
    BY <1>4 DEF Moved
  <2>2. /\ copy[r] # None
        /\ copy[r] \in Row
        /\ Sound(copy[r])
        /\ LookedUp(copy[r], ever')
        /\ f \in Factors
    BY <1>1, <1>2, <1>4 DEF Moved, Paths, Candidates
  <2>3. LookedUp(Advanced(copy[r], identity, f), ever')
    BY <2>1, <2>2, AdvancedLookedUp
  <2> HIDE DEF Row
  <2> QED BY <1>1, <1>2, <1>4, <2>1, <2>3 DEF Moved, Lookups
<1>5. ASSUME NEW r \in Requests, Wrote(r)
      PROVE  Lookups'
  BY <1>1, <1>2, <1>5, UpdatedRowIs DEF Wrote, Lookups
<1> HIDE DEF Row
<1>6. CASE \/ Still
           \/ \E r \in Requests : Started(r) \/ Read(r) \/ Left(r) \/ Completed(r)
           \/ \E r \in Requests, s \in Sessions \ issued : Inserted(r, s)
           \/ \E r \in Requests, s \in issued : Presented(r, s)
           \/ \E s \in Sessions : Deleted(s)
  BY <1>1, <1>2, <1>3, <1>6
     DEF Still, Started, Read, Left, Completed, Inserted, Presented, Deleted, Lookups
<1> QED BY <1>4, <1>5, <1>6 DEF Effect

(* What is left of a row in the store agrees with its expiry in the copies. *)
Agreed ==
  \A r \in Requests :
    /\ holds[r] # None
    /\ copy[r] # None
    /\ store[holds[r]] # None
    => copy[r].expires_at = store[holds[r]].expires_at

(* advance does not make a session last longer. *)
LEMMA AdvancedExpiry ==
  ASSUME NEW row \in Row, NEW identity \in Identities, NEW f \in Factors
  PROVE  Advanced(row, identity, f).expires_at = row.expires_at
BY DEF Advanced, Row

LEMMA InitAgreed == Init => Agreed
BY DEF Init, Agreed

LEMMA NextAgreed ==
  ASSUME Shapes, Agreed, Effect
  PROVE  Agreed'
<1> USE DEF Agreed
<1>0. /\ store \in [Sessions -> Row \cup {None}]
      /\ copy \in [Requests -> Row \cup {None}]
      /\ holds \in [Requests -> Sessions \cup {None}]
      /\ issued \subseteq Sessions
      /\ None \notin Sessions
      /\ \A r \in Requests : holds[r] # None => holds[r] \in issued
  BY OtherAssumption DEF Shapes, TypeOK, Calls, Held
<1> HIDE DEF Row
<1>1. CASE Still
  BY <1>1 DEF Still
<1>2. ASSUME NEW r \in Requests, Started(r)
      PROVE  Agreed'
  BY <1>0, <1>2 DEF Started
<1>3. ASSUME NEW r \in Requests, NEW s \in Sessions \ issued, Inserted(r, s)
      PROVE  Agreed'
  BY <1>0, <1>3 DEF Inserted
<1>4. ASSUME NEW r \in Requests, NEW s \in issued, Presented(r, s)
      PROVE  Agreed'
  BY <1>0, <1>4 DEF Presented
<1>5. ASSUME NEW r \in Requests, Read(r)
      PROVE  Agreed'
  BY <1>0, <1>5 DEF Read
<1>6. ASSUME NEW r \in Requests, Left(r)
      PROVE  Agreed'
  BY <1>0, <1>6 DEF Left
<1>7. ASSUME NEW r \in Requests, Moved(r)
      PROVE  Agreed'
  <2>1. PICK identity \in Identities, f \in Candidates(copy[r]) :
               copy' = [copy EXCEPT ![r] = Advanced(copy[r], identity, f)]
    BY <1>7 DEF Moved
  <2>2. Advanced(copy[r], identity, f).expires_at = copy[r].expires_at
    <3>1. copy[r] \in Row /\ f \in Factors
      BY <1>0, <1>7 DEF Moved, Candidates
    <3> QED BY <3>1, AdvancedExpiry
  <2> QED BY <1>0, <1>7, <2>1, <2>2 DEF Moved
<1>8. ASSUME NEW r \in Requests, Wrote(r)
      PROVE  Agreed'
  <2>1. store'[holds[r]] = UpdatedRow(store[holds[r]], copy[r])
    BY <1>0, <1>8 DEF Wrote
  <2>2. \A s \in Sessions : s # holds[r] => store'[s] = store[s]
    BY <1>0, <1>8 DEF Wrote
  <2>3. store'[holds[r]] # None =>
          /\ store[holds[r]] # None
          /\ store'[holds[r]].expires_at = store[holds[r]].expires_at
    BY <1>0, <1>8, <2>1, UpdatedRowIs DEF Wrote
  <2> QED BY <1>0, <1>8, <2>2, <2>3 DEF Wrote
<1>9. ASSUME NEW s \in Sessions, Deleted(s)
      PROVE  Agreed'
  BY <1>0, <1>9 DEF Deleted
<1>10. ASSUME NEW r \in Requests, Completed(r)
       PROVE  Agreed'
  BY <1>0, <1>10 DEF Completed
<1> QED BY <1>1, <1>2, <1>3, <1>4, <1>5, <1>6, <1>7, <1>8, <1>9, <1>10 DEF Effect

-----------------------------------------------------------------------------
(* Requests that take turns *)

Extends(long, short) ==
  /\ Len(short) <= Len(long)
  /\ \A i \in DOMAIN short : long[i] = short[i]

Ahead(object, row) == Extends(object.used, row.used)

(* A session has one holder, whose copy is the row or ahead of it; nobody  *)
(* holds a copy of a completed session.                                    *)
Turns ==
  TakeTurns =>
    /\ \A q, r \in Requests : holds[q] = holds[r] /\ holds[q] # None => q = r
    /\ \A s \in Sessions : completions[s] <= 1
    /\ \A r \in Requests :
         holds[r] # None /\ copy[r] # None =>
           /\ completions[holds[r]] = 0
           /\ store[holds[r]] # None => Ahead(copy[r], store[holds[r]])

LEMMA AheadOfItself ==
  ASSUME NEW row \in Row
  PROVE  Ahead(row, row)
BY RowFields DEF Ahead, Extends

LEMMA AdvancedAhead ==
  ASSUME NEW object \in Row, NEW row \in Row, Ahead(object, row),
         NEW identity \in Identities, NEW f \in Factors
  PROVE  Ahead(Advanced(object, identity, f), row)
<1> DEFINE new == Advanced(object, identity, f)
           use == [factor |-> f, identity |-> identity]
<1>1. new.used = Append(object.used, use)
  BY AdvancedFields
<1> HIDE DEF new, use
<1>2. object.used \in Seq(Use) /\ row.used \in Seq(Use)
  BY RowFields
<1>3. /\ Len(row.used) <= Len(object.used)
      /\ \A i \in DOMAIN row.used : object.used[i] = row.used[i]
  BY DEF Ahead, Extends
<1>4. /\ Len(new.used) = Len(object.used) + 1
      /\ \A i \in 1..Len(object.used) : new.used[i] = object.used[i]
  BY <1>1, <1>2
<1>5. Extends(new.used, row.used)
  <2>1. /\ Len(row.used) \in Nat
        /\ Len(object.used) \in Nat
        /\ DOMAIN row.used = 1..Len(row.used)
    BY <1>2
  <2>2. DOMAIN row.used \subseteq 1..Len(object.used)
    BY <1>3, <2>1
  <2>3. Len(row.used) <= Len(new.used)
    BY <1>3, <1>4, <2>1
  <2> QED BY <1>3, <1>4, <2>2, <2>3 DEF Extends
<1>6. Ahead(new, row)
  BY <1>5 DEF Ahead
<1> QED BY <1>6 DEF new

LEMMA InitTurns == Init => Turns
BY DEF Init, Turns

LEMMA NextTurns ==
  ASSUME Shapes, Turns, Effect
  PROVE  Turns'
<1> SUFFICES ASSUME TakeTurns
             PROVE  Turns'
  BY DEF Turns
<1> USE DEF Turns
<1>0. /\ store \in [Sessions -> Row \cup {None}]
      /\ copy \in [Requests -> Row \cup {None}]
      /\ holds \in [Requests -> Sessions \cup {None}]
      /\ completions \in [Sessions -> Nat]
      /\ issued \subseteq Sessions
      /\ None \notin Sessions
      /\ \A r \in Requests : holds[r] # None => holds[r] \in issued
      /\ \A s \in Sessions : completions[s] > 0 => s \in issued /\ store[s] = None
      /\ \A s \in Sessions : completions[s] > 0 \/ completions[s] = 0
  BY OtherAssumption DEF Shapes, TypeOK, Calls, Held, Rows
<1> HIDE DEF Row
<1>1. CASE Still
  BY <1>1 DEF Still
<1>2. ASSUME NEW r \in Requests, Started(r)
      PROVE  Turns'
  BY <1>0, <1>2 DEF Started
<1>3. ASSUME NEW r \in Requests, NEW s \in Sessions \ issued, Inserted(r, s)
      PROVE  Turns'
  BY <1>0, <1>3, AheadOfItself DEF Inserted
<1>4. ASSUME NEW r \in Requests, NEW s \in issued, Presented(r, s)
      PROVE  Turns'
  BY <1>0, <1>4 DEF Presented, Free
<1>5. ASSUME NEW r \in Requests, Read(r)
      PROVE  Turns'
  BY <1>0, <1>5, AheadOfItself DEF Read
<1>6. ASSUME NEW r \in Requests, Left(r)
      PROVE  Turns'
  BY <1>0, <1>6 DEF Left
<1>7. ASSUME NEW r \in Requests, Moved(r)
      PROVE  Turns'
  <2>1. PICK identity \in Identities, f \in Candidates(copy[r]) :
               copy' = [copy EXCEPT ![r] = Advanced(copy[r], identity, f)]
    BY <1>7 DEF Moved
  <2>2. copy[r] \in Row /\ copy[r] # None /\ f \in Factors
    BY <1>0, <1>7 DEF Moved, Candidates
  <2>3. holds[r] # None /\ store[holds[r]] # None =>
          Ahead(Advanced(copy[r], identity, f), store[holds[r]])
    BY <1>0, <2>1, <2>2, AdvancedAhead
  <2> QED BY <1>0, <1>7, <2>1, <2>2, <2>3 DEF Moved
<1>8. ASSUME NEW r \in Requests, Wrote(r)
      PROVE  Turns'
  <2>1. /\ store' = [store EXCEPT ![holds[r]] = UpdatedRow(store[holds[r]], copy[r])]
        /\ UNCHANGED <<issued, holds, copy, completions>>
        /\ holds[r] \in Sessions
        /\ copy[r] \in Row
    BY <1>0, <1>8 DEF Wrote
  <2>2. store'[holds[r]] # None => Ahead(copy[r], store'[holds[r]])
    BY <1>0, <2>1, UpdatedRowIs, AheadOfItself
  <2>3. \A q \in Requests : q # r => holds[q] # holds[r]
    BY <1>0, <2>1
  <2>4. ASSUME NEW q \in Requests, holds[q] # None, copy[q] # None, store'[holds[q]] # None
        PROVE  Ahead(copy[q], store'[holds[q]])
    BY <1>0, <2>1, <2>2, <2>3, <2>4
  <2> QED BY <1>0, <2>1, <2>4
<1>9. ASSUME NEW s \in Sessions, Deleted(s)
      PROVE  Turns'
  BY <1>0, <1>9 DEF Deleted
<1>10. ASSUME NEW r \in Requests, Completed(r)
       PROVE  Turns'
  <2> DEFINE s == holds[r]
  <2>0. s \in Sessions /\ s # None /\ copy[r] # None
    BY <1>0, <1>10 DEF Completed
  <2>1. /\ s \in Sessions
        /\ completions[s] = 0
        /\ completions' = [completions EXCEPT ![s] = 1]
    <3>1. completions[s] = 0
      BY <2>0
    <3>2. completions' = [completions EXCEPT ![s] = completions[s] + 1]
      BY <1>10 DEF Completed
    <3> HIDE DEF s
    <3> QED BY <2>0, <3>1, <3>2
  <2>2. \A q \in Requests : q # r => holds[q] # holds[r]
    BY <1>0, <2>1
  <2> QED BY <1>0, <1>10, <2>1, <2>2 DEF Completed
<1> QED BY <1>1, <1>2, <1>3, <1>4, <1>5, <1>6, <1>7, <1>8, <1>9, <1>10 DEF Effect

-----------------------------------------------------------------------------
(* Theorems *)

IInv == Shapes /\ Paths /\ Lookups /\ Agreed /\ Turns

LEMMA InitIInv == Init => IInv
BY InitShapes, InitPaths, InitLookups, InitAgreed, InitTurns DEF IInv

LEMMA NextIInv == IInv /\ [Next]_vars => IInv'
BY NextShapes, IssuedGrows, NextEffect, NextPaths, NextLookups, NextAgreed, NextTurns
   DEF IInv

(* The inductive invariant: what requests hold, legal logins, what was     *)
(* looked up, one expiry, and turns.                                       *)
THEOREM Inductive == Spec => []IInv
BY InitIInv, NextIInv, PTL DEF Spec

(* Whatever updates are lost or late, every session anybody can see is one *)
(* legal sequence of factors.                                              *)
THEOREM PathHolds == Spec => []PathIsLegal
<1>1. IInv => PathIsLegal
  BY DEF IInv, Shapes, TypeOK, Paths, Sound, PathIsLegal, Objects, Elements
<1> QED BY <1>1, Inductive, PTL

(* Whichever identities requests pass and however they overwrite each      *)
(* other, the identity attached is that of the last factor, and each later *)
(* factor was enrolled for the identity attached before it.                *)
THEOREM FactorsEnrolledHolds == Spec => []FactorsEnrolled
<1>1. IInv => FactorsEnrolled
  <2>1. ASSUME IInv, NEW row \in Objects
        PROVE  Sound(row) /\ LookedUp(row, ever)
    <3>1. DOMAIN store = Sessions /\ DOMAIN copy = Requests
      BY <2>1 DEF IInv, Shapes, TypeOK
    <3> HIDE DEF Sound, LookedUp
    <3> QED BY <2>1, <3>1 DEF IInv, Paths, Lookups, Objects, Elements
  <2> QED BY <2>1 DEF Sound, LookedUp, FactorsEnrolled
<1> QED BY <1>1, Inductive, PTL

(* When requests take turns a session is completed at most once.           *)
THEOREM CompletedOnceHolds == Spec => []CompletedOnce
<1>1. IInv => CompletedOnce
  BY DEF IInv, Turns, CompletedOnce
<1> QED BY <1>1, Inductive, PTL

(* No step restores a deleted session or moves an expiry.                  *)
THEOREM LifeHolds == Spec => LifeNotProlonged
<1>1. ASSUME IInv, [Next]_vars, NEW s \in issued, store'[s] # None
      PROVE  store[s] # None /\ store'[s].expires_at = store[s].expires_at
  <2>0. /\ store \in [Sessions -> Row \cup {None}]
        /\ holds \in [Requests -> Sessions \cup {None}]
        /\ issued \subseteq Sessions
        /\ None \notin Sessions
        /\ Agreed
        /\ Effect
    BY <1>1, OtherAssumption, NextEffect DEF IInv, Shapes, TypeOK
  <2>1. CASE store'[s] = store[s]
    BY <1>1, <2>1
  <2>2. CASE \E r \in Requests : Wrote(r) /\ holds[r] = s
    <3>1. PICK r \in Requests : Wrote(r) /\ holds[r] = s
      BY <2>2
    <3>2. store'[s] = UpdatedRow(store[s], copy[r])
      BY <2>0, <3>1 DEF Wrote
    <3>3. store[s] # None /\ store'[s] = copy[r]
      BY <1>1, <3>2, UpdatedRowIs
    <3> QED BY <2>0, <3>1, <3>3 DEF Wrote, Agreed
  <2>3. CASE store'[s] # store[s] /\ ~(\E r \in Requests : Wrote(r) /\ holds[r] = s)
    BY <1>1, <2>0, <2>3
       DEF Effect, Still, Started, Inserted, Presented, Read, Left, Moved, Wrote, Deleted, Completed
  <2> QED BY <2>1, <2>2, <2>3
<1>2. IInv /\ [Next]_vars =>
        [\A s \in issued :
           store'[s] # None => /\ store[s] # None
                               /\ store'[s].expires_at = store[s].expires_at]_vars
  BY <1>1
<1> QED BY <1>2, Inductive, PTL DEF Spec, LifeNotProlonged

-----------------------------------------------------------------------------
(* The promise of LoginProgress *)

(* An object that is not inserted yet has nothing done on it. *)
Blank == \A r \in Requests : holds[r] = None /\ copy[r] # None => copy[r].used = <<>>

LEMMA NextBlank == Shapes /\ Blank /\ Effect => Blank'
<1> SUFFICES ASSUME Shapes, Blank, Effect
             PROVE  Blank'
  OBVIOUS
<1> USE DEF Blank
<1>0. /\ copy \in [Requests -> Row \cup {None}]
      /\ holds \in [Requests -> Sessions \cup {None}]
      /\ issued \subseteq Sessions
      /\ None \notin Sessions
      /\ Fresh.used = <<>>
  BY OtherAssumption DEF Shapes, TypeOK, Fresh
<1> HIDE DEF Row
<1>1. CASE Still \/ \E s \in Sessions : Deleted(s)
  BY <1>1 DEF Still, Deleted
<1>2. ASSUME NEW r \in Requests, Started(r)
      PROVE  Blank'
  BY <1>0, <1>2 DEF Started
<1>3. ASSUME NEW r \in Requests, NEW s \in Sessions \ issued, Inserted(r, s)
      PROVE  Blank'
  BY <1>0, <1>3 DEF Inserted
<1>4. ASSUME NEW r \in Requests, NEW s \in issued, Presented(r, s)
      PROVE  Blank'
  BY <1>0, <1>4 DEF Presented
<1>5. ASSUME NEW r \in Requests, Read(r) \/ Moved(r)
      PROVE  Blank'
  BY <1>0, <1>5 DEF Read, Moved
<1>6. ASSUME NEW r \in Requests, Left(r) \/ Completed(r)
      PROVE  Blank'
  BY <1>0, <1>6 DEF Left, Completed
<1>7. ASSUME NEW r \in Requests, Wrote(r)
      PROVE  Blank'
  BY <1>0, <1>7 DEF Wrote
<1> QED BY <1>1, <1>2, <1>3, <1>4, <1>5, <1>6, <1>7 DEF Effect

LEMMA BlankHolds == Spec => []Blank
<1>1. Init => Blank
  BY DEF Init, Blank
<1>2. IInv /\ Blank /\ [Next]_vars => Blank'
  BY NextBlank, NextEffect DEF IInv
<1> QED BY <1>1, <1>2, Inductive, PTL DEF Spec

LEMMA SoundIsLegal ==
  ASSUME NEW row \in Row, Sound(row)
  PROVE  Promised!Legal(row.used)
<1>1. row.used \in Seq(Use) /\ DOMAIN row.used = 1..Len(row.used)
  BY RowFields
<1>3. \A i, j \in DOMAIN row.used :
        Amr[row.used[i].factor] = Amr[row.used[j].factor] => i = j
  <2>1. /\ DOMAIN row.amr = DOMAIN row.used
        /\ \A i \in DOMAIN row.used : row.amr[i] = Amr[row.used[i].factor]
        /\ \A i, j \in DOMAIN row.amr : row.amr[i] = row.amr[j] => i = j
    BY DEF Sound, LegalPath
  <2> QED BY <2>1
<1>4. ASSUME NEW i \in DOMAIN row.used
      PROVE  StepOf[row.used[i].factor] =
               IF i = 1 THEN 0
               ELSE StepOf[row.used[i - 1].factor] + AdvanceBy[row.used[i - 1].factor]
  <2>1. StepOf[row.used[i].factor] = Reached(row.used, i - 1)
    BY <1>1, <1>4 DEF Sound, LegalPath
  <2>2. i - 1 = 0 <=> i = 1
    BY <1>1, <1>4
  <2> QED BY <2>1, <2>2 DEF Reached
<1> QED BY <1>3, <1>4 DEF Promised!Legal

(* What LoginProgress sees is the row, and whether the id was handed out. *)
LEMMA SeenSession ==
  ASSUME NEW s \in Sessions
  PROVE  /\ Phase[s] = IF store[s] # None THEN "open"
                       ELSE IF s \in issued THEN "over" ELSE "unused"
         /\ Path[s] = IF store[s] = None THEN <<>> ELSE store[s].used
BY DEF Phase, Path

(* Only the session a step is about looks different after it. *)
LEMMA SeenElsewhere ==
  ASSUME store \in [Sessions -> Row \cup {None}], NEW s \in Sessions,
         \A t \in Sessions \ {s} :
           /\ store'[t] = store[t]
           /\ t \in issued' <=> t \in issued
  PROVE  /\ Phase' = [Phase EXCEPT ![s] = Phase'[s]]
         /\ Path' = [Path EXCEPT ![s] = Path'[s]]
BY DEF Phase, Path

LEMMA Unseen ==
  ASSUME UNCHANGED <<issued, store, completions>>
  PROVE  UNCHANGED <<Phase, Path, completions>>
BY DEF Phase, Path

(* insert begins a session. *)
LEMMA InsertedBegins ==
  ASSUME Shapes, Blank, NEW r \in Requests, NEW s \in Sessions \ issued, Inserted(r, s)
  PROVE  Promised!Begin(s)
<1>1. /\ store \in [Sessions -> Row \cup {None}]
      /\ store[s] = None
      /\ copy[r].used = <<>>
  BY DEF Shapes, TypeOK, Rows, Blank, Inserted
<1>2. store'[s] = copy[r] /\ store'[s] # None
  BY <1>1 DEF Inserted
<1>3. /\ Phase' = [Phase EXCEPT ![s] = Phase'[s]]
      /\ Path' = [Path EXCEPT ![s] = Path'[s]]
  BY <1>1, SeenElsewhere DEF Inserted
<1>4. Phase[s] = "unused" /\ Phase'[s] = "open"
  BY <1>1, <1>2 DEF Phase
<1>5. Path[s] = <<>> /\ Path'[s] = <<>>
  BY <1>1, <1>2 DEF Path
<1>6. Path' = Path
  BY <1>3, <1>5 DEF Path
<1> QED BY <1>3, <1>4, <1>6 DEF Inserted, Promised!Begin

(* update continues a session, unless there is none any more. *)
LEMMA WroteContinues ==
  ASSUME IInv, NEW r \in Requests, Wrote(r)
  PROVE  Promised!Continue(holds[r]) \/ UNCHANGED <<Phase, Path, completions>>
<1>1. /\ store \in [Sessions -> Row \cup {None}]
      /\ copy[r] \in Row
      /\ copy[r] # None
      /\ holds[r] \in Sessions
      /\ holds[r] # None
      /\ Sound(copy[r])
  BY OtherAssumption DEF IInv, Shapes, TypeOK, Paths, Wrote
<1>2. PICK s \in Sessions : s = holds[r]
  BY <1>1
<1>3. /\ store' = [store EXCEPT ![s] = UpdatedRow(store[s], copy[r])]
      /\ UNCHANGED <<issued, completions>>
  BY <1>2 DEF Wrote
<1>4. CASE store[s] = None
  <2>1. store' = store
    BY <1>1, <1>3, <1>4, UpdatedRowIs
  <2> QED BY <1>3, <2>1, Unseen
<1>5. CASE store[s] # None
  <2>1. store'[s] = copy[r]
    BY <1>1, <1>3, <1>5, UpdatedRowIs
  <2>2. /\ Phase' = [Phase EXCEPT ![s] = Phase'[s]]
        /\ Path' = [Path EXCEPT ![s] = Path'[s]]
    BY <1>1, <1>3, SeenElsewhere
  <2>3. Phase[s] = "open" /\ Phase'[s] = "open"
    BY <1>1, <1>5, <2>1 DEF Phase
  <2>4. Path[s] = store[s].used /\ Path'[s] = copy[r].used
    BY <1>1, <1>5, <2>1 DEF Path
  <2>5. Promised!Legal(Path'[s])
    BY <1>1, <2>4, SoundIsLegal
  <2>6. TakeTurns => Promised!GrowsTo(Path[s], Path'[s])
    BY <1>1, <1>2, <1>5, <2>4 DEF IInv, Turns, Ahead, Extends, Promised!GrowsTo
  <2>7. Phase' = Phase
    BY <2>2, <2>3 DEF Phase
  <2> QED BY <1>2, <1>3, <2>2, <2>3, <2>5, <2>6, <2>7 DEF Promised!Continue
<1> QED BY <1>4, <1>5

(* Where a row goes, or is gone already, the session is over. *)
LEMMA GoneIsOver ==
  ASSUME Shapes, NEW s \in issued, store' = [store EXCEPT ![s] = None], UNCHANGED issued
  PROVE  Promised!Over(s)
<1>1. store \in [Sessions -> Row \cup {None}] /\ s \in Sessions
  BY DEF Shapes, TypeOK
<1>2. store'[s] = None
  BY <1>1
<1>3. /\ Phase' = [Phase EXCEPT ![s] = Phase'[s]]
      /\ Path' = [Path EXCEPT ![s] = Path'[s]]
  BY <1>1, SeenElsewhere
<1>4. Phase[s] # "unused" /\ Phase'[s] = "over"
  BY <1>1, <1>2 DEF Phase
<1>5. Path'[s] = <<>>
  BY <1>1, <1>2 DEF Path
<1> QED BY <1>3, <1>4, <1>5 DEF Promised!Over

LEMMA DeletedEnds ==
  ASSUME Shapes, NEW s \in Sessions, Deleted(s)
  PROVE  Promised!End(s) \/ UNCHANGED <<Phase, Path, completions>>
<1>1. CASE s \in issued
  BY <1>1, GoneIsOver DEF Deleted, Promised!End
<1>2. CASE s \notin issued
  <2>1. store' = store
    BY <1>2 DEF Shapes, TypeOK, Rows, Deleted
  <2> QED BY <2>1, Unseen DEF Deleted
<1> QED BY <1>1, <1>2

LEMMA CompletedAnswers ==
  ASSUME Shapes, Turns, NEW r \in Requests, Completed(r)
  PROVE  Promised!Answer(holds[r])
<1>1. Promised!Over(holds[r])
  BY GoneIsOver DEF Completed
<1>2. TakeTurns => completions[holds[r]] = 0
  <2>1. holds[r] # None
    BY OtherAssumption DEF Completed, Shapes, TypeOK
  <2> QED BY <2>1 DEF Completed, Turns
<1>3. completions' = [completions EXCEPT ![holds[r]] = @ + 1]
  BY DEF Completed
<1> QED BY <1>1, <1>2, <1>3 DEF Promised!Answer

(* Every step of the service is a step of LoginProgress, or changes        *)
(* nothing that LoginProgress speaks of.                                   *)
THEOREM KeepsProgressHolds == Spec => KeepsProgress
<1>1. Init => Promised!ProgressInit
  BY DEF Init, Phase, Path, Promised!ProgressInit
<1>2. ASSUME IInv, Blank, [Next]_vars
      PROVE  [Promised!ProgressNext]_<<Phase, Path, completions>>
  <2>1. /\ Shapes /\ Turns /\ Effect
        /\ issued \subseteq Sessions
    BY <1>2, NextEffect DEF IInv, Shapes, TypeOK
  <2>2. CASE Still \/ \E r \in Requests : Started(r) \/ Read(r) \/ Left(r) \/ Moved(r)
    BY <2>2, Unseen DEF Still, Started, Read, Left, Moved
  <2>3. CASE \E r \in Requests, s \in issued : Presented(r, s)
    BY <2>3, Unseen DEF Presented
  <2>4. CASE \E r \in Requests, s \in Sessions \ issued : Inserted(r, s)
    BY <1>2, <2>1, <2>4, InsertedBegins DEF Promised!ProgressNext
  <2>5. ASSUME NEW r \in Requests, Wrote(r)
        PROVE  [Promised!ProgressNext]_<<Phase, Path, completions>>
    <3>1. holds[r] \in Sessions
      BY <2>1, <2>5 DEF Wrote
    <3> QED BY <1>2, <2>5, <3>1, WroteContinues DEF Promised!ProgressNext
  <2>6. CASE \E s \in Sessions : Deleted(s)
    BY <2>1, <2>6, DeletedEnds DEF Promised!ProgressNext
  <2>7. ASSUME NEW r \in Requests, Completed(r)
        PROVE  [Promised!ProgressNext]_<<Phase, Path, completions>>
    <3>1. holds[r] \in Sessions
      BY <2>1, <2>7 DEF Completed
    <3> QED BY <2>1, <2>7, <3>1, CompletedAnswers DEF Promised!ProgressNext
  <2> QED BY <2>1, <2>2, <2>3, <2>4, <2>5, <2>6, <2>7 DEF Effect
<1> QED BY <1>1, <1>2, BlankHolds, Inductive, PTL DEF Spec, KeepsProgress, Promised!Progress

=============================================================================
