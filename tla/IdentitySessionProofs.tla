------------------------ MODULE IdentitySessionProofs ------------------------
(* Theorems about the identity session service. *)
EXTENDS IdentitySession, TLAPS

-----------------------------------------------------------------------------
(* Operators on rows *)

(* The earlier of two times is a time, and later than neither of them. *)
LEMMA EarlierBound ==
  ASSUME NEW a \in Nat, NEW b \in Nat
  PROVE  /\ Earlier(a, b) \in Nat
         /\ Earlier(a, b) <= a
         /\ Earlier(a, b) <= b
BY DEF Earlier

(* _create_session makes a proper row out of what a row can hold; with a   *)
(* refresh token it has a deadline, and it expires by the inherited one.   *)
LEMMA NewSessionRow ==
  ASSUME NEW grant \in Grants, NEW renew \in BOOLEAN,
         NEW inherited \in Nat \cup {None},
         NEW family \in SessionIds \cup {None},
         now \in Nat
  PROVE  LET row == NewSession(grant, renew, inherited, family)
         IN  /\ row \in Row
             /\ row.grant = grant
             /\ row.family = family
             /\ row.replaced_by = None
             /\ row.revoked_at = None
             /\ row.refreshable <=> row.deadline # None
             /\ row.refreshable => row.expires_at <= row.deadline
             /\ inherited # None => /\ row.expires_at <= inherited
                                    /\ row.refreshable => row.deadline = inherited
<1> DEFINE cap == IF renew /\ inherited = None THEN now + RefreshLifetime ELSE inherited
           end == now + Lifetime
           last == IF cap = None THEN end ELSE Earlier(end, cap)
<1>1. /\ now + RefreshLifetime \in Nat
      /\ end \in Nat
  BY ConstantsAssumption
<1>2. /\ cap \in Nat \cup {None}
      /\ inherited # None => cap = inherited
      /\ renew => cap # None
  BY <1>1, ConstantsAssumption
<1>3. /\ last \in Nat
      /\ cap # None => last <= cap
  <2> HIDE DEF cap, end
  <2>1. CASE cap = None
    BY <2>1, <1>1
  <2>2. CASE cap # None
    BY <2>2, <1>1, <1>2, EarlierBound
  <2> QED BY <2>1, <2>2
<1>4. NewSession(grant, renew, inherited, family) =
        [grant |-> grant, expires_at |-> last, refreshable |-> renew,
         deadline |-> IF renew THEN cap ELSE None, family |-> family,
         replaced_by |-> None, revoked_at |-> None]
  BY DEF NewSession
<1> HIDE DEF cap, end, last
<1> QED BY <1>2, <1>3, <1>4 DEF Row

(* What a row holds. *)
LEMMA RowFields ==
  ASSUME NEW row \in Row
  PROVE  /\ row.grant \in Grants
         /\ row.expires_at \in Nat
         /\ row.refreshable \in BOOLEAN
         /\ row.deadline \in Nat \cup {None}
         /\ row.family \in SessionIds \cup {None}
         /\ row.replaced_by \in SessionIds \cup {None}
         /\ row.revoked_at \in Nat \cup {None}
BY DEF Row

(* A revocation time or a replacement can be put into any row. *)
LEMMA StampedRow ==
  ASSUME NEW row \in Row, NEW time \in Nat
  PROVE  LET new == [row EXCEPT !.revoked_at = time]
         IN  /\ new \in Row
             /\ new.grant = row.grant
             /\ new.expires_at = row.expires_at
             /\ new.refreshable = row.refreshable
             /\ new.deadline = row.deadline
             /\ new.family = row.family
             /\ new.replaced_by = row.replaced_by
             /\ new.revoked_at = time
             /\ new.revoked_at # None
BY ConstantsAssumption DEF Row

LEMMA ReplacedRow ==
  ASSUME NEW row \in Row, NEW id \in SessionIds
  PROVE  LET new == [row EXCEPT !.replaced_by = id]
         IN  /\ new \in Row
             /\ new.grant = row.grant
             /\ new.expires_at = row.expires_at
             /\ new.refreshable = row.refreshable
             /\ new.deadline = row.deadline
             /\ new.family = row.family
             /\ new.replaced_by = id
             /\ new.revoked_at = row.revoked_at
BY DEF Row

(* insert keeps a row a row, with a family, and changes nothing else of it. *)
LEMMA StoredRow ==
  ASSUME NEW id \in SessionIds, NEW row \in Row
  PROVE  /\ Stored(id, row) \in Row
         /\ Stored(id, row).family = IF row.family = None THEN id ELSE row.family
         /\ Stored(id, row).grant = row.grant
         /\ Stored(id, row).expires_at = row.expires_at
         /\ Stored(id, row).refreshable = row.refreshable
         /\ Stored(id, row).deadline = row.deadline
         /\ Stored(id, row).replaced_by = row.replaced_by
         /\ Stored(id, row).revoked_at = row.revoked_at
BY DEF Stored, Row

(* revoke_family only ever sets the revocation time of a row. *)
LEMMA RevokeRowKeeps ==
  ASSUME NEW row \in Row, NEW revoked \in Row, revoked.revoked_at # None
  PROVE  LET new == RevokeRow(row, revoked)
         IN  /\ new \in Row
             /\ new.grant = row.grant
             /\ new.expires_at = row.expires_at
             /\ new.refreshable = row.refreshable
             /\ new.deadline = row.deadline
             /\ new.family = row.family
             /\ new.replaced_by = row.replaced_by
             /\ row.revoked_at # None => new.revoked_at = row.revoked_at
             /\ row.family = revoked.family => new.revoked_at # None
             /\ row.family # revoked.family => new = row
<1>1. CASE row.family = revoked.family /\ row.revoked_at = None
  BY <1>1, ConstantsAssumption DEF RevokeRow, Row
<1>2. CASE ~(row.family = revoked.family /\ row.revoked_at = None)
  BY <1>2 DEF RevokeRow
<1> QED BY <1>1, <1>2

-----------------------------------------------------------------------------
(* The inductive invariant *)

(* What a call holds at each place it can be. *)
CallShape ==
  \A r \in Requests :
    /\ pc[r] \in {"insert", "replace"} => draft[r] # None
    /\ pc[r] = "revoke" => snap[r] # None /\ snap[r].revoked_at # None
    /\ pc[r] \notin {"idle", "insert"} =>
         arg[r].token \in Token /\ arg[r].token.of \in used

Shapes == TypeOK /\ CallShape

(* Rows exist for used ids only, and their links lead to used ids. *)
StoreLinks ==
  \A s \in SessionIds :
    Present(s) =>
      /\ s \in used
      /\ store[s].family \in used
      /\ store[s].replaced_by \in used \cup {None}
      /\ store[s].refreshable <=> store[s].deadline # None

FamilyInv == /\ OneLiveSession
             /\ RevocationReachesFamily
             /\ DeadlineInherited
             /\ LinearLineage

(* A row that was read and the row that is stored agree on what never      *)
(* changes; a session about to be stored is a first one, or fits the       *)
(* family of the one it replaces.                                          *)
Agrees(row, s) ==
  Present(s) => /\ row.grant = store[s].grant
                /\ row.family = store[s].family
                /\ row.refreshable = store[s].refreshable
                /\ row.deadline = store[s].deadline

Fresh(row) == /\ row.replaced_by = None
              /\ row.revoked_at = None
              /\ row.refreshable <=> row.deadline # None
              /\ row.refreshable => row.expires_at <= row.deadline

Succeeds(row, s) ==
  Present(s) /\ store[s].refreshable =>
    /\ row.grant = store[s].grant
    /\ row.family = store[s].family
    /\ row.expires_at <= store[s].deadline
    /\ row.refreshable => row.deadline = store[s].deadline

CallFit(r) ==
  /\ pc[r] \in {"loaded", "reloaded", "revoke"} /\ snap[r] # None =>
       /\ Agrees(snap[r], arg[r].token.of)
       /\ snap[r].family # None
  /\ pc[r] \in {"insert", "replace"} => Fresh(draft[r])
  /\ pc[r] = "insert" => draft[r].family = None
  /\ pc[r] = "replace" => /\ draft[r].family # None
                          /\ Succeeds(draft[r], arg[r].token.of)

(* A call that began with a dead token never holds a row of it that passes *)
(* for usable, so it is not accepted.                                      *)
StaleStaysStale(r) ==
  arg[r].stale =>
    /\ pc[r] \notin {"idle", "insert"} => ~Live(arg[r].token.of)
    /\ pc[r] \in {"loaded", "reloaded"} => ~Acceptable(snap[r])
    /\ pc[r] # "replace"
    /\ result[r] \notin {"valid", "refreshed"}

(* The token of an answered refresh is spent. *)
TokenSpent(r) ==
  result[r] = "refreshed" =>
    /\ arg[r].token \in Token
    /\ arg[r].token.of \in used
    /\ Present(arg[r].token.of) => Replaced(arg[r].token.of)

(* revoke finds the row of every token that has one. *)
RevokeFinds(r) ==
  /\ pc[r] # "idle" /\ arg[r].op = "revoke" =>
       /\ pc[r] \notin {"insert", "replace"}
       /\ arg[r].token.kind = "refresh" /\ Present(arg[r].token.of) =>
            store[arg[r].token.of].refreshable
       /\ /\ pc[r] \in {"loaded", "relookup", "reloaded"}
          /\ pc[r] # "relookup" => snap[r] = None
          /\ arg[r].token.kind = "access"
          => ~Present(arg[r].token.of)
       /\ pc[r] = "reloaded" /\ snap[r] = None => ~Present(arg[r].token.of)
  /\ result[r] \in {"reused", "revoked"} /\ arg[r].token # None =>
       /\ arg[r].token \in Token
       /\ arg[r].token.of \in used
       /\ Present(arg[r].token.of) => Revoked(arg[r].token.of)

(* refresh finds the row of every refresh token that has one, and a        *)
(* revocation it has read is still there.                                  *)
RefreshFinds(r) ==
  LET of == arg[r].token.of
      read == pc[r] \in {"loaded", "reloaded"}
  IN  pc[r] # "idle" /\ arg[r].op = "refresh" =>
        /\ pc[r] # "insert"
        /\ arg[r].token.kind = "refresh" /\ Present(of) =>
             /\ store[of].refreshable
             /\ read => snap[r] # None
             /\ read /\ snap[r].revoked_at # None => Revoked(of)

CallInv(r) == CallFit(r) /\ StaleStaysStale(r) /\ TokenSpent(r) /\ RevokeFinds(r)

CallsInv == \A r \in Requests : CallInv(r)

RefreshInv == \A r \in Requests : RefreshFinds(r)

IInv == Shapes /\ StoreLinks /\ FamilyInv /\ CallsInv /\ SingleUse /\ RefreshInv

-----------------------------------------------------------------------------
(* Types *)

(* The calls' own values start and end of their shapes. *)
LEMMA BeginShapes ==
  ASSUME Shapes, NEW r \in Requests, Call(r)
  PROVE  Shapes'
<1> USE ConstantsAssumption DEF Shapes, TypeOK, CallShape, Begin, Goto, Answers
<1>1. ASSUME NEW grant \in Grants, NEW renew \in BOOLEAN, CallIssue(r, grant, renew)
      PROVE  Shapes'
  <2>1. NewSession(grant, renew, None, None) \in Row
    BY NewSessionRow
  <2> QED BY <1>1, <2>1 DEF CallIssue
<1>2. ASSUME NEW token \in HandedOut, CallValidate(r, token)
      PROVE  Shapes'
  BY <1>2 DEF CallValidate, HandedOut
<1>3. ASSUME NEW token \in HandedOut, NEW renew \in BOOLEAN, CallRefresh(r, token, renew)
      PROVE  Shapes'
  BY <1>3 DEF CallRefresh, HandedOut
<1>4. ASSUME NEW token \in HandedOut, CallRevoke(r, token)
      PROVE  Shapes'
  BY <1>4 DEF CallRevoke, HandedOut
<1>5. ASSUME NEW op \in {"validate", "refresh", "revoke"}, CallMalformed(r, op)
      PROVE  Shapes'
  BY <1>5 DEF CallMalformed, Refuse, Answer, NoArg
<1> QED BY <1>1, <1>2, <1>3, <1>4, <1>5 DEF Call

(* A call that is answered leaves nothing in the wrong shape. *)
LEMMA AnswerShapes ==
  ASSUME Shapes, NEW r \in Requests, NEW answer \in Answers,
         Accept(r, answer) \/ Refuse(r, answer),
         UNCHANGED now,
         used \subseteq used',
         used' \subseteq SessionIds,
         store' \in [SessionIds -> Row \cup {None}]
  PROVE  Shapes'
<1> USE ConstantsAssumption DEF Shapes, TypeOK, CallShape, Answer, Goto
<1>1. CASE Accept(r, answer)
  BY <1>1 DEF Accept
<1>2. CASE Refuse(r, answer)
  BY <1>2 DEF Refuse, NoArg
<1> QED BY <1>1, <1>2

(* A call that goes on to its next place, with what it needs there. *)
LEMMA GoShapes ==
  ASSUME Shapes, NEW r \in Requests, pc[r] \notin {"idle", "insert"},
         NEW label \in {"loaded", "relookup", "reloaded", "replace", "revoke"},
         NEW read \in Row \cup {None}, NEW new \in Row \cup {None},
         label = "replace" => new # None,
         label = "revoke" => read # None /\ read.revoked_at # None,
         pc' = [pc EXCEPT ![r] = label],
         snap' = [snap EXCEPT ![r] = read],
         draft' = [draft EXCEPT ![r] = new],
         UNCHANGED <<now, used, store, arg, result>>
  PROVE  Shapes'
<1>1. TypeOK'
  BY DEF Shapes, TypeOK
<1>2. \A q \in Requests : q # r => /\ pc'[q] = pc[q]
                                  /\ snap'[q] = snap[q]
                                  /\ draft'[q] = draft[q]
  BY DEF Shapes, TypeOK
<1>3. pc'[r] = label /\ snap'[r] = read /\ draft'[r] = new
  BY DEF Shapes, TypeOK
<1>4. CallShape'
  BY <1>2, <1>3 DEF Shapes, CallShape
<1> QED BY <1>1, <1>4 DEF Shapes

(* What is found is a row. *)
LEMMA FindShape ==
  ASSUME Shapes, NEW kind, NEW token \in Token
  PROVE  Find(kind, token) \in Row \cup {None}
BY DEF Find, Shapes, TypeOK, Token

LEMMA StepShapes ==
  ASSUME Shapes, NEW r \in Requests, Step(r)
  PROVE  Shapes'
<1>1. CASE Insert(r)
  <2>1. PICK id \in SessionIds \ used :
               /\ used' = used \cup {id}
               /\ store' = [store EXCEPT ![id] = Stored(id, draft[r])]
    BY <1>1 DEF Insert
  <2>2. draft[r] \in Row
    BY <1>1 DEF Insert, Shapes, TypeOK, CallShape
  <2>3. Stored(id, draft[r]) \in Row
    BY <2>2, StoredRow
  <2>4. used' \subseteq SessionIds /\ store' \in [SessionIds -> Row \cup {None}]
    BY <2>1, <2>3 DEF Shapes, TypeOK
  <2> QED BY <1>1, <2>1, <2>4, AnswerShapes DEF Insert, Answers
<1>2. CASE Lookup(r)
  <2> DEFINE kind == IF arg[r].op = "refresh" THEN "refresh" ELSE "access"
  <2>1. arg[r].token \in Token /\ draft[r] \in Row \cup {None}
    BY <1>2 DEF Lookup, Shapes, TypeOK, CallShape
  <2>2. Find(kind, arg[r].token) \in Row \cup {None}
    BY <2>1, FindShape
  <2>3. /\ pc[r] = "lookup"
        /\ pc' = [pc EXCEPT ![r] = "loaded"]
        /\ snap' = [snap EXCEPT ![r] = Find(kind, arg[r].token)]
        /\ draft' = [draft EXCEPT ![r] = draft[r]]
        /\ UNCHANGED <<now, used, store, arg, result>>
    BY <1>2 DEF Lookup, Goto, Shapes, TypeOK
  <2> HIDE DEF kind
  <2> QED BY <2>1, <2>2, <2>3, GoShapes
<1>3. CASE Relookup(r)
  <2>1. arg[r].token \in Token /\ draft[r] \in Row \cup {None}
    BY <1>3 DEF Relookup, Shapes, TypeOK, CallShape
  <2>2. Find("refresh", arg[r].token) \in Row \cup {None}
    BY <2>1, FindShape
  <2>3. /\ pc[r] = "relookup"
        /\ pc' = [pc EXCEPT ![r] = "reloaded"]
        /\ snap' = [snap EXCEPT ![r] = Find("refresh", arg[r].token)]
        /\ draft' = [draft EXCEPT ![r] = draft[r]]
        /\ UNCHANGED <<now, used, store, arg, result>>
    BY <1>3 DEF Relookup, Goto, Shapes, TypeOK
  <2> QED BY <2>1, <2>2, <2>3, GoShapes
<1>4. CASE Validated(r)
  BY <1>4, AnswerShapes DEF Validated, Answers, Shapes, TypeOK
<1>5. CASE RefreshInvalid(r)
  BY <1>5, AnswerShapes DEF RefreshInvalid, Answers, Shapes, TypeOK
<1>6. CASE RefreshExpired(r)
  BY <1>6, AnswerShapes DEF RefreshExpired, Answers, Shapes, TypeOK
<1>7. CASE RefreshReused(r)
  <2> DEFINE read == [snap[r] EXCEPT !.revoked_at = now]
  <2>1. /\ snap[r] \in Row
        /\ draft[r] \in Row \cup {None}
        /\ now \in Nat
        /\ pc[r] \in {"loaded", "reloaded"}
    BY <1>7 DEF RefreshReused, RefreshLoaded, Shapes, TypeOK
  <2>2. read \in Row /\ read.revoked_at # None
    BY <2>1, StampedRow
  <2>3. /\ pc' = [pc EXCEPT ![r] = "revoke"]
        /\ snap' = [snap EXCEPT ![r] = read]
        /\ draft' = [draft EXCEPT ![r] = draft[r]]
        /\ UNCHANGED <<now, used, store, arg, result>>
    BY <1>7 DEF RefreshReused, Goto, Shapes, TypeOK
  <2>4. read # None
    BY <2>2, ConstantsAssumption
  <2> HIDE DEF read
  <2> QED BY <2>1, <2>2, <2>3, <2>4, GoShapes
<1>8. CASE RefreshCreate(r)
  <2> DEFINE new == NewSession(snap[r].grant, arg[r].renew, snap[r].deadline, snap[r].family)
  <2>1. snap[r] \in Row /\ arg[r].renew \in BOOLEAN /\ now \in Nat
    BY <1>8 DEF RefreshCreate, Refreshable, Acceptable, Shapes, TypeOK
  <2>2. /\ snap[r].grant \in Grants
        /\ snap[r].deadline \in Nat \cup {None}
        /\ snap[r].family \in SessionIds \cup {None}
    BY <2>1, RowFields
  <2>3. new \in Row
    BY <2>1, <2>2, NewSessionRow
  <2>4. /\ pc[r] = "loaded"
        /\ pc' = [pc EXCEPT ![r] = "replace"]
        /\ snap' = [snap EXCEPT ![r] = snap[r]]
        /\ draft' = [draft EXCEPT ![r] = new]
        /\ UNCHANGED <<now, used, store, arg, result>>
    BY <1>8 DEF RefreshCreate, Goto, Shapes, TypeOK
  <2>5. new # None
    BY <2>3, ConstantsAssumption
  <2> HIDE DEF new
  <2> QED BY <2>1, <2>3, <2>4, <2>5, GoShapes
<1>9. CASE ReplaceAccepted(r)
  <2> DEFINE old == arg[r].token.of
  <2>1. PICK id \in SessionIds \ used :
               /\ used' = used \cup {id}
               /\ store' = [store EXCEPT ![id] = Stored(id, draft[r]),
                                         ![old].replaced_by = id]
    BY <1>9 DEF ReplaceAccepted
  <2>2. draft[r] \in Row
    BY <1>9 DEF ReplaceAccepted, Shapes, TypeOK, CallShape
  <2>3. Stored(id, draft[r]) \in Row
    BY <2>2, StoredRow
  <2>4. old \in used /\ store[old] # None
    BY <1>9 DEF ReplaceAccepted, Eligible, Live, Present, Shapes, CallShape
  <2>5. old \in SessionIds /\ old # id /\ store[old] \in Row
    BY <2>4 DEF Shapes, TypeOK
  <2>6. [store[old] EXCEPT !.replaced_by = id] \in Row
    BY <2>5, ReplacedRow
  <2> HIDE DEF old
  <2>7. used' \subseteq SessionIds /\ store' \in [SessionIds -> Row \cup {None}]
    BY <2>1, <2>3, <2>5, <2>6 DEF Shapes, TypeOK
  <2> QED BY <1>9, <2>1, <2>7, AnswerShapes DEF ReplaceAccepted, Answers
<1>10. ASSUME pc[r] \in {"loaded", "replace"},
              pc' = [pc EXCEPT ![r] = "relookup"],
              UNCHANGED <<now, used, store, arg, snap, draft, result>>
       PROVE  Shapes'
  <2>1. /\ snap' = [snap EXCEPT ![r] = snap[r]] /\ snap[r] \in Row \cup {None}
        /\ draft' = [draft EXCEPT ![r] = draft[r]] /\ draft[r] \in Row \cup {None}
    BY <1>10 DEF Shapes, TypeOK
  <2> QED BY <1>10, <2>1, GoShapes
<1>11. CASE ReplaceRefused(r)
  BY <1>10, <1>11 DEF ReplaceRefused, Goto
<1>12. CASE RevokeNext(r)
  <2>1. CASE snap[r] # None /\ pc[r] \in {"loaded", "reloaded"}
    <3> DEFINE read == [snap[r] EXCEPT !.revoked_at = now]
    <3>1. /\ snap' = [snap EXCEPT ![r] = read]
          /\ pc' = [pc EXCEPT ![r] = "revoke"]
          /\ UNCHANGED <<now, used, store, arg, draft, result>>
      BY <1>12, <2>1 DEF RevokeNext, Goto
    <3>2. snap[r] \in Row /\ now \in Nat
      BY <2>1 DEF Shapes, TypeOK
    <3>3. read \in Row /\ read # None /\ read.revoked_at # None
      BY <3>2, StampedRow, ConstantsAssumption
    <3>4. draft' = [draft EXCEPT ![r] = draft[r]] /\ draft[r] \in Row \cup {None}
      BY <3>1 DEF Shapes, TypeOK
    <3> HIDE DEF read
    <3> QED BY <2>1, <3>1, <3>3, <3>4, GoShapes
  <2>2. CASE snap[r] = None /\ pc[r] = "loaded"
    BY <1>10, <1>12, <2>2 DEF RevokeNext, Goto
  <2>3. CASE snap[r] = None /\ pc[r] = "reloaded"
    BY <1>12, <2>3, AnswerShapes DEF RevokeNext, Answers, Shapes, TypeOK
  <2> QED BY <1>12, <2>1, <2>2, <2>3 DEF RevokeNext
<1>13. CASE RevokeFamily(r)
  <2>1. snap[r] \in Row /\ snap[r].revoked_at # None
    BY <1>13 DEF RevokeFamily, Shapes, TypeOK, CallShape
  <2>2. \A s \in SessionIds : RevokeRow(store[s], snap[r]) \in Row \cup {None}
    <3>1. RevokeRow(None, snap[r]) = None
      BY DEF RevokeRow
    <3>2. \A row \in Row : RevokeRow(row, snap[r]) \in Row
      BY <2>1, RevokeRowKeeps
    <3> QED BY <3>1, <3>2 DEF Shapes, TypeOK
  <2>3. store' \in [SessionIds -> Row \cup {None}]
    BY <1>13, <2>2 DEF RevokeFamily
  <2> QED BY <1>13, <2>3, AnswerShapes DEF RevokeFamily, Answers, Shapes, TypeOK
<1> QED BY <1>1, <1>2, <1>3, <1>4, <1>5, <1>6, <1>7, <1>8, <1>9, <1>11, <1>12, <1>13 DEF Step

LEMMA EnvironmentShapes ==
  ASSUME Shapes, \/ \E r \in Requests : Fail(r)
                 \/ \E s \in SessionIds : Purge(s)
                 \/ Tick
                 \/ UNCHANGED vars
  PROVE  Shapes'
<1> USE ConstantsAssumption DEF Shapes, TypeOK, CallShape
<1>1. ASSUME NEW r \in Requests, Fail(r)
      PROVE  Shapes'
  BY <1>1 DEF Fail, Refuse, Answer, Goto, NoArg, Answers
<1>2. ASSUME NEW s \in SessionIds, Purge(s)
      PROVE  Shapes'
  BY <1>2 DEF Purge
<1>3. CASE Tick
  BY <1>3 DEF Tick
<1>4. CASE UNCHANGED vars
  BY <1>4 DEF vars
<1> QED BY <1>1, <1>2, <1>3, <1>4

LEMMA InitShapes == Init => Shapes
BY ConstantsAssumption DEF Init, Shapes, TypeOK, CallShape, NoArg, Answers

LEMMA NextShapes == Shapes /\ [Next]_vars => Shapes'
BY BeginShapes, StepShapes, EnvironmentShapes DEF Next

(* Whatever calls are made, whatever fails and however they interleave,    *)
(* rows, calls and answers keep their shapes.                              *)
THEOREM TypesHold == Spec => []TypeOK
<1>1. Shapes => TypeOK
  BY DEF Shapes
<1> QED BY <1>1, InitShapes, NextShapes, PTL DEF Spec

-----------------------------------------------------------------------------
(* What the steps do to the store *)

(* The row a session's insertion leaves. *)
Inserted(id, row) ==
  /\ id \in SessionIds \ used
  /\ row \in Row
  /\ row.replaced_by = None
  /\ row.revoked_at = None
  /\ row.refreshable <=> row.deadline # None
  /\ row.refreshable => row.expires_at <= row.deadline
  /\ used' = used \cup {id}
  /\ store'[id] = row

LEMMA InsertEffect ==
  ASSUME NEW r \in Requests, Shapes, CallFit(r), Insert(r)
  PROVE  \E id \in SessionIds, row \in Row :
           /\ Inserted(id, row)
           /\ row.family = id
           /\ \A s \in SessionIds : s # id => store'[s] = store[s]
<1>1. /\ draft[r] \in Row
      /\ Fresh(draft[r])
      /\ draft[r].family = None
  BY DEF Insert, Shapes, TypeOK, CallShape, CallFit
<1>2. PICK id \in SessionIds \ used :
             /\ used' = used \cup {id}
             /\ store' = [store EXCEPT ![id] = Stored(id, draft[r])]
  BY DEF Insert
<1>3. /\ store'[id] = Stored(id, draft[r])
      /\ \A s \in SessionIds : s # id => store'[s] = store[s]
  BY <1>2 DEF Shapes, TypeOK
<1>4. /\ Stored(id, draft[r]) \in Row
      /\ Stored(id, draft[r]).family = id
      /\ Stored(id, draft[r]).expires_at = draft[r].expires_at
      /\ Stored(id, draft[r]).refreshable = draft[r].refreshable
      /\ Stored(id, draft[r]).deadline = draft[r].deadline
      /\ Stored(id, draft[r]).replaced_by = draft[r].replaced_by
      /\ Stored(id, draft[r]).revoked_at = draft[r].revoked_at
  BY <1>1, StoredRow
<1> QED BY <1>1, <1>2, <1>3, <1>4 DEF Inserted, Fresh

LEMMA ReplaceEffect ==
  ASSUME NEW r \in Requests, Shapes, CallFit(r), ReplaceAccepted(r)
  PROVE  \E old, id \in SessionIds, row \in Row :
           /\ old = arg[r].token.of
           /\ Eligible(old)
           /\ Inserted(id, row)
           /\ row.grant = store[old].grant
           /\ row.family = store[old].family
           /\ row.expires_at <= store[old].deadline
           /\ row.refreshable => row.deadline = store[old].deadline
           /\ store'[old] = [store[old] EXCEPT !.replaced_by = id]
           /\ \A s \in SessionIds : s \notin {id, old} => store'[s] = store[s]
<1> DEFINE old == arg[r].token.of
<1>1. /\ draft[r] \in Row
      /\ Fresh(draft[r])
      /\ draft[r].family # None
      /\ Succeeds(draft[r], old)
      /\ old \in used
      /\ used \subseteq SessionIds
  BY DEF ReplaceAccepted, Shapes, TypeOK, CallShape, CallFit
<1>2. /\ Eligible(old)
      /\ Present(old)
      /\ store[old].refreshable
  BY DEF ReplaceAccepted, Eligible, Live
<1>3. PICK id \in SessionIds \ used :
             /\ used' = used \cup {id}
             /\ store' = [store EXCEPT ![id] = Stored(id, draft[r]),
                                       ![old].replaced_by = id]
  BY DEF ReplaceAccepted
<1>4. /\ store'[id] = Stored(id, draft[r])
      /\ store'[old] = [store[old] EXCEPT !.replaced_by = id]
      /\ \A s \in SessionIds : s \notin {id, old} => store'[s] = store[s]
  BY <1>1, <1>3 DEF Shapes, TypeOK
<1>5. /\ Stored(id, draft[r]) \in Row
      /\ Stored(id, draft[r]).grant = draft[r].grant
      /\ Stored(id, draft[r]).family = draft[r].family
      /\ Stored(id, draft[r]).expires_at = draft[r].expires_at
      /\ Stored(id, draft[r]).refreshable = draft[r].refreshable
      /\ Stored(id, draft[r]).deadline = draft[r].deadline
      /\ Stored(id, draft[r]).replaced_by = draft[r].replaced_by
      /\ Stored(id, draft[r]).revoked_at = draft[r].revoked_at
  BY <1>1, StoredRow
<1>6. Inserted(id, Stored(id, draft[r]))
  BY <1>1, <1>3, <1>4, <1>5 DEF Inserted, Fresh
<1> DEFINE new == Stored(id, draft[r])
<1>7. /\ new \in Row
      /\ new.grant = store[old].grant
      /\ new.family = store[old].family
      /\ new.expires_at <= store[old].deadline
      /\ new.refreshable => new.deadline = store[old].deadline
  BY <1>1, <1>2, <1>5 DEF Succeeds
<1>8. Inserted(id, new) /\ Eligible(old) /\ old \in SessionIds /\ old = arg[r].token.of
  BY <1>1, <1>2, <1>6
<1> HIDE DEF new, old
<1> QED BY <1>4, <1>7, <1>8

LEMMA RevokeEffect ==
  ASSUME Shapes, NEW r \in Requests, RevokeFamily(r)
  PROVE  /\ used' = used
         /\ snap[r] \in Row
         /\ \A s \in SessionIds : ~Present(s) => store'[s] = None
         /\ \A s \in SessionIds : Present(s) =>
              /\ store'[s] \in Row
              /\ store'[s].grant = store[s].grant
              /\ store'[s].expires_at = store[s].expires_at
              /\ store'[s].refreshable = store[s].refreshable
              /\ store'[s].deadline = store[s].deadline
              /\ store'[s].family = store[s].family
              /\ store'[s].replaced_by = store[s].replaced_by
              /\ store[s].revoked_at # None => store'[s].revoked_at = store[s].revoked_at
              /\ store[s].family = snap[r].family => store'[s].revoked_at # None
              /\ store[s].family # snap[r].family => store'[s] = store[s]
<1>1. snap[r] \in Row /\ snap[r].revoked_at # None
  BY DEF RevokeFamily, Shapes, TypeOK, CallShape
<1>2. \A s \in SessionIds : store'[s] = RevokeRow(store[s], snap[r])
  BY DEF RevokeFamily
<1>3. ASSUME NEW s \in SessionIds, ~Present(s)
      PROVE  store'[s] = None
  BY <1>2, <1>3 DEF RevokeRow, Present
<1>4. ASSUME NEW s \in SessionIds, Present(s)
      PROVE  store[s] \in Row
  BY <1>4 DEF Present, Shapes, TypeOK
<1>5. used' = used
  BY DEF RevokeFamily
<1> QED BY <1>1, <1>2, <1>3, <1>4, <1>5, RevokeRowKeeps

LEMMA PurgeEffect ==
  ASSUME Shapes, NEW p \in SessionIds, Purge(p)
  PROVE  /\ used' = used
         /\ store'[p] = None
         /\ \A s \in SessionIds : s # p => store'[s] = store[s]
BY DEF Purge, Shapes, TypeOK

(* The store changes in four ways only. *)
LEMMA OtherwiseUnchanged ==
  ASSUME [Next]_vars,
         \A r \in Requests : ~Insert(r) /\ ~ReplaceAccepted(r) /\ ~RevokeFamily(r),
         \A s \in SessionIds : ~Purge(s)
  PROVE  UNCHANGED <<used, store>>
BY DEF Next, Call, CallIssue, CallValidate, CallRefresh, CallRevoke, CallMalformed, Begin,
       Step, Lookup, Relookup, Validated, RefreshInvalid, RefreshExpired, RefreshReused,
       RefreshCreate, ReplaceRefused, RevokeNext, Fail, Tick, vars

-----------------------------------------------------------------------------
(* Families *)

(* Every row in the store is one, and of a session already handed out. *)
LEMMA PresentRow ==
  ASSUME Shapes, NEW s \in SessionIds, Present(s)
  PROVE  /\ store[s] \in Row
         /\ store[s] # None
BY DEF Shapes, TypeOK, Present

LEMMA InsertFamily ==
  ASSUME NEW r \in Requests, Shapes, StoreLinks, FamilyInv, CallFit(r), Insert(r)
  PROVE  StoreLinks' /\ FamilyInv'
<1>1. PICK id \in SessionIds, row \in Row :
             /\ Inserted(id, row)
             /\ row.family = id
             /\ \A s \in SessionIds : s # id => store'[s] = store[s]
  BY InsertEffect
<1>2. /\ id \notin used
      /\ store[id] = None
      /\ row # None
      /\ used \subseteq SessionIds
  BY <1>1, ConstantsAssumption DEF Inserted, StoreLinks, Present, Shapes, TypeOK
<1>3. row.deadline \in Nat \cup {None} /\ row.expires_at \in Nat
  BY RowFields
<1>4. StoreLinks'
  BY <1>1, <1>2 DEF Inserted, StoreLinks, Present
<1>5. \A s \in SessionIds : Present(s) => store[s].family # id
  BY <1>2 DEF StoreLinks
<1>6. OneLiveSession'
  BY <1>1, <1>2, <1>5 DEF Inserted, FamilyInv, OneLiveSession, SameFamily, Live, Revoked,
                          Replaced, Present
<1>7. RevocationReachesFamily'
  BY <1>1, <1>2, <1>5 DEF Inserted, FamilyInv, RevocationReachesFamily, SameFamily, Revoked,
                          Present
<1>8. DeadlineInherited'
  BY <1>1, <1>2, <1>3, <1>5 DEF Inserted, FamilyInv, DeadlineInherited, SameFamily, Present
<1>9. LinearLineage'
  <2>1. \A s \in SessionIds : Replaced(s) => store[s].replaced_by \in used
    BY DEF Replaced, StoreLinks
  <2>2. \A s \in SessionIds : Replaced(s)' => s # id /\ Replaced(s) /\ store'[s] = store[s]
    BY <1>1, <1>2 DEF Inserted, Replaced, Present
  <2>3. ReplacedWithin'
    <3>1. ASSUME NEW s \in SessionIds, Replaced(s)'
          PROVE  /\ store[s].replaced_by # s
                 /\ store[s].replaced_by # id
                 /\ store[s].replaced_by \in SessionIds
                 /\ Present(store[s].replaced_by) => SameFamily(s, store[s].replaced_by)
      BY <1>2, <2>1, <2>2, <3>1 DEF FamilyInv, LinearLineage, ReplacedWithin
    <3> QED BY <1>1, <2>2, <3>1 DEF ReplacedWithin, SameFamily, Present
  <2>4. ReplacedApart'
    BY <2>2 DEF FamilyInv, LinearLineage, ReplacedApart
  <2>5. JoinedByReplacement'
    <3>1. ASSUME \A s \in used' : Present(s)', NEW s \in used', store'[s].family # s
          PROVE  \E t \in used' : store'[t].replaced_by = s
      <4>1. \A t \in used : Present(t) /\ store'[t] = store[t]
        BY <1>1, <1>2, <3>1 DEF Inserted, Present
      <4>2. s \in used
        BY <1>1, <3>1 DEF Inserted
      <4>3. PICK t \in used : store[t].replaced_by = s
        BY <3>1, <4>1, <4>2 DEF FamilyInv, LinearLineage, JoinedByReplacement
      <4> QED BY <1>1, <4>1, <4>3 DEF Inserted
    <3> QED BY <3>1 DEF JoinedByReplacement
  <2> QED BY <2>3, <2>4, <2>5 DEF LinearLineage
<1> QED BY <1>4, <1>6, <1>7, <1>8, <1>9 DEF FamilyInv

LEMMA ReplaceFamily ==
  ASSUME NEW r \in Requests, Shapes, StoreLinks, FamilyInv, CallFit(r), ReplaceAccepted(r)
  PROVE  StoreLinks' /\ FamilyInv'
<1>1. PICK old, id \in SessionIds, row \in Row :
             /\ Eligible(old)
             /\ Inserted(id, row)
             /\ row.grant = store[old].grant
             /\ row.family = store[old].family
             /\ row.expires_at <= store[old].deadline
             /\ row.refreshable => row.deadline = store[old].deadline
             /\ store'[old] = [store[old] EXCEPT !.replaced_by = id]
             /\ \A s \in SessionIds : s \notin {id, old} => store'[s] = store[s]
  BY ReplaceEffect
<1>2. /\ Present(old)
      /\ Live(old)
      /\ store[old] \in Row
      /\ store[old].refreshable
      /\ old \in used
      /\ store[old].revoked_at = None
  BY <1>1, PresentRow DEF Eligible, Live, StoreLinks, Revoked
<1>3. /\ id \notin used
      /\ id # old
      /\ store[id] = None
      /\ row # None
      /\ used \subseteq SessionIds
  BY <1>1, <1>2, ConstantsAssumption DEF Inserted, StoreLinks, Present, Shapes, TypeOK
<1>4. /\ store'[old] \in Row
      /\ store'[old] # None
      /\ store'[old].grant = store[old].grant
      /\ store'[old].expires_at = store[old].expires_at
      /\ store'[old].refreshable = store[old].refreshable
      /\ store'[old].deadline = store[old].deadline
      /\ store'[old].family = store[old].family
      /\ store'[old].replaced_by = id
      /\ store'[old].revoked_at = None
  <2> DEFINE new == [store[old] EXCEPT !.replaced_by = id]
  <2>1. /\ new \in Row
        /\ new.grant = store[old].grant
        /\ new.expires_at = store[old].expires_at
        /\ new.refreshable = store[old].refreshable
        /\ new.deadline = store[old].deadline
        /\ new.family = store[old].family
        /\ new.replaced_by = id
        /\ new.revoked_at = store[old].revoked_at
    BY <1>2, ReplacedRow
  <2>2. store'[old] = new
    BY <1>1
  <2> HIDE DEF new
  <2> QED BY <1>2, <2>1, <2>2, ConstantsAssumption
<1>5. id # None
  BY ConstantsAssumption
<1>6. StoreLinks'
  <2>1. \A s \in SessionIds : s # id /\ Present(s)' =>
          /\ Present(s)
          /\ store'[s].family = store[s].family
          /\ store'[s].refreshable = store[s].refreshable
          /\ store'[s].deadline = store[s].deadline
          /\ store'[s].replaced_by \in {store[s].replaced_by, id}
    BY <1>1, <1>2, <1>4 DEF Present
  <2>2. store'[id] = row /\ row.family \in used /\ used' = used \cup {id}
    BY <1>1, <1>2 DEF Inserted, StoreLinks
  <2> QED BY <1>1, <2>1, <2>2 DEF Inserted, StoreLinks
<1>7. OneLiveSession'
  <2>1. ~Live(old)'
    BY <1>4, <1>5 DEF Live, Replaced, Present
  <2>2. \A s \in SessionIds : s \notin {id, old} => (Live(s)' <=> Live(s))
    BY <1>1 DEF Live, Revoked, Replaced, Present
  <2>3. \A s \in SessionIds : s \notin {id, old} /\ Live(s)' => store'[s].family # row.family
    BY <1>1, <1>2, <2>2 DEF FamilyInv, OneLiveSession, SameFamily, Live
  <2>4. \A s, t \in SessionIds : s \notin {id, old} /\ t \notin {id, old} =>
          (SameFamily(s, t)' <=> SameFamily(s, t))
    BY <1>1 DEF SameFamily, Present
  <2> QED BY <1>1, <2>1, <2>2, <2>3, <2>4 DEF Inserted, FamilyInv, OneLiveSession, SameFamily
<1>8. RevocationReachesFamily'
  <2>1. ~Revoked(old)' /\ ~Revoked(id)'
    BY <1>1, <1>4 DEF Inserted, Revoked
  <2>2. \A s \in SessionIds : s \notin {id, old} => (Revoked(s)' <=> Revoked(s))
    BY <1>1 DEF Revoked, Present
  <2>3. \A s \in SessionIds : s \notin {id, old} /\ Revoked(s)' => store'[s].family # row.family
    BY <1>1, <1>2, <2>2 DEF FamilyInv, RevocationReachesFamily, SameFamily, Live, Revoked
  <2>4. \A s, t \in SessionIds : s \notin {id, old} /\ t \notin {id, old} =>
          (SameFamily(s, t)' <=> SameFamily(s, t))
    BY <1>1 DEF SameFamily, Present
  <2>5. \A t \in {id, old} : store'[t].family = row.family
    BY <1>1, <1>4 DEF Inserted
  <2>6. \A s, t \in SessionIds : SameFamily(s, t)' /\ t \in {id, old} =>
          store'[s].family = row.family
    BY <2>5 DEF SameFamily
  <2>7. ASSUME NEW s \in SessionIds, NEW t \in SessionIds, SameFamily(s, t)', Revoked(s)'
        PROVE  Revoked(t)'
    <3>1. s \notin {id, old}
      BY <2>1, <2>7
    <3>2. t \notin {id, old}
      BY <2>3, <2>6, <2>7, <3>1
    <3>3. SameFamily(s, t) /\ Revoked(s)
      BY <2>2, <2>4, <2>7, <3>1, <3>2
    <3> QED BY <2>2, <3>2, <3>3 DEF FamilyInv, RevocationReachesFamily
  <2> QED BY <2>7 DEF RevocationReachesFamily
<1>9. DeadlineInherited'
  <2>1. \A s \in SessionIds : s # id /\ Present(s)' =>
          /\ Present(s)
          /\ store'[s].grant = store[s].grant
          /\ store'[s].expires_at = store[s].expires_at
          /\ store'[s].refreshable = store[s].refreshable
          /\ store'[s].deadline = store[s].deadline
          /\ store'[s].family = store[s].family
    BY <1>1, <1>2, <1>4 DEF Present
  <2>2. ASSUME NEW s \in SessionIds, s # id, Present(s)', store'[s].family = row.family
        PROVE  /\ store'[s].grant = row.grant
               /\ store'[s].expires_at <= store[old].deadline
               /\ store'[s].refreshable => /\ store'[s].deadline = store[old].deadline
                                           /\ row.expires_at <= store'[s].deadline
    BY <1>1, <1>2, <2>1, <2>2 DEF FamilyInv, DeadlineInherited, SameFamily
  <2>3. /\ store'[id] = row
        /\ row.refreshable => row.expires_at <= row.deadline
    BY <1>1 DEF Inserted
  <2>4. ASSUME NEW s \in SessionIds, NEW t \in SessionIds, s # id, t # id, SameFamily(s, t)'
        PROVE  SameFamily(s, t)
    BY <2>1, <2>4 DEF SameFamily
  <2> QED BY <1>1, <2>1, <2>2, <2>3, <2>4 DEF FamilyInv, DeadlineInherited, SameFamily
<1>10. LinearLineage'
  <2>1. \A s \in SessionIds : Replaced(s) => store[s].replaced_by \in used
    BY DEF Replaced, StoreLinks
  <2>2. \A s \in SessionIds : Replaced(s)' /\ s # old =>
          /\ Replaced(s)
          /\ s # id
          /\ store'[s] = store[s]
          /\ store'[s].replaced_by # id
    BY <1>1, <1>3, <2>1 DEF Inserted, Replaced, Present
  <2>3. ReplacedWithin'
    <3>1. ASSUME NEW s \in SessionIds, Replaced(s)', s # old
          PROVE  /\ store'[s].replaced_by # s
                 /\ Present(store[s].replaced_by)' => SameFamily(s, store[s].replaced_by)'
      <4>1. /\ Replaced(s)
            /\ store'[s] = store[s]
            /\ store[s].replaced_by \in SessionIds
            /\ store[s].replaced_by # id
        BY <1>3, <2>1, <2>2, <3>1
      <4>2. /\ store[s].replaced_by # s
            /\ Present(store[s].replaced_by) => SameFamily(s, store[s].replaced_by)
        BY <4>1 DEF FamilyInv, LinearLineage, ReplacedWithin
      <4>3. \A t \in SessionIds : t # id /\ Present(t)' => Present(t) /\ store'[t].family = store[t].family
        BY <1>1, <1>2, <1>4 DEF Present
      <4> QED BY <4>1, <4>2, <4>3, <3>1 DEF SameFamily, Replaced
    <3>2. SameFamily(old, id)'
      BY <1>1, <1>3, <1>4 DEF Inserted, SameFamily, Present
    <3>3. ASSUME NEW s \in SessionIds, Replaced(s)'
          PROVE  /\ store'[s].replaced_by # s
                 /\ Present(store[s].replaced_by)' => SameFamily(s, store[s].replaced_by)'
      BY <1>3, <1>4, <3>1, <3>2, <3>3
    <3> QED BY <3>3 DEF ReplacedWithin
  <2>4. ReplacedApart'
    BY <1>4, <2>2 DEF FamilyInv, LinearLineage, ReplacedApart
  <2>5. JoinedByReplacement'
    <3>1. ASSUME \A t \in used' : Present(t)', NEW s \in used', store'[s].family # s
          PROVE  \E t \in used' : store'[t].replaced_by = s
      <4>1. CASE s = id
        BY <1>1, <1>2, <1>4, <4>1 DEF Inserted
      <4>2. CASE s # id
        <5>1. used' = used \cup {id}
          BY <1>1 DEF Inserted
        <5>2. \A t \in used : Present(t)
          BY <1>1, <1>2, <1>3, <3>1, <5>1 DEF Present
        <5>3. store[s].family # s
          BY <1>1, <1>3, <1>4, <3>1, <4>2, <5>1
        <5>4. PICK t \in used : store[t].replaced_by = s
          BY <4>2, <5>1, <5>2, <5>3 DEF FamilyInv, LinearLineage, JoinedByReplacement
        <5>5. s # None
          BY <1>3, <4>2, <5>1, ConstantsAssumption
        <5>6. t # old
          BY <1>2, <5>4, <5>5 DEF Live, Replaced
        <5> QED BY <1>1, <1>3, <5>1, <5>4, <5>6
      <4> QED BY <4>1, <4>2
    <3> QED BY <3>1 DEF JoinedByReplacement
  <2> QED BY <2>3, <2>4, <2>5 DEF LinearLineage
<1> QED BY <1>6, <1>7, <1>8, <1>9, <1>10 DEF FamilyInv

LEMMA RevokeFamilyInv ==
  ASSUME Shapes, StoreLinks, FamilyInv, NEW r \in Requests, RevokeFamily(r)
  PROVE  StoreLinks' /\ FamilyInv'
<1>1. /\ used' = used
      /\ snap[r] \in Row
      /\ \A s \in SessionIds : ~Present(s) => store'[s] = None
      /\ \A s \in SessionIds : Present(s) =>
           /\ store'[s] \in Row
           /\ store'[s].grant = store[s].grant
           /\ store'[s].expires_at = store[s].expires_at
           /\ store'[s].refreshable = store[s].refreshable
           /\ store'[s].deadline = store[s].deadline
           /\ store'[s].family = store[s].family
           /\ store'[s].replaced_by = store[s].replaced_by
           /\ store[s].revoked_at # None => store'[s].revoked_at = store[s].revoked_at
           /\ store[s].family = snap[r].family => store'[s].revoked_at # None
           /\ store[s].family # snap[r].family => store'[s] = store[s]
  BY RevokeEffect
<1>2. /\ used \subseteq SessionIds
      /\ None \notin Row
  BY ConstantsAssumption DEF Shapes, TypeOK
<1>3. \A s \in SessionIds : /\ Present(s)' <=> Present(s)
                            /\ Replaced(s)' <=> Replaced(s)
                            /\ Revoked(s) => Revoked(s)'
  BY <1>1, <1>2 DEF Present, Replaced, Revoked
<1>4. \A s, t \in SessionIds : SameFamily(s, t)' <=> SameFamily(s, t)
  BY <1>1, <1>3 DEF SameFamily
<1>5. StoreLinks'
  BY <1>1, <1>3 DEF StoreLinks
<1>6. OneLiveSession'
  BY <1>3, <1>4 DEF FamilyInv, OneLiveSession, Live
<1>7. RevocationReachesFamily'
  BY <1>1, <1>3, <1>4 DEF FamilyInv, RevocationReachesFamily, SameFamily, Revoked
<1>8. DeadlineInherited'
  BY <1>1, <1>4 DEF FamilyInv, DeadlineInherited, SameFamily
<1>9. LinearLineage'
  <2>1. ReplacedWithin'
    <3>1. ASSUME NEW s \in SessionIds, Replaced(s)'
          PROVE  /\ store'[s].replaced_by # s
                 /\ Present(store[s].replaced_by)' => SameFamily(s, store[s].replaced_by)'
      <4>1. Replaced(s) /\ store'[s].replaced_by = store[s].replaced_by
        BY <1>1, <1>3, <3>1 DEF Replaced
      <4>2. store[s].replaced_by \in SessionIds
        BY <1>2, <4>1 DEF StoreLinks, Replaced
      <4> QED BY <1>3, <1>4, <4>1, <4>2 DEF FamilyInv, LinearLineage, ReplacedWithin
    <3> QED BY <3>1 DEF ReplacedWithin
  <2>2. ReplacedApart'
    BY <1>1, <1>3 DEF FamilyInv, LinearLineage, ReplacedApart, Replaced
  <2>3. JoinedByReplacement'
    BY <1>1, <1>2, <1>3 DEF FamilyInv, LinearLineage, JoinedByReplacement
  <2> QED BY <2>1, <2>2, <2>3 DEF LinearLineage
<1> QED BY <1>5, <1>6, <1>7, <1>8, <1>9 DEF FamilyInv

LEMMA PurgeFamily ==
  ASSUME Shapes, StoreLinks, FamilyInv, NEW p \in SessionIds, Purge(p)
  PROVE  StoreLinks' /\ FamilyInv'
<1>1. /\ used' = used
      /\ store'[p] = None
      /\ \A s \in SessionIds : s # p => store'[s] = store[s]
  BY PurgeEffect
<1>2. /\ used \subseteq SessionIds
      /\ p \in used
  BY DEF Shapes, TypeOK, Purge, StoreLinks
<1>3. ~Present(p)' /\ \A s \in SessionIds : Present(s)' => Present(s) /\ store'[s] = store[s]
  BY <1>1 DEF Present
<1>4. \A s, t \in SessionIds : SameFamily(s, t)' => SameFamily(s, t)
  BY <1>3 DEF SameFamily
<1>5. StoreLinks'
  BY <1>1, <1>3 DEF StoreLinks
<1>6. OneLiveSession'
  BY <1>3, <1>4 DEF FamilyInv, OneLiveSession, Live, Revoked, Replaced
<1>7. RevocationReachesFamily'
  BY <1>3, <1>4 DEF FamilyInv, RevocationReachesFamily, SameFamily, Revoked
<1>8. DeadlineInherited'
  BY <1>3, <1>4 DEF FamilyInv, DeadlineInherited, SameFamily
<1>9. LinearLineage'
  <2>1. ReplacedWithin'
    <3>1. ASSUME NEW s \in SessionIds, Replaced(s)'
          PROVE  /\ store'[s].replaced_by # s
                 /\ Present(store[s].replaced_by)' => SameFamily(s, store[s].replaced_by)'
      <4>1. Replaced(s) /\ store'[s] = store[s] /\ Present(s)'
        BY <1>3, <3>1 DEF Replaced
      <4>2. store[s].replaced_by \in SessionIds
        BY <1>2, <4>1 DEF StoreLinks, Replaced
      <4> QED BY <1>3, <4>1, <4>2 DEF FamilyInv, LinearLineage, ReplacedWithin, SameFamily
    <3> QED BY <3>1 DEF ReplacedWithin
  <2>2. ReplacedApart'
    BY <1>3 DEF FamilyInv, LinearLineage, ReplacedApart, Replaced
  <2>3. JoinedByReplacement'
    BY <1>1, <1>2, <1>3 DEF JoinedByReplacement
  <2> QED BY <2>1, <2>2, <2>3 DEF LinearLineage
<1> QED BY <1>5, <1>6, <1>7, <1>8, <1>9 DEF FamilyInv

LEMMA SameStoreFamily ==
  ASSUME StoreLinks, FamilyInv, UNCHANGED <<used, store>>
  PROVE  StoreLinks' /\ FamilyInv'
BY DEF StoreLinks, FamilyInv, OneLiveSession, RevocationReachesFamily, DeadlineInherited,
       LinearLineage, ReplacedWithin, ReplacedApart, JoinedByReplacement, SameFamily, Live,
       Revoked, Replaced, Present

LEMMA NextFamily ==
  ASSUME Shapes, StoreLinks, FamilyInv, CallsInv, [Next]_vars
  PROVE  StoreLinks' /\ FamilyInv'
BY InsertFamily, ReplaceFamily, RevokeFamilyInv, PurgeFamily, SameStoreFamily, OtherwiseUnchanged
   DEF CallsInv, CallInv

-----------------------------------------------------------------------------
(* History *)

(* What happens to a session already handed out: its row may go, what it   *)
(* says of grant, family and deadline stays, stamps once set stay too.     *)
Evolves ==
  /\ used \subseteq used'
  /\ \A s \in used :
       Present(s)' =>
         /\ Present(s)
         /\ store'[s].grant = store[s].grant
         /\ store'[s].family = store[s].family
         /\ store'[s].refreshable = store[s].refreshable
         /\ store'[s].deadline = store[s].deadline
         /\ Replaced(s) => Replaced(s)' /\ store'[s].replaced_by = store[s].replaced_by
         /\ Revoked(s) => Revoked(s)' /\ store'[s].revoked_at = store[s].revoked_at

LEMMA NextEvolves ==
  ASSUME Shapes, StoreLinks, CallsInv, [Next]_vars
  PROVE  Evolves
<1>1. ASSUME NEW r \in Requests, Insert(r)
      PROVE  Evolves
  <2>1. PICK id \in SessionIds, row \in Row :
               /\ Inserted(id, row)
               /\ \A s \in SessionIds : s # id => store'[s] = store[s]
    BY <1>1, InsertEffect DEF CallsInv, CallInv
  <2> QED BY <2>1 DEF Inserted, Evolves, Present, Replaced, Revoked, Shapes, TypeOK
<1>2. ASSUME NEW r \in Requests, ReplaceAccepted(r)
      PROVE  Evolves
  <2>1. PICK old, id \in SessionIds, row \in Row :
               /\ Eligible(old)
               /\ Inserted(id, row)
               /\ store'[old] = [store[old] EXCEPT !.replaced_by = id]
               /\ \A s \in SessionIds : s \notin {id, old} => store'[s] = store[s]
    BY <1>2, ReplaceEffect DEF CallsInv, CallInv
  <2>2. /\ Present(old)
        /\ ~Replaced(old)
        /\ ~Revoked(old)
        /\ store[old] \in Row
    BY <2>1, PresentRow DEF Eligible, Live
  <2>3. /\ store'[old].grant = store[old].grant
        /\ store'[old].family = store[old].family
        /\ store'[old].refreshable = store[old].refreshable
        /\ store'[old].deadline = store[old].deadline
    BY <2>1, <2>2, ReplacedRow
  <2> QED BY <2>1, <2>2, <2>3 DEF Inserted, Evolves, Present, Replaced, Revoked, Shapes, TypeOK
<1>3. ASSUME NEW r \in Requests, RevokeFamily(r)
      PROVE  Evolves
  BY <1>3, RevokeEffect, ConstantsAssumption
     DEF Evolves, Present, Replaced, Revoked, Shapes, TypeOK
<1>4. ASSUME NEW p \in SessionIds, Purge(p)
      PROVE  Evolves
  BY <1>4, PurgeEffect DEF Evolves, Present, Replaced, Revoked, Shapes, TypeOK
<1>5. CASE UNCHANGED <<used, store>>
  BY <1>5 DEF Evolves, Present, Replaced, Revoked
<1> QED BY <1>1, <1>2, <1>3, <1>4, <1>5, OtherwiseUnchanged

-----------------------------------------------------------------------------
(* Calls *)

LEMMA LiveEvolves ==
  ASSUME Evolves, NEW s \in used
  PROVE  /\ Live(s)' => Live(s)
         /\ Present(s)' => Present(s)
BY DEF Evolves, Live

(* What holds of a call goes on holding while the others take steps. *)
LEMMA CallUndisturbed ==
  ASSUME Shapes, Evolves, NEW r \in Requests, CallInv(r),
         pc'[r] = pc[r], arg'[r] = arg[r], snap'[r] = snap[r],
         draft'[r] = draft[r], result'[r] = result[r]
  PROVE  CallInv(r)'
<1> DEFINE of == arg[r].token.of
<1>1. pc[r] \notin {"idle", "insert"} => of \in used
  BY DEF Shapes, CallShape
<1>2. CallFit(r)'
  <2>1. /\ pc[r] \in {"loaded", "reloaded", "revoke"} /\ snap[r] # None =>
             Agrees(snap[r], of)'
        /\ pc[r] = "replace" => Succeeds(draft[r], of)'
    BY <1>1 DEF CallInv, CallFit, Agrees, Succeeds, Evolves
  <2> QED BY <2>1 DEF CallInv, CallFit, Agrees, Succeeds, Fresh
<1>3. StaleStaysStale(r)'
  BY <1>1, LiveEvolves DEF CallInv, StaleStaysStale, Acceptable
<1>4. TokenSpent(r)'
  BY DEF CallInv, TokenSpent, Evolves
<1>5. RevokeFinds(r)'
  BY <1>1 DEF CallInv, RevokeFinds, Evolves
<1> QED BY <1>2, <1>3, <1>4, <1>5 DEF CallInv

(* Only the request that takes a step has its own values changed. *)
LEMMA StepLocal ==
  ASSUME Shapes, NEW r \in Requests, Call(r) \/ Step(r) \/ Fail(r),
         NEW q \in Requests, q # r
  PROVE  /\ pc'[q] = pc[q]
         /\ arg'[q] = arg[q]
         /\ snap'[q] = snap[q]
         /\ draft'[q] = draft[q]
         /\ result'[q] = result[q]
<1> USE DEF Shapes, TypeOK, Goto, Answer, Accept, Refuse
<1>1. CASE Call(r)
  BY <1>1 DEF Call, CallIssue, CallValidate, CallRefresh, CallRevoke, CallMalformed, Begin
<1>2. CASE Fail(r)
  BY <1>2 DEF Fail
<1>3. CASE Step(r)
  <2>1. CASE Insert(r) \/ Lookup(r) \/ Relookup(r)
    BY <2>1 DEF Insert, Lookup, Relookup
  <2>2. CASE Validated(r) \/ RefreshInvalid(r) \/ RefreshExpired(r)
    BY <2>2 DEF Validated, RefreshInvalid, RefreshExpired
  <2>3. CASE RefreshReused(r) \/ RefreshCreate(r)
    BY <2>3 DEF RefreshReused, RefreshCreate
  <2>4. CASE ReplaceAccepted(r) \/ ReplaceRefused(r)
    BY <2>4 DEF ReplaceAccepted, ReplaceRefused
  <2>5. CASE RevokeNext(r) \/ RevokeFamily(r)
    BY <2>5 DEF RevokeNext, RevokeFamily
  <2> QED BY <1>3, <2>1, <2>2, <2>3, <2>4, <2>5 DEF Step
<1> QED BY <1>1, <1>2, <1>3

LEMMA BeginCall ==
  ASSUME Shapes, StoreLinks, NEW r \in Requests, Call(r)
  PROVE  CallInv(r)'
<1>0. ASSUME NEW grant \in Grants, NEW renew \in BOOLEAN
      PROVE  /\ Fresh(NewSession(grant, renew, None, None))
             /\ NewSession(grant, renew, None, None).family = None
  <2>1. \A inherited \in Nat \cup {None}, family \in SessionIds \cup {None} :
          /\ Fresh(NewSession(grant, renew, inherited, family))
          /\ NewSession(grant, renew, inherited, family).family = family
    BY NewSessionRow DEF Fresh, Shapes, TypeOK
  <2> QED BY <2>1
<1>1. ASSUME NEW grant \in Grants, NEW renew \in BOOLEAN, CallIssue(r, grant, renew)
      PROVE  CallInv(r)'
  <2> DEFINE row == NewSession(grant, renew, None, None)
             new == [op |-> "issue", token |-> None, renew |-> renew,
                     stale |-> None # None /\ None.of \in Dead]
  <2>1. Fresh(row) /\ row.family = None
    BY <1>0
  <2>2. /\ pc' = [pc EXCEPT ![r] = "insert"]
        /\ arg' = [arg EXCEPT ![r] = new]
        /\ result' = [result EXCEPT ![r] = "none"]
        /\ draft' = [draft EXCEPT ![r] = row]
    BY <1>1 DEF CallIssue, Begin, Goto
  <2>3. new.op = "issue" /\ ~new.stale
    OBVIOUS
  <2> HIDE DEF row, new
  <2>4. pc'[r] = "insert" /\ arg'[r] = new /\ result'[r] = "none" /\ draft'[r] = row
    BY <2>2 DEF Shapes, TypeOK
  <2>5. Fresh(draft[r])'
    BY <2>1, <2>4 DEF Fresh
  <2> QED BY <2>1, <2>3, <2>4, <2>5
          DEF CallInv, CallFit, StaleStaysStale, TokenSpent, RevokeFinds
<1> USE ConstantsAssumption
    DEF Shapes, TypeOK, Begin, Goto, CallInv, CallFit, StaleStaysStale, TokenSpent, RevokeFinds
<1>2. ASSUME NEW token \in HandedOut, CallValidate(r, token)
      PROVE  CallInv(r)'
  BY <1>2 DEF CallValidate, HandedOut, Dead, Live, Present, Revoked, Replaced
<1>3. ASSUME NEW token \in HandedOut, NEW renew \in BOOLEAN, CallRefresh(r, token, renew)
      PROVE  CallInv(r)'
  BY <1>3 DEF CallRefresh, HandedOut, Dead, Live, Present, Revoked, Replaced
<1>4. ASSUME NEW token \in HandedOut, CallRevoke(r, token)
      PROVE  CallInv(r)'
  BY <1>4 DEF CallRevoke, HandedOut, Dead, Live, Present, Revoked, Replaced
<1>5. ASSUME NEW op \in {"validate", "refresh", "revoke"}, CallMalformed(r, op)
      PROVE  CallInv(r)'
  <2>1. /\ pc' = [pc EXCEPT ![r] = "idle"]
        /\ arg' = [arg EXCEPT ![r] = NoArg]
        /\ result' = [result EXCEPT ![r] = IF op = "revoke" THEN "revoked" ELSE "invalid"]
    BY <1>5 DEF CallMalformed, Refuse, Answer
  <2>2. r \in DOMAIN pc /\ r \in DOMAIN arg /\ r \in DOMAIN result
    OBVIOUS
  <2> HIDE DEF Shapes, TypeOK
  <2>3. /\ pc'[r] = "idle"
        /\ arg'[r].op = "none" /\ arg'[r].token = None /\ ~arg'[r].stale
        /\ result'[r] \in {"revoked", "invalid"}
    BY <2>1, <2>2 DEF NoArg
  <2> QED BY <2>3
<1> HIDE DEF Shapes, TypeOK, Begin, CallInv
<1> QED BY <1>1, <1>2, <1>3, <1>4, <1>5 DEF Call

(* A call that is refused, fails or has issued a session leaves nothing to *)
(* keep.                                                                   *)
LEMMA RefuseCall ==
  ASSUME Shapes, NEW r \in Requests, NEW answer \in Answers, Refuse(r, answer),
         answer # "refreshed"
  PROVE  CallInv(r)'
BY ConstantsAssumption
   DEF Shapes, TypeOK, Refuse, Answer, Goto, NoArg, CallInv, CallFit, StaleStaysStale,
       TokenSpent, RevokeFinds

(* What Find returns is the token's row, and it fails to find only a row   *)
(* that is missing or has no such token.                                   *)
LEMMA FindRow ==
  ASSUME Shapes, NEW token \in Token, NEW kind \in {"access", "refresh"}
  PROVE  /\ Find(kind, token) # None =>
              /\ Find(kind, token) = store[token.of]
              /\ Present(token.of)
         /\ /\ Find(kind, token) = None
            /\ token.kind = kind
            /\ kind = "refresh" /\ Present(token.of) => store[token.of].refreshable
            => ~Present(token.of)
         /\ Acceptable(Find(kind, token)) => Live(token.of)
BY DEF Find, Present, Acceptable, Live, Revoked, Replaced

LEMMA ReadCall ==
  ASSUME Shapes, StoreLinks, NEW r \in Requests, CallInv(r), Lookup(r) \/ Relookup(r)
  PROVE  CallInv(r)'
<1> DEFINE of == arg[r].token.of
<1>1. /\ arg[r].token \in Token
      /\ of \in used
      /\ of \in SessionIds
      /\ arg[r].token.kind \in {"access", "refresh"}
  BY DEF Lookup, Relookup, Shapes, CallShape, TypeOK, Token
<1>2. PICK kind \in {"access", "refresh"} :
             /\ snap'[r] = Find(kind, arg[r].token)
             /\ arg[r].op = "revoke" /\ pc[r] = "lookup" => kind = "access"
             /\ pc[r] = "relookup" => kind = "refresh"
  BY DEF Lookup, Relookup, Shapes, TypeOK
<1>3. /\ pc[r] \in {"lookup", "relookup"}
      /\ pc[r] = "lookup" => pc'[r] = "loaded"
      /\ pc[r] = "relookup" => pc'[r] = "reloaded"
      /\ UNCHANGED <<now, used, store, arg, draft, result>>
  BY DEF Lookup, Relookup, Goto, Shapes, TypeOK
<1>4. snap'[r] # None => snap'[r] = store[of] /\ Present(of)
  BY <1>1, <1>2, FindRow
<1>5. CallFit(r)'
  <2>1. snap'[r] # None => Agrees(snap'[r], of) /\ snap'[r].family # None
    BY <1>1, <1>4, ConstantsAssumption DEF Agrees, StoreLinks, Shapes, TypeOK
  <2> QED BY <1>3, <2>1 DEF CallFit, Agrees, Present
<1>6. StaleStaysStale(r)'
  <2>1. Acceptable(snap'[r]) => Live(of)
    BY <1>1, <1>2, FindRow
  <2> QED BY <1>3, <2>1 DEF CallInv, StaleStaysStale, Acceptable, Live, Present, Revoked, Replaced
<1>7. TokenSpent(r)'
  BY <1>3 DEF CallInv, TokenSpent, Present, Replaced
<1>8. RevokeFinds(r)'
  <2>1. ASSUME arg[r].op = "revoke", snap'[r] = None
        PROVE  /\ arg[r].token.kind = "access" => ~Present(of)
               /\ pc[r] = "relookup" => ~Present(of)
    BY <1>1, <1>2, <1>3, <2>1, FindRow DEF CallInv, RevokeFinds
  <2> QED BY <1>3, <2>1 DEF CallInv, RevokeFinds, Present, Revoked
<1> QED BY <1>5, <1>6, <1>7, <1>8 DEF CallInv

LEMMA ValidatedCall ==
  ASSUME Shapes, NEW r \in Requests, CallInv(r), Validated(r)
  PROVE  CallInv(r)'
<1>1. CASE Refuse(r, "invalid") \/ Refuse(r, "expired")
  BY <1>1, RefuseCall DEF Answers
<1>2. CASE Acceptable(snap[r]) /\ Accept(r, "valid")
  <2>1. /\ pc'[r] = "idle"
        /\ result'[r] = "valid"
        /\ arg'[r] = arg[r]
        /\ ~arg[r].stale
    BY <1>2 DEF Validated, Accept, Answer, Goto, Shapes, TypeOK, CallInv, StaleStaysStale
  <2> QED BY <2>1 DEF CallInv, CallFit, StaleStaysStale, TokenSpent, RevokeFinds
<1> QED BY <1>1, <1>2 DEF Validated

LEMMA RefreshCall ==
  ASSUME Shapes, StoreLinks, NEW r \in Requests, CallInv(r),
         \/ RefreshInvalid(r)
         \/ RefreshExpired(r)
         \/ RefreshReused(r)
         \/ RefreshCreate(r)
         \/ ReplaceRefused(r)
  PROVE  CallInv(r)'
<1> DEFINE of == arg[r].token.of
<1>1. CASE RefreshInvalid(r) \/ RefreshExpired(r)
  BY <1>1, RefuseCall DEF RefreshInvalid, RefreshExpired, Answers
<1>2. CASE RefreshReused(r)
  <2>1. /\ pc[r] \in {"loaded", "reloaded"}
        /\ arg[r].op = "refresh"
        /\ snap[r] \in Row
        /\ now \in Nat
        /\ pc'[r] = "revoke"
        /\ snap'[r] = [snap[r] EXCEPT !.revoked_at = now]
        /\ UNCHANGED <<now, used, store, arg, draft, result>>
    BY <1>2 DEF RefreshReused, RefreshLoaded, Goto, Shapes, TypeOK
  <2>2. /\ snap'[r].grant = snap[r].grant
        /\ snap'[r].family = snap[r].family
        /\ snap'[r].refreshable = snap[r].refreshable
        /\ snap'[r].deadline = snap[r].deadline
    BY <2>1, StampedRow
  <2>3. CallFit(r)'
    BY <2>1, <2>2, ConstantsAssumption DEF CallInv, CallFit, Agrees, Present
  <2> QED BY <2>1, <2>3 DEF CallInv, StaleStaysStale, TokenSpent, RevokeFinds, Live, Present,
                            Revoked, Replaced
<1>3. CASE RefreshCreate(r)
  <2> DEFINE new == NewSession(snap[r].grant, arg[r].renew, snap[r].deadline, snap[r].family)
  <2>1. /\ pc[r] = "loaded"
        /\ arg[r].op = "refresh"
        /\ arg[r].renew \in BOOLEAN
        /\ Acceptable(snap[r])
        /\ snap[r] # None
        /\ snap[r] \in Row
        /\ snap[r].deadline # None
        /\ now \in Nat
        /\ pc'[r] = "replace"
        /\ draft'[r] = new
        /\ UNCHANGED <<now, used, store, arg, snap, result>>
    BY <1>3 DEF RefreshCreate, RefreshLoaded, Refreshable, Acceptable, Goto, Shapes, TypeOK
  <2>2. /\ snap[r].grant \in Grants
        /\ snap[r].deadline \in Nat \cup {None}
        /\ snap[r].family \in SessionIds \cup {None}
    BY <2>1, RowFields
  <2>3. /\ new.grant = snap[r].grant
        /\ new.family = snap[r].family
        /\ Fresh(new)
        /\ new.expires_at <= snap[r].deadline
        /\ new.refreshable => new.deadline = snap[r].deadline
    BY <2>1, <2>2, NewSessionRow DEF Fresh
  <2>4. Agrees(snap[r], of) /\ snap[r].family # None
    BY <2>1 DEF CallInv, CallFit
  <2>5. CallFit(r)'
    <3>1. Succeeds(new, of)
      BY <2>3, <2>4 DEF Succeeds, Agrees
    <3> HIDE DEF new
    <3> QED BY <2>1, <2>3, <2>4, <3>1 DEF CallFit, Succeeds, Fresh, Present
  <2>6. ~arg[r].stale
    BY <2>1 DEF CallInv, StaleStaysStale
  <2> QED BY <2>1, <2>5, <2>6 DEF CallInv, StaleStaysStale, TokenSpent, RevokeFinds, Present,
                                  Revoked, Replaced
<1>4. CASE ReplaceRefused(r)
  <2>1. /\ pc[r] = "replace"
        /\ pc'[r] = "relookup"
        /\ UNCHANGED <<now, used, store, arg, snap, draft, result>>
    BY <1>4 DEF ReplaceRefused, Goto, Shapes, TypeOK
  <2> QED BY <2>1 DEF CallInv, CallFit, StaleStaysStale, TokenSpent, RevokeFinds, Present,
                      Revoked, Replaced
<1> QED BY <1>1, <1>2, <1>3, <1>4

LEMMA AcceptedCall ==
  ASSUME Shapes, StoreLinks, NEW r \in Requests, CallInv(r), ReplaceAccepted(r)
  PROVE  CallInv(r)'
<1> DEFINE of == arg[r].token.of
<1>1. PICK id \in SessionIds :
             /\ id \in used'
             /\ store'[of] = [store[of] EXCEPT !.replaced_by = id]
             /\ Present(of)
  <2>1. PICK old, id \in SessionIds, row \in Row :
               /\ old = of
               /\ Eligible(old)
               /\ Inserted(id, row)
               /\ store'[old] = [store[old] EXCEPT !.replaced_by = id]
    BY ReplaceEffect DEF CallInv
  <2> QED BY <2>1 DEF Inserted, Eligible, Live
<1>2. /\ arg[r].token \in Token
      /\ of \in SessionIds
      /\ of \in used
      /\ used \subseteq used'
      /\ ~arg[r].stale
      /\ pc'[r] = "idle"
      /\ result'[r] = "refreshed"
      /\ arg' = arg
  BY DEF ReplaceAccepted, Accept, Answer, Goto, Shapes, TypeOK, CallShape, CallInv,
         StaleStaysStale
<1>3. Replaced(of)'
  <2>1. store[of] \in Row
    BY <1>1, <1>2, PresentRow
  <2>2. store'[of] \in Row /\ store'[of].replaced_by = id
    BY <1>1, <2>1, ReplacedRow
  <2> QED BY <1>2, <2>2, ConstantsAssumption DEF Replaced, Present
<1> QED BY <1>2, <1>3 DEF CallInv, CallFit, StaleStaysStale, TokenSpent, RevokeFinds

LEMMA RevokeCall ==
  ASSUME Shapes, StoreLinks, NEW r \in Requests, CallInv(r), RevokeNext(r) \/ RevokeFamily(r)
  PROVE  CallInv(r)'
<1> DEFINE of == arg[r].token.of
<1>1. CASE RevokeNext(r) /\ snap[r] # None
  <2>1. /\ pc[r] \in {"loaded", "reloaded"}
        /\ snap[r] \in Row
        /\ now \in Nat
        /\ pc'[r] = "revoke"
        /\ snap'[r] = [snap[r] EXCEPT !.revoked_at = now]
        /\ UNCHANGED <<now, used, store, arg, draft, result>>
    BY <1>1 DEF RevokeNext, Goto, Shapes, TypeOK
  <2>2. /\ snap'[r].grant = snap[r].grant
        /\ snap'[r].family = snap[r].family
        /\ snap'[r].refreshable = snap[r].refreshable
        /\ snap'[r].deadline = snap[r].deadline
    BY <2>1, StampedRow
  <2>3. CallFit(r)'
    BY <1>1, <2>1, <2>2 DEF CallInv, CallFit, Agrees, Present
  <2> QED BY <2>1, <2>3 DEF CallInv, StaleStaysStale, TokenSpent, RevokeFinds, Live, Present,
                            Revoked, Replaced
<1>2. CASE RevokeNext(r) /\ snap[r] = None /\ pc[r] = "loaded"
  <2>1. /\ pc'[r] = "relookup"
        /\ UNCHANGED <<now, used, store, arg, snap, draft, result>>
    BY <1>2 DEF RevokeNext, Goto, Shapes, TypeOK
  <2> QED BY <1>2, <2>1 DEF CallInv, CallFit, StaleStaysStale, TokenSpent, RevokeFinds, Live,
                            Present, Revoked, Replaced
<1>3. CASE RevokeNext(r) /\ snap[r] = None /\ pc[r] = "reloaded"
  <2>1. /\ arg[r].op = "revoke"
        /\ pc'[r] = "idle"
        /\ result'[r] = "revoked"
        /\ UNCHANGED <<now, used, store, arg>>
    BY <1>3 DEF RevokeNext, Accept, Answer, Goto, Shapes, TypeOK
  <2>2. arg[r].token \in Token /\ of \in used /\ ~Present(of)
    BY <1>3, <2>1 DEF CallInv, RevokeFinds, Shapes, CallShape
  <2> QED BY <2>1, <2>2 DEF CallInv, CallFit, StaleStaysStale, TokenSpent, RevokeFinds, Present,
                            Revoked
<1>4. CASE RevokeFamily(r)
  <2>1. /\ snap[r] # None
        /\ arg[r].token \in Token
        /\ of \in used
        /\ of \in SessionIds
        /\ used' = used
        /\ pc[r] = "revoke"
        /\ pc'[r] = "idle"
        /\ result'[r] \in {"reused", "revoked"}
        /\ arg' = arg
    BY <1>4 DEF RevokeFamily, Accept, Answer, Goto, Shapes, TypeOK, CallShape
  <2>2. Present(of) => store[of].family = snap[r].family
    BY <2>1 DEF CallInv, CallFit, Agrees
  <2>3. Present(of)' => Revoked(of)'
    BY <1>4, <2>1, <2>2, RevokeEffect DEF Present, Revoked
  <2> QED BY <2>1, <2>3 DEF CallInv, CallFit, StaleStaysStale, TokenSpent, RevokeFinds
<1> QED BY <1>1, <1>2, <1>3, <1>4 DEF RevokeNext

LEMMA NextCalls ==
  ASSUME Shapes, StoreLinks, CallsInv, [Next]_vars
  PROVE  CallsInv'
<1>1. ASSUME NEW r \in Requests, Call(r) \/ Step(r) \/ Fail(r)
      PROVE  CallInv(r)'
  <2>1. CallInv(r)
    BY DEF CallsInv
  <2>2. CASE Insert(r) \/ Fail(r)
    BY <2>2, RefuseCall DEF Insert, Fail, Answers
  <2> QED BY <1>1, <2>1, <2>2, BeginCall, ReadCall, ValidatedCall, RefreshCall, AcceptedCall,
             RevokeCall DEF Step
<1>2. ASSUME NEW r \in Requests, Call(r) \/ Step(r) \/ Fail(r), NEW q \in Requests, q # r
      PROVE  CallInv(q)'
  BY <1>2, StepLocal, CallUndisturbed, NextEvolves DEF CallsInv
<1>3. ASSUME NEW q \in Requests,
             (\E s \in SessionIds : Purge(s)) \/ Tick \/ UNCHANGED vars
      PROVE  CallInv(q)'
  <2>1. UNCHANGED <<pc, arg, snap, draft, result>>
    BY <1>3 DEF Purge, Tick, vars
  <2> QED BY <2>1, CallUndisturbed, NextEvolves DEF CallsInv
<1> QED BY <1>1, <1>2, <1>3 DEF Next, CallsInv

(* Only replace makes a refresh succeed. *)
LEMMA RefreshedByReplace ==
  ASSUME Shapes, [Next]_vars, NEW q \in Requests, result'[q] = "refreshed"
  PROVE  \/ ReplaceAccepted(q)
         \/ result[q] = "refreshed" /\ arg'[q] = arg[q]
<1> USE DEF Shapes, TypeOK, Goto, Answer, Accept, Refuse
<1>1. CASE Call(q)
  BY <1>1 DEF Call, CallIssue, CallValidate, CallRefresh, CallRevoke, CallMalformed, Begin
<1>2. CASE Fail(q)
  BY <1>2 DEF Fail
<1>3. CASE Step(q)
  <2>1. CASE Insert(q) \/ Lookup(q) \/ Relookup(q)
    BY <2>1 DEF Insert, Lookup, Relookup
  <2>2. CASE Validated(q) \/ RefreshInvalid(q) \/ RefreshExpired(q)
    BY <2>2 DEF Validated, RefreshInvalid, RefreshExpired
  <2>3. CASE RefreshReused(q) \/ RefreshCreate(q) \/ ReplaceRefused(q)
    BY <2>3 DEF RefreshReused, RefreshCreate, ReplaceRefused
  <2>4. CASE RevokeNext(q) \/ RevokeFamily(q)
    BY <2>4 DEF RevokeNext, RevokeFamily
  <2> QED BY <1>3, <2>1, <2>2, <2>3, <2>4 DEF Step
<1>4. ASSUME NEW r \in Requests, r # q, Call(r) \/ Step(r) \/ Fail(r)
      PROVE  result'[q] = result[q] /\ arg'[q] = arg[q]
  BY <1>4, StepLocal
<1>5. CASE (\E s \in SessionIds : Purge(s)) \/ Tick \/ UNCHANGED vars
  BY <1>5 DEF Purge, Tick, vars
<1> QED BY <1>1, <1>2, <1>3, <1>4, <1>5 DEF Next

LEMMA NextSingleUse ==
  ASSUME Shapes, CallsInv, SingleUse, [Next]_vars
  PROVE  SingleUse'
<1> SUFFICES ASSUME NEW q \in Requests, NEW r \in Requests, q # r,
                    result'[q] = "refreshed", result'[r] = "refreshed",
                    arg'[q].token = arg'[r].token
             PROVE  FALSE
  BY DEF SingleUse
<1>1. ASSUME NEW a \in Requests, NEW b \in Requests, a # b, ReplaceAccepted(a),
             result'[b] = "refreshed", arg'[a].token = arg'[b].token
      PROVE  FALSE
  <2>1. result[b] = "refreshed" /\ arg'[b] = arg[b] /\ arg'[a] = arg[a]
    BY <1>1, StepLocal DEF Step, ReplaceAccepted, Accept
  <2>2. Present(arg[b].token.of) => Replaced(arg[b].token.of)
    BY <2>1 DEF CallsInv, CallInv, TokenSpent
  <2>3. Live(arg[a].token.of)
    BY <1>1 DEF ReplaceAccepted, Eligible
  <2> QED BY <1>1, <2>1, <2>2, <2>3 DEF Live
<1>2. CASE ReplaceAccepted(q) \/ ReplaceAccepted(r)
  BY <1>1, <1>2
<1>3. CASE ~ReplaceAccepted(q) /\ ~ReplaceAccepted(r)
  BY <1>3, RefreshedByReplace DEF SingleUse
<1> QED BY <1>2, <1>3

(* A refresh goes on finding its row, whoever takes a step. *)
LEMMA RefreshUndisturbed ==
  ASSUME Shapes, Evolves, NEW r \in Requests, RefreshFinds(r),
         pc'[r] = pc[r], arg'[r] = arg[r], snap'[r] = snap[r]
  PROVE  RefreshFinds(r)'
<1>1. pc[r] \notin {"idle", "insert"} => arg[r].token.of \in used
  BY DEF Shapes, CallShape
<1> QED BY <1>1 DEF RefreshFinds, Evolves

LEMMA RefreshStep ==
  ASSUME Shapes, StoreLinks, NEW r \in Requests, RefreshFinds(r),
         Call(r) \/ Step(r) \/ Fail(r)
  PROVE  RefreshFinds(r)'
<1> USE DEF Shapes, TypeOK, Goto, RefreshFinds
<1>1. CASE Call(r)
  <2>1. ASSUME NEW token \in HandedOut, NEW renew \in BOOLEAN, CallRefresh(r, token, renew)
        PROVE  RefreshFinds(r)'
    BY <2>1 DEF CallRefresh, Begin, HandedOut, Present
  <2>2. CASE pc'[r] = "idle" \/ arg'[r].op # "refresh"
    BY <2>2
  <2>3. ASSUME NEW grant \in Grants, NEW renew \in BOOLEAN, CallIssue(r, grant, renew)
        PROVE  arg'[r].op = "issue"
    BY <2>3 DEF CallIssue, Begin
  <2>4. ASSUME NEW token \in HandedOut, CallValidate(r, token)
        PROVE  arg'[r].op = "validate"
    BY <2>4 DEF CallValidate, Begin
  <2>5. ASSUME NEW token \in HandedOut, CallRevoke(r, token)
        PROVE  arg'[r].op = "revoke"
    BY <2>5 DEF CallRevoke, Begin
  <2>6. ASSUME NEW op \in {"validate", "refresh", "revoke"}, CallMalformed(r, op)
        PROVE  pc'[r] = "idle"
    BY <2>6 DEF CallMalformed, Refuse, Answer
  <2> HIDE DEF Shapes, TypeOK, RefreshFinds
  <2> QED BY <1>1, <2>1, <2>2, <2>3, <2>4, <2>5, <2>6 DEF Call
<1>2. CASE Lookup(r) \/ Relookup(r)
  <2> DEFINE of == arg[r].token.of
  <2>1. /\ arg[r].token \in Token
        /\ pc[r] \in {"lookup", "relookup"}
        /\ pc'[r] \in {"loaded", "reloaded"}
        /\ arg[r].op = "refresh" => snap'[r] = Find("refresh", arg[r].token)
        /\ UNCHANGED <<store, arg>>
    BY <1>2 DEF Lookup, Relookup, CallShape
  <2>2. ASSUME arg[r].op = "refresh", arg[r].token.kind = "refresh", Present(of)
        PROVE  /\ store[of].refreshable
               /\ snap'[r] # None
               /\ snap'[r] = store[of]
    BY <2>1, <2>2, FindRow
  <2> QED BY <2>1, <2>2 DEF Present, Revoked
<1>3. CASE RefreshReused(r) \/ RefreshCreate(r) \/ ReplaceRefused(r)
  <2>1. /\ pc[r] # "idle"
        /\ pc'[r] \in {"revoke", "replace", "relookup"}
        /\ UNCHANGED <<store, arg>>
    BY <1>3 DEF RefreshReused, RefreshCreate, ReplaceRefused, RefreshLoaded
  <2> QED BY <2>1 DEF Present
<1>4. CASE RevokeNext(r)
  <2>1. arg'[r].op # "refresh"
    BY <1>4 DEF RevokeNext, Accept
  <2> QED BY <2>1
<1>5. CASE \/ Insert(r) \/ Validated(r) \/ RefreshInvalid(r) \/ RefreshExpired(r)
           \/ ReplaceAccepted(r) \/ RevokeFamily(r) \/ Fail(r)
  <2>1. pc'[r] = "idle"
    BY <1>5 DEF Insert, Validated, RefreshInvalid, RefreshExpired, ReplaceAccepted,
                RevokeFamily, Fail, Accept, Refuse, Answer
  <2> QED BY <2>1
<1> QED BY <1>1, <1>2, <1>3, <1>4, <1>5 DEF Step

LEMMA NextRefresh ==
  ASSUME Shapes, StoreLinks, CallsInv, RefreshInv, [Next]_vars
  PROVE  RefreshInv'
<1>1. ASSUME NEW r \in Requests, Call(r) \/ Step(r) \/ Fail(r), NEW q \in Requests
      PROVE  RefreshFinds(q)'
  BY <1>1, RefreshStep, StepLocal, RefreshUndisturbed, NextEvolves DEF RefreshInv
<1>2. ASSUME NEW q \in Requests,
             (\E s \in SessionIds : Purge(s)) \/ Tick \/ UNCHANGED vars
      PROVE  RefreshFinds(q)'
  <2>1. UNCHANGED <<pc, arg, snap>>
    BY <1>2 DEF Purge, Tick, vars
  <2> QED BY <2>1, RefreshUndisturbed, NextEvolves DEF RefreshInv
<1> QED BY <1>1, <1>2 DEF Next, RefreshInv

(* Of the steps that answer a call, those that answer the refresh of a dead*)
(* token find its family revoked, or revoke it, unless the row is gone.    *)
LEMMA StalePunished ==
  ASSUME Shapes, CallsInv, RefreshInv, NEW r \in Requests, Step(r),
         NEW of \in SessionIds, arg[r].token.of = of,
         arg[r].op = "refresh", arg[r].token.kind = "refresh", arg[r].stale,
         pc[r] # "idle", pc'[r] = "idle", Present(of)'
  PROVE  Revoked(of) \/ RevokeFamily(r)
<1> USE DEF Shapes, TypeOK, Goto
<1>1. /\ RefreshFinds(r)
      /\ pc[r] \in {"loaded", "reloaded"} => ~Acceptable(snap[r])
      /\ pc[r] # "replace"
  BY DEF RefreshInv, CallsInv, CallInv, StaleStaysStale
<1>2. CASE Lookup(r) \/ Relookup(r) \/ RefreshReused(r) \/ RefreshCreate(r) \/ ReplaceRefused(r)
  BY <1>2 DEF Lookup, Relookup, RefreshReused, RefreshCreate, ReplaceRefused
<1>3. CASE Insert(r) \/ Validated(r) \/ RevokeNext(r) \/ ReplaceAccepted(r)
  BY <1>1, <1>3 DEF RefreshFinds, Insert, Validated, RevokeNext, ReplaceAccepted
<1>4. CASE RefreshExpired(r)
  BY <1>1, <1>4 DEF RefreshExpired, RefreshLoaded
<1>5. CASE RefreshInvalid(r)
  <2>1. /\ pc[r] \in {"loaded", "reloaded"}
        /\ snap[r] = None \/ snap[r].revoked_at # None
    BY <1>1, <1>5 DEF RefreshInvalid, RefreshLoaded, Refreshable
  <2>2. Present(of)
    BY <1>5 DEF RefreshInvalid, Refuse, Present
  <2> QED BY <1>1, <2>1, <2>2 DEF RefreshFinds
<1> QED BY <1>2, <1>3, <1>4, <1>5 DEF Step

-----------------------------------------------------------------------------
(* Theorems *)

LEMMA InitIInv == Init => IInv
<1> SUFFICES ASSUME Init PROVE IInv
  OBVIOUS
<1>1. StoreLinks /\ FamilyInv
  BY DEF Init, StoreLinks, FamilyInv, OneLiveSession, RevocationReachesFamily,
         DeadlineInherited, LinearLineage, ReplacedWithin, ReplacedApart, JoinedByReplacement,
         SameFamily, Live, Revoked, Replaced, Present
<1>2. CallsInv /\ SingleUse
  BY DEF Init, NoArg, CallsInv, CallInv, CallFit, StaleStaysStale, TokenSpent, RevokeFinds,
         SingleUse
<1>3. RefreshInv
  BY DEF Init, RefreshInv, RefreshFinds
<1> QED BY <1>1, <1>2, <1>3, InitShapes DEF IInv

LEMMA NextIInv == IInv /\ [Next]_vars => IInv'
BY NextShapes, NextFamily, NextCalls, NextSingleUse, NextRefresh DEF IInv

THEOREM Inductive == Spec => []IInv
BY InitIInv, NextIInv, PTL DEF Spec

(* For any number of sessions and requests and any lifetimes: a family     *)
(* never has two usable sessions.                                          *)
THEOREM OneLiveSessionHolds == Spec => []OneLiveSession
<1>1. IInv => OneLiveSession
  BY DEF IInv, FamilyInv
<1> QED BY <1>1, Inductive, PTL

(* A revocation misses no session of its family, not even one that a       *)
(* refresh was about to store.                                             *)
THEOREM RevocationHolds == Spec => []RevocationReachesFamily
<1>1. IInv => RevocationReachesFamily
  BY DEF IInv, FamilyInv
<1> QED BY <1>1, Inductive, PTL

(* No chain of refreshes outlives the deadline its first session set or    *)
(* changes the identity.                                                   *)
THEOREM DeadlineHolds == Spec => []DeadlineInherited
<1>1. IInv => DeadlineInherited
  BY DEF IInv, FamilyInv
<1> QED BY <1>1, Inductive, PTL

(* Replacements form chains. *)
THEOREM LineageHolds == Spec => []LinearLineage
<1>1. IInv => LinearLineage
  BY DEF IInv, FamilyInv
<1> QED BY <1>1, Inductive, PTL

(* A refresh token is exchanged once, however many calls present it.       *)
THEOREM SingleUseHolds == Spec => []SingleUse
<1>1. IInv => SingleUse
  BY DEF IInv
<1> QED BY <1>1, Inductive, PTL

(* A token that was dead when a call began is not accepted by it.          *)
THEOREM NoStaleAcceptHolds == Spec => []NoStaleAccept
<1>1. IInv => NoStaleAccept
  BY DEF IInv, CallsInv, CallInv, StaleStaysStale, NoStaleAccept
<1> QED BY <1>1, Inductive, PTL

(* An answered revocation, or reuse report, holds for every session of the *)
(* family and for good.                                                    *)
THEOREM RevokedForGoodHolds == Spec => []RevokedForGood
<1>1. IInv => RevokedForGood
  <2> SUFFICES ASSUME IInv, NEW r \in Requests, NEW s \in SessionIds,
                      result[r] \in {"reused", "revoked"}, arg[r].token # None,
                      SameFamily(arg[r].token.of, s)
               PROVE  Revoked(s)
    BY DEF RevokedForGood
  <2>1. Revoked(arg[r].token.of) /\ arg[r].token.of \in SessionIds
    BY DEF IInv, CallsInv, CallInv, RevokeFinds, SameFamily, Token
  <2> QED BY <2>1 DEF IInv, FamilyInv, RevocationReachesFamily
<1> QED BY <1>1, Inductive, PTL

(* What a row says of its grant, family and deadline never changes; a      *)
(* replacement or revocation time once set is never altered.               *)
THEOREM LineageKeptHolds == Spec => LineageKept
<1>1. IInv /\ [Next]_vars =>
        [\A s \in SessionIds :
           Present(s) /\ Present(s)' =>
             /\ store'[s].grant = store[s].grant
             /\ store'[s].family = store[s].family
             /\ store'[s].deadline = store[s].deadline
             /\ Replaced(s) => store'[s].replaced_by = store[s].replaced_by
             /\ Revoked(s) => store'[s].revoked_at = store[s].revoked_at]_vars
  BY NextEvolves DEF IInv, Evolves, StoreLinks
<1> QED BY <1>1, Inductive, PTL DEF Spec, LineageKept

(* A refresh with a token that was already consumed or revoked only        *)
(* returns once its family is revoked, or its row deleted.                 *)
THEOREM ReplayIsPunishedHolds == Spec => ReplayIsPunished
<1>1. ASSUME IInv, [Next]_vars, NEW r \in Requests, NEW s \in SessionIds,
             arg[r].op = "refresh", arg[r].token = [kind |-> "refresh", of |-> s],
             arg[r].stale, pc[r] # "idle", pc'[r] = "idle", result'[r] # "failed",
             Present(s)'
      PROVE  Revoked(s)'
  <2>1. Step(r)
    <3>1. ~Call(r)
      BY <1>1 DEF Call, CallIssue, CallValidate, CallRefresh, CallRevoke, CallMalformed, Begin
    <3>2. ~Fail(r)
      BY <1>1 DEF Fail, Refuse, Answer, IInv, Shapes, TypeOK
    <3>3. ASSUME NEW q \in Requests, q # r, Call(q) \/ Step(q) \/ Fail(q)
          PROVE  FALSE
      BY <1>1, <3>3, StepLocal DEF IInv
    <3>4. CASE (\E p \in SessionIds : Purge(p)) \/ Tick \/ UNCHANGED vars
      BY <1>1, <3>4 DEF Purge, Tick, vars
    <3> QED BY <1>1, <3>1, <3>2, <3>3, <3>4 DEF Next
  <2>2. /\ arg[r].token.of = s
        /\ arg[r].token.kind = "refresh"
    BY <1>1
  <2>3. Revoked(s) \/ RevokeFamily(r)
    BY <1>1, <2>1, <2>2, StalePunished DEF IInv
  <2>4. CASE Revoked(s)
    <3>1. s \in used
      BY <1>1, <2>2 DEF IInv, Shapes, CallShape, RefreshInv, RefreshFinds
    <3> QED BY <1>1, <2>4, <3>1, NextEvolves DEF IInv, Evolves
  <2>5. CASE RevokeFamily(r)
    <3>1. CallInv(r)' /\ arg' = arg /\ result'[r] = "reused"
      BY <1>1, <2>5, RevokeCall
         DEF IInv, CallsInv, RevokeFamily, Accept, Answer, Shapes, TypeOK
    <3> QED BY <1>1, <2>2, <3>1, ConstantsAssumption DEF CallInv, RevokeFinds, Token
  <2> QED BY <2>3, <2>4, <2>5
<1>2. IInv /\ [Next]_vars =>
        [\A r \in Requests, s \in SessionIds :
           /\ arg[r].op = "refresh"
           /\ arg[r].token = [kind |-> "refresh", of |-> s]
           /\ arg[r].stale
           /\ pc[r] # "idle" /\ pc'[r] = "idle" /\ result'[r] # "failed"
           => Revoked(s)' \/ ~Present(s)']_vars
  <2> SUFFICES ASSUME IInv, [Next]_vars, NEW r \in Requests, NEW s \in SessionIds,
                      arg[r].op = "refresh", arg[r].token = [kind |-> "refresh", of |-> s],
                      arg[r].stale, pc[r] # "idle", pc'[r] = "idle", result'[r] # "failed"
               PROVE  Revoked(s)' \/ ~Present(s)'
    OBVIOUS
  <2> QED BY <1>1
<1> QED BY <1>2, Inductive, PTL DEF Spec, ReplayIsPunished

-----------------------------------------------------------------------------
(* The promise of SessionFamilies *)

LEMMA InitPromise == Init => Families!PromiseInit
BY DEF Init, Families!PromiseInit, Status, Family, Present

LEMMA InsertPromise ==
  ASSUME Shapes, StoreLinks, NEW r \in Requests, CallFit(r), Insert(r)
  PROVE  \E s \in SessionIds : Families!Open(s)
<1>1. PICK id \in SessionIds, row \in Row :
             /\ Inserted(id, row)
             /\ row.family = id
             /\ \A s \in SessionIds : s # id => store'[s] = store[s]
  BY InsertEffect
<1>2. /\ id \notin used
      /\ used' = used \cup {id}
      /\ store'[id] # None
      /\ store'[id].revoked_at = None
      /\ store'[id].replaced_by = None
      /\ store'[id].family = id
  BY <1>1, ConstantsAssumption DEF Inserted
<1>3. Status[id] = "unused"
  BY <1>2 DEF Status
<1>4. Status' = [Status EXCEPT ![id] = "live"]
  <2>1. Status'[id] = "live"
    BY <1>2 DEF Status, Live, Present, Revoked, Replaced
  <2>2. \A s \in SessionIds : s # id => Status'[s] = Status[s]
    BY <1>1, <1>2 DEF Status, Live, Present, Revoked, Replaced
  <2> QED BY <2>1, <2>2 DEF Status
<1>5. Family' = [Family EXCEPT ![id] = id]
  BY <1>1, <1>2 DEF Family, Present
<1> QED BY <1>3, <1>4, <1>5 DEF Families!Open

LEMMA ReplacePromise ==
  ASSUME Shapes, StoreLinks, NEW r \in Requests, CallFit(r), ReplaceAccepted(r)
  PROVE  \E s, t \in SessionIds : Families!Rotate(s, t)
<1>1. PICK old, id \in SessionIds, row \in Row :
             /\ Eligible(old)
             /\ Inserted(id, row)
             /\ row.family = store[old].family
             /\ store'[old] = [store[old] EXCEPT !.replaced_by = id]
             /\ \A s \in SessionIds : s \notin {id, old} => store'[s] = store[s]
  BY ReplaceEffect
<1>2. /\ id \notin used
      /\ used' = used \cup {id}
      /\ store'[id] # None
      /\ store'[id].revoked_at = None
      /\ store'[id].replaced_by = None
      /\ store'[id].family = store[old].family
  BY <1>1, ConstantsAssumption DEF Inserted
<1>3. /\ Live(old)
      /\ Present(old)
      /\ old \in used
      /\ old # id
      /\ store[old] \in Row
      /\ store[old].revoked_at = None
  BY <1>1, <1>2, PresentRow DEF Eligible, Live, StoreLinks, Revoked
<1>4. /\ store'[old] # None
      /\ store'[old].family = store[old].family
      /\ store'[old].replaced_by # None
      /\ store'[old].revoked_at = None
  <2> DEFINE new == [store[old] EXCEPT !.replaced_by = id]
  <2>1. /\ new \in Row
        /\ new.family = store[old].family
        /\ new.replaced_by = id
        /\ new.revoked_at = store[old].revoked_at
    BY <1>3, ReplacedRow
  <2> HIDE DEF new
  <2> QED BY <1>1, <1>3, <2>1, ConstantsAssumption DEF new
<1>5. Status[old] = "live" /\ Status[id] = "unused"
  BY <1>2, <1>3 DEF Status, Live, Present
<1>6. Status' = [Status EXCEPT ![old] = "rotated", ![id] = "live"]
  <2>1. Status'[id] = "live"
    BY <1>2 DEF Status, Live, Present, Revoked, Replaced
  <2>2. Status'[old] = "rotated"
    BY <1>2, <1>3, <1>4 DEF Status, Live, Present, Revoked, Replaced
  <2>3. \A s \in SessionIds : s \notin {id, old} => Status'[s] = Status[s]
    BY <1>1, <1>2 DEF Status, Live, Present, Revoked, Replaced
  <2> QED BY <2>1, <2>2, <2>3, <1>3 DEF Status
<1>7. Family' = [Family EXCEPT ![id] = Family[old]]
  <2>1. Family[old] = store[old].family
    BY <1>3 DEF Family
  <2>2. Family'[id] = store[old].family /\ Family'[old] = Family[old]
    BY <1>2, <1>4, <2>1 DEF Family, Present
  <2>3. \A s \in SessionIds : s \notin {id, old} => Family'[s] = Family[s]
    BY <1>1 DEF Family, Present
  <2> QED BY <2>1, <2>2, <2>3 DEF Family
<1> QED BY <1>5, <1>6, <1>7 DEF Families!Rotate

LEMMA RevokePromise ==
  ASSUME Shapes, StoreLinks, NEW r \in Requests, CallFit(r), RevokeFamily(r)
  PROVE  \E f \in SessionIds : Families!Kill(f)
<1> DEFINE f == snap[r].family
<1>1. /\ used' = used
      /\ snap[r] \in Row
      /\ \A s \in SessionIds : ~Present(s) => store'[s] = None
      /\ \A s \in SessionIds : Present(s) =>
           /\ store'[s] \in Row
           /\ store'[s].family = store[s].family
           /\ store'[s].replaced_by = store[s].replaced_by
           /\ store[s].revoked_at # None => store'[s].revoked_at = store[s].revoked_at
           /\ store[s].family = f => store'[s].revoked_at # None
           /\ store[s].family # f => store'[s] = store[s]
  BY RevokeEffect
<1>2. f \in SessionIds
  <2>1. f # None
    BY DEF RevokeFamily, Shapes, CallShape, CallFit
  <2> QED BY <1>1, <2>1, RowFields
<1>3. \A s \in SessionIds : Present(s)' <=> Present(s)
  BY <1>1, ConstantsAssumption DEF Present
<1>4. Family' = Family
  BY <1>1, <1>3 DEF Family
<1>5. ASSUME NEW s \in SessionIds
      PROVE  Status'[s] = IF Status[s] \in Families!Recorded /\ Family[s] = f
                          THEN "revoked" ELSE Status[s]
  <2>1. CASE Present(s) /\ store[s].family = f
    <3>1. Revoked(s)' /\ s \in used /\ Family[s] = f
      BY <1>1, <1>3, <2>1 DEF Revoked, StoreLinks, Family
    <3>2. Status[s] \in Families!Recorded
      BY <2>1, <3>1 DEF Status, Families!Recorded, Live
    <3> QED BY <1>1, <1>3, <2>1, <3>1, <3>2 DEF Status, Live, Revoked
  <2>2. CASE Present(s) /\ store[s].family # f
    BY <1>1, <2>2 DEF Status, Live, Revoked, Replaced, Present, Family
  <2>3. CASE ~Present(s)
    BY <1>1, <1>2, <1>3, <2>3, ConstantsAssumption DEF Status, Live, Revoked, Family
  <2> QED BY <2>1, <2>2, <2>3
<1>6. Status' = [s \in SessionIds |-> IF Status[s] \in Families!Recorded /\ Family[s] = f
                                     THEN "revoked" ELSE Status[s]]
  BY <1>5 DEF Status
<1> QED BY <1>2, <1>4, <1>6 DEF Families!Kill

LEMMA PurgePromise ==
  ASSUME Shapes, StoreLinks, NEW p \in SessionIds, Purge(p)
  PROVE  Families!Forget(p)
<1>1. /\ used' = used
      /\ store'[p] = None
      /\ \A s \in SessionIds : s # p => store'[s] = store[s]
  BY PurgeEffect
<1>2. Present(p) /\ p \in used
  BY DEF Purge, StoreLinks
<1>3. Status[p] \in Families!Recorded
  BY <1>2 DEF Status, Families!Recorded, Live
<1>4. Status' = [Status EXCEPT ![p] = "gone"]
  BY <1>1, <1>2 DEF Status, Live, Present, Revoked, Replaced
<1>5. Family' = [Family EXCEPT ![p] = None]
  BY <1>1 DEF Family, Present
<1> QED BY <1>3, <1>4, <1>5 DEF Families!Forget

(* Every step of the service is a step of SessionFamilies or changes       *)
(* nothing that SessionFamilies speaks of.                                 *)
THEOREM KeepsPromiseHolds == Spec => KeepsPromise
<1>1. IInv /\ [Next]_vars => [Families!PromiseNext]_<<Status, Family>>
  <2> SUFFICES ASSUME IInv, [Next]_vars
               PROVE  Families!PromiseNext \/ UNCHANGED <<Status, Family>>
    OBVIOUS
  <2>1. /\ Shapes
        /\ StoreLinks
        /\ \A r \in Requests : CallFit(r)
    BY DEF IInv, CallsInv, CallInv
  <2>2. CASE UNCHANGED <<used, store>>
    BY <2>2 DEF Status, Family, Live, Revoked, Replaced, Present
  <2> QED BY <2>1, <2>2, InsertPromise, ReplacePromise, RevokePromise, PurgePromise,
             OtherwiseUnchanged DEF Families!PromiseNext
<1> QED BY <1>1, Inductive, InitPromise, PTL DEF Spec, KeepsPromise, Families!Promise

=============================================================================
