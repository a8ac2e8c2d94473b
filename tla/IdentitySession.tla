--------------------------- MODULE IdentitySession ---------------------------
(***************************************************************************)
(* The identity session service (reauth/identity_session.py): sessions     *)
(* issued to an authenticated identity, their refresh tokens, rotation,    *)
(* reuse detection and family revocation.                                  *)
(*                                                                         *)
(* Every service method is a coroutine.  It yields at each await of a      *)
(* store method and nowhere else, so a call is a sequence of steps: one    *)
(* per store operation (atomic in the store) and one per stretch of code   *)
(* between two awaits.  Calls of several requests interleave, time passes  *)
(* between any two steps, and a call may die at any of them.               *)
(*                                                                         *)
(* A session is named by its id.  Tokens are random and hashed with HMAC,  *)
(* so a token is modelled as the pair (kind, session): it finds that       *)
(* session's row and no other.                                             *)
(***************************************************************************)
EXTENDS Naturals

CONSTANTS SessionIds,       \* ids the store can hand out
          Requests,         \* calls that may be in flight together
          Grants,           \* values of (identity_id, amr, context)
          Lifetime,         \* lifetime, in seconds
          RefreshLifetime,  \* refresh_token_lifetime, in seconds
          MaxTime,          \* bound on the clock
          None              \* Python's None, and "no row"

Token == [kind : {"access", "refresh"}, of : SessionIds]

(* IdentitySession, with the two hashes reduced to what they tell: whether *)
(* the session has a refresh token.  token_hash is never None.             *)
Row == [grant       : Grants,
        expires_at  : Nat,
        refreshable : BOOLEAN,
        deadline    : Nat \cup {None},
        family      : SessionIds \cup {None},
        replaced_by : SessionIds \cup {None},
        revoked_at  : Nat \cup {None}]

ASSUME ConstantsAssumption ==
  /\ Lifetime \in Nat \ {0}
  /\ RefreshLifetime \in Nat \ {0}
  /\ MaxTime \in Nat
  /\ None \notin Nat
  /\ None \notin SessionIds
  /\ None \notin Row
  /\ None \notin Token

VARIABLES now,      \* get_current_timestamp()
          used,     \* ids the store has handed out: they are not reused
          store,    \* the identity_sessions table
          pc,       \* where each request is, "idle" when it has no call
          arg,      \* the call's arguments, and what was dead at its start
          snap,     \* the row the call read (its identity_session object)
          draft,    \* the session _create_session built, not stored yet
          result    \* how the request's last call ended

vars == <<now, used, store, pc, arg, snap, draft, result>>

-----------------------------------------------------------------------------
(* Rows *)

Earlier(a, b) == IF a <= b THEN a ELSE b

(* Fault: each refresh starts a new deadline. *)
SlidingSession(grant, renew, inherited, family) ==
  LET end == now + Lifetime
      cap == IF renew THEN now + RefreshLifetime ELSE inherited
  IN  [grant       |-> grant,
       expires_at  |-> IF cap = None THEN end ELSE Earlier(end, cap),
       refreshable |-> renew,
       deadline    |-> IF renew THEN cap ELSE None,
       family      |-> family,
       replaced_by |-> None,
       revoked_at  |-> None]

(* Fault: the access token expires with the deadline, even if there is none. *)
UncappedSession(grant, renew, inherited, family) ==
  LET cap == IF renew /\ inherited = None THEN now + RefreshLifetime
                                          ELSE inherited
  IN  [grant       |-> grant,
       expires_at  |-> cap,
       refreshable |-> renew,
       deadline    |-> IF renew THEN cap ELSE None,
       family      |-> family,
       replaced_by |-> None,
       revoked_at  |-> None]

(* _create_session: the deadline is inherited, or starts with the first    *)
(* refresh token; access never outlives it, even in a final session.       *)
NewSession(grant, renew, inherited, family) ==
  LET cap == IF renew /\ inherited = None THEN now + RefreshLifetime
                                          ELSE inherited
      end == now + Lifetime
  IN  [grant       |-> grant,
       expires_at  |-> IF cap = None THEN end ELSE Earlier(end, cap),
       refreshable |-> renew,
       deadline    |-> IF renew THEN cap ELSE None,
       family      |-> family,
       replaced_by |-> None,
       revoked_at  |-> None]

(* Fault: insert starts a family even when one is supplied. *)
StoredAlone(id, row) == [row EXCEPT !.family = id]

(* insert initialises the family of a first session with its own id. *)
Stored(id, row) == IF row.family = None THEN [row EXCEPT !.family = id] ELSE row

(* get_by_token_hash and get_by_refresh_token_hash. *)
Find(kind, token) ==
  IF /\ token.kind = kind
     /\ store[token.of] # None
     /\ kind = "refresh" => store[token.of].refreshable
  THEN store[token.of]
  ELSE None

Present(s)  == store[s] # None
Revoked(s)  == Present(s) /\ store[s].revoked_at # None
Replaced(s) == Present(s) /\ store[s].replaced_by # None
Live(s)     == Present(s) /\ ~Revoked(s) /\ ~Replaced(s)

SameFamily(s, t) == /\ Present(s)
                    /\ Present(t)
                    /\ store[s].family = store[t].family

(* Handed out, and neither token of it may be accepted any more. *)
Dead == {s \in used : ~Live(s)}

(* Fault: replace trusts the session read before the lock. *)
EligibleWithoutReload(s) ==
  /\ Present(s)
  /\ store[s].refreshable
  /\ now < store[s].deadline

(* Fault: replace looks again for a replacement, not for a revocation. *)
EligibleUnlessReplaced(s) ==
  /\ Present(s)
  /\ ~Replaced(s)
  /\ store[s].refreshable
  /\ now < store[s].deadline

(* The conditions under which replace goes ahead. *)
Eligible(s) ==
  /\ Live(s)
  /\ store[s].refreshable
  /\ now < store[s].deadline
  /\ Present(store[s].family)
  /\ ~Revoked(store[s].family)

-----------------------------------------------------------------------------
(* Calls *)

NoArg == [op |-> "none", token |-> None, renew |-> FALSE, stale |-> FALSE]

Init ==
  /\ now = 0
  /\ used = {}
  /\ store = [s \in SessionIds |-> None]
  /\ pc = [r \in Requests |-> "idle"]
  /\ arg = [r \in Requests |-> NoArg]
  /\ snap = [r \in Requests |-> None]
  /\ draft = [r \in Requests |-> None]
  /\ result = [r \in Requests |-> "none"]

Goto(r, label) == pc' = [pc EXCEPT ![r] = label]

(* A call is over. *)
Answer(r, answer) ==
  /\ Goto(r, "idle")
  /\ result' = [result EXCEPT ![r] = answer]
  /\ snap' = [snap EXCEPT ![r] = None]
  /\ draft' = [draft EXCEPT ![r] = None]

(* Its arguments are kept when a property looks back at them. *)
Accept(r, answer) == Answer(r, answer) /\ UNCHANGED arg

Refuse(r, answer) == Answer(r, answer) /\ arg' = [arg EXCEPT ![r] = NoArg]

(* A call begins; stale records that its token must not be accepted. *)
Begin(r, op, token, renew, label) ==
  /\ pc[r] = "idle"
  /\ arg' = [arg EXCEPT ![r] = [op    |-> op,
                                token |-> token,
                                renew |-> renew,
                                stale |-> token # None /\ token.of \in Dead]]
  /\ result' = [result EXCEPT ![r] = "none"]
  /\ Goto(r, label)
  /\ UNCHANGED <<now, used, store, snap>>

CallIssue(r, grant, renew) ==
  /\ Begin(r, "issue", None, renew, "insert")
  /\ draft' = [draft EXCEPT ![r] = NewSession(grant, renew, None, None)]

CallValidate(r, token) ==
  /\ Begin(r, "validate", token, FALSE, "lookup")
  /\ UNCHANGED draft

CallRefresh(r, token, renew) ==
  /\ Begin(r, "refresh", token, renew, "lookup")
  /\ UNCHANGED draft

CallRevoke(r, token) ==
  /\ Begin(r, "revoke", token, FALSE, "lookup")
  /\ UNCHANGED draft

(* A token that cannot be encoded is turned away before any await: revoke  *)
(* returns silently, the others raise.                                     *)
CallMalformed(r, op) ==
  /\ pc[r] = "idle"
  /\ Refuse(r, IF op = "revoke" THEN "revoked" ELSE "invalid")
  /\ UNCHANGED <<now, used, store>>

Insert(r) ==
  /\ pc[r] = "insert"
  /\ \E id \in SessionIds \ used :
       /\ used' = used \cup {id}
       /\ store' = [store EXCEPT ![id] = Stored(id, draft[r])]
  /\ Refuse(r, "issued")
  /\ UNCHANGED now

(* The first read of a call: by refresh token for refresh, by access token *)
(* for validate and revoke.                                                *)
Lookup(r) ==
  LET kind == IF arg[r].op = "refresh" THEN "refresh" ELSE "access"
  IN  /\ pc[r] = "lookup"
      /\ snap' = [snap EXCEPT ![r] = Find(kind, arg[r].token)]
      /\ Goto(r, "loaded")
      /\ UNCHANGED <<now, used, store, arg, draft, result>>

(* The second read: revoke tries the other index, refresh looks again      *)
(* after replace refused.                                                  *)
Relookup(r) ==
  /\ pc[r] = "relookup"
  /\ snap' = [snap EXCEPT ![r] = Find("refresh", arg[r].token)]
  /\ Goto(r, "reloaded")
  /\ UNCHANGED <<now, used, store, arg, draft, result>>

-----------------------------------------------------------------------------
(* validate, after its read *)

(* Fault: a replaced session still validates. *)
AcceptableUntilRevoked(row) == row # None /\ row.revoked_at = None

Acceptable(row) ==
  /\ row # None
  /\ row.revoked_at = None
  /\ row.replaced_by = None

Validated(r) ==
  /\ pc[r] = "loaded"
  /\ arg[r].op = "validate"
  /\ \/ ~Acceptable(snap[r]) /\ Refuse(r, "invalid")
     \/ Acceptable(snap[r]) /\ now >= snap[r].expires_at /\ Refuse(r, "expired")
     \/ Acceptable(snap[r]) /\ now < snap[r].expires_at /\ Accept(r, "valid")
  /\ UNCHANGED <<now, used, store>>

-----------------------------------------------------------------------------
(* refresh, after either of its reads: _validate_refresh_token_hash *)

RefreshLoaded(r) == arg[r].op = "refresh" /\ pc[r] \in {"loaded", "reloaded"}

Refreshable(row) == Acceptable(row) /\ row.deadline # None /\ now < row.deadline

RefreshInvalid(r) ==
  /\ RefreshLoaded(r)
  /\ \/ snap[r] = None
     \/ snap[r] # None /\ snap[r].revoked_at # None
     \/ Acceptable(snap[r]) /\ snap[r].deadline = None
     \/ pc[r] = "reloaded" /\ Refreshable(snap[r])
  /\ Refuse(r, "invalid")
  /\ UNCHANGED <<now, used, store>>

(* Fault: the deadline is looked at before the replacement. *)
RefreshExpiredFirst(r) ==
  /\ RefreshLoaded(r)
  /\ snap[r] # None
  /\ snap[r].deadline # None
  /\ now >= snap[r].deadline
  /\ Refuse(r, "expired")
  /\ UNCHANGED <<now, used, store>>

RefreshExpired(r) ==
  /\ RefreshLoaded(r)
  /\ Acceptable(snap[r])
  /\ snap[r].deadline # None
  /\ now >= snap[r].deadline
  /\ Refuse(r, "expired")
  /\ UNCHANGED <<now, used, store>>

(* A consumed token: the family is to be revoked, as of now. *)
RefreshReused(r) ==
  /\ RefreshLoaded(r)
  /\ snap[r] # None
  /\ snap[r].revoked_at = None
  /\ snap[r].replaced_by # None
  /\ snap' = [snap EXCEPT ![r].revoked_at = now]
  /\ Goto(r, "revoke")
  /\ UNCHANGED <<now, used, store, arg, draft, result>>

RefreshCreate(r) ==
  /\ RefreshLoaded(r)
  /\ pc[r] = "loaded"
  /\ Refreshable(snap[r])
  /\ draft' = [draft EXCEPT ![r] = NewSession(snap[r].grant, arg[r].renew,
                                              snap[r].deadline, snap[r].family)]
  /\ Goto(r, "replace")
  /\ UNCHANGED <<now, used, store, arg, snap, result>>

(* Fault: the old row is left as it was. *)
ReplaceKeepingOld(r) ==
  /\ pc[r] = "replace"
  /\ Eligible(arg[r].token.of)
  /\ \E id \in SessionIds \ used :
       /\ used' = used \cup {id}
       /\ store' = [store EXCEPT ![id] = Stored(id, draft[r])]
  /\ Accept(r, "refreshed")
  /\ UNCHANGED now

(* The store's replace: both rows change or neither does. *)
ReplaceAccepted(r) ==
  LET old == arg[r].token.of
  IN  /\ pc[r] = "replace"
      /\ Eligible(old)
      /\ \E id \in SessionIds \ used :
           /\ used' = used \cup {id}
           /\ store' = [store EXCEPT ![id] = Stored(id, draft[r]),
                                     ![old].replaced_by = id]
      /\ Accept(r, "refreshed")
      /\ UNCHANGED now

(* Fault: a refused replacement is tried again with the session as read. *)
ReplaceRetried(r) ==
  /\ pc[r] = "replace"
  /\ ~Eligible(arg[r].token.of)
  /\ Goto(r, "loaded")
  /\ UNCHANGED <<now, used, store, arg, snap, draft, result>>

ReplaceRefused(r) ==
  /\ pc[r] = "replace"
  /\ ~Eligible(arg[r].token.of)
  /\ Goto(r, "relookup")
  /\ UNCHANGED <<now, used, store, arg, snap, draft, result>>

-----------------------------------------------------------------------------
(* revoke, after its reads, and revoke_family, which refresh also awaits *)

RevokeNext(r) ==
  /\ arg[r].op = "revoke"
  /\ \/ /\ pc[r] \in {"loaded", "reloaded"}
        /\ snap[r] # None
        /\ snap' = [snap EXCEPT ![r].revoked_at = now]
        /\ Goto(r, "revoke")
        /\ UNCHANGED <<arg, draft, result>>
     \/ /\ pc[r] = "loaded"
        /\ snap[r] = None
        /\ Goto(r, "relookup")
        /\ UNCHANGED <<arg, snap, draft, result>>
     \/ /\ pc[r] = "reloaded"
        /\ snap[r] = None
        /\ Accept(r, "revoked")
  /\ UNCHANGED <<now, used, store>>

(* Fault: only the usable session of the family is revoked. *)
RevokeLiveRow(row, revoked) ==
  IF row # None /\ row.family = revoked.family
     /\ row.revoked_at = None /\ row.replaced_by = None
  THEN [row EXCEPT !.revoked_at = revoked.revoked_at]
  ELSE row

(* Fault: a second revocation overwrites the first one's time. *)
RestampRow(row, revoked) ==
  IF row # None /\ row.family = revoked.family
  THEN [row EXCEPT !.revoked_at = revoked.revoked_at]
  ELSE row

RevokeRow(row, revoked) ==
  IF row # None /\ row.family = revoked.family /\ row.revoked_at = None
  THEN [row EXCEPT !.revoked_at = revoked.revoked_at]
  ELSE row

RevokeFamily(r) ==
  /\ pc[r] = "revoke"
  /\ store' = [s \in SessionIds |-> RevokeRow(store[s], snap[r])]
  /\ Accept(r, IF arg[r].op = "refresh" THEN "reused" ELSE "revoked")
  /\ UNCHANGED <<now, used>>

-----------------------------------------------------------------------------
(* The environment *)

(* A store operation raises, the task is cancelled or the process dies:    *)
(* the call has no further effect.                                         *)
Fail(r) ==
  /\ pc[r] # "idle"
  /\ Refuse(r, "failed")
  /\ UNCHANGED <<now, used, store>>

Tick ==
  /\ now < MaxTime
  /\ now' = now + 1
  /\ UNCHANGED <<used, store, pc, arg, snap, draft, result>>

(* The application deletes a row that can no longer matter: a session with *)
(* a refresh token from its deadline on, another from its expiry on.       *)
Purge(s) ==
  /\ Present(s)
  /\ now >= IF store[s].refreshable THEN store[s].deadline ELSE store[s].expires_at
  /\ store' = [store EXCEPT ![s] = None]
  /\ UNCHANGED <<now, used, pc, arg, snap, draft, result>>

(* The tokens somebody can hold. *)
HandedOut ==
  {token \in Token :
     /\ token.of \in used
     /\ token.kind = "refresh" /\ Present(token.of) => store[token.of].refreshable}

Step(r) ==
  \/ Insert(r)
  \/ Lookup(r)
  \/ Relookup(r)
  \/ Validated(r)
  \/ RefreshInvalid(r)
  \/ RefreshExpired(r)
  \/ RefreshReused(r)
  \/ RefreshCreate(r)
  \/ ReplaceAccepted(r)
  \/ ReplaceRefused(r)
  \/ RevokeNext(r)
  \/ RevokeFamily(r)

Call(r) ==
  \/ \E grant \in Grants, renew \in BOOLEAN : CallIssue(r, grant, renew)
  \/ \E token \in HandedOut : CallValidate(r, token)
  \/ \E token \in HandedOut, renew \in BOOLEAN : CallRefresh(r, token, renew)
  \/ \E token \in HandedOut : CallRevoke(r, token)
  \/ \E op \in {"validate", "refresh", "revoke"} : CallMalformed(r, op)

Next ==
  \/ \E r \in Requests : Call(r) \/ Step(r) \/ Fail(r)
  \/ \E s \in SessionIds : Purge(s)
  \/ Tick

Spec == Init /\ [][Next]_vars

(* asyncio runs every ready task and a store operation returns or raises:  *)
(* a call that can go on does.  Nothing obliges callers, the clock and the *)
(* clean-up to act, or a call to fail.                                     *)
FairSpec == Spec /\ \A r \in Requests : WF_vars(Step(r))

-----------------------------------------------------------------------------
(* Properties *)

Answers == {"none", "issued", "valid", "invalid", "expired", "refreshed",
            "reused", "revoked", "failed"}

(* Rows, calls and answers are of the shapes the service and its store     *)
(* exchange.                                                               *)
TypeOK ==
  /\ now \in Nat
  /\ used \subseteq SessionIds
  /\ store \in [SessionIds -> Row \cup {None}]
  /\ pc \in [Requests -> {"idle", "insert", "lookup", "loaded", "relookup",
                         "reloaded", "replace", "revoke"}]
  /\ arg \in [Requests -> [op    : {"none", "issue", "validate", "refresh", "revoke"},
                           token : Token \cup {None},
                           renew : BOOLEAN,
                           stale : BOOLEAN]]
  /\ snap \in [Requests -> Row \cup {None}]
  /\ draft \in [Requests -> Row \cup {None}]
  /\ result \in [Requests -> Answers]

(* However refreshes, retries and revocations of one family interleave, at *)
(* most one of its sessions is usable.                                     *)
OneLiveSession ==
  \A s, t \in SessionIds : SameFamily(s, t) /\ Live(s) /\ Live(t) => s = t

(* A revocation reaches every session of the family: no replacement being  *)
(* created at that moment escapes it.                                      *)
RevocationReachesFamily ==
  \A s, t \in SessionIds : SameFamily(s, t) /\ Revoked(s) => Revoked(t)

(* Rotation never extends a family beyond the deadline its first refresh   *)
(* token set, and never changes whom it authenticates: every session has   *)
(* the family's grant, and no access or refresh token outlives it.         *)
DeadlineInherited ==
  \A s, t \in SessionIds :
    SameFamily(s, t) =>
      /\ store[s].grant = store[t].grant
      /\ store[t].refreshable =>
           /\ store[s].expires_at <= store[t].deadline
           /\ store[s].refreshable => store[s].deadline = store[t].deadline

ReplacedWithin ==
  \A s \in SessionIds :
    Replaced(s) => /\ store[s].replaced_by # s
                   /\ Present(store[s].replaced_by) => SameFamily(s, store[s].replaced_by)

ReplacedApart ==
  \A s, t \in SessionIds :
    Replaced(s) /\ Replaced(t) /\ store[s].replaced_by = store[t].replaced_by => s = t

JoinedByReplacement ==
  (\A s \in used : Present(s)) =>
    \A s \in used : store[s].family # s => \E t \in used : store[t].replaced_by = s

(* The sessions of a family form one chain of replacements: a session      *)
(* replaces at most one other, of its own family and never itself, and     *)
(* none but the first joins a family otherwise (while no row is deleted).  *)
LinearLineage == ReplacedWithin /\ ReplacedApart /\ JoinedByReplacement

(* A refresh token buys one replacement: of all the calls that present it, *)
(* concurrently or as retries, one at most is answered with new tokens.    *)
SingleUse ==
  \A q, r \in Requests :
    result[q] = "refreshed" /\ result[r] = "refreshed" /\ arg[q].token = arg[r].token
      => q = r

(* When revoke has answered, or refresh has reported a reuse, no session   *)
(* of the family is usable, and none ever becomes so.                      *)
RevokedForGood ==
  \A r \in Requests, s \in SessionIds :
    /\ result[r] \in {"reused", "revoked"}
    /\ arg[r].token # None
    /\ SameFamily(arg[r].token.of, s)
    => Revoked(s)

(* A token that was already replaced, revoked or deleted when a call       *)
(* started is not accepted by that call.                                   *)
NoStaleAccept ==
  \A r \in Requests : result[r] \in {"valid", "refreshed"} => ~arg[r].stale

(* While a row exists its grant, family and deadline never change, and a   *)
(* revocation time or replacement once set is never altered or cleared.    *)
LineageKept ==
  [][\A s \in SessionIds :
       Present(s) /\ Present(s)' =>
         /\ store'[s].grant = store[s].grant
         /\ store'[s].family = store[s].family
         /\ store'[s].deadline = store[s].deadline
         /\ Replaced(s) => store'[s].replaced_by = store[s].replaced_by
         /\ Revoked(s) => store'[s].revoked_at = store[s].revoked_at]_vars

(* The service keeps the promise of SessionFamilies: a call's many steps   *)
(* add up to openings, rotations and kills that each happen at once.       *)
Status == [s \in SessionIds |->
             CASE s \notin used                   -> "unused"
               [] s \in used /\ ~Present(s)       -> "gone"
               [] s \in used /\ Revoked(s)        -> "revoked"
               [] s \in used /\ Live(s)           -> "live"
               [] OTHER                           -> "rotated"]

Family == [s \in SessionIds |-> IF Present(s) THEN store[s].family ELSE None]

Families == INSTANCE SessionFamilies WITH Sessions <- SessionIds,
                                          status <- Status, family <- Family

KeepsPromise == Families!Promise

(* The model ran out of ids, which the program does not: the call waits    *)
(* for an id to store a session under, and for nothing else.               *)
Starved(r) ==
  /\ used = SessionIds
  /\ \/ pc[r] = "insert"
     \/ pc[r] = "replace" /\ Eligible(arg[r].token.of)

(* Every call comes to an end, whatever the others did to its session in   *)
(* between (replaced it, revoked it, deleted it) and however late: no      *)
(* combination of row, clock and refusal leaves it without a branch to     *)
(* take, or going round in circles.                                        *)
CallsReturn ==
  \A r \in Requests : pc[r] # "idle" ~> pc[r] = "idle" \/ Starved(r)

(* A refresh token that was consumed, or whose session was revoked, before *)
(* it is presented: however late it comes and whatever others do meanwhile,*)
(* the call only returns once the family is revoked, or the row deleted.   *)
ReplayIsPunished ==
  [][\A r \in Requests, s \in SessionIds :
       /\ arg[r].op = "refresh"
       /\ arg[r].token = [kind |-> "refresh", of |-> s]
       /\ arg[r].stale
       /\ pc[r] # "idle" /\ pc'[r] = "idle" /\ result'[r] # "failed"
       => Revoked(s)' \/ ~Present(s)']_vars

=============================================================================
