# A verification of reauth

`reauth` is a Python (asyncio) library of authentication services. Each service
is an abstract class: its methods hold the logic, and abstract `async` methods
(`insert`, `update`, `replace`, `delete`, `get_by_…`) leave the storage to the
application. This directory holds TLA+ models of the services, TLC configurations
that check them on small instances, and TLAPS proofs of what they promise for
instances of any size.

* `tlc -config X.cfg M` runs a model, with `M` and `X` as in "Runs" below.
* `tlapm M.tla` checks the proofs of a module `…Proofs`.
* `PROJECT.json` maps every definition to the lines it models and lists the runs,
  the faults each property detects, the hazards and the theorems.

## The system

| Component | Source (`src/reauth/…`) | State it keeps | Operations |
|---|---|---|---|
| Identity sessions | `identity_session.py` | rows: grant (identity, amr, context), expiry, refresh token and its deadline, family, `replaced_by`, `revoked_at` | `issue`, `validate`, `refresh`, `revoke`; store: `insert`, `get_by_…`, `replace`, `revoke_family` |
| Authentication sessions | `authentication_session.py` | rows: identity, step, amr, used factors, expiry | `start`, `validate`, `get_available_factors`, `advance`, `complete` |
| Factor protocol | `factors/base.py` | none: identifier, AMR, `step`, `advance_by` | `get_enrollment` |
| OAuth2 state service | `factors/oauth2/state.py` | states: provider, identity, verifier, nonce, scope, expiry | `create`, `consume` |
| OAuth2 factor | `factors/oauth2/base.py` | enrollments: identity, account, tokens, scope | `start`, `callback`, `enroll` |
| OIDC factors | `factors/oauth2/oidc.py` (`apple.py`, `google.py`) | discovery document and JWKS, cached per process | `exchange_code`, ID Token validation |
| GitHub factor | `factors/oauth2/github.py` | none | `exchange_code`, `get_profile` |
| PKCE | `factors/oauth2/pkce.py` | none | verifier and challenge |
| Email OTP factor | `factors/email_otp.py` | OTPs: session, code, expiry | `create`, `consume` |
| HOTP factor | `factors/hotp.py` | enrollments: secret, counter, enabled | `enroll`, `enable`, `verify` |
| TOTP factor | `factors/totp.py` | enrollments: secret, last verified time step, enabled | `enroll`, `enable`, `verify` |
| Backup codes factor | `factors/backup_codes.py` | enrollments: code hashes, used code hashes | `enroll`, `verify` |
| Tokens, clock, AMR, logging, exceptions | `crypto.py`, `timestamp.py`, `amr.py`, … | none | pure functions |

How they interact. The application starts an authentication session, asks it
which factors are available (it asks each factor, through `get_enrollment`, one
after the other), lets the user go through one of them (a factor's own
`create`/`consume`, `start`/`callback` or `verify`), and calls `advance` with the
identity that factor established. When no factor is left, `complete` deletes the
authentication session and returns identity and AMRs, which the application gives
to `IdentitySessionService.issue`. From then on only the identity session
service is involved. Nothing connects the services but the application and the ids
it passes along; they share no state and call nothing back.

What is hard. The library is asyncio code: a method runs undisturbed between two
awaits, and at each await anything may happen. It takes no locks and uses no
transactions. So nearly all the difficulty is of one kind: a row is read, the read
is awaited, a decision is taken on the copy, and a write or a delete is awaited,
while other requests do the same with the same row. The exception is the identity
session store, whose contract makes `replace` conditional and atomic
(`identity_session.py:417-442`). On top of this: rows expire and are cleaned up in
the middle of calls; a store operation may raise, with or without effect; the
client repeats requests whose answer it lost; the process may die between two
steps; the answers of several OAuth2 flows of a browser come back in any order.

What makes each component correct:

* *Identity sessions*: at most one usable session per family, however its refresh
  token is used; revocation and reuse detection reach the whole family for good;
  nothing outlives the first deadline; every call ends.
* *Authentication sessions*: what is stored is one legal login, each factor of which was
  due for the identity attached at the time; no factor that is due is skipped; a
  completed session is gone.
* *OAuth2*: a state is consumed once; what was approved in a flow is enrolled for
  the identity that started it; late writes leave other enrollments alone.
* *Email OTP*: a new code replaces all earlier ones; a spent code stays spent.
* *HOTP, TOTP, backup codes*: a counter, time step or backup code is accepted once, and in
  its window only; enrollment and enabling do not mix up two secrets. The first is a goal
  that calls which overlap do not meet (see "Runs").
* *OIDC, GitHub*: an answer is of the account that was approved in the flow; a code,
  which is spent before its ID Token can be validated, is not thrown away because of
  what other calls do to the caches.

## Modules

| Module | What it is |
|---|---|
| `IdentitySession` | identity session service and its store |
| `SessionFamilies` | abstract specification: what that service promises |
| `IdentitySessionProofs` | theorems about both, refinement included |
| `AuthenticationSession` | authentication session service, its store and enrollments |
| `LoginProgress` | abstract specification: what that service promises |
| `AuthenticationSessionProofs` | theorems about both, refinement included |
| `OAuth2Flow` | OAuth2 factor, state service, their stores, users and a provider |
| `OAuth2FlowProofs` | theorems |
| `Login` | the two session services, composed as an application does |
| `LoginProofs` | theorems about the composition |
| `EmailOTP` | email OTP factor and its store |
| `EmailOTPProofs` | theorems |
| `AuthenticatorOTP` | HOTP and TOTP factors and their stores |
| `BackupCodes` | backup codes factor and its store |
| `OneTimeCodes` | abstract specification: what those three factors promise |
| `AuthenticatorOTPProofs`, `BackupCodesProofs` | theorems, refinements included |
| `CodeExchange` | code exchange of OIDC and GitHub, the caches of OIDC and a provider |
| `CodeExchangeProofs` | theorems |
| `MC…` | small instances for TLC: symmetry sets and the tables of factors |

Conventions common to all modules:

* Each request has a program counter (`pc[r]`, or `calls[r].at`). A step is either one store operation
  (atomic in the store) or the code between two awaits. Where that code depends
  neither on the clock nor on shared state, it is joined to the step before or
  after it: nobody can tell the difference.
* A table is a function from ids to rows or `None`. Ids are not reused.
* A request's copy of a row (`snap`, `copy`, `state`, `object`, `calls[r].row`) is state
  of its own; what it read may have changed by the time it acts on it.
* `now` never decreases and moves between any two steps, up to `MaxTime`.
* Random tokens are named by the row they were made for; hash collisions are left
  out. Short email codes are drawn from a small set and may collide.
* `Fail`, `Raise`, `RaiseAfter` and `Abandon` are operations that raise, with or
  without effect, cancelled tasks and dead processes. A call whose answer is lost is
  one that ended, and its tokens, codes and states can be presented again.
* A definition that begins with `(* Fault: … *)` is not part of the model. It is a
  plausible mistake; put in the place of the definition below it, it makes a
  property fail. Every property has one (`PROJECT.json`, "mutants").

### IdentitySession

`Row` is `IdentitySession` with its hashes reduced to whether there is a refresh
token; `Token` is (kind, session). `CallIssue`, `CallValidate`, `CallRefresh`,
`CallRevoke` and `CallMalformed` (a token that cannot be encoded, which is refused
before any lookup: `UnicodeEncodeError`) begin a call; `Lookup`, `Insert`, `Relookup`, `ReplaceAccepted`, `ReplaceRefused` and
`RevokeFamily` are store operations; `Validated`, `RefreshInvalid`,
`RefreshExpired`, `RefreshReused`, `RefreshCreate` and `RevokeNext` the branches
between them. `HandedOut` is the set of tokens somebody can have: every token ever
made, so consumed tokens come back at any time.

`replace` follows the contract in the docstring of the abstract method (it succeeds
only if the row is still neither replaced nor revoked, and inserts the successor in
the same step), since that is what an implementation has to provide; the test store
does not check again. `refresh` reads the clock once for its decision and the new
session. After a refused replacement the row is looked up again, and every state of
it has a branch, `RefreshInvalid` included.

`SessionFamilies` has no tokens, clocks or calls. Its sessions are unused, live,
rotated, revoked or gone; `Open`, `Rotate`, `Kill` and `Forget` happen at once.
`Status` and `Family` in `IdentitySession` are the refinement mapping.

### AuthenticationSession

A request gets a copy of a session from `start` or `validate` and passes it to the
other methods. `BeginScan`, `Scan` and what follows are `get_available_factors`, with
which `advance` and `complete` begin: it looks at one enrollment after the other, in
any order, while `Enroll` and `Unenroll` change them. `AdvanceObject` changes the
copy and `Update` writes it: if `update` raises, the request keeps the changed
object and may go on with it. `update` overwrites the row; it affects nothing if
the row is gone.

History variables: a used factor is recorded with the identity it was completed
for, `steady` holds the factors that were enrolled all through a scan, `ever` what was
enrolled at some time, `completions` counts how often a session was completed.

`advance` assigns the identity it is passed (`authentication_session.py:212`) whatever
identity is attached, and so does the model: `CallAdvance` passes any. A session can
go from one identity to another in the middle of a login, in one request or between two
that overwrite each other's row. What the service ensures even then is
`FactorsEnrolled`: the identity attached is the one the last factor was completed for, and
each factor after the first had been enrolled for the identity that was attached before
it. That all factors are one identity's is up to the application.

One assumption on the application is explicit: `TakeTurns` says whether it lets one
request at a time work on a session. The service does not see to that; what depends on
it says so in its formula.

`LoginProgress` has no requests, copies or lookups. A session is unused, open with
a path of used factors, or over; `Begin`, `Continue`, `End` and `Answer` happen at
once. `Continue` goes to any legal path, since the update of a slow request may
take back what another did, and the one after a failed update adds two factors at
once. With `Orderly` (which is `TakeTurns`) it only goes to a longer one, and there is
one `Answer`. `Phase`, `Path` and `completions` in `AuthenticationSession` are the
refinement mapping.

### OAuth2Flow

A flow is what one `start` makes. `CallStart` and `Insert` are `start` and
`OAuth2StateService.create`; `CallCallback` to `Delete` are `consume`; `NoCode`
covers error responses and missing codes; `Exchange…` is `exchange_code`;
`FindMatch`, `FindMismatch`, `Associate` and `Signup` are the branches after the
lookup of the account; `Update` and `InsertEnrollment` the writes; `CallEnroll` is
`enroll`. A callback may present any state with any code, once more or for the first
time: the tabs of one browser do.

The provider is external: `Authorize` is a user's consent on a flow's URL,
`Redeemable` the token endpoint, which redeems a code once and, if the URL had a
challenge, only with its verifier (RFC 6749, RFC 7636). Scope and tokens are
represented by the flow and the code they come from. There is one provider:
`callback` takes the provider from the state, so the application must bring an
answer to the factor that started the flow.

History variables: `asked` (what a flow was started with), `consumed` (how often
`consume` returned a state), `late` (whether that had happened before a call began).

### EmailOTP

`CallCreate`, `Clear`, `Generate` and `Insert` are `create`; `CallConsume` to
`Delete` are `consume`. Overlapping `create` calls do leave several OTPs in a
session, possibly with the same code. The recipient (identity and email) is left
out: it is returned as the row has it. History variables: `spent`, and `before`, what
a call's beginning looked like.

### Login

The application joins the two services: it passes what `complete` returns to
`issue`, once. `Serve` is a request at work on its authentication session; when
`complete` answers, the answer (`granted`) is in the memory of that request only,
and the authentication session is gone already. `Issue` stores an identity
session, `Crash` is the death of the process, or a failing insert, before that.
`Refresh`, `Revoke` and `Remove` are the rest of an identity session's life. The
authentication side is `AuthenticationSession` with every step, retry and lost
answer; the identity side is `SessionFamilies`, which `IdentitySession` is proved to
implement. History variable: `login`, the answer an identity session goes back to.

### AuthenticatorOTP and OneTimeCodes

HOTP and TOTP have the same `enroll`, `enable` and `verify`, line by line, and differ
in the window of numbers (counters, time steps) whose codes are accepted:
`HotpWindow`, `TotpWindow`. An enrollment's `next` is the least number it still
accepts: `counter`, or the step after `last_verified_time_step`. Both loops go
upwards and stop at the first number that matches (`Accept`), which matters because
`CodeOf` may give several numbers the same code. `Find` is the lookup all three
begin with; the steps after it work on the copy, and `Update` writes all of it back.
`get_enrollment` is a filter over the same lookup; it is what
`AuthenticationSession` asks. The clock counts time steps.

`OneTimeCodes` says what a factor of this kind is for: every answer costs a code that
was not spent before, that a call under way presents (`presented`) and that is offered.
`Takes` says what is spent with it: a number goes with all those below it, a backup code
alone. `Presented` of `AuthenticatorOTP` gives the windows independently of the loops that
search them: at most `LookAhead` above the counter, or within `Drift` of the clock at some
time during the call (`InTime`). The code sees to that only for calls that do not overlap: of two overlapping ones both
can be answered, as neither `update` checks what it overwrites. So an enrollment is
`guarded` in `OneTimeCodes` until two calls for its owner overlapped, and `loose` after
that; `loose` in the models is history. The guard covers everything else: calls
that fail between any two steps, clocks, enrollments that are replaced or removed.
`RowIsProved` does not need the guard.

History variables: `proved` and `verified` (numbers whose codes were presented, and those
for which a call returned), and of each call `began` and `late` (the clock, and what was
verified, at its start). `ReplayRefused` is what `totp.py` says of its `verify`, with or
without overlaps: a time step is not accepted by a call that begins after another returned
for it.

### BackupCodes

`Enroll`, `Delete` and `Insert` are `enroll`, which withdraws the old set before it
stores a new one. `VerifyAccepted` adds to the copy of the list of used codes, and
`Update` writes the copy. A code is a slot of a set; `Presented` is the slots whose
codes calls carry. History variables: `spent`, the
codes that bought an answer, and `late`, whether a call began after that.

### CodeExchange

`OAuth2Flow` has one step for `exchange_code`; this module has its inside. An OIDC
exchange gets the discovery document (`GetDocument`), redeems the code (`Post`,
`PostRefused`, `PostLost`), gets the JWKS (`CachedKeys`, or `FetchKeys` and
`StoreKeys`) and validates the ID Token (`Validate`); GitHub's asks for the account
instead (`Userinfo`). `CallOther` is any other call that fills the same caches. The
caches are filled once and live as long as the factor object, hence the process
(`Restart`). A slow answer replaces a newer one.

`FetchKeys` reads the provider's keys and `StoreKeys` is the answer's arrival, with
the provider (`Publish`, `SignWith`, `Retire`) at work in between. A JWKS is the set of
its keys; a token is the flow its code is from and the key it is signed with. The
provider is honest: signature, claims and `at_hash` are right, so validation comes
down to the `kid` and the nonce. History variable: `changed`, whether the published
keys changed in the lifetime of the process.

## Runs

| Run | Module, configuration | Question | Properties |
|---|---|---|---|
| `identity_calls` | `MCIdentitySession`, `IdentitySession` | two calls on up to three generations; on two while deadlines pass and rows go | `TypeOK`, `OneLiveSession`, `RevocationReachesFamily`, `LinearLineage`, `SingleUse`, `RevokedForGood`, `DeadlineInherited`, `NoStaleAccept`, `LineageKept`, `KeepsPromise`, `ReplayIsPunished` |
| `identity_live` | …`Live` | do calls return whose session another call replaced, revoked or deleted, or whose deadline passed? | `CallsReturn` |
| `auth_overlap` | `MCAuthenticationSession`, …`Overlap` | two requests on one session, two identities | `PathIsLegal`, `FactorsEnrolled`, `CompletedIsGone`, `LifeNotProlonged` |
| `login` | `MCLogin`, `Login` | requests take turns; five factors in three steps, and the identity sessions that come of it | `TypeOK`, `OneSessionPerLogin`, `SessionsAreEarned`, `CompletionJustified`, `CompletedOnce`, `KeepsProgress` |
| `oauth2_tabs` | `MCOAuth2Flow`, `OAuth2FlowTabs` | two flows, answers in any mix | `TypeOK`, `NoLateConsume`, `LinkedToRequester`, `ScopeOfTokens`, `EnrollmentKept` |
| `oauth2_twice` | …`Twice` | is a state consumed once? **No** | `ConsumedOnce` (refuted) |
| `email_otp` | `MCEmailOTP`, `EmailOTP` | overlapping `create` and `consume` | `TypeOK`, `ExistingReplaced`, `NoSpentAccept` |
| `authenticator_otp` | `MCAuthenticatorOTP`, `AuthenticatorOTP` | overlapping `enroll`, `enable`, `verify`; the promise, if they do not | `TypeOK`, `RowIsProved`, `OneEnrollment`, `KeepsPromise` |
| `totp_reused` | …`Reused` | does TOTP refuse a code used before, whatever overlaps? **No** | `ReplayRefused` (refuted) |
| `backup_codes` | `MCBackupCodes`, `BackupCodes` | the promise, for calls that do not overlap | `TypeOK`, `OneEnrollment`, `KeepsPromise` |
| `backup_reused` | …`Reused` | is a code used once, whatever overlaps? **No** | `SingleUse` (refuted) |
| `code_exchange` | `MCCodeExchange`, `CodeExchange` | exchanges that share caches, keys that change | `TypeOK`, `AccountOfFlow`, `RefusedForCause` |

All hold but `ConsumedOnce`, `ReplayRefused` and the `SingleUse` of `BackupCodes`. Each
property is stated in words above its definition.

**A state is consumed twice.** `OAuth2StateService.consume` is documented as "Atomically retrieve and
delete an OAuth2 state" (`state.py:105`), and `callback` counts on it ("validates
and deletes atomically", `base.py:362`). The code awaits the read (`state.py:119`)
and then the delete (`state.py:132`), which does not tell whether there was a row. So
two callbacks that both read before either deletes both go on; `oauth2_twice` shows
the interleaving. What does hold, and is proved, is `NoLateConsume`: a callback that
begins after a consumption is refused. A provider that redeems codes once limits
what follows, as in the model.

**A used backup code is good again.** `BackupCodesFactor` is documented as "Backup
codes are single-use" (`backup_codes.py:54`), and `verify` as raising "If the code has
already been used" (`:165`). Two overlapping calls with two different codes each read
the list of used codes, append their own (`:198`) and write the whole list back
(`:199`): the second write undoes the first. `backup_reused` shows that the code whose
use was forgotten is accepted by a third call, which begins after both were
answered. What does hold, and is proved, is `KeepsPromise`: if the calls for an
identity do not overlap, each answer costs an unused code.

**A verified time step is accepted again.** TOTP's `verify` is documented as raising "If the
provided code is invalid or has already been used" (`totp.py:256`), for which `_verify` has
"Replay protection: reject if this time step has already been verified" (`:299`). But
`last_verified_time_step` is set in a copy, and `update` (`:282`) writes the whole copy: of
two overlapping calls that accept steps n and n + 1, the one with n may write last and
take the row back to n, and a call that begins after both accepts the code of n + 1 once
more. In the trace of `totp_reused` the late write is that of an `enable`, which is
shorter; two `verify` do the same. What does hold, and is proved, is `KeepsPromise`: if the
calls for an identity do not overlap, each answer costs a time step above all that were
accepted before.

`complete` (`authentication_session.py:274`) and `consume` of the email OTP factor
(`email_otp.py:174`) have the same shape, without a promise of atomicity: two
overlapping calls are both answered. `CompletedOnce` therefore speaks of requests that
take turns, and `NoSpentAccept` of calls that begin later. `verify` of HOTP
(`hotp.py:270`) writes its counter as TOTP writes its time step, and overlapping calls
take it back as well; `hotp.py` does not say that they may not.

### Bounds

* Two requests: the conflicts are between the read of one call and the write of
  another, and a third call adds only orders of the same pairs. Runs in which a
  third call matters (a `create` after two that overlapped) get it in sequence,
  since a request begins a new call when one ended. The theorems have no bound.
* Three identity sessions give two rotations, the least number with which a
  stale token can meet a session it did not produce itself; two suffice where the
  clock moves (`ThirdAtOnce`). In `identity_calls` both lifetimes and `MaxTime` are two, so
  that a session created at time 1 has an access expiry its inherited deadline cuts short,
  and a consumed token comes back before, at and after the deadline. One grant:
  a session without one, or with another row's, shows in the links of rows.
  `SafetyView` leaves out what is left of a call that is over, unless a property looks
  back at it.
* `identity_live`: with two ids, and a deadline at the last tick, a call's token gets
  replaced, revoked, expired or deleted by what the other call and the clock do. A call is
  excused (`Starved`) only while it waits for an id that the program would have; one
  that was refused because its session was replaced must return. `LiveView` leaves out
  answers and arguments of calls that are over; no step depends on them.
* `auth_overlap`: three factors, one of which skips the step of those left out, and two
  identities, either of which may have codes enrolled, so that factors completed for
  one and enrolled for the other can get into one session.
* `login`: two factors that can come first (one skipping a step), two at the
  second step, one at the third of the same kind as one at the second.
  Enrollments are those that can be looked up: a factor of step 0 is only
  asked for while no identity is attached; the second step's are one identity's only,
  so that two identities differ in what is due. `LoginView` leaves out the history `ever`,
  which `auth_overlap` checks. One authentication session and two
  identity sessions: the second is either the first's successor, or what a second
  answer to the same login would get.
* `oauth2_tabs`: two flows, two identities, one account, two enrollments of it;
  with one account every pair of flows competes for it. All its flows use PKCE,
  since the properties speak of such flows; the theorems cover a mixture, and
  `oauth2_twice` has both kinds.
* `email_otp`: three OTPs in two sessions with two codes, so two can be alike.
* `authenticator_otp`: two ids are an enrollment and the one that replaces it. Windows
  of two and three numbers over `0 .. MaxNumber` (the last that is accepted) let codes
  repeat within a window, and drift reach both sides of a verified step; the numbers
  just beyond the windows have codes, too, so that a window too wide shows. `OneOwner`
  keeps the enrollments and calls of one identity at a time: identities share only the clock.
  `View` leaves out history that no property of the run reads any more. `totp_reused` has
  one identity, and needs a clock of two values.
* `backup_codes`, `backup_reused`: two sets of two codes; a lost use takes two codes, and
  codes of a withdrawn set take a second set.
* `code_exchange`: a flow with a nonce and one without, one with PKCE and one without, so
  that every mix of state and code occurs; two keys, so that one can be replaced.
* Ids run out in the models only (`Starved`, above). `OAuth2Flow` may stop when all its flows were started and abandoned; no other run is excused
  from the deadlock check.
* Symmetry is used in the runs of safety properties only.

### Fairness

`FairSpec` (identity sessions) is weak fairness of `Step(r)` for each request:
asyncio runs every task that is ready, and a store operation returns or raises, so
a call that can go on eventually does. Nothing is assumed of callers, the clock,
the clean-up or failures. Liveness is checked where the code loops back
(`refresh` after a refused replacement, which looks the row up again and decides anew);
the other services' methods are straight
lines, in which nothing waits for another call. That reuse of a refresh token ends in
the family's revocation needs no fairness: `ReplayIsPunished` says that the call
does not return before.

## Proofs

Every theorem is for all values of the constants that satisfy the named
assumptions of its module: sets of any size, lifetimes that are (positive) naturals,
and `None` outside the other sets. Each module proves `Spec => []IInv` for an
inductive `IInv` and derives the rest.

* `IdentitySessionProofs`. `IInv` = shapes of calls and rows (`Shapes`), links between
  rows (`StoreLinks`: a family is its first session's, a replacement was handed out),
  the four family properties together (`FamilyInv`: one usable session is only
  preserved because revocation reaches the whole family and replacement is
  linear), what each call in flight knows about the store (`CallsInv`: its copy is an
  earlier version of the row, and what was dead stays dead) and `SingleUse`.
  `KeepsPromiseHolds` maps each effect on the store (insert, replace, revoke, purge) to
  one step of `SessionFamilies`, and everything else to a stutter.
  `ReplayIsPunishedHolds` needs what a refresh knows of a token that was stale when it
  began (`RefreshInv`): it found the row in that state, so only the branches that end in
  `RevokeFamily`, or a family that is revoked or gone, are open to it. Proved: every
  safety property the runs check.
* `AuthenticationSessionProofs`. Types include what a request at each label holds
  and what is known of its scan, which gives `CompletionJustified` and
  `CompletedIsGone`. Every step is then reduced to its effect on rows and copies
  (`Effect`), over which four more parts are shown: all rows and copies are legal and
  attached to their last factor's identity (`Paths`; a late `update` is harmless because it
  writes a legal copy), their factors were looked up for the identity attached
  (`Lookups`; what a scan found was enrolled for the identity of the copy it works on, and
  nothing leaves `ever`), copy and row agree on the expiry (`Agreed`), and under `TakeTurns` a copy is ahead of its row
  (`Turns`). `KeepsProgressHolds` maps each effect to one step of `LoginProgress` or a
  stutter: `Paths` is why what `update` writes is legal, `Turns` why it only adds and
  why `complete` answers once, `Rows` why a deleted session is not found again, and
  `Blank` (nothing is done on an object before it is inserted) why a session
  begins empty. Proved: every property the runs check.
* `LoginProofs`. Every step of `LoginSpec` is a step of `AuthenticationSession` or leaves it
  alone (`LoginImplementsService`), so the theorems of that module hold in the
  composition and its invariant is at hand. On top of it: an answer that is held or used
  is a legal login whose row is gone (`AllEarned`, which lasts because no
  id is used twice), and is in one place, a request or a usable session
  (`OnePlace`), which needs `CompletedOnce`. Proved: both properties of its own,
  the other four of `login` (`ServiceInLogin`, from the theorems about the service), and
  that its identity sessions live as `SessionFamilies` says (`LoginImplementsFamilies`).
* `OAuth2FlowProofs`. `Bound`: every state, object and enrollment belongs to the flow
  it says it does; the only place where two flows could mix is the exchange, and
  the verifier keeps them apart. `Once`: a consumed state is out of the table and no
  `start` can still insert it. `Kept`: the enrollment a call is about to overwrite is
  the one it found, or none. Proved: every property of `oauth2_tabs`.
* `EmailOTPProofs`. What was spent is gone and its id is not handed out again, and
  what a call remembers of its beginning stays true. Proved: every property of
  `email_otp`.

* `AuthenticatorOTPProofs`, `BackupCodesProofs`. `Shape`: what a call found is an enrollment
  of its identity, its number was proved for that very secret, and an id in use is not
  handed out. `Alone`: a call whose owner is not loose is the only one, so its copy is the
  row, or the row is gone, and while it is about to insert there is none; from this follow
  `OneEnrollment` and, step by step, the refinement of `OneTimeCodes`: the number or slot
  that a call accepts is the presented code's, not yet spent, and in its window. Proved:
  every property of `authenticator_otp` and `backup_codes`.
* `CodeExchangeProofs`. `CallFit`: a call past the token endpoint has the tokens of a code
  it could redeem, and one past validation was compared with the nonce; until keys
  change, every JWKS that is cached or on its way is the published one, which has the
  signing key. Proved: every property of `code_exchange`, and `BoughtOnceHolds`, which no
  run checks: of all calls in flight at most one has the tokens of a code, and the code is
  spent by then. `OAuth2Flow`, where the exchange is one step, relies on that.

Only model-checked: `CallsReturn` (liveness under fairness is outside the proof
system's reach) and the three refutations.

## Plan

Done: every component that keeps state or makes more than one step, with proofs, and the
composition of the two session services. What would come next:

1. The composition of `CodeExchange` with `OAuth2Flow`, in place of the single exchange step.
2. A second OAuth2 provider, to state what goes wrong when an answer is brought to a
   factor that did not start its flow.

## Not modelled

* Of ID Tokens, everything but the key and the nonce; client assertions; HTTP requests and
  responses; the settings of the Apple and Google factors: pure functions and library calls.
* Generation and hashing of tokens, codes, verifiers and secrets (`crypto.py`,
  `pkce.py`): probabilistic. The models take random values to be distinct. Secrets
  that do not decode and codes that are not digits are refused before any effect.
* `get_emails` of the GitHub factor and `get_profile` on its own: one request each, whose
  answer is returned.
* What a store does beyond the contract of its abstract methods; in particular unique
  constraints, which an application may well add on accounts.
* Logging, exceptions' payloads, AMR values, the documentation site.
