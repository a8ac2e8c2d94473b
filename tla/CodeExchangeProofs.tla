-------------------------- MODULE CodeExchangeProofs --------------------------
(* Theorems about the exchange of authorization codes. *)
EXTENDS CodeExchange, TLAPS

USE CodeExchangeAssumption

(* What an exchange has by the time it is at each point.  As long as the   *)
(* provider has not changed its keys, every JWKS at hand is what it        *)
(* publishes, and every ID Token is signed with one of its keys.           *)
CallFit(r) ==
  calls[r] # None =>
    LET c == calls[r]
        exchange == c.op = "exchange"
    IN
    /\ c.at \in {"post", "returned", "invalid"} => exchange
    /\ c.at \in {"keys", "fetched", "validate"} => exchange \/ c.op = "claims"
    /\ c.at = "userinfo" => exchange \/ c.op = "profile"
    /\ exchange => c.flow \in Flows /\ c.code \in Flows
    /\ exchange /\ c.at \notin {"document", "post"} =>
         /\ c.token \in Token
         /\ c.token.flow = c.code
         /\ c.code \in Pkce => c.code = c.flow
    /\ exchange /\ c.at \in {"keys", "fetched", "validate"} =>
         c.token.key \in Keys /\ (changed \/ c.token.key \in published)
    /\ exchange /\ c.at = "userinfo" => c.flow \notin Oidc
    /\ exchange /\ c.at = "document" => c.flow \in Oidc
    /\ c.at \in {"fetched", "validate"} =>
         c.keys # {} /\ (changed \/ c.keys = published)
    /\ c.at = "returned" /\ c.flow \in Nonce => c.token.flow = c.flow
    /\ c.at = "invalid" /\ c.code = c.flow => changed

IInv ==
  /\ TypeOK
  /\ \A r \in Requests : CallFit(r)
  /\ changed \/ jwks \in {{}, published}

LEMMA InitIInv == Init => IInv
BY DEF Init, IInv, TypeOK, CallFit, At

(* A step of one call, which leaves the provider's keys alone.             *)
LEMMA CallStep ==
  ASSUME IInv, NEW r \in Requests, NEW c \in Call \cup {None},
         calls' = [calls EXCEPT ![r] = c], CallFit(r)',
         redeemed' \subseteq Flows, document' \in BOOLEAN, jwks' \subseteq Keys,
         changed \/ jwks' \in {{}, published},
         UNCHANGED <<published, signing, changed>>
  PROVE  IInv'
<1>1. calls'[r] = c /\ \A q \in Requests : q # r => calls'[q] = calls[q]
  BY DEF IInv, TypeOK
<1>2. ASSUME NEW q \in Requests PROVE CallFit(q)'
  BY <1>1 DEF IInv, CallFit
<1>3. TypeOK'
  <2>1. calls' \in [Requests -> Call \cup {None}]
    BY DEF IInv, TypeOK
  <2>2. ASSUME NEW q \in Requests, calls'[q] # None
        PROVE  /\ calls'[q].at \in {"returned", "invalid"} => calls'[q].token # None
               /\ calls'[q].at \in {"fetched", "validate"} => calls'[q].keys # {}
    BY <1>2, <2>2 DEF CallFit
  <2> QED BY <2>1, <2>2 DEF IInv, TypeOK, At
<1> QED BY <1>2, <1>3 DEF IInv

LEMMA NextIInv ==
  ASSUME IInv, [Next]_vars
  PROVE  IInv'
<1>0. \A r \in Requests : /\ CallFit(r)
                          /\ calls[r] # None => calls[r] \in Call
  BY DEF IInv, TypeOK
<1>1. CASE UNCHANGED vars
  BY <1>1 DEF vars, provider, cache, IInv, TypeOK, CallFit, At
<1>2. ASSUME NEW r \in Requests, End(r), redeemed' \subseteq Flows, document' \in BOOLEAN,
             UNCHANGED <<published, signing, changed, jwks>>
      PROVE  IInv'
  <2>1. CallFit(r)'
    BY <1>2 DEF End, CallFit, IInv, TypeOK
  <2> QED BY <1>2, <2>1, CallStep DEF End, IInv, TypeOK
<1>3. ASSUME NEW r \in Requests, NEW f \in Flows, NEW c \in Flows, CallExchange(r, f, c)
      PROVE  IInv'
  <2> DEFINE call == [op |-> "exchange", flow |-> f, code |-> c,
                      at |-> IF f \in Oidc THEN "document" ELSE "post",
                      token |-> None, keys |-> {}]
  <2>1. call \in Call
    BY DEF Call
  <2>2. calls' = [calls EXCEPT ![r] = call] /\ UNCHANGED <<provider, cache, changed>>
    BY <1>3 DEF CallExchange, Begin
  <2>3. CallFit(r)'
    BY <2>2 DEF CallFit, IInv, TypeOK
  <2> HIDE DEF call
  <2> QED BY <2>1, <2>2, <2>3, CallStep DEF IInv, TypeOK, provider, cache
<1>4. ASSUME NEW r \in Requests, NEW op \in {"authorize", "profile", "claims"},
             CallOther(r, op)
      PROVE  IInv'
  <2> DEFINE call == [op |-> op, flow |-> None, code |-> None, at |-> "document",
                      token |-> None, keys |-> {}]
  <2>1. call \in Call
    BY DEF Call
  <2>2. calls' = [calls EXCEPT ![r] = call] /\ UNCHANGED <<provider, cache, changed>>
    BY <1>4 DEF CallOther, Begin
  <2>3. CallFit(r)'
    BY <2>2 DEF CallFit, IInv, TypeOK
  <2> HIDE DEF call
  <2> QED BY <2>1, <2>2, <2>3, CallStep DEF IInv, TypeOK, provider, cache
<1>5. ASSUME NEW r \in Requests, calls[r] # None,
             NEW to \in {"post", "keys", "userinfo", "validate", "returned", "invalid"},
             Goto(r, to), CallFit(r)', document' \in BOOLEAN, jwks' \subseteq Keys,
             changed \/ jwks' \in {{}, published},
             UNCHANGED <<provider, changed>>
      PROVE  IInv'
  <2>1. [calls[r] EXCEPT !.at = to] \in Call
    BY <1>0, <1>5 DEF Call
  <2>2. calls' = [calls EXCEPT ![r] = [calls[r] EXCEPT !.at = to]]
    BY <1>5 DEF Goto
  <2> QED BY <1>5, <2>1, <2>2, CallStep DEF IInv, TypeOK, provider
<1>6. ASSUME NEW r \in Requests,
             NEW to \in {"post", "keys", "fetched", "validate", "userinfo", "returned",
                         "invalid"},
             calls[r] # None, Goto(r, to)
      PROVE  /\ calls'[r] # None
             /\ calls'[r].at = to
             /\ calls'[r].op = calls[r].op
             /\ calls'[r].flow = calls[r].flow
             /\ calls'[r].code = calls[r].code
             /\ calls'[r].token = calls[r].token
             /\ calls'[r].keys = calls[r].keys
  <2>1. calls[r] \in Call
    BY <1>0, <1>6
  <2>2. calls'[r] = [calls[r] EXCEPT !.at = to]
    BY <1>6 DEF Goto, IInv, TypeOK
  <2>3. calls'[r] = [op |-> calls[r].op, flow |-> calls[r].flow,
                     code |-> calls[r].code, at |-> to,
                     token |-> calls[r].token, keys |-> calls[r].keys]
    BY <2>1, <2>2 DEF Call
  <2>4. calls'[r] # None
    BY <2>1, <2>3, CodeExchangeAssumption DEF Call
  <2> QED BY <2>3, <2>4
<1>7. ASSUME NEW r \in Requests, GetDocument(r)
      PROVE  IInv'
  <2>1. /\ calls[r] # None /\ calls[r].at = "document"
        /\ document' \in BOOLEAN
        /\ UNCHANGED <<provider, jwks, changed>>
    BY <1>7 DEF GetDocument, At
  <2>2. CASE calls[r].op = "exchange"
    <3>1. Goto(r, "post")
      BY <1>7, <2>2 DEF GetDocument
    <3>2. CallFit(r)'
      BY <1>0, <1>6, <2>1, <2>2, <3>1 DEF CallFit
    <3> QED BY <1>5, <2>1, <3>1, <3>2 DEF IInv, TypeOK
  <2>3. CASE calls[r].op = "authorize"
    <3>1. End(r)
      BY <1>7, <2>3 DEF GetDocument
    <3> QED BY <1>2, <2>1, <3>1 DEF IInv, TypeOK, provider
  <2>4. CASE calls[r].op = "profile"
    <3>1. Goto(r, "userinfo")
      BY <1>7, <2>4 DEF GetDocument
    <3>2. CallFit(r)'
      BY <1>0, <1>6, <2>1, <2>4, <3>1 DEF CallFit
    <3> QED BY <1>5, <2>1, <3>1, <3>2 DEF IInv, TypeOK
  <2>5. CASE calls[r].op = "claims"
    <3>1. Goto(r, "keys")
      BY <1>7, <2>5 DEF GetDocument
    <3>2. CallFit(r)'
      BY <1>0, <1>6, <2>1, <2>5, <3>1 DEF CallFit
    <3> QED BY <1>5, <2>1, <3>1, <3>2 DEF IInv, TypeOK
  <2> QED BY <1>0, <2>1, <2>2, <2>3, <2>4, <2>5 DEF Call
<1>8. ASSUME NEW r \in Requests, Post(r)
      PROVE  IInv'
  <2> DEFINE to == IF calls[r].flow \in Oidc THEN "keys" ELSE "userinfo"
             token == [flow |-> calls[r].code,
                       key  |-> IF calls[r].flow \in Oidc THEN signing ELSE None]
             call == [calls[r] EXCEPT !.at = to, !.token = token]
  <2>1. /\ calls[r] # None /\ calls[r].at = "post" /\ calls[r] \in Call
        /\ calls[r].op = "exchange" /\ calls[r].flow \in Flows /\ calls[r].code \in Flows
        /\ calls[r].code \in Pkce => calls[r].code = calls[r].flow
    BY <1>0, <1>8 DEF Post, At, CallFit, Redeemable
  <2>2. token \in Token /\ token.flow = calls[r].code
        /\ (calls[r].flow \in Oidc => token.key = signing)
    BY <2>1 DEF Token, IInv, TypeOK
  <2>3. calls' = [calls EXCEPT ![r] = call]
    BY <1>8, <2>1 DEF Post, IInv, TypeOK
  <2>4. /\ call \in Call
        /\ call.op = "exchange" /\ call.flow = calls[r].flow /\ call.code = calls[r].code
        /\ call.at = to /\ call.token = token
    <3> HIDE DEF token
    <3> QED BY <2>1, <2>2 DEF Call
  <2>5. signing \in published /\ signing \in Keys
    BY DEF IInv, TypeOK
  <2>6. /\ UNCHANGED <<published, signing, cache, changed>>
        /\ redeemed' \subseteq Flows
    BY <1>8, <2>1 DEF Post, IInv, TypeOK
  <2>7. CallFit(r)'
    <3>1. calls'[r] = call
      BY <2>3 DEF IInv, TypeOK
    <3> HIDE DEF call, token
    <3> QED BY <2>1, <2>2, <2>4, <2>5, <2>6, <3>1 DEF CallFit
  <2> HIDE DEF call
  <2> QED BY <2>3, <2>4, <2>6, <2>7, CallStep DEF IInv, TypeOK, cache
<1>9. ASSUME NEW r \in Requests, CachedKeys(r) \/ FetchKeys(r)
      PROVE  IInv'
  <2> DEFINE to == IF jwks # {} THEN "validate" ELSE "fetched"
             keys == IF jwks # {} THEN jwks ELSE published
             call == [calls[r] EXCEPT !.at = to, !.keys = keys]
  <2>1. /\ calls[r] # None /\ calls[r].at = "keys" /\ calls[r] \in Call
        /\ UNCHANGED <<provider, cache, changed>>
        /\ calls' = [calls EXCEPT ![r] = call]
    BY <1>0, <1>9 DEF CachedKeys, FetchKeys, At, IInv, TypeOK
  <2>2. keys \in SUBSET Keys /\ keys # {} /\ (changed \/ keys = published)
    BY DEF IInv, TypeOK
  <2>3. /\ call \in Call
        /\ call.op = calls[r].op /\ call.flow = calls[r].flow /\ call.code = calls[r].code
        /\ call.token = calls[r].token /\ call.at = to /\ call.keys = keys
    <3> HIDE DEF keys
    <3> QED BY <2>1, <2>2 DEF Call
  <2>4. CallFit(r)'
    <3>1. calls'[r] = call
      BY <2>1 DEF IInv, TypeOK
    <3> HIDE DEF call, keys
    <3> QED BY <1>0, <2>1, <2>2, <2>3, <3>1 DEF CallFit, provider
  <2> HIDE DEF call
  <2> QED BY <2>1, <2>3, <2>4, CallStep DEF IInv, TypeOK, provider, cache
<1>10. ASSUME NEW r \in Requests, StoreKeys(r)
       PROVE  IInv'
  <2>1. /\ calls[r] # None /\ calls[r].at = "fetched" /\ calls[r] \in Call
        /\ Goto(r, "validate") /\ jwks' = calls[r].keys
        /\ UNCHANGED <<provider, document, changed>>
    BY <1>0, <1>10 DEF StoreKeys, At
  <2>2. CallFit(r)'
    BY <1>0, <1>6, <2>1 DEF CallFit, provider
  <2>3. jwks' \subseteq Keys /\ (changed \/ jwks' = published)
    BY <1>0, <2>1 DEF CallFit, Call
  <2> QED BY <1>5, <2>1, <2>2, <2>3 DEF IInv, TypeOK
<1>11. ASSUME NEW r \in Requests, Validate(r)
       PROVE  IInv'
  <2>1. /\ calls[r] # None /\ calls[r].at = "validate" /\ calls[r] \in Call
        /\ UNCHANGED <<provider, cache, changed>>
    BY <1>0, <1>11 DEF Validate, At
  <2>2. CASE calls[r].op = "claims"
    BY <1>2, <1>11, <2>1, <2>2 DEF Validate, IInv, TypeOK, provider, cache
  <2>3. CASE calls[r].op = "exchange" /\ Valid(calls[r])
    <3>1. Goto(r, "returned")
      BY <1>11, <2>3 DEF Validate
    <3>2. CallFit(r)'
      BY <1>0, <1>6, <2>1, <2>3, <3>1 DEF CallFit, Valid
    <3> QED BY <1>5, <2>1, <3>1, <3>2 DEF IInv, TypeOK, cache
  <2>4. CASE calls[r].op = "exchange" /\ ~Valid(calls[r])
    <3>1. Goto(r, "invalid")
      BY <1>11, <2>4 DEF Validate
    <3>2. CallFit(r)'
      BY <1>0, <1>6, <2>1, <2>4, <3>1 DEF CallFit, Valid
    <3> QED BY <1>5, <2>1, <3>1, <3>2 DEF IInv, TypeOK, cache
  <2> QED BY <1>0, <2>1, <2>2, <2>3, <2>4 DEF CallFit
<1>12. ASSUME NEW r \in Requests, Userinfo(r)
       PROVE  IInv'
  <2>1. /\ calls[r] # None /\ calls[r].at = "userinfo" /\ calls[r] \in Call
        /\ UNCHANGED <<provider, cache, changed>>
    BY <1>0, <1>12 DEF Userinfo, At
  <2>2. CASE calls[r].op = "profile"
    BY <1>2, <1>12, <2>1, <2>2 DEF Userinfo, IInv, TypeOK, provider, cache
  <2>3. CASE calls[r].op = "exchange"
    <3>1. Goto(r, "returned")
      BY <1>12, <2>3 DEF Userinfo
    <3>2. CallFit(r)'
      BY <1>0, <1>6, <2>1, <2>3, <3>1 DEF CallFit
    <3> QED BY <1>5, <2>1, <3>1, <3>2 DEF IInv, TypeOK, cache
  <2> QED BY <1>0, <2>1, <2>2, <2>3 DEF CallFit
<1>13. ASSUME NEW r \in Requests,
              PostRefused(r) \/ PostLost(r) \/ Leave(r) \/ RequestFails(r)
       PROVE  IInv'
  <2>1. PostLost(r) => calls[r].code \in Flows
    BY <1>0 DEF PostLost, At, CallFit
  <2>2. /\ End(r)
        /\ redeemed' \subseteq Flows
        /\ UNCHANGED <<published, signing, cache, changed>>
    BY <1>13, <2>1 DEF PostRefused, PostLost, Leave, RequestFails, IInv, TypeOK, provider
  <2> QED BY <1>2, <2>2 DEF IInv, TypeOK, cache
<1>14. ASSUME NEW k \in Keys, Publish(k) \/ SignWith(k) \/ Retire(k)
       PROVE  IInv'
  <2>1. ASSUME NEW r \in Requests PROVE CallFit(r)'
    BY <1>0, <1>14 DEF Publish, SignWith, Retire, CallFit
  <2>2. TypeOK'
    BY <1>14 DEF Publish, SignWith, Retire, IInv, TypeOK, cache, At
  <2> QED BY <1>14, <2>1, <2>2 DEF Publish, SignWith, Retire, IInv, cache
<1>15. CASE Restart
  BY <1>15 DEF Restart, IInv, TypeOK, CallFit, At, provider
<1> QED BY <1>1, <1>3, <1>4, <1>7, <1>8, <1>9, <1>10, <1>11, <1>12, <1>13, <1>14, <1>15
        DEF Next, Step

(* The inductive invariant.                                                *)
THEOREM Inductive == Spec => []IInv
BY InitIInv, NextIInv, PTL DEF Spec

(* Calls are well formed, and those past the token endpoint have tokens.   *)
THEOREM TypesHold == Spec => []TypeOK
<1>1. IInv => TypeOK
  BY DEF IInv
<1> QED BY <1>1, Inductive, PTL

(* With a nonce in the flow or a challenge for the code, the account that  *)
(* is answered was approved in the flow.                                   *)
THEOREM AccountOfFlowHolds == Spec => []AccountOfFlow
<1>1. IInv => AccountOfFlow
  BY DEF IInv, CallFit, AccountOfFlow, At
<1> QED BY <1>1, Inductive, PTL

(* The flow's own code is thrown away only if the provider changed its     *)
(* keys after the process started.                                         *)
THEOREM RefusedForCauseHolds == Spec => []RefusedForCause
<1>1. IInv => RefusedForCause
  BY DEF IInv, CallFit, RefusedForCause, At
<1> QED BY <1>1, Inductive, PTL

-----------------------------------------------------------------------------
(* A code buys one login *)

Has(r, f) == calls[r] # None /\ calls[r].token # None /\ calls[r].token.flow = f

(* Tokens are of redeemed codes, and two calls never have the same code's. *)
BoughtOnce ==
  \A f \in Flows :
    /\ \A r \in Requests : Has(r, f) => f \in redeemed
    /\ \A q, r \in Requests : Has(q, f) /\ Has(r, f) => q = r

(* A step of one call, which gets the tokens of a code only by redeeming   *)
(* it.                                                                     *)
LEMMA HasStep ==
  ASSUME BoughtOnce, NEW r \in Requests, redeemed \subseteq redeemed',
         \A q \in Requests \ {r} : calls'[q] = calls[q],
         \A f \in Flows : Has(r, f)' => Has(r, f) \/ f \in redeemed' \ redeemed
  PROVE  BoughtOnce'
<1>1. \A f \in Flows, q \in Requests \ {r} : Has(q, f)' <=> Has(q, f)
  BY DEF Has
<1> HIDE DEF Has
<1> QED BY <1>1 DEF BoughtOnce

LEMMA NextBoughtOnce ==
  ASSUME TypeOK, BoughtOnce, [Next]_vars
  PROVE  BoughtOnce'
<1>0. /\ \A r \in Requests : calls[r] # None => calls[r] \in Call
      /\ DOMAIN calls = Requests
      /\ calls = [r \in Requests |-> calls[r]]
  BY DEF TypeOK
<1>1. ASSUME NEW r \in Requests, End(r), redeemed \subseteq redeemed'
      PROVE  BoughtOnce'
  BY <1>0, <1>1, HasStep DEF End, Has
<1>2. ASSUME NEW r \in Requests, NEW to, calls[r] # None, Goto(r, to), UNCHANGED redeemed
      PROVE  BoughtOnce'
  <2>1. calls'[r].token = calls[r].token
    BY <1>0, <1>2 DEF Goto, Call
  <2> QED BY <1>0, <1>2, <2>1, HasStep DEF Goto, Has
<1>3. ASSUME NEW r \in Requests, NEW op, NEW f, NEW c, NEW where, Begin(r, op, f, c, where)
      PROVE  BoughtOnce'
  <2>1. calls'[r].token = None /\ UNCHANGED redeemed
    BY <1>0, <1>3 DEF Begin, provider
  <2> QED BY <1>0, <1>3, <2>1, HasStep DEF Begin, Has
<1>4. ASSUME NEW r \in Requests, GetDocument(r)
      PROVE  BoughtOnce'
  <2>1. /\ calls[r] # None
        /\ UNCHANGED redeemed
        /\ calls[r].op \in {"exchange", "authorize", "profile", "claims"}
    BY <1>0, <1>4 DEF GetDocument, At, provider, Call
  <2>2. End(r) \/ \E to \in {"post", "userinfo", "keys"} : Goto(r, to)
    BY <1>4, <2>1 DEF GetDocument
  <2> QED BY <1>1, <1>2, <2>1, <2>2
<1>5. ASSUME NEW r \in Requests, Post(r)
      PROVE  BoughtOnce'
  <2>1. /\ calls[r] # None
        /\ calls[r] \in Call
        /\ calls[r].code \notin redeemed
        /\ redeemed' = redeemed \cup {calls[r].code}
    BY <1>0, <1>5 DEF Post, At, Redeemable
  <2>2. calls'[r].token.flow = calls[r].code
    BY <1>0, <1>5, <2>1 DEF Post, Call
  <2>3. \A q \in Requests \ {r} : calls'[q] = calls[q]
    BY <1>0, <1>5 DEF Post
  <2> QED BY <2>1, <2>2, <2>3, HasStep DEF Has
<1>6. ASSUME NEW r \in Requests, CachedKeys(r) \/ FetchKeys(r)
      PROVE  BoughtOnce'
  <2>1. /\ calls[r] # None
        /\ calls[r] \in Call
        /\ UNCHANGED redeemed
    BY <1>0, <1>6 DEF CachedKeys, FetchKeys, At, provider
  <2>2. calls'[r].token = calls[r].token
    BY <1>0, <1>6, <2>1 DEF CachedKeys, FetchKeys, Call
  <2>3. \A q \in Requests \ {r} : calls'[q] = calls[q]
    BY <1>0, <1>6 DEF CachedKeys, FetchKeys
  <2> QED BY <2>1, <2>2, <2>3, HasStep DEF Has
<1>7. ASSUME NEW r \in Requests, StoreKeys(r) \/ Validate(r) \/ Userinfo(r)
      PROVE  BoughtOnce'
  <2>1. calls[r] # None /\ UNCHANGED redeemed
    BY <1>7 DEF StoreKeys, Validate, Userinfo, At, provider
  <2>2. End(r) \/ \E to \in {"validate", "returned", "invalid"} : Goto(r, to)
    BY <1>7 DEF StoreKeys, Validate, Userinfo
  <2> QED BY <1>1, <1>2, <2>1, <2>2
<1>8. ASSUME NEW r \in Requests, PostRefused(r) \/ PostLost(r) \/ Leave(r) \/ RequestFails(r)
      PROVE  BoughtOnce'
  <2>1. End(r) /\ redeemed \subseteq redeemed'
    BY <1>8 DEF PostRefused, PostLost, Leave, RequestFails, provider
  <2> QED BY <1>1, <2>1
<1>9. ASSUME NEW k \in Keys, Publish(k) \/ SignWith(k) \/ Retire(k)
      PROVE  BoughtOnce'
  BY <1>9 DEF Publish, SignWith, Retire, BoughtOnce, Has
<1>10. CASE Restart
  BY <1>10 DEF Restart, BoughtOnce, Has, provider
<1>11. CASE UNCHANGED vars
  BY <1>11 DEF vars, BoughtOnce, Has, provider
<1>12. ASSUME NEW r \in Requests,
              \/ \E f, c \in Flows : CallExchange(r, f, c)
              \/ \E op \in {"authorize", "profile", "claims"} : CallOther(r, op)
       PROVE  BoughtOnce'
  BY <1>3, <1>12 DEF CallExchange, CallOther
<1> QED BY <1>4, <1>5, <1>6, <1>7, <1>8, <1>9, <1>10, <1>11, <1>12 DEF Next, Step

(* A code buys one login: of the calls in flight at most one has the       *)
(* tokens of a code, however many present it, and it is spent by then.     *)
THEOREM BoughtOnceHolds == Spec => []BoughtOnce
<1>1. Init => BoughtOnce
  BY DEF Init, BoughtOnce, Has
<1>2. TypeOK /\ BoughtOnce /\ [Next]_vars => BoughtOnce'
  BY NextBoughtOnce
<1> QED BY <1>1, <1>2, TypesHold, PTL DEF Spec

=============================================================================
