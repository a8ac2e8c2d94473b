----------------------------- MODULE CodeExchange -----------------------------
(***************************************************************************)
(* exchange_code of the OIDC factors (reauth/factors/oauth2/oidc.py) and   *)
(* of the GitHub factor (github.py), with the calls that share their       *)
(* caches: get_authorization_url, get_profile and get_id_token_claims.     *)
(*                                                                         *)
(* A factor of OIDC fetches the discovery document and the JWKS when it    *)
(* first needs them, each with an await, and keeps them as long as the     *)
(* process lives.  The code is redeemed between the two, and the provider  *)
(* changes its keys when it likes.                                         *)
(***************************************************************************)
EXTENDS Naturals

CONSTANTS Flows,    \* flows whose code was issued: it stands for the account too
          Requests, \* calls that may be in flight together
          Keys,     \* the provider's signing keys, by their kid
          Oidc,     \* the flows of the OIDC factor; the others are GitHub's
          Nonce,    \* those started with a nonce
          Pkce,     \* those started with a code challenge
          None      \* Python's None

(* The tokens bought with a code; GitHub's have no ID Token, hence no key. *)
Token == [flow : Flows, key : Keys \cup {None}]

(* A call: the flow whose state it has and the code it presents, where it  *)
(* is, and the tokens and JWKS it has got.                                 *)
Call == [op    : {"exchange", "authorize", "profile", "claims"},
         flow  : Flows \cup {None},
         code  : Flows \cup {None},
         at    : {"document", "post", "keys", "fetched", "validate", "userinfo",
                  "returned", "invalid"},
         token : Token \cup {None},
         keys  : SUBSET Keys]

ASSUME CodeExchangeAssumption ==
  /\ Oidc \subseteq Flows
  /\ Nonce \subseteq Oidc
  /\ Pkce \subseteq Flows
  /\ None \notin Flows
  /\ None \notin Keys
  /\ None \notin Token
  /\ None \notin Call

VARIABLES redeemed,  \* codes the provider will not exchange any more
          published, \* the keys in the provider's JWKS
          signing,   \* the key it signs with
          document,  \* whether _discovery_document is set
          jwks,      \* _jwks; {} for None, since a JWKS that is read has keys
          calls,     \* the calls in flight
          changed    \* history: published has changed since the process started

provider == <<redeemed, published, signing>>
cache == <<document, jwks>>

vars == <<provider, cache, calls, changed>>

Init ==
  /\ redeemed = {}
  /\ published \in SUBSET Keys
  /\ signing \in published
  /\ document = FALSE
  /\ jwks = {}
  /\ calls = [r \in Requests |-> None]
  /\ changed = FALSE

(* The call is in flight, at this point. *)
At(r, where) == calls[r] # None /\ calls[r].at = where

Goto(r, where) == calls' = [calls EXCEPT ![r].at = where]

(* The call returns, raises, is cancelled or dies. *)
End(r) == calls' = [calls EXCEPT ![r] = None]

Begin(r, op, f, c, where) ==
  /\ calls[r] = None
  /\ calls' = [calls EXCEPT ![r] = [op |-> op, flow |-> f, code |-> c, at |-> where,
                                    token |-> None, keys |-> {}]]
  /\ UNCHANGED <<provider, cache, changed>>

-----------------------------------------------------------------------------
(* Calls, and the discovery document *)

(* callback brings the code of the response: any that was issued.          *)
CallExchange(r, f, c) ==
  Begin(r, "exchange", f, c, IF f \in Oidc THEN "document" ELSE "post")

(* get_authorization_url, get_profile and get_id_token_claims, of OIDC.    *)
CallOther(r, op) == Begin(r, op, None, None, "document")

(* The document is in the cache, or it is fetched into it.                 *)
GetDocument(r) ==
  /\ At(r, "document")
  /\ document' = TRUE
  /\ CASE calls[r].op = "exchange"  -> Goto(r, "post")
       [] calls[r].op = "authorize" -> End(r)
       [] calls[r].op = "profile"   -> Goto(r, "userinfo")
       [] calls[r].op = "claims"    -> Goto(r, "keys")
  /\ UNCHANGED <<provider, jwks, changed>>

-----------------------------------------------------------------------------
(* The token endpoint *)

(* RFC 6749 and 7636: a code is redeemed once, by the client it was issued *)
(* to, and with the verifier of its challenge, if there was one.           *)
Redeemable(f, c) ==
  /\ c \notin redeemed
  /\ c \in Oidc <=> f \in Oidc
  /\ c \in Pkce => c = f

Post(r) ==
  /\ At(r, "post")
  /\ Redeemable(calls[r].flow, calls[r].code)
  /\ redeemed' = redeemed \cup {calls[r].code}
  /\ calls' = [calls EXCEPT
                 ![r].at = IF calls[r].flow \in Oidc THEN "keys" ELSE "userinfo",
                 ![r].token = [flow |-> calls[r].code,
                               key  |-> IF calls[r].flow \in Oidc THEN signing ELSE None]]
  /\ UNCHANGED <<published, signing, cache, changed>>

(* A client error: one of RFC_6749_TOKEN_ERROR_MAP, or the general one.    *)
PostRefused(r) ==
  /\ At(r, "post")
  /\ ~Redeemable(calls[r].flow, calls[r].code)
  /\ End(r)
  /\ UNCHANGED <<provider, cache, changed>>

(* The code is redeemed, but the answer is lost or a server error.         *)
PostLost(r) ==
  /\ At(r, "post")
  /\ Redeemable(calls[r].flow, calls[r].code)
  /\ redeemed' = redeemed \cup {calls[r].code}
  /\ End(r)
  /\ UNCHANGED <<published, signing, cache, changed>>

-----------------------------------------------------------------------------
(* The JWKS and the ID Token *)

(* Fault: the cache is used before it is filled. *)
KeysUnchecked(r) ==
  /\ At(r, "keys")
  /\ calls' = [calls EXCEPT ![r].at = "validate", ![r].keys = jwks]
  /\ UNCHANGED <<provider, cache, changed>>

CachedKeys(r) ==
  /\ At(r, "keys")
  /\ jwks # {}
  /\ calls' = [calls EXCEPT ![r].at = "validate", ![r].keys = jwks]
  /\ UNCHANGED <<provider, cache, changed>>

(* The provider answers with the keys it has by now.                       *)
FetchKeys(r) ==
  /\ At(r, "keys")
  /\ jwks = {}
  /\ calls' = [calls EXCEPT ![r].at = "fetched", ![r].keys = published]
  /\ UNCHANGED <<provider, cache, changed>>

(* The answer arrives: it replaces what another call has fetched meanwhile.*)
StoreKeys(r) ==
  /\ At(r, "fetched")
  /\ jwks' = calls[r].keys
  /\ Goto(r, "validate")
  /\ UNCHANGED <<provider, document, changed>>

(* Fault: the nonce is taken for optional. *)
ValidWithoutNonce(call) == call.token.key \in call.keys

(* validate_id_token: the JWKS has the kid, and the signature, the claims  *)
(* and at_hash are what the provider makes them; the nonce is the flow's.  *)
Valid(call) ==
  /\ call.token.key \in call.keys
  /\ call.flow \in Nonce => call.token.flow = call.flow

Validate(r) ==
  /\ At(r, "validate")
  /\ IF calls[r].op = "claims" THEN End(r)
     ELSE Goto(r, IF Valid(calls[r]) THEN "returned" ELSE "invalid")
  /\ UNCHANGED <<provider, cache, changed>>

(* GitHub's exchange_code gets the account with the access token.          *)
Userinfo(r) ==
  /\ At(r, "userinfo")
  /\ IF calls[r].op = "profile" THEN End(r) ELSE Goto(r, "returned")
  /\ UNCHANGED <<provider, cache, changed>>

(* The answer, or InvalidIDTokenException as OAuth2TokenExchangeException. *)
Leave(r) ==
  /\ At(r, "returned") \/ At(r, "invalid")
  /\ End(r)
  /\ UNCHANGED <<provider, cache, changed>>

(* A request fails: DiscoveryDocumentException, JWKSFetchException,        *)
(* OAuth2GetProfileException or, before the code is redeemed,              *)
(* OAuth2TokenExchangeException.  What is cached needs no request.         *)
RequestFails(r) ==
  /\ \/ At(r, "document") /\ ~document
     \/ At(r, "keys") /\ jwks = {}
     \/ \E where \in {"post", "fetched", "userinfo"} : At(r, where)
  /\ End(r)
  /\ UNCHANGED <<provider, cache, changed>>

-----------------------------------------------------------------------------
(* The provider and the process *)

Publish(k) ==
  /\ k \notin published
  /\ published' = published \cup {k}
  /\ changed' = TRUE
  /\ UNCHANGED <<redeemed, signing, cache, calls>>

SignWith(k) ==
  /\ k \in published \ {signing}
  /\ signing' = k
  /\ UNCHANGED <<redeemed, published, cache, calls, changed>>

Retire(k) ==
  /\ k \in published \ {signing}
  /\ published' = published \ {k}
  /\ changed' = TRUE
  /\ UNCHANGED <<redeemed, signing, cache, calls>>

(* Fault: the JWKS is kept outside of the process. *)
RestartWithKeys ==
  /\ document' = FALSE
  /\ jwks' = jwks
  /\ calls' = [r \in Requests |-> None]
  /\ changed' = FALSE
  /\ UNCHANGED provider

Restart ==
  /\ document' = FALSE
  /\ jwks' = {}
  /\ calls' = [r \in Requests |-> None]
  /\ changed' = FALSE
  /\ UNCHANGED provider

Step(r) ==
  \/ GetDocument(r)
  \/ Post(r)
  \/ PostRefused(r)
  \/ PostLost(r)
  \/ CachedKeys(r)
  \/ FetchKeys(r)
  \/ StoreKeys(r)
  \/ Validate(r)
  \/ Userinfo(r)
  \/ Leave(r)
  \/ RequestFails(r)

Next ==
  \/ \E r \in Requests :
       \/ \E f, c \in Flows : CallExchange(r, f, c)
       \/ \E op \in {"authorize", "profile", "claims"} : CallOther(r, op)
       \/ Step(r)
  \/ \E k \in Keys : Publish(k) \/ SignWith(k) \/ Retire(k)
  \/ Restart

Spec == Init /\ [][Next]_vars

-----------------------------------------------------------------------------
(* Properties *)

(* The provider signs with a key it publishes, and calls are well formed:  *)
(* those past the token endpoint have tokens.                              *)
TypeOK ==
  /\ redeemed \subseteq Flows
  /\ published \subseteq Keys
  /\ signing \in published
  /\ document \in BOOLEAN
  /\ jwks \subseteq Keys
  /\ calls \in [Requests -> Call \cup {None}]
  /\ changed \in BOOLEAN
  /\ \A r \in Requests :
       /\ At(r, "returned") \/ At(r, "invalid") => calls[r].token # None
       /\ At(r, "fetched") \/ At(r, "validate") => calls[r].keys # {}

(* Whatever code a response brings to a flow, the account that is answered *)
(* was approved in that flow: the ID Token has its nonce, or the provider  *)
(* asked for the verifier of the code's challenge.                         *)
AccountOfFlow ==
  \A r \in Requests :
    /\ At(r, "returned")
    /\ calls[r].flow \in Nonce \/ calls[r].code \in Pkce
    => calls[r].token.flow = calls[r].flow

(* A code is redeemed before its ID Token can be validated.  The login of  *)
(* a user who came back with the code of the flow is nevertheless not      *)
(* thrown away, unless the provider has changed its keys in the lifetime   *)
(* of this process, whose JWKS is never fetched again.                     *)
RefusedForCause ==
  \A r \in Requests :
    At(r, "invalid") /\ calls[r].code = calls[r].flow => changed

=============================================================================
