---------------------------- MODULE FederatedAuth ----------------------------
(***************************************************************************)
(* The federating authorization server (auth-federation.ts,                *)
(* auth-federation-router.ts): transactions that wait for a sign-in, the   *)
(* cookie that binds each to a browser, one-time codes, and the tokens     *)
(* minted for them.                                                        *)
(*                                                                         *)
(* A browser opens the branded page, which stores a pending transaction    *)
(* and binds it to the browser by a cookie (one cookie a browser, so the   *)
(* last page wins).  It signs in upstream or goes on as a guest; the       *)
(* callback may be opened in any browser, reloaded, or overlap with other  *)
(* requests while the upstream code is exchanged.  The client then redeems *)
(* the code at the token endpoint, where the SDK (external) checks PKCE    *)
(* between two calls of the provider, and the minting awaits a signature.  *)
(* Everything but the signed tokens lives in memory.                       *)
(*                                                                         *)
(* A code's randomness is a fresh name; a time limit that has run out is   *)
(* a name in a set; refresh tokens that say the same are one.              *)
(***************************************************************************)
EXTENDS Naturals

CONSTANTS
    Browsers,   \* each signs in upstream as one user
    Flows,      \* bound: transactions begun
    Codes,      \* bound: codes issued
    Grants,     \* bound: requests at the token endpoint at a time
    Scopes,     \* what a client may ask for
    Guest,      \* the one scope of GUEST_SCOPES
    None        \* no flow, no code, no request

VARIABLES
    begun,     \* begun[f]: the transaction f as it was begun, or None
    pending,   \* PendingAuthStore: the transactions that wait
    lapsed,    \* transactions and codes whose time is over
    cookie,    \* cookie[b]: the flow b's cookie names
    exchange,  \* callbacks that await the upstream exchange
    issued,    \* issued[c]: what the code c was issued for, or None
    codes,     \* the provider's codes not yet redeemed
    grant,     \* grant[g]: a request at the token endpoint
    refresh,   \* the provider's refresh tokens
    tokens,    \* history: the access tokens minted
    redeemed   \* history: redeemed[c]: how often c was exchanged

federatedVars == <<begun, pending, lapsed, cookie, exchange, issued, codes,
                   grant, refresh, tokens, redeemed>>

flowVars == <<begun, pending, cookie, exchange>>
tokenVars == <<grant, refresh, tokens, redeemed>>

AllScopes == Scopes \cup {Guest}

Begun == [by : Browsers, scopes : SUBSET Scopes]
Issued == [flow : Flows, to : Browsers, guest : BOOLEAN,
           scopes : SUBSET AllScopes]
Minted == [code : Codes, scopes : SUBSET AllScopes]
Idle == [phase |-> "idle", code |-> None, scopes |-> {}]

ASSUME FederatedAssumption ==
    /\ None \notin Flows \cup Codes \cup Begun \cup Issued
    /\ Guest \notin Scopes

FederatedInit ==
    /\ begun = [f \in Flows |-> None]
    /\ pending = {}
    /\ lapsed = {}
    /\ cookie = [b \in Browsers |-> None]
    /\ exchange = {}
    /\ issued = [c \in Codes |-> None]
    /\ codes = {}
    /\ grant = [g \in Grants |-> Idle]
    /\ refresh = {}
    /\ tokens = {}
    /\ redeemed = [c \in Codes |-> 0]

-----------------------------------------------------------------------------
\* PendingAuthStore.create, which sweeps what has lapsed.
Create(f) == pending' = (pending \ lapsed) \cup {f}

\* GET /authorize/branded with a registered redirect (any other is a 400 that
\* changes nothing): a new transaction, and the browser's cookie names it.
Branded(b, f) ==
    /\ begun[f] = None
    /\ \E asked \in SUBSET Scopes :
        begun' = [begun EXCEPT ![f] = [by |-> b, scopes |-> asked]]
    /\ Create(f)
    /\ cookie' = [cookie EXCEPT ![b] = f]
    /\ UNCHANGED <<lapsed, exchange, issued, codes, tokenVars>>

\* The time to live of a transaction or of a code runs out.
Lapse ==
    /\ \E x \in pending \cup codes : lapsed' = lapsed \cup {x}
    /\ UNCHANGED <<flowVars, issued, codes, tokenVars>>

\* peek(): a lapsed transaction is dropped and not found.
Peek(f) == pending' = IF f \in lapsed THEN pending \ {f} ELSE pending

\* GET /authorize/upstream, from anywhere: on to the identity provider.
Upstream(f) ==
    /\ f \in pending
    /\ Peek(f)
    /\ UNCHANGED <<begun, cookie, exchange, lapsed, issued, codes, tokenVars>>

\* take(): consumes the transaction whether it is found or has lapsed.
Take(f) == pending' = pending \ {f}

ClearCookie(b) == cookie' = [cookie EXCEPT ![b] = None]

\* The callback or the guest page with another cookie than f's, or for a
\* transaction that is not found: 400 and the cookie is cleared.
Refused(b, f) ==
    /\ begun[f] # None
    /\ \/ cookie[b] # f /\ UNCHANGED pending
       \/ cookie[b] = f /\ f \notin pending \ lapsed /\ Take(f)
    /\ ClearCookie(b)
    /\ UNCHANGED <<begun, exchange, lapsed, issued, codes, tokenVars>>

\* Mutant: the cookie is not compared.
CallbackFromAnywhere(b, f) ==
    /\ f \in pending \ lapsed
    /\ Take(f)
    /\ exchange' = exchange \cup {<<b, f>>}
    /\ UNCHANGED <<begun, cookie, lapsed, issued, codes, tokenVars>>

\* GET /authorize/callback up to the exchange with the identity provider.
Callback(b, f) ==
    /\ cookie[b] = f
    /\ f \in pending \ lapsed
    /\ Take(f)
    /\ exchange' = exchange \cup {<<b, f>>}
    /\ UNCHANGED <<begun, cookie, lapsed, issued, codes, tokenVars>>

\* A callback without an upstream code: the transaction is used up all the same.
CallbackEmpty(b, f) ==
    /\ cookie[b] = f
    /\ f \in pending \ lapsed
    /\ Take(f)
    /\ ClearCookie(b)
    /\ UNCHANGED <<begun, exchange, lapsed, issued, codes, tokenVars>>

\* issueCode(): a fresh code.
IssueCode(f, b, guest, scopes) ==
    \E c \in Codes :
        /\ issued[c] = None
        /\ issued' = [issued EXCEPT ![c] =
                        [flow |-> f, to |-> b, guest |-> guest,
                         scopes |-> scopes]]
        /\ codes' = codes \cup {c}

\* The identity provider vouches for b's user.  The response clears whatever
\* cookie the browser holds by then.
SignedIn(b, f) ==
    /\ <<b, f>> \in exchange
    /\ exchange' = exchange \ {<<b, f>>}
    /\ IssueCode(f, b, FALSE, begun[f].scopes)
    /\ ClearCookie(b)
    /\ UNCHANGED <<begun, pending, lapsed, tokenVars>>

\* It does not, or cannot be reached: 502, the cookie stays.
SignInFails(b, f) ==
    /\ <<b, f>> \in exchange
    /\ exchange' = exchange \ {<<b, f>>}
    /\ UNCHANGED <<begun, pending, cookie, lapsed, issued, codes, tokenVars>>

\* GET /authorize/guest: no round trip, a new subject, the guest scope only.
ContinueAsGuest(b, f) ==
    /\ cookie[b] = f
    /\ f \in pending \ lapsed
    /\ Take(f)
    /\ IssueCode(f, b, TRUE, {Guest})
    /\ ClearCookie(b)
    /\ UNCHANGED <<begun, exchange, lapsed, tokenVars>>

-----------------------------------------------------------------------------
\* POST /token with a code: the challenge of a known code is looked up (it is
\* not looked at whether the code has lapsed), and the SDK verifies it.
Challenge(g, c) ==
    /\ grant[g] = Idle
    /\ c \in codes
    /\ grant' = [grant EXCEPT ![g] = [phase |-> "code", code |-> c, scopes |-> {}]]
    /\ UNCHANGED <<flowVars, lapsed, issued, codes, refresh, tokens, redeemed>>

\* Mutant: the code is deleted with the answer, after the signature.
ExchangeCodeLate(g) ==
    /\ grant[g].phase = "code"
    /\ LET c == grant[g].code
       IN  /\ grant' = [grant EXCEPT ![g] =
                          IF c \in codes
                          THEN [phase |-> "signing", code |-> c,
                                scopes |-> issued[c].scopes]
                          ELSE Idle]
           /\ redeemed' = [redeemed EXCEPT ![c] = @ + IF c \in codes THEN 1 ELSE 0]
    /\ UNCHANGED <<flowVars, lapsed, issued, codes, refresh, tokens>>

\* exchangeAuthorizationCode() up to the signature: the code is used up before
\* its age and its redirect are looked at.
ExchangeCode(g) ==
    /\ grant[g].phase = "code"
    /\ LET c == grant[g].code
       IN  /\ codes' = codes \ {c}
           /\ \/ /\ c \in codes \ lapsed
                 /\ grant' = [grant EXCEPT ![g] =
                                [phase |-> "signing", code |-> c,
                                 scopes |-> issued[c].scopes]]
                 /\ redeemed' = [redeemed EXCEPT ![c] = @ + 1]
              \* Unknown by now, lapsed, or for another redirect.
              \/ /\ grant' = [grant EXCEPT ![g] = Idle]
                 /\ UNCHANGED redeemed
    /\ UNCHANGED <<flowVars, lapsed, issued, refresh, tokens>>

\* Mutant: a refresh is granted what it asks for.
NarrowedNot(held, asked) == asked

\* What a refresh is granted of what it asks for: all it held by default.
Narrowed(held, asked) == IF asked = {} THEN held ELSE asked \cap held

\* exchangeRefreshToken() up to the signature.  The token stays good.
ExchangeRefresh(g) ==
    /\ grant[g] = Idle
    /\ \E r \in refresh, asked \in SUBSET AllScopes :
        grant' = [grant EXCEPT ![g] =
                    [phase |-> "signing", code |-> r.code,
                     scopes |-> Narrowed(r.scopes, asked)]]
    /\ UNCHANGED <<flowVars, lapsed, issued, codes, refresh, tokens, redeemed>>

\* mintTokens() runs on: the access token is signed, and a refresh token kept
\* for the same subject and scopes.
Mint(g) ==
    /\ grant[g].phase = "signing"
    /\ LET t == [code |-> grant[g].code, scopes |-> grant[g].scopes]
       IN  /\ tokens' = tokens \cup {t}
           /\ refresh' = refresh \cup {t}
    /\ grant' = [grant EXCEPT ![g] = Idle]
    /\ UNCHANGED <<flowVars, lapsed, issued, codes, redeemed>>

\* POST /revoke of a refresh token, the last of those that say the same.
RevokeRefresh ==
    /\ \E r \in refresh : refresh' = refresh \ {r}
    /\ UNCHANGED <<flowVars, lapsed, issued, codes, grant, tokens, redeemed>>

\* The process restarts: only browsers and clients keep what they have.
AuthRestarts ==
    /\ pending' = {}
    /\ exchange' = {}
    /\ codes' = {}
    /\ grant' = [g \in Grants |-> Idle]
    /\ refresh' = {}
    /\ UNCHANGED <<begun, cookie, lapsed, issued, tokens, redeemed>>

FederatedNext ==
    \/ Lapse
    \/ RevokeRefresh
    \/ AuthRestarts
    \/ \E f \in Flows :
        \/ Upstream(f)
        \/ \E b \in Browsers :
            \/ Branded(b, f)
            \/ Refused(b, f)
            \/ Callback(b, f)
            \/ CallbackEmpty(b, f)
            \/ SignedIn(b, f)
            \/ SignInFails(b, f)
            \/ ContinueAsGuest(b, f)
    \/ \E g \in Grants :
        \/ ExchangeCode(g)
        \/ ExchangeRefresh(g)
        \/ Mint(g)
        \/ \E c \in Codes : Challenge(g, c)

FederatedSpec == FederatedInit /\ [][FederatedNext]_federatedVars

-----------------------------------------------------------------------------
\* Type invariant of the authorization server's state.
FederatedTypeOK ==
    /\ begun \in [Flows -> Begun \cup {None}]
    /\ pending \subseteq Flows
    /\ lapsed \subseteq Flows \cup Codes
    /\ cookie \in [Browsers -> Flows \cup {None}]
    /\ exchange \subseteq Browsers \X Flows
    /\ issued \in [Codes -> Issued \cup {None}]
    /\ codes \subseteq Codes
    /\ grant \in [Grants -> [phase : {"idle", "code", "signing"},
                             code : Codes \cup {None},
                             scopes : SUBSET AllScopes]]
    /\ refresh \subseteq Minted
    /\ tokens \subseteq Minted
    /\ redeemed \in [Codes -> Nat]

\* A transaction ends in one code at most, however its callback and its guest
\* page are reloaded, shared or overlap; the code goes to the browser that
\* began it; and it is redeemed at most once, whichever token requests overlap.
FlowYieldsOneGrant ==
    /\ \A c \in Codes : issued[c] # None =>
        /\ issued[c].to = begun[issued[c].flow].by
        /\ \A d \in Codes \ {c} :
            issued[d] # None => issued[d].flow # issued[c].flow
    /\ \A c \in Codes : redeemed[c] <= 1

\* No chain of refreshes gets a token a scope that the sign-in it goes back to
\* was not granted; a guest's token never carries any but the guest scope.
ScopesNeverWiden ==
    \A t \in tokens \cup refresh :
        /\ issued[t.code] # None
        /\ t.scopes \subseteq issued[t.code].scopes
        /\ issued[t.code].guest => t.scopes \subseteq {Guest}
=============================================================================
