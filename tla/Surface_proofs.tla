--------------------------- MODULE Surface_proofs ---------------------------
(***************************************************************************)
(* Proofs about what stands in front of a handler: both sides of           *)
(* authentication (FederatedAuth, AuthSessions), the token buckets of the  *)
(* GET transport (RateLimiter), the verifier of addresses (IpRanges) and   *)
(* the MCP middleware (McpMiddleware), for any numbers of browsers,        *)
(* transactions, codes, tokens, overlapping requests, keys and layers, for *)
(* every configuration, and for addresses of every width; and about all    *)
(* the parts of MCSurface beside each other.                               *)
(***************************************************************************)
EXTENDS MCSurface, Edges_proofs, Telemetry_proofs

(***************************************************************************)
(* The authorization server.  A transaction is in one stage at most: it    *)
(* waits, or its upstream code is being exchanged, or its code is issued.  *)
(***************************************************************************)

\* A cookie names a transaction that its own browser began.
CookiesBind ==
    \A b \in Browsers : cookie[b] # None =>
        begun[cookie[b]] # None /\ begun[cookie[b]].by = b

\* Only what was begun waits or is exchanged, in the browser that began it.
StagesApart ==
    /\ \A f \in pending : begun[f] # None
    /\ \A b \in Browsers, f \in Flows : <<b, f>> \in exchange =>
        /\ begun[f] # None
        /\ begun[f].by = b
        /\ f \notin pending

\* What a code was issued for is over, and was issued no other code.
IssuedOnce ==
    \A c \in Codes : issued[c] # None =>
        /\ begun[issued[c].flow] # None
        /\ issued[c].to = begun[issued[c].flow].by
        /\ issued[c].flow \notin pending
        /\ \A b \in Browsers : <<b, issued[c].flow>> \notin exchange
        /\ \A d \in Codes \ {c} :
            issued[d] # None => issued[d].flow # issued[c].flow
        /\ issued[c].guest => issued[c].scopes \subseteq {Guest}

\* A code that can be redeemed has not been, and no other will be twice.
RedeemedOnce ==
    \A c \in Codes :
        /\ redeemed[c] <= 1
        /\ c \in codes => issued[c] # None /\ redeemed[c] = 0
        /\ issued[c] = None => redeemed[c] = 0

\* S is within what the code c was issued for.
Within(c, S) == c \in Codes /\ issued[c] # None /\ S \subseteq issued[c].scopes

\* So are the scopes of all that is or will be signed.
AllWithin ==
    /\ \A t \in tokens \cup refresh : Within(t.code, t.scopes)
    /\ \A g \in Grants : grant[g].phase # "idle" =>
        Within(grant[g].code, grant[g].scopes)

FederatedInv ==
    /\ FederatedTypeOK
    /\ CookiesBind
    /\ StagesApart
    /\ IssuedOnce
    /\ RedeemedOnce
    /\ AllWithin

\* At first nothing has begun.
LEMMA FederatedInitial == FederatedInit => FederatedInv
BY FederatedAssumption
   DEF FederatedInit, FederatedInv, FederatedTypeOK, CookiesBind, StagesApart,
       IssuedOnce, RedeemedOnce, AllWithin, Idle

\* A step that takes a transaction out of the line and leaves the rest alone:
\* the reloads, the refusals, the pages that only look.
LEMMA LeavingKeeps ==
    ASSUME FederatedInv,
           pending' \subseteq pending,
           cookie' \in [Browsers -> Flows \cup {None}],
           \A b \in Browsers : cookie'[b] \in {cookie[b], None},
           exchange' \subseteq exchange,
           UNCHANGED <<begun, issued, tokenVars>>,
           lapsed' \subseteq Flows \cup Codes,
           codes' \subseteq codes
    PROVE  FederatedInv'
<1> USE DEF FederatedInv, tokenVars
<1>1. FederatedTypeOK'
  BY DEF FederatedTypeOK
<1>2. CookiesBind'
  BY DEF CookiesBind
<1>3. StagesApart'
  BY DEF StagesApart
<1>4. IssuedOnce'
  BY DEF IssuedOnce
<1>5. RedeemedOnce'
  BY DEF RedeemedOnce
<1>6. AllWithin'
  BY DEF AllWithin, Within
<1> QED BY <1>1, <1>2, <1>3, <1>4, <1>5, <1>6

\* A browser's new transaction is its own.
LEMMA BrandedKeeps ==
    ASSUME FederatedInv, NEW b \in Browsers, NEW f \in Flows, Branded(b, f)
    PROVE  FederatedInv'
<1>1. PICK wanted \in SUBSET Scopes :
        begun' = [begun EXCEPT ![f] = [by |-> b, scopes |-> wanted]]
  BY DEF Branded
<1>2. /\ begun[f] = None
      /\ pending' = (pending \ lapsed) \cup {f}
      /\ cookie' = [cookie EXCEPT ![b] = f]
      /\ UNCHANGED <<lapsed, exchange, issued, codes, grant, refresh, tokens, redeemed>>
  BY DEF Branded, Create, tokenVars
<1>3. [by |-> b, scopes |-> wanted] \in Begun /\ [by |-> b, scopes |-> wanted] # None
  BY FederatedAssumption DEF Begun
<1>4. begun \in [Flows -> Begun \cup {None}] /\ cookie \in [Browsers -> Flows \cup {None}]
  BY DEF FederatedInv, FederatedTypeOK
<1>5. begun' \in [Flows -> Begun \cup {None}] /\ begun'[f] # None /\ begun'[f].by = b
      /\ \A h \in Flows \ {f} : begun'[h] = begun[h]
  BY <1>1, <1>3, <1>4
<1>6. FederatedTypeOK'
  BY <1>2, <1>5 DEF FederatedInv, FederatedTypeOK
<1>7. CookiesBind'
  BY <1>2, <1>4, <1>5 DEF FederatedInv, CookiesBind
<1>8. StagesApart'
  BY <1>2, <1>5 DEF FederatedInv, FederatedTypeOK, StagesApart
<1>9. IssuedOnce'
  <2>1. \A c \in Codes : issued[c] # None =>
          issued[c].flow \in Flows /\ issued[c].flow # f
    BY <1>2, FederatedAssumption DEF FederatedInv, FederatedTypeOK, IssuedOnce, Issued
  <2> QED BY <1>2, <1>5, <2>1 DEF FederatedInv, IssuedOnce
<1>10. RedeemedOnce' /\ AllWithin'
  BY <1>2 DEF FederatedInv, RedeemedOnce, AllWithin, Within
<1> QED BY <1>6, <1>7, <1>8, <1>9, <1>10 DEF FederatedInv

\* Issuing a code for a transaction that has just left the line, or whose
\* exchange has just ended.
LEMMA IssuingKeeps ==
    ASSUME FederatedInv,
           NEW b \in Browsers, NEW f \in Flows, NEW guest \in BOOLEAN,
           NEW scopes \in SUBSET AllScopes,
           guest => scopes \subseteq {Guest},
           begun[f] # None, begun[f].by = b,
           \A c \in Codes : issued[c] # None => issued[c].flow # f,
           pending' \subseteq pending, f \notin pending',
           exchange' \subseteq exchange, <<b, f>> \notin exchange',
           IssueCode(f, b, guest, scopes), ClearCookie(b),
           UNCHANGED <<begun, lapsed, tokenVars>>
    PROVE  FederatedInv'
<1> DEFINE r == [flow |-> f, to |-> b, guest |-> guest, scopes |-> scopes]
<1>1. PICK c \in Codes :
        /\ issued[c] = None
        /\ issued' = [issued EXCEPT ![c] = r]
        /\ codes' = codes \cup {c}
  BY DEF IssueCode
<1>2. r \in Issued /\ r # None /\ r.flow = f /\ r.to = b /\ r.guest = guest
      /\ r.scopes = scopes
  BY FederatedAssumption DEF Issued
<1>3. issued' \in [Codes -> Issued \cup {None}] /\ issued'[c] = r
      /\ \A d \in Codes \ {c} : issued'[d] = issued[d]
  BY <1>1, <1>2 DEF FederatedInv, FederatedTypeOK
<1>4. /\ cookie' \in [Browsers -> Flows \cup {None}]
      /\ \A a \in Browsers : cookie'[a] \in {cookie[a], None}
  BY DEF ClearCookie, FederatedInv, FederatedTypeOK
<1> HIDE DEF r
<1>5. FederatedTypeOK'
  BY <1>1, <1>3, <1>4 DEF FederatedInv, FederatedTypeOK, tokenVars
<1>6. CookiesBind' /\ StagesApart'
  BY <1>4 DEF FederatedInv, CookiesBind, StagesApart
<1>7. IssuedOnce'
  <2> SUFFICES ASSUME NEW d \in Codes, issued'[d] # None
               PROVE  /\ begun'[issued'[d].flow] # None
                      /\ issued'[d].to = begun'[issued'[d].flow].by
                      /\ issued'[d].flow \notin pending'
                      /\ \A a \in Browsers : <<a, issued'[d].flow>> \notin exchange'
                      /\ \A e \in Codes \ {d} :
                          issued'[e] # None => issued'[e].flow # issued'[d].flow
                      /\ issued'[d].guest => issued'[d].scopes \subseteq {Guest}
    BY DEF IssuedOnce
  <2>1. CASE d = c
    <3>1. \A a \in Browsers : <<a, f>> \in exchange' => a = b
      BY DEF FederatedInv, StagesApart
    <3> QED BY <1>2, <1>3, <2>1, <3>1
  <2>2. CASE d # c
    BY <1>2, <1>3, <2>2 DEF FederatedInv, IssuedOnce
  <2> QED BY <2>1, <2>2
<1>8. RedeemedOnce'
  BY <1>1, <1>2, <1>3 DEF FederatedInv, RedeemedOnce, tokenVars
<1>9. AllWithin'
  BY <1>1, <1>3 DEF FederatedInv, AllWithin, Within, tokenVars
<1> QED BY <1>5, <1>6, <1>7, <1>8, <1>9 DEF FederatedInv

\* A step of the token endpoint: what it holds or mints stays within what its
\* code was issued for.
LEMMA TokenStepKeeps ==
    ASSUME FederatedInv,
           UNCHANGED <<flowVars, lapsed, issued>>,
           codes' \subseteq codes,
           grant' \in [Grants -> [phase : {"idle", "code", "signing"},
                                  code : Codes \cup {None},
                                  scopes : SUBSET AllScopes]],
           \A g \in Grants : grant'[g].phase # "idle" =>
               Within(grant'[g].code, grant'[g].scopes),
           refresh' \subseteq Minted, tokens' \subseteq Minted,
           \A t \in tokens' \cup refresh' : Within(t.code, t.scopes),
           redeemed' \in [Codes -> Nat],
           \A c \in Codes :
               \/ redeemed'[c] = redeemed[c]
               \/ c \in codes \ codes' /\ redeemed'[c] = redeemed[c] + 1
    PROVE  FederatedInv'
<1> USE DEF flowVars
<1>1. FederatedTypeOK'
  BY DEF FederatedInv, FederatedTypeOK
<1>2. CookiesBind' /\ StagesApart' /\ IssuedOnce'
  BY DEF FederatedInv, CookiesBind, StagesApart, IssuedOnce
<1>3. RedeemedOnce'
  BY DEF FederatedInv, FederatedTypeOK, RedeemedOnce
<1>4. AllWithin'
  BY DEF AllWithin, Within
<1> QED BY <1>1, <1>2, <1>3, <1>4 DEF FederatedInv

\* Every step of the authorization server keeps the invariant.
LEMMA FederatedStepKeeps ==
    ASSUME FederatedInv, FederatedNext
    PROVE  FederatedInv'
<1>1. CASE Lapse \/ \E f \in Flows : Upstream(f)
  <2>1. pending' \subseteq pending /\ lapsed' \subseteq Flows \cup Codes
        /\ UNCHANGED <<begun, cookie, exchange, issued, codes, tokenVars>>
    BY <1>1 DEF Lapse, Upstream, Peek, flowVars, FederatedInv, FederatedTypeOK
  <2> QED BY <2>1, LeavingKeeps DEF FederatedInv, FederatedTypeOK
<1>2. CASE \E b \in Browsers, f \in Flows : Refused(b, f) \/ CallbackEmpty(b, f)
                                            \/ SignInFails(b, f)
  <2>1. PICK b \in Browsers, f \in Flows : Refused(b, f) \/ CallbackEmpty(b, f)
                                           \/ SignInFails(b, f)
    BY <1>2
  <2>2. pending' \subseteq pending /\ exchange' \subseteq exchange
        /\ UNCHANGED <<begun, lapsed, issued, codes, tokenVars>>
        /\ (ClearCookie(b) \/ UNCHANGED cookie)
    BY <2>1 DEF Refused, CallbackEmpty, SignInFails, Take
  <2>3. cookie' \in [Browsers -> Flows \cup {None}]
        /\ \A a \in Browsers : cookie'[a] \in {cookie[a], None}
    BY <2>2 DEF ClearCookie, FederatedInv, FederatedTypeOK
  <2> QED BY <2>2, <2>3, LeavingKeeps DEF FederatedInv, FederatedTypeOK
<1>3. CASE \E b \in Browsers, f \in Flows : Branded(b, f)
  BY <1>3, BrandedKeeps
<1>4. ASSUME NEW b \in Browsers, NEW f \in Flows, Callback(b, f)
      PROVE  FederatedInv'
  <2>1. /\ cookie[b] = f /\ f \in pending
        /\ pending' = pending \ {f}
        /\ exchange' = exchange \cup {<<b, f>>}
        /\ UNCHANGED <<begun, cookie, lapsed, issued, codes, tokenVars>>
    BY <1>4 DEF Callback, Take
  <2>2. begun[f] # None /\ begun[f].by = b
    BY <2>1, FederatedAssumption DEF FederatedInv, CookiesBind
  <2>3. FederatedTypeOK' /\ CookiesBind' /\ RedeemedOnce' /\ AllWithin'
    BY <2>1 DEF FederatedInv, FederatedTypeOK, CookiesBind, RedeemedOnce, AllWithin,
                Within, tokenVars
  <2>4. StagesApart'
    BY <2>1, <2>2 DEF FederatedInv, StagesApart
  <2>5. IssuedOnce'
    BY <2>1 DEF FederatedInv, IssuedOnce
  <2> QED BY <2>3, <2>4, <2>5 DEF FederatedInv
<1>5. ASSUME NEW b \in Browsers, NEW f \in Flows, SignedIn(b, f)
      PROVE  FederatedInv'
  <2>1. /\ <<b, f>> \in exchange
        /\ exchange' = exchange \ {<<b, f>>}
        /\ IssueCode(f, b, FALSE, begun[f].scopes)
        /\ ClearCookie(b)
        /\ UNCHANGED <<begun, pending, lapsed, tokenVars>>
    BY <1>5 DEF SignedIn
  <2>2. begun[f] # None /\ begun[f].by = b /\ f \notin pending
        /\ begun[f].scopes \in SUBSET AllScopes
    BY <2>1 DEF FederatedInv, FederatedTypeOK, StagesApart, Begun, AllScopes
  <2>3. \A c \in Codes : issued[c] # None => issued[c].flow # f
    BY <2>1 DEF FederatedInv, IssuedOnce
  <2> QED BY <2>1, <2>2, <2>3, IssuingKeeps
<1>6. ASSUME NEW b \in Browsers, NEW f \in Flows, ContinueAsGuest(b, f)
      PROVE  FederatedInv'
  <2>1. /\ cookie[b] = f /\ f \in pending
        /\ pending' = pending \ {f}
        /\ IssueCode(f, b, TRUE, {Guest})
        /\ ClearCookie(b)
        /\ UNCHANGED <<begun, exchange, lapsed, tokenVars>>
    BY <1>6 DEF ContinueAsGuest, Take
  <2>2. begun[f] # None /\ begun[f].by = b /\ <<b, f>> \notin exchange
        /\ {Guest} \in SUBSET AllScopes
    BY <2>1, FederatedAssumption DEF FederatedInv, CookiesBind, StagesApart, AllScopes
  <2>3. \A c \in Codes : issued[c] # None => issued[c].flow # f
    BY <2>1 DEF FederatedInv, IssuedOnce
  <2> QED BY <2>1, <2>2, <2>3, IssuingKeeps
<1>7. CASE RevokeRefresh
  <2>1. refresh' \subseteq refresh
        /\ UNCHANGED <<flowVars, lapsed, issued, codes, grant, tokens, redeemed>>
    BY <1>7 DEF RevokeRefresh
  <2> QED BY <2>1, TokenStepKeeps DEF FederatedInv, FederatedTypeOK, AllWithin
<1>8. ASSUME NEW g \in Grants, NEW c \in Codes, Challenge(g, c)
      PROVE  FederatedInv'
  <2> DEFINE r == [phase |-> "code", code |-> c, scopes |-> {}]
  <2>1. /\ c \in codes
        /\ grant' = [grant EXCEPT ![g] = r]
        /\ UNCHANGED <<flowVars, lapsed, issued, codes, refresh, tokens, redeemed>>
    BY <1>8 DEF Challenge
  <2>2. r.phase = "code" /\ r.code = c /\ r.scopes = {}
        /\ r \in [phase : {"idle", "code", "signing"}, code : Codes \cup {None},
                  scopes : SUBSET AllScopes]
    OBVIOUS
  <2>3. Within(c, {})
    BY <2>1 DEF Within, FederatedInv, RedeemedOnce
  <2> HIDE DEF r
  <2>4. /\ grant' \in [Grants -> [phase : {"idle", "code", "signing"},
                                  code : Codes \cup {None},
                                  scopes : SUBSET AllScopes]]
        /\ \A h \in Grants : grant'[h].phase # "idle" =>
               Within(grant'[h].code, grant'[h].scopes)
    BY <2>1, <2>2, <2>3 DEF FederatedInv, FederatedTypeOK, AllWithin
  <2> QED BY <2>1, <2>4, TokenStepKeeps DEF FederatedInv, FederatedTypeOK, AllWithin
<1>9. ASSUME NEW g \in Grants, ExchangeCode(g)
      PROVE  FederatedInv'
  <2> DEFINE c == grant[g].code
             r == [phase |-> "signing", code |-> c, scopes |-> issued[c].scopes]
  <2>1. c \in Codes /\ issued[c] # None
    BY <1>9 DEF ExchangeCode, FederatedInv, AllWithin, Within
  <2>2. /\ codes' = codes \ {c}
        /\ UNCHANGED <<flowVars, lapsed, issued, refresh, tokens>>
        /\ \/ /\ c \in codes
              /\ grant' = [grant EXCEPT ![g] = r]
              /\ redeemed' = [redeemed EXCEPT ![c] = @ + 1]
           \/ grant' = [grant EXCEPT ![g] = Idle] /\ redeemed' = redeemed
    BY <1>9 DEF ExchangeCode
  <2>3. issued[c].scopes \in SUBSET AllScopes /\ Within(c, issued[c].scopes)
    BY <2>1 DEF FederatedInv, FederatedTypeOK, Issued, Within
  <2>4. /\ grant' \in [Grants -> [phase : {"idle", "code", "signing"},
                                  code : Codes \cup {None},
                                  scopes : SUBSET AllScopes]]
        /\ \A h \in Grants : grant'[h].phase # "idle" =>
               Within(grant'[h].code, grant'[h].scopes)
    BY <2>1, <2>2, <2>3 DEF FederatedInv, FederatedTypeOK, AllWithin, Idle
  <2>5. /\ redeemed' \in [Codes -> Nat]
        /\ \A d \in Codes :
               \/ redeemed'[d] = redeemed[d]
               \/ d \in codes \ codes' /\ redeemed'[d] = redeemed[d] + 1
    BY <2>1, <2>2 DEF FederatedInv, FederatedTypeOK
  <2> HIDE DEF c, r
  <2> QED BY <2>2, <2>4, <2>5, TokenStepKeeps DEF FederatedInv, FederatedTypeOK, AllWithin
<1>10. ASSUME NEW g \in Grants, ExchangeRefresh(g)
       PROVE  FederatedInv'
  <2>1. PICK t \in refresh, wanted \in SUBSET AllScopes :
          grant' = [grant EXCEPT ![g] =
                      [phase |-> "signing", code |-> t.code,
                       scopes |-> Narrowed(t.scopes, wanted)]]
    BY <1>10 DEF ExchangeRefresh
  <2>2. UNCHANGED <<flowVars, lapsed, issued, codes, refresh, tokens, redeemed>>
    BY <1>10 DEF ExchangeRefresh
  <2>3. t.code \in Codes /\ Within(t.code, Narrowed(t.scopes, wanted))
        /\ Narrowed(t.scopes, wanted) \in SUBSET AllScopes
    BY DEF FederatedInv, FederatedTypeOK, AllWithin, Within, Minted, Narrowed
  <2>4. /\ grant' \in [Grants -> [phase : {"idle", "code", "signing"},
                                  code : Codes \cup {None},
                                  scopes : SUBSET AllScopes]]
        /\ \A h \in Grants : grant'[h].phase # "idle" =>
               Within(grant'[h].code, grant'[h].scopes)
    BY <2>1, <2>3 DEF FederatedInv, FederatedTypeOK, AllWithin
  <2> QED BY <2>2, <2>4, TokenStepKeeps DEF FederatedInv, FederatedTypeOK, AllWithin
<1>11. ASSUME NEW g \in Grants, Mint(g)
       PROVE  FederatedInv'
  <2> DEFINE t == [code |-> grant[g].code, scopes |-> grant[g].scopes]
  <2>1. /\ grant[g].phase = "signing"
        /\ tokens' = tokens \cup {t} /\ refresh' = refresh \cup {t}
        /\ grant' = [grant EXCEPT ![g] = Idle]
        /\ UNCHANGED <<flowVars, lapsed, issued, codes, redeemed>>
    BY <1>11 DEF Mint
  <2>2. t \in Minted /\ Within(t.code, t.scopes)
    BY <2>1 DEF FederatedInv, FederatedTypeOK, AllWithin, Within, Minted
  <2> HIDE DEF t
  <2>3. /\ grant' \in [Grants -> [phase : {"idle", "code", "signing"},
                                  code : Codes \cup {None},
                                  scopes : SUBSET AllScopes]]
        /\ \A h \in Grants : grant'[h].phase # "idle" =>
               Within(grant'[h].code, grant'[h].scopes)
    BY <2>1 DEF FederatedInv, FederatedTypeOK, AllWithin, Idle
  <2>4. /\ refresh' \subseteq Minted /\ tokens' \subseteq Minted
        /\ \A s \in tokens' \cup refresh' : Within(s.code, s.scopes)
    BY <2>1, <2>2 DEF FederatedInv, FederatedTypeOK, AllWithin
  <2> QED BY <2>1, <2>3, <2>4, TokenStepKeeps DEF FederatedInv, FederatedTypeOK
<1>12. CASE AuthRestarts
  <2>1. /\ pending' = {} /\ exchange' = {} /\ codes' = {} /\ refresh' = {}
        /\ grant' = [g \in Grants |-> Idle]
        /\ UNCHANGED <<begun, cookie, lapsed, issued, tokens, redeemed>>
    BY <1>12 DEF AuthRestarts
  <2>2. FederatedTypeOK'
    BY <2>1 DEF FederatedInv, FederatedTypeOK, Idle
  <2>3. CookiesBind' /\ StagesApart' /\ IssuedOnce' /\ RedeemedOnce'
    BY <2>1 DEF FederatedInv, CookiesBind, StagesApart, IssuedOnce, RedeemedOnce
  <2>4. AllWithin'
    BY <2>1 DEF FederatedInv, AllWithin, Within, Idle
  <2> QED BY <2>2, <2>3, <2>4 DEF FederatedInv
<1> QED BY <1>1, <1>2, <1>3, <1>4, <1>5, <1>6, <1>7, <1>8, <1>9, <1>10, <1>11, <1>12
        DEF FederatedNext

\* And so does a step in which nothing happens.
LEMMA FederatedStutters ==
    ASSUME FederatedInv, UNCHANGED federatedVars
    PROVE  FederatedInv'
BY DEF FederatedInv, FederatedTypeOK, CookiesBind, StagesApart, IssuedOnce,
       RedeemedOnce, AllWithin, Within, federatedVars

\* The authorization server keeps its stages apart.
THEOREM StagesHold == FederatedSpec => []FederatedInv
<1>1. FederatedInit => FederatedInv
  BY FederatedInitial
<1>2. FederatedInv /\ [FederatedNext]_federatedVars => FederatedInv'
  BY FederatedStepKeeps, FederatedStutters
<1> QED BY <1>1, <1>2, PTL DEF FederatedSpec

\* A transaction yields one code at most, for the browser that began it, and a
\* code one token at most, however many callbacks, pages and token requests
\* overlap (router.get callback, exchangeAuthorizationCode).
THEOREM FlowsYieldOneGrant == FederatedSpec => []FlowYieldsOneGrant
<1>1. FederatedInv => FlowYieldsOneGrant
  BY DEF FederatedInv, IssuedOnce, RedeemedOnce, FlowYieldsOneGrant
<1> QED BY <1>1, StagesHold, PTL

\* However long the chain of refreshes, a token's scopes are within those of the
\* sign-in it goes back to (exchangeRefreshToken, mintTokens).
THEOREM ScopesStayNarrow == FederatedSpec => []ScopesNeverWiden
<1>1. FederatedInv => ScopesNeverWiden
  BY DEF FederatedInv, IssuedOnce, AllWithin, Within, ScopesNeverWiden
<1> QED BY <1>1, StagesHold, PTL

(***************************************************************************)
(* The verifiers and the API that revokes.                                 *)
(***************************************************************************)

CallRecord == [phase : {"idle", "verify", "user", "session"},
               token : Tokens \cup {Nobody}, stale : BOOLEAN]
AdminRecord == [phase : {"idle", "delete", "deny", "list", "rows", "user"},
                token : Tokens \cup {Nobody}, user : Users \cup {Nobody},
                found : SUBSET Tokens]

\* A busy request has a token, a busy deletion its session or its user.
Addressed ==
    /\ \A q \in Calls : call[q].phase # "idle" => call[q].token \in Tokens
    /\ \A a \in Admins :
        /\ admin[a].phase \in {"list", "rows", "user"} => admin[a].user \in Users
        /\ admin[a].phase \in {"delete", "deny"} => admin[a].token \in Tokens

\* t is of no more use, or was recorded behind the back of a deletion.
Spent(t) == t \in denied \/ life[t] = "expired"

\* What was denylisted stays so for as long as it matters, and no request is
\* about to be let through with it.
DenialsStand ==
    /\ \A t \in revoked : Spent(t)
    /\ \A q \in Calls :
        call[q].phase = "verify" /\ call[q].token \in revoked =>
            call[q].stale \/ life[call[q].token] = "expired"

\* The request is too old to vouch for its user, or the user is there.
SessionsFollowUsers ==
    \A q \in Calls : call[q].phase = "session" =>
        call[q].stale \/ SubjectOf[call[q].token] \in users

\* How far the deletion a has got with the rows of its user.
Progress(a) ==
    \A t \in sessions : SubjectOf[t] = admin[a].user =>
        /\ admin[a].phase = "list" => t \in admin[a].found \/ Spent(t) \/ t \in late
        /\ admin[a].phase = "rows" => Spent(t) \/ t \in late
        /\ admin[a].phase = "user" => t \in late

SessionsInv ==
    /\ SessionsTypeOK
    /\ Addressed
    /\ DenialsStand
    /\ RevokedRefused
    /\ SessionsFollowUsers
    /\ \A a \in Admins : Progress(a)
    /\ CascadeRevokes
    /\ RowsHaveUsers

\* At first no request is under way.
LEMMA SessionsInitial == SessionsInit => SessionsInv
BY SessionsAssumption
   DEF SessionsInit, SessionsInv, SessionsTypeOK, Addressed, DenialsStand,
       RevokedRefused, SessionsFollowUsers, Progress, CascadeRevokes,
       RowsHaveUsers, IdleCall, IdleAdmin

\* A step that only makes tokens older, evicts what has expired and ends
\* requests or deletions.
LEMMA EndingKeeps ==
    ASSUME SessionsInv,
           SessionsTypeOK',
           \A t \in Tokens : life[t] = "expired" => life'[t] = "expired",
           \A t \in denied : t \in denied' \/ life[t] = "expired",
           \A q \in Calls : call'[q] \in {call[q], IdleCall},
           \A a \in Admins : admin'[a] \in {admin[a], IdleAdmin},
           UNCHANGED <<users, sessions, revoked, dropped, late>>
    PROVE  SessionsInv'
<1>1. \A t \in Tokens : Spent(t) => Spent(t)'
  BY DEF Spent, SessionsInv, SessionsTypeOK
<1>2. Addressed'
  BY DEF SessionsInv, Addressed, IdleCall, IdleAdmin
<1>3. DenialsStand'
  BY <1>1 DEF SessionsInv, SessionsTypeOK, DenialsStand, Addressed, IdleCall
<1>4. RevokedRefused' /\ SessionsFollowUsers'
  BY DEF SessionsInv, RevokedRefused, SessionsFollowUsers, IdleCall
<1>5. \A a \in Admins : Progress(a)'
  BY <1>1 DEF SessionsInv, SessionsTypeOK, Progress, IdleAdmin
<1>6. CascadeRevokes'
  BY <1>1 DEF SessionsInv, SessionsTypeOK, CascadeRevokes, Spent
<1>7. RowsHaveUsers'
  BY DEF SessionsInv, RowsHaveUsers
<1> QED BY <1>2, <1>3, <1>4, <1>5, <1>6, <1>7 DEF SessionsInv

\* A request that moves on, and neither becomes fresher nor changes its token.
LEMMA MovingKeeps ==
    ASSUME SessionsInv,
           SessionsTypeOK',
           NEW q \in Calls, call[q].phase \in {"verify", "user"},
           call'[q].token = call[q].token, call'[q].stale = call[q].stale,
           call'[q].phase \in {"user", "session"},
           \A p \in Calls \ {q} : call'[p] = call[p],
           call[q].phase = "verify" => life[call[q].token] = "live",
           users \subseteq users',
           call'[q].phase = "session" => SubjectOf[call[q].token] \in users',
           UNCHANGED <<life, denied, sessions, admin, revoked, dropped, late>>
    PROVE  SessionsInv'
<1>1. Addressed'
  BY DEF SessionsInv, Addressed
<1>2. DenialsStand' /\ CascadeRevokes' /\ RowsHaveUsers' /\ \A a \in Admins : Progress(a)'
  BY DEF SessionsInv, DenialsStand, CascadeRevokes, RowsHaveUsers, Progress, Spent
<1>3. RevokedRefused'
  <2> SUFFICES ASSUME NEW p \in Calls, call'[p].phase \in {"user", "session"},
                      call'[p].token \in revoked'
               PROVE  call'[p].stale
    BY DEF RevokedRefused
  <2>1. CASE p = q
    BY <2>1 DEF SessionsInv, RevokedRefused, DenialsStand
  <2>2. CASE p # q
    BY <2>2 DEF SessionsInv, RevokedRefused
  <2> QED BY <2>1, <2>2
<1>4. SessionsFollowUsers'
  BY DEF SessionsInv, SessionsFollowUsers
<1> QED BY <1>1, <1>2, <1>3, <1>4 DEF SessionsInv

\* The tokens of ts are denylisted, in the name of the deletion a.
LEMMA DenyingKeeps ==
    ASSUME SessionsInv,
           SessionsTypeOK',
           NEW a \in Admins, NEW ts \in SUBSET Tokens,
           ts = admin[a].found,
           denied' = denied \cup ts, revoked' = revoked \cup ts,
           \A q \in Calls :
               /\ call[q].token \in ts =>
                    /\ call'[q].stale
                    /\ call'[q].phase = call[q].phase
                    /\ call'[q].token = call[q].token
               /\ call[q].token \notin ts => call'[q] = call[q],
           \A e \in Admins \ {a} : admin'[e] = admin[e],
           \/ admin'[a] = IdleAdmin
           \/ /\ admin[a].phase = "list" /\ admin'[a].phase = "rows"
              /\ admin'[a].user = admin[a].user,
           UNCHANGED <<life, users, sessions, dropped, late>>
    PROVE  SessionsInv'
<1>1. \A t \in Tokens : (Spent(t) => Spent(t)') /\ (t \in ts => Spent(t)')
  BY DEF Spent
<1>2. Addressed'
  BY DEF SessionsInv, Addressed, IdleAdmin
<1>3. DenialsStand'
  BY <1>1 DEF SessionsInv, SessionsTypeOK, DenialsStand
<1>4. RevokedRefused'
  BY DEF SessionsInv, RevokedRefused
<1>5. SessionsFollowUsers'
  BY DEF SessionsInv, SessionsFollowUsers
<1>6. \A e \in Admins : Progress(e)'
  BY <1>1 DEF SessionsInv, SessionsTypeOK, Progress, IdleAdmin
<1>7. CascadeRevokes' /\ RowsHaveUsers'
  BY DEF SessionsInv, CascadeRevokes, RowsHaveUsers
<1> QED BY <1>2, <1>3, <1>4, <1>5, <1>6, <1>7 DEF SessionsInv

\* What Overtaken says of each request.
LEMMA OvertakenCalls ==
    ASSUME SessionsTypeOK, NEW ts, Overtaken(ts)
    PROVE  /\ call' \in [Calls -> CallRecord]
           /\ \A q \in Calls :
               /\ call[q].token \in ts =>
                    /\ call'[q].stale
                    /\ call'[q].phase = call[q].phase
                    /\ call'[q].token = call[q].token
               /\ call[q].token \notin ts => call'[q] = call[q]
<1> SUFFICES ASSUME NEW q \in Calls
             PROVE  /\ call'[q] \in CallRecord
                    /\ call[q].token \in ts =>
                         /\ call'[q].stale
                         /\ call'[q].phase = call[q].phase
                         /\ call'[q].token = call[q].token
                    /\ call[q].token \notin ts => call'[q] = call[q]
  BY DEF Overtaken
<1>1. call[q] \in CallRecord
  BY DEF SessionsTypeOK, CallRecord
<1>2. CASE call[q].token \in ts
  <2>1. call'[q] = [call[q] EXCEPT !.stale = TRUE]
    BY <1>2 DEF Overtaken
  <2> QED BY <1>1, <1>2, <2>1 DEF CallRecord
<1>3. CASE call[q].token \notin ts
  BY <1>1, <1>3 DEF Overtaken
<1> QED BY <1>2, <1>3

\* A token is looked up in the denylist before anything is verified.
LEMMA VerifyTokenKeeps ==
    ASSUME SessionsInv, NEW q \in Calls, NEW t \in Tokens, VerifyToken(q, t)
    PROVE  SessionsInv'
<1> DEFINE r == [phase |-> "verify", token |-> t, stale |-> FALSE]
<1>1. /\ call[q] = IdleCall
      /\ \A u \in denied : u \in denied' \/ life[u] = "expired"
      /\ denied' \subseteq denied
      /\ UNCHANGED <<life, users, sessions, admin, revoked, dropped, late>>
      /\ \/ call' = call
         \/ t \notin denied' /\ call' = [call EXCEPT ![q] = r]
  BY DEF VerifyToken, Evict
<1>2. CASE call' = call
  <2>1. SessionsTypeOK'
    BY <1>1, <1>2 DEF SessionsInv, SessionsTypeOK
  <2> QED BY <1>1, <1>2, <2>1, EndingKeeps
<1>3. CASE t \notin denied' /\ call' = [call EXCEPT ![q] = r]
  <2>1. r.phase = "verify" /\ r.token = t
        /\ r \in CallRecord
    BY DEF CallRecord
  <2> HIDE DEF r
  <2>2. SessionsTypeOK'
    BY <1>1, <1>3, <2>1 DEF SessionsInv, SessionsTypeOK, CallRecord
  <2>3. \A u \in Tokens : Spent(u) => Spent(u)'
    BY <1>1 DEF Spent
  <2>4. call'[q] = r /\ \A p \in Calls \ {q} : call'[p] = call[p]
    BY <1>3 DEF SessionsInv, SessionsTypeOK
  <2>5. Addressed'
    BY <1>1, <2>1, <2>4 DEF SessionsInv, Addressed
  <2>6. DenialsStand'
    <3>1. \A u \in revoked' : Spent(u)'
      BY <1>1, <2>3 DEF SessionsInv, SessionsTypeOK, DenialsStand
    <3>2. t \in revoked' => life'[t] = "expired"
      BY <1>3, <3>1 DEF Spent
    <3> QED BY <1>1, <2>1, <2>4, <3>1, <3>2 DEF SessionsInv, DenialsStand
  <2>7. RevokedRefused' /\ SessionsFollowUsers'
    BY <1>1, <2>1, <2>4 DEF SessionsInv, RevokedRefused, SessionsFollowUsers
  <2>8. \A a \in Admins : Progress(a)'
    BY <1>1, <2>3 DEF SessionsInv, SessionsTypeOK, Progress
  <2>9. CascadeRevokes' /\ RowsHaveUsers'
    BY <1>1, <2>3 DEF SessionsInv, SessionsTypeOK, CascadeRevokes, RowsHaveUsers, Spent
  <2> QED BY <2>2, <2>5, <2>6, <2>7, <2>8, <2>9 DEF SessionsInv
<1> QED BY <1>1, <1>2, <1>3

\* The session that a request goes on in is recorded.
LEMMA RecordSessionKeeps ==
    ASSUME SessionsInv, NEW q \in Calls, RecordSession(q)
    PROVE  SessionsInv'
<1> DEFINE t == call[q].token
<1>1. call[q].phase = "session" /\ t \in Tokens
  BY DEF RecordSession, SessionsInv, Addressed
<1>2. /\ sessions' = sessions \cup {t}
      /\ dropped' = dropped \ {t}
      /\ late' = IF t \in sessions THEN late
                 ELSE IF call[q].stale \/ Deleting(SubjectOf[t])
                      THEN late \cup {t} ELSE late \ {t}
      /\ call' = [call EXCEPT ![q] = IdleCall]
      /\ UNCHANGED <<life, denied, users, admin, revoked>>
  BY DEF RecordSession
<1>3. call'[q] = IdleCall /\ \A p \in Calls \ {q} : call'[p] = call[p]
  BY <1>2 DEF SessionsInv, SessionsTypeOK
<1>4. \A s \in late : s \in late' \/ (s = t /\ t \notin sessions)
  BY <1>2
<1>5. t \notin sessions /\ Deleting(SubjectOf[t]) => t \in late'
  BY <1>2
<1>6. t \notin sessions => SubjectOf[t] \in users \/ t \in late'
  BY <1>1, <1>2 DEF SessionsInv, SessionsFollowUsers
<1>7. SessionsTypeOK'
  BY <1>1, <1>2 DEF SessionsInv, SessionsTypeOK, IdleCall
<1> HIDE DEF t
<1>8. Addressed' /\ DenialsStand' /\ RevokedRefused' /\ SessionsFollowUsers'
  BY <1>2, <1>3 DEF SessionsInv, Addressed, DenialsStand, RevokedRefused,
                    SessionsFollowUsers, Spent, IdleCall
<1>9. ASSUME NEW a \in Admins
      PROVE  Progress(a)'
  <2> SUFFICES ASSUME NEW s \in sessions', SubjectOf[s] = admin[a].user
               PROVE  /\ admin[a].phase = "list" =>
                           s \in admin[a].found \/ Spent(s) \/ s \in late'
                      /\ admin[a].phase = "rows" => Spent(s) \/ s \in late'
                      /\ admin[a].phase = "user" => s \in late'
    BY <1>2 DEF Progress, Spent
  <2>1. CASE s \in sessions
    BY <1>4, <2>1 DEF SessionsInv, Progress
  <2>2. CASE s \notin sessions
    <3>1. s = t
      BY <1>2, <2>2
    <3>2. Deleting(SubjectOf[t])
      BY <3>1 DEF Deleting
    <3> QED BY <1>5, <2>2, <3>1, <3>2
  <2> QED BY <2>1, <2>2
<1>10. CascadeRevokes'
  BY <1>2, <1>4 DEF SessionsInv, CascadeRevokes
<1>11. RowsHaveUsers'
  BY <1>2, <1>4, <1>6 DEF SessionsInv, RowsHaveUsers
<1> QED BY <1>7, <1>8, <1>9, <1>10, <1>11 DEF SessionsInv

\* A deletion reads what it is about: of one session, or of one user.
LEMMA ReadingKeeps ==
    ASSUME SessionsInv,
           SessionsTypeOK',
           NEW a \in Admins,
           \/ admin'[a].phase = "delete" /\ admin'[a].token \in Tokens
              /\ admin'[a].user = Nobody
           \/ admin'[a].phase = "list" /\ admin'[a].user \in Users
              /\ admin'[a].found = sessions \cap OwnedBy(admin'[a].user),
           \A e \in Admins \ {a} : admin'[e] = admin[e],
           UNCHANGED <<life, denied, users, sessions, call, revoked, dropped, late>>
    PROVE  SessionsInv'
<1>1. Addressed'
  BY DEF SessionsInv, Addressed
<1>2. DenialsStand' /\ RevokedRefused' /\ SessionsFollowUsers' /\ CascadeRevokes'
      /\ RowsHaveUsers'
  BY DEF SessionsInv, DenialsStand, RevokedRefused, SessionsFollowUsers,
         CascadeRevokes, RowsHaveUsers, Spent
<1>3. \A e \in Admins : Progress(e)'
  BY DEF SessionsInv, SessionsTypeOK, Progress, Spent, OwnedBy
<1> QED BY <1>1, <1>2, <1>3 DEF SessionsInv

\* A deletion takes rows away.
LEMMA RemovingKeeps ==
    ASSUME SessionsInv,
           SessionsTypeOK',
           NEW a \in Admins,
           sessions' \subseteq sessions,
           \A e \in Admins \ {a} : admin'[e] = admin[e],
           \/ admin'[a].phase = "deny" /\ admin'[a].token \in Tokens
           \/ /\ admin'[a].phase = "user" /\ admin'[a].user \in Users
              /\ sessions' \cap OwnedBy(admin'[a].user) = {},
           \A t \in dropped' : t \in dropped \/ Spent(t) \/ t \in late,
           UNCHANGED <<life, denied, users, call, revoked, late>>
    PROVE  SessionsInv'
<1>1. Addressed'
  BY DEF SessionsInv, Addressed
<1>2. DenialsStand' /\ RevokedRefused' /\ SessionsFollowUsers' /\ RowsHaveUsers'
  BY DEF SessionsInv, DenialsStand, RevokedRefused, SessionsFollowUsers,
         RowsHaveUsers, Spent
<1>3. CascadeRevokes'
  BY DEF SessionsInv, CascadeRevokes, Spent
<1>4. \A e \in Admins : Progress(e)'
  BY DEF SessionsInv, SessionsTypeOK, Progress, Spent, OwnedBy
<1> QED BY <1>1, <1>2, <1>3, <1>4 DEF SessionsInv

\* The last step of a deletion takes the user away.
LEMMA DropUserKeeps ==
    ASSUME SessionsInv, NEW a \in Admins, DropUser(a)
    PROVE  SessionsInv'
<1> DEFINE u == admin[a].user
<1>1. /\ admin[a].phase = "user"
      /\ users' = users \ {u}
      /\ Overtaken(OwnedBy(u))
      /\ admin' = [admin EXCEPT ![a] = IdleAdmin]
      /\ UNCHANGED <<life, denied, sessions, revoked, dropped, late>>
  BY DEF DropUser
<1>2. u \in Users
  BY <1>1 DEF SessionsInv, Addressed
<1>3. admin'[a] = IdleAdmin /\ \A e \in Admins \ {a} : admin'[e] = admin[e]
  BY <1>1 DEF SessionsInv, SessionsTypeOK
<1>4. \A q \in Calls :
        /\ call'[q].phase = call[q].phase /\ call'[q].token = call[q].token
        /\ call[q].stale => call'[q].stale
        /\ call[q].token \in OwnedBy(u) => call'[q].stale
  BY <1>1, OvertakenCalls DEF SessionsInv
<1>5. SessionsTypeOK'
  <2>1. call' \in [Calls -> CallRecord]
    BY <1>1, OvertakenCalls DEF SessionsInv
  <2> QED BY <1>1, <2>1 DEF SessionsInv, SessionsTypeOK, IdleAdmin, CallRecord
<1>6. Addressed' /\ DenialsStand' /\ RevokedRefused' /\ CascadeRevokes'
  BY <1>1, <1>3, <1>4 DEF SessionsInv, Addressed, DenialsStand, RevokedRefused,
                          CascadeRevokes, Spent, IdleAdmin
<1>7. SessionsFollowUsers'
  BY <1>1, <1>4 DEF SessionsInv, Addressed, SessionsFollowUsers, OwnedBy
<1>8. \A e \in Admins : Progress(e)'
  BY <1>1, <1>3, SessionsAssumption
     DEF SessionsInv, SessionsTypeOK, Progress, Spent, IdleAdmin
<1>9. RowsHaveUsers'
  BY <1>1 DEF SessionsInv, Progress, RowsHaveUsers
<1> QED BY <1>5, <1>6, <1>7, <1>8, <1>9 DEF SessionsInv

\* Every step of the verifiers and of the API keeps the invariant.
LEMMA SessionsStepKeeps ==
    ASSUME SessionsInv, SessionsNext
    PROVE  SessionsInv'
<1> USE SessionsAssumption
<1>1. ASSUME NEW t \in Tokens, MintToken(t) \/ ExpireToken(t)
      PROVE  SessionsInv'
  <2>1. /\ SessionsTypeOK'
        /\ \A s \in Tokens : life[s] = "expired" => life'[s] = "expired"
        /\ UNCHANGED <<denied, users, sessions, call, admin, revoked, dropped, late>>
    BY <1>1 DEF MintToken, ExpireToken, SessionsInv, SessionsTypeOK
  <2> QED BY <2>1, EndingKeeps
<1>2. ASSUME NEW q \in Calls, NEW t \in Tokens, VerifyToken(q, t)
      PROVE  SessionsInv'
  BY <1>2, VerifyTokenKeeps
<1>3. ASSUME NEW q \in Calls, Verified(q)
      PROVE  SessionsInv'
  <2>1. /\ call[q].phase = "verify" /\ call[q].token \in Tokens
        /\ call' = IF life[call[q].token] = "live"
                   THEN [call EXCEPT ![q].phase = "user"]
                   ELSE [call EXCEPT ![q] = IdleCall]
        /\ UNCHANGED <<life, denied, users, sessions, admin, revoked, dropped, late>>
    BY <1>3 DEF Verified, SessionsInv, Addressed
  <2>2. SessionsTypeOK'
    BY <2>1 DEF SessionsInv, SessionsTypeOK, IdleCall
  <2>3. CASE life[call[q].token] = "live"
    <3>1. call'[q].phase = "user" /\ call'[q].token = call[q].token
          /\ call'[q].stale = call[q].stale
          /\ \A p \in Calls \ {q} : call'[p] = call[p]
      BY <2>1, <2>3 DEF SessionsInv, SessionsTypeOK
    <3> QED BY <2>1, <2>2, <2>3, <3>1, MovingKeeps
  <2>4. CASE life[call[q].token] # "live"
    <3>1. \A p \in Calls : call'[p] \in {call[p], IdleCall}
      BY <2>1, <2>4 DEF SessionsInv, SessionsTypeOK
    <3> QED BY <2>1, <2>2, <3>1, EndingKeeps
  <2> QED BY <2>3, <2>4
<1>4. ASSUME NEW q \in Calls, UpsertUser(q)
      PROVE  SessionsInv'
  <2>1. /\ call[q].phase = "user" /\ call[q].token \in Tokens
        /\ users' = users \cup {SubjectOf[call[q].token]}
        /\ call' = [call EXCEPT ![q].phase = "session"]
        /\ UNCHANGED <<life, denied, sessions, admin, revoked, dropped, late>>
    BY <1>4 DEF UpsertUser, SessionsInv, Addressed
  <2>2. SessionsTypeOK'
    BY <2>1 DEF SessionsInv, SessionsTypeOK
  <2>3. call'[q].phase = "session" /\ call'[q].token = call[q].token
        /\ call'[q].stale = call[q].stale
        /\ \A p \in Calls \ {q} : call'[p] = call[p]
    BY <2>1 DEF SessionsInv, SessionsTypeOK
  <2> QED BY <2>1, <2>2, <2>3, MovingKeeps
<1>5. ASSUME NEW q \in Calls, RecordSession(q)
      PROVE  SessionsInv'
  BY <1>5, RecordSessionKeeps
<1>6. CASE (\E q \in Calls : PersistFails(q)) \/ \E a \in Admins : ApiFails(a)
  <2>1. /\ \A q \in Calls : call'[q] \in {call[q], IdleCall}
        /\ \A a \in Admins : admin'[a] \in {admin[a], IdleAdmin}
        /\ UNCHANGED <<life, denied, users, sessions, revoked, dropped, late>>
    BY <1>6 DEF PersistFails, ApiFails, SessionsInv, SessionsTypeOK
  <2>2. SessionsTypeOK'
    <3>1. /\ call \in [Calls -> CallRecord] /\ IdleCall \in CallRecord
          /\ admin \in [Admins -> AdminRecord] /\ IdleAdmin \in AdminRecord
      BY DEF SessionsInv, SessionsTypeOK, CallRecord, AdminRecord, IdleCall, IdleAdmin
    <3>2. call' \in [Calls -> CallRecord] /\ admin' \in [Admins -> AdminRecord]
      BY <1>6, <3>1 DEF PersistFails, ApiFails
    <3> QED BY <2>1, <3>2 DEF SessionsInv, SessionsTypeOK, CallRecord, AdminRecord
  <2> QED BY <2>1, <2>2, EndingKeeps
<1>7. ASSUME NEW a \in Admins, NEW t \in Tokens, LookUpSession(a, t)
      PROVE  SessionsInv'
  <2> DEFINE r == [phase |-> "delete", token |-> t, user |-> Nobody,
                   found |-> sessions \cap {t}]
  <2>1. admin' = [admin EXCEPT ![a] = r]
        /\ UNCHANGED <<life, denied, users, sessions, call, revoked, dropped, late>>
    BY <1>7 DEF LookUpSession
  <2>2. admin'[a] = r /\ \A e \in Admins \ {a} : admin'[e] = admin[e]
    BY <2>1 DEF SessionsInv, SessionsTypeOK
  <2>3. SessionsTypeOK'
    <3>1. r \in AdminRecord
      BY DEF AdminRecord, SessionsInv, SessionsTypeOK
    <3> HIDE DEF r
    <3>2. admin' \in [Admins -> AdminRecord]
      <4>1. admin \in [Admins -> AdminRecord]
        BY DEF SessionsInv, SessionsTypeOK, AdminRecord
      <4> QED BY <2>1, <3>1, <4>1
    <3> QED BY <2>1, <3>2 DEF SessionsInv, SessionsTypeOK, AdminRecord
  <2> QED BY <2>1, <2>2, <2>3, ReadingKeeps
<1>8. ASSUME NEW a \in Admins, NEW u \in Users, ListSessions(a, u)
      PROVE  SessionsInv'
  <2> DEFINE r == [phase |-> "list", token |-> Nobody, user |-> u,
                   found |-> sessions \cap OwnedBy(u)]
  <2>1. admin' = [admin EXCEPT ![a] = r]
        /\ UNCHANGED <<life, denied, users, sessions, call, revoked, dropped, late>>
    BY <1>8 DEF ListSessions
  <2>2. admin'[a] = r /\ \A e \in Admins \ {a} : admin'[e] = admin[e]
    BY <2>1 DEF SessionsInv, SessionsTypeOK
  <2>3. SessionsTypeOK'
    <3>1. r \in AdminRecord
      BY DEF AdminRecord, SessionsInv, SessionsTypeOK
    <3> HIDE DEF r
    <3>2. admin' \in [Admins -> AdminRecord]
      <4>1. admin \in [Admins -> AdminRecord]
        BY DEF SessionsInv, SessionsTypeOK, AdminRecord
      <4> QED BY <2>1, <3>1, <4>1
    <3> QED BY <2>1, <3>2 DEF SessionsInv, SessionsTypeOK, AdminRecord
  <2> QED BY <2>1, <2>2, <2>3, ReadingKeeps
<1>9. ASSUME NEW a \in Admins, DenySession(a) \/ DenyListed(a)
      PROVE  SessionsInv'
  <2> DEFINE ts == admin[a].found
  <2>1. /\ denied' = denied \cup ts /\ revoked' = revoked \cup ts
        /\ Overtaken(ts)
        /\ \/ admin' = [admin EXCEPT ![a] = IdleAdmin]
           \/ admin[a].phase = "list" /\ admin' = [admin EXCEPT ![a].phase = "rows"]
        /\ UNCHANGED <<life, users, sessions, dropped, late>>
    BY <1>9 DEF DenySession, DenyListed, DenyTokens
  <2>2. ts \in SUBSET Tokens
    BY DEF SessionsInv, SessionsTypeOK
  <2>3. /\ \A e \in Admins \ {a} : admin'[e] = admin[e]
        /\ \/ admin'[a] = IdleAdmin
           \/ /\ admin[a].phase = "list" /\ admin'[a].phase = "rows"
              /\ admin'[a].user = admin[a].user
    BY <2>1 DEF SessionsInv, SessionsTypeOK
  <2> HIDE DEF ts
  <2>4. SessionsTypeOK'
    <3>1. call' \in [Calls -> CallRecord]
      BY <2>1, OvertakenCalls DEF SessionsInv
    <3>2. admin \in [Admins -> AdminRecord]
      BY DEF SessionsInv, SessionsTypeOK, AdminRecord
    <3>3. IdleAdmin \in AdminRecord
      BY DEF AdminRecord, IdleAdmin
    <3>4. admin' \in [Admins -> AdminRecord]
      <4>1. [admin EXCEPT ![a] = IdleAdmin] \in [Admins -> AdminRecord]
        BY <3>2, <3>3
      <4>2. [admin EXCEPT ![a].phase = "rows"] \in [Admins -> AdminRecord]
        BY <3>2 DEF AdminRecord
      <4> QED BY <2>1, <4>1, <4>2
    <3>5. denied' \subseteq Tokens /\ revoked' \subseteq Tokens
      BY <2>1, <2>2 DEF SessionsInv, SessionsTypeOK
    <3> QED BY <2>1, <3>1, <3>4, <3>5 DEF SessionsInv, SessionsTypeOK, AdminRecord, CallRecord
  <2>5. \A q \in Calls :
          /\ call[q].token \in ts =>
               /\ call'[q].stale
               /\ call'[q].phase = call[q].phase
               /\ call'[q].token = call[q].token
          /\ call[q].token \notin ts => call'[q] = call[q]
    BY <2>1, OvertakenCalls DEF SessionsInv
  <2> QED BY <2>1, <2>2, <2>3, <2>4, <2>5, DenyingKeeps DEF ts
<1>10. ASSUME NEW a \in Admins, DeleteSession(a)
       PROVE  SessionsInv'
  <2>1. /\ admin[a].phase = "delete" /\ admin[a].token \in Tokens
        /\ sessions' = sessions \ {admin[a].token}
        /\ admin' = [admin EXCEPT ![a].phase = "deny"]
        /\ UNCHANGED <<life, denied, users, call, revoked, dropped, late>>
    BY <1>10 DEF DeleteSession, SessionsInv, Addressed
  <2>2. admin'[a].phase = "deny" /\ admin'[a].token = admin[a].token
        /\ \A e \in Admins \ {a} : admin'[e] = admin[e]
    BY <2>1 DEF SessionsInv, SessionsTypeOK
  <2>3. SessionsTypeOK'
    BY <2>1 DEF SessionsInv, SessionsTypeOK
  <2> QED BY <2>1, <2>2, <2>3, RemovingKeeps
<1>11. ASSUME NEW a \in Admins, DropSessions(a)
       PROVE  SessionsInv'
  <2>1. /\ admin[a].phase = "rows" /\ admin[a].user \in Users
        /\ sessions' = sessions \ OwnedBy(admin[a].user)
        /\ dropped' = dropped \cup (sessions \cap OwnedBy(admin[a].user))
        /\ admin' = [admin EXCEPT ![a].phase = "user"]
        /\ UNCHANGED <<life, denied, users, call, revoked, late>>
    BY <1>11 DEF DropSessions, SessionsInv, Addressed
  <2>2. admin'[a].phase = "user" /\ admin'[a].user = admin[a].user
        /\ \A e \in Admins \ {a} : admin'[e] = admin[e]
    BY <2>1 DEF SessionsInv, SessionsTypeOK
  <2>3. SessionsTypeOK'
    BY <2>1 DEF SessionsInv, SessionsTypeOK
  <2>4. \A t \in dropped' : t \in dropped \/ Spent(t) \/ t \in late
    BY <2>1 DEF SessionsInv, Progress, OwnedBy
  <2> QED BY <2>1, <2>2, <2>3, <2>4, RemovingKeeps
<1>12. ASSUME NEW a \in Admins, DropUser(a)
       PROVE  SessionsInv'
  BY <1>12, DropUserKeeps
<1>13. CASE SessionsRestart
  BY <1>13
     DEF SessionsRestart, SessionsInv, SessionsTypeOK, Addressed, DenialsStand,
         RevokedRefused, SessionsFollowUsers, Progress, CascadeRevokes,
         RowsHaveUsers, IdleCall, IdleAdmin
<1> QED BY <1>1, <1>2, <1>3, <1>4, <1>5, <1>6, <1>7, <1>8, <1>9, <1>10, <1>11, <1>12,
           <1>13 DEF SessionsNext

\* And so does a step in which nothing happens.
LEMMA SessionsStutter ==
    ASSUME SessionsInv, UNCHANGED sessionVars
    PROVE  SessionsInv'
BY DEF SessionsInv, SessionsTypeOK, Addressed, DenialsStand, RevokedRefused,
       SessionsFollowUsers, Progress, CascadeRevokes, RowsHaveUsers, Spent,
       sessionVars

\* Denials stand, and every deletion is as far as its steps say.
THEOREM DenialsHold == SessionsSpec => []SessionsInv
<1>1. SessionsInit => SessionsInv
  BY SessionsInitial
<1>2. SessionsInv /\ [SessionsNext]_sessionVars => SessionsInv'
  BY SessionsStepKeeps, SessionsStutter
<1> QED BY <1>1, <1>2, PTL DEF SessionsSpec

\* Once denylisted, a token lets no later request through, whether its entry is
\* there or was evicted at its horizon (isTokenRefRevoked before the verifier).
THEOREM RevokedStayRefused == SessionsSpec => []RevokedRefused
<1>1. SessionsInv => RevokedRefused
  BY DEF SessionsInv
<1> QED BY <1>1, DenialsHold, PTL

\* However deletions, requests and failures of queries overlap, the tokens of
\* the rows that go with a user are denylisted, and no row is left without its
\* user, but those inserted behind the deletion's back (DELETE /users/:sub).
THEOREM DeletionsStayWhole == SessionsSpec => []DeletionsHold
<1>1. SessionsInv => DeletionsHold
  BY DEF SessionsInv, DeletionsHold
<1> QED BY <1>1, DenialsHold, PTL

(***************************************************************************)
(* The rate limiter.  WithinLimit is not inductive: a bucket also holds    *)
(* tokens not yet spent, and time not yet credited.  LimiterInv counts both. *)
(***************************************************************************)

\* What has been let through, what is left, and what the time since the bucket
\* was last looked at will add, stay within the burst and the refills.
Credit ==
    \A k \in Keys :
        /\ buckets[k] = NoBucket => granted[k] = 0
        /\ buckets[k] # NoBucket =>
             Unit * granted[k] + buckets[k].tokens
                 + MostRefill * Most(0, clock - buckets[k].last)
             <= Unit * MostBurst + MostRefill * since[k]

LimiterInv == LimiterTypeOK /\ Credit /\ RetryHonest

-----------------------------------------------------------------------------
\* Rounding up covers what is needed.
LEMMA CeilingCovers ==
    ASSUME NEW a \in Nat, NEW r \in Nat \ {0}
    PROVE  /\ (a + r - 1) \div r \in Nat
           /\ ((a + r - 1) \div r) * r >= a
<1> DEFINE q == (a + r - 1) \div r
<1>1. q \in Int /\ a + r - 1 = r * q + ((a + r - 1) % r) /\ (a + r - 1) % r \in 0 .. r - 1
  BY SMT
<1>2. q * r >= a
  BY <1>1, SMT
<1>3. q >= 0
  BY SMT
<1> QED BY <1>1, <1>2, <1>3

\* A factor that is not negative keeps the order.
LEMMA FactorMono ==
    ASSUME NEW a \in Int, NEW b \in Int, NEW c \in Nat, a <= b
    PROVE  a * c <= b * c
BY SMT

\* What is found in a bucket is a number of fractions within the capacity.
LEMMA RefilledType ==
    ASSUME NEW b \in Bucket, NEW cfg \in Config, NEW moment \in Nat,
           Unit \in Nat \ {0}
    PROVE  /\ Refilled(b, cfg, moment) \in Nat
           /\ Refilled(b, cfg, moment) <= Capacity(cfg)
           /\ Refilled(b, cfg, moment) <= b.tokens + Most(0, moment - b.last) * cfg.refill
           /\ Capacity(cfg) \in Nat /\ Capacity(cfg) >= Unit
<1>1. Most(0, moment - b.last) \in Nat
  BY DEF Most, Bucket
<1>2. Most(0, moment - b.last) * cfg.refill \in Nat
  BY <1>1 DEF Config
<1>3. Capacity(cfg) \in Nat /\ Capacity(cfg) >= Unit
  <2>1. Most(1, cfg.burst) \in Nat /\ Most(1, cfg.burst) >= 1
    BY DEF Most, Config
  <2> QED BY <2>1, SMT DEF Capacity
<1> QED BY <1>1, <1>2, <1>3 DEF Refilled, Least, Bucket

\* The wait a refused caller is told is long enough for a token.
LEMMA RetryAfterCovers ==
    ASSUME NEW cfg \in Config, NEW left \in Nat, Unit \in Nat \ {0},
           NoRefillWait \in Nat \ {0}, left < Unit
    PROVE  /\ RetryAfter(left, cfg) \in Nat
           /\ cfg.refill > 0 => left + RetryAfter(left, cfg) * cfg.refill >= Unit
<1>1. CASE cfg.refill = 0
  BY <1>1 DEF RetryAfter
<1>2. CASE cfg.refill # 0
  <2> DEFINE a == Unit - left
             r == cfg.refill
             q == (a + r - 1) \div r
             w == Most(1, q)
  <2>1. a \in Nat /\ r \in Nat \ {0}
    BY <1>2 DEF Config
  <2>2. q \in Nat /\ q * r >= a
    BY <2>1, CeilingCovers
  <2>3. w \in Nat /\ w >= q
    BY <2>2 DEF Most
  <2>4. w * r >= q * r /\ w * r \in Nat
    BY <2>1, <2>2, <2>3, FactorMono
  <2>5. RetryAfter(left, cfg) = w
    BY <1>2 DEF RetryAfter
  <2> HIDE DEF w, q
  <2> QED BY <2>1, <2>2, <2>3, <2>4, <2>5
<1> QED BY <1>1, <1>2

\* What a check of k finds is a number of fractions, at most what was left and
\* what the time since may have added.
LEMMA FoundType ==
    ASSUME LimiterTypeOK, NEW k \in Keys, NEW cfg \in Configs
    PROVE  /\ Found(k, cfg) \in Nat
           /\ Found(k, cfg) <= Unit * MostBurst
           /\ buckets[k] # NoBucket =>
                /\ buckets[k] \in Bucket
                /\ Found(k, cfg) <= buckets[k].tokens
                     + MostRefill * Most(0, clock - buckets[k].last)
<1>1. cfg \in Config /\ cfg.burst <= MostBurst /\ cfg.refill <= MostRefill
      /\ Unit \in Nat \ {0} /\ MostBurst \in Nat \ {0} /\ MostRefill \in Nat
      /\ cfg.refill \in Nat /\ cfg.burst \in Nat
  BY LimiterAssumption DEF Config
<1>2. clock \in Nat /\ (buckets[k] # NoBucket => buckets[k] \in Bucket)
  BY DEF LimiterTypeOK
<1>3. Capacity(cfg) \in Nat /\ Capacity(cfg) <= Unit * MostBurst
  <2>1. Most(1, cfg.burst) \in Nat /\ Most(1, cfg.burst) <= MostBurst
    BY <1>1 DEF Most
  <2>2. Most(1, cfg.burst) * Unit <= MostBurst * Unit
    BY <1>1, <2>1, FactorMono
  <2> QED BY <1>1, <2>1, <2>2 DEF Capacity
<1>4. CASE buckets[k] = NoBucket
  BY <1>3, <1>4 DEF Found
<1>5. CASE buckets[k] # NoBucket
  <2> DEFINE e == Most(0, clock - buckets[k].last)
  <2>1. e \in Nat
    BY <1>2, <1>5 DEF Most, Bucket
  <2>2. cfg.refill * e <= MostRefill * e
    BY <1>1, <2>1, FactorMono
  <2>3. Found(k, cfg) = Refilled(buckets[k], cfg, clock)
    BY <1>5 DEF Found
  <2>4. Found(k, cfg) \in Nat /\ Found(k, cfg) <= Capacity(cfg)
        /\ Found(k, cfg) <= buckets[k].tokens + e * cfg.refill
    BY <1>1, <1>2, <1>5, <2>3, RefilledType
  <2>5. e * cfg.refill = cfg.refill * e /\ e * cfg.refill \in Nat /\ MostRefill * e \in Nat
        /\ Unit * MostBurst \in Nat
    BY <1>1, <2>1
  <2> HIDE DEF e
  <2>6. buckets[k].tokens \in Nat
    BY <1>2, <1>5 DEF Bucket
  <2>7. Found(k, cfg) <= Unit * MostBurst
    BY <1>3, <2>4, <2>5
  <2>8. Found(k, cfg) <= buckets[k].tokens + MostRefill * e
    BY <2>2, <2>4, <2>5, <2>6
  <2> QED BY <1>2, <1>5, <2>4, <2>7, <2>8 DEF e
<1> QED BY <1>4, <1>5

\* The prune keeps a bucket as it is or drops it.
LEMMA PrunedKeepsOrDrops ==
    ASSUME NEW bs, NEW after, Pruned(bs, after)
    PROVE  /\ after = [k \in Keys |-> after[k]]
           /\ \A k \in Keys : after[k] \in {bs[k], NoBucket}
BY Zenon DEF Pruned

-----------------------------------------------------------------------------
\* The type invariant: every bucket, history and promise keeps its type.
THEOREM LimiterTypeCorrect == LimiterSpec => []LimiterTypeOK
<1>1. LimiterInit => LimiterTypeOK
  BY DEF LimiterInit, LimiterTypeOK
<1>2. LimiterTypeOK /\ [LimiterNext]_limiterVars => LimiterTypeOK'
  <2> SUFFICES ASSUME LimiterTypeOK, [LimiterNext]_limiterVars
               PROVE  LimiterTypeOK'
    OBVIOUS
  <2>1. CASE Forward
    BY <2>1 DEF Forward, LimiterTypeOK, Tracked
  <2>2. CASE SetBack
    BY <2>2 DEF SetBack, LimiterTypeOK
  <2>3. ASSUME NEW k \in Keys, NEW cfg \in Configs, Allow(k, cfg)
        PROVE  LimiterTypeOK'
    <3> DEFINE bs == [buckets EXCEPT ![k] =
                        [tokens |-> Found(k, cfg) - Unit, last |-> clock]]
    <3>1. Found(k, cfg) - Unit \in Nat
      BY <2>3, FoundType, LimiterAssumption DEF Allow
    <3>2. bs \in [Keys -> Bucket \cup {NoBucket}]
      BY <3>1 DEF LimiterTypeOK, Bucket
    <3>3. Pruned(bs, buckets')
      BY <2>3 DEF Allow
    <3>4. buckets' \in [Keys -> Bucket \cup {NoBucket}]
      BY <3>2, <3>3, PrunedKeepsOrDrops
    <3>5. granted' \in [Keys -> Nat] /\ since' \in [Keys -> Nat]
      BY <2>3 DEF Allow, LimiterTypeOK
    <3>6. promise' \in [Keys -> [cfg : Configs, at : Nat] \cup {NoBucket}]
      BY <2>3 DEF Allow, LimiterTypeOK
    <3> QED BY <2>3, <3>4, <3>5, <3>6 DEF Allow, LimiterTypeOK
  <2>4. ASSUME NEW k \in Keys, NEW cfg \in Configs, Deny(k, cfg)
        PROVE  LimiterTypeOK'
    <3>1. Found(k, cfg) \in Nat /\ Found(k, cfg) < Unit /\ clock \in Nat
      BY <2>4, FoundType DEF Deny, LimiterTypeOK
    <3>2. RetryAfter(Found(k, cfg), cfg) \in Nat
      BY <3>1, RetryAfterCovers, LimiterAssumption
    <3>3. buckets' \in [Keys -> Bucket \cup {NoBucket}]
      BY <2>4, <3>1 DEF Deny, LimiterTypeOK, Bucket
    <3>4. [cfg |-> cfg, at |-> clock + RetryAfter(Found(k, cfg), cfg)]
            \in [cfg : Configs, at : Nat]
      BY <3>1, <3>2
    <3>5. promise' \in [Keys -> [cfg : Configs, at : Nat] \cup {NoBucket}]
      BY <2>4, <3>4 DEF Deny, LimiterTypeOK
    <3> QED BY <2>4, <3>3, <3>5 DEF Deny, LimiterTypeOK
  <2>5. CASE UNCHANGED limiterVars
    BY <2>5 DEF limiterVars, LimiterTypeOK
  <2> QED BY <2>1, <2>2, <2>3, <2>4, <2>5 DEF LimiterNext
<1> QED BY <1>1, <1>2, PTL DEF LimiterSpec

\* No step of the clock or of a request takes a bucket out of its credit.
LEMMA CreditStep ==
    ASSUME LimiterTypeOK, LimiterTypeOK', Credit, [LimiterNext]_limiterVars
    PROVE  Credit'
<1> USE LimiterAssumption
<1> SUFFICES ASSUME NEW k \in Keys
             PROVE  /\ buckets'[k] = NoBucket => granted'[k] = 0
                    /\ buckets'[k] # NoBucket =>
                         Unit * granted'[k] + buckets'[k].tokens
                             + MostRefill * Most(0, clock' - buckets'[k].last)
                         <= Unit * MostBurst + MostRefill * since'[k]
  BY DEF Credit
<1>1. /\ clock \in Nat /\ clock' \in Nat
      /\ granted[k] \in Nat /\ since[k] \in Nat
      /\ buckets[k] # NoBucket => buckets[k].tokens \in Nat /\ buckets[k].last \in Nat
      /\ buckets'[k] # NoBucket => buckets'[k].tokens \in Nat /\ buckets'[k].last \in Nat
  BY DEF LimiterTypeOK, Bucket
<1>2. /\ buckets[k] = NoBucket => granted[k] = 0
      /\ buckets[k] # NoBucket =>
           Unit * granted[k] + buckets[k].tokens
               + MostRefill * Most(0, clock - buckets[k].last)
           <= Unit * MostBurst + MostRefill * since[k]
  BY DEF Credit
<1>3. Unit * granted[k] \in Nat /\ Unit * MostBurst \in Nat /\ MostRefill * since[k] \in Nat
  BY <1>1
<1>4. CASE Forward
  <2>1. CASE buckets[k] = NoBucket
    BY <1>2, <1>4, <2>1 DEF Forward
  <2>2. CASE buckets[k] # NoBucket
    <3> DEFINE e == Most(0, clock - buckets[k].last)
               f == Most(0, clock + 1 - buckets[k].last)
    <3>1. e \in Nat /\ f \in Nat /\ f <= e + 1
      BY <1>1, <2>2 DEF Most
    <3>2. MostRefill * f <= MostRefill * e + MostRefill
          /\ MostRefill * e \in Nat /\ MostRefill * f \in Nat
      <4>1. f * MostRefill <= (e + 1) * MostRefill
        BY <3>1, FactorMono
      <4> QED BY <3>1, <4>1
    <3>3. MostRefill * (since[k] + 1) = MostRefill * since[k] + MostRefill
      BY <1>1
    <3>4. /\ buckets'[k] = buckets[k] /\ granted'[k] = granted[k]
          /\ since'[k] = since[k] + 1 /\ clock' = clock + 1
      BY <1>4, <2>2 DEF Forward, Tracked, LimiterTypeOK
    <3>5. Unit * granted[k] + buckets[k].tokens + MostRefill * e
            <= Unit * MostBurst + MostRefill * since[k]
      BY <1>2, <2>2
    <3> HIDE DEF e, f
    <3>6. Unit * granted[k] + buckets[k].tokens + MostRefill * f
            <= Unit * MostBurst + MostRefill * (since[k] + 1)
      BY <1>1, <1>3, <2>2, <3>2, <3>3, <3>5
    <3>7. Most(0, clock' - buckets'[k].last) = f
      BY <1>1, <2>2, <3>4 DEF f, Most
    <3>8. Unit * granted'[k] + buckets'[k].tokens
              + MostRefill * Most(0, clock' - buckets'[k].last)
            = Unit * granted[k] + buckets[k].tokens + MostRefill * f
      BY <3>4, <3>7, Zenon
    <3>9. Unit * MostBurst + MostRefill * since'[k]
            = Unit * MostBurst + MostRefill * (since[k] + 1)
      BY <3>4, Zenon
    <3>10. buckets'[k] # NoBucket
      BY <2>2, <3>4
    <3> QED BY <3>6, <3>8, <3>9, <3>10, Zenon
  <2> QED BY <2>1, <2>2
<1>5. CASE SetBack
  <2>1. CASE buckets[k] = NoBucket
    BY <1>2, <1>5, <2>1 DEF SetBack
  <2>2. CASE buckets[k] # NoBucket
    <3> DEFINE e == Most(0, clock - buckets[k].last)
               f == Most(0, clock' - buckets[k].last)
    <3>1. e \in Nat /\ f \in Nat /\ f <= e
      BY <1>1, <1>5, <2>2 DEF Most, SetBack
    <3>2. MostRefill * f <= MostRefill * e /\ MostRefill * e \in Nat /\ MostRefill * f \in Nat
      <4>1. f * MostRefill <= e * MostRefill
        BY <3>1, FactorMono
      <4> QED BY <3>1, <4>1
    <3>3. Unit * granted[k] + buckets[k].tokens + MostRefill * e
            <= Unit * MostBurst + MostRefill * since[k]
      BY <1>2, <2>2
    <3> HIDE DEF e, f
    <3>4. Unit * granted[k] + buckets[k].tokens + MostRefill * f
            <= Unit * MostBurst + MostRefill * since[k]
      BY <1>1, <1>3, <2>2, <3>2, <3>3
    <3> QED BY <1>5, <2>2, <3>4 DEF SetBack, f
  <2> QED BY <2>1, <2>2
<1>6. ASSUME NEW d \in Keys, NEW cfg \in Configs, Allow(d, cfg)
      PROVE  /\ buckets'[k] = NoBucket => granted'[k] = 0
             /\ buckets'[k] # NoBucket =>
                  Unit * granted'[k] + buckets'[k].tokens
                      + MostRefill * Most(0, clock' - buckets'[k].last)
                  <= Unit * MostBurst + MostRefill * since'[k]
  <2> DEFINE bs == [buckets EXCEPT ![d] =
                      [tokens |-> Found(d, cfg) - Unit, last |-> clock]]
  <2>1. buckets'[k] \in {bs[k], NoBucket}
    BY <1>6, PrunedKeepsOrDrops DEF Allow
  <2>2. CASE buckets'[k] = NoBucket
    BY <1>6, <2>2 DEF Allow
  <2>3. CASE buckets'[k] # NoBucket /\ k # d
    <3>1. buckets'[k] = buckets[k]
      BY <2>1, <2>3 DEF LimiterTypeOK
    <3> QED BY <1>2, <1>6, <2>3, <3>1 DEF Allow
  <2>4. CASE buckets'[k] # NoBucket /\ k = d
    <3>1. buckets'[k] = [tokens |-> Found(k, cfg) - Unit, last |-> clock]
      BY <2>1, <2>4 DEF LimiterTypeOK
    <3>2. /\ granted'[k] = granted[k] + 1 /\ since'[k] = since[k]
          /\ clock' = clock
      BY <1>6, <2>4 DEF Allow
    <3>3. Unit * (granted[k] + 1) = Unit * granted[k] + Unit
      BY <1>1
    <3>4. MostRefill * Most(0, clock - clock) = 0
      BY <1>1 DEF Most
    <3> DEFINE e == Most(0, clock - buckets[k].last)
    <3>5. /\ Found(k, cfg) \in Nat
          /\ Found(k, cfg) <= Unit * MostBurst
          /\ buckets[k] # NoBucket =>
               Found(k, cfg) <= buckets[k].tokens + MostRefill * e
      BY FoundType
    <3>6. buckets[k] # NoBucket => MostRefill * e \in Nat
      BY <1>1 DEF Most
    <3>7. buckets[k] # NoBucket =>
            Unit * granted[k] + buckets[k].tokens + MostRefill * e
              <= Unit * MostBurst + MostRefill * since[k]
      BY <1>2
    <3>8. buckets[k] = NoBucket => Unit * granted[k] = 0
      BY <1>2
    <3> HIDE DEF e
    <3>9. Unit * granted[k] + Found(k, cfg) <= Unit * MostBurst + MostRefill * since[k]
      <4>1. CASE buckets[k] = NoBucket
        BY <1>3, <3>5, <3>8, <4>1
      <4>2. CASE buckets[k] # NoBucket
        BY <1>1, <1>3, <3>5, <3>6, <3>7, <4>2
      <4> QED BY <4>1, <4>2
    <3>10. Unit * granted'[k] + (Found(k, cfg) - Unit) + 0
             <= Unit * MostBurst + MostRefill * since'[k]
      BY <1>3, <3>2, <3>3, <3>5, <3>9
    <3> QED BY <2>4, <3>1, <3>2, <3>4, <3>10
  <2> QED BY <2>2, <2>3, <2>4
<1>7. ASSUME NEW d \in Keys, NEW cfg \in Configs, Deny(d, cfg)
      PROVE  /\ buckets'[k] = NoBucket => granted'[k] = 0
             /\ buckets'[k] # NoBucket =>
                  Unit * granted'[k] + buckets'[k].tokens
                      + MostRefill * Most(0, clock' - buckets'[k].last)
                  <= Unit * MostBurst + MostRefill * since'[k]
  <2>1. CASE k # d
    BY <1>2, <1>7, <2>1 DEF Deny, LimiterTypeOK
  <2>2. CASE k = d
    <3>1. buckets[k] # NoBucket
      <4>1. Capacity(cfg) >= Unit
        <5>1. Most(1, cfg.burst) \in Nat /\ Most(1, cfg.burst) >= 1
          BY DEF Most, Config
        <5> QED BY <5>1, SMT DEF Capacity
      <4>2. Found(k, cfg) < Unit
        BY <1>7, <2>2 DEF Deny
      <4>3. Found(k, cfg) \in Nat /\ Capacity(cfg) \in Nat
        <5>1. cfg \in Config
          OBVIOUS
        <5>2. Most(1, cfg.burst) \in Nat
          BY <5>1 DEF Most, Config
        <5> QED BY <5>2, FoundType DEF Capacity
      <4> QED BY <4>1, <4>2, <4>3 DEF Found
    <3> DEFINE e == Most(0, clock - buckets[k].last)
    <3>2. /\ buckets'[k] = [tokens |-> Found(k, cfg), last |-> clock]
          /\ granted'[k] = granted[k] /\ since'[k] = since[k] /\ clock' = clock
      BY <1>7, <2>2 DEF Deny, LimiterTypeOK
    <3>3. MostRefill * Most(0, clock - clock) = 0
      BY <1>1 DEF Most
    <3>4. Found(k, cfg) \in Nat /\ Found(k, cfg) <= buckets[k].tokens + MostRefill * e
      BY <3>1, FoundType
    <3>5. MostRefill * e \in Nat
      BY <1>1, <3>1 DEF Most
    <3>6. Unit * granted[k] + buckets[k].tokens + MostRefill * e
            <= Unit * MostBurst + MostRefill * since[k]
      BY <1>2, <3>1
    <3> HIDE DEF e
    <3>7. Unit * granted[k] + Found(k, cfg) + 0 <= Unit * MostBurst + MostRefill * since[k]
      BY <1>1, <1>3, <3>1, <3>4, <3>5, <3>6
    <3>8. buckets'[k] # NoBucket /\ buckets'[k].tokens = Found(k, cfg) /\ buckets'[k].last = clock
      <4>1. buckets'[k] \in Bucket
        BY <1>1, <3>2, <3>4 DEF Bucket
      <4> QED BY <3>2, <4>1 DEF Bucket
    <3> QED BY <3>2, <3>3, <3>7, <3>8
  <2> QED BY <2>1, <2>2
<1>8. CASE UNCHANGED limiterVars
  BY <1>2, <1>8 DEF limiterVars
<1> QED BY <1>4, <1>5, <1>6, <1>7, <1>8 DEF LimiterNext

\* A bucket that has been looked at on the way still has its token at t.
LEMMA LookingCostsNothing ==
    ASSUME NEW b \in Bucket, NEW cfg \in Config, NEW moment \in Nat, NEW t \in Nat,
           Unit \in Nat \ {0},
           Refilled(b, cfg, t) >= Unit, Refilled(b, cfg, moment) < Unit
    PROVE  Refilled([tokens |-> Refilled(b, cfg, moment), last |-> moment], cfg, t) >= Unit
<1> DEFINE r == cfg.refill
           e == Most(0, t - b.last)
           d == Most(0, moment - b.last)
           f == Most(0, t - moment)
           x == Refilled(b, cfg, moment)
           c == Capacity(cfg)
<1>1. /\ e \in Nat /\ d \in Nat /\ f \in Nat /\ e <= d + f
      /\ r \in Nat /\ b.tokens \in Nat
  BY DEF Most, Bucket, Config
<1>2. c \in Nat /\ c >= Unit /\ x \in Nat
  BY RefilledType
<1>3. e * r \in Nat /\ d * r \in Nat /\ f * r \in Nat /\ e * r <= d * r + f * r
  <2>1. e * r <= (d + f) * r
    BY <1>1, FactorMono
  <2>2. (d + f) * r = d * r + f * r
    BY <1>1
  <2> QED BY <1>1, <2>1, <2>2
<1>4. Least(c, b.tokens + e * r) >= Unit
  BY DEF Refilled
<1>5. x = Least(c, b.tokens + d * r)
  BY DEF Refilled
<1>6. x < Unit
  OBVIOUS
<1>7. Refilled([tokens |-> x, last |-> moment], cfg, t) = Least(c, x + f * r)
  BY DEF Refilled
<1> HIDE DEF r, e, d, f, x, c
<1>8. Least(c, x + f * r) >= Unit
  BY <1>1, <1>2, <1>3, <1>4, <1>5, <1>6 DEF Least
<1> QED BY <1>7, <1>8 DEF x

\* A promise made to a refused caller is good.
LEMMA PromiseIsGood ==
    ASSUME NEW cfg \in Config, NEW left \in Nat, NEW moment \in Nat,
           Unit \in Nat \ {0}, NoRefillWait \in Nat \ {0}, left < Unit, cfg.refill > 0
    PROVE  Refilled([tokens |-> left, last |-> moment], cfg,
                    moment + RetryAfter(left, cfg)) >= Unit
<1> DEFINE w == RetryAfter(left, cfg)
           c == Capacity(cfg)
           t == moment + w
<1>1. w \in Nat /\ left + w * cfg.refill >= Unit
  BY RetryAfterCovers
<1>2. [tokens |-> left, last |-> moment] \in Bucket
  BY DEF Bucket
<1>3. c \in Nat /\ c >= Unit
  BY <1>2, RefilledType
<1>4. w * cfg.refill \in Nat
  BY <1>1 DEF Config
<1>5. Most(0, t - moment) = w
  <2> HIDE DEF w
  <2> QED BY <1>1 DEF Most
<1>6. Refilled([tokens |-> left, last |-> moment], cfg, t)
        = Least(c, left + Most(0, t - moment) * cfg.refill)
  <2> HIDE DEF t
  <2> QED BY DEF Refilled
<1> HIDE DEF w, c
<1>7. Least(c, left + w * cfg.refill) >= Unit
  BY <1>1, <1>3, <1>4 DEF Least
<1> HIDE DEF t
<1>8. Refilled([tokens |-> left, last |-> moment], cfg, t) >= Unit
  BY <1>5, <1>6, <1>7, Zenon
<1> QED BY <1>8 DEF t, w

\* A request that is let through or refused leaves every promise good.
LEMMA RetryStep ==
    ASSUME LimiterTypeOK, LimiterTypeOK', RetryHonest, [LimiterNext]_limiterVars
    PROVE  RetryHonest'
<1> USE LimiterAssumption
<1> SUFFICES ASSUME NEW k \in Keys,
                    promise'[k] # NoBucket, promise'[k].cfg.refill > 0
             PROVE  /\ buckets'[k] # NoBucket
                    /\ Refilled(buckets'[k], promise'[k].cfg, promise'[k].at) >= Unit
  BY DEF RetryHonest, Tracked, Refilled, Capacity
<1>1. promise[k] # NoBucket /\ promise[k].cfg.refill > 0 =>
        /\ buckets[k] # NoBucket
        /\ Refilled(buckets[k], promise[k].cfg, promise[k].at) >= Unit
  BY DEF RetryHonest, Tracked
<1>2. CASE buckets'[k] = buckets[k] /\ promise'[k] = promise[k]
  BY <1>1, <1>2
<1>3. ASSUME NEW d \in Keys, NEW cfg \in Configs, Allow(d, cfg)
      PROVE  buckets'[k] = buckets[k] /\ promise'[k] = promise[k]
  <2> DEFINE bs == [buckets EXCEPT ![d] =
                      [tokens |-> Found(d, cfg) - Unit, last |-> clock]]
  <2>1. k # d /\ buckets'[k] # NoBucket /\ promise'[k] = promise[k]
    BY <1>3 DEF Allow
  <2>2. buckets'[k] \in {bs[k], NoBucket}
    BY <1>3, PrunedKeepsOrDrops DEF Allow
  <2> QED BY <2>1, <2>2 DEF LimiterTypeOK
<1>4. ASSUME NEW d \in Keys, NEW cfg \in Configs, Deny(d, cfg)
      PROVE  /\ buckets'[k] # NoBucket
             /\ Refilled(buckets'[k], promise'[k].cfg, promise'[k].at) >= Unit
  <2>1. CASE k # d
    BY <1>2, <1>4, <2>1 DEF Deny, LimiterTypeOK
  <2>2. CASE k = d
    <3> DEFINE x == Found(k, cfg)
    <3>1. x \in Nat /\ x < Unit /\ clock \in Nat /\ cfg \in Config
      BY <1>4, <2>2, FoundType DEF Deny, LimiterTypeOK
    <3>2. buckets'[k] = [tokens |-> x, last |-> clock] /\ buckets'[k] # NoBucket
      <4>1. buckets'[k] = [tokens |-> x, last |-> clock]
        BY <1>4, <2>2 DEF Deny, LimiterTypeOK
      <4>2. [tokens |-> x, last |-> clock] \in Bucket
        BY <3>1 DEF Bucket
      <4> QED BY <4>1, <4>2 DEF Bucket
    <3>3. CASE promise[k] # NoBucket /\ promise[k].cfg = cfg
      <4>1. promise'[k] = promise[k]
        BY <1>4, <2>2, <3>3 DEF Deny, LimiterTypeOK
      <4>2. buckets[k] # NoBucket /\ Refilled(buckets[k], cfg, promise[k].at) >= Unit
        BY <1>1, <3>3, <4>1
      <4>3. buckets[k] \in Bucket /\ promise[k].at \in Nat
        BY <3>3, <4>2 DEF LimiterTypeOK
      <4>4. x = Refilled(buckets[k], cfg, clock)
        BY <4>2 DEF Found
      <4>5. Refilled([tokens |-> x, last |-> clock], cfg, promise[k].at) >= Unit
        BY <3>1, <4>2, <4>3, <4>4, LookingCostsNothing
      <4> QED BY <3>2, <3>3, <4>1, <4>5
    <3>4. CASE ~(promise[k] # NoBucket /\ promise[k].cfg = cfg)
      <4>1. promise'[k] = [cfg |-> cfg, at |-> clock + RetryAfter(x, cfg)]
        BY <1>4, <2>2, <3>4 DEF Deny, LimiterTypeOK
      <4>2. promise'[k].cfg = cfg /\ promise'[k].at = clock + RetryAfter(x, cfg)
        BY <4>1
      <4>3. cfg.refill > 0
        BY <4>2
      <4>4. Refilled([tokens |-> x, last |-> clock], cfg, clock + RetryAfter(x, cfg)) >= Unit
        BY <3>1, <4>3, PromiseIsGood
      <4> QED BY <3>2, <4>2, <4>4
    <3> QED BY <3>3, <3>4
  <2> QED BY <2>1, <2>2
<1>5. CASE Forward \/ SetBack
  BY <1>2, <1>5 DEF Forward, SetBack
<1>6. CASE UNCHANGED limiterVars
  BY <1>2, <1>6 DEF limiterVars
<1> QED BY <1>2, <1>3, <1>4, <1>5, <1>6 DEF LimiterNext

-----------------------------------------------------------------------------
\* The inductive invariant of the limiter.
THEOREM LimiterInvariant == LimiterSpec => []LimiterInv
<1>1. LimiterInit => Credit /\ RetryHonest
  BY DEF LimiterInit, Credit, RetryHonest
<1>2. LimiterTypeOK /\ LimiterTypeOK' /\ Credit /\ RetryHonest /\ [LimiterNext]_limiterVars
        => Credit' /\ RetryHonest'
  BY CreditStep, RetryStep
<1> QED BY <1>1, <1>2, LimiterTypeCorrect, PTL DEF LimiterSpec, LimiterInv

\* No bucket lets through more than its burst and its refills, for any keys,
\* any settings, and any behaviour of the clock.
THEOREM LimitKept == LimiterSpec => []WithinLimit
<1>1. LimiterInv => WithinLimit
  <2> SUFFICES ASSUME LimiterInv, NEW k \in Keys, buckets[k] # NoBucket
               PROVE  Unit * granted[k] <= Unit * MostBurst + MostRefill * since[k]
    BY DEF WithinLimit, Tracked
  <2> DEFINE e == Most(0, clock - buckets[k].last)
  <2>1. buckets[k].tokens \in Nat /\ e \in Nat /\ granted[k] \in Nat /\ since[k] \in Nat
    BY DEF LimiterInv, LimiterTypeOK, Bucket, Most
  <2>2. MostRefill * e \in Nat /\ Unit * granted[k] \in Nat
        /\ Unit * MostBurst \in Nat /\ MostRefill * since[k] \in Nat
    BY <2>1, LimiterAssumption
  <2>3. Unit * granted[k] + buckets[k].tokens + MostRefill * e
          <= Unit * MostBurst + MostRefill * since[k]
    BY DEF LimiterInv, Credit
  <2> HIDE DEF e
  <2> QED BY <2>1, <2>2, <2>3
<1> QED BY <1>1, LimiterInvariant, PTL

\* Every Retry-After is honest, for any keys and any settings.
THEOREM RetriesHonoured == LimiterSpec => []RetryHonest
<1>1. LimiterInv => RetryHonest
  BY DEF LimiterInv
<1> QED BY <1>1, LimiterInvariant, PTL

\* The budget is kept and each Retry-After is honest.
THEOREM BudgetsHold == LimiterSpec => []LimiterHolds
<1>1. WithinLimit /\ RetryHonest => LimiterHolds
  BY DEF LimiterHolds
<1> QED BY <1>1, LimitKept, RetriesHonoured, PTL

-----------------------------------------------------------------------------
\* What a check asks of a new bucket, it has.
LEMMA CapacityCoversOne == \A cfg \in Configs : Capacity(cfg) \in Nat /\ Capacity(cfg) >= Unit
<1> SUFFICES ASSUME NEW cfg \in Configs
             PROVE  Capacity(cfg) \in Nat /\ Capacity(cfg) >= Unit
  OBVIOUS
<1>1. Unit \in Nat /\ Most(1, cfg.burst) \in Nat /\ Most(1, cfg.burst) >= 1
  BY LimiterAssumption DEF Config, Most
<1>2. PICK n \in Nat : n = Most(1, cfg.burst) /\ n >= 1
  BY <1>1
<1>3. 1 * Unit <= n * Unit /\ n * Unit \in Nat
  BY <1>1, <1>2, FactorMono
<1>4. Unit * n = n * Unit /\ 1 * Unit = Unit
  BY <1>1
<1> QED BY <1>2, <1>3, <1>4 DEF Capacity

\* There are never more buckets than the limiter may keep: a request that is let
\* through prunes after it has added its own, and a refusal, which does not
\* prune, finds its bucket there already (rate-limit.ts, check, pruneIfNeeded).
THEOREM BucketsBounded ==
    LimiterSpec => [](IsFiniteSet(Tracked) /\ Cardinality(Tracked) <= MaxBuckets)
<1> DEFINE Bounded == IsFiniteSet(Tracked) /\ Cardinality(Tracked) <= MaxBuckets
<1>1. LimiterInit => Bounded
  <2> SUFFICES ASSUME LimiterInit PROVE Bounded
    OBVIOUS
  <2>1. Tracked = {}
    BY DEF LimiterInit, Tracked
  <2>2. MaxBuckets \in Nat
    BY LimiterAssumption
  <2> QED BY <2>1, <2>2, FS_EmptySet
<1>2. LimiterTypeOK /\ Bounded /\ [LimiterNext]_limiterVars => Bounded'
  <2> SUFFICES ASSUME LimiterTypeOK, Bounded, [LimiterNext]_limiterVars PROVE Bounded'
    OBVIOUS
  <2>1. CASE UNCHANGED buckets
    BY <2>1 DEF Tracked
  <2>2. ASSUME NEW k \in Keys, NEW cfg \in Configs, Deny(k, cfg) PROVE Bounded'
    <3>1. buckets[k] # NoBucket
      <4>1. SUFFICES ASSUME buckets[k] = NoBucket PROVE FALSE
        OBVIOUS
      <4>2. Found(k, cfg) = Capacity(cfg) /\ Found(k, cfg) < Unit
        BY <2>2, <4>1 DEF Found, Deny
      <4> QED BY <4>2, CapacityCoversOne, LimiterAssumption
    <3>2. Found(k, cfg) \in Nat /\ clock \in Nat
      BY FoundType DEF LimiterTypeOK
    <3>3. buckets' = [buckets EXCEPT ![k] = [tokens |-> Found(k, cfg), last |-> clock]]
      BY <2>2 DEF Deny
    <3>4. buckets'[k] # NoBucket
      BY <3>2, <3>3, LimiterAssumption DEF LimiterTypeOK
    <3>5. Tracked' = Tracked
      BY <3>1, <3>3, <3>4 DEF Tracked, LimiterTypeOK
    <3> QED BY <3>5
  <2>3. ASSUME NEW k \in Keys, NEW cfg \in Configs, Allow(k, cfg) PROVE Bounded'
    <3> DEFINE bs == [buckets EXCEPT ![k] =
                        [tokens |-> Found(k, cfg) - Unit, last |-> clock]]
               there == {d \in Keys : bs[d] # NoBucket}
               fresh == {d \in there : clock - bs[d].last <= StaleTicks}
    <3>1. PICK spared \in SUBSET there :
            /\ IF Cardinality(there) <= MaxBuckets THEN spared = there
               ELSE /\ spared \subseteq fresh
                    /\ Cardinality(spared) = Least(MaxBuckets, Cardinality(fresh))
            /\ buckets' = [d \in Keys |-> IF d \in spared THEN bs[d] ELSE NoBucket]
      BY <2>3 DEF Allow, Pruned
    <3>2. there \subseteq Tracked \cup {k}
      BY DEF Tracked, LimiterTypeOK
    <3>3. Tracked' \subseteq spared
      BY <3>1 DEF Tracked
    <3> HIDE DEF bs, there, fresh
    <3>4. IsFiniteSet(there) /\ IsFiniteSet(spared)
      <4>1. IsFiniteSet(Tracked \cup {k})
        BY FS_AddElement
      <4> QED BY <3>1, <3>2, <4>1, FS_Subset
    <3>5. fresh \subseteq there
      BY DEF fresh
    <3>6. Cardinality(spared) <= MaxBuckets
      <4>1. IsFiniteSet(fresh)
        BY <3>4, <3>5, FS_Subset
      <4>2. Cardinality(fresh) \in Nat /\ MaxBuckets \in Nat
        BY <4>1, FS_CardinalityType, LimiterAssumption
      <4> QED BY <3>1, <4>2 DEF Least
    <3>7. IsFiniteSet(Tracked') /\ Cardinality(Tracked') <= Cardinality(spared)
      BY <3>3, <3>4, FS_Subset
    <3>8. /\ Cardinality(Tracked') \in Nat /\ Cardinality(spared) \in Nat
          /\ MaxBuckets \in Nat
      BY <3>4, <3>7, FS_CardinalityType, LimiterAssumption
    <3> QED BY <3>6, <3>7, <3>8
  <2> QED BY <2>1, <2>2, <2>3 DEF LimiterNext, limiterVars, Forward, SetBack
<1> QED BY <1>1, <1>2, LimiterTypeCorrect, PTL DEF LimiterSpec

(***************************************************************************)
(* The address verifier.  A verdict is about the table; TableFollows says  *)
(* what the table was made of.                                             *)
(***************************************************************************)

\* What the lists of a refresh said so far.
Gathered(said) == UNION {said[u] : u \in {v \in Urls : said[v] # Nowhere}}

\* A refresh holds what the lists said that it has come to; and the table is
\* what parsed of the refresh it was made of.
TableFollows ==
    /\ refreshing # 0 =>
         /\ collected = Gathered(answers)
         /\ \A u \in Urls : u >= refreshing => answers[u] = Nowhere
    /\ IF table = Nowhere THEN basis = NoAnswers ELSE table = BuildTable(Said)

\* The inductive invariant: the types, and where the table comes from.
IpInv == IpTypeOK /\ TableFollows

\* Before any list has answered, nothing has been said.
LEMMA NoAnswersType ==
    /\ NoAnswers \in [Urls -> {Nowhere} \cup SUBSET Entries]
    /\ Gathered(NoAnswers) = {}
BY DEF NoAnswers, Gathered

\* At first there is neither a table nor a refresh.
LEMMA IpInitial == IpInit => IpInv
BY NoAnswersType, IpRangesAssumption DEF IpInit, IpInv, IpTypeOK, TableFollows, Urls

\* One list more.
LEMMA GatheredMore ==
    ASSUME NEW said \in [Urls -> {Nowhere} \cup SUBSET Entries],
           NEW u \in Urls, said[u] = Nowhere, NEW cidrs \in {Nowhere} \cup SUBSET Entries,
           NEW more, more = [said EXCEPT ![u] = cidrs]
    PROVE  Gathered(more) =
               IF cidrs = Nowhere THEN Gathered(said) ELSE Gathered(said) \cup cidrs
<1>1. more[u] = cidrs /\ \A v \in Urls \ {u} : more[v] = said[v]
  OBVIOUS
<1>2. CASE cidrs = Nowhere
  <2>1. \A v \in Urls : more[v] = said[v]
    BY <1>1, <1>2
  <2> QED BY <1>2, <2>1 DEF Gathered
<1>3. CASE cidrs # Nowhere
  <2>1. \A p : p \in Gathered(more) <=> \E v \in Urls : more[v] # Nowhere /\ p \in more[v]
    BY DEF Gathered
  <2>2. \A p : p \in Gathered(said) <=> \E v \in Urls : said[v] # Nowhere /\ p \in said[v]
    BY DEF Gathered
  <2>3. \A p : p \in Gathered(more) <=> p \in Gathered(said) \/ p \in cidrs
    BY <1>1, <1>3, <2>1, <2>2
  <2> QED BY <1>3, <2>3
<1> QED BY <1>2, <1>3

\* A refresh begins (ensureFresh, refresh).
LEMMA EnsureFreshKeeps ==
    ASSUME IpInv, EnsureFresh
    PROVE  IpInv'
<1>1. /\ refreshing' = 1 /\ collected' = {} /\ answers' = NoAnswers
      /\ UNCHANGED <<hour, table, loadedAt, basis>>
  BY DEF EnsureFresh
<1>2. IpTypeOK'
  <2>1. 1 \in 0 .. ListCount
    BY IpRangesAssumption
  <2> QED BY <1>1, <2>1, NoAnswersType DEF IpInv, IpTypeOK
<1>3. TableFollows'
  <2>1. Gathered(answers)' = {}
    BY <1>1, NoAnswersType DEF Gathered
  <2>2. \A u \in Urls : answers'[u] = Nowhere
    BY <1>1 DEF NoAnswers
  <2>3. IF table' = Nowhere THEN basis' = NoAnswers ELSE table' = BuildTable(Said')
    BY <1>1 DEF IpInv, TableFollows, Said
  <2> QED BY <1>1, <2>1, <2>2, <2>3 DEF TableFollows, BuildTable
<1> QED BY <1>2, <1>3 DEF IpInv

\* A list answers or fails, and the last one publishes (refresh).
LEMMA FetchListKeeps ==
    ASSUME IpInv, FetchList
    PROVE  IpInv'
<1>1. PICK cidrs \in {Nowhere} \cup SUBSET Entries :
        LET all == IF cidrs = Nowhere THEN collected ELSE collected \cup cidrs
            said == [answers EXCEPT ![refreshing] = cidrs]
        IN  \/ /\ refreshing < ListCount
               /\ refreshing' = refreshing + 1
               /\ collected' = all /\ answers' = said
               /\ UNCHANGED <<table, loadedAt, basis>>
            \/ /\ refreshing = ListCount
               /\ refreshing' = 0
               /\ collected' = {} /\ answers' = NoAnswers
               /\ Publish(all, said)
  BY DEF FetchList
<1> DEFINE all == IF cidrs = Nowhere THEN collected ELSE collected \cup cidrs
           said == [answers EXCEPT ![refreshing] = cidrs]
<1>2. refreshing \in Urls /\ hour' = hour /\ refreshing \in Nat
  BY DEF FetchList, IpInv, IpTypeOK, Urls
<1>3. /\ said \in [Urls -> {Nowhere} \cup SUBSET Entries]
      /\ \A u \in Urls : u > refreshing => said[u] = Nowhere
  BY <1>2 DEF IpInv, IpTypeOK, TableFollows, Urls
<1>4. all = Gathered(said) /\ all \subseteq Entries
  <2>1. all \subseteq Entries
    BY DEF IpInv, IpTypeOK
  <2>2. answers[refreshing] = Nowhere /\ collected = Gathered(answers)
    BY <1>2 DEF IpInv, TableFollows, Urls
  <2>3. answers \in [Urls -> {Nowhere} \cup SUBSET Entries]
    BY DEF IpInv, IpTypeOK
  <2>4. Gathered([answers EXCEPT ![refreshing] = cidrs]) =
          IF cidrs = Nowhere THEN Gathered(answers) ELSE Gathered(answers) \cup cidrs
    <3> HIDE DEF all, said
    <3>1. \A old \in [Urls -> {Nowhere} \cup SUBSET Entries], u \in Urls :
            old[u] = Nowhere =>
              \A more : more = [old EXCEPT ![u] = cidrs] =>
                Gathered(more) =
                  IF cidrs = Nowhere THEN Gathered(old) ELSE Gathered(old) \cup cidrs
      BY GatheredMore
    <3> HIDE DEF Gathered
    <3> QED BY <1>2, <2>2, <2>3, <3>1, Zenon
  <2> QED BY <2>1, <2>2, <2>4
<1> HIDE DEF all, said
<1>5. CASE /\ refreshing < ListCount
           /\ refreshing' = refreshing + 1
           /\ collected' = all /\ answers' = said
           /\ UNCHANGED <<table, loadedAt, basis>>
  <2>1. IpTypeOK'
    <3>1. refreshing' \in 0 .. ListCount
      BY <1>2, <1>5, IpRangesAssumption
    <3> QED BY <1>2, <1>3, <1>4, <1>5, <3>1 DEF IpInv, IpTypeOK
  <2>2. TableFollows'
    <3>1. Gathered(answers)' = all
      BY <1>4, <1>5 DEF Gathered
    <3>2. \A u \in Urls : u >= refreshing' => answers'[u] = Nowhere
      BY <1>2, <1>3, <1>5 DEF Urls
    <3>3. IF table' = Nowhere THEN basis' = NoAnswers ELSE table' = BuildTable(Said')
      BY <1>5 DEF IpInv, TableFollows, Said
    <3> QED BY <1>5, <3>1, <3>2, <3>3 DEF TableFollows, BuildTable
  <2> QED BY <2>1, <2>2 DEF IpInv
<1>6. CASE /\ refreshing = ListCount
           /\ refreshing' = 0
           /\ collected' = {} /\ answers' = NoAnswers
           /\ Publish(all, said)
  <2>1. CASE all # {}
    <3>1. table' = BuildTable(all) /\ loadedAt' = hour /\ basis' = said
      BY <1>6, <2>1 DEF Publish
    <3>2. table' \in SUBSET Entries
      BY <1>4, <3>1 DEF BuildTable
    <3>3. IpTypeOK'
      BY <1>2, <1>3, <1>6, <3>1, <3>2, NoAnswersType, IpRangesAssumption DEF IpInv, IpTypeOK
    <3>4. Said' = all
      BY <1>4, <3>1 DEF Said, Gathered
    <3>5. table' # Nowhere /\ BuildTable(Said)' = BuildTable(all)
      BY <3>2, <3>4, IpRangesAssumption DEF BuildTable
    <3> QED BY <1>6, <3>1, <3>3, <3>5 DEF IpInv, TableFollows
  <2>2. CASE all = {}
    <3>1. UNCHANGED <<table, basis>> /\ loadedAt' \in {hour, loadedAt}
      BY <1>6, <2>2 DEF Publish
    <3>2. IpTypeOK'
      BY <1>2, <1>6, <3>1, NoAnswersType, IpRangesAssumption DEF IpInv, IpTypeOK
    <3>3. IF table' = Nowhere THEN basis' = NoAnswers ELSE table' = BuildTable(Said')
      BY <3>1 DEF IpInv, TableFollows, Said
    <3> QED BY <1>6, <3>2, <3>3 DEF IpInv, TableFollows, BuildTable
  <2> QED BY <2>1, <2>2
<1> QED BY <1>1, <1>5, <1>6 DEF all, said

\* The table is made of what the lists of one refresh said, in whatever order
\* refreshes begin, fail and publish (ip-ranges.ts, refresh).
THEOREM IpInvariant == IpSpec => []IpInv
<1>1. IpInit => IpInv
  BY IpInitial
<1>2. IpInv /\ [IpNext]_ipVars => IpInv'
  <2> SUFFICES ASSUME IpInv, [IpNext]_ipVars PROVE IpInv'
    OBVIOUS
  <2>1. CASE EnsureFresh
    BY <2>1, EnsureFreshKeeps
  <2>2. CASE FetchList
    BY <2>2, FetchListKeeps
  <2>3. CASE HourPasses
    <3>1. hour' = hour + 1
          /\ UNCHANGED <<table, loadedAt, refreshing, collected, answers, basis>>
      BY <2>3 DEF HourPasses
    <3>2. IpTypeOK'
      BY <3>1 DEF IpInv, IpTypeOK
    <3>3. TableFollows'
      BY <3>1 DEF IpInv, TableFollows, Gathered, Said, BuildTable
    <3> QED BY <3>2, <3>3 DEF IpInv
  <2>4. CASE UNCHANGED ipVars
    <3>1. UNCHANGED <<hour, table, loadedAt, refreshing, collected, answers, basis>>
      BY <2>4 DEF ipVars
    <3>2. IpTypeOK'
      BY <3>1 DEF IpInv, IpTypeOK
    <3>3. TableFollows'
      BY <3>1 DEF IpInv, TableFollows, Gathered, Said, BuildTable
    <3> QED BY <3>2, <3>3 DEF IpInv
  <2> QED BY <2>1, <2>2, <2>3, <2>4 DEF IpNext
<1> QED BY <1>1, <1>2, PTL DEF IpSpec

\* The mask keeps the prefix's bits and no others.
LEMMA MaskComparesPrefix ==
    ASSUME NEW a \in Address, NEW p \in Prefix, p.bits <= Width, p.family = a.family
    PROVE  InPrefix(a.number, p) <=> StartsWith(a, p)
<1> DEFINE mask == Shifted(Ones, Width - p.bits)
<1>1. a.number \in Word /\ p.number \in Word /\ p.bits \in Nat /\ Width \in Nat \ {0}
  BY IpRangesAssumption DEF Address, Prefix
<1>2. \A i \in Bits : mask[i] = IF i < Width - p.bits THEN 0 ELSE 1
  <2> SUFFICES ASSUME NEW i \in Bits
               PROVE  mask[i] = IF i < Width - p.bits THEN 0 ELSE 1
    OBVIOUS
  <2>1. ~(i < Width - p.bits) => i - (Width - p.bits) \in Bits
    BY <1>1 DEF Bits
  <2> QED BY <2>1 DEF Shifted, Ones
<1> HIDE DEF mask
<1>3. ASSUME NEW v \in Word, NEW w \in Word
      PROVE  And(v, mask) = And(w, mask)
                <=> \A i \in Width - p.bits .. Width - 1 : v[i] = w[i]
  <2>1. \A i \in Bits : v[i] \in {0, 1} /\ w[i] \in {0, 1}
    BY <1>3 DEF Word
  <2>2. And(v, mask) = And(w, mask) <=> \A i \in Bits : v[i] * mask[i] = w[i] * mask[i]
    BY DEF And
  <2>3. \A i \in Bits : v[i] * mask[i] = w[i] * mask[i]
                          <=> (i < Width - p.bits \/ v[i] = w[i])
    BY <1>2, <2>1
  <2>4. Width - p.bits .. Width - 1 = {i \in Bits : ~(i < Width - p.bits)}
    BY <1>1 DEF Bits
  <2> QED BY <2>2, <2>3, <2>4
<1>4. p.bits = 0 => Width - p.bits .. Width - 1 = {}
  BY <1>1
<1> QED BY <1>1, <1>3, <1>4 DEF InPrefix, StartsWith, mask

\* A verdict is about the newest lists that got any, and right about them,
\* however wide an address is (ip-ranges.ts, verify, ensureFresh).
THEOREM VerdictsAreHonest == IpSpec => []VerdictsHonest
<1>1. IpInv => VerdictsHonest
  <2> SUFFICES ASSUME IpInv, NEW a \in Address
               PROVE  Verdict(a) =
                        IF ~\E p \in Said : p.family = a.family /\ p.bits <= Width
                        THEN "unknown"
                        ELSE IF \E p \in Said : StartsWith(a, p) THEN "match"
                        ELSE "miss"
    BY DEF VerdictsHonest
  <2>1. CASE table = Nowhere
    <3>1. Said = {}
      BY <2>1 DEF IpInv, TableFollows, Said, NoAnswers
    <3> QED BY <2>1, <3>1 DEF Verdict
  <2>2. CASE table # Nowhere
    <3>1. Said \subseteq Prefix
      BY IpRangesAssumption DEF IpInv, IpTypeOK, Said
    <3>2. \A p : p \in OfFamily(a) <=> p \in Said /\ p.family = a.family /\ p.bits <= Width
      BY <2>2 DEF IpInv, TableFollows, BuildTable, OfFamily
    <3>3. (\E p \in OfFamily(a) : InPrefix(a.number, p)) <=> \E p \in Said : StartsWith(a, p)
      <4>1. \A p \in Said : p.family = a.family /\ p.bits <= Width =>
                              (InPrefix(a.number, p) <=> StartsWith(a, p))
        BY <3>1, MaskComparesPrefix
      <4>2. \A p : StartsWith(a, p) => p.family = a.family /\ p.bits <= Width
        BY DEF StartsWith
      <4> QED BY <3>2, <4>1, <4>2
    <3>4. OfFamily(a) = {} <=> ~\E p \in Said : p.family = a.family /\ p.bits <= Width
      BY <3>2
    <3> QED BY <2>2, <3>3, <3>4 DEF Verdict
  <2> QED BY <2>1, <2>2
<1> QED BY <1>1, IpInvariant, PTL

(***************************************************************************)
(* McpMiddleware: the layers around the handlers.                          *)
(***************************************************************************)

\* The layers that the installation puts around every handler.
Owns == {<<"viewListMeta">>, <<"analytics", "viewListMeta">>}

\* What is registered stays as it is once it was applied; and handlers are bare
\* until they are instrumented, and wrapped from then on.
Installed ==
    /\ registered \in Seq(Layers)
    /\ \A i, j \in 1 .. Len(registered) : registered[i] = registered[j] => i = j
    /\ applied \in BOOLEAN /\ installing \in BOOLEAN
    /\ serving \in BOOLEAN /\ early \in BOOLEAN
    /\ installing => applied
    /\ serving => applied /\ (installing => early)
    /\ IF applied /\ ~installing
       THEN /\ \E own \in Owns : around = own \o registered
            /\ handlers \in [Methods -> {Unset} \cup Seq(Layers \cup OwnLayers)]
            /\ \A m \in Methods : handlers[m] \in {Unset, Only(around, LayersFor(m))}
       ELSE around = Unset /\ handlers \in [Methods -> {Unset, <<>>}]

\* A layer's next() takes the request one layer further, and the last one's to
\* the handler.
Passing(q) ==
    /\ q.method \in Methods
    /\ q.layers \in Seq(Layers \cup OwnLayers)
    /\ q.index \in 0 .. Len(q.layers)
    /\ \/ q.handled = 0 /\ q.index # 0 /\ q.nexted = 1 .. q.index - 1
       \/ q.handled = 1 /\ q.index = Len(q.layers) /\ q.nexted = 1 .. q.index

\* What a request may be: not yet called, or on its way.
RequestRecord == [method : Methods \cup {Unset}, layers : {Unset} \cup Seq(Layers \cup OwnLayers),
           index : Nat, nexted : SUBSET Nat, handled : Nat]

\* Every request has come in by order through its layers.
RequestsPass ==
    /\ request \in [McpCalls -> RequestRecord]
    /\ \A c \in McpCalls : IF request[c].layers = Unset THEN request[c] = NotCalled
                           ELSE Passing(request[c])

\* Whoever was let in when everything was installed passes what was installed.
Wrapped ==
    ~early =>
        \A c \in McpCalls : request[c].layers # Unset =>
            /\ applied /\ ~installing
            /\ request[c].layers = Only(around, LayersFor(request[c].method))

\* The inductive invariant.
MiddlewareInv == Installed /\ RequestsPass /\ Wrapped

\* At first nothing is registered, and nobody is served.
LEMMA MiddlewareInitial == MiddlewareInit => MiddlewareInv
<1> SUFFICES ASSUME MiddlewareInit PROVE MiddlewareInv
  OBVIOUS
<1>1. Installed
  <2>1. registered \in Seq(Layers) /\ Len(registered) = 0
    BY EmptySeq DEF MiddlewareInit
  <2>2. \A i, j \in 1 .. Len(registered) : registered[i] = registered[j] => i = j
    BY <2>1
  <2> QED BY <2>1, <2>2 DEF MiddlewareInit, Installed
<1>2. RequestsPass
  BY DEF MiddlewareInit, RequestsPass, RequestRecord, NotCalled
<1>3. Wrapped
  BY DEF MiddlewareInit, Wrapped, NotCalled
<1> QED BY <1>1, <1>2, <1>3 DEF MiddlewareInv

\* One layer deeper, or to the handler.
LEMMA GoingDeeper ==
    ASSUME NEW q \in RequestRecord, NEW c \in McpCalls, RequestsPass, q.layers # Unset, Deeper(c, q),
           q.method \in Methods, q.handled = 0,
           q.index \in 0 .. Len(q.layers), q.nexted = 1 .. q.index
    PROVE  /\ RequestsPass' /\ request'[c].layers = q.layers /\ request'[c].method = q.method
           /\ \A d \in McpCalls \ {c} : request'[d] = request[d]
<1>1. q.layers \in Seq(Layers \cup OwnLayers) /\ Len(q.layers) \in Nat
  BY DEF RequestRecord
<1> DEFINE p == IF q.index < Len(q.layers) THEN [q EXCEPT !.index = @ + 1]
                ELSE [q EXCEPT !.handled = @ + 1]
<1>2. p \in RequestRecord /\ p.layers = q.layers /\ p.method = q.method /\ p.nexted = q.nexted
  BY <1>1 DEF RequestRecord
<1>3. Passing(p)
  <2>1. CASE q.index < Len(q.layers)
    <3>1. p.index = q.index + 1 /\ p.handled = 0
      BY <2>1 DEF RequestRecord
    <3> HIDE DEF p
    <3> QED BY <1>1, <1>2, <2>1, <3>1 DEF Passing
  <2>2. CASE ~(q.index < Len(q.layers))
    <3>1. p.index = q.index /\ p.handled = 1
      BY <2>2 DEF RequestRecord
    <3> HIDE DEF p
    <3> QED BY <1>1, <1>2, <2>2, <3>1 DEF Passing
  <2> QED BY <2>1, <2>2
<1>4. request' = [request EXCEPT ![c] = p]
  BY DEF Deeper
<1> HIDE DEF p
<1> QED BY <1>2, <1>3, <1>4 DEF RequestsPass

\* A request arrives and enters its outermost layer, if it has one.
LEMMA ArriveKeeps ==
    ASSUME MiddlewareInv, NEW c \in McpCalls, NEW m \in Methods, Arrive(c, m)
    PROVE  MiddlewareInv'
<1> DEFINE q == [NotCalled EXCEPT !.method = m, !.layers = handlers[m]]
<1>1. /\ serving /\ handlers[m] # Unset /\ Deeper(c, q)
      /\ UNCHANGED <<registered, applied, installing, around, handlers, serving, early>>
  BY DEF Arrive
<1>2. handlers[m] \in Seq(Layers \cup OwnLayers)
  BY <1>1, EmptySeq DEF MiddlewareInv, Installed
<1>3. q \in RequestRecord /\ q.layers = handlers[m] /\ q.method = m /\ q.handled = 0
      /\ q.index = 0 /\ q.nexted = {}
  BY <1>2 DEF RequestRecord, NotCalled
<1> HIDE DEF q
<1>4. 0 \in 0 .. Len(q.layers) /\ {} = 1 .. 0
  BY <1>2, <1>3, LenProperties
<1>5. /\ RequestsPass' /\ request'[c].layers = handlers[m] /\ request'[c].method = m
      /\ \A d \in McpCalls \ {c} : request'[d] = request[d]
  BY <1>1, <1>3, <1>4, GoingDeeper DEF MiddlewareInv
<1>6. Installed'
  BY <1>1 DEF MiddlewareInv, Installed, LayersFor
<1>7. Wrapped'
  <2> SUFFICES ASSUME ~early, NEW d \in McpCalls, request'[d].layers # Unset
               PROVE  /\ applied /\ ~installing
                      /\ request'[d].layers = Only(around, LayersFor(request'[d].method))
    BY <1>1 DEF Wrapped, LayersFor
  <2>1. CASE d = c
    BY <1>1, <1>5, <2>1 DEF MiddlewareInv, Installed
  <2>2. CASE d # c
    BY <1>5, <2>2 DEF MiddlewareInv, Wrapped
  <2> QED BY <2>1, <2>2
<1> QED BY <1>5, <1>6, <1>7 DEF MiddlewareInv

\* A layer's next() is called for the first time.
LEMMA CallNextKeeps ==
    ASSUME MiddlewareInv, NEW c \in McpCalls, NEW i, CallNext(c, i)
    PROVE  MiddlewareInv'
<1> DEFINE q == [request[c] EXCEPT !.nexted = @ \cup {i}]
<1>1. /\ request[c].layers # Unset /\ i \in 1 .. request[c].index /\ i \notin request[c].nexted
      /\ Deeper(c, q)
      /\ UNCHANGED <<registered, applied, installing, around, handlers, serving, early>>
  BY DEF CallNext
<1>2. Passing(request[c]) /\ request[c] \in RequestRecord /\ RequestsPass
  BY <1>1 DEF MiddlewareInv, RequestsPass
<1>3. /\ request[c].handled = 0 /\ request[c].nexted = 1 .. request[c].index - 1
      /\ i = request[c].index /\ request[c].index \in Nat
  BY <1>1, <1>2 DEF Passing, RequestRecord
<1>4. q.nexted = 1 .. request[c].index /\ q.nexted \in SUBSET Nat
  <2>1. q.nexted = request[c].nexted \cup {i}
    BY <1>2 DEF RequestRecord
  <2>2. (1 .. request[c].index - 1) \cup {request[c].index} = 1 .. request[c].index
    BY <1>1, <1>3
  <2> QED BY <1>3, <2>1, <2>2
<1>5. /\ q \in RequestRecord /\ q.layers = request[c].layers /\ q.method = request[c].method
      /\ q.handled = request[c].handled /\ q.index = request[c].index
  BY <1>2, <1>4 DEF RequestRecord
<1> HIDE DEF q
<1>6. /\ RequestsPass' /\ request'[c].layers = request[c].layers
      /\ request'[c].method = request[c].method
      /\ \A d \in McpCalls \ {c} : request'[d] = request[d]
  <2>1. q.index \in 0 .. Len(q.layers) /\ q.method \in Methods /\ q.nexted = 1 .. q.index
    BY <1>2, <1>4, <1>5 DEF Passing
  <2> QED BY <1>1, <1>2, <1>3, <1>5, <2>1, GoingDeeper
<1>7. Installed'
  BY <1>1 DEF MiddlewareInv, Installed, LayersFor
<1>8. Wrapped'
  <2> SUFFICES ASSUME ~early, NEW d \in McpCalls, request'[d].layers # Unset
               PROVE  /\ applied /\ ~installing
                      /\ request'[d].layers = Only(around, LayersFor(request'[d].method))
    BY <1>1 DEF Wrapped, LayersFor
  <2>1. request'[d].layers = request[d].layers /\ request'[d].method = request[d].method
    BY <1>6
  <2> QED BY <2>1 DEF MiddlewareInv, Wrapped
<1> QED BY <1>6, <1>7, <1>8 DEF MiddlewareInv

\* Middleware is registered, before it is applied.
LEMMA RegisterKeeps ==
    ASSUME MiddlewareInv, NEW l \in Layers, Register(l)
    PROVE  MiddlewareInv'
<1>1. /\ ~applied /\ l \notin ToSet(registered) /\ registered' = Append(registered, l)
      /\ UNCHANGED <<applied, installing, around, handlers, serving, early, request>>
  BY DEF Register
<1>2. /\ registered \in Seq(Layers) /\ Len(registered) \in Nat
      /\ \A i, j \in 1 .. Len(registered) : registered[i] = registered[j] => i = j
      /\ \A i \in 1 .. Len(registered) : registered[i] # l
  <2>1. registered \in Seq(Layers)
    BY DEF MiddlewareInv, Installed
  <2>2. Len(registered) \in Nat /\ DOMAIN registered = 1 .. Len(registered)
    BY <2>1, LenProperties
  <2> QED BY <1>1, <2>1, <2>2 DEF MiddlewareInv, Installed, ToSet
<1>3. /\ registered' \in Seq(Layers) /\ Len(registered') = Len(registered) + 1
      /\ \A i \in 1 .. Len(registered) : registered'[i] = registered[i]
      /\ registered'[Len(registered) + 1] = l
  BY <1>1, <1>2, AppendProperties
<1>4. \A i, j \in 1 .. Len(registered') : registered'[i] = registered'[j] => i = j
  <2> SUFFICES ASSUME NEW i \in 1 .. Len(registered) + 1, NEW j \in 1 .. Len(registered) + 1,
                      registered'[i] = registered'[j]
               PROVE  i = j
    BY <1>3
  <2>1. CASE i \in 1 .. Len(registered) /\ j \in 1 .. Len(registered)
    BY <1>2, <1>3, <2>1
  <2>2. CASE i = Len(registered) + 1 \/ j = Len(registered) + 1
    BY <1>2, <1>3, <2>2
  <2> QED BY <1>2, <2>1, <2>2
<1>5. Installed'
  BY <1>1, <1>3, <1>4 DEF MiddlewareInv, Installed
<1>6. RequestsPass' /\ Wrapped'
  BY <1>1 DEF MiddlewareInv, RequestsPass, Wrapped, Passing, LayersFor
<1> QED BY <1>5, <1>6 DEF MiddlewareInv

\* run() or connect() marks the middleware as applied.
LEMMA ApplyKeeps ==
    ASSUME MiddlewareInv, Apply
    PROVE  MiddlewareInv'
<1>1. /\ ~applied /\ applied' = TRUE /\ installing' = TRUE
      /\ UNCHANGED <<registered, around, handlers, serving, early, request>>
  BY DEF Apply
<1>2. Installed'
  BY <1>1 DEF MiddlewareInv, Installed
<1>3. RequestsPass'
  BY <1>1 DEF MiddlewareInv, RequestsPass, Passing
<1>4. Wrapped'
  BY <1>1 DEF MiddlewareInv, Wrapped
<1> QED BY <1>2, <1>3, <1>4 DEF MiddlewareInv

\* A connect() finds the mark.
LEMMA ConnectAgainKeeps ==
    ASSUME MiddlewareInv, ConnectAgain
    PROVE  MiddlewareInv'
<1>1. /\ applied /\ serving' = TRUE /\ early' = (early \/ installing)
      /\ UNCHANGED <<registered, applied, installing, around, handlers, request>>
  BY DEF ConnectAgain
<1>2. Installed'
  BY <1>1 DEF MiddlewareInv, Installed, LayersFor
<1>3. RequestsPass'
  BY <1>1 DEF MiddlewareInv, RequestsPass, Passing
<1>4. Wrapped'
  BY <1>1 DEF MiddlewareInv, Wrapped, LayersFor
<1> QED BY <1>2, <1>3, <1>4 DEF MiddlewareInv

\* What is put around a handler are layers.
LEMMA AroundType ==
    ASSUME NEW own \in Owns, registered \in Seq(Layers)
    PROVE  /\ own \o registered \in Seq(Layers \cup OwnLayers)
           /\ \A m : Only(own \o registered, LayersFor(m)) \in Seq(Layers \cup OwnLayers)
<1>1. own \in Seq(Layers \cup OwnLayers)
  <2>1. ASSUME NEW U, OwnLayers \subseteq U PROVE own \in Seq(U)
    <3>1. "analytics" \in U /\ "viewListMeta" \in U
      BY <2>1 DEF OwnLayers
    <3>2. CASE own = <<"viewListMeta">>
      BY <3>1, <3>2
    <3>3. CASE own = <<"analytics", "viewListMeta">>
      BY <3>1, <3>3
    <3> QED BY <3>2, <3>3 DEF Owns
  <2> QED BY <2>1
<1>2. registered \in Seq(Layers \cup OwnLayers)
  BY SeqMonotonic
<1>3. own \o registered \in Seq(Layers \cup OwnLayers)
  BY <1>1, <1>2, ConcatProperties
<1> QED BY <1>3, OnlyType

\* A handler is set, bare or wrapped.
LEMMA SetHandlerKeeps ==
    ASSUME MiddlewareInv, NEW m \in Methods, SetHandler(m)
    PROVE  MiddlewareInv'
<1>1. /\ handlers' = [handlers EXCEPT ![m] =
                        IF around = Unset THEN <<>> ELSE Chain(m, around, <<>>)]
      /\ UNCHANGED <<registered, applied, installing, around, serving, early, request>>
  BY DEF SetHandler
<1>2. Installed'
  <2>1. CASE applied /\ ~installing
    <3>1. PICK own \in Owns : around = own \o registered
      BY <2>1 DEF MiddlewareInv, Installed
    <3>2. /\ around \in Seq(Layers \cup OwnLayers)
          /\ \A k : Only(around, LayersFor(k)) \in Seq(Layers \cup OwnLayers)
      BY <3>1, AroundType DEF MiddlewareInv, Installed
    <3>3. around # Unset
      BY <3>2, MiddlewareAssumption
    <3>4. handlers' = [handlers EXCEPT ![m] = Only(around, LayersFor(m))]
      BY <1>1, <3>2, <3>3, ConcatEmptySeq DEF Chain
    <3>5. /\ handlers' \in [Methods -> {Unset} \cup Seq(Layers \cup OwnLayers)]
          /\ \A k \in Methods : handlers'[k] \in {Unset, Only(around, LayersFor(k))}
      BY <2>1, <3>2, <3>4 DEF MiddlewareInv, Installed
    <3> QED BY <1>1, <2>1, <3>5 DEF MiddlewareInv, Installed, LayersFor
  <2>2. CASE ~(applied /\ ~installing)
    <3>1. around = Unset /\ handlers' = [handlers EXCEPT ![m] = <<>>]
      BY <1>1, <2>2 DEF MiddlewareInv, Installed
    <3> QED BY <1>1, <2>2, <3>1 DEF MiddlewareInv, Installed
  <2> QED BY <2>1, <2>2
<1>3. RequestsPass'
  BY <1>1 DEF MiddlewareInv, RequestsPass, Passing
<1>4. Wrapped'
  BY <1>1 DEF MiddlewareInv, Wrapped, LayersFor
<1> QED BY <1>2, <1>3, <1>4 DEF MiddlewareInv

\* The handlers there are, and the maps, are instrumented.
LEMMA InstrumentKeeps ==
    ASSUME MiddlewareInv, Instrument
    PROVE  MiddlewareInv'
<1>1. PICK own \in Owns :
        /\ around' = own \o registered
        /\ handlers' = [m \in Methods |-> IF handlers[m] = Unset THEN Unset
                                          ELSE Chain(m, own \o registered, handlers[m])]
  BY DEF Instrument, Owns
<1>2. /\ installing /\ installing' = FALSE /\ serving' = TRUE
      /\ UNCHANGED <<registered, applied, early, request>>
  BY DEF Instrument
<1>3. /\ around' \in Seq(Layers \cup OwnLayers)
      /\ \A m : Only(around', LayersFor(m)) \in Seq(Layers \cup OwnLayers)
  BY <1>1, AroundType DEF MiddlewareInv, Installed
<1>4. \A m \in Methods : handlers'[m] \in {Unset, Only(around', LayersFor(m))}
  <2> SUFFICES ASSUME NEW m \in Methods, handlers[m] # Unset
               PROVE  handlers'[m] = Only(around', LayersFor(m))
    BY <1>1
  <2>1. handlers[m] = <<>>
    BY <1>2 DEF MiddlewareInv, Installed
  <2> QED BY <1>1, <1>3, <2>1, ConcatEmptySeq DEF Chain
<1>5. handlers' \in [Methods -> {Unset} \cup Seq(Layers \cup OwnLayers)]
  BY <1>1, <1>3, <1>4
<1>6. Installed'
  <2>1. \A m \in Methods : handlers'[m] \in {Unset, Only(around, LayersFor(m))'}
    BY <1>4 DEF LayersFor
  <2> QED BY <1>1, <1>2, <1>5, <2>1 DEF MiddlewareInv, Installed
<1>7. RequestsPass'
  BY <1>2 DEF MiddlewareInv, RequestsPass, Passing
<1>8. Wrapped'
  BY <1>2 DEF MiddlewareInv, Wrapped
<1> QED BY <1>6, <1>7, <1>8 DEF MiddlewareInv

\* Whatever is registered, set and connected in whatever order, handlers are bare
\* until they are instrumented and wrapped from then on, and each request is where
\* its layers have called next() to (server/middleware.ts, server/server.ts).
THEOREM MiddlewareInvariant == MiddlewareSpec => []MiddlewareInv
<1>1. MiddlewareInit => MiddlewareInv
  BY MiddlewareInitial
<1>2. MiddlewareInv /\ [MiddlewareNext]_middlewareVars => MiddlewareInv'
  <2> SUFFICES ASSUME MiddlewareInv, [MiddlewareNext]_middlewareVars
               PROVE  MiddlewareInv'
    OBVIOUS
  <2>1. CASE \E l \in Layers : Register(l)
    BY <2>1, RegisterKeeps
  <2>2. CASE \E m \in Methods : SetHandler(m)
    BY <2>2, SetHandlerKeeps
  <2>3. CASE Apply
    BY <2>3, ApplyKeeps
  <2>4. CASE Instrument
    BY <2>4, InstrumentKeeps
  <2>5. CASE ConnectAgain
    BY <2>5, ConnectAgainKeeps
  <2>6. CASE \E c \in McpCalls, m \in Methods : Arrive(c, m)
    BY <2>6, ArriveKeeps
  <2>7. CASE \E c \in McpCalls : \E i \in 1 .. Len(registered) + 2 : CallNext(c, i)
    BY <2>7, CallNextKeeps
  <2>8. CASE UNCHANGED middlewareVars
    <3>1. Installed'
      BY <2>8 DEF middlewareVars, MiddlewareInv, Installed, LayersFor
    <3>2. RequestsPass'
      BY <2>8 DEF middlewareVars, MiddlewareInv, RequestsPass, Passing
    <3>3. Wrapped'
      BY <2>8 DEF middlewareVars, MiddlewareInv, Wrapped, LayersFor
    <3> QED BY <3>1, <3>2, <3>3 DEF MiddlewareInv
  <2> QED BY <2>1, <2>2, <2>3, <2>4, <2>5, <2>6, <2>7, <2>8 DEF MiddlewareNext
<1> QED BY <1>1, <1>2, PTL DEF MiddlewareSpec

\* What is selected of different elements are different elements.
LEMMA OnlyInjective ==
    ASSUME NEW U, NEW S
    PROVE  \A s \in Seq(U) : IsInjective(s) => IsInjective(Only(s, S))
<1> DEFINE T == {s \in Seq(U) : IsInjective(s) => IsInjective(Only(s, S))}
<1>1. <<>> \in T
  BY OnlyOfNothing DEF IsInjective
<1>2. ASSUME NEW s \in Seq(U), NEW x \in U, s \in T PROVE Append(s, x) \in T
  <2>0. \A t \in Seq(U) :
          /\ DOMAIN t = 1 .. Len(t) /\ Len(t) \in Nat
          /\ DOMAIN Append(t, x) = 1 .. Len(t) + 1
          /\ \A i \in 1 .. Len(t) : Append(t, x)[i] = t[i]
          /\ Append(t, x)[Len(t) + 1] = x
    BY AppendProperties, LenProperties
  <2>1. SUFFICES ASSUME IsInjective(Append(s, x)) PROVE IsInjective(Only(Append(s, x), S))
    BY AppendProperties
  <2>2. IsInjective(s) /\ x \notin ToSet(s)
    <3>1. IsInjective(s)
      BY <2>0, <2>1 DEF IsInjective
    <3>2. x \notin ToSet(s)
      BY <2>0, <2>1 DEF IsInjective, ToSet
    <3> QED BY <3>1, <3>2
  <2>3. Only(s, S) \in Seq(U) /\ IsInjective(Only(s, S)) /\ x \notin ToSet(Only(s, S))
    BY <1>2, <2>2, OnlyType, OnlyMembers
  <2>4. IsInjective(Append(Only(s, S), x))
    <3> SUFFICES ASSUME NEW t \in Seq(U), IsInjective(t), x \notin ToSet(t)
                 PROVE  IsInjective(Append(t, x))
      BY <2>3
    <3> QED BY <2>0 DEF IsInjective, ToSet
  <2> QED BY <2>3, <2>4, OnlyOfAppend
<1> QED
  <2> HIDE DEF T
  <2>1. \A s \in Seq(U) : s \in T
    BY <1>1, <1>2, SequenceInduction
  <2> QED BY <2>1 DEF T

\* Around a handler stand the registered layers that cover its method, in order,
\* and no layer stands there twice.
LEMMA InstalledIsAnOnion ==
    ASSUME Installed, NEW own \in Owns, around = own \o registered, NEW m
    PROVE  /\ Only(Only(around, LayersFor(m)), Layers) = Only(registered, LayersFor(m))
           /\ IsInjective(Only(around, LayersFor(m)))
<1> DEFINE U == Layers \cup OwnLayers
           L == LayersFor(m)
<1>1. own \in Seq(OwnLayers) /\ registered \in Seq(Layers) /\ around \in Seq(U)
      /\ own \in Seq(U) /\ registered \in Seq(U)
  <2>1. own \in Seq(OwnLayers)
    <3>1. \A x, y \in OwnLayers : <<x>> \in Seq(OwnLayers) /\ <<x, y>> \in Seq(OwnLayers)
      OBVIOUS
    <3>2. "analytics" \in OwnLayers /\ "viewListMeta" \in OwnLayers
      BY DEF OwnLayers
    <3> QED BY <3>1, <3>2, Zenon DEF Owns
  <2>2. registered \in Seq(Layers)
    BY DEF Installed
  <2> QED BY <2>1, <2>2, SeqMonotonic, AroundType
<1>2. Only(Only(around, L), Layers) = Only(around, L \cap Layers)
  <2> HIDE DEF L, U
  <2>1. \A s \in Seq(U) : Only(Only(s, L), Layers) = Only(s, L \cap Layers)
    BY OnlyOfOnly
  <2> QED BY <1>1, <2>1
<1>3. Only(around, L \cap Layers) = Only(own, L \cap Layers) \o Only(registered, L \cap Layers)
  BY <1>1, OnlyOfConcat
<1>4. Only(own, L \cap Layers) = <<>>
  <2>1. OwnLayers \cap (L \cap Layers) = {}
    BY MiddlewareAssumption
  <2> QED BY <1>1, <2>1, OnlyNone
<1>5. Only(registered, L \cap Layers) = Only(registered, L)
  <2>1. Layers \cap (L \cap Layers) = Layers \cap L
    OBVIOUS
  <2> HIDE DEF L
  <2> QED BY <1>1, <2>1, OnlyByMembers
<1>6. Only(registered, L) \in Seq(U)
  BY <1>1, OnlyType
<1>7. IsInjective(around)
  <2>1. /\ Len(own) \in Nat /\ Len(registered) \in Nat /\ Len(around) = Len(own) + Len(registered)
        /\ DOMAIN around = 1 .. Len(around)
        /\ \A i \in 1 .. Len(own) : around[i] = own[i] /\ own[i] \in OwnLayers
        /\ \A i \in 1 .. Len(registered) :
             around[Len(own) + i] = registered[i] /\ registered[i] \in Layers
    BY <1>1, ConcatProperties, LenProperties, ElementOfSeq
  <2>2. \A i, j \in 1 .. Len(own) : own[i] = own[j] => i = j
    <3>1. CASE own = <<"viewListMeta">>
      BY <3>1
    <3>2. CASE own = <<"analytics", "viewListMeta">>
      BY <3>2
    <3> QED BY <3>1, <3>2 DEF Owns
  <2>3. \A i, j \in 1 .. Len(registered) : registered[i] = registered[j] => i = j
    BY DEF Installed
  <2>4. \A i \in 1 .. Len(own), j \in 1 .. Len(registered) : own[i] # registered[j]
    BY <2>1, MiddlewareAssumption
  <2>5. ASSUME NEW i \in 1 .. Len(around), NEW j \in 1 .. Len(around), around[i] = around[j]
        PROVE  i = j
    <3>1. CASE i <= Len(own) /\ j <= Len(own)
      BY <2>1, <2>2, <2>5, <3>1
    <3>2. CASE i > Len(own) /\ j > Len(own)
      <4>1. /\ i - Len(own) \in 1 .. Len(registered) /\ j - Len(own) \in 1 .. Len(registered)
            /\ Len(own) + (i - Len(own)) = i /\ Len(own) + (j - Len(own)) = j
        BY <2>1, <3>2
      <4> QED BY <2>1, <2>3, <2>5, <4>1
    <3>3. CASE i <= Len(own) /\ j > Len(own)
      <4>1. j - Len(own) \in 1 .. Len(registered) /\ Len(own) + (j - Len(own)) = j
        BY <2>1, <3>3
      <4> QED BY <2>1, <2>4, <2>5, <3>3, <4>1
    <3>4. CASE i > Len(own) /\ j <= Len(own)
      <4>1. i - Len(own) \in 1 .. Len(registered) /\ Len(own) + (i - Len(own)) = i
        BY <2>1, <3>4
      <4> QED BY <2>1, <2>4, <2>5, <3>4, <4>1
    <3> QED BY <2>1, <3>1, <3>2, <3>3, <3>4
  <2> QED BY <2>1, <2>5 DEF IsInjective
<1>8. IsInjective(Only(around, L))
  BY <1>1, <1>7, OnlyInjective
<1> QED BY <1>2, <1>3, <1>4, <1>5, <1>6, <1>8, ConcatEmptySeq

\* Every request passes each registered layer that covers its method, in order and
\* once, and reaches the handler once at most, for any number of layers, methods
\* and requests (server/middleware.ts, buildMiddlewareChain; server/server.ts,
\* applyMcpMiddleware).
THEOREM OnionsHold == MiddlewareSpec => []OnionHolds
<1>1. MiddlewareInv => OnionHolds
  <2> SUFFICES ASSUME MiddlewareInv, ~early, NEW c \in McpCalls, request[c].layers # Unset
               PROVE  /\ Only(request[c].layers, Layers) =
                           Only(registered, LayersFor(request[c].method))
                      /\ IsInjective(request[c].layers)
                      /\ request[c].handled <= 1
                      /\ request[c].handled = 1 => request[c].nexted = DOMAIN request[c].layers
    BY DEF OnionHolds
  <2>1. PICK own \in Owns : around = own \o registered
    BY DEF MiddlewareInv, Wrapped, Installed
  <2>2. request[c].layers = Only(around, LayersFor(request[c].method))
    BY DEF MiddlewareInv, Wrapped
  <2>3. Passing(request[c])
    BY DEF MiddlewareInv, RequestsPass
  <2>4. DOMAIN request[c].layers = 1 .. Len(request[c].layers)
    BY <2>3, LenProperties DEF Passing
  <2>5. /\ request[c].handled <= 1
        /\ request[c].handled = 1 => request[c].nexted = DOMAIN request[c].layers
    BY <2>3, <2>4 DEF Passing
  <2> QED BY <2>1, <2>2, <2>5, InstalledIsAnOnion DEF MiddlewareInv
<1> QED BY <1>1, MiddlewareInvariant, PTL

\* A request has its method and its layers from the handlers, and the calls of
\* next() that were made are of the layers it has entered.
LEMMA MiddlewareTyped == MiddlewareInv => MiddlewareTypeOK
<1> SUFFICES ASSUME MiddlewareInv PROVE MiddlewareTypeOK
  OBVIOUS
<1>1. around \in {Unset} \cup Seq(Layers \cup OwnLayers)
  <2>1. CASE applied /\ ~installing
    <3>1. registered \in Seq(Layers) /\ \E own \in Owns : around = own \o registered
      BY <2>1 DEF MiddlewareInv, Installed
    <3> QED BY <3>1, AroundType
  <2>2. CASE ~(applied /\ ~installing)
    BY <2>2 DEF MiddlewareInv, Installed
  <2> QED BY <2>1, <2>2
<1>2. handlers \in [Methods -> {Unset} \cup Seq(Layers \cup OwnLayers)]
  <2>1. <<>> \in Seq(Layers \cup OwnLayers)
    OBVIOUS
  <2>2. CASE applied /\ ~installing
    BY <2>2 DEF MiddlewareInv, Installed
  <2>3. CASE ~(applied /\ ~installing)
    <3>1. handlers \in [Methods -> {Unset, <<>>}]
      BY <2>3 DEF MiddlewareInv, Installed
    <3> QED BY <2>1, <3>1
  <2> QED BY <2>2, <2>3
<1>3. ASSUME NEW c \in McpCalls
      PROVE  /\ request[c].method \in Methods \cup {Unset}
             /\ request[c].layers \in {Unset} \cup Seq(Layers \cup OwnLayers)
             /\ request[c].index \in Nat /\ request[c].handled \in Nat
             /\ request[c].nexted \subseteq 1 .. request[c].index
  <2>1. request[c] \in RequestRecord
    BY DEF MiddlewareInv, RequestsPass
  <2>2. request[c].nexted \subseteq 1 .. request[c].index
    <3>1. CASE request[c].layers = Unset
      <4>1. request[c] = NotCalled
        BY <3>1 DEF MiddlewareInv, RequestsPass
      <4> QED BY <4>1 DEF NotCalled
    <3>2. CASE request[c].layers # Unset
      <4>1. Passing(request[c])
        BY <3>2 DEF MiddlewareInv, RequestsPass
      <4>2. request[c].index \in Nat
        BY <2>1 DEF RequestRecord
      <4>3. \/ request[c].nexted = 1 .. request[c].index - 1
            \/ request[c].nexted = 1 .. request[c].index
        BY <4>1 DEF Passing
      <4> QED BY <4>2, <4>3
    <3> QED BY <3>1, <3>2
  <2> QED BY <2>1, <2>2 DEF RequestRecord
<1> QED BY <1>1, <1>2, <1>3 DEF MiddlewareTypeOK, MiddlewareInv, Installed

(***************************************************************************)
(* The parts beside each other: a behaviour of the surface is one of every *)
(* part, so what is true of a part alone is true of it there.              *)
(***************************************************************************)

\* A behaviour of the surface is one of every part, the one that moves and the
\* others, which stay as they are.
LEMMA PartsBehave ==
    SurfaceSpec =>
        /\ LimiterSpec
        /\ ResponseSpec
        /\ EdgeSpec
        /\ ViewSpec
        /\ IpSpec
        /\ TableSpec
        /\ TelemetrySpec
        /\ ControlSpec
        /\ FederatedSpec
        /\ SessionsSpec
        /\ MigrationsSpec
        /\ MiddlewareSpec
        /\ ToolCallsSpec
        /\ AdaptersSpec
        /\ StreamSpec
<1>1. SurfaceInit =>
        /\ LimiterInit
        /\ ResponseInit
        /\ EdgeInit
        /\ ViewInit
        /\ IpInit
        /\ SessionsTableInit
        /\ TelemetryInit
        /\ ControlInit
        /\ FederatedInit
        /\ SessionsInit
        /\ MigrationsInit
        /\ MiddlewareInit
        /\ ToolCallsInit
        /\ AdaptersInit
        /\ StreamInit
  BY DEF SurfaceInit
<1>2. [SurfaceNext]_SurfaceVars => [LimiterNext]_limiterVars
  BY DEF SurfaceNext, SurfaceVars
<1>3. [SurfaceNext]_SurfaceVars => [ResponseNext]_responseVars
  BY DEF SurfaceNext, SurfaceVars
<1>4. [SurfaceNext]_SurfaceVars => [EdgeNext]_edgeVars
  BY DEF SurfaceNext, SurfaceVars
<1>5. [SurfaceNext]_SurfaceVars => [ViewNext]_viewVars
  BY DEF SurfaceNext, SurfaceVars
<1>6. [SurfaceNext]_SurfaceVars => [IpNext]_ipVars
  BY DEF SurfaceNext, SurfaceVars
<1>7. [SurfaceNext]_SurfaceVars => [Store]_rows
  BY DEF SurfaceNext, SurfaceVars
<1>8. [SurfaceNext]_SurfaceVars => [TelemetryNext]_telemetryVars
  BY DEF SurfaceNext, SurfaceVars, TelemetryNext
<1>9. [SurfaceNext]_SurfaceVars => [ControlNext]_controlVars
  BY DEF SurfaceNext, SurfaceVars
<1>10. [SurfaceNext]_SurfaceVars => [FederatedNext]_federatedVars
  BY DEF SurfaceNext, SurfaceVars
<1>11. [SurfaceNext]_SurfaceVars => [SessionsNext]_sessionVars
  BY DEF SurfaceNext, SurfaceVars
<1>12. [SurfaceNext]_SurfaceVars => [MigrationsNext]_migrationVars
  BY DEF SurfaceNext, SurfaceVars
<1>13. [SurfaceNext]_SurfaceVars => [MiddlewareNext]_middlewareVars
  BY DEF SurfaceNext, SurfaceVars
<1>14. [SurfaceNext]_SurfaceVars => [ToolCallsNext]_toolCallVars
  BY DEF SurfaceNext, SurfaceVars
<1>15. [SurfaceNext]_SurfaceVars => [AdaptersNext]_adapterVars
  BY DEF SurfaceNext, SurfaceVars
<1>16. [SurfaceNext]_SurfaceVars => [StreamNext]_observeVars
  BY DEF SurfaceNext, SurfaceVars
<1> QED
  BY <1>1, <1>2, <1>3, <1>4, <1>5, <1>6, <1>7, <1>8, <1>9, <1>10, <1>11, <1>12,
     <1>13, <1>14, <1>15, <1>16, PTL
  DEF SurfaceSpec, LimiterSpec, ResponseSpec, EdgeSpec, ViewSpec, IpSpec,
      TableSpec, TelemetrySpec, ControlSpec, FederatedSpec, SessionsSpec,
      MigrationsSpec, MiddlewareSpec, ToolCallsSpec, AdaptersSpec, StreamSpec

\* Every part keeps its types and its bounds beside the others, for every value of
\* the constants: the limiter its buckets, a view its calls, the stream its rows.
THEOREM SurfaceTypesHold == SurfaceSpec => []SurfaceTypeOK
<1>1. SurfaceSpec => [](LimiterTypeOK /\ Cardinality(Tracked) <= MaxBuckets)
  BY PartsBehave, LimiterTypeCorrect, BucketsBounded, PTL
<1>2. SurfaceSpec => []ResponseTypeOK
  BY PartsBehave, ResponseTypesHold, PTL
<1>3. SurfaceSpec => []EdgeTypeOK
  <2>1. EdgeInv => EdgeTypeOK
    BY DEF EdgeInv
  <2> QED BY <2>1, PartsBehave, EdgeInvariant, PTL
<1>4. SurfaceSpec => []ViewTypeOK
  BY PartsBehave, ViewTypesHold, PTL
<1>5. SurfaceSpec => []IpTypeOK
  <2>1. IpInv => IpTypeOK
    BY DEF IpInv
  <2> QED BY <2>1, PartsBehave, IpInvariant, PTL
<1>6. SurfaceSpec => []RowsTypeOK
  BY PartsBehave, RowsTyped, PTL
<1>7. SurfaceSpec => []TelemetryTypeOK
  BY PartsBehave, TelemetryTyped, PTL
<1>8. SurfaceSpec => []ControlTypeOK
  <2>1. ControlInv => ControlTypeOK
    BY DEF ControlInv
  <2> QED BY <2>1, PartsBehave, ControlInvariant, PTL
<1>9. SurfaceSpec => []FederatedTypeOK
  <2>1. FederatedInv => FederatedTypeOK
    BY DEF FederatedInv
  <2> QED BY <2>1, PartsBehave, StagesHold, PTL
<1>10. SurfaceSpec => []SessionsTypeOK
  <2>1. SessionsInv => SessionsTypeOK
    BY DEF SessionsInv
  <2> QED BY <2>1, PartsBehave, DenialsHold, PTL
<1>11. SurfaceSpec => []MigrationsTypeOK
  <2>1. MigrationsInv => MigrationsTypeOK
    BY DEF MigrationsInv
  <2> QED BY <2>1, PartsBehave, MigrationsInvariant, PTL
<1>12. SurfaceSpec => []MiddlewareTypeOK
  BY PartsBehave, MiddlewareInvariant, MiddlewareTyped, PTL
<1>13. SurfaceSpec => []ToolCallsTypeOK
  <2>1. ToolCallsInv => ToolCallsTypeOK
    BY DEF ToolCallsInv
  <2> QED BY <2>1, PartsBehave, ToolCallsInvariant, PTL
<1>14. SurfaceSpec => []AdaptersTypeOK
  <2>1. AdaptersInv => AdaptersTypeOK
    BY DEF AdaptersInv
  <2> QED BY <2>1, PartsBehave, AdaptersInvariant, PTL
<1>15. SurfaceSpec => []StreamTypeOK
  BY PartsBehave, StreamTypesHold, PTL
<1>16. /\ LimiterTypeOK /\ Cardinality(Tracked) <= MaxBuckets
      /\ ResponseTypeOK
      /\ EdgeTypeOK
      /\ ViewTypeOK
      /\ IpTypeOK
      /\ RowsTypeOK
      /\ TelemetryTypeOK
      /\ ControlTypeOK
      /\ FederatedTypeOK
      /\ SessionsTypeOK
      /\ MigrationsTypeOK
      /\ MiddlewareTypeOK
      /\ ToolCallsTypeOK
      /\ AdaptersTypeOK
      /\ StreamTypeOK
       => SurfaceTypeOK
  BY DEF SurfaceTypeOK
<1> QED
  BY <1>1, <1>2, <1>3, <1>4, <1>5, <1>6, <1>7, <1>8, <1>9, <1>10, <1>11, <1>12,
     <1>13, <1>14, <1>15, <1>16, PTL

\* What each part promises, the surface promises: that the parts are checked in one
\* specification, with an idle state for those that do not move, hides nothing.
THEOREM SurfaceHolds ==
    SurfaceSpec =>
        /\ []LimiterHolds
        /\ []ResponseHolds
        /\ []NotOlderThanTtl
        /\ []ViewAgrees
        /\ []VerdictsHonest
        /\ []TelemetryHolds
        /\ []ControlHolds
        /\ []FlowYieldsOneGrant
        /\ []ScopesNeverWiden
        /\ []RevokedRefused
        /\ []DeletionsHold
        /\ []SchemaHolds
        /\ []OnionHolds
        /\ []CallsHold
        /\ []AdapterHolds
        /\ []StreamHolds
BY PartsBehave, BudgetsHold, ResponsesHold, CopiesAge, ViewsAgree,
   VerdictsAreHonest, TelemetryTells, TerminalTellsTruth, FlowsYieldOneGrant,
   ScopesStayNarrow, RevokedStayRefused, DeletionsStayWhole, SchemasHold,
   OnionsHold, LatestCallRendered, AnswersAndRowsAgree, StreamsHold, PTL
=============================================================================
