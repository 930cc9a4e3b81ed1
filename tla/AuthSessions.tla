---------------------------- MODULE AuthSessions -----------------------------
(***************************************************************************)
(* What the access tokens are worth once they are out: the chain of        *)
(* verifiers in front of /mcp, the sessions it records, and the API that   *)
(* revokes a session or deletes a user (auth-runtime.ts, auth-server.ts,   *)
(* auth-revocation.ts, auth-data-router.ts, storage/postgres.ts).          *)
(*                                                                         *)
(* A request's token passes the denylist, then the awaited verification of *)
(* its signature; the request goes on while the user and the session are   *)
(* written, fire and forget.  The API reads, deletes and denylists in      *)
(* steps of its own, and with the SQL storage every query's effect is a    *)
(* step that others may come between.  A session row is named by its       *)
(* token (its id is a hash of the subject and the token).                  *)
(***************************************************************************)
EXTENDS Naturals, FiniteSets

CONSTANTS
    Tokens,     \* bound: the access tokens there are
    Users,
    SubjectOf,  \* SubjectOf[t]: the subject t was minted for
    Calls,      \* bound: requests with a token at a time
    Admins,     \* bound: requests to the API at a time
    Nobody      \* no token, no user

ASSUME SessionsAssumption ==
    /\ SubjectOf \in [Tokens -> Users]
    /\ Nobody \notin Tokens \cup Users

VARIABLES
    life,      \* life[t]: not minted, live, or expired
    denied,    \* auth-revocation's map: the denylisted references
    users,     \* auth_users
    sessions,  \* auth_sessions
    call,      \* call[q]: a request with a token
    admin,     \* admin[a]: a request to the API
    revoked,   \* history: tokens that were denylisted since the start
    dropped,   \* history: rows dropped with their user since the start
    late       \* history: rows inserted while a deletion of their user was
               \*   under way, or by a request older than what befell them

sessionVars == <<life, denied, users, sessions, call, admin, revoked, dropped,
                 late>>

IdleCall == [phase |-> "idle", token |-> Nobody, stale |-> FALSE]
IdleAdmin == [phase |-> "idle", token |-> Nobody, user |-> Nobody, found |-> {}]

OwnedBy(u) == {t \in Tokens : SubjectOf[t] = u}

SessionsInit ==
    /\ life = [t \in Tokens |-> "unminted"]
    /\ denied = {}
    /\ users = {}
    /\ sessions = {}
    /\ call = [q \in Calls |-> IdleCall]
    /\ admin = [a \in Admins |-> IdleAdmin]
    /\ revoked = {}
    /\ dropped = {}
    /\ late = {}

-----------------------------------------------------------------------------
\* mintTokens(), here for a token of its own (two of a subject's tokens that
\* are minted within a second are one).
MintToken(t) ==
    /\ life[t] = "unminted"
    /\ life' = [life EXCEPT ![t] = "live"]
    /\ UNCHANGED <<denied, users, sessions, call, admin, revoked, dropped, late>>

\* A token's exp is reached.  Its entry in the denylist has the same horizon.
ExpireToken(t) ==
    /\ life[t] = "live"
    /\ life' = [life EXCEPT ![t] = "expired"]
    /\ UNCHANGED <<denied, users, sessions, call, admin, revoked, dropped, late>>

\* Mutant: whatever is looked up is evicted.
EvictEagerly(t) == denied' = denied \ {t}

\* isTokenRefRevoked(): an entry is evicted when it is looked up after its
\* horizon, and then does not count.
Evict(t) == denied' = IF life[t] = "expired" THEN denied \ {t} ELSE denied

\* The outermost verifier: the denylist, before anything is verified.
VerifyToken(q, t) ==
    /\ call[q] = IdleCall
    /\ life[t] # "unminted"
    /\ Evict(t)
    /\ call' = IF t \in denied'
               THEN call  \* 401
               ELSE [call EXCEPT ![q] = [phase |-> "verify", token |-> t,
                                         stale |-> FALSE]]
    /\ UNCHANGED <<life, users, sessions, admin, revoked, dropped, late>>

\* The signature is verified: the request is let through and the writes of the
\* recording verifier begin.  An expired token is refused.
Verified(q) ==
    /\ call[q].phase = "verify"
    /\ call' = IF life[call[q].token] = "live"
               THEN [call EXCEPT ![q].phase = "user"]
               ELSE [call EXCEPT ![q] = IdleCall]
    /\ UNCHANGED <<life, denied, users, sessions, admin, revoked, dropped, late>>

\* Mutant: the session goes first, so the user's write may fail behind it.
SessionFirst(q) ==
    /\ call[q].phase = "user"
    /\ sessions' = sessions \cup {call[q].token}
    /\ call' = [call EXCEPT ![q].phase = "session"]
    /\ UNCHANGED <<life, denied, users, admin, revoked, dropped, late>>

\* persistSession()'s first query, upsertUser.
UpsertUser(q) ==
    /\ call[q].phase = "user"
    /\ users' = users \cup {SubjectOf[call[q].token]}
    /\ call' = [call EXCEPT ![q].phase = "session"]
    /\ UNCHANGED <<life, denied, sessions, admin, revoked, dropped, late>>

\* A deletion of u has read its list and is not through.
Deleting(u) == \E a \in Admins : admin[a].user = u

\* And the second, recordSession: one row for the subject and the token.
RecordSession(q) ==
    /\ call[q].phase = "session"
    /\ LET t == call[q].token
       IN  /\ sessions' = sessions \cup {t}
           /\ dropped' = dropped \ {t}
           /\ late' = IF t \in sessions THEN late
                      ELSE IF call[q].stale \/ Deleting(SubjectOf[t])
                           THEN late \cup {t} ELSE late \ {t}
    /\ call' = [call EXCEPT ![q] = IdleCall]
    /\ UNCHANGED <<life, denied, users, admin, revoked>>

\* A write rejects: it is logged, the rest is not written.
PersistFails(q) ==
    /\ call[q].phase \in {"user", "session"}
    /\ call' = [call EXCEPT ![q] = IdleCall]
    /\ UNCHANGED <<life, denied, users, sessions, admin, revoked, dropped, late>>

-----------------------------------------------------------------------------
\* DELETE /sessions/:id reads the row.
LookUpSession(a, t) ==
    /\ admin[a] = IdleAdmin
    /\ admin' = [admin EXCEPT ![a] =
                   [phase |-> "delete", token |-> t, user |-> Nobody,
                    found |-> sessions \cap {t}]]
    /\ UNCHANGED <<life, denied, users, sessions, call, revoked, dropped, late>>

\* deleteSession() takes effect.
DeleteSession(a) ==
    /\ admin[a].phase = "delete"
    /\ sessions' = sessions \ {admin[a].token}
    /\ admin' = [admin EXCEPT ![a].phase = "deny"]
    /\ UNCHANGED <<life, denied, users, call, revoked, dropped, late>>

\* Mutant: nothing is denylisted.
DenyNothing(ts) == denied' = denied

\* revokeTokenRef for each of ts, until the expiry their rows state.
DenyTokens(ts) == denied' = denied \cup ts

\* Requests with one of ts that are under way from now on are out of date.
Overtaken(ts) ==
    call' = [q \in Calls |-> IF call[q].token \in ts
                             THEN [call[q] EXCEPT !.stale = TRUE] ELSE call[q]]

\* Its reply: the token the row named, if there was one, is denylisted and the
\* API answers that the session is revoked.
DenySession(a) ==
    /\ admin[a].phase = "deny"
    /\ DenyTokens(admin[a].found)
    /\ revoked' = revoked \cup admin[a].found
    /\ Overtaken(admin[a].found)
    /\ admin' = [admin EXCEPT ![a] = IdleAdmin]
    /\ UNCHANGED <<life, users, sessions, dropped, late>>

\* Mutant: the list is that of the last sessions, and leaves one out.
ListSome(a, u) ==
    /\ admin[a] = IdleAdmin
    /\ \E t \in Tokens :
        admin' = [admin EXCEPT ![a] =
                   [phase |-> "list", token |-> Nobody, user |-> u,
                    found |-> (sessions \cap OwnedBy(u)) \ {t}]]
    /\ UNCHANGED <<life, denied, users, sessions, call, revoked, dropped, late>>

\* DELETE /users/:sub reads the user's sessions.
ListSessions(a, u) ==
    /\ admin[a] = IdleAdmin
    /\ admin' = [admin EXCEPT ![a] =
                   [phase |-> "list", token |-> Nobody, user |-> u,
                    found |-> sessions \cap OwnedBy(u)]]
    /\ UNCHANGED <<life, denied, users, sessions, call, revoked, dropped, late>>

\* Mutant: the user's subject is denylisted in place of its tokens.
DenySubject(a) ==
    /\ admin[a].phase = "list"
    /\ denied' = denied \cup {admin[a].user}
    /\ revoked' = revoked \cup admin[a].found
    /\ Overtaken(admin[a].found)
    /\ admin' = [admin EXCEPT ![a].phase = "rows"]
    /\ UNCHANGED <<life, users, sessions, dropped, late>>

\* The list is there: each token on it is denylisted.
DenyListed(a) ==
    /\ admin[a].phase = "list"
    /\ DenyTokens(admin[a].found)
    /\ revoked' = revoked \cup admin[a].found
    /\ Overtaken(admin[a].found)
    /\ admin' = [admin EXCEPT ![a].phase = "rows"]
    /\ UNCHANGED <<life, users, sessions, dropped, late>>

\* deleteUser's first query drops every row of the user, those recorded since
\* the list was read too.
DropSessions(a) ==
    /\ admin[a].phase = "rows"
    /\ sessions' = sessions \ OwnedBy(admin[a].user)
    /\ dropped' = dropped \cup (sessions \cap OwnedBy(admin[a].user))
    /\ admin' = [admin EXCEPT ![a].phase = "user"]
    /\ UNCHANGED <<life, denied, users, call, revoked, late>>

\* And its second query the user.
DropUser(a) ==
    /\ admin[a].phase = "user"
    /\ users' = users \ {admin[a].user}
    /\ Overtaken(OwnedBy(admin[a].user))
    /\ admin' = [admin EXCEPT ![a] = IdleAdmin]
    /\ UNCHANGED <<life, denied, sessions, revoked, dropped, late>>

\* A query of the API rejects: 500, what was done stays done.
ApiFails(a) ==
    /\ admin[a].phase \in {"delete", "list", "rows", "user"}
    /\ admin' = [admin EXCEPT ![a] = IdleAdmin]
    /\ UNCHANGED <<life, denied, users, sessions, call, revoked, dropped, late>>

\* The process restarts: the denylist is gone, the tables stay.
SessionsRestart ==
    /\ denied' = {}
    /\ call' = [q \in Calls |-> IdleCall]
    /\ admin' = [a \in Admins |-> IdleAdmin]
    /\ revoked' = {}
    /\ dropped' = {}
    /\ UNCHANGED <<life, users, sessions, late>>

SessionsNext ==
    \/ SessionsRestart
    \/ \E t \in Tokens :
        \/ MintToken(t)
        \/ ExpireToken(t)
        \/ \E q \in Calls : VerifyToken(q, t)
        \/ \E a \in Admins : LookUpSession(a, t)
    \/ \E q \in Calls :
        \/ Verified(q)
        \/ UpsertUser(q)
        \/ RecordSession(q)
        \/ PersistFails(q)
    \/ \E a \in Admins :
        \/ DeleteSession(a)
        \/ DenySession(a)
        \/ DenyListed(a)
        \/ DropSessions(a)
        \/ DropUser(a)
        \/ ApiFails(a)
        \/ \E u \in Users : ListSessions(a, u)

SessionsSpec == SessionsInit /\ [][SessionsNext]_sessionVars

-----------------------------------------------------------------------------
\* Type invariant of the verifiers' and the API's state.
SessionsTypeOK ==
    /\ life \in [Tokens -> {"unminted", "live", "expired"}]
    /\ denied \subseteq Tokens
    /\ users \subseteq Users
    /\ sessions \subseteq Tokens
    /\ call \in [Calls -> [phase : {"idle", "verify", "user", "session"},
                           token : Tokens \cup {Nobody},
                           stale : BOOLEAN]]
    /\ admin \in [Admins -> [phase : {"idle", "delete", "deny", "list",
                                      "rows", "user"},
                             token : Tokens \cup {Nobody},
                             user : Users \cup {Nobody},
                             found : SUBSET Tokens]]
    /\ revoked \subseteq Tokens
    /\ dropped \subseteq Tokens
    /\ late \subseteq Tokens

\* Once a token is denylisted, no request that arrives with it is let through,
\* whether its entry is still there or was evicted at its expiry: only those
\* that were under way go on, and only they can record its session again.
RevokedRefused ==
    \A q \in Calls :
        /\ call[q].phase \in {"user", "session"}
        /\ call[q].token \in revoked
        => call[q].stale

\* Every session that goes with its user has its token denylisted, or lapsed,
\* whatever else is deleted or recorded meanwhile; all but a row that was
\* inserted after the deletion had read its list.
CascadeRevokes ==
    \A t \in dropped : t \in denied \/ life[t] = "expired" \/ t \in late

\* A row without its user is one that was inserted while the user was being
\* deleted: no failed write leaves one.
RowsHaveUsers == \A t \in sessions : SubjectOf[t] \in users \/ t \in late

\* Both at once: deletions take their tokens along, and leave no orphan.
DeletionsHold == CascadeRevokes /\ RowsHaveUsers
=============================================================================
