---------------------------- MODULE AgentSessions ---------------------------
(***************************************************************************)
(* Sessions, recovery and escalation (agent/sessions.ts) out of the rows   *)
(* of captured requests: the requests of an identity are put in order of   *)
(* time, those of one moment as they were stored, and scanned.             *)
(*                                                                         *)
(* The result is checked against what the words mean, with no order of     *)
(* scanning or storing: a session is a maximal chain of requests, each     *)
(* within the idle gap of another; a dead end is recovered if some later   *)
(* request of its identity was resolved within the window.  Where the two  *)
(* requests are of one moment, the order they were stored in decides       *)
(* whether the code counts them: there the meaning only bounds the count.  *)
(***************************************************************************)
EXTENDS Integers, FiniteSets, Sequences, SequencesExt

CONSTANTS
    Rows,             \* what a captured request may be
    MaxRows,          \* bound: rows in the table
    IdleGap,
    RecoveryWindow,
    EscalationWindow,
    NoAddress         \* the hash of no address

Classes == {"cli", "browser-agent", "chat-fetcher", "agent-mode", "tool",
            "human-or-browser", "crawler"}
Outcome == {"resolved", "dead_end", "blocked", "broken"}

ASSUME TableAssumption ==
    /\ \A r \in Rows :
        /\ r.class \in Classes /\ r.outcome \in Outcome
        /\ r.ts \in Nat
    /\ {MaxRows, IdleGap, RecoveryWindow, EscalationWindow} \subseteq Nat

VARIABLE rows   \* the rows, in the order they were stored

SessionsTableInit == rows = <<>>

\* A request is captured, and stored when its turn comes.
Store ==
    /\ Len(rows) < MaxRows
    /\ \E r \in Rows : rows' = Append(rows, r)

TableSpec == SessionsTableInit /\ [][Store]_rows

-----------------------------------------------------------------------------
Sessionable == {"cli", "browser-agent"}
EscalationFrom == {"chat-fetcher", "cli", "agent-mode", "tool"}
EscalationTo == {"human-or-browser", "browser-agent"}

\* The records of a list, each told from its like by where it stands.
Requests(records) == {[at |-> i, row |-> records[i]] : i \in DOMAIN records}

IsSessionable(r) == r.row.class \in Sessionable /\ r.row.ip # NoAddress
IdentityKey(r) == <<r.row.class, r.row.ip>>

\* The buckets of a map from keys to requests.
Buckets(requests, key) ==
    {{q \in requests : key[q] = key[r]} : r \in requests}

\* By time, and those of one moment as they stood in the list.
After(q, r) ==
    q.row.ts < r.row.ts \/ (q.row.ts = r.row.ts /\ q.at < r.at)

\* Mutant: the rows are taken in the order they were stored.
InStoredOrder(bucket) ==
    CHOOSE seq \in [1 .. Cardinality(bucket) -> bucket] :
        \A i, j \in DOMAIN seq : i < j => seq[i].at < seq[j].at

\* bucket.slice().sort((a, b) => a.ts - b.ts), which is stable.
InOrder(bucket) ==
    CHOOSE seq \in [1 .. Cardinality(bucket) -> bucket] :
        \A i, j \in DOMAIN seq : i < j => After(seq[i], seq[j])

Gap(q, r) == r.row.ts - q.row.ts

\* The requests of a sequence that start sessions.
SessionStarts(seq) ==
    {seq[i] : i \in {k \in DOMAIN seq : k = 1 \/ Gap(seq[k - 1], seq[k]) > IdleGap}}

\* Mutant: the scan does not stop at the window's end.
RecoveredEver(seq, i) ==
    \E j \in i + 1 .. Len(seq) : seq[j].row.outcome = "resolved"

\* The scan forward from a dead end, which stops at the first request past the
\* window or resolved.
Recovered(seq, i) ==
    \E j \in i + 1 .. Len(seq) :
        /\ Gap(seq[i], seq[j]) <= RecoveryWindow
        /\ seq[j].row.outcome = "resolved"
        /\ \A k \in i + 1 .. j - 1 :
            Gap(seq[i], seq[k]) <= RecoveryWindow /\ seq[k].row.outcome # "resolved"

DeadEnds(seq) == {i \in DOMAIN seq : seq[i].row.outcome = "dead_end"}

\* The scan backward from a browser's request.
Escalated(seq, i) ==
    /\ seq[i].row.class \in EscalationTo
    /\ \E j \in 1 .. i - 1 :
        /\ Gap(seq[j], seq[i]) <= EscalationWindow
        /\ seq[j].row.class \in EscalationFrom
        /\ \A k \in j + 1 .. i - 1 :
            /\ Gap(seq[k], seq[i]) <= EscalationWindow
            /\ seq[k].row.class \notin EscalationFrom

\* countEscalations()
Escalations(requests) ==
    LET known == {r \in requests : r.row.ip # NoAddress}
        byIp == {InOrder(b) : b \in Buckets(known, [r \in known |-> r.row.ip])}
    IN  UNION {{seq[i] : i \in {k \in DOMAIN seq : Escalated(seq, k)}} : seq \in byIp}

\* computeAgentSessions()
AgentSessionsOf(records) ==
    LET requests == Requests(records)
        correlated == {r \in requests : IsSessionable(r)}
        identities ==
            {InOrder(b) : b \in Buckets(correlated, [r \in correlated |-> IdentityKey(r)])}
        dead == UNION {{seq[i] : i \in DeadEnds(seq)} : seq \in identities}
        saved == UNION {{seq[i] : i \in {k \in DeadEnds(seq) : Recovered(seq, k)}}
                        : seq \in identities}
    IN  [sessions |-> Cardinality(UNION {SessionStarts(seq) : seq \in identities}),
         deadEnds |-> Cardinality(dead),
         recovered |-> Cardinality(saved),
         abandoned |-> Cardinality(dead) - Cardinality(saved),
         escalations |-> Cardinality(Escalations(requests)),
         unsessionable |-> Len(records) - Cardinality(correlated)]

-----------------------------------------------------------------------------
\* Type invariant of the rows.
RowsTypeOK == rows \in Seq(Rows) /\ Len(rows) <= MaxRows

Apart(q, r) ==
    IF q.row.ts <= r.row.ts THEN r.row.ts - q.row.ts ELSE q.row.ts - r.row.ts

\* Two requests of an identity within the idle gap of each other.
Linked(q, r) == IdentityKey(q) = IdentityKey(r) /\ Apart(q, r) <= IdleGap

\* Reference: the requests that no other one is linked to, and no fewer of them.
Detached(c, requests) ==
    c # {} /\ \A q \in c, r \in requests : Linked(q, r) => r \in c

SessionsAmong(requests) ==
    {c \in SUBSET requests :
        /\ Detached(c, requests)
        /\ \A d \in SUBSET c : Detached(d, requests) => d = c}

\* In time; with orAtOnce, requests of the same moment too.
Before(q, r, orAtOnce) ==
    q.row.ts < r.row.ts \/ (orAtOnce /\ q.row.ts = r.row.ts)

\* Reference: a dead end that a later request of its identity made up for.
SavedAmong(requests, orAtOnce) ==
    {q \in requests :
        /\ q.row.outcome = "dead_end"
        /\ \E r \in requests :
            /\ IdentityKey(q) = IdentityKey(r)
            /\ Before(q, r, orAtOnce) /\ Apart(q, r) <= RecoveryWindow
            /\ r.row.outcome = "resolved"}

\* Reference: a browser's request after another kind of fetch from its address;
\* sessions.ts:282 "in [to.ts - window, to.ts)".
EscalatedAmong(requests, orAtOnce) ==
    {r \in requests :
        /\ r.row.class \in EscalationTo /\ r.row.ip # NoAddress
        /\ \E q \in requests :
            /\ q.row.ip = r.row.ip /\ q.row.class \in EscalationFrom
            /\ Before(q, r, orAtOnce) /\ Apart(q, r) <= EscalationWindow}

\* The scans count what the words mean: sessions are the maximal chains of
\* requests of one identity; a dead end counts as recovered if a later request
\* of its identity was resolved within the window, and once; an escalation is a
\* browser's request that another kind of fetch from its address came before
\* within the window.  The last two hold whatever the order of storage, but for
\* pairs of one moment, which may count and need not.
SessionsMean ==
    LET told == AgentSessionsOf(rows)
        requests == Requests(rows)
        correlated == {r \in requests : IsSessionable(r)}
        saved(orAtOnce) == Cardinality(SavedAmong(correlated, orAtOnce))
        escalated(orAtOnce) == Cardinality(EscalatedAmong(requests, orAtOnce))
    IN  /\ told.sessions = Cardinality(SessionsAmong(correlated))
        /\ told.deadEnds =
             Cardinality({r \in correlated : r.row.outcome = "dead_end"})
        /\ told.recovered \in saved(FALSE) .. saved(TRUE)
        /\ told.abandoned = told.deadEnds - told.recovered
        /\ told.escalations \in escalated(FALSE) .. escalated(TRUE)
        /\ told.unsessionable = Cardinality(requests \ correlated)
=============================================================================
