--------------------------- MODULE AgentTelemetry ---------------------------
(***************************************************************************)
(* Reading the captured requests while they are written: the summary and   *)
(* the drill-down of agent/telemetry.ts, over the table of the SQL         *)
(* adapters or the ring of the memory adapter (server/storage), and the    *)
(* console's walk through the pages.                                       *)
(*                                                                         *)
(* The summary is made of two queries: the counts of the whole window by   *)
(* group, and the newest rows of some classes, at most Cap, from which     *)
(* agent/sessions.ts correlates.  Requests are captured, labelled anew and *)
(* swept away in between.  A window's bounds and the sites are left out.   *)
(***************************************************************************)
EXTENDS AgentSessions, Selections

CONSTANTS
    Captures,    \* what may be captured, with 0 for the id to come
    Labels,      \* classes a backfill may give
    MaxCaptures, \* bound: rows ever stored
    Boundaries,  \* what is older than one of these may be swept away
    RingCap,     \* the memory adapter's capacity
    Cap,         \* SESSION_ROW_CAP
    PageSize

\* agent_requests: a row.
Row == [id : Nat, class : Classes, ip : {r.ip : r \in Captures},
        outcome : Outcome, ts : Nat, write : BOOLEAN, served : BOOLEAN]

ASSUME TelemetryAssumption ==
    /\ \A r \in Captures : r \in Row /\ r.id = 0
    /\ Labels \subseteq Classes
    /\ MaxCaptures \in Nat
    /\ {RingCap, Cap, PageSize} \subseteq Nat \ {0}

VARIABLES
    kept,    \* agent_requests of an SQL adapter, by id
    ring,    \* agentRequests of the memory adapter
    lastId,  \* the last id given
    drill,   \* the console's drill-down
    summary  \* the answers to the summary's two queries

telemetryVars == <<kept, ring, lastId, drill, summary>>

\* The console filters by family, which a backfill gives along with the class.
Everything == "every class"
Filters == {Everything} \cup Labels

Unread == [phase |-> "none", groups |-> <<>>, rows |-> <<>>,
           of |-> <<>>,      \* history: the table that was counted
           quiet |-> TRUE]   \* history: nothing was written in between

TelemetryInit ==
    /\ kept = <<>> /\ ring = <<>> /\ lastId = 0
    /\ drill = [filter |-> Everything, offset |-> 0, loaded |-> FALSE, more |-> FALSE,
                seen |-> {},        \* history: the rows shown on this walk
                lasting |-> {},     \* history: rows there and matching all along
                shifted |-> FALSE,  \* history: a row before the next page has left
                hurried |-> FALSE]  \* history: "next" was pressed before a page came
    /\ summary = Unread

-----------------------------------------------------------------------------
IdsOf(seq) == {seq[i].id : i \in DOMAIN seq}

\* queryAgentRequests(): the rows of a filter, newest first.
Matching(table, filter) ==
    Reverse(Only(table, {r \in Row : filter \in {Everything, r.class}}))

Limit(seq, n) == SubSeq(seq, 1, IF n < Len(seq) THEN n ELSE Len(seq))
Offset(seq, n) == SubSeq(seq, n + 1, Len(seq))

\* What a change of the table means to those who are reading it.
Readers(table) ==
    LET before == Matching(kept, drill.filter)
        after == IdsOf(Matching(table, drill.filter))
    IN  /\ drill' = [drill EXCEPT
             !.lasting = @ \cap after,
             !.shifted = @ \/ ~(IdsOf(Limit(before, drill.offset + PageSize)) \subseteq after)]
        /\ summary' = [summary EXCEPT !.quiet = @ /\ summary.phase # "counted"]

\* push(): the oldest are dropped past the capacity.
Push(buf, item) ==
    IF Len(buf) < RingCap THEN Append(buf, item) ELSE Append(Tail(buf), item)

\* recordAgentRequests(), row by row; a beacon's may be older than the last.
RecordRequest ==
    /\ lastId < MaxCaptures
    /\ lastId' = lastId + 1
    /\ \E r \in Captures :
        LET row == [r EXCEPT !.id = lastId']
        IN  kept' = Append(kept, row) /\ ring' = Push(ring, row)
    /\ Readers(kept')

\* Mutant: the memory adapter takes an id for a place in its array.
LabelledByPlace(buf, id, class) ==
    [i \in DOMAIN buf |-> IF i = id THEN [buf[i] EXCEPT !.class = class] ELSE buf[i]]

Labelled(buf, id, class) ==
    [i \in DOMAIN buf |->
        IF buf[i].id = id THEN [buf[i] EXCEPT !.class = class] ELSE buf[i]]

\* updateAgentClassifications(): a backfill labels a row anew.
UpdateClassification ==
    /\ \E id \in IdsOf(kept), class \in Labels :
        /\ kept' = Labelled(kept, id, class)
        /\ ring' = Labelled(ring, id, class)
    /\ kept' # kept
    /\ Readers(kept')
    /\ UNCHANGED lastId

\* pruneAgentData(): the retention sweep, by the time of capture.
Prune ==
    /\ \E before \in Boundaries :
        /\ kept' = Only(kept, {r \in Row : r.ts >= before})
        /\ ring' = Only(ring, {r \in Row : r.ts >= before})
    /\ kept' # kept
    /\ Readers(kept')
    /\ UNCHANGED lastId

-----------------------------------------------------------------------------
\* A filter is set, and the walk begins anew; the page before stays visible.
SetFilter ==
    /\ \E f \in Filters : drill' =
        [drill EXCEPT !.filter = f, !.offset = 0, !.loaded = FALSE, !.seen = {},
                      !.lasting = IdsOf(Matching(kept, f)),
                      !.shifted = FALSE, !.hurried = FALSE]
    /\ UNCHANGED <<kept, ring, lastId, summary>>

\* Mutant: no row more than the page is asked for.
ProbeNone(seq) == Limit(seq, PageSize)

\* One row more than the page tells whether there is another.
Probe(seq) == Limit(seq, PageSize + 1)

\* readAgentRequests() for the page in view, which is polled.
LoadPage ==
    LET rest == Probe(Offset(Matching(kept, drill.filter), drill.offset))
    IN  /\ drill' = [drill EXCEPT !.loaded = TRUE, !.more = Len(rest) > PageSize,
                                  !.seen = @ \cup IdsOf(Limit(rest, PageSize))]
        /\ UNCHANGED <<kept, ring, lastId, summary>>

\* The pager's "next", enabled by the page in view, be it the one before.
NextPage ==
    /\ drill.more
    /\ drill.offset < MaxCaptures
    /\ drill' = [drill EXCEPT !.offset = @ + PageSize, !.loaded = FALSE,
                              !.hurried = @ \/ ~drill.loaded]
    /\ UNCHANGED <<kept, ring, lastId, summary>>

\* And its "prev"; the page is shown as it was until it is loaded again.
PrevPage ==
    /\ drill.offset > 0
    /\ drill' = [drill EXCEPT !.offset = Max({0, @ - PageSize}), !.loaded = FALSE]
    /\ UNCHANGED <<kept, ring, lastId, summary>>

-----------------------------------------------------------------------------
SESSION_ROW_CLASSES == {"cli", "browser-agent", "human-or-browser"}

GroupKey(r) ==
    [outcome |-> r.outcome, class |-> r.class, write |-> r.write, served |-> r.served]

\* aggregateAgentOutcomes(): GROUP BY.
Groups(table) ==
    [k \in {GroupKey(table[i]) : i \in DOMAIN table} |->
        Cardinality({i \in DOMAIN table : GroupKey(table[i]) = k})]

\* The summary's first query.
ReadGroups ==
    /\ summary' = [Unread EXCEPT !.phase = "counted", !.groups = Groups(kept), !.of = kept]
    /\ UNCHANGED <<kept, ring, lastId, drill>>

\* Its second one, and the answer.
ReadSample ==
    /\ summary.phase = "counted"
    /\ summary' = [summary EXCEPT !.phase = "read", !.rows = Limit(Reverse(
         Only(kept, {r \in Row : r.class \in SESSION_ROW_CLASSES})), Cap)]
    /\ UNCHANGED <<kept, ring, lastId, drill>>

\* The sum of the counts of some groups: how many there are of all of them.
Total(groups, keys) == Cardinality(UNION {{k} \X (1 .. groups[k]) : k \in keys})

\* foldOutcomeGroups()
OutcomesOf(groups) ==
    LET keys == DOMAIN groups
    IN  [total |-> Total(groups, keys),
         reads |-> [o \in Outcome |->
                      Total(groups, {k \in keys : k.outcome = o /\ ~k.write})],
         writes |-> [o \in Outcome |->
                      Total(groups, {k \in keys : k.outcome = o /\ k.write})],
         rescued |-> Total(groups, {k \in keys : k.outcome = "dead_end" /\ k.served})]

\* Mutant: the sample is taken for all there is when it is just full.
SampledBeyond == Len(summary.rows) > Cap

\* correlationSampled
Sampled == Len(summary.rows) >= Cap

TableNext == RecordRequest \/ UpdateClassification \/ Prune
DrillNext == SetFilter \/ LoadPage \/ NextPage \/ PrevPage
SummaryNext == ReadGroups \/ ReadSample
TelemetryNext == TableNext \/ DrillNext \/ SummaryNext

TelemetrySpec == TelemetryInit /\ [][TelemetryNext]_telemetryVars

-----------------------------------------------------------------------------
\* Type invariant of the table and its readers.
TelemetryTypeOK ==
    /\ lastId \in 0 .. MaxCaptures
    /\ IdsOf(kept) \subseteq 1 .. lastId
    /\ drill.filter \in Filters /\ drill.seen \subseteq 1 .. lastId
    /\ drill.lasting \subseteq IdsOf(kept)
    /\ summary.phase \in {"none", "counted", "read"}

\* The memory adapter holds the newest of what an SQL adapter would hold, under
\* the same ids and labels; and all of it until its capacity was reached.
RingKeepsNewest ==
    /\ IsSuffix(ring, kept)
    /\ lastId <= RingCap => ring = kept

\* Whoever walks through the drill-down up to the page that has no more after it
\* has seen every row that was there from the start and still is, although rows
\* arrive meanwhile; unless a row of the pages so far left the filter, or a page
\* was not waited for.
WalkSeesAll ==
    drill.loaded /\ ~drill.more /\ ~drill.shifted /\ ~drill.hurried =>
        drill.lasting \subseteq drill.seen

Ties == \E i, j \in DOMAIN summary.of :
            i # j /\ summary.of[i].ts = summary.of[j].ts

\* The summary's outcomes are those of the table that was counted.  What is
\* correlated out of the rows that were pulled is what all the rows would give,
\* or it says that it is a sample; but for rows written between the queries and
\* for rows of the same moment, which the pull turns around.  Escalations are
\* never overcounted.
SummaryTrue ==
    summary.phase = "read" =>
        LET t == summary.of
            told == OutcomesOf(summary.groups)
            some == AgentSessionsOf(summary.rows)
            all == AgentSessionsOf(t)
        IN  /\ told.total = Len(t)
            /\ \A o \in Outcome :
                /\ told.reads[o] =
                     Cardinality({i \in DOMAIN t : t[i].outcome = o /\ ~t[i].write})
                /\ told.writes[o] =
                     Cardinality({i \in DOMAIN t : t[i].outcome = o /\ t[i].write})
            /\ told.rescued =
                 Cardinality({i \in DOMAIN t : t[i].outcome = "dead_end" /\ t[i].served})
            /\ summary.quiet /\ ~Sampled /\ ~Ties =>
                /\ \A field \in {"sessions", "deadEnds", "recovered", "abandoned"} :
                    some[field] = all[field]
                /\ told.total - (Len(summary.rows) - some.unsessionable)
                     = all.unsessionable
                /\ some.escalations <= all.escalations

\* What the pages and the summary tell, the ring, and what sessions are.
TelemetryHolds == RingKeepsNewest /\ WalkSeesAll /\ SummaryTrue /\ SessionsMean
=============================================================================
