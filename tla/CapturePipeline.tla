--------------------------- MODULE CapturePipeline ---------------------------
(***************************************************************************)
(* What becomes of a captured request: the Express middleware, the         *)
(* recorder, the write buffer, the agent_requests table, and the backfill  *)
(* that re-labels its rows when a ruleset goes live (express-middleware.ts,*)
(* adapter/core.ts, backfill.ts, storage).                                 *)
(*                                                                         *)
(* The parts interleave: responses finish, the site's salt resolves, the   *)
(* buffer hands groups of rows to storage, rulesets are activated, and     *)
(* each activation starts a backfill that reads and updates the table page *)
(* by page.  The buffer appears by what AgentWriteBuffer is shown to       *)
(* promise (BoundedDelivery), the ruleset client by its activations, and a *)
(* row by the request it records and the ruleset version it is stamped     *)
(* with.  With the SQL storage every read of a page and every update of a  *)
(* row is a query of its own that other work may come between (postgres).  *)
(***************************************************************************)
EXTENDS Naturals, Sequences, SequencesExt

CONSTANTS
    Requests,    \* bound: the requests served
    MaxVersion,  \* bound: ruleset activations in one run of the process
    PageSize,    \* backfill's batchSize (500)
    Capacity,    \* the most rows the buffer holds
    RefuseFrom,  \* a row is refused only with this many in the buffer
    MaxCrashes   \* bound: ends of the process

ASSUME PipelineAssumption ==
    /\ MaxVersion \in Nat
    /\ PageSize \in Nat \ {0}
    /\ Capacity \in Nat \ {0}
    /\ RefuseFrom \in Nat
    /\ MaxCrashes \in Nat

VARIABLES
    gate,      \* the capture gate: agent.enabled
    request,   \* request[r]: where r's response is
    recorded,  \* recorded[r]: the middleware's once-only flag
    resolved,  \* the site's salt is known (resolvedSalt)
    salted,    \* requests whose record() awaits the salt, in order
    ruleset,   \* the holder: the current version, 0 for none
    buffered,  \* rows in the write buffer, oldest first
    table,     \* agent_requests, in insertion order
    run,       \* run[v]: the backfill started by the activation of v
    backlog,   \* history: the rows stored when v was activated
    overlap,   \* history: an activation found a backfill running
    inFlight,  \* history: the rows an activation found in the buffer
    crashes    \* history: ends of the process

vars == <<gate, request, recorded, resolved, salted, ruleset, buffered, table,
          run, backlog, overlap, inFlight, crashes>>

\* What only an activation and the end of the process write.
history == <<backlog, overlap, inFlight>>

Versions == 1..MaxVersion

Row(r, v) == [request |-> r, stamp |-> v]

Requested(rows) == [i \in 1..Len(rows) |-> rows[i].request]

\* A backfill that does not run; how the last one ended.
Ended(how) == [phase |-> how, updates |-> <<>>, full |-> FALSE]

Running(v) == run[v].phase \in {"query", "update"}

-----------------------------------------------------------------------------
Init ==
    /\ gate \in BOOLEAN
    /\ request = [r \in Requests |-> "new"]
    /\ recorded = [r \in Requests |-> FALSE]
    /\ resolved = FALSE
    /\ salted = <<>>
    /\ ruleset = 0
    /\ buffered = <<>>
    /\ table = <<>>
    /\ run = [v \in Versions |-> Ended("idle")]
    /\ backlog = [v \in Versions |-> {}]
    /\ overlap = FALSE
    /\ inFlight = {}
    /\ crashes = 0

\* The configuration is saved and the gate re-resolved.
ToggleGate ==
    /\ gate' = ~gate
    /\ UNCHANGED <<request, recorded, resolved, salted, ruleset, buffered,
                   table, run, history, crashes>>

\* The middleware sees a request: it attaches its listeners, or the gate is
\* off or the request not sampled (or not site traffic) and it passes it on.
Receive(r) ==
    /\ request[r] = "new"
    /\ \/ gate /\ request' = [request EXCEPT ![r] = "open"]
       \/ request' = [request EXCEPT ![r] = "passed"]
    /\ UNCHANGED <<gate, recorded, resolved, salted, ruleset, buffered, table,
                   run, history, crashes>>

\* enqueue() of r's row by the buffer's promise: classified with the ruleset
\* held now, or pending (stamp 0).
Enqueue(r) ==
    \/ /\ Len(buffered) < Capacity
       /\ buffered' = Append(buffered, Row(r, ruleset))
    \/ /\ Len(buffered) >= RefuseFrom
       /\ UNCHANGED buffered

\* Mutant: no once-only flag.
RecordTwice(r) ==
    /\ recorded' = [recorded EXCEPT ![r] = TRUE]
    /\ \/ Enqueue(r) /\ UNCHANGED salted
       \/ /\ ~resolved
          /\ salted' = Append(salted, r)
          /\ UNCHANGED buffered

\* The listener of "finish" and "close": the first event records.  The rest
\* of record() runs on, unless the request has an IP to hash and the salt is
\* still awaited.
Record(r) ==
    IF recorded[r]
    THEN UNCHANGED <<recorded, salted, buffered>>
    ELSE /\ recorded' = [recorded EXCEPT ![r] = TRUE]
         /\ \/ Enqueue(r) /\ UNCHANGED salted
            \/ /\ ~resolved
               /\ salted' = Append(salted, r)
               /\ UNCHANGED buffered

\* "finish": the response has been handed to the operating system.
Finish(r) ==
    /\ request[r] = "open"
    /\ request' = [request EXCEPT ![r] = "finished"]
    /\ Record(r)
    /\ UNCHANGED <<gate, resolved, ruleset, table, run, history, crashes>>

\* "close": after "finish", or without it when the client has gone.
Close(r) ==
    /\ request[r] \in {"open", "finished"}
    /\ request' = [request EXCEPT ![r] = "closed"]
    /\ Record(r)
    /\ UNCHANGED <<gate, resolved, ruleset, table, run, history, crashes>>

\* ensureSalt()'s one lookup ends; a failed one is an answer too (no hash).
SaltResolves ==
    /\ ~resolved
    /\ salted # <<>>
    /\ resolved' = TRUE
    /\ UNCHANGED <<gate, request, recorded, salted, ruleset, buffered, table,
                   run, history, crashes>>

\* The oldest record() that awaited the salt runs on.
Salted ==
    /\ resolved
    /\ salted # <<>>
    /\ Enqueue(Head(salted))
    /\ salted' = Tail(salted)
    /\ UNCHANGED <<gate, request, recorded, resolved, ruleset, table, run,
                   history, crashes>>

\* The buffer's flush: the n oldest rows are inserted together, or lost.
Flush ==
    /\ \E n \in 1..Len(buffered) :
        /\ buffered' = SubSeq(buffered, n + 1, Len(buffered))
        /\ \/ table' = table \o SubSeq(buffered, 1, n)
           \/ UNCHANGED table
    /\ UNCHANGED <<gate, request, recorded, resolved, salted, ruleset, run,
                   history, crashes>>

-----------------------------------------------------------------------------
\* The ruleset client activates v: bootstrap.ts sets the holder and starts the
\* backfill.  Within a run of the process the versions ascend.
Activate(v) ==
    /\ ruleset < v
    /\ ruleset' = v
    /\ run' = [run EXCEPT ![v] = [Ended("query") EXCEPT !.full = TRUE]]
    /\ backlog' = [backlog EXCEPT ![v] = ToSet(Requested(table))]
    /\ overlap' = (overlap \/ \E w \in Versions : Running(w))
    /\ inFlight' = inFlight \cup ToSet(Requested(buffered))
    /\ UNCHANGED <<gate, request, recorded, resolved, salted, buffered, table,
                   crashes>>

\* Mutant: the scan misses the rows that were never classified.
StaleStamped(v) == {i \in DOMAIN table : table[i].stamp \notin {0, v}}

\* What v's scan may find: the places of the rows it has not stamped.
Stale(v) == {i \in DOMAIN table : table[i].stamp # v}

\* queryUnclassifiedAgentRequests: the oldest n of them, or all there are.
IsPage(v, page, n) ==
    /\ \A i, j \in 1..n : i < j => page[i] < page[j]
    /\ \A place \in Stale(v) :
        \/ \E i \in 1..n : page[i] = place
        \/ n = PageSize /\ \A i \in 1..n : page[i] < place

\* A page is read.  The scan is over when it is empty.
ReadPage(v) ==
    /\ run[v].phase = "query"
    /\ \E n \in 0..PageSize : \E page \in [1..n -> Stale(v)] :
        /\ IsPage(v, page, n)
        /\ run' = [run EXCEPT ![v] =
                     IF n = 0
                     THEN Ended("done")
                     ELSE [phase |-> "update",
                           updates |-> [i \in 1..n |-> table[page[i]].request],
                           full |-> n = PageSize]]
    /\ UNCHANGED <<gate, request, recorded, resolved, salted, ruleset, buffered,
                   table, history, crashes>>

\* Mutant: a full page ends the scan too.
NextPhaseFirst(v) ==
    IF Len(run[v].updates) > 1
    THEN [run[v] EXCEPT !.updates = Tail(@)]
    ELSE Ended("done")

\* Mutant: the loop over the page has no end.
NextPhaseOvershoots(v) == [run[v] EXCEPT !.updates = Tail(@)]

\* After one update: the next one of the page; or the next page; or, after a
\* short page, the end.
NextPhase(v) ==
    CASE Len(run[v].updates) > 1 -> [run[v] EXCEPT !.updates = Tail(@)]
      [] Len(run[v].updates) = 1 /\ run[v].full ->
            [Ended("query") EXCEPT !.full = TRUE]
      [] OTHER -> Ended("done")

\* Mutant: the row is classified but not stamped.
UpdateUnstamped(v) ==
    /\ run[v].phase = "update"
    /\ table' = table
    /\ run' = [run EXCEPT ![v] = NextPhase(v)]
    /\ UNCHANGED <<gate, request, recorded, resolved, salted, ruleset, buffered,
                   history, crashes>>

\* updateAgentClassifications, one row of it.
Update(v) ==
    /\ run[v].phase = "update"
    /\ table' = [i \in 1..Len(table) |->
                    IF table[i].request = Head(run[v].updates)
                    THEN [table[i] EXCEPT !.stamp = v] ELSE table[i]]
    /\ run' = [run EXCEPT ![v] = NextPhase(v)]
    /\ UNCHANGED <<gate, request, recorded, resolved, salted, ruleset, buffered,
                   history, crashes>>

\* A query of the backfill rejects: it is logged and the run is over.
BackfillFails(v) ==
    /\ Running(v)
    /\ run' = [run EXCEPT ![v] = Ended("failed")]
    /\ UNCHANGED <<gate, request, recorded, resolved, salted, ruleset, buffered,
                   table, history, crashes>>

\* The process ends, at any point, and another one starts with what is in the
\* table.
Crash ==
    /\ crashes < MaxCrashes
    /\ crashes' = crashes + 1
    /\ request' = [r \in Requests |->
                     IF request[r] \in {"open", "finished"} THEN "closed"
                     ELSE request[r]]
    /\ resolved' = FALSE
    /\ salted' = <<>>
    /\ ruleset' = 0
    /\ buffered' = <<>>
    /\ run' = [v \in Versions |-> Ended("idle")]
    /\ backlog' = [v \in Versions |-> {}]
    /\ overlap' = FALSE
    /\ UNCHANGED <<gate, recorded, table, inFlight>>

Next ==
    \/ ToggleGate
    \/ SaltResolves
    \/ Salted
    \/ Flush
    \/ Crash
    \/ \E r \in Requests :
        \/ Receive(r)
        \/ Finish(r)
        \/ Close(r)
    \/ \E v \in Versions :
        \/ Activate(v)
        \/ ReadPage(v)
        \/ Update(v)
        \/ BackfillFails(v)

SafeSpec == Init /\ [][Next]_vars

\* The salt lookup, the buffer and the storage's queries settle.
Spec ==
    /\ SafeSpec
    /\ WF_vars(SaltResolves)
    /\ WF_vars(Salted)
    /\ WF_vars(Flush)
    /\ \A v \in Versions :
        WF_vars(ReadPage(v) \/ Update(v) \/ BackfillFails(v))

-----------------------------------------------------------------------------
Stamps == 0..MaxVersion
Rows == [request : Requests, stamp : Stamps]

\* Type invariant of the pipeline's state.
TypeOK ==
    /\ gate \in BOOLEAN
    /\ request \in [Requests -> {"new", "passed", "open", "finished", "closed"}]
    /\ recorded \in [Requests -> BOOLEAN]
    /\ resolved \in BOOLEAN
    /\ salted \in Seq(Requests)
    /\ ruleset \in Stamps
    /\ buffered \in Seq(Rows)
    /\ table \in Seq(Rows)
    /\ run \in [Versions ->
                  [phase : {"idle", "query", "update", "done", "failed"},
                   updates : Seq(Requests),
                   full : BOOLEAN]]
    /\ \A v \in Versions : run[v].phase = "update" <=> run[v].updates # <<>>
    /\ backlog \in [Versions -> SUBSET Requests]
    /\ overlap \in BOOLEAN
    /\ inFlight \subseteq Requests
    /\ crashes \in 0..MaxCrashes

\* Where a request's row is, all along the pipeline.
Line == salted \o Requested(buffered) \o Requested(table)

\* A response is recorded at most once, whichever of its two events come and
\* whatever its row waits for; and never if the middleware passed it on.
RecordedOnce ==
    /\ IsInjective(Line)
    /\ \A r \in ToSet(Line) : request[r] \in {"finished", "closed"}

\* A backfill that completed has left no row pending of those that were
\* stored when its ruleset went live, whichever other backfills ran beside it.
BacklogLabelled ==
    \A v \in Versions : run[v].phase = "done" =>
        \A row \in ToSet(table) :
            row.request \in backlog[v] => row.stamp # 0

\* Where no two backfills overlap, a completed one leaves none of the rows
\* stored when its ruleset went live at an older version (backfill.ts:13-16).
BacklogCurrent ==
    ~overlap =>
        \A v \in Versions : run[v].phase = "done" =>
            \A row \in ToSet(table) :
                row.request \in backlog[v] => row.stamp >= v

\* A completed backfill has done its work on the rows that were stored when its
\* ruleset went live.
BacklogDone == BacklogLabelled /\ BacklogCurrent

\* Where no two backfills overlap each one ends: a page leaves the scan once
\* it is stamped (backfill.ts:49-50), while new rows keep arriving.
BackfillEnds ==
    \A v \in Versions : Running(v) ~> (~Running(v) \/ overlap)

Pending(r) == \E row \in ToSet(table) : row.request = r /\ row.stamp = 0

\* A pending row that is not in flight at an activation is labelled once a
\* ruleset is live, unless its backfill fails or is overlapped.
PendingLabelled ==
    \A r \in Requests :
        (Pending(r) /\ ruleset # 0 /\ r \notin inFlight)
            ~> \/ ~Pending(r)
               \/ ruleset = 0
               \/ overlap
               \/ \E v \in Versions : run[v].phase = "failed"

\* The backfills come to an end, and nothing stays pending for ever.
BackfillsComplete == BackfillEnds /\ PendingLabelled

\* express-middleware.ts:70-73 "the row is stored pending ... and
\* backfillClassification labels it once a ruleset loads": when the backfill
\* of a ruleset has completed without overlap, and nothing is on its way any
\* more, no row is pending.
PendingOnlyUnloaded ==
    ruleset # 0 /\ run[ruleset].phase = "done" /\ ~overlap
        /\ salted = <<>> /\ buffered = <<>>
        => \A r \in Requests : ~Pending(r)
=============================================================================
