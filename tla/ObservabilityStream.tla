-------------------------- MODULE ObservabilityStream -------------------------
(***************************************************************************)
(* The live stream of the dashboard: what the analytics middleware and the *)
(* log sink store (server/analytics.ts, log-sink.ts), the server's side of *)
(* one stream, which polls the storage past a cursor (observability.ts).   *)
(*                                                                         *)
(* Events and log lines are stamped when they begin and stored when they   *)
(* are over: a call's event at its end, a line when its insertion is.  The *)
(* stream asks for both kinds at once and puts one cursor past what it     *)
(* got.  The interval does not wait for a poll to be answered.             *)
(***************************************************************************)
EXTENDS Naturals, Sequences, FiniteSetsExt, SequencesExt

CONSTANTS
    Writers,    \* bound: calls and insertions at a time
    MaxStored,  \* bound: events and lines stored or under way
    LastMs,     \* bound: the clock
    Polls,      \* bound: polls at a time
    PollLimit   \* the stream's limit, 200

ASSUME StreamAssumption == {MaxStored, LastMs, PollLimit} \subseteq Nat

VARIABLES
    ms,         \* the clock
    writing,    \* writing[w]: a call or an insertion under way, or NoWrite
    stored,     \* the tables of events and logs, by id
    stream,     \* the server's end of the connection
    polls,      \* polls[p]: a poll under way, or Asleep
    sentOnce,   \* history: ids sent on this connection
    sentTwice,  \* history: and those that were sent again
    storedLate, \* history: stored when the cursor had passed their stamp, or while
                \*   a poll that has read their table is not over
    shed,       \* history: over the limit of a poll
    pollsOverlap  \* history: a poll began while another was not over

observeVars == <<ms, writing, stored, stream, polls, sentOnce, sentTwice,
                storedLate, shed, pollsOverlap>>
sendHistory == <<sentOnce, sentTwice, shed>>

NoWrite == [kind |-> "free"]
Asleep == [from |-> 0, event |-> {}, log |-> {}, read |-> {}]

StreamInit ==
    /\ ms = 0
    /\ writing = [w \in Writers |-> NoWrite]
    /\ stored = <<>>
    /\ stream = [open |-> FALSE, since |-> 0, cursor |-> 0,
                 fired |-> 0]  \* when the interval fired last
    /\ polls = [p \in Polls |-> Asleep]
    /\ sentOnce = {} /\ sentTwice = {} /\ storedLate = {} /\ shed = {}
    /\ pollsOverlap = FALSE

Unpolled(p) == polls[p] = Asleep

-----------------------------------------------------------------------------
MsPasses ==
    /\ ms < LastMs
    /\ ms' = ms + 1
    /\ UNCHANGED <<writing, stored, stream, polls, sendHistory, storedLate, pollsOverlap>>

\* A call arrives at the analytics middleware, or serverLog() is called.
WriteBegins(w, kind) ==
    /\ writing[w] = NoWrite
    /\ Len(stored) + Cardinality({v \in Writers : writing[v] # NoWrite}) < MaxStored
    /\ writing' = [writing EXCEPT ![w] = [kind |-> kind, ts |-> ms]]
    /\ UNCHANGED <<ms, stored, stream, polls, sendHistory, storedLate, pollsOverlap>>

\* The call is over and its event is stored, or the line is.
WriteStored(w) ==
    /\ writing[w] # NoWrite
    /\ stored' = Append(stored, writing[w])
    /\ storedLate' =
        IF stream.open /\ (\/ writing[w].ts < stream.cursor
                          \/ \E p \in Polls : writing[w].kind \in polls[p].read)
        THEN storedLate \cup {Len(stored')} ELSE storedLate
    /\ writing' = [writing EXCEPT ![w] = NoWrite]
    /\ UNCHANGED <<ms, stream, polls, sendHistory, pollsOverlap>>

\* The gate is closed at its end, or the insertion fails: nothing is said.
WriteForgotten(w) ==
    /\ writing[w] # NoWrite
    /\ writing' = [writing EXCEPT ![w] = NoWrite]
    /\ UNCHANGED <<ms, stored, stream, polls, sendHistory, storedLate, pollsOverlap>>

-----------------------------------------------------------------------------
\* The page is opened, another range is set, or the browser's EventSource asks
\* again after the connection broke.  All of a stream's state is its own, so the
\* first connection, which may come at any time, stands for every other.
OpenStream ==
    /\ ~stream.open
    /\ \E since \in 0 .. ms :
        stream' = [open |-> TRUE, since |-> since, cursor |-> since, fired |-> ms]
    /\ UNCHANGED <<ms, writing, stored, polls, sendHistory, storedLate, pollsOverlap>>

\* The interval fires.
StartPoll(p) ==
    /\ stream.open /\ Unpolled(p) /\ ms > stream.fired
    /\ polls' = [polls EXCEPT ![p] = [from |-> stream.cursor, event |-> {}, log |-> {},
                                      read |-> {"started"}]]
    /\ stream' = [stream EXCEPT !.fired = ms]
    /\ pollsOverlap' = (pollsOverlap \/ \E q \in Polls : ~Unpolled(q))
    /\ UNCHANGED <<ms, writing, stored, sendHistory, storedLate>>

RowsFrom(kind, from) ==
    {i \in DOMAIN stored : stored[i].kind = kind /\ stored[i].ts >= from}

\* Mutant: the limit is taken from the wrong end.
OldestOf(ids) == {i \in ids : Cardinality({j \in ids : j < i}) < PollLimit}

\* ORDER BY id DESC LIMIT
NewestOf(ids) == {i \in ids : Cardinality({j \in ids : j > i}) < PollLimit}

\* queryEvents() or queryLogs(), which take effect one before the other.
ReadTable(p, kind) ==
    /\ "started" \in polls[p].read /\ kind \notin polls[p].read
    /\ LET ids == RowsFrom(kind, polls[p].from)
       IN  /\ polls' = [polls EXCEPT ![p][kind] = NewestOf(ids),
                                     ![p].read = @ \cup {kind}]
           /\ shed' = shed \cup {i \in ids :
                                   Cardinality({j \in ids : j > i}) >= PollLimit}
    /\ UNCHANGED <<ms, writing, stored, stream, sentOnce, sentTwice, storedLate, pollsOverlap>>

\* The stamp of the first row of an answer.
FirstTs(ids) == IF ids = {} THEN 0 ELSE stored[Max(ids)].ts

\* Mutant: only the lines move the cursor.
NewestLineStamp(p) == Max({FirstTs(polls[p].log), stream.cursor})

\* The newest of both answers, each by its first row.
NewestStamp(p) == Max({FirstTs(polls[p].event), FirstTs(polls[p].log), stream.cursor})

\* Both answers are there: they are sent and the cursor moves on.
EndPoll(p) ==
    /\ {"event", "log"} \subseteq polls[p].read
    /\ LET ids == polls[p].event \cup polls[p].log
       IN  /\ sentTwice' = sentTwice \cup (ids \cap sentOnce)
           /\ sentOnce' = sentOnce \cup ids
    /\ stream' = [stream EXCEPT !.cursor = NewestStamp(p) + 1]
    /\ polls' = [polls EXCEPT ![p] = Asleep]
    /\ UNCHANGED <<ms, writing, stored, storedLate, shed, pollsOverlap>>

\* A query rejects: no row is sent, and the cursor stays.
FailPoll(p) ==
    /\ ~Unpolled(p)
    /\ polls' = [polls EXCEPT ![p] = Asleep]
    /\ UNCHANGED <<ms, writing, stored, stream, sendHistory, storedLate, pollsOverlap>>

StreamNext ==
    \/ MsPasses
    \/ OpenStream
    \/ \E w \in Writers :
        \/ \E kind \in {"event", "log"} : WriteBegins(w, kind)
        \/ WriteStored(w)
        \/ WriteForgotten(w)
    \/ \E p \in Polls :
        \/ StartPoll(p)
        \/ \E kind \in {"event", "log"} : ReadTable(p, kind)
        \/ EndPoll(p)
        \/ FailPoll(p)

StreamSpec == StreamInit /\ [][StreamNext]_observeVars

-----------------------------------------------------------------------------
\* Type invariant of the stream.
StreamTypeOK ==
    /\ ms \in 0 .. LastMs
    /\ Len(stored) <= MaxStored
    /\ sentTwice \subseteq sentOnce /\ sentOnce \cup storedLate \cup shed \subseteq DOMAIN stored

\* What the cursor has passed was sent: every event and line since the bound of
\* the connection, however its polls overlap and fail, but for what was over the
\* limit of a poll, and what was stored late; the event of a call that runs on
\* while newer ones are streamed is such.
PassedWasSent ==
    stream.open =>
        \A i \in DOMAIN stored :
            stored[i].ts \in stream.since .. stream.cursor - 1 =>
                i \in sentOnce \cup storedLate \cup shed

StampsInOrder ==
    \A i, j \in sentOnce :
        i < j /\ stored[i].kind = stored[j].kind => stored[i].ts <= stored[j].ts

\* Nothing is sent again on a connection, if its polls do not overlap and what
\* was sent had been stored in the order of its stamps: the first row tells the
\* newest stamp only then.
SentAtMostOnce == sentTwice # {} => pollsOverlap \/ ~StampsInOrder

\* Both at once.
StreamHolds == PassedWasSent /\ SentAtMostOnce
=============================================================================
