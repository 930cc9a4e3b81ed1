-------------------------- MODULE AgentWriteBuffer --------------------------
(***************************************************************************)
(* The write buffer between the request path and agent-traffic storage:    *)
(* class AgentWriteBuffer of server/agent/buffer.ts.                       *)
(*                                                                         *)
(* The class runs on one event loop, so a step is a stretch of code        *)
(* between two awaits.  flush() has one await, on the sink, inside its     *)
(* drain loop: an action that starts a flush runs up to the first sink     *)
(* call, and SinkReturns runs from there to the next sink call or to the   *)
(* end of the loop.  enqueue(), stop(), flush() and the interval timer may *)
(* run between any two of these.                                           *)
(***************************************************************************)
EXTENDS Integers, Sequences

CONSTANTS
    MaxQueue,     \* opts.maxQueue: records queued before enqueue drops
    BatchSize,    \* opts.batchSize: records handed to the sink in one call
    MaxOffers,    \* bound: calls of enqueue
    Stoppers      \* the callers of stop(), each calling it once

ASSUME BufferAssumption ==
    /\ MaxQueue \in Nat \ {0}
    /\ BatchSize \in Nat \ {0}
    /\ MaxOffers \in Nat

VARIABLES
    queue,        \* this.queue
    timer,        \* this.timer !== null
    flushing,     \* this.flushing
    dropped,      \* this.droppedCount
    batch,        \* the batch the running flush awaits the sink for
    offered,      \* history: calls of enqueue; the i-th record is named i
    stored,       \* history: records of the sink calls that resolved
    lost,         \* history: records of the sink calls that rejected
    stop,         \* stop[c]: where c's call of stop() is
    mark          \* history: mark[c] is offered when c called stop()

vars == <<queue, timer, flushing, dropped, batch, offered, stored, lost,
          stop, mark>>

-----------------------------------------------------------------------------
\* The part of a queue one splice(0, batchSize) takes, and what it leaves.
BatchLen(q) == IF Len(q) < BatchSize THEN Len(q) ELSE BatchSize

\* Mutant: the newest records are handed over instead of the oldest.
TakenNewest(q) == SubSeq(q, Len(q) - BatchLen(q) + 1, Len(q))

Taken(q) == SubSeq(q, 1, BatchLen(q))

\* Mutant: the batch is sliced, not spliced, and stays in the queue.
LeftAll(q) == IF Len(q) <= BatchSize THEN <<>> ELSE q

Left(q) == SubSeq(q, BatchLen(q) + 1, Len(q))

\* Accepted and not settled, oldest first.
Pending == batch \o queue

Init ==
    /\ queue = <<>>
    /\ timer = FALSE
    /\ flushing = FALSE
    /\ dropped = 0
    /\ batch = <<>>
    /\ offered = 0
    /\ stored = <<>>
    /\ lost = <<>>
    /\ stop = [c \in Stoppers |-> "idle"]
    /\ mark = [c \in Stoppers |-> 0]

\* One turn of the drain loop with q queued: hand a batch to the sink, or end.
Drain(q) ==
    /\ queue' = Left(q)
    /\ batch' = Taken(q)
    /\ flushing' = (q # <<>>)

\* Mutant: no re-entry guard, so a second flush overwrites the first's batch.
FlushReenters(q) == timer' = FALSE /\ Drain(q)

\* flush() called with q queued, up to its first await or return.
Flush(q) ==
    /\ timer' = FALSE
    /\ \/ /\ flushing
          /\ queue' = q
          /\ UNCHANGED <<batch, flushing>>
       \/ /\ ~flushing
          /\ Drain(q)

\* Mutant: the overflow test is off by one.
FullLate == Len(queue) > MaxQueue

Full == Len(queue) >= MaxQueue

\* Mutant: the counter runs the wrong way.
EnqueueDropDown ==
    /\ offered < MaxOffers
    /\ Full
    /\ offered' = offered + 1
    /\ dropped' = dropped - 1
    /\ UNCHANGED <<queue, timer, flushing, batch, stored, lost, stop, mark>>

\* enqueue() on a full queue counts the record and forgets it.
EnqueueDrop ==
    /\ offered < MaxOffers
    /\ Full
    /\ offered' = offered + 1
    /\ dropped' = dropped + 1
    /\ UNCHANGED <<queue, timer, flushing, batch, stored, lost, stop, mark>>

\* enqueue() otherwise: flush at a full batch, else arm the timer (which
\* leaves an armed timer as it is).
EnqueuePush ==
    /\ offered < MaxOffers
    /\ ~Full
    /\ offered' = offered + 1
    /\ LET q == Append(queue, offered + 1)
       IN  \/ /\ Len(q) >= BatchSize
              /\ Flush(q)
           \/ /\ Len(q) < BatchSize
              /\ queue' = q
              /\ timer' = TRUE
              /\ UNCHANGED <<flushing, batch>>
    /\ UNCHANGED <<dropped, stored, lost, stop, mark>>

\* The interval timer fires.  Flush clears timer in every case.
TimerFires ==
    /\ timer
    /\ Flush(queue)
    /\ UNCHANGED <<dropped, offered, stored, lost, stop, mark>>

\* A call of stop(): it clears the timer and awaits flush().  The call that
\* finds a flush running, or nothing queued, is over at once.
StopOutcome ==
    CASE flushing -> "coalesced"
      [] ~flushing /\ queue = <<>> -> "drained"
      [] OTHER -> "awaiting"

Stop(c) ==
    /\ stop[c] = "idle"
    /\ stop' = [stop EXCEPT ![c] = StopOutcome]
    /\ mark' = [mark EXCEPT ![c] = offered]
    /\ Flush(queue)
    /\ UNCHANGED <<dropped, offered, stored, lost>>

\* Mutant: the flush ends after one batch.
SinkReturnsOnce ==
    /\ flushing
    /\ \/ stored' = stored \o batch /\ UNCHANGED lost
       \/ lost' = lost \o batch /\ UNCHANGED stored
    /\ batch' = <<>>
    /\ flushing' = FALSE
    /\ stop' = [c \in Stoppers |->
                  IF stop[c] = "awaiting" THEN "drained" ELSE stop[c]]
    /\ UNCHANGED <<queue, timer, dropped, offered, mark>>

\* The awaited sink call resolves or rejects; the loop takes the next batch,
\* or the flush ends and with it the stop() that awaits it.
SinkReturns ==
    /\ flushing
    /\ \/ stored' = stored \o batch /\ UNCHANGED lost
       \/ lost' = lost \o batch /\ UNCHANGED stored
    /\ Drain(queue)
    /\ stop' = [c \in Stoppers |->
                  IF stop[c] = "awaiting" /\ queue = <<>>
                  THEN "drained" ELSE stop[c]]
    /\ UNCHANGED <<timer, dropped, offered, mark>>

Next ==
    \/ EnqueueDrop
    \/ EnqueuePush
    \/ TimerFires
    \/ \E c \in Stoppers : Stop(c)
    \/ SinkReturns

SafeSpec == Init /\ [][Next]_vars

\* A set timer fires and an awaited storage write settles; nobody owes the
\* buffer a record or a stop().
Spec == SafeSpec /\ WF_vars(TimerFires) /\ WF_vars(SinkReturns)

-----------------------------------------------------------------------------
\* Type invariant of the buffer's state.
TypeOK ==
    /\ queue \in Seq(Nat)
    /\ batch \in Seq(Nat)
    /\ stored \in Seq(Nat)
    /\ lost \in Seq(Nat)
    /\ timer \in BOOLEAN
    /\ flushing \in BOOLEAN
    /\ dropped \in Nat
    /\ offered \in Nat
    /\ stop \in [Stoppers -> {"idle", "awaiting", "coalesced", "drained"}]
    /\ mark \in [Stoppers -> Nat]

\* The memory the buffer holds is bounded: at most MaxQueue records queued,
\* one batch more with the sink, and past one batch only under a running
\* flush (a slow sink, never the timer, is what lets the queue grow).
Bounded ==
    /\ Len(queue) <= MaxQueue
    /\ Len(batch) <= BatchSize
    /\ Len(queue) >= BatchSize => flushing

\* No record is stranded: whatever is queued has a timer set or a running
\* flush whose loop will come to it, whichever way enqueue, stop, the timer
\* and the sink's answers interleave.
NotStranded == queue # <<>> => timer \/ flushing

\* Every record offered is in exactly one place: dropped, stored, lost, with
\* the sink, or queued.
Conserved ==
    Len(stored) + Len(lost) + Len(Pending) + dropped = offered

\* s ascends strictly, so it repeats nothing and keeps the order of offering,
\* and ends at n or before.
Ascending(s) == \A i, j \in 1..Len(s) : i < j => s[i] < s[j]

UpTo(s, n) == \A i \in 1..Len(s) : s[i] <= n

\* Storage sees the records in the order they were captured and none of them
\* twice, and what is still pending comes after all of it.
InOrder ==
    \A s \in {stored, lost} :
        Ascending(s \o Pending) /\ UpTo(s \o Pending, offered)

\* The buffer keeps its books through overflow, failed writes, re-entered
\* flushes and several stops: what it holds is bounded, and every record offered
\* is in one place, in the order of capture.
Accounted == Bounded /\ Conserved /\ InOrder

\* A stop() that ran the final flush itself resolves only after every record
\* offered before the call has been handed to the sink and settled.  (One that
\* finds a flush running is over at once, buffer.ts:124, and promises nothing.)
StopDrains ==
    \A c \in Stoppers :
        stop[c] = "drained" =>
            \A i \in 1..Len(Pending) : Pending[i] > mark[c]

\* With room for a batch in the queue, a record is dropped only while the
\* sink holds up a flush: a sink that answers never costs a record.
DropsOnlyUnderBackpressure ==
    [][dropped' # dropped /\ BatchSize <= MaxQueue => flushing]_vars

\* The buffer is a bounded, ordered, exactly-once waiting line.
Promise == INSTANCE BoundedDelivery WITH
    waiting <- Pending,
    refused <- dropped,
    Capacity <- MaxQueue + BatchSize,
    RefuseFrom <- MaxQueue,
    LeaveMax <- BatchSize

\* Refinement: every step of the buffer is a step of the waiting line, and
\* what it accepts is written, or lost to a storage failure, in the end.
ImplementsPromise == Promise!Spec
=============================================================================
