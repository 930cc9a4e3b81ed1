----------------------- MODULE AgentWriteBuffer_proofs -----------------------
(***************************************************************************)
(* Proofs about AgentWriteBuffer, for every queue bound, batch size,       *)
(* number of records and set of stop() callers: its safety invariants, and *)
(* that it implements BoundedDelivery.                                     *)
(***************************************************************************)
EXTENDS AgentWriteBuffer, SequenceTheorems, TLAPS

(***************************************************************************)
(* Sequences.                                                              *)
(***************************************************************************)

\* splice cuts a queue in two: nothing is lost, copied or moved.
LEMMA Splice ==
    ASSUME NEW q \in Seq(Nat)
    PROVE  /\ BatchLen(q) \in 0..Len(q) /\ BatchLen(q) <= BatchSize
           /\ Taken(q) \in Seq(Nat) /\ Len(Taken(q)) = BatchLen(q)
           /\ Left(q) \in Seq(Nat) /\ Len(Left(q)) = Len(q) - BatchLen(q)
           /\ Taken(q) \o Left(q) = q
           /\ q # <<>> <=> Taken(q) # <<>>
           /\ Len(q) >= BatchSize => BatchLen(q) = BatchSize
<1>1. /\ Len(q) \in Nat
      /\ BatchLen(q) \in 0..Len(q) /\ BatchLen(q) <= BatchSize
      /\ BatchLen(q) = 0 <=> Len(q) = 0
      /\ Len(q) >= BatchSize => BatchLen(q) = BatchSize
  BY LenProperties, BufferAssumption DEF BatchLen
<1>2. \A i \in 1..Len(q) : q[i] \in Nat
  BY ElementOfSeq
<1>3. Taken(q) \in Seq(Nat) /\ Len(Taken(q)) = BatchLen(q)
  <2>1. \A i \in 1..BatchLen(q) : q[i] \in Nat
    BY <1>1, <1>2
  <2> QED  BY <1>1, <2>1, SubSeqProperties DEF Taken
<1>4. Left(q) \in Seq(Nat) /\ Len(Left(q)) = Len(q) - BatchLen(q)
  <2>1. \A i \in BatchLen(q) + 1 .. Len(q) : q[i] \in Nat
    BY <1>1, <1>2
  <2>2. BatchLen(q) + 1 \in Int /\ Len(q) \in Int
    BY <1>1
  <2>3. /\ Left(q) \in Seq(Nat)
        /\ Len(Left(q)) = IF BatchLen(q) + 1 <= Len(q)
                          THEN Len(q) - (BatchLen(q) + 1) + 1 ELSE 0
    BY <2>1, <2>2, SubSeqProperties DEF Left
  <2> QED  BY <1>1, <2>3
<1>5. Taken(q) \o Left(q) = q
  <2>1. /\ 1 \in 1..Len(q)+1 /\ BatchLen(q) \in 1-1..Len(q)
        /\ Len(q) \in BatchLen(q)..Len(q)
    BY <1>1
  <2>2. Taken(q) \o Left(q) = SubSeq(q, 1, Len(q))
    BY <2>1, ConcatAdjacentSubSeq DEF Taken, Left
  <2> QED  BY <2>2, SubSeqFull
<1>6. q # <<>> <=> Taken(q) # <<>>
  BY <1>1, <1>3, EmptySeq
<1> QED  BY <1>1, <1>3, <1>4, <1>5, <1>6

\* A sequence stays ascending when something past all of it is appended.
LEMMA AscendingAppend ==
    ASSUME NEW s \in Seq(Nat), NEW n \in Nat,
           Ascending(s), \A i \in 1..Len(s) : s[i] < n
    PROVE  Ascending(Append(s, n))
<1>1. /\ Len(s) \in Nat
      /\ Len(Append(s, n)) = Len(s) + 1
      /\ \A i \in 1..Len(s) : Append(s, n)[i] = s[i]
      /\ Append(s, n)[Len(s) + 1] = n
  BY AppendProperties, LenProperties
<1>2. SUFFICES ASSUME NEW i \in 1..Len(s)+1, NEW j \in 1..Len(s)+1, i < j
               PROVE  Append(s, n)[i] < Append(s, n)[j]
  BY <1>1 DEF Ascending
<1>3. CASE j = Len(s) + 1
  <2>1. i \in 1..Len(s)  BY <1>1, <1>2, <1>3
  <2> QED  BY <1>1, <1>3, <2>1
<1>4. CASE j # Len(s) + 1
  <2>1. i \in 1..Len(s) /\ j \in 1..Len(s)  BY <1>1, <1>2, <1>4
  <2> QED  BY <1>1, <1>2, <2>1 DEF Ascending
<1> QED  BY <1>3, <1>4

\* Cutting the middle out of a sequence keeps each element's place in order.
LEMMA SkipPlaces ==
    ASSUME NEW s \in Seq(Nat), NEW t \in Seq(Nat), NEW u \in Seq(Nat),
           NEW k \in 1..Len(s \o u)
    PROVE  LET p == IF k <= Len(s) THEN k ELSE k + Len(t)
           IN  /\ p \in 1..Len(s \o (t \o u))
               /\ (s \o u)[k] = (s \o (t \o u))[p]
<1> DEFINE all == s \o (t \o u)
<1>1. Len(s) \in Nat /\ Len(t) \in Nat /\ Len(u) \in Nat
  BY LenProperties
<1>2. /\ t \o u \in Seq(Nat) /\ Len(t \o u) = Len(t) + Len(u)
      /\ \A i \in 1..Len(t) + Len(u) :
            (t \o u)[i] = IF i <= Len(t) THEN t[i] ELSE u[i - Len(t)]
  BY ConcatProperties
<1>3. /\ Len(all) = Len(s) + Len(t) + Len(u)
      /\ \A i \in 1..Len(s) + Len(t) + Len(u) :
            all[i] = IF i <= Len(s) THEN s[i] ELSE (t \o u)[i - Len(s)]
  <2>1. /\ Len(all) = Len(s) + Len(t \o u)
        /\ \A i \in 1..Len(s) + Len(t \o u) :
              all[i] = IF i <= Len(s) THEN s[i] ELSE (t \o u)[i - Len(s)]
    BY <1>2, ConcatProperties
  <2> QED  BY <1>1, <1>2, <2>1
<1>4. /\ Len(s \o u) = Len(s) + Len(u)
      /\ \A i \in 1..Len(s) + Len(u) :
            (s \o u)[i] = IF i <= Len(s) THEN s[i] ELSE u[i - Len(s)]
  BY ConcatProperties
<1>5. k \in 1..Len(s) + Len(u)
  BY <1>4
<1>6. CASE k <= Len(s)
  BY <1>1, <1>3, <1>4, <1>5, <1>6
<1>7. CASE ~(k <= Len(s))
  <2>1. /\ k + Len(t) \in 1..Len(s) + Len(t) + Len(u)
        /\ ~(k + Len(t) <= Len(s))
        /\ k + Len(t) - Len(s) \in 1..Len(t) + Len(u)
        /\ ~(k + Len(t) - Len(s) <= Len(t))
        /\ k + Len(t) - Len(s) - Len(t) = k - Len(s)
    BY <1>1, <1>5, <1>7
  <2>2. all[k + Len(t)] = (t \o u)[k + Len(t) - Len(s)]
    BY <1>3, <2>1
  <2>3. (t \o u)[k + Len(t) - Len(s)] = u[k - Len(s)]
    BY <1>2, <2>1
  <2> QED  BY <1>3, <1>4, <1>5, <1>7, <2>1, <2>2, <2>3
<1> QED  BY <1>6, <1>7

\* What is left of an ascending sequence when its middle is cut out ascends.
LEMMA AscendingSkip ==
    ASSUME NEW s \in Seq(Nat), NEW t \in Seq(Nat), NEW u \in Seq(Nat),
           Ascending(s \o (t \o u))
    PROVE  Ascending(s \o u)
<1> DEFINE p(k) == IF k <= Len(s) THEN k ELSE k + Len(t)
<1>1. Len(s) \in Nat /\ Len(t) \in Nat /\ Len(s \o u) \in Nat
  BY LenProperties, ConcatProperties
<1>2. ASSUME NEW i \in 1..Len(s \o u), NEW j \in 1..Len(s \o u), i < j
      PROVE  (s \o u)[i] < (s \o u)[j]
  <2>1. /\ p(i) \in 1..Len(s \o (t \o u)) /\ (s \o u)[i] = (s \o (t \o u))[p(i)]
        /\ p(j) \in 1..Len(s \o (t \o u)) /\ (s \o u)[j] = (s \o (t \o u))[p(j)]
    BY SkipPlaces
  <2>2. p(i) < p(j)
    BY <1>1, <1>2
  <2> QED  BY <2>1, <2>2 DEF Ascending
<1> QED  BY <1>2 DEF Ascending

\* Leaving out a middle part does not raise the largest number.
LEMMA UpToSkip ==
    ASSUME NEW s \in Seq(Nat), NEW t \in Seq(Nat), NEW u \in Seq(Nat), NEW n,
           UpTo(s \o (t \o u), n)
    PROVE  UpTo(s \o u, n)
<1> SUFFICES ASSUME NEW k \in 1..Len(s \o u)
             PROVE  (s \o u)[k] <= n
  BY DEF UpTo
<1>1. PICK p \in 1..Len(s \o (t \o u)) : (s \o u)[k] = (s \o (t \o u))[p]
  BY SkipPlaces, ZenonT(30)
<1> QED  BY <1>1 DEF UpTo

(***************************************************************************)
(* The inductive invariant.  Besides the invariants the runs check it says *)
(* that the flag of a running flush and the batch in the sink's hands      *)
(* agree, that a stop() still waiting has a flush to wait for, and that no *)
(* stop() was marked past the records offered.                             *)
(***************************************************************************)
FlushHoldsBatch == flushing <=> batch # <<>>

StopWaits ==
    \A c \in Stoppers :
        /\ stop[c] = "awaiting" => flushing
        /\ mark[c] <= offered

IInv ==
    /\ TypeOK
    /\ Bounded
    /\ NotStranded
    /\ FlushHoldsBatch
    /\ Conserved
    /\ InOrder
    /\ StopWaits
    /\ StopDrains

\* What flush() does with q queued, seen from the waiting line: nothing.
LEMMA FlushKeepsPending ==
    ASSUME TypeOK, FlushHoldsBatch, NEW q \in Seq(Nat), Flush(q)
    PROVE  /\ queue' \in Seq(Nat) /\ batch' \in Seq(Nat)
           /\ timer' \in BOOLEAN /\ flushing' \in BOOLEAN
           /\ Pending' = batch \o q
           /\ FlushHoldsBatch'
           /\ flushing \/ q # <<>> => flushing'
           /\ Len(queue') <= Len(q)
           /\ Len(batch') <= BatchSize \/ batch' = batch
<1>1. CASE flushing
  <2>1. queue' = q /\ batch' = batch /\ flushing' = flushing /\ timer' = FALSE
    BY <1>1 DEF Flush
  <2>2. Pending' = batch \o q
    BY <2>1 DEF Pending
  <2>3. FlushHoldsBatch'
    BY <2>1 DEF FlushHoldsBatch
  <2>4. Len(queue') <= Len(q)
    BY <2>1, LenProperties
  <2> QED  BY <1>1, <2>1, <2>2, <2>3, <2>4 DEF TypeOK
<1>2. CASE ~flushing
  <2>1. /\ queue' = Left(q) /\ batch' = Taken(q) /\ flushing' = (q # <<>>)
        /\ timer' = FALSE
    BY <1>2 DEF Flush, Drain
  <2>2. batch = <<>>
    BY <1>2 DEF FlushHoldsBatch
  <2>3. batch \o q = q
    BY <2>2, ConcatEmptySeq
  <2>4. /\ Taken(q) \in Seq(Nat) /\ Left(q) \in Seq(Nat)
        /\ Taken(q) \o Left(q) = q
        /\ q # <<>> <=> Taken(q) # <<>>
    BY Splice
  <2>5. Len(Left(q)) <= Len(q) /\ Len(Taken(q)) <= BatchSize
    <3>1. /\ BatchLen(q) \in 0..Len(q) /\ BatchLen(q) <= BatchSize
          /\ Len(Taken(q)) = BatchLen(q)
          /\ Len(Left(q)) = Len(q) - BatchLen(q)
      BY Splice
    <3> QED  BY <3>1, LenProperties
  <2> QED  BY <1>2, <2>1, <2>3, <2>4, <2>5 DEF Pending, FlushHoldsBatch
<1> QED  BY <1>1, <1>2 DEF TypeOK

\* What is pending is a sequence of numbers.
LEMMA PendingType == TypeOK => Pending \in Seq(Nat)
BY ConcatProperties DEF TypeOK, Pending

\* What each action does to the waiting line.
LEMMA PushAppends ==
    ASSUME IInv, EnqueuePush
    PROVE  /\ TypeOK' /\ FlushHoldsBatch' /\ NotStranded' /\ Bounded'
           /\ Pending' = Append(Pending, offered + 1)
           /\ flushing => flushing'
<1> DEFINE q == Append(queue, offered + 1)
<1> USE DEF IInv
<1>1. /\ q \in Seq(Nat) /\ Len(q) = Len(queue) + 1 /\ q # <<>>
      /\ Len(queue) \in Nat /\ Len(queue) < MaxQueue /\ offered + 1 \in Nat
  <2>1. queue \in Seq(Nat) /\ offered + 1 \in Nat /\ Len(queue) \in Nat
    BY LenProperties DEF TypeOK
  <2>2. ~(Len(queue) >= MaxQueue)
    BY DEF EnqueuePush, Full
  <2>3. Len(queue) < MaxQueue
    BY <2>1, <2>2, BufferAssumption
  <2>4. q \in Seq(Nat) /\ Len(q) = Len(queue) + 1 /\ q # <<>>
    BY <2>1, AppendProperties
  <2> QED  BY <2>1, <2>3, <2>4
<1>2. batch \o q = Append(Pending, offered + 1)
  <2>1. q = queue \o <<offered + 1>>
    BY <1>1, AppendIsConcat DEF TypeOK
  <2>2. <<offered + 1>> \in Seq(Nat)
    BY <1>1
  <2>3. batch \o (queue \o <<offered + 1>>) = (batch \o queue) \o <<offered + 1>>
    BY <2>2, ConcatAssociative, SMTT(30) DEF TypeOK
  <2>4. Append(Pending, offered + 1) = Pending \o <<offered + 1>>
    BY <1>1, PendingType, AppendIsConcat
  <2> QED  BY <2>1, <2>3, <2>4 DEF Pending
<1>3. /\ offered' = offered + 1
      /\ UNCHANGED <<dropped, stored, lost, stop, mark>>
  BY DEF EnqueuePush
<1>4. CASE Len(q) >= BatchSize /\ Flush(q)
  <2>1. /\ queue' \in Seq(Nat) /\ batch' \in Seq(Nat)
        /\ timer' \in BOOLEAN /\ flushing' \in BOOLEAN
        /\ Pending' = batch \o q
        /\ FlushHoldsBatch'
        /\ flushing'
        /\ Len(queue') <= Len(q)
        /\ Len(batch') <= BatchSize \/ batch' = batch
    BY <1>1, <1>4, FlushKeepsPending
  <2>2. TypeOK'
    BY <1>1, <1>3, <2>1 DEF TypeOK
  <2>3. NotStranded'
    BY <2>1 DEF NotStranded
  <2>4. Bounded'
    <3>1. Len(queue') \in Nat
      BY <2>1, LenProperties
    <3> QED  BY <1>1, <2>1, <3>1, BufferAssumption DEF Bounded
  <2> QED  BY <1>2, <2>1, <2>2, <2>3, <2>4
<1>5. CASE /\ Len(q) < BatchSize
           /\ queue' = q
           /\ timer' = TRUE
           /\ UNCHANGED <<flushing, batch>>
  <2>1. TypeOK'
    BY <1>1, <1>3, <1>5 DEF TypeOK
  <2>2. NotStranded' /\ FlushHoldsBatch'
    BY <1>5 DEF NotStranded, FlushHoldsBatch
  <2>3. Bounded'
    BY <1>1, <1>5, BufferAssumption DEF Bounded
  <2>4. Pending' = Append(Pending, offered + 1)
    BY <1>2, <1>5 DEF Pending
  <2> QED  BY <1>5, <2>1, <2>2, <2>3, <2>4
<1> QED  BY <1>4, <1>5 DEF EnqueuePush

\* A refused record leaves the waiting line as it was.
LEMMA DropChangesNothing ==
    ASSUME IInv, EnqueueDrop
    PROVE  /\ TypeOK' /\ FlushHoldsBatch' /\ NotStranded' /\ Bounded'
           /\ Pending' = Pending
           /\ MaxQueue <= Len(queue)
<1> USE DEF IInv
<1>1. UNCHANGED <<queue, timer, flushing, batch, stored, lost, stop, mark>>
  BY DEF EnqueueDrop
<1>2. offered' \in Nat /\ dropped' \in Nat
  BY DEF EnqueueDrop, TypeOK
<1>3. MaxQueue <= Len(queue)
  BY LenProperties, BufferAssumption DEF EnqueueDrop, Full, TypeOK
<1>4. TypeOK'
  BY <1>1, <1>2 DEF TypeOK
<1>5. FlushHoldsBatch' /\ NotStranded' /\ Bounded' /\ Pending' = Pending
  BY <1>1 DEF FlushHoldsBatch, NotStranded, Bounded, Pending
<1> QED  BY <1>3, <1>4, <1>5

\* The timer and stop() both flush the queue as it is.
LEMMA FlushChangesNothing ==
    ASSUME IInv, Flush(queue)
    PROVE  /\ queue' \in Seq(Nat) /\ batch' \in Seq(Nat)
           /\ timer' \in BOOLEAN /\ flushing' \in BOOLEAN
           /\ FlushHoldsBatch' /\ NotStranded' /\ Bounded'
           /\ Pending' = Pending
           /\ flushing \/ queue # <<>> => flushing'
<1> USE DEF IInv
<1>1. queue \in Seq(Nat)
  BY DEF TypeOK
<1>2. /\ queue' \in Seq(Nat) /\ batch' \in Seq(Nat)
      /\ timer' \in BOOLEAN /\ flushing' \in BOOLEAN
      /\ Pending' = batch \o queue
      /\ FlushHoldsBatch'
      /\ flushing \/ queue # <<>> => flushing'
      /\ Len(queue') <= Len(queue)
      /\ Len(batch') <= BatchSize \/ batch' = batch
  BY <1>1, FlushKeepsPending
<1>3. queue' # <<>> => queue # <<>>
  BY <1>1, <1>2, EmptySeq, LenProperties
<1>4. NotStranded'
  BY <1>2, <1>3 DEF NotStranded
<1>5. Bounded'
  <2>1. Len(queue') \in Nat /\ Len(queue) \in Nat
    BY <1>1, <1>2, LenProperties
  <2> QED  BY <1>2, <2>1, BufferAssumption DEF Bounded
<1> QED  BY <1>2, <1>4, <1>5 DEF Pending

\* The sink's answer takes the batch, and nothing else, out of the line.
LEMMA SinkTakesBatch ==
    ASSUME IInv, SinkReturns
    PROVE  /\ TypeOK' /\ FlushHoldsBatch' /\ NotStranded' /\ Bounded'
           /\ batch # <<>>
           /\ Pending' = queue
           /\ queue # <<>> => flushing'
<1> USE DEF IInv
<1>1. /\ queue \in Seq(Nat) /\ batch \in Seq(Nat) /\ stored \in Seq(Nat)
      /\ lost \in Seq(Nat)
  BY DEF TypeOK
<1>2. /\ queue' = Left(queue) /\ batch' = Taken(queue)
      /\ flushing' = (queue # <<>>)
      /\ UNCHANGED <<timer, dropped, offered, mark>>
      /\ flushing
  BY DEF SinkReturns, Drain
<1>3. /\ BatchLen(queue) \in 0..Len(queue) /\ BatchLen(queue) <= BatchSize
      /\ Taken(queue) \in Seq(Nat) /\ Len(Taken(queue)) = BatchLen(queue)
      /\ Left(queue) \in Seq(Nat)
      /\ Len(Left(queue)) = Len(queue) - BatchLen(queue)
      /\ Taken(queue) \o Left(queue) = queue
      /\ queue # <<>> <=> Taken(queue) # <<>>
  BY <1>1, Splice
<1>4. stored' \in Seq(Nat) /\ lost' \in Seq(Nat)
  BY <1>1, ConcatProperties DEF SinkReturns
<1>5. stop' \in [Stoppers -> {"idle", "awaiting", "coalesced", "drained"}]
  BY DEF SinkReturns, TypeOK
<1>6. TypeOK'
  BY <1>2, <1>3, <1>4, <1>5 DEF TypeOK
<1>7. FlushHoldsBatch'
  BY <1>2, <1>3 DEF FlushHoldsBatch
<1>8. Len(Left(queue)) > 0 => queue # <<>>
  BY <1>1, <1>3, EmptySeq
<1>9. NotStranded'
  <2>1. Left(queue) # <<>> => Len(Left(queue)) > 0
    BY <1>3, EmptySeq
  <2> QED  BY <1>2, <1>8, <2>1 DEF NotStranded
<1>10. Bounded'
  <2>1. Len(queue) \in Nat
    BY <1>1, LenProperties
  <2>2. Len(queue') <= MaxQueue /\ Len(batch') <= BatchSize
    BY <1>2, <1>3, <2>1, BufferAssumption DEF Bounded
  <2>3. Len(Left(queue)) >= BatchSize => queue # <<>>
    BY <1>3, <1>8, <2>1, BufferAssumption
  <2>4. Len(queue') >= BatchSize => flushing'
    BY <1>2, <2>3
  <2> QED  BY <2>2, <2>4 DEF Bounded
<1>11. Pending' = queue
  BY <1>2, <1>3 DEF Pending
<1> QED
  BY <1>2, <1>6, <1>7, <1>9, <1>10, <1>11 DEF FlushHoldsBatch

-----------------------------------------------------------------------------
\* The history invariants, from what a step does to the waiting line.

\* A step that leaves line, outcomes and counters alone.
LEMMA HistorySame ==
    ASSUME IInv, Pending' = Pending, UNCHANGED <<stored, lost, dropped, offered>>
    PROVE  Conserved' /\ InOrder'
BY DEF IInv, Conserved, InOrder, Ascending, UpTo

\* Accounting and order over a refusal: one more offered, one more dropped.
LEMMA HistoryDrop ==
    ASSUME IInv, EnqueueDrop
    PROVE  Conserved' /\ InOrder'
<1> USE DEF IInv
<1>1. /\ Pending' = Pending
      /\ stored' = stored /\ lost' = lost
      /\ dropped' = dropped + 1 /\ offered' = offered + 1
  BY DropChangesNothing DEF EnqueueDrop
<1>2. /\ Pending \in Seq(Nat) /\ stored \in Seq(Nat) /\ lost \in Seq(Nat)
      /\ offered \in Nat /\ dropped \in Nat
      /\ Len(stored) \in Nat /\ Len(lost) \in Nat /\ Len(Pending) \in Nat
  BY PendingType, LenProperties DEF TypeOK
<1>3. Conserved'
  <2>1. Len(stored) + Len(lost) + Len(Pending) + (dropped + 1) = offered + 1
    BY <1>2, SMTT(30) DEF Conserved
  <2> QED  BY <1>1, <2>1 DEF Conserved
<1>4. ASSUME NEW s \in Seq(Nat), UpTo(s \o Pending, offered)
      PROVE  UpTo(s \o Pending, offered + 1)
  <2>1. s \o Pending \in Seq(Nat)
    BY <1>2, ConcatProperties
  <2>2. \A k \in 1..Len(s \o Pending) : (s \o Pending)[k] \in Nat
    BY <2>1, ElementOfSeq
  <2>3. \A k \in 1..Len(s \o Pending) : (s \o Pending)[k] <= offered
    BY <1>4 DEF UpTo
  <2> DEFINE t == s \o Pending
  <2> HIDE DEF t
  <2>4. \A k \in 1..Len(t) : t[k] <= offered + 1
    BY <1>2, <2>2, <2>3 DEF t
  <2> QED  BY <2>4 DEF UpTo, t
<1> QED  BY <1>1, <1>2, <1>3, <1>4 DEF InOrder, Ascending

\* Accounting and order over an accepted record, the greatest so far.
LEMMA HistoryPush ==
    ASSUME IInv, EnqueuePush
    PROVE  Conserved' /\ InOrder'
<1> USE DEF IInv
<1> DEFINE n == offered + 1
<1>1. /\ Pending' = Append(Pending, n)
      /\ stored' = stored /\ lost' = lost
      /\ dropped' = dropped /\ offered' = n
  BY PushAppends DEF EnqueuePush
<1>2. /\ Pending \in Seq(Nat) /\ stored \in Seq(Nat) /\ lost \in Seq(Nat)
      /\ offered \in Nat /\ dropped \in Nat /\ n \in Nat
      /\ Len(stored) \in Nat /\ Len(lost) \in Nat /\ Len(Pending) \in Nat
  BY PendingType, LenProperties DEF TypeOK
<1>3. Len(Append(Pending, n)) = Len(Pending) + 1
  BY <1>2, AppendProperties
<1>4. Conserved'
  <2>1. Len(stored) + Len(lost) + Len(Pending) + dropped = offered
    BY DEF Conserved
  <2>2. Len(stored) + Len(lost) + Len(Append(Pending, n)) + dropped = n
    BY <1>2, <1>3, <2>1, SMTT(30)
  <2> QED  BY <1>1, <2>2 DEF Conserved
<1>5. ASSUME NEW s \in Seq(Nat),
             Ascending(s \o Pending), UpTo(s \o Pending, offered)
      PROVE  /\ Ascending(s \o Append(Pending, n))
             /\ UpTo(s \o Append(Pending, n), n)
  <2> DEFINE line == s \o Pending
  <2>1. line \in Seq(Nat) /\ <<n>> \in Seq(Nat)
    BY <1>2, ConcatProperties
  <2>2. s \o Append(Pending, n) = s \o (Pending \o <<n>>)
    BY <1>2, AppendIsConcat
  <2>3. s \o (Pending \o <<n>>) = line \o <<n>>
    BY <1>2, <2>1, ConcatAssociative
  <2>4. line \o <<n>> = Append(line, n)
    BY <1>2, <2>1, AppendIsConcat
  <2>5. \A i \in 1..Len(line) : line[i] \in Nat /\ line[i] <= offered
    BY <1>5, <2>1, ElementOfSeq DEF UpTo
  <2>6. Ascending(Append(line, n))
    <3> HIDE DEF line
    <3>1. \A i \in 1..Len(line) : line[i] < n
      BY <1>2, <2>5
    <3>2. Ascending(line)
      BY <1>5 DEF line
    <3> QED  BY <1>2, <2>1, <3>1, <3>2, AscendingAppend
  <2>7. UpTo(Append(line, n), n)
    <3> HIDE DEF line
    <3>1. /\ Len(Append(line, n)) = Len(line) + 1 /\ Len(line) \in Nat
          /\ \A i \in 1..Len(line) : Append(line, n)[i] = line[i]
          /\ Append(line, n)[Len(line) + 1] = n
      BY <1>2, <2>1, AppendProperties, LenProperties
    <3>2. ASSUME NEW i \in 1..Len(line) + 1
          PROVE  Append(line, n)[i] <= n
      <4>1. CASE i = Len(line) + 1
        BY <1>2, <3>1, <4>1
      <4>2. CASE i # Len(line) + 1
        BY <1>2, <2>5, <3>1, <4>2
      <4> QED  BY <4>1, <4>2
    <3> QED  BY <3>1, <3>2 DEF UpTo
  <2> QED  BY <2>2, <2>3, <2>4, <2>6, <2>7
<1> QED  BY <1>1, <1>2, <1>4, <1>5 DEF InOrder

\* Accounting and order when a batch moves to what is stored or lost.
LEMMA HistorySink ==
    ASSUME IInv, SinkReturns
    PROVE  Conserved' /\ InOrder'
<1> USE DEF IInv
<1>1. /\ Pending' = queue /\ dropped' = dropped /\ offered' = offered
  BY SinkTakesBatch DEF SinkReturns
<1>2. /\ queue \in Seq(Nat) /\ batch \in Seq(Nat)
      /\ stored \in Seq(Nat) /\ lost \in Seq(Nat)
      /\ offered \in Nat /\ dropped \in Nat
      /\ Len(stored) \in Nat /\ Len(lost) \in Nat
      /\ Len(batch) \in Nat /\ Len(queue) \in Nat
  BY LenProperties DEF TypeOK
<1>3. /\ Len(Pending) = Len(batch) + Len(queue)
      /\ Len(stored \o batch) = Len(stored) + Len(batch)
      /\ Len(lost \o batch) = Len(lost) + Len(batch)
  BY <1>2, ConcatProperties DEF Pending
<1>4. Len(stored) + Len(lost) + Len(Pending) + dropped = offered
  BY DEF Conserved
\* The outcome that takes the batch keeps its line; the other skips it.
<1>5. ASSUME NEW s \in Seq(Nat), Ascending(s \o Pending),
             UpTo(s \o Pending, offered)
      PROVE  /\ Ascending((s \o batch) \o queue)
             /\ UpTo((s \o batch) \o queue, offered)
             /\ Ascending(s \o queue)
             /\ UpTo(s \o queue, offered)
  <2>1. (s \o batch) \o queue = s \o Pending
    <3>1. \A a, b, c \in Seq(Nat) : (a \o b) \o c = a \o (b \o c)
      BY ConcatAssociative, SMTT(30)
    <3> QED  BY <1>2, <3>1 DEF Pending
  <2>2. Ascending(s \o queue)
    BY <1>2, <1>5, AscendingSkip DEF Pending
  <2>3. UpTo(s \o queue, offered)
    BY <1>2, <1>5, UpToSkip DEF Pending
  <2> QED  BY <1>5, <2>1, <2>2, <2>3
<1>6. CASE stored' = stored \o batch /\ lost' = lost
  <2>1. Conserved'
    BY <1>1, <1>2, <1>3, <1>4, <1>6 DEF Conserved
  <2> QED  BY <1>1, <1>2, <1>5, <1>6, <2>1 DEF InOrder
<1>7. CASE lost' = lost \o batch /\ stored' = stored
  <2>1. Conserved'
    BY <1>1, <1>2, <1>3, <1>4, <1>7 DEF Conserved
  <2> QED  BY <1>1, <1>2, <1>5, <1>7, <2>1 DEF InOrder
<1> QED  BY <1>6, <1>7 DEF SinkReturns

-----------------------------------------------------------------------------
\* stop(): the marks and the waits.

\* A step that leaves the stop() calls alone, ends no flush, and lets the line
\* grow only by records past those offered so far.
LEMMA StopsSame ==
    ASSUME IInv, UNCHANGED <<stop, mark>>,
           offered' \in Nat, offered <= offered', flushing => flushing',
           Pending' = Pending \/ Pending' = Append(Pending, offered + 1)
    PROVE  StopWaits' /\ StopDrains'
<1> USE DEF IInv
<1>1. /\ Pending \in Seq(Nat) /\ offered \in Nat /\ offered + 1 \in Nat
      /\ \A c \in Stoppers : mark[c] \in Nat /\ mark[c] <= offered
  BY PendingType DEF TypeOK, StopWaits
<1>2. StopWaits'
  BY <1>1 DEF StopWaits
<1>3. CASE Pending' = Pending
  <2>1. StopDrains'
    BY <1>3 DEF StopDrains
  <2> QED  BY <1>2, <2>1
<1>4. CASE Pending' = Append(Pending, offered + 1)
  <2>1. /\ Len(Append(Pending, offered + 1)) = Len(Pending) + 1
        /\ Len(Pending) \in Nat
        /\ \A i \in 1..Len(Pending) : Append(Pending, offered + 1)[i] = Pending[i]
        /\ Append(Pending, offered + 1)[Len(Pending) + 1] = offered + 1
    BY <1>1, AppendProperties, LenProperties
  <2>2. ASSUME NEW c \in Stoppers, stop[c] = "drained",
               NEW i \in 1..Len(Pending) + 1
        PROVE  Append(Pending, offered + 1)[i] > mark[c]
    <3>1. CASE i = Len(Pending) + 1
      BY <1>1, <2>1, <3>1
    <3>2. CASE i # Len(Pending) + 1
      <4>1. i \in 1..Len(Pending)
        BY <2>1, <3>2
      <4> QED  BY <2>1, <2>2, <4>1 DEF StopDrains
    <3> QED  BY <3>1, <3>2
  <2>3. StopDrains'
    BY <1>4, <2>1, <2>2 DEF StopDrains
  <2> QED  BY <1>2, <2>3
<1> QED  BY <1>3, <1>4

\* A call of stop() awaits the flush it started, or is over.
LEMMA StopsOnStop ==
    ASSUME IInv, NEW c \in Stoppers, Stop(c)
    PROVE  StopWaits' /\ StopDrains'
           /\ stop' \in [Stoppers -> {"idle", "awaiting", "coalesced", "drained"}]
           /\ mark' \in [Stoppers -> Nat]
<1> USE DEF IInv
<1>1. /\ stop' = [stop EXCEPT ![c] = StopOutcome]
      /\ mark' = [mark EXCEPT ![c] = offered]
      /\ offered' = offered
      /\ Flush(queue)
  BY DEF Stop
<1>2. Pending' = Pending /\ (flushing \/ queue # <<>> => flushing')
  BY <1>1, FlushChangesNothing
<1>3. /\ StopOutcome \in {"awaiting", "coalesced", "drained"}
      /\ StopOutcome = "awaiting" => queue # <<>>
      /\ StopOutcome = "drained" => ~flushing /\ queue = <<>>
  BY DEF StopOutcome, TypeOK
<1>4. /\ stop \in [Stoppers -> {"idle", "awaiting", "coalesced", "drained"}]
      /\ mark \in [Stoppers -> Nat] /\ offered \in Nat
  BY DEF TypeOK
<1>5. StopWaits'
  BY <1>1, <1>2, <1>3, <1>4 DEF StopWaits
<1>6. StopOutcome = "drained" => Len(Pending) = 0
  <2>1. ~flushing /\ queue = <<>> => Pending = <<>>
    BY ConcatEmptySeq DEF FlushHoldsBatch, Pending, TypeOK
  <2> QED  BY <1>3, <2>1, EmptySeq
<1>7. StopDrains'
  BY <1>1, <1>2, <1>4, <1>6 DEF StopDrains
<1> QED  BY <1>1, <1>3, <1>4, <1>5, <1>7

\* An awaited flush that ends has drained all from before the stop().
LEMMA StopsOnSink ==
    ASSUME IInv, SinkReturns
    PROVE  StopWaits' /\ StopDrains'
<1> USE DEF IInv
<1>1. /\ Pending' = queue /\ mark' = mark /\ offered' = offered
      /\ queue # <<>> => flushing'
      /\ stop' = [c \in Stoppers |->
                     IF stop[c] = "awaiting" /\ queue = <<>>
                     THEN "drained" ELSE stop[c]]
  BY SinkTakesBatch DEF SinkReturns
<1>2. StopWaits'
  BY <1>1 DEF StopWaits
<1>3. /\ Len(Pending) = Len(batch) + Len(queue)
      /\ Len(batch) \in Nat /\ Len(queue) \in Nat
      /\ \A i \in 1..Len(queue) : queue[i] = Pending[i + Len(batch)]
  BY ConcatProperties, LenProperties DEF Pending, TypeOK
<1>4. ASSUME NEW c \in Stoppers, stop'[c] = "drained", NEW i \in 1..Len(queue)
      PROVE  queue[i] > mark[c]
  <2>1. queue # <<>>
    BY <1>3, EmptySeq
  <2>2. stop[c] = "drained"
    BY <1>1, <1>4, <2>1
  <2>3. i + Len(batch) \in 1..Len(Pending)
    BY <1>3
  <2> QED  BY <1>3, <2>2, <2>3 DEF StopDrains
<1> QED  BY <1>1, <1>2, <1>4 DEF StopDrains

-----------------------------------------------------------------------------
\* A new buffer satisfies the invariant.
LEMMA InitIInv == Init => IInv
<1> SUFFICES ASSUME Init PROVE IInv
  OBVIOUS
<1>1. /\ queue = <<>> /\ batch = <<>> /\ stored = <<>> /\ lost = <<>>
      /\ dropped = 0 /\ offered = 0 /\ flushing = FALSE /\ timer = FALSE
      /\ stop = [c \in Stoppers |-> "idle"] /\ mark = [c \in Stoppers |-> 0]
  BY DEF Init
<1>2. <<>> \in Seq(Nat) /\ Len(<<>>) = 0
  BY EmptySeq
<1>3. Pending = <<>> /\ <<>> \o <<>> = <<>>
  BY <1>1, <1>2, ConcatEmptySeq DEF Pending
<1>4. TypeOK
  BY <1>1, <1>2 DEF TypeOK
<1>5. Bounded /\ NotStranded /\ FlushHoldsBatch
  BY <1>1, <1>2, BufferAssumption DEF Bounded, NotStranded, FlushHoldsBatch
<1>6. Conserved /\ InOrder
  BY <1>1, <1>2, <1>3 DEF Conserved, InOrder, Ascending, UpTo
<1>7. StopWaits /\ StopDrains
  BY <1>1 DEF StopWaits, StopDrains
<1> QED  BY <1>4, <1>5, <1>6, <1>7 DEF IInv

\* Every step keeps the invariant: one case for each action.
LEMMA NextIInv == IInv /\ [Next]_vars => IInv'
<1> SUFFICES ASSUME IInv, [Next]_vars PROVE IInv'
  OBVIOUS
<1>1. CASE EnqueueDrop
  <2>1. /\ Pending' = Pending /\ offered' = offered + 1
        /\ UNCHANGED <<flushing, stop, mark>>
    BY <1>1, DropChangesNothing DEF EnqueueDrop
  <2>2. offered \in Nat
    BY DEF IInv, TypeOK
  <2>3. offered' \in Nat /\ offered <= offered'
    BY <2>1, <2>2
  <2>4. StopWaits' /\ StopDrains'
    BY <2>1, <2>3, StopsSame
  <2> QED  BY <1>1, <2>4, DropChangesNothing, HistoryDrop DEF IInv
<1>2. CASE EnqueuePush
  <2>1. /\ Pending' = Append(Pending, offered + 1) /\ offered' = offered + 1
        /\ flushing => flushing'
        /\ UNCHANGED <<stop, mark>>
    BY <1>2, PushAppends DEF EnqueuePush
  <2>2. offered \in Nat
    BY DEF IInv, TypeOK
  <2>3. offered' \in Nat /\ offered <= offered'
    BY <2>1, <2>2
  <2>4. StopWaits' /\ StopDrains'
    BY <2>1, <2>3, StopsSame
  <2> QED  BY <1>2, <2>4, PushAppends, HistoryPush DEF IInv
<1>3. CASE TimerFires
  <2>1. Flush(queue) /\ UNCHANGED <<dropped, offered, stored, lost, stop, mark>>
    BY <1>3 DEF TimerFires
  <2>2. /\ queue' \in Seq(Nat) /\ batch' \in Seq(Nat)
        /\ timer' \in BOOLEAN /\ flushing' \in BOOLEAN
        /\ FlushHoldsBatch' /\ NotStranded' /\ Bounded'
        /\ Pending' = Pending
        /\ flushing => flushing'
    BY <2>1, FlushChangesNothing
  <2>3. TypeOK'
    BY <2>1, <2>2 DEF IInv, TypeOK
  <2>4. Conserved' /\ InOrder'
    BY <2>1, <2>2, HistorySame
  <2>5. offered' \in Nat /\ offered <= offered'
    BY <2>1 DEF IInv, TypeOK
  <2>6. StopWaits' /\ StopDrains'
    BY <2>1, <2>2, <2>5, StopsSame
  <2> QED  BY <2>2, <2>3, <2>4, <2>6 DEF IInv
<1>4. ASSUME NEW c \in Stoppers, Stop(c)
      PROVE  IInv'
  <2>1. Flush(queue) /\ UNCHANGED <<dropped, offered, stored, lost>>
    BY <1>4 DEF Stop
  <2>2. /\ queue' \in Seq(Nat) /\ batch' \in Seq(Nat)
        /\ timer' \in BOOLEAN /\ flushing' \in BOOLEAN
        /\ FlushHoldsBatch' /\ NotStranded' /\ Bounded'
        /\ Pending' = Pending
    BY <2>1, FlushChangesNothing
  <2>3. /\ StopWaits' /\ StopDrains'
        /\ stop' \in [Stoppers -> {"idle", "awaiting", "coalesced", "drained"}]
        /\ mark' \in [Stoppers -> Nat]
    BY <1>4, StopsOnStop
  <2>4. TypeOK'
    BY <2>1, <2>2, <2>3 DEF IInv, TypeOK
  <2>5. Conserved' /\ InOrder'
    BY <2>1, <2>2, HistorySame
  <2> QED  BY <2>2, <2>3, <2>4, <2>5 DEF IInv
<1>5. CASE SinkReturns
  BY <1>5, SinkTakesBatch, HistorySink, StopsOnSink DEF IInv
<1>6. CASE UNCHANGED vars
  BY <1>6, ZenonT(30) DEF IInv, vars, TypeOK, Bounded, NotStranded, FlushHoldsBatch,
     Conserved, InOrder, Ascending, UpTo, StopWaits, StopDrains, Pending
<1> QED  BY <1>1, <1>2, <1>3, <1>4, <1>5, <1>6 DEF Next

\* Every reachable state of the buffer satisfies its inductive invariant.
THEOREM InvariantHolds == SafeSpec => []IInv
BY InitIInv, NextIInv, PTL DEF SafeSpec

\* The buffer's state keeps its types.
THEOREM TypesHold == SafeSpec => []TypeOK
<1>1. IInv => TypeOK
  BY DEF IInv
<1> QED  BY <1>1, InvariantHolds, PTL

\* However many records come and however long the sink takes, at most MaxQueue
\* records and one batch are held.
THEOREM MemoryBounded == SafeSpec => []Bounded
<1>1. IInv => Bounded
  BY DEF IInv
<1> QED  BY <1>1, InvariantHolds, PTL

\* A queued record always has an armed timer or a running flush.
THEOREM NeverStranded == SafeSpec => []NotStranded
<1>1. IInv => NotStranded
  BY DEF IInv
<1> QED  BY <1>1, InvariantHolds, PTL

\* Every record offered is dropped, stored, lost or pending, and counted once.
THEOREM AllAccountedFor == SafeSpec => []Conserved
<1>1. IInv => Conserved
  BY DEF IInv
<1> QED  BY <1>1, InvariantHolds, PTL

\* Records reach storage in capture order and at most once.
THEOREM OrderedOnce == SafeSpec => []InOrder
<1>1. IInv => InOrder
  BY DEF IInv
<1> QED  BY <1>1, InvariantHolds, PTL

\* All three together: however long the sink takes and whatever it loses, the
\* buffer's memory is bounded and its records are counted, once and in order.
THEOREM BooksKept == SafeSpec => []Accounted
BY MemoryBounded, AllAccountedFor, OrderedOnce, PTL DEF Accounted

\* A stop() that runs its own final flush leaves nothing from before it.
THEOREM StopDrainsHolds == SafeSpec => []StopDrains
<1>1. IInv => StopDrains
  BY DEF IInv
<1> QED  BY <1>1, InvariantHolds, PTL

\* A record is dropped only while the sink holds up a flush.
THEOREM DropsNeedBackpressure == SafeSpec => DropsOnlyUnderBackpressure
<1>1. IInv /\ [Next]_vars => [dropped' # dropped /\ BatchSize <= MaxQueue => flushing]_vars
  <2> SUFFICES ASSUME IInv, Next, dropped' # dropped, BatchSize <= MaxQueue
               PROVE  flushing
    BY DEF vars
  <2>1. CASE EnqueueDrop
    <3>1. MaxQueue <= Len(queue)
      BY <2>1, DropChangesNothing
    <3>2. Len(queue) \in Nat
      BY LenProperties DEF IInv, TypeOK
    <3>3. Len(queue) >= BatchSize => flushing
      BY DEF IInv, Bounded
    <3> QED  BY <3>1, <3>2, <3>3, BufferAssumption
  <2>2. CASE EnqueuePush
    BY <2>2 DEF EnqueuePush
  <2>3. CASE TimerFires
    BY <2>3 DEF TimerFires
  <2>4. CASE \E c \in Stoppers : Stop(c)
    BY <2>4 DEF Stop
  <2>5. CASE SinkReturns
    BY <2>5 DEF SinkReturns
  <2> QED  BY <2>1, <2>2, <2>3, <2>4, <2>5 DEF Next
<1> QED  BY <1>1, InvariantHolds, PTL DEF SafeSpec, DropsOnlyUnderBackpressure

-----------------------------------------------------------------------------
(***************************************************************************)
(* The buffer implements the bounded waiting line.                         *)
(***************************************************************************)
LEMMA RefinesInit == Init => Promise!Init
<1> SUFFICES ASSUME Init PROVE Promise!Init
  OBVIOUS
<1>1. <<>> \o <<>> = <<>>
  BY ConcatEmptySeq, EmptySeq
<1> QED  BY <1>1 DEF Init, Promise!Init, Pending

\* An accepted record is accepted by the waiting line.
LEMMA RefinesPush ==
    ASSUME IInv, EnqueuePush
    PROVE  Promise!Accept
<1> USE DEF IInv
<1>1. /\ offered < MaxOffers /\ offered' = offered + 1
      /\ UNCHANGED <<stored, lost, dropped>>
      /\ ~(Len(queue) >= MaxQueue)
  BY DEF EnqueuePush, Full
<1>2. Pending' = Append(Pending, offered + 1)
  BY PushAppends
<1>3. Len(Pending) < MaxQueue + BatchSize
  <2>1. /\ Len(Pending) = Len(batch) + Len(queue)
        /\ Len(batch) \in Nat /\ Len(queue) \in Nat
    BY ConcatProperties, LenProperties DEF Pending, TypeOK
  <2> QED  BY <1>1, <2>1, BufferAssumption DEF Bounded
<1> QED  BY <1>1, <1>2, <1>3 DEF Promise!Accept

\* A dropped record is one the waiting line may refuse.
LEMMA RefinesDrop ==
    ASSUME IInv, EnqueueDrop
    PROVE  Promise!Refuse
<1> USE DEF IInv
<1>1. /\ offered < MaxOffers /\ offered' = offered + 1 /\ dropped' = dropped + 1
      /\ UNCHANGED <<stored, lost>>
      /\ Pending' = Pending /\ MaxQueue <= Len(queue)
  BY DropChangesNothing DEF EnqueueDrop
<1>2. Len(Pending) >= MaxQueue
  <2>1. /\ Len(Pending) = Len(batch) + Len(queue)
        /\ Len(batch) \in Nat /\ Len(queue) \in Nat
    BY ConcatProperties, LenProperties DEF Pending, TypeOK
  <2> QED  BY <1>1, <2>1, BufferAssumption
<1> QED  BY <1>1, <1>2 DEF Promise!Refuse

\* A settled batch leaves the waiting line from its front.
LEMMA RefinesSink ==
    ASSUME IInv, SinkReturns
    PROVE  Promise!Settle
<1> USE DEF IInv
<1> DEFINE n == Len(batch)
<1>1. /\ batch \in Seq(Nat) /\ queue \in Seq(Nat) /\ batch # <<>>
      /\ Len(queue) \in Nat /\ n \in Nat \ {0} /\ n <= BatchSize
      /\ Pending' = queue
      /\ UNCHANGED <<offered, dropped>>
  BY SinkTakesBatch, EmptySeq, LenProperties DEF TypeOK, Bounded, SinkReturns
<1>2. Pending \in Seq(Nat) /\ Len(Pending) = n + Len(queue)
  BY <1>1, ConcatProperties DEF Pending
<1>3. SubSeq(Pending, 1, n) = batch
  <2>1. 1 \in 1..Len(batch) /\ n \in 1..Len(batch)
    BY <1>1
  <2>2. SubSeq(batch \o queue, 1, n) = SubSeq(batch, 1, n)
    BY <1>1, <2>1, SubSeqOfConcat1
  <2> QED  BY <1>1, <2>2, SubSeqFull DEF Pending
<1>4. SubSeq(Pending, n + 1, Len(Pending)) = queue
  <2>1. CASE queue = <<>>
    <3>1. Len(queue) = 0
      BY <2>1, EmptySeq
    <3> QED  BY <1>1, <1>2, <2>1, <3>1, SubSeqEmpty
  <2>2. CASE queue # <<>>
    <3>1. Len(queue) > 0
      BY <1>1, <2>2, EmptySeq
    <3>2. /\ n + 1 \in n + 1 .. n + Len(queue)
          /\ n + Len(queue) \in n + 1 .. n + Len(queue)
          /\ n + 1 - n = 1 /\ n + Len(queue) - n = Len(queue)
      BY <1>1, <3>1
    <3>3. SubSeq(batch \o queue, n + 1, n + Len(queue)) = SubSeq(queue, 1, Len(queue))
      BY <1>1, <3>2, SubSeqOfConcat2
    <3> QED  BY <1>1, <1>2, <3>3, SubSeqFull DEF Pending
  <2> QED  BY <2>1, <2>2
<1>5. \/ stored' = stored \o batch /\ lost' = lost
      \/ lost' = lost \o batch /\ stored' = stored
  BY DEF SinkReturns
<1>6. Promise!Leave(n)
  BY <1>1, <1>3, <1>4, <1>5 DEF Promise!Leave
<1>7. n \in 1..BatchSize /\ n <= Len(Pending)
  BY <1>1, <1>2, BufferAssumption
<1> QED  BY <1>6, <1>7 DEF Promise!Settle

\* Every step of the buffer is a step or a stutter of the waiting line.
LEMMA RefinesNext == IInv /\ [Next]_vars => [Promise!Next]_Promise!vars
<1> SUFFICES ASSUME IInv, [Next]_vars PROVE [Promise!Next]_Promise!vars
  OBVIOUS
<1>1. CASE EnqueueDrop
  BY <1>1, RefinesDrop DEF Promise!Next
<1>2. CASE EnqueuePush
  BY <1>2, RefinesPush DEF Promise!Next
<1>3. CASE TimerFires \/ \E c \in Stoppers : Stop(c)
  <2>1. Flush(queue) /\ UNCHANGED <<dropped, offered, stored, lost>>
    BY <1>3 DEF TimerFires, Stop
  <2>2. Pending' = Pending
    BY <2>1, FlushChangesNothing
  <2> QED  BY <2>1, <2>2 DEF Promise!vars
<1>4. CASE SinkReturns
  BY <1>4, RefinesSink DEF Promise!Next
<1>5. CASE UNCHANGED vars
  BY <1>5 DEF vars, Promise!vars, Pending
<1> QED  BY <1>1, <1>2, <1>3, <1>4, <1>5 DEF Next

\* The safety part of ImplementsPromise, for every value of the constants:
\* the buffer only ever does what a bounded, ordered, exactly-once waiting
\* line may do.
THEOREM RefinesPromise == SafeSpec => Promise!SafeSpec
BY RefinesInit, RefinesNext, InvariantHolds, PTL DEF SafeSpec, Promise!SafeSpec
=============================================================================
