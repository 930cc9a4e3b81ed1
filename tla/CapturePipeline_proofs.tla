----------------------- MODULE CapturePipeline_proofs -----------------------
(***************************************************************************)
(* Proofs about CapturePipeline, for any requests, versions, page size,    *)
(* buffer and number of crashes: a response is recorded once at most, and  *)
(* a backfill that completes has done its work on the rows that were there *)
(* when its ruleset went live.                                             *)
(***************************************************************************)
EXTENDS CapturePipeline, SequenceTheorems, TLAPS

USE PipelineAssumption

(***************************************************************************)
(* Where the row of a request is.                                          *)
(***************************************************************************)
Waits(r) == \E i \in 1..Len(salted) : salted[i] = r
Held(r) == \E i \in 1..Len(buffered) : buffered[i].request = r
Stored(r) == \E i \in 1..Len(table) : table[i].request = r

\* Rows of different requests.
Once(rows) ==
    \A i, j \in 1..Len(rows) : rows[i].request = rows[j].request => i = j

\* A request is in one place at most, and recorded if it is in any.
Apart ==
    /\ \A i, j \in 1..Len(salted) : salted[i] = salted[j] => i = j
    /\ Once(buffered)
    /\ Once(table)
    /\ \A r \in Requests :
        /\ ~(Waits(r) /\ Held(r))
        /\ ~(Waits(r) /\ Stored(r))
        /\ ~(Held(r) /\ Stored(r))
        /\ Waits(r) \/ Held(r) \/ Stored(r) => recorded[r]
        /\ recorded[r] => request[r] \in {"finished", "closed"}

(***************************************************************************)
(* What a backfill has still to do: the rows of its backlog that it has    *)
(* not reached are on its page, once the page is the last one.             *)
(***************************************************************************)
OnPage(v, r) == \E k \in 1..Len(run[v].updates) : run[v].updates[k] = r

LastPage(v) == run[v].phase = "update" /\ ~run[v].full

\* What is known of the row at i of v's backlog.
Reached(v, i) ==
    table[i].request \in backlog[v] =>
        /\ run[v].phase = "done" =>
            /\ table[i].stamp # 0
            /\ ~overlap => table[i].stamp >= v
        /\ LastPage(v) =>
            /\ table[i].stamp # 0 \/ OnPage(v, table[i].request)
            /\ ~overlap => \/ table[i].stamp >= v
                           \/ OnPage(v, table[i].request)

\* Where none overlap, the backfill that runs is that of the live ruleset.
Sweeps(v) ==
    /\ run[v].phase # "idle" => v <= ruleset
    /\ ~overlap /\ Running(v) => v = ruleset
    /\ \A r \in backlog[v] : Stored(r)
    /\ \A i \in 1..Len(table) : Reached(v, i)

Backlogs == \A v \in Versions : Sweeps(v)

IInv == TypeOK /\ Apart /\ Backlogs

-----------------------------------------------------------------------------
\* The types of the parts, as the provers like them.
LEMMA Types ==
    ASSUME TypeOK
    PROVE  /\ Len(salted) \in Nat /\ Len(buffered) \in Nat /\ Len(table) \in Nat
           /\ \A i \in 1..Len(salted) : salted[i] \in Requests
           /\ \A i \in 1..Len(buffered) : /\ buffered[i] \in Rows
                                          /\ buffered[i].request \in Requests
                                          /\ buffered[i].stamp \in Stamps
           /\ \A i \in 1..Len(table) : /\ table[i] \in Rows
                                       /\ table[i].request \in Requests
                                       /\ table[i].stamp \in Stamps
<1>1. salted \in Seq(Requests) /\ buffered \in Seq(Rows) /\ table \in Seq(Rows)
  BY DEF TypeOK
<1>2. \A row \in Rows : row.request \in Requests /\ row.stamp \in Stamps
  BY DEF Rows
<1>3. /\ \A i \in 1..Len(salted) : salted[i] \in Requests
      /\ \A i \in 1..Len(buffered) : buffered[i] \in Rows
      /\ \A i \in 1..Len(table) : table[i] \in Rows
  BY <1>1, ElementOfSeq
<1> QED  BY <1>1, <1>2, <1>3, LenProperties

\* An enqueued row is new in the buffer and the only new one.
LEMMA Enqueues ==
    ASSUME TypeOK, NEW r \in Requests, Enqueue(r)
    PROVE  /\ buffered' \in Seq(Rows)
           /\ \A q \in Requests : Held(q)' => Held(q) \/ q = r
           /\ Once(buffered) /\ ~Held(r) => Once(buffered')
<1>1. buffered \in Seq(Rows) /\ Len(buffered) \in Nat
  BY Types DEF TypeOK
<1>2. CASE UNCHANGED buffered
  BY <1>1, <1>2 DEF Held
<1>3. CASE buffered' = Append(buffered, Row(r, ruleset))
  <2>1. Row(r, ruleset) \in Rows /\ Row(r, ruleset).request = r
    BY DEF Row, Rows, TypeOK
  <2>2. /\ buffered' \in Seq(Rows)
        /\ Len(buffered') = Len(buffered) + 1
        /\ \A i \in 1..Len(buffered) : buffered'[i] = buffered[i]
        /\ buffered'[Len(buffered) + 1] = Row(r, ruleset)
    BY <1>1, <1>3, <2>1, AppendProperties
  <2>3. \A i \in 1..Len(buffered') :
            i \in 1..Len(buffered) \/ i = Len(buffered) + 1
    BY <1>1, <2>2
  <2>4. \A q \in Requests : Held(q)' => Held(q) \/ q = r
    BY <2>1, <2>2, <2>3 DEF Held
  <2>5. ASSUME Once(buffered), ~Held(r) PROVE Once(buffered')
    <3> SUFFICES ASSUME NEW i \in 1..Len(buffered'), NEW j \in 1..Len(buffered'),
                        buffered'[i].request = buffered'[j].request
                 PROVE  i = j
      BY DEF Once
    <3> QED  BY <2>1, <2>2, <2>3, <2>5 DEF Once, Held
  <2> QED  BY <2>2, <2>4, <2>5
<1> QED  BY <1>2, <1>3 DEF Enqueue

\* record() takes a response that nothing was recorded of.
LEMMA Records ==
    ASSUME TypeOK, Apart, NEW r \in Requests, Record(r),
           request' = [request EXCEPT ![r] = request'[r]],
           request'[r] \in {"finished", "closed"},
           UNCHANGED table
    PROVE  /\ Apart'
           /\ recorded' \in [Requests -> BOOLEAN]
           /\ salted' \in Seq(Requests) /\ buffered' \in Seq(Rows)
<1> USE DEF TypeOK
<1>1. \A q \in Requests : Stored(q)' <=> Stored(q)
  BY DEF Stored
<1>2. CASE recorded[r]
  <2>1. UNCHANGED <<recorded, salted, buffered>>
    BY <1>2 DEF Record
  <2> QED  BY <1>1, <2>1 DEF Apart, Once, Waits, Held
<1>3. CASE ~recorded[r]
  <2>1. /\ recorded' = [recorded EXCEPT ![r] = TRUE]
        /\ \/ Enqueue(r) /\ UNCHANGED salted
           \/ salted' = Append(salted, r) /\ UNCHANGED buffered
    BY <1>3 DEF Record
  <2>2. ~Waits(r) /\ ~Held(r) /\ ~Stored(r)
    BY <1>3 DEF Apart
  <2>3. CASE Enqueue(r) /\ UNCHANGED salted
    <3>1. /\ buffered' \in Seq(Rows)
          /\ \A q \in Requests : Held(q)' => Held(q) \/ q = r
          /\ Once(buffered')
      BY <2>2, <2>3, Enqueues DEF Apart
    <3>2. \A q \in Requests : Waits(q)' <=> Waits(q)
      BY <2>3 DEF Waits
    <3>3. /\ \A i, j \in 1..Len(salted') : salted'[i] = salted'[j] => i = j
          /\ Once(table')
      BY <2>3 DEF Apart, Once
    <3> QED  BY <1>1, <2>1, <2>2, <2>3, <3>1, <3>2, <3>3 DEF Apart
  <2>4. CASE salted' = Append(salted, r) /\ UNCHANGED buffered
    <3>1. /\ salted' \in Seq(Requests)
          /\ Len(salted') = Len(salted) + 1
          /\ \A i \in 1..Len(salted) : salted'[i] = salted[i]
          /\ salted'[Len(salted) + 1] = r
      BY <2>4, AppendProperties
    <3>2. \A i \in 1..Len(salted') : i \in 1..Len(salted) \/ i = Len(salted) + 1
      BY <3>1, Types
    <3>3. \A q \in Requests : Waits(q)' => Waits(q) \/ q = r
      BY <3>1, <3>2 DEF Waits
    <3>4. \A i, j \in 1..Len(salted') : salted'[i] = salted'[j] => i = j
      BY <2>2, <3>1, <3>2, SMTT(30) DEF Apart, Waits
    <3>5. \A q \in Requests : Held(q)' <=> Held(q)
      BY <2>4 DEF Held
    <3>6. Once(buffered') /\ Once(table')
      BY <2>4 DEF Apart, Once
    <3> QED  BY <1>1, <2>1, <2>2, <2>4, <3>1, <3>3, <3>4, <3>5, <3>6 DEF Apart
  <2> QED  BY <2>1, <2>3, <2>4
<1> QED  BY <1>2, <1>3

\* What does not touch the table or a backfill leaves the backlogs alone.
LEMMA BacklogsSame ==
    ASSUME Backlogs, UNCHANGED <<ruleset, table, run, backlog, overlap>>
    PROVE  Backlogs'
BY DEF Backlogs, Sweeps, Reached, Stored, OnPage, LastPage, Running

\* The rest of record() after the salt: the request waits no longer.
LEMMA SaltedKeeps ==
    ASSUME IInv, Salted PROVE IInv'
<1> USE DEF IInv
<1> DEFINE r == Head(salted)
<1>1. /\ r \in Requests /\ r = salted[1] /\ 1 \in 1..Len(salted)
      /\ salted' = Tail(salted) /\ salted' \in Seq(Requests)
      /\ Len(salted') = Len(salted) - 1
      /\ \A i \in 1..Len(salted') : salted'[i] = salted[i + 1]
  <2>1. salted \in Seq(Requests) /\ salted # <<>> /\ salted' = Tail(salted)
    BY DEF Salted, TypeOK
  <2>2. Len(salted) \in Nat \ {0}
    BY <2>1, EmptySeq
  <2> QED  BY <2>1, <2>2, HeadTailProperties
<1>2. \A i \in 1..Len(salted') : i + 1 \in 1..Len(salted) /\ i + 1 # 1
  BY <1>1, Types
<1>3. Waits(r) /\ ~Held(r) /\ ~Stored(r) /\ recorded[r]
  BY <1>1 DEF Waits, Apart
<1>4. /\ buffered' \in Seq(Rows)
      /\ \A q \in Requests : Held(q)' => Held(q) \/ q = r
      /\ Once(buffered')
  BY <1>1, <1>3, Enqueues DEF Salted, Apart
<1>5. \A q \in Requests : Waits(q)' => Waits(q) /\ q # r
  BY <1>1, <1>2 DEF Waits, Apart
<1>6. \A i, j \in 1..Len(salted') : salted'[i] = salted'[j] => i = j
  <2> SUFFICES ASSUME NEW i \in 1..Len(salted'), NEW j \in 1..Len(salted'),
                      salted'[i] = salted'[j]
               PROVE  i = j
    OBVIOUS
  <2>1. i + 1 = j + 1
    BY <1>1, <1>2 DEF Apart
  <2> QED  BY <1>1, <2>1
<1>7. UNCHANGED <<gate, request, recorded, resolved, ruleset, table, run,
                  backlog, overlap, inFlight, crashes>>
  BY DEF Salted, history
<1>8. \A q \in Requests : Stored(q)' <=> Stored(q)
  BY <1>7 DEF Stored
<1>9. Apart'
  BY <1>3, <1>4, <1>5, <1>6, <1>7, <1>8 DEF Apart, Once
<1>10. TypeOK'
  BY <1>1, <1>4, <1>7 DEF TypeOK
<1> QED  BY <1>7, <1>9, <1>10, BacklogsSame

\* The rows of a batch leave the buffer and enter the table, or are lost.
LEMMA FlushKeeps ==
    ASSUME IInv, Flush PROVE IInv'
<1> USE DEF IInv
<1>1. PICK n \in 1..Len(buffered) :
        /\ buffered' = SubSeq(buffered, n + 1, Len(buffered))
        /\ \/ table' = table \o SubSeq(buffered, 1, n)
           \/ UNCHANGED table
  BY DEF Flush
<1>2. UNCHANGED <<gate, request, recorded, resolved, salted, ruleset, run,
                  backlog, overlap, inFlight, crashes>>
  BY DEF Flush, history
<1>3. /\ buffered \in Seq(Rows) /\ table \in Seq(Rows)
      /\ Len(buffered) \in Nat /\ Len(table) \in Nat /\ n \in Nat
  BY Types DEF TypeOK
<1> DEFINE batch == SubSeq(buffered, 1, n)
<1>4. /\ batch \in Seq(Rows) /\ Len(batch) = n
      /\ \A i \in 1..n : batch[i] = buffered[i]
  <2>1. \A i \in 1..n : buffered[i] \in Rows
    BY <1>3, Types
  <2>2. /\ batch \in Seq(Rows)
        /\ Len(batch) = IF 1 <= n THEN n - 1 + 1 ELSE 0
        /\ \A i \in 1..n - 1 + 1 : batch[i] = buffered[1 + i - 1]
    BY <1>3, <2>1, SubSeqProperties
  <2> QED  BY <1>3, <2>2
<1>5. /\ buffered' \in Seq(Rows) /\ Len(buffered') = Len(buffered) - n
      /\ \A i \in 1..Len(buffered) - n : buffered'[i] = buffered[n + i]
  <2>1. /\ n + 1 \in Int /\ Len(buffered) \in Int
        /\ \A i \in n + 1..Len(buffered) : buffered[i] \in Rows
    BY <1>3, Types
  <2>2. /\ buffered' \in Seq(Rows)
        /\ Len(buffered') = IF n + 1 <= Len(buffered)
                            THEN Len(buffered) - (n + 1) + 1 ELSE 0
        /\ \A i \in 1..Len(buffered) - (n + 1) + 1 :
                buffered'[i] = buffered[n + 1 + i - 1]
    BY <1>1, <2>1, SubSeqProperties
  <2> QED  BY <1>3, <2>2
<1>6. \A i \in 1..Len(buffered') :
          n + i \in 1..Len(buffered) /\ n + i \notin 1..n
  BY <1>3, <1>5
<1>7. \A q \in Requests :
          Held(q)' => Held(q) /\ \A i \in 1..n : buffered[i].request # q
  <2> SUFFICES ASSUME NEW q \in Requests, NEW k \in 1..Len(buffered'),
                      buffered'[k].request = q
               PROVE  Held(q) /\ \A i \in 1..n : buffered[i].request # q
    BY DEF Held
  <2>1. n + k \in 1..Len(buffered) /\ n + k \notin 1..n
        /\ buffered[n + k].request = q
    BY <1>5, <1>6
  <2>2. \A i \in 1..n : i \in 1..Len(buffered)
    BY <1>3
  <2> QED  BY <2>1, <2>2 DEF Held, Apart, Once
<1>8. Once(buffered')
  <2> SUFFICES ASSUME NEW i \in 1..Len(buffered'), NEW j \in 1..Len(buffered'),
                      buffered'[i].request = buffered'[j].request
               PROVE  i = j
    BY DEF Once
  <2>1. /\ n + i \in 1..Len(buffered) /\ n + j \in 1..Len(buffered)
        /\ buffered[n + i].request = buffered[n + j].request
    BY <1>5, <1>6
  <2>2. n + i = n + j
    BY <2>1 DEF Apart, Once
  <2> QED  BY <1>3, <1>5, <2>2
<1>9. /\ table' \in Seq(Rows) /\ Once(table')
      /\ \A q \in Requests : Stored(q)' =>
             Stored(q) \/ \E i \in 1..n : buffered[i].request = q
      /\ \A q \in Requests : Stored(q) => Stored(q)'
      /\ \A i \in 1..Len(table') :
             \/ i \in 1..Len(table) /\ table'[i] = table[i]
             \/ \E k \in 1..Len(buffered) : table'[i] = buffered[k]
  <2>1. CASE UNCHANGED table
    BY <1>3, <2>1 DEF Stored, Apart, Once
  <2>2. CASE table' = table \o batch
    <3>1. /\ table' \in Seq(Rows)
          /\ Len(table') = Len(table) + n
          /\ \A i \in 1..Len(table) + n :
                table'[i] = IF i <= Len(table) THEN table[i]
                            ELSE batch[i - Len(table)]
      BY <1>3, <1>4, <2>2, ConcatProperties
    <3>2. \A i \in 1..Len(table') :
            \/ i \in 1..Len(table) /\ table'[i] = table[i]
            \/ /\ i - Len(table) \in 1..n /\ i - Len(table) \in 1..Len(buffered)
               /\ table'[i] = buffered[i - Len(table)]
      BY <1>3, <1>4, <3>1
    <3>3. \A i \in 1..Len(table) : i \in 1..Len(table') /\ table'[i] = table[i]
      BY <1>3, <3>1
    <3>4. Once(table')
      <4> SUFFICES ASSUME NEW i \in 1..Len(table'), NEW j \in 1..Len(table'),
                          table'[i].request = table'[j].request
                   PROVE  i = j
        BY DEF Once
      <4>1. \A k \in 1..Len(table), l \in 1..Len(buffered) :
                table[k].request # buffered[l].request
        BY Types DEF Apart, Held, Stored
      <4>2. CASE table'[i] = table[i] /\ i \in 1..Len(table)
        <5>1. j \in 1..Len(table) /\ table'[j] = table[j]
          BY <3>2, <4>1, <4>2
        <5> QED  BY <4>2, <5>1 DEF Apart, Once
      <4>3. CASE /\ i - Len(table) \in 1..Len(buffered)
                 /\ table'[i] = buffered[i - Len(table)]
        <5>1. /\ j - Len(table) \in 1..Len(buffered)
              /\ table'[j] = buffered[j - Len(table)]
          BY <3>2, <4>1, <4>3
        <5>2. buffered[i - Len(table)].request = buffered[j - Len(table)].request
          BY <4>3, <5>1
        <5>3. i - Len(table) = j - Len(table)
          BY <4>3, <5>1, <5>2 DEF Apart, Once
        <5> QED  BY <1>3, <3>1, <5>3
      <4> QED  BY <3>2, <4>2, <4>3
    <3> QED  BY <3>1, <3>2, <3>3, <3>4 DEF Stored
  <2> QED  BY <1>1, <2>1, <2>2
<1>10. \A q \in Requests : (\E i \in 1..n : buffered[i].request = q) => Held(q)
  BY <1>3 DEF Held
<1>11. Apart'
  <2>1. \A q \in Requests : Waits(q)' <=> Waits(q)
    BY <1>2 DEF Waits
  <2> QED  BY <1>2, <1>7, <1>8, <1>9, <1>10, <2>1 DEF Apart
<1>12. TypeOK'
  BY <1>2, <1>5, <1>9 DEF TypeOK
<1>13. Backlogs'
  <2> SUFFICES ASSUME NEW v \in Versions PROVE Sweeps(v)'
    BY DEF Backlogs
  <2>1. \A r \in backlog'[v] : Stored(r)'
    BY <1>2, <1>9 DEF Backlogs, Sweeps, TypeOK
  <2>2. ASSUME NEW i \in 1..Len(table') PROVE Reached(v, i)'
    <3>1. CASE i \in 1..Len(table) /\ table'[i] = table[i]
      BY <1>2, <3>1 DEF Backlogs, Sweeps, Reached, OnPage, LastPage
    <3>2. CASE \E k \in 1..Len(buffered) : table'[i] = buffered[k]
      <4>1. table'[i].request \in Requests /\ Held(table'[i].request)
        BY <3>2, Types DEF Held
      <4>2. table'[i].request \notin backlog[v]
        BY <4>1 DEF Backlogs, Sweeps, Apart
      <4> QED  BY <1>2, <4>2 DEF Reached
    <3> QED  BY <1>9, <3>1, <3>2
  <2> QED  BY <1>2, <2>1, <2>2 DEF Backlogs, Sweeps, Running
<1> QED  BY <1>11, <1>12, <1>13

\* What does not touch the line of rows leaves their places alone.
LEMMA ApartSame ==
    ASSUME Apart,
           UNCHANGED <<request, recorded, salted, buffered, table>>
    PROVE  Apart'
BY DEF Apart, Once, Waits, Held, Stored

RunType ==
    [phase : {"idle", "query", "update", "done", "failed"},
     updates : Seq(Requests),
     full : BOOLEAN]

\* A backfill that has no page.
LEMMA EndedType ==
    /\ \A how \in {"idle", "query", "done", "failed"} :
        /\ Ended(how) \in RunType /\ Ended(how).phase = how
        /\ Ended(how).updates = <<>>
    /\ LET full == [Ended("query") EXCEPT !.full = TRUE]
       IN  full \in RunType /\ full.phase = "query" /\ full.updates = <<>>
<1>1. <<>> \in Seq(Requests)
  BY EmptySeq
<1> QED  BY <1>1 DEF Ended, RunType

\* One backfill that changes to a record of its type leaves the type.
LEMMA RunKept ==
    ASSUME TypeOK, NEW v \in Versions, NEW r \in RunType,
           r.phase = "update" <=> r.updates # <<>>,
           run' = [run EXCEPT ![v] = r],
           UNCHANGED <<gate, request, recorded, resolved, salted, ruleset,
                       buffered, history, crashes>>,
           table' \in Seq(Rows)
    PROVE  TypeOK'
<1>1. /\ run' \in [Versions -> RunType] /\ run'[v] = r
      /\ \A w \in Versions \ {v} : run'[w] = run[w]
  BY DEF TypeOK, RunType
<1>2. \A w \in Versions : run'[w].phase = "update" <=> run'[w].updates # <<>>
  BY <1>1 DEF TypeOK
<1> QED  BY <1>1, <1>2 DEF TypeOK, RunType, history

\* A ruleset goes live: what is stored is its backlog.
LEMMA ActivateKeeps ==
    ASSUME IInv, NEW v \in Versions, Activate(v) PROVE IInv'
<1> USE DEF IInv
<1> DEFINE new == [Ended("query") EXCEPT !.full = TRUE]
<1>1. /\ ruleset < v /\ ruleset' = v
      /\ run' = [run EXCEPT ![v] = new]
      /\ backlog' = [backlog EXCEPT ![v] = ToSet(Requested(table))]
      /\ overlap' = (overlap \/ \E w \in Versions : Running(w))
      /\ inFlight' = inFlight \cup ToSet(Requested(buffered))
      /\ UNCHANGED <<gate, request, recorded, resolved, salted, buffered, table,
                     crashes>>
  BY DEF Activate
<1>2. new \in RunType /\ new.phase = "query" /\ new.updates = <<>>
  BY EndedType
<1> HIDE DEF new
<1>3. /\ run' \in [Versions -> RunType] /\ run'[v] = new
      /\ \A w \in Versions \ {v} : run'[w] = run[w]
  BY <1>1, <1>2 DEF TypeOK, RunType
<1>4. /\ \A r \in ToSet(Requested(table)) : r \in Requests /\ Stored(r)
      /\ ToSet(Requested(buffered)) \subseteq Requests
  BY Types DEF ToSet, Requested, Stored
<1>5. /\ backlog' \in [Versions -> SUBSET Requests]
      /\ backlog'[v] = ToSet(Requested(table))
      /\ \A w \in Versions \ {v} : backlog'[w] = backlog[w]
  BY <1>1, <1>4 DEF TypeOK
<1>6. TypeOK'
  <2>1. \A w \in Versions : run'[w].phase = "update" <=> run'[w].updates # <<>>
    BY <1>2, <1>3 DEF TypeOK
  <2>2. ruleset' \in Stamps /\ overlap' \in BOOLEAN /\ inFlight' \subseteq Requests
    BY <1>1, <1>4 DEF TypeOK, Stamps, Versions
  <2> QED  BY <1>1, <1>3, <1>5, <2>1, <2>2 DEF TypeOK, RunType
<1>7. \A r \in Requests : Stored(r)' <=> Stored(r)
  BY <1>1 DEF Stored
<1>8. Sweeps(v)'
  BY <1>1, <1>2, <1>3, <1>4, <1>5, <1>7
     DEF Sweeps, Reached, LastPage, TypeOK, Versions, Stamps
<1>9. ASSUME NEW w \in Versions \ {v} PROVE Sweeps(w)'
  <2>1. Sweeps(w) /\ w \in Int /\ ruleset \in Int /\ v \in Int
    BY DEF Backlogs, TypeOK, Versions, Stamps
  <2>2. run'[w].phase # "idle" => w <= ruleset'
    BY <1>1, <1>3, <2>1 DEF Sweeps
  <2>3. ~overlap' => ~overlap /\ ~Running(w)'
    BY <1>1, <1>3 DEF Running
  <2>4. \A r \in backlog'[w] : Stored(r)'
    BY <1>1, <1>5, <1>7, <2>1 DEF Sweeps, Stored
  <2>5. \A i \in 1..Len(table') : Reached(w, i)'
    BY <1>1, <1>3, <1>5, <2>1, <2>3 DEF Sweeps, Reached, LastPage, OnPage
  <2> QED  BY <2>2, <2>3, <2>4, <2>5 DEF Sweeps
<1>10. Apart'
  BY <1>1, ApartSame
<1> QED  BY <1>6, <1>8, <1>9, <1>10 DEF Backlogs

\* A page is read: an empty one says that all is stamped, and a short one that
\* it holds all that is left.
LEMMA ReadPageKeeps ==
    ASSUME IInv, NEW v \in Versions, ReadPage(v) PROVE IInv'
<1> USE DEF IInv
<1>1. UNCHANGED <<gate, request, recorded, resolved, salted, ruleset, buffered,
                  table, history, crashes>>
  BY DEF ReadPage
<1>0. PICK n \in 0..PageSize : \E page \in [1..n -> Stale(v)] :
        /\ IsPage(v, page, n)
        /\ run' = [run EXCEPT ![v] =
                     IF n = 0
                     THEN Ended("done")
                     ELSE [phase |-> "update",
                           updates |-> [i \in 1..n |-> table[page[i]].request],
                           full |-> n = PageSize]]
  BY DEF ReadPage
<1>2. PICK page \in [1..n -> Stale(v)] :
        /\ IsPage(v, page, n)
        /\ run' = [run EXCEPT ![v] =
                     IF n = 0
                     THEN Ended("done")
                     ELSE [phase |-> "update",
                           updates |-> [i \in 1..n |-> table[page[i]].request],
                           full |-> n = PageSize]]
  BY <1>0
<1>3. n \in Nat /\ v \in 1..MaxVersion /\ v \in Nat
  BY <1>2 DEF Versions
<1>4. table \in Seq(Rows) /\ DOMAIN table = 1..Len(table)
  BY LenProperties DEF TypeOK
<1> DEFINE next == IF n = 0
                   THEN Ended("done")
                   ELSE [phase |-> "update",
                         updates |-> [i \in 1..n |-> table[page[i]].request],
                         full |-> n = PageSize]
<1>5. /\ next \in RunType
      /\ next.phase = "update" <=> next.updates # <<>>
      /\ n = 0 => next.phase = "done"
      /\ n # 0 => /\ next.phase = "update" /\ next.full = (n = PageSize)
                  /\ Len(next.updates) = n
                  /\ \A i \in 1..n : next.updates[i] = table[page[i]].request
  <2>1. CASE n = 0
    BY <2>1, EndedType
  <2>2. CASE n # 0
    <3> DEFINE updates == [i \in 1..n |-> table[page[i]].request]
    <3>1. \A i \in 1..n : table[page[i]].request \in Requests
      BY <1>2, <1>4, Types DEF Stale
    <3>2. updates \in [1..n -> Requests]
      BY <3>1
    <3>3. updates \in Seq(Requests) /\ Len(updates) = n
      BY <1>3, <3>2
    <3>4. updates # <<>>
      BY <2>2, <3>3, EmptySeq
    <3> QED  BY <2>2, <3>3, <3>4 DEF RunType
  <2> QED  BY <2>1, <2>2
<1>6. /\ run' = [run EXCEPT ![v] = next] /\ run'[v] = next
      /\ \A w \in Versions \ {v} : run'[w] = run[w]
  BY <1>2 DEF TypeOK
<1> HIDE DEF next
<1>7. TypeOK'
  BY <1>1, <1>4, <1>5, <1>6, RunKept
<1>8. \A i \in 1..Len(table) : table[i].stamp # v =>
        (\E k \in 1..n : page[k] = i) \/ n = PageSize
  BY <1>2, <1>4 DEF IsPage, Stale
<1>9. run[v].phase = "query"
  BY DEF ReadPage
<1>10. \A i \in 1..Len(table) : Reached(v, i)'
  <2> SUFFICES ASSUME NEW i \in 1..Len(table) PROVE Reached(v, i)'
    OBVIOUS
  <2>1. table[i].stamp \in Nat
    BY Types DEF Stamps
  <2>2. CASE n = 0
    <3>1. table[i].stamp = v
      BY <1>3, <1>8, <2>2
    <3> QED  BY <1>1, <1>3, <1>5, <1>6, <2>2, <3>1 DEF Reached, LastPage
  <2>3. CASE n # 0
    <3>1. ASSUME LastPage(v)', table[i].stamp # v
          PROVE  OnPage(v, table[i].request)'
      <4>1. PICK k \in 1..n : page[k] = i
        BY <1>5, <1>6, <1>8, <2>3, <3>1 DEF LastPage
      <4>2. /\ run'[v].updates[k] = table[i].request
            /\ k \in 1..Len(run'[v].updates)
        BY <1>5, <1>6, <2>3, <4>1
      <4> QED  BY <1>1, <4>2 DEF OnPage
    <3>2. run'[v].phase # "done"
      BY <1>5, <1>6, <2>3
    <3> QED  BY <1>1, <1>3, <3>1, <3>2 DEF Reached
  <2> QED  BY <2>2, <2>3
<1>11. Sweeps(v)'
  <2>1. Running(v) /\ run[v].phase # "idle"
    BY <1>9 DEF Running
  <2> QED  BY <1>1, <1>10, <2>1 DEF Backlogs, Sweeps, Stored, history
<1>12. ASSUME NEW w \in Versions \ {v} PROVE Sweeps(w)'
  BY <1>1, <1>6
     DEF Backlogs, Sweeps, Stored, Running, Reached, LastPage, OnPage, history
<1>13. Apart'
  BY <1>1, ApartSame
<1> QED  BY <1>7, <1>11, <1>12, <1>13 DEF Backlogs

\* What comes after an update: a page with rows left goes on, a full one is
\* followed by the next, and the last one ends the backfill.
LEMMA NextPhases ==
    ASSUME TypeOK, NEW v \in Versions, run[v].phase = "update"
    PROVE  LET next == NextPhase(v)
               updates == run[v].updates
           IN  /\ next \in RunType
               /\ next.phase = "update" <=> next.updates # <<>>
               /\ updates \in Seq(Requests) /\ Len(updates) \in Nat \ {0}
               /\ Head(updates) = updates[1]
               /\ \/ /\ Len(updates) > 1
                     /\ next.phase = "update" /\ next.full = run[v].full
                     /\ Len(next.updates) = Len(updates) - 1
                     /\ \A k \in 1..Len(updates) - 1 :
                            next.updates[k] = updates[k + 1]
                  \/ Len(updates) = 1 /\ run[v].full /\ next.phase = "query"
                  \/ Len(updates) = 1 /\ ~run[v].full /\ next.phase = "done"
<1>0. PICK updates : updates = run[v].updates
  OBVIOUS
<1>1. run[v] \in RunType /\ updates # <<>>
  BY <1>0 DEF TypeOK, RunType
<1>2. updates \in Seq(Requests)
  BY <1>0, <1>1 DEF RunType
<1>3. Len(updates) \in Nat \ {0}
  BY <1>1, <1>2, EmptySeq
<1>4. /\ Tail(updates) \in Seq(Requests) /\ Len(Tail(updates)) = Len(updates) - 1
      /\ \A k \in 1..Len(Tail(updates)) : Tail(updates)[k] = updates[k + 1]
      /\ Head(updates) = updates[1]
  BY <1>1, <1>2, HeadTailProperties
<1>5. CASE Len(updates) > 1
  <2>1. NextPhase(v) = [run[v] EXCEPT !.updates = Tail(@)]
    BY <1>0, <1>1, <1>5 DEF NextPhase, RunType
  <2>2. /\ NextPhase(v) \in RunType
        /\ NextPhase(v).phase = "update" /\ NextPhase(v).full = run[v].full
        /\ NextPhase(v).updates = Tail(updates)
    BY <1>0, <1>1, <1>4, <2>1 DEF RunType
  <2>3. Tail(updates) # <<>>
    <3>1. Len(Tail(updates)) # 0
      BY <1>3, <1>4, <1>5, SMTT(30)
    <3>2. Len(<<>>) = 0
      BY EmptySeq
    <3> QED  BY <3>1, <3>2, Zenon
  <2>4. /\ Len(NextPhase(v).updates) = Len(updates) - 1
        /\ \A k \in 1..Len(updates) - 1 :
               NextPhase(v).updates[k] = updates[k + 1]
    BY <1>4, <2>2
  <2> QED  BY <1>0, <1>2, <1>3, <1>4, <1>5, <2>2, <2>3, <2>4, Zenon
<1>6. CASE Len(updates) = 1 /\ run[v].full
  <2>1. NextPhase(v) = [Ended("query") EXCEPT !.full = TRUE]
    BY <1>0, <1>6 DEF NextPhase
  <2> QED  BY <1>0, <1>2, <1>3, <1>4, <1>6, <2>1, EndedType, Zenon
<1>7. CASE Len(updates) = 1 /\ ~run[v].full
  <2>1. NextPhase(v) = Ended("done")
    BY <1>0, <1>7 DEF NextPhase
  <2> QED  BY <1>0, <1>2, <1>3, <1>4, <1>7, <2>1, EndedType, Zenon
<1>8. Len(updates) > 1 \/ Len(updates) = 1
  <2>1. \A n \in Nat \ {0} : n > 1 \/ n = 1
    OBVIOUS
  <2> QED  BY <1>3, <2>1, Zenon
<1> QED  BY <1>0, <1>5, <1>6, <1>7, <1>8, Zenon

\* A row of a page is stamped: nobody else's row loses a stamp, and where no
\* other backfill runs none becomes older than a completed one has made it.
LEMMA UpdateKeeps ==
    ASSUME IInv, NEW v \in Versions, Update(v) PROVE IInv'
<1> USE DEF IInv
<1> DEFINE next == NextPhase(v)
<1>0. PICK updates : updates = run[v].updates
  OBVIOUS
<1>1. /\ run[v].phase = "update" /\ run' = [run EXCEPT ![v] = next]
      /\ table' = [i \in 1..Len(table) |->
                     IF table[i].request = Head(updates)
                     THEN [table[i] EXCEPT !.stamp = v] ELSE table[i]]
      /\ UNCHANGED <<gate, request, recorded, resolved, salted, ruleset,
                     buffered, history, crashes>>
  BY <1>0 DEF Update
<1>2. /\ next \in RunType
      /\ next.phase = "update" <=> next.updates # <<>>
      /\ updates \in Seq(Requests) /\ Len(updates) \in Nat \ {0}
      /\ Head(updates) = updates[1]
      /\ \/ /\ Len(updates) > 1
            /\ next.phase = "update" /\ next.full = run[v].full
            /\ Len(next.updates) = Len(updates) - 1
            /\ \A k \in 1..Len(updates) - 1 : next.updates[k] = updates[k + 1]
         \/ Len(updates) = 1 /\ run[v].full /\ next.phase = "query"
         \/ Len(updates) = 1 /\ ~run[v].full /\ next.phase = "done"
  BY <1>0, <1>1, NextPhases
<1> HIDE DEF next
<1>3. v \in Nat /\ v # 0 /\ v \in Stamps /\ Len(table) \in Nat
  BY Types DEF Versions, Stamps
<1>4. \A i \in 1..Len(table) :
        /\ table'[i] \in Rows /\ table'[i].request = table[i].request
        /\ table'[i].stamp = IF table[i].request = Head(updates) THEN v
                             ELSE table[i].stamp
        /\ table[i].stamp \in Nat
  <2>1. \A row \in Rows : /\ [row EXCEPT !.stamp = v] \in Rows
                          /\ [row EXCEPT !.stamp = v].request = row.request
                          /\ [row EXCEPT !.stamp = v].stamp = v
    BY <1>3 DEF Rows
  <2>2. \A i \in 1..Len(table) : table[i] \in Rows /\ table[i].stamp \in Nat
    BY Types DEF Stamps
  <2> QED  BY <1>1, <2>1, <2>2
<1>5. table' \in Seq(Rows) /\ Len(table') = Len(table)
  <2>1. table' \in [1..Len(table) -> Rows]
    BY <1>1, <1>4
  <2> QED  BY <1>3, <2>1
<1>6. TypeOK'
  BY <1>1, <1>2, <1>5, RunKept
<1>7. \A r \in Requests : Stored(r)' <=> Stored(r)
  BY <1>4, <1>5 DEF Stored
<1>8. Apart'
  <2>1. \A r \in Requests : (Waits(r)' <=> Waits(r)) /\ (Held(r)' <=> Held(r))
    BY <1>1 DEF Waits, Held
  <2>2. Once(table') /\ Once(buffered')
    BY <1>1, <1>4, <1>5 DEF Once, Apart
  <2> QED  BY <1>1, <1>7, <2>1, <2>2 DEF Apart
<1>9. run'[v] = next /\ \A w \in Versions \ {v} : run'[w] = run[w]
  BY <1>1 DEF TypeOK
<1>10. UNCHANGED <<ruleset, backlog, overlap>>
  BY <1>1 DEF history
<1>11. ASSUME NEW w \in Versions
       PROVE  \A r \in backlog'[w] : Stored(r)'
  BY <1>7, <1>10 DEF Backlogs, Sweeps, TypeOK
<1>12. Sweeps(v)'
  <2>1. Running(v) /\ Sweeps(v) /\ run[v].phase # "idle"
    BY <1>1 DEF Running, Backlogs
  <2>2. ASSUME NEW i \in 1..Len(table) PROVE Reached(v, i)'
    <3>1. CASE table[i].request = Head(updates)
      BY <1>3, <1>4, <3>1 DEF Reached
    <3>2. CASE table[i].request # Head(updates)
      <4>1. /\ table'[i].stamp = table[i].stamp
            /\ table'[i].request = table[i].request
            /\ Reached(v, i)
        BY <1>4, <2>1, <3>2 DEF Sweeps
      <4>2. CASE Len(updates) > 1
        <5>1. OnPage(v, table[i].request) => OnPage(v, table[i].request)'
          <6> SUFFICES ASSUME NEW k \in 1..Len(updates),
                              updates[k] = table[i].request
                       PROVE  OnPage(v, table[i].request)'
            BY <1>0 DEF OnPage
          <6>1. k # 1 /\ k - 1 \in 1..Len(updates) - 1 /\ (k - 1) + 1 = k
            BY <1>2, <3>2
          <6>2. /\ k - 1 \in 1..Len(run'[v].updates)
                /\ run'[v].updates[k - 1] = table[i].request
            BY <1>2, <1>9, <4>2, <6>1
          <6> QED  BY <1>4, <6>2 DEF OnPage
        <5>2. /\ run'[v].phase = "update" /\ run'[v].full = run[v].full
          <6>1. Len(updates) # 1
            <7>1. \A n \in Nat \ {0} : n > 1 => n # 1
              OBVIOUS
            <7> QED  BY <1>2, <4>2, <7>1, Zenon
          <6> QED  BY <1>2, <1>9, <6>1, Zenon
        <5> QED  BY <1>1, <1>10, <4>1, <5>1, <5>2 DEF Reached, LastPage
      <4>3. CASE Len(updates) = 1 /\ run[v].full
        BY <1>2, <1>9, <4>3 DEF Reached, LastPage
      <4>4. CASE Len(updates) = 1 /\ ~run[v].full
        <5>1. ~OnPage(v, table[i].request)
          BY <1>0, <1>2, <3>2, <4>4 DEF OnPage
        <5>2. run'[v].phase = "done"
          BY <1>2, <1>9, <4>4
        <5> QED  BY <1>1, <1>10, <4>1, <4>4, <5>1, <5>2 DEF Reached, LastPage
      <4> QED  BY <1>2, <4>2, <4>3, <4>4
    <3> QED  BY <3>1, <3>2
  <2> QED  BY <1>5, <1>10, <1>11, <2>1, <2>2 DEF Sweeps
<1>13. ASSUME NEW w \in Versions \ {v} PROVE Sweeps(w)'
  <2>1. Sweeps(w) /\ Sweeps(v) /\ Running(v) /\ w \in Nat
    BY <1>1 DEF Backlogs, Running, Versions
  <2>2. run'[w] = run[w]
    BY <1>9
  <2>3. ASSUME NEW i \in 1..Len(table) PROVE Reached(w, i)'
    <3>1. Reached(w, i)
      BY <2>1 DEF Sweeps
    <3>2. run[w].phase = "done" /\ ~overlap => v >= w
      BY <2>1 DEF Sweeps
    <3>3. ~overlap => run[w].phase # "update"
      BY <2>1 DEF Sweeps, Running
    <3>4. OnPage(w, table[i].request)' <=> OnPage(w, table[i].request)
      BY <1>4, <2>2 DEF OnPage
    <3> QED  BY <1>3, <1>4, <1>10, <2>2, <3>1, <3>2, <3>3, <3>4
             DEF Reached, LastPage
  <2> QED  BY <1>5, <1>10, <1>11, <2>1, <2>2, <2>3 DEF Sweeps, Running
<1> QED  BY <1>6, <1>8, <1>12, <1>13 DEF Backlogs

\* A backfill that fails, or is told not to run, promises nothing.
LEMMA BackfillFailsKeeps ==
    ASSUME IInv, NEW v \in Versions, BackfillFails(v) PROVE IInv'
<1> USE DEF IInv
<1>1. /\ Running(v) /\ run' = [run EXCEPT ![v] = Ended("failed")]
      /\ UNCHANGED <<gate, request, recorded, resolved, salted, ruleset, buffered,
                     table, history, crashes>>
  BY DEF BackfillFails
<1>2. /\ Ended("failed") \in RunType /\ Ended("failed").phase = "failed"
      /\ Ended("failed").updates = <<>>
  BY EndedType
<1>3. TypeOK'
  <2>1. table' \in Seq(Rows)
    BY <1>1 DEF TypeOK
  <2> QED  BY <1>1, <1>2, <2>1, RunKept
<1>4. /\ run'[v].phase = "failed" /\ \A w \in Versions \ {v} : run'[w] = run[w]
      /\ UNCHANGED <<ruleset, backlog, overlap>>
  BY <1>1, <1>2 DEF TypeOK, history
<1>5. Sweeps(v)'
  BY <1>1, <1>4 DEF Backlogs, Sweeps, Running, Stored, Reached, LastPage
<1>6. ASSUME NEW w \in Versions \ {v} PROVE Sweeps(w)'
  BY <1>1, <1>4 DEF Backlogs, Sweeps, Running, Stored, Reached, LastPage, OnPage
<1>7. Apart'
  BY <1>1, ApartSame
<1> QED  BY <1>3, <1>5, <1>6, <1>7 DEF Backlogs

\* After a crash nothing waits, and no backfill has a backlog.
LEMMA CrashKeeps ==
    ASSUME IInv, Crash PROVE IInv'
<1> USE DEF IInv
<1>1. /\ crashes < MaxCrashes /\ crashes' = crashes + 1
      /\ request' = [r \in Requests |->
                       IF request[r] \in {"open", "finished"} THEN "closed"
                       ELSE request[r]]
      /\ resolved' = FALSE /\ salted' = <<>> /\ ruleset' = 0 /\ buffered' = <<>>
      /\ run' = [v \in Versions |-> Ended("idle")]
      /\ backlog' = [v \in Versions |-> {}] /\ overlap' = FALSE
      /\ UNCHANGED <<gate, recorded, table, inFlight>>
  BY DEF Crash
<1>2. /\ Ended("idle") \in RunType /\ Ended("idle").phase = "idle"
      /\ Ended("idle").updates = <<>>
  BY EndedType
<1>3. TypeOK'
  <2>1. /\ salted' \in Seq(Requests) /\ buffered' \in Seq(Rows)
        /\ run' \in [Versions -> RunType]
        /\ \A v \in Versions : run'[v].phase = "update" <=> run'[v].updates # <<>>
    BY <1>1, <1>2
  <2>2. /\ crashes' \in 0..MaxCrashes /\ ruleset' \in Stamps
        /\ request' \in [Requests ->
                           {"new", "passed", "open", "finished", "closed"}]
        /\ backlog' \in [Versions -> SUBSET Requests]
    BY <1>1 DEF TypeOK, Stamps
  <2> QED  BY <1>1, <2>1, <2>2 DEF TypeOK, RunType
<1>4. Apart'
  <2>1. \A r \in Requests : ~Waits(r)' /\ ~Held(r)' /\ (Stored(r)' <=> Stored(r))
    BY <1>1 DEF Waits, Held, Stored
  <2>2. \A r \in Requests :
            request[r] \in {"finished", "closed"} =>
                request'[r] \in {"finished", "closed"}
    BY <1>1 DEF TypeOK
  <2>3. /\ \A i, j \in 1..Len(salted') : salted'[i] = salted'[j] => i = j
        /\ Once(buffered') /\ Once(table')
    BY <1>1 DEF Once, Apart
  <2> QED  BY <1>1, <2>1, <2>2, <2>3 DEF Apart
<1>5. Backlogs'
  BY <1>1, <1>2 DEF Backlogs, Sweeps, Reached, Running
<1> QED  BY <1>3, <1>4, <1>5

\* A request comes in, or its response finishes or closes: the first of the two
\* events records it.
LEMMA RequestMovesKeep ==
    ASSUME IInv, NEW r \in Requests, Receive(r) \/ Finish(r) \/ Close(r)
    PROVE  IInv'
<1> USE DEF IInv
<1>1. UNCHANGED <<gate, resolved, ruleset, table, run, backlog, overlap, inFlight,
                  crashes>>
  BY DEF Receive, Finish, Close, history
<1>2. Backlogs'
  BY <1>1, BacklogsSame
<1>3. CASE Receive(r)
  <2>1. /\ request[r] = "new"
        /\ \/ request' = [request EXCEPT ![r] = "open"]
           \/ request' = [request EXCEPT ![r] = "passed"]
        /\ UNCHANGED <<recorded, salted, buffered, table>>
    BY <1>3 DEF Receive
  <2>2. \A q \in Requests : recorded[q] => q # r /\ request'[q] = request[q]
    BY <2>1 DEF Apart, TypeOK
  <2>3. Apart'
    BY <2>1, <2>2 DEF Apart, Once, Waits, Held, Stored
  <2>4. TypeOK'
    BY <1>1, <2>1 DEF TypeOK
  <2> QED  BY <1>2, <2>3, <2>4
<1>4. CASE Finish(r) \/ Close(r)
  <2>1. /\ Record(r)
        /\ \/ request' = [request EXCEPT ![r] = "finished"]
           \/ request' = [request EXCEPT ![r] = "closed"]
    BY <1>4 DEF Finish, Close
  <2>2. /\ request' \in
             [Requests -> {"new", "passed", "open", "finished", "closed"}]
        /\ request'[r] \in {"finished", "closed"}
        /\ request' = [request EXCEPT ![r] = request'[r]]
    BY <2>1 DEF TypeOK
  <2>3. /\ Apart' /\ recorded' \in [Requests -> BOOLEAN]
        /\ salted' \in Seq(Requests) /\ buffered' \in Seq(Rows)
    BY <1>1, <2>1, <2>2, Records
  <2>4. TypeOK'
    BY <1>1, <2>2, <2>3 DEF TypeOK
  <2> QED  BY <1>2, <2>3, <2>4
<1> QED  BY <1>3, <1>4

\* The gate or the salt changes, or nothing does.
LEMMA OthersKeep ==
    ASSUME IInv, ToggleGate \/ SaltResolves \/ UNCHANGED vars PROVE IInv'
<1> USE DEF IInv
<1>1. /\ gate' \in BOOLEAN /\ resolved' \in BOOLEAN
      /\ UNCHANGED <<request, recorded, salted, ruleset, buffered, table, run,
                     backlog, overlap, inFlight, crashes>>
  BY DEF ToggleGate, SaltResolves, vars, history, TypeOK
<1>2. TypeOK'
  BY <1>1 DEF TypeOK
<1> QED  BY <1>1, <1>2, ApartSame, BacklogsSame

LEMMA InitInv == Init => IInv
<1> SUFFICES ASSUME Init PROVE IInv
  OBVIOUS
<1> USE DEF Init
<1>1. /\ Ended("idle") \in RunType /\ Ended("idle").phase = "idle"
      /\ Ended("idle").updates = <<>>
  BY EndedType
<1>2. TypeOK
  <2>1. /\ salted \in Seq(Requests) /\ buffered \in Seq(Rows) /\ table \in Seq(Rows)
        /\ run \in [Versions -> RunType]
        /\ \A v \in Versions : run[v].phase = "update" <=> run[v].updates # <<>>
    BY <1>1
  <2>2. crashes \in 0..MaxCrashes /\ ruleset \in Stamps
    BY DEF Stamps
  <2> QED  BY <2>1, <2>2 DEF TypeOK, RunType
<1>3. Apart
  BY DEF Apart, Once, Waits, Held, Stored
<1>4. Backlogs
  BY <1>1 DEF Backlogs, Sweeps, Reached, Running
<1> QED  BY <1>2, <1>3, <1>4 DEF IInv

LEMMA StepInv == IInv /\ [Next]_vars => IInv'
<1> SUFFICES ASSUME IInv, [Next]_vars PROVE IInv'
  OBVIOUS
<1>1. CASE ToggleGate \/ SaltResolves \/ UNCHANGED vars  BY <1>1, OthersKeep
<1>2. CASE Salted  BY <1>2, SaltedKeeps
<1>3. CASE Flush  BY <1>3, FlushKeeps
<1>4. CASE Crash  BY <1>4, CrashKeeps
<1>5. ASSUME NEW r \in Requests, Receive(r) \/ Finish(r) \/ Close(r) PROVE IInv'
  BY <1>5, RequestMovesKeep
<1>6. ASSUME NEW v \in Versions, Activate(v) PROVE IInv'
  BY <1>6, ActivateKeeps
<1>7. ASSUME NEW v \in Versions, ReadPage(v) PROVE IInv'
  BY <1>7, ReadPageKeeps
<1>8. ASSUME NEW v \in Versions, Update(v) PROVE IInv'
  BY <1>8, UpdateKeeps
<1>9. ASSUME NEW v \in Versions, BackfillFails(v) PROVE IInv'
  BY <1>9, BackfillFailsKeeps
<1> QED
  BY <1>1, <1>2, <1>3, <1>4, <1>5, <1>6, <1>7, <1>8, <1>9 DEF Next

\* The inductive invariant: a request's row is in one place of the pipeline, and
\* what a backfill has left of its backlog is on its last page.
THEOREM PipelineInvariant == SafeSpec => []IInv
<1> QED  BY InitInv, StepInv, PTL DEF SafeSpec

\* The pipeline's state keeps its type (CapturePipeline's variables).
THEOREM PipelineTypes == SafeSpec => []TypeOK
<1>1. IInv => TypeOK  BY DEF IInv
<1> QED  BY <1>1, PipelineInvariant, PTL

\* A request's row is at one place of the line, so once at most.
LEMMA LineOnce == IInv => RecordedOnce
<1> SUFFICES ASSUME IInv PROVE RecordedOnce
  OBVIOUS
<1> USE DEF IInv
<1> DEFINE held == Requested(buffered)
           stored == Requested(table)
           front == salted \o held
<1>1. /\ Len(salted) \in Nat /\ Len(buffered) \in Nat /\ Len(table) \in Nat
      /\ salted \in Seq(Requests)
  BY Types DEF TypeOK
<1>2. /\ held \in Seq(Requests) /\ Len(held) = Len(buffered)
      /\ \A i \in 1..Len(buffered) : held[i] = buffered[i].request
  <2>1. \A i \in 1..Len(buffered) : buffered[i].request \in Requests
    BY Types
  <2>2. held \in [1..Len(buffered) -> Requests]
    BY <2>1 DEF Requested
  <2> QED  BY <1>1, <2>2 DEF Requested
<1>3. /\ stored \in Seq(Requests) /\ Len(stored) = Len(table)
      /\ \A i \in 1..Len(table) : stored[i] = table[i].request
  <2>1. \A i \in 1..Len(table) : table[i].request \in Requests
    BY Types
  <2>2. stored \in [1..Len(table) -> Requests]
    BY <2>1 DEF Requested
  <2> QED  BY <1>1, <2>2 DEF Requested
<1> HIDE DEF held, stored
<1>4. /\ front \in Seq(Requests) /\ Len(front) = Len(salted) + Len(buffered)
      /\ \A i \in 1..Len(salted) + Len(buffered) :
            front[i] = IF i <= Len(salted) THEN salted[i] ELSE held[i - Len(salted)]
  <2>1. /\ front \in Seq(Requests) /\ Len(front) = Len(salted) + Len(held)
        /\ \A i \in 1..Len(salted) + Len(held) :
              front[i] = IF i <= Len(salted) THEN salted[i]
                         ELSE held[i - Len(salted)]
    BY <1>1, <1>2, ConcatProperties
  <2> QED  BY <1>2, <2>1
<1> HIDE DEF front
<1> DEFINE ends == Len(salted) + Len(buffered)
<1>5. /\ Line \in Seq(Requests) /\ Len(Line) = ends + Len(table)
      /\ \A i \in 1..ends + Len(table) :
            Line[i] = IF i <= ends THEN front[i] ELSE stored[i - ends]
  <2>1. Line = front \o stored
    BY DEF Line, front, held, stored
  <2>2. /\ Line \in Seq(Requests) /\ Len(Line) = Len(front) + Len(stored)
        /\ \A i \in 1..Len(front) + Len(stored) :
              Line[i] = IF i <= Len(front) THEN front[i]
                        ELSE stored[i - Len(front)]
    <3>1. \A a, b \in Seq(Requests) :
            /\ a \o b \in Seq(Requests) /\ Len(a \o b) = Len(a) + Len(b)
            /\ \A i \in 1..Len(a) + Len(b) :
                 (a \o b)[i] = IF i <= Len(a) THEN a[i] ELSE b[i - Len(a)]
      BY ConcatProperties
    <3>2. front \in Seq(Requests) /\ stored \in Seq(Requests)
      BY <1>3, <1>4
    <3> HIDE DEF Line
    <3> QED  BY <2>1, <3>1, <3>2, Zenon
  <2> QED  BY <1>3, <1>4, <2>2
\* Where the request at a place of the line is.
<1>6. ASSUME NEW i \in 1..ends + Len(table)
      PROVE  \/ i \in 1..Len(salted) /\ Line[i] = salted[i]
             \/ /\ i - Len(salted) \in 1..Len(buffered)
                /\ Line[i] = buffered[i - Len(salted)].request
             \/ /\ i - ends \in 1..Len(table)
                /\ Line[i] = table[i - ends].request
  <2>1. CASE i <= Len(salted)
    BY <1>1, <1>4, <1>5, <2>1
  <2>2. CASE Len(salted) < i /\ i <= ends
    <3>1. i - Len(salted) \in 1..Len(buffered) /\ ~(i <= Len(salted))
      BY <1>1, <2>2
    <3> QED  BY <1>1, <1>2, <1>4, <1>5, <2>2, <3>1, SMTT(30)
  <2>3. CASE ends < i
    <3>1. i - ends \in 1..Len(table) /\ ~(i <= ends)
      BY <1>1, <2>3
    <3> QED  BY <1>1, <1>3, <1>5, <2>3, <3>1
  <2> QED  BY <1>1, <2>1, <2>2, <2>3
<1>7. ASSUME NEW i \in 1..ends + Len(table), NEW j \in 1..ends + Len(table),
             Line[i] = Line[j]
      PROVE  i = j
  <2>1. /\ \A k \in 1..Len(salted) : salted[k] \in Requests /\ Waits(salted[k])
        /\ \A k \in 1..Len(buffered) :
             buffered[k].request \in Requests /\ Held(buffered[k].request)
        /\ \A k \in 1..Len(table) :
             table[k].request \in Requests /\ Stored(table[k].request)
    BY Types DEF Waits, Held, Stored
  <2>2. CASE i \in 1..Len(salted) /\ Line[i] = salted[i]
    <3>1. j \in 1..Len(salted) /\ Line[j] = salted[j]
      BY <1>6, <1>7, <2>1, <2>2 DEF Apart
    <3> QED  BY <1>7, <2>2, <3>1 DEF Apart
  <2>3. CASE /\ i - Len(salted) \in 1..Len(buffered)
             /\ Line[i] = buffered[i - Len(salted)].request
    <3>1. /\ j - Len(salted) \in 1..Len(buffered)
          /\ Line[j] = buffered[j - Len(salted)].request
      BY <1>6, <1>7, <2>1, <2>3, ZenonT(30) DEF Apart
    <3>2. i - Len(salted) = j - Len(salted)
      BY <1>7, <2>3, <3>1 DEF Apart, Once
    <3> QED  BY <1>1, <3>2
  <2>4. CASE i - ends \in 1..Len(table) /\ Line[i] = table[i - ends].request
    <3>1. j - ends \in 1..Len(table) /\ Line[j] = table[j - ends].request
      BY <1>6, <1>7, <2>1, <2>4, ZenonT(30) DEF Apart
    <3>2. i - ends = j - ends
      BY <1>7, <2>4, <3>1 DEF Apart, Once
    <3> QED  BY <1>1, <3>2
  <2> QED  BY <1>6, <2>2, <2>3, <2>4
<1>8. DOMAIN Line = 1..ends + Len(table)
  BY <1>5, LenProperties
<1>9. ASSUME NEW i \in 1..ends + Len(table)
      PROVE  request[Line[i]] \in {"finished", "closed"}
  <2>1. /\ Line[i] \in Requests
        /\ Waits(Line[i]) \/ Held(Line[i]) \/ Stored(Line[i])
    BY <1>6, Types DEF Waits, Held, Stored
  <2> QED  BY <2>1 DEF Apart
<1> QED  BY <1>7, <1>8, <1>9 DEF RecordedOnce, IsInjective, ToSet

\* A response is recorded once at most, and none that was passed on
\* (express-middleware.ts).
THEOREM ResponsesRecordedOnce == SafeSpec => []RecordedOnce
BY LineOnce, PipelineInvariant, PTL

\* A backfill that completed has left no row of its backlog pending, nor, where
\* none overlapped, at an older version (backfill.ts).
THEOREM BacklogsDone == SafeSpec => []BacklogDone
<1>1. IInv => BacklogDone
  <2> SUFFICES ASSUME IInv, NEW v \in Versions, run[v].phase = "done",
                      NEW row \in ToSet(table), row.request \in backlog[v]
               PROVE  row.stamp # 0 /\ (~overlap => row.stamp >= v)
    BY DEF BacklogDone, BacklogLabelled, BacklogCurrent
  <2>1. PICK i \in 1..Len(table) : row = table[i]
    BY LenProperties DEF ToSet, IInv, TypeOK
  <2> QED  BY <2>1 DEF IInv, Backlogs, Sweeps, Reached
<1> QED  BY <1>1, PipelineInvariant, PTL
=============================================================================
