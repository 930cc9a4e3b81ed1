-------------------------- MODULE ConfigGate_proofs --------------------------
(***************************************************************************)
(* Proofs about ConfigGate, for any settings, values and number of         *)
(* overlapping requests.                                                   *)
(***************************************************************************)
EXTENDS ConfigGate, FiniteSetTheorems, SequenceTheorems, TLAPS

USE ConfigAssumption

\* A save has one write.
OneWrite ==
    \A h \in Requests : ~handler[h].preset => Len(handler[h].todo) <= 1

\* What is to be written is not pinned.
Unpinned ==
    \A h \in Requests : \A i \in 1..Len(handler[h].todo) :
        handler[h].todo[i].key \notin pinned

Typed == TypeOK /\ OneWrite /\ Unpinned

Write1 == [key : Keys, value : Stored]

\* An unreadable table resolves as one without overrides.
LEMMA NoRowsTyped == NoRows \in [Keys -> Stored]
BY DEF NoRows, Stored

\* A request that is over has nothing to do.
LEMMA IdleTyped ==
    /\ Idle \in Handling
    /\ Idle.phase = "idle" /\ Idle.todo = <<>> /\ Idle.preset = FALSE
    /\ Len(Idle.todo) = 0
BY NoRowsTyped DEF Idle, Handling, Phases, Stored

\* A refresh has nothing to write.
LEMMA QueryTyped ==
    ASSUME NEW m \in {"analytics", "agent"}
    PROVE  /\ Query(m) \in Handling
           /\ Query(m).phase = m
           /\ Query(m).todo = <<>>
           /\ Len(Query(m).todo) = 0
           /\ Query(m).preset = FALSE
BY IdleTyped, NoRowsTyped DEF Query, Idle, Handling, Phases, Stored

\* What is left of two or more writes.
LEMMA LongTail ==
    ASSUME NEW S, NEW s \in Seq(S), Len(s) > 1
    PROVE  /\ Tail(s) \in Seq(S) /\ Tail(s) # <<>>
           /\ Len(Tail(s)) = Len(s) - 1
           /\ \A i \in 1..Len(Tail(s)) : Tail(s)[i] = s[i + 1]
<1>1. s # <<>> /\ Len(s) \in Nat
  BY LenProperties, EmptySeq
<1>2. Tail(s) \in Seq(S) /\ Len(Tail(s)) = Len(s) - 1
  BY <1>1, HeadTailProperties
<1>3. Tail(s) # <<>>
  <2>1. Len(Tail(s)) # 0
    BY <1>1, <1>2
  <2>2. Len(<<>>) = 0
    OBVIOUS
  <2> QED  BY <2>1, <2>2, Zenon
<1> QED  BY <1>1, <1>2, <1>3, HeadTailProperties

\* A function on 1..n is a sequence; the plans of a preset are such.
LEMMA FunctionIsSeq ==
    ASSUME NEW S, NEW n \in Nat, NEW f \in [1..n -> S]
    PROVE  f \in Seq(S) /\ Len(f) = n
<1>1. f \in Seq(S)
  BY SeqDef
<1>2. DOMAIN f = 1..Len(f) /\ Len(f) \in Nat
  BY <1>1, LenProperties
<1> QED  BY <1>1, <1>2

\* What AfterWrite and AfterFailure make of a handler.
LEMMA AfterWriteTyped ==
    ASSUME NEW h \in Requests, handler \in [Requests -> Handling],
           handler[h].todo # <<>>
    PROVE  /\ AfterWrite(h) \in Handling
           /\ \/ /\ AfterWrite(h).phase = "old"
                 /\ AfterWrite(h).preset = handler[h].preset
                 /\ AfterWrite(h).todo = Tail(handler[h].todo)
                 /\ AfterWrite(h).todo # <<>>
                 /\ Len(handler[h].todo) > 1
              \/ AfterWrite(h) = Query("analytics")
<1>1. handler[h] \in Handling
  OBVIOUS
<1>2. CASE Len(handler[h].todo) > 1
  <2>1. AfterWrite(h) = [handler[h] EXCEPT !.phase = "old", !.todo = Tail(@),
                                           !.old = None]
    BY <1>2 DEF AfterWrite
  <2>2. Tail(handler[h].todo) \in Seq(Write1) /\ Tail(handler[h].todo) # <<>>
    BY <1>1, <1>2, LongTail DEF Handling, Write1
  <2> QED  BY <1>1, <1>2, <2>1, <2>2 DEF Handling, Phases, Stored, Write1
<1>3. CASE ~(Len(handler[h].todo) > 1)
  BY <1>3, QueryTyped DEF AfterWrite
<1> QED  BY <1>2, <1>3

\* A step moves one handler h to a record r, well formed on its own.
WellFormed(r) ==
    /\ r \in Handling
    /\ r.phase \in Writing <=> r.todo # <<>>
    /\ ~r.preset => Len(r.todo) <= 1
    /\ \A i \in 1..Len(r.todo) : r.todo[i].key \notin pinned

\* What Typed says of a single handler.
LEMMA TypedWellFormed ==
    ASSUME Typed, NEW h \in Requests PROVE WellFormed(handler[h])
BY DEF Typed, TypeOK, OneWrite, Unpinned, WellFormed

\* A step of one handler keeps the types if its new state is well formed.
LEMMA MovesTyped ==
    ASSUME Typed, NEW h \in Requests, NEW r, WellFormed(r), Moves(h, r),
           pinned' = pinned
    PROVE  /\ handler' \in [Requests -> Handling]
           /\ \A g \in Requests :
                handler'[g].phase \in Writing <=> handler'[g].todo # <<>>
           /\ OneWrite' /\ Unpinned'
           /\ handler'[h] = r
           /\ \A g \in Requests \ {h} : handler'[g] = handler[g]
<1>1. handler' = [handler EXCEPT ![h] = r]
  BY DEF Moves
<1>2. handler \in [Requests -> Handling]
  BY DEF Typed, TypeOK
<1>3. handler'[h] = r /\ \A g \in Requests \ {h} : handler'[g] = handler[g]
  BY <1>1, <1>2
<1>4. handler' \in [Requests -> Handling]
  BY <1>1, <1>2 DEF WellFormed
<1>5. \A g \in Requests : WellFormed(handler'[g])
  BY <1>3, TypedWellFormed
<1> QED  BY <1>3, <1>4, <1>5 DEF WellFormed, OneWrite, Unpinned

\* The states in which a handler is over, or refreshes.
LEMMA IdleWellFormed == WellFormed(Idle)
BY IdleTyped DEF WellFormed, Writing

\* A handler that refreshes is well formed.
LEMMA QueryWellFormed ==
    ASSUME NEW m \in {"analytics", "agent"} PROVE WellFormed(Query(m))
BY QueryTyped DEF WellFormed, Writing

\* After a write, done or skipped, a handler is well formed.
LEMMA AfterWriteWellFormed ==
    ASSUME Typed, NEW h \in Requests, handler[h].phase \in Writing
    PROVE  WellFormed(AfterWrite(h)) /\ WellFormed(AfterFailure(h))
<1>1. WellFormed(handler[h]) /\ handler \in [Requests -> Handling]
  BY TypedWellFormed DEF Typed, TypeOK
<1>2. CASE AfterWrite(h) = Query("analytics")
  BY <1>2, QueryWellFormed, IdleWellFormed DEF AfterFailure
<1>3. CASE AfterWrite(h) # Query("analytics")
  <2> DEFINE r == AfterWrite(h)
  <2>1. /\ r \in Handling /\ r.phase = "old" /\ r.preset = handler[h].preset
        /\ r.todo = Tail(handler[h].todo) /\ r.todo # <<>>
        /\ Len(handler[h].todo) > 1
    BY <1>1, <1>3, AfterWriteTyped DEF WellFormed
  <2>2. handler[h].todo \in Seq(Write1)
    BY <1>1 DEF Handling, Write1
  <2>3. /\ Len(r.todo) = Len(handler[h].todo) - 1
        /\ \A i \in 1..Len(r.todo) : r.todo[i] = handler[h].todo[i + 1]
    BY <2>1, <2>2
  <2>4. \A i \in 1..Len(r.todo) : i + 1 \in 1..Len(handler[h].todo)
    BY <2>2, <2>3
  <2>5. \A i \in 1..Len(r.todo) : r.todo[i].key \notin pinned
    BY <1>1, <2>3, <2>4 DEF WellFormed
  <2>6. WellFormed(r)
    BY <1>1, <2>1, <2>5 DEF WellFormed, Writing
  <2> QED  BY <2>6, IdleWellFormed DEF AfterFailure
<1> QED  BY <1>2, <1>3

\* A preset starts with writes of settings that are not pinned.
LEMMA PlansTyped ==
    ASSUME TypeOK, NEW todo \in Plans, todo # <<>>
    PROVE  WellFormed([Idle EXCEPT !.phase = "old", !.preset = TRUE,
                                   !.todo = todo])
<1> DEFINE n == Cardinality(PresetKeys)
           W == [key : PresetKeys, value : Values]
<1>1. IsFiniteSet(PresetKeys)
  BY FS_Subset DEF PresetKeys
<1>2. n \in Nat
  BY <1>1, FS_CardinalityType
<1>3. todo \in [1..n -> W]
  BY DEF Plans
<1>4. todo \in Seq(W) /\ Len(todo) = n
  BY <1>2, <1>3, FunctionIsSeq
<1>5. \A i \in 1..Len(todo) : todo[i] \in W
  BY <1>3, <1>4
<1>6. W \subseteq Write1 /\ \A w \in W : w.key \notin pinned
  BY DEF PresetKeys, Write1, Stored
<1>7. todo \in Seq(Write1)
  BY <1>4, <1>5, <1>6
<1> QED  BY <1>4, <1>5, <1>6, <1>7, IdleTyped
         DEF WellFormed, Writing, Idle, Handling, Phases, Write1

\* The gates a process starts with, whether the store is active or to come.
LEMMA BootGateTyped ==
    ASSUME config \in [Keys -> Stored], NEW pins, NEW withStore \in BOOLEAN,
           NEW failed \in BOOLEAN
    PROVE  BootGate(pins, withStore, failed) \in [Keys -> Shown]
<1>1. \A db \in {config, NoRows}, k \in Keys : Resolve(pins, db)[k] \in Shown
  BY NoRowsTyped DEF Resolve, Shown, Stored
<1> QED  BY <1>1 DEF BootGate, Shown

\* The handlers it starts with.
LEMMA BootHandlersTyped ==
    ASSUME NEW withStore \in BOOLEAN, NEW hs \in BootHandlers(withStore)
    PROVE  hs \in [Requests -> {Idle, Query("agent")}]
BY DEF BootHandlers

\* The process starts well typed.
LEMMA InitTyped == Init => Typed
<1> SUFFICES ASSUME Init PROVE Typed
  OBVIOUS
<1>1. handler \in [Requests -> {Idle, Query("agent")}]
  BY BootHandlersTyped DEF Init
<1>2. \A h \in Requests : WellFormed(handler[h])
  BY <1>1, IdleWellFormed, QueryWellFormed
<1>3. gate \in [Keys -> Shown]
  BY BootGateTyped DEF Init
<1>4. trail \in [Keys -> [newest : Stored, unbroken : BOOLEAN]]
  BY DEF Init
<1>5. handler \in [Requests -> Handling]
  BY <1>1, <1>2, IdleTyped, QueryTyped
<1> QED  BY <1>2, <1>3, <1>4, <1>5
         DEF Init, Typed, TypeOK, OneWrite, Unpinned, WellFormed

\* A step of h under way is a move of h to a well-formed record.
LEMMA StepTyped ==
    ASSUME Typed, NEW h \in Requests,
           \/ Save(h) \/ ApplyPreset(h) \/ ReadOld(h) \/ Write(h) \/ Audit(h)
           \/ WriteFails(h) \/ ReadConfig(h) \/ ReadConfigFails(h)
           \/ Refresh(h)
    PROVE  pinned' = pinned /\ \E r : WellFormed(r) /\ Moves(h, r)
<1>0. /\ WellFormed(handler[h]) /\ handler[h] \in Handling
      /\ config \in [Keys -> Stored]
  BY TypedWellFormed DEF Typed, TypeOK
<1>1. CASE Save(h)
  <2>1. PICK k \in Keys \ pinned, v \in Stored :
          Moves(h, [Idle EXCEPT !.phase = "old",
                                !.todo = <<[key |-> k, value |-> v]>>])
    BY <1>1 DEF Save
  <2> DEFINE w == [key |-> k, value |-> v]
             r == [Idle EXCEPT !.phase = "old", !.todo = <<w>>]
  <2>2. w \in Write1 /\ w.key \notin pinned
    BY DEF Write1
  <2> HIDE DEF w
  <2>3. <<w>> \in Seq(Write1) /\ <<w>> # <<>> /\ Len(<<w>>) = 1 /\ <<w>>[1] = w
    BY <2>2
  <2>4. r \in Handling /\ r.phase = "old" /\ r.todo = <<w>>
    BY <2>3, IdleTyped DEF Idle, Handling, Phases, Write1
  <2> HIDE DEF r
  <2>5. \A i \in 1..Len(r.todo) : i = 1 /\ r.todo[i] = w
    BY <2>3, <2>4
  <2>6. WellFormed(r)
    BY <2>2, <2>3, <2>4, <2>5 DEF WellFormed, Writing
  <2> QED  BY <1>1, <2>1, <2>6 DEF Save, w, r
<1>2. CASE ApplyPreset(h)
  BY <1>2, PlansTyped, QueryWellFormed DEF ApplyPreset, Typed
<1>3. CASE ReadOld(h)
  <2>1. CASE Moves(h, AfterWrite(h))
    BY <1>3, <2>1, AfterWriteWellFormed DEF ReadOld, Writing
  <2>2. CASE Moves(h, [handler[h] EXCEPT !.phase = "write",
                                         !.old = config[Todo(h).key]])
    <3>1. Todo(h) \in Write1
      BY <1>0, <1>3, HeadTailProperties
         DEF ReadOld, Todo, Handling, Write1, WellFormed, Writing
    <3>2. config[Todo(h).key] \in Stored
      BY <1>0, <3>1 DEF Write1
    <3>3. WellFormed([handler[h] EXCEPT !.phase = "write",
                                        !.old = config[Todo(h).key]])
      BY <1>0, <1>3, <3>2 DEF ReadOld, WellFormed, Handling, Phases, Writing
    <3> QED  BY <1>3, <2>2, <3>3 DEF ReadOld
  <2> QED  BY <1>3, <2>1, <2>2 DEF ReadOld
<1>4. CASE Write(h)
  <2>1. WellFormed([handler[h] EXCEPT !.phase = "audit"])
    BY <1>0, <1>4 DEF Write, WellFormed, Handling, Phases, Writing
  <2> QED  BY <1>4, <2>1 DEF Write
<1>5. CASE Audit(h)
  BY <1>5, AfterWriteWellFormed DEF Audit, Writing
<1>6. CASE WriteFails(h)
  BY <1>6, AfterWriteWellFormed DEF WriteFails, Writing
<1>7. CASE ReadConfig(h)
  <2> DEFINE r(p) == [handler[h] EXCEPT !.phase = p, !.snap = config]
  <2>1. WellFormed(r("apply agent")) /\ WellFormed(r("apply analytics"))
    BY <1>0, <1>7
       DEF ReadConfig, Refreshing, WellFormed, Handling, Phases, Writing
  <2> QED  BY <1>7, <2>1 DEF ReadConfig
<1>8. CASE ReadConfigFails(h)
  <2> DEFINE r(p) == [handler[h] EXCEPT !.phase = p]
  <2>1. WellFormed(r("degrade agent")) /\ WellFormed(r("degrade analytics"))
    BY <1>0, <1>8
       DEF ReadConfigFails, Refreshing, WellFormed, Handling, Phases, Writing
  <2> QED  BY <1>8, <2>1 DEF ReadConfigFails
<1>9. CASE Refresh(h)
  <2>1. WellFormed(AfterGate(h))
    BY IdleWellFormed, QueryWellFormed DEF AfterGate
  <2> QED  BY <1>9, <2>1 DEF Refresh
<1> QED  BY <1>1, <1>2, <1>3, <1>4, <1>5, <1>6, <1>7, <1>8, <1>9

\* What a handler is about to write is an editable setting, not a pinned one.
LEMMA TodoTyped ==
    ASSUME Typed, NEW h \in Requests, handler[h].phase \in Writing
    PROVE  Todo(h) \in Write1 /\ Todo(h).key \notin pinned
<1>1. WellFormed(handler[h])
  BY TypedWellFormed
<1>2. handler[h].todo \in Seq(Write1) /\ handler[h].todo # <<>>
  BY <1>1 DEF WellFormed, Handling, Write1
<1>3. Todo(h) \in Write1 /\ Todo(h) = handler[h].todo[1]
  BY <1>2, HeadTailProperties DEF Todo
<1>4. 1 \in 1..Len(handler[h].todo)
  BY <1>2, EmptySeq
<1> QED  BY <1>1, <1>3, <1>4 DEF WellFormed

\* What the store, the gates and the history are after a step of h.
LEMMA StepRange ==
    ASSUME Typed, NEW h \in Requests,
           \/ Save(h) \/ ApplyPreset(h) \/ ReadOld(h) \/ Write(h) \/ Audit(h)
           \/ WriteFails(h) \/ ReadConfig(h) \/ ReadConfigFails(h)
           \/ Refresh(h)
    PROVE  /\ config' \in [Keys -> Stored]
           /\ trail' \in [Keys -> [newest : Stored, unbroken : BOOLEAN]]
           /\ gate' \in [Keys -> Shown]
           /\ followed' \in BOOLEAN
           /\ unsettled' \in BOOLEAN
           /\ gaps' \subseteq Keys
<1> USE DEF Typed, TypeOK
<1>1. CASE Save(h) \/ ApplyPreset(h) \/ ReadOld(h) \/ ReadConfig(h)
  BY <1>1 DEF Save, ApplyPreset, ReadOld, ReadConfig
<1>2. CASE ReadConfigFails(h)
  BY <1>2 DEF ReadConfigFails
<1>3. CASE Write(h)
  <2>1. Todo(h) \in Write1
    BY <1>3, TodoTyped DEF Write, Writing
  <2>2. config' \in [Keys -> Stored] /\ gaps' \subseteq Keys
    BY <1>3, <2>1 DEF Write, Write1
  <2>3. unsettled' \in BOOLEAN
    BY <1>3 DEF Write
  <2> QED  BY <1>3, <2>2, <2>3 DEF Write
<1>4. CASE Audit(h)
  <2>1. Todo(h) \in Write1
    BY <1>4, TodoTyped DEF Audit, Writing
  <2> DEFINE entry == [newest |-> Todo(h).value,
                       unbroken |-> /\ trail[Todo(h).key].unbroken
                                    /\ trail[Todo(h).key].newest
                                         = handler[h].old]
  <2>2. entry \in [newest : Stored, unbroken : BOOLEAN]
    BY <2>1 DEF Write1
  <2>3. trail' = [trail EXCEPT ![Todo(h).key] = entry]
    BY <1>4 DEF Audit
  <2> HIDE DEF entry
  <2>4. trail' \in [Keys -> [newest : Stored, unbroken : BOOLEAN]]
    BY <2>2, <2>3
  <2> QED  BY <1>4, <2>4 DEF Audit
<1>5. CASE WriteFails(h)
  <2>1. Todo(h) \in Write1
    BY <1>5, TodoTyped DEF WriteFails, Writing
  <2>2. config' \in [Keys -> Stored] /\ gaps' \subseteq Keys
    BY <1>5, <2>1 DEF WriteFails, Write1
  <2>3. unsettled' \in BOOLEAN
    BY <1>5 DEF WriteFails
  <2> QED  BY <1>5, <2>2, <2>3 DEF WriteFails
<1>6. CASE Refresh(h)
  <2>1. handler[h].snap \in [Keys -> Stored]
    BY DEF Handling
  <2>2. \A k \in Keys : Resolve(pinned, handler[h].snap)[k] \in Shown
    BY <2>1 DEF Resolve, Shown, Stored
  <2>3. gate' \in [Keys -> Shown]
    BY <1>6, <2>2 DEF Refresh
  <2> QED  BY <1>6, <2>3 DEF Refresh
<1> QED  BY <1>1, <1>2, <1>3, <1>4, <1>5, <1>6

\* A restart starts well typed.
LEMMA BootTyped ==
    ASSUME Typed, Restart
    PROVE  Typed'
<1>1. handler' \in [Requests -> {Idle, Query("agent")}]
  BY BootHandlersTyped DEF Restart
<1>2. \A h \in Requests : WellFormed(handler'[h]) /\ handler'[h] \in Handling
  BY <1>1, IdleWellFormed, QueryWellFormed DEF WellFormed
<1>3. handler' \in [Requests -> Handling]
  BY <1>1, <1>2
<1>4. gate' \in [Keys -> Shown]
  BY BootGateTyped DEF Restart, Typed, TypeOK
<1>5. gaps' \subseteq Keys
  <2>1. \A g \in Requests : handler[g].phase = "audit" => Todo(g).key \in Keys
    BY TodoTyped DEF Writing, Write1
  <2> QED  BY <2>1 DEF Restart, Typed, TypeOK
<1> QED  BY <1>2, <1>3, <1>4, <1>5
         DEF Restart, Typed, TypeOK, OneWrite, Unpinned, WellFormed

\* Every step keeps the types, one write for a save, and pinned settings out.
LEMMA NextTyped ==
    ASSUME Typed, [Next]_vars
    PROVE  Typed'
<1>1. CASE UNCHANGED vars
  BY <1>1 DEF vars, Typed, TypeOK, OneWrite, Unpinned
<1>2. CASE Restart
  BY <1>2, BootTyped
<1>3. ASSUME NEW h \in Requests,
             \/ Save(h) \/ ApplyPreset(h) \/ ReadOld(h) \/ Write(h)
             \/ Audit(h) \/ WriteFails(h) \/ ReadConfig(h)
             \/ ReadConfigFails(h) \/ Refresh(h)
      PROVE  Typed'
  <2>1. pinned' = pinned /\ \E r : WellFormed(r) /\ Moves(h, r)
    BY <1>3, StepTyped
  <2>2. PICK r : WellFormed(r) /\ Moves(h, r)
    BY <2>1
  <2>3. /\ handler' \in [Requests -> Handling]
        /\ \A g \in Requests :
             handler'[g].phase \in Writing <=> handler'[g].todo # <<>>
        /\ OneWrite' /\ Unpinned'
    BY <2>1, <2>2, MovesTyped
  <2>4. /\ config' \in [Keys -> Stored]
        /\ trail' \in [Keys -> [newest : Stored, unbroken : BOOLEAN]]
        /\ gate' \in [Keys -> Shown]
        /\ followed' \in BOOLEAN
        /\ unsettled' \in BOOLEAN
        /\ gaps' \subseteq Keys
    BY <1>3, StepRange
  <2> QED  BY <2>1, <2>3, <2>4 DEF Typed, TypeOK
<1> QED  BY <1>1, <1>2, <1>3 DEF Next

\* The state keeps its types: the store, the gates, the log, and every handler.
THEOREM TypesHold == Spec => []TypeOK
<1>1. Typed => TypeOK
  BY DEF Typed
<1> QED  BY <1>1, InitTyped, NextTyped, PTL DEF Spec

\* PinnedUntouched: no save or preset writes a setting that environment or
\* file pins, because the plan of a preset leaves it out and a save of it is
\* refused.
THEOREM PinsHold == Spec => PinnedUntouched
<1>1. ASSUME Typed, Next PROVE \A k \in pinned : config'[k] = config[k]
  <2>1. ASSUME NEW h \in Requests, Write(h) \/ WriteFails(h)
        PROVE  \A k \in pinned : config'[k] = config[k]
    <3>1. Todo(h).key \notin pinned /\ config \in [Keys -> Stored]
      BY <1>1, <2>1, TodoTyped DEF Write, WriteFails, Writing, Typed, TypeOK
    <3> QED  BY <1>1, <2>1, <3>1 DEF Write, WriteFails, Typed, TypeOK
  <2> QED  BY <1>1, <2>1
           DEF Next, Restart, Save, ApplyPreset, ReadOld, Audit, ReadConfig,
               ReadConfigFails, Refresh
<1>2. ASSUME Typed, [Next]_vars
      PROVE  [\A k \in pinned : config'[k] = config[k]]_vars
  BY <1>1, <1>2
<1> QED  BY <1>2, InitTyped, NextTyped, PTL DEF Spec, PinnedUntouched

-----------------------------------------------------------------------------
(***************************************************************************)
(* The audit log.  AuditExplains speaks of keys no handler is auditing; to *)
(* be inductive it must also say what the handlers between their read of   *)
(* the old value and their audit row know.                                 *)
(***************************************************************************)
At(h, phase, k) == handler[h].phase = phase /\ Todo(h).key = k

AuditInvOf(k) ==
    /\ \A h \in Requests : At(h, "write", k) => handler[h].old = config[k]
    /\ \A h \in Requests : At(h, "audit", k) =>
        /\ config[k] = Todo(h).value
        /\ trail[k] = [newest |-> handler[h].old, unbroken |-> TRUE]
        /\ \A g \in Requests \ {h} : ~At(g, "audit", k)
    /\ (\A h \in Requests : ~At(h, "audit", k)) =>
        trail[k] = [newest |-> config[k], unbroken |-> TRUE]

AuditInv == \A k \in Keys \ gaps : AuditInvOf(k)

\* Where a step of h leaves the others, and h after a write.
LEMMA OthersStay ==
    ASSUME Typed, NEW h \in Requests, NEW r, Moves(h, r)
    PROVE  /\ handler'[h] = r
           /\ \A g \in Requests \ {h} : handler'[g] = handler[g]
BY DEF Moves, Typed, TypeOK

\* Where a handler is after a write, done or failed.
LEMMA AfterPhases ==
    ASSUME Typed, NEW h \in Requests, handler[h].phase \in Writing
    PROVE  /\ AfterWrite(h).phase \in {"old", "analytics"}
           /\ AfterFailure(h).phase \in {"old", "analytics", "idle"}
<1>1. handler[h].todo # <<>> /\ handler \in [Requests -> Handling]
  BY DEF Typed, TypeOK
<1>2. AfterWrite(h).phase \in {"old", "analytics"}
  BY <1>1, AfterWriteTyped, QueryTyped
<1> QED  BY <1>2, IdleTyped DEF AfterFailure

\* A step of h that leaves the store and the log alone, and does not take h to
\* its audit row or away from it.
LEMMA AuditInvQuiet ==
    ASSUME Typed, AuditInv, NEW h \in Requests, NEW r, Moves(h, r),
           handler[h].phase # "audit", r.phase # "audit",
           r.phase = "write" => r.old = config[Head(r.todo).key],
           UNCHANGED <<config, trail, gaps>>
    PROVE  AuditInv'
<1>1. /\ handler'[h] = r
      /\ \A g \in Requests \ {h} : handler'[g] = handler[g]
  BY OthersStay
<1>2. SUFFICES ASSUME NEW k \in Keys \ gaps PROVE AuditInvOf(k)'
  BY DEF AuditInv
<1>3. AuditInvOf(k)
  BY DEF AuditInv
<1>4. \A g \in Requests : At(g, "audit", k)' <=> At(g, "audit", k)
  BY <1>1 DEF At, Todo
<1>5. \A g \in Requests : At(g, "audit", k) =>
        Todo(g)' = Todo(g) /\ handler'[g] = handler[g]
  BY <1>1 DEF At, Todo
<1>6. \A g \in Requests : At(g, "write", k)' => handler'[g].old = config[k]
  BY <1>1, <1>3 DEF AuditInvOf, At, Todo
<1> QED  BY <1>3, <1>4, <1>5, <1>6 DEF AuditInvOf

\* A write brings the stored value ahead of the log, by the row to come.
LEMMA AuditInvWrite ==
    ASSUME Typed, AuditInv, NEW h \in Requests, Write(h)
    PROVE  AuditInv'
<1> DEFINE r == [handler[h] EXCEPT !.phase = "audit"]
           x == Todo(h).key
<1>0. handler[h].phase = "write" /\ handler[h] \in Handling
  BY DEF Write, Typed, TypeOK
<1>1. /\ handler'[h] = r
      /\ \A g \in Requests \ {h} : handler'[g] = handler[g]
  BY OthersStay DEF Write
<1>2. /\ r.phase = "audit" /\ r.todo = handler[h].todo
      /\ r.old = handler[h].old
  BY <1>0 DEF Handling
<1>3. /\ x \in Keys /\ config \in [Keys -> Stored]
      /\ config' = [config EXCEPT ![x] = Todo(h).value]
      /\ trail' = trail
      /\ gaps' = gaps \cup {y \in {x} : Contended(h, y)}
  BY <1>0, TodoTyped DEF Write, Writing, Write1, Typed, TypeOK
<1> HIDE DEF r
<1>4. SUFFICES ASSUME NEW k \in Keys \ gaps' PROVE AuditInvOf(k)'
  BY DEF AuditInv
<1>5. AuditInvOf(k)
  BY <1>3 DEF AuditInv
<1>6. CASE k # x
  <2>1. config'[k] = config[k]
    BY <1>3, <1>6
  <2>2. \A g \in Requests :
          /\ At(g, "audit", k)' <=> At(g, "audit", k)
          /\ At(g, "write", k)' <=> At(g, "write", k)
    BY <1>0, <1>1, <1>2, <1>6 DEF At, Todo
  <2>3. \A g \in Requests : handler'[g].old = handler[g].old
                          /\ Todo(g)' = Todo(g)
    BY <1>1, <1>2 DEF Todo
  <2> QED  BY <1>3, <1>5, <2>1, <2>2, <2>3 DEF AuditInvOf
<1>7. CASE k = x
  <2>1. ~Contended(h, k)
    BY <1>3, <1>7
  <2>2. \A g \in Requests \ {h} : ~At(g, "audit", k) /\ ~At(g, "write", k)
    BY <2>1 DEF Contended, At
  <2>3. /\ \A g \in Requests \ {h} : ~At(g, "audit", k)' /\ ~At(g, "write", k)'
        /\ At(h, "audit", k)' /\ ~At(h, "write", k)'
        /\ Todo(h)' = Todo(h)
    BY <1>0, <1>1, <1>2, <1>7, <2>2 DEF At, Todo
  <2>4. /\ \A g \in Requests : ~At(g, "audit", k)
        /\ At(h, "write", k)
    BY <1>0, <1>7, <2>2 DEF At
  <2>5. trail[k] = [newest |-> handler[h].old, unbroken |-> TRUE]
    BY <1>5, <2>4 DEF AuditInvOf
  <2>6. config'[k] = Todo(h).value
    BY <1>3, <1>7
  <2> QED  BY <1>1, <1>2, <1>3, <2>3, <2>5, <2>6 DEF AuditInvOf
<1> QED  BY <1>6, <1>7

\* The audit row brings the log up to the stored value.
LEMMA AuditInvAudit ==
    ASSUME Typed, AuditInv, NEW h \in Requests, Audit(h)
    PROVE  AuditInv'
<1> DEFINE x == Todo(h).key
<1>0. handler[h].phase = "audit" /\ AfterWrite(h).phase \in {"old", "analytics"}
  BY AfterPhases DEF Audit, Writing
<1>1. /\ handler'[h] = AfterWrite(h)
      /\ \A g \in Requests \ {h} : handler'[g] = handler[g]
  BY OthersStay DEF Audit
<1>2. SUFFICES ASSUME NEW k \in Keys \ gaps PROVE AuditInvOf(k)'
  BY DEF AuditInv, Audit
<1>3. AuditInvOf(k)
  BY DEF AuditInv
<1>4. \A g \in Requests \ {h} :
        /\ At(g, "audit", k)' <=> At(g, "audit", k)
        /\ At(g, "write", k)' <=> At(g, "write", k)
        /\ handler'[g].old = handler[g].old
        /\ Todo(g)' = Todo(g)
  BY <1>1 DEF At, Todo
<1>5. ~At(h, "audit", k)' /\ ~At(h, "write", k)' /\ ~At(h, "write", k)
  BY <1>0, <1>1 DEF At
<1>6. trail \in [Keys -> [newest : Stored, unbroken : BOOLEAN]] /\ config' = config
  BY DEF Audit, Typed, TypeOK
<1>7. CASE k # x
  <2>1. ~At(h, "audit", k)
    BY <1>7 DEF At
  <2>2. trail'[k] = trail[k]
    BY <1>6, <1>7 DEF Audit
  <2> QED  BY <1>3, <1>4, <1>5, <1>6, <2>1, <2>2 DEF AuditInvOf
<1>8. CASE k = x
  <2>1. At(h, "audit", k)
    BY <1>0, <1>8 DEF At
  <2>2. /\ config[k] = Todo(h).value
        /\ trail[k] = [newest |-> handler[h].old, unbroken |-> TRUE]
        /\ \A g \in Requests \ {h} : ~At(g, "audit", k)
    BY <1>3, <2>1 DEF AuditInvOf
  <2>3. trail'[k] = [newest |-> Todo(h).value,
                     unbroken |-> /\ trail[k].unbroken
                                  /\ trail[k].newest = handler[h].old]
    BY <1>6, <1>8 DEF Audit
  <2>4. trail'[k] = [newest |-> config'[k], unbroken |-> TRUE]
    BY <1>6, <2>2, <2>3
  <2> QED  BY <1>3, <1>4, <1>5, <1>6, <2>2, <2>4 DEF AuditInvOf
<1> QED  BY <1>7, <1>8

\* A failed write of a setting leaves a gap in that log only.
LEMMA AuditInvWriteFails ==
    ASSUME Typed, AuditInv, NEW h \in Requests, WriteFails(h)
    PROVE  AuditInv'
<1>0. /\ handler[h].phase \in Writing
      /\ AfterFailure(h).phase \in {"old", "analytics", "idle"}
  BY AfterPhases DEF WriteFails, Writing
<1>1. CASE handler[h].phase = "old"
  BY <1>0, <1>1, AuditInvQuiet DEF WriteFails
<1>2. CASE handler[h].phase \in {"write", "audit"}
  <2> DEFINE x == Todo(h).key
  <2>1. /\ handler'[h] = AfterFailure(h)
        /\ \A g \in Requests \ {h} : handler'[g] = handler[g]
    BY OthersStay DEF WriteFails
  <2>2. gaps' = gaps \cup {x} /\ trail' = trail
    BY <1>2 DEF WriteFails
  <2>3. SUFFICES ASSUME NEW k \in Keys \ gaps' PROVE AuditInvOf(k)'
    BY DEF AuditInv
  <2>4. AuditInvOf(k) /\ k # x
    BY <2>2 DEF AuditInv
  <2>5. config'[k] = config[k]
    BY <1>2, <2>4 DEF WriteFails, Typed, TypeOK
  <2>6. \A g \in Requests \ {h} :
          /\ At(g, "audit", k)' <=> At(g, "audit", k)
          /\ At(g, "write", k)' <=> At(g, "write", k)
          /\ handler'[g].old = handler[g].old
          /\ Todo(g)' = Todo(g)
    BY <2>1 DEF At, Todo
  <2>7. /\ ~At(h, "audit", k)' /\ ~At(h, "write", k)'
        /\ ~At(h, "audit", k) /\ ~At(h, "write", k)
    BY <1>0, <2>1, <2>4 DEF At
  <2> QED  BY <2>2, <2>4, <2>5, <2>6, <2>7 DEF AuditInvOf
<1> QED  BY <1>0, <1>1, <1>2 DEF Writing

\* The end of the process leaves gaps where an audit row was to come.
LEMMA AuditInvRestart ==
    ASSUME Typed, Restart, AuditInv PROVE AuditInv'
<1>1. \A h \in Requests : handler'[h].phase \in {"idle", "agent"}
  BY BootHandlersTyped, IdleTyped, QueryTyped DEF Restart
<1>2. SUFFICES ASSUME NEW k \in Keys \ gaps' PROVE AuditInvOf(k)'
  BY DEF AuditInv
<1>3. AuditInvOf(k) /\ \A h \in Requests : ~At(h, "audit", k)
  BY DEF Restart, AuditInv, At
<1> QED  BY <1>1, <1>3 DEF Restart, AuditInvOf, At

\* Every step keeps the invariant of the log.
LEMMA AuditInvNext ==
    ASSUME Typed, AuditInv, [Next]_vars PROVE AuditInv'
<1>1. CASE UNCHANGED vars
  BY <1>1 DEF vars, AuditInv, AuditInvOf, At, Todo
<1>2. CASE Restart
  BY <1>2, AuditInvRestart
<1>3. ASSUME NEW h \in Requests, Save(h) PROVE AuditInv'
  <2>1. PICK k \in Keys \ pinned, v \in Stored :
          Moves(h, [Idle EXCEPT !.phase = "old",
                                !.todo = <<[key |-> k, value |-> v]>>])
    BY <1>3 DEF Save
  <2> DEFINE r == [Idle EXCEPT !.phase = "old",
                               !.todo = <<[key |-> k, value |-> v]>>]
  <2>2. r.phase = "old"
    BY DEF Idle
  <2> HIDE DEF r
  <2> QED  BY <1>3, <2>1, <2>2, IdleTyped, AuditInvQuiet DEF Save, r
<1>4. ASSUME NEW h \in Requests, ApplyPreset(h) PROVE AuditInv'
  <2>1. CASE Moves(h, Query("analytics"))
    BY <1>4, <2>1, IdleTyped, QueryTyped, AuditInvQuiet DEF ApplyPreset
  <2>2. ASSUME NEW todo \in Plans,
               Moves(h, [Idle EXCEPT !.phase = "old", !.preset = TRUE,
                                     !.todo = todo])
        PROVE  AuditInv'
    <3> DEFINE r == [Idle EXCEPT !.phase = "old", !.preset = TRUE,
                                 !.todo = todo]
    <3>1. r.phase = "old"
      BY DEF Idle
    <3> HIDE DEF r
    <3> QED  BY <1>4, <2>2, <3>1, IdleTyped, AuditInvQuiet DEF ApplyPreset, r
  <2> QED  BY <1>4, <2>1, <2>2 DEF ApplyPreset
<1>5. ASSUME NEW h \in Requests, ReadOld(h) PROVE AuditInv'
  <2>1. AfterWrite(h).phase \in {"old", "analytics"} /\ handler[h] \in Handling
    BY <1>5, AfterPhases DEF ReadOld, Writing, Typed, TypeOK
  <2>2. CASE Moves(h, AfterWrite(h))
    BY <1>5, <2>1, <2>2, AuditInvQuiet DEF ReadOld
  <2> DEFINE r == [handler[h] EXCEPT !.phase = "write",
                                     !.old = config[Todo(h).key]]
  <2>3. CASE Moves(h, r)
    <3>1. /\ r.phase = "write" /\ r.old = config[Todo(h).key]
          /\ r.todo = handler[h].todo
      BY <2>1 DEF Handling
    <3> HIDE DEF r
    <3> QED  BY <1>5, <2>3, <3>1, AuditInvQuiet DEF ReadOld, Todo
  <2> QED  BY <1>5, <2>2, <2>3 DEF ReadOld
<1>6. ASSUME NEW h \in Requests, ReadConfig(h) PROVE AuditInv'
  <2> DEFINE r == [handler[h] EXCEPT
                     !.phase = IF @ = "agent" THEN "apply agent"
                               ELSE "apply analytics",
                     !.snap = config]
  <2>1. r.phase \in {"apply agent", "apply analytics"}
    BY DEF Handling, Typed, TypeOK
  <2> HIDE DEF r
  <2> QED  BY <1>6, <2>1, AuditInvQuiet DEF ReadConfig, Refreshing, r
<1>7. ASSUME NEW h \in Requests, ReadConfigFails(h) PROVE AuditInv'
  <2> DEFINE r == [handler[h] EXCEPT
                     !.phase = IF @ = "agent" THEN "degrade agent"
                               ELSE "degrade analytics"]
  <2>1. r.phase \in {"degrade agent", "degrade analytics"}
    BY DEF Handling, Typed, TypeOK
  <2> HIDE DEF r
  <2> QED  BY <1>7, <2>1, AuditInvQuiet DEF ReadConfigFails, Refreshing, r
<1>8. ASSUME NEW h \in Requests, Refresh(h) PROVE AuditInv'
  <2>1. AfterGate(h).phase \in {"agent", "idle"}
    BY IdleTyped, QueryTyped DEF AfterGate
  <2> QED  BY <1>8, <2>1, AuditInvQuiet DEF Refresh
<1> QED  BY <1>1, <1>2, <1>3, <1>4, <1>5, <1>6, <1>7, <1>8, AuditInvWrite,
            AuditInvAudit, AuditInvWriteFails DEF Next

\* A log starts at the stored value.
LEMMA AuditInvInit == Init => AuditInv
<1> SUFFICES ASSUME Init PROVE AuditInv
  OBVIOUS
<1>1. \A h \in Requests : handler[h].phase \in {"idle", "agent"}
  BY BootHandlersTyped, IdleTyped, QueryTyped DEF Init
<1> QED  BY <1>1 DEF Init, AuditInv, AuditInvOf, At

\* AuditExplains: with any number of overlapping saves, presets, failures and
\* restarts, the log of a key explains its stored value, unless two writes of
\* the key overlapped or one lost its audit row.
THEOREM LogExplains == Spec => []AuditExplains
<1>1. AuditInv => AuditExplains
  BY DEF AuditInv, AuditInvOf, AuditExplains, At
<1> QED  BY <1>1, InitTyped, NextTyped, AuditInvInit, AuditInvNext, PTL
         DEF Spec

-----------------------------------------------------------------------------
(***************************************************************************)
(* The gates.  At rest they agree with the store because, at any time, a   *)
(* key a gate shows wrongly has a handler that will refresh that gate, and *)
(* because an answer that is held still tells what is stored.  Where the   *)
(* store came late this is claimed of the analytics gate from its first    *)
(* refresh on, and of both from that of the agent gate.                    *)
(***************************************************************************)
WillRefresh(h, k) ==
    \/ handler[h].phase \in {"audit", "analytics", "apply analytics"}
    \/ handler[h].preset /\ handler[h].phase \in {"old", "write"}
    \/ k \in AgentKeys /\ handler[h].phase \in {"agent", "apply agent"}

AnswersHold ==
    \A h \in Requests :
        /\ handler[h].phase \notin {"degrade analytics", "degrade agent"}
        /\ \A k \in Mirror(handler[h].phase) : handler[h].snap[k] = config[k]

Refreshed(h) == handler[h].phase \in {"agent", "apply agent"}

Claimed(k) ==
    \/ followed
    \/ k \in Analytics /\ \E h \in Requests : Refreshed(h)

ShownOrPending ==
    \A k \in Mirrored : Claimed(k) =>
        \/ gate[k] = Resolve(pinned, config)[k]
        \/ \E h \in Requests : WillRefresh(h, k)

GateInv == ~unsettled => AnswersHold /\ ShownOrPending

\* When no request is under way no refresh is pending.
LEMMA GateInvRest == GateInv => GateIsCurrent
<1> SUFFICES ASSUME GateInv, ~unsettled, followed,
                    \A h \in Requests : handler[h].phase = "idle",
                    NEW k \in Mirrored
             PROVE  gate[k] = Resolve(pinned, config)[k]
  BY DEF GateIsCurrent
<1>1. Claimed(k)
  BY DEF Claimed
<1>2. ShownOrPending
  BY DEF GateInv
<1>3. \A h \in Requests : ~WillRefresh(h, k)
  BY DEF WillRefresh
<1> QED  BY <1>1, <1>2, <1>3 DEF ShownOrPending

\* A step of h that leaves the store and the gates alone: h holds no answer
\* afterwards, or a current one, and still refreshes what it would have.
LEMMA GateInvQuiet ==
    ASSUME Typed, GateInv, NEW h \in Requests, NEW r, Moves(h, r),
           UNCHANGED <<pinned, config, gate, followed>>,
           unsettled' \/ ~unsettled,
           ~unsettled' =>
             /\ r.phase \in {"agent", "apply agent"} => Refreshed(h)
             /\ r.phase \notin {"degrade analytics", "degrade agent"}
             /\ \A k \in Mirror(r.phase) : r.snap[k] = config[k]
             /\ \A k \in Mirrored : WillRefresh(h, k) => WillRefresh(h, k)'
    PROVE  GateInv'
<1>1. /\ handler'[h] = r
      /\ \A g \in Requests \ {h} : handler'[g] = handler[g]
  BY OthersStay
<1>2. SUFFICES ASSUME ~unsettled' PROVE AnswersHold' /\ ShownOrPending'
  BY DEF GateInv
<1>3. AnswersHold /\ ShownOrPending
  BY <1>2 DEF GateInv
<1>4. AnswersHold'
  BY <1>1, <1>2, <1>3, ZenonT(30) DEF AnswersHold
<1>5. \A g \in Requests, k \in Mirrored : WillRefresh(g, k) => WillRefresh(g, k)'
  BY <1>1, <1>2 DEF WillRefresh
<1>6. \A k \in Mirrored : Claimed(k)' => Claimed(k)
  BY <1>1, <1>2 DEF Claimed, Refreshed
<1>7. ShownOrPending'
  BY <1>3, <1>5, <1>6 DEF ShownOrPending, Resolve
<1> QED  BY <1>4, <1>7

\* A step of h that may write k, and leaves h with both gates to refresh.
LEMMA GateInvStore ==
    ASSUME Typed, GateInv, NEW h \in Requests, NEW r, Moves(h, r),
           NEW k \in Keys, NEW v, config' \in {config, [config EXCEPT ![k] = v]},
           UNCHANGED <<pinned, gate>>,
           ~unsettled' =>
             /\ ~unsettled /\ ~Overtaken(h, k)
             /\ r.phase \in {"old", "audit", "analytics"}
             /\ r.phase = "old" => r.preset
    PROVE  GateInv'
<1>1. /\ handler'[h] = r
      /\ \A g \in Requests \ {h} : handler'[g] = handler[g]
  BY OthersStay
<1>2. SUFFICES ASSUME ~unsettled' PROVE AnswersHold' /\ ShownOrPending'
  BY DEF GateInv
<1>3. AnswersHold
  BY <1>2 DEF GateInv
<1>4. \A j \in Keys \ {k} : config'[j] = config[j]
  BY DEF Typed, TypeOK
<1>5. \A g \in Requests \ {h} : k \notin Mirror(handler[g].phase)
  BY <1>2 DEF Overtaken
<1>6. Mirror(r.phase) = {}
  BY <1>2 DEF Mirror
<1>7. \A p : Mirror(p) \subseteq Keys
  BY DEF Mirror
<1>8. AnswersHold'
  <2>1. ASSUME NEW g \in Requests
        PROVE  /\ handler'[g].phase \notin {"degrade analytics", "degrade agent"}
               /\ \A j \in Mirror(handler'[g].phase) :
                    handler'[g].snap[j] = config'[j]
    <3>1. CASE g = h
      BY <1>1, <1>2, <1>6, <3>1
    <3>2. CASE g # h
      <4>1. handler'[g] = handler[g]
        BY <1>1, <3>2
      <4>2. /\ handler[g].phase \notin {"degrade analytics", "degrade agent"}
            /\ \A j \in Mirror(handler[g].phase) :
                 handler[g].snap[j] = config[j]
        BY <1>3 DEF AnswersHold
      <4>3. \A j \in Mirror(handler[g].phase) : j \in Keys \ {k}
        BY <1>5, <1>7, <3>2
      <4> QED  BY <1>4, <4>1, <4>2, <4>3
    <3> QED  BY <3>1, <3>2
  <2> QED  BY <2>1 DEF AnswersHold
<1>9. \A j \in Mirrored : WillRefresh(h, j)'
  BY <1>1, <1>2 DEF WillRefresh
<1> QED  BY <1>8, <1>9 DEF ShownOrPending

\* After a write, skipped or done, of a handler that has more to do.
LEMMA AfterWriteGoesOn ==
    ASSUME Typed, NEW h \in Requests, handler[h].phase \in Writing
    PROVE  /\ AfterWrite(h).phase \in {"old", "analytics"}
           /\ AfterWrite(h).phase = "old" =>
                handler[h].preset /\ AfterWrite(h).preset
<1>1. WellFormed(handler[h]) /\ handler \in [Requests -> Handling]
  BY TypedWellFormed DEF Typed, TypeOK
<1>2. CASE AfterWrite(h) = Query("analytics")
  BY <1>2, QueryTyped
<1>3. CASE AfterWrite(h) # Query("analytics")
  <2>1. /\ AfterWrite(h).phase = "old"
        /\ AfterWrite(h).preset = handler[h].preset
        /\ Len(handler[h].todo) > 1
    BY <1>1, <1>3, AfterWriteTyped DEF WellFormed
  <2>2. Len(handler[h].todo) \in Nat
    BY <1>1 DEF Handling
  <2>3. handler[h].preset
    BY <1>1, <2>1, <2>2 DEF WellFormed
  <2> QED  BY <2>1, <2>3
<1> QED  BY <1>2, <1>3

\* A refresh with a current answer corrects its gate and passes on the other.
LEMMA GateInvRefresh ==
    ASSUME Typed, GateInv, NEW h \in Requests, Refresh(h) PROVE GateInv'
<1>1. /\ handler'[h] = AfterGate(h)
      /\ \A g \in Requests \ {h} : handler'[g] = handler[g]
      /\ UNCHANGED <<pinned, config, unsettled>>
  BY OthersStay DEF Refresh
<1>2. SUFFICES ASSUME ~unsettled PROVE AnswersHold' /\ ShownOrPending'
  BY <1>1 DEF GateInv
<1>3. AnswersHold /\ ShownOrPending
  BY <1>2 DEF GateInv
<1>4. handler[h].phase \in {"apply analytics", "apply agent"}
  BY <1>3 DEF Refresh, AnswersHold
<1>5. AfterGate(h).phase \in {"agent", "idle"}
  BY IdleTyped, QueryTyped DEF AfterGate
<1>6. AnswersHold'
  <2>1. /\ handler'[h].phase \notin {"degrade analytics", "degrade agent"}
        /\ Mirror(handler'[h].phase) = {}
    BY <1>1, <1>5 DEF Mirror
  <2>2. ASSUME NEW g \in Requests
        PROVE  /\ handler'[g].phase \notin {"degrade analytics", "degrade agent"}
               /\ \A k \in Mirror(handler'[g].phase) : handler'[g].snap[k] = config'[k]
    <3>1. CASE g = h
      BY <2>1, <3>1
    <3>2. CASE g # h
      <4>1. handler'[g] = handler[g] /\ config' = config
        BY <1>1, <3>2
      <4> QED BY <1>3, <4>1 DEF AnswersHold
    <3> QED BY <3>1, <3>2
  <2> QED BY <2>2 DEF AnswersHold
<1>7. \A k \in Mirrored : k \in Keys
  BY DEF Mirrored
<1>8. ASSUME NEW k \in Mirrored, k \in Mirror(handler[h].phase)
      PROVE  gate'[k] = Resolve(pinned, config)[k]
  <2>1. handler[h].snap[k] = config[k]
    BY <1>3, <1>8 DEF AnswersHold
  <2>2. gate'[k] = Resolve(pinned, handler[h].snap)[k]
    BY <1>7, <1>8 DEF Refresh
  <2> QED  BY <1>7, <2>1, <2>2 DEF Resolve
<1>9. ASSUME NEW k \in Mirrored, k \notin Mirror(handler[h].phase)
      PROVE  \/ gate'[k] = Resolve(pinned, config)[k]
             \/ \E g \in Requests : WillRefresh(g, k)'
  <2>1. gate'[k] = gate[k]
    BY <1>7, <1>9 DEF Refresh
  <2>2. CASE handler[h].phase = "apply analytics"
    <3>1. k \in AgentKeys
      BY <1>9, <2>2 DEF Mirror, Mirrored
    <3>2. handler'[h].phase = "agent"
      BY <1>1, <2>2, QueryTyped DEF AfterGate
    <3> QED  BY <3>1, <3>2 DEF WillRefresh
  <2>3. CASE handler[h].phase = "apply agent"
    <3>1. k \notin AgentKeys
      BY <1>9, <2>3 DEF Mirror
    <3>2. ~WillRefresh(h, k) /\ Claimed(k)
      BY <1>9, <2>3, <3>1 DEF WillRefresh, Claimed, Refreshed, Mirrored
    <3>3. \A g \in Requests \ {h} : WillRefresh(g, k) => WillRefresh(g, k)'
      BY <1>1 DEF WillRefresh
    <3> QED  BY <1>3, <1>9, <2>1, <3>2, <3>3 DEF ShownOrPending
  <2> QED  BY <1>4, <2>2, <2>3
<1>10. ShownOrPending'
  BY <1>1, <1>8, <1>9 DEF ShownOrPending
<1> QED  BY <1>6, <1>10

\* A process shows the table it has read, or is about to; one whose store is to
\* come claims nothing.
LEMMA GateInvBoot ==
    ASSUME followed \in BOOLEAN, ~unsettled, handler \in BootHandlers(followed),
           gate = BootGate(pinned, followed, unsettled)
    PROVE  GateInv
<1>1. \A h \in Requests : handler[h].phase \in {"agent", "idle"}
  BY BootHandlersTyped, IdleTyped, QueryTyped
<1>2. AnswersHold
  BY <1>1 DEF AnswersHold, Mirror
<1>3. CASE followed
  <2>1. PICK starter \in Requests : handler[starter].phase = "agent"
    BY <1>3, QueryTyped DEF BootHandlers
  <2>2. \A k \in AgentKeys : WillRefresh(starter, k)
    BY <2>1 DEF WillRefresh
  <2>3. \A k \in Analytics : gate[k] = Resolve(pinned, config)[k]
    BY <1>3 DEF BootGate
  <2> QED  BY <1>2, <2>2, <2>3 DEF GateInv, ShownOrPending, Mirrored
<1>4. CASE ~followed
  <2>1. \A h \in Requests : ~Refreshed(h)
    BY <1>4, IdleTyped DEF BootHandlers, Refreshed
  <2> QED  BY <1>2, <1>4, <2>1 DEF GateInv, ShownOrPending, Claimed
<1> QED  BY <1>3, <1>4

\* The first process is one such.
LEMMA GateInvInit == Init => GateInv
<1> SUFFICES ASSUME Init PROVE GateInv
  OBVIOUS
<1>1. CASE unsettled
  BY <1>1 DEF GateInv
<1>2. CASE ~unsettled
  BY <1>2, GateInvBoot DEF Init
<1> QED  BY <1>1, <1>2 DEF Init

\* So is every later one.
LEMMA GateInvRestart ==
    ASSUME Restart PROVE GateInv'
<1> SUFFICES ASSUME ~unsettled' PROVE AnswersHold' /\ ShownOrPending'
  BY DEF GateInv
<1>1. \A h \in Requests : handler'[h].phase \in {"agent", "idle"}
  BY BootHandlersTyped, IdleTyped, QueryTyped DEF Restart
<1>2. AnswersHold'
  BY <1>1 DEF AnswersHold, Mirror
<1>3. CASE followed'
  <2>1. PICK starter \in Requests : handler'[starter].phase = "agent"
    BY <1>3, QueryTyped DEF Restart, BootHandlers
  <2>2. \A k \in AgentKeys : WillRefresh(starter, k)'
    BY <2>1 DEF WillRefresh
  <2>3. \A k \in Analytics : gate'[k] = Resolve(pinned, config)'[k]
    BY <1>3 DEF Restart, BootGate, Resolve
  <2>4. ShownOrPending'
    BY <2>2, <2>3 DEF ShownOrPending, Mirrored
  <2> QED  BY <1>2, <2>4
<1>4. CASE ~followed'
  <2>1. \A h \in Requests : ~Refreshed(h)'
    BY <1>4, IdleTyped DEF Restart, BootHandlers, Refreshed
  <2>2. ShownOrPending'
    BY <1>4, <2>1 DEF ShownOrPending, Claimed
  <2> QED  BY <1>2, <2>2
<1> QED  BY <1>2, <1>3, <1>4

\* Every step keeps the invariant of the gates.
LEMMA GateInvNext ==
    ASSUME Typed, GateInv, [Next]_vars PROVE GateInv'
<1>1. CASE UNCHANGED vars
  BY <1>1 DEF vars, GateInv, AnswersHold, ShownOrPending, Claimed, Refreshed,
              WillRefresh, Resolve
<1>2. CASE Restart
  BY <1>2, GateInvRestart
<1>3. ASSUME NEW h \in Requests, Save(h) PROVE GateInv'
  <2>1. PICK k \in Keys \ pinned, v \in Stored :
          Moves(h, [Idle EXCEPT !.phase = "old",
                                !.todo = <<[key |-> k, value |-> v]>>])
    BY <1>3 DEF Save
  <2> DEFINE r == [Idle EXCEPT !.phase = "old",
                               !.todo = <<[key |-> k, value |-> v]>>]
  <2>2. r.phase = "old" /\ Mirror("old") = {}
    BY DEF Idle, Mirror
  <2>3. \A j : ~WillRefresh(h, j)
    BY <1>3, IdleTyped DEF Save, WillRefresh
  <2> HIDE DEF r
  <2> QED  BY <1>3, <2>1, <2>2, <2>3, GateInvQuiet DEF Save, r
<1>4. ASSUME NEW h \in Requests, ApplyPreset(h) PROVE GateInv'
  <2>1. \A j : ~WillRefresh(h, j)
    BY <1>4, IdleTyped DEF ApplyPreset, WillRefresh
  <2>2. Mirror("old") = {} /\ Mirror("analytics") = {}
    BY DEF Mirror
  <2>3. CASE Moves(h, Query("analytics"))
    BY <1>4, <2>1, <2>2, <2>3, QueryTyped, GateInvQuiet DEF ApplyPreset
  <2>4. ASSUME NEW todo \in Plans,
               Moves(h, [Idle EXCEPT !.phase = "old", !.preset = TRUE,
                                     !.todo = todo])
        PROVE  GateInv'
    <3> DEFINE r == [Idle EXCEPT !.phase = "old", !.preset = TRUE,
                                 !.todo = todo]
    <3>1. r.phase = "old"
      BY DEF Idle
    <3> HIDE DEF r
    <3> QED  BY <1>4, <2>1, <2>2, <2>4, <3>1, GateInvQuiet DEF ApplyPreset, r
  <2> QED  BY <1>4, <2>3, <2>4 DEF ApplyPreset
<1>5. ASSUME NEW h \in Requests, ReadOld(h) PROVE GateInv'
  <2>0. /\ handler[h].phase = "old" /\ handler[h] \in Handling
        /\ Mirror("old") = {} /\ Mirror("analytics") = {} /\ Mirror("write") = {}
    BY <1>5 DEF ReadOld, Typed, TypeOK, Mirror
  <2>1. CASE Moves(h, AfterWrite(h))
    <3>1. /\ AfterWrite(h).phase \in {"old", "analytics"}
          /\ AfterWrite(h).phase = "old" => AfterWrite(h).preset
      BY <2>0, AfterWriteGoesOn DEF Writing
    <3>2. handler'[h] = AfterWrite(h)
      BY <2>1, OthersStay
    <3>3. \A j : WillRefresh(h, j)'
      BY <3>1, <3>2 DEF WillRefresh
    <3> QED  BY <1>5, <2>0, <2>1, <3>1, <3>3, GateInvQuiet DEF ReadOld
  <2> DEFINE r == [handler[h] EXCEPT !.phase = "write",
                                     !.old = config[Todo(h).key]]
  <2>2. CASE Moves(h, r)
    <3>1. r.phase = "write" /\ r.preset = handler[h].preset
      BY <2>0 DEF Handling
    <3> HIDE DEF r
    <3>2. handler'[h] = r
      BY <2>2, OthersStay
    <3>3. \A j : WillRefresh(h, j) => WillRefresh(h, j)'
      BY <2>0, <3>1, <3>2 DEF WillRefresh
    <3> QED  BY <1>5, <2>0, <2>2, <3>1, <3>3, GateInvQuiet DEF ReadOld
  <2> QED  BY <1>5, <2>1, <2>2 DEF ReadOld
<1>6. ASSUME NEW h \in Requests, Write(h) PROVE GateInv'
  <2>1. Todo(h).key \in Keys /\ handler[h] \in Handling
    BY <1>6, TodoTyped DEF Write, Writing, Write1, Typed, TypeOK
  <2> DEFINE r == [handler[h] EXCEPT !.phase = "audit"]
  <2>2. r.phase = "audit"
    BY <2>1 DEF Handling
  <2>3. /\ Moves(h, r)
        /\ config' \in {config, [config EXCEPT ![Todo(h).key] = Todo(h).value]}
        /\ UNCHANGED <<pinned, gate>>
        /\ ~unsettled' => ~unsettled /\ ~Overtaken(h, Todo(h).key)
    BY <1>6 DEF Write
  <2> HIDE DEF r
  <2> QED  BY <2>1, <2>2, <2>3, GateInvStore
<1>7. ASSUME NEW h \in Requests, Audit(h) PROVE GateInv'
  <2>1. handler[h].phase = "audit" /\ Mirror("old") = {} /\ Mirror("analytics") = {}
    BY <1>7 DEF Audit, Mirror
  <2>2. /\ AfterWrite(h).phase \in {"old", "analytics"}
        /\ AfterWrite(h).phase = "old" => AfterWrite(h).preset
    BY <2>1, AfterWriteGoesOn DEF Writing
  <2>3. handler'[h] = AfterWrite(h)
    BY <1>7, OthersStay DEF Audit
  <2>4. \A j : WillRefresh(h, j)'
    BY <2>2, <2>3 DEF WillRefresh
  <2> QED  BY <1>7, <2>1, <2>2, <2>4, GateInvQuiet DEF Audit
<1>8. ASSUME NEW h \in Requests, WriteFails(h) PROVE GateInv'
  <2>1. /\ handler[h].phase \in Writing /\ Mirror("old") = {}
        /\ Mirror("analytics") = {} /\ Mirror("idle") = {}
    BY <1>8 DEF WriteFails, Writing, Mirror
  <2>2. /\ AfterWrite(h).phase \in {"old", "analytics"}
        /\ AfterWrite(h).phase = "old" => AfterWrite(h).preset
        /\ Todo(h).key \in Keys
    BY <2>1, AfterWriteGoesOn, TodoTyped DEF Write1
  <2>3. handler'[h] = AfterFailure(h)
    BY <1>8, OthersStay DEF WriteFails
  <2>4. CASE handler[h].phase = "old"
    <3>0. /\ UNCHANGED <<pinned, config, gate, followed>>
          /\ unsettled' = unsettled
          /\ Moves(h, AfterFailure(h)) /\ unsettled \in BOOLEAN
      BY <1>8, <2>4 DEF WriteFails, Typed, TypeOK
    <3>1. CASE handler[h].preset
      <4>1. \A j : WillRefresh(h, j)'
        BY <2>2, <2>3, <3>1 DEF WillRefresh, AfterFailure
      <4>2. AfterFailure(h) = AfterWrite(h)
        BY <3>1 DEF AfterFailure
      <4> QED  BY <2>1, <2>2, <3>0, <4>1, <4>2, GateInvQuiet
    <3>2. CASE ~handler[h].preset
      <4>1. \A j : ~WillRefresh(h, j)
        BY <2>4, <3>2 DEF WillRefresh
      <4>2. AfterFailure(h) = Idle /\ Idle.phase = "idle"
        BY <3>2, IdleTyped DEF AfterFailure
      <4> QED  BY <2>1, <3>0, <4>1, <4>2, GateInvQuiet
    <3> QED  BY <3>1, <3>2
  <2>5. CASE handler[h].phase # "old"
    <3>1. /\ config' \in {config, [config EXCEPT ![Todo(h).key] = Todo(h).value]}
          /\ ~unsettled' => /\ ~unsettled /\ handler[h].preset
                            /\ ~Overtaken(h, Todo(h).key)
          /\ UNCHANGED <<pinned, gate>>
          /\ Moves(h, AfterFailure(h))
      BY <1>8, <2>5 DEF WriteFails
    <3>2. ~unsettled' => AfterFailure(h) = AfterWrite(h)
      BY <3>1 DEF AfterFailure
    <3> QED  BY <2>2, <3>1, <3>2, GateInvStore
  <2> QED  BY <2>4, <2>5
<1>9. ASSUME NEW h \in Requests, ReadConfig(h) PROVE GateInv'
  <2>0. handler[h].phase \in Refreshing /\ handler[h] \in Handling
    BY <1>9 DEF ReadConfig, Typed, TypeOK
  <2> DEFINE r == [handler[h] EXCEPT
                     !.phase = IF @ = "agent" THEN "apply agent"
                               ELSE "apply analytics",
                     !.snap = config]
  <2>1. /\ r.phase = IF handler[h].phase = "agent" THEN "apply agent"
                     ELSE "apply analytics"
        /\ r.snap = config
    BY <2>0 DEF Handling
  <2> HIDE DEF r
  <2>2. handler'[h] = r /\ Moves(h, r)
    BY <1>9, OthersStay DEF ReadConfig, r
  <2>3. \A j : WillRefresh(h, j) => WillRefresh(h, j)'
    BY <2>0, <2>1, <2>2 DEF WillRefresh, Refreshing
  <2>4. r.phase \in {"agent", "apply agent"} => Refreshed(h)
    BY <2>0, <2>1 DEF Refreshing, Refreshed
  <2> QED  BY <1>9, <2>1, <2>2, <2>3, <2>4, GateInvQuiet DEF ReadConfig
<1>10. ASSUME NEW h \in Requests, ReadConfigFails(h) PROVE GateInv'
  BY <1>10 DEF ReadConfigFails, GateInv
<1>11. ASSUME NEW h \in Requests, Refresh(h) PROVE GateInv'
  BY <1>11, GateInvRefresh
<1> QED  BY <1>1, <1>2, <1>3, <1>4, <1>5, <1>6, <1>7, <1>8, <1>9, <1>10,
            <1>11 DEF Next

\* GateIsCurrent: whenever no request is under way both gates show what is
\* stored, unless a query failed, a write overtook an answer, or the store came
\* after the gates were resolved and nothing has been saved since.
THEOREM GatesFollow == Spec => []GateIsCurrent
<1> QED  BY GateInvRest, InitTyped, NextTyped, GateInvInit, GateInvNext, PTL
         DEF Spec
=============================================================================
