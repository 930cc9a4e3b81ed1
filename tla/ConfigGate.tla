------------------------------ MODULE ConfigGate ------------------------------
(***************************************************************************)
(* Editing the configuration while the server runs: the config router's    *)
(* PUT, DELETE and preset handlers (server/config/router.ts), the stored   *)
(* overrides with their audit log (storage/postgres.ts), and the two       *)
(* capture gates that cache the resolved values (server/capture-gate.ts,   *)
(* server/agent/capture-gate.ts).                                          *)
(*                                                                         *)
(* A handler is a chain of awaited queries: read the old value, write the  *)
(* new one, insert the audit row, then read the table once for each gate.  *)
(* Two requests' queries interleave, and an answer may come back late, so  *)
(* reading the table and replacing the gate are two steps.  A query may    *)
(* reject.  The SQLite adapter writes in one transaction, which is the     *)
(* special case of consecutive steps.                                      *)
(*                                                                         *)
(* The store is activated before the gates are first resolved, or, in      *)
(* production with the admin plane on and the analytics off (or their      *)
(* store failed), after it: then nothing resolves them again before the    *)
(* first save, reset or preset (analytics.ts:251-253, express.ts:92-95 and *)
(* 140-143, admin.ts:203-222).                                             *)
(*                                                                         *)
(* The keys the guard always refuses (unknown, secret, environment-only)   *)
(* are not in Keys.  The audit log appears by its newest entry of a key,   *)
(* and by whether each entry's old value is the new value of the one       *)
(* before.                                                                 *)
(***************************************************************************)
EXTENDS Naturals, Sequences, FiniteSets

CONSTANTS
    Keys,        \* editable settings
    AgentKeys,   \* those the agent gate mirrors; the analytics gate mirrors
    Analytics,   \* these, and others are mirrored by none
    Preset,      \* the settings a preset sets
    Values,      \* what a setting can be set to
    Default,     \* the schema's default
    Pin,         \* the value of a setting pinned by environment or file
    None,        \* no stored override
    Requests     \* bound: requests handled at a time

ASSUME ConfigAssumption ==
    /\ AgentKeys \cup Analytics \cup Preset \subseteq Keys
    /\ AgentKeys \cap Analytics = {}
    /\ IsFiniteSet(Keys)
    /\ None \notin Values

VARIABLES
    pinned,     \* settings pinned by environment or file
    config,     \* config[k]: the stored override of k
    trail,      \* trail[k]: the audit log of k
    gate,       \* gate[k]: k as the gate that mirrors it shows it
    handler,    \* handler[h]: how far the handling of h is
    followed,   \* history: a refresh of both gates could ask the store, at
                \* the start of the process or since
    unsettled,  \* history: the gates may differ from what is stored, by a
                \* failed query or a write that overtook a late answer
    gaps        \* history: keys whose log may not explain what is stored

vars == <<pinned, config, trail, gate, handler, followed, unsettled, gaps>>

Stored == Values \cup {None}
Shown == Values \cup {Default, Pin}
Mirrored == AgentKeys \cup Analytics

-----------------------------------------------------------------------------
\* resolveConfig with the rows db: what is pinned by environment or file first,
\* then the stored override, then the default.
Resolve(pins, db) ==
    [k \in Keys |-> CASE k \in pins -> Pin
                      [] k \notin pins /\ db[k] # None -> db[k]
                      [] OTHER -> Default]

\* What it resolves to when the table cannot be read (resolve.ts:213).
NoRows == [k \in Keys |-> None]

Idle == [phase |-> "idle", preset |-> FALSE, todo |-> <<>>, old |-> None,
         snap |-> NoRows]

\* Refreshing a gate, the analytics gate first.
Query(mirror) == [Idle EXCEPT !.phase = mirror]

Refreshing == {"analytics", "agent"}

\* Keys the gate under refresh mirrors, for a handler that has its answer.
Mirror(phase) ==
    CASE phase \in {"apply analytics", "degrade analytics"} -> Analytics
      [] phase \in {"apply agent", "degrade agent"} -> AgentKeys
      [] OTHER -> {}

\* The process starts.  With the store active the analytics gate is resolved
\* before it serves, and the agent gate is off until its first refresh.  With
\* the store to come the analytics gate stays at its literal, the defaults, and
\* the agent gate is resolved without any row.
BootGate(pins, withStore, failed) ==
    [k \in Keys |->
        CASE withStore /\ k \in Analytics ->
                Resolve(pins, IF failed THEN NoRows ELSE config)[k]
          [] ~withStore /\ k \in AgentKeys -> Resolve(pins, NoRows)[k]
          [] OTHER -> Default]

BootHandlers(withStore) ==
    IF withStore
    THEN {[h \in Requests |-> IF h = starter THEN Query("agent") ELSE Idle] :
            starter \in Requests}
    ELSE {[h \in Requests |-> Idle]}

Init ==
    /\ pinned \in SUBSET Keys
    /\ config \in [Keys -> Stored]
    /\ trail = [k \in Keys |-> [newest |-> config[k], unbroken |-> TRUE]]
    /\ followed \in BOOLEAN
    /\ unsettled \in {FALSE, followed}
    /\ gate = BootGate(pinned, followed, unsettled)
    /\ handler \in BootHandlers(followed)
    /\ gaps = {}

Moves(h, r) == handler' = [handler EXCEPT ![h] = r]

\* PUT and DELETE of a key, past writeGuard: a pinned key is refused.  A
\* DELETE is a write of None.
Save(h) ==
    /\ handler[h] = Idle
    /\ \E k \in Keys \ pinned, v \in Stored :
        Moves(h, [Idle EXCEPT !.phase = "old",
                              !.todo = <<[key |-> k, value |-> v]>>])
    /\ UNCHANGED <<pinned, config, trail, gate, followed, unsettled, gaps>>

Todo(h) == Head(handler[h].todo)

\* Mutant: the loop over the settings has no end.
AfterWriteEndless(h) ==
    [handler[h] EXCEPT !.phase = "old", !.todo = Tail(@), !.old = None]

\* setConfig has ended: the preset's next setting, or the gates.
AfterWrite(h) ==
    IF Len(handler[h].todo) > 1
    THEN [handler[h] EXCEPT !.phase = "old", !.todo = Tail(@), !.old = None]
    ELSE Query("analytics")

\* Mutant: a failed write of a preset is answered without the refresh.
AfterFailureStops(h) == Idle

\* A query of setConfig has rejected: a preset skips the setting, a save is
\* answered with 500 and refreshes nothing.
AfterFailure(h) == IF handler[h].preset THEN AfterWrite(h) ELSE Idle

PresetKeys == Preset \ pinned

\* The writes of a preset: one for each of its keys, in its order.
Plans ==
    {todo \in [1..Cardinality(PresetKeys) ->
                 [key : PresetKeys, value : Values]] :
        \A i, j \in DOMAIN todo : todo[i].key = todo[j].key => i = j}

\* POST of a preset.
ApplyPreset(h) ==
    /\ handler[h] = Idle
    /\ \E todo \in Plans :
        Moves(h, IF todo = <<>> THEN Query("analytics")
                 ELSE [Idle EXCEPT !.phase = "old", !.preset = TRUE,
                                   !.todo = todo])
    /\ UNCHANGED <<pinned, config, trail, gate, followed, unsettled, gaps>>

\* The old value is read.  A reset of what is not set is over.
ReadOld(h) ==
    /\ handler[h].phase = "old"
    /\ LET old == config[Todo(h).key]
       IN  Moves(h, IF old = None /\ Todo(h).value = None THEN AfterWrite(h)
                    ELSE [handler[h] EXCEPT !.phase = "write", !.old = old])
    /\ UNCHANGED <<pinned, config, trail, gate, followed, unsettled, gaps>>

\* Others hold an old value of k, or an answer with k in it, read before now.
Contended(h, k) ==
    \E g \in Requests \ {h} :
        handler[g].phase \in {"write", "audit"} /\ Todo(g).key = k

Overtaken(h, k) == \E g \in Requests \ {h} : k \in Mirror(handler[g].phase)

\* The upsert or the deletion of the row.
Write(h) ==
    /\ handler[h].phase = "write"
    /\ LET k == Todo(h).key
       IN  /\ config' = [config EXCEPT ![k] = Todo(h).value]
           /\ unsettled' = (unsettled \/ Overtaken(h, k))
           /\ gaps' = gaps \cup {x \in {k} : Contended(h, k)}
    /\ Moves(h, [handler[h] EXCEPT !.phase = "audit"])
    /\ UNCHANGED <<pinned, trail, gate, followed>>

\* Mutant: the audit row's two values are those before and after the insert.
AuditSame(h) ==
    /\ handler[h].phase = "audit"
    /\ LET k == Todo(h).key
       IN  trail' = [trail EXCEPT ![k] =
                       [newest |-> handler[h].old,
                        unbroken |-> @.unbroken /\ @.newest = handler[h].old]]
    /\ Moves(h, AfterWrite(h))
    /\ UNCHANGED <<pinned, config, gate, followed, unsettled, gaps>>

\* The audit row.
Audit(h) ==
    /\ handler[h].phase = "audit"
    /\ LET k == Todo(h).key
       IN  trail' = [trail EXCEPT ![k] =
                       [newest |-> Todo(h).value,
                        unbroken |-> @.unbroken /\ @.newest = handler[h].old]]
    /\ Moves(h, AfterWrite(h))
    /\ UNCHANGED <<pinned, config, gate, followed, unsettled, gaps>>

\* A query of setConfig or clearConfig rejects.  The row may have been written
\* nevertheless, and then has no audit row; only a preset goes on to refresh.
WriteFails(h) ==
    /\ \/ /\ handler[h].phase = "old"
          /\ UNCHANGED <<config, unsettled, gaps>>
       \/ /\ handler[h].phase \in {"write", "audit"}
          /\ LET k == Todo(h).key
             IN  /\ \/ UNCHANGED config
                    \/ /\ handler[h].phase = "write"
                       /\ config' = [config EXCEPT ![k] = Todo(h).value]
                 /\ unsettled' = (\/ unsettled
                                  \/ ~handler[h].preset
                                  \/ Overtaken(h, k))
                 /\ gaps' = gaps \cup {k}
    /\ Moves(h, AfterFailure(h))
    /\ UNCHANGED <<pinned, trail, gate, followed>>

\* resolveConfig reads the table for the next gate.
ReadConfig(h) ==
    /\ handler[h].phase \in Refreshing
    /\ Moves(h, [handler[h] EXCEPT
                   !.phase = IF @ = "agent" THEN "apply agent"
                             ELSE "apply analytics",
                   !.snap = config])
    /\ UNCHANGED <<pinned, config, trail, gate, followed, unsettled, gaps>>

\* The table cannot be read: resolveConfig goes on without any row.
ReadConfigFails(h) ==
    /\ handler[h].phase \in Refreshing
    /\ Moves(h, [handler[h] EXCEPT
                   !.phase = IF @ = "agent" THEN "degrade agent"
                             ELSE "degrade analytics"])
    /\ unsettled' = TRUE
    /\ UNCHANGED <<pinned, config, trail, gate, followed, gaps>>

\* Mutant: the agent gate is not refreshed.
AfterGateNone(h) == Idle

\* The analytics gate is followed by the agent gate, and that by the answer.
AfterGate(h) ==
    IF handler[h].phase \in {"apply analytics", "degrade analytics"}
    THEN Query("agent") ELSE Idle

\* The refresh's continuation replaces the gate.
Refresh(h) ==
    /\ handler[h].phase \in {"apply analytics", "apply agent",
                             "degrade analytics", "degrade agent"}
    /\ gate' = [k \in Keys |->
                  IF k \in Mirror(handler[h].phase)
                  THEN Resolve(pinned, handler[h].snap)[k] ELSE gate[k]]
    /\ followed' = (followed \/ handler[h].phase = "apply agent")
    /\ Moves(h, AfterGate(h))
    /\ UNCHANGED <<pinned, config, trail, unsettled, gaps>>

\* The process ends, at any point, and starts again.
Restart ==
    /\ followed' \in BOOLEAN
    /\ unsettled' \in {FALSE, followed'}
    /\ gate' = BootGate(pinned, followed', unsettled')
    /\ handler' \in BootHandlers(followed')
    /\ gaps' = gaps \cup {Todo(h).key :
                            h \in {g \in Requests : handler[g].phase = "audit"}}
    /\ UNCHANGED <<pinned, config, trail>>

Next ==
    \/ \E h \in Requests :
        \/ Save(h)
        \/ ApplyPreset(h)
        \/ ReadOld(h)
        \/ Write(h)
        \/ Audit(h)
        \/ WriteFails(h)
        \/ ReadConfig(h)
        \/ ReadConfigFails(h)
        \/ Refresh(h)
    \/ Restart

Spec == Init /\ [][Next]_vars

-----------------------------------------------------------------------------
Phases == {"idle", "old", "write", "audit", "analytics", "apply analytics",
           "degrade analytics", "agent", "apply agent", "degrade agent"}

Writing == {"old", "write", "audit"}

Handling == [phase : Phases,
             preset : BOOLEAN,
             todo : Seq([key : Keys, value : Stored]),
             old : Stored,
             snap : [Keys -> Stored]]

\* Type invariant of the store, the gates and the handlers.
TypeOK ==
    /\ pinned \subseteq Keys
    /\ config \in [Keys -> Stored]
    /\ trail \in [Keys -> [newest : Stored, unbroken : BOOLEAN]]
    /\ gate \in [Keys -> Shown]
    /\ handler \in [Requests -> Handling]
    /\ \A h \in Requests :
        handler[h].phase \in Writing <=> handler[h].todo # <<>>
    /\ followed \in BOOLEAN
    /\ unsettled \in BOOLEAN
    /\ gaps \subseteq Keys

\* The gates agree with what is stored as soon as no request is under way: in
\* spite of overlapping saves and presets, skipped settings and restarts, and
\* unless a query failed or a write overtook an answer already read.  A process
\* whose store was activated after its gates were resolved is held to it from
\* its first answered save, reset or preset on.
GateIsCurrent ==
    ~unsettled /\ followed /\ (\A h \in Requests : handler[h].phase = "idle") =>
        \A k \in Mirrored : gate[k] = Resolve(pinned, config)[k]

\* The audit log explains what is stored: each entry's old value is the new
\* one of the entry before, up to the stored value (postgres.ts:222-224).
AuditExplains ==
    \A k \in Keys \ gaps :
        (\A h \in Requests : handler[h].phase = "audit" => Todo(h).key # k) =>
            trail[k] = [newest |-> config[k], unbroken |-> TRUE]

\* A setting pinned by environment or file is not written, by a save or by a
\* preset that spans pinned and other settings.
PinnedUntouched ==
    [][\A k \in pinned : config'[k] = config[k]]_vars

\* agent/capture-gate.ts:121-122 "a resolve failure leaves the previous gate
\* in place": a gate that shows what is stored still does after a refresh that
\* could not read the table.
GateKept ==
    [][\A h \in Requests :
         handler[h].phase \in {"degrade analytics", "degrade agent"}
           /\ Refresh(h) =>
             \A k \in Mirrored :
                gate[k] = Resolve(pinned, config)[k] => gate'[k] = gate[k]]_vars
=============================================================================
