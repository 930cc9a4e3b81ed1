----------------------------- MODULE ViewState ------------------------------
(***************************************************************************)
(* The state of a view in an MCP Apps host (web/bridges/mcp-app/adaptor.ts,*)
(* web/bridges/mcp-app/bridge.ts) with its two writers: a store that is    *)
(* kept in step with it (web/create-store.ts, web/helpers/state.ts), and   *)
(* the description of what is on the screen (web/data-llm.tsx).            *)
(*                                                                         *)
(* setViewState() tells its listeners before it persists and sends, and    *)
(* the store's listener may call it again: the inner call then persists    *)
(* and sends first.  The state is persisted under the view's id, which a   *)
(* tool result brings, and restored when it does.  What is sent waits for  *)
(* the connection to the host.                                             *)
(*                                                                         *)
(* A state has the store's fields, all in one value, and the description;  *)
(* either may be absent.  Other views share the local storage, whose       *)
(* least recently used entries go.                                         *)
(***************************************************************************)
EXTENDS Naturals, Sequences

CONSTANTS
    Values,       \* what the store's fields may be
    Default,      \* ... and are at first
    Descriptions, \* what DataLLM components may say
    Ids,          \* ids of views
    MaxSends,     \* bound: calls on their way to the host
    Absent        \* no value, no description, no state, no id

ASSUME ViewAssumption ==
    /\ Default \in Values
    /\ Absent \notin Values \cup Descriptions \cup Ids
    /\ MaxSends \in Nat

VARIABLES
    store,     \* the zustand store
    view,      \* _viewState
    viewUUID,
    storage,   \* storage[u]: the entry of local storage for the view u
    sends,     \* calls of updateModelContext() that wait or are on their way
    connected, \* connectPromise is settled
    context,   \* the host's: what the model is told of the view
    described, \* history: what the mounted DataLLM components say
    stale,     \* history: the state was restored since they last said it
    lost       \* history: a call did not reach the host

viewVars == <<store, view, viewUUID, storage, sends, connected, context,
              described, stale, lost>>

State == [value : Values \cup {Absent}, said : Descriptions \cup {Absent}]
Nothing == [value |-> Absent, said |-> Absent]

ViewInit ==
    /\ store = Default
    /\ view = Nothing
    /\ viewUUID = Absent
    /\ storage = [u \in Ids |-> Nothing]
    /\ sends = <<>>
    /\ connected = FALSE
    /\ context = Nothing
    /\ described = Absent
    /\ stale = FALSE
    /\ lost = FALSE

-----------------------------------------------------------------------------
\* persistToLocalStorage() with the id u, if the view has one by now.
Persist(u, s) ==
    storage' = IF u = Absent THEN storage ELSE [storage EXCEPT ![u] = s]

\* The store after its listener has seen the state s: the fields of s where it
\* has any.
Rehydrated(s) ==
    [s EXCEPT !.value = IF s.value = Absent THEN store ELSE s.value]

\* setViewState(s) for a store that is not at s: its listener sets the store,
\* which sets the view state again, persists it and sends it, and the outer
\* call goes on with s.
SetViewState(s) ==
    /\ Len(sends) < MaxSends
    /\ view' = Rehydrated(s)
    /\ store' = view'.value
    /\ Persist(viewUUID, s)
    /\ sends' = IF s.value = store THEN Append(sends, s)
                ELSE sends \o <<Rehydrated(s), s>>

\* Mutant: the description is not injected.
SetStoreBare ==
    /\ Len(sends) < MaxSends
    /\ \E v \in Values :
        /\ store' = v
        /\ view' = [value |-> v, said |-> Absent]
    /\ Persist(viewUUID, view')
    /\ sends' = Append(sends, view')
    /\ UNCHANGED <<viewUUID, connected, context, described, stale, lost>>

\* The application sets the store: injectViewContext() keeps the description.
SetStore ==
    /\ Len(sends) < MaxSends
    /\ \E v \in Values :
        /\ store' = v
        /\ view' = [value |-> v, said |-> view.said]
    /\ Persist(viewUUID, view')
    /\ sends' = Append(sends, view')
    /\ UNCHANGED <<viewUUID, connected, context, described, stale, lost>>

\* Mutant: the description replaces the state.
DescribeAlone ==
    /\ \E d \in Descriptions :
        /\ SetViewState([value |-> Absent, said |-> d])
        /\ described' = d
    /\ stale' = FALSE
    /\ UNCHANGED <<viewUUID, connected, context, lost>>

\* A DataLLM component is mounted, changed or removed.
Describe ==
    /\ \E d \in Descriptions :
        /\ SetViewState([view EXCEPT !.said = d])
        /\ described' = d
    /\ stale' = FALSE
    /\ UNCHANGED <<viewUUID, connected, context, lost>>

\* Mutant: the listeners are not told.
RestoreQuietly(u, s) ==
    /\ view' = s
    /\ UNCHANGED <<store, storage, sends>>

\* restoreFromLocalStorage() finds s: the listeners are told, nothing is sent
\* but by the store, if it was not at s.
Restore(u, s) ==
    /\ Len(sends) < MaxSends
    /\ view' = Rehydrated(s)
    /\ store' = view'.value
    /\ IF s.value = store THEN UNCHANGED <<storage, sends>>
       ELSE Persist(u, view') /\ sends' = Append(sends, view')

\* A tool result brings the view's id, or another one.
ToolResult ==
    /\ \E u \in Ids \ {viewUUID} :
        /\ viewUUID' = u
        /\ IF storage[u] = Nothing
           THEN UNCHANGED <<store, view, storage, sends, stale>>
           ELSE Restore(u, storage[u]) /\ stale' = TRUE
    /\ UNCHANGED <<connected, context, described, lost>>

\* connect() ends, one way or the other.
Connect ==
    /\ connected' = TRUE
    /\ UNCHANGED <<store, view, viewUUID, storage, sends, context, described,
                   stale, lost>>

\* The host takes the next call, or it fails.
HostUpdates ==
    /\ connected /\ sends # <<>>
    /\ sends' = Tail(sends)
    /\ \/ context' = Head(sends) /\ lost' = FALSE
       \/ lost' = TRUE /\ UNCHANGED context
    /\ UNCHANGED <<store, view, viewUUID, storage, connected, described, stale>>

\* Other views have used the storage since: the entry goes.
Evicted ==
    /\ \E u \in Ids : storage' = [storage EXCEPT ![u] = Nothing]
    /\ UNCHANGED <<store, view, viewUUID, sends, connected, context, described,
                   stale, lost>>

\* The view is unmounted and loaded again.
Remount ==
    /\ store' = Default
    /\ view' = Nothing
    /\ viewUUID' = Absent
    /\ sends' = <<>>
    /\ connected' = FALSE
    /\ described' = Absent
    /\ stale' = FALSE
    /\ lost' = (lost \/ sends # <<>>)
    /\ UNCHANGED <<storage, context>>

ViewNext ==
    \/ SetStore
    \/ Describe
    \/ ToolResult
    \/ Connect
    \/ HostUpdates
    \/ Evicted
    \/ Remount

ViewSpec == ViewInit /\ [][ViewNext]_viewVars

-----------------------------------------------------------------------------
\* Type invariant of the view.
ViewTypeOK ==
    /\ store \in Values
    /\ view \in State /\ context \in State
    /\ viewUUID \in Ids \cup {Absent}
    /\ storage \in [Ids -> State]
    /\ sends \in Seq(State) /\ Len(sends) <= MaxSends + 1
    /\ connected \in BOOLEAN /\ stale \in BOOLEAN /\ lost \in BOOLEAN
    /\ described \in Descriptions \cup {Absent}

\* The state s says what the view's does; the fields a fresh store starts with
\* may be left out.
Tells(s) ==
    /\ s.said = view.said
    /\ s.value = view.value \/ (s.value = Absent /\ view.value = Default)

\* The store, the view's state, its entry in local storage and the model's
\* context agree after every event, however the calls were nested: the store is
\* at the state; the state says what the components say unless it was restored
\* since; the entry tells the state; and so does what the host was told last, once
\* all calls have arrived, unless the state was restored since.
ViewAgrees ==
    /\ view # Nothing => view.value = store
    /\ stale \/ view.said = described
    /\ viewUUID # Absent /\ storage[viewUUID] # Nothing =>
        Tells(storage[viewUUID])
    /\ sends = <<>> /\ ~lost /\ ~stale /\ view # Nothing =>
        Tells(context)
=============================================================================
