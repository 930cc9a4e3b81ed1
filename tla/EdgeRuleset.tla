---------------------------- MODULE EdgeRuleset -----------------------------
(***************************************************************************)
(* The ruleset client of an edge deployment (ruleset/edge-client.ts) in    *)
(* several isolates that share a cache (ruleset/edge-cache.ts).  An        *)
(* isolate is started and recycled at the platform's will, warms itself    *)
(* once from the cache, and refreshes in the background of its requests.   *)
(*                                                                         *)
(* A copy of the ruleset is when the network gave it and how long it may   *)
(* be used; what it says is left out.  The cache is a store that other     *)
(* isolates write too, and that may answer with an older entry, or none.   *)
(***************************************************************************)
EXTENDS Naturals

CONSTANTS
    Isolates,
    Ages,       \* max-age of an answer, or what stands for a missing one
    MinTtl,     \* MIN_TTL_MS
    RetryFloor, \* LIVE_RETRY_MS
    LastMoment, \* bound: the clock's last value
    NoCopy

ASSUME EdgeAssumption ==
    /\ Ages \subseteq Nat /\ Ages # {}
    /\ MinTtl \in Nat \ {0} /\ RetryFloor \in Nat /\ LastMoment \in Nat
    /\ NoCopy \notin [at : Nat, age : Nat, born : Nat]

VARIABLES
    now,      \* the isolates' clock
    enabled,  \* agent.ruleset.enabled
    held,     \* held[i]: the copy the isolate i classifies with
    next,     \* nextAllowedAt
    warmed,
    inflight, \* the step of the background tick
    failed,   \* history: failed[i]: the retry floor of its last failed fetch
    kv        \* the entries the shared cache may answer with

edgeVars == <<now, enabled, held, next, warmed, inflight, failed, kv>>

\* born is the history of a copy: when the network gave it.
Copy == [at : Nat, age : Ages, born : Nat]

EdgeInit ==
    /\ now = 0
    /\ enabled \in BOOLEAN
    /\ held = [i \in Isolates |-> NoCopy]
    /\ next = [i \in Isolates |-> 0]
    /\ warmed = [i \in Isolates |-> FALSE]
    /\ inflight = [i \in Isolates |-> "none"]
    /\ failed = [i \in Isolates |-> 0]
    /\ kv = {}

-----------------------------------------------------------------------------
EffectiveTtl(age) == IF age >= MinTtl THEN age ELSE MinTtl

\* The tick goes on to the network if it may and what is held is stale, or
\* nothing is; nxt and h are what holds by then.
Refresh(i, h, nxt) ==
    inflight' = [inflight EXCEPT ![i] =
                   IF enabled /\ (h = NoCopy \/ now >= nxt) THEN "fetching"
                   ELSE "none"]

\* refreshInBackground(), unless a tick is under way: the first one of an
\* isolate reads the cache.
Tick(i) ==
    /\ inflight[i] = "none"
    /\ \/ /\ ~warmed[i]
          /\ warmed' = [warmed EXCEPT ![i] = TRUE]
          /\ inflight' = [inflight EXCEPT ![i] = "loading"]
       \/ /\ warmed[i]
          /\ Refresh(i, held[i], next[i])
          /\ UNCHANGED warmed
    /\ UNCHANGED <<now, enabled, held, next, failed, kv>>

\* Mutant: the copy of the cache is good for another time to live.
WarmAnew(i, e) ==
    /\ held' = [held EXCEPT ![i] = e]
    /\ next' = [next EXCEPT ![i] = now + EffectiveTtl(e.age)]
    /\ Refresh(i, e, now + EffectiveTtl(e.age))

\* The cache's entry is adopted, as old as it is.
Warm(i, e) ==
    /\ held' = [held EXCEPT ![i] = e]
    /\ next' = [next EXCEPT ![i] = e.at + EffectiveTtl(e.age)]
    /\ Refresh(i, e, e.at + EffectiveTtl(e.age))

\* The cache answers with an entry.
LoadHit(i) ==
    /\ inflight[i] = "loading" /\ held[i] = NoCopy
    /\ \E e \in kv : Warm(i, e)
    /\ UNCHANGED <<now, enabled, warmed, failed, kv>>

\* It has none, cannot be read, or has one that does not validate.
LoadMiss(i) ==
    /\ inflight[i] = "loading"
    /\ Refresh(i, held[i], next[i])
    /\ UNCHANGED <<now, enabled, held, next, warmed, failed, kv>>

\* doFetch(): a valid answer is activated, and handed to the cache.
FetchAnswers(i) ==
    /\ inflight[i] = "fetching"
    /\ \E age \in Ages :
        /\ held' = [held EXCEPT ![i] = [at |-> now, age |-> age, born |-> now]]
        /\ next' = [next EXCEPT ![i] = now + EffectiveTtl(age)]
    /\ inflight' = [inflight EXCEPT ![i] = "saving"]
    /\ UNCHANGED <<now, enabled, warmed, failed, kv>>

\* An error, the timeout or an invalid body: what is held stays, and the next
\* try waits for the floor.
FetchFails(i) ==
    /\ inflight[i] = "fetching"
    /\ next' = [next EXCEPT ![i] = now + RetryFloor]
    /\ failed' = [failed EXCEPT ![i] = now + RetryFloor]
    /\ inflight' = [inflight EXCEPT ![i] = "none"]
    /\ UNCHANGED <<now, enabled, held, warmed, kv>>

\* The entry reaches the cache, or the cache refuses it.
SaveEnds(i) ==
    /\ inflight[i] = "saving"
    /\ kv' \in {kv, kv \cup {held[i]}}
    /\ inflight' = [inflight EXCEPT ![i] = "none"]
    /\ UNCHANGED <<now, enabled, held, next, warmed, failed>>

\* The platform recycles an isolate, whatever it was about.
Recycle(i) ==
    /\ held' = [held EXCEPT ![i] = NoCopy]
    /\ next' = [next EXCEPT ![i] = 0]
    /\ warmed' = [warmed EXCEPT ![i] = FALSE]
    /\ inflight' = [inflight EXCEPT ![i] = "none"]
    /\ failed' = [failed EXCEPT ![i] = 0]
    /\ UNCHANGED <<now, enabled, kv>>

\* Time passes.
Pass ==
    /\ now < LastMoment
    /\ now' = now + 1
    /\ UNCHANGED <<enabled, held, next, warmed, inflight, failed, kv>>

EdgeNext ==
    \/ Pass
    \/ \E i \in Isolates :
        \/ Tick(i)
        \/ LoadHit(i)
        \/ LoadMiss(i)
        \/ FetchAnswers(i)
        \/ FetchFails(i)
        \/ SaveEnds(i)
        \/ Recycle(i)

EdgeSpec == EdgeInit /\ [][EdgeNext]_edgeVars

-----------------------------------------------------------------------------
\* Type invariant of the isolates and their cache.
EdgeTypeOK ==
    /\ now \in Nat /\ enabled \in BOOLEAN
    /\ held \in [Isolates -> Copy \cup {NoCopy}]
    /\ next \in [Isolates -> Nat]
    /\ warmed \in [Isolates -> BOOLEAN]
    /\ inflight \in [Isolates -> {"none", "loading", "fetching", "saving"}]
    /\ failed \in [Isolates -> Nat]
    /\ kv \subseteq Copy

\* An isolate that sees no need to refresh holds a copy the network gave, to it
\* or to another isolate, within the time to live of that copy, or has failed
\* to fetch within the retry floor: passing a copy on through the cache, from
\* isolate to isolate, does not make it younger.
NotOlderThanTtl ==
    \A i \in Isolates :
        held[i] # NoCopy /\ now < next[i] =>
            \/ now < held[i].born + EffectiveTtl(held[i].age)
            \/ now < failed[i]
=============================================================================
