---------------------------- MODULE RulesetClient ----------------------------
(***************************************************************************)
(* The stale-while-revalidate client of the detection ruleset              *)
(* (server/agent/ruleset/client.ts), the process-wide slot bootstrap.ts    *)
(* keeps it in, the ruleset holder the classifier reads (holder.ts) and    *)
(* the cache file on disk (disk-cache.ts).                                 *)
(*                                                                         *)
(* A client has two awaits that overlap: start() awaits the cache file,    *)
(* doFetch() awaits the network and then the write of the cache file.  In  *)
(* between, requests nudge it, the configuration is edited and bootstrap   *)
(* may replace it.  A ruleset is its version: remote versions are numbered *)
(* in the order the publisher released them.  Time is abstract: a client   *)
(* is waiting while now < nextAllowedAt, and how long that lasts (TTL,     *)
(* Cache-Control, dev or live back-off, each at least a second) is open.   *)
(***************************************************************************)
EXTENDS Naturals

CONSTANTS
    Clients,     \* clients one process may construct
    MaxVersion,  \* bound: remote releases
    Packaged,    \* the version the instance ships itself
    None         \* null

ASSUME RulesetAssumption ==
    /\ MaxVersion \in Nat
    /\ Packaged \notin Nat
    /\ None \notin Nat \cup Clients
    /\ Packaged # None

VARIABLES
    enabled,    \* cfg.enabled: agent.ruleset.enabled
    remote,     \* cfg.url is not empty
    published,  \* external: the newest release, 0 before the first
    disk,       \* the cache file: a version, and who of this process saved it
    client,     \* bootstrap.ts: the process-wide client
    holder,     \* holder.ts: the ruleset the classifier reads
    phase,      \* phase[c]: where c's start() is
    stopped,    \* this.stopped
    current,    \* this.current
    waiting,    \* now < this.nextAllowedAt
    loaded,     \* what the awaited cache read has found
    fetch,      \* where doFetch() is; this.inflight is null when "none"
    artifact,   \* the oldest version the awaited answer may have, then the
                \* version being saved
    fresh,      \* history: the last fetched ruleset is within its TTL
    raced       \* history: a request nudged c while its start() awaited the
                \* cache file

configVars == <<enabled, remote, published>>
clientVars == <<phase, stopped, current, waiting, loaded, fetch, artifact,
                fresh, raced>>
vars == <<configVars, disk, client, holder, clientVars>>

Remote == 1..MaxVersion
Versions == Remote \cup {Packaged}
Entries == [version : Remote, by : Clients \cup {None}]

-----------------------------------------------------------------------------
Each(x) == [c \in Clients |-> x]

Init ==
    /\ enabled \in BOOLEAN
    /\ remote \in BOOLEAN
    /\ published = 0
    /\ disk = None
    /\ client = None
    /\ holder = None
    /\ phase = Each("absent")
    /\ stopped = Each(FALSE)
    /\ current = Each(None)
    /\ waiting = Each(FALSE)
    /\ loaded = Each(None)
    /\ fetch = Each("none")
    /\ artifact = Each(0)
    /\ fresh = Each(FALSE)
    /\ raced = Each(FALSE)

\* Mutant: onActivate fires on the first load only.
ActivateFirst(c, rs) ==
    /\ current' = [current EXCEPT ![c] = rs]
    /\ holder' = IF current[c] = None THEN rs ELSE holder

\* activate(): the holder follows only when the held version changes.
Activate(c, rs) ==
    /\ current' = [current EXCEPT ![c] = rs]
    /\ holder' = IF current[c] # rs THEN rs ELSE holder

\* Mutant: the self mode does not load anything once something is held.
MaybeRefreshKeeps(c, rs, wait) ==
    LET due == ~stopped[c] /\ enabled /\ fetch[c] = "none" /\ ~wait
    IN  \/ /\ due => ~remote /\ rs # None
           /\ Activate(c, rs)
           /\ waiting' = [waiting EXCEPT ![c] = wait]
           /\ UNCHANGED <<fetch, artifact>>
        \/ /\ due /\ remote
           /\ Activate(c, rs)
           /\ waiting' = [waiting EXCEPT ![c] = FALSE]
           /\ fetch' = [fetch EXCEPT ![c] = "asked"]
           /\ artifact' = [artifact EXCEPT ![c] = published]
        \/ /\ due /\ ~remote /\ rs = None
           /\ Activate(c, Packaged)
           /\ waiting' = [waiting EXCEPT ![c] = TRUE]
           /\ UNCHANGED <<fetch, artifact>>

\* maybeRefresh() of a started client that holds rs: nothing to do, or a
\* background fetch, or in self mode the packaged ruleset at once.  The
\* packaged provider of bootstrap.ts neither is absent nor throws.
MaybeRefresh(c, rs, wait) ==
    LET due == ~stopped[c] /\ enabled /\ fetch[c] = "none" /\ ~wait
    IN  \/ /\ ~due
           /\ Activate(c, rs)
           /\ waiting' = [waiting EXCEPT ![c] = wait]
           /\ UNCHANGED <<fetch, artifact>>
        \/ /\ due /\ remote
           /\ Activate(c, rs)
           /\ waiting' = [waiting EXCEPT ![c] = FALSE]
           /\ fetch' = [fetch EXCEPT ![c] = "asked"]
           /\ artifact' = [artifact EXCEPT ![c] = published]
        \/ /\ due /\ ~remote
           /\ Activate(c, Packaged)
           /\ waiting' = [waiting EXCEPT ![c] = TRUE]
           /\ UNCHANGED <<fetch, artifact>>

\* start(), up to the await of the cache file; in self mode to its end.
Start(c) ==
    \/ /\ remote
       /\ phase' = [phase EXCEPT ![c] = "loading"]
       /\ UNCHANGED <<holder, current, waiting, fetch, artifact>>
    \/ /\ ~remote
       /\ phase' = [phase EXCEPT ![c] = "up"]
       /\ MaybeRefresh(c, current[c], waiting[c])

\* The file is read: a version, or null when it is absent or unreadable.
CacheRead(c) ==
    /\ phase[c] = "loading"
    /\ phase' = [phase EXCEPT ![c] = "read"]
    /\ loaded' = [loaded EXCEPT ![c] = disk]
    /\ UNCHANGED <<configVars, disk, client, holder, stopped, current, waiting,
                   fetch, artifact, fresh, raced>>

\* Whether the TTL of the entry c loaded lies ahead: it counts from when the
\* entry was fetched, so a fetch of c's own is as fresh as c knows it to be.
TtlAhead(c) == IF loaded[c].by = c /\ fresh[c] THEN {TRUE} ELSE BOOLEAN

\* Mutant: no stopped test after the await.
CacheLoadedLate(c) ==
    /\ phase[c] = "read"
    /\ phase' = [phase EXCEPT ![c] = "up"]
    /\ loaded' = [loaded EXCEPT ![c] = None]
    /\ IF loaded[c] # None
       THEN \E wait \in TtlAhead(c) : MaybeRefresh(c, loaded[c].version, wait)
       ELSE MaybeRefresh(c, current[c], waiting[c])
    /\ UNCHANGED <<configVars, disk, client, stopped, fresh, raced>>

\* The rest of start(): activate a valid entry, and refresh.
CacheLoaded(c) ==
    /\ phase[c] = "read"
    /\ phase' = [phase EXCEPT ![c] = "up"]
    /\ loaded' = [loaded EXCEPT ![c] = None]
    /\ \/ /\ loaded[c] # None /\ ~stopped[c]
          /\ \E wait \in TtlAhead(c) : MaybeRefresh(c, loaded[c].version, wait)
       \/ MaybeRefresh(c, current[c], waiting[c])
    /\ UNCHANGED <<configVars, disk, client, stopped, fresh, raced>>

\* Mutant: start() has no started test and warms from the cache again.
NudgeRestarts ==
    /\ client # None
    /\ enabled
    /\ phase[client] \in {"idle", "up"}
    /\ Start(client)
    /\ UNCHANGED <<configVars, disk, client, stopped, loaded, fresh, raced>>

\* maybeRefreshRuleset(): a captured request has finished.
Nudge ==
    /\ client # None
    /\ enabled
    /\ IF phase[client] = "idle"
       THEN Start(client)
       ELSE /\ MaybeRefresh(client, current[client], waiting[client])
            /\ UNCHANGED phase
    /\ raced' = [raced EXCEPT ![client] =
                    @ \/ phase[client] \in {"loading", "read"}]
    /\ UNCHANGED <<configVars, disk, client, stopped, loaded, fresh>>

\* The answer is complete and valid.  A stopped client drops it.
FetchSucceeds(c) ==
    /\ fetch[c] = "asked"
    /\ \E v \in Remote :
        /\ artifact[c] <= v /\ v <= published
        /\ IF stopped[c]
           THEN /\ fetch' = [fetch EXCEPT ![c] = "none"]
                /\ UNCHANGED <<holder, current, waiting, artifact, fresh>>
           ELSE /\ Activate(c, v)
                /\ waiting' = [waiting EXCEPT ![c] = TRUE]
                /\ fresh' = [fresh EXCEPT ![c] = TRUE]
                /\ fetch' = [fetch EXCEPT ![c] = "saving"]
                /\ artifact' = [artifact EXCEPT ![c] = v]
    /\ UNCHANGED <<configVars, disk, client, phase, stopped, loaded, raced>>

\* Mutant: the single-flight guard is not cleared when a fetch fails.
FetchFailsHeld(c) ==
    /\ fetch[c] = "asked"
    /\ fetch' = [fetch EXCEPT ![c] = "failed"]
    /\ waiting' = [waiting EXCEPT ![c] = TRUE]
    /\ UNCHANGED <<configVars, disk, client, holder, phase, stopped, current,
                   loaded, artifact, fresh, raced>>

\* An HTTP error, a timeout (the request is aborted after cfg.timeoutMs), or
\* a body that does not validate: keep what is held, back off.
FetchFails(c) ==
    /\ fetch[c] = "asked"
    /\ fetch' = [fetch EXCEPT ![c] = "none"]
    /\ waiting' = [waiting EXCEPT ![c] = TRUE]
    /\ UNCHANGED <<configVars, disk, client, holder, phase, stopped, current,
                   loaded, artifact, fresh, raced>>

\* The write of the cache file is done, or has failed.
Saved(c) ==
    /\ fetch[c] = "saving"
    /\ fetch' = [fetch EXCEPT ![c] = "none"]
    /\ disk' \in {disk, [version |-> artifact[c], by |-> c]}
    /\ UNCHANGED <<configVars, client, holder, phase, stopped, current, waiting,
                   loaded, artifact, fresh, raced>>

\* nextAllowedAt, and the TTL of what was fetched, are past.
TimePasses(c) ==
    /\ waiting[c] \/ fresh[c]
    /\ waiting' = [waiting EXCEPT ![c] = FALSE]
    /\ fresh' = [fresh EXCEPT ![c] = FALSE]
    /\ UNCHANGED <<configVars, disk, client, holder, phase, stopped, current,
                   loaded, fetch, artifact, raced>>

-----------------------------------------------------------------------------
\* The stopped flags once the process-wide client, if any, has been stopped.
StoppedClient == [c \in Clients |-> stopped[c] \/ c = client]

\* bootstrapRulesetClient(): the prior client is stopped and replaced.  The
\* new one starts now if the ruleset is enabled and the agent surface is on.
Bootstrap(c) ==
    /\ phase[c] = "absent"
    /\ client' = c
    /\ stopped' = StoppedClient
    /\ \/ enabled /\ Start(c)
       \/ /\ phase' = [phase EXCEPT ![c] = "idle"]
          /\ UNCHANGED <<holder, current, waiting, fetch, artifact>>
    /\ UNCHANGED <<configVars, disk, loaded, fresh, raced>>

\* stopRulesetClient()
StopClient ==
    /\ client # None
    /\ client' = None
    /\ stopped' = StoppedClient
    /\ UNCHANGED <<configVars, disk, holder, phase, current, waiting, loaded,
                   fetch, artifact, fresh, raced>>

\* The process ends, at any point, and another one starts.
Restart ==
    /\ client' = None
    /\ holder' = None
    /\ phase' = Each("absent")
    /\ stopped' = Each(FALSE)
    /\ current' = Each(None)
    /\ waiting' = Each(FALSE)
    /\ loaded' = Each(None)
    /\ fetch' = Each("none")
    /\ artifact' = Each(0)
    /\ fresh' = Each(FALSE)
    /\ raced' = Each(FALSE)
    /\ disk' = IF disk = None THEN None ELSE [disk EXCEPT !.by = None]
    /\ UNCHANGED configVars

\* An operator edits agent.ruleset.* and the gate is re-resolved.
EditConfig ==
    /\ enabled' \in BOOLEAN
    /\ remote' \in BOOLEAN
    /\ UNCHANGED <<published, disk, client, holder, clientVars>>

\* External: the publisher releases a version.
Publish ==
    /\ published < MaxVersion
    /\ published' = published + 1
    /\ UNCHANGED <<enabled, remote, disk, client, holder, clientVars>>

Next ==
    \/ Nudge
    \/ StopClient
    \/ Restart
    \/ EditConfig
    \/ Publish
    \/ \E c \in Clients :
        \/ Bootstrap(c)
        \/ CacheRead(c)
        \/ CacheLoaded(c)
        \/ FetchSucceeds(c)
        \/ FetchFails(c)
        \/ Saved(c)
        \/ TimePasses(c)

SafeSpec == Init /\ [][Next]_vars

\* What the client relies on: file reads and writes settle, a fetch settles
\* within its timeout, and the clock advances.
Spec ==
    /\ SafeSpec
    /\ \A c \in Clients :
        /\ WF_vars(CacheRead(c))
        /\ WF_vars(CacheLoaded(c))
        /\ WF_vars(FetchSucceeds(c) \/ FetchFails(c))
        /\ WF_vars(Saved(c))
        /\ WF_vars(TimePasses(c))

\* ... with requests that keep arriving and a publisher that answers often
\* enough: without the first the client rightly does nothing, and without the
\* second it has nothing new to serve.
TrafficSpec ==
    /\ Spec
    /\ WF_vars(Nudge)
    /\ \A c \in Clients : SF_vars(FetchSucceeds(c))

-----------------------------------------------------------------------------
\* Type invariant of the clients, the slot, the holder and the cache file.
TypeOK ==
    /\ enabled \in BOOLEAN
    /\ remote \in BOOLEAN
    /\ published \in 0..MaxVersion
    /\ disk \in Entries \cup {None}
    /\ client \in Clients \cup {None}
    /\ holder \in Versions \cup {None}
    /\ phase \in [Clients -> {"absent", "idle", "loading", "read", "up"}]
    /\ stopped \in [Clients -> BOOLEAN]
    /\ current \in [Clients -> Versions \cup {None}]
    /\ waiting \in [Clients -> BOOLEAN]
    /\ loaded \in [Clients -> Entries \cup {None}]
    /\ fetch \in [Clients -> {"none", "asked", "saving"}]
    /\ artifact \in [Clients -> 0..MaxVersion]
    /\ fresh \in [Clients -> BOOLEAN]
    /\ raced \in [Clients -> BOOLEAN]

\* The version the dashboard reports (the live client's) is the one requests
\* are classified with (the holder's), although the holder is written only on
\* a version change and an abandoned client may have a load or a fetch under
\* way.
HolderIsLive ==
    client # None /\ current[client] # None => holder = current[client]

\* stop() is final: whatever a stopped client was awaiting, it activates
\* nothing and asks the network for nothing more.
StoppedIsInert ==
    [][\A c \in Clients : stopped[c] /\ stopped'[c] =>
          /\ current'[c] = current[c]
          /\ fetch'[c] = "asked" => fetch[c] = "asked"]_vars

\* A client that no request nudged during the cache read of its start() never
\* goes back to an older remote version, through config edits, failed fetches,
\* slow answers and the cache file.
NeverRollsBack ==
    [][\A c \in Clients :
          current[c] \in Remote /\ current'[c] \in Remote /\ ~raced[c]
              => current[c] <= current'[c]]_vars

\* client.test.ts:199 "does not refetch while still within TTL (a nudge is a
\* no-op)": no fetch starts while the last fetched ruleset is fresh.
RefetchesOnlyStale ==
    [][\A c \in Clients :
          fetch[c] = "none" /\ fetch'[c] = "asked" => ~fresh[c]]_vars

\* A ruleset URL that stays configured is followed: the classifier ends up
\* with the newest release, whatever failed on the way.
FollowsRemote ==
    <>[](client # None /\ enabled /\ remote /\ published > 0)
        => <>[](holder = published)

\* Clearing the URL takes effect: the classifier ends up with the packaged
\* ruleset, though a remote answer may land after the edit.
FollowsSelf ==
    <>[](client # None /\ enabled /\ ~remote) => <>[](holder = Packaged)

\* The classifier ends up where the settings that stay say: at the newest
\* release, or at the packaged ruleset.
Follows == FollowsRemote /\ FollowsSelf
=============================================================================
