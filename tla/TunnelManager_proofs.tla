------------------------ MODULE TunnelManager_proofs ------------------------
(***************************************************************************)
(* Proofs about TunnelManager, for every number of child slots.            *)
(*                                                                         *)
(* With a synchronous ensure() (the srv.us provider) no start, stop, drop, *)
(* timeout or late output of a killed child, in any order, leaves a        *)
(* process or a timer behind.  With an asynchronous one a process is still *)
(* only started while the tunnel is wanted.  With a synchronous one the    *)
(* manager implements TunnelStatus, what others take it for.               *)
(***************************************************************************)
EXTENDS TunnelManager, TLAPS

(***************************************************************************)
(* The inductive invariant.  OnlyAttachedRuns alone is not inductive: a    *)
(* start() from "idle" or "error" would orphan an attached child, and a    *)
(* reconnect timer one attached meanwhile; a connect timer must be known   *)
(* to be its own child's for its kill to be of the child it detaches.      *)
(***************************************************************************)
AttachedRuns ==
    child # None => proc[child] = "running" /\ wantUp /\ retries = {}

QuietWhenDown ==
    state.status \in {"idle", "error"} => child = None /\ retries = {}

IInv ==
    /\ ~ensureAwaits
    /\ TypeOK
    /\ ensuring = 0
    /\ OnlyAttachedRuns
    /\ DownIsFinal
    /\ TimersOwned
    /\ AttachedRuns
    /\ QuietWhenDown

USE TunnelAssumption DEF setting

\* The manager starts well typed.
LEMMA InitTyped == Init => TypeOK
<1> SUFFICES ASSUME Init PROVE TypeOK
  OBVIOUS
<1>1. state = [status |-> "idle", url |-> None]
  BY DEF Init, Show
<1>2. state \in [status : Statuses, url : Children \cup {None}]
  BY <1>1 DEF Statuses
<1>3. proc \in [Children -> {"none", "running", "killed"}]
  BY DEF Init
<1> QED  BY <1>2, <1>3 DEF Init, TypeOK

\* Nothing runs at the start.
LEMMA InitIInv == Init /\ ~ensureAwaits => IInv
<1> SUFFICES ASSUME Init, ~ensureAwaits PROVE IInv
  OBVIOUS
<1>1. OnlyAttachedRuns /\ DownIsFinal
  BY DEF Init, OnlyAttachedRuns, DownIsFinal
<1>2. TimersOwned /\ AttachedRuns /\ QuietWhenDown
  BY DEF Init, TimersOwned, AttachedRuns, QuietWhenDown
<1> QED  BY <1>1, <1>2, InitTyped DEF IInv, Init

\* Spawning is harmless when nothing is attached and no timer pends.
LEMMA LaunchSafe ==
    ASSUME TypeOK, ~ensureAwaits, UNCHANGED setting, OnlyAttachedRuns, TimersOwned, child = None,
           NEW st \in [status : {"starting", "reconnecting"}, url : {None}],
           Launch(st), wantUp', retries' = {}, UNCHANGED reconnectTimer \/ reconnectTimer' = None
    PROVE  /\ state' \in [status : Statuses, url : Children \cup {None}]
           /\ child' \in Children \cup {None}
           /\ proc' \in [Children -> {"none", "running", "killed"}]
           /\ timers' \subseteq Children
           /\ timeout' \in Children \cup {None}
           /\ OnlyAttachedRuns' /\ TimersOwned' /\ AttachedRuns'
           /\ QuietWhenDown'
<1>1. CASE \E c \in Free :
              /\ child' = c
              /\ proc' = [proc EXCEPT ![c] = "running"]
              /\ timers' = timers \cup {c}
              /\ timeout' = c
              /\ state' = st
  <2>1. PICK c \in Free :
              /\ child' = c
              /\ proc' = [proc EXCEPT ![c] = "running"]
              /\ timers' = timers \cup {c}
              /\ timeout' = c
              /\ state' = st
    BY <1>1
  <2>2. c \in Children /\ c # None
    BY DEF Free
  <2>3. timers = {}
    BY DEF TimersOwned, TypeOK
  <2>4. st \in [status : Statuses, url : Children \cup {None}]
        /\ st.status \notin {"idle", "error"}
    BY DEF Statuses
  <2>5. OnlyAttachedRuns' /\ AttachedRuns'
    BY <2>1, <2>2 DEF OnlyAttachedRuns, AttachedRuns, TypeOK
  <2>6. TimersOwned'
    BY <2>1, <2>3 DEF TimersOwned
  <2>7. QuietWhenDown'
    BY <2>1, <2>4 DEF QuietWhenDown
  <2> QED  BY <2>1, <2>2, <2>3, <2>4, <2>5, <2>6, <2>7 DEF TypeOK
<1>2. CASE state' = Show("error") /\ UNCHANGED processVars
  BY <1>2 DEF processVars, Show, Statuses, TypeOK, OnlyAttachedRuns,
     TimersOwned, AttachedRuns, QuietWhenDown
<1> QED  BY <1>1, <1>2 DEF Launch

\* With nothing to await, spawnChild is a launch.
LEMMA SpawnSafe ==
    ASSUME IInv, child = None, wantUp', retries' = {},
           UNCHANGED reconnectTimer \/ reconnectTimer' = None,
           NEW status \in {"starting", "reconnecting"}, SpawnChild(status), UNCHANGED setting
    PROVE  IInv'
<1>1. /\ Launch(Show(status))
      /\ connected' = FALSE /\ ensured' = ensured /\ ensuring' = ensuring
  BY DEF SpawnChild, IInv
<1>2. Show(status) \in [status : {"starting", "reconnecting"}, url : {None}]
  BY DEF Show
<1>3. /\ state' \in [status : Statuses, url : Children \cup {None}]
      /\ child' \in Children \cup {None}
      /\ proc' \in [Children -> {"none", "running", "killed"}]
      /\ timers' \subseteq Children
      /\ timeout' \in Children \cup {None}
      /\ OnlyAttachedRuns' /\ TimersOwned' /\ AttachedRuns'
      /\ QuietWhenDown'
  BY <1>1, <1>2, LaunchSafe DEF IInv
<1>4. wantUp' \in BOOLEAN
  OBVIOUS
<1> QED  BY <1>1, <1>3 DEF IInv, TypeOK, DownIsFinal

\* stop() kills the attached child and clears both timers.
LEMMA StopSafe == ASSUME IInv, Stop PROVE IInv'
<1>1. /\ state' = [status |-> "idle", url |-> None]
      /\ child' = None /\ wantUp' = FALSE
      /\ timers' = timers \ {timeout} /\ timeout' = None
      /\ retries' = retries \ {reconnectTimer} /\ reconnectTimer' = None
      /\ UNCHANGED <<setting, connected, ensured, ensuring>>
  BY DEF Stop, Show, TimersCleared, RetriesCleared
<1>2. timers' = {} /\ retries' = {}
  BY <1>1 DEF IInv, TimersOwned
<1>3. /\ proc' \in [Children -> {"none", "running", "killed"}]
      /\ \A c \in Children : proc'[c] # "running"
  <2>1. CASE child = None
    BY <2>1 DEF Stop, IInv, TypeOK, OnlyAttachedRuns
  <2>2. CASE child # None
    BY <2>2 DEF Stop, IInv, TypeOK, OnlyAttachedRuns
  <2> QED  BY <2>1, <2>2
<1>4. state' \in [status : Statuses, url : Children \cup {None}]
  BY <1>1 DEF Statuses
<1>5. TypeOK'
  BY <1>1, <1>2, <1>3, <1>4 DEF IInv, TypeOK
<1> QED  BY <1>1, <1>2, <1>3, <1>5 DEF IInv, OnlyAttachedRuns, DownIsFinal,
            TimersOwned, AttachedRuns, QuietWhenDown

\* A start from "idle" or "error" finds nothing attached.
LEMMA StartSafe == ASSUME IInv, Start PROVE IInv'
<1>1. child = None /\ retries = {}
  BY DEF Start, IInv, QuietWhenDown
<1>2. wantUp' /\ retries' = {} /\ UNCHANGED <<setting, reconnectTimer>>
      /\ SpawnChild("starting")
  BY <1>1 DEF Start
<1> QED  BY <1>1, <1>2, SpawnSafe

\* A reconnect timer fires only with nothing attached.
LEMMA RetrySafe ==
    ASSUME IInv, NEW c \in Children, Retry(c) PROVE IInv'
<1>1. child = None /\ wantUp /\ wantUp' = wantUp
  BY DEF Retry, IInv, AttachedRuns, DownIsFinal
<1>2. retries' = {} /\ reconnectTimer' = None
  BY DEF Retry, IInv, TimersOwned
<1>3. SpawnChild("reconnecting") /\ UNCHANGED setting
  BY <1>1 DEF Retry
<1> QED  BY <1>1, <1>2, <1>3, SpawnSafe

\* A URL clears a timer and attaches nothing.
LEMMA AnnounceSafe ==
    ASSUME IInv, NEW c \in Children, Announce(c) PROVE IInv'
<1>1. /\ state' = [status |-> "connected", url |-> c]
      /\ connected' = TRUE
      /\ timers' = timers \ {timeout} /\ timeout' = None
      /\ UNCHANGED <<setting, child, wantUp, ensured, ensuring, proc, retries,
                     reconnectTimer>>
  BY DEF Announce, Connected, TimersCleared
<1>2. timers' = {}
  BY <1>1 DEF IInv, TimersOwned
<1>3. state' \in [status : Statuses, url : Children \cup {None}]
  BY <1>1 DEF Statuses
<1>4. TypeOK'
  BY <1>1, <1>2, <1>3 DEF IInv, TypeOK
<1> QED  BY <1>1, <1>2, <1>4 DEF IInv, OnlyAttachedRuns, DownIsFinal,
            TimersOwned, AttachedRuns, QuietWhenDown

\* Progress changes the status only.
LEMMA ProgressSafe ==
    ASSUME IInv, NEW c \in Children, Progress(c) PROVE IInv'
<1>1. /\ state' = [status |-> "starting", url |-> None]
      /\ UNCHANGED <<setting, child, connected, wantUp, ensured, ensuring,
                     proc, timers, timeout, retries, reconnectTimer>>
  BY DEF Progress, Show
<1>2. state' \in [status : Statuses, url : Children \cup {None}]
  BY <1>1 DEF Statuses
<1>3. TypeOK'
  BY <1>1, <1>2 DEF IInv, TypeOK
<1> QED  BY <1>1, <1>3 DEF IInv, OnlyAttachedRuns, DownIsFinal,
            TimersOwned, AttachedRuns, QuietWhenDown

\* The end of the attached child detaches it; of another, nothing.
LEMMA ChildEndsSafe ==
    ASSUME IInv, NEW c \in Children, ChildEnds(c) PROVE IInv'
<1>1. /\ proc' = [proc EXCEPT ![c] = "none"]
      /\ UNCHANGED <<setting, connected, wantUp, ensured, ensuring>>
  BY DEF ChildEnds
<1>2. proc' \in [Children -> {"none", "running", "killed"}]
  BY <1>1 DEF IInv, TypeOK
<1>3. \A d \in Children : proc'[d] = "running" => proc[d] = "running" /\ d # c
  BY <1>1 DEF IInv, TypeOK
<1>4. CASE c # child
  <2>1. UNCHANGED <<state, child, timers, timeout, retries, reconnectTimer>>
    BY <1>4 DEF ChildEnds
  <2>2. child # None => proc'[child] = "running"
    BY <1>1, <1>4 DEF IInv, TypeOK, AttachedRuns
  <2>3. TypeOK'
    BY <1>1, <1>2, <2>1 DEF IInv, TypeOK
  <2>4. OnlyAttachedRuns' /\ DownIsFinal'
    BY <1>1, <1>3, <2>1 DEF IInv, OnlyAttachedRuns, DownIsFinal
  <2>5. TimersOwned' /\ AttachedRuns' /\ QuietWhenDown'
    BY <1>1, <2>1, <2>2 DEF IInv, TimersOwned, AttachedRuns, QuietWhenDown
  <2> QED  BY <1>1, <2>3, <2>4, <2>5 DEF IInv
<1>5. CASE c = child
  <2>1. /\ timers' = timers \ {timeout} /\ timeout' = None /\ child' = None
        /\ state' = [status |-> "reconnecting", url |-> None]
        /\ retries' = retries \cup {c} /\ reconnectTimer' = c
    BY <1>5, TunnelAssumption
       DEF ChildEnds, TimersCleared, Show, IInv, AttachedRuns
  <2>2. wantUp /\ retries = {} /\ timers' = {} /\ retries' = {c}
    BY <1>5, <2>1, TunnelAssumption DEF IInv, AttachedRuns, TimersOwned
  <2>3. state' \in [status : Statuses, url : Children \cup {None}]
    BY <2>1 DEF Statuses
  <2>4. TypeOK'
    BY <1>1, <1>2, <2>1, <2>2, <2>3 DEF IInv, TypeOK
  <2>5. \A d \in Children : proc'[d] # "running"
    BY <1>3, <1>5 DEF IInv, OnlyAttachedRuns
  <2> QED  BY <1>1, <2>1, <2>2, <2>4, <2>5 DEF IInv, OnlyAttachedRuns,
              DownIsFinal, TimersOwned, AttachedRuns, QuietWhenDown
<1> QED  BY <1>4, <1>5

\* A connect timer that fires is the attached child's.
LEMMA ConnectTimeoutSafe ==
    ASSUME IInv, NEW c \in Children, ConnectTimeout(c) PROVE IInv'
<1>1. /\ timers' = {} /\ c = child /\ wantUp /\ retries = {}
      /\ proc[c] = "running"
      /\ UNCHANGED <<setting, connected, ensured, ensuring, timeout, retries,
                     reconnectTimer>>
  BY TunnelAssumption DEF ConnectTimeout, IInv, TimersOwned, AttachedRuns
<1>2. CASE connected
  <2>1. UNCHANGED <<state, child, wantUp, proc>>
    BY <1>2 DEF ConnectTimeout
  <2> QED  BY <1>1, <2>1 DEF IInv, TypeOK, OnlyAttachedRuns, DownIsFinal,
              TimersOwned, AttachedRuns, QuietWhenDown
<1>3. CASE ~connected
  <2>1. /\ state' = [status |-> "error", url |-> None]
        /\ child' = None /\ wantUp' = FALSE
        /\ proc' = [proc EXCEPT ![c] = "killed"]
    BY <1>1, <1>3 DEF ConnectTimeout, Show
  <2>2. state' \in [status : Statuses, url : Children \cup {None}]
    BY <2>1 DEF Statuses
  <2>3. /\ proc' \in [Children -> {"none", "running", "killed"}]
        /\ \A d \in Children : proc'[d] # "running"
    BY <1>1, <2>1 DEF IInv, TypeOK, OnlyAttachedRuns
  <2>4. TypeOK'
    BY <1>1, <2>1, <2>2, <2>3 DEF IInv, TypeOK
  <2> QED  BY <1>1, <2>1, <2>3, <2>4 DEF IInv, OnlyAttachedRuns, DownIsFinal,
              TimersOwned, AttachedRuns, QuietWhenDown
<1> QED  BY <1>2, <1>3

\* Every step keeps the invariant: one case for each action.
LEMMA NextIInv ==
    ASSUME IInv, [Next]_vars PROVE IInv'
<1>1. CASE Start                             BY <1>1, StartSafe
<1>2. CASE Stop                              BY <1>2, StopSafe
<1>3. CASE EnsureResolves \/ EnsureRejects
  BY <1>3 DEF EnsureResolves, EnsureRejects, IInv
<1>4. ASSUME NEW c \in Children, Announce(c) PROVE IInv'
  BY <1>4, AnnounceSafe
<1>5. ASSUME NEW c \in Children, Progress(c) PROVE IInv'
  BY <1>5, ProgressSafe
<1>6. ASSUME NEW c \in Children, ChildEnds(c) PROVE IInv'
  BY <1>6, ChildEndsSafe
<1>7. ASSUME NEW c \in Children, ConnectTimeout(c) PROVE IInv'
  BY <1>7, ConnectTimeoutSafe
<1>8. ASSUME NEW c \in Children, Retry(c) PROVE IInv'
  BY <1>8, RetrySafe
<1>9. CASE UNCHANGED vars
  <2>1. UNCHANGED <<setting, state, child, connected, wantUp, ensured, ensuring,
                    proc, timers, timeout, retries, reconnectTimer>>
    BY <1>9 DEF vars
  <2> QED  BY <2>1 DEF IInv, TypeOK, OnlyAttachedRuns, DownIsFinal,
              TimersOwned, AttachedRuns, QuietWhenDown
<1> QED  BY <1>1, <1>2, <1>3, <1>4, <1>5, <1>6, <1>7, <1>8, <1>9 DEF Next

\* The setting is chosen once.
LEMMA SettingKept == [Next]_vars => UNCHANGED setting
BY DEF Next, vars, Start, Stop, EnsureResolves, EnsureRejects, Announce,
   Progress, ChildEnds, ConnectTimeout, Retry

\* With a synchronous ensure() the invariant holds throughout.
THEOREM InvariantHolds == SafeSpec => [](ensureAwaits \/ IInv)
<1>1. Init => ensureAwaits \/ IInv
  BY InitIInv
<1>2. (ensureAwaits \/ IInv) /\ [Next]_vars => (ensureAwaits \/ IInv)'
  BY SettingKept, NextIInv
<1> QED  BY <1>1, <1>2, PTL DEF SafeSpec

-----------------------------------------------------------------------------
\* With a synchronous ensure() no process runs on that the manager has lost
\* sight of, whatever order starts, stops, drops, timeouts and late output of
\* killed children come in.
THEOREM NoOrphans == SafeSpec => []OnlyAttachedRuns
<1>1. ensureAwaits \/ IInv => OnlyAttachedRuns
  BY DEF IInv, OnlyAttachedRuns
<1> QED  BY InvariantHolds, <1>1, PTL

\* With a synchronous ensure() a stop() or a connect timeout is final: it
\* leaves no running process and no timer that could start one.
THEOREM DownStaysDown == SafeSpec => []DownIsFinal
<1>1. ensureAwaits \/ IInv => DownIsFinal
  BY DEF IInv, DownIsFinal
<1> QED  BY InvariantHolds, <1>1, PTL

\* With a synchronous ensure() every pending timer is the one its handle is
\* for, and a connect timer is the attached child's.
THEOREM TimersAreOwned == SafeSpec => []TimersOwned
<1>1. ensureAwaits \/ IInv => TimersOwned
  BY DEF IInv, TimersOwned
<1> QED  BY InvariantHolds, <1>1, PTL

\* With a synchronous ensure() stop() reaches every process and every timer.
THEOREM AllInHand == SafeSpec => []InHand
BY NoOrphans, TimersAreOwned, PTL DEF InHand

\* A launch keeps the types, whatever typed state it shows.
LEMMA LaunchTyped ==
    ASSUME TypeOK, NEW st \in [status : Statuses, url : Children \cup {None}],
           Launch(st)
    PROVE  /\ state' \in [status : Statuses, url : Children \cup {None}]
           /\ child' \in Children \cup {None}
           /\ proc' \in [Children -> {"none", "running", "killed"}]
           /\ timers' \subseteq Children
           /\ timeout' \in Children \cup {None}
<1>1. CASE state' = Show("error") /\ UNCHANGED processVars
  BY <1>1 DEF processVars, Show, Statuses, TypeOK
<1>2. CASE \E c \in Free :
              /\ child' = c
              /\ proc' = [proc EXCEPT ![c] = "running"]
              /\ timers' = timers \cup {c}
              /\ timeout' = c
              /\ state' = st
  BY <1>2 DEF Free, TypeOK
<1> QED  BY <1>1, <1>2 DEF Launch

\* A spawn keeps the types, whatever ensure() does.
LEMMA SpawnTyped ==
    ASSUME TypeOK, NEW status \in {"starting", "reconnecting"},
           SpawnChild(status), wantUp' \in BOOLEAN, UNCHANGED setting,
           retries' \subseteq Children, reconnectTimer' \in Children \cup {None}
    PROVE  TypeOK'
<1>1. Show(status) \in [status : Statuses, url : Children \cup {None}]
  BY DEF Show, Statuses
<1>2. CASE ensureAwaits /\ ~ensured
  <2>1. /\ connected' = FALSE /\ UNCHANGED ensured
        /\ ensuring' = ensuring + 1 /\ state' = Show(status)
        /\ UNCHANGED <<child, proc, timers, timeout>>
    BY <1>2 DEF SpawnChild, processVars
  <2>2. state' \in [status : Statuses, url : Children \cup {None}]
    BY <1>1, <2>1
  <2>3. ensuring' \in Nat
    BY <2>1 DEF TypeOK
  <2>4. connected' \in BOOLEAN
    BY <2>1
  <2>5. ensured' \in BOOLEAN
    BY <2>1 DEF TypeOK
  <2>6. ensureAwaits' \in BOOLEAN /\ lateOutput' \in BOOLEAN
    BY DEF TypeOK
  <2> QED  BY <2>1, <2>2, <2>3, <2>4, <2>5, <2>6 DEF TypeOK
<1>3. CASE ~(ensureAwaits /\ ~ensured)
  <2>1. Launch(Show(status)) /\ UNCHANGED ensuring
    BY <1>3 DEF SpawnChild
  <2> QED  BY <1>1, <2>1, LaunchTyped DEF SpawnChild, TypeOK
<1> QED  BY <1>2, <1>3

\* The manager's state keeps its types.
THEOREM TypesHold == SafeSpec => []TypeOK
<1>1. Init => TypeOK
  BY InitTyped
<1>2. TypeOK /\ [Next]_vars => TypeOK'
  <2> SUFFICES ASSUME TypeOK, [Next]_vars PROVE TypeOK'
    OBVIOUS
  <2>1. CASE Start
    BY <2>1, SpawnTyped DEF Start, TypeOK
  <2>2. CASE Stop
    <3>1. state' \in [status : Statuses, url : Children \cup {None}]
      BY <2>2 DEF Stop, Show, Statuses
    <3> QED  BY <2>2, <3>1 DEF Stop, TypeOK, TimersCleared, RetriesCleared
  <2>3. CASE EnsureResolves
    <3>1. CASE wantUp
      <4>1. Launch(state)
        BY <2>3, <3>1 DEF EnsureResolves
      <4> QED  BY <2>3, <4>1, LaunchTyped DEF EnsureResolves, TypeOK
    <3>2. CASE ~wantUp
      BY <2>3, <3>2 DEF EnsureResolves, TypeOK, processVars
    <3> QED  BY <3>1, <3>2
  <2>4. CASE EnsureRejects
    BY <2>4 DEF EnsureRejects, TypeOK, Show, Statuses
  <2>5. ASSUME NEW c \in Children, Announce(c) PROVE TypeOK'
    <3>1. state' \in [status : Statuses, url : Children \cup {None}]
      BY <2>5 DEF Announce, Connected, Statuses
    <3> QED  BY <2>5, <3>1 DEF Announce, TypeOK, TimersCleared
  <2>6. ASSUME NEW c \in Children, Progress(c) PROVE TypeOK'
    BY <2>6 DEF Progress, TypeOK, Show, Statuses
  <2>7. ASSUME NEW c \in Children, ChildEnds(c) PROVE TypeOK'
    <3>1. state' \in [status : Statuses, url : Children \cup {None}]
      BY <2>7 DEF ChildEnds, TypeOK, Show, Statuses
    <3> QED  BY <2>7, <3>1 DEF ChildEnds, TypeOK, TimersCleared
  <2>8. ASSUME NEW c \in Children, ConnectTimeout(c) PROVE TypeOK'
    <3>1. state' \in [status : Statuses, url : Children \cup {None}]
      BY <2>8 DEF ConnectTimeout, TypeOK, Show, Statuses
    <3> QED  BY <2>8, <3>1, ZenonT(30) DEF ConnectTimeout, TypeOK
  <2>9. ASSUME NEW c \in Children, Retry(c) PROVE TypeOK'
    <3>1. CASE wantUp
      BY <2>9, <3>1, SpawnTyped DEF Retry, TypeOK
    <3>2. CASE ~wantUp
      BY <2>9, <3>2 DEF Retry, TypeOK, processVars
    <3> QED  BY <3>1, <3>2
  <2>10. CASE UNCHANGED vars
    BY <2>10 DEF vars, TypeOK
  <2> QED  BY <2>1, <2>2, <2>3, <2>4, <2>5, <2>6, <2>7, <2>8, <2>9, <2>10
           DEF Next
<1> QED  BY <1>1, <1>2, PTL DEF SafeSpec

\* Whatever ensure() does, a step that starts a process ends with the tunnel
\* wanted: stop() wins over a spawn that was on its way.
THEOREM SpawnsAreWanted == SafeSpec => SpawnsOnlyWanted
<1> DEFINE Spawned(c) == proc[c] = "none" /\ proc'[c] = "running"
<1>1. ASSUME TypeOK, [Next]_vars
      PROVE  [\A c \in Children : Spawned(c) => wantUp']_vars
  <2> SUFFICES ASSUME Next, NEW c \in Children, Spawned(c) PROVE wantUp'
    BY <1>1
  <2>1. CASE Start                           BY <2>1 DEF Start
  <2>2. CASE Stop
    BY <1>1, <2>2 DEF Stop, TypeOK
  <2>3. CASE EnsureResolves                  BY <2>3 DEF EnsureResolves, processVars
  <2>4. CASE EnsureRejects                   BY <2>4 DEF EnsureRejects
  <2>5. ASSUME NEW d \in Children,
               Announce(d) \/ Progress(d) PROVE FALSE
    BY <2>5 DEF Announce, Progress
  <2>6. ASSUME NEW d \in Children, ChildEnds(d) PROVE wantUp'
    <3>1. proc[d] # "none" /\ proc' = [proc EXCEPT ![d] = "none"]
      BY <2>6 DEF ChildEnds
    <3>2. proc'[c] = "none" \/ proc'[c] = proc[c]
      BY <1>1, <3>1 DEF TypeOK
    <3> QED  BY <3>2
  <2>7. ASSUME NEW d \in Children, ConnectTimeout(d) PROVE FALSE
    BY <1>1, <2>7 DEF ConnectTimeout, TypeOK
  <2>8. ASSUME NEW d \in Children, Retry(d) PROVE wantUp'
    BY <2>8 DEF Retry, processVars
  <2> QED  BY <2>1, <2>2, <2>3, <2>4, <2>5, <2>6, <2>7, <2>8 DEF Next
<1> QED  BY TypesHold, <1>1, PTL DEF SafeSpec, SpawnsOnlyWanted

-----------------------------------------------------------------------------
(***************************************************************************)
(* Without late output only a running child speaks, and by OnlyAttachedRuns*)
(* that is the attached one; so what is shown is about the attached child. *)
(***************************************************************************)
Shown ==
    /\ ConnectedIsLive
    /\ wantUp /\ state.status # "error" => child # None \/ retries # {}

\* spawnChild ends with a child attached and its progress shown, or an error.
LEMMA SpawnShown ==
    ASSUME IInv, NEW status \in {"starting", "reconnecting"}, SpawnChild(status)
    PROVE  Shown'
<1>1. Launch(Show(status))
  BY DEF SpawnChild, IInv
<1>2. CASE \E c \in Free :
              /\ child' = c
              /\ proc' = [proc EXCEPT ![c] = "running"]
              /\ timers' = timers \cup {c}
              /\ timeout' = c
              /\ state' = Show(status)
  BY <1>2 DEF Free, Show, Shown, ConnectedIsLive
<1>3. CASE state' = Show("error") /\ UNCHANGED processVars
  BY <1>3 DEF Show, Shown, ConnectedIsLive
<1> QED  BY <1>1, <1>2, <1>3 DEF Launch

\* Every step keeps what relates the status to the attached child.
LEMMA NextShown ==
    ASSUME IInv, ~lateOutput, Shown, [Next]_vars PROVE Shown'
<1>1. CASE Start
  BY <1>1, SpawnShown DEF Start
<1>2. CASE Stop
  BY <1>2 DEF Stop, Show, Shown, ConnectedIsLive
<1>3. CASE EnsureResolves \/ EnsureRejects
  BY <1>3 DEF EnsureResolves, EnsureRejects, IInv
<1>4. ASSUME NEW c \in Children, Announce(c) PROVE Shown'
  <2>1. c = child
    BY <1>4 DEF Announce, CanWrite, IInv, OnlyAttachedRuns
  <2> QED  BY <1>4, <2>1 DEF Announce, Connected, Shown, ConnectedIsLive
<1>5. ASSUME NEW c \in Children, Progress(c) PROVE Shown'
  <2>1. c = child
    BY <1>5 DEF Progress, CanWrite, IInv, OnlyAttachedRuns
  <2> QED  BY <1>5, <2>1 DEF Progress, Show, Shown, ConnectedIsLive
<1>6. ASSUME NEW c \in Children, ChildEnds(c) PROVE Shown'
  <2>1. CASE c # child
    BY <1>6, <2>1 DEF ChildEnds, Shown, ConnectedIsLive
  <2>2. CASE c = child
    <3>1. wantUp
      BY <2>2 DEF IInv, AttachedRuns
    <3> QED  BY <1>6, <2>2, <3>1 DEF ChildEnds, Show, Shown, ConnectedIsLive
  <2> QED  BY <2>1, <2>2
<1>7. ASSUME NEW c \in Children, ConnectTimeout(c) PROVE Shown'
  BY <1>7 DEF ConnectTimeout, Show, Shown, ConnectedIsLive
<1>8. ASSUME NEW c \in Children, Retry(c) PROVE Shown'
  <2>1. wantUp
    BY <1>8 DEF Retry, IInv, DownIsFinal
  <2> QED  BY <1>8, <2>1, SpawnShown DEF Retry
<1>9. CASE UNCHANGED vars
  BY <1>9 DEF vars, Shown, ConnectedIsLive
<1> QED  BY <1>1, <1>2, <1>3, <1>4, <1>5, <1>6, <1>7, <1>8, <1>9 DEF Next

\* So it holds throughout when no one else speaks.
LEMMA ShownHolds == SafeSpec => [](Plain => Shown)
<1> DEFINE Inv == ensureAwaits \/ IInv
<1>1. Init => (Plain => Shown)
  BY DEF Init, Show, Shown, ConnectedIsLive
<1>2. Inv /\ (Plain => Shown) /\ [Next]_vars => (Plain => Shown)'
  BY SettingKept, NextShown DEF Plain
<1>3. SafeSpec => []Inv
  BY InvariantHolds
<1> QED  BY <1>1, <1>2, <1>3, PTL DEF SafeSpec

\* When no one speaks but the attached child, the URL shown is that of the
\* process the manager runs.
THEOREM UrlsAreLive == SafeSpec => []UrlIsLive
<1>1. (Plain => Shown) => UrlIsLive
  BY DEF Shown, UrlIsLive
<1> QED  BY ShownHolds, <1>1, PTL

\* When no one speaks but the attached child, a wanted tunnel that is not
\* reported as failed has a child or a reconnect timer.
THEOREM AlwaysSupervised == SafeSpec => []Supervised
<1>1. (Plain => Shown) => Supervised
  BY DEF Shown, Supervised
<1> QED  BY ShownHolds, <1>1, PTL

\* When no one speaks but the attached child, the status tells the truth.
THEOREM StatusIsHonest == SafeSpec => []StatusHolds
BY UrlsAreLive, AlwaysSupervised, PTL DEF StatusHolds

-----------------------------------------------------------------------------
(***************************************************************************)
(* What others see of the manager.  Its status says what the child and the *)
(* timers are about to do: a child or a timer is there only under a status *)
(* of a tunnel at work, the URL is shown only once known, and without late *)
(* output nothing covers up a pending reconnect.                           *)
(***************************************************************************)
StatusTells ==
    /\ state.status = "connected" => connected
    /\ ~lateOutput /\ retries # {} => state.status = "reconnecting"

\* One status, or one and a failure, may be announced in a step.
LEMMA Announced ==
    /\ \A s \in Statuses :
        <<s>> \in Status!Announcements /\ Status!Final(<<s>>) = s
    /\ \A s \in {"starting", "reconnecting"} :
        /\ <<s, "error">> \in Status!Announcements
        /\ Status!Final(<<s, "error">>) = "error"
BY DEF Statuses, Status!Announcements, Status!Statuses, Status!Final

\* What is attached is at work.
LEMMA AttachedAtWork ==
    ASSUME IInv, child # None \/ retries # {}
    PROVE  wantUp /\ state.status \in Status!AtWork
BY DEF IInv, TypeOK, QuietWhenDown, AttachedRuns, DownIsFinal, Statuses, Status!AtWork

\* A spawn announces what it shows meanwhile, and perhaps that it failed.
LEMMA SpawnAnnounces ==
    ASSUME ~ensureAwaits, NEW status \in {"starting", "reconnecting"},
           SpawnChild(status)
    PROVE  /\ connected' = FALSE
           /\ state'.status \in {status, "error"}
           /\ \E w \in Status!Announcements :
               /\ w \in {<<status>>, <<status, "error">>}
               /\ state'.status = Status!Final(w)
<1>1. connected' = FALSE /\ state' \in {Show(status), Show("error")}
  BY DEF SpawnChild, Launch
<1>2. state'.status \in {status, "error"}
  BY <1>1 DEF Show
<1>3. CASE state'.status = status
  BY <1>1, <1>3, Announced DEF Statuses
<1>4. CASE state'.status = "error"
  BY <1>1, <1>4, Announced
<1> QED  BY <1>1, <1>2, <1>3, <1>4

\* A step of the manager's is one that TunnelStatus allows, or is not seen.
LEMMA StepSeen ==
    ASSUME IInv, StatusTells, [Next]_vars
    PROVE  StatusTells' /\ [Status!StatusNext]_(Status!statusVars)
<1> DEFINE Seen(w) == /\ state'.status = Status!Final(w)
                      /\ UNCHANGED lateOutput
<1>0. ASSUME NEW w \in Status!Announcements, Seen(w),
             Status!Starts(w) \/ Status!Stops(w) \/ Status!Occurs(w)
      PROVE  Status!StatusNext
  BY <1>0 DEF Status!StatusNext
<1> HIDE DEF Seen
<1>1. CASE Start
  <2>1. retries' = {} /\ wantUp' = TRUE /\ UNCHANGED lateOutput
        /\ state.status \in {"idle", "error"}
    BY <1>1 DEF Start, IInv, QuietWhenDown
  <2>2. SpawnChild("starting") /\ ~ensureAwaits
    BY <1>1 DEF Start, IInv
  <2>3. PICK w \in Status!Announcements :
            /\ w \in {<<"starting">>, <<"starting", "error">>}
            /\ state'.status = Status!Final(w)
    BY <2>2, SpawnAnnounces
  <2>4. state'.status \in {"starting", "error"} /\ connected' = FALSE
    BY <2>2, SpawnAnnounces
  <2>5. Status!Starts(w) /\ Seen(w)
    BY <2>1, <2>3 DEF Status!Starts, Seen
  <2> QED  BY <1>0, <2>1, <2>4, <2>5 DEF StatusTells
<1>2. CASE Stop
  <2>1. state'.status = "idle" /\ wantUp' = FALSE /\ UNCHANGED lateOutput
        /\ retries' = {}
    BY <1>2 DEF Stop, Show, RetriesCleared, IInv, TimersOwned
  <2>2. <<"idle">> \in Status!Announcements /\ Seen(<<"idle">>)
    BY <2>1, Announced DEF Statuses, Seen
  <2> QED  BY <1>0, <2>1, <2>2 DEF Status!Stops, StatusTells
<1>3. CASE EnsureResolves \/ EnsureRejects
  BY <1>3 DEF EnsureResolves, EnsureRejects, IInv
<1>4. ASSUME NEW c \in Children, Announce(c) \/ Progress(c)
      PROVE  StatusTells' /\ Status!StatusNext
  <2>1. CanWrite(c) /\ UNCHANGED <<wantUp, retries, lateOutput>>
    BY <1>4 DEF Announce, Progress
  <2>2. \/ lateOutput
        \/ wantUp /\ state.status \in Status!AtWork /\ retries = {}
    <3>1. lateOutput \/ c = child
      BY <2>1 DEF CanWrite, IInv, OnlyAttachedRuns
    <3> QED  BY <3>1, AttachedAtWork, TunnelAssumption DEF IInv, AttachedRuns
  <2>3. \/ connected' /\ state'.status = "connected"
        \/ /\ state.status # "connected" /\ state'.status = "starting"
           /\ UNCHANGED connected
    BY <1>4 DEF Announce, Progress, Connected, Show, StatusTells
  <2>4. state'.status \in {"connected", "starting"}
    BY <2>3
  <2>5. /\ <<state'.status>> \in Status!Announcements
        /\ Seen(<<state'.status>>)
    BY <2>1, <2>4, Announced DEF Statuses, Seen
  <2>6. Status!Output(<<state'.status>>)
    BY <2>1, <2>2, <2>3 DEF Status!Output
  <2> QED  BY <1>0, <2>1, <2>2, <2>3, <2>5, <2>6 DEF StatusTells, Status!Occurs
<1>5. ASSUME NEW c \in Children, ChildEnds(c)
      PROVE  StatusTells' /\ [Status!StatusNext]_(Status!statusVars)
  <2>1. CASE c # child
    BY <1>5, <2>1 DEF ChildEnds, StatusTells, Status!statusVars
  <2>2. CASE c = child
    <3>1. wantUp /\ state.status \in Status!AtWork
      BY <2>2, AttachedAtWork, TunnelAssumption
    <3>2. state'.status = "reconnecting" /\ UNCHANGED <<wantUp, lateOutput>>
      BY <1>5, <2>2, <3>1 DEF ChildEnds, Show
    <3>3. <<"reconnecting">> \in Status!Announcements /\ Seen(<<"reconnecting">>)
      BY <3>2, Announced DEF Statuses, Seen
    <3>4. Status!Drop(<<"reconnecting">>)
      BY <3>1, <3>2 DEF Status!Drop
    <3> QED  BY <1>0, <3>2, <3>3, <3>4 DEF StatusTells, Status!Occurs
  <2> QED  BY <2>1, <2>2
<1>6. ASSUME NEW c \in Children, ConnectTimeout(c)
      PROVE  StatusTells' /\ [Status!StatusNext]_(Status!statusVars)
  <2>1. c = child /\ UNCHANGED <<connected, lateOutput, retries>>
    BY <1>6 DEF ConnectTimeout, IInv, TimersOwned
  <2>2. wantUp /\ state.status \in Status!AtWork /\ retries = {}
    BY <2>1, AttachedAtWork, TunnelAssumption DEF IInv, AttachedRuns
  <2>3. CASE connected
    BY <1>6, <2>1, <2>3 DEF ConnectTimeout, StatusTells, Status!statusVars
  <2>4. CASE ~connected
    <3>1. state'.status = "error" /\ wantUp' = FALSE
      BY <1>6, <2>4 DEF ConnectTimeout, Show
    <3>2. state.status \in {"starting", "reconnecting"}
      BY <2>2, <2>4 DEF StatusTells, Status!AtWork
    <3>3. <<"error">> \in Status!Announcements /\ Seen(<<"error">>)
      BY <2>1, <3>1, Announced DEF Statuses, Seen
    <3>4. Status!TimeOut(<<"error">>)
      BY <2>2, <3>1, <3>2 DEF Status!TimeOut
    <3> QED  BY <1>0, <2>1, <2>2, <3>1, <3>3, <3>4 DEF StatusTells, Status!Occurs
  <2> QED  BY <2>3, <2>4
<1>7. ASSUME NEW c \in Children, Retry(c)
      PROVE  StatusTells' /\ Status!StatusNext
  <2>1. wantUp /\ state.status \in Status!AtWork
    BY <1>7, AttachedAtWork DEF Retry
  <2>2. lateOutput \/ state.status = "reconnecting"
    BY <1>7 DEF Retry, StatusTells
  <2>3. /\ retries' = {} /\ UNCHANGED <<wantUp, lateOutput>>
        /\ SpawnChild("reconnecting") /\ ~ensureAwaits
    BY <1>7, <2>1 DEF Retry, IInv, TimersOwned
  <2>4. PICK w \in Status!Announcements :
            /\ w \in {<<"reconnecting">>, <<"reconnecting", "error">>}
            /\ state'.status = Status!Final(w)
    BY <2>3, SpawnAnnounces
  <2>5. state'.status \in {"reconnecting", "error"}
    BY <2>3, SpawnAnnounces
  <2>6. Status!Respawn(w) /\ Seen(w)
    BY <2>1, <2>2, <2>3, <2>4 DEF Status!Respawn, Seen
  <2> QED  BY <1>0, <2>3, <2>5, <2>6 DEF StatusTells, Status!Occurs
<1>8. CASE UNCHANGED vars
  BY <1>8 DEF vars, StatusTells, Status!statusVars
<1> QED  BY <1>1, <1>2, <1>3, <1>4, <1>5, <1>6, <1>7, <1>8 DEF Next

\* With a synchronous ensure() the status keeps saying what is to come.
LEMMA StatusTold == SafeSpec => [](ensureAwaits \/ (IInv /\ StatusTells))
<1> DEFINE Inv == ensureAwaits \/ (IInv /\ StatusTells)
<1>1. Init => Inv
  BY InitIInv DEF Init, Show, StatusTells
<1>2. Inv /\ [Next]_vars => Inv'
  BY SettingKept, NextIInv, StepSeen
<1> QED  BY <1>1, <1>2, PTL DEF SafeSpec

\* With a synchronous ensure() a manager is seen to do only what TunnelStatus
\* says (TunnelManager of cli/tunnel.ts), through drops, reconnects, timeouts
\* and late output of killed children: TunnelControl may be built upon that.
THEOREM StatusImplemented == SafeSpec /\ ~ensureAwaits => Status!StatusSpec
<1> DEFINE Inv == ensureAwaits \/ (IInv /\ StatusTells)
<1>1. Init => Status!StatusInit
  BY DEF Init, Show, Status!StatusInit
<1>2. Inv /\ ~ensureAwaits /\ [Next]_vars
          => /\ [Status!StatusNext]_(Status!statusVars)
             /\ (~ensureAwaits)'
  BY SettingKept, StepSeen
<1> QED  BY <1>1, <1>2, StatusTold, PTL DEF SafeSpec, Status!StatusSpec

\* A process is only started while the tunnel is wanted, whatever ensure() does;
\* and with a synchronous one every step is what others take it for.
THEOREM StepsAreRight == SafeSpec => StepsHold
<1> DEFINE Inv == ensureAwaits \/ (IInv /\ StatusTells)
<1>1. Inv /\ [Next]_vars
          => [~ensureAwaits => [Status!StatusNext]_(Status!statusVars)]_vars
  BY StepSeen
<1> QED  BY <1>1, StatusTold, SpawnsAreWanted, PTL
         DEF SafeSpec, StepsHold, ActsAsStatus
=============================================================================
