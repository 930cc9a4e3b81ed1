---------------------------- MODULE TunnelManager ----------------------------
(***************************************************************************)
(* The supervisor of the public tunnel: class TunnelManager of             *)
(* cli/tunnel.ts, with the provider's child processes, its timers and the  *)
(* awaited ensure() hook.                                                  *)
(*                                                                         *)
(* One event loop: a step is a callback, or the stretch of spawnChild      *)
(* before or after its await.  A child process is a slot of Children,      *)
(* taken at spawn and free again once the process has closed and no timer  *)
(* refers to it, so starts, drops and stops are unbounded while the state  *)
(* space is finite.  A timer may fire at any time after it is set: the     *)
(* back-off delay (and reconnectAttempts, which only scales it) is left    *)
(* out, as are the text of messages and the activity log.                  *)
(***************************************************************************)
EXTENDS Naturals, FiniteSets

CONSTANTS
    Children,      \* slots for child processes
    None,          \* null
    MaxEnsuring    \* bound: calls of ensure() pending at a time

ASSUME TunnelAssumption ==
    /\ None \notin Children
    /\ MaxEnsuring \in Nat \ {0}

VARIABLES
    ensureAwaits,   \* the provider's ensure() settles in a later turn, as
                    \* types.ts:40 allows; that of srv.us is synchronous
    lateOutput,     \* a killed child's pipe still delivers what it wrote
    state,          \* this.state: a status, and the child whose URL it shows
    child,          \* this.child
    connected,      \* this.connected
    wantUp,         \* this.wantUp
    ensured,        \* this.ensured
    ensuring,       \* spawnChild calls awaiting ensure()
    proc,           \* proc[c]: the operating system's view of c
    timers,         \* the children whose 60 s connect timer is pending
    timeout,        \* this.timeout: the child whose timer the handle is for
    retries,        \* pending reconnect timers, each named by the child lost
    reconnectTimer  \* this.reconnectTimer: the one the handle is for

\* Chosen with the provider, once.
setting == <<ensureAwaits, lateOutput>>

vars == <<setting, state, child, connected, wantUp, ensured, ensuring, proc,
          timers, timeout, retries, reconnectTimer>>

processVars == <<child, proc, timers, timeout>>

-----------------------------------------------------------------------------
\* Mutant: a state without the field that tells whose URL it is.
ShowBare(status) == [status |-> status]

Show(status) == [status |-> status, url |-> None]
Connected(c) == [status |-> "connected", url |-> c]

\* The slots a new child process may take.
Free == {c \in Children :
            /\ proc[c] = "none"
            /\ c \notin timers \cup retries
            /\ c # state.url}

Init ==
    /\ ensureAwaits \in BOOLEAN
    /\ lateOutput \in BOOLEAN
    /\ state = Show("idle")
    /\ child = None
    /\ connected = FALSE
    /\ wantUp = FALSE
    /\ ensured = FALSE
    /\ ensuring = 0
    /\ proc = [c \in Children |-> "none"]
    /\ timers = {}
    /\ timeout = None
    /\ retries = {}
    /\ reconnectTimer = None

\* Mutant: no connect timer is set.
LaunchUntimed(st) ==
    \/ \E c \in Free :
        /\ child' = c
        /\ proc' = [proc EXCEPT ![c] = "running"]
        /\ timers' = timers
        /\ timeout' = timeout
        /\ state' = st
    \/ /\ state' = Show("error")
       /\ UNCHANGED processVars

\* spawnChild from provider.spawn on, showing st meanwhile: a child with its
\* connect timer, or an exception.
Launch(st) ==
    \/ \E c \in Free :
        /\ child' = c
        /\ proc' = [proc EXCEPT ![c] = "running"]
        /\ timers' = timers \cup {c}
        /\ timeout' = c
        /\ state' = st
    \/ /\ state' = Show("error")
       /\ UNCHANGED processVars

\* spawnChild up to its await, or to its end when it awaits nothing.  A
\* synchronous ensure() that throws ends as a failed spawn does.
SpawnChild(status) ==
    /\ connected' = FALSE
    /\ UNCHANGED ensured
    /\ IF ensureAwaits /\ ~ensured
       THEN /\ ensuring < MaxEnsuring
            /\ ensuring' = ensuring + 1
            /\ state' = Show(status)
            /\ UNCHANGED processVars
       ELSE /\ Launch(Show(status))
            /\ UNCHANGED ensuring

\* Mutant: a second start() is refused only once the tunnel is connected.
StartWhileStarting ==
    /\ state.status # "connected"
    /\ wantUp' = TRUE
    /\ SpawnChild("starting")
    /\ UNCHANGED <<setting, retries, reconnectTimer>>

\* POST /__enpilink/tunnel.  From the other statuses start() returns at once.
Start ==
    /\ state.status \in {"idle", "error"}
    /\ wantUp' = TRUE
    /\ SpawnChild("starting")
    /\ UNCHANGED <<setting, retries, reconnectTimer>>

\* Mutant: the continuation does not look at wantUp again.
EnsureResolvesBlindly ==
    /\ ensuring > 0
    /\ ensuring' = ensuring - 1
    /\ ensured' = TRUE
    /\ Launch(state)
    /\ UNCHANGED <<setting, connected, wantUp, retries, reconnectTimer>>

\* The await of ensure() resolves: a stop() may have come in between.
EnsureResolves ==
    /\ ensuring > 0
    /\ ensuring' = ensuring - 1
    /\ ensured' = TRUE
    /\ IF wantUp THEN Launch(state) ELSE UNCHANGED <<state, processVars>>
    /\ UNCHANGED <<setting, connected, wantUp, retries, reconnectTimer>>

EnsureRejects ==
    /\ ensuring > 0
    /\ ensuring' = ensuring - 1
    /\ state' = IF wantUp THEN Show("error") ELSE state
    /\ UNCHANGED <<setting, child, connected, wantUp, ensured, proc, timers,
                   timeout, retries, reconnectTimer>>

\* clearConnectTimeout() and clearReconnectTimer() as sets of pending timers.
TimersCleared == timers \ {timeout}
RetriesCleared == retries \ {reconnectTimer}

\* Mutant: stop() forgets the reconnect timer.
StopLeavesRetry ==
    /\ wantUp' = FALSE
    /\ timers' = TimersCleared
    /\ timeout' = None
    /\ proc' = IF child = None THEN proc ELSE [proc EXCEPT ![child] = "killed"]
    /\ child' = None
    /\ state' = Show("idle")
    /\ UNCHANGED <<setting, connected, ensured, ensuring, retries,
                   reconnectTimer>>

\* DELETE /__enpilink/tunnel, and the control server's close().
Stop ==
    /\ wantUp' = FALSE
    /\ timers' = TimersCleared
    /\ timeout' = None
    /\ retries' = RetriesCleared
    /\ reconnectTimer' = None
    /\ proc' = IF child = None THEN proc ELSE [proc EXCEPT ![child] = "killed"]
    /\ child' = None
    /\ state' = Show("idle")
    /\ UNCHANGED <<setting, connected, ensured, ensuring>>

\* c's pipe can deliver a chunk of stdout.  The handler is attached to the
\* child's stream and does not ask whether c is still this.child.
CanWrite(c) == proc[c] = "running" \/ (lateOutput /\ proc[c] = "killed")

\* A line with the public URL.
Announce(c) ==
    /\ CanWrite(c)
    /\ connected' = TRUE
    /\ timers' = TimersCleared
    /\ timeout' = None
    /\ state' = Connected(c)
    /\ UNCHANGED <<setting, child, wantUp, ensured, ensuring, proc, retries,
                   reconnectTimer>>

\* Mutant: progress is shown although the URL is known.
ProgressAnytime(c) ==
    /\ CanWrite(c)
    /\ state' = Show("starting")
    /\ UNCHANGED <<setting, child, connected, wantUp, ensured, ensuring, proc,
                   timers, timeout, retries, reconnectTimer>>

\* Any other line: activity once connected, progress before.
Progress(c) ==
    /\ CanWrite(c)
    /\ ~connected
    /\ state' = Show("starting")
    /\ UNCHANGED <<setting, child, connected, wantUp, ensured, ensuring, proc,
                   timers, timeout, retries, reconnectTimer>>

\* Mutant: the drop of an attached child is shown but no timer is set.
ChildEndsNoRetry(c) ==
    /\ proc[c] # "none"
    /\ proc' = [proc EXCEPT ![c] = "none"]
    /\ IF c # child
       THEN UNCHANGED <<state, child, timers, timeout, retries, reconnectTimer>>
       ELSE /\ timers' = TimersCleared
            /\ timeout' = None
            /\ child' = None
            /\ state' = Show("reconnecting")
            /\ UNCHANGED <<retries, reconnectTimer>>
    /\ UNCHANGED <<setting, connected, wantUp, ensured, ensuring>>

\* Mutant: no staleness test, so the close of a killed child detaches its
\* successor.
ChildEndsUnchecked(c) ==
    /\ proc[c] # "none"
    /\ proc' = [proc EXCEPT ![c] = "none"]
    /\ timers' = TimersCleared
    /\ timeout' = None
    /\ child' = None
    /\ IF wantUp
       THEN /\ state' = Show("reconnecting")
            /\ retries' = retries \cup {c}
            /\ reconnectTimer' = c
       ELSE /\ state' \in {Show("idle"), Show("error")}
            /\ UNCHANGED <<retries, reconnectTimer>>
    /\ UNCHANGED <<setting, connected, wantUp, ensured, ensuring>>

\* Mutant: the connect timer of a child that died is left running.
ChildEndsKeepsTimer(c) ==
    /\ proc[c] # "none"
    /\ proc' = [proc EXCEPT ![c] = "none"]
    /\ IF c # child
       THEN UNCHANGED <<state, child, retries, reconnectTimer>>
       ELSE /\ child' = None
            /\ state' = Show("reconnecting")
            /\ retries' = retries \cup {c}
            /\ reconnectTimer' = c
    /\ UNCHANGED <<setting, connected, wantUp, ensured, ensuring, timers,
                   timeout>>

\* The "close" event of c, or the "error" event of a child that could not run.
\* From a child that is not this.child it is stale.  A drop while the tunnel
\* is wanted sets the reconnect timer (scheduleReconnect).
ChildEnds(c) ==
    /\ proc[c] # "none"
    /\ proc' = [proc EXCEPT ![c] = "none"]
    /\ IF c # child
       THEN UNCHANGED <<state, child, timers, timeout, retries, reconnectTimer>>
       ELSE /\ timers' = TimersCleared
            /\ timeout' = None
            /\ child' = None
            /\ IF wantUp
               THEN /\ state' = Show("reconnecting")
                    /\ retries' = retries \cup {c}
                    /\ reconnectTimer' = c
               ELSE /\ state' \in {Show("idle"), Show("error")}
                    /\ UNCHANGED <<retries, reconnectTimer>>
    /\ UNCHANGED <<setting, connected, wantUp, ensured, ensuring>>

\* The connect timer of c fires.  It detaches whatever child is attached and
\* kills its own.
ConnectTimeout(c) ==
    /\ c \in timers
    /\ timers' = timers \ {c}
    /\ IF connected
       THEN UNCHANGED <<state, child, wantUp, proc>>
       ELSE /\ state' = Show("error")
            /\ child' = None
            /\ wantUp' = FALSE
            /\ proc' = IF proc[c] = "running"
                       THEN [proc EXCEPT ![c] = "killed"] ELSE proc
    /\ UNCHANGED <<setting, connected, ensured, ensuring, timeout, retries,
                   reconnectTimer>>

\* A reconnect timer fires.
Retry(c) ==
    /\ c \in retries
    /\ retries' = retries \ {c}
    /\ reconnectTimer' = None
    /\ IF wantUp
       THEN SpawnChild("reconnecting")
       ELSE UNCHANGED <<state, connected, ensured, ensuring, processVars>>
    /\ UNCHANGED <<setting, wantUp>>

Next ==
    \/ Start
    \/ Stop
    \/ EnsureResolves
    \/ EnsureRejects
    \/ \E c \in Children :
        \/ Announce(c)
        \/ Progress(c)
        \/ ChildEnds(c)
        \/ ConnectTimeout(c)
        \/ Retry(c)

SafeSpec == Init /\ [][Next]_vars

\* Timers fire, an awaited ensure() settles, and a killed process ends.  No
\* one owes the manager a start(), a stop() or a word from the process.
Spec ==
    /\ SafeSpec
    /\ WF_vars(EnsureResolves \/ EnsureRejects)
    /\ \A c \in Children :
        /\ WF_vars(ConnectTimeout(c))
        /\ WF_vars(Retry(c))
        /\ WF_vars(ChildEnds(c) /\ proc[c] = "killed")

-----------------------------------------------------------------------------
Statuses == {"idle", "starting", "connected", "reconnecting", "error"}

\* Type invariant of the manager's state.
TypeOK ==
    /\ ensureAwaits \in BOOLEAN
    /\ lateOutput \in BOOLEAN
    /\ state \in [status : Statuses, url : Children \cup {None}]
    /\ child \in Children \cup {None}
    /\ connected \in BOOLEAN
    /\ wantUp \in BOOLEAN
    /\ ensured \in BOOLEAN
    /\ ensuring \in Nat
    /\ proc \in [Children -> {"none", "running", "killed"}]
    /\ timers \subseteq Children
    /\ timeout \in Children \cup {None}
    /\ retries \subseteq Children
    /\ reconnectTimer \in Children \cup {None}

\* What others see of the manager.
Status == INSTANCE TunnelStatus WITH manager <- state.status

\* No orphan: with a synchronous ensure() the only process running un-killed is
\* the one the manager would kill on stop(), through drops, reconnects,
\* timeouts and late events.
OnlyAttachedRuns ==
    ~ensureAwaits => \A c \in Children : proc[c] = "running" => c = child

\* With a synchronous ensure(), after stop() or a connect timeout nothing will
\* bring the tunnel back: no process runs on, and no timer is pending that
\* could spawn one.
DownIsFinal ==
    ~ensureAwaits /\ ~wantUp =>
        /\ \A c \in Children : proc[c] # "running"
        /\ retries = {}

\* With a synchronous ensure() timers belong to what they act on: a connect
\* timer to the attached child, so it can neither fail a healthy successor nor
\* detach it; and each pending timer, of which there is at most one of a kind,
\* is the one stop() holds the handle of.
TimersOwned ==
    ~ensureAwaits =>
        /\ timers \subseteq {child}
        /\ timers \subseteq {timeout}
        /\ retries \subseteq {reconnectTimer}

\* With a synchronous ensure() what runs, and every timer that may still fire,
\* is what the manager's own fields name: stop() reaches all of it.
InHand == OnlyAttachedRuns /\ TimersOwned

\* No one speaks but the attached child.
Plain == ~ensureAwaits /\ ~lateOutput

\* When no one speaks but the attached child: while the tunnel is wanted and not
\* reported as failed, a child or a reconnect timer is there to report.
Supervised ==
    Plain /\ wantUp /\ state.status # "error" => child # None \/ retries # {}

\* A process is started only while the tunnel is wanted, whatever stop() ran
\* while ensure() was awaited or the back-off was counted.
SpawnsOnlyWanted ==
    [][\A c \in Children :
         proc[c] = "none" /\ proc'[c] = "running" => wantUp']_vars

\* With a synchronous ensure() the manager is what others take it for: its
\* status moves, and the tunnel is wanted, as TunnelStatus says, through drops,
\* reconnects, timeouts and late output.
ActsAsStatus == [][~ensureAwaits => [Status!StatusNext]_(Status!statusVars)]_vars

\* No step starts what is not wanted, or shows what others do not expect.
StepsHold == SpawnsOnlyWanted /\ ActsAsStatus

\* types.ts:17 "the public URL is now known and the tunnel is live": the URL
\* the manager shows is the one of the child it runs.
ConnectedIsLive ==
    state.status = "connected" => child # None /\ state.url = child

\* When no one speaks but the attached child, the URL shown is the running
\* child's through drops, reconnects and the close events of killed children.
UrlIsLive == Plain => ConnectedIsLive

\* When no one speaks but the attached child, the status tells the truth: a
\* URL is the running child's, and a wanted tunnel that is not reported as
\* failed has something at work on it.
StatusHolds == Supervised /\ UrlIsLive

\* When no one speaks but the attached child a start is not left hanging:
\* "starting" gives way to a URL, an error, a
\* reconnect or a stop.
StartSettles ==
    (Plain /\ state.status = "starting") ~> state.status # "starting"

\* A drop is followed up: the lost tunnel is respawned, or reported failed,
\* or given up by stop().
DropFollowedUp ==
    (wantUp /\ state.status = "reconnecting" /\ child = None)
        ~> (child # None \/ state.status = "error" \/ ~wantUp)

\* The tunnel does not hang: neither a start nor a drop is left without its
\* outcome, as long as timers fire and killed processes end.
Settles == StartSettles /\ DropFollowedUp
=============================================================================
