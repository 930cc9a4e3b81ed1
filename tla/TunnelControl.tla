---------------------------- MODULE TunnelControl ---------------------------
(***************************************************************************)
(* The way from the terminal to the tunnel: the CLI's observer and its     *)
(* automatic POST (cli/use-tunnel.ts), the dev server's proxy              *)
(* (server/tunnel-proxy-router.ts) and the handler (cli/tunnel-handler.ts) *)
(* in front of the tunnel manager, which is here what TunnelStatus says of *)
(* it: TunnelManager is its model, and implements that.                    *)
(*                                                                         *)
(* The manager outlives the dev server, which is restarted on every        *)
(* change of the sources.  Each restart cuts the event stream and the      *)
(* replies under way; the observer connects again, and the POST is         *)
(* repeated until a reply arrives.  Anyone else may POST or DELETE.        *)
(***************************************************************************)
EXTENDS TunnelStatus

CONSTANTS
    MaxFrames   \* bound: events on their way to the terminal

ASSUME ControlAssumption == MaxFrames \in Nat \ {0}

VARIABLES
    proxied,  \* the dev server is up
    watching, \* the observer's request is with the handler, as its listener
    frames,   \* state events on their way
    shown,    \* what the terminal shows
    poster,   \* postUntilStarted(): how far the CLI's own POST is
    mounted,  \* the effect has not been cleaned up
    asked     \* history: what was last asked for since the POST was answered

controlVars == <<statusVars, proxied, watching, frames, shown, poster, mounted, asked>>

ControlInit ==
    /\ StatusInit
    /\ proxied \in BOOLEAN
    /\ watching = FALSE
    /\ frames = <<>>
    /\ mounted = TRUE
    /\ asked = "nothing"
    \* With and without autoStart.
    /\ \/ poster = "trying" /\ shown = "starting"
       \/ poster = "off" /\ shown = "idle"

-----------------------------------------------------------------------------
\* Mutant: nobody is told of a tunnel that goes down.
TellQuietly(w) ==
    /\ manager' = Final(w)
    /\ frames' = IF watching /\ w # <<"idle">> THEN frames \o w ELSE frames
    /\ UNCHANGED lateOutput

\* setState() of the manager, once for each status: whoever listens is told.
Tell(w) ==
    /\ manager' = Final(w)
    /\ frames' = IF watching THEN frames \o w ELSE frames
    /\ UNCHANGED lateOutput

\* start(): nothing happens unless the tunnel is down.
StartTunnel ==
    IF manager \in {"idle", "error"}
    THEN \E w \in Announcements : Starts(w) /\ Tell(w)
    ELSE UNCHANGED <<statusVars, frames>>

StopTunnel == \E w \in Announcements : Stops(w) /\ Tell(w)

Room == Len(frames) < MaxFrames

\* The child's output, its end and the timers.
ManagerMoves ==
    /\ Room
    /\ \E w \in Announcements : Occurs(w) /\ Tell(w)
    /\ UNCHANGED <<proxied, watching, shown, poster, mounted, asked>>

\* Mutant: the observer waits for the first change.
WatchFromNowOn ==
    /\ mounted /\ proxied /\ ~watching
    /\ watching' = TRUE
    /\ frames' = <<>>
    /\ UNCHANGED <<statusVars, proxied, shown, poster, mounted, asked>>

\* GET .../events arrives: the state, and from then on its changes.
Watch ==
    /\ mounted /\ proxied /\ ~watching
    /\ watching' = TRUE
    /\ frames' = <<manager>>
    /\ UNCHANGED <<statusVars, proxied, shown, poster, mounted, asked>>

\* A whole frame has been read.
Frame ==
    /\ mounted /\ frames # <<>>
    /\ shown' = Head(frames)
    /\ frames' = Tail(frames)
    /\ UNCHANGED <<statusVars, proxied, watching, poster, mounted, asked>>

\* The stream breaks off; what was on its way is gone.
StreamCut ==
    /\ watching
    /\ watching' = FALSE
    /\ frames' = <<>>
    /\ UNCHANGED <<statusVars, proxied, shown, poster, mounted, asked>>

\* POST /tunnel of the CLI reaches the manager ...
Post ==
    /\ mounted /\ proxied /\ Room /\ poster = "trying"
    /\ poster' = "posted"
    /\ StartTunnel
    /\ UNCHANGED <<proxied, watching, shown, mounted, asked>>

\* Mutant: it is not the last one.
RepliedOnce ==
    /\ mounted /\ poster = "posted"
    /\ poster' = "trying"
    /\ asked' = "up"
    /\ UNCHANGED <<statusVars, proxied, watching, frames, shown, mounted>>

\* ... and the reply reaches the CLI, which is done with it ...
Replied ==
    /\ mounted /\ poster = "posted"
    /\ poster' = "done"
    /\ asked' = "up"
    /\ UNCHANGED <<statusVars, proxied, watching, frames, shown, mounted>>

\* ... or is lost on the way, and the POST is repeated.
ReplyLost ==
    /\ mounted /\ poster = "posted"
    /\ poster' = "trying"
    /\ UNCHANGED <<statusVars, proxied, watching, frames, shown, mounted, asked>>

Asked(wish) == asked' = IF poster = "off" \/ asked # "nothing" THEN wish ELSE asked

\* Someone else's POST and DELETE.
UserStarts ==
    /\ proxied /\ Room
    /\ StartTunnel
    /\ Asked("up")
    /\ UNCHANGED <<proxied, watching, shown, poster, mounted>>

UserStops ==
    /\ proxied /\ Room
    /\ StopTunnel
    /\ Asked("down")
    /\ UNCHANGED <<proxied, watching, shown, poster, mounted>>

\* The dev server goes down, and everything that went through it.
ServerDown ==
    /\ proxied
    /\ proxied' = FALSE
    /\ watching' = FALSE
    /\ frames' = <<>>
    /\ poster' = IF poster = "posted" THEN "trying" ELSE poster
    /\ UNCHANGED <<statusVars, shown, mounted, asked>>

ServerUp ==
    /\ ~proxied
    /\ proxied' = TRUE
    /\ UNCHANGED <<statusVars, watching, frames, shown, poster, mounted, asked>>

\* The effect's clean-up aborts both loops.
Unmount ==
    /\ mounted
    /\ mounted' = FALSE
    /\ watching' = FALSE
    /\ frames' = <<>>
    /\ poster' = IF poster = "trying" THEN "aborted" ELSE poster
    /\ UNCHANGED <<statusVars, proxied, shown, asked>>

\* A POST that was sent before the clean-up arrives after it.
LatePost ==
    /\ proxied /\ Room /\ poster = "aborted"
    /\ poster' = "late"
    /\ StartTunnel
    /\ UNCHANGED <<proxied, watching, shown, mounted, asked>>

ControlNext ==
    \/ ManagerMoves
    \/ Watch \/ Frame \/ StreamCut
    \/ Post \/ Replied \/ ReplyLost
    \/ UserStarts \/ UserStops
    \/ ServerDown \/ ServerUp
    \/ Unmount \/ LatePost

ControlSpec == ControlInit /\ [][ControlNext]_controlVars

-----------------------------------------------------------------------------
\* Type invariant of the control plane.
ControlTypeOK ==
    /\ manager \in Statuses /\ shown \in Statuses
    /\ wantUp \in BOOLEAN /\ lateOutput \in BOOLEAN
    /\ proxied \in BOOLEAN /\ watching \in BOOLEAN /\ mounted \in BOOLEAN
    /\ frames \in Seq(Statuses) /\ Len(frames) <= MaxFrames + 1
    /\ poster \in {"off", "trying", "posted", "done", "aborted", "late"}
    /\ asked \in {"nothing", "up", "down"}

\* The terminal tells the truth and obeys: while its stream is open and read to
\* the end, it shows the manager's status, whatever restarts and broken streams
\* came before; and once the CLI's POST has been answered, a tunnel that someone
\* stopped is not wanted again until someone starts it, and is shown as "idle"
\* unless a killed child's late output is shown instead.
ControlHolds ==
    /\ watching /\ frames = <<>> => shown = manager
    /\ asked = "down" => ~wantUp /\ (lateOutput \/ manager = "idle")
=============================================================================
