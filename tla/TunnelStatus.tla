----------------------------- MODULE TunnelStatus -----------------------------
(***************************************************************************)
(* What the rest of the program sees of the tunnel manager (cli/tunnel.ts):*)
(* the statuses it announces one after another in a step, and whether the  *)
(* tunnel is wanted, with no child process and no timer.  The manager of a *)
(* provider whose ensure() is synchronous, as that of srv.us, implements   *)
(* it (TunnelManager); TunnelControl is built upon it.                     *)
(***************************************************************************)
EXTENDS Naturals, Sequences

VARIABLES
    manager,    \* the status
    wantUp,     \* the tunnel is wanted
    lateOutput  \* a killed child's pipe still delivers what it wrote

statusVars == <<manager, wantUp, lateOutput>>

Statuses == {"idle", "starting", "connected", "reconnecting", "error"}
AtWork == {"starting", "connected", "reconnecting"}

StatusInit ==
    /\ manager = "idle"
    /\ wantUp = FALSE
    /\ lateOutput \in BOOLEAN

\* What is announced in a step.
Announcements == {<<s>> : s \in Statuses}
                    \cup {<<s, "error">> : s \in {"starting", "reconnecting"}}

Final(w) == w[Len(w)]

\* start(), when the tunnel is down; the child may fail to spawn at once.
Starts(w) ==
    /\ manager \in {"idle", "error"}
    /\ w \in {<<"starting">>, <<"starting", "error">>}
    /\ wantUp' = TRUE

\* stop()
Stops(w) ==
    /\ w = <<"idle">>
    /\ wantUp' = FALSE

\* A line of output: the URL, or progress before it.  A killed child's is shown
\* whatever the status is.
Output(w) ==
    /\ lateOutput \/ (wantUp /\ manager \in AtWork)
    /\ \/ w = <<"connected">>
       \/ w = <<"starting">> /\ manager # "connected"
    /\ UNCHANGED wantUp

\* The child ends.
Drop(w) ==
    /\ wantUp /\ manager \in AtWork
    /\ w = <<"reconnecting">>
    /\ UNCHANGED wantUp

\* The reconnect timer fires, under late output whatever that has shown since.
Respawn(w) ==
    /\ wantUp
    /\ manager = "reconnecting" \/ (lateOutput /\ manager \in AtWork)
    /\ w \in {<<"reconnecting">>, <<"reconnecting", "error">>}
    /\ UNCHANGED wantUp

\* The connect timer fires.
TimeOut(w) ==
    /\ wantUp /\ manager \in {"starting", "reconnecting"}
    /\ w = <<"error">>
    /\ wantUp' = FALSE

\* What happens to the manager of itself.
Occurs(w) == Output(w) \/ Drop(w) \/ Respawn(w) \/ TimeOut(w)

StatusNext ==
    \E w \in Announcements :
        /\ Starts(w) \/ Stops(w) \/ Occurs(w)
        /\ manager' = Final(w)
        /\ UNCHANGED lateOutput

StatusSpec == StatusInit /\ [][StatusNext]_statusVars
===============================================================================
