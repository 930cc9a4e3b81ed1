---------------------------- MODULE McpMiddleware ---------------------------
(***************************************************************************)
(* The middleware around the server's MCP handlers (server/middleware.ts)  *)
(* and its installation (server/server.ts): run() or a connect() installs  *)
(* what was registered until then around every handler there is, and makes *)
(* the map of handlers do the same to any handler set later.               *)
(*                                                                         *)
(* The installation marks itself as done and then awaits the analytics: a  *)
(* connect() meanwhile finds the mark and serves what is there.  A         *)
(* middleware may call next() when it likes: twice, after it has returned, *)
(* or never.                                                               *)
(***************************************************************************)
EXTENDS Selections, SequencesExt

CONSTANTS
    Layers,   \* the application's middleware
    Methods,  \* MCP methods, requests and notifications
    Covers,   \* Covers[l]: the methods a layer's filter matches
    McpCalls, \* requests to the server
    Unset     \* no handler

\* The analytics' layer covers all requests, the other one resources/list.
OwnLayers == {"analytics", "viewListMeta"}

ASSUME MiddlewareAssumption ==
    /\ Layers \cap OwnLayers = {}
    /\ Covers \in [Layers \cup OwnLayers -> SUBSET Methods]
    /\ Unset \notin Seq(Layers \cup OwnLayers)

VARIABLES
    registered, \* mcpMiddlewareEntries
    applied,    \* mcpMiddlewareApplied
    installing, \* installAnalytics() is awaited
    around,     \* the entries that new handlers are wrapped in, or Unset
    handlers,   \* handlers[m]: the layers around the handler of m, or Unset
    serving,    \* requests may arrive
    early,      \* history: a connect() came while installing
    request     \* request[c]: how a request passes through its layers

middlewareVars == <<registered, applied, installing, around, handlers, serving,
                    early, request>>

NotCalled == [method |-> Unset, layers |-> Unset, index |-> 0, nexted |-> {}, handled |-> 0]

MiddlewareInit ==
    /\ registered = <<>>
    /\ applied = FALSE /\ installing = FALSE
    /\ around = Unset
    /\ handlers = [m \in Methods |-> Unset]
    /\ serving = FALSE /\ early = FALSE
    /\ request = [c \in McpCalls |-> NotCalled]

-----------------------------------------------------------------------------
LayersFor(m) == {l \in Layers \cup OwnLayers : m \in Covers[l]}

\* buildMiddlewareChain(): the entries that match, outermost first, around what
\* is there.
Chain(m, entries, inner) == Only(entries, LayersFor(m)) \o inner

\* mcpMiddleware(); once applied it throws.
Register(l) ==
    /\ ~applied /\ l \notin ToSet(registered)
    /\ registered' = Append(registered, l)
    /\ UNCHANGED <<applied, installing, around, handlers, serving, early, request>>

\* A handler is set, or set again: bare until the maps are instrumented.
SetHandler(m) ==
    /\ handlers' = [handlers EXCEPT ![m] =
                      IF around = Unset THEN <<>> ELSE Chain(m, around, <<>>)]
    /\ UNCHANGED <<registered, applied, installing, around, serving, early, request>>

\* Mutant: another run() or connect() installs it again.
ApplyAgain ==
    /\ ~installing
    /\ applied' = TRUE /\ installing' = TRUE
    /\ UNCHANGED <<registered, around, handlers, serving, early, request>>

\* run() or connect() comes to applyMcpMiddleware().
Apply ==
    /\ ~applied
    /\ applied' = TRUE /\ installing' = TRUE
    /\ UNCHANGED <<registered, around, handlers, serving, early, request>>

\* The analytics are there, or off; every handler is wrapped, and the maps wrap
\* what comes.
Instrument ==
    /\ installing
    /\ installing' = FALSE
    /\ \E own \in {<<"viewListMeta">>, <<"analytics", "viewListMeta">>} :
        LET entries == own \o registered
        IN  /\ around' = entries
            /\ handlers' = [m \in Methods |->
                 IF handlers[m] = Unset THEN Unset
                 ELSE Chain(m, entries, handlers[m])]
    /\ serving' = TRUE
    /\ UNCHANGED <<registered, applied, early, request>>

\* Another connect() has nothing to wait for.
ConnectAgain ==
    /\ applied
    /\ serving' = TRUE
    /\ early' = (early \/ installing)
    /\ UNCHANGED <<registered, applied, installing, around, handlers, request>>

\* executeLayer(): the next layer, or the handler after the last one.
Deeper(c, q) ==
    request' = [request EXCEPT ![c] =
      IF q.index < Len(q.layers) THEN [q EXCEPT !.index = @ + 1]
      ELSE [q EXCEPT !.handled = @ + 1]]

\* A request for a method that has a handler.
Arrive(c, m) ==
    /\ serving /\ request[c].layers = Unset /\ handlers[m] # Unset
    /\ Deeper(c, [NotCalled EXCEPT !.method = m, !.layers = handlers[m]])
    /\ UNCHANGED <<registered, applied, installing, around, handlers, serving, early>>

\* Mutant: next() is good for more than one call.
NextRepeats(c, i) ==
    /\ request[c].layers # Unset /\ i \in 1 .. request[c].index
    /\ request[c].handled < 2
    /\ Deeper(c, request[c])
    /\ UNCHANGED <<registered, applied, installing, around, handlers, serving, early>>

\* A layer that was entered calls its next() for the first time.  (Any other
\* call throws, and a layer's return changes nothing.)
CallNext(c, i) ==
    /\ request[c].layers # Unset /\ i \in 1 .. request[c].index
    /\ i \notin request[c].nexted
    /\ Deeper(c, [request[c] EXCEPT !.nexted = @ \cup {i}])
    /\ UNCHANGED <<registered, applied, installing, around, handlers, serving, early>>

MiddlewareNext ==
    \/ \E l \in Layers : Register(l)
    \/ \E m \in Methods : SetHandler(m)
    \/ Apply
    \/ Instrument
    \/ ConnectAgain
    \/ \E c \in McpCalls, m \in Methods : Arrive(c, m)
    \/ \E c \in McpCalls : \E i \in 1 .. Len(registered) + 2 : CallNext(c, i)

MiddlewareSpec == MiddlewareInit /\ [][MiddlewareNext]_middlewareVars

-----------------------------------------------------------------------------
\* Type invariant of the installation and the requests.
MiddlewareTypeOK ==
    /\ registered \in Seq(Layers)
    /\ applied \in BOOLEAN /\ installing \in BOOLEAN
    /\ serving \in BOOLEAN /\ early \in BOOLEAN
    /\ around \in {Unset} \cup Seq(Layers \cup OwnLayers)
    /\ handlers \in [Methods -> {Unset} \cup Seq(Layers \cup OwnLayers)]
    /\ \A c \in McpCalls :
        /\ request[c].method \in Methods \cup {Unset}
        /\ request[c].layers \in {Unset} \cup Seq(Layers \cup OwnLayers)
        /\ request[c].index \in Nat /\ request[c].handled \in Nat
        /\ request[c].nexted \subseteq 1 .. request[c].index

\* Every request passes each registered layer that covers its method, in the
\* order of registration, and reaches the handler once at most and only after
\* the last of them called next(): whenever its handler was set, however often
\* the server was connected, and whatever the layers do with next().  (Not one
\* that a connect() let in while the installation was awaited.)
OnionHolds ==
    ~early =>
        \A c \in McpCalls : request[c].layers # Unset =>
            /\ Only(request[c].layers, Layers) =
                 Only(registered, LayersFor(request[c].method))
            /\ IsInjective(request[c].layers)
            /\ request[c].handled <= 1
            /\ request[c].handled = 1 =>
                request[c].nexted = DOMAIN request[c].layers
=============================================================================
