------------------------------ MODULE MCSurface -----------------------------
\* The parts at the program's edges beside each other: a behaviour is one of
\* the part it begins in, and the others stay as they are.
EXTENDS RateLimiter, ResponseTransform, EdgeRuleset, ViewState, IpRanges,
        AgentTelemetry, TunnelControl, FederatedAuth, AuthSessions, Migrations,
        McpMiddleware, ToolCalls, ServingAdapters, ObservabilityStream, TLC

VARIABLE part

Parts == {"limiter", "response", "edge", "view", "ranges", "table", "control",
          "drill", "summary", "server", "tokens", "migrations", "middleware",
          "calls", "adapters", "stream"}

\* One tool with a budget, and one without any.
LimiterConfigs == {[burst |-> 2, refill |-> 1], [burst |-> 0, refill |-> 2]}

\* Half of a family, all of it, one address, and a prefix that does not parse.
SomeEntries ==
    LET Number(n) == [i \in 0 .. 1 |-> (n \div 2^i) % 2]
    IN  {[family |-> "v4", number |-> Number(3), bits |-> 1],
         [family |-> "v4", number |-> Number(1), bits |-> 0],
         [family |-> "v6", number |-> Number(1), bits |-> 2],
         [family |-> "v6", number |-> Number(2), bits |-> 3]}

\* One address and two identities at it, and a request without an address.
SomeRows ==
    [class : {"cli"}, ip : {"i"}, outcome : {"resolved", "dead_end"}, ts : 0 .. 2]
        \cup [class : {"browser-agent"}, ip : {"i"}, outcome : {"dead_end"}, ts : {2}]
        \cup [class : {"chat-fetcher"}, ip : {"i", NoAddress}, outcome : {"resolved"},
              ts : {1}]

\* An old dead end, which was rescued, two requests that succeed later, one of
\* them an action, and another kind of fetch.
SomeCaptures ==
    LET Captured(c, o, t, w) ==
        [id |-> 0, class |-> c, ip |-> "i", outcome |-> o, ts |-> t,
         write |-> w, served |-> t = 0]
    IN  {Captured("cli", "dead_end", 0, FALSE), Captured("cli", "resolved", 1, TRUE),
         Captured("chat-fetcher", "dead_end", 2, FALSE),
         Captured("cli", "resolved", 3, FALSE)}

\* The captures walked through: what they came to is left aside.
Walked(captured) == \A i \in DOMAIN captured : captured[i].outcome = "dead_end"

Owner == [t \in Tokens |-> CHOOSE u \in Users : TRUE]

\* Requests with a token and requests to the API, of which two overlap.
UnderWay ==
    Cardinality({q \in Calls : call[q] # IdleCall})
        + Cardinality({a \in Admins : admin[a] # IdleAdmin})

\* A layer for everything, and one for a single method.
SomeCovers ==
    [analytics |-> {"a", "b"}, viewListMeta |-> {"b"}, l1 |-> {"a", "b"}, l2 |-> {"b"}]

\* Two rulesets: the second takes for a crawler what the first takes for an
\* agent, and knows every shape.
SomeRulesets ==
    LET Named(u, c, b) == [ua |-> u, class |-> c, confidence |-> "ua", bare |-> b]
        Shaped(w, c) == [when |-> w, class |-> c, confidence |-> "shape"]
    IN  {Pending,
         [version |-> 1,
          names |-> <<Named("bot", "crawler", ""), Named("agent", "chat-fetcher", "both")>>,
          shapes |-> <<Shaped("titled", "agent-mode"), Shaped("secFetch", "human-or-browser")>>],
         [version |-> 2,
          names |-> <<Named("bot", "crawler", ""), Named("agent", "crawler", "")>>,
          shapes |-> <<Shaped("always", "tool")>>]}

\* An agent, a crawler that asks for markdown, an agent that claims to be a
\* browser, a tool that asks for markdown, and an agent that fetches a file.
SomeVisitors ==
    {[page |-> TRUE, markdown |-> FALSE, ua |-> "agent", signals |-> {}],
     [page |-> TRUE, markdown |-> TRUE, ua |-> "bot", signals |-> {}],
     [page |-> TRUE, markdown |-> FALSE, ua |-> "browser", signals |-> {"titled", "secFetch"}],
     [page |-> TRUE, markdown |-> TRUE, ua |-> "tool", signals |-> {}],
     [page |-> FALSE, markdown |-> FALSE, ua |-> "agent", signals |-> {"secFetch"}]}

\* One state stands for all that a part might begin in while it is idle.
SurfaceInit ==
    /\ part \in Parts
    /\ LimiterInit /\ ViewInit /\ IpInit /\ SessionsTableInit /\ TelemetryInit
    /\ FederatedInit /\ SessionsInit /\ MiddlewareInit /\ ToolCallsInit /\ StreamInit
    /\ ResponseInit
    /\ part # "response" => mount = "server" /\ gate = {} /\ head = "other"
    /\ EdgeInit
    /\ part # "edge" => enabled
    /\ ControlInit
    /\ part # "control" => proxied /\ poster = "off" /\ ~lateOutput
    /\ MigrationsInit
    /\ part # "migrations" => engine = "sqlite"
    /\ AdaptersInit
    /\ part # "adapters" =>
        /\ platform = "next" /\ loaded = Pending
        /\ visitor = CHOOSE v \in Visitors : TRUE

SurfaceNext ==
    /\ UNCHANGED part
    /\ IF part = "limiter" THEN LimiterNext ELSE UNCHANGED limiterVars
    /\ IF part = "response" THEN ResponseNext ELSE UNCHANGED responseVars
    /\ IF part = "edge" THEN EdgeNext ELSE UNCHANGED edgeVars
    /\ IF part = "view" THEN ViewNext ELSE UNCHANGED viewVars
    /\ IF part = "ranges" THEN IpNext ELSE UNCHANGED ipVars
    /\ IF part = "table" THEN Store ELSE UNCHANGED rows
    /\ \/ part = "drill" /\ (TableNext \/ DrillNext) /\ lastId' <= 3 /\ Walked(kept')
       \* An answer that was given does not change; one write between its queries
       \* is as good as several.
       \/ part = "summary" /\ \/ summary.phase # "read" /\ summary.quiet /\ TableNext
                              \/ SummaryNext
       \/ part \notin {"drill", "summary"} /\ UNCHANGED telemetryVars
    /\ IF part = "control" THEN ControlNext ELSE UNCHANGED controlVars
    /\ IF part = "server" THEN FederatedNext ELSE UNCHANGED federatedVars
    /\ IF part = "tokens" THEN SessionsNext /\ UnderWay' <= 2 ELSE UNCHANGED sessionVars
    /\ IF part = "migrations" THEN MigrationsNext ELSE UNCHANGED migrationVars
    /\ IF part = "middleware" THEN MiddlewareNext ELSE UNCHANGED middlewareVars
    /\ IF part = "calls" THEN ToolCallsNext ELSE UNCHANGED toolCallVars
    /\ IF part = "adapters" THEN AdaptersNext ELSE UNCHANGED adapterVars
    /\ IF part = "stream" THEN StreamNext ELSE UNCHANGED observeVars

SurfaceVars == <<part, limiterVars, responseVars, edgeVars, viewVars, ipVars,
                 rows, telemetryVars, controlVars, federatedVars, sessionVars,
                 migrationVars, middlewareVars, toolCallVars, adapterVars,
                 observeVars>>

SurfaceSpec == SurfaceInit /\ [][SurfaceNext]_SurfaceVars

\* Type invariant of the part that moves; and the limiter keeps no more buckets
\* than it may: a refusal, which does not prune, finds its bucket there already.
SurfaceTypeOK ==
    /\ part = "limiter" => LimiterTypeOK /\ Cardinality(Tracked) <= MaxBuckets
    /\ part = "response" => ResponseTypeOK
    /\ part = "edge" => EdgeTypeOK
    /\ part = "view" => ViewTypeOK
    /\ part = "ranges" => IpTypeOK
    /\ part = "table" => RowsTypeOK
    /\ part \in {"drill", "summary"} => TelemetryTypeOK
    /\ part = "control" => ControlTypeOK
    /\ part = "server" => FederatedTypeOK
    /\ part = "tokens" => SessionsTypeOK
    /\ part = "migrations" => MigrationsTypeOK
    /\ part = "middleware" => MiddlewareTypeOK
    /\ part = "calls" => ToolCallsTypeOK
    /\ part = "adapters" => AdaptersTypeOK
    /\ part = "stream" => StreamTypeOK

\* Keys, isolates, transactions, tokens and processes are all given the same two
\* values, codes and admins two others: no part compares those of different
\* kinds, and the group stays small.
SurfaceSymmetry == Permutations(Keys) \cup Permutations(Codes)
=============================================================================
