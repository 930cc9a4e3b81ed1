# A verification project for enpilink

enpilink is a TypeScript framework for MCP servers and apps. Beside the
sequential work of serving a tool or a view, its core package
(`src/packages/core/src`, abbreviated `core/` below) runs a good deal of
concurrent machinery in one Node event loop: a tunnel supervisor, a write
buffer, self-refreshing ruleset clients, backfills, gates that cache the
configuration, an authorization server with sessions and a revocation list,
response wrappers, a live stream. This directory holds TLA+ models of that
machinery, the TLC runs that check them and the theorems TLAPS proves about
them.

Contents: 1 inventory of the system, 2 the modules and how they correspond to
the code, 3 what each run checks, with bounds and fairness, 4 what is proved,
5 what disagrees with the documentation, 6 what is not modelled, 7 what is left.

## 1. Inventory

| Component | State | Operations | Interacts with |
|---|---|---|---|
| Agent write buffer `core/server/agent/buffer.ts` | queue, timer handle, `flushing`, drop counter | `enqueue`, the interval timer, `flush`, `stop` | called by the capture recorder, awaits storage |
| Capture path `agent/express-middleware.ts`, `agent/adapter/core.ts` | per request a `recorded` flag; the salt and its one lookup | middleware, `finish`/`close` listeners, `record`, `stop` | reads the gate and the holder, enqueues into the buffer, nudges the ruleset client |
| Backfill `agent/backfill.ts` | a page of rows, a version | page loop | started by each ruleset activation, reads and updates storage |
| Ruleset client `agent/ruleset/client.ts`, `bootstrap.ts`, `holder.ts`, `disk-cache.ts` | `current`, `nextAllowedAt`, `inflight`, `started`, `stopped`; the process-wide client; the holder; a cache file | `start`, `maybeRefresh`, `doFetch`, `stop`, bootstrap | the network, a file, the configuration |
| Edge ruleset client `agent/ruleset/edge-client.ts`, `edge-cache.ts` | a held copy and its due time in each isolate, one shared cache | `warm`, `refreshInBackground`, `doFetch` | an edge cache, isolates that end at any time |
| Response adaptation `agent/response-transform.ts`, `agent/route.ts`, `agent/adapter/express.ts`, `agent/serve-eligibility.ts` | buffered chunks, flags of the record | wrapped `write`/`end`, rescue, spa, reencode | the application, the client, the capture path |
| Adapters of other platforms `agent/adapter/hono.ts`, `agent/cloudflare/*`, `agent/next/*`, `agent/edge/*`, `agent/ingest.ts` | none but a queue in each isolate | decide, replace, record | the application, the ruleset held, a sink |
| Agent telemetry `agent/telemetry.ts`, `sessions.ts`, `outcomes.ts`, `detect.ts` | none | summary, drill-down, sessions, detection | storage, the console's pages |
| Configuration `server/config/*`, `server/capture-gate.ts`, `agent/capture-gate.ts` | stored overrides, an audit log, two cached gates | save, reset, preset, gate refresh | storage, every captured request |
| Analytics and observability `server/analytics.ts`, `log-sink.ts`, `observability.ts` | events, log lines; a cursor for each stream | record, append, poll | storage, the dashboard |
| Tunnel manager `core/cli/tunnel.ts` | status, child, `wantUp`, two timers | `start`, `stop`, the child's events | a provider's process |
| Tunnel control plane `cli/tunnel-handler.ts`, `cli/use-tunnel.ts`, `server/tunnel-proxy-router.ts` | subscribers, an observer's connection, its POST | routes, SSE stream, retried POST | the tunnel manager, a dev server that restarts |
| Storage `server/storage/*` | tables, a schema version | queries, migrations, retention | everything above |
| Federating authorization server `server/auth-federation*.ts` | transactions, cookies, one-time codes, refresh tokens | authorize, sign in, guest, callback, token, refresh | an upstream provider |
| Authentication runtime `server/auth-*.ts` | sessions, users, denylist | verify, record, revoke, delete, evict | storage, an issuer |
| Rate limiter `agent/transports/rate-limit.ts` | token buckets by key | check, prune | the GET transport |
| IP range verifier `agent/ip-ranges.ts` | a table for each vendor, a fetch for each | `ensureFresh`, `verify` | the network |
| Server and MCP middleware `server/server.ts`, `server/middleware.ts` | registered layers, the handlers' map | register, install, `connect` | analytics, every MCP request |
| Web bridges and hooks `core/web/*` | view state, local storage, calls in flight | `setViewState`, restore, `callTool` | the host |
| Build plugin, CLI, scaffolding, console | files, browser stores | sequential | the file system, the read interfaces |

What is hard in them. Everything is single-threaded, so the hazards are those of
awaits and callbacks: state read before an await and used after it (the ruleset
client, `spawnChild`, `record`), callbacks of an object that was replaced (a
killed child's output, a stopped client's fetch), timers that outlive their
cause, flags that serialise re-entry (`flushing`, `inflight`, `started`),
several backfills over one table, and what a crash leaves behind. Properties
that make each component correct:

- buffer: bounded memory, nothing stranded, order, exactly-once accounting, drops
  only under back-pressure;
- capture: a response is recorded once, a stored row gets its label in the end;
- ruleset client: the classifier uses what the live client holds, a stopped
  client is inert, no rollback, the configured source is followed;
- tunnel: no orphan process, stop is final, timers belong to what they act on, a
  wanted tunnel is supervised;
- configuration: a gate that can follow the store agrees with it once saves have
  settled, and a save that is refused changes nothing;
- authentication: a sign-in yields one code, redeemed once; refreshes never widen
  what was granted; what is revoked is refused; deletions leave no orphan;
- rate limiter: no bucket lets through more than its budget, and waiting as long
  as one was told is enough;
- response adaptation: what leaves is whole and in order under headers that fit,
  and the record does not claim what was not sent, on every platform;
- edge client: passing a copy from cache to cache does not make it younger;
- telemetry: sessions are what the words mean, in whatever order rows of different
  moments were stored, a page walk sees what stays put, a summary is true of one moment;
- stream: what the cursor passes was sent, once;
- tunnel control: the terminal shows the truth, and a tunnel that was stopped is
  not wanted again before someone asks for it;
- migrations: what is on record was made, and a store that opens is whole;
- middleware: each request passes each layer once, in order;
- views: the store, the persisted state and the host's copy agree, and a view
  renders its latest call.

`PROJECT.json` lists every component with its status and, under `hazards`, the
lines where each hazard bites and the properties aimed at it.

## 2. Modules

Each component is one module, a step of which is a stretch of code between two
awaits (or one query, where the component runs over SQL storage). Comments name
the functions; `PROJECT.json`'s `map` gives the lines. Operators called `Mutant:
...` in the comments are plausible bugs that were substituted for the definition
after them to see that a property notices.

**AgentWriteBuffer** (`buffer.ts`). `queue`, `timer`, `flushing` and `dropped`
are the class's fields; `batch` is what the running flush awaits the sink for.
`flush()` has one await, so `Flush(q)` is the code up to the first sink call and
`SinkReturns` the code from its settling to the next call or the end of the loop.
A record is its number in the order of offering. `offered`, `stored`, `lost` and
`mark` are history.

**BoundedDelivery** is what the buffer promises its users: an ordered, bounded
line from which groups leave from the front, stored or lost as a whole. The
buffer implements it with `waiting <- batch \o queue` (`Promise`), and
CapturePipeline uses the promise in the buffer's place.

**CapturePipeline** composes the middleware, the recorder with the awaited salt,
the buffer (by its promise), the table of rows, the activations of rulesets and
the backfill each of them starts. A row is the request it records and the
version it is stamped with, 0 for pending. The queries of a backfill are steps
of their own, as they are with PostgreSQL; SQLite and the memory adapter answer
within the microtask, which is the special case of consecutive steps.

**RulesetClient** (`client.ts`, `bootstrap.ts`, `holder.ts`, `disk-cache.ts`).
Several clients, as bootstrap replaces them; `client` is the process-wide slot
and `holder` what the classifier reads. `phase[c]` and `fetch[c]` are where the
two chains of awaits of a client are, so they overlap in every order. Time is
abstract: `waiting[c]` is `now < nextAllowedAt`. Several branches of `start`
share `MaybeRefresh`, as they share the method in the code.

**TunnelManager** (`tunnel.ts`). Two settings are chosen with the provider, at
`Init`: whether `ensure()` settles in a later turn (the interface allows it, the
shipped provider does not use it) and whether a killed child's pipe still
delivers output. A child is a slot of `Children`; slots are reused, so that
starts and drops are unbounded. A timer is named by the child it was set for,
apart from the handle the manager remembers, which is how a handle that was
overwritten shows.

**TunnelStatus** is what others see of the manager: the statuses it announces, one
or two in a step, and whether the tunnel is wanted. A killed child's late output
may move it to "connected" from any status, and to "starting" from any other
(tunnel.ts:168-170, 256-273). TunnelManager implements it when `ensure()` is synchronous (checked in
Tunnel, as part of `StepsHold`, and proved), and TunnelControl is built upon it.

**ConfigGate** (`config/router.ts`, `storage/postgres.ts`, both
`capture-gate.ts`). A handler of a request is a record: its phase, the writes
left to do (one for a save, several for a preset), the old value it read and the
rows its refresh read; the refresh of the agent gate at the start of the process
takes the slot of a request. A process starts with its store active before the
gates are resolved, or, in production with the admin plane on and the analytics
off, after it (`BootGate`); `followed` says whether both gates have been resolved
with the store there. `followed`, `unsettled` and `gaps` are history: the last two
note a failed query, a write that overtook an answer already read, and overlapping
writes of a key, which are the cases in which the code promises nothing.

**FederatedAuth** (`auth-federation.ts`, `auth-federation-router.ts`). A
transaction waits in `pending`, is under way in `exchange` while the upstream
code is exchanged, and ends in an issued code. A browser's cookie names one
transaction. A token request is a record that passes the challenge, takes the
code, and awaits the signature. Time limits are names in sets of what has run
out; a restart empties everything but the signed tokens.

**AuthSessions** (`auth-runtime.ts`, `auth-server.ts`, `auth-revocation.ts`,
`auth-data-router.ts`). A request passes the denylist, the awaited verification
and the guard, and goes on while user and session are written behind it. The API
deletes sessions and users, query by query as PostgreSQL runs them. A denylist
entry is evicted when it is looked up past its horizon.

**RateLimiter** (`transports/rate-limit.ts`, `get-router.ts`). Tokens are counted
in fractions, so that refills and the rounding of Retry-After are exact. The
clock may be set back; the configuration of a key may change at every request.

**ResponseTransform** (`response-transform.ts`, `route.ts`,
`express-middleware.ts`, `adapter/express.ts`). One response: the application's
chunks, the buffer and its overflow, headers that leave early, the rescue of a
missing page, and the record made at `finish` or `close`.

**ServingAdapters** (`serve-eligibility.ts`, `detect.ts`, `adapter/hono.ts`,
`cloudflare/index.ts`, `next/index.ts`, `edge/capture-edge.ts`, `capture.ts`).
One request on one of three platforms. `chosenBy` is the ruleset the answer was
chosen by, and `loaded` the one of now, by which Hono labels the row. The two
lists of rules, the corroboration of a name and the eligibility are the code's;
a header is a signal.

**EdgeRuleset** (`edge-client.ts`, `edge-cache.ts`). A copy is the moment it was
fetched and its age; `born`, which the code does not keep, is the moment the
network really gave it. The cache may return any earlier entry.

**IpRanges** (`ip-ranges.ts`). Addresses are words of `Width` bits, from the
lowest on; the mask is made by the shift and applied by the `&`, bit by bit, and
the verdict compared with `StartsWith`, which asks for the bits of the prefix. The
prefix of no bits, whose mask JavaScript's shift would not make, is the code's
case of its own.

**Selections** holds what two modules do to a list: `Only(seq, set)`, the
elements of a sequence that are in a set, in order. It is written as a recursive
function, which the provers can reason about.

**AgentSessions** (`sessions.ts`) holds the pure functions over stored rows and
what they mean, without any order of scanning: a request is a row at its place,
so that equal rows are told apart; a bucket is the requests of an identity; and
sessions are the smallest sets of requests that no other request is linked to.
Recoveries and escalations are pairs of an earlier and a later request. Of two
requests of one moment the code takes the one stored first for the earlier, so
there the meaning gives a bound: what strict times give, and what pairs of one
moment may add.
**AgentTelemetry** (`telemetry.ts`, `outcomes.ts`, the queries of `storage/*.ts`,
the console's `routes.tsx`) extends it with the table or ring that changes
meanwhile, the two queries of the summary and the pages of the drill-down.

**ObservabilityStream** (`analytics.ts`, `log-sink.ts`, `observability.ts`).
What is stamped at its beginning and stored at its end, and one connection that
polls past one cursor. All of a stream's state is its own, so one connection
that may come at any time stands for all.

**TunnelControl** (`use-tunnel.ts`, `tunnel-handler.ts`,
`tunnel-proxy-router.ts`). The manager is TunnelStatus here, which TunnelManager
implements; every status it announces is sent to whoever listens; `frames` are the
events on their way to the terminal.
A restart of the dev server cuts the stream and the replies under way.

**Migrations** (`storage/migrations.ts`). `schema` is what statements have made,
`recorded` the versions on record. One module for both engines, as they differ
in three operators: whether a statement may be repeated, how many of them are
one step, and what is read at the start.

**McpMiddleware** (`server.ts`, `middleware.ts`). Handlers set before, during and
after the one installation; a request is the stack of layers around its handler
and how far it came; a layer may call `next()` late, twice or never.

**ViewState** (`mcp-app/adaptor.ts`, `bridge.ts`, `create-store.ts`,
`data-llm.tsx`) and **ToolCalls** (`use-call-tool.ts`) are the web side: nested
listeners, the connection to the host, eviction from the local storage; calls
that overtake each other and callbacks that throw.

**MCSurface** puts the fifteen of these beside each other as sixteen parts. They
share no state; a behaviour moves the part it begins in and leaves the others as
they were, so the run's properties are those of each part by itself, and the
state space is the sum, not the product. Isolates, tokens, transactions, keys
and processes are given the same two model values and codes, admins and polls
two others: no part compares those of different kinds, which makes the two
permutations sound for all parts at once.

Each `MC...` module adds what only TLC needs (symmetry); MCSurface also has the
composition, about which there are theorems. Each `..._proofs` module holds the
theorems of the component it names; three hold several: Edges_proofs those of
eight parts of Surface (edge client, tunnel control, tool calls, migrations,
adapters, stream, views, responses), Telemetry_proofs those of AgentSessions and
AgentTelemetry, and Surface_proofs those of the limiter, the two of
authentication, the ranges, the middleware, and of the composition.

## 3. Runs

| Run | What it shows | Bounds |
|---|---|---|
| Buffer | `TypeOK`; `Accounted`: bounded memory, every record in exactly one place, in order; `NotStranded`; `StopDrains`; the refinement of BoundedDelivery with its liveness | a queue of 3 and batches of 2 (so a batch, a remainder and an overflow all occur), 6 records, two callers of `stop` |
| Tunnel | `TypeOK`; `InHand`: no orphan, timers belong to what they act on; `DownIsFinal`; `StatusHolds`: a wanted tunnel is supervised and the URL shown is live; `StepsHold`: a process is started only while the tunnel is wanted, and with a synchronous `ensure()` each step is one of TunnelStatus; `Settles`: a start settles, a drop is followed up | three children: one attached, one killed and one successor; two pending `ensure()` |
| Tunnel_late_output | a disagreement, see 5 | two children |
| Ruleset_safety | `TypeOK`; `HolderIsLive`; `StoppedIsInert`; `NeverRollsBack` | two clients and two releases: one replaced client with something pending, and one version change |
| Ruleset_live | `Follows`: the configured source is followed in the end, be it remote or the packaged one | one client (another adds nothing to what it owes), two releases |
| Ruleset_refetch | a disagreement, see 5 | one client, two releases |
| Capture | `TypeOK`; `RecordedOnce`; `BacklogDone`: a completed backfill leaves no backlog pending, or at an older version; `BackfillsComplete`: backfills end, pending rows are labelled | two requests, two activations (the least for an overlap and for a re-labelling), pages of one row (so there are several pages), one crash |
| Capture_in_flight | a disagreement, see 5 | one request, one activation |
| Config | `TypeOK`; `GateIsCurrent` at rest, once both gates could be resolved with the store there; `AuditExplains` what is stored | two overlapping requests; two settings, one for each gate, both in the preset; one value and the reset, beside the default |
| Config_degraded | a disagreement, see 5 | one request |
| Surface | the parts below | below |
| Migrations_torn | a disagreement, see 5 | two processes |

The parts of Surface, with their properties. `SurfaceTypeOK` is the types of the
part that moves, and that the limiter keeps no more buckets than it may.

| Part | What it shows | Bounds |
|---|---|---|
| limiter | `LimiterHolds`: no bucket lets through more than its budget, and each Retry-After is honest | two keys, of which one is kept; bursts up to 2, tokens of 3 fractions, a budget of nothing among the two; 4 ticks, the clock set back at will |
| response | `ResponseHolds`: what leaves is whole, in order, under its headers; the record tells it | four chunks over a buffer of two, one of which runs over |
| adapters | `AdapterHolds`: the same for the other platforms' answers and rows; nothing for crawlers but the page | two rulesets and none, the second taking for a crawler what the first serves; five visitors; all statuses of distinct treatment |
| edge | `NotOlderThanTtl` | two isolates, copies that may be used for 0 and 2 moments of 2 |
| view | `ViewAgrees` | two values, one description, two ids, two calls under way to the host |
| calls | `CallsHold` | three calls, so that two overtake the latest |
| ranges | `VerdictsHonest`, for every address | two bits, two lists, prefixes of all lengths and one that does not parse |
| table | the meaning of sessions, within `TelemetryHolds`: exact, but for pairs of one moment | four rows of nine kinds, equal and reversed times among them |
| drill, summary | `TelemetryHolds`: the ring keeps the newest, a walk sees what stays put, counts and sessions are true of one moment | pages of one; three captures for the walk, four for the summary, whose cap and ring are of three |
| server | `FlowYieldsOneGrant`, `ScopesNeverWiden` | two browsers, transactions, codes and token requests; one scope and the guest's |
| tokens | `RevokedRefused`, `DeletionsHold` | two tokens of one user; two at a time of one call and two API requests |
| control | `ControlHolds`, with and without late output of a killed child | three events on their way, and one more when a start fails at once |
| migrations | `SchemaHolds` | two processes, both engines |
| middleware | `OnionHolds` | two layers beside the server's own two, two methods, one request |
| stream | `StreamHolds`: what the cursor passes was sent, and once | two writers, two rows, two polls at a time that return one row each, three moments |

Everything in the models that only bounds the state space is a constant named in
the module with the word "bound". The hazards are pairwise (a callback against
its successor, a refresh against a write, a backfill against an activation, a
deletion against a request), so two actors of a kind and one step more than the
limit of each queue, buffer, page and cache make them occur. Two restrictions of
MCSurface are bounds as well: two of the three requests of "tokens" overlap
(each pair does), and between the two queries of a summary there is one write,
after which the only thing said of the answer is what holds in spite of any. The
theorems of section 4 hold for all values.

Several properties are conjunctions of named parts (`Accounted`, `InHand`,
`StatusHolds`, `Settles`, `Follows`, `BacklogDone`, `BackfillsComplete`,
`LimiterHolds`, `ResponseHolds`, `TelemetryHolds`, `DeletionsHold`,
`AdapterHolds`, `StreamHolds`); the parts are stated and explained one by one in
the modules.

**Deadlock** is checked everywhere but in Buffer, where the bounded calls of
`enqueue` and `stop` are used up in the end; in Surface, whose parts are mostly
one response, one walk or one installation that is over some time; and in
Migrations_torn, where each process has opened the store or was refused. In the
runs with a capture bound, toggling the gate is always possible.

**Fairness.** Weak fairness only on what the runtime owes the code: a timer that
was set fires, an awaited write, query or lookup settles (in either way), a
killed process ends, a fetch settles within its timeout, the clock advances.
Never on a caller: nobody has to offer a record, save a setting or send a
request. There are two exceptions, both in `TrafficSpec` of RulesetClient, where
progress rests on them by design: requests keep arriving (weak; the client
refreshes only when nudged), and an endpoint that is asked again and again
answers some time (strong). The other modules state no liveness: their handlers
are straight-line code between awaits, and each promise about the end of
something (a drained stop, a callback that is called, an answer that is whole)
is stated as an invariant of the states in which it has ended.

## 4. Proofs

For every value of the constants (queue and batch sizes, numbers of children,
clients, releases, settings, overlapping requests), TLAPS checks:

- **AgentWriteBuffer_proofs**: `TypeOK`, `Accounted` with its parts, `NotStranded`,
  `StopDrains`, the safety part of the refinement of BoundedDelivery, and
  `DropsOnlyUnderBackpressure`, which no run repeats. The invariant adds to the checked
  properties that a flush holds a batch exactly while it runs, and that an
  awaited stop implies a running flush. Without the first a settling could
  lose the place of what it took; without the second a stop could count as
  drained by a flush that began before it. The lemmas on sequences (what
  `splice` takes and leaves, that removing a middle part keeps the order) carry
  the rest.
- **TunnelManager_proofs**: `TypeOK`, `InHand`, `StatusHolds`, `DownIsFinal` and
  `StepsHold`. They support each other: `ChildEnds` may clear the remembered timer only because it is the attached child's, and that
  child is the only one running only because every path that detaches a child
  has killed it or seen it end. So one invariant holds them together, with what
  relates the status to the timers. For the refinement (`StatusImplemented`, for
  a synchronous `ensure()`) it adds that "connected" is shown only once the URL
  is known, and that without late output nothing covers up a pending reconnect.
  `ControlKeepsToStatus` in Edges_proofs is the other half: TunnelControl does
  with the manager only what TunnelStatus allows.
- **RulesetClient_proofs**: `TypeOK`, `HolderIsLive`, `StoppedIsInert`,
  `NeverRollsBack`. The invariant says which client may still act (exactly the
  one in the slot), that nothing held, loaded or saved is newer than what was
  published, and that an answer under way is at least as new as what the client
  held when it asked. The last fails exactly if a request nudges the client
  during its cache read, hence `raced`.
- **ConfigGate_proofs**: `TypeOK`, `AuditExplains`, `GateIsCurrent`, and
  `PinnedUntouched`, which no run repeats. The gates' invariant: once they
  follow the store, a key that a gate shows wrongly has a handler that will refresh that gate, and an answer that is held still tells
  what is stored. The log's invariant ties the old value held by a writer, the
  stored value and the newest entry at each of the three queries. The types
  need that a save has one write and that nothing pinned is to be written.

- **CapturePipeline_proofs**: `TypeOK`, `RecordedOnce`, `BacklogDone`. A request's
  row is in one place at most of the four it passes (waiting for the salt, in
  the buffer, in the table, or nowhere yet), which is what keeps the record
  single. For the backfill: what is left of a backlog is on the page being
  worked on or after it, and a page shorter than the limit is the last. TLC's
  pages hold one row; that a page may be cut short by the end of the table, and
  that updates leave the scan in any order, is covered by the proof.
- **Edges_proofs**, one invariant for each of eight parts, named after it
  (`EdgeInvariant` ... `ResponseInvariant`): `NotOlderThanTtl` (the cache keeps
  the moment of a copy, and a due time is within the copy's age or a failure's
  floor); `ControlHolds` (the last event under way is the manager's status, and
  after a stop no POST of the CLI is outstanding and the tunnel is not wanted, so
  that only late output can move it); `CallsHold`; `SchemaHolds` (a
  process has made the statements before the one it is at; one by one unless two
  overlapped, and nothing beyond what is recorded unless a migration was torn);
  `AdapterHolds` (at every stage the flags say which answer is in hand, and the
  label is that of a ruleset under which the visitor could get it);
  `StreamHolds` (a poll has read everything past the cursor it began at, but for
  what came late or was cut off by the limit; with polls in turn and rows in the
  order of their stamps, what lies past the cursor was never sent); `ViewAgrees`
  (the last of several calls that set the state and wait for the host carries
  the view's state); `ResponseHolds` (until the end, what was sent followed by
  what is held back is what was written; the chunks are numbered, so neither a
  document nor its markdown is mistaken for them). The types of these parts
  follow from the same invariants, but for the stream's, the view's and the
  response's: their bounds (how many rows are stored, how many calls to the host
  are under way, how many chunks a wrapper holds) have an induction of their own.
- **Telemetry_proofs**: `TelemetryHolds`, in two halves. What the scans compute
  is what the words mean (`ScansMean`): that a sequence in order exists for each
  bucket, for which the requests of a bucket are counted by their predecessors;
  that the starts found by a scan are as many as the smallest detached sets,
  by the map from each start to the requests up to the next one; that a scan
  which looks ahead until the window ends finds a recovery if there is one, and
  one which looks back an escalation, in the order of time with ties as stored,
  which lies between strict time and time with ties (`TiesBound`); and that the counts of groups add up to
  the number of rows, as the size of a disjoint union. Where one would recur over
  a sequence, the proofs take a least or a greatest place. The other half is an
  invariant (`TelemetryInv`): the ring is what is left of the table when the
  oldest are taken away; of the rows that match from a walk's beginning on, those
  that stand within the pages shown so far have been seen, as long as none of the
  rows before the next page has left and no page was skipped before it came; and a summary's counts are those of the table it counted, and its rows
  the newest of that same table if nothing was stored meanwhile.
- **Surface_proofs**: `LimiterHolds`, both parts (what was let through says
  nothing about what is still there, so the invariant counts the tokens left and
  the time not yet credited as well; a promise survives a refusal because the
  rounding up covers what is missing) and the bound on buckets. Of
  authentication: `FlowYieldsOneGrant`, `ScopesNeverWiden`, `RevokedRefused`,
  `DeletionsHold` (a transaction is in one stage at most, and each stage was
  entered by the browser that began it; scopes shrink along a chain of tokens; a
  denial stands as long as its token could be valid; each deletion under way has
  denylisted, or still holds in hand, every row it has dropped).
  `VerdictsHonest`, for words of every width: two words that agree under a mask
  agree in the prefix, and the other way around; the verifier's table holds
  ranges of the lists that were loaded, in every state. `OnionHolds`: what is
  around a handler is the registered layers that cover its method behind the
  server's own, none of them twice, and a request has passed each as often as
  its frames say; `Only` keeps order and distinctness, and goes over
  concatenation.

  Then the composition: a step of Surface is a step of one part and a stutter of
  the others (`PartsBehave`), so that each part's invariant is one of the
  composition (a part's own specification has none of the restrictions that
  MCSurface adds). From it `SurfaceTypesHold`, and `SurfaceHolds`: every invariant of the run Surface
  holds of `SurfaceSpec`, which is the specification TLC runs.

So every invariant of the passing runs is a theorem of the specification its run
checks, and so are the action properties.

The assumptions are the modules' `ASSUME`s: limits are natural numbers (positive
where the code divides work by them), the constants that stand for `null` are
none of the values, the sets of settings are finite, the two gates mirror
different ones, what stands for no table of ranges is no table, the captures
offered have no id yet, and no rule of a ruleset gives the confidence
"pending", which the schema does not admit (agent/ruleset/schema.ts:41).

Only model-checked are the liveness properties: Buffer's refinement as far as it
is liveness, `Settles`, `Follows`, `BackfillsComplete`. They rest on fairness and
`ENABLED`, which the prover does not treat. No theorem rests on an induction over
what a recursive definition computes, but for the one of `Only`, which goes by
the sequence (a set of sequences closed under Append holds them all).

## 5. Where code and documentation disagree

Each has a run with a counterexample:

- `Tunnel_late_output`: the stdout handler of a killed child is not detached
  and does not ask whether its child is still the attached one. A URL line that
  was in the pipe when `stop()` killed the child shows "connected" with no child
  (types.ts:17 says the tunnel is live), and with a successor it clears the
  successor's connect timeout. A progress line of a child that never connected
  shows "starting" in the same way (tunnel.ts:271), and `start()` then returns at
  once until another `stop()`. TunnelStatus has these moves, so a stopped tunnel
  may be shown as anything but is not wanted; `StatusHolds` and the "idle" of
  `ControlHolds` are stated without late output.
- `Ruleset_refetch`: `start()` sets `started` before it awaits the cache, so a
  nudge may fetch meanwhile; the late cache entry then replaces the fetched
  ruleset and its back-off, and the next nudge fetches again within the TTL
  (client.test.ts:199 says it does not). The edge client guards this step.
- `Capture_in_flight`: a row enqueued as pending before a ruleset loads, and
  stored after the backfill has scanned, stays pending until the next version
  (express-middleware.ts:70-73 says the backfill labels it).
- `Config_degraded`: `resolveConfig` swallows a failed read of the table, so a
  refresh sets the gate to the defaults, where the comments
  (agent/capture-gate.ts:121-122, 150-151) promise the previous gate.

- `Migrations_torn`: with SQLite each statement commits by itself and adding a
  column cannot be repeated, so a process that ends between the two columns of
  migration 3, or before the version is recorded, leaves a store that refuses
  every later start (migrations.ts:23 says a torn write "re-applies cleanly").

Others were met while modelling and are kept out of the properties by a stated
condition rather than by a run: a `stop()` that finds a flush running is over at
once and does not wait for it (buffer.ts:124); with an asynchronous `ensure()`
two starts may spawn two children, one an orphan, and the refinement of
TunnelStatus is not claimed (tunnel.ts:124, 137); two
backfills that overlap re-stamp each other's rows, to an older version or for as
long as both go on (backfill.ts:67, 98); two overlapping writes of one setting
record a prior value that was never replaced (postgres.ts:222-224); a refresh
whose answer was overtaken by another write leaves the gate stale until the next
save (capture-gate.ts:66).

- *Gates before the store.* In production with the admin plane on and
  `ENPILINK_ANALYTICS` unset, the installation returns before it resolves a gate
  (analytics.ts:251-253), `createApp` resolves the agent gate while no storage is
  active (express.ts:92-95), and `ensureAdminStorage` activates it afterwards and
  resolves neither (express.ts:140-143, admin.ts:203-222); a failed analytics
  store ends alike. Overrides that are stored have then no effect after a
  restart, although the admin API shows them, until the first save, reset or
  preset: the gates stand at environment, file and defaults, the analytics gate
  at the defaults. ConfigGate starts such processes (`followed` is FALSE), and
  `GateIsCurrent` leaves out their time before that first change.
- *Requests of one moment.* sessions.ts:282 counts fetches "in [to.ts - window,
  to.ts)", without the browser's own moment, but the scan also counts a fetch of
  the same moment if the stable sort left it before the browser's request: with
  equal times the number depends on the order of storage. So does a recovery by
  a resolved request of the dead end's own moment (sessions.ts:194, 210-219).
  `SessionsMean` holds the counts between the two readings; MCSurface's rows
  (`SomeRows`) hold such pairs.

Met by reading, in code that the modules treat as it is or leave out:

- *Adapters.* Cloudflare marks a re-encoded answer `served`, Hono and Express do
  not; it loses the record of a request when the representation fails to build,
  also where only a re-encoding was wanted, and makes a replaced shell cacheable
  in public where the others say `private, no-store`. Hono's row may be labelled
  by a later ruleset than the one that chose the answer. Express with a 204 of
  type HTML sets the flags though no body is sent.
- *Response wrapper.* The rescue of a 404 that was compressed keeps its
  Content-Encoding (adapter/express.ts:442-468). With `spa` a trailing rescue's
  HTML passes through the wrapper and is replaced again. A rescue after the
  headers were sent throws between the two ways out, and the response hangs. The
  last chunk, given to `end()`, is not counted against the limit, and giving up
  restores the original methods over those of a middleware added later.
- *Live stream* (observability.ts:453-510). Rows come by id, so the first one's
  stamp is not the newest: rows are sent again although the comment says the
  next poll does not. A call that runs while something newer is streamed is
  never streamed. An empty poll moves the cursor too, and polls overlap when
  storage is slow, so that the cursor may run ahead of the clock.
- *Telemetry.* The summary's second query reads only three classes, so
  escalations from the others are never counted, and the coverage of recoveries,
  "of ALL observed dead-ends", is of those read. The two queries are of two
  moments, so a share may exceed one. OFFSET paging skips a row when an earlier
  one is swept or labelled away; the console's Next can be pressed twice on a
  placeholder page. The retention sweep notes its time even when it failed.
- *IP ranges.* After a refresh in which all lists failed the table keeps its old
  time, so every request fetches again, although ip-ranges.ts:361-363 says
  otherwise; a list that failed alone makes its addresses miss, although 355-356
  wants no false miss; a list of unparsable entries replaces a good table by an
  empty one.
- *Tunnel observer.* A POST whose reply was lost is repeated and can undo a
  DELETE in between, although use-tunnel.ts:108-112 says it will not; a POST sent
  before unmounting may land after it. TunnelControl does both; `ControlHolds`
  takes account of wishes only once the POST has been answered, when neither can
  happen any more.
- *Rate limiter.* A tool without any budget tells callers to come back in a
  minute, when nothing will have been refilled; a bucket that was evicted comes
  back full.
- *Server.* A `connect()` while the installation awaits the analytics serves
  handlers without any middleware (the `early` of McpMiddleware); at shutdown
  `stop()` may coalesce with a running flush and the storage is closed under it;
  a second `init()` of the PostgreSQL adapter returns before the migrations are
  done; concurrent SQLite migrators can set the version back.
- *View.* A nested update persists and sends the newer state first and the older
  last; a restore overwrites what was set before the view's id was known, and
  the description with that of an earlier life. If `onSuccess` throws, `onError`
  is called for a call that succeeded.
- *Beacon.* A record is added and its batch taken off in one synchronous step, so
  the batching that beacon.ts:20-25 describes does not happen.

## 6. Not modelled

Within modelled components: texts of messages, logs and the length of delays and
TTLs; the tunnel's activity log and the parsing of the provider's output; the
sweep's schedule and the IP tier on the capture path; changes of the
configuration file at run time and mock mode; validation of values and artifacts,
which appear as valid or not; the conversions of documents to markdown; client
registration and the upstream's own protocol; the choice of a provider at boot
and per-tool scopes; the end of a stream's connection, after which nothing is
said; PostgreSQL's own race of two concurrent CREATE TABLE. A failed salt lookup,
which latches "no hash" for the life of the process, is an answer like any other
here.

Whole components: ruleset publishing and the schema are pure construction and
validation, and RulesetClient sees only whether an artifact is valid; the build
plugin, the commands and the scaffolding read and write files in a fixed order.
Of the console only the walk through pages is modelled: its stores are wrappers of
a query library that orders overlapping loads itself. The beacon's queue and the
ingest route keep nothing between two steps that could be interleaved (5).

The modules account for about a tenth of the implementation's lines. Most of the rest has no
state that a model could follow: React components of the console and the
templates, scaffolding, schemas and descriptions of settings, HTML and
markdown formatting, rows put into SQL and back, wiring of routes.

## 7. What is left

In the order of what it would add:

1. The composition of TunnelControl with the TunnelManager of an asynchronous
   `ensure()`, for which TunnelStatus would have to let a tunnel be started that
   was wanted twice.
2. The shutdown of the server: buffer, analytics and storage closed in order,
   composed from AgentWriteBuffer and its sink.
3. The refinement of an abstract "latest wins" register by RulesetClient and by
   ConfigGate.
4. The Apps SDK adaptor beside the MCP Apps one, and the breakdown of requests by
   route.
