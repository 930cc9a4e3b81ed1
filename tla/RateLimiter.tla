---------------------------- MODULE RateLimiter -----------------------------
(***************************************************************************)
(* The token buckets of the GET transport (transports/rate-limit.ts,       *)
(* transports/get-router.ts): a bucket for each address and tool, filled   *)
(* to the burst when it is first seen, refilled for the time that has      *)
(* passed since it was last looked at, and dropped when there are too many.*)
(*                                                                         *)
(* Tokens are counted in fractions of which Unit make one; a tick of the   *)
(* clock refills a bucket by cfg.refill of them.  The clock is the wall    *)
(* clock and may be set back.  The configuration may change between any    *)
(* two requests, and a tool may have its own.                              *)
(***************************************************************************)
EXTENDS Integers, FiniteSets

CONSTANTS
    Keys,         \* an address and a tool
    Configs,      \* what a request may be checked against
    Unit,         \* the fractions of one token
    MostBurst,    \* no configuration has a larger burst ...
    MostRefill,   \* ... or refills faster
    MaxBuckets,   \* buckets kept after a prune
    StaleTicks,   \* an idle bucket older than this goes first
    NoRefillWait, \* what a caller is told to wait when nothing refills
    LastTick,     \* bound: the clock's last value
    MaxTicks,     \* bound: ticks in all
    NoBucket      \* no bucket, no promise

Config == [burst : Nat, refill : Nat]

ASSUME LimiterAssumption ==
    /\ Configs \subseteq Config
    /\ Unit \in Nat \ {0}
    /\ MostBurst \in Nat \ {0} /\ MostRefill \in Nat
    /\ \A cfg \in Configs : cfg.burst <= MostBurst /\ cfg.refill <= MostRefill
    /\ MaxBuckets \in Nat \ {0} /\ StaleTicks \in Nat /\ NoRefillWait \in Nat \ {0}
    /\ LastTick \in Nat /\ MaxTicks \in Nat
    /\ NoBucket \notin [tokens : Nat, last : Nat]
    /\ NoBucket \notin [cfg : Config, at : Nat]

VARIABLES
    clock,    \* Date.now()
    ticks,    \* bound: how often it went forward
    buckets,  \* buckets[k]: what is left and when it was looked at
    granted,  \* history: granted[k]: requests let through by this bucket
    since,    \* history: since[k]: ticks since the bucket was made
    promise   \* history: promise[k]: the first Retry-After not yet made good

limiterVars == <<clock, ticks, buckets, granted, since, promise>>

Bucket == [tokens : Nat, last : Nat]
Tracked == {k \in Keys : buckets[k] # NoBucket}

LimiterInit ==
    /\ clock = 0
    /\ ticks = 0
    /\ buckets = [k \in Keys |-> NoBucket]
    /\ granted = [k \in Keys |-> 0]
    /\ since = [k \in Keys |-> 0]
    /\ promise = [k \in Keys |-> NoBucket]

-----------------------------------------------------------------------------
Least(a, b) == IF a <= b THEN a ELSE b
Most(a, b) == IF a >= b THEN a ELSE b

Capacity(cfg) == Unit * Most(1, cfg.burst)

\* Mutant: a clock that was set back takes tokens away.
RefilledAnyhow(b, cfg, now) ==
    Least(Capacity(cfg), b.tokens + (now - b.last) * cfg.refill)

\* What the bucket b holds at a time.
Refilled(b, cfg, now) ==
    Least(Capacity(cfg), b.tokens + Most(0, now - b.last) * cfg.refill)

\* What the check of k finds in its bucket.
Found(k, cfg) ==
    IF buckets[k] = NoBucket THEN Capacity(cfg)
    ELSE Refilled(buckets[k], cfg, clock)

\* Mutant: the wait is rounded down.
RetryAfterFloor(tokens, cfg) ==
    IF cfg.refill = 0 THEN NoRefillWait
    ELSE Most(1, (Unit - tokens) \div cfg.refill)

\* retryAfterSeconds: until one token is there, rounded up, one at least.
RetryAfter(tokens, cfg) ==
    IF cfg.refill = 0 THEN NoRefillWait
    ELSE Most(1, (Unit - tokens + cfg.refill - 1) \div cfg.refill)

\* pruneIfNeeded(): the stale buckets go, then the oldest, in whatever order
\* those of the same age stand in the map.
Pruned(bs, after) ==
    LET held == {k \in Keys : bs[k] # NoBucket}
        fresh == {k \in held : clock - bs[k].last <= StaleTicks}
    IN  \E kept \in SUBSET held :
        /\ IF Cardinality(held) <= MaxBuckets THEN kept = held
           ELSE /\ kept \subseteq fresh
                /\ Cardinality(kept) = Least(MaxBuckets, Cardinality(fresh))
                /\ \A k \in kept, d \in fresh \ kept : bs[d].last <= bs[k].last
        /\ after = [k \in Keys |-> IF k \in kept THEN bs[k] ELSE NoBucket]

\* check() lets the request through.
Allow(k, cfg) ==
    /\ Found(k, cfg) >= Unit
    /\ Pruned([buckets EXCEPT ![k] =
                 [tokens |-> Found(k, cfg) - Unit, last |-> clock]],
              buckets')
    /\ granted' = [d \in Keys |->
                     IF buckets'[d] = NoBucket THEN 0
                     ELSE IF d = k THEN granted[d] + 1 ELSE granted[d]]
    /\ since' = [d \in Keys |-> IF buckets'[d] = NoBucket THEN 0 ELSE since[d]]
    /\ promise' = [d \in Keys |->
                     IF d = k \/ buckets'[d] = NoBucket THEN NoBucket
                     ELSE promise[d]]
    /\ UNCHANGED <<clock, ticks>>

\* Mutant: a refusal counts the time since the last grant again.
DenyKeepsTime(k, cfg) ==
    /\ Found(k, cfg) < Unit
    /\ buckets' = [buckets EXCEPT ![k].tokens = Found(k, cfg)]
    /\ promise' = [promise EXCEPT ![k] =
                     IF @ # NoBucket /\ @.cfg = cfg THEN @
                     ELSE [cfg |-> cfg, at |-> clock + RetryAfter(Found(k, cfg), cfg)]]
    /\ UNCHANGED <<clock, ticks, granted, since>>

\* check() refuses it, and says when to come again.  Nothing is pruned.
Deny(k, cfg) ==
    /\ Found(k, cfg) < Unit
    /\ buckets' = [buckets EXCEPT ![k] =
                     [tokens |-> Found(k, cfg), last |-> clock]]
    /\ promise' = [promise EXCEPT ![k] =
                     IF @ # NoBucket /\ @.cfg = cfg THEN @
                     ELSE [cfg |-> cfg, at |-> clock + RetryAfter(Found(k, cfg), cfg)]]
    /\ UNCHANGED <<clock, ticks, granted, since>>

\* Time passes.
Forward ==
    /\ ticks < MaxTicks /\ clock < LastTick
    /\ clock' = clock + 1
    /\ ticks' = ticks + 1
    /\ since' = [k \in Keys |-> IF k \in Tracked THEN since[k] + 1 ELSE since[k]]
    /\ UNCHANGED <<buckets, granted, promise>>

\* The wall clock is set back.
SetBack ==
    /\ clock' \in 0 .. clock - 1
    /\ UNCHANGED <<ticks, buckets, granted, since, promise>>

LimiterNext ==
    \/ Forward
    \/ SetBack
    \/ \E k \in Keys, cfg \in Configs : Allow(k, cfg) \/ Deny(k, cfg)

LimiterSpec == LimiterInit /\ [][LimiterNext]_limiterVars

-----------------------------------------------------------------------------
\* Type invariant of the limiter.
LimiterTypeOK ==
    /\ clock \in Nat /\ ticks \in Nat
    /\ buckets \in [Keys -> Bucket \cup {NoBucket}]
    /\ granted \in [Keys -> Nat]
    /\ since \in [Keys -> Nat]
    /\ promise \in [Keys -> [cfg : Configs, at : Nat] \cup {NoBucket}]

\* Whatever the order of requests, refusals, settings and steps of the clock, a
\* bucket lets through no more than the largest burst and what the time since
\* it was made can have refilled.
WithinLimit ==
    \A k \in Tracked :
        Unit * granted[k] <= Unit * MostBurst + MostRefill * since[k]

\* A Retry-After is honest: unless the bucket lets another request through or
\* is checked against other settings, a request at the promised time finds a
\* token, however often the caller has been refused since, and although the
\* clock was set back.
RetryHonest ==
    \A k \in Keys : promise[k] # NoBucket /\ promise[k].cfg.refill > 0 =>
        /\ k \in Tracked
        /\ Refilled(buckets[k], promise[k].cfg, promise[k].at) >= Unit

\* Both at once: a budget is kept, and what is said of it is true.
LimiterHolds == WithinLimit /\ RetryHonest
=============================================================================
