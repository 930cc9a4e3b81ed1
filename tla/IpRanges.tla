------------------------------ MODULE IpRanges ------------------------------
(***************************************************************************)
(* The IP tier (agent/ip-ranges.ts), for one vendor: the lists of address  *)
(* ranges it publishes are fetched one after the other, in the background  *)
(* of a request that finds the table stale, and an address is then looked  *)
(* up in what was parsed of them.                                          *)
(*                                                                         *)
(* An address is of one of two families and is a word of Width bits, from  *)
(* the lowest on; a prefix that claims more bits looks like one in the     *)
(* list and does not parse.  A list may say something else at every fetch, *)
(* or fail.                                                                *)
(***************************************************************************)
EXTENDS Integers, FiniteSets

CONSTANTS
    Width,      \* bits of an address: 32 or 128 in the code
    Entries,   \* what may stand in a list
    ListCount,  \* how many lists the vendor has
    Ttl,        \* ttlMs
    LastHour,   \* bound: the clock's last value
    Nowhere     \* no table, no answer, no time

Families == {"v4", "v6"}
Bits == 0 .. Width - 1
Word == [Bits -> {0, 1}]
Address == [family : Families, number : Word]
Prefix == [family : Families, number : Word, bits : Nat]
Urls == 1 .. ListCount

ASSUME IpRangesAssumption ==
    /\ Width \in Nat \ {0} /\ ListCount \in Nat \ {0}
    /\ Entries \subseteq Prefix
    /\ Ttl \in Nat \ {0} /\ LastHour \in Nat
    /\ Nowhere \notin Nat /\ \A cidrs \in SUBSET Entries : cidrs # Nowhere

VARIABLES
    hour,       \* Date.now()
    table,      \* tables: the prefixes that parsed, or Nowhere
    loadedAt,
    refreshing, \* the list that is being fetched, 0 without a refresh
    collected,  \* cidrs
    answers,    \* history: answers[u]: what the list u said in this refresh
    basis       \* history: the answers the table was made of

ipVars == <<hour, table, loadedAt, refreshing, collected, answers, basis>>

NoAnswers == [u \in Urls |-> Nowhere]

IpInit ==
    /\ hour = 0
    /\ table = Nowhere /\ loadedAt = Nowhere
    /\ refreshing = 0 /\ collected = {}
    /\ answers = NoAnswers /\ basis = NoAnswers

-----------------------------------------------------------------------------
Ones == [i \in Bits |-> 1]

\* w << k within the width, and v & w.
Shifted(w, k) == [i \in Bits |-> IF i < k THEN 0 ELSE w[i - k]]
And(v, w) == [i \in Bits |-> v[i] * w[i]]

\* Mutant: the shift by the full width, which shifts by nothing, is no exception.
InPrefixShifted(n, p) ==
    LET mask == Shifted(Ones, (Width - p.bits) % Width)
    IN  And(n, mask) = And(p.number, mask)

\* inPrefix4(), inPrefix6(): the address and the base agree under the mask.
InPrefix(n, p) ==
    \/ p.bits = 0
    \/ LET mask == Shifted(Ones, Width - p.bits)
       IN  And(n, mask) = And(p.number, mask)

\* buildTable(): the CIDRs that parse.
BuildTable(cidrs) == {p \in cidrs : p.bits <= Width}

OfFamily(a) == {p \in table : p.family = a.family}

\* verify()
Verdict(a) ==
    IF table = Nowhere \/ OfFamily(a) = {} THEN "unknown"
    ELSE IF \E p \in OfFamily(a) : InPrefix(a.number, p) THEN "match"
    ELSE "miss"

Fresh == loadedAt # Nowhere /\ hour - loadedAt < Ttl

\* ensureFresh() starts a refresh.
EnsureFresh ==
    /\ ~Fresh /\ refreshing = 0
    /\ refreshing' = 1
    /\ collected' = {}
    /\ answers' = NoAnswers
    /\ UNCHANGED <<hour, table, loadedAt, basis>>

\* Mutant: what is new is added to the table.
PublishMore(cidrs, said) ==
    /\ IF cidrs # {}
       THEN /\ table' = BuildTable(cidrs) \cup (IF table = Nowhere THEN {} ELSE table)
            /\ loadedAt' = hour /\ basis' = said
       ELSE /\ UNCHANGED <<table, basis>>
            /\ loadedAt' = IF table = Nowhere THEN hour ELSE loadedAt

\* The refresh ends: a table is published of whatever was collected.  One that
\* got nothing counts as a load only if there is no table.
Publish(cidrs, said) ==
    /\ IF cidrs # {}
       THEN table' = BuildTable(cidrs) /\ loadedAt' = hour /\ basis' = said
       ELSE /\ UNCHANGED <<table, basis>>
            /\ loadedAt' = IF table = Nowhere THEN hour ELSE loadedAt

\* A list is answered with some prefixes, or fails; the next one is fetched.
FetchList ==
    /\ refreshing # 0
    /\ \E cidrs \in {Nowhere} \cup SUBSET Entries :
        LET all == IF cidrs = Nowhere THEN collected ELSE collected \cup cidrs
            said == [answers EXCEPT ![refreshing] = cidrs]
        IN  \/ /\ refreshing < ListCount
               /\ refreshing' = refreshing + 1
               /\ collected' = all /\ answers' = said
               /\ UNCHANGED <<table, loadedAt, basis>>
            \/ /\ refreshing = ListCount
               /\ refreshing' = 0
               /\ collected' = {} /\ answers' = NoAnswers
               /\ Publish(all, said)
    /\ UNCHANGED hour

\* An hour passes.
HourPasses ==
    /\ hour < LastHour
    /\ hour' = hour + 1
    /\ UNCHANGED <<table, loadedAt, refreshing, collected, answers, basis>>

IpNext == EnsureFresh \/ FetchList \/ HourPasses

IpSpec == IpInit /\ [][IpNext]_ipVars

-----------------------------------------------------------------------------
\* Type invariant of the verifier.
IpTypeOK ==
    /\ hour \in Nat
    /\ table \in {Nowhere} \cup SUBSET Entries
    /\ loadedAt \in Nat \cup {Nowhere}
    /\ refreshing \in 0 .. ListCount
    /\ collected \subseteq Entries
    /\ answers \in [Urls -> {Nowhere} \cup SUBSET Entries]
    /\ basis \in [Urls -> {Nowhere} \cup SUBSET Entries]

\* Reference: the address starts with the prefix's bits.
StartsWith(a, p) ==
    /\ a.family = p.family /\ p.bits <= Width
    /\ \A i \in Width - p.bits .. Width - 1 : a.number[i] = p.number[i]

Said == UNION {basis[u] : u \in {v \in Urls : basis[v] # Nowhere}}

\* A verdict is honest, whichever lists failed and whatever they held: a match
\* is an address of a prefix that a list held in the last refresh that got any,
\* and a miss is of no such prefix, although some are of its family.  (A list
\* that failed then is no part of it: its addresses may miss.)
VerdictsHonest ==
    \A a \in Address :
        Verdict(a) =
            IF ~\E p \in Said : p.family = a.family /\ p.bits <= Width
            THEN "unknown"
            ELSE IF \E p \in Said : StartsWith(a, p) THEN "match"
            ELSE "miss"
=============================================================================
