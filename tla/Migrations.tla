----------------------------- MODULE Migrations -----------------------------
(***************************************************************************)
(* The schema migrations of the SQL adapters (storage/migrations.ts), run  *)
(* whenever a process opens the store: the version that was reached is     *)
(* read, then the statements of each later migration are executed and its  *)
(* version is recorded.  Processes may open one store at the same time,    *)
(* and may end at any point.                                               *)
(*                                                                         *)
(* SQLite commits every statement by itself, keeps the version as a number *)
(* and cannot be told to add a column only if it is missing.  Postgres     *)
(* runs a migration's statements as one, keeps a row for each version and  *)
(* repeats any of the statements.                                          *)
(***************************************************************************)
EXTENDS Naturals, Sequences, SequencesExt

CONSTANTS
    Processes   \* processes that open the store

VARIABLES
    engine,     \* the adapter
    schema,     \* what the statements have made
    recorded,   \* the versions on record
    opening,    \* opening[p]: how far init() of the process p is
    overlapped, \* history: two processes migrated at the same time
    torn        \* history: a migration was cut off

migrationVars == <<engine, schema, recorded, opening, overlapped, torn>>

\* What each migration makes, statement by statement.
MIGRATIONS ==
    << <<"agent_requests", "indexes">>,
       <<"agent_class">>,
       <<"served", "served_encoding">>,
       <<"ruleset_version", "idx_areq_ruleset">> >>

Versions == DOMAIN MIGRATIONS
Makes(v) == ToSet(MIGRATIONS[v])

\* Mutant: the columns are added without IF NOT EXISTS everywhere.
OnceAnywhere == {"served", "served_encoding", "ruleset_version"}

\* What cannot be made again.
Once ==
    IF engine = "sqlite" THEN {"served", "served_encoding", "ruleset_version"}
    ELSE {}

Opening ==
    [at : {"off", "migrating", "up", "failed", "refused"},
     done : SUBSET Versions, \* what was on record at the start
     version : Versions,
     made : Nat]             \* statements of the version that are through

Off == [at |-> "off", done |-> {}, version |-> 1, made |-> 0]

MigrationsInit ==
    /\ engine \in {"sqlite", "postgres"}
    /\ schema = {}
    /\ recorded = {}
    /\ opening = [p \in Processes |-> Off]
    /\ overlapped = FALSE
    /\ torn = FALSE

-----------------------------------------------------------------------------
Migrating(p) == opening[p].at = "migrating"

\* The loop's next turn: the migration after v that was not on record.
Turn(p, done, v) ==
    LET left == {w \in Versions : w > v /\ w \notin done}
    IN  opening' = [opening EXCEPT ![p] =
          IF left = {} THEN [Off EXCEPT !.at = "up"]
          ELSE [at |-> "migrating", done |-> done, made |-> 0,
                version |-> CHOOSE w \in left : \A x \in left : w <= x]]

Fail(p, how) == opening' = [opening EXCEPT ![p].at = how]

\* A process opens the store and reads what is on record.
Open(p) ==
    /\ opening[p].at \in {"off", "failed", "refused"}
    /\ Turn(p, recorded, 0)
    /\ overlapped' = (overlapped \/ \E q \in Processes : Migrating(q))
    /\ UNCHANGED <<engine, schema, recorded, torn>>

\* Mutant: the version is on record before its statements are through.
ExecuteRecorded(p) ==
    /\ Migrating(p)
    /\ opening[p].made < Len(MIGRATIONS[opening[p].version])
    /\ recorded' = recorded \cup {opening[p].version}
    /\ schema' = schema \cup {MIGRATIONS[opening[p].version][opening[p].made + 1]}
    /\ opening' = [opening EXCEPT ![p].made = @ + 1]
    /\ UNCHANGED <<engine, overlapped, torn>>

\* Its next statement is executed, with Postgres all of the migration's at
\* once; one that cannot be repeated ends it.
Execute(p) ==
    LET all == MIGRATIONS[opening[p].version]
        next == IF engine = "sqlite" THEN opening[p].made + 1 ELSE Len(all)
        making == {all[i] : i \in opening[p].made + 1 .. next}
    IN  /\ Migrating(p) /\ opening[p].made < Len(all)
        /\ \/ /\ making \cap Once \cap schema = {}
              /\ schema' = schema \cup making
              /\ opening' = [opening EXCEPT ![p].made = next]
           \/ /\ making \cap Once \cap schema # {}
              /\ Fail(p, "refused")
              /\ UNCHANGED schema
        /\ UNCHANGED <<engine, recorded, overlapped, torn>>

\* All are through, and the version goes on record.  SQLite's number may go
\* back by it; with Postgres the key of a version on record refuses another.
Record(p) ==
    LET v == opening[p].version
    IN  /\ Migrating(p) /\ opening[p].made = Len(MIGRATIONS[v])
        /\ \/ /\ engine = "sqlite" \/ v \notin recorded
              /\ recorded' = IF engine = "sqlite" THEN 1 .. v ELSE recorded \cup {v}
              /\ Turn(p, opening[p].done, v)
           \/ /\ engine = "postgres" /\ v \in recorded
              /\ Fail(p, "refused")
              /\ UNCHANGED recorded
        /\ UNCHANGED <<engine, schema, overlapped, torn>>

\* The store cannot be reached, or is locked: init() rejects.
StoreFails(p) ==
    /\ Migrating(p)
    /\ Fail(p, "failed")
    /\ torn' = (torn \/ opening[p].made # 0)
    /\ UNCHANGED <<engine, schema, recorded, overlapped>>

\* A process ends, in the middle of a migration or later.
ProcessEnds(p) ==
    /\ opening[p].at # "off"
    /\ opening' = [opening EXCEPT ![p] = Off]
    /\ torn' = (torn \/ (Migrating(p) /\ opening[p].made # 0))
    /\ UNCHANGED <<engine, schema, recorded, overlapped>>

MigrationsNext ==
    \E p \in Processes :
        Open(p) \/ Execute(p) \/ Record(p) \/ StoreFails(p) \/ ProcessEnds(p)

MigrationsSpec == MigrationsInit /\ [][MigrationsNext]_migrationVars

-----------------------------------------------------------------------------
\* Type invariant of the store and its processes.
MigrationsTypeOK ==
    /\ engine \in {"sqlite", "postgres"}
    /\ schema \subseteq UNION {Makes(v) : v \in Versions}
    /\ recorded \subseteq Versions
    /\ opening \in [Processes -> Opening]
    /\ overlapped \in BOOLEAN /\ torn \in BOOLEAN

StartRefused == \E p \in Processes : opening[p].at = "refused"

\* Whatever cut migrations off and however many processes ran them at a time:
\* what is on record has been made, a store that opened has all of it, and a
\* start is refused only where two overlapped, or, with SQLite, a migration was
\* cut off.
SchemaHolds ==
    /\ \A v \in recorded : Makes(v) \subseteq schema
    /\ \A p \in Processes : opening[p].at = "up" =>
        \A v \in Versions : Makes(v) \subseteq schema
    /\ StartRefused => overlapped \/ (engine = "sqlite" /\ torn)

\* migrations.ts:23 "so even a torn write re-applies cleanly": what an earlier
\* start has left behind does not refuse a later one.
TornReapplies == StartRefused => overlapped
=============================================================================
