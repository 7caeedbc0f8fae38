--------------------------------- MODULE Schema ---------------------------------
(***************************************************************************)
(* The schema migration of a booting process (runtime/migrator.py,          *)
(* schema_types.py, Runtime.migrate_schema): it reads the live columns,     *)
(* plans what is missing or refuses, and applies the plan in one            *)
(* transaction, while pods of other versions do the same.                   *)
(***************************************************************************)
EXTENDS FiniteSets, Functions

CONSTANTS
    Pods,
    Releases,       \* release -> [fields: column -> annotation, indexes: set of column sets]
    MaxBoots        \* bound: boots of all pods

VARIABLES
    columns,        \* column -> type as postgres reports it, or {} before CREATE TABLE
    pod,
    boots,
    made            \* history: releases whose migration was committed

schemaVars == <<columns, pod, boots, made>>

NoTable == <<>>
NoPod == [at |-> "down", release |-> "", seen |-> NoTable, raced |-> FALSE]

SchemaTypeOK ==
    /\ \A p \in Pods : pod[p].at \in {"down", "planning", "applying", "running", "failed"}
    /\ boots \in 0 .. MaxBoots /\ made \subseteq DOMAIN Releases

SchemaInit == columns = NoTable /\ pod = [p \in Pods |-> NoPod] /\ boots = 0 /\ made = {}

--------------------------------------------------------------------------------
\* pg_type_for_annotation; an Optional is its inner type, a real union has none.
Mappable(annotation) == annotation # "int | str"

PgType(annotation) ==
    CASE annotation \in {"str", "str | None", "Enum"} -> "TEXT"
      [] annotation = "int" -> "BIGINT"
      [] annotation = "datetime" -> "TIMESTAMPTZ"
      [] annotation = "date" -> "DATE"
      [] annotation \in {"dict", "list[str]", "tuple[str]"} -> "JSONB"

\* What information_schema.columns calls a column that was created with a type.
Reported(type) ==
    CASE type = "TIMESTAMPTZ" -> "timestamp with time zone"
      [] OTHER -> type

Aliases ==
    {{"TEXT", "VARCHAR", "CHARACTER VARYING"}, {"BIGINT", "INT8"}, {"JSONB"},
     {"TIMESTAMPTZ", "timestamp with time zone"}}

\* Wrong variant: the names are compared.
EquivalentByName(wanted, actual) == wanted = actual

Equivalent(wanted, actual) ==
    wanted = actual \/ \E group \in Aliases : {wanted, actual} \subseteq group

Reserved == {"id", "created_at", "updated_at", "dedup_hash"}
Managed == [dedup_hash |-> "TEXT", created_at |-> "TIMESTAMPTZ"]

Fields(r) == DOMAIN Releases[r].fields
Columns(r) == Fields(r) \cup DOMAIN Managed
DeclaredType(r, c) == IF c \in DOMAIN Managed THEN Managed[c] ELSE PgType(Releases[r].fields[c])

FreshTable(r) == [c \in Columns(r) |-> Reported(DeclaredType(r, c))]

\* A reserved column is not compared: whoever declares one declares the same.
ASSUME SchemaAssumption ==
    /\ MaxBoots \in Nat
    /\ \A r, q \in DOMAIN Releases : \A c \in Fields(r) \cap Fields(q) \cap Reserved :
           Releases[r].fields[c] = Releases[q].fields[c]

--------------------------------------------------------------------------------
\* plan_migration for one class against the columns seen.
Drops(r, seen) == DOMAIN seen \ (Columns(r) \cup Reserved)

Changes(r, seen) ==
    {c \in (Columns(r) \cap DOMAIN seen) \ Reserved : ~Equivalent(DeclaredType(r, c), seen[c])}

Unmappable(r) == \E c \in Fields(r) : ~Mappable(Releases[r].fields[c])

Unknown(r) == UNION Releases[r].indexes \ Columns(r)

Refuses(r, seen) ==
    Unmappable(r) \/ Unknown(r) # {} \/ Drops(r, seen) # {} \/ Changes(r, seen) # {}

Adds(r, seen) == IF seen = NoTable THEN {} ELSE Columns(r) \ DOMAIN seen

\* The plan applied to the table that is there by then: CREATE TABLE and ADD COLUMN do
\* nothing to what exists.
Migrated(r, seen) ==
    IF seen = NoTable THEN IF columns = NoTable THEN FreshTable(r) ELSE columns
    ELSE LET new == Adds(r, seen) \ DOMAIN columns
         IN  [c \in DOMAIN columns \cup new |->
                IF c \in new THEN Reported(DeclaredType(r, c)) ELSE columns[c]]

--------------------------------------------------------------------------------
\* migrate_schema reads the live columns.
PodBoots(p, r) ==
    /\ pod[p].at = "down" /\ boots < MaxBoots
    /\ boots' = boots + 1
    /\ pod' = [pod EXCEPT ![p] =
                 [at |-> "planning", release |-> r, seen |-> columns, raced |-> FALSE]]
    /\ UNCHANGED <<columns, made>>

PlanMigration(p) ==
    LET d == pod[p]
    IN  /\ d.at = "planning"
        /\ pod' = [pod EXCEPT ![p].at =
                     IF Refuses(d.release, d.seen) THEN "failed" ELSE "applying"]
        /\ UNCHANGED <<columns, boots, made>>

\* One transaction; an index over a column that is not there rolls everything back.
ApplyMigration(p) ==
    LET d     == pod[p]
        after == Migrated(d.release, d.seen)
        ok    == UNION Releases[d.release].indexes \subseteq DOMAIN after
    IN  /\ d.at = "applying"
        /\ columns' = IF ok THEN after ELSE columns
        /\ made' = IF ok THEN made \cup {d.release} ELSE made
        /\ pod' = [q \in Pods |->
                     IF q = p THEN [d EXCEPT !.at = IF ok THEN "running" ELSE "failed"]
                     ELSE [pod[q] EXCEPT !.raced = @ \/ (ok /\ pod[q].at \in {"planning", "applying"})]]
        /\ UNCHANGED boots

\* The process ends, by itself after a refusal or killed, or loses its database.
PodDies(p) ==
    /\ pod[p].at # "down"
    /\ pod' = [pod EXCEPT ![p] = NoPod]
    /\ UNCHANGED <<columns, boots, made>>

SchemaNext ==
    \E p \in Pods :
        \/ \E r \in DOMAIN Releases : PodBoots(p, r)
        \/ PlanMigration(p) \/ ApplyMigration(p) \/ PodDies(p)

SchemaSpec == SchemaInit /\ [][SchemaNext]_schemaVars
--------------------------------------------------------------------------------
\* A pod that runs finds every column it declares, with the type its writes encode for,
\* unless another pod migrated between its reading the schema and its applying the plan;
\* and it stays so whatever releases boot beside it.
RunningPodsFit ==
    \A p \in Pods : pod[p].at = "running" /\ ~pod[p].raced =>
        \A c \in Columns(pod[p].release) :
            c \in DOMAIN columns /\ Equivalent(DeclaredType(pod[p].release, c), columns[c])

\* A release that made the table by itself boots again: it refuses nothing and adds nothing.
RebootsQuietly ==
    \A r \in DOMAIN Releases : made = {r} => ~Refuses(r, columns) /\ Adds(r, columns) = {}
================================================================================
