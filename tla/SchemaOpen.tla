----------------------------- MODULE SchemaOpen -----------------------------
(***************************************************************************)
(* Opening a store file: Database::open and initialize, open_read_only and *)
(* inspect_path (crates/mh-db/src/lib.rs), when several processes do so at *)
(* once and any of them may fail or die between two statements.            *)
(*                                                                         *)
(* Nothing here runs in a transaction of its own: every statement commits  *)
(* by itself, so each is a step.  The file is what those statements tell   *)
(* apart: for each table of the core schema whether it is there with the   *)
(* expected columns, with others, or not at all, whether there are further *)
(* tables, and the highest version recorded.  The indexes, which no check  *)
(* looks at, are left out.                                                 *)
(***************************************************************************)
EXTENDS Naturals

CONSTANTS
    Clients,     \* the processes
    TableCount,  \* tables of the core schema
    MaxOps       \* bound: operations begun

Latest == 1
TooNew == Latest + 1

ASSUME SchemaConstantsOK == TableCount \in Nat \ {0} /\ MaxOps \in Nat

(* EXPECTED_CORE_COLUMNS; the first is mh_schema_migrations.               *)
Tables == 1..TableCount

VARIABLES
    exists,   \* there is a file at the path
    table,    \* what the file holds of each core table
    extra,    \* the file holds further tables
    version,  \* MAX(version) of the migrations table, 0 without a row
    ours,     \* history: there was no file before the first operation
    pc,       \* per client: the statement it is about to run
    kind,     \* per client: "init" (open, initialize) or "read"
    saw,      \* per client: what path.exists() said
    at,       \* per client: the core table it is at
    result,   \* per client: how its last operation ended
    before,   \* history, per client: the store was ready when it began
    ops       \* operations begun

file == <<exists, table, extra, version, ours>>
client == <<pc, kind, saw, at, result, before, ops>>
vars == <<file, client>>

Ready == exists /\ version = Latest /\ \A i \in Tables : table[i] = "core"

Absent == \A i \in Tables : table[i] = "absent"

Foreign == extra \/ \E i \in Tables : table[i] = "other"

TypeOK ==
    /\ exists \in BOOLEAN /\ extra \in BOOLEAN /\ ours \in BOOLEAN
    /\ table \in [Tables -> {"absent", "core", "other"}]
    /\ version \in 0..TooNew
    /\ pc \in [Clients -> {"idle", "connect", "version", "max", "count", "validate",
                           "migrate", "confirm"}]
    /\ kind \in [Clients -> {"init", "read"}]
    /\ saw \in [Clients -> BOOLEAN] /\ before \in [Clients -> BOOLEAN]
    /\ at \in [Clients -> 1..TableCount + 1]
    /\ result \in [Clients -> {"none", "missing", "needsMigration", "unknown", "tooNew",
                               "missingTable", "incompatible", "opened", "ready", "failed"}]
    /\ ops \in 0..MaxOps

(* Any file at all may be at the path, or none.                            *)
Init ==
    /\ table \in [Tables -> {"absent", "core", "other"}]
    /\ exists \in BOOLEAN /\ extra \in BOOLEAN
    /\ version \in 0..TooNew
    /\ version > 0 => table[1] # "absent"
    /\ ~exists => Absent /\ ~extra
    /\ ours = ~exists
    /\ pc = [c \in Clients |-> "idle"]
    /\ kind = [c \in Clients |-> "read"]
    /\ saw = [c \in Clients |-> FALSE]
    /\ before = [c \in Clients |-> FALSE]
    /\ at = [c \in Clients |-> 1]
    /\ result = [c \in Clients |-> "none"]
    /\ ops = 0

---------------------------------------------------------------------------
Goto(c, there) ==
    /\ pc' = [pc EXCEPT ![c] = there]
    /\ at' = [at EXCEPT ![c] = 1]
    /\ UNCHANGED <<kind, saw, result, before, ops>>

Return(c, what) ==
    /\ pc' = [pc EXCEPT ![c] = "idle"]
    /\ at' = [at EXCEPT ![c] = 1]
    /\ result' = [result EXCEPT ![c] = what]
    /\ UNCHANGED <<kind, saw, before, ops>>

(* path.exists(); only an operation that reads needs the file.             *)
Start(c, k) ==
    /\ pc[c] = "idle"
    /\ ops < MaxOps
    /\ ops' = ops + 1
    /\ kind' = [kind EXCEPT ![c] = k]
    /\ saw' = [saw EXCEPT ![c] = exists]
    /\ before' = [before EXCEPT ![c] = Ready]
    /\ \/ /\ k = "init" \/ exists
          /\ pc' = [pc EXCEPT ![c] = "connect"]
          /\ result' = [result EXCEPT ![c] = "none"]
       \/ /\ k = "read" /\ ~exists
          /\ result' = [result EXCEPT ![c] = "missing"]
          /\ UNCHANGED pc
    /\ UNCHANGED <<file, at>>

(* open_with_flags.  A path that was free when asked is not looked into.   *)
Connect(c) ==
    /\ pc[c] = "connect"
    /\ exists' = TRUE
    /\ Goto(c, IF saw[c] THEN "version" ELSE "migrate")
    /\ UNCHANGED <<table, extra, version, ours>>

(* schema_version: table_exists.                                           *)
FindMigrations(c) ==
    /\ pc[c] = "version"
    /\ Goto(c, IF table[1] = "absent" THEN "count" ELSE "max")
    /\ UNCHANGED file

ReadMax_NewerAtLatest(c) ==
    /\ pc[c] = "max"
    /\ \/ version = 0 /\ Goto(c, "count")
       \/ version \in 1..(Latest - 1) /\ Goto(c, "validate")
       \/ version >= Latest /\ Return(c, "tooNew")
    /\ UNCHANGED file

(* schema_version: SELECT MAX(version), and the match on it.               *)
ReadMax(c) ==
    /\ pc[c] = "max"
    /\ \/ version = 0 /\ Goto(c, "count")
       \/ version = Latest /\ Goto(c, "validate")
       \/ version > Latest /\ Return(c, "tooNew")
    /\ UNCHANGED file

CountTables_TrustEmptyVersion(c) ==
    /\ pc[c] = "count"
    /\ \/ kind[c] = "init" /\ Goto(c, "migrate")
       \/ kind[c] = "read" /\ Return(c, "needsMigration")
    /\ UNCHANGED file

(* user_table_count: without a version only an empty file is ours to fill. *)
CountTables(c) ==
    /\ pc[c] = "count"
    /\ \/ Absent /\ ~extra /\ kind[c] = "init" /\ Goto(c, "migrate")
       \/ Absent /\ ~extra /\ kind[c] = "read" /\ Return(c, "needsMigration")
       \/ ~(Absent /\ ~extra) /\ Return(c, "unknown")
    /\ UNCHANGED file

NextTable(c) ==
    /\ at[c] < TableCount
    /\ at' = [at EXCEPT ![c] = @ + 1]
    /\ UNCHANGED <<pc, kind, saw, result, before, ops>>

LastTable(c) ==
    /\ at[c] = TableCount
    /\ \/ pc[c] = "validate" /\ kind[c] = "init" /\ Goto(c, "migrate")
       \/ pc[c] = "validate" /\ kind[c] = "read" /\ Return(c, "opened")
       \/ pc[c] = "confirm" /\ Return(c, "ready")

(* validate_schema_tables, one table of it: before a store is used, and    *)
(* again once it was migrated.                                             *)
ValidateTable(c) ==
    /\ pc[c] \in {"validate", "confirm"}
    /\ \/ table[at[c]] = "absent" /\ Return(c, "missingTable")
       \/ table[at[c]] = "other" /\ Return(c, "incompatible")
       \/ table[at[c]] = "core" /\ (NextTable(c) \/ LastTable(c))
    /\ UNCHANGED file

CreateTable_OneShort(c) ==
    /\ pc[c] = "migrate"
    /\ at[c] <= TableCount
    /\ table' = [table EXCEPT ![at[c]] = IF @ = "absent" THEN "core" ELSE @]
    /\ at' = [at EXCEPT ![c] = IF @ + 1 >= TableCount THEN TableCount + 1 ELSE @ + 1]
    /\ UNCHANGED <<exists, extra, version, ours, pc, kind, saw, result, before, ops>>

(* CREATE TABLE IF NOT EXISTS.                                             *)
CreateTable(c) ==
    /\ pc[c] = "migrate"
    /\ at[c] <= TableCount
    /\ table' = [table EXCEPT ![at[c]] = IF @ = "absent" THEN "core" ELSE @]
    /\ at' = [at EXCEPT ![c] = @ + 1]
    /\ UNCHANGED <<exists, extra, version, ours, pc, kind, saw, result, before, ops>>

(* INSERT OR IGNORE INTO mh_schema_migrations.                             *)
MarkVersion(c) ==
    /\ pc[c] = "migrate"
    /\ at[c] > TableCount
    /\ version' = IF version < Latest THEN Latest ELSE version
    /\ Goto(c, "confirm")
    /\ UNCHANGED <<exists, table, extra, ours>>

(* A statement fails, or the process dies before it.                       *)
Fail(c) ==
    /\ pc[c] # "idle"
    /\ Return(c, "failed")
    /\ UNCHANGED file

Next ==
    \E c \in Clients :
        \/ \E k \in {"init", "read"} : Start(c, k)
        \/ Connect(c) \/ FindMigrations(c) \/ ReadMax(c) \/ CountTables(c)
        \/ ValidateTable(c) \/ CreateTable(c) \/ MarkVersion(c) \/ Fail(c)

Spec == Init /\ [][Next]_vars

---------------------------------------------------------------------------
(* PROPERTIES                                                              *)

(* The version is recorded last: wherever the migration stopped, and        *)
(* whoever else runs it, a recorded version means a whole schema            *)
(* (MIGRATION_0001, its last statement).                                    *)
MarkerComesLast == [][version' # version => \A i \in Tables : table'[i] = "core"]_vars

(* A file that is not this program's, or is a newer one's, is never written *)
(* to ("Existing unknown DBs are rejected before migrations run").          *)
ForeignUntouched == [][Foreign \/ version > Latest => UNCHANGED <<table, version>>]_vars

(* Whoever is told that the store may be used has a whole schema, for good. *)
AcceptedIsReady == \A c \in Clients : result[c] \in {"ready", "opened"} => Ready

(* A store that was ready is not turned away, whoever is initializing it    *)
(* meanwhile ("This operation is idempotent").                              *)
ReadyIsAccepted ==
    \A c \in Clients : before[c] => result[c] \in {"none", "ready", "opened", "failed"}

(* A client migrates only a file that is whole, or that nobody else owns    *)
(* and whose tables are there as far as it has come.                        *)
ClientInv(c) ==
    /\ pc[c] \notin {"idle", "connect"} => exists
    /\ pc[c] = "connect" /\ saw[c] => exists
    /\ pc[c] # "idle" /\ ~saw[c] => ours
    /\ pc[c] # "migrate" => at[c] <= TableCount
    /\ pc[c] = "validate" => version = Latest
    /\ pc[c] = "migrate" => Ready \/ (~Foreign /\ version <= Latest)
    /\ pc[c] = "confirm" => Ready
    /\ pc[c] \in {"validate", "migrate"} => \A i \in 1..at[c] - 1 : table[i] = "core"
    /\ before[c] => Ready /\ pc[c] # "count"
    /\ before[c] => result[c] \in {"none", "ready", "opened", "failed"}
    /\ result[c] \in {"ready", "opened"} => Ready

(* The inductive invariant.                                                 *)
SchemaInv ==
    /\ TypeOK
    /\ ~exists => ours /\ Absent
    /\ Absent => version = 0
    /\ ours => ~Foreign /\ version <= Latest
    /\ \A c \in Clients : ClientInv(c)

(* What the program began to build it does not call unknown: a second open  *)
(* and initialize completes the work (crates/mh-db/src/lib.rs:97 and 144).  *)
OwnFileIsNeverUnknown == ours => \A c \in Clients : result[c] # "unknown"
=============================================================================
