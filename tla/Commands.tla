------------------------------ MODULE Commands ------------------------------
(***************************************************************************)
(* The commands of mh (crates/mh-cli/src/main.rs) over SchemaOpen and      *)
(* PluginCatalog: what each does between its arguments and its exit code,  *)
(* with several of them at work on one store file.                         *)
(*                                                                         *)
(* init-db and discover open the store for writing and initialize it;      *)
(* inspect and view open it for reading.  Of the plugin host (PluginHost)  *)
(* and of the ingest (IngestStore) only the outcome is seen here.          *)
(***************************************************************************)
EXTENDS SchemaOpen, PluginCatalog

VARIABLES
    dir,     \* the plugins.d directory
    command, \* per client: the command it runs
    stage,   \* per client: how far a discover is beyond the store
    wanted,  \* per client: the plugin id it names
    stored,  \* per client: its records are committed
    exit     \* per client: how its last command ended

commandVars == <<command, stage, wanted, stored, exit>>
allVars == <<vars, dir, commandVars>>

KindOf == [initdb |-> "init", discover |-> "init", inspect |-> "read", view |-> "read"]

CommandTypeOK ==
    /\ dir \in Seq(Manifest)
    /\ command \in [Clients -> DOMAIN KindOf \cup {"none"}]
    /\ stage \in [Clients -> {"store", "plugins", "host", "ingest", "print"}]
    /\ wanted \in [Clients -> PluginIds]
    /\ stored \in [Clients -> BOOLEAN]
    /\ exit \in [Clients -> {"none", "success", "error", "died"}]

CommandInit ==
    /\ Init
    /\ dir \in Seq(Manifest)
    /\ command = [c \in Clients |-> "none"]
    /\ stage = [c \in Clients |-> "store"]
    /\ wanted \in [Clients -> PluginIds]
    /\ stored = [c \in Clients |-> FALSE]
    /\ exit = [c \in Clients |-> "none"]

Exit(c, how) ==
    /\ command' = [command EXCEPT ![c] = "none"]
    /\ stage' = [stage EXCEPT ![c] = "store"]
    /\ exit' = [exit EXCEPT ![c] = how]
    /\ UNCHANGED <<vars, dir, wanted, stored>>

Advance(c, from, to) ==
    /\ command[c] = "discover" /\ stage[c] = from
    /\ stage' = [stage EXCEPT ![c] = to]
    /\ UNCHANGED <<vars, dir, command, wanted, exit>>

---------------------------------------------------------------------------
(* run: the arguments are in order.                                        *)
Call(c, cmd) ==
    /\ command[c] = "none"
    /\ Start(c, KindOf[cmd])
    /\ command' = [command EXCEPT ![c] = cmd]
    /\ stored' = [stored EXCEPT ![c] = FALSE]
    /\ exit' = [exit EXCEPT ![c] = "none"]
    /\ UNCHANGED <<dir, stage, wanted>>

(* Wrong arguments: parse_discover_options, run_view and the match itself  *)
(* refuse before anything is opened.                                       *)
Refuse(c) ==
    /\ command[c] = "none"
    /\ stored' = [stored EXCEPT ![c] = FALSE]
    /\ exit' = [exit EXCEPT ![c] = "error"]
    /\ UNCHANGED <<vars, dir, command, stage, wanted>>

(* The statements of Database::open, initialize, open_read_only and        *)
(* inspect_path.                                                           *)
StoreStep(c) ==
    /\ command[c] # "none"
    /\ \/ Connect(c) \/ FindMigrations(c) \/ ReadMax(c) \/ CountTables(c)
       \/ ValidateTable(c) \/ CreateTable(c) \/ MarkVersion(c) \/ Fail(c)
    /\ UNCHANGED <<dir, commandVars>>

Usable(c) == pc[c] = "idle" /\ result[c] \in {"ready", "opened"}

(* The store was refused, or the operation on it failed, by an error or    *)
(* with the process.                                                       *)
StoreRefused(c) ==
    /\ command[c] # "none"
    /\ pc[c] = "idle" /\ ~Usable(c)
    /\ \E how \in {"error", "died"} : Exit(c, how)

(* init-db, inspect and view read (StoreReads) and print.                  *)
PrintAnswer(c) ==
    /\ command[c] \in {"initdb", "inspect", "view"}
    /\ Usable(c)
    /\ \E how \in {"success", "error", "died"} : Exit(c, how)

(* run_discover.                                                           *)
OpenedForRun(c) == Usable(c) /\ Advance(c, "store", "plugins") /\ UNCHANGED stored

FindPlugin_AnyValid(c) ==
    \/ /\ \E i \in DOMAIN InspectManifests(dir) :
            Valid(InspectManifests(dir)[i]) /\ InspectManifests(dir)[i].id = wanted[c]
       /\ Advance(c, "plugins", "host")
       /\ UNCHANGED stored
    \/ /\ stage[c] = "plugins"
       /\ Exit(c, "error")

(* discover_plugins, then the plugin of the id that was asked for.         *)
FindPlugin(c) ==
    LET found == DiscoverPlugins(dir)
        there == found.error = "none" /\ wanted[c] \in ToSet(found.ids)
    IN  \/ there /\ Advance(c, "plugins", "host") /\ UNCHANGED stored
        \/ ~there /\ stage[c] = "plugins" /\ Exit(c, "error")

HostReturns(c) ==
    \/ Advance(c, "host", "ingest") /\ UNCHANGED stored
    \/ stage[c] = "host" /\ Exit(c, "error")

(* ingest_records: one transaction.                                        *)
IngestRecords(c) ==
    \/ Advance(c, "ingest", "print") /\ stored' = [stored EXCEPT ![c] = TRUE]
    \/ stage[c] = "ingest" /\ Exit(c, "error")

(* The report.  With nobody to read it println! panics.                    *)
PrintReport(c) ==
    /\ stage[c] = "print"
    /\ \E how \in {"success", "died"} : Exit(c, how)

(* The process is killed after the store was opened.                       *)
Killed(c) == stage[c] # "store" /\ Exit(c, "died")

CommandNext ==
    \E c \in Clients :
        \/ \E cmd \in DOMAIN KindOf : Call(c, cmd)
        \/ Refuse(c)
        \/ StoreStep(c) \/ StoreRefused(c) \/ PrintAnswer(c)
        \/ OpenedForRun(c) \/ FindPlugin(c) \/ HostReturns(c)
        \/ IngestRecords(c) \/ PrintReport(c) \/ Killed(c)

CommandSpec == CommandInit /\ [][CommandNext]_allVars

---------------------------------------------------------------------------
(* PROPERTIES                                                              *)

(* The UI shows every manifest as valid, and one of them has the id.        *)
Offered(id) ==
    LET shown == InspectManifests(dir)
    IN  /\ \A i \in DOMAIN shown : Valid(shown[i])
        /\ \E i \in DOMAIN shown : shown[i].id = id

(* A caller branches on the exit code: 0 from discover means the records    *)
(* are committed, a reported error that none are, and records only ever go  *)
(* to a store with the whole schema, from a directory all of whose          *)
(* manifests the UI shows as valid (run_discover; view.rs, "a caller can    *)
(* branch on the exit code").                                               *)
ExitTellsOutcome ==
    \A c \in Clients :
        /\ exit[c] = "success" => Ready
        /\ exit[c] = "error" => ~stored[c]
        /\ stage[c] = "print" => stored[c]
        /\ stored[c] => Ready /\ Offered(wanted[c])

(* How far a discover has come says what it found on its way.               *)
StageInv ==
    \A c \in Clients :
        /\ command[c] # "none" => exit[c] = "none"
        /\ command[c] # "none" /\ stage[c] # "print" => ~stored[c]
        /\ stage[c] # "store" => command[c] = "discover" /\ Usable(c)
        /\ stage[c] \in {"host", "ingest", "print"} => Offered(wanted[c])

CommandInv == CommandTypeOK /\ ExitTellsOutcome /\ StageInv

(* What the plugin page shows and what a run finds agree (discover_plugins, *)
(* inspect_plugin_manifests).                                               *)
InspectionAgreesWithDiscovery == Agreed(dir)
=============================================================================
