---------------------------- MODULE PluginCatalog ----------------------------
(***************************************************************************)
(* The plugins.d directory (crates/mh-host/src/lib.rs): discover_plugins,  *)
(* which runs depend on and which gives up at the first bad manifest, and  *)
(* inspect_plugin_manifests, which the UI shows and which reports every    *)
(* manifest with all its errors.  They are two loops over the same files,  *)
(* written apart.                                                          *)
(*                                                                         *)
(* A directory is the sequence of its entries in the order of their paths. *)
(* Environment names are in the upper case they are compared in.           *)
(***************************************************************************)
EXTENDS Naturals, Sequences, SequencesExt

CONSTANTS
    PluginIds,  \* ids, source names and file stems
    Blank,      \* an id that is empty or white space
    NoName,     \* a field that is not given, a stem that is not UTF-8
    EnvNames,   \* valid environment names
    BadEnvNames \* invalid ones

Names == PluginIds \cup {Blank, NoName}

(* PluginDefinitionFile, with what the file system says of the file.       *)
Manifest == [json : BOOLEAN, text : {"ok", "unreadable", "malformed"}, argv : BOOLEAN,
             literal : SUBSET (EnvNames \cup BadEnvNames),
             inherited : Seq(EnvNames \cup BadEnvNames),
             id : Names, source : Names, stem : Names]

(* The entries that are manifests, in their order.                         *)
Manifests(dir) ==
    LET kept[n \in 0..Len(dir)] ==
            IF n = 0 THEN <<>>
            ELSE IF dir[n].json THEN Append(kept[n - 1], dir[n])
            ELSE kept[n - 1]
    IN kept[Len(dir)]

IdOf(m) == IF m.id # NoName THEN m.id ELSE IF m.source # NoName THEN m.source ELSE m.stem

(* environment_declaration_errors.                                         *)
EnvironmentErrors(literal, inherited) ==
    LET N == DOMAIN inherited
    IN  {<<"invalid", i>> : i \in {j \in N : inherited[j] \in BadEnvNames}}
        \cup {<<"duplicated", i>> : i \in {j \in N : \E h \in 1..j - 1 : inherited[h] = inherited[j]}}
        \cup {<<"in both", i>> : i \in {j \in N : inherited[j] \in literal}}

---------------------------------------------------------------------------
(* discover_plugins: the first error, or the ids in order.                 *)

Trouble(m, seen) ==
    CASE m.text = "unreadable" -> "io"
      [] m.text = "malformed" -> "json"
      [] m.text = "ok" /\ ~m.argv -> "empty argv"
      [] OTHER ->
           CASE EnvironmentErrors(m.literal, m.inherited) # {} -> "environment"
             [] OTHER ->
                  CASE IdOf(m) = NoName -> "no id"
                    [] IdOf(m) = Blank -> "empty id"
                    [] IdOf(m) \in seen -> "duplicate id"
                    [] OTHER -> "none"

(* One turn of the loop; after an error the remaining files are not read.  *)
Load(found, m) ==
    LET error == Trouble(m, ToSet(found.ids))
    IN  IF found.error # "none" THEN found
        ELSE IF error # "none" THEN [error |-> error, ids |-> <<>>]
        ELSE [error |-> "none", ids |-> Append(found.ids, IdOf(m))]

DiscoverPlugins(dir) ==
    LET files == Manifests(dir)
        found[n \in 0..Len(files)] ==
            IF n = 0 THEN [error |-> "none", ids |-> <<>>] ELSE Load(found[n - 1], files[n])
    IN found[Len(files)]

---------------------------------------------------------------------------
(* inspect_plugin_manifests: a first pass over the files, a second for the *)
(* ids that occur more than once.                                          *)

OwnErrors(m) ==
    IF m.text # "ok" THEN {m.text}
    ELSE (IF m.argv THEN {} ELSE {"argv is empty"})
         \cup {e[1] : e \in EnvironmentErrors(m.literal, m.inherited)}
         \cup (IF IdOf(m) = Blank THEN {"id is empty"} ELSE {})
         \cup (IF IdOf(m) = NoName THEN {"id is missing"} ELSE {})

ShownId(m) == IF m.text = "ok" THEN IdOf(m) ELSE NoName

InspectManifests_CountAdjacent(dir) ==
    LET files == Manifests(dir)
        Twice(i) == /\ ShownId(files[i]) \notin {Blank, NoName}
                    /\ \E j \in DOMAIN files : j + 1 = i /\ ShownId(files[j]) = ShownId(files[i])
    IN  [i \in DOMAIN files |->
            [id |-> ShownId(files[i]),
             errors |-> OwnErrors(files[i]) \cup (IF Twice(i) THEN {"duplicate"} ELSE {})]]

InspectManifests(dir) ==
    LET files == Manifests(dir)
        Twice(i) == /\ ShownId(files[i]) \notin {Blank, NoName}
                    /\ \E j \in DOMAIN files \ {i} : ShownId(files[j]) = ShownId(files[i])
    IN  [i \in DOMAIN files |->
            [id |-> ShownId(files[i]),
             errors |-> OwnErrors(files[i]) \cup (IF Twice(i) THEN {"duplicate"} ELSE {})]]

Valid(inspection) == inspection.errors = {}

---------------------------------------------------------------------------
(* The plugins a directory offers to a run are those the UI shows as valid, *)
(* provided it shows every one as valid; otherwise no run starts.           *)
Agreed(dir) ==
    LET found == DiscoverPlugins(dir)
        shown == InspectManifests(dir)
    IN  /\ found.error = "none" <=> \A i \in DOMAIN shown : Valid(shown[i])
        /\ found.error = "none" => found.ids = [i \in DOMAIN shown |-> shown[i].id]
=============================================================================
