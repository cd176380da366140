---------------------------- MODULE MCSchemaOpen ----------------------------
(* A small instance of Commands, and with it of SchemaOpen, for TLC.       *)
EXTENDS Commands, TLC

CONSTANTS p, q, HOME, bad

Plain(name) == [json |-> TRUE, text |-> "ok", argv |-> TRUE, literal |-> {},
                inherited |-> <<>>, id |-> name, source |-> NoName, stem |-> q]

(* Manifests that are right in several ways and wrong in every way.        *)
MCManifests ==
    {Plain(p), Plain(q), Plain(Blank), Plain(NoName),
     [Plain(NoName) EXCEPT !.source = p],
     [Plain(NoName) EXCEPT !.source = Blank],
     [Plain(NoName) EXCEPT !.stem = NoName],
     [Plain(p) EXCEPT !.json = FALSE],
     [Plain(p) EXCEPT !.text = "unreadable"],
     [Plain(p) EXCEPT !.text = "malformed"],
     [Plain(p) EXCEPT !.argv = FALSE],
     [Plain(p) EXCEPT !.literal = {HOME}],
     [Plain(p) EXCEPT !.inherited = <<HOME>>],
     [Plain(p) EXCEPT !.literal = {HOME}, !.inherited = <<HOME>>],
     [Plain(p) EXCEPT !.inherited = <<HOME, HOME>>],
     [Plain(p) EXCEPT !.inherited = <<bad>>]}

Many == {<<>>} \cup {<<m>> : m \in MCManifests}
        \cup {<<m, n>> : m \in MCManifests, n \in MCManifests}
        \cup {<<Plain(p), n, Plain(p)>> : n \in MCManifests}

(* Either any file at the path and one good manifest, or a store that is   *)
(* ready and any directory.                                                *)
MCInit ==
    /\ dir \in Many
    /\ CommandInit
    /\ wanted = [c \in Clients |-> p]
    /\ dir = <<Plain(p)>> \/ (Ready /\ ~extra)

MCSpec == MCInit /\ [][CommandNext]_allVars

ClientSymmetry == Permutations(Clients)
=============================================================================
