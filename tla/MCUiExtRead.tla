---------------------------- MODULE MCUiExtRead ----------------------------
(* A small instance of UiExtHost, and so of UiExtRead, for TLC.            *)
EXTENDS UiExtHost, TLC

CONSTANTS p1, f1, f2, e1, e2, e3, v1, v2, w, out, current

(* Two iframes on one page share its ids; a reload makes room for one more *)
(* use of an id while the old request is still at the server.              *)
MCPageOf == [f \in {f1, f2} |-> p1]
MCExtOf == (f1 :> e1) @@ (f2 :> e2)

(* e1 has two files and a link to the current one.                         *)
MCHomeOf ==
    (v1 :> e1) @@ (v2 :> e1) @@ (current :> e1) @@ (w :> e2) @@ (out :> Outside)

MCDisks ==
    {[file |-> (v1 :> 1) @@ (v2 :> 2) @@ (w :> 3) @@ (out :> 4), link |-> (current :> v1)]}

Entry(kind, ok, x) == [kind |-> kind, manifest |-> ok, entry |-> x]

(* Two extensions in order, with a README; and directories that are         *)
(* refused: one extension too many, an entry of no media type, an entry     *)
(* of another extension, a bad manifest, a link.                            *)
MCListings ==
    LET first == (e1 :> Entry("dir", TRUE, current))
        two == (e2 :> Entry("dir", TRUE, w))
    IN  {first @@ two @@ (e3 :> Entry("file", FALSE, out)),
         first @@ two @@ (e3 :> Entry("dir", TRUE, w)),
         (e1 :> Entry("dir", TRUE, v2)) @@ two @@ (e3 :> Entry("none", FALSE, out)),
         first @@ (e2 :> Entry("dir", TRUE, v1)) @@ (e3 :> Entry("none", FALSE, out)),
         first @@ (e2 :> Entry("dir", FALSE, w)) @@ (e3 :> Entry("none", FALSE, out)),
         first @@ (e2 :> Entry("none", FALSE, w)) @@ (e3 :> Entry("link", TRUE, w))}

Args(flags) == [i \in DOMAIN flags |-> [flag |-> flags[i], good |-> TRUE]]

MCArgLists ==
    {Args(<<"--db", "--trusted-extensions-dir", "--provider-socket">>),
     Args(<<"--db", "--db", "--trusted-extensions-dir", "--provider-socket">>),
     Args(<<"--db", "--provider-socket", "--port">>)}

(* Three reads; two while pages are reloaded and the provider restarted;   *)
(* assets.                                                                 *)
MCQuotas ==
    {[reads |-> 3, reloads |-> FALSE, restarts |-> 0, changes |-> 0, assets |-> FALSE],
     [reads |-> 2, reloads |-> TRUE, restarts |-> 1, changes |-> 0, assets |-> FALSE],
     [reads |-> 0, reloads |-> FALSE, restarts |-> 0, changes |-> 3, assets |-> TRUE]}
============================================================================
