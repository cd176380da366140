------------------------------ MODULE UiExtHost ------------------------------
(***************************************************************************)
(* The program mh-ui-ext from its start on (crates/mh-cli/src/ui_ext.rs):  *)
(* the options, the check of the store, the extension registry, the        *)
(* connection to the provider, and then its two servers: the shell's, with *)
(* the reads of UiExtRead, and the one of the extensions' assets.          *)
(*                                                                         *)
(* Meanwhile the provider may be restarted, which gives it a new socket,   *)
(* and an extension may be updated: new files are renamed into place, old  *)
(* ones removed, links inside its directory repointed.  What is a link     *)
(* stays one, and a file that was replaced does not come back.             *)
(***************************************************************************)
EXTENDS UiExtRead

CONSTANTS
    ArgLists,       \* command lines: sequences of [flag, good]
    Extensions,     \* names of entries of the trusted extension directory
    Listings,       \* what it may hold: for each name a kind, whether the
                    \* manifest is in order, and the entry it names
    ExtOf,          \* the extension of each iframe
    MaxExtensions,  \* MAX_EXTENSIONS
    Places, Links,  \* the paths of files and of links to them
    HomeOf,         \* the extension in whose directory a path lies
    Outside,        \* no extension's
    Typed,          \* the paths with a media type
    Disks,          \* what the directories may hold at the start
    Loads,          \* the connections of the asset server
    Quotas          \* bounds: reads, restarts of the provider, changes of the extensions;
                    \* and whether pages are reloaded and assets asked for

Paths == Places \cup Links

ASSUME ExtConstantsOK ==
    /\ IsFiniteSet(Places)
    /\ Outside \notin Extensions
    /\ HomeOf \in [Paths -> Extensions \cup {Outside}]
    /\ Listings \subseteq [Extensions -> [kind : {"none", "file", "dir", "link"},
                                          manifest : BOOLEAN, entry : Paths]]
    /\ ExtOf \in [Iframes -> Extensions]
    /\ Typed \subseteq Paths
    /\ Disks \subseteq [file : [Places -> 0..Cardinality(Places)], link : [Links -> Places]]
    /\ Quotas \subseteq [reads : Nat, reloads : BOOLEAN, restarts : Nat,
                    changes : Nat, assets : BOOLEAN]

VARIABLES
    phase,    \* where run() is
    registry, \* the extensions it registered
    sockets,  \* of each socket the provider had so far: is it owner-only?
    before,   \* the socket that was checked, and
    peer,     \* the one that was connected to
    disk,     \* the file at each place, 0 for none, and where each link points
    load,     \* per asset connection: how far its request is
    changes,  \* changes of the extensions so far
    quota     \* the bounds of this behaviour

hostVars == <<phase, registry, sockets, before, peer, disk, load, changes, quota>>
extVars == <<vars, hostVars>>

Phases == {"options", "store", "registry", "socket", "connect", "recheck", "hello", "bind",
           "serving", "refused"}

Idle == [step |-> "idle", ext |-> Outside, path |-> None, found |-> None, file |-> 0,
         named |-> {}]

LoadRecords == [step : {"idle", "resolved", "opened", "found", "answered"},
                ext : Extensions \cup {Outside}, path : Paths \cup {None},
                found : Places \cup {None}, file : Nat, named : SUBSET Nat]

ExtTypeOK ==
    /\ phase \in Phases
    /\ registry \subseteq Extensions
    /\ sockets \in Seq(BOOLEAN) /\ sockets # <<>>
    /\ before \in 0..Len(sockets) /\ peer \in 0..Len(sockets)
    /\ disk \in [file : [Places -> Nat], link : [Links -> Places]]
    /\ load \in [Loads -> LoadRecords]
    /\ changes \in Nat
    /\ quota \in Quotas

ExtInit ==
    /\ Init
    /\ phase = "options"
    /\ registry = {}
    /\ \E safe \in BOOLEAN : sockets = <<safe>>
    /\ before = 0 /\ peer = 0
    /\ disk \in Disks
    /\ load = [l \in Loads |-> Idle]
    /\ changes = 0
    /\ quota \in Quotas

---------------------------------------------------------------------------
(* The start.  Each stage is the last one if it fails, of a guard that is  *)
(* not met or of an error of the system.                                   *)

Go(from, to) == phase = from /\ phase' = to

Refuse ==
    /\ phase \notin {"serving", "refused"}
    /\ phase' = "refused"
    /\ UNCHANGED <<vars, registry, sockets, before, peer, disk, load, changes, quota>>

Required == {"--db", "--trusted-extensions-dir", "--provider-socket"}

(* parse_options: known flags with values in order, none twice, and the     *)
(* required ones.                                                           *)
Accepted(args) ==
    /\ \A i \in DOMAIN args : args[i].good /\ args[i].flag \in Required \cup {"--port"}
    /\ \A i, j \in DOMAIN args : args[i].flag = args[j].flag => i = j
    /\ \A flag \in Required : \E i \in DOMAIN args : args[i].flag = flag

ParseOptions ==
    /\ Go("options", "store")
    /\ \E args \in ArgLists : Accepted(args)
    /\ UNCHANGED <<vars, registry, sockets, before, peer, disk, load, changes, quota>>

(* Database::open_read_only and inspect: what SchemaOpen calls "ready".    *)
CheckStore ==
    /\ Go("store", "registry")
    /\ UNCHANGED <<vars, registry, sockets, before, peer, disk, load, changes, quota>>

(* canonicalize, on the files and links as they are, and what is there.    *)
Canonical(d, x) == IF x \in Links THEN d.link[x] ELSE x

(* Path x names a file in the directory of extension e (ensure_within).    *)
Opens(d, e, x) == {HomeOf[x], HomeOf[Canonical(d, x)]} = {e} /\ d.file[Canonical(d, x)] # 0

Named(d, e, x) == IF Opens(d, e, x) THEN {d.file[Canonical(d, x)]} ELSE {}

Dirs(listing) == {e \in Extensions : listing[e].kind = "dir"}

(* The manifest of extension e is in order, and so is the entry it names.  *)
Registers(listing, e) ==
    listing[e].manifest /\ listing[e].entry \in Typed /\ Opens(disk, e, listing[e].entry)

(* ExtensionRegistry::load.  Plain files are passed over; anything else     *)
(* that is not a registration in order refuses the whole directory.         *)
LoadRegistry ==
    /\ Go("registry", "socket")
    /\ \E listing \in Listings :
         /\ \A e \in Extensions : listing[e].kind # "link"
         /\ Cardinality(Dirs(listing)) <= MaxExtensions
         /\ \A e \in Dirs(listing) : Registers(listing, e)
         /\ registry' = Dirs(listing)
    /\ UNCHANGED <<vars, sockets, before, peer, disk, load, changes, quota>>

(* validate_socket_path: a socket of the owner in a directory of the owner. *)
OwnerOnly == sockets[Len(sockets)]

CheckSocket ==
    /\ Go("socket", "connect")
    /\ OwnerOnly
    /\ before' = Len(sockets)
    /\ UNCHANGED <<vars, registry, sockets, peer, disk, load, changes, quota>>

ConnectProvider ==
    /\ Go("connect", "recheck")
    /\ peer' = Len(sockets)
    /\ UNCHANGED <<vars, registry, sockets, before, disk, load, changes, quota>>

RecheckSocket_AnySocket ==
    /\ Go("recheck", "hello")
    /\ OwnerOnly
    /\ UNCHANGED <<vars, registry, sockets, before, peer, disk, load, changes, quota>>

RecheckSocket ==
    /\ Go("recheck", "hello")
    /\ OwnerOnly /\ before = Len(sockets)
    /\ UNCHANGED <<vars, registry, sockets, before, peer, disk, load, changes, quota>>

(* read_frame, validate_hello.                                             *)
ReadHello ==
    /\ Go("hello", "bind")
    /\ UNCHANGED <<vars, registry, sockets, before, peer, disk, load, changes, quota>>

(* bind_listener, twice, and the thread of the asset server.               *)
BindListeners ==
    /\ Go("bind", "serving")
    /\ UNCHANGED <<vars, registry, sockets, before, peer, disk, load, changes, quota>>

Startup ==
    \/ ParseOptions \/ CheckStore \/ LoadRegistry \/ CheckSocket \/ ConnectProvider
    \/ RecheckSocket \/ ReadHello \/ BindListeners \/ Refuse

---------------------------------------------------------------------------
(* The shell server: "/" lists the registry, whose iframes post reads.  A   *)
(* provider that was restarted has left the connection.                     *)

ProviderGone == peer # Len(sockets)

PostRead(x, f, i) == x <= quota.reads /\ ExtOf[f] \in registry /\ Post(x, f, i)

AskProvider(x) == Ask(x) /\ (ProviderGone => failed')

Serving(step) == phase = "serving" /\ step /\ UNCHANGED hostVars

Reading ==
    \/ \E x \in Requests :
         \/ \E f \in Iframes, i \in Ids : PostRead(x, f, i)
         \/ Settle(x) \/ Accept(x) \/ BadRequest(x) \/ AskProvider(x)
         \/ ReadFrame(x) \/ ReadFails(x) \/ EndConnection(x)
         \/ ~ProviderGone /\ Answer(x)
    \/ quota.reloads /\ \E p \in Pages : Reload(p)

RestartProvider ==
    /\ Len(sockets) <= quota.restarts
    /\ \E safe \in BOOLEAN : sockets' = Append(sockets, safe)
    /\ UNCHANGED <<vars, phase, registry, before, peer, disk, load, changes, quota>>

---------------------------------------------------------------------------
(* The asset server: handle_asset and open_confined_file, one look at the   *)
(* file system after the other.                                             *)

LoadStep(l, state) ==
    /\ phase = "serving"
    /\ load' = [load EXCEPT ![l] = state]
    /\ UNCHANGED <<vars, phase, registry, sockets, before, peer, disk, changes, quota>>

(* canonicalize, ensure_within, asset_content_type.                        *)
ResolveAsset(l) ==
    /\ quota.assets
    /\ load[l].step = "idle"
    /\ \E e \in registry, x \in Typed :
         /\ Opens(disk, e, x)
         /\ LoadStep(l, [step |-> "resolved", ext |-> e, path |-> x, found |-> Canonical(disk, x),
                         file |-> 0, named |-> Named(disk, e, x)])

(* File::open, which the change of a link does not affect any more.        *)
OpenAsset(l) ==
    /\ load[l].step = "resolved"
    /\ disk.file[load[l].found] # 0
    /\ LoadStep(l, [load[l] EXCEPT !.step = "opened", !.file = disk.file[load[l].found]])

(* canonicalize again, ensure_within.                                      *)
ResolveAgain(l) ==
    /\ load[l].step = "opened"
    /\ Opens(disk, load[l].ext, load[l].path)
    /\ LoadStep(l, [load[l] EXCEPT !.step = "found", !.found = Canonical(disk, load[l].path)])

CompareFile_NotAtAll(l) ==
    /\ load[l].step = "found"
    /\ LoadStep(l, [load[l] EXCEPT !.step = "answered"])

(* metadata, same_file; what is read then is the file that was opened.     *)
CompareFile(l) ==
    /\ load[l].step = "found"
    /\ disk.file[load[l].found] = load[l].file
    /\ LoadStep(l, [load[l] EXCEPT !.step = "answered"])

(* 404 or 413, or the answer has been written.                             *)
EndLoad(l) == load[l].step # "idle" /\ LoadStep(l, Idle)

Loading ==
    \E l \in Loads :
        ResolveAsset(l) \/ OpenAsset(l) \/ ResolveAgain(l) \/ CompareFile(l) \/ EndLoad(l)

(* An update of an extension.  A new file has an identity of its own.      *)
ChangeExtension ==
    /\ changes < quota.changes
    /\ changes' = changes + 1
    /\ \/ \E p \in Places, n \in {0, Cardinality(Places) + changes'} :
            disk' = [disk EXCEPT !.file[p] = n]
       \/ \E x \in Links, p \in Places : disk' = [disk EXCEPT !.link[x] = p]
    /\ load' = [l \in Loads |->
                  IF load[l].step = "idle" THEN Idle
                  ELSE [load[l] EXCEPT
                           !.named = @ \cup Named(disk', load[l].ext, load[l].path)]]
    /\ UNCHANGED <<vars, phase, registry, sockets, before, peer, quota>>

---------------------------------------------------------------------------
ExtNext == Startup \/ Serving(Reading) \/ RestartProvider \/ Loading \/ ChangeExtension

ExtSpec == ExtInit /\ [][ExtNext]_extVars

(* Browser and server run on, the mutex is given to somebody, and a read   *)
(* from the provider ends, by the socket's time-out if need be (a provider *)
(* that sends a frame byte by byte, each in time, is left out).  Each of   *)
(* these steps is taken once for a request, so that fairness of all of     *)
(* them together starves no request.                                       *)
ExtFairSpec ==
    /\ ExtSpec
    /\ WF_extVars(Serving(\E x \in Requests : AskProvider(x)))
    /\ WF_extVars(Serving(\E x \in Requests : Accept(x)))
    /\ WF_extVars(Serving(\E x \in Requests : ReadFrame(x) \/ ReadFails(x)))
    /\ WF_extVars(Serving(\E x \in Requests : Settle(x)))

---------------------------------------------------------------------------
(* PROPERTIES                                                              *)

(* An asset that is answered is a file that its path named, inside its      *)
(* extension's directory, at some moment of the request, although files are *)
(* replaced and links repointed between the looks at the file system        *)
(* (open_confined_file, "extension asset changed during open").             *)
AssetsAreNamed == \A l \in Loads : load[l].step = "answered" => load[l].file \in load[l].named

(* The start: what it goes on with is the owner-only socket it looked at.   *)
StartInv ==
    /\ phase \in {"connect", "recheck", "hello", "bind", "serving"} =>
           before > 0 /\ sockets[before]
    /\ phase = "recheck" => before <= peer
    /\ phase \in {"hello", "bind", "serving"} => peer = before

(* An asset request: what its path names has been noted, and if the file    *)
(* that was opened is where the second look found one, it was named.        *)
LoadInv(k) ==
    /\ k.path \in Paths /\ k.found \in Places
    /\ Named(disk, k.ext, k.path) \subseteq k.named
    /\ k.step \in {"opened", "found", "answered"} => k.file \in 1..(Cardinality(Places) + changes)
    /\ k.step = "found" /\ disk.file[k.found] = k.file => k.file \in k.named

(* The host as a whole: what it reads from is the owner-only socket it      *)
(* checked, although a restart of the provider may put another one in its   *)
(* place between the check and the connection ("provider socket changed     *)
(* during connect"); nobody is served before it has started, or for an      *)
(* extension it did not register; and the read path is in order.            *)
ExtInv ==
    /\ ExtTypeOK
    /\ UiInv
    /\ StartInv
    /\ \A x \in Requests : at[x] # "unused" =>
           phase = "serving" /\ ExtOf[req[x].frame] \in registry
    /\ \A l \in Loads : load[l].step # "idle" =>
           phase = "serving" /\ load[l].ext \in registry /\ LoadInv(load[l])
    /\ \A p \in Places : disk.file[p] <= Cardinality(Places) + changes
    /\ AssetsAreNamed
=============================================================================
