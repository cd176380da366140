---------------------------- MODULE ManagedRun ----------------------------
(***************************************************************************)
(* The management side of "mh ui --manage" (crates/mh-cli/src/ui.rs): HTTP *)
(* handler threads start and cancel discover runs, one worker thread per   *)
(* run drives the plugin host and ingests, and they meet in the            *)
(* mutex-protected ManagementState.                                        *)
(*                                                                         *)
(* A critical section under the mutex is one step.  The plugin host is     *)
(* seen from outside, as PluginHost describes it: it returns every record, *)
(* or "cancelled" if it saw the token, or a failure, and which of them may *)
(* be decided before the token was pulled.  The ingest is one transaction  *)
(* of the store.  The process may be killed at any time: its memory goes,  *)
(* the committed transactions and what clients were told stay.             *)
(***************************************************************************)

CONSTANTS
    Runs,   \* the runs a client may ask for; a run id is never reused
    NoRun

ASSUME NoRunOK == NoRun \notin Runs

VARIABLES
    active,       \* ManagementState.active: the run id, or NoRun
    cancellable,  \* its "cancellable" flag
    token,        \* the cancellation token of each run
    worker,       \* how far the thread of each run is
    verdict,      \* what the worker has to report of its run
    last,         \* ManagementState.last: the run id, or NoRun
    ingested,     \* the runs whose transaction is committed
    acked         \* the runs whose cancellation was answered 202

managed == <<active, cancellable, token, last>>
vars == <<managed, worker, verdict, ingested, acked>>

(* "requested": registered, its thread not spawned yet.                    *)
Stages == {"unused", "requested", "preparing", "hosting", "hosted", "ingesting",
           "finishing", "gone"}
Live == Stages \ {"unused", "gone"}

TypeOK ==
    /\ active \in Runs \cup {NoRun}
    /\ cancellable \in BOOLEAN
    /\ token \in [Runs -> BOOLEAN]
    /\ worker \in [Runs -> Stages]
    /\ verdict \in [Runs -> {"none", "succeeded", "cancelled", "failed"}]
    /\ last \in Runs \cup {NoRun}
    /\ ingested \subseteq Runs
    /\ acked \subseteq Runs

Init ==
    /\ active = NoRun /\ cancellable = FALSE /\ last = NoRun
    /\ token = [r \in Runs |-> FALSE]
    /\ worker = [r \in Runs |-> "unused"]
    /\ verdict = [r \in Runs |-> "none"]
    /\ ingested = {} /\ acked = {}

Step(r, from, to) == worker[r] = from /\ worker' = [worker EXCEPT ![r] = to]

Report(r, from, status) ==
    /\ Step(r, from, "finishing")
    /\ verdict' = [verdict EXCEPT ![r] = status]

---------------------------------------------------------------------------
(* The handlers.  An answer that changes nothing (409, 404, 403) is no     *)
(* step.                                                                   *)

Discover_NoActiveCheck(r) ==
    /\ Step(r, "unused", "requested")
    /\ active' = r
    /\ cancellable' = TRUE
    /\ UNCHANGED <<token, last, verdict, ingested, acked>>

Discover(r) ==
    /\ active = NoRun
    /\ Step(r, "unused", "requested")
    /\ active' = r
    /\ cancellable' = TRUE
    /\ UNCHANGED <<token, last, verdict, ingested, acked>>

(* thread::spawn, after the mutex was released.                            *)
Spawn(r) ==
    /\ Step(r, "requested", "preparing")
    /\ UNCHANGED <<managed, verdict, ingested, acked>>

(* thread::spawn panics if the system refuses a thread: the handler dies   *)
(* and nobody will ever clear "active".                                    *)
SpawnRefused(r) ==
    /\ Step(r, "requested", "gone")
    /\ UNCHANGED <<managed, verdict, ingested, acked>>

Cancel_AnyTime(id) ==
    /\ active # NoRun
    /\ id \in {NoRun, active}
    /\ token' = [token EXCEPT ![active] = TRUE]
    /\ acked' = acked \cup {active}
    /\ UNCHANGED <<active, cancellable, last, worker, verdict, ingested>>

(* A request names the run or, with an empty body, means the active one.   *)
Cancel(id) ==
    /\ active # NoRun
    /\ id \in {NoRun, active}
    /\ cancellable
    /\ token' = [token EXCEPT ![active] = TRUE]
    /\ acked' = acked \cup {active}
    /\ UNCHANGED <<active, cancellable, last, worker, verdict, ingested>>

---------------------------------------------------------------------------
(* The worker thread: run_ui_discover_inner, then the closing section.     *)

(* Open and initialize the store, find the plugin.                         *)
Prepare(r) ==
    /\ \/ Step(r, "preparing", "hosting") /\ UNCHANGED verdict
       \/ Report(r, "preparing", "failed")
    /\ UNCHANGED <<managed, ingested, acked>>

(* The host starts a thread of its own, and panics if it gets none: the     *)
(* worker unwinds past its closing section, and "active" stays as it is.    *)
HostReturns(r) ==
    /\ \/ Step(r, "hosting", "hosted") /\ UNCHANGED verdict
       \/ token[r] /\ Report(r, "hosting", "cancelled")
       \/ Report(r, "hosting", "failed")
       \/ Step(r, "hosting", "gone") /\ UNCHANGED verdict
    /\ UNCHANGED <<managed, ingested, acked>>

MarkIngesting_NoTokenCheck(r) ==
    /\ Step(r, "hosted", "ingesting")
    /\ cancellable' = FALSE
    /\ UNCHANGED <<active, token, last, verdict, ingested, acked>>

(* mark_run_ingesting: the last moment a cancellation can win.             *)
MarkIngesting(r) ==
    /\ \/ /\ active # r \/ token[r]
          /\ Report(r, "hosted", IF active = r THEN "cancelled" ELSE "failed")
          /\ UNCHANGED cancellable
       \/ /\ active = r /\ ~token[r]
          /\ Step(r, "hosted", "ingesting")
          /\ cancellable' = FALSE
          /\ UNCHANGED verdict
    /\ UNCHANGED <<active, token, last, ingested, acked>>

(* ingest_records: committed, or rolled back as a whole.                   *)
Ingest(r) ==
    /\ \/ Report(r, "ingesting", "succeeded") /\ ingested' = ingested \cup {r}
       \/ Report(r, "ingesting", "failed") /\ UNCHANGED ingested
    /\ UNCHANGED <<managed, acked>>

Finish_KeepActive(r) ==
    /\ Step(r, "finishing", "gone")
    /\ last' = r
    /\ UNCHANGED <<active, cancellable, token, verdict, ingested, acked>>

Finish(r) ==
    /\ Step(r, "finishing", "gone")
    /\ active' = IF active = r THEN NoRun ELSE active
    /\ last' = r
    /\ UNCHANGED <<cancellable, token, verdict, ingested, acked>>

OwnSteps(r) == Prepare(r) \/ MarkIngesting(r) \/ Ingest(r) \/ Finish(r)

Worker(r) == OwnSteps(r) \/ HostReturns(r)

---------------------------------------------------------------------------
(* The process is killed and started again.                                *)
Restart ==
    /\ worker' = [r \in Runs |-> IF worker[r] = "unused" THEN "unused" ELSE "gone"]
    /\ verdict' = [r \in Runs |-> "none"]
    /\ active' = NoRun /\ cancellable' = FALSE /\ last' = NoRun
    /\ token' = [r \in Runs |-> FALSE]
    /\ UNCHANGED <<ingested, acked>>

Next ==
    \/ \E r \in Runs : Discover(r) \/ Spawn(r) \/ SpawnRefused(r) \/ Worker(r)
    \/ \E id \in Runs \cup {NoRun} : Cancel(id)
    \/ Restart

Spec == Init /\ [][Next]_vars

(* A worker is scheduled; nothing says that the plugin host returns to it.  *)
FairSpec == Spec /\ \A r \in Runs : WF_vars(OwnSteps(r))

---------------------------------------------------------------------------
(* PROPERTIES                                                              *)

(* A cancellation that was answered 202 is honoured: the run's records      *)
(* never reach the store, whether the token is seen by the host, found by   *)
(* mark_run_ingesting, or lost with the process.                            *)
AcceptedCancelNeverIngests == acked \cap ingested = {}

(* At most one run is under way, counting the window between the handler's  *)
(* critical section and the start of the thread.                            *)
OneRunAtATime == \A r, s \in Runs : worker[r] \in Live /\ worker[s] \in Live => r = s

(* What the status endpoint says of the last run is what the store holds.   *)
ReportMatchesStore ==
    last # NoRun => (verdict[last] = "succeeded" <=> last \in ingested)

(* Only the plugin host keeps the registry from the next run, while it does *)
(* not return or if it panics: a worker that is not in the host gets to it, *)
(* or frees the registry, whatever failed and whoever cancels meanwhile.    *)
WorkerFreesRegistry ==
    (active # NoRun /\ worker[active] \in Live \ {"requested", "hosting"})
        ~> (active = NoRun \/ worker[active] = "hosting")

(* The inductive invariant.                                                 *)
RunInv ==
    /\ TypeOK
    /\ \A r \in Runs :
         /\ worker[r] \in Live => active = r
         /\ worker[r] = "ingesting" => ~cancellable /\ ~token[r]
         /\ worker[r] \in Live /\ r \in acked => token[r]
         /\ r \in ingested => worker[r] \in {"finishing", "gone"} /\ r \notin acked
         /\ active = r /\ r \in ingested => ~cancellable /\ ~token[r]
         /\ active = r => worker[r] # "unused"
         /\ worker[r] = "unused" => r \notin acked /\ r # last /\ ~token[r]
         /\ worker[r] = "finishing" =>
              /\ verdict[r] # "none"
              /\ verdict[r] = "succeeded" <=> r \in ingested
              /\ verdict[r] = "cancelled" => token[r]
         /\ worker[r] \notin {"finishing", "gone"} => verdict[r] = "none"
    /\ ReportMatchesStore
=============================================================================
