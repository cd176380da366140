--------------------------- MODULE UiServerProofs ---------------------------
(***************************************************************************)
(* Proofs about ManagedRun, for every set of runs, and about UiServer, for *)
(* every set of connections and every limit: around the runs the server    *)
(* does what ManagedRun describes, its slots are counted right, and the    *)
(* status it shows goes forward.                                           *)
(***************************************************************************)
EXTENDS UiServer, FiniteSetTheorems, TLAPS

---------------------------------------------------------------------------
(* The runs.                                                               *)

LEMMA RunInvInit == Init => RunInv
BY NoRunOK DEF Init, RunInv, TypeOK, ReportMatchesStore, Stages, Live

(* A worker's steps, once its run is known to be the active one.           *)
LEMMA WorkerInv ==
    ASSUME RunInv, NEW r \in Runs, Worker(r)
    PROVE  RunInv'
<1> USE NoRunOK DEF RunInv, TypeOK, Stages, Live, Step, Report, managed, ReportMatchesStore
<1>1. CASE Prepare(r)
  BY <1>1 DEF Prepare
<1>2. CASE HostReturns(r)
  BY <1>2 DEF HostReturns
<1>3. CASE MarkIngesting(r)
  BY <1>3 DEF MarkIngesting
<1>4. CASE Ingest(r)
  BY <1>4 DEF Ingest
<1>5. CASE Finish(r)
  BY <1>5 DEF Finish
<1> QED
  BY <1>1, <1>2, <1>3, <1>4, <1>5 DEF Worker, OwnSteps

LEMMA HandlerInv ==
    ASSUME RunInv,
           \/ \E r \in Runs : Discover(r) \/ Spawn(r) \/ SpawnRefused(r)
           \/ \E id \in Runs \cup {NoRun} : Cancel(id)
    PROVE  RunInv'
<1> USE NoRunOK DEF RunInv, TypeOK, Stages, Live, Step, managed, ReportMatchesStore
<1>1. ASSUME NEW r \in Runs, Discover(r) PROVE RunInv'
  BY <1>1 DEF Discover
<1>2. ASSUME NEW r \in Runs, Spawn(r) PROVE RunInv'
  BY <1>2 DEF Spawn
<1>3. ASSUME NEW r \in Runs, SpawnRefused(r) PROVE RunInv'
  BY <1>3 DEF SpawnRefused
<1>4. ASSUME NEW id \in Runs \cup {NoRun}, Cancel(id) PROVE RunInv'
  BY <1>4 DEF Cancel
<1> QED
  BY <1>1, <1>2, <1>3, <1>4

(* After a restart nothing is under way and nothing has been reported.      *)
LEMMA RestartInv == RunInv /\ Restart => RunInv'
<1> SUFFICES ASSUME RunInv, Restart PROVE RunInv'
  OBVIOUS
<1>1. /\ active' = NoRun /\ cancellable' = FALSE /\ last' = NoRun
      /\ ingested' = ingested /\ acked' = acked
      /\ ingested \subseteq Runs /\ acked \subseteq Runs
  BY DEF Restart, RunInv, TypeOK
<1>2. \A r \in Runs : /\ worker'[r] = IF worker[r] = "unused" THEN "unused" ELSE "gone"
                      /\ verdict'[r] = "none"
                      /\ token'[r] = FALSE
  BY DEF Restart
<1>3. TypeOK'
  <2>1. worker' \in [Runs -> Stages]
    BY DEF Restart, RunInv, TypeOK, Stages
  <2>2. verdict' \in [Runs -> {"none", "succeeded", "cancelled", "failed"}]
    BY DEF Restart
  <2>3. token' \in [Runs -> BOOLEAN]
    BY DEF Restart
  <2> QED
    BY <1>1, <2>1, <2>2, <2>3 DEF TypeOK
<1>4. ReportMatchesStore'
  BY <1>1 DEF ReportMatchesStore
<1> QED
  BY <1>1, <1>2, <1>3, <1>4, NoRunOK DEF RunInv, Live, Stages

LEMMA RunInvStep == RunInv /\ [Next]_vars => RunInv'
<1>1. RunInv /\ UNCHANGED vars => RunInv'
  BY DEF RunInv, TypeOK, ReportMatchesStore, vars, managed, Stages, Live
<1> QED
  BY <1>1, WorkerInv, HandlerInv, RestartInv DEF Next

(* The registry, the tokens and the workers agree in every state.           *)
THEOREM RunInvariant == Spec => []RunInv
BY RunInvInit, RunInvStep, PTL DEF Spec

(* No cancellation that was accepted is ever followed by an ingest, and no  *)
(* run that was ingested has been told it would be cancelled.               *)
THEOREM AcceptedCancelHolds == Spec => []AcceptedCancelNeverIngests
<1>1. RunInv => AcceptedCancelNeverIngests
  BY DEF RunInv, AcceptedCancelNeverIngests, TypeOK
<1> QED
  BY <1>1, RunInvariant, PTL

(* No two runs are under way at once.                                       *)
THEOREM SingleRun == Spec => []OneRunAtATime
<1>1. RunInv => OneRunAtATime
  BY DEF RunInv, OneRunAtATime
<1> QED
  BY <1>1, RunInvariant, PTL

(* The status of the last run agrees with the store.                        *)
THEOREM ReportIsTrue == Spec => []ReportMatchesStore
<1>1. RunInv => ReportMatchesStore
  BY DEF RunInv
<1> QED
  BY <1>1, RunInvariant, PTL

---------------------------------------------------------------------------
(* The slots.                                                              *)

LEMMA HoldersFinite == IsFiniteSet(SlotHolders) /\ Cardinality(SlotHolders) \in Nat
BY ServerConstantsOK, FS_Subset, FS_CardinalityType DEF SlotHolders

(* A connection that takes a slot, gives it up, or goes on with or without. *)
LEMMA SlotTaken ==
    ASSUME stage \in [Conns -> {"closed", "queued"} \cup Slotted],
           NEW c \in Conns, NEW to \in Slotted, stage[c] \notin Slotted,
           stage' = [stage EXCEPT ![c] = to]
    PROVE  Cardinality(SlotHolders') = Cardinality(SlotHolders) + 1
<1>1. SlotHolders' = SlotHolders \cup {c} /\ c \notin SlotHolders
  BY DEF SlotHolders
<1> QED
  BY <1>1, HoldersFinite, FS_AddElement

LEMMA SlotGiven ==
    ASSUME stage \in [Conns -> {"closed", "queued"} \cup Slotted],
           NEW c \in Conns, NEW to \in {"closed", "queued"}, stage[c] \in Slotted,
           stage' = [stage EXCEPT ![c] = to]
    PROVE  /\ Cardinality(SlotHolders') = Cardinality(SlotHolders) - 1
           /\ Cardinality(SlotHolders) > 0
<1>1. to \notin Slotted
  BY DEF Slotted
<1>2. SlotHolders' = SlotHolders \ {c} /\ c \in SlotHolders
  BY <1>1 DEF SlotHolders
<1>3. Cardinality(SlotHolders') = Cardinality(SlotHolders) - 1
  BY <1>2, HoldersFinite, FS_RemoveElement
<1>4. SlotHolders # {}
  BY <1>2
<1>5. Cardinality(SlotHolders) # 0
  BY <1>4, HoldersFinite, FS_EmptySet
<1> QED
  BY <1>3, <1>5, HoldersFinite

LEMMA SlotKept ==
    ASSUME stage \in [Conns -> {"closed", "queued"} \cup Slotted],
           NEW c \in Conns, NEW to, stage[c] \in Slotted <=> to \in Slotted,
           stage' = [stage EXCEPT ![c] = to]
    PROVE  SlotHolders' = SlotHolders
BY DEF SlotHolders

---------------------------------------------------------------------------
(* The invariant.                                                          *)

Idle(c) == IF stage[c] = "reading" THEN age[c] + quiet[c] <= Budget ELSE age[c] = 0

Elsewhere(c) ==
    \A d \in Conns \ {c} :
        stage'[d] = stage[d] /\ age'[d] = age[d] /\ quiet'[d] = quiet[d] /\ asks'[d] = asks[d]

(* A step of one connection, by which no run is started.                    *)
LEMMA OneConnection ==
    ASSUME ServerInv, NEW c \in Conns, ServerTypeOK', slots' = Cardinality(SlotHolders'),
           Elsewhere(c), stage'[c] # "starting", Idle(c)',
           \A d \in Conns \ {c} :
               stage[d] = "starting" => worker'[asks[d].id] = worker[asks[d].id]
    PROVE  ServerInv'
BY DEF ServerInv, Elsewhere, Idle

LEMMA ReleaseStep ==
    ASSUME ServerInv, NEW c \in Conns, stage[c] \in Slotted, Release(c),
           \A d \in Conns \ {c} :
               stage[d] = "starting" => worker'[asks[d].id] = worker[asks[d].id]
    PROVE  ServerInv'
<1>1. /\ Cardinality(SlotHolders') = Cardinality(SlotHolders) - 1
      /\ Cardinality(SlotHolders) > 0
  BY SlotGiven DEF ServerInv, ServerTypeOK, Release
<1>2. slots' = Cardinality(SlotHolders') /\ slots' \in 0..MaxConnections
  BY <1>1, ServerConstantsOK DEF ServerInv, ServerTypeOK, Release
<1>3. ServerTypeOK'
  BY <1>2 DEF ServerInv, ServerTypeOK, Release, Nothing, Requests
<1>4. Elsewhere(c) /\ stage'[c] # "starting" /\ Idle(c)'
  BY DEF ServerInv, ServerTypeOK, Release, Elsewhere, Idle
<1> QED
  BY <1>2, <1>3, <1>4, OneConnection

LEMMA AnsweringStep ==
    ASSUME ServerInv, NEW c \in Conns, stage[c] \in Slotted, Answering(c),
           \A d \in Conns \ {c} :
               stage[d] = "starting" => worker'[asks[d].id] = worker[asks[d].id]
    PROVE  ServerInv'
<1>1. SlotHolders' = SlotHolders
  BY SlotKept DEF ServerInv, ServerTypeOK, Answering, Slotted
<1>2. slots' = Cardinality(SlotHolders') /\ ServerTypeOK'
  BY <1>1 DEF ServerInv, ServerTypeOK, Answering, Nothing, Requests, Slotted
<1>3. Elsewhere(c) /\ stage'[c] # "starting" /\ Idle(c)'
  BY DEF ServerInv, ServerTypeOK, Answering, Elsewhere, Idle
<1> QED
  BY <1>2, <1>3, OneConnection

LEMMA AcceptLoop ==
    ASSUME ServerInv, NEW c \in Conns, Connect(c) \/ Accept(c) \/ Spawned(c)
    PROVE  ServerInv'
<1> USE DEF Moves
<1>1. UNCHANGED worker
  BY DEF Connect, Accept, Spawned, vars
<1>2. Elsewhere(c) /\ stage'[c] # "starting"
  BY DEF ServerInv, ServerTypeOK, Connect, Accept, Spawned, Elsewhere
<1>3. slots' = Cardinality(SlotHolders') /\ slots' \in 0..MaxConnections
  <2>1. CASE Connect(c) \/ Spawned(c) \/ (Accept(c) /\ UNCHANGED slots)
    <3>1. SlotHolders' = SlotHolders
      BY <2>1, SlotKept DEF ServerInv, ServerTypeOK, Connect, Accept, Spawned, Slotted
    <3> QED
      BY <2>1, <3>1 DEF ServerInv, ServerTypeOK, Connect, Spawned
  <2>2. CASE Accept(c) /\ slots < MaxConnections /\ slots' = slots + 1
                       /\ Moves(c, "queued", "accepted")
    <3>1. Cardinality(SlotHolders') = Cardinality(SlotHolders) + 1
      BY <2>2, SlotTaken DEF ServerInv, ServerTypeOK, Slotted
    <3> QED
      BY <2>2, <3>1, ServerConstantsOK DEF ServerInv, ServerTypeOK
  <2> QED
    BY <2>1, <2>2 DEF Accept
<1>4. quiet' \in [Conns -> Nat] /\ Idle(c)'
  <2>1. NextRead(0) \in Nat /\ NextRead(0) <= Budget
    BY ServerConstantsOK DEF NextRead
  <2>2. CASE Spawned(c)
    BY <2>1, <2>2 DEF ServerInv, ServerTypeOK, Spawned, Idle
  <2>3. CASE Connect(c) \/ Accept(c)
    BY <2>3 DEF ServerInv, ServerTypeOK, Connect, Accept, Idle
  <2> QED
    BY <2>2, <2>3
<1>5. ServerTypeOK'
  BY <1>3, <1>4 DEF ServerInv, ServerTypeOK, Connect, Accept, Spawned, Slotted
<1> QED
  BY <1>1, <1>2, <1>3, <1>4, <1>5, OneConnection

LEMMA BroughtIsRequest == Brought \subseteq Requests
BY DEF Brought, Requests

LEMMA ReadingStep ==
    ASSUME ServerInv, NEW c \in Conns, Receive(c) \/ Received(c)
    PROVE  ServerInv'
<1>1. UNCHANGED worker /\ stage[c] = "reading" /\ age[c] \in Nat
  BY DEF ServerInv, ServerTypeOK, Receive, Received, vars
<1>2. CASE Answering(c)
  BY <1>1, <1>2, AnsweringStep DEF Slotted
<1>3. CASE Receive(c) /\ age[c] < Budget /\ UNCHANGED <<stage, slots, age, asks>>
           /\ quiet' = [quiet EXCEPT ![c] = NextRead(age[c])]
  <2>1. NextRead(age[c]) \in Nat /\ age[c] + NextRead(age[c]) <= Budget
    BY <1>1, <1>3, ServerConstantsOK DEF NextRead
  <2>2. slots' = Cardinality(SlotHolders') /\ ServerTypeOK'
    BY <1>3, <2>1 DEF ServerInv, ServerTypeOK, SlotHolders
  <2>3. Elsewhere(c) /\ stage'[c] # "starting" /\ Idle(c)'
    BY <1>1, <1>3, <2>1 DEF ServerInv, ServerTypeOK, Elsewhere, Idle
  <2> QED
    BY <1>1, <2>2, <2>3, OneConnection
<1>4. CASE Received(c) /\ ~Answering(c)
  <2>1. PICK q \in Brought :
          /\ stage' = [stage EXCEPT ![c] = "handling"]
          /\ age' = [age EXCEPT ![c] = 0]
          /\ quiet' = [quiet EXCEPT ![c] = 0]
          /\ asks' = [asks EXCEPT ![c] = q]
          /\ UNCHANGED slots
    BY <1>4 DEF Received
  <2>2. q \in Requests
    BY BroughtIsRequest
  <2>3. SlotHolders' = SlotHolders
    BY <1>1, <2>1, SlotKept DEF ServerInv, ServerTypeOK, Slotted
  <2>4. slots' = Cardinality(SlotHolders') /\ ServerTypeOK'
    BY <2>1, <2>2, <2>3 DEF ServerInv, ServerTypeOK, Slotted
  <2>5. Elsewhere(c) /\ stage'[c] # "starting" /\ Idle(c)'
    BY <2>1 DEF ServerInv, ServerTypeOK, Elsewhere, Idle
  <2> QED
    BY <1>1, <2>4, <2>5, OneConnection
<1> QED
  BY <1>2, <1>3, <1>4 DEF Receive, Received

LEMMA EndingStep ==
    ASSUME ServerInv, NEW c \in Conns,
           NotSpawned(c) \/ Malformed(c) \/ Stalled(c) \/ Broken(c) \/ Answered(c)
    PROVE  ServerInv'
<1>1. UNCHANGED worker /\ stage[c] \in Slotted /\ (Release(c) \/ Answering(c))
  BY DEF NotSpawned, Malformed, Stalled, Broken, Answered, Slotted, vars
<1> QED
  BY <1>1, ReleaseStep, AnsweringStep

(* Only one handler is between the registry and the thread of a run, since *)
(* the run it registered is the active one.                                *)
LEMMA HandleStep ==
    ASSUME RunInv, ServerInv, NEW c \in Conns, Handle(c)
    PROVE  ServerInv'
<1>1. stage[c] = "handling" /\ asks[c] \in Requests
  BY DEF ServerInv, ServerTypeOK, Handle
<1>2. CASE Answering(c)
  <2>1. UNCHANGED worker
    BY <1>1, <1>2 DEF Handle, Cancel, vars, Answering, ServerInv, ServerTypeOK
  <2> QED
    BY <1>1, <1>2, <2>1, AnsweringStep DEF Slotted
<1>3. ASSUME NEW r \in Runs, Discover(r),
             stage' = [stage EXCEPT ![c] = "starting"],
             asks' = [asks EXCEPT ![c].id = r],
             UNCHANGED <<slots, age, quiet>>
      PROVE  ServerInv'
  <2>1. SlotHolders' = SlotHolders
    BY <1>1, <1>3, SlotKept DEF ServerInv, ServerTypeOK, Slotted
  <2>2. [asks[c] EXCEPT !.id = r] \in Requests
    BY <1>1 DEF Requests
  <2>3. asks' = [asks EXCEPT ![c] = [asks[c] EXCEPT !.id = r]]
    BY <1>3
  <2>4. slots' = Cardinality(SlotHolders') /\ ServerTypeOK'
    BY <1>3, <2>1, <2>2, <2>3 DEF ServerInv, ServerTypeOK, Slotted
  <2>5. asks'[c].id = r /\ worker'[r] = "requested"
    BY <1>1, <1>3, <2>2, <2>3 DEF ServerInv, ServerTypeOK, Requests, Discover, Step, RunInv, TypeOK
  <2>6. \A d \in Conns : stage[d] # "starting"
    <3>1. active = NoRun
      BY <1>3 DEF Discover
    <3>2. \A q \in Runs : worker[q] = "requested" => active = q
      BY DEF RunInv, Live, Stages
    <3> QED
      BY <3>1, <3>2, NoRunOK DEF ServerInv
  <2>7. Elsewhere(c) /\ stage'[c] = "starting" /\ age'[c] = 0
    BY <1>1, <1>3, <2>3 DEF ServerInv, ServerTypeOK, Elsewhere
  <2> QED
    BY <2>4, <2>5, <2>6, <2>7 DEF ServerInv, Elsewhere
<1> QED
  BY <1>2, <1>3 DEF Handle

LEMMA StartRunStep ==
    ASSUME ServerInv, RunInv, NEW c \in Conns, StartRun(c)
    PROVE  ServerInv'
<1>1. stage[c] \in Slotted /\ \A d \in Conns \ {c} : stage[d] # "starting"
  BY DEF ServerInv, StartRun, Slotted
<1> QED
  BY <1>1, AnsweringStep, ReleaseStep DEF StartRun

LEMMA TickStep == ASSUME ServerInv, Tick PROVE ServerInv'
<1>1. SlotHolders' = SlotHolders /\ UNCHANGED <<slots, stage, asks, worker>>
  BY DEF Tick, SlotHolders, vars
<1>2. \A c \in Conns :
        /\ age'[c] = IF stage[c] = "reading" THEN age[c] + 1 ELSE age[c]
        /\ quiet'[c] = IF stage[c] = "reading" THEN quiet[c] - 1 ELSE quiet[c]
        /\ stage[c] = "reading" => quiet[c] > 0
        /\ age[c] \in Nat /\ quiet[c] \in Nat
  BY DEF Tick, ServerInv, ServerTypeOK
<1>3. age' \in [Conns -> Nat] /\ quiet' \in [Conns -> Nat]
  BY <1>2 DEF Tick
<1>4. \A c \in Conns : Idle(c)'
  BY <1>1, <1>2, ServerConstantsOK DEF ServerInv, Idle
<1> QED
  BY <1>1, <1>3, <1>4 DEF ServerInv, ServerTypeOK, Idle

LEMMA ServerInvStep ==
    ASSUME RunInv, ServerInv, [ServerNext]_serverVars
    PROVE  ServerInv'
<1>1. CASE UNCHANGED serverVars
  BY <1>1 DEF ServerInv, ServerTypeOK, SlotHolders, serverVars, http, vars
<1>2. ASSUME NEW r \in Runs, RunStep(r) PROVE ServerInv'
  <2>1. UNCHANGED http
    BY <1>2 DEF RunStep
  <2>2. \A q \in Runs : worker[q] = "requested" => worker'[q] = "requested"
    BY <1>2 DEF RunStep, Worker, OwnSteps, Prepare, HostReturns, MarkIngesting, Ingest, Finish,
                Step, Report, RunInv, TypeOK
  <2> QED
    BY <2>1, <2>2 DEF ServerInv, ServerTypeOK, SlotHolders, http
<1>3. CASE ServerRestart
  <2>1. \A c \in Conns : stage'[c] = "closed" /\ age'[c] = 0
    BY <1>3 DEF ServerRestart
  <2>2. SlotHolders' = {}
    BY <2>1 DEF SlotHolders, Slotted
  <2>3. slots' = Cardinality(SlotHolders')
    BY <1>3, <2>2, FS_EmptySet DEF ServerRestart
  <2>4. ServerTypeOK'
    BY <1>3, ServerConstantsOK DEF ServerRestart, ServerTypeOK, Nothing, Requests
  <2> QED
    BY <2>1, <2>3, <2>4 DEF ServerInv
<1>4. ASSUME NEW c \in Conns, Client(c) \/ Accept(c) \/ Connection(c) PROVE ServerInv'
  BY <1>4, AcceptLoop, ReadingStep, EndingStep, HandleStep, StartRunStep
  DEF Client, Connection
<1> QED
  BY <1>1, <1>2, <1>3, <1>4, TickStep DEF ServerNext

---------------------------------------------------------------------------
(* The runs.  Seen without its connections the server does what ManagedRun *)
(* describes.                                                              *)

LEMMA RunsStep ==
    ASSUME ServerInv, [ServerNext]_serverVars
    PROVE  [Next]_vars
<1>1. ASSUME NEW c \in Conns, Handle(c) PROVE [Next]_vars
  <2>1. asks[c].id \in Runs \cup {NoRun}
    BY DEF ServerInv, ServerTypeOK, Requests
  <2> QED
    BY <1>1, <2>1 DEF Handle, Next
<1>2. ASSUME NEW c \in Conns, StartRun(c) PROVE [Next]_vars
  <2>1. asks[c].id \in Runs
    BY <1>2 DEF ServerInv, StartRun
  <2> QED
    BY <1>2, <2>1 DEF StartRun, Next
<1>3. ASSUME NEW c \in Conns, Client(c) \/ Accept(c) \/ Connection(c) PROVE [Next]_vars
  BY <1>1, <1>2, <1>3 DEF Client, Connect, Receive, Received, Malformed, Broken, Accept,
                          Connection, Spawned, NotSpawned, Stalled, Answered
<1>4. ASSUME NEW r \in Runs, RunStep(r) PROVE [Next]_vars
  BY <1>4 DEF RunStep, Next
<1>5. CASE UNCHANGED serverVars
  BY <1>5 DEF serverVars
<1> QED
  BY <1>3, <1>4, <1>5 DEF ServerNext, Tick, ServerRestart, Next

LEMMA ServerInvInit == ServerInit => RunInv /\ ServerInv
<1> SUFFICES ASSUME ServerInit PROVE ServerInv
  BY RunInvInit DEF ServerInit
<1>1. SlotHolders = {}
  BY DEF ServerInit, SlotHolders, Slotted
<1>2. slots = Cardinality(SlotHolders)
  BY <1>1, FS_EmptySet DEF ServerInit
<1>3. ServerTypeOK
  BY ServerConstantsOK DEF ServerInit, ServerTypeOK, Nothing, Requests
<1> QED
  BY <1>2, <1>3 DEF ServerInit, ServerInv

(* The inductive invariant of the server, with that of the runs.           *)
THEOREM ServerInvariant == ServerSpec => [](RunInv /\ ServerInv)
<1>1. RunInv /\ ServerInv /\ [ServerNext]_serverVars => (RunInv /\ ServerInv)'
  BY RunsStep, RunInvStep, ServerInvStep
<1> QED
  BY <1>1, ServerInvInit, PTL DEF ServerSpec

(* The server implements ManagedRun, so that what is proved of the runs    *)
(* holds behind it.                                                        *)
THEOREM ServerImplementsRuns == ServerSpec => Spec
<1>1. ServerInit => Init
  BY DEF ServerInit
<1>2. RunInv /\ ServerInv /\ [ServerNext]_serverVars => [Next]_vars
  BY RunsStep
<1> QED
  BY <1>1, <1>2, ServerInvariant, PTL DEF ServerSpec, Spec

(* With it: a cancellation that was accepted is honoured, never two runs,  *)
(* and a true report, whatever connections come and go.                    *)
THEOREM RunsAreSafeBehindServer ==
    ServerSpec => [](AcceptedCancelNeverIngests /\ OneRunAtATime /\ ReportMatchesStore)
BY ServerImplementsRuns, AcceptedCancelHolds, SingleRun, ReportIsTrue, PTL

---------------------------------------------------------------------------
(* The status.                                                             *)

Forward(r) == Status(r)' = Status(r) \/ Status(r)' \in Successors(Status(r))

LEMMA StatusIs ==
    ASSUME NEW r \in Runs
    PROVE  /\ active = r => Status(r) = IF token[r] THEN "cancelling"
                                       ELSE IF cancellable THEN "running" ELSE "ingesting"
           /\ active # r /\ last = r => Status(r) = verdict[r]
           /\ active # r /\ last # r => Status(r) = "unknown"
BY DEF Status

LEMMA FinishShows ==
    ASSUME RunInv, NEW r \in Runs, Finish(r), NEW q \in Runs
    PROVE  Forward(q)
<1>1. active = r /\ active' = NoRun /\ last' = r
  BY DEF RunInv, Finish, Step, Live, Stages
<1>2. /\ verdict' = verdict
      /\ verdict[r] \in {"succeeded", "cancelled", "failed"}
      /\ verdict[r] = "succeeded" => ~cancellable /\ ~token[r]
      /\ verdict[r] = "cancelled" => token[r]
  BY <1>1 DEF RunInv, TypeOK, Finish, Step
<1>3. CASE q = r
  <2>1. Status(q)' = verdict[r]
    BY <1>1, <1>2, <1>3, NoRunOK DEF Status
  <2> QED
    BY <1>1, <1>2, <1>3, <2>1, StatusIs DEF Forward, Successors
<1>4. CASE q # r
  <2>1. Status(q)' = "unknown"
    BY <1>1, <1>4, NoRunOK DEF Status
  <2>2. Status(q) = "unknown" \/ Status(q) \in {"none", "succeeded", "cancelled", "failed"}
    BY <1>1, <1>4, StatusIs DEF RunInv, TypeOK
  <2> QED
    BY <2>1, <2>2 DEF Forward, Successors
<1> QED
  BY <1>3, <1>4

LEMMA RunsShow ==
    ASSUME RunInv, [Next]_vars, NEW q \in Runs
    PROVE  Forward(q)
<1>1. ASSUME UNCHANGED managed, active # q => UNCHANGED verdict PROVE Forward(q)
  BY <1>1 DEF Forward, Status, managed
<1>2. ASSUME NEW r \in Runs, Worker(r) PROVE Forward(q)
  <2>1. CASE Finish(r)
    BY <2>1, FinishShows
  <2>2. worker[r] \in Live \/ Finish(r)
    BY <1>2 DEF Worker, OwnSteps, Prepare, HostReturns, MarkIngesting, Ingest, Step, Report,
                Live, Stages
  <2>3. active = r \/ Finish(r)
    BY <2>2 DEF RunInv
  <2>4. CASE UNCHANGED managed
    <3>1. active = r => \A p \in Runs \ {r} : verdict'[p] = verdict[p]
      BY <1>2 DEF Worker, OwnSteps, Prepare, HostReturns, MarkIngesting, Ingest, Finish,
                  Report, RunInv, TypeOK
    <3> QED
      BY <2>1, <2>3, <2>4, <3>1 DEF Forward, Status, managed
  <2>5. CASE MarkIngesting(r) /\ ~UNCHANGED managed
    <3>1. /\ active = r /\ ~token[r] /\ cancellable' = FALSE
          /\ UNCHANGED <<active, token, last, verdict>>
      BY <2>5, <2>3 DEF MarkIngesting, managed, Finish, Step
    <3> QED
      BY <3>1 DEF Forward, Status, Successors
  <2> QED
    BY <1>2, <2>1, <2>4, <2>5 DEF Worker, OwnSteps, Prepare, HostReturns, Ingest
<1>3. ASSUME NEW r \in Runs, Discover(r) PROVE Forward(q)
  <2>1. /\ active = NoRun /\ active' = r /\ cancellable' = TRUE
        /\ UNCHANGED <<token, last, verdict>>
        /\ ~token[r] /\ last # r
    BY <1>3 DEF Discover, Step, RunInv
  <2>2. CASE q = r
    <3>1. Status(q) = "unknown"
      BY <2>1, <2>2, NoRunOK, StatusIs
    <3>2. Status(q)' = "running"
      BY <2>1, <2>2 DEF Status
    <3> QED
      BY <3>1, <3>2 DEF Forward, Successors
  <2>3. CASE q # r
    BY <2>1, <2>3, NoRunOK DEF Forward, Status
  <2> QED
    BY <2>2, <2>3
<1>4. ASSUME NEW id \in Runs \cup {NoRun}, Cancel(id) PROVE Forward(q)
  <2>1. /\ active \in Runs /\ cancellable
        /\ token' = [token EXCEPT ![active] = TRUE]
        /\ UNCHANGED <<active, cancellable, last, verdict>>
    BY <1>4 DEF Cancel, RunInv, TypeOK
  <2>2. CASE q = active
    <3>1. Status(q) \in {"cancelling", "running"}
      BY <2>1, <2>2, StatusIs
    <3>2. token'[q] = TRUE /\ active' = q
      BY <2>1, <2>2 DEF RunInv, TypeOK
    <3>3. Status(q)' = "cancelling"
      BY <3>2 DEF Status
    <3> QED
      BY <3>1, <3>3 DEF Forward, Successors
  <2>3. CASE q # active
    BY <2>1, <2>3 DEF Forward, Status
  <2> QED
    BY <2>2, <2>3
<1>5. CASE Restart
  <2>1. Status(q)' = "unknown"
    BY <1>5, NoRunOK DEF Restart, Status
  <2>2. Status(q) \in {"unknown", "running", "cancelling", "ingesting",
                       "none", "succeeded", "cancelled", "failed"}
    BY StatusIs DEF RunInv, TypeOK
  <2> QED
    BY <2>1, <2>2 DEF Forward, Successors
<1>6. ASSUME NEW r \in Runs, Spawn(r) \/ SpawnRefused(r) PROVE Forward(q)
  BY <1>1, <1>6 DEF Spawn, SpawnRefused
<1>7. CASE UNCHANGED vars
  BY <1>1, <1>7 DEF vars
<1> QED
  BY <1>2, <1>3, <1>4, <1>5, <1>6, <1>7 DEF Next

(* What the status page shows of a run never goes back.                    *)
THEOREM StatusOnlyAdvances == ServerSpec => StatusGoesForward
<1>1. RunInv /\ ServerInv /\ [ServerNext]_serverVars
      => [\A r \in Runs : Status(r)' = Status(r) \/ Status(r)' \in Successors(Status(r))]_serverVars
  BY RunsStep, RunsShow DEF Forward
<1> QED
  BY <1>1, ServerInvariant, PTL DEF ServerSpec, StatusGoesForward
=============================================================================
