------------------------------ MODULE UiServer ------------------------------
(***************************************************************************)
(* The HTTP server around ManagedRun (crates/mh-cli/src/ui.rs): one thread *)
(* accepts connections, each accepted one has a thread and a slot, reads   *)
(* one request within a budget of time, handles it, answers and closes.    *)
(*                                                                         *)
(* Time passes in ticks, and only for the connections that are being read. *)
(* A tick does not overtake a read whose timeout has come.  What a request *)
(* says is kept only as far as a handler acts on it.                       *)
(***************************************************************************)
EXTENDS ManagedRun, Naturals, FiniteSets

CONSTANTS
    Conns,          \* connections; one may be used again once it is closed
    MaxConnections, \* MAX_CONCURRENT_CONNECTIONS
    Budget,         \* UI_REQUEST_DEADLINE, in ticks
    SocketTimeout,  \* UI_SOCKET_TIMEOUT, in ticks
    Manage          \* started with --manage

ASSUME ServerConstantsOK ==
    /\ IsFiniteSet(Conns)
    /\ MaxConnections \in Nat \ {0}
    /\ Budget \in Nat \ {0}
    /\ SocketTimeout \in Nat \ {0}
    /\ Manage \in BOOLEAN

VARIABLES
    stage,  \* per connection: how far it is
    slots,  \* the connections counted in "active"
    age,    \* ticks since its request began to be read
    quiet,  \* ticks until its current read times out
    asks    \* the request it brought

http == <<stage, slots, age, quiet, asks>>
serverVars == <<vars, http>>

Slotted == {"accepted", "reading", "handling", "starting", "answering"}
SlotHolders == {c \in Conns : stage[c] \in Slotted}

(* What a handler acts on: the part of the program, and a run.             *)
Requests == [route : {"other", "discover", "cancel"},
             id : Runs \cup {NoRun}]
Nothing == [route |-> "other", id |-> NoRun]

ServerTypeOK ==
    /\ stage \in [Conns -> {"closed", "queued"} \cup Slotted]
    /\ slots \in 0..MaxConnections
    /\ age \in [Conns -> Nat]
    /\ quiet \in [Conns -> Nat]
    /\ asks \in [Conns -> Requests]

ServerInit ==
    /\ Init
    /\ stage = [c \in Conns |-> "closed"]
    /\ slots = 0
    /\ age = [c \in Conns |-> 0]
    /\ quiet = [c \in Conns |-> 0]
    /\ asks = [c \in Conns |-> Nothing]

Moves(c, from, to) == stage[c] = from /\ stage' = [stage EXCEPT ![c] = to]

---------------------------------------------------------------------------
(* serve_listener.                                                         *)

Connect(c) ==
    /\ Moves(c, "closed", "queued")
    /\ UNCHANGED <<vars, slots, age, quiet, asks>>

(* The accept loop has one connection in hand at a time; only it adds to   *)
(* the count.                                                              *)
AcceptorFree == \A c \in Conns : stage[c] # "accepted"

(* Beyond the limit the answer is 503.                                     *)
Accept(c) ==
    /\ AcceptorFree
    /\ \/ slots >= MaxConnections /\ Moves(c, "queued", "closed") /\ UNCHANGED slots
       \/ slots < MaxConnections /\ Moves(c, "queued", "accepted") /\ slots' = slots + 1
    /\ UNCHANGED <<vars, age, quiet, asks>>

Release_TwiceOnUnwind(c) ==
    /\ stage' = [stage EXCEPT ![c] = "closed"]
    /\ slots' = IF stage[c] = "starting" /\ slots > 1 THEN slots - 2 ELSE slots - 1
    /\ age' = [age EXCEPT ![c] = 0]
    /\ quiet' = [quiet EXCEPT ![c] = 0]
    /\ asks' = [asks EXCEPT ![c] = Nothing]

(* ConnectionSlot::drop, wherever the connection's thread ends, unwinding  *)
(* included, and when there is no thread to give it to.                    *)
Release(c) ==
    /\ stage' = [stage EXCEPT ![c] = "closed"]
    /\ slots' = slots - 1
    /\ age' = [age EXCEPT ![c] = 0]
    /\ quiet' = [quiet EXCEPT ![c] = 0]
    /\ asks' = [asks EXCEPT ![c] = Nothing]

(* read_within_deadline: what is left of the budget, if the socket timeout *)
(* is not shorter.                                                         *)
NextRead(a) == IF Budget - a < SocketTimeout THEN Budget - a ELSE SocketTimeout

Spawned(c) ==
    /\ Moves(c, "accepted", "reading")
    /\ quiet' = [quiet EXCEPT ![c] = NextRead(0)]
    /\ UNCHANGED <<vars, slots, age, asks>>

NotSpawned(c) == stage[c] = "accepted" /\ Release(c) /\ UNCHANGED vars

---------------------------------------------------------------------------
(* read_http_request_until.                                                *)

(* The connection's thread has its answer; what it knew of the request is  *)
(* of no more consequence.                                                 *)
Answering(c) ==
    /\ stage' = [stage EXCEPT ![c] = "answering"]
    /\ age' = [age EXCEPT ![c] = 0]
    /\ quiet' = [quiet EXCEPT ![c] = 0]
    /\ asks' = [asks EXCEPT ![c] = Nothing]
    /\ UNCHANGED slots

Receive_FreshDeadline(c) ==
    /\ stage[c] = "reading"
    /\ age' = [age EXCEPT ![c] = 0]
    /\ quiet' = [quiet EXCEPT ![c] = NextRead(0)]
    /\ UNCHANGED <<vars, stage, slots, asks>>

(* Bytes came and there is more to read, of the header or of the body.     *)
Receive(c) ==
    /\ stage[c] = "reading"
    /\ \/ age[c] >= Budget /\ Answering(c)
       \/ /\ age[c] < Budget
          /\ quiet' = [quiet EXCEPT ![c] = NextRead(age[c])]
          /\ UNCHANGED <<stage, slots, age, asks>>
    /\ UNCHANGED vars

ReadPaths == {"/", "/api/summary", "/api/records", "/api/state/known-source-urls",
              "/api/plugins", "/api/manage/status"}
WritePaths == {"init-db", "discover", "cancel"}   \* below /api/manage/

(* handle_request; a wrong Host, a path nobody knows and a method the path *)
(* does not have are refused.                                              *)
Dispatch(method, path, hostOK) ==
    CASE ~hostOK                                              -> "refused"
      [] hostOK /\ method \in {"GET", "HEAD"} /\ path \in ReadPaths -> "read"
      [] hostOK /\ method = "POST" /\ path \in WritePaths      -> path
      [] OTHER                                                -> "refused"

(* require_management_request, and the body a route wants                  *)
(* (parse_discover_request, the JSON of a cancellation).                   *)
Admitted(route, authentic, wellFormed) ==
    IF route \in WritePaths /\ ~(Manage /\ authentic /\ wellFormed) THEN "refused" ELSE route

(* Every request there is, as far as it matters to the runs.               *)
Brought ==
    LET Routes == {Admitted(Dispatch(method, path, hostOK), authentic, wellFormed) :
                      method \in {"GET", "HEAD", "POST", "PUT"},
                      path \in ReadPaths \cup WritePaths \cup {"/other"},
                      hostOK \in BOOLEAN, authentic \in BOOLEAN, wellFormed \in BOOLEAN}
    IN  {[route |-> "other", id |-> NoRun]}
        \cup [route : Routes \cap {"discover"}, id : {NoRun}]
        \cup [route : Routes \cap {"cancel"}, id : Runs \cup {NoRun}]

(* The last byte is in.  The clock is looked at once more.                 *)
Received(c) ==
    /\ stage[c] = "reading"
    /\ \/ age[c] >= Budget /\ Answering(c)
       \/ /\ age[c] < Budget
          /\ stage' = [stage EXCEPT ![c] = "handling"]
          /\ age' = [age EXCEPT ![c] = 0]
          /\ quiet' = [quiet EXCEPT ![c] = 0]
          /\ \E q \in Brought : asks' = [asks EXCEPT ![c] = q]
          /\ UNCHANGED slots
    /\ UNCHANGED vars

(* 400 to a malformed or oversized request, or one cut short.              *)
Malformed(c) == stage[c] = "reading" /\ Answering(c) /\ UNCHANGED vars

(* 400 to a client that stalls.                                            *)
Stalled(c) == stage[c] = "reading" /\ quiet[c] = 0 /\ Answering(c) /\ UNCHANGED vars

(* A read error ends the thread without an answer.                         *)
Broken(c) == stage[c] = "reading" /\ Release(c) /\ UNCHANGED vars

Tick ==
    /\ \E c \in Conns : stage[c] = "reading"
    /\ \A c \in Conns : stage[c] = "reading" => quiet[c] > 0
    /\ age' = [c \in Conns |-> IF stage[c] = "reading" THEN age[c] + 1 ELSE age[c]]
    /\ quiet' = [c \in Conns |-> IF stage[c] = "reading" THEN quiet[c] - 1 ELSE quiet[c]]
    /\ UNCHANGED <<vars, stage, slots, asks>>

---------------------------------------------------------------------------
(* The handlers.  Every other one leaves the runs alone.                   *)

(* The bound: a request to start more than Runs is answered like one that   *)
(* finds a run under way.                                                   *)
NoneToStart == active # NoRun \/ \A r \in Runs : worker[r] # "unused"

NotToCancel(id) == active = NoRun \/ id \notin {NoRun, active} \/ ~cancellable

Handle(c) ==
    /\ stage[c] = "handling"
    /\ LET q == asks[c]
       IN  \/ q.route = "other" /\ Answering(c) /\ UNCHANGED vars
           \/ q.route = "cancel" /\ Cancel(q.id) /\ Answering(c)
           \/ q.route = "cancel" /\ NotToCancel(q.id) /\ Answering(c) /\ UNCHANGED vars
           \/ q.route = "discover" /\ NoneToStart /\ Answering(c) /\ UNCHANGED vars
           \/ /\ q.route = "discover"
              /\ \E r \in Runs :
                   /\ Discover(r)
                   /\ stage' = [stage EXCEPT ![c] = "starting"]
                   /\ asks' = [asks EXCEPT ![c].id = r]
                   /\ UNCHANGED <<slots, age, quiet>>

(* discover_response goes on with thread::spawn, whose panic ends the      *)
(* connection's thread.                                                    *)
StartRun(c) ==
    /\ stage[c] = "starting"
    /\ \/ Spawn(asks[c].id) /\ Answering(c)
       \/ SpawnRefused(asks[c].id) /\ Release(c)

(* write_to: written, or given up after the write timeout.                 *)
Answered(c) == stage[c] = "answering" /\ Release(c) /\ UNCHANGED vars

(* The process is killed and started again, with another token.            *)
ServerRestart ==
    /\ Restart
    /\ stage' = [c \in Conns |-> "closed"]
    /\ slots' = 0
    /\ age' = [c \in Conns |-> 0]
    /\ quiet' = [c \in Conns |-> 0]
    /\ asks' = [c \in Conns |-> Nothing]

Connection(c) ==
    Spawned(c) \/ NotSpawned(c) \/ Stalled(c) \/ Handle(c) \/ StartRun(c) \/ Answered(c)

Client(c) == Connect(c) \/ Receive(c) \/ Received(c) \/ Malformed(c) \/ Broken(c)

RunStep(r) == Worker(r) /\ UNCHANGED http

ServerNext ==
    \/ \E c \in Conns : Client(c) \/ Accept(c) \/ Connection(c)
    \/ \E r \in Runs : RunStep(r)
    \/ Tick
    \/ ServerRestart

ServerSpec == ServerInit /\ [][ServerNext]_serverVars

(* Threads are scheduled and time goes on; the plugin host need not return. *)
ServerFairSpec ==
    /\ ServerSpec
    /\ \A r \in Runs : WF_serverVars(OwnSteps(r) /\ UNCHANGED http)
    /\ \A c \in Conns : WF_serverVars(Connection(c))
    /\ WF_serverVars(Tick)

---------------------------------------------------------------------------
(* PROPERTIES                                                              *)

(* A slot is taken exactly as long as a connection has a thread or is about *)
(* to get one, whichever way the thread ends; "starting" goes with the run  *)
(* the handler has registered (ConnectionSlot: "decrement exactly once").   *)
(* And no read of a request can last beyond the budget, however its bytes   *)
(* are spread (read_within_deadline: "the whole request bounded by the      *)
(* deadline instead of deadline + one timeout").                            *)
ServerInv ==
    /\ ServerTypeOK
    /\ slots = Cardinality(SlotHolders)
    /\ \A c, d \in Conns :
         /\ stage[c] = "starting" => asks[c].id \in Runs /\ worker[asks[c].id] = "requested"
         /\ stage[c] = "starting" /\ stage[d] = "starting" => c = d
    /\ \A c \in Conns : IF stage[c] = "reading" THEN age[c] + quiet[c] <= Budget
                         ELSE age[c] = 0

(* A full server gets a free slot again, whatever its clients do            *)
(* (UI_REQUEST_DEADLINE: "would otherwise hold a worker (and its            *)
(* concurrency slot) indefinitely").                                        *)
SlotsComeBack == []<>(slots < MaxConnections)

(* management_status_response: active_run_json and completed_run_json.     *)
Status(r) ==
    CASE active = r -> IF token[r] THEN "cancelling"
                       ELSE IF cancellable THEN "running" ELSE "ingesting"
      [] active # r /\ last = r -> verdict[r]
      [] OTHER -> "unknown"

Successors(status) ==
    CASE status = "running"    -> {"cancelling", "ingesting", "failed", "unknown"}
      [] status = "cancelling" -> {"cancelled", "failed", "unknown"}
      [] status = "ingesting"  -> {"succeeded", "failed", "unknown"}
      [] status = "unknown"    -> {"running"}
      [] OTHER                 -> {"unknown"}

(* The status a polling client sees of a run only goes forward: what was    *)
(* "cancelling" never shows as "ingesting" or "succeeded", and what ended   *)
(* shows as nothing else until a later report takes its place.              *)
StatusGoesForward ==
    [][\A r \in Runs : Status(r)' = Status(r) \/ Status(r)' \in Successors(Status(r))]_serverVars
=============================================================================
