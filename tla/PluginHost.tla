---------------------------- MODULE PluginHost ----------------------------
(***************************************************************************)
(* One discover run of the plugin host (crates/mh-host/src/lib.rs).        *)
(*                                                                         *)
(* Four actors share the run: the host thread, which walks through         *)
(* run_discover_with_providers_and_cancel; the reader thread, which moves  *)
(* frames from the plugin's stdout into a bounded channel; the plugin      *)
(* process group (the leader the host spawned and the descendants it       *)
(* forks), which may do anything a program can do; and the outside world,  *)
(* which lets the deadline pass and pulls the cancellation token.          *)
(*                                                                         *)
(* Stdout is kept as the history of frames written, with two cursors into  *)
(* it: the frames up to "handled" were processed by the host, those up to  *)
(* "taken" were moved into the channel by the reader, the rest is still in *)
(* the pipe.  Time is abstract: a deadline or a grace period may end at    *)
(* any moment after it began.                                              *)
(***************************************************************************)
EXTENDS Naturals, Sequences

CONSTANTS
    Frames,          \* the frames the plugin may write to stdout
    Descendants,     \* the processes the plugin may fork
    PipeHolders,     \* the descendants that inherit the plugin's stdin/stdout
    QueueCap,        \* slots of the reader -> host channel (16)
    StdinCap,        \* host messages the stdin pipe holds unread
    MaxFrames,       \* bound: frames written in one run
    MaxBatch,        \* records one record frame may carry (100)
    HostMaxRecords,  \* the host's own cap on records (10 000)
    RequestedMax,    \* limits.max_records as requested, or NoLimit
    NoLimit,
    MaxRecordBytes,  \* cap on the bytes of spooled records (32 MiB)
    MaxLogBytes,     \* cap on the bytes of spooled logs (1 MiB)
    HasToken         \* whether the caller passed a cancellation token

FrameKinds == {"initResult", "discoverResult", "record", "log", "query",
               "fetch", "badRequest", "unknown", "stray", "garbled"}

(* "n": records carried, or records declared by a discover result;         *)
(* "good": how many records validate before the first that does not;       *)
(* "bytes": serialized size of the records or of the log line.             *)
Frame == [kind : FrameKinds, n : Nat, good : Nat, bytes : Nat]

ASSUME ConstantsOK ==
    /\ Frames \subseteq Frame
    /\ PipeHolders \subseteq Descendants
    /\ QueueCap \in Nat \ {0} /\ StdinCap \in Nat \ {0} /\ MaxFrames \in Nat
    /\ MaxBatch \in Nat /\ HostMaxRecords \in Nat
    /\ MaxRecordBytes \in Nat /\ MaxLogBytes \in Nat
    /\ NoLimit \notin Nat
    /\ RequestedMax \in Nat \cup {NoLimit}
    /\ HasToken \in BOOLEAN

VARIABLES
    pc,        \* where the host thread is
    phase,     \* which response the host waits for, or "closing" after both
    fate,      \* the run's return value once it is decided, "none" before
    spool,     \* number of records spooled
    bytes,     \* bytes reserved for them
    logBytes,  \* bytes of log lines kept
    declared,  \* the record count of the discover result
    written,   \* every frame the plugin wrote to stdout, in order
    taken,     \* how many of them the reader moved into the channel
    handled,   \* how many of them the host received from the channel
    reader,    \* the reader thread: "reading" or "stopped"
    eof,       \* whether the end-of-file marker sits in the channel
    overflow,  \* frame_queue_overflowed
    stdin,     \* host messages the plugin has not read yet
    leader,    \* the process the host spawned
    proc,      \* its descendants
    cancelled, \* the cancellation token
    late       \* whether the deadline has passed

hostVars == <<pc, phase, fate, spool, bytes, logBytes, declared, handled>>
readerVars == <<taken, reader, overflow>>
pluginVars == <<written, leader, proc>>
worldVars == <<cancelled, late>>
vars == <<hostVars, readerVars, pluginVars, worldVars, eof, stdin>>

Fates == {"none", "ok", "cancelled", "timeout", "exited", "queueFull", "frame",
          "rejected", "provider", "badExit", "didNotExit"}

TypeOK ==
    /\ pc \in {"send", "loop", "recv", "sendCancel", "wait", "drop", "term",
               "join", "ensure", "done"}
    /\ phase \in {"initialize", "discover", "closing"}
    /\ fate \in Fates
    /\ spool \in Nat /\ bytes \in Nat /\ logBytes \in Nat /\ declared \in Nat
    /\ taken \in Nat /\ handled \in Nat /\ stdin \in Nat
    /\ written \in Seq(Frames)
    /\ reader \in {"reading", "stopped"}
    /\ eof \in BOOLEAN /\ overflow \in BOOLEAN /\ cancelled \in BOOLEAN /\ late \in BOOLEAN
    /\ leader \in {"running", "ok", "failed", "killed"}
    /\ proc \in [Descendants -> {"unborn", "alive", "dead"}]

(* DiscoverLimits::with_host_caps: an absent or larger request is capped.  *)
RecordCap ==
    IF RequestedMax = NoLimit \/ RequestedMax > HostMaxRecords
    THEN HostMaxRecords
    ELSE RequestedMax

Alive(d) == proc[d] = "alive"

(* Both pipes stay open while the leader or an heir of them lives.         *)
PipesOpen == leader = "running" \/ \E d \in PipeHolders : Alive(d)

(* Occupied slots of the channel: the end-of-file marker takes one too.    *)
Backlog == (taken - handled) + (IF eof THEN 1 ELSE 0)

Init ==
    /\ pc = "send" /\ phase = "initialize" /\ fate = "none"
    /\ spool = 0 /\ bytes = 0 /\ logBytes = 0 /\ declared = 0
    /\ written = <<>> /\ taken = 0 /\ handled = 0
    /\ reader = "reading" /\ eof = FALSE /\ overflow = FALSE
    /\ stdin = 0
    /\ leader = "running" /\ proc = [d \in Descendants |-> "unborn"]
    /\ cancelled = FALSE /\ late = FALSE

---------------------------------------------------------------------------
(* The plugin's process group: any program.  A signal that a process may   *)
(* handle or ignore (SIGTERM) adds nothing it could not do by itself.      *)

PluginWrite(f) ==
    /\ PipesOpen
    /\ reader = "reading"          \* afterwards the read end is closed
    /\ Len(written) < MaxFrames
    /\ written' = Append(written, f)
    /\ UNCHANGED <<hostVars, readerVars, leader, proc, worldVars, eof, stdin>>

PluginRead ==
    /\ PipesOpen
    /\ stdin > 0
    /\ stdin' = stdin - 1
    /\ UNCHANGED <<hostVars, readerVars, pluginVars, worldVars, eof>>

(* A pipe can only be inherited from a process that still holds it.        *)
Fork(d) ==
    /\ leader = "running" \/ \E p \in Descendants : Alive(p)
    /\ d \in PipeHolders => PipesOpen
    /\ proc[d] = "unborn"
    /\ proc' = [proc EXCEPT ![d] = "alive"]
    /\ UNCHANGED <<hostVars, readerVars, written, leader, worldVars, eof, stdin>>

LeaderExit ==
    /\ leader = "running"
    /\ leader' \in {"ok", "failed"}
    /\ UNCHANGED <<hostVars, readerVars, written, proc, worldVars, eof, stdin>>

DescendantExit(d) ==
    /\ Alive(d)
    /\ proc' = [proc EXCEPT ![d] = "dead"]
    /\ UNCHANGED <<hostVars, readerVars, written, leader, worldVars, eof, stdin>>

Plugin ==
    \/ \E f \in Frames : PluginWrite(f)
    \/ PluginRead
    \/ \E d \in Descendants : Fork(d) \/ DescendantExit(d)
    \/ LeaderExit

---------------------------------------------------------------------------
(* The reader thread.  try_send never blocks: an item that finds no slot   *)
(* is lost, raises the overflow flag and ends the thread.                  *)

ReaderFrame ==
    /\ reader = "reading"
    /\ taken < Len(written)
    /\ \/ /\ Backlog < QueueCap
          /\ taken' = taken + 1
          /\ reader' = IF written[taken + 1].kind = "garbled" THEN "stopped" ELSE "reading"
          /\ UNCHANGED overflow
       \/ /\ Backlog >= QueueCap
          /\ overflow' = TRUE
          /\ reader' = "stopped"
          /\ UNCHANGED taken
    /\ UNCHANGED <<hostVars, pluginVars, worldVars, eof, stdin>>

ReaderEof ==
    /\ reader = "reading"
    /\ taken = Len(written)
    /\ ~PipesOpen
    /\ reader' = "stopped"
    /\ \/ /\ Backlog < QueueCap
          /\ eof' = TRUE
          /\ UNCHANGED overflow
       \/ /\ Backlog >= QueueCap
          /\ overflow' = TRUE
          /\ UNCHANGED eof
    /\ UNCHANGED <<hostVars, taken, pluginVars, worldVars, stdin>>

Reader == ReaderFrame \/ ReaderEof

---------------------------------------------------------------------------
(* The outside world.                                                      *)

Cancel ==
    /\ HasToken
    /\ ~cancelled
    /\ cancelled' = TRUE
    /\ UNCHANGED <<hostVars, readerVars, pluginVars, late, eof, stdin>>

DeadlinePasses ==
    /\ ~late
    /\ late' = TRUE
    /\ UNCHANGED <<hostVars, readerVars, pluginVars, cancelled, eof, stdin>>

---------------------------------------------------------------------------
(* The host thread.  Its blocking writes to the plugin's stdin.            *)

Send ==
    /\ pc = "send"
    /\ \/ /\ PipesOpen
          /\ stdin < StdinCap
          /\ stdin' = stdin + 1
          /\ pc' = IF fate = "none" THEN "loop" ELSE "drop"
          /\ UNCHANGED fate
       \/ /\ ~PipesOpen           \* broken pipe
          /\ fate' = "frame"
          /\ pc' = "drop"
          /\ UNCHANGED stdin
    /\ UNCHANGED <<phase, spool, bytes, logBytes, declared, handled>>
    /\ UNCHANGED <<readerVars, pluginVars, worldVars, eof>>

(* "let _ = send_cancel": a broken pipe is ignored.                        *)
SendCancel ==
    /\ pc = "sendCancel"
    /\ \/ PipesOpen /\ stdin < StdinCap /\ stdin' = stdin + 1
       \/ ~PipesOpen /\ UNCHANGED stdin
    /\ pc' = "wait"
    /\ UNCHANGED <<phase, fate, spool, bytes, logBytes, declared, handled>>
    /\ UNCHANGED <<readerVars, pluginVars, worldVars, eof>>

---------------------------------------------------------------------------
(* read_until_response: the top of the loop, then recv_frame.              *)

Idle == UNCHANGED <<phase, spool, bytes, logBytes, declared, handled, readerVars,
                    pluginVars, worldVars, stdin>>

LoopTop ==
    /\ pc = "loop"
    /\ \/ cancelled /\ fate' = "cancelled" /\ pc' = "sendCancel"
       \/ ~cancelled /\ late /\ fate' = "timeout" /\ pc' = "sendCancel"
       \/ ~cancelled /\ ~late /\ pc' = "recv" /\ UNCHANGED fate
    /\ UNCHANGED eof /\ Idle

RecvTimeout_PollOnly ==
    /\ pc = "recv" /\ Backlog = 0 /\ HasToken
    /\ pc' = "loop"
    /\ UNCHANGED <<fate, eof>> /\ Idle

RecvTimeout ==
    /\ pc = "recv"
    /\ Backlog = 0
    /\ \/ late /\ fate' = "timeout" /\ pc' = "sendCancel"
       \/ ~late /\ HasToken /\ pc' = "loop" /\ UNCHANGED fate
    /\ UNCHANGED eof /\ Idle

RecvEof ==
    /\ pc = "recv"
    /\ taken = handled
    /\ eof
    /\ eof' = FALSE
    /\ fate' = "exited" /\ pc' = "drop"
    /\ Idle

RecvDisconnected ==
    /\ pc = "recv"
    /\ Backlog = 0
    /\ reader = "stopped"
    /\ fate' = IF overflow THEN "queueFull" ELSE "exited"
    /\ pc' = "drop"
    /\ UNCHANGED eof /\ Idle

(* The host receives frame f from the channel.                             *)
Receive(f) ==
    /\ pc = "recv"
    /\ handled < taken
    /\ f = written[handled + 1]
    /\ handled' = handled + 1
    /\ UNCHANGED <<readerVars, pluginVars, worldVars, eof, stdin>>

(* A step that leaves the loop with an error: PluginProcess is dropped.    *)
Fail(why) == pc' = "drop" /\ fate' = why

OnInitResult(f) ==
    /\ Receive(f)
    /\ f.kind = "initResult"
    /\ phase = "initialize"
    /\ phase' = "discover"
    /\ pc' = "send"                \* the discover request
    /\ UNCHANGED <<fate, spool, bytes, logBytes, declared>>

OnDiscoverResult(f) ==
    /\ Receive(f)
    /\ f.kind = "discoverResult"
    /\ phase = "discover"
    /\ phase' = "closing"
    /\ declared' = f.n
    /\ pc' = "wait"
    /\ UNCHANGED <<fate, spool, bytes, logBytes>>

Reservable_CheckBeforeAdding(f) == spool < RecordCap /\ bytes < MaxRecordBytes

(* reserve_record_values, and the batch bound before it.                   *)
Reservable(f) ==
    /\ f.n <= MaxBatch
    /\ spool + f.n <= RecordCap
    /\ bytes + f.bytes <= MaxRecordBytes

OnRecord_SkipInvalid(f) ==
    /\ Receive(f)
    /\ f.kind = "record" /\ phase = "discover"
    /\ Reservable(f)
    /\ bytes' = bytes + f.bytes /\ spool' = spool + f.good /\ pc' = "loop"
    /\ UNCHANGED <<fate, phase, logBytes, declared>>

(* spool_records: reserve for all of them, then validate and keep one by   *)
(* one, so an invalid record leaves those before it in the spool.          *)
OnRecord(f) ==
    /\ Receive(f)
    /\ f.kind = "record"
    /\ phase = "discover"
    /\ \/ /\ Reservable(f)
          /\ bytes' = bytes + f.bytes
          /\ \/ f.good >= f.n /\ spool' = spool + f.n /\ pc' = "loop" /\ UNCHANGED fate
             \/ f.good < f.n /\ spool' = spool + f.good /\ Fail("rejected")
       \/ /\ ~Reservable(f)
          /\ Fail("rejected")
          /\ UNCHANGED <<spool, bytes>>
    /\ UNCHANGED <<phase, logBytes, declared>>

OnLog(f) ==
    /\ Receive(f)
    /\ f.kind = "log"
    /\ \/ /\ logBytes + f.bytes <= MaxLogBytes
          /\ logBytes' = logBytes + f.bytes
          /\ pc' = "loop"
          /\ UNCHANGED fate
       \/ logBytes + f.bytes > MaxLogBytes /\ Fail("rejected") /\ UNCHANGED logBytes
    /\ UNCHANGED <<phase, spool, bytes, declared>>

(* state_query and fetch_request: the provider answers or fails, and the   *)
(* plugin gets a reply either way; a fetch after the deadline is refused.  *)
OnRequest(f) ==
    /\ Receive(f)
    /\ f.kind \in {"query", "fetch"}
    /\ phase = "discover"
    /\ pc' = "send"
    /\ \/ f.kind = "fetch" /\ late /\ fate' = "timeout"
       \/ ~(f.kind = "fetch" /\ late) /\ fate' \in {"none", "provider"}
    /\ UNCHANGED <<phase, spool, bytes, logBytes, declared>>

(* Malformed parameters and unknown methods get an error reply first.      *)
OnRefusedRequest(f) ==
    /\ Receive(f)
    /\ f.kind = "unknown" \/ (f.kind = "badRequest" /\ phase = "discover")
    /\ pc' = "send"
    /\ fate' = "rejected"
    /\ UNCHANGED <<phase, spool, bytes, logBytes, declared>>

(* What the loop refuses without a reply: the wrong phase or response id,  *)
(* an error or unusable result, a malformed message, an unreadable frame.  *)
OnRefused(f) ==
    /\ Receive(f)
    /\ \/ f.kind \in {"stray", "garbled"}
       \/ f.kind = "initResult" /\ phase # "initialize"
       \/ f.kind = "discoverResult" /\ phase # "discover"
       \/ f.kind \in {"record", "query", "fetch", "badRequest"} /\ phase # "discover"
    /\ Fail(IF f.kind = "garbled" THEN "frame" ELSE "rejected")
    /\ UNCHANGED <<phase, spool, bytes, logBytes, declared>>

Loop ==
    \/ LoopTop \/ RecvTimeout \/ RecvEof \/ RecvDisconnected
    \/ \E f \in Frames : \/ OnInitResult(f) \/ OnDiscoverResult(f) \/ OnRecord(f)
                         \/ OnLog(f) \/ OnRequest(f) \/ OnRefusedRequest(f)
                         \/ OnRefused(f)

---------------------------------------------------------------------------
(* wait_or_terminate, terminate_tree, join_reader, and Drop.               *)

Supervising == UNCHANGED <<phase, spool, bytes, logBytes, declared, handled, taken,
                           reader, overflow, written, worldVars, eof, stdin>>

WaitExit ==
    /\ pc = "wait"
    /\ leader # "running"
    /\ fate' = IF fate = "none" /\ leader # "ok" THEN "badExit" ELSE fate
    /\ pc' = "join"
    /\ UNCHANGED <<leader, proc>> /\ Supervising

(* terminate_tree sends nothing to a group whose leader has exited.        *)
TerminateTree ==
    /\ pc' = IF leader = "running" THEN "term" ELSE "join"
    /\ UNCHANGED <<leader, proc>> /\ Supervising

WaitExpires ==
    /\ pc = "wait"
    /\ fate' = IF fate = "none" THEN "didNotExit" ELSE fate
    /\ TerminateTree

Drop_Detach ==
    /\ pc = "drop"
    /\ pc' = "done"
    /\ UNCHANGED <<fate, leader, proc>> /\ Supervising

Drop ==
    /\ pc = "drop"
    /\ UNCHANGED fate
    /\ TerminateTree

TermExit ==
    /\ pc = "term"
    /\ leader # "running"
    /\ pc' = "join"
    /\ UNCHANGED <<fate, leader, proc>> /\ Supervising

(* SIGKILL to the process group.                                           *)
Kill ==
    /\ pc = "term"
    /\ leader' = IF leader = "running" THEN "killed" ELSE leader
    /\ proc' = [d \in Descendants |-> IF Alive(d) THEN "dead" ELSE proc[d]]
    /\ pc' = "join"
    /\ UNCHANGED fate /\ Supervising

JoinReader_NoWait ==
    /\ pc = "join"
    /\ pc' = IF fate = "none" THEN "ensure" ELSE "done"
    /\ UNCHANGED <<fate, leader, proc>> /\ Supervising

JoinReader ==
    /\ pc = "join"
    /\ reader = "stopped"
    /\ pc' = IF fate = "none" THEN "ensure" ELSE "done"
    /\ UNCHANGED <<fate, leader, proc>> /\ Supervising

CloseVerdict_IgnoreOverflow ==
    IF handled < taken THEN "rejected"
    ELSE IF declared # spool THEN "rejected"
    ELSE "ok"

(* ensure_no_frames_after_response, then the record count.                 *)
CloseVerdict ==
    IF overflow THEN "queueFull"
    ELSE IF handled < taken THEN
        IF written[handled + 1].kind = "garbled" THEN "frame" ELSE "rejected"
    ELSE IF declared # spool THEN "rejected"
    ELSE "ok"

Ensure ==
    /\ pc = "ensure"
    /\ fate' = CloseVerdict
    /\ pc' = "done"
    /\ UNCHANGED <<leader, proc>> /\ Supervising

Supervise == WaitExit \/ WaitExpires \/ Drop \/ TermExit \/ Kill \/ JoinReader \/ Ensure

---------------------------------------------------------------------------
Host == Send \/ SendCancel \/ Loop \/ Supervise

Finished == pc = "done" /\ UNCHANGED vars

Next == Plugin \/ Reader \/ Cancel \/ DeadlinePasses \/ Host \/ Finished

Spec == Init /\ [][Next]_vars

(* The two threads are scheduled and time passes; nothing is assumed of    *)
(* the plugin.                                                             *)
FairSpec == Spec /\ WF_vars(Host) /\ WF_vars(Reader) /\ WF_vars(DeadlinePasses)

---------------------------------------------------------------------------
(* PROPERTIES                                                              *)

(* A run that returns a HostRun consumed every frame the plugin ever wrote, *)
(* the plugin exited with status 0, nobody can still write, and the result  *)
(* counts what was spooled: nothing was lost in the pipe, in the channel or *)
(* in an overflow (docs/plugin-host.md, memory limits and lifecycle).       *)
SuccessIsComplete ==
    fate = "ok" =>
        /\ handled = Len(written)
        /\ ~overflow
        /\ leader = "ok" /\ ~PipesOpen
        /\ declared = spool

(* Every return path of a run whose PluginProcess came to be, early "?"     *)
(* returns included, leaves the leader reaped and the reader thread joined. *)
NothingLeaksFromTheHost == pc = "done" => leader # "running" /\ reader = "stopped"

(* The spool never exceeds the host's caps, whatever limits were requested  *)
(* and however the records were batched.                                    *)
SpoolWithinCaps ==
    /\ spool <= RecordCap /\ RecordCap <= HostMaxRecords
    /\ bytes <= MaxRecordBytes
    /\ logBytes <= MaxLogBytes

(* The records a frame carries, and those the first frames of w do.         *)
Carried(f) == IF f.kind = "record" THEN f.n ELSE 0

RecordsIn(w) ==
    LET count[i \in 0..Len(w)] == IF i = 0 THEN 0 ELSE count[i - 1] + Carried(w[i])
    IN count

(* Until a run fails, its spool counts every record of every frame handled, *)
(* once: no record of a batch is skipped and none is taken twice            *)
(* (spool_records, then the count compared with the discover result).       *)
SpoolCountsEveryRecord == fate \in {"none", "ok"} => spool = RecordsIn(written)[handled]

(* Where the two cursors stand, what it means that the reader has stopped,  *)
(* and that no unreadable frame was passed over.                            *)
ChannelInv ==
    /\ handled <= taken /\ taken <= Len(written)
    /\ overflow => reader = "stopped"
    /\ eof => reader = "stopped" /\ ~overflow /\ taken = Len(written) /\ ~PipesOpen
    /\ reader = "stopped" /\ ~overflow =>
          \/ taken = Len(written) /\ ~PipesOpen
          \/ taken > 0 /\ written[taken].kind = "garbled"
    /\ fate = "none" => \A i \in 1..handled : written[i].kind # "garbled"

(* What is settled at each point of the host's walk.                        *)
ControlInv ==
    /\ pc \in {"loop", "recv"} => fate = "none"
    /\ pc \in {"sendCancel", "drop", "term"} => fate \notin {"none", "ok"}
    /\ pc \in {"join", "ensure", "done"} => leader # "running"
    /\ pc \in {"join", "ensure"} /\ fate = "none" => leader = "ok"
    /\ pc = "ensure" => fate = "none"
    /\ pc \in {"ensure", "done"} => reader = "stopped"
    /\ fate = "ok" => pc = "done"
    /\ pc = "done" => fate # "none"

(* The inductive invariant: an exit of the plugin never makes a step that   *)
(* was counted on (a closed pipe, a drained channel) undone.                *)
HostInv ==
    /\ TypeOK
    /\ ChannelInv
    /\ ControlInv
    /\ SuccessIsComplete
    /\ SpoolWithinCaps

(* The run implements AtomicDelivery: the frames behind a HostRun are all   *)
(* the plugin wrote, and any other outcome delivers nothing.                *)
Delivery == INSTANCE AtomicDelivery WITH
    Item <- Frames,
    offered <- written,
    outcome <- IF fate = "ok" THEN "delivered"
               ELSE IF pc = "done" THEN "discarded" ELSE "open",
    delivered <- IF fate = "ok" THEN SubSeq(written, 1, handled) ELSE <<>>

(* The abstract specification, as a property of the run.                    *)
AllOrNothing == Delivery!AbsSpec

(* docs/plugin-host.md lifecycle: no descendant of the plugin survives a    *)
(* timeout or a cancellation.                                               *)
NoDescendantOutlivesRun ==
    pc = "done" /\ fate \in {"timeout", "cancelled"} => \A d \in Descendants : ~Alive(d)

(* docs/plugin-host.md memory limits: the channel holds QueueCap frames and *)
(* only what exceeds that fails the run.                                    *)
OverflowOnlyBeyondCap == [][overflow' /\ ~overflow => Len(written) - handled > QueueCap]_vars

(* The deadline is enforced: once it has passed the run ends, whatever the  *)
(* plugin does (docs/plugin-host.md lifecycle: a plugin that does not exit  *)
(* fails closed, in bounded time).                                          *)
DeadlineEndsRun == late ~> pc = "done"

(* The host thread in a system call without a time-out: a write to a full   *)
(* stdin, or the join of a reader whose pipe somebody holds open.           *)
HeldByPipe ==
    \/ pc \in {"send", "sendCancel"} /\ PipesOpen /\ stdin >= StdinCap
    \/ pc = "join" /\ PipesOpen

(* Nothing else keeps a run past its deadline: in the end it is over, or a  *)
(* plugin that never reads its stdin, or a process it left on its stdout,   *)
(* holds the host for good.                                                 *)
OnlyPipesOutlastDeadline == late ~> [](pc = "done" \/ HeldByPipe)
=============================================================================
