------------------------------- MODULE SdkRun -------------------------------
(***************************************************************************)
(* A discover run of PluginHost against a plugin written with the Python   *)
(* SDK (sdk/python/src/magazine_core_plugin_sdk/runtime.py).               *)
(*                                                                         *)
(* PluginHost lets its plugin do anything.  Here it is the SDK's main      *)
(* thread, which reads two messages, runs the author's discover callback   *)
(* and writes one result, and the cancel watcher, which takes over stdin   *)
(* while the callback runs.  The callback may send valid records within    *)
(* the limits it was given, log, ask the host something and wait, catch    *)
(* what those calls raise, and at last return None, which leaves the count *)
(* to the SDK, raise an Exception, or leave with a SystemExit or a         *)
(* KeyboardInterrupt, which the SDK does not catch.  The messages the host *)
(* sends, which PluginHost only counts, are kept in "inbox".               *)
(***************************************************************************)
EXTENDS PluginHost, SequencesExt

CONSTANT MaxCalls   \* bound: calls one callback makes

VARIABLES
    main,       \* where the main thread is
    watcher,    \* the watcher thread: "off", "watching", "stopped"
    inbox,      \* the messages in the plugin's stdin, oldest first
    responses,  \* PluginContext._responses
    asking,     \* the request the main thread waits for: the place of its frame
    sent,       \* PluginContext._records
    raised,     \* an exception left the callback, or a write
    gaveUp,     \* a wait for the host ended without its reply
    told,       \* PluginContext._cancelled
    calls       \* calls made so far

contextVars == <<responses, asking, sent, raised, gaveUp, told, calls>>
sdkVars == <<main, watcher, inbox, contextVars>>
allVars == <<vars, sdkVars>>

Plain(k) == [kind |-> k, n |-> 0, good |-> 0, bytes |-> 0]
Records(k) == [kind |-> "record", n |-> k, good |-> k, bytes |-> k]
Result(k) == [kind |-> "discoverResult", n |-> k, good |-> 0, bytes |-> 0]

(* What the SDK writes; an error response is a frame the host refuses.     *)
SdkFrames ==
    {Plain("initResult"), Plain("log"), Plain("fetch"), Plain("stray")}
    \cup {Records(k) : k \in 1..MaxBatch} \cup {Result(k) : k \in 0..RecordCap}

Message == [kind : {"initialize", "discover", "reply", "error", "cancel"}, to : Nat]

ASSUME SdkConstantsOK ==
    /\ Frames = SdkFrames
    /\ MaxCalls \in Nat /\ MaxCalls + 2 <= MaxFrames
    /\ MaxRecordBytes >= RecordCap

SdkInit ==
    /\ Init
    /\ main = "init" /\ watcher = "off" /\ inbox = <<>>
    /\ responses = {} /\ asking = 0
    /\ sent = 0 /\ raised = FALSE /\ gaveUp = FALSE /\ told = FALSE /\ calls = 0

---------------------------------------------------------------------------
(* The host's side: what its blocking writes carry.                        *)

Outgoing ==
    IF pc = "sendCancel" THEN [kind |-> "cancel", to |-> 0]
    ELSE IF handled = 0 THEN [kind |-> "initialize", to |-> 0]
    ELSE IF written[handled].kind = "initResult" THEN [kind |-> "discover", to |-> 0]
    ELSE [kind |-> IF fate = "none" THEN "reply" ELSE "error", to |-> handled]

HostActs ==
    /\ Host
    /\ inbox' = IF stdin' > stdin THEN Append(inbox, Outgoing) ELSE inbox
    /\ UNCHANGED <<main, watcher, contextVars>>

(* SIGTERM ends the interpreter.                                           *)
Terminated ==
    /\ pc = "term"
    /\ LeaderExit /\ leader' = "failed"
    /\ UNCHANGED sdkVars

OthersAct == (Reader \/ Cancel \/ DeadlinePasses) /\ UNCHANGED sdkVars

---------------------------------------------------------------------------
(* The main thread outside the callback.                                   *)

At(here) == leader = "running" /\ main = here

Read(kind) ==
    /\ inbox # <<>>
    /\ Head(inbox).kind = kind
    /\ PluginRead
    /\ inbox' = Tail(inbox)

ReadInitialize ==
    /\ At("init")
    /\ Read("initialize")
    /\ main' = "greet"
    /\ UNCHANGED <<watcher, contextVars>>

Greet ==
    /\ At("greet")
    /\ PluginWrite(Plain("initResult"))
    /\ main' = "ready"
    /\ UNCHANGED <<watcher, inbox, contextVars>>

(* _handle_discover: the watcher takes stdin over.  A cancellation that    *)
(* comes first is not the expected method.                                 *)
ReadDiscover ==
    /\ At("ready")
    /\ \/ Read("discover") /\ main' = "callback" /\ watcher' = "watching"
       \/ Read("cancel") /\ main' = "refuse" /\ UNCHANGED watcher
    /\ UNCHANGED contextVars

Refuse ==
    /\ At("refuse")
    /\ PluginWrite(Plain("stray"))
    /\ main' = "exit"
    /\ UNCHANGED <<watcher, inbox, contextVars>>

StopWatcher_Forgotten ==
    /\ At("closing")
    /\ main' = "result"
    /\ UNCHANGED <<vars, watcher, inbox, contextVars>>

(* watcher.stop(): the thread sees the event at its next poll.             *)
StopWatcher ==
    /\ At("closing")
    /\ watcher' = "stopped"
    /\ main' = "result"
    /\ UNCHANGED <<vars, inbox, contextVars>>

WriteResult ==
    /\ At("result")
    /\ PluginWrite(IF raised THEN Plain("stray") ELSE Result(sent))
    /\ main' = "exit"
    /\ UNCHANGED <<watcher, inbox, contextVars>>

(* A write finds the host's end closed: BrokenPipeError.                   *)
WriteFails ==
    /\ \E here \in {"greet", "refuse", "callback", "result"} : At(here)
    /\ reader = "stopped"
    /\ raised' = TRUE
    /\ main' = IF main = "callback" THEN "closing" ELSE "exit"
    /\ UNCHANGED <<vars, watcher, inbox, responses, asking, sent, gaveUp, told, calls>>

(* The interpreter joins a watcher that is still running.  A SystemExit     *)
(* brings its own status.                                                   *)
Exit ==
    /\ \/ At("exit") /\ leader' = IF raised THEN "failed" ELSE "ok"
       \/ At("quit")
    /\ watcher # "watching"
    /\ LeaderExit
    /\ main' = "gone"
    /\ UNCHANGED <<watcher, inbox, contextVars>>

---------------------------------------------------------------------------
(* The callback.                                                           *)

Call ==
    /\ At("callback")
    /\ calls < MaxCalls
    /\ calls' = calls + 1

SendRecords_CountFrames(k) ==
    /\ Call
    /\ sent + k <= RecordCap
    /\ PluginWrite(Records(k))
    /\ sent' = sent + 1
    /\ UNCHANGED <<main, watcher, inbox, responses, asking, raised, gaveUp, told>>

(* send_record and send_records, at most one full batch per frame.         *)
SendRecords(k) ==
    /\ Call
    /\ sent + k <= RecordCap
    /\ PluginWrite(Records(k))
    /\ sent' = sent + k
    /\ UNCHANGED <<main, watcher, inbox, responses, asking, raised, gaveUp, told>>

SendLog_Print ==
    /\ Call
    /\ PluginWrite(Plain("garbled"))
    /\ UNCHANGED <<main, watcher, inbox, responses, asking, sent, raised, gaveUp, told>>

(* log, or a print, which the stdout guard keeps out of the frames.        *)
SendLog ==
    /\ Call
    /\ PluginWrite(Plain("log"))
    /\ UNCHANGED <<main, watcher, inbox, responses, asking, sent, raised, gaveUp, told>>

(* _request_host: the new id is the place of the request among the frames. *)
Ask ==
    /\ Call
    /\ PluginWrite(Plain("fetch"))
    /\ asking' = Len(written) + 1
    /\ main' = "waiting"
    /\ UNCHANGED <<watcher, inbox, responses, sent, raised, gaveUp, told>>

(* _wait_response: the reply is there.                                     *)
TakeAnswer ==
    /\ At("waiting")
    /\ \E r \in responses : r.to = asking /\ responses' = responses \ {r}
    /\ main' = "callback"
    /\ asking' = 0
    /\ UNCHANGED <<vars, watcher, inbox, sent, raised, gaveUp, told, calls>>

(* _wait_response raises: the timeout is over, or the run was cancelled.    *)
(* Only a reply notifies the condition, so a cancellation that comes while  *)
(* the thread waits is noticed when the timeout is over.                    *)
WaitExpired ==
    /\ At("waiting")
    /\ \A r \in responses : r.to # asking
    /\ gaveUp' = TRUE
    /\ main' = "callback"
    /\ asking' = 0
    /\ UNCHANGED <<vars, watcher, inbox, responses, sent, raised, told, calls>>

(* The callback returns, or raises what "except Exception" catches, or what *)
(* it does not: then nobody stops the watcher and no result is written.     *)
Return ==
    /\ At("callback")
    /\ \/ raised' \in BOOLEAN /\ main' = "closing"
       \/ raised' = TRUE /\ main' = "quit"
    /\ UNCHANGED <<vars, watcher, inbox, responses, asking, sent, gaveUp, told, calls>>

Callback ==
    \/ \E k \in 1..MaxBatch : SendRecords(k)
    \/ SendLog \/ Ask \/ TakeAnswer \/ WaitExpired \/ Return

---------------------------------------------------------------------------
(* The watcher thread.                                                     *)

Watching == leader = "running" /\ watcher = "watching"

WatchReply ==
    /\ Watching
    /\ Read("reply") \/ Read("error")
    /\ responses' = responses \cup {Head(inbox)}
    /\ UNCHANGED <<main, watcher, asking, sent, raised, gaveUp, told, calls>>

WatchCancel_ForgetReplies ==
    /\ Watching
    /\ Read("cancel")
    /\ told' = TRUE
    /\ watcher' = "stopped"
    /\ responses' = {}
    /\ UNCHANGED <<main, asking, sent, raised, gaveUp, calls>>

(* _mark_cancelled; the watcher returns and nobody reads stdin any more.   *)
WatchCancel ==
    /\ Watching
    /\ Read("cancel")
    /\ told' = TRUE
    /\ watcher' = "stopped"
    /\ UNCHANGED <<main, responses, asking, sent, raised, gaveUp, calls>>

---------------------------------------------------------------------------
Sdk ==
    \/ ReadInitialize \/ Greet \/ ReadDiscover \/ Refuse \/ StopWatcher \/ WriteResult
    \/ WriteFails \/ Exit \/ Callback \/ WatchReply \/ WatchCancel

AllDone == pc = "done" /\ leader # "running" /\ UNCHANGED allVars

SdkNext == HostActs \/ Terminated \/ OthersAct \/ Sdk \/ AllDone

SdkSpec == SdkInit /\ [][SdkNext]_allVars

(* Once the callback is over Python runs its two threads to their end;      *)
(* nothing is assumed of the callback, of the host or of time.              *)
FairSdkSpec ==
    /\ SdkSpec
    /\ WF_allVars(StopWatcher \/ WriteResult \/ Exit \/ (main # "callback" /\ WriteFails))
    /\ WF_allVars(WatchReply \/ WatchCancel)

---------------------------------------------------------------------------
(* PROPERTIES                                                              *)

SdkTypeOK ==
    /\ main \in {"init", "greet", "ready", "refuse", "callback", "waiting", "closing",
                 "result", "exit", "quit", "gone"}
    /\ watcher \in {"off", "watching", "stopped"}
    /\ inbox \in Seq(Message)
    /\ responses \subseteq Message
    /\ asking \in Nat /\ sent \in Nat /\ calls \in Nat
    /\ raised \in BOOLEAN /\ gaveUp \in BOOLEAN /\ told \in BOOLEAN

(* Only one thread reads stdin at a time; the one request outstanding is    *)
(* the one the main thread waits for; every reply, read or unread, answers  *)
(* a request the host has handled.                                          *)
MailInv ==
    /\ SdkTypeOK
    /\ stdin = Len(inbox)
    /\ watcher = "watching" => main \in {"callback", "waiting", "closing", "quit"}
    /\ main \in {"init", "greet", "ready", "refuse"} => watcher = "off"
    /\ asking # 0 <=> main = "waiting"
    /\ asking # 0 => asking <= Len(written) /\ written[asking].kind = "fetch"
    /\ \A m \in ToSet(inbox) \cup responses :
         m.kind \in {"reply", "error"} =>
             m.to \in 1..handled /\ written[m.to].kind = "fetch"

(* The host is in its loop; the host has given the run up.                  *)
Talking == pc \in {"send", "loop", "recv"}
Over == ~Talking /\ fate # "none"

Unread(kind) == \E m \in ToSet(inbox) : m.kind = kind

(* The plugin's last frame is its result.                                   *)
Complete == written # <<>> /\ written[Len(written)].kind = "discoverResult"

(* The SDK's frames: one greeting, first, and one result, last, that counts *)
(* what was sent; a refusal only after an exception or an end of the run.   *)
FramesInv ==
    /\ main \in {"init", "greet"} => written = <<>>
    /\ main \in {"ready", "refuse", "callback", "waiting", "closing", "quit", "result"} =>
          written # <<>>
    /\ \A i \in 1..Len(written) :
         /\ written[i].kind = "initResult" <=> i = 1
         /\ written[i].kind = "discoverResult" =>
               i = Len(written) /\ written[i].n = sent /\ main \in {"exit", "gone"}
         /\ written[i].kind = "stray" => raised \/ Over
    /\ sent = RecordsIn(written)[Len(written)]

(* Until the host gives up, the process ends by itself, and only after it   *)
(* wrote its result or raised.                                              *)
EndInv ==
    /\ main \in {"init", "greet", "ready", "refuse", "callback", "waiting"} => ~raised
    /\ main = "refuse" \/ Unread("cancel") => Over
    /\ leader # "running" => main = "gone" \/ Over
    /\ leader \in {"failed", "killed"} => raised \/ Over
    /\ main = "quit" => raised
    /\ main \in {"exit", "gone"} => raised \/ Over \/ Complete

(* The host's phase follows the frames it handled.                          *)
PhaseInv ==
    fate = "none" =>
        /\ bytes = spool
        /\ phase = "initialize" <=> handled = 0
        /\ phase = "closing" <=> ~Talking
        /\ phase = "closing" <=> handled > 0 /\ written[handled].kind = "discoverResult"
        /\ phase = "closing" => declared = written[handled].n

(* The discover request left before the plugin could be asked for anything  *)
(* else, and a request of the plugin is unanswered only while its main      *)
(* thread waits for the answer, or gave that up.                            *)
DiscoverSent == handled > 0 /\ ~(pc = "send" /\ handled = 1)

Unanswered(i) == written[i].kind = "fetch" /\ (i > handled \/ (i = handled /\ pc = "send"))

ExchangeInv ==
    /\ pc = "send" /\ handled = 0 => main = "init" /\ inbox = <<>>
    /\ (Unread("discover") \/ main \in {"callback", "waiting", "closing", "quit", "result"}
                            \/ Complete)
          => DiscoverSent
    /\ \A i \in 1..Len(written) : Unanswered(i) => gaveUp \/ asking = i
    /\ \A r \in responses : r.kind \in {"reply", "error"}
    /\ \A m \in ToSet(inbox) \cup responses :
         m.kind \in {"reply", "error"} => ~Unanswered(m.to)

(* Two programs in step: the messages, the frames, the host's phase and the *)
(* end of the process fit each other at every moment of the run.            *)
SdkInv == MailInv /\ FramesInv /\ EndInv /\ PhaseInv /\ ExchangeInv

(* A run with a plugin that does not raise is never refused for a frame out *)
(* of place, a wrong count, a bad exit or an early end; and the host finds  *)
(* its pipe broken only if the plugin outwaited a request, because then the *)
(* plugin may be gone when the late reply is written (docs/protocol-v1.md,  *)
(* the message sequence).                                                   *)
ConformingRunIsAccepted ==
    /\ fate \in {"rejected", "exited", "badExit"} => raised
    /\ fate = "frame" => raised \/ gaveUp

(* No reply is lost while somebody waits for it: once the host has answered *)
(* the request the main thread waits for, the reply is in the pipe or in    *)
(* the store, whatever replies to given-up requests came before it, and     *)
(* also when the host gave the run up or a cancellation came after it.      *)
RepliesAreNotLost ==
    asking # 0 /\ ~Unanswered(asking) =>
        \E m \in ToSet(inbox) \cup responses :
            m.kind \in {"reply", "error"} /\ m.to = asking

(* Once the callback returned or raised an Exception the process ends,      *)
(* result written or not.  After a SystemExit or a KeyboardInterrupt the    *)
(* watcher, which is not a daemon thread, keeps the interpreter until the   *)
(* host's cancellation reaches it.                                          *)
PluginEndsAfterCallback ==
    (main = "closing" \/ (main = "quit" /\ (told \/ Unread("cancel")))) ~> leader # "running"

(* Whatever holds of every plugin holds of this one.                        *)
RefinesPluginHost == Spec
=============================================================================
