---------------------------- MODULE SdkRunProofs ----------------------------
(***************************************************************************)
(* Proofs about SdkRun: a run with a plugin built on the Python SDK is a   *)
(* run of PluginHost, so what PluginHostProofs shows of any plugin holds   *)
(* of this one.                                                            *)
(***************************************************************************)
EXTENDS SdkRun, PluginHostProofs, SequenceTheorems, TLAPS

(* send_records never goes beyond the limit the callback was given.        *)
SentInv == sent \in 0..RecordCap

LEMMA CapIsNatural == RecordCap \in Nat
BY ConstantsOK DEF RecordCap

LEMMA SdkWritesFrames ==
    /\ Plain("initResult") \in Frames /\ Plain("log") \in Frames
    /\ Plain("fetch") \in Frames /\ Plain("stray") \in Frames
    /\ \A k \in 1..MaxBatch : Records(k) \in Frames
    /\ \A k \in 0..RecordCap : Result(k) \in Frames
BY SdkConstantsOK DEF SdkFrames

LEMMA SentInvInit == SdkInit => SentInv
BY CapIsNatural DEF SdkInit, SentInv

LEMMA SentInvNext == SentInv /\ [SdkNext]_allVars => SentInv'
<1> SUFFICES ASSUME SentInv, [SdkNext]_allVars PROVE SentInv'
  OBVIOUS
<1>1. ASSUME NEW k \in 1..MaxBatch, SendRecords(k) PROVE SentInv'
  <2>1. sent' = sent + k /\ sent + k <= RecordCap
    BY <1>1 DEF SendRecords
  <2> QED
    BY <2>1, ConstantsOK, CapIsNatural DEF SentInv
<1>2. CASE UNCHANGED sent
  BY <1>2 DEF SentInv, RecordCap
<1>3. UNCHANGED sent \/ \E k \in 1..MaxBatch : SendRecords(k)
  BY DEF SdkNext, HostActs, Terminated, OthersAct, Sdk, AllDone, ReadInitialize, Greet,
         ReadDiscover, Refuse, StopWatcher, WriteResult, WriteFails, Exit, Callback,
         SendLog, Ask, TakeAnswer, WaitExpired, Return, WatchReply, WatchCancel,
         contextVars, sdkVars, allVars
<1> QED
  BY <1>1, <1>2, <1>3

(* Every step is a step of the host, of the plugin PluginHost describes, or *)
(* one that leaves all PluginHost knows of alone.                           *)
LEMMA SdkStepIsHostStep == SentInv /\ [SdkNext]_allVars => [Next]_vars
<1> SUFFICES ASSUME SentInv, [SdkNext]_allVars PROVE [Next]_vars
  OBVIOUS
<1>1. CASE HostActs \/ OthersAct
  BY <1>1 DEF HostActs, OthersAct, Next
<1>2. CASE Terminated
  BY <1>2 DEF Terminated, Next, Plugin
<1>3. ASSUME NEW f \in Frames, PluginWrite(f) PROVE [Next]_vars
  BY <1>3 DEF Next, Plugin
<1>4. CASE PluginRead \/ LeaderExit
  BY <1>4 DEF Next, Plugin
<1>5. CASE Greet \/ Refuse \/ WriteResult \/ Callback
  <2>1. CASE UNCHANGED vars
    BY <2>1
  <2>2. UNCHANGED vars \/ \E f \in Frames : PluginWrite(f)
    BY <1>5, SdkWritesFrames
    DEF SentInv, Greet, Refuse, WriteResult, Callback, SendRecords, SendLog, Ask, TakeAnswer,
        WaitExpired, Return
  <2> QED
    BY <2>1, <2>2, <1>3
<1>6. CASE ReadInitialize \/ ReadDiscover \/ WatchReply \/ WatchCancel
  BY <1>4, <1>6 DEF ReadInitialize, ReadDiscover, WatchReply, WatchCancel, Read
<1>7. CASE Exit
  BY <1>4, <1>7 DEF Exit
<1>8. CASE StopWatcher \/ WriteFails \/ AllDone \/ UNCHANGED allVars
  BY <1>8 DEF StopWatcher, WriteFails, AllDone, allVars
<1> QED
  BY <1>1, <1>2, <1>5, <1>6, <1>7, <1>8 DEF SdkNext, Sdk

(* A run with the SDK implements PluginHost.                               *)
THEOREM SdkImplementsHost == SdkSpec => RefinesPluginHost
<1>1. SdkInit => Init
  BY DEF SdkInit
<1> QED
  BY <1>1, SentInvInit, SentInvNext, SdkStepIsHostStep, PTL
  DEF SdkSpec, Spec, RefinesPluginHost

(* What PluginHost guarantees of any plugin, of this one: success is        *)
(* complete, nothing leaks, and everything is delivered or nothing.         *)
THEOREM SdkInheritsHost ==
    SdkSpec => []SuccessIsComplete /\ []NothingLeaksFromTheHost /\ AllOrNothing
BY SdkImplementsHost, SuccessCompletes, NothingLeaks, DeliversAllOrNothing, PTL
DEF RefinesPluginHost

---------------------------------------------------------------------------
(* The messages between the two programs.                                  *)

(* The host writes to the plugin when it has just received something that   *)
(* wants an answer, or nothing at all yet.                                  *)
Answering ==
    pc = "send" => handled = 0 \/ written[handled].kind \in {"initResult", "fetch"}

MsgInv == MailInv /\ Answering

LEMMA FramesFromSdk ==
    ASSUME NEW f \in Frames
    PROVE  f.kind \in {"initResult", "log", "fetch", "stray", "record", "discoverResult"}
BY SdkConstantsOK DEF SdkFrames, Plain, Records, Result

LEMMA HostMoves ==
    ASSUME HostInv, Host, Answering
    PROVE  /\ written' = written /\ handled' \in Nat
           /\ handled <= handled' /\ handled' <= Len(written)
           /\ \/ stdin' = stdin
              \/ stdin' = stdin + 1 /\ pc \in {"send", "sendCancel"} /\ handled' = handled
           /\ Answering'
<1>0. /\ TypeOK /\ handled \in Nat /\ handled <= Len(written)
      /\ written \in Seq(Frames) /\ Len(written) \in Nat
  BY DEF HostInv, TypeOK, ChannelInv
<1>1. CASE Send \/ SendCancel
  BY <1>0, <1>1 DEF Send, SendCancel, pluginVars, Answering, TypeOK
<1>2. CASE LoopTop \/ RecvTimeout \/ RecvEof \/ RecvDisconnected
  BY <1>0, <1>2 DEF LoopTop, RecvTimeout, RecvEof, RecvDisconnected, Idle, pluginVars, Answering
<1>3. CASE \E f \in Frames : FrameStep(f)
  <2>1. PICK f \in Frames : FrameStep(f)
    BY <1>3
  <2>2. /\ handled < taken /\ taken <= Len(written) /\ f = written[handled + 1]
        /\ handled' = handled + 1 /\ written' = written /\ stdin' = stdin /\ taken \in Nat
    BY <2>1, FrameStepShape DEF Receive, pluginVars, HostInv, TypeOK, ChannelInv
  <2>3. pc' = "send" => f.kind \in {"initResult", "fetch"}
    BY <2>1, FramesFromSdk
    DEF FrameStep, OnInitResult, OnDiscoverResult, OnRecord, OnLog, OnRequest,
        OnRefusedRequest, OnRefused, Fail
  <2> QED
    BY <1>0, <2>2, <2>3 DEF Answering
<1>4. CASE Supervise
  BY <1>0, <1>4 DEF Supervise, WaitExit, WaitExpires, Drop, TerminateTree, TermExit, Kill,
     JoinReader, Ensure, Supervising, Answering
<1> QED
  BY <1>1, <1>2, <1>3, <1>4 DEF Host, Loop, FrameStep

LEMMA InboxGrows ==
    ASSUME NEW s \in Seq(Message), NEW m \in Message
    PROVE  /\ Append(s, m) \in Seq(Message) /\ Len(Append(s, m)) = Len(s) + 1
           /\ ToSet(Append(s, m)) \subseteq ToSet(s) \cup {m}
BY DEF ToSet

LEMMA InboxShrinks ==
    ASSUME NEW s \in Seq(Message), s # <<>>
    PROVE  /\ Tail(s) \in Seq(Message) /\ Len(Tail(s)) = Len(s) - 1
           /\ Head(s) \in Message /\ Head(s) \in ToSet(s)
           /\ ToSet(Tail(s)) \subseteq ToSet(s)
<1>1. Len(s) \in Nat /\ Len(s) > 0
  BY EmptySeq
<1>2. /\ Tail(s) \in Seq(Message) /\ Len(Tail(s)) = Len(s) - 1
      /\ \A i \in 1..Len(Tail(s)) : Tail(s)[i] = s[i + 1]
  BY <1>1
<1>3. DOMAIN s = 1..Len(s) /\ DOMAIN Tail(s) = 1..Len(Tail(s)) /\ Head(s) = s[1]
  BY <1>2
<1>4. ASSUME NEW m \in ToSet(Tail(s)) PROVE m \in ToSet(s)
  <2>1. PICK i \in 1..Len(Tail(s)) : m = Tail(s)[i]
    BY <1>3 DEF ToSet
  <2>2. i + 1 \in DOMAIN s /\ m = s[i + 1]
    BY <1>1, <1>2, <1>3, <2>1
  <2> QED
    BY <2>2 DEF ToSet
<1> QED
  BY <1>1, <1>2, <1>3, <1>4 DEF ToSet

(* A message that answers a request the host has handled goes on doing so.  *)
Answers(m) ==
    m.kind \in {"reply", "error"} => m.to \in 1..handled /\ written[m.to].kind = "fetch"

(* The plugin's output only grows, and the host only goes forward in it.    *)
OutputGrows ==
    /\ handled' \in Nat /\ handled <= handled'
    /\ Len(written') \in Nat /\ Len(written) <= Len(written')
    /\ \A i \in 1..Len(written) : written'[i] = written[i]

LEMMA AnswersStay ==
    ASSUME HostInv, OutputGrows, NEW m \in Message, Answers(m) PROVE Answers(m)'
<1>1. handled \in Nat /\ handled <= Len(written) /\ Len(written) \in Nat
  BY DEF HostInv, TypeOK, ChannelInv
<1> QED
  BY <1>1 DEF OutputGrows, Answers, Message

LEMMA WriteGrows ==
    ASSUME HostInv, NEW f \in Frames, PluginWrite(f)
    PROVE  /\ OutputGrows /\ handled' = handled /\ pc' = pc /\ stdin' = stdin
           /\ Len(written') = Len(written) + 1 /\ written'[Len(written) + 1] = f
BY DEF HostInv, TypeOK, PluginWrite, OutputGrows, hostVars

LEMMA OutputKept ==
    ASSUME HostInv, UNCHANGED <<written, handled>> PROVE OutputGrows
BY DEF HostInv, TypeOK, OutputGrows

(* What the parts of MailInv need of a step, in one place: the messages that *)
(* are there after it were there before it, or answer a handled request.    *)
LEMMA MessagesKept ==
    ASSUME HostInv, MsgInv, OutputGrows,
           ToSet(inbox') \cup responses' \subseteq ToSet(inbox) \cup responses
    PROVE  \A m \in ToSet(inbox') \cup responses' : Answers(m)'
<1>1. ToSet(inbox) \subseteq Message /\ responses \subseteq Message
  BY DEF MsgInv, MailInv, SdkTypeOK, ToSet
<1>2. \A m \in ToSet(inbox) \cup responses : Answers(m)
  BY DEF MsgInv, MailInv, Answers
<1> QED
  BY <1>1, <1>2, AnswersStay

LEMMA HostActsMsg == ASSUME HostInv, MsgInv, HostActs PROVE MsgInv'
<1>0. /\ Host
      /\ inbox' = IF stdin' > stdin THEN Append(inbox, Outgoing) ELSE inbox
      /\ UNCHANGED <<main, watcher, responses, asking, sent, raised, gaveUp, told, calls>>
  BY DEF HostActs, contextVars
<1>1. /\ written' = written /\ handled' \in Nat
      /\ handled <= handled' /\ handled' <= Len(written)
      /\ \/ stdin' = stdin
         \/ stdin' = stdin + 1 /\ pc \in {"send", "sendCancel"} /\ handled' = handled
      /\ Answering'
  BY <1>0, HostMoves DEF MsgInv
<1>2. /\ stdin \in Nat /\ handled \in Nat /\ Len(written) \in Nat /\ handled <= Len(written)
      /\ inbox \in Seq(Message) /\ stdin = Len(inbox)
  BY DEF HostInv, TypeOK, ChannelInv, MsgInv, MailInv, SdkTypeOK
<1>3. OutputGrows
  BY <1>1, <1>2 DEF OutputGrows
<1>4. CASE stdin' = stdin
  <2>1. inbox' = inbox
    BY <1>0, <1>2, <1>4
  <2>2. \A m \in ToSet(inbox') \cup responses' : Answers(m)'
    BY <1>0, <1>3, <2>1, MessagesKept
  <2> QED
    BY <1>0, <1>1, <1>4, <2>1, <2>2 DEF MsgInv, MailInv, SdkTypeOK, Answers
<1>5. CASE stdin' = stdin + 1 /\ pc \in {"send", "sendCancel"} /\ handled' = handled
  <2>1. Outgoing \in Message /\ Answers(Outgoing)
    <3>1. CASE pc = "sendCancel" \/ handled = 0 \/ written[handled].kind = "initResult"
      BY <1>2, <3>1 DEF Outgoing, Message, Answers
    <3>2. CASE pc = "send" /\ handled # 0 /\ written[handled].kind = "fetch"
      BY <1>2, <3>2 DEF Outgoing, Message, Answers
    <3> QED
      BY <1>5, <3>1, <3>2 DEF MsgInv, Answering
  <2>2. inbox' = Append(inbox, Outgoing)
    BY <1>0, <1>2, <1>5
  <2>3. /\ inbox' \in Seq(Message) /\ Len(inbox') = Len(inbox) + 1
        /\ ToSet(inbox') \subseteq ToSet(inbox) \cup {Outgoing}
    BY <1>2, <2>1, <2>2, InboxGrows
  <2>4. \A m \in ToSet(inbox') \cup responses' : Answers(m)'
    <3> SUFFICES ASSUME NEW m \in ToSet(inbox') \cup responses' PROVE Answers(m)'
      OBVIOUS
    <3>1. m \in ToSet(inbox) \cup responses \/ m = Outgoing
      BY <1>0, <2>3
    <3>2. Answers(m)
      BY <2>1, <3>1 DEF MsgInv, MailInv, Answers
    <3> QED
      BY <1>1, <1>5, <3>2 DEF Answers
  <2> QED
    BY <1>0, <1>1, <1>2, <1>5, <2>3, <2>4 DEF MsgInv, MailInv, SdkTypeOK, Answers
<1> QED
  BY <1>1, <1>4, <1>5

(* Steps of the others, and of the main thread with the host left alone.    *)
LEMMA QuietMsg ==
    ASSUME HostInv, MsgInv, UNCHANGED <<pc, handled, written, stdin>>, UNCHANGED sdkVars
    PROVE  MsgInv'
BY DEF MsgInv, MailInv, SdkTypeOK, Answering, sdkVars, contextVars

(* What a step of the plugin has to show.                                   *)
Threads ==
    /\ main \in {"init", "greet", "ready", "refuse", "callback", "waiting", "closing",
                 "result", "exit", "quit", "gone"}
    /\ watcher \in {"off", "watching", "stopped"}
    /\ asking \in Nat /\ sent \in Nat /\ calls \in Nat
    /\ raised \in BOOLEAN /\ gaveUp \in BOOLEAN /\ told \in BOOLEAN
    /\ watcher = "watching" => main \in {"callback", "waiting", "closing", "quit"}
    /\ main \in {"init", "greet", "ready", "refuse"} => watcher = "off"
    /\ asking # 0 <=> main = "waiting"

Mail == inbox \in Seq(Message) /\ responses \subseteq Message /\ stdin = Len(inbox)

Asked == asking # 0 => asking <= Len(written) /\ written[asking].kind = "fetch"

LEMMA MailInvParts ==
    /\ MsgInv => Threads /\ Mail /\ Asked /\ Answering
    /\ Threads /\ Mail /\ Asked /\ Answering
       /\ (\A m \in ToSet(inbox) \cup responses : Answers(m)) => MsgInv
BY DEF MsgInv, MailInv, SdkTypeOK, Threads, Mail, Asked, Answers

LEMMA PluginMsg ==
    ASSUME HostInv, MsgInv, OutputGrows, Threads', Mail', Asked', Answering',
           ToSet(inbox') \cup responses' \subseteq ToSet(inbox) \cup responses
    PROVE  MsgInv'
<1>1. (\A m \in ToSet(inbox) \cup responses : Answers(m))'
  BY MessagesKept
<1>2. Threads' /\ Mail' /\ Asked' /\ Answering'
      /\ (\A m \in ToSet(inbox) \cup responses : Answers(m))' => MsgInv'
  BY DEF MsgInv, MailInv, SdkTypeOK, Threads, Mail, Asked, Answers
<1> QED
  BY <1>1, <1>2

(* The main thread writes a frame.                                          *)
LEMMA WriteMsg ==
    ASSUME HostInv, MsgInv, NEW f \in Frames, PluginWrite(f), UNCHANGED <<inbox, responses>>,
           Threads', asking' \in {0, Len(written) + 1},
           asking' # 0 => f.kind = "fetch"
    PROVE  MsgInv'
<1>1. /\ OutputGrows /\ handled' = handled /\ pc' = pc /\ stdin' = stdin
      /\ Len(written') = Len(written) + 1 /\ written'[Len(written) + 1] = f
  BY WriteGrows
<1>2. handled \in Nat /\ handled <= Len(written) /\ Len(written) \in Nat
  BY DEF HostInv, TypeOK, ChannelInv
<1>3. Mail' /\ Asked'
  BY <1>1, MailInvParts DEF Mail, Asked
<1>4. Answering'
  BY <1>1, <1>2 DEF MsgInv, Answering, OutputGrows
<1> QED
  BY <1>1, <1>3, <1>4, PluginMsg

(* One of the threads reads a message.                                      *)
LEMMA ReadMsg ==
    ASSUME HostInv, MsgInv, NEW kind, Read(kind), Threads', UNCHANGED asking,
           responses' \in {responses, responses \cup {Head(inbox)}}
    PROVE  MsgInv'
<1>1. /\ inbox # <<>> /\ inbox' = Tail(inbox) /\ PluginRead
      /\ UNCHANGED <<pc, handled, written>> /\ stdin' = stdin - 1
  BY DEF Read, PluginRead, hostVars, pluginVars
<1>2. /\ inbox \in Seq(Message) /\ stdin = Len(inbox) /\ responses \subseteq Message
  BY MailInvParts DEF Mail
<1>3. /\ inbox' \in Seq(Message) /\ Len(inbox') = Len(inbox) - 1
      /\ Head(inbox) \in Message /\ Head(inbox) \in ToSet(inbox)
      /\ ToSet(inbox') \subseteq ToSet(inbox)
  BY <1>1, <1>2, InboxShrinks
<1>4. OutputGrows
  BY <1>1, OutputKept
<1>5. Mail' /\ Asked' /\ Answering'
  BY <1>1, <1>2, <1>3, MailInvParts DEF Mail, Asked, Answering
<1> QED
  BY <1>3, <1>4, <1>5, PluginMsg

(* The main thread moves on.                                                *)
LEMMA MainMsg ==
    ASSUME HostInv, MsgInv, UNCHANGED <<pc, handled, written, stdin, inbox>>, Threads',
           asking' \in {0, asking}, responses' \subseteq responses
    PROVE  MsgInv'
<1>1. OutputGrows
  BY OutputKept
<1>2. Mail' /\ Asked' /\ Answering'
  BY MailInvParts DEF Mail, Asked, Answering
<1> QED
  BY <1>1, <1>2, PluginMsg

LEMMA SdkMsg == ASSUME HostInv, MsgInv, SentInv, Sdk PROVE MsgInv'
<1>0. Threads /\ Mail
  BY MailInvParts
<1> USE <1>0 DEF contextVars
<1>1. CASE ReadInitialize
  BY <1>1, ReadMsg DEF ReadInitialize, Threads, At
<1>2. CASE Greet
  BY <1>2, WriteMsg, SdkWritesFrames DEF Greet, Threads, At
<1>3. CASE ReadDiscover
  BY <1>3, ReadMsg DEF ReadDiscover, Threads, At
<1>4. CASE Refuse
  BY <1>4, WriteMsg, SdkWritesFrames DEF Refuse, Threads, At
<1>5. CASE StopWatcher
  BY <1>5, MainMsg DEF StopWatcher, Threads, At, vars, hostVars, pluginVars
<1>6. CASE WriteResult
  <2>1. \E f \in Frames : PluginWrite(f)
    BY <1>6, SdkWritesFrames DEF WriteResult, SentInv
  <2> QED
    BY <1>6, <2>1, WriteMsg DEF WriteResult, Threads, At
<1>7. CASE WriteFails
  BY <1>7, MainMsg DEF WriteFails, Threads, At, vars, hostVars, pluginVars
<1>8. CASE Exit
  <2>1. UNCHANGED <<pc, handled, written, stdin>>
    BY <1>8 DEF Exit, LeaderExit, hostVars
  <2> QED
    BY <1>8, <2>1, MainMsg DEF Exit, Threads, At
<1>9. CASE Callback
  <2>1. ASSUME NEW k \in 1..MaxBatch, SendRecords(k) PROVE MsgInv'
    <3>1. sent' \in Nat
      BY <2>1, ConstantsOK DEF SendRecords, Threads
    <3> QED
      BY <2>1, <3>1, WriteMsg, SdkWritesFrames DEF SendRecords, Call, Threads, At
  <2>2. CASE SendLog
    BY <2>2, WriteMsg, SdkWritesFrames DEF SendLog, Call, Threads, At
  <2>3. CASE Ask
    <3>1. Plain("fetch").kind = "fetch" /\ Len(written) \in Nat
      BY DEF Plain, HostInv, TypeOK
    <3> QED
      BY <2>3, <3>1, WriteMsg, SdkWritesFrames DEF Ask, Call, Threads, At
  <2>4. CASE TakeAnswer
    BY <2>4, MainMsg DEF TakeAnswer, Threads, At, vars, hostVars, pluginVars
  <2>5. CASE WaitExpired
    BY <2>5, MainMsg DEF WaitExpired, Threads, At, vars, hostVars, pluginVars
  <2>6. CASE Return
    BY <2>6, MainMsg DEF Return, Threads, At, vars, hostVars, pluginVars
  <2> QED
    BY <1>9, <2>1, <2>2, <2>3, <2>4, <2>5, <2>6 DEF Callback
<1>10. CASE WatchReply
  BY <1>10, ReadMsg DEF WatchReply, Watching, Threads
<1>11. CASE WatchCancel
  BY <1>11, ReadMsg DEF WatchCancel, Watching, Threads
<1> QED
  BY <1>1, <1>2, <1>3, <1>4, <1>5, <1>6, <1>7, <1>8, <1>9, <1>10, <1>11 DEF Sdk

(* Two threads read one pipe, never at once, and what they have read or     *)
(* will read as a reply answers a request the host has handled, for any     *)
(* limits and any number of calls (runtime.py, _CancelWatcher).             *)
LEMMA MsgInvariant == SdkSpec => []MsgInv
<1>1. SdkInit => MsgInv
  <2> SUFFICES ASSUME SdkInit PROVE MsgInv
    OBVIOUS
  <2>1. ToSet(inbox) = {}
    BY DEF SdkInit, ToSet
  <2>3. Threads
    BY DEF SdkInit, Threads
  <2>4. Mail
    BY DEF SdkInit, Init, Mail
  <2>5. Asked /\ Answering
    BY DEF SdkInit, Init, Asked, Answering
  <2>6. responses = {}
    BY DEF SdkInit
  <2> QED
    BY <2>1, <2>3, <2>4, <2>5, <2>6, MailInvParts
<1>2. HostInv /\ SentInv /\ MsgInv /\ [SdkNext]_allVars => MsgInv'
  <2> SUFFICES ASSUME HostInv, SentInv, MsgInv, [SdkNext]_allVars PROVE MsgInv'
    OBVIOUS
  <2>1. CASE HostActs
    BY <2>1, HostActsMsg
  <2>2. CASE Sdk
    BY <2>2, SdkMsg
  <2>3. CASE Terminated \/ OthersAct \/ AllDone \/ UNCHANGED allVars
    <3>1. UNCHANGED <<pc, handled, written, stdin>> /\ UNCHANGED sdkVars
      BY <2>3 DEF Terminated, LeaderExit, OthersAct, Reader, ReaderFrame, ReaderEof, Cancel,
         DeadlinePasses, AllDone, allVars, vars, hostVars, pluginVars
    <3> QED
      BY <3>1, QuietMsg
  <2> QED
    BY <2>1, <2>2, <2>3 DEF SdkNext
<1>3. SdkSpec => []HostInv
  BY SdkImplementsHost, HostInvariant, PTL DEF RefinesPluginHost
<1> QED
  BY <1>1, <1>2, <1>3, SentInvInit, SentInvNext, PTL DEF SdkSpec

---------------------------------------------------------------------------
(* Two programs in step.                                                   *)

(* The records of the first frames are never more than those of all.       *)
LEMMA RecordsInGrow ==
    ASSUME NEW w \in Seq(Frames), NEW i \in 0..Len(w)
    PROVE  RecordsIn(w)[i] <= RecordsIn(w)[Len(w)]
<1> DEFINE P == {n \in 0..Len(w) : \A j \in 0..n : RecordsIn(w)[j] <= RecordsIn(w)[n]}
<1>0. /\ Len(w) \in Nat /\ \A n \in 0..Len(w) : RecordsIn(w)[n] \in Nat
      /\ \A n \in 1..Len(w) : RecordsIn(w)[n] >= RecordsIn(w)[n - 1]
  <2>1. \A n \in 0..Len(w) : RecordsIn(w)[n] \in Nat
    BY RecordsInSteps
  <2>2. ASSUME NEW n \in 1..Len(w) PROVE RecordsIn(w)[n] >= RecordsIn(w)[n - 1]
    <3>1. Carried(w[n]) \in Nat /\ RecordsIn(w)[n] = RecordsIn(w)[n - 1] + Carried(w[n])
      BY CarriedIsNatural, RecordsInSteps
    <3>2. RecordsIn(w)[n - 1] \in Nat
      BY <2>1
    <3> QED
      BY <3>1, <3>2
  <2> QED
    BY <2>1, <2>2
<1>1. 0 \in P
  BY <1>0
<1>2. ASSUME NEW n \in 1..Len(w), n - 1 \in P PROVE n \in P
  <2>1. /\ RecordsIn(w)[n] \in Nat /\ RecordsIn(w)[n - 1] \in Nat
        /\ RecordsIn(w)[n] >= RecordsIn(w)[n - 1]
    BY <1>0
  <2>2. ASSUME NEW j \in 0..n PROVE RecordsIn(w)[j] <= RecordsIn(w)[n]
    <3>1. CASE j = n
      BY <2>1, <3>1
    <3>2. CASE j # n
      <4>1. j \in 0..(n - 1) /\ RecordsIn(w)[j] \in Nat
        BY <1>0, <3>2
      <4>2. RecordsIn(w)[j] <= RecordsIn(w)[n - 1]
        BY <1>2, <4>1
      <4> QED
        BY <2>1, <4>1, <4>2
    <3> QED
      BY <3>1, <3>2
  <2> QED
    BY <2>2
<1>3. 0..Len(w) \subseteq P
  <2> HIDE DEF P
  <2> QED
    BY <1>0, <1>1, <1>2, CountingUp
<1> QED
  BY <1>0, <1>3

Positions ==
    /\ written \in Seq(Frames) /\ Len(written) \in Nat
    /\ handled \in Nat /\ taken \in Nat /\ handled <= taken /\ taken <= Len(written)

LEMMA HostPositions == HostInv => Positions
BY DEF HostInv, TypeOK, ChannelInv, Positions

(* What every step of the host keeps.                                      *)
LEMMA HostShape ==
    ASSUME HostInv, Host
    PROVE  /\ written' = written
           /\ Over => Over' /\ fate' = fate
           /\ leader' = leader \/ Over'
           /\ handled' = handled \/ (pc = "recv" /\ handled' = handled + 1)
           /\ pc' = "send" => handled' = handled + 1
<1>0. ControlInv
  BY DEF HostInv
<1> USE <1>0 DEF ControlInv, Over, Talking
<1>1. CASE Send \/ SendCancel
  BY <1>1 DEF Send, SendCancel, pluginVars
<1>2. CASE LoopTop \/ RecvTimeout \/ RecvEof \/ RecvDisconnected
  BY <1>2 DEF LoopTop, RecvTimeout, RecvEof, RecvDisconnected, Idle, pluginVars
<1>3. CASE \E f \in Frames : FrameStep(f)
  <2>1. PICK f \in Frames : FrameStep(f)
    BY <1>3
  <2> QED
    BY <2>1, FrameStepShape DEF Receive, pluginVars
<1>4. CASE Supervise
  BY <1>4 DEF Supervise, WaitExit, WaitExpires, Drop, TerminateTree, TermExit, Kill,
     JoinReader, Ensure, Supervising
<1> QED
  BY <1>1, <1>2, <1>3, <1>4 DEF Host, Loop, FrameStep

(* Everything there is to know of a run between two steps.                 *)
InStep ==
    /\ HostInv /\ SentInv /\ MsgInv /\ SpoolCountsEveryRecord
    /\ FramesInv /\ EndInv /\ PhaseInv /\ ExchangeInv

(* A frame the host receives in its loop is one it expects there.          *)
LEMMA FrameVerdict ==
    ASSUME InStep, NEW f \in Frames, FrameStep(f), UNCHANGED raised
    PROVE  /\ PhaseInv'
           /\ fate' \in {"none", "timeout", "provider"} \/ (fate' = "rejected" /\ raised)
<1>1. /\ Receive(f) /\ f \in Frame /\ fate = "none" /\ pc = "recv" /\ ~Over /\ Talking
  BY FrameStepShape DEF Receive, InStep, Over, Talking
<1>2. Positions
  BY HostPositions DEF InStep
<1>3. /\ handled' = handled + 1 /\ written' = written /\ f = written[handled + 1]
      /\ handled + 1 \in 1..Len(written)
  BY <1>1, <1>2 DEF Receive, pluginVars, Positions
<1>4. /\ f.kind = "initResult" <=> handled = 0
      /\ f.kind = "stray" => raised
  BY <1>1, <1>2, <1>3 DEF InStep, FramesInv, Positions
<1>5. /\ phase = "initialize" <=> handled = 0
      /\ phase # "closing" /\ bytes = spool
      /\ phase \in {"initialize", "discover", "closing"}
  BY <1>1 DEF InStep, PhaseInv, HostInv, TypeOK
<1>6. CASE f.kind = "initResult"
  BY <1>1, <1>2, <1>3, <1>4, <1>5, <1>6
     DEF FrameStep, OnInitResult, OnDiscoverResult, OnRecord, OnLog, OnRequest,
         OnRefusedRequest, OnRefused, Fail, PhaseInv, Talking, Positions
<1>7. CASE f.kind = "stray"
  BY <1>1, <1>4, <1>7
     DEF FrameStep, OnInitResult, OnDiscoverResult, OnRecord, OnLog, OnRequest,
         OnRefusedRequest, OnRefused, Fail, PhaseInv
<1>8. CASE f.kind = "log"
  <2>1. f.bytes = 0
    BY <1>8, SdkConstantsOK DEF SdkFrames, Plain, Records, Result
  <2>2. logBytes \in Nat /\ logBytes <= MaxLogBytes /\ MaxLogBytes \in Nat
    BY ConstantsOK DEF InStep, HostInv, TypeOK, SpoolWithinCaps
  <2>3. OnLog(f)
    BY <1>4, <1>8, <1>5 DEF FrameStep, OnInitResult, OnDiscoverResult, OnRecord, OnRequest,
         OnRefusedRequest, OnRefused
  <2>4. /\ fate' = "none" /\ pc' = "loop" /\ UNCHANGED <<phase, spool, bytes, declared>>
    BY <1>1, <2>1, <2>2, <2>3 DEF OnLog, Fail
  <2> QED
    BY <1>2, <1>3, <1>4, <1>5, <1>8, <2>4 DEF PhaseInv, Talking, Positions
<1>9. CASE f.kind = "fetch"
  <2>1. OnRequest(f)
    BY <1>4, <1>9, <1>5 DEF FrameStep, OnInitResult, OnDiscoverResult, OnRecord, OnLog,
         OnRefusedRequest, OnRefused
  <2> QED
    BY <1>1, <1>2, <1>3, <1>4, <1>5, <1>9, <2>1 DEF OnRequest, PhaseInv, Talking, Positions
<1>10. CASE f.kind = "discoverResult"
  <2>1. OnDiscoverResult(f)
    BY <1>4, <1>10, <1>5 DEF FrameStep, OnInitResult, OnRequest, OnRecord, OnLog,
         OnRefusedRequest, OnRefused
  <2> QED
    BY <1>1, <1>2, <1>3, <1>4, <1>5, <1>10, <2>1
       DEF OnDiscoverResult, PhaseInv, Talking, Positions
<1>11. CASE f.kind = "record"
  <2>1. OnRecord(f)
    BY <1>4, <1>11, <1>5 DEF FrameStep, OnInitResult, OnRequest, OnDiscoverResult, OnLog,
         OnRefusedRequest, OnRefused
  <2>2. f.n \in 1..MaxBatch /\ f.good = f.n /\ f.bytes = f.n
    BY <1>11, SdkConstantsOK DEF SdkFrames, Plain, Records, Result
  <2>3. spool + f.n <= RecordCap
    <3>1. spool = RecordsIn(written)[handled]
      BY <1>1 DEF InStep, SpoolCountsEveryRecord
    <3>2. RecordsIn(written)[handled + 1] = RecordsIn(written)[handled] + f.n
      BY <1>2, <1>3, <1>11, RecordsInSteps DEF Positions, Carried
    <3>3. RecordsIn(written)[handled + 1] <= RecordsIn(written)[Len(written)]
      <4>1. written \in Seq(Frames) /\ handled + 1 \in 0..Len(written)
        BY <1>2, <1>3 DEF Positions
      <4> QED
        BY <4>1, RecordsInGrow
    <3>4. RecordsIn(written)[Len(written)] = sent /\ sent \in 0..RecordCap
      BY DEF InStep, FramesInv, SentInv
    <3>5. /\ handled + 1 \in 0..Len(written) /\ Len(written) \in 0..Len(written)
          /\ \A i \in 0..Len(written) : RecordsIn(written)[i] \in Nat
      BY <1>2, <1>3, RecordsInSteps DEF Positions
    <3> QED
      BY <3>1, <3>2, <3>3, <3>4, <3>5, CapIsNatural
  <2>4. Reservable(f) /\ spool \in Nat
    BY <1>5, <2>2, <2>3, SdkConstantsOK, ConstantsOK, CapIsNatural
       DEF Reservable, InStep, HostInv, TypeOK
  <2>5. /\ fate' = "none" /\ pc' = "loop" /\ UNCHANGED <<phase, declared>>
        /\ spool' = spool + f.n /\ bytes' = bytes + f.n
    BY <1>1, <2>1, <2>2, <2>4, ConstantsOK DEF OnRecord, Fail
  <2> QED
    BY <1>2, <1>3, <1>4, <1>5, <1>11, <2>5 DEF PhaseInv, Talking, Positions
<1> QED
  BY <1>6, <1>7, <1>8, <1>9, <1>10, <1>11, FramesFromSdk

(* A pipe the host finds broken.                                           *)
LEMMA SendVerdict ==
    ASSUME InStep, pc = "send", ~PipesOpen PROVE raised \/ gaveUp
<1>1. ~Over /\ leader # "running"
  BY DEF Over, Talking, PipesOpen
<1>2. main = "gone" /\ (raised \/ Complete)
  BY <1>1 DEF InStep, EndInv
<1>3. CASE Complete
  <2>1. DiscoverSent
    BY <1>3 DEF InStep, ExchangeInv
  <2>2. handled \in 1..Len(written) /\ handled # 1
    BY <2>1, HostPositions DEF DiscoverSent, InStep, Positions
  <2>3. written[handled].kind = "fetch"
    BY <2>2 DEF InStep, MsgInv, Answering, FramesInv
  <2>4. gaveUp \/ asking = handled
    BY <2>2, <2>3 DEF InStep, ExchangeInv, Unanswered
  <2>5. asking = 0
    BY <1>2 DEF InStep, MsgInv, MailInv
  <2> QED
    BY <2>2, <2>4, <2>5
<1> QED
  BY <1>2, <1>3

(* A process that ends while the host waits for it.                        *)
LEMMA EndVerdict ==
    ASSUME InStep, pc = "recv", taken = handled, taken = Len(written), ~PipesOpen PROVE raised
<1>1. ~Over /\ Talking /\ leader # "running" /\ fate = "none"
  BY DEF Over, Talking, PipesOpen, InStep, HostInv, ControlInv
<1>2. raised \/ Complete
  BY <1>1 DEF InStep, EndInv
<1>3. CASE Complete
  <2>1. handled \in 1..Len(written) /\ written[handled].kind = "discoverResult"
    BY <1>3, HostPositions DEF Complete, InStep, Positions
  <2>2. phase = "closing"
    BY <1>1, <2>1 DEF InStep, PhaseInv
  <2> QED
    BY <1>1, <2>2 DEF InStep, PhaseInv
<1> QED
  BY <1>2, <1>3

LEMMA NotGarbled ==
    ASSUME HostInv, reader = "stopped", ~overflow, taken = handled
    PROVE  taken = Len(written) /\ ~PipesOpen
<1>1. Positions /\ ChannelInv
  BY HostPositions DEF HostInv
<1>2. CASE taken > 0
  <2>1. written[taken] \in Frames
    BY <1>1, <1>2 DEF Positions
  <2>2. written[taken].kind # "garbled"
    BY <2>1, FramesFromSdk
  <2> QED
    BY <1>1, <2>2 DEF ChannelInv
<1>3. CASE ~(taken > 0)
  BY <1>1, <1>3 DEF ChannelInv
<1> QED
  BY <1>2, <1>3

(* The count at the end.                                                   *)
LEMMA CloseVerdictIsOk ==
    ASSUME InStep, pc = "ensure" PROVE CloseVerdict \in {"ok", "queueFull"}
<1>1. fate = "none" /\ ~Talking
  BY DEF Talking, InStep, HostInv, ControlInv
<1>2. Positions
  BY HostPositions DEF InStep
<1>3. /\ handled > 0 /\ written[handled].kind = "discoverResult"
      /\ declared = written[handled].n
  BY <1>1 DEF InStep, PhaseInv
<1>4. handled = Len(written) /\ written[handled].n = sent
  BY <1>2, <1>3 DEF InStep, FramesInv, Positions
<1>5. spool = RecordsIn(written)[handled] /\ sent = RecordsIn(written)[Len(written)]
  BY <1>1 DEF InStep, SpoolCountsEveryRecord, FramesInv
<1> QED
  BY <1>2, <1>3, <1>4, <1>5 DEF CloseVerdict, Positions

LEMMA HostVerdict ==
    ASSUME InStep, ConformingRunIsAccepted, Host, UNCHANGED <<raised, gaveUp>>
    PROVE  PhaseInv' /\ ConformingRunIsAccepted'
<1>0. /\ ControlInv /\ PhaseInv /\ HostInv
      /\ phase \in {"initialize", "discover", "closing"}
  BY DEF InStep, HostInv, TypeOK
<1> USE <1>0
<1>1. CASE Send
  <2>1. fate' # fate => fate' = "frame" /\ (raised \/ gaveUp)
    BY <1>1, SendVerdict DEF Send
  <2>2. /\ pc = "send" /\ fate' = "none" => fate = "none" /\ pc' = "loop"
        /\ UNCHANGED <<phase, spool, bytes, declared, handled, written>>
    BY <1>1 DEF Send, pluginVars
  <2>3. PhaseInv'
    BY <1>1, <2>2 DEF PhaseInv, Talking, Send
  <2> QED
    BY <2>1, <2>3 DEF ConformingRunIsAccepted
<1>2. CASE SendCancel \/ LoopTop \/ RecvTimeout
  <2>1. /\ UNCHANGED <<phase, spool, bytes, declared, handled, written>>
        /\ fate' \in {fate, "cancelled", "timeout"}
        /\ fate' = "none" => fate = "none" /\ pc \in {"loop", "recv"} /\ pc' \in {"loop", "recv"}
    BY <1>2 DEF SendCancel, LoopTop, RecvTimeout, Idle, pluginVars, ControlInv
  <2>2. PhaseInv'
    BY <2>1 DEF PhaseInv, Talking
  <2> QED
    BY <2>1, <2>2 DEF ConformingRunIsAccepted
<1>3. CASE RecvEof
  <2>1. raised
    BY <1>3, EndVerdict DEF RecvEof, ChannelInv, HostInv
  <2>2. fate' = "exited"
    BY <1>3 DEF RecvEof
  <2> QED
    BY <2>1, <2>2 DEF ConformingRunIsAccepted, PhaseInv
<1>4. CASE RecvDisconnected
  <2>1. taken = handled
    BY <1>4, HostPositions DEF RecvDisconnected, Backlog, Positions
  <2>2. ~overflow => raised
    BY <1>4, <2>1, EndVerdict, NotGarbled DEF RecvDisconnected
  <2>3. fate' = IF overflow THEN "queueFull" ELSE "exited"
    BY <1>4 DEF RecvDisconnected
  <2> QED
    BY <2>2, <2>3 DEF ConformingRunIsAccepted, PhaseInv
<1>5. CASE \E f \in Frames : FrameStep(f)
  <2>1. PICK f \in Frames : FrameStep(f)
    BY <1>5
  <2>2. /\ PhaseInv'
        /\ fate' \in {"none", "timeout", "provider"} \/ (fate' = "rejected" /\ raised)
    BY <2>1, FrameVerdict
  <2> QED
    BY <2>2 DEF ConformingRunIsAccepted
<1>6. CASE WaitExit
  <2>1. /\ UNCHANGED <<phase, spool, bytes, declared, handled, written>>
        /\ pc = "wait" /\ pc' = "join" /\ leader # "running"
        /\ fate' = IF fate = "none" /\ leader # "ok" THEN "badExit" ELSE fate
    BY <1>6 DEF WaitExit, Supervising
  <2>2. leader \in {"failed", "killed"} => raised \/ fate # "none"
    BY DEF InStep, EndInv, Over
  <2>3. leader \in {"running", "ok", "failed", "killed"}
    BY DEF HostInv, TypeOK
  <2>4. PhaseInv'
    BY <2>1 DEF PhaseInv, Talking
  <2> QED
    BY <2>1, <2>2, <2>3, <2>4 DEF ConformingRunIsAccepted
<1>7. CASE WaitExpires \/ Drop \/ TermExit \/ Kill \/ JoinReader
  <2>1. /\ UNCHANGED <<phase, spool, bytes, declared, handled, written>>
        /\ fate' \in {fate, "didNotExit"}
        /\ fate' = "none" => fate = "none" /\ pc = "join" /\ pc' = "ensure"
    BY <1>7 DEF WaitExpires, Drop, TerminateTree, TermExit, Kill, JoinReader, Supervising,
       ControlInv
  <2>2. PhaseInv'
    BY <2>1 DEF PhaseInv, Talking
  <2> QED
    BY <2>1, <2>2 DEF ConformingRunIsAccepted
<1>8. CASE Ensure
  <2>1. fate' \in {"ok", "queueFull"}
    BY <1>8, CloseVerdictIsOk DEF Ensure
  <2> QED
    BY <2>1 DEF ConformingRunIsAccepted, PhaseInv
<1> QED
  BY <1>1, <1>2, <1>3, <1>4, <1>5, <1>6, <1>7, <1>8 DEF Host, Loop, Supervise, FrameStep

(* What is answered stays answered, and the discover request stays sent.    *)
LEMMA HostAnswers ==
    ASSUME HostInv, Host
    PROVE  /\ DiscoverSent => DiscoverSent'
           /\ \A i \in Nat : Unanswered(i)' => Unanswered(i)
           /\ pc = "send" => pc' # "send" /\ handled' = handled
<1>1. /\ written' = written
      /\ handled' = handled \/ (pc = "recv" /\ handled' = handled + 1)
      /\ pc' = "send" => handled' = handled + 1
  BY HostShape
<1>2. handled \in Nat
  BY DEF HostInv, TypeOK
<1> QED
  BY <1>1, <1>2 DEF DiscoverSent, Unanswered

LEMMA HostActsInStep ==
    ASSUME InStep, HostActs
    PROVE  FramesInv' /\ EndInv' /\ ExchangeInv'
<1>0. /\ Host
      /\ inbox' = IF stdin' > stdin THEN Append(inbox, Outgoing) ELSE inbox
      /\ UNCHANGED <<main, watcher, responses, asking, sent, raised, gaveUp, told, calls>>
  BY DEF HostActs, contextVars
<1>1. /\ written' = written
      /\ Over => Over'
      /\ leader' = leader \/ Over'
      /\ handled' = handled \/ (pc = "recv" /\ handled' = handled + 1)
      /\ pc' = "send" => handled' = handled + 1
      /\ DiscoverSent => DiscoverSent'
      /\ \A i \in Nat : Unanswered(i)' => Unanswered(i)
      /\ pc = "send" => pc' # "send" /\ handled' = handled
  BY <1>0, HostShape, HostAnswers DEF InStep
<1>2. Positions /\ inbox \in Seq(Message) /\ responses \subseteq Message /\ stdin = Len(inbox)
  BY HostPositions DEF InStep, MsgInv, MailInv, SdkTypeOK
<1>3. \/ stdin' = stdin
      \/ stdin' = stdin + 1 /\ pc \in {"send", "sendCancel"} /\ handled' = handled
  BY <1>0, HostMoves DEF InStep, MsgInv
<1>4. \/ inbox' = inbox
      \/ /\ inbox' = Append(inbox, Outgoing) /\ pc \in {"send", "sendCancel"}
         /\ handled' = handled
  BY <1>0, <1>2, <1>3
<1>5. pc = "sendCancel" => Over' /\ pc' # "send"
  BY <1>0 DEF Host, Send, SendCancel, Loop, LoopTop, RecvTimeout, RecvEof, RecvDisconnected,
     OnInitResult, OnDiscoverResult, OnRecord, OnLog, OnRequest, OnRefusedRequest, OnRefused,
     Receive, Supervise, WaitExit, WaitExpires, Drop, TermExit, Kill, JoinReader, Ensure,
     InStep, HostInv, ControlInv, Over, Talking
<1>6. ASSUME NEW m \in ToSet(inbox')
      PROVE  \/ m \in ToSet(inbox)
             \/ m = Outgoing /\ pc \in {"send", "sendCancel"} /\ handled' = handled
  <2>1. CASE inbox' = inbox
    BY <2>1
  <2>2. CASE /\ inbox' = Append(inbox, Outgoing) /\ pc \in {"send", "sendCancel"}
             /\ handled' = handled
    <3>1. Outgoing \in Message
      BY <1>2, <2>2 DEF Outgoing, Message, Positions
    <3>2. ToSet(inbox') \subseteq ToSet(inbox) \cup {Outgoing}
      BY <1>2, <2>2, <3>1, InboxGrows
    <3> QED
      BY <2>2, <3>2
  <2> QED
    BY <1>4, <2>1, <2>2
<1>7. FramesInv'
  BY <1>0, <1>1 DEF InStep, FramesInv
<1>8. EndInv'
  <2>1. Unread("cancel")' => Over'
    <3> SUFFICES ASSUME NEW m \in ToSet(inbox'), m.kind = "cancel" PROVE Over'
      BY DEF Unread
    <3>1. CASE m \in ToSet(inbox)
      BY <1>1, <3>1 DEF InStep, EndInv, Unread
    <3>2. CASE m = Outgoing /\ pc \in {"send", "sendCancel"}
      BY <1>5, <3>2 DEF Outgoing
    <3> QED
      BY <1>6, <3>1, <3>2
  <2>2. Complete' = Complete
    BY <1>1 DEF Complete
  <2> QED
    BY <1>0, <1>1, <2>1, <2>2 DEF InStep, EndInv
<1>9. ExchangeInv'
  <2>1. pc' = "send" /\ handled' = 0 => FALSE
    BY <1>1, <1>2 DEF Positions
  <2>2. Unread("discover")' => DiscoverSent'
    <3> SUFFICES ASSUME NEW m \in ToSet(inbox'), m.kind = "discover" PROVE DiscoverSent'
      BY DEF Unread
    <3>1. CASE m \in ToSet(inbox)
      BY <1>1, <3>1 DEF InStep, ExchangeInv, Unread
    <3>2. CASE m = Outgoing /\ pc \in {"send", "sendCancel"} /\ handled' = handled
      <4>1. pc = "send" /\ handled # 0
        BY <3>2 DEF Outgoing
      <4> QED
        BY <1>1, <1>2, <4>1 DEF DiscoverSent, Positions
    <3> QED
      BY <1>6, <3>1, <3>2
  <2>3. Complete' = Complete
    BY <1>1 DEF Complete
  <2>4. \A i \in 1..Len(written') : Unanswered(i)' => gaveUp' \/ asking' = i
    BY <1>0, <1>1, <1>2 DEF InStep, ExchangeInv, Positions
  <2>5. ASSUME NEW m \in ToSet(inbox') \cup responses', m.kind \in {"reply", "error"}
        PROVE  ~Unanswered(m.to)'
    <3>1. CASE m \in ToSet(inbox) \cup responses
      <4>1. ~Unanswered(m.to) /\ m.to \in 1..handled
        BY <2>5, <3>1 DEF InStep, ExchangeInv, MsgInv, MailInv
      <4> QED
        BY <1>1, <1>2, <4>1 DEF Positions
    <3>2. CASE m = Outgoing /\ pc \in {"send", "sendCancel"} /\ handled' = handled
      <4>1. m.to = handled /\ pc' # "send"
        BY <1>1, <1>5, <2>5, <3>2 DEF Outgoing
      <4> QED
        BY <1>2, <3>2, <4>1 DEF Unanswered, Positions
    <3> QED
      BY <1>0, <1>6, <2>5, <3>1, <3>2
  <2> QED
    BY <1>0, <1>1, <2>1, <2>2, <2>3, <2>4, <2>5 DEF InStep, ExchangeInv
<1> QED
  BY <1>7, <1>8, <1>9

(* The main thread writes a frame: where it stands before and after, and    *)
(* what kind of frame belongs there.                                        *)
LEMMA WriteInStep ==
    ASSUME InStep, NEW f \in Frames, PluginWrite(f), leader = "running",
           UNCHANGED <<inbox, responses, raised, gaveUp>>,
           <<main, main'>> \in {<<"greet", "ready">>, <<"refuse", "exit">>,
                                <<"callback", "callback">>, <<"callback", "waiting">>,
                                <<"result", "exit">>},
           sent' = sent + Carried(f),
           f.kind = "initResult" <=> main = "greet",
           f.kind = "discoverResult" => main = "result" /\ f.n = sent,
           f.kind = "stray" => raised \/ Over,
           main = "result" => f.kind \in {"discoverResult", "stray"},
           IF f.kind = "fetch" THEN asking' = Len(written) + 1 ELSE asking' = 0
    PROVE  FramesInv' /\ EndInv' /\ PhaseInv' /\ ExchangeInv'
<1>1. /\ OutputGrows /\ handled' = handled /\ pc' = pc
      /\ Len(written') = Len(written) + 1 /\ written'[Len(written) + 1] = f
      /\ \A i \in 1..Len(written) : written'[i] = written[i]
      /\ UNCHANGED <<phase, fate, spool, bytes, declared, leader>>
      /\ written' = Append(written, f)
  BY WriteGrows DEF PluginWrite, hostVars, OutputGrows, InStep
<1>2. Positions /\ asking = 0 /\ sent \in Nat
  BY HostPositions DEF InStep, MsgInv, MailInv, SdkTypeOK
<1>3. main \notin {"init", "exit", "gone"} /\ main' \notin {"init", "greet", "gone"}
  OBVIOUS
<1>4. ~Complete
  BY <1>2, <1>3 DEF InStep, FramesInv, Complete, Positions
<1>5. Over' = Over /\ Talking' = Talking /\ DiscoverSent' = DiscoverSent
  BY <1>1 DEF Over, Talking, DiscoverSent
<1>6. written = <<>> <=> main = "greet"
  BY <1>3 DEF InStep, FramesInv
<1>7. FramesInv'
  <2>1. written' # <<>>
    BY <1>1, <1>2 DEF Positions
  <2>2. sent' = RecordsIn(written')[Len(written')]
    <3>1. /\ written' \in Seq(Frames) /\ Len(written') \in 1..Len(written')
          /\ Len(written') - 1 = Len(written) /\ Len(written) \in 0..Len(written)
      BY <1>1, <1>2 DEF Positions
    <3>2. RecordsIn(written')[Len(written')] = RecordsIn(written')[Len(written)] + Carried(f)
      BY <1>1, <3>1, RecordsInSteps
    <3>3. RecordsIn(written')[Len(written)] = RecordsIn(written)[Len(written)]
      BY <1>1, <1>2, <3>1, RecordsInPrefix DEF Positions
    <3> QED
      BY <3>2, <3>3 DEF InStep, FramesInv
  <2>3. ASSUME NEW i \in 1..Len(written')
        PROVE  /\ written'[i].kind = "initResult" <=> i = 1
               /\ written'[i].kind = "discoverResult" =>
                     i = Len(written') /\ written'[i].n = sent' /\ main' \in {"exit", "gone"}
               /\ written'[i].kind = "stray" => raised' \/ Over'
    <3>1. CASE i \in 1..Len(written)
      <4>1. written'[i] = written[i] /\ written[i].kind # "discoverResult"
        BY <1>1, <1>3, <3>1 DEF InStep, FramesInv
      <4> QED
        BY <1>5, <3>1, <4>1 DEF InStep, FramesInv
    <3>2. CASE i = Len(written) + 1
      <4>1. written'[i] = f /\ i = Len(written')
        BY <1>1, <3>2
      <4>2. i = 1 <=> main = "greet"
        BY <1>2, <1>6, <3>2 DEF Positions
      <4>3. f.kind = "discoverResult" => sent' = sent /\ main' = "exit"
        BY <1>2 DEF Carried
      <4> QED
        BY <1>5, <4>1, <4>2, <4>3
    <3> QED
      BY <1>1, <1>2, <3>1, <3>2 DEF Positions
  <2> QED
    BY <1>3, <2>1, <2>2, <2>3 DEF FramesInv
<1>8. Complete' <=> f.kind = "discoverResult"
  BY <1>1, <1>2 DEF Complete, Positions
<1>9. EndInv'
  <2>1. main' = "exit" => raised' \/ Over' \/ Complete'
    BY <1>5, <1>8 DEF InStep, EndInv
  <2>2. Unread("cancel")' => Over'
    BY <1>5 DEF InStep, EndInv, Unread
  <2> QED
    BY <1>1, <1>3, <1>5, <2>1, <2>2 DEF InStep, EndInv
<1>10. PhaseInv'
  <2>1. handled > 0 => written'[handled] = written[handled]
    BY <1>1, <1>2 DEF Positions
  <2> QED
    BY <1>1, <1>5, <2>1 DEF InStep, PhaseInv
<1>11. ExchangeInv'
  <2>1. ~(pc = "send" /\ handled = 0)
    BY <1>3 DEF InStep, ExchangeInv
  <2>2. main' \in {"callback", "waiting", "closing", "quit", "result"} \/ Complete' => DiscoverSent'
    BY <1>5, <1>8 DEF InStep, ExchangeInv
  <2>3. Unread("discover")' => DiscoverSent'
    BY <1>5 DEF InStep, ExchangeInv, Unread
  <2>4. \A i \in 1..Len(written) : Unanswered(i)' <=> Unanswered(i)
    BY <1>1 DEF Unanswered
  <2>5. ASSUME NEW i \in 1..Len(written'), Unanswered(i)' PROVE gaveUp' \/ asking' = i
    <3>1. CASE i \in 1..Len(written)
      BY <1>2, <2>4, <2>5, <3>1 DEF InStep, ExchangeInv
    <3>2. CASE i = Len(written) + 1
      BY <1>1, <2>5, <3>2 DEF Unanswered
    <3> QED
      BY <1>1, <1>2, <3>1, <3>2 DEF Positions
  <2>6. ASSUME NEW m \in ToSet(inbox') \cup responses', m.kind \in {"reply", "error"}
        PROVE  ~Unanswered(m.to)'
    <3>1. ~Unanswered(m.to) /\ m.to \in 1..handled
      BY <2>6 DEF InStep, ExchangeInv, MsgInv, MailInv
    <3> QED
      BY <1>2, <2>4, <3>1 DEF Positions
  <2> QED
    BY <1>1, <2>1, <2>2, <2>3, <2>5, <2>6 DEF InStep, ExchangeInv
<1> QED
  BY <1>7, <1>9, <1>10, <1>11

(* One of the threads reads a message.                                      *)
LEMMA ReadInStep ==
    ASSUME InStep, NEW kind, Read(kind), UNCHANGED <<asking, sent, raised, gaveUp>>,
           \/ responses' = responses
           \/ responses' = responses \cup {Head(inbox)} /\ kind \in {"reply", "error"},
           \/ main' = main
           \/ <<kind, main, main'>> \in {<<"initialize", "init", "greet">>,
                                         <<"discover", "ready", "callback">>,
                                         <<"cancel", "ready", "refuse">>}
    PROVE  FramesInv' /\ EndInv' /\ PhaseInv' /\ ExchangeInv'
<1>1. /\ inbox # <<>> /\ Head(inbox).kind = kind /\ inbox' = Tail(inbox)
      /\ UNCHANGED <<pc, phase, fate, spool, bytes, declared, handled, written, leader>>
  BY DEF Read, PluginRead, hostVars, pluginVars
<1>2. inbox \in Seq(Message)
  BY DEF InStep, MsgInv, MailInv, SdkTypeOK
<1>3. /\ Head(inbox) \in ToSet(inbox) /\ ToSet(inbox') \subseteq ToSet(inbox)
      /\ ToSet(inbox') \cup responses' \subseteq ToSet(inbox) \cup responses
  BY <1>1, <1>2, InboxShrinks
<1>4. /\ Over' = Over /\ Talking' = Talking /\ DiscoverSent' = DiscoverSent
      /\ Complete' = Complete /\ \A i \in Nat : Unanswered(i)' = Unanswered(i)
  BY <1>1 DEF Over, Talking, DiscoverSent, Complete, Unanswered
<1>5. /\ Unread("cancel")' => Unread("cancel")
      /\ Unread("discover")' => Unread("discover")
      /\ Unread(kind)
  BY <1>1, <1>3 DEF Unread
<1>6. FramesInv'
  BY <1>1, <1>4 DEF InStep, FramesInv
<1>7. EndInv'
  BY <1>1, <1>4, <1>5 DEF InStep, EndInv
<1>8. PhaseInv'
  BY <1>1, <1>4 DEF InStep, PhaseInv
<1>9. ExchangeInv'
  <2>1. \A i \in 1..Len(written') : Unanswered(i)' => gaveUp' \/ asking' = i
    <3>1. Len(written) \in Nat
      BY HostPositions DEF InStep, Positions
    <3> QED
      BY <1>1, <1>4, <3>1 DEF InStep, ExchangeInv
  <2>2. ASSUME NEW m \in ToSet(inbox') \cup responses', m.kind \in {"reply", "error"}
        PROVE  ~Unanswered(m.to)'
    <3>1. ~Unanswered(m.to) /\ m.to \in 1..handled
      BY <1>3, <2>2 DEF InStep, ExchangeInv, MsgInv, MailInv
    <3>2. handled \in Nat
      BY HostPositions DEF InStep, Positions
    <3> QED
      BY <1>4, <3>1, <3>2
  <2>3. ~(pc = "send" /\ handled = 0)
    BY <1>1 DEF InStep, ExchangeInv
  <2>4. main' \in {"callback", "waiting", "closing", "quit", "result"} => DiscoverSent'
    BY <1>4, <1>5 DEF InStep, ExchangeInv
  <2> QED
    BY <1>1, <1>4, <1>5, <2>1, <2>2, <2>3, <2>4 DEF InStep, ExchangeInv
<1> QED
  BY <1>6, <1>7, <1>8, <1>9

(* The main thread moves on, or finds the host's end closed.                *)
LEMMA MainInStep ==
    ASSUME InStep, UNCHANGED <<vars, inbox, sent>>, responses' \subseteq responses,
           raised => raised', gaveUp => gaveUp',
           asking' = asking \/ (asking' = 0 /\ (gaveUp' \/ ~Unanswered(asking))),
           \/ <<main, main'>> \in {<<"closing", "result">>, <<"callback", "closing">>}
           \/ <<main, main'>> = <<"callback", "quit">> /\ raised'
           \/ <<main, main'>> = <<"waiting", "callback">> /\ raised' = raised
           \/ main \in {"greet", "refuse", "result"} /\ main' = "exit" /\ raised'
    PROVE  FramesInv' /\ EndInv' /\ PhaseInv' /\ ExchangeInv'
<1>1. UNCHANGED <<pc, phase, fate, spool, bytes, declared, handled, written, leader>>
  BY DEF vars, hostVars, pluginVars
<1>2. /\ Over' = Over /\ Talking' = Talking /\ DiscoverSent' = DiscoverSent
      /\ Complete' = Complete /\ \A i \in Nat : Unanswered(i)' = Unanswered(i)
      /\ Unread("cancel")' = Unread("cancel") /\ Unread("discover")' = Unread("discover")
  BY <1>1 DEF Over, Talking, DiscoverSent, Complete, Unanswered, Unread
<1>3. Positions
  BY HostPositions DEF InStep
<1>4. FramesInv'
  BY <1>1, <1>2 DEF InStep, FramesInv
<1>5. EndInv'
  BY <1>1, <1>2 DEF InStep, EndInv
<1>6. PhaseInv'
  BY <1>1, <1>2 DEF InStep, PhaseInv
<1>7. ExchangeInv'
  <2>1. ASSUME NEW i \in 1..Len(written'), Unanswered(i)' PROVE gaveUp' \/ asking' = i
    <3>1. i \in 1..Len(written) /\ Unanswered(i)
      BY <1>1, <1>2, <1>3, <2>1 DEF Positions
    <3>2. gaveUp \/ asking = i
      BY <3>1 DEF InStep, ExchangeInv
    <3> QED
      BY <3>1, <3>2
  <2>2. ASSUME NEW m \in ToSet(inbox') \cup responses', m.kind \in {"reply", "error"}
        PROVE  ~Unanswered(m.to)'
    <3>1. ~Unanswered(m.to) /\ m.to \in 1..handled
      BY <2>2 DEF InStep, ExchangeInv, MsgInv, MailInv
    <3> QED
      BY <1>2, <1>3, <3>1 DEF Positions
  <2>3. ~(pc = "send" /\ handled = 0)
    BY DEF InStep, ExchangeInv
  <2>4. main' \in {"callback", "waiting", "closing", "quit", "result"} => DiscoverSent'
    BY <1>2 DEF InStep, ExchangeInv
  <2> QED
    BY <1>1, <1>2, <2>1, <2>2, <2>3, <2>4 DEF InStep, ExchangeInv
<1> QED
  BY <1>4, <1>5, <1>6, <1>7

(* The process ends: by itself, or at the host's signal.                    *)
LEMMA EndInStep ==
    ASSUME InStep, UNCHANGED <<hostVars, written, inbox, contextVars>>,
           \/ Over /\ main' = main
           \/ main = "exit" /\ main' = "gone"
              /\ leader' = IF raised THEN "failed" ELSE "ok"
           \/ main = "quit" /\ main' = "gone" /\ leader' \in {"ok", "failed"}
    PROVE  FramesInv' /\ EndInv' /\ PhaseInv' /\ ExchangeInv'
<1>1. UNCHANGED <<pc, phase, fate, spool, bytes, declared, handled, written, inbox,
                  responses, asking, sent, raised, gaveUp>>
  BY DEF hostVars, contextVars
<1>2. /\ Over' = Over /\ Talking' = Talking /\ DiscoverSent' = DiscoverSent
      /\ Complete' = Complete /\ \A i \in Nat : Unanswered(i)' = Unanswered(i)
      /\ Unread("cancel")' = Unread("cancel") /\ Unread("discover")' = Unread("discover")
  BY <1>1 DEF Over, Talking, DiscoverSent, Complete, Unanswered, Unread
<1>3. FramesInv'
  BY <1>1, <1>2 DEF InStep, FramesInv
<1>4. EndInv'
  BY <1>1, <1>2 DEF InStep, EndInv
<1>5. PhaseInv'
  BY <1>1, <1>2 DEF InStep, PhaseInv
<1>6. ExchangeInv'
  <2>1. Positions /\ (\A m \in ToSet(inbox) \cup responses :
                        m.kind \in {"reply", "error"} => m.to \in 1..handled)
    BY HostPositions DEF InStep, MsgInv, MailInv
  <2>2. \A m \in ToSet(inbox') \cup responses' :
           m.kind \in {"reply", "error"} => ~Unanswered(m.to)'
    BY <1>1, <1>2, <2>1 DEF InStep, ExchangeInv, Positions
  <2>3. \A i \in 1..Len(written') : Unanswered(i)' => gaveUp' \/ asking' = i
    BY <1>1, <1>2, <2>1 DEF InStep, ExchangeInv, Positions
  <2>4. ~(pc' = "send" /\ handled' = 0) \/ (main' = "init" /\ inbox' = <<>>)
    BY <1>1 DEF InStep, ExchangeInv
  <2> QED
    BY <1>1, <1>2, <2>2, <2>3, <2>4 DEF InStep, ExchangeInv
<1> QED
  BY <1>3, <1>4, <1>5, <1>6

LEMMA QuietInStep ==
    ASSUME InStep, UNCHANGED <<hostVars, written, leader>>, UNCHANGED sdkVars
    PROVE  FramesInv' /\ EndInv' /\ PhaseInv' /\ ExchangeInv'
<1>1. UNCHANGED <<pc, phase, fate, spool, bytes, declared, handled, written, inbox, leader, main,
                  responses, asking, sent, raised, gaveUp>>
  BY DEF hostVars, contextVars, sdkVars
<1> QED
  BY <1>1 DEF InStep, FramesInv, EndInv, PhaseInv, ExchangeInv, Over, Talking, DiscoverSent,
     Complete, Unanswered, Unread

LEMMA SdkActsInStep ==
    ASSUME InStep, Sdk
    PROVE  /\ FramesInv' /\ EndInv' /\ PhaseInv' /\ ExchangeInv'
           /\ fate' = fate /\ (raised => raised') /\ (gaveUp => gaveUp')
<1>0. /\ Threads /\ SentInv /\ inbox \in Seq(Message) /\ responses \subseteq Message
      /\ main \in {"init", "greet", "ready", "refuse", "callback", "waiting"} => ~raised
      /\ main = "refuse" => Over
      /\ \A k \in 1..MaxBatch : Carried(Records(k)) = k
      /\ \A k \in Nat : Carried(Result(k)) = 0
      /\ \A k \in {"initResult", "log", "fetch", "stray"} : Carried(Plain(k)) = 0
      /\ sent + 0 = sent
  BY MailInvParts DEF InStep, EndInv, Mail, Carried, Records, Result, Plain, SentInv, Threads
<1> USE <1>0 DEF contextVars
<1> DEFINE Goal == /\ FramesInv' /\ EndInv' /\ PhaseInv' /\ ExchangeInv'
                   /\ fate' = fate /\ (raised => raised') /\ (gaveUp => gaveUp')
<1>1. CASE ReadInitialize
  <2>1. FramesInv' /\ EndInv' /\ PhaseInv' /\ ExchangeInv'
    BY <1>1, ReadInStep DEF ReadInitialize, At
  <2> QED
    BY <1>1, <2>1 DEF ReadInitialize, Read, PluginRead, hostVars
<1>2. CASE Greet
  <2>1. FramesInv' /\ EndInv' /\ PhaseInv' /\ ExchangeInv'
    BY <1>2, WriteInStep, SdkWritesFrames DEF Greet, At, Plain, Threads
  <2> QED
    BY <1>2, <2>1 DEF Greet, PluginWrite, hostVars
<1>3. CASE ReadDiscover
  <2>1. FramesInv' /\ EndInv' /\ PhaseInv' /\ ExchangeInv'
    BY <1>3, ReadInStep DEF ReadDiscover, At
  <2> QED
    BY <1>3, <2>1 DEF ReadDiscover, Read, PluginRead, hostVars
<1>4. CASE Refuse
  <2>1. FramesInv' /\ EndInv' /\ PhaseInv' /\ ExchangeInv'
    BY <1>4, WriteInStep, SdkWritesFrames DEF Refuse, At, Plain, Threads
  <2> QED
    BY <1>4, <2>1 DEF Refuse, PluginWrite, hostVars
<1>5. CASE StopWatcher
  <2>1. FramesInv' /\ EndInv' /\ PhaseInv' /\ ExchangeInv'
    BY <1>5, MainInStep DEF StopWatcher, At
  <2> QED
    BY <1>5, <2>1 DEF StopWatcher, vars, hostVars
<1>6. CASE WriteResult
  <2>1. FramesInv' /\ EndInv' /\ PhaseInv' /\ ExchangeInv'
    <3> DEFINE f == IF raised THEN Plain("stray") ELSE Result(sent)
    <3>1. /\ f \in Frames /\ Carried(f) = 0 /\ f.kind \in {"discoverResult", "stray"}
          /\ f.kind = "discoverResult" => f.n = sent
          /\ f.kind = "stray" => raised
      BY SdkWritesFrames DEF SentInv, Plain, Result, Threads
    <3>2. /\ PluginWrite(f) /\ leader = "running" /\ main = "result" /\ main' = "exit"
          /\ UNCHANGED <<inbox, responses, raised, gaveUp, sent, asking>> /\ asking = 0
      BY <1>6 DEF WriteResult, At, Threads
    <3> HIDE DEF f
    <3> QED
      BY <3>1, <3>2, WriteInStep
  <2> QED
    BY <1>6, <2>1 DEF WriteResult, PluginWrite, hostVars
<1>7. CASE WriteFails
  <2>1. FramesInv' /\ EndInv' /\ PhaseInv' /\ ExchangeInv'
    BY <1>7, MainInStep DEF WriteFails, At
  <2> QED
    BY <1>7, <2>1 DEF WriteFails, vars, hostVars
<1>8. CASE Exit
  <2>1. FramesInv' /\ EndInv' /\ PhaseInv' /\ ExchangeInv'
    BY <1>8, EndInStep DEF Exit, At, LeaderExit
  <2> QED
    BY <1>8, <2>1 DEF Exit, LeaderExit, hostVars
<1>9. CASE Callback
  <2>1. ASSUME NEW k \in 1..MaxBatch, SendRecords(k) PROVE Goal
    <3>1. FramesInv' /\ EndInv' /\ PhaseInv' /\ ExchangeInv'
      BY <2>1, WriteInStep, SdkWritesFrames DEF SendRecords, Call, At, Records, Threads
    <3> QED
      BY <2>1, <3>1 DEF SendRecords, PluginWrite, hostVars
  <2>2. CASE SendLog
    <3>1. FramesInv' /\ EndInv' /\ PhaseInv' /\ ExchangeInv'
      BY <2>2, WriteInStep, SdkWritesFrames DEF SendLog, Call, At, Plain, Threads
    <3> QED
      BY <2>2, <3>1 DEF SendLog, PluginWrite, hostVars
  <2>3. CASE Ask
    <3>1. FramesInv' /\ EndInv' /\ PhaseInv' /\ ExchangeInv'
      BY <2>3, WriteInStep, SdkWritesFrames DEF Ask, Call, At, Plain, Threads
    <3> QED
      BY <2>3, <3>1 DEF Ask, PluginWrite, hostVars
  <2>4. CASE TakeAnswer
    <3>1. FramesInv' /\ EndInv' /\ PhaseInv' /\ ExchangeInv'
      <4>1. asking # 0 /\ main = "waiting"
        BY <2>4 DEF TakeAnswer, At, Threads
      <4>2. ~Unanswered(asking)
        BY <2>4 DEF TakeAnswer, InStep, ExchangeInv
      <4> QED
        BY <2>4, <4>1, <4>2, MainInStep DEF TakeAnswer
    <3> QED
      BY <2>4, <3>1 DEF TakeAnswer, vars, hostVars
  <2>5. CASE WaitExpired
    <3>1. FramesInv' /\ EndInv' /\ PhaseInv' /\ ExchangeInv'
      BY <2>5, MainInStep DEF WaitExpired, At
    <3> QED
      BY <2>5, <3>1 DEF WaitExpired, vars, hostVars
  <2>6. CASE Return
    <3>1. FramesInv' /\ EndInv' /\ PhaseInv' /\ ExchangeInv'
      BY <2>6, MainInStep DEF Return, At
    <3> QED
      BY <2>6, <3>1 DEF Return, At, vars, hostVars
  <2> QED
    BY <1>9, <2>1, <2>2, <2>3, <2>4, <2>5, <2>6 DEF Callback
<1>10. CASE WatchReply
  <2>1. FramesInv' /\ EndInv' /\ PhaseInv' /\ ExchangeInv'
    BY <1>10, ReadInStep DEF WatchReply
  <2> QED
    BY <1>10, <2>1 DEF WatchReply, Read, PluginRead, hostVars
<1>11. CASE WatchCancel
  <2>1. FramesInv' /\ EndInv' /\ PhaseInv' /\ ExchangeInv'
    BY <1>11, ReadInStep DEF WatchCancel
  <2> QED
    BY <1>11, <2>1 DEF WatchCancel, Read, PluginRead, hostVars
<1> QED
  BY <1>1, <1>2, <1>3, <1>4, <1>5, <1>6, <1>7, <1>8, <1>9, <1>10, <1>11 DEF Sdk

LEMMA StepInStep ==
    ASSUME InStep, ConformingRunIsAccepted, [SdkNext]_allVars
    PROVE  /\ FramesInv' /\ EndInv' /\ PhaseInv' /\ ExchangeInv'
           /\ ConformingRunIsAccepted'
<1>1. CASE HostActs
  <2>1. FramesInv' /\ EndInv' /\ ExchangeInv'
    BY <1>1, HostActsInStep
  <2>2. PhaseInv' /\ ConformingRunIsAccepted'
    BY <1>1, HostVerdict DEF HostActs, contextVars
  <2> QED
    BY <2>1, <2>2
<1>2. CASE Sdk
  <2>1. /\ FramesInv' /\ EndInv' /\ PhaseInv' /\ ExchangeInv'
        /\ fate' = fate /\ (raised => raised') /\ (gaveUp => gaveUp')
    BY <1>2, SdkActsInStep
  <2> QED
    BY <2>1 DEF ConformingRunIsAccepted
<1>3. CASE Terminated
  <2>1. Over /\ UNCHANGED <<hostVars, written, inbox, contextVars>> /\ main' = main
    BY <1>3 DEF Terminated, LeaderExit, sdkVars, InStep, HostInv, ControlInv, Over, Talking
  <2>2. UNCHANGED <<fate, raised, gaveUp>>
    BY <2>1 DEF hostVars, contextVars
  <2> QED
    BY <2>1, <2>2, EndInStep DEF ConformingRunIsAccepted
<1>4. CASE OthersAct \/ AllDone \/ UNCHANGED allVars
  <2>1. UNCHANGED <<hostVars, written, leader>> /\ UNCHANGED sdkVars
    BY <1>4 DEF OthersAct, Reader, ReaderFrame, ReaderEof, Cancel, DeadlinePasses, AllDone,
       allVars, vars, pluginVars
  <2>2. UNCHANGED <<fate, raised, gaveUp>>
    BY <2>1 DEF hostVars, sdkVars, contextVars
  <2> QED
    BY <2>1, <2>2, QuietInStep DEF ConformingRunIsAccepted
<1> QED
  BY <1>1, <1>2, <1>3, <1>4 DEF SdkNext

LEMMA InitInStep ==
    SdkInit => FramesInv /\ EndInv /\ PhaseInv /\ ExchangeInv /\ ConformingRunIsAccepted
<1> SUFFICES ASSUME SdkInit
             PROVE  FramesInv /\ EndInv /\ PhaseInv /\ ExchangeInv /\ ConformingRunIsAccepted
  OBVIOUS
<1>1. /\ written = <<>> /\ Len(written) = 0 /\ written \in Seq(Frames)
      /\ ToSet(inbox) = {} /\ responses = {}
  BY DEF SdkInit, Init, ToSet
<1>2. FramesInv
  <2>1. RecordsIn(written)[Len(written)] = 0
    BY <1>1, RecordsInSteps
  <2> QED
    BY <1>1, <2>1 DEF SdkInit, FramesInv
<1>3. EndInv
  BY <1>1 DEF SdkInit, Init, EndInv, Unread
<1>4. PhaseInv
  BY DEF SdkInit, Init, PhaseInv, Talking
<1>5. ExchangeInv
  BY <1>1 DEF SdkInit, Init, ExchangeInv, Unread, Complete
<1>6. ConformingRunIsAccepted
  BY DEF SdkInit, Init, ConformingRunIsAccepted
<1> QED
  BY <1>2, <1>3, <1>4, <1>5, <1>6

(* The host and an SDK plugin stay in step, for any limits, any callback    *)
(* and any moment a message, a signal or the end of a wait may come at:     *)
(* frames, messages, the host's phase and the end of the process fit each   *)
(* other (runtime.py and read_until_response in lib.rs, side by side).      *)
LEMMA InStepAlways == SdkSpec => [](InStep /\ ConformingRunIsAccepted)
<1>1. SdkSpec => []HostInv /\ []SpoolCountsEveryRecord
  BY SdkImplementsHost, HostInvariant, SpoolLosesNoRecord, PTL DEF RefinesPluginHost
<1>2. InStep <=>
        HostInv /\ SentInv /\ MsgInv /\ SpoolCountsEveryRecord
        /\ FramesInv /\ EndInv /\ PhaseInv /\ ExchangeInv
  BY DEF InStep
<1> QED
  BY <1>1, <1>2, MsgInvariant, SentInvInit, SentInvNext, InitInStep, StepInStep, PTL DEF SdkSpec

(* The messages, the frames, the phase and the end of the process fit each  *)
(* other in every state of every run.                                       *)
THEOREM MessagesInvariant == SdkSpec => []SdkInv
<1>1. InStep => SdkInv
  BY DEF InStep, SdkInv, MsgInv
<1> QED
  BY <1>1, InStepAlways, PTL

(* A plugin that raises nothing and waits its requests out is refused by no *)
(* host: every frame it writes is expected when it arrives, within the caps *)
(* and counted, and it ends when the host waits for that (docs/protocol-v1, *)
(* the message sequence).                                                   *)
THEOREM ConformingRunsPass == SdkSpec => []ConformingRunIsAccepted
BY InStepAlways, PTL

---------------------------------------------------------------------------
(* Replies.                                                                *)

ReplyThere ==
    \E m \in ToSet(inbox) \cup responses : m.kind \in {"reply", "error"} /\ m.to = asking

(* The host is through with a request only when it has written the reply:   *)
(* while the main thread waits, a frame of it is never refused out of turn, *)
(* and the write never finds the pipe broken.                               *)
LEMMA AnsweredByWriting ==
    ASSUME InStep, Host, main = "waiting", NEW i \in 1..Len(written),
           Unanswered(i), ~Unanswered(i)'
    PROVE  pc = "send" /\ handled = i /\ stdin' = stdin + 1 /\ handled' = handled
<1>0. Positions /\ written' = written /\ written[i].kind = "fetch"
  BY HostPositions, HostShape DEF InStep, Unanswered
<1>1. CASE Send
  <2>1. PipesOpen
    BY <1>1 DEF Send, InStep, EndInv, Over, Talking, PipesOpen
  <2> QED
    BY <1>0, <1>1, <2>1 DEF Send, Unanswered, Positions
<1>2. CASE SendCancel \/ LoopTop \/ RecvTimeout \/ RecvEof \/ RecvDisconnected \/ Supervise
  <2>1. pc # "send" /\ handled' = handled
    BY <1>2 DEF SendCancel, LoopTop, RecvTimeout, RecvEof, RecvDisconnected, Idle, Supervise,
       WaitExit, WaitExpires, Drop, TerminateTree, TermExit, Kill, JoinReader, Ensure, Supervising
  <2> QED
    BY <1>0, <2>1 DEF Unanswered
<1>3. ASSUME NEW f \in Frames, FrameStep(f) PROVE FALSE
  <2>1. /\ pc = "recv" /\ fate = "none" /\ handled' = handled + 1
        /\ f = written[handled + 1]
    BY <1>3, FrameStepShape DEF Receive, InStep
  <2>2. i = handled + 1 /\ f.kind = "fetch" /\ pc' # "send"
    BY <1>0, <2>1 DEF Unanswered, Positions
  <2>3. phase = "discover"
    BY <1>0, <2>1, <2>2 DEF InStep, FramesInv, PhaseInv, Talking, HostInv, TypeOK, Positions
  <2>4. OnRequest(f)
    BY <1>3, <2>2, <2>3 DEF FrameStep, OnInitResult, OnDiscoverResult, OnRecord, OnLog,
       OnRefusedRequest, OnRefused
  <2> QED
    BY <2>2, <2>4 DEF OnRequest
<1> QED
  BY <1>1, <1>2, <1>3 DEF Host, Loop, FrameStep

LEMMA HostKeepsReplies ==
    ASSUME InStep, RepliesAreNotLost, HostActs
    PROVE  RepliesAreNotLost'
<1> SUFFICES ASSUME asking' # 0, ~Unanswered(asking)' PROVE ReplyThere'
  BY DEF RepliesAreNotLost, ReplyThere
<1>1. /\ Host
      /\ inbox' = IF stdin' > stdin THEN Append(inbox, Outgoing) ELSE inbox
      /\ UNCHANGED <<main, responses, asking>>
  BY DEF HostActs, contextVars
<1>2. /\ Positions /\ Mail /\ main = "waiting" /\ written' = written
      /\ asking \in 1..Len(written) /\ written[asking].kind = "fetch"
  BY <1>1, HostPositions, HostShape, MailInvParts
     DEF InStep, MsgInv, MailInv, SdkTypeOK, Positions
<1>3. Mail'
  <2>1. MsgInv'
    BY HostActsMsg DEF InStep
  <2> QED
    BY <2>1 DEF MsgInv, MailInv, SdkTypeOK, Mail
<1>4. ToSet(inbox) \subseteq ToSet(inbox')
  BY <1>1, <1>2, <1>3 DEF Mail, ToSet
<1>5. CASE ~Unanswered(asking)
  BY <1>1, <1>4, <1>5 DEF RepliesAreNotLost, ReplyThere
<1>6. CASE Unanswered(asking)
  <2>1. pc = "send" /\ handled = asking /\ stdin' = stdin + 1
    BY <1>1, <1>2, <1>6, AnsweredByWriting DEF Unanswered
  <2>2. Outgoing \in Message /\ Outgoing.kind \in {"reply", "error"} /\ Outgoing.to = asking
    BY <1>2, <2>1 DEF Outgoing, Message, Positions
  <2>3. inbox' = Append(inbox, Outgoing)
    BY <1>1, <1>2, <2>1 DEF Mail
  <2>4. Outgoing \in ToSet(inbox')
    BY <1>2, <2>2, <2>3 DEF Mail, ToSet
  <2> QED
    BY <1>1, <2>2, <2>4 DEF ReplyThere
<1> QED
  BY <1>5, <1>6

(* The watcher takes what it reads out of the pipe and keeps every reply.   *)
LEMMA WatcherKeepsReplies ==
    ASSUME InStep, RepliesAreNotLost, WatchReply \/ WatchCancel
    PROVE  RepliesAreNotLost'
<1> SUFFICES ASSUME asking' # 0, ~Unanswered(asking)' PROVE ReplyThere'
  BY DEF RepliesAreNotLost, ReplyThere
<1>1. /\ inbox # <<>> /\ inbox' = Tail(inbox) /\ asking' = asking
      /\ UNCHANGED <<pc, handled, written>>
      /\ \/ responses' = responses \cup {Head(inbox)}
         \/ responses' = responses /\ Head(inbox).kind = "cancel"
  BY DEF WatchReply, WatchCancel, Read, PluginRead, hostVars, pluginVars
<1>2. PICK m \in ToSet(inbox) \cup responses : m.kind \in {"reply", "error"} /\ m.to = asking
  BY <1>1 DEF RepliesAreNotLost, Unanswered
<1>3. ToSet(inbox) \subseteq ToSet(inbox') \cup {Head(inbox)}
  <2>1. inbox \in Seq(Message)
    BY MailInvParts DEF InStep, Mail
  <2>2. Len(inbox) \in Nat /\ Len(inbox) > 0 /\ Len(Tail(inbox)) = Len(inbox) - 1
    BY <1>1, <2>1, EmptySeq
  <2> SUFFICES ASSUME NEW k \in 1..Len(inbox), k # 1 PROVE inbox[k] \in ToSet(inbox')
    BY <1>1, <2>1, <2>2 DEF ToSet
  <2>3. inbox' \in Seq(Message) /\ k - 1 \in 1..Len(inbox') /\ inbox'[k - 1] = inbox[k]
    BY <1>1, <2>1, <2>2
  <2>4. DOMAIN inbox' = 1..Len(inbox')
    BY <2>3
  <2> QED
    BY <2>3, <2>4 DEF ToSet
<1> QED
  BY <1>1, <1>2, <1>3 DEF ReplyThere

LEMMA RepliesStayStep ==
    ASSUME InStep, RepliesAreNotLost, [SdkNext]_allVars
    PROVE  RepliesAreNotLost'
<1>0. asking # 0 <=> main = "waiting"
  BY DEF InStep, MsgInv, MailInv
<1>1. CASE HostActs
  BY <1>1, HostKeepsReplies
<1>2. CASE WatchReply \/ WatchCancel
  BY <1>2, WatcherKeepsReplies
<1>3. CASE Ask
  <2>1. asking' = Len(written) + 1 /\ PluginWrite(Plain("fetch")) /\ Plain("fetch") \in Frames
    BY <1>3, SdkWritesFrames DEF Ask
  <2>2. /\ handled' = handled /\ written'[Len(written) + 1] = Plain("fetch")
        /\ handled \in Nat /\ Len(written) \in Nat /\ handled <= Len(written)
    BY <2>1, WriteGrows, HostPositions DEF InStep, Positions
  <2> QED
    BY <2>1, <2>2 DEF RepliesAreNotLost, Unanswered, Plain
<1>4. CASE TakeAnswer \/ WaitExpired
  BY <1>4 DEF TakeAnswer, WaitExpired, RepliesAreNotLost
<1>5. CASE \/ ReadInitialize \/ Greet \/ ReadDiscover \/ Refuse \/ StopWatcher \/ WriteResult
           \/ WriteFails \/ Exit \/ SendLog \/ Return \/ \E k \in 1..MaxBatch : SendRecords(k)
  <2>1. asking' = asking /\ main # "waiting"
    BY <1>5 DEF ReadInitialize, Greet, ReadDiscover, Refuse, StopWatcher, WriteResult, WriteFails,
       Exit, SendLog, Return, SendRecords, Call, At, contextVars
  <2> QED
    BY <1>0, <2>1 DEF RepliesAreNotLost
<1>6. CASE Terminated \/ OthersAct \/ AllDone \/ UNCHANGED allVars
  <2>1. UNCHANGED <<pc, handled, written, inbox, responses, asking>>
    BY <1>6 DEF Terminated, LeaderExit, OthersAct, Reader, ReaderFrame, ReaderEof, Cancel,
       DeadlinePasses, AllDone, allVars, vars, hostVars, pluginVars, sdkVars, contextVars
  <2> QED
    BY <2>1 DEF RepliesAreNotLost, Unanswered
<1> QED
  BY <1>1, <1>2, <1>3, <1>4, <1>5, <1>6 DEF SdkNext, Sdk, Callback

(* Whatever a callback asks, outwaits and asks again, and whenever the run  *)
(* is cancelled or given up: a reply the host wrote can still be taken by   *)
(* the request that waits for it (runtime.py, _watch_fd, _store_response    *)
(* and _wait_response).                                                     *)
THEOREM RepliesStayTakeable == SdkSpec => []RepliesAreNotLost
<1>1. SdkInit => RepliesAreNotLost
  BY DEF SdkInit, RepliesAreNotLost
<1> QED
  BY <1>1, InStepAlways, RepliesStayStep, PTL DEF SdkSpec

=============================================================================
