------------------------- MODULE PluginHostProofs -------------------------
(***************************************************************************)
(* Proofs about PluginHost, for every set of frames and of descendants and *)
(* every value of the caps.                                                *)
(***************************************************************************)
EXTENDS PluginHost, WellFoundedInduction, TLAPS

---------------------------------------------------------------------------
(* The initial state.                                                      *)

LEMMA RecordCapOK == RecordCap \in Nat /\ RecordCap <= HostMaxRecords
BY ConstantsOK DEF RecordCap

LEMMA InitInv == Init => HostInv
<1> SUFFICES ASSUME Init PROVE HostInv
  OBVIOUS
<1>1. TypeOK
  <2>1. proc \in [Descendants -> {"unborn", "alive", "dead"}]
    BY DEF Init
  <2>2. written \in Seq(Frames)
    BY DEF Init
  <2> QED
    BY <2>1, <2>2 DEF Init, TypeOK, Fates
<1>2. ChannelInv
  BY DEF Init, ChannelInv
<1>3. ControlInv
  BY DEF Init, ControlInv
<1>4. SuccessIsComplete
  BY DEF Init, SuccessIsComplete
<1>5. SpoolWithinCaps
  BY RecordCapOK, ConstantsOK DEF Init, SpoolWithinCaps
<1> QED
  BY <1>1, <1>2, <1>3, <1>4, <1>5 DEF HostInv

---------------------------------------------------------------------------
(* The plugin's process group.                                             *)

(* Once nobody holds the pipes, nobody ever will: a pipe is inherited.     *)
LEMMA PipesStayClosed ==
    ASSUME TypeOK, Plugin, ~PipesOpen
    PROVE  ~PipesOpen'
<1>1. CASE \E f \in Frames : PluginWrite(f)
  BY <1>1 DEF PluginWrite
<1>2. CASE PluginRead
  BY <1>2 DEF PluginRead
<1>3. CASE \E d \in Descendants : Fork(d)
  BY <1>3 DEF Fork, PipesOpen, Alive, TypeOK
<1>4. CASE \E d \in Descendants : DescendantExit(d)
  BY <1>4 DEF DescendantExit, PipesOpen, Alive, TypeOK
<1>5. CASE LeaderExit
  BY <1>5 DEF LeaderExit, PipesOpen
<1> QED
  BY <1>1, <1>2, <1>3, <1>4, <1>5 DEF Plugin

LEMMA PluginInv == HostInv /\ Plugin => HostInv'
<1> SUFFICES ASSUME HostInv, Plugin PROVE HostInv'
  OBVIOUS
<1>0. TypeOK /\ ChannelInv /\ ControlInv /\ SuccessIsComplete /\ SpoolWithinCaps
  BY DEF HostInv
<1>1. CASE \E f \in Frames : PluginWrite(f)
  <2> PICK f \in Frames : PluginWrite(f)
    BY <1>1
  <2> USE <1>0 DEF PluginWrite, hostVars, readerVars, worldVars
  <2>1. TypeOK'
    BY DEF TypeOK
  <2>2. Len(written') = Len(written) + 1 /\ \A i \in 1..Len(written) : written'[i] = written[i]
    BY DEF TypeOK
  <2>3. ChannelInv'
    BY <2>2 DEF ChannelInv, TypeOK, PipesOpen, Alive
  <2>4. ControlInv'
    BY DEF ControlInv
  <2>5. SuccessIsComplete'
    BY DEF SuccessIsComplete, PipesOpen, Alive
  <2>6. SpoolWithinCaps'
    BY DEF SpoolWithinCaps, RecordCap
  <2> QED
    BY <2>1, <2>3, <2>4, <2>5, <2>6 DEF HostInv
<1>2. CASE PluginRead
  <2> USE <1>0, <1>2 DEF PluginRead, hostVars, readerVars, pluginVars, worldVars
  <2>1. TypeOK'
    BY DEF TypeOK
  <2>2. ChannelInv' /\ ControlInv' /\ SuccessIsComplete'
    BY DEF ChannelInv, ControlInv, SuccessIsComplete, PipesOpen, Alive
  <2>3. SpoolWithinCaps'
    BY DEF SpoolWithinCaps, RecordCap
  <2> QED
    BY <2>1, <2>2, <2>3 DEF HostInv
<1>3. CASE \E d \in Descendants : Fork(d) \/ DescendantExit(d)
  <2> PICK d \in Descendants : Fork(d) \/ DescendantExit(d)
    BY <1>3
  <2> USE <1>0 DEF Fork, DescendantExit, hostVars, readerVars, worldVars
  <2>1. TypeOK'
    BY DEF TypeOK
  <2>2. ~PipesOpen => ~PipesOpen'
    BY <1>3, PipesStayClosed DEF Plugin
  <2>3. ChannelInv' /\ ControlInv' /\ SuccessIsComplete'
    BY <2>2 DEF ChannelInv, ControlInv, SuccessIsComplete
  <2>5. SpoolWithinCaps'
    BY DEF SpoolWithinCaps, RecordCap
  <2> QED
    BY <2>1, <2>3, <2>5 DEF HostInv
<1>4. CASE LeaderExit
  <2> USE <1>0, <1>4 DEF LeaderExit, hostVars, readerVars, worldVars
  <2>1. TypeOK'
    BY DEF TypeOK
  <2>2. ~PipesOpen => ~PipesOpen'
    BY PipesStayClosed DEF Plugin
  <2>3. ChannelInv' /\ ControlInv' /\ SuccessIsComplete'
    BY <2>2 DEF ChannelInv, ControlInv, SuccessIsComplete
  <2>4. SpoolWithinCaps'
    BY DEF SpoolWithinCaps, RecordCap
  <2> QED
    BY <2>1, <2>3, <2>4 DEF HostInv
<1> QED
  BY <1>1, <1>2, <1>3, <1>4 DEF Plugin

---------------------------------------------------------------------------
(* The reader thread and the outside world.                                *)

LEMMA ReaderInv == HostInv /\ Reader => HostInv'
<1> SUFFICES ASSUME HostInv, Reader PROVE HostInv'
  OBVIOUS
<1>0. TypeOK /\ ChannelInv /\ ControlInv /\ SuccessIsComplete /\ SpoolWithinCaps
  BY DEF HostInv
<1> USE <1>0 DEF hostVars, pluginVars, worldVars
<1>1. CASE ReaderFrame
  <2> USE <1>1 DEF ReaderFrame
  <2>1. TypeOK'
    <3>1. reader' \in {"reading", "stopped"} /\ overflow' \in BOOLEAN
      BY Zenon DEF TypeOK
    <3>2. taken' \in Nat
      BY DEF TypeOK
    <3> QED
      BY <3>1, <3>2 DEF TypeOK
  <2>2. ChannelInv'
    BY DEF ChannelInv, TypeOK, PipesOpen, Alive
  <2>3. ControlInv' /\ SuccessIsComplete'
    BY DEF ControlInv, SuccessIsComplete, PipesOpen, Alive, TypeOK
  <2>4. SpoolWithinCaps'
    BY DEF SpoolWithinCaps, RecordCap
  <2> QED
    BY <2>1, <2>2, <2>3, <2>4 DEF HostInv
<1>2. CASE ReaderEof
  <2> USE <1>2 DEF ReaderEof
  <2>1. TypeOK'
    BY DEF TypeOK
  <2>2. ChannelInv'
    BY DEF ChannelInv, TypeOK, PipesOpen, Alive
  <2>3. ControlInv' /\ SuccessIsComplete'
    BY DEF ControlInv, SuccessIsComplete, PipesOpen, Alive, TypeOK
  <2>4. SpoolWithinCaps'
    BY DEF SpoolWithinCaps, RecordCap
  <2> QED
    BY <2>1, <2>2, <2>3, <2>4 DEF HostInv
<1> QED
  BY <1>1, <1>2 DEF Reader

(* The invariant says nothing of the token, the deadline and the unread    *)
(* host messages, beyond their types.                                      *)
LEMMA WorldInv == HostInv /\ (Cancel \/ DeadlinePasses) => HostInv'
<1> SUFFICES ASSUME HostInv, Cancel \/ DeadlinePasses PROVE HostInv'
  OBVIOUS
<1> USE DEF HostInv, Cancel, DeadlinePasses, hostVars, readerVars, pluginVars
<1>1. TypeOK'
  BY DEF TypeOK
<1>2. ChannelInv' /\ ControlInv' /\ SuccessIsComplete'
  BY DEF ChannelInv, ControlInv, SuccessIsComplete, PipesOpen, Alive
<1>3. SpoolWithinCaps'
  BY DEF SpoolWithinCaps, RecordCap
<1> QED
  BY <1>1, <1>2, <1>3

---------------------------------------------------------------------------
(* The host thread: writing to the plugin and receiving from the channel.  *)

LEMMA SendInv == HostInv /\ (Send \/ SendCancel) => HostInv'
<1> SUFFICES ASSUME HostInv, Send \/ SendCancel PROVE HostInv'
  OBVIOUS
<1> USE DEF HostInv, Send, SendCancel, readerVars, pluginVars, worldVars
<1>1. TypeOK'
  BY DEF TypeOK, Fates
<1>2. ChannelInv'
  BY DEF ChannelInv, PipesOpen, Alive
<1>3. ControlInv'
  BY DEF ControlInv, TypeOK
<1>4. SuccessIsComplete'
  BY DEF SuccessIsComplete, ControlInv, PipesOpen, Alive
<1>5. SpoolWithinCaps'
  BY DEF SpoolWithinCaps, RecordCap
<1> QED
  BY <1>1, <1>2, <1>3, <1>4, <1>5

(* The steps of the loop that receive no frame.                            *)
LEMMA IdleInv ==
    HostInv /\ (LoopTop \/ RecvTimeout \/ RecvEof \/ RecvDisconnected) => HostInv'
<1> SUFFICES ASSUME HostInv, LoopTop \/ RecvTimeout \/ RecvEof \/ RecvDisconnected
             PROVE  HostInv'
  OBVIOUS
<1> USE DEF HostInv, LoopTop, RecvTimeout, RecvEof, RecvDisconnected, Idle, readerVars,
            pluginVars, worldVars
<1>1. TypeOK'
  BY DEF TypeOK, Fates
<1>2. ChannelInv'
  BY DEF ChannelInv, PipesOpen, Alive, TypeOK
<1>3. ControlInv'
  BY DEF ControlInv, TypeOK
<1>4. SuccessIsComplete'
  BY DEF SuccessIsComplete, ControlInv, PipesOpen, Alive
<1>5. SpoolWithinCaps'
  BY DEF SpoolWithinCaps, RecordCap
<1> QED
  BY <1>1, <1>2, <1>3, <1>4, <1>5

(* The steps that receive one: what they have in common is enough for all  *)
(* but the caps on the spool.                                              *)
FrameStep(f) ==
    \/ OnInitResult(f) \/ OnDiscoverResult(f) \/ OnRecord(f) \/ OnLog(f)
    \/ OnRequest(f) \/ OnRefusedRequest(f) \/ OnRefused(f)

LEMMA FrameStepShape ==
    ASSUME HostInv, NEW f \in Frames, FrameStep(f)
    PROVE  /\ Receive(f)
           /\ f \in Frame
           /\ fate = "none"
           /\ \/ pc' \in {"send", "loop", "wait"} /\ fate' = "none" /\ f.kind # "garbled"
              \/ pc' \in {"send", "drop"} /\ fate' \in Fates \ {"none", "ok"}
           /\ phase' \in {"initialize", "discover", "closing"}
<1>1. Receive(f) /\ f \in Frame
  BY ConstantsOK DEF FrameStep, OnInitResult, OnDiscoverResult, OnRecord, OnLog, OnRequest,
     OnRefusedRequest, OnRefused
<1>2. fate = "none" /\ phase \in {"initialize", "discover", "closing"}
  BY <1>1 DEF Receive, HostInv, ControlInv, TypeOK
<1>3. CASE OnInitResult(f)
  BY <1>1, <1>2, <1>3 DEF OnInitResult
<1>4. CASE OnDiscoverResult(f)
  BY <1>1, <1>2, <1>4 DEF OnDiscoverResult
<1>5. CASE OnRecord(f)
  BY <1>1, <1>2, <1>5 DEF OnRecord, Fail, Fates
<1>6. CASE OnLog(f)
  BY <1>1, <1>2, <1>6 DEF OnLog, Fail, Fates
<1>7. CASE OnRequest(f)
  BY <1>1, <1>2, <1>7 DEF OnRequest, Fates
<1>8. CASE OnRefusedRequest(f)
  BY <1>1, <1>2, <1>8 DEF OnRefusedRequest, Fates
<1>9. CASE OnRefused(f)
  BY <1>1, <1>2, <1>9 DEF OnRefused, Fail, Fates
<1> QED
  BY <1>3, <1>4, <1>5, <1>6, <1>7, <1>8, <1>9 DEF FrameStep

LEMMA FrameStepCaps ==
    ASSUME HostInv, NEW f \in Frames, FrameStep(f)
    PROVE  /\ SpoolWithinCaps'
           /\ spool' \in Nat /\ bytes' \in Nat /\ logBytes' \in Nat /\ declared' \in Nat
<1>1. f \in Frame /\ SpoolWithinCaps
  BY FrameStepShape DEF HostInv
<1>2. spool \in Nat /\ bytes \in Nat /\ logBytes \in Nat /\ declared \in Nat
  BY DEF HostInv, TypeOK
<1>3. f.n \in Nat /\ f.good \in Nat /\ f.bytes \in Nat
  BY <1>1 DEF Frame
<1>4. RecordCap' = RecordCap
  BY DEF RecordCap
<1> USE RecordCapOK, ConstantsOK DEF SpoolWithinCaps
<1>5. CASE OnRecord(f)
  BY <1>1, <1>2, <1>3, <1>4, <1>5 DEF OnRecord, Reservable
<1>6. CASE OnLog(f)
  BY <1>1, <1>2, <1>3, <1>4, <1>6 DEF OnLog
<1>7. CASE OnInitResult(f) \/ OnDiscoverResult(f)
  BY <1>1, <1>2, <1>3, <1>4, <1>7 DEF OnInitResult, OnDiscoverResult
<1>8. CASE OnRequest(f) \/ OnRefusedRequest(f) \/ OnRefused(f)
  BY <1>1, <1>2, <1>3, <1>4, <1>8 DEF OnRequest, OnRefusedRequest, OnRefused
<1> QED
  BY <1>5, <1>6, <1>7, <1>8 DEF FrameStep

LEMMA FrameInv == HostInv /\ (\E f \in Frames : FrameStep(f)) => HostInv'
<1> SUFFICES ASSUME HostInv, NEW f \in Frames, FrameStep(f) PROVE HostInv'
  OBVIOUS
<1>0. TypeOK /\ ChannelInv /\ ControlInv /\ SuccessIsComplete
  BY DEF HostInv
<1> USE FrameStepShape, FrameStepCaps, <1>0 DEF Receive, readerVars, pluginVars, worldVars
<1>1. TypeOK'
  BY DEF TypeOK, Fates
<1>2. ChannelInv'
  <2>1. handled' <= taken' /\ taken' <= Len(written')
    BY DEF ChannelInv, TypeOK
  <2>2. fate' = "none" => \A i \in 1..handled' : written'[i].kind # "garbled"
    BY DEF ChannelInv, TypeOK
  <2> QED
    BY <2>1, <2>2 DEF ChannelInv, PipesOpen, Alive
<1>3. ControlInv'
  BY DEF ControlInv
<1>4. SuccessIsComplete'
  BY DEF SuccessIsComplete
<1> QED
  BY <1>1, <1>2, <1>3, <1>4 DEF HostInv

---------------------------------------------------------------------------
(* The host thread: the end of the process.                                *)

LEMMA SuperviseInv == HostInv /\ Supervise => HostInv'
<1> SUFFICES ASSUME HostInv, Supervise PROVE HostInv'
  OBVIOUS
<1>0. TypeOK /\ ChannelInv /\ ControlInv /\ SuccessIsComplete /\ SpoolWithinCaps
  BY DEF HostInv
<1> USE <1>0 DEF Supervising, worldVars
<1>1. CASE WaitExit \/ WaitExpires \/ Drop \/ TermExit \/ JoinReader
  <2> USE <1>1 DEF WaitExit, WaitExpires, Drop, TerminateTree, TermExit, JoinReader
  <2>1. TypeOK'
    BY DEF TypeOK, Fates
  <2>2. ChannelInv'
    BY DEF ChannelInv, PipesOpen, Alive
  <2>3. ControlInv'
    BY DEF ControlInv, TypeOK
  <2>4. SuccessIsComplete'
    BY DEF SuccessIsComplete, ControlInv, PipesOpen, Alive
  <2>5. SpoolWithinCaps'
    BY DEF SpoolWithinCaps, RecordCap
  <2> QED
    BY <2>1, <2>2, <2>3, <2>4, <2>5 DEF HostInv
<1>2. CASE Kill
  <2> USE <1>2 DEF Kill
  <2>1. TypeOK'
    BY DEF TypeOK
  <2>2. \A d \in Descendants : ~Alive(d)'
    BY DEF Alive, TypeOK
  <2>3. ~PipesOpen'
    BY <2>2, ConstantsOK DEF PipesOpen
  <2>4. ChannelInv'
    BY <2>3 DEF ChannelInv
  <2>5. ControlInv'
    BY DEF ControlInv, TypeOK
  <2>6. SuccessIsComplete' /\ SpoolWithinCaps'
    BY <2>2 DEF SuccessIsComplete, SpoolWithinCaps, RecordCap, ControlInv
  <2> QED
    BY <2>1, <2>4, <2>5, <2>6 DEF HostInv
<1>3. CASE Ensure
  <2> USE <1>3 DEF Ensure
  <2>1. CloseVerdict \in {"ok", "queueFull", "frame", "rejected"}
    BY DEF CloseVerdict
  <2>2. TypeOK'
    BY <2>1 DEF TypeOK, Fates
  <2>3. ChannelInv' /\ ControlInv'
    BY <2>1 DEF ChannelInv, ControlInv, PipesOpen, Alive
  <2>4. SuccessIsComplete'
    \* the verdict is "ok" only when the channel is drained; the last frame
    \* taken was handled, hence readable, so the reader stopped at the end
    <3>1. SUFFICES ASSUME fate' = "ok" PROVE SuccessIsComplete'
      BY DEF SuccessIsComplete
    <3>2. ~overflow /\ handled = taken /\ declared = spool
      BY <3>1 DEF CloseVerdict, ChannelInv, TypeOK
    <3>3. reader = "stopped" /\ fate = "none" /\ leader = "ok"
      BY DEF ControlInv
    <3>4. taken > 0 => written[taken].kind # "garbled"
      BY <3>2, <3>3 DEF ChannelInv, TypeOK
    <3>5. taken = Len(written) /\ ~PipesOpen
      BY <3>2, <3>3, <3>4 DEF ChannelInv
    <3> QED
      BY <3>2, <3>3, <3>5 DEF SuccessIsComplete, PipesOpen, Alive
  <2>5. SpoolWithinCaps'
    BY DEF SpoolWithinCaps, RecordCap
  <2> QED
    BY <2>2, <2>3, <2>4, <2>5 DEF HostInv
<1> QED
  BY <1>1, <1>2, <1>3 DEF Supervise

---------------------------------------------------------------------------
(* The theorems.                                                           *)

LEMMA StutterInv == HostInv /\ UNCHANGED vars => HostInv'
<1> SUFFICES ASSUME HostInv, UNCHANGED vars PROVE HostInv'
  OBVIOUS
<1> USE DEF HostInv, vars, hostVars, readerVars, pluginVars, worldVars
<1>1. TypeOK'
  BY DEF TypeOK
<1>2. ChannelInv' /\ ControlInv' /\ SuccessIsComplete'
  BY DEF ChannelInv, ControlInv, SuccessIsComplete, PipesOpen, Alive
<1>3. SpoolWithinCaps'
  BY DEF SpoolWithinCaps, RecordCap
<1> QED
  BY <1>1, <1>2, <1>3

LEMMA StepInv == HostInv /\ [Next]_vars => HostInv'
BY PluginInv, ReaderInv, WorldInv, SendInv, IdleInv, FrameInv, SuperviseInv, StutterInv
   DEF Next, Host, Loop, Finished, FrameStep

(* HostInv holds in every state of every run: the channel loses nothing     *)
(* silently, and each point of the host's walk rests on what came before.   *)
THEOREM HostInvariant == Spec => []HostInv
BY InitInv, StepInv, PTL DEF Spec

(* Every variable keeps its type.                                           *)
THEOREM TypeCorrect == Spec => []TypeOK
<1>1. HostInv => TypeOK
  BY DEF HostInv
<1> QED
  BY <1>1, HostInvariant, PTL

(* A HostRun is only ever returned after everything the plugin wrote was    *)
(* received, and after the plugin exited with status 0.                     *)
THEOREM SuccessCompletes == Spec => []SuccessIsComplete
<1>1. HostInv => SuccessIsComplete
  BY DEF HostInv
<1> QED
  BY <1>1, HostInvariant, PTL

(* No return path leaves the leader running or the reader thread behind.    *)
THEOREM NothingLeaks == Spec => []NothingLeaksFromTheHost
<1>1. HostInv => NothingLeaksFromTheHost
  BY DEF HostInv, ControlInv, NothingLeaksFromTheHost
<1> QED
  BY <1>1, HostInvariant, PTL

(* No sequence of batches takes the spool beyond the host's caps.           *)
THEOREM SpoolStaysWithinCaps == Spec => []SpoolWithinCaps
<1>1. HostInv => SpoolWithinCaps
  BY DEF HostInv
<1> QED
  BY <1>1, HostInvariant, PTL

---------------------------------------------------------------------------
(* The records of the frames handled.                                      *)

(* Counting up: what holds of 0 and passes from n - 1 to n holds up to N.  *)
(* The least exception would have a predecessor that is none.              *)
LEMMA CountingUp ==
    ASSUME NEW N \in Nat, NEW P, 0 \in P, \A n \in 1..N : n - 1 \in P => n \in P
    PROVE  0..N \subseteq P
<1> DEFINE T == (0..N) \ P
<1>1. SUFFICES ASSUME T # {} PROVE FALSE
  OBVIOUS
<1>2. PICK x \in T : \A y \in T : ~(<<y, x>> \in OpToRel(<, Nat))
  <2>1. T \subseteq Nat
    OBVIOUS
  <2> HIDE DEF T
  <2> QED
    BY <1>1, <2>1, NatLessThanWellFounded, WFMin
<1>3. x # 0 /\ x - 1 \in T
  OBVIOUS
<1>4. <<x - 1, x>> \in OpToRel(<, Nat)
  BY <1>3 DEF OpToRel
<1> QED
  BY <1>2, <1>3, <1>4

LEMMA CarriedIsNatural == ASSUME NEW f \in Frames PROVE Carried(f) \in Nat
BY ConstantsOK DEF Carried, Frame

(* RecordsIn is what its recursion says.                                   *)
LEMMA RecordsInSteps ==
    ASSUME NEW w \in Seq(Frames)
    PROVE  /\ RecordsIn(w) \in [0..Len(w) -> Nat]
           /\ RecordsIn(w)[0] = 0
           /\ \A i \in 1..Len(w) : RecordsIn(w)[i] = RecordsIn(w)[i - 1] + Carried(w[i])
<1> DEFINE Counts(g, n) == g[0] = 0 /\ \A i \in 1..n : g[i] = g[i - 1] + Carried(w[i])
           P == {n \in 0..Len(w) : \E g \in [0..n -> Nat] : Counts(g, n)}
<1>1. 0 \in P
  <2>1. [i \in 0..0 |-> 0] \in [0..0 -> Nat] /\ Counts([i \in 0..0 |-> 0], 0)
    OBVIOUS
  <2>2. \E g \in [0..0 -> Nat] : Counts(g, 0)
    BY <2>1
  <2> HIDE DEF Counts
  <2> QED
    BY <2>2
<1>2. ASSUME NEW n \in 1..Len(w), n - 1 \in P PROVE n \in P
  <2>1. PICK g \in [0..(n - 1) -> Nat] : Counts(g, n - 1)
    BY <1>2
  <2>2. Carried(w[n]) \in Nat
    BY CarriedIsNatural
  <2> DEFINE h == [i \in 0..n |-> IF i = n THEN g[n - 1] + Carried(w[n]) ELSE g[i]]
  <2>3. h \in [0..n -> Nat]
    BY <2>2
  <2>4. \A i \in 1..n : h[i] = h[i - 1] + Carried(w[i])
    <3> TAKE i \in 1..n
    <3>1. CASE i = n
      BY <3>1
    <3>2. CASE i # n
      <4>1. i \in 1..(n - 1) /\ h[i] = g[i] /\ h[i - 1] = g[i - 1]
        BY <3>2
      <4> QED
        BY <4>1, <2>1
    <3> QED
      BY <3>1, <3>2
  <2>5. h[0] = 0
    BY <2>1
  <2>6. Counts(h, n)
    BY <2>4, <2>5
  <2>7. \E f \in [0..n -> Nat] : Counts(f, n)
    BY <2>3, <2>6
  <2> HIDE DEF Counts, h
  <2> QED
    BY <2>7
<1>3. Len(w) \in P
  <2>1. Len(w) \in Nat
    OBVIOUS
  <2> HIDE DEF P
  <2>2. 0..Len(w) \subseteq P
    BY <1>1, <1>2, <2>1, CountingUp
  <2> QED
    BY <2>1, <2>2
<1>4. PICK g \in [0..Len(w) -> Nat] : Counts(g, Len(w))
  BY <1>3
<1>5. g = [i \in 0..Len(w) |-> IF i = 0 THEN 0 ELSE g[i - 1] + Carried(w[i])]
  BY <1>4
<1> DEFINE f == RecordsIn(w)
<1>6. f = [i \in 0..Len(w) |-> IF i = 0 THEN 0 ELSE f[i - 1] + Carried(w[i])]
  BY <1>5, Zenon DEF RecordsIn
<1> HIDE DEF f
<1>7. f[0] = 0 /\ \A i \in 1..Len(w) : f[i] = f[i - 1] + Carried(w[i])
  BY <1>6
<1>8. \A i \in 0..Len(w) : f[i] \in Nat
  <2> DEFINE Q == {i \in 0..Len(w) : f[i] \in Nat}
  <2>1. 0 \in Q
    BY <1>7
  <2>2. \A n \in 1..Len(w) : n - 1 \in Q => n \in Q
    BY <1>7, CarriedIsNatural
  <2>3. Len(w) \in Nat
    OBVIOUS
  <2>4. 0..Len(w) \subseteq Q
    <3> HIDE DEF Q
    <3> QED
      BY <2>1, <2>2, <2>3, CountingUp
  <2> QED
    BY <2>4
<1> QED
  BY <1>6, <1>7, <1>8 DEF f

(* A frame more changes nothing of the count before it.                    *)
LEMMA RecordsInPrefix ==
    ASSUME NEW w \in Seq(Frames), NEW f \in Frames
    PROVE  \A i \in 0..Len(w) : RecordsIn(Append(w, f))[i] = RecordsIn(w)[i]
<1> DEFINE v == Append(w, f)
           P == {i \in 0..Len(w) : RecordsIn(v)[i] = RecordsIn(w)[i]}
<1>1. /\ v \in Seq(Frames) /\ Len(w) \in Nat /\ Len(v) = Len(w) + 1
      /\ \A i \in 1..Len(w) : v[i] = w[i]
  OBVIOUS
<1> HIDE DEF v
<1>2. 0 \in P
  BY <1>1, RecordsInSteps
<1>3. ASSUME NEW n \in 1..Len(w), n - 1 \in P PROVE n \in P
  <2>1. /\ RecordsIn(v)[n] = RecordsIn(v)[n - 1] + Carried(v[n])
        /\ RecordsIn(w)[n] = RecordsIn(w)[n - 1] + Carried(w[n])
    <3>1. n \in 1..Len(v)
      BY <1>1
    <3> QED
      BY <1>1, <3>1, RecordsInSteps
  <2> QED
    BY <1>1, <1>3, <2>1
<1>4. 0..Len(w) \subseteq P
  <2> HIDE DEF P
  <2> QED
    BY <1>1, <1>2, <1>3, CountingUp
<1> QED
  BY <1>4 DEF v

LEMMA CountInit == Init => SpoolCountsEveryRecord
<1> SUFFICES ASSUME Init PROVE SpoolCountsEveryRecord
  OBVIOUS
<1>1. written \in Seq(Frames) /\ handled = 0 /\ spool = 0
  BY DEF Init
<1> QED
  BY <1>1, RecordsInSteps DEF SpoolCountsEveryRecord

(* A step other than a write and a frame received keeps the three counts.  *)
LEMMA CountKept ==
    ASSUME HostInv, SpoolCountsEveryRecord, UNCHANGED <<written, handled, spool>>,
           fate' \in {"none", "ok"} => fate \in {"none", "ok"}
    PROVE  SpoolCountsEveryRecord'
BY DEF SpoolCountsEveryRecord

LEMMA CountFrame ==
    ASSUME HostInv, SpoolCountsEveryRecord, NEW f \in Frames, FrameStep(f)
    PROVE  SpoolCountsEveryRecord'
<1>1. /\ Receive(f) /\ f \in Frame /\ fate = "none" /\ fate' # "ok"
  BY FrameStepShape
<1>2. /\ handled' = handled + 1 /\ written' = written /\ f = written[handled + 1]
      /\ handled + 1 \in 1..Len(written) /\ handled \in Nat /\ spool \in Nat
      /\ written \in Seq(Frames)
  BY <1>1 DEF Receive, HostInv, TypeOK, ChannelInv, pluginVars
<1>3. RecordsIn(written)[handled + 1] = RecordsIn(written)[handled] + Carried(f)
  BY <1>2, RecordsInSteps
<1>4. spool = RecordsIn(written)[handled]
  BY <1>1 DEF SpoolCountsEveryRecord
<1>5. fate' = "none" => spool' = spool + Carried(f)
  <2>1. CASE OnRecord(f)
    BY <1>1, <1>2, <2>1 DEF OnRecord, Fail, Carried
  <2>2. CASE OnInitResult(f) \/ OnDiscoverResult(f) \/ OnLog(f) \/ OnRequest(f)
             \/ OnRefusedRequest(f)
    BY <1>1, <1>2, <2>2
       DEF OnInitResult, OnDiscoverResult, OnLog, OnRequest, OnRefusedRequest, Carried
  <2>3. CASE OnRefused(f)
    BY <2>3 DEF OnRefused, Fail
  <2> QED
    BY <2>1, <2>2, <2>3, <1>1 DEF FrameStep
<1> QED
  BY <1>1, <1>2, <1>3, <1>4, <1>5 DEF SpoolCountsEveryRecord

LEMMA CountStep ==
    HostInv /\ SpoolCountsEveryRecord /\ [Next]_vars => SpoolCountsEveryRecord'
<1> SUFFICES ASSUME HostInv, SpoolCountsEveryRecord, [Next]_vars
             PROVE  SpoolCountsEveryRecord'
  OBVIOUS
<1>1. CASE \E f \in Frames : PluginWrite(f)
  <2>1. PICK f \in Frames : PluginWrite(f)
    BY <1>1
  <2>2. /\ written \in Seq(Frames) /\ written' = Append(written, f)
        /\ handled \in 0..Len(written) /\ UNCHANGED <<fate, spool, handled>>
    BY <2>1 DEF PluginWrite, hostVars, HostInv, TypeOK, ChannelInv
  <2>3. RecordsIn(written')[handled] = RecordsIn(written)[handled]
    BY <2>2, RecordsInPrefix
  <2> QED
    BY <2>2, <2>3 DEF SpoolCountsEveryRecord
<1>2. CASE \E f \in Frames : FrameStep(f)
  BY <1>2, CountFrame
<1>3. CASE PluginRead \/ LeaderExit \/ (\E d \in Descendants : Fork(d) \/ DescendantExit(d))
           \/ Reader \/ Cancel \/ DeadlinePasses \/ UNCHANGED vars
  <2>1. UNCHANGED <<written, handled, spool, fate>>
    BY <1>3 DEF PluginRead, LeaderExit, Fork, DescendantExit, Reader, ReaderFrame, ReaderEof,
       Cancel, DeadlinePasses, hostVars, pluginVars, vars
  <2> QED
    BY <2>1, CountKept
<1>4. CASE Send \/ SendCancel \/ LoopTop \/ RecvTimeout \/ RecvEof \/ RecvDisconnected
  <2>1. /\ UNCHANGED <<written, handled, spool>>
        /\ fate' \in {"none", "ok"} => fate \in {"none", "ok"}
    BY <1>4 DEF Send, SendCancel, LoopTop, RecvTimeout, RecvEof, RecvDisconnected, Idle,
       pluginVars
  <2> QED
    BY <2>1, CountKept
<1>5. CASE Supervise
  <2>1. /\ UNCHANGED <<written, handled, spool>>
        /\ fate' \in {"none", "ok"} => fate \in {"none", "ok"}
    BY <1>5 DEF Supervise, WaitExit, WaitExpires, Drop, TerminateTree, TermExit, Kill,
       JoinReader, Ensure, Supervising, HostInv, ControlInv
  <2> QED
    BY <2>1, CountKept
<1> QED
  BY <1>1, <1>2, <1>3, <1>4, <1>5 DEF Next, Plugin, Host, Loop, Finished, FrameStep

(* Until a run fails every record of every frame handled is in the spool,   *)
(* once, whatever the batches: the number the discover result is compared   *)
(* with is the number the plugin sent (lib.rs, spool_records).              *)
THEOREM SpoolLosesNoRecord == Spec => []SpoolCountsEveryRecord
BY CountInit, CountStep, HostInvariant, PTL DEF Spec

---------------------------------------------------------------------------
(* PluginHost implements AtomicDelivery.                                   *)

LEMMA DeliveryInit == Init => Delivery!AbsInit
BY DEF Init, Delivery!AbsInit

(* Every step is an offer, the delivery, a discard, or nothing.            *)
LEMMA DeliveryStep ==
    HostInv /\ HostInv' /\ [Next]_vars => [Delivery!AbsNext]_(Delivery!absVars)
<1> SUFFICES ASSUME HostInv, HostInv', [Next]_vars
             PROVE  [Delivery!AbsNext]_(Delivery!absVars)
  OBVIOUS
<1> USE DEF Delivery!AbsNext, Delivery!absVars, Delivery!Offer, Delivery!Deliver,
            Delivery!Discard
<1>0. /\ fate = "ok" => pc = "done"
      /\ fate = "ok" => handled = Len(written)
      /\ fate' = "ok" => handled' = Len(written')
      /\ written \in Seq(Frames) /\ written' \in Seq(Frames)
  BY DEF HostInv, ControlInv, SuccessIsComplete, TypeOK
<1>1. SubSeq(written, 1, Len(written)) = written
  BY <1>0
<1>2. CASE \E f \in Frames : PluginWrite(f)
  <2>1. PICK f \in Frames : PluginWrite(f)
    BY <1>2
  <2>2. fate # "ok"
    BY <2>1 DEF PluginWrite, HostInv, ControlInv
  <2> QED
    BY <2>1, <2>2 DEF PluginWrite, hostVars
<1>3. CASE Ensure
  <2>1. written' = written /\ handled' = handled /\ fate = "none" /\ pc = "ensure"
        /\ pc' = "done"
    BY <1>3 DEF Ensure, Supervising, HostInv, ControlInv
  <2>2. CASE fate' = "ok"
    BY <2>1, <2>2, <1>0, <1>1
  <2>3. CASE fate' # "ok"
    BY <2>1, <2>3
  <2> QED
    BY <2>2, <2>3
<1>4. CASE /\ UNCHANGED written
           /\ fate # "ok" /\ fate' # "ok"
           /\ pc = "done" => pc' = "done"
  BY <1>4
<1>5. CASE UNCHANGED <<written, fate, pc, handled>>
  BY <1>5
<1>6. CASE PluginRead \/ LeaderExit \/ (\E d \in Descendants : Fork(d) \/ DescendantExit(d))
           \/ Reader \/ Cancel \/ DeadlinePasses \/ UNCHANGED vars
  <2>1. UNCHANGED <<written, fate, pc, handled>>
    BY <1>6 DEF PluginRead, LeaderExit, Fork, DescendantExit, Reader, ReaderFrame, ReaderEof,
       Cancel, DeadlinePasses, hostVars, pluginVars, vars
  <2> QED
    BY <2>1, <1>5
<1>7. CASE Send \/ SendCancel \/ LoopTop \/ RecvTimeout \/ RecvEof \/ RecvDisconnected
  <2>1. UNCHANGED written /\ fate' # "ok" /\ pc # "done" /\ fate # "ok"
    BY <1>7, <1>0 DEF Send, SendCancel, LoopTop, RecvTimeout, RecvEof, RecvDisconnected, Idle,
       pluginVars
  <2> QED
    BY <2>1, <1>4
<1>8. CASE \E f \in Frames : FrameStep(f)
  <2>1. UNCHANGED written /\ fate' # "ok" /\ pc # "done" /\ fate # "ok"
    BY <1>8, <1>0, FrameStepShape DEF Receive, pluginVars
  <2> QED
    BY <2>1, <1>4
<1>9. CASE WaitExit \/ WaitExpires \/ Drop \/ TermExit \/ Kill \/ JoinReader
  <2>1. UNCHANGED written /\ fate' # "ok" /\ pc # "done" /\ fate # "ok"
    BY <1>9, <1>0 DEF WaitExit, WaitExpires, Drop, TermExit, Kill, JoinReader, TerminateTree,
       Supervising
  <2> QED
    BY <2>1, <1>4
<1> QED
  BY <1>2, <1>3, <1>6, <1>7, <1>8, <1>9
     DEF Next, Plugin, Host, Loop, Supervise, Finished, FrameStep

(* The caller gets every frame the plugin wrote, once, or nothing at all.   *)
THEOREM DeliversAllOrNothing == Spec => AllOrNothing
<1>1. HostInv /\ HostInv' /\ [Next]_vars => [Delivery!AbsNext]_(Delivery!absVars)
  BY DeliveryStep
<1> QED
  BY <1>1, DeliveryInit, HostInvariant, PTL DEF Spec, AllOrNothing, Delivery!AbsSpec
=============================================================================
