------------------------ MODULE PtpSlaveTimedProofs ------------------------
(***************************************************************************)
(* The timed slave: it refines the untimed one, and under a prompt network *)
(* the response timer covers the whole wait for the Delay_Resp.            *)
(***************************************************************************)
EXTENDS PtpSlaveTimed, PtpSlaveProofs

USE TimedAssumption
USE DEF envVars, handVars, dataVars

\* Time only removes behaviours: what is proved of PtpSlave holds here as well.
LEMMA UntimedStep == [TimedNext]_timedVars => [Next]_vars
  BY DEF TimedNext, TimedPtpTask, ArmTimer, DisarmTimer, FallAsleep, WakeUp, TimelessStep,
     TimedExpire, TimedNetwork, Tick, timedVars, Next, PtpTask, Network

THEOREM TimedImplementsUntimed == TimedSpec => Spec
  BY UntimedStep, PTL DEF TimedSpec, TimedInit, Spec

-----------------------------------------------------------------------------
TimeOK == left \in 0 .. RespTimeout /\ sleep \in 0 .. (MaxDelay - 1)

LEMMA TimeOKStep == TimeOK /\ [TimedNext]_timedVars => TimeOK'
<1> SUFFICES ASSUME TimeOK, [TimedNext]_timedVars PROVE TimeOK'
  OBVIOUS
<1> USE DEF TimeOK, timeVars
<1>1. CASE TimedPtpTask
  BY <1>1 DEF TimedPtpTask, ArmTimer, DisarmTimer, FallAsleep, WakeUp, TimelessStep
<1>2. CASE Tick
  BY <1>2 DEF Tick, OneLess
<1>3. CASE TimedExpire \/ TimedNetwork \/ UNCHANGED timeVars
  BY <1>3 DEF TimedExpire, TimedNetwork
<1>4. CASE Restart /\ left' = 0 /\ sleep' = 0
  BY <1>4
<1> QED BY <1>1, <1>2, <1>3, <1>4 DEF TimedNext, timedVars

\* The timed type invariant.
THEOREM TimedTypeCorrect == TimedSpec => []TimedTypeOK
<1>1. TimedInit => TimeOK
  BY DEF TimedInit, TimeOK
<1>2. TypeOK /\ TimeOK => TimedTypeOK
  BY DEF TimeOK, TimedTypeOK
<1> QED BY <1>1, <1>2, TimeOKStep, TimedImplementsUntimed, TypeCorrect, PTL DEF TimedSpec

-----------------------------------------------------------------------------
(***************************************************************************)
(* The wait for the Delay_Resp.                                            *)
(***************************************************************************)
TimedInv == TypeOK /\ TimeOK /\ CycleShape /\ TimedShape

\* A step of the PTP task that only moves on.
LEMMA TimelessShape ==
    ASSUME TimedInv, TimelessStep
    PROVE  TimedShape'
<1> USE DEF TimedInv, TimedShape, DelayRespWaitIsTimed, PromptFollowUp, AtHand, timeVars,
        Goto, machineVars, timerVars
<1>0. left' = left /\ sleep' = sleep
  BY DEF TimelessStep
<1>1. CASE Receive
  <2>1. Head(fifo) \in Range(fifo) /\ Range(fifo') \subseteq Range(fifo)
    BY <1>1, QueueElements DEF Receive, TypeOK, PacketsOK
  <2>2. AtHand' \subseteq AtHand
    BY <1>1, <2>1 DEF Receive
  <2> QED BY <1>0, <1>1, <2>2 DEF Receive
<1>2. CASE DispatchSync \/ DispatchOther
  BY <1>0, <1>2 DEF DispatchSync, DispatchOther, TakesDelayResp, TakesSync
<1>3. CASE EnterWaitFollowUp \/ PrepareReq \/ SendReq \/ EnterWaitDelayResp
  BY <1>0, <1>3 DEF EnterWaitFollowUp, PrepareReq, SendReq, EnterWaitDelayResp
<1>4. CASE AcceptResp \/ RejectResp
  BY <1>0, <1>4 DEF AcceptResp, RejectResp, CycleShape
<1>5. CASE JumpClock \/ RunServo \/ StoreError \/ SetAddend \/ EnterIdle
  BY <1>0, <1>5 DEF JumpClock, RunServo, StoreError, SetAddend, EnterIdle
<1>6. CASE Free
  <2>1. NoPacket.type # "Follow_Up"
    BY DEF NoPacket
  <2> QED BY <1>0, <1>6, <2>1 DEF Free
<1> QED BY <1>1, <1>2, <1>3, <1>4, <1>5, <1>6 DEF TimelessStep

LEMMA PtpTaskShape ==
    ASSUME FollowUpBound + MaxDelay <= RespTimeout, TimedInv, TimedPtpTask
    PROVE  TimedShape'
<1> USE DEF TimedInv, TimedShape, DelayRespWaitIsTimed, PromptFollowUp, AtHand, timeVars,
        Goto, machineVars, timerVars
<1>1. CASE TimelessStep
  BY <1>1, TimelessShape
<1>2. CASE ArmTimer
  BY <1>2 DEF ArmTimer, StartTimer
<1>3. CASE DisarmTimer
  BY <1>3 DEF DisarmTimer, StopTimer, CycleShape
<1>4. CASE FallAsleep
  <2>1. RespTimeout - left <= FollowUpBound /\ timerActive
    BY <1>4 DEF FallAsleep, DispatchFollowUp, TakesFollowUp, CycleShape, FollowUpWaitIsTimed
  <2>2. /\ timerActive' = timerActive /\ left' = left /\ state' = "SWaitFollowUp"
        /\ pc' = "Delay" /\ sleep' \in 0 .. (MaxDelay - 1)
    BY <1>4 DEF FallAsleep, DispatchFollowUp, TakesFollowUp
  <2>3. left' > sleep'
    BY <2>1, <2>2 DEF TimeOK
  <2> QED BY <2>1, <2>2, <2>3
<1>5. CASE WakeUp
  BY <1>5 DEF WakeUp, Wake, TimeOK
<1> QED BY <1>1, <1>2, <1>3, <1>4, <1>5 DEF TimedPtpTask

LEMMA NetworkShape ==
    ASSUME TimedInv, TimedNetwork
    PROVE  TimedShape'
<1> USE DEF TimedInv, TimedShape, DelayRespWaitIsTimed, timeVars, timerVars, taskVars
<1>1. /\ left' = left /\ sleep' = sleep /\ timerActive' = timerActive
      /\ pc' = pc /\ pPBuf' = pPBuf /\ state' = state
  BY DEF TimedNetwork, Deliver, DeliverCopy, DeliverForeign, RecvCbBlocks, MasterSync, Transmit,
     machineVars
<1>2. ASSUME NEW m \in AtHand', m.type = "Follow_Up", state = "SWaitFollowUp",
             pc \in {"Receive", "Dispatch", "Free"}
      PROVE  RespTimeout - left <= FollowUpBound
  <2>1. CASE m \in AtHand
    BY <1>2, <2>1 DEF PromptFollowUp
  <2>2. ASSUME NEW p \in net, Prompt(p), Deliver(p) \/ DeliverCopy(p)
        PROVE  m \in AtHand \/ RespTimeout - left <= FollowUpBound
    <3>1. Range(fifo') = Range(fifo) \cup {p}
      BY <2>2, QueueElements DEF Deliver, DeliverCopy, RecvCb, TypeOK, PacketsOK
    <3>2. timerActive
      BY <1>2 DEF CycleShape, FollowUpWaitIsTimed
    <3> QED BY <1>1, <1>2, <2>2, <3>1, <3>2 DEF Prompt, AtHand
  <2>3. ASSUME NEW s \in SeqId, DeliverForeign(s)
        PROVE  m \in AtHand
    <3>1. Range(fifo') = Range(fifo) \cup {ForeignResp(s)}
      BY <2>3, QueueElements, NewMessages DEF DeliverForeign, RecvCb, TypeOK, PacketsOK
    <3> QED BY <1>1, <1>2, <3>1 DEF AtHand, ForeignResp
  <2>4. CASE RecvCbBlocks \/ MasterSync \/ \E r \in txPending : Transmit(r)
    <3>1. m \in AtHand
      BY <1>1, <1>2, <2>4 DEF RecvCbBlocks, MasterSync, Transmit, AtHand
    <3> QED BY <2>1, <3>1
  <2> QED BY <2>1, <2>2, <2>3, <2>4 DEF TimedNetwork
<1> QED BY <1>1, <1>2 DEF PromptFollowUp

LEMMA TimedShapeStep ==
    ASSUME FollowUpBound + MaxDelay <= RespTimeout, TimedInv, [TimedNext]_timedVars
    PROVE  TimedShape'
<1> USE DEF TimedInv, TimedShape, DelayRespWaitIsTimed, PromptFollowUp, AtHand, timeVars
<1>1. CASE TimedPtpTask
  BY <1>1, PtpTaskShape
<1>2. CASE TimedNetwork
  BY <1>2, NetworkShape
<1>3. CASE TimedExpire
  BY <1>3 DEF TimedExpire, TimerExpire, ptp_reset_state, taskVars, TimeOK
<1>4. CASE Tick
  <2>1. /\ pc' = pc /\ pPBuf' = pPBuf /\ fifo' = fifo /\ state' = state
        /\ timerActive' = timerActive
    BY <1>4 DEF Tick, vars, machineVars, timerVars
  <2>2. CASE pc = "Receive" /\ fifo = <<>>
    <3>1. \A m \in AtHand : m.type # "Follow_Up"
      BY <2>2 DEF NoPacket, Range
    <3> QED BY <2>1, <2>2, <3>1
  <2>3. CASE pc = "Delay" /\ sleep > 0
    BY <1>4, <2>1, <2>3 DEF Tick, OneLess, TimeOK
  <2> QED BY <1>4, <2>2, <2>3 DEF Tick, Blocked
<1>5. CASE (StaleExpire \/ CliReset) /\ UNCHANGED timeVars
  BY <1>5 DEF StaleExpire, ptp_reset_state, CliReset, ResetState, ResetSeq, ResetAddend,
     ResetServo, machineVars, timerVars, taskVars
<1>6. CASE UNCHANGED timedVars
  BY <1>6 DEF timedVars, vars, machineVars, timerVars
<1>7. CASE Restart
  BY <1>7, RestartFrame DEF Restart
<1> QED BY <1>1, <1>2, <1>3, <1>4, <1>5, <1>6, <1>7 DEF TimedNext

\* As long as Follow_Ups are prompt, each that is under way still finds its timer running,
\* and so does the wait for the Delay_Resp after it: the inductive invariant of the wait.
THEOREM PromptWaits ==
    ASSUME FollowUpBound + MaxDelay <= RespTimeout
    PROVE  TimedSpec => []TimedShape
<1>1. TimedInit => TimeOK /\ TimedShape /\ CycleShape
  BY DEF TimedInit, Init, TimeOK, TimedShape, PromptFollowUp, DelayRespWaitIsTimed,
     CycleShape, FollowUpWaitIsTimed
<1>2. TypeOK /\ TimeOK /\ CycleShape /\ TimedShape /\ [TimedNext]_timedVars => TimedShape'
  BY TimedShapeStep DEF TimedInv
<1>3. TypeOK /\ CycleShape /\ [TimedNext]_timedVars => CycleShape'
  BY CycleShapeStep, UntimedStep
<1> QED BY <1>1, <1>2, <1>3, TimeOKStep, TimedImplementsUntimed, TypeCorrect, PTL
        DEF TimedSpec

\* If a Follow_Up is delivered so early that the longest sleep still ends before the
\* response timer, the slave waits for a Delay_Resp only under a running timer.
THEOREM DelayRespWaitTimed ==
    ASSUME FollowUpBound + MaxDelay <= RespTimeout
    PROVE  TimedSpec => []DelayRespWaitIsTimed
<1>1. TimedShape => DelayRespWaitIsTimed
  BY DEF TimedShape
<1> QED BY <1>1, PromptWaits, PTL
=============================================================================
