------------------------ MODULE PtpSlaveClockProofs ------------------------
(***************************************************************************)
(* A Sync survives one jump of the clock at most: proved for every length  *)
(* of the FIFO, every number of identifiers and any number of messages,    *)
(* resets and sessions.                                                    *)
(***************************************************************************)
EXTENDS PtpSlaveClock, PtpSlaveProofs, SequenceTheorems

USE ConstantsAssumption
USE DEF ageVars, envVars, handVars, dataVars, Goto

-----------------------------------------------------------------------------
(***************************************************************************)
(* The ages only watch.                                                    *)
(***************************************************************************)
LEMMA ClockStepIsStep == [ClockNext]_clockVars => [Next]_vars
BY DEF ClockNext, Stamp, TakeStamp, SaveStamp, Jump, LoseStamps, StamplessStep, clockVars,
   Next, PtpTask, Network

\* What is proved of PtpSlave holds with the ages of its stamps.
THEOREM ClockImplementsSlave == ClockSpec => Spec
BY ClockStepIsStep, PTL DEF ClockSpec, ClockInit, Spec

-----------------------------------------------------------------------------
(***************************************************************************)
(* Frames.                                                                 *)
(***************************************************************************)
\* A request is asked for by its preparation only, ...
LEMMA AskedKept ==
    ASSUME TypeOK, CycleShape, [Next]_vars, ~PrepareReq, Asked'
    PROVE  Asked
<1> USE DEF Asked, machineVars, TypeOK, DataOK
<1>1. CASE PtpTask
  BY <1>1 DEF PtpTask, Receive, DispatchSync, DispatchFollowUp, DispatchOther,
     TakesDelayResp, EnterWaitFollowUp, StartTimer, Wake, SendReq,
     EnterWaitDelayResp, AcceptResp, RejectResp, JumpClock, RunServo, StoreError,
     SetAddend, EnterIdle, StopTimer, Free, CycleShape
<1>2. CASE TimerExpire \/ StaleExpire
  BY <1>2 DEF TimerExpire, StaleExpire, ptp_reset_state
<1>3. CASE CliReset
  BY <1>3 DEF CliReset, ResetState, ResetSeq, ResetAddend, ResetServo
<1>4. CASE Restart
  BY <1>4 DEF Restart, ptp_init
<1>5. CASE Network
  BY <1>5 DEF Network, Deliver, DeliverCopy, DeliverForeign, RecvCbBlocks, MasterSync, Transmit,
     ReqBuf, taskVars
<1>6. CASE UNCHANGED vars
  BY <1>6 DEF vars
<1> QED BY <1>1, <1>2, <1>3, <1>4, <1>5, <1>6 DEF Next

\* ... and the pbuf of that request is held until the next.
LEMMA AskedSame ==
    ASSUME TypeOK, [Next]_vars, ~PrepareReq, Asked'
    PROVE  spDelayReqPBuf'.req = spDelayReqPBuf.req
<1>1. ~Restart
  BY RestartFrame DEF Asked
<1>2. CASE SendReq \/ ResetSeq
  BY <1>2 DEF SendReq, ResetSeq
<1>3. CASE \E r \in txPending : Transmit(r)
  BY <1>3, TransmitFrame
<1>4. CASE ~SendReq /\ ~ResetSeq /\ \A r \in txPending : ~Transmit(r)
  BY <1>1, <1>4, NumberingFrame
<1> QED BY <1>2, <1>3, <1>4

\* A Sync gets into t2 only when it is taken.
LEMMA InCycleKept ==
    ASSUME TypeOK, CycleShape, [Next]_vars, ~DispatchSync, InCycle'
    PROVE  InCycle
<1> USE DEF InCycle, Asked, machineVars, TypeOK, DataOK
<1>1. CASE PtpTask
  BY <1>1 DEF PtpTask, Receive, DispatchFollowUp, DispatchOther, TakesFollowUp,
     TakesDelayResp, EnterWaitFollowUp, StartTimer, Wake, PrepareReq, SendReq,
     EnterWaitDelayResp, AcceptResp, RejectResp, JumpClock, RunServo, StoreError,
     SetAddend, EnterIdle, StopTimer, Free, CycleShape
<1>2. CASE TimerExpire \/ StaleExpire
  BY <1>2 DEF TimerExpire, StaleExpire, ptp_reset_state
<1>3. CASE CliReset
  BY <1>3 DEF CliReset, ResetState, ResetSeq, ResetAddend, ResetServo
<1>4. CASE Restart
  BY <1>4 DEF Restart, ptp_init
<1>5. CASE Network
  BY <1>5 DEF Network, Deliver, DeliverCopy, DeliverForeign, RecvCbBlocks, MasterSync, Transmit, taskVars
<1>6. CASE UNCHANGED vars
  BY <1>6 DEF vars
<1> QED BY <1>1, <1>2, <1>3, <1>4, <1>5, <1>6 DEF Next

\* The other steps leave the FIFO alone, and at most put the packet away.
LEMMA StamplessFrame ==
    ASSUME StamplessStep
    PROVE  /\ fifo' = fifo /\ (pPBuf' = pPBuf \/ pPBuf' = NoPacket)
           /\ ~DispatchSync
<1>1. CASE DispatchFollowUp \/ DispatchOther
  BY <1>1 DEF DispatchFollowUp, DispatchOther, DispatchSync, TakesSync, TakesFollowUp
<1>2. CASE \/ EnterWaitFollowUp \/ StartTimer \/ Wake \/ PrepareReq \/ SendReq
           \/ EnterWaitDelayResp \/ AcceptResp \/ RejectResp \/ RunServo
           \/ StoreError \/ SetAddend \/ EnterIdle \/ StopTimer \/ Free
  BY <1>2 DEF DispatchSync, EnterWaitFollowUp, StartTimer, Wake, PrepareReq, SendReq,
     EnterWaitDelayResp, AcceptResp, RejectResp, RunServo, StoreError, SetAddend,
     EnterIdle, StopTimer, Free
<1>3. CASE TimerExpire \/ StaleExpire \/ CliReset
  BY <1>3 DEF TimerExpire, StaleExpire, CliReset, ResetState, ResetSeq, ResetAddend,
     ResetServo, DispatchSync, taskVars
<1>4. CASE RecvCbBlocks \/ MasterSync \/ \E r \in txPending : Transmit(r)
  BY <1>4 DEF RecvCbBlocks, MasterSync, Transmit, DispatchSync
<1> QED BY <1>1, <1>2, <1>3, <1>4 DEF StamplessStep

\* A packet that arrives is stamped at the end of the FIFO.
LEMMA StampFrame ==
    ASSUME TypeOK, AgesOK, Stamp
    PROVE  /\ \E m \in Message : fifo' = Append(fifo, m)
           /\ fifoAge' = Append(fifoAge, 0)
           /\ pPBuf' = pPBuf /\ pc' = pc /\ state' = state
           /\ spDelayReqPBuf' = spDelayReqPBuf /\ syncData' = syncData
           /\ handAge' = handAge /\ t2Age' = t2Age /\ mixed' = mixed
<1>1. \E m \in Message : RecvCb(m)
  BY NewMessages DEF Stamp, Deliver, DeliverCopy, DeliverForeign, TypeOK, PacketsOK
<1>2. \E m \in Message : fifo' = Append(fifo, m)
  BY <1>1 DEF RecvCb
<1>3. /\ UNCHANGED <<pPBuf, pc, state>>
      /\ UNCHANGED <<spDelayReqPBuf, syncData>>
  BY DEF Stamp, Deliver, DeliverCopy, DeliverForeign, machineVars, taskVars
<1> QED BY <1>2, <1>3 DEF Stamp

\* What is at the place k of a FIFO with a new packet.
LEMMA AppendPlace ==
    ASSUME NEW S, NEW q \in Seq(S), NEW e \in S, NEW k \in DOMAIN Append(q, e)
    PROVE  \/ k \in DOMAIN q /\ Append(q, e)[k] = q[k]
           \/ k = Len(q) + 1 /\ Append(q, e)[k] = e
<1>1. DOMAIN Append(q, e) = 1 .. (Len(q) + 1) /\ DOMAIN q = 1 .. Len(q)
  BY AppendProperties, LenProperties
<1> QED BY <1>1, AppendProperties, LenProperties

\* What is at the place k of a FIFO that a packet has been taken from.
LEMMA TailPlace ==
    ASSUME NEW S, NEW q \in Seq(S), q # <<>>
    PROVE  /\ Head(q) = q[1] /\ 1 \in DOMAIN q
           /\ Tail(q) \in Seq(S) /\ Len(Tail(q)) = Len(q) - 1
           /\ \A k \in DOMAIN Tail(q) : k + 1 \in DOMAIN q /\ Tail(q)[k] = q[k + 1]
BY HeadTailProperties, LenProperties

\* Ages are counted up, and stay in order.
LEMMA OlderAges ==
    /\ \A a \in 0 .. 2 : Older(a) \in 0 .. 2
    /\ \A a, b \in 0 .. 2 : a >= b => Older(a) >= Older(b)
    /\ Older(0) = 1
BY DEF Older

-----------------------------------------------------------------------------
(***************************************************************************)
(* The steps.                                                              *)
(***************************************************************************)
LEMMA AgesOKStep == TypeOK /\ AgesOK /\ [ClockNext]_clockVars => AgesOK'
<1> SUFFICES ASSUME TypeOK, AgesOK, [ClockNext]_clockVars PROVE AgesOK'
  OBVIOUS
<1>1. CASE Stamp
  <2>1. PICK m \in Message : fifo' = Append(fifo, m)
    BY <1>1, StampFrame
  <2>2. /\ fifoAge \in Seq(0 .. 2) /\ fifo \in Seq(Message) /\ 0 \in 0 .. 2
        /\ Len(fifoAge) = Len(fifo)
    BY DEF AgesOK, TypeOK, PacketsOK
  <2>3. fifoAge' \in Seq(0 .. 2) /\ Len(fifoAge') = Len(fifo')
    BY <1>1, <2>1, <2>2, StampFrame, AppendProperties
  <2> QED BY <1>1, <2>3, StampFrame DEF AgesOK
<1>2. CASE TakeStamp
  <2>1. fifo # <<>> /\ fifo' = Tail(fifo) /\ fifoAge' = Tail(fifoAge)
    BY <1>2 DEF TakeStamp, Receive
  <2>2. /\ fifoAge \in Seq(0 .. 2) /\ fifo \in Seq(Message)
        /\ Len(fifoAge) = Len(fifo) /\ fifoAge # <<>>
    BY <2>1 DEF AgesOK, TypeOK, PacketsOK
  <2>3. /\ fifoAge' \in Seq(0 .. 2) /\ Len(fifoAge') = Len(fifo')
        /\ Head(fifoAge) \in 0 .. 2
    BY <2>1, <2>2, HeadTailProperties
  <2> QED BY <1>2, <2>3 DEF AgesOK, TakeStamp
<1>3. CASE SaveStamp
  BY <1>3 DEF SaveStamp, DispatchSync, AgesOK
<1>4. CASE Jump
  <2>1. DOMAIN fifoAge = 1 .. Len(fifoAge) /\ fifo' = fifo
    BY <1>4 DEF Jump, JumpClock, AgesOK
  <2>2. \A i \in DOMAIN fifoAge : Older(fifoAge[i]) \in 0 .. 2
    BY OlderAges DEF AgesOK
  <2>3. fifoAge' \in Seq(0 .. 2) /\ Len(fifoAge') = Len(fifoAge)
    BY <1>4, <2>1, <2>2 DEF Jump, AgesOK
  <2>4. mixed' \in BOOLEAN
    BY <1>4 DEF Jump
  <2> QED BY <1>4, <2>1, <2>3, <2>4, OlderAges DEF Jump, AgesOK
<1>5. CASE LoseStamps
  BY <1>5 DEF LoseStamps, Restart, AgesOK
<1>6. CASE StamplessStep
  BY <1>6, StamplessFrame DEF StamplessStep, AgesOK
<1>7. CASE UNCHANGED clockVars
  BY <1>7 DEF clockVars, vars, AgesOK
<1> QED BY <1>1, <1>2, <1>3, <1>4, <1>5, <1>6, <1>7 DEF ClockNext

LEMMA AgesOrderedStep ==
    TypeOK /\ AgesOK /\ AgesOrdered /\ [ClockNext]_clockVars => AgesOrdered'
<1> SUFFICES ASSUME TypeOK, AgesOK, AgesOrdered, [ClockNext]_clockVars,
                    NEW j \in DOMAIN fifoAge', NEW k \in DOMAIN fifoAge', j <= k
             PROVE  fifoAge'[j] >= fifoAge'[k]
  BY DEF AgesOrdered
<1> USE DEF AgesOrdered
<1>0. /\ fifoAge \in Seq(0 .. 2) /\ DOMAIN fifoAge = 1 .. Len(fifoAge) /\ 0 \in 0 .. 2
      /\ \A i \in DOMAIN fifoAge : fifoAge[i] \in 0 .. 2
  BY DEF AgesOK
<1>1. CASE Stamp
  <2>1. fifoAge' = Append(fifoAge, 0)
    BY <1>1 DEF Stamp
  <2>2. \A i \in DOMAIN fifoAge' : \/ i \in DOMAIN fifoAge /\ fifoAge'[i] = fifoAge[i]
                                   \/ i = Len(fifoAge) + 1 /\ fifoAge'[i] = 0
    BY <1>0, <2>1, AppendPlace
  <2> QED BY <1>0, <2>2
<1>2. CASE TakeStamp
  <2>1. fifoAge # <<>> /\ fifoAge' = Tail(fifoAge)
    BY <1>2 DEF TakeStamp, Receive, AgesOK, TypeOK, PacketsOK
  <2>2. \A i \in DOMAIN fifoAge' : i + 1 \in DOMAIN fifoAge /\ fifoAge'[i] = fifoAge[i + 1]
    BY <1>0, <2>1, TailPlace
  <2>3. j \in Int /\ k \in Int
    BY <1>0, <2>1, HeadTailProperties
  <2> QED BY <2>2, <2>3
<1>3. CASE Jump
  BY <1>0, <1>3, OlderAges DEF Jump
<1>4. CASE LoseStamps
  BY <1>4 DEF LoseStamps
<1>5. CASE SaveStamp \/ StamplessStep \/ UNCHANGED clockVars
  BY <1>5 DEF SaveStamp, StamplessStep, clockVars
<1> QED BY <1>1, <1>2, <1>3, <1>4, <1>5 DEF ClockNext

\* No answer has come to a request that is only being prepared.
LEMMA NotAnsweredYet ==
    ASSUME TypeOK, ExchangeShape, PrepareReq, NEW m \in Packets
    PROVE  ~(AnswersUs(m) /\ m.of = spDelayReqPBuf'.req)
<1>1. spDelayReqPBuf'.req = reqNo + 1 /\ reqNo \in Nat
  BY DEF PrepareReq, TypeOK, DataOK
<1>2. AnswersUs(m) => m.of \in 1 .. reqNo
  BY DEF ExchangeShape, Numbered
<1> QED BY <1>1, <1>2

LEMMA AnswersFreshStep ==
    /\ TypeOK /\ CycleShape /\ ExchangeShape /\ AgesOK /\ AgesOrdered /\ AnswersFresh
    /\ [ClockNext]_clockVars
    => AnswersFresh'
<1> SUFFICES ASSUME TypeOK, CycleShape, ExchangeShape, AgesOK, AgesOrdered, AnswersFresh,
                    [ClockNext]_clockVars, Asked'
             PROVE  /\ \A k \in DOMAIN fifo' : AnswersLast(fifo[k])' => fifoAge'[k] = 0
                    /\ AnswersLast(pPBuf)' => \A k \in DOMAIN fifoAge' : fifoAge'[k] = 0
  BY DEF AnswersFresh
<1> DEFINE Answers(m) == AnswersUs(m) /\ m.of = spDelayReqPBuf'.req
<1>0. /\ fifoAge \in Seq(0 .. 2) /\ DOMAIN fifoAge = 1 .. Len(fifoAge)
      /\ \A i \in DOMAIN fifoAge : fifoAge[i] \in 0 .. 2
      /\ fifo \in Seq(Message) /\ DOMAIN fifo = DOMAIN fifoAge
      /\ 0 \in 0 .. 2 /\ Len(fifo) = Len(fifoAge)
  BY DEF AgesOK, TypeOK, PacketsOK
<1>1. CASE PrepareReq
  <2>1. fifo' = fifo /\ pPBuf' = pPBuf
    BY <1>1 DEF PrepareReq
  <2>2. /\ pPBuf \in Packets
        /\ \A k \in DOMAIN fifo : fifo[k] \in Packets
    BY DEF Packets, Range
  <2> QED BY <1>1, <2>1, <2>2, NotAnsweredYet DEF AnswersLast, AnswersUs
<1>2. CASE ~PrepareReq
  <2>1. Asked /\ spDelayReqPBuf'.req = spDelayReqPBuf.req
    BY <1>2, ClockStepIsStep, AskedKept, AskedSame
  <2>2. /\ \A k \in DOMAIN fifo : Answers(fifo[k]) => fifoAge[k] = 0
        /\ Answers(pPBuf) => \A k \in DOMAIN fifoAge : fifoAge[k] = 0
    BY <2>1 DEF AnswersFresh, AnswersLast
  <2>3. SUFFICES /\ \A k \in DOMAIN fifo' : Answers(fifo'[k]) => fifoAge'[k] = 0
                 /\ Answers(pPBuf') => \A k \in DOMAIN fifoAge' : fifoAge'[k] = 0
    BY DEF AnswersLast, AnswersUs
  <2> HIDE DEF Answers
  <2>4. CASE Stamp
    <3>1. PICK m \in Message : fifo' = Append(fifo, m)
      BY <2>4, StampFrame
    <3>2. fifoAge' = Append(fifoAge, 0) /\ pPBuf' = pPBuf
      BY <2>4, StampFrame
    <3>3. \A i \in DOMAIN fifoAge' : \/ i \in DOMAIN fifoAge /\ fifoAge'[i] = fifoAge[i]
                                     \/ i = Len(fifoAge) + 1 /\ fifoAge'[i] = 0
      BY <1>0, <3>2, AppendPlace
    <3>4. \A i \in DOMAIN fifo' : \/ i \in DOMAIN fifo /\ fifo'[i] = fifo[i]
                                  \/ i = Len(fifo) + 1 /\ fifo'[i] = m
      BY <1>0, <3>1, AppendPlace
    <3>5. DOMAIN fifo' = DOMAIN fifoAge'
      BY <1>0, <3>1, <3>2, AppendProperties
    <3> QED BY <1>0, <2>2, <3>2, <3>3, <3>4, <3>5
  <2>5. CASE TakeStamp
    <3>1. /\ fifo # <<>> /\ fifo' = Tail(fifo) /\ pPBuf' = Head(fifo)
          /\ fifoAge # <<>> /\ fifoAge' = Tail(fifoAge)
      BY <2>5, <1>0 DEF TakeStamp, Receive
    <3>2. /\ Head(fifo) = fifo[1] /\ 1 \in DOMAIN fifo
          /\ \A i \in DOMAIN fifo' : i + 1 \in DOMAIN fifo /\ fifo'[i] = fifo[i + 1]
      BY <1>0, <3>1, TailPlace
    <3>3. \A i \in DOMAIN fifoAge' :
             i + 1 \in DOMAIN fifoAge /\ fifoAge'[i] = fifoAge[i + 1]
      BY <1>0, <3>1, TailPlace
    <3>4. DOMAIN fifo' = DOMAIN fifoAge'
      BY <1>0, <3>1, HeadTailProperties
    <3>5. fifoAge[1] = 0 => \A k \in DOMAIN fifoAge : fifoAge[k] = 0
      BY <1>0 DEF AgesOrdered
    <3> QED BY <1>0, <2>2, <3>1, <3>2, <3>3, <3>4, <3>5
  <2>6. CASE SaveStamp \/ Jump \/ LoseStamps
    BY <2>6 DEF SaveStamp, DispatchSync, TakesSync, Jump, JumpClock, LoseStamps, Restart,
       ptp_init, Asked
  <2>7. CASE StamplessStep
    <3>1. ~Answers(NoPacket)
      BY DEF Answers, AnswersUs, NoPacket
    <3>2. fifoAge' = fifoAge
      BY <2>7 DEF StamplessStep
    <3> QED BY <2>2, <2>7, <3>1, <3>2, StamplessFrame
  <2>8. CASE UNCHANGED clockVars
    BY <2>2, <2>8 DEF clockVars, vars
  <2> QED BY <2>4, <2>5, <2>6, <2>7, <2>8 DEF ClockNext
<1> QED BY <1>1, <1>2

\* While a correction is about to begin only the timers and the CLI task reach the
\* machine, and they idle it.
LEMMA CorrectKept ==
    ASSUME TypeOK, [Next]_vars, ~AcceptResp, pc' = "Correct"
    PROVE  /\ pc = "Correct" /\ pPBuf' = pPBuf /\ syncData' = syncData
           /\ state' = state \/ state' = "SIdle"
<1> USE DEF machineVars, taskVars
<1>1. CASE PtpTask
  BY <1>1 DEF PtpTask, Receive, DispatchSync, DispatchFollowUp, DispatchOther,
     EnterWaitFollowUp, StartTimer, Wake, PrepareReq, SendReq, EnterWaitDelayResp,
     RejectResp, JumpClock, RunServo, StoreError, SetAddend, EnterIdle, StopTimer, Free
<1>2. CASE TimerExpire \/ StaleExpire
  BY <1>2 DEF TimerExpire, StaleExpire, ptp_reset_state
<1>3. CASE CliReset
  BY <1>3 DEF CliReset, ResetState, ResetSeq, ResetAddend, ResetServo
<1>4. CASE Restart
  BY <1>4 DEF Restart
<1>5. CASE Network
  BY <1>5 DEF Network, Deliver, DeliverCopy, DeliverForeign, RecvCbBlocks, MasterSync, Transmit
<1>6. CASE UNCHANGED vars
  BY <1>6 DEF vars
<1> QED BY <1>1, <1>2, <1>3, <1>4, <1>5, <1>6 DEF Next

LEMMA CorrectsInHandStep ==
    TypeOK /\ CycleShape /\ ExchangeShape /\ CorrectsInHand /\ [Next]_vars
    => CorrectsInHand'
<1> SUFFICES ASSUME TypeOK, CycleShape, ExchangeShape, CorrectsInHand, [Next]_vars,
                    pc' = "Correct"
             PROVE  /\ AnswersUs(pPBuf)' /\ syncData'.t4 = pPBuf'.of
                    /\ syncData'.t3.req = spDelayReqPBuf'.req
                    /\ state' # "SWaitFollowUp"
  BY DEF CorrectsInHand
<1>1. CASE AcceptResp
  <2>1. /\ pc = "CheckResp" /\ pPBuf.mine /\ pPBuf' = pPBuf
        /\ state' = state /\ spDelayReqPBuf' = spDelayReqPBuf
        /\ syncData'.t4 = pPBuf.of /\ syncData'.t3 = spDelayReqPBuf
    BY <1>1 DEF AcceptResp, IsOurResponse, TypeOK, DataOK
  <2>2. pPBuf.type = "Delay_Resp" /\ state # "SWaitFollowUp"
    BY <2>1 DEF ExchangeShape, CycleShape
  <2> QED BY <2>1, <2>2 DEF AnswersUs
<1>2. CASE ~AcceptResp
  <2>1. /\ pc = "Correct" /\ pPBuf' = pPBuf /\ syncData' = syncData
        /\ state' = state \/ state' = "SIdle"
    BY <1>2, CorrectKept
  <2>2. Asked' /\ ~PrepareReq
    BY DEF Asked, PrepareReq
  <2>3. spDelayReqPBuf'.req = spDelayReqPBuf.req
    BY <2>2, AskedSame
  <2> QED BY <2>1, <2>3 DEF CorrectsInHand, AnswersUs
<1> QED BY <1>1, <1>2

LEMMA AgesBoundedStep ==
    /\ TypeOK /\ CycleShape /\ AgesOK /\ AnswersFresh /\ CorrectsInHand /\ AgesBounded
    /\ [ClockNext]_clockVars
    => AgesBounded'
<1> SUFFICES ASSUME TypeOK, CycleShape, AgesOK, AnswersFresh, CorrectsInHand, AgesBounded,
                    [ClockNext]_clockVars, ~mixed'
             PROVE  /\ \A k \in DOMAIN fifoAge' : fifoAge'[k] <= 1
                    /\ handAge' <= 1
                    /\ InCycle' => t2Age' <= 1
  BY DEF AgesBounded
<1>0. /\ fifoAge \in Seq(0 .. 2) /\ 0 \in 0 .. 2
      /\ \A i \in DOMAIN fifoAge : fifoAge[i] \in 0 .. 2
  BY DEF AgesOK
<1>1. ~DispatchSync /\ InCycle' => InCycle
  BY ClockStepIsStep, InCycleKept
<1>2. CASE Stamp
  <2>1. /\ fifoAge' = Append(fifoAge, 0)
        /\ UNCHANGED <<handAge, t2Age, mixed, pc, state>>
    BY <1>2, StampFrame
  <2>2. \A i \in DOMAIN fifoAge' : \/ i \in DOMAIN fifoAge /\ fifoAge'[i] = fifoAge[i]
                                   \/ i = Len(fifoAge) + 1 /\ fifoAge'[i] = 0
    BY <1>0, <2>1, AppendPlace
  <2>3. InCycle' => InCycle
    BY <2>1 DEF InCycle, Asked
  <2> QED BY <2>1, <2>2, <2>3 DEF AgesBounded
<1>3. CASE TakeStamp
  <2>1. /\ fifoAge # <<>> /\ fifoAge' = Tail(fifoAge) /\ UNCHANGED <<t2Age, mixed>>
        /\ handAge' = Head(fifoAge) \/ handAge' = 0
        /\ ~DispatchSync
    BY <1>3 DEF TakeStamp, Receive, DispatchSync, AgesOK, TypeOK, PacketsOK
  <2>2. /\ Head(fifoAge) = fifoAge[1] /\ 1 \in DOMAIN fifoAge
        /\ \A i \in DOMAIN fifoAge' :
              i + 1 \in DOMAIN fifoAge /\ fifoAge'[i] = fifoAge[i + 1]
    BY <1>0, <2>1, TailPlace
  <2> QED BY <1>1, <2>1, <2>2 DEF AgesBounded
<1>4. CASE SaveStamp
  BY <1>4 DEF SaveStamp, AgesBounded
<1>5. CASE Jump
  <2>1. ~mixed /\ syncData.t4 = syncData.t3.req /\ pc = "Correct"
    BY <1>5 DEF Jump, JumpClock, AgesOK
  <2>2. AnswersLast(pPBuf) /\ state # "SWaitFollowUp" /\ Asked
    BY <2>1 DEF CorrectsInHand, AnswersLast, Asked
  <2>3. \A k \in DOMAIN fifoAge : fifoAge[k] = 0
    BY <2>2 DEF AnswersFresh
  <2>4. \A k \in DOMAIN fifoAge' : fifoAge'[k] = 1
    BY <1>5, <2>3, OlderAges DEF Jump
  <2>5. ~InCycle'
    BY <1>5, <2>2 DEF Jump, JumpClock, machineVars, InCycle, Asked
  <2> QED BY <1>5, <2>1, <2>4, <2>5 DEF Jump, AgesBounded
<1>6. CASE LoseStamps
  BY <1>6 DEF LoseStamps, Restart, ptp_init, InCycle, Asked
<1>7. CASE StamplessStep
  BY <1>1, <1>7, StamplessFrame DEF StamplessStep, AgesBounded
<1>8. CASE UNCHANGED clockVars
  <2>1. InCycle' => InCycle
    BY <1>8 DEF clockVars, vars, machineVars, InCycle, Asked
  <2> QED BY <1>8, <2>1 DEF clockVars, AgesBounded
<1> QED BY <1>2, <1>3, <1>4, <1>5, <1>6, <1>7, <1>8 DEF ClockNext

-----------------------------------------------------------------------------
(***************************************************************************)
(* The theorems.                                                           *)
(***************************************************************************)
\* The stamps that wait are as many as the packets and in their order, the answer a
\* cycle waits for is newer than the last jump, and nothing still to be used is older
\* than the jump before it.
THEOREM AgesInvariant == ClockSpec => []ClockInv
<1> USE DEF ClockInv
<1>1. ClockInit => ClockInv
  <2>1. ClockInit => AgesOK /\ AgesOrdered
    <3> SUFFICES ASSUME ClockInit PROVE AgesOK /\ AgesOrdered
      OBVIOUS
    <3>1. fifoAge = <<>> /\ fifo = <<>> /\ handAge = 0 /\ t2Age = 0
      BY DEF ClockInit, Init
    <3>2. fifoAge \in Seq(0 .. 2) /\ Len(fifoAge) = Len(fifo) /\ DOMAIN fifoAge = {}
      BY <3>1
    <3>3. mixed \in BOOLEAN
      BY DEF ClockInit
    <3> QED BY <3>1, <3>2, <3>3 DEF AgesOK, AgesOrdered
  <2>2. ClockInit => AnswersFresh /\ CorrectsInHand
    BY DEF ClockInit, Init, Asked, AnswersFresh, CorrectsInHand
  <2>3. ClockInit => AgesBounded
    BY DEF ClockInit, Init, Asked, InCycle, AgesBounded
  <2> QED BY <2>1, <2>2, <2>3
<1>2. IInv /\ ClockInv /\ [ClockNext]_clockVars => ClockInv'
  BY ClockStepIsStep, AgesOKStep, AgesOrderedStep, AnswersFreshStep, CorrectsInHandStep,
     AgesBoundedStep DEF IInv
<1> QED BY <1>1, <1>2, ClockImplementsSlave, InductiveInvariant, PTL DEF ClockSpec

\* Whatever was queued when the clock jumped, a Sync outlives one jump at most.
THEOREM SyncOutlivesOneJump == ClockSpec => []SyncSurvivesOneJump
<1>1. ClockInv => SyncSurvivesOneJump
  BY DEF ClockInv, AgesBounded, InCycle, Asked, SyncSurvivesOneJump
<1> QED BY <1>1, AgesInvariant, PTL

\* The exception is rare: t4 is of another Delay_Req than t3 only if that was numbered
\* before the last reset or session, or a full turn of the counter ago.
THEOREM MixedByOldAnswers ==
    ClockSpec => [][\/ mixed' = mixed
                    \/ syncData.t4 <= resetMark
                    \/ syncData.t3.req - syncData.t4 >= SeqMod]_clockVars
<1>1. /\ ExchangeMatched /\ AgesOK /\ [ClockNext]_clockVars
      => [\/ mixed' = mixed
          \/ syncData.t4 <= resetMark
          \/ syncData.t3.req - syncData.t4 >= SeqMod]_clockVars
  <2> SUFFICES ASSUME ExchangeMatched, AgesOK, [ClockNext]_clockVars, mixed' # mixed
               PROVE  \/ syncData.t4 <= resetMark
                      \/ syncData.t3.req - syncData.t4 >= SeqMod
    OBVIOUS
  <2>1. Jump
    BY DEF ClockNext, Stamp, TakeStamp, SaveStamp, LoseStamps, StamplessStep, clockVars
  <2>2. pc = "Correct" /\ syncData.t4 # syncData.t3.req
    BY <2>1 DEF Jump, JumpClock, AgesOK
  <2> QED BY <2>2 DEF ExchangeMatched
<1>2. ClockInv => AgesOK
  BY DEF ClockInv
<1> QED BY <1>1, <1>2, AgesInvariant, ClockImplementsSlave, ExchangesMatch, PTL
           DEF ClockSpec
=============================================================================
