--------------------------- MODULE PtpSlaveClock ---------------------------
(***************************************************************************)
(* PtpSlave with the time scales of its clock.  A correction of a second   *)
(* or more jumps the clock that stamps received packets, while packets it  *)
(* stamped before still wait in the FIFO.  The age of a stamp is how often *)
(* the clock has jumped since; it is a history variable, which no guard    *)
(* reads.  Only the ages of Syncs matter: t3 is stamped in the cycle that  *)
(* uses it, and a cycle ends in its jump.                                  *)
(***************************************************************************)
EXTENDS PtpSlave

VARIABLES
    fifoAge,     (* ages of the stamps of the packets in sPacketFIFO         *)
    handAge,     (* that of the Sync in hand, 0 for any other packet         *)
    t2Age,       (* that of sSyncData.t2                                     *)
    mixed        (* a jump has used a Delay_Resp to another Delay_Req than t3 *)

ageVars   == <<fifoAge, handAge, t2Age, mixed>>
clockVars == <<vars, ageVars>>

ClockInit == Init /\ fifoAge = <<>> /\ handAge = 0 /\ t2Age = 0 /\ mixed = FALSE

\* Ages are told apart up to 2.
Older(age) == IF age < 2 THEN age + 1 ELSE age

\* A packet is stamped with its arrival.  Packets that arrive while the lwIP thread is
\* blocked wait behind a full FIFO, in their order: they make the queue longer, and
\* nothing below depends on FifoLength.
Stamp ==
    /\ \/ \E m \in net : Deliver(m) \/ DeliverCopy(m)
       \/ \E s \in SeqId : DeliverForeign(s)
    /\ fifoAge' = Append(fifoAge, 0)
    /\ UNCHANGED <<handAge, t2Age, mixed>>

TakeStamp ==
    /\ Receive
    /\ handAge' = IF Head(fifo).type = "Sync" THEN Head(fifoAge) ELSE 0
    /\ fifoAge' = Tail(fifoAge)
    /\ UNCHANGED <<t2Age, mixed>>

SaveStamp ==        \* sSyncData.t2 = pPBuf->time_s, time_ns
    /\ DispatchSync
    /\ t2Age' = handAge /\ handAge' = 0
    /\ UNCHANGED <<fifoAge, mixed>>

Jump ==             \* PTP_UPDATE_CLOCK()
    /\ JumpClock
    /\ fifoAge' = [i \in DOMAIN fifoAge |-> Older(fifoAge[i])]
    /\ t2Age' = Older(t2Age)
    /\ mixed' = (mixed \/ syncData.t4 # syncData.t3.req)
    /\ UNCHANGED handAge

LoseStamps == Restart /\ fifoAge' = <<>> /\ handAge' = 0 /\ UNCHANGED <<t2Age, mixed>>

\* The other steps of the PTP task and of its environment.
StamplessStep ==
    /\ \/ DispatchFollowUp \/ DispatchOther \/ EnterWaitFollowUp \/ StartTimer \/ Wake
       \/ PrepareReq \/ SendReq \/ EnterWaitDelayResp \/ AcceptResp \/ RejectResp
       \/ RunServo \/ StoreError \/ SetAddend \/ EnterIdle \/ StopTimer \/ Free
       \/ TimerExpire \/ StaleExpire \/ CliReset
       \/ RecvCbBlocks \/ MasterSync \/ \E r \in txPending : Transmit(r)
    /\ UNCHANGED ageVars

ClockNext == Stamp \/ TakeStamp \/ SaveStamp \/ Jump \/ LoseStamps \/ StamplessStep

ClockSpec == ClockInit /\ [][ClockNext]_clockVars

-----------------------------------------------------------------------------
\* A correction pairs at most two neighbouring time scales: whatever was queued when
\* the clock jumped, t2 was stamped no earlier than before the last jump.  (The next
\* jump needs the Delay_Resp to a request sent after this one, and the FIFO hands out
\* every Sync that arrived before this one ahead of it.)
SyncSurvivesOneJump == pc = "Correct" /\ ~mixed => t2Age <= 1

-----------------------------------------------------------------------------
(***************************************************************************)
(* The inductive strengthening.                                            *)
(***************************************************************************)
AgesOK ==
    /\ fifoAge \in Seq(0 .. 2) /\ Len(fifoAge) = Len(fifo)
    /\ handAge \in 0 .. 2 /\ t2Age \in 0 .. 2 /\ mixed \in BOOLEAN

\* What was stamped earlier is ahead in the FIFO.
AgesOrdered == \A j, k \in DOMAIN fifoAge : j <= k => fifoAge[j] >= fifoAge[k]

\* The Delay_Req of the cycle is numbered, and its correction is still to come.
Asked ==
    \/ pc \in {"SendReq", "EnterWaitDelayResp", "CheckResp", "Correct"}
    \/ pc \in {"Receive", "Dispatch", "StartTimer", "Free"} /\ state = "SWaitDelayResp"

\* A Delay_Resp to that Delay_Req.
AnswersLast(m) == AnswersUs(m) /\ m.of = spDelayReqPBuf.req

\* The answer to that Delay_Req was stamped after the last jump, and nothing that was
\* queued before that is left behind the answer.
AnswersFresh ==
    Asked =>
        /\ \A k \in DOMAIN fifo : AnswersLast(fifo[k]) => fifoAge[k] = 0
        /\ AnswersLast(pPBuf) => \A k \in DOMAIN fifoAge : fifoAge[k] = 0

\* A correction is made with the packet in hand, and the Delay_Req still held.
CorrectsInHand ==
    pc = "Correct" =>
        /\ AnswersUs(pPBuf) /\ syncData.t4 = pPBuf.of /\ syncData.t3.req = spDelayReqPBuf.req
        /\ state # "SWaitFollowUp"

\* The Sync of the cycle is in t2.
InCycle == state = "SWaitFollowUp" \/ pc \in {"EnterWaitFollowUp", "Delay", "PrepareReq"} \/ Asked

\* Nothing that may still be used has been stamped before the last jump but one.
AgesBounded ==
    ~mixed =>
        /\ \A k \in DOMAIN fifoAge : fifoAge[k] <= 1
        /\ handAge <= 1
        /\ InCycle => t2Age <= 1

\* TLC checks it together with IInv, PtpSlaveClockProofs proves it.
ClockInv == AgesOK /\ AgesOrdered /\ AnswersFresh /\ CorrectsInHand /\ AgesBounded
=============================================================================
