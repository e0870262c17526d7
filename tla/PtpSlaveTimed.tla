--------------------------- MODULE PtpSlaveTimed ---------------------------
(***************************************************************************)
(* PtpSlave with time.  The response timer is armed when a Sync is taken   *)
(* and is meant to end any cycle whose next message never comes; but the   *)
(* PTP task itself sleeps for a random time in the middle of the cycle,    *)
(* before it sends the Delay_Req.  Whether the one-shot timer still runs   *)
(* when the task starts to wait for the Delay_Resp depends on durations,   *)
(* so here the timer and the sleep are measured in ticks.                  *)
(***************************************************************************)
EXTENDS PtpSlave

CONSTANTS
    RespTimeout,    (* RESP_TIMEOUT in ticks, 2000 in the code                *)
    MaxDelay,       (* the sleep is rand() % MaxDelay ticks, 500 in the code  *)
    FollowUpBound   (* the network delivers a Follow_Up to a waiting slave at
                       most that long after the timer was started             *)

ASSUME TimedAssumption ==
    /\ RespTimeout \in Nat \ {0}
    /\ MaxDelay \in Nat \ {0}
    /\ FollowUpBound \in Nat

VARIABLES
    left,           (* ticks until sResponseTimer expires, 0 if not running  *)
    sleep           (* ticks the PTP task still spends in vTaskDelay()       *)

timeVars  == <<left, sleep>>
timedVars == <<vars, left, sleep>>

TimedInit == Init /\ left = 0 /\ sleep = 0

-----------------------------------------------------------------------------
\* xTimerStart() starts the period over, also of a timer that already runs.
ArmTimer == StartTimer /\ left' = RespTimeout /\ UNCHANGED sleep

DisarmTimer == StopTimer /\ left' = 0 /\ UNCHANGED sleep

\* Mutant of FallAsleep: the random sleep may take MaxDelay ticks as well.
SleepLonger ==
    /\ DispatchFollowUp
    /\ sleep' \in 0 .. MaxDelay
    /\ UNCHANGED left

\* vTaskDelay(pdMS_TO_TICKS(rand() % 500))
FallAsleep ==
    /\ DispatchFollowUp
    /\ sleep' \in 0 .. (MaxDelay - 1)
    /\ UNCHANGED left

WakeUp == Wake /\ sleep = 0 /\ UNCHANGED timeVars

\* The rest of the handlers takes no time worth a tick.
TimelessStep ==
    /\ \/ Receive \/ DispatchSync \/ DispatchOther \/ EnterWaitFollowUp
       \/ PrepareReq \/ SendReq \/ EnterWaitDelayResp \/ AcceptResp \/ RejectResp
       \/ JumpClock \/ RunServo \/ StoreError \/ SetAddend \/ EnterIdle \/ Free
    /\ UNCHANGED timeVars

TimedPtpTask == ArmTimer \/ DisarmTimer \/ FallAsleep \/ WakeUp \/ TimelessStep

TimedExpire == TimerExpire /\ left = 0 /\ UNCHANGED timeVars

\* The bound on the network: a Follow_Up is delivered soon after its Sync was
\* taken, or else after the timer has given the cycle up.
Prompt(m) ==
    m.type = "Follow_Up" /\ timerActive => RespTimeout - left <= FollowUpBound

TimedNetwork ==
    /\ \/ \E m \in net : Prompt(m) /\ (Deliver(m) \/ DeliverCopy(m))
       \/ \E s \in SeqId : DeliverForeign(s)
       \/ RecvCbBlocks \/ MasterSync
       \/ \E r \in txPending : Transmit(r)
    /\ UNCHANGED timeVars

\* A tick passes only while the PTP task is blocked, and not before a timer
\* that is due has expired: the timer task has the higher priority.
Blocked == \/ pc = "Receive" /\ fifo = <<>>
           \/ pc = "Delay" /\ sleep > 0

OneLess(n) == IF n > 0 THEN n - 1 ELSE 0

Tick ==
    /\ Blocked
    /\ timerActive => left > 0
    /\ left' = OneLess(left) /\ sleep' = OneLess(sleep)
    /\ UNCHANGED vars

TimedNext ==
    \/ TimedPtpTask \/ TimedExpire \/ Tick \/ TimedNetwork
    \/ StaleExpire /\ UNCHANGED timeVars
    \/ CliReset /\ UNCHANGED timeVars
    \/ Restart /\ left' = 0 /\ sleep' = 0

TimedSpec == TimedInit /\ [][TimedNext]_timedVars

\* The PTP task is never starved (tasks of its priority are time-sliced, the others
\* only react to events), a timer that is due expires, and time goes on.  Nothing is
\* assumed of the network, the master or the user.
TimedFairness ==
    WF_timedVars(TimedPtpTask) /\ WF_timedVars(TimedExpire) /\ WF_timedVars(Tick)

TimedFairSpec == TimedSpec /\ TimedFairness

-----------------------------------------------------------------------------
TimedTypeOK == TypeOK /\ left \in 0 .. RespTimeout /\ sleep \in 0 .. (MaxDelay - 1)

\* The slave waits for a Delay_Resp only under a running timer, so that a lost
\* Delay_Req or Delay_Resp is noticed.  It holds if the network is prompt and
\* FollowUpBound + MaxDelay <= RespTimeout.
DelayRespWaitIsTimed == state = "SWaitDelayResp" => timerActive

\* The comment at ptp.c:515, "reset state machine if message dropuot occures":
\* whatever is lost, the slave returns to SIdle and takes the next Sync.
DropoutRecovery == (state = "SWaitDelayResp") ~> (state = "SIdle")

-----------------------------------------------------------------------------
(***************************************************************************)
(* The inductive strengthening of DelayRespWaitIsTimed: the timer outlives *)
(* the sleep, because a Follow_Up that waits to be looked at is prompt.    *)
(***************************************************************************)
AtHand == Range(fifo) \cup {pPBuf}

PromptFollowUp ==
    state = "SWaitFollowUp" /\ pc \in {"Receive", "Dispatch", "Free"} =>
        \A m \in AtHand : m.type = "Follow_Up" => RespTimeout - left <= FollowUpBound

TimedShape ==
    /\ pc = "Receive" => pPBuf = NoPacket
    /\ PromptFollowUp
    /\ pc = "Delay" => timerActive /\ left > sleep
    /\ pc \in {"PrepareReq", "SendReq", "EnterWaitDelayResp"} => timerActive /\ left > 0
    /\ DelayRespWaitIsTimed
=============================================================================
