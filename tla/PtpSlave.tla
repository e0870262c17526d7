------------------------------ MODULE PtpSlave ------------------------------
(***************************************************************************)
(* The PTP slave: the state machine of ptp.c, run by the PTP task of       *)
(* tasks/task_ptp.c, together with everything that touches its state from  *)
(* another context of the firmware:                                        *)
(*   - the FreeRTOS timer task, whose callback ptp_reset_state() drops the *)
(*     state machine back to SIdle when the response timer expires;        *)
(*   - the CLI task, whose "ptp reset" command calls ptp_reset();          *)
(*   - the lwIP thread, whose callback ptp_recv_cb() fills sPacketFIFO;    *)
(*   - the Ethernet driver, which writes the transmit time of a Delay_Req  *)
(*     back into the pbuf the state machine still holds;                   *)
(*   - the Eth task, which ends a session wherever the PTP task is and     *)
(*     starts the next one in the statics the last one left.               *)
(* The tasks run at equal or higher priority with preemption, so a handler *)
(* is split wherever it touches data another context writes: pc is the     *)
(* program counter of the PTP task, cli that of the CLI task.              *)
(*                                                                         *)
(* Timestamps are abstracted to where they come from: t1 and t2 to the     *)
(* number of the Sync they time, t3 and t4 to the number of the Delay_Req. *)
(* The arithmetic on their values is in TimeUtils and Servo.               *)
(***************************************************************************)
EXTENDS Integers, Sequences, Functions

CONSTANTS
    SeqMod,       (* number of sequence identifiers, 2^16 in the code        *)
    FifoLength,   (* PACKET_FIFO_LENGTH, 32 in the code                      *)
    MaxSync,      (* bound: Sync messages the master sends                   *)
    MaxReset,     (* bound: "ptp reset" commands typed                       *)
    MaxDup,       (* bound: messages the network delivers once more          *)
    MaxForeign,   (* bound: messages answering or sent by other slaves       *)
    MaxRestart    (* bound: sessions ended and started again                 *)

ASSUME ConstantsAssumption ==
    /\ SeqMod \in Nat \ {0}
    /\ FifoLength \in Nat \ {0}
    /\ MaxSync \in Nat /\ MaxReset \in Nat /\ MaxDup \in Nat /\ MaxForeign \in Nat
    /\ MaxRestart \in Nat

VARIABLES
    \* static data of ptp.c and pd_controller.c
    state,                 \* sState.state
    sequenceID,            \* sState.sequenceID: identifier of the last Sync taken
    delay_reqSequenceID,   \* sState.delay_reqSequenceID
    syncData,              \* sSyncData: origin of t1..t4
    spDelayReqPBuf,        \* the pbuf of the last Delay_Req and its transmit stamp
    addend, dt_prev,       \* tuning state: initial / touched since
    \* the PTP task
    pc, pPBuf,             \* program counter and packet in hand
    seqLoad, corr, newAddend, \* values it has loaded and not yet stored
    \* the other contexts
    fifo,                  \* sPacketFIFO
    lwip,                  \* the lwIP thread: free, blocked in xQueueSend(), stuck there
    timerActive,           \* sResponseTimer is running
    staleTimers,           \* timers left running by earlier sessions
    cli,                   \* program counter of ptp_reset() in the CLI task
    restarts,              \* sessions ended so far, by the Eth task
    \* the network and the master
    net, txPending, masterSync, dups, foreign, resets,
    \* history
    reqNo,                 \* Delay_Req messages numbered so far
    resetMark,             \* value of reqNo when ptp_reset() last cleared the counter
    corrections,           \* corrections begun so far
    freshReset             \* a ptp_reset() completed and no correction began since

dataVars    == <<sequenceID, delay_reqSequenceID, syncData, spDelayReqPBuf>>
machineVars == <<state, dataVars>>
tuneVars    == <<addend, dt_prev, corr, newAddend, corrections, freshReset>>
timerVars   == <<timerActive, staleTimers>>
cliVars     == <<cli, resets, resetMark, restarts>>
netVars     == <<lwip, net, txPending, masterSync, dups, foreign>>
envVars     == <<timerVars, cliVars, netVars>>
handVars    == <<pPBuf, seqLoad, fifo, reqNo>>
taskVars    == <<pc, pPBuf, seqLoad>>
vars        == <<machineVars, tuneVars, envVars, pc, handVars>>

-----------------------------------------------------------------------------
(***************************************************************************)
(* Messages.  "of" names the event behind a message, which its receiver    *)
(* cannot see: the Sync a Sync or Follow_Up belongs to, the Delay_Req a    *)
(* Delay_Resp answers.  "mine" tells whether requestingSourceClockIdentity *)
(* and requestingSourcePortIdentity name this slave.  Messages the state   *)
(* machine ignores in every state (Announce, Delay_Req of other slaves)    *)
(* behave like a foreign Delay_Resp and are covered by it.                 *)
(***************************************************************************)
SeqId == 0 .. (SeqMod - 1)
Message == [type : {"Sync", "Follow_Up", "Delay_Resp"},
            seq : SeqId, of : Nat, mine : BOOLEAN]
NoPacket == [type |-> "None", seq |-> 0, of |-> 0, mine |-> FALSE]

Sync(n)         == [type |-> "Sync", seq |-> n % SeqMod, of |-> n, mine |-> FALSE]
Follow_Up(n)    == [type |-> "Follow_Up", seq |-> n % SeqMod, of |-> n, mine |-> FALSE]
Delay_Resp(r)   == [type |-> "Delay_Resp", seq |-> r.seq, of |-> r.req, mine |-> TRUE]
ForeignResp(s)  == [type |-> "Delay_Resp", seq |-> s, of |-> 0, mine |-> FALSE]

ReqBuf == [req : Nat, stamped : BOOLEAN]
NullBuf == [req |-> 0, stamped |-> FALSE]       \* spDelayReqPBuf = NULL
Request == [req : Nat, seq : SeqId]             \* a Delay_Req handed to the driver

\* The number after s of a 16-bit counter.
Incr(s) == (s + 1) % SeqMod

(***************************************************************************)
(* The first session: the statics of the program and what ptp_init() sets. *)
(***************************************************************************)
Init ==
    /\ state = "SIdle" /\ sequenceID = 0 /\ delay_reqSequenceID = 0
    /\ syncData = [t1 |-> 0, t2 |-> 0, t3 |-> NullBuf, t4 |-> 0]
    /\ spDelayReqPBuf = NullBuf
    /\ addend = "init" /\ dt_prev = "zero"
    /\ pc = "Receive" /\ pPBuf = NoPacket /\ seqLoad = 0
    /\ corr = FALSE /\ newAddend = "init"
    /\ fifo = <<>> /\ lwip = "free"
    /\ timerActive = FALSE /\ staleTimers = 0 /\ restarts = 0
    /\ cli = "ready"
    /\ net = {} /\ txPending = {} /\ masterSync = 0
    /\ dups = 0 /\ foreign = 0 /\ resets = 0
    /\ reqNo = 0 /\ resetMark = 0 /\ corrections = 0 /\ freshReset = FALSE

-----------------------------------------------------------------------------
(***************************************************************************)
(* The PTP task: task_ptp() and, from Dispatch to EnterIdle,               *)
(* ptp_process_packet() and what it calls.                                 *)
(***************************************************************************)
\* Only the PTP task's position and the named variables change in a step.
Goto(from, to) == pc = from /\ pc' = to

Receive ==          \* xQueueReceive(sPacketFIFO, &pPBuf, portMAX_DELAY)
    /\ fifo # <<>>
    /\ Goto("Receive", "Dispatch")
    /\ pPBuf' = Head(fifo)
    /\ fifo' = Tail(fifo)
    /\ UNCHANGED <<seqLoad, reqNo, machineVars, tuneVars, envVars>>

\* SIdle: a Sync starts a cycle, whatever its number.
TakesSync == state = "SIdle" /\ pPBuf.type = "Sync"

\* Mutant of TakesFollowUp: the identifier is not compared.
AnyFollowUp == state = "SWaitFollowUp" /\ pPBuf.type = "Follow_Up"

\* SWaitFollowUp: only the Follow_Up with the identifier of that Sync.
TakesFollowUp == /\ state = "SWaitFollowUp"
                 /\ pPBuf.type = "Follow_Up"
                 /\ pPBuf.seq = sequenceID

\* SWaitDelayResp: a Delay_Resp is compared with the counter in a later
\* step, since ptp_reset() may clear the counter in between.
TakesDelayResp == state = "SWaitDelayResp" /\ pPBuf.type = "Delay_Resp"

DispatchSync ==     \* save t2 and the identifier of the Sync
    /\ TakesSync
    /\ Goto("Dispatch", "EnterWaitFollowUp")
    /\ syncData' = [syncData EXCEPT !.t2 = pPBuf.of]
    /\ sequenceID' = pPBuf.seq
    /\ UNCHANGED <<state, delay_reqSequenceID, spDelayReqPBuf, tuneVars, envVars,
                   handVars>>

DispatchFollowUp == \* read t1, correct t2, fall asleep in vTaskDelay()
    /\ TakesFollowUp
    /\ Goto("Dispatch", "Delay")
    /\ syncData' = [syncData EXCEPT !.t1 = pPBuf.of]
    /\ UNCHANGED <<state, sequenceID, delay_reqSequenceID, spDelayReqPBuf, tuneVars,
                   envVars, handVars>>

DispatchOther ==    \* go on with a Delay_Resp, ignore anything else
    /\ ~TakesSync /\ ~TakesFollowUp
    /\ Goto("Dispatch", IF TakesDelayResp THEN "CheckResp" ELSE "Free")
    /\ UNCHANGED <<machineVars, tuneVars, envVars, handVars>>

EnterWaitFollowUp == \* sState.state = SWaitFollowUp
    /\ Goto("EnterWaitFollowUp", "StartTimer")
    /\ state' = "SWaitFollowUp"
    /\ UNCHANGED <<dataVars, tuneVars, envVars, handVars>>

StartTimer ==       \* xTimerStart(sResponseTimer, 0)
    /\ Goto("StartTimer", "Free")
    /\ timerActive' = TRUE
    /\ UNCHANGED <<staleTimers, machineVars, tuneVars, cliVars, netVars, handVars>>

Wake ==             \* vTaskDelay(pdMS_TO_TICKS(rand() % 500)) returns
    /\ Goto("Delay", "PrepareReq")
    /\ UNCHANGED <<machineVars, tuneVars, envVars, handVars>>

\* ptp_send_delay_req_message(), first half: the held pbuf is freed, a new one
\* allocated, and the counter loaded in order to be incremented.
PrepareReq ==
    /\ Goto("PrepareReq", "SendReq")
    /\ spDelayReqPBuf' = [req |-> reqNo + 1, stamped |-> FALSE]
    /\ seqLoad' = delay_reqSequenceID
    /\ UNCHANGED <<state, sequenceID, delay_reqSequenceID, syncData, pPBuf, fifo, reqNo,
                   tuneVars, envVars>>

\* Second half: the incremented counter is stored, written into the header,
\* and the message handed to the driver.
SendReq ==
    /\ Goto("SendReq", "EnterWaitDelayResp")
    /\ reqNo' = reqNo + 1
    /\ delay_reqSequenceID' = Incr(seqLoad)
    /\ txPending' = txPending \cup {[req |-> reqNo + 1, seq |-> Incr(seqLoad)]}
    /\ seqLoad' = 0
    /\ UNCHANGED <<state, sequenceID, syncData, spDelayReqPBuf, lwip, net, masterSync,
                   dups, foreign, pPBuf, fifo, tuneVars, timerVars, cliVars>>

EnterWaitDelayResp == \* sState.state = SWaitDelayResp, whatever it is by now
    /\ Goto("EnterWaitDelayResp", "Free")
    /\ state' = "SWaitDelayResp"
    /\ UNCHANGED <<dataVars, tuneVars, envVars, handVars>>

\* Mutant of IsOurResponse: the identity of the requester is not compared.
AnyRespOfSeq(m) == m.seq = delay_reqSequenceID

\* The identifiers that make a Delay_Resp ours.
IsOurResponse(m) == m.seq = delay_reqSequenceID /\ m.mine

AcceptResp ==       \* store t3 from the held pbuf and t4 from the message
    /\ IsOurResponse(pPBuf)
    /\ Goto("CheckResp", "Correct")
    /\ syncData' = [syncData EXCEPT !.t3 = spDelayReqPBuf, !.t4 = pPBuf.of]
    /\ UNCHANGED <<state, sequenceID, delay_reqSequenceID, spDelayReqPBuf, tuneVars,
                   envVars, handVars>>

\* Mutant of RejectResp: the task keeps looking for a match in the same handler.
InsistOnResp ==
    /\ ~IsOurResponse(pPBuf)
    /\ Goto("CheckResp", "CheckResp")
    /\ UNCHANGED <<machineVars, tuneVars, envVars, handVars>>

RejectResp ==
    /\ ~IsOurResponse(pPBuf)
    /\ Goto("CheckResp", "Free")
    /\ UNCHANGED <<machineVars, tuneVars, envVars, handVars>>

\* ptp_perform_correction(): a difference of a second or more jumps the clock
\* and returns, ...
JumpClock ==
    /\ Goto("Correct", "EnterIdle")
    /\ corrections' = corrections + 1
    /\ freshReset' = FALSE
    /\ UNCHANGED <<addend, dt_prev, corr, newAddend, machineVars, envVars, handVars>>

\* ... a smaller one is given to pd_ctrl_run(), which holds on its first call
\* after a reset (dt_prev = 0) and corrects on the others, ...
RunServo ==
    /\ Goto("Correct", "StoreError")
    /\ corr' = (dt_prev # "zero")
    /\ corrections' = corrections + 1
    /\ freshReset' = FALSE
    /\ UNCHANGED <<addend, dt_prev, newAddend, machineVars, envVars, handVars>>

\* ... stores the difference, which may be 0; addend is loaded, the correction
\* added to it ...
StoreError ==
    /\ Goto("StoreError", "SetAddend")
    /\ dt_prev' \in {"zero", "nonzero"}
    /\ newAddend' = IF corr THEN "tuned" ELSE addend
    /\ corr' = FALSE
    /\ UNCHANGED <<addend, corrections, freshReset, machineVars, envVars, handVars>>

\* ... and the sum stored back and written to the hardware.
SetAddend ==
    /\ Goto("SetAddend", "EnterIdle")
    /\ addend' = newAddend
    /\ newAddend' = "init"
    /\ UNCHANGED <<dt_prev, corr, corrections, freshReset, machineVars, envVars,
                   handVars>>

\* Mutant of EnterIdle: the correction does not end the cycle.
StayWaiting ==
    /\ Goto("EnterIdle", "StopTimer")
    /\ UNCHANGED <<machineVars, tuneVars, envVars, handVars>>

EnterIdle ==        \* sState.state = SIdle
    /\ Goto("EnterIdle", "StopTimer")
    /\ state' = "SIdle"
    /\ UNCHANGED <<dataVars, tuneVars, envVars, handVars>>

StopTimer ==        \* xTimerStop(sResponseTimer, 0)
    /\ Goto("StopTimer", "Free")
    /\ timerActive' = FALSE
    /\ UNCHANGED <<staleTimers, machineVars, tuneVars, cliVars, netVars, handVars>>

Free ==             \* pbuf_free(pPBuf)
    /\ Goto("Free", "Receive")
    /\ pPBuf' = NoPacket
    /\ UNCHANGED <<seqLoad, fifo, reqNo, machineVars, tuneVars, envVars>>

PtpTask ==
    \/ Receive \/ DispatchSync \/ DispatchFollowUp \/ DispatchOther
    \/ EnterWaitFollowUp \/ StartTimer \/ Wake \/ PrepareReq \/ SendReq
    \/ EnterWaitDelayResp \/ AcceptResp \/ RejectResp
    \/ JumpClock \/ RunServo \/ StoreError \/ SetAddend
    \/ EnterIdle \/ StopTimer \/ Free

-----------------------------------------------------------------------------
(***************************************************************************)
(* The other contexts of the firmware.                                     *)
(***************************************************************************)
\* Mutants of ptp_reset_state: the callback only gives up one of the two waits.
GiveUpDelayResp == state' = IF state = "SWaitDelayResp" THEN "SIdle" ELSE state
GiveUpFollowUp  == state' = IF state = "SWaitFollowUp" THEN "SIdle" ELSE state

\* The callback of the response timers.
ptp_reset_state == state' = "SIdle"

\* The timer task calls it when sResponseTimer expires, which is single shot, ...
TimerExpire ==
    /\ timerActive
    /\ timerActive' = FALSE
    /\ ptp_reset_state
    /\ UNCHANGED <<staleTimers, pc, dataVars, tuneVars, cliVars, netVars, handVars>>

\* ... and when a timer does that an earlier session left running.
StaleExpire ==
    /\ staleTimers > 0
    /\ staleTimers' = staleTimers - 1
    /\ ptp_reset_state
    /\ UNCHANGED <<timerActive, pc, dataVars, tuneVars, cliVars, netVars, handVars>>

\* The CLI task runs ptp_reset(), one assignment at a time.
CliGoto(from, to) == cli = from /\ cli' = to

ResetState ==
    /\ resets < MaxReset
    /\ CliGoto("ready", "ResetSeq")
    /\ resets' = resets + 1
    /\ state' = "SIdle"
    /\ UNCHANGED <<resetMark, pc, restarts, dataVars, tuneVars, timerVars, netVars,
                   handVars>>

ResetSeq ==
    /\ CliGoto("ResetSeq", "ResetAddend")
    /\ delay_reqSequenceID' = 0
    /\ resetMark' = reqNo
    /\ UNCHANGED <<state, sequenceID, syncData, spDelayReqPBuf, resets, pc, restarts,
                   tuneVars, timerVars, netVars, handVars>>

ResetAddend ==
    /\ CliGoto("ResetAddend", "ResetServo")
    /\ addend' = "init"
    /\ UNCHANGED <<dt_prev, corr, newAddend, corrections, freshReset, resets, resetMark,
                   pc, restarts, machineVars, timerVars, netVars, handVars>>

ResetServo ==       \* pd_ctrl_reset()
    /\ CliGoto("ResetServo", "ready")
    /\ dt_prev' = "zero"
    /\ freshReset' = TRUE
    /\ UNCHANGED <<addend, corr, newAddend, corrections, resets, resetMark, pc,
                   restarts, machineVars, timerVars, netVars, handVars>>

CliReset == ResetState \/ ResetSeq \/ ResetAddend \/ ResetServo

\* Mutant of ptp_init: the state of the last session goes on.
KeepsState == UNCHANGED state /\ delay_reqSequenceID' = 0 /\ spDelayReqPBuf' = NullBuf

\* What ptp_init() does to the state machine.
ptp_init == state' = "SIdle" /\ delay_reqSequenceID' = 0 /\ spDelayReqPBuf' = NullBuf

(***************************************************************************)
(* The Eth task ends the session: the PTP task is deleted wherever it is,  *)
(* with the packet in hand, and so is the FIFO.  Any time later it starts  *)
(* the next one: ptp_init() and the servo are initialized, the response    *)
(* timer is created anew and the old one, if running, goes on.  One step   *)
(* stands for both: in between nothing reads what they set, and a message  *)
(* that arrives in between is lost, as one that stays in net is.           *)
(***************************************************************************)
\* vQueueDelete() wakes nobody: an lwIP thread that is blocked in xQueueSend() stays
\* there.  One that has just been woken goes on in the memory of the deleted queue.
AfterDelete ==
    IF lwip # "sending" THEN {lwip}
    ELSE IF Len(fifo) = FifoLength THEN {"stuck"} ELSE {"free", "stuck"}

Restart ==
    /\ restarts < MaxRestart
    /\ lwip' \in AfterDelete
    /\ restarts' = restarts + 1
    /\ pc' = "Receive" /\ pPBuf' = NoPacket /\ seqLoad' = 0 /\ fifo' = <<>>
    /\ ptp_init /\ resetMark' = reqNo
    /\ addend' = "init" /\ dt_prev' = "zero" /\ corr' = FALSE /\ newAddend' = "init"
    /\ freshReset' = TRUE
    /\ timerActive' = FALSE
    /\ staleTimers' = staleTimers + (IF timerActive THEN 1 ELSE 0)
    /\ UNCHANGED <<sequenceID, syncData, cli, resets, reqNo, corrections, net, txPending,
                   masterSync, dups, foreign>>

\* The lwIP thread runs ptp_recv_cb() for a packet that arrives: it blocks in
\* xQueueSend() while the FIFO is full ...
RecvCbBlocks ==
    /\ lwip = "free" /\ Len(fifo) = FifoLength
    /\ net # {} \/ foreign < MaxForeign
    /\ lwip' = "sending"
    /\ UNCHANGED <<net, txPending, masterSync, dups, foreign, pc, machineVars, tuneVars,
                   timerVars, cliVars, handVars>>

\* Mutant of RecvCb: the packet is put in front of those that wait.
QueueToFront(m) ==
    /\ lwip # "stuck" /\ Len(fifo) < FifoLength
    /\ fifo' = <<m>> \o fifo /\ lwip' = "free"

\* ... and queues it once there is room: a blocked thread holds the packet that is
\* delivered next.  A stuck one delivers nothing any more.
RecvCb(m) ==
    /\ lwip # "stuck" /\ Len(fifo) < FifoLength
    /\ fifo' = Append(fifo, m) /\ lwip' = "free"

Deliver(m) ==
    /\ m \in net
    /\ RecvCb(m)
    /\ net' = net \ {m}
    /\ UNCHANGED <<txPending, masterSync, dups, foreign, reqNo, machineVars, tuneVars,
                   timerVars, cliVars, taskVars>>

DeliverCopy(m) ==   \* the network duplicates a message
    /\ m \in net
    /\ dups < MaxDup
    /\ RecvCb(m)
    /\ dups' = dups + 1
    /\ UNCHANGED <<net, txPending, masterSync, foreign, reqNo, machineVars, tuneVars,
                   timerVars, cliVars, taskVars>>

DeliverForeign(s) == \* the groups are multicast: answers to other slaves arrive too
    /\ foreign < MaxForeign
    /\ RecvCb(ForeignResp(s))
    /\ foreign' = foreign + 1
    /\ UNCHANGED <<net, txPending, masterSync, dups, reqNo, machineVars, tuneVars,
                   timerVars, cliVars, taskVars>>

\* The master sends a Sync and its Follow_Up.  A message stays in net until it
\* is delivered: never (lost), late, or after later ones (reordered).
MasterSync ==
    /\ masterSync < MaxSync
    /\ masterSync' = masterSync + 1
    /\ net' = net \cup {Sync(masterSync + 1), Follow_Up(masterSync + 1)}
    /\ UNCHANGED <<lwip, txPending, dups, foreign, pc, machineVars, tuneVars, timerVars,
                   cliVars, handVars>>

\* A Delay_Req leaves the MAC: the driver stamps its pbuf (if the state machine
\* still holds it) and the master answers it.
Transmit(r) ==
    /\ r \in txPending
    /\ txPending' = txPending \ {r}
    /\ net' = net \cup {Delay_Resp(r)}
    /\ spDelayReqPBuf' = [spDelayReqPBuf EXCEPT !.stamped = @ \/ r.req = spDelayReqPBuf.req]
    /\ UNCHANGED <<state, sequenceID, delay_reqSequenceID, syncData, lwip, masterSync,
                   dups, foreign, pc, tuneVars, timerVars, cliVars, handVars>>

Network ==
    \/ \E m \in net : Deliver(m) \/ DeliverCopy(m)
    \/ \E s \in SeqId : DeliverForeign(s)
    \/ RecvCbBlocks \/ MasterSync
    \/ \E r \in txPending : Transmit(r)

Next == PtpTask \/ TimerExpire \/ StaleExpire \/ CliReset \/ Restart \/ Network

Spec == Init /\ [][Next]_vars

-----------------------------------------------------------------------------
(***************************************************************************)
(* The cycle of SyncCycle, read off the program counter while a handler    *)
(* is under way and off sState.state between handlers.                     *)
(***************************************************************************)
StatePhase ==
    CASE state = "SIdle" -> "idle"
      [] state = "SWaitFollowUp" -> "synced"
      [] state = "SWaitDelayResp" -> "asked"

CyclePhase ==
    CASE pc = "EnterWaitFollowUp" -> "synced"
      [] pc \in {"Delay", "PrepareReq", "SendReq"} -> "paired"
      [] pc \in {"EnterWaitDelayResp", "CheckResp", "Correct"} -> "asked"
      [] pc \in {"StoreError", "SetAddend", "EnterIdle", "StopTimer"} -> "idle"
      [] OTHER -> StatePhase

Cycle == INSTANCE SyncCycle
    WITH phase <- CyclePhase, asks <- reqNo, corrections <- corrections,
         sessions <- restarts

(***************************************************************************)
(* Properties.                                                             *)
(***************************************************************************)
FlagsOK ==
    /\ timerActive \in BOOLEAN
    /\ corr \in BOOLEAN /\ freshReset \in BOOLEAN

DataOK ==
    /\ state \in {"SIdle", "SWaitFollowUp", "SWaitDelayResp"}
    /\ sequenceID \in SeqId /\ delay_reqSequenceID \in SeqId /\ seqLoad \in SeqId
    /\ syncData \in [t1 : Nat, t2 : Nat, t3 : ReqBuf, t4 : Nat]
    /\ spDelayReqPBuf \in ReqBuf
    /\ addend \in {"init", "tuned"} /\ dt_prev \in {"zero", "nonzero"}
    /\ newAddend \in {"init", "tuned"}
    /\ pc \in {"Receive", "Dispatch", "EnterWaitFollowUp", "StartTimer", "Delay",
               "PrepareReq", "SendReq", "EnterWaitDelayResp", "CheckResp", "Correct",
               "StoreError", "SetAddend", "EnterIdle", "StopTimer", "Free"}
    /\ cli \in {"ready", "ResetSeq", "ResetAddend", "ResetServo"}
    /\ masterSync \in 0 .. MaxSync
    /\ dups \in 0 .. MaxDup /\ foreign \in 0 .. MaxForeign /\ resets \in 0 .. MaxReset
    /\ reqNo \in Nat /\ resetMark \in Nat /\ corrections \in Nat
    /\ restarts \in 0 .. MaxRestart /\ staleTimers \in 0 .. restarts

PacketsOK ==
    /\ pPBuf \in Message \cup {NoPacket}
    /\ fifo \in Seq(Message) /\ Len(fifo) <= FifoLength
    /\ lwip \in {"free", "sending", "stuck"}
    /\ net \in SUBSET Message
    /\ txPending \in SUBSET Request

\* Each variable keeps its type; the FIFO never exceeds PACKET_FIFO_LENGTH.
TypeOK == FlagsOK /\ DataOK /\ PacketsOK

\* The state machine never waits for a Follow_Up with no timer running that
\* could end the wait: ptp_process_packet() arms the timer on every Sync it takes,
\* and only the expiry, which idles the machine, disarms it before the cycle ends.
FollowUpWaitIsTimed ==
    state = "SWaitFollowUp" => timerActive \/ pc = "StartTimer"

\* A correction never mixes two Syncs: t1 is the origin of the very Sync whose
\* reception is t2, up to a full turn of the 16-bit sequence identifier.
SyncMatched ==
    pc = "Correct" =>
        \/ syncData.t1 = syncData.t2
        \/ syncData.t1 - syncData.t2 >= SeqMod
        \/ syncData.t2 - syncData.t1 >= SeqMod

\* A correction uses a Delay_Resp to this slave, and it answers the Delay_Req
\* that t3 times, already stamped by the driver, unless that Delay_Resp answers
\* a request older than the last ptp_reset() or session, or a full turn of the
\* counter old.
ExchangeMatched ==
    pc = "Correct" =>
        /\ syncData.t4 > 0
        /\ \/ syncData.t4 = syncData.t3.req /\ syncData.t3.stamped
           \/ syncData.t4 <= resetMark
           \/ syncData.t3.req - syncData.t4 >= SeqMod

\* A Delay_Resp is looked at only while the pbuf of a Delay_Req of this session is
\* held, so that spDelayReqPBuf is not NULL when t3 is read from it.
ReqBufHeld ==
    state = "SWaitDelayResp" \/ pc = "CheckResp" => spDelayReqPBuf.req > 0

\* The slave implements SyncCycle: one Delay_Req per Sync taken and at most one
\* correction per Delay_Req, whatever timeouts, resets and new sessions come between.
ImplementsCycle == Cycle!CycleSpec

\* A correction is never made without a Delay_Req of its own behind it.
OneRequestEach == Cycle!OneRequestEach

\* The comments at ptp.c:458 and ptp.c:461: ptp_reset() leaves addend at its
\* initial value and the controller reset, until another correction begins.
ResetIsKept ==
    freshReset => addend = "init" /\ dt_prev = "zero"

\* The wait for a Follow_Up ends, with or without the Follow_Up.
FollowUpWaitEnds ==
    (state = "SWaitFollowUp") ~> (state # "SWaitFollowUp")

\* The lwIP thread, blocked in xQueueSend() on the full FIFO, gets room in the end, or
\* else the session ends under it and leaves it blocked for good: the PTP task, asleep
\* in the middle of a handler or waiting in vain, never leaves it waiting otherwise.
BlockedSenderGetsRoom ==
    (lwip = "sending") ~> (Len(fifo) < FifoLength \/ lwip = "stuck")

-----------------------------------------------------------------------------
(***************************************************************************)
(* The inductive strengthening of the safety properties.                   *)
(***************************************************************************)
\* Everything that has been or will be looked at by the state machine.
Packets == net \cup Range(fifo) \cup {pPBuf}

\* The timer is stopped only once the state machine is idle again, and a Delay_Resp
\* is looked at only by a slave that waits for one, or did until it was reset.
CycleShape ==
    /\ FollowUpWaitIsTimed
    /\ pc = "StopTimer" => state = "SIdle"
    /\ pc = "CheckResp" => state # "SWaitFollowUp"

\* The Follow_Up of the Sync in t2 has been taken.
Paired ==
    \/ state = "SWaitDelayResp"
    \/ pc \in {"Delay", "PrepareReq", "SendReq", "EnterWaitDelayResp", "CheckResp",
               "Correct"}

\* The identifier that is waited for is that of the Sync whose reception is t2,
\* and from the Follow_Up on t1 and t2 have the same identifier.
SyncShape ==
    /\ \A m \in Packets : m.type \in {"Sync", "Follow_Up"} => m.seq = m.of % SeqMod
    /\ sequenceID = syncData.t2 % SeqMod
    /\ Paired => syncData.t1 % SeqMod = syncData.t2 % SeqMod

\* The counter as the last Delay_Req left it: between the load and the store of
\* the increment only the loaded value counts.
Counter == IF pc = "SendReq" THEN seqLoad ELSE delay_reqSequenceID

\* The identifier of a request numbered since the last reset is as far behind the
\* counter as the request is behind the last one.
Numbered(req, seq) ==
    /\ req \in 1 .. reqNo
    /\ req > resetMark => seq = (Counter - (reqNo - req)) % SeqMod

AnswersUs(m) == m.type = "Delay_Resp" /\ m.mine

ExchangeShape ==
    /\ resetMark <= reqNo
    /\ \/ spDelayReqPBuf.req = IF pc = "SendReq" THEN reqNo + 1 ELSE reqNo
       \/ spDelayReqPBuf.req = 0
    /\ pc \in {"SendReq", "EnterWaitDelayResp"} => spDelayReqPBuf.req > 0
    /\ ReqBufHeld
    /\ \A r \in txPending : Numbered(r.req, r.seq)
    /\ \A m \in Packets : AnswersUs(m) =>
          /\ Numbered(m.of, m.seq)
          /\ m.of = spDelayReqPBuf.req => spDelayReqPBuf.stamped
    /\ pc = "CheckResp" => pPBuf.type = "Delay_Resp"
    /\ ExchangeMatched

\* The inductive invariant: TLC checks it, PtpSlaveProofs proves it.
IInv == TypeOK /\ CycleShape /\ SyncShape /\ ExchangeShape
=============================================================================
