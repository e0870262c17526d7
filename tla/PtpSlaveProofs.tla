--------------------------- MODULE PtpSlaveProofs ---------------------------
(***************************************************************************)
(* The safety properties of PtpSlave, proved for every number of sequence  *)
(* identifiers, every FIFO length and every bound on the environment.      *)
(***************************************************************************)
EXTENDS PtpSlave, TLAPS

USE ConstantsAssumption
USE DEF envVars, handVars, dataVars

-----------------------------------------------------------------------------
(***************************************************************************)
(* Arithmetic of the sequence identifiers.                                 *)
(***************************************************************************)
LEMMA ModType ==
    ASSUME NEW n \in Int
    PROVE  n % SeqMod \in SeqId
BY DEF SeqId

LEMMA ModQuotient ==
    ASSUME NEW n \in Int
    PROVE  /\ n \div SeqMod \in Int
           /\ n % SeqMod \in 0 .. (SeqMod - 1)
           /\ n = SeqMod * (n \div SeqMod) + (n % SeqMod)
OBVIOUS

\* Two integers of the same remainder are equal or a full turn apart.
LEMMA ModApart ==
    ASSUME NEW a \in Int, NEW b \in Int, a % SeqMod = b % SeqMod
    PROVE  a = b \/ a - b >= SeqMod \/ b - a >= SeqMod
<1> DEFINE q == a \div SeqMod
           p == b \div SeqMod
<1>1. /\ q \in Int /\ p \in Int
      /\ a = SeqMod * q + (a % SeqMod)
      /\ b = SeqMod * p + (b % SeqMod)
      /\ a % SeqMod \in 0 .. (SeqMod - 1)
  BY ModQuotient
<1> HIDE DEF q, p
<1>2. a - b = SeqMod * (q - p)
  BY <1>1
<1>3. CASE q = p
  BY <1>2, <1>3, <1>1
<1>4. CASE q - p >= 1
  <2>1. SeqMod * (q - p) >= SeqMod
    BY <1>1, <1>4
  <2> QED BY <2>1, <1>2
<1>5. CASE p - q >= 1
  <2>1. SeqMod * (p - q) >= SeqMod
    BY <1>1, <1>5
  <2>2. b - a = SeqMod * (p - q)
    BY <1>1
  <2> QED BY <2>1, <2>2
<1> QED BY <1>1, <1>3, <1>4, <1>5

\* A remainder is determined by being in range and a multiple away.
LEMMA ModUnique ==
    ASSUME NEW n \in Int, NEW k \in Int, NEW r \in SeqId, n = SeqMod * k + r
    PROVE  n % SeqMod = r
<1> DEFINE q == n \div SeqMod
           p == n % SeqMod
<1>1. /\ q \in Int /\ p \in 0 .. (SeqMod - 1) /\ n = SeqMod * q + p
  BY ModQuotient
<1>2. r \in 0 .. (SeqMod - 1)
  BY DEF SeqId
<1> HIDE DEF q, p
<1>3. SeqMod * (q - k) = r - p
  BY <1>1, <1>2
<1>4. CASE q = k
  BY <1>3, <1>4, <1>1, <1>2 DEF p
<1>5. CASE q - k >= 1
  <2>1. SeqMod * (q - k) >= SeqMod
    BY <1>1, <1>5
  <2> QED BY <2>1, <1>1, <1>2, <1>3
<1>6. CASE k - q >= 1
  <2>1. SeqMod * (k - q) >= SeqMod
    BY <1>1, <1>6
  <2>2. SeqMod * (k - q) = p - r
    BY <1>1, <1>2
  <2> QED BY <2>1, <2>2, <1>1, <1>2
<1> QED BY <1>1, <1>4, <1>5, <1>6

\* Incrementing the counter keeps every earlier identifier one step further behind.
LEMMA ModIncr ==
    ASSUME NEW e \in SeqId, NEW k \in Nat
    PROVE  (Incr(e) - (k + 1)) % SeqMod = (e - k) % SeqMod
<1> DEFINE r == (e - k) % SeqMod
           q == (e - k) \div SeqMod
           p == (e + 1) \div SeqMod
           x == (e + 1) % SeqMod
<1>1. e \in Int /\ e - k \in Int /\ e + 1 \in Int
  BY DEF SeqId
<1>2. /\ q \in Int /\ r \in SeqId /\ e - k = SeqMod * q + r
  BY <1>1, ModQuotient DEF SeqId
<1>3. /\ p \in Int /\ x \in Int /\ e + 1 = SeqMod * p + x
  BY <1>1, ModQuotient
<1>4. Incr(e) = x
  BY DEF Incr
<1> HIDE DEF r, q, p, x
<1>5. Incr(e) - (k + 1) = SeqMod * (q - p) + r
  <2>1. SeqMod * p \in Int /\ Incr(e) = e + 1 - SeqMod * p
    BY <1>1, <1>3, <1>4
  <2>2. SeqMod * (q - p) = SeqMod * q - SeqMod * p
    BY <1>2, <1>3
  <2>3. r \in Int
    BY <1>2 DEF SeqId
  <2> QED BY <1>1, <1>2, <1>3, <2>1, <2>2, <2>3
<1>6. Incr(e) - (k + 1) \in Int /\ q - p \in Int
  BY <1>1, <1>2, <1>3, <1>4
<1> QED BY <1>2, <1>5, <1>6, ModUnique DEF r

LEMMA IncrType == \A e \in SeqId : Incr(e) \in SeqId
BY DEF Incr, SeqId

-----------------------------------------------------------------------------
LEMMA NewMessages ==
    /\ \A n \in Nat : Sync(n) \in Message /\ Follow_Up(n) \in Message
    /\ \A r \in Request : Delay_Resp(r) \in Message
    /\ \A s \in SeqId : ForeignResp(s) \in Message
<1>1. ASSUME NEW n \in Nat PROVE Sync(n) \in Message /\ Follow_Up(n) \in Message
  BY ModType DEF Message, Sync, Follow_Up
<1>2. ASSUME NEW r \in Request PROVE Delay_Resp(r) \in Message
  BY DEF Request, Message, Delay_Resp
<1>3. ASSUME NEW s \in SeqId PROVE ForeignResp(s) \in Message
  BY DEF Message, ForeignResp
<1> QED BY <1>1, <1>2, <1>3

LEMMA PacketInHand ==
    TypeOK => pPBuf.seq \in SeqId /\ pPBuf.of \in Nat /\ pPBuf.mine \in BOOLEAN
<1>1. ASSUME pPBuf \in Message
      PROVE  pPBuf.seq \in SeqId /\ pPBuf.of \in Nat /\ pPBuf.mine \in BOOLEAN
  BY <1>1 DEF Message
<1>2. ASSUME pPBuf = NoPacket
      PROVE  pPBuf.seq \in SeqId /\ pPBuf.of \in Nat /\ pPBuf.mine \in BOOLEAN
  BY <1>2 DEF NoPacket, SeqId
<1> QED BY <1>1, <1>2 DEF TypeOK, PacketsOK

LEMMA FlagsStep == TypeOK /\ [Next]_vars => FlagsOK'
<1> SUFFICES ASSUME TypeOK, [Next]_vars PROVE FlagsOK'
  OBVIOUS
<1> USE DEF TypeOK, FlagsOK, machineVars, tuneVars, timerVars, cliVars, netVars, taskVars
<1>1. CASE Receive
  BY <1>1 DEF Receive, Goto
<1>2. CASE DispatchSync
  BY <1>2 DEF DispatchSync, Goto
<1>3. CASE DispatchFollowUp
  BY <1>3 DEF DispatchFollowUp, Goto
<1>4. CASE DispatchOther
  BY <1>4 DEF DispatchOther, TakesDelayResp, Goto
<1>5. CASE EnterWaitFollowUp
  BY <1>5 DEF EnterWaitFollowUp, Goto
<1>6. CASE StartTimer
  BY <1>6 DEF StartTimer, Goto
<1>7. CASE Wake
  BY <1>7 DEF Wake, Goto
<1>8. CASE PrepareReq
  BY <1>8 DEF PrepareReq, Goto
<1>9. CASE SendReq
  BY <1>9 DEF SendReq, Goto
<1>10. CASE EnterWaitDelayResp
  BY <1>10 DEF EnterWaitDelayResp, Goto
<1>11. CASE AcceptResp
  BY <1>11 DEF AcceptResp, Goto
<1>12. CASE RejectResp
  BY <1>12 DEF RejectResp, Goto
<1>13. CASE JumpClock
  BY <1>13 DEF JumpClock, Goto
<1>14. CASE RunServo
  BY <1>14 DEF RunServo, Goto
<1>15. CASE StoreError
  BY <1>15 DEF StoreError, Goto
<1>16. CASE SetAddend
  BY <1>16 DEF SetAddend, Goto
<1>17. CASE EnterIdle
  BY <1>17 DEF EnterIdle, Goto
<1>18. CASE StopTimer
  BY <1>18 DEF StopTimer, Goto
<1>19. CASE Free
  BY <1>19 DEF Free, Goto
<1>20. CASE TimerExpire
  BY <1>20 DEF TimerExpire, ptp_reset_state
<1>21. CASE StaleExpire
  BY <1>21 DEF StaleExpire, ptp_reset_state
<1>22. CASE CliReset
  BY <1>22 DEF CliReset, ResetState, ResetSeq, ResetAddend, ResetServo, CliGoto
<1>23. ASSUME NEW m \in net, Deliver(m) \/ DeliverCopy(m) PROVE FlagsOK'
  BY <1>23 DEF Deliver, DeliverCopy
<1>24. ASSUME NEW s \in SeqId, DeliverForeign(s) PROVE FlagsOK'
  BY <1>24 DEF DeliverForeign
<1>25. CASE RecvCbBlocks \/ MasterSync
  BY <1>25 DEF RecvCbBlocks, MasterSync
<1>26. ASSUME NEW r \in txPending, Transmit(r) PROVE FlagsOK'
  BY <1>26 DEF Transmit
<1>28. CASE Restart
  BY <1>28 DEF Restart, AfterDelete
<1>27. CASE UNCHANGED vars
  BY <1>27 DEF vars
<1> QED BY <1>1, <1>2, <1>3, <1>4, <1>5, <1>6, <1>7, <1>8, <1>9, <1>10, <1>11, <1>12,
           <1>13, <1>14, <1>15, <1>16, <1>17, <1>18, <1>19, <1>20, <1>21, <1>22, <1>23,
           <1>24, <1>25, <1>26, <1>27, <1>28 DEF Next, PtpTask, Network

LEMMA DataStep == TypeOK /\ [Next]_vars => DataOK'
<1> SUFFICES ASSUME TypeOK, [Next]_vars PROVE DataOK'
  OBVIOUS
<1> USE DEF TypeOK, DataOK, machineVars, tuneVars, timerVars, cliVars, netVars, taskVars
<1>1. CASE Receive
  BY <1>1 DEF Receive, Goto
<1>2. CASE DispatchSync
  BY <1>2, PacketInHand DEF DispatchSync, Goto
<1>3. CASE DispatchFollowUp
  BY <1>3, PacketInHand DEF DispatchFollowUp, Goto
<1>4. CASE DispatchOther
  BY <1>4 DEF DispatchOther, TakesDelayResp, Goto, TakesDelayResp
<1>5. CASE EnterWaitFollowUp
  BY <1>5 DEF EnterWaitFollowUp, Goto
<1>6. CASE StartTimer
  BY <1>6 DEF StartTimer, Goto
<1>7. CASE Wake
  BY <1>7 DEF Wake, Goto
<1>8. CASE PrepareReq
  BY <1>8 DEF PrepareReq, Goto, ReqBuf
<1>9. CASE SendReq
  BY <1>9, ModType DEF SendReq, Goto, Incr, SeqId
<1>10. CASE EnterWaitDelayResp
  BY <1>10 DEF EnterWaitDelayResp, Goto
<1>11. CASE AcceptResp
  BY <1>11, PacketInHand DEF AcceptResp, Goto
<1>12. CASE RejectResp
  BY <1>12 DEF RejectResp, Goto
<1>13. CASE JumpClock
  BY <1>13 DEF JumpClock, Goto
<1>14. CASE RunServo
  BY <1>14 DEF RunServo, Goto
<1>15. CASE StoreError
  BY <1>15 DEF StoreError, Goto
<1>16. CASE SetAddend
  BY <1>16 DEF SetAddend, Goto
<1>17. CASE EnterIdle
  BY <1>17 DEF EnterIdle, Goto
<1>18. CASE StopTimer
  BY <1>18 DEF StopTimer, Goto
<1>19. CASE Free
  BY <1>19 DEF Free, Goto
<1>20. CASE TimerExpire
  BY <1>20 DEF TimerExpire, ptp_reset_state
<1>21. CASE StaleExpire
  BY <1>21 DEF StaleExpire, ptp_reset_state
<1>22. CASE CliReset
  BY <1>22 DEF CliReset, ResetState, ResetSeq, ResetAddend, ResetServo, CliGoto, SeqId
<1>23. ASSUME NEW m \in net, Deliver(m) \/ DeliverCopy(m) PROVE DataOK'
  BY <1>23 DEF Deliver, DeliverCopy
<1>24. ASSUME NEW s \in SeqId, DeliverForeign(s) PROVE DataOK'
  BY <1>24 DEF DeliverForeign
<1>25. CASE RecvCbBlocks \/ MasterSync
  <2>1. CASE RecvCbBlocks
    BY <2>1 DEF RecvCbBlocks
  <2>2. CASE MasterSync
    BY <2>2 DEF MasterSync
  <2> QED BY <1>25, <2>1, <2>2
<1>26. ASSUME NEW r \in txPending, Transmit(r) PROVE DataOK'
  <2>1. spDelayReqPBuf.req \in Nat /\ spDelayReqPBuf.stamped \in BOOLEAN
    BY DEF ReqBuf
  <2>2. (spDelayReqPBuf.stamped \/ r.req = spDelayReqPBuf.req) \in BOOLEAN
    OBVIOUS
  <2>3. spDelayReqPBuf' \in ReqBuf
    BY <1>26, <2>1, <2>2 DEF Transmit, ReqBuf
  <2> QED BY <1>26, <2>3 DEF Transmit
<1>28. CASE Restart
  BY <1>28 DEF Restart, ptp_init, NullBuf, ReqBuf, SeqId
<1>27. CASE UNCHANGED vars
  BY <1>27 DEF vars
<1> QED BY <1>1, <1>2, <1>3, <1>4, <1>5, <1>6, <1>7, <1>8, <1>9, <1>10, <1>11, <1>12,
           <1>13, <1>14, <1>15, <1>16, <1>17, <1>18, <1>19, <1>20, <1>21, <1>22, <1>23,
           <1>24, <1>25, <1>26, <1>27, <1>28 DEF Next, PtpTask, Network

LEMMA PacketsStep == TypeOK /\ [Next]_vars => PacketsOK'
<1> SUFFICES ASSUME TypeOK, [Next]_vars PROVE PacketsOK'
  OBVIOUS
<1> USE DEF TypeOK, PacketsOK, machineVars, tuneVars, timerVars, cliVars, netVars, taskVars
<1>1. CASE Receive
  BY <1>1 DEF Receive, Goto
<1>2. CASE DispatchSync
  BY <1>2 DEF DispatchSync, Goto
<1>3. CASE DispatchFollowUp
  BY <1>3 DEF DispatchFollowUp, Goto
<1>4. CASE DispatchOther
  BY <1>4 DEF DispatchOther, TakesDelayResp, Goto
<1>5. CASE EnterWaitFollowUp
  BY <1>5 DEF EnterWaitFollowUp, Goto
<1>6. CASE StartTimer
  BY <1>6 DEF StartTimer, Goto
<1>7. CASE Wake
  BY <1>7 DEF Wake, Goto
<1>8. CASE PrepareReq
  BY <1>8 DEF PrepareReq, Goto
<1>9. CASE SendReq
  <2>1. reqNo + 1 \in Nat /\ Incr(seqLoad) \in SeqId
    BY IncrType DEF DataOK
  <2>2. [req |-> reqNo + 1, seq |-> Incr(seqLoad)] \in Request
    BY <2>1 DEF Request
  <2>3. txPending' = txPending \cup {[req |-> reqNo + 1, seq |-> Incr(seqLoad)]}
    BY <1>9 DEF SendReq
  <2> QED BY <1>9, <2>2, <2>3 DEF SendReq
<1>10. CASE EnterWaitDelayResp
  BY <1>10 DEF EnterWaitDelayResp, Goto
<1>11. CASE AcceptResp
  BY <1>11 DEF AcceptResp, Goto
<1>12. CASE RejectResp
  BY <1>12 DEF RejectResp, Goto
<1>13. CASE JumpClock
  BY <1>13 DEF JumpClock, Goto
<1>14. CASE RunServo
  BY <1>14 DEF RunServo, Goto
<1>15. CASE StoreError
  BY <1>15 DEF StoreError, Goto
<1>16. CASE SetAddend
  BY <1>16 DEF SetAddend, Goto
<1>17. CASE EnterIdle
  BY <1>17 DEF EnterIdle, Goto
<1>18. CASE StopTimer
  BY <1>18 DEF StopTimer, Goto
<1>19. CASE Free
  BY <1>19 DEF Free, Goto
<1>20. CASE TimerExpire
  BY <1>20 DEF TimerExpire, ptp_reset_state
<1>21. CASE StaleExpire
  BY <1>21 DEF StaleExpire, ptp_reset_state
<1>22. CASE CliReset
  BY <1>22 DEF CliReset, ResetState, ResetSeq, ResetAddend, ResetServo, CliGoto
<1>23. ASSUME NEW m \in net, Deliver(m) \/ DeliverCopy(m) PROVE PacketsOK'
  BY <1>23 DEF Deliver, DeliverCopy, RecvCb
<1>24. ASSUME NEW s \in SeqId, DeliverForeign(s) PROVE PacketsOK'
  BY <1>24, NewMessages DEF DeliverForeign, RecvCb
<1>25. CASE RecvCbBlocks \/ MasterSync
  BY <1>25, NewMessages DEF RecvCbBlocks, MasterSync, DataOK
<1>26. ASSUME NEW r \in txPending, Transmit(r) PROVE PacketsOK'
  BY <1>26, NewMessages DEF Transmit
<1>28. CASE Restart
  BY <1>28 DEF Restart, AfterDelete
<1>27. CASE UNCHANGED vars
  BY <1>27 DEF vars
<1> QED BY <1>1, <1>2, <1>3, <1>4, <1>5, <1>6, <1>7, <1>8, <1>9, <1>10, <1>11, <1>12,
           <1>13, <1>14, <1>15, <1>16, <1>17, <1>18, <1>19, <1>20, <1>21, <1>22, <1>23,
           <1>24, <1>25, <1>26, <1>27, <1>28 DEF Next, PtpTask, Network

\* Every variable keeps its type, in particular the FIFO its length.
THEOREM TypeCorrect == Spec => []TypeOK
<1>1. Init => TypeOK
  <2>1. Init => FlagsOK
    BY DEF Init, FlagsOK
  <2>2. Init => DataOK
    BY DEF Init, DataOK, SeqId, ReqBuf, NullBuf
  <2>3. Init => PacketsOK
    BY DEF Init, PacketsOK
  <2> QED BY <2>1, <2>2, <2>3 DEF TypeOK
<1>2. TypeOK /\ [Next]_vars => TypeOK'
  BY FlagsStep, DataStep, PacketsStep DEF TypeOK
<1> QED BY <1>1, <1>2, PTL DEF Spec

-----------------------------------------------------------------------------
(***************************************************************************)
(* The timer.                                                              *)
(***************************************************************************)
LEMMA CycleShapeStep == TypeOK /\ CycleShape /\ [Next]_vars => CycleShape'
<1> SUFFICES ASSUME TypeOK, CycleShape, [Next]_vars PROVE CycleShape'
  OBVIOUS
<1> USE DEF CycleShape, FollowUpWaitIsTimed, machineVars, timerVars
<1>1. CASE Receive
  BY <1>1 DEF Receive, Goto
<1>2. CASE DispatchSync
  BY <1>2 DEF DispatchSync, Goto
<1>3. CASE DispatchFollowUp
  BY <1>3 DEF DispatchFollowUp, Goto
<1>4. CASE DispatchOther
  BY <1>4 DEF DispatchOther, TakesDelayResp, Goto
<1>5. CASE EnterWaitFollowUp
  BY <1>5 DEF EnterWaitFollowUp, Goto
<1>6. CASE StartTimer
  BY <1>6 DEF StartTimer, Goto
<1>7. CASE Wake
  BY <1>7 DEF Wake, Goto
<1>8. CASE PrepareReq
  BY <1>8 DEF PrepareReq, Goto
<1>9. CASE SendReq
  BY <1>9 DEF SendReq, Goto
<1>10. CASE EnterWaitDelayResp
  BY <1>10 DEF EnterWaitDelayResp, Goto
<1>11. CASE AcceptResp
  BY <1>11 DEF AcceptResp, Goto
<1>12. CASE RejectResp
  BY <1>12 DEF RejectResp, Goto
<1>13. CASE JumpClock
  BY <1>13 DEF JumpClock, Goto
<1>14. CASE RunServo
  BY <1>14 DEF RunServo, Goto
<1>15. CASE StoreError
  BY <1>15 DEF StoreError, Goto
<1>16. CASE SetAddend
  BY <1>16 DEF SetAddend, Goto
<1>17. CASE EnterIdle
  BY <1>17 DEF EnterIdle, Goto
<1>18. CASE StopTimer
  BY <1>18 DEF StopTimer, Goto
<1>19. CASE Free
  BY <1>19 DEF Free, Goto
<1>20. CASE TimerExpire
  BY <1>20 DEF TimerExpire, ptp_reset_state
<1>21. CASE StaleExpire
  BY <1>21 DEF StaleExpire, ptp_reset_state
<1>22. CASE CliReset
  BY <1>22 DEF CliReset, ResetState, ResetSeq, ResetAddend, ResetServo, CliGoto, taskVars
<1>23. CASE Network
  BY <1>23 DEF Network, Deliver, DeliverCopy, DeliverForeign, RecvCbBlocks, MasterSync, Transmit, taskVars
<1>25. CASE Restart
  BY <1>25 DEF Restart, ptp_init
<1>24. CASE UNCHANGED vars
  BY <1>24 DEF vars
<1> QED BY <1>1, <1>2, <1>3, <1>4, <1>5, <1>6, <1>7, <1>8, <1>9, <1>10, <1>11, <1>12,
           <1>13, <1>14, <1>15, <1>16, <1>17, <1>18, <1>19, <1>20, <1>21, <1>22, <1>23,
           <1>24, <1>25 DEF Next, PtpTask

\* The wait for a Follow_Up is always under a running timer.
THEOREM FollowUpWaitTimed == Spec => []FollowUpWaitIsTimed
<1>1. Init => CycleShape
  BY DEF Init, CycleShape, FollowUpWaitIsTimed
<1>2. CycleShape => FollowUpWaitIsTimed
  BY DEF CycleShape
<1> QED BY <1>1, <1>2, CycleShapeStep, TypeCorrect, PTL DEF Spec

-----------------------------------------------------------------------------
(***************************************************************************)
(* Where packets come from: a step brings in nothing but what the master   *)
(* sends and what answers another slave.                                   *)
(***************************************************************************)
LEMMA QueueElements ==
    ASSUME NEW S, NEW q \in Seq(S)
    PROVE  /\ q # <<>> => Head(q) \in Range(q) /\ Range(Tail(q)) \subseteq Range(q)
           /\ \A m \in S : Range(Append(q, m)) = Range(q) \cup {m}
<1>1. ASSUME q # <<>>
      PROVE  Head(q) \in Range(q) /\ Range(Tail(q)) \subseteq Range(q)
  BY <1>1 DEF Range
<1>2. ASSUME NEW m \in S
      PROVE  Range(Append(q, m)) = Range(q) \cup {m}
  <2> DEFINE a == Append(q, m)
  <2>1. /\ DOMAIN q = 1 .. Len(q) /\ DOMAIN a = 1 .. (Len(q) + 1) /\ Len(q) \in Nat
        /\ \A i \in 1 .. Len(q) : a[i] = q[i]
        /\ a[Len(q) + 1] = m
    BY <1>2
  <2> HIDE DEF a
  <2>2. \A i \in DOMAIN a : a[i] \in Range(q) \cup {m}
    BY <2>1 DEF Range
  <2>3. Range(q) \cup {m} \subseteq Range(a)
    BY <2>1 DEF Range
  <2>4. Range(a) \subseteq Range(q) \cup {m}
    BY <2>2 DEF Range
  <2> QED BY <2>3, <2>4 DEF a
<1> QED BY <1>1, <1>2

LEMMA PacketOrigin ==
    ASSUME TypeOK, [Next]_vars, NEW m \in Packets'
    PROVE  \/ m \in Packets
           \/ m = NoPacket
           \/ \E n \in Nat : m = Sync(n) \/ m = Follow_Up(n)
           \/ \E s \in SeqId : m = ForeignResp(s)
           \/ \E r \in txPending : Transmit(r) /\ m = Delay_Resp(r)
<1> USE DEF Packets
<1>1. CASE Receive
  BY <1>1, QueueElements DEF Receive, netVars, TypeOK, PacketsOK
<1>2. CASE Free
  BY <1>2 DEF Free, netVars
<1>3. CASE PtpTask /\ ~Receive /\ ~Free
  BY <1>3 DEF PtpTask, DispatchSync, DispatchFollowUp, DispatchOther, EnterWaitFollowUp,
     StartTimer, Wake, PrepareReq, SendReq, EnterWaitDelayResp, AcceptResp, RejectResp,
     JumpClock, RunServo, StoreError, SetAddend, EnterIdle, StopTimer, netVars
<1>4. CASE TimerExpire \/ StaleExpire \/ CliReset
  BY <1>4 DEF TimerExpire, StaleExpire, ptp_reset_state, CliReset, ResetState, ResetSeq,
     ResetAddend, ResetServo, netVars, taskVars
<1>5. ASSUME NEW p \in net, Deliver(p) \/ DeliverCopy(p)
      PROVE  m \in Packets
  <2>1. Range(fifo') = Range(fifo) \cup {p}
    BY <1>5, QueueElements DEF Deliver, DeliverCopy, RecvCb, TypeOK, PacketsOK
  <2> QED BY <1>5, <2>1 DEF Deliver, DeliverCopy, taskVars
<1>6. ASSUME NEW s \in SeqId, DeliverForeign(s)
      PROVE  m \in Packets \/ m = ForeignResp(s)
  <2>1. Range(fifo') = Range(fifo) \cup {ForeignResp(s)}
    BY <1>6, QueueElements, NewMessages DEF DeliverForeign, RecvCb, TypeOK, PacketsOK
  <2> QED BY <1>6, <2>1 DEF DeliverForeign, taskVars
<1>7. CASE RecvCbBlocks \/ MasterSync
  BY <1>7 DEF RecvCbBlocks, MasterSync, taskVars, TypeOK, DataOK
<1>8. ASSUME NEW r \in txPending, Transmit(r)
      PROVE  m \in Packets \/ m = Delay_Resp(r)
  BY <1>8 DEF Transmit, taskVars
<1>9. CASE UNCHANGED vars
  BY <1>9 DEF vars, netVars
<1>10. CASE Restart
  <2>1. fifo' = <<>> /\ pPBuf' = NoPacket /\ net' = net
    BY <1>10 DEF Restart, netVars
  <2>2. Range(<<>>) = {}
    BY DEF Range
  <2>3. Packets' = net \cup {NoPacket}
    BY <2>1, <2>2
  <2> QED BY <2>3
<1> QED BY <1>1, <1>2, <1>3, <1>4, <1>5, <1>6, <1>7, <1>8, <1>9, <1>10 DEF Next, Network

-----------------------------------------------------------------------------
(***************************************************************************)
(* One Sync per correction.                                                *)
(***************************************************************************)
SyncNumbered(m) == m.type \in {"Sync", "Follow_Up"} => m.seq = m.of % SeqMod

LEMMA SyncShapeStep == TypeOK /\ SyncShape /\ [Next]_vars => SyncShape'
<1> SUFFICES ASSUME TypeOK, SyncShape, [Next]_vars PROVE SyncShape'
  OBVIOUS
<1>1. ASSUME NEW m \in Packets' PROVE SyncNumbered(m)
  <2>1. CASE m \in Packets
    BY <2>1 DEF SyncShape, SyncNumbered
  <2>2. CASE m = NoPacket \/ \E s \in SeqId : m = ForeignResp(s)
    BY <2>2 DEF SyncNumbered, NoPacket, ForeignResp
  <2>3. CASE \E n \in Nat : m = Sync(n) \/ m = Follow_Up(n)
    BY <2>3 DEF SyncNumbered, Sync, Follow_Up
  <2>4. CASE \E r \in txPending : m = Delay_Resp(r)
    BY <2>4 DEF SyncNumbered, Delay_Resp
  <2> QED BY <2>1, <2>2, <2>3, <2>4, PacketOrigin
<1> DEFINE Matched == /\ sequenceID = syncData.t2 % SeqMod
                      /\ Paired => syncData.t1 % SeqMod = syncData.t2 % SeqMod
<1>2. Matched
  BY DEF SyncShape
<1>3. Matched'
  <2>1. CASE DispatchSync
    <3>1. pPBuf.type = "Sync" /\ pPBuf \in Packets /\ pPBuf.seq = pPBuf.of % SeqMod
      BY <2>1 DEF DispatchSync, TakesSync, SyncShape, Packets
    <3>2. sequenceID' = pPBuf.seq /\ syncData'.t2 = pPBuf.of
      BY <2>1 DEF DispatchSync, TypeOK, DataOK
    <3>3. state' = "SIdle" /\ pc' = "EnterWaitFollowUp"
      BY <2>1 DEF DispatchSync, TakesSync, Goto
    <3> QED BY <3>1, <3>2, <3>3 DEF Paired
  <2>2. CASE DispatchFollowUp
    <3>1. pPBuf \in Packets /\ pPBuf.seq = pPBuf.of % SeqMod /\ pPBuf.seq = sequenceID
      BY <2>2 DEF DispatchFollowUp, TakesFollowUp, SyncShape, Packets
    <3>2. /\ sequenceID' = sequenceID /\ syncData'.t1 = pPBuf.of
          /\ syncData'.t2 = syncData.t2
      BY <2>2 DEF DispatchFollowUp, TypeOK, DataOK
    <3> QED BY <1>2, <3>1, <3>2
  <2>3. CASE DispatchOther
    BY <1>2, <2>3 DEF DispatchOther, TakesDelayResp, Paired, Goto, machineVars
  <2>4. CASE AcceptResp
    <3>1. /\ sequenceID' = sequenceID /\ syncData'.t1 = syncData.t1
          /\ syncData'.t2 = syncData.t2 /\ Paired
      BY <2>4 DEF AcceptResp, Paired, Goto, TypeOK, DataOK
    <3> QED BY <1>2, <3>1
  <2>5. CASE Receive \/ EnterWaitFollowUp \/ StartTimer \/ Wake \/ PrepareReq \/ SendReq
             \/ EnterWaitDelayResp \/ RejectResp
    BY <1>2, <2>5 DEF Receive, EnterWaitFollowUp, StartTimer, Wake, PrepareReq, SendReq,
       EnterWaitDelayResp, RejectResp, Paired, Goto, machineVars
  <2>6. CASE JumpClock \/ RunServo \/ StoreError \/ SetAddend \/ EnterIdle \/ StopTimer
             \/ Free
    BY <1>2, <2>6 DEF JumpClock, RunServo, StoreError, SetAddend, EnterIdle, StopTimer,
       Free, Paired, Goto, machineVars
  <2>7. CASE TimerExpire \/ StaleExpire \/ CliReset
    BY <1>2, <2>7 DEF TimerExpire, StaleExpire, ptp_reset_state, CliReset, ResetState,
       ResetSeq, ResetAddend, ResetServo, Paired, machineVars, taskVars
  <2>8. CASE Network
    BY <1>2, <2>8 DEF Network, Deliver, DeliverCopy, DeliverForeign, RecvCbBlocks, MasterSync, Transmit,
       Paired, machineVars, taskVars
  <2>9. CASE UNCHANGED vars
    BY <1>2, <2>9 DEF vars, Paired, machineVars
  <2>10. CASE Restart
    BY <1>2, <2>10 DEF Restart, ptp_init, Paired
  <2> QED BY <2>1, <2>2, <2>3, <2>4, <2>5, <2>6, <2>7, <2>8, <2>9, <2>10 DEF Next, PtpTask
<1> QED BY <1>1, <1>3 DEF SyncShape, SyncNumbered

LEMMA SyncShapeMatches == TypeOK /\ SyncShape => SyncMatched
<1> SUFFICES ASSUME TypeOK, SyncShape, pc = "Correct"
             PROVE  \/ syncData.t1 = syncData.t2
                    \/ syncData.t1 - syncData.t2 >= SeqMod
                    \/ syncData.t2 - syncData.t1 >= SeqMod
  BY DEF SyncMatched
<1>1. syncData.t1 \in Int /\ syncData.t2 \in Int
  BY DEF TypeOK, DataOK
<1>2. syncData.t1 % SeqMod = syncData.t2 % SeqMod
  BY DEF SyncShape, Paired
<1> QED BY <1>1, <1>2, ModApart

\* A correction takes t1 and t2 from the same Sync, or from Syncs 2^16 apart.
THEOREM SyncsMatch == Spec => []SyncMatched
<1>1. Init => SyncShape
  <2>1. 0 % SeqMod = 0
    OBVIOUS
  <2> QED BY <2>1 DEF Init, SyncShape, Paired, Packets, NoPacket, Range
<1> QED BY <1>1, SyncShapeStep, SyncShapeMatches, TypeCorrect, PTL DEF Spec

-----------------------------------------------------------------------------
(***************************************************************************)
(* One Delay_Req per correction.                                           *)
(***************************************************************************)
LEMMA ModOfSeqId == \A e \in SeqId : e % SeqMod = e
<1> SUFFICES ASSUME NEW e \in SeqId PROVE e % SeqMod = e
  OBVIOUS
<1>1. e \in Int /\ 0 \in Int
  BY DEF SeqId
<1>2. SeqMod * 0 = 0
  OBVIOUS
<1>3. e = SeqMod * 0 + e
  BY <1>1, <1>2
<1>4. \A k \in Int : e = SeqMod * k + e => e % SeqMod = e
  BY <1>1, ModUnique
<1> QED BY <1>1, <1>3, <1>4, Zenon

LEMMA ModOfLast == \A e \in SeqId, n \in Nat : (e - (n - n)) % SeqMod = e
<1> SUFFICES ASSUME NEW e \in SeqId, NEW n \in Nat PROVE (e - (n - n)) % SeqMod = e
  OBVIOUS
<1>1. e - (n - n) = e
  BY DEF SeqId
<1> QED BY <1>1, ModOfSeqId

\* The steps that touch neither the numbering of the requests nor the held pbuf.
LEMMA NumberingFrame ==
    ASSUME TypeOK, [Next]_vars,
           ~SendReq, ~PrepareReq, ~ResetSeq, ~Restart, \A r \in txPending : ~Transmit(r)
    PROVE  /\ reqNo' = reqNo /\ resetMark' = resetMark /\ Counter' = Counter
           /\ spDelayReqPBuf' = spDelayReqPBuf /\ txPending' = txPending
           /\ (pc' = "SendReq") = (pc = "SendReq")
<1> USE DEF Counter, machineVars, cliVars, netVars, taskVars, Goto
<1>1. CASE PtpTask
  BY <1>1 DEF PtpTask, Receive, DispatchSync, DispatchFollowUp, DispatchOther,
     EnterWaitFollowUp, StartTimer, Wake, EnterWaitDelayResp, AcceptResp, RejectResp,
     JumpClock, RunServo, StoreError, SetAddend, EnterIdle, StopTimer, Free
<1>2. CASE TimerExpire \/ StaleExpire \/ CliReset
  BY <1>2 DEF TimerExpire, StaleExpire, ptp_reset_state, CliReset, ResetState,
     ResetAddend, ResetServo
<1>3. CASE Network
  BY <1>3 DEF Network, Deliver, DeliverCopy, DeliverForeign, RecvCbBlocks, MasterSync
<1>4. CASE UNCHANGED vars
  BY <1>4 DEF vars
<1> QED BY <1>1, <1>2, <1>3, <1>4 DEF Next

LEMMA RestartFrame ==
    ASSUME TypeOK, Restart
    PROVE  /\ reqNo' = reqNo /\ resetMark' = reqNo /\ reqNo \in Nat
           /\ spDelayReqPBuf'.req = 0 /\ txPending' = txPending
           /\ pc' = "Receive" /\ state' = "SIdle"
  BY DEF Restart, ptp_init, NullBuf, netVars, TypeOK, DataOK

LEMMA TransmitFrame ==
    ASSUME TypeOK, NEW r \in txPending, Transmit(r)
    PROVE  /\ reqNo' = reqNo /\ resetMark' = resetMark /\ Counter' = Counter
           /\ spDelayReqPBuf'.req = spDelayReqPBuf.req /\ pc' = pc
           /\ txPending' \subseteq txPending
           /\ spDelayReqPBuf.stamped \/ r.req = spDelayReqPBuf.req
                => spDelayReqPBuf'.stamped
  BY DEF Transmit, Counter, cliVars, taskVars, TypeOK, DataOK, ReqBuf

\* No step changes where an identifier in use stands.
LEMMA NumberedKept ==
    ASSUME TypeOK, ExchangeShape, [Next]_vars,
           NEW req \in Nat, NEW seq \in SeqId, Numbered(req, seq)
    PROVE  Numbered(req, seq)'
<1>1. CASE SendReq
  <2>1. /\ Counter = seqLoad /\ Counter' = Incr(seqLoad) /\ seqLoad \in SeqId
        /\ reqNo' = reqNo + 1 /\ resetMark' = resetMark
    BY <1>1 DEF SendReq, Counter, Goto, cliVars, TypeOK, DataOK
  <2>2. reqNo \in Nat /\ reqNo - req \in Nat /\ reqNo' - req = (reqNo - req) + 1
    BY <2>1 DEF Numbered, TypeOK, DataOK
  <2>3. (Incr(seqLoad) - ((reqNo - req) + 1)) % SeqMod = (seqLoad - (reqNo - req)) % SeqMod
    BY <2>1, <2>2, ModIncr
  <2>4. (Counter' - (reqNo' - req)) % SeqMod = (Counter - (reqNo - req)) % SeqMod
    BY <2>1, <2>2, <2>3
  <2>5. req \in 1 .. reqNo'
    BY <2>1, <2>2 DEF Numbered
  <2> QED BY <2>1, <2>4, <2>5 DEF Numbered
<1>2. CASE PrepareReq
  <2>1. Counter' = Counter /\ reqNo' = reqNo /\ resetMark' = resetMark
    BY <1>2 DEF PrepareReq, Counter, Goto, cliVars
  <2> QED BY <2>1 DEF Numbered
<1>3. CASE ResetSeq
  <2>1. resetMark' = reqNo /\ reqNo' = reqNo /\ reqNo \in Nat
    BY <1>3 DEF ResetSeq, TypeOK, DataOK
  <2> QED BY <2>1 DEF Numbered
<1>4. CASE \E r \in txPending : Transmit(r)
  BY <1>4, TransmitFrame DEF Numbered
<1>5. CASE Restart
  BY <1>5, RestartFrame DEF Numbered
<1>6. CASE /\ ~SendReq /\ ~PrepareReq /\ ~ResetSeq /\ ~Restart
           /\ \A r \in txPending : ~Transmit(r)
  BY <1>6, NumberingFrame DEF Numbered
<1> QED BY <1>1, <1>2, <1>3, <1>4, <1>5, <1>6

Stamped(m) == m.of = spDelayReqPBuf.req => spDelayReqPBuf.stamped

\* A request that is answered when the next one is prepared is not the next one,
\* and a transmit stamp once written stays.
LEMMA StampedKept ==
    ASSUME TypeOK, ExchangeShape, [Next]_vars,
           NEW m, m.of \in 1 .. reqNo, Stamped(m)
    PROVE  Stamped(m)'
<1>1. CASE PrepareReq
  BY <1>1 DEF PrepareReq, Stamped, TypeOK, DataOK
<1>2. CASE SendReq \/ ResetSeq
  BY <1>2 DEF SendReq, ResetSeq, Stamped
<1>3. CASE \E r \in txPending : Transmit(r)
  BY <1>3, TransmitFrame DEF Stamped
<1>4. CASE Restart
  BY <1>4, RestartFrame DEF Stamped
<1>5. CASE /\ ~SendReq /\ ~PrepareReq /\ ~ResetSeq /\ ~Restart
           /\ \A r \in txPending : ~Transmit(r)
  BY <1>5, NumberingFrame DEF Stamped
<1> QED BY <1>1, <1>2, <1>3, <1>4, <1>5

LEMMA AnswersNumbered ==
    ASSUME TypeOK, ExchangeShape, [Next]_vars,
           NEW m \in Packets', AnswersUs(m)
    PROVE  Numbered(m.of, m.seq)' /\ Stamped(m)'
<1>1. CASE m \in Packets
  <2>1. /\ Numbered(m.of, m.seq) /\ Stamped(m)
        /\ m.of \in 1 .. reqNo /\ reqNo \in Nat
    BY <1>1 DEF ExchangeShape, Numbered, Stamped, TypeOK, DataOK
  <2>2. m \in Message \cup {NoPacket}
    BY <1>1 DEF Packets, Range, TypeOK, PacketsOK
  <2>3. m.seq \in SeqId
    BY <2>2 DEF Message, NoPacket, AnswersUs
  <2> QED BY <2>1, <2>3, NumberedKept, StampedKept
<1>2. CASE \E r \in txPending : Transmit(r) /\ m = Delay_Resp(r)
  <2> PICK r \in txPending : Transmit(r) /\ m = Delay_Resp(r)
    BY <1>2
  <2>1. m.of = r.req /\ m.seq = r.seq
    BY DEF Delay_Resp
  <2>2. r.req \in Nat /\ r.seq \in SeqId /\ Numbered(r.req, r.seq)
    BY DEF ExchangeShape, TypeOK, PacketsOK, Request
  <2>3. Numbered(r.req, r.seq)'
    BY <2>2, NumberedKept
  <2>4. Stamped(m)'
    BY <2>1, TransmitFrame DEF Stamped
  <2> QED BY <2>1, <2>3, <2>4
<1>3. CASE \/ m = NoPacket \/ \E s \in SeqId : m = ForeignResp(s)
           \/ \E n \in Nat : m = Sync(n) \/ m = Follow_Up(n)
  BY <1>3 DEF AnswersUs, NoPacket, ForeignResp, Sync, Follow_Up
<1> QED BY <1>1, <1>2, <1>3, PacketOrigin

LEMMA RequestsNumbered ==
    ASSUME TypeOK, ExchangeShape, [Next]_vars, NEW r \in txPending'
    PROVE  Numbered(r.req, r.seq)'
<1>1. CASE r \in txPending
  BY <1>1, NumberedKept DEF ExchangeShape, TypeOK, PacketsOK, Request
<1>2. CASE SendReq /\ r = [req |-> reqNo + 1, seq |-> Incr(seqLoad)]
  <2>1. /\ r.req = reqNo' /\ reqNo' \in Nat \ {0} /\ r.seq = Counter'
    BY <1>2 DEF SendReq, Counter, Goto, TypeOK, DataOK
  <2>2. Counter' \in SeqId
    BY <1>2, <2>1, IncrType DEF TypeOK, DataOK
  <2>3. (Counter' - (reqNo' - reqNo')) % SeqMod = Counter'
    BY <2>1, <2>2, ModOfLast
  <2> QED BY <2>1, <2>3 DEF Numbered
<1>3. txPending' \subseteq txPending \/ SendReq
  BY NumberingFrame, TransmitFrame, RestartFrame DEF PrepareReq, ResetSeq, netVars
<1> QED BY <1>1, <1>2, <1>3 DEF SendReq

\* What AcceptResp finds out by comparing identifiers.
LEMMA AcceptMatches ==
    ASSUME TypeOK, ExchangeShape, AcceptResp
    PROVE  /\ pPBuf.of > 0
           /\ \/ pPBuf.of = spDelayReqPBuf.req /\ spDelayReqPBuf.stamped
              \/ pPBuf.of <= resetMark
              \/ spDelayReqPBuf.req - pPBuf.of >= SeqMod
<1>1. pPBuf \in Packets /\ AnswersUs(pPBuf) /\ pPBuf.seq = delay_reqSequenceID
  BY DEF AcceptResp, Goto, IsOurResponse, ExchangeShape, AnswersUs, Packets
<1>2. /\ Numbered(pPBuf.of, pPBuf.seq) /\ Stamped(pPBuf)
      /\ spDelayReqPBuf.req = reqNo /\ Counter = delay_reqSequenceID
  BY <1>1 DEF ExchangeShape, ReqBufHeld, AcceptResp, Goto, Counter, Stamped
<1>3. reqNo \in Nat /\ resetMark \in Nat /\ delay_reqSequenceID \in SeqId
  BY DEF TypeOK, DataOK
<1>4. pPBuf.of \in 1 .. reqNo
  BY <1>2 DEF Numbered
<1>5. CASE pPBuf.of <= resetMark
  BY <1>4, <1>5
<1>6. CASE pPBuf.of > resetMark
  <2> DEFINE a == delay_reqSequenceID
             b == delay_reqSequenceID - (reqNo - pPBuf.of)
  <2>1. a = b % SeqMod
    BY <1>1, <1>2, <1>6 DEF Numbered
  <2>2. a % SeqMod = b % SeqMod
    BY <2>1, <1>3, ModOfSeqId
  <2>3. a \in Int /\ b \in Int /\ a - b = reqNo - pPBuf.of
    BY <1>3, <1>4 DEF SeqId
  <2> HIDE DEF a, b
  <2>4. a = b \/ a - b >= SeqMod \/ b - a >= SeqMod
    BY <2>2, <2>3, ModApart
  <2>5. a - b = 0 \/ a - b >= SeqMod
    BY <2>3, <2>4, <1>3, <1>4
  <2>6. CASE a - b = 0
    BY <2>3, <2>6, <1>2, <1>3, <1>4 DEF Stamped
  <2>7. CASE a - b >= SeqMod
    BY <2>3, <2>7, <1>2, <1>4
  <2> QED BY <2>5, <2>6, <2>7
<1> QED BY <1>3, <1>4, <1>5, <1>6

LEMMA ExchangeMatchedKept ==
    ASSUME TypeOK, ExchangeShape, [Next]_vars
    PROVE  ExchangeMatched'
<1> USE DEF ExchangeMatched
<1>1. CASE AcceptResp
  <2>1. syncData'.t3 = spDelayReqPBuf /\ syncData'.t4 = pPBuf.of /\ resetMark' = resetMark
    BY <1>1 DEF AcceptResp, cliVars, TypeOK, DataOK
  <2> QED BY <1>1, <2>1, AcceptMatches
<1>2. CASE PtpTask /\ ~AcceptResp
  BY <1>2 DEF PtpTask, Receive, DispatchSync, DispatchFollowUp, DispatchOther,
     EnterWaitFollowUp, StartTimer, Wake, PrepareReq, SendReq, EnterWaitDelayResp,
     RejectResp, JumpClock, RunServo, StoreError, SetAddend, EnterIdle, StopTimer, Free,
     Goto
<1>3. CASE ResetSeq
  <2>1. /\ resetMark <= resetMark' /\ syncData' = syncData /\ pc' = pc
        /\ resetMark \in Nat /\ resetMark' \in Nat
    BY <1>3 DEF ResetSeq, taskVars, ExchangeShape, TypeOK, DataOK
  <2>2. ExchangeMatched /\ syncData.t4 \in Nat
    BY DEF ExchangeShape, TypeOK, DataOK
  <2>3. syncData.t4 <= resetMark => syncData.t4 <= resetMark'
    BY <2>1, <2>2
  <2> QED BY <2>1, <2>2, <2>3
<1>4. CASE TimerExpire \/ StaleExpire \/ ResetState \/ ResetAddend \/ ResetServo
  BY <1>4 DEF ExchangeShape, TimerExpire, StaleExpire, ResetState, ResetAddend, ResetServo,
     machineVars, cliVars, taskVars
<1>5. CASE Network
  BY <1>5 DEF ExchangeShape, Network, Deliver, DeliverCopy, DeliverForeign, RecvCbBlocks, MasterSync,
     Transmit, machineVars, cliVars, taskVars
<1>6. CASE UNCHANGED vars
  BY <1>6 DEF ExchangeShape, vars, machineVars, cliVars
<1>7. CASE Restart
  BY <1>7 DEF Restart
<1> QED BY <1>1, <1>2, <1>3, <1>4, <1>5, <1>6, <1>7 DEF Next, CliReset

LEMMA CheckedTypeKept ==
    ASSUME TypeOK, ExchangeShape, [Next]_vars
    PROVE  pc' = "CheckResp" => pPBuf'.type = "Delay_Resp"
<1>1. CASE PtpTask
  BY <1>1 DEF PtpTask, Receive, DispatchSync, DispatchFollowUp, DispatchOther,
     TakesDelayResp, EnterWaitFollowUp, StartTimer, Wake, PrepareReq, SendReq,
     EnterWaitDelayResp, AcceptResp, RejectResp, JumpClock, RunServo, StoreError,
     SetAddend, EnterIdle, StopTimer, Free, Goto
<1>2. CASE TimerExpire \/ StaleExpire \/ CliReset
  BY <1>2 DEF ExchangeShape, TimerExpire, StaleExpire, ptp_reset_state, CliReset,
     ResetState, ResetSeq, ResetAddend, ResetServo, taskVars
<1>3. CASE Network
  BY <1>3 DEF ExchangeShape, Network, Deliver, DeliverCopy, DeliverForeign, RecvCbBlocks, MasterSync,
     Transmit, taskVars
<1>4. CASE UNCHANGED vars \/ Restart
  BY <1>4 DEF ExchangeShape, vars, Restart
<1> QED BY <1>1, <1>2, <1>3, <1>4 DEF Next

\* The pbuf of a Delay_Req is held from its allocation to the end of the wait.
ReqPrepared ==
    /\ pc \in {"SendReq", "EnterWaitDelayResp"} => spDelayReqPBuf.req > 0
    /\ ReqBufHeld

LEMMA ReqPreparedKept ==
    ASSUME TypeOK, ReqPrepared, [Next]_vars
    PROVE  ReqPrepared'
<1> USE DEF ReqPrepared, ReqBufHeld, Goto, machineVars
<1>1. CASE PrepareReq
  BY <1>1 DEF PrepareReq, TypeOK, DataOK
<1>2. CASE SendReq \/ EnterWaitDelayResp
  BY <1>2 DEF SendReq, EnterWaitDelayResp
<1>3. CASE DispatchOther
  BY <1>3 DEF DispatchOther, TakesDelayResp
<1>4. CASE Receive \/ DispatchSync \/ DispatchFollowUp \/ EnterWaitFollowUp \/ StartTimer
           \/ Wake \/ AcceptResp \/ RejectResp \/ JumpClock \/ RunServo \/ StoreError
           \/ SetAddend \/ EnterIdle \/ StopTimer \/ Free
  BY <1>4 DEF Receive, DispatchSync, DispatchFollowUp, EnterWaitFollowUp, StartTimer, Wake,
     AcceptResp, RejectResp, JumpClock, RunServo, StoreError, SetAddend, EnterIdle,
     StopTimer, Free
<1>5. CASE TimerExpire \/ StaleExpire \/ CliReset
  BY <1>5 DEF TimerExpire, StaleExpire, ptp_reset_state, CliReset, ResetState, ResetSeq,
     ResetAddend, ResetServo, taskVars
<1>6. CASE \E r \in txPending : Transmit(r)
  <2> PICK r \in txPending : Transmit(r)
    BY <1>6
  <2> QED BY TransmitFrame DEF Transmit
<1>7. CASE Network /\ \A r \in txPending : ~Transmit(r)
  BY <1>7 DEF Network, Deliver, DeliverCopy, DeliverForeign, RecvCbBlocks, MasterSync, taskVars
<1>8. CASE Restart
  BY <1>8, RestartFrame
<1>9. CASE UNCHANGED vars
  BY <1>9 DEF vars
<1> QED BY <1>1, <1>2, <1>3, <1>4, <1>5, <1>6, <1>7, <1>8, <1>9 DEF Next, PtpTask

LEMMA ExchangeShapeStep == TypeOK /\ ExchangeShape /\ [Next]_vars => ExchangeShape'
<1> SUFFICES ASSUME TypeOK, ExchangeShape, [Next]_vars PROVE ExchangeShape'
  OBVIOUS
<1> DEFINE LastReq == IF pc = "SendReq" THEN reqNo + 1 ELSE reqNo
           Held == spDelayReqPBuf.req = LastReq \/ spDelayReqPBuf.req = 0
<1>1. resetMark' <= reqNo' /\ Held'
  <2>0. /\ resetMark <= reqNo /\ reqNo \in Nat /\ resetMark \in Nat /\ Held
        /\ pc = "SendReq" => spDelayReqPBuf.req = reqNo + 1
    BY DEF ExchangeShape, TypeOK, DataOK
  <2>1. CASE SendReq
    BY <2>0, <2>1 DEF SendReq, Goto, cliVars
  <2>2. CASE PrepareReq
    BY <2>0, <2>2 DEF PrepareReq, Goto, cliVars
  <2>3. CASE ResetSeq
    BY <2>0, <2>3 DEF ResetSeq, taskVars
  <2>4. CASE \E r \in txPending : Transmit(r)
    BY <2>0, <2>4, TransmitFrame
  <2>5. CASE Restart
    BY <2>0, <2>5, RestartFrame
  <2>6. CASE /\ ~SendReq /\ ~PrepareReq /\ ~ResetSeq /\ ~Restart
             /\ \A r \in txPending : ~Transmit(r)
    BY <2>0, <2>6, NumberingFrame
  <2> QED BY <2>1, <2>2, <2>3, <2>4, <2>5, <2>6
<1>2. ReqPrepared'
  BY ReqPreparedKept DEF ReqPrepared, ExchangeShape
<1> QED BY <1>1, <1>2, RequestsNumbered, AnswersNumbered, CheckedTypeKept,
           ExchangeMatchedKept DEF ExchangeShape, Stamped, AnswersUs, ReqPrepared

\* A correction uses the Delay_Resp to the very Delay_Req that t3 times, and t3 has
\* been stamped, unless a reset or a full turn of the counter came between.
THEOREM ExchangesMatch == Spec => []ExchangeMatched
<1>1. Init => ExchangeShape
  BY DEF Init, ExchangeShape, ReqBufHeld, ExchangeMatched, Packets, NoPacket, NullBuf,
     AnswersUs, Range
<1>2. ExchangeShape => ExchangeMatched
  BY DEF ExchangeShape
<1> QED BY <1>1, <1>2, ExchangeShapeStep, TypeCorrect, PTL DEF Spec

\* spDelayReqPBuf is never NULL when t3 is read from it, whatever session it is.
THEOREM ReqBufNeverNull == Spec => []ReqBufHeld
<1>1. Init => ReqPrepared
  BY DEF Init, ReqPrepared, ReqBufHeld
<1>2. ReqPrepared => ReqBufHeld
  BY DEF ReqPrepared
<1> QED BY <1>1, <1>2, ReqPreparedKept, TypeCorrect, PTL DEF Spec

\* The inductive invariant as a whole.
THEOREM InductiveInvariant == Spec => []IInv
<1>1. Init => CycleShape /\ SyncShape /\ ExchangeShape
  <2>1. 0 % SeqMod = 0
    OBVIOUS
  <2> QED BY <2>1 DEF Init, CycleShape, FollowUpWaitIsTimed, SyncShape, Paired,
             ExchangeShape, ReqBufHeld, ExchangeMatched, Packets, NoPacket, NullBuf,
             AnswersUs, Range
<1> QED BY <1>1, CycleShapeStep, SyncShapeStep, ExchangeShapeStep, TypeCorrect, PTL
        DEF Spec, IInv

-----------------------------------------------------------------------------
(***************************************************************************)
(* PtpSlave implements SyncCycle.                                          *)
(***************************************************************************)
LEMMA PhaseOf ==
    /\ pc = "EnterWaitFollowUp" => CyclePhase = "synced"
    /\ pc \in {"Delay", "PrepareReq", "SendReq"} => CyclePhase = "paired"
    /\ pc \in {"EnterWaitDelayResp", "CheckResp", "Correct"} => CyclePhase = "asked"
    /\ pc \in {"StoreError", "SetAddend", "EnterIdle", "StopTimer"} => CyclePhase = "idle"
    /\ pc \in {"Receive", "Dispatch", "StartTimer", "Free"} =>
          /\ state = "SIdle" => CyclePhase = "idle"
          /\ state = "SWaitFollowUp" => CyclePhase = "synced"
          /\ state = "SWaitDelayResp" => CyclePhase = "asked"
BY DEF CyclePhase, StatePhase

LEMMA PhaseOfNext ==
    /\ pc' = "EnterWaitFollowUp" => CyclePhase' = "synced"
    /\ pc' \in {"Delay", "PrepareReq", "SendReq"} => CyclePhase' = "paired"
    /\ pc' \in {"EnterWaitDelayResp", "CheckResp", "Correct"} => CyclePhase' = "asked"
    /\ pc' \in {"StoreError", "SetAddend", "EnterIdle", "StopTimer"} => CyclePhase' = "idle"
    /\ pc' \in {"Receive", "Dispatch", "StartTimer", "Free"} =>
          /\ state' = "SIdle" => CyclePhase' = "idle"
          /\ state' = "SWaitFollowUp" => CyclePhase' = "synced"
          /\ state' = "SWaitDelayResp" => CyclePhase' = "asked"
BY DEF CyclePhase, StatePhase

LEMMA CycleStep ==
    ASSUME TypeOK, CycleShape, [Next]_vars
    PROVE  [Cycle!CycleNext]_(Cycle!cycleVars)
<1> DEFINE Same == UNCHANGED <<CyclePhase, reqNo, corrections, restarts>>
<1>0. Same => UNCHANGED Cycle!cycleVars
  BY DEF Cycle!cycleVars
<1> USE DEF Goto, machineVars, tuneVars, cliVars
<1>1. CASE DispatchSync
  <2>1. Cycle!TakeSync
    BY <1>1, PhaseOf, PhaseOfNext DEF DispatchSync, TakesSync, Cycle!TakeSync
  <2> QED BY <2>1 DEF Cycle!CycleNext
<1>2. CASE DispatchFollowUp
  <2>1. Cycle!TakeFollowUp
    BY <1>2, PhaseOf, PhaseOfNext DEF DispatchFollowUp, TakesFollowUp, Cycle!TakeFollowUp
  <2> QED BY <2>1 DEF Cycle!CycleNext
<1>3. CASE SendReq
  <2>1. Cycle!Ask
    BY <1>3, PhaseOf, PhaseOfNext DEF SendReq, Cycle!Ask
  <2> QED BY <2>1 DEF Cycle!CycleNext
<1>4. CASE JumpClock \/ RunServo
  <2>1. Cycle!Correct
    BY <1>4, PhaseOf, PhaseOfNext DEF JumpClock, RunServo, Cycle!Correct
  <2> QED BY <2>1 DEF Cycle!CycleNext
<1>5. CASE RejectResp
  <2>1. Same \/ Cycle!Abandon
    BY <1>5, PhaseOf, PhaseOfNext DEF RejectResp, CycleShape, Cycle!Abandon, TypeOK, DataOK
  <2> QED BY <2>1, <1>0 DEF Cycle!CycleNext
<1>6. CASE TimerExpire \/ StaleExpire \/ CliReset
  <2>1. /\ pc' = pc /\ reqNo' = reqNo /\ corrections' = corrections
        /\ restarts' = restarts
        /\ state' = state \/ state' = "SIdle"
    BY <1>6 DEF TimerExpire, StaleExpire, ptp_reset_state, CliReset, ResetState, ResetSeq,
       ResetAddend, ResetServo, taskVars
  <2>2. Same \/ Cycle!Abandon
    BY <2>1, PhaseOf, PhaseOfNext DEF Cycle!Abandon, TypeOK, DataOK
  <2> QED BY <2>2, <1>0 DEF Cycle!CycleNext
<1>7. CASE Receive \/ DispatchOther \/ Free \/ EnterWaitFollowUp \/ StartTimer
  <2>1. Same
    BY <1>7, PhaseOf, PhaseOfNext DEF Receive, DispatchOther, TakesDelayResp, Free,
       EnterWaitFollowUp, StartTimer, TypeOK, DataOK
  <2> QED BY <2>1, <1>0
<1>8. CASE Wake \/ PrepareReq \/ EnterWaitDelayResp \/ AcceptResp \/ StoreError
           \/ SetAddend \/ EnterIdle
  <2>1. Same
    BY <1>8, PhaseOf, PhaseOfNext DEF Wake, PrepareReq, EnterWaitDelayResp, AcceptResp,
       StoreError, SetAddend, EnterIdle
  <2> QED BY <2>1, <1>0
<1>9. CASE StopTimer
  <2>1. Same
    BY <1>9, PhaseOf, PhaseOfNext DEF StopTimer, CycleShape
  <2> QED BY <2>1, <1>0
<1>10. CASE Network \/ UNCHANGED vars
  <2>1. /\ pc' = pc /\ state' = state /\ reqNo' = reqNo /\ corrections' = corrections
        /\ restarts' = restarts
    BY <1>10 DEF Network, Deliver, DeliverCopy, DeliverForeign, RecvCbBlocks, MasterSync, Transmit,
       taskVars, vars
  <2>2. Same
    BY <2>1 DEF CyclePhase, StatePhase
  <2> QED BY <2>2, <1>0
<1>11. CASE Restart
  <2>1. Cycle!EndSession
    BY <1>11, RestartFrame, PhaseOfNext DEF Restart, Cycle!EndSession
  <2> QED BY <2>1 DEF Cycle!CycleNext
<1> QED BY <1>1, <1>2, <1>3, <1>4, <1>5, <1>6, <1>7, <1>8, <1>9, <1>10, <1>11
        DEF Next, PtpTask

\* Whatever timeouts, resets, new sessions, losses and duplicates come between, the
\* slave goes through the cycles of SyncCycle: one Delay_Req per Sync, one correction at most.
THEOREM Refinement == Spec => ImplementsCycle
<1>1. Init => Cycle!CycleInit /\ CycleShape
  BY PhaseOf DEF Init, Cycle!CycleInit, CycleShape, FollowUpWaitIsTimed
<1> QED BY <1>1, CycleStep, CycleShapeStep, TypeCorrect, PTL
        DEF Spec, ImplementsCycle, Cycle!CycleSpec

\* A correction is never made without a Delay_Req of its own.
THEOREM RequestPerCorrection == Spec => []OneRequestEach
BY Refinement, Cycle!OneRequestSafe, PTL DEF ImplementsCycle, OneRequestEach

=============================================================================
