-------------------------- MODULE LifecycleProofs --------------------------
(***************************************************************************)
(* Lifecycle for every FIFO length, timeout and number of sessions, with   *)
(* and without failures of xTaskCreate().                                  *)
(***************************************************************************)
EXTENDS Lifecycle, FiniteSetTheorems, TLAPS

USE LifecycleAssumption

-----------------------------------------------------------------------------
(***************************************************************************)
(* The inductive invariant.                                                *)
(***************************************************************************)
LEMMA InitInv == Init => LifeInv
<1> SUFFICES ASSUME Init PROVE LifeInv
  OBVIOUS
<1> USE DEF Init
<1>1. TypeOK
  <2>1. timer \in [Sessions -> 0 .. (RespPolls + 1)]
    OBVIOUS
  <2>2. FifoLength \in Nat /\ 0 \in 0 .. FifoLength /\ 0 \in 0 .. MaxSessions
    OBVIOUS
  <2> QED BY <2>1, <2>2 DEF TypeOK, Ports
<1>2. SessionShape
  BY DEF SessionShape
<1>3. TimersAge
  BY DEF TimersAge
<1> QED BY <1>1, <1>2, <1>3 DEF LifeInv

\* A poll ages every timer by one.
LEMMA PollAges ==
    ASSUME timer \in [Sessions -> 0 .. (RespPolls + 1)], PollPasses
    PROVE  /\ timer' \in [Sessions -> 0 .. (RespPolls + 1)]
           /\ \A s \in Sessions : timer'[s] > 0 => timer[s] > 0 /\ timer'[s] = timer[s] - 1
BY DEF PollPasses

LEMMA TypeStep == LifeInv /\ [Next]_lifeVars => TypeOK'
<1> SUFFICES ASSUME LifeInv, [Next]_lifeVars PROVE TypeOK'
  OBVIOUS
<1> USE DEF LifeInv, TypeOK, ethVars, handleVars, packetVars
<1>1. CASE PollStart
  BY <1>1, PollAges DEF PollStart, Goto
<1>2. CASE PollStop
  BY <1>2, PollAges DEF PollStop, Goto
<1>3. CASE PollNothing
  BY <1>3, PollAges DEF PollNothing
<1>4. CASE CreateFifo
  BY <1>4 DEF CreateFifo, Goto
<1>5. ASSUME NEW port \in Ports, Listen(port) PROVE TypeOK'
  BY <1>5 DEF Listen, Goto
<1>6. CASE PtpInit
  <2>1. leaked' \in Nat
    BY <1>6 DEF PtpInit
  <2> QED BY <1>6, <2>1 DEF PtpInit, Goto
<1>7. CASE CreateTask
  BY <1>7 DEF CreateTask, Goto, SessionShape, Sessions
<1>8. CASE DeleteTask
  BY <1>8 DEF DeleteTask, Goto
<1>9. ASSUME NEW port \in Ports, Remove(port) PROVE TypeOK'
  BY <1>9 DEF Remove, Goto
<1>10. CASE DeleteFifo
  BY <1>10 DEF DeleteFifo, Goto
<1>11. CASE Take
  BY <1>11 DEF Take
<1>12. CASE Process
  <2>1. RespPolls + 1 \in 0 .. (RespPolls + 1) /\ 0 \in 0 .. (RespPolls + 1)
    OBVIOUS
  <2>2. timer' \in [Sessions -> 0 .. (RespPolls + 1)]
    BY <1>12, <2>1 DEF Process
  <2> QED BY <1>12, <2>2 DEF Process
<1>13. CASE Release
  BY <1>13 DEF Release
<1>14. ASSUME NEW port \in Ports, RecvCb(port) PROVE TypeOK'
  BY <1>14 DEF RecvCb
<1>15. ASSUME NEW ip \in {"zero", "ones", "valid"}, AddressChange(ip) PROVE TypeOK'
  BY <1>15 DEF AddressChange
<1>16. ASSUME NEW s \in Sessions, Expire(s) PROVE TypeOK'
  BY <1>16 DEF Expire
<1>17. CASE UNCHANGED lifeVars
  BY <1>17 DEF lifeVars
<1> QED BY <1>1, <1>2, <1>3, <1>4, <1>5, <1>6, <1>7, <1>8, <1>9, <1>10, <1>11, <1>12,
     <1>13, <1>14, <1>15, <1>16, <1>17 DEF Next, EthTask, PtpTask

LEMMA ShapeStep == LifeInv /\ [Next]_lifeVars => SessionShape'
<1> SUFFICES ASSUME LifeInv, [Next]_lifeVars PROVE SessionShape'
  OBVIOUS
<1> USE DEF LifeInv, TypeOK, SessionShape, ethVars, handleVars, packetVars
<1>1. CASE PollStart
  BY <1>1 DEF PollStart, Goto
<1>2. CASE PollStop
  BY <1>2 DEF PollStop, Goto
<1>3. CASE PollNothing
  BY <1>3 DEF PollNothing
<1>4. CASE CreateFifo
  BY <1>4 DEF CreateFifo, Goto
<1>5. ASSUME NEW port \in Ports, Listen(port) PROVE SessionShape'
  BY <1>5 DEF Listen, Goto, Ports
<1>6. CASE PtpInit
  BY <1>6 DEF PtpInit, Goto
<1>7. CASE CreateTask
  BY <1>7 DEF CreateTask, Goto
<1>8. CASE DeleteTask
  BY <1>8 DEF DeleteTask, Goto
<1>9. ASSUME NEW port \in Ports, Remove(port) PROVE SessionShape'
  BY <1>9 DEF Remove, Goto, Ports
<1>10. CASE DeleteFifo
  BY <1>10 DEF DeleteFifo, Goto
<1>11. CASE PtpTask
  BY <1>11 DEF PtpTask, Take, Process, Release
<1>12. ASSUME NEW port \in Ports, RecvCb(port) PROVE SessionShape'
  BY <1>12 DEF RecvCb
<1>13. ASSUME NEW ip \in {"zero", "ones", "valid"}, AddressChange(ip) PROVE SessionShape'
  BY <1>13 DEF AddressChange
<1>14. ASSUME NEW s \in Sessions, Expire(s) PROVE SessionShape'
  BY <1>14 DEF Expire
<1>15. CASE UNCHANGED lifeVars
  BY <1>15 DEF lifeVars
<1> QED BY <1>1, <1>2, <1>3, <1>4, <1>5, <1>6, <1>7, <1>8, <1>9, <1>10, <1>11, <1>12,
     <1>13, <1>14, <1>15 DEF Next, EthTask

LEMMA TimersStep == LifeInv /\ [Next]_lifeVars => TimersAge'
<1> SUFFICES ASSUME LifeInv, [Next]_lifeVars PROVE TimersAge'
  OBVIOUS
<1> USE DEF LifeInv, TypeOK, TimersAge, ethVars, handleVars, packetVars
<1>1. CASE PollStart
  BY <1>1, PollAges DEF PollStart, Sessions
<1>2. CASE PollStop
  BY <1>2, PollAges DEF PollStop, Sessions
<1>3. CASE PollNothing
  BY <1>3, PollAges DEF PollNothing, Sessions
<1>4. CASE Process
  BY <1>4 DEF Process, Sessions
<1>5. ASSUME NEW s \in Sessions, Expire(s) PROVE TimersAge'
  BY <1>5 DEF Expire
<1>6. CASE UNCHANGED <<session, isConnected, timer>>
  BY <1>6
<1>7. CASE \/ CreateFifo \/ (\E port \in Ports : Listen(port) \/ Remove(port) \/ RecvCb(port))
           \/ PtpInit \/ CreateTask \/ DeleteTask \/ DeleteFifo \/ Take \/ Release
           \/ (\E ip \in {"zero", "ones", "valid"} : AddressChange(ip)) \/ UNCHANGED lifeVars
  <2>1. UNCHANGED <<session, isConnected, timer>>
    BY <1>7 DEF CreateFifo, Listen, Remove, RecvCb, PtpInit, CreateTask, DeleteTask,
       DeleteFifo, Take, Release, AddressChange, lifeVars
  <2> QED BY <2>1, <1>6
<1> QED BY <1>1, <1>2, <1>3, <1>4, <1>5, <1>7 DEF Next, EthTask, PtpTask

THEOREM LifecycleInvariant == Spec => []LifeInv
<1>1. LifeInv /\ [Next]_lifeVars => LifeInv'
  BY TypeStep, ShapeStep, TimersStep DEF LifeInv
<1> QED BY InitInv, <1>1, PTL DEF Spec

-----------------------------------------------------------------------------
(***************************************************************************)
(* What it is good for.                                                    *)
(***************************************************************************)
\* ptp_recv_cb() always has a FIFO to put its packet in, at every point where the
\* lwIP thread may preempt the Eth task.
THEOREM CallbackSafe == Spec => []CallbackHasFifo
<1>1. LifeInv => CallbackHasFifo
  BY DEF LifeInv, SessionShape, CallbackHasFifo
<1> QED BY <1>1, LifecycleInvariant, PTL

\* A PTP task never outlives its session or runs ahead of its set-up.
THEOREM TaskReady == Spec => []TaskIsReady
<1>1. LifeInv => TaskIsReady
  BY DEF LifeInv, SessionShape, TaskIsReady
<1> QED BY <1>1, LifecycleInvariant, PTL

\* If xTaskCreate() never fails, vTaskDelete() always gets the handle of the task
\* that runs.
THEOREM DeletesOwnTask ==
    ASSUME ~TaskCreateFails
    PROVE  Spec => []DeletesPtpTask
<1>1. LifeInv => DeletesPtpTask
  BY DEF LifeInv, SessionShape, DeletesPtpTask
<1> QED BY <1>1, LifecycleInvariant, PTL

\* However fast the address flaps, few timers of earlier sessions are left to fire
\* into a session: two for a timeout of four polls.
THEOREM StaleTimersFew == Spec => []StaleTimersBounded
<1>1. LifeInv => StaleTimersBounded
  <2> SUFFICES ASSUME LifeInv PROVE StaleTimersBounded
    OBVIOUS
  <2> USE DEF LifeInv, TypeOK, TimersAge
  <2>1. PICK reach \in Nat : 2 * reach <= RespPolls + 1 /\ RespPolls + 1 < 2 * reach + 2
    <3>1. /\ (RespPolls + 1) \div 2 \in Nat
          /\ 2 * ((RespPolls + 1) \div 2) <= RespPolls + 1
          /\ RespPolls + 1 < 2 * ((RespPolls + 1) \div 2) + 2
      OBVIOUS
    <3> QED BY <3>1
  <2> DEFINE recent == (session - reach) .. (session - 1)
  <2>2. StaleTimers \subseteq recent
    <3> SUFFICES ASSUME NEW s \in StaleTimers PROVE s \in recent
      OBVIOUS
    <3>1. s \in Nat /\ s # session /\ timer[s] \in Nat /\ timer[s] > 0 /\ s \in Sessions
      BY DEF StaleTimers, Sessions
    <3>2. s <= session /\ timer[s] + 2 * (session - s) <= RespPolls + 2
      BY <3>1
    <3>3. 2 * (session - s) <= RespPolls + 1
      BY <3>1, <3>2
    <3>4. session - s <= reach
      BY <2>1, <3>1, <3>3
    <3> QED BY <3>1, <3>2, <3>4
  <2>3. IsFiniteSet(recent) /\ Cardinality(recent) = reach
    <3>1. session - reach \in Int /\ session - 1 \in Int
      BY <2>1
    <3> QED BY <2>1, <3>1, FS_Interval
  <2>4. Cardinality(StaleTimers) \in Nat /\ Cardinality(StaleTimers) <= reach
    BY <2>2, <2>3, FS_Subset, FS_CardinalityType
  <2> QED BY <2>1, <2>4 DEF StaleTimersBounded
<1> QED BY <1>1, LifecycleInvariant, PTL

-----------------------------------------------------------------------------
(***************************************************************************)
(* What a session may lose.  A packet is lost with the task that has it in *)
(* hand and with the FIFO that it waits in, a Delay_Req when ptp_init()    *)
(* overwrites the reference to it in the next session.                     *)
(***************************************************************************)
One(flag) == IF flag THEN 1 ELSE 0
Quota == FifoLength + 2
Between == eth = "Poll" /\ ~isConnected

SetUp == eth \in {"CreateFifo", "Listen", "PtpInit"}
TornDown == eth \in {"Remove", "DeleteFifo", "Lost"}

LeakInv ==
    /\ Between \/ SetUp \/ eth \in {"Remove", "DeleteFifo"} => ~hand
    /\ Between => leaked + One(held) <= session * Quota
    /\ SetUp => leaked + One(held) <= (session - 1) * Quota
    /\ TornDown => leaked + One(held) <= (session - 1) * Quota + 2
    /\ ~Between /\ ~TornDown => leaked <= (session - 1) * Quota

\* The quota of one more session.
LEMMA QuotaGrows ==
    ASSUME NEW n \in Int
    PROVE  n * Quota \in Int /\ n * Quota = (n - 1) * Quota + Quota
<1>1. Quota \in Int
  BY DEF Quota
<1> HIDE DEF Quota
<1> QED BY <1>1

LEMMA LeakStep == LifeInv /\ LeakInv /\ [Next]_lifeVars => LeakInv'
<1> SUFFICES ASSUME LifeInv, LeakInv, [Next]_lifeVars PROVE LeakInv'
  OBVIOUS
<1> DEFINE full == session * Quota
           past == (session - 1) * Quota
<1>1. full \in Int /\ past \in Int /\ full = past + Quota /\ Quota = FifoLength + 2
  BY QuotaGrows DEF LifeInv, TypeOK, Quota
<1>2. UNCHANGED session => session' * Quota = full /\ (session' - 1) * Quota = past
  OBVIOUS
<1>3. session' = session + 1 => (session' - 1) * Quota = full
  BY DEF LifeInv, TypeOK
<1> HIDE DEF full, past
<1>4. /\ Between \/ SetUp \/ eth \in {"Remove", "DeleteFifo"} => ~hand
      /\ Between => leaked + One(held) <= full
      /\ SetUp => leaked + One(held) <= past
      /\ TornDown => leaked + One(held) <= past + 2
      /\ ~Between /\ ~TornDown => leaked <= past
  BY DEF LeakInv, full, past
<1>5. LifeInv'
  BY TypeStep, ShapeStep, TimersStep DEF LifeInv
<1>6. /\ leaked \in Nat /\ queued \in 0 .. FifoLength /\ FifoLength \in Nat
      /\ hand \in BOOLEAN /\ held \in BOOLEAN /\ isConnected \in BOOLEAN
  BY DEF LifeInv, TypeOK
<1> USE DEF Between, SetUp, TornDown, One, Goto, ethVars, handleVars, packetVars
<1>7. CASE PollStart
  BY <1>1, <1>3, <1>4, <1>6, <1>7 DEF PollStart, LeakInv
<1>8. CASE PollStop \/ PollNothing
  BY <1>1, <1>2, <1>4, <1>6, <1>8 DEF PollStop, PollNothing, LeakInv
<1>9. CASE CreateFifo \/ \E port \in Ports : Listen(port)
  BY <1>1, <1>2, <1>4, <1>6, <1>9 DEF CreateFifo, Listen, LeakInv
<1>10. CASE PtpInit
  BY <1>1, <1>2, <1>4, <1>6, <1>10 DEF PtpInit, LeakInv
<1>11. CASE CreateTask
  BY <1>1, <1>2, <1>4, <1>6, <1>11 DEF CreateTask, LeakInv, LifeInv, SessionShape
<1>12. CASE DeleteTask
  <2>1. ~Between /\ ~TornDown
    BY <1>12 DEF DeleteTask
  <2>2. /\ UNCHANGED <<session, held>> /\ eth' \in {"Remove", "Lost"}
        /\ leaked' \in {leaked, leaked + 1} /\ (eth' = "Remove" => ~hand')
    BY <1>12 DEF DeleteTask
  <2> QED BY <1>1, <1>2, <1>4, <1>6, <2>1, <2>2 DEF LeakInv
<1>13. CASE \E port \in Ports : Remove(port)
  BY <1>1, <1>2, <1>4, <1>6, <1>13 DEF Remove, LeakInv
<1>14. CASE DeleteFifo
  BY <1>1, <1>2, <1>4, <1>6, <1>14 DEF DeleteFifo, LeakInv, LifeInv, SessionShape
<1>15. CASE PtpTask
  <2>1. ~Between /\ ~SetUp /\ ~TornDown
    BY <1>15 DEF PtpTask, Take, Process, Release, Runs, LifeInv, SessionShape
  <2>2. UNCHANGED <<session, eth, isConnected, leaked>>
    BY <1>15 DEF PtpTask, Take, Process, Release
  <2> QED BY <1>2, <1>4, <2>1, <2>2 DEF LeakInv
<1>16. CASE UNCHANGED <<session, eth, isConnected, leaked, hand, held>>
  BY <1>4, <1>2, <1>16 DEF LeakInv
<1>17. ASSUME NEW port \in Ports, RecvCb(port) PROVE LeakInv'
  BY <1>16, <1>17 DEF RecvCb
<1>18. ASSUME NEW ip \in {"zero", "ones", "valid"}, AddressChange(ip) PROVE LeakInv'
  BY <1>16, <1>18 DEF AddressChange
<1>19. ASSUME NEW s \in Sessions, Expire(s) PROVE LeakInv'
  BY <1>16, <1>19 DEF Expire
<1>20. CASE UNCHANGED lifeVars
  BY <1>16, <1>20 DEF lifeVars
<1> QED BY <1>7, <1>8, <1>9, <1>10, <1>11, <1>12, <1>13, <1>14, <1>15, <1>17, <1>18, <1>19,
     <1>20 DEF Next, EthTask

\* Each session loses at most FifoLength + 2 pbufs, however it is cut short.
THEOREM LeakIsBounded == Spec => []LeakBounded
<1>1. Init => LeakInv
  <2>1. 0 * Quota = 0
    BY DEF Quota
  <2> QED BY <2>1 DEF Init, LeakInv, Between, SetUp, TornDown, One
<1>2. LifeInv /\ LeakInv => LeakBounded
  <2> SUFFICES ASSUME LifeInv, LeakInv PROVE LeakBounded
    OBVIOUS
  <2>1. LeakBounded <=> leaked <= session * Quota
    BY DEF LeakBounded, Quota
  <2>2. session * Quota \in Int /\ session * Quota = (session - 1) * Quota + Quota
    BY QuotaGrows DEF LifeInv, TypeOK
  <2>3. Quota >= 2 /\ Quota \in Int /\ leaked \in Nat /\ (session - 1) * Quota \in Int
    BY QuotaGrows DEF Quota, LifeInv, TypeOK
  <2>4. leaked <= session * Quota
    BY <2>2, <2>3 DEF LeakInv, Between, SetUp, TornDown, One, LifeInv, TypeOK
  <2> QED BY <2>1, <2>4
<1> QED BY <1>1, <1>2, LeakStep, LifecycleInvariant, PTL DEF Spec
=============================================================================
