----------------------------- MODULE Lifecycle -----------------------------
(***************************************************************************)
(* Starting and stopping PTP sessions.  task_eth() of tasks/task_eth.c     *)
(* polls the IP address and registers the PTP task when an address has     *)
(* come, unregisters it when the address has gone; reg_task_ptp() and      *)
(* unreg_task_ptp() of tasks/task_ptp.c create and destroy the FIFO, the   *)
(* UDP listeners and the task.  The lwIP thread, which preempts the Eth    *)
(* task, and the PTP task, which shares its priority, go on in between;    *)
(* what a session does with its packets is the business of PtpSlave.       *)
(***************************************************************************)
EXTENDS Naturals, FiniteSets

CONSTANTS
    FifoLength,      (* PACKET_FIFO_LENGTH, 32 in the code                    *)
    RespPolls,       (* RESP_TIMEOUT in polling periods, 2000 ms / 500 ms     *)
    TaskCreateFails, (* whether xTaskCreate() may fail for want of memory     *)
    MaxSessions      (* bound: sessions started                               *)

ASSUME LifecycleAssumption ==
    /\ FifoLength \in Nat \ {0} /\ RespPolls \in Nat /\ MaxSessions \in Nat
    /\ TaskCreateFails \in BOOLEAN

VARIABLES
    address,       (* what lwIPLocalIPAddrGet() returns                       *)
    isConnected,   (* sState.isConnected of task_eth.c                        *)
    eth,           (* program counter of the Eth task                         *)
    session,       (* number of the session started last                      *)
    sTH,           (* session whose task the handle denotes, 0 for NULL       *)
    tasks,         (* sessions whose PTP task exists                          *)
    queue,         (* session whose sPacketFIFO exists, 0 if none             *)
    listening,     (* ports ptp_recv_cb() is registered on                    *)
    queued,        (* packets in sPacketFIFO                                  *)
    blocked,       (* FIFO the lwIP thread is blocked on, 0 if none           *)
    hand,          (* the PTP task has a packet in hand                       *)
    held,          (* spDelayReqPBuf # NULL                                   *)
    leaked,        (* packets that nothing refers to any more                 *)
    timer          (* sResponseTimer of each session: 0 if it is not running,
                      else one more than the polls it can still outlast       *)

ethVars    == <<isConnected, eth>>
handleVars == <<session, sTH, tasks>>
packetVars == <<queued, blocked, hand, held, leaked>>
lifeVars   == <<address, isConnected, eth, session, sTH, tasks, queue, listening,
                queued, blocked, hand, held, leaked, timer>>

Ports == {319, 320}
Sessions == 1 .. MaxSessions

\* The statics are zero; setup() has stored "not connected".
Init ==
    /\ address = "zero" /\ isConnected = FALSE /\ eth = "Poll"
    /\ session = 0 /\ sTH = 0 /\ tasks = {}
    /\ queue = 0 /\ listening = {} /\ queued = 0 /\ blocked = 0
    /\ hand = FALSE /\ held = FALSE /\ leaked = 0
    /\ timer = [s \in Sessions |-> 0]

-----------------------------------------------------------------------------
(***************************************************************************)
(* The Eth task.                                                           *)
(***************************************************************************)
Goto(from, to) == eth = from /\ eth' = to

\* Mutant of AddrValid: the two comparisons are joined by "or".
AnyAddr(ip) == ip # "zero" \/ ip # "ones"

AddrValid(ip) == ip # "zero" /\ ip # "ones"

\* Between two polls lie 500 ms or more: no running timer outlasts more polls
\* than RESP_TIMEOUT has periods.
PollPasses ==
    /\ \A s \in Sessions : timer[s] # 1
    /\ timer' = [s \in Sessions |-> IF timer[s] = 0 THEN 0 ELSE timer[s] - 1]

PollStart ==        \* an address has come
    /\ ~isConnected /\ AddrValid(address)
    /\ session < MaxSessions
    /\ PollPasses
    /\ Goto("Poll", "CreateFifo")
    /\ isConnected' = TRUE
    /\ session' = session + 1
    /\ UNCHANGED <<address, sTH, tasks, queue, listening, packetVars>>

\* Mutant of PollStop: the connection is not marked as lost.
StopAgain ==
    /\ isConnected /\ ~AddrValid(address)
    /\ PollPasses
    /\ Goto("Poll", "DeleteTask")
    /\ UNCHANGED <<address, isConnected, handleVars, queue, listening, packetVars>>

PollStop ==         \* the address has gone
    /\ isConnected /\ ~AddrValid(address)
    /\ PollPasses
    /\ Goto("Poll", "DeleteTask")
    /\ isConnected' = FALSE
    /\ UNCHANGED <<address, handleVars, queue, listening, packetVars>>

PollNothing ==
    /\ eth = "Poll" /\ (isConnected <=> AddrValid(address))
    /\ PollPasses
    /\ UNCHANGED <<address, ethVars, handleVars, queue, listening, packetVars>>

CreateFifo ==       \* join_ptp_igmp_groups(), xQueueCreate()
    /\ Goto("CreateFifo", "Listen")
    /\ queue' = session /\ queued' = 0
    /\ UNCHANGED <<address, isConnected, handleVars, listening, blocked, hand, held,
                   leaked, timer>>

Listen(port) ==     \* udp_new(), udp_bind(), udp_recv(), port 319 first
    /\ port = IF 319 \in listening THEN 320 ELSE 319
    /\ Goto("Listen", IF port = 320 THEN "PtpInit" ELSE "Listen")
    /\ listening' = listening \cup {port}
    /\ UNCHANGED <<address, isConnected, handleVars, queue, packetVars, timer>>

\* ptp_init(): the reference to the last Delay_Req, which is not released, and the
\* handle of the last timer are overwritten, the commands registered (see Cli).
PtpInit ==
    /\ Goto("PtpInit", "CreateTask")
    /\ held' = FALSE
    /\ leaked' = IF held THEN leaked + 1 ELSE leaked
    /\ UNCHANGED <<address, isConnected, handleVars, queue, listening, queued, blocked,
                   hand, timer>>

CreateTask ==       \* xTaskCreate(); a failure is only printed
    /\ Goto("CreateTask", "Poll")
    /\ \/ tasks' = tasks \cup {session} /\ sTH' = session
       \/ TaskCreateFails /\ UNCHANGED <<tasks, sTH>>
    /\ UNCHANGED <<address, isConnected, session, queue, listening, packetVars, timer>>

\* Mutant of DeleteTask: the PTP task is left running.
LeaveTask ==
    /\ Goto("DeleteTask", "Remove")
    /\ UNCHANGED <<address, isConnected, handleVars, queue, listening, packetVars, timer>>

\* vTaskDelete(sTH): whatever the PTP task has in hand is lost with it.  A NULL
\* handle deletes the caller, a handle of a deleted task is undefined: then
\* nothing more of the Eth task is modelled.
DeleteTask ==
    /\ Goto("DeleteTask", IF sTH \in tasks THEN "Remove" ELSE "Lost")
    /\ tasks' = tasks \ {sTH}
    /\ leaked' = IF sTH \in tasks /\ hand THEN leaked + 1 ELSE leaked
    /\ hand' = (hand /\ sTH \notin tasks)
    /\ UNCHANGED <<address, isConnected, session, sTH, queue, listening, queued, blocked,
                   held, timer>>

\* Mutant of Remove: port 320 is forgotten.
RemoveOne(port) ==
    /\ port = 319
    /\ Goto("Remove", "DeleteFifo")
    /\ listening' = listening \ {port}
    /\ UNCHANGED <<address, isConnected, handleVars, queue, packetVars, timer>>

Remove(port) ==     \* leave_ptp_igmp_groups(), udp_remove(), port 319 first
    /\ port = IF 319 \in listening THEN 319 ELSE 320
    /\ Goto("Remove", IF port = 320 THEN "DeleteFifo" ELSE "Remove")
    /\ listening' = listening \ {port}
    /\ UNCHANGED <<address, isConnected, handleVars, queue, packetVars, timer>>

DeleteFifo ==       \* vQueueDelete(): the packets in it are not released
    /\ Goto("DeleteFifo", "Poll")
    /\ queue' = 0 /\ queued' = 0
    /\ leaked' = leaked + queued
    /\ UNCHANGED <<address, isConnected, handleVars, listening, blocked, hand, held, timer>>

EthTask ==
    \/ PollStart \/ PollStop \/ PollNothing
    \/ CreateFifo \/ (\E port \in Ports : Listen(port)) \/ PtpInit \/ CreateTask
    \/ DeleteTask \/ (\E port \in Ports : Remove(port)) \/ DeleteFifo

-----------------------------------------------------------------------------
(***************************************************************************)
(* The PTP task, as far as a session's end can cut it short.               *)
(***************************************************************************)
Runs == session \in tasks

Take ==             \* xQueueReceive(): a blocked sender fills the gap at once
    /\ Runs /\ ~hand /\ queued > 0
    /\ hand' = TRUE
    /\ IF blocked = queue
       THEN blocked' = 0 /\ UNCHANGED queued
       ELSE queued' = queued - 1 /\ UNCHANGED blocked
    /\ UNCHANGED <<address, ethVars, handleVars, queue, listening, held, leaked, timer>>

Process ==          \* ptp_process_packet(): start or stop the timer, send a Delay_Req
    /\ Runs /\ hand
    /\ \/ timer' = [timer EXCEPT ![session] = RespPolls + 1] /\ UNCHANGED held
       \/ timer' = [timer EXCEPT ![session] = 0] /\ UNCHANGED held
       \/ held' = TRUE /\ UNCHANGED timer
    /\ UNCHANGED <<address, ethVars, handleVars, queue, listening, queued, blocked, hand,
                   leaked>>

Release ==          \* pbuf_free(pPBuf)
    /\ Runs /\ hand
    /\ hand' = FALSE
    /\ UNCHANGED <<address, ethVars, handleVars, queue, listening, queued, blocked, held,
                   leaked, timer>>

PtpTask == Take \/ Process \/ Release

-----------------------------------------------------------------------------
(***************************************************************************)
(* The lwIP thread and the timer task.                                     *)
(***************************************************************************)
\* Mutant of RecvCb: the packet is queued although the FIFO is full.
QueueAnyway(port) ==
    /\ port \in listening /\ blocked = 0
    /\ queued' = queued + 1
    /\ UNCHANGED <<address, ethVars, handleVars, queue, listening, blocked, hand, held,
                   leaked, timer>>

\* ptp_recv_cb() queues the packet, or blocks in xQueueSend() with it.
RecvCb(port) ==
    /\ port \in listening /\ blocked = 0
    /\ IF queued < FifoLength
       THEN queued' = queued + 1 /\ UNCHANGED blocked
       ELSE blocked' = queue /\ UNCHANGED queued
    /\ UNCHANGED <<address, ethVars, handleVars, queue, listening, hand, held, leaked,
                   timer>>

\* The address is set and cleared by the lwIP thread, unless it is blocked.
AddressChange(ip) ==
    /\ blocked = 0 /\ ip # address
    /\ address' = ip
    /\ UNCHANGED <<ethVars, handleVars, queue, listening, packetVars, timer>>

\* Mutant of Expire: the timer is created as an auto-reload timer.
Reload(s) ==
    /\ timer[s] > 0
    /\ timer' = [timer EXCEPT ![s] = RespPolls + 1]
    /\ UNCHANGED <<address, ethVars, handleVars, queue, listening, packetVars>>

Expire(s) ==        \* a single-shot timer, also of a session that has ended
    /\ timer[s] > 0
    /\ timer' = [timer EXCEPT ![s] = 0]
    /\ UNCHANGED <<address, ethVars, handleVars, queue, listening, packetVars>>

Next ==
    \/ EthTask
    \/ PtpTask
    \/ \E port \in Ports : RecvCb(port)
    \/ \E ip \in {"zero", "ones", "valid"} : AddressChange(ip)
    \/ \E s \in Sessions : Expire(s)

Spec == Init /\ [][Next]_lifeVars

\* vTaskDelay() of the Eth task returns, due timers expire.
LifeFairness == WF_lifeVars(EthTask) /\ \A s \in Sessions : WF_lifeVars(Expire(s))
FairSpec == Spec /\ LifeFairness

-----------------------------------------------------------------------------
TypeOK ==
    /\ address \in {"zero", "ones", "valid"} /\ isConnected \in BOOLEAN
    /\ eth \in {"Poll", "CreateFifo", "Listen", "PtpInit", "CreateTask", "DeleteTask",
                "Remove", "DeleteFifo", "Lost"}
    /\ session \in 0 .. MaxSessions /\ sTH \in 0 .. MaxSessions
    /\ tasks \in SUBSET Sessions
    /\ queue \in 0 .. MaxSessions /\ blocked \in 0 .. MaxSessions
    /\ listening \in SUBSET Ports
    /\ queued \in 0 .. FifoLength /\ leaked \in Nat
    /\ hand \in BOOLEAN /\ held \in BOOLEAN
    /\ timer \in [Sessions -> 0 .. (RespPolls + 1)]

\* ptp_recv_cb() is never called without a FIFO to put the packet in: the lwIP
\* thread may call it at any point of create_ptp_listeners() and
\* destroy_ptp_listeners().
CallbackHasFifo == listening # {} => queue = session /\ queue # 0

\* A PTP task always belongs to the session that was started last and finds its
\* FIFO and both listeners in place, at every point of its life.
TaskIsReady == \A t \in tasks : t = session /\ queue = t /\ listening = Ports

\* "stop PTP task" (task_eth.c:119): vTaskDelete() gets the handle of the PTP task
\* that runs, and of no other.
DeletesPtpTask == eth = "DeleteTask" => sTH = session /\ sTH \in tasks

\* However fast the address comes and goes, a session starts with at most
\* (RespPolls + 1) / 2 timers of earlier sessions still running, two in the code;
\* their expiry resets the state machine of a session they do not belong to.
StaleTimers == {s \in Sessions : s # session /\ timer[s] > 0}
StaleTimersBounded == Cardinality(StaleTimers) * 2 <= RespPolls + 1

\* An address that lasts starts a session, unless one runs already.
SessionStarts ==
    (address = "valid" /\ session < MaxSessions) ~> (Runs \/ address # "valid")

\* A lasting loss of the address, in either form, ends the session.
SessionStops == (address # "valid") ~> (tasks = {} \/ address = "valid")

\* However a session is cut short, it loses no more pbufs than fit its FIFO, the hands
\* of its task and the reference to its last Delay_Req: what the pool must have to spare.
LeakBounded == leaked <= session * (FifoLength + 2)

\* The comment at task_ptp.c:120, "release pbuf resources": a packet is released, at
\* the latest when its session has ended.
PacketsReleased == eth = "Poll" /\ ~isConnected => leaked = 0

-----------------------------------------------------------------------------
(***************************************************************************)
(* The inductive strengthening of the safety properties.                   *)
(***************************************************************************)
\* What exists at each point of the Eth task.  In a session the PTP task exists,
\* or xTaskCreate() has failed.
SessionShape ==
    /\ eth \in {"CreateFifo", "Listen", "PtpInit", "CreateTask"} => isConnected
    /\ eth \in {"DeleteTask", "Remove", "DeleteFifo"} => ~isConnected
    /\ (isConnected \/ eth # "Poll") => session > 0
    /\ IF eth = "CreateFifo" \/ (eth = "Poll" /\ ~isConnected)
       THEN queue = 0
       ELSE queue = session
    /\ listening \in CASE eth = "Listen" -> {{}, {319}}
                       [] eth = "Remove" -> {Ports, {320}}
                       [] eth \in {"PtpInit", "CreateTask", "DeleteTask", "Lost"} -> {Ports}
                       [] eth = "Poll" /\ isConnected -> {Ports}
                       [] OTHER -> {{}}
    /\ IF eth = "DeleteTask" \/ (eth = "Poll" /\ isConnected)
       THEN \/ tasks = {session} /\ sTH = session
            \/ TaskCreateFails /\ tasks = {}
       ELSE tasks = {}

\* A session lasts a poll at least, and so does the time between two sessions.
TimersAge ==
    \A s \in Sessions : timer[s] > 0 =>
        /\ s <= session
        /\ timer[s] + 2 * (session - s) <= RespPolls + (IF isConnected THEN 2 ELSE 1)

LifeInv == TypeOK /\ SessionShape /\ TimersAge
=============================================================================
