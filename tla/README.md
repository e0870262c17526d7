# flexPTP for the TM4C1294: a TLA+ model

The repository is the firmware of an IEEE 1588 (PTP) slave on a microcontroller: FreeRTOS,
lwIP, a patched Ethernet driver, a PTP state machine, a PD clock servo and a serial command
line. The modules here model its own logic, TLC checks them on small instances, and TLAPS
proves the main results for every value of the constants. Line numbers refer to `src/`.

## 1. Inventory

### Threads and what they share

| context | priority | runs | touches |
|---|---|---|---|
| lwIP thread | 14 | `ptp_recv_cb()` on each PTP datagram | `sPacketFIFO` |
| FreeRTOS timer task | 6 (`FreeRTOSConfig.h:85`) | `ptp_reset_state()` | `sState.state` |
| PTP task | 5 | `task_ptp()`, `ptp_process_packet()`, the servo | all of `ptp.c`, `dt_prev` |
| CLI task | 5 | `process_cli_line()`, the callbacks (`ptp_reset()`, `ptp_set_clock_offset()`, the gains) | command table, `sState`, `addend`, `dt_prev`, `K_p`, `K_d`, `sOptions.offset` |
| Eth task | 5 | `task_eth()`, starts and stops sessions, `ptp_init()` | FIFO, listeners, task handle, command table, all statics of `ptp.c` |
| Ethernet interrupt, driver | - | stamps a transmitted Delay_Req | the pbuf `spDelayReqPBuf` |

Scheduling is preemptive, tasks of equal priority are time-sliced at 1000 Hz, and nothing is
protected by a lock. That is what makes this code hard: every handler can be split by another
context at every access to shared data.

### Components

* **PTP state machine** (`ptp.c`). State: `sState` (phase, identifier of the Sync, counter of
  Delay_Req), `sSyncData` (t1..t4), `spDelayReqPBuf`, `sResponseTimer`, `addend`. Operations:
  process a packet, send a Delay_Req (after a random sleep), correct the clock, time out,
  reset. Correct if one Sync, one Follow_Up, one Delay_Req and one Delay_Resp, all of one
  exchange, make one correction; if every wait ends; if a reset resets; if a session that was
  cut off in the middle of a handler leaves nothing to the next that could hurt it.
* **PTP task and FIFO** (`task_ptp.c`). A queue of 32 packets between the lwIP thread, which
  blocks when it is full, and the PTP task. Correct if a blocked sender gets room and each packet
  is released.
* **Clock servo and time arithmetic** (`ptp_perform_correction()`, `pd_controller.c`,
  `timeutils.c`, macros of `ptp.h`). Pure arithmetic with C's truncation on `dt_prev`, `addend`,
  the offset, the gains and the hardware clock. Correct if it measures the true difference, jumps
  the right way for a second or more and settles there although packets stamped before the jump
  are still queued, and otherwise tunes against the error without overflow.
* **Session lifecycle** (`task_eth.c`, start and stop in `task_ptp.c`, `ptp_init()`). Polls the
  IP address every 500 ms; creates FIFO, two UDP listeners, the timer and the task, and destroys
  them in another order. Correct if callback, FIFO, task and handle always fit together.
* **Command line** (`task_cli.c`, `cli.h`). A table of 16 commands, a static tokenizer buffer.
  The Eth task enters the PTP commands again in each session, replacing those of the last.
  Correct if the table stays complete and bounded and a line calls its own command.
* **Message codec** (`ptp.c:244-434`). Functions between a payload and structures, and the test
  whether a Delay_Resp is an answer to the slave's own request (`ptp.c:602-616`). Correct if every
  number arrives as its sender meant it and a Delay_Req is well-formed in a pbuf that held other data.
* **Hardware port**. The clock of the Ethernet controller. `Servo` has what `ptphw_init()` and a
  jump do to its time; registers and the PPS output are left out.
* **Startup, UART, configuration, vendored code**. I/O and settings. Not modelled; their settings
  appear as assumptions.

### Hard behaviours

`PROJECT.json` lists each hazard at its line. In short: a timer that races the sleeping task;
a reset that races a correction; a session cut off in the middle of a handler; a Sync that waits
in the FIFO while the clock that stamped it jumps; identifiers that wrap or start over; lost, doubled and late
messages; timers and packets left over from an earlier session; a blocked sender; truncating
signed arithmetic; a float sum that swallows small corrections; a two-word offset read half-written; a table rebuilt under a reader.

## 2. Modules

| module | models | composes or extends |
|---|---|---|
| `SyncCycle` | what a synchronization cycle promises (abstract) | - |
| `PtpSlave` | state machine, FIFO, timer, CLI reset, end and start of sessions, driver, network, master | instantiates `SyncCycle` |
| `PtpSlaveClock` | the same with the time scales of the stamps, for a clock that jumps | extends `PtpSlave` |
| `PtpSlaveTimed` | the same with durations of timer and sleep | extends `PtpSlave` |
| `TimeUtils` | `timeutils.c` with C's `/` and `%` and 32-bit words | - |
| `Servo`, `MCServo` | a correction in numbers, the clock, the offset, the gains, stamps from before a jump | extends `TimeUtils` |
| `Lifecycle` | sessions starting and stopping | - |
| `Cli`, `MCCli` | tokenizer, table, registration and lookup | - |
| `PtpWire`, `MCPtpWire` | messages in bytes, byte order, the test of a Delay_Resp | - |
| `PtpSlaveProofs`, `PtpSlaveClockProofs`, `PtpSlaveTimedProofs`, `ServoProofs`, `LifecycleProofs`, `CliProofs`, `PtpWireProofs` | proofs (and one in `SyncCycle`) | each extends its module |

A mutant, an operator marked `Mutant of X` just before X, is a plausible bug; with it in the
place of X the property named in `PROJECT.json` fails. Mutants are not part of any specification.

### PtpSlave

`pc` is the program counter of the PTP task. A handler is split where it touches data another
context writes: reading the state (`Dispatch*`), storing the next one (`EnterWaitFollowUp`,
`EnterWaitDelayResp`, `EnterIdle`), starting and stopping the timer, sleeping (`Wake`), loading
and storing the Delay_Req counter (`PrepareReq`, `SendReq`), comparing a Delay_Resp
(`AcceptResp`, `RejectResp`), the four steps of a correction (`JumpClock` or `RunServo`,
`StoreError`, `SetAddend`), releasing the packet (`Free`). `CliReset` is `ptp_reset()` in its four
stores. `TimerExpire` is the callback; `StaleExpire` that of a timer of an earlier session,
since none is ever deleted. It only stores `SIdle`, in the state machine of the new session.
`RecvCb` is the end of `xQueueSend()`, a packet put into the FIFO; `RecvCbBlocks` is the lwIP thread
blocking there when a packet arrives and the FIFO is full (`lwip`). `xTimerStart()` and `xTimerStop()` wait zero ticks for the command queue;
the timer task has the higher priority and empties it at once, so they are atomic and succeed.

`Restart` ends the session, wherever the PTP task is, and starts the next one. `vTaskDelete()`
drops the task with its packet and its loaded values, the FIFO goes, an lwIP thread blocked in
`xQueueSend()` is woken by nobody and stays `stuck` for good (`AfterDelete`), and `ptp_init()` sets what it
sets: `sequenceID` and `sSyncData` stay as they were, requests and answers stay under way, and
`ptp_reset()` in the CLI task goes on if it was in the middle. Both ends are one step, because
nothing in between reads what they set, and a message that arrives in between is lost like one
that stays in `net`. How the calls at either end interleave is the business of `Lifecycle`.

Timestamps are reduced to their origin: t1 and t2 to the number of a Sync, t3 and t4 to the
number of a Delay_Req. A message that is never delivered is lost; `DeliverCopy` doubles one;
`net` is a set, so order is free. The driver is outside the repository; as its README describes
(53-143), it writes the transmit time into the pbuf when the frame has left, which is taken to
come before the answer to that frame. Announce
and other messages that no state takes behave like a Delay_Resp for another slave
(`DeliverForeign`). `of`, `reqNo`, `resetMark`, `corrections` and `freshReset` are history.

### PtpSlaveClock

The age of a stamp is how often the clock has jumped since it was made: a history variable beside
each packet in the FIFO, the one in hand and t2, which no guard reads. Each action of `PtpSlave`
occurs in exactly one action here. `SyncSurvivesOneJump` says that a correction never uses a t2
from before the last jump but one. The FIFO gives the argument: a jump needs the Delay_Resp to a
Delay_Req that was sent after the jump before, so that everything queued ahead of that jump has
been handed out by then. The exception is `mixed`: a Delay_Resp to another request than the
one t3 times, taken after a new session or a wrap of the identifiers, can jump the clock at once.

### PtpSlaveTimed

Adds `left` (ticks to the expiry) and `sleep`. A tick passes only while the task is blocked and
no due timer waits. `FollowUpBound` is an assumption about the network; without it
`DelayRespWaitIsTimed` is false, see the findings. The scale is 4 : 2 for `RESP_TIMEOUT` 2000 and
the sleep of less than 500 ticks. The comparison that matters is
`FollowUpBound + MaxDelay <= RespTimeout`: it is the exact threshold, met with equality by the
passing run, and the hypothesis of the theorem.

### TimeUtils and Servo

A second has `NanoPrefix` nanoseconds and a word `Word` values, so that TLC can run through all
signs, carries and roundings; the proofs are for every length of the second of which more than
four fit into a word, as 10^9 does in 2^32. A `Cycle` is a whole exchange with chosen delays and
residence times. `addend` is a number, in units of what a nanosecond moves it by under the initial
`P_FACTOR`, rounded to whole ones; the gains are integer multiples of that (the initial ones are
1 : 4). `ptp.c:505` adds the controller's output to it in 32-bit floats, which at 3.4e9 are 256 apart
(`Grain`): the sum is rounded to the nearest multiple, the even one of two (`Rounded`), and its
conversion to `uint32_t` saturates, as the instruction does (`Saturated`). So an output of less than
half a grain, about 37 ppb, is swallowed. The floats inside the controller, which are finer, are
taken as exact, and below 2^31 `Grain` is coarser than the code's. The offset is stored in
two steps, as `nsToTsI()` does, and so are the gains. `Lags` lets a Sync carry a stamp from before
the last jump, which is all that `SyncSurvivesOneJump` leaves possible where t3 and t4 belong
together, as they do in a `Cycle`. `NewSession` is what
`ptp_init()` does to these variables: it clears the nanoseconds of the offset but not its seconds.

### Lifecycle

`eth` is the program counter of the Eth task: one value before each call that another context
could meet half done. The lwIP thread may preempt it anywhere (`RecvCb`), the PTP task shares
its priority (`Take`, `Process`, `Release`). Joining and leaving the IGMP groups is folded into
`CreateFifo` and `Remove`. `leaked` counts pbufs no one holds a pointer to any more: the packet in
hand, those in the FIFO, and the Delay_Req that `ptp_init()` forgets. The address only changes
while the lwIP thread, which changes it, is not blocked. `timer[s]` is one more than the polls the timer of session s may still outlast. If
`xTaskCreate()` fails and the handle is NULL or stale, `vTaskDelete()` hits the wrong task; the
Eth task's behaviour after that (`Lost`) is not modelled.

### Cli

Both tasks are split at each access to the buffer, the table and its counter, where the real
granularity is finer still (bytes), and interleave freely: the code has no lock. A session
(`RegStart` to `SessionEnd`) registers the four commands and takes none away again. Two histories
say what the tasks did to each other. `shared`: both have been in the tokenizer, between the copy
of a line and its last token, at once. From then on a command may have entered the table under
tokens of a typed line, and the properties claim nothing (the types and the inductive invariant's
first conjunct hold on). `moved`: `cli_remove_command()` has moved entries during the present lookup;
the properties of that line claim nothing, those of the table and of later lines do. All
other interleavings, lookups and calls in the middle of a registration included, are covered.
The runs stop behind a state with `shared` (`CONSTRAINT Unshared`), where nothing is left to check.
The help listing and empty lines change no state. Writing behind the end of the table is the trap
`overflow`. `Words` is the set of tokens, `Read` the at most 16 of them (`TOK_ARR_LEN`) that the
tokenizer takes from a line.

### PtpWire

A word of the little-endian processor is the sequence of its bytes, least significant first, so
`ntohs()`, `ntohl()` and `ntohll()` reverse it and a shift by 16 drops two bytes; a payload is a
function from offsets to bytes. The slave builds a Delay_Req in a pbuf full of old data
(`SendDelayReq`). The reserved octets, 5 and 16 to 19, are not written, as in the code, and go out
with what the pbuf held; `FieldsAreStandard` is about all the others. `Answer`
is any message of the master, in the layout of IEEE 1588 (`Standard`, the external reference): of
any type, for this slave, for its identity with another port, or for another slave, with this
number or another, with any of a set of flag fields. It comes once for each request,
for which the slave then waits. What `Receive` takes is compared with what the master meant.

## 3. Runs

| run | shows | bounds |
|---|---|---|
| `safety` | waits for a Follow_Up are timed, t3/t4 match and are there, the inductive invariant holds | 2 Syncs, 2 identifiers, 1 reset, 1 copy, 1 foreign, 1 end of a session, FIFO 1 |
| `wrap` | t1/t2 match when the identifiers wrap, a Sync survives one jump at most, with the inductive invariant for that, refinement of `SyncCycle`, one request per correction | 3 Syncs, 2 identifiers, FIFO 4, 1 end of a session, no reset or copy |
| `recovery` | every lost Delay_Resp is recovered from if Follow_Ups are prompt; the wait for a Follow_Up ends; a blocked lwIP thread gets room, or is left stuck by the end of a session | 1 Sync, 1 copy of any message, 1 reset, 1 foreign, 1 end of a session with its stale timer, 4 : 2 : 2 ticks |
| `servo` | measurement, jump and range; jumps settle; the addend never moves the wrong way, and moves from a grain on | a second of 4 ns, words of 18, errors to 4 ns before a cycle, 2 offsets, gains 1 : 4, 2 : 0 and half-set, addends 0 to 20 in grains of 4, a residence time of none and of more than a second |
| `lifecycle` | callback, FIFO, task and handle fit together; the packets lost per session are bounded; stale timers are few; a lasting address starts, a lasting loss ends a session | 4 sessions, FIFO 2, `xTaskCreate()` succeeds |
| `cli` | table complete and bounded, lines find and call their command, the inductive invariant holds, all under free interleaving | 5 sessions, table 5, 7 lines, one of them of 18 tokens; up to the first state with `shared` |
| `wire` | the fields of a request have the standard's values, own answers and no others are taken, numbers and flags read as meant, the inductive invariant holds | 3 identifiers, 2 fillings, 3 types, 3 times, 8 corrections, 4 flag fields, 2 slaves, 2 ports |
| `dropout`, `reset_kept`, `offset`, `released`, `cli_stale` | each finds one disagreement (section 6) | as small as shows it |

Why these bounds are enough: a cycle involves one Sync, and a mix-up needs two (a wrap needs one
more than there are identifiers). One reset, copy or foreign message suffices for each pairwise
race; a copied Sync starts a cycle too, so one Sync and its copy give `recovery` two. The FIFO of 1 is full most often; its length enters a guard only compared with `FifoLength`. `wrap` has a FIFO
of 4, room for the messages of a cycle and the Sync after it, so that a t2 one jump old is used there.
A t2 two jumps old takes `mixed` and a fourth Sync. That instance (`MaxSync` 4, `MaxRestart` 0, 19
million states) is too long for a regular run; in it such a t2 is reached with `mixed`, and
`SyncSurvivesOneJump` holds. One end of a session meets every program counter; a second
one meets nothing new but a second stale timer, which does what the first does (`StaleTimersBounded`
shows that two are the most that run, for the code's `RESP_TIMEOUT` of four polls), and the
theorems hold for any number. Four sessions outlive the timer of the first. The table of 5 is one larger than the four PTP
commands, the least room that replacing a command by appending and removing needs; five
sessions would overflow any table of up to 19 if the replacing failed. The bounds on
counters are guards of the actions of the network, the master and the user; the program has none.

The bytes in `wire` are chosen to differ within each word, to carry, and to set every sign; a
function of bytes that moves or drops one is wrong on some of them. `lifecycle` takes the memory
to suffice, as its liveness and `DeletesPtpTask` need it; the theorems about `Lifecycle` hold for
either value of `TaskCreateFails`.

`CHECK_DEADLOCK FALSE` except in `wire`: with the bounded inputs used up, or a silent master, the
system rightly waits.

### Fairness

`PtpSlaveTimed`: weak fairness of the PTP task, which the scheduler runs when it is ready (equal
priorities are time-sliced, the higher ones block), of the expiry of a due timer, and of the
tick. `Lifecycle`: of the Eth task's loop and the expiry of each
timer. Nothing is assumed of the network, the master or the user, so no liveness property
depends on a message arriving.

## 4. Proofs

All are checked by TLAPS with no assumption but the named `ASSUME`s on the constants, which TLC
evaluates in the runs, and the explicit hypotheses below.

* **PtpSlave** (`PtpSlaveProofs`). `IInv` has four parts, each proved to be kept by every action,
  later ones using earlier ones.
  `TypeOK` gives `TypeCorrect`. `CycleShape` (the timer is stopped only when idle; a response is
  looked at only by a slave that waited for one or was reset since) is what makes
  `FollowUpWaitIsTimed` inductive. `SyncShape` says that every message about has the
  identifier of its Sync and the machine that of t2, hence `SyncsMatch`. `ExchangeShape` relates
  every request and response in flight to the counter: since the last reset, the identifier is
  as far behind the counter as the request is behind the last one. In the middle of the
  increment the counter that counts is the one loaded. A new session counts as a reset here.
  `ExchangesMatch` follows, and `ReqBufNeverNull`: the pbuf is NULL only until the first request.
  `Refinement` maps the state machine to `SyncCycle`, whose `OneRequestSafe` then carries over
  (`RequestPerCorrection`).
* **PtpSlaveClock** (`PtpSlaveClockProofs`). `ClockImplementsSlave` (the ages only watch) brings
  `IInv` in. `ClockInv` is the argument of section 2, made inductive. `AgesOrdered`: what
  is ahead in the FIFO was stamped no later than what is behind it.
  `AnswersFresh`: from the moment the Delay_Req of a cycle is numbered, an answer to it is stamped
  after the last jump, hence all behind it too; when that answer is in hand, nothing old is left in
  the FIFO, and the jump that follows makes nothing older than one. `AgesBounded` says so of all
  stamps that may still be used, and gives `SyncOutlivesOneJump`. Its exception `mixed` is itself
  bounded: `MixedByOldAnswers`, an action property, says which Delay_Resp alone can set it.
* **PtpSlaveTimed** (`PtpSlaveTimedProofs`). `TimedImplementsUntimed`: all of the above holds
  with time. `DelayRespWaitTimed`, assuming `FollowUpBound + MaxDelay <= RespTimeout`: the
  strengthening `TimedShape` (`PromptWaits`) says that a Follow_Up waiting in the FIFO is prompt,
  so that the timer has more left than the sleep may take.
* **Servo** (`ServoProofs`). Lemmas say what each function of `timeutils.c` returns and that
  `normTime` after truncation is the number meant. `ServoInv` (offset normalised as far as it
  is set, `dt_prev` less than a second) gives `MeasuresTrueError`, `ControllerRange`,
  `DerivativeInRange`, and that `addend` stays a multiple of `Grain` in its range. `JumpsLand` and `JumpsSettle` have the hypothesis `[]InReach`, differences
  below `JumpReach`, 2^31 s: `labs()` takes a 32-bit long. All errors of the run are below that
  limit. `JumpsSettle` combines `JumpsLand` with the measurement. `TuningIsOpposite` is for
  every `P_FACTOR` above zero, every `D_FACTOR` not negative and every `Grain`: `OutputOpposes` says what
  the controller returns, and rounding to a grid on which `addend` already is never reverses a step.
* **Lifecycle** (`LifecycleProofs`). `SessionShape` lists what exists at each point of the Eth
  task, `TimersAge` how far the timers of earlier sessions have run down. They give `CallbackSafe`,
  `TaskReady`, `DeletesOwnTask` (assuming no creation fails) and `StaleTimersFew`. `LeakInv` adds
  what the present session may still lose to what is lost already and gives `LeakIsBounded`.

* **Cli** (`CliProofs`). The only hypothesis is `RoomForOneMore`: the table is larger than the set of
  commands. (It has 16 entries for 4 commands.) The interleaving is free; what the code does not
  ensure is in the properties themselves, as `~shared` and `~moved`. `TakeTurns` says that `shared`
  misses nothing, and `SharedStep` that it is never taken back. The table
  turns out to be a ring. In the first session it fills up (`TableFills`); in every later one the
  command to be registered is the oldest, at the front, so that appending it, finding the old entry
  there and moving the others up turns the table by one place (`TableTurns`), and a session turns
  it once around. `TokensRead` ties the tokens read so far to the line, `LookupShape` says that
  the lookup has missed no entry and that its find still stands, although the counter and the entry
  behind the last change under it: what a registration adds is behind whatever is found, and the
  counter only drops to where the shifting had already moved the entries. Hence `TableBounded`,
  `TableHoldsAll`, `CommandsAreFound` and `CallIsTyped`.
* **PtpWire** (`PtpWireProofs`). Lemmas on words (a reversal, a shift by 16, a concatenation, a
  store into a pbuf), then two layouts: `Layout` finds each field of a received message at its
  offset, `RequestBytes` follows the ten stores of a Delay_Req, which go from lower to higher
  offsets, so that none undoes an earlier one (`Grown`). `WireInv` says that the pbuf is one or
  the other. From it: `FieldsStandard` for every address, identifier and old content of the pbuf,
  `HeaderRead`, `TimeRead`, `OnlyOwnTaken` (a Delay_Resp is taken if and only if it returns what the
  Delay_Req carried) and `CorrectionRead`, whose hypothesis `ShortResidences` is that the residence
  times fit an `int32_t`; `Int32Bytes` puts the sign back together from the four bytes.

Only model-checked: liveness (`DropoutRecovery`, `FollowUpWaitEnds`, `BlockedSenderGetsRoom`,
`SessionStarts`, `SessionStops`), because fairness and ENABLED are beyond the prover. Every
invariant and every action property of the passing runs is also a theorem.

## 5. Not modelled, and why

* Correction fields beyond 32 bits, about 2.1 s: `PtpWire` and `Servo` assume smaller ones. The
  code cuts the others, and nothing in the repository says what should happen.
* The fields of a header that no code uses: `PtpWire` reads them but no property asks. (The upper
  half of the first byte is kept in place by `ptp_extract_header()` and shifted by
  `ptp_construct_binary_header()`; the slave only sends zero.)
* Floating point other than the sum with `addend`: its error is less than that of the sum.
* Failing allocations of pbufs, and lwIP's internal state: outside the repository.
* Several masters or domains: the code does not tell them apart.
* `nsU`, `tsUToI`, `nonZeroI` have no caller; `tsToTick` only feeds a line of the log.
* Concurrency inside lwIP and the driver: `udp_sendto()` (`ptp.c:422`) and the listeners are used
  from threads other than lwIP's own, and the driver may hold a pbuf that `ptp.c:406` releases.
  What follows is decided by code that is not in the repository.
* The register behind `addend`: `ptp_reset()` sets the variable, the next fine correction the register.
* Registers, the PPS pin, startup, UART, logging: no protocol state.

## 6. What the checks found

Five runs are expected to violate a statement of the repository; `PROJECT.json` quotes each one.

1. `dropout`: a timer that expires during the random sleep leaves `SWaitDelayResp` without one;
   if the Delay_Resp is lost, the slave never synchronizes again (`ptp.c:584-590`).
2. `reset_kept`: a correction under way undoes a reset of `addend` and of the controller.
3. `offset`: a correction can use half of the old and half of the new offset; and a new session
   keeps the seconds of the old one (`ptp.c:226`).
4. `released`: packets in hand or queued at the end of a session are lost memory.
5. `cli_stale`: the table moves between lookup and call; another command runs.

The same models reach further states a reader should know of. `ExchangeMatched` needs its second
case: `ptp reset` starts the identifiers over, and a Delay_Resp from before it is taken for a
new one. `DeletesPtpTask` needs its assumption: after a failed `xTaskCreate()` the Eth task
deletes itself or a task that is gone.

`TuningOpposes` does not say that a clock is always tuned back: a correction of less than about
37 ppb leaves `addend` as it was (`ptp.c:505`), for instance 5 ns after 1 ns with the initial gains.
It says that such a clock is not tuned further away, and is tuned back once the proportional part
alone is a grain.

`BlockedSenderGetsRoom` excepts the end of a session: `vQueueDelete()` (`task_ptp.c:56`) wakes no one,
and an lwIP thread blocked in `xQueueSend()` then stays there, and with it all of the network.

`TableFits`, `TableComplete` and the properties of lines claim nothing once `shared`. A command can
then enter the table under the tokens of a typed line, and its old entry stays; the table is
incomplete and grows, and one of 5 entries overflows in the second session. And they
claim nothing of a line under whose lookup entries move: it may be unknown although its command is
there, or call another command (`cli_stale`). Nothing in the code prevents either, since two tasks
of equal priority use one buffer, one `strtok()` and one table with no lock.

The PTP commands are never removed from the table, although README.md:25 says that some commands
are only available while the network is connected. `TableComplete` and `KnownIsFound` therefore
speak of the time of a session only (`running`).

A Delay_Req goes out with old data of its pbuf in the reserved octets 5 and 16 to 19, which
`ptp_construct_binary_header()` (`ptp.c:312-342`) does not write and IEEE 1588 wants to be zero.

## 7. Plan

Done: all modules of section 2 with their runs, and the proofs of section 4.

Next, in this order:

1. `Lifecycle`: an abstract session (its packets handed out by its own FIFO to its own task) and the
   refinement that maps the Eth task to it.
2. `PtpSlaveTimed`: a bound on the time a cycle takes, as far as it is a matter of safety.
3. `Servo`: the bound of `JumpsSettle` over several cycles, as an invariant of the error.
