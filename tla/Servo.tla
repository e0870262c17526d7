------------------------------- MODULE Servo -------------------------------
(***************************************************************************)
(* The numbers behind a correction: ptp_perform_correction() of ptp.c with *)
(* the PD controller of pd_controller.c and the hardware clock they set.   *)
(* A Cycle step is one whole synchronization cycle (the order of its       *)
(* messages is the business of PtpSlave).  The slave's clock is err        *)
(* nanoseconds ahead of the master's and drifts between cycles; the CLI    *)
(* task may set the offset and the gains and reset the controller at any   *)
(* time, and the Eth task start a new session.                             *)
(***************************************************************************)
EXTENDS TimeUtils

CONSTANTS
    Bases,         (* master times at which a Sync is sent                    *)
    Delays,        (* one-way delays of the network                           *)
    Residences,    (* times packets spend in bridges, the correction fields   *)
    Offsets,       (* offsets the user sets with "ptp servo offset"           *)
    Gains,         (* gains the user sets with "ptp servo params"             *)
    AddendInit,    (* PTP_ADDEND_INIT, 3435973888 in the code                 *)
    AddendLimit,   (* 2^32, where the addend register ends                    *)
    Grain,         (* distance of the floats next to the addend, 256          *)
    MaxErr         (* bound: error of the slave's clock                       *)

ASSUME ServoAssumption ==
    /\ Bases \subseteq Int /\ Delays \subseteq Nat /\ Offsets \subseteq Int
    /\ Residences \subseteq {n \in Nat : n < Word \div 2}
    /\ Gains \subseteq [p : Int, d : Int] /\ MaxErr \in Nat
    /\ Grain \in Nat \ {0} /\ AddendLimit \in Nat /\ AddendInit \in 0 .. AddendLimit
    /\ AddendInit % Grain = 0 /\ AddendLimit % Grain = 0

VARIABLES
    err,           (* slave's clock minus master's clock                      *)
    offset,        (* sOptions.offset                                         *)
    gains,         (* P_FACTOR and D_FACTOR, in units of the initial P_FACTOR *)
    pending,       (* what the CLI task is setting, between two assignments   *)
    dt_prev,       (* dt of the controller's previous run                     *)
    addend,        (* addend, and with it the three constants above, in what a
                      difference of 1 ns moves it by under the initial P_FACTOR *)
    last           (* what the last cycle did, the difference it measured and
                      twice the distance of that from the true one            *)

setVars   == <<offset, gains, pending>>
pdVars    == <<dt_prev, addend>>
servoVars == <<err, setVars, pdVars, last>>

Sign(n) == IF n > 0 THEN 1 ELSE IF n < 0 THEN -1 ELSE 0
Magnitude(n) == IF n < 0 THEN -n ELSE n

Idle == [cmd |-> "none", arg |-> 0]
NoCycle == [kind |-> "none", d |-> 0, slack |-> 0]

\* sOptions is static, ptp_init() ends in ptp_reset().
Init ==
    /\ err \in -MaxErr .. MaxErr
    /\ offset = nsToTsI(0) /\ gains = [p |-> 1, d |-> 4] /\ pending = Idle
    /\ dt_prev = 0 /\ addend = AddendInit
    /\ last = NoCycle

-----------------------------------------------------------------------------
\* A residence time cf is taken off again by the correction field of the message.
Corrected(time, cf) ==
    normTime(subTime(nsToTsI(time + cf), [sec |-> 0, nanosec |-> Int32(cf)]))

\* Mutant of TimeDifference: the offset is added.
OffsetAdded(syncMa, syncSl, delReqSl, delReqMa) ==
    LET sum == addTime(subTime(subTime(syncSl, syncMa), delReqMa), delReqSl)
    IN  normTime(addTime(divTime(sum, 2), offset))

\* d = (t2 - t1 - t4 + t3) / 2 - offset
TimeDifference(syncMa, syncSl, delReqSl, delReqMa) ==
    LET sum == addTime(subTime(subTime(syncSl, syncMa), delReqMa), delReqSl)
    IN  normTime(subTime(divTime(sum, 2), offset))

\* EMACTimestampSysTimeUpdate() of TivaWare.
SysTimeUpdate(time, sec, nanosec, bInc) ==
    LET step == nsI([sec |-> sec, nanosec |-> nanosec])
    IN  IF bInc THEN time + step ELSE time - step

\* Mutant of UpdateClock: the nanoseconds are left out.
WholeSeconds(time, d) == SysTimeUpdate(time, Magnitude(Int32(d.sec)), 0, nsI(d) < 0)

\* PTP_UPDATE_CLOCK(d.sec, d.nanosec); labs() takes a 32-bit long on this target.
UpdateClock(time, d) ==
    SysTimeUpdate(time, Magnitude(Int32(d.sec)), Magnitude(d.nanosec), nsI(d) < 0)

\* Mutant of IsCoarse: the controller also gets differences of up to two seconds.
IsVeryCoarse(d) == Magnitude(d.sec) > 1

\* "if time difference is at least one second, then jump the clock"
IsCoarse(d) == d.sec # 0

\* Mutant of PdOutput: the operands of the derivative are swapped.
DerivativeSwapped(dt) ==
    IF dt_prev = 0 THEN 0 ELSE -(dt * gains.p + (dt_prev - dt) * gains.d)

\* pd_ctrl_run(): its output, of which only the sum with addend is rounded here.
PdOutput(dt) ==
    IF dt_prev = 0 THEN 0 ELSE -(dt * gains.p + (dt - dt_prev) * gains.d)

\* The nearest multiple of Grain, the even one of two, as 32-bit floats round the sum.
\* (Grain is their distance from 2^31 to 2^32; below, it is smaller.)
Rounded(n) ==
    LET q == n \div Grain
        r == n % Grain
    IN  Grain * (IF 2 * r < Grain \/ (2 * r = Grain /\ q % 2 = 0) THEN q ELSE q + 1)

\* The float is converted to the uint32_t addend by an instruction that saturates; the
\* largest addend is AddendLimit again as a float.
Saturated(n) == IF n < 0 THEN 0 ELSE IF n > AddendLimit THEN AddendLimit ELSE n

\* addend += corr_ppb * PTP_ADDEND_CORR_PER_PPB_F
Tune(dt) == addend' = Saturated(Rounded(addend + PdOutput(dt)))

\* How far the clock was ahead of where it is now when the Sync was stamped: a Sync
\* that waited in sPacketFIFO during a jump has the stamp of the clock before it.
\* (PtpSlaveClock shows that it has waited during one jump at most.)
Lags == {0} \cup (IF last.kind = "jump" THEN {last.d} ELSE {})

\* The true difference, doubled: the error of the clock plus half the asymmetry of
\* the network, minus the offset; half the lag of t2 adds to it.
TwiceTrue(ms, sm, lag) == 2 * err + lag + (ms - sm) - 2 * nsI(offset)

Outcome(kind, d, ms, sm, lag) ==
    [kind |-> kind, d |-> nsI(d), slack |-> 2 * nsI(d) - TwiceTrue(ms, sm, lag)]

\* The master sends its Sync at time base; the Delay_Req leaves half a second later.
Cycle(base, ms, sm, cf, lag) ==
    LET later == base + NanoPrefix \div 2
    IN  \E d \in {TimeDifference(nsToTsI(base), Corrected(base + ms + err + lag, cf),
                                nsToTsI(later + err), Corrected(later + sm, cf))} :
           /\ \/ /\ IsCoarse(d)
                 /\ err' = UpdateClock(err, d)
                 /\ last' = Outcome("jump", d, ms, sm, lag)
                 /\ UNCHANGED pdVars
              \/ /\ ~IsCoarse(d)
                 /\ Tune(nsI(d))
                 /\ dt_prev' = nsI(d)
                 /\ last' = Outcome("tune", d, ms, sm, lag)
                 /\ UNCHANGED err
           /\ UNCHANGED setVars

\* Between cycles the oscillators drift apart.
Drift ==
    /\ err' \in {err - 1, err + 1} /\ Magnitude(err') <= MaxErr
    /\ UNCHANGED <<setVars, pdVars, last>>

\* The CLI task runs one command at a time.
Begin(cmd, arg) == pending = Idle /\ pending' = [cmd |-> cmd, arg |-> arg]
End(cmd) == pending.cmd = cmd /\ pending' = Idle

\* ptp_set_clock_offset(): nsToTsI() stores the seconds, then the nanoseconds.
SetOffsetSec(ns) ==
    /\ Begin("offset", ns)
    /\ offset' = [offset EXCEPT !.sec = nsToTsI(ns).sec]
    /\ UNCHANGED <<err, gains, pdVars, last>>

SetOffsetNanosec ==
    /\ End("offset")
    /\ offset' = [offset EXCEPT !.nanosec = nsToTsI(pending.arg).nanosec]
    /\ UNCHANGED <<err, gains, pdVars, last>>

\* CB_params() of the controller: P_FACTOR, then D_FACTOR.
SetPFactor(g) ==
    /\ Begin("params", g.d)
    /\ gains' = [gains EXCEPT !.p = g.p]
    /\ UNCHANGED <<err, offset, pdVars, last>>

SetDFactor ==
    /\ End("params")
    /\ gains' = [gains EXCEPT !.d = pending.arg]
    /\ UNCHANGED <<err, offset, pdVars, last>>

Reset ==            \* ptp_reset()
    /\ pending = Idle /\ (dt_prev # 0 \/ addend # AddendInit)
    /\ dt_prev' = 0 /\ addend' = AddendInit
    /\ UNCHANGED <<err, setVars, last>>

\* The rate of the clock is set and the timestamps enabled; the clock runs on.
ptphw_init == addend' = AddendInit /\ UNCHANGED err

\* ptp_init() of the next session: half of the offset is cleared and the controller
\* reset.  No old Sync waits in the new FIFO.
NewSession ==
    /\ offset' = [offset EXCEPT !.nanosec = 0]
    /\ ptphw_init
    /\ dt_prev' = 0 /\ last' = NoCycle
    /\ UNCHANGED <<gains, pending>>

Next ==
    \/ \E base \in Bases, ms \in Delays, sm \in Delays, cf \in Residences, lag \in Lags :
          Cycle(base, ms, sm, cf, lag)
    \/ Drift
    \/ \E ns \in Offsets : SetOffsetSec(ns)
    \/ SetOffsetNanosec
    \/ \E g \in Gains : SetPFactor(g)
    \/ SetDFactor
    \/ Reset
    \/ NewSession

Spec == Init /\ [][Next]_servoVars

-----------------------------------------------------------------------------
TypeOK ==
    /\ err \in Int
    /\ offset \in Timestamp /\ Magnitude(offset.nanosec) < NanoPrefix
    /\ gains \in [p : Int, d : Int]
    /\ pending \in [cmd : {"none", "offset", "params"}, arg : Int]
    /\ dt_prev \in Int
    /\ addend \in 0 .. AddendLimit /\ addend % Grain = 0
    /\ last \in [kind : {"none", "jump", "tune"}, d : Int, slack : Int]

\* Whatever the signs, the chain of truncating operations of ptp_perform_correction()
\* measures the error of the clock, plus half the asymmetry of the network and half
\* the lag of a Sync from before a jump, minus the offset, to half a nanosecond.
MeasuresError == last.slack \in -1 .. 1

\* The clock jumps for a difference of a second or more, as the comment at ptp.c:492
\* says, and only then; the controller never sees more.
ControllerInRange ==
    /\ last.kind = "jump" => Magnitude(last.d) >= NanoPrefix
    /\ last.kind = "tune" => Magnitude(last.d) < NanoPrefix

\* int32_t d_D = dt - dt_prev in pd_ctrl_run() does not overflow.
DerivativeFits == [][Magnitude(dt_prev' - dt_prev) < Word \div 2]_dt_prev

\* A jump moves the clock by exactly the difference measured, against its sign:
\* labs(), abs() and the direction flag make up the signed number again.
JumpLands == [][Magnitude(err' - err) > 1 => err' = err - last'.d]_servoVars

\* A jump settles the clock at the offset, to half the asymmetry of the network, also
\* if its Sync was stamped before the last jump: that leaves at most half of the last
\* jump.  So a queue full of old Syncs cannot make the clock jump ever further.
JumpSettles ==
    [][ Magnitude(err' - err) > 1 =>
          \E ms, sm \in Delays, lag \in Lags :
             2 * Magnitude(err' - nsI(offset)) <= Magnitude(lag) + ms - sm + 1 ]_servoVars

\* A clock that is off and not getting any closer is never tuned further away, though
\* the 32-bit float sum of ptp.c:505 swallows a small correction; one that is off by so
\* much that the proportional part alone is a grain is tuned back, unless addend is at
\* its end.  For all gains that are not negative: also with P_FACTOR set, D_FACTOR not.
TuningOpposes ==
    [][ gains.p > 0 /\ gains.d >= 0 /\ dt_prev # 0 /\ Magnitude(dt_prev') > Magnitude(dt_prev) =>
          /\ Sign(addend' - addend) \in {0, -Sign(dt_prev')}
          /\ gains.p * Magnitude(dt_prev') >= Grain
                => addend' # addend \/ addend \in {0, AddendLimit} ]_servoVars

\* The help line at ptp.c:197, "Set or query clock offset": a cycle runs with an
\* offset that has been set, or with none.
OffsetIsSet ==
    [][ last' # last /\ last'.kind # "none" => nsI(offset) \in Offsets \cup {0} ]_servoVars
=============================================================================
