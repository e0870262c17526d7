----------------------------- MODULE SyncCycle -----------------------------
(***************************************************************************)
(* What the PTP slave promises of a synchronization cycle, without timers, *)
(* sequence identifiers, queues or tasks: a cycle goes from a Sync to its  *)
(* Follow_Up, to one Delay_Req, to at most one correction, and a cycle     *)
(* that is given up never corrects the clock.  PtpSlave implements it.     *)
(***************************************************************************)
EXTENDS Naturals, TLAPS

VARIABLES
    phase,         (* how far the cycle has come                             *)
    asks,          (* Delay_Req messages sent so far                         *)
    corrections,   (* corrections made so far                                *)
    sessions       (* sessions ended so far                                  *)

cycleVars == <<phase, asks, corrections, sessions>>

Phases == {"idle", "synced", "paired", "asked"}

CycleTypeOK ==
    phase \in Phases /\ asks \in Nat /\ corrections \in Nat /\ sessions \in Nat

CycleInit == phase = "idle" /\ asks = 0 /\ corrections = 0 /\ sessions = 0

TakeSync     == /\ phase = "idle" /\ phase' = "synced"
                /\ UNCHANGED <<asks, corrections, sessions>>
TakeFollowUp == /\ phase = "synced" /\ phase' = "paired"
                /\ UNCHANGED <<asks, corrections, sessions>>
Ask          == /\ phase = "paired" /\ phase' = "asked" /\ asks' = asks + 1
                /\ UNCHANGED <<corrections, sessions>>
Correct      == /\ phase = "asked" /\ phase' = "idle"
                /\ corrections' = corrections + 1
                /\ UNCHANGED <<asks, sessions>>
\* A timeout or a reset gives the cycle up; once the Follow_Up is there the
\* slave is committed to its Delay_Req and only gives up waiting for the answer.
Abandon      == /\ phase \in {"synced", "asked"} /\ phase' = "idle"
                /\ UNCHANGED <<asks, corrections, sessions>>
\* Only the end of a session gives a cycle up at any point.
EndSession   == /\ phase' = "idle" /\ sessions' = sessions + 1
                /\ UNCHANGED <<asks, corrections>>

CycleNext == TakeSync \/ TakeFollowUp \/ Ask \/ Correct \/ Abandon \/ EndSession

CycleSpec == CycleInit /\ [][CycleNext]_cycleVars

\* Each correction consumes a Delay_Req of its own: there are never more
\* corrections than requests, and fewer while an answer is awaited.
OneRequestEach == corrections + (IF phase = "asked" THEN 1 ELSE 0) <= asks

\* The cycle never corrects twice on one Delay_Req, nor without one.
THEOREM OneRequestSafe == CycleSpec => []OneRequestEach
<1> DEFINE Inv == CycleTypeOK /\ OneRequestEach
<1>1. CycleInit => Inv
  BY DEF CycleInit, CycleTypeOK, OneRequestEach, Phases
<1>2. Inv /\ [CycleNext]_cycleVars => Inv'
  BY DEF CycleTypeOK, OneRequestEach, Phases, CycleNext, TakeSync, TakeFollowUp, Ask,
     Correct, Abandon, EndSession, cycleVars
<1> QED BY <1>1, <1>2, PTL DEF CycleSpec
=============================================================================
