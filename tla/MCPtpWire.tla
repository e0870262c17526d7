----------------------------- MODULE MCPtpWire -----------------------------
(***************************************************************************)
(* Numbers whose bytes differ, carries, a full word and both signs; types  *)
(* the slave waits for, takes in other states, and ignores.                *)
(***************************************************************************)
EXTENDS PtpWire

MCMac == <<0, 18, 55, 2, 3, 4>>
MCOtherMacs == { <<0, 18, 55, 2, 3, 5>> }
MCSeqIds == { <<1, 0>>, <<0, 1>>, <<255, 255>> }
MCFillings == {0, 170}
MCTypes == {8, 9, 11}
\* Of the twelve flags no two are set in the same ones of these fields.
MCFlagFields == { <<69, 21>>, <<134, 25>>, <<224, 33>>, <<0, 62>> }
MCTimes == { [sec |-> <<0, 0, 0, 0, 0, 1>>, nanosec |-> <<59, 154, 201, 255>>],
             [sec |-> <<0, 0, 104, 1, 2, 3>>, nanosec |-> <<0, 0, 0, 1>>],
             [sec |-> <<1, 0, 255, 255, 255, 255>>, nanosec |-> <<0, 128, 0, 0>>] }
MCResidences == {0, 1, 1000, 70000, 2147483647, -1, -1000, -2147483647}
=============================================================================
