------------------------------ MODULE MCServo ------------------------------
(***************************************************************************)
(* A second of four nanoseconds: every case of sign, carry and rounding    *)
(* occurs, and a word has room for four seconds and a bit, as 2^32 has.    *)
(***************************************************************************)
EXTENDS Servo

MCOffsets == {1, -6}
MCGains == {[p |-> 2, d |-> 0]}
=============================================================================
