----------------------------- MODULE TimeUtils -----------------------------
(***************************************************************************)
(* The time arithmetic of timeutils.c.  A timestamp is a record of seconds *)
(* and nanoseconds; C's division rounds towards zero, so that both parts   *)
(* of a negative time are negative.  The second is NanoPrefix nanoseconds  *)
(* and a 32-bit word has Word values, both scaled down for model checking. *)
(* No 64-bit quantity of the code comes near its limits.                   *)
(***************************************************************************)
EXTENDS Integers

CONSTANTS
    NanoPrefix,    (* NANO_PREFIX, 10^9 in the code                          *)
    Word           (* 2^32 in the code                                       *)

ASSUME TimeUtilsAssumption ==
    /\ NanoPrefix \in Nat \ {0}
    /\ Word \in Nat /\ Word % 2 = 0 /\ Word > 4 * NanoPrefix

Timestamp == [sec : Int, nanosec : Int]

\* Casts to uint32_t and to int32_t.
Uint32(n) == n % Word
Int32(n) == IF Uint32(n) < Word \div 2 THEN Uint32(n) ELSE Uint32(n) - Word

\* Integer division and remainder of C, by a positive number.
CDiv(a, b) == IF a >= 0 THEN a \div b ELSE -((-a) \div b)
CMod(a, b) == a - b * CDiv(a, b)

nsI(t) == t.sec * NanoPrefix + t.nanosec

\* Mutant of nsToTsI: the nanoseconds are kept non-negative, the seconds are not adjusted.
FloorRemainder(ns) ==
    [sec |-> CDiv(ns, NanoPrefix), nanosec |-> ns % NanoPrefix]

nsToTsI(ns) == [sec |-> CDiv(ns, NanoPrefix), nanosec |-> CMod(ns, NanoPrefix)]

addTime(a, b) == nsToTsI(nsI(a) + nsI(b))
subTime(a, b) == nsToTsI(nsI(a) - nsI(b))

divTime(a, divisor) ==
    LET ns  == CDiv(nsI(a), divisor)
        sec == CDiv(ns, NanoPrefix)
    IN  [sec |-> sec, nanosec |-> ns - sec * NanoPrefix]

\* The quotient goes through a uint32_t, also where it is negative.
normTime(t) ==
    LET s == Uint32(CDiv(t.nanosec, NanoPrefix))
    IN  [sec |-> t.sec + s, nanosec |-> Int32(t.nanosec - Uint32(s * NanoPrefix))]
=============================================================================
