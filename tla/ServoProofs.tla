---------------------------- MODULE ServoProofs ----------------------------
(***************************************************************************)
(* The arithmetic of timeutils.c and of ptp_perform_correction(), for      *)
(* every length of the second and every time.                              *)
(***************************************************************************)
EXTENDS Servo, TLAPS

USE TimeUtilsAssumption

(***************************************************************************)
(* C's division.                                                           *)
(***************************************************************************)
LEMMA FloorDivision ==
    ASSUME NEW a \in Nat, NEW b \in Nat \ {0}
    PROVE  /\ a \div b \in Nat
           /\ a % b \in 0 .. (b - 1)
           /\ a = b * (a \div b) + (a % b)
OBVIOUS

\* The quotient, and a remainder smaller than the divisor with the sign of a.
LEMMA CDivision ==
    ASSUME NEW a \in Int, NEW b \in Nat \ {0}
    PROVE  /\ CDiv(a, b) \in Int /\ CMod(a, b) \in Int
           /\ a = b * CDiv(a, b) + CMod(a, b)
           /\ -b < CMod(a, b) /\ CMod(a, b) < b
           /\ a >= 0 => CDiv(a, b) >= 0 /\ CMod(a, b) >= 0
           /\ a <= 0 => CDiv(a, b) <= 0 /\ CMod(a, b) <= 0
<1>1. CASE a >= 0
  <2>1. a \in Nat
    BY <1>1
  <2>2. PICK q \in Nat, r \in 0 .. (b - 1) :
           a \div b = q /\ a = b * q + r
    BY <2>1, FloorDivision
  <2>3. b * q \in Nat /\ (q = 0 \/ b * q >= b)
    BY <2>2
  <2>4. CDiv(a, b) = q /\ CMod(a, b) = a - b * q
    BY <1>1, <2>2 DEF CDiv, CMod
  <2>5. CMod(a, b) = r
    BY <2>2, <2>3, <2>4
  <2> QED BY <2>2, <2>3, <2>4, <2>5
<1>2. CASE a < 0
  <2>1. -a \in Nat /\ -a > 0
    BY <1>2
  <2> DEFINE c == -a
  <2>2. c \in Nat
    BY <2>1
  <2> HIDE DEF c
  <2>3. PICK q \in Nat, r \in 0 .. (b - 1) :
           c \div b = q /\ c = b * q + r
    BY <2>2, FloorDivision
  <2>4. (-a) \div b = q /\ -a = b * q + r
    BY <2>3 DEF c
  <2>5. b * q \in Nat /\ b * (-q) = -(b * q)
    BY <2>4
  <2>6. CDiv(a, b) = -q /\ CMod(a, b) = a - b * (-q)
    BY <1>2, <2>4 DEF CDiv, CMod
  <2>7. CMod(a, b) = -r
    BY <2>4, <2>5, <2>6
  <2> QED BY <1>2, <2>4, <2>5, <2>6, <2>7
<1> QED BY <1>1, <1>2

\* A quotient is zero only for a smaller dividend.
LEMMA CDivZero ==
    ASSUME NEW a \in Int, NEW b \in Nat \ {0}
    PROVE  CDiv(a, b) = 0 <=> -b < a /\ a < b
<1> DEFINE q == CDiv(a, b)
           r == CMod(a, b)
<1>1. /\ q \in Int /\ r \in Int /\ a = b * q + r /\ -b < r /\ r < b
      /\ a >= 0 => q >= 0 /\ r >= 0
      /\ a <= 0 => q <= 0 /\ r <= 0
  BY CDivision
<1> SUFFICES q = 0 <=> -b < a /\ a < b
  OBVIOUS
<1> HIDE DEF q, r
<1>2. CASE q = 0
  <2>1. b * q = 0
    BY <1>2
  <2> QED BY <1>1, <1>2, <2>1
<1>3. CASE q >= 1
  <2>1. b * q \in Int /\ b * q >= b
    BY <1>1, <1>3
  <2>2. a >= b
    BY <1>1, <1>3, <2>1
  <2> QED BY <1>1, <1>3, <2>2
<1>4. CASE q <= -1
  <2>1. b * q \in Int /\ b * q <= -b
    BY <1>1, <1>4
  <2>2. a <= -b
    BY <1>1, <1>4, <2>1
  <2> QED BY <1>1, <1>4, <2>2
<1> QED BY <1>1, <1>2, <1>3, <1>4

-----------------------------------------------------------------------------
(***************************************************************************)
(* timeutils.c                                                             *)
(***************************************************************************)
Normal(t) == t \in Timestamp /\ Magnitude(t.nanosec) < NanoPrefix

\* nsToTsI() is exact and normalizes; it has seconds only from a second on.
LEMMA NsRoundTrip ==
    ASSUME NEW ns \in Int
    PROVE  /\ Normal(nsToTsI(ns)) /\ nsI(nsToTsI(ns)) = ns
           /\ nsToTsI(ns).sec # 0 <=> Magnitude(ns) >= NanoPrefix
<1> DEFINE q == CDiv(ns, NanoPrefix)
           r == CMod(ns, NanoPrefix)
<1>1. /\ q \in Int /\ r \in Int /\ ns = NanoPrefix * q + r
      /\ -NanoPrefix < r /\ r < NanoPrefix
      /\ q = 0 <=> -NanoPrefix < ns /\ ns < NanoPrefix
  BY CDivision, CDivZero
<1>2. nsToTsI(ns) = [sec |-> q, nanosec |-> r]
  BY DEF nsToTsI
<1> HIDE DEF q, r
<1>3. nsI(nsToTsI(ns)) = q * NanoPrefix + r
  BY <1>2 DEF nsI
<1>4. Normal(nsToTsI(ns))
  BY <1>1, <1>2 DEF Normal, Timestamp, Magnitude
<1>5. nsToTsI(ns).sec # 0 <=> Magnitude(ns) >= NanoPrefix
  BY <1>1, <1>2 DEF Magnitude
<1>6. nsI(nsToTsI(ns)) = ns
  BY <1>1, <1>3
<1> QED BY <1>4, <1>5, <1>6

LEMMA NsType == \A t \in Timestamp : nsI(t) \in Int
BY DEF nsI, Timestamp

LEMMA AddSubExact ==
    ASSUME NEW a \in Timestamp, NEW b \in Timestamp
    PROVE  /\ Normal(addTime(a, b)) /\ nsI(addTime(a, b)) = nsI(a) + nsI(b)
           /\ Normal(subTime(a, b)) /\ nsI(subTime(a, b)) = nsI(a) - nsI(b)
<1>1. nsI(a) + nsI(b) \in Int /\ nsI(a) - nsI(b) \in Int
  BY NsType
<1> QED BY <1>1, NsRoundTrip DEF addTime, subTime

\* Halving rounds towards zero.
LEMMA HalveTime ==
    ASSUME NEW a \in Timestamp
    PROVE  /\ divTime(a, 2) \in Timestamp
           /\ 2 * nsI(divTime(a, 2)) - nsI(a) \in -1 .. 1
<1> DEFINE h == CDiv(nsI(a), 2)
           r == CMod(nsI(a), 2)
           s == CDiv(h, NanoPrefix)
<1>1. nsI(a) \in Int
  BY NsType
<1>2. h \in Int /\ r \in Int /\ nsI(a) = 2 * h + r /\ -2 < r /\ r < 2
  BY <1>1, CDivision
<1>3. s \in Int
  BY <1>2, CDivision
<1>4. divTime(a, 2) = [sec |-> s, nanosec |-> h - s * NanoPrefix]
  BY DEF divTime
<1> HIDE DEF h, r, s
<1>5. s * NanoPrefix \in Int
  BY <1>3
<1>6. nsI(divTime(a, 2)) = h
  BY <1>2, <1>4, <1>5 DEF nsI
<1>7. divTime(a, 2) \in Timestamp
  BY <1>2, <1>3, <1>4, <1>5 DEF Timestamp
<1> QED BY <1>1, <1>2, <1>6, <1>7

LEMMA Int32Small ==
    ASSUME NEW n \in Int, -(Word \div 2) < n, n < Word \div 2
    PROVE  Int32(n) = n
<1>1. Word = 2 * (Word \div 2) /\ Word \div 2 \in Nat
  OBVIOUS
<1>2. CASE n >= 0
  <2>1. n % Word = n
    BY <1>1, <1>2
  <2> QED BY <2>1 DEF Int32, Uint32
<1>3. CASE n < 0
  <2>1. n % Word = n + Word
    BY <1>1, <1>3
  <2> QED BY <1>1, <1>3, <2>1 DEF Int32, Uint32
<1> QED BY <1>2, <1>3

\* normTime() leaves every result of the other operations as it is.
LEMMA NormIdentity ==
    ASSUME NEW t, Normal(t)
    PROVE  normTime(t) = t
<1>1. /\ t \in [sec : Int, nanosec : Int]
      /\ -NanoPrefix < t.nanosec /\ t.nanosec < NanoPrefix
  BY DEF Normal, Timestamp, Magnitude
<1>2. CDiv(t.nanosec, NanoPrefix) = 0
  BY <1>1, CDivZero
<1>3. Uint32(0) = 0 /\ 0 * NanoPrefix = 0
  BY DEF Uint32
<1>4. NanoPrefix < Word \div 2
  OBVIOUS
<1>5. Int32(t.nanosec) = t.nanosec
  BY <1>1, <1>4, Int32Small
<1>6. normTime(t) = [sec |-> t.sec + 0, nanosec |-> Int32(t.nanosec - 0)]
  BY <1>2, <1>3 DEF normTime
<1> QED BY <1>1, <1>5, <1>6

-----------------------------------------------------------------------------
(***************************************************************************)
(* ptp_perform_correction()                                                *)
(***************************************************************************)
USE ServoAssumption

\* Taking off the correction field undoes the residence time exactly.
LEMMA CorrectedExact ==
    ASSUME NEW time \in Int, NEW cf \in Residences
    PROVE  Corrected(time, cf) \in Timestamp /\ nsI(Corrected(time, cf)) = time
<1> DEFINE field == [sec |-> 0, nanosec |-> Int32(cf)]
           raw == nsToTsI(time + cf)
<1>1. Int32(cf) = cf /\ cf \in Int
  BY Int32Small
<1>2. field \in Timestamp /\ nsI(field) = cf
  BY <1>1 DEF Timestamp, nsI
<1>3. raw \in Timestamp /\ nsI(raw) = time + cf
  BY <1>1, NsRoundTrip DEF Normal
<1>4. Normal(subTime(raw, field)) /\ nsI(subTime(raw, field)) = time + cf - cf
  BY <1>2, <1>3, AddSubExact
<1>5. Corrected(time, cf) = subTime(raw, field)
  BY <1>4, NormIdentity DEF Corrected
<1> QED BY <1>1, <1>4, <1>5 DEF Normal

\* The difference is that of the four times, halved, to half a nanosecond.
LEMMA DifferenceExact ==
    ASSUME NEW t1 \in Timestamp, NEW t2 \in Timestamp, NEW t3 \in Timestamp,
           NEW t4 \in Timestamp, offset \in Timestamp
    PROVE  \E n \in Int :
              /\ TimeDifference(t1, t2, t3, t4) = nsToTsI(n)
              /\ 2 * n - (nsI(t2) - nsI(t1) - nsI(t4) + nsI(t3) - 2 * nsI(offset))
                    \in -1 .. 1
<1> DEFINE x == subTime(t2, t1)
           y == subTime(x, t4)
           sum == addTime(y, t3)
           half == divTime(sum, 2)
           n == nsI(half) - nsI(offset)
<1>1. x \in Timestamp /\ nsI(x) = nsI(t2) - nsI(t1)
  BY AddSubExact DEF Normal
<1>2. y \in Timestamp /\ nsI(y) = nsI(x) - nsI(t4)
  BY <1>1, AddSubExact DEF Normal
<1>3. sum \in Timestamp /\ nsI(sum) = nsI(y) + nsI(t3)
  BY <1>2, AddSubExact DEF Normal
<1>4. half \in Timestamp /\ 2 * nsI(half) - nsI(sum) \in -1 .. 1
  BY <1>3, HalveTime
<1>5. TimeDifference(t1, t2, t3, t4) = normTime(subTime(half, offset))
  BY DEF TimeDifference
<1> HIDE DEF x, y, sum, half
<1>6. Normal(subTime(half, offset)) /\ subTime(half, offset) = nsToTsI(n)
  BY <1>4, AddSubExact DEF subTime
<1>7. TimeDifference(t1, t2, t3, t4) = nsToTsI(n)
  BY <1>5, <1>6, NormIdentity
<1>8. /\ nsI(t1) \in Int /\ nsI(t2) \in Int /\ nsI(t3) \in Int /\ nsI(t4) \in Int
      /\ nsI(x) \in Int /\ nsI(y) \in Int /\ nsI(sum) \in Int
      /\ nsI(half) \in Int /\ nsI(offset) \in Int
  BY <1>1, <1>2, <1>3, <1>4, NsType
<1>9. n \in Int /\ 2 * n = 2 * nsI(half) - 2 * nsI(offset)
  BY <1>8
<1> HIDE DEF n
<1>10. 2 * n - (nsI(t2) - nsI(t1) - nsI(t4) + nsI(t3) - 2 * nsI(offset)) \in -1 .. 1
  BY <1>1, <1>2, <1>3, <1>4, <1>8, <1>9
<1> QED BY <1>7, <1>9, <1>10

\* A cycle measures n, and jumps if that is a second or more.
LEMMA CycleMeasures ==
    ASSUME NEW base \in Int, NEW ms \in Nat, NEW sm \in Nat, NEW cf \in Residences,
           NEW lag \in Int, err \in Int, offset \in Timestamp, Cycle(base, ms, sm, cf, lag)
    PROVE  \E n \in Int :
              /\ 2 * n - TwiceTrue(ms, sm, lag) \in -1 .. 1
              /\ \/ /\ Magnitude(n) >= NanoPrefix
                    /\ err' = UpdateClock(err, nsToTsI(n))
                    /\ last' = [kind |-> "jump", d |-> n, slack |-> 2 * n - TwiceTrue(ms, sm, lag)]
                    /\ UNCHANGED pdVars
                 \/ /\ Magnitude(n) < NanoPrefix
                    /\ Tune(n) /\ dt_prev' = n
                    /\ last' = [kind |-> "tune", d |-> n, slack |-> 2 * n - TwiceTrue(ms, sm, lag)]
                    /\ UNCHANGED err
              /\ UNCHANGED setVars
<1> DEFINE later == base + NanoPrefix \div 2
           t1 == nsToTsI(base)
           t2 == Corrected(base + ms + err + lag, cf)
           t3 == nsToTsI(later + err)
           t4 == Corrected(later + sm, cf)
           d  == TimeDifference(t1, t2, t3, t4)
<1>1. later \in Int
  OBVIOUS
<1> HIDE DEF later
<1>2. t1 \in Timestamp /\ nsI(t1) = base
  BY NsRoundTrip DEF Normal
<1>3. t2 \in Timestamp /\ nsI(t2) = base + ms + err + lag
  BY CorrectedExact
<1>4. t3 \in Timestamp /\ nsI(t3) = later + err
  BY <1>1, NsRoundTrip DEF Normal
<1>5. t4 \in Timestamp /\ nsI(t4) = later + sm
  BY <1>1, CorrectedExact
<1>6. /\ \/ /\ IsCoarse(d)
            /\ err' = UpdateClock(err, d)
            /\ last' = Outcome("jump", d, ms, sm, lag)
            /\ UNCHANGED pdVars
         \/ /\ ~IsCoarse(d)
            /\ Tune(nsI(d))
            /\ dt_prev' = nsI(d)
            /\ last' = Outcome("tune", d, ms, sm, lag)
            /\ UNCHANGED err
      /\ UNCHANGED setVars
  BY DEF Cycle, later
<1> HIDE DEF t1, t2, t3, t4
<1>7. PICK n \in Int :
         /\ d = nsToTsI(n)
         /\ 2 * n - (nsI(t2) - nsI(t1) - nsI(t4) + nsI(t3) - 2 * nsI(offset)) \in -1 .. 1
  BY <1>2, <1>3, <1>4, <1>5, DifferenceExact
<1>8. nsI(offset) \in Int
  BY NsType
<1>9. 2 * n - TwiceTrue(ms, sm, lag) \in -1 .. 1
  BY <1>1, <1>2, <1>3, <1>4, <1>5, <1>7, <1>8 DEF TwiceTrue
<1>10. nsI(d) = n /\ (IsCoarse(d) <=> Magnitude(n) >= NanoPrefix)
  BY <1>7, NsRoundTrip DEF IsCoarse
<1> HIDE DEF d
<1>11. Magnitude(n) \in Int
  BY DEF Magnitude
<1>12. Magnitude(n) < NanoPrefix <=> ~(Magnitude(n) >= NanoPrefix)
  BY <1>11
<1> QED BY <1>6, <1>7, <1>9, <1>10, <1>12 DEF Outcome

-----------------------------------------------------------------------------
(***************************************************************************)
(* The servo as a whole.  The controller's memory is always a difference   *)
(* below a second: that is what bounds its derivative.                     *)
(***************************************************************************)
ServoInv ==
    /\ TypeOK
    /\ MeasuresError
    /\ ControllerInRange
    /\ Magnitude(dt_prev) < NanoPrefix

\* Multiples of Grain.
OnGrain(n) == n % Grain = 0

LEMMA GrainMultiple ==
    /\ \A k \in Int : Grain * k \in Int /\ OnGrain(Grain * k)
    /\ \A n \in Int : OnGrain(n) => \E k \in Int : n = Grain * k
<1>1. ASSUME NEW k \in Int
      PROVE  Grain * k \in Int /\ (Grain * k) % Grain = 0
  OBVIOUS
<1>2. ASSUME NEW n \in Int, n % Grain = 0
      PROVE  n \div Grain \in Int /\ n = Grain * (n \div Grain)
  BY <1>2
<1> QED BY <1>1, <1>2 DEF OnGrain

\* The sum of a multiple a of Grain and x is rounded to a multiple, on the same side of
\* a as x or to a itself, and to another one if x is Grain or more.
LEMMA RoundedSum ==
    ASSUME NEW a \in Int, OnGrain(a), NEW x \in Int
    PROVE  /\ Rounded(a + x) \in Int /\ OnGrain(Rounded(a + x))
           /\ x >= 0 => Rounded(a + x) >= a
           /\ x <= 0 => Rounded(a + x) <= a
           /\ x >= Grain => Rounded(a + x) > a
           /\ x <= -Grain => Rounded(a + x) < a
<1>1. PICK k \in Int : a = Grain * k
  BY GrainMultiple
<1> DEFINE q == (a + x) \div Grain
           r == (a + x) % Grain
<1>2. q \in Int /\ r \in 0 .. (Grain - 1) /\ a + x = Grain * q + r
  OBVIOUS
<1>3. \/ Rounded(a + x) = Grain * q
      \/ Rounded(a + x) = Grain * (q + 1) /\ r # 0
  BY <1>2 DEF Rounded
<1> HIDE DEF q, r
<1>4. \A m \in Int : m <= k - 1 => Grain * m <= Grain * k - Grain
  BY <1>1
<1>5. \A m \in Int : m >= k + 1 => Grain * m >= Grain * k + Grain
  BY <1>1
<1>6. Grain * (q + 1) = Grain * q + Grain /\ Grain * q \in Int /\ Grain * k \in Int
  BY <1>1, <1>2
<1>7. Rounded(a + x) \in Int /\ OnGrain(Rounded(a + x))
  <2>1. q + 1 \in Int
    BY <1>2
  <2>2. \A k2 \in Int : Grain * k2 \in Int /\ OnGrain(Grain * k2)
    BY GrainMultiple
  <2>3. CASE Rounded(a + x) = Grain * q
    BY <1>2, <2>2, <2>3
  <2>4. CASE Rounded(a + x) = Grain * (q + 1)
    BY <2>1, <2>2, <2>4
  <2> QED BY <1>3, <2>3, <2>4
<1>8. CASE q >= k + 1
  BY <1>1, <1>2, <1>3, <1>5, <1>6, <1>7, <1>8
<1>9. CASE q = k
  BY <1>1, <1>2, <1>3, <1>6, <1>7, <1>9
<1>10. CASE q <= k - 1
  <2>1. Grain * q <= a - Grain
    BY <1>1, <1>2, <1>4, <1>10
  <2>2. a \in Int /\ Grain \in Int /\ x < 0
    BY <1>2, <1>6, <2>1
  <2>3. Rounded(a + x) <= a
    BY <1>3, <1>6, <2>1, <2>2
  <2>4. ASSUME x <= -Grain PROVE Rounded(a + x) < a
    <3>1. CASE q = k - 1
      <4>1. Grain * q = a - Grain
        BY <1>1, <3>1
      <4>2. r = 0
        BY <1>2, <2>2, <2>4, <4>1
      <4>3. Rounded(a + x) = a - Grain
        BY <1>3, <4>1, <4>2
      <4> QED BY <2>2, <4>3
    <3>2. CASE q <= k - 2
      <4>1. q + 1 <= k - 1 /\ q + 1 \in Int
        BY <1>1, <1>2, <3>2
      <4>2. Grain * (q + 1) <= a - Grain
        BY <1>1, <1>4, <4>1
      <4>3. Grain * q \in Int /\ Grain * (q + 1) \in Int
        BY <1>2, <1>6
      <4>4. Rounded(a + x) <= a - Grain
        BY <1>3, <2>1, <4>2
      <4> QED BY <1>7, <2>2, <4>4
    <3> QED BY <1>1, <1>2, <1>10, <3>1, <3>2
  <2> QED BY <1>7, <2>2, <2>3, <2>4
<1> QED BY <1>1, <1>2, <1>8, <1>9, <1>10

\* Saturation keeps the type and the side of a.
LEMMA SaturatedFacts ==
    ASSUME NEW n \in Int, OnGrain(n)
    PROVE  /\ Saturated(n) \in 0 .. AddendLimit /\ OnGrain(Saturated(n))
           /\ \A a \in 0 .. AddendLimit :
                 /\ n >= a => Saturated(n) >= a
                 /\ n <= a => Saturated(n) <= a
                 /\ n > a => Saturated(n) > a \/ a = AddendLimit
                 /\ n < a => Saturated(n) < a \/ a = 0
<1>1. 0 % Grain = 0 /\ AddendLimit % Grain = 0 /\ AddendLimit \in Nat
  OBVIOUS
<1> QED BY <1>1 DEF Saturated, OnGrain

LEMMA PdOutputType ==
    ASSUME TypeOK, NEW n \in Int
    PROVE  PdOutput(n) \in Int
<1>1. dt_prev \in Int /\ gains.p \in Int /\ gains.d \in Int
  BY DEF TypeOK
<1>2. n * gains.p \in Int /\ (n - dt_prev) * gains.d \in Int
  BY <1>1
<1> QED BY <1>2 DEF PdOutput

LEMMA TunedType ==
    ASSUME TypeOK, NEW n \in Int, Tune(n)
    PROVE  addend' \in 0 .. AddendLimit /\ addend' % Grain = 0
<1>1. addend \in Int /\ OnGrain(addend) /\ PdOutput(n) \in Int
  BY PdOutputType DEF TypeOK, OnGrain
<1>2. Rounded(addend + PdOutput(n)) \in Int /\ OnGrain(Rounded(addend + PdOutput(n)))
  BY <1>1, RoundedSum
<1> QED BY <1>2, SaturatedFacts DEF Tune, OnGrain

LEMMA ServoTypes ==
    /\ \A n \in Int : Magnitude(n) \in Nat /\ Sign(n) \in {-1, 0, 1} /\ Int32(n) \in Int
    /\ \A time \in Int, n \in Int : UpdateClock(time, nsToTsI(n)) \in Int
<1>1. \A n \in Int : Magnitude(n) \in Nat /\ Sign(n) \in {-1, 0, 1} /\ Int32(n) \in Int
  BY DEF Magnitude, Sign, Int32, Uint32
<1>2. \A time \in Int, n \in Int : UpdateClock(time, nsToTsI(n)) \in Int
  <2> SUFFICES ASSUME NEW time \in Int, NEW n \in Int
               PROVE  UpdateClock(time, nsToTsI(n)) \in Int
    OBVIOUS
  <2> DEFINE sec == Magnitude(Int32(nsToTsI(n).sec))
             nanosec == Magnitude(nsToTsI(n).nanosec)
  <2>1. sec \in Int /\ nanosec \in Int
    BY <1>1, NsRoundTrip DEF Normal, Timestamp
  <2> HIDE DEF sec, nanosec
  <2>2. sec * NanoPrefix + nanosec \in Int
    BY <2>1
  <2>3. UpdateClock(time, nsToTsI(n)) \in {time + (sec * NanoPrefix + nanosec),
                                           time - (sec * NanoPrefix + nanosec)}
    BY DEF UpdateClock, SysTimeUpdate, nsI, sec, nanosec
  <2> QED BY <2>2, <2>3
<1> QED BY <1>1, <1>2

LEMMA ServoInit == Init => ServoInv
<1> SUFFICES ASSUME Init PROVE ServoInv
  OBVIOUS
<1>1. Normal(nsToTsI(0))
  BY NsRoundTrip
<1>2. Magnitude(0) = 0
  BY DEF Magnitude
<1> QED BY <1>1, <1>2 DEF Init, Idle, NoCycle, ServoInv, TypeOK, MeasuresError, ControllerInRange, Normal

LEMMA ServoStep == ServoInv /\ [Next]_servoVars => ServoInv'
<1> SUFFICES ASSUME ServoInv, [Next]_servoVars PROVE ServoInv'
  OBVIOUS
<1> USE DEF ServoInv
<1>1. ASSUME NEW base \in Bases, NEW ms \in Delays, NEW sm \in Delays,
             NEW cf \in Residences, NEW lag \in Lags, Cycle(base, ms, sm, cf, lag)
      PROVE  ServoInv'
  <2>1. /\ base \in Int /\ ms \in Nat /\ sm \in Nat /\ lag \in Int
        /\ err \in Int /\ offset \in Timestamp
    BY <1>1 DEF TypeOK, Lags
  <2>2. PICK n \in Int :
           /\ 2 * n - TwiceTrue(ms, sm, lag) \in -1 .. 1
           /\ \/ /\ Magnitude(n) >= NanoPrefix
                 /\ err' = UpdateClock(err, nsToTsI(n))
                 /\ last' = [kind |-> "jump", d |-> n, slack |-> 2 * n - TwiceTrue(ms, sm, lag)]
                 /\ UNCHANGED pdVars
              \/ /\ Magnitude(n) < NanoPrefix
                 /\ Tune(n) /\ dt_prev' = n
                 /\ last' = [kind |-> "tune", d |-> n, slack |-> 2 * n - TwiceTrue(ms, sm, lag)]
                 /\ UNCHANGED err
           /\ UNCHANGED setVars
    BY <1>1, <2>1, CycleMeasures
  <2> DEFINE slack == 2 * n - TwiceTrue(ms, sm, lag)
  <2>3. slack \in Int /\ slack \in -1 .. 1
    BY <2>2
  <2> HIDE DEF slack
  <2>4. CASE /\ Magnitude(n) >= NanoPrefix
             /\ err' = UpdateClock(err, nsToTsI(n))
             /\ last' = [kind |-> "jump", d |-> n, slack |-> slack]
             /\ UNCHANGED <<setVars, pdVars>>
    <3>1. err' \in Int
      BY <2>1, <2>4, ServoTypes
    <3>2. TypeOK'
      BY <2>3, <2>4, <3>1 DEF TypeOK, setVars, pdVars
    <3> QED BY <2>3, <2>4, <3>2 DEF pdVars, MeasuresError, ControllerInRange, Magnitude
  <2>5. CASE /\ Magnitude(n) < NanoPrefix
             /\ Tune(n) /\ dt_prev' = n
             /\ last' = [kind |-> "tune", d |-> n, slack |-> slack]
             /\ UNCHANGED <<err, setVars>>
    <3>1. addend' \in 0 .. AddendLimit /\ addend' % Grain = 0
      BY <2>5, TunedType
    <3>2. TypeOK'
      BY <2>3, <2>5, <3>1 DEF TypeOK, setVars, pdVars
    <3> QED BY <2>3, <2>5, <3>2 DEF MeasuresError, ControllerInRange, Magnitude
  <2> QED BY <2>2, <2>4, <2>5 DEF slack
<1>2. CASE Drift
  BY <1>2 DEF Drift, setVars, pdVars, TypeOK, MeasuresError, ControllerInRange, Magnitude
<1> USE DEF setVars, pdVars
<1>3. ASSUME NEW ns \in Offsets, SetOffsetSec(ns)
      PROVE  ServoInv'
  <2>1. ns \in Int /\ nsToTsI(ns).sec \in Int
    BY NsRoundTrip DEF Normal, Timestamp
  <2> QED BY <1>3, <2>1
       DEF SetOffsetSec, Begin, TypeOK, Timestamp, MeasuresError, ControllerInRange, Magnitude
<1>4. CASE SetOffsetNanosec
  <2>1. Normal(nsToTsI(pending.arg))
    BY NsRoundTrip DEF TypeOK
  <2> QED BY <1>4, <2>1 DEF SetOffsetNanosec, End, Normal, Idle, TypeOK, Timestamp,
       MeasuresError, ControllerInRange, Magnitude
<1>5. CASE Reset
  BY <1>5 DEF Reset, TypeOK, MeasuresError, ControllerInRange, Magnitude
<1>6. ASSUME NEW g \in Gains, SetPFactor(g)
      PROVE  ServoInv'
  BY <1>6 DEF SetPFactor, Begin, TypeOK, MeasuresError, ControllerInRange, Magnitude
<1>7. CASE SetDFactor
  BY <1>7 DEF SetDFactor, End, Idle, TypeOK, MeasuresError, ControllerInRange, Magnitude
<1>8. CASE NewSession
  BY <1>8 DEF NewSession, ptphw_init, NoCycle, TypeOK, Timestamp, MeasuresError, ControllerInRange,
     Magnitude
<1>9. CASE UNCHANGED servoVars
  BY <1>9 DEF servoVars, TypeOK, MeasuresError, ControllerInRange, Magnitude
<1> QED BY <1>1, <1>2, <1>3, <1>4, <1>5, <1>6, <1>7, <1>8, <1>9 DEF Next

THEOREM ServoInvariant == Spec => []ServoInv
BY ServoInit, ServoStep, PTL DEF Spec

\* For every length of the second, network delay, clock error and offset, also one
\* that is only half set: ptp_perform_correction() measures the error of the clock
\* to half a nanosecond.
THEOREM MeasuresTrueError == Spec => []MeasuresError
<1>1. ServoInv => MeasuresError
  BY DEF ServoInv
<1> QED BY <1>1, ServoInvariant, PTL

\* The clock is jumped exactly for a difference of a second or more; the PD
\* controller never sees one.
THEOREM ControllerRange == Spec => []ControllerInRange
<1>1. ServoInv => ControllerInRange
  BY DEF ServoInv
<1> QED BY <1>1, ServoInvariant, PTL

\* The int32_t derivative of pd_ctrl_run() never overflows.
THEOREM DerivativeInRange == Spec => DerivativeFits
<1>1. ServoInv /\ ServoInv' => Magnitude(dt_prev' - dt_prev) < Word \div 2
  <2> SUFFICES ASSUME ServoInv, ServoInv'
               PROVE  Magnitude(dt_prev' - dt_prev) < Word \div 2
    OBVIOUS
  <2>1. \A m, n \in Int : Magnitude(m) < NanoPrefix /\ Magnitude(n) < NanoPrefix
                               => Magnitude(n - m) < Word \div 2
    <3> SUFFICES ASSUME NEW m \in Int, NEW n \in Int,
                        Magnitude(m) < NanoPrefix, Magnitude(n) < NanoPrefix
                 PROVE  Magnitude(n - m) < Word \div 2
      OBVIOUS
    <3>1. 2 * NanoPrefix < Word \div 2
      OBVIOUS
    <3> QED BY <3>1 DEF Magnitude
  <2>2. dt_prev \in Int /\ Magnitude(dt_prev) < NanoPrefix
    BY DEF ServoInv, TypeOK
  <2>3. dt_prev' \in Int /\ Magnitude(dt_prev') < NanoPrefix
    BY DEF ServoInv, TypeOK
  <2> QED BY <2>1, <2>2, <2>3
<1>2. [][Magnitude(dt_prev' - dt_prev) < Word \div 2]_dt_prev <=> DerivativeFits
  BY DEF DerivativeFits
<1> QED BY <1>1, <1>2, ServoInvariant, PTL

-----------------------------------------------------------------------------
(***************************************************************************)
(* PTP_UPDATE_CLOCK().  labs() truncates its argument to 32 bits on this   *)
(* target, so the jump is exact only below 2^31 seconds.                   *)
(***************************************************************************)
JumpReach == (Word \div 2) * NanoPrefix

LEMMA JumpExact ==
    ASSUME NEW time \in Int, NEW n \in Int, Magnitude(n) < JumpReach
    PROVE  UpdateClock(time, nsToTsI(n)) = time - n
<1>1. PICK q \in Int, r \in Int :
         /\ nsToTsI(n) = [sec |-> q, nanosec |-> r]
         /\ n = NanoPrefix * q + r /\ -NanoPrefix < r /\ r < NanoPrefix
         /\ n >= 0 => q >= 0 /\ r >= 0
         /\ n <= 0 => q <= 0 /\ r <= 0
  BY CDivision DEF nsToTsI
<1>2. PICK half \in Nat : half = Word \div 2
  OBVIOUS
<1>3. JumpReach = half * NanoPrefix /\ JumpReach \in Int
  BY <1>2 DEF JumpReach
<1>4. NanoPrefix * q \in Int /\ q * NanoPrefix = NanoPrefix * q
      /\ (-q) * NanoPrefix = -(NanoPrefix * q)
  BY <1>1
<1>5. q >= half => NanoPrefix * q >= JumpReach
  BY <1>1, <1>2, <1>3
<1>6. q <= -half => NanoPrefix * q <= -JumpReach
  BY <1>1, <1>2, <1>3
<1>7. -half < q /\ q < half
  BY <1>1, <1>2, <1>3, <1>4, <1>5, <1>6 DEF Magnitude
<1>8. Int32(q) = q
  BY <1>2, <1>7, Int32Small
<1>9. UpdateClock(time, nsToTsI(n)) =
         IF n < 0 THEN time + (Magnitude(q) * NanoPrefix + Magnitude(r))
                  ELSE time - (Magnitude(q) * NanoPrefix + Magnitude(r))
  <2>1. nsI(nsToTsI(n)) = n
    BY NsRoundTrip
  <2> QED BY <1>1, <1>8, <2>1 DEF UpdateClock, SysTimeUpdate, nsI
<1>10. CASE n < 0
  <2>1. Magnitude(q) = -q /\ Magnitude(r) = -r
    BY <1>1, <1>10 DEF Magnitude
  <2> QED BY <1>1, <1>4, <1>9, <1>10, <2>1
<1>11. CASE n >= 0
  <2>1. Magnitude(q) = q /\ Magnitude(r) = r
    BY <1>1, <1>11 DEF Magnitude
  <2> QED BY <1>1, <1>4, <1>9, <1>11, <2>1
<1> QED BY <1>10, <1>11

\* The difference of the last cycle was within reach of a jump.
InReach == Magnitude(last.d) < JumpReach

\* Only a jump moves the clock by more than a drift does.
LEMMA OnlyJumpsMove ==
    ASSUME ServoInv, [Next]_servoVars, InReach', Magnitude(err' - err) > 1
    PROVE  \E ms, sm \in Delays, lag \in Lags :
              /\ err' = err - last'.d
              /\ 2 * last'.d - TwiceTrue(ms, sm, lag) \in -1 .. 1
              /\ UNCHANGED offset
<1>1. err \in Int /\ offset \in Timestamp
  BY DEF ServoInv, TypeOK
<1>2. err' \notin {err - 1, err, err + 1}
  <2> SUFFICES ASSUME NEW e \in Int, NEW f \in {e - 1, e, e + 1}
               PROVE  ~(Magnitude(f - e) > 1)
    BY <1>1
  <2> QED BY DEF Magnitude
<1>3. PICK base \in Bases, ms \in Delays, sm \in Delays, cf \in Residences, lag \in Lags :
         Cycle(base, ms, sm, cf, lag)
  <2>1. ~Drift /\ err' # err
    BY <1>2 DEF Drift
  <2> QED BY <2>1 DEF Next, servoVars, SetOffsetNanosec, SetDFactor, Reset, NewSession, ptphw_init,
       SetOffsetSec, SetPFactor
<1>4. base \in Int /\ ms \in Nat /\ sm \in Nat /\ lag \in Int
  BY DEF ServoInv, TypeOK, Lags
<1>5. PICK n \in Int :
         /\ 2 * n - TwiceTrue(ms, sm, lag) \in -1 .. 1
         /\ \/ /\ Magnitude(n) >= NanoPrefix
               /\ err' = UpdateClock(err, nsToTsI(n))
               /\ last' = [kind |-> "jump", d |-> n, slack |-> 2 * n - TwiceTrue(ms, sm, lag)]
               /\ UNCHANGED pdVars
            \/ /\ Magnitude(n) < NanoPrefix
               /\ Tune(n) /\ dt_prev' = n
               /\ last' = [kind |-> "tune", d |-> n, slack |-> 2 * n - TwiceTrue(ms, sm, lag)]
               /\ UNCHANGED err
         /\ UNCHANGED setVars
  BY <1>1, <1>3, <1>4, CycleMeasures
<1>6. err' = err - n /\ last'.d = n
  BY <1>1, <1>2, <1>5, JumpExact DEF InReach
<1> QED BY <1>5, <1>6 DEF setVars

\* A jump of less than 2^31 seconds moves the clock by exactly the difference
\* measured: labs(), abs() and the direction flag make up the signed number again.
THEOREM JumpsLand == Spec /\ []InReach => JumpLands
<1>1. ServoInv /\ [Next]_servoVars /\ InReach'
        => [Magnitude(err' - err) > 1 => err' = err - last'.d]_servoVars
  BY OnlyJumpsMove
<1> QED BY <1>1, ServoInvariant, PTL DEF Spec, JumpLands

\* Such a jump settles the clock to half the asymmetry of the network and half of the
\* last jump, whatever Sync from before that jump it was made with.
THEOREM JumpsSettle == Spec /\ []InReach => JumpSettles
<1>1. ASSUME ServoInv, [Next]_servoVars, InReach', Magnitude(err' - err) > 1
      PROVE  \E ms, sm \in Delays, lag \in Lags :
                2 * Magnitude(err' - nsI(offset)) <= Magnitude(lag) + ms - sm + 1
  <2>1. PICK ms \in Delays, sm \in Delays, lag \in Lags :
           /\ err' = err - last'.d
           /\ 2 * last'.d - TwiceTrue(ms, sm, lag) \in -1 .. 1
    BY <1>1, OnlyJumpsMove
  <2>2. /\ err \in Int /\ nsI(offset) \in Int /\ lag \in Int /\ ms \in Int /\ sm \in Int
        /\ last'.d \in Int
    <3>1. ServoInv'
      BY <1>1, ServoStep
    <3> QED BY <1>1, <3>1, NsType DEF ServoInv, TypeOK, Lags
  <2> DEFINE x == err' - nsI(offset)
             z == nsI(offset)
             d == last'.d
  <2>3. 2 * d - (2 * err + lag + (ms - sm) - 2 * z) \in -1 .. 1
    BY <2>1 DEF TwiceTrue
  <2>4. x \in Int /\ x = err - d - z /\ d \in Int /\ z \in Int
    BY <2>1, <2>2
  <2> HIDE DEF x, z, d
  <2>5. 2 * x + lag + (ms - sm) \in -1 .. 1
    BY <2>2, <2>3, <2>4
  <2>6. \/ 2 * Magnitude(x) <= Magnitude(lag) + ms - sm + 1
        \/ 2 * Magnitude(x) <= Magnitude(lag) + sm - ms + 1
    BY <2>2, <2>4, <2>5 DEF Magnitude
  <2> QED BY <2>6 DEF x
<1>2. ServoInv /\ [Next]_servoVars /\ InReach' =>
        [ Magnitude(err' - err) > 1 =>
            \E ms, sm \in Delays, lag \in Lags :
               2 * Magnitude(err' - nsI(offset)) <= Magnitude(lag) + ms - sm + 1 ]_servoVars
  BY <1>1
<1> QED BY <1>2, ServoInvariant, PTL DEF Spec, JumpSettles

-----------------------------------------------------------------------------
(***************************************************************************)
(* pd_ctrl_run()                                                           *)
(***************************************************************************)
LEMMA ProductSign ==
    \A a, b \in Nat : a * b \in Nat /\ (a > 0 /\ b > 0 => a * b > 0)
OBVIOUS

\* A difference n larger than the previous one m gets an output of the other sign, at
\* least as large as the proportional part.
LEMMA OutputOpposes ==
    ASSUME NEW n \in Int, NEW m \in Int, Magnitude(n) > Magnitude(m),
           NEW p \in Nat \ {0}, NEW d \in Nat
    PROVE  LET out == -(n * p + (n - m) * d)
           IN  /\ out \in Int /\ p * Magnitude(n) \in Int
               /\ n > 0 => out < 0 /\ out <= -(p * Magnitude(n))
               /\ n < 0 => out > 0 /\ out >= p * Magnitude(n)
               /\ n # 0
<1>1. CASE n > 0
  <2>1. n \in Nat /\ n - m \in Nat
    BY <1>1 DEF Magnitude
  <2>2. n * p \in Nat /\ n * p > 0 /\ (n - m) * d \in Nat
    BY <1>1, <2>1, ProductSign
  <2>3. Magnitude(n) = n /\ p * n = n * p
    BY <1>1 DEF Magnitude
  <2> QED BY <1>1, <2>2, <2>3
<1>2. CASE n < 0
  <2>1. -n \in Nat /\ -n > 0 /\ m - n \in Nat
    BY <1>2 DEF Magnitude
  <2>2. (-n) * p \in Nat /\ (-n) * p > 0 /\ (m - n) * d \in Nat
    BY <2>1, ProductSign
  <2>3. n * p = -((-n) * p) /\ (n - m) * d = -((m - n) * d)
    OBVIOUS
  <2>4. Magnitude(n) = -n /\ p * (-n) = (-n) * p
    BY <1>2 DEF Magnitude
  <2> QED BY <1>2, <2>2, <2>3, <2>4
<1> QED BY <1>1, <1>2 DEF Magnitude

\* A clock that is off and not getting any closer is never tuned further away, and is
\* tuned back from a grain of proportional output on, for all gains that are not negative
\* with some proportional part.
THEOREM TuningIsOpposite == Spec => TuningOpposes
<1>1. ASSUME ServoInv, [Next]_servoVars, gains.p > 0, gains.d >= 0, dt_prev # 0,
             Magnitude(dt_prev') > Magnitude(dt_prev)
      PROVE  /\ Sign(addend' - addend) \in {0, -Sign(dt_prev')}
             /\ gains.p * Magnitude(dt_prev') >= Grain
                   => addend' # addend \/ addend \in {0, AddendLimit}
  <2>1. /\ err \in Int /\ offset \in Timestamp /\ dt_prev \in Int
        /\ gains.p \in Nat \ {0} /\ gains.d \in Nat
        /\ addend \in 0 .. AddendLimit /\ addend \in Int /\ OnGrain(addend)
    BY <1>1 DEF ServoInv, TypeOK, OnGrain
  <2>2. dt_prev' # dt_prev /\ dt_prev' # 0
    BY <1>1, <2>1 DEF Magnitude
  <2>3. PICK base \in Bases, ms \in Delays, sm \in Delays, cf \in Residences, lag \in Lags :
           Cycle(base, ms, sm, cf, lag)
    BY <1>1, <2>2 DEF Next, servoVars, setVars, pdVars, Drift, SetOffsetNanosec, SetDFactor,
       Reset, NewSession, ptphw_init, SetOffsetSec, SetPFactor
  <2>4. base \in Int /\ ms \in Nat /\ sm \in Nat /\ lag \in Int
    BY <1>1 DEF ServoInv, TypeOK, Lags
  <2>5. PICK n \in Int : Tune(n) /\ dt_prev' = n
    BY <2>1, <2>2, <2>3, <2>4, CycleMeasures DEF pdVars
  <2> DEFINE out == PdOutput(n)
             part == gains.p * Magnitude(n)
             sum == Rounded(addend + out)
  <2>6. out = -(n * gains.p + (n - dt_prev) * gains.d)
    BY <1>1 DEF PdOutput
  <2>7. /\ out \in Int /\ part \in Int /\ n # 0
        /\ n > 0 => out < 0 /\ out <= -part
        /\ n < 0 => out > 0 /\ out >= part
    <3>1. Magnitude(n) > Magnitude(dt_prev)
      BY <1>1, <2>5
    <3>2. LET o == -(n * gains.p + (n - dt_prev) * gains.d)
          IN  /\ o \in Int /\ gains.p * Magnitude(n) \in Int
              /\ n > 0 => o < 0 /\ o <= -(gains.p * Magnitude(n))
              /\ n < 0 => o > 0 /\ o >= gains.p * Magnitude(n)
              /\ n # 0
      BY <2>1, <2>5, <3>1, OutputOpposes
    <3> QED BY <2>6, <3>2
  <2> HIDE DEF out, part
  <2>8. /\ sum \in Int /\ OnGrain(sum)
        /\ out >= 0 => sum >= addend
        /\ out <= 0 => sum <= addend
        /\ out >= Grain => sum > addend
        /\ out <= -Grain => sum < addend
    BY <2>1, <2>7, RoundedSum
  <2>9. addend' = Saturated(sum)
    BY <2>5 DEF Tune, out
  <2> HIDE DEF sum
  <2>10. /\ addend' \in Int
         /\ n > 0 => addend' <= addend
         /\ n < 0 => addend' >= addend
         /\ part >= Grain => addend' # addend \/ addend \in {0, AddendLimit}
    BY <2>1, <2>5, <2>7, <2>8, <2>9, SaturatedFacts
  <2>11. Sign(addend' - addend) \in {0, -Sign(n)}
    <3>0. \A a, b \in Int : /\ a <= b => Sign(a - b) \in {0, -1}
                            /\ a >= b => Sign(a - b) \in {0, 1}
      BY DEF Sign
    <3>1. CASE n > 0
      <4>1. Sign(n) = 1 /\ addend' <= addend
        BY <2>10, <3>1 DEF Sign
      <4>2. Sign(addend' - addend) \in {0, -1}
        BY <2>1, <2>10, <3>0, <4>1
      <4> QED BY <4>1, <4>2
    <3>2. CASE n < 0
      <4>1. Sign(n) = -1 /\ addend' >= addend
        BY <2>10, <3>2 DEF Sign
      <4>2. Sign(addend' - addend) \in {0, 1}
        BY <2>1, <2>10, <3>0, <4>1
      <4> QED BY <4>1, <4>2
    <3> QED BY <2>5, <2>7, <3>1, <3>2
  <2> QED BY <2>5, <2>10, <2>11 DEF part
<1>2. ServoInv /\ [Next]_servoVars =>
        [ gains.p > 0 /\ gains.d >= 0 /\ dt_prev # 0 /\ Magnitude(dt_prev') > Magnitude(dt_prev) =>
            /\ Sign(addend' - addend) \in {0, -Sign(dt_prev')}
            /\ gains.p * Magnitude(dt_prev') >= Grain
                  => addend' # addend \/ addend \in {0, AddendLimit} ]_servoVars
  BY <1>1
<1> QED BY <1>2, ServoInvariant, PTL DEF Spec, TuningOpposes
=============================================================================
