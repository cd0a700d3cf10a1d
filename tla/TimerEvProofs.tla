--------------------------- MODULE TimerEvProofs ----------------------------
(***************************************************************************)
(* Proofs about TimerEv, for every length of the day, every width of an    *)
(* int and every configuration line: what the loops of calc_starttime      *)
(* compute, and that the action is executed once for every time due.       *)
(***************************************************************************)
EXTENDS TimerEv, WellFoundedInduction, TLAPS

(* Every nonempty set of natural numbers has a least element: the          *)
(* induction over the passes of a loop.                                    *)
LEMMA NatMin ==
    ASSUME NEW T, T \subseteq Nat, T # {}
    PROVE  \E m \in T : \A n \in T : m <= n
<1> DEFINE R == OpToRel(<, Nat)
<1>1. IsWellFoundedOn(R, Nat)
  BY NatLessThanWellFounded
<1>2. \A x, y \in Nat : (<<y, x>> \in R) <=> y < x
  BY DEF OpToRel
<1> HIDE DEF R
<1>3. \E x \in T : \A y \in T : ~(<<y, x>> \in R)
  BY <1>1, WFMin
<1>4. \E x \in T : \A y \in T : ~(y < x)
  BY <1>2, <1>3, Zenon
<1> QED
  BY <1>4

-----------------------------------------------------------------------------
(* Remainders.                                                             *)

(* Quotient and remainder.                                                 *)
LEMMA ModProperties ==
    ASSUME NEW a \in Int, NEW n \in Nat \ {0}
    PROVE  /\ a % n \in 0..(n - 1)
           /\ a \div n \in Int
           /\ a = n * (a \div n) + (a % n)
  OBVIOUS

(* The remainder is known from any multiple of n.                          *)
LEMMA ModUnique ==
    ASSUME NEW a \in Int, NEW n \in Nat \ {0}, NEW q \in Int, NEW r \in 0..(n - 1),
           a = n * q + r
    PROVE  a % n = r /\ a \div n = q
<1>1. /\ a % n \in 0..(n - 1) /\ a \div n \in Int
      /\ n * q + r = n * (a \div n) + (a % n)
  BY ModProperties
<1> DEFINE p == a \div n
           s == a % n
<1> HIDE DEF p, s
<1>2. p \in Int /\ s \in 0..(n - 1) /\ n * q + r = n * p + s
  BY <1>1 DEF p, s
<1>3. r = s
  BY <1>2
<1>4. q = p
  BY <1>2
<1> QED
  BY <1>3, <1>4 DEF p, s

(* Adding n does not change the remainder.                                 *)
LEMMA ModShift ==
    ASSUME NEW a \in Int, NEW n \in Nat \ {0}
    PROVE  (a + n) % n = a % n
<1> DEFINE q == a \div n
           r == a % n
<1>1. q \in Int /\ r \in 0..(n - 1) /\ a = n * q + r
  BY ModProperties
<1> HIDE DEF q, r
<1>2. a + n = n * (q + 1) + r /\ q + 1 \in Int /\ a + n \in Int
  BY <1>1
<1>3. (a + n) % n = r
  BY <1>1, <1>2, ModUnique
<1> QED
  BY <1>3 DEF r

(* Below n a number is its own remainder.                                  *)
LEMMA ModSmall ==
    ASSUME NEW n \in Nat \ {0}, NEW r \in 0..(n - 1)
    PROVE  r % n = r
<1>1. r \in Int /\ 0 \in Int /\ r = n * 0 + r
  OBVIOUS
<1> QED
  BY <1>1, ModUnique

-----------------------------------------------------------------------------
(* calc_starttime.                                                         *)

(* The first loop of calc_starttime ends at the last time not after now    *)
(* that is a whole number of intervals before x.  The closed form solves   *)
(* the recursive equation, and by induction nothing else does.             *)
LEMMA TakenBackIs ==
    ASSUME now \in Int, NEW n \in Nat \ {0}, NEW x \in Int
    PROVE  TakenBack(n)[x] = IF x > now THEN now - ((now - x) % n) ELSE x
<1> DEFINE D == TakenBack(n)
           G == [s \in Int |-> IF s > now THEN now - ((now - s) % n) ELSE s]
<1>1. ASSUME NEW s \in Int, s > now PROVE G[s] = G[s - n] /\ s - n \in Int
  <2>1. s - n \in Int /\ now - s \in Int /\ now - (s - n) = (now - s) + n
    OBVIOUS
  <2>2. ((now - s) + n) % n = (now - s) % n
    BY <2>1, ModShift
  <2>3. CASE s - n > now
    BY <1>1, <2>1, <2>2, <2>3
  <2>4. CASE ~(s - n > now)
    <3>1. (now - s) + n \in 0..(n - 1)
      BY <1>1, <2>4
    <3>2. (now - s) % n = (now - s) + n
      BY <2>2, <3>1, ModSmall
    <3> QED
      BY <1>1, <2>1, <2>4, <3>2
  <2> QED
    BY <2>3, <2>4
<1>2. G = [s \in Int |-> IF s > now THEN G[s - n] ELSE s]
  BY <1>1
<1> HIDE DEF G
<1>3. D = [s \in Int |-> IF s > now THEN D[s - n] ELSE s]
  BY <1>2 DEF TakenBack
<1> HIDE DEF D
<1>4. \A k \in Nat : D[now + k] = G[now + k]
  <2> DEFINE T == {k \in Nat : D[now + k] # G[now + k]}
  <2> SUFFICES ASSUME T # {} PROVE FALSE
    OBVIOUS
  <2>1. PICK m \in T : \A k \in T : m <= k
    <3>1. T \subseteq Nat
      OBVIOUS
    <3> HIDE DEF T
    <3> QED
      BY <3>1, NatMin
  <2>2. m \in Nat /\ now + m \in Int /\ now + m - n \in Int
    OBVIOUS
  <2>3. CASE m = 0
    <3>1. D[now + m] = now + m
      BY <1>3, <2>2, <2>3
    <3>2. G[now + m] = now + m
      BY <1>2, <2>2, <2>3
    <3> QED
      BY <3>1, <3>2
  <2>4. CASE m > 0
    <3>1. D[now + m] = D[now + m - n] /\ G[now + m] = G[now + m - n]
      BY <1>2, <1>3, <2>2, <2>4
    <3>2. CASE m >= n
      <4>1. m - n \in Nat /\ now + (m - n) = now + m - n /\ m - n < m
        BY <2>2, <3>2
      <4>2. m - n \notin T
        <5> HIDE DEF T
        <5> QED
          BY <2>1, <2>2, <4>1
      <4>3. D[now + (m - n)] = G[now + (m - n)]
        BY <4>1, <4>2
      <4>4. D[now + m - n] = G[now + m - n]
        BY <4>1, <4>3
      <4> QED
        BY <3>1, <4>4
    <3>3. CASE m < n
      <4>1. ~(now + m - n > now)
        BY <2>2, <3>3
      <4>2. D[now + m - n] = now + m - n /\ G[now + m - n] = now + m - n
        BY <1>2, <1>3, <2>2, <4>1
      <4> QED
        BY <3>1, <4>2
    <3> QED
      BY <2>2, <3>2, <3>3
  <2> QED
    BY <2>2, <2>3, <2>4
<1>5. CASE x > now
  <2>1. x - now \in Nat /\ now + (x - now) = x
    BY <1>5
  <2> QED
    BY <1>4, <1>5, <2>1 DEF D, G
<1>6. CASE ~(x > now)
  <2>1. D[x] = x
    BY <1>3, <1>6
  <2> QED
    BY <1>6, <2>1 DEF D
<1> QED
  BY <1>5, <1>6

(* The second one ends at the first time not before now.                   *)
LEMMA TakenForwardIs ==
    ASSUME now \in Int, NEW n \in Nat \ {0}, NEW x \in Int
    PROVE  TakenForward(n)[x] = IF x < now THEN now + ((x - now) % n) ELSE x
<1> DEFINE U == TakenForward(n)
           G == [s \in Int |-> IF s < now THEN now + ((s - now) % n) ELSE s]
<1>1. ASSUME NEW s \in Int, s < now PROVE G[s] = G[s + n] /\ s + n \in Int
  <2>1. s + n \in Int /\ s - now \in Int /\ (s + n) - now = (s - now) + n
    OBVIOUS
  <2>2. ((s - now) + n) % n = (s - now) % n
    BY <2>1, ModShift
  <2>3. CASE s + n < now
    BY <1>1, <2>1, <2>2, <2>3
  <2>4. CASE ~(s + n < now)
    <3>1. (s - now) + n \in 0..(n - 1)
      BY <1>1, <2>4
    <3>2. (s - now) % n = (s - now) + n
      BY <2>2, <3>1, ModSmall
    <3> QED
      BY <1>1, <2>1, <2>4, <3>2
  <2> QED
    BY <2>3, <2>4
<1>2. G = [s \in Int |-> IF s < now THEN G[s + n] ELSE s]
  BY <1>1
<1> HIDE DEF G
<1>3. U = [s \in Int |-> IF s < now THEN U[s + n] ELSE s]
  BY <1>2 DEF TakenForward
<1> HIDE DEF U
<1>4. \A k \in Nat : U[now - k] = G[now - k]
  <2> DEFINE T == {k \in Nat : U[now - k] # G[now - k]}
  <2> SUFFICES ASSUME T # {} PROVE FALSE
    OBVIOUS
  <2>1. PICK m \in T : \A k \in T : m <= k
    <3>1. T \subseteq Nat
      OBVIOUS
    <3> HIDE DEF T
    <3> QED
      BY <3>1, NatMin
  <2>2. m \in Nat /\ now - m \in Int /\ now - m + n \in Int
    OBVIOUS
  <2>3. CASE m = 0
    <3>1. U[now - m] = now - m
      BY <1>3, <2>2, <2>3
    <3>2. G[now - m] = now - m
      BY <1>2, <2>2, <2>3
    <3> QED
      BY <3>1, <3>2
  <2>4. CASE m > 0
    <3>1. U[now - m] = U[now - m + n] /\ G[now - m] = G[now - m + n]
      BY <1>2, <1>3, <2>2, <2>4
    <3>2. CASE m >= n
      <4>1. m - n \in Nat /\ now - (m - n) = now - m + n /\ m - n < m
        BY <2>2, <3>2
      <4>2. m - n \notin T
        <5> HIDE DEF T
        <5> QED
          BY <2>1, <2>2, <4>1
      <4>3. U[now - (m - n)] = G[now - (m - n)]
        BY <4>1, <4>2
      <4>4. U[now - m + n] = G[now - m + n]
        BY <4>1, <4>3
      <4> QED
        BY <3>1, <4>4
    <3>3. CASE m < n
      <4>1. ~(now - m + n < now)
        BY <2>2, <3>3
      <4>2. U[now - m + n] = now - m + n /\ G[now - m + n] = now - m + n
        BY <1>2, <1>3, <2>2, <4>1
      <4> QED
        BY <3>1, <4>2
    <3> QED
      BY <2>2, <3>2, <3>3
  <2> QED
    BY <2>2, <2>3, <2>4
<1>5. CASE x < now
  <2>1. now - x \in Nat /\ now - (now - x) = x
    BY <1>5
  <2> QED
    BY <1>4, <1>5, <2>1 DEF U, G
<1>6. CASE ~(x < now)
  <2>1. U[x] = x
    BY <1>3, <1>6
  <2> QED
    BY <1>6, <2>1 DEF U
<1> QED
  BY <1>5, <1>6

(* Numbers that differ by a remainder are congruent.                       *)
LEMMA ModOfRest ==
    ASSUME NEW a \in Int, NEW n \in Nat \ {0}
    PROVE  (0 - ((0 - a) % n)) % n = a % n
<1> DEFINE q == (0 - a) \div n
           r == (0 - a) % n
           p == a \div n
           s == a % n
<1>1. /\ q \in Int /\ r \in 0..(n - 1) /\ 0 - a = n * q + r
      /\ p \in Int /\ s \in 0..(n - 1) /\ a = n * p + s
  <2>1. 0 - a \in Int
    OBVIOUS
  <2> QED
    BY <2>1, ModProperties
<1> HIDE DEF q, r, p, s
<1>2. 0 - r = n * (q + p) + s /\ 0 - r \in Int /\ q + p \in Int
  BY <1>1
<1>3. (0 - r) % n = s
  BY <1>1, <1>2, ModUnique
<1> QED
  BY <1>3 DEF r, s

(* The two loops of calc_starttime compute a remainder: the time from now  *)
(* to the next whole number of intervals from today's start time.          *)
THEOREM CalcStarttimeIs ==
    ASSUME now \in Int, NEW n \in Nat \ {0}, NEW start \in Int, DayStart(now) \in Int
    PROVE  CalcStarttime(start, n) = (DayStart(now) + start - now) % n
<1> DEFINE x == DayStart(now) + start
           y == TakenBack(n)[x]
<1>0. x \in Int /\ now - x \in Int /\ x - now \in Int
  OBVIOUS
<1> HIDE DEF x
<1>1. y = IF x > now THEN now - ((now - x) % n) ELSE x
  BY <1>0, TakenBackIs
<1>2. (now - x) % n \in 0..(n - 1) /\ (x - now) % n \in 0..(n - 1)
  BY <1>0, ModProperties
<1>3. y \in Int /\ ~(y > now)
  BY <1>0, <1>1, <1>2
<1>4. (y - now) % n = (x - now) % n
  <2>1. CASE x > now
    <3> DEFINE a == x - now
    <3>1. a \in Int /\ 0 - a = now - x
      BY <1>0
    <3>2. y - now = 0 - ((now - x) % n)
      BY <1>1, <1>2, <2>1
    <3>3. (0 - ((0 - a) % n)) % n = a % n
      BY <3>1, ModOfRest
    <3> QED
      BY <3>1, <3>2, <3>3
  <2>2. CASE ~(x > now)
    BY <1>1, <2>2
  <2> QED
    BY <2>1, <2>2
<1> HIDE DEF y
<1>5. TakenForward(n)[y] = now + ((x - now) % n)
  <2>1. TakenForward(n)[y] = IF y < now THEN now + ((y - now) % n) ELSE y
    BY <1>3, TakenForwardIs
  <2>2. CASE y < now
    BY <1>4, <2>1, <2>2
  <2>3. CASE y = now
    <3>1. y - now = 0 /\ 0 \in 0..(n - 1)
      BY <2>3
    <3>2. (y - now) % n = 0
      BY <3>1, ModSmall
    <3> QED
      BY <1>4, <2>1, <2>3, <3>2
  <2> QED
    BY <1>3, <2>2, <2>3
<1>6. CalcStarttime(start, n) = TakenForward(n)[y] - now
  BY DEF CalcStarttime, x, y
<1>7. x - now = DayStart(now) + start - now
  BY DEF x
<1> QED
  BY <1>2, <1>5, <1>6, <1>7

-----------------------------------------------------------------------------
(* Types.                                                                  *)

(* The constants are positive.                                             *)
LEMMA Widths ==
    /\ DaySecs \in Nat \ {0} /\ SecMs \in Nat \ {0}
    /\ NumberMax \in Nat \ {0} /\ IntMax \in Nat \ {0}
  BY WidthAssumption

(* A quotient is not larger than what is divided.                          *)
LEMMA DivBound ==
    ASSUME NEW a \in Nat, NEW n \in Nat \ {0}
    PROVE  a \div n \in 0..a
<1> DEFINE q == a \div n
           r == a % n
<1>1. q \in Int /\ r \in 0..(n - 1) /\ a = n * q + r
  BY ModProperties
<1> HIDE DEF q, r
<1>2. q >= 0
  BY <1>1
<1>3. q <= a
  BY <1>1, <1>2
<1> QED
  BY <1>1, <1>2, <1>3 DEF q

(* An int keeps its width, and a value that fits is not changed.           *)
LEMMA WrapProperties ==
    ASSUME NEW x \in Int
    PROVE  /\ Wrap(x) \in Int /\ Wrap(x) <= IntMax
           /\ x \in 0..IntMax => Wrap(x) = x
<1> DEFINE n == 2 * (IntMax + 1)
           w == x % n
<1>1. n \in Nat \ {0} /\ IntMax \in Nat
  BY Widths
<1> HIDE DEF n
<1>2. w \in 0..(n - 1)
  BY <1>1, ModProperties
<1>3. x \in 0..IntMax => w = x
  <2> SUFFICES ASSUME x \in 0..IntMax PROVE w = x
    OBVIOUS
  <2>1. x \in 0..(n - 1)
    BY <1>1 DEF n
  <2> QED
    BY <1>1, <2>1, ModSmall
<1>4. Wrap(x) = IF w > IntMax THEN w - n ELSE w
  BY DEF Wrap, n
<1> HIDE DEF w
<1> QED
  BY <1>1, <1>2, <1>3, <1>4 DEF n

(* parse_interval checks for an overflow before it multiplies.             *)
LEMMA IntervalFits ==
    ASSUME NEW n \in Int, NEW unit, IntervalValid(n, unit)
    PROVE  n * Quantifier[unit] \in 1..IntMax
<1> DEFINE u == Quantifier[unit]
           q == IntMax \div u
<1>1. u \in 1..IntMax /\ IntMax \in Nat \ {0} /\ n \in Nat \ {0} /\ q >= n
  BY Widths, WidthAssumption DEF IntervalValid
<1> HIDE DEF u
<1>2. q \in Int /\ IntMax % u \in 0..(u - 1) /\ IntMax = u * q + (IntMax % u)
  BY <1>1, ModProperties
<1> HIDE DEF q
<1>3. u * q <= IntMax
  BY <1>1, <1>2
<1>4. u * n <= u * q
  BY <1>1, <1>2
<1>5. n * u >= 1 /\ n * u = u * n
  BY <1>1
<1>6. n * u \in 1..IntMax
  BY <1>1, <1>2, <1>3, <1>4, <1>5
<1> QED
  BY <1>6 DEF u

(* What the type invariant rests on: the timer is untouched until it is    *)
(* opened, and there are not more expirations than seconds.                *)
TimerInv ==
    /\ TypeOK
    /\ timer \in [next : Nat, period : Nat]
    /\ ticks <= now
    /\ phase # "running" => timer.next = 0 /\ timer.period = 0 /\ ticks = 0 /\ fired = {}

(* The offset that Open hands to timer_set, in whole seconds.              *)
Offset == (DayStart(now) + def.start - now) % def.interval

(* It is what calc_starttime returns, and less than an interval.           *)
LEMMA OffsetIs ==
    ASSUME TypeOK
    PROVE  /\ CalcStarttime(def.start, def.interval) = Offset
           /\ Offset \in 0..(def.interval - 1)
           /\ DayStart(now) \in Int
<1>1. now \in Int /\ def.start \in Int /\ def.interval \in Nat \ {0}
  BY Widths, BoundAssumption DEF TypeOK
<1>2. DayStart(now) \in Int
  <2>1. now % DaySecs \in 0..(DaySecs - 1)
    BY <1>1, Widths, ModProperties
  <2> QED
    BY <1>1, <2>1, Widths DEF DayStart
<1>3. DayStart(now) + def.start - now \in Int
  BY <1>1, <1>2
<1> QED
  BY <1>1, <1>2, <1>3, CalcStarttimeIs, ModProperties DEF Offset

(* timer_ev_open, in terms of the offset.                                  *)
LEMMA OpenIs ==
    ASSUME TypeOK, Open
    PROVE  /\ opened' = now /\ UNCHANGED <<line, def, now, ticks, fired>>
           /\ phase' \in {"failed", "running"}
           /\ phase' = "failed" => timer' = timer
           /\ phase' = "running" => /\ timer' \in [next : Nat, period : Nat]
                                    /\ timer'.next \in 0..(now + IntMax)
                                    /\ timer'.period \in 0..IntMax
           /\ Fits => /\ phase' = "running"
                      /\ timer'.next = IF Offset = 0 THEN 0 ELSE now + Offset
                      /\ timer'.period = def.interval
<1> DEFINE x == CalcStarttime(def.start, def.interval) * SecMs
           y == def.interval * SecMs
           ms == Wrap(x)
           per == Wrap(y)
<1>0. SecMs \in Nat \ {0} /\ IntMax \in Nat \ {0}
  BY Widths
<1>1. /\ opened' = now /\ UNCHANGED <<line, def, now, ticks, fired>>
      /\ phase' = IF ms < 0 THEN "failed" ELSE "running"
      /\ timer' = IF ms < 0 THEN timer
                  ELSE [next   |-> IF ms = 0 THEN 0 ELSE now + (ms \div SecMs),
                        period |-> IF per > 0 THEN per \div SecMs ELSE 0]
  BY DEF Open, TimerSet
<1>2. Offset \in 0..(def.interval - 1) /\ x = Offset * SecMs
  BY OffsetIs
<1>3. def.interval \in Nat \ {0} /\ now \in Nat
  BY <1>0, BoundAssumption DEF TypeOK
<1>4. Offset \in Nat /\ Offset < def.interval
  BY <1>2, <1>3
<1> HIDE DEF x, y
<1> HIDE DEF Offset
<1>5. x \in Int /\ y \in Int
  BY <1>0, <1>2, <1>3, <1>4 DEF y
<1>6. /\ ms \in Int /\ ms <= IntMax /\ (x \in 0..IntMax => ms = x)
      /\ per \in Int /\ per <= IntMax /\ (y \in 0..IntMax => per = y)
  BY <1>5, WrapProperties
<1> HIDE DEF ms, per
<1>7. /\ ms >= 0 => ms \div SecMs \in 0..IntMax
      /\ per > 0 => per \div SecMs \in 0..IntMax
  <2>1. ms >= 0 => ms \div SecMs \in 0..ms
    BY <1>0, <1>6, DivBound
  <2>2. per > 0 => per \div SecMs \in 0..per
    BY <1>0, <1>6, DivBound
  <2> QED
    BY <1>0, <1>6, <2>1, <2>2
<1>8. phase' = "running" => /\ timer' \in [next : Nat, period : Nat]
                            /\ timer'.next \in 0..(now + IntMax)
                            /\ timer'.period \in 0..IntMax
  <2> SUFFICES ASSUME phase' = "running"
               PROVE  /\ timer' \in [next : Nat, period : Nat]
                      /\ timer'.next \in 0..(now + IntMax)
                      /\ timer'.period \in 0..IntMax
    OBVIOUS
  <2>1. ms >= 0
    BY <1>1, <1>6
  <2>2. (IF ms = 0 THEN 0 ELSE now + (ms \div SecMs)) \in 0..(now + IntMax)
    BY <1>0, <1>3, <1>7, <2>1
  <2>3. (IF per > 0 THEN per \div SecMs ELSE 0) \in 0..IntMax
    BY <1>0, <1>7
  <2>4. /\ timer'.next = (IF ms = 0 THEN 0 ELSE now + (ms \div SecMs))
        /\ timer'.period = (IF per > 0 THEN per \div SecMs ELSE 0)
        /\ timer' = [next |-> timer'.next, period |-> timer'.period]
    BY <1>1, <1>6, <2>1
  <2>5. timer'.next \in Nat /\ timer'.period \in Nat
    BY <1>0, <1>3, <2>2, <2>3, <2>4
  <2> QED
    BY <2>2, <2>3, <2>4, <2>5
<1>9. ASSUME Fits
      PROVE  /\ phase' = "running"
             /\ timer'.next = IF Offset = 0 THEN 0 ELSE now + Offset
             /\ timer'.period = def.interval
  <2>1. y \in 0..IntMax /\ y > 0
    BY <1>0, <1>3, <1>9 DEF Fits, y
  <2>2. x \in 0..IntMax
    <3>1. Offset * SecMs <= def.interval * SecMs /\ Offset * SecMs >= 0
      BY <1>0, <1>3, <1>4
    <3> QED
      BY <1>0, <1>2, <1>5, <2>1, <3>1 DEF y
  <2>3. ms = x /\ per = y
    BY <1>6, <2>1, <2>2
  <2>4. ms \div SecMs = Offset
    <3>1. x = SecMs * Offset + 0 /\ Offset \in Int /\ 0 \in 0..(SecMs - 1)
      BY <1>0, <1>2, <1>4
    <3> QED
      BY <1>0, <1>5, <2>3, <3>1, ModUnique
  <2>5. per \div SecMs = def.interval
    <3>1. y = SecMs * def.interval + 0 /\ def.interval \in Int /\ 0 \in 0..(SecMs - 1)
      BY <1>0, <1>3 DEF y
    <3> QED
      BY <1>0, <1>5, <2>3, <3>1, ModUnique
  <2>6. ms = 0 <=> Offset = 0
    <3>1. Offset >= 1 => Offset * SecMs >= 1
      BY <1>0, <1>4
    <3>2. Offset = 0 => Offset * SecMs = 0
      BY <1>0
    <3> QED
      BY <1>2, <1>4, <2>3, <3>1, <3>2
  <2>7. ms >= 0 /\ per > 0
    BY <1>0, <2>1, <2>2, <2>3
  <2>8. /\ phase' = "running"
        /\ timer' = [next   |-> IF ms = 0 THEN 0 ELSE now + (ms \div SecMs),
                     period |-> IF per > 0 THEN per \div SecMs ELSE 0]
    BY <1>1, <1>6, <2>7
  <2> QED
    BY <2>4, <2>5, <2>6, <2>7, <2>8
<1> QED
  BY <1>1, <1>8, <1>9

(* TimerInv is inductive.                                                  *)
LEMMA TimerInvCorrect == Spec => []TimerInv
<1>1. Init => TimerInv
  <2> SUFFICES ASSUME Init PROVE TimerInv
    OBVIOUS
  <2> USE Widths, BoundAssumption
  <2>1. /\ def.start \in 0..(DaySecs - 1) /\ def.interval \in 1..IntMax
        /\ def.weekdays \in [Weekdays -> BOOLEAN]
    BY DEF Init, NoDays, Weekdays
  <2>2. now \in 1..NowMax /\ opened \in 0..now
    BY DEF Init
  <2>3. timer \in [next : Nat, period : Nat] /\ timer.next = 0 /\ timer.period = 0
    BY DEF Init
  <2> QED
    BY <2>1, <2>2, <2>3 DEF Init, TimerInv, TypeOK, Phases
<1>2. TimerInv /\ [Next]_vars => TimerInv'
  <2> SUFFICES ASSUME TimerInv, [Next]_vars PROVE TimerInv'
    OBVIOUS
  <2>0. /\ DaySecs \in Nat \ {0} /\ IntMax \in Nat \ {0} /\ NowMax \in Nat
        /\ now \in 1..NowMax /\ TypeOK
    BY Widths, BoundAssumption DEF TimerInv, TypeOK
  <2>1. CASE Parse
    <3>1. /\ def'.start = line.start /\ def'.start \in 0..(DaySecs - 1)
          /\ def'.interval = line.number * Quantifier[line.unit]
          /\ def'.weekdays \in {AllDays, NoDays}
      BY <2>1 DEF Parse, Accepted
    <3>2. def'.interval \in 1..IntMax
      <4>1. IntervalValid(line.number, line.unit) /\ line.number \in Int
        BY <2>0, <2>1, Widths DEF Parse, Accepted, IntervalValid
      <4> QED
        BY <3>1, <4>1, IntervalFits
    <3>3. def'.weekdays \in [Weekdays -> BOOLEAN]
      BY <3>1 DEF AllDays, NoDays, Weekdays
    <3>4. /\ phase = "config" /\ phase' = "parsed"
          /\ UNCHANGED <<line, now, opened, timer, ticks, fired>>
      BY <2>1 DEF Parse
    <3> QED
      BY <3>1, <3>2, <3>3, <3>4 DEF TimerInv, TypeOK, Phases
  <2>2. CASE Reject \/ OpenFails
    BY <2>2 DEF Reject, OpenFails, TimerInv, TypeOK, Phases
  <2>3. CASE Open
    <3>1. phase = "parsed"
      BY <2>3 DEF Open
    <3>2. /\ opened' = now /\ UNCHANGED <<line, def, now, ticks, fired>>
          /\ phase' \in {"failed", "running"}
          /\ phase' = "failed" => timer' = timer
          /\ phase' = "running" => /\ timer' \in [next : Nat, period : Nat]
                                   /\ timer'.next \in 0..(now + IntMax)
                                   /\ timer'.period \in 0..IntMax
      BY <2>0, <2>3, OpenIs
    <3> QED
      BY <2>0, <3>1, <3>2 DEF TimerInv, TypeOK, Phases
  <2>4. CASE Tick
    <3>1. /\ now' = now + 1 /\ now < NowMax /\ UNCHANGED <<phase, line, def, opened, fired>>
      BY <2>4 DEF Tick
    <3>2. CASE timer.next = now + 1
      <4>1. ticks' = ticks + 1
            /\ timer' = [timer EXCEPT !.next = IF timer.period > 0 THEN @ + timer.period ELSE 0]
        BY <2>0, <2>4, <3>2 DEF Tick
      <4>2. timer.period \in 0..IntMax /\ timer \in [next : Nat, period : Nat] /\ ticks \in Nat
        BY <2>0 DEF TimerInv, TypeOK
      <4>3. /\ timer' \in [next : Nat, period : Nat] /\ timer'.next \in 0..(now' + IntMax)
            /\ timer'.period = timer.period
        BY <2>0, <3>1, <3>2, <4>1, <4>2
      <4>4. phase = "running"
        BY <2>0, <3>2 DEF TimerInv
      <4> QED
        BY <2>0, <3>1, <4>1, <4>2, <4>3, <4>4 DEF TimerInv, TypeOK
    <3>3. CASE timer.next # now + 1
      <4>1. ticks' = ticks /\ timer' = timer
        BY <2>4, <3>3 DEF Tick
      <4> QED
        BY <2>0, <3>1, <4>1 DEF TimerInv, TypeOK
    <3> QED
      BY <3>2, <3>3
  <2>5. CASE Handle
    BY <2>0, <2>5 DEF Handle, ReadTicks, TimerInv, TypeOK
  <2>6. CASE UNCHANGED vars
    BY <2>6 DEF vars, TimerInv, TypeOK
  <2> QED
    BY <2>1, <2>2, <2>3, <2>4, <2>5, <2>6 DEF Next
<1> QED
  BY <1>1, <1>2, PTL DEF Spec

(* Every variable keeps its type: what parse_interval accepts fits an int, *)
(* and so does what timer_set is handed, even after an overflow.           *)
THEOREM TypeCorrect == Spec => []TypeOK
<1>1. TimerInv => TypeOK
  BY DEF TimerInv
<1> QED
  BY <1>1, TimerInvCorrect, PTL

-----------------------------------------------------------------------------
(* The schedule.                                                           *)

(* Due times are an interval apart.                                        *)
LEMMA DueSteps ==
    ASSUME TypeOK, opened \in Nat, NEW t \in Int, Due(t)
    PROVE  /\ Due(t + def.interval)
           /\ \A s \in (t + 1)..(t + def.interval - 1) : ~Due(s)
<1> DEFINE n == def.interval
           a == t - DayStart(opened) - def.start
<1>1. n \in Nat \ {0} /\ def.start \in Int /\ IntMax \in Nat
  BY Widths DEF TypeOK
<1>2. DayStart(opened) \in Int
  <2>1. opened % DaySecs \in 0..(DaySecs - 1)
    BY Widths, ModProperties
  <2> QED
    BY <2>1, Widths DEF DayStart
<1>3. a \in Int /\ a % n = 0
  BY <1>1, <1>2 DEF Due
<1>4. Due(t + n)
  <2>1. (t + n) - DayStart(opened) - def.start = a + n
    BY <1>1, <1>2
  <2>2. (a + n) % n = 0
    BY <1>1, <1>3, ModShift
  <2> QED
    BY <2>1, <2>2 DEF Due
<1>5. ASSUME NEW s \in (t + 1)..(t + n - 1) PROVE ~Due(s)
  <2> DEFINE d == s - t
             q == a \div n
  <2>1. d \in 0..(n - 1) /\ d # 0 /\ s - DayStart(opened) - def.start = a + d
    BY <1>1, <1>2
  <2>2. q \in Int /\ a = n * q + 0
    BY <1>1, <1>3, ModProperties
  <2> HIDE DEF d, q, a
  <2>3. a + d = n * q + d /\ a + d \in Int
    BY <1>1, <1>3, <2>1, <2>2
  <2>4. (a + d) % n = d
    BY <1>1, <2>1, <2>2, <2>3, ModUnique
  <2> QED
    BY <2>1, <2>4 DEF Due
<1> QED
  BY <1>4, <1>5

(* Due, if the timer is opened now.                                        *)
DueIfOpened(t) == (t - DayStart(now) - def.start) % def.interval = 0

(* The offset leads from the present time to the first time due.           *)
LEMMA OffsetIsFirst ==
    ASSUME TypeOK
    PROVE  /\ Offset = 0 <=> DueIfOpened(now)
           /\ DueIfOpened(now + Offset)
           /\ \A t \in now..(now + Offset - 1) : ~DueIfOpened(t)
<1> DEFINE n == def.interval
           b == DayStart(now) + def.start - now
           q == b \div n
<1>1. n \in Nat \ {0} /\ def.start \in Int /\ now \in Nat /\ DayStart(now) \in Int
  BY Widths, BoundAssumption, OffsetIs DEF TypeOK
<1>2. b \in Int
  BY <1>1
<1>3. q \in Int /\ Offset \in 0..(n - 1) /\ b = n * q + Offset
  BY <1>1, <1>2, ModProperties DEF Offset
<1>4. ASSUME NEW t \in Int
      PROVE  DueIfOpened(t) <=> (t - now - b) % n = 0
  <2>1. t - DayStart(now) - def.start = t - now - b
    BY <1>1
  <2> QED
    BY <2>1 DEF DueIfOpened
<1> HIDE DEF b, q, Offset
<1>5. DueIfOpened(now + Offset)
  <2>1. /\ (now + Offset) - now - b = n * (0 - q) + 0 /\ 0 - q \in Int
        /\ (now + Offset) - now - b \in Int
    BY <1>1, <1>2, <1>3
  <2>2. 0 \in 0..(n - 1) /\ now + Offset \in Int
    BY <1>1, <1>3
  <2>3. ((now + Offset) - now - b) % n = 0
    BY <1>1, <2>1, <2>2, ModUnique
  <2> QED
    BY <1>4, <2>2, <2>3
<1>6. ASSUME NEW t \in now..(now + Offset - 1) PROVE ~DueIfOpened(t)
  <2> DEFINE r == n - (Offset - (t - now))
  <2>1. r \in 0..(n - 1) /\ r # 0 /\ t \in Int
    BY <1>1, <1>3
  <2>2. t - now - b = n * (0 - q - 1) + r /\ 0 - q - 1 \in Int /\ t - now - b \in Int
    BY <1>1, <1>2, <1>3
  <2> HIDE DEF r
  <2>3. (t - now - b) % n = r
    BY <1>1, <2>1, <2>2, ModUnique
  <2> QED
    BY <1>4, <2>1, <2>3
<1>7. Offset = 0 <=> DueIfOpened(now)
  <2>1. CASE Offset = 0
    BY <1>1, <1>5, <2>1
  <2>2. CASE Offset # 0
    <3>1. now \in now..(now + Offset - 1)
      BY <1>1, <1>3, <2>2
    <3> QED
      BY <1>6, <2>2, <3>1
  <2> QED
    BY <2>1, <2>2
<1> QED
  BY <1>5, <1>6, <1>7

(* After timer_ev_open the timer expires at the first time due, or it is   *)
(* disarmed because the present second is due.                             *)
LEMMA OpenIsFirst ==
    ASSUME TimerInv, TimerInv', Open, Fits'
    PROVE  \/ Due(now)' /\ timer'.next = 0
           \/ /\ ~Due(now)'
              /\ timer'.next > now' /\ Due(timer.next)'
              /\ \A t \in now'..(timer'.next - 1) : ~Due(t)'
<1>1. TypeOK /\ TypeOK'
  BY DEF TimerInv
<1>2. opened' = now /\ now' = now /\ def' = def
  BY <1>1, OpenIs
<1>3. Fits
  BY <1>2 DEF Fits
<1>4. timer'.next = IF Offset = 0 THEN 0 ELSE now + Offset
  BY <1>1, <1>3, OpenIs
<1>5. Offset \in Nat /\ now \in Nat
  BY <1>1, OffsetIs, BoundAssumption, Widths DEF TypeOK
<1>6. /\ Offset = 0 <=> DueIfOpened(now)
      /\ DueIfOpened(now + Offset)
      /\ \A t \in now..(now + Offset - 1) : ~DueIfOpened(t)
  BY <1>1, OffsetIsFirst
<1> HIDE DEF Offset
<1>7. /\ Due(now)' <=> DueIfOpened(now)
      /\ Due(timer.next)' <=> DueIfOpened(timer'.next)
  BY <1>2 DEF Due, DueIfOpened, DayStart
<1> HIDE DEF DueIfOpened
<1>8. CASE Offset = 0
  BY <1>4, <1>6, <1>7, <1>8
<1>9. CASE Offset # 0
  <2>1. timer'.next = now + Offset /\ timer'.next > now
    BY <1>4, <1>5, <1>9
  <2>2. DueIfOpened(timer'.next)
    BY <1>6, <2>1
  <2>3. ASSUME NEW t \in now'..(timer'.next - 1) PROVE ~Due(t)'
    <3>1. t \in now..(now + Offset - 1)
      BY <1>2, <1>5, <2>1
    <3>2. ~DueIfOpened(t)
      BY <1>6, <3>1
    <3> QED
      BY <1>2, <3>2 DEF Due, DueIfOpened, DayStart
  <2>4. ~Due(now)' /\ Due(timer.next)'
    BY <1>6, <1>7, <1>9, <2>2
  <2> QED
    BY <1>2, <2>1, <2>3, <2>4
<1> QED
  BY <1>8, <1>9

(* calc_starttime and timer_set hand the kernel the first time due after   *)
(* the start, for every start time, interval and present time, if the      *)
(* interval in milliseconds fits an int and the present second is not due. *)
THEOREM FirstExpirationCorrect == Spec => []FirstExpiration
<1>1. Init => FirstExpiration
  BY DEF Init, FirstExpiration
<1>2. TimerInv /\ TimerInv' /\ FirstExpiration /\ [Next]_vars => FirstExpiration'
  <2> SUFFICES ASSUME TimerInv, TimerInv', FirstExpiration, [Next]_vars PROVE FirstExpiration'
    OBVIOUS
  <2>1. CASE Open
    BY <2>1, OpenIsFirst DEF FirstExpiration
  <2>2. CASE Tick
    <3>1. now' = now + 1 /\ opened' = opened /\ now \in Nat /\ opened <= now /\ opened \in Nat
      BY <2>2, BoundAssumption DEF Tick, TimerInv, TypeOK
    <3>2. now' # opened'
      BY <3>1
    <3> QED
      BY <3>2 DEF FirstExpiration
  <2>3. CASE Handle \/ UNCHANGED vars
    BY <2>3 DEF Handle, vars, FirstExpiration, Fits, Due, DayStart
  <2>4. CASE Parse \/ Reject \/ OpenFails
    BY <2>4 DEF Parse, Reject, OpenFails, FirstExpiration
  <2> QED
    BY <2>1, <2>2, <2>3, <2>4 DEF Next
<1> QED
  BY <1>1, <1>2, TimerInvCorrect, PTL DEF Spec

(* The next expiration is the next time due ...                            *)
Armed ==
    /\ timer.next > now
    /\ Due(timer.next)
    /\ \A t \in (now + 1)..(timer.next - 1) : ~Due(t)

(* ... or the timer was opened in a second that is due and never expires.  *)
Disarmed == timer.next = 0 /\ Due(opened) /\ ticks = 0 /\ fired = {}

(* An expiration that is not yet read is younger than every execution.     *)
PendingIsNew ==
    ticks > 0 => \E t \in (opened + 1)..now : Due(t) /\ \A g \in fired : g < t

(* Every execution has a time due of its own.                              *)
EachHasItsOwn ==
    \A f \in fired : \E t \in (opened + 1)..f : Due(t) /\ \A g \in fired : g < f => g < t

(* Every time due has been answered or is about to be.                     *)
Answered ==
    ~Due(opened) /\ def.weekdays = AllDays =>
        \A t \in opened..now : Due(t) => ticks > 0 \/ \E f \in fired : f >= t

(* The inductive invariant, as long as the interval fits an int.           *)
Schedule ==
    phase = "running" /\ Fits =>
        /\ timer.period = def.interval
        /\ Armed \/ Disarmed
        /\ PendingIsNew
        /\ EachHasItsOwn
        /\ Answered

(* The kernel's timer and the handler keep to the schedule.                *)
LEMMA ScheduleStep ==
    ASSUME TimerInv, TimerInv', Schedule, [Next]_vars
    PROVE  Schedule'
<1>0. /\ TypeOK /\ now \in Nat /\ opened \in Nat /\ opened <= now /\ ticks \in Nat
      /\ def.interval \in Nat \ {0} /\ IntMax \in Nat /\ fired \subseteq 1..now
      /\ NowMax \in Nat
  BY Widths, BoundAssumption DEF TimerInv, TypeOK
<1>1. CASE Open
  <2> SUFFICES ASSUME Fits' PROVE /\ timer'.period = def'.interval
                                  /\ Armed' \/ Disarmed'
                                  /\ PendingIsNew' /\ EachHasItsOwn' /\ Answered'
    BY DEF Schedule
  <2>1. /\ opened' = now /\ now' = now /\ def' = def /\ ticks' = 0 /\ fired' = {}
    <3>1. phase = "parsed"
      BY <1>1 DEF Open
    <3> QED
      BY <1>0, <1>1, <3>1, OpenIs DEF TimerInv
  <2>2. Fits
    BY <2>1 DEF Fits
  <2>3. phase' = "running" /\ timer'.period = def'.interval
    BY <1>0, <1>1, <2>1, <2>2, OpenIs
  <2>4. \/ Due(now)' /\ timer'.next = 0
        \/ /\ timer'.next > now' /\ Due(timer.next)'
           /\ \A t \in now'..(timer'.next - 1) : ~Due(t)'
    BY <1>1, <2>1, <2>3, OpenIsFirst
  <2>5. Due(now)' <=> Due(opened)'
    BY <2>1 DEF Due
  <2>6. Armed' \/ Disarmed'
    <3>1. CASE Due(now)' /\ timer'.next = 0
      BY <2>1, <2>5, <3>1 DEF Disarmed
    <3>2. CASE /\ timer'.next > now' /\ Due(timer.next)'
               /\ \A t \in now'..(timer'.next - 1) : ~Due(t)'
      <4>1. timer'.next \in Nat
        BY DEF TimerInv
      <4>2. \A t \in (now' + 1)..(timer'.next - 1) : t \in now'..(timer'.next - 1)
        BY <1>0, <2>1, <4>1
      <4> QED
        BY <3>2, <4>2 DEF Armed
    <3> QED
      BY <2>4, <3>1, <3>2
  <2>7. PendingIsNew' /\ EachHasItsOwn'
    BY <2>1 DEF PendingIsNew, EachHasItsOwn
  <2>8. Answered'
    <3>1. ASSUME NEW t \in opened'..now' PROVE t = opened'
      BY <1>0, <2>1
    <3> QED
      BY <3>1 DEF Answered
  <2> QED
    BY <2>3, <2>6, <2>7, <2>8
<1>2. CASE Tick
  <2>1. /\ now' = now + 1 /\ UNCHANGED <<phase, def, opened, fired>>
    BY <1>2 DEF Tick
  <2> SUFFICES ASSUME phase = "running", Fits
               PROVE  /\ timer'.period = def'.interval
                      /\ Armed' \/ Disarmed'
                      /\ PendingIsNew' /\ EachHasItsOwn' /\ Answered'
    BY <2>1 DEF Schedule, Fits
  <2>2. /\ timer.period = def.interval /\ (Armed \/ Disarmed)
        /\ PendingIsNew /\ EachHasItsOwn /\ Answered
    BY DEF Schedule
  <2>3. \A t : Due(t)' <=> Due(t)
    BY <2>1 DEF Due, DayStart
  <2>4. EachHasItsOwn'
    BY <2>1, <2>2, <2>3 DEF EachHasItsOwn
  <2>5. CASE timer.next = now + 1
    <3>1. Armed
      BY <1>0, <2>2, <2>5 DEF Disarmed
    <3>2. /\ ticks' = ticks + 1 /\ timer'.period = timer.period
          /\ timer'.next = now + 1 + def.interval
      <4>1. ticks' = ticks + 1
            /\ timer' = [timer EXCEPT !.next = IF timer.period > 0 THEN @ + timer.period ELSE 0]
        BY <1>0, <1>2, <2>5 DEF Tick
      <4>2. timer \in [next : Nat, period : Nat] /\ timer.period > 0
        BY <1>0, <2>2 DEF TimerInv
      <4> QED
        BY <2>2, <2>5, <4>1, <4>2
    <3>3. Due(now + 1)
      BY <2>5, <3>1 DEF Armed
    <3>4. /\ Due((now + 1) + def.interval)
          /\ \A s \in ((now + 1) + 1)..((now + 1) + def.interval - 1) : ~Due(s)
      BY <1>0, <3>3, DueSteps
    <3>5. Armed'
      <4>1. timer'.next > now' /\ timer'.next = (now + 1) + def.interval
        BY <1>0, <2>1, <3>2
      <4>2. Due(timer.next)'
        <5>1. Due(timer'.next)
          BY <3>4, <4>1
        <5> QED
          BY <2>1, <5>1 DEF Due, DayStart
      <4>3. \A t \in (now' + 1)..(timer'.next - 1) : ~Due(t)'
        BY <1>0, <2>1, <2>3, <3>4, <4>1
      <4> QED
        BY <4>1, <4>2, <4>3 DEF Armed
    <3>6. PendingIsNew'
      <4>1. CASE ticks > 0
        <5>1. PICK t \in (opened + 1)..now : Due(t) /\ \A g \in fired : g < t
          BY <2>2, <4>1 DEF PendingIsNew
        <5>2. t \in (opened' + 1)..now' /\ Due(t)' /\ \A g \in fired' : g < t
          BY <1>0, <2>1, <2>3, <5>1
        <5> QED
          BY <5>2 DEF PendingIsNew
      <4>2. CASE ~(ticks > 0)
        <5>1. PICK t \in Int : t = now + 1
          BY <1>0
        <5>2. t \in (opened' + 1)..now' /\ Due(t)' /\ \A g \in fired' : g < t
          BY <1>0, <2>1, <2>3, <3>3, <5>1
        <5> QED
          BY <5>2 DEF PendingIsNew
      <4> QED
        BY <4>1, <4>2
    <3>7. Answered'
      BY <1>0, <3>2 DEF Answered
    <3> QED
      BY <2>1, <2>2, <2>4, <3>2, <3>5, <3>6, <3>7
  <2>6. CASE timer.next # now + 1
    <3>1. ticks' = ticks /\ timer' = timer
      BY <1>2, <2>6 DEF Tick
    <3>2. CASE Disarmed
      <4>1. Disarmed'
        <5>1. Due(opened)'
          BY <2>1, <3>2 DEF Disarmed, Due, DayStart
        <5> QED
          BY <2>1, <3>1, <3>2, <5>1 DEF Disarmed
      <4>2. PendingIsNew'
        BY <3>1, <3>2 DEF PendingIsNew, Disarmed
      <4>3. Answered'
        BY <4>1 DEF Answered, Disarmed
      <4> QED
        BY <2>1, <2>2, <2>4, <3>1, <4>1, <4>2, <4>3
    <3>3. CASE Armed
      <4>0. timer.next \in Nat /\ timer.next > now + 1
        BY <1>0, <2>6, <3>3 DEF TimerInv, Armed
      <4>1. ~Due(now + 1)
        BY <1>0, <3>3, <4>0 DEF Armed
      <4>2. Armed'
        <5>1. Due(timer.next)'
          BY <2>1, <3>1, <3>3 DEF Armed, Due, DayStart
        <5>2. \A t \in (now' + 1)..(timer'.next - 1) : ~Due(t)'
          BY <1>0, <2>1, <2>3, <3>1, <3>3, <4>0 DEF Armed
        <5> QED
          BY <1>0, <2>1, <3>1, <4>0, <5>1, <5>2 DEF Armed
      <4>3. PendingIsNew'
        <5> SUFFICES ASSUME ticks > 0 PROVE PendingIsNew'
          BY <3>1 DEF PendingIsNew
        <5>1. PICK t \in (opened + 1)..now : Due(t) /\ \A g \in fired : g < t
          BY <2>2 DEF PendingIsNew
        <5>2. t \in (opened' + 1)..now' /\ Due(t)' /\ \A g \in fired' : g < t
          BY <1>0, <2>1, <2>3, <5>1
        <5> QED
          BY <5>2 DEF PendingIsNew
      <4>4. Answered'
        <5> SUFFICES ASSUME ~Due(opened)', def'.weekdays = AllDays,
                            NEW t \in opened'..now', Due(t)'
                     PROVE  ticks' > 0 \/ \E f \in fired' : f >= t
          BY DEF Answered
        <5>1. t \in opened..now /\ Due(t)
          BY <1>0, <2>1, <2>3, <4>1
        <5>2. ~Due(opened)
          BY <2>1 DEF Due, DayStart
        <5> QED
          BY <2>1, <2>2, <3>1, <5>1, <5>2 DEF Answered
      <4> QED
        BY <2>1, <2>2, <2>4, <3>1, <4>2, <4>3, <4>4
    <3> QED
      BY <2>2, <3>2, <3>3
  <2> QED
    BY <2>5, <2>6
<1>3. CASE Handle
  <2>1. /\ phase = "running" /\ ticks > 0 /\ ticks' = 0
        /\ fired' = IF def.weekdays[Weekday(now)] THEN fired \cup {now} ELSE fired
        /\ UNCHANGED <<phase, def, now, opened, timer>>
    BY <1>3 DEF Handle, ReadTicks
  <2> SUFFICES ASSUME Fits
               PROVE  /\ timer'.period = def'.interval
                      /\ Armed' \/ Disarmed'
                      /\ PendingIsNew' /\ EachHasItsOwn' /\ Answered'
    BY <2>1 DEF Schedule, Fits
  <2>2. /\ timer.period = def.interval /\ Armed
        /\ PendingIsNew /\ EachHasItsOwn /\ Answered
    BY <2>1 DEF Schedule, Disarmed
  <2>3. \A t : Due(t)' <=> Due(t)
    BY <2>1 DEF Due, DayStart
  <2>4. Armed'
    <3>1. Due(timer.next)'
      BY <2>1, <2>2 DEF Armed, Due, DayStart
    <3> QED
      BY <2>1, <2>2, <2>3, <3>1 DEF Armed
  <2>5. PendingIsNew'
    BY <2>1 DEF PendingIsNew
  <2>6. EachHasItsOwn'
    <3>0. \A g \in fired' : g \in Nat /\ g <= now /\ (g = now \/ g \in fired)
      BY <1>0, <1>3, <2>1
    <3> SUFFICES ASSUME NEW f \in fired'
                 PROVE  \E t \in (opened' + 1)..f : Due(t)' /\ \A g \in fired' : g < f => g < t
      BY DEF EachHasItsOwn
    <3>1. CASE f \in fired
      <4>1. PICK t \in (opened + 1)..f : Due(t) /\ \A g \in fired : g < f => g < t
        BY <2>2, <3>1 DEF EachHasItsOwn
      <4>2. \A g \in fired' : g < f => g \in fired
        BY <1>0, <3>0
      <4> QED
        BY <2>1, <2>3, <4>1, <4>2
    <3>2. CASE f \notin fired
      <4>1. f = now
        BY <3>0, <3>2
      <4>2. PICK t \in (opened + 1)..now : Due(t) /\ \A g \in fired : g < t
        BY <2>1, <2>2 DEF PendingIsNew
      <4>3. \A g \in fired' : g < f => g \in fired
        BY <1>0, <3>0, <4>1
      <4> QED
        BY <2>1, <2>3, <4>1, <4>2, <4>3
    <3> QED
      BY <3>1, <3>2
  <2>7. Answered'
    <3> SUFFICES ASSUME def'.weekdays = AllDays, NEW t \in opened'..now'
                 PROVE  \E f \in fired' : f >= t
      BY DEF Answered
    <3>1. Weekday(now) \in Weekdays
      <4> DEFINE w == (now \div DaySecs) % 7
      <4>1. now \div DaySecs \in Int
        BY <1>0, Widths, ModProperties
      <4>2. w \in 0..6
        <5>1. 7 \in Nat \ {0}
          OBVIOUS
        <5>2. w \in 0..(7 - 1)
          BY <4>1, <5>1, ModProperties
        <5> HIDE DEF w
        <5> QED
          BY <5>2
      <4>3. Weekday(now) = IF w > 0 THEN w - 1 ELSE 6
        BY DEF Weekday
      <4> HIDE DEF w
      <4> QED
        BY <4>2, <4>3 DEF Weekdays
    <3>2. now \in fired'
      BY <2>1, <3>1 DEF AllDays
    <3> QED
      BY <1>0, <2>1, <3>2
  <2> QED
    BY <2>1, <2>2, <2>4, <2>5, <2>6, <2>7
<1>4. CASE Parse \/ Reject \/ OpenFails
  BY <1>4 DEF Parse, Reject, OpenFails, Schedule
<1>5. CASE UNCHANGED vars
  <2>1. UNCHANGED <<phase, def, now, opened, timer, ticks, fired>>
    BY <1>5 DEF vars
  <2>2. Schedule' <=> Schedule
    BY <2>1 DEF Schedule, Fits, Armed, Disarmed, PendingIsNew, EachHasItsOwn, Answered, Due,
                DayStart
  <2> QED
    BY <2>2
<1> QED
  BY <1>1, <1>2, <1>3, <1>4, <1>5 DEF Next

(* Schedule is an invariant.                                               *)
LEMMA ScheduleCorrect == Spec => []Schedule
<1>1. Init => Schedule
  BY DEF Init, Schedule
<1>2. TimerInv /\ TimerInv' /\ Schedule /\ [Next]_vars => Schedule'
  BY ScheduleStep
<1> QED
  BY <1>1, <1>2, TimerInvCorrect, PTL DEF Spec

(* Every time due is answered by the action, however late the event loop   *)
(* calls timer_ev_handle_event, unless the timer was opened in a second    *)
(* that is due or its interval in milliseconds does not fit an int.        *)
THEOREM NoneMissedCorrect == Spec => []NoneMissed
<1>1. Schedule => NoneMissed
  BY DEF Schedule, NoneMissed, Answered
<1> QED
  BY <1>1, ScheduleCorrect, PTL

(* No expiration of the timer leads to two executions of the action:       *)
(* timer_ev_handle_event reads the counter before it looks at the weekday. *)
THEOREM OneActionCorrect == Spec => []OneActionPerExpiration
<1>1. Schedule => OneActionPerExpiration
  BY DEF Schedule, OneActionPerExpiration, EachHasItsOwn
<1> QED
  BY <1>1, ScheduleCorrect, PTL
=============================================================================
