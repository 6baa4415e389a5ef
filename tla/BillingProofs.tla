--------------------------- MODULE BillingProofs ---------------------------
(***************************************************************************)
(* What the billing arithmetic computes, for every fare and every reading  *)
(* of the clock.                                                           *)
(***************************************************************************)
EXTENDS Billing, TLAPS

\* The whole minutes out (_elapsed_minutes) are never negative, and they are the seconds
\* between the two instants, less than a minute left out, unless the clock was set back.
LEMMA ElapsedMinutesBounds ==
  ASSUME NEW started \in Nat, NEW now \in Nat
  PROVE  /\ ElapsedMinutes(started, now) \in Nat
         /\ now >= started =>
              /\ 60 * ElapsedMinutes(started, now) <= now - started
              /\ now - started < 60 * ElapsedMinutes(started, now) + 60
         /\ now < started => ElapsedMinutes(started, now) = 0
BY DEF ElapsedMinutes

\* A started unit is billed whole (_billable_units, RN-10): the units cover the usage, at
\* least one is billed, and when more than one is, one unit less does not cover it.
LEMMA BillableUnitsCover ==
  ASSUME NEW usage \in Nat, NEW unit \in TimeUnits
  PROVE  /\ BillableUnits(usage, unit) \in Nat \ {0}
         /\ BillableUnits(usage, unit) * MinutesPerUnit[unit] >= usage
         /\ BillableUnits(usage, unit) > 1 =>
              (BillableUnits(usage, unit) - 1) * MinutesPerUnit[unit] < usage
<1>1. CASE unit = "minuto"
  <2>1. MinutesPerUnit[unit] = 1  BY <1>1 DEF MinutesPerUnit
  <2>. QED  BY <2>1 DEF BillableUnits
<1>2. CASE unit = "hora"
  <2>1. MinutesPerUnit[unit] = 60  BY <1>2 DEF MinutesPerUnit
  <2>. QED  BY <2>1 DEF BillableUnits
<1>3. CASE unit = "dia"
  <2>1. MinutesPerUnit[unit] = 1440  BY <1>3 DEF MinutesPerUnit
  <2>. QED  BY <2>1 DEF BillableUnits
<1>. QED  BY <1>1, <1>2, <1>3 DEF TimeUnits

\* A product with a factor of one at least is no smaller than the other factor.
LEMMA AtLeastOnce ==
  ASSUME NEW n \in Nat \ {0}, NEW x \in Nat
  PROVE  x * n \in Nat /\ x * n >= x
<1>1. x * n = x + x * (n - 1)  OBVIOUS
<1>2. x * (n - 1) \in Nat  OBVIOUS
<1>. QED  BY <1>1, <1>2

\* RN-08, RN-10: the final amount of an item is an amount of money, and never less than
\* the estimate of the same fare, which was authorized when the rental was created.
THEOREM FinalAmountCoversEstimate ==
  ASSUME NEW started \in Nat, NEW now \in Nat,
         NEW fare, fare.fixed \in Nat, fare.time \in Nat, fare.unit \in TimeUnits
  PROVE  /\ FinalAmount(fare, started, now) \in Nat
         /\ EstimatedAmount(fare) \in Nat
         /\ FinalAmount(fare, started, now) >= EstimatedAmount(fare)
<1>. DEFINE n == BillableUnits(ElapsedMinutes(started, now), fare.unit)
<1>1. n \in Nat \ {0}  BY ElapsedMinutesBounds, BillableUnitsCover
<1>2. fare.time * n \in Nat /\ fare.time * n >= fare.time  BY <1>1, AtLeastOnce
<1>. QED  BY <1>2 DEF FinalAmount, EstimatedAmount

\* RN-10 from the two readings of the clock alone: the units billed are the least number,
\* one at least, that covers the whole minutes out, that is all but less than a minute of
\* the seconds.
THEOREM LeastCover ==
  ASSUME NEW started \in Nat, NEW now \in Nat, NEW unit \in TimeUnits
  PROVE  LET n         == BillableUnits(ElapsedMinutes(started, now), unit)
             Covers(k) == k * MinutesPerUnit[unit] * 60 > (now - started) - 60
         IN  /\ n \in 1 .. (IF now - started > 0 THEN now - started ELSE 1)
             /\ Covers(n)
             /\ \A m \in 1 .. (n - 1) : ~Covers(m)
<1>. DEFINE usage == ElapsedMinutes(started, now)
            n == BillableUnits(usage, unit)
            seconds == now - started
<1>1. /\ usage \in Nat
      /\ seconds >= 0 => 60 * usage <= seconds /\ seconds < 60 * usage + 60
      /\ seconds < 0 => usage = 0
  BY ElapsedMinutesBounds
<1>2. /\ n \in Nat \ {0}
      /\ n * MinutesPerUnit[unit] >= usage
      /\ n > 1 => (n - 1) * MinutesPerUnit[unit] < usage
  BY <1>1, BillableUnitsCover
<1>3. seconds \in Int
  OBVIOUS
<1>. HIDE DEF usage, n, seconds
<1>4. ASSUME NEW per \in {1, 60, 1440}, per = MinutesPerUnit[unit]
      PROVE  /\ n \in 1 .. (IF seconds > 0 THEN seconds ELSE 1)
             /\ n * per * 60 > seconds - 60
             /\ \A m \in 1 .. (n - 1) : ~(m * per * 60 > seconds - 60)
  <2>1. n * per >= usage /\ (n > 1 => (n - 1) * per < usage)
    BY <1>2, <1>4
  <2>. QED  BY <1>1, <1>2, <1>3, <1>4, <2>1
<1>5. MinutesPerUnit[unit] \in {1, 60, 1440}
  BY DEF TimeUnits, MinutesPerUnit
<1>. QED  BY <1>4, <1>5 DEF n, usage, seconds
=============================================================================
