------------------------------ MODULE Billing ------------------------------
(***************************************************************************)
(* The arithmetic of a rental: how many whole minutes a bicycle was out,   *)
(* how many fare units that bills, and the two amounts of an item (the     *)
(* estimate authorized when the rental is created, the final amount        *)
(* recorded when the bicycle comes back).                                  *)
(*                                                                         *)
(* Instants are whole seconds.  Money is a whole number of cents:          *)
(* shared/money.py quantizes every amount to two decimals and refuses a    *)
(* negative one, and sums and integer multiples of cents are exact.        *)
(***************************************************************************)
EXTENDS Integers

TimeUnits == {"minuto", "hora", "dia"}

MinutesPerUnit == [minuto |-> 1, hora |-> 60, dia |-> 1440]

\* int(delta.total_seconds() // 60), never below zero: a floor division, so an
\* unfinished minute is not counted and a clock set back counts as no time.
ElapsedMinutes(started, now) ==
  LET minutes == (now - started) \div 60
  IN  IF minutes < 0 THEN 0 ELSE minutes

\* Faulty variant: always one unit more than whole units elapsed.
BillableUnitsOneMore(usage, unit) == (usage \div MinutesPerUnit[unit]) + 1

\* Faulty variant: without the minimum of one unit.
BillableUnitsNoMinimum(usage, unit) ==
  (usage + MinutesPerUnit[unit] - 1) \div MinutesPerUnit[unit]

\* max(math.ceil(usage / per_unit), 1): a started unit is billed whole.
BillableUnits(usage, unit) ==
  LET perUnit == MinutesPerUnit[unit]
      units   == (usage + perUnit - 1) \div perUnit
  IN  IF units < 1 THEN 1 ELSE units

\* Fare.estimated_amount: the fixed component and one unit of time.
EstimatedAmount(fare) == fare.fixed + fare.time

\* What ReturnBicycles bills an item: only the fare frozen in the item counts.
FinalAmount(fare, started, now) ==
  fare.fixed + fare.time * BillableUnits(ElapsedMinutes(started, now), fare.unit)
=============================================================================
