------------------------------ MODULE Royalty --------------------------------
(***************************************************************************)
(* RoyaltyCalculator.calculate: one usage, its gross amount, and the split *)
(* lines it is distributed to.  Amounts are exact: the gross amount counts *)
(* in fractions of the unit that the quantum's exponent names (1, 0.1,     *)
(* ...), Scale to the unit; a share of it counts in BASIS_POINTS_TOTAL-ths *)
(* of that; a settled amount counts in units.  The 28 digits to which      *)
(* Decimal arithmetic rounds are not modelled.                             *)
(***************************************************************************)
EXTENDS Integers, Sequences, FiniteSets

CONSTANTS BASIS_POINTS_TOTAL, Scale

Unit == Scale * BASIS_POINTS_TOTAL

Total(amounts) ==
  LET total[n \in 0..Len(amounts)] == IF n = 0 THEN 0 ELSE total[n - 1] + amounts[n]
  IN  total[Len(amounts)]

\* quantize looks at the exponent of the quantum only, not at its coefficient.
RoundFloor(amount) == amount \div Unit
RoundHalfUp(amount) == (2 * amount + Unit) \div (2 * Unit)

\* base rate * source weight * duration ratio; the ratio is a whole number of
\* 1/Scale-ths here.
Gross(usage) == usage.base_rate * usage.weight * usage.duration

ValidSplit(shares) ==
  /\ shares # <<>>
  /\ \A i \in DOMAIN shares : shares[i] \in 0..BASIS_POINTS_TOTAL
  /\ Total(shares) = BASIS_POINTS_TOTAL

\* Faulty variant: the largest remainders come last.
Before_Smallest(i, j, remainder) ==
  remainder[i] < remainder[j] \/ (remainder[i] = remainder[j] /\ i < j)

\* Who gets a remaining unit first: the largest remainder, then the first line.
Before(i, j, remainder) ==
  remainder[i] > remainder[j] \/ (remainder[i] = remainder[j] /\ i < j)

Ahead(i, remainder) == Cardinality({j \in DOMAIN remainder : Before(j, i, remainder)})

\* The settled amounts, or that the sum check failed.
LargestRemainderRound(raw, rounded_total, quantum) ==
  LET lines == DOMAIN raw
      floored == [i \in lines |-> RoundFloor(raw[i])]
      remaining == rounded_total - Total(floored)
      units == remaining \div quantum
      remainder == [i \in lines |-> raw[i] - floored[i] * Unit]
      settled == [i \in lines |-> floored[i] + (IF Ahead(i, remainder) < units THEN quantum ELSE 0)]
  IN  IF remaining >= 0 /\ Total(settled) = rounded_total
        THEN [error |-> "none", settled |-> settled]
        ELSE [error |-> "ArithmeticError", settled |-> <<>>]

Calculate(usage, shares, quantum) ==
  IF ~ValidSplit(shares) THEN [error |-> "SplitValidationError", settled |-> <<>>]
  ELSE LET raw == [i \in DOMAIN shares |-> Gross(usage) * shares[i]]
       IN  LargestRemainderRound(raw, RoundHalfUp(Gross(usage) * BASIS_POINTS_TOTAL), quantum)
=============================================================================
