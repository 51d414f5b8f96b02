------------------------------ MODULE ClockTarget ------------------------------
(***************************************************************************)
(* clockTarget of clock_wait.hpp: the target of the clock tool, read from  *)
(* a text of decimal seconds, in nanoseconds of ROS time.  A character of  *)
(* a text is a number: its digit, Dot, or anything above for the rest.     *)
(***************************************************************************)
EXTENDS Integers, Sequences

CONSTANTS
  Base,            \* 10 in the code
  FractionDigits,  \* 9 in the code
  UINT32_MAX,      \* the largest second of ROS time
  MaxLength        \* 128 in the code

ASSUME ScaleAssumption ==
  /\ Base \in Nat \ {0, 1}
  /\ {FractionDigits, UINT32_MAX, MaxLength} \subseteq Nat

Invalid == -1
Dot == Base
Power[n \in Nat] == IF n = 0 THEN 1 ELSE Base * Power[n - 1]
Second == Power[FractionDigits]

IsDigit(c) == c < Base

\* The loop over the whole seconds: one digit more, within 32 bits.
NextSecond(seconds, c) ==
  IF \/ seconds = Invalid \/ ~IsDigit(c)
     \/ seconds > UINT32_MAX \div Base
     \/ seconds * Base + c > UINT32_MAX
  THEN Invalid ELSE seconds * Base + c

\* The seconds after each digit of whole.
secondsAfter(whole) ==
  LET seconds[n \in 0..Len(whole)] ==
        IF n = 0 THEN 0 ELSE NextSecond(seconds[n - 1], whole[n])
  IN seconds

\* The nanoseconds after each of the first FractionDigits digits, zeros behind
\* the last one given.
nanosAfter(fraction) ==
  LET nanos[n \in 0..FractionDigits] ==
        IF n = 0 THEN 0
        ELSE nanos[n - 1] * Base + IF n <= Len(fraction) THEN fraction[n] ELSE 0
  IN nanos

\* Mutant: the digits behind the last nanosecond are cut off.
NanosTruncated(fraction) == nanosAfter(fraction)[FractionDigits]

\* The fraction in nanoseconds, rounded up.
Nanos(fraction) ==
  LET round_up == \E i \in DOMAIN fraction : i > FractionDigits /\ fraction[i] # 0
  IN nanosAfter(fraction)[FractionDigits] + IF round_up THEN 1 ELSE 0

\* Where the first point is, 0 when there is none.
Point(decimal) ==
  IF \E i \in DOMAIN decimal : decimal[i] = Dot
  THEN CHOOSE i \in DOMAIN decimal : decimal[i] = Dot /\ \A j \in 1 .. i - 1 : decimal[j] # Dot
  ELSE 0
Whole(decimal) == IF Point(decimal) = 0 THEN decimal ELSE SubSeq(decimal, 1, Point(decimal) - 1)
Fraction(decimal) ==
  IF Point(decimal) = 0 THEN <<>> ELSE SubSeq(decimal, Point(decimal) + 1, Len(decimal))
Seconds(decimal) == secondsAfter(Whole(decimal))[Len(Whole(decimal))]

\* Mutant: the last second of ROS time takes a fraction too.
clockTargetPastEnd(decimal) ==
  IF \/ Whole(decimal) = <<>> \/ Len(decimal) > MaxLength
     \/ Seconds(decimal) = Invalid
     \/ Point(decimal) # 0 /\ Fraction(decimal) = <<>>
     \/ \E i \in DOMAIN Fraction(decimal) : ~IsDigit(Fraction(decimal)[i])
  THEN Invalid ELSE Seconds(decimal) * Second + Nanos(Fraction(decimal))

\* The target in nanoseconds.
clockTarget(decimal) ==
  IF \/ Whole(decimal) = <<>> \/ Len(decimal) > MaxLength
     \/ Seconds(decimal) = Invalid
     \/ Point(decimal) # 0 /\ Fraction(decimal) = <<>>
     \/ \E i \in DOMAIN Fraction(decimal) : ~IsDigit(Fraction(decimal)[i])
     \/ Seconds(decimal) = UINT32_MAX /\ Nanos(Fraction(decimal)) # 0
  THEN Invalid ELSE Seconds(decimal) * Second + Nanos(Fraction(decimal))

-----------------------------------------------------------------------------
(* What a text stands for, to compare with.                                *)

\* The digits of a text as one number, without the point.  The number the text
\* stands for is Digits / Scale, exactly.
digitsUpTo(decimal) ==
  LET digits[n \in 0..Len(decimal)] ==
        IF n = 0 THEN 0
        ELSE IF decimal[n] = Dot THEN digits[n - 1] ELSE digits[n - 1] * Base + decimal[n]
  IN digits
Digits(decimal) == digitsUpTo(decimal)[Len(decimal)]
Scale(decimal) == Power[Len(Fraction(decimal))]

IsDecimal(decimal) ==
  /\ decimal # <<>> /\ Len(decimal) <= MaxLength
  /\ \A i \in DOMAIN decimal : IsDigit(decimal[i]) \/ decimal[i] = Dot
  /\ \A i, j \in DOMAIN decimal : decimal[i] = Dot /\ decimal[j] = Dot => i = j
  /\ IsDigit(decimal[1]) /\ IsDigit(decimal[Len(decimal)])
=============================================================================
