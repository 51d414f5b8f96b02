----------------------------- MODULE ClockProofs -----------------------------
(***************************************************************************)
(* Proofs about the clock wait.  That clockTarget takes exactly the        *)
(* decimals ROS time can hold and rounds them up to the next nanosecond,   *)
(* for every base, number of digits and largest second; and that the wait  *)
(* succeeds at the first sample that is not before its target.  The loops  *)
(* of clockTarget are recursive functions; an induction takes the least    *)
(* number at which the claim would fail.                                   *)
(***************************************************************************)
EXTENDS Commands, WellFoundedInduction, TLAPS

\* Products of numbers are numbers.
LEMMA ProductType == \A x, y \in Nat : x * y \in Nat
  OBVIOUS

\* A factor keeps the order.
LEMMA ProductOrder == \A x, y \in Int, z \in Nat : x <= y => x * z <= y * z
<1> SUFFICES ASSUME NEW x \in Int, NEW y \in Int, NEW z \in Nat, x <= y PROVE x * z <= y * z
  BY Zenon
<1>1. PICK d \in Nat : y = x + d
  <2>1. y - x \in Nat /\ y = x + (y - x)
    OBVIOUS
  <2>2. QED
    BY <2>1, Zenon
<1>2. y * z = x * z + d * z /\ d * z \in Nat
  BY <1>1
<1>3. QED
  BY <1>2

\* A factor that is not zero keeps the strict order.
LEMMA ProductStrict == \A x, y \in Int, z \in Nat \ {0} : x < y => x * z < y * z
<1> SUFFICES ASSUME NEW x \in Int, NEW y \in Int, NEW z \in Nat \ {0}, x < y PROVE x * z < y * z
  BY Zenon
<1>1. (x + 1) * z <= y * z
  BY ProductOrder
<1>2. (x + 1) * z = x * z + z
  OBVIOUS
<1>3. QED
  BY <1>1, <1>2

\* The guard against overflow: below the quotient the product fits.
LEMMA QuotientBound ==
  \A x, u \in Nat, b \in Nat \ {0} : x * b <= u => x <= u \div b
<1> SUFFICES ASSUME NEW x \in Nat, NEW u \in Nat, NEW b \in Nat \ {0}, x * b <= u,
                    u \div b < x
             PROVE  FALSE
  OBVIOUS
<1>1. u = b * (u \div b) + (u % b) /\ u % b < b /\ u \div b \in Nat /\ u % b \in Nat
  OBVIOUS
<1>2. ((u \div b) + 1) * b <= x * b
  BY <1>1, ProductOrder
<1>3. ((u \div b) + 1) * b = b * (u \div b) + b
  BY <1>1
<1>4. QED
  BY <1>1, <1>2, <1>3

\* One digit more, on a number below a power.
LEMMA AppendBound ==
  \A d, p, c \in Nat, b \in Nat \ {0} : d < p /\ c < b => d * b + c < b * p
<1> SUFFICES ASSUME NEW d \in Nat, NEW p \in Nat, NEW c \in Nat, NEW b \in Nat \ {0}, d < p, c < b
             PROVE  d * b + c < b * p
  BY Zenon
<1>1. d + 1 \in Int /\ d + 1 <= p
  OBVIOUS
<1>2. (d + 1) * b <= p * b
  BY <1>1, ProductOrder
<1>3. (d + 1) * b = d * b + b /\ p * b = b * p /\ d * b \in Nat /\ b * p \in Nat
  OBVIOUS
<1>4. QED
  BY <1>2, <1>3

\* The two tests of the loop are one.
LEMMA AppendFits ==
  ASSUME NEW d \in Nat, NEW c \in Nat, NEW u \in Nat, NEW b \in Nat \ {0}
  PROVE  /\ d * b + c \in Nat
         /\ d * b + c <= u => d <= u
         /\ d > u \div b \/ d * b + c > u <=> ~(d * b + c <= u)
<1>1. PICK m \in Nat : m = d * b
  BY ProductType, Zenon
<1>2. d <= m
  <2>1. 1 \in Int /\ 1 <= b /\ b \in Int
    OBVIOUS
  <2>2. 1 * d <= b * d
    BY <2>1, ProductOrder, Zenon
  <2>3. 1 * d = d /\ b * d = d * b
    OBVIOUS
  <2>4. QED
    BY <1>1, <2>2, <2>3, Zenon
<1>3. m <= u => d <= u \div b
  BY <1>1, QuotientBound, Zenon
<1>4. u \div b \in Nat
  OBVIOUS
<1>5. QED
  BY <1>1, <1>2, <1>3, <1>4

\* One digit more, on a number and what is behind it.
LEMMA AppendTail ==
  ASSUME NEW q \in Nat, NEW p \in Nat, NEW t \in Nat, NEW c \in Nat, NEW b \in Nat \ {0}
  PROVE  /\ (q * p + t) * b + c = q * (b * p) + (t * b + c)
         /\ t * b + c \in Nat
         /\ t * b + c = 0 <=> t = 0 /\ c = 0
<1>1. (q * p + t) * b = (q * p) * b + t * b /\ (q * p) * b = q * (b * p)
  OBVIOUS
<1>2. PICK m \in Nat : m = t * b
  BY ProductType, Zenon
<1>3. t <= m /\ (t = 0 => m = 0)
  <2>1. 1 \in Int /\ 1 <= b /\ b \in Int
    OBVIOUS
  <2>2. 1 * t <= b * t
    BY <2>1, ProductOrder, Zenon
  <2>3. 1 * t = t /\ b * t = t * b
    OBVIOUS
  <2>4. QED
    BY <1>2, <2>2, <2>3
<1>4. t * b + c \in Nat /\ (t * b + c = 0 <=> t = 0 /\ c = 0)
  BY <1>2, <1>3
<1>5. PICK x \in Nat : x = q * (b * p)
  BY ProductType, Zenon
<1>6. QED
  BY <1>1, <1>2, <1>4, <1>5

\* A set of numbers that is not empty has a least one.
LEMMA LeastNumber ==
  ASSUME NEW S \in SUBSET Nat, S # {}
  PROVE  \E x \in S : \A y \in S : x <= y
<1>1. PICK x \in S : \A y \in S : ~(<<y, x>> \in OpToRel(<, Nat))
  BY NatLessThanWellFounded, WFMin, Zenon
<1>2. \A y \in S : ~(y < x)
  BY <1>1, Zenon DEF OpToRel
<1>3. QED
  BY <1>2

\* Induction, for a set of numbers.
LEMMA Induction ==
  ASSUME NEW S \in SUBSET Nat, 0 \in S, \A n \in S : n + 1 \in S
  PROVE  S = Nat
<1> SUFFICES ASSUME Nat \ S # {} PROVE FALSE
  OBVIOUS
<1>1. PICK x \in Nat \ S : \A y \in Nat \ S : x <= y
  BY LeastNumber, Zenon
<1>2. x - 1 \in Nat /\ x - 1 \notin Nat \ S
  BY <1>1
<1>3. QED
  BY <1>1, <1>2

\* The same up to a bound.
LEMMA InductionTo ==
  ASSUME NEW N \in Nat, NEW S, 0 \in S, \A n \in 0 .. N - 1 : n \in S => n + 1 \in S
  PROVE  \A n \in 0..N : n \in S
<1> DEFINE T == {n \in Nat : n <= N => n \in S}
<1>1. 0 \in T
  BY Zenon
<1>2. ASSUME NEW n \in T PROVE n + 1 \in T
  <2>1. n \in Nat /\ (n <= N => n \in S)
    BY Zenon
  <2>2. n + 1 <= N => n + 1 \in S
    BY <2>1
  <2>3. QED
    BY <2>1, <2>2
<1>3. T \subseteq Nat
  BY Zenon
<1>4. \A n \in Nat : n \in T
  <2> HIDE DEF T
  <2>1. QED
    BY <1>1, <1>2, <1>3, Induction, Zenon
<1>5. QED
  BY <1>4

\* A recursion over numbers has a solution.
LEMMA Recursion ==
  ASSUME NEW N \in Nat, NEW first \in Int, NEW step \in [1..N -> [Int -> Int]]
  PROVE  \E f \in [0..N -> Int] : f[0] = first /\ \A n \in 1..N : f[n] = step[n][f[n - 1]]
<1> DEFINE Solves(f, k) == /\ f \in [0..k -> Int] /\ f[0] = first
                           /\ \A n \in 1..k : f[n] = step[n][f[n - 1]]
           S == {k \in Nat : k <= N => \E f : Solves(f, k)}
<1>1. 0 \in S
  <2> DEFINE f == [n \in 0..0 |-> first]
  <2>1. Solves(f, 0)
    <3>1. f \in [0..0 -> Int] /\ f[0] = first
      OBVIOUS
    <3>2. 1..0 = {}
      OBVIOUS
    <3> HIDE DEF f
    <3>3. QED
      BY <3>1, <3>2, Zenon
  <2> HIDE DEF f
  <2>2. QED
    BY <2>1, Zenon
<1> HIDE DEF Solves
<1>2. ASSUME NEW k \in S PROVE k + 1 \in S
  <2>1. k \in Nat /\ (k <= N => \E f : Solves(f, k))
    BY Zenon
  <2> SUFFICES ASSUME k + 1 <= N PROVE \E f : Solves(f, k + 1)
    BY <2>1
  <2>2. PICK f : Solves(f, k)
    BY <2>1
  <2> DEFINE g == [n \in 0 .. k + 1 |-> IF n <= k THEN f[n] ELSE step[k + 1][f[k]]]
  <2>3. step[k + 1][f[k]] \in Int
    BY <2>1, <2>2 DEF Solves
  <2>4. g \in [0 .. k + 1 -> Int] /\ g[0] = first
    BY <2>1, <2>2, <2>3 DEF Solves
  <2>5. ASSUME NEW n \in 1 .. k + 1 PROVE g[n] = step[n][g[n - 1]]
    <3>1. CASE n <= k
      BY <2>1, <2>2, <3>1 DEF Solves
    <3>2. CASE n = k + 1
      BY <2>1, <2>2, <3>2 DEF Solves
    <3>3. QED
      BY <2>1, <3>1, <3>2
  <2> HIDE DEF g
  <2>6. Solves(g, k + 1)
    BY <2>4, <2>5, Zenon DEF Solves
  <2>7. QED
    BY <2>6, Zenon
<1>3. S = Nat
  BY <1>1, <1>2, Induction, Zenon
<1>4. N \in S
  <2> HIDE DEF S
  <2>1. QED
    BY <1>3, Zenon
<1>5. PICK f : Solves(f, N)
  BY <1>4
<1>6. QED
  BY <1>5, Zenon DEF Solves

\* Powers of the base.
LEMMA PowerStep ==
  /\ Power[0] = 1
  /\ \A n \in Nat : Power[n + 1] = Base * Power[n]
<1> DEFINE Solves(f, k) == /\ f \in [0..k -> Int] /\ f[0] = 1
                           /\ \A n \in 1..k : f[n] = Base * f[n - 1]
           Upto(k) == CHOOSE f : Solves(f, k)
           power == [n \in Nat |-> Upto(n)[n]]
<1>1. ASSUME NEW k \in Nat PROVE \E f : Solves(f, k)
  <2> DEFINE step == [n \in 1..k |-> [v \in Int |-> Base * v]]
  <2>1. step \in [1..k -> [Int -> Int]] /\ 1 \in Int
    BY ScaleAssumption
  <2>2. PICK f \in [0..k -> Int] : f[0] = 1 /\ \A n \in 1..k : f[n] = step[n][f[n - 1]]
    <3> HIDE DEF step
    <3>1. QED
      BY <2>1, Recursion, Zenon
  <2>3. \A n \in 1..k : f[n - 1] \in Int
    OBVIOUS
  <2>4. \A n \in 1..k : f[n] = Base * f[n - 1]
    BY <2>2, <2>3, Zenon
  <2>5. Solves(f, k)
    BY <2>2, <2>4, Zenon
  <2> HIDE DEF Solves
  <2>6. QED
    BY <2>5, Zenon
<1>2. ASSUME NEW k \in Nat, NEW f, NEW g, Solves(f, k), Solves(g, k + 1) PROVE f[k] = g[k]
  <2> DEFINE S == {n \in Nat : n <= k => f[n] = g[n]}
  <2>1. 0 \in S
    BY <1>2, Zenon
  <2>2. ASSUME NEW n \in S PROVE n + 1 \in S
    <3>1. n \in Nat /\ (n <= k => f[n] = g[n])
      BY Zenon
    <3>2. ASSUME n + 1 <= k PROVE f[n + 1] = g[n + 1]
      <4>1. /\ n + 1 \in 1..k /\ n + 1 \in 1 .. k + 1
            /\ (n + 1) - 1 = n
        BY <3>1, <3>2
      <4>2. f[n + 1] = Base * f[n] /\ g[n + 1] = Base * g[n]
        BY <1>2, <4>1, Zenon
      <4>3. QED
        BY <3>1, <3>2, <4>2
    <3>3. QED
      BY <3>1, <3>2
  <2>3. S = Nat
    <3> HIDE DEF S
    <3>1. S \subseteq Nat
      BY Zenon DEF S
    <3>2. QED
      BY <2>1, <2>2, <3>1, Induction, Zenon
  <2>4. k \in S
    <3> HIDE DEF S
    <3>1. QED
      BY <2>3, Zenon
  <2>5. QED
    BY <2>4
<1> HIDE DEF Solves
<1>3. \A k \in Nat : Solves(Upto(k), k)
  BY <1>1, Zenon
<1>4. power[0] = 1
  <2>1. power[0] = Upto(0)[0]
    BY Zenon
  <2> HIDE DEF Upto, power
  <2>2. QED
    BY <1>3, <2>1, Zenon DEF Solves
<1>5. ASSUME NEW k \in Nat PROVE power[k + 1] = Base * power[k]
  <2>1. power[k] = Upto(k)[k] /\ power[k + 1] = Upto(k + 1)[k + 1]
    OBVIOUS
  <2> HIDE DEF Upto, power
  <2>2. k + 1 \in Nat /\ k + 1 \in 1 .. k + 1 /\ (k + 1) - 1 = k
    OBVIOUS
  <2>3. Solves(Upto(k), k) /\ Solves(Upto(k + 1), k + 1)
    BY <1>3, <2>2, Zenon
  <2>4. Upto(k + 1)[k + 1] = Base * Upto(k + 1)[k]
    BY <2>2, <2>3, Zenon DEF Solves
  <2>5. Upto(k)[k] = Upto(k + 1)[k]
    BY <1>2, <2>3, Zenon
  <2>6. QED
    BY <2>1, <2>4, <2>5, Zenon
<1>6. power = [n \in Nat |-> IF n = 0 THEN 1 ELSE Base * power[n - 1]]
  <2>1. \A n \in Nat : power[n] = IF n = 0 THEN 1 ELSE Base * power[n - 1]
    <3> HIDE DEF power
    <3> SUFFICES ASSUME NEW n \in Nat, n # 0 PROVE power[n] = Base * power[n - 1]
      BY <1>4, Zenon
    <3>1. n - 1 \in Nat /\ (n - 1) + 1 = n
      OBVIOUS
    <3>2. QED
      BY <1>5, <3>1, Zenon
  <2>2. power = [n \in Nat |-> power[n]]
    <3> HIDE DEF Upto
    <3>1. QED
      BY Zenon
  <2> HIDE DEF power
  <2>3. QED
    BY <2>1, <2>2, Zenon
<1>7. Power = [n \in Nat |-> IF n = 0 THEN 1 ELSE Base * Power[n - 1]]
  <2> HIDE DEF power
  <2>1. QED
    BY <1>6, Zenon DEF Power
<1>8. QED
  <2>1. \A n \in Nat : n + 1 \in Nat /\ n + 1 # 0 /\ (n + 1) - 1 = n
    OBVIOUS
  <2>2. 0 \in Nat
    BY Zenon
  <2>3. QED
    BY <1>7, <2>1, <2>2, Zenon

\* What the loop over the whole seconds computes.
LEMMA SecondsStep ==
  ASSUME NEW whole \in Seq(Nat)
  PROVE  /\ secondsAfter(whole)[0] = 0
         /\ \A n \in 1..Len(whole) :
              secondsAfter(whole)[n] = NextSecond(secondsAfter(whole)[n - 1], whole[n])
<1>0. PICK N \in Nat : N = Len(whole)
  OBVIOUS
<1> DEFINE step == [n \in 1..N |-> [v \in Int |-> NextSecond(v, whole[n])]]
<1>1. step \in [1..N -> [Int -> Int]] /\ 0 \in Int
  BY <1>0, ScaleAssumption DEF NextSecond, Invalid, IsDigit
<1>2. PICK f \in [0..N -> Int] : f[0] = 0 /\ \A n \in 1..N : f[n] = step[n][f[n - 1]]
  <2> HIDE DEF step
  <2>1. QED
    BY <1>1, Recursion, Zenon
<1>3. \A n \in 0..N : f[n] = IF n = 0 THEN 0 ELSE NextSecond(f[n - 1], whole[n])
  <2>1. \A n \in 0..N : n # 0 => n \in 1..N /\ n - 1 \in 0..N
    OBVIOUS
  <2>2. \A n \in 0..N : n # 0 => f[n - 1] \in Int
    BY <2>1, Zenon
  <2>3. QED
    BY <1>2, <2>1, <2>2, Zenon
<1>4. f = [n \in 0..N |-> IF n = 0 THEN 0 ELSE NextSecond(f[n - 1], whole[n])]
  BY <1>3, Zenon
<1>5. secondsAfter(whole) =
        [n \in 0..N |-> IF n = 0 THEN 0 ELSE NextSecond(secondsAfter(whole)[n - 1], whole[n])]
  BY <1>0, <1>4, Zenon DEF secondsAfter
<1>6. 0 \in 0..N /\ \A n \in 1..N : n \in 0..N /\ n # 0
  OBVIOUS
<1>7. QED
  BY <1>0, <1>5, <1>6, Zenon

\* The loop over the fraction, step by step.
LEMMA NanosStep ==
  ASSUME NEW fraction \in Seq(Nat)
  PROVE  /\ nanosAfter(fraction)[0] = 0
         /\ \A n \in 1..FractionDigits :
              nanosAfter(fraction)[n] = nanosAfter(fraction)[n - 1] * Base
                + IF n <= Len(fraction) THEN fraction[n] ELSE 0
<1>0. PICK N \in Nat : N = FractionDigits
  BY ScaleAssumption, Zenon
<1> DEFINE digit(n) == IF n <= Len(fraction) THEN fraction[n] ELSE 0
           step == [n \in 1..N |-> [v \in Int |-> v * Base + digit(n)]]
<1>1. \A n \in 1..N : digit(n) \in Nat
  OBVIOUS
<1> HIDE DEF digit
<1>2. step \in [1..N -> [Int -> Int]] /\ 0 \in Int
  BY <1>1, ScaleAssumption
<1>3. PICK f \in [0..N -> Int] : f[0] = 0 /\ \A n \in 1..N : f[n] = step[n][f[n - 1]]
  <2> HIDE DEF step
  <2>1. QED
    BY <1>2, Recursion, Zenon
<1>4. \A n \in 0..N : f[n] = IF n = 0 THEN 0 ELSE f[n - 1] * Base + digit(n)
  <2>1. \A n \in 0..N : n # 0 => n \in 1..N /\ n - 1 \in 0..N
    OBVIOUS
  <2>2. \A n \in 0..N : n # 0 => f[n - 1] \in Int
    BY <2>1, Zenon
  <2>3. QED
    BY <1>3, <2>1, <2>2, Zenon
<1>5. f = [n \in 0..N |-> IF n = 0 THEN 0 ELSE f[n - 1] * Base + digit(n)]
  BY <1>4, Zenon
<1>6. nanosAfter(fraction) =
        [n \in 0..N |-> IF n = 0 THEN 0 ELSE nanosAfter(fraction)[n - 1] * Base + digit(n)]
  BY <1>0, <1>5, Zenon DEF nanosAfter, digit
<1>7. 0 \in 0..N /\ \A n \in 1..N : n \in 0..N /\ n # 0
  OBVIOUS
<1>8. QED
  BY <1>0, <1>6, <1>7, Zenon DEF digit

\* The reference: the digits that were read so far, as a number.
LEMMA DigitsStep ==
  ASSUME NEW value \in Seq(Nat)
  PROVE  /\ digitsUpTo(value)[0] = 0
         /\ \A n \in 1..Len(value) :
              /\ value[n] = Dot => digitsUpTo(value)[n] = digitsUpTo(value)[n - 1]
              /\ value[n] # Dot =>
                   digitsUpTo(value)[n] = digitsUpTo(value)[n - 1] * Base + value[n]
         /\ \A n \in 0..Len(value) : digitsUpTo(value)[n] \in Nat
<1>0. PICK N \in Nat : N = Len(value)
  OBVIOUS
<1> DEFINE next(v, n) == IF value[n] = Dot THEN v ELSE v * Base + value[n]
           step == [n \in 1..N |-> [v \in Int |-> next(v, n)]]
<1>1. /\ \A n \in 1..N : \A v \in Int : next(v, n) \in Int
      /\ \A n \in 1..N : \A v \in Nat : next(v, n) \in Nat
  <2>1. \A n \in 1..N : value[n] \in Nat
    BY <1>0
  <2>2. \A v, c \in Nat : v * Base + c \in Nat
    BY ScaleAssumption, ProductType
  <2>3. \A v \in Int, c \in Nat : v * Base + c \in Int
    BY ScaleAssumption
  <2>4. QED
    BY <2>1, <2>2, <2>3, Zenon
<1> HIDE DEF next
<1>2. step \in [1..N -> [Int -> Int]] /\ 0 \in Int
  BY <1>1
<1>3. PICK f \in [0..N -> Int] : f[0] = 0 /\ \A n \in 1..N : f[n] = step[n][f[n - 1]]
  <2> HIDE DEF step
  <2>1. QED
    BY <1>2, Recursion, Zenon
<1>4. \A n \in 0..N : f[n] = IF n = 0 THEN 0 ELSE next(f[n - 1], n)
  <2>1. \A n \in 0..N : n # 0 => n \in 1..N /\ n - 1 \in 0..N
    OBVIOUS
  <2>2. \A n \in 0..N : n # 0 => f[n - 1] \in Int
    BY <2>1, Zenon
  <2>3. QED
    BY <1>3, <2>1, <2>2, Zenon
<1>5. f = [n \in 0..N |-> IF n = 0 THEN 0 ELSE next(f[n - 1], n)]
  BY <1>4, Zenon
<1>6. digitsUpTo(value) =
        [n \in 0..N |-> IF n = 0 THEN 0 ELSE next(digitsUpTo(value)[n - 1], n)]
  BY <1>0, <1>5, Zenon DEF digitsUpTo, next
<1>7. 0 \in 0..N /\ \A n \in 1..N : n \in 0..N /\ n # 0
  OBVIOUS
<1>8. /\ digitsUpTo(value)[0] = 0
      /\ \A n \in 1..N : digitsUpTo(value)[n] = next(digitsUpTo(value)[n - 1], n)
  BY <1>6, <1>7, Zenon
<1>9. \A n \in 0..N : digitsUpTo(value)[n] \in Nat
  <2> DEFINE S == {n \in Nat : n <= N => digitsUpTo(value)[n] \in Nat}
  <2>1. 0 \in S
    BY <1>8
  <2>2. ASSUME NEW n \in S PROVE n + 1 \in S
    <3>1. n \in Nat /\ (n <= N => digitsUpTo(value)[n] \in Nat)
      BY Zenon
    <3>2. n + 1 <= N => n + 1 \in 1..N /\ (n + 1) - 1 = n /\ n <= N
      BY <3>1
    <3>3. n + 1 <= N => digitsUpTo(value)[n + 1] \in Nat
      BY <1>1, <1>8, <3>1, <3>2, Zenon
    <3>4. QED
      BY <3>1, <3>3
  <2>3. S \subseteq Nat
    BY Zenon
  <2>4. \A n \in Nat : n \in S
    <3> HIDE DEF S
    <3>1. QED
      BY <2>1, <2>2, <2>3, Induction, Zenon
  <2>5. QED
    BY <2>4
<1>10. QED
  BY <1>0, <1>8, <1>9, Zenon DEF next

\* A power is a number, and not zero.
LEMMA PowerType == \A n \in Nat : Power[n] \in Nat \ {0}
<1> DEFINE S == {n \in Nat : Power[n] \in Nat \ {0}}
<1>1. 0 \in S
  BY PowerStep
<1>2. ASSUME NEW n \in S PROVE n + 1 \in S
  <2>1. Power[n + 1] = Base * Power[n] /\ Power[n] \in Nat \ {0} /\ n + 1 \in Nat
    BY PowerStep
  <2>2. Base * Power[n] \in Nat \ {0}
    BY <2>1, ScaleAssumption
  <2>3. QED
    BY <2>1, <2>2, Zenon
<1>3. S = Nat
  <2>1. S \subseteq Nat
    BY Zenon
  <2> HIDE DEF S
  <2>2. QED
    BY <1>1, <1>2, <2>1, Induction, Zenon
<1>4. QED
  BY <1>3, Zenon

\* The power of a sum.
LEMMA PowerSum == \A a, b \in Nat : Power[a + b] = Power[a] * Power[b]
<1> SUFFICES ASSUME NEW a \in Nat PROVE \A b \in Nat : Power[a + b] = Power[a] * Power[b]
  BY Zenon
<1> DEFINE S == {b \in Nat : Power[a + b] = Power[a] * Power[b]}
<1>1. 0 \in S
  BY PowerStep, PowerType
<1>2. ASSUME NEW b \in S PROVE b + 1 \in S
  <2>1. /\ Power[b + 1] = Base * Power[b]
        /\ Power[(a + b) + 1] = Base * Power[a + b]
        /\ Power[a + b] = Power[a] * Power[b]
        /\ b + 1 \in Nat /\ (a + b) + 1 = a + (b + 1)
    BY PowerStep
  <2>2. Power[a] \in Nat /\ Power[b] \in Nat /\ Base \in Nat
    BY PowerType, ScaleAssumption, Zenon
  <2>3. \A x, y, z \in Nat : x * (y * z) = y * (x * z)
    OBVIOUS
  <2>4. Power[a + (b + 1)] = Power[a] * Power[b + 1]
    BY <2>1, <2>2, <2>3
  <2>5. QED
    BY <2>1, <2>4, Zenon
<1>3. S = Nat
  <2>1. S \subseteq Nat
    BY Zenon
  <2> HIDE DEF S
  <2>2. QED
    BY <1>1, <1>2, <2>1, Induction, Zenon
<1>4. QED
  BY <1>3, Zenon

-----------------------------------------------------------------------------
(* clockTarget against the digits of its text.                             *)

\* n digits are a number below the n-th power.
LEMMA DigitsBound ==
  ASSUME NEW s \in Seq(Nat), \A i \in DOMAIN s : IsDigit(s[i])
  PROVE  \A n \in 0..Len(s) : digitsUpTo(s)[n] < Power[n]
<1> DEFINE S == {n \in 0..Len(s) : digitsUpTo(s)[n] < Power[n]}
<1>1. 0 \in S
  BY DigitsStep, PowerStep, SMTT(30)
<1>2. ASSUME NEW n \in 0 .. Len(s) - 1, n \in S PROVE n + 1 \in S
  <2>1. n + 1 \in 1..Len(s) /\ (n + 1) - 1 = n /\ n \in Nat
    OBVIOUS
  <2>2. s[n + 1] \in Nat /\ s[n + 1] < Base /\ s[n + 1] # Dot
    BY <2>1, ScaleAssumption DEF IsDigit, Dot
  <2>3. digitsUpTo(s)[n + 1] = digitsUpTo(s)[n] * Base + s[n + 1] /\ digitsUpTo(s)[n] \in Nat
    BY <2>1, <2>2, DigitsStep
  <2>4. Power[n + 1] = Base * Power[n] /\ Power[n] \in Nat
    BY <2>1, PowerStep, PowerType, Zenon
  <2>5. Base \in Nat \ {0} /\ digitsUpTo(s)[n] < Power[n]
    BY <1>2, ScaleAssumption, Zenon
  <2>6. digitsUpTo(s)[n] * Base + s[n + 1] < Base * Power[n]
    BY <2>2, <2>3, <2>4, <2>5, AppendBound, Zenon
  <2>7. QED
    BY <2>1, <2>3, <2>4, <2>6
<1>3. QED
  <2>1. Len(s) \in Nat
    OBVIOUS
  <2>2. \A n \in 0..Len(s) : n \in S
    <3> HIDE DEF S
    <3>1. QED
      BY <1>1, <1>2, <2>1, InductionTo, Zenon
  <2>3. QED
    BY <2>2, Zenon

\* The loop over the whole seconds reads them, or finds a character that is no
\* digit or a number beyond ROS time.
LEMMA SecondsMean ==
  ASSUME NEW s \in Seq(Nat)
  PROVE  \A n \in 0..Len(s) :
           secondsAfter(s)[n] =
             IF (\A i \in 1..n : IsDigit(s[i])) /\ digitsUpTo(s)[n] <= UINT32_MAX
             THEN digitsUpTo(s)[n] ELSE Invalid
<1> DEFINE Good(n) == (\A i \in 1..n : IsDigit(s[i])) /\ digitsUpTo(s)[n] <= UINT32_MAX
           S == {n \in 0..Len(s) :
                   secondsAfter(s)[n] = IF Good(n) THEN digitsUpTo(s)[n] ELSE Invalid}
<1>1. 0 \in S
  BY DigitsStep, SecondsStep, ScaleAssumption
<1>2. ASSUME NEW n \in 0 .. Len(s) - 1, n \in S PROVE n + 1 \in S
  <2>1. n + 1 \in 1..Len(s) /\ n + 1 \in 0..Len(s) /\ (n + 1) - 1 = n /\ n \in 0..Len(s)
    OBVIOUS
  <2> DEFINE c == s[n + 1]
             d == digitsUpTo(s)[n]
  <2>2. c \in Nat /\ d \in Nat /\ digitsUpTo(s)[n + 1] \in Nat
    BY <2>1, DigitsStep
  <2>3. secondsAfter(s)[n + 1] = NextSecond(secondsAfter(s)[n], c)
    BY <2>1, SecondsStep, Zenon
  <2>4. secondsAfter(s)[n] = IF Good(n) THEN d ELSE Invalid
    BY <1>2, Zenon
  <2>5. Good(n) => \A i \in 1..n : IsDigit(s[i])
    BY Zenon
  <2>6. IsDigit(c) => digitsUpTo(s)[n + 1] = d * Base + c
    BY <2>1, DigitsStep, ScaleAssumption DEF IsDigit, Dot
  <2>7. /\ d * Base + c <= UINT32_MAX => d <= UINT32_MAX
        /\ d > UINT32_MAX \div Base \/ d * Base + c > UINT32_MAX <=> ~(d * Base + c <= UINT32_MAX)
    <3>1. Base \in Nat \ {0} /\ UINT32_MAX \in Nat
      BY ScaleAssumption, Zenon
    <3> HIDE DEF c, d
    <3>2. QED
      BY <2>2, <3>1, AppendFits, Zenon
  <2>8. Good(n + 1) <=> Good(n) /\ IsDigit(c) /\ d * Base + c <= UINT32_MAX
    <3>1. (\A i \in 1 .. n + 1 : IsDigit(s[i])) <=> (\A i \in 1..n : IsDigit(s[i])) /\ IsDigit(c)
      BY <2>1
    <3> HIDE DEF c
    <3>2. QED
      BY <2>6, <2>7, <3>1, Zenon
  <2>9. secondsAfter(s)[n + 1] = IF Good(n + 1) THEN digitsUpTo(s)[n + 1] ELSE Invalid
    <3> HIDE DEF c, Good
    <3>1. CASE ~Good(n)
      BY <2>3, <2>4, <2>8, <3>1, Zenon DEF NextSecond
    <3>2. CASE Good(n) /\ ~IsDigit(c)
      BY <2>3, <2>4, <2>8, <3>2, Zenon DEF NextSecond
    <3>3. CASE Good(n) /\ IsDigit(c)
      <4>1. secondsAfter(s)[n] = d /\ d # Invalid
        BY <2>2, <2>4, <3>3 DEF Invalid
      <4>2. CASE d * Base + c <= UINT32_MAX
        BY <2>3, <2>6, <2>7, <2>8, <3>3, <4>1, <4>2, Zenon DEF NextSecond
      <4>3. CASE ~(d * Base + c <= UINT32_MAX)
        BY <2>3, <2>7, <2>8, <3>3, <4>1, <4>3, Zenon DEF NextSecond
      <4>4. QED
        BY <4>2, <4>3, Zenon
    <3>4. QED
      BY <3>1, <3>2, <3>3, Zenon
  <2>10. QED
    BY <2>1, <2>9, Zenon
<1>3. Len(s) \in Nat
  OBVIOUS
<1>4. \A n \in 0..Len(s) : n \in S
  <2> HIDE DEF S
  <2>1. QED
    BY <1>1, <1>2, <1>3, InductionTo, Zenon
<1>5. QED
  BY <1>4, Zenon

\* The loop over the fraction reads its first digits, and fills up with zeros.
LEMMA NanosMean ==
  ASSUME NEW s \in Seq(Nat), \A i \in DOMAIN s : IsDigit(s[i])
  PROVE  \A n \in 0..FractionDigits :
           nanosAfter(s)[n] = IF n <= Len(s) THEN digitsUpTo(s)[n]
                              ELSE digitsUpTo(s)[Len(s)] * Power[n - Len(s)]
<1> DEFINE Read(n) == IF n <= Len(s) THEN digitsUpTo(s)[n]
                      ELSE digitsUpTo(s)[Len(s)] * Power[n - Len(s)]
           S == {n \in 0..FractionDigits : nanosAfter(s)[n] = Read(n)}
<1>1. 0 \in S
  BY DigitsStep, NanosStep, ScaleAssumption
<1>2. ASSUME NEW n \in 0 .. FractionDigits - 1, n \in S PROVE n + 1 \in S
  <2>1. /\ n + 1 \in 1..FractionDigits /\ n + 1 \in 0..FractionDigits /\ (n + 1) - 1 = n
        /\ n \in Nat /\ Len(s) \in Nat
    BY ScaleAssumption
  <2>2. nanosAfter(s)[n] = Read(n)
    BY <1>2, Zenon
  <2>3. nanosAfter(s)[n + 1] = nanosAfter(s)[n] * Base + IF n + 1 <= Len(s) THEN s[n + 1] ELSE 0
    BY <2>1, NanosStep, Zenon
  <2>4. CASE n + 1 <= Len(s)
    <3>1. n + 1 \in 1..Len(s) /\ n <= Len(s)
      BY <2>1, <2>4
    <3>2. s[n + 1] # Dot
      BY <3>1, ScaleAssumption DEF IsDigit, Dot
    <3>3. digitsUpTo(s)[n + 1] = digitsUpTo(s)[n] * Base + s[n + 1]
      BY <2>1, <3>1, <3>2, DigitsStep, Zenon
    <3>4. QED
      BY <2>1, <2>2, <2>3, <2>4, <3>1, <3>3, Zenon
  <2>5. CASE ~(n + 1 <= Len(s))
    <3>1. PICK k \in Nat : k = n - Len(s)
      BY <2>1, <2>5
    <3>2. PICK d \in Nat : d = digitsUpTo(s)[Len(s)]
      BY <2>1, DigitsStep
    <3>3. /\ Power[k] \in Nat /\ Power[k + 1] = Base * Power[k] /\ Power[0] = 1
          /\ (n + 1) - Len(s) = k + 1
      <4>1. (n + 1) - Len(s) = k + 1
        BY <2>1, <3>1
      <4>2. QED
        BY <4>1, PowerStep, PowerType, Zenon
    <3>4. Read(n) = d * Power[k]
      <4>1. CASE n = Len(s)
        <5>1. k = 0 /\ n <= Len(s)
          BY <2>1, <3>1, <4>1
        <5>2. Read(n) = d /\ d * 1 = d
          BY <3>2, <4>1, <5>1
        <5>3. QED
          BY <3>3, <5>1, <5>2, Zenon
      <4>2. CASE n # Len(s)
        <5>1. ~(n <= Len(s))
          BY <2>1, <2>5, <4>2
        <5>2. QED
          BY <3>1, <3>2, <5>1, Zenon
      <4>3. QED
        BY <4>1, <4>2, Zenon
    <3>5. Read(n + 1) = d * (Base * Power[k])
      BY <2>5, <3>2, <3>3, Zenon
    <3>6. (d * Power[k]) * Base + 0 = d * (Base * Power[k])
      <4>1. \A x, y, z \in Nat : (x * y) * z + 0 = x * (z * y)
        OBVIOUS
      <4>2. Base \in Nat
        BY ScaleAssumption, Zenon
      <4>3. QED
        BY <3>3, <4>1, <4>2, SMTT(30)
    <3> HIDE DEF Read
    <3>7. nanosAfter(s)[n + 1] = (d * Power[k]) * Base + 0
      BY <2>2, <2>3, <2>5, <3>4, Zenon
    <3>8. QED
      BY <2>1, <3>5, <3>6, <3>7, Zenon
  <2>6. QED
    BY <2>4, <2>5, Zenon
<1>3. \A n \in 0..FractionDigits : n \in S
  <2>1. FractionDigits \in Nat
    BY ScaleAssumption, Zenon
  <2> HIDE DEF S
  <2>2. QED
    BY <1>1, <1>2, <2>1, InductionTo, Zenon
<1>4. QED
  BY <1>3, Zenon

\* The digits behind the first ones are worth less than one of the last of them.
LEMMA TailMeans ==
  ASSUME NEW s \in Seq(Nat), \A i \in DOMAIN s : IsDigit(s[i]),
         NEW first \in Nat, first <= Len(s)
  PROVE  \E t \in Nat :
           /\ Digits(s) = digitsUpTo(s)[first] * Power[Len(s) - first] + t
           /\ t < Power[Len(s) - first]
           /\ t = 0 <=> \A i \in DOMAIN s : i > first => s[i] = 0
<1>0. PICK more \in Nat : more = Len(s) - first
  OBVIOUS
<1>1. PICK q \in Nat : q = digitsUpTo(s)[first]
  BY DigitsStep
<1> DEFINE Rest(n, t) == /\ t \in Nat /\ digitsUpTo(s)[first + n] = q * Power[n] + t
                         /\ t < Power[n]
                         /\ t = 0 <=> \A i \in first + 1 .. first + n : s[i] = 0
           S == {n \in 0..more : \E t : Rest(n, t)}
<1>2. 0 \in S
  <2>1. first + 0 = first /\ first + 1 .. first = {} /\ q * 1 + 0 = q
    OBVIOUS
  <2>2. Rest(0, 0)
    <3>1. Power[0] = 1 /\ 0 < 1
      BY PowerStep
    <3>2. q * Power[0] + 0 = q
      BY <2>1, <3>1, Zenon
    <3>3. digitsUpTo(s)[first + 0] = q * Power[0] + 0
      BY <1>1, <2>1, <3>2, Zenon
    <3>4. \A i \in first + 1 .. first + 0 : s[i] = 0
      BY <2>1, Zenon
    <3>5. QED
      BY <3>1, <3>3, <3>4, Zenon
  <2> HIDE DEF Rest
  <2>3. QED
    BY <2>2
<1>3. ASSUME NEW n \in 0 .. more - 1, n \in S PROVE n + 1 \in S
  <2>1. /\ first + n + 1 \in 1..Len(s) /\ (first + n + 1) - 1 = first + n
        /\ n \in Nat /\ n + 1 \in 0..more /\ first + n + 1 = first + (n + 1)
    BY <1>0
  <2>2. PICK t \in Nat : Rest(n, t)
    <3>1. PICK t : Rest(n, t)
      <4> HIDE DEF Rest
      <4>1. QED
        BY <1>3, Zenon
    <3>2. QED
      BY <3>1, Zenon
  <2>3. PICK c \in Nat : c = s[first + n + 1]
    BY <2>1
  <2>4. c < Base /\ c # Dot
    BY <2>1, <2>3, ScaleAssumption, SMTT(30) DEF IsDigit, Dot
  <2>5. digitsUpTo(s)[first + (n + 1)] = digitsUpTo(s)[first + n] * Base + c
    BY <2>1, <2>3, <2>4, DigitsStep, Zenon
  <2>6. /\ Power[n] \in Nat /\ Power[n + 1] = Base * Power[n] /\ Base \in Nat \ {0}
    BY <2>1, PowerStep, PowerType, ScaleAssumption, Zenon
  <2>7. /\ (q * Power[n] + t) * Base + c = q * (Base * Power[n]) + (t * Base + c)
        /\ t * Base + c \in Nat
        /\ t * Base + c = 0 <=> t = 0 /\ c = 0
    <3>1. PICK p \in Nat : p = Power[n]
      BY <2>6, Zenon
    <3>2. PICK b \in Nat \ {0} : b = Base
      BY <2>6, Zenon
    <3>3. /\ (q * p + t) * b + c = q * (b * p) + (t * b + c)
          /\ t * b + c \in Nat
          /\ t * b + c = 0 <=> t = 0 /\ c = 0
      BY AppendTail
    <3>4. QED
      BY <3>1, <3>2, <3>3, Zenon
  <2>8. t * Base + c < Base * Power[n]
    BY <2>2, <2>3, <2>4, <2>6, AppendBound, Zenon
  <2>9. (\A i \in first + 1 .. first + (n + 1) : s[i] = 0) <=>
        (\A i \in first + 1 .. first + n : s[i] = 0) /\ c = 0
    BY <2>1, <2>3
  <2>10. digitsUpTo(s)[first + (n + 1)] = q * Power[n + 1] + (t * Base + c)
    BY <2>2, <2>5, <2>6, <2>7, Zenon
  <2>11. Rest(n + 1, t * Base + c)
    BY <2>2, <2>6, <2>7, <2>8, <2>9, <2>10, Zenon
  <2> HIDE DEF Rest
  <2>12. QED
    BY <2>1, <2>11, Zenon
<1> HIDE DEF Rest
<1>4. \A n \in 0..more : n \in S
  <2> HIDE DEF S
  <2>1. QED
    BY <1>0, <1>2, <1>3, InductionTo, Zenon
<1>5. PICK t : Rest(more, t)
  <2>1. more \in 0..more
    OBVIOUS
  <2>2. QED
    BY <1>4, <2>1, Zenon
<1>6. first + more = Len(s) /\ \A i \in DOMAIN s : i > first <=> i \in first + 1 .. first + more
  BY <1>0
<1>7. \A i \in first + 1 .. first + more : i \in DOMAIN s
  BY <1>0
<1>8. /\ t \in Nat /\ Digits(s) = q * Power[more] + t /\ t < Power[more]
      /\ t = 0 <=> \A i \in first + 1 .. first + more : s[i] = 0
  BY <1>5, <1>6, Zenon DEF Rest, Digits
<1>9. (\A i \in first + 1 .. first + more : s[i] = 0) <=> \A i \in DOMAIN s : i > first => s[i] = 0
  BY <1>6, <1>7, Zenon
<1>10. QED
  BY <1>0, <1>1, <1>8, <1>9, Zenon

\* find('.') and the two substrs.
LEMMA Parts ==
  ASSUME NEW value \in Seq(Nat)
  PROVE  /\ Whole(value) \in Seq(Nat) /\ Fraction(value) \in Seq(Nat)
         /\ Point(value) = 0 => /\ \A i \in DOMAIN value : value[i] # Dot
                                /\ Whole(value) = value /\ Fraction(value) = <<>>
         /\ Point(value) # 0 =>
              /\ Point(value) \in 1..Len(value) /\ value[Point(value)] = Dot
              /\ Len(Whole(value)) = Point(value) - 1
              /\ Len(Fraction(value)) = Len(value) - Point(value)
              /\ \A i \in 1..Len(Whole(value)) :
                   Whole(value)[i] = value[i] /\ value[i] # Dot
              /\ \A i \in 1..Len(Fraction(value)) : Fraction(value)[i] = value[Point(value) + i]
<1> DEFINE First(p) == /\ p \in DOMAIN value /\ value[p] = Dot
                       /\ \A j \in 1 .. p - 1 : value[j] # Dot
<1>1. DOMAIN value = 1..Len(value) /\ Len(value) \in Nat
  OBVIOUS
<1>2. CASE \A i \in DOMAIN value : value[i] # Dot
  <2>1. Point(value) = 0
    BY <1>2, Zenon DEF Point
  <2>2. QED
    BY <1>2, <2>1 DEF Whole, Fraction
<1>3. CASE \E i \in DOMAIN value : value[i] = Dot
  <2> DEFINE S == {i \in DOMAIN value : value[i] = Dot}
  <2>1. PICK x \in S : \A y \in S : x <= y
    <3>1. S \in SUBSET Nat /\ S # {}
      BY <1>1, <1>3
    <3> HIDE DEF S
    <3>2. QED
      BY <3>1, LeastNumber, Zenon
  <2>2. First(x)
    <3>1. x \in 1..Len(value) /\ value[x] = Dot
      BY <1>1, <2>1, Zenon
    <3>2. ASSUME NEW j \in 1 .. x - 1 PROVE value[j] # Dot
      <4>1. j \in DOMAIN value /\ ~(x <= j)
        BY <1>1, <3>1
      <4>2. QED
        BY <2>1, <4>1, Zenon
    <3>3. QED
      BY <1>1, <3>1, <3>2, Zenon
  <2>3. First(Point(value))
    <3>1. Point(value) = CHOOSE p : First(p)
      BY <1>3, Zenon DEF Point
    <3> HIDE DEF First
    <3>2. QED
      BY <2>2, <3>1, Zenon
  <2>4. PICK p \in 1..Len(value) : p = Point(value)
    BY <1>1, <2>3, Zenon
  <2>5. /\ Whole(value) = SubSeq(value, 1, p - 1)
        /\ Fraction(value) = SubSeq(value, p + 1, Len(value))
    <3>1. Point(value) # 0
      BY <1>1, <2>4
    <3>2. QED
      BY <2>4, <3>1, Zenon DEF Whole, Fraction
  <2>6. /\ SubSeq(value, 1, p - 1) \in Seq(Nat) /\ Len(SubSeq(value, 1, p - 1)) = p - 1
        /\ \A i \in 1 .. p - 1 : SubSeq(value, 1, p - 1)[i] = value[i]
    BY <1>1
  <2>7. /\ SubSeq(value, p + 1, Len(value)) \in Seq(Nat)
        /\ Len(SubSeq(value, p + 1, Len(value))) = Len(value) - p
        /\ \A i \in 1 .. Len(value) - p : SubSeq(value, p + 1, Len(value))[i] = value[p + i]
    <3>1. PICK n \in Nat : n = Len(value)
      BY <1>1, Zenon
    <3>2. \A i \in p + 1 .. n : value[i] \in Nat
      BY <1>1, <3>1
    <3>3. p + 1 \in Nat /\ p \in Nat /\ p <= n
      BY <3>1
    <3>4. SubSeq(value, p + 1, n) \in Seq(Nat)
      BY <3>1, <3>2, <3>3
    <3>5. Len(SubSeq(value, p + 1, n)) = n - p
      BY <3>1, <3>3
    <3>6. ASSUME NEW i \in 1 .. n - p PROVE SubSeq(value, p + 1, n)[i] = value[p + i]
      <4>1. i \in 1 .. n - (p + 1) + 1 /\ (p + 1) + i - 1 = p + i
        BY <3>3
      <4>2. QED
        BY <3>1, <3>3, <4>1
    <3>7. QED
      BY <3>1, <3>4, <3>5, <3>6, Zenon
  <2>8. p # 0 /\ value[p] = Dot /\ \A i \in 1 .. p - 1 : value[i] # Dot
    BY <1>1, <2>3, <2>4
  <2>9. QED
    BY <2>4, <2>5, <2>6, <2>7, <2>8, Zenon
<1>4. QED
  BY <1>2, <1>3, Zenon

\* The digits of a text are those in front of the point and those behind it.
LEMMA Joined ==
  ASSUME NEW value \in Seq(Nat),
         \A i \in DOMAIN Fraction(value) : IsDigit(Fraction(value)[i])
  PROVE  Digits(value) = Digits(Whole(value)) * Scale(value) + Digits(Fraction(value))
<1>1. PICK w \in Seq(Nat) : w = Whole(value)
  BY Parts, Zenon
<1>2. PICK f \in Seq(Nat) : f = Fraction(value)
  BY Parts, Zenon
<1>3. CASE Point(value) = 0
  <2>1. w = value /\ Len(f) = 0
    BY <1>1, <1>2, <1>3, Parts, Zenon
  <2>2. Digits(w) \in Nat /\ Digits(f) = 0
    <3>1. Len(w) \in 0..Len(w) /\ digitsUpTo(f)[0] = 0
      BY DigitsStep
    <3>2. QED
      BY <2>1, <3>1, DigitsStep, Zenon DEF Digits
  <2>3. Scale(value) = 1
    BY <1>2, <2>1, PowerStep, Zenon DEF Scale
  <2>4. Digits(w) = Digits(w) * 1 + 0
    BY <2>2
  <2>5. QED
    BY <1>1, <1>2, <2>1, <2>2, <2>3, <2>4, Zenon
<1>4. CASE Point(value) # 0
  <2>1. PICK p \in 1..Len(value) : p = Point(value)
    BY <1>4, Parts, Zenon
  <2>2. /\ value[p] = Dot /\ Len(w) = p - 1 /\ Len(f) = Len(value) - p
        /\ \A i \in 1..Len(w) : w[i] = value[i]
        /\ \A i \in 1..Len(f) : f[i] = value[p + i]
    BY <1>1, <1>2, <1>4, <2>1, Parts, Zenon
  <2>3. Len(w) \in Nat /\ Len(f) \in Nat /\ Len(value) \in Nat /\ p \in Nat \ {0}
    OBVIOUS
  <2>4. \A n \in 0..Len(w) : digitsUpTo(value)[n] = digitsUpTo(w)[n]
    <3> DEFINE S == {n \in 0..Len(w) : digitsUpTo(value)[n] = digitsUpTo(w)[n]}
    <3>1. 0 \in S
      BY <2>3, DigitsStep
    <3>2. ASSUME NEW n \in 0 .. Len(w) - 1, n \in S PROVE n + 1 \in S
      <4>1. /\ n + 1 \in 1..Len(w) /\ n + 1 \in 1..Len(value) /\ (n + 1) - 1 = n
            /\ n + 1 \in 0..Len(w)
        <5>1. PICK a \in Nat : a = Len(w)
          BY <2>3, Zenon
        <5>2. PICK b \in Nat : b = Len(value)
          BY <2>3, Zenon
        <5>3. n \in 0 .. a - 1 /\ a = p - 1 /\ p \in 1..b
          BY <2>2, <5>1, <5>2, Zenon
        <5>4. QED
          BY <5>1, <5>2, <5>3
      <4>2. w[n + 1] = value[n + 1] /\ digitsUpTo(value)[n] = digitsUpTo(w)[n]
        BY <2>2, <3>2, <4>1, Zenon
      <4>3. digitsUpTo(value)[n + 1] = digitsUpTo(w)[n + 1]
        <5>1. \/ /\ w[n + 1] = Dot
                 /\ digitsUpTo(w)[n + 1] = digitsUpTo(w)[n]
                 /\ digitsUpTo(value)[n + 1] = digitsUpTo(value)[n]
              \/ /\ w[n + 1] # Dot
                 /\ digitsUpTo(w)[n + 1] = digitsUpTo(w)[n] * Base + w[n + 1]
                 /\ digitsUpTo(value)[n + 1] = digitsUpTo(value)[n] * Base + value[n + 1]
          BY <4>1, <4>2, DigitsStep, ZenonT(30)
        <5>2. QED
          BY <4>2, <5>1, Zenon
      <4>4. QED
        BY <4>1, <4>3, Zenon
    <3>3. \A n \in 0..Len(w) : n \in S
      <4> HIDE DEF S
      <4>1. QED
        BY <2>3, <3>1, <3>2, InductionTo, Zenon
    <3>4. QED
      BY <3>3, Zenon
  <2>5. PICK q \in Nat : q = Digits(w)
    <3>1. Len(w) \in 0..Len(w)
      BY <2>3
    <3>2. digitsUpTo(w)[Len(w)] \in Nat
      BY <2>3, <3>1, DigitsStep, Zenon
    <3>3. QED
      BY <3>2, Zenon DEF Digits
  <2>6. digitsUpTo(value)[p] = q
    <3>1. p - 1 \in 0..Len(w) /\ p - 1 = Len(w)
      BY <2>1, <2>2, <2>3
    <3>2. digitsUpTo(value)[p - 1] = q
      BY <2>4, <2>5, <3>1, Zenon DEF Digits
    <3>3. QED
      BY <2>1, <2>2, <3>2, DigitsStep, Zenon
  <2>7. \A m \in 0..Len(f) : digitsUpTo(value)[p + m] = q * Power[m] + digitsUpTo(f)[m]
    <3> DEFINE S == {m \in 0..Len(f) :
                       digitsUpTo(value)[p + m] = q * Power[m] + digitsUpTo(f)[m]}
    <3>1. 0 \in S
      <4>1. p + 0 = p /\ q * 1 + 0 = q /\ 0 \in 0..Len(f)
        BY <2>1, <2>3
      <4>2. digitsUpTo(f)[0] = 0 /\ Power[0] = 1
        BY DigitsStep, PowerStep, Zenon
      <4>3. q * Power[0] + digitsUpTo(f)[0] = q
        BY <4>1, <4>2, Zenon
      <4>4. QED
        BY <2>6, <4>1, <4>3, Zenon
    <3>2. ASSUME NEW n \in 0 .. Len(f) - 1, n \in S PROVE n + 1 \in S
      <4>1. /\ n + 1 \in 1..Len(f) /\ (n + 1) - 1 = n /\ n \in Nat /\ n \in 0..Len(f)
            /\ p + (n + 1) \in 1..Len(value) /\ (p + (n + 1)) - 1 = p + n /\ n + 1 \in 0..Len(f)
        <5>1. PICK a \in Nat : a = Len(f)
          BY <2>3, Zenon
        <5>2. PICK b \in Nat : b = Len(value)
          BY <2>3, Zenon
        <5>3. n \in 0 .. a - 1 /\ a = b - p /\ p \in 1..b
          BY <2>2, <5>1, <5>2, Zenon
        <5>4. QED
          BY <5>1, <5>2, <5>3
      <4>2. PICK c \in Nat : c = f[n + 1] /\ c = value[p + (n + 1)]
        <5>1. f[n + 1] = value[p + (n + 1)]
          BY <2>2, <4>1, Zenon
        <5>2. f[n + 1] \in Nat
          BY <2>3, <4>1, SMTT(30)
        <5>3. QED
          BY <5>1, <5>2, Zenon
      <4>3. c # Dot
        <5>1. IsDigit(f[n + 1])
          BY <1>2, <4>1
        <5>2. QED
          BY <4>2, <5>1, ScaleAssumption, SMTT(30) DEF IsDigit, Dot
      <4>4. PICK t \in Nat : t = digitsUpTo(f)[n]
        BY <4>1, DigitsStep, Zenon
      <4>5. digitsUpTo(f)[n + 1] = t * Base + c
        BY <4>1, <4>2, <4>3, <4>4, DigitsStep, Zenon
      <4>6. digitsUpTo(value)[p + n] = q * Power[n] + t
        BY <3>2, <4>4, Zenon
      <4>7. digitsUpTo(value)[p + (n + 1)] = (q * Power[n] + t) * Base + c
        BY <4>1, <4>2, <4>3, <4>6, DigitsStep, SMTT(60)
      <4>8. PICK b \in Nat \ {0} : b = Base
        BY ScaleAssumption, Zenon
      <4>9. PICK r \in Nat : r = Power[n]
        BY <4>1, PowerType, Zenon
      <4>10. (q * r + t) * b + c = q * (b * r) + (t * b + c)
        BY AppendTail
      <4>11. Power[n + 1] = b * r
        BY <4>1, <4>8, <4>9, PowerStep, Zenon
      <4>12. digitsUpTo(value)[p + (n + 1)] = q * Power[n + 1] + digitsUpTo(f)[n + 1]
        BY <4>5, <4>7, <4>8, <4>9, <4>10, <4>11, Zenon
      <4>13. QED
        BY <4>1, <4>12, Zenon
    <3>3. \A m \in 0..Len(f) : m \in S
      <4> HIDE DEF S
      <4>1. QED
        BY <2>3, <3>1, <3>2, InductionTo, Zenon
    <3>4. QED
      BY <3>3, Zenon
  <2>8. Len(f) \in 0..Len(f) /\ p + Len(f) = Len(value)
    <3>1. PICK a \in Nat : a = Len(f)
      BY <2>3, Zenon
    <3>2. PICK b \in Nat : b = Len(value)
      BY <2>3, Zenon
    <3>3. a = b - p
      BY <2>2, <3>1, <3>2, Zenon
    <3>4. QED
      BY <2>3, <3>1, <3>2, <3>3
  <2>9. QED
    BY <1>1, <1>2, <2>5, <2>7, <2>8, Zenon DEF Digits, Scale
<1>5. QED
  BY <1>3, <1>4, Zenon
\* A number of c-ths, cut to S-ths and rounded up, when c divides S.
LEMMA RoundExact ==
  \A v, p \in Nat, c \in Nat \ {0} :
    /\ (v * p) * c >= v * (p * c)
    /\ (v * p - 1) * c < v * (p * c)
<1> SUFFICES ASSUME NEW v \in Nat, NEW p \in Nat, NEW c \in Nat \ {0}
             PROVE  /\ (v * p) * c >= v * (p * c)
                    /\ (v * p - 1) * c < v * (p * c)
  BY Zenon
<1>1. PICK m \in Nat : m = (v * p) * c
  BY ProductType, Zenon
<1>2. v * (p * c) = m
  BY <1>1
<1>3. (v * p - 1) * c = m - c
  BY <1>1
<1> QED
  BY <1>1, <1>2, <1>3

\* The same when S divides c.
LEMMA RoundUp ==
  \A n, s, t \in Nat, tail \in Nat \ {0}, up \in {0, 1} :
    s > 0 /\ t < tail /\ (up = 0 <=> t = 0) =>
      /\ (n + up) * (s * tail) >= (n * tail + t) * s
      /\ (n + up - 1) * (s * tail) < (n * tail + t) * s
<1> SUFFICES ASSUME NEW n \in Nat, NEW s \in Nat, NEW t \in Nat, NEW tail \in Nat \ {0},
                    NEW up \in {0, 1}, s > 0, t < tail, up = 0 <=> t = 0
             PROVE  /\ (n + up) * (s * tail) >= (n * tail + t) * s
                    /\ (n + up - 1) * (s * tail) < (n * tail + t) * s
  OBVIOUS
<1>1. PICK m \in Nat : m = n * (s * tail)
  BY ProductType, Zenon
<1>2. PICK q \in Nat : q = s * tail
  BY ProductType, Zenon
<1>3. PICK r \in Nat : r = t * s
  BY ProductType, Zenon
<1>4. (n * tail + t) * s = m + r
  BY <1>1, <1>3
<1>5. CASE t = 0
  <2>1. (n + up) * (s * tail) = m /\ (n + up - 1) * (s * tail) = m - q
    BY <1>1, <1>2, <1>5
  <2>2. r = 0
    BY <1>3, <1>5
  <2>3. q > 0
    BY <1>2, ProductStrict
  <2> QED
    BY <1>4, <2>1, <2>2, <2>3
<1>6. CASE t # 0
  <2>1. (n + up) * (s * tail) = m + q /\ (n + up - 1) * (s * tail) = m
    BY <1>1, <1>2, <1>6
  <2>2. 0 < r /\ r < q
    <3>1. 0 * s < t * s /\ t * s < tail * s
      BY <1>6, ProductStrict
    <3>2. 0 * s = 0 /\ tail * s = q
      BY <1>2
    <3> QED
      BY <1>3, <3>1, <3>2, Zenon
  <2> QED
    BY <1>4, <2>1, <2>2
<1> QED
  BY <1>5, <1>6, Zenon

\* The nanoseconds of a fraction are the least that are not below it.
LEMMA FractionMeans ==
  ASSUME NEW s \in Seq(Nat), \A i \in DOMAIN s : IsDigit(s[i])
  PROVE  /\ Nanos(s) \in Nat
         /\ Nanos(s) = 0 <=> Digits(s) = 0
         /\ Nanos(s) * Power[Len(s)] >= Digits(s) * Second
         /\ (Nanos(s) - 1) * Power[Len(s)] < Digits(s) * Second
<1>1. PICK k \in Nat : k = Len(s)
  OBVIOUS
<1>2. PICK fd \in Nat : fd = FractionDigits
  BY ScaleAssumption, Zenon
<1>3. PICK v \in Nat : v = Digits(s)
  <2>1. k \in 0..k
    OBVIOUS
  <2>2. digitsUpTo(s)[k] \in Nat
    BY <1>1, <2>1, DigitsStep, Zenon
  <2> QED
    BY <1>1, <2>2, Zenon DEF Digits
<1>4. PICK c \in Nat \ {0} : c = Power[k]
  BY PowerType, Zenon
<1>5. PICK S \in Nat \ {0} : S = Second
  BY <1>2, PowerType, Zenon DEF Second
<1>6. CASE k <= fd
  <2>1. PICK p \in Nat \ {0} : p = Power[fd - k]
    <3>1. fd - k \in Nat
      BY <1>6
    <3> QED
      BY <3>1, PowerType, Zenon
  <2>2. S = p * c
    <3>1. fd - k \in Nat /\ (fd - k) + k = fd
      BY <1>6
    <3>2. Power[(fd - k) + k] = Power[fd - k] * Power[k]
      BY <3>1, PowerSum, Zenon
    <3> QED
      BY <1>2, <1>4, <1>5, <2>1, <3>1, <3>2, Zenon DEF Second
  <2>3. nanosAfter(s)[fd] = v * p
    <3>1. fd \in 0..fd
      OBVIOUS
    <3>2. nanosAfter(s)[fd] = IF fd <= k THEN digitsUpTo(s)[fd]
                              ELSE digitsUpTo(s)[k] * Power[fd - k]
      BY <1>1, <1>2, <3>1, NanosMean, Zenon
    <3>3. CASE fd <= k
      <4>1. fd = k /\ fd - k = 0
        BY <1>6, <3>3
      <4>2. p = 1
        BY <2>1, <4>1, PowerStep, Zenon
      <4>3. nanosAfter(s)[fd] = v
        BY <1>1, <1>3, <3>2, <3>3, <4>1, Zenon DEF Digits
      <4> QED
        BY <4>2, <4>3
    <3>4. CASE ~(fd <= k)
      BY <1>1, <1>3, <2>1, <3>2, <3>4, Zenon DEF Digits
    <3> QED
      BY <3>3, <3>4, Zenon
  <2>4. Nanos(s) = v * p
    <3>1. ~ \E i \in DOMAIN s : i > fd /\ s[i] # 0
      <4>1. \A i \in 1..k : ~(i > fd)
        BY <1>6
      <4> QED
        BY <1>1, <4>1
    <3> HIDE <1>1
    <3>2. Nanos(s) = nanosAfter(s)[fd] + 0
      BY <1>2, <3>1, Zenon DEF Nanos
    <3>3. v * p \in Nat
      BY ProductType, Zenon
    <3> QED
      BY <2>3, <3>2, <3>3
  <2>5. v * p \in Nat /\ (v * p = 0 <=> v = 0)
    <3>1. v # 0 => 0 * p < v * p
      BY ProductStrict
    <3> QED
      BY <3>1, ProductType
  <2>6. (v * p) * c >= v * (p * c) /\ (v * p - 1) * c < v * (p * c)
    BY RoundExact, Zenon
  <2> QED
    BY <1>1, <1>3, <1>4, <1>5, <2>2, <2>4, <2>5, <2>6, Zenon
<1>7. CASE ~(k <= fd)
  <2>0. fd \in 0..fd /\ fd \in 0..k /\ fd <= k /\ k - fd \in Nat /\ fd + (k - fd) = k
    BY <1>7
  <2>1. PICK tail \in Nat \ {0} : tail = Power[k - fd]
    BY <2>0, PowerType, Zenon
  <2>2. c = S * tail
    <3>1. Power[fd + (k - fd)] = Power[fd] * Power[k - fd]
      BY <2>0, PowerSum, Zenon
    <3> QED
      BY <1>2, <1>4, <1>5, <2>0, <2>1, <3>1, Zenon DEF Second
  <2>3. PICK n \in Nat : n = digitsUpTo(s)[fd]
    BY <1>1, <2>0, DigitsStep, Zenon
  <2>4. PICK t \in Nat : /\ v = n * tail + t /\ t < tail
                         /\ t = 0 <=> \A i \in DOMAIN s : i > fd => s[i] = 0
    <3>1. \E t \in Nat : /\ Digits(s) = digitsUpTo(s)[fd] * Power[Len(s) - fd] + t
                         /\ t < Power[Len(s) - fd]
                         /\ t = 0 <=> \A i \in DOMAIN s : i > fd => s[i] = 0
      BY <1>1, <2>0, TailMeans, Zenon
    <3> QED
      BY <1>1, <1>3, <2>1, <2>3, <3>1, Zenon
  <2>5. nanosAfter(s)[fd] = n
    BY <1>1, <1>2, <2>0, <2>3, NanosMean, Zenon
  <2>6. PICK up \in {0, 1} : Nanos(s) = n + up /\ (up = 0 <=> t = 0)
    <3>1. CASE t = 0
      <4>1. ~ \E i \in DOMAIN s : i > fd /\ s[i] # 0
        BY <2>4, <3>1, Zenon
      <4>2. Nanos(s) = n + 0
        BY <1>2, <2>5, <4>1, Zenon DEF Nanos
      <4> QED
        BY <3>1, <4>2, Zenon
    <3>2. CASE t # 0
      <4>1. \E i \in DOMAIN s : i > fd /\ s[i] # 0
        BY <2>4, <3>2, Zenon
      <4>2. Nanos(s) = n + 1
        BY <1>2, <2>5, <4>1, Zenon DEF Nanos
      <4> QED
        BY <3>2, <4>2
    <3> QED
      BY <3>1, <3>2, Zenon
  <2>7. /\ (n + up) * (S * tail) >= (n * tail + t) * S
        /\ (n + up - 1) * (S * tail) < (n * tail + t) * S
    <3>1. S > 0
      OBVIOUS
    <3> QED
      BY <2>4, <2>6, <3>1, RoundUp, Zenon
  <2>8. n + up = 0 <=> v = 0
    <3>1. n # 0 => 0 * tail < n * tail
      BY ProductStrict
    <3>2. n * tail \in Nat /\ 0 * tail = 0
      BY ProductType
    <3>3. n = 0 => n * tail = 0
      OBVIOUS
    <3>4. n * tail = 0 <=> n = 0
      BY <3>1, <3>2, <3>3
    <3>5. PICK m \in Nat : m = n * tail
      BY <3>2, Zenon
    <3> QED
      BY <2>4, <2>6, <3>4, <3>5, SMTT(30)
  <2> QED
    BY <1>1, <1>3, <1>4, <1>5, <2>2, <2>4, <2>6, <2>7, <2>8
<1> QED
  BY <1>6, <1>7, Zenon

\* A decimal is two rows of digits, with a point between them unless the
\* second one is missing.
LEMMA DecimalMeans ==
  ASSUME NEW value \in Seq(Nat)
  PROVE  IsDecimal(value) <=>
           /\ Whole(value) # <<>> /\ Len(value) <= MaxLength
           /\ \A i \in DOMAIN Whole(value) : IsDigit(Whole(value)[i])
           /\ Point(value) # 0 => Fraction(value) # <<>>
           /\ \A i \in DOMAIN Fraction(value) : IsDigit(Fraction(value)[i])
<1>1. PICK w \in Seq(Nat) : w = Whole(value)
  BY Parts, Zenon
<1>2. PICK f \in Seq(Nat) : f = Fraction(value)
  BY Parts, Zenon
<1>3. PICK a \in Nat : a = Len(value) /\ DOMAIN value = 1..a
  OBVIOUS
<1>4. ~IsDigit(Dot)
  BY ScaleAssumption DEF IsDigit, Dot
<1> DEFINE Right == /\ w # <<>> /\ Len(value) <= MaxLength
                    /\ \A i \in DOMAIN w : IsDigit(w[i])
                    /\ Point(value) # 0 => f # <<>>
                    /\ \A i \in DOMAIN f : IsDigit(f[i])
<1>5. CASE Point(value) = 0
  <2>1. (\A i \in 1..a : value[i] # Dot) /\ w = value /\ f = <<>>
    BY <1>1, <1>2, <1>3, <1>5, Parts, Zenon
  <2>2. IsDecimal(value) => Right
    BY <1>3, <1>5, <2>1 DEF IsDecimal
  <2>3. ASSUME Right PROVE IsDecimal(value)
    <3>1. a # 0 /\ Len(value) <= MaxLength /\ value # <<>>
      BY <1>3, <2>1, <2>3
    <3>2. 1 \in 1..a /\ a \in 1..a
      BY <3>1
    <3>3. \A i \in 1..a : IsDigit(value[i])
      BY <1>3, <2>1, <2>3, Zenon
    <3> QED
      BY <1>3, <2>1, <3>1, <3>2, <3>3, Zenon DEF IsDecimal
  <2> QED
    BY <1>1, <1>2, <2>2, <2>3, Zenon
<1>6. CASE Point(value) # 0
  <2>1. PICK p \in 1..a : p = Point(value) /\ value[p] = Dot
    BY <1>3, <1>6, Parts, Zenon
  <2>2. PICK m \in Nat : m = Len(w) /\ DOMAIN w = 1..m /\ m = p - 1
    BY <1>1, <1>6, <2>1, Parts
  <2>3. PICK n \in Nat : n = Len(f) /\ DOMAIN f = 1..n /\ n = a - p
    BY <1>2, <1>3, <1>6, <2>1, Parts
  <2>4. \A i \in 1..m : w[i] = value[i] /\ value[i] # Dot
    BY <1>1, <1>6, <2>2, Parts, Zenon
  <2>5. \A i \in 1..n : f[i] = value[p + i]
    BY <1>2, <1>6, <2>1, <2>3, Parts, Zenon
  <2>6. ASSUME IsDecimal(value) PROVE Right
    <3>1. /\ a # 0 /\ Len(value) <= MaxLength
          /\ \A i \in 1..a : IsDigit(value[i]) \/ value[i] = Dot
          /\ \A i, j \in 1..a : value[i] = Dot /\ value[j] = Dot => i = j
          /\ IsDigit(value[1]) /\ IsDigit(value[a])
      <4>1. /\ value # <<>> /\ Len(value) <= MaxLength
            /\ \A i \in DOMAIN value : IsDigit(value[i]) \/ value[i] = Dot
            /\ \A i, j \in DOMAIN value : value[i] = Dot /\ value[j] = Dot => i = j
            /\ IsDigit(value[1]) /\ IsDigit(value[Len(value)])
        BY <2>6, Zenon DEF IsDecimal
      <4>2. a # 0
        BY <1>3, <4>1
      <4> QED
        BY <1>3, <4>1, <4>2, Zenon
    <3>2. p # 1 /\ p # a
      BY <1>4, <2>1, <3>1, Zenon
    <3>3. m # 0 /\ n # 0
      BY <2>2, <2>3, <3>2
    <3>4. ASSUME NEW i \in 1..m PROVE IsDigit(w[i])
      <4>1. i \in 1..a
        BY <2>1, <2>2
      <4> QED
        BY <2>4, <3>1, <4>1, Zenon
    <3>5. ASSUME NEW i \in 1..n PROVE IsDigit(f[i])
      <4>0. p \in Nat \ {0} /\ a = p + n
        BY <2>3
      <4>1. p + i \in 1..a /\ p + i # p
        BY <4>0
      <4>2. value[p + i] # Dot
        BY <2>1, <3>1, <4>1, Zenon
      <4> QED
        BY <2>5, <3>1, <4>1, <4>2, Zenon
    <3>6. w # <<>> /\ f # <<>>
      BY <2>2, <2>3, <3>3, Zenon
    <3> QED
      BY <2>2, <2>3, <3>1, <3>4, <3>5, <3>6, Zenon
  <2>7. ASSUME Right PROVE IsDecimal(value)
    <3>1. m # 0 /\ n # 0
      <4>1. w # <<>> /\ f # <<>>
        BY <1>6, <2>7, Zenon
      <4> QED
        BY <2>2, <2>3, <4>1
    <3>2. ASSUME NEW i \in 1..a, i # p PROVE IsDigit(value[i])
      <4>1. CASE i < p
        <5>1. i \in 1..m
          BY <2>1, <2>2, <4>1
        <5>2. IsDigit(w[i])
          BY <2>2, <2>7, <5>1, Zenon
        <5> QED
          BY <2>4, <5>1, <5>2, Zenon
      <4>2. CASE i > p
        <5>1. PICK j \in 1..n : i = p + j
          <6>1. i - p \in 1..n /\ i = p + (i - p)
            BY <2>1, <2>3, <4>2, SMTT(30)
          <6> QED
            BY <6>1, Zenon
        <5>2. IsDigit(f[j])
          BY <2>3, <2>7, <5>1, Zenon
        <5> QED
          BY <2>5, <5>1, <5>2, Zenon
      <4> QED
        BY <2>1, <3>2, <4>1, <4>2
    <3>3. \A i, j \in 1..a : value[i] = Dot /\ value[j] = Dot => i = j
      BY <1>4, <3>2, Zenon
    <3>4. 1 \in 1..a /\ a \in 1..a /\ p # 1 /\ p # a
      BY <2>1, <2>2, <2>3, <3>1
    <3>5. IsDigit(value[1]) /\ IsDigit(value[a])
      BY <3>2, <3>4, Zenon
    <3>6. \A i \in 1..a : IsDigit(value[i]) \/ value[i] = Dot
      BY <2>1, <3>2, Zenon
    <3>7. value # <<>> /\ Len(value) <= MaxLength
      BY <1>3, <2>7, <3>4
    <3> QED
      BY <1>3, <3>3, <3>5, <3>6, <3>7, Zenon DEF IsDecimal
  <2> QED
    BY <1>1, <1>2, <2>6, <2>7, Zenon
<1> QED
  BY <1>5, <1>6, Zenon

\* One row of digits after the other stays within u exactly when the first
\* one does, and takes none behind it when it is u itself.
LEMMA WithinBound ==
  \A w, v, u \in Nat, c \in Nat \ {0} :
    v < c => (w * c + v <= u * c <=> w < u \/ (w = u /\ v = 0))
<1> SUFFICES ASSUME NEW w \in Nat, NEW v \in Nat, NEW u \in Nat, NEW c \in Nat \ {0}, v < c
             PROVE  w * c + v <= u * c <=> w < u \/ (w = u /\ v = 0)
  BY Zenon
<1>1. PICK x \in Nat : x = w * c
  BY ProductType, Zenon
<1>2. PICK y \in Nat : y = u * c
  BY ProductType, Zenon
<1>3. w < u => x + c <= y
  <2>1. w < u => (w + 1) * c <= u * c
    BY ProductOrder
  <2>2. (w + 1) * c = x + c
    BY <1>1
  <2> QED
    BY <1>2, <2>1, <2>2, Zenon
<1>4. w > u => y < x
  BY <1>1, <1>2, ProductStrict
<1>5. w = u => x = y
  BY <1>1, <1>2, Zenon
<1> QED
  BY <1>1, <1>2, <1>3, <1>4, <1>5

\* The seconds and the nanoseconds of a target, put together.
LEMMA TargetRounds ==
  \A w, v, n, s \in Nat, c \in Nat \ {0} :
    n * c >= v * s /\ (n - 1) * c < v * s =>
      /\ (w * s + n) * c >= (w * c + v) * s
      /\ (w * s + n - 1) * c < (w * c + v) * s
<1> SUFFICES ASSUME NEW w \in Nat, NEW v \in Nat, NEW n \in Nat, NEW s \in Nat,
                    NEW c \in Nat \ {0}, n * c >= v * s, (n - 1) * c < v * s
             PROVE  /\ (w * s + n) * c >= (w * c + v) * s
                    /\ (w * s + n - 1) * c < (w * c + v) * s
  OBVIOUS
<1>1. PICK m \in Nat : m = (w * s) * c
  BY ProductType, Zenon
<1>2. PICK x \in Nat : x = n * c
  BY ProductType, Zenon
<1>3. PICK y \in Nat : y = v * s
  BY ProductType, Zenon
<1>4. (w * s + n) * c = m + x /\ (w * s + n - 1) * c = m + (x - c)
  BY <1>1, <1>2
<1>5. (w * c + v) * s = m + y
  BY <1>1, <1>3
<1>6. (n - 1) * c = x - c
  BY <1>2
<1> QED
  BY <1>2, <1>3, <1>4, <1>5, <1>6

\* clockTarget takes exactly the decimals ROS time can hold, and returns the
\* least number of nanoseconds that is not before the text it was given.
THEOREM TargetMeans ==
  ASSUME NEW value \in Seq(Nat)
  PROVE  /\ clockTarget(value) \in Nat \cup {Invalid}
         /\ Scale(value) \in Nat \ {0} /\ Digits(value) \in Nat /\ Second \in Nat \ {0}
         /\ clockTarget(value) # Invalid <=>
              IsDecimal(value) /\ Digits(value) <= UINT32_MAX * Scale(value)
         /\ clockTarget(value) # Invalid =>
              /\ clockTarget(value) * Scale(value) >= Digits(value) * Second
              /\ (clockTarget(value) - 1) * Scale(value) < Digits(value) * Second
<1>1. PICK w \in Seq(Nat) : w = Whole(value)
  BY Parts, Zenon
<1>2. PICK f \in Seq(Nat) : f = Fraction(value)
  BY Parts, Zenon
<1>3. PICK c \in Nat \ {0} : c = Scale(value) /\ c = Power[Len(f)]
  <2>1. Len(f) \in Nat
    OBVIOUS
  <2> QED
    BY <1>2, <2>1, PowerType, Zenon DEF Scale
<1>4. PICK S \in Nat \ {0} : S = Second
  BY ScaleAssumption, PowerType, Zenon DEF Second
<1>5. ASSUME NEW s \in Seq(Nat) PROVE Digits(s) \in Nat
  <2>1. Len(s) \in 0..Len(s)
    OBVIOUS
  <2>2. digitsUpTo(s)[Len(s)] \in Nat
    BY <2>1, DigitsStep, Zenon
  <2> QED
    BY <2>2, Zenon DEF Digits
<1>6. PICK x \in Nat : x = Digits(w)
  BY <1>5, Zenon
<1>7. PICK v \in Nat : v = Digits(f)
  BY <1>5, Zenon
<1>8. Digits(value) \in Nat
  BY <1>5, Zenon
<1> DEFINE WholeDigits == \A i \in DOMAIN w : IsDigit(w[i])
           FractionDigit == \A i \in DOMAIN f : IsDigit(f[i])
<1>9. Seconds(value) = IF WholeDigits /\ x <= UINT32_MAX THEN x ELSE Invalid
  <2>1. Len(w) \in 0..Len(w) /\ DOMAIN w = 1..Len(w)
    OBVIOUS
  <2>2. secondsAfter(w)[Len(w)] =
          IF (\A i \in 1..Len(w) : IsDigit(w[i])) /\ digitsUpTo(w)[Len(w)] <= UINT32_MAX
          THEN digitsUpTo(w)[Len(w)] ELSE Invalid
    BY <2>1, SecondsMean, Zenon
  <2>3. digitsUpTo(w)[Len(w)] = x
    BY <1>6, Zenon DEF Digits
  <2>4. Seconds(value) = secondsAfter(w)[Len(w)]
    BY <1>1, Zenon DEF Seconds
  <2> QED
    BY <2>1, <2>2, <2>3, <2>4, Zenon
<1>10. IsDecimal(value) <=>
         /\ w # <<>> /\ Len(value) <= MaxLength /\ WholeDigits
         /\ Point(value) # 0 => f # <<>>
         /\ FractionDigit
  BY <1>1, <1>2, DecimalMeans, Zenon
<1>11. clockTarget(value) =
         IF \/ w = <<>> \/ Len(value) > MaxLength
            \/ Seconds(value) = Invalid
            \/ Point(value) # 0 /\ f = <<>>
            \/ ~FractionDigit
            \/ Seconds(value) = UINT32_MAX /\ Nanos(f) # 0
         THEN Invalid ELSE Seconds(value) * Second + Nanos(f)
  BY <1>1, <1>2, Zenon DEF clockTarget
<1>12. Len(value) \in Nat /\ UINT32_MAX \in Nat /\ MaxLength \in Nat
  BY ScaleAssumption
<1>13. x # Invalid
  BY DEF Invalid
<1>14. CASE ~IsDecimal(value)
  <2>1. clockTarget(value) = Invalid
    <3> HIDE DEF WholeDigits, FractionDigit
    <3> QED
      BY <1>9, <1>10, <1>11, <1>12, <1>14
  <2> QED
    BY <1>3, <1>4, <1>8, <1>14, <2>1, Zenon
<1>15. CASE IsDecimal(value)
  <2>1. /\ w # <<>> /\ Len(value) <= MaxLength /\ WholeDigits
        /\ Point(value) # 0 => f # <<>>
        /\ FractionDigit
    BY <1>10, <1>15, Zenon
  <2>2. Digits(value) = x * c + v
    BY <1>1, <1>2, <1>3, <1>6, <1>7, <2>1, Joined, Zenon
  <2>3. v < c
    <3>1. Len(f) \in 0..Len(f)
      OBVIOUS
    <3>2. digitsUpTo(f)[Len(f)] < Power[Len(f)]
      BY <2>1, <3>1, DigitsBound, Zenon
    <3> QED
      BY <1>3, <1>7, <3>2, Zenon DEF Digits
  <2>4. PICK n \in Nat : /\ n = Nanos(f) /\ (n = 0 <=> v = 0)
                         /\ n * c >= v * S /\ (n - 1) * c < v * S
    BY <1>3, <1>4, <1>7, <2>1, FractionMeans, Zenon
  <2>5. x * c + v <= UINT32_MAX * c <=> x < UINT32_MAX \/ (x = UINT32_MAX /\ v = 0)
    BY <1>12, <2>3, WithinBound, Zenon
  <2>6. CASE x < UINT32_MAX \/ (x = UINT32_MAX /\ v = 0)
    <3>1. Seconds(value) = x
      BY <1>9, <1>12, <2>1, <2>6
    <3>2. clockTarget(value) = x * S + n
      <4>1. /\ ~(w = <<>>) /\ ~(Len(value) > MaxLength) /\ ~(Seconds(value) = Invalid)
            /\ ~(Point(value) # 0 /\ f = <<>>)
        BY <1>12, <1>13, <2>1, <3>1
      <4>2. ~(Seconds(value) = UINT32_MAX /\ Nanos(f) # 0)
        BY <1>12, <2>4, <2>6, <3>1
      <4>3. clockTarget(value) = Seconds(value) * Second + Nanos(f)
        BY <1>11, <2>1, <4>1, <4>2, Zenon
      <4> QED
        BY <1>4, <2>4, <3>1, <4>3, Zenon
    <3>3. x * S + n \in Nat /\ x * S + n # Invalid
      <4>1. PICK y \in Nat : y = x * S
        BY ProductType, Zenon
      <4>2. y + n \in Nat /\ y + n # Invalid
        BY DEF Invalid
      <4> QED
        BY <4>1, <4>2, Zenon
    <3>4. /\ (x * S + n) * c >= (x * c + v) * S
          /\ (x * S + n - 1) * c < (x * c + v) * S
      BY <2>4, TargetRounds, Zenon
    <3> QED
      BY <1>3, <1>4, <1>8, <1>15, <2>2, <2>5, <2>6, <3>2, <3>3, <3>4
  <2>7. CASE ~(x < UINT32_MAX \/ (x = UINT32_MAX /\ v = 0))
    <3>1. Seconds(value) = Invalid \/ (Seconds(value) = UINT32_MAX /\ n # 0)
      BY <1>9, <1>12, <2>1, <2>4, <2>7, SMTT(30)
    <3>2. clockTarget(value) = Invalid
      BY <1>11, <2>4, <3>1, Zenon
    <3> QED
      BY <1>3, <1>4, <1>8, <2>2, <2>5, <2>7, <3>2, Zenon
  <2> QED
    BY <2>6, <2>7, Zenon
<1> QED
  BY <1>14, <1>15, Zenon

\* A stamp reaches the target exactly when it is not before the text.
LEMMA TargetReached ==
  \A x, d, s, t \in Nat, c \in Nat \ {0} :
    t * c >= d * s /\ (t - 1) * c < d * s => (x * c >= d * s <=> x >= t)
<1> SUFFICES ASSUME NEW x \in Nat, NEW d \in Nat, NEW s \in Nat, NEW t \in Nat,
                    NEW c \in Nat \ {0}, t * c >= d * s, (t - 1) * c < d * s
             PROVE  x * c >= d * s <=> x >= t
  BY Zenon
<1>1. PICK m \in Nat : m = d * s
  BY ProductType, Zenon
<1>2. PICK y \in Nat : y = x * c
  BY ProductType, Zenon
<1>3. PICK z \in Nat : z = t * c
  BY ProductType, Zenon
<1>4. (t - 1) * c = z - c
  BY <1>3
<1>5. x >= t => z <= y
  BY <1>2, <1>3, ProductOrder
<1>6. ~(x >= t) => y <= z - c
  <2>1. ~(x >= t) => x <= t - 1 /\ x \in Int /\ t - 1 \in Int
    OBVIOUS
  <2>2. ~(x >= t) => x * c <= (t - 1) * c
    BY <2>1, ProductOrder, Zenon
  <2> QED
    BY <1>2, <1>4, <2>2, Zenon
<1> QED
  BY <1>1, <1>2, <1>3, <1>4, <1>5, <1>6

-----------------------------------------------------------------------------
(* The clock wait.                                                         *)

\* Every step of the commands is one of the clock wait, or leaves it alone.
LEMMA WaitApart == [CommandsNext]_all_vars => [Waiting!Next]_wait_vars
BY Zenon DEF CommandsNext, RunRecorder, RunWait, RunProbe, all_vars

\* The target is read once; the stamps accepted never go back, all but the
\* last are before the target, and reached says whether the last one is not.
\* A turn that gets past Judge saw at most one publisher.
WaitInv ==
  /\ text \in Texts
  /\ wait_at = "parse" => target = Waiting!Unread /\ stamps = <<>>
  /\ target \in {Waiting!Unread, Waiting!clockTarget(text)}
  /\ wait_at \notin {"parse", "exit"} => target \in Nat
  /\ stamps \in Seq(Nat)
  /\ stamps # <<>> => target \in Nat
  /\ \A i \in 1..Len(stamps) : \A j \in 1..i : stamps[j] <= stamps[i]
  /\ previous = IF stamps = <<>> THEN Waiting!Invalid ELSE stamps[Len(stamps)]
  /\ reached => stamps # <<>>
  /\ \A i \in 1..Len(stamps) : stamps[i] >= target <=> reached /\ i = Len(stamps)
  /\ publishers \in Nat /\ connected \in Nat
  /\ wait_at \notin {"judge", "exit"} => publishers <= 1
  /\ wait_at # "exit" => wait_exit = -1
  /\ wait_exit = 0 => reached /\ publishers <= 1

\* The target that the wait reads is the one of the theorems above.
LEMMA SameTarget ==
  ASSUME NEW value
  PROVE  /\ Waiting!Invalid = Invalid /\ Waiting!Second = Second
         /\ Waiting!clockTarget(value) = clockTarget(value)
         /\ Waiting!IsDecimal(value) <=> IsDecimal(value)
         /\ Waiting!Digits(value) = Digits(value) /\ Waiting!Scale(value) = Scale(value)
<1>1. Waiting!Power = Power /\ Waiting!Second = Second
  BY Zenon DEF Waiting!Power, Power, Waiting!Second, Second
<1>2. /\ Waiting!Invalid = Invalid /\ Waiting!Dot = Dot
      /\ \A c : Waiting!IsDigit(c) <=> IsDigit(c)
  BY Zenon DEF Waiting!Invalid, Invalid, Waiting!Dot, Dot, Waiting!IsDigit, IsDigit
<1>3. Waiting!Point(value) = Point(value)
  BY Zenon DEF Waiting!Point, Point, Waiting!Dot, Dot
<1>4. Waiting!Whole(value) = Whole(value) /\ Waiting!Fraction(value) = Fraction(value)
  BY <1>3, Zenon DEF Waiting!Whole, Whole, Waiting!Fraction, Fraction
<1>5. \A w : Waiting!secondsAfter(w) = secondsAfter(w)
  BY Zenon DEF Waiting!secondsAfter, secondsAfter, Waiting!NextSecond, NextSecond,
     Waiting!IsDigit, IsDigit, Waiting!Invalid, Invalid
<1>6. \A f : Waiting!nanosAfter(f) = nanosAfter(f)
  BY Zenon DEF Waiting!nanosAfter, nanosAfter
<1>7. Waiting!Seconds(value) = Seconds(value)
  BY <1>4, <1>5, Zenon DEF Waiting!Seconds, Seconds
<1>8. \A f : Waiting!Nanos(f) = Nanos(f)
  BY <1>6, Zenon DEF Waiting!Nanos, Nanos
<1>9. Waiting!clockTarget(value) = clockTarget(value)
  BY <1>1, <1>2, <1>3, <1>4, <1>7, <1>8, Zenon DEF Waiting!clockTarget, clockTarget
<1>10. Waiting!IsDecimal(value) <=> IsDecimal(value)
  BY <1>2, Zenon DEF Waiting!IsDecimal, IsDecimal
<1>11. Waiting!Digits(value) = Digits(value)
  BY Zenon DEF Waiting!Digits, Digits, Waiting!digitsUpTo, digitsUpTo, Waiting!Dot, Dot
<1>12. Waiting!Scale(value) = Scale(value)
  BY <1>1, <1>4, Zenon DEF Waiting!Scale, Scale
<1> QED
  BY <1>1, <1>2, <1>9, <1>10, <1>11, <1>12, Zenon

\* So what clockTarget means holds of it.
LEMMA WaitTarget ==
  ASSUME NEW value \in Seq(Nat)
  PROVE  /\ Waiting!clockTarget(value) \in Nat \cup {Waiting!Invalid}
         /\ Waiting!Scale(value) \in Nat \ {0} /\ Waiting!Digits(value) \in Nat
         /\ Waiting!Second \in Nat \ {0}
         /\ Waiting!clockTarget(value) # Waiting!Invalid <=>
              /\ Waiting!IsDecimal(value)
              /\ Waiting!Digits(value) <= UINT32_MAX * Waiting!Scale(value)
         /\ Waiting!clockTarget(value) # Waiting!Invalid =>
              /\ Waiting!clockTarget(value) * Waiting!Scale(value)
                   >= Waiting!Digits(value) * Waiting!Second
              /\ (Waiting!clockTarget(value) - 1) * Waiting!Scale(value)
                   < Waiting!Digits(value) * Waiting!Second
BY SameTarget, TargetMeans, Zenon

\* What WaitInv says of the target and the stamps, and of the rest.
StampsInv ==
  /\ stamps \in Seq(Nat)
  /\ stamps # <<>> => target \in Nat
  /\ \A i \in 1..Len(stamps) : \A j \in 1..i : stamps[j] <= stamps[i]
  /\ previous = IF stamps = <<>> THEN Waiting!Invalid ELSE stamps[Len(stamps)]
  /\ reached => stamps # <<>>
  /\ \A i \in 1..Len(stamps) : stamps[i] >= target <=> reached /\ i = Len(stamps)

TurnInv ==
  /\ text \in Texts
  /\ wait_at = "parse" => target = Waiting!Unread /\ stamps = <<>>
  /\ target \in {Waiting!Unread, Waiting!clockTarget(text)}
  /\ wait_at \notin {"parse", "exit"} => target \in Nat
  /\ publishers \in Nat /\ connected \in Nat
  /\ wait_at \notin {"judge", "exit"} => publishers <= 1
  /\ wait_at # "exit" => wait_exit = -1
  /\ wait_exit = 0 => reached /\ publishers <= 1

\* The two parts make the whole.
LEMMA WaitParts == WaitInv <=> StampsInv /\ TurnInv
BY Zenon DEF WaitInv, StampsInv, TurnInv

\* The same in the next state.
LEMMA WaitPartsNext == WaitInv' <=> StampsInv' /\ TurnInv'
BY Zenon DEF WaitInv, StampsInv, TurnInv

\* A stamp that is accepted.
LEMMA StampTaken ==
  ASSUME StampsInv, ~reached, target \in Nat, NEW stamp \in Nat, ~(stamp < previous),
         UNCHANGED target, previous' = stamp, reached' = (stamp >= target),
         stamps' = Append(stamps, stamp)
  PROVE  StampsInv'
<1>1. PICK n \in Nat : n = Len(stamps)
  BY DEF StampsInv
<1>2. /\ stamps' \in Seq(Nat) /\ Len(stamps') = n + 1 /\ stamps'[n + 1] = stamp
      /\ \A i \in 1..n : stamps'[i] = stamps[i] /\ stamps[i] \in Nat
      /\ stamps' # <<>>
  BY <1>1 DEF StampsInv
<1>3. \A i \in 1..n : stamps[i] <= stamp
  <2>1. CASE n = 0
    BY <2>1
  <2>2. CASE n # 0
    <3>1. n \in 1..n /\ \A i \in 1..n : i \in 1..n
      BY <2>2
    <3>2. stamps # <<>>
      BY <1>1, <2>2
    <3>3. previous = stamps[n] /\ stamps[n] \in Nat
      BY <1>1, <1>2, <3>1, <3>2, Zenon DEF StampsInv
    <3>4. \A i \in 1..n : stamps[i] <= stamps[n]
      BY <1>1, <3>1, Zenon DEF StampsInv
    <3> QED
      BY <1>2, <3>3, <3>4
  <2> QED
    BY <2>1, <2>2, Zenon
<1>4. \A i \in 1..n : ~(stamps[i] >= target)
  BY <1>1, Zenon DEF StampsInv
<1>5. ASSUME NEW i \in 1 .. n + 1, NEW j \in 1..i PROVE stamps'[j] <= stamps'[i]
  <2>1. CASE i \in 1..n
    <3>1. j \in 1..n
      BY <2>1
    <3>2. stamps[j] <= stamps[i]
      BY <1>1, <2>1, Zenon DEF StampsInv
    <3> QED
      BY <1>2, <2>1, <3>1, <3>2, Zenon
  <2>2. CASE i = n + 1 /\ j \in 1..n
    BY <1>2, <1>3, <2>2, Zenon
  <2>3. CASE i = n + 1 /\ j = n + 1
    BY <1>2, <2>3
  <2>4. i \in 1..n \/ (i = n + 1 /\ j \in 1..n) \/ (i = n + 1 /\ j = n + 1)
    OBVIOUS
  <2> QED
    BY <2>1, <2>2, <2>3, <2>4, Zenon
<1>6. ASSUME NEW i \in 1 .. n + 1 PROVE stamps'[i] >= target' <=> reached' /\ i = n + 1
  <2>1. CASE i \in 1..n
    <3>1. i # n + 1
      BY <2>1
    <3> QED
      BY <1>2, <1>4, <2>1, <3>1, Zenon
  <2>2. CASE i = n + 1
    BY <1>2, <2>2, Zenon
  <2>3. i \in 1..n \/ i = n + 1
    OBVIOUS
  <2> QED
    BY <2>1, <2>2, <2>3, Zenon
<1> QED
  BY <1>2, <1>5, <1>6, Zenon DEF StampsInv

\* A step that takes no stamp.
LEMMA StampsSame ==
  ASSUME StampsInv, UNCHANGED <<target, previous, reached, stamps>>
  PROVE  StampsInv'
BY Zenon DEF StampsInv

\* WaitInv holds at every step.
LEMMA WaitStep ==
  ASSUME WaitInv, [Waiting!Next]_wait_vars
  PROVE  WaitInv'
<1>0. StampsInv /\ TurnInv
  BY WaitParts, Zenon
<1>1. CASE Waiting!Parse
  <2>1. /\ wait_at = "parse" /\ wait_exit = -1 /\ target = Waiting!Unread /\ stamps = <<>>
        /\ publishers \in Nat /\ publishers <= 1 /\ connected \in Nat
        /\ UNCHANGED <<text, previous, reached, stamps, publishers, connected>>
    BY <1>0, <1>1, Zenon DEF Waiting!Parse, TurnInv, Waiting!waitVars, Waiting!surroundings
  <2>2. text \in Texts /\ text \in Seq(Nat)
    BY <1>0, TextsAssumption, Zenon DEF TurnInv
  <2>3. StampsInv'
    <3>1. stamps' = <<>> /\ ~reached'
      BY <1>0, <2>1, Zenon DEF StampsInv
    <3>2. previous' = Waiting!Invalid
      BY <1>0, <2>1, Zenon DEF StampsInv
    <3>3. Len(stamps') = 0 /\ stamps' \in Seq(Nat)
      BY <3>1
    <3> QED
      BY <3>1, <3>2, <3>3 DEF StampsInv
  <2>4. ASSUME wait_at' = "exit" /\ wait_exit' = 1 /\ target' = target
        PROVE  TurnInv'
    <3>1. wait_at' = "exit" /\ wait_exit' # 0
      BY <2>4
    <3> QED
      BY <2>1, <2>2, <2>4, <3>1, Zenon DEF TurnInv
  <2>5. ASSUME target' = Waiting!clockTarget(text) /\ target' = Waiting!Invalid
                 /\ wait_at' = "exit" /\ wait_exit' = 1
        PROVE  TurnInv'
    <3>1. wait_at' = "exit" /\ wait_exit' # 0
      BY <2>5
    <3> QED
      BY <2>1, <2>2, <2>5, <3>1, Zenon DEF TurnInv
  <2>6. ASSUME target' = Waiting!clockTarget(text) /\ target' # Waiting!Invalid
                 /\ wait_at' = "start" /\ wait_exit' = wait_exit
        PROVE  TurnInv'
    <3>1. target' \in Nat
      BY <2>2, <2>6, WaitTarget, Zenon
    <3> QED
      <4>1. wait_exit' # 0 /\ wait_exit' = -1
        BY <2>1, <2>6
      <4> QED
        BY <2>1, <2>2, <2>6, <3>1, <4>1, Zenon DEF TurnInv
  <2>7. \/ wait_at' = "exit" /\ wait_exit' = 1 /\ target' = target
        \/ target' = Waiting!clockTarget(text) /\ target' = Waiting!Invalid
             /\ wait_at' = "exit" /\ wait_exit' = 1
        \/ target' = Waiting!clockTarget(text) /\ target' # Waiting!Invalid
             /\ wait_at' = "start" /\ wait_exit' = wait_exit
    BY <1>1, Zenon DEF Waiting!Parse, Waiting!Return, Waiting!Goto
  <2> QED
    BY <2>3, <2>4, <2>5, <2>6, <2>7, WaitPartsNext, Zenon
<1>2. CASE \/ Waiting!StartRos \/ Waiting!Subscribe \/ Waiting!Look \/ Waiting!Judge
           \/ Waiting!SpinEnds \/ Waiting!Finish
  <2>1. UNCHANGED <<text, target, previous, reached, stamps, wait_failure, connected>>
    BY <1>2, Zenon DEF Waiting!StartRos, Waiting!Subscribe, Waiting!Look, Waiting!Judge,
       Waiting!SpinEnds, Waiting!Finish, Waiting!waitVars, Waiting!surroundings
  <2>2. StampsInv'
    BY <1>0, <2>1, StampsSame, Zenon
  <2>3. text \in Texts /\ target \in {Waiting!Unread, Waiting!clockTarget(text)}
        /\ publishers \in Nat /\ connected \in Nat /\ wait_at # "parse" /\ wait_at # "exit"
        /\ target \in Nat /\ wait_exit = -1 /\ (wait_at # "judge" => publishers <= 1)
    BY <1>0, <1>2, Zenon
       DEF TurnInv, Waiting!StartRos, Waiting!Subscribe, Waiting!Look, Waiting!Judge,
       Waiting!SpinEnds, Waiting!Finish
  <2>4. /\ wait_at' # "parse" /\ publishers' \in Nat
        /\ wait_at' \notin {"judge", "exit"} => publishers' <= 1
        /\ wait_at' # "exit" => wait_exit' = -1
        /\ wait_exit' = 0 => reached /\ publishers' <= 1
    <3>1. CASE Waiting!StartRos \/ Waiting!Subscribe
      BY <2>3, <3>1 DEF Waiting!StartRos, Waiting!Subscribe, Waiting!Goto
    <3>2. CASE Waiting!Look
      BY <2>3, <3>2 DEF Waiting!Look, Waiting!Goto
    <3>3. CASE Waiting!Judge
      BY <2>3, <3>3 DEF Waiting!Judge, Waiting!Goto, Waiting!Return, Waiting!Alone
    <3>4. CASE Waiting!SpinEnds
      BY <2>3, <3>4 DEF Waiting!SpinEnds, Waiting!Goto
    <3>5. CASE Waiting!Finish
      BY <2>3, <3>5 DEF Waiting!Finish, Waiting!Return
    <3> QED
      BY <1>2, <3>1, <3>2, <3>3, <3>4, <3>5, Zenon
  <2>5. TurnInv'
    BY <2>1, <2>3, <2>4, Zenon DEF TurnInv
  <2> QED
    BY <2>2, <2>5, WaitPartsNext, Zenon
<1>3. ASSUME NEW message \in Stamps, Waiting!Receive(message) PROVE WaitInv'
  <2>1. /\ wait_at = "spin" /\ ~reached
        /\ UNCHANGED <<text, wait_at, target, publishers, connected, wait_exit>>
    BY <1>3, Zenon DEF Waiting!Receive, Waiting!surroundings
  <2>2. target \in Nat /\ wait_exit = -1
    BY <1>0, <2>1, Zenon DEF TurnInv
  <2>3. TurnInv'
    <3>1. stamps = <<>> \/ stamps # <<>>
      BY Zenon
    <3> QED
      BY <1>0, <2>1, <2>2, Zenon DEF TurnInv
  <2>4. PICK stamp \in Nat : stamp = message.sec * Waiting!Second + message.nsec
    <3>1. message.sec \in Nat /\ message.nsec \in Nat /\ Waiting!Second \in Nat
      BY TextsAssumption, ScaleAssumption, PowerType, SameTarget, Zenon DEF Second
    <3>2. PICK x \in Nat : x = message.sec * Waiting!Second
      BY <3>1, ProductType, Zenon
    <3> QED
      BY <3>1, <3>2
  <2>5. \/ UNCHANGED <<previous, reached, stamps>>
        \/ /\ ~(stamp < previous) /\ previous' = stamp /\ reached' = (stamp >= target)
           /\ stamps' = Append(stamps, stamp)
    BY <1>3, <2>4, Zenon DEF Waiting!Receive, Waiting!Throw, Waiting!observe
  <2>6. StampsInv'
    BY <1>0, <2>1, <2>2, <2>5, StampTaken, StampsSame, Zenon
  <2> QED
    BY <2>3, <2>6, WaitPartsNext, Zenon
<1>4. CASE \/ Waiting!PublishersChange \/ Waiting!DeadlinePasses \/ Waiting!requestStop
           \/ Waiting!RosShutdown \/ UNCHANGED wait_vars
  <2>1. /\ UNCHANGED <<text, wait_at, target, previous, reached, stamps, publishers, wait_exit>>
        /\ connected' = connected \/ connected' \in 0..2
    BY <1>4, Zenon DEF Waiting!PublishersChange, Waiting!DeadlinePasses, Waiting!requestStop,
       Waiting!RosShutdown, Waiting!quiet, Waiting!waitVars, wait_vars
  <2>2. StampsInv'
    BY <1>0, <2>1, StampsSame, Zenon
  <2>3. connected' \in Nat
    BY <1>0, <2>1 DEF TurnInv
  <2>4. TurnInv'
    BY <1>0, <2>1, <2>3, Zenon DEF TurnInv
  <2> QED
    BY <2>2, <2>4, WaitPartsNext, Zenon
<1> QED
  BY <1>1, <1>2, <1>3, <1>4, Zenon
     DEF Waiting!Next, Waiting!Main, Waiting!Work, Waiting!Register

\* clockTarget takes exactly the decimals ROS time can hold and rounds them up
\* to the next nanosecond, and the clock wait succeeds exactly at the first
\* sample that is not before the target as it was written: for every base,
\* number of digits and largest second, and for samples, publishers, signals
\* and the deadline in any order.
THEOREM ClockWaitIsExact == CommandsSpec => []ClockWaitExact
<1>1. CommandsInit => WaitInv
  <2> SUFFICES ASSUME CommandsInit PROVE WaitInv
    BY Zenon
  <2>1. /\ text \in Texts /\ wait_at = "parse" /\ target = Waiting!Unread
        /\ previous = Waiting!Invalid /\ reached = FALSE /\ publishers = 0
        /\ connected = 0 /\ stamps = <<>> /\ wait_exit = -1
    BY Zenon DEF CommandsInit, Waiting!Init
  <2>2. Len(stamps) = 0 /\ stamps \in Seq(Nat)
    BY <2>1
  <2> QED
    BY <2>1, <2>2 DEF WaitInv
<1>2. WaitInv /\ [CommandsNext]_all_vars => WaitInv'
  BY WaitApart, WaitStep, Zenon
<1>3. WaitInv => ClockWaitExact
  <2> SUFFICES ASSUME WaitInv PROVE Waiting!TargetExact /\ Waiting!SuccessIsReal
    BY Zenon DEF ClockWaitExact
  <2>0. StampsInv /\ TurnInv
    BY WaitParts, Zenon
  <2>1. text \in Seq(Nat)
    BY <2>0, TextsAssumption, Zenon DEF TurnInv
  <2>2. Waiting!TargetExact
    <3> SUFFICES ASSUME target # Waiting!Unread
                 PROVE  /\ target # Waiting!Invalid <=>
                             /\ Waiting!IsDecimal(text)
                             /\ Waiting!Digits(text) <= UINT32_MAX * Waiting!Scale(text)
                        /\ target # Waiting!Invalid =>
                             /\ target * Waiting!Scale(text) >= Waiting!Digits(text) * Waiting!Second
                             /\ (target - 1) * Waiting!Scale(text)
                                  < Waiting!Digits(text) * Waiting!Second
      BY Zenon DEF Waiting!TargetExact
    <3>1. target = Waiting!clockTarget(text)
      BY <2>0, Zenon DEF TurnInv
    <3> QED
      BY <2>1, <3>1, WaitTarget, Zenon
  <2>3. ASSUME wait_exit = 0
        PROVE  /\ stamps # <<>> /\ publishers <= 1
               /\ \A i \in DOMAIN stamps :
                    /\ stamps[i] * Waiting!Scale(text) >= Waiting!Digits(text) * Waiting!Second
                         <=> i = Len(stamps)
                    /\ \A j \in 1..i : stamps[j] <= stamps[i]
    <3>1. reached /\ publishers <= 1
      BY <2>0, <2>3, Zenon DEF TurnInv
    <3>2. stamps # <<>> /\ target \in Nat /\ stamps \in Seq(Nat)
      BY <2>0, <3>1, Zenon DEF StampsInv
    <3>3. target = Waiting!clockTarget(text) /\ target # Waiting!Invalid
      BY <2>0, <3>2 DEF TurnInv, Waiting!Unread, Waiting!Invalid
    <3>4. /\ Waiting!Scale(text) \in Nat \ {0} /\ Waiting!Digits(text) \in Nat
          /\ Waiting!Second \in Nat
          /\ target * Waiting!Scale(text) >= Waiting!Digits(text) * Waiting!Second
          /\ (target - 1) * Waiting!Scale(text) < Waiting!Digits(text) * Waiting!Second
      <4>1. Waiting!Second \in Nat \ {0} => Waiting!Second \in Nat
        BY Zenon
      <4> QED
        BY <2>1, <3>3, <4>1, WaitTarget, Zenon
    <3>5. DOMAIN stamps = 1..Len(stamps) /\ \A i \in 1..Len(stamps) : stamps[i] \in Nat
      BY <3>2
    <3>6. ASSUME NEW i \in 1..Len(stamps)
          PROVE  /\ stamps[i] * Waiting!Scale(text) >= Waiting!Digits(text) * Waiting!Second
                      <=> i = Len(stamps)
                 /\ \A j \in 1..i : stamps[j] <= stamps[i]
      <4>1. stamps[i] * Waiting!Scale(text) >= Waiting!Digits(text) * Waiting!Second
              <=> stamps[i] >= target
        BY <3>2, <3>4, <3>5, TargetReached, Zenon
      <4>2. stamps[i] >= target <=> i = Len(stamps)
        BY <2>0, <3>1, Zenon DEF StampsInv
      <4>3. \A j \in 1..i : stamps[j] <= stamps[i]
        BY <2>0, Zenon DEF StampsInv
      <4> QED
        BY <4>1, <4>2, <4>3, Zenon
    <3> QED
      BY <3>1, <3>2, <3>5, <3>6, Zenon
  <2>4. Waiting!SuccessIsReal
    BY <2>3, Zenon DEF Waiting!SuccessIsReal
  <2> QED
    BY <2>2, <2>4, Zenon
<1> QED
  BY <1>1, <1>2, <1>3, PTL DEF CommandsSpec
==============================================================================
