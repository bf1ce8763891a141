-------------------------- MODULE ExprFilterProofs --------------------------
(***************************************************************************)
(* Theorems about ExprFilter and Interval, for integers of any width: what *)
(* the filter writes is well typed, bounds are bounds, and but for one     *)
(* rule answers are worth what was asked for.                              *)
(***************************************************************************)
EXTENDS ExprFilter, FiniteSetTheorems, WellFoundedInduction, TLAPS

-----------------------------------------------------------------------------
(* Induction, with a set of numbers for the property.                      *)

\* A set of numbers has a least one.
LEMMA NatLeast ==
  ASSUME NEW T \in SUBSET Nat, T # {}
  PROVE  \E x \in T : \A y \in T : x <= y
<1> DEFINE R == OpToRel(<, Nat)
<1>1. IsWellFoundedOn(R, Nat)
  BY NatLessThanWellFounded, Zenon
<1>2. \A x, y \in Nat : x < y => <<x, y>> \in R
  BY DEF OpToRel
<1> HIDE DEF R
<1>3. PICK x \in T : \A y \in T : ~(<<y, x>> \in R)
  BY <1>1, WFMin
<1>4. ASSUME NEW y \in T PROVE x <= y
  <2>1. x \in Nat /\ y \in Nat
    OBVIOUS
  <2>2. ~(y < x)
    BY <1>2, <1>3, <2>1
  <2> QED
    BY <2>1, <2>2
<1> QED
  BY <1>4

\* A set with 0 and the successors of its members has all numbers.
LEMMA NatInduct ==
  ASSUME NEW S, 0 \in S, \A n \in Nat : n \in S => n + 1 \in S
  PROVE  Nat \subseteq S
<1> DEFINE T == Nat \ S
<1> SUFFICES ASSUME T # {} PROVE FALSE
  OBVIOUS
<1>1. PICK x \in T : \A y \in T : x <= y
  BY NatLeast
<1>2. x # 0 /\ x - 1 \in Nat
  BY <1>1
<1>3. x - 1 \in S
  BY <1>1, <1>2
<1> QED
  BY <1>1, <1>2, <1>3

-----------------------------------------------------------------------------
(* Powers of two, and division.                                            *)

\* Powers of two, as the numbers of subsets.
LEMMA Doubled ==
  ASSUME NEW n \in Nat
  PROVE  2 ^ n \in Nat \ {0} /\ 2 ^ (n + 1) = 2 * 2 ^ n
<1> DEFINE S == 1 .. n
           T == 1 .. n + 1
           A == SUBSET S
           B == {X \cup {n + 1} : X \in A}
<1>1. IsFiniteSet(S) /\ IsFiniteSet(T) /\ Cardinality(S) = n /\ Cardinality(T) = n + 1
  BY FS_Interval
<1>2. /\ IsFiniteSet(A) /\ Cardinality(A) = 2 ^ n /\ Cardinality(A) \in Nat
      /\ Cardinality(SUBSET T) = 2 ^ (n + 1)
  BY <1>1, FS_SUBSET, FS_CardinalityType
<1>3. SUBSET T = A \cup B
  <2>1. ASSUME NEW X \in SUBSET T PROVE X \in A \cup B
    <3>1. CASE n + 1 \in X
      <4>1. X \ {n + 1} \in A /\ X = (X \ {n + 1}) \cup {n + 1}
        BY <3>1
      <4> QED
        BY <4>1
    <3>2. CASE n + 1 \notin X
      <4>1. \A y \in X : y \in S
        BY <3>2
      <4> QED
        BY <4>1
    <3> QED
      BY <3>1, <3>2
  <2>2. S \subseteq T /\ n + 1 \in T
    OBVIOUS
  <2>3. ASSUME NEW X \in A \cup B PROVE X \in SUBSET T
    BY <2>2
  <2> QED
    BY <2>1, <2>3
<1>4. A \cap B = {}
  <2>1. n + 1 \notin S
    OBVIOUS
  <2> QED
    BY <2>1
<1>5. ExistsBijection(A, B)
  <2> DEFINE f == [X \in A |-> X \cup {n + 1}]
  <2>1. f \in [A -> B]
    OBVIOUS
  <2>2. \A X \in A : n + 1 \notin X
    OBVIOUS
  <2>3. \A X, Y \in A : X \cup {n + 1} = Y \cup {n + 1} => X = Y
    <3> SUFFICES ASSUME NEW X \in A, NEW Y \in A, X \cup {n + 1} = Y \cup {n + 1}
                 PROVE  X = Y
      OBVIOUS
    <3>1. X = (X \cup {n + 1}) \ {n + 1} /\ Y = (Y \cup {n + 1}) \ {n + 1}
      BY <2>2
    <3> QED
      BY <3>1
  <2>4. \A X \in A : f[X] = X \cup {n + 1}
    OBVIOUS
  <2> HIDE DEF f, A
  <2>5. IsInjective(f)
    BY <2>1, <2>3, <2>4 DEF IsInjective
  <2>6. \A Y \in B : \E X \in A : f[X] = Y
    BY <2>4
  <2>7. f \in Injection(A, B)
    BY <2>1, <2>5 DEF Injection
  <2>8. f \in Surjection(A, B)
    BY <2>1, <2>6 DEF Surjection
  <2> QED
    BY <2>7, <2>8 DEF ExistsBijection, Bijection
<1> HIDE DEF A, B
<1>6. IsFiniteSet(B) /\ Cardinality(B) = Cardinality(A)
  BY <1>2, <1>5, FS_Bijection
<1>7. Cardinality(A \cup B) = Cardinality(A) + Cardinality(B) - Cardinality(A \cap B)
  BY <1>2, <1>6, FS_Union
<1>8. Cardinality(A \cup B) = 2 * Cardinality(A)
  <2>1. Cardinality(A \cap B) = 0
    BY <1>4, FS_EmptySet
  <2>2. Cardinality(A) \in Int
    BY <1>2
  <2> QED
    BY <1>6, <1>7, <2>1, <2>2
<1>9. {} \in A
  BY DEF A
<1>10. Cardinality(A) # 0
  BY <1>2, <1>9, FS_EmptySet
<1> QED
  BY <1>2, <1>3, <1>8, <1>10

\* To begin with.
LEMMA PowerZero == 2 ^ 0 = 1
OBVIOUS

\* Powers of two, split at an exponent.
LEMMA PowerSum ==
  ASSUME NEW m \in Nat, NEW n \in Nat
  PROVE  2 ^ (m + n) = 2 ^ m * 2 ^ n
<1> DEFINE S == {i \in Nat : 2 ^ (m + i) = 2 ^ m * 2 ^ i}
<1>1. 0 \in S
  <2>1. 2 ^ m \in Int /\ m + 0 = m
    BY Doubled
  <2> QED
    BY <2>1, PowerZero
<1>2. ASSUME NEW i \in Nat, i \in S PROVE i + 1 \in S
  <2>1. 2 ^ (m + (i + 1)) = 2 * 2 ^ (m + i)
    <3>1. m + i \in Nat /\ m + (i + 1) = (m + i) + 1
      OBVIOUS
    <3> QED
      BY <3>1, Doubled
  <2>2. 2 ^ (i + 1) = 2 * 2 ^ i
    BY Doubled
  <2>3. PICK a \in Int, b \in Int : a = 2 ^ m /\ b = 2 ^ i
    BY Doubled
  <2>4. 2 ^ (m + i) = a * b
    BY <1>2, <2>3
  <2>5. 2 * (a * b) = a * (2 * b)
    OBVIOUS
  <2> QED
    BY <2>1, <2>2, <2>3, <2>4, <2>5
<1> HIDE DEF S
<1>3. n \in S
  BY <1>1, <1>2, NatInduct
<1> QED
  BY <1>3 DEF S

\* What division and remainder are.
LEMMA DivMod ==
  ASSUME NEW a \in Int, NEW d \in Nat \ {0}
  PROVE  /\ a \div d \in Int /\ a % d \in 0 .. d - 1
         /\ a = d * (a \div d) + (a % d)
OBVIOUS

\* Nothing else is a quotient and a remainder.
LEMMA DivUnique ==
  ASSUME NEW a \in Int, NEW d \in Nat \ {0}, NEW q \in Int, NEW r \in 0 .. d - 1,
         a = d * q + r
  PROVE  a \div d = q /\ a % d = r
OBVIOUS

\* Division keeps an order.
LEMMA DivMono ==
  ASSUME NEW a \in Int, NEW b \in Int, NEW d \in Nat \ {0}, a <= b
  PROVE  a \div d <= b \div d
OBVIOUS

\* Multiplication keeps an order, or reverses it.
LEMMA MulMono ==
  ASSUME NEW x \in Int, NEW y \in Int, NEW b \in Int, x <= y
  PROVE  /\ 0 <= b => x * b <= y * b
         /\ b <= 0 => y * b <= x * b
OBVIOUS

\* Dividing a number that lies between multiples of the divisor.
LEMMA DivBetween ==
  ASSUME NEW a \in Int, NEW d \in Nat \ {0}, NEW lo \in Int, NEW hi \in Int,
         d * lo <= a, a < d * hi
  PROVE  a \div d \in lo .. hi - 1
<1>1. (d * lo) \div d = lo
  BY DivUnique
<1>2. lo <= a \div d
  BY <1>1, DivMono, DivMod
<1>3. a \div d < hi
  <2>1. PICK q \in Int : q = a \div d /\ d * q <= a
    BY DivMod
  <2>2. ~(hi <= q)
    BY <2>1, MulMono
  <2> QED
    BY <2>1, <2>2
<1> QED
  BY <1>2, <1>3, DivMod

-----------------------------------------------------------------------------
(* Integers of w bits.                                                     *)

\* The least and the greatest.
LEMMA WidthOK ==
  ASSUME NEW w \in Nat \ {0}
  PROVE  /\ 2 ^ w \in Nat \ {0} /\ 2 ^ (w - 1) \in Nat \ {0}
         /\ 2 ^ w = 2 * 2 ^ (w - 1)
         /\ MinOf(w) \in Int /\ MaxOf(w) \in Int
         /\ MinOf(w) <= 0 /\ MinOf(w) < 0 /\ 0 <= MaxOf(w)
<1>1. w - 1 \in Nat /\ (w - 1) + 1 = w
  OBVIOUS
<1>2. /\ 2 ^ w \in Nat \ {0} /\ 2 ^ (w - 1) \in Nat \ {0}
      /\ 2 ^ w = 2 * 2 ^ (w - 1)
  BY <1>1, Doubled
<1> QED
  BY <1>2 DEF MinOf, MaxOf

\* Wrapping gives what fits, and leaves what fits alone.
LEMMA WrapOK ==
  ASSUME NEW w \in Nat \ {0}, NEW n \in Int
  PROVE  /\ Unsigned(n, w) \in 0 .. 2 ^ w - 1
         /\ Wrap(n, w) \in MinOf(w) .. MaxOf(w)
         /\ InWidth(n, w) => Wrap(n, w) = n
         /\ InWidth(n, w) /\ 0 <= n => Unsigned(n, w) = n
<1> PICK p \in Nat \ {0}, h \in Nat \ {0} :
      p = 2 ^ w /\ h = 2 ^ (w - 1) /\ p = 2 * h
  BY WidthOK
<1>1. Unsigned(n, w) = n % p
  BY DEF Unsigned
<1>2. n % p \in 0 .. p - 1
  BY DivMod
<1>3. MinOf(w) = -h /\ MaxOf(w) = h - 1
  BY DEF MinOf, MaxOf
<1>4. Wrap(n, w) = IF n % p > h - 1 THEN (n % p) - p ELSE n % p
  BY <1>1, <1>3 DEF Wrap
<1>5. 0 <= n /\ n < p => n % p = n
  OBVIOUS
<1>6. -p <= n /\ n < 0 => n % p = n + p
  OBVIOUS
<1>7. InWidth(n, w) <=> -h <= n /\ n <= h - 1
  BY <1>3 DEF InWidth
<1>8. Wrap(n, w) \in MinOf(w) .. MaxOf(w)
  BY <1>2, <1>3, <1>4
<1>9. InWidth(n, w) => Wrap(n, w) = n
  BY <1>4, <1>5, <1>6, <1>7
<1> QED
  BY <1>1, <1>2, <1>5, <1>7, <1>8, <1>9

\* A wider type has the values of a narrower one, signed or not.
LEMMA WiderOK ==
  ASSUME NEW v \in Nat \ {0}, NEW w \in Nat, v < w
  PROVE  /\ MinOf(w) <= MinOf(v) /\ MaxOf(v) <= MaxOf(w)
         /\ 2 ^ v - 1 <= MaxOf(w)
<1>1. PICK d \in Nat : w - 1 = v + d
  <2>1. w - 1 - v \in Nat /\ w - 1 = v + (w - 1 - v)
    OBVIOUS
  <2> QED
    BY <2>1
<1>2. PICK p \in Nat \ {0}, q \in Nat \ {0}, h \in Nat \ {0} :
        p = 2 ^ v /\ q = 2 ^ d /\ h = 2 ^ (v - 1) /\ p = 2 * h
  BY WidthOK, Doubled
<1>3. 2 ^ (w - 1) = p * q
  BY <1>1, <1>2, PowerSum
<1>4. p <= p * q
  OBVIOUS
<1> QED
  BY <1>2, <1>3, <1>4 DEF MinOf, MaxOf

\* Arithmetic shift to the right.
LEMMA ShiftRightOK ==
  ASSUME NEW w \in Nat \ {0}, NEW n \in 0 .. w - 1, NEW a \in MinOf(w) .. MaxOf(w)
  PROVE  /\ a \div 2 ^ n \in -(2 ^ (w - 1 - n)) .. 2 ^ (w - 1 - n) - 1
         /\ a \div 2 ^ n \in MinOf(w) .. MaxOf(w)
         /\ 2 ^ (w - 1 - n) \in Nat \ {0}
         /\ MinOf(w) <= -(2 ^ (w - 1 - n)) /\ 2 ^ (w - 1 - n) - 1 <= MaxOf(w)
<1>1. w - 1 - n \in Nat /\ n \in Nat /\ n + (w - 1 - n) = w - 1
  OBVIOUS
<1>2. PICK p \in Nat \ {0}, q \in Nat \ {0} : p = 2 ^ n /\ q = 2 ^ (w - 1 - n)
  BY <1>1, Doubled
<1>3. 2 ^ (w - 1) = p * q
  BY <1>1, <1>2, PowerSum
<1>4. MinOf(w) = -(p * q) /\ MaxOf(w) = p * q - 1 /\ a \in Int
  BY <1>3, WidthOK DEF MinOf, MaxOf
<1>5. p * (-q) <= a /\ a < p * q
  <2>1. p * (-q) = -(p * q) /\ p * q \in Int
    OBVIOUS
  <2> QED
    BY <1>4, <2>1
<1>6. a \div p \in -q .. q - 1
  <2>1. PICK m \in Int : m = -q
    OBVIOUS
  <2>2. p * m <= a /\ a < p * q /\ a \in Int /\ q \in Int
    BY <1>4, <1>5, <2>1
  <2>3. a \div p \in m .. q - 1
    BY <2>2, DivBetween
  <2> QED
    BY <2>1, <2>3
<1>7. q <= p * q
  OBVIOUS
<1> QED
  BY <1>2, <1>4, <1>6, <1>7

\* The bits of a number are found by dividing by powers of two.
LEMMA BitStep ==
  ASSUME NEW c \in Int, NEW n \in Nat
  PROVE  /\ BitOf(c, n) \in {0, 1}
         /\ c \div 2 ^ n = 2 * (c \div 2 ^ (n + 1)) + BitOf(c, n)
<1>1. PICK p \in Nat \ {0} : p = 2 ^ n /\ 2 ^ (n + 1) = 2 * p
  BY Doubled
<1>2. PICK q \in Int : q = c \div p /\ c = p * q + (c % p) /\ c % p \in 0 .. p - 1
  <2>1. c \in Int
    OBVIOUS
  <2> QED
    BY <2>1, DivMod
<1>3. PICK h \in Int, b \in 0 .. 1 : q = 2 * h + b /\ b = q % 2
  OBVIOUS
<1>4. c = (2 * p) * h + (p * b + (c % p))
  <2>1. p * q = (2 * p) * h + p * b
    BY <1>3
  <2> QED
    BY <1>2, <2>1
<1>5. p * b + (c % p) \in 0 .. 2 * p - 1
  <2>1. b = 0 \/ b = 1
    BY <1>3
  <2> QED
    BY <1>2, <2>1
<1>6. c \div (2 * p) = h
  <2>1. PICK d \in Nat \ {0}, r \in Int : d = 2 * p /\ r = p * b + (c % p)
    BY <1>2
  <2>2. c = d * h + r /\ r \in 0 .. d - 1 /\ c \in Int
    BY <1>4, <1>5, <2>1
  <2>3. c \div d = h
    BY <2>2, DivUnique
  <2> QED
    BY <2>1, <2>3
<1>7. BitOf(c, n) = b /\ c \div 2 ^ n = q /\ c \div 2 ^ (n + 1) = h
  BY <1>1, <1>2, <1>3, <1>6 DEF BitOf
<1> QED
  BY <1>3, <1>7

\* Bits is the sum of its bits.
LEMMA BitsOK ==
  ASSUME NEW k, NEW w \in Nat, NEW a, NEW b
  PROVE  \E f : /\ f[0] = 0 /\ Bits(k, w, a, b) = f[w]
                /\ \A n \in 1 .. w :
                     f[n] = f[n - 1] + 2 ^ (n - 1) * OnBits(k, BitOf(a, n - 1), BitOf(b, n - 1))
<1> DEFINE P(n) == 2 ^ (n - 1) * OnBits(k, BitOf(a, n - 1), BitOf(b, n - 1))
           Body(f, n) == IF n = 0 THEN 0 ELSE f[n - 1] + P(n)
           Solves(f, n) == f = [i \in 0 .. n |-> Body(f, i)]
           S == {n \in Nat : \E f : Solves(f, n)}
<1> HIDE DEF P
<1>1. \E f : Solves(f, w)
  <2>1. 0 \in S
    <3>1. Solves([i \in 0 .. 0 |-> 0], 0)
      OBVIOUS
    <3> QED
      BY <3>1
  <2>2. ASSUME NEW n \in Nat, NEW f, Solves(f, n) PROVE \E g : Solves(g, n + 1)
    <3>1. PICK g : g = [i \in 0 .. n + 1 |-> IF i <= n THEN f[i] ELSE f[n] + P(n + 1)]
      OBVIOUS
    <3>2. \A i \in 0 .. n : g[i] = f[i] /\ f[i] = Body(f, i)
      BY <2>2, <3>1
    <3>3. \A i \in 0 .. n + 1 : g[i] = Body(g, i)
      BY <3>1, <3>2, SMTT(30)
    <3> QED
      BY <3>1, <3>3
  <2>3. S = {n \in Nat : \E f : Solves(f, n)} /\ \A n \in Nat : n \in S => n + 1 \in S
    BY <2>2
  <2> HIDE DEF S
  <2>4. w \in S
    BY <2>1, <2>3, NatInduct
  <2> QED
    BY <2>3, <2>4
<1> DEFINE low[n \in 0 .. w] ==
             IF n = 0 THEN 0
                      ELSE low[n - 1]
                           + 2 ^ (n - 1) * OnBits(k, BitOf(a, n - 1), BitOf(b, n - 1))
<1>2. low = [n \in 0 .. w |-> Body(low, n)]
  BY <1>1 DEF P
<1>3. Bits(k, w, a, b) = low[w]
  BY DEF Bits
<1>4. PICK f : f = low /\ f = [n \in 0 .. w |-> Body(f, n)]
  BY <1>2
<1> HIDE DEF low
<1>5. f[0] = 0 /\ \A n \in 1 .. w : f[n] = f[n - 1] + P(n)
  BY <1>4
<1> QED
  BY <1>3, <1>4, <1>5 DEF P

\* That sum is a number.
LEMMA BitsInt ==
  ASSUME NEW k \in {"and", "or", "xor"}, NEW w \in Nat, NEW a \in Int, NEW b \in Int
  PROVE  Bits(k, w, a, b) \in Int
<1> DEFINE P(n) == 2 ^ (n - 1) * OnBits(k, BitOf(a, n - 1), BitOf(b, n - 1))
<1>1. PICK f : /\ f[0] = 0 /\ Bits(k, w, a, b) = f[w]
               /\ \A n \in 1 .. w : f[n] = f[n - 1] + P(n)
  BY BitsOK
<1>2. ASSUME NEW n \in Nat PROVE P(n + 1) \in Int
  <2>1. PICK p \in Nat \ {0} : p = 2 ^ n
    BY Doubled
  <2>2. a \div p \in Int /\ b \div p \in Int
    BY DivMod
  <2>3. BitOf(a, n) \in {0, 1} /\ BitOf(b, n) \in {0, 1}
    BY <2>1, <2>2 DEF BitOf
  <2>4. OnBits(k, BitOf(a, n), BitOf(b, n)) \in Int
    BY <2>3 DEF OnBits
  <2>5. (n + 1) - 1 = n
    OBVIOUS
  <2> QED
    BY <2>1, <2>4, <2>5
<1> HIDE DEF P
<1> DEFINE T == {n \in Nat : n <= w => f[n] \in Int}
<1>3. 0 \in T
  BY <1>1
<1>4. ASSUME NEW n \in Nat, n \in T PROVE n + 1 \in T
  <2> SUFFICES ASSUME n + 1 <= w PROVE f[n + 1] \in Int
    OBVIOUS
  <2>1. f[n] \in Int /\ n + 1 \in 1 .. w /\ (n + 1) - 1 = n
    BY <1>4
  <2>2. f[n + 1] = f[n] + P(n + 1)
    BY <1>1, <2>1
  <2> QED
    BY <1>2, <2>1, <2>2
<1>5. w \in T
  <2> HIDE DEF T
  <2> QED
    BY <1>3, <1>4, NatInduct
<1> QED
  BY <1>1, <1>5

\* The bits that a number has in common with c are worth no more than c.
LEMMA AndOK ==
  ASSUME NEW w \in Nat, NEW a \in Int, NEW c \in Nat
  PROVE  Bits("and", w, a, c) \in 0 .. c
<1> DEFINE P(n) == 2 ^ (n - 1) * OnBits("and", BitOf(a, n - 1), BitOf(c, n - 1))
           Below(x, n) == x \in Int /\ 0 <= x /\ x + 2 ^ n * (c \div 2 ^ n) <= c
<1>1. ASSUME NEW n \in Nat, NEW x, Below(x, n) PROVE Below(x + P(n + 1), n + 1)
  <2>1. PICK p \in Nat \ {0} : p = 2 ^ n /\ 2 ^ (n + 1) = 2 * p
    BY Doubled
  <2>2. PICK q \in Int, b \in {0, 1} :
          /\ q = c \div 2 ^ (n + 1) /\ b = BitOf(c, n)
          /\ c \div p = 2 * q + b
    <3>1. c \in Int
      OBVIOUS
    <3>2. c \div 2 ^ (n + 1) \in Int
      BY <2>1, <3>1, DivMod
    <3> QED
      BY <2>1, <3>1, <3>2, BitStep
  <2>3. PICK d \in {0, 1} : d = BitOf(a, n)
    <3>1. a \div 2 ^ n \in Int
      BY <2>1, DivMod
    <3> QED
      BY <3>1 DEF BitOf
  <2>4. P(n + 1) = p * (d * b)
    <3>1. (n + 1) - 1 = n
      OBVIOUS
    <3> QED
      BY <2>1, <2>2, <2>3, <3>1 DEF OnBits
  <2>5. 0 <= p * (d * b) /\ p * (d * b) <= p * b /\ p * (d * b) \in Int /\ p * b \in Int
    OBVIOUS
  <2>6. x \in Int /\ 0 <= x /\ x + p * (2 * q + b) <= c
    BY <1>1, <2>1, <2>2
  <2>7. p * (2 * q + b) = (2 * p) * q + p * b /\ (2 * p) * q \in Int
    OBVIOUS
  <2>8. (x + p * (d * b)) + (2 * p) * q <= c
    BY <2>5, <2>6, <2>7
  <2>9. PICK y \in Int : y = x + P(n + 1) /\ 0 <= y /\ y + (2 * p) * q <= c
    BY <2>4, <2>5, <2>6, <2>8
  <2> QED
    BY <2>1, <2>2, <2>9
<1> HIDE DEF P, Below
<1>2. PICK f : /\ f[0] = 0 /\ Bits("and", w, a, c) = f[w]
               /\ \A n \in 1 .. w : f[n] = f[n - 1] + P(n)
  BY BitsOK DEF P
<1> DEFINE T == {n \in Nat : n <= w => Below(f[n], n)}
<1>3. 0 \in T
  <2>1. c \div 2 ^ 0 = c
    BY PowerZero
  <2> QED
    BY <1>2, <2>1, PowerZero DEF Below
<1>4. ASSUME NEW n \in Nat, n \in T PROVE n + 1 \in T
  <2> SUFFICES ASSUME n + 1 <= w PROVE Below(f[n + 1], n + 1)
    OBVIOUS
  <2>1. Below(f[n], n) /\ n + 1 \in 1 .. w /\ (n + 1) - 1 = n
    BY <1>4
  <2>2. f[n + 1] = f[n] + P(n + 1)
    BY <1>2, <2>1
  <2> QED
    BY <1>1, <2>1, <2>2
<1>5. w \in T
  <2> HIDE DEF T
  <2> QED
    BY <1>3, <1>4, NatInduct
<1>6. PICK p \in Nat \ {0} : p = 2 ^ w
  BY Doubled
<1>7. 0 <= p * (c \div p) /\ p * (c \div p) \in Int
  OBVIOUS
<1>8. PICK x : x = f[w] /\ Below(x, w)
  BY <1>5
<1>9. x \in Int /\ 0 <= x /\ x + p * (c \div p) <= c
  BY <1>6, <1>8 DEF Below
<1>10. x \in 0 .. c
  BY <1>7, <1>9
<1> QED
  BY <1>2, <1>8, <1>10

-----------------------------------------------------------------------------
(* What operators take and give.                                           *)

Arithmetic2 == {"add", "sub", "mul", "and", "or", "xor"}

\* By kinds of operators.
LEMMA Kinds ==
  ASSUME NEW k, NEW ty
  PROVE  /\ k \in Compares => RetType(k, ty) = "I" /\ Formals(k, ty) = <<ty, ty>>
         /\ k \in Shifts => RetType(k, ty) = ty /\ Formals(k, ty) = <<ty, "I">>
         /\ k \in Arithmetic2 \cup {"addx", "subx", "mulx"} =>
              RetType(k, ty) = ty /\ Formals(k, ty) = <<ty, ty>>
         /\ k \in {"neg", "not", "abs"} => RetType(k, ty) = ty /\ Formals(k, ty) = <<ty>>
         /\ k \in {"q2i", "d2i"} => RetType(k, ty) = "I"
         /\ k \in {"i2q", "ui2uq"} => RetType(k, ty) = "Q"
         /\ k \in {"i2d", "ui2d", "q2d"} => RetType(k, ty) = "D"
         /\ k \in {"i2q", "ui2uq", "i2d", "ui2d"} => Formals(k, ty) = <<"I">>
         /\ k \in {"q2i", "q2d"} => Formals(k, ty) = <<"Q">>
         /\ k = "d2i" => Formals(k, ty) = <<"D">>
         /\ k = "cmov" => RetType(k, ty) = ty /\ Formals(k, ty) = <<"I", ty, ty>>
         /\ k = "ld" => RetType(k, ty) = ty /\ Formals(k, ty) = <<"Q">>
         /\ k = "imm" => RetType(k, ty) = ty
<1> USE DEF RetType, Formals, Conversions, Shifts, Compares, Equalities, Orders,
            UnsignedOrders, Arithmetic2
<1>1. /\ k \in Compares => RetType(k, ty) = "I" /\ Formals(k, ty) = <<ty, ty>>
      /\ k \in Shifts => RetType(k, ty) = ty /\ Formals(k, ty) = <<ty, "I">>
  OBVIOUS
<1>2. k \in Arithmetic2 \cup {"addx", "subx", "mulx"} =>
        RetType(k, ty) = ty /\ Formals(k, ty) = <<ty, ty>>
  OBVIOUS
<1>3. /\ k \in {"neg", "not", "abs"} => RetType(k, ty) = ty /\ Formals(k, ty) = <<ty>>
      /\ k \in {"q2i", "d2i"} => RetType(k, ty) = "I"
      /\ k \in {"i2q", "ui2uq"} => RetType(k, ty) = "Q"
      /\ k \in {"i2d", "ui2d", "q2d"} => RetType(k, ty) = "D"
  OBVIOUS
<1>4. /\ k \in {"i2q", "ui2uq", "i2d", "ui2d"} => Formals(k, ty) = <<"I">>
      /\ k \in {"q2i", "q2d"} => Formals(k, ty) = <<"Q">>
      /\ k = "d2i" => Formals(k, ty) = <<"D">>
  OBVIOUS
<1>5. /\ k = "cmov" => RetType(k, ty) = ty /\ Formals(k, ty) = <<"I", ty, ty>>
      /\ k = "ld" => RetType(k, ty) = ty /\ Formals(k, ty) = <<"Q">>
      /\ k = "imm" => RetType(k, ty) = ty
  OBVIOUS
<1> HIDE DEF RetType, Formals, Conversions, Shifts, Compares, Equalities, Orders,
             UnsignedOrders, Arithmetic2
<1> QED
  BY <1>1, <1>2, <1>3, <1>4, <1>5

\* Types for which there are operators.
LEMMA Operators ==
  ASSUME NEW k, NEW ty
  PROVE  /\ k \in Equalities \cup Orders \cup Conversions
                        \cup {"add", "sub", "mul", "neg", "cmov", "imm", "param"} =>
              (IsOperator(k, ty) <=> ty \in {"I", "Q", "D"})
         /\ k \in UnsignedOrders \cup Shifts \cup {"and", "or", "xor", "not"} =>
              (IsOperator(k, ty) <=> ty \in {"I", "Q"})
         /\ k = "abs" => (IsOperator(k, ty) <=> ty = "D")
         /\ k \in {"addx", "subx", "mulx"} => (IsOperator(k, ty) <=> ty = "I")
         /\ k = "ld" => (IsOperator(k, ty) <=> ty = "Q")
         /\ k \in {"x", "j", "xt", "xf", "jt", "jf"} => (IsOperator(k, ty) <=> ty = "V")
<1> USE DEF IsOperator, Conversions, Shifts, Compares, Equalities, Orders, UnsignedOrders
<1>1. k \in Equalities \cup Orders \cup Conversions
                        \cup {"add", "sub", "mul", "neg", "cmov", "imm", "param"} =>
              (IsOperator(k, ty) <=> ty \in {"I", "Q", "D"})
  OBVIOUS
<1>2. k \in UnsignedOrders \cup Shifts \cup {"and", "or", "xor", "not"} =>
              (IsOperator(k, ty) <=> ty \in {"I", "Q"})
  OBVIOUS
<1>3. /\ k = "abs" => (IsOperator(k, ty) <=> ty = "D")
      /\ k \in {"addx", "subx", "mulx"} => (IsOperator(k, ty) <=> ty = "I")
  OBVIOUS
<1>4. /\ k = "ld" => (IsOperator(k, ty) <=> ty = "Q")
      /\ k \in {"x", "j", "xt", "xf", "jt", "jf"} => (IsOperator(k, ty) <=> ty = "V")
  OBVIOUS
<1> HIDE DEF IsOperator, Conversions, Shifts, Compares, Equalities, Orders, UnsignedOrders
<1> QED
  BY <1>1, <1>2, <1>3, <1>4

\* What Binary and the sets it is made of have.
LEMMA Binaries ==
  /\ Binary = Compares \cup Shifts \cup Arithmetic2
  /\ Compares = {"eq", "lt", "gt", "le", "ge", "ltu", "gtu", "leu", "geu"}
  /\ Equalities = {"eq"} /\ Orders = {"lt", "gt", "le", "ge"}
  /\ UnsignedOrders = {"ltu", "gtu", "leu", "geu"} /\ Shifts = {"lsh", "rsh", "rshu"}
BY DEF Binary, Arithmetic2, Compares, Equalities, Orders, UnsignedOrders, Shifts


-----------------------------------------------------------------------------
(* Results are values of their types.                                      *)

\* The integer types.
LEMMA WidthTypes ==
  /\ \A ty \in {"I", "Q"} : /\ Width(ty) \in Nat \ {0}
                            /\ Values(ty) = MinOf(Width(ty)) .. MaxOf(Width(ty))
                            /\ Values(ty) \subseteq Int /\ {0, 1} \subseteq Values(ty)
  /\ Width("I") = IntWidth /\ Width("Q") = QuadWidth
  /\ Values("I") \subseteq Values("Q") /\ 0 .. 2 ^ IntWidth - 1 \subseteq Values("Q")
<1>1. /\ IntWidth \in Nat \ {0, 1} /\ QuadWidth \in Nat \ {0} /\ IntWidth < QuadWidth
      /\ Width("I") = IntWidth /\ Width("Q") = QuadWidth
  BY WidthAssumption DEF Width
<1>2. \A ty \in {"I", "Q"} : Values(ty) = MinOf(Width(ty)) .. MaxOf(Width(ty))
  BY DEF Values
<1>3. /\ MinOf(IntWidth) \in Int /\ MaxOf(IntWidth) \in Int
      /\ MinOf(QuadWidth) \in Int /\ MaxOf(QuadWidth) \in Int
      /\ MinOf(IntWidth) <= 0 /\ 2 ^ IntWidth \in Int
  BY <1>1, WidthOK
<1>4. 1 <= MaxOf(IntWidth)
  <2>1. IntWidth - 2 \in Nat /\ (IntWidth - 2) + 1 = IntWidth - 1
    BY <1>1
  <2>2. 2 ^ (IntWidth - 1) = 2 * 2 ^ (IntWidth - 2) /\ 2 ^ (IntWidth - 2) \in Nat \ {0}
    BY <2>1, Doubled
  <2> QED
    BY <2>2 DEF MaxOf
<1>5. /\ MinOf(QuadWidth) <= MinOf(IntWidth) /\ MaxOf(IntWidth) <= MaxOf(QuadWidth)
      /\ 2 ^ IntWidth - 1 <= MaxOf(QuadWidth)
  BY <1>1, WiderOK
<1>6. Values("I") \subseteq Values("Q") /\ 0 .. 2 ^ IntWidth - 1 \subseteq Values("Q")
  BY <1>1, <1>2, <1>3, <1>5
<1>7. {0, 1} \subseteq Values("I")
  BY <1>1, <1>2, <1>3, <1>4
<1> QED
  BY <1>1, <1>2, <1>3, <1>6, <1>7

\* What is wrapped is of its type.
LEMMA WrapTyped ==
  ASSUME NEW ty \in {"I", "Q"}, NEW n \in Int
  PROVE  Wrap(n, Width(ty)) \in Values(ty)
BY WidthTypes, WrapOK

\* A double is no number, the negative zero, or a whole number.
LEMMA DoubleCases ==
  /\ NaN \in Values("D") /\ NegZero \in Values("D") /\ \A n \in Int : Num(n) \in Values("D")
  /\ \A a \in Values("D") : a = NaN \/ a = NegZero \/ \E n \in Int : a = Num(n)
<1> DEFINE D == [nan : BOOLEAN, n : Int, neg : BOOLEAN]
           whole(a) == IF a.nan THEN NaN ELSE Signed(a.n, a.neg)
<1>1. Values("D") = {a \in D : a = whole(a)}
  BY DEF Values
<1>2. NaN \in D /\ whole(NaN) = NaN
  BY DEF NaN
<1>3. NegZero \in D /\ whole(NegZero) = NegZero
  BY DEF NegZero, Signed
<1>4. ASSUME NEW n \in Int PROVE Num(n) \in D /\ whole(Num(n)) = Num(n)
  <2>1. /\ Num(n).nan = FALSE /\ Num(n).n = n /\ Num(n).neg = (n < 0)
        /\ (n < 0) \in BOOLEAN /\ Num(n) = [nan |-> FALSE, n |-> n, neg |-> (n < 0)]
    BY DEF Num
  <2>2. ~(n = 0 /\ n < 0)
    OBVIOUS
  <2> QED
    BY <2>1, <2>2 DEF Signed
<1>5. ASSUME NEW a \in Values("D") PROVE a = NaN \/ a = NegZero \/ \E n \in Int : a = Num(n)
  BY <1>1 DEF Signed
<1> QED
  BY <1>1, <1>2, <1>3, <1>4, <1>5

\* Doubles.
LEMMA RealsTyped ==
  /\ \A n \in Int : Num(n) \in Values("D")
  /\ \A a \in Values("D") : a.n \in Int /\ Negd(a) \in Values("D") /\ Absd(a) \in Values("D")
  /\ \A a, b \in Values("D") : /\ Addd(a, b) \in Values("D") /\ Subd(a, b) \in Values("D")
                               /\ Muld(a, b) \in Values("D")
<1>1. \A n \in Int : Num(n) \in Values("D")
  BY DoubleCases
<1>2. NaN \in Values("D") /\ NegZero \in Values("D")
  BY DoubleCases
<1>3. \A n \in Int, neg \in BOOLEAN : Signed(n, neg) \in Values("D")
  BY <1>1, <1>2 DEF Signed
<1>4. ASSUME NEW a \in Values("D")
      PROVE  a.n \in Int /\ a.neg \in BOOLEAN /\ a.nan \in BOOLEAN
  BY DEF Values
<1>5. ASSUME NEW a \in Values("D"), NEW b \in Values("D"), NEW n \in Int, NEW neg \in BOOLEAN
      PROVE  Real2(a, b, Signed(n, neg)) \in Values("D")
  <2>1. a.nan \in BOOLEAN /\ b.nan \in BOOLEAN /\ Signed(n, neg) \in Values("D")
    BY <1>3, <1>4
  <2> QED
    BY <1>2, <2>1 DEF Real2
<1>6. ASSUME NEW a \in Values("D") PROVE Negd(a) \in Values("D")
  <2>1. -a.n \in Int /\ (~a.neg) \in BOOLEAN
    BY <1>4
  <2> QED
    BY <1>5, <2>1 DEF Negd
<1>7. \A a \in Values("D") : Absd(a) \in Values("D")
  BY <1>6 DEF Absd
<1>8. ASSUME NEW a \in Values("D"), NEW b \in Values("D")
      PROVE  Addd(a, b) \in Values("D") /\ Muld(a, b) \in Values("D")
  <2>1. /\ a.n + b.n \in Int /\ (a.neg /\ b.neg) \in BOOLEAN
        /\ a.n * b.n \in Int /\ (a.neg # b.neg) \in BOOLEAN
    BY <1>4
  <2> QED
    BY <1>5, <2>1 DEF Addd, Muld
<1>9. \A a, b \in Values("D") : Subd(a, b) \in Values("D")
  BY <1>6, <1>8 DEF Subd
<1> QED
  BY <1>1, <1>4, <1>6, <1>7, <1>8, <1>9

\* One operand.
LEMMA Compute1OK ==
  ASSUME NEW k \in Unary, NEW ty, IsOperator(k, ty), NEW v \in Values(Formals(k, ty)[1])
  PROVE  Compute1(k, ty, v) \in Values(RetType(k, ty))
<1>1. CASE k = "neg"
  <2>1. ty \in {"I", "Q", "D"} /\ v \in Values(ty) /\ RetType(k, ty) = ty
    BY <1>1, Kinds DEF IsOperator
  <2>2. CASE ty = "D"
    BY <1>1, <2>1, <2>2, RealsTyped DEF Compute1
  <2>3. CASE ty \in {"I", "Q"}
    <3>1. -v \in Int
      BY <2>1, <2>3, WidthTypes
    <3>2. Compute1(k, ty, v) = Wrap(-v, Width(ty))
      BY <1>1, <2>3 DEF Compute1
    <3> QED
      BY <2>1, <2>3, <3>1, <3>2, WrapTyped
  <2> QED
    BY <2>1, <2>2, <2>3
<1>2. CASE k = "not"
  <2>1. ty \in {"I", "Q"} /\ v \in Values(ty) /\ RetType(k, ty) = ty
    BY <1>2, Kinds DEF IsOperator, Conversions, Compares, Equalities, Orders, UnsignedOrders,
                           Shifts
  <2>2. PICK p \in Int : Values(ty) = -p .. p - 1
    <3>1. Width(ty) \in Nat \ {0} /\ Values(ty) = MinOf(Width(ty)) .. MaxOf(Width(ty))
      BY <2>1, WidthTypes
    <3>2. 2 ^ (Width(ty) - 1) \in Int
      BY <3>1, WidthOK
    <3> QED
      BY <3>1, <3>2 DEF MinOf, MaxOf
  <2>3. Compute1(k, ty, v) = -v - 1
    BY <1>2 DEF Compute1
  <2> QED
    BY <2>1, <2>2, <2>3
<1>3. CASE k = "abs"
  <2>1. ty = "D" /\ v \in Values(ty) /\ RetType(k, ty) = ty
    BY <1>3, Kinds DEF IsOperator, Conversions, Compares, Equalities, Orders, UnsignedOrders,
                           Shifts
  <2> QED
    BY <1>3, <2>1, RealsTyped DEF Compute1
<1>4. CASE k \in {"i2q", "ui2uq", "i2d", "ui2d"}
  <2>1. v \in Values("I") /\ v \in Int /\ IntWidth \in Nat \ {0}
    BY <1>4, Kinds, WidthTypes
  <2>2. Unsigned(v, IntWidth) \in 0 .. 2 ^ IntWidth - 1 /\ Unsigned(v, IntWidth) \in Int
    BY <2>1, WrapOK
  <2>3. CASE k = "i2q"
    BY <2>1, <2>3, WidthTypes, Kinds DEF Compute1
  <2>4. CASE k = "ui2uq"
    <3>1. Unsigned(v, IntWidth) \in Values("Q")
      BY <2>2, WidthTypes
    <3> QED
      BY <2>4, <3>1, Kinds DEF Compute1
  <2>5. CASE k = "i2d"
    BY <2>1, <2>5, RealsTyped, Kinds DEF Compute1
  <2>6. CASE k = "ui2d"
    <3>1. Num(Unsigned(v, IntWidth)) \in Values("D")
      BY <2>2, RealsTyped
    <3> QED
      BY <2>6, <3>1, Kinds DEF Compute1
  <2> QED
    BY <1>4, <2>3, <2>4, <2>5, <2>6
<1>5. CASE k \in {"q2i", "q2d"}
  <2>1. v \in Values("Q") /\ v \in Int
    BY <1>5, Kinds, WidthTypes
  <2>2. Wrap(v, IntWidth) \in Values("I") /\ Num(v) \in Values("D")
    BY <2>1, WrapTyped, WidthTypes, RealsTyped
  <2> QED
    BY <1>5, <2>2, Kinds DEF Compute1
<1>6. CASE k = "d2i"
  <2>1. v.n \in Int
    BY <1>6, Kinds, RealsTyped
  <2>2. Wrap(v.n, IntWidth) \in Values("I")
    BY <2>1, WrapTyped, WidthTypes
  <2> QED
    BY <1>6, <2>2, Kinds DEF Compute1
<1> QED
  BY <1>1, <1>2, <1>3, <1>4, <1>5, <1>6 DEF Unary, Conversions

\* A comparison is worth 0 or 1.
LEMMA Compare01 ==
  ASSUME NEW k \in Compares, NEW ty, NEW a, NEW b
  PROVE  Compute2(k, ty, a, b) \in {0, 1}
<1>1. CompareDoubles(k, a, b) \in {0, 1}
  BY Zenon DEF CompareDoubles, Truth
<1>2. CompareInts(k, Width(ty), a, b) \in {0, 1}
  BY Zenon DEF CompareInts, Truth
<1>3. \/ Compute2(k, ty, a, b) = CompareDoubles(k, a, b)
      \/ Compute2(k, ty, a, b) = CompareInts(k, Width(ty), a, b)
  <2>1. CASE ty = "D"
    <3>1. Compute2(k, ty, a, b) = CompareDoubles(k, a, b)
      BY <2>1, Binaries DEF Compute2
    <3> QED
      BY <3>1
  <2>2. CASE ty # "D"
    <3>1. Compute2(k, ty, a, b) = CompareInts(k, Width(ty), a, b)
      BY <2>2, Binaries DEF Compute2
    <3> QED
      BY <3>1
  <2> QED
    BY <2>1, <2>2
<1> QED
  BY <1>1, <1>2, <1>3

\* Two operands.
LEMMA Compute2OK ==
  ASSUME NEW k \in Binary, NEW ty, IsOperator(k, ty),
         NEW a \in Values(Formals(k, ty)[1]), NEW b \in Values(Formals(k, ty)[2])
  PROVE  Compute2(k, ty, a, b) \in Values(RetType(k, ty))
<1>1. CASE k \in Compares
  <2>1. RetType(k, ty) = "I"
    BY <1>1, Kinds
  <2>2. Compute2(k, ty, a, b) \in {0, 1}
    BY <1>1, Compare01
  <2> QED
    BY <2>1, <2>2, WidthTypes
<1>2. CASE k \in Shifts
  <2>1. ty \in {"I", "Q"} /\ a \in Values(ty) /\ b \in Values("I") /\ RetType(k, ty) = ty
    BY <1>2, Kinds, Binaries DEF IsOperator, Conversions
  <2>2. /\ Width(ty) \in Nat \ {0} /\ a \in Int /\ b \in Int
        /\ a \in MinOf(Width(ty)) .. MaxOf(Width(ty))
    BY <2>1, WidthTypes
  <2>3. PICK n \in 0 .. Width(ty) - 1 : n = b % Width(ty)
    BY <2>2, DivMod
  <2>4. PICK p \in Nat \ {0} : p = 2 ^ n
    BY <2>3, Doubled
  <2>5. Compute2(k, ty, a, b) = Shift(k, Width(ty), a, b)
    BY <1>2, <2>1, Binaries DEF Compute2
  <2>6. CASE k = "lsh"
    <3>1. a * p \in Int /\ Shift(k, Width(ty), a, b) = Wrap(a * p, Width(ty))
      BY <2>2, <2>3, <2>4, <2>6 DEF Shift
    <3> QED
      BY <2>1, <2>5, <3>1, WrapTyped
  <2>7. CASE k = "rsh"
    <3>1. Shift(k, Width(ty), a, b) = a \div 2 ^ n
      BY <2>3, <2>7 DEF Shift
    <3>2. a \div 2 ^ n \in MinOf(Width(ty)) .. MaxOf(Width(ty))
      BY <2>2, ShiftRightOK
    <3> QED
      BY <2>1, <2>5, <3>1, <3>2, WidthTypes
  <2>8. CASE k = "rshu"
    <3>1. Unsigned(a, Width(ty)) \in Int
      BY <2>2, WrapOK
    <3>2. Unsigned(a, Width(ty)) \div p \in Int
      BY <3>1, DivMod
    <3>3. Shift(k, Width(ty), a, b) = Wrap(Unsigned(a, Width(ty)) \div p, Width(ty))
      BY <2>3, <2>4, <2>8 DEF Shift
    <3> QED
      BY <2>1, <2>5, <3>2, <3>3, WrapTyped
  <2> QED
    BY <1>2, <2>6, <2>7, <2>8, Binaries
<1>3. CASE k \in Arithmetic2
  <2>1. a \in Values(ty) /\ b \in Values(ty) /\ RetType(k, ty) = ty
    BY <1>3, Kinds
  <2>2. CASE ty = "D"
    <3>1. k \in {"add", "sub", "mul"}
      BY <1>3, <2>2, Binaries DEF IsOperator, Arithmetic2, Conversions
    <3>2. Compute2(k, ty, a, b) \in {Addd(a, b), Subd(a, b), Muld(a, b)}
      BY <2>2, <3>1, Binaries DEF Compute2
    <3> QED
      BY <2>1, <2>2, <3>2, RealsTyped
  <2>3. CASE ty # "D"
    <3>1. ty \in {"I", "Q"}
      BY <1>3, <2>3 DEF IsOperator, Arithmetic2
    <3>2. a \in Int /\ b \in Int /\ Width(ty) \in Nat
      BY <2>1, <3>1, WidthTypes
    <3>3. Compute2(k, ty, a, b) = Arith(k, Width(ty), a, b)
      BY <1>3, <2>3, Binaries DEF Compute2, Arithmetic2
    <3>4. \E n \in Int : Arith(k, Width(ty), a, b) = Wrap(n, Width(ty))
      <4>1. CASE k \in {"and", "or", "xor"}
        BY <3>2, <4>1, BitsInt DEF Arith
      <4>2. CASE k \in {"add", "sub", "mul"}
        <5>1. a + b \in Int /\ a - b \in Int /\ a * b \in Int
          BY <3>2
        <5> QED
          BY <4>2, <5>1 DEF Arith
      <4> QED
        BY <1>3, <4>1, <4>2 DEF Arithmetic2
    <3> QED
      BY <2>1, <3>1, <3>3, <3>4, WrapTyped
  <2> QED
    BY <2>2, <2>3
<1> QED
  BY <1>1, <1>2, <1>3, Binaries

-----------------------------------------------------------------------------
(* Answers: what follows from the code so far, with a result of type ty.   *)

\* More is written; parameters are not.
Extends(t, s) == /\ DOMAIN s \subseteq DOMAIN t /\ \A i \in DOMAIN s : t[i] = s[i]
                 /\ \A i \in DOMAIN t \ DOMAIN s : t[i].k # "param"

Answers(s, r, ty) ==
  /\ WellTyped(r.ins) /\ Extends(r.ins, s)
  /\ r.ret \in DOMAIN r.ins /\ TypeOf(r.ins, r.ret) = ty

\* An operand of type ty.
Opd(s, i, ty) == i \in DOMAIN s /\ TypeOf(s, i) = ty

\* The operands of an instruction are there, with the types it wants.
LEMMA ArgsOK ==
  ASSUME NEW s, WellTyped(s), NEW i \in DOMAIN s,
         NEW n \in 1 .. Len(Formals(s[i].k, s[i].ty))
  PROVE  /\ Opd(s, Arg(s, i, n), Formals(s[i].k, s[i].ty)[n])
         /\ Arg(s, i, n) \in 1 .. i - 1
<1> DEFINE m == Len(Formals(s[i].k, s[i].ty))
<1>1. /\ s \in Seq({s[j] : j \in DOMAIN s}) /\ s[i].args \in Seq(1 .. i - 1)
      /\ TypeCheckArgs(s, s[i])
  BY DEF WellTyped
<1>2. DOMAIN s[i].args = 1 .. m
  BY <1>1 DEF TypeCheckArgs
<1> HIDE DEF m
<1>3. n \in DOMAIN s[i].args
  BY <1>2 DEF m
<1>4. /\ s[i].args[n] \in 1 .. i - 1 /\ DOMAIN s = 1 .. Len(s) /\ Len(s) \in Nat
  BY <1>1, <1>3
<1>5. s[i].args[n] \in DOMAIN s
  BY <1>4
<1> QED
  BY <1>1, <1>3, <1>4, <1>5 DEF Opd, Arg, TypeCheckArgs

LEMMA Args2OK ==
  ASSUME NEW s, WellTyped(s), NEW i \in DOMAIN s, NEW t1, NEW t2,
         Formals(s[i].k, s[i].ty) = <<t1, t2>>
  PROVE  Opd(s, Arg(s, i, 1), t1) /\ Opd(s, Arg(s, i, 2), t2)
<1>1. PICK F : F = Formals(s[i].k, s[i].ty)
  OBVIOUS
<1>2. Len(F) = 2 /\ F[1] = t1 /\ F[2] = t2
  BY <1>1
<1>3. \A n \in 1 .. Len(F) : Opd(s, Arg(s, i, n), F[n])
  BY <1>1, ArgsOK
<1> QED
  BY <1>2, <1>3

\* The answer is an instruction written before.
LEMMA OldOK ==
  ASSUME NEW s, WellTyped(s), NEW ty, NEW i, Opd(s, i, ty)
  PROVE  Answers(s, Old(s, i), ty)
BY DEF Opd, Answers, Extends, Old

\* The answer is a new instruction.
LEMMA NewOK ==
  ASSUME NEW s, WellTyped(s), NEW x, x.args \in Seq(DOMAIN s),
         WellFormed(x), x.k # "param", TypeCheckArgs(s, x), CheckIsACond(s, x)
  PROVE  Answers(s, New(s, x), RetType(x.k, x.ty))
<1> DEFINE t == Append(s, x)
           W == {s[i] : i \in DOMAIN s}
<1>1. s \in Seq(W) /\ DOMAIN s = 1 .. Len(s) /\ Len(s) \in Nat
  BY DEF WellTyped
<1>2. /\ t \in Seq(W \cup {x}) /\ DOMAIN t = 1 .. Len(s) + 1
      /\ t[Len(s) + 1] = x /\ \A i \in DOMAIN s : t[i] = s[i]
  <2>1. s \in Seq(W \cup {x})
    BY <1>1
  <2> QED
    BY <1>1, <2>1
<1> HIDE DEF t, W
<1>3. Extends(t, s)
  <2>1. \A i \in DOMAIN t \ DOMAIN s : i = Len(s) + 1
    BY <1>1, <1>2
  <2> QED
    BY <1>1, <1>2, <2>1 DEF Extends
<1>4. t \in Seq({t[i] : i \in DOMAIN t})
  BY <1>2
<1>5. ASSUME NEW y, NEW i \in DOMAIN t, y.args \in Seq(1 .. i - 1), i - 1 \in 0 .. Len(s),
             TypeCheckArgs(s, y), CheckIsACond(s, y)
      PROVE  TypeCheckArgs(t, y) /\ CheckIsACond(t, y)
  <2>1. \A n \in DOMAIN y.args : y.args[n] \in DOMAIN s
    BY <1>1, <1>5
  <2>2. TypeCheckArgs(t, y)
    BY <1>2, <1>5, <2>1 DEF TypeCheckArgs, TypeOf
  <2>3. y.k \in {"xt", "xf", "jt", "jf", "cmov"} => 1 \in DOMAIN y.args
    <3>1. y.k \in {"xt", "xf", "jt", "jf", "cmov"} => Len(Formals(y.k, y.ty)) >= 1
      BY DEF Formals, Conversions, Shifts
    <3> QED
      BY <1>5, <3>1 DEF TypeCheckArgs
  <2>4. CheckIsACond(t, y)
    BY <1>2, <1>5, <2>1, <2>3 DEF CheckIsACond, IsCmp, IsImmI, Is
  <2> QED
    BY <2>2, <2>4
<1>6. ASSUME NEW i \in DOMAIN t
      PROVE  /\ t[i].args \in Seq(1 .. i - 1) /\ WellFormed(t[i])
             /\ TypeCheckArgs(t, t[i]) /\ CheckIsACond(t, t[i])
  <2>1. CASE i \in DOMAIN s
    <3>1. /\ s[i].args \in Seq(1 .. i - 1) /\ WellFormed(s[i])
          /\ TypeCheckArgs(s, s[i]) /\ CheckIsACond(s, s[i])
      BY <2>1 DEF WellTyped
    <3>2. i - 1 \in 0 .. Len(s)
      BY <1>1, <2>1
    <3>3. TypeCheckArgs(t, s[i]) /\ CheckIsACond(t, s[i])
      BY <1>5, <3>1, <3>2
    <3> QED
      BY <1>2, <2>1, <3>1, <3>3
  <2>2. CASE i = Len(s) + 1
    <3>1. x.args \in Seq(1 .. i - 1) /\ t[i] = x
      BY <1>1, <1>2, <2>2
    <3> QED
      BY <1>1, <1>5, <2>2, <3>1
  <2> QED
    BY <1>1, <1>2, <2>1, <2>2
<1>7. WellTyped(t)
  BY <1>4, <1>6 DEF WellTyped
<1>8. Len(s) + 1 \in DOMAIN t /\ TypeOf(t, Len(s) + 1) = RetType(x.k, x.ty)
  BY <1>1, <1>2 DEF TypeOf
<1> QED
  BY <1>3, <1>7, <1>8 DEF Answers, New, t

\* The answer is a constant.
LEMMA ImmOK ==
  ASSUME NEW s, WellTyped(s), NEW ty \in {"I", "Q", "D"}, NEW v \in Values(ty)
  PROVE  /\ Answers(s, InsImm(s, v, ty), ty)
         /\ IsImm(InsImm(s, v, ty).ins, InsImm(s, v, ty).ret)
<1> DEFINE x == Imm(v, ty)
<1>1. /\ x.args = <<>> /\ x.k = "imm" /\ x.ty = ty /\ x.v = v
      /\ Formals(x.k, x.ty) = <<>> /\ RetType(x.k, x.ty) = ty
  BY DEF Imm, Formals, RetType, Conversions, Shifts, Compares, Equalities, Orders,
         UnsignedOrders
<1> HIDE DEF x
<1>2. /\ x.args \in Seq(DOMAIN s) /\ TypeCheckArgs(s, x) /\ CheckIsACond(s, x)
      /\ WellFormed(x)
  BY <1>1, Operators DEF TypeCheckArgs, CheckIsACond, WellFormed
<1>3. Answers(s, New(s, x), ty)
  BY <1>1, <1>2, NewOK
<1>4. IsImm(New(s, x).ins, New(s, x).ret)
  BY <1>1 DEF WellTyped, New, IsImm
<1> QED
  BY <1>3, <1>4 DEF x, InsImm

\* A constant operand is of the type it is named for.
LEMMA ImmValue ==
  ASSUME NEW s, WellTyped(s), NEW i, NEW ty, Opd(s, i, ty), IsImm(s, i)
  PROVE  s[i].ty = ty /\ ty \in {"I", "Q", "D"} /\ s[i].v \in Values(ty)
<1>1. WellFormed(s[i]) /\ s[i].k = "imm" /\ RetType(s[i].k, s[i].ty) = ty
  BY DEF WellTyped, Opd, TypeOf, IsImm
<1>2. s[i].ty = ty
  BY <1>1, Kinds
<1> QED
  BY <1>1, <1>2, Operators DEF WellFormed

\* An answer to what was asked of an answer.
LEMMA Chain ==
  ASSUME NEW s, NEW r, NEW ty1, Answers(s, r, ty1), NEW q, NEW ty2,
         Answers(r.ins, q, ty2)
  PROVE  Answers(s, q, ty2)
BY DEF Answers, Extends

\* Operands stay what they are when more is written.
LEMMA OpdStays ==
  ASSUME NEW s, NEW r, NEW ty1, Answers(s, r, ty1), NEW i, NEW ty, Opd(s, i, ty)
  PROVE  Opd(r.ins, i, ty) /\ r.ins[i] = s[i]
BY DEF Answers, Extends, Opd, TypeOf

\* The answer is a new instruction with one operand, or two.
LEMMA Op1OK ==
  ASSUME NEW s, WellTyped(s), NEW k \in Unary, NEW ty, IsOperator(k, ty),
         NEW a, Opd(s, a, Formals(k, ty)[1])
  PROVE  Answers(s, New(s, Op(k, ty, <<a>>)), RetType(k, ty))
<1> DEFINE x == Op(k, ty, <<a>>)
<1>1. /\ x.args = <<a>> /\ x.k = k /\ x.ty = ty /\ Len(Formals(k, ty)) = 1
      /\ k \notin {"xt", "xf", "jt", "jf", "cmov", "imm", "ld", "param"}
  BY DEF Op, Formals, Unary, Conversions, Shifts
<1> HIDE DEF x
<1>2. /\ x.args \in Seq(DOMAIN s) /\ TypeCheckArgs(s, x) /\ CheckIsACond(s, x)
      /\ WellFormed(x)
  BY <1>1 DEF TypeCheckArgs, CheckIsACond, Opd, WellFormed
<1> QED
  BY <1>1, <1>2, NewOK DEF x

LEMMA Op2OK ==
  ASSUME NEW s, WellTyped(s), NEW k \in Binary \cup {"addx", "subx", "mulx"}, NEW ty,
         IsOperator(k, ty), NEW a, Opd(s, a, Formals(k, ty)[1]), NEW b, Opd(s, b, Formals(k, ty)[2])
  PROVE  Answers(s, New(s, Op(k, ty, <<a, b>>)), RetType(k, ty))
<1> DEFINE x == Op(k, ty, <<a, b>>)
<1>1. /\ x.args = <<a, b>> /\ x.k = k /\ x.ty = ty /\ Len(Formals(k, ty)) = 2
      /\ k \notin {"xt", "xf", "jt", "jf", "cmov", "imm", "ld", "param"}
  BY DEF Op, Formals, Binary, Conversions, Shifts, Compares, Equalities, Orders,
         UnsignedOrders
<1> HIDE DEF x
<1>2. /\ x.args \in Seq(DOMAIN s) /\ TypeCheckArgs(s, x) /\ CheckIsACond(s, x)
      /\ WellFormed(x)
  BY <1>1 DEF TypeCheckArgs, CheckIsACond, Opd, WellFormed
<1> QED
  BY <1>1, <1>2, NewOK DEF x

-----------------------------------------------------------------------------
(* The rules.                                                              *)

\* Results have a type.
LEMMA UnaryTypes ==
  ASSUME NEW k \in Unary, NEW ty, IsOperator(k, ty)
  PROVE  RetType(k, ty) \in {"I", "Q", "D"}
BY Kinds, Operators DEF Unary, Conversions

LEMMA BinaryTypes ==
  ASSUME NEW k \in Binary, NEW ty, IsOperator(k, ty)
  PROVE  ty \in {"I", "Q", "D"} /\ RetType(k, ty) \in {"I", "Q", "D"}
BY Kinds, Operators, Binaries DEF Arithmetic2

\* One operand.
LEMMA Ins1OK ==
  ASSUME NEW s, WellTyped(s), NEW k \in Unary, NEW ty, IsOperator(k, ty),
         NEW a, Opd(s, a, Formals(k, ty)[1])
  PROVE  Answers(s, Ins1(s, k, ty, a), RetType(k, ty))
<1>1. CASE IsImm(s, a) /\ k # "abs"
  <2>1. Ins1(s, k, ty, a) = InsImm(s, Compute1(k, ty, s[a].v), RetType(k, ty))
    BY <1>1 DEF Ins1, IsImm
  <2>2. s[a].v \in Values(Formals(k, ty)[1])
    BY <1>1, ImmValue
  <2>3. Compute1(k, ty, s[a].v) \in Values(RetType(k, ty))
    BY <2>2, Compute1OK
  <2>4. RetType(k, ty) \in {"I", "Q", "D"}
    BY UnaryTypes
  <2> QED
    BY <2>1, <2>3, <2>4, ImmOK
<1>2. CASE k = "neg" /\ s[a].k = "sub"
  <2>1. TypeOf(s, a) = ty /\ TypeOf(s, a) = s[a].ty /\ Formals("sub", ty) = <<ty, ty>>
    BY <1>2, Kinds DEF Opd, TypeOf, Arithmetic2
  <2>2. Opd(s, Arg(s, a, 1), ty) /\ Opd(s, Arg(s, a, 2), ty)
    <3>1. a \in DOMAIN s /\ Formals(s[a].k, s[a].ty) = <<ty, ty>>
      BY <1>2, <2>1 DEF Opd
    <3>2. 1 \in 1 .. Len(<<ty, ty>>) /\ 2 \in 1 .. Len(<<ty, ty>>)
      OBVIOUS
    <3>3. <<ty, ty>>[1] = ty /\ <<ty, ty>>[2] = ty
      OBVIOUS
    <3>4. Opd(s, Arg(s, a, 1), <<ty, ty>>[1])
      BY <3>1, <3>2, ArgsOK
    <3>5. Opd(s, Arg(s, a, 2), <<ty, ty>>[2])
      BY <3>1, <3>2, ArgsOK
    <3> QED
      BY <3>3, <3>4, <3>5
  <2>3. /\ RetType(k, ty) = RetType("sub", ty) /\ "sub" \in Binary
        /\ IsOperator("sub", ty)
    BY <1>2, Kinds, Operators DEF Arithmetic2, Binary
  <2>4. Answers(s, New(s, Op("sub", ty, <<Arg(s, a, 2), Arg(s, a, 1)>>)), RetType("sub", ty))
    BY <2>1, <2>2, <2>3, Op2OK
  <2> QED
    BY <1>2, <2>3, <2>4 DEF Ins1, IsImm
<1>3. CASE k \in {"neg", "not"} /\ s[a].k = k
  <2>1. TypeOf(s, a) = ty /\ TypeOf(s, a) = s[a].ty /\ Formals(k, ty) = <<ty>>
    BY <1>3, Kinds DEF Opd, TypeOf
  <2>2. Opd(s, Arg(s, a, 1), ty) /\ RetType(k, ty) = ty
    BY <1>3, <2>1, ArgsOK, Kinds DEF Opd
  <2> QED
    BY <1>3, <2>2, OldOK DEF Ins1, IsImm
<1>4. CASE k = "abs" /\ s[a].k = "abs"
  BY <1>4, OldOK, Kinds DEF Ins1, IsImm
<1>5. CASE k = "d2i" /\ s[a].k = "i2d"
  <2>1. Opd(s, Arg(s, a, 1), "I") /\ RetType(k, ty) = "I"
    BY <1>5, ArgsOK, Kinds DEF Opd
  <2> QED
    BY <1>5, <2>1, OldOK DEF Ins1, IsImm
<1>6. CASE k = "d2i" /\ s[a].k = "q2d"
  <2>1. RetType(k, ty) = "I" /\ PointerBits \in Values("I")
    BY <1>6, Kinds, RequestAssumption
  <2>2. Answers(s, InsImm(s, PointerBits, "I"), "I")
    BY <2>1, ImmOK
  <2> QED
    BY <1>6, <2>1, <2>2 DEF Ins1, IsImm
<1>7. CASE /\ ~(IsImm(s, a) /\ k # "abs")
           /\ ~(k = "neg" /\ s[a].k = "sub")
           /\ ~(k \in {"neg", "not"} /\ s[a].k = k)
           /\ ~(k = "abs" /\ s[a].k = "abs")
           /\ ~(k = "d2i" /\ s[a].k \in {"i2d", "q2d"})
  <2>1. Ins1(s, k, ty, a) = New(s, Op(k, ty, <<a>>))
    BY <1>7 DEF Ins1
  <2> QED
    BY <2>1, Op1OK
<1> QED
  BY <1>1, <1>2, <1>3, <1>4, <1>5, <1>6, <1>7

\* Both operands the same.
LEMMA FoldEqualOK ==
  ASSUME NEW s, WellTyped(s), NEW k \in FoldsEqual, NEW a, Opd(s, a, "I")
  PROVE  Answers(s, FoldEqual(s, k, a), "I")
<1>1. k \in {"xor", "sub", "ltu", "gtu", "gt", "lt", "le", "leu", "ge", "geu", "or", "and"}
  BY Binaries DEF FoldsEqual
<1> QED
  <2>1. Answers(s, InsImm(s, 0, "I"), "I") /\ Answers(s, InsImm(s, 1, "I"), "I")
    BY WidthTypes, ImmOK
  <2>2. Answers(s, Old(s, a), "I")
    BY OldOK
  <2> QED
    BY <1>1, <2>1, <2>2 DEF FoldEqual

\* A constant operand goes to the right; the operands keep their types.
LEMMA SwappedOK ==
  ASSUME NEW s, NEW k \in Binary, NEW ty, NEW a, NEW b,
         Opd(s, a, Formals(k, ty)[1]), Opd(s, b, Formals(k, ty)[2]),
         IsOperator(k, ty), NEW t, t = Swapped(s, k, a, b)
  PROVE  /\ t.k \in Binary /\ RetType(t.k, ty) = RetType(k, ty) /\ IsOperator(t.k, ty)
         /\ Opd(s, t.a, Formals(t.k, ty)[1]) /\ Opd(s, t.b, Formals(t.k, ty)[2])
<1>1. CASE t = [k |-> k, a |-> a, b |-> b]
  BY <1>1
<1>2. CASE k \in Commutes /\ t = [k |-> k, a |-> b, b |-> a]
  <2>1. Formals(k, ty) = <<ty, ty>>
    BY <1>2, Kinds, Binaries DEF Commutes, Arithmetic2
  <2> QED
    BY <1>2, <2>1
<1>3. CASE k \in Compares \ {"eq"} /\ t = [k |-> InvertCmp[k], a |-> b, b |-> a]
  <2>1. InvertCmp[k] \in Compares
    BY <1>3, Binaries DEF InvertCmp
  <2>2. /\ Formals(k, ty) = <<ty, ty>> /\ RetType(k, ty) = "I"
        /\ Formals(InvertCmp[k], ty) = <<ty, ty>> /\ RetType(InvertCmp[k], ty) = "I"
    BY <1>3, <2>1, Kinds
  <2>3. t.k = InvertCmp[k] /\ t.a = b /\ t.b = a
    BY <1>3
  <2>4. t.k \in Binary
    BY <2>1, <2>3, Binaries
  <2>5. IsOperator(t.k, ty)
    <3>1. CASE k \in Orders
      <4>1. InvertCmp[k] \in Orders
        BY <3>1, Binaries DEF InvertCmp
      <4> QED
        BY <3>1, <4>1, <2>3, Operators
    <3>2. CASE k \in UnsignedOrders
      <4>1. InvertCmp[k] \in UnsignedOrders
        BY <3>2, Binaries DEF InvertCmp
      <4> QED
        BY <3>2, <4>1, <2>3, Operators
    <3> QED
      BY <1>3, <3>1, <3>2, Binaries
  <2> QED
    BY <2>2, <2>3, <2>4, <2>5
<1> QED
  BY <1>1, <1>2, <1>3 DEF Swapped, Commutes

\* A constant added to or subtracted from a sum with a constant.
LEMMA MergedOK ==
  ASSUME NEW s, WellTyped(s), NEW k \in Binary, NEW a, NEW b,
         Opd(s, a, Formals(k, "I")[1]), Opd(s, b, Formals(k, "I")[2]), IsImm(s, b),
         NEW m, m = Merged(s, k, a, b)
  PROVE  /\ m.k \in Binary /\ RetType(m.k, "I") = RetType(k, "I")
         /\ IsOperator(k, "I") => IsOperator(m.k, "I")
         /\ WellTyped(m.s) /\ Extends(m.s, s)
         /\ Opd(m.s, m.a, Formals(m.k, "I")[1]) /\ Opd(m.s, m.b, Formals(m.k, "I")[2])
<1>1. CASE k \notin {"add", "sub"} \/ ~IsAddOfImm(s, a)
  BY <1>1 DEF Merged, Extends
<1>2. CASE k \in {"add", "sub"} /\ IsAddOfImm(s, a)
  <2> DEFINE c1 == s[Arg(s, a, 2)].v
             c == IF k = "add" THEN c1 + s[b].v ELSE c1 - s[b].v
  <2>1. PICK r : r = InsImm(s, Wrap(c, IntWidth), "I")
    OBVIOUS
  <2>2. m = [s |-> r.ins, k |-> "add", a |-> Arg(s, a, 1), b |-> r.ret]
    BY <1>2, <2>1 DEF Merged
  <2>3. Answers(s, r, "I")
    <3>1. Opd(s, Arg(s, a, 2), "I") /\ IsImm(s, Arg(s, a, 2)) /\ Opd(s, b, "I")
      <4>1. Formals("add", "I") = <<"I", "I">> /\ Formals(k, "I")[2] = "I"
        BY <1>2, Kinds DEF Arithmetic2
      <4>2. s[a].k = "add" /\ s[a].ty = "I" /\ a \in DOMAIN s
        BY <1>2 DEF IsAddOfImm, Is, Opd
      <4> QED
        BY <1>2, <4>1, <4>2, Args2OK DEF IsAddOfImm, IsImmI, Is, IsImm
    <3>2. c1 \in Int /\ s[b].v \in Int
      BY <3>1, ImmValue, WidthTypes
    <3>3. Wrap(c, IntWidth) \in Values("I")
      <4>1. c \in Int
        BY <3>2
      <4> HIDE DEF c
      <4> QED
        BY <4>1, WrapTyped, WidthTypes
    <3> QED
      BY <2>1, <3>3, ImmOK
  <2>4. s[a].k = "add" /\ s[a].ty = "I" /\ a \in DOMAIN s
    BY <1>2 DEF IsAddOfImm, Is, Opd
  <2>5. /\ Formals("add", "I") = <<"I", "I">> /\ RetType(k, "I") = "I"
        /\ RetType("add", "I") = "I"
    BY <1>2, Kinds DEF Arithmetic2
  <2>6. Opd(s, Arg(s, a, 1), "I")
    BY <2>4, <2>5, Args2OK
  <2>7. Opd(r.ins, Arg(s, a, 1), "I")
    BY <2>3, <2>6, OpdStays
  <2>8. Opd(r.ins, r.ret, "I") /\ WellTyped(r.ins) /\ Extends(r.ins, s)
    BY <2>3 DEF Answers, Opd
  <2> QED
    BY <2>2, <2>5, <2>7, <2>8, Binaries, Operators DEF Arithmetic2
<1> QED
  BY <1>1, <1>2

\* A constant on the right that is 0, -1 or 1.
LEMMA FoldByOK ==
  ASSUME NEW s, WellTyped(s), NEW k \in Binary, NEW ty, NEW a, NEW b,
         IsOperator(k, ty), Opd(s, a, Formals(k, ty)[1]), Opd(s, b, Formals(k, ty)[2]),
         NEW c
  PROVE  Answers(s, FoldBy(c, s, k, ty, a, b), RetType(k, ty))
<1> DEFINE plain == New(s, Op(k, ty, <<a, b>>))
<1>1. Answers(s, plain, RetType(k, ty))
  BY Op2OK
<1>2. k \in Shifts \cup Arithmetic2 => Answers(s, Old(s, a), RetType(k, ty))
  BY OldOK, Kinds
<1>3. k \in Arithmetic2 => Answers(s, Old(s, b), RetType(k, ty))
  BY OldOK, Kinds
<1>4. /\ k \in Compares => \A v \in {0, 1} : Answers(s, InsImm(s, v, "I"), RetType(k, ty))
      /\ k \in Compares /\ ty = "I" => Answers(s, Old(s, b), RetType(k, ty))
  <2>1. \A v \in {0, 1} : Answers(s, InsImm(s, v, "I"), "I")
    BY WidthTypes, ImmOK
  <2> QED
    BY <2>1, OldOK, Kinds
<1> HIDE DEF plain
<1>5. Answers(s, FoldZero(s, k, ty, a, b), RetType(k, ty))
  <2>1. CASE k \in Shifts \cup {"add", "or", "xor", "sub"}
    <3>1. FoldZero(s, k, ty, a, b) = Old(s, a)
      BY <2>1, Binaries DEF FoldZero
    <3> QED
      BY <1>2, <2>1, <3>1 DEF Arithmetic2
  <2>2. CASE k \in {"and", "mul"}
    <3>1. FoldZero(s, k, ty, a, b) = Old(s, b)
      BY <2>2, Binaries DEF FoldZero
    <3> QED
      BY <1>3, <2>2, <3>1 DEF Arithmetic2
  <2>3. CASE k \in Compares
    <3>1. \/ FoldZero(s, k, ty, a, b) = Old(s, b) /\ ty = "I"
          \/ FoldZero(s, k, ty, a, b) = InsImm(s, 0, "I")
          \/ FoldZero(s, k, ty, a, b) = InsImm(s, 1, "I")
          \/ FoldZero(s, k, ty, a, b) = plain
      BY <2>3, Binaries DEF FoldZero, plain
    <3> QED
      BY <1>1, <1>4, <2>3, <3>1
  <2> QED
    BY <2>1, <2>2, <2>3, Binaries DEF Arithmetic2
<1>6. Answers(s, FoldMinusOne(s, k, ty, a, b), RetType(k, ty))
  <2>1. \/ k = "or" /\ FoldMinusOne(s, k, ty, a, b) = Old(s, b)
        \/ k = "and" /\ FoldMinusOne(s, k, ty, a, b) = Old(s, a)
        \/ k = "gtu" /\ FoldMinusOne(s, k, ty, a, b) = InsImm(s, 0, "I")
        \/ k = "leu" /\ FoldMinusOne(s, k, ty, a, b) = InsImm(s, 1, "I")
        \/ FoldMinusOne(s, k, ty, a, b) = plain
    BY DEF FoldMinusOne, plain
  <2> QED
    BY <1>1, <1>2, <1>3, <1>4, <2>1, Binaries DEF Arithmetic2
<1>7. Answers(s, FoldOne(s, k, ty, a, b), RetType(k, ty))
  <2>1. \/ k = "or" /\ FoldOne(s, k, ty, a, b) = Old(s, b)
        \/ k \in {"and", "mul"} /\ FoldOne(s, k, ty, a, b) = Old(s, a)
        \/ k = "gtu" /\ FoldOne(s, k, ty, a, b) = InsImm(s, 0, "I")
        \/ FoldOne(s, k, ty, a, b) = plain
    BY DEF FoldOne, plain
  <2> QED
    BY <1>1, <1>2, <1>3, <1>4, <2>1, Binaries DEF Arithmetic2
<1>8. \/ FoldBy(c, s, k, ty, a, b) = FoldZero(s, k, ty, a, b)
      \/ FoldBy(c, s, k, ty, a, b) = FoldMinusOne(s, k, ty, a, b)
      \/ FoldBy(c, s, k, ty, a, b) = FoldOne(s, k, ty, a, b)
      \/ FoldBy(c, s, k, ty, a, b) = plain
  BY DEF FoldBy, plain
<1> QED
  BY <1>1, <1>5, <1>6, <1>7, <1>8

\* A constant on the right, or none.
LEMMA FoldRhsOK ==
  ASSUME NEW s, WellTyped(s), NEW k \in Binary, NEW ty, IsOperator(k, ty), NEW a, NEW b,
         Opd(s, a, Formals(k, ty)[1]), Opd(s, b, Formals(k, ty)[2])
  PROVE  Answers(s, FoldRhs(s, k, ty, a, b), RetType(k, ty))
<1>1. CASE ~IsImm(s, b) \/ s[b].ty = "D"
  BY <1>1, Op2OK DEF FoldRhs
<1>2. CASE IsImm(s, b) /\ s[b].ty # "D" /\ SignExtends(s, k, ty, a, b)
  <2>1. k = "rsh" /\ ty = "I" /\ s[a].k = "lsh" /\ s[a].ty = "I"
    BY <1>2 DEF SignExtends, Is
  <2>2. Formals("lsh", "I") = <<"I", "I">> /\ RetType(k, ty) = "I"
    BY <2>1, Kinds, Binaries
  <2>3. Opd(s, Arg(s, a, 1), "I")
    BY <2>1, <2>2, Args2OK DEF Opd
  <2> QED
    BY <1>2, <2>2, <2>3, OldOK DEF FoldRhs
<1>3. CASE IsImm(s, b) /\ s[b].ty # "D" /\ ~SignExtends(s, k, ty, a, b) /\ ty # "I"
  BY <1>3, FoldByOK DEF FoldRhs
<1>4. CASE IsImm(s, b) /\ s[b].ty # "D" /\ ~SignExtends(s, k, ty, a, b) /\ ty = "I"
  <2>1. PICK m : m = Merged(s, k, a, b)
    OBVIOUS
  <2>2. /\ m.k \in Binary /\ RetType(m.k, "I") = RetType(k, "I") /\ IsOperator(m.k, "I")
        /\ WellTyped(m.s) /\ Extends(m.s, s)
        /\ Opd(m.s, m.a, Formals(m.k, "I")[1]) /\ Opd(m.s, m.b, Formals(m.k, "I")[2])
    BY <1>4, <2>1, MergedOK
  <2>3. PICK r : r = FoldBy(m.s[m.b].v, m.s, m.k, ty, m.a, m.b)
    OBVIOUS
  <2>4. Answers(m.s, r, RetType(m.k, ty))
    BY <1>4, <2>2, <2>3, FoldByOK
  <2>5. FoldRhs(s, k, ty, a, b) = r
    BY <1>4, <2>1, <2>3 DEF FoldRhs
  <2> QED
    BY <1>4, <2>2, <2>4, <2>5 DEF Answers, Extends
<1> QED
  BY <1>1, <1>2, <1>3, <1>4

\* Two operands.
LEMMA Ins2OK ==
  ASSUME NEW s, WellTyped(s), NEW k \in Binary, NEW ty, IsOperator(k, ty), NEW a, NEW b,
         Opd(s, a, Formals(k, ty)[1]), Opd(s, b, Formals(k, ty)[2])
  PROVE  Answers(s, Ins2(s, k, ty, a, b), RetType(k, ty))
<1> DEFINE equal == a = b /\ ty = "I" /\ k \in FoldsEqual
           const == IsImm(s, a) /\ IsImm(s, b) /\ FoldsConstants(k, ty, s[a].v, s[b].v)
<1>1. CASE equal
  <2>1. RetType(k, "I") = "I" /\ Formals(k, "I")[1] = "I"
    BY <1>1, Kinds, Binaries DEF Arithmetic2
  <2>2. Answers(s, FoldEqual(s, k, a), "I")
    BY <1>1, <2>1, FoldEqualOK
  <2> QED
    BY <1>1, <2>1, <2>2 DEF Ins2
<1>2. CASE ~equal /\ const
  <2>1. Ins2(s, k, ty, a, b) = InsImm(s, Compute2(k, ty, s[a].v, s[b].v), RetType(k, ty))
    BY <1>2 DEF Ins2
  <2>2. s[a].v \in Values(Formals(k, ty)[1]) /\ s[b].v \in Values(Formals(k, ty)[2])
    BY <1>2, ImmValue
  <2>3. Compute2(k, ty, s[a].v, s[b].v) \in Values(RetType(k, ty))
    BY <2>2, Compute2OK
  <2> QED
    BY <2>1, <2>3, BinaryTypes, ImmOK
<1>3. CASE ~equal /\ ~const
  <2>1. PICK t : t = Swapped(s, k, a, b)
    OBVIOUS
  <2>2. Ins2(s, k, ty, a, b) = FoldRhs(s, t.k, ty, t.a, t.b)
    BY <1>3, <2>1 DEF Ins2
  <2>3. /\ t.k \in Binary /\ RetType(t.k, ty) = RetType(k, ty) /\ IsOperator(t.k, ty)
        /\ Opd(s, t.a, Formals(t.k, ty)[1]) /\ Opd(s, t.b, Formals(t.k, ty)[2])
    BY <2>1, SwappedOK
  <2>4. Answers(s, FoldRhs(s, t.k, ty, t.a, t.b), RetType(t.k, ty))
    BY <2>3, FoldRhsOK
  <2> QED
    BY <2>2, <2>3, <2>4
<1> QED
  BY <1>1, <1>2, <1>3

\* Stripping a condition of comparisons with zero, one after the other.  It is
\* defined as each instruction's operands are written before it.
StripsTo(s, i, t) ==
  /\ IsEqToZero(s, i) =>
       /\ Arg(s, i, 1) \in 1 .. i - 1 /\ IsCmp(s, Arg(s, i, 1))
       /\ t = [Stripped(s, Arg(s, i, 1)) EXCEPT !.odd = ~@]
  /\ ~IsEqToZero(s, i) => t = [c |-> i, odd |-> FALSE]

LEMMA StripStep ==
  ASSUME NEW s, WellTyped(s)
  PROVE  \A i \in DOMAIN s : StripsTo(s, i, Stripped(s, i))
<1> DEFINE Body(f, i) == IF IsEqToZero(s, i)
                           THEN [f[Arg(s, i, 1)] EXCEPT !.odd = ~@]
                           ELSE [c |-> i, odd |-> FALSE]
           Solves(f, n) == f = [i \in 1 .. n |-> Body(f, i)]
           S == {n \in Nat : n <= Len(s) => \E f : Solves(f, n)}
<1>1. s \in Seq({s[i] : i \in DOMAIN s}) /\ DOMAIN s = 1 .. Len(s) /\ Len(s) \in Nat
  BY DEF WellTyped
<1>2. ASSUME NEW i \in DOMAIN s, IsEqToZero(s, i)
      PROVE  Arg(s, i, 1) \in 1 .. i - 1 /\ IsCmp(s, Arg(s, i, 1))
  <2>1. s[i].k = "eq" /\ s[i].ty = "I" /\ IsCmp(s, Arg(s, i, 1))
    BY <1>2 DEF IsEqToZero, Is
  <2>2. Len(Formals(s[i].k, s[i].ty)) = 2
    BY <2>1, Kinds, Binaries
  <2>3. \A n \in 1 .. Len(Formals(s[i].k, s[i].ty)) : Arg(s, i, n) \in 1 .. i - 1
    BY ArgsOK
  <2>4. Arg(s, i, 1) \in 1 .. i - 1
    BY <2>2, <2>3
  <2> QED
    BY <2>1, <2>4
<1>3. 0 \in S
  <2>1. Solves([i \in 1 .. 0 |-> 0], 0)
    OBVIOUS
  <2> QED
    BY <2>1
<1> HIDE DEF Body
<1>4. ASSUME NEW n \in Nat, n + 1 <= Len(s), NEW f, Solves(f, n)
      PROVE  \E g : Solves(g, n + 1)
  <2>1. PICK g : g = [i \in 1 .. n + 1 |-> IF i <= n THEN f[i] ELSE Body(f, n + 1)]
    OBVIOUS
  <2>2. \A i \in 1 .. n : g[i] = f[i] /\ f[i] = Body(f, i)
    <3>1. PICK h : h = [i \in 1 .. n |-> Body(f, i)]
      OBVIOUS
    <3>2. h = f /\ \A i \in 1 .. n : h[i] = Body(f, i)
      BY <1>4, <3>1
    <3> QED
      BY <2>1, <3>2
  <2>3. g[n + 1] = Body(f, n + 1)
    BY <2>1
  <2>4. ASSUME NEW i \in 1 .. n + 1 PROVE Body(g, i) = Body(f, i)
    <3>1. i \in DOMAIN s
      BY <1>1, <1>4
    <3>2. IsEqToZero(s, i) => Arg(s, i, 1) \in 1 .. n
      BY <1>2, <3>1
    <3>3. IsEqToZero(s, i) => g[Arg(s, i, 1)] = f[Arg(s, i, 1)]
      BY <2>2, <3>2
    <3> QED
      BY <3>3 DEF Body
  <2>5. \A i \in 1 .. n + 1 : g[i] = Body(g, i)
    <3>1. \A i \in 1 .. n + 1 : i = n + 1 \/ i \in 1 .. n
      OBVIOUS
    <3> QED
      BY <2>2, <2>3, <2>4, <3>1
  <2> QED
    BY <2>1, <2>5
<1>5. \E f : Solves(f, Len(s))
  <2>1. 0 \in S
    BY <1>3
  <2>2. \A n \in Nat : n \in S => n + 1 \in S
    BY <1>1, <1>4
  <2>3. S = {n \in Nat : n <= Len(s) => \E f : Solves(f, n)}
    OBVIOUS
  <2> HIDE DEF S
  <2>4. Len(s) \in S
    BY <1>1, <2>1, <2>2, NatInduct
  <2> QED
    BY <1>1, <2>3, <2>4
<1> DEFINE strip[i \in DOMAIN s] ==
             IF IsEqToZero(s, i) THEN [strip[Arg(s, i, 1)] EXCEPT !.odd = ~@]
                                 ELSE [c |-> i, odd |-> FALSE]
<1>6. strip = [i \in DOMAIN s |-> Body(strip, i)]
  <2>1. \E f : f = [i \in DOMAIN s |->
                      IF IsEqToZero(s, i) THEN [f[Arg(s, i, 1)] EXCEPT !.odd = ~@]
                                          ELSE [c |-> i, odd |-> FALSE]]
    <3>1. \E f : f = [i \in DOMAIN s |-> Body(f, i)]
      BY <1>1, <1>5
    <3> QED
      BY <3>1, Zenon DEF Body
  <2>2. strip = [i \in DOMAIN s |->
                  IF IsEqToZero(s, i) THEN [strip[Arg(s, i, 1)] EXCEPT !.odd = ~@]
                                      ELSE [c |-> i, odd |-> FALSE]]
    BY <2>1, Zenon
  <2> QED
    BY <2>2, Zenon DEF Body
<1>7. \A i : Stripped(s, i) = strip[i]
  BY DEF Stripped
<1>8. PICK f : f = [i \in DOMAIN s |-> Body(f, i)] /\ f = strip
  BY <1>6
<1> HIDE DEF strip
<1>9. \A i \in DOMAIN s : f[i] = Body(f, i)
  <2>1. PICK h : h = [i \in DOMAIN s |-> Body(f, i)]
    OBVIOUS
  <2>2. h = f /\ \A i \in DOMAIN s : h[i] = Body(f, i)
    BY <1>8, <2>1
  <2> QED
    BY <2>2
<1>10. \A i : Stripped(s, i) = f[i]
  BY <1>7, <1>8
<1> QED
  BY <1>2, <1>9, <1>10 DEF Body, StripsTo

\* What is left of a condition when comparisons with zero are stripped from it
\* is a condition.
LEMMA StrippedOK ==
  ASSUME NEW s, WellTyped(s), NEW c \in DOMAIN s, IsCmp(s, c)
  PROVE  /\ Stripped(s, c) \in [c : DOMAIN s, odd : BOOLEAN]
         /\ IsCmp(s, Stripped(s, c).c)
<1> DEFINE Right(i) == /\ Stripped(s, i) \in [c : DOMAIN s, odd : BOOLEAN]
                       /\ IsCmp(s, i) => IsCmp(s, Stripped(s, i).c)
           T == {i \in 1 .. Len(s) : ~Right(i)}
<1>1. DOMAIN s = 1 .. Len(s) /\ Len(s) \in Nat
  BY DEF WellTyped
<1>2. ASSUME NEW i \in DOMAIN s, \A j \in 1 .. i - 1 : Right(j)
       PROVE  Right(i)
  <2>1. StripsTo(s, i, Stripped(s, i))
    BY StripStep
  <2>2. CASE IsEqToZero(s, i)
    <3>1. PICK j : j = Arg(s, i, 1)
      OBVIOUS
    <3>2. j \in 1 .. i - 1 /\ IsCmp(s, j) /\ Stripped(s, i) = [Stripped(s, j) EXCEPT !.odd = ~@]
      BY <2>1, <2>2, <3>1 DEF StripsTo
    <3>3. PICK x : x = Stripped(s, j)
      OBVIOUS
    <3>4. x \in [c : DOMAIN s, odd : BOOLEAN] /\ IsCmp(s, x.c)
      BY <1>2, <3>2, <3>3
    <3>5. PICK y : y = [x EXCEPT !.odd = ~@]
      OBVIOUS
    <3>6. y \in [c : DOMAIN s, odd : BOOLEAN] /\ y.c = x.c
      BY <3>4, <3>5
    <3> QED
      BY <3>2, <3>3, <3>4, <3>5, <3>6
  <2>3. CASE ~IsEqToZero(s, i)
    <3>1. Stripped(s, i) = [c |-> i, odd |-> FALSE]
      BY <2>1, <2>3 DEF StripsTo
    <3> QED
      BY <3>1
  <2> QED
    BY <2>2, <2>3
<1> HIDE DEF Right
<1>3. T = {}
  <2> SUFFICES ASSUME T # {} PROVE FALSE
    OBVIOUS
  <2>1. T \in SUBSET Nat /\ T # {} /\ T = {i \in 1 .. Len(s) : ~Right(i)}
    BY <1>1
  <2> HIDE DEF T
  <2>2. PICK x \in T : \A y \in T : x <= y
    BY <2>1, NatLeast
  <2>3. x \in 1 .. Len(s) /\ ~Right(x)
    BY <2>1
  <2>4. \A j \in 1 .. x - 1 : j \in 1 .. Len(s) /\ j \notin T
    BY <1>1, <2>2, <2>3
  <2>5. \A j \in 1 .. x - 1 : Right(j)
    BY <2>1, <2>4
  <2> QED
    BY <1>1, <1>2, <2>3, <2>5
<1>4. Right(c)
  BY <1>1, <1>3
<1> QED
  BY <1>4 DEF Right

\* A choice between two values.
LEMMA Ins3OK ==
  ASSUME NEW s, WellTyped(s), NEW ty \in {"I", "Q", "D"},
         NEW c, Opd(s, c, "I"), IsCmp(s, c) \/ IsImmI(s, c),
         NEW a, Opd(s, a, ty), NEW b, Opd(s, b, ty)
  PROVE  Answers(s, Ins3(s, ty, c, a, b), ty)
<1> DEFINE x == Op("cmov", ty, <<c, a, b>>)
<1>1. /\ x.args = <<c, a, b>> /\ x.k = "cmov" /\ x.ty = ty
      /\ Formals(x.k, x.ty) = <<"I", ty, ty>> /\ RetType(x.k, x.ty) = ty
  BY Kinds DEF Op
<1> HIDE DEF x
<1>2. /\ x.args \in Seq(DOMAIN s) /\ TypeCheckArgs(s, x) /\ CheckIsACond(s, x)
      /\ WellFormed(x)
  BY <1>1, Operators DEF TypeCheckArgs, CheckIsACond, Opd, WellFormed
<1>3. Answers(s, New(s, x), ty)
  BY <1>1, <1>2, NewOK
<1>4. Answers(s, Old(s, a), ty) /\ Answers(s, Old(s, b), ty)
  BY OldOK
<1>5. \/ Ins3(s, ty, c, a, b) = Old(s, a)
      \/ Ins3(s, ty, c, a, b) = Old(s, b)
      \/ Ins3(s, ty, c, a, b) = New(s, x)
  BY DEF Ins3, x
<1> QED
  BY <1>3, <1>4, <1>5

\* Guards and branches are written on conditions, or on nothing, or not at all.
LEMMA ConditionalOK ==
  ASSUME NEW s, WellTyped(s), NEW k \in {"xt", "xf", "jt", "jf"}, NEW always \in {"x", "j"},
         NEW c \in DOMAIN s, IsCmp(s, c) \/ IsImmI(s, c)
  PROVE  /\ WellTyped(Conditional(s, k, always, c).ins)
         /\ Extends(Conditional(s, k, always, c).ins, s)
<1>1. CASE IsImmI(s, c)
  <2>1. PICK x : x = Op(always, "V", <<>>)
    OBVIOUS
  <2>2. /\ x.args = <<>> /\ x.k \in {"x", "j"} /\ x.ty = "V"
        /\ Formals(x.k, x.ty) = <<>>
    BY <2>1 DEF Op, Formals, Conversions, Shifts
  <2>3. /\ x.args \in Seq(DOMAIN s) /\ TypeCheckArgs(s, x) /\ CheckIsACond(s, x)
        /\ WellFormed(x)
    BY <2>2, Operators DEF TypeCheckArgs, CheckIsACond, WellFormed
  <2>4. Answers(s, New(s, x), RetType(x.k, x.ty))
    BY <2>2, <2>3, NewOK
  <2>5. \/ Conditional(s, k, always, c) = Old(s, 0)
        \/ Conditional(s, k, always, c) = New(s, x)
    BY <1>1, <2>1 DEF Conditional
  <2>6. WellTyped(Old(s, 0).ins) /\ Extends(Old(s, 0).ins, s)
    BY DEF Old, Extends
  <2> QED
    BY <2>4, <2>5, <2>6 DEF Answers
<1>2. CASE ~IsImmI(s, c)
  <2>1. PICK t : t = Stripped(s, c)
    OBVIOUS
  <2>2. t.c \in DOMAIN s /\ IsCmp(s, t.c)
    BY <1>2, <2>1, StrippedOK
  <2>3. PICK j : j = IF t.odd THEN InvertCond[k] ELSE k
    OBVIOUS
  <2>4. j \in {"xt", "xf", "jt", "jf"}
    BY <2>3 DEF InvertCond
  <2>5. PICK x : x = Op(j, "V", <<t.c>>)
    OBVIOUS
  <2>6. x.args = <<t.c>> /\ x.k = j /\ x.ty = "V" /\ Formals(x.k, x.ty) = <<"I">>
    BY <2>4, <2>5 DEF Op, Formals, Conversions, Shifts
  <2>7. TypeOf(s, t.c) = "I"
    BY <2>2, Kinds DEF TypeOf, IsCmp
  <2>8. /\ x.args \in Seq(DOMAIN s) /\ TypeCheckArgs(s, x) /\ CheckIsACond(s, x)
        /\ WellFormed(x)
    BY <2>2, <2>4, <2>6, <2>7, Operators DEF TypeCheckArgs, CheckIsACond, WellFormed
  <2>9. Answers(s, New(s, x), RetType(x.k, x.ty))
    BY <2>4, <2>6, <2>8, NewOK
  <2>10. Conditional(s, k, always, c) = New(s, x)
    BY <1>2, <2>1, <2>3, <2>5 DEF Conditional
  <2> QED
    BY <2>9, <2>10 DEF Answers
<1> QED
  BY <1>1, <1>2

\* Arithmetic that exits or jumps on overflow.
LEMMA OverflowOK ==
  ASSUME NEW s, WellTyped(s), NEW k \in {"addx", "subx", "mulx"},
         NEW a, Opd(s, a, "I"), NEW b, Opd(s, b, "I")
  PROVE  Answers(s, SimplifyOverflowArith(s, k, a, b), "I")
<1>1. Formals(k, "I") = <<"I", "I">> /\ RetType(k, "I") = "I" /\ IsOperator(k, "I")
  BY Kinds, Operators
<1>2. ASSUME NEW l \in {a, b}, NEW r \in {a, b}
      PROVE  Answers(s, New(s, Op(k, "I", <<l, r>>)), "I")
  <2>1. Opd(s, l, Formals(k, "I")[1]) /\ Opd(s, r, Formals(k, "I")[2])
    BY <1>1
  <2> QED
    BY <1>1, <2>1, Op2OK
<1>3. Answers(s, Old(s, a), "I") /\ Answers(s, Old(s, b), "I")
  BY OldOK
<1> DEFINE v == Exact(k, s[a].v, s[b].v)
<1>4. IsImmI(s, a) /\ IsImmI(s, b) /\ InWidth(v, IntWidth) =>
        Answers(s, InsImm(s, v, "I"), "I")
  <2> SUFFICES ASSUME IsImmI(s, a), IsImmI(s, b), InWidth(v, IntWidth)
               PROVE  v \in Values("I")
    BY ImmOK
  <2>1. s[a].v \in Int /\ s[b].v \in Int
    BY ImmValue, WidthTypes DEF IsImmI, Is, IsImm
  <2>2. v \in Int
    <3>1. s[a].v + s[b].v \in Int /\ s[a].v - s[b].v \in Int /\ s[a].v * s[b].v \in Int
      BY <2>1
    <3> QED
      BY <3>1 DEF Exact
  <2>3. MinOf(IntWidth) \in Int /\ MaxOf(IntWidth) \in Int
    BY WidthTypes, WidthOK
  <2> QED
    BY <2>2, <2>3, WidthTypes DEF InWidth
<1> HIDE DEF v
<1> DEFINE e == SimplifyOverflowArith(s, k, a, b)
<1>5. \/ /\ IsImmI(s, a) /\ IsImmI(s, b) /\ InWidth(v, IntWidth)
         /\ e = InsImm(s, v, "I")
      \/ \E l \in {a, b} : e = Old(s, l)
      \/ \E l, r \in {a, b} : e = New(s, Op(k, "I", <<l, r>>))
  BY DEF SimplifyOverflowArith, v
<1> QED
  BY <1>2, <1>3, <1>4, <1>5

\* Loads.
LEMMA InsLoadOK ==
  ASSUME NEW s, WellTyped(s), NEW base, Opd(s, base, "Q"), NEW d \in Int
  PROVE  Answers(s, InsLoad(s, base, d), "Q")
<1>1. ASSUME NEW t, WellTyped(t), NEW i, Opd(t, i, "Q"), NEW e \in Int
      PROVE  Answers(t, New(t, Ld(i, e)), "Q")
  <2>1. PICK x : x = Ld(i, e)
    OBVIOUS
  <2>2. /\ x.args = <<i>> /\ x.k = "ld" /\ x.ty = "Q" /\ x.v = e
        /\ Formals(x.k, x.ty) = <<"Q">> /\ RetType(x.k, x.ty) = "Q"
    BY <2>1, Kinds DEF Ld
  <2>3. /\ x.args \in Seq(DOMAIN t) /\ TypeCheckArgs(t, x) /\ CheckIsACond(t, x)
        /\ WellFormed(x)
    BY <1>1, <2>2, Operators DEF TypeCheckArgs, CheckIsACond, Opd, WellFormed
  <2> QED
    BY <1>1, <2>1, <2>2, <2>3, NewOK
<1>2. CASE ~(Is(s, base, "imm", "Q") /\ d \notin SmallOffsets)
  BY <1>1, <1>2 DEF InsLoad
<1>3. CASE Is(s, base, "imm", "Q") /\ d \notin SmallOffsets
  <2>1. PICK r : r = InsImm(s, Wrap(s[base].v + d, QuadWidth), "Q")
    OBVIOUS
  <2>2. Answers(s, r, "Q")
    <3>1. s[base].v \in Int
      BY <1>3, ImmValue, WidthTypes DEF Is, IsImm
    <3>2. s[base].v + d \in Int
      BY <3>1
    <3>3. Wrap(s[base].v + d, QuadWidth) \in Values("Q")
      BY <3>2, WrapTyped, WidthTypes
    <3> QED
      BY <2>1, <3>3, ImmOK
  <2>3. Answers(r.ins, New(r.ins, Ld(r.ret, 0)), "Q")
    BY <1>1, <2>2 DEF Answers, Opd
  <2>4. InsLoad(s, base, d) = New(r.ins, Ld(r.ret, 0))
    BY <1>3, <2>1 DEF InsLoad
  <2> QED
    BY <2>2, <2>3, <2>4, Chain
<1> QED
  BY <1>2, <1>3

\* Comparing with zero.  Of a constant that is a constant.
LEMMA InsEqI0OK ==
  ASSUME NEW s, WellTyped(s), NEW c, Opd(s, c, "I"), NEW r, r = InsEqI0(s, c)
  PROVE  /\ Answers(s, r, "I")
         /\ IsImmI(s, c) => IsImmI(r.ins, r.ret)
<1>1. PICK z : z = InsImm(s, 0, "I")
  OBVIOUS
<1>2. Answers(s, z, "I") /\ IsImm(z.ins, z.ret)
  BY <1>1, ImmOK, WidthTypes
<1>3. Opd(z.ins, c, "I") /\ Opd(z.ins, z.ret, "I") /\ z.ins[c] = s[c]
  BY <1>2, OpdStays DEF Answers, Opd
<1>4. r = Ins2(z.ins, "eq", "I", c, z.ret)
  BY <1>1 DEF InsEqI0
<1>5. /\ Formals("eq", "I") = <<"I", "I">> /\ RetType("eq", "I") = "I"
      /\ "eq" \in Binary /\ "eq" \in Compares /\ IsOperator("eq", "I")
  BY Kinds, Binaries, Operators
<1>6. Answers(z.ins, r, "I")
  <2>1. WellTyped(z.ins)
    BY <1>2 DEF Answers
  <2>2. Opd(z.ins, c, Formals("eq", "I")[1]) /\ Opd(z.ins, z.ret, Formals("eq", "I")[2])
    BY <1>3, <1>5
  <2> QED
    BY <1>4, <1>5, <2>1, <2>2, Ins2OK
<1>7. ASSUME IsImmI(s, c) PROVE IsImmI(r.ins, r.ret)
  <2>1. IsImm(z.ins, c) /\ "eq" \notin FoldsEqual
    BY <1>3, <1>7 DEF IsImmI, Is, IsImm, FoldsEqual
  <2>2. PICK v : v = Compute2("eq", "I", z.ins[c].v, z.ins[z.ret].v)
    BY SMTT(30)
  <2>3. r = InsImm(z.ins, v, "I")
    BY <1>2, <1>4, <1>5, <2>1, <2>2 DEF Ins2, FoldsConstants
  <2>4. IsImm(r.ins, r.ret)
    <3>1. /\ WellTyped(z.ins) /\ s[c].v \in Values("I") /\ z.ins[z.ret].v \in Values("I")
          /\ z.ins[c].v = s[c].v
      BY <1>2, <1>3, <2>1, ImmValue DEF Answers
    <3>2. v \in Values("I")
      BY <1>5, <2>2, <3>1, Compute2OK
    <3> QED
      BY <2>3, <3>1, <3>2, ImmOK
  <2>5. TypeOf(r.ins, r.ret) = r.ins[r.ret].ty
    BY <2>4, Kinds DEF TypeOf, IsImm
  <2> QED
    BY <1>6, <2>4, <2>5 DEF Answers, IsImmI, Is, IsImm
<1> QED
  BY <1>2, <1>6, <1>7, Chain

\* The same for one operand, or two, of type int.
LEMMA IntOpOK ==
  ASSUME NEW s, NEW p, Answers(s, p, "I"), NEW a, Opd(p.ins, a, "I")
  PROVE  /\ \A k \in {"neg", "not"} : Answers(s, Ins1(p.ins, k, "I", a), "I")
         /\ \A k \in {"and", "or"} : \A b :
              Opd(p.ins, b, "I") => Answers(s, Ins2(p.ins, k, "I", a, b), "I")
<1>1. WellTyped(p.ins)
  BY DEF Answers
<1>2. ASSUME NEW k \in {"neg", "not"}
      PROVE  Answers(s, Ins1(p.ins, k, "I", a), "I")
  <2>1. /\ Formals(k, "I") = <<"I">> /\ RetType(k, "I") = "I" /\ k \in Unary
        /\ IsOperator(k, "I")
    BY Kinds, Operators DEF Unary
  <2>2. Opd(p.ins, a, Formals(k, "I")[1])
    BY <2>1
  <2>3. Answers(p.ins, Ins1(p.ins, k, "I", a), "I")
    BY <1>1, <2>1, <2>2, Ins1OK
  <2> QED
    BY <2>3, Chain
<1>3. ASSUME NEW k \in {"and", "or"}, NEW b, Opd(p.ins, b, "I")
      PROVE  Answers(s, Ins2(p.ins, k, "I", a, b), "I")
  <2>1. /\ Formals(k, "I") = <<"I", "I">> /\ RetType(k, "I") = "I" /\ k \in Binary
        /\ IsOperator(k, "I")
    BY Kinds, Binaries, Operators DEF Arithmetic2
  <2>2. Opd(p.ins, a, Formals(k, "I")[1]) /\ Opd(p.ins, b, Formals(k, "I")[2])
    BY <1>3, <2>1
  <2>3. Answers(p.ins, Ins2(p.ins, k, "I", a, b), "I")
    BY <1>1, <2>1, <2>2, Ins2OK
  <2> QED
    BY <2>3, Chain
<1> QED
  BY <1>2, <1>3

\* A choice, with a conditional move or with masks: what is written for it, one
\* answer after the other.
ChoosesBy(s, c, t, f, q, p, n, x, m, y) ==
  /\ \/ IsCmp(s, c) /\ p = Old(s, c) /\ q.t = t /\ q.f = f
     \/ ~IsCmp(s, c) /\ p = InsEqI0(s, c) /\ q.t = f /\ q.f = t
  /\ n = Ins1(p.ins, "neg", "I", p.ret) /\ x = Ins2(n.ins, "and", "I", q.t, n.ret)
  /\ m = Ins1(x.ins, "not", "I", n.ret) /\ y = Ins2(m.ins, "and", "I", q.f, m.ret)
  /\ IsCmp(p.ins, p.ret) \/ IsImmI(p.ins, p.ret)
  /\ Answers(s, p, "I") /\ Answers(p.ins, n, "I") /\ Answers(n.ins, x, "I")
  /\ Answers(x.ins, m, "I") /\ Answers(m.ins, y, "I")
  /\ Opd(s, q.t, "I") /\ Opd(s, q.f, "I")
  /\ Opd(p.ins, p.ret, "I") /\ Opd(p.ins, q.t, "I") /\ Opd(p.ins, q.f, "I")
  /\ Opd(n.ins, n.ret, "I") /\ Opd(n.ins, q.t, "I") /\ Opd(x.ins, n.ret, "I")
  /\ Opd(m.ins, m.ret, "I") /\ Opd(m.ins, q.f, "I")
  /\ Opd(y.ins, x.ret, "I") /\ Opd(y.ins, y.ret, "I")

LEMMA ChooseSteps ==
  ASSUME NEW s, WellTyped(s), NEW c, Opd(s, c, "I"), IsCmp(s, c) \/ IsImmI(s, c),
         NEW t, Opd(s, t, "I"), NEW f, Opd(s, f, "I"), NEW useCmov \in BOOLEAN
  PROVE  \E q, p, n, x, m, y :
           /\ ChoosesBy(s, c, t, f, q, p, n, x, m, y)
           /\ InsChoose(s, c, t, f, useCmov) =
                IF useCmov THEN Ins3(p.ins, "I", p.ret, q.t, q.f)
                           ELSE Ins2(y.ins, "or", "I", x.ret, y.ret)
<1>1. PICK q : q = IF IsCmp(s, c) THEN [r |-> Old(s, c), t |-> t, f |-> f]
                                  ELSE [r |-> InsEqI0(s, c), t |-> f, f |-> t]
  OBVIOUS
<1>2. PICK p : p = q.r
  OBVIOUS
<1>3. \/ IsCmp(s, c) /\ p = Old(s, c) /\ q.t = t /\ q.f = f
      \/ ~IsCmp(s, c) /\ p = InsEqI0(s, c) /\ q.t = f /\ q.f = t
  BY <1>1, <1>2
<1>4. /\ Answers(s, p, "I") /\ Opd(s, q.t, "I") /\ Opd(s, q.f, "I")
      /\ IsCmp(p.ins, p.ret) \/ IsImmI(p.ins, p.ret)
  <2>1. CASE IsCmp(s, c)
    BY <1>1, <1>2, <2>1, OldOK DEF Old
  <2>2. CASE ~IsCmp(s, c)
    <3>1. p = InsEqI0(s, c) /\ q.t = f /\ q.f = t
      BY <1>1, <1>2, <2>2
    <3> QED
      BY <2>2, <3>1, InsEqI0OK
  <2> QED
    BY <2>1, <2>2
<1>5. /\ WellTyped(p.ins) /\ Opd(p.ins, p.ret, "I")
      /\ Opd(p.ins, q.t, "I") /\ Opd(p.ins, q.f, "I")
  BY <1>4, OpdStays DEF Answers, Opd
<1>6. PICK n : n = Ins1(p.ins, "neg", "I", p.ret)
  OBVIOUS
<1>7. PICK x : x = Ins2(n.ins, "and", "I", q.t, n.ret)
  OBVIOUS
<1>8. PICK m : m = Ins1(x.ins, "not", "I", n.ret)
  OBVIOUS
<1>9. PICK y : y = Ins2(m.ins, "and", "I", q.f, m.ret)
  OBVIOUS
<1>10. Answers(p.ins, p, "I")
  BY <1>5 DEF Answers, Extends, Opd
<1>11. Answers(p.ins, n, "I")
  BY <1>5, <1>6, <1>10, IntOpOK
<1>12. Opd(n.ins, n.ret, "I") /\ Opd(n.ins, q.t, "I") /\ Opd(n.ins, q.f, "I")
  BY <1>5, <1>11, OpdStays DEF Answers, Opd
<1>13. Answers(n.ins, n, "I")
  BY <1>11, <1>12 DEF Answers, Extends, Opd
<1>14. Answers(n.ins, x, "I")
  BY <1>7, <1>12, <1>13, IntOpOK
<1>15. Opd(x.ins, x.ret, "I") /\ Opd(x.ins, n.ret, "I") /\ Opd(x.ins, q.f, "I")
  BY <1>12, <1>14, OpdStays DEF Answers, Opd
<1>16. Answers(x.ins, x, "I")
  BY <1>14, <1>15 DEF Answers, Extends, Opd
<1>17. Answers(x.ins, m, "I")
  BY <1>8, <1>15, <1>16, IntOpOK
<1>18. Opd(m.ins, m.ret, "I") /\ Opd(m.ins, x.ret, "I") /\ Opd(m.ins, q.f, "I")
  BY <1>15, <1>17, OpdStays DEF Answers, Opd
<1>19. Answers(m.ins, m, "I")
  BY <1>17, <1>18 DEF Answers, Extends, Opd
<1>20. Answers(m.ins, y, "I")
  BY <1>9, <1>18, <1>19, IntOpOK, SMTT(30)
<1>21. Opd(y.ins, y.ret, "I") /\ Opd(y.ins, x.ret, "I")
  BY <1>18, <1>20, OpdStays DEF Answers, Opd
<1>22. ChoosesBy(s, c, t, f, q, p, n, x, m, y)
  BY <1>3, <1>4, <1>5, <1>6, <1>7, <1>8, <1>9, <1>11, <1>12, <1>14, <1>15, <1>17, <1>18,
     <1>20, <1>21, ZenonT(60) DEF ChoosesBy
<1>23. InsChoose(s, c, t, f, useCmov) =
         IF useCmov THEN Ins3(p.ins, "I", p.ret, q.t, q.f)
                    ELSE Ins2(y.ins, "or", "I", x.ret, y.ret)
  BY <1>1, <1>2, <1>6, <1>7, <1>8, <1>9 DEF InsChoose
<1> QED
  BY <1>22, <1>23

LEMMA InsChooseOK ==
  ASSUME NEW s, WellTyped(s), NEW c, Opd(s, c, "I"), IsCmp(s, c) \/ IsImmI(s, c),
         NEW t, Opd(s, t, "I"), NEW f, Opd(s, f, "I"), NEW useCmov \in BOOLEAN
  PROVE  Answers(s, InsChoose(s, c, t, f, useCmov), "I")
<1>1. PICK q, p, n, x, m, y :
        /\ ChoosesBy(s, c, t, f, q, p, n, x, m, y)
        /\ InsChoose(s, c, t, f, useCmov) =
             IF useCmov THEN Ins3(p.ins, "I", p.ret, q.t, q.f)
                        ELSE Ins2(y.ins, "or", "I", x.ret, y.ret)
  BY ChooseSteps, SMTT(30)
<1>2. /\ Answers(s, p, "I") /\ Answers(p.ins, n, "I") /\ Answers(n.ins, x, "I")
      /\ Answers(x.ins, m, "I") /\ Answers(m.ins, y, "I")
      /\ Opd(p.ins, p.ret, "I") /\ Opd(p.ins, q.t, "I") /\ Opd(p.ins, q.f, "I")
      /\ Opd(y.ins, x.ret, "I") /\ Opd(y.ins, y.ret, "I")
      /\ IsCmp(p.ins, p.ret) \/ IsImmI(p.ins, p.ret)
  BY <1>1 DEF ChoosesBy
<1>3. Answers(s, Ins2(y.ins, "or", "I", x.ret, y.ret), "I")
  <2>1. Answers(s, y, "I")
    BY <1>2, Chain
  <2> QED
    BY <1>2, <2>1, IntOpOK
<1>4. Answers(s, Ins3(p.ins, "I", p.ret, q.t, q.f), "I")
  <2>1. WellTyped(p.ins)
    BY <1>2 DEF Answers
  <2>2. Answers(p.ins, Ins3(p.ins, "I", p.ret, q.t, q.f), "I")
    BY <1>2, <2>1, Ins3OK
  <2> QED
    BY <1>2, <2>2, Chain
<1> QED
  BY <1>1, <1>3, <1>4

-----------------------------------------------------------------------------
(* Bounds.                                                                 *)

\* Either an overflow or the bounds of some int.
IsBounds(x) ==
  /\ x.over \in BOOLEAN /\ x.lo \in Int /\ x.hi \in Int
  /\ ~x.over => /\ MinOf(IntWidth) <= x.lo /\ x.lo <= x.hi /\ x.hi <= MaxOf(IntWidth)

\* n is within x; y is no wider than x.
Holds(x, n) == ~x.over => x.lo <= n /\ n <= x.hi
Tighter(y, x) == ~x.over => ~y.over /\ x.lo <= y.lo /\ y.hi <= x.hi

\* The constants of the type int.
LEMMA IntsOK ==
  /\ IntWidth \in Nat \ {0} /\ MinOf(IntWidth) \in Int /\ MaxOf(IntWidth) \in Int
  /\ MinOf(IntWidth) <= 0 /\ 1 <= MaxOf(IntWidth)
  /\ Values("I") = MinOf(IntWidth) .. MaxOf(IntWidth)
<1>1. IntWidth \in Nat \ {0} /\ Values("I") = MinOf(IntWidth) .. MaxOf(IntWidth)
  BY WidthTypes
<1>2. MinOf(IntWidth) \in Int /\ MaxOf(IntWidth) \in Int /\ MinOf(IntWidth) <= 0
  BY <1>1, WidthOK
<1>3. 1 \in Values("I")
  BY WidthTypes
<1> QED
  BY <1>1, <1>2, <1>3

\* From the least and the greatest.
LEMMA BoundsOK ==
  ASSUME NEW lo \in Int, NEW hi \in Int, lo <= hi
  PROVE  /\ IsBounds(Bounds(lo, hi))
         /\ \A n \in Int : lo <= n /\ n <= hi => Holds(Bounds(lo, hi), n)
         /\ \A a, b \in Int : lo <= a /\ b <= hi => Tighter(Bounds(a, b), Bounds(lo, hi))
<1>1. CASE lo < MinOf(IntWidth) \/ MaxOf(IntWidth) < hi
  <2>1. Bounds(lo, hi) = Overflow
    BY <1>1 DEF Bounds
  <2> QED
    BY <2>1 DEF Overflow, IsBounds, Holds, Tighter
<1>2. CASE ~(lo < MinOf(IntWidth) \/ MaxOf(IntWidth) < hi)
  <2>1. PICK x : x = Bounds(lo, hi) /\ x = [over |-> FALSE, lo |-> lo, hi |-> hi]
    BY <1>2 DEF Bounds
  <2>2. MinOf(IntWidth) <= lo /\ hi <= MaxOf(IntWidth)
    BY <1>2, IntsOK
  <2>3. IsBounds(x) /\ \A n \in Int : lo <= n /\ n <= hi => Holds(x, n)
    BY <2>1, <2>2 DEF IsBounds, Holds
  <2>4. ASSUME NEW a \in Int, NEW b \in Int, lo <= a, b <= hi
        PROVE  Tighter(Bounds(a, b), x)
    <3>1. ~(a < MinOf(IntWidth) \/ MaxOf(IntWidth) < b)
      BY <2>2, <2>4, IntsOK
    <3>2. Bounds(a, b) = [over |-> FALSE, lo |-> a, hi |-> b]
      BY <3>1 DEF Bounds
    <3> QED
      BY <2>1, <2>4, <3>2 DEF Tighter
  <2> QED
    BY <2>1, <2>3, <2>4
<1> QED
  BY <1>1, <1>2

\* What every int is within.
LEMMA WorstOK ==
  /\ IsBounds(WorstNonOverflow) /\ ~WorstNonOverflow.over
  /\ \A n \in Values("I") : Holds(WorstNonOverflow, n)
  /\ \A x : IsBounds(x) /\ ~x.over => Tighter(x, WorstNonOverflow)
<1>1. WorstNonOverflow = [over |-> FALSE, lo |-> MinOf(IntWidth), hi |-> MaxOf(IntWidth)]
  BY IntsOK DEF WorstNonOverflow, Bounds
<1> QED
  BY <1>1, IntsOK DEF IsBounds, Holds, Tighter

\* Within bounds nothing wraps around.
LEMMA HeldFits ==
  ASSUME NEW x, IsBounds(x), ~x.over, NEW n \in Int, Holds(x, n)
  PROVE  Wrap(n, IntWidth) = n
<1>1. MinOf(IntWidth) <= n /\ n <= MaxOf(IntWidth)
  BY IntsOK DEF IsBounds, Holds
<1> QED
  BY <1>1, IntsOK, WrapOK DEF InWidth

\* An overflow of an operand is one of the result, of which nothing is said.
LEMMA BothOver ==
  ASSUME NEW x, NEW y, x.over \/ y.over, NEW r
  PROVE  /\ IsBounds(Both(x, y, r)) /\ \A n : Holds(Both(x, y, r), n)
         /\ \A z : Tighter(z, Both(x, y, r))
<1>1. Both(x, y, r) = Overflow
  BY DEF Both
<1>2. IsBounds(Overflow) /\ Overflow.over
  BY DEF Overflow, IsBounds
<1> QED
  BY <1>1, <1>2 DEF Holds, Tighter

\* Sums.
LEMMA AddBoundsOK ==
  ASSUME NEW x, IsBounds(x), NEW y, IsBounds(y)
  PROVE  /\ IsBounds(AddBounds(x, y))
         /\ \A a, b \in Int : Holds(x, a) /\ Holds(y, b) => Holds(AddBounds(x, y), a + b)
         /\ \A p, q : IsBounds(p) /\ IsBounds(q) /\ Tighter(p, x) /\ Tighter(q, y) =>
              Tighter(AddBounds(p, q), AddBounds(x, y))
<1>1. CASE x.over \/ y.over
  BY <1>1, BothOver DEF AddBounds
<1>2. CASE ~(x.over \/ y.over)
  <2>1. /\ AddBounds(x, y) = Bounds(x.lo + y.lo, x.hi + y.hi)
        /\ x.lo + y.lo \in Int /\ x.hi + y.hi \in Int /\ x.lo + y.lo <= x.hi + y.hi
    BY <1>2 DEF AddBounds, Both, IsBounds
  <2>2. ASSUME NEW a \in Int, NEW b \in Int, Holds(x, a), Holds(y, b)
        PROVE  Holds(AddBounds(x, y), a + b)
    <3>1. a + b \in Int /\ x.lo + y.lo <= a + b /\ a + b <= x.hi + y.hi
      BY <1>2, <2>2 DEF Holds, IsBounds
    <3> QED
      BY <2>1, <3>1, BoundsOK
  <2>3. ASSUME NEW p, NEW q, IsBounds(p), IsBounds(q), Tighter(p, x), Tighter(q, y)
        PROVE  Tighter(AddBounds(p, q), AddBounds(x, y))
    <3>1. /\ AddBounds(p, q) = Bounds(p.lo + q.lo, p.hi + q.hi)
          /\ p.lo + q.lo \in Int /\ p.hi + q.hi \in Int
          /\ x.lo + y.lo <= p.lo + q.lo /\ p.hi + q.hi <= x.hi + y.hi
      BY <1>2, <2>3 DEF AddBounds, Both, IsBounds, Tighter
    <3> QED
      BY <2>1, <3>1, BoundsOK
  <2> QED
    BY <2>1, <2>2, <2>3, BoundsOK
<1> QED
  BY <1>1, <1>2

\* Differences.
LEMMA SubBoundsOK ==
  ASSUME NEW x, IsBounds(x), NEW y, IsBounds(y)
  PROVE  /\ IsBounds(SubBounds(x, y))
         /\ \A a, b \in Int : Holds(x, a) /\ Holds(y, b) => Holds(SubBounds(x, y), a - b)
         /\ \A p, q : IsBounds(p) /\ IsBounds(q) /\ Tighter(p, x) /\ Tighter(q, y) =>
              Tighter(SubBounds(p, q), SubBounds(x, y))
<1>1. CASE x.over \/ y.over
  BY <1>1, BothOver DEF SubBounds
<1>2. CASE ~(x.over \/ y.over)
  <2>1. /\ SubBounds(x, y) = Bounds(x.lo - y.hi, x.hi - y.lo)
        /\ x.lo - y.hi \in Int /\ x.hi - y.lo \in Int /\ x.lo - y.hi <= x.hi - y.lo
    BY <1>2 DEF SubBounds, Both, IsBounds
  <2>2. ASSUME NEW a \in Int, NEW b \in Int, Holds(x, a), Holds(y, b)
        PROVE  Holds(SubBounds(x, y), a - b)
    <3>1. a - b \in Int /\ x.lo - y.hi <= a - b /\ a - b <= x.hi - y.lo
      BY <1>2, <2>2 DEF Holds, IsBounds
    <3> QED
      BY <2>1, <3>1, BoundsOK
  <2>3. ASSUME NEW p, NEW q, IsBounds(p), IsBounds(q), Tighter(p, x), Tighter(q, y)
        PROVE  Tighter(SubBounds(p, q), SubBounds(x, y))
    <3>1. /\ SubBounds(p, q) = Bounds(p.lo - q.hi, p.hi - q.lo)
          /\ p.lo - q.hi \in Int /\ p.hi - q.lo \in Int
          /\ x.lo - y.hi <= p.lo - q.hi /\ p.hi - q.lo <= x.hi - y.lo
      BY <1>2, <2>3 DEF SubBounds, Both, IsBounds, Tighter
    <3> QED
      BY <2>1, <3>1, BoundsOK
  <2> QED
    BY <2>1, <2>2, <2>3, BoundsOK
<1> QED
  BY <1>1, <1>2

\* The least and the greatest of a few.
LEMMA MinMaxOK ==
  ASSUME NEW a \in Int, NEW b \in Int, NEW c \in Int, NEW d \in Int,
         NEW S, S = {a, b, c, d}
  PROVE  /\ Min(S) \in S /\ Max(S) \in S
         /\ \A x \in S : Min(S) <= x /\ x <= Max(S)
<1>1. S \subseteq Int
  OBVIOUS
<1>2. \E x \in S : \A y \in S : x <= y
  OBVIOUS
<1>3. \E x \in S : \A y \in S : x >= y
  OBVIOUS
<1>4. Min(S) \in S /\ \A y \in S : Min(S) <= y
  BY <1>2, Zenon DEF Min
<1>5. Max(S) \in S /\ \A y \in S : Max(S) >= y
  BY <1>3, Zenon DEF Max
<1>6. \A y \in S : Min(S) <= y /\ y <= Max(S)
  BY <1>1, <1>4, <1>5
<1> QED
  BY <1>4, <1>5, <1>6

\* A product is between those of the bounds of its factors.
LEMMA Corners ==
  ASSUME NEW a \in Int, NEW b \in Int, NEW c \in Int, NEW d \in Int,
         NEW p \in a .. b, NEW q \in c .. d, NEW lo \in Int, NEW hi \in Int,
         lo <= a * c, lo <= a * d, lo <= b * c, lo <= b * d,
         a * c <= hi, a * d <= hi, b * c <= hi, b * d <= hi
  PROVE  lo <= p * q /\ p * q <= hi
<1>1. /\ \A x \in Int : a * x <= p * x \/ b * x <= p * x
      /\ \A x \in Int : p * x <= a * x \/ p * x <= b * x
  <2>1. ASSUME NEW x \in Int PROVE /\ a * x <= p * x \/ b * x <= p * x
                                   /\ p * x <= a * x \/ p * x <= b * x
    <3>1. /\ p \in Int /\ a <= p /\ p <= b
      OBVIOUS
    <3>2. CASE 0 <= x
      BY <3>1, <3>2, MulMono
    <3>3. CASE x <= 0
      BY <3>1, <3>3, MulMono
    <3> QED
      BY <3>2, <3>3
  <2> QED
    BY <2>1
<1>2. \A x \in {a, b} : lo <= x * q /\ x * q <= hi
  <2>1. ASSUME NEW x \in {a, b} PROVE lo <= x * q /\ x * q <= hi
    <3>1. /\ x \in Int /\ q \in Int /\ c <= q /\ q <= d
          /\ lo <= x * c /\ lo <= x * d /\ x * c <= hi /\ x * d <= hi
      OBVIOUS
    <3>2. /\ 0 <= x => x * c <= x * q /\ x * q <= x * d
          /\ x <= 0 => x * d <= x * q /\ x * q <= x * c
      <4>1. x * c = c * x /\ x * q = q * x /\ x * d = d * x
        BY <3>1
      <4> QED
        BY <3>1, <4>1, MulMono
    <3>3. x * c \in Int /\ x * q \in Int /\ x * d \in Int
      BY <3>1
    <3> QED
      BY <3>1, <3>2, <3>3
  <2> QED
    BY <2>1
<1>3. p * q \in Int /\ a * q \in Int /\ b * q \in Int /\ q \in Int
  OBVIOUS
<1>4. /\ a * q <= p * q \/ b * q <= p * q
      /\ p * q <= a * q \/ p * q <= b * q
  BY <1>1, <1>3
<1> QED
  BY <1>2, <1>3, <1>4

\* Products.
LEMMA MulBoundsOK ==
  ASSUME NEW x, IsBounds(x), NEW y, IsBounds(y)
  PROVE  /\ IsBounds(MulBounds(x, y))
         /\ \A a, b \in Int : Holds(x, a) /\ Holds(y, b) => Holds(MulBounds(x, y), a * b)
         /\ \A p, q : IsBounds(p) /\ IsBounds(q) /\ Tighter(p, x) /\ Tighter(q, y) =>
              Tighter(MulBounds(p, q), MulBounds(x, y))
<1>1. CASE x.over \/ y.over
  BY <1>1, BothOver DEF MulBounds
<1>2. CASE ~(x.over \/ y.over)
  <2>1. ASSUME NEW p, NEW q, IsBounds(p), IsBounds(q), ~p.over, ~q.over
        PROVE  \E lo, hi \in Int :
                 /\ MulBounds(p, q) = Bounds(lo, hi) /\ lo <= hi
                 /\ \A v \in {lo, hi} : v \in {p.lo * q.lo, p.lo * q.hi, p.hi * q.lo, p.hi * q.hi}
                 /\ \A v \in {p.lo * q.lo, p.lo * q.hi, p.hi * q.lo, p.hi * q.hi} :
                      lo <= v /\ v <= hi
    <3> DEFINE P == {p.lo * q.lo, p.lo * q.hi, p.hi * q.lo, p.hi * q.hi}
    <3>1. /\ p.lo * q.lo \in Int /\ p.lo * q.hi \in Int
          /\ p.hi * q.lo \in Int /\ p.hi * q.hi \in Int
      BY <2>1 DEF IsBounds
    <3>2. /\ Min(P) \in P /\ Max(P) \in P /\ \A v \in P : Min(P) <= v /\ v <= Max(P)
      BY <3>1, MinMaxOK
    <3>3. MulBounds(p, q) = Bounds(Min(P), Max(P)) /\ P \subseteq Int
      BY <2>1, <3>1 DEF MulBounds, Both
    <3> QED
      BY <3>2, <3>3
  <2>2. PICK lo \in Int, hi \in Int :
          /\ MulBounds(x, y) = Bounds(lo, hi) /\ lo <= hi
          /\ \A v \in {x.lo * y.lo, x.lo * y.hi, x.hi * y.lo, x.hi * y.hi} :
               lo <= v /\ v <= hi
    BY <1>2, <2>1
  <2>3. ASSUME NEW a \in Int, NEW b \in Int, x.lo <= a, a <= x.hi, y.lo <= b, b <= y.hi
        PROVE  lo <= a * b /\ a * b <= hi
    <3>1. PICK xl \in Int, xh \in Int, yl \in Int, yh \in Int :
            xl = x.lo /\ xh = x.hi /\ yl = y.lo /\ yh = y.hi
      BY DEF IsBounds
    <3>2. /\ lo <= xl * yl /\ lo <= xl * yh /\ lo <= xh * yl /\ lo <= xh * yh
          /\ xl * yl <= hi /\ xl * yh <= hi /\ xh * yl <= hi /\ xh * yh <= hi
      BY <2>2, <3>1
    <3>3. a \in xl .. xh /\ b \in yl .. yh
      BY <2>3, <3>1
    <3> QED
      BY <3>2, <3>3, Corners
  <2>4. ASSUME NEW a \in Int, NEW b \in Int, Holds(x, a), Holds(y, b)
        PROVE  Holds(MulBounds(x, y), a * b)
    <3>1. a * b \in Int /\ lo <= a * b /\ a * b <= hi
      BY <1>2, <2>3, <2>4 DEF Holds
    <3> QED
      BY <2>2, <3>1, BoundsOK
  <2>5. ASSUME NEW p, NEW q, IsBounds(p), IsBounds(q), Tighter(p, x), Tighter(q, y)
        PROVE  Tighter(MulBounds(p, q), MulBounds(x, y))
    <3>1. ~p.over /\ ~q.over
      BY <1>2, <2>5 DEF Tighter
    <3>2. PICK l \in Int, h \in Int :
            /\ MulBounds(p, q) = Bounds(l, h)
            /\ \A v \in {l, h} : v \in {p.lo * q.lo, p.lo * q.hi, p.hi * q.lo, p.hi * q.hi}
      BY <2>1, <2>5, <3>1
    <3>3. /\ p.lo \in Int /\ p.hi \in Int /\ q.lo \in Int /\ q.hi \in Int
          /\ x.lo <= p.lo /\ p.lo <= x.hi /\ x.lo <= p.hi /\ p.hi <= x.hi
          /\ y.lo <= q.lo /\ q.lo <= y.hi /\ y.lo <= q.hi /\ q.hi <= y.hi
      BY <1>2, <2>5, <3>1 DEF IsBounds, Tighter
    <3>4. \A v \in {p.lo * q.lo, p.lo * q.hi, p.hi * q.lo, p.hi * q.hi} : lo <= v /\ v <= hi
      BY <2>3, <3>3
    <3>5. lo <= l /\ h <= hi
      BY <3>2, <3>4
    <3> QED
      BY <2>2, <3>2, <3>5, BoundsOK
  <2> QED
    BY <2>2, <2>4, <2>5, BoundsOK
<1> QED
  BY <1>1, <1>2

\* One of two.
LEMMA HullOK ==
  ASSUME NEW x, IsBounds(x), NEW y, IsBounds(y)
  PROVE  /\ IsBounds(Hull(x, y))
         /\ \A a \in Int : Holds(x, a) \/ Holds(y, a) => Holds(Hull(x, y), a)
         /\ \A p, q : IsBounds(p) /\ IsBounds(q) /\ Tighter(p, x) /\ Tighter(q, y) =>
              Tighter(Hull(p, q), Hull(x, y))
<1>1. CASE x.over \/ y.over
  BY <1>1, BothOver DEF Hull
<1>2. CASE ~(x.over \/ y.over)
  <2>1. ASSUME NEW p, NEW q, IsBounds(p), IsBounds(q), ~p.over, ~q.over
        PROVE  \E lo, hi \in Int :
                 /\ Hull(p, q) = Bounds(lo, hi) /\ lo <= hi
                 /\ lo <= p.lo /\ lo <= q.lo /\ p.hi <= hi /\ q.hi <= hi
                 /\ lo \in {p.lo, q.lo} /\ hi \in {p.hi, q.hi}
    <3>1. PICK a \in Int, b \in Int, c \in Int, d \in Int :
            a = p.lo /\ b = p.hi /\ c = q.lo /\ d = q.hi /\ a <= b /\ c <= d
      BY <2>1 DEF IsBounds
    <3>2. /\ Min({a, c}) \in {a, c} /\ Min({a, c}) <= a /\ Min({a, c}) <= c
          /\ Max({b, d}) \in {b, d} /\ b <= Max({b, d}) /\ d <= Max({b, d})
      <4>1. PICK S, T : S = {a, c} /\ T = {b, d} /\ S = {a, c, a, c} /\ T = {b, d, b, d}
        OBVIOUS
      <4>2. /\ Min(S) \in S /\ \A z \in S : Min(S) <= z
            /\ Max(T) \in T /\ \A z \in T : z <= Max(T)
        BY <4>1, MinMaxOK
      <4> QED
        BY <4>1, <4>2
    <3>3. PICK lo \in Int, hi \in Int : lo = Min({a, c}) /\ hi = Max({b, d})
      BY <3>2
    <3>4. Hull(p, q) = Bounds(lo, hi)
      BY <2>1, <3>1, <3>3 DEF Hull, Both
    <3> QED
      BY <3>1, <3>2, <3>3, <3>4
  <2>2. PICK lo \in Int, hi \in Int :
          /\ Hull(x, y) = Bounds(lo, hi) /\ lo <= hi
          /\ lo <= x.lo /\ lo <= y.lo /\ x.hi <= hi /\ y.hi <= hi
    BY <1>2, <2>1
  <2>3. ASSUME NEW a \in Int, Holds(x, a) \/ Holds(y, a)
        PROVE  Holds(Hull(x, y), a)
    <3>1. lo <= a /\ a <= hi
      BY <1>2, <2>2, <2>3 DEF Holds, IsBounds
    <3> QED
      BY <2>2, <3>1, BoundsOK
  <2>4. ASSUME NEW p, NEW q, IsBounds(p), IsBounds(q), Tighter(p, x), Tighter(q, y)
        PROVE  Tighter(Hull(p, q), Hull(x, y))
    <3>1. ~p.over /\ ~q.over
      BY <1>2, <2>4 DEF Tighter
    <3>2. PICK l \in Int, h \in Int :
            /\ Hull(p, q) = Bounds(l, h) /\ l \in {p.lo, q.lo} /\ h \in {p.hi, q.hi}
      BY <2>1, <2>4, <3>1
    <3>3. lo <= l /\ h <= hi
      BY <1>2, <2>2, <2>4, <3>2 DEF IsBounds, Tighter
    <3> QED
      BY <2>2, <3>2, <3>3, BoundsOK
  <2> QED
    BY <2>2, <2>3, <2>4, BoundsOK
<1> QED
  BY <1>1, <1>2

\* Shifted to the right by a constant, with zeros shifted in: what is not
\* negative, or is shifted by nothing.
LEMMA RshuOK ==
  ASSUME NEW x, IsBounds(x), NEW y \in Int,
         y % IntWidth > 0 => x.over \/ 0 <= x.hi
  PROVE  /\ IsBounds(RshuBounds(x, y)) /\ ~RshuBounds(x, y).over
         /\ \A a \in Values("I") :
              Holds(x, a) /\ (y % IntWidth > 0 => x.over \/ 0 <= a) =>
                Holds(RshuBounds(x, y), Shift("rshu", IntWidth, a, y))
         /\ \A p : IsBounds(p) /\ Tighter(p, x)
                     /\ (y % IntWidth > 0 => p.over \/ 0 <= p.hi)
                   => Tighter(RshuBounds(p, y), RshuBounds(x, y))
<1> PICK n \in 0 .. IntWidth - 1 : n = y % IntWidth
  BY IntsOK, DivMod
<1>1. PICK d \in Nat \ {0} : d = 2 ^ n
  BY Doubled
<1>2. ASSUME NEW a \in Values("I")
      PROVE  /\ Shift("rshu", IntWidth, a, y) \in Values("I")
             /\ 0 <= a => Shift("rshu", IntWidth, a, y) = a \div d
  <2>1. PICK u \in Int : u = Unsigned(a, IntWidth) /\ (0 <= a => u = a)
    <3>1. a \in Int /\ InWidth(a, IntWidth) /\ IntWidth \in Nat \ {0}
      BY IntsOK DEF InWidth
    <3>2. /\ Unsigned(a, IntWidth) \in 0 .. 2 ^ IntWidth - 1
          /\ 0 <= a => Unsigned(a, IntWidth) = a
      BY <3>1, WrapOK
    <3> QED
      BY <3>2
  <2>2. PICK v \in Int : v = u \div d /\ (0 <= u => 0 <= v /\ v <= u)
    <3>1. u \div d \in Int /\ (0 <= u => 0 <= u \div d /\ u \div d <= u)
      OBVIOUS
    <3> QED
      BY <3>1
  <2>3. Shift("rshu", IntWidth, a, y) = Wrap(v, IntWidth)
    BY <1>1, <2>1, <2>2 DEF Shift
  <2>4. 0 <= a => InWidth(v, IntWidth)
    BY <2>1, <2>2, IntsOK DEF InWidth
  <2> QED
    BY <2>1, <2>2, <2>3, <2>4, IntsOK, WrapOK
<1>3. ASSUME NEW p, IsBounds(p), n > 0 => p.over \/ 0 <= p.hi
      PROVE  LET r == RshuBounds(p, y)
             IN  /\ IsBounds(r) /\ ~r.over
                 /\ ~p.over /\ (p.lo >= 0 \/ n > 0) =>
                      r = Bounds(0, p.hi \div d) /\ p.hi \div d \in 0 .. p.hi
                 /\ p.over \/ ~(p.lo >= 0 \/ n > 0) => r = WorstNonOverflow
  <2>1. CASE ~p.over /\ (p.lo >= 0 \/ n > 0)
    <3>1. PICK h \in Nat : h = p.hi /\ h <= MaxOf(IntWidth)
      BY <1>3, <2>1 DEF IsBounds
    <3>2. h \div d \in 0 .. h
      OBVIOUS
    <3>3. RshuBounds(p, y) = Bounds(0, h \div d)
      BY <1>1, <2>1, <3>1 DEF RshuBounds
    <3>4. Bounds(0, h \div d) = [over |-> FALSE, lo |-> 0, hi |-> h \div d]
      BY <3>1, <3>2, IntsOK DEF Bounds
    <3>5. IsBounds(Bounds(0, h \div d))
      BY <3>2, BoundsOK
    <3> QED
      BY <2>1, <3>1, <3>2, <3>3, <3>4, <3>5
  <2>2. CASE ~(~p.over /\ (p.lo >= 0 \/ n > 0))
    <3>1. RshuBounds(p, y) = WorstNonOverflow
      BY <2>2 DEF RshuBounds
    <3> QED
      BY <2>2, <3>1, WorstOK
  <2> QED
    BY <2>1, <2>2
<1>4. PICK r : r = RshuBounds(x, y)
  OBVIOUS
<1>5. CASE ~x.over /\ (x.lo >= 0 \/ n > 0)
  <2>1. PICK h \in Nat, m \in Nat :
          h = x.hi /\ m = h \div d /\ r = Bounds(0, m)
    BY <1>3, <1>4, <1>5 DEF IsBounds
  <2>2. ASSUME NEW a \in Values("I"), Holds(x, a), n > 0 => 0 <= a
        PROVE  Holds(r, Shift("rshu", IntWidth, a, y))
    <3>1. a \in Nat /\ a <= h
      BY <1>5, <2>1, <2>2, IntsOK DEF Holds, IsBounds
    <3>2. a \div d <= h \div d
      BY <3>1, DivMono
    <3>3. a \div d \in Int /\ 0 <= a \div d
      BY <3>1
    <3> QED
      BY <1>2, <2>1, <3>1, <3>2, <3>3, BoundsOK
  <2>3. ASSUME NEW p, IsBounds(p), Tighter(p, x), n > 0 => p.over \/ 0 <= p.hi
        PROVE  Tighter(RshuBounds(p, y), r)
    <3>1. ~p.over /\ (p.lo >= 0 \/ n > 0) /\ p.hi <= x.hi
      BY <1>5, <2>3 DEF Tighter, IsBounds
    <3>2. PICK g \in Nat : g = p.hi /\ g <= h
      BY <2>1, <2>3, <3>1 DEF IsBounds
    <3>3. g \div d <= h \div d
      BY <3>2, DivMono
    <3>4. g \div d \in Int
      BY <3>2
    <3>5. RshuBounds(p, y) = Bounds(0, g \div d)
      BY <1>3, <2>3, <3>1, <3>2
    <3> QED
      BY <2>1, <3>3, <3>4, <3>5, BoundsOK
  <2> QED
    BY <1>3, <1>4, <1>5, <2>2, <2>3
<1>6. CASE ~(~x.over /\ (x.lo >= 0 \/ n > 0))
  <2>1. r = WorstNonOverflow
    BY <1>3, <1>4, <1>6
  <2> QED
    BY <1>2, <1>3, <1>4, <2>1, WorstOK
<1> QED
  BY <1>5, <1>6

\* Shifted to the right by a constant, with the sign shifted in.
LEMMA RshOK ==
  ASSUME NEW y \in Int
  PROVE  /\ IsBounds(RshBounds(y))
         /\ \A a \in Values("I") : Holds(RshBounds(y), Shift("rsh", IntWidth, a, y))
<1>1. PICK n \in 0 .. IntWidth - 1 : n = y % IntWidth
  BY IntsOK, DivMod
<1>2. IntWidth - 1 - n \in Nat
  BY IntsOK
<1>3. PICK d \in Nat \ {0} : d = 2 ^ (IntWidth - 1 - n)
  BY <1>2, Doubled
<1>4. RshBounds(y) = Bounds(-d, d - 1)
  BY <1>1, <1>3 DEF RshBounds
<1>5. -d \in Int /\ d - 1 \in Int /\ -d <= d - 1
  OBVIOUS
<1>6. ASSUME NEW a \in Values("I") PROVE Holds(RshBounds(y), Shift("rsh", IntWidth, a, y))
  <2>1. Shift("rsh", IntWidth, a, y) = a \div 2 ^ n
    BY <1>1 DEF Shift
  <2>2. a \div 2 ^ n \in -d .. d - 1
    BY <1>3, IntsOK, ShiftRightOK
  <2> QED
    BY <1>4, <1>5, <2>1, <2>2, BoundsOK
<1> QED
  BY <1>4, <1>5, <1>6, BoundsOK

\* Masked with a positive constant.
LEMMA MaskOK ==
  ASSUME NEW c \in Values("I"), c > 0
  PROVE  /\ IsBounds(Bounds(0, c))
         /\ \A a \in Values("I") : Holds(Bounds(0, c), Arith("and", IntWidth, a, c))
<1>1. c \in Nat /\ c <= MaxOf(IntWidth) /\ c \in Int
  BY IntsOK
<1>2. ASSUME NEW a \in Values("I") PROVE Holds(Bounds(0, c), Arith("and", IntWidth, a, c))
  <2>1. a \in Int
    BY IntsOK
  <2>2. PICK b \in Int : b = Bits("and", IntWidth, a, c) /\ 0 <= b /\ b <= c
    <3>1. IntWidth \in Nat
      BY IntsOK
    <3>2. Bits("and", IntWidth, a, c) \in 0 .. c
      BY <1>1, <2>1, <3>1, AndOK
    <3> QED
      BY <1>1, <3>2
  <2>3. Arith("and", IntWidth, a, c) = Wrap(b, IntWidth)
    BY <2>2 DEF Arith
  <2>4. Wrap(b, IntWidth) = b
    <3>1. InWidth(b, IntWidth) /\ IntWidth \in Nat \ {0}
      BY <1>1, <2>2, IntsOK DEF InWidth
    <3> QED
      BY <2>2, <3>1, WrapOK
  <2> QED
    BY <1>1, <2>2, <2>3, <2>4, BoundsOK
<1> QED
  BY <1>1, <1>2, BoundsOK

-----------------------------------------------------------------------------
(* What instructions are worth.                                            *)

Overflowing == {"addx", "subx", "mulx"}
Controls == {"x", "j", "xt", "xf", "jt", "jf"}

\* V is what the instructions of s are worth in the environments of E.
Worth(s, V, E) ==
  /\ DOMAIN V = DOMAIN s
  /\ \A i \in DOMAIN s : V[i] = [e \in E |-> Value(V, s[i], e)]

\* Every instruction is of one of these kinds.
LEMMA Every ==
  ASSUME NEW s, WellTyped(s), NEW i \in DOMAIN s
  PROVE  /\ IsOperator(s[i].k, s[i].ty)
         /\ s[i].k \in Unary \cup Binary \cup Overflowing \cup Controls
                       \cup {"imm", "param", "ld", "cmov"}
         /\ s[i].k \in Unary => Len(Formals(s[i].k, s[i].ty)) = 1
         /\ s[i].k \in Binary \cup Overflowing => Len(Formals(s[i].k, s[i].ty)) = 2
         /\ s[i].ty = "V" <=> s[i].k \in Controls
         /\ TypeOf(s, i) = "V" <=> s[i].k \in Controls
<1> DEFINE k == s[i].k
           ty == s[i].ty
<1>1. IsOperator(k, ty)
  BY DEF WellTyped, WellFormed
<1> HIDE DEF k, ty
<1>2. /\ k \in Unary \cup Binary \cup Overflowing \cup Controls \cup {"imm", "param", "ld", "cmov"}
      /\ ty = "V" <=> k \in Controls
  BY <1>1, Binaries DEF IsOperator, Unary, Arithmetic2, Overflowing, Controls, Conversions
<1>3. k \in Unary => Len(Formals(k, ty)) = 1
  BY Kinds DEF Unary, Conversions
<1>4. k \in Binary \cup Overflowing => Len(Formals(k, ty)) = 2
  BY Kinds, Binaries DEF Overflowing, Arithmetic2
<1>5. RetType(k, ty) = "V" <=> k \in Controls
  BY <1>2, Binaries DEF RetType, Controls
<1> QED
  BY <1>1, <1>2, <1>3, <1>4, <1>5 DEF k, ty, TypeOf

\* What an instruction is worth, by its kind.
Arity(x) ==
  /\ x.k \in Unary \cup {"ld"} => Len(x.args) = 1
  /\ x.k \in Binary \cup Overflowing => Len(x.args) = 2
  /\ x.k = "cmov" => Len(x.args) = 3
  /\ x.k \in {"imm", "param"} => Len(x.args) = 0
  /\ x.k \in Controls => Len(x.args) # 2
  /\ x.ty = "V" <=> x.k \in Controls

LEMMA ValueBy ==
  ASSUME NEW x, Arity(x), NEW V, NEW e
  PROVE  LET v(n) == V[x.args[n]][e]
         IN  /\ x.k = "imm" => Value(V, x, e) = x.v
             /\ x.k = "param" => Value(V, x, e) = e[x.v]
             /\ x.k = "ld" => Value(V, x, e) = Wrap(v(1) + x.v, QuadWidth)
             /\ x.k = "cmov" => Value(V, x, e) = IF v(1) # 0 THEN v(2) ELSE v(3)
             /\ x.k \in Overflowing =>
                  Value(V, x, e) = Wrap(Exact(x.k, v(1), v(2)), IntWidth)
             /\ x.k \in Controls => Value(V, x, e) = 0
             /\ x.k \in Unary => Value(V, x, e) = Compute1(x.k, x.ty, v(1))
             /\ x.k \in Binary => Value(V, x, e) = Compute2(x.k, x.ty, v(1), v(2))
<1>1. /\ x.k \in Unary \cup {"ld"} => Len(x.args) = 1
      /\ x.k \in Binary \cup Overflowing => Len(x.args) = 2
      /\ x.k = "cmov" => Len(x.args) = 3
      /\ x.k \in {"imm", "param"} => Len(x.args) = 0
      /\ x.k \in Controls => Len(x.args) # 2
      /\ x.ty = "V" <=> x.k \in Controls
  BY DEF Arity
<1>2. /\ x.k = "imm" => Value(V, x, e) = x.v
      /\ x.k = "param" => Value(V, x, e) = e[x.v]
      /\ x.k = "ld" => Value(V, x, e) = Wrap(V[x.args[1]][e] + x.v, QuadWidth)
      /\ x.k = "cmov" => Value(V, x, e) = IF V[x.args[1]][e] # 0 THEN V[x.args[2]][e]
                                                               ELSE V[x.args[3]][e]
  <2>1. x.k \in {"imm", "param", "ld", "cmov"} => x.ty # "V"
    BY <1>1 DEF Controls
  <2>2. x.k = "imm" => Value(V, x, e) = x.v
    BY <1>1, <2>1 DEF Value
  <2>3. x.k = "param" => Value(V, x, e) = e[x.v]
    BY <1>1, <2>1 DEF Value
  <2>4. x.k = "ld" => Value(V, x, e) = Wrap(V[x.args[1]][e] + x.v, QuadWidth)
    BY <1>1, <2>1 DEF Value
  <2>5. x.k = "cmov" => Value(V, x, e) = IF V[x.args[1]][e] # 0 THEN V[x.args[2]][e]
                                                              ELSE V[x.args[3]][e]
    BY <1>1, <2>1 DEF Value
  <2> QED
    BY <2>2, <2>3, <2>4, <2>5
<1>3. x.k \in Overflowing =>
        Value(V, x, e) = Wrap(Exact(x.k, V[x.args[1]][e], V[x.args[2]][e]), IntWidth)
  BY <1>1 DEF Value, Overflowing, Controls
<1>4. x.k \in Controls => Value(V, x, e) = 0
  BY <1>1 DEF Value, Controls
<1>5. x.k \in Unary => Value(V, x, e) = Compute1(x.k, x.ty, V[x.args[1]][e])
  BY <1>1 DEF Value, Unary, Conversions, Controls
<1>6. x.k \in Binary => Value(V, x, e) = Compute2(x.k, x.ty, V[x.args[1]][e], V[x.args[2]][e])
  BY <1>1, Binaries DEF Value, Arithmetic2
<1> QED
  BY <1>2, <1>3, <1>4, <1>5, <1>6

LEMMA ValueOf ==
  ASSUME NEW s, WellTyped(s), NEW i \in DOMAIN s, NEW V, NEW e
  PROVE  LET x == s[i]
             v(n) == V[Arg(s, i, n)][e]
         IN  /\ x.k = "imm" => Value(V, x, e) = x.v
             /\ x.k = "param" => Value(V, x, e) = e[x.v]
             /\ x.k = "ld" => Value(V, x, e) = Wrap(v(1) + x.v, QuadWidth)
             /\ x.k = "cmov" => Value(V, x, e) = IF v(1) # 0 THEN v(2) ELSE v(3)
             /\ x.k \in Overflowing =>
                  Value(V, x, e) = Wrap(Exact(x.k, v(1), v(2)), IntWidth)
             /\ x.k \in Controls => Value(V, x, e) = 0
             /\ x.k \in Unary => Value(V, x, e) = Compute1(x.k, x.ty, v(1))
             /\ x.k \in Binary => Value(V, x, e) = Compute2(x.k, x.ty, v(1), v(2))
<1> PICK x : x = s[i]
  OBVIOUS
<1>1. Arity(x)
  <2>1. Len(x.args) = Len(Formals(x.k, x.ty))
    BY DEF WellTyped, TypeCheckArgs
  <2>2. /\ x.k \in Unary => Len(Formals(x.k, x.ty)) = 1
        /\ x.k \in Binary \cup Overflowing => Len(Formals(x.k, x.ty)) = 2
        /\ x.ty = "V" <=> x.k \in Controls
    BY Every
  <2>3. /\ x.k = "ld" => Len(Formals(x.k, x.ty)) = 1
        /\ x.k = "cmov" => Len(Formals(x.k, x.ty)) = 3
    BY Kinds
  <2>4. /\ x.k \in {"imm", "param"} => Len(Formals(x.k, x.ty)) = 0
        /\ x.k \in Controls => Len(Formals(x.k, x.ty)) # 2
    BY DEF Formals, Conversions, Shifts, Controls
  <2> QED
    BY <2>1, <2>2, <2>3, <2>4 DEF Arity
<1> QED
  BY <1>1, ValueBy DEF Arg

\* It is worth the same where its operands are.
LEMMA ValueLocal ==
  ASSUME NEW s, WellTyped(s), NEW i \in DOMAIN s, NEW V, NEW W, NEW e,
         \A j \in 1 .. i - 1 : V[j] = W[j]
  PROVE  Value(V, s[i], e) = Value(W, s[i], e)
<1> DEFINE x == s[i]
           m == Len(Formals(x.k, x.ty))
<1>1. \A n \in 1 .. m : V[Arg(s, i, n)][e] = W[Arg(s, i, n)][e]
  BY ArgsOK
<1>2. x.k \in {"imm", "param"} \cup Controls => Value(V, x, e) = Value(W, x, e)
  BY ValueOf
<1>3. x.k = "ld" => Value(V, x, e) = Value(W, x, e)
  <2>1. x.k = "ld" => 1 \in 1 .. m
    BY Kinds
  <2> QED
    BY <1>1, <2>1, ValueOf
<1>4. x.k = "cmov" => Value(V, x, e) = Value(W, x, e)
  <2>1. x.k = "cmov" => 1 \in 1 .. m /\ 2 \in 1 .. m /\ 3 \in 1 .. m
    BY Kinds
  <2> QED
    BY <1>1, <2>1, ValueOf
<1>5. x.k \in Overflowing \cup Binary => Value(V, x, e) = Value(W, x, e)
  <2>1. x.k \in Overflowing \cup Binary => 1 \in 1 .. m /\ 2 \in 1 .. m
    BY Every, SMTT(30)
  <2> QED
    BY <1>1, <2>1, ValueOf
<1>6. x.k \in Unary => Value(V, x, e) = Value(W, x, e)
  <2>1. x.k \in Unary => m = 1
    BY Every
  <2> QED
    BY <1>1, <2>1, ValueOf
<1> QED
  BY <1>2, <1>3, <1>4, <1>5, <1>6, Every

\* The values of a sequence, from those of its beginning: they are defined as
\* each instruction's operands are written before it.
LEMMA ValuesFromOK ==
  ASSUME NEW s, WellTyped(s), NEW K, DOMAIN K \subseteq DOMAIN s,
         \A i \in DOMAIN K : /\ 1 .. i - 1 \subseteq DOMAIN K
                             /\ K[i] = [e \in Env |-> Value(K, s[i], e)]
  PROVE  /\ Worth(s, ValuesFrom(K, s), Env)
         /\ \A i \in DOMAIN K : ValuesFrom(K, s)[i] = K[i]
<1> DEFINE Body(f, i) == IF i \in DOMAIN K THEN K[i] ELSE [e \in Env |-> Value(f, s[i], e)]
           Solves(f, n) == f = [i \in 1 .. n |-> Body(f, i)]
           S == {n \in Nat : n <= Len(s) => \E f : Solves(f, n)}
<1>1. s \in Seq({s[i] : i \in DOMAIN s}) /\ DOMAIN s = 1 .. Len(s) /\ Len(s) \in Nat
  BY DEF WellTyped
<1>2. 0 \in S
  <2>1. Solves([i \in 1 .. 0 |-> 0], 0)
    OBVIOUS
  <2> QED
    BY <2>1
<1>3. ASSUME NEW i \in DOMAIN s, NEW f, NEW g, \A j \in 1 .. i - 1 : f[j] = g[j]
      PROVE  Body(f, i) = Body(g, i)
  <2>1. \A e \in Env : Value(f, s[i], e) = Value(g, s[i], e)
    BY <1>3, ValueLocal
  <2> QED
    BY <2>1
<1>4. \A f, i : i \in DOMAIN K => Body(f, i) = K[i]
  OBVIOUS
<1>5. \A f, i : i \notin DOMAIN K => Body(f, i) = [e \in Env |-> Value(f, s[i], e)]
  OBVIOUS
<1> HIDE DEF Body
<1>6. ASSUME NEW n \in Nat, n + 1 <= Len(s), NEW f, Solves(f, n)
      PROVE  \E g : Solves(g, n + 1)
  <2>1. PICK g : g = [i \in 1 .. n + 1 |-> IF i <= n THEN f[i] ELSE Body(f, n + 1)]
    OBVIOUS
  <2>2. \A i \in 1 .. n : g[i] = f[i] /\ f[i] = Body(f, i)
    <3>1. PICK h : h = [i \in 1 .. n |-> Body(f, i)]
      OBVIOUS
    <3>2. h = f /\ \A i \in 1 .. n : h[i] = Body(f, i)
      BY <1>6, <3>1
    <3> QED
      BY <2>1, <3>2
  <2>3. g[n + 1] = Body(f, n + 1)
    BY <2>1
  <2>4. ASSUME NEW i \in 1 .. n + 1 PROVE Body(g, i) = Body(f, i)
    <3>1. i \in DOMAIN s /\ \A j \in 1 .. i - 1 : j \in 1 .. n
      BY <1>1, <1>6
    <3> QED
      BY <1>3, <2>2, <3>1
  <2>5. \A i \in 1 .. n + 1 : g[i] = Body(g, i)
    <3>1. \A i \in 1 .. n + 1 : i = n + 1 \/ i \in 1 .. n
      OBVIOUS
    <3> QED
      BY <2>2, <2>3, <2>4, <3>1
  <2> QED
    BY <2>1, <2>5
<1>7. \E f : Solves(f, Len(s))
  <2>1. \A n \in Nat : n \in S => n + 1 \in S
    BY <1>1, <1>6
  <2>2. S = {n \in Nat : n <= Len(s) => \E f : Solves(f, n)}
    OBVIOUS
  <2> HIDE DEF S
  <2>3. Len(s) \in S
    BY <1>1, <1>2, <2>1, NatInduct
  <2> QED
    BY <1>1, <2>2, <2>3
<1> DEFINE vals[i \in DOMAIN s] ==
             IF i \in DOMAIN K THEN K[i] ELSE [e \in Env |-> Value(vals, s[i], e)]
<1>8. vals = [i \in DOMAIN s |-> Body(vals, i)]
  <2>1. \E f : f = [i \in DOMAIN s |->
                      IF i \in DOMAIN K THEN K[i] ELSE [e \in Env |-> Value(f, s[i], e)]]
    <3>1. \E f : f = [i \in DOMAIN s |-> Body(f, i)]
      BY <1>1, <1>7
    <3> QED
      BY <3>1, Zenon DEF Body
  <2>2. vals = [i \in DOMAIN s |->
                  IF i \in DOMAIN K THEN K[i] ELSE [e \in Env |-> Value(vals, s[i], e)]]
    BY <2>1, Zenon
  <2> QED
    BY <2>2, Zenon DEF Body
<1>9. ValuesFrom(K, s) = vals
  BY DEF ValuesFrom
<1>10. PICK f : f = [i \in DOMAIN s |-> Body(f, i)] /\ f = ValuesFrom(K, s)
  BY <1>8, <1>9
<1>11. \A i \in DOMAIN s : f[i] = Body(f, i)
  BY <1>10
<1>12. ASSUME NEW i \in DOMAIN s PROVE f[i] = [e \in Env |-> Value(f, s[i], e)]
  <2>1. CASE i \in DOMAIN K
    <3>1. \A j \in 1 .. i - 1 : j \in DOMAIN s /\ j \in DOMAIN K
      BY <2>1
    <3>2. \A j \in 1 .. i - 1 : f[j] = K[j]
      BY <1>4, <1>11, <3>1
    <3>3. \A e \in Env : Value(f, s[i], e) = Value(K, s[i], e)
      BY <3>2, ValueLocal
    <3>4. f[i] = [e \in Env |-> Value(K, s[i], e)]
      BY <1>4, <1>11, <2>1
    <3> QED
      BY <3>3, <3>4
  <2>2. CASE i \notin DOMAIN K
    BY <1>5, <1>11, <2>2
  <2> QED
    BY <2>1, <2>2
<1>13. DOMAIN f = DOMAIN s
  BY <1>10
<1>14. \A i \in DOMAIN K : f[i] = K[i]
  BY <1>4, <1>11
<1> QED
  BY <1>10, <1>12, <1>13, <1>14 DEF Worth

\* What instructions are worth is of their types, if parameters are.
LEMMA WorthTyped ==
  ASSUME NEW s, WellTyped(s), NEW V, NEW E, Worth(s, V, E),
         \A i \in DOMAIN s, e \in E : s[i].k = "param" => e[s[i].v] \in Values(s[i].ty),
         NEW e \in E
  PROVE  \A i \in DOMAIN s : TypeOf(s, i) # "V" => V[i][e] \in Values(TypeOf(s, i))
<1> DEFINE Right(i) == TypeOf(s, i) # "V" => V[i][e] \in Values(TypeOf(s, i))
           T == {i \in DOMAIN s : ~Right(i)}
<1>1. DOMAIN s = 1 .. Len(s) /\ Len(s) \in Nat
  BY DEF WellTyped
<1>2. ASSUME NEW i \in DOMAIN s, \A j \in 1 .. i - 1 : Right(j) PROVE Right(i)
  <2> DEFINE x == s[i]
             F == Formals(x.k, x.ty)
             v(n) == V[Arg(s, i, n)][e]
  <2>1. V[i][e] = Value(V, x, e)
    BY DEF Worth
  <2>2. \A n \in 1 .. Len(F) : F[n] # "V" => v(n) \in Values(F[n])
    <3>1. \A n \in 1 .. Len(F) : TypeOf(s, Arg(s, i, n)) = F[n] /\ Arg(s, i, n) \in 1 .. i - 1
      BY ArgsOK DEF Opd
    <3> QED
      BY <1>2, <3>1
  <2>3. TypeOf(s, i) = RetType(x.k, x.ty) /\ IsOperator(x.k, x.ty) /\ WellFormed(x)
    BY Every DEF TypeOf, WellTyped
  <2>4. x.k \in Controls => TypeOf(s, i) = "V"
    BY Every
  <2>5. CASE x.k \in {"imm", "param"}
    <3>1. RetType(x.k, x.ty) = x.ty
      BY <2>5 DEF RetType, Compares, Equalities, Orders, UnsignedOrders
    <3> QED
      BY <2>1, <2>3, <2>5, <3>1, ValueOf DEF WellFormed
  <2>6. CASE x.k = "ld"
    <3>1. Len(F) = 1 /\ F[1] = "Q" /\ RetType(x.k, x.ty) = x.ty /\ x.ty = "Q"
      BY <2>3, <2>6, Kinds, Operators
    <3>2. v(1) \in Int /\ x.v \in Int
      BY <2>2, <2>3, <2>6, <3>1, WidthTypes DEF WellFormed
    <3>3. v(1) + x.v \in Int
      BY <3>2
    <3>4. Value(V, x, e) = Wrap(v(1) + x.v, Width("Q"))
      BY <2>6, ValueOf, WidthTypes
    <3> QED
      BY <2>1, <2>3, <3>1, <3>3, <3>4, WrapTyped
  <2>7. CASE x.k = "cmov"
    <3>1. /\ Len(F) = 3 /\ F[2] = x.ty /\ F[3] = x.ty /\ RetType(x.k, x.ty) = x.ty
          /\ x.ty # "V"
      BY <2>3, <2>7, Kinds, Operators
    <3>2. v(2) \in Values(x.ty) /\ v(3) \in Values(x.ty)
      BY <2>2, <3>1
    <3>3. Value(V, x, e) \in {v(2), v(3)}
      BY <2>7, ValueOf
    <3> QED
      BY <2>1, <2>3, <3>1, <3>2, <3>3
  <2>8. CASE x.k \in Overflowing
    <3>1. /\ Len(F) = 2 /\ F[1] = "I" /\ F[2] = "I" /\ RetType(x.k, x.ty) = "I"
      BY <2>3, <2>8, Kinds, Operators DEF Overflowing
    <3>2. v(1) \in Int /\ v(2) \in Int
      BY <2>2, <3>1, WidthTypes
    <3>3. Exact(x.k, v(1), v(2)) \in Int
      <4>1. v(1) + v(2) \in Int /\ v(1) - v(2) \in Int /\ v(1) * v(2) \in Int
        BY <3>2
      <4> QED
        BY <2>8, <4>1 DEF Exact, Overflowing
    <3>4. Value(V, x, e) = Wrap(Exact(x.k, v(1), v(2)), Width("I"))
      BY <2>8, ValueOf, WidthTypes
    <3> QED
      BY <2>1, <2>3, <3>1, <3>3, <3>4, WrapTyped
  <2>9. CASE x.k \in Unary
    <3>1. Len(F) = 1 /\ F[1] # "V"
      BY <2>3, <2>9, Every, Kinds, Operators DEF Unary, Conversions
    <3>2. v(1) \in Values(F[1])
      BY <2>2, <3>1
    <3>3. Value(V, x, e) = Compute1(x.k, x.ty, v(1))
      BY <2>9, ValueOf
    <3> QED
      BY <2>1, <2>3, <2>9, <3>2, <3>3, Compute1OK
  <2>10. CASE x.k \in Binary
    <3>1. Len(F) = 2 /\ F[1] # "V" /\ F[2] # "V"
      BY <2>3, <2>10, Every, Kinds, Operators, Binaries DEF Arithmetic2
    <3>2. v(1) \in Values(F[1]) /\ v(2) \in Values(F[2])
      BY <2>2, <3>1
    <3>3. Value(V, x, e) = Compute2(x.k, x.ty, v(1), v(2))
      BY <2>10, ValueOf
    <3> QED
      BY <2>1, <2>3, <2>10, <3>2, <3>3, Compute2OK
  <2> QED
    BY <2>4, <2>5, <2>6, <2>7, <2>8, <2>9, <2>10, Every
<1> HIDE DEF Right
<1>3. ASSUME T # {} PROVE FALSE
  <2>1. T \in SUBSET Nat
    BY <1>1
  <2>2. PICK i \in T : \A j \in T : i <= j
    BY <1>3, <2>1, NatLeast
  <2>3. \A j \in 1 .. i - 1 : j \in DOMAIN s /\ ~(i <= j)
    BY <1>1, <2>2
  <2>4. \A j \in 1 .. i - 1 : Right(j)
    BY <2>2, <2>3
  <2> QED
    BY <1>2, <2>2, <2>4
<1> QED
  BY <1>3 DEF Right

-----------------------------------------------------------------------------
(* Interval::of.                                                           *)

\* The bounds of an instruction, by its kind.
LEMMA BoundsBy ==
  ASSUME NEW s, WellTyped(s), NEW i \in DOMAIN s, NEW of, NEW l \in Nat
  PROVE  LET k == s[i].k
             a == Arg(s, i, 1)
             b == Arg(s, i, 2)
             c == Arg(s, i, 3)
             r == BoundsOf(s, of, i, l)
         IN  /\ k = "imm" => r = Bounds(s[i].v, s[i].v)
             /\ l > 0 =>
                  /\ k \in Sums => r = AddBounds(of[a][l - 1], of[b][l - 1])
                  /\ k \in Differences => r = SubBounds(of[a][l - 1], of[b][l - 1])
                  /\ k = "neg" => r = SubBounds(Bounds(0, 0), of[a][l - 1])
                  /\ k \in Products => r = MulBounds(of[a][l], of[b][l])
                  /\ k = "cmov" => r = Hull(of[b][l - 1], of[c][l - 1])
             /\ l = 0 /\ k \in Sums \cup Differences \cup Products \cup {"neg", "cmov"} =>
                  r = Overflow
             /\ k = "and" /\ IsImm(s, b) /\ s[b].v > 0 => r = Bounds(0, s[b].v)
             /\ k = "rshu" /\ IsImm(s, b) /\ l > 0 => r = RshuBounds(of[a][l - 1], s[b].v)
             /\ k = "rsh" /\ IsImm(s, b) => r = RshBounds(s[b].v)
             /\ k \in Compares => r = Bounds(0, 1)
             /\ (\/ k = "and" /\ ~(IsImm(s, b) /\ s[b].v > 0)
                 \/ k = "rshu" /\ ~(IsImm(s, b) /\ l > 0)
                 \/ k = "rsh" /\ ~IsImm(s, b)
                 \/ k \notin Sums \cup Differences \cup Products \cup Compares
                               \cup {"imm", "neg", "cmov", "and", "rshu", "rsh"}) =>
                  r = WorstNonOverflow
<1> DEFINE k == s[i].k
           a == Arg(s, i, 1)
           b == Arg(s, i, 2)
           c == Arg(s, i, 3)
           r == BoundsOf(s, of, i, l)
<1> USE Binaries DEF BoundsOf, Arg, IsImm, Sums, Differences, Products
<1>1. k = "imm" => r = Bounds(s[i].v, s[i].v)
  OBVIOUS
<1>2. k \in Sums /\ l > 0 => r = AddBounds(of[a][l - 1], of[b][l - 1])
  OBVIOUS
<1>3. k \in Differences /\ l > 0 => r = SubBounds(of[a][l - 1], of[b][l - 1])
  OBVIOUS
<1>4. k = "neg" /\ l > 0 => r = SubBounds(Bounds(0, 0), of[a][l - 1])
  OBVIOUS
<1>5. k \in Products /\ l > 0 => r = MulBounds(of[a][l], of[b][l])
  OBVIOUS
<1>6. k = "cmov" /\ l > 0 => r = Hull(of[b][l - 1], of[c][l - 1])
  OBVIOUS
<1>7. l = 0 /\ k \in Sums \cup Differences \cup Products \cup {"neg", "cmov"} => r = Overflow
  OBVIOUS
<1>8. /\ k = "and" /\ IsImm(s, b) /\ s[b].v > 0 => r = Bounds(0, s[b].v)
      /\ k = "rshu" /\ IsImm(s, b) /\ l > 0 => r = RshuBounds(of[a][l - 1], s[b].v)
      /\ k = "rsh" /\ IsImm(s, b) => r = RshBounds(s[b].v)
  OBVIOUS
<1>9. k \in Compares => r = Bounds(0, 1)
  OBVIOUS
<1>10. (\/ k = "and" /\ ~(IsImm(s, b) /\ s[b].v > 0)
        \/ k = "rshu" /\ ~(IsImm(s, b) /\ l > 0)
        \/ k = "rsh" /\ ~IsImm(s, b)
        \/ k \notin Sums \cup Differences \cup Products \cup Compares
                      \cup {"imm", "neg", "cmov", "and", "rshu", "rsh"}) =>
         r = WorstNonOverflow
  OBVIOUS
<1> HIDE DEF BoundsOf, Arg, IsImm, Sums, Differences, Products
<1> QED
  BY <1>1, <1>2, <1>3, <1>4, <1>5, <1>6, <1>7, <1>8, <1>9, <1>10

\* Which of its operands an instruction has.
LEMMA Operands3 ==
  ASSUME NEW s, WellTyped(s), NEW i \in DOMAIN s
  PROVE  LET k == s[i].k
             before(n) == Arg(s, i, n) \in 1 .. i - 1
         IN  /\ k \in Sums \cup Differences \cup Products \cup {"and", "rshu", "rsh"} =>
                  before(1) /\ before(2)
             /\ k = "neg" => before(1)
             /\ k = "cmov" => before(2) /\ before(3)
<1> DEFINE k == s[i].k
           m == Len(Formals(k, s[i].ty))
<1>1. \A n \in 1 .. m : Arg(s, i, n) \in 1 .. i - 1
  BY ArgsOK
<1>2. /\ k \in Sums \cup Differences \cup Products \cup {"and", "rshu", "rsh"} => m = 2
      /\ k = "neg" => m = 1
      /\ k = "cmov" => m = 3
  BY Kinds, Binaries DEF Sums, Differences, Products, Arithmetic2
<1> HIDE DEF k, m
<1> QED
  BY <1>1, <1>2 DEF k

\* Bounds are those of the operands.
LEMMA BoundsLocal ==
  ASSUME NEW s, WellTyped(s), NEW i \in DOMAIN s, NEW l \in Nat, NEW of, NEW g,
         \A j \in 1 .. i - 1 : of[j] = g[j]
  PROVE  BoundsOf(s, of, i, l) = BoundsOf(s, g, i, l)
<1> DEFINE k == s[i].k
           same(n) == of[Arg(s, i, n)] = g[Arg(s, i, n)]
<1>1. /\ k \in Sums \cup Differences \cup Products \cup {"and", "rshu", "rsh"} =>
           same(1) /\ same(2)
      /\ k = "neg" => same(1)
      /\ k = "cmov" => same(2) /\ same(3)
  BY Operands3
<1>2. CASE k \in Sums \cup Differences \cup Products \cup {"neg", "cmov"}
  BY <1>1, <1>2, BoundsBy
<1>3. CASE k \in {"and", "rshu", "rsh"}
  BY <1>1, <1>3, BoundsBy
<1>4. CASE k \in Compares \cup {"imm"}
  BY <1>4, BoundsBy
<1>5. CASE k \notin Sums \cup Differences \cup Products \cup Compares
                     \cup {"imm", "neg", "cmov", "and", "rshu", "rsh"}
  BY <1>5, BoundsBy
<1> QED
  BY <1>2, <1>3, <1>4, <1>5

\* There are such bounds, as operands are written before.
LEMMA IntervalsOK ==
  ASSUME NEW s, WellTyped(s)
  PROVE  \E of : \A i \in DOMAIN s, l \in Nat :
           /\ of[i][l] = BoundsOf(s, of, i, l)
           /\ IntervalOf(s, i, l) = of[i][l]
<1> DEFINE Body(f, i) == [l \in Nat |-> BoundsOf(s, f, i, l)]
           Solves(f, n) == f = [i \in 1 .. n |-> Body(f, i)]
           S == {n \in Nat : n <= Len(s) => \E f : Solves(f, n)}
<1>1. s \in Seq({s[i] : i \in DOMAIN s}) /\ DOMAIN s = 1 .. Len(s) /\ Len(s) \in Nat
  BY DEF WellTyped
<1>2. 0 \in S
  <2>1. Solves([i \in 1 .. 0 |-> 0], 0)
    OBVIOUS
  <2> QED
    BY <2>1
<1>3. ASSUME NEW i \in DOMAIN s, NEW f, NEW g, \A j \in 1 .. i - 1 : f[j] = g[j]
      PROVE  Body(f, i) = Body(g, i)
  <2>1. \A l \in Nat : BoundsOf(s, f, i, l) = BoundsOf(s, g, i, l)
    BY <1>3, BoundsLocal
  <2> QED
    BY <2>1
<1>4. \A f, i : \A l \in Nat : Body(f, i)[l] = BoundsOf(s, f, i, l)
  OBVIOUS
<1> HIDE DEF Body
<1>5. ASSUME NEW n \in Nat, n + 1 <= Len(s), NEW f, Solves(f, n)
      PROVE  \E g : Solves(g, n + 1)
  <2>1. PICK g : g = [i \in 1 .. n + 1 |-> IF i <= n THEN f[i] ELSE Body(f, n + 1)]
    OBVIOUS
  <2>2. \A i \in 1 .. n : g[i] = f[i] /\ f[i] = Body(f, i)
    <3>1. PICK h : h = [i \in 1 .. n |-> Body(f, i)]
      OBVIOUS
    <3>2. h = f /\ \A i \in 1 .. n : h[i] = Body(f, i)
      BY <1>5, <3>1
    <3> QED
      BY <2>1, <3>2
  <2>3. g[n + 1] = Body(f, n + 1)
    BY <2>1
  <2>4. ASSUME NEW i \in 1 .. n + 1 PROVE Body(g, i) = Body(f, i)
    <3>1. i \in DOMAIN s /\ \A j \in 1 .. i - 1 : j \in 1 .. n
      BY <1>1, <1>5
    <3> QED
      BY <1>3, <2>2, <3>1
  <2>5. \A i \in 1 .. n + 1 : g[i] = Body(g, i)
    <3>1. \A i \in 1 .. n + 1 : i = n + 1 \/ i \in 1 .. n
      OBVIOUS
    <3> QED
      BY <2>2, <2>3, <2>4, <3>1
  <2> QED
    BY <2>1, <2>5
<1>6. \E f : Solves(f, Len(s))
  <2>1. \A n \in Nat : n \in S => n + 1 \in S
    BY <1>1, <1>5
  <2>2. S = {n \in Nat : n <= Len(s) => \E f : Solves(f, n)}
    OBVIOUS
  <2> HIDE DEF S
  <2>3. Len(s) \in S
    BY <1>1, <1>2, <2>1, NatInduct
  <2> QED
    BY <1>1, <2>2, <2>3
<1> DEFINE of[i \in DOMAIN s] == [l \in Nat |-> BoundsOf(s, of, i, l)]
<1>7. of = [i \in DOMAIN s |-> Body(of, i)]
  <2>1. \E f : f = [i \in DOMAIN s |-> [l \in Nat |-> BoundsOf(s, f, i, l)]]
    <3>1. \E f : f = [i \in DOMAIN s |-> Body(f, i)]
      BY <1>1, <1>6
    <3> QED
      BY <3>1, Zenon DEF Body
  <2>2. of = [i \in DOMAIN s |-> [l \in Nat |-> BoundsOf(s, of, i, l)]]
    BY <2>1, Zenon
  <2> QED
    BY <2>2, Zenon DEF Body
<1>8. \A i, l : IntervalOf(s, i, l) = of[i][l]
  BY DEF IntervalOf
<1>9. PICK f : /\ f = [i \in DOMAIN s |-> Body(f, i)]
               /\ \A i, l : IntervalOf(s, i, l) = f[i][l]
  BY <1>7, <1>8
<1>10. \A i \in DOMAIN s : f[i] = Body(f, i)
  BY <1>9
<1>11. \A i \in DOMAIN s, l \in Nat :
         f[i][l] = BoundsOf(s, f, i, l) /\ IntervalOf(s, i, l) = f[i][l]
  BY <1>4, <1>9, <1>10, ZenonT(60)
<1> QED
  BY <1>11

\* The bounds of instruction i are bounds of what it is worth, to every depth,
\* and no wider the deeper they are sought.
Good(s, of, V, E, i) ==
  \A l \in 0 .. MaxLim :
    /\ IsBounds(of[i][l])
    /\ \A e \in E : Holds(of[i][l], V[i][e])
    /\ \A m \in l .. MaxLim : Tighter(of[i][m], of[i][l])

LEMMA TighterSelf ==
  ASSUME NEW x, IsBounds(x)
  PROVE  Tighter(x, x)
BY DEF IsBounds, Tighter

\* What is held is held when it is wrapped.
LEMMA WrapHeld ==
  ASSUME NEW x, IsBounds(x), NEW n \in Int, Holds(x, n)
  PROVE  Holds(x, Wrap(n, IntWidth))
BY HeldFits DEF Holds, IsBounds

\* An overflow, at depth 0, says nothing.
LEMMA OverflowSays ==
  /\ IsBounds(Overflow) /\ \A n : Holds(Overflow, n) /\ \A x : Tighter(x, Overflow)
<1>1. IsBounds(Overflow) /\ Overflow.over
  BY DEF Overflow, IsBounds
<1> QED
  BY <1>1 DEF Holds, Tighter

\* What instructions and their bounds are, of code whose values are known.
Setting(s, V, E, of) ==
  /\ WellTyped(s) /\ Worth(s, V, E)
  /\ \A i \in DOMAIN s, e \in E : TypeOf(s, i) = "I" => V[i][e] \in Values("I")
  /\ \A i \in DOMAIN s, l \in Nat : of[i][l] = BoundsOf(s, of, i, l)

\* The operands of int operators.
LEMMA IntOperands ==
  ASSUME NEW s, NEW V, NEW E, NEW of, Setting(s, V, E, of),
         NEW i \in DOMAIN s, TypeOf(s, i) = "I",
         \A j \in 1 .. i - 1 : TypeOf(s, j) = "I" => Good(s, of, V, E, j)
  PROVE  LET k == s[i].k
             ok(n) == /\ Opd(s, Arg(s, i, n), "I") /\ Good(s, of, V, E, Arg(s, i, n))
                      /\ \A e \in E : V[Arg(s, i, n)][e] \in Values("I")
         IN  /\ k \in Sums \cup Differences \cup Products \cup {"and", "rshu", "rsh"} =>
                  ok(1) /\ ok(2)
             /\ k = "neg" => ok(1)
             /\ k = "cmov" => ok(2) /\ ok(3)
             /\ k \in Sums \cup Differences \cup Products
                        \cup {"and", "rshu", "rsh", "neg", "cmov", "imm"} => s[i].ty = "I"
<1> DEFINE k == s[i].k
           F == Formals(k, s[i].ty)
           ok(n) == /\ Opd(s, Arg(s, i, n), "I") /\ Good(s, of, V, E, Arg(s, i, n))
                    /\ \A e \in E : V[Arg(s, i, n)][e] \in Values("I")
<1>1. \A n \in 1 .. Len(F) : F[n] = "I" => ok(n)
  <2>1. /\ WellTyped(s)
        /\ \A n \in 1 .. Len(F) : Opd(s, Arg(s, i, n), F[n]) /\ Arg(s, i, n) \in 1 .. i - 1
    BY ArgsOK DEF Setting
  <2> QED
    BY <2>1 DEF Setting, Opd
<1>2. RetType(k, s[i].ty) = "I"
  BY DEF TypeOf
<1> HIDE DEF ok
<1>3. k \in Sums \cup Differences \cup Products \cup {"and", "rshu", "rsh", "neg", "cmov", "imm"} =>
        s[i].ty = "I"
  BY <1>2, Kinds, Binaries DEF Sums, Differences, Products, Arithmetic2
<1>4. k \in Sums \cup Differences \cup Products \cup {"and", "rshu", "rsh"} =>
        Len(F) = 2 /\ F[1] = "I" /\ F[2] = "I"
  BY <1>3, Kinds, Binaries DEF Sums, Differences, Products, Arithmetic2
<1>5. /\ k = "neg" => Len(F) = 1 /\ F[1] = "I"
      /\ k = "cmov" => Len(F) = 3 /\ F[2] = "I" /\ F[3] = "I"
  BY <1>3, Kinds
<1> HIDE DEF F, k
<1>6. /\ k \in Sums \cup Differences \cup Products \cup {"and", "rshu", "rsh"} => ok(1) /\ ok(2)
      /\ k = "neg" => ok(1)
      /\ k = "cmov" => ok(2) /\ ok(3)
  BY <1>1, <1>4, <1>5
<1> QED
  BY <1>3, <1>6 DEF ok, k

\* Sums, differences and products of ints, whether they exit on overflow or not.
LEMMA SumValue ==
  ASSUME NEW s, WellTyped(s), NEW i \in DOMAIN s, s[i].ty = "I", NEW V, NEW e
  PROVE  LET x == V[Arg(s, i, 1)][e]
             y == V[Arg(s, i, 2)][e]
             v == Value(V, s[i], e)
         IN  /\ s[i].k \in Sums => v = Wrap(x + y, IntWidth)
             /\ s[i].k \in Differences => v = Wrap(x - y, IntWidth)
             /\ s[i].k \in Products => v = Wrap(x * y, IntWidth)
             /\ s[i].k = "neg" => v = Wrap(-x, IntWidth)
             /\ s[i].k = "and" => v = Arith("and", IntWidth, x, y)
             /\ s[i].k \in {"rsh", "rshu"} => v = Shift(s[i].k, IntWidth, x, y)
<1> DEFINE x == V[Arg(s, i, 1)][e]
           y == V[Arg(s, i, 2)][e]
           v == Value(V, s[i], e)
           k == s[i].k
<1>1. /\ k \in Overflowing => v = Wrap(Exact(k, x, y), IntWidth)
      /\ k \in Unary => v = Compute1(k, "I", x)
      /\ k \in Binary => v = Compute2(k, "I", x, y)
  BY ValueOf
<1>2. Width("I") = IntWidth
  BY WidthTypes
<1> HIDE DEF x, y, v
<1>3. /\ k = "addx" => Exact(k, x, y) = x + y
      /\ k = "subx" => Exact(k, x, y) = x - y
      /\ k = "mulx" => Exact(k, x, y) = x * y
  BY DEF Exact
<1>4. k \in Arithmetic2 => v = Arith(k, IntWidth, x, y)
  BY <1>1, <1>2, Binaries DEF Compute2, Arithmetic2
<1>5. k \in {"rsh", "rshu"} => v = Shift(k, IntWidth, x, y)
  BY <1>1, <1>2, Binaries DEF Compute2
<1>6. k = "neg" => v = Wrap(-x, IntWidth)
  BY <1>1, <1>2 DEF Compute1, Unary
<1>7. /\ k = "add" => v = Wrap(x + y, IntWidth)
      /\ k = "sub" => v = Wrap(x - y, IntWidth)
      /\ k = "mul" => v = Wrap(x * y, IntWidth)
  BY <1>4 DEF Arith, Arithmetic2
<1>8. k = "and" => v = Arith("and", IntWidth, x, y)
  BY <1>4 DEF Arithmetic2
<1>9. /\ k = "addx" => v = Wrap(x + y, IntWidth)
      /\ k = "subx" => v = Wrap(x - y, IntWidth)
      /\ k = "mulx" => v = Wrap(x * y, IntWidth)
  BY <1>1, <1>3 DEF Overflowing
<1> QED
  BY <1>5, <1>6, <1>7, <1>8, <1>9 DEF x, y, v, Sums, Differences, Products

\* One instruction, after those before it.
LEMMA GoodStep ==
  ASSUME NEW s, NEW V, NEW E, NEW of, Setting(s, V, E, of),
         NEW i \in DOMAIN s, TypeOf(s, i) = "I",
         \A j \in 1 .. i - 1 : TypeOf(s, j) = "I" => Good(s, of, V, E, j),
         ShiftsAway(s, i) => of[Arg(s, i, 1)][MaxLim].lo >= 0
  PROVE  Good(s, of, V, E, i)
<1> DEFINE k == s[i].k
           a == Arg(s, i, 1)
           b == Arg(s, i, 2)
           c == Arg(s, i, 3)
<1>1. WellTyped(s) /\ \A l \in Nat : of[i][l] = BoundsOf(s, of, i, l)
  BY DEF Setting
<1>2. \A e \in E : V[i][e] = Value(V, s[i], e) /\ V[i][e] \in Values("I")
  BY DEF Setting, Worth
<1>3. MaxLim \in Nat
  BY LimAssumption
<1>4. /\ \A l \in 0 .. MaxLim : l \in Nat /\ l \in Int
      /\ \A l \in 0 .. MaxLim : l > 0 => l - 1 \in 0 .. MaxLim
      /\ \A l \in 0 .. MaxLim : \A m \in l .. MaxLim :
           /\ m \in 0 .. MaxLim
           /\ l > 0 => m > 0 /\ m - 1 \in l - 1 .. MaxLim /\ m - 1 \in 0 .. MaxLim
  BY <1>3
<1>5. Values("I") \subseteq Int
  BY IntsOK
<1>6. ASSUME NEW r, \A l \in 0 .. MaxLim : of[i][l] = r, IsBounds(r),
             \A e \in E : Holds(r, V[i][e])
      PROVE  Good(s, of, V, E, i)
  BY <1>4, <1>6, TighterSelf DEF Good
<1>7. CASE k = "imm"
  <2>1. s[i].ty = "I" /\ s[i].v \in Values("I") /\ s[i].v \in Int
    BY <1>1, <1>5, <1>7, IntOperands DEF WellTyped, WellFormed
  <2>2. \A l \in 0 .. MaxLim : of[i][l] = Bounds(s[i].v, s[i].v)
    BY <1>1, <1>4, <1>7, BoundsBy
  <2>3. \A e \in E : V[i][e] = s[i].v
    BY <1>1, <1>2, <1>7, ValueOf
  <2>4. /\ IsBounds(Bounds(s[i].v, s[i].v))
        /\ \A e \in E : Holds(Bounds(s[i].v, s[i].v), V[i][e])
    BY <2>1, <2>3, BoundsOK
  <2> QED
    BY <1>6, <2>2, <2>4
<1>8. CASE k \in Compares
  <2>1. \A l \in 0 .. MaxLim : of[i][l] = Bounds(0, 1)
    BY <1>1, <1>4, <1>8, BoundsBy
  <2>2. \A e \in E : V[i][e] \in {0, 1}
    BY <1>1, <1>2, <1>8, ValueOf, Compare01, Binaries
  <2>3. IsBounds(Bounds(0, 1)) /\ \A e \in E : Holds(Bounds(0, 1), V[i][e])
    BY <2>2, BoundsOK
  <2> QED
    BY <1>6, <2>1, <2>3
<1>9. CASE k \in Sums
  <2>1. /\ Good(s, of, V, E, a) /\ Good(s, of, V, E, b) /\ s[i].ty = "I"
        /\ \A e \in E : V[a][e] \in Int /\ V[b][e] \in Int
    BY <1>5, <1>9, IntOperands
  <2>2. \A e \in E : V[i][e] = Wrap(V[a][e] + V[b][e], IntWidth)
    BY <1>1, <1>2, <1>9, <2>1, SumValue
  <2>3. ASSUME NEW l \in 0 .. MaxLim
        PROVE  /\ IsBounds(of[i][l]) /\ \A e \in E : Holds(of[i][l], V[i][e])
               /\ \A m \in l .. MaxLim : Tighter(of[i][m], of[i][l])
    <3>1. CASE l = 0
      <4>1. of[i][l] = Overflow
        BY <1>1, <1>4, <1>9, <3>1, BoundsBy
      <4> QED
        BY <4>1, OverflowSays
    <3>2. CASE l > 0
      <4>1. \A m \in l .. MaxLim :
              of[i][m] = AddBounds(of[a][m - 1], of[b][m - 1])
        BY <1>1, <1>4, <1>9, <3>2, BoundsBy
      <4>2. /\ l \in l .. MaxLim /\ IsBounds(of[a][l - 1]) /\ IsBounds(of[b][l - 1])
            /\ \A e \in E : Holds(of[a][l - 1], V[a][e]) /\ Holds(of[b][l - 1], V[b][e])
        BY <1>3, <1>4, <2>1, <3>2 DEF Good
      <4>3. \A m \in l .. MaxLim :
              /\ IsBounds(of[a][m - 1]) /\ IsBounds(of[b][m - 1])
              /\ Tighter(of[a][m - 1], of[a][l - 1]) /\ Tighter(of[b][m - 1], of[b][l - 1])
        BY <1>4, <2>1, <3>2 DEF Good
      <4>4. IsBounds(of[i][l])
        BY <4>1, <4>2, AddBoundsOK
      <4>5. ASSUME NEW e \in E PROVE Holds(of[i][l], V[i][e])
        <5>1. V[a][e] + V[b][e] \in Int /\ Holds(of[i][l], V[a][e] + V[b][e])
          BY <2>1, <4>1, <4>2, AddBoundsOK
        <5> QED
          BY <2>2, <4>4, <5>1, WrapHeld
      <4>6. \A m \in l .. MaxLim : Tighter(of[i][m], of[i][l])
        BY <4>1, <4>2, <4>3, AddBoundsOK
      <4> QED
        BY <4>4, <4>5, <4>6
    <3> QED
      BY <1>4, <3>1, <3>2
  <2> QED
    BY <2>3 DEF Good
<1>10. CASE k \in Differences
  <2>1. /\ Good(s, of, V, E, a) /\ Good(s, of, V, E, b) /\ s[i].ty = "I"
        /\ \A e \in E : V[a][e] \in Int /\ V[b][e] \in Int
    BY <1>5, <1>10, IntOperands
  <2>2. \A e \in E : V[i][e] = Wrap(V[a][e] - V[b][e], IntWidth)
    BY <1>1, <1>2, <1>10, <2>1, SumValue
  <2>3. ASSUME NEW l \in 0 .. MaxLim
        PROVE  /\ IsBounds(of[i][l]) /\ \A e \in E : Holds(of[i][l], V[i][e])
               /\ \A m \in l .. MaxLim : Tighter(of[i][m], of[i][l])
    <3>1. CASE l = 0
      <4>1. of[i][l] = Overflow
        BY <1>1, <1>4, <1>10, <3>1, BoundsBy
      <4> QED
        BY <4>1, OverflowSays
    <3>2. CASE l > 0
      <4>1. \A m \in l .. MaxLim :
              of[i][m] = SubBounds(of[a][m - 1], of[b][m - 1])
        BY <1>1, <1>4, <1>10, <3>2, BoundsBy
      <4>2. /\ l \in l .. MaxLim /\ IsBounds(of[a][l - 1]) /\ IsBounds(of[b][l - 1])
            /\ \A e \in E : Holds(of[a][l - 1], V[a][e]) /\ Holds(of[b][l - 1], V[b][e])
        BY <1>3, <1>4, <2>1, <3>2 DEF Good
      <4>3. \A m \in l .. MaxLim :
              /\ IsBounds(of[a][m - 1]) /\ IsBounds(of[b][m - 1])
              /\ Tighter(of[a][m - 1], of[a][l - 1]) /\ Tighter(of[b][m - 1], of[b][l - 1])
        BY <1>4, <2>1, <3>2 DEF Good
      <4>4. IsBounds(of[i][l])
        BY <4>1, <4>2, SubBoundsOK
      <4>5. ASSUME NEW e \in E PROVE Holds(of[i][l], V[i][e])
        <5>1. V[a][e] - V[b][e] \in Int /\ Holds(of[i][l], V[a][e] - V[b][e])
          BY <2>1, <4>1, <4>2, SubBoundsOK
        <5> QED
          BY <2>2, <4>4, <5>1, WrapHeld
      <4>6. \A m \in l .. MaxLim : Tighter(of[i][m], of[i][l])
        BY <4>1, <4>2, <4>3, SubBoundsOK
      <4> QED
        BY <4>4, <4>5, <4>6
    <3> QED
      BY <1>4, <3>1, <3>2
  <2> QED
    BY <2>3 DEF Good
<1>11. CASE k \in Products
  <2>1. /\ Good(s, of, V, E, a) /\ Good(s, of, V, E, b) /\ s[i].ty = "I"
        /\ \A e \in E : V[a][e] \in Int /\ V[b][e] \in Int
    BY <1>5, <1>11, IntOperands
  <2>2. \A e \in E : V[i][e] = Wrap(V[a][e] * V[b][e], IntWidth)
    BY <1>1, <1>2, <1>11, <2>1, SumValue
  <2>3. ASSUME NEW l \in 0 .. MaxLim
        PROVE  /\ IsBounds(of[i][l]) /\ \A e \in E : Holds(of[i][l], V[i][e])
               /\ \A m \in l .. MaxLim : Tighter(of[i][m], of[i][l])
    <3>1. CASE l = 0
      <4>1. of[i][l] = Overflow
        BY <1>1, <1>4, <1>11, <3>1, BoundsBy
      <4> QED
        BY <4>1, OverflowSays
    <3>2. CASE l > 0
      <4>1. \A m \in l .. MaxLim :
              of[i][m] = MulBounds(of[a][m], of[b][m])
        BY <1>1, <1>4, <1>11, <3>2, BoundsBy
      <4>2. /\ l \in l .. MaxLim /\ IsBounds(of[a][l]) /\ IsBounds(of[b][l])
            /\ \A e \in E : Holds(of[a][l], V[a][e]) /\ Holds(of[b][l], V[b][e])
        BY <1>3, <1>4, <2>1, <3>2 DEF Good
      <4>3. \A m \in l .. MaxLim :
              /\ IsBounds(of[a][m]) /\ IsBounds(of[b][m])
              /\ Tighter(of[a][m], of[a][l]) /\ Tighter(of[b][m], of[b][l])
        BY <1>4, <2>1, <3>2 DEF Good
      <4>4. IsBounds(of[i][l])
        BY <4>1, <4>2, MulBoundsOK
      <4>5. ASSUME NEW e \in E PROVE Holds(of[i][l], V[i][e])
        <5>1. V[a][e] * V[b][e] \in Int /\ Holds(of[i][l], V[a][e] * V[b][e])
          BY <2>1, <4>1, <4>2, MulBoundsOK
        <5> QED
          BY <2>2, <4>4, <5>1, WrapHeld
      <4>6. \A m \in l .. MaxLim : Tighter(of[i][m], of[i][l])
        BY <4>1, <4>2, <4>3, MulBoundsOK
      <4> QED
        BY <4>4, <4>5, <4>6
    <3> QED
      BY <1>4, <3>1, <3>2
  <2> QED
    BY <2>3 DEF Good
<1>12. CASE k = "neg"
  <2>1. /\ Good(s, of, V, E, a) /\ s[i].ty = "I"
        /\ \A e \in E : V[a][e] \in Int /\ 0 - V[a][e] \in Int /\ 0 - V[a][e] = -V[a][e]
    BY <1>5, <1>12, IntOperands
  <2>2. \A e \in E : V[i][e] = Wrap(0 - V[a][e], IntWidth)
    BY <1>1, <1>2, <1>12, <2>1, SumValue
  <2>3. ASSUME NEW l \in 0 .. MaxLim
        PROVE  /\ IsBounds(of[i][l]) /\ \A e \in E : Holds(of[i][l], V[i][e])
               /\ \A m \in l .. MaxLim : Tighter(of[i][m], of[i][l])
    <3>1. CASE l = 0
      <4>1. of[i][l] = Overflow
        BY <1>1, <1>4, <1>12, <3>1, BoundsBy
      <4> QED
        BY <4>1, OverflowSays
    <3>2. CASE l > 0
      <4>1. \A m \in l .. MaxLim :
              of[i][m] = SubBounds(Bounds(0, 0), of[a][m - 1])
        BY <1>1, <1>4, <1>12, <3>2, BoundsBy
      <4>2. /\ l \in l .. MaxLim /\ IsBounds(of[a][l - 1]) /\ IsBounds(Bounds(0, 0))
            /\ \A e \in E : Holds(of[a][l - 1], V[a][e]) /\ Holds(Bounds(0, 0), 0)
        BY <1>3, <1>4, <2>1, <3>2, BoundsOK DEF Good
      <4>3. \A m \in l .. MaxLim :
              /\ IsBounds(of[a][m - 1])
              /\ Tighter(of[a][m - 1], of[a][l - 1]) /\ Tighter(Bounds(0, 0), Bounds(0, 0))
        BY <1>4, <2>1, <3>2, BoundsOK DEF Good
      <4>4. IsBounds(of[i][l])
        BY <4>1, <4>2, SubBoundsOK
      <4>5. ASSUME NEW e \in E PROVE Holds(of[i][l], V[i][e])
        <5>1. 0 - V[a][e] \in Int /\ Holds(of[i][l], 0 - V[a][e])
          BY <2>1, <4>1, <4>2, SubBoundsOK
        <5> QED
          BY <2>2, <4>4, <5>1, WrapHeld
      <4>6. \A m \in l .. MaxLim : Tighter(of[i][m], of[i][l])
        BY <4>1, <4>2, <4>3, SubBoundsOK
      <4> QED
        BY <4>4, <4>5, <4>6
    <3> QED
      BY <1>4, <3>1, <3>2
  <2> QED
    BY <2>3 DEF Good
<1>13. CASE k = "cmov"
  <2>1. /\ Good(s, of, V, E, b) /\ Good(s, of, V, E, c) /\ s[i].ty = "I"
        /\ \A e \in E : V[b][e] \in Int /\ V[c][e] \in Int
    BY <1>5, <1>13, IntOperands
  <2>2. \A e \in E : V[i][e] = V[b][e] \/ V[i][e] = V[c][e]
    BY <1>1, <1>2, <1>13, ValueOf
  <2>3. ASSUME NEW l \in 0 .. MaxLim
        PROVE  /\ IsBounds(of[i][l]) /\ \A e \in E : Holds(of[i][l], V[i][e])
               /\ \A m \in l .. MaxLim : Tighter(of[i][m], of[i][l])
    <3>1. CASE l = 0
      <4>1. of[i][l] = Overflow
        BY <1>1, <1>4, <1>13, <3>1, BoundsBy
      <4> QED
        BY <4>1, OverflowSays
    <3>2. CASE l > 0
      <4>1. \A m \in l .. MaxLim :
              of[i][m] = Hull(of[b][m - 1], of[c][m - 1])
        BY <1>1, <1>4, <1>13, <3>2, BoundsBy
      <4>2. /\ l \in l .. MaxLim /\ IsBounds(of[b][l - 1]) /\ IsBounds(of[c][l - 1])
            /\ \A e \in E : Holds(of[b][l - 1], V[b][e]) /\ Holds(of[c][l - 1], V[c][e])
        BY <1>3, <1>4, <2>1, <3>2 DEF Good
      <4>3. \A m \in l .. MaxLim :
              /\ IsBounds(of[b][m - 1]) /\ IsBounds(of[c][m - 1])
              /\ Tighter(of[b][m - 1], of[b][l - 1]) /\ Tighter(of[c][m - 1], of[c][l - 1])
        BY <1>4, <2>1, <3>2 DEF Good
      <4>4. IsBounds(of[i][l])
        BY <4>1, <4>2, HullOK
      <4>5. ASSUME NEW e \in E PROVE Holds(of[i][l], V[i][e])
        BY <2>1, <2>2, <4>1, <4>2, HullOK
      <4>6. \A m \in l .. MaxLim : Tighter(of[i][m], of[i][l])
        BY <4>1, <4>2, <4>3, HullOK
      <4> QED
        BY <4>4, <4>5, <4>6
    <3> QED
      BY <1>4, <3>1, <3>2
  <2> QED
    BY <2>3 DEF Good
<1>14. CASE k = "and" /\ IsImm(s, b) /\ s[b].v > 0
  <2>1. /\ Opd(s, b, "I") /\ s[i].ty = "I" /\ \A e \in E : V[a][e] \in Values("I")
    BY <1>14, IntOperands
  <2>2. b \in DOMAIN s /\ s[b].v \in Values("I")
    BY <1>1, <1>14, <2>1, ImmValue DEF Opd
  <2>3. \A e \in E : V[b][e] = s[b].v
    BY <1>1, <1>14, <2>2, ValueOf DEF Setting, Worth, IsImm
  <2>4. \A e \in E : V[i][e] = Arith("and", IntWidth, V[a][e], s[b].v)
    BY <1>1, <1>2, <1>14, <2>1, <2>3, SumValue
  <2>5. \A l \in 0 .. MaxLim : of[i][l] = Bounds(0, s[b].v)
    BY <1>1, <1>4, <1>14, BoundsBy
  <2>6. /\ IsBounds(Bounds(0, s[b].v))
        /\ \A e \in E : Holds(Bounds(0, s[b].v), V[i][e])
    BY <1>14, <2>1, <2>2, <2>4, MaskOK
  <2> QED
    BY <1>6, <2>5, <2>6
<1>15. CASE k = "rsh" /\ IsImm(s, b)
  <2>1. /\ Opd(s, b, "I") /\ s[i].ty = "I" /\ \A e \in E : V[a][e] \in Values("I")
    BY <1>15, IntOperands
  <2>2. b \in DOMAIN s /\ s[b].v \in Int
    BY <1>1, <1>5, <1>15, <2>1, ImmValue DEF Opd
  <2>3. \A e \in E : V[b][e] = s[b].v
    BY <1>1, <1>15, <2>2, ValueOf DEF Setting, Worth, IsImm
  <2>4. \A e \in E : V[i][e] = Shift("rsh", IntWidth, V[a][e], s[b].v)
    BY <1>1, <1>2, <1>15, <2>1, <2>3, SumValue
  <2>5. \A l \in 0 .. MaxLim : of[i][l] = RshBounds(s[b].v)
    BY <1>1, <1>4, <1>15, BoundsBy
  <2>6. /\ IsBounds(RshBounds(s[b].v))
        /\ \A e \in E : Holds(RshBounds(s[b].v), V[i][e])
    BY <2>1, <2>2, <2>4, RshOK
  <2> QED
    BY <1>6, <2>5, <2>6
<1>16. CASE k = "rshu" /\ IsImm(s, b)
  <2>1. /\ Opd(s, b, "I") /\ s[i].ty = "I" /\ \A e \in E : V[a][e] \in Values("I")
        /\ Good(s, of, V, E, a)
    BY <1>16, IntOperands
  <2>2. b \in DOMAIN s /\ s[b].v \in Int
    BY <1>1, <1>5, <1>16, <2>1, ImmValue DEF Opd
  <2>3. \A e \in E : V[b][e] = s[b].v
    BY <1>1, <1>16, <2>2, ValueOf DEF Setting, Worth, IsImm
  <2>4. \A e \in E : V[i][e] = Shift("rshu", IntWidth, V[a][e], s[b].v)
    BY <1>1, <1>2, <1>16, <2>1, <2>3, SumValue
  <2>5. s[b].v % IntWidth > 0 => of[a][MaxLim].lo >= 0
    BY <1>16, <2>1 DEF ShiftsAway, Is
  <2>6. ASSUME NEW d \in 0 .. MaxLim
        PROVE  /\ IsBounds(of[a][d])
               /\ s[b].v % IntWidth > 0 => of[a][d].over \/ 0 <= of[a][d].hi
               /\ \A e \in E :
                    /\ Holds(of[a][d], V[a][e])
                    /\ s[b].v % IntWidth > 0 => of[a][d].over \/ 0 <= V[a][e]
    <3>1. PICK x, z : x = of[a][d] /\ z = of[a][MaxLim]
      OBVIOUS
    <3>2. MaxLim \in d .. MaxLim /\ MaxLim \in 0 .. MaxLim
      BY <1>3
    <3>3. /\ IsBounds(x) /\ IsBounds(z) /\ Tighter(z, x)
          /\ s[b].v % IntWidth > 0 => z.lo >= 0
      BY <2>1, <2>5, <3>1, <3>2 DEF Good
    <3>4. \A e \in E : Holds(x, V[a][e]) /\ Holds(z, V[a][e]) /\ V[a][e] \in Int
      BY <1>5, <2>1, <3>1, <3>2 DEF Good
    <3>5. s[b].v % IntWidth > 0 /\ ~x.over => ~z.over /\ 0 <= x.hi
      BY <3>3 DEF IsBounds, Tighter
    <3>6. \A e \in E : s[b].v % IntWidth > 0 /\ ~x.over => 0 <= V[a][e]
      BY <3>3, <3>4, <3>5 DEF IsBounds, Holds
    <3> QED
      BY <3>1, <3>3, <3>4, <3>5, <3>6
  <2>7. \A l \in 0 .. MaxLim :
          /\ l = 0 => of[i][l] = WorstNonOverflow
          /\ l > 0 => of[i][l] = RshuBounds(of[a][l - 1], s[b].v)
    BY <1>1, <1>4, <1>16, BoundsBy
  <2>8. ASSUME NEW l \in 0 .. MaxLim
        PROVE  /\ IsBounds(of[i][l]) /\ ~of[i][l].over
               /\ \A e \in E : Holds(of[i][l], V[i][e])
    <3>1. CASE l = 0
      BY <1>2, <2>7, <3>1, WorstOK
    <3>2. CASE l > 0
      <4>1. PICK x, y : /\ x = of[a][l - 1] /\ y = s[b].v /\ y \in Int
                        /\ of[i][l] = RshuBounds(x, y)
        BY <2>2, <2>7, <3>2
      <4>2. /\ IsBounds(x) /\ (y % IntWidth > 0 => x.over \/ 0 <= x.hi)
            /\ \A e \in E : /\ Holds(x, V[a][e])
                            /\ y % IntWidth > 0 => x.over \/ 0 <= V[a][e]
        BY <1>4, <2>6, <3>2, <4>1
      <4>3. /\ IsBounds(RshuBounds(x, y)) /\ ~RshuBounds(x, y).over
            /\ \A e \in E : Holds(RshuBounds(x, y), Shift("rshu", IntWidth, V[a][e], y))
        BY <2>1, <4>1, <4>2, RshuOK
      <4> QED
        BY <2>4, <4>1, <4>3
    <3> QED
      BY <1>4, <3>1, <3>2
  <2>9. ASSUME NEW l \in 0 .. MaxLim, NEW m \in l .. MaxLim
        PROVE  Tighter(of[i][m], of[i][l])
    <3>1. CASE l = 0
      <4>1. IsBounds(of[i][m]) /\ ~of[i][m].over
        BY <1>4, <2>8
      <4> QED
        BY <2>7, <3>1, <4>1, WorstOK
    <3>2. CASE l > 0
      <4>1. /\ l - 1 \in 0 .. MaxLim /\ m \in 0 .. MaxLim /\ m > 0
            /\ m - 1 \in 0 .. MaxLim /\ m - 1 \in l - 1 .. MaxLim
        BY <1>4, <3>2
      <4>2. PICK x, z, y :
              /\ x = of[a][l - 1] /\ z = of[a][m - 1] /\ y = s[b].v /\ y \in Int
              /\ of[i][l] = RshuBounds(x, y) /\ of[i][m] = RshuBounds(z, y)
        BY <2>2, <2>7, <3>2, <4>1
      <4>3. /\ IsBounds(x) /\ (y % IntWidth > 0 => x.over \/ 0 <= x.hi)
            /\ IsBounds(z) /\ (y % IntWidth > 0 => z.over \/ 0 <= z.hi)
        BY <2>6, <4>1, <4>2
      <4>4. Tighter(z, x)
        BY <2>1, <4>1, <4>2 DEF Good
      <4>5. Tighter(RshuBounds(z, y), RshuBounds(x, y))
        <5>1. \A p : IsBounds(p) /\ Tighter(p, x)
                       /\ (y % IntWidth > 0 => p.over \/ 0 <= p.hi)
                     => Tighter(RshuBounds(p, y), RshuBounds(x, y))
          BY <4>2, <4>3, RshuOK, Zenon
        <5> QED
          BY <4>3, <4>4, <5>1
      <4> QED
        BY <4>2, <4>5
    <3> QED
      BY <1>4, <3>1, <3>2
  <2> QED
    BY <2>8, <2>9 DEF Good
<1>17. CASE \/ k = "and" /\ ~(IsImm(s, b) /\ s[b].v > 0)
            \/ k \in {"rsh", "rshu"} /\ ~IsImm(s, b)
            \/ k \notin Sums \cup Differences \cup Products \cup Compares
                          \cup {"imm", "neg", "cmov", "and", "rshu", "rsh"}
  <2>1. \A l \in 0 .. MaxLim : of[i][l] = WorstNonOverflow
    BY <1>1, <1>4, <1>17, BoundsBy
  <2> QED
    BY <1>2, <1>6, <2>1, WorstOK
<1> QED
  BY <1>7, <1>8, <1>9, <1>10, <1>11, <1>12, <1>13, <1>14, <1>15, <1>16, <1>17

\* All of them, where no unsigned shift is mistaken.
LEMMA SoundCode ==
  ASSUME NEW s, NEW V, NEW E, WellTyped(s), Worth(s, V, E),
         \A i \in DOMAIN s, e \in E : TypeOf(s, i) = "I" => V[i][e] \in Values("I"),
         \A i \in DOMAIN s :
           ShiftsAway(s, i) => IntervalOf(s, Arg(s, i, 1), MaxLim).lo >= 0,
         NEW i, Opd(s, i, "I"), NEW l \in 0 .. MaxLim
  PROVE  /\ IsBounds(IntervalOf(s, i, l))
         /\ \A e \in E : Holds(IntervalOf(s, i, l), V[i][e])
<1>1. PICK of : \A j \in DOMAIN s, d \in Nat :
                  of[j][d] = BoundsOf(s, of, j, d) /\ IntervalOf(s, j, d) = of[j][d]
  BY IntervalsOK
<1>2. Setting(s, V, E, of)
  BY <1>1 DEF Setting
<1>3. DOMAIN s = 1 .. Len(s) /\ Len(s) \in Nat /\ MaxLim \in Nat
  BY LimAssumption DEF WellTyped
<1> DEFINE Right(j) == TypeOf(s, j) = "I" => Good(s, of, V, E, j)
           T == {j \in DOMAIN s : ~Right(j)}
<1>4. ASSUME NEW j \in DOMAIN s, \A n \in 1 .. j - 1 : Right(n) PROVE Right(j)
  <2>1. CASE TypeOf(s, j) # "I"
    BY <2>1
  <2>2. CASE TypeOf(s, j) = "I"
    <3>1. ShiftsAway(s, j) => of[Arg(s, j, 1)][MaxLim].lo >= 0
      <4>1. ShiftsAway(s, j) => Arg(s, j, 1) \in 1 .. j - 1
        BY Operands3 DEF ShiftsAway, Is
      <4>2. ShiftsAway(s, j) => Arg(s, j, 1) \in DOMAIN s
        BY <1>3, <4>1
      <4> QED
        BY <1>1, <1>3, <4>2
    <3> QED
      BY <1>2, <1>4, <2>2, <3>1, GoodStep
  <2> QED
    BY <2>1, <2>2
<1> HIDE DEF Right
<1>5. ASSUME T # {} PROVE FALSE
  <2>1. T \in SUBSET Nat
    BY <1>3
  <2>2. PICK j \in T : \A n \in T : j <= n
    BY <1>5, <2>1, NatLeast
  <2>3. \A n \in 1 .. j - 1 : n \in DOMAIN s /\ ~(j <= n)
    BY <1>3, <2>2
  <2>4. \A n \in 1 .. j - 1 : Right(n)
    BY <2>2, <2>3
  <2> QED
    BY <1>4, <2>2, <2>4
<1>6. Good(s, of, V, E, i) /\ i \in DOMAIN s /\ l \in Nat
  BY <1>3, <1>5 DEF Right, Opd
<1>7. IntervalOf(s, i, l) = of[i][l]
  BY <1>1, <1>6
<1> QED
  BY <1>6, <1>7 DEF Good

-----------------------------------------------------------------------------
(* What every request leaves behind.                                       *)

TypeInv ==
  /\ fam \in Family /\ WellTyped(ins)
  /\ asked.n \in Nat
  /\ asked.n > 0 /\ asked.x.ty # "V" =>
       Opd(ins, asked.ret, RetType(asked.x.k, asked.x.ty))

\* The values kept are those of the instructions, and parameters are of their
\* types.
ValueInv ==
  /\ TypeInv /\ Worth(ins, val, Env)
  /\ \A i \in DOMAIN ins, e \in Env :
       ins[i].k = "param" => e[ins[i].v] \in Values(ins[i].ty)
  /\ asked.new => asked.n > 0

\* The values after an answer.
LEMMA ValuesStay ==
  ASSUME ValueInv, NEW x, NEW r, WellTyped(r.ins), Extends(r.ins, ins), Answer(x, r), TypeInv'
  PROVE  ValueInv'
<1>1. ins' = r.ins /\ fam' = fam /\ val' = ValuesFrom(val, r.ins) /\ asked'.n = asked.n + 1
  BY DEF Answer
<1>2. Env' = Env
  BY <1>1 DEF Env
<1>3. /\ DOMAIN val = DOMAIN ins /\ DOMAIN ins = 1 .. Len(ins) /\ Len(ins) \in Nat
      /\ \A i \in DOMAIN ins : val[i] = [e \in Env |-> Value(val, ins[i], e)]
  BY DEF ValueInv, TypeInv, WellTyped, Worth
<1>4. DOMAIN val \subseteq DOMAIN r.ins /\ \A i \in DOMAIN val : r.ins[i] = ins[i]
  BY <1>3 DEF Extends
<1>5. \A i \in DOMAIN val : /\ 1 .. i - 1 \subseteq DOMAIN val
                            /\ val[i] = [e \in Env |-> Value(val, r.ins[i], e)]
  BY <1>3, <1>4
<1>6. Worth(r.ins, ValuesFrom(val, r.ins), Env)
  BY <1>4, <1>5, ValuesFromOK
<1>7. Worth(ins, val, Env)'
  BY <1>1, <1>2, <1>6 DEF Worth
<1>8. (\A i \in DOMAIN ins, e \in Env :
         ins[i].k = "param" => e[ins[i].v] \in Values(ins[i].ty))'
  BY <1>1, <1>2 DEF ValueInv, Extends
<1>9. (asked.new => asked.n > 0)'
  BY <1>1 DEF ValueInv, TypeInv
<1> QED
  BY <1>7, <1>8, <1>9 DEF ValueInv

\* The answer to a request for a value.
LEMMA AnswerOK ==
  ASSUME ValueInv, NEW x, NEW r, Answers(ins, r, RetType(x.k, x.ty)), Answer(x, r)
  PROVE  ValueInv'
<1>1. ins' = r.ins /\ fam' = fam /\ asked'.x = x /\ asked'.ret = r.ret
      /\ asked'.n = asked.n + 1
  BY DEF Answer
<1>2. /\ WellTyped(r.ins) /\ Extends(r.ins, ins)
      /\ Opd(r.ins, r.ret, RetType(x.k, x.ty))
  BY DEF Answers, Opd
<1>3. TypeInv'
  BY <1>1, <1>2 DEF ValueInv, TypeInv
<1> QED
  BY <1>2, <1>3, ValuesStay

\* The answer to a request for a guard or a branch.
LEMMA AnswerVoidOK ==
  ASSUME ValueInv, NEW x, x.ty = "V", NEW r, WellTyped(r.ins), Extends(r.ins, ins),
         Answer(x, r)
  PROVE  ValueInv'
<1>1. ins' = r.ins /\ fam' = fam /\ asked'.x = x /\ asked'.n = asked.n + 1
  BY DEF Answer
<1>2. TypeInv'
  BY <1>1 DEF ValueInv, TypeInv
<1> QED
  BY <1>2, ValuesStay

\* The answer to any request.
LEMMA AskOK ==
  ASSUME ValueInv, Ask
  PROVE  ValueInv'
<1>1. /\ WellTyped(ins)
      /\ \A q \in Requests(fam) : q.k = "choose" \/ IsOperator(q.k, q.ty)
  BY RequestAssumption DEF ValueInv, TypeInv
<1>2. \A ty : \A i \in Operands(ty) : Opd(ins, i, ty)
  BY DEF Operands, Opd
<1>3. \A i \in Conds : Opd(ins, i, "I") /\ (IsCmp(ins, i) \/ IsImmI(ins, i))
  BY Kinds DEF Conds, Opd, TypeOf, IsCmp, IsImmI, Is
<1>4. ASSUME Ask1 PROVE ValueInv'
  <2>1. PICK q \in Requests(fam) :
          /\ q.k \in Unary
          /\ \E a \in Operands(Formals(q.k, q.ty)[1]) :
               Answer(Op(q.k, q.ty, <<a>>), Ins1(ins, q.k, q.ty, a))
    BY <1>4 DEF Ask1
  <2>2. PICK a \in Operands(Formals(q.k, q.ty)[1]) :
          Answer(Op(q.k, q.ty, <<a>>), Ins1(ins, q.k, q.ty, a))
    BY <2>1
  <2>3. Answers(ins, Ins1(ins, q.k, q.ty, a), RetType(q.k, q.ty))
    <3>1. IsOperator(q.k, q.ty)
      BY <1>1, <2>1 DEF Unary, Conversions
    <3> QED
      BY <1>1, <1>2, <2>1, <3>1, Ins1OK
  <2>4. Op(q.k, q.ty, <<a>>).k = q.k /\ Op(q.k, q.ty, <<a>>).ty = q.ty
    BY DEF Op
  <2> QED
    BY <2>2, <2>3, <2>4, AnswerOK
<1>5. ASSUME Ask2 PROVE ValueInv'
  <2>1. PICK q \in Requests(fam) :
          /\ q.k \in Binary
          /\ \E a \in Operands(Formals(q.k, q.ty)[1]),
                b \in Operands(Formals(q.k, q.ty)[2]) :
               Answer(Op(q.k, q.ty, <<a, b>>), Ins2(ins, q.k, q.ty, a, b))
    BY <1>5 DEF Ask2
  <2>2. PICK a \in Operands(Formals(q.k, q.ty)[1]),
             b \in Operands(Formals(q.k, q.ty)[2]) :
          Answer(Op(q.k, q.ty, <<a, b>>), Ins2(ins, q.k, q.ty, a, b))
    BY <2>1
  <2>3. Answers(ins, Ins2(ins, q.k, q.ty, a, b), RetType(q.k, q.ty))
    <3>1. IsOperator(q.k, q.ty)
      BY <1>1, <2>1, Binaries DEF Arithmetic2
    <3> QED
      BY <1>1, <1>2, <2>1, <3>1, Ins2OK
  <2>4. Op(q.k, q.ty, <<a, b>>).k = q.k /\ Op(q.k, q.ty, <<a, b>>).ty = q.ty
    BY DEF Op
  <2> QED
    BY <2>2, <2>3, <2>4, AnswerOK
<1>6. ASSUME AskCmov PROVE ValueInv'
  <2>1. PICK q \in Requests(fam) :
          /\ q.k = "cmov"
          /\ \E c \in Conds, a, b \in Operands(q.ty) :
               Answer(Op("cmov", q.ty, <<c, a, b>>), Ins3(ins, q.ty, c, a, b))
    BY <1>6 DEF AskCmov
  <2>2. PICK c \in Conds, a \in Operands(q.ty), b \in Operands(q.ty) :
          Answer(Op("cmov", q.ty, <<c, a, b>>), Ins3(ins, q.ty, c, a, b))
    BY <2>1
  <2>3. Answers(ins, Ins3(ins, q.ty, c, a, b), q.ty)
    <3>1. q.ty \in {"I", "Q", "D"}
      BY <1>1, <2>1, Operators
    <3> QED
      BY <1>1, <1>2, <1>3, <3>1, Ins3OK
  <2>4. PICK x : x = Op("cmov", q.ty, <<c, a, b>>)
    OBVIOUS
  <2>5. RetType(x.k, x.ty) = q.ty
    BY <2>4, Kinds DEF Op
  <2> QED
    BY <2>2, <2>3, <2>4, <2>5, AnswerOK
<1>7. ASSUME AskGuard PROVE ValueInv'
  <2>1. PICK q \in Requests(fam), c \in Conds :
          /\ q.k \in {"xt", "xf"}
          /\ Answer(Op(q.k, "V", <<c>>), Conditional(ins, q.k, "x", c))
    BY <1>7 DEF AskGuard, InsGuard
  <2>2. /\ WellTyped(Conditional(ins, q.k, "x", c).ins)
        /\ Extends(Conditional(ins, q.k, "x", c).ins, ins)
    BY <1>1, <1>3, <2>1, ConditionalOK DEF Opd
  <2>3. Op(q.k, "V", <<c>>).ty = "V"
    BY DEF Op
  <2> QED
    BY <2>1, <2>2, <2>3, AnswerVoidOK
<1>8. ASSUME AskBranch PROVE ValueInv'
  <2>1. PICK q \in Requests(fam), c \in Conds :
          /\ q.k \in {"jt", "jf"}
          /\ Answer(Op(q.k, "V", <<c>>), Conditional(ins, q.k, "j", c))
    BY <1>8 DEF AskBranch, InsBranch
  <2>2. /\ WellTyped(Conditional(ins, q.k, "j", c).ins)
        /\ Extends(Conditional(ins, q.k, "j", c).ins, ins)
    BY <1>1, <1>3, <2>1, ConditionalOK DEF Opd
  <2>3. Op(q.k, "V", <<c>>).ty = "V"
    BY DEF Op
  <2> QED
    BY <2>1, <2>2, <2>3, AnswerVoidOK
<1>9. ASSUME AskOverflowing PROVE ValueInv'
  <2>1. PICK q \in Requests(fam), a, b \in Operands("I") :
          /\ q.k \in {"addx", "subx", "mulx"}
          /\ Answer(Op(q.k, "I", <<a, b>>), SimplifyOverflowArith(ins, q.k, a, b))
    BY <1>9 DEF AskOverflowing
  <2>2. Answers(ins, SimplifyOverflowArith(ins, q.k, a, b), "I")
    BY <1>1, <1>2, <2>1, OverflowOK
  <2>3. PICK x : x = Op(q.k, "I", <<a, b>>)
    OBVIOUS
  <2>4. RetType(x.k, x.ty) = "I"
    BY <2>1, <2>3, Kinds DEF Op
  <2> QED
    BY <2>1, <2>2, <2>3, <2>4, AnswerOK
<1>10. ASSUME AskLoad PROVE ValueInv'
  <2>1. PICK base \in Operands("Q"), d \in Offsets :
          Answer(Ld(base, d), InsLoad(ins, base, d))
    BY <1>10 DEF AskLoad
  <2>2. Answers(ins, InsLoad(ins, base, d), "Q")
    BY <1>1, <1>2, InsLoadOK, RequestAssumption
  <2>3. RetType(Ld(base, d).k, Ld(base, d).ty) = "Q"
    BY Kinds DEF Ld
  <2> QED
    BY <2>1, <2>2, <2>3, AnswerOK
<1>11. ASSUME AskChoose PROVE ValueInv'
  <2>1. PICK c \in Conds, a, b \in Operands("I"), useCmov \in BOOLEAN :
          Answer(Op("cmov", "I", <<c, a, b>>), InsChoose(ins, c, a, b, useCmov))
    BY <1>11 DEF AskChoose
  <2>2. Answers(ins, InsChoose(ins, c, a, b, useCmov), "I")
    BY <1>1, <1>2, <1>3, InsChooseOK
  <2>3. PICK x : x = Op("cmov", "I", <<c, a, b>>)
    OBVIOUS
  <2>4. RetType(x.k, x.ty) = "I"
    BY <2>3, Kinds DEF Op
  <2> QED
    BY <2>1, <2>2, <2>3, <2>4, AnswerOK
<1> QED
  BY <1>4, <1>5, <1>6, <1>7, <1>8, <1>9, <1>10, <1>11 DEF Ask

\* What every instruction is worth is kept by the model as it should be.
THEOREM AlwaysValueInv == Spec => []ValueInv
<1>1. Init => ValueInv
  <2> SUFFICES ASSUME Init PROVE ValueInv
    OBVIOUS
  <2>1. /\ fam \in Family /\ ins = Pool(fam) /\ val = ValuesFrom(<<>>, ins)
        /\ asked = NoRequest /\ Env = Envs(fam)
    BY DEF Init, Env
  <2>2. /\ WellTyped(ins)
        /\ \A i \in DOMAIN ins, e \in Env :
             ins[i].k = "param" => e[ins[i].v] \in Values(ins[i].ty)
    BY <2>1, PoolAssumption
  <2>3. Worth(ins, val, Env)
    <3>1. DOMAIN << >> = {}
      OBVIOUS
    <3>2. Worth(ins, ValuesFrom(<<>>, ins), Env)
      BY <2>2, <3>1, ValuesFromOK
    <3> QED
      BY <2>1, <3>2
  <2>4. asked.n = 0 /\ asked.new = FALSE
    BY <2>1 DEF NoRequest
  <2> QED
    BY <2>1, <2>2, <2>3, <2>4 DEF ValueInv, TypeInv
<1>2. ValueInv /\ [Next]_vars => ValueInv'
  <2> SUFFICES ASSUME ValueInv, [Next]_vars PROVE ValueInv'
    OBVIOUS
  <2>1. CASE Next
    BY <2>1, AskOK DEF Next
  <2>2. CASE UNCHANGED vars
    <3>1. ins' = ins /\ fam' = fam /\ val' = val /\ asked' = asked /\ Env' = Env
      BY <2>2 DEF vars, Env
    <3>2. TypeInv'
      BY <3>1 DEF ValueInv, TypeInv
    <3>3. Worth(ins, val, Env)'
      BY <3>1 DEF ValueInv, Worth
    <3> QED
      BY <3>1, <3>2, <3>3 DEF ValueInv
  <2> QED
    BY <2>1, <2>2
<1> QED
  BY <1>1, <1>2, PTL DEF Spec

\* Whatever a front end asks for, for integers of any width and from any
\* well-typed code, instructions are of operators there are, and have operands
\* of the types they want, written before them.
THEOREM AlwaysTypeInv == Spec => []TypeInv
<1>1. ValueInv => TypeInv
  BY DEF ValueInv
<1> QED
  BY <1>1, AlwaysValueInv, PTL

\* ValidateWriter after ExprFilter never finds an operand of a wrong type, a
\* guard on what is no condition, or an answer of another type than asked for.
THEOREM AnswersAlwaysWellTyped == Spec => []AnswerWellTyped
<1>1. TypeInv => AnswerWellTyped
  BY DEF TypeInv, AnswerWellTyped, WellTyped, Opd
<1> QED
  BY <1>1, AlwaysTypeInv, PTL

\* Interval::of, for ints of any width and to any depth: what an int is worth
\* is within the bounds it gives, in code of any length, if no unsigned shift by
\* a constant of at least one bit is of what may be negative.
THEOREM IntervalsAlwaysSound == Spec => []IntervalSound
<1>1. ASSUME ValueInv PROVE IntervalSound
  <2> SUFFICES ASSUME \A i \in DOMAIN ins :
                        ShiftsAway(ins, i) => IntervalOf(ins, Arg(ins, i, 1), MaxLim).lo >= 0,
                      asked.new, asked.x.ty = "I", RetType(asked.x.k, "I") = "I",
                      NEW l \in 0 .. MaxLim
               PROVE  LET x == IntervalOf(ins, asked.ret, l)
                      IN  /\ IsSane(x)
                          /\ ~x.over => \A e \in Env : /\ x.lo <= val[asked.ret][e]
                                                       /\ val[asked.ret][e] <= x.hi
    BY DEF IntervalSound, IntervalHolds
  <2>1. WellTyped(ins) /\ Opd(ins, asked.ret, "I")
    BY <1>1 DEF ValueInv, TypeInv
  <2>2. Worth(ins, val, Env)
    BY <1>1 DEF ValueInv
  <2>3. \A i \in DOMAIN ins, e \in Env : TypeOf(ins, i) = "I" => val[i][e] \in Values("I")
    BY <1>1, <2>1, <2>2, WorthTyped DEF ValueInv
  <2>4. PICK x : /\ x = IntervalOf(ins, asked.ret, l) /\ IsBounds(x)
                 /\ \A e \in Env : Holds(x, val[asked.ret][e])
    BY <2>1, <2>2, <2>3, SoundCode
  <2> QED
    BY <2>4 DEF IsBounds, Holds, IsSane
<1> QED
  BY <1>1, AlwaysValueInv, PTL

\* Wrapping changes a number by a multiple of 2 ^ w, and does not tell apart
\* those that differ by one.
LEMMA WrapAround ==
  ASSUME NEW w \in Nat \ {0}, NEW n \in Int
  PROVE  /\ \E k \in Int : Wrap(n, w) = n + 2 ^ w * k
         /\ \A k \in Int : Wrap(n + 2 ^ w * k, w) = Wrap(n, w)
         /\ Wrap(Unsigned(n, w), w) = Wrap(n, w)
<1> PICK p \in Nat \ {0} : p = 2 ^ w
  BY WidthOK
<1>1. PICK q \in Int : n = p * q + (n % p) /\ n % p \in 0 .. p - 1
  BY DivMod
<1>2. \E k \in Int : Wrap(n, w) = n + p * k
  <2>1. Wrap(n, w) = (n % p) - p \/ Wrap(n, w) = n % p
    BY DEF Wrap, Unsigned
  <2>2. n % p = n + p * (-q) /\ (n % p) - p = n + p * (-q - 1) /\ -q \in Int /\ -q - 1 \in Int
    BY <1>1
  <2> QED
    BY <2>1, <2>2
<1>3. ASSUME NEW k \in Int PROVE (n + p * k) % p = n % p
  <2>1. n + p * k = p * (q + k) + (n % p)
    <3>1. p * (q + k) = p * q + p * k
      OBVIOUS
    <3> QED
      BY <1>1, <3>1, SMTT(30)
  <2>2. PICK m \in Int, j \in Int, r \in 0 .. p - 1 :
          m = n + p * k /\ j = q + k /\ r = n % p /\ m = p * j + r
    BY <1>1, <2>1
  <2>3. m = p * j + r
    BY <2>2
  <2>4. m % p = r
    BY <2>3, DivUnique
  <2> QED
    BY <2>2, <2>4
<1>4. \A k \in Int : Wrap(n + p * k, w) = Wrap(n, w)
  BY <1>3 DEF Wrap, Unsigned
<1>5. Wrap(Unsigned(n, w), w) = Wrap(n, w)
  <2>1. n % p = n + p * (-q) /\ -q \in Int
    BY <1>1
  <2> QED
    BY <1>4, <2>1 DEF Unsigned
<1> QED
  BY <1>2, <1>4, <1>5

\* Sums, differences and products of what is wrapped.
LEMMA WrapInside ==
  ASSUME NEW w \in Nat \ {0}, NEW n \in Int, NEW m \in Int
  PROVE  /\ Wrap(Wrap(n, w) + m, w) = Wrap(n + m, w)
         /\ Wrap(Wrap(n, w) - m, w) = Wrap(n - m, w)
         /\ Wrap(m - Wrap(n, w), w) = Wrap(m - n, w)
         /\ Wrap(-Wrap(n, w), w) = Wrap(-n, w)
<1> PICK p \in Nat \ {0} : p = 2 ^ w
  BY WidthOK
<1>1. PICK k \in Int : Wrap(n, w) = n + p * k
  BY WrapAround
<1>2. \A i \in Int : /\ Wrap((n + m) + p * i, w) = Wrap(n + m, w)
                     /\ Wrap((n - m) + p * i, w) = Wrap(n - m, w)
                     /\ Wrap((m - n) + p * i, w) = Wrap(m - n, w)
                     /\ Wrap(-n + p * i, w) = Wrap(-n, w)
  <2>1. n + m \in Int /\ n - m \in Int /\ m - n \in Int /\ -n \in Int
    OBVIOUS
  <2> QED
    BY <2>1, WrapAround
<1>3. /\ (n + p * k) + m = (n + m) + p * k /\ (n + p * k) - m = (n - m) + p * k
      /\ m - (n + p * k) = (m - n) + p * (-k) /\ -(n + p * k) = -n + p * (-k)
      /\ -k \in Int
  OBVIOUS
<1> QED
  BY <1>1, <1>2, <1>3, ZenonT(60)

\* The low bits of a number, one more at a time.
LEMMA LowBits ==
  ASSUME NEW c \in Int, NEW n \in Nat
  PROVE  c % 2 ^ (n + 1) = (c % 2 ^ n) + 2 ^ n * BitOf(c, n)
<1> PICK p \in Nat \ {0}, r \in Nat \ {0} : p = 2 ^ n /\ 2 ^ (n + 1) = r /\ r = 2 * p
  BY Doubled
<1>1. PICK d \in {0, 1} : d = BitOf(c, n) /\ c \div p = 2 * (c \div r) + d
  BY BitStep
<1>2. PICK h \in Int, q \in Int : h = c \div r /\ q = c \div p /\ q = 2 * h + d
  <2>1. c \div p \in Int /\ c \div r \in Int
    BY DivMod
  <2> QED
    BY <1>1, <2>1
<1>3. PICK x \in 0 .. p - 1 : x = c % p /\ c = p * q + x
  <2>1. c % p \in 0 .. p - 1 /\ c = p * (c \div p) + (c % p)
    BY DivMod
  <2> QED
    BY <1>2, <2>1
<1>4. p * q = r * h + p * d
  <2>1. p * (2 * h + d) = (2 * p) * h + p * d
    OBVIOUS
  <2> QED
    BY <1>2, <2>1
<1>5. PICK v \in 0 .. p : v = p * d
  BY <1>1
<1>6. PICK y \in 0 .. r - 1 : y = v + x
  <2>1. d = 0 \/ d = 1
    OBVIOUS
  <2>2. v = 0 \/ v = p
    BY <1>5, <2>1
  <2> QED
    BY <2>2
<1>7. c = r * h + y
  <2>1. PICK m \in Int, u \in Int : m = p * q /\ u = r * h
    OBVIOUS
  <2>2. m = u + v /\ c = m + x /\ y = v + x
    BY <1>3, <1>4, <1>5, <1>6, <2>1
  <2>3. c = u + y
    BY <2>2
  <2> QED
    BY <2>1, <2>3
<1>8. c % r = y
  BY <1>7, DivUnique
<1>9. c % r = (c % p) + p * BitOf(c, n)
  <2>1. y = x + v
    BY <1>6
  <2> QED
    BY <1>1, <1>3, <1>5, <1>8, <2>1
<1> QED
  BY <1>9

\* If the bits of a and b give those of c, a number of w bits, the result is c.
LEMMA BitsGive ==
  ASSUME NEW k \in {"and", "or", "xor"}, NEW w \in Nat \ {0},
         NEW a \in Int, NEW b \in Int, NEW c \in MinOf(w) .. MaxOf(w),
         \A n \in Nat : OnBits(k, BitOf(a, n), BitOf(b, n)) = BitOf(c, n)
  PROVE  Arith(k, w, a, b) = c
<1>1. c \in Int /\ InWidth(c, w)
  BY WidthOK DEF InWidth
<1>2. PICK f : /\ f[0] = 0 /\ Bits(k, w, a, b) = f[w]
               /\ \A n \in 1 .. w :
                    f[n] = f[n - 1] + 2 ^ (n - 1) * OnBits(k, BitOf(a, n - 1), BitOf(b, n - 1))
  BY BitsOK
<1> DEFINE T == {n \in Nat : n <= w => f[n] = c % 2 ^ n}
<1>3. 0 \in T
  BY <1>1, <1>2, PowerZero
<1>4. ASSUME NEW n \in Nat, n \in T PROVE n + 1 \in T
  <2> SUFFICES ASSUME n + 1 <= w PROVE f[n + 1] = c % 2 ^ (n + 1)
    OBVIOUS
  <2>1. f[n] = c % 2 ^ n /\ n + 1 \in 1 .. w /\ (n + 1) - 1 = n
    BY <1>4
  <2>2. PICK p \in Nat \ {0} : p = 2 ^ n /\ 2 ^ (n + 1) = 2 * p
    BY Doubled
  <2>3. PICK d \in {0, 1} : d = BitOf(c, n)
    BY <1>1, BitStep
  <2>4. f[n + 1] = (c % p) + p * d
    BY <1>2, <2>1, <2>2, <2>3
  <2>5. c % (2 * p) = (c % p) + p * d
    BY <1>1, <2>2, <2>3, LowBits
  <2> QED
    BY <2>2, <2>4, <2>5
<1>5. w \in T
  <2> HIDE DEF T
  <2> QED
    BY <1>3, <1>4, NatInduct
<1>6. Bits(k, w, a, b) = Unsigned(c, w)
  BY <1>2, <1>5 DEF Unsigned
<1>7. Arith(k, w, a, b) = Wrap(Unsigned(c, w), w)
  BY <1>6 DEF Arith
<1> QED
  BY <1>1, <1>7, WrapAround, WrapOK

\* The bits of zero and of minus one.
LEMMA BitsOf01 ==
  ASSUME NEW n \in Nat
  PROVE  BitOf(0, n) = 0 /\ BitOf(-1, n) = 1
<1> PICK p \in Nat \ {0} : p = 2 ^ n
  BY Doubled
<1>1. 0 \div p = 0
  <2>1. 0 = p * 0 + 0 /\ 0 \in 0 .. p - 1
    OBVIOUS
  <2> QED
    BY <2>1, DivUnique
<1>2. (-1) \div p = -1
  <2>1. -1 = p * (-1) + (p - 1) /\ p - 1 \in 0 .. p - 1
    OBVIOUS
  <2> QED
    BY <2>1, DivUnique
<1> QED
  BY <1>1, <1>2 DEF BitOf

\* What is known of operations on bits.
LEMMA BitsRules ==
  ASSUME NEW w \in Nat \ {0}, NEW a \in MinOf(w) .. MaxOf(w)
  PROVE  /\ Arith("and", w, a, 0) = 0 /\ Arith("or", w, a, 0) = a /\ Arith("xor", w, a, 0) = a
         /\ Arith("and", w, a, -1) = a /\ Arith("or", w, a, -1) = -1
         /\ Arith("and", w, a, a) = a /\ Arith("or", w, a, a) = a /\ Arith("xor", w, a, a) = 0
<1>1. /\ a \in Int /\ 0 \in MinOf(w) .. MaxOf(w) /\ -1 \in MinOf(w) .. MaxOf(w)
      /\ 0 \in Int /\ -1 \in Int
  BY WidthOK
<1>2. ASSUME NEW n \in Nat
      PROVE  /\ OnBits("and", BitOf(a, n), BitOf(0, n)) = BitOf(0, n)
             /\ OnBits("or", BitOf(a, n), BitOf(0, n)) = BitOf(a, n)
             /\ OnBits("xor", BitOf(a, n), BitOf(0, n)) = BitOf(a, n)
             /\ OnBits("and", BitOf(a, n), BitOf(-1, n)) = BitOf(a, n)
             /\ OnBits("or", BitOf(a, n), BitOf(-1, n)) = BitOf(-1, n)
             /\ OnBits("and", BitOf(a, n), BitOf(a, n)) = BitOf(a, n)
             /\ OnBits("or", BitOf(a, n), BitOf(a, n)) = BitOf(a, n)
             /\ OnBits("xor", BitOf(a, n), BitOf(a, n)) = BitOf(0, n)
  <2>1. PICK d \in {0, 1} : d = BitOf(a, n)
    BY <1>1, BitStep
  <2> QED
    BY <2>1, BitsOf01 DEF OnBits
<1> QED
  BY <1>1, <1>2, BitsGive

\* They do not depend on the order of their operands.
LEMMA BitsCommute ==
  ASSUME NEW k \in {"and", "or", "xor"}, NEW w \in Nat \ {0}, NEW a \in Int, NEW b \in Int
  PROVE  Arith(k, w, a, b) = Arith(k, w, b, a)
<1>1. ASSUME NEW n \in Nat
      PROVE  OnBits(k, BitOf(a, n), BitOf(b, n)) = OnBits(k, BitOf(b, n), BitOf(a, n))
  <2>1. PICK c \in {0, 1}, d \in {0, 1} : c = BitOf(a, n) /\ d = BitOf(b, n)
    BY BitStep
  <2> QED
    BY <2>1 DEF OnBits
<1> DEFINE P(n) == 2 ^ (n - 1) * OnBits(k, BitOf(a, n - 1), BitOf(b, n - 1))
           Q(n) == 2 ^ (n - 1) * OnBits(k, BitOf(b, n - 1), BitOf(a, n - 1))
<1>2. \A n \in 1 .. w : P(n) = Q(n)
  <2>1. \A n \in 1 .. w : n - 1 \in Nat
    OBVIOUS
  <2> QED
    BY <1>1, <2>1
<1>3. PICK f : /\ f[0] = 0 /\ Bits(k, w, a, b) = f[w]
               /\ \A n \in 1 .. w : f[n] = f[n - 1] + P(n)
  BY BitsOK
<1>4. PICK g : /\ g[0] = 0 /\ Bits(k, w, b, a) = g[w]
               /\ \A n \in 1 .. w : g[n] = g[n - 1] + Q(n)
  BY BitsOK
<1> HIDE DEF P, Q
<1> DEFINE T == {n \in Nat : n <= w => f[n] = g[n]}
<1>5. 0 \in T
  BY <1>3, <1>4
<1>6. ASSUME NEW n \in Nat, n \in T PROVE n + 1 \in T
  <2> SUFFICES ASSUME n + 1 <= w PROVE f[n + 1] = g[n + 1]
    OBVIOUS
  <2>1. f[n] = g[n] /\ n + 1 \in 1 .. w /\ (n + 1) - 1 = n
    BY <1>6
  <2> QED
    BY <1>2, <1>3, <1>4, <2>1
<1>7. w \in T
  <2> HIDE DEF T
  <2> QED
    BY <1>5, <1>6, NatInduct
<1>8. Bits(k, w, a, b) = Bits(k, w, b, a)
  BY <1>3, <1>4, <1>7
<1> QED
  BY <1>8 DEF Arith

\* A number that has a bit has one together with another.
LEMMA OrNonzero ==
  ASSUME NEW w \in Nat \ {0}, NEW a \in Int, NEW c \in MinOf(w) .. MaxOf(w), c # 0
  PROVE  Arith("or", w, a, c) # 0
<1> DEFINE P(n) == 2 ^ (n - 1) * OnBits("or", BitOf(a, n - 1), BitOf(c, n - 1))
<1>1. c \in Int /\ InWidth(c, w)
  BY WidthOK DEF InWidth
<1>2. PICK f : /\ f[0] = 0 /\ Bits("or", w, a, c) = f[w]
               /\ \A n \in 1 .. w : f[n] = f[n - 1] + P(n)
  BY BitsOK
<1>3. ASSUME NEW n \in Nat
      PROVE  \E p \in Nat \ {0}, d, e \in {0, 1} :
               /\ p = 2 ^ n /\ 2 ^ (n + 1) = 2 * p /\ P(n + 1) = p * d /\ e <= d
               /\ c % 2 ^ (n + 1) = (c % p) + p * e
  <2>1. PICK p \in Nat \ {0} : p = 2 ^ n /\ 2 ^ (n + 1) = 2 * p
    BY Doubled
  <2>2. PICK e \in {0, 1}, b \in {0, 1} : e = BitOf(c, n) /\ b = BitOf(a, n)
    BY <1>1, BitStep
  <2>3. PICK d \in {0, 1} : d = OnBits("or", b, e) /\ e <= d
    BY DEF OnBits
  <2>4. c % 2 ^ (n + 1) = (c % p) + p * e
    BY <1>1, <2>1, <2>2, LowBits
  <2>5. P(n + 1) = p * d
    <3>1. (n + 1) - 1 = n
      OBVIOUS
    <3> QED
      BY <2>1, <2>2, <2>3, <3>1
  <2> QED
    BY <2>1, <2>3, <2>4, <2>5
<1> HIDE DEF P
<1> DEFINE T == {n \in Nat : n <= w => f[n] \in c % 2 ^ n .. 2 ^ n - 1}
<1>4. 0 \in T
  BY <1>1, <1>2, PowerZero
<1>5. ASSUME NEW n \in Nat, n \in T PROVE n + 1 \in T
  <2> SUFFICES ASSUME n + 1 <= w PROVE f[n + 1] \in c % 2 ^ (n + 1) .. 2 ^ (n + 1) - 1
    OBVIOUS
  <2>1. f[n] \in c % 2 ^ n .. 2 ^ n - 1 /\ n + 1 \in 1 .. w /\ (n + 1) - 1 = n
    BY <1>5
  <2>2. PICK p \in Nat \ {0}, d, e \in {0, 1} :
               /\ p = 2 ^ n /\ 2 ^ (n + 1) = 2 * p /\ P(n + 1) = p * d /\ e <= d
               /\ c % 2 ^ (n + 1) = (c % p) + p * e
    BY <1>3
  <2>3. c % p \in Int
    BY <1>1, DivMod
  <2>4. f[n + 1] = f[n] + p * d
    BY <1>2, <2>1, <2>2
  <2>5. d = 0 \/ d = 1
    OBVIOUS
  <2>6. PICK x \in Int : x = f[n] /\ c % p <= x /\ x <= p - 1
    BY <2>1, <2>2, <2>3
  <2>7. (c % p) + p * e <= x + p * d /\ x + p * d <= 2 * p - 1
    BY <2>2, <2>3, <2>5, <2>6
  <2> QED
    BY <2>2, <2>3, <2>4, <2>6, <2>7
<1>6. w \in T
  <2> HIDE DEF T
  <2> QED
    BY <1>4, <1>5, NatInduct
<1>7. PICK p \in Nat \ {0}, h \in Nat \ {0} : p = 2 ^ w /\ h = 2 ^ (w - 1) /\ p = 2 * h
  BY WidthOK
<1>8. PICK x \in Int : x = f[w] /\ c % p <= x /\ x <= p - 1
  <2>1. c % p \in Int
    BY <1>1, DivMod
  <2> QED
    BY <1>6, <1>7, <2>1
<1>9. 0 < c % p
  <2>1. 0 <= c % p /\ c % p \in Int
    BY <1>1, DivMod
  <2>2. c % p # 0
    <3> SUFFICES ASSUME c % p = 0 PROVE FALSE
      OBVIOUS
    <3>1. Wrap(c, w) = 0
      BY <1>7 DEF Wrap, Unsigned, MaxOf
    <3> QED
      BY <1>1, <3>1, WrapOK
  <2> QED
    BY <2>1, <2>2
<1>10. Arith("or", w, a, c) = Wrap(x, w)
  BY <1>2, <1>8 DEF Arith
<1>11. x % p = x
  BY <1>8, <1>9
<1> QED
  BY <1>7, <1>8, <1>9, <1>10, <1>11 DEF Wrap, Unsigned

\* What an operator of two operands computes.
LEMMA Compute2By ==
  ASSUME NEW k, NEW ty, NEW a, NEW b
  PROVE  /\ k \in Compares /\ ty = "D" => Compute2(k, ty, a, b) = CompareDoubles(k, a, b)
         /\ k \in Compares /\ ty # "D" => Compute2(k, ty, a, b) = CompareInts(k, Width(ty), a, b)
         /\ k \in Shifts => Compute2(k, ty, a, b) = Shift(k, Width(ty), a, b)
         /\ k \in Arithmetic2 /\ ty # "D" => Compute2(k, ty, a, b) = Arith(k, Width(ty), a, b)
         /\ ty = "D" /\ k = "add" => Compute2(k, ty, a, b) = Addd(a, b)
         /\ ty = "D" /\ k = "sub" => Compute2(k, ty, a, b) = Subd(a, b)
         /\ ty = "D" /\ k = "mul" => Compute2(k, ty, a, b) = Muld(a, b)
<1>1. k \in Compares => k \notin Shifts /\ k \notin {"add", "sub", "mul"}
  BY Binaries
<1>2. k \in Shifts => k \notin Compares /\ k \notin {"add", "sub", "mul"}
  BY Binaries
<1>3. k \in Arithmetic2 => k \notin Compares \cup Shifts
  BY Binaries DEF Arithmetic2
<1>4. /\ k \in Compares /\ ty = "D" => Compute2(k, ty, a, b) = CompareDoubles(k, a, b)
      /\ k \in Compares /\ ty # "D" => Compute2(k, ty, a, b) = CompareInts(k, Width(ty), a, b)
  BY <1>1 DEF Compute2
<1>5. k \in Shifts => Compute2(k, ty, a, b) = Shift(k, Width(ty), a, b)
  BY <1>2 DEF Compute2
<1>6. k \in Arithmetic2 /\ ty # "D" => Compute2(k, ty, a, b) = Arith(k, Width(ty), a, b)
  BY <1>3 DEF Compute2
<1>7. /\ ty = "D" /\ k = "add" => Compute2(k, ty, a, b) = Addd(a, b)
      /\ ty = "D" /\ k = "sub" => Compute2(k, ty, a, b) = Subd(a, b)
      /\ ty = "D" /\ k = "mul" => Compute2(k, ty, a, b) = Muld(a, b)
  BY <1>3 DEF Compute2, Arithmetic2
<1> QED
  BY <1>4, <1>5, <1>6, <1>7

\* Shifts by nothing.
LEMMA ShiftByZero ==
  ASSUME NEW k \in Shifts, NEW w \in Nat \ {0}, NEW a \in MinOf(w) .. MaxOf(w)
  PROVE  Shift(k, w, a, 0) = a
<1>1. a \in Int /\ InWidth(a, w)
  BY WidthOK DEF InWidth
<1>2. 0 % w = 0
  OBVIOUS
<1>3. a * 1 = a /\ a \div 1 = a
  BY <1>1
<1>4. Unsigned(a, w) \div 1 = Unsigned(a, w)
  <2>1. Unsigned(a, w) \in Int
    BY <1>1, WrapOK
  <2> QED
    BY <2>1
<1>5. Wrap(a, w) = a /\ Wrap(Unsigned(a, w), w) = a
  BY <1>1, WrapOK, WrapAround
<1>6. CASE k = "lsh"
  BY <1>2, <1>3, <1>5, <1>6, PowerZero DEF Shift
<1>7. CASE k = "rsh"
  BY <1>2, <1>3, <1>7, PowerZero DEF Shift
<1>8. CASE k = "rshu"
  BY <1>2, <1>4, <1>5, <1>8, PowerZero DEF Shift
<1> QED
  BY <1>6, <1>7, <1>8, Binaries

\* A number of half as many bits, shifted left and back.
LEMMA SignExtendsOK ==
  ASSUME NEW x \in Int, IsS16(x)
  PROVE  Shift("rsh", IntWidth, Shift("lsh", IntWidth, x, Half), Half) = x
<1>1. PICK h \in Nat : h = Half /\ IntWidth = h + h /\ h >= 2
  <2>1. PICK w \in Nat : w = IntWidth /\ w >= 4 /\ w % 2 = 0
    BY WidthAssumption
  <2>2. w \div 2 \in Nat /\ w = 2 * (w \div 2)
    BY <2>1
  <2>3. PICK h \in Nat : h = w \div 2 /\ w = 2 * h
    BY <2>2
  <2>4. w = h + h /\ h >= 2
    BY <2>1, <2>3
  <2> QED
    BY <2>1, <2>3, <2>4 DEF Half
<1>2. Half % IntWidth = h
  BY <1>1
<1>3. PICK p \in Nat \ {0}, g \in Nat \ {0} : p = 2 ^ h /\ g = 2 ^ (h - 1)
  <2>1. h - 1 \in Nat
    BY <1>1
  <2> QED
    BY <2>1, Doubled
<1>4. 2 ^ (IntWidth - 1) = p * g
  <2>1. h - 1 \in Nat /\ h + (h - 1) = IntWidth - 1
    BY <1>1
  <2> QED
    BY <1>3, <2>1, PowerSum
<1>5. -g <= x /\ x <= g - 1
  BY <1>1, <1>3 DEF IsS16
<1>6. MinOf(IntWidth) = -(p * g) /\ MaxOf(IntWidth) = p * g - 1
  BY <1>4 DEF MinOf, MaxOf
<1>7. /\ x * p \in Int /\ -(p * g) <= x * p /\ x * p <= p * g - 1
  <2>1. (-g) * p <= x * p /\ x * p <= (g - 1) * p
    BY <1>5, MulMono
  <2>2. (-g) * p = -(p * g) /\ (g - 1) * p = p * g - p
    OBVIOUS
  <2>3. PICK y \in Int, z \in Int : y = x * p /\ z = p * g
    OBVIOUS
  <2>4. -z <= y /\ y <= z - p
    BY <2>1, <2>2, <2>3
  <2> QED
    BY <2>3, <2>4
<1>8. Wrap(x * p, IntWidth) = x * p
  <2>1. PICK y \in Int : y = x * p /\ InWidth(y, IntWidth)
    BY <1>6, <1>7 DEF InWidth
  <2>2. IntWidth \in Nat \ {0}
    BY <1>1
  <2>3. Wrap(y, IntWidth) = y
    BY <2>1, <2>2, WrapOK
  <2> QED
    BY <2>1, <2>3
<1>9. (x * p) \div p = x
  <2>1. x * p = p * x + 0 /\ x * p \in Int /\ 0 \in 0 .. p - 1
    OBVIOUS
  <2> QED
    BY <2>1, DivUnique
<1> QED
  BY <1>2, <1>3, <1>8, <1>9 DEF Shift

\* A comparison the other way round.
LEMMA CompareSwapped ==
  ASSUME NEW ty \in {"I", "Q", "D"}, NEW a \in Values(ty), NEW b \in Values(ty)
  PROVE  /\ Compute2("eq", ty, a, b) = Compute2("eq", ty, b, a)
         /\ \A k \in Compares \ {"eq"} :
              IsOperator(k, ty) => Compute2(InvertCmp[k], ty, b, a) = Compute2(k, ty, a, b)
<1>1. ASSUME NEW x \in Int, NEW y \in Int
      PROVE  /\ Ordered("eq", x, y) = Ordered("eq", y, x)
             /\ \A k \in Compares \ {"eq"} : Ordered(InvertCmp[k], y, x) = Ordered(k, x, y)
  BY Binaries DEF Ordered, InvertCmp
<1>2. /\ "eq" \in Compares /\ "eq" \notin UnsignedOrders
      /\ \A k \in Compares \ {"eq"} : /\ InvertCmp[k] \in Compares
                                      /\ k \in UnsignedOrders <=> InvertCmp[k] \in UnsignedOrders
  BY Binaries DEF InvertCmp
<1>3. CASE ty = "D"
  <2>1. a.n \in Int /\ b.n \in Int
    BY <1>3, RealsTyped
  <2>2. /\ CompareDoubles("eq", a, b) = CompareDoubles("eq", b, a)
        /\ \A k \in Compares \ {"eq"} :
             CompareDoubles(InvertCmp[k], b, a) = CompareDoubles(k, a, b)
    BY <1>1, <2>1 DEF CompareDoubles, Truth
  <2> QED
    BY <1>2, <1>3, <2>2, Compute2By
<1>4. CASE ty # "D"
  <2>1. PICK w \in Nat \ {0} : w = Width(ty)
    BY <1>4, WidthTypes
  <2>2. a \in Int /\ b \in Int
    BY <1>4, WidthTypes
  <2>3. Unsigned(a, w) \in Int /\ Unsigned(b, w) \in Int
    BY <2>2, WrapOK
  <2>4. /\ CompareInts("eq", w, a, b) = CompareInts("eq", w, b, a)
        /\ \A k \in Compares \ {"eq"} :
             CompareInts(InvertCmp[k], w, b, a) = CompareInts(k, w, a, b)
    BY <1>1, <1>2, <2>2, <2>3 DEF CompareInts, Truth
  <2> QED
    BY <1>2, <1>4, <2>1, <2>4, Compute2By
<1> QED
  BY <1>3, <1>4

\* Comparisons of a number with itself, and unsigned ones with the least and
\* the greatest.
LEMMA CompareRules ==
  ASSUME NEW ty \in {"I", "Q"}, NEW a \in Values(ty)
  PROVE  /\ \A k \in {"lt", "gt", "ltu", "gtu"} : Compute2(k, ty, a, a) = 0
         /\ \A k \in {"le", "ge", "leu", "geu"} : Compute2(k, ty, a, a) = 1
         /\ Compute2("ltu", ty, a, 0) = 0 /\ Compute2("geu", ty, a, 0) = 1
         /\ Compute2("gtu", ty, a, -1) = 0 /\ Compute2("leu", ty, a, -1) = 1
         /\ a \in {0, 1} => Compute2("gtu", ty, a, 1) = 0
<1>1. PICK w \in Nat \ {0} : w = Width(ty)
  BY WidthTypes
<1>2. PICK p \in Nat \ {0}, h \in Nat \ {0} : p = 2 ^ w /\ h = 2 ^ (w - 1) /\ p = 2 * h
  BY WidthOK
<1>3. a \in Int /\ 0 \in Values(ty) /\ 1 \in Values(ty) /\ Values(ty) = MinOf(w) .. MaxOf(w)
  BY <1>1, WidthTypes
<1>4. PICK u \in 0 .. p - 1 : u = Unsigned(a, w)
  BY <1>2, <1>3, WrapOK
<1>5. Unsigned(0, w) = 0 /\ Unsigned(1, w) = 1
  <2>1. InWidth(0, w) /\ InWidth(1, w)
    BY <1>3, WidthOK DEF InWidth
  <2> QED
    BY <2>1, WrapOK
<1>6. Unsigned(-1, w) = p - 1
  <2>1. -1 = p * (-1) + (p - 1) /\ p - 1 \in 0 .. p - 1
    OBVIOUS
  <2>2. (-1) % p = p - 1
    BY <2>1, DivUnique
  <2> QED
    BY <1>2, <2>2 DEF Unsigned
<1>7. \A k \in Compares : \A b : Compute2(k, ty, a, b) = CompareInts(k, w, a, b)
  BY <1>1, Compute2By
<1>8. /\ \A k \in {"lt", "gt", "ltu", "gtu"} : CompareInts(k, w, a, a) = 0
      /\ \A k \in {"le", "ge", "leu", "geu"} : CompareInts(k, w, a, a) = 1
  BY <1>3, <1>4, Binaries DEF CompareInts, Ordered, Truth
<1>9. CompareInts("ltu", w, a, 0) = 0 /\ CompareInts("geu", w, a, 0) = 1
  BY <1>4, <1>5, Binaries DEF CompareInts, Ordered, Truth
<1>10. CompareInts("gtu", w, a, -1) = 0 /\ CompareInts("leu", w, a, -1) = 1
  BY <1>4, <1>6, Binaries DEF CompareInts, Ordered, Truth
<1>11. a \in {0, 1} => CompareInts("gtu", w, a, 1) = 0
  BY <1>5, Binaries DEF CompareInts, Ordered, Truth
<1> QED
  BY <1>7, <1>8, <1>9, <1>10, <1>11, Binaries

\* Operators that commute.
LEMMA Commute ==
  ASSUME NEW k \in Commutes, NEW ty, IsOperator(k, ty), NEW a \in Values(ty), NEW b \in Values(ty)
  PROVE  Compute2(k, ty, a, b) = Compute2(k, ty, b, a)
<1>1. ty \in {"I", "Q", "D"}
  BY Operators, Binaries DEF Commutes
<1>2. CASE k = "eq"
  BY <1>1, <1>2, CompareSwapped
<1>3. CASE k # "eq" /\ ty = "D"
  <2>1. k \in {"add", "mul"}
    BY <1>3, Operators DEF Commutes
  <2>2. a.n \in Int /\ b.n \in Int
    BY <1>3, RealsTyped
  <2>3. a.n + b.n = b.n + a.n /\ a.n * b.n = b.n * a.n
    BY <2>2
  <2>4. (a.neg /\ b.neg) = (b.neg /\ a.neg) /\ (a.neg # b.neg) = (b.neg # a.neg)
    BY Zenon
  <2>5. \A r : Real2(a, b, r) = Real2(b, a, r)
    BY Zenon DEF Real2
  <2>6. Addd(a, b) = Addd(b, a) /\ Muld(a, b) = Muld(b, a)
    BY <2>3, <2>4, <2>5, Zenon DEF Addd, Muld
  <2> QED
    BY <1>3, <2>1, <2>6, Compute2By
<1>4. CASE k # "eq" /\ ty # "D"
  <2>1. PICK w \in Nat \ {0} : w = Width(ty)
    BY <1>1, <1>4, WidthTypes
  <2>2. a \in Int /\ b \in Int
    BY <1>1, <1>4, WidthTypes
  <2>3. a + b = b + a /\ a * b = b * a
    BY <2>2
  <2>4. Arith(k, w, a, b) = Arith(k, w, b, a)
    <3>1. CASE k \in {"and", "or", "xor"}
      BY <2>2, <3>1, BitsCommute
    <3>2. CASE k \in {"add", "mul"}
      BY <2>3, <3>2 DEF Arith
    <3> QED
      BY <1>4, <3>1, <3>2 DEF Commutes
  <2>5. k \in Arithmetic2
    BY <1>4 DEF Commutes, Arithmetic2
  <2> QED
    BY <1>4, <2>1, <2>4, <2>5, Compute2By
<1> QED
  BY <1>2, <1>3, <1>4

\* Sums and products with 0 and 1, and a difference of equals.
LEMMA ArithRules ==
  ASSUME NEW ty \in {"I", "Q"}, NEW a \in Values(ty)
  PROVE  /\ Compute2("add", ty, a, 0) = a /\ Compute2("sub", ty, a, 0) = a
         /\ Compute2("mul", ty, a, 0) = 0 /\ Compute2("mul", ty, a, 1) = a
         /\ Compute2("sub", ty, a, a) = 0
<1>1. PICK w \in Nat \ {0} : w = Width(ty)
  BY WidthTypes
<1>2. a \in Int /\ Values(ty) = MinOf(w) .. MaxOf(w)
  BY <1>1, WidthTypes
<1>3. a + 0 = a /\ a - 0 = a /\ a * 0 = 0 /\ a * 1 = a /\ a - a = 0
  BY <1>2
<1>4. Wrap(a, w) = a /\ Wrap(0, w) = 0
  <2>1. InWidth(a, w) /\ InWidth(0, w)
    BY <1>2, WidthOK DEF InWidth
  <2> QED
    BY <1>2, <2>1, WrapOK
<1>5. \A k \in {"add", "sub", "mul"} : \A b : Compute2(k, ty, a, b) = Arith(k, w, a, b)
  BY <1>1, Compute2By DEF Arithmetic2
<1> QED
  BY <1>3, <1>4, <1>5 DEF Arith

\* What the operators on bits do with 0, -1, and 1.
LEMMA BitRules ==
  ASSUME NEW ty \in {"I", "Q"}, NEW a \in Values(ty)
  PROVE  /\ Compute2("and", ty, a, 0) = 0 /\ Compute2("or", ty, a, 0) = a
         /\ Compute2("xor", ty, a, 0) = a
         /\ Compute2("and", ty, a, -1) = a /\ Compute2("or", ty, a, -1) = -1
         /\ Compute2("and", ty, a, a) = a /\ Compute2("or", ty, a, a) = a
         /\ Compute2("xor", ty, a, a) = 0
         /\ a \in {0, 1} => Compute2("and", ty, a, 1) = a /\ Compute2("or", ty, a, 1) = 1
         /\ \A c \in Values(ty) : c # 0 => Compute2("or", ty, a, c) # 0
<1>1. PICK w \in Nat \ {0} : w = Width(ty)
  BY WidthTypes
<1>2. /\ a \in Int /\ Values(ty) = MinOf(w) .. MaxOf(w) /\ Values(ty) \subseteq Int
      /\ 0 \in Values(ty) /\ 1 \in Values(ty)
  BY <1>1, WidthTypes
<1>3. \A k \in {"and", "or", "xor"} : \A x, y : Compute2(k, ty, x, y) = Arith(k, w, x, y)
  BY <1>1, Compute2By DEF Arithmetic2
<1>4. /\ Arith("and", w, 0, 1) = 0 /\ Arith("or", w, 0, 1) = 1
      /\ Arith("and", w, 1, 1) = 1 /\ Arith("or", w, 1, 1) = 1
  <2>1. Arith("and", w, 0, 1) = Arith("and", w, 1, 0) /\ Arith("or", w, 0, 1) = Arith("or", w, 1, 0)
    BY BitsCommute
  <2> QED
    BY <1>2, <2>1, BitsRules
<1>5. \A c \in Values(ty) : c # 0 => Arith("or", w, a, c) # 0
  BY <1>2, OrNonzero
<1>6. /\ Arith("and", w, a, 0) = 0 /\ Arith("or", w, a, 0) = a /\ Arith("xor", w, a, 0) = a
      /\ Arith("and", w, a, -1) = a /\ Arith("or", w, a, -1) = -1
      /\ Arith("and", w, a, a) = a /\ Arith("or", w, a, a) = a /\ Arith("xor", w, a, a) = 0
  BY <1>2, BitsRules
<1> QED
  BY <1>3, <1>4, <1>5, <1>6

\* Doubles.
LEMMA RealRules ==
  ASSUME NEW a \in Values("D"), NEW b \in Values("D")
  PROVE  /\ Negd(Negd(a)) = a /\ Absd(Absd(a)) = Absd(a)
         /\ SameNumber(Subd(b, a), Negd(Subd(a, b)))
<1>1. \A n \in Int : /\ Num(n).nan = FALSE /\ Num(n).n = n /\ Num(n).neg = (n < 0)
                     /\ -n \in Int /\ (n = 0 <=> -n = 0) /\ -(-n) = n
                     /\ n # 0 => ((-n < 0) <=> ~(n < 0))
                     /\ n = 0 => ~(n < 0)
  BY DEF Num
<1>2. /\ NaN.nan = TRUE /\ NegZero.nan = FALSE /\ NegZero.n = 0 /\ NegZero.neg = TRUE
      /\ NaN.neg = FALSE /\ NaN.n = 0
  BY DEF NaN, NegZero
<1>3. \A n \in Int : n = 0 => -n = 0
  BY <1>1
<1>4. Negd(NaN) = NaN /\ Negd(NegZero) = Num(0) /\ Negd(Num(0)) = NegZero
  <2>1. Negd(NaN) = NaN
    BY <1>2 DEF Negd, Real2
  <2>2. \A x : ~x.nan => Negd(x) = Signed(-x.n, ~x.neg)
    BY DEF Negd, Real2
  <2>3. 0 \in Int
    OBVIOUS
  <2>4. ~Num(0).nan /\ Num(0).n = 0 /\ ~Num(0).neg
    BY <1>1, <2>3
  <2>5. Negd(NegZero) = Signed(0, FALSE) /\ Negd(Num(0)) = Signed(0, TRUE)
    <3>1. Negd(NegZero) = Signed(-NegZero.n, ~NegZero.neg)
      BY <1>2, <2>2
    <3>2. Negd(Num(0)) = Signed(-Num(0).n, ~Num(0).neg)
      BY <2>2, <2>4
    <3>3. (~NegZero.neg) = FALSE /\ (~Num(0).neg) = TRUE
      BY <1>2, <2>4, Zenon
    <3> QED
      BY <1>2, <1>3, <2>3, <2>4, <3>1, <3>2, <3>3
  <2>6. Signed(0, FALSE) = Num(0) /\ Signed(0, TRUE) = NegZero
    BY DEF Signed
  <2> QED
    BY <2>1, <2>5, <2>6
<1>5. \A n \in Int : n # 0 => Negd(Num(n)) = Num(-n)
  BY <1>1 DEF Negd, Real2, Signed
<1>6. Negd(Negd(a)) = a
  BY <1>1, <1>4, <1>5, DoubleCases
<1>7. Absd(Absd(a)) = Absd(a)
  <2>1. Absd(NaN) = NaN /\ Absd(NegZero) = Num(0)
    BY <1>2, <1>4 DEF Absd
  <2>2. \A n \in Int : n < 0 => Absd(Num(n)) = Num(-n)
    <3> SUFFICES ASSUME NEW n \in Int, n < 0 PROVE Absd(Num(n)) = Num(-n)
      OBVIOUS
    <3>1. Num(n).neg
      BY <1>1
    <3> QED
      BY <1>5, <3>1 DEF Absd
  <2>3. \A n \in Int : ~(n < 0) => Absd(Num(n)) = Num(n)
    <3> SUFFICES ASSUME NEW n \in Int, ~(n < 0) PROVE Absd(Num(n)) = Num(n)
      OBVIOUS
    <3>1. ~Num(n).neg
      BY <1>1
    <3> QED
      BY <3>1 DEF Absd
  <2>4. CASE a = NaN \/ a = NegZero
    <3>1. Absd(Num(0)) = Num(0)
      BY <2>3
    <3> QED
      BY <2>1, <2>4, <3>1
  <2>5. CASE \E n \in Int : a = Num(n)
    <3>1. PICK n \in Int : a = Num(n)
      BY <2>5
    <3>2. n < 0 => -n \in Int /\ ~(-n < 0)
      OBVIOUS
    <3> QED
      BY <2>2, <2>3, <3>1, <3>2
  <2> QED
    BY <2>4, <2>5, DoubleCases
<1>8. \A x \in Values("D") : /\ x.n \in Int /\ Negd(x).nan = x.nan /\ Negd(x).n = -x.n
                             /\ x.nan => x.n = 0
  <2> SUFFICES ASSUME NEW x \in Values("D")
               PROVE  /\ x.n \in Int /\ Negd(x).nan = x.nan /\ Negd(x).n = -x.n
                      /\ x.nan => x.n = 0
    OBVIOUS
  <2>1. CASE x = NaN
    <3>1. x.n \in Int /\ x.n = 0 /\ -x.n = 0
      BY <1>2, <1>3, <2>1
    <3>2. Negd(x) = x
      BY <1>4, <2>1
    <3> QED
      BY <3>1, <3>2
  <2>2. CASE x = NegZero
    <3>1. x.n = 0 /\ x.n \in Int /\ x.nan = FALSE
      BY <1>2, <2>2
    <3>2. -x.n = 0
      BY <1>3, <3>1
    <3>3. Negd(x).nan = FALSE /\ Negd(x).n = 0
      BY <1>1, <1>4, <2>2
    <3> QED
      BY <3>1, <3>2, <3>3
  <2>3. CASE \E n \in Int : x = Num(n)
    <3>1. PICK n \in Int : x = Num(n)
      BY <2>3
    <3>2. CASE n = 0
      <4>1. x.n = 0 /\ x.n \in Int /\ x.nan = FALSE
        BY <1>1, <3>1, <3>2
      <4>2. -x.n = 0
        BY <1>3, <4>1
      <4>3. Negd(x).nan = FALSE /\ Negd(x).n = 0
        BY <1>2, <1>4, <3>1, <3>2
      <4> QED
        BY <4>1, <4>2, <4>3
    <3>3. CASE n # 0
      <4>1. x.n = n /\ x.nan = FALSE /\ -n \in Int
        BY <1>1, <3>1
      <4>2. Negd(x).nan = FALSE /\ Negd(x).n = -n
        BY <1>1, <1>5, <3>1, <3>3
      <4> QED
        BY <4>1, <4>2
    <3> QED
      BY <3>2, <3>3, Zenon
  <2>4. x = NaN \/ x = NegZero \/ \E n \in Int : x = Num(n)
    BY DoubleCases
  <2> QED
    BY <2>1, <2>2, <2>3, <2>4, Zenon
<1>9. ASSUME NEW x \in Values("D"), NEW y \in Values("D")
      PROVE  /\ x.nan \/ y.nan => Addd(x, y) = NaN
             /\ ~(x.nan \/ y.nan) => Addd(x, y).nan = FALSE /\ Addd(x, y).n = x.n + y.n
  <2>1. ASSUME NEW m \in Int, NEW neg
        PROVE  Signed(m, neg).nan = FALSE /\ Signed(m, neg).n = m
    BY <1>1, <1>2 DEF Signed
  <2>2. x.n + y.n \in Int
    BY <1>8
  <2>3. ASSUME x.nan \/ y.nan PROVE Addd(x, y) = NaN
    BY <2>3, Zenon DEF Addd, Real2
  <2>4. ASSUME ~(x.nan \/ y.nan)
        PROVE  Addd(x, y).nan = FALSE /\ Addd(x, y).n = x.n + y.n
    <3>1. PICK m \in Int : m = x.n + y.n
      BY <2>2
    <3>2. PICK g : g = (x.neg /\ y.neg)
      OBVIOUS
    <3>3. Addd(x, y) = Signed(m, g)
      BY <2>4, <3>1, <3>2, Zenon DEF Addd, Real2
    <3>4. Signed(m, g).nan = FALSE /\ Signed(m, g).n = m
      BY <2>1
    <3> QED
      BY <3>1, <3>3, <3>4
  <2>5. x.nan \/ y.nan => Addd(x, y) = NaN
    BY <2>3
  <2>6. ~(x.nan \/ y.nan) => Addd(x, y).nan = FALSE /\ Addd(x, y).n = x.n + y.n
    BY <2>4
  <2> QED
    BY <2>5, <2>6
<1>10. Negd(a) \in Values("D") /\ Negd(b) \in Values("D") /\ Subd(a, b) \in Values("D")
  BY RealsTyped
<1>11. CASE a.nan \/ b.nan
  <2>1. Subd(b, a) = NaN /\ Subd(a, b) = NaN
    BY <1>8, <1>9, <1>10, <1>11 DEF Subd
  <2> QED
    BY <1>4, <1>6, <1>7, <2>1 DEF SameNumber
<1>12. CASE ~(a.nan \/ b.nan)
  <2>1. /\ Subd(b, a).n = b.n + (-a.n) /\ Subd(a, b).n = a.n + (-b.n)
        /\ Subd(b, a).nan = FALSE /\ Subd(a, b).nan = FALSE
    <3>1. ~Negd(a).nan /\ ~Negd(b).nan /\ Negd(a).n = -a.n /\ Negd(b).n = -b.n
      BY <1>8, <1>12
    <3> QED
      BY <1>9, <1>10, <1>12, <3>1 DEF Subd
  <2>2. Negd(Subd(a, b)).nan = FALSE /\ Negd(Subd(a, b)).n = -(a.n + (-b.n))
    BY <1>8, <1>10, <2>1
  <2>3. b.n + (-a.n) = -(a.n + (-b.n))
    BY <1>8
  <2> QED
    BY <1>6, <1>7, <2>1, <2>2, <2>3 DEF SameNumber
<1> QED
  BY <1>11, <1>12

\* Negations, complements and conversions, one after the other.
LEMMA UnaryRules ==
  ASSUME NEW ty \in {"I", "Q", "D"}, NEW a \in Values(ty), NEW b \in Values(ty)
  PROVE  /\ Compute1("neg", ty, Compute1("neg", ty, a)) = a
         /\ ty # "D" => Compute1("not", ty, Compute1("not", ty, a)) = a
         /\ ty = "D" => Compute1("abs", ty, Compute1("abs", ty, a)) = Compute1("abs", ty, a)
         /\ Same(ty, Compute2("sub", ty, b, a), Compute1("neg", ty, Compute2("sub", ty, a, b)))
         /\ ty = "I" => \A t, u : Compute1("d2i", t, Compute1("i2d", u, a)) = a
<1>1. CASE ty = "D"
  BY <1>1, RealRules, Compute2By DEF Compute1, Same
<1>2. CASE ty # "D"
  <2>1. PICK w \in Nat \ {0} : w = Width(ty)
    BY <1>2, WidthTypes
  <2>2. a \in Int /\ b \in Int /\ InWidth(a, w)
    BY <1>2, <2>1, WidthTypes, WidthOK DEF InWidth
  <2>3. /\ Wrap(-Wrap(-a, w), w) = a
        /\ Wrap(b - a, w) = Wrap(-Wrap(a - b, w), w)
    <3>1. PICK n \in Int, d \in Int : n = -a /\ -n = a /\ d = a - b /\ -d = b - a
      BY <2>2
    <3>2. Wrap(-Wrap(n, w), w) = Wrap(-n, w) /\ Wrap(-Wrap(d, w), w) = Wrap(-d, w)
      BY WrapInside
    <3>3. Wrap(a, w) = a
      BY <2>2, WrapOK
    <3> QED
      BY <3>1, <3>2, <3>3
  <2>4. Compute1("neg", ty, Compute1("neg", ty, a)) = a
    BY <1>2, <2>1, <2>3 DEF Compute1
  <2>5. Compute1("not", ty, Compute1("not", ty, a)) = a
    BY <2>2 DEF Compute1
  <2>6. Same(ty, Compute2("sub", ty, b, a), Compute1("neg", ty, Compute2("sub", ty, a, b)))
    <3>1. \A x, y : Compute2("sub", ty, x, y) = Wrap(x - y, w)
      BY <1>2, <2>1, Compute2By DEF Arithmetic2, Arith
    <3> QED
      BY <1>2, <2>1, <2>3, <3>1 DEF Compute1, Same
  <2>7. ty = "I" => \A t, u : Compute1("d2i", t, Compute1("i2d", u, a)) = a
    <3>1. Num(a).n = a
      BY DEF Num
    <3> QED
      BY <2>1, <2>2, <3>1, WidthTypes, WrapOK DEF Compute1
  <2> QED
    BY <1>2, <2>4, <2>5, <2>6, <2>7
<1> QED
  BY <1>1, <1>2

-----------------------------------------------------------------------------
(* What answers are worth.                                                 *)

\* In environment e the code s has the values V, which are of their types.
Valued(s, V, e) ==
  /\ WellTyped(s)
  /\ \A i \in DOMAIN s : V[i][e] = Value(V, s[i], e)
  /\ \A i \in DOMAIN s : TypeOf(s, i) # "V" => V[i][e] \in Values(TypeOf(s, i))

\* So has what was written first.
LEMMA ValuedBefore ==
  ASSUME NEW t, NEW V, NEW e, Valued(t, V, e), NEW s, WellTyped(s), Extends(t, s)
  PROVE  Valued(s, V, e)
BY DEF Valued, Extends, TypeOf

\* The value of an operand is of its type.
LEMMA OpdValue ==
  ASSUME NEW s, NEW V, NEW e, Valued(s, V, e), NEW i, NEW ty, ty # "V", Opd(s, i, ty)
  PROVE  V[i][e] \in Values(ty)
BY DEF Valued, Opd

\* That of a constant is its own.
LEMMA ImmWorth ==
  ASSUME NEW s, NEW V, NEW e, Valued(s, V, e), NEW i \in DOMAIN s, IsImm(s, i)
  PROVE  V[i][e] = s[i].v
BY ValueOf DEF Valued, IsImm

\* That of an instruction with one operand, or two.
LEMMA Worth1 ==
  ASSUME NEW s, NEW V, NEW e, Valued(s, V, e), NEW i \in DOMAIN s, s[i].k \in Unary
  PROVE  V[i][e] = Compute1(s[i].k, s[i].ty, V[Arg(s, i, 1)][e])
BY ValueOf DEF Valued

\* What an operator of two operands is worth.
LEMMA Worth2 ==
  ASSUME NEW s, NEW V, NEW e, Valued(s, V, e), NEW i \in DOMAIN s, s[i].k \in Binary
  PROVE  V[i][e] = Compute2(s[i].k, s[i].ty, V[Arg(s, i, 1)][e], V[Arg(s, i, 2)][e])
BY ValueOf DEF Valued

\* What New writes.
LEMMA NewIs ==
  ASSUME NEW s, WellTyped(s), NEW x
  PROVE  New(s, x).ret \in DOMAIN New(s, x).ins /\ New(s, x).ins[New(s, x).ret] = x
BY DEF WellTyped, New

\* The answers that are a new instruction, a constant, an old instruction.
LEMMA New1Exact ==
  ASSUME NEW s, WellTyped(s), NEW k \in Unary, NEW ty, NEW a, NEW V, NEW e, NEW r,
         r = New(s, Op(k, ty, <<a>>)), Valued(r.ins, V, e)
  PROVE  V[r.ret][e] = Compute1(k, ty, V[a][e])
<1>1. PICK x : /\ x = Op(k, ty, <<a>>) /\ x.k = k /\ x.ty = ty /\ x.args[1] = a
  BY DEF Op
<1>2. r.ret \in DOMAIN r.ins /\ r.ins[r.ret] = x
  BY <1>1, NewIs
<1> QED
  BY <1>1, <1>2, Worth1 DEF Arg

\* An operator of two operands that is written is worth what it computes.
LEMMA New2Exact ==
  ASSUME NEW s, WellTyped(s), NEW k \in Binary, NEW ty, NEW a, NEW b, NEW V, NEW e, NEW r,
         r = New(s, Op(k, ty, <<a, b>>)), Valued(r.ins, V, e)
  PROVE  V[r.ret][e] = Compute2(k, ty, V[a][e], V[b][e])
<1>1. PICK x : /\ x = Op(k, ty, <<a, b>>) /\ x.k = k /\ x.ty = ty
               /\ x.args[1] = a /\ x.args[2] = b
  BY DEF Op
<1>2. r.ret \in DOMAIN r.ins /\ r.ins[r.ret] = x
  BY <1>1, NewIs
<1> QED
  BY <1>1, <1>2, Worth2 DEF Arg

\* A constant that is written is worth its value.
LEMMA ImmExact ==
  ASSUME NEW s, WellTyped(s), NEW v, NEW ty, NEW V, NEW e, NEW r,
         r = InsImm(s, v, ty), Valued(r.ins, V, e)
  PROVE  V[r.ret][e] = v
<1>1. Imm(v, ty).k = "imm" /\ Imm(v, ty).v = v
  BY DEF Imm
<1>2. r.ret \in DOMAIN r.ins /\ r.ins[r.ret] = Imm(v, ty)
  BY NewIs DEF InsImm
<1> QED
  BY <1>1, <1>2, ImmWorth DEF IsImm

\* One operand.  The one rule that is wrong is left out.
LEMMA Ins1Exact ==
  ASSUME NEW s, WellTyped(s), NEW k \in Unary, NEW ty, IsOperator(k, ty),
         NEW a, Opd(s, a, Formals(k, ty)[1]), ~(k = "d2i" /\ s[a].k = "q2d"),
         NEW V, NEW e, NEW r, r = Ins1(s, k, ty, a), Valued(r.ins, V, e)
  PROVE  Same(RetType(k, ty), V[r.ret][e], Compute1(k, ty, V[a][e]))
<1>1. Valued(s, V, e)
  <2>1. Answers(s, r, RetType(k, ty))
    BY Ins1OK
  <2> QED
    BY <2>1, ValuedBefore DEF Answers
<1>2. \A t, x, y : x = y => Same(t, x, y)
  BY DEF Same, SameNumber
<1>3. a \in DOMAIN s
  BY DEF Opd
<1>4. CASE IsImm(s, a) /\ k # "abs"
  <2>1. r = InsImm(s, Compute1(k, ty, s[a].v), RetType(k, ty))
    BY <1>4 DEF Ins1, IsImm
  <2>2. V[r.ret][e] = Compute1(k, ty, s[a].v)
    <3>1. PICK v, t : v = Compute1(k, ty, s[a].v) /\ t = RetType(k, ty)
      OBVIOUS
    <3>2. r = InsImm(s, v, t)
      BY <2>1, <3>1
    <3> QED
      BY <3>1, <3>2, ImmExact
  <2> QED
    BY <1>1, <1>2, <1>3, <1>4, <2>2, ImmWorth
<1>5. CASE k = "neg" /\ s[a].k = "sub"
  <2>1. /\ TypeOf(s, a) = ty /\ s[a].ty = ty /\ Formals("sub", ty) = <<ty, ty>>
        /\ ty \in {"I", "Q", "D"} /\ RetType(k, ty) = ty /\ "sub" \in Binary
    BY <1>5, Kinds, Operators DEF Opd, TypeOf, Arithmetic2, Binary
  <2>2. Opd(s, Arg(s, a, 1), ty) /\ Opd(s, Arg(s, a, 2), ty)
    BY <1>5, <2>1, Args2OK DEF Opd
  <2>3. PICK x \in Values(ty), y \in Values(ty) :
          x = V[Arg(s, a, 1)][e] /\ y = V[Arg(s, a, 2)][e]
    BY <1>1, <2>1, <2>2, OpdValue
  <2>4. r = New(s, Op("sub", ty, <<Arg(s, a, 2), Arg(s, a, 1)>>))
    BY <1>5 DEF Ins1, IsImm
  <2>5. V[r.ret][e] = Compute2("sub", ty, y, x)
    BY <2>1, <2>3, <2>4, New2Exact
  <2>6. V[a][e] = Compute2("sub", ty, x, y)
    BY <1>1, <1>3, <1>5, <2>1, <2>3, Worth2
  <2> QED
    BY <1>5, <2>1, <2>5, <2>6, UnaryRules
<1>6. CASE k \in {"neg", "not"} /\ s[a].k = k
  <2>1. /\ TypeOf(s, a) = ty /\ s[a].ty = ty /\ Formals(k, ty) = <<ty>>
        /\ ty \in {"I", "Q", "D"} /\ RetType(k, ty) = ty /\ (k = "not" => ty # "D")
    BY <1>6, Kinds, Operators DEF Opd, TypeOf
  <2>2. Opd(s, Arg(s, a, 1), ty)
    <3>1. 1 \in 1 .. Len(Formals(s[a].k, s[a].ty)) /\ Formals(s[a].k, s[a].ty)[1] = ty
      BY <1>6, <2>1
    <3> QED
      BY <1>3, <3>1, ArgsOK
  <2>3. PICK x \in Values(ty) : x = V[Arg(s, a, 1)][e]
    BY <1>1, <2>1, <2>2, OpdValue
  <2>4. r.ret = Arg(s, a, 1)
    BY <1>6 DEF Ins1, IsImm, Old
  <2>5. V[a][e] = Compute1(k, ty, x)
    BY <1>1, <1>3, <1>6, <2>1, <2>3, Worth1
  <2>6. V[r.ret][e] = Compute1(k, ty, V[a][e])
    BY <1>6, <2>1, <2>3, <2>4, <2>5, UnaryRules
  <2> QED
    BY <1>2, <2>6
<1>7. CASE k = "abs" /\ s[a].k = "abs"
  <2>1. ty = "D" /\ s[a].ty = "D" /\ Formals(k, ty) = <<"D">>
    BY <1>7, Kinds, Operators DEF Opd, TypeOf
  <2>2. Opd(s, Arg(s, a, 1), ty)
    BY <1>7, <2>1, ArgsOK DEF Opd
  <2>3. PICK x \in Values(ty) : x = V[Arg(s, a, 1)][e]
    BY <1>1, <2>1, <2>2, OpdValue
  <2>4. r.ret = a
    BY <1>7 DEF Ins1, IsImm, Old
  <2>5. V[a][e] = Compute1(k, ty, x)
    BY <1>1, <1>3, <1>7, <2>1, <2>3, Worth1
  <2>6. V[r.ret][e] = Compute1(k, ty, V[a][e])
    BY <1>7, <2>1, <2>3, <2>4, <2>5, UnaryRules
  <2> QED
    BY <1>2, <2>6
<1>8. CASE k = "d2i" /\ s[a].k = "i2d"
  <2>1. Opd(s, Arg(s, a, 1), "I") /\ "i2d" \in Unary
    BY <1>8, ArgsOK, Kinds DEF Opd, Unary, Conversions
  <2>2. PICK x \in Values("I") : x = V[Arg(s, a, 1)][e]
    BY <1>1, <2>1, OpdValue
  <2>3. r.ret = Arg(s, a, 1)
    BY <1>8 DEF Ins1, IsImm, Old
  <2>4. V[a][e] = Compute1("i2d", s[a].ty, x)
    BY <1>1, <1>3, <1>8, <2>1, <2>2, Worth1
  <2>5. Compute1(k, ty, V[a][e]) = x
    BY <1>8, <2>4, UnaryRules
  <2> QED
    BY <1>2, <2>2, <2>3, <2>5
<1>9. CASE /\ ~(IsImm(s, a) /\ k # "abs")
           /\ ~(k = "neg" /\ s[a].k = "sub")
           /\ ~(k \in {"neg", "not"} /\ s[a].k = k)
           /\ ~(k = "abs" /\ s[a].k = "abs")
           /\ ~(k = "d2i" /\ s[a].k = "i2d")
  <2>1. r = New(s, Op(k, ty, <<a>>))
    BY <1>9 DEF Ins1
  <2> QED
    BY <1>2, <2>1, New1Exact
<1> QED
  BY <1>4, <1>5, <1>6, <1>7, <1>8, <1>9

-----------------------------------------------------------------------------
(* Answers that are values have nothing new that exits on overflow.        *)

Calm(t, s) == \A i \in DOMAIN t \ DOMAIN s : t[i].k \notin Overflowing

\* To write nothing is calm,
LEMMA CalmSelf ==
  ASSUME NEW s
  PROVE  Calm(s, s)
BY DEF Calm

\* and so is to write calmly twice.
LEMMA CalmChain ==
  ASSUME NEW s, NEW t, Calm(t, s), NEW u, Calm(u, t), Extends(u, t)
  PROVE  Calm(u, s)
BY DEF Calm, Extends

\* What New adds to the code.
LEMMA NewExtends ==
  ASSUME NEW s, WellTyped(s), NEW x, x.k # "param"
  PROVE  Extends(New(s, x).ins, s)
<1> DEFINE t == Append(s, x)
           W == {s[i] : i \in DOMAIN s}
<1>1. s \in Seq(W) /\ DOMAIN s = 1 .. Len(s) /\ Len(s) \in Nat
  BY DEF WellTyped
<1>2. /\ t \in Seq(W \cup {x}) /\ DOMAIN t = 1 .. Len(s) + 1
      /\ t[Len(s) + 1] = x /\ \A i \in DOMAIN s : t[i] = s[i]
  <2>1. s \in Seq(W \cup {x})
    BY <1>1
  <2> QED
    BY <1>1, <2>1
<1> HIDE DEF t, W
<1>3. \A i \in DOMAIN t \ DOMAIN s : i = Len(s) + 1
  BY <1>1, <1>2
<1> QED
  BY <1>1, <1>2, <1>3 DEF Extends, New, t

\* Of what New writes.
LEMMA CalmNew ==
  ASSUME NEW s, WellTyped(s), NEW x, x.k \notin Overflowing
  PROVE  Calm(New(s, x).ins, s)
<1>1. PICK t : t = Append(s, x)
  OBVIOUS
<1>2. /\ DOMAIN s = 1 .. Len(s) /\ Len(s) \in Nat
      /\ DOMAIN t = 1 .. Len(s) + 1 /\ t[Len(s) + 1] = x
  BY <1>1 DEF WellTyped
<1>3. \A i \in DOMAIN t \ DOMAIN s : i = Len(s) + 1
  BY <1>2
<1>4. New(s, x).ins = t
  BY <1>1 DEF New
<1> QED
  BY <1>2, <1>3, <1>4 DEF Calm

\* Constants never exit.
LEMMA CalmImm ==
  ASSUME NEW s, WellTyped(s), NEW v, NEW ty
  PROVE  Calm(InsImm(s, v, ty).ins, s)
<1>1. Imm(v, ty).k \notin Overflowing
  BY DEF Imm, Overflowing
<1> QED
  BY <1>1, CalmNew DEF InsImm

\* Operators that check nothing never exit.
LEMMA CalmOp ==
  ASSUME NEW s, WellTyped(s), NEW k \in Unary \cup Binary \cup {"cmov"}, NEW ty, NEW args
  PROVE  Calm(New(s, Op(k, ty, args)).ins, s)
<1>1. Op(k, ty, args).k = k
  BY DEF Op
<1>2. k \notin Overflowing
  BY Binaries DEF Overflowing, Arithmetic2, Unary, Conversions
<1> QED
  BY <1>1, <1>2, CalmNew

\* An answer that is there already writes nothing.
LEMMA CalmOld ==
  ASSUME NEW s, NEW i
  PROVE  Calm(Old(s, i).ins, s)
BY CalmSelf DEF Old

\* ins1 writes nothing that exits.
LEMMA Ins1Calm ==
  ASSUME NEW s, WellTyped(s), NEW k \in Unary, NEW ty, NEW a
  PROVE  Calm(Ins1(s, k, ty, a).ins, s)
<1>1. \/ \E v, t : Ins1(s, k, ty, a) = InsImm(s, v, t)
      \/ \E i : Ins1(s, k, ty, a) = Old(s, i)
      \/ \E j \in {"sub", k} : \E args : Ins1(s, k, ty, a) = New(s, Op(j, ty, args))
  BY DEF Ins1
<1>2. {"sub", k} \subseteq Unary \cup Binary \cup {"cmov"}
  BY Binaries DEF Arithmetic2
<1> QED
  BY <1>1, <1>2, CalmImm, CalmOld, CalmOp

\* Neither do the rules for a constant right operand,
LEMMA FoldByCalm ==
  ASSUME NEW c, NEW s, WellTyped(s), NEW k \in Binary, NEW ty, NEW a, NEW b
  PROVE  Calm(FoldBy(c, s, k, ty, a, b).ins, s)
<1>1. PICK r : r = FoldBy(c, s, k, ty, a, b)
  OBVIOUS
<1>2. \/ r = FoldZero(s, k, ty, a, b) \/ r = FoldMinusOne(s, k, ty, a, b)
      \/ r = FoldOne(s, k, ty, a, b) \/ r = New(s, Op(k, ty, <<a, b>>))
  BY <1>1 DEF FoldBy
<1>3. \/ \E v : r = InsImm(s, v, "I")
      \/ \E i : r = Old(s, i)
      \/ r = New(s, Op(k, ty, <<a, b>>))
  BY <1>2 DEF FoldZero, FoldMinusOne, FoldOne
<1> QED
  BY <1>1, <1>3, CalmImm, CalmOld, CalmOp

\* ins2,
LEMMA Ins2Calm ==
  ASSUME NEW s, WellTyped(s), NEW k \in Binary, NEW ty, IsOperator(k, ty), NEW a, NEW b,
         Opd(s, a, Formals(k, ty)[1]), Opd(s, b, Formals(k, ty)[2])
  PROVE  Calm(Ins2(s, k, ty, a, b).ins, s)
<1>1. PICK t : t = Swapped(s, k, a, b)
  OBVIOUS
<1>2. /\ t.k \in Binary /\ IsOperator(t.k, ty)
      /\ Opd(s, t.a, Formals(t.k, ty)[1]) /\ Opd(s, t.b, Formals(t.k, ty)[2])
  BY <1>1, SwappedOK
<1>3. PICK r : r = Ins2(s, k, ty, a, b)
  OBVIOUS
<1>4. CASE r = FoldRhs(s, t.k, ty, t.a, t.b)
  <2>1. CASE ~IsImm(s, t.b) \/ s[t.b].ty = "D"
    <3>1. r = New(s, Op(t.k, ty, <<t.a, t.b>>))
      BY <1>4, <2>1 DEF FoldRhs
    <3> QED
      BY <1>2, <1>3, <3>1, CalmOp
  <2>2. CASE IsImm(s, t.b) /\ s[t.b].ty # "D" /\ SignExtends(s, t.k, ty, t.a, t.b)
    <3>1. r = Old(s, Arg(s, t.a, 1))
      BY <1>4, <2>2 DEF FoldRhs
    <3> QED
      BY <1>3, <3>1, CalmOld
  <2>3. CASE IsImm(s, t.b) /\ s[t.b].ty # "D" /\ ~SignExtends(s, t.k, ty, t.a, t.b) /\ ty # "I"
    <3>1. r = FoldBy(s[t.b].v, s, t.k, ty, t.a, t.b)
      BY <1>4, <2>3 DEF FoldRhs
    <3> QED
      BY <1>2, <1>3, <3>1, FoldByCalm
  <2>4. CASE IsImm(s, t.b) /\ s[t.b].ty # "D" /\ ~SignExtends(s, t.k, ty, t.a, t.b) /\ ty = "I"
    <3>1. PICK m : m = Merged(s, t.k, t.a, t.b)
      OBVIOUS
    <3>2. r = FoldBy(m.s[m.b].v, m.s, m.k, ty, m.a, m.b)
      BY <1>4, <2>4, <3>1 DEF FoldRhs
    <3>3. m.k \in Binary /\ IsOperator(m.k, "I") /\ WellTyped(m.s)
          /\ Opd(m.s, m.a, Formals(m.k, "I")[1]) /\ Opd(m.s, m.b, Formals(m.k, "I")[2])
      BY <1>2, <2>4, <3>1, MergedOK
    <3>4. Calm(m.s, s)
      <4>1. m.s = s \/ \E v : m.s = InsImm(s, v, "I").ins
        BY <3>1 DEF Merged
      <4> QED
        BY <4>1, CalmSelf, CalmImm
    <3>5. Calm(r.ins, m.s)
      BY <3>2, <3>3, FoldByCalm
    <3>6. Extends(r.ins, m.s)
      BY <2>4, <3>2, <3>3, FoldByOK DEF Answers
    <3> QED
      BY <1>3, <3>4, <3>5, <3>6, CalmChain
  <2> QED
    BY <2>1, <2>2, <2>3, <2>4
<1>5. \/ \E v, u : r = InsImm(s, v, u)
      \/ \E i : r = Old(s, i)
      \/ r = FoldRhs(s, t.k, ty, t.a, t.b)
  <2>1. k \in FoldsEqual => \/ \E v, u : FoldEqual(s, k, a) = InsImm(s, v, u)
                            \/ \E i : FoldEqual(s, k, a) = Old(s, i)
    BY Binaries DEF FoldEqual, FoldsEqual
  <2> QED
    BY <1>1, <1>3, <2>1 DEF Ins2
<1> QED
  BY <1>3, <1>4, <1>5, CalmImm, CalmOld

\* ins3
LEMMA Ins3Calm ==
  ASSUME NEW s, WellTyped(s), NEW ty, NEW c, NEW a, NEW b
  PROVE  Calm(Ins3(s, ty, c, a, b).ins, s)
<1>1. \/ \E i : Ins3(s, ty, c, a, b) = Old(s, i)
      \/ Ins3(s, ty, c, a, b) = New(s, Op("cmov", ty, <<c, a, b>>))
  BY DEF Ins3
<1> QED
  BY <1>1, CalmOld, CalmOp

\* and insLoad.
LEMMA InsLoadCalm ==
  ASSUME NEW s, WellTyped(s), NEW base, Opd(s, base, "Q"), NEW d \in Int
  PROVE  Calm(InsLoad(s, base, d).ins, s)
<1>1. \A i, e : Ld(i, e).k \notin Overflowing
  BY DEF Ld, Overflowing
<1>2. CASE ~(Is(s, base, "imm", "Q") /\ d \notin SmallOffsets)
  <2>1. InsLoad(s, base, d) = New(s, Ld(base, d))
    BY <1>2 DEF InsLoad
  <2> QED
    BY <1>1, <2>1, CalmNew
<1>3. CASE Is(s, base, "imm", "Q") /\ d \notin SmallOffsets
  <2>1. PICK r : r = InsImm(s, Wrap(s[base].v + d, QuadWidth), "Q")
    OBVIOUS
  <2>2. InsLoad(s, base, d) = New(r.ins, Ld(r.ret, 0))
    BY <1>3, <2>1 DEF InsLoad
  <2>3. Answers(s, r, "Q")
    <3>1. s[base].v \in Int
      BY <1>3, ImmValue, WidthTypes DEF Is, IsImm
    <3>2. Wrap(s[base].v + d, QuadWidth) \in Values("Q")
      <4>1. s[base].v + d \in Int
        BY <3>1
      <4> QED
        BY <4>1, WrapTyped, WidthTypes
    <3> QED
      BY <2>1, <3>2, ImmOK
  <2>4. Calm(r.ins, s) /\ Calm(New(r.ins, Ld(r.ret, 0)).ins, r.ins)
    BY <1>1, <2>1, <2>3, CalmImm, CalmNew DEF Answers
  <2>5. Extends(New(r.ins, Ld(r.ret, 0)).ins, r.ins)
    <3>1. Ld(r.ret, 0).k # "param"
      BY DEF Ld
    <3> QED
      BY <2>3, <3>1, NewExtends DEF Answers
  <2> QED
    BY <2>2, <2>4, <2>5, CalmChain
<1> QED
  BY <1>2, <1>3

-----------------------------------------------------------------------------
(* Answers to what has two operands are worth what was asked for.          *)

\* Both operands the same.
LEMMA FoldEqualExact ==
  ASSUME NEW s, WellTyped(s), NEW k \in FoldsEqual, NEW a, Opd(s, a, "I"),
         NEW V, NEW e, NEW r, r = FoldEqual(s, k, a), Valued(r.ins, V, e)
  PROVE  V[r.ret][e] = Compute2(k, "I", V[a][e], V[a][e])
<1>1. Valued(s, V, e)
  BY FoldEqualOK, ValuedBefore DEF Answers
<1>2. PICK x \in Values("I") : x = V[a][e]
  BY <1>1, OpdValue
<1>3. CASE k \in {"xor", "sub", "ltu", "gtu", "gt", "lt"}
  <2>1. r = InsImm(s, 0, "I")
    BY <1>3 DEF FoldEqual
  <2>2. V[r.ret][e] = 0
    BY <2>1, ImmExact
  <2> QED
    BY <1>2, <1>3, <2>2, CompareRules, ArithRules, BitRules
<1>4. CASE k \in {"le", "leu", "ge", "geu"}
  <2>1. r = InsImm(s, 1, "I")
    BY <1>4 DEF FoldEqual
  <2>2. V[r.ret][e] = 1
    BY <2>1, ImmExact
  <2> QED
    BY <1>2, <1>4, <2>2, CompareRules
<1>5. CASE k \in {"or", "and"}
  <2>1. r.ret = a
    BY <1>5 DEF FoldEqual, Old
  <2> QED
    BY <1>2, <1>5, <2>1, BitRules
<1> QED
  BY <1>3, <1>4, <1>5, Binaries DEF FoldsEqual

\* A constant that goes to the right.
LEMMA SwappedExact ==
  ASSUME NEW s, NEW V, NEW e, Valued(s, V, e), NEW k \in Binary, NEW ty, IsOperator(k, ty),
         NEW a, NEW b, Opd(s, a, Formals(k, ty)[1]), Opd(s, b, Formals(k, ty)[2]),
         NEW t, t = Swapped(s, k, a, b)
  PROVE  Compute2(t.k, ty, V[t.a][e], V[t.b][e]) = Compute2(k, ty, V[a][e], V[b][e])
<1>1. CASE t = [k |-> k, a |-> a, b |-> b]
  BY <1>1
<1>2. ASSUME k \in Commutes \cup Compares
      PROVE  ty \in {"I", "Q", "D"} /\ V[a][e] \in Values(ty) /\ V[b][e] \in Values(ty)
  <2>1. Formals(k, ty) = <<ty, ty>> /\ ty \in {"I", "Q", "D"}
    BY <1>2, Kinds, Binaries, BinaryTypes DEF Commutes, Arithmetic2
  <2>2. Formals(k, ty)[1] = ty /\ Formals(k, ty)[2] = ty
    BY <2>1
  <2> QED
    BY <2>1, <2>2, OpdValue
<1>3. CASE k \in Commutes /\ t = [k |-> k, a |-> b, b |-> a]
  <2>1. t.k = k /\ t.a = b /\ t.b = a
    BY <1>3
  <2> QED
    BY <1>2, <1>3, <2>1, Commute
<1>4. CASE k \in Compares \ {"eq"} /\ t = [k |-> InvertCmp[k], a |-> b, b |-> a]
  <2>1. t.k = InvertCmp[k] /\ t.a = b /\ t.b = a
    BY <1>4
  <2> QED
    BY <1>2, <1>4, <2>1, CompareSwapped
<1> QED
  BY <1>1, <1>3, <1>4 DEF Swapped, Commutes

\* Two constants that become one.
LEMMA MergedExact ==
  ASSUME NEW s, WellTyped(s), NEW k \in Binary, NEW a, NEW b,
         Opd(s, a, Formals(k, "I")[1]), Opd(s, b, Formals(k, "I")[2]), IsImm(s, b),
         NEW m, m = Merged(s, k, a, b), NEW V, NEW e, Valued(m.s, V, e)
  PROVE  /\ Compute2(m.k, "I", V[m.a][e], V[m.b][e]) = Compute2(k, "I", V[a][e], V[b][e])
         /\ IsImm(m.s, m.b)
<1>1. CASE k \notin {"add", "sub"} \/ ~IsAddOfImm(s, a)
  BY <1>1 DEF Merged
<1>2. CASE k \in {"add", "sub"} /\ IsAddOfImm(s, a)
  <2>1. s[a].k = "add" /\ s[a].ty = "I" /\ a \in DOMAIN s /\ IsImm(s, Arg(s, a, 2))
    BY <1>2 DEF IsAddOfImm, IsImmI, Is, IsImm, Opd
  <2>2. Opd(s, Arg(s, a, 1), "I") /\ Opd(s, Arg(s, a, 2), "I") /\ Opd(s, b, "I")
    <3>1. Formals("add", "I") = <<"I", "I">> /\ Formals(k, "I")[2] = "I"
      BY <1>2, Kinds DEF Arithmetic2
    <3> QED
      BY <2>1, <3>1, Args2OK
  <2>3. PICK c1 \in Int, c2 \in Int : c1 = s[Arg(s, a, 2)].v /\ c2 = s[b].v
    BY <2>1, <2>2, ImmValue, WidthTypes
  <2>4. PICK c \in Int : c = IF k = "add" THEN c1 + c2 ELSE c1 - c2
    OBVIOUS
  <2>5. PICK r : r = InsImm(s, Wrap(c, IntWidth), "I")
    OBVIOUS
  <2>6. m.s = r.ins /\ m.k = "add" /\ m.a = Arg(s, a, 1) /\ m.b = r.ret
    BY <1>2, <2>3, <2>4, <2>5 DEF Merged
  <2>7. Answers(s, r, "I") /\ IsImm(r.ins, r.ret)
    <3>1. Wrap(c, IntWidth) \in Values("I")
      BY WrapTyped, WidthTypes
    <3> QED
      BY <2>5, <3>1, ImmOK
  <2>8. Valued(s, V, e) /\ Valued(r.ins, V, e)
    BY <2>6, <2>7, ValuedBefore DEF Answers
  <2>9. V[r.ret][e] = Wrap(c, IntWidth)
    BY <2>5, <2>8, ImmExact
  <2>10. V[Arg(s, a, 2)][e] = c1 /\ V[b][e] = c2
    BY <1>2, <2>1, <2>2, <2>3, <2>8, ImmWorth DEF Opd
  <2>11. PICK x \in Int : x = V[Arg(s, a, 1)][e]
    BY <2>2, <2>8, OpdValue, WidthTypes
  <2>12. \A y, z : /\ Compute2("add", "I", y, z) = Wrap(y + z, IntWidth)
                   /\ Compute2("sub", "I", y, z) = Wrap(y - z, IntWidth)
    <3>1. "add" \in Arithmetic2 /\ "sub" \in Arithmetic2 /\ "I" # "D" /\ Width("I") = IntWidth
      BY WidthTypes DEF Arithmetic2
    <3> QED
      BY <3>1, Compute2By DEF Arith
  <2>13. V[a][e] = Wrap(x + c1, IntWidth)
    <3>1. "add" \in Binary
      BY Binaries DEF Arithmetic2
    <3>2. V[a][e] = Compute2("add", "I", x, c1)
      BY <2>1, <2>8, <2>10, <2>11, <3>1, Worth2
    <3> QED
      BY <2>12, <3>2
  <2>14. IntWidth \in Nat \ {0}
    BY WidthTypes
  <2>15. Wrap(x + Wrap(c, IntWidth), IntWidth) = Wrap(x + c, IntWidth)
    <3>1. Wrap(Wrap(c, IntWidth) + x, IntWidth) = Wrap(c + x, IntWidth)
      BY <2>14, WrapInside
    <3>2. Wrap(c, IntWidth) \in Int
      BY WrapTyped, WidthTypes
    <3>3. Wrap(c, IntWidth) + x = x + Wrap(c, IntWidth) /\ c + x = x + c
      BY <3>2
    <3> QED
      BY <3>1, <3>3
  <2>16. PICK n \in Int : n = x + c1
    OBVIOUS
  <2>17. CASE k = "add"
    <3>1. Wrap(Wrap(n, IntWidth) + c2, IntWidth) = Wrap(n + c2, IntWidth)
      BY <2>14, WrapInside
    <3>2. n + c2 = x + c
      BY <2>4, <2>16, <2>17
    <3> QED
      BY <2>6, <2>7, <2>9, <2>10, <2>11, <2>12, <2>13, <2>15, <2>16, <2>17, <3>1, <3>2
  <2>18. CASE k = "sub"
    <3>1. Wrap(Wrap(n, IntWidth) - c2, IntWidth) = Wrap(n - c2, IntWidth)
      BY <2>14, WrapInside
    <3>2. n - c2 = x + c
      BY <2>4, <2>16, <2>18
    <3> QED
      BY <2>6, <2>7, <2>9, <2>10, <2>11, <2>12, <2>13, <2>15, <2>16, <2>18, <3>1, <3>2
  <2> QED
    BY <1>2, <2>17, <2>18
<1> QED
  BY <1>1, <1>2

\* If the answer is a constant it is worth that.
ConstantExact(s, V, e, r) == \A v, ty : r = InsImm(s, v, ty) => V[r.ret][e] = v

\* A constant answer is worth that constant.
LEMMA ImmAnswer ==
  ASSUME NEW s, WellTyped(s), NEW V, NEW e, NEW r, Valued(r.ins, V, e)
  PROVE  ConstantExact(s, V, e, r)
BY ImmExact DEF ConstantExact

\* The value of a comparison.
LEMMA CmpValue ==
  ASSUME NEW s, NEW V, NEW e, Valued(s, V, e), NEW i \in DOMAIN s, IsCmp(s, i)
  PROVE  V[i][e] \in {0, 1}
<1>1. s[i].k \in Binary /\ s[i].k \in Compares
  BY Binaries DEF IsCmp
<1> QED
  BY <1>1, Worth2, Compare01

\* If the answer is q it is worth v.
WorthIf(r, q, V, e, v) == r = q => V[r.ret][e] = v

\* A constant on the right.
LEMMA FoldByExact ==
  ASSUME NEW s, WellTyped(s), NEW k \in Binary, NEW ty \in {"I", "Q"}, NEW a, NEW b,
         IsOperator(k, ty), Opd(s, a, Formals(k, ty)[1]), Opd(s, b, Formals(k, ty)[2]),
         IsImm(s, b), NEW c, c = s[b].v,
         NEW V, NEW e, NEW r, Valued(r.ins, V, e)
  PROVE  WorthIf(r, FoldBy(c, s, k, ty, a, b), V, e, Compute2(k, ty, V[a][e], V[b][e]))
<1>1. ConstantExact(s, V, e, r)
  BY ImmAnswer
<1> SUFFICES ASSUME r = FoldBy(c, s, k, ty, a, b)
             PROVE  V[r.ret][e] = Compute2(k, ty, V[a][e], V[b][e])
  BY DEF WorthIf
<1>2. Valued(s, V, e)
  BY FoldByOK, ValuedBefore DEF Answers
<1>3. V[b][e] = c
  BY <1>2, ImmWorth DEF Opd
<1>4. PICK x \in Values(ty) : x = V[a][e]
  <2>1. Formals(k, ty)[1] = ty
    BY Kinds, Binaries
  <2> QED
    BY <1>2, <2>1, OpdValue
<1>5. r = New(s, Op(k, ty, <<a, b>>)) => V[r.ret][e] = Compute2(k, ty, V[a][e], V[b][e])
  BY New2Exact
<1>6. r = Old(s, a) => V[r.ret][e] = x
  BY <1>4 DEF Old
<1>7. r = Old(s, b) => V[r.ret][e] = c
  BY <1>3 DEF Old
<1>8. \A v : r = InsImm(s, v, "I") => V[r.ret][e] = v
  BY <1>1 DEF ConstantExact
<1>9. CASE c = 0
  <2>1. r = FoldZero(s, k, ty, a, b)
    BY <1>9 DEF FoldBy
  <2>2. CASE k \in Shifts \cup {"add", "or", "xor", "sub"}
    <3>1. V[r.ret][e] = x
      BY <1>6, <2>1, <2>2, Binaries DEF FoldZero
    <3>2. k \in Shifts => Compute2(k, ty, x, 0) = x
      <4>1. PICK w \in Nat \ {0} : w = Width(ty) /\ Values(ty) = MinOf(w) .. MaxOf(w)
        BY WidthTypes
      <4>2. x \in MinOf(w) .. MaxOf(w)
        BY <4>1
      <4> QED
        BY <4>1, <4>2, ShiftByZero, Compute2By
    <3>3. Compute2(k, ty, x, 0) = x
      BY <2>2, <3>2, ArithRules, BitRules
    <3> QED
      BY <1>3, <1>4, <1>9, <3>1, <3>3
  <2>3. CASE k \in {"and", "mul"}
    <3>1. V[r.ret][e] = 0
      BY <1>7, <1>9, <2>1, <2>3, Binaries DEF FoldZero
    <3> QED
      BY <1>3, <1>4, <1>9, <2>3, <3>1, ArithRules, BitRules
  <2>4. CASE k = "ltu"
    <3>1. r = Old(s, b) \/ r = InsImm(s, 0, "I")
      BY <2>1, <2>4, Binaries DEF FoldZero
    <3>2. V[r.ret][e] = 0
      BY <1>7, <1>8, <1>9, <3>1
    <3> QED
      BY <1>3, <1>4, <1>9, <2>4, <3>2, CompareRules
  <2>5. CASE k = "geu"
    <3>1. r = InsImm(s, 1, "I")
      BY <2>1, <2>5, Binaries DEF FoldZero
    <3>2. V[r.ret][e] = 1
      BY <1>8, <3>1
    <3> QED
      BY <1>3, <1>4, <1>9, <2>5, <3>2, CompareRules
  <2>6. CASE k = "eq" /\ ty = "I" /\ IsOrOfNonzero(s, a)
    <3>1. r = InsImm(s, 0, "I")
      BY <2>1, <2>6, Binaries DEF FoldZero
    <3>2. V[r.ret][e] = 0
      BY <1>8, <3>1
    <3>3. /\ s[a].k = "or" /\ s[a].ty = "I" /\ a \in DOMAIN s
          /\ IsImm(s, Arg(s, a, 2)) /\ s[Arg(s, a, 2)].v # 0
      BY <2>6 DEF IsOrOfNonzero, IsImmI, Is, IsImm, Opd
    <3>4. Opd(s, Arg(s, a, 1), "I") /\ Opd(s, Arg(s, a, 2), "I")
      <4>1. Formals("or", "I") = <<"I", "I">>
        BY Kinds DEF Arithmetic2
      <4> QED
        BY <3>3, <4>1, Args2OK
    <3>5. PICK p \in Values("I"), q \in Values("I") :
            p = V[Arg(s, a, 1)][e] /\ q = V[Arg(s, a, 2)][e] /\ q # 0
      BY <1>2, <3>3, <3>4, OpdValue, ImmWorth DEF Opd
    <3>6. x = Compute2("or", "I", p, q)
      <4>1. "or" \in Binary
        BY Binaries DEF Arithmetic2
      <4> QED
        BY <1>2, <1>4, <3>3, <3>5, <4>1, Worth2
    <3>7. x # 0
      BY <3>5, <3>6, BitRules
    <3>8. Compute2("eq", "I", x, 0) = 0
      <4>1. Compute2("eq", "I", x, 0) = CompareInts("eq", IntWidth, x, 0)
        BY Compute2By, Binaries, WidthTypes
      <4>2. "eq" \notin UnsignedOrders
        BY Binaries
      <4> QED
        BY <3>7, <4>1, <4>2 DEF CompareInts, Ordered, Truth
    <3> QED
      BY <1>3, <1>4, <1>9, <2>6, <3>2, <3>8
  <2>7. CASE /\ k \notin Shifts \cup {"add", "or", "xor", "sub"} \cup {"and", "mul"}
             /\ k # "ltu" /\ k # "geu" /\ ~(k = "eq" /\ ty = "I" /\ IsOrOfNonzero(s, a))
    <3>1. r = New(s, Op(k, ty, <<a, b>>))
      BY <2>1, <2>7 DEF FoldZero
    <3> QED
      BY <1>5, <3>1
  <2> QED
    BY <2>2, <2>3, <2>4, <2>5, <2>6, <2>7
<1>10. CASE c = -1
  <2>1. \/ k = "or" /\ r = Old(s, b)
        \/ k = "and" /\ r = Old(s, a)
        \/ k = "gtu" /\ r = InsImm(s, 0, "I")
        \/ k = "leu" /\ r = InsImm(s, 1, "I")
        \/ r = New(s, Op(k, ty, <<a, b>>))
    BY <1>10 DEF FoldBy, FoldMinusOne
  <2>2. CASE k = "or" /\ r = Old(s, b)
    BY <1>3, <1>4, <1>7, <1>10, <2>2, BitRules
  <2>3. CASE k = "and" /\ r = Old(s, a)
    BY <1>3, <1>4, <1>6, <1>10, <2>3, BitRules
  <2>4. CASE k = "gtu" /\ r = InsImm(s, 0, "I")
    BY <1>3, <1>4, <1>8, <1>10, <2>4, CompareRules
  <2>5. CASE k = "leu" /\ r = InsImm(s, 1, "I")
    BY <1>3, <1>4, <1>8, <1>10, <2>5, CompareRules
  <2> QED
    BY <1>5, <2>1, <2>2, <2>3, <2>4, <2>5
<1>11. CASE c = 1
  <2>1. \/ IsCmp(s, a) /\ k = "or" /\ r = Old(s, b)
        \/ IsCmp(s, a) /\ k = "and" /\ r = Old(s, a)
        \/ IsCmp(s, a) /\ k = "gtu" /\ r = InsImm(s, 0, "I")
        \/ k = "mul" /\ r = Old(s, a)
        \/ r = New(s, Op(k, ty, <<a, b>>))
    BY <1>11 DEF FoldBy, FoldOne
  <2>2. IsCmp(s, a) => x \in {0, 1}
    BY <1>2, <1>4, CmpValue DEF Opd
  <2>3. CASE IsCmp(s, a) /\ k = "or" /\ r = Old(s, b)
    BY <1>3, <1>4, <1>7, <1>11, <2>2, <2>3, BitRules
  <2>4. CASE IsCmp(s, a) /\ k = "and" /\ r = Old(s, a)
    BY <1>3, <1>4, <1>6, <1>11, <2>2, <2>4, BitRules
  <2>5. CASE IsCmp(s, a) /\ k = "gtu" /\ r = InsImm(s, 0, "I")
    BY <1>3, <1>4, <1>8, <1>11, <2>2, <2>5, CompareRules
  <2>6. CASE k = "mul" /\ r = Old(s, a)
    BY <1>3, <1>4, <1>6, <1>11, <2>6, ArithRules
  <2> QED
    BY <1>5, <2>1, <2>3, <2>4, <2>5, <2>6
<1>12. CASE c # 0 /\ c # -1 /\ c # 1
  BY <1>5, <1>12 DEF FoldBy
<1> QED
  BY <1>9, <1>10, <1>11, <1>12

\* What insIsS16 answers, from what it answers of the operands.
Is16From(s, f, i) ==
  IF s[i].k = "cmov" THEN f[Arg(s, i, 2)] /\ f[Arg(s, i, 3)]
                     ELSE IsCmp(s, i) \/ (IsImmI(s, i) /\ IsS16(s[i].v))

\* The operands of a conditional move were written before it.
LEMMA CmovArgs ==
  ASSUME NEW s, WellTyped(s), NEW i \in DOMAIN s, s[i].k = "cmov"
  PROVE  Arg(s, i, 2) \in 1 .. i - 1 /\ Arg(s, i, 3) \in 1 .. i - 1
<1>1. PICK F : F = Formals(s[i].k, s[i].ty) /\ F = <<"I", s[i].ty, s[i].ty>>
  BY Kinds
<1>2. 2 \in 1 .. Len(F) /\ 3 \in 1 .. Len(F)
  BY <1>1
<1> QED
  BY <1>1, <1>2, ArgsOK

LEMMA S16Step ==
  ASSUME NEW s, WellTyped(s)
  PROVE  \E f : /\ \A i \in DOMAIN s : f[i] = Is16From(s, f, i)
                /\ \A i : InsIsS16(s, i) = f[i]
<1> DEFINE Solves(f, n) == f = [i \in 1 .. n |-> Is16From(s, f, i)]
           S == {n \in Nat : n <= Len(s) => \E f : Solves(f, n)}
<1>1. s \in Seq({s[i] : i \in DOMAIN s}) /\ DOMAIN s = 1 .. Len(s) /\ Len(s) \in Nat
  BY DEF WellTyped
<1>2. 0 \in S
  <2>1. Solves([i \in 1 .. 0 |-> 0], 0)
    OBVIOUS
  <2> QED
    BY <2>1
<1>3. ASSUME NEW n \in Nat, n + 1 <= Len(s), NEW f, Solves(f, n)
      PROVE  \E g : Solves(g, n + 1)
  <2>1. PICK g : g = [i \in 1 .. n + 1 |-> IF i <= n THEN f[i] ELSE Is16From(s, f, n + 1)]
    OBVIOUS
  <2>2. \A i \in 1 .. n : g[i] = f[i] /\ f[i] = Is16From(s, f, i)
    <3>1. PICK h : h = [i \in 1 .. n |-> Is16From(s, f, i)]
      OBVIOUS
    <3>2. h = f /\ \A i \in 1 .. n : h[i] = Is16From(s, f, i)
      BY <1>3, <3>1
    <3> QED
      BY <2>1, <3>2
  <2>3. g[n + 1] = Is16From(s, f, n + 1)
    BY <2>1
  <2>4. ASSUME NEW i \in 1 .. n + 1 PROVE Is16From(s, g, i) = Is16From(s, f, i)
    <3>1. i \in DOMAIN s
      BY <1>1, <1>3
    <3>2. CASE s[i].k = "cmov"
      <4>1. Arg(s, i, 2) \in 1 .. n /\ Arg(s, i, 3) \in 1 .. n
        BY <3>1, <3>2, CmovArgs
      <4>2. g[Arg(s, i, 2)] = f[Arg(s, i, 2)] /\ g[Arg(s, i, 3)] = f[Arg(s, i, 3)]
        BY <2>2, <4>1
      <4> QED
        BY <3>2, <4>2, Zenon DEF Is16From
    <3>3. CASE s[i].k # "cmov"
      BY <3>3, Zenon DEF Is16From
    <3> QED
      BY <3>2, <3>3
  <2>5. \A i \in 1 .. n + 1 : g[i] = Is16From(s, g, i)
    <3>1. \A i \in 1 .. n + 1 : i = n + 1 \/ i \in 1 .. n
      OBVIOUS
    <3> QED
      BY <2>2, <2>3, <2>4, <3>1
  <2> QED
    BY <2>1, <2>5
<1>4. \E f : Solves(f, Len(s))
  <2>1. \A n \in Nat : n \in S => n + 1 \in S
    BY <1>1, <1>3
  <2>2. S = {n \in Nat : n <= Len(s) => \E f : Solves(f, n)}
    OBVIOUS
  <2> HIDE DEF S
  <2>3. Len(s) \in S
    BY <1>1, <1>2, <2>1, NatInduct
  <2> QED
    BY <1>1, <2>2, <2>3
<1> DEFINE is16[j \in DOMAIN s] ==
             IF s[j].k = "cmov" THEN is16[Arg(s, j, 2)] /\ is16[Arg(s, j, 3)]
                                ELSE IsCmp(s, j) \/ (IsImmI(s, j) /\ IsS16(s[j].v))
<1>5. is16 = [j \in DOMAIN s |-> Is16From(s, is16, j)]
  <2>1. \E f : f = [j \in DOMAIN s |->
                      IF s[j].k = "cmov" THEN f[Arg(s, j, 2)] /\ f[Arg(s, j, 3)]
                      ELSE IsCmp(s, j) \/ (IsImmI(s, j) /\ IsS16(s[j].v))]
    <3>1. \E f : f = [j \in DOMAIN s |-> Is16From(s, f, j)]
      BY <1>1, <1>4
    <3> QED
      BY <3>1, Zenon DEF Is16From
  <2>2. is16 = [j \in DOMAIN s |->
                 IF s[j].k = "cmov" THEN is16[Arg(s, j, 2)] /\ is16[Arg(s, j, 3)]
                 ELSE IsCmp(s, j) \/ (IsImmI(s, j) /\ IsS16(s[j].v))]
    BY <2>1, Zenon
  <2> QED
    BY <2>2, Zenon DEF Is16From
<1>6. \A i : InsIsS16(s, i) = is16[i]
  BY DEF InsIsS16
<1>7. PICK f : f = [j \in DOMAIN s |-> Is16From(s, f, j)] /\ f = is16
  BY <1>5
<1> HIDE DEF is16
<1>8. \A i \in DOMAIN s : f[i] = Is16From(s, f, i)
  <2>1. PICK h : h = [j \in DOMAIN s |-> Is16From(s, f, j)]
    OBVIOUS
  <2>2. h = f /\ \A i \in DOMAIN s : h[i] = Is16From(s, f, i)
    BY <1>7, <2>1
  <2> QED
    BY <2>2
<1> QED
  BY <1>6, <1>7, <1>8

\* What insIsS16 says yes to has 16 bits.
LEMMA S16Value ==
  ASSUME NEW s, WellTyped(s), NEW V, NEW e, Valued(s, V, e),
         NEW i, Opd(s, i, "I"), InsIsS16(s, i)
  PROVE  V[i][e] \in Int /\ IsS16(V[i][e])
<1>1. IsS16(0) /\ IsS16(1)
  <2>1. PICK w \in Nat : w = IntWidth /\ w >= 4 /\ w % 2 = 0
    BY WidthAssumption
  <2>2. w \div 2 \in Nat /\ w = 2 * (w \div 2)
    BY <2>1
  <2>3. PICK h \in Nat : h = w \div 2 /\ h >= 2
    BY <2>1, <2>2
  <2>4. PICK j \in Nat : j = h - 2
    BY <2>3
  <2>5. PICK p \in Nat \ {0} : p = 2 ^ j /\ 2 ^ (j + 1) = 2 * p
    BY Doubled
  <2>6. Half - 1 = j + 1
    BY <2>1, <2>3, <2>4 DEF Half
  <2>7. 2 ^ (Half - 1) = 2 * p
    BY <2>5, <2>6
  <2> QED
    BY <2>7 DEF IsS16
<1>2. ASSUME NEW j \in DOMAIN s, (IsImmI(s, j) /\ IsS16(s[j].v)) \/ IsCmp(s, j)
      PROVE  IsS16(V[j][e])
  <2>1. CASE IsImmI(s, j) /\ IsS16(s[j].v)
    BY <2>1, ImmWorth DEF IsImmI, Is, IsImm
  <2>2. CASE IsCmp(s, j)
    <3>1. V[j][e] \in {0, 1}
      BY <2>2, CmpValue
    <3> QED
      BY <1>1, <3>1
  <2> QED
    BY <1>2, <2>1, <2>2
<1>3. V[i][e] \in Int
  BY OpdValue, WidthTypes
<1>4. PICK f : /\ \A j \in DOMAIN s : f[j] = Is16From(s, f, j)
               /\ \A j : InsIsS16(s, j) = f[j]
  BY S16Step
<1> DEFINE Right(j) == f[j] => IsS16(V[j][e])
           T == {j \in 1 .. Len(s) : ~Right(j)}
<1>5. DOMAIN s = 1 .. Len(s) /\ Len(s) \in Nat
  BY DEF WellTyped
<1>6. ASSUME NEW j \in DOMAIN s, \A n \in 1 .. j - 1 : Right(n), f[j]
      PROVE  IsS16(V[j][e])
  <2>1. Is16From(s, f, j)
    BY <1>4, <1>6, Zenon
  <2>2. CASE s[j].k = "cmov"
    <3>1. PICK a, b : a = Arg(s, j, 2) /\ b = Arg(s, j, 3)
      OBVIOUS
    <3>2. a \in 1 .. j - 1 /\ b \in 1 .. j - 1
      BY <2>2, <3>1, CmovArgs
    <3>3. f[a] /\ f[b]
      BY <2>1, <2>2, <3>1, Zenon DEF Is16From
    <3>4. IsS16(V[a][e]) /\ IsS16(V[b][e])
      BY <1>6, <3>2, <3>3
    <3>5. V[j][e] = V[a][e] \/ V[j][e] = V[b][e]
      <4>1. V[j][e] = Value(V, s[j], e)
        BY DEF Valued
      <4> QED
        BY <2>2, <3>1, <4>1, ValueOf
    <3> QED
      BY <3>4, <3>5
  <2>3. CASE s[j].k # "cmov"
    BY <1>2, <2>1, <2>3, Zenon DEF Is16From
  <2> QED
    BY <2>2, <2>3
<1>7. \A j \in DOMAIN s : (\A n \in 1 .. j - 1 : Right(n)) => Right(j)
  BY <1>6, Zenon
<1> HIDE DEF Right
<1>8. T = {}
  <2> SUFFICES ASSUME T # {} PROVE FALSE
    OBVIOUS
  <2>1. T \in SUBSET Nat /\ T # {} /\ T = {j \in 1 .. Len(s) : ~Right(j)}
    BY <1>5
  <2> HIDE DEF T
  <2>2. PICK x \in T : \A y \in T : x <= y
    BY <2>1, NatLeast
  <2>3. x \in 1 .. Len(s) /\ ~Right(x)
    BY <2>1
  <2>4. \A j \in 1 .. x - 1 : j \in 1 .. Len(s) /\ j \notin T
    BY <1>5, <2>2, <2>3
  <2>5. \A j \in 1 .. x - 1 : Right(j)
    BY <2>1, <2>4
  <2> QED
    BY <1>5, <1>7, <2>3, <2>5
<1>9. i \in DOMAIN s /\ Right(i)
  BY <1>5, <1>8 DEF Opd
<1>10. f[i]
  BY <1>4, Zenon
<1> QED
  BY <1>3, <1>9, <1>10, Zenon DEF Right

\* A constant on the right, or none.
LEMMA FoldRhsExact ==
  ASSUME NEW s, WellTyped(s), NEW k \in Binary, NEW ty, IsOperator(k, ty), NEW a, NEW b,
         Opd(s, a, Formals(k, ty)[1]), Opd(s, b, Formals(k, ty)[2]),
         NEW V, NEW e, NEW r, Valued(r.ins, V, e)
  PROVE  WorthIf(r, FoldRhs(s, k, ty, a, b), V, e, Compute2(k, ty, V[a][e], V[b][e]))
<1>1. r = New(s, Op(k, ty, <<a, b>>)) => V[r.ret][e] = Compute2(k, ty, V[a][e], V[b][e])
  BY New2Exact
<1>2. ASSUME ty # "I", ty # "D"
      PROVE  IsImm(s, b) /\ r = FoldBy(s[b].v, s, k, ty, a, b) =>
               V[r.ret][e] = Compute2(k, ty, V[a][e], V[b][e])
  <2>1. ty \in {"I", "Q"}
    BY <1>2, BinaryTypes
  <2>2. PICK c : c = s[b].v
    OBVIOUS
  <2>3. IsImm(s, b) => WorthIf(r, FoldBy(c, s, k, ty, a, b), V, e,
                                 Compute2(k, ty, V[a][e], V[b][e]))
    BY <2>1, <2>2, FoldByExact
  <2> QED
    BY <2>2, <2>3 DEF WorthIf
<1> SUFFICES ASSUME r = FoldRhs(s, k, ty, a, b)
             PROVE  V[r.ret][e] = Compute2(k, ty, V[a][e], V[b][e])
  BY DEF WorthIf
<1>3. Valued(s, V, e)
  BY FoldRhsOK, ValuedBefore DEF Answers
<1>4. CASE ~IsImm(s, b) \/ s[b].ty = "D"
  BY <1>1, <1>4 DEF FoldRhs
<1>5. CASE IsImm(s, b) /\ s[b].ty # "D" /\ SignExtends(s, k, ty, a, b)
  <2>1. /\ k = "rsh" /\ ty = "I" /\ s[a].k = "lsh" /\ s[a].ty = "I" /\ s[b].v = Half
        /\ IsImm(s, Arg(s, a, 2)) /\ s[Arg(s, a, 2)].v = Half /\ InsIsS16(s, Arg(s, a, 1))
    BY <1>5 DEF SignExtends, IsImmI, Is, IsImm
  <2>2. a \in DOMAIN s /\ b \in DOMAIN s
    BY DEF Opd
  <2>3. Opd(s, Arg(s, a, 1), "I") /\ Opd(s, Arg(s, a, 2), "I")
    <3>1. Formals("lsh", "I") = <<"I", "I">>
      BY Kinds, Binaries
    <3> QED
      BY <2>1, <2>2, <3>1, Args2OK
  <2>4. V[Arg(s, a, 2)][e] = Half /\ V[b][e] = Half
    BY <1>3, <1>5, <2>1, <2>2, <2>3, ImmWorth DEF Opd
  <2>5. PICK x \in Int : x = V[Arg(s, a, 1)][e] /\ IsS16(x)
    BY <1>3, <2>1, <2>3, S16Value
  <2>6. V[a][e] = Compute2("lsh", "I", x, Half)
    <3>1. "lsh" \in Binary
      BY Binaries
    <3> QED
      BY <1>3, <2>1, <2>2, <2>4, <2>5, <3>1, Worth2
  <2>7. \A j \in {"lsh", "rsh"} : \A y : Compute2(j, "I", y, Half) = Shift(j, IntWidth, y, Half)
    BY Compute2By, Binaries, WidthTypes
  <2>8. Compute2(k, ty, V[a][e], V[b][e]) = x
    BY <2>1, <2>4, <2>5, <2>6, <2>7, SignExtendsOK
  <2>9. r = Old(s, Arg(s, a, 1))
    BY <1>5 DEF FoldRhs
  <2> QED
    BY <2>5, <2>8, <2>9 DEF Old
<1>6. CASE IsImm(s, b) /\ s[b].ty # "D" /\ ~SignExtends(s, k, ty, a, b) /\ ty # "I"
  <2>1. r = FoldBy(s[b].v, s, k, ty, a, b)
    BY <1>6 DEF FoldRhs
  <2>2. ty # "D"
    <3> SUFFICES ASSUME ty = "D" PROVE FALSE
      OBVIOUS
    <3>1. k \notin Shifts
      BY Operators
    <3>2. Formals(k, ty)[2] = "D"
      BY <3>1, Kinds, Binaries
    <3> QED
      BY <1>6, <3>2, ImmValue
  <2> QED
    BY <1>2, <1>6, <2>1, <2>2
<1>7. CASE IsImm(s, b) /\ s[b].ty # "D" /\ ~SignExtends(s, k, ty, a, b) /\ ty = "I"
  <2>1. PICK m : m = Merged(s, k, a, b)
    OBVIOUS
  <2>2. /\ m.k \in Binary /\ IsOperator(m.k, "I") /\ WellTyped(m.s)
        /\ Opd(m.s, m.a, Formals(m.k, "I")[1]) /\ Opd(m.s, m.b, Formals(m.k, "I")[2])
    BY <1>7, <2>1, MergedOK
  <2>3. r = FoldBy(m.s[m.b].v, m.s, m.k, "I", m.a, m.b)
    BY <1>7, <2>1 DEF FoldRhs
  <2>4. Answers(m.s, r, RetType(m.k, "I"))
    BY <2>2, <2>3, FoldByOK
  <2>5. Valued(m.s, V, e)
    BY <2>2, <2>4, ValuedBefore DEF Answers
  <2>6. /\ Compute2(m.k, "I", V[m.a][e], V[m.b][e]) = Compute2(k, "I", V[a][e], V[b][e])
        /\ IsImm(m.s, m.b)
    BY <1>7, <2>1, <2>5, MergedExact
  <2>7. V[r.ret][e] = Compute2(m.k, "I", V[m.a][e], V[m.b][e])
    <3>1. PICK j \in Binary : j = m.k
      BY <2>2
    <3>2. PICK t, p, q, c : t = m.s /\ p = m.a /\ q = m.b /\ c = t[q].v
      OBVIOUS
    <3>3. /\ WellTyped(t) /\ IsOperator(j, "I") /\ IsImm(t, q)
          /\ Opd(t, p, Formals(j, "I")[1]) /\ Opd(t, q, Formals(j, "I")[2])
      BY <2>2, <2>6, <3>1, <3>2
    <3>4. r = FoldBy(c, t, j, "I", p, q)
      BY <2>3, <3>1, <3>2
    <3>5. WorthIf(r, FoldBy(c, t, j, "I", p, q), V, e, Compute2(j, "I", V[p][e], V[q][e]))
      <4>1. PICK i \in {"I", "Q"} : i = "I"
        OBVIOUS
      <4>2. WorthIf(r, FoldBy(c, t, j, i, p, q), V, e, Compute2(j, i, V[p][e], V[q][e]))
        BY <3>2, <3>3, <4>1, FoldByExact
      <4> QED
        BY <4>1, <4>2
    <3> QED
      BY <3>1, <3>2, <3>4, <3>5 DEF WorthIf
  <2> QED
    BY <1>7, <2>6, <2>7
<1> QED
  BY <1>4, <1>5, <1>6, <1>7

\* Two operands.
LEMMA Ins2Exact ==
  ASSUME NEW s, WellTyped(s), NEW k \in Binary, NEW ty, IsOperator(k, ty), NEW a, NEW b,
         Opd(s, a, Formals(k, ty)[1]), Opd(s, b, Formals(k, ty)[2]),
         NEW V, NEW e, NEW r, Valued(r.ins, V, e)
  PROVE  WorthIf(r, Ins2(s, k, ty, a, b), V, e, Compute2(k, ty, V[a][e], V[b][e]))
<1> DEFINE equal == a = b /\ ty = "I" /\ k \in FoldsEqual
           const == IsImm(s, a) /\ IsImm(s, b) /\ FoldsConstants(k, ty, s[a].v, s[b].v)
<1>1. ConstantExact(s, V, e, r)
  BY ImmAnswer
<1>2. ASSUME NEW t, t = Swapped(s, k, a, b)
      PROVE  r = FoldRhs(s, t.k, ty, t.a, t.b) =>
               V[r.ret][e] = Compute2(t.k, ty, V[t.a][e], V[t.b][e])
  <2>1. /\ t.k \in Binary /\ IsOperator(t.k, ty)
        /\ Opd(s, t.a, Formals(t.k, ty)[1]) /\ Opd(s, t.b, Formals(t.k, ty)[2])
    BY <1>2, SwappedOK
  <2>2. PICK p, q : p = t.a /\ q = t.b
    OBVIOUS
  <2>3. PICK j \in Binary : j = t.k
    BY <2>1
  <2>4. WorthIf(r, FoldRhs(s, j, ty, p, q), V, e, Compute2(j, ty, V[p][e], V[q][e]))
    BY <2>1, <2>2, <2>3, FoldRhsExact
  <2> QED
    BY <2>2, <2>3, <2>4 DEF WorthIf
<1>3. ASSUME equal, r = FoldEqual(s, k, a)
      PROVE  V[r.ret][e] = Compute2(k, "I", V[a][e], V[a][e])
  <2>1. Opd(s, a, "I")
    BY <1>3, Kinds, Binaries DEF Arithmetic2
  <2> QED
    BY <1>3, <2>1, FoldEqualExact
<1> SUFFICES ASSUME r = Ins2(s, k, ty, a, b)
             PROVE  V[r.ret][e] = Compute2(k, ty, V[a][e], V[b][e])
  BY DEF WorthIf
<1>4. Valued(s, V, e)
  BY Ins2OK, ValuedBefore DEF Answers
<1>5. CASE equal
  BY <1>3, <1>5 DEF Ins2
<1>6. CASE ~equal /\ const
  <2>1. r = InsImm(s, Compute2(k, ty, s[a].v, s[b].v), RetType(k, ty))
    BY <1>6 DEF Ins2
  <2>2. V[r.ret][e] = Compute2(k, ty, s[a].v, s[b].v)
    BY <1>1, <2>1 DEF ConstantExact
  <2>3. V[a][e] = s[a].v /\ V[b][e] = s[b].v
    BY <1>4, <1>6, ImmWorth DEF Opd
  <2> QED
    BY <2>2, <2>3
<1>7. CASE ~equal /\ ~const
  <2>1. PICK t : t = Swapped(s, k, a, b)
    OBVIOUS
  <2>2. r = FoldRhs(s, t.k, ty, t.a, t.b)
    BY <1>7, <2>1 DEF Ins2
  <2>3. V[r.ret][e] = Compute2(t.k, ty, V[t.a][e], V[t.b][e])
    BY <1>2, <2>1, <2>2
  <2>4. Compute2(t.k, ty, V[t.a][e], V[t.b][e]) = Compute2(k, ty, V[a][e], V[b][e])
    BY <1>4, <2>1, SwappedExact
  <2> QED
    BY <2>3, <2>4
<1> QED
  BY <1>5, <1>6, <1>7

\* Ints compared for equality.
LEMMA EqualInts ==
  ASSUME NEW x, NEW y
  PROVE  /\ x = y => Compute2("eq", "I", x, y) = 1
         /\ x # y => Compute2("eq", "I", x, y) = 0
<1>1. "eq" \in Compares /\ "eq" \notin UnsignedOrders
  BY Binaries
<1>2. Compute2("eq", "I", x, y) = CompareInts("eq", Width("I"), x, y)
  BY <1>1, Compute2By
<1> QED
  BY <1>1, <1>2 DEF CompareInts, Truth, Ordered

\* A choice between two values.
LEMMA Ins3Exact ==
  ASSUME NEW s, WellTyped(s), NEW ty \in {"I", "Q", "D"},
         NEW c, Opd(s, c, "I"), IsCmp(s, c) \/ IsImmI(s, c),
         NEW a, Opd(s, a, ty), NEW b, Opd(s, b, ty),
         NEW V, NEW e, NEW r, Valued(r.ins, V, e)
  PROVE  WorthIf(r, Ins3(s, ty, c, a, b), V, e, IF V[c][e] # 0 THEN V[a][e] ELSE V[b][e])
<1> SUFFICES ASSUME r = Ins3(s, ty, c, a, b)
             PROVE  V[r.ret][e] = IF V[c][e] # 0 THEN V[a][e] ELSE V[b][e]
  BY DEF WorthIf
<1>1. Valued(s, V, e)
  BY Ins3OK, ValuedBefore DEF Answers
<1>2. CASE a = b
  <2>1. r.ret = a
    BY <1>2 DEF Ins3, Old
  <2> QED
    BY <1>2, <2>1
<1>3. CASE a # b /\ IsImmI(s, c)
  <2>1. V[c][e] = s[c].v
    BY <1>1, <1>3, ImmWorth DEF Opd, IsImmI, Is, IsImm
  <2>2. /\ s[c].v # 0 => r = Old(s, a)
        /\ ~(s[c].v # 0) => r = Old(s, b)
    BY <1>3 DEF Ins3, IsImmI, Is
  <2> QED
    BY <2>1, <2>2 DEF Old
<1>4. CASE /\ a # b /\ ~IsImmI(s, c)
           /\ Is(s, c, "eq", "I") /\ {Arg(s, c, 1), Arg(s, c, 2)} = {a, b}
  <2>1. r.ret = b
    BY <1>4 DEF Ins3, Old
  <2>2. PICK x, y : x = V[Arg(s, c, 1)][e] /\ y = V[Arg(s, c, 2)][e]
    OBVIOUS
  <2>3. V[c][e] = Compute2("eq", "I", x, y)
    BY <1>1, <1>4, <2>2, Worth2, Binaries DEF Opd, Is
  <2>4. V[c][e] # 0 <=> x = y
    BY <2>3, EqualInts
  <2>5. \/ Arg(s, c, 1) = a /\ Arg(s, c, 2) = b
        \/ Arg(s, c, 1) = b /\ Arg(s, c, 2) = a
    BY <1>4
  <2> QED
    BY <2>1, <2>2, <2>4, <2>5
<1>5. CASE /\ a # b /\ ~IsImmI(s, c)
           /\ ~(Is(s, c, "eq", "I") /\ {Arg(s, c, 1), Arg(s, c, 2)} = {a, b})
  <2>1. PICK x : x = Op("cmov", ty, <<c, a, b>>)
    OBVIOUS
  <2>2. x.k = "cmov" /\ x.args[1] = c /\ x.args[2] = a /\ x.args[3] = b
    BY <2>1 DEF Op
  <2>3. r = New(s, x)
    BY <1>5, <2>1 DEF Ins3
  <2>4. r.ret \in DOMAIN r.ins /\ r.ins[r.ret] = x
    BY <2>3, NewIs
  <2> QED
    BY <2>2, <2>4, ValueOf DEF Valued, Arg
<1> QED
  BY <1>2, <1>3, <1>4, <1>5

\* What is left of a condition decides, the other way round or not, as the
\* condition does.
Decides(V, e, c, t) ==
  (V[c][e] # 0) = IF t.odd THEN V[t.c][e] = 0 ELSE V[t.c][e] # 0

\* A comparison stripped of its == 0 decides what it did, or the opposite when
\* the number of == 0 was odd.
LEMMA StrippedExact ==
  ASSUME NEW s, NEW V, NEW e, Valued(s, V, e), NEW c \in DOMAIN s
  PROVE  IsCmp(s, c) => Decides(V, e, c, Stripped(s, c))
<1> DEFINE Right(i) == IsCmp(s, i) => Decides(V, e, i, Stripped(s, i))
           T == {i \in 1 .. Len(s) : ~Right(i)}
<1>1. WellTyped(s) /\ DOMAIN s = 1 .. Len(s) /\ Len(s) \in Nat
  BY DEF Valued, WellTyped
<1>2. ASSUME NEW i \in DOMAIN s, \A j \in 1 .. i - 1 : Right(j), IsCmp(s, i)
       PROVE  Decides(V, e, i, Stripped(s, i))
  <2>1. StripsTo(s, i, Stripped(s, i))
    BY <1>1, StripStep
  <2>2. CASE IsEqToZero(s, i)
    <3>1. PICK j : j = Arg(s, i, 1)
      OBVIOUS
    <3>2. j \in 1 .. i - 1 /\ IsCmp(s, j) /\ Stripped(s, i) = [Stripped(s, j) EXCEPT !.odd = ~@]
      BY <2>1, <2>2, <3>1 DEF StripsTo
    <3>3. j \in DOMAIN s
      BY <1>1, <3>2
    <3>4. PICK x, y : x = Stripped(s, j) /\ y = Stripped(s, i)
      OBVIOUS
    <3>5. x.odd \in BOOLEAN /\ y.c = x.c /\ y.odd = ~x.odd
      <4>1. x \in [c : DOMAIN s, odd : BOOLEAN]
        BY <1>1, <3>2, <3>3, <3>4, StrippedOK
      <4>2. y = [x EXCEPT !.odd = ~@]
        BY <3>2, <3>4
      <4> QED
        BY <4>1, <4>2
    <3>6. Decides(V, e, j, x)
      BY <1>2, <3>2, <3>4
    <3>7. V[i][e] # 0 <=> V[j][e] = 0
      <4>1. /\ s[i].k = "eq" /\ s[i].ty = "I" /\ IsImmI(s, Arg(s, i, 2))
            /\ s[Arg(s, i, 2)].v = 0
        BY <2>2 DEF IsEqToZero, Is
      <4>2. Arg(s, i, 2) \in DOMAIN s
        BY <1>1, <4>1, Args2OK, Kinds, Binaries DEF Opd
      <4>3. V[Arg(s, i, 2)][e] = 0
        BY <4>1, <4>2, ImmWorth DEF IsImmI, Is, IsImm
      <4>4. V[i][e] = Compute2("eq", "I", V[j][e], 0)
        BY <3>1, <4>1, <4>3, Worth2, Binaries
      <4> QED
        BY <4>4, EqualInts
    <3>8. Decides(V, e, i, y)
      BY <3>5, <3>6, <3>7 DEF Decides
    <3> QED
      BY <3>4, <3>8
  <2>3. CASE ~IsEqToZero(s, i)
    <3>1. PICK y : y = [c |-> i, odd |-> FALSE] /\ y = Stripped(s, i)
      BY <2>1, <2>3 DEF StripsTo
    <3>2. y.c = i /\ y.odd = FALSE
      BY <3>1
    <3> QED
      BY <3>1, <3>2 DEF Decides
  <2> QED
    BY <2>2, <2>3
<1>3. \A i \in DOMAIN s : (\A j \in 1 .. i - 1 : Right(j)) => Right(i)
  BY <1>2
<1> HIDE DEF Right
<1>4. T = {}
  <2> SUFFICES ASSUME T # {} PROVE FALSE
    OBVIOUS
  <2>1. T \in SUBSET Nat /\ T # {} /\ T = {i \in 1 .. Len(s) : ~Right(i)}
    BY <1>1
  <2> HIDE DEF T
  <2>2. PICK x \in T : \A y \in T : x <= y
    BY <2>1, NatLeast
  <2>3. x \in 1 .. Len(s) /\ ~Right(x)
    BY <2>1
  <2>4. \A j \in 1 .. x - 1 : j \in 1 .. Len(s) /\ j \notin T
    BY <1>1, <2>2, <2>3
  <2>5. \A j \in 1 .. x - 1 : Right(j)
    BY <2>1, <2>4
  <2> QED
    BY <1>1, <1>3, <2>3, <2>5
<1>5. Right(c)
  BY <1>1, <1>4
<1> QED
  BY <1>5 DEF Right

-----------------------------------------------------------------------------
(* Where answers exit.                                                     *)

LEMMA ExitsBy ==
  ASSUME NEW V, NEW x, NEW e
  PROVE  /\ x.k \in {"x", "j"} => Exits(V, x, e)
         /\ x.k \in {"xt", "jt"} => (Exits(V, x, e) <=> V[x.args[1]][e] # 0)
         /\ x.k \in {"xf", "jf"} => (Exits(V, x, e) <=> V[x.args[1]][e] = 0)
         /\ x.k \in Overflowing =>
              (Exits(V, x, e) <=>
                 ~InWidth(Exact(x.k, V[x.args[1]][e], V[x.args[2]][e]), IntWidth))
         /\ x.k \notin Controls \cup Overflowing => ~Exits(V, x, e)
<1>1. x.k \in {"x", "j"} => Exits(V, x, e)
  BY DEF Exits
<1>2. x.k \in {"xt", "jt"} => (Exits(V, x, e) <=> V[x.args[1]][e] # 0)
  BY DEF Exits
<1>3. x.k \in {"xf", "jf"} => (Exits(V, x, e) <=> V[x.args[1]][e] = 0)
  BY DEF Exits
<1>4. x.k \in Overflowing =>
        (Exits(V, x, e) <=>
           ~InWidth(Exact(x.k, V[x.args[1]][e], V[x.args[2]][e]), IntWidth))
  BY DEF Exits, Overflowing
<1>5. x.k \notin Controls \cup Overflowing => ~Exits(V, x, e)
  BY DEF Exits, Overflowing, Controls
<1> QED
  BY <1>1, <1>2, <1>3, <1>4, <1>5

\* If the answer to what is asked of s is q, it exits or jumps just if b.
ExitsIf(r, q, s, V, e, b) ==
  r = q => (b <=> r.ret > Len(s) /\ Exits(V, r.ins[r.ret], e))

\* Guards and branches.
LEMMA ConditionalExact ==
  ASSUME NEW s, WellTyped(s), NEW k \in {"xt", "xf", "jt", "jf"}, NEW always \in {"x", "j"},
         NEW c \in DOMAIN s, IsCmp(s, c) \/ IsImmI(s, c),
         NEW V, NEW e, NEW r, Valued(r.ins, V, e)
  PROVE  ExitsIf(r, Conditional(s, k, always, c), s, V, e, Exits(V, Op(k, "V", <<c>>), e))
<1> SUFFICES ASSUME r = Conditional(s, k, always, c)
             PROVE  Exits(V, Op(k, "V", <<c>>), e) <=>
                      r.ret > Len(s) /\ Exits(V, r.ins[r.ret], e)
  BY DEF ExitsIf
<1>1. Valued(s, V, e)
  BY ConditionalOK, ValuedBefore
<1>2. Len(s) \in Nat /\ Len(s) + 1 > Len(s) /\ ~(0 > Len(s))
  BY DEF WellTyped
<1>3. PICK w : w = Op(k, "V", <<c>>)
  OBVIOUS
<1>4. w.k = k /\ w.args[1] = c
  BY <1>3 DEF Op
<1>5. /\ OnTrue(k) => (Exits(V, w, e) <=> V[c][e] # 0)
      /\ ~OnTrue(k) => (Exits(V, w, e) <=> V[c][e] = 0)
  BY <1>4, ExitsBy DEF OnTrue
<1>6. \A x : r = New(s, x) => r.ret > Len(s) /\ r.ins[r.ret] = x
  BY <1>2, NewIs DEF New
<1>7. CASE IsImmI(s, c)
  <2>1. V[c][e] = s[c].v
    BY <1>1, <1>7, ImmWorth DEF IsImmI, Is, IsImm
  <2>2. CASE OnTrue(k) = (s[c].v = 0)
    <3>1. r.ret = 0
      BY <1>7, <2>2 DEF Conditional, Old
    <3>2. OnTrue(k) <=> s[c].v = 0
      BY <2>2
    <3> QED
      BY <1>2, <1>3, <1>5, <2>1, <3>1, <3>2
  <2>3. CASE ~(OnTrue(k) = (s[c].v = 0))
    <3>1. PICK x : x = Op(always, "V", <<>>)
      OBVIOUS
    <3>2. r = New(s, x) /\ x.k = always
      BY <1>7, <2>3, <3>1 DEF Conditional, Op
    <3>3. OnTrue(k) \in BOOLEAN
      BY DEF OnTrue
    <3>4. Exits(V, x, e)
      BY <3>2, ExitsBy
    <3> QED
      BY <1>3, <1>5, <1>6, <2>1, <2>3, <3>2, <3>3, <3>4
  <2> QED
    BY <2>2, <2>3
<1>8. CASE ~IsImmI(s, c)
  <2>1. PICK t : t = Stripped(s, c)
    OBVIOUS
  <2>2. Decides(V, e, c, t) /\ t.odd \in BOOLEAN
    BY <1>1, <1>8, <2>1, StrippedExact, StrippedOK
  <2>3. PICK j : j = IF t.odd THEN InvertCond[k] ELSE k
    OBVIOUS
  <2>4. PICK x : x = Op(j, "V", <<t.c>>)
    OBVIOUS
  <2>5. x.k = j /\ x.args[1] = t.c
    BY <2>4 DEF Op
  <2>6. r = New(s, x)
    BY <1>8, <2>1, <2>3, <2>4 DEF Conditional
  <2>7. /\ t.odd = FALSE => j = k
        /\ t.odd = TRUE => j = InvertCond[k]
    BY <2>3
  <2>8. PICK i : i = InvertCond[k] /\ i \in {"xt", "xf", "jt", "jf"} /\ (OnTrue(i) <=> ~OnTrue(k))
    BY DEF InvertCond, OnTrue
  <2>9. /\ OnTrue(j) => (Exits(V, x, e) <=> V[t.c][e] # 0)
        /\ ~OnTrue(j) => (Exits(V, x, e) <=> V[t.c][e] = 0)
    BY <2>2, <2>5, <2>7, <2>8, ExitsBy DEF OnTrue
  <2>10. Exits(V, w, e) <=> Exits(V, x, e)
    <3>1. CASE t.odd = FALSE
      BY <1>5, <2>2, <2>7, <2>9, <3>1 DEF Decides
    <3>2. CASE t.odd = TRUE
      BY <1>5, <2>2, <2>7, <2>8, <2>9, <3>2 DEF Decides
    <3> QED
      BY <2>2, <3>1, <3>2
  <2> QED
    BY <1>3, <1>6, <2>6, <2>10
<1> QED
  BY <1>7, <1>8

\* Exact sums, differences and products.
LEMMA ExactRules ==
  ASSUME NEW k \in Overflowing, NEW x \in Int, NEW y \in Int
  PROVE  /\ Exact(k, x, y) \in Int
         /\ k # "subx" => Exact(k, x, y) = Exact(k, y, x)
         /\ k # "mulx" => Exact(k, x, 0) = x
         /\ k = "mulx" => Exact(k, x, 0) = 0 /\ Exact(k, x, 1) = x
<1>1. /\ Exact("addx", x, y) = x + y /\ Exact("subx", x, y) = x - y
      /\ Exact("mulx", x, y) = x * y /\ Exact("addx", y, x) = y + x
      /\ Exact("mulx", y, x) = y * x
      /\ Exact("addx", x, 0) = x + 0 /\ Exact("subx", x, 0) = x - 0
      /\ Exact("mulx", x, 0) = x * 0 /\ Exact("mulx", x, 1) = x * 1
  BY DEF Exact
<1>2. /\ x + y \in Int /\ x - y \in Int /\ x * y \in Int /\ x + y = y + x /\ x * y = y * x
      /\ x + 0 = x /\ x - 0 = x /\ x * 0 = 0 /\ x * 1 = x
  OBVIOUS
<1> QED
  BY <1>1, <1>2 DEF Overflowing

\* Arithmetic that exits or jumps on overflow.
LEMMA OverflowExact ==
  ASSUME NEW s, WellTyped(s), NEW k \in Overflowing, NEW a, Opd(s, a, "I"), NEW b, Opd(s, b, "I"),
         NEW V, NEW e, NEW r, Valued(r.ins, V, e)
  PROVE  LET n == Exact(k, V[a][e], V[b][e])
             q == SimplifyOverflowArith(s, k, a, b)
         IN  /\ WorthIf(r, q, V, e, Wrap(n, IntWidth))
             /\ ExitsIf(r, q, s, V, e, ~InWidth(n, IntWidth))
<1>1. ConstantExact(s, V, e, r)
  BY ImmAnswer
<1> SUFFICES ASSUME r = SimplifyOverflowArith(s, k, a, b)
             PROVE  LET n == Exact(k, V[a][e], V[b][e])
                    IN  /\ V[r.ret][e] = Wrap(n, IntWidth)
                        /\ ~InWidth(n, IntWidth) <=>
                             r.ret > Len(s) /\ Exits(V, r.ins[r.ret], e)
  BY DEF WorthIf, ExitsIf
<1>2. Valued(s, V, e)
  BY OverflowOK, ValuedBefore DEF Answers, Overflowing
<1>3. /\ DOMAIN s = 1 .. Len(s) /\ Len(s) \in Nat /\ a \in DOMAIN s /\ b \in DOMAIN s
      /\ ~(a > Len(s)) /\ ~(b > Len(s))
  BY SMTT(30) DEF WellTyped, Opd
<1>4. PICK x \in Values("I"), y \in Values("I") : x = V[a][e] /\ y = V[b][e]
  BY <1>2, OpdValue
<1>5. /\ x \in Int /\ y \in Int /\ Values("I") = MinOf(IntWidth) .. MaxOf(IntWidth)
      /\ IntWidth \in Nat \ {0} /\ 0 \in Values("I")
  BY WidthTypes
<1>6. PICK n \in Int : n = Exact(k, x, y)
  BY <1>5, ExactRules
<1>7. \A i \in Values("I") : InWidth(i, IntWidth)
  BY <1>5, WidthOK DEF InWidth
<1>8. \A i \in Int : InWidth(i, IntWidth) => Wrap(i, IntWidth) = i
  BY <1>5, WrapOK
<1>9. /\ IsImmI(s, a) => x = s[a].v
      /\ IsImmI(s, b) => y = s[b].v
  BY <1>2, <1>3, <1>4, ImmWorth DEF IsImmI, Is, IsImm
<1> DEFINE fits == /\ IsImmI(s, a) /\ IsImmI(s, b)
                   /\ InWidth(Exact(k, s[a].v, s[b].v), IntWidth)
           swap == IsImmI(s, a) /\ ~IsImmI(s, b) /\ k # "subx"
<1>10. ASSUME NEW i \in {a, b}, r = Old(s, i), V[i][e] = n
       PROVE  V[r.ret][e] = Wrap(n, IntWidth) /\ InWidth(n, IntWidth) /\ ~(r.ret > Len(s))
  <2>1. n \in Values("I")
    BY <1>4, <1>10
  <2>2. r.ret = i
    BY <1>10 DEF Old
  <2> QED
    BY <1>3, <1>7, <1>8, <1>10, <2>1, <2>2
<1>11. CASE fits
  <2>1. PICK v : v = Exact(k, s[a].v, s[b].v)
    OBVIOUS
  <2>2. v = n /\ InWidth(n, IntWidth)
    BY <1>6, <1>9, <1>11, <2>1
  <2>3. r = InsImm(s, v, "I")
    BY <1>11, <2>1 DEF SimplifyOverflowArith
  <2>4. V[r.ret][e] = v
    BY <1>1, <2>3 DEF ConstantExact
  <2>5. ~Exits(V, r.ins[r.ret], e)
    <3>1. r.ins[r.ret] = Imm(v, "I")
      BY <2>3, NewIs DEF InsImm
    <3>2. Imm(v, "I").k = "imm" /\ "imm" \notin Controls \cup Overflowing
      BY DEF Imm, Controls, Overflowing
    <3> QED
      BY <3>1, <3>2, ExitsBy
  <2> QED
    BY <1>4, <1>6, <1>8, <2>2, <2>4, <2>5
<1>12. CASE ~fits
  <2>1. PICK l, q : l = (IF swap THEN b ELSE a) /\ q = (IF swap THEN a ELSE b)
    OBVIOUS
  <2>2. PICK u \in Values("I"), v \in Values("I") : u = V[l][e] /\ v = V[q][e]
    BY <1>4, <2>1
  <2>3. u \in Int /\ v \in Int /\ n = Exact(k, u, v)
    <3>1. CASE swap
      BY <1>4, <1>5, <1>6, <2>1, <2>2, <3>1, ExactRules
    <3>2. CASE ~swap
      BY <1>4, <1>5, <1>6, <2>1, <2>2, <3>2
    <3> QED
      BY <3>1, <3>2
  <2>4. l \in {a, b} /\ q \in {a, b} /\ (IsImmI(s, q) => v = s[q].v)
    BY <1>4, <1>9, <2>1, <2>2
  <2>5. \/ IsImmI(s, q) /\ s[q].v = 0 /\ k # "mulx" /\ r = Old(s, l)
        \/ IsImmI(s, q) /\ s[q].v = 0 /\ k = "mulx" /\ r = Old(s, q)
        \/ IsImmI(s, q) /\ s[q].v = 1 /\ k = "mulx" /\ r = Old(s, l)
        \/ r = New(s, Op(k, "I", <<l, q>>))
    BY <1>12, <2>1 DEF SimplifyOverflowArith
  <2>6. CASE IsImmI(s, q) /\ s[q].v = 0 /\ k # "mulx" /\ r = Old(s, l)
    <3>1. u = n
      BY <2>3, <2>4, <2>6, ExactRules
    <3> QED
      BY <1>4, <1>6, <1>10, <2>2, <2>4, <2>6, <3>1
  <2>7. CASE IsImmI(s, q) /\ s[q].v = 0 /\ k = "mulx" /\ r = Old(s, q)
    <3>1. v = n
      BY <2>3, <2>4, <2>7, ExactRules
    <3> QED
      BY <1>4, <1>6, <1>10, <2>2, <2>4, <2>7, <3>1
  <2>8. CASE IsImmI(s, q) /\ s[q].v = 1 /\ k = "mulx" /\ r = Old(s, l)
    <3>1. u = n
      BY <2>3, <2>4, <2>8, ExactRules
    <3> QED
      BY <1>4, <1>6, <1>10, <2>2, <2>4, <2>8, <3>1
  <2>9. CASE r = New(s, Op(k, "I", <<l, q>>))
    <3>1. PICK w : w = Op(k, "I", <<l, q>>)
      OBVIOUS
    <3>2. w.k = k /\ w.args[1] = l /\ w.args[2] = q
      BY <3>1 DEF Op
    <3>3. r = New(s, w) /\ r.ret \in DOMAIN r.ins /\ r.ins[r.ret] = w /\ r.ret > Len(s)
      <4>1. r = New(s, w)
        BY <2>9, <3>1
      <4>2. Len(s) + 1 > Len(s)
        BY <1>3
      <4> QED
        BY <4>1, <4>2, NewIs DEF New
    <3>4. V[r.ret][e] = Wrap(n, IntWidth)
      BY <2>2, <2>3, <3>2, <3>3, ValueOf, SMTT(30) DEF Valued, Arg
    <3>5. Exits(V, w, e) <=> ~InWidth(n, IntWidth)
      BY <2>2, <2>3, <3>2, ExitsBy
    <3> QED
      BY <1>4, <1>6, <3>3, <3>4, <3>5
  <2> QED
    BY <2>5, <2>6, <2>7, <2>8, <2>9
<1> QED
  BY <1>11, <1>12

\* Loads.
LEMMA InsLoadExact ==
  ASSUME NEW s, WellTyped(s), NEW base, Opd(s, base, "Q"), NEW d \in Int,
         NEW V, NEW e, NEW r, Valued(r.ins, V, e)
  PROVE  WorthIf(r, InsLoad(s, base, d), V, e, Wrap(V[base][e] + d, QuadWidth))
<1> SUFFICES ASSUME r = InsLoad(s, base, d)
             PROVE  V[r.ret][e] = Wrap(V[base][e] + d, QuadWidth)
  BY DEF WorthIf
<1>1. Answers(s, r, "Q")
  BY InsLoadOK
<1>2. Valued(s, V, e)
  BY <1>1, ValuedBefore DEF Answers
<1>3. ASSUME NEW t, WellTyped(t), NEW i, NEW c, r = New(t, Ld(i, c))
      PROVE  V[r.ret][e] = Wrap(V[i][e] + c, QuadWidth)
  <2>1. PICK w : w = Ld(i, c)
    OBVIOUS
  <2>2. w.k = "ld" /\ w.args[1] = i /\ w.v = c
    BY <2>1 DEF Ld
  <2>3. r.ret \in DOMAIN r.ins /\ r.ins[r.ret] = w
    BY <1>3, <2>1, NewIs
  <2> QED
    BY <2>2, <2>3, ValueOf DEF Valued, Arg
<1>4. CASE ~(Is(s, base, "imm", "Q") /\ d \notin SmallOffsets)
  BY <1>3, <1>4 DEF InsLoad
<1>5. CASE Is(s, base, "imm", "Q") /\ d \notin SmallOffsets
  <2>1. PICK u \in Int : u = s[base].v /\ u = V[base][e]
    <3>1. V[base][e] = s[base].v
      BY <1>2, <1>5, ImmWorth DEF Opd, Is, IsImm
    <3>2. V[base][e] \in Int
      BY <1>2, OpdValue, WidthTypes
    <3> QED
      BY <3>1, <3>2
  <2>2. PICK v \in Values("Q") : v = Wrap(u + d, QuadWidth)
    <3>1. u + d \in Int
      OBVIOUS
    <3> QED
      BY <3>1, WrapTyped, WidthTypes
  <2>3. PICK q : q = InsImm(s, v, "Q")
    OBVIOUS
  <2>4. Answers(s, q, "Q")
    BY <2>3, ImmOK
  <2>5. r = New(q.ins, Ld(q.ret, 0))
    BY <1>5, <2>1, <2>2, <2>3 DEF InsLoad
  <2>6. V[r.ret][e] = Wrap(V[q.ret][e] + 0, QuadWidth)
    BY <1>3, <2>4, <2>5 DEF Answers
  <2>7. V[q.ret][e] = v
    <3>1. Extends(r.ins, q.ins) /\ WellTyped(q.ins)
      <4>1. Ld(q.ret, 0).k # "param"
        BY DEF Ld
      <4> QED
        BY <2>4, <2>5, <4>1, NewExtends DEF Answers
    <3>2. Valued(q.ins, V, e)
      BY <3>1, ValuedBefore
    <3> QED
      BY <2>3, <3>2, ImmExact
  <2>8. Wrap(v + 0, QuadWidth) = v
    <3>1. v \in Int /\ v + 0 = v /\ InWidth(v, QuadWidth)
      BY WidthTypes, WidthOK, SMTT(30) DEF InWidth
    <3> QED
      BY <3>1, WidthTypes, WrapOK
  <2> QED
    BY <2>1, <2>2, <2>6, <2>7, <2>8
<1> QED
  BY <1>4, <1>5

\* Comparing with zero.
LEMMA InsEqI0Exact ==
  ASSUME NEW s, WellTyped(s), NEW c, Opd(s, c, "I"), NEW V, NEW e, NEW r, Valued(r.ins, V, e)
  PROVE  WorthIf(r, InsEqI0(s, c), V, e, IF V[c][e] = 0 THEN 1 ELSE 0)
<1>1. PICK z : z = InsImm(s, 0, "I")
  OBVIOUS
<1>2. Answers(s, z, "I")
  BY <1>1, ImmOK, WidthTypes
<1>3. /\ Formals("eq", "I") = <<"I", "I">> /\ RetType("eq", "I") = "I"
      /\ "eq" \in Binary /\ IsOperator("eq", "I")
  BY Kinds, Binaries, Operators
<1>4. WellTyped(z.ins) /\ Opd(z.ins, c, "I") /\ Opd(z.ins, z.ret, "I")
  BY <1>2, OpdStays DEF Answers, Opd
<1>5. /\ Opd(z.ins, c, Formals("eq", "I")[1]) /\ Opd(z.ins, z.ret, Formals("eq", "I")[2])
  BY <1>3, <1>4
<1>6. PICK q : q = Ins2(z.ins, "eq", "I", c, z.ret)
  OBVIOUS
<1>7. Answers(z.ins, q, "I")
  BY <1>3, <1>4, <1>5, <1>6, Ins2OK
<1>8. PICK j : j = z.ret
  OBVIOUS
<1>9. WorthIf(r, Ins2(z.ins, "eq", "I", c, j), V, e, Compute2("eq", "I", V[c][e], V[j][e]))
  BY <1>3, <1>4, <1>5, <1>8, Ins2Exact
<1> SUFFICES ASSUME r = InsEqI0(s, c)
             PROVE  V[r.ret][e] = IF V[c][e] = 0 THEN 1 ELSE 0
  BY DEF WorthIf
<1>10. r = q
  BY <1>1, <1>6 DEF InsEqI0
<1>11. V[j][e] = 0
  <2>1. Valued(z.ins, V, e)
    BY <1>4, <1>7, <1>10, ValuedBefore DEF Answers
  <2> QED
    BY <1>1, <1>8, <2>1, ImmExact
<1>12. V[r.ret][e] = Compute2("eq", "I", V[c][e], 0)
  BY <1>6, <1>8, <1>9, <1>10, <1>11 DEF WorthIf
<1> QED
  BY <1>12, EqualInts

\* The same for what was written before.
LEMMA ValuedAnswers ==
  ASSUME NEW s, WellTyped(s), NEW q, NEW ty, Answers(s, q, ty), NEW V, NEW e, Valued(q.ins, V, e)
  PROVE  Valued(s, V, e)
BY ValuedBefore DEF Answers

\* Masks: of a truth value b, the choice between x and y.
LEMMA MasksChoose ==
  ASSUME NEW b \in {0, 1}, NEW x \in Values("I"), NEW y \in Values("I")
  PROVE  Compute2("or", "I", Compute2("and", "I", x, Compute1("neg", "I", b)),
                             Compute2("and", "I", y, Compute1("not", "I", Compute1("neg", "I", b))))
           = IF b = 1 THEN x ELSE y
<1>1. Compute1("neg", "I", b) = -b
  <2>1. -b \in Int /\ InWidth(-b, IntWidth)
    <3>1. MinOf(IntWidth) <= -1 /\ 0 <= MaxOf(IntWidth) /\ MinOf(IntWidth) \in Int
          /\ MaxOf(IntWidth) \in Int
      BY WidthTypes, WidthOK
    <3> QED
      BY <3>1 DEF InWidth
  <2> QED
    BY <2>1, WidthTypes, WrapOK DEF Compute1
<1>2. Compute1("not", "I", -b) = b - 1
  BY DEF Compute1
<1>3. 0 \in Values("I") /\ -1 \in Int
  BY WidthTypes
<1>4. CASE b = 0
  <2>1. Compute2("and", "I", x, 0) = 0 /\ Compute2("and", "I", y, -1) = y
    BY BitRules
  <2>2. Compute2("or", "I", 0, y) = Compute2("or", "I", y, 0) /\ Compute2("or", "I", y, 0) = y
    <3>1. "or" \in Commutes /\ IsOperator("or", "I")
      BY Operators DEF Commutes
    <3> QED
      BY <1>3, <3>1, BitRules, Commute
  <2>3. -b = 0 /\ b - 1 = -1
    <3>1. \A n \in Int : -n \in Int /\ (n = 0 <=> -n = 0)
      OBVIOUS
    <3>2. b - 1 = -1 /\ b \in Int
      BY <1>4
    <3> QED
      BY <1>4, <3>1, <3>2
  <2> QED
    BY <1>1, <1>2, <1>4, <2>1, <2>2, <2>3
<1>5. CASE b = 1
  <2>1. Compute2("and", "I", x, -1) = x /\ Compute2("and", "I", y, 0) = 0
    BY BitRules
  <2>2. Compute2("or", "I", x, 0) = x
    BY BitRules
  <2>3. -b = -1 /\ b - 1 = 0
    BY <1>5
  <2> QED
    BY <1>1, <1>2, <1>5, <2>1, <2>2, <2>3
<1> QED
  BY <1>4, <1>5

\* Operators on ints, one or two operands.
LEMMA IntOpExact ==
  ASSUME NEW s, WellTyped(s), NEW a, Opd(s, a, "I"), NEW V, NEW e, NEW r, Valued(r.ins, V, e)
  PROVE  /\ \A k \in {"neg", "not"} :
              WorthIf(r, Ins1(s, k, "I", a), V, e, Compute1(k, "I", V[a][e]))
         /\ \A k \in {"and", "or"} : \A b :
              Opd(s, b, "I") =>
                WorthIf(r, Ins2(s, k, "I", a, b), V, e, Compute2(k, "I", V[a][e], V[b][e]))
<1>1. ASSUME NEW k \in {"neg", "not"}
      PROVE  WorthIf(r, Ins1(s, k, "I", a), V, e, Compute1(k, "I", V[a][e]))
  <2>1. /\ Formals(k, "I") = <<"I">> /\ RetType(k, "I") = "I" /\ k \in Unary
        /\ IsOperator(k, "I")
    BY Kinds, Operators DEF Unary
  <2>2. Opd(s, a, Formals(k, "I")[1])
    BY <2>1
  <2>3. r = Ins1(s, k, "I", a) => Same(RetType(k, "I"), V[r.ret][e], Compute1(k, "I", V[a][e]))
    BY <2>1, <2>2, Ins1Exact
  <2> QED
    BY <2>1, <2>3 DEF WorthIf, Same
<1>2. ASSUME NEW k \in {"and", "or"}, NEW b, Opd(s, b, "I")
      PROVE  WorthIf(r, Ins2(s, k, "I", a, b), V, e, Compute2(k, "I", V[a][e], V[b][e]))
  <2>1. /\ Formals(k, "I") = <<"I", "I">> /\ RetType(k, "I") = "I" /\ k \in Binary
        /\ IsOperator(k, "I")
    BY Kinds, Binaries, Operators DEF Arithmetic2
  <2>2. Opd(s, a, Formals(k, "I")[1]) /\ Opd(s, b, Formals(k, "I")[2])
    BY <1>2, <2>1
  <2> QED
    BY <2>1, <2>2, Ins2Exact
<1> QED
  BY <1>1, <1>2

\* The value of the condition insChoose uses.
LEMMA ChooseCond ==
  ASSUME NEW s, WellTyped(s), NEW c, Opd(s, c, "I"), NEW t, NEW f,
         NEW q, NEW p, NEW n, NEW x, NEW m, NEW y, ChoosesBy(s, c, t, f, q, p, n, x, m, y),
         NEW V, NEW e, Valued(p.ins, V, e)
  PROVE  /\ V[p.ret][e] \in {0, 1}
         /\ IF V[p.ret][e] # 0 THEN V[q.t][e] = IF V[c][e] # 0 THEN V[t][e] ELSE V[f][e]
                               ELSE V[q.f][e] = IF V[c][e] # 0 THEN V[t][e] ELSE V[f][e]
<1>1. \/ IsCmp(s, c) /\ p = Old(s, c) /\ q.t = t /\ q.f = f
      \/ ~IsCmp(s, c) /\ p = InsEqI0(s, c) /\ q.t = f /\ q.f = t
  BY DEF ChoosesBy
<1>2. CASE IsCmp(s, c) /\ p = Old(s, c) /\ q.t = t /\ q.f = f
  <2>1. p.ret = c /\ p.ins = s
    BY <1>2 DEF Old
  <2>2. V[c][e] \in {0, 1}
    BY <1>2, <2>1, CmpValue DEF Opd
  <2> QED
    BY <1>2, <2>1, <2>2
<1>3. CASE ~IsCmp(s, c) /\ p = InsEqI0(s, c) /\ q.t = f /\ q.f = t
  <2>1. WorthIf(p, InsEqI0(s, c), V, e, IF V[c][e] = 0 THEN 1 ELSE 0)
    BY InsEqI0Exact
  <2>2. V[p.ret][e] = IF V[c][e] = 0 THEN 1 ELSE 0
    BY <1>3, <2>1 DEF WorthIf
  <2> QED
    BY <1>3, <2>2
<1> QED
  BY <1>1, <1>2, <1>3, SMTT(30)

\* A choice, with a conditional move or with masks.
Choice(V, e, c, t, f) == IF V[c][e] # 0 THEN V[t][e] ELSE V[f][e]

\* insChoose, with a conditional move and with masks, answers what the choice is worth.
LEMMA InsChooseExact ==
  ASSUME NEW s, WellTyped(s), NEW c, Opd(s, c, "I"), IsCmp(s, c) \/ IsImmI(s, c),
         NEW t, Opd(s, t, "I"), NEW f, Opd(s, f, "I"), NEW useCmov \in BOOLEAN,
         NEW V, NEW e, NEW r, Valued(r.ins, V, e)
  PROVE  WorthIf(r, InsChoose(s, c, t, f, useCmov), V, e, Choice(V, e, c, t, f))
<1> DEFINE want == IF V[c][e] # 0 THEN V[t][e] ELSE V[f][e]
<1>1. PICK q, p, n, x, m, y :
        /\ ChoosesBy(s, c, t, f, q, p, n, x, m, y)
        /\ InsChoose(s, c, t, f, useCmov) =
             IF useCmov THEN Ins3(p.ins, "I", p.ret, q.t, q.f)
                        ELSE Ins2(y.ins, "or", "I", x.ret, y.ret)
  BY ChooseSteps, SMTT(30)
<1>2. /\ Answers(s, p, "I") /\ Answers(p.ins, n, "I") /\ Answers(n.ins, x, "I")
      /\ Answers(x.ins, m, "I") /\ Answers(m.ins, y, "I")
      /\ Opd(p.ins, p.ret, "I") /\ Opd(p.ins, q.t, "I") /\ Opd(p.ins, q.f, "I")
      /\ Opd(n.ins, n.ret, "I") /\ Opd(n.ins, q.t, "I") /\ Opd(x.ins, n.ret, "I")
      /\ Opd(m.ins, m.ret, "I") /\ Opd(m.ins, q.f, "I")
      /\ Opd(y.ins, x.ret, "I") /\ Opd(y.ins, y.ret, "I")
      /\ IsCmp(p.ins, p.ret) \/ IsImmI(p.ins, p.ret)
  BY <1>1 DEF ChoosesBy
<1>3. /\ WellTyped(p.ins) /\ WellTyped(n.ins)
      /\ WellTyped(x.ins) /\ WellTyped(m.ins) /\ WellTyped(y.ins)
  BY <1>2 DEF Answers
<1> SUFFICES ASSUME r = InsChoose(s, c, t, f, useCmov)
             PROVE  V[r.ret][e] = want
  BY DEF WorthIf, Choice
<1>4. CASE useCmov
  <2>1. r = Ins3(p.ins, "I", p.ret, q.t, q.f)
    BY <1>1, <1>4
  <2>2. Answers(p.ins, r, "I")
    BY <1>2, <1>3, <2>1, Ins3OK
  <2>3. Valued(p.ins, V, e)
    BY <1>3, <2>2, ValuedAnswers
  <2>4. PICK i, j, k : i = p.ret /\ j = q.t /\ k = q.f
    OBVIOUS
  <2>5. WorthIf(r, Ins3(p.ins, "I", i, j, k), V, e, IF V[i][e] # 0 THEN V[j][e] ELSE V[k][e])
    <3>1. /\ Opd(p.ins, i, "I") /\ Opd(p.ins, j, "I") /\ Opd(p.ins, k, "I")
          /\ IsCmp(p.ins, i) \/ IsImmI(p.ins, i)
      BY <1>2, <2>4
    <3> QED
      BY <1>3, <3>1, Ins3Exact
  <2>6. V[r.ret][e] = IF V[i][e] # 0 THEN V[j][e] ELSE V[k][e]
    BY <2>1, <2>4, <2>5 DEF WorthIf
  <2>7. IF V[i][e] # 0 THEN V[j][e] = want ELSE V[k][e] = want
    BY <1>1, <2>3, <2>4, ChooseCond
  <2> QED
    BY <2>6, <2>7
<1>5. CASE ~useCmov
  <2>1. r = Ins2(y.ins, "or", "I", x.ret, y.ret)
    BY <1>1, <1>5
  <2>2. PICK i, j, k : i = n.ret /\ j = x.ret /\ k = y.ret
    OBVIOUS
  <2>3. PICK g, h, l : g = q.t /\ h = q.f /\ l = m.ret
    OBVIOUS
  <2>4. Answers(y.ins, r, "I")
    <3>1. Answers(y.ins, y, "I")
      BY <1>2, <1>3 DEF Answers, Extends, Opd
    <3> QED
      BY <1>2, <2>1, <3>1, IntOpOK
  <2>5. Valued(y.ins, V, e)
    BY <1>3, <2>4, ValuedAnswers
  <2>6. Valued(m.ins, V, e)
    BY <1>2, <1>3, <2>5, ValuedAnswers
  <2>7. Valued(x.ins, V, e)
    BY <1>2, <1>3, <2>6, ValuedAnswers
  <2>8. Valued(n.ins, V, e)
    BY <1>2, <1>3, <2>7, ValuedAnswers
  <2>9. Valued(p.ins, V, e)
    BY <1>2, <1>3, <2>8, ValuedAnswers
  <2>10. /\ V[p.ret][e] \in {0, 1}
         /\ IF V[p.ret][e] # 0 THEN V[g][e] = want ELSE V[h][e] = want
    BY <1>1, <2>3, <2>9, ChooseCond
  <2>11. PICK o, b : o = p.ret /\ b = V[o][e] /\ b \in {0, 1}
    BY <2>10
  <2>12. V[g][e] \in Values("I") /\ V[h][e] \in Values("I")
    BY <1>2, <2>3, <2>9, OpdValue
  <2>13. V[i][e] = Compute1("neg", "I", b)
    <3>1. WorthIf(n, Ins1(p.ins, "neg", "I", o), V, e, Compute1("neg", "I", V[o][e]))
      BY <1>2, <1>3, <2>8, <2>11, IntOpExact
    <3>2. n = Ins1(p.ins, "neg", "I", o)
      BY <1>1, <2>11 DEF ChoosesBy
    <3> QED
      BY <2>2, <2>11, <3>1, <3>2 DEF WorthIf
  <2>14. V[j][e] = Compute2("and", "I", V[g][e], V[i][e])
    <3>1. WorthIf(x, Ins2(n.ins, "and", "I", g, i), V, e, Compute2("and", "I", V[g][e], V[i][e]))
      BY <1>2, <1>3, <2>2, <2>3, <2>7, IntOpExact, SMTT(30)
    <3>2. x = Ins2(n.ins, "and", "I", g, i)
      BY <1>1, <2>2, <2>3 DEF ChoosesBy
    <3> QED
      BY <2>2, <3>1, <3>2 DEF WorthIf
  <2>15. V[l][e] = Compute1("not", "I", V[i][e])
    <3>1. WorthIf(m, Ins1(x.ins, "not", "I", i), V, e, Compute1("not", "I", V[i][e]))
      BY <1>2, <1>3, <2>2, <2>6, IntOpExact
    <3>2. m = Ins1(x.ins, "not", "I", i)
      BY <1>1, <2>2 DEF ChoosesBy
    <3> QED
      BY <2>3, <3>1, <3>2 DEF WorthIf
  <2>16. V[k][e] = Compute2("and", "I", V[h][e], V[l][e])
    <3>1. WorthIf(y, Ins2(m.ins, "and", "I", h, l), V, e, Compute2("and", "I", V[h][e], V[l][e]))
      BY <1>2, <1>3, <2>3, <2>5, IntOpExact
    <3>2. y = Ins2(m.ins, "and", "I", h, l)
      BY <1>1, <2>3 DEF ChoosesBy
    <3> QED
      BY <2>2, <3>1, <3>2 DEF WorthIf
  <2>17. V[r.ret][e] = Compute2("or", "I", V[j][e], V[k][e])
    <3>1. WorthIf(r, Ins2(y.ins, "or", "I", j, k), V, e, Compute2("or", "I", V[j][e], V[k][e]))
      BY <1>2, <1>3, <2>2, IntOpExact
    <3> QED
      BY <2>1, <2>2, <3>1 DEF WorthIf
  <2>18. V[r.ret][e] = IF b = 1 THEN V[g][e] ELSE V[h][e]
    <3>1. PICK u \in Values("I"), v \in Values("I") : u = V[g][e] /\ v = V[h][e]
      BY <2>12
    <3>2. V[r.ret][e] =
            Compute2("or", "I", Compute2("and", "I", u, Compute1("neg", "I", b)),
                     Compute2("and", "I", v, Compute1("not", "I", Compute1("neg", "I", b))))
      BY <2>13, <2>14, <2>15, <2>16, <2>17, <3>1
    <3> QED
      BY <2>11, <3>1, <3>2, MasksChoose
  <2> QED
    BY <2>10, <2>11, <2>18
<1> QED
  BY <1>4, <1>5

\* Operators on ints write nothing that exits.
LEMMA IntOpCalm ==
  ASSUME NEW s, WellTyped(s), NEW a, Opd(s, a, "I")
  PROVE  /\ \A k \in {"neg", "not"} : Calm(Ins1(s, k, "I", a).ins, s)
         /\ \A k \in {"and", "or", "eq"} : \A b :
              Opd(s, b, "I") => Calm(Ins2(s, k, "I", a, b).ins, s)
<1>1. \A k \in {"neg", "not"} : Calm(Ins1(s, k, "I", a).ins, s)
  <2>1. {"neg", "not"} \subseteq Unary
    BY DEF Unary
  <2> QED
    BY <2>1, Ins1Calm
<1>2. ASSUME NEW k \in {"and", "or", "eq"}, NEW b, Opd(s, b, "I")
      PROVE  Calm(Ins2(s, k, "I", a, b).ins, s)
  <2>1. /\ Formals(k, "I") = <<"I", "I">> /\ k \in Binary /\ IsOperator(k, "I")
    BY Kinds, Binaries, Operators DEF Arithmetic2
  <2>2. Opd(s, a, Formals(k, "I")[1]) /\ Opd(s, b, Formals(k, "I")[2])
    BY <1>2, <2>1
  <2> QED
    BY <2>1, <2>2, Ins2Calm
<1> QED
  BY <1>1, <1>2

\* insEqI_0 writes nothing that exits.
LEMMA InsEqI0Calm ==
  ASSUME NEW s, WellTyped(s), NEW c, Opd(s, c, "I")
  PROVE  Calm(InsEqI0(s, c).ins, s)
<1>1. PICK z : z = InsImm(s, 0, "I")
  OBVIOUS
<1>2. Answers(s, z, "I")
  BY <1>1, ImmOK, WidthTypes
<1>3. WellTyped(z.ins) /\ Opd(z.ins, c, "I") /\ Opd(z.ins, z.ret, "I")
  BY <1>2, OpdStays DEF Answers, Opd
<1>4. PICK q : q = Ins2(z.ins, "eq", "I", c, z.ret)
  OBVIOUS
<1>5. Calm(q.ins, z.ins)
  BY <1>3, <1>4, IntOpCalm
<1>6. Extends(q.ins, z.ins)
  <2>1. /\ Formals("eq", "I") = <<"I", "I">> /\ "eq" \in Binary /\ IsOperator("eq", "I")
    BY Kinds, Binaries, Operators
  <2>2. Opd(z.ins, c, Formals("eq", "I")[1]) /\ Opd(z.ins, z.ret, Formals("eq", "I")[2])
    BY <1>3, <2>1
  <2> QED
    BY <1>3, <1>4, <2>1, <2>2, Ins2OK DEF Answers
<1>7. Calm(z.ins, s)
  BY <1>1, CalmImm
<1>8. InsEqI0(s, c) = q
  BY <1>1, <1>4 DEF InsEqI0
<1> QED
  BY <1>5, <1>6, <1>7, <1>8, CalmChain

\* Neither does insChoose.
LEMMA InsChooseCalm ==
  ASSUME NEW s, WellTyped(s), NEW c, Opd(s, c, "I"), IsCmp(s, c) \/ IsImmI(s, c),
         NEW t, Opd(s, t, "I"), NEW f, Opd(s, f, "I"), NEW useCmov \in BOOLEAN
  PROVE  Calm(InsChoose(s, c, t, f, useCmov).ins, s)
<1>1. PICK q, p, n, x, m, y :
        /\ ChoosesBy(s, c, t, f, q, p, n, x, m, y)
        /\ InsChoose(s, c, t, f, useCmov) =
             IF useCmov THEN Ins3(p.ins, "I", p.ret, q.t, q.f)
                        ELSE Ins2(y.ins, "or", "I", x.ret, y.ret)
  BY ChooseSteps
<1>2. /\ Answers(s, p, "I") /\ Answers(p.ins, n, "I") /\ Answers(n.ins, x, "I")
      /\ Answers(x.ins, m, "I") /\ Answers(m.ins, y, "I")
      /\ Opd(p.ins, p.ret, "I") /\ Opd(p.ins, q.t, "I") /\ Opd(p.ins, q.f, "I")
      /\ Opd(n.ins, n.ret, "I") /\ Opd(n.ins, q.t, "I") /\ Opd(x.ins, n.ret, "I")
      /\ Opd(m.ins, m.ret, "I") /\ Opd(m.ins, q.f, "I")
      /\ Opd(y.ins, x.ret, "I") /\ Opd(y.ins, y.ret, "I")
      /\ IsCmp(p.ins, p.ret) \/ IsImmI(p.ins, p.ret)
  BY <1>1 DEF ChoosesBy
<1>3. /\ WellTyped(p.ins) /\ WellTyped(n.ins) /\ WellTyped(x.ins) /\ WellTyped(m.ins)
      /\ WellTyped(y.ins) /\ Extends(n.ins, p.ins)
      /\ Extends(x.ins, n.ins) /\ Extends(m.ins, x.ins) /\ Extends(y.ins, m.ins)
  BY <1>2 DEF Answers
<1>4. PICK r : r = InsChoose(s, c, t, f, useCmov)
  OBVIOUS
<1>5. Calm(p.ins, s)
  <2>1. (IsCmp(s, c) /\ p = Old(s, c)) \/ p = InsEqI0(s, c)
    BY <1>1 DEF ChoosesBy
  <2> QED
    BY <2>1, CalmOld, InsEqI0Calm, SMTT(30)
<1>6. CASE useCmov
  <2>1. r = Ins3(p.ins, "I", p.ret, q.t, q.f)
    BY <1>1, <1>4, <1>6
  <2>2. Calm(r.ins, p.ins)
    BY <1>3, <2>1, Ins3Calm
  <2>3. Extends(r.ins, p.ins)
    BY <1>2, <1>3, <2>1, Ins3OK DEF Answers
  <2> QED
    BY <1>4, <1>5, <2>2, <2>3, CalmChain
<1>7. CASE ~useCmov
  <2>1. r = Ins2(y.ins, "or", "I", x.ret, y.ret)
    BY <1>1, <1>4, <1>7, SMTT(30)
  <2>2. /\ n = Ins1(p.ins, "neg", "I", p.ret) /\ x = Ins2(n.ins, "and", "I", q.t, n.ret)
        /\ m = Ins1(x.ins, "not", "I", n.ret) /\ y = Ins2(m.ins, "and", "I", q.f, m.ret)
    BY <1>1 DEF ChoosesBy
  <2>3. /\ Calm(n.ins, p.ins) /\ Calm(x.ins, n.ins) /\ Calm(m.ins, x.ins)
        /\ Calm(y.ins, m.ins) /\ Calm(r.ins, y.ins)
    <3>1. Calm(n.ins, p.ins)
      BY <1>2, <1>3, <2>2, IntOpCalm, ZenonT(60)
    <3>2. Calm(x.ins, n.ins)
      BY <1>2, <1>3, <2>2, IntOpCalm, ZenonT(60)
    <3>3. Calm(m.ins, x.ins)
      BY <1>2, <1>3, <2>2, IntOpCalm, ZenonT(60)
    <3>4. Calm(y.ins, m.ins)
      BY <1>2, <1>3, <2>2, IntOpCalm, ZenonT(60)
    <3>5. Calm(r.ins, y.ins)
      BY <1>2, <1>3, <2>1, IntOpCalm
    <3> QED
      BY <3>1, <3>2, <3>3, <3>4, <3>5, SMTT(30)
  <2>4. Extends(r.ins, y.ins)
    <3>1. Answers(y.ins, y, "I")
      BY <1>2, <1>3 DEF Answers, Extends, Opd
    <3>2. Answers(y.ins, r, "I")
      BY <1>2, <2>1, <3>1, IntOpOK
    <3> QED
      BY <3>2 DEF Answers
  <2>5. Calm(n.ins, s)
    BY <1>3, <1>5, <2>3, CalmChain
  <2>6. Calm(x.ins, s)
    BY <1>3, <2>3, <2>5, CalmChain
  <2>7. Calm(m.ins, s)
    BY <1>3, <2>3, <2>6, CalmChain
  <2>8. Calm(y.ins, s)
    BY <1>3, <2>3, <2>7, CalmChain
  <2> QED
    BY <1>4, <2>3, <2>4, <2>8, CalmChain
<1> QED
  BY <1>6, <1>7, SMTT(30)

-----------------------------------------------------------------------------
(* Whatever is asked.                                                      *)

\* What the answer to x is worth after it is given, in every environment.
LEMMA NewValues ==
  ASSUME ValueInv, NEW x, NEW r, WellTyped(r.ins), Extends(r.ins, ins), Answer(x, r), ValueInv'
  PROVE  /\ Env' = Env /\ \A e \in Env : Valued(r.ins, val', e)
         /\ \A i \in DOMAIN ins : val'[i] = val[i]
<1>1. ins' = r.ins /\ fam' = fam /\ val' = ValuesFrom(val, r.ins)
  BY DEF Answer
<1>2. Env' = Env
  BY <1>1 DEF Env
<1>3. /\ DOMAIN val = DOMAIN ins /\ DOMAIN ins = 1 .. Len(ins) /\ Len(ins) \in Nat
      /\ \A i \in DOMAIN ins : val[i] = [e \in Env |-> Value(val, ins[i], e)]
  BY DEF ValueInv, TypeInv, WellTyped, Worth
<1>4. DOMAIN val \subseteq DOMAIN r.ins /\ \A i \in DOMAIN val : r.ins[i] = ins[i]
  BY <1>3 DEF Extends
<1>5. \A i \in DOMAIN val : /\ 1 .. i - 1 \subseteq DOMAIN val
                            /\ val[i] = [e \in Env |-> Value(val, r.ins[i], e)]
  BY <1>3, <1>4
<1>6. \A i \in DOMAIN val : ValuesFrom(val, r.ins)[i] = val[i]
  BY <1>4, <1>5, ValuesFromOK
<1>7. /\ Worth(r.ins, val', Env)
      /\ \A i \in DOMAIN r.ins, e \in Env :
           r.ins[i].k = "param" => e[r.ins[i].v] \in Values(r.ins[i].ty)
  BY <1>1, <1>2 DEF ValueInv, Worth
<1>8. ASSUME NEW e \in Env PROVE Valued(r.ins, val', e)
  <2>1. \A i \in DOMAIN r.ins :
          TypeOf(r.ins, i) # "V" => val'[i][e] \in Values(TypeOf(r.ins, i))
    BY <1>7, WorthTyped
  <2>2. \A i \in DOMAIN r.ins : val'[i][e] = Value(val', r.ins[i], e)
    BY <1>7 DEF Worth
  <2> QED
    BY <2>1, <2>2 DEF Valued
<1> QED
  BY <1>1, <1>2, <1>3, <1>6, <1>8

\* What an answer should be.
ExactFor(x, r, s, V, W, e) ==
  /\ x.ty # "V" => Same(RetType(x.k, x.ty), W[r.ret][e], Value(V, x, e))
  /\ Exits(V, x, e) <=> r.ret > Len(s) /\ Exits(W, r.ins[r.ret], e)

\* An answer that is worth and exits as its request does makes AnswerExact true.
LEMMA AnswerIsExact ==
  ASSUME NEW x, NEW r, Answer(x, r), Env' = Env,
         \A e \in Env : ExactFor(x, r, ins, val, val', e)
  PROVE  AnswerExact'
<1>1. /\ ins' = r.ins /\ asked'.x = x /\ asked'.ret = r.ret
      /\ asked'.new = (r.ret > Len(ins))
      /\ asked'.want = [e \in {d \in Env : DefinedFor(x, d)} |-> Value(val, x, e)]
      /\ asked'.exits = {e \in Env : Exits(val, x, e)}
  BY DEF Answer
<1>2. asked'.exits = {e \in Env : asked'.new /\ Exits(val', ins'[asked'.ret], e)}
  BY <1>1 DEF ExactFor
<1>3. x.ty # "V" => \A e \in DOMAIN asked'.want :
        Same(RetType(x.k, x.ty), val'[asked'.ret][e], asked'.want[e])
  BY <1>1 DEF ExactFor
<1> QED
  BY <1>1, <1>2, <1>3 DEF AnswerExact

\* The answer to a request for a value that cannot exit exits nowhere.
LEMMA NoExit ==
  ASSUME NEW s, NEW r, NEW ty, ty # "V", Answers(s, r, ty), Calm(r.ins, s), WellTyped(s),
         NEW V, NEW e
  PROVE  ~(r.ret > Len(s) /\ Exits(V, r.ins[r.ret], e))
<1> SUFFICES ASSUME r.ret > Len(s) PROVE ~Exits(V, r.ins[r.ret], e)
  OBVIOUS
<1>1. /\ r.ret \in DOMAIN r.ins /\ TypeOf(r.ins, r.ret) = ty /\ WellTyped(r.ins)
      /\ DOMAIN s = 1 .. Len(s) /\ Len(s) \in Nat /\ DOMAIN r.ins = 1 .. Len(r.ins)
      /\ Len(r.ins) \in Nat
  BY DEF Answers, WellTyped
<1>2. r.ret \notin DOMAIN s
  BY <1>1
<1>3. r.ins[r.ret].k \notin Overflowing
  BY <1>1, <1>2 DEF Calm
<1>4. r.ins[r.ret].k \notin Controls
  BY <1>1, Every
<1> QED
  BY <1>3, <1>4, ExitsBy

\* For a request that never exits it is enough that the value is right.
LEMMA ValueIsExact ==
  ASSUME ValueInv, NEW x, x.k \notin Controls \cup Overflowing,
         NEW r, NEW ty, ty # "V", RetType(x.k, x.ty) = ty,
         Answers(ins, r, ty), Calm(r.ins, ins), Answer(x, r), ValueInv',
         \A e \in Env : (\A i \in DOMAIN ins : val'[i] = val[i]) /\ Valued(r.ins, val', e) =>
           Same(ty, val'[r.ret][e], Value(val, x, e))
  PROVE  AnswerExact'
<1>1. /\ Env' = Env /\ \A e \in Env : Valued(r.ins, val', e)
      /\ \A i \in DOMAIN ins : val'[i] = val[i]
  BY NewValues DEF Answers
<1>2. ASSUME NEW e \in Env PROVE ExactFor(x, r, ins, val, val', e)
  <2>1. Same(RetType(x.k, x.ty), val'[r.ret][e], Value(val, x, e))
    BY <1>1
  <2>2. ~Exits(val, x, e)
    BY ExitsBy
  <2>3. WellTyped(ins)
    BY DEF ValueInv, TypeInv
  <2>4. ~(r.ret > Len(ins) /\ Exits(val', r.ins[r.ret], e))
    BY <2>3, NoExit
  <2> QED
    BY <2>1, <2>2, <2>4 DEF ExactFor
<1> QED
  BY <1>1, <1>2, AnswerIsExact

\* What requests are worth.
LEMMA Request1 ==
  ASSUME NEW V, NEW e, NEW k \in Unary, NEW ty, ty # "V", NEW a, NEW x, x = Op(k, ty, <<a>>)
  PROVE  Value(V, x, e) = Compute1(k, ty, V[a][e])
<1>1. x.k = k /\ x.ty = ty /\ x.args[1] = a /\ Len(x.args) = 1
  BY DEF Op
<1>2. Arity(x)
  BY <1>1, Binaries DEF Arity, Unary, Conversions, Overflowing, Controls, Arithmetic2
<1> QED
  BY <1>1, <1>2, ValueBy

\* What a request with two operands is worth.
LEMMA Request2 ==
  ASSUME NEW V, NEW e, NEW k \in Binary \cup Overflowing, NEW ty, ty # "V", NEW a, NEW b, NEW x,
         x = Op(k, ty, <<a, b>>)
  PROVE  /\ k \in Binary => Value(V, x, e) = Compute2(k, ty, V[a][e], V[b][e])
         /\ k \in Overflowing => Value(V, x, e) = Wrap(Exact(k, V[a][e], V[b][e]), IntWidth)
<1>1. x.k = k /\ x.ty = ty /\ x.args[1] = a /\ x.args[2] = b /\ Len(x.args) = 2
  BY DEF Op
<1>2. Arity(x)
  BY <1>1, Binaries DEF Arity, Unary, Conversions, Overflowing, Controls, Arithmetic2
<1> QED
  BY <1>1, <1>2, ValueBy

\* What a request with three is worth.
LEMMA Request3 ==
  ASSUME NEW V, NEW e, NEW ty, ty # "V", NEW a, NEW b, NEW c, NEW x,
         x = Op("cmov", ty, <<c, a, b>>)
  PROVE  Value(V, x, e) = IF V[c][e] # 0 THEN V[a][e] ELSE V[b][e]
<1>1. /\ x.k = "cmov" /\ x.ty = ty /\ x.args[1] = c /\ x.args[2] = a /\ x.args[3] = b
      /\ Len(x.args) = 3
  BY DEF Op
<1>2. Arity(x)
  BY <1>1, Binaries DEF Arity, Unary, Conversions, Overflowing, Controls, Arithmetic2
<1> QED
  BY <1>1, <1>2, ValueBy

\* What a load is worth.
LEMMA RequestLoad ==
  ASSUME NEW V, NEW e, NEW a, NEW d, NEW x, x = Ld(a, d)
  PROVE  Value(V, x, e) = Wrap(V[a][e] + d, QuadWidth)
<1>1. x.k = "ld" /\ x.ty = "Q" /\ x.args[1] = a /\ x.v = d /\ Len(x.args) = 1
  BY DEF Ld
<1>2. Arity(x)
  BY <1>1, Binaries DEF Arity, Unary, Conversions, Overflowing, Controls, Arithmetic2
<1> QED
  BY <1>1, <1>2, ValueBy

\* The one rule that is wrong has been used: a quad that was made a double is
\* made an int, and the conversion taken for the constant it is not.
Narrowed ==
  asked.n > 0 /\ asked.x.k = "d2i" /\ ins[asked.x.args[1]].k = "q2d"

\* Requests that are no guards.
LEMMA PlainRequests ==
  /\ \A k \in Unary \cup Binary \cup {"cmov", "ld"} : k \notin Controls \cup Overflowing
  /\ \A x, y, t : x = y => Same(t, x, y)
<1>1. \A k \in Unary \cup Binary \cup {"cmov", "ld"} : k \notin Controls \cup Overflowing
  BY Binaries DEF Unary, Conversions, Overflowing, Controls, Arithmetic2
<1> QED
  BY <1>1 DEF Same, SameNumber

\* Answers to ins1 are exact, unless a quad that became a double is narrowed to an int.
LEMMA Ask1Exact ==
  ASSUME ValueInv, Ask1, ValueInv'
  PROVE  Narrowed' \/ AnswerExact'
<1>1. PICK q \in Requests(fam) :
        /\ q.k \in Unary
        /\ \E a \in Operands(Formals(q.k, q.ty)[1]) :
             Answer(Op(q.k, q.ty, <<a>>), Ins1(ins, q.k, q.ty, a))
  BY DEF Ask1
<1>2. PICK a \in Operands(Formals(q.k, q.ty)[1]) :
        Answer(Op(q.k, q.ty, <<a>>), Ins1(ins, q.k, q.ty, a))
  BY <1>1
<1>3. WellTyped(ins) /\ asked.n \in Nat
  BY DEF ValueInv, TypeInv
<1>4. PICK k, ty : k = q.k /\ ty = q.ty /\ k \in Unary /\ IsOperator(k, ty)
  BY <1>1, RequestAssumption DEF ValueInv, TypeInv, Unary, Conversions
<1>5. Opd(ins, a, Formals(k, ty)[1]) /\ a \in DOMAIN ins
  BY <1>2, <1>4 DEF Operands, Opd
<1>6. PICK x, r : x = Op(k, ty, <<a>>) /\ r = Ins1(ins, k, ty, a)
  OBVIOUS
<1>7. Answer(x, r)
  BY <1>2, <1>4, <1>6
<1>8. Answers(ins, r, RetType(k, ty))
  BY <1>3, <1>4, <1>5, <1>6, Ins1OK
<1>9. x.k = k /\ x.ty = ty /\ x.args[1] = a
  BY <1>6 DEF Op
<1>10. CASE k = "d2i" /\ ins[a].k = "q2d"
  <2>1. ins'[a] = ins[a] /\ asked'.n = asked.n + 1 /\ asked'.x = x
    BY <1>5, <1>7, <1>8 DEF Answer, Answers, Extends
  <2> QED
    BY <1>3, <1>9, <1>10, <2>1 DEF Narrowed
<1>11. CASE ~(k = "d2i" /\ ins[a].k = "q2d")
  <2>1. PICK u : u = RetType(k, ty) /\ u # "V" /\ ty # "V"
    BY <1>4, UnaryTypes, Operators DEF Unary, Conversions
  <2>2. ASSUME NEW e \in Env, \A i \in DOMAIN ins : val'[i] = val[i], Valued(r.ins, val', e)
        PROVE  Same(u, val'[r.ret][e], Value(val, x, e))
    <3>1. PICK W : W = val'
      OBVIOUS
    <3>2. Same(RetType(k, ty), W[r.ret][e], Compute1(k, ty, W[a][e]))
      BY <1>3, <1>4, <1>5, <1>6, <1>11, <2>2, <3>1, Ins1Exact
    <3>3. Value(val, x, e) = Compute1(k, ty, val[a][e])
      <4>1. PICK V : V = val
        OBVIOUS
      <4>2. Value(V, x, e) = Compute1(k, ty, V[a][e])
        BY <1>4, <1>6, <2>1, Request1
      <4> QED
        BY <4>1, <4>2
    <3> QED
      BY <1>5, <2>1, <2>2, <3>1, <3>2, <3>3
  <2>3. Calm(r.ins, ins)
    BY <1>3, <1>4, <1>6, Ins1Calm
  <2>4. x.k \notin Controls \cup Overflowing /\ RetType(x.k, x.ty) = u /\ Answers(ins, r, u)
    BY <1>4, <1>8, <1>9, <2>1, PlainRequests
  <2> QED
    BY <1>7, <2>1, <2>2, <2>3, <2>4, ValueIsExact
<1> QED
  BY <1>10, <1>11

\* Answers to ins2 are exact.
LEMMA Ask2Exact ==
  ASSUME ValueInv, Ask2, ValueInv'
  PROVE  AnswerExact'
<1>1. PICK q \in Requests(fam) :
        /\ q.k \in Binary
        /\ \E a \in Operands(Formals(q.k, q.ty)[1]), b \in Operands(Formals(q.k, q.ty)[2]) :
             Answer(Op(q.k, q.ty, <<a, b>>), Ins2(ins, q.k, q.ty, a, b))
  BY DEF Ask2
<1>2. PICK a \in Operands(Formals(q.k, q.ty)[1]), b \in Operands(Formals(q.k, q.ty)[2]) :
        Answer(Op(q.k, q.ty, <<a, b>>), Ins2(ins, q.k, q.ty, a, b))
  BY <1>1
<1>3. WellTyped(ins)
  BY DEF ValueInv, TypeInv
<1>4. PICK k, ty : k = q.k /\ ty = q.ty /\ k \in Binary /\ IsOperator(k, ty)
  BY <1>1, RequestAssumption, Binaries DEF ValueInv, TypeInv, Arithmetic2
<1>5. /\ Opd(ins, a, Formals(k, ty)[1]) /\ a \in DOMAIN ins
      /\ Opd(ins, b, Formals(k, ty)[2]) /\ b \in DOMAIN ins
  BY <1>2, <1>4 DEF Operands, Opd
<1>6. PICK x, r : x = Op(k, ty, <<a, b>>) /\ r = Ins2(ins, k, ty, a, b)
  OBVIOUS
<1>7. Answer(x, r)
  BY <1>2, <1>4, <1>6
<1>8. Answers(ins, r, RetType(k, ty))
  BY <1>3, <1>4, <1>5, <1>6, Ins2OK
<1>9. x.k = k /\ x.ty = ty
  BY <1>6 DEF Op
<1>10. PICK u : u = RetType(k, ty) /\ u # "V" /\ ty # "V"
  BY <1>4, BinaryTypes
<1>11. ASSUME NEW e \in Env, \A i \in DOMAIN ins : val'[i] = val[i], Valued(r.ins, val', e)
       PROVE  Same(u, val'[r.ret][e], Value(val, x, e))
  <2>1. PICK W : W = val'
    OBVIOUS
  <2>2. WorthIf(r, Ins2(ins, k, ty, a, b), W, e, Compute2(k, ty, W[a][e], W[b][e]))
    BY <1>3, <1>4, <1>5, <1>11, <2>1, Ins2Exact
  <2>3. W[r.ret][e] = Compute2(k, ty, W[a][e], W[b][e])
    BY <1>6, <2>2 DEF WorthIf
  <2>4. Value(val, x, e) = Compute2(k, ty, val[a][e], val[b][e])
    <3>1. PICK V : V = val
      OBVIOUS
    <3>2. Value(V, x, e) = Compute2(k, ty, V[a][e], V[b][e])
      BY <1>4, <1>6, <1>10, Request2
    <3> QED
      BY <3>1, <3>2
  <2> QED
    BY <1>5, <1>11, <2>1, <2>3, <2>4, PlainRequests
<1>12. Calm(r.ins, ins)
  BY <1>3, <1>4, <1>5, <1>6, Ins2Calm
<1>13. x.k \notin Controls \cup Overflowing /\ RetType(x.k, x.ty) = u /\ Answers(ins, r, u)
  BY <1>4, <1>8, <1>9, <1>10, PlainRequests
<1> QED
  BY <1>7, <1>10, <1>11, <1>12, <1>13, ValueIsExact

\* The same for requests that are worth a choice.
LEMMA ChoiceIsExact ==
  ASSUME ValueInv, ValueInv', NEW ty \in {"I", "Q", "D"},
         NEW c \in DOMAIN ins, NEW a \in DOMAIN ins, NEW b \in DOMAIN ins, NEW r,
         Answer(Op("cmov", ty, <<c, a, b>>), r), Answers(ins, r, ty), Calm(r.ins, ins),
         \A V, e : Valued(r.ins, V, e) =>
           V[r.ret][e] = IF V[c][e] # 0 THEN V[a][e] ELSE V[b][e]
  PROVE  AnswerExact'
<1>1. PICK x : x = Op("cmov", ty, <<c, a, b>>)
  OBVIOUS
<1>2. x.k = "cmov" /\ x.ty = ty /\ RetType(x.k, x.ty) = ty /\ ty # "V"
  BY <1>1, Kinds DEF Op
<1>3. ASSUME NEW e \in Env, \A i \in DOMAIN ins : val'[i] = val[i], Valued(r.ins, val', e)
      PROVE  Same(ty, val'[r.ret][e], Value(val, x, e))
  <2>1. val'[r.ret][e] = IF val'[c][e] # 0 THEN val'[a][e] ELSE val'[b][e]
    BY <1>3
  <2>2. Value(val, x, e) = IF val[c][e] # 0 THEN val[a][e] ELSE val[b][e]
    <3>1. PICK V : V = val
      OBVIOUS
    <3>2. Value(V, x, e) = IF V[c][e] # 0 THEN V[a][e] ELSE V[b][e]
      BY <1>1, <1>2, Request3
    <3> QED
      BY <3>1, <3>2
  <2> QED
    BY <1>3, <2>1, <2>2, PlainRequests
<1>4. x.k \notin Controls \cup Overflowing
  BY <1>2, PlainRequests
<1> QED
  BY <1>1, <1>2, <1>3, <1>4, ValueIsExact

\* Answers to ins3 are exact.
LEMMA AskCmovExact ==
  ASSUME ValueInv, AskCmov, ValueInv'
  PROVE  AnswerExact'
<1>1. PICK q \in Requests(fam) :
        /\ q.k = "cmov"
        /\ \E c \in Conds, a, b \in Operands(q.ty) :
             Answer(Op("cmov", q.ty, <<c, a, b>>), Ins3(ins, q.ty, c, a, b))
  BY DEF AskCmov
<1>2. PICK c \in Conds, a \in Operands(q.ty), b \in Operands(q.ty) :
        Answer(Op("cmov", q.ty, <<c, a, b>>), Ins3(ins, q.ty, c, a, b))
  BY <1>1
<1>3. WellTyped(ins)
  BY DEF ValueInv, TypeInv
<1>4. PICK ty \in {"I", "Q", "D"} : ty = q.ty
  BY <1>1, RequestAssumption, Operators DEF ValueInv, TypeInv
<1>5. /\ Opd(ins, a, ty) /\ Opd(ins, b, ty) /\ a \in DOMAIN ins /\ b \in DOMAIN ins
      /\ Opd(ins, c, "I") /\ (IsCmp(ins, c) \/ IsImmI(ins, c)) /\ c \in DOMAIN ins
  BY <1>2, <1>4, Kinds DEF Operands, Conds, Opd, TypeOf, IsCmp, IsImmI, Is
<1>6. PICK r : r = Ins3(ins, ty, c, a, b)
  OBVIOUS
<1>7. Answer(Op("cmov", ty, <<c, a, b>>), r)
  BY <1>2, <1>4, <1>6
<1>8. Answers(ins, r, ty)
  BY <1>3, <1>5, <1>6, Ins3OK
<1>9. Calm(r.ins, ins)
  BY <1>3, <1>6, Ins3Calm
<1>10. ASSUME NEW V, NEW e, Valued(r.ins, V, e)
       PROVE  V[r.ret][e] = IF V[c][e] # 0 THEN V[a][e] ELSE V[b][e]
  <2>1. WorthIf(r, Ins3(ins, ty, c, a, b), V, e, IF V[c][e] # 0 THEN V[a][e] ELSE V[b][e])
    BY <1>3, <1>5, <1>10, Ins3Exact
  <2> QED
    BY <1>6, <2>1 DEF WorthIf
<1> QED
  BY <1>5, <1>7, <1>8, <1>9, <1>10, ChoiceIsExact

\* Answers to insChoose are exact.
LEMMA AskChooseExact ==
  ASSUME ValueInv, AskChoose, ValueInv'
  PROVE  AnswerExact'
<1>1. PICK c \in Conds, a \in Operands("I"), b \in Operands("I"), useCmov \in BOOLEAN :
        Answer(Op("cmov", "I", <<c, a, b>>), InsChoose(ins, c, a, b, useCmov))
  BY DEF AskChoose
<1>2. PICK ty \in {"I", "Q", "D"} : ty = "I"
  OBVIOUS
<1>3. WellTyped(ins)
  BY DEF ValueInv, TypeInv
<1>4. /\ Opd(ins, a, "I") /\ Opd(ins, b, "I") /\ a \in DOMAIN ins /\ b \in DOMAIN ins
      /\ Opd(ins, c, "I") /\ (IsCmp(ins, c) \/ IsImmI(ins, c)) /\ c \in DOMAIN ins
  BY <1>1, Kinds DEF Operands, Conds, Opd, TypeOf, IsCmp, IsImmI, Is
<1>5. PICK r : r = InsChoose(ins, c, a, b, useCmov)
  OBVIOUS
<1>6. Answer(Op("cmov", ty, <<c, a, b>>), r)
  BY <1>1, <1>2, <1>5
<1>7. Answers(ins, r, ty)
  BY <1>2, <1>3, <1>4, <1>5, InsChooseOK
<1>8. Calm(r.ins, ins)
  BY <1>3, <1>4, <1>5, InsChooseCalm
<1>9. ASSUME NEW V, NEW e, Valued(r.ins, V, e)
      PROVE  V[r.ret][e] = IF V[c][e] # 0 THEN V[a][e] ELSE V[b][e]
  <2>1. WorthIf(r, InsChoose(ins, c, a, b, useCmov), V, e,
                IF V[c][e] # 0 THEN V[a][e] ELSE V[b][e])
    <3>1. WorthIf(r, InsChoose(ins, c, a, b, useCmov), V, e, Choice(V, e, c, a, b))
      BY <1>3, <1>4, <1>9, InsChooseExact
    <3> QED
      BY <3>1 DEF Choice
  <2> QED
    BY <1>5, <2>1 DEF WorthIf
<1> QED
  BY <1>4, <1>6, <1>7, <1>8, <1>9, ChoiceIsExact

\* Guards and branches.
LEMMA ControlIsExact ==
  ASSUME ValueInv, ValueInv', NEW k \in {"xt", "xf", "jt", "jf"}, NEW always \in {"x", "j"},
         NEW c \in Conds, NEW r, r = Conditional(ins, k, always, c),
         Answer(Op(k, "V", <<c>>), r)
  PROVE  AnswerExact'
<1>1. PICK x : x = Op(k, "V", <<c>>)
  OBVIOUS
<1>2. x.k = k /\ x.ty = "V" /\ x.args[1] = c
  BY <1>1 DEF Op
<1>3. WellTyped(ins) /\ c \in DOMAIN ins /\ (IsCmp(ins, c) \/ IsImmI(ins, c))
  BY DEF ValueInv, TypeInv, Conds
<1>4. WellTyped(r.ins) /\ Extends(r.ins, ins)
  BY <1>3, ConditionalOK
<1>5. /\ Env' = Env /\ \A e \in Env : Valued(r.ins, val', e)
      /\ \A i \in DOMAIN ins : val'[i] = val[i]
  BY <1>1, <1>4, NewValues
<1>6. ASSUME NEW e \in Env PROVE ExactFor(x, r, ins, val, val', e)
  <2>1. PICK V, W : V = val /\ W = val'
    OBVIOUS
  <2>2. ExitsIf(r, Conditional(ins, k, always, c), ins, W, e, Exits(W, Op(k, "V", <<c>>), e))
    BY <1>3, <1>5, <2>1, ConditionalExact
  <2>3. Exits(W, x, e) <=> r.ret > Len(ins) /\ Exits(W, r.ins[r.ret], e)
    BY <1>1, <2>2 DEF ExitsIf
  <2>4. W[c][e] = V[c][e]
    BY <1>3, <1>5, <2>1
  <2>5. Exits(V, x, e) <=> Exits(W, x, e)
    BY <1>2, <2>4, ExitsBy
  <2> QED
    BY <1>2, <2>1, <2>3, <2>5 DEF ExactFor
<1> QED
  BY <1>1, <1>5, <1>6, AnswerIsExact

\* Arithmetic that checks for overflow, when it is simplified, has the value and the exits
\* of the request.
LEMMA AskOverflowingExact ==
  ASSUME ValueInv, AskOverflowing, ValueInv'
  PROVE  AnswerExact'
<1>1. PICK q \in Requests(fam), a \in Operands("I"), b \in Operands("I") :
        /\ q.k \in {"addx", "subx", "mulx"}
        /\ Answer(Op(q.k, "I", <<a, b>>), SimplifyOverflowArith(ins, q.k, a, b))
  BY DEF AskOverflowing
<1>2. PICK k : k = q.k /\ k \in Overflowing
  BY <1>1 DEF Overflowing
<1>3. PICK x, r : x = Op(k, "I", <<a, b>>) /\ r = SimplifyOverflowArith(ins, k, a, b)
  OBVIOUS
<1>4. x.k = k /\ x.ty = "I" /\ x.args[1] = a /\ x.args[2] = b
  BY <1>3 DEF Op
<1>5. /\ WellTyped(ins) /\ Opd(ins, a, "I") /\ Opd(ins, b, "I")
      /\ a \in DOMAIN ins /\ b \in DOMAIN ins
  BY DEF ValueInv, TypeInv, Operands, Opd
<1>6. Answer(x, r)
  BY <1>1, <1>2, <1>3
<1>7. WellTyped(r.ins) /\ Extends(r.ins, ins)
  BY <1>2, <1>3, <1>5, OverflowOK DEF Answers, Overflowing
<1>8. /\ Env' = Env /\ \A e \in Env : Valued(r.ins, val', e)
      /\ \A i \in DOMAIN ins : val'[i] = val[i]
  BY <1>6, <1>7, NewValues
<1>9. ASSUME NEW e \in Env PROVE ExactFor(x, r, ins, val, val', e)
  <2>1. PICK V, W : V = val /\ W = val'
    OBVIOUS
  <2>2. /\ WorthIf(r, SimplifyOverflowArith(ins, k, a, b), W, e,
                   Wrap(Exact(k, W[a][e], W[b][e]), IntWidth))
        /\ ExitsIf(r, SimplifyOverflowArith(ins, k, a, b), ins, W, e,
                   ~InWidth(Exact(k, W[a][e], W[b][e]), IntWidth))
    BY <1>2, <1>5, <1>8, <2>1, OverflowExact
  <2>3. W[a][e] = V[a][e] /\ W[b][e] = V[b][e]
    BY <1>5, <1>8, <2>1
  <2>4. /\ W[r.ret][e] = Wrap(Exact(k, V[a][e], V[b][e]), IntWidth)
        /\ ~InWidth(Exact(k, V[a][e], V[b][e]), IntWidth) <=>
             r.ret > Len(ins) /\ Exits(W, r.ins[r.ret], e)
    BY <1>3, <2>2, <2>3 DEF WorthIf, ExitsIf
  <2>5. Value(V, x, e) = Wrap(Exact(k, V[a][e], V[b][e]), IntWidth)
    BY <1>2, <1>3, Request2
  <2>6. Exits(V, x, e) <=> ~InWidth(Exact(k, V[a][e], V[b][e]), IntWidth)
    BY <1>2, <1>4, ExitsBy
  <2>7. Same(RetType(x.k, x.ty), W[r.ret][e], Value(V, x, e))
    BY <2>4, <2>5, PlainRequests
  <2> QED
    BY <2>1, <2>4, <2>6, <2>7 DEF ExactFor
<1> QED
  BY <1>6, <1>8, <1>9, AnswerIsExact

\* Answers to insLoad are exact.
LEMMA AskLoadExact ==
  ASSUME ValueInv, AskLoad, ValueInv'
  PROVE  AnswerExact'
<1>1. PICK base \in Operands("Q"), d \in Offsets :
        Answer(Ld(base, d), InsLoad(ins, base, d))
  BY DEF AskLoad
<1>2. PICK x, r : x = Ld(base, d) /\ r = InsLoad(ins, base, d)
  OBVIOUS
<1>3. x.k = "ld" /\ x.ty = "Q" /\ RetType(x.k, x.ty) = "Q"
  BY <1>2, Kinds DEF Ld
<1>4. WellTyped(ins) /\ Opd(ins, base, "Q") /\ base \in DOMAIN ins /\ d \in Int
  BY RequestAssumption DEF ValueInv, TypeInv, Operands, Opd
<1>5. Answer(x, r) /\ Answers(ins, r, "Q") /\ Calm(r.ins, ins)
  BY <1>1, <1>2, <1>4, InsLoadOK, InsLoadCalm
<1>6. ASSUME NEW e \in Env, \A i \in DOMAIN ins : val'[i] = val[i], Valued(r.ins, val', e)
      PROVE  Same("Q", val'[r.ret][e], Value(val, x, e))
  <2>1. PICK V, W : V = val /\ W = val'
    OBVIOUS
  <2>2. WorthIf(r, InsLoad(ins, base, d), W, e, Wrap(W[base][e] + d, QuadWidth))
    BY <1>4, <1>6, <2>1, InsLoadExact
  <2>3. W[r.ret][e] = Wrap(W[base][e] + d, QuadWidth)
    BY <1>2, <2>2 DEF WorthIf
  <2>4. Value(V, x, e) = Wrap(V[base][e] + d, QuadWidth)
    BY <1>2, RequestLoad
  <2>5. W[base][e] = V[base][e]
    BY <1>4, <1>6, <2>1
  <2> QED
    BY <2>1, <2>3, <2>4, <2>5, PlainRequests
<1>7. x.k \notin Controls \cup Overflowing
  BY <1>3, PlainRequests
<1>8. PICK ty : ty = "Q" /\ ty # "V"
  OBVIOUS
<1> QED
  BY <1>3, <1>5, <1>6, <1>7, <1>8, ValueIsExact

\* The answer to any request.
LEMMA AskExact ==
  ASSUME ValueInv, Ask, ValueInv'
  PROVE  Narrowed' \/ AnswerExact'
<1>1. ASSUME AskGuard PROVE AnswerExact'
  <2>1. PICK q \in Requests(fam), c \in Conds :
          /\ q.k \in {"xt", "xf"}
          /\ Answer(Op(q.k, "V", <<c>>), Conditional(ins, q.k, "x", c))
    BY <1>1 DEF AskGuard, InsGuard
  <2>2. PICK k, r : k = q.k /\ r = Conditional(ins, k, "x", c)
    OBVIOUS
  <2> QED
    BY <2>1, <2>2, ControlIsExact
<1>2. ASSUME AskBranch PROVE AnswerExact'
  <2>1. PICK q \in Requests(fam), c \in Conds :
          /\ q.k \in {"jt", "jf"}
          /\ Answer(Op(q.k, "V", <<c>>), Conditional(ins, q.k, "j", c))
    BY <1>2 DEF AskBranch, InsBranch
  <2>2. PICK k, r : k = q.k /\ r = Conditional(ins, k, "j", c)
    OBVIOUS
  <2> QED
    BY <2>1, <2>2, ControlIsExact
<1> QED
  BY <1>1, <1>2, Ask1Exact, Ask2Exact, AskCmovExact, AskOverflowingExact, AskLoadExact,
     AskChooseExact DEF Ask

\* Whatever a front end asks ExprFilter or insChoose for, of code of any length,
\* of ints of any even width from 4 bits and of quads of any larger one: the
\* answer is worth what was asked for, and exits where it should, in every
\* environment; but for the rule that narrows a quad on its way through a double.
THEOREM AnswersExactUnlessNarrowed == Spec => [](Narrowed \/ AnswerExact)
<1>1. Init => Narrowed \/ AnswerExact
  BY DEF Init, NoRequest, AnswerExact
<1>2. (Narrowed \/ AnswerExact) /\ ValueInv /\ ValueInv' /\ [Next]_vars
        => (Narrowed \/ AnswerExact)'
  <2> SUFFICES ASSUME Narrowed \/ AnswerExact, ValueInv, ValueInv', [Next]_vars
               PROVE  Narrowed' \/ AnswerExact'
    OBVIOUS
  <2>1. CASE Next
    BY <2>1, AskExact DEF Next
  <2>2. CASE UNCHANGED vars
    <3>1. ins' = ins /\ fam' = fam /\ val' = val /\ asked' = asked /\ Env' = Env
      BY <2>2 DEF vars, Env
    <3>2. Narrowed => Narrowed'
      BY <3>1 DEF Narrowed
    <3>3. AnswerExact => AnswerExact'
      BY <3>1 DEF AnswerExact
    <3> QED
      BY <3>2, <3>3
  <2> QED
    BY <2>1, <2>2
<1> QED
  BY <1>1, <1>2, AlwaysValueInv, PTL DEF Spec

=============================================================================
