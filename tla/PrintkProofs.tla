---------------------------- MODULE PrintkProofs ----------------------------
(***************************************************************************)
(* printk stays in its format and its buffers, and what it prints for a    *)
(* number reads back, for all formats, arguments and times; the formats    *)
(* and numbers for which it does not are the hypotheses.                   *)
(***************************************************************************)
EXTENDS Printk, WellFoundedInduction, SequenceTheorems, TLAPS

-----------------------------------------------------------------------------
(***************************************************************************)
(* Recursion on natural numbers.                                           *)
(***************************************************************************)

\* A set that has each number whose predecessors it has has them all.
LEMMA Induction ==
    ASSUME NEW S, \A n \in Nat : (\A m \in 0 .. (n - 1) : m \in S) => n \in S
    PROVE  Nat \subseteq S
<1>1. IsWellFoundedOn({ss \in Nat \X Nat : ss[1] < ss[2]}, Nat)
  BY ONLY NatLessThanWellFounded, Zenon DEF OpToRel
<1>2. ASSUME NEW n \in Nat, n \notin S PROVE FALSE
  <2> DEFINE Off == Nat \ S
  <2>1. Off \subseteq Nat /\ Off # {}
    BY <1>2
  <2>2. PICK m \in Off : \A i \in Off : <<i, m>> \notin {ss \in Nat \X Nat : ss[1] < ss[2]}
    BY <1>1, <2>1, WFMin
  <2>3. m \in Nat /\ m \notin S
    OBVIOUS
  <2>4. \A i \in Nat : i < m => i \in S
    BY <2>2, <2>3
  <2>5. \A i \in 0 .. (m - 1) : i \in S
    BY <2>3, <2>4
  <2> QED BY <2>3, <2>5
<1> QED BY <1>2

\* f follows the recursive definition up to k.
Follows(f, k, first, prev, step) ==
    \A n \in 0 .. k : f[n] = IF n = 0 THEN first ELSE step[<<n, f[prev[n]]>>]

LEMMA FollowsUnique ==
    ASSUME NEW first, NEW step, NEW prev \in [Nat -> Nat],
           \A n \in Nat : n # 0 => prev[n] < n,
           NEW k \in Nat, NEW l \in Nat, NEW f, NEW g,
           Follows(f, k, first, prev, step), Follows(g, l, first, prev, step),
           NEW n \in Nat, n <= k, n <= l
    PROVE  f[n] = g[n]
<1> DEFINE S == {m \in Nat : m <= k /\ m <= l => f[m] = g[m]}
<1>1. ASSUME NEW m \in Nat, \A i \in 0 .. (m - 1) : i \in S
      PROVE  m \in S
  <2> SUFFICES ASSUME m <= k, m <= l PROVE f[m] = g[m]
    OBVIOUS
  <2>1. /\ f[m] = IF m = 0 THEN first ELSE step[<<m, f[prev[m]]>>]
        /\ g[m] = IF m = 0 THEN first ELSE step[<<m, g[prev[m]]>>]
    BY DEF Follows
  <2>2. m # 0 => prev[m] \in 0 .. (m - 1) /\ prev[m] <= k /\ prev[m] <= l
    OBVIOUS
  <2>3. m # 0 => f[prev[m]] = g[prev[m]]
    BY <1>1, <2>2
  <2> QED BY <2>1, <2>3
<1>2. Nat \subseteq S
  <2> HIDE DEF S
  <2> QED BY <1>1, Induction
<1> QED BY <1>2

LEMMA FollowsExists ==
    ASSUME NEW V, NEW first \in V, NEW prev \in [Nat -> Nat],
           \A n \in Nat : n # 0 => prev[n] < n, NEW step \in [Nat \X V -> V],
           NEW k \in Nat
    PROVE  \E f \in [0 .. k -> V] : Follows(f, k, first, prev, step)
<1> DEFINE S == {m \in Nat : \E f \in [0 .. m -> V] : Follows(f, m, first, prev, step)}
<1>1. ASSUME NEW m \in Nat, \A i \in 0 .. (m - 1) : i \in S
      PROVE  m \in S
  <2>1. CASE m = 0
    <3>1. Follows([n \in 0 .. 0 |-> first], 0, first, prev, step)
      BY DEF Follows
    <3> QED BY <2>1, <3>1
  <2>2. CASE m # 0
    <3>1. m - 1 \in Nat /\ m - 1 \in S /\ prev[m] \in 0 .. (m - 1)
      BY <1>1, <2>2
    <3>2. PICK f \in [0 .. (m - 1) -> V] : Follows(f, m - 1, first, prev, step)
      BY <3>1
    <3> DEFINE g == [n \in 0 .. m |-> IF n = m THEN step[<<m, f[prev[m]]>>] ELSE f[n]]
    <3>3. \A n \in 0 .. (m - 1) : f[n] = IF n = 0 THEN first ELSE step[<<n, f[prev[n]]>>]
      BY <3>2 DEF Follows
    <3>4. ASSUME NEW n \in 0 .. m
          PROVE  g[n] = IF n = 0 THEN first ELSE step[<<n, g[prev[n]]>>]
      <4>1. n # 0 => prev[n] \in 0 .. (m - 1) /\ prev[n] \in 0 .. m
        OBVIOUS
      <4>2. n # 0 => g[prev[n]] = f[prev[n]]
        BY <3>1, <4>1
      <4>3. n = m => g[n] = step[<<n, f[prev[n]]>>]
        OBVIOUS
      <4>4. n # m => n \in 0 .. (m - 1) /\ g[n] = f[n]
        OBVIOUS
      <4> HIDE DEF g
      <4> QED BY <2>2, <3>3, <4>2, <4>3, <4>4
    <3>5. Follows(g, m, first, prev, step)
      BY <3>4 DEF Follows
    <3>6. g \in [0 .. m -> V]
      <4>1. f[prev[m]] \in V
        BY <3>1, <3>2
      <4>2. step[<<m, f[prev[m]]>>] \in V
        BY <4>1
      <4>3. \A n \in 0 .. m : n # m => n \in 0 .. (m - 1)
        OBVIOUS
      <4>4. \A n \in 0 .. m : n # m => f[n] \in V
        BY <3>2, <4>3
      <4> QED BY <4>2, <4>4
    <3> QED BY <3>5, <3>6
  <2> QED BY <2>1, <2>2
<1>2. Nat \subseteq S
  <2> HIDE DEF S
  <2> QED BY <1>1, Induction
<1> QED BY <1>2

\* A recursive definition: the value at n is made from that at prev[n].
Recursive(V, first, prev, step) ==
    /\ first \in V
    /\ prev \in [Nat -> Nat] /\ \A n \in Nat : n # 0 => prev[n] < n
    /\ step \in [Nat \X V -> V]

Defines(h, first, prev, step) ==
    \A n \in Nat : h[n] = IF n = 0 THEN first ELSE step[<<n, h[prev[n]]>>]

\* What is defined from its value at a smaller number is defined everywhere.
LEMMA Recursion ==
    ASSUME NEW V, NEW first, NEW prev, NEW step, Recursive(V, first, prev, step)
    PROVE  \E h \in [Nat -> V] : Defines(h, first, prev, step)
<1> USE DEF Recursive, Defines
<1> DEFINE upTo(k) == CHOOSE f \in [0 .. k -> V] : Follows(f, k, first, prev, step)
           h == [n \in Nat |-> upTo(n)[n]]
<1>1. \A k \in Nat : upTo(k) \in [0 .. k -> V] /\ Follows(upTo(k), k, first, prev, step)
  BY FollowsExists
<1> HIDE DEF upTo
<1>2. h \in [Nat -> V]
  BY <1>1
<1>3. ASSUME NEW n \in Nat
      PROVE  h[n] = IF n = 0 THEN first ELSE step[<<n, h[prev[n]]>>]
  <2>1. upTo(n)[n] = IF n = 0 THEN first ELSE step[<<n, upTo(n)[prev[n]]>>]
    BY <1>1 DEF Follows
  <2>2. n # 0 => prev[n] \in Nat /\ prev[n] <= n
    OBVIOUS
  <2>3. ASSUME n # 0 PROVE upTo(n)[prev[n]] = upTo(prev[n])[prev[n]]
    <3>1. PICK p0 \in Nat : p0 = prev[n] /\ p0 <= n
      BY <2>2, <2>3
    <3>2. Follows(upTo(n), n, first, prev, step) /\ Follows(upTo(p0), p0, first, prev, step)
      BY <1>1
    <3>3. p0 <= p0
      OBVIOUS
    <3>4. upTo(n)[p0] = upTo(p0)[p0]
      BY <3>1, <3>2, <3>3, FollowsUnique
    <3> QED BY <3>1, <3>4
  <2> QED BY <2>1, <2>2, <2>3
<1> QED BY <1>2, <1>3

-----------------------------------------------------------------------------
(***************************************************************************)
(* Powers of 2.                                                            *)
(***************************************************************************)

LEMMA PowerOf2Def ==
    /\ PowerOf2 \in [Nat -> Nat]
    /\ PowerOf2[0] = 1
    /\ \A n \in Nat : PowerOf2[n + 1] = 2 * PowerOf2[n]
<1> DEFINE prev == [n \in Nat |-> IF n = 0 THEN 0 ELSE n - 1]
           step == [x \in Nat \X Nat |-> 2 * x[2]]
<1>1. \E h \in [Nat -> Nat] : Defines(h, 1, prev, step)
  <2>1. prev \in [Nat -> Nat] /\ \A n \in Nat : n # 0 => prev[n] < n
    OBVIOUS
  <2>2. step \in [Nat \X Nat -> Nat]
    OBVIOUS
  <2> HIDE DEF prev, step
  <2>3. Recursive(Nat, 1, prev, step)
    BY <2>1, <2>2 DEF Recursive
  <2> QED BY <2>3, Recursion
<1>2. PICK h \in [Nat -> Nat] : Defines(h, 1, prev, step)
  BY <1>1
<1> USE DEF Defines
<1>3. ASSUME NEW n \in Nat
      PROVE  h[n] = IF n = 0 THEN 1 ELSE 2 * h[n - 1]
  <2>1. CASE n = 0
    BY <1>2, <2>1
  <2>2. CASE n # 0
    <3>1. n - 1 \in Nat /\ h[n - 1] \in Nat /\ prev[n] = n - 1
      BY <2>2
    <3>2. step[<<n, h[n - 1]>>] = 2 * h[n - 1]
      BY <3>1
    <3> QED BY <1>2, <2>2, <3>1, <3>2
  <2> QED BY <2>1, <2>2
<1> HIDE DEF prev, step
<1>4. h = [n \in Nat |-> IF n = 0 THEN 1 ELSE 2 * h[n - 1]]
  BY <1>3
<1>5. PowerOf2 = [n \in Nat |-> IF n = 0 THEN 1 ELSE 2 * PowerOf2[n - 1]]
  BY <1>4, Zenon DEF PowerOf2
<1> DEFINE S == {n \in Nat : PowerOf2[n] \in Nat}
<1>6. ASSUME NEW n \in Nat, \A m \in 0 .. (n - 1) : m \in S
      PROVE  n \in S
  <2>1. n # 0 => n - 1 \in 0 .. (n - 1)
    OBVIOUS
  <2>2. n # 0 => PowerOf2[n - 1] \in Nat
    BY <1>6, <2>1
  <2>3. PowerOf2[n] = IF n = 0 THEN 1 ELSE 2 * PowerOf2[n - 1]
    BY <1>5
  <2> QED BY <2>2, <2>3
<1>7. Nat \subseteq S
  <2> HIDE DEF S
  <2> QED BY <1>6, Induction
<1> QED BY <1>5, <1>7

LEMMA PowerPositive == \A n \in Nat : PowerOf2[n] \in Nat /\ PowerOf2[n] >= 1
<1> DEFINE S == {n \in Nat : PowerOf2[n] >= 1}
<1>1. ASSUME NEW n \in Nat, \A m \in 0 .. (n - 1) : m \in S
      PROVE  n \in S
  <2>1. CASE n = 0
    BY <2>1, PowerOf2Def
  <2>2. CASE n # 0
    <3>1. n - 1 \in Nat /\ n - 1 \in S /\ n = (n - 1) + 1
      BY <1>1, <2>2
    <3>2. PowerOf2[n] = 2 * PowerOf2[n - 1] /\ PowerOf2[n - 1] \in Nat
      BY <3>1, PowerOf2Def
    <3> QED BY <3>1, <3>2
  <2> QED BY <2>1, <2>2
<1>2. Nat \subseteq S
  <2> HIDE DEF S
  <2> QED BY <1>1, Induction
<1> QED BY <1>2, PowerOf2Def

LEMMA PowerSum ==
    ASSUME NEW m \in Nat, NEW n \in Nat
    PROVE  PowerOf2[m + n] = PowerOf2[m] * PowerOf2[n]
<1> DEFINE S == {i \in Nat : PowerOf2[m + i] = PowerOf2[m] * PowerOf2[i]}
<1>1. ASSUME NEW i \in Nat, \A j \in 0 .. (i - 1) : j \in S
      PROVE  i \in S
  <2>1. CASE i = 0
    BY <2>1, PowerOf2Def
  <2>2. CASE i # 0
    <3> DEFINE j == i - 1
    <3>1. j \in Nat /\ j \in S /\ i = j + 1 /\ m + i = (m + j) + 1 /\ m + j \in Nat
      BY <1>1, <2>2
    <3>2. PowerOf2[m + j] = PowerOf2[m] * PowerOf2[j]
      BY <3>1
    <3>3. /\ PowerOf2[i] = 2 * PowerOf2[j] /\ PowerOf2[m + i] = 2 * PowerOf2[m + j]
          /\ PowerOf2[m] \in Nat /\ PowerOf2[j] \in Nat
      BY <3>1, PowerOf2Def
    <3>4. \A a, b \in Nat : 2 * (a * b) = a * (2 * b)
      OBVIOUS
    <3> QED BY <3>2, <3>3, <3>4
  <2> QED BY <2>1, <2>2
<1>2. Nat \subseteq S
  <2> HIDE DEF S
  <2> QED BY <1>1, Induction
<1> QED BY <1>2

LEMMA PowerMonotonic ==
    ASSUME NEW m \in Nat, NEW n \in Nat, m <= n
    PROVE  PowerOf2[m] <= PowerOf2[n]
<1>1. PICK i \in Nat : n = m + i
  <2>1. n - m \in Nat /\ n = m + (n - m)
    OBVIOUS
  <2> QED BY <2>1
<1>2. PowerOf2[n] = PowerOf2[m] * PowerOf2[i]
  BY <1>1, PowerSum
<1>3. \A a, b \in Nat : b >= 1 => a <= a * b
  OBVIOUS
<1> QED BY <1>2, <1>3, PowerPositive

LEMMA SmallPowers == /\ PowerOf2[1] = 2 /\ PowerOf2[3] = 8
                     /\ PowerOf2[4] = 16 /\ PowerOf2[13] = 8192
<1>1. PowerOf2[0] = 1 /\ \A n \in Nat : PowerOf2[n + 1] = 2 * PowerOf2[n]
  BY PowerOf2Def
<1>2. PowerOf2[0 + 1] = 2 /\ PowerOf2[1 + 1] = 4 /\ PowerOf2[2 + 1] = 8 /\ PowerOf2[3 + 1] = 16
  BY <1>1
<1>3. PowerOf2[1] = 2 /\ PowerOf2[3] = 8 /\ PowerOf2[4] = 16
  BY <1>2
<1>4. PowerOf2[4 + 1] = 32 /\ PowerOf2[5 + 1] = 64 /\ PowerOf2[6 + 1] = 128
  BY <1>1, <1>3
<1>5. PowerOf2[7 + 1] = 256 /\ PowerOf2[8 + 1] = 512 /\ PowerOf2[9 + 1] = 1024
  BY <1>1, <1>4
<1>6. PowerOf2[10 + 1] = 2048 /\ PowerOf2[11 + 1] = 4096 /\ PowerOf2[12 + 1] = 8192
  BY <1>1, <1>5
<1> QED BY <1>3, <1>6

\* The words of the kernel fit 64 bits, and their least number is a half of them.
LEMMA Words ==
    /\ LongMod \in Nat \ {0} /\ IntMod \in Nat \ {0}
    /\ LongMod <= PowerOf2[64]
    /\ LongMod = 2 * (LongMod \div 2) /\ IntMod = 2 * (IntMod \div 2)
<1>1. ASSUME NEW mod, NEW bits \in 1 .. 64, mod = PowerOf2[bits]
      PROVE  mod \in Nat \ {0} /\ mod <= PowerOf2[64] /\ mod = 2 * (mod \div 2)
  <2>1. bits \in Nat /\ bits <= 64 /\ 64 \in Nat
    OBVIOUS
  <2>2. mod <= PowerOf2[64]
    BY <1>1, <2>1, PowerMonotonic
  <2>3. bits - 1 \in Nat /\ bits = (bits - 1) + 1
    OBVIOUS
  <2>4. mod = 2 * PowerOf2[bits - 1] /\ PowerOf2[bits - 1] \in Nat /\ PowerOf2[bits - 1] >= 1
    BY <1>1, <2>3, PowerOf2Def, PowerPositive
  <2> QED BY <2>2, <2>4
<1>2. PICK long \in 1 .. 64 : LongMod = PowerOf2[long]
  BY LongAssumption
<1>3. PICK int \in 1 .. 64 : IntMod = PowerOf2[int]
  BY IntAssumption
<1> QED BY <1>1, <1>2, <1>3

-----------------------------------------------------------------------------
(***************************************************************************)
(* Digits.                                                                 *)
(***************************************************************************)

DigitsIn(base) == {Digits[d] : d \in 1 .. base}

LEMMA DivisionBy ==
    ASSUME NEW base \in Nat, base >= 2, NEW n \in Nat
    PROVE  /\ n \div base \in Nat /\ n % base \in 0 .. (base - 1)
           /\ n = (n \div base) * base + (n % base)
           /\ n # 0 => n \div base < n
<1>1. /\ n \div base \in Nat /\ n % base \in 0 .. (base - 1)
      /\ n = (n \div base) * base + (n % base)
  OBVIOUS
<1>2. \A q, b, r \in Nat : b >= 2 /\ q * b + r # 0 => q < q * b + r
  OBVIOUS
<1> QED BY <1>1, <1>2

\* LowDigits conforms to its equation.
LEMMA LowDef ==
    ASSUME NEW base \in 2 .. 16
    PROVE  /\ LowDigits(0, base) = << >>
           /\ \A n \in Nat \ {0} :
                 LowDigits(n, base) = << Digits[(n % base) + 1] >> \o LowDigits(n \div base, base)
           /\ \A n \in Nat : LowDigits(n, base) \in Seq(DigitsIn(base))
<1> DEFINE V == Seq(DigitsIn(base))
           prev == [n \in Nat |-> n \div base]
           step == [x \in Nat \X V |-> << Digits[(x[1] % base) + 1] >> \o x[2]]
           low[m \in Nat] == IF m = 0 THEN << >>
                             ELSE << Digits[(m % base) + 1] >> \o low[m \div base]
<1>1. \A n \in Nat : n \div base \in Nat /\ (n # 0 => n \div base < n)
  BY DivisionBy
<1>2. \A n \in Nat : << Digits[(n % base) + 1] >> \in V
  <2>1. \A n \in Nat : (n % base) + 1 \in 1 .. base
    BY DivisionBy
  <2> QED BY <2>1 DEF DigitsIn
<1>3. Recursive(V, << >>, prev, step)
  <2>1. << >> \in V
    OBVIOUS
  <2>2. prev \in [Nat -> Nat] /\ \A n \in Nat : n # 0 => prev[n] < n
    BY <1>1
  <2>3. \A n \in Nat, v \in V : << Digits[(n % base) + 1] >> \o v \in V
    <3>1. \A s, t \in V : s \o t \in V
      BY ConcatProperties
    <3> HIDE DEF V
    <3> QED BY <1>2, <3>1
  <2>4. step \in [Nat \X V -> V]
    BY <2>3
  <2> HIDE DEF V, prev, step
  <2> QED BY <2>1, <2>2, <2>4 DEF Recursive
<1> HIDE DEF V
<1>4. PICK h \in [Nat -> V] : Defines(h, << >>, prev, step)
  <2> HIDE DEF prev, step
  <2> QED BY <1>3, Recursion
<1>5. \A n \in Nat : h[n] = IF n = 0 THEN << >>
                            ELSE << Digits[(n % base) + 1] >> \o h[n \div base]
  BY <1>1, <1>4 DEF Defines
<1>6. h = [n \in Nat |-> IF n = 0 THEN << >>
                         ELSE << Digits[(n % base) + 1] >> \o h[n \div base]]
  BY <1>5
<1>7. low = [n \in Nat |-> IF n = 0 THEN << >>
                           ELSE << Digits[(n % base) + 1] >> \o low[n \div base]]
  BY <1>6, Zenon
<1>8. \A n \in Nat : LowDigits(n, base) = low[n]
  BY Zenon DEF LowDigits
<1> HIDE DEF low, prev, step
<1>9. low = h
  <2> DEFINE S == {n \in Nat : low[n] = h[n]}
  <2>1. ASSUME NEW n \in Nat, \A m \in 0 .. (n - 1) : m \in S
        PROVE  n \in S
    <3>1. n # 0 => n \div base \in 0 .. (n - 1)
      BY <1>1
    <3>2. n # 0 => low[n \div base] = h[n \div base]
      BY <2>1, <3>1
    <3> QED BY <1>5, <1>7, <3>2
  <2>2. Nat \subseteq S
    <3> HIDE DEF S
    <3> QED BY <2>1, Induction
  <2> QED BY <1>6, <1>7, <2>2
<1>10. \A n \in Nat : LowDigits(n, base) = h[n]
  BY <1>8, <1>9
<1> QED BY <1>1, <1>5, <1>10 DEF V

LEMMA DigitsDistinct ==
    /\ Digits[1] = "0" /\ Digits[1] # "-"
    /\ \A d, e \in 1 .. 16 : Digits[d] = Digits[e] => d = e
    /\ \A d \in 1 .. 16 : DigitOf(Digits[d]) = d - 1
<1>1. Digits[1] = "0" /\ Digits[1] # "-"
  BY DEF Digits
<1>2. ASSUME NEW d \in 1 .. 16, NEW e \in 1 .. 16, Digits[d] = Digits[e]
      PROVE  d = e
  BY <1>2, SMTT(60) DEF Digits
<1>3. ASSUME NEW d \in 1 .. 16
      PROVE  DigitOf(Digits[d]) = d - 1
  <2>1. (CHOOSE e \in 1 .. 16 : Digits[e] = Digits[d]) = d
    BY <1>2
  <2> QED BY <2>1 DEF DigitOf
<1> QED BY <1>1, <1>2, <1>3

\* The lowest digit, and the others.
LEMMA LowStep ==
    ASSUME NEW base \in 2 .. 16, NEW n \in Nat \ {0}
    PROVE  \E q \in Nat, r \in Nat :
              /\ r < base /\ n = q * base + r /\ q < n
              /\ q * base \in Nat
              /\ LowDigits(n, base) = << Digits[r + 1] >> \o LowDigits(q, base)
<1> DEFINE q == n \div base
           r == n % base
<1>1. /\ q \in Nat /\ r \in 0 .. (base - 1) /\ n = q * base + r /\ q < n
  <2>1. base \in Nat /\ base >= 2 /\ n \in Nat /\ n # 0
    OBVIOUS
  <2> QED BY ONLY <2>1, DivisionBy, Zenon
<1>2. LowDigits(n, base) = << Digits[r + 1] >> \o LowDigits(q, base)
  BY LowDef
<1> HIDE DEF q, r
<1>3. base \in Nat /\ q * base \in Nat
  BY <1>1
<1>4. r \in Nat /\ r < base
  BY <1>1
<1> QED BY <1>1, <1>2, <1>3, <1>4

LEMMA LowZero == ASSUME NEW base \in 2 .. 16 PROVE LowDigits(0, base) = << >>
BY LowDef, Zenon

LEMMA LowType ==
    ASSUME NEW base \in 2 .. 16, NEW n \in Nat
    PROVE  /\ LowDigits(n, base) \in Seq(DigitsIn(base))
           /\ Len(LowDigits(n, base)) \in Nat
<1>1. LowDigits(n, base) \in Seq(DigitsIn(base))
  BY LowDef, Zenon
<1> QED BY <1>1, LenProperties

LEMMA LowLength ==
    ASSUME NEW base \in 2 .. 16, NEW n \in Nat \ {0}
    PROVE  \E q \in Nat, r \in Nat :
              /\ r < base /\ n = q * base + r /\ q * base \in Nat
              /\ Len(LowDigits(n, base)) = 1 + Len(LowDigits(q, base))
<1>1. PICK q \in Nat, r \in Nat :
         /\ r < base /\ n = q * base + r /\ q * base \in Nat
         /\ LowDigits(n, base) = << Digits[r + 1] >> \o LowDigits(q, base)
  BY LowStep
<1>2. ASSUME NEW S, NEW s \in Seq(S), NEW d PROVE Len(<< d >> \o s) = 1 + Len(s)
  OBVIOUS
<1>3. Len(<< Digits[r + 1] >> \o LowDigits(q, base)) = 1 + Len(LowDigits(q, base))
  BY <1>2, LowType
<1> QED BY <1>1, <1>3

\* Numbers of j * i bits have at most d * i digits.
Within(base, j, d, i) ==
    \A m \in Nat : m < PowerOf2[j * i] => Len(LowDigits(m, base)) <= d * i

LEMMA WithinStart ==
    ASSUME NEW base \in 2 .. 16, NEW j \in Nat, NEW d \in Nat
    PROVE  Within(base, j, d, 0)
<1>1. j * 0 = 0 /\ d * 0 = 0
  OBVIOUS
<1>2. \A m \in Nat : m < PowerOf2[0] => m = 0
  BY PowerOf2Def
<1>3. Len(LowDigits(0, base)) <= 0
  <2>1. Len(<< >>) = 0
    OBVIOUS
  <2> QED BY <2>1, LowZero
<1> QED BY <1>1, <1>2, <1>3 DEF Within

\* It is enough that each d digits take off j bits.
LEMMA WithinInduction ==
    ASSUME NEW base \in 2 .. 16, NEW j \in Nat, NEW d \in Nat,
           \A i \in Nat : Within(base, j, d, i) => Within(base, j, d, i + 1)
    PROVE  \A i \in Nat : Within(base, j, d, i)
<1> DEFINE S == {i \in Nat : Within(base, j, d, i)}
<1>1. ASSUME NEW i \in Nat, \A l \in 0 .. (i - 1) : l \in S
      PROVE  i \in S
  <2>1. CASE i = 0
    BY <2>1, WithinStart
  <2>2. CASE i # 0
    <3>1. i - 1 \in Nat /\ i - 1 \in S /\ i = (i - 1) + 1
      BY <1>1, <2>2
    <3> QED BY <3>1
  <2> QED BY <2>1, <2>2
<1>2. Nat \subseteq S
  <2> HIDE DEF S
  <2> QED BY <1>1, Induction
<1> QED BY <1>2

LEMMA ProductNext ==
    ASSUME NEW j \in Nat, NEW i \in Nat
    PROVE  j * i \in Nat /\ j * (i + 1) = j * i + j
OBVIOUS

\* A digit takes off at least j bits.
LEMMA DigitsBound ==
    ASSUME NEW base \in 2 .. 16, NEW j \in Nat, PowerOf2[j] <= base
    PROVE  \A i \in Nat : Within(base, j, 1, i)
<1>1. ASSUME NEW i \in Nat, Within(base, j, 1, i), NEW m \in Nat,
             m < PowerOf2[j * (i + 1)]
      PROVE  Len(LowDigits(m, base)) <= i + 1
  <2>1. CASE m = 0
    <3>1. Len(<< >>) = 0
      OBVIOUS
    <3> QED BY <2>1, <3>1, LowZero
  <2>2. CASE m # 0
    <3>1. PICK P \in Nat : P = PowerOf2[j * i]
      BY ProductNext, PowerPositive
    <3>2. PICK Q \in Nat : Q = PowerOf2[j] /\ Q <= base
      BY PowerPositive
    <3>3. PICK k \in Nat : k = j * i /\ j * (i + 1) = k + j
      BY ProductNext
    <3>4. PowerOf2[k + j] = P * Q
      BY <3>1, <3>2, <3>3, PowerSum
    <3>5. PICK q \in Nat, r \in Nat :
             /\ r < base /\ m = q * base + r /\ q * base \in Nat
             /\ Len(LowDigits(m, base)) = 1 + Len(LowDigits(q, base))
      BY <2>2, LowLength
    <3>6. q < P
      <4>1. base \in Nat
        OBVIOUS
      <4>2. \A b, c, x, y \in Nat : c <= b /\ y <= x => y * c <= x * b
        OBVIOUS
      <4>3. q >= P => P * Q <= q * base
        BY <3>1, <3>2, <3>5, <4>1, <4>2
      <4>4. P * Q \in Nat
        BY <3>1, <3>2
      <4>5. m < P * Q
        BY <1>1, <3>3, <3>4
      <4> HIDE <3>3
      <4> QED BY <3>1, <3>5, <4>3, <4>4, <4>5
    <3>7. Len(LowDigits(q, base)) <= 1 * i
      BY <1>1, <3>1, <3>6, Zenon DEF Within
    <3>8. Len(LowDigits(q, base)) \in Nat
      BY LowType
    <3> QED BY <3>5, <3>7, <3>8
  <2> QED BY <2>1, <2>2
<1>2. \A i \in Nat : 1 * (i + 1) = i + 1
  OBVIOUS
<1>3. \A i \in Nat : Within(base, j, 1, i) => Within(base, j, 1, i + 1)
  BY <1>1, <1>2 DEF Within
<1> QED BY <1>3, WithinInduction, Zenon

LEMMA DecimalStep ==
    ASSUME NEW n \in Nat \ {0}
    PROVE  \E m \in Nat : /\ 10 * m <= n /\ n <= 10 * m + 9
                         /\ Len(LowDigits(n, 10)) = 1 + Len(LowDigits(m, 10))
<1>1. \A b \in 2 .. 16 : \E q \in Nat, r \in Nat :
         /\ r < b /\ n = q * b + r /\ q * b \in Nat
         /\ Len(LowDigits(n, b)) = 1 + Len(LowDigits(q, b))
  BY LowLength
<1>2. 10 \in 2 .. 16
  OBVIOUS
<1>3. PICK q \in Nat : \E r \in Nat :
         /\ r < 10 /\ n = q * 10 + r /\ q * 10 \in Nat
         /\ Len(LowDigits(n, 10)) = 1 + Len(LowDigits(q, 10))
  BY <1>1, <1>2, Zenon
<1>4. 10 * q <= n /\ n <= 10 * q + 9
  BY <1>3
<1> QED BY <1>3, <1>4

DecimalLength(n) == Len(LowDigits(n, 10))

\* Four decimal digits take off at least 13.
LEMMA FourDigits ==
    ASSUME NEW n \in Nat, NEW P \in Nat, NEW B \in Nat, B = 8192 * P, n < B
    PROVE  \E m \in Nat : m < P /\ DecimalLength(n) <= 4 + DecimalLength(m)
<1>1. ASSUME NEW i \in Nat
      PROVE  /\ DecimalLength(i) \in Nat
             /\ \E k \in Nat : 10 * k <= i /\ DecimalLength(i) <= 1 + DecimalLength(k)
  <2>0. 10 \in 2 .. 16
    OBVIOUS
  <2>1. DecimalLength(i) \in Nat
    BY <2>0, LowType DEF DecimalLength
  <2>2. CASE i = 0
    BY <2>1, <2>2
  <2>3. CASE i # 0
    <3>0. i \in Nat \ {0}
      BY <2>3
    <3>1. PICK k \in Nat : 10 * k <= i /\ DecimalLength(i) = 1 + DecimalLength(k)
      BY <3>0, DecimalStep DEF DecimalLength
    <3>2. DecimalLength(k) \in Nat
      BY <2>0, LowType DEF DecimalLength
    <3> QED BY <2>1, <3>1, <3>2
  <2> QED BY <2>1, <2>2, <2>3
<1>2. PICK a \in Nat : 10 * a <= n /\ DecimalLength(n) <= 1 + DecimalLength(a)
  BY <1>1
<1>3. PICK b \in Nat : 10 * b <= a /\ DecimalLength(a) <= 1 + DecimalLength(b)
  BY <1>1
<1>4. PICK c \in Nat : 10 * c <= b /\ DecimalLength(b) <= 1 + DecimalLength(c)
  BY <1>1
<1>5. PICK d \in Nat : 10 * d <= c /\ DecimalLength(c) <= 1 + DecimalLength(d)
  BY <1>1
<1>6. d < P
  BY <1>2, <1>3, <1>4, <1>5
<1>7. DecimalLength(n) <= 4 + DecimalLength(d)
  BY <1>1, <1>2, <1>3, <1>4, <1>5
<1> QED BY <1>6, <1>7

LEMMA DecimalBound == \A i \in Nat : Within(10, 13, 4, i)
<1>1. ASSUME NEW i \in Nat, Within(10, 13, 4, i)
      PROVE  Within(10, 13, 4, i + 1)
  <2> SUFFICES ASSUME NEW m \in Nat, m < PowerOf2[13 * (i + 1)]
               PROVE  Len(LowDigits(m, 10)) <= 4 * (i + 1)
    BY DEF Within
  <2>1. PICK e \in Nat : e = 13 * i /\ 13 * (i + 1) = e + 13
    OBVIOUS
  <2>2. PICK P \in Nat : P = PowerOf2[e]
    BY PowerPositive
  <2>3. PowerOf2[e + 13] = P * PowerOf2[13]
    BY <2>2, PowerSum
  <2>4. PICK B \in Nat : B = 8192 * P /\ m < B
    BY <2>1, <2>2, <2>3, SmallPowers
  <2>5. PICK l \in Nat : l < P /\ DecimalLength(m) <= 4 + DecimalLength(l)
    BY <2>4, FourDigits
  <2>6. DecimalLength(l) <= 4 * i
    BY <1>1, <2>1, <2>2, <2>5 DEF Within, DecimalLength
  <2>7. 10 \in 2 .. 16
    OBVIOUS
  <2>8. DecimalLength(l) \in Nat /\ DecimalLength(m) \in Nat
    BY <2>7, LowType DEF DecimalLength
  <2>9. DecimalLength(m) <= 4 * (i + 1)
    BY <2>5, <2>6, <2>8
  <2> QED BY <2>9 DEF DecimalLength
<1>2. 10 \in 2 .. 16
  OBVIOUS
<1> QED BY <1>1, <1>2, WithinInduction

\* No number of 64 bits has more digits than its padding or than num of
\* decimal_to_base can hold.
LEMMA PaddingFits ==
    ASSUME NEW base \in {2, 8, 10, 16}, NEW n \in 0 .. (LongMod - 1)
    PROVE  /\ Len(LowDigits(n, base)) <= 64
           /\ PadTo(base) > 0 => Len(LowDigits(n, base)) <= PadTo(base)
<1>1. n \in Nat /\ n < PowerOf2[64] /\ base \in 2 .. 16 /\ Len(LowDigits(n, base)) \in Nat
  <2>1. n \in Nat /\ n < PowerOf2[64]
    BY Words, PowerPositive
  <2>2. base \in 2 .. 16
    OBVIOUS
  <2> QED BY <2>1, <2>2, LowType
<1>2. ASSUME NEW j \in Nat, NEW d \in Nat, NEW i \in Nat, j * i >= 64, Within(base, j, d, i)
      PROVE  Len(LowDigits(n, base)) <= d * i
  <2>1. PowerOf2[64] <= PowerOf2[j * i] /\ PowerOf2[64] \in Nat /\ PowerOf2[j * i] \in Nat
    BY <1>2, ProductNext, PowerMonotonic, PowerPositive
  <2> QED BY <1>1, <1>2, <2>1 DEF Within
<1>3. CASE base = 2
  <2>1. Within(base, 1, 1, 64)
    <3>1. PowerOf2[1] <= base /\ 1 \in Nat /\ 64 \in Nat
      BY <1>3, SmallPowers
    <3> QED BY <1>1, <3>1, DigitsBound
  <2>2. Len(LowDigits(n, base)) <= 64
    BY <1>2, <2>1
  <2> QED BY <1>3, <2>2 DEF PadTo
<1>4. CASE base = 16
  <2>1. Within(base, 4, 1, 16)
    <3>1. PowerOf2[4] <= base /\ 4 \in Nat /\ 16 \in Nat
      BY <1>4, SmallPowers
    <3> QED BY <1>1, <3>1, DigitsBound
  <2>2. Len(LowDigits(n, base)) <= 16
    BY <1>2, <2>1
  <2> QED BY <1>1, <1>4, <2>2 DEF PadTo
<1>5. CASE base = 10
  <2>1. Within(base, 13, 4, 5)
    BY <1>5, DecimalBound
  <2>2. Len(LowDigits(n, base)) <= 20
    BY <1>2, <2>1
  <2> QED BY <1>1, <1>5, <2>2 DEF PadTo
<1>6. CASE base = 8
  <2>1. Within(base, 3, 1, 22)
    <3>1. PowerOf2[3] <= base /\ 3 \in Nat /\ 22 \in Nat
      BY <1>6, SmallPowers
    <3> QED BY <1>1, <3>1, DigitsBound
  <2>2. Len(LowDigits(n, base)) <= 22
    BY <1>2, <2>1
  <2> QED BY <1>1, <1>6, <2>2 DEF PadTo
<1> QED BY <1>3, <1>4, <1>5, <1>6

-----------------------------------------------------------------------------
(***************************************************************************)
(* The value of a text.                                                    *)
(***************************************************************************)

\* The values of what stands before each place of a text.
Beginnings(h, text, base) ==
    /\ h \in [0 .. Len(text) -> Nat] /\ h[0] = 0
    /\ \A k \in 1 .. Len(text) : h[k] = h[k - 1] * base + DigitOf(text[k])

LEMMA DigitValue ==
    ASSUME NEW base \in 2 .. 16, NEW c \in DigitsIn(base)
    PROVE  /\ DigitOf(c) \in Nat /\ c # "-"
           /\ c = "0" <=> DigitOf(c) = 0
<1>1. PICK d \in 1 .. base : c = Digits[d]
  BY DEF DigitsIn
<1>2. d \in 1 .. 16 /\ DigitOf(c) = d - 1
  BY <1>1, DigitsDistinct
<1>3. \A e \in 1 .. 16 : Digits[e] # "-"
  BY SMTT(30) DEF Digits
<1>4. c = "0" <=> d = 1
  BY <1>1, <1>2, DigitsDistinct
<1> QED BY <1>1, <1>2, <1>3, <1>4

LEMMA PrefixesExist ==
    ASSUME NEW base \in 2 .. 16, NEW text \in Seq(DigitsIn(base))
    PROVE  \E h : Beginnings(h, text, base)
<1> DEFINE digit(k) == DigitOf(text[k])
           prev == [n \in Nat |-> IF n = 0 THEN 0 ELSE n - 1]
           step == [x \in Nat \X Nat |->
                      IF x[1] \in 1 .. Len(text) THEN x[2] * base + digit(x[1]) ELSE 0]
<1>1. Len(text) \in Nat
  OBVIOUS
<1>2. \A k \in 1 .. Len(text) : digit(k) \in Nat
  <2>1. \A k \in 1 .. Len(text) : text[k] \in DigitsIn(base)
    OBVIOUS
  <2> QED BY <2>1, DigitValue
<1> HIDE DEF digit
<1>3. Recursive(Nat, 0, prev, step)
  <2>1. prev \in [Nat -> Nat] /\ \A n \in Nat : n # 0 => prev[n] < n
    OBVIOUS
  <2>2. \A v \in Nat, e \in Nat : v * base + e \in Nat
    OBVIOUS
  <2>3. step \in [Nat \X Nat -> Nat]
    BY <1>2, <2>2
  <2> HIDE DEF prev, step
  <2> QED BY <2>1, <2>3 DEF Recursive
<1>4. PICK g \in [Nat -> Nat] : Defines(g, 0, prev, step)
  <2> HIDE DEF prev, step
  <2> QED BY <1>3, Recursion
<1> DEFINE h == [k \in 0 .. Len(text) |-> g[k]]
<1>5. ASSUME NEW k \in 1 .. Len(text)
      PROVE  h[k] = h[k - 1] * base + digit(k)
  <2>1. /\ k \in Nat /\ k # 0 /\ k \in 0 .. Len(text)
        /\ k - 1 \in 0 .. Len(text) /\ k - 1 \in Nat
    <3>1. \A n \in Nat : \A i \in 1 .. n : /\ i \in Nat /\ i # 0 /\ i \in 0 .. n
                                           /\ i - 1 \in 0 .. n /\ i - 1 \in Nat
      BY ONLY TRUE
    <3> QED BY <1>1, <3>1, Zenon
  <2>2. prev[k] = k - 1
    BY <2>1
  <2>3. g[k] = step[<<k, g[k - 1]>>]
    BY <1>4, <2>1, <2>2, Zenon DEF Defines
  <2>4. g[k - 1] \in Nat
    BY <2>1
  <2>5. step[<<k, g[k - 1]>>] = g[k - 1] * base + digit(k)
    BY <2>1, <2>4
  <2>6. h[k] = g[k] /\ h[k - 1] = g[k - 1]
    BY <2>1
  <2> QED BY <2>3, <2>5, <2>6
<1>6. g[0] = 0
  BY <1>4 DEF Defines
<1>7. h \in [0 .. Len(text) -> Nat] /\ h[0] = 0
  BY <1>1, <1>6
<1> HIDE DEF h
<1> QED BY <1>5, <1>7 DEF Beginnings, digit

LEMMA ValueIs ==
    ASSUME NEW base \in 2 .. 16, NEW text \in Seq(DigitsIn(base)),
           NEW h, Beginnings(h, text, base)
    PROVE  Value(text, base) = h[Len(text)]
<1> DEFINE value[k \in 0 .. Len(text)] ==
               IF k = 0 THEN 0 ELSE value[k - 1] * base + DigitOf(text[k])
<1>1. Len(text) \in Nat
  OBVIOUS
<1>2. h = [k \in 0 .. Len(text) |->
             IF k = 0 THEN 0 ELSE h[k - 1] * base + DigitOf(text[k])]
  BY <1>1 DEF Beginnings
<1>3. value = [k \in 0 .. Len(text) |->
             IF k = 0 THEN 0 ELSE value[k - 1] * base + DigitOf(text[k])]
  BY <1>2, Zenon
<1>4. Value(text, base) = value[Len(text)]
  BY Zenon DEF Value
<1> HIDE DEF value
<1> DEFINE S == {k \in Nat : k <= Len(text) => value[k] = h[k]}
<1>5. ASSUME NEW k \in Nat, \A m \in 0 .. (k - 1) : m \in S
      PROVE  k \in S
  <2>1. k # 0 => k - 1 \in 0 .. (k - 1)
    OBVIOUS
  <2>2. k # 0 /\ k <= Len(text) => value[k - 1] = h[k - 1]
    BY <1>5, <2>1, <1>1
  <2>3. k <= Len(text) => k \in 0 .. Len(text)
    BY <1>1
  <2> QED BY <1>2, <1>3, <2>2, <2>3
<1>6. Nat \subseteq S
  <2> HIDE DEF S
  <2> QED BY <1>5, Induction
<1> QED BY <1>1, <1>4, <1>6

LEMMA ValueEmpty == ASSUME NEW base \in 2 .. 16 PROVE Value(<< >>, base) = 0
<1> DEFINE h == [k \in 0 .. 0 |-> 0]
<1>1. << >> \in Seq(DigitsIn(base)) /\ Len(<< >>) = 0
  OBVIOUS
<1>2. Beginnings(h, << >>, base)
  BY DEF Beginnings
<1>3. h[Len(<< >>)] = 0
  OBVIOUS
<1> HIDE DEF h
<1> QED BY <1>1, <1>2, <1>3, ValueIs

\* One more digit, at the end.
LEMMA ValueAppend ==
    ASSUME NEW base \in 2 .. 16, NEW text \in Seq(DigitsIn(base)),
           NEW c \in DigitsIn(base)
    PROVE  Value(Append(text, c), base) = Value(text, base) * base + DigitOf(c)
<1> DEFINE longer == Append(text, c)
<1>1. /\ longer \in Seq(DigitsIn(base)) /\ Len(longer) = Len(text) + 1
      /\ Len(text) \in Nat
      /\ longer[Len(text) + 1] = c /\ \A k \in 1 .. Len(text) : longer[k] = text[k]
  BY AppendProperties
<1> HIDE DEF longer
<1>2. PICK h : Beginnings(h, text, base)
  BY PrefixesExist
<1>3. h \in [0 .. Len(text) -> Nat] /\ h[0] = 0 /\ h[Len(text)] \in Nat /\ DigitOf(c) \in Nat
  <2>1. DigitOf(c) \in Nat
    BY DigitValue
  <2>2. h \in [0 .. Len(text) -> Nat] /\ h[0] = 0
    BY <1>2 DEF Beginnings
  <2>3. Len(text) \in 0 .. Len(text)
    BY <1>1
  <2> QED BY <2>1, <2>2, <2>3
<1>4. h[Len(text)] * base + DigitOf(c) \in Nat
  BY <1>3
<1> DEFINE g == [k \in 0 .. Len(longer) |->
                   IF k = Len(text) + 1 THEN h[Len(text)] * base + DigitOf(c) ELSE h[k]]
<1>5. ASSUME NEW k \in 1 .. Len(longer)
      PROVE  g[k] = g[k - 1] * base + DigitOf(longer[k])
  <2>1. CASE k = Len(text) + 1
    <3>1. g[k - 1] = h[Len(text)]
      BY <1>1, <2>1
    <3> QED BY <1>1, <2>1, <3>1
  <2>2. CASE k # Len(text) + 1
    <3>1. k \in 1 .. Len(text) /\ k - 1 \in 0 .. Len(text)
      BY <1>1, <2>2
    <3>2. g[k] = h[k] /\ g[k - 1] = h[k - 1]
      BY <1>1, <3>1
    <3>3. h[k] = h[k - 1] * base + DigitOf(text[k])
      BY <1>2, <3>1 DEF Beginnings
    <3> QED BY <1>1, <3>1, <3>2, <3>3
  <2> QED BY <2>1, <2>2
<1>6. g \in [0 .. Len(longer) -> Nat]
  BY <1>1, <1>3, <1>4
<1>7. g[0] = 0 /\ g[Len(longer)] = h[Len(text)] * base + DigitOf(c)
  BY <1>1, <1>3
<1> HIDE DEF g
<1>8. Beginnings(g, longer, base)
  BY <1>5, <1>6, <1>7 DEF Beginnings
<1>9. Value(longer, base) = g[Len(longer)] /\ Value(text, base) = h[Len(text)]
  BY <1>1, <1>2, <1>8, ValueIs
<1> QED BY <1>7, <1>9 DEF longer

Zeros(m) == [k \in 1 .. m |-> "0"]

\* Zeros in front keep the value.
LEMMA ValueZeros ==
    ASSUME NEW base \in 2 .. 16, NEW text \in Seq(DigitsIn(base)), NEW m \in Nat
    PROVE  /\ Zeros(m) \o text \in Seq(DigitsIn(base))
           /\ Len(Zeros(m) \o text) = m + Len(text)
           /\ Value(Zeros(m) \o text, base) = Value(text, base)
<1> DEFINE longer == Zeros(m) \o text
<1>1. "0" \in DigitsIn(base)
  <2>1. 1 \in 1 .. base
    OBVIOUS
  <2> QED BY <2>1, DigitsDistinct, Zenon DEF DigitsIn
<1>2. Zeros(m) \in Seq(DigitsIn(base)) /\ Len(Zeros(m)) = m /\ Len(text) \in Nat
  BY <1>1 DEF Zeros
<1>3. /\ longer \in Seq(DigitsIn(base)) /\ Len(longer) = m + Len(text)
      /\ \A k \in 1 .. m : longer[k] = "0"
      /\ \A k \in 1 .. Len(text) : longer[m + k] = text[k]
  <2>1. longer \in Seq(DigitsIn(base)) /\ Len(longer) = m + Len(text)
    BY <1>2, ConcatProperties
  <2>2. ASSUME NEW k \in 1 .. m PROVE longer[k] = "0"
    <3>1. k <= Len(Zeros(m)) /\ k \in 1 .. (Len(Zeros(m)) + Len(text))
      BY <1>2
    <3>2. longer[k] = Zeros(m)[k]
      BY <1>2, <3>1, ConcatProperties
    <3> QED BY <3>2 DEF Zeros
  <2>3. ASSUME NEW k \in 1 .. Len(text) PROVE longer[m + k] = text[k]
    <3>1. m + k \in 1 .. (Len(Zeros(m)) + Len(text)) /\ ~(m + k <= Len(Zeros(m)))
          /\ (m + k) - Len(Zeros(m)) = k
      BY <1>2
    <3> QED BY <1>2, <3>1, ConcatProperties
  <2> QED BY <2>1, <2>2, <2>3
<1> HIDE DEF longer
<1>4. PICK h : Beginnings(h, text, base)
  BY PrefixesExist
<1>5. h \in [0 .. Len(text) -> Nat] /\ h[0] = 0
  BY <1>4 DEF Beginnings
<1> DEFINE g == [k \in 0 .. Len(longer) |-> IF k <= m THEN 0 ELSE h[k - m]]
<1>6. ASSUME NEW k \in 1 .. Len(longer)
      PROVE  g[k] = g[k - 1] * base + DigitOf(longer[k])
  <2>1. CASE k <= m
    <3>1. g[k] = 0 /\ g[k - 1] = 0 /\ longer[k] = "0"
      BY <1>3, <2>1
    <3>2. DigitOf("0") = 0
      BY <1>1, DigitValue
    <3> QED BY <3>1, <3>2
  <2>2. CASE ~(k <= m)
    <3>1. PICK j \in 1 .. Len(text) : k = m + j
      <4>1. k - m \in 1 .. Len(text) /\ k = m + (k - m)
        BY <1>2, <1>3, <2>2
      <4> QED BY <4>1
    <3>2. g[k] = h[j]
      BY <1>2, <1>3, <3>1
    <3>3. g[k - 1] = h[j - 1]
      BY <1>2, <1>3, <1>5, <3>1
    <3>4. h[j] = h[j - 1] * base + DigitOf(text[j])
      BY <1>4 DEF Beginnings
    <3> QED BY <1>3, <3>1, <3>2, <3>3, <3>4
  <2> QED BY <2>1, <2>2
<1>7. g \in [0 .. Len(longer) -> Nat] /\ g[0] = 0
  BY <1>2, <1>3, <1>5
<1>8. g[Len(longer)] = h[Len(text)]
  BY <1>2, <1>3, <1>5
<1> HIDE DEF g
<1>9. Beginnings(g, longer, base)
  BY <1>6, <1>7 DEF Beginnings
<1>10. Value(longer, base) = g[Len(longer)] /\ Value(text, base) = h[Len(text)]
  BY <1>3, <1>4, <1>9, ValueIs
<1> QED BY <1>3, <1>8, <1>10 DEF longer

-----------------------------------------------------------------------------
(***************************************************************************)
(* What the conversions write.                                             *)
(***************************************************************************)

LEMMA ReverseProperties ==
    ASSUME NEW S, NEW s \in Seq(S)
    PROVE  /\ Reverse(s) \in Seq(S) /\ Len(Reverse(s)) = Len(s)
           /\ \A k \in 1 .. Len(s) : Reverse(s)[k] = s[(Len(s) - k) + 1]
<1>1. Len(s) \in Nat /\ \A k \in 1 .. Len(s) : s[k] \in S
  OBVIOUS
<1>2. \A n \in Nat : \A k \in 1 .. n : (n - k) + 1 \in 1 .. n
  OBVIOUS
<1>3. Reverse(s) = [k \in 1 .. Len(s) |-> s[(Len(s) - k) + 1]]
  BY DEF Reverse
<1>4. Reverse(s) \in [1 .. Len(s) -> S]
  BY <1>1, <1>2, <1>3
<1> QED BY <1>1, <1>3, <1>4

LEMMA ReverseStep ==
    ASSUME NEW S, NEW s \in Seq(S), NEW c \in S
    PROVE  Reverse(<< c >> \o s) = Append(Reverse(s), c)
<1> DEFINE longer == << c >> \o s
<1>1. /\ longer \in Seq(S) /\ Len(longer) = Len(s) + 1 /\ Len(s) \in Nat
      /\ longer[1] = c /\ \A k \in 1 .. Len(s) : longer[k + 1] = s[k]
  OBVIOUS
<1> HIDE DEF longer
<1>2. /\ Reverse(longer) \in Seq(S) /\ Len(Reverse(longer)) = Len(s) + 1
      /\ \A k \in 1 .. (Len(s) + 1) :
            Reverse(longer)[k] = longer[((Len(s) + 1) - k) + 1]
  BY <1>1, ReverseProperties
<1>3. /\ Reverse(s) \in Seq(S) /\ Len(Reverse(s)) = Len(s)
      /\ \A k \in 1 .. Len(s) : Reverse(s)[k] = s[(Len(s) - k) + 1]
  BY ReverseProperties
<1>4. /\ Append(Reverse(s), c) \in Seq(S) /\ Len(Append(Reverse(s), c)) = Len(s) + 1
      /\ \A k \in 1 .. Len(s) : Append(Reverse(s), c)[k] = Reverse(s)[k]
      /\ Append(Reverse(s), c)[Len(s) + 1] = c
  BY <1>3, AppendProperties
<1>5. ASSUME NEW k \in 1 .. (Len(s) + 1)
      PROVE  Reverse(longer)[k] = Append(Reverse(s), c)[k]
  <2>1. CASE k = Len(s) + 1
    BY <1>1, <1>2, <1>4, <2>1
  <2>2. CASE k # Len(s) + 1
    <3>0. \A n \in Nat : \A i \in 1 .. (n + 1) : i # n + 1 =>
             /\ i \in 1 .. n /\ (n - i) + 1 \in 1 .. n
             /\ ((n + 1) - i) + 1 = ((n - i) + 1) + 1
      BY ONLY TRUE
    <3>1. PICK j \in 1 .. Len(s) : j = (Len(s) - k) + 1
      BY <1>1, <2>2, <3>0, Zenon
    <3>2. k \in 1 .. Len(s) /\ ((Len(s) + 1) - k) + 1 = j + 1
      BY <1>1, <2>2, <3>0, <3>1, Zenon
    <3> QED BY <1>1, <1>2, <1>3, <1>4, <3>1, <3>2
  <2> QED BY <2>1, <2>2
<1>6. Reverse(longer) = Append(Reverse(s), c)
  BY <1>1, <1>2, <1>4, <1>5, SeqEqual
<1> QED BY <1>6 DEF longer

\* The digits of a number, the highest first.
High(n, base) == Reverse(LowDigits(n, base))

LEMMA HighZero == ASSUME NEW base \in 2 .. 16 PROVE High(0, base) = << >>
<1>1. LowDigits(0, base) = << >> /\ << >> \in Seq(STRING) /\ Len(<< >>) = 0
  BY LowZero
<1>2. Reverse(<< >>) \in Seq(STRING) /\ Len(Reverse(<< >>)) = 0
  BY <1>1, ReverseProperties
<1>3. Reverse(<< >>) = << >>
  BY <1>2
<1> QED BY <1>1, <1>3 DEF High

LEMMA HighType ==
    ASSUME NEW base \in 2 .. 16, NEW n \in Nat
    PROVE  /\ High(n, base) \in Seq(DigitsIn(base))
           /\ Len(High(n, base)) = Len(LowDigits(n, base))
           /\ Len(High(n, base)) \in Nat
           /\ \A k \in 1 .. Len(High(n, base)) :
                 High(n, base)[k] = LowDigits(n, base)[(Len(High(n, base)) - k) + 1]
BY LowType, ReverseProperties DEF High

LEMMA HighStep ==
    ASSUME NEW base \in 2 .. 16, NEW n \in Nat \ {0}
    PROVE  \E q \in Nat, r \in Nat :
              /\ r < base /\ n = q * base + r /\ q < n
              /\ Digits[r + 1] \in DigitsIn(base) /\ DigitOf(Digits[r + 1]) = r
              /\ High(n, base) = Append(High(q, base), Digits[r + 1])
<1>1. PICK q \in Nat, r \in Nat :
         /\ r < base /\ n = q * base + r /\ q < n
         /\ LowDigits(n, base) = << Digits[r + 1] >> \o LowDigits(q, base)
  BY LowStep
<1>2. r + 1 \in 1 .. base /\ r + 1 \in 1 .. 16 /\ (r + 1) - 1 = r
  BY <1>1
<1>3. Digits[r + 1] \in DigitsIn(base) /\ DigitOf(Digits[r + 1]) = r
  BY <1>2, DigitsDistinct DEF DigitsIn
<1>4. High(n, base) = Append(High(q, base), Digits[r + 1])
  BY <1>1, <1>3, LowType, ReverseStep DEF High
<1> QED BY <1>1, <1>3, <1>4

\* They read back.
LEMMA HighValue ==
    ASSUME NEW base \in 2 .. 16, NEW n \in Nat
    PROVE  Value(High(n, base), base) = n
<1> DEFINE S == {m \in Nat : Value(High(m, base), base) = m}
<1>1. ASSUME NEW m \in Nat, \A i \in 0 .. (m - 1) : i \in S
      PROVE  m \in S
  <2>1. CASE m = 0
    BY <2>1, HighZero, ValueEmpty
  <2>2. CASE m # 0
    <3>1. PICK q \in Nat, r \in Nat :
             /\ r < base /\ m = q * base + r /\ q < m
             /\ Digits[r + 1] \in DigitsIn(base) /\ DigitOf(Digits[r + 1]) = r
             /\ High(m, base) = Append(High(q, base), Digits[r + 1])
      BY <2>2, HighStep
    <3>2. q \in 0 .. (m - 1)
      BY <3>1
    <3>3. Value(High(q, base), base) = q
      BY <1>1, <3>2
    <3>4. Value(High(m, base), base) = Value(High(q, base), base) * base + r
      BY <3>1, HighType, ValueAppend
    <3> QED BY <3>1, <3>3, <3>4
  <2> QED BY <2>1, <2>2
<1>2. Nat \subseteq S
  <2> HIDE DEF S
  <2> QED BY <1>1, Induction
<1> QED BY <1>2

\* A number other than 0 starts with another digit.
LEMMA HighHead ==
    ASSUME NEW base \in 2 .. 16, NEW n \in Nat \ {0}
    PROVE  Len(High(n, base)) > 0 /\ High(n, base)[1] # "0"
<1> DEFINE S == {m \in Nat : m # 0 => Len(High(m, base)) > 0 /\ High(m, base)[1] # "0"}
<1>1. ASSUME NEW m \in Nat, \A i \in 0 .. (m - 1) : i \in S
      PROVE  m \in S
  <2> SUFFICES ASSUME m # 0
               PROVE  Len(High(m, base)) > 0 /\ High(m, base)[1] # "0"
    OBVIOUS
  <2>1. PICK q \in Nat, r \in Nat :
           /\ r < base /\ m = q * base + r /\ q < m
           /\ Digits[r + 1] \in DigitsIn(base) /\ DigitOf(Digits[r + 1]) = r
           /\ High(m, base) = Append(High(q, base), Digits[r + 1])
    BY HighStep
  <2>2. q \in 0 .. (m - 1)
    BY <2>1
  <2>3. q # 0 => Len(High(q, base)) > 0 /\ High(q, base)[1] # "0"
    BY <1>1, <2>2
  <2>4. /\ Len(High(m, base)) = Len(High(q, base)) + 1
        /\ \A k \in 1 .. Len(High(q, base)) : High(m, base)[k] = High(q, base)[k]
        /\ High(m, base)[Len(High(q, base)) + 1] = Digits[r + 1]
        /\ Len(High(q, base)) \in Nat
    <3>1. High(q, base) \in Seq(DigitsIn(base)) /\ Len(High(q, base)) \in Nat
      BY HighType
    <3>2. PICK h \in Seq(DigitsIn(base)) : h = High(q, base)
      BY <3>1
    <3>3. PICK c \in DigitsIn(base) : c = Digits[r + 1]
      BY <2>1
    <3>4. High(m, base) = Append(h, c)
      BY <2>1, <3>2, <3>3
    <3>5. /\ Len(Append(h, c)) = Len(h) + 1
          /\ \A k \in 1 .. Len(h) : Append(h, c)[k] = h[k]
          /\ Append(h, c)[Len(h) + 1] = c
      OBVIOUS
    <3> QED BY <3>1, <3>2, <3>3, <3>4, <3>5
  <2>5. CASE q = 0
    <3>1. Len(High(q, base)) = 0
      BY <2>5, HighZero
    <3>2. 0 * base = 0
      OBVIOUS
    <3>3. r # 0
      BY <2>1, <2>5, <3>2
    <3>4. Digits[r + 1] # "0"
      BY <2>1, <3>3, DigitValue
    <3> QED BY <2>4, <3>1, <3>4
  <2>6. CASE q # 0
    BY <2>3, <2>4, <2>6
  <2> QED BY <2>5, <2>6
<1>2. Nat \subseteq S
  <2> HIDE DEF S
  <2> QED BY <1>1, Induction
<1> QED BY <1>2

LEMMA Numeral ==
    ASSUME NEW base \in 2 .. 16, NEW text \in Seq(DigitsIn(base)), Len(text) > 0
    PROVE  IsNumeral(text, base)
<1>1. text # << >>
  OBVIOUS
<1>2. \A k \in 1 .. Len(text) : text[k] \in DigitsIn(base)
  OBVIOUS
<1> QED BY <1>1, <1>2 DEF IsNumeral, DigitsIn

\* "0" reads as 0.
LEMMA ZeroReads ==
    ASSUME NEW base \in 2 .. 16
    PROVE  /\ << "0" >> \in Seq(DigitsIn(base)) /\ Len(<< "0" >>) = 1
           /\ Reads(<< "0" >>, base, 0)
<1>1. "0" \in DigitsIn(base)
  <2>1. 1 \in 1 .. base
    OBVIOUS
  <2> QED BY <2>1, DigitsDistinct, Zenon DEF DigitsIn
<1>2. << "0" >> = Append(<< >>, "0") /\ << "0" >> \in Seq(DigitsIn(base)) /\ Len(<< "0" >>) = 1
  BY <1>1
<1>3. << >> \in Seq(DigitsIn(base)) /\ DigitOf("0") = 0
  BY <1>1, DigitValue
<1>4. Value(Append(<< >>, "0"), base) = 0 * base + 0
  BY <1>1, <1>3, ValueAppend, ValueEmpty
<1>5. 0 * base + 0 = 0
  OBVIOUS
<1>6. IsNumeral(<< "0" >>, base)
  <2>1. PICK text \in Seq(DigitsIn(base)) : text = << "0" >> /\ Len(text) = 1
    BY <1>2
  <2>2. Len(text) > 0
    BY <2>1
  <2>3. IsNumeral(text, base)
    BY <2>2, Numeral
  <2> QED BY <2>1, <2>3
<1> QED BY <1>2, <1>4, <1>5, <1>6 DEF Reads

\* ulltoa
LEMMA UlltoaReads ==
    ASSUME NEW n \in 0 .. (LongMod - 1)
    PROVE  /\ ulltoa(n) \in Seq(DigitsIn(10)) /\ Reads(ulltoa(n), 10, n)
           /\ Len(ulltoa(n)) \in 1 .. 20
<1>1. 10 \in 2 .. 16 /\ 10 \in {2, 8, 10, 16} /\ n \in Nat
  BY Words
<1>2. CASE n = 0
  <2>1. ulltoa(n) = << "0" >>
    BY <1>2 DEF ulltoa
  <2>2. /\ << "0" >> \in Seq(DigitsIn(10)) /\ Len(<< "0" >>) = 1
        /\ Reads(<< "0" >>, 10, 0)
    BY <1>1, ZeroReads, Zenon
  <2>3. 1 \in 1 .. 20
    OBVIOUS
  <2> QED BY <1>2, <2>1, <2>2, <2>3, Zenon
<1>3. CASE n # 0
  <2>1. ulltoa(n) = High(n, 10)
    BY <1>3 DEF ulltoa, High
  <2>2. High(n, 10) \in Seq(DigitsIn(10)) /\ Len(High(n, 10)) \in Nat
        /\ Len(High(n, 10)) = Len(LowDigits(n, 10))
    BY <1>1, HighType
  <2>3. Len(High(n, 10)) > 0
    BY <1>1, <1>3, HighHead
  <2>4. PadTo(10) = 20
    BY DEF PadTo
  <2>5. Len(LowDigits(n, 10)) <= 20
    BY <1>1, <2>4, PaddingFits
  <2>6. Reads(High(n, 10), 10, n)
    BY <1>1, <2>2, <2>3, Numeral, HighValue DEF Reads
  <2>7. Len(High(n, 10)) \in 1 .. 20
    <3>1. \A l \in Nat : l > 0 /\ l <= 20 => l \in 1 .. 20
      BY ONLY TRUE
    <3> QED BY <2>2, <2>3, <2>5, <3>1, Zenon
  <2> QED BY <2>1, <2>2, <2>6, <2>7, Zenon
<1> QED BY <1>2, <1>3

\* decimal_to_base: the text reads back; one that is padded has the width of its
\* base, and one that is not has no zero in front.
LEMMA DecimalToBase ==
    ASSUME NEW base \in {2, 8, 10, 16}, NEW n \in 0 .. (LongMod - 1), NEW pad \in BOOLEAN,
           pad /\ base = 8 => n # 0
    PROVE  /\ Reads(decimal_to_base(n, base, pad), base, n)
           /\ pad /\ base # 8 => Len(decimal_to_base(n, base, pad)) = PadTo(base)
           /\ ~pad => decimal_to_base(n, base, pad) = << "0" >>
                      \/ Head(decimal_to_base(n, base, pad)) # "0"
<1>1. base \in 2 .. 16 /\ n \in Nat
  <2>1. n \in Nat
    BY Words
  <2>2. base \in 2 .. 16
    OBVIOUS
  <2> QED BY <2>1, <2>2
<1>2. CASE n = 0 /\ ~pad
  <2>1. decimal_to_base(n, base, pad) = << "0" >>
    BY <1>2 DEF decimal_to_base
  <2> QED BY <1>1, <1>2, <2>1, ZeroReads, Zenon
<1>3. CASE ~(n = 0 /\ ~pad)
  <2> DEFINE high == High(n, base)
             missing == IF pad /\ PadTo(base) > Len(high) THEN PadTo(base) - Len(high) ELSE 0
             text == Zeros(missing) \o high
  <2>1. /\ high \in Seq(DigitsIn(base)) /\ Len(high) \in Nat
        /\ Len(high) = Len(LowDigits(n, base))
    BY <1>1, HighType
  <2>2. PadTo(base) \in Nat /\ (base # 8 => PadTo(base) > 0) /\ (base = 8 => PadTo(base) = 0)
    BY SMT DEF PadTo
  <2>3. decimal_to_base(n, base, pad) = text
    <3>1. decimal_to_base(n, base, pad) =
            Zeros(IF pad /\ PadTo(base) > Len(LowDigits(n, base))
                  THEN PadTo(base) - Len(LowDigits(n, base)) ELSE 0) \o high
      BY <1>3, Zenon DEF decimal_to_base, Zeros, High
    <3> QED BY <2>1, <3>1
  <2>4. n # 0 => Len(high) > 0 /\ high[1] # "0"
    BY <1>1, HighHead
  <2>5. base # 8 => Len(high) <= PadTo(base)
    BY <2>1, <2>2, PaddingFits
  <2>6. Value(high, base) = n
    BY <1>1, HighValue
  <2> HIDE DEF high
  <2>7. missing \in Nat
    BY <2>1, <2>2
  <2>8. pad /\ base # 8 => missing + Len(high) = PadTo(base)
    BY <2>1, <2>2, <2>5
  <2>9. ~pad => missing = 0
    OBVIOUS
  <2> HIDE DEF missing
  <2>10. /\ text \in Seq(DigitsIn(base)) /\ Len(text) = missing + Len(high)
         /\ Value(text, base) = n
    BY <1>1, <2>1, <2>6, <2>7, ValueZeros
  <2>11. n = 0 => pad /\ base # 8
    BY <1>3
  <2>12. Len(text) > 0
    BY <2>1, <2>2, <2>4, <2>7, <2>8, <2>10, <2>11
  <2>13. ~pad => text = high /\ Head(text) # "0"
    <3>1. ASSUME ~pad PROVE text = high
      <4>1. Zeros(0) = << >>
        BY DEF Zeros
      <4>2. << >> \o high = high
        BY <2>1
      <4> QED BY <2>9, <3>1, <4>1, <4>2
    <3>2. ~pad => high[1] # "0"
      BY <2>4, <2>11
    <3>3. Head(high) = high[1]
      BY <2>1
    <3> QED BY <3>1, <3>2, <3>3
  <2> HIDE DEF text
  <2>14. Reads(text, base, n)
    BY <1>1, <2>10, <2>12, Numeral DEF Reads
  <2> QED BY <2>3, <2>8, <2>10, <2>13, <2>14, Zenon
<1> QED BY <1>2, <1>3

\* As long as the base has digits for it, the text fits num of decimal_to_base.
LEMMA DecimalToBaseFits ==
    ASSUME NEW base \in {2, 8, 10, 16}, NEW n \in 0 .. (LongMod - 1), NEW pad \in BOOLEAN
    PROVE  Len(decimal_to_base(n, base, pad)) <= 64
<1>1. base \in 2 .. 16 /\ n \in Nat
  <2>1. n \in Nat
    BY Words
  <2>2. base \in 2 .. 16
    OBVIOUS
  <2> QED BY <2>1, <2>2
<1>2. CASE n = 0 /\ ~pad
  <2>1. decimal_to_base(n, base, pad) = << "0" >>
    BY <1>2 DEF decimal_to_base
  <2>2. Len(<< "0" >>) <= 64
    OBVIOUS
  <2> QED BY <2>1, <2>2
<1>3. CASE ~(n = 0 /\ ~pad)
  <2> DEFINE high == High(n, base)
             low == Len(LowDigits(n, base))
             missing == IF pad /\ PadTo(base) > low THEN PadTo(base) - low ELSE 0
  <2>1. high \in Seq(DigitsIn(base)) /\ Len(high) = low /\ low \in Nat /\ low <= 64
    BY <1>1, HighType, PaddingFits
  <2>2. PadTo(base) \in Nat /\ PadTo(base) <= 64
    BY SMT DEF PadTo
  <2>3. decimal_to_base(n, base, pad) = Zeros(missing) \o high
    BY <1>3, Zenon DEF decimal_to_base, Zeros, High
  <2> HIDE DEF high, low
  <2>4. missing \in Nat /\ missing + low <= 64
    BY <2>1, <2>2
  <2> HIDE DEF missing
  <2>5. Len(Zeros(missing) \o high) = missing + Len(high)
    BY <1>1, <2>1, <2>4, ValueZeros
  <2> QED BY <2>1, <2>3, <2>4, <2>5
<1> QED BY <1>2, <1>3

LEMMA SameTexts ==
    ASSUME NEW S, NEW s \in Seq(S), NEW T, NEW t \in Seq(T), Len(s) = Len(t),
           \A k \in 1 .. Len(s) : s[k] = t[k]
    PROVE  s = t
OBVIOUS

\* The text has the digits low, as written from place m + l towards the first.
Backwards(text, m, low, l) ==
    \A k \in 1 .. (m + l) :
        (m + l) - k < Len(low) => text[k] = low[((m + l) - k) + 1]

\* Behind place m it has the digits high.
Holds(text, m, high) == \A k \in 1 .. Len(high) : text[m + k] = high[k]

LEMMA WrittenBackwards ==
    ASSUME NEW base \in 2 .. 16, NEW n \in Nat, NEW m \in Nat, NEW text,
           Backwards(text, m, LowDigits(n, base), Len(High(n, base)))
    PROVE  Holds(text, m, High(n, base))
<1> DEFINE high == High(n, base)
           low == LowDigits(n, base)
           l == Len(high)
<1>1. /\ l \in Nat /\ Len(low) = l
      /\ \A k \in 1 .. l : high[k] = low[(l - k) + 1]
  BY HighType, Zenon
<1>2. \A k \in 1 .. (m + l) :
         (m + l) - k < Len(low) => text[k] = low[((m + l) - k) + 1]
  BY DEF Backwards
<1> HIDE DEF high, low
<1> SUFFICES ASSUME NEW k \in 1 .. l PROVE text[m + k] = high[k]
  BY DEF high, Holds
<1>3. \A j \in Nat : \A i \in 1 .. j :
         /\ m + i \in 1 .. (m + j) /\ (m + j) - (m + i) < j
         /\ ((m + j) - (m + i)) + 1 = (j - i) + 1
  OBVIOUS
<1> HIDE DEF l
<1>4. m + k \in 1 .. (m + l) /\ (m + l) - (m + k) < Len(low)
      /\ ((m + l) - (m + k)) + 1 = (l - k) + 1
  BY <1>1, <1>3
<1>5. text[m + k] = low[((m + l) - (m + k)) + 1]
  BY <1>2, <1>4
<1> QED BY <1>1, <1>4, <1>5

\* The longs: the least is the only one whose negation is not positive.
LEMMA Longs ==
    /\ LongMin \in Int /\ LongMin < 0
    /\ LongMod \div 2 \in Nat /\ LongMin = -(LongMod \div 2)
    /\ LongMod = 2 * (LongMod \div 2)
<1>1. \A h \in Int : 2 * h > 0 => h \in Nat /\ -h < 0 /\ -h \in Int
  OBVIOUS
<1>2. LongMod \div 2 \in Int
  BY Words
<1> QED BY <1>1, <1>2, Words DEF LongMin

\* lltoa: a long reads back, with a sign if it is negative.
LEMMA LltoaReads ==
    ASSUME NEW num \in Int, LongMin < num, num < LongMod \div 2
    PROVE  ReadsSigned(lltoa(num), num) /\ ~Overruns(num) /\ Len(lltoa(num)) <= 64
<1> DEFINE size == IF num < 0 THEN -num ELSE num
           high == High(size, 10)
           low == LowDigits(size, 10)
<1>0. 10 \in 2 .. 16 /\ 10 \in {2, 8, 10, 16}
  OBVIOUS
<1>1. size \in 0 .. (LongMod - 1) /\ size \in Nat /\ (num < 0 => size = -num /\ size > 0)
      /\ (num >= 0 => size = num)
  BY Longs
<1>2. CASE num = 0
  <2>1. lltoa(num) = << "0" >> /\ ~Overruns(num)
    BY <1>2 DEF lltoa, Overruns
  <2>2. Reads(<< "0" >>, 10, 0) /\ Len(<< "0" >>) = 1
    BY <1>0, ZeroReads, Zenon
  <2>3. ~(num < 0) /\ 1 <= 64
    BY <1>2
  <2> QED BY <1>2, <2>1, <2>2, <2>3 DEF ReadsSigned
<1>3. CASE num # 0
  <2>1. size \in Nat \ {0}
    BY <1>1, <1>3
  <2>2. /\ high \in Seq(DigitsIn(10)) /\ Len(high) \in Nat /\ Len(high) = Len(low)
    BY <1>0, <1>1, HighType
  <2>3. Len(high) > 0
    BY <1>0, <2>1, HighHead
  <2>4. Len(low) <= 64
    BY <1>0, <1>1, PaddingFits
  <2>5. Reads(high, 10, size)
    BY <1>0, <1>1, <2>2, <2>3, Numeral, HighValue DEF Reads
  <2>6. Negated(num) = -num
    BY DEF Negated
  <2>7. Stored(num) = low
    <3>1. ~(num < 0 /\ Negated(num) < 0)
      BY <2>6
    <3> QED BY <3>1, Zenon DEF Stored
  <2>8. digit_count(num) = (IF num < 0 THEN 1 ELSE 0) + Len(high)
    <3>1. CASE num > 0
      <4>1. digit_count(num) = Len(LowDigits(num, 10))
        BY <3>1, <1>3 DEF digit_count
      <4>2. size = num /\ ~(num < 0)
        BY <3>1
      <4> QED BY <2>2, <4>1, <4>2
    <3>2. CASE num < 0
      <4>1. digit_count(num) = 1 + Len(LowDigits(-num, 10))
        BY <3>2, <2>6 DEF digit_count
      <4>2. size = -num
        BY <3>2
      <4> QED BY <2>2, <3>2, <4>1, <4>2
    <3> QED BY <1>3, <3>1, <3>2
  <2> DEFINE text == lltoa(num)
             m == IF num < 0 THEN 1 ELSE 0
             Chars == {text[k] : k \in 1 .. (m + Len(high))}
  <2>9. m \in Nat /\ m <= 1
    OBVIOUS
  <2>10. text = [k \in 1 .. (m + Len(high)) |->
                   IF (m + Len(high)) - k < Len(low) THEN low[((m + Len(high)) - k) + 1]
                   ELSE IF k = 1 /\ num < 0 THEN "-" ELSE Unset]
    BY <1>3, <2>7, <2>8, Zenon DEF lltoa
  <2> HIDE DEF text
  <2>11. m + Len(high) \in Nat
    BY <2>2, <2>9
  <2>12. text \in Seq(Chars) /\ Len(text) = m + Len(high)
    <3>1. text = [k \in 1 .. (m + Len(high)) |-> text[k]]
      BY <2>10, Zenon
    <3> HIDE DEF m, high, low
    <3> QED BY <2>11, <3>1
  <2>13. \A k \in 1 .. Len(high) : text[m + k] = high[k]
    <3>1. \A k \in 1 .. (m + Len(high)) :
             (m + Len(high)) - k < Len(low) => text[k] = low[((m + Len(high)) - k) + 1]
      BY <2>10, Zenon
    <3>2. size \in Nat /\ m \in Nat
      BY <1>1, <2>9
    <3> HIDE DEF m, size
    <3>3. Backwards(text, m, LowDigits(size, 10), Len(High(size, 10)))
      BY <3>1, Zenon DEF Backwards
    <3>4. Holds(text, m, High(size, 10))
      BY ONLY <1>0, <3>2, <3>3, WrittenBackwards
    <3> QED BY <3>4 DEF Holds
  <2> HIDE DEF high, low, size, Chars
  <2>14. ~Overruns(num)
    BY <2>2, <2>7, <2>8, <2>9 DEF Overruns
  <2>15. Len(text) <= 64
    <3>1. size \in 0 .. (LongMod - 1) /\ PadTo(10) = 20 /\ 20 > 0
      BY <1>1 DEF PadTo
    <3>2. Len(low) <= 20
      BY <1>0, <3>1, PaddingFits DEF low
    <3> QED BY <2>2, <2>9, <2>12, <3>2
  <2>16. ReadsSigned(text, num)
    <3>1. CASE num < 0
      <4>1. Head(text) = "-"
        <5>1. 1 \in 1 .. (m + Len(high)) /\ ~((m + Len(high)) - 1 < Len(low))
          BY <2>2, <2>3, <3>1
        <5>2. text[1] = "-"
          BY <2>10, <3>1, <5>1
        <5> QED BY <5>2 DEF Head
      <4>2. Tail(text) = high
        <5>1. /\ Tail(text) \in Seq(Chars)
              /\ Len(Tail(text)) = Len(high)
              /\ \A k \in 1 .. Len(high) : Tail(text)[k] = text[k + 1]
          <6>1. m = 1 /\ text # << >> /\ Len(text) = 1 + Len(high)
            BY <2>2, <2>3, <2>12, <3>1
          <6>2. \A S : \A s \in Seq(S), l \in Nat : Len(s) = 1 + l =>
                   /\ Tail(s) \in Seq(S) /\ Len(Tail(s)) = l
                   /\ \A k \in 1 .. l : Tail(s)[k] = s[k + 1]
            OBVIOUS
          <6> HIDE DEF m
          <6> QED BY <2>2, <2>12, <6>1, <6>2
        <5>2. \A k \in 1 .. Len(high) : Tail(text)[k] = high[k]
          <6>1. \A k \in 1 .. Len(high) : text[1 + k] = high[k] /\ 1 + k = k + 1
            BY <2>2, <2>13, <3>1
          <6> QED BY <5>1, <6>1
        <5> QED BY <2>2, <5>1, <5>2, SameTexts
      <4> QED BY <1>1, <2>5, <3>1, <4>1, <4>2 DEF ReadsSigned
    <3>2. CASE ~(num < 0)
      <4>1. \A k \in 1 .. Len(high) : text[k] = high[k]
        BY <2>2, <2>13, <3>2
      <4>2. Len(text) = Len(high)
        BY <2>2, <2>12, <3>2
      <4>3. text = high
        BY <2>2, <2>12, <4>1, <4>2, SameTexts
      <4>4. size = num
        BY <1>1, <3>2
      <4> QED BY <2>5, <3>2, <4>3, <4>4 DEF ReadsSigned
    <3> QED BY <3>1, <3>2
  <2> QED BY <2>14, <2>15, <2>16 DEF text
<1> QED BY <1>2, <1>3

\* The least long is printed as one character.
LEMMA LltoaFits ==
    ASSUME NEW num \in Int, LongMin <= num, num < LongMod \div 2
    PROVE  Len(lltoa(num)) <= 64
<1>1. CASE num = LongMin
  <2>1. num # 0 /\ ~(num > 0) /\ ~(Negated(num) > 0)
    BY <1>1, Longs DEF Negated
  <2>2. digit_count(num) = 1
    BY <2>1 DEF digit_count
  <2> DEFINE text == lltoa(num)
  <2>3. text = [k \in 1 .. 1 |->
                  IF 1 - k < Len(Stored(num)) THEN Stored(num)[(1 - k) + 1]
                  ELSE IF k = 1 /\ num < 0 THEN "-" ELSE Unset]
    BY <2>1, <2>2, Zenon DEF lltoa
  <2>4. text = [k \in 1 .. 1 |-> text[k]]
    BY <2>3, Zenon
  <2> HIDE DEF text
  <2>5. Len(text) = 1
    BY <2>4
  <2> QED BY <2>5 DEF text
<1>2. CASE num # LongMin
  BY <1>2, Longs, LltoaReads
<1> QED BY <1>1, <1>2

LEMMA SmallLengths ==
    ASSUME NEW n \in 1 .. 999
    PROVE  Len(LowDigits(n, 10)) = IF n < 10 THEN 1 ELSE IF n < 100 THEN 2 ELSE 3
<1> DEFINE L(i) == Len(LowDigits(i, 10))
<1>1. L(0) = 0
  <2>1. 10 \in 2 .. 16 /\ Len(<< >>) = 0
    OBVIOUS
  <2> QED BY <2>1, LowZero
<1>2. \A i \in Nat \ {0} : \E m \in Nat :
         10 * m <= i /\ i <= 10 * m + 9 /\ L(i) = 1 + L(m)
  BY DecimalStep, Zenon
<1> HIDE DEF L
<1>3. \A i \in 1 .. 9 : L(i) = 1
  <2> SUFFICES ASSUME NEW i \in 1 .. 9 PROVE L(i) = 1
    OBVIOUS
  <2>1. PICK m \in Nat : 10 * m <= i /\ i <= 10 * m + 9 /\ L(i) = 1 + L(m)
    BY <1>2
  <2>2. m = 0
    BY <2>1
  <2> QED BY <1>1, <2>1, <2>2
<1>4. \A i \in 10 .. 99 : L(i) = 2
  <2> SUFFICES ASSUME NEW i \in 10 .. 99 PROVE L(i) = 2
    OBVIOUS
  <2>1. PICK m \in Nat : 10 * m <= i /\ i <= 10 * m + 9 /\ L(i) = 1 + L(m)
    BY <1>2
  <2>2. m \in 1 .. 9
    BY <2>1
  <2> QED BY <1>3, <2>1, <2>2
<1>5. \A i \in 100 .. 999 : L(i) = 3
  <2> SUFFICES ASSUME NEW i \in 100 .. 999 PROVE L(i) = 3
    OBVIOUS
  <2>1. PICK m \in Nat : 10 * m <= i /\ i <= 10 * m + 9 /\ L(i) = 1 + L(m)
    BY <1>2
  <2>2. m \in 10 .. 99
    BY <2>1
  <2> QED BY <1>4, <2>1, <2>2
<1>6. L(n) = IF n < 10 THEN 1 ELSE IF n < 100 THEN 2 ELSE 3
  BY <1>3, <1>4, <1>5
<1> QED BY <1>6, Zenon DEF L

\* zero_extend_3: three characters, which read back unless the number is 0.
LEMMA ZeroExtend3 ==
    ASSUME NEW num \in 0 .. 999
    PROVE  /\ \E T : zero_extend_3(num) \in Seq(T)
           /\ Len(zero_extend_3(num)) = 3
           /\ num # 0 => Reads(zero_extend_3(num), 10, num)
<1> DEFINE text == zero_extend_3(num)
           low == LowDigits(num, 10)
           zeros == LeadingZeros(num)
<1>1. digit_count_unsigned(num) + zeros = 3
  <2>1. CASE num < 10
    BY <2>1 DEF digit_count_unsigned, LeadingZeros
  <2>2. CASE ~(num < 10)
    <3>1. num \in 1 .. 999
      BY <2>2
    <3>2. Len(low) = IF num < 100 THEN 2 ELSE 3
      BY <2>2, <3>1, SmallLengths
    <3>3. digit_count_unsigned(num) = Len(low)
      BY <2>2, Zenon DEF digit_count_unsigned
    <3>4. zeros = IF num < 100 THEN 1 ELSE 0
      BY <2>2 DEF LeadingZeros
    <3> HIDE DEF low, zeros
    <3> QED BY <3>2, <3>3, <3>4
  <2> QED BY <2>1, <2>2
<1>2. text = [k \in 1 .. 3 |->
                IF 3 - k < Len(low) THEN low[(3 - k) + 1]
                ELSE IF k <= zeros THEN "0" ELSE Unset]
  BY <1>1, Zenon DEF zero_extend_3
<1>3. text = [k \in 1 .. 3 |-> text[k]]
  BY <1>2, Zenon
<1> HIDE DEF text
<1>4. text \in Seq({text[k] : k \in 1 .. 3}) /\ Len(text) = 3
  BY <1>3
<1>5. ASSUME num # 0 PROVE Reads(text, 10, num)
  <2> DEFINE high == High(num, 10)
  <2>1. 10 \in 2 .. 16 /\ num \in Nat
    OBVIOUS
  <2>2. /\ high \in Seq(DigitsIn(10)) /\ Len(high) \in Nat /\ Len(high) = Len(low)
        /\ \A k \in 1 .. Len(high) : high[k] = low[(Len(high) - k) + 1]
    BY <2>1, HighType
  <2>3. zeros \in Nat /\ zeros + Len(high) = 3
    <3>1. num \in 1 .. 999
      BY <1>5
    <3>2. Len(high) = IF num < 10 THEN 1 ELSE IF num < 100 THEN 2 ELSE 3
      BY <2>2, <3>1, SmallLengths
    <3>3. zeros = IF num < 10 THEN 2 ELSE IF num < 100 THEN 1 ELSE 0
      BY DEF LeadingZeros
    <3> HIDE DEF high, zeros
    <3> QED BY <3>2, <3>3
  <2>4. Value(high, 10) = num
    BY <2>1, HighValue
  <2> HIDE DEF high, low, zeros
  <2> DEFINE padded == Zeros(zeros) \o high
  <2>5. /\ padded \in Seq(DigitsIn(10)) /\ Len(padded) = 3
        /\ Value(padded, 10) = num
    <3>1. high \in Seq(DigitsIn(10)) /\ zeros \in Nat
      BY <2>2, <2>3
    <3>2. /\ padded \in Seq(DigitsIn(10)) /\ Len(padded) = zeros + Len(high)
          /\ Value(padded, 10) = Value(high, 10)
      BY <2>1, <3>1, ValueZeros, Zenon
    <3> HIDE DEF padded
    <3> QED BY <2>3, <2>4, <3>2
  <2>6. Zeros(zeros) \in Seq({"0"}) /\ Len(Zeros(zeros)) = zeros
        /\ \A k \in 1 .. zeros : Zeros(zeros)[k] = "0"
    BY <2>3 DEF Zeros
  <2>7. ASSUME NEW k \in 1 .. 3 PROVE text[k] = padded[k]
    <3>1. CASE k <= zeros
      <4>1. padded[k] = "0"
        BY <2>2, <2>3, <2>6, <3>1
      <4>2. ~(3 - k < Len(low))
        BY <2>2, <2>3, <3>1
      <4> QED BY <1>2, <3>1, <4>1, <4>2
    <3>2. CASE ~(k <= zeros)
      <4>1. k - zeros \in 1 .. Len(high) /\ 3 - k < Len(low)
            /\ (Len(high) - (k - zeros)) + 1 = (3 - k) + 1
        BY <2>2, <2>3, <3>2
      <4>2. padded[k] = high[k - zeros]
        BY <2>2, <2>3, <2>6, <3>2
      <4> QED BY <1>2, <2>2, <4>1, <4>2
    <3> QED BY <3>1, <3>2
  <2>8. text = padded
    <3> HIDE DEF padded
    <3> QED BY <1>4, <2>5, <2>7, SameTexts
  <2>9. IsNumeral(padded, 10)
    <3>1. Len(padded) > 0
      BY <2>5
    <3> HIDE DEF padded
    <3> QED BY <2>1, <2>5, <3>1, Numeral, Zenon
  <2> QED BY <2>5, <2>8, <2>9 DEF Reads
<1> QED BY <1>4, <1>5 DEF text

\* The text has the whole seconds of word in front of a point, and the rest of it
\* in three digits behind.
TimeReads(text, word) ==
    LET dot == Len(text) - 3
    IN /\ text[dot] = "."
       /\ Reads(SubSeq(text, 1, dot - 1), 10, word \div 1000)
       /\ Reads(SubSeq(text, dot + 1, dot + 3), 10, word % 1000)

\* s, c, and the three characters of t.
Joined(text, s, c, t) ==
    LET dot == Len(text) - 3
    IN /\ Len(text) = Len(s) + 4 /\ text[dot] = c
       /\ SubSeq(text, 1, dot - 1) = s
       /\ SubSeq(text, dot + 1, dot + 3) = t

LEMMA JoinedReads ==
    ASSUME NEW text, NEW s, NEW t, NEW word, Joined(text, s, ".", t),
           Reads(s, 10, word \div 1000), Reads(t, 10, word % 1000)
    PROVE  TimeReads(text, word)
BY Zenon DEF Joined, TimeReads

LEMMA AroundPoint ==
    ASSUME NEW S, NEW s \in Seq(S), NEW T, NEW t \in Seq(T), Len(t) = 3, NEW c
    PROVE  Joined(s \o << c >> \o t, s, c, t)
<1> DEFINE U == S \cup {c} \cup T
           text == s \o << c >> \o t
           dot == Len(s) + 1
<1>1. s \in Seq(U) /\ << c >> \in Seq(U) /\ t \in Seq(U) /\ Len(<< c >>) = 1
      /\ Len(s) \in Nat /\ << c >>[1] = c
  OBVIOUS
<1> HIDE DEF U
<1>2. /\ s \o << c >> \in Seq(U) /\ Len(s \o << c >>) = dot
      /\ \A k \in 1 .. Len(s) : (s \o << c >>)[k] = s[k]
      /\ (s \o << c >>)[dot] = c
  <2>1. s \o << c >> = Append(s, c)
    BY <1>1
  <2>2. c \in U
    BY DEF U
  <2> QED BY <1>1, <2>1, <2>2, AppendProperties
<1>3. /\ text \in Seq(U) /\ Len(text) = dot + 3
      /\ \A k \in 1 .. dot : text[k] = (s \o << c >>)[k]
      /\ \A k \in 1 .. 3 : text[dot + k] = t[k]
  <2> DEFINE front == s \o << c >>
  <2>1. front \in Seq(U) /\ Len(front) = dot
    BY <1>2
  <2> HIDE DEF front
  <2>2. \A a, b \in Seq(U) :
           /\ a \o b \in Seq(U) /\ Len(a \o b) = Len(a) + Len(b)
           /\ \A k \in 1 .. Len(a) : (a \o b)[k] = a[k]
           /\ \A k \in 1 .. Len(b) : (a \o b)[Len(a) + k] = b[k]
    BY ONLY TRUE
  <2>3. /\ front \o t \in Seq(U) /\ Len(front \o t) = dot + 3
        /\ \A k \in 1 .. dot : (front \o t)[k] = front[k]
        /\ \A k \in 1 .. 3 : (front \o t)[dot + k] = t[k]
    <3>1. /\ front \o t \in Seq(U) /\ Len(front \o t) = Len(front) + Len(t)
          /\ \A k \in 1 .. Len(front) : (front \o t)[k] = front[k]
          /\ \A k \in 1 .. Len(t) : (front \o t)[Len(front) + k] = t[k]
      BY <1>1, <2>1, <2>2, Zenon
    <3> HIDE DEF dot
    <3> QED BY <2>1, <3>1, Zenon
  <2> QED BY <2>3 DEF front
<1> HIDE DEF text
<1>4. \A k \in 1 .. Len(s) : text[k] = s[k]
  BY <1>1, <1>2, <1>3
<1>5. text[dot] = c
  BY <1>1, <1>2, <1>3
<1>6. SubSeq(text, 1, dot - 1) = s
  <2>1. /\ SubSeq(text, 1, Len(s)) \in Seq(U) /\ Len(SubSeq(text, 1, Len(s))) = Len(s)
        /\ \A k \in 1 .. Len(s) : SubSeq(text, 1, Len(s))[k] = text[k]
    BY <1>1, <1>3
  <2>2. SubSeq(text, 1, Len(s)) = s
    BY <1>1, <1>4, <2>1, SameTexts
  <2>3. dot - 1 = Len(s)
    BY <1>1
  <2> QED BY <2>2, <2>3
<1>7. SubSeq(text, dot + 1, dot + 3) = t
  <2>1. /\ SubSeq(text, dot + 1, dot + 3) \in Seq(U)
        /\ Len(SubSeq(text, dot + 1, dot + 3)) = 3
        /\ \A k \in 1 .. 3 : SubSeq(text, dot + 1, dot + 3)[k] = text[dot + k]
    BY <1>1, <1>3
  <2> QED BY <1>1, <1>3, <2>1, SameTexts
<1>8. Len(text) - 3 = dot /\ Len(text) = Len(s) + 4
  BY <1>1, <1>3
<1> QED BY <1>5, <1>6, <1>7, <1>8 DEF text, Joined

LEMMA TimeText ==
    ASSUME NEW t \in 0 .. (LongMod - 1), NEW enabled \in BOOLEAN
    PROVE  /\ Len(TimeSinceBoot(t, enabled)) <= 64
           /\ t % 1000 # 0 \/ ~enabled =>
                 TimeReads(TimeSinceBoot(t, enabled), IF enabled THEN t ELSE 0)
<1>1. 10 \in 2 .. 16
  OBVIOUS
<1>2. CASE enabled
  <2>1. PICK seconds \in 0 .. (LongMod - 1) : seconds = t \div 1000
    BY Words
  <2>2. PICK rest \in 0 .. 999 : rest = t % 1000
    BY Words
  <2> DEFINE front == ulltoa(seconds)
             back == zero_extend_3(rest)
             text == front \o << "." >> \o back
  <2>3. front \in Seq(DigitsIn(10)) /\ Reads(front, 10, seconds) /\ Len(front) \in 1 .. 20
    BY UlltoaReads, Zenon
  <2>4. Len(back) = 3 /\ (rest # 0 => Reads(back, 10, rest))
    BY ZeroExtend3, Zenon
  <2>5. PICK T : back \in Seq(T)
    BY ZeroExtend3, Zenon
  <2>6. TimeSinceBoot(t, enabled) = text
    <3>1. TimeSinceBoot(t, enabled) = milliseconds_as_seconds(t)
      BY <1>2 DEF TimeSinceBoot
    <3>2. milliseconds_as_seconds(t) = ulltoa(seconds) \o << "." >> \o zero_extend_3(rest)
      BY <2>1, <2>2 DEF milliseconds_as_seconds
    <3> QED BY <3>1, <3>2
  <2> HIDE DEF front, back
  <2>7. Joined(text, front, ".", back)
    BY <2>3, <2>4, <2>5, AroundPoint
  <2> HIDE DEF text
  <2>8. Len(text) <= 64
    <3>1. Len(text) = Len(front) + 4
      BY <2>7, Zenon DEF Joined
    <3>2. \A l \in 1 .. 20 : l + 4 <= 64
      BY ONLY TRUE
    <3> QED BY <2>3, <3>1, <3>2, Zenon
  <2>9. rest # 0 => TimeReads(text, t)
    <3> SUFFICES ASSUME rest # 0 PROVE TimeReads(text, t)
      OBVIOUS
    <3>1. Reads(front, 10, t \div 1000) /\ Reads(back, 10, t % 1000)
      BY <2>1, <2>2, <2>3, <2>4
    <3> QED BY ONLY <2>7, <3>1, JoinedReads
  <2>10. (IF enabled THEN t ELSE 0) = t
    BY <1>2
  <2>11. t % 1000 # 0 \/ ~enabled => rest # 0
    BY <1>2, <2>2
  <2> QED BY <2>6, <2>8, <2>9, <2>10, <2>11
<1>3. CASE ~enabled
  <2> DEFINE back == Zeros(2) \o << "0" >>
             text == << "0", ".", "0", "0", "0" >>
  <2>1. << "0" >> \in Seq(DigitsIn(10)) /\ Len(<< "0" >>) = 1 /\ Reads(<< "0" >>, 10, 0)
    BY <1>1, ZeroReads, Zenon
  <2>2. /\ back \in Seq(DigitsIn(10)) /\ Len(back) = 3 /\ Value(back, 10) = 0
    <3>1. Value(<< "0" >>, 10) = 0 /\ 2 \in Nat /\ 2 + 1 = 3
      BY <2>1 DEF Reads
    <3>2. /\ back \in Seq(DigitsIn(10)) /\ Len(back) = 2 + Len(<< "0" >>)
          /\ Value(back, 10) = Value(<< "0" >>, 10)
      BY <1>1, <2>1, <3>1, ValueZeros, Zenon
    <3> HIDE DEF back
    <3> QED BY <2>1, <3>1, <3>2, Zenon
  <2>3. \A k \in 1 .. 3 : back[k] = "0"
    <3>1. Zeros(2) \in Seq({"0"}) /\ Len(Zeros(2)) = 2 /\ \A k \in 1 .. 2 : Zeros(2)[k] = "0"
      BY DEF Zeros
    <3>2. << "0" >> \in Seq({"0"}) /\ << "0" >>[1] = "0"
      OBVIOUS
    <3> QED BY <2>1, <3>1, <3>2
  <2> HIDE DEF back
  <2>4. Reads(back, 10, 0)
    <3>1. Len(back) > 0
      BY <2>2
    <3> QED BY <1>1, <2>2, <3>1, Numeral, Zenon DEF Reads
  <2> DEFINE S == {"0", "."}
  <2>5. text \in Seq(S) /\ Len(text) = 5
    OBVIOUS
  <2>5a. /\ text[1] = "0" /\ text[2] = "."
         /\ text[3] = "0" /\ text[4] = "0" /\ text[5] = "0"
    OBVIOUS
  <2> HIDE DEF text, S
  <2>6. SubSeq(text, 1, 1) = << "0" >>
    <3>1. /\ SubSeq(text, 1, 1) \in Seq(S) /\ Len(SubSeq(text, 1, 1)) = 1
          /\ SubSeq(text, 1, 1)[1] = "0"
      BY <2>5, <2>5a
    <3>2. << "0" >>[1] = "0"
      OBVIOUS
    <3>3. \A k \in 1 .. 1 : k = 1
      OBVIOUS
    <3>4. PICK s \in Seq(S) : s = SubSeq(text, 1, 1)
      BY <3>1
    <3>5. PICK d \in Seq(DigitsIn(10)) : d = << "0" >>
      BY <2>1
    <3>6. Len(s) = Len(d) /\ \A k \in 1 .. Len(s) : s[k] = d[k]
      BY <2>1, <3>1, <3>2, <3>3, <3>4, <3>5
    <3>7. s = d
      BY <3>6, SameTexts
    <3> QED BY <3>4, <3>5, <3>7
  <2>7. SubSeq(text, 3, 5) = back
    <3>0. \A s \in Seq(S), i \in Nat : Len(s) = i + 3 =>
             SubSeq(s, i + 1, i + 3) \in Seq(S) /\ Len(SubSeq(s, i + 1, i + 3)) = 3
      OBVIOUS
    <3>1. SubSeq(text, 3, 5) \in Seq(S) /\ Len(SubSeq(text, 3, 5)) = 3
      <4>1. 2 \in Nat /\ 5 = 2 + 3 /\ 3 = 2 + 1
        OBVIOUS
      <4>2. SubSeq(text, 2 + 1, 2 + 3) \in Seq(S) /\ Len(SubSeq(text, 2 + 1, 2 + 3)) = 3
        BY <2>5, <3>0, <4>1, Zenon
      <4> QED BY <4>1, <4>2
    <3>2. /\ SubSeq(text, 3, 5)[1] = text[3] /\ SubSeq(text, 3, 5)[2] = text[4]
          /\ SubSeq(text, 3, 5)[3] = text[5]
      BY <2>5
    <3>3. \A k \in 1 .. 3 : k = 1 \/ k = 2 \/ k = 3
      OBVIOUS
    <3>4. \A k \in 1 .. 3 : SubSeq(text, 3, 5)[k] = "0"
      BY <2>5a, <3>2, <3>3
    <3> QED BY <2>2, <2>3, <3>1, <3>4, SameTexts
  <2>8. TimeReads(text, 0)
    <3>1. /\ Len(text) - 3 = 2 /\ 2 - 1 = 1 /\ 2 + 1 = 3 /\ 2 + 3 = 5
          /\ 0 \div 1000 = 0 /\ 0 % 1000 = 0
      BY <2>5
    <3>2. Joined(text, << "0" >>, ".", back)
      BY <2>1, <2>5, <2>5a, <2>6, <2>7, <3>1 DEF Joined
    <3> QED BY <2>1, <2>4, <3>1, <3>2, JoinedReads
  <2>9. Len(text) <= 64
    BY <2>5
  <2>10. TimeSinceBoot(t, enabled) = text
    BY <1>3, Zenon DEF TimeSinceBoot, text
  <2> QED BY <1>3, <2>8, <2>9, <2>10, Zenon
<1> QED BY <1>2, <1>3

-----------------------------------------------------------------------------
(***************************************************************************)
(* The steps of the loop.                                                  *)
(***************************************************************************)

\* The loop is behind a % and its 0 flags when it is in a directive.
Placed ==
    /\ TypeOK
    /\ pc = "format" => p > 1 /\ Opened(format, p - 1)

\* A word that is read as a signed number is a long, and not the least if it is
\* not the least itself.
LEMMA SignedWord ==
    ASSUME NEW w \in 0 .. (LongMod - 1), NEW mod \in {IntMod, LongMod}
    PROVE  /\ Signed(w % mod, mod) \in Int
           /\ LongMin <= Signed(w % mod, mod) /\ Signed(w % mod, mod) < LongMod \div 2
           /\ w # LongMod \div 2 => LongMin < Signed(w % mod, mod)
<1>1. /\ mod \in Nat /\ mod >= 2 /\ mod <= LongMod /\ w \in Nat /\ w < LongMod
      /\ mod = 2 * (mod \div 2) /\ LongMod \in Nat
  BY Words, IntAssumption
<1>2. PICK r \in Nat, q \in Nat : r = w % mod /\ r < mod /\ w = q * mod + r
  <2>1. w % mod \in 0 .. (mod - 1) /\ w \div mod \in Nat
        /\ w = (w \div mod) * mod + (w % mod)
    BY <1>1, DivisionBy, Zenon
  <2>2. w % mod \in Nat /\ w % mod < mod
    BY <1>1, <2>1
  <2> QED BY <2>1, <2>2, Zenon
<1>3. mod = LongMod => r = w
  <2>1. ASSUME mod = LongMod, q >= 1 PROVE FALSE
    <3>1. \A a, b \in Nat : a >= 1 => a * b >= b
      OBVIOUS
    <3>2. q * mod >= mod /\ q * mod \in Nat
      BY <1>1, <2>1, <3>1
    <3> QED BY <1>1, <1>2, <2>1, <3>2
  <2>2. 0 * mod = 0
    BY <1>1
  <2>3. mod = LongMod => q = 0
    BY <2>1
  <2> QED BY <1>1, <1>2, <2>2, <2>3
<1>4. PICK half \in Nat : half = mod \div 2 /\ mod = 2 * half
  BY <1>1
<1>5. PICK lhalf \in Nat : lhalf = LongMod \div 2 /\ LongMin = -lhalf /\ LongMod = 2 * lhalf
  BY Longs
<1>6. Signed(w % mod, mod) = IF r < half THEN r ELSE r - mod
  BY <1>2, <1>4 DEF Signed
<1> QED BY <1>1, <1>2, <1>3, <1>4, <1>5, <1>6

LEMMA Bases ==
    /\ DOMAIN Base = {"u", "b", "o", "x", "X", "p"}
    /\ \A c \in DOMAIN Base : /\ Base[c] \in {2, 8, 10, 16}
                              /\ Base[c] = 8 => c = "o"
    /\ {"u", "b", "x"} \subseteq DOMAIN Base /\ Base["u"] = 10
    /\ \A c \in DOMAIN Base : c \notin {"NUL", "0", "l", "%", "i", "d", "c", "s"}
BY DEF Base

LEMMA Places ==
    ASSUME TypeOK
    PROVE  /\ Len(format) \in Nat /\ p \in Nat /\ p >= 1 /\ p <= Len(format) + 1
           /\ \A k \in Nat : k >= 1 /\ At(k) # NUL => k <= Len(format) /\ At(k) = format[k]
           /\ format \in Formats /\ args \in ArgLists /\ Len(args) \in Nat
           /\ \A k \in 1 .. Len(args) : args[k] \in 0 .. (LongMod - 1)
<1>1. format \in Seq(STRING) /\ args \in Seq(0 .. (LongMod - 1))
  BY FormatsAssumption, ArgsAssumption DEF TypeOK
<1>2. Len(format) \in Nat /\ p \in Nat /\ p >= 1 /\ p <= Len(format) + 1
  BY <1>1 DEF TypeOK
<1>3. ASSUME NEW k \in Nat, k >= 1, At(k) # NUL
      PROVE  k <= Len(format) /\ At(k) = format[k]
  BY <1>3 DEF At
<1>4. format \in Formats /\ args \in ArgLists
  BY DEF TypeOK
<1>5. Len(args) \in Nat /\ \A k \in 1 .. Len(args) : args[k] \in 0 .. (LongMod - 1)
  <2> DEFINE W == 0 .. (LongMod - 1)
  <2>1. args \in Seq(W)
    BY <1>1
  <2> HIDE DEF W
  <2>2. Len(args) \in Nat /\ \A k \in 1 .. Len(args) : args[k] \in W
    BY <2>1
  <2> QED BY <2>2 DEF W
<1> QED BY <1>2, <1>3, <1>4, <1>5

\* What a step prints for a signed number, and for an unsigned one.
PrintsSigned ==
    \E k \in 1 .. Len(args), mod \in {IntMod, LongMod} :
        printed' = Printed("signed", Signed(args[k] % mod, mod), 10,
                           lltoa(Signed(args[k] % mod, mod)))

PrintsUnsigned ==
    \E n \in 0 .. (LongMod - 1), base \in {2, 8, 10, 16} :
        /\ printed' = Printed("unsigned", n, base, decimal_to_base(n, base, zero_pad))
        /\ base = 8 => At(p) = "o"
        /\ At(p) \in DOMAIN Base \/ At(p) = "l"
        /\ pc = "format"

LEMMA SignedStep ==
    ASSUME TypeOK, NEW mod \in {IntMod, LongMod}, NEW next, PrintSigned(mod, next)
    PROVE  PrintsSigned /\ arg' \in 0 .. Len(args) /\ p' = next /\ pc' = "loop"
           /\ UNCHANGED <<call, zero_pad, flagged>>
<1>1. /\ arg < Len(args) /\ arg' = arg + 1 /\ p' = next /\ pc' = "loop"
      /\ UNCHANGED <<call, zero_pad, flagged>>
  BY DEF PrintSigned, Read
<1>2. printed' = Printed("signed", Signed(args[arg + 1] % mod, mod), 10,
                         lltoa(Signed(args[arg + 1] % mod, mod)))
  BY DEF PrintSigned
<1>3. arg \in Nat /\ Len(args) \in Nat
  BY Places DEF TypeOK
<1>4. arg + 1 \in 1 .. Len(args) /\ arg' \in 0 .. Len(args)
  BY <1>1, <1>3
<1>5. PrintsSigned
  BY <1>2, <1>4, Zenon DEF PrintsSigned
<1> QED BY <1>1, <1>4, <1>5

LEMMA UnsignedStep ==
    ASSUME TypeOK, NEW mod \in {IntMod, LongMod}, NEW base \in {2, 8, 10, 16}, NEW next,
           PrintUnsigned(mod, base, next), pc = "format",
           base = 8 => At(p) = "o", At(p) \in DOMAIN Base \/ At(p) = "l"
    PROVE  PrintsUnsigned /\ arg' \in 0 .. Len(args) /\ p' = next /\ pc' = "loop"
           /\ zero_pad' = FALSE /\ UNCHANGED <<call, flagged>>
<1>1. /\ arg < Len(args) /\ arg' = arg + 1 /\ p' = next /\ pc' = "loop"
      /\ zero_pad' = FALSE /\ UNCHANGED <<call, flagged>>
  BY DEF PrintUnsigned, Read, TakePadBack
<1>2. printed' = Printed("unsigned", args[arg + 1] % mod, base,
                         decimal_to_base(args[arg + 1] % mod, base, zero_pad))
  BY DEF PrintUnsigned
<1>3. arg \in Nat /\ Len(args) \in Nat
  BY Places DEF TypeOK
<1>4. arg + 1 \in 1 .. Len(args) /\ arg' \in 0 .. Len(args)
  BY <1>1, <1>3
<1>5. args[arg + 1] % mod \in 0 .. (LongMod - 1)
  <2>1. PICK w \in Nat : w = args[arg + 1]
    BY <1>4, Places, Words
  <2>2. mod \in Nat /\ mod >= 2 /\ mod <= LongMod /\ LongMod \in Nat
    BY Words, IntAssumption
  <2>3. w % mod \in 0 .. (mod - 1)
    BY <2>2, DivisionBy, Zenon
  <2>4. \A i \in 0 .. (mod - 1) : i \in 0 .. (LongMod - 1)
    BY <2>2
  <2> QED BY <2>1, <2>3, <2>4, Zenon
<1>6. PrintsUnsigned
  BY <1>2, <1>5, Zenon DEF PrintsUnsigned
<1> QED BY <1>1, <1>4, <1>6

\* How a directive that starts with l goes on.
LEMMA LongCases ==
    ASSUME TypeOK, LongDirective
    PROVE  \/ /\ LongUnsigned(At(p + 1))
              /\ PrintUnsigned(LongMod, Base[At(p + 1)], p + 2)
           \/ At(p + 1) = "d" /\ PrintSigned(LongMod, p + 2)
           \/ At(p + 1) = "l" /\ At(p + 2) = "u" /\ PrintUnsigned(LongMod, 10, p + 3)
           \/ At(p + 1) = "l" /\ At(p + 2) = "d" /\ PrintSigned(LongMod, p + 3)
           \/ /\ At(p + 1) = "l" /\ At(p + 2) \notin {"u", "d"}
              /\ p' = IF At(p + 2) = NUL THEN p + 3 ELSE p + 2
              /\ pc' = "loop" /\ UNCHANGED <<call, arg, zero_pad, flagged, printed>>
           \/ /\ ~LongUnsigned(At(p + 1)) /\ At(p + 1) \notin {"d", "l"}
              /\ p' = IF At(p + 1) = NUL THEN p + 2 ELSE p + 1
              /\ pc' = "loop" /\ UNCHANGED <<call, arg, zero_pad, flagged, printed>>
BY Zenon DEF LongDirective

\* Where the loop goes on after a directive: one that starts with l is whole.
Onward ==
    /\ p' \in 1 .. (Len(format) + 1) /\ pc' = "loop" /\ arg' \in 0 .. Len(args)
    /\ UNCHANGED <<call, flagged>>
    /\ pc = "format" /\ p' >= p

\* What a directive leaves of the 0 flag.
FlagTaken ==
    \/ UNCHANGED <<zero_pad, printed>>
    \/ UNCHANGED zero_pad /\ PrintsSigned
    \/ zero_pad' = FALSE /\ PrintsUnsigned

\* A directive that keeps a 0 flag does not take it back.
KeepsFlag ==
    zero_pad' = zero_pad =>
        \/ p > Len(format)
        \/ p <= Len(format) /\ format[p] # "0" /\ ~TakesFlagBack(format, p)
        \/ zero_pad' = FALSE

LEMMA DirectiveStep ==
    ASSUME TypeOK, Directive
    PROVE  Onward /\ FlagTaken /\ KeepsFlag
<1>0. pc = "format" /\ arg \in 0 .. Len(args)
  BY DEF Directive, TypeOK
<1>1. /\ At(p) # NUL => /\ p <= Len(format) /\ At(p) = format[p]
                        /\ p + 1 \in 1 .. (Len(format) + 1) /\ p + 1 >= p
      /\ p \in Nat
  BY Places
<1>2. CASE /\ At(p) = "%" /\ p' = p + 1 /\ pc' = "loop"
           /\ UNCHANGED <<call, arg, zero_pad, flagged, printed>>
  <2>1. At(p) # NUL
    BY <1>2 DEF NUL
  <2>2. format[p] # "0" /\ ~TakesFlagBack(format, p)
    BY <1>1, <1>2, <2>1, Bases DEF TakesFlagBack, Unsigned
  <2> QED BY <1>0, <1>1, <1>2, <2>1, <2>2 DEF Onward, FlagTaken, KeepsFlag
<1>3. CASE At(p) \in {"i", "d"} /\ PrintSigned(IntMod, p + 1)
  <2>1. At(p) # NUL
    BY <1>3 DEF NUL
  <2>2. format[p] # "0" /\ ~TakesFlagBack(format, p)
    BY <1>1, <1>3, <2>1, Bases DEF TakesFlagBack, Unsigned
  <2>3. PrintsSigned /\ arg' \in 0 .. Len(args) /\ p' = p + 1 /\ pc' = "loop"
        /\ UNCHANGED <<call, zero_pad, flagged>>
    BY <1>3, SignedStep
  <2> QED BY <1>0, <1>1, <2>1, <2>2, <2>3 DEF Onward, FlagTaken, KeepsFlag
<1>4. CASE Unsigned(At(p)) /\ PrintUnsigned(Width(At(p)), Base[At(p)], p + 1)
  <2>1. At(p) # NUL /\ At(p) \in DOMAIN Base
    BY <1>4, Bases DEF NUL, Unsigned
  <2>2. Width(At(p)) \in {IntMod, LongMod} /\ Base[At(p)] \in {2, 8, 10, 16}
        /\ (Base[At(p)] = 8 => At(p) = "o")
    BY <2>1, Bases DEF Width
  <2>3. PrintsUnsigned /\ arg' \in 0 .. Len(args) /\ p' = p + 1 /\ pc' = "loop"
        /\ zero_pad' = FALSE /\ UNCHANGED <<call, flagged>>
    BY <1>0, <1>4, <2>1, <2>2, UnsignedStep
  <2> QED BY <1>0, <1>1, <2>1, <2>3 DEF Onward, FlagTaken, KeepsFlag
<1>5. CASE At(p) \in {"c", "s"} /\ Read(p + 1) /\ UNCHANGED <<zero_pad, printed>>
  <2>1. At(p) # NUL
    BY <1>5 DEF NUL
  <2>2. format[p] # "0" /\ ~TakesFlagBack(format, p)
    BY <1>1, <1>5, <2>1, Bases DEF TakesFlagBack, Unsigned
  <2>3. arg' \in 0 .. Len(args) /\ p' = p + 1 /\ pc' = "loop" /\ UNCHANGED <<call, flagged>>
    BY <1>0, <1>5, Places DEF Read
  <2> QED BY <1>0, <1>1, <1>5, <2>1, <2>2, <2>3 DEF Onward, FlagTaken, KeepsFlag
<1> QED BY <1>2, <1>3, <1>4, <1>5, Zenon DEF Directive

LEMMA LongDirectiveStep ==
    ASSUME FormatsEndWhole, Placed, LongDirective
    PROVE  Onward /\ FlagTaken /\ KeepsFlag
<1>0. TypeOK /\ pc = "format" /\ arg \in 0 .. Len(args) /\ At(p) = "l"
  BY DEF LongDirective, TypeOK, Placed
<1>1. /\ p \in Nat /\ Len(format) \in Nat /\ p <= Len(format) /\ format[p] = "l"
      /\ p > 1 /\ p - 1 \in 1 .. Len(format) /\ Opened(format, p - 1)
      /\ EndsWhole(format)
  <2>1. At(p) # NUL
    BY <1>0 DEF NUL
  <2>2. /\ p \in Nat /\ Len(format) \in Nat /\ p <= Len(format) /\ format[p] = "l"
        /\ format \in Formats
    BY <1>0, <2>1, Places
  <2>3. p > 1 /\ Opened(format, p - 1)
    BY <1>0 DEF Placed
  <2> QED BY <2>2, <2>3 DEF FormatsEndWhole
<1>2. /\ (p - 1) + 1 = Len(format) => format[(p - 1) + 1] # "l"
      /\ (p - 1) + 2 = Len(format) => format[(p - 1) + 1] # "l" \/ format[(p - 1) + 2] # "l"
  BY <1>1, Zenon DEF EndsWhole
<1>3. /\ p + 1 <= Len(format)
      /\ p + 1 = Len(format) => format[p + 1] # "l"
  <2>1. (p - 1) + 1 = p /\ (p - 1) + 2 = p + 1
    BY <1>1
  <2> QED BY <1>1, <1>2, <2>1
<1>4. At(p + 1) = format[p + 1]
  BY <1>3 DEF At
<1>5. At(p + 1) = "l" => p + 2 <= Len(format) /\ At(p + 2) = format[p + 2]
  <2>1. At(p + 1) = "l" => p + 2 <= Len(format)
    BY <1>1, <1>3, <1>4
  <2> QED BY <2>1 DEF At
<1>6. /\ format[p] # "0"
      /\ TakesFlagBack(format, p) =>
            LongUnsigned(At(p + 1)) \/ (At(p + 1) = "l" /\ At(p + 2) = "u")
  BY <1>1, <1>3, <1>4, <1>5, Bases DEF TakesFlagBack, Unsigned
<1>7. /\ p + 1 \in 1 .. (Len(format) + 1) /\ p + 2 \in 1 .. (Len(format) + 1)
      /\ At(p + 1) = "l" => p + 3 \in 1 .. (Len(format) + 1)
      /\ p + 1 >= p /\ p + 2 >= p /\ p + 3 >= p
  BY <1>1, <1>3, <1>5
<1>8. LongMod \in {IntMod, LongMod} /\ 10 \in {2, 8, 10, 16} /\ 10 # 8
  OBVIOUS
<1>9. CASE LongUnsigned(At(p + 1)) /\ PrintUnsigned(LongMod, Base[At(p + 1)], p + 2)
  <2>1. Base[At(p + 1)] \in {2, 8, 10, 16} /\ Base[At(p + 1)] # 8
    BY <1>9, Bases DEF LongUnsigned
  <2>2. PrintsUnsigned /\ arg' \in 0 .. Len(args) /\ p' = p + 2 /\ pc' = "loop"
        /\ zero_pad' = FALSE /\ UNCHANGED <<call, flagged>>
    BY <1>0, <1>8, <1>9, <2>1, UnsignedStep
  <2> QED BY <1>0, <1>7, <2>2 DEF Onward, FlagTaken, KeepsFlag
<1>10. CASE At(p + 1) = "l" /\ At(p + 2) = "u" /\ PrintUnsigned(LongMod, 10, p + 3)
  <2>1. PrintsUnsigned /\ arg' \in 0 .. Len(args) /\ p' = p + 3 /\ pc' = "loop"
        /\ zero_pad' = FALSE /\ UNCHANGED <<call, flagged>>
    BY <1>0, <1>8, <1>10, UnsignedStep
  <2> QED BY <1>0, <1>7, <1>10, <2>1 DEF Onward, FlagTaken, KeepsFlag
<1>11. CASE At(p + 1) = "d" /\ PrintSigned(LongMod, p + 2)
  <2>1. PrintsSigned /\ arg' \in 0 .. Len(args) /\ p' = p + 2 /\ pc' = "loop"
        /\ UNCHANGED <<call, zero_pad, flagged>>
    BY <1>0, <1>8, <1>11, SignedStep
  <2>2. ~TakesFlagBack(format, p)
    BY <1>6, <1>11 DEF LongUnsigned
  <2> QED BY <1>0, <1>1, <1>6, <1>7, <2>1, <2>2 DEF Onward, FlagTaken, KeepsFlag
<1>12. CASE At(p + 1) = "l" /\ At(p + 2) = "d" /\ PrintSigned(LongMod, p + 3)
  <2>1. PrintsSigned /\ arg' \in 0 .. Len(args) /\ p' = p + 3 /\ pc' = "loop"
        /\ UNCHANGED <<call, zero_pad, flagged>>
    BY <1>0, <1>8, <1>12, SignedStep
  <2>2. ~TakesFlagBack(format, p)
    BY <1>6, <1>12 DEF LongUnsigned
  <2> QED BY <1>0, <1>1, <1>6, <1>7, <1>12, <2>1, <2>2 DEF Onward, FlagTaken, KeepsFlag
<1>13. CASE /\ At(p + 1) = "l" /\ At(p + 2) \notin {"u", "d"}
            /\ p' = IF At(p + 2) = NUL THEN p + 3 ELSE p + 2
            /\ pc' = "loop" /\ UNCHANGED <<call, arg, zero_pad, flagged, printed>>
  <2>1. ~TakesFlagBack(format, p)
    BY <1>6, <1>13 DEF LongUnsigned
  <2> QED BY <1>0, <1>1, <1>6, <1>7, <1>13, <2>1 DEF Onward, FlagTaken, KeepsFlag
<1>14. CASE /\ ~LongUnsigned(At(p + 1)) /\ At(p + 1) \notin {"d", "l"}
            /\ p' = IF At(p + 1) = NUL THEN p + 2 ELSE p + 1
            /\ pc' = "loop" /\ UNCHANGED <<call, arg, zero_pad, flagged, printed>>
  <2>1. ~TakesFlagBack(format, p)
    BY <1>6, <1>14
  <2> QED BY <1>0, <1>1, <1>6, <1>7, <1>14, <2>1 DEF Onward, FlagTaken, KeepsFlag
<1> QED BY <1>0, <1>9, <1>10, <1>11, <1>12, <1>13, <1>14, LongCases, Zenon

LEMMA UnimplementedStep ==
    ASSUME TypeOK, Unimplemented
    PROVE  Onward /\ FlagTaken /\ KeepsFlag
<1>1. /\ pc = "format" /\ p' = p /\ pc' = "loop"
      /\ UNCHANGED <<call, arg, zero_pad, flagged, printed>>
      /\ ~Unsigned(At(p)) /\ At(p) \notin {"%", "0", "i", "d", "l", "c", "s"}
  BY DEF Unimplemented, StepBack
<1>2. p \in Nat /\ Len(format) \in Nat /\ p \in 1 .. (Len(format) + 1)
      /\ arg \in 0 .. Len(args) /\ p >= p
  BY Places DEF TypeOK
<1>3. p <= Len(format) => format[p] # "0" /\ ~TakesFlagBack(format, p)
  BY <1>1 DEF At, TakesFlagBack
<1> QED BY <1>1, <1>2, <1>3 DEF Onward, FlagTaken, KeepsFlag

-----------------------------------------------------------------------------
(***************************************************************************)
(* The texts of the numbers.                                               *)
(***************************************************************************)

LEMMA PrintedFields ==
    ASSUME NEW kind, NEW word, NEW base, NEW text
    PROVE  /\ Printed(kind, word, base, text).kind = kind
           /\ Printed(kind, word, base, text).word = word
           /\ Printed(kind, word, base, text).base = base
           /\ Printed(kind, word, base, text).text = text
           /\ Printed(kind, word, base, text).flagged = flagged
BY DEF Printed

\* What each of them prints fits the buffers.
LEMMA SignedFits ==
    ASSUME TypeOK, PrintsSigned
    PROVE  Len(printed'.text) <= 64
<1>1. PICK k \in 1 .. Len(args), mod \in {IntMod, LongMod} :
         printed' = Printed("signed", Signed(args[k] % mod, mod), 10,
                            lltoa(Signed(args[k] % mod, mod)))
  BY Zenon DEF PrintsSigned
<1>2. args[k] \in 0 .. (LongMod - 1)
  BY Places
<1>3. PICK num \in Int : /\ num = Signed(args[k] % mod, mod)
                         /\ LongMin <= num /\ num < LongMod \div 2
  BY <1>2, SignedWord
<1>4. printed'.text = lltoa(num)
  BY <1>1, <1>3, PrintedFields
<1> QED BY <1>3, <1>4, LltoaFits

LEMMA UnsignedFits ==
    ASSUME TypeOK, PrintsUnsigned
    PROVE  Len(printed'.text) <= 64
<1>1. PICK n \in 0 .. (LongMod - 1), base \in {2, 8, 10, 16} :
         printed' = Printed("unsigned", n, base, decimal_to_base(n, base, zero_pad))
  BY Zenon DEF PrintsUnsigned
<1>2. zero_pad \in BOOLEAN
  BY DEF TypeOK
<1>3. printed'.text = decimal_to_base(n, base, zero_pad)
  BY <1>1, PrintedFields
<1> QED BY <1>2, <1>3, DecimalToBaseFits

LEMMA TimeFits ==
    ASSUME LogTime
    PROVE  Len(printed'.text) <= 64
<1>1. PICK t \in Ticks, enabled \in BOOLEAN :
         printed' = Printed("time", IF enabled THEN t ELSE 0, 10, TimeSinceBoot(t, enabled))
  BY DEF LogTime
<1>2. t \in 0 .. (LongMod - 1)
  BY TicksAssumption
<1>3. printed'.text = TimeSinceBoot(t, enabled)
  BY <1>1, PrintedFields
<1> QED BY <1>2, <1>3, TimeText

LEMMA OpenedNext ==
    ASSUME NEW f, NEW k \in Nat \ {0}, f[k] = "%" \/ (f[k] = "0" /\ k > 1 /\ Opened(f, k - 1))
    PROVE  Opened(f, k)
<1>1. CASE f[k] = "%"
  <2>1. k \in 1 .. k /\ \A i \in (k + 1) .. k : f[i] = "0"
    OBVIOUS
  <2> QED BY <1>1, <2>1 DEF Opened
<1>2. CASE f[k] = "0" /\ k > 1 /\ Opened(f, k - 1)
  <2>1. PICK j \in 1 .. (k - 1) : f[j] = "%" /\ \A i \in (j + 1) .. (k - 1) : f[i] = "0"
    BY <1>2 DEF Opened
  <2>2. \A i \in (j + 1) .. k : i = k \/ i \in (j + 1) .. (k - 1)
    OBVIOUS
  <2>3. j \in 1 .. k /\ \A i \in (j + 1) .. k : f[i] = "0"
    BY <1>2, <2>1, <2>2
  <2> QED BY <2>1, <2>3 DEF Opened
<1> QED BY <1>1, <1>2

LEMMA PlacedInit == ASSUME Init PROVE Placed
<1>1. format \in Seq(STRING) /\ args \in Seq(0 .. (LongMod - 1))
  BY FormatsAssumption, ArgsAssumption DEF Init
<1>2. Len(format) \in Nat /\ Len(args) \in Nat
  BY <1>1
<1>3. 1 \in 1 .. (Len(format) + 1) /\ 0 \in 0 .. Len(args)
  BY <1>2
<1>4. Len(Nothing.text) <= 64
  <2>1. Nothing.text = << >> /\ Len(<< >>) = 0
    BY DEF Nothing
  <2> QED BY <2>1
<1> QED BY <1>3, <1>4 DEF Init, Placed, TypeOK

LEMMA PlacedNext ==
    ASSUME FormatsEndWhole, Placed, [Next]_vars
    PROVE  Placed'
<1>0. TypeOK /\ p \in Nat /\ p >= 1 /\ Len(format) \in Nat
  BY Places DEF Placed
<1>1. CASE UNCHANGED vars
  BY <1>0, <1>1 DEF vars, call, Placed, TypeOK
<1>2. CASE LogTime
  <2>1. Len(printed'.text) <= 64
    BY <1>2, TimeFits
  <2> QED BY <1>0, <1>2, <2>1 DEF LogTime, call, Placed, TypeOK
<1>3. CASE Letter
  <2>1. p' \in 1 .. (Len(format) + 1)
    BY <1>0, <1>3 DEF Letter, Ended
  <2> QED BY <1>0, <1>3, <2>1 DEF Letter, call, Placed, TypeOK
<1>4. CASE Percent
  <2>1. /\ At(p) = "%" /\ p' = p + 1 /\ pc' = "format" /\ flagged' = FALSE
        /\ UNCHANGED <<call, arg, zero_pad, printed>> /\ p <= Len(format)
    BY <1>0, <1>4 DEF Percent, Ended
  <2>2. format[p] = "%" /\ p \in Nat \ {0}
    BY <1>0, <2>1 DEF At
  <2>3. Opened(format, p)
    BY <2>2, OpenedNext
  <2>4. p' \in 1 .. (Len(format) + 1) /\ p' > 1 /\ p' - 1 = p /\ format' = format
    BY <1>0, <2>1 DEF call
  <2> QED BY <1>0, <2>1, <2>3, <2>4 DEF call, Placed, TypeOK
<1>5. CASE Finish
  BY <1>0, <1>5 DEF Finish, call, Placed, TypeOK
<1>6. CASE ZeroFlag
  <2>1. /\ At(p) = "0" /\ p' = p + 1 /\ pc = "format" /\ zero_pad' = TRUE /\ flagged' = TRUE
        /\ UNCHANGED <<call, pc, arg, printed>>
    BY <1>6 DEF ZeroFlag
  <2>2. p <= Len(format) /\ format[p] = "0" /\ p \in Nat \ {0}
    <3>1. At(p) # NUL
      BY <2>1 DEF NUL
    <3> QED BY <1>0, <2>1, <3>1, Places
  <2>3. Opened(format, p)
    BY <2>1, <2>2, OpenedNext DEF Placed
  <2>4. p' \in 1 .. (Len(format) + 1) /\ p' > 1 /\ p' - 1 = p /\ format' = format
    BY <1>0, <2>1, <2>2 DEF call
  <2> QED BY <1>0, <2>1, <2>3, <2>4 DEF call, Placed, TypeOK
<1>7. ASSUME Onward, FlagTaken PROVE Placed'
  <2>1. zero_pad' \in BOOLEAN /\ Len(printed'.text) <= 64
    BY <1>0, <1>7, SignedFits, UnsignedFits DEF FlagTaken, TypeOK
  <2> QED BY <1>0, <1>7, <2>1 DEF Onward, call, Placed, TypeOK
<1>8. CASE Directive
  BY <1>0, <1>7, <1>8, DirectiveStep
<1>9. CASE LongDirective
  BY <1>7, <1>9, LongDirectiveStep
<1>10. CASE Unimplemented
  BY <1>0, <1>7, <1>10, UnimplementedStep
<1> QED BY <1>1, <1>2, <1>3, <1>4, <1>5, <1>6, <1>8, <1>9, <1>10, Zenon DEF Next

LEMMA PlacedAlways == ASSUME FormatsEndWhole PROVE Spec => []Placed
<1>1. Init => Placed
  BY PlacedInit
<1>2. Placed /\ [Next]_vars => Placed'
  BY PlacedNext
<1> QED BY <1>1, <1>2, PTL DEF Spec

\* printk does not read behind the end of its format, nor more arguments than it
\* is passed, and what it makes of a number fits the buffers of 64 characters: of
\* any number, the least long and a whole second among them.
THEOREM PrintkTypeCorrect == ASSUME FormatsEndWhole PROVE Spec => []TypeOK
<1>1. Placed => TypeOK
  BY DEF Placed
<1> QED BY <1>1, PlacedAlways, PTL

-----------------------------------------------------------------------------
(***************************************************************************)
(* The 0 flag.                                                             *)
(***************************************************************************)

\* The flag is that of the directive the loop is in.
Pads ==
    /\ pc # "format" => zero_pad = FALSE
    /\ pc = "format" => zero_pad = flagged
    /\ pc = "format" /\ zero_pad => p - 1 <= Len(format) /\ format[p - 1] = "0"

\* A directive behind a flag takes it back.
LEMMA FlagHonoured ==
    ASSUME FlagsHonoured, Placed, Pads, pc = "format", zero_pad
    PROVE  p <= Len(format) /\ (format[p] = "0" \/ TakesFlagBack(format, p))
<1>1. /\ p \in Nat /\ p > 1 /\ Len(format) \in Nat /\ p - 1 \in 1 .. Len(format)
      /\ (p - 1) + 1 = p /\ format \in Formats
      /\ format[p - 1] = "0" /\ Opened(format, p - 1)
  BY Places DEF Placed, Pads
<1>2. FlagsOnUnsigned(format)
  BY <1>1 DEF FlagsHonoured
<1>3. /\ p - 1 < Len(format)
      /\ format[(p - 1) + 1] = "0" \/ TakesFlagBack(format, (p - 1) + 1)
  BY <1>1, <1>2, Zenon DEF FlagsOnUnsigned
<1> QED BY <1>1, <1>3

LEMMA PadsInit == ASSUME Init PROVE Pads
BY DEF Init, Pads

LEMMA PadsNext ==
    ASSUME FlagsHonoured, FormatsEndWhole, Placed, Pads, [Next]_vars
    PROVE  Pads'
<1>0. TypeOK /\ p \in Nat /\ p >= 1 /\ Len(format) \in Nat
  BY Places DEF Placed
<1>1. CASE UNCHANGED vars
  BY <1>1 DEF vars, call, Pads
<1>2. CASE LogTime
  BY <1>2 DEF LogTime, call, Pads
<1>3. CASE Letter
  BY <1>3 DEF Letter, call, Pads
<1>4. CASE Percent
  BY <1>4 DEF Percent, call, Pads
<1>5. CASE Finish
  BY <1>5 DEF Finish, call, Pads
<1>6. CASE ZeroFlag
  <2>1. /\ At(p) = "0" /\ p' = p + 1 /\ pc' = "format" /\ zero_pad' = TRUE /\ flagged' = TRUE
        /\ format' = format
    BY <1>6 DEF ZeroFlag, call
  <2>2. p <= Len(format) /\ format[p] = "0"
    <3>1. At(p) # NUL
      BY <2>1 DEF NUL
    <3> QED BY <1>0, <2>1, <3>1, Places
  <2>3. p' - 1 = p
    BY <1>0, <2>1
  <2> QED BY <2>1, <2>2, <2>3 DEF Pads
<1>7. ASSUME Onward, FlagTaken, KeepsFlag PROVE Pads'
  <2>1. pc = "format" /\ pc' = "loop" /\ zero_pad \in BOOLEAN
    BY <1>0, <1>7 DEF Onward, TypeOK
  <2>2. zero_pad' = zero_pad \/ zero_pad' = FALSE
    BY <1>7 DEF FlagTaken
  <2>3. ASSUME zero_pad' = zero_pad, zero_pad PROVE FALSE
    <3>1. p <= Len(format) /\ (format[p] = "0" \/ TakesFlagBack(format, p))
      BY <2>1, <2>3, FlagHonoured
    <3> QED BY <1>0, <1>7, <2>3, <3>1 DEF KeepsFlag
  <2>4. zero_pad' = FALSE
    BY <2>1, <2>2, <2>3
  <2> QED BY <2>1, <2>4 DEF Pads
<1>8. CASE Directive
  BY <1>0, <1>7, <1>8, DirectiveStep
<1>9. CASE LongDirective
  BY <1>7, <1>9, LongDirectiveStep
<1>10. CASE Unimplemented
  BY <1>0, <1>7, <1>10, UnimplementedStep
<1> QED BY <1>1, <1>2, <1>3, <1>4, <1>5, <1>6, <1>8, <1>9, <1>10, Zenon DEF Next

\* What is printed, and by which step.
LEMMA PrintingStep ==
    ASSUME FormatsEndWhole, Placed, [Next]_vars
    PROVE  \/ printed' = printed
           \/ LogTime
           \/ PrintsSigned
           \/ PrintsUnsigned
<1>1. TypeOK
  BY DEF Placed
<1>2. Letter \/ Percent \/ Finish \/ ZeroFlag \/ UNCHANGED vars => printed' = printed
  BY DEF Letter, Percent, Finish, ZeroFlag, vars
<1>3. Directive \/ LongDirective \/ Unimplemented => FlagTaken
  BY <1>1, DirectiveStep, LongDirectiveStep, UnimplementedStep
<1> QED BY <1>2, <1>3 DEF Next, FlagTaken

\* A flag in front of an unsigned directive is one of a base with a width.
LEMMA FlaggedBase ==
    ASSUME FlagsHonoured, Placed, Pads, PrintsUnsigned
    PROVE  \E n \in 0 .. (LongMod - 1), base \in {2, 8, 10, 16} :
              /\ printed' = Printed("unsigned", n, base, decimal_to_base(n, base, zero_pad))
              /\ zero_pad \in BOOLEAN /\ flagged = zero_pad
              /\ zero_pad => base # 8
<1>1. PICK n \in 0 .. (LongMod - 1), base \in {2, 8, 10, 16} :
         /\ printed' = Printed("unsigned", n, base, decimal_to_base(n, base, zero_pad))
         /\ base = 8 => At(p) = "o"
         /\ At(p) \in DOMAIN Base \/ At(p) = "l"
         /\ pc = "format"
  BY Zenon DEF PrintsUnsigned
<1>2. zero_pad \in BOOLEAN /\ flagged = zero_pad
  BY <1>1 DEF Placed, TypeOK, Pads
<1>3. ASSUME zero_pad, base = 8 PROVE FALSE
  <2>1. p <= Len(format) /\ (format[p] = "0" \/ TakesFlagBack(format, p))
    BY <1>1, <1>3, FlagHonoured
  <2>2. At(p) = "o" /\ format[p] = "o"
    BY <1>1, <1>3, <2>1 DEF At
  <2> QED BY <2>1, <2>2 DEF TakesFlagBack
<1> QED BY <1>1, <1>2, <1>3

LEMMA PaddedNext ==
    ASSUME FlagsHonoured, FormatsEndWhole, Placed, Pads, PaddedAsFlagged, [Next]_vars
    PROVE  PaddedAsFlagged'
<1>1. CASE printed' = printed
  BY <1>1 DEF PaddedAsFlagged
<1>2. CASE LogTime
  <2>1. printed'.kind = "time"
    BY <1>2, PrintedFields DEF LogTime
  <2> QED BY <2>1 DEF PaddedAsFlagged
<1>3. CASE PrintsSigned
  <2>1. printed'.kind = "signed"
    BY <1>3, PrintedFields DEF PrintsSigned
  <2> QED BY <2>1 DEF PaddedAsFlagged
<1>4. CASE PrintsUnsigned
  <2>1. PICK n \in 0 .. (LongMod - 1), base \in {2, 8, 10, 16} :
           /\ printed' = Printed("unsigned", n, base, decimal_to_base(n, base, zero_pad))
           /\ zero_pad \in BOOLEAN /\ flagged = zero_pad
           /\ zero_pad => base # 8
    BY <1>4, FlaggedBase
  <2>2. /\ printed'.text = decimal_to_base(n, base, zero_pad)
        /\ printed'.base = base /\ printed'.flagged = zero_pad
    BY <2>1, PrintedFields
  <2>3. /\ zero_pad => Len(printed'.text) = PadTo(base)
        /\ ~zero_pad => printed'.text = << "0" >> \/ Head(printed'.text) # "0"
    BY <2>1, <2>2, DecimalToBase
  <2> QED BY <2>1, <2>2, <2>3 DEF PaddedAsFlagged
<1> QED BY <1>1, <1>2, <1>3, <1>4, PrintingStep

LEMMA PadsAlways ==
    ASSUME FlagsHonoured, FormatsEndWhole
    PROVE  Spec => [](Placed /\ Pads)
<1>1. Init => Placed /\ Pads
  BY PlacedInit, PadsInit
<1>2. Placed /\ Pads /\ [Next]_vars => (Placed /\ Pads)'
  BY PlacedNext, PadsNext
<1> QED BY <1>1, <1>2, PTL DEF Spec

\* A number is padded when, and only when, its own directive has a 0 flag, and
\* then to the full width of its base: zero_pad, which outlives a directive, is
\* never left for a later one.
THEOREM PrintkPads ==
    ASSUME FlagsHonoured, FormatsEndWhole
    PROVE  Spec => []PaddedAsFlagged
<1>1. Init => PaddedAsFlagged
  <2>1. Nothing.kind # "unsigned"
    BY DEF Nothing
  <2> QED BY <2>1 DEF Init, PaddedAsFlagged
<1>2. PaddedAsFlagged /\ (Placed /\ Pads) /\ [Next]_vars => PaddedAsFlagged'
  BY PaddedNext
<1> QED BY <1>1, <1>2, PadsAlways, PTL DEF Spec

LEMMA SignedReads ==
    ASSUME NoLeastLong, TypeOK, PrintsSigned
    PROVE  ReadsBack'
<1>1. PICK k \in 1 .. Len(args), mod \in {IntMod, LongMod} :
         printed' = Printed("signed", Signed(args[k] % mod, mod), 10,
                            lltoa(Signed(args[k] % mod, mod)))
  BY Zenon DEF PrintsSigned
<1>2. args[k] \in 0 .. (LongMod - 1) /\ args \in ArgLists
  BY Places
<1>3. args[k] # LongMod \div 2
  BY <1>2 DEF NoLeastLong
<1>4. PICK num \in Int : /\ num = Signed(args[k] % mod, mod)
                         /\ LongMin < num /\ num < LongMod \div 2
  BY <1>2, <1>3, SignedWord
<1>5. printed'.kind = "signed" /\ printed'.word = num /\ printed'.text = lltoa(num)
  BY <1>1, <1>4, PrintedFields
<1>6. ReadsSigned(lltoa(num), num) /\ ~Overruns(num)
  BY <1>4, LltoaReads
<1>7. printed'.kind # "unsigned"
  BY <1>5
<1> QED BY <1>5, <1>6, <1>7, Zenon DEF ReadsBack

LEMMA UnsignedReads ==
    ASSUME FlagsHonoured, Placed, Pads, PrintsUnsigned
    PROVE  ReadsBack'
<1>1. PICK n \in 0 .. (LongMod - 1), base \in {2, 8, 10, 16} :
         /\ printed' = Printed("unsigned", n, base, decimal_to_base(n, base, zero_pad))
         /\ zero_pad \in BOOLEAN /\ flagged = zero_pad
         /\ zero_pad => base # 8
  BY FlaggedBase
<1>2. /\ printed'.kind = "unsigned" /\ printed'.word = n /\ printed'.base = base
      /\ printed'.text = decimal_to_base(n, base, zero_pad)
  BY <1>1, PrintedFields
<1>3. Reads(decimal_to_base(n, base, zero_pad), base, n)
  BY <1>1, DecimalToBase
<1>4. printed'.kind # "signed"
  BY <1>2
<1> QED BY <1>2, <1>3, <1>4, Zenon DEF ReadsBack

\* What printk prints for a number reads back as the argument, cut to the width of
\* its directive, in every base, padded or not, with a sign if it is negative; and
\* lltoa stays in its buffer.  The least long is the only number it cannot print.
THEOREM PrintkReadsBack ==
    ASSUME FlagsHonoured, FormatsEndWhole, NoLeastLong
    PROVE  Spec => []ReadsBack
<1>1. Init => ReadsBack
  <2>1. Nothing.kind # "unsigned" /\ Nothing.kind # "signed"
    BY DEF Nothing
  <2> QED BY <2>1 DEF Init, ReadsBack
<1>2. ReadsBack /\ (Placed /\ Pads) /\ [Next]_vars => ReadsBack'
  <2> SUFFICES ASSUME ReadsBack, Placed, Pads, [Next]_vars PROVE ReadsBack'
    OBVIOUS
  <2>1. CASE printed' = printed
    BY <2>1 DEF ReadsBack
  <2>2. CASE LogTime
    <3>1. printed'.kind = "time"
      BY <2>2, PrintedFields DEF LogTime
    <3> QED BY <3>1 DEF ReadsBack
  <2>3. TypeOK
    BY DEF Placed
  <2> QED BY <2>1, <2>2, <2>3, PrintingStep, SignedReads, UnsignedReads
<1> QED BY <1>1, <1>2, PadsAlways, PTL DEF Spec

\* The time in front of a logged line reads back in milliseconds, with three
\* digits behind the point, for every count of the timer but a whole second, and
\* before the timer is enabled.
THEOREM PrintkTimeReadsBack ==
    ASSUME NoWholeSecond
    PROVE  Spec => []TimeReadsBack
<1>1. Init => TimeReadsBack
  <2>1. Nothing.kind # "time"
    BY DEF Nothing
  <2> QED BY <2>1 DEF Init, TimeReadsBack
<1>2. TimeReadsBack /\ [Next]_vars => TimeReadsBack'
  <2> SUFFICES ASSUME TimeReadsBack, [Next]_vars PROVE TimeReadsBack'
    OBVIOUS
  <2>1. CASE printed' = printed
    BY <2>1 DEF TimeReadsBack
  <2>2. CASE LogTime
    <3>1. PICK t \in Ticks, enabled \in BOOLEAN :
             printed' = Printed("time", IF enabled THEN t ELSE 0, 10, TimeSinceBoot(t, enabled))
      BY <2>2 DEF LogTime
    <3>2. t \in 0 .. (LongMod - 1) /\ t % 1000 # 0
      BY TicksAssumption DEF NoWholeSecond
    <3>3. TimeReads(TimeSinceBoot(t, enabled), IF enabled THEN t ELSE 0)
      BY <3>2, TimeText
    <3>4. /\ printed'.text = TimeSinceBoot(t, enabled)
          /\ printed'.word = IF enabled THEN t ELSE 0
      BY <3>1, PrintedFields
    <3>5. TimeReads(printed'.text, printed'.word)
      BY <3>3, <3>4
    <3> QED BY <3>5, Zenon DEF TimeReads, TimeReadsBack
  <2>3. CASE printed'.kind # "time"
    BY <2>3 DEF TimeReadsBack
  <2>4. ASSUME NEW mod, NEW next, PrintSigned(mod, next) PROVE printed'.kind # "time"
    BY <2>4, PrintedFields DEF PrintSigned
  <2>5. ASSUME NEW mod, NEW base, NEW next, PrintUnsigned(mod, base, next)
        PROVE  printed'.kind # "time"
    BY <2>5, PrintedFields DEF PrintUnsigned
  <2>6. Directive => printed' = printed \/ printed'.kind # "time"
    BY <2>4, <2>5 DEF Directive
  <2>7. LongDirective => printed' = printed \/ printed'.kind # "time"
    BY <2>4, <2>5 DEF LongDirective
  <2>8. Letter \/ Percent \/ Finish \/ ZeroFlag \/ Unimplemented \/ UNCHANGED vars =>
           printed' = printed
    BY DEF Letter, Percent, Finish, ZeroFlag, Unimplemented, vars
  <2> QED BY <2>1, <2>2, <2>3, <2>6, <2>7, <2>8 DEF Next
<1> QED BY <1>1, <1>2, PTL DEF Spec

-----------------------------------------------------------------------------
(***************************************************************************)
(* The end of the loop.                                                    *)
(***************************************************************************)

\* How many steps a call has left, at most.
StepsLeft ==
    3 * ((Len(format) + 1) - p)
    + (IF pc = "log" THEN 2 ELSE IF pc = "loop" THEN 1 ELSE IF pc = "format" THEN 2 ELSE 0)

LEMMA StepsLeftNext ==
    ASSUME FormatsEndWhole, Placed, Next
    PROVE  StepsLeft' \in Nat /\ StepsLeft' < StepsLeft
<1>0. TypeOK /\ p \in Nat /\ Len(format) \in Nat /\ p <= Len(format) + 1
  BY Places DEF Placed
<1>1. Placed'
  BY PlacedNext
<1>2. /\ format' = format => p' \in Nat /\ p' <= Len(format) + 1
      /\ pc' \in {"log", "loop", "format", "done"}
  <2>1. format' = format => p' \in 1 .. (Len(format) + 1)
    BY <1>1 DEF Placed, TypeOK
  <2> QED BY <1>0, <1>1, <2>1 DEF Placed, TypeOK
<1>3. Onward => format' = format /\ p' >= p /\ pc = "format" /\ pc' = "loop"
  BY DEF Onward, call
<1>4. Directive \/ LongDirective \/ Unimplemented => Onward
  BY <1>0, DirectiveStep, LongDirectiveStep, UnimplementedStep
<1>5. LogTime => format' = format /\ p' = p /\ pc = "log" /\ pc' = "loop"
  BY DEF LogTime, call
<1>6. Letter => format' = format /\ p' = p + 1 /\ pc = "loop" /\ pc' = "loop"
  BY DEF Letter, call
<1>7. Percent => format' = format /\ p' = p + 1 /\ pc = "loop" /\ pc' = "format"
  BY DEF Percent, call
<1>8. Finish => format' = format /\ p' = p /\ pc = "loop" /\ pc' = "done"
  BY DEF Finish, call
<1>9. ZeroFlag => format' = format /\ p' = p + 1 /\ pc = "format" /\ pc' = "format"
  BY DEF ZeroFlag, call
<1>10. /\ format' = format
       /\ \/ pc = "format" /\ pc' = "loop" /\ p' >= p
          \/ pc = "log" /\ pc' = "loop" /\ p' = p
          \/ pc \in {"loop", "format"} /\ pc' \in {"loop", "format"} /\ p' = p + 1
          \/ pc = "loop" /\ pc' = "done" /\ p' = p
  BY <1>3, <1>4, <1>5, <1>6, <1>7, <1>8, <1>9 DEF Next
<1>11. /\ p' \in Nat /\ p' <= Len(format) + 1
       /\ StepsLeft' = 3 * ((Len(format) + 1) - p')
            + (IF pc' = "log" THEN 2 ELSE IF pc' = "loop" THEN 1
               ELSE IF pc' = "format" THEN 2 ELSE 0)
  BY <1>2, <1>10 DEF StepsLeft
<1> QED BY <1>0, <1>10, <1>11 DEF StepsLeft

\* No call takes more steps than three for each character of its format and two:
\* the loop never reads the same % again, in the default cases either.
THEOREM PrintkStepsLeft ==
    ASSUME FormatsEndWhole
    PROVE  Spec => [][StepsLeft' \in Nat /\ StepsLeft' < StepsLeft]_vars
<1>1. Placed /\ [Next]_vars => [StepsLeft' \in Nat /\ StepsLeft' < StepsLeft]_vars
  BY StepsLeftNext
<1> QED BY <1>1, PlacedAlways, PTL DEF Spec
=============================================================================
