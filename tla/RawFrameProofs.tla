--------------------------- MODULE RawFrameProofs ---------------------------
(***************************************************************************)
(* Proofs about RawFrame and Alsa, for any timings, frames and accuracies, *)
(* any size of the buffer and any rates of the card: the base time and     *)
(* Euclid's algorithm with a tolerance, the length of the frame that is    *)
(* written, and the array of samples made of it.                           *)
(***************************************************************************)
EXTENDS Alsa, Lemmas, FiniteSetTheorems

(***************************************************************************)
(* The recursive function in the definition of Gcd: there is one, and what *)
(* holds of its result.                                                    *)
(***************************************************************************)
Arguments == Nat \X Nat

IsEuclid(g, error) ==
    g = [p \in Arguments |-> IF p[1] <= error THEN p[2] ELSE g[<<p[2] % p[1], p[1]>>]]

EuclidAt(g, h, error, a, b) ==
    /\ a <= error => g[<<a, b>>] = b
    /\ ~ (a <= error) => g[<<a, b>>] = h[<<b % a, a>>]

LEMMA RemainderFacts ==
  ASSUME NEW a \in Nat, NEW b \in Nat, a # 0
  PROVE  b % a \in Nat /\ b % a < a
  OBVIOUS

LEMMA EuclidStep ==
  ASSUME NEW g, NEW error \in Nat, IsEuclid(g, error), NEW a \in Nat, NEW b \in Nat
  PROVE  EuclidAt(g, g, error, a, b)
<1> DEFINE p == <<a, b>>
<1>1. p \in Arguments /\ p[1] = a /\ p[2] = b
  BY DEF Arguments
<1>2. g[p] = IF p[1] <= error THEN p[2] ELSE g[<<p[2] % p[1], p[1]>>]
  <2> HIDE DEF p
  <2> QED
    BY <1>1 DEF IsEuclid
<1>3. g[p] = IF a <= error THEN b ELSE g[<<b % a, a>>]
  BY <1>2
<1> QED
  BY <1>3 DEF EuclidAt

EuclidStepped(r, error) ==
    /\ r \in [Nat -> [Arguments -> Nat]]
    /\ \A n \in Nat : \A a, b \in Nat : EuclidAt(r[n + 1], r[n], error, a, b)
    /\ \A a, b \in Nat : a <= error => r[0][<<a, b>>] = b

LEMMA EuclidSteps ==
  ASSUME NEW error \in Nat
  PROVE  \E r : EuclidStepped(r, error)
<1> DEFINE S == [Arguments -> Nat]
           s0 == [p \in Arguments |-> p[2]]
           Next1(h) == [p \in Arguments |->
                         IF p[1] <= error THEN p[2] ELSE h[<<p[2] % p[1], p[1]>>]]
           step == [q \in Nat \X S |-> Next1(q[2])]
<1>0. \A p \in Arguments : p[1] \in Nat /\ p[2] \in Nat /\ p = <<p[1], p[2]>>
  BY DEF Arguments
<1>1. s0 \in S
  BY <1>0
<1>2. ASSUME NEW h \in S PROVE Next1(h) \in S
  <2> SUFFICES ASSUME NEW p \in Arguments
               PROVE (IF p[1] <= error THEN p[2] ELSE h[<<p[2] % p[1], p[1]>>]) \in Nat
    OBVIOUS
  <2>1. CASE p[1] <= error
    BY <1>0, <2>1
  <2>2. CASE ~ (p[1] <= error)
    <3>1. p[1] \in Nat /\ p[2] \in Nat /\ p[1] # 0
      BY <1>0, <2>2
    <3>2. <<p[2] % p[1], p[1]>> \in Arguments
      BY <3>1, RemainderFacts DEF Arguments
    <3> QED
      BY <2>2, <3>2
  <2> QED
    BY <2>1, <2>2
<1> HIDE DEF S, Next1
<1>3. step \in [Nat \X S -> S]
  <2>1. \A q \in Nat \X S : q[2] \in S
    OBVIOUS
  <2> QED
    BY <1>2, <2>1
<1>4. ASSUME NEW n \in Nat, NEW h \in S PROVE step[<<n, h>>] = Next1(h)
  <2> DEFINE q == <<n, h>>
  <2>1. q \in Nat \X S /\ q[2] = h
    OBVIOUS
  <2> HIDE DEF q
  <2>2. step[q] = Next1(q[2])
    BY <2>1
  <2> QED
    BY <2>1, <2>2 DEF q
<1> HIDE DEF step, s0
<1>5. PICK r \in [Nat -> S] : IsRecursion(r, s0, step)
  BY <1>1, <1>3, Recursion
<1>6. ASSUME NEW n \in Nat, NEW a \in Nat, NEW b \in Nat PROVE EuclidAt(r[n + 1], r[n], error, a, b)
  <2>1. r[n + 1] = step[<<n, r[n]>>] /\ r[n] \in S
    BY <1>5 DEF IsRecursion
  <2>2. r[n + 1] = Next1(r[n])
    BY <1>4, <2>1
  <2> DEFINE p == <<a, b>>
  <2>3. p \in Arguments /\ p[1] = a /\ p[2] = b
    BY DEF Arguments
  <2> HIDE DEF p
  <2>4. Next1(r[n])[p] = IF a <= error THEN b ELSE r[n][<<b % a, a>>]
    BY <2>3 DEF Next1
  <2> QED
    BY <2>2, <2>4 DEF EuclidAt, p
<1>7. ASSUME NEW a \in Nat, NEW b \in Nat PROVE r[0][<<a, b>>] = b
  <2> DEFINE p == <<a, b>>
  <2>3. p \in Arguments /\ p[1] = a /\ p[2] = b
    BY DEF Arguments
  <2> HIDE DEF p
  <2>1. s0[p] = p[2]
    BY <2>3 DEF s0
  <2> QED
    BY <1>5, <2>1, <2>3 DEF p, IsRecursion
<1> QED
  BY <1>5, <1>6, <1>7 DEF EuclidStepped, S

Enough(r, n, a, b) == r[n + 1][<<a, b>>] = r[n][<<a, b>>]

LEMMA EuclidStable ==
  ASSUME NEW error \in Nat, NEW r, EuclidStepped(r, error)
  PROVE  \A n \in Nat : \A a \in 0 .. n : \A b \in Nat : Enough(r, n, a, b)
<1> DEFINE T == {n \in Nat : \A a \in 0 .. n : \A b \in Nat : Enough(r, n, a, b)}
<1>1. 0 \in T
  <2> SUFFICES ASSUME NEW b \in Nat PROVE r[0 + 1][<<0, b>>] = r[0][<<0, b>>]
    BY DEF Enough
  <2>1. EuclidAt(r[0 + 1], r[0], error, 0, b)
    BY DEF EuclidStepped
  <2>2. r[0 + 1][<<0, b>>] = b
    BY <2>1 DEF EuclidAt
  <2>3. r[0][<<0, b>>] = b
    BY DEF EuclidStepped
  <2> QED
    BY <2>2, <2>3
<1>2. ASSUME NEW n \in Nat, n \in T PROVE n + 1 \in T
  <2> SUFFICES ASSUME NEW a \in 0 .. n + 1, NEW b \in Nat
               PROVE Enough(r, n + 1, a, b)
    OBVIOUS
  <2>1. EuclidAt(r[(n + 1) + 1], r[n + 1], error, a, b) /\ EuclidAt(r[n + 1], r[n], error, a, b)
    BY DEF EuclidStepped
  <2>2. CASE a <= error
    BY <2>1, <2>2 DEF EuclidAt, Enough
  <2>3. CASE ~ (a <= error)
    <3> DEFINE c == b % a
    <3>1. a \in Nat /\ a # 0
      BY <2>3
    <3>2. c \in Nat /\ c < a
      BY <3>1, RemainderFacts
    <3> HIDE DEF c
    <3>3. c \in 0 .. n
      BY <3>2
    <3>4. Enough(r, n, c, a)
      BY <1>2, <3>1, <3>3
    <3>5. r[(n + 1) + 1][<<a, b>>] = r[n + 1][<<c, a>>] /\ r[n + 1][<<a, b>>] = r[n][<<c, a>>]
      BY <2>1, <2>3 DEF EuclidAt, c
    <3> QED
      BY <3>4, <3>5 DEF Enough
  <2> QED
    BY <2>2, <2>3
<1> HIDE DEF T
<1>3. Nat \subseteq T
  BY <1>1, <1>2, Induction
<1> QED
  BY <1>3 DEF T

LEMMA EuclidSettled ==
  ASSUME NEW error \in Nat, NEW r, EuclidStepped(r, error), NEW a \in Nat, NEW b \in Nat,
         NEW m \in Nat, a <= m
  PROVE  r[m][<<a, b>>] = r[a][<<a, b>>]
<1> DEFINE T == {n \in Nat : a <= n => r[n][<<a, b>>] = r[a][<<a, b>>]}
<1>1. 0 \in T
  OBVIOUS
<1>2. ASSUME NEW n \in Nat, n \in T PROVE n + 1 \in T
  <2>1. CASE a = n + 1
    BY <2>1
  <2>2. CASE a # n + 1
    <3> SUFFICES ASSUME a <= n PROVE r[n + 1][<<a, b>>] = r[a][<<a, b>>]
      BY <2>2
    <3>1. a \in 0 .. n
      OBVIOUS
    <3>2. Enough(r, n, a, b)
      BY <3>1, EuclidStable
    <3>3. r[n][<<a, b>>] = r[a][<<a, b>>]
      BY <1>2
    <3> QED
      BY <3>2, <3>3 DEF Enough
  <2> QED
    BY <2>1, <2>2
<1> HIDE DEF T
<1>3. Nat \subseteq T
  BY <1>1, <1>2, Induction
<1> QED
  BY <1>3 DEF T

LEMMA EuclidExists ==
  ASSUME NEW error \in Nat
  PROVE  \E g : IsEuclid(g, error)
<1>1. PICK r : EuclidStepped(r, error)
  BY EuclidSteps
<1> DEFINE g == [p \in Arguments |-> r[p[1]][p]]
<1>2. ASSUME NEW p \in Arguments
      PROVE  g[p] = IF p[1] <= error THEN p[2] ELSE g[<<p[2] % p[1], p[1]>>]
  <2>1. PICK a \in Nat, b \in Nat : p = <<a, b>> /\ p[1] = a /\ p[2] = b
    BY DEF Arguments
  <2>2. g[<<a, b>>] = r[a][<<a, b>>]
    BY <2>1
  <2>3. CASE a = 0
    <3>0. r[0][<<0, b>>] = b
      BY <1>1 DEF EuclidStepped
    <3>1. g[<<a, b>>] = b
      BY <2>2, <2>3, <3>0
    <3> HIDE DEF g
    <3> QED
      BY <2>1, <2>3, <3>1
  <2>4. CASE a # 0
    <3> DEFINE c == b % a
               n == a - 1
    <3>1. c \in Nat /\ c < a
      BY <2>4, RemainderFacts
    <3>2. n \in Nat /\ n + 1 = a
      BY <2>4
    <3>3. EuclidAt(r[n + 1], r[n], error, a, b)
      BY <1>1, <3>2 DEF EuclidStepped
    <3> HIDE DEF c, n
    <3>4. c <= n
      BY <3>1, <3>2
    <3>5. g[<<c, a>>] = r[c][<<c, a>>]
      BY <3>1 DEF Arguments
    <3>6. r[n][<<c, a>>] = r[c][<<c, a>>]
      BY <1>1, <3>1, <3>2, <3>4, EuclidSettled
    <3>7. g[<<a, b>>] = IF a <= error THEN b ELSE g[<<c, a>>]
      <4> HIDE DEF g
      <4> QED
        BY <2>2, <3>2, <3>3, <3>5, <3>6 DEF EuclidAt, c
    <3> HIDE DEF g
    <3> QED
      BY <2>1, <3>7 DEF c
  <2> QED
    BY <2>3, <2>4
<1>3. g = [p \in Arguments |-> g[p]]
  OBVIOUS
<1> HIDE DEF g
<1>4. IsEuclid(g, error)
  BY <1>2, <1>3 DEF IsEuclid
<1> QED
  BY <1>4

LEMMA GcdDef ==
  ASSUME NEW x, NEW y, NEW error
  PROVE  Gcd(x, y, error) = (CHOOSE g : IsEuclid(g, error))[<<x, y>>]
  BY DEF Gcd, IsEuclid, Arguments

LEMMA GcdIs ==
  ASSUME NEW error \in Nat
  PROVE  \E g : IsEuclid(g, error) /\ \A x, y : Gcd(x, y, error) = g[<<x, y>>]
<1>1. PICK h : IsEuclid(h, error)
  BY EuclidExists
<1>2. PICK g : g = CHOOSE f : IsEuclid(f, error)
  OBVIOUS
<1>3. IsEuclid(g, error)
  BY <1>1, <1>2
<1>4. ASSUME NEW x, NEW y PROVE Gcd(x, y, error) = g[<<x, y>>]
  BY <1>2, GcdDef
<1> QED
  BY <1>3, <1>4

LEMMA Widths ==
    /\ UINT8_MAX \in Nat /\ UINT16_MAX \in Nat /\ UINT8_MAX <= UINT16_MAX
    /\ Times \subseteq Nat /\ Counts \subseteq Nat /\ Counts \subseteq Times
<1>1. UINT8_MAX \in Nat /\ UINT16_MAX \in Nat /\ UINT8_MAX <= UINT16_MAX
  BY DEF UINT8_MAX, UINT16_MAX
<1> QED
  BY <1>1 DEF Times, Counts

Multiple(x, n) == \E k \in Int : x = k * n

(***************************************************************************)
(* The result of Gcd: it is a time if the arguments are, it is not zero if *)
(* the second is not, and without tolerance its divisors are those the     *)
(* arguments have in common.                                               *)
(***************************************************************************)
SameDivisors(a, b, d) == \A n \in Nat : Multiple(a, n) /\ Multiple(b, n) <=> Multiple(d, n)

Divided(a, b, error, d) ==
    /\ d \in Nat
    /\ a \in Times /\ b \in Times => d \in Times
    /\ b # 0 => d # 0
    /\ error = 0 => SameDivisors(a, b, d)

LEMMA MultipleOfRemainder ==
  ASSUME NEW a \in Nat, NEW b \in Nat, a # 0, NEW n \in Nat, Multiple(a, n)
  PROVE  Multiple(b, n) <=> Multiple(b % a, n)
<1> DEFINE q == b \div a
           c == b % a
<1>1. q \in Int /\ c \in Int /\ b = (a * q) + c
  OBVIOUS
<1> HIDE DEF q, c
<1>2. PICK k \in Int : a = k * n
  BY DEF Multiple
<1>3. a * q = (k * q) * n
  BY <1>1, <1>2
<1>4. ASSUME NEW m \in Int, b = m * n PROVE Multiple(c, n)
  <2>1. c = (m * n) - ((k * q) * n)
    BY <1>1, <1>3, <1>4
  <2>2. PICK kq \in Int : kq = k * q
    BY <1>1
  <2>3. c = (m - kq) * n
    BY <2>1, <2>2
  <2> QED
    BY <2>3 DEF Multiple
<1>5. ASSUME NEW m \in Int, c = m * n PROVE Multiple(b, n)
  <2>2. PICK kq \in Int : kq = k * q
    BY <1>1
  <2>3. b = (kq * n) + (m * n)
    BY <1>1, <1>3, <1>5, <2>2
  <2>4. b = (kq + m) * n
    BY <2>3
  <2> QED
    BY <2>4 DEF Multiple
<1>6. Multiple(b, n) <=> Multiple(c, n)
  BY <1>4, <1>5 DEF Multiple
<1> QED
  BY <1>6 DEF c

LEMMA DividedBase ==
  ASSUME NEW a \in Nat, NEW b \in Nat, NEW error \in Nat, a <= error
  PROVE  Divided(a, b, error, b)
<1>1. ASSUME error = 0 PROVE SameDivisors(a, b, b)
  <2>1. a = 0
    BY <1>1
  <2>2. ASSUME NEW n \in Nat PROVE Multiple(0, n)
    <3>1. 0 = 0 * n
      OBVIOUS
    <3> QED
      BY <3>1 DEF Multiple
  <2> QED
    BY <2>1, <2>2 DEF SameDivisors
<1> QED
  BY <1>1 DEF Divided

LEMMA DividedStep ==
  ASSUME NEW a \in Nat, NEW b \in Nat, NEW error \in Nat, a # 0, NEW d,
         Divided(b % a, a, error, d)
  PROVE  Divided(a, b, error, d)
<1> DEFINE c == b % a
<1>1. c \in Nat /\ c < a
  BY RemainderFacts
<1>2. \A n \in Nat : Multiple(a, n) => (Multiple(b, n) <=> Multiple(c, n))
  BY MultipleOfRemainder
<1>3. Divided(c, a, error, d)
  OBVIOUS
<1> HIDE DEF c
<1>4. ASSUME a \in Times, b \in Times PROVE d \in Times
  <2>1. c \in Times
    BY <1>1, <1>4, Widths DEF Times
  <2> QED
    BY <1>3, <1>4, <2>1 DEF Divided
<1>5. ASSUME error = 0 PROVE SameDivisors(a, b, d)
  <2>1. SameDivisors(c, a, d)
    BY <1>3, <1>5 DEF Divided
  <2> QED
    BY <1>2, <2>1 DEF SameDivisors
<1>6. d \in Nat /\ d # 0
  BY <1>3 DEF Divided
<1> QED
  BY <1>4, <1>5, <1>6 DEF Divided

LEMMA GcdDivides ==
  ASSUME NEW x \in Nat, NEW y \in Nat, NEW error \in Nat
  PROVE  Divided(x, y, error, Gcd(x, y, error))
<1>1. PICK g : IsEuclid(g, error) /\ \A a, b : Gcd(a, b, error) = g[<<a, b>>]
  BY GcdIs
<1> DEFINE T == {n \in Nat : \A a \in 0 .. n : \A b \in Nat : Divided(a, b, error, g[<<a, b>>])}
<1>2. ASSUME NEW a \in Nat, NEW b \in Nat, a <= error PROVE Divided(a, b, error, g[<<a, b>>])
  <2>1. EuclidAt(g, g, error, a, b)
    BY <1>1, EuclidStep
  <2>2. g[<<a, b>>] = b
    BY <1>2, <2>1 DEF EuclidAt
  <2> QED
    BY <1>2, <2>2, DividedBase
<1>3. 0 \in T
  BY <1>2
<1>4. ASSUME NEW n \in Nat, n \in T PROVE n + 1 \in T
  <2> SUFFICES ASSUME NEW a \in 0 .. n + 1, NEW b \in Nat, ~ (a <= error)
               PROVE Divided(a, b, error, g[<<a, b>>])
    BY <1>2
  <2>1. a \in Nat /\ a # 0
    OBVIOUS
  <2> DEFINE c == b % a
  <2>2. c \in Nat /\ c < a
    BY <2>1, RemainderFacts
  <2>3. EuclidAt(g, g, error, a, b)
    BY <1>1, <2>1, EuclidStep
  <2>4. g[<<a, b>>] = g[<<c, a>>]
    BY <2>3 DEF EuclidAt
  <2>5. c \in 0 .. n
    <3> HIDE DEF c
    <3> QED
      BY <2>2
  <2>6. Divided(c, a, error, g[<<c, a>>])
    <3> HIDE DEF c
    <3> QED
      BY <1>4, <2>1, <2>5
  <2>7. Divided(a, b, error, g[<<c, a>>])
    <3>1. PICK d : d = g[<<c, a>>]
      OBVIOUS
    <3>2. Divided(b % a, a, error, d)
      BY <2>6, <3>1
    <3>3. Divided(a, b, error, d)
      BY <2>1, <3>2, DividedStep
    <3> HIDE DEF c
    <3> QED
      BY <3>1, <3>3
  <2> QED
    BY <2>4, <2>7
<1> HIDE DEF T
<1>5. Nat \subseteq T
  BY <1>3, <1>4, Induction
<1>6. Divided(x, y, error, g[<<x, y>>])
  BY <1>5 DEF T
<1> QED
  BY <1>1, <1>6

-----------------------------------------------------------------------------

LEMMA PairFacts == ASSUME NEW pair \in Pairs PROVE pair.h \in Times /\ pair.l \in Times
  BY DEF Pairs

LEMMA ConfigFacts ==
  ASSUME NEW c \in Timings
  PROVE  /\ c.start \in Pairs /\ c.end \in Pairs /\ c.bit[1] \in Pairs /\ c.bit[2] \in Pairs
         /\ c.frame_count \in Counts /\ c.bit[2].l # 0 /\ c.bit_fmt \in {"HL", "LH"}
<1>1. c \in TimingConfigs /\ c.bit_fmt \in {"HL", "LH"} /\ c.bit[2].l > 0
  BY RawAssumption
<1>2. /\ c.start \in Pairs /\ c.end \in Pairs /\ c.bit \in BothBits
      /\ c.frame_count \in Counts
  BY <1>1 DEF TimingConfigs
<1>3. c.bit[1] \in Pairs /\ c.bit[2] \in Pairs
  BY <1>2 DEF BothBits
<1>4. c.bit[2].l # 0
  BY <1>1
<1> QED
  BY <1>1, <1>2, <1>3, <1>4

LEMMA DurationFacts ==
  ASSUME NEW c \in Timings
  PROVE  /\ Durations(c) \subseteq Nat
         /\ Durations(c) \subseteq Times
         /\ Durations(c) \ {0} # {}
<1>1. /\ c.start \in Pairs /\ c.end \in Pairs /\ c.bit[1] \in Pairs /\ c.bit[2] \in Pairs
      /\ c.bit[2].l # 0
  BY ConfigFacts
<1>2. /\ c.start.h \in Times /\ c.start.l \in Times /\ c.end.h \in Times /\ c.end.l \in Times
      /\ c.bit[1].h \in Times /\ c.bit[1].l \in Times
      /\ c.bit[2].h \in Times /\ c.bit[2].l \in Times
  BY <1>1, PairFacts
<1>3. Durations(c) \subseteq Times
  BY <1>2 DEF Durations
<1>4. c.bit[2].l \in Durations(c)
  BY DEF Durations
<1> QED
  BY <1>1, <1>3, <1>4, Widths

LEMMA ShortestFacts ==
  ASSUME NEW c \in Timings
  PROVE  Shortest(c) \in Nat
<1> DEFINE S == Durations(c) \ {0}
<1>1. S \subseteq Nat /\ S # {}
  BY DurationFacts
<1> HIDE DEF S
<1>2. \E m \in S : \A k \in S : m <= k
  BY <1>1, LeastElement
<1>3. Min(S) \in S
  BY <1>2 DEF Min
<1> QED
  BY <1>1, <1>3 DEF Shortest, S

LEMMA AllowedErrorFacts ==
  ASSUME NEW c \in Timings, NEW acc \in Accuracies
  PROVE  AllowedError(c, acc) \in Nat
<1>1. Shortest(c) \in Nat /\ acc \in Nat
  BY ShortestFacts, RawAssumption, Widths
<1> DEFINE s == Shortest(c)
<1> HIDE DEF s
<1>2. ASSUME acc <= 100 PROVE (s * (100 - acc)) \div 100 \in Nat
  <2>1. PICK k \in Nat : k = 100 - acc
    BY <1>1, <1>2
  <2>2. s * k \in Nat
    BY <1>1, <2>1 DEF s
  <2>3. PICK m \in Nat : m = s * k
    BY <2>2
  <2>4. m \div 100 \in Nat
    OBVIOUS
  <2> QED
    BY <2>1, <2>3, <2>4
<1>3. ASSUME ~ (acc <= 100) PROVE (UINT16_MAX + 1 - (s * (acc - 100)) \div 100) % (UINT16_MAX + 1) \in Nat
  <2>1. PICK k \in Nat : k = acc - 100
    BY <1>1, <1>3
  <2>2. s * k \in Nat
    BY <1>1, <2>1 DEF s
  <2>3. PICK m \in Nat : m = s * k
    BY <2>2
  <2>4. PICK M \in Nat : M = UINT16_MAX + 1
    BY Widths
  <2>5. M # 0
    BY <2>4, Widths
  <2>6. PICK x \in Int : x = M - (m \div 100)
    OBVIOUS
  <2>7. x % M \in Nat
    BY <2>5
  <2>8. (s * (acc - 100)) \div 100 = m \div 100
    BY <2>1, <2>3
  <2>9. UINT16_MAX + 1 - ((s * (acc - 100)) \div 100) = x
    BY <2>4, <2>6, <2>8, Widths
  <2> QED
    BY <2>4, <2>7, <2>9
<1> QED
  BY <1>2, <1>3 DEF AllowedError, s

AllMultiples(c, n) == \A t \in Durations(c) : Multiple(t, n)

LEMMA BaseTimeFacts ==
  ASSUME NEW c \in Timings, NEW error \in Nat
  PROVE  /\ BaseTime(c, error) \in Times
         /\ BaseTime(c, error) # 0
         /\ error = 0 => \A n \in Nat : AllMultiples(c, n) <=> Multiple(BaseTime(c, error), n)
<1> DEFINE G(x, y) == Gcd(x, y, error)
<1>1. /\ c.start \in Pairs /\ c.end \in Pairs /\ c.bit[1] \in Pairs /\ c.bit[2] \in Pairs
      /\ c.bit[2].l # 0
  BY ConfigFacts
<1>2. PICK d1, d2, d3, d4, d5, d6, d7, d8 :
        /\ d1 = c.start.h /\ d2 = c.start.l /\ d3 = c.end.h /\ d4 = c.end.l
        /\ d5 = c.bit[1].h /\ d6 = c.bit[1].l /\ d7 = c.bit[2].h /\ d8 = c.bit[2].l
  OBVIOUS
<1>3. /\ d1 \in Times /\ d2 \in Times /\ d3 \in Times /\ d4 \in Times
      /\ d5 \in Times /\ d6 \in Times /\ d7 \in Times /\ d8 \in Times /\ d8 # 0
  BY <1>1, <1>2, PairFacts
<1>4. Durations(c) = {d1, d2, d3, d4, d5, d6, d7, d8}
  BY <1>2 DEF Durations
<1>5. BaseTime(c, error) = G(G(G(d1, d2), G(d3, d4)), G(G(d5, d6), G(d7, d8)))
  BY <1>2 DEF BaseTime
<1>6. ASSUME NEW x \in Times, NEW y \in Times PROVE Divided(x, y, error, G(x, y)) /\ G(x, y) \in Times
  <2>1. x \in Nat /\ y \in Nat
    BY Widths
  <2>2. Divided(x, y, error, G(x, y))
    BY <2>1, GcdDivides
  <2> HIDE DEF G
  <2> QED
    BY <2>2 DEF Divided
<1> HIDE DEF G
<1>7. PICK e1, e2, e3, e4 : e1 = G(d1, d2) /\ e2 = G(d3, d4) /\ e3 = G(d5, d6) /\ e4 = G(d7, d8)
  OBVIOUS
<1>8. /\ Divided(d1, d2, error, e1) /\ Divided(d3, d4, error, e2)
      /\ Divided(d5, d6, error, e3) /\ Divided(d7, d8, error, e4)
      /\ e1 \in Times /\ e2 \in Times /\ e3 \in Times /\ e4 \in Times
  BY <1>3, <1>6, <1>7
<1>9. PICK f1, f2, b : f1 = G(e1, e2) /\ f2 = G(e3, e4) /\ b = G(f1, f2)
  OBVIOUS
<1>10. /\ Divided(e1, e2, error, f1) /\ Divided(e3, e4, error, f2)
       /\ f1 \in Times /\ f2 \in Times
  BY <1>6, <1>8, <1>9
<1>11. Divided(f1, f2, error, b) /\ b \in Times
  BY <1>6, <1>9, <1>10
<1>12. BaseTime(c, error) = b
  BY <1>5, <1>7, <1>9
<1>13. b # 0
  BY <1>3, <1>8, <1>10, <1>11 DEF Divided
<1>14. ASSUME error = 0, NEW n \in Nat PROVE AllMultiples(c, n) <=> Multiple(b, n)
  <2>1. /\ SameDivisors(d1, d2, e1) /\ SameDivisors(d3, d4, e2) /\ SameDivisors(d5, d6, e3)
        /\ SameDivisors(d7, d8, e4) /\ SameDivisors(e1, e2, f1) /\ SameDivisors(e3, e4, f2)
        /\ SameDivisors(f1, f2, b)
    BY <1>8, <1>10, <1>11, <1>14 DEF Divided
  <2>2. AllMultiples(c, n) <=>
          /\ Multiple(d1, n) /\ Multiple(d2, n) /\ Multiple(d3, n) /\ Multiple(d4, n)
          /\ Multiple(d5, n) /\ Multiple(d6, n) /\ Multiple(d7, n) /\ Multiple(d8, n)
    BY <1>4 DEF AllMultiples
  <2> QED
    BY <2>1, <2>2 DEF SameDivisors
<1> QED
  BY <1>11, <1>12, <1>13, <1>14

-----------------------------------------------------------------------------
(***************************************************************************)
(* Length adds up the times of the segments.                               *)
(***************************************************************************)
SumAt(s, w, n) == s[n + 1] = s[n] + w[n + 1].time
Sums(s, w) == /\ s \in [0 .. Len(w) -> Nat] /\ s[0] = 0
              /\ \A n \in 0 .. Len(w) - 1 : SumAt(s, w, n)

LastsFor(w, n) == w \in Seq(SegmentSet) /\ \E s : Sums(s, w) /\ s[Len(w)] = n

LEMMA SegmentFacts ==
  ASSUME NEW w \in Seq(SegmentSet)
  PROVE  Len(w) \in Nat /\ \A n \in 1 .. Len(w) : w[n] \in SegmentSet /\ w[n].time \in Nat
<1>1. Len(w) \in Nat /\ \A n \in 1 .. Len(w) : w[n] \in SegmentSet
  OBVIOUS
<1> QED
  BY <1>1 DEF SegmentSet

LEMMA LastsForConcat ==
  ASSUME NEW a, NEW b, NEW m, NEW n, LastsFor(a, m), LastsFor(b, n)
  PROVE  LastsFor(a \o b, m + n)
<1>1. a \in Seq(SegmentSet) /\ b \in Seq(SegmentSet)
  BY DEF LastsFor
<1> DEFINE w == a \o b
           la == Len(a)
           lb == Len(b)
<1>2. /\ w \in Seq(SegmentSet) /\ la \in Nat /\ lb \in Nat /\ Len(w) = la + lb
      /\ \A i \in 1 .. la : w[i] = a[i]
      /\ \A i \in 1 .. lb : w[la + i] = b[i]
  BY <1>1
<1>3. PICK s : Sums(s, a) /\ s[la] = m
  BY DEF LastsFor
<1>4. PICK r : Sums(r, b) /\ r[lb] = n
  BY DEF LastsFor
<1> HIDE DEF w, la, lb
<1>5. /\ s \in [0 .. la -> Nat] /\ s[0] = 0 /\ \A k \in 0 .. la - 1 : SumAt(s, a, k)
      /\ r \in [0 .. lb -> Nat] /\ r[0] = 0 /\ \A k \in 0 .. lb - 1 : SumAt(r, b, k)
  BY <1>3, <1>4 DEF Sums, la, lb
<1> DEFINE q == [k \in 0 .. Len(w) |-> IF k <= la THEN s[k] ELSE s[la] + r[k - la]]
<1>6. q \in [0 .. Len(w) -> Nat] /\ q[0] = 0
  <2>1. ASSUME NEW k \in 0 .. la + lb PROVE (IF k <= la THEN s[k] ELSE s[la] + r[k - la]) \in Nat
    <3>1. CASE k <= la
      BY <1>2, <1>5, <3>1
    <3>2. CASE ~ (k <= la)
      <4>1. k - la \in 0 .. lb /\ la \in 0 .. la
        BY <1>2, <3>2
      <4>2. s[la] \in Nat /\ r[k - la] \in Nat
        BY <1>5, <4>1
      <4> QED
        BY <3>2, <4>2
    <3> QED
      BY <3>1, <3>2
  <2>2. q[0] = 0
    BY <1>2, <1>5
  <2> QED
    BY <1>2, <2>1, <2>2
<1>7. ASSUME NEW k \in 0 .. (la + lb) - 1 PROVE SumAt(q, w, k)
  <2>1. CASE k + 1 <= la
    <3>1. k \in 0 .. la - 1 /\ k + 1 \in 1 .. la /\ k <= la
      BY <1>2, <2>1
    <3>2. q[k] = s[k] /\ q[k + 1] = s[k + 1]
      BY <1>2, <2>1, <3>1
    <3>3. w[k + 1] = a[k + 1]
      BY <1>2, <3>1
    <3>4. SumAt(s, a, k)
      BY <1>5, <3>1
    <3> HIDE DEF q
    <3> QED
      BY <3>2, <3>3, <3>4 DEF SumAt
  <2>2. CASE ~ (k + 1 <= la)
    <3> DEFINE j == k - la
    <3>1. j \in 0 .. lb - 1 /\ j + 1 \in 1 .. lb /\ la + (j + 1) = k + 1 /\ (k + 1) - la = j + 1
          /\ k + 1 \in 0 .. Len(w) /\ k \in 0 .. Len(w)
      BY <1>2, <2>2
    <3>2. q[k + 1] = s[la] + r[j + 1]
      BY <2>2, <3>1
    <3>3. q[k] = s[la] + r[j]
      <4>1. CASE k = la
        <5>1. j = 0 /\ q[k] = s[la]
          BY <1>2, <3>1, <4>1
        <5>2. s[la] \in Nat
          BY <1>2, <1>5
        <5>3. s[la] + r[0] = s[la]
          BY <1>5, <5>2
        <5> HIDE DEF q, j
        <5> QED
          BY <5>1, <5>3
      <4>2. CASE k # la
        <5>1. ~ (k <= la)
          BY <1>2, <2>2, <4>2
        <5> QED
          BY <3>1, <5>1
      <4> QED
        BY <4>1, <4>2
    <3> HIDE DEF q, j
    <3>4. w[k + 1] = b[j + 1]
      BY <1>2, <3>1
    <3>5. r[j + 1] = r[j] + b[j + 1].time
      BY <1>5, <3>1 DEF SumAt
    <3>6. s[la] \in Nat /\ r[j] \in Nat /\ b[j + 1].time \in Nat
      <4>1. la \in 0 .. la /\ j \in 0 .. lb
        BY <1>2, <3>1
      <4>2. b[j + 1].time \in Nat
        BY <1>1, <3>1, SegmentFacts DEF lb
      <4> QED
        BY <1>5, <4>1, <4>2
    <3>7. q[k + 1] = q[k] + b[j + 1].time
      BY <3>2, <3>3, <3>5, <3>6
    <3> QED
      BY <3>4, <3>7 DEF SumAt
  <2> QED
    BY <2>1, <2>2
<1>8. q[Len(w)] = m + n
  <2>1. Len(w) \in 0 .. Len(w) /\ Len(w) - la = lb
    BY <1>2
  <2>2. CASE lb = 0
    <3>1. q[Len(w)] = s[la] /\ n = 0
      BY <1>2, <1>4, <1>5, <2>1, <2>2
    <3>2. m \in Nat
      BY <1>2, <1>3, <1>5
    <3> HIDE DEF q
    <3> QED
      BY <1>3, <3>1, <3>2
  <2>3. CASE lb # 0
    <3>1. ~ (Len(w) <= la)
      BY <1>2, <2>3
    <3>2. q[Len(w)] = s[la] + r[lb]
      BY <2>1, <3>1
    <3> HIDE DEF q
    <3> QED
      BY <1>3, <1>4, <3>2
  <2> QED
    BY <2>2, <2>3
<1> HIDE DEF q
<1>9. Sums(q, w)
  BY <1>2, <1>6, <1>7 DEF Sums
<1>10. LastsFor(w, m + n)
  BY <1>2, <1>8, <1>9 DEF LastsFor
<1> QED
  BY <1>10 DEF w

LEMMA LastsForNothing == LastsFor(<< >>, 0)
<1> DEFINE s == [k \in 0 .. 0 |-> 0]
<1>1. << >> \in Seq(SegmentSet) /\ Len(<< >>) = 0
  OBVIOUS
<1>2. Sums(s, << >>) /\ s[0] = 0
  BY <1>1 DEF Sums
<1> HIDE DEF s
<1> QED
  BY <1>1, <1>2 DEF LastsFor

LEMMA LastsForSingle ==
  ASSUME NEW x \in SegmentSet
  PROVE  LastsFor(<<x>>, x.time)
<1> DEFINE w == <<x>>
           s == [k \in 0 .. 1 |-> IF k = 0 THEN 0 ELSE x.time]
<1>1. w \in Seq(SegmentSet) /\ Len(w) = 1 /\ w[1] = x /\ x.time \in Nat
  BY DEF SegmentSet
<1>2. s \in [0 .. 1 -> Nat] /\ s[0] = 0 /\ s[1] = x.time
  BY <1>1
<1> HIDE DEF w, s
<1>3. ASSUME NEW k \in 0 .. 1 - 1 PROVE SumAt(s, w, k)
  <2>1. k = 0 /\ k + 1 = 1
    OBVIOUS
  <2> QED
    BY <1>1, <1>2, <2>1 DEF SumAt
<1>4. Sums(s, w) /\ s[Len(w)] = x.time
  BY <1>1, <1>2, <1>3 DEF Sums
<1> QED
  BY <1>1, <1>4 DEF LastsFor, w

LEMMA LastsForTwo ==
  ASSUME NEW x \in SegmentSet, NEW y \in SegmentSet
  PROVE  LastsFor(<<x, y>>, x.time + y.time)
<1>1. LastsFor(<<x>>, x.time) /\ LastsFor(<<y>>, y.time)
  BY LastsForSingle
<1>2. LastsFor(<<x>> \o <<y>>, x.time + y.time)
  BY <1>1, LastsForConcat
<1> QED
  BY <1>2, TwoConcat

Ends(w) == (DOMAIN w) \X (DOMAIN w)
Middle(p) == (p[1] + p[2]) \div 2
IsHalving(g, w) ==
    g = [p \in Ends(w) |->
            IF p[1] >= p[2] THEN w[p[1]].time
            ELSE g[<<p[1], Middle(p)>>] + g[<<Middle(p) + 1, p[2]>>]]

HalvingAt(g, w, a, b) ==
    /\ a = b => g[<<a, b>>] = w[a].time
    /\ a < b => \E m \in a .. b - 1 : g[<<a, b>>] = g[<<a, m>>] + g[<<m + 1, b>>]

LEMMA EndsOf ==
  ASSUME NEW w \in Seq(SegmentSet)
  PROVE  Ends(w) = (1 .. Len(w)) \X (1 .. Len(w))
<1>1. DOMAIN w = 1 .. Len(w)
  OBVIOUS
<1> QED
  BY <1>1 DEF Ends

LEMMA MiddleFacts ==
  ASSUME NEW a \in Nat, NEW b \in Nat, a < b
  PROVE  (a + b) \div 2 \in a .. b - 1
  OBVIOUS

LEMMA HalvingStep ==
  ASSUME NEW w \in Seq(SegmentSet), NEW g, IsHalving(g, w),
         NEW a \in 1 .. Len(w), NEW b \in 1 .. Len(w)
  PROVE  HalvingAt(g, w, a, b)
<1> DEFINE p == <<a, b>>
<1>1. p \in Ends(w) /\ p[1] = a /\ p[2] = b
  BY EndsOf
<1>2. g[p] = IF p[1] >= p[2] THEN w[p[1]].time
             ELSE g[<<p[1], Middle(p)>>] + g[<<Middle(p) + 1, p[2]>>]
  <2> HIDE DEF p
  <2> QED
    BY <1>1 DEF IsHalving
<1>3. a \in Nat /\ b \in Nat
  BY SegmentFacts
<1>4. a = b => g[p] = w[a].time
  BY <1>1, <1>2, <1>3
<1>5. ASSUME a < b PROVE \E m \in a .. b - 1 : g[p] = g[<<a, m>>] + g[<<m + 1, b>>]
  <2> DEFINE m == Middle(p)
  <2>1. m \in a .. b - 1
    BY <1>1, <1>3, <1>5, MiddleFacts DEF Middle
  <2>2. ~ (a >= b)
    BY <1>3, <1>5
  <2> HIDE DEF m, p
  <2>3. g[p] = g[<<a, m>>] + g[<<m + 1, b>>]
    BY <1>1, <1>2, <2>2 DEF m
  <2> QED
    BY <2>1, <2>3
<1> QED
  BY <1>4, <1>5 DEF HalvingAt

LEMMA HalvingExists ==
  ASSUME NEW w \in Seq(SegmentSet), NEW s, Sums(s, w)
  PROVE  \E g : IsHalving(g, w)
<1> DEFINE g == [p \in Ends(w) |-> IF p[1] >= p[2] THEN w[p[1]].time ELSE s[p[2]] - s[p[1] - 1]]
<1>1. /\ Len(w) \in Nat /\ \A n \in 1 .. Len(w) : w[n].time \in Nat
      /\ s \in [0 .. Len(w) -> Nat]
      /\ \A n \in 0 .. Len(w) - 1 : s[n + 1] = s[n] + w[n + 1].time
  BY SegmentFacts DEF Sums, SumAt
<1>2. ASSUME NEW a \in 1 .. Len(w), NEW b \in 1 .. Len(w), a <= b
      PROVE  g[<<a, b>>] = s[b] - s[a - 1]
  <2>1. <<a, b>> \in Ends(w)
    BY EndsOf
  <2>2. CASE a = b
    <3>1. a - 1 \in 0 .. Len(w) - 1 /\ (a - 1) + 1 = a /\ a - 1 \in 0 .. Len(w) /\ a \in 0 .. Len(w)
      BY <1>1
    <3>2. s[a] = s[a - 1] + w[a].time /\ s[a - 1] \in Nat /\ w[a].time \in Nat
      BY <1>1, <3>1
    <3>3. g[<<a, b>>] = w[a].time
      BY <2>1, <2>2
    <3> HIDE DEF g
    <3> QED
      BY <2>2, <3>2, <3>3
  <2>3. CASE a # b
    <3>1. ~ (a >= b)
      BY <1>1, <1>2, <2>3
    <3> QED
      BY <2>1, <3>1
  <2> QED
    BY <2>2, <2>3
<1>3. ASSUME NEW p \in Ends(w)
      PROVE  g[p] = IF p[1] >= p[2] THEN w[p[1]].time
                    ELSE g[<<p[1], Middle(p)>>] + g[<<Middle(p) + 1, p[2]>>]
  <2>1. PICK a \in 1 .. Len(w), b \in 1 .. Len(w) : p = <<a, b>> /\ p[1] = a /\ p[2] = b
    BY EndsOf
  <2>2. CASE a >= b
    BY <2>1, <2>2
  <2>3. CASE ~ (a >= b)
    <3> DEFINE m == (a + b) \div 2
    <3>1. a \in Nat /\ b \in Nat /\ a < b
      BY <1>1, <2>3
    <3>2. m \in a .. b - 1
      BY <3>1, MiddleFacts
    <3>3. m = Middle(p)
      BY <2>1 DEF Middle
    <3> HIDE DEF m
    <3>4. m \in 1 .. Len(w) /\ m + 1 \in 1 .. Len(w) /\ a <= m /\ m + 1 <= b /\ (m + 1) - 1 = m
          /\ m \in 0 .. Len(w) /\ b \in 0 .. Len(w) /\ a - 1 \in 0 .. Len(w)
      BY <1>1, <3>1, <3>2
    <3>5. g[<<a, m>>] = s[m] - s[a - 1] /\ g[<<m + 1, b>>] = s[b] - s[m]
          /\ g[<<a, b>>] = s[b] - s[a - 1]
      <4> HIDE DEF g
      <4>1. g[<<m + 1, b>>] = s[b] - s[(m + 1) - 1]
        BY <1>2, <3>4
      <4> QED
        BY <1>2, <3>1, <3>4, <4>1
    <3>6. s[m] \in Nat /\ s[b] \in Nat /\ s[a - 1] \in Nat
      BY <1>1, <3>4
    <3> HIDE DEF g
    <3>7. g[<<a, b>>] = g[<<a, m>>] + g[<<m + 1, b>>]
      BY <3>5, <3>6
    <3> QED
      BY <2>1, <2>3, <3>3, <3>7
  <2> QED
    BY <2>2, <2>3
<1>4. g = [p \in Ends(w) |-> g[p]]
  OBVIOUS
<1> HIDE DEF g
<1>5. IsHalving(g, w)
  BY <1>3, <1>4 DEF IsHalving
<1> QED
  BY <1>5

Between(g, s, a, b) == g[<<a, b>>] = s[b] - s[a - 1]

LEMMA HalvingSums ==
  ASSUME NEW w \in Seq(SegmentSet), NEW s, Sums(s, w), NEW g, IsHalving(g, w),
         NEW from \in 1 .. Len(w), NEW to \in 1 .. Len(w), from <= to
  PROVE  Between(g, s, from, to)
<1>1. /\ Len(w) \in Nat /\ \A n \in 1 .. Len(w) : w[n].time \in Nat
      /\ s \in [0 .. Len(w) -> Nat]
      /\ \A n \in 0 .. Len(w) - 1 : s[n + 1] = s[n] + w[n + 1].time
  BY SegmentFacts DEF Sums, SumAt
<1> DEFINE T == {n \in Nat : \A a, b \in 1 .. Len(w) : a <= b /\ b - a <= n => Between(g, s, a, b)}
<1>2. ASSUME NEW a \in 1 .. Len(w) PROVE Between(g, s, a, a)
  <2>1. a - 1 \in 0 .. Len(w) - 1 /\ (a - 1) + 1 = a /\ a - 1 \in 0 .. Len(w) /\ a \in 0 .. Len(w)
    BY <1>1
  <2>2. s[a] = s[a - 1] + w[a].time /\ s[a - 1] \in Nat /\ w[a].time \in Nat
    BY <1>1, <2>1
  <2>3. HalvingAt(g, w, a, a)
    BY HalvingStep
  <2>4. g[<<a, a>>] = w[a].time
    BY <2>3 DEF HalvingAt
  <2> QED
    BY <2>2, <2>4 DEF Between
<1>3. 0 \in T
  <2>1. ASSUME NEW a \in 1 .. Len(w), NEW b \in 1 .. Len(w), a <= b, b - a <= 0 PROVE a = b
    BY <1>1, <2>1
  <2> QED
    BY <1>2, <2>1
<1>4. ASSUME NEW n \in Nat, n \in T PROVE n + 1 \in T
  <2> SUFFICES ASSUME NEW a \in 1 .. Len(w), NEW b \in 1 .. Len(w), a <= b, b - a <= n + 1
               PROVE  Between(g, s, a, b)
    OBVIOUS
  <2>1. CASE a = b
    BY <1>2, <2>1
  <2>2. CASE a # b
    <3>1. a < b
      BY <1>1, <2>2
    <3>2. HalvingAt(g, w, a, b)
      BY HalvingStep
    <3>3. PICK m \in a .. b - 1 : g[<<a, b>>] = g[<<a, m>>] + g[<<m + 1, b>>]
      BY <3>1, <3>2 DEF HalvingAt
    <3>4. m \in 1 .. Len(w) /\ m + 1 \in 1 .. Len(w) /\ a <= m /\ m + 1 <= b /\ (m + 1) - 1 = m
          /\ m \in 0 .. Len(w) /\ b \in 0 .. Len(w) /\ a - 1 \in 0 .. Len(w)
          /\ m - a <= n /\ b - (m + 1) <= n
      BY <1>1, <3>1
    <3>5. Between(g, s, a, m)
      BY <1>4, <3>4
    <3>6. Between(g, s, m + 1, b)
      <4>1. PICK k \in 1 .. Len(w) : k = m + 1 /\ k <= b /\ b - k <= n
        BY <3>4
      <4>2. Between(g, s, k, b)
        BY <1>4, <4>1
      <4> QED
        BY <4>1, <4>2
    <3>7. s[m] \in Nat /\ s[b] \in Nat /\ s[a - 1] \in Nat
      BY <1>1, <3>4
    <3>8. g[<<a, m>>] = s[m] - s[a - 1] /\ g[<<m + 1, b>>] = s[b] - s[m]
      BY <3>4, <3>5, <3>6 DEF Between
    <3>9. g[<<a, b>>] = s[b] - s[a - 1]
      BY <3>3, <3>7, <3>8
    <3> QED
      BY <3>9 DEF Between
  <2> QED
    BY <2>1, <2>2
<1> HIDE DEF T
<1>5. Nat \subseteq T
  BY <1>3, <1>4, Induction
<1>6. to - from \in T
  BY <1>1, <1>5
<1> QED
  BY <1>6 DEF T

LEMMA LengthDef ==
  ASSUME NEW w
  PROVE  Length(w) = (CHOOSE g : IsHalving(g, w))[<<1, Len(w)>>]
  BY DEF Length, IsHalving, Ends, Middle

LEMMA LengthIs ==
  ASSUME NEW w, NEW n, LastsFor(w, n), w # << >>
  PROVE  Length(w) = n /\ n \in Nat
<1>1. w \in Seq(SegmentSet) /\ Len(w) \in Nat /\ Len(w) # 0
  BY SegmentFacts DEF LastsFor
<1>2. PICK s : Sums(s, w) /\ s[Len(w)] = n
  BY DEF LastsFor
<1>3. PICK g : g = CHOOSE h : IsHalving(h, w)
  OBVIOUS
<1>4. IsHalving(g, w)
  <2>1. \E h : IsHalving(h, w)
    BY <1>1, <1>2, HalvingExists
  <2> QED
    BY <1>3, <2>1
<1>5. 1 \in 1 .. Len(w) /\ Len(w) \in 1 .. Len(w) /\ 1 <= Len(w)
  BY <1>1
<1>6. Between(g, s, 1, Len(w))
  BY <1>1, <1>2, <1>4, <1>5, HalvingSums
<1>7. s[0] = 0 /\ s[Len(w)] \in Nat
  BY <1>1, <1>2 DEF Sums
<1>8. g[<<1, Len(w)>>] = s[Len(w)] - s[0]
  BY <1>6 DEF Between
<1>9. g[<<1, Len(w)>>] = s[Len(w)]
  BY <1>7, <1>8
<1> QED
  BY <1>2, <1>3, <1>7, <1>9, LengthDef

-----------------------------------------------------------------------------
(***************************************************************************)
(* The ones among the first n bits.                                        *)
(***************************************************************************)
OneAt(b, n) == {k \in 1 .. n : b[k] = 1}
OnesTo(b, n) == Cardinality(OneAt(b, n))

Counted(b, n, o) == IsFiniteSet(OneAt(b, n)) /\ OnesTo(b, n) = o /\ o \in 0 .. n

LEMMA CountedNone == ASSUME NEW b PROVE Counted(b, 0, 0)
<1>1. OneAt(b, 0) = {}
  BY DEF OneAt
<1>2. IsFiniteSet({}) /\ Cardinality({}) = 0
  BY FS_EmptySet
<1> QED
  BY <1>1, <1>2 DEF Counted, OnesTo

LEMMA CountedNext ==
  ASSUME NEW b, NEW n \in Nat, NEW o, Counted(b, n, o)
  PROVE  /\ b[n + 1] = 1 => Counted(b, n + 1, o + 1)
         /\ b[n + 1] # 1 => Counted(b, n + 1, o)
<1> DEFINE S == OneAt(b, n)
           R == OneAt(b, n + 1)
<1>1. IsFiniteSet(S) /\ Cardinality(S) = o /\ o \in 0 .. n
  BY DEF Counted, OnesTo
<1>2. n + 1 \notin S
  BY DEF OneAt
<1>3. ASSUME b[n + 1] = 1 PROVE R = S \cup {n + 1}
  BY <1>3 DEF OneAt
<1>4. ASSUME b[n + 1] # 1 PROVE R = S
  BY <1>4 DEF OneAt
<1> HIDE DEF S, R
<1>5. IsFiniteSet(S \cup {n + 1}) /\ Cardinality(S \cup {n + 1}) = o + 1
  <2>1. PICK x : x = n + 1
    OBVIOUS
  <2>2. IsFiniteSet(S \cup {x}) /\ Cardinality(S \cup {x}) = Cardinality(S) + 1
    BY <1>1, <1>2, <2>1, FS_AddElement
  <2> QED
    BY <1>1, <2>1, <2>2
<1>6. ASSUME b[n + 1] = 1 PROVE Counted(b, n + 1, o + 1)
  <2>1. IsFiniteSet(R) /\ Cardinality(R) = o + 1
    BY <1>3, <1>5, <1>6
  <2>2. o + 1 \in 0 .. n + 1
    BY <1>1
  <2> QED
    BY <2>1, <2>2 DEF Counted, OnesTo, R
<1>7. ASSUME b[n + 1] # 1 PROVE Counted(b, n + 1, o)
  <2>1. IsFiniteSet(R) /\ Cardinality(R) = o
    BY <1>1, <1>4, <1>7
  <2>2. o \in 0 .. n + 1
    BY <1>1
  <2> QED
    BY <2>1, <2>2 DEF Counted, OnesTo, R
<1> QED
  BY <1>6, <1>7

(***************************************************************************)
(* The bits written: as long as the zeros and the ones together.           *)
(***************************************************************************)
BitTotal(zero, one, n, o) == zero * (n - o) + one * o

LEMMA BitTotalNext ==
  ASSUME NEW zero \in Nat, NEW one \in Nat, NEW n \in Nat, NEW o \in 0 .. n
  PROVE  /\ BitTotal(zero, one, n + 1, o) = BitTotal(zero, one, n, o) + zero
         /\ BitTotal(zero, one, n + 1, o + 1) = BitTotal(zero, one, n, o) + one
<1>1. PICK z \in Nat : z = n - o /\ (n + 1) - o = z + 1 /\ (n + 1) - (o + 1) = z
  OBVIOUS
<1>2. PICK a \in Nat, b \in Nat : a = zero * z /\ b = one * o
  OBVIOUS
<1>3. zero * (z + 1) = a + zero /\ one * (o + 1) = b + one
  BY <1>2
<1>4. (a + zero) + b = (a + b) + zero /\ a + (b + one) = (a + b) + one
  OBVIOUS
<1>5. BitTotal(zero, one, n, o) = a + b
  BY <1>1, <1>2 DEF BitTotal
<1>6. BitTotal(zero, one, n + 1, o) = (a + zero) + b
  BY <1>1, <1>2, <1>3 DEF BitTotal
<1>7. BitTotal(zero, one, n + 1, o + 1) = a + (b + one)
  BY <1>1, <1>2, <1>3 DEF BitTotal
<1> QED
  BY <1>4, <1>5, <1>6, <1>7

BitLasts(edges, b, zero, one, n) ==
    /\ b[n] = 1 => LastsFor(edges[n], one)
    /\ b[n] # 1 => LastsFor(edges[n], zero)

LEMMA BitsLast ==
  ASSUME NEW b \in Seq({0, 1}), NEW edges \in Seq(Seq(SegmentSet)), Len(edges) = Len(b),
         NEW zero \in Nat, NEW one \in Nat,
         \A n \in 1 .. Len(b) : BitLasts(edges, b, zero, one, n)
  PROVE  LastsFor(FlattenSeq(edges), BitTotal(zero, one, Len(b), OnesTo(b, Len(b))))
<1> DEFINE N == Len(b)
           X == Seq(SegmentSet)
<1>1. N \in Nat /\ Monoid(X) /\ edges \in Seq(X) /\ Len(edges) = N
  BY SeqMonoid
<1>2. \A n \in 1 .. N : BitLasts(edges, b, zero, one, n)
  OBVIOUS
<1> HIDE DEF N, X
<1>3. PICK f \in [0 .. Len(edges) -> X] : Flattens(f, edges, Len(edges))
  BY <1>1, FlattenSteps
<1>4. Concatenates(f, edges, N) /\ FlattenSeq(edges) = f[N]
  BY <1>1, <1>3 DEF Flattens
<1> DEFINE Fine(n) == \E o : Counted(b, n, o) /\ LastsFor(f[n], BitTotal(zero, one, n, o))
           T == {n \in 0 .. N : Fine(n)}
<1>5. 0 \in T
  <2>1. Counted(b, 0, 0)
    BY CountedNone
  <2>2. BitTotal(zero, one, 0, 0) = 0
    BY DEF BitTotal
  <2>3. LastsFor(f[0], BitTotal(zero, one, 0, 0))
    BY <1>4, <2>2, LastsForNothing DEF Concatenates
  <2>4. Fine(0)
    BY <2>1, <2>3
  <2> QED
    BY <1>1, <2>4
<1>6. ASSUME NEW n \in 0 .. N - 1, n \in T PROVE n + 1 \in T
  <2>1. n \in Nat /\ n + 1 \in 1 .. N /\ n + 1 \in 0 .. N
    BY <1>1
  <2>2. PICK o : Counted(b, n, o) /\ LastsFor(f[n], BitTotal(zero, one, n, o))
    BY <1>6
  <2>3. o \in 0 .. n
    BY <2>2 DEF Counted
  <2>4. ConcatAt(f, edges, n)
    BY <1>1, <1>4, ConcatStep
  <2>5. BitLasts(edges, b, zero, one, n + 1)
    BY <1>2, <2>1
  <2>6. PICK m : m = BitTotal(zero, one, n, o)
    OBVIOUS
  <2>7. LastsFor(f[n], m)
    BY <2>2, <2>6
  <2>8. CASE b[n + 1] = 1
    <3>1. Counted(b, n + 1, o + 1)
      BY <2>1, <2>2, <2>8, CountedNext
    <3>2. LastsFor(edges[n + 1], one)
      BY <2>5, <2>8 DEF BitLasts
    <3>3. LastsFor(f[n] \o edges[n + 1], m + one)
      BY <2>7, <3>2, LastsForConcat
    <3>4. f[n + 1] = f[n] \o edges[n + 1]
      BY <2>4 DEF ConcatAt
    <3>5. BitTotal(zero, one, n + 1, o + 1) = m + one
      BY <2>1, <2>3, <2>6, BitTotalNext
    <3>6. LastsFor(f[n + 1], BitTotal(zero, one, n + 1, o + 1))
      BY <3>3, <3>4, <3>5
    <3>7. Fine(n + 1)
      BY <3>1, <3>6
    <3> QED
      BY <2>1, <3>7
  <2>9. CASE b[n + 1] # 1
    <3>1. Counted(b, n + 1, o)
      BY <2>1, <2>2, <2>9, CountedNext
    <3>2. LastsFor(edges[n + 1], zero)
      BY <2>5, <2>9 DEF BitLasts
    <3>3. LastsFor(f[n] \o edges[n + 1], m + zero)
      BY <2>7, <3>2, LastsForConcat
    <3>4. f[n + 1] = f[n] \o edges[n + 1]
      BY <2>4 DEF ConcatAt
    <3>5. BitTotal(zero, one, n + 1, o) = m + zero
      BY <2>1, <2>3, <2>6, BitTotalNext
    <3>6. LastsFor(f[n + 1], BitTotal(zero, one, n + 1, o))
      BY <3>3, <3>4, <3>5
    <3>7. Fine(n + 1)
      BY <3>1, <3>6
    <3> QED
      BY <2>1, <3>7
  <2> QED
    BY <2>8, <2>9
<1> HIDE DEF T
<1>7. 0 .. N \subseteq T
  BY <1>1, <1>5, <1>6, InductionTo
<1>8. N \in T
  BY <1>1, <1>7
<1>9. PICK o : Counted(b, N, o) /\ LastsFor(f[N], BitTotal(zero, one, N, o))
  BY <1>8 DEF T
<1>10. OnesTo(b, N) = o
  BY <1>9 DEF Counted
<1> QED
  BY <1>4, <1>9, <1>10 DEF N

LEMMA OnesFacts ==
  ASSUME NEW b, NEW n \in Nat
  PROVE  IsFiniteSet(OneAt(b, n)) /\ OnesTo(b, n) \in 0 .. n
<1>1. OneAt(b, n) \in SUBSET (1 .. n)
  BY DEF OneAt
<1>2. IsFiniteSet(1 .. n) /\ Cardinality(1 .. n) = n
  <2>1. 1 \in Int /\ n \in Int /\ (1 > n <=> n = 0) /\ (n - 1) + 1 = n
    OBVIOUS
  <2>2. IsFiniteSet(1 .. n) /\ Cardinality(1 .. n) = IF 1 > n THEN 0 ELSE n - 1 + 1
    BY <2>1, FS_Interval
  <2> QED
    BY <2>1, <2>2
<1>3. IsFiniteSet(OneAt(b, n)) /\ Cardinality(OneAt(b, n)) <= n
  BY <1>1, <1>2, FS_Subset
<1>4. Cardinality(OneAt(b, n)) \in Nat
  BY <1>3, FS_CardinalityType
<1> QED
  BY <1>3, <1>4 DEF OnesTo

(***************************************************************************)
(* Counting the bits of whole bytes from the other end of each byte counts *)
(* the same bits.                                                          *)
(***************************************************************************)
Mirror(n) == 8 * ((n - 1) \div 8) + 8 - ((n - 1) % 8)

LEMMA MirrorFacts ==
  ASSUME NEW bc \in Nat, bc % 8 = 0, NEW n \in 1 .. bc
  PROVE  Mirror(n) \in 1 .. bc /\ Mirror(Mirror(n)) = n
<1>1. PICK q \in Nat, r \in 0 .. 7 : n - 1 = 8 * q + r /\ (n - 1) \div 8 = q /\ (n - 1) % 8 = r
  OBVIOUS
<1>2. PICK m \in Nat : bc = 8 * m
  OBVIOUS
<1>3. q < m
  BY <1>1, <1>2
<1>4. PICK k \in Int : k = (8 * q + 8) - r
  OBVIOUS
<1>5. Mirror(n) = k
  BY <1>1, <1>4 DEF Mirror
<1>6. k \in 1 .. bc
  BY <1>1, <1>2, <1>3, <1>4
<1>7. k - 1 = 8 * q + (7 - r) /\ 7 - r \in 0 .. 7
  BY <1>4
<1>8. (k - 1) \div 8 = q /\ (k - 1) % 8 = 7 - r
  BY <1>7
<1>9. Mirror(k) = n
  BY <1>1, <1>8 DEF Mirror
<1> QED
  BY <1>5, <1>6, <1>9

LEMMA MirroredOnes ==
  ASSUME NEW b, NEW bc \in Nat, bc % 8 = 0
  PROVE  Cardinality({n \in 1 .. bc : b[Mirror(n)] = 1}) = OnesTo(b, bc)
<1> DEFINE S == OneAt(b, bc)
           R == {n \in 1 .. bc : b[Mirror(n)] = 1}
           h == [n \in S |-> Mirror(n)]
<1>1. IsFiniteSet(S)
  BY OnesFacts
<1>2. ASSUME NEW n \in S PROVE Mirror(n) \in R
  <2>1. n \in 1 .. bc /\ b[n] = 1
    BY DEF OneAt
  <2>2. Mirror(n) \in 1 .. bc /\ Mirror(Mirror(n)) = n
    BY <2>1, MirrorFacts
  <2> QED
    BY <2>1, <2>2
<1>3. ASSUME NEW n \in R PROVE Mirror(n) \in S /\ Mirror(Mirror(n)) = n
  <2>1. n \in 1 .. bc /\ b[Mirror(n)] = 1
    OBVIOUS
  <2>2. Mirror(n) \in 1 .. bc /\ Mirror(Mirror(n)) = n
    BY <2>1, MirrorFacts
  <2> QED
    BY <2>1, <2>2 DEF OneAt
<1>4. \A n \in S : Mirror(Mirror(n)) = n
  BY MirrorFacts DEF OneAt
<1> HIDE DEF S, R
<1>5. h \in [S -> R]
  BY <1>2
<1>6. \A x, y \in S : h[x] = h[y] => x = y
  <2> SUFFICES ASSUME NEW x \in S, NEW y \in S, Mirror(x) = Mirror(y) PROVE x = y
    OBVIOUS
  <2>1. Mirror(Mirror(x)) = x /\ Mirror(Mirror(y)) = y
    BY <1>4
  <2>2. Mirror(Mirror(x)) = Mirror(Mirror(y))
    OBVIOUS
  <2> QED
    BY <2>1, <2>2
<1>7. \A y \in R : \E x \in S : h[x] = y
  <2> SUFFICES ASSUME NEW y \in R PROVE \E x \in S : Mirror(x) = y
    OBVIOUS
  <2> QED
    BY <1>3
<1> HIDE DEF h
<1>8. h \in Bijection(S, R)
  BY <1>5, <1>6, <1>7 DEF Bijection, Injection, Surjection, IsInjective
<1>9. ExistsBijection(S, R)
  BY <1>8 DEF ExistsBijection
<1>10. Cardinality(R) = Cardinality(S)
  BY <1>1, <1>9, FS_Bijection
<1> QED
  BY <1>10 DEF R, S, OnesTo

-----------------------------------------------------------------------------
(***************************************************************************)
(* The invariant.  What has been computed is what the arguments say, up to *)
(* where the conversion stands; after that a driver only reads it.         *)
(***************************************************************************)
PeriodPairs == [h : Counts, l : Counts]
Lens == [start : PeriodPairs, end : PeriodPairs, bit : [1 .. 2 -> PeriodPairs]]

Arguing ==
    /\ config \in Timings /\ source \in SourceFrames[config] /\ accuracy \in Accuracies
    /\ len \in Lens

WrittenFrame == WriteEdge(len.start) \o WriteBits \o WriteEdge(len.end)

RawInv ==
    /\ Arguing
    /\ stage \in {"base", "lengths", "estimate", "write", "done", "handed"}
    /\ base_time \in Times /\ estimate \in Nat /\ count \in Times
    /\ stage # "base" => base_time = BaseTime(config, AllowedError(config, accuracy))
    /\ stage \in {"write", "done", "handed"} => estimate = FrameLength(Ones)
    /\ stage = "write" => ~ TooLong(estimate)
    /\ stage \in {"done", "handed"} =>
          count = IF TooLong(estimate) THEN UINT16_MAX
                  ELSE Length(WrittenFrame) % (UINT16_MAX + 1)

LEMMA SourceFacts ==
  ASSUME Arguing
  PROVE  /\ bits \in Seq({0, 1}) /\ Len(bits) = source.bit_count /\ source.bit_count \in Nat
         /\ \A n \in 1 .. source.bit_count : bits[n] = source.bits[n]
<1>1. SourceFrame(source)
  BY RawAssumption DEF Arguing
<1>2. PICK b, n : b = source.bits /\ n = source.bit_count
  OBVIOUS
<1>3. b \in Seq({0, 1}) /\ n \in 0 .. Len(b) /\ Len(b) \in Nat /\ n \in Nat
  BY <1>1, <1>2 DEF SourceFrame
<1>4. bits = SubSeq(b, 1, n)
  BY <1>2 DEF bits
<1>5. /\ SubSeq(b, 1, n) \in Seq({0, 1}) /\ Len(SubSeq(b, 1, n)) = n
      /\ \A k \in 1 .. n : SubSeq(b, 1, n)[k] = b[k]
  BY <1>3
<1> QED
  BY <1>2, <1>3, <1>4, <1>5

LEMMA LenFacts ==
  ASSUME Arguing
  PROVE  /\ len.start \in PeriodPairs /\ len.end \in PeriodPairs
         /\ len.bit[1] \in PeriodPairs /\ len.bit[2] \in PeriodPairs
<1>1. len.start \in PeriodPairs /\ len.end \in PeriodPairs /\ len.bit \in [1 .. 2 -> PeriodPairs]
  BY DEF Arguing, Lens
<1> QED
  BY <1>1

LEMMA TotalFacts ==
  ASSUME NEW pair \in PeriodPairs
  PROVE  pair.h \in Nat /\ pair.l \in Nat /\ Total(pair) \in Nat
<1>1. pair.h \in Counts /\ pair.l \in Counts
  BY DEF PeriodPairs
<1>2. pair.h \in Nat /\ pair.l \in Nat
  BY <1>1, Widths
<1> QED
  BY <1>2 DEF Total

LEMMA EdgeLasts ==
  ASSUME NEW pair \in PeriodPairs
  PROVE  LastsFor(WriteEdge(pair), Total(pair)) /\ WriteEdge(pair) # << >>
<1> DEFINE x == Segment(1, pair.h)
           y == Segment(0, pair.l)
<1>1. x \in SegmentSet /\ y \in SegmentSet /\ x.time = pair.h /\ y.time = pair.l
  BY TotalFacts DEF Segment, SegmentSet
<1>2. x.time + y.time = Total(pair) /\ y.time + x.time = Total(pair)
  BY <1>1, TotalFacts DEF Total
<1>3. WriteEdge(pair) = <<x, y>> \/ WriteEdge(pair) = <<y, x>>
  BY DEF WriteEdge
<1> HIDE DEF x, y
<1>4. LastsFor(<<x, y>>, Total(pair)) /\ LastsFor(<<y, x>>, Total(pair))
  BY <1>1, <1>2, LastsForTwo
<1>5. <<x, y>> # << >> /\ <<y, x>> # << >>
  OBVIOUS
<1> QED
  BY <1>3, <1>4, <1>5

\* The length written: as estimated, if the bits were counted as they are.
LEMMA FrameLasts ==
  ASSUME Arguing
  PROVE  /\ LastsFor(WrittenFrame, FrameLength(OnesTo(bits, Len(bits))))
         /\ WrittenFrame # << >>
<1> DEFINE zero == Total(len.bit[1])
           one == Total(len.bit[2])
           edges == [n \in 1 .. Len(bits) |-> WriteEdge(len.bit[bits[n] + 1])]
           o == OnesTo(bits, Len(bits))
           s == Total(len.start)
           e == Total(len.end)
           W(p) == WriteEdge(p)
<1>1. /\ len.start \in PeriodPairs /\ len.end \in PeriodPairs
      /\ len.bit[1] \in PeriodPairs /\ len.bit[2] \in PeriodPairs
      /\ bits \in Seq({0, 1}) /\ Len(bits) \in Nat
  BY LenFacts, SourceFacts
<1>2. zero \in Nat /\ one \in Nat /\ s \in Nat /\ e \in Nat
  BY <1>1, TotalFacts
<1>3. /\ LastsFor(W(len.start), s) /\ LastsFor(W(len.end), e)
      /\ LastsFor(W(len.bit[1]), zero) /\ LastsFor(W(len.bit[2]), one)
      /\ W(len.start) # << >>
  BY <1>1, EdgeLasts
<1>4. ASSUME NEW n \in 1 .. Len(bits)
      PROVE  /\ bits[n] = 1 => edges[n] = W(len.bit[2])
             /\ bits[n] # 1 => edges[n] = W(len.bit[1])
  <2>1. bits[n] \in {0, 1}
    BY <1>1
  <2>2. edges[n] = WriteEdge(len.bit[bits[n] + 1])
    OBVIOUS
  <2> HIDE DEF edges
  <2>3. CASE bits[n] = 1
    <3>1. bits[n] + 1 = 2
      BY <2>3
    <3> QED
      BY <2>2, <2>3, <3>1
  <2>4. CASE bits[n] # 1
    <3>1. bits[n] + 1 = 1
      BY <2>1, <2>4
    <3> QED
      BY <2>2, <2>4, <3>1
  <2> QED
    BY <2>3, <2>4
<1>5. \A n \in 1 .. Len(bits) : W(len.bit[1]) \in Seq(SegmentSet) /\ W(len.bit[2]) \in Seq(SegmentSet)
  BY <1>3 DEF LastsFor
<1>6. edges \in Seq(Seq(SegmentSet)) /\ Len(edges) = Len(bits)
  <2>1. \A n \in 1 .. Len(bits) : edges[n] \in Seq(SegmentSet)
    <3> HIDE DEF edges, W
    <3> QED
      BY <1>4, <1>5
  <2>2. edges = [n \in 1 .. Len(bits) |-> edges[n]]
    OBVIOUS
  <2> HIDE DEF edges
  <2> QED
    BY <1>1, <2>1, <2>2
<1>7. WriteBits = FlattenSeq(edges)
  BY DEF WriteBits
<1>8. WrittenFrame = (W(len.start) \o WriteBits) \o W(len.end)
  BY DEF WrittenFrame
<1> HIDE DEF edges, W, zero, one, s, e
<1>9. \A n \in 1 .. Len(bits) : BitLasts(edges, bits, zero, one, n)
  BY <1>3, <1>4 DEF BitLasts
<1>10. LastsFor(WriteBits, BitTotal(zero, one, Len(bits), o))
  <2>1. PICK b : b = bits
    OBVIOUS
  <2>2. LastsFor(FlattenSeq(edges), BitTotal(zero, one, Len(b), OnesTo(b, Len(b))))
    BY <1>1, <1>2, <1>6, <1>9, <2>1, BitsLast
  <2> QED
    BY <1>7, <2>1, <2>2
<1>11. PICK m : m = BitTotal(zero, one, Len(bits), o)
  OBVIOUS
<1>12. LastsFor(W(len.start) \o WriteBits, s + m)
  BY <1>3, <1>10, <1>11, LastsForConcat
<1>13. LastsFor(WrittenFrame, (s + m) + e)
  BY <1>3, <1>8, <1>12, LastsForConcat
<1>14. m \in Nat
  <2>1. o \in 0 .. Len(bits)
    BY <1>1, OnesFacts
  <2>2. PICK z \in Nat, k \in Nat : z = Len(bits) - o /\ k = o
    BY <1>1, <2>1
  <2>3. zero * z \in Nat /\ one * k \in Nat
    BY <1>2
  <2> HIDE DEF o
  <2> QED
    BY <1>11, <2>2, <2>3 DEF BitTotal
<1>15. FrameLength(o) = (s + m) + e
  <2>1. PICK x, y : x = zero * (Len(bits) - o) /\ y = one * o
    OBVIOUS
  <2>2. m = x + y
    BY <1>11, <2>1 DEF BitTotal
  <2>3. FrameLength(o) = s + e + x + y
    BY <2>1 DEF FrameLength, s, e, zero, one
  <2>4. x \in Int /\ y \in Int
    <3>1. o \in Int /\ Len(bits) - o \in Int
      <4>1. o \in 0 .. Len(bits)
        BY <1>1, OnesFacts
      <4> HIDE DEF o
      <4> QED
        BY <1>1, <4>1
    <3> HIDE DEF o
    <3>2. PICK z \in Int : z = Len(bits) - o
      BY <3>1
    <3>3. zero * z \in Int /\ one * o \in Int
      BY <1>2, <3>1
    <3> QED
      BY <2>1, <3>2, <3>3
  <2> HIDE DEF o
  <2> QED
    BY <1>2, <2>2, <2>3, <2>4
<1>16. WrittenFrame # << >>
  <2>1. W(len.start) \in Seq(SegmentSet) /\ W(len.end) \in Seq(SegmentSet) /\ WriteBits \in Seq(SegmentSet)
    BY <1>3, <1>10 DEF LastsFor
  <2>2. PICK a, b, c : a = W(len.start) /\ b = WriteBits /\ c = W(len.end)
    OBVIOUS
  <2>3. (a \o b) \o c # << >>
    <3>1. a \in Seq(SegmentSet) /\ b \in Seq(SegmentSet) /\ c \in Seq(SegmentSet) /\ a # << >>
      BY <1>3, <2>1, <2>2
    <3>2. Len(a) \in Nat /\ Len(a) # 0 /\ Len(b) \in Nat /\ Len(c) \in Nat
      BY <3>1
    <3>3. a \o b \in Seq(SegmentSet) /\ Len(a \o b) = Len(a) + Len(b)
      BY <3>1
    <3>4. Len((a \o b) \o c) = Len(a \o b) + Len(c)
      BY <3>1, <3>3
    <3>5. Len((a \o b) \o c) # 0
      BY <3>2, <3>3, <3>4
    <3> QED
      BY <3>5
  <2> QED
    BY <1>8, <2>2, <2>3
<1> QED
  BY <1>13, <1>15, <1>16 DEF o

-----------------------------------------------------------------------------
\* Counted from the wrong end of whole bytes, the bits are counted all the same.
LEMMA OnesOfWholeBytes ==
  ASSUME Arguing, WholeBytes
  PROVE  Ones = OnesTo(bits, Len(bits))
<1>1. PICK n : n = source.bit_count
  OBVIOUS
<1>2. /\ n \in Nat /\ n % 8 = 0 /\ Len(bits) = n
      /\ \A k \in 1 .. n : bits[k] = source.bits[k]
  BY <1>1, SourceFacts DEF WholeBytes
<1>3. ASSUME NEW k \in 1 .. n PROVE CountedBit(k) = bits[Mirror(k)]
  <2>1. Mirror(k) \in 1 .. n
    BY <1>2, MirrorFacts
  <2>2. CountedBit(k) = source.bits[Mirror(k)]
    BY DEF CountedBit, Mirror
  <2> QED
    BY <1>2, <2>1, <2>2
<1>4. {k \in 1 .. n : CountedBit(k) = 1} = {k \in 1 .. n : bits[Mirror(k)] = 1}
  BY <1>3
<1>5. Cardinality({k \in 1 .. n : bits[Mirror(k)] = 1}) = OnesTo(bits, n)
  BY <1>2, MirroredOnes
<1> QED
  BY <1>1, <1>2, <1>4, <1>5 DEF Ones

LEMMA OnesAtMost == ASSUME Arguing PROVE Ones \in 0 .. Len(bits)
<1> DEFINE n == source.bit_count
           S == {k \in 1 .. n : CountedBit(k) = 1}
<1>1. n \in Nat /\ Len(bits) = n
  BY SourceFacts
<1>2. S \in SUBSET (1 .. n) /\ Ones = Cardinality(S)
  BY DEF Ones
<1> HIDE DEF n, S
<1>3. IsFiniteSet(1 .. n) /\ Cardinality(1 .. n) = n
  <2>1. 1 \in Int /\ n \in Int /\ (1 > n <=> n = 0) /\ (n - 1) + 1 = n
    BY <1>1
  <2>2. IsFiniteSet(1 .. n) /\ Cardinality(1 .. n) = IF 1 > n THEN 0 ELSE n - 1 + 1
    BY <2>1, FS_Interval
  <2> QED
    BY <1>1, <2>1, <2>2
<1>4. IsFiniteSet(S) /\ Cardinality(S) <= n
  BY <1>2, <1>3, FS_Subset
<1>5. Cardinality(S) \in Nat
  BY <1>4, FS_CardinalityType
<1> QED
  BY <1>1, <1>2, <1>4, <1>5

\* The estimate is a length.
LEMMA FrameLengthNat ==
  ASSUME Arguing, NEW o \in 0 .. Len(bits)
  PROVE  FrameLength(o) \in Nat
<1>1. /\ Total(len.start) \in Nat /\ Total(len.end) \in Nat
      /\ Total(len.bit[1]) \in Nat /\ Total(len.bit[2]) \in Nat
  BY LenFacts, TotalFacts
<1>2. Len(bits) \in Nat
  BY SourceFacts
<1>3. PICK z \in Nat : z = Len(bits) - o
  BY <1>2
<1>4. PICK a, b : a = Total(len.bit[1]) * z /\ b = Total(len.bit[2]) * o
  OBVIOUS
<1>5. a \in Nat /\ b \in Nat
  BY <1>1, <1>2, <1>4
<1>6. FrameLength(o) = Total(len.start) + Total(len.end) + a + b
  BY <1>3, <1>4 DEF FrameLength
<1> QED
  BY <1>1, <1>5, <1>6

\* Where both bits last equally long it does not matter how many are ones.
LEMMA FrameLengthEqual ==
  ASSUME Arguing, EquallyLong, NEW o \in 0 .. Len(bits), NEW p \in 0 .. Len(bits)
  PROVE  FrameLength(o) = FrameLength(p)
<1>1. PICK x : x = Total(len.bit[1]) /\ x = Total(len.bit[2])
  BY DEF EquallyLong
<1>2. x \in Nat /\ Total(len.start) \in Nat /\ Total(len.end) \in Nat
  BY <1>1, LenFacts, TotalFacts
<1>3. PICK n \in Nat : n = Len(bits)
  BY SourceFacts
<1>4. ASSUME NEW q \in 0 .. n
      PROVE  FrameLength(q) = Total(len.start) + Total(len.end) + x * n
  <2>1. PICK z \in Nat : z = n - q
    OBVIOUS
  <2>2. x * z + x * q = x * n
    <3>1. z + q = n
      BY <2>1
    <3>2. x * (z + q) = x * z + x * q
      BY <1>2, <2>1
    <3> QED
      BY <3>1, <3>2
  <2>3. PICK a, b : a = x * z /\ b = x * q
    OBVIOUS
  <2>4. a \in Nat /\ b \in Nat
    BY <1>2, <2>3
  <2>5. FrameLength(q) = Total(len.start) + Total(len.end) + a + b
    BY <1>1, <1>3, <2>1, <2>3 DEF FrameLength
  <2> QED
    BY <1>2, <2>2, <2>3, <2>4, <2>5
<1> QED
  BY <1>3, <1>4

LEMMA CheckedLength ==
  ASSUME Arguing, WholeBytes \/ EquallyLong
  PROVE  Length(WrittenFrame) = FrameLength(Ones)
<1> DEFINE o == OnesTo(bits, Len(bits))
<1>1. o \in 0 .. Len(bits)
  BY SourceFacts, OnesFacts
<1>2. Length(WrittenFrame) = FrameLength(o)
  BY FrameLasts, LengthIs
<1>3. CASE WholeBytes
  BY <1>2, <1>3, OnesOfWholeBytes
<1>4. CASE EquallyLong
  <2>1. Ones \in 0 .. Len(bits)
    BY OnesAtMost
  <2> HIDE DEF o
  <2> QED
    BY <1>1, <1>2, <1>4, <2>1, FrameLengthEqual
<1> QED
  BY <1>3, <1>4

LEMMA WrittenLength == ASSUME Arguing PROVE Length(WrittenFrame) \in Nat
  BY FrameLasts, LengthIs

-----------------------------------------------------------------------------
LEMMA NoLenIsLen == NoLen \in Lens
<1>1. 0 \in Counts
  BY Widths DEF UINT8_MAX, Counts
<1>2. Pair(0, 0) \in PeriodPairs
  BY <1>1 DEF Pair, PeriodPairs
<1>3. PICK p \in PeriodPairs : p = Pair(0, 0)
  BY <1>2
<1>4. <<p, p>> \in [1 .. 2 -> PeriodPairs]
  OBVIOUS
<1> QED
  BY <1>3, <1>4 DEF NoLen, Lens

LEMMA PeriodsType ==
  ASSUME NEW time \in Times, NEW build, base_time \in Nat, base_time > 0
  PROVE  Periods(time, build) \in Counts
<1>1. PICK n \in Nat : n = time \div base_time
  BY Widths
<1>2. Periods(time, build) =
         IF n <= UINT8_MAX THEN n
         ELSE IF build = "wraps" THEN n % (UINT8_MAX + 1) ELSE UINT8_MAX
  BY <1>1 DEF Periods
<1>3. UINT8_MAX \in Nat
  BY Widths
<1>4. PICK M \in Nat : M = UINT8_MAX + 1
  BY <1>3
<1>5. n % M \in 0 .. M - 1
  BY <1>3, <1>4
<1>6. n % M \in Nat /\ n % M <= UINT8_MAX
  BY <1>3, <1>4, <1>5
<1>7. Periods(time, build) \in 0 .. UINT8_MAX
  <2>1. CASE n <= UINT8_MAX
    BY <1>2, <1>3, <2>1
  <2>2. CASE ~ (n <= UINT8_MAX) /\ build = "wraps"
    BY <1>2, <1>3, <1>4, <1>6, <2>2
  <2>3. CASE ~ (n <= UINT8_MAX) /\ build # "wraps"
    BY <1>2, <1>3, <2>3
  <2> QED
    BY <2>1, <2>2, <2>3
<1> QED
  BY <1>7 DEF Counts

LEMMA PairPeriodsType ==
  ASSUME NEW pair \in Pairs, NEW build, base_time \in Nat, base_time > 0
  PROVE  PairPeriods(pair, build) \in PeriodPairs
<1>1. Periods(pair.h, build) \in Counts /\ Periods(pair.l, build) \in Counts
  BY PairFacts, PeriodsType
<1> QED
  BY <1>1 DEF PairPeriods, Pair, PeriodPairs

LEMMA ModType == ASSUME NEW n \in Nat PROVE n % (UINT16_MAX + 1) \in Times
<1>1. PICK M \in Nat : M = UINT16_MAX + 1
  BY Widths
<1>2. n % M \in 0 .. M - 1 /\ UINT16_MAX = M - 1
  BY <1>1, Widths
<1> QED
  BY <1>1, <1>2 DEF Times

-----------------------------------------------------------------------------
LEMMA InitRawInv == ASSUME Init PROVE RawInv
<1>1. config \in Timings /\ source \in SourceFrames[config] /\ accuracy \in Accuracies
  BY DEF Init
<1>2. stage = "base" /\ base_time = 0 /\ len = NoLen /\ estimate = 0 /\ count = 0
  BY DEF Init
<1>3. Arguing
  BY <1>1, <1>2, NoLenIsLen DEF Arguing
<1>4. 0 \in Times
  BY Widths DEF Times
<1> QED
  BY <1>2, <1>3, <1>4 DEF RawInv

\* What the invariant speaks of depends on the arguments and the lengths alone.
LEMMA SameFrame ==
  ASSUME UNCHANGED <<args, len>>
  PROVE  /\ Arguing => Arguing'
         /\ FrameLength(Ones)' = FrameLength(Ones) /\ WrittenFrame' = WrittenFrame
         /\ BaseTime(config, AllowedError(config, accuracy))'
              = BaseTime(config, AllowedError(config, accuracy))
<1>1. config' = config /\ source' = source /\ accuracy' = accuracy /\ len' = len
  BY DEF args
<1>2. Arguing => Arguing'
  BY <1>1 DEF Arguing
<1>3. bits' = bits /\ Ones' = Ones
  BY <1>1 DEF bits, Ones, CountedBit
<1>4. FrameLength(Ones)' = FrameLength(Ones)
  BY <1>1, <1>3 DEF FrameLength, Total
<1>5. WriteEdge(len.start)' = WriteEdge(len.start) /\ WriteEdge(len.end)' = WriteEdge(len.end)
  BY <1>1 DEF WriteEdge
<1>6. WriteBits' = WriteBits
  BY <1>1, <1>3 DEF WriteBits, WriteEdge
<1>7. WrittenFrame' = WrittenFrame
  BY <1>5, <1>6 DEF WrittenFrame
<1>8. BaseTime(config, AllowedError(config, accuracy))'
        = BaseTime(config, AllowedError(config, accuracy))
  BY <1>1
<1> QED
  BY <1>2, <1>4, <1>7, <1>8

LEMMA FindBaseTimeKeeps == ASSUME RawInv, FindBaseTime PROVE RawInv'
<1>1. /\ stage = "base" /\ stage' = "lengths" /\ UNCHANGED <<args, len>>
      /\ base_time' = BaseTime(config, AllowedError(config, accuracy))
      /\ estimate' = estimate /\ count' = count
  BY DEF FindBaseTime
<1>2. Arguing /\ estimate \in Nat /\ count \in Times
  BY DEF RawInv
<1>3. BaseTime(config, AllowedError(config, accuracy)) \in Times
  BY <1>2, AllowedErrorFacts, BaseTimeFacts DEF Arguing
<1> QED
  BY <1>1, <1>2, <1>3, SameFrame DEF RawInv

LEMMA LengthsKeeps == ASSUME RawInv, Lengths PROVE RawInv'
<1>1. /\ stage = "lengths" /\ stage' = "estimate" /\ UNCHANGED <<args, base_time>>
      /\ base_time > 0 /\ estimate' = estimate /\ count' = count
  BY DEF Lengths
<1>2. PICK build \in {"wraps", "saturates"} :
         len' = [start |-> PairPeriods(config.start, build),
                 end   |-> PairPeriods(config.end, build),
                 bit   |-> [b \in 1 .. 2 |-> PairPeriods(config.bit[b], build)]]
  BY DEF Lengths
<1>3. /\ config \in Timings /\ source \in SourceFrames[config] /\ accuracy \in Accuracies
      /\ base_time \in Times /\ estimate \in Nat /\ count \in Times
      /\ base_time = BaseTime(config, AllowedError(config, accuracy))
  BY <1>1 DEF RawInv, Arguing
<1>4. /\ config.start \in Pairs /\ config.end \in Pairs
      /\ config.bit[1] \in Pairs /\ config.bit[2] \in Pairs
  BY <1>3, ConfigFacts
<1>5. base_time \in Nat
  BY <1>3, Widths
<1>6. /\ PairPeriods(config.start, build) \in PeriodPairs
      /\ PairPeriods(config.end, build) \in PeriodPairs
      /\ PairPeriods(config.bit[1], build) \in PeriodPairs
      /\ PairPeriods(config.bit[2], build) \in PeriodPairs
  BY <1>1, <1>4, <1>5, PairPeriodsType
<1>7. [b \in 1 .. 2 |-> PairPeriods(config.bit[b], build)] \in [1 .. 2 -> PeriodPairs]
  <2>1. ASSUME NEW b \in 1 .. 2 PROVE PairPeriods(config.bit[b], build) \in PeriodPairs
    <3>1. b = 1 \/ b = 2
      OBVIOUS
    <3> QED
      BY <1>6, <3>1
  <2> QED
    BY <2>1
<1>8. len' \in Lens
  BY <1>2, <1>6, <1>7 DEF Lens
<1>9. /\ config' = config /\ source' = source /\ accuracy' = accuracy
      /\ base_time' = base_time
  BY <1>1 DEF args
<1>10. Arguing'
  BY <1>3, <1>8, <1>9 DEF Arguing
<1> QED
  BY <1>1, <1>3, <1>9, <1>10 DEF RawInv

LEMMA EstimateKeeps == ASSUME RawInv, Estimate PROVE RawInv'
<1>1. /\ stage = "estimate" /\ UNCHANGED <<args, len>> /\ base_time' = base_time
      /\ estimate' = FrameLength(Ones)
  BY DEF Estimate
<1>2. \/ TooLong(estimate') /\ count' = UINT16_MAX /\ stage' = "done"
      \/ ~ TooLong(estimate') /\ stage' = "write" /\ count' = count
  BY DEF Estimate
<1>3. Arguing /\ base_time \in Times /\ count \in Times
      /\ base_time = BaseTime(config, AllowedError(config, accuracy))
  BY <1>1 DEF RawInv
<1>4. FrameLength(Ones) \in Nat
  BY <1>3, OnesAtMost, FrameLengthNat
<1>5. UINT16_MAX \in Times
  BY Widths DEF Times
<1>6. PICK t : t = TooLong(estimate)'
  OBVIOUS
<1>7. TooLong(estimate)' <=> TooLong(estimate')
  BY DEF TooLong
<1>8. CASE TooLong(estimate') /\ count' = UINT16_MAX /\ stage' = "done"
  BY <1>1, <1>3, <1>4, <1>5, <1>7, <1>8, SameFrame DEF RawInv
<1>9. CASE ~ TooLong(estimate') /\ stage' = "write" /\ count' = count
  BY <1>1, <1>3, <1>4, <1>7, <1>9, SameFrame DEF RawInv
<1> QED
  BY <1>2, <1>8, <1>9

LEMMA WriteKeeps == ASSUME RawInv, Write PROVE RawInv'
<1>1. /\ stage = "write" /\ UNCHANGED <<args, len>> /\ base_time' = base_time
      /\ estimate' = estimate /\ stage' = "done"
      /\ frame' = WrittenFrame /\ count' = Length(frame') % (UINT16_MAX + 1)
  BY DEF Write, WrittenFrame
<1>2. Arguing /\ base_time \in Times /\ estimate \in Nat
      /\ base_time = BaseTime(config, AllowedError(config, accuracy))
      /\ estimate = FrameLength(Ones) /\ ~ TooLong(estimate)
  BY <1>1 DEF RawInv
<1>3. Length(WrittenFrame) % (UINT16_MAX + 1) \in Times
  BY <1>2, WrittenLength, ModType
<1>4. ~ TooLong(estimate)'
  BY <1>1, <1>2 DEF TooLong
<1>5. count' = Length(WrittenFrame') % (UINT16_MAX + 1)
  BY <1>1, SameFrame
<1> QED
  BY <1>1, <1>2, <1>3, <1>4, <1>5, SameFrame DEF RawInv

\* A driver reads the frame, and takes it over.
LEMMA DriverKeeps ==
  ASSUME RawInv, UNCHANGED <<args, base_time, len, estimate, count>>,
         \/ stage' = stage
         \/ stage \in {"done", "handed"} /\ stage' = "handed"
  PROVE  RawInv'
<1>1. /\ UNCHANGED <<args, len>> /\ base_time' = base_time
      /\ estimate' = estimate /\ count' = count
  OBVIOUS
<1>2. TooLong(estimate)' <=> TooLong(estimate)
  BY <1>1 DEF TooLong
<1>3. CASE stage' = stage
  BY <1>1, <1>2, <1>3, SameFrame DEF RawInv
<1>4. CASE stage \in {"done", "handed"} /\ stage' = "handed"
  BY <1>1, <1>2, <1>4, SameFrame DEF RawInv
<1> QED
  BY <1>3, <1>4

LEMMA RawInvStep == ASSUME RawInv, [Next]_vars PROVE RawInv'
<1>1. CASE Next
  BY <1>1, FindBaseTimeKeeps, LengthsKeeps, EstimateKeeps, WriteKeeps DEF Next
<1>2. CASE UNCHANGED vars
  <2>1. UNCHANGED <<args, base_time, len, estimate, count>> /\ stage' = stage
    BY <1>2 DEF vars, args
  <2> QED
    BY <2>1, DriverKeeps
<1> QED
  BY <1>1, <1>2

-----------------------------------------------------------------------------
\* A divisor in the sense of the model, and of the lemmas.
LEMMA DividesMultiple ==
  ASSUME NEW d \in Nat, d # 0, NEW n \in Nat
  PROVE  Divides(d, n) <=> Multiple(n, d)
<1>1. PICK q \in Int, r \in Int : n = (d * q) + r /\ r = n % d /\ 0 <= r /\ r < d
  OBVIOUS
<1>2. ASSUME n % d = 0 PROVE Multiple(n, d)
  <2>1. n = q * d
    BY <1>1, <1>2
  <2> QED
    BY <2>1 DEF Multiple
<1>3. ASSUME Multiple(n, d) PROVE n % d = 0
  <2>1. PICK k \in Int : n = k * d
    BY <1>3 DEF Multiple
  <2>2. PICK z \in Int : z = k - q
    OBVIOUS
  <2>3. z * d = r
    <3>1. z + q = k
      BY <1>1, <2>2
    <3>2. (z + q) * d = z * d + q * d
      BY <1>1
    <3>3. PICK a, b : a = z * d /\ b = q * d
      OBVIOUS
    <3>4. a \in Int /\ b \in Int /\ b = d * q
      BY <1>1, <3>3
    <3>5. n = a + b
      BY <2>1, <3>1, <3>2, <3>3
    <3> QED
      BY <1>1, <3>3, <3>4, <3>5
  <2>4. z = 0
    <3>1. ASSUME z >= 1 PROVE FALSE
      <4>1. z * d >= d
        BY <3>1
      <4> QED
        BY <1>1, <2>3, <4>1
    <3>2. ASSUME z <= -1 PROVE FALSE
      <4>1. z * d <= (-1) * d
        BY <3>2
      <4> QED
        BY <1>1, <2>3, <4>1
    <3> QED
      BY <3>1, <3>2
  <2> QED
    BY <1>1, <2>3, <2>4
<1> QED
  BY <1>2, <1>3 DEF Divides

LEMMA NoGreaterDivisor ==
  ASSUME NEW b \in Nat, b # 0, NEW d \in Nat, Multiple(b, d)
  PROVE  d <= b
<1>1. PICK k \in Int : b = k * d
  BY DEF Multiple
<1>2. CASE k >= 1
  <2>1. PICK j \in Nat : k = 1 + j
    BY <1>2
  <2>2. j * d \in Nat /\ (1 + j) * d = d + j * d
    BY <2>1
  <2> QED
    BY <1>1, <2>1, <2>2
<1>3. CASE k <= 0
  <2>1. PICK j \in Nat : k = 0 - j
    BY <1>3
  <2>2. j * d \in Nat /\ (0 - j) * d = 0 - j * d
    BY <2>1
  <2> QED
    BY <1>1, <2>1, <2>2
<1> QED
  BY <1>2, <1>3

LEMMA ExactBaseTime ==
  ASSUME RawInv, stage # "base", AllowedError(config, accuracy) = 0
  PROVE  /\ CommonDivisor(base_time, config)
         /\ \A d \in base_time + 1 .. Shortest(config) : ~ CommonDivisor(d, config)
<1>1. config \in Timings /\ accuracy \in Accuracies
      /\ base_time = BaseTime(config, AllowedError(config, accuracy))
  BY DEF RawInv, Arguing
<1>2. PICK e, b : e = AllowedError(config, accuracy) /\ b = BaseTime(config, e)
  OBVIOUS
<1>3. e = 0 /\ e \in Nat /\ base_time = b
  BY <1>1, <1>2, AllowedErrorFacts
<1>4. b \in Times /\ b # 0 /\ \A n \in Nat : AllMultiples(config, n) <=> Multiple(b, n)
  BY <1>1, <1>2, <1>3, BaseTimeFacts
<1>5. b \in Nat
  BY <1>4, Widths
<1>6. ASSUME NEW d \in Nat, d # 0 PROVE CommonDivisor(d, config) <=> AllMultiples(config, d)
  <2>1. \A t \in Durations(config) : t \in Nat
    BY <1>1, DurationFacts
  <2>2. \A t \in Durations(config) : Divides(d, t) <=> Multiple(t, d)
    BY <1>6, <2>1, DividesMultiple
  <2> QED
    BY <2>2 DEF CommonDivisor, AllMultiples
<1>7. CommonDivisor(b, config)
  <2>1. Multiple(b, b)
    <3>1. 1 \in Int /\ b = 1 * b
      BY <1>5
    <3> QED
      BY <3>1 DEF Multiple
  <2> QED
    BY <1>4, <1>5, <1>6, <2>1
<1>8. ASSUME NEW d \in b + 1 .. Shortest(config), CommonDivisor(d, config) PROVE FALSE
  <2>1. Shortest(config) \in Nat
    BY <1>1, ShortestFacts
  <2>2. d \in Nat /\ d # 0 /\ ~ (d <= b)
    BY <1>5, <2>1
  <2>3. Multiple(b, d)
    BY <1>4, <1>6, <1>8, <2>2
  <2> QED
    BY <1>4, <1>5, <2>2, <2>3, NoGreaterDivisor
<1> QED
  BY <1>3, <1>7, <1>8

LEMMA CheckedIsWritten ==
  ASSUME RawInv, Done, WholeBytes \/ EquallyLong
  PROVE  count = IF estimate <= BufferBits THEN estimate ELSE UINT16_MAX
<1>1. /\ Arguing /\ estimate \in Nat /\ estimate = FrameLength(Ones)
      /\ count = IF TooLong(estimate) THEN UINT16_MAX
                 ELSE Length(WrittenFrame) % (UINT16_MAX + 1)
  BY DEF RawInv, Done
<1>2. Length(WrittenFrame) = estimate
  BY <1>1, CheckedLength
<1>3. BufferBits \in Nat /\ BufferBits <= UINT16_MAX /\ UINT16_MAX \in Nat
  BY RawAssumption, Widths DEF Times
<1>4. CASE estimate <= BufferBits
  <2>1. ~ TooLong(estimate)
    BY <1>1, <1>3, <1>4 DEF TooLong
  <2>2. PICK M \in Nat : M = UINT16_MAX + 1
    BY <1>3
  <2>3. estimate < M
    BY <1>1, <1>3, <1>4, <2>2
  <2>4. estimate % M = estimate
    BY <1>1, <2>3
  <2> QED
    BY <1>1, <1>2, <1>4, <2>1, <2>2, <2>4
<1>5. CASE ~ (estimate <= BufferBits)
  <2>1. TooLong(estimate)
    BY <1>1, <1>3, <1>5 DEF TooLong
  <2> QED
    BY <1>1, <1>5, <2>1
<1> QED
  BY <1>4, <1>5

-----------------------------------------------------------------------------
(***************************************************************************)
(* The sound: the array is as long as the conversion made it, for a bit of *)
(* as many samples as the rate of the time asked for.  That is the card's  *)
(* own rate, but for the first command that gets as far as the card.       *)
(***************************************************************************)
FirstRate(n) == audio.samples_per_bit = SamplesPerBit(DefaultRate) /\ commands = n

AlsaInv ==
    /\ card \in Nat /\ samplerate \in Nat /\ commands \in Nat
    /\ sound \in {"idle", "converted", "configured", "played", "failed"}
    /\ sound # "idle" => stage = "handed"
    /\ card = 0 => samplerate = DefaultRate /\ commands = 0
    /\ card # 0 => samplerate = card
    /\ sound = "converted" =>
          /\ audio.samples_per_bit = SamplesPerBit(samplerate)
          /\ audio.sample_count = SampleCount(audio.samples_per_bit)
    /\ sound \in {"configured", "played"} => card # 0
    /\ sound = "configured" =>
          audio.samples_per_bit = SamplesPerBit(card) \/ FirstRate(0)
    /\ sound = "played" =>
          audio.samples_per_bit = SamplesPerBit(card) \/ FirstRate(1)

SoundInv == RawInv /\ AlsaInv

LEMMA InitSoundInv == ASSUME AlsaInit PROVE SoundInv
<1>1. RawInv
  BY InitRawInv DEF AlsaInit
<1>2. AlsaInv
  BY DEF AlsaInit, AlsaInv, DefaultRate
<1> QED
  BY <1>1, <1>2 DEF SoundInv

\* The conversion is over before the driver begins.
LEMMA ConversionKeeps ==
  ASSUME SoundInv, Next, UNCHANGED alsa PROVE SoundInv'
<1>1. RawInv'
  BY RawInvStep DEF SoundInv
<1>2. stage # "handed"
  BY DEF Next, FindBaseTime, Lengths, Estimate, Write
<1>3. sound = "idle"
  BY <1>2 DEF SoundInv, AlsaInv
<1>4. /\ samplerate' = samplerate /\ card' = card /\ audio' = audio
      /\ sound' = sound /\ commands' = commands
  BY DEF alsa
<1>5. AlsaInv'
  BY <1>3, <1>4 DEF SoundInv, AlsaInv
<1> QED
  BY <1>1, <1>5 DEF SoundInv

LEMMA ConvertKeeps == ASSUME SoundInv, Convert PROVE SoundInv'
<1>1. /\ UNCHANGED <<args, base_time, len, estimate, count>> /\ stage' = "handed"
      /\ stage \in {"done", "handed"} /\ sound = "idle"
      /\ samplerate' = samplerate /\ card' = card /\ commands' = commands
  BY DEF Convert
<1>2. RawInv'
  BY <1>1, DriverKeeps DEF SoundInv
<1>3. \/ /\ audio' = [samples_per_bit |-> SamplesPerBit(samplerate),
                      sample_count |-> SampleCount(SamplesPerBit(samplerate))]
         /\ sound' = "converted"
      \/ sound' = "failed"
  BY DEF Convert
<1>4. /\ UNCHANGED <<args, base_time, count>>
  BY <1>1
<1>5. CASE sound' = "failed"
  BY <1>1, <1>2, <1>5 DEF SoundInv, AlsaInv
<1>6. CASE /\ audio' = [samples_per_bit |-> SamplesPerBit(samplerate),
                        sample_count |-> SampleCount(SamplesPerBit(samplerate))]
           /\ sound' = "converted"
  <2>1. PICK s, n : s = SamplesPerBit(samplerate) /\ n = SampleCount(s)
    OBVIOUS
  <2>2. audio'.samples_per_bit = s /\ audio'.sample_count = n
    BY <1>6, <2>1
  <2>3. SamplesPerBit(samplerate)' = s
    BY <1>1, <2>1 DEF SamplesPerBit, Product
  <2>4. SampleCount(audio.samples_per_bit)' = n
    BY <1>1, <2>1, <2>2 DEF SampleCount, SamplesPerFrame, args
  <2> QED
    BY <1>1, <1>2, <1>6, <2>2, <2>3, <2>4 DEF SoundInv, AlsaInv
<1> QED
  BY <1>2, <1>3, <1>5, <1>6 DEF SoundInv

\* Steps of the driver proper leave the conversion as it is.
LEMMA SoundSteps ==
  ASSUME RawInv, UNCHANGED vars
  PROVE  /\ RawInv' /\ stage' = stage /\ base_time' = base_time
<1>1. UNCHANGED <<args, base_time, len, estimate, count>> /\ stage' = stage
  BY DEF vars, args
<1> QED
  BY <1>1, DriverKeeps

LEMMA ConfigureKeeps == ASSUME SoundInv, Configure PROVE SoundInv'
<1>1. /\ sound = "converted" /\ UNCHANGED vars /\ audio' = audio /\ commands' = commands
  BY DEF Configure
<1>2. RawInv' /\ stage' = stage /\ base_time' = base_time
  BY <1>1, SoundSteps DEF SoundInv
<1>3. /\ card \in Nat /\ samplerate \in Nat /\ commands \in Nat /\ stage = "handed"
      /\ card = 0 => samplerate = DefaultRate /\ commands = 0
      /\ card # 0 => samplerate = card
      /\ audio.samples_per_bit = SamplesPerBit(samplerate)
  BY <1>1 DEF SoundInv, AlsaInv
<1>4. ASSUME NEW r \in Rates PROVE r \in Nat /\ r # 0
  BY AlsaAssumption
<1>5. CASE sound' = "failed" /\ card' = card /\ samplerate' = samplerate
  BY <1>1, <1>2, <1>3, <1>5 DEF SoundInv, AlsaInv
<1>6. CASE /\ card' \in IF card = 0 THEN Rates ELSE {card}
           /\ samplerate' = card' /\ sound' \in {"configured", "failed"}
  <2>1. card' \in Nat /\ card' # 0 /\ (card # 0 => card' = card)
    <3>1. CASE card = 0
      BY <1>4, <1>6, <3>1
    <3>2. CASE card # 0
      BY <1>3, <1>6, <3>2
    <3> QED
      BY <3>1, <3>2
  <2>2. SamplesPerBit(card)' = SamplesPerBit(card')
    BY <1>2 DEF SamplesPerBit, Product
  <2>3. audio'.samples_per_bit = SamplesPerBit(card)' \/ FirstRate(0)'
    <3>1. CASE card = 0
      <4>1. audio'.samples_per_bit = SamplesPerBit(DefaultRate) /\ commands' = 0
        BY <1>1, <1>3, <3>1
      <4>2. SamplesPerBit(DefaultRate)' = SamplesPerBit(DefaultRate)
        BY <1>2 DEF SamplesPerBit, Product, DefaultRate
      <4> QED
        BY <4>1, <4>2 DEF FirstRate
    <3>2. CASE card # 0
      <4>1. audio'.samples_per_bit = SamplesPerBit(card)
        BY <1>1, <1>3, <3>2
      <4>2. SamplesPerBit(card)' = SamplesPerBit(card)
        BY <1>2, <2>1, <3>2 DEF SamplesPerBit, Product
      <4> QED
        BY <4>1, <4>2
    <3> QED
      BY <3>1, <3>2
  <2> QED
    BY <1>1, <1>2, <1>3, <1>6, <2>1, <2>3 DEF SoundInv, AlsaInv
<1>7. \/ sound' = "failed" /\ card' = card /\ samplerate' = samplerate
      \/ /\ card' \in IF card = 0 THEN Rates ELSE {card}
         /\ samplerate' = card' /\ sound' \in {"configured", "failed"}
  BY DEF Configure, RateWrittenBack
<1> QED
  BY <1>5, <1>6, <1>7

LEMMA PlayKeeps == ASSUME SoundInv, Play PROVE SoundInv'
<1>1. /\ sound = "configured" /\ sound' = "played" /\ commands' = commands + 1
      /\ UNCHANGED vars /\ samplerate' = samplerate /\ card' = card /\ audio' = audio
  BY DEF Play
<1>2. RawInv' /\ stage' = stage /\ base_time' = base_time
  BY <1>1, SoundSteps DEF SoundInv
<1>3. /\ card \in Nat /\ samplerate \in Nat /\ commands \in Nat /\ stage = "handed"
      /\ card # 0 /\ samplerate = card
      /\ audio.samples_per_bit = SamplesPerBit(card) \/ FirstRate(0)
  BY <1>1 DEF SoundInv, AlsaInv
<1>4. SamplesPerBit(card)' = SamplesPerBit(card) /\ SamplesPerBit(DefaultRate)' = SamplesPerBit(DefaultRate)
  BY <1>1, <1>2 DEF SamplesPerBit, Product, DefaultRate
<1>5. FirstRate(0) => FirstRate(1)'
  BY <1>1, <1>4 DEF FirstRate
<1>6. audio'.samples_per_bit = SamplesPerBit(card)' \/ FirstRate(1)'
  BY <1>1, <1>3, <1>4, <1>5
<1> QED
  BY <1>1, <1>2, <1>3, <1>6 DEF SoundInv, AlsaInv

LEMMA NextCommandKeeps == ASSUME SoundInv, NextCommand PROVE SoundInv'
<1>1. /\ sound' = "idle" /\ commands' = commands
      /\ UNCHANGED vars /\ samplerate' = samplerate /\ card' = card
  BY DEF NextCommand
<1>2. RawInv'
  BY <1>1, SoundSteps DEF SoundInv
<1> QED
  BY <1>1, <1>2 DEF SoundInv, AlsaInv

LEMMA SoundInvStep == ASSUME SoundInv, [AlsaNext]_alsaVars PROVE SoundInv'
<1>1. CASE AlsaNext
  BY <1>1, ConversionKeeps, ConvertKeeps, ConfigureKeeps, PlayKeeps, NextCommandKeeps DEF AlsaNext
<1>2. CASE UNCHANGED alsaVars
  <2>1. /\ UNCHANGED vars /\ samplerate' = samplerate /\ card' = card /\ audio' = audio
        /\ sound' = sound /\ commands' = commands
    BY <1>2 DEF alsaVars, alsa
  <2>2. RawInv' /\ stage' = stage /\ base_time' = base_time
    BY <2>1, SoundSteps DEF SoundInv
  <2>3. UNCHANGED <<args, count>>
    BY <2>1 DEF vars, args
  <2>4. /\ SamplesPerBit(samplerate)' = SamplesPerBit(samplerate)
        /\ SamplesPerBit(card)' = SamplesPerBit(card)
        /\ SampleCount(audio.samples_per_bit)' = SampleCount(audio.samples_per_bit)
        /\ FirstRate(0)' = FirstRate(0) /\ FirstRate(1)' = FirstRate(1)
    BY <2>1, <2>2, <2>3 DEF SamplesPerBit, Product, SampleCount, SamplesPerFrame, FirstRate, DefaultRate, args
  <2> QED
    BY <2>1, <2>2, <2>4 DEF SoundInv, AlsaInv
<1> QED
  BY <1>1, <1>2

LEMMA AlwaysSoundInv == AlsaSpec => []SoundInv
  BY InitSoundInv, SoundInvStep, PTL DEF AlsaSpec

-----------------------------------------------------------------------------
LEMMA MaxOfTwo ==
  ASSUME NEW a \in Int, NEW b \in Int
  PROVE  a <= Max({a, b}) /\ Max({a, b}) \in Int
<1>1. \E m \in {a, b} : \A k \in {a, b} : k <= m
  <2>1. CASE a <= b
    BY <2>1
  <2>2. CASE ~ (a <= b)
    BY <2>2
  <2> QED
    BY <2>1, <2>2
<1>2. PICK m : m = CHOOSE x \in {a, b} : \A k \in {a, b} : k <= x
  OBVIOUS
<1>3. m \in {a, b} /\ \A k \in {a, b} : k <= m
  BY <1>1, <1>2
<1>4. Max({a, b}) = m
  BY <1>2 DEF Max
<1> QED
  BY <1>3, <1>4

LEMMA SamplesFit ==
  ASSUME SoundInv, sound = "converted"
  PROVE  SamplesInBounds
<1>1. /\ config \in Timings /\ count \in Times /\ base_time \in Times /\ samplerate \in Nat
      /\ audio.samples_per_bit = SamplesPerBit(samplerate)
      /\ audio.sample_count = SampleCount(audio.samples_per_bit)
  BY DEF SoundInv, RawInv, AlsaInv, Arguing
<1>2. PICK c, s, fc : c = count /\ s = audio.samples_per_bit /\ fc = config.frame_count
  OBVIOUS
<1>3. c \in Nat /\ fc \in Nat
  BY <1>1, <1>2, ConfigFacts, Widths
<1>4. s \in Nat
  <2>1. PICK b \in Nat, r \in Nat : b = base_time /\ r = samplerate
    BY <1>1, Widths
  <2>2. PICK x \in Nat : x = 25 * (b * r)
    BY <2>1
  <2>3. PICK y \in Nat : y = x % 1073741824
    BY <2>2
  <2>4. (y + 125000) \div 250000 \in Nat
    BY <2>3
  <2> QED
    BY <1>1, <1>2, <2>1, <2>2, <2>3, <2>4 DEF SamplesPerBit, Product
<1>5. PICK h \in Nat : h = c * s
  BY <1>3, <1>4
<1>6. PICK f \in Nat : f = h * 2
  BY <1>5
<1>7. SamplesPerFrame(s) = f
  BY <1>2, <1>5, <1>6 DEF SamplesPerFrame, CHANNELS
<1>8. f * fc <= audio.sample_count /\ audio.sample_count \in Int
  <2>1. f * fc \in Int /\ MIN_SAMPLES \in Int
    BY <1>3, <1>6 DEF MIN_SAMPLES
  <2>2. audio.sample_count = Max({f * fc, MIN_SAMPLES})
    BY <1>1, <1>2, <1>7 DEF SampleCount
  <2>3. PICK x \in Int, y \in Int : x = f * fc /\ y = MIN_SAMPLES
    BY <2>1
  <2>4. x <= Max({x, y}) /\ Max({x, y}) \in Int
    BY <2>3, MaxOfTwo
  <2> QED
    BY <2>2, <2>3, <2>4
<1>9. ASSUME NEW k \in 0 .. fc - 1
      PROVE  /\ SampleIndex(k, c - 1, s - 1) = k * f + f - 1
             /\ SampleIndex(k + 1, 0, 0) = k * f + f + 1
  <2>1. SampleIndex(k, c - 1, s - 1) = k * f + 2 * ((c - 1) * s + (s - 1)) + 1
    BY <1>2, <1>7 DEF SampleIndex
  <2>2. (c - 1) * s + (s - 1) = h - 1
    <3>1. PICK g \in Int : g = (c - 1) * s
      BY <1>3, <1>4
    <3>2. g + s = h
      BY <1>3, <1>4, <1>5, <3>1
    <3> QED
      BY <1>4, <1>5, <3>1, <3>2
  <2>3. PICK x \in Int : x = k * f
    BY <1>3, <1>6
  <2>4. SampleIndex(k + 1, 0, 0) = (k + 1) * f + 2 * (0 * s + 0) + 1
    BY <1>2, <1>7 DEF SampleIndex
  <2>5. (k + 1) * f = x + f
    BY <1>3, <1>6, <2>3
  <2>6. 0 * s = 0
    BY <1>4
  <2> QED
    BY <1>5, <1>6, <2>1, <2>2, <2>3, <2>4, <2>5, <2>6
<1>10. ASSUME NEW k \in 0 .. fc - 1 PROVE k * f + f <= f * fc
  <2>1. PICK j \in Nat : fc = (k + 1) + j
    BY <1>3
  <2>2. f * fc = f * (k + 1) + f * j
    BY <1>6, <2>1
  <2>3. f * (k + 1) = k * f + f /\ f * j \in Nat /\ k * f \in Nat
    BY <1>3, <1>6, <2>1
  <2> QED
    BY <1>6, <2>2, <2>3
<1>11. ASSUME NEW k \in 0 .. fc - 1
       PROVE  /\ SampleIndex(k, c - 1, s - 1) < audio.sample_count
              /\ SampleIndex(k, c - 1, s - 1) < SampleIndex(k + 1, 0, 0)
  <2>1. PICK x \in Int, y \in Int : x = k * f /\ y = f * fc
    BY <1>3, <1>6
  <2>2. x + f <= y /\ y <= audio.sample_count
    BY <1>8, <1>10, <2>1
  <2> QED
    BY <1>6, <1>8, <1>9, <2>1, <2>2
<1> QED
  BY <1>2, <1>11 DEF SamplesInBounds

LEMMA PlaysOnTime ==
  ASSUME SoundInv
  PROVE  PlayedOnTime
<1> SUFFICES ASSUME sound = "played", commands > 1 \/ card = DefaultRate, ProductFits(card)
    PROVE  /\ audio.samples_per_bit * 10000 <= base_time * card + 5000
           /\ base_time * card <= audio.samples_per_bit * 10000 + 5000
  BY DEF PlayedOnTime
<1>1. audio.samples_per_bit = SamplesPerBit(card)
  BY DEF SoundInv, AlsaInv, FirstRate
<1>2. PICK s, b, c : s = audio.samples_per_bit /\ b = base_time /\ c = card
  OBVIOUS
<1>3. b \in Nat /\ c \in Nat
  BY <1>2, Widths DEF SoundInv, RawInv, AlsaInv
<1>4. PICK x \in Nat : x = b * c
  BY <1>3
<1>5. s = (25 * x + 125000) \div 250000
  <2>1. x <= 42949672
    BY <1>2, <1>4 DEF ProductFits
  <2>2. (25 * x) % 1073741824 = 25 * x
    BY <1>4, <2>1
  <2> QED
    BY <1>1, <1>2, <1>4, <2>2 DEF SamplesPerBit, Product
<1>6. s * 10000 <= x + 5000 /\ x <= s * 10000 + 5000
  BY <1>4, <1>5
<1> QED
  BY <1>2, <1>4, <1>6

-----------------------------------------------------------------------------
LEMMA ConcatIndex ==
  ASSUME NEW S, NEW a \in Seq(S), NEW b \in Seq(S), NEW t, t = a \o b
  PROVE  /\ t \in Seq(S) /\ Len(t) = Len(a) + Len(b)
         /\ \A n \in 1 .. Len(a) : t[n] = a[n]
         /\ \A n \in 1 .. Len(b) : t[Len(a) + n] = b[n]
<1>1. Len(a) \in Nat /\ Len(b) \in Nat
  OBVIOUS
<1>2. /\ t \in Seq(S) /\ Len(t) = Len(a) + Len(b)
      /\ \A i \in 1 .. Len(a) + Len(b) : t[i] = IF i <= Len(a) THEN a[i] ELSE b[i - Len(a)]
  BY ConcatProperties
<1>3. ASSUME NEW n \in 1 .. Len(a) PROVE t[n] = a[n]
  BY <1>1, <1>2
<1>4. ASSUME NEW n \in 1 .. Len(b) PROVE t[Len(a) + n] = b[n]
  <2>1. PICK i \in 1 .. Len(a) + Len(b) : i = Len(a) + n /\ ~ (i <= Len(a)) /\ i - Len(a) = n
    BY <1>1
  <2> QED
    BY <1>2, <2>1
<1> QED
  BY <1>2, <1>3, <1>4

(***************************************************************************)
(* Join puts two sequences of runs together: either one after the other,   *)
(* or with the last of one and the first of the other made into one.       *)
(***************************************************************************)
Touch(r, s) == r # << >> /\ s # << >> /\ r[Len(r)].level = s[1].level

Joined(t, r, s) ==
    /\ t \in Seq(SegmentSet) /\ Len(t) = Len(r) + Len(s) - 1
    /\ \A n \in 1 .. Len(r) - 1 : t[n] = r[n]
    /\ t[Len(r)].level = r[Len(r)].level /\ t[Len(r)].time = r[Len(r)].time + s[1].time
    /\ \A n \in 2 .. Len(s) : t[Len(r) + n - 1] = s[n]

LEMMA JoinTouching ==
  ASSUME NEW r \in Seq(SegmentSet), NEW s \in Seq(SegmentSet), Touch(r, s)
  PROVE  Joined(Join(r, s), r, s)
<1> DEFINE x == Segment(r[Len(r)].level, r[Len(r)].time + s[1].time)
           a == SubSeq(r, 1, Len(r) - 1)
           c == Tail(s)
<1>1. Len(r) \in Nat /\ Len(s) \in Nat /\ Len(r) >= 1 /\ Len(s) >= 1
  BY DEF Touch
<1>2. r[Len(r)] \in SegmentSet /\ s[1] \in SegmentSet
  BY <1>1
<1>3. x \in SegmentSet /\ x.level = r[Len(r)].level /\ x.time = r[Len(r)].time + s[1].time
  BY <1>2 DEF SegmentSet, Segment
<1>4. Join(r, s) = (a \o <<x>>) \o c
  <2>1. Last(r).level = Head(s).level
    BY DEF Touch, Last
  <2>2. x = Segment(Last(r).level, Last(r).time + Head(s).time) /\ Front(r) = a
    BY DEF Touch, Last, Front
  <2> HIDE DEF a, c, x
  <2>3. Join(r, s) = Front(r) \o <<x>> \o c
    BY <2>1, <2>2 DEF Join, Touch, c
  <2> QED
    BY <2>2, <2>3
<1>5. a \in Seq(SegmentSet) /\ Len(a) = Len(r) - 1 /\ \A n \in 1 .. Len(r) - 1 : a[n] = r[n]
  <2>1. PICK k \in Nat : k = Len(r) - 1
    BY <1>1
  <2>2. \A i \in 1 .. k : r[i] \in SegmentSet
    BY <1>1, <2>1
  <2>3. a = SubSeq(r, 1, k)
    BY <2>1
  <2> HIDE DEF a
  <2>4. /\ a \in Seq(SegmentSet) /\ Len(a) = IF 1 <= k THEN k - 1 + 1 ELSE 0
        /\ \A i \in 1 .. k - 1 + 1 : a[i] = r[1 + i - 1]
    BY <2>2, <2>3, SubSeqProperties
  <2>5. Len(a) = k /\ \A n \in 1 .. k : a[n] = r[n]
    BY <2>4
  <2> QED
    BY <2>1, <2>4, <2>5
<1>6. c \in Seq(SegmentSet) /\ Len(c) = Len(s) - 1 /\ \A n \in 1 .. Len(s) - 1 : c[n] = s[n + 1]
  <2>1. s # << >>
    BY DEF Touch
  <2> QED
    BY <2>1, HeadTailProperties
<1> HIDE DEF a, c, x
<1>7. PICK ax : ax = a \o <<x>>
  OBVIOUS
<1>8. /\ ax \in Seq(SegmentSet) /\ Len(ax) = Len(r) /\ ax[Len(r)] = x
      /\ \A n \in 1 .. Len(r) - 1 : ax[n] = r[n]
  BY <1>1, <1>3, <1>5, <1>7
<1>9. PICK t : t = ax \o c
  OBVIOUS
<1>10. /\ t \in Seq(SegmentSet) /\ Len(t) = Len(r) + (Len(s) - 1)
       /\ \A n \in 1 .. Len(r) : t[n] = ax[n]
       /\ \A n \in 1 .. Len(s) - 1 : t[Len(r) + n] = c[n]
  <2>1. /\ t \in Seq(SegmentSet) /\ Len(t) = Len(ax) + Len(c)
        /\ \A n \in 1 .. Len(ax) : t[n] = ax[n]
        /\ \A n \in 1 .. Len(c) : t[Len(ax) + n] = c[n]
    <3>1. ax \in Seq(SegmentSet) /\ c \in Seq(SegmentSet) /\ t = ax \o c
      BY <1>6, <1>8, <1>9
    <3> HIDE <1>1, <1>2
    <3> QED
      BY <3>1, ConcatIndex
  <2> QED
    BY <1>6, <1>8, <2>1
<1>11. \A n \in 1 .. Len(r) - 1 : t[n] = r[n]
  BY <1>1, <1>8, <1>10
<1>12. t[Len(r)] = x
  BY <1>1, <1>8, <1>10
<1>13. ASSUME NEW n \in 2 .. Len(s) PROVE t[Len(r) + n - 1] = s[n]
  <2>1. PICK m \in 1 .. Len(s) - 1 : n = m + 1
    BY <1>1
  <2>2. Len(r) + n - 1 = Len(r) + m
    BY <1>1, <2>1
  <2> QED
    BY <1>6, <1>10, <2>1, <2>2
<1>14. Len(t) = Len(r) + Len(s) - 1
  BY <1>1, <1>10
<1> QED
  BY <1>3, <1>4, <1>7, <1>9, <1>10, <1>11, <1>12, <1>13, <1>14 DEF Joined

LEMMA JoinApart ==
  ASSUME NEW r \in Seq(SegmentSet), NEW s \in Seq(SegmentSet), ~ Touch(r, s)
  PROVE  Join(r, s) = r \o s
<1>1. ~ (r # << >> /\ s # << >> /\ Last(r).level = Head(s).level)
  BY DEF Touch, Last
<1> QED
  BY <1>1 DEF Join

LEMMA JoinType ==
  ASSUME NEW r \in Seq(SegmentSet), NEW s \in Seq(SegmentSet)
  PROVE  Join(r, s) \in Seq(SegmentSet)
<1>1. CASE Touch(r, s)
  BY <1>1, JoinTouching DEF Joined
<1>2. CASE ~ Touch(r, s)
  <2>1. r \o s \in Seq(SegmentSet)
    OBVIOUS
  <2> QED
    BY <1>2, <2>1, JoinApart
<1> QED
  BY <1>1, <1>2

(***************************************************************************)
(* The recursive function in the definition of Runs: there is one, and     *)
(* what it does on an interval.                                            *)
(***************************************************************************)
Single(x) == IF x.time = 0 THEN << >> ELSE <<x>>

IsMerging(g, w) ==
    g = [p \in Ends(w) |->
            IF p[1] >= p[2] THEN Single(w[p[1]])
            ELSE Join(g[<<p[1], Middle(p)>>], g[<<Middle(p) + 1, p[2]>>])]

MergingAt(g, h, w, a, b) ==
    /\ a >= b => g[<<a, b>>] = Single(w[a])
    /\ ~ (a >= b) => \E m \in a .. b - 1 :
          m = (a + b) \div 2 /\ g[<<a, b>>] = Join(h[<<a, m>>], h[<<m + 1, b>>])

LEMMA SingleType ==
  ASSUME NEW x \in SegmentSet
  PROVE  Single(x) \in Seq(SegmentSet)
<1>1. << >> \in Seq(SegmentSet) /\ <<x>> \in Seq(SegmentSet)
  OBVIOUS
<1> QED
  BY <1>1 DEF Single

MergeStep(h, w) ==
    [p \in Ends(w) |->
        IF p[1] >= p[2] THEN Single(w[p[1]])
        ELSE Join(h[<<p[1], Middle(p)>>], h[<<Middle(p) + 1, p[2]>>])]

LEMMA MiddleIn ==
  ASSUME NEW w \in Seq(SegmentSet), NEW p \in Ends(w), ~ (p[1] >= p[2])
  PROVE  /\ <<p[1], Middle(p)>> \in Ends(w) /\ <<Middle(p) + 1, p[2]>> \in Ends(w)
         /\ Middle(p) \in p[1] .. p[2] - 1
<1>1. PICK a \in 1 .. Len(w), b \in 1 .. Len(w) : p = <<a, b>> /\ p[1] = a /\ p[2] = b
  BY EndsOf
<1>2. Len(w) \in Nat /\ a \in Nat /\ b \in Nat /\ a < b
  BY <1>1
<1>3. PICK m : m = Middle(p)
  OBVIOUS
<1>4. m \in a .. b - 1
  BY <1>1, <1>2, <1>3, MiddleFacts DEF Middle
<1>5. m \in 1 .. Len(w) /\ m + 1 \in 1 .. Len(w)
  BY <1>2, <1>4
<1>6. <<a, m>> \in Ends(w) /\ <<m + 1, b>> \in Ends(w)
  BY <1>5, EndsOf
<1> QED
  BY <1>1, <1>3, <1>4, <1>6

LEMMA MergeStepAt ==
  ASSUME NEW w \in Seq(SegmentSet), NEW g, NEW h, g = MergeStep(h, w),
         NEW a \in 1 .. Len(w), NEW b \in 1 .. Len(w)
  PROVE  MergingAt(g, h, w, a, b)
<1> DEFINE p == <<a, b>>
<1>1. p \in Ends(w) /\ p[1] = a /\ p[2] = b
  BY EndsOf
<1>2. g[p] = IF p[1] >= p[2] THEN Single(w[p[1]])
             ELSE Join(h[<<p[1], Middle(p)>>], h[<<Middle(p) + 1, p[2]>>])
  <2> HIDE DEF p
  <2> QED
    BY <1>1 DEF MergeStep
<1>3. a >= b => g[p] = Single(w[a])
  BY <1>1, <1>2
<1>4. ASSUME ~ (a >= b)
      PROVE  \E m \in a .. b - 1 :
                m = (a + b) \div 2 /\ g[p] = Join(h[<<a, m>>], h[<<m + 1, b>>])
  <2>1. Middle(p) \in p[1] .. p[2] - 1
    BY <1>1, <1>4, MiddleIn
  <2>2. PICK m : m = Middle(p) /\ m = (a + b) \div 2
    BY <1>1 DEF Middle
  <2> HIDE DEF p
  <2>3. g[p] = Join(h[<<a, m>>], h[<<m + 1, b>>])
    BY <1>1, <1>2, <1>4, <2>2
  <2> QED
    BY <1>1, <2>1, <2>2, <2>3
<1> HIDE DEF p
<1> QED
  BY <1>3, <1>4 DEF MergingAt, p

Merges(w) == [Ends(w) -> Seq(SegmentSet)]

LEMMA MergeStepType ==
  ASSUME NEW w \in Seq(SegmentSet), NEW h \in Merges(w)
  PROVE  MergeStep(h, w) \in Merges(w)
<1> SUFFICES ASSUME NEW p \in Ends(w)
             PROVE  (IF p[1] >= p[2] THEN Single(w[p[1]])
                     ELSE Join(h[<<p[1], Middle(p)>>], h[<<Middle(p) + 1, p[2]>>]))
                        \in Seq(SegmentSet)
  BY DEF MergeStep, Merges
<1>1. CASE p[1] >= p[2]
  <2>1. p[1] \in 1 .. Len(w)
    BY EndsOf
  <2>2. w[p[1]] \in SegmentSet
    BY <2>1
  <2> QED
    BY <1>1, <2>2, SingleType
<1>2. CASE ~ (p[1] >= p[2])
  <2>1. PICK u, v : u = <<p[1], Middle(p)>> /\ v = <<Middle(p) + 1, p[2]>>
    OBVIOUS
  <2>2. u \in Ends(w) /\ v \in Ends(w)
    BY <1>2, <2>1, MiddleIn
  <2>3. h[u] \in Seq(SegmentSet) /\ h[v] \in Seq(SegmentSet)
    BY <2>2 DEF Merges
  <2>4. Join(h[u], h[v]) \in Seq(SegmentSet)
    BY <2>3, JoinType
  <2> QED
    BY <1>2, <2>1, <2>4
<1> QED
  BY <1>1, <1>2

Merged(r, w) ==
    /\ r \in [Nat -> Merges(w)]
    /\ r[0] = [p \in Ends(w) |-> Single(w[p[1]])]
    /\ \A n \in Nat : r[n + 1] = MergeStep(r[n], w)

LEMMA MergeSteps ==
  ASSUME NEW w \in Seq(SegmentSet)
  PROVE  \E r : Merged(r, w)
<1> DEFINE S == Merges(w)
           s0 == [p \in Ends(w) |-> Single(w[p[1]])]
           step == [q \in Nat \X S |-> MergeStep(q[2], w)]
<1>1. s0 \in S
  <2>1. ASSUME NEW p \in Ends(w) PROVE Single(w[p[1]]) \in Seq(SegmentSet)
    <3>1. p[1] \in 1 .. Len(w)
      BY EndsOf
    <3>2. w[p[1]] \in SegmentSet
      BY <3>1
    <3> QED
      BY <3>2, SingleType
  <2> QED
    BY <2>1 DEF Merges
<1> HIDE DEF S, s0
<1>2. \A h \in S : MergeStep(h, w) \in S
  BY MergeStepType DEF S
<1>3. step \in [Nat \X S -> S]
  <2>1. \A q \in Nat \X S : q[2] \in S
    OBVIOUS
  <2> QED
    BY <1>2, <2>1
<1>4. ASSUME NEW n \in Nat, NEW h \in S PROVE step[<<n, h>>] = MergeStep(h, w)
  <2> DEFINE q == <<n, h>>
  <2>1. q \in Nat \X S /\ q[2] = h
    OBVIOUS
  <2> HIDE DEF q
  <2>2. step[q] = MergeStep(q[2], w)
    BY <2>1
  <2> QED
    BY <2>1, <2>2 DEF q
<1> HIDE DEF step
<1>5. PICK r \in [Nat -> S] : IsRecursion(r, s0, step)
  BY <1>1, <1>3, Recursion
<1>6. ASSUME NEW n \in Nat PROVE r[n + 1] = MergeStep(r[n], w)
  <2>1. r[n + 1] = step[<<n, r[n]>>] /\ r[n] \in S
    BY <1>5 DEF IsRecursion
  <2> QED
    BY <1>4, <2>1
<1> QED
  BY <1>5, <1>6 DEF Merged, S, s0, IsRecursion

\* As many steps as the interval is long settle the value at it.
SettledAt(r, n, a, b) == r[n + 1][<<a, b>>] = r[n][<<a, b>>]

LEMMA MergeSettles ==
  ASSUME NEW w \in Seq(SegmentSet), NEW r, Merged(r, w)
  PROVE  \A n \in Nat : \A a, b \in 1 .. Len(w) : b - a <= n => SettledAt(r, n, a, b)
<1> DEFINE T == {n \in Nat : \A a, b \in 1 .. Len(w) : b - a <= n => SettledAt(r, n, a, b)}
<1>0. Len(w) \in Nat
  OBVIOUS
<1>1. ASSUME NEW n \in Nat, NEW a \in 1 .. Len(w), NEW b \in 1 .. Len(w)
      PROVE  MergingAt(r[n + 1], r[n], w, a, b)
  BY MergeStepAt DEF Merged
<1>2. ASSUME NEW n \in Nat, NEW a \in 1 .. Len(w), NEW b \in 1 .. Len(w), a >= b
      PROVE  r[n][<<a, b>>] = Single(w[a])
  <2>1. CASE n = 0
    <3> DEFINE p == <<a, b>>
    <3>1. p \in Ends(w) /\ p[1] = a
      BY EndsOf
    <3> HIDE DEF p
    <3>2. r[0][p] = Single(w[p[1]])
      BY <3>1 DEF Merged
    <3> QED
      BY <2>1, <3>1, <3>2 DEF p
  <2>2. CASE n # 0
    <3>1. PICK m \in Nat : n = m + 1
      BY <2>2
    <3>2. MergingAt(r[n], r[m], w, a, b)
      BY <1>1, <3>1
    <3> QED
      BY <1>2, <3>2 DEF MergingAt
  <2> QED
    BY <2>1, <2>2
<1>3. ASSUME NEW n \in Nat, NEW a \in 1 .. Len(w), NEW b \in 1 .. Len(w), a >= b
      PROVE  SettledAt(r, n, a, b)
  <2>1. n + 1 \in Nat
    OBVIOUS
  <2>2. r[n + 1][<<a, b>>] = Single(w[a]) /\ r[n][<<a, b>>] = Single(w[a])
    BY <1>2, <1>3, <2>1
  <2> QED
    BY <2>2 DEF SettledAt
<1>4. 0 \in T
  <2>1. ASSUME NEW a \in 1 .. Len(w), NEW b \in 1 .. Len(w), b - a <= 0 PROVE a >= b
    BY <1>0, <2>1
  <2> QED
    BY <1>3, <2>1
<1>5. ASSUME NEW n \in Nat, n \in T PROVE n + 1 \in T
  <2> SUFFICES ASSUME NEW a \in 1 .. Len(w), NEW b \in 1 .. Len(w), b - a <= n + 1
               PROVE  SettledAt(r, n + 1, a, b)
    OBVIOUS
  <2>1. CASE a >= b
    BY <1>3, <2>1
  <2>2. CASE ~ (a >= b)
    <3>1. MergingAt(r[(n + 1) + 1], r[n + 1], w, a, b) /\ MergingAt(r[n + 1], r[n], w, a, b)
      BY <1>1
    <3>2. PICK m \in a .. b - 1 :
             m = (a + b) \div 2 /\ r[(n + 1) + 1][<<a, b>>] = Join(r[n + 1][<<a, m>>], r[n + 1][<<m + 1, b>>])
      BY <2>2, <3>1 DEF MergingAt
    <3>3. r[n + 1][<<a, b>>] = Join(r[n][<<a, m>>], r[n][<<m + 1, b>>])
      BY <2>2, <3>1, <3>2 DEF MergingAt
    <3>4. m \in 1 .. Len(w) /\ m - a <= n
      BY <1>0, <3>2
    <3>5. SettledAt(r, n, a, m)
      BY <1>5, <3>4
    <3>6. PICK k \in 1 .. Len(w) : k = m + 1 /\ b - k <= n
      BY <1>0, <3>2
    <3>7. SettledAt(r, n, k, b)
      BY <1>5, <3>6
    <3> QED
      BY <3>2, <3>3, <3>5, <3>6, <3>7 DEF SettledAt
  <2> QED
    BY <2>1, <2>2
<1> HIDE DEF T
<1>6. Nat \subseteq T
  BY <1>4, <1>5, Induction
<1> QED
  BY <1>6 DEF T

LEMMA MergingExists ==
  ASSUME NEW w \in Seq(SegmentSet)
  PROVE  \E g : IsMerging(g, w)
<1>1. PICK r : Merged(r, w)
  BY MergeSteps
<1>2. PICK n \in Nat : n = Len(w)
  OBVIOUS
<1>3. r[n + 1] = MergeStep(r[n], w) /\ r[n] \in Merges(w) /\ r[n + 1] \in Merges(w)
  BY <1>1 DEF Merged
<1>4. ASSUME NEW p \in Ends(w) PROVE r[n + 1][p] = r[n][p]
  <2>1. PICK a \in 1 .. Len(w), b \in 1 .. Len(w) : p = <<a, b>>
    BY EndsOf
  <2>2. b - a <= n
    BY <1>2
  <2>3. SettledAt(r, n, a, b)
    BY <1>1, <2>2, MergeSettles
  <2> QED
    BY <2>1, <2>3 DEF SettledAt
<1>5. r[n + 1] = r[n]
  BY <1>3, <1>4 DEF Merges
<1>6. IsMerging(r[n], w)
  BY <1>3, <1>5 DEF IsMerging, MergeStep
<1> QED
  BY <1>6

LEMMA RunsDef ==
  ASSUME NEW w, w # << >>
  PROVE  Runs(w) = (CHOOSE g : IsMerging(g, w))[<<1, Len(w)>>]
BY DEF Runs, IsMerging, Ends, Middle, Single

\* Runs puts together what a function g says of the whole, and g of two halves.
Merging(g, w) ==
    \A a, b \in 1 .. Len(w) : MergingAt(g, g, w, a, b)

LEMMA RunsIs ==
  ASSUME NEW w \in Seq(SegmentSet), w # << >>
  PROVE  \E g : Merging(g, w) /\ Runs(w) = g[<<1, Len(w)>>]
<1>1. PICK g : g = CHOOSE h : IsMerging(h, w)
  OBVIOUS
<1>2. IsMerging(g, w)
  BY <1>1, MergingExists
<1>3. g = MergeStep(g, w)
  BY <1>2 DEF IsMerging, MergeStep
<1>4. Merging(g, w)
  BY <1>3, MergeStepAt DEF Merging
<1> QED
  BY <1>1, <1>4, RunsDef

(***************************************************************************)
(* Two sequences of segments that match: x as written in periods of b, w   *)
(* as meant.  Levels alternate, and a segment that is not used in one is   *)
(* not used in the other.                                                  *)
(***************************************************************************)
Fits(m, t, k, b) == m * b <= t /\ t < (m + k) * b
LevelAt(first, n) == IF n % 2 = 1 THEN first ELSE 1 - first

MatchAt(x, w, b, first, n) ==
    /\ x[n].level = LevelAt(first, n) /\ w[n].level = LevelAt(first, n)
    /\ Fits(x[n].time, w[n].time, 1, b)
    /\ x[n].time = 0 <=> w[n].time = 0

Match(x, w, b, first) ==
    /\ x \in Seq(SegmentSet) /\ w \in Seq(SegmentSet)
    /\ Len(x) = Len(w) /\ Len(x) % 2 = 0
    /\ \A n \in 1 .. Len(x) : MatchAt(x, w, b, first, n)

Used(w, n) == w[n].time # 0

\* No two segments of one level are missing that are not at an end.
NoGaps(w) ==
    \A n \in 2 .. Len(w) : n + 3 <= Len(w) => Used(w, n) \/ Used(w, n + 2)

\* p is the first and q the last segment in use from lo to hi.
FirstUsed(w, lo, hi, p) == p \in lo .. hi /\ Used(w, p) /\ \A n \in lo .. p - 1 : ~ Used(w, n)
LastUsed(w, lo, hi, q)  == q \in lo .. hi /\ Used(w, q) /\ \A n \in q + 1 .. hi : ~ Used(w, n)

\* Runs r and s that stand for each other; k says of how many segments a run is made.
Alike(r, s, k, b) ==
    /\ r \in Seq(SegmentSet) /\ s \in Seq(SegmentSet) /\ k \in Seq({1, 2})
    /\ Len(r) = Len(s) /\ Len(k) = Len(s)
    /\ \A n \in 1 .. Len(s) : r[n].level = s[n].level /\ Fits(r[n].time, s[n].time, k[n], b)

\* What the runs k, s of lo .. hi begin and end with.
Bounds(w, lo, hi, s, k, p, q) ==
    /\ FirstUsed(w, lo, hi, p) /\ s[1].level = w[p].level
    /\ LastUsed(w, lo, hi, q) /\ s[Len(s)].level = w[q].level
    /\ k[1] = 2 => p + 2 <= q /\ ~ Used(w, p + 1)
    /\ k[Len(s)] = 2 => p + 2 <= q /\ ~ Used(w, q - 1)
    /\ Len(s) = 1 /\ k[1] = 1 => p = q

AlikeOn(w, b, lo, hi, r, s, k) ==
    /\ Alike(r, s, k, b)
    /\ s = << >> => \A n \in lo .. hi : ~ Used(w, n)
    /\ s # << >> => \E p, q \in lo .. hi : Bounds(w, lo, hi, s, k, p, q)

LEMMA FitsTwo ==
  ASSUME NEW m \in Nat, NEW n \in Nat, NEW t \in Nat, NEW u \in Nat, NEW b \in Nat,
         Fits(m, t, 1, b), Fits(n, u, 1, b)
  PROVE  Fits(m + n, t + u, 2, b)
<1>1. PICK x \in Nat, y \in Nat : x = m * b /\ y = n * b
  OBVIOUS
<1>2. (m + 1) * b = x + b /\ (n + 1) * b = y + b
  <2>1. (m + 1) * b = m * b + 1 * b
    OBVIOUS
  <2>2. (n + 1) * b = n * b + 1 * b
    OBVIOUS
  <2> QED
    BY <1>1, <2>1, <2>2
<1>3. (m + n) * b = x + y
  <2>1. (m + n) * b = m * b + n * b
    OBVIOUS
  <2> QED
    BY <1>1, <2>1
<1>4. ((m + n) + 2) * b = (x + y) + 2 * b
  <2>1. ((m + n) + 2) * b = (m + n) * b + 2 * b
    OBVIOUS
  <2> QED
    BY <1>3, <2>1
<1>5. x <= t /\ t < x + b /\ y <= u /\ u < y + b
  BY <1>1, <1>2 DEF Fits
<1>6. x + y <= t + u /\ t + u < (x + y) + 2 * b
  BY <1>1, <1>5
<1> QED
  BY <1>3, <1>4, <1>6 DEF Fits

\* Runs of the same level are of the last segment used here and the first there.
LEMMA NeighboursJoined ==
  ASSUME NEW w \in Seq(SegmentSet), NEW first \in {0, 1}, NoGaps(w),
         \A n \in 1 .. Len(w) : w[n].level = LevelAt(first, n),
         NEW p \in 1 .. Len(w), NEW q \in 1 .. Len(w), q < p, w[p].level = w[q].level,
         \A n \in q + 1 .. p - 1 : ~ Used(w, n)
  PROVE  p = q + 2
<1>1. Len(w) \in Nat /\ p \in Nat /\ q \in Nat
  OBVIOUS
<1>2. p % 2 = q % 2
  BY <1>1 DEF LevelAt
<1>3. p # q + 1 /\ p # q + 3
  BY <1>1, <1>2
<1>4. ASSUME p > q + 3 PROVE FALSE
  <2>1. PICK n \in 2 .. Len(w) : n = q + 1 /\ n + 3 <= Len(w)
    BY <1>1, <1>4
  <2>2. n \in q + 1 .. p - 1 /\ n + 2 \in q + 1 .. p - 1
    BY <1>1, <1>4, <2>1
  <2> QED
    BY <2>1, <2>2 DEF NoGaps
<1> QED
  BY <1>1, <1>3, <1>4

LEMMA SegmentAt ==
  ASSUME NEW s \in Seq(SegmentSet), NEW n \in 1 .. Len(s)
  PROVE  s[n] \in SegmentSet /\ s[n].time \in Nat /\ s[n].level \in {0, 1}
<1>1. s[n] \in SegmentSet
  OBVIOUS
<1> QED
  BY <1>1 DEF SegmentSet

LEMMA LengthFacts ==
  ASSUME NEW S, NEW s \in Seq(S)
  PROVE  Len(s) \in Nat /\ (s # << >> <=> Len(s) >= 1)
OBVIOUS

\* One after the other.
LEMMA AlikeApart ==
  ASSUME NEW b \in Nat, NEW r, NEW s, NEW k, NEW rr, NEW ss, NEW kk,
         Alike(r, s, k, b), Alike(rr, ss, kk, b)
  PROVE  Alike(r \o rr, s \o ss, k \o kk, b)
<1>1. PICK R, S, K : R = r \o rr /\ S = s \o ss /\ K = k \o kk
  OBVIOUS
<1>2. PICK l \in Nat, ll \in Nat :
         l = Len(s) /\ ll = Len(ss) /\ l = Len(r) /\ ll = Len(rr) /\ l = Len(k) /\ ll = Len(kk)
  BY DEF Alike
<1>3. /\ R \in Seq(SegmentSet) /\ Len(R) = l + ll
      /\ \A n \in 1 .. l : R[n] = r[n]
      /\ \A n \in 1 .. ll : R[l + n] = rr[n]
  <2>1. r \in Seq(SegmentSet) /\ rr \in Seq(SegmentSet)
    BY DEF Alike
  <2>2. /\ R \in Seq(SegmentSet) /\ Len(R) = Len(r) + Len(rr)
        /\ \A n \in 1 .. Len(r) : R[n] = r[n]
        /\ \A n \in 1 .. Len(rr) : R[Len(r) + n] = rr[n]
    BY <1>1, <2>1, ConcatIndex
  <2> QED
    BY <1>2, <2>2
<1>4. /\ S \in Seq(SegmentSet) /\ Len(S) = l + ll
      /\ \A n \in 1 .. l : S[n] = s[n]
      /\ \A n \in 1 .. ll : S[l + n] = ss[n]
  <2>1. s \in Seq(SegmentSet) /\ ss \in Seq(SegmentSet)
    BY DEF Alike
  <2>2. /\ S \in Seq(SegmentSet) /\ Len(S) = Len(s) + Len(ss)
        /\ \A n \in 1 .. Len(s) : S[n] = s[n]
        /\ \A n \in 1 .. Len(ss) : S[Len(s) + n] = ss[n]
    BY <1>1, <2>1, ConcatIndex
  <2> QED
    BY <1>2, <2>2
<1>5. /\ K \in Seq({1, 2}) /\ Len(K) = l + ll
      /\ \A n \in 1 .. l : K[n] = k[n]
      /\ \A n \in 1 .. ll : K[l + n] = kk[n]
  <2>1. k \in Seq({1, 2}) /\ kk \in Seq({1, 2})
    BY DEF Alike
  <2>2. /\ K \in Seq({1, 2}) /\ Len(K) = Len(k) + Len(kk)
        /\ \A n \in 1 .. Len(k) : K[n] = k[n]
        /\ \A n \in 1 .. Len(kk) : K[Len(k) + n] = kk[n]
    BY <1>1, <2>1, ConcatIndex
  <2> QED
    BY <1>2, <2>2
<1>6. ASSUME NEW n \in 1 .. l + ll
      PROVE  R[n].level = S[n].level /\ Fits(R[n].time, S[n].time, K[n], b)
  <2>1. CASE n <= l
    <3>1. n \in 1 .. l
      BY <1>2, <2>1
    <3>2. r[n].level = s[n].level /\ Fits(r[n].time, s[n].time, k[n], b)
      BY <1>2, <3>1 DEF Alike
    <3>3. R[n] = r[n] /\ S[n] = s[n] /\ K[n] = k[n]
      BY <1>3, <1>4, <1>5, <3>1
    <3> QED
      BY <3>2, <3>3
  <2>2. CASE ~ (n <= l)
    <3>1. PICK m \in 1 .. ll : n = l + m
      BY <1>2, <2>2
    <3>2. rr[m].level = ss[m].level /\ Fits(rr[m].time, ss[m].time, kk[m], b)
      BY <1>2, <3>1 DEF Alike
    <3>3. R[n] = rr[m] /\ S[n] = ss[m] /\ K[n] = kk[m]
      BY <1>3, <1>4, <1>5, <3>1
    <3> QED
      BY <3>2, <3>3
  <2> QED
    BY <2>1, <2>2
<1>7. Alike(R, S, K, b)
  BY <1>3, <1>4, <1>5, <1>6 DEF Alike
<1> QED
  BY <1>1, <1>7

\* The counts of runs that are joined.
JoinedCounts(k, kk) ==
    [n \in 1 .. Len(k) + Len(kk) - 1 |->
        IF n < Len(k) THEN k[n] ELSE IF n = Len(k) THEN 2 ELSE kk[n - Len(k) + 1]]

CountsJoined(K, k, kk) ==
    /\ K \in Seq({1, 2}) /\ Len(K) = Len(k) + Len(kk) - 1
    /\ \A n \in 1 .. Len(k) - 1 : K[n] = k[n]
    /\ K[Len(k)] = 2
    /\ \A n \in 2 .. Len(kk) : K[Len(k) + n - 1] = kk[n]

LEMMA JoinedCountsFacts ==
  ASSUME NEW k \in Seq({1, 2}), NEW kk \in Seq({1, 2}), k # << >>, kk # << >>,
         NEW K, K = JoinedCounts(k, kk)
  PROVE  CountsJoined(K, k, kk)
<1>1. PICK l, ll : l = Len(k) /\ ll = Len(kk)
  OBVIOUS
<1>2. l \in Nat /\ ll \in Nat /\ l >= 1 /\ ll >= 1
  BY <1>1
<1>3. /\ \A n \in 1 .. l : k[n] \in {1, 2}
      /\ \A n \in 1 .. ll : kk[n] \in {1, 2}
  BY <1>1
<1>4. K = [n \in 1 .. l + ll - 1 |-> IF n < l THEN k[n] ELSE IF n = l THEN 2 ELSE kk[n - l + 1]]
  BY <1>1 DEF JoinedCounts
<1>5. \A n \in 1 .. l + ll - 1 : K[n] = IF n < l THEN k[n] ELSE IF n = l THEN 2 ELSE kk[n - l + 1]
  BY <1>4
<1>6. \A n \in 1 .. l - 1 : K[n] = k[n]
  BY <1>2, <1>5
<1>7. K[l] = 2
  BY <1>2, <1>5
<1>8. ASSUME NEW n \in 2 .. ll PROVE K[l + n - 1] = kk[n]
  <2>1. PICK m \in 1 .. l + ll - 1 : m = l + n - 1 /\ ~ (m < l) /\ m # l /\ m - l + 1 = n
    BY <1>2
  <2> QED
    BY <1>5, <2>1
<1>9. ASSUME NEW n \in 1 .. l + ll - 1 PROVE K[n] \in {1, 2}
  <2>1. CASE n < l
    BY <1>2, <1>3, <1>5, <2>1
  <2>2. CASE n = l
    BY <1>7, <2>2
  <2>3. CASE n > l
    <3>1. PICK m \in 2 .. ll : n = l + m - 1
      BY <1>2, <2>3
    <3>2. m \in 1 .. ll
      BY <1>2
    <3> QED
      BY <1>3, <1>8, <3>1, <3>2
  <2> QED
    BY <1>2, <2>1, <2>2, <2>3
<1>10. K \in Seq({1, 2}) /\ Len(K) = l + ll - 1
  BY <1>2, <1>4, <1>9
<1> QED
  BY <1>1, <1>6, <1>7, <1>8, <1>10 DEF CountsJoined

LEMMA AlikeTouching ==
  ASSUME NEW b \in Nat, NEW r, NEW s, NEW k, NEW rr, NEW ss, NEW kk,
         Alike(r, s, k, b), Alike(rr, ss, kk, b), s # << >>, ss # << >>,
         k[Len(s)] = 1, kk[1] = 1, NEW R, NEW S, Joined(R, r, rr), Joined(S, s, ss)
  PROVE  Alike(R, S, JoinedCounts(k, kk), b)
<1>1. PICK K : K = JoinedCounts(k, kk)
  OBVIOUS
<1>2. PICK l \in Nat, ll \in Nat :
         l = Len(s) /\ ll = Len(ss) /\ l = Len(r) /\ ll = Len(rr) /\ l = Len(k) /\ ll = Len(kk)
  BY DEF Alike
<1>3. l >= 1 /\ ll >= 1
  <2>1. s \in Seq(SegmentSet) /\ ss \in Seq(SegmentSet)
    BY DEF Alike
  <2>2. Len(s) >= 1 /\ Len(ss) >= 1
    BY <2>1, LengthFacts
  <2> QED
    BY <1>2, <2>2
<1>4. /\ K \in Seq({1, 2}) /\ Len(K) = l + ll - 1
      /\ \A n \in 1 .. l - 1 : K[n] = k[n]
      /\ K[l] = 2
      /\ \A n \in 2 .. ll : K[l + n - 1] = kk[n]
  <2>1. k \in Seq({1, 2}) /\ kk \in Seq({1, 2})
    BY DEF Alike
  <2>2. k # << >> /\ kk # << >>
    BY <1>2, <1>3
  <2>3. CountsJoined(K, k, kk)
    BY <1>1, <2>1, <2>2, JoinedCountsFacts
  <2>4. Len(k) = l /\ Len(kk) = ll
    BY <1>2
  <2> QED
    BY <2>3, <2>4 DEF CountsJoined
<1>5. /\ R \in Seq(SegmentSet) /\ Len(R) = l + ll - 1
      /\ \A n \in 1 .. l - 1 : R[n] = r[n]
      /\ R[l].level = r[l].level /\ R[l].time = r[l].time + rr[1].time
      /\ \A n \in 2 .. ll : R[l + n - 1] = rr[n]
  BY <1>2 DEF Joined
<1>6. /\ S \in Seq(SegmentSet) /\ Len(S) = l + ll - 1
      /\ \A n \in 1 .. l - 1 : S[n] = s[n]
      /\ S[l].level = s[l].level /\ S[l].time = s[l].time + ss[1].time
      /\ \A n \in 2 .. ll : S[l + n - 1] = ss[n]
  BY <1>2 DEF Joined
<1>7. /\ \A n \in 1 .. l : r[n].level = s[n].level /\ Fits(r[n].time, s[n].time, k[n], b)
      /\ \A n \in 1 .. ll : rr[n].level = ss[n].level /\ Fits(rr[n].time, ss[n].time, kk[n], b)
  BY <1>2 DEF Alike
<1>8. ASSUME NEW n \in 1 .. l + ll - 1
      PROVE  R[n].level = S[n].level /\ Fits(R[n].time, S[n].time, K[n], b)
  <2>1. CASE n < l
    <3>1. n \in 1 .. l - 1 /\ n \in 1 .. l
      BY <1>2, <2>1
    <3> QED
      BY <1>4, <1>5, <1>6, <1>7, <3>1
  <2>2. CASE n = l
    <3>1. l \in 1 .. l /\ 1 \in 1 .. ll
      BY <1>3
    <3>2. Fits(r[l].time, s[l].time, 1, b) /\ Fits(rr[1].time, ss[1].time, 1, b)
      BY <1>2, <1>7, <3>1
    <3>3. /\ r[l].time \in Nat /\ s[l].time \in Nat /\ rr[1].time \in Nat /\ ss[1].time \in Nat
      <4>1. /\ r \in Seq(SegmentSet) /\ s \in Seq(SegmentSet)
            /\ rr \in Seq(SegmentSet) /\ ss \in Seq(SegmentSet)
        BY DEF Alike
      <4> QED
        BY <1>2, <3>1, <4>1, SegmentAt
    <3>4. Fits(r[l].time + rr[1].time, s[l].time + ss[1].time, 2, b)
      BY <3>2, <3>3, FitsTwo
    <3>5. r[l].level = s[l].level
      BY <1>7, <3>1
    <3> QED
      BY <1>4, <1>5, <1>6, <2>2, <3>4, <3>5
  <2>3. CASE n > l
    <3>1. PICK m \in 2 .. ll : n = l + m - 1
      BY <1>2, <1>3, <2>3
    <3>2. m \in 1 .. ll
      BY <1>2
    <3>3. R[n] = rr[m] /\ S[n] = ss[m] /\ K[n] = kk[m]
      BY <1>4, <1>5, <1>6, <3>1
    <3> QED
      BY <1>7, <3>2, <3>3
  <2> QED
    BY <1>2, <2>1, <2>2, <2>3
<1>9. Alike(R, S, K, b)
  BY <1>2, <1>4, <1>5, <1>6, <1>8 DEF Alike
<1> QED
  BY <1>1, <1>9

\* A frame as it is meant: its levels alternate, and it has no gaps.
Alternates(w, first) ==
    /\ w \in Seq(SegmentSet) /\ NoGaps(w)
    /\ \A n \in 1 .. Len(w) : w[n].level = LevelAt(first, n)

LEMMA FirstUsedWider ==
  ASSUME NEW w, NEW lo \in Nat, NEW m \in Nat, NEW hi \in Nat, lo <= m, m < hi, NEW p
  PROVE  /\ FirstUsed(w, lo, m, p) => FirstUsed(w, lo, hi, p)
         /\ FirstUsed(w, m + 1, hi, p) /\ (\A n \in lo .. m : ~ Used(w, n)) => FirstUsed(w, lo, hi, p)
<1>1. ASSUME FirstUsed(w, lo, m, p) PROVE FirstUsed(w, lo, hi, p)
  BY <1>1 DEF FirstUsed
<1>2. ASSUME FirstUsed(w, m + 1, hi, p), \A n \in lo .. m : ~ Used(w, n) PROVE FirstUsed(w, lo, hi, p)
  <2>1. p \in m + 1 .. hi /\ Used(w, p) /\ \A n \in m + 1 .. p - 1 : ~ Used(w, n)
    BY <1>2 DEF FirstUsed
  <2>2. ASSUME NEW n \in lo .. p - 1 PROVE ~ Used(w, n)
    <3>1. n \in lo .. m \/ n \in m + 1 .. p - 1
      BY <2>1
    <3> QED
      BY <1>2, <2>1, <3>1
  <2>3. p \in lo .. hi
    BY <2>1
  <2> QED
    BY <2>1, <2>2, <2>3 DEF FirstUsed
<1> QED
  BY <1>1, <1>2

LEMMA LastUsedWider ==
  ASSUME NEW w, NEW lo \in Nat, NEW m \in Nat, NEW hi \in Nat, lo <= m, m < hi, NEW q
  PROVE  /\ LastUsed(w, m + 1, hi, q) => LastUsed(w, lo, hi, q)
         /\ LastUsed(w, lo, m, q) /\ (\A n \in m + 1 .. hi : ~ Used(w, n)) => LastUsed(w, lo, hi, q)
<1>1. ASSUME LastUsed(w, m + 1, hi, q) PROVE LastUsed(w, lo, hi, q)
  BY <1>1 DEF LastUsed
<1>2. ASSUME LastUsed(w, lo, m, q), \A n \in m + 1 .. hi : ~ Used(w, n) PROVE LastUsed(w, lo, hi, q)
  <2>1. q \in lo .. m /\ Used(w, q) /\ \A n \in q + 1 .. m : ~ Used(w, n)
    BY <1>2 DEF LastUsed
  <2>2. ASSUME NEW n \in q + 1 .. hi PROVE ~ Used(w, n)
    <3>1. n \in q + 1 .. m \/ n \in m + 1 .. hi
      BY <2>1
    <3> QED
      BY <1>2, <2>1, <3>1
  <2>3. q \in lo .. hi
    BY <2>1
  <2> QED
    BY <2>1, <2>2, <2>3 DEF LastUsed
<1> QED
  BY <1>1, <1>2

LEMMA EmptyConcat ==
  ASSUME NEW S, NEW s \in Seq(S)
  PROVE  << >> \o s = s /\ s \o << >> = s
BY ConcatEmptySeq

LEMMA NotTouching == ASSUME NEW s PROVE ~ Touch(<< >>, s) /\ ~ Touch(s, << >>)
BY DEF Touch

LEMMA AlikeLengths ==
  ASSUME NEW r, NEW s, NEW k, NEW b, Alike(r, s, k, b)
  PROVE  /\ r \in Seq(SegmentSet) /\ s \in Seq(SegmentSet) /\ k \in Seq({1, 2})
         /\ Len(s) \in Nat /\ Len(r) = Len(s) /\ Len(k) = Len(s)
         /\ (s # << >> <=> Len(s) >= 1) /\ (r = << >> <=> s = << >>) /\ (k = << >> <=> s = << >>)
<1>1. /\ r \in Seq(SegmentSet) /\ s \in Seq(SegmentSet) /\ k \in Seq({1, 2})
      /\ Len(r) = Len(s) /\ Len(k) = Len(s)
  BY DEF Alike
<1>2. Len(s) \in Nat /\ (s # << >> <=> Len(s) >= 1)
  BY <1>1, LengthFacts
<1>3. r # << >> <=> Len(r) >= 1
  BY <1>1, LengthFacts
<1>4. k # << >> <=> Len(k) >= 1
  BY <1>1, LengthFacts
<1> QED
  BY <1>1, <1>2, <1>3, <1>4

\* Nothing in use on the left, or on the right.
LEMMA AlikeLeftEmpty ==
  ASSUME NEW b \in Nat, NEW w, NEW lo \in Nat, NEW m \in Nat, NEW hi \in Nat, lo <= m, m < hi,
         NEW r, NEW s, NEW k, NEW rr, NEW ss, NEW kk,
         AlikeOn(w, b, lo, m, r, s, k), AlikeOn(w, b, m + 1, hi, rr, ss, kk), s = << >>
  PROVE  AlikeOn(w, b, lo, hi, Join(r, rr), Join(s, ss), kk)
<1>1. Alike(r, s, k, b) /\ Alike(rr, ss, kk, b) /\ \A n \in lo .. m : ~ Used(w, n)
  BY DEF AlikeOn
<1>2. /\ r = << >> /\ rr \in Seq(SegmentSet) /\ ss \in Seq(SegmentSet)
      /\ r \in Seq(SegmentSet) /\ s \in Seq(SegmentSet)
  BY <1>1, AlikeLengths
<1>3. Join(r, rr) = r \o rr /\ Join(s, ss) = s \o ss
  BY <1>2, NotTouching, JoinApart
<1>4. Join(r, rr) = rr /\ Join(s, ss) = ss
  BY <1>2, <1>3, EmptyConcat
<1>5. ASSUME ss = << >> PROVE \A n \in lo .. hi : ~ Used(w, n)
  <2>1. \A n \in m + 1 .. hi : ~ Used(w, n)
    BY <1>5 DEF AlikeOn
  <2>2. \A n \in lo .. hi : n \in lo .. m \/ n \in m + 1 .. hi
    OBVIOUS
  <2> QED
    BY <1>1, <2>1, <2>2
<1>6. ASSUME ss # << >> PROVE \E p, q \in lo .. hi : Bounds(w, lo, hi, ss, kk, p, q)
  <2>1. PICK p \in m + 1 .. hi, q \in m + 1 .. hi : Bounds(w, m + 1, hi, ss, kk, p, q)
    BY <1>6 DEF AlikeOn
  <2>2. FirstUsed(w, lo, hi, p)
    BY <1>1, <2>1, FirstUsedWider DEF Bounds
  <2>3. LastUsed(w, lo, hi, q)
    BY <2>1, LastUsedWider DEF Bounds
  <2>4. Bounds(w, lo, hi, ss, kk, p, q)
    BY <2>1, <2>2, <2>3 DEF Bounds
  <2>5. p \in lo .. hi /\ q \in lo .. hi
    BY <2>2, <2>3 DEF FirstUsed, LastUsed
  <2> QED
    BY <2>4, <2>5
<1> QED
  BY <1>1, <1>4, <1>5, <1>6 DEF AlikeOn

LEMMA AlikeRightEmpty ==
  ASSUME NEW b \in Nat, NEW w, NEW lo \in Nat, NEW m \in Nat, NEW hi \in Nat, lo <= m, m < hi,
         NEW r, NEW s, NEW k, NEW rr, NEW ss, NEW kk,
         AlikeOn(w, b, lo, m, r, s, k), AlikeOn(w, b, m + 1, hi, rr, ss, kk), ss = << >>
  PROVE  AlikeOn(w, b, lo, hi, Join(r, rr), Join(s, ss), k)
<1>1. Alike(r, s, k, b) /\ Alike(rr, ss, kk, b) /\ \A n \in m + 1 .. hi : ~ Used(w, n)
  BY DEF AlikeOn
<1>2. /\ rr = << >> /\ r \in Seq(SegmentSet) /\ s \in Seq(SegmentSet)
      /\ rr \in Seq(SegmentSet) /\ ss \in Seq(SegmentSet)
  BY <1>1, AlikeLengths
<1>3. Join(r, rr) = r \o rr /\ Join(s, ss) = s \o ss
  BY <1>2, NotTouching, JoinApart
<1>4. Join(r, rr) = r /\ Join(s, ss) = s
  BY <1>2, <1>3, EmptyConcat
<1>5. ASSUME s = << >> PROVE \A n \in lo .. hi : ~ Used(w, n)
  <2>1. \A n \in lo .. m : ~ Used(w, n)
    BY <1>5 DEF AlikeOn
  <2>2. \A n \in lo .. hi : n \in lo .. m \/ n \in m + 1 .. hi
    OBVIOUS
  <2> QED
    BY <1>1, <2>1, <2>2
<1>6. ASSUME s # << >> PROVE \E p, q \in lo .. hi : Bounds(w, lo, hi, s, k, p, q)
  <2>1. PICK p \in lo .. m, q \in lo .. m : Bounds(w, lo, m, s, k, p, q)
    BY <1>6 DEF AlikeOn
  <2>2. FirstUsed(w, lo, hi, p)
    BY <2>1, FirstUsedWider DEF Bounds
  <2>3. LastUsed(w, lo, hi, q)
    BY <1>1, <2>1, LastUsedWider DEF Bounds
  <2>4. Bounds(w, lo, hi, s, k, p, q)
    BY <2>1, <2>2, <2>3 DEF Bounds
  <2>5. p \in lo .. hi /\ q \in lo .. hi
    BY <2>2, <2>3 DEF FirstUsed, LastUsed
  <2> QED
    BY <2>4, <2>5
<1> QED
  BY <1>1, <1>4, <1>5, <1>6 DEF AlikeOn

LEMMA EndsOfConcat ==
  ASSUME NEW S, NEW a \in Seq(S), NEW b \in Seq(S), a # << >>, b # << >>
  PROVE  /\ Len(a \o b) = Len(a) + Len(b) /\ (a \o b)[1] = a[1]
         /\ (a \o b)[Len(a \o b)] = b[Len(b)]
<1>1. PICK t : t = a \o b
  OBVIOUS
<1>2. Len(a) \in Nat /\ Len(b) \in Nat /\ Len(a) >= 1 /\ Len(b) >= 1
  BY LengthFacts
<1>3. /\ Len(t) = Len(a) + Len(b)
      /\ \A n \in 1 .. Len(a) : t[n] = a[n]
      /\ \A n \in 1 .. Len(b) : t[Len(a) + n] = b[n]
  BY <1>1, ConcatIndex
<1>4. 1 \in 1 .. Len(a) /\ Len(b) \in 1 .. Len(b)
  BY <1>2
<1> QED
  BY <1>1, <1>3, <1>4

LEMMA OneOfOne ==
  ASSUME NEW l \in Nat, NEW m \in Nat, l >= 1, m >= 1
  PROVE  l + m - 1 = 1 => l = 1
OBVIOUS

\* Runs of different levels meet.
LEMMA BoundsApart ==
  ASSUME NEW w, NEW lo \in Nat, NEW m \in Nat, NEW hi \in Nat, lo <= m, m < hi,
         NEW s \in Seq(SegmentSet), NEW ss \in Seq(SegmentSet), s # << >>, ss # << >>,
         NEW k \in Seq({1, 2}), NEW kk \in Seq({1, 2}), Len(k) = Len(s), Len(kk) = Len(ss),
         NEW p, NEW q, NEW pp, NEW qq,
         Bounds(w, lo, m, s, k, p, q), Bounds(w, m + 1, hi, ss, kk, pp, qq)
  PROVE  Bounds(w, lo, hi, s \o ss, k \o kk, p, qq)
<1>1. PICK S, K, l, ll : S = s \o ss /\ K = k \o kk /\ l = Len(s) /\ ll = Len(ss)
  OBVIOUS
<1>2. l \in Nat /\ l >= 1 /\ ll \in Nat /\ ll >= 1
  BY <1>1, LengthFacts
<1>3. Len(S) = l + ll /\ S[1] = s[1] /\ S[Len(S)] = ss[ll]
  BY <1>1, EndsOfConcat
<1>4. K[1] = k[1] /\ K[Len(S)] = kk[ll]
  <2>1. k # << >> /\ kk # << >>
    BY <1>1, <1>2
  <2>2. Len(K) = Len(k) + Len(kk) /\ K[1] = k[1] /\ K[Len(K)] = kk[Len(kk)]
    BY <1>1, <2>1, EndsOfConcat
  <2> QED
    BY <1>1, <1>3, <2>2
<1>5. /\ p \in lo .. m /\ q \in lo .. m /\ pp \in m + 1 .. hi /\ qq \in m + 1 .. hi
      /\ FirstUsed(w, lo, hi, p) /\ LastUsed(w, lo, hi, qq)
  BY FirstUsedWider, LastUsedWider DEF Bounds, FirstUsed, LastUsed
<1>6. S[1].level = w[p].level /\ S[Len(S)].level = w[qq].level
  BY <1>1, <1>3 DEF Bounds
<1>7. ASSUME K[1] = 2 PROVE p + 2 <= qq /\ ~ Used(w, p + 1)
  <2>1. p + 2 <= q /\ ~ Used(w, p + 1)
    BY <1>4, <1>7 DEF Bounds
  <2> QED
    BY <1>5, <2>1
<1>8. ASSUME K[Len(S)] = 2 PROVE p + 2 <= qq /\ ~ Used(w, qq - 1)
  <2>1. pp + 2 <= qq /\ ~ Used(w, qq - 1)
    BY <1>1, <1>4, <1>8 DEF Bounds
  <2> QED
    BY <1>5, <2>1
<1>9. Len(S) # 1
  BY <1>2, <1>3
<1>10. Bounds(w, lo, hi, S, K, p, qq)
  BY <1>5, <1>6, <1>7, <1>8, <1>9 DEF Bounds
<1> QED
  BY <1>1, <1>10

Meeting(w, lo, m, hi, s, k, p, q, ss, kk, pp, qq) ==
    /\ Touch(s, ss) /\ k[Len(s)] \in {1, 2} /\ kk[1] \in {1, 2}
    /\ Bounds(w, lo, m, s, k, p, q) /\ Bounds(w, m + 1, hi, ss, kk, pp, qq)

MeetingAt(w, s, k, q, kk, pp) ==
    pp = q + 2 /\ ~ Used(w, q + 1) /\ k[Len(s)] = 1 /\ kk[1] = 1

\* Runs of the same level meet: both are one segment, and one is missing between.
LEMMA BetweenUnused ==
  ASSUME NEW w, NEW lo \in Nat, NEW m \in Nat, NEW hi \in Nat, lo <= m, m < hi,
         NEW q, NEW pp, LastUsed(w, lo, m, q), FirstUsed(w, m + 1, hi, pp)
  PROVE  /\ q \in lo .. m /\ pp \in m + 1 .. hi
         /\ \A n \in q + 1 .. pp - 1 : ~ Used(w, n)
<1>1. q \in lo .. m /\ \A n \in q + 1 .. m : ~ Used(w, n)
  BY DEF LastUsed
<1>2. pp \in m + 1 .. hi /\ \A n \in m + 1 .. pp - 1 : ~ Used(w, n)
  BY DEF FirstUsed
<1>3. \A n \in q + 1 .. pp - 1 : n \in q + 1 .. m \/ n \in m + 1 .. pp - 1
  BY <1>1, <1>2
<1> QED
  BY <1>1, <1>2, <1>3

LEMMA MeetOfOneLevel ==
  ASSUME NEW w, NEW first \in {0, 1}, Alternates(w, first),
         NEW lo \in 1 .. Len(w), NEW m \in 1 .. Len(w), NEW hi \in 1 .. Len(w), lo <= m, m < hi,
         NEW s, NEW k, NEW p, NEW q, NEW ss, NEW kk, NEW pp, NEW qq,
         Meeting(w, lo, m, hi, s, k, p, q, ss, kk, pp, qq)
  PROVE  MeetingAt(w, s, k, q, kk, pp)
<1>0. /\ Touch(s, ss) /\ k[Len(s)] \in {1, 2} /\ kk[1] \in {1, 2}
      /\ Bounds(w, lo, m, s, k, p, q) /\ Bounds(w, m + 1, hi, ss, kk, pp, qq)
  BY DEF Meeting
<1>1. w \in Seq(SegmentSet) /\ NoGaps(w) /\ \A n \in 1 .. Len(w) : w[n].level = LevelAt(first, n)
  BY DEF Alternates
<1>2. Len(w) \in Nat /\ lo \in Nat /\ m \in Nat /\ hi \in Nat /\ 1 <= lo /\ hi <= Len(w)
  BY <1>1
<1>3. LastUsed(w, lo, m, q) /\ FirstUsed(w, m + 1, hi, pp)
  BY <1>0 DEF Bounds
<1>4. q \in lo .. m /\ pp \in m + 1 .. hi /\ \A n \in q + 1 .. pp - 1 : ~ Used(w, n)
  BY <1>2, <1>3, BetweenUnused
<1>5. w[pp].level = w[q].level
  BY <1>0 DEF Bounds, Touch
<1>6. q \in 1 .. Len(w) /\ pp \in 1 .. Len(w) /\ q < pp
  BY <1>2, <1>4
<1>7. pp = q + 2
  BY <1>1, <1>4, <1>5, <1>6, NeighboursJoined
<1>8. ~ Used(w, q + 1)
  BY <1>4, <1>7
<1>9. ASSUME k[Len(s)] = 2 PROVE FALSE
  <2>1. p + 2 <= q /\ ~ Used(w, q - 1) /\ p \in lo .. m
    BY <1>0, <1>9 DEF Bounds, FirstUsed
  <2>2. PICK n \in 2 .. Len(w) : n = q - 1 /\ n + 3 <= Len(w) /\ n + 2 = q + 1
    BY <1>2, <1>6, <1>7, <2>1
  <2> QED
    BY <1>1, <1>8, <2>1, <2>2 DEF NoGaps
<1>10. ASSUME kk[1] = 2 PROVE FALSE
  <2>1. pp + 2 <= qq /\ ~ Used(w, pp + 1) /\ qq \in m + 1 .. hi
    BY <1>0, <1>10 DEF Bounds, LastUsed
  <2>2. PICK n \in 2 .. Len(w) : n = q + 1 /\ n + 3 <= Len(w) /\ n + 2 = pp + 1
    BY <1>2, <1>6, <1>7, <2>1
  <2> QED
    BY <1>1, <1>8, <2>1, <2>2 DEF NoGaps
<1> QED
  BY <1>0, <1>7, <1>8, <1>9, <1>10 DEF MeetingAt

LEMMA BoundsTouching ==
  ASSUME NEW w, NEW lo \in Nat, NEW m \in Nat, NEW hi \in Nat, lo <= m, m < hi,
         NEW s \in Seq(SegmentSet), NEW ss \in Seq(SegmentSet),
         NEW k \in Seq({1, 2}), NEW kk \in Seq({1, 2}), Len(k) = Len(s), Len(kk) = Len(ss),
         NEW p, NEW q, NEW pp, NEW qq,
         Meeting(w, lo, m, hi, s, k, p, q, ss, kk, pp, qq), MeetingAt(w, s, k, q, kk, pp),
         NEW S, Joined(S, s, ss), NEW K, CountsJoined(K, k, kk)
  PROVE  Bounds(w, lo, hi, S, K, p, qq)
<1>0. /\ Touch(s, ss) /\ Bounds(w, lo, m, s, k, p, q) /\ Bounds(w, m + 1, hi, ss, kk, pp, qq)
      /\ pp = q + 2 /\ ~ Used(w, q + 1) /\ k[Len(s)] = 1 /\ kk[1] = 1
  BY DEF Meeting, MeetingAt
<1>1. PICK l, ll : l = Len(s) /\ ll = Len(ss)
  OBVIOUS
<1>2. l \in Nat /\ l >= 1 /\ ll \in Nat /\ ll >= 1
  BY <1>0, <1>1, LengthFacts DEF Touch
<1>3. /\ p \in lo .. m /\ q \in lo .. m /\ pp \in m + 1 .. hi /\ qq \in m + 1 .. hi
      /\ FirstUsed(w, lo, hi, p) /\ LastUsed(w, lo, hi, qq)
  BY <1>0, FirstUsedWider, LastUsedWider DEF Bounds, FirstUsed, LastUsed
<1>4. p <= q /\ pp <= qq
  <2>1. Used(w, p) /\ Used(w, q) /\ (\A n \in lo .. p - 1 : ~ Used(w, n))
    BY <1>0 DEF Bounds, FirstUsed, LastUsed
  <2>2. Used(w, pp) /\ Used(w, qq) /\ (\A n \in m + 1 .. pp - 1 : ~ Used(w, n))
    BY <1>0 DEF Bounds, FirstUsed, LastUsed
  <2>3. ~ (q \in lo .. p - 1) /\ ~ (qq \in m + 1 .. pp - 1)
    BY <2>1, <2>2
  <2> QED
    BY <1>3, <2>3
<1>5. /\ Len(S) = l + ll - 1 /\ \A n \in 1 .. l - 1 : S[n] = s[n]
      /\ S[l].level = s[l].level /\ \A n \in 2 .. ll : S[l + n - 1] = ss[n]
  BY <1>1 DEF Joined
<1>6. /\ \A n \in 1 .. l - 1 : K[n] = k[n]
      /\ K[l] = 2 /\ \A n \in 2 .. ll : K[l + n - 1] = kk[n]
  BY <1>1 DEF CountsJoined
<1>7. s[l].level = ss[1].level /\ s[1].level = w[p].level /\ ss[ll].level = w[qq].level
  BY <1>0, <1>1 DEF Touch, Bounds
<1>8. S[1].level = w[p].level /\ (K[1] = 2 => p + 2 <= qq /\ ~ Used(w, p + 1))
  <2>1. CASE l = 1
    <3>1. p = q
      BY <1>0, <1>1, <2>1 DEF Bounds
    <3> QED
      BY <1>0, <1>3, <1>4, <1>5, <1>7, <2>1, <3>1
  <2>2. CASE l # 1
    <3>1. 1 \in 1 .. l - 1
      BY <1>2, <2>2
    <3>2. S[1] = s[1] /\ K[1] = k[1]
      BY <1>5, <1>6, <3>1
    <3>3. k[1] = 2 => p + 2 <= q /\ ~ Used(w, p + 1)
      BY <1>0 DEF Bounds
    <3> QED
      BY <1>3, <1>7, <3>2, <3>3
  <2> QED
    BY <2>1, <2>2
<1>9. S[Len(S)].level = w[qq].level /\ (K[Len(S)] = 2 => p + 2 <= qq /\ ~ Used(w, qq - 1))
  <2>1. CASE ll = 1
    <3>1. pp = qq /\ Len(S) = l
      BY <1>0, <1>1, <1>2, <1>5, <2>1 DEF Bounds
    <3>2. qq - 1 = q + 1 /\ p + 2 <= qq
      BY <1>0, <1>3, <1>4, <3>1
    <3> QED
      BY <1>0, <1>5, <1>7, <2>1, <3>1, <3>2
  <2>2. CASE ll # 1
    <3>1. ll \in 2 .. ll
      BY <1>2, <2>2
    <3>2. S[Len(S)] = ss[ll] /\ K[Len(S)] = kk[ll]
      BY <1>5, <1>6, <3>1
    <3>3. kk[ll] = 2 => pp + 2 <= qq /\ ~ Used(w, qq - 1)
      BY <1>0, <1>1 DEF Bounds
    <3> QED
      BY <1>3, <1>7, <3>2, <3>3
  <2> QED
    BY <2>1, <2>2
<1>10. ~ (Len(S) = 1 /\ K[1] = 1)
  <2>1. Len(S) = l + ll - 1 /\ K[l] = 2
    BY <1>5, <1>6
  <2>2. l + ll - 1 = 1 => l = 1
    BY <1>2, OneOfOne
  <2> QED
    BY <2>1, <2>2
<1> QED
  BY <1>0, <1>3, <1>8, <1>9, <1>10 DEF Bounds

LEMMA SameTouch ==
  ASSUME NEW b, NEW r, NEW s, NEW k, NEW rr, NEW ss, NEW kk,
         Alike(r, s, k, b), Alike(rr, ss, kk, b)
  PROVE  Touch(r, rr) <=> Touch(s, ss)
<1>1. /\ Len(s) \in Nat /\ Len(r) = Len(s) /\ (s # << >> <=> Len(s) >= 1) /\ (r = << >> <=> s = << >>)
      /\ (ss # << >> <=> Len(ss) >= 1) /\ (rr = << >> <=> ss = << >>) /\ Len(ss) \in Nat
  BY AlikeLengths
<1>2. ASSUME s # << >>, ss # << >> PROVE r[Len(r)].level = s[Len(s)].level /\ rr[1].level = ss[1].level
  <2>1. Len(s) \in 1 .. Len(s) /\ 1 \in 1 .. Len(ss)
    BY <1>1, <1>2
  <2> QED
    BY <1>1, <2>1 DEF Alike
<1> QED
  BY <1>1, <1>2 DEF Touch

LEMMA AlikeJoin ==
  ASSUME NEW b \in Nat, NEW w, NEW first \in {0, 1}, Alternates(w, first),
         NEW lo \in 1 .. Len(w), NEW m \in 1 .. Len(w), NEW hi \in 1 .. Len(w), lo <= m, m < hi,
         NEW r, NEW s, NEW k, NEW rr, NEW ss, NEW kk,
         AlikeOn(w, b, lo, m, r, s, k), AlikeOn(w, b, m + 1, hi, rr, ss, kk)
  PROVE  \E K : AlikeOn(w, b, lo, hi, Join(r, rr), Join(s, ss), K)
<1>0. lo \in Nat /\ m \in Nat /\ hi \in Nat
  BY SegmentFacts DEF Alternates
<1>1. CASE s = << >>
  BY <1>0, <1>1, AlikeLeftEmpty
<1>2. CASE ss = << >>
  BY <1>0, <1>2, AlikeRightEmpty
<1>3. CASE s # << >> /\ ss # << >>
  <2>1. Alike(r, s, k, b) /\ Alike(rr, ss, kk, b)
    BY DEF AlikeOn
  <2>2. /\ r \in Seq(SegmentSet) /\ s \in Seq(SegmentSet) /\ k \in Seq({1, 2})
        /\ Len(s) \in Nat /\ Len(r) = Len(s) /\ Len(k) = Len(s) /\ Len(s) >= 1
        /\ rr \in Seq(SegmentSet) /\ ss \in Seq(SegmentSet) /\ kk \in Seq({1, 2})
        /\ Len(ss) \in Nat /\ Len(rr) = Len(ss) /\ Len(kk) = Len(ss) /\ Len(ss) >= 1
        /\ k # << >> /\ kk # << >>
    BY <1>3, <2>1, AlikeLengths
  <2>3. PICK p \in lo .. m, q \in lo .. m : Bounds(w, lo, m, s, k, p, q)
    BY <1>3 DEF AlikeOn
  <2>4. PICK pp \in m + 1 .. hi, qq \in m + 1 .. hi : Bounds(w, m + 1, hi, ss, kk, pp, qq)
    BY <1>3 DEF AlikeOn
  <2>5. p \in lo .. hi /\ qq \in lo .. hi
    BY <1>0
  <2>6. CASE ~ Touch(s, ss)
    <3>1. Join(r, rr) = r \o rr /\ Join(s, ss) = s \o ss
      BY <2>1, <2>2, <2>6, SameTouch, JoinApart
    <3>2. Alike(r \o rr, s \o ss, k \o kk, b)
      BY <2>1, AlikeApart
    <3>3. Bounds(w, lo, hi, s \o ss, k \o kk, p, qq)
      BY <1>0, <1>3, <2>2, <2>3, <2>4, BoundsApart
    <3>4. s \o ss # << >>
      <4>1. PICK S : S = s \o ss
        OBVIOUS
      <4>2. S \in Seq(SegmentSet) /\ Len(S) = Len(s) + Len(ss)
        BY <2>2, <4>1, ConcatIndex
      <4>3. Len(S) >= 1
        BY <2>2, <4>2
      <4> QED
        BY <4>1, <4>2, <4>3, LengthFacts
    <3>5. AlikeOn(w, b, lo, hi, r \o rr, s \o ss, k \o kk)
      BY <2>5, <3>2, <3>3, <3>4 DEF AlikeOn
    <3> QED
      BY <3>1, <3>5
  <2>7. CASE Touch(s, ss)
    <3>1. PICK R, S : R = Join(r, rr) /\ S = Join(s, ss)
      OBVIOUS
    <3>2. Joined(R, r, rr) /\ Joined(S, s, ss)
      BY <2>1, <2>2, <2>7, <3>1, SameTouch, JoinTouching
    <3>3. k[Len(s)] \in {1, 2} /\ kk[1] \in {1, 2}
      <4>1. k[Len(k)] \in {1, 2} /\ kk[1] \in {1, 2}
        BY <2>2
      <4> QED
        BY <2>2, <4>1
    <3>4. Meeting(w, lo, m, hi, s, k, p, q, ss, kk, pp, qq)
      BY <2>3, <2>4, <2>7, <3>3 DEF Meeting
    <3>5. MeetingAt(w, s, k, q, kk, pp)
      BY <3>4, MeetOfOneLevel
    <3>6. k[Len(s)] = 1 /\ kk[1] = 1
      BY <3>5 DEF MeetingAt
    <3>7. PICK K : K = JoinedCounts(k, kk)
      OBVIOUS
    <3>8. Alike(R, S, K, b)
      BY <1>3, <2>1, <3>2, <3>6, <3>7, AlikeTouching
    <3>9. CountsJoined(K, k, kk)
      BY <2>2, <3>7, JoinedCountsFacts
    <3>10. Bounds(w, lo, hi, S, K, p, qq)
      BY <1>0, <2>2, <3>2, <3>4, <3>5, <3>9, BoundsTouching
    <3>11. S # << >>
      <4>1. S \in Seq(SegmentSet) /\ Len(S) = Len(s) + Len(ss) - 1
        BY <3>2 DEF Joined
      <4>2. Len(S) >= 1
        BY <2>2, <4>1
      <4> QED
        BY <4>1, <4>2, LengthFacts
    <3>12. AlikeOn(w, b, lo, hi, R, S, K)
      BY <2>5, <3>8, <3>10, <3>11 DEF AlikeOn
    <3> QED
      BY <3>1, <3>12
  <2> QED
    BY <2>6, <2>7
<1> QED
  BY <1>1, <1>2, <1>3

Singleton(x) == <<x>>

LEMMA SingletonFacts ==
  ASSUME NEW S, NEW x \in S
  PROVE  Singleton(x) \in Seq(S) /\ Len(Singleton(x)) = 1 /\ Singleton(x)[1] = x
BY DEF Singleton

LEMMA AlikeSingle ==
  ASSUME NEW b \in Nat, NEW first \in {0, 1}, NEW x, NEW w, Match(x, w, b, first),
         NEW a \in 1 .. Len(w)
  PROVE  \E K : AlikeOn(w, b, a, a, Single(x[a]), Single(w[a]), K)
<1>1. PICK y, v : y = x[a] /\ v = w[a]
  OBVIOUS
<1>2. MatchAt(x, w, b, first, a) /\ y \in SegmentSet /\ v \in SegmentSet /\ a \in Nat
  BY <1>1, SegmentAt DEF Match
<1>3. y.level = v.level /\ Fits(y.time, v.time, 1, b) /\ (y.time = 0 <=> v.time = 0)
  BY <1>1, <1>2 DEF MatchAt
<1>4. CASE v.time = 0
  <2>1. Single(y) = << >> /\ Single(v) = << >>
    BY <1>3, <1>4 DEF Single
  <2>2. << >> \in Seq(SegmentSet) /\ << >> \in Seq({1, 2}) /\ Len(<< >>) = 0
    OBVIOUS
  <2>3. Alike(<< >>, << >>, << >>, b)
    BY <2>2 DEF Alike
  <2>4. \A n \in a .. a : ~ Used(w, n)
    BY <1>1, <1>2, <1>4 DEF Used
  <2>5. AlikeOn(w, b, a, a, << >>, << >>, << >>)
    BY <2>3, <2>4 DEF AlikeOn
  <2> QED
    BY <1>1, <2>1, <2>5
<1>5. CASE v.time # 0
  <2>1. Single(y) = Singleton(y) /\ Single(v) = Singleton(v)
    BY <1>3, <1>5 DEF Single, Singleton
  <2>2. PICK r, s, k : r = Singleton(y) /\ s = Singleton(v) /\ k = Singleton(1)
    OBVIOUS
  <2>3. /\ r \in Seq(SegmentSet) /\ Len(r) = 1 /\ r[1] = y
        /\ s \in Seq(SegmentSet) /\ Len(s) = 1 /\ s[1] = v
        /\ k \in Seq({1, 2}) /\ Len(k) = 1 /\ k[1] = 1
    <3>1. 1 \in {1, 2}
      OBVIOUS
    <3> QED
      BY <1>2, <2>2, <3>1, SingletonFacts
  <2>4. ASSUME NEW n \in 1 .. Len(s)
        PROVE  r[n].level = s[n].level /\ Fits(r[n].time, s[n].time, k[n], b)
    <3>1. n = 1
      BY <2>3
    <3> QED
      BY <1>3, <2>3, <3>1
  <2>5. Alike(r, s, k, b)
    BY <2>3, <2>4 DEF Alike
  <2>6. FirstUsed(w, a, a, a) /\ LastUsed(w, a, a, a)
    <3>1. Used(w, a) /\ a \in a .. a
      BY <1>1, <1>2, <1>5 DEF Used
    <3>2. (\A n \in a .. a - 1 : ~ Used(w, n)) /\ (\A n \in a + 1 .. a : ~ Used(w, n))
      BY <1>2
    <3> QED
      BY <3>1, <3>2 DEF FirstUsed, LastUsed
  <2>7. Bounds(w, a, a, s, k, a, a)
    BY <1>1, <2>3, <2>6 DEF Bounds
  <2>8. s # << >> /\ a \in a .. a
    BY <1>2, <2>3
  <2>9. AlikeOn(w, b, a, a, r, s, k)
    BY <2>5, <2>7, <2>8 DEF AlikeOn
  <2> QED
    BY <1>1, <2>1, <2>2, <2>9
<1> QED
  BY <1>4, <1>5

AlikeFor(w, b, g, h, lo, hi) ==
    \E K : AlikeOn(w, b, lo, hi, g[<<lo, hi>>], h[<<lo, hi>>], K)

\* The halves of matching sequences are alike, and so is what is joined of them.
LEMMA HalvesAlike ==
  ASSUME NEW b \in Nat, NEW first \in {0, 1}, NEW x, NEW w,
         Match(x, w, b, first), Alternates(w, first),
         NEW g, NEW h, Merging(g, x), Merging(h, w),
         NEW from \in 1 .. Len(w), NEW to \in 1 .. Len(w), from <= to
  PROVE  AlikeFor(w, b, g, h, from, to)
<1>1. Len(w) \in Nat /\ Len(x) = Len(w)
  BY SegmentFacts DEF Match
<1> DEFINE T == {n \in Nat : \A a, c \in 1 .. Len(w) : a <= c /\ c - a <= n => AlikeFor(w, b, g, h, a, c)}
<1>2. ASSUME NEW a \in 1 .. Len(w) PROVE AlikeFor(w, b, g, h, a, a)
  <2>1. MergingAt(g, g, x, a, a) /\ MergingAt(h, h, w, a, a)
    BY <1>1 DEF Merging
  <2>2. a >= a
    BY <1>1
  <2>3. g[<<a, a>>] = Single(x[a]) /\ h[<<a, a>>] = Single(w[a])
    BY <2>1, <2>2 DEF MergingAt
  <2>4. \E K : AlikeOn(w, b, a, a, Single(x[a]), Single(w[a]), K)
    BY AlikeSingle
  <2> QED
    BY <2>3, <2>4 DEF AlikeFor
<1>3. 0 \in T
  <2>1. ASSUME NEW a \in 1 .. Len(w), NEW c \in 1 .. Len(w), a <= c, c - a <= 0 PROVE a = c
    BY <1>1, <2>1
  <2> QED
    BY <1>2, <2>1
<1>4. ASSUME NEW n \in Nat, n \in T PROVE n + 1 \in T
  <2> SUFFICES ASSUME NEW a \in 1 .. Len(w), NEW c \in 1 .. Len(w), a <= c, c - a <= n + 1
               PROVE  AlikeFor(w, b, g, h, a, c)
    OBVIOUS
  <2>1. CASE a = c
    BY <1>2, <2>1
  <2>2. CASE a # c
    <3>1. ~ (a >= c)
      BY <1>1, <2>2
    <3>2. MergingAt(g, g, x, a, c) /\ MergingAt(h, h, w, a, c)
      BY <1>1 DEF Merging
    <3>3. PICK m \in a .. c - 1 :
             m = (a + c) \div 2 /\ g[<<a, c>>] = Join(g[<<a, m>>], g[<<m + 1, c>>])
      BY <3>1, <3>2 DEF MergingAt
    <3>4. h[<<a, c>>] = Join(h[<<a, m>>], h[<<m + 1, c>>])
      BY <3>1, <3>2, <3>3 DEF MergingAt
    <3>5. m \in 1 .. Len(w) /\ a <= m /\ m < c /\ m - a <= n
      BY <1>1
    <3>6. AlikeFor(w, b, g, h, a, m)
      BY <1>4, <3>5
    <3>7. AlikeFor(w, b, g, h, m + 1, c)
      <4>1. PICK l \in 1 .. Len(w) : l = m + 1 /\ l <= c /\ c - l <= n
        BY <1>1, <3>5
      <4>2. AlikeFor(w, b, g, h, l, c)
        BY <1>4, <4>1
      <4> QED
        BY <4>1, <4>2
    <3>8. PICK k : AlikeOn(w, b, a, m, g[<<a, m>>], h[<<a, m>>], k)
      BY <3>6 DEF AlikeFor
    <3>9. PICK kk : AlikeOn(w, b, m + 1, c, g[<<m + 1, c>>], h[<<m + 1, c>>], kk)
      BY <3>7 DEF AlikeFor
    <3>10. \E K : AlikeOn(w, b, a, c, Join(g[<<a, m>>], g[<<m + 1, c>>]),
                                      Join(h[<<a, m>>], h[<<m + 1, c>>]), K)
      BY <3>5, <3>8, <3>9, AlikeJoin
    <3> QED
      BY <3>3, <3>4, <3>10 DEF AlikeFor
  <2> QED
    BY <2>1, <2>2
<1> HIDE DEF T
<1>5. Nat \subseteq T
  BY <1>3, <1>4, Induction
<1>6. to - from \in T
  BY <1>1, <1>5
<1> QED
  BY <1>6 DEF T

LEMMA RunsEmpty == Runs(<< >>) = << >>
BY DEF Runs

\* The runs of a frame as written stand for those of the frame as meant.
LEMMA RunsAlike ==
  ASSUME NEW b \in Nat, NEW first \in {0, 1}, NEW x, NEW w,
         Match(x, w, b, first), Alternates(w, first)
  PROVE  \E K : Alike(Runs(x), Runs(w), K, b)
<1>1. /\ x \in Seq(SegmentSet) /\ w \in Seq(SegmentSet) /\ Len(x) = Len(w) /\ Len(w) \in Nat
      /\ (w # << >> <=> Len(w) >= 1) /\ (x # << >> <=> Len(x) >= 1)
  BY LengthFacts DEF Match
<1>2. CASE w = << >>
  <2>1. Runs(x) = << >> /\ Runs(w) = << >>
    BY <1>1, <1>2, RunsEmpty
  <2>2. << >> \in Seq(SegmentSet) /\ << >> \in Seq({1, 2}) /\ Len(<< >>) = 0
    OBVIOUS
  <2>3. Alike(<< >>, << >>, << >>, b)
    BY <2>2 DEF Alike
  <2> QED
    BY <2>1, <2>3
<1>3. CASE w # << >>
  <2>1. x # << >>
    BY <1>1, <1>3
  <2>2. PICK g : Merging(g, x) /\ Runs(x) = g[<<1, Len(x)>>]
    BY <1>1, <2>1, RunsIs
  <2>3. PICK h : Merging(h, w) /\ Runs(w) = h[<<1, Len(w)>>]
    BY <1>1, <1>3, RunsIs
  <2>4. 1 \in 1 .. Len(w) /\ Len(w) \in 1 .. Len(w) /\ 1 <= Len(w)
    BY <1>1, <1>3
  <2>5. AlikeFor(w, b, g, h, 1, Len(w))
    BY <2>2, <2>3, <2>4, HalvesAlike
  <2> QED
    BY <1>1, <2>2, <2>3, <2>5 DEF AlikeFor, AlikeOn
<1> QED
  BY <1>2, <1>3

\* What ShapeKept says of two frames.
Shapely(raw, ideal, b) ==
    /\ Len(raw) = Len(ideal)
    /\ \A n \in 1 .. Len(raw) :
          /\ raw[n].level = ideal[n].level
          /\ raw[n].time * b <= ideal[n].time
          /\ ideal[n].time < (raw[n].time + 2) * b

LEMMA AtMostTwo ==
  ASSUME NEW m \in Nat, NEW t \in Nat, NEW k \in {1, 2}, NEW b \in Nat, Fits(m, t, k, b)
  PROVE  m * b <= t /\ t < (m + 2) * b
<1>1. CASE k = 2
  BY <1>1 DEF Fits
<1>2. CASE k = 1
  <2>1. PICK y \in Nat : y = m * b
    OBVIOUS
  <2>2. (m + 1) * b = y + b
    <3>1. (m + 1) * b = m * b + 1 * b
      OBVIOUS
    <3> QED
      BY <2>1, <3>1
  <2>3. (m + 2) * b = y + 2 * b
    <3>1. (m + 2) * b = m * b + 2 * b
      OBVIOUS
    <3> QED
      BY <2>1, <3>1
  <2>4. y <= t /\ t < y + b
    BY <1>2, <2>1, <2>2 DEF Fits
  <2> QED
    BY <2>1, <2>3, <2>4
<1> QED
  BY <1>1, <1>2

LEMMA AlikeShapely ==
  ASSUME NEW b \in Nat, NEW r, NEW s, NEW k, Alike(r, s, k, b)
  PROVE  Shapely(r, s, b)
<1>1. /\ r \in Seq(SegmentSet) /\ s \in Seq(SegmentSet) /\ k \in Seq({1, 2})
      /\ Len(s) \in Nat /\ Len(r) = Len(s) /\ Len(k) = Len(s)
  BY AlikeLengths
<1>2. ASSUME NEW n \in 1 .. Len(r)
      PROVE  /\ r[n].level = s[n].level
             /\ r[n].time * b <= s[n].time
             /\ s[n].time < (r[n].time + 2) * b
  <2>1. n \in 1 .. Len(s) /\ n \in 1 .. Len(k)
    BY <1>1
  <2>2. r[n].level = s[n].level /\ Fits(r[n].time, s[n].time, k[n], b)
    BY <2>1 DEF Alike
  <2>3. r[n].time \in Nat /\ s[n].time \in Nat
    BY <1>1, <2>1, SegmentAt
  <2>4. k[n] \in {1, 2}
    BY <1>1, <2>1
  <2> QED
    BY <2>2, <2>3, <2>4, AtMostTwo
<1> QED
  BY <1>1, <1>2 DEF Shapely

-----------------------------------------------------------------------------
(***************************************************************************)
(* Matching frames put together match.                                     *)
(***************************************************************************)
LEMMA LevelAfter ==
  ASSUME NEW first, NEW l \in Nat, l % 2 = 0, NEW n \in Nat
  PROVE  LevelAt(first, l + n) = LevelAt(first, n)
<1>1. (l + n) % 2 = n % 2
  OBVIOUS
<1> QED
  BY <1>1 DEF LevelAt

LEMMA MatchLength ==
  ASSUME NEW x, NEW w, NEW b, NEW first, Match(x, w, b, first)
  PROVE  /\ x \in Seq(SegmentSet) /\ w \in Seq(SegmentSet) /\ Len(w) \in Nat
         /\ Len(x) = Len(w) /\ Len(w) % 2 = 0
BY SegmentFacts DEF Match

LEMMA MatchConcat ==
  ASSUME NEW x, NEW w, NEW y, NEW v, NEW b, NEW first, Match(x, w, b, first), Match(y, v, b, first)
  PROVE  Match(x \o y, w \o v, b, first)
<1>0. /\ x \in Seq(SegmentSet) /\ w \in Seq(SegmentSet)
      /\ y \in Seq(SegmentSet) /\ v \in Seq(SegmentSet)
  BY MatchLength
<1>1. PICK l \in Nat, m \in Nat : l = Len(x) /\ l = Len(w) /\ m = Len(y) /\ m = Len(v)
  BY MatchLength
<1>2. l % 2 = 0 /\ m % 2 = 0
  BY <1>1, MatchLength
<1>3. PICK X, W : X = x \o y /\ W = w \o v
  OBVIOUS
<1>4. /\ X \in Seq(SegmentSet) /\ Len(X) = l + m
      /\ \A n \in 1 .. l : X[n] = x[n]
      /\ \A n \in 1 .. m : X[l + n] = y[n]
  <2>1. /\ X \in Seq(SegmentSet) /\ Len(X) = Len(x) + Len(y)
        /\ \A n \in 1 .. Len(x) : X[n] = x[n]
        /\ \A n \in 1 .. Len(y) : X[Len(x) + n] = y[n]
    BY <1>0, <1>3, ConcatIndex
  <2> QED
    BY <1>1, <2>1
<1>5. /\ W \in Seq(SegmentSet) /\ Len(W) = l + m
      /\ \A n \in 1 .. l : W[n] = w[n]
      /\ \A n \in 1 .. m : W[l + n] = v[n]
  <2>1. /\ W \in Seq(SegmentSet) /\ Len(W) = Len(w) + Len(v)
        /\ \A n \in 1 .. Len(w) : W[n] = w[n]
        /\ \A n \in 1 .. Len(v) : W[Len(w) + n] = v[n]
    BY <1>0, <1>3, ConcatIndex
  <2> QED
    BY <1>1, <2>1
<1>6. ASSUME NEW n \in 1 .. l + m PROVE MatchAt(X, W, b, first, n)
  <2>1. CASE n <= l
    <3>1. n \in 1 .. l
      BY <1>1, <2>1
    <3>2. MatchAt(x, w, b, first, n)
      BY <1>1, <3>1 DEF Match
    <3> QED
      BY <1>4, <1>5, <3>1, <3>2 DEF MatchAt
  <2>2. CASE ~ (n <= l)
    <3>1. PICK k \in 1 .. m : n = l + k
      BY <2>2
    <3>2. MatchAt(y, v, b, first, k)
      BY <1>1 DEF Match
    <3>3. LevelAt(first, n) = LevelAt(first, k)
      <4>1. k \in Nat
        OBVIOUS
      <4>2. LevelAt(first, l + k) = LevelAt(first, k)
        BY <1>2, <4>1, LevelAfter
      <4> QED
        BY <3>1, <4>2
    <3>4. X[n] = y[k] /\ W[n] = v[k]
      BY <1>4, <1>5, <3>1
    <3> QED
      BY <3>2, <3>3, <3>4 DEF MatchAt
  <2> QED
    BY <2>1, <2>2
<1>7. (l + m) % 2 = 0
  BY <1>2
<1>8. Match(X, W, b, first)
  BY <1>4, <1>5, <1>6, <1>7 DEF Match
<1> QED
  BY <1>3, <1>8

AllUsed(w) == \A n \in 1 .. Len(w) : Used(w, n)

LEMMA AllUsedConcat ==
  ASSUME NEW w \in Seq(SegmentSet), NEW v \in Seq(SegmentSet), AllUsed(w), AllUsed(v)
  PROVE  AllUsed(w \o v)
<1>1. PICK W : W = w \o v
  OBVIOUS
<1>2. Len(w) \in Nat /\ Len(v) \in Nat
  OBVIOUS
<1>3. /\ Len(W) = Len(w) + Len(v)
      /\ \A n \in 1 .. Len(w) : W[n] = w[n]
      /\ \A n \in 1 .. Len(v) : W[Len(w) + n] = v[n]
  BY <1>1, ConcatIndex
<1>4. ASSUME NEW n \in 1 .. Len(w) + Len(v) PROVE Used(W, n)
  <2>1. CASE n <= Len(w)
    <3>1. n \in 1 .. Len(w)
      BY <1>2, <2>1
    <3> QED
      BY <1>3, <3>1 DEF AllUsed, Used
  <2>2. CASE ~ (n <= Len(w))
    <3>1. PICK k \in 1 .. Len(v) : n = Len(w) + k
      BY <1>2, <2>2
    <3> QED
      BY <1>3, <3>1 DEF AllUsed, Used
  <2> QED
    BY <2>1, <2>2
<1> QED
  BY <1>1, <1>3, <1>4 DEF AllUsed

\* A bit after the other.
BitMatches(x, w, b, first) == Match(x, w, b, first) /\ AllUsed(w)

LEMMA BitMatchesConcat ==
  ASSUME NEW x, NEW w, NEW y, NEW v, NEW b, NEW first,
         BitMatches(x, w, b, first), BitMatches(y, v, b, first)
  PROVE  BitMatches(x \o y, w \o v, b, first)
<1>1. Match(x \o y, w \o v, b, first)
  BY MatchConcat DEF BitMatches
<1>2. AllUsed(w \o v)
  BY MatchLength, AllUsedConcat DEF BitMatches
<1> QED
  BY <1>1, <1>2 DEF BitMatches

LEMMA MatchNothing == ASSUME NEW b, NEW first PROVE BitMatches(<< >>, << >>, b, first)
<1>1. << >> \in Seq(SegmentSet) /\ Len(<< >>) = 0
  OBVIOUS
<1> QED
  BY <1>1 DEF BitMatches, Match, AllUsed

LEMMA FlattenMatches ==
  ASSUME NEW xs \in Seq(Seq(SegmentSet)), NEW ws \in Seq(Seq(SegmentSet)), Len(xs) = Len(ws),
         NEW b, NEW first, \A n \in 1 .. Len(ws) : BitMatches(xs[n], ws[n], b, first)
  PROVE  BitMatches(FlattenSeq(xs), FlattenSeq(ws), b, first)
<1> DEFINE X == Seq(SegmentSet)
<1>1. PICK N \in Nat : N = Len(ws) /\ N = Len(xs)
  OBVIOUS
<1>2. Monoid(X) /\ xs \in Seq(X) /\ ws \in Seq(X)
  BY SeqMonoid
<1> HIDE DEF X
<1>3. PICK f \in [0 .. Len(xs) -> X] : Flattens(f, xs, Len(xs))
  BY <1>2, FlattenSteps
<1>4. PICK g \in [0 .. Len(ws) -> X] : Flattens(g, ws, Len(ws))
  BY <1>2, FlattenSteps
<1>5. /\ Concatenates(f, xs, N) /\ FlattenSeq(xs) = f[N]
      /\ Concatenates(g, ws, N) /\ FlattenSeq(ws) = g[N]
  BY <1>1, <1>3, <1>4 DEF Flattens
<1> DEFINE T == {n \in 0 .. N : BitMatches(f[n], g[n], b, first)}
<1>6. 0 \in T
  BY <1>5, MatchNothing DEF Concatenates
<1>7. ASSUME NEW n \in 0 .. N - 1, n \in T PROVE n + 1 \in T
  <2>1. n + 1 \in 1 .. Len(ws) /\ n + 1 \in 0 .. N
    BY <1>1
  <2>2. BitMatches(f[n], g[n], b, first) /\ BitMatches(xs[n + 1], ws[n + 1], b, first)
    BY <1>7, <2>1
  <2>3. f[n + 1] = f[n] \o xs[n + 1] /\ g[n + 1] = g[n] \o ws[n + 1]
    BY <1>5 DEF Concatenates
  <2>4. BitMatches(f[n + 1], g[n + 1], b, first)
    BY <2>2, <2>3, BitMatchesConcat
  <2> QED
    BY <2>1, <2>4
<1> HIDE DEF T
<1>8. 0 .. N \subseteq T
  BY <1>6, <1>7, InductionTo
<1>9. N \in T
  BY <1>8
<1> QED
  BY <1>5, <1>9 DEF T

TwoLong(s) == Len(s) = 2

\* A marker may lack a level, or both: what is between has both.
LEMMA FrameAlternates ==
  ASSUME NEW x, NEW a, NEW v, NEW c, NEW b, NEW first,
         Match(x, (a \o v) \o c, b, first), NEW ax, NEW vx, NEW cx,
         Match(ax, a, b, first), BitMatches(vx, v, b, first), Match(cx, c, b, first),
         TwoLong(a), TwoLong(c)
  PROVE  Alternates((a \o v) \o c, first)
<1>1. PICK w : w = (a \o v) \o c
  OBVIOUS
<1>0. a \in Seq(SegmentSet) /\ v \in Seq(SegmentSet) /\ c \in Seq(SegmentSet)
  BY MatchLength DEF BitMatches
<1>2. PICK l \in Nat : l = Len(v) /\ AllUsed(v)
  BY MatchLength DEF BitMatches
<1>3. l % 2 = 0
  BY <1>2, MatchLength DEF BitMatches
<1>4. PICK av : av = a \o v
  OBVIOUS
<1>5. /\ av \in Seq(SegmentSet) /\ Len(av) = 2 + l
      /\ \A n \in 1 .. l : av[2 + n] = v[n]
  <2>1. /\ av \in Seq(SegmentSet) /\ Len(av) = Len(a) + Len(v)
        /\ \A n \in 1 .. Len(v) : av[Len(a) + n] = v[n]
    BY <1>0, <1>4, ConcatIndex
  <2> QED
    BY <1>2, <2>1 DEF TwoLong
<1>6. /\ w \in Seq(SegmentSet) /\ Len(w) = (2 + l) + 2
      /\ \A n \in 1 .. 2 + l : w[n] = av[n]
  <2>1. /\ w \in Seq(SegmentSet) /\ Len(w) = Len(av) + Len(c)
        /\ \A n \in 1 .. Len(av) : w[n] = av[n]
    <3>1. av \in Seq(SegmentSet) /\ w = av \o c
      BY <1>1, <1>4, <1>5
    <3> QED
      BY <1>0, <3>1, ConcatIndex
  <2> QED
    BY <1>5, <2>1 DEF TwoLong
<1>7. ASSUME NEW n \in 3 .. 2 + l PROVE Used(w, n)
  <2>1. PICK k \in 1 .. l : n = 2 + k
    BY <1>2
  <2>2. n \in 1 .. 2 + l
    BY <1>2
  <2>3. w[n] = v[k]
    BY <1>5, <1>6, <2>1, <2>2
  <2> QED
    BY <1>2, <2>3 DEF AllUsed, Used
<1>8. ASSUME NEW n \in 2 .. Len(w), n + 3 <= Len(w) PROVE Used(w, n) \/ Used(w, n + 2)
  <2>1. CASE n = 2
    <3>1. l >= 1
      BY <1>2, <1>6, <1>8, <2>1
    <3>2. l # 1
      BY <1>3
    <3>3. n + 2 \in 3 .. 2 + l
      BY <1>2, <2>1, <3>1, <3>2
    <3> QED
      BY <1>7, <3>3
  <2>2. CASE n # 2
    <3>1. n \in 3 .. 2 + l
      BY <1>2, <1>6, <1>8, <2>2
    <3> QED
      BY <1>7, <3>1
  <2> QED
    BY <2>1, <2>2
<1>9. \A n \in 1 .. Len(w) : w[n].level = LevelAt(first, n)
  <2>1. Match(x, w, b, first)
    BY <1>1
  <2> QED
    BY <2>1 DEF Match, MatchAt
<1>10. Alternates(w, first)
  BY <1>6, <1>8, <1>9 DEF Alternates, NoGaps
<1> QED
  BY <1>1, <1>10

(***************************************************************************)
(* A pair of durations and the periods it is written with.                 *)
(***************************************************************************)
Counts1(m, t, b) == Fits(m, t, 1, b) /\ (m = 0 <=> t = 0)
PairCounts(m, p, b) == Counts1(m.h, p.h, b) /\ Counts1(m.l, p.l, b)

First(c) == IF c.bit_fmt = "HL" THEN 1 ELSE 0

LEMMA EdgeMatches ==
  ASSUME Arguing, NEW m \in PeriodPairs, NEW p \in Pairs, NEW b, PairCounts(m, p, b)
  PROVE  /\ Match(WriteEdge(m), Edge(config.bit_fmt, p), b, First(config))
         /\ TwoLong(Edge(config.bit_fmt, p))
         /\ p.h # 0 /\ p.l # 0 => AllUsed(Edge(config.bit_fmt, p))
<1>1. PICK mh, ml, ph, pl :
         /\ mh = Segment(1, m.h) /\ ml = Segment(0, m.l)
         /\ ph = Segment(1, p.h) /\ pl = Segment(0, p.l)
  OBVIOUS
<1>2. m.h \in Nat /\ m.l \in Nat /\ p.h \in Nat /\ p.l \in Nat
  BY TotalFacts, PairFacts, Widths
<1>3. /\ mh \in SegmentSet /\ ml \in SegmentSet /\ ph \in SegmentSet /\ pl \in SegmentSet
      /\ mh.level = 1 /\ ml.level = 0 /\ ph.level = 1 /\ pl.level = 0
      /\ mh.time = m.h /\ ml.time = m.l /\ ph.time = p.h /\ pl.time = p.l
  BY <1>1, <1>2 DEF Segment, SegmentSet
<1>4. /\ Fits(mh.time, ph.time, 1, b) /\ (mh.time = 0 <=> ph.time = 0)
      /\ Fits(ml.time, pl.time, 1, b) /\ (ml.time = 0 <=> pl.time = 0)
  BY <1>3 DEF PairCounts, Counts1
<1>5. ASSUME NEW a1 \in SegmentSet, NEW a2 \in SegmentSet, NEW b1 \in SegmentSet, NEW b2 \in SegmentSet,
             NEW first \in {0, 1},
             a1.level = first, b1.level = first, a2.level = 1 - first, b2.level = 1 - first,
             Fits(a1.time, b1.time, 1, b), a1.time = 0 <=> b1.time = 0,
             Fits(a2.time, b2.time, 1, b), a2.time = 0 <=> b2.time = 0
      PROVE  /\ Match(<<a1, a2>>, <<b1, b2>>, b, first) /\ TwoLong(<<b1, b2>>)
             /\ b1.time # 0 /\ b2.time # 0 => AllUsed(<<b1, b2>>)
  <2>1. PICK x, w : x = <<a1, a2>> /\ w = <<b1, b2>>
    OBVIOUS
  <2>2. /\ x \in Seq(SegmentSet) /\ w \in Seq(SegmentSet) /\ Len(x) = 2 /\ Len(w) = 2
        /\ x[1] = a1 /\ x[2] = a2 /\ w[1] = b1 /\ w[2] = b2
    BY <2>1
  <2>3. LevelAt(first, 1) = first /\ LevelAt(first, 2) = 1 - first
    BY DEF LevelAt
  <2>4. MatchAt(x, w, b, first, 1) /\ MatchAt(x, w, b, first, 2)
    BY <1>5, <2>2, <2>3 DEF MatchAt
  <2>5. \A n \in 1 .. Len(x) : n = 1 \/ n = 2
    BY <2>2
  <2>6. Len(x) % 2 = 0
    BY <2>2
  <2>7. Match(x, w, b, first)
    BY <2>2, <2>4, <2>5, <2>6 DEF Match
  <2>8. b1.time # 0 /\ b2.time # 0 => AllUsed(w)
    BY <2>2, <2>5 DEF AllUsed, Used
  <2> QED
    BY <2>1, <2>2, <2>7, <2>8 DEF TwoLong
<1>6. CASE config.bit_fmt = "HL"
  <2>1. WriteEdge(m) = <<mh, ml>> /\ Edge(config.bit_fmt, p) = <<ph, pl>> /\ First(config) = 1
    BY <1>1, <1>6 DEF WriteEdge, Edge, First
  <2> QED
    BY <1>3, <1>4, <1>5, <2>1
<1>7. CASE config.bit_fmt = "LH"
  <2>1. WriteEdge(m) = <<ml, mh>> /\ Edge(config.bit_fmt, p) = <<pl, ph>> /\ First(config) = 0
    BY <1>1, <1>7 DEF WriteEdge, Edge, First
  <2> QED
    BY <1>3, <1>4, <1>5, <2>1
<1>8. config.bit_fmt \in {"HL", "LH"}
  BY ConfigFacts DEF Arguing
<1> QED
  BY <1>6, <1>7, <1>8

-----------------------------------------------------------------------------
(***************************************************************************)
(* Durations that the base time keeps, in periods.                         *)
(***************************************************************************)
LEMMA QuotientFits ==
  ASSUME NEW t \in Nat, NEW b \in Nat, b > 0, NEW n, n = t \div b
  PROVE  n \in Nat /\ Fits(n, t, 1, b) /\ (t >= b => n # 0) /\ (t = 0 => n = 0)
<1>1. PICK r \in Int : n \in Int /\ t = (b * n) + r /\ 0 <= r /\ r < b
  OBVIOUS
<1>2. PICK x \in Int : x = b * n /\ x = n * b
  BY <1>1
<1>3. (n + 1) * b = x + b
  <2>1. (n + 1) * b = n * b + 1 * b
    BY <1>1
  <2> QED
    BY <1>2, <2>1
<1>4. x <= t /\ t < x + b
  BY <1>1, <1>2
<1>5. n \in Nat
  OBVIOUS
<1>6. n = 0 => x = 0
  BY <1>2
<1>7. t = 0 => n = 0
  OBVIOUS
<1>8. t >= b => n # 0
  BY <1>4, <1>6
<1> QED
  BY <1>2, <1>3, <1>4, <1>5, <1>7, <1>8 DEF Fits

LEMMA PeriodsCount ==
  ASSUME base_time \in Nat, base_time > 0, DurationsKept,
         NEW t \in Nat, t \in Durations(config), NEW build
  PROVE  Counts1(Periods(t, build), t, base_time)
<1>1. PICK n : n = t \div base_time
  OBVIOUS
<1>2. n \in Nat /\ Fits(n, t, 1, base_time) /\ (t >= base_time => n # 0) /\ (t = 0 => n = 0)
  BY <1>1, QuotientFits
<1>3. t # 0 => base_time <= t /\ n <= UINT8_MAX
  BY <1>1 DEF DurationsKept
<1>4. UINT8_MAX \in Nat
  BY Widths
<1>5. n <= UINT8_MAX
  BY <1>2, <1>3, <1>4
<1>6. Periods(t, build) = n
  BY <1>1, <1>5 DEF Periods
<1>7. n = 0 <=> t = 0
  BY <1>2, <1>3
<1> QED
  BY <1>2, <1>6, <1>7 DEF Counts1

LEMMA PairPeriodsCount ==
  ASSUME base_time \in Nat, base_time > 0, DurationsKept,
         NEW p \in Pairs, {p.h, p.l} \subseteq Durations(config), NEW build
  PROVE  PairCounts(PairPeriods(p, build), p, base_time)
<1>1. p.h \in Nat /\ p.l \in Nat
  BY PairFacts, Widths
<1>2. /\ Counts1(Periods(p.h, build), p.h, base_time)
      /\ Counts1(Periods(p.l, build), p.l, base_time)
  BY <1>1, PeriodsCount
<1> QED
  BY <1>2 DEF PairCounts, PairPeriods, Pair

(***************************************************************************)
(* The durations in periods, and the frame, as Lengths and Write make them.*)
(***************************************************************************)
LenOf(build) ==
    [start |-> PairPeriods(config.start, build), end |-> PairPeriods(config.end, build),
     bit |-> [b \in 1 .. 2 |-> PairPeriods(config.bit[b], build)]]

FrameInv ==
    /\ stage \in {"estimate", "write", "done", "handed"} =>
          \E build \in {"wraps", "saturates"} : len = LenOf(build)
    /\ stage \in {"done", "handed"} /\ ~ TooLong(estimate) => frame = WrittenFrame

LenCounts ==
    /\ PairCounts(len.start, config.start, base_time) /\ PairCounts(len.end, config.end, base_time)
    /\ PairCounts(len.bit[1], config.bit[1], base_time)
    /\ PairCounts(len.bit[2], config.bit[2], base_time)

LEMMA LenKept ==
  ASSUME Arguing, base_time \in Nat, base_time > 0, DurationsKept,
         NEW build, len = LenOf(build)
  PROVE  LenCounts
<1>1. /\ config.start \in Pairs /\ config.end \in Pairs
      /\ config.bit[1] \in Pairs /\ config.bit[2] \in Pairs
  BY ConfigFacts DEF Arguing
<1>2. /\ {config.start.h, config.start.l} \subseteq Durations(config)
      /\ {config.end.h, config.end.l} \subseteq Durations(config)
      /\ {config.bit[1].h, config.bit[1].l} \subseteq Durations(config)
      /\ {config.bit[2].h, config.bit[2].l} \subseteq Durations(config)
  BY DEF Durations
<1>3. /\ PairCounts(PairPeriods(config.start, build), config.start, base_time)
      /\ PairCounts(PairPeriods(config.end, build), config.end, base_time)
      /\ PairCounts(PairPeriods(config.bit[1], build), config.bit[1], base_time)
      /\ PairCounts(PairPeriods(config.bit[2], build), config.bit[2], base_time)
  BY <1>1, <1>2, PairPeriodsCount
<1>4. /\ len.start = PairPeriods(config.start, build) /\ len.end = PairPeriods(config.end, build)
      /\ len.bit[1] = PairPeriods(config.bit[1], build)
      /\ len.bit[2] = PairPeriods(config.bit[2], build)
  BY DEF LenOf
<1> QED
  BY <1>3, <1>4 DEF LenCounts

Ideal == IdealFrame(config, bits)

\* Written and meant frame match, segment by segment.
LEMMA FrameMatches ==
  ASSUME Arguing, DurationsKept, LenCounts
  PROVE  /\ Match(WrittenFrame, Ideal, base_time, First(config))
         /\ Alternates(Ideal, First(config))
<1> DEFINE W(p) == WriteEdge(p)
           E(p) == Edge(config.bit_fmt, p)
           ws == [n \in 1 .. Len(bits) |-> W(len.bit[bits[n] + 1])]
           es == [n \in 1 .. Len(bits) |-> E(config.bit[bits[n] + 1])]
           f == First(config)
<1>1. /\ len.start \in PeriodPairs /\ len.end \in PeriodPairs
      /\ len.bit[1] \in PeriodPairs /\ len.bit[2] \in PeriodPairs
      /\ bits \in Seq({0, 1}) /\ Len(bits) \in Nat
  BY LenFacts, SourceFacts
<1>2. /\ config.start \in Pairs /\ config.end \in Pairs
      /\ config.bit[1] \in Pairs /\ config.bit[2] \in Pairs
      /\ config.bit_fmt \in {"HL", "LH"}
  BY ConfigFacts DEF Arguing
<1>3. /\ Match(W(len.start), E(config.start), base_time, f) /\ TwoLong(E(config.start))
      /\ Match(W(len.end), E(config.end), base_time, f) /\ TwoLong(E(config.end))
  BY <1>1, <1>2, EdgeMatches DEF LenCounts
<1>4. /\ BitMatches(W(len.bit[1]), E(config.bit[1]), base_time, f)
      /\ BitMatches(W(len.bit[2]), E(config.bit[2]), base_time, f)
  <2>1. /\ config.bit[1].h # 0 /\ config.bit[1].l # 0
        /\ config.bit[2].h # 0 /\ config.bit[2].l # 0
    BY DEF DurationsKept
  <2> QED
    BY <1>1, <1>2, <2>1, EdgeMatches DEF LenCounts, BitMatches
<1>5. ASSUME NEW n \in 1 .. Len(bits)
      PROVE  \/ ws[n] = W(len.bit[1]) /\ es[n] = E(config.bit[1])
             \/ ws[n] = W(len.bit[2]) /\ es[n] = E(config.bit[2])
  <2>1. bits[n] \in {0, 1}
    BY <1>1
  <2>2. ws[n] = W(len.bit[bits[n] + 1]) /\ es[n] = E(config.bit[bits[n] + 1])
    OBVIOUS
  <2>3. bits[n] + 1 = 1 \/ bits[n] + 1 = 2
    BY <2>1
  <2> HIDE DEF W, E, ws, es
  <2> QED
    BY <2>2, <2>3
<1>6. Ideal = (E(config.start) \o FlattenSeq(es)) \o E(config.end)
  <2>1. config.bit_fmt # "RAW"
    BY <1>2
  <2> QED
    BY <2>1 DEF Ideal, IdealFrame
<1>7. WrittenFrame = (W(len.start) \o FlattenSeq(ws)) \o W(len.end)
  BY DEF WrittenFrame, WriteBits
<1>8. ws = [n \in 1 .. Len(bits) |-> ws[n]] /\ es = [n \in 1 .. Len(bits) |-> es[n]]
  OBVIOUS
<1> HIDE DEF W, E, ws, es, f
<1>9. ASSUME NEW n \in 1 .. Len(bits) PROVE BitMatches(ws[n], es[n], base_time, f)
  BY <1>4, <1>5
<1>10. \A n \in 1 .. Len(bits) : ws[n] \in Seq(SegmentSet) /\ es[n] \in Seq(SegmentSet)
  BY <1>9, MatchLength DEF BitMatches
<1>11. /\ ws \in Seq(Seq(SegmentSet)) /\ es \in Seq(Seq(SegmentSet))
       /\ Len(ws) = Len(bits) /\ Len(es) = Len(bits)
  BY <1>1, <1>8, <1>10
<1>12. BitMatches(FlattenSeq(ws), FlattenSeq(es), base_time, f)
  BY <1>9, <1>11, FlattenMatches
<1>13. Match(WrittenFrame, Ideal, base_time, f)
  <2>1. Match(W(len.start) \o FlattenSeq(ws), E(config.start) \o FlattenSeq(es), base_time, f)
    BY <1>3, <1>12, MatchConcat DEF BitMatches
  <2> QED
    BY <1>3, <1>6, <1>7, <2>1, MatchConcat
<1>14. Alternates(Ideal, f)
  <2>1. PICK a, v, c : a = E(config.start) /\ v = FlattenSeq(es) /\ c = E(config.end)
    OBVIOUS
  <2>2. Match(WrittenFrame, (a \o v) \o c, base_time, f)
    BY <1>6, <1>13, <2>1
  <2>3. /\ Match(W(len.start), a, base_time, f) /\ BitMatches(FlattenSeq(ws), v, base_time, f)
        /\ Match(W(len.end), c, base_time, f) /\ TwoLong(a) /\ TwoLong(c)
    BY <1>3, <1>12, <2>1
  <2>4. Alternates((a \o v) \o c, f)
    BY <2>2, <2>3, FrameAlternates
  <2> QED
    BY <1>6, <2>1, <2>4
<1> QED
  BY <1>13, <1>14 DEF f

LEMMA FrameShapely ==
  ASSUME Arguing, DurationsKept, LenCounts, base_time \in Nat, frame = WrittenFrame
  PROVE  ShapeKept
<1>1. First(config) \in {0, 1}
  BY DEF First
<1>2. PICK K : Alike(Runs(WrittenFrame), Runs(Ideal), K, base_time)
  BY <1>1, FrameMatches, RunsAlike
<1>3. Shapely(Runs(frame), Runs(Ideal), base_time)
  BY <1>2, AlikeShapely
<1> QED
  BY <1>3 DEF ShapeKept, Shapely, Ideal

\* Durations a period apart are counted differently.
LEMMA CountsApart ==
  ASSUME NEW t \in Nat, NEW u \in Nat, NEW m \in Nat, base_time \in Nat,
         Counts1(m, t, base_time), Counts1(m, u, base_time)
  PROVE  ~ Apart(t, u)
<1>1. PICK x \in Nat : x = m * base_time
  OBVIOUS
<1>2. (m + 1) * base_time = x + base_time
  <2>1. (m + 1) * base_time = m * base_time + 1 * base_time
    OBVIOUS
  <2> QED
    BY <1>1, <2>1
<1>3. x <= t /\ t < x + base_time /\ x <= u /\ u < x + base_time
  BY <1>1, <1>2 DEF Counts1, Fits
<1> QED
  BY <1>1, <1>3 DEF Apart

LEMMA BitsDiffer ==
  ASSUME Arguing, LenCounts, base_time \in Nat, BitsApart
  PROVE  len.bit[1] # len.bit[2]
<1> SUFFICES ASSUME len.bit[1] = len.bit[2] PROVE FALSE
  OBVIOUS
<1>1. PICK m \in PeriodPairs : m = len.bit[1] /\ m = len.bit[2]
  BY LenFacts
<1>2. PICK p \in Pairs, q \in Pairs : p = config.bit[1] /\ q = config.bit[2]
  BY ConfigFacts DEF Arguing
<1>3. m.h \in Nat /\ m.l \in Nat /\ p.h \in Nat /\ p.l \in Nat /\ q.h \in Nat /\ q.l \in Nat
  BY TotalFacts, PairFacts, Widths
<1>4. /\ Counts1(m.h, p.h, base_time) /\ Counts1(m.h, q.h, base_time)
      /\ Counts1(m.l, p.l, base_time) /\ Counts1(m.l, q.l, base_time)
  BY <1>1, <1>2 DEF LenCounts, PairCounts
<1>5. ~ Apart(p.h, q.h) /\ ~ Apart(p.l, q.l)
  BY <1>3, <1>4, CountsApart
<1> QED
  BY <1>2, <1>5 DEF BitsApart

-----------------------------------------------------------------------------
LEMMA InitFrameInv == ASSUME AlsaInit PROVE FrameInv
BY DEF AlsaInit, Init, FrameInv

LEMMA SameLenOf ==
  ASSUME UNCHANGED <<args, base_time>>, NEW build
  PROVE  LenOf(build)' = LenOf(build)
<1>1. config' = config /\ base_time' = base_time
  BY DEF args
<1> QED
  BY <1>1 DEF LenOf, PairPeriods, Periods

\* What the driver does, and a step that changes nothing.
LEMMA FrameInvKept ==
  ASSUME FrameInv, UNCHANGED <<args, base_time, len, estimate, frame>>,
         \/ stage' = stage
         \/ stage \in {"done", "handed"} /\ stage' = "handed"
  PROVE  FrameInv'
<1>1. /\ UNCHANGED <<args, len>> /\ UNCHANGED <<args, base_time>>
      /\ len' = len /\ frame' = frame /\ estimate' = estimate
  OBVIOUS
<1>2. WrittenFrame' = WrittenFrame /\ (TooLong(estimate)' <=> TooLong(estimate))
  BY <1>1, SameFrame DEF TooLong
<1>3. \A build \in {"wraps", "saturates"} : LenOf(build)' = LenOf(build)
  BY <1>1, SameLenOf
<1>4. stage' \in {"estimate", "write", "done", "handed"} => stage \in {"estimate", "write", "done", "handed"}
  OBVIOUS
<1>5. stage' \in {"done", "handed"} => stage \in {"done", "handed"}
  OBVIOUS
<1>6. stage' \in {"estimate", "write", "done", "handed"} =>
          \E build \in {"wraps", "saturates"} : len' = LenOf(build)'
  BY <1>1, <1>3, <1>4 DEF FrameInv
<1>7. stage' \in {"done", "handed"} /\ ~ TooLong(estimate)' => frame' = WrittenFrame'
  BY <1>1, <1>2, <1>5 DEF FrameInv
<1> QED
  BY <1>6, <1>7 DEF FrameInv

LEMMA FrameInvStep == ASSUME FrameInv, [AlsaNext]_alsaVars PROVE FrameInv'
<1>1. CASE FindBaseTime
  <2>1. stage' = "lengths"
    BY <1>1 DEF FindBaseTime
  <2> QED
    BY <2>1 DEF FrameInv
<1>2. CASE Lengths
  <2>1. UNCHANGED <<args, base_time>> /\ stage' = "estimate"
    BY <1>2 DEF Lengths
  <2>2. PICK build \in {"wraps", "saturates"} : len' = LenOf(build)
    BY <1>2 DEF Lengths, LenOf
  <2>3. len' = LenOf(build)'
    BY <2>1, <2>2, SameLenOf
  <2> QED
    BY <2>1, <2>3 DEF FrameInv
<1>3. CASE Estimate
  <2>1. /\ stage = "estimate" /\ UNCHANGED <<args, base_time>> /\ len' = len
        /\ ((TooLong(estimate') /\ stage' = "done") \/ stage' = "write")
    BY <1>3 DEF Estimate
  <2>2. PICK build \in {"wraps", "saturates"} : len = LenOf(build)
    BY <2>1 DEF FrameInv
  <2>3. len' = LenOf(build)'
    BY <2>1, <2>2, SameLenOf
  <2>4. TooLong(estimate)' <=> TooLong(estimate')
    BY DEF TooLong
  <2> QED
    BY <2>1, <2>3, <2>4 DEF FrameInv
<1>4. CASE Write
  <2>1. /\ stage = "write" /\ UNCHANGED <<args, base_time>> /\ UNCHANGED <<args, len>>
        /\ len' = len /\ frame' = WrittenFrame
    BY <1>4 DEF Write, WrittenFrame
  <2>2. PICK build \in {"wraps", "saturates"} : len = LenOf(build)
    BY <2>1 DEF FrameInv
  <2>3. len' = LenOf(build)'
    BY <2>1, <2>2, SameLenOf
  <2>4. frame' = WrittenFrame'
    BY <2>1, SameFrame
  <2> QED
    BY <2>3, <2>4 DEF FrameInv
<1>5. CASE Convert
  <2>1. /\ UNCHANGED <<args, base_time, len, estimate, frame>>
        /\ stage \in {"done", "handed"} /\ stage' = "handed"
    BY <1>5 DEF Convert
  <2> QED
    BY <2>1, FrameInvKept
<1>6. CASE UNCHANGED vars
  <2>1. UNCHANGED <<args, base_time, len, estimate, frame>> /\ stage' = stage
    BY <1>6 DEF vars, args
  <2> QED
    BY <2>1, FrameInvKept
<1>7. \/ FindBaseTime \/ Lengths \/ Estimate \/ Write \/ Convert \/ UNCHANGED vars
  BY DEF AlsaNext, Next, Configure, Play, NextCommand, alsaVars
<1> QED
  BY <1>1, <1>2, <1>3, <1>4, <1>5, <1>6, <1>7

LEMMA AlwaysFrameInv == AlsaSpec => []FrameInv
  BY InitFrameInv, FrameInvStep, PTL DEF AlsaSpec

-----------------------------------------------------------------------------
(***************************************************************************)
(* The results.                                                            *)
(***************************************************************************)
\* The variables keep to their types: what is computed fits the uint16_t and
\* uint8_t it is stored in (find_best_base_time(), raw_generate_hl_frame()).
THEOREM ConversionTypeCorrect == AlsaSpec => []TypeOK
<1>1. ASSUME SoundInv PROVE TypeOK
  <2>1. Arguing
    BY <1>1 DEF SoundInv, RawInv
  <2>2. /\ len.start \in PeriodPairs /\ len.end \in PeriodPairs
        /\ len.bit[1] \in PeriodPairs /\ len.bit[2] \in PeriodPairs
    BY <2>1, LenFacts
  <2> QED
    BY <1>1, <2>2 DEF SoundInv, RawInv, TypeOK, PeriodPairs
<1> QED
  BY <1>1, AlwaysSoundInv, PTL

\* raw_generate_hl_frame() never divides by zero, whatever the tolerance made
\* of the divisor; and where frames are whole bytes, or bits equally long, the
\* length it checks against the buffer is the one raw_write_bits() writes.
THEOREM ConversionIsSafe == AlsaSpec => []ConversionSafe
<1>1. ASSUME SoundInv PROVE DivisorNotZero
  <2>1. CASE stage = "base"
    BY <2>1 DEF DivisorNotZero
  <2>2. CASE stage # "base"
    <3>1. /\ config \in Timings /\ accuracy \in Accuracies
          /\ base_time = BaseTime(config, AllowedError(config, accuracy))
      BY <1>1, <2>2 DEF SoundInv, RawInv, Arguing
    <3>2. base_time \in Times /\ base_time # 0
      BY <3>1, AllowedErrorFacts, BaseTimeFacts
    <3>3. base_time \in Nat
      BY <3>2, Widths
    <3> QED
      BY <3>2, <3>3 DEF DivisorNotZero
  <2> QED
    BY <2>1, <2>2
<1>2. ASSUME SoundInv PROVE LengthAsChecked
  BY <1>2, CheckedIsWritten DEF SoundInv, LengthAsChecked
<1>3. SoundInv => ConversionSafe
  BY <1>1, <1>2 DEF ConversionSafe
<1> QED
  BY <1>3, AlwaysSoundInv, PTL

\* Without tolerance find_best_base_time() finds the greatest common divisor of
\* the eight durations, zeros among them or not.
THEOREM BaseTimeIsGcd == AlsaSpec => []ExactIsGcd
<1>1. ASSUME SoundInv PROVE ExactIsGcd
  BY <1>1, ExactBaseTime DEF SoundInv, ExactIsGcd
<1> QED
  BY <1>1, AlwaysSoundInv, PTL

\* alsa_convert_frame_to_audio() keeps within the array it is given, and each
\* repetition within its part of it.
THEOREM SamplesStayInBounds == AlsaSpec => []SamplesInBounds
<1>1. ASSUME SoundInv PROVE SamplesInBounds
  <2>1. CASE sound = "converted"
    BY <1>1, <2>1, SamplesFit
  <2>2. CASE sound # "converted"
    BY <2>2 DEF SamplesInBounds
  <2> QED
    BY <2>1, <2>2
<1> QED
  BY <1>1, AlwaysSoundInv, PTL

\* A bit is played for its base time to within half a sample, but for the first
\* command on a card whose rate is not the one assumed.
THEOREM PlaysOnTimeAlways == AlsaSpec => []PlayedOnTime
<1>1. ASSUME SoundInv PROVE PlayedOnTime
  BY <1>1, PlaysOnTime
<1> QED
  BY <1>1, AlwaysSoundInv, PTL

\* Whatever the durations and the frame, a frame that fits the buffer and is
\* written with a base time that keeps the durations (raw_generate_hl_frame())
\* has the runs of the frame it stands for, each shorter by less than two
\* periods; and bits a period apart are written differently.
THEOREM ShapeIsKept == AlsaSpec => []SameShape
<1>1. ASSUME SoundInv, FrameInv PROVE SameShape
  <2> SUFFICES ASSUME Done, ~ TooLong(estimate), DurationsKept
               PROVE  ShapeKept /\ (BitsApart => len.bit[1] # len.bit[2])
    BY DEF SameShape
  <2>1. /\ Arguing /\ base_time \in Times
        /\ base_time = BaseTime(config, AllowedError(config, accuracy))
    BY <1>1 DEF SoundInv, RawInv, Done
  <2>2. base_time \in Nat /\ base_time > 0
    <3>1. base_time # 0
      BY <2>1, AllowedErrorFacts, BaseTimeFacts DEF Arguing
    <3>2. base_time \in Nat
      BY <2>1, Widths
    <3> QED
      BY <3>1, <3>2
  <2>3. PICK build : len = LenOf(build)
    BY <1>1 DEF FrameInv, Done
  <2>4. frame = WrittenFrame
    BY <1>1 DEF FrameInv, Done
  <2>5. LenCounts
    BY <2>1, <2>2, <2>3, LenKept
  <2> QED
    BY <2>1, <2>2, <2>4, <2>5, FrameShapely, BitsDiffer
<1> QED
  BY <1>1, AlwaysSoundInv, AlwaysFrameInv, PTL
=============================================================================
