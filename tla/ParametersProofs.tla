-------------------------- MODULE ParametersProofs --------------------------
(***************************************************************************)
(* Proofs about Parameters and the operators it is built from: what the    *)
(* recursive functions compute (bytes, digits, CRCs, rows), what encoding  *)
(* and decoding make of a value, which parameter a registry finds, what    *)
(* the device answers; then the invariant, and that reads are true and     *)
(* writes kept.                                                            *)
(***************************************************************************)
EXTENDS Parameters, FunctionTheorems, FiniteSetTheorems, SequenceTheorems, TLAPS

-----------------------------------------------------------------------------
(***************************************************************************)
(* Induction, and recursive functions.                                     *)
(*                                                                         *)
(* Induction is had from counting: were n the first number outside S, the  *)
(* numbers up to n outside S would be mapped one-to-one into themselves by *)
(* i |-> i - 1, and so onto themselves, n included.                        *)
(***************************************************************************)

\* A set of naturals with 0 and all successors is all of them.
THEOREM SetInduction ==
    ASSUME NEW S \in SUBSET Nat, 0 \in S, \A n \in S : n + 1 \in S
    PROVE  S = Nat
<1>1. SUFFICES ASSUME NEW n \in Nat, n \notin S PROVE FALSE
  OBVIOUS
<1> DEFINE A == {i \in 0..n : i \notin S}
           f == [i \in A |-> i - 1]
<1>2. \A i \in A : i - 1 \in A
  <2> TAKE i \in A
  <2>1. i \in Nat /\ i # 0 /\ i <= n /\ i \notin S
    OBVIOUS
  <2>2. i - 1 \in Nat /\ i - 1 \in 0..n /\ (i - 1) + 1 = i
    BY <2>1
  <2>3. i - 1 \notin S
    BY <2>1, <2>2
  <2> QED
    BY <2>2, <2>3
<1>3. f \in [A -> A]
  BY <1>2
<1>4. f \in Injection(A, A)
  <2>1. ASSUME NEW a \in A, NEW b \in A, f[a] = f[b] PROVE a = b
    <3>1. a \in Int /\ b \in Int /\ f[a] = a - 1 /\ f[b] = b - 1
      OBVIOUS
    <3> QED
      BY <2>1, <3>1
  <2> HIDE DEF f, A
  <2> QED
    BY <1>3, <2>1, Fun_IsInj
<1>5. IsFiniteSet(A)
  <2>1. IsFiniteSet(0..n)
    BY FS_Interval
  <2>2. A \in SUBSET (0..n)
    OBVIOUS
  <2> HIDE DEF A
  <2> QED
    BY <2>1, <2>2, FS_Subset
<1>6. f \in Surjection(A, A)
  <2> HIDE DEF f, A
  <2> QED
    BY <1>4, <1>5, FS_Injection
<1>7. n \in A
  BY <1>1
<1>8. PICK i \in A : f[i] = n
  <2> HIDE DEF f, A
  <2> QED
    BY <1>6, <1>7 DEF Surjection
<1>9. i \in 0..n /\ f[i] = i - 1
  OBVIOUS
<1> QED
  BY <1>8, <1>9


\* Induction up to n.
LEMMA Induction ==
    ASSUME NEW n \in Nat, NEW S, 0 \in S, \A k \in 0..n - 1 : k \in S => k + 1 \in S
    PROVE  \A k \in 0..n : k \in S
<1> DEFINE T == {k \in Nat : k <= n => k \in S}
<1>1. 0 \in T
  OBVIOUS
<1>2. \A k \in T : k + 1 \in T
  <2> TAKE k \in T
  <2>1. k \in Nat /\ k + 1 \in Nat /\ (k + 1 <= n => k \in 0..n - 1 /\ k <= n)
    OBVIOUS
  <2> QED
    BY <2>1
<1>3. T = Nat
  <2>1. T \in SUBSET Nat
    OBVIOUS
  <2> HIDE DEF T
  <2> QED
    BY <1>1, <1>2, <2>1, SetInduction
<1> QED
  BY <1>3

\* The function a recursion from base by step[1] to step[n] defines
Solution(n, base, step) ==
    CHOOSE f : /\ f = [k \in 0..n |-> f[k]]
               /\ f[0] = base /\ \A k \in 1..n : f[k] = step[k][f[k - 1]]

\* There is such a function.
LEMMA RecursionSolved ==
    ASSUME NEW n \in Nat, NEW base, NEW step
    PROVE  LET f == Solution(n, base, step)
           IN  /\ f = [k \in 0..n |-> f[k]]
               /\ f[0] = base /\ \A k \in 1..n : f[k] = step[k][f[k - 1]]
<1> DEFINE R(m, f) == /\ f = [k \in 0..m |-> f[k]]
                      /\ f[0] = base /\ \A k \in 1..m : f[k] = step[k][f[k - 1]]
           S == {m \in Nat : \E f : R(m, f)}
<1>1. 0 \in S
  <2> DEFINE f == [k \in 0..0 |-> base]
  <2>1. R(0, f)
    OBVIOUS
  <2> QED
    BY <2>1
<1>2. \A m \in S : m + 1 \in S
  <2> TAKE m \in S
  <2>1. m \in Nat /\ m + 1 \in Nat
    OBVIOUS
  <2>2. PICK g : R(m, g)
    OBVIOUS
  <2> DEFINE f == [k \in 0..m + 1 |-> IF k <= m THEN g[k] ELSE step[m + 1][g[m]]]
  <2>3. \A k \in 0..m : k \in 0..m + 1 /\ k <= m /\ f[k] = g[k]
    BY <2>1
  <2>4. f[m + 1] = step[m + 1][g[m]] /\ f[0] = base /\ f[m] = g[m]
    BY <2>1, <2>2, <2>3
  <2>5. f = [k \in 0..m + 1 |-> f[k]]
    OBVIOUS
  <2>6. ASSUME NEW k \in 1..m + 1 PROVE f[k] = step[k][f[k - 1]]
    <3> HIDE DEF f
    <3>1. CASE k <= m
      <4>1. k \in 1..m /\ k - 1 \in 0..m /\ k \in 0..m
        BY <2>1, <3>1
      <4> QED
        BY <2>2, <2>3, <4>1
    <3>2. CASE k = m + 1
      <4>1. k - 1 = m
        BY <2>1, <3>2
      <4> QED
        BY <2>4, <4>1, <3>2
    <3> QED
      BY <2>1, <3>1, <3>2
  <2> HIDE DEF f
  <2>7. R(m + 1, f)
    BY <2>4, <2>5, <2>6
  <2> QED
    BY <2>1, <2>7
<1>3. S = Nat
  <2> HIDE DEF S
  <2>1. S \in SUBSET Nat
    BY DEF S
  <2> QED
    BY <1>1, <1>2, <2>1, SetInduction
<1>4. \E f : R(n, f)
  BY <1>3
<1> QED
  BY <1>4 DEF Solution


\* It stays in a set its steps do not leave.
LEMMA RecursionTyped ==
    ASSUME NEW n \in Nat, NEW X, NEW base \in X, NEW step,
           \A k \in 1..n : \A x \in X : step[k][x] \in X
    PROVE  Solution(n, base, step) \in [0..n -> X]
<1> DEFINE f == Solution(n, base, step)
           S == {k \in 0..n : f[k] \in X}
<1>1. f = [k \in 0..n |-> f[k]] /\ f[0] = base /\ \A k \in 1..n : f[k] = step[k][f[k - 1]]
  BY RecursionSolved
<1> HIDE DEF f
<1>2. 0 \in S
  BY <1>1
<1>3. \A k \in 0..n - 1 : k \in S => k + 1 \in S
  <2> TAKE k \in 0..n - 1
  <2>1. k + 1 \in 1..n /\ (k + 1) - 1 = k /\ k + 1 \in 0..n
    OBVIOUS
  <2>2. f[k + 1] = step[k + 1][f[k]]
    BY <1>1, <2>1
  <2> QED
    BY <2>1, <2>2
<1>4. \A k \in 0..n : k \in S
  <2> HIDE DEF S
  <2> QED
    BY <1>2, <1>3, Induction
<1>5. f \in [0..n -> X]
  BY <1>1, <1>4
<1> QED
  BY <1>5 DEF f

-----------------------------------------------------------------------------
(***************************************************************************)
(* Numbers and their bytes.                                                *)
(***************************************************************************)

UnsignedUpTo(s) ==
    CHOOSE f : f = [k \in 0..Len(s) |-> IF k = 0 THEN 0 ELSE 256 * f[k - 1] + s[k]]

ThenByte(n, b) == 256 * n + b

\* A number is had byte by byte, the first byte the highest.
LEMMA UnsignedSteps ==
    ASSUME NEW s, NEW m \in Nat, Len(s) = m, \A k \in 1..m : s[k] \in Int
    PROVE  /\ Unsigned(s) = UnsignedUpTo(s)[m] /\ UnsignedUpTo(s)[0] = 0
           /\ \A k \in 1..m : UnsignedUpTo(s)[k] = ThenByte(UnsignedUpTo(s)[k - 1], s[k])
           /\ \A k \in 0..m : UnsignedUpTo(s)[k] \in Int
<1> DEFINE R(f) == f = [k \in 0..m |-> IF k = 0 THEN 0 ELSE 256 * f[k - 1] + s[k]]
           F == UnsignedUpTo(s)
           step == [k \in 1..m |-> [x \in Int |-> 256 * x + s[k]]]
           f == Solution(m, 0, step)
<1>1. \A k \in 1..m : \A x \in Int : step[k][x] = 256 * x + s[k] /\ step[k][x] \in Int
  OBVIOUS
<1>2. Unsigned(s) = F[m]
  BY DEF Unsigned, UnsignedUpTo
<1> HIDE DEF F, step
<1>3. f = [k \in 0..m |-> f[k]] /\ f[0] = 0 /\ \A k \in 1..m : f[k] = step[k][f[k - 1]]
  BY RecursionSolved
<1>4. f \in [0..m -> Int]
  <2> DEFINE X == Int
             base == 0
  <2>1. \A k \in 1..m : \A x \in X : step[k][x] \in X
    BY <1>1, Zenon
  <2>3. base \in X
    OBVIOUS
  <2> HIDE DEF X, base
  <2>2. Solution(m, base, step) \in [0..m -> X]
    BY <2>1, <2>3, RecursionTyped
  <2> QED
    BY <2>2 DEF X, base
<1> HIDE DEF f
<1>5. \A k \in 1..m : f[k] = 256 * f[k - 1] + s[k]
  <2> TAKE k \in 1..m
  <2>1. k - 1 \in 0..m
    OBVIOUS
  <2>2. f[k - 1] \in Int
    BY <1>4, <2>1
  <2> QED
    BY <1>1, <1>3, <2>2
<1>6. R(f)
  <2>1. \A k \in 0..m : f[k] = IF k = 0 THEN 0 ELSE 256 * f[k - 1] + s[k]
    <3> TAKE k \in 0..m
    <3>1. k = 0 \/ k \in 1..m
      OBVIOUS
    <3> QED
      BY <1>3, <1>5, <3>1
  <2> HIDE DEF f
  <2> QED
    BY <1>3, <2>1
<1>7. R(F)
  BY <1>6 DEF F, UnsignedUpTo
<1>8. F[0] = 0 /\ \A k \in 1..m : F[k] = 256 * F[k - 1] + s[k]
  BY <1>7
<1>9. \A k \in 0..m : F[k] \in Int
  <2> DEFINE S == {k \in 0..m : F[k] \in Int}
  <2>1. 0 \in S
    BY <1>8
  <2>2. \A k \in 0..m - 1 : k \in S => k + 1 \in S
    <3> TAKE k \in 0..m - 1
    <3>1. k + 1 \in 1..m /\ (k + 1) - 1 = k /\ k + 1 \in 0..m
      OBVIOUS
    <3>2. F[k + 1] = 256 * F[k] + s[k + 1] /\ s[k + 1] \in Int
      BY <1>8, <3>1
    <3> QED
      BY <3>1, <3>2
  <2> HIDE DEF S
  <2>3. \A k \in 0..m : k \in S
    BY <2>1, <2>2, Induction
  <2> QED
    BY <2>3 DEF S
<1> QED
  BY <1>2, <1>8, <1>9, Zenon DEF F, ThenByte

\* Quotients of 256, of numbers without and with a sign
LEMMA Halved ==
    ASSUME NEW n \in Int
    PROVE  /\ n = 256 * (n \div 256) + (n % 256) /\ n \div 256 \in Int
           /\ n % 256 \in Int /\ 0 <= n % 256 /\ n % 256 <= 255
BY SMT

\* What a number divided by 256 lies between
LEMMA Quotient ==
    ASSUME NEW q \in Int, NEW low \in Int, 0 <= low, low <= 255, NEW n \in Int, n = 256 * q + low,
           NEW lo \in Int, NEW hi \in Int, 256 * lo <= n, n <= 256 * hi + 255
    PROVE  lo <= q /\ q <= hi
BY SMT

\* Dividing by 256 more than once
LEMMA Quotients ==
    ASSUME NEW n \in Int
    PROVE  /\ n \div 65536 = (n \div 256) \div 256
           /\ n \div 16777216 = ((n \div 256) \div 256) \div 256
<1>1. n \div 65536 = (n \div 256) \div 256
  BY SMT
<1>2. n \div 16777216 = (n \div 65536) \div 256
  BY SMT
<1> QED
  BY SMT, <1>1, <1>2

\* The sign of a number in its highest byte
LEMMA Top ==
    ASSUME NEW q \in Int
    PROVE  /\ 0 <= q /\ q <= 255 => q % 256 = q
           /\ 0 <= q /\ q <= 127 => (q % 256) % 128 = q
           /\ -128 <= q /\ q <= -1 => q % 256 = q + 256 /\ (q % 256) % 128 = q + 128
BY SMT

\* Two bytes put together, their sign taken from the high one
LEMMA SignedTwo ==
    ASSUME NEW n \in Int, NEW q \in Int, NEW low \in Int, n = 256 * q + low,
           NEW h \in Int, NEW g \in Int, -128 <= q, q <= 127,
           0 <= q /\ q <= 127 => h = q /\ g = q,
           -128 <= q /\ q <= -1 => h = q + 256 /\ g = q + 128
    PROVE  (IF h < 128 THEN 256 * g + low ELSE (256 * g + low) - 32768) = n
BY SMT

\* Four bytes put together, their sign taken from the highest
LEMMA SignedFour ==
    ASSUME NEW n \in Int, NEW p \in Int, NEW q \in Int, NEW r \in Int,
           NEW b \in Int, NEW c \in Int, NEW d \in Int,
           n = 256 * p + d, p = 256 * q + c, q = 256 * r + b,
           NEW h \in Int, NEW g \in Int, -128 <= r, r <= 127,
           0 <= r /\ r <= 127 => h = r /\ g = r,
           -128 <= r /\ r <= -1 => h = r + 256 /\ g = r + 128
    PROVE  (IF h < 128 THEN 256 * (256 * (256 * g + b) + c) + d
            ELSE ((256 * (256 * (256 * g + b) + c) + d) - 2147483647) - 1) = n
BY SMT

\* Two and four bytes, the high one first
LEMMA BytesOfTwo ==
    ASSUME NEW n \in Int
    PROVE  Bytes(n, 2) = <<(n \div 256) % 256, n % 256>>
<1>1. Bytes(n, 2) = [i \in 1..2 |-> (n \div 256^(2 - i)) % 256]
  BY SMT DEF Bytes
<1>2. (n \div 256^(2 - 1)) % 256 = (n \div 256) % 256 /\ (n \div 256^(2 - 2)) % 256 = n % 256
  BY SMT
<1> QED
  BY SMT, <1>1, <1>2

\* The four bytes of a number
LEMMA BytesOfFour ==
    ASSUME NEW n \in Int, NEW a, NEW b, NEW c, NEW d,
           a = (n \div 16777216) % 256, b = (n \div 65536) % 256,
           c = (n \div 256) % 256, d = n % 256
    PROVE  Bytes(n, 4) = <<a, b, c, d>>
<1>1. Bytes(n, 4) = [i \in 1..4 |-> (n \div 256^(4 - i)) % 256]
  BY SMT DEF Bytes
<1>2. /\ (n \div 256^(4 - 1)) % 256 = a
      /\ (n \div 256^(4 - 2)) % 256 = b
      /\ (n \div 256^(4 - 3)) % 256 = c
      /\ (n \div 256^(4 - 4)) % 256 = d
  BY SMT
<1> QED
  BY SMT, <1>1, <1>2

\* The one byte of a number
LEMMA BytesOfOne ==
    ASSUME NEW n \in Int
    PROVE  Bytes(n, 1) = <<n % 256>>
<1>1. Bytes(n, 1) = [i \in 1..1 |-> (n \div 256^(1 - i)) % 256]
  BY SMT DEF Bytes
<1>2. (n \div 256^(1 - 1)) % 256 = n % 256
  BY SMT
<1> QED
  BY SMT, <1>1, <1>2

\* One byte read as a number
LEMMA UnsignedOfOne ==
    ASSUME NEW a \in Int
    PROVE  Unsigned(<<a>>) = a
<1> DEFINE s == <<a>>
           m == 1
           f == UnsignedUpTo(s)
<1>1. Len(s) = m /\ m \in Nat /\ \A k \in 1..m : s[k] \in Int
  BY SMT
<1>2. s[1] = a
  BY SMT
<1> HIDE DEF s, m, f
<1>3. /\ Unsigned(s) = f[m] /\ f[0] = 0 /\ \A k \in 1..m : f[k] = ThenByte(f[k - 1], s[k])
      /\ \A k \in 0..m : f[k] \in Int
  BY <1>1, UnsignedSteps DEF f
<1>4. f[1] = a
  <2>1. 1 \in 1..m /\ 1 - 1 = 0 /\ 0 \in 0..m
    BY SMT DEF m
  <2>2. f[1] = ThenByte(f[0], s[1])
    BY <1>3, <2>1
  <2> QED
    BY SMT, <1>2, <2>2, <1>3 DEF ThenByte
<1> QED
  BY <1>3, <1>4 DEF s, m

\* Two bytes read as a number
LEMMA UnsignedOfTwo ==
    ASSUME NEW a \in Int, NEW b \in Int
    PROVE  Unsigned(<<a, b>>) = 256 * a + b
<1> DEFINE s == <<a, b>>
           m == 2
           f == UnsignedUpTo(s)
<1>1. Len(s) = m /\ m \in Nat /\ \A k \in 1..m : s[k] \in Int
  BY SMT
<1>2. s[1] = a /\ s[2] = b
  BY SMT
<1> HIDE DEF s, m, f
<1>3. /\ Unsigned(s) = f[m] /\ f[0] = 0 /\ \A k \in 1..m : f[k] = ThenByte(f[k - 1], s[k])
      /\ \A k \in 0..m : f[k] \in Int
  BY <1>1, UnsignedSteps DEF f
<1>4. f[1] = a
  <2>1. 1 \in 1..m /\ 1 - 1 = 0 /\ 0 \in 0..m
    BY SMT DEF m
  <2>2. f[1] = ThenByte(f[0], s[1])
    BY <1>3, <2>1
  <2> QED
    BY SMT, <1>2, <2>2, <1>3 DEF ThenByte
<1>5. f[2] = 256 * a + b
  <2>1. 2 \in 1..m /\ 2 - 1 = 1 /\ 1 \in 0..m
    BY SMT DEF m
  <2>2. f[2] = ThenByte(f[1], s[2])
    BY <1>3, <2>1
  <2> QED
    BY SMT, <1>2, <2>2, <1>4 DEF ThenByte
<1> QED
  BY <1>3, <1>5 DEF s, m

\* Four bytes read as a number
LEMMA UnsignedOfFour ==
    ASSUME NEW a \in Int, NEW b \in Int, NEW c \in Int, NEW d \in Int
    PROVE  Unsigned(<<a, b, c, d>>) = 256 * (256 * (256 * a + b) + c) + d
<1> DEFINE s == <<a, b, c, d>>
           m == 4
           f == UnsignedUpTo(s)
<1>1. Len(s) = m /\ m \in Nat /\ \A k \in 1..m : s[k] \in Int
  BY SMT
<1>2. s[1] = a /\ s[2] = b /\ s[3] = c /\ s[4] = d
  BY SMT
<1> HIDE DEF s, m, f
<1>3. /\ Unsigned(s) = f[m] /\ f[0] = 0 /\ \A k \in 1..m : f[k] = ThenByte(f[k - 1], s[k])
      /\ \A k \in 0..m : f[k] \in Int
  BY <1>1, UnsignedSteps DEF f
<1>4. f[1] = a
  <2>1. 1 \in 1..m /\ 1 - 1 = 0 /\ 0 \in 0..m
    BY SMT DEF m
  <2>2. f[1] = ThenByte(f[0], s[1])
    BY <1>3, <2>1
  <2> QED
    BY SMT, <1>2, <2>2, <1>3 DEF ThenByte
<1>5. f[2] = 256 * a + b
  <2>1. 2 \in 1..m /\ 2 - 1 = 1 /\ 1 \in 0..m
    BY SMT DEF m
  <2>2. f[2] = ThenByte(f[1], s[2])
    BY <1>3, <2>1
  <2> QED
    BY SMT, <1>2, <2>2, <1>4 DEF ThenByte
<1>6. f[3] = 256 * (256 * a + b) + c
  <2>1. 3 \in 1..m /\ 3 - 1 = 2 /\ 2 \in 0..m
    BY SMT DEF m
  <2>2. f[3] = ThenByte(f[2], s[3])
    BY <1>3, <2>1
  <2> QED
    BY SMT, <1>2, <2>2, <1>5 DEF ThenByte
<1>7. f[4] = 256 * (256 * (256 * a + b) + c) + d
  <2>1. 4 \in 1..m /\ 4 - 1 = 3 /\ 3 \in 0..m
    BY SMT DEF m
  <2>2. f[4] = ThenByte(f[3], s[4])
    BY <1>3, <2>1
  <2> QED
    BY SMT, <1>2, <2>2, <1>6 DEF ThenByte
<1> QED
  BY <1>3, <1>7 DEF s, m

\* A number of two or four bytes, without or with a sign, is got back from them.
LEMMA TwoBytes ==
    ASSUME NEW n \in Int
    PROVE  /\ 0 <= n /\ n <= 65535 => Unsigned(Bytes(n, 2)) = n
           /\ -32768 <= n /\ n <= 32767 => Twos(Bytes(n, 2)) = n
<1> DEFINE q == n \div 256
           low == n % 256
           h == q % 256
           g == h % 128
<1>1. n = 256 * q + low /\ q \in Int /\ low \in Int /\ 0 <= low /\ low <= 255
  BY Halved
<1>2. Bytes(n, 2) = <<h, low>>
  BY BytesOfTwo
<1> HIDE DEF q, low
<1>3. /\ 0 <= q /\ q <= 255 => h = q
      /\ 0 <= q /\ q <= 127 => h = q /\ g = q
      /\ -128 <= q /\ q <= -1 => h = q + 256 /\ g = q + 128
  <2>1. q \in Int
    BY <1>1
  <2>2. 0 <= q /\ q <= 127 => q <= 255
    BY SMT, <2>1
  <2> QED
    BY <2>1, <2>2, Top
<1>4. h \in Int /\ g \in Int
  BY SMT, <1>1
<1> HIDE DEF h
<1>5. [<<h, low>> EXCEPT ![1] = @ % 128] = <<g, low>>
  BY SMT
<1> HIDE DEF g
<1>6. Unsigned(<<h, low>>) = 256 * h + low /\ Unsigned(<<g, low>>) = 256 * g + low
  BY <1>1, <1>4, UnsignedOfTwo
<1>7. ASSUME 0 <= n, n <= 65535 PROVE Unsigned(Bytes(n, 2)) = n
  <2>1. 256 * 0 <= n /\ n <= 256 * 255 + 255
    BY SMT, <1>7
  <2>2. 0 <= q /\ q <= 255
    BY SMT, <1>1, <2>1, Quotient
  <2> QED
    BY SMT, <1>1, <1>2, <1>3, <1>6, <2>2
<1>8. ASSUME -32768 <= n, n <= 32767 PROVE Twos(Bytes(n, 2)) = n
  <2>1. 256 * (-128) <= n /\ n <= 256 * 127 + 255
    BY SMT, <1>8
  <2>2. -128 <= q /\ q <= 127
    BY SMT, <1>1, <2>1, Quotient
  <2>3. (IF h < 128 THEN 256 * g + low ELSE (256 * g + low) - 32768) = n
    BY <1>1, <1>3, <1>4, <2>2, SignedTwo
  <2>4. <<h, low>>[1] = h /\ Len(<<h, low>>) = 2
    BY SMT
  <2>5. Twos(<<h, low>>) = IF h < 128 THEN 256 * g + low ELSE (256 * g + low) - 32768
    BY <1>5, <1>6, <2>4 DEF Twos
  <2> QED
    BY <1>2, <2>3, <2>5
<1> QED
  BY <1>7, <1>8

\* A 32-bit number comes back from its four bytes, with or without its sign.
LEMMA FourBytes ==
    ASSUME NEW n \in Int, -2147483647 - 1 <= n, n <= 2147483647
    PROVE  /\ 0 <= n => Unsigned(Bytes(n, 4)) = n
           /\ Twos(Bytes(n, 4)) = n
<1> DEFINE p == n \div 256
           q == p \div 256
           r == q \div 256
           d == n % 256
           c == p % 256
           b == q % 256
           h == r % 256
           g == h % 128
<1>1. n = 256 * p + d /\ p \in Int /\ d \in Int /\ 0 <= d /\ d <= 255
  BY Halved
<1>2. p = 256 * q + c /\ q \in Int /\ c \in Int /\ 0 <= c /\ c <= 255
  <2> HIDE DEF p
  <2> QED
    BY <1>1, Halved
<1>3. q = 256 * r + b /\ r \in Int /\ b \in Int /\ 0 <= b /\ b <= 255
  <2> HIDE DEF q
  <2> QED
    BY <1>2, Halved
<1>4. Bytes(n, 4) = <<h, b, c, d>>
  <2>1. /\ h = (n \div 16777216) % 256 /\ b = (n \div 65536) % 256
        /\ c = (n \div 256) % 256 /\ d = n % 256
    BY SMT, Quotients
  <2> HIDE DEF h, b, c, d
  <2> QED
    BY SMT, <2>1, BytesOfFour
<1> HIDE DEF p, q, r, b, c, d
<1>5. -128 <= r /\ r <= 127 /\ (0 <= n => 0 <= r)
  <2>1. 256 * (-8388608) <= n /\ n <= 256 * 8388607 + 255
    BY SMT
  <2>2. -8388608 <= p /\ p <= 8388607
    BY SMT, <1>1, <2>1, Quotient
  <2>3. 256 * (-32768) <= p /\ p <= 256 * 32767 + 255
    BY SMT, <1>2, <2>2
  <2>4. -32768 <= q /\ q <= 32767
    BY SMT, <1>1, <1>2, <2>3, Quotient
  <2>5. 256 * (-128) <= q /\ q <= 256 * 127 + 255
    BY SMT, <1>2, <2>4
  <2>6. -128 <= r /\ r <= 127
    BY SMT, <1>2, <1>3, <2>5, Quotient
  <2>7. 0 <= n => 0 <= p
    BY SMT, <1>1
  <2>8. 0 <= p => 0 <= q
    BY SMT, <1>1, <1>2
  <2>9. 0 <= q => 0 <= r
    BY SMT, <1>2, <1>3
  <2> QED
    BY SMT, <2>6, <2>7, <2>8, <2>9
<1>6. /\ 0 <= r /\ r <= 127 => h = r /\ g = r
      /\ -128 <= r /\ r <= -1 => h = r + 256 /\ g = r + 128
  <2>2. 0 <= r /\ r <= 127 => r <= 255
    BY SMT, <1>3
  <2> QED
    BY <1>3, <2>2, Top
<1>7. h \in Int /\ g \in Int
  BY SMT, <1>3
<1> HIDE DEF h
<1>8. [<<h, b, c, d>> EXCEPT ![1] = @ % 128] = <<g, b, c, d>>
  BY SMT
<1> HIDE DEF g
<1>9. /\ Unsigned(<<h, b, c, d>>) = 256 * (256 * (256 * h + b) + c) + d
      /\ Unsigned(<<g, b, c, d>>) = 256 * (256 * (256 * g + b) + c) + d
  BY <1>1, <1>2, <1>3, <1>7, UnsignedOfFour
<1>10. ASSUME 0 <= n PROVE Unsigned(Bytes(n, 4)) = n
  <2>1. h = r
    BY <1>5, <1>6, <1>10
  <2> QED
    BY SMT, <1>1, <1>2, <1>3, <1>4, <1>9, <2>1
<1>11. Twos(Bytes(n, 4)) = n
  <2>3. (IF h < 128 THEN 256 * (256 * (256 * g + b) + c) + d
            ELSE ((256 * (256 * (256 * g + b) + c) + d) - 2147483647) - 1) = n
    BY SMT, <1>1, <1>2, <1>3, <1>5, <1>6, <1>7, SignedFour
  <2>4. <<h, b, c, d>>[1] = h /\ Len(<<h, b, c, d>>) # 2
    BY SMT
  <2>5. Twos(<<h, b, c, d>>) = IF h < 128 THEN 256 * (256 * (256 * g + b) + c) + d
            ELSE ((256 * (256 * (256 * g + b) + c) + d) - 2147483647) - 1
    BY <1>8, <1>9, <2>4, SMT DEF Twos
  <2> QED
    BY SMT, <1>4, <2>3, <2>5
<1> QED
  BY <1>10, <1>11

-----------------------------------------------------------------------------
(***************************************************************************)
(* The registry.                                                           *)
(***************************************************************************)

\* The specs of the first rows
LoadedUpTo(rows) ==
    CHOOSE f : f = [k \in 0..Len(rows) |-> IF k = 0 THEN <<>> ELSE WithRow(f[k - 1], rows[k])]

\* They are had by taking one row after another.
LEMMA LoadedSteps ==
    ASSUME NEW rows, NEW n \in Nat, Len(rows) = n
    PROVE  /\ LoadParameters(rows) = LoadedUpTo(rows)[n] /\ LoadedUpTo(rows)[0] = <<>>
           /\ \A k \in 1..n : LoadedUpTo(rows)[k] = WithRow(LoadedUpTo(rows)[k - 1], rows[k])
<1> DEFINE R(m, f) == f = [k \in 0..m |-> IF k = 0 THEN <<>> ELSE WithRow(f[k - 1], rows[k])]
           S == {m \in Nat : \E f : R(m, f)}
           F == LoadedUpTo(rows)
<1>1. 0 \in S
  <2> DEFINE f == [k \in 0..0 |-> <<>>]
  <2>1. R(0, f)
    OBVIOUS
  <2> QED
    BY <2>1
<1>2. \A m \in S : m + 1 \in S
  <2> TAKE m \in S
  <2>1. m \in Nat /\ m + 1 \in Nat
    OBVIOUS
  <2>2. PICK g : R(m, g)
    OBVIOUS
  <2> DEFINE f == [k \in 0..m + 1 |-> IF k <= m THEN g[k] ELSE WithRow(g[m], rows[m + 1])]
  <2>3. \A k \in 0..m : f[k] = g[k]
    BY <2>1
  <2>4. f[m + 1] = WithRow(g[m], rows[m + 1])
    BY <2>1
  <2>5. f = [k \in 0..m + 1 |-> f[k]]
    OBVIOUS
  <2> HIDE DEF f
  <2>6. \A k \in 0..m + 1 : f[k] = IF k = 0 THEN <<>> ELSE WithRow(f[k - 1], rows[k])
    <3> TAKE k \in 0..m + 1
    <3>1. CASE k = 0
      BY <2>1, <2>2, <2>3, <3>1
    <3>2. CASE k \in 1..m
      <4>1. k \in 0..m /\ k - 1 \in 0..m /\ k # 0
        BY <2>1, <3>2
      <4>2. f[k] = g[k] /\ f[k - 1] = g[k - 1]
        BY <2>3, <4>1
      <4>3. g[k] = WithRow(g[k - 1], rows[k])
        BY <2>2, <4>1
      <4> QED
        BY <4>1, <4>2, <4>3
    <3>3. CASE k = m + 1
      <4>1. k - 1 = m /\ m \in 0..m /\ k # 0
        BY <2>1, <3>3
      <4> QED
        BY <2>3, <2>4, <3>3, <4>1
    <3> QED
      BY <2>1, <3>1, <3>2, <3>3
  <2>7. R(m + 1, f)
    BY <2>5, <2>6
  <2> QED
    BY <2>1, <2>7
<1>3. S = Nat
  <2>1. S \in SUBSET Nat
    OBVIOUS
  <2> HIDE DEF S
  <2> QED
    BY <1>1, <1>2, <2>1, SetInduction
<1>4. PICK f : R(n, f)
  BY <1>3
<1>5. R(n, F)
  BY <1>4 DEF LoadedUpTo
<1> HIDE DEF F
<1>6. F[0] = <<>> /\ \A k \in 1..n : F[k] = WithRow(F[k - 1], rows[k])
  BY <1>5
<1>7. LoadParameters(rows) = F[n]
  BY DEF F, LoadedUpTo, LoadParameters
<1> QED
  BY <1>6, <1>7 DEF F

\* The index of the first specs
NoSpecs == [specs |-> <<>>, by_id |-> <<>>, by_name |-> <<>>]
WithSpec(index, spec, overrides) == Indexed(index, Renamed(spec, overrides), overrides)
IndexUpTo(specs, overrides) ==
    CHOOSE f : f = [k \in 0..Len(specs) |-> IF k = 0 THEN NoSpecs ELSE WithSpec(f[k - 1], specs[k], overrides)]

\* It is had by taking one spec after another.
LEMMA IndexSteps ==
    ASSUME NEW specs, NEW overrides, NEW n \in Nat, Len(specs) = n
    PROVE  /\ NewRegistry(specs, overrides) = IndexUpTo(specs, overrides)[n] /\ IndexUpTo(specs, overrides)[0] = NoSpecs
           /\ \A k \in 1..n : IndexUpTo(specs, overrides)[k] = WithSpec(IndexUpTo(specs, overrides)[k - 1], specs[k], overrides)
<1> DEFINE R(m, f) == f = [k \in 0..m |-> IF k = 0 THEN NoSpecs ELSE WithSpec(f[k - 1], specs[k], overrides)]
           S == {m \in Nat : \E f : R(m, f)}
           F == IndexUpTo(specs, overrides)
<1>1. 0 \in S
  <2> DEFINE f == [k \in 0..0 |-> NoSpecs]
  <2>1. R(0, f)
    OBVIOUS
  <2> QED
    BY <2>1
<1>2. \A m \in S : m + 1 \in S
  <2> TAKE m \in S
  <2>1. m \in Nat /\ m + 1 \in Nat
    OBVIOUS
  <2>2. PICK g : R(m, g)
    OBVIOUS
  <2> DEFINE f == [k \in 0..m + 1 |-> IF k <= m THEN g[k] ELSE WithSpec(g[m], specs[m + 1], overrides)]
  <2>3. \A k \in 0..m : f[k] = g[k]
    BY <2>1
  <2>4. f[m + 1] = WithSpec(g[m], specs[m + 1], overrides)
    BY <2>1
  <2>5. f = [k \in 0..m + 1 |-> f[k]]
    OBVIOUS
  <2> HIDE DEF f
  <2>6. \A k \in 0..m + 1 : f[k] = IF k = 0 THEN NoSpecs ELSE WithSpec(f[k - 1], specs[k], overrides)
    <3> TAKE k \in 0..m + 1
    <3>1. CASE k = 0
      BY <2>1, <2>2, <2>3, <3>1
    <3>2. CASE k \in 1..m
      <4>1. k \in 0..m /\ k - 1 \in 0..m /\ k # 0
        BY <2>1, <3>2
      <4>2. f[k] = g[k] /\ f[k - 1] = g[k - 1]
        BY <2>3, <4>1
      <4>3. g[k] = WithSpec(g[k - 1], specs[k], overrides)
        BY <2>2, <4>1
      <4> QED
        BY <4>1, <4>2, <4>3
    <3>3. CASE k = m + 1
      <4>1. k - 1 = m /\ m \in 0..m /\ k # 0
        BY <2>1, <3>3
      <4> QED
        BY <2>3, <2>4, <3>3, <4>1
    <3> QED
      BY <2>1, <3>1, <3>2, <3>3
  <2>7. R(m + 1, f)
    BY <2>5, <2>6
  <2> QED
    BY <2>1, <2>7
<1>3. S = Nat
  <2>1. S \in SUBSET Nat
    OBVIOUS
  <2> HIDE DEF S
  <2> QED
    BY <1>1, <1>2, <2>1, SetInduction
<1>4. PICK f : R(n, f)
  BY <1>3
<1>5. R(n, F)
  BY <1>4 DEF IndexUpTo
<1> HIDE DEF F
<1>6. F[0] = NoSpecs /\ \A k \in 1..n : F[k] = WithSpec(F[k - 1], specs[k], overrides)
  BY <1>5
<1>7. NewRegistry(specs, overrides) = F[n]
  BY DEF F, IndexUpTo, NewRegistry, NoSpecs, WithSpec
<1> QED
  BY <1>6, <1>7 DEF F

\* The first row of its id that can be loaded
First(rows, j) ==
    /\ Loadable(rows[j])
    /\ \A m \in 1..j - 1 : ~(rows[m].id = rows[j].id /\ Loadable(rows[m]))

\* What is loaded after k rows: one spec for each id, of the first row that has it.
LoadedWell(rows, k, specs) ==
    /\ specs \in Seq({BuildSpec(rows[j]) : j \in DOMAIN rows})
    /\ \A i \in 1..Len(specs) : \E j \in 1..k : First(rows, j) /\ specs[i] = BuildSpec(rows[j])
    /\ \A j \in 1..k : Loadable(rows[j]) => \E i \in 1..Len(specs) : specs[i].id = rows[j].id
    /\ \A i, j \in 1..Len(specs) : specs[i].id = specs[j].id => i = j

\* A row's spec has its id.
LEMMA BuiltId ==
    ASSUME NEW row
    PROVE  BuildSpec(row).id = row.id
BY DEF BuildSpec

\* A row is either passed over or adds its spec at the end.
LEMMA RowAdded ==
    ASSUME NEW B, NEW specs \in Seq(B), NEW row, BuildSpec(row) \in B
    PROVE  \/ /\ WithRow(specs, row) = specs
              /\ Loadable(row) => \E i \in 1..Len(specs) : specs[i].id = row.id
           \/ /\ WithRow(specs, row) \in Seq(B)
              /\ Len(WithRow(specs, row)) = Len(specs) + 1
              /\ Loadable(row) /\ \A i \in 1..Len(specs) : specs[i].id # row.id
              /\ WithRow(specs, row)[Len(specs) + 1] = BuildSpec(row)
              /\ \A i \in 1..Len(specs) : WithRow(specs, row)[i] = specs[i]
<1> DEFINE spec == BuildSpec(row)
<1>1. DOMAIN specs = 1..Len(specs) /\ Len(specs) \in Nat
  OBVIOUS
<1>2. CASE ~Loadable(row) \/ \E i \in DOMAIN specs : specs[i].id = row.id
  BY <1>1, <1>2 DEF WithRow
<1>3. CASE Loadable(row) /\ ~\E i \in DOMAIN specs : specs[i].id = row.id
  <2>1. WithRow(specs, row) = Append(specs, spec)
    BY <1>3 DEF WithRow
  <2> HIDE DEF spec
  <2>2. spec \in B
    BY DEF spec
  <2>3. /\ Append(specs, spec) \in Seq(B) /\ Len(Append(specs, spec)) = Len(specs) + 1
        /\ Append(specs, spec)[Len(specs) + 1] = spec
        /\ \A i \in 1..Len(specs) : Append(specs, spec)[i] = specs[i]
    BY <2>2
  <2> QED
    BY <1>1, <1>3, <2>1, <2>3 DEF spec
<1> QED
  BY <1>2, <1>3

\* load_parameters takes one row more: its spec is added, unless its id is there.
LEMMA LoadedWellStep ==
    ASSUME NEW rows, NEW n \in Nat, DOMAIN rows = 1..n, NEW k \in 0..n - 1, NEW specs,
           LoadedWell(rows, k, specs)
    PROVE  LoadedWell(rows, k + 1, WithRow(specs, rows[k + 1]))
<1> DEFINE B == {BuildSpec(rows[j]) : j \in DOMAIN rows}
           row == rows[k + 1]
           grown == WithRow(specs, row)
           len == Len(specs)
<1>1. k + 1 \in 1..n /\ k + 1 \in 1..k + 1 /\ BuildSpec(row) \in B /\ specs \in Seq(B)
  BY DEF LoadedWell
<1>2. /\ \A i \in 1..len : \E j \in 1..k : First(rows, j) /\ specs[i] = BuildSpec(rows[j])
      /\ \A j \in 1..k : Loadable(rows[j]) => \E i \in 1..len : specs[i].id = rows[j].id
      /\ \A i, j \in 1..len : specs[i].id = specs[j].id => i = j
  BY DEF LoadedWell
<1>3. len \in Nat
  BY <1>1
<1>4. \/ /\ grown = specs
         /\ Loadable(row) => \E i \in 1..len : specs[i].id = row.id
      \/ /\ grown \in Seq(B)
         /\ Len(grown) = len + 1
         /\ Loadable(row) /\ \A i \in 1..len : specs[i].id # row.id
         /\ grown[len + 1] = BuildSpec(row)
         /\ \A i \in 1..len : grown[i] = specs[i]
  <2> HIDE DEF B, row
  <2> QED
    BY <1>1, RowAdded
<1>5. \A j \in 1..k + 1 : j \in 1..k \/ j = k + 1
  OBVIOUS
<1>6. 1..k \subseteq 1..k + 1
  OBVIOUS
<1>7. \A i \in 1..len + 1 : i \in 1..len \/ i = len + 1
  BY <1>3
<1> HIDE DEF grown, len
<1>8. CASE grown = specs /\ (Loadable(row) => \E i \in 1..len : specs[i].id = row.id)
  <2>1. \A i \in 1..len : \E j \in 1..k + 1 : First(rows, j) /\ specs[i] = BuildSpec(rows[j])
    BY <1>2, <1>6
  <2>2. \A j \in 1..k + 1 : Loadable(rows[j]) => \E i \in 1..len : specs[i].id = rows[j].id
    BY <1>2, <1>5, <1>8
  <2>3. LoadedWell(rows, k + 1, specs)
    BY <1>1, <1>2, <2>1, <2>2 DEF LoadedWell, len
  <2> QED
    BY <1>8, <2>3 DEF grown
<1>9. CASE /\ grown \in Seq(B) /\ Len(grown) = len + 1
           /\ Loadable(row) /\ \A i \in 1..len : specs[i].id # row.id
           /\ grown[len + 1] = BuildSpec(row)
           /\ \A i \in 1..len : grown[i] = specs[i]
  <2>1. First(rows, k + 1)
    <3>1. SUFFICES ASSUME NEW m \in 1..k, rows[m].id = row.id, Loadable(rows[m]) PROVE FALSE
      <4>1. (k + 1) - 1 = k
        OBVIOUS
      <4> QED
        BY <1>9, <4>1 DEF First
    <3>2. PICK i \in 1..len : specs[i].id = rows[m].id
      BY <1>2, <3>1
    <3> QED
      BY <1>9, <3>1, <3>2
  <2>2. \A i \in 1..len + 1 : \E j \in 1..k + 1 : First(rows, j) /\ grown[i] = BuildSpec(rows[j])
    <3> TAKE i \in 1..len + 1
    <3>1. CASE i \in 1..len
      <4>1. PICK j \in 1..k : First(rows, j) /\ specs[i] = BuildSpec(rows[j])
        BY <1>2, <3>1
      <4>2. grown[i] = specs[i] /\ j \in 1..k + 1
        BY <1>6, <1>9, <3>1
      <4> QED
        BY <4>1, <4>2
    <3>2. CASE i = len + 1
      BY <1>1, <1>9, <2>1, <3>2
    <3> QED
      BY <1>7, <3>1, <3>2
  <2>3. grown[len + 1].id = row.id
    BY <1>9, BuiltId
  <2>4. \A j \in 1..k + 1 : Loadable(rows[j]) => \E i \in 1..len + 1 : grown[i].id = rows[j].id
    <3> TAKE j \in 1..k + 1
    <3> HAVE Loadable(rows[j])
    <3>1. CASE j \in 1..k
      <4>1. PICK i \in 1..len : specs[i].id = rows[j].id
        BY <1>2, <3>1
      <4>2. grown[i] = specs[i] /\ i \in 1..len + 1
        BY <1>3, <1>9
      <4> QED
        BY <4>1, <4>2
    <3>2. CASE j = k + 1
      <4>1. len + 1 \in 1..len + 1
        BY <1>3
      <4> QED
        BY <2>3, <3>2, <4>1
    <3> QED
      BY <1>5, <3>1, <3>2
  <2>5. \A i, j \in 1..len + 1 : grown[i].id = grown[j].id => i = j
    <3> TAKE i, j \in 1..len + 1
    <3>1. CASE i \in 1..len /\ j \in 1..len
      BY <1>2, <1>9, <3>1
    <3>2. CASE i = len + 1 /\ j = len + 1
      BY <3>2
    <3>3. CASE i = len + 1 /\ j \in 1..len
      <4>1. grown[j] = specs[j] /\ specs[j].id # row.id
        BY <1>9, <3>3
      <4> QED
        BY <2>3, <3>3, <4>1
    <3>4. CASE i \in 1..len /\ j = len + 1
      <4>1. grown[i] = specs[i] /\ specs[i].id # row.id
        BY <1>9, <3>4
      <4> QED
        BY <2>3, <3>4, <4>1
    <3> QED
      BY <1>7, <3>1, <3>2, <3>3, <3>4
  <2> HIDE DEF row
  <2>6. LoadedWell(rows, k + 1, grown)
    BY <1>9, <2>2, <2>4, <2>5 DEF LoadedWell
  <2> QED
    BY <2>6 DEF grown, row
<1> HIDE DEF B, row
<1> QED
  BY <1>4, <1>8, <1>9

\* load_parameters has a spec for the first loadable row of every id, and no other.
LEMMA Loaded ==
    ASSUME NEW rows, NEW n \in Nat, Len(rows) = n, DOMAIN rows = 1..n
    PROVE  LoadedWell(rows, n, LoadParameters(rows))
<1> DEFINE L == LoadedUpTo(rows)
           S == {k \in 0..n : LoadedWell(rows, k, L[k])}
<1>1. /\ LoadParameters(rows) = L[n] /\ L[0] = <<>>
      /\ \A k \in 1..n : L[k] = WithRow(L[k - 1], rows[k])
  BY LoadedSteps
<1> HIDE DEF L
<1>2. 0 \in S
  <2>1. <<>> \in Seq({BuildSpec(rows[j]) : j \in DOMAIN rows}) /\ Len(<<>>) = 0
    OBVIOUS
  <2>2. \A i \in 1..0 : FALSE
    OBVIOUS
  <2>3. LoadedWell(rows, 0, <<>>)
    BY <2>1, <2>2 DEF LoadedWell
  <2> QED
    BY <1>1, <2>3
<1>3. \A k \in 0..n - 1 : k \in S => k + 1 \in S
  <2> TAKE k \in 0..n - 1
  <2> HAVE k \in S
  <2>1. k + 1 \in 1..n /\ k + 1 \in 0..n /\ (k + 1) - 1 = k
    OBVIOUS
  <2>2. L[k + 1] = WithRow(L[k], rows[k + 1])
    BY <1>1, <2>1
  <2>3. LoadedWell(rows, k + 1, L[k + 1])
    BY <2>2, LoadedWellStep
  <2> QED
    BY <2>1, <2>3
<1>4. \A k \in 0..n : k \in S
  <2> HIDE DEF S
  <2> QED
    BY <1>2, <1>3, Induction
<1> QED
  BY <1>1, <1>4

\* The names of a spec
NamesOf(spec) == {spec.name} \cup spec.aliases

\* What is indexed of the first k of some specs: each by its id, those that own their
\* names by all of them, and nothing else.
IndexedWell(r, k, overrides, index) ==
    /\ DOMAIN index.by_id = {r[i].id : i \in 1..k}
    /\ \A i \in 1..k : index.by_id[r[i].id] = r[i]
    /\ \A name \in DOMAIN index.by_name :
         \E i \in 1..k : /\ index.by_name[name] = r[i]
                         /\ Owned(r[i], overrides) /\ name \in NamesOf(r[i])
    /\ \A i \in 1..k : Owned(r[i], overrides) => NamesOf(r[i]) \subseteq DOMAIN index.by_name

\* The index takes one spec more.
LEMMA IndexedWellStep ==
    ASSUME NEW r, NEW n \in Nat, \A i, j \in 1..n : r[i].id = r[j].id => i = j,
           NEW k \in 0..n - 1, NEW overrides, NEW index, IndexedWell(r, k, overrides, index)
    PROVE  IndexedWell(r, k + 1, overrides, Indexed(index, r[k + 1], overrides))
<1> DEFINE spec == r[k + 1]
           grown == Indexed(index, spec, overrides)
<1>1. k + 1 \in 1..n /\ k + 1 \in 1..k + 1 /\ 1..k \subseteq 1..k + 1 /\ 1..k \subseteq 1..n
  OBVIOUS
<1>2. \A i \in 1..k + 1 : i \in 1..k \/ i = k + 1
  OBVIOUS
<1>3. \A i \in 1..k : r[i].id # spec.id
  <2> TAKE i \in 1..k
  <2>1. i \in 1..n /\ i # k + 1
    OBVIOUS
  <2> QED
    BY <1>1, <2>1
<1>4. /\ grown.by_id = [id \in {spec.id} \cup DOMAIN index.by_id |->
                          IF id = spec.id THEN spec ELSE index.by_id[id]]
      /\ grown.by_name =
           IF ~Owned(spec, overrides) THEN index.by_name
           ELSE [name \in {spec.name} \cup spec.aliases \cup DOMAIN index.by_name |->
                   IF name # spec.name /\ name \in DOMAIN index.by_name
                   THEN index.by_name[name] ELSE spec]
  BY DEF Indexed
<1> HIDE DEF grown, spec
<1>5. DOMAIN grown.by_id = {r[i].id : i \in 1..k + 1}
  <2>1. DOMAIN index.by_id = {r[i].id : i \in 1..k}
    BY DEF IndexedWell
  <2>2. DOMAIN grown.by_id = {spec.id} \cup DOMAIN index.by_id
    BY <1>4
  <2> QED
    BY <1>1, <1>2, <2>1, <2>2 DEF spec
<1>6. \A i \in 1..k + 1 : grown.by_id[r[i].id] = r[i]
  <2> TAKE i \in 1..k + 1
  <2>1. CASE i = k + 1
    BY <1>4, <2>1 DEF spec
  <2>2. CASE i \in 1..k
    <3>1. r[i].id \in DOMAIN index.by_id /\ index.by_id[r[i].id] = r[i]
      BY <2>2 DEF IndexedWell
    <3>2. r[i].id # spec.id
      BY <1>3, <2>2
    <3> QED
      BY <1>4, <3>1, <3>2
  <2> QED
    BY <1>2, <2>1, <2>2
<1>7. ASSUME NEW name \in DOMAIN grown.by_name
      PROVE  \E i \in 1..k + 1 : /\ grown.by_name[name] = r[i]
                                 /\ Owned(r[i], overrides) /\ name \in NamesOf(r[i])
  <2>1. ASSUME name \in DOMAIN index.by_name, grown.by_name[name] = index.by_name[name]
        PROVE  \E i \in 1..k + 1 : /\ grown.by_name[name] = r[i]
                                   /\ Owned(r[i], overrides) /\ name \in NamesOf(r[i])
    <3>1. PICK i \in 1..k : /\ index.by_name[name] = r[i]
                            /\ Owned(r[i], overrides) /\ name \in NamesOf(r[i])
      BY <2>1 DEF IndexedWell
    <3> QED
      BY <1>1, <2>1, <3>1
  <2>2. CASE ~Owned(spec, overrides)
    BY <1>4, <1>7, <2>1, <2>2
  <2>3. CASE Owned(spec, overrides)
    <3>1. CASE name # spec.name /\ name \in DOMAIN index.by_name
      BY <1>4, <1>7, <2>1, <2>3, <3>1
    <3>2. CASE name = spec.name \/ name \notin DOMAIN index.by_name
      <4>1. name \in NamesOf(spec) /\ grown.by_name[name] = spec
        BY <1>4, <1>7, <2>3, <3>2 DEF NamesOf
      <4> QED
        BY <1>1, <2>3, <4>1 DEF spec
    <3> QED
      BY <3>1, <3>2
  <2> QED
    BY <2>2, <2>3
<1>8. ASSUME NEW i \in 1..k + 1, Owned(r[i], overrides)
      PROVE  NamesOf(r[i]) \subseteq DOMAIN grown.by_name
  <2>1. DOMAIN index.by_name \subseteq DOMAIN grown.by_name
    BY <1>4
  <2>2. CASE i \in 1..k
    BY <1>8, <2>1, <2>2 DEF IndexedWell
  <2>3. CASE i = k + 1
    BY <1>4, <1>8, <2>3 DEF spec, NamesOf
  <2> QED
    BY <1>2, <2>2, <2>3
<1> QED
  BY <1>5, <1>6, <1>7, <1>8 DEF IndexedWell, grown, spec

\* The index of a registry has every spec under its id and under the names it owns.
LEMMA IndexedAll ==
    ASSUME NEW specs, NEW overrides, NEW n \in Nat, Len(specs) = n,
           NEW r, \A i \in 1..n : r[i] = Renamed(specs[i], overrides),
           \A i, j \in 1..n : r[i].id = r[j].id => i = j
    PROVE  IndexedWell(r, n, overrides, NewRegistry(specs, overrides))
<1> DEFINE L == IndexUpTo(specs, overrides)
           S == {k \in 0..n : IndexedWell(r, k, overrides, L[k])}
<1>1. /\ NewRegistry(specs, overrides) = L[n] /\ L[0] = NoSpecs
      /\ \A k \in 1..n : L[k] = WithSpec(L[k - 1], specs[k], overrides)
  BY IndexSteps
<1> HIDE DEF L
<1>2. 0 \in S
  <2>1. DOMAIN NoSpecs.by_id = {} /\ DOMAIN NoSpecs.by_name = {}
    BY DEF NoSpecs
  <2>2. 1..0 = {}
    OBVIOUS
  <2>3. IndexedWell(r, 0, overrides, NoSpecs)
    BY <2>1, <2>2 DEF IndexedWell
  <2> QED
    BY <1>1, <2>3
<1>3. \A k \in 0..n - 1 : k \in S => k + 1 \in S
  <2> TAKE k \in 0..n - 1
  <2> HAVE k \in S
  <2>1. k + 1 \in 1..n /\ k + 1 \in 0..n /\ (k + 1) - 1 = k
    OBVIOUS
  <2>2. L[k + 1] = Indexed(L[k], r[k + 1], overrides)
    BY <1>1, <2>1 DEF WithSpec
  <2>3. IndexedWell(r, k + 1, overrides, L[k + 1])
    BY <2>2, IndexedWellStep
  <2> QED
    BY <2>1, <2>3
<1>4. \A k \in 0..n : k \in S
  <2> HIDE DEF S
  <2> QED
    BY <1>2, <1>3, Induction
<1> QED
  BY <1>1, <1>4

\* What is assumed of one installation
Tabled(plant) ==
    /\ plant.rows = [i \in 1..Len(plant.rows) |-> plant.rows[i]]
    /\ Len(plant.rows) \in Nat
    /\ \A row \in LoadableRows(plant) : RowAssumption(plant, row)

\* Its ids, and the row each is documented by
IdsOf(plant) == {row.id : row \in LoadableRows(plant)}
RowOf(plant, id) ==
    plant.rows[CHOOSE i \in DOMAIN plant.rows :
                 /\ plant.rows[i].id = id /\ Loadable(plant.rows[i])
                 /\ \A j \in 1..i - 1 : ~(plant.rows[j].id = id /\ Loadable(plant.rows[j]))]

\* The spec of an id when some decimal places have been identified
SpecOfRow(plant, row, p) ==
    [SpecFor(plant, row) EXCEPT
        !.scale = IF row.decimal = NA THEN Scale(row) ELSE ScaleOf(p)]
SpecAt(plant, id, p) == SpecOfRow(plant, RowOf(plant, id), p)

\* A registry has these specs by their ids, and by the names they own.
RegistrySound(plant, reg, p) ==
    /\ DOMAIN reg.by_id = IdsOf(plant)
    /\ \A id \in IdsOf(plant) : reg.by_id[id] = SpecAt(plant, id, p)
    /\ \A name \in DOMAIN reg.by_name :
         \E id \in IdsOf(plant) :
            /\ reg.by_name[name] = SpecAt(plant, id, p)
            /\ Owned(SpecAt(plant, id, p), Overrides(plant.family))
            /\ name \in Bears(plant, RowOf(plant, id))
    /\ \A id \in IdsOf(plant) :
         Owned(SpecAt(plant, id, p), Overrides(plant.family)) =>
            Bears(plant, RowOf(plant, id)) \subseteq DOMAIN reg.by_name

\* The fields of a spec, but for its aliases
LEMMA SpecFields ==
    ASSUME NEW plant, NEW row, NEW p
    PROVE  /\ SpecOfRow(plant, row, p).id = row.id
           /\ SpecOfRow(plant, row, p).name = SpecFor(plant, row).name
           /\ SpecOfRow(plant, row, p).aliases = SpecFor(plant, row).aliases
           /\ SpecOfRow(plant, row, p).type = DataTypeMap[row.type]
           /\ SpecOfRow(plant, row, p).kind = row.kind
           /\ SpecOfRow(plant, row, p).rwes = RwesNormalise[row.rwes]
           /\ SpecOfRow(plant, row, p).instance = 1
           /\ SpecOfRow(plant, row, p).max = row.max
           /\ SpecOfRow(plant, row, p).addr = CoerceInt(row.addr)
           /\ SpecOfRow(plant, row, p).count = RegisterCountFor(DataTypeMap[row.type])
           /\ SpecOfRow(plant, row, p).range = ParseRange(row.range)
           /\ SpecOfRow(plant, row, p).scale = IF row.decimal = NA THEN Scale(row) ELSE ScaleOf(p)
           /\ SpecOfRow(plant, row, p).decimal = row.decimal
<1> DEFINE spec == BuildSpec(row)
           name == IF spec.id \in DOMAIN Overrides(plant.family)
                   THEN Overrides(plant.family)[spec.id] ELSE spec.name
           aliases == {a \in DOMAIN Aliases : Aliases[a] = name} \cup ({spec.name} \ {name})
<1>1. SpecFor(plant, row) = [spec EXCEPT !.name = name, !.aliases = aliases]
  BY DEF SpecFor, Renamed
<1> HIDE DEF name, aliases
<1> QED
  BY <1>1 DEF SpecOfRow, BuildSpec

\* The name and the aliases of a row's spec, once it is renamed
LEMMA SpecNames ==
    ASSUME NEW plant, NEW row
    PROVE  LET overrides == Overrides(plant.family)
               name == IF row.id \in DOMAIN overrides THEN overrides[row.id]
                       ELSE CanonicalName(row)
           IN  /\ SpecFor(plant, row).id = row.id
               /\ SpecFor(plant, row).name = name
               /\ SpecFor(plant, row).aliases =
                    {a \in DOMAIN Aliases : Aliases[a] = name}
                       \cup ({CanonicalName(row)} \ {name})
<1> DEFINE spec == BuildSpec(row)
           name == IF spec.id \in DOMAIN Overrides(plant.family)
                   THEN Overrides(plant.family)[spec.id] ELSE spec.name
           aliases == {a \in DOMAIN Aliases : Aliases[a] = name} \cup ({spec.name} \ {name})
<1>1. SpecFor(plant, row) = [spec EXCEPT !.name = name, !.aliases = aliases]
  BY DEF SpecFor, Renamed
<1>2. spec.id = row.id /\ spec.name = CanonicalName(row)
  BY DEF BuildSpec
<1>3. /\ [spec EXCEPT !.name = name, !.aliases = aliases].id = spec.id
      /\ [spec EXCEPT !.name = name, !.aliases = aliases].name = name
      /\ [spec EXCEPT !.name = name, !.aliases = aliases].aliases = aliases
  <2> HIDE DEF name, aliases
  <2> QED
    BY DEF BuildSpec
<1> HIDE DEF spec
<1> QED
  BY <1>1, <1>2, <1>3

\* The first of the rows of an id is the one it is documented by.
LEMMA FirstIsDocumented ==
    ASSUME NEW plant, Tabled(plant), NEW j \in DOMAIN plant.rows, First(plant.rows, j)
    PROVE  RowOf(plant, plant.rows[j].id) = plant.rows[j]
<1> DEFINE rows == plant.rows
           id == rows[j].id
           P(i) == /\ rows[i].id = id /\ Loadable(rows[i])
                   /\ \A m \in 1..i - 1 : ~(rows[m].id = id /\ Loadable(rows[m]))
           c == CHOOSE i \in DOMAIN rows : P(i)
<1>1. DOMAIN rows = 1..Len(rows) /\ Len(rows) \in Nat
  BY DEF Tabled
<1>2. P(j)
  BY DEF First
<1>3. c \in DOMAIN rows /\ P(c)
  BY <1>2
<1>4. RowOf(plant, id) = rows[c]
  BY DEF RowOf
<1> HIDE DEF c
<1>5. c = j
  <2>1. c \in Int /\ j \in Int /\ c >= 1 /\ j >= 1
    BY <1>1, <1>3
  <2>2. CASE c < j
    <3>1. c \in 1..j - 1
      BY <2>1, <2>2
    <3> QED
      BY <1>2, <1>3, <3>1
  <2>3. CASE j < c
    <3>1. j \in 1..c - 1
      BY <2>1, <2>3
    <3> QED
      BY <1>2, <1>3, <3>1
  <2> QED
    BY <2>1, <2>2, <2>3
<1> QED
  BY <1>4, <1>5

\* So every id is documented by a row of its own, which can be loaded.
LEMMA IdDocumented ==
    ASSUME NEW plant, Tabled(plant), NEW id \in IdsOf(plant)
    PROVE  RowOf(plant, id) \in LoadableRows(plant) /\ RowOf(plant, id).id = id
<1> DEFINE rows == plant.rows
           n == Len(rows)
           specs == LoadParameters(rows)
<1>1. DOMAIN rows = 1..n /\ n \in Nat
  BY DEF Tabled
<1>2. PICK k \in 1..n : Loadable(rows[k]) /\ rows[k].id = id
  BY <1>1 DEF IdsOf, LoadableRows
<1>3. LoadedWell(rows, n, specs)
  <2> HIDE DEF n, rows
  <2> QED
    BY <1>1, Loaded DEF n
<1>4. PICK i \in 1..Len(specs) : specs[i].id = id
  BY <1>2, <1>3 DEF LoadedWell
<1>5. PICK j \in 1..n : First(rows, j) /\ specs[i] = BuildSpec(rows[j])
  BY <1>3, <1>4 DEF LoadedWell
<1>6. rows[j].id = id
  BY <1>4, <1>5, BuiltId
<1>7. RowOf(plant, id) = rows[j]
  BY <1>1, <1>5, <1>6, FirstIsDocumented
<1>8. rows[j] \in LoadableRows(plant)
  BY <1>1, <1>5 DEF LoadableRows, First
<1> QED
  BY <1>6, <1>7, <1>8

\* No decimal places are identified at first.
LEMMA ScaleOfNone == ScaleOf(0) = One
BY SMT DEF ScaleOf, One

\* Before anything is identified the scales are those of the rows.
LEMMA SpecAtFirst ==
    ASSUME NEW plant, NEW row, RowAssumption(plant, row)
    PROVE  SpecOfRow(plant, row, 0) = SpecFor(plant, row)
<1> DEFINE spec == BuildSpec(row)
           name == IF spec.id \in DOMAIN Overrides(plant.family)
                   THEN Overrides(plant.family)[spec.id] ELSE spec.name
           aliases == {a \in DOMAIN Aliases : Aliases[a] = name} \cup ({spec.name} \ {name})
           renamed == [spec EXCEPT !.name = name, !.aliases = aliases]
<1>1. SpecFor(plant, row) = renamed
  BY DEF SpecFor, Renamed
<1> HIDE DEF name, aliases
<1>2. renamed.scale = Scale(row)
  BY DEF BuildSpec
<1>3. row.decimal # NA => Scale(row) = ScaleOf(0)
  BY ScaleOfNone DEF RowAssumption, Scale
<1>4. SpecOfRow(plant, row, 0) = [renamed EXCEPT !.scale = Scale(row)]
  BY <1>1, <1>3 DEF SpecOfRow
<1>5. [renamed EXCEPT !.scale = Scale(row)] = renamed
  <2> DEFINE S == Scale(row)
  <2>1. renamed.scale = S
    BY <1>2
  <2> HIDE DEF S
  <2>2. [renamed EXCEPT !.scale = S] = renamed
    BY <2>1 DEF BuildSpec
  <2> QED
    BY <2>2 DEF S
<1> QED
  BY <1>1, <1>4, <1>5

\* The registry of an installation is sound, no decimal places identified.
THEOREM RegistryBuilt ==
    ASSUME NEW plant, Tabled(plant)
    PROVE  RegistrySound(plant, RegistryOf(plant.family, plant.rows), 0)
<1> DEFINE rows == plant.rows
           n == Len(rows)
           specs == LoadParameters(rows)
           m == Len(specs)
           ov == Overrides(plant.family)
           r == [i \in 1..m |-> Renamed(specs[i], ov)]
           reg == NewRegistry(specs, ov)
<1>1. DOMAIN rows = 1..n /\ n \in Nat
  BY DEF Tabled
<1>2. LoadedWell(rows, n, specs)
  <2> HIDE DEF n, rows
  <2> QED
    BY <1>1, Loaded DEF n
<1>3. m \in Nat
  <2> DEFINE B == {BuildSpec(rows[j]) : j \in DOMAIN rows}
  <2>1. specs \in Seq(B)
    BY <1>2 DEF LoadedWell
  <2> HIDE DEF B, specs
  <2> QED
    BY <2>1
<1>4. reg = RegistryOf(plant.family, plant.rows)
  BY DEF RegistryOf
<1>5. ASSUME NEW i \in 1..m
      PROVE  /\ r[i].id = specs[i].id /\ r[i].id \in IdsOf(plant)
             /\ r[i] = SpecAt(plant, r[i].id, 0)
             /\ NamesOf(r[i]) = Bears(plant, RowOf(plant, r[i].id))
  <2>1. PICK j \in 1..n : First(rows, j) /\ specs[i] = BuildSpec(rows[j])
    BY <1>2, <1>5 DEF LoadedWell
  <2>2. rows[j] \in LoadableRows(plant)
    BY <1>1, <2>1 DEF LoadableRows, First
  <2>3. r[i] = SpecFor(plant, rows[j])
    BY <1>5, <2>1 DEF SpecFor
  <2>4. r[i].id = rows[j].id /\ specs[i].id = rows[j].id
    BY <2>1, <2>3, SpecNames, BuiltId
  <2>5. RowOf(plant, r[i].id) = rows[j]
    BY <1>1, <2>1, <2>4, FirstIsDocumented
  <2>6. SpecOfRow(plant, rows[j], 0) = SpecFor(plant, rows[j])
    BY <2>2, SpecAtFirst DEF Tabled
  <2>7. NamesOf(r[i]) = Bears(plant, rows[j])
    BY <2>3 DEF NamesOf, Bears
  <2> HIDE DEF r, specs, rows
  <2> QED
    BY <2>2, <2>3, <2>4, <2>5, <2>6, <2>7 DEF SpecAt, IdsOf
<1>6. ASSUME NEW id \in IdsOf(plant) PROVE \E i \in 1..m : r[i].id = id
  <2>1. PICK k \in 1..n : Loadable(rows[k]) /\ rows[k].id = id
    BY <1>1 DEF IdsOf, LoadableRows
  <2>2. PICK i \in 1..m : specs[i].id = id
    BY <1>2, <2>1 DEF LoadedWell
  <2> QED
    BY <1>5, <2>2
<1>7. \A i, j \in 1..m : r[i].id = r[j].id => i = j
  <2>1. \A i, j \in 1..m : specs[i].id = specs[j].id => i = j
    BY <1>2 DEF LoadedWell
  <2> QED
    BY <1>5, <2>1
<1>8. \A i \in 1..m : r[i] = Renamed(specs[i], ov)
  OBVIOUS
<1>9. IndexedWell(r, m, ov, reg)
  <2> HIDE DEF r, specs, ov, m
  <2> QED
    BY <1>3, <1>7, <1>8, IndexedAll DEF m
<1> HIDE DEF r, specs, ov, m, reg
<1>10. DOMAIN reg.by_id = IdsOf(plant)
  <2>1. DOMAIN reg.by_id = {r[i].id : i \in 1..m}
    BY <1>9 DEF IndexedWell
  <2> QED
    BY <1>5, <1>6, <2>1
<1>11. \A id \in IdsOf(plant) : reg.by_id[id] = SpecAt(plant, id, 0)
  BY <1>5, <1>6, <1>9 DEF IndexedWell
<1>12. ASSUME NEW name \in DOMAIN reg.by_name
       PROVE  \E id \in IdsOf(plant) :
                /\ reg.by_name[name] = SpecAt(plant, id, 0)
                /\ Owned(SpecAt(plant, id, 0), ov) /\ name \in Bears(plant, RowOf(plant, id))
  <2>1. PICK i \in 1..m : reg.by_name[name] = r[i] /\ Owned(r[i], ov) /\ name \in NamesOf(r[i])
    BY <1>9, <1>12 DEF IndexedWell
  <2>2. /\ r[i].id \in IdsOf(plant) /\ r[i] = SpecAt(plant, r[i].id, 0)
        /\ NamesOf(r[i]) = Bears(plant, RowOf(plant, r[i].id))
    BY <1>5
  <2> QED
    BY <2>1, <2>2
<1>13. ASSUME NEW id \in IdsOf(plant), Owned(SpecAt(plant, id, 0), ov)
       PROVE  Bears(plant, RowOf(plant, id)) \subseteq DOMAIN reg.by_name
  <2>1. PICK i \in 1..m : r[i].id = id
    BY <1>6, <1>13
  <2>2. Owned(r[i], ov)
    BY <1>5, <1>13, <2>1
  <2>3. NamesOf(r[i]) \subseteq DOMAIN reg.by_name
    BY <1>9, <2>2 DEF IndexedWell
  <2> QED
    BY <1>5, <2>1, <2>3
<1> QED
  BY <1>4, <1>10, <1>11, <1>12, <1>13 DEF RegistrySound, ov

\* Identifying decimal places leaves it sound, if the register asked is the one that
\* all of them follow.
THEOREM RegistryIdentified ==
    ASSUME NEW plant, Tabled(plant), NEW reg, RegistrySound(plant, reg, 0),
           NEW register \in Nat, NEW p,
           \A row \in LoadableRows(plant) : row.decimal \in {NA, register}
    PROVE  RegistrySound(plant, WithDecimalPlaces(reg, register, p), p)
<1> DEFINE rescaled(spec) ==
             IF spec.decimal = register THEN [spec EXCEPT !.scale = ScaleOf(p)] ELSE spec
           new == WithDecimalPlaces(reg, register, p)
           ov == Overrides(plant.family)
<1>1. /\ new.by_id = [id \in DOMAIN reg.by_id |-> rescaled(reg.by_id[id])]
      /\ new.by_name = [name \in DOMAIN reg.by_name |-> rescaled(reg.by_name[name])]
  BY DEF WithDecimalPlaces
<1>2. ASSUME NEW id \in IdsOf(plant) PROVE rescaled(SpecAt(plant, id, 0)) = SpecAt(plant, id, p)
  <2> DEFINE row == RowOf(plant, id)
             spec == SpecFor(plant, row)
  <2>1. row \in LoadableRows(plant) /\ RowAssumption(plant, row)
    BY IdDocumented DEF Tabled
  <2>2. SpecAt(plant, id, 0) = spec
    BY <2>1, SpecAtFirst DEF SpecAt
  <2>3. SpecAt(plant, id, 0).decimal = row.decimal
    BY SpecFields DEF SpecAt
  <2>4. row.decimal \in {NA, register}
    BY <2>1
  <2>5. CASE row.decimal = register
    <3>1. row.decimal # NA
      BY <2>5, BoundAssumption
    <3>2. SpecAt(plant, id, p) = [spec EXCEPT !.scale = ScaleOf(p)]
      BY <3>1 DEF SpecAt, SpecOfRow
    <3> QED
      BY <2>2, <2>3, <2>5, <3>2
  <2>6. CASE row.decimal = NA
    <3>1. row.decimal # register
      BY <2>6, BoundAssumption
    <3>2. SpecAt(plant, id, p) = SpecAt(plant, id, 0)
      BY <2>6 DEF SpecAt, SpecOfRow
    <3> QED
      BY <2>3, <3>1, <3>2
  <2> QED
    BY <2>4, <2>5, <2>6
<1>3. ASSUME NEW id \in IdsOf(plant)
      PROVE  Owned(SpecAt(plant, id, 0), ov) <=> Owned(SpecAt(plant, id, p), ov)
  <2>1. /\ SpecAt(plant, id, 0).id = SpecAt(plant, id, p).id
        /\ SpecAt(plant, id, 0).name = SpecAt(plant, id, p).name
    BY SpecFields DEF SpecAt
  <2> QED
    BY <2>1 DEF Owned
<1> HIDE DEF new, ov
<1>4. DOMAIN new.by_id = IdsOf(plant) /\ DOMAIN new.by_name = DOMAIN reg.by_name
  BY <1>1 DEF RegistrySound
<1>5. ASSUME NEW id \in IdsOf(plant) PROVE new.by_id[id] = SpecAt(plant, id, p)
  <2>1. reg.by_id[id] = SpecAt(plant, id, 0) /\ id \in DOMAIN reg.by_id
    BY <1>5 DEF RegistrySound
  <2>2. new.by_id[id] = rescaled(reg.by_id[id])
    BY <1>1, <2>1
  <2> QED
    BY <1>2, <2>1, <2>2
<1>6. ASSUME NEW name \in DOMAIN new.by_name
      PROVE  \E id \in IdsOf(plant) :
               /\ new.by_name[name] = SpecAt(plant, id, p)
               /\ Owned(SpecAt(plant, id, p), ov) /\ name \in Bears(plant, RowOf(plant, id))
  <2>1. PICK id \in IdsOf(plant) :
               /\ reg.by_name[name] = SpecAt(plant, id, 0)
               /\ Owned(SpecAt(plant, id, 0), ov) /\ name \in Bears(plant, RowOf(plant, id))
    BY <1>4, <1>6 DEF RegistrySound, ov
  <2>2. new.by_name[name] = rescaled(reg.by_name[name])
    BY <1>1, <1>4, <1>6
  <2>3. new.by_name[name] = SpecAt(plant, id, p)
    BY <1>2, <2>1, <2>2
  <2> QED
    BY <1>3, <2>1, <2>3
<1>7. ASSUME NEW id \in IdsOf(plant), Owned(SpecAt(plant, id, p), ov)
      PROVE  Bears(plant, RowOf(plant, id)) \subseteq DOMAIN new.by_name
  <2>1. Owned(SpecAt(plant, id, 0), ov)
    BY <1>3, <1>7
  <2> QED
    BY <1>4, <2>1 DEF RegistrySound, ov
<1> QED
  BY <1>4, <1>5, <1>6, <1>7 DEF RegistrySound, new, ov

\* What is asked for, of an installation
AskedOf(plant, ref) ==
    IF "id" \in DOMAIN ref THEN {ref.id} \cap IdsOf(plant)
    ELSE LET name == Public(ref.name)
             promoted == {id \in IdsOf(plant) : /\ id \in DOMAIN Overrides(plant.family)
                                                /\ Overrides(plant.family)[id] = name}
         IN  IF promoted # {} THEN promoted
             ELSE {id \in IdsOf(plant) : CanonicalName(RowOf(plant, id)) = name}

\* No two parameters are given the same name, none a name that is an alias.
LEMMA OverridesDistinct ==
    ASSUME NEW family
    PROVE  /\ \A a, b \in DOMAIN Overrides(family) :
                Overrides(family)[a] = Overrides(family)[b] => a = b
           /\ \A a \in DOMAIN Overrides(family) : Overrides(family)[a] \notin DOMAIN Aliases
<1>1. CASE family = "pm"
  <2>1. Overrides(family) = NameOverrides
    BY <1>1 DEF Overrides
  <2>2. DOMAIN NameOverrides = {1001, 1002, 1009, 1011, 3005, 4001, 7001, 7011, 17050}
    BY DEF NameOverrides
  <2>3. /\ NameOverrides[1001] = "hardware_id" /\ NameOverrides[1002] = "firmware_id"
        /\ NameOverrides[1009] = "part_number" /\ NameOverrides[1011] = "device_name"
        /\ NameOverrides[3005] = "units" /\ NameOverrides[4001] = "process_value"
        /\ NameOverrides[7001] = "setpoint" /\ NameOverrides[7011] = "fixed_power"
        /\ NameOverrides[17050] = "display_units"
    BY SMT DEF NameOverrides
  <2>4. DOMAIN Aliases = {"pv", "process_val", "sp", "set_point", "out", "out_pct", "fw",
                          "firmware", "hw", "hardware", "part", "model"}
    BY DEF Aliases
  <2> QED
    BY <2>1, <2>2, <2>3, <2>4, SMT
<1>2. CASE family # "pm"
  <2>1. DOMAIN Overrides(family) = {}
    BY <1>2 DEF Overrides
  <2> QED
    BY <2>1
<1> QED
  BY <1>1, <1>2

\* An alias does not stand for another.
LEMMA AliasesEnd ==
    \A a \in DOMAIN Aliases : Aliases[a] \notin DOMAIN Aliases
<1>1. DOMAIN Aliases = {"pv", "process_val", "sp", "set_point", "out", "out_pct", "fw",
                        "firmware", "hw", "hardware", "part", "model"}
  BY DEF Aliases
<1>2. \A a \in DOMAIN Aliases : Aliases[a] \in {"process_value", "setpoint", "output",
                                  "firmware_id", "hardware_id", "part_number"}
  BY DEF Aliases
<1> QED
  BY <1>1, <1>2, SMT

\* A row that is asked for bears the name, and no other row displaces it.
LEMMA AskedBears ==
    ASSUME NEW plant, Tabled(plant), NEW ref, "id" \notin DOMAIN ref,
           NEW id \in AskedOf(plant, ref)
    PROVE  /\ id \in IdsOf(plant)
           /\ Public(ref.name) \in Bears(plant, RowOf(plant, id))
           /\ ref.name \in Bears(plant, RowOf(plant, id))
           /\ \A other \in DOMAIN Overrides(plant.family) :
                Overrides(plant.family)[other] = SpecFor(plant, RowOf(plant, id)).name =>
                   other = id
<1> DEFINE ov == Overrides(plant.family)
           row == RowOf(plant, id)
           given == SpecFor(plant, row).name
           name == Public(ref.name)
           promoted == {i \in IdsOf(plant) : i \in DOMAIN ov /\ ov[i] = name}
           own == CanonicalName(row)
<1>1. id \in IdsOf(plant)
  BY DEF AskedOf
<1>2. row \in LoadableRows(plant) /\ row.id = id
  BY <1>1, IdDocumented
<1>3. /\ given = IF id \in DOMAIN ov THEN ov[id] ELSE own
      /\ SpecFor(plant, row).aliases =
           {a \in DOMAIN Aliases : Aliases[a] = given} \cup ({own} \ {given})
  BY <1>2, SpecNames
<1>4. Bears(plant, row) =
        {given} \cup {a \in DOMAIN Aliases : Aliases[a] = given} \cup {own}
  BY <1>3 DEF Bears
<1>5. /\ own \in {Aliases[a] : a \in DOMAIN Aliases} => given = own
      /\ \A i \in DOMAIN ov : ov[i] = given => i \in IdsOf(plant)
  <2>1. RowAssumption(plant, row)
    BY <1>2 DEF Tabled
  <2> QED
    BY <2>1 DEF RowAssumption, IdsOf
<1>6. /\ ref.name \in DOMAIN Aliases => name = Aliases[ref.name]
      /\ ref.name \notin DOMAIN Aliases => name = ref.name
  BY DEF Public
<1>7. \/ id \in promoted
      \/ promoted = {} /\ own = name
  BY DEF AskedOf
<1> HIDE DEF given, own, name, row
<1>8. CASE id \in promoted
  <2>1. given = name /\ ov[id] = given /\ id \in DOMAIN ov
    BY <1>3, <1>8
  <2>2. \A other \in DOMAIN ov : ov[other] = given => other = id
    BY <2>1, OverridesDistinct
  <2> QED
    BY <1>1, <1>4, <1>6, <2>1, <2>2 DEF name, row, given
<1>9. CASE promoted = {} /\ own = name
  <2>1. \A other \in DOMAIN ov : ov[other] = given => other = id
    <3>1. CASE id \in DOMAIN ov
      BY <1>3, <3>1, OverridesDistinct
    <3>2. CASE id \notin DOMAIN ov
      <4>1. given = name
        BY <1>3, <1>9, <3>2
      <4> QED
        BY <1>5, <1>9, <4>1
    <3> QED
      BY <3>1, <3>2
  <2>2. ref.name \in Bears(plant, row)
    <3>1. CASE ref.name \in DOMAIN Aliases
      BY <1>4, <1>5, <1>6, <1>9, <3>1
    <3>2. CASE ref.name \notin DOMAIN Aliases
      BY <1>4, <1>6, <1>9, <3>2
    <3> QED
      BY <3>1, <3>2
  <2> QED
    BY <1>1, <1>4, <1>9, <2>1, <2>2 DEF name, row, given
<1> QED
  BY <1>7, <1>8, <1>9

\* What is asked for is known to the registry.
LEMMA AskedIsKnown ==
    ASSUME NEW plant, Tabled(plant), NEW reg, NEW p, RegistrySound(plant, reg, p),
           NEW ref, AskedOf(plant, ref) # {}
    PROVE  Known(reg, ref)
<1>1. PICK id : id \in AskedOf(plant, ref)
  OBVIOUS
<1>2. CASE "id" \in DOMAIN ref
  BY <1>1, <1>2 DEF AskedOf, Known, RegistrySound
<1>3. CASE "id" \notin DOMAIN ref
  <2>1. /\ id \in IdsOf(plant) /\ ref.name \in Bears(plant, RowOf(plant, id))
        /\ \A other \in DOMAIN Overrides(plant.family) :
              Overrides(plant.family)[other] = SpecFor(plant, RowOf(plant, id)).name =>
                 other = id
    BY <1>1, <1>3, AskedBears
  <2>2. /\ SpecAt(plant, id, p).name = SpecFor(plant, RowOf(plant, id)).name
        /\ SpecAt(plant, id, p).id = id
    BY <2>1, SpecFields, IdDocumented DEF SpecAt
  <2>3. Owned(SpecAt(plant, id, p), Overrides(plant.family))
    BY <2>1, <2>2 DEF Owned
  <2> QED
    BY <1>3, <2>1, <2>3 DEF RegistrySound, Known
<1> QED
  BY <1>2, <1>3

\* What the registry finds is what is asked for.
THEOREM ResolvedIsAsked ==
    ASSUME NEW plant, Tabled(plant), NEW reg, NEW p, RegistrySound(plant, reg, p),
           NEW q, RequestAssumption(plant, q), Known(reg, q.ref)
    PROVE  \E id \in IdsOf(plant) :
             /\ Resolve(reg, q.ref) = SpecAt(plant, id, p) /\ AskedOf(plant, q.ref) = {id}
<1>1. CASE "id" \in DOMAIN q.ref
  <2>1. q.ref.id \in IdsOf(plant) /\ Resolve(reg, q.ref) = SpecAt(plant, q.ref.id, p)
    BY <1>1 DEF RegistrySound, Known, Resolve
  <2>2. AskedOf(plant, q.ref) = {q.ref.id}
    BY <1>1, <2>1 DEF AskedOf
  <2> QED
    BY <2>1, <2>2
<1>2. CASE "id" \notin DOMAIN q.ref
  <2> DEFINE ref == q.ref
             ov == Overrides(plant.family)
             name == Public(ref.name)
  <2>1. ref.name \in DOMAIN reg.by_name /\ Resolve(reg, ref) = reg.by_name[ref.name]
    BY <1>2 DEF Known, Resolve
  <2>2. PICK x \in IdsOf(plant) :
           /\ reg.by_name[ref.name] = SpecAt(plant, x, p)
           /\ Owned(SpecAt(plant, x, p), ov) /\ ref.name \in Bears(plant, RowOf(plant, x))
    BY <2>1 DEF RegistrySound
  <2> DEFINE row == RowOf(plant, x)
             given == SpecFor(plant, row).name
             own == CanonicalName(row)
             promoted == {i \in IdsOf(plant) : i \in DOMAIN ov /\ ov[i] = name}
  <2>3. row \in LoadableRows(plant) /\ row.id = x
    BY IdDocumented
  <2>4. SpecAt(plant, x, p).name = given /\ SpecAt(plant, x, p).id = x
    BY <2>3, SpecFields DEF SpecAt
  <2>5. ~Displaced(plant, row)
    BY <2>2, <2>3, <2>4 DEF Displaced, Owned
  <2>6. ASSUME NEW y \in AskedOf(plant, ref) PROVE y = x
    <3> DEFINE other == RowOf(plant, y)
    <3>1. /\ y \in IdsOf(plant) /\ name \in Bears(plant, other)
          /\ \A i \in DOMAIN ov : ov[i] = SpecFor(plant, other).name => i = y
      BY <1>2, AskedBears
    <3>2. other \in LoadableRows(plant) /\ other.id = y
      BY <3>1, IdDocumented
    <3>3. ~Displaced(plant, other)
      BY <3>1, <3>2 DEF Displaced
    <3>4. ref.name \in Bears(plant, row)
      BY <2>2
    <3> HIDE DEF other, row, name
    <3>5. /\ Bears(plant, row) \cap {ref.name, Public(ref.name)} # {}
          /\ Bears(plant, other) \cap {ref.name, Public(ref.name)} # {}
      BY <3>1, <3>4 DEF name
    <3>6. row.id = other.id
      BY <1>2, <2>3, <2>5, <3>2, <3>3, <3>5 DEF RequestAssumption
    <3> QED
      BY <2>3, <3>2, <3>6
  <2>7. /\ given = IF x \in DOMAIN ov THEN ov[x] ELSE own
        /\ ref.name \in {given} \cup {a \in DOMAIN Aliases : Aliases[a] = given} \cup {own}
    <3>1. /\ given = IF x \in DOMAIN ov THEN ov[x] ELSE own
          /\ SpecFor(plant, row).aliases =
               {a \in DOMAIN Aliases : Aliases[a] = given} \cup ({own} \ {given})
      BY <2>3, SpecNames
    <3> QED
      BY <2>2, <3>1 DEF Bears
  <2>8. own \in DOMAIN Aliases => given = Aliases[own]
    <3>1. RowAssumption(plant, row)
      BY <2>3 DEF Tabled
    <3> QED
      BY <3>1 DEF RowAssumption
  <2>9. /\ ref.name \in DOMAIN Aliases => name = Aliases[ref.name]
        /\ ref.name \notin DOMAIN Aliases => name = ref.name
    BY DEF Public
  <2>10. AskedOf(plant, ref) = IF promoted # {} THEN promoted
                               ELSE {i \in IdsOf(plant) : CanonicalName(RowOf(plant, i)) = name}
    BY <1>2 DEF AskedOf
  <2>11. x \in promoted \/ own = name
    <3> HIDE DEF given, own, name, row
    <3>1. CASE ref.name \in DOMAIN Aliases
      <4>1. name = Aliases[ref.name] /\ name \notin DOMAIN Aliases
        BY <2>9, <3>1, AliasesEnd
      <4>2. CASE x \in DOMAIN ov
        <5>1. given = ov[x] /\ given \notin DOMAIN Aliases
          BY <2>7, <4>2, OverridesDistinct
        <5>2. given = name
          BY <2>7, <2>8, <3>1, <4>1, <5>1
        <5> QED
          BY <4>2, <5>1, <5>2
      <4>3. CASE x \notin DOMAIN ov
        <5>1. given = own
          BY <2>7, <4>3
        <5> QED
          BY <2>7, <2>8, <3>1, <4>1, <5>1
      <4> QED
        BY <4>2, <4>3
    <3>2. CASE ref.name \notin DOMAIN Aliases
      BY <2>7, <2>9, <3>2
    <3> QED
      BY <3>1, <3>2
  <2>12. AskedOf(plant, ref) # {}
    <3> HIDE DEF name
    <3> QED
      BY <2>10, <2>11
  <2>13. AskedOf(plant, ref) = {x}
    BY <2>6, <2>12
  <2> QED
    BY <2>1, <2>2, <2>13
<1> QED
  BY <1>1, <1>2

-----------------------------------------------------------------------------
(***************************************************************************)
(* Values in registers.                                                    *)
(***************************************************************************)

\* A function on the numbers up to m is a sequence of that length.
LEMMA FunctionIsSeq ==
    ASSUME NEW m \in Nat, NEW X, NEW f \in [1..m -> X]
    PROVE  f \in Seq(X) /\ Len(f) = m /\ DOMAIN f = 1..m
<1>1. f \in Seq(X) /\ DOMAIN f = 1..m
  OBVIOUS
<1>2. Len(f) \in Nat /\ DOMAIN f = 1..Len(f)
  BY <1>1
<1>3. Len(f) = m
  <2> DEFINE k == Len(f)
  <2>1. 1..k = 1..m /\ k \in Nat
    BY <1>1, <1>2
  <2> HIDE DEF k
  <2>2. k = m
    <3>1. m <= k
      <4>1. m >= 1 => m \in 1..k
        BY <2>1
      <4> QED
        BY <2>1, <4>1
    <3>2. k <= m
      <4>1. k >= 1 => k \in 1..m
        BY <2>1
      <4> QED
        BY <2>1, <4>1
    <3> QED
      BY <2>1, <3>1, <3>2
  <2> QED
    BY <2>2 DEF k
<1> QED
  BY <1>1, <1>3

\* A function on the numbers up to m is as long as that.
LEMMA FunctionSeq ==
    ASSUME NEW m \in Nat, NEW f, f = [i \in 1..m |-> f[i]]
    PROVE  Len(f) = m /\ DOMAIN f = 1..m
<1> DEFINE X == {f[i] : i \in 1..m}
<1>1. f \in [1..m -> X]
  <2>1. \A i \in 1..m : f[i] \in X
    OBVIOUS
  <2> HIDE DEF X
  <2> QED
    BY <2>1
<1> HIDE DEF X
<1> QED
  BY <1>1, FunctionIsSeq

\* What is in a byte's range is a number from 0 to 255.
LEMMA ByteBounds ==
    ASSUME NEW a \in 0..255
    PROVE  a \in Int /\ 0 <= a /\ a <= 255
OBVIOUS

\* Two bytes make a word.
LEMMA WordRange ==
    ASSUME NEW a \in Int, 0 <= a, a <= 255, NEW b \in Int, 0 <= b, b <= 255
    PROVE  256 * a + b \in Int /\ 0 <= 256 * a + b /\ 256 * a + b <= 65535
BY SMT

\* A register of two bytes gives them back.
LEMMA WordBytes ==
    ASSUME NEW a \in Int, 0 <= a, a <= 255, NEW b \in Int, 0 <= b, b <= 255
    PROVE  Bytes(256 * a + b, 2) = <<a, b>>
<1> DEFINE n == 256 * a + b
<1>1. n \in Int /\ n \div 256 = a /\ n % 256 = b /\ a % 256 = a
  BY SMT
<1>2. Bytes(n, 2) = <<(n \div 256) % 256, n % 256>>
  BY <1>1, BytesOfTwo
<1> HIDE DEF n
<1>3. Bytes(n, 2) = <<a, b>>
  BY <1>1, <1>2
<1> QED
  BY <1>3 DEF n

\* A text of bytes, of a length
IsBytes(s, len) == s = [i \in 1..len |-> s[i]] /\ \A i \in 1..len : s[i] \in 0..255

\* Bytes in registers are read as they were.
THEOREM WordsBack ==
    ASSUME NEW m \in Nat, NEW s, NEW len, IsBytes(s, len), len = m + m
    PROVE  /\ BytesOf(Words(s)) = s /\ Len(Words(s)) = m
           /\ \A j \in 1..m : Words(s)[j] \in Int /\ 0 <= Words(s)[j] /\ Words(s)[j] <= 65535
<1> DEFINE w == Words(s)
<1>0. s = [i \in 1..2 * m |-> s[i]] /\ \A i \in 1..2 * m : s[i] \in 0..255
  <2>1. len = 2 * m
    OBVIOUS
  <2> QED
    BY <2>1 DEF IsBytes
<1>1. Len(s) = 2 * m
  <2> DEFINE k == 2 * m
  <2>1. k \in Nat
    BY SMT
  <2> HIDE DEF k
  <2>2. s = [i \in 1..k |-> s[i]]
    BY <1>0 DEF k
  <2> QED
    BY <2>1, <2>2, FunctionSeq DEF k
<1>2. Len(s) \div 2 = m
  BY SMT, <1>1
<1>3. w = [i \in 1..m |-> 256 * s[2 * i - 1] + s[2 * i]]
  BY <1>2 DEF Words
<1> HIDE DEF w
<1>4. w = [i \in 1..m |-> w[i]]
  BY <1>3
<1>5. Len(w) = m
  BY <1>4, FunctionSeq
<1>6. ASSUME NEW j \in 1..m
      PROVE  /\ w[j] = 256 * s[2 * j - 1] + s[2 * j]
             /\ s[2 * j - 1] \in 0..255 /\ s[2 * j] \in 0..255
  <2>1. 2 * j - 1 \in 1..2 * m /\ 2 * j \in 1..2 * m
    BY SMT
  <2> QED
    BY <1>0, <1>3, <2>1
<1>7. ASSUME NEW i \in 1..2 * m
      PROVE  Bytes(w[(i + 1) \div 2], 2)[2 - (i % 2)] = s[i]
  <2> DEFINE j == (i + 1) \div 2
             a == s[2 * j - 1]
             b == s[2 * j]
  <2>1. j \in 1..m /\ i \in Int
    BY SMT
  <2>2. w[j] = 256 * a + b /\ a \in 0..255 /\ b \in 0..255
    BY <1>6, <2>1
  <2>3. Bytes(256 * a + b, 2) = <<a, b>>
    <3> HIDE DEF a, b
    <3>1. a \in Int /\ 0 <= a /\ a <= 255 /\ b \in Int /\ 0 <= b /\ b <= 255
      BY <2>2, ByteBounds
    <3> QED
      BY <3>1, WordBytes
  <2>4. Bytes(w[j], 2) = <<a, b>>
    BY <2>2, <2>3
  <2>5. CASE i % 2 = 1
    <3>1. 2 * j - 1 = i /\ 2 - (i % 2) = 1
      BY SMT, <2>5
    <3> HIDE DEF j
    <3>2. a = s[i]
      BY <3>1
    <3> HIDE DEF a, b
    <3>3. <<a, b>>[1] = a
      OBVIOUS
    <3> QED
      BY <2>4, <3>1, <3>2, <3>3 DEF j
  <2>6. CASE i % 2 = 0
    <3>1. 2 * j = i /\ 2 - (i % 2) = 2
      BY SMT, <2>6
    <3> HIDE DEF j
    <3>2. b = s[i]
      BY <3>1
    <3> HIDE DEF a, b
    <3>3. <<a, b>>[2] = b
      OBVIOUS
    <3> QED
      BY <2>4, <3>1, <3>2, <3>3 DEF j
  <2>7. i % 2 = 0 \/ i % 2 = 1
    BY SMT
  <2> QED
    BY <2>5, <2>6, <2>7
<1>8. BytesOf(w) = [i \in 1..2 * m |-> Bytes(w[(i + 1) \div 2], 2)[2 - (i % 2)]]
  BY <1>5 DEF BytesOf
<1>9. BytesOf(w) = s
  BY <1>0, <1>7, <1>8
<1>10. \A j \in 1..m : w[j] \in Int /\ 0 <= w[j] /\ w[j] <= 65535
  <2> TAKE j \in 1..m
  <2> DEFINE a == s[2 * j - 1]
             b == s[2 * j]
  <2>1. w[j] = 256 * a + b /\ a \in 0..255 /\ b \in 0..255
    BY <1>6
  <2> HIDE DEF a, b
  <2>2. a \in Int /\ 0 <= a /\ a <= 255 /\ b \in Int /\ 0 <= b /\ b <= 255
    BY <2>1, ByteBounds
  <2>3. 256 * a + b \in Int /\ 0 <= 256 * a + b /\ 256 * a + b <= 65535
    BY <2>2, WordRange
  <2> QED
    BY SMT, <2>1, <2>3
<1> QED
  BY <1>5, <1>9, <1>10 DEF w

-----------------------------------------------------------------------------
(***************************************************************************)
(* What a parameter of a type can hold.                                    *)
(***************************************************************************)
Integers8 == {"S32", "S16", "U32", "U16", "U8", "PACKED"}
Types == Integers8 \cup {"FLOAT", "STRING"}

\* A row that loads has a type of the wire.
LEMMA TypeOfRow ==
    ASSUME NEW row, Loadable(row)
    PROVE  DataTypeMap[row.type] \in Types
<1>1. \A label \in DOMAIN DataTypeMap : DataTypeMap[label] \in Types
  <2> TAKE label \in DOMAIN DataTypeMap
  <2>1. label \in {"IEEE Float", "signed 32-bit", "signed 16-bit", "unsigned 32-bit",
                   "unsigned 16-bit", "2 - unsigned 16 bit", "unsigned 8-bit", "Short String",
                   "Enumeration", "Wide Enumeration"}
    BY Zenon DEF DataTypeMap
  <2>2. DataTypeMap[label] = CASE label = "IEEE Float" -> "FLOAT"
                               [] label = "signed 32-bit" -> "S32"
                               [] label = "signed 16-bit" -> "S16"
                               [] label = "unsigned 32-bit" -> "U32"
                               [] label = "unsigned 8-bit" -> "U8"
                               [] label = "Short String" -> "STRING"
                               [] label \in {"Enumeration", "Wide Enumeration"} -> "PACKED"
                               [] OTHER -> "U16"
    BY <2>1, Zenon DEF DataTypeMap
  <2> HIDE DEF DataTypeMap
  <2> QED
    BY <2>2, Zenon DEF Types, Integers8
<1> QED
  BY <1>1 DEF Loadable

\* A number is no text.
LEMMA NumIsNoText ==
    ASSUME NEW n
    PROVE  ~IsText(Num(n)) /\ Num(n).num = n
<1>1. DOMAIN Num(n) = {"num"} /\ "text" # "num"
  BY DEF Num
<1> QED
  BY <1>1 DEF IsText, Num

\* A text is one.
LEMMA TextIsText ==
    ASSUME NEW s
    PROVE  IsText(Text(s)) /\ Text(s).text = s
BY DEF IsText, Text

\* What a text parameter holds
LEMMA HeldText ==
    ASSUME NEW v, NEW room, Holds("STRING", v, room)
    PROVE  /\ IsText(v) /\ v = Text(v.text)
           /\ v.text \in Seq(0..127) /\ Len(v.text) <= room
BY DEF Holds

\* What a float parameter holds
LEMMA HeldFloat ==
    ASSUME NEW v, NEW room, Holds("FLOAT", v, room)
    PROVE  /\ ~IsText(v) /\ v = Num(v.num)
           /\ v.num \in Int /\ -2147483647 - 1 <= v.num /\ v.num <= 2147483647
<1>1. ~IsText(v) /\ v = Num(v.num) /\ v.num \in Int32
  BY DEF Holds
<1>2. \A x \in Int32 : x \in Int /\ -2147483647 - 1 <= x /\ x <= 2147483647
  BY SMT DEF Int32
<1> QED
  BY <1>1, <1>2

\* What an integer parameter holds: a whole number
LEMMA HeldInteger ==
    ASSUME NEW t \in Integers8, NEW v, NEW room, Holds(t, v, room)
    PROVE  /\ ~IsText(v) /\ v = Num((v.num \div One) * One)
           /\ v.num \div One \in Int /\ v.num \div One \in Span(t)
<1>1. t # "STRING" /\ t # "FLOAT"
  BY DEF Integers8
<1>2. /\ ~IsText(v) /\ v = Num(v.num) /\ v.num \in Int
      /\ v.num % One = 0 /\ v.num \div One \in Span(t)
  BY <1>1 DEF Holds
<1> DEFINE x == v.num
<1>3. x \in Int /\ x % 1000 = 0
  BY <1>2 DEF One
<1> HIDE DEF x
<1>4. x = (x \div 1000) * 1000 /\ x \div 1000 \in Int
  BY SMT, <1>3
<1>5. v = Num(x)
  BY <1>2 DEF x
<1>6. x = (x \div One) * One /\ x \div One \in Int
  BY <1>4 DEF One
<1> QED
  BY <1>2, <1>5, <1>6 DEF x

\* A whole number of the type's width can be held.
LEMMA IntegerHeld ==
    ASSUME NEW t \in Integers8, NEW n \in Int, n \in Span(t), NEW room
    PROVE  Holds(t, Num(n * One), room)
<1>1. t # "STRING" /\ t # "FLOAT"
  BY DEF Integers8
<1>2. n * 1000 \in Int /\ (n * 1000) % 1000 = 0 /\ (n * 1000) \div 1000 = n
  BY SMT
<1>3. n * One \in Int /\ (n * One) % One = 0 /\ (n * One) \div One = n
  BY <1>2 DEF One
<1>4. ~IsText(Num(n * One)) /\ Num(n * One).num = n * One
  BY NumIsNoText
<1> DEFINE v == Num(n * One)
<1>5. v.num = n * One /\ ~IsText(v) /\ v = Num(v.num)
  BY <1>4
<1> HIDE DEF v
<1>6. Holds(t, v, room)
  BY <1>1, <1>3, <1>5 DEF Holds
<1> QED
  BY <1>6 DEF v

\* The widths of the integer types, as bounds
LEMMA Spans ==
    /\ \A n \in Int : n \in Span("U8") <=> 0 <= n /\ n <= 255
    /\ \A n \in Int : n \in Span("U16") <=> 0 <= n /\ n <= 65535
    /\ \A n \in Int : n \in Span("PACKED") <=> 0 <= n /\ n <= 65535
    /\ \A n \in Int : n \in Span("S16") <=> -32768 <= n /\ n <= 32767
    /\ \A n \in Int : n \in Span("U32") <=> 0 <= n /\ n <= 2147483647
    /\ \A n \in Int : n \in Span("S32") <=> -2147483647 - 1 <= n /\ n <= 2147483647
<1>1. /\ Span("U8") = 0..255 /\ Span("U16") = Word /\ Span("PACKED") = Word
      /\ Span("S16") = Int16 /\ Span("S32") = Int32
      /\ Span("U32") = {n \in Int32 : n >= 0}
  BY SMT DEF Span
<1>2. \A n \in Int : n \in Word <=> 0 <= n /\ n <= 65535
  BY SMT DEF Word
<1>3. \A n \in Int : n \in Int16 <=> -32768 <= n /\ n <= 32767
  BY SMT DEF Int16
<1>4. \A n \in Int : n \in Int32 <=> -2147483647 - 1 <= n /\ n <= 2147483647
  BY SMT DEF Int32
<1> QED
  BY SMT, <1>1, <1>2, <1>3, <1>4

-----------------------------------------------------------------------------
(***************************************************************************)
(* Padded texts.                                                           *)
(***************************************************************************)

\* The last byte of a text that is no NUL
Ends0(s, len, n) == /\ n > 0 => s[n] # 0
                    /\ \A i \in n + 1 .. len : s[i] = 0

\* A sequence has a last byte that is not zero, or none.
LEMMA LastByte ==
    ASSUME NEW len \in Nat, NEW s
    PROVE  \E n \in 0..len : Ends0(s, len, n)
<1> DEFINE S == {k \in 0..len : \E n \in 0..k : Ends0(s, k, n)}
<1>1. 0 \in S
  <2>1. Ends0(s, 0, 0)
    BY DEF Ends0
  <2> QED
    BY <2>1
<1>2. \A k \in 0..len - 1 : k \in S => k + 1 \in S
  <2> TAKE k \in 0..len - 1
  <2> HAVE k \in S
  <2>1. PICK n \in 0..k : Ends0(s, k, n)
    OBVIOUS
  <2>2. k + 1 \in 0..len /\ k + 1 \in 0..k + 1 /\ n \in 0..k + 1
    OBVIOUS
  <2>3. CASE s[k + 1] = 0
    <3>1. \A i \in n + 1 .. k + 1 : i \in n + 1 .. k \/ i = k + 1
      OBVIOUS
    <3>2. Ends0(s, k + 1, n)
      BY <2>1, <2>3, <3>1 DEF Ends0
    <3> QED
      BY <2>2, <3>2
  <2>4. CASE s[k + 1] # 0
    <3>1. Ends0(s, k + 1, k + 1)
      BY <2>4 DEF Ends0
    <3> QED
      BY <2>2, <3>1
  <2> QED
    BY <2>3, <2>4
<1>3. \A k \in 0..len : k \in S
  <2> HIDE DEF S
  <2> QED
    BY <1>1, <1>2, Induction
<1> QED
  BY <1>3

\* Stripped of its zeros, a text ends with that byte.
LEMMA StrippedTo ==
    ASSUME NEW s, NEW len \in Nat, Len(s) = len, NEW n \in 0..len, Ends0(s, len, n)
    PROVE  Stripped(s) = SubSeq(s, 1, n)
<1> DEFINE c == CHOOSE k \in 0..Len(s) : /\ k > 0 => s[k] # 0
                                         /\ \A i \in k + 1 .. Len(s) : s[i] = 0
<1>1. /\ c \in 0..Len(s) /\ (c > 0 => s[c] # 0)
      /\ \A i \in c + 1 .. Len(s) : s[i] = 0
  BY DEF Ends0
<1>2. Stripped(s) = SubSeq(s, 1, c)
  BY DEF Stripped
<1> HIDE DEF c
<1>3. c \in 0..len /\ Ends0(s, len, c)
  BY <1>1 DEF Ends0
<1>4. c = n
  <2>1. CASE c < n
    <3>1. n \in c + 1 .. len /\ n > 0
      BY <1>3, <2>1
    <3> QED
      BY <1>3, <3>1 DEF Ends0
  <2>2. CASE n < c
    <3>1. c \in n + 1 .. len /\ c > 0
      BY <1>3, <2>2
    <3> QED
      BY <1>3, <3>1 DEF Ends0
  <2> QED
    BY <1>3, <2>1, <2>2
<1> QED
  BY <1>2, <1>4

\* A text padded with NULs is the text it was.
Padded(s, m) == [i \in 1..m |-> IF i <= Len(s) THEN s[i] ELSE 0]

\* Padding with zeros does not change what is left when they are stripped.
LEMMA PaddedStripped ==
    ASSUME NEW s, NEW len \in Nat, Len(s) = len, NEW m \in Nat, len <= m
    PROVE  Stripped(Padded(s, m)) = Stripped(s)
<1> DEFINE p == Padded(s, m)
<1>1. p = [i \in 1..m |-> IF i <= len THEN s[i] ELSE 0]
  BY DEF Padded
<1> HIDE DEF p
<1>2. p = [i \in 1..m |-> p[i]]
  BY <1>1
<1>3. Len(p) = m
  BY <1>2, FunctionSeq
<1>4. PICK n \in 0..len : Ends0(s, len, n)
  BY LastByte
<1>5. \A i \in 1..len : i \in 1..m /\ i <= len /\ p[i] = s[i]
  BY <1>1
<1>6. n \in 0..m /\ Ends0(p, m, n)
  <2>1. n > 0 => p[n] = s[n]
    BY <1>5
  <2>2. ASSUME NEW i \in n + 1 .. m PROVE p[i] = 0
    <3>1. CASE i <= len
      <4>1. i \in n + 1 .. len /\ i \in 1..len
        BY <3>1
      <4> QED
        BY <1>4, <1>5, <4>1 DEF Ends0
    <3>2. CASE ~(i <= len)
      <4>1. i \in 1..m
        OBVIOUS
      <4> QED
        BY <1>1, <3>2, <4>1
    <3> QED
      BY <3>1, <3>2
  <2> QED
    BY <1>4, <2>1, <2>2 DEF Ends0
<1>7. Stripped(p) = SubSeq(p, 1, n) /\ Stripped(s) = SubSeq(s, 1, n)
  BY <1>3, <1>4, <1>6, StrippedTo
<1>8. SubSeq(p, 1, n) = SubSeq(s, 1, n)
  <2>1. /\ SubSeq(p, 1, n) = [i \in 1..n |-> p[i]]
        /\ SubSeq(s, 1, n) = [i \in 1..n |-> s[i]]
    BY SMT
  <2>2. \A i \in 1..n : p[i] = s[i]
    BY <1>5
  <2> QED
    BY <2>1, <2>2
<1> QED
  BY <1>7, <1>8 DEF p

\* Padding makes a sequence of the same elements and zeros, of the length asked for.
LEMMA PaddedBytes ==
    ASSUME NEW X, NEW s \in Seq(X), 0 \in X, NEW m \in Nat
    PROVE  /\ Padded(s, m) = [i \in 1..m |-> Padded(s, m)[i]]
           /\ Padded(s, m) \in Seq(X) /\ Len(Padded(s, m)) = m
           /\ \A i \in 1..m : Padded(s, m)[i] \in X
<1> DEFINE p == Padded(s, m)
<1>1. p = [i \in 1..m |-> IF i <= Len(s) THEN s[i] ELSE 0]
  BY DEF Padded
<1> HIDE DEF p
<1>2. \A i \in 1..m : p[i] \in X
  BY <1>1
<1>3. p \in [1..m -> X]
  BY <1>1, <1>2
<1> QED
  BY <1>2, <1>3, FunctionIsSeq DEF p

-----------------------------------------------------------------------------
(***************************************************************************)
(* Values in registers and back.                                           *)
(***************************************************************************)

\* A device's registers, of a type
WordsFor(t, v) ==
    LET count == RegisterCountFor(t)
        raw == Raw(t, v)
    IN  IF t = "U8" THEN {<<high * 256 + raw[1]>> : high \in {0, 1}}
        ELSE {Words(Padded(raw, 2 * count))}
FromWordsOf(t, words) ==
    FromRaw(t, IF t = "U8" THEN <<words[1] % 256>> ELSE BytesOf(words))

\* Two bytes of a number are a sequence of bytes.
LEMMA TwoAreBytes ==
    ASSUME NEW n \in Int
    PROVE  /\ Bytes(n, 2) = [i \in 1..2 |-> Bytes(n, 2)[i]] /\ Len(Bytes(n, 2)) = 2
           /\ \A i \in 1..2 : Bytes(n, 2)[i] \in 0..255
<1> DEFINE a == (n \div 256) % 256
           b == n % 256
<1>1. a \in 0..255 /\ b \in 0..255
  BY SMT
<1>2. Bytes(n, 2) = <<a, b>>
  BY BytesOfTwo
<1> HIDE DEF a, b
<1> QED
  BY SMT, <1>1, <1>2

\* So are four.
LEMMA FourAreBytes ==
    ASSUME NEW n \in Int
    PROVE  /\ Bytes(n, 4) = [i \in 1..4 |-> Bytes(n, 4)[i]] /\ Len(Bytes(n, 4)) = 4
           /\ \A i \in 1..4 : Bytes(n, 4)[i] \in 0..255
<1> DEFINE a == (n \div 16777216) % 256
           b == (n \div 65536) % 256
           c == (n \div 256) % 256
           d == n % 256
<1>1. d \in 0..255
  BY SMT
<1>2. c \in 0..255
  BY SMT
<1>3. b \in 0..255
  BY SMT
<1>4. a \in 0..255
  BY SMT
<1>0. /\ a = (n \div 16777216) % 256 /\ b = (n \div 65536) % 256
      /\ c = (n \div 256) % 256 /\ d = n % 256
  OBVIOUS
<1> HIDE DEF a, b, c, d
<1>5. Bytes(n, 4) = <<a, b, c, d>>
  BY <1>0, BytesOfFour
<1> QED
  BY SMT, <1>1, <1>2, <1>3, <1>4, <1>5

\* What is long enough is not padded.
LEMMA PaddedSame ==
    ASSUME NEW m \in Nat, NEW s, s = [i \in 1..m |-> s[i]], Len(s) = m
    PROVE  Padded(s, m) = s
BY DEF Padded

\* Two bytes go through one register.
LEMMA TwoInWords ==
    ASSUME NEW n \in Int
    PROVE  /\ Padded(Bytes(n, 2), 2) = Bytes(n, 2)
           /\ BytesOf(Words(Bytes(n, 2))) = Bytes(n, 2) /\ Len(Words(Bytes(n, 2))) = 1
<1> DEFINE s == Bytes(n, 2)
           m == 1
           len == 2
<1>1. s = [i \in 1..2 |-> s[i]] /\ Len(s) = 2 /\ \A i \in 1..2 : s[i] \in 0..255
  BY TwoAreBytes
<1> HIDE DEF s
<1>2. m \in Nat /\ len = m + m
  OBVIOUS
<1>3. IsBytes(s, len)
  BY <1>1 DEF IsBytes
<1> HIDE DEF m, len
<1>4. BytesOf(Words(s)) = s /\ Len(Words(s)) = m
  BY <1>2, <1>3, WordsBack
<1>5. Padded(s, 2) = s
  BY <1>1, PaddedSame
<1> QED
  BY <1>4, <1>5 DEF s, m

\* Four bytes go through two registers.
LEMMA FourInWords ==
    ASSUME NEW n \in Int
    PROVE  /\ Padded(Bytes(n, 4), 4) = Bytes(n, 4)
           /\ BytesOf(Words(Bytes(n, 4))) = Bytes(n, 4) /\ Len(Words(Bytes(n, 4))) = 2
<1> DEFINE s == Bytes(n, 4)
           m == 2
           len == 4
<1>1. s = [i \in 1..4 |-> s[i]] /\ Len(s) = 4 /\ \A i \in 1..4 : s[i] \in 0..255
  BY FourAreBytes
<1> HIDE DEF s
<1>2. m \in Nat /\ len = m + m
  OBVIOUS
<1>3. IsBytes(s, len)
  BY <1>1 DEF IsBytes
<1> HIDE DEF m, len
<1>4. BytesOf(Words(s)) = s /\ Len(Words(s)) = m
  BY <1>2, <1>3, WordsBack
<1>5. Padded(s, 4) = s
  BY <1>1, PaddedSame
<1> QED
  BY <1>4, <1>5 DEF s, m

\* A text goes through eight registers.
LEMMA TextInWords ==
    ASSUME NEW s \in Seq(0..255)
    PROVE  BytesOf(Words(Padded(s, 16))) = Padded(s, 16)
<1> DEFINE p == Padded(s, 16)
           m == 8
           len == 16
<1>1. p = [i \in 1..16 |-> p[i]] /\ \A i \in 1..16 : p[i] \in 0..255
  <2> DEFINE X == 0..255
             k == 16
  <2>1. s \in Seq(X) /\ 0 \in X /\ k \in Nat
    OBVIOUS
  <2> HIDE DEF X, k
  <2>2. Padded(s, k) = [i \in 1..k |-> Padded(s, k)[i]] /\ \A i \in 1..k : Padded(s, k)[i] \in X
    BY <2>1, PaddedBytes
  <2> QED
    BY <2>2 DEF X, k
<1> HIDE DEF p
<1>2. m \in Nat /\ len = m + m
  OBVIOUS
<1>3. IsBytes(p, len)
  BY <1>1 DEF IsBytes
<1> HIDE DEF m, len
<1>4. BytesOf(Words(p)) = p /\ Len(Words(p)) = m
  BY <1>2, <1>3, WordsBack
<1> QED
  BY <1>4 DEF p

\* The registers and the bytes of each type
LEMMA TypeSizes ==
    /\ RegisterCountFor("U8") = 1 /\ RegisterCountFor("U16") = 1 /\ RegisterCountFor("S16") = 1
    /\ RegisterCountFor("PACKED") = 1 /\ RegisterCountFor("U32") = 2
    /\ RegisterCountFor("S32") = 2 /\ RegisterCountFor("FLOAT") = 2
    /\ RegisterCountFor("STRING") = 8
    /\ Octets["U8"] = 1 /\ Octets["U16"] = 2 /\ Octets["S16"] = 2 /\ Octets["PACKED"] = 2
    /\ Octets["U32"] = 4 /\ Octets["S32"] = 4
    /\ Registers["U8"] = 1 /\ Registers["U16"] = 1 /\ Registers["S16"] = 1
    /\ Registers["PACKED"] = 1 /\ Registers["U32"] = 2 /\ Registers["S32"] = 2
    /\ Registers["FLOAT"] = 2
<1>1. /\ RegisterCountFor("U8") = 1 /\ RegisterCountFor("U16") = 1 /\ RegisterCountFor("S16") = 1
      /\ RegisterCountFor("PACKED") = 1 /\ RegisterCountFor("U32") = 2
      /\ RegisterCountFor("S32") = 2 /\ RegisterCountFor("FLOAT") = 2
      /\ RegisterCountFor("STRING") = 8
  BY SMT DEF RegisterCountFor
<1>2. /\ Octets["U8"] = 1 /\ Octets["U16"] = 2 /\ Octets["S16"] = 2 /\ Octets["PACKED"] = 2
      /\ Octets["U32"] = 4 /\ Octets["S32"] = 4
  BY SMT DEF Octets
<1>3. /\ Registers["U8"] = 1 /\ Registers["U16"] = 1 /\ Registers["S16"] = 1
      /\ Registers["PACKED"] = 1 /\ Registers["U32"] = 2 /\ Registers["S32"] = 2
      /\ Registers["FLOAT"] = 2
  BY SMT DEF Registers
<1> QED
  BY <1>1, <1>2, <1>3

\* What a value is without the NULs it may be padded with
Plain(v) == IF IsText(v) THEN Text(Stripped(v.text)) ELSE v

\* Registers that hold a value are read as that value.
LEMMA WordsRead ==
    ASSUME NEW t \in Types, NEW v, Holds(t, v, 16), NEW w \in WordsFor(t, v)
    PROVE  DecodableWords(w, t) /\ DecodeWords(w, t) = Plain(v)
<1> DEFINE n == v.num \div One
<1>1. CASE t = "U8"
  <2>1. v = Num(n * One) /\ ~IsText(v) /\ n \in Int /\ 0 <= n /\ n <= 255
    BY <1>1, HeldInteger, Spans DEF Integers8
  <2>2. Raw(t, v) = Bytes(n, 1)
    BY <1>1, TypeSizes DEF Raw
  <2> HIDE DEF n
  <2>3. Bytes(n, 1) = <<n % 256>> /\ n % 256 = n
    BY <2>1, BytesOfOne
  <2>4. PICK high \in {0, 1} : w = <<high * 256 + n>>
    <3>1. Raw(t, v)[1] = n
      BY <2>2, <2>3
    <3> QED
      BY <1>1, <3>1 DEF WordsFor
  <2>5. Len(w) = 1 /\ w[1] = high * 256 + n
    BY <2>4
  <2>6. w[1] % 256 = n
    BY SMT, <2>1, <2>5
  <2>7. DecodableWords(w, t)
    BY <1>1, <2>5, TypeSizes DEF DecodableWords
  <2>8. DecodeWords(w, t) = Num((w[1] % 256) * One)
    BY <1>1 DEF DecodeWords
  <2> QED
    BY <2>1, <2>6, <2>7, <2>8 DEF Plain
<1>2. CASE t \in {"U16", "PACKED"}
  <2>1. v = Num(n * One) /\ ~IsText(v) /\ n \in Int /\ 0 <= n /\ n <= 65535
    BY <1>2, HeldInteger, Spans, SMT DEF Integers8
  <2>2. Raw(t, v) = Bytes(n, 2)
    BY <1>2, TypeSizes DEF Raw
  <2> HIDE DEF n
  <2>3. w = Words(Bytes(n, 2))
    BY <1>2, <2>1, <2>2, TwoInWords, TypeSizes DEF WordsFor
  <2>4. BytesOf(w) = Bytes(n, 2) /\ Len(w) = 1
    BY <2>1, <2>3, TwoInWords
  <2>5. DecodableWords(w, t)
    BY <1>2, <2>4, TypeSizes DEF DecodableWords
  <2>6. DecodeWords(w, t) = Num(Unsigned(BytesOf(w)) * One)
    BY <1>2 DEF DecodeWords
  <2>7. Unsigned(Bytes(n, 2)) = n
    BY SMT, <2>1, TwoBytes
  <2> QED
    BY <2>1, <2>4, <2>5, <2>6, <2>7, SMT DEF Plain
<1>3. CASE t = "S16"
  <2>1. v = Num(n * One) /\ ~IsText(v) /\ n \in Int /\ -32768 <= n /\ n <= 32767
    BY <1>3, HeldInteger, Spans, SMT DEF Integers8
  <2>2. Raw(t, v) = Bytes(n, 2)
    BY <1>3, TypeSizes DEF Raw
  <2> HIDE DEF n
  <2>3. w = Words(Bytes(n, 2))
    BY <1>3, <2>1, <2>2, TwoInWords, TypeSizes DEF WordsFor
  <2>4. BytesOf(w) = Bytes(n, 2) /\ Len(w) = 1
    BY <2>1, <2>3, TwoInWords
  <2>5. DecodableWords(w, t)
    BY <1>3, <2>4, TypeSizes DEF DecodableWords
  <2>6. DecodeWords(w, t) = Num(Twos(BytesOf(w)) * One)
    BY <1>3 DEF DecodeWords
  <2>7. Twos(Bytes(n, 2)) = n
    BY SMT, <2>1, TwoBytes
  <2> QED
    BY <2>1, <2>4, <2>5, <2>6, <2>7, SMT DEF Plain
<1>4. CASE t = "U32"
  <2>1. v = Num(n * One) /\ ~IsText(v) /\ n \in Int /\ 0 <= n /\ n <= 2147483647
    BY <1>4, HeldInteger, Spans, SMT DEF Integers8
  <2>2. Raw(t, v) = Bytes(n, 4)
    BY <1>4, TypeSizes DEF Raw
  <2> HIDE DEF n
  <2>3. w = Words(Bytes(n, 4))
    BY <1>4, <2>1, <2>2, FourInWords, TypeSizes DEF WordsFor
  <2>4. BytesOf(w) = Bytes(n, 4) /\ Len(w) = 2
    BY <2>1, <2>3, FourInWords
  <2>5. DecodableWords(w, t)
    BY <1>4, <2>4, TypeSizes DEF DecodableWords
  <2>6. DecodeWords(w, t) = Num(Unsigned(BytesOf(w)) * One)
    BY <1>4 DEF DecodeWords
  <2>7. Unsigned(Bytes(n, 4)) = n
    BY SMT, <2>1, FourBytes
  <2> QED
    BY <2>1, <2>4, <2>5, <2>6, <2>7, SMT DEF Plain
<1>5. CASE t = "S32"
  <2>1. v = Num(n * One) /\ ~IsText(v) /\ n \in Int /\ -2147483647 - 1 <= n /\ n <= 2147483647
    BY <1>5, HeldInteger, Spans, SMT DEF Integers8
  <2>2. Raw(t, v) = Bytes(n, 4)
    BY <1>5, TypeSizes DEF Raw
  <2> HIDE DEF n
  <2>3. w = Words(Bytes(n, 4))
    BY <1>5, <2>1, <2>2, FourInWords, TypeSizes DEF WordsFor
  <2>4. BytesOf(w) = Bytes(n, 4) /\ Len(w) = 2
    BY <2>1, <2>3, FourInWords
  <2>5. DecodableWords(w, t)
    BY <1>5, <2>4, TypeSizes DEF DecodableWords
  <2>6. DecodeWords(w, t) = Num(Twos(BytesOf(w)) * One)
    BY <1>5 DEF DecodeWords
  <2>7. Twos(Bytes(n, 4)) = n
    BY SMT, <2>1, FourBytes
  <2> QED
    BY <2>1, <2>4, <2>5, <2>6, <2>7, SMT DEF Plain
<1>6. CASE t = "FLOAT"
  <2> DEFINE x == v.num
  <2>1. v = Num(x) /\ ~IsText(v) /\ x \in Int /\ -2147483647 - 1 <= x /\ x <= 2147483647
    BY <1>6, HeldFloat, SMT
  <2>2. Raw(t, v) = Bytes(x, 4)
    BY <1>6 DEF Raw, FloatBytes
  <2> HIDE DEF x
  <2>3. w = Words(Bytes(x, 4))
    BY <1>6, <2>1, <2>2, FourInWords, TypeSizes DEF WordsFor
  <2>4. BytesOf(w) = Bytes(x, 4) /\ Len(w) = 2
    BY <2>1, <2>3, FourInWords
  <2>5. DecodableWords(w, t)
    BY <1>6, <2>4, TypeSizes DEF DecodableWords
  <2>6. DecodeWords(w, t) = Num(Twos(BytesOf(w)))
    BY <1>6 DEF DecodeWords, FloatOf
  <2>7. Twos(Bytes(x, 4)) = x
    BY SMT, <2>1, FourBytes
  <2> QED
    BY <2>1, <2>4, <2>5, <2>6, <2>7, SMT DEF Plain
<1>7. CASE t = "STRING"
  <2> DEFINE s == v.text
  <2>1. IsText(v) /\ s \in Seq(0..127) /\ Len(s) <= 16
    BY <1>7, HeldText
  <2>2. Raw(t, v) = s
    BY <1>7 DEF Raw
  <2> HIDE DEF s
  <2>3. w = Words(Padded(s, 16))
    BY <1>7, <2>2, TypeSizes DEF WordsFor
  <2>4. s \in Seq(0..255)
    <3>1. 0..127 \subseteq 0..255
      OBVIOUS
    <3> QED
      BY <2>1, <3>1
  <2>5. BytesOf(w) = Padded(s, 16)
    BY <2>3, <2>4, TextInWords
  <2>6. DOMAIN Padded(s, 16) = 1..16 /\ \A i \in 1..16 : Padded(s, 16)[i] \in 0..127
    <3> DEFINE X == 0..127
               k == 16
    <3>1. s \in Seq(X) /\ 0 \in X /\ k \in Nat
      BY <2>1
    <3> HIDE DEF X, k
    <3>2. Padded(s, k) = [i \in 1..k |-> Padded(s, k)[i]] /\ \A i \in 1..k : Padded(s, k)[i] \in X
      BY <3>1, PaddedBytes
    <3> QED
      BY <3>2 DEF X, k
  <2>7. DecodableWords(w, t)
    <3>1. Ascii(Padded(s, 16))
      BY <2>6 DEF Ascii
    <3> QED
      BY <1>7, <2>5, <3>1 DEF DecodableWords
  <2>8. Stripped(Padded(s, 16)) = Stripped(s)
    <3> DEFINE k == 16
               len == Len(s)
    <3>1. k \in Nat /\ len \in Nat /\ len <= k
      BY <2>1
    <3> HIDE DEF k, len
    <3>2. Stripped(Padded(s, k)) = Stripped(s)
      BY <3>1, PaddedStripped DEF len
    <3> QED
      BY <3>2 DEF k
  <2>9. DecodeWords(w, t) = Text(Stripped(BytesOf(w)))
    BY <1>7 DEF DecodeWords
  <2> QED
    BY <2>1, <2>5, <2>7, <2>8, <2>9 DEF Plain, s
<1> QED
  BY <1>1, <1>2, <1>3, <1>4, <1>5, <1>6, <1>7 DEF Types, Integers8

-----------------------------------------------------------------------------
(***************************************************************************)
(* What a value written to registers becomes.                              *)
(***************************************************************************)

\* What a device has of a value whose registers were written to it
StoredOf(t, v) ==
    CASE t = "STRING" -> Text(Padded(v.text, 16))
      [] t = "FLOAT" -> v
      [] t = "U8" -> Num((Trunc(v) % 256) * One)
      [] t \in {"U16", "PACKED"} -> Num((Trunc(v) % 65536) * One)
      [] OTHER -> Num(Trunc(v) * One)

\* A value a caller may write: a text of bytes, a number of 32 bits once it is cut off
Askable(v) ==
    IF IsText(v) THEN v = Text(v.text) /\ v.text \in Seq(0..255)
    ELSE /\ v = Num(v.num) /\ v.num \in Int
         /\ -2147483647 - 1 <= v.num /\ v.num <= 2147483647

\* The same once it is scaled down; of a parameter of a type
Countable(t, v) ==
    IF IsText(v) THEN v = Text(v.text) /\ v.text \in Seq(0..255)
    ELSE /\ v = Num(v.num) /\ v.num \in Int
         /\ t = "FLOAT" => -2147483647 - 1 <= v.num /\ v.num <= 2147483647
         /\ -2147483647 - 1 <= Trunc(v) /\ Trunc(v) <= 2147483647

\* A number is cut off to an integer.
LEMMA TruncTyped ==
    ASSUME NEW v, v.num \in Int
    PROVE  Trunc(v) \in Int
<1> DEFINE x == v.num
<1>1. Trunc(v) = IF x >= 0 THEN x \div 1000 ELSE -((-x) \div 1000)
  BY DEF Trunc, One
<1> HIDE DEF x
<1>2. x \in Int
  BY DEF x
<1>3. x \div 1000 \in Int /\ (-x) \div 1000 \in Int
  BY SMT, <1>2
<1> QED
  BY <1>1, <1>3

\* A number cut off at its point is still one of 32 bits.
LEMMA TruncBounds ==
    ASSUME NEW v, v.num \in Int, -2147483647 - 1 <= v.num, v.num <= 2147483647
    PROVE  /\ Trunc(v) \in Int
           /\ -2147483647 - 1 <= Trunc(v) /\ Trunc(v) <= 2147483647
<1> DEFINE x == v.num
<1>1. x \in Int /\ -2147483647 - 1 <= x /\ x <= 2147483647
  OBVIOUS
<1>2. Trunc(v) = IF x >= 0 THEN x \div 1000 ELSE -((-x) \div 1000)
  BY DEF Trunc, One
<1> HIDE DEF x
<1>3. /\ x >= 0 => x \div 1000 \in Int /\ 0 <= x \div 1000 /\ x \div 1000 <= x
      /\ x < 0 => (-x) \div 1000 \in Int /\ 0 <= (-x) \div 1000 /\ (-x) \div 1000 <= -x
  BY SMT, <1>1
<1> QED
  BY SMT, <1>1, <1>2, <1>3

\* One register is two bytes.
LEMMA BytesOfWord ==
    ASSUME NEW x \in Int
    PROVE  BytesOf(<<x>>) = Bytes(x, 2)
<1> DEFINE w == <<x>>
<1>1. Len(w) = 1 /\ w[1] = x
  OBVIOUS
<1> HIDE DEF w
<1>2. BytesOf(w) = [i \in 1..2 |-> Bytes(w[(i + 1) \div 2], 2)[2 - (i % 2)]]
  BY <1>1 DEF BytesOf
<1>3. \A i \in 1..2 : (i + 1) \div 2 = 1 /\ 2 - (i % 2) = i
  BY SMT
<1>4. BytesOf(w) = [i \in 1..2 |-> Bytes(x, 2)[i]]
  BY <1>1, <1>2, <1>3
<1>5. Bytes(x, 2) = [i \in 1..2 |-> Bytes(x, 2)[i]]
  BY TwoAreBytes
<1> QED
  BY <1>4, <1>5 DEF w

\* What is left of a count in 8 and in 16 bits
LEMMA Wrapped ==
    ASSUME NEW n \in Int
    PROVE  /\ n % 256 \in Int /\ 0 <= n % 256 /\ n % 256 <= 255 /\ (n % 256) % 256 = n % 256
           /\ n % 65536 \in Int /\ 0 <= n % 65536 /\ n % 65536 <= 65535
BY SMT

\* A text str.encode takes
LEMMA AsciiBytes ==
    ASSUME NEW s \in Seq(0..255), Ascii(s)
    PROVE  s \in Seq(0..127)
<1> DEFINE B == 0..255
           X == 0..127
<1>1. \A x \in B : x < 128 => x \in X
  OBVIOUS
<1>2. s \in Seq(B)
  OBVIOUS
<1>3. \A i \in DOMAIN s : s[i] < 128
  BY DEF Ascii
<1> HIDE DEF B, X
<1>4. s \in [1..Len(s) -> B] /\ Len(s) \in Nat /\ DOMAIN s = 1..Len(s)
  BY <1>2
<1>5. \A i \in 1..Len(s) : s[i] \in X
  BY <1>1, <1>3, <1>4
<1>6. s \in [1..Len(s) -> X]
  BY <1>4, <1>5
<1>7. s \in Seq(X)
  BY <1>4, <1>6
<1> QED
  BY <1>7 DEF X

\* A text is one by its field.
LEMMA TextFields ==
    ASSUME NEW p
    PROVE  IsText(Text(p)) /\ Text(p) = Text(Text(p).text) /\ Text(p).text = p
<1>1. Text(p).text = p /\ IsText(Text(p))
  BY TextIsText
<1>2. Text(p) = Text(Text(p).text)
  BY <1>1
<1> QED
  BY <1>1, <1>2

\* A short text is one a text parameter can hold.
LEMMA TextHeld ==
    ASSUME NEW p, p \in Seq(0..127), NEW room, Len(p) <= room
    PROVE  Holds("STRING", Text(p), room)
<1> DEFINE u == Text(p)
           X == Seq(0..127)
<1>1. IsText(u) /\ u = Text(u.text) /\ u.text = p /\ p \in X
  BY TextFields
<1> HIDE DEF u, X
<1>2. u.text \in X /\ Len(u.text) <= room
  BY <1>1
<1>3. Holds("STRING", u, room)
  BY <1>1, <1>2 DEF Holds, X
<1> QED
  BY <1>3 DEF u

\* What is in the registers written is what StoredOf says, and the parameter can hold it.
LEMMA WordsStored ==
    ASSUME NEW t \in Types, NEW v, Countable(t, v), NEW e,
           e = EncodeValueToWords(v, t, RegisterCountFor(t)), e.how = "ok"
    PROVE  /\ FromWordsOf(t, e.words) = StoredOf(t, v)
           /\ Len(e.words) = RegisterCountFor(t)
           /\ Holds(t, StoredOf(t, v), 16)
           /\ (IsText(v) <=> t = "STRING") /\ (IsText(v) => Len(v.text) <= 16)
<1> DEFINE n == Trunc(v)
           count == RegisterCountFor(t)
           octets == 2 * count
           padded == [i \in 1..octets |-> IF i <= Len(v.text) THEN v.text[i] ELSE 0]
           how == CASE t = "STRING" ->
                         IF ~Ascii(v.text) THEN Encoding("raw", <<>>)
                         ELSE IF Len(v.text) > octets THEN Encoding("refused", <<>>)
                         ELSE Encoding("ok", Words(padded))
                    [] t = "FLOAT" -> Encoding("ok", Words(FloatBytes(v.num)))
                    [] t = "U8" -> Encoding("ok", <<n % 256>>)
                    [] t \in {"U16", "PACKED"} -> Encoding("ok", <<n % 65536>>)
                    [] t = "S16" /\ ~(-32768 <= n /\ n <= 32767) -> Encoding("raw", <<>>)
                    [] t = "U32" /\ n < 0 -> Encoding("raw", <<>>)
                    [] OTHER -> Encoding("ok", Words(Bytes(n, octets)))
<1>1. e = IF (t = "STRING") # IsText(v) THEN Encoding("refused", <<>>) ELSE how
  BY DEF EncodeValueToWords
<1>2. \A x, y : Encoding(x, y).how = x /\ Encoding(x, y).words = y
  BY DEF Encoding
<1> HIDE DEF how, padded
<1>3. (IsText(v) <=> t = "STRING") /\ e = how
  <2>1. IsText(v) \in BOOLEAN
    BY DEF IsText
  <2>2. (t = "STRING") # IsText(v) => e.how = "refused"
    BY <1>1, <1>2
  <2> QED
    BY <1>1, <2>1, <2>2
<1>4. t # "STRING" => /\ v = Num(v.num) /\ v.num \in Int
                      /\ t = "FLOAT" => -2147483647 - 1 <= v.num /\ v.num <= 2147483647
                      /\ n \in Int /\ -2147483647 - 1 <= n /\ n <= 2147483647
  <2>1. t # "STRING" => /\ v = Num(v.num) /\ v.num \in Int
                        /\ t = "FLOAT" => -2147483647 - 1 <= v.num /\ v.num <= 2147483647
                        /\ -2147483647 - 1 <= n /\ n <= 2147483647
    BY <1>3 DEF Countable
  <2> QED
    BY <2>1, TruncTyped
<1>5. CASE t = "STRING"
  <2> DEFINE s == v.text
  <2>1. s \in Seq(0..255) /\ v = Text(s)
    BY <1>3, <1>5 DEF Countable
  <2>2. count = 8 /\ octets = 16
    BY <1>5, TypeSizes
  <2>3. how = IF ~Ascii(v.text) THEN Encoding("raw", <<>>)
              ELSE IF Len(v.text) > octets THEN Encoding("refused", <<>>)
              ELSE Encoding("ok", Words(padded))
    BY <1>5 DEF how
  <2>4. Ascii(s) /\ ~(Len(s) > 16) /\ e.words = Words(padded)
    BY <1>2, <1>3, <2>2, <2>3
  <2>12. Len(v.text) <= 16
    <3>1. Len(s) \in Nat
      BY <2>1
    <3> QED
      BY <2>4, <3>1
  <2>5. padded = Padded(s, 16)
    BY <2>2 DEF padded, Padded
  <2> HIDE DEF s
  <2>6. BytesOf(e.words) = Padded(s, 16)
    BY <2>1, <2>4, <2>5, TextInWords
  <2>7. FromWordsOf(t, e.words) = Text(BytesOf(e.words))
    BY <1>5 DEF FromWordsOf, FromRaw
  <2>8. StoredOf(t, v) = Text(Padded(s, 16))
    BY <1>5 DEF StoredOf, s
  <2> DEFINE p == Padded(s, 16)
  <2>9. p \in Seq(0..127) /\ Len(p) = 16
    <3> DEFINE X == 0..127
               k == 16
    <3>1. 0 \in X /\ k \in Nat
      OBVIOUS
    <3>2. s \in Seq(X)
      BY <2>1, <2>4, AsciiBytes
    <3> HIDE DEF X, k
    <3>3. Padded(s, k) \in Seq(X) /\ Len(Padded(s, k)) = k
      BY <3>1, <3>2, PaddedBytes
    <3> QED
      BY <3>3 DEF X, k
  <2>10. Len(Words(p)) = 8
    <3>1. Len(p) \div 2 = 8
      <4>1. 16 \div 2 = 8
        OBVIOUS
      <4> QED
        BY <2>9, <4>1
    <3>2. Words(p) = [i \in 1..8 |-> 256 * p[2 * i - 1] + p[2 * i]]
      BY <3>1 DEF Words
    <3> DEFINE w == Words(p)
               k == 8
    <3>3. w = [i \in 1..k |-> w[i]] /\ k \in Nat
      BY <3>2
    <3> HIDE DEF w, k
    <3>4. Len(w) = k
      BY <3>3, FunctionSeq
    <3> QED
      BY <3>4 DEF w, k
  <2> HIDE DEF p
  <2>11. Holds(t, Text(p), 16)
    <3>1. Len(p) <= 16
      BY <2>9
    <3> QED
      BY <1>5, <2>9, <3>1, TextHeld
  <2> QED
    BY <1>3, <1>5, <2>2, <2>4, <2>5, <2>6, <2>7, <2>8, <2>10, <2>11, <2>12 DEF p
<1>6. CASE t = "FLOAT"
  <2> DEFINE x == v.num
  <2>1. v = Num(x) /\ x \in Int /\ -2147483647 - 1 <= x /\ x <= 2147483647
    BY <1>4, <1>6
  <2>2. e.words = Words(Bytes(x, 4))
    BY <1>2, <1>3, <1>6 DEF how, FloatBytes
  <2> HIDE DEF x
  <2>3. BytesOf(e.words) = Bytes(x, 4) /\ Len(e.words) = 2
    BY <2>1, <2>2, FourInWords
  <2>4. FromWordsOf(t, e.words) = Num(Twos(BytesOf(e.words)))
    BY <1>6 DEF FromWordsOf, FromRaw, FloatOf
  <2>5. Twos(Bytes(x, 4)) = x
    BY SMT, <2>1, FourBytes
  <2>6. Holds(t, v, 16)
    <3>1. ~IsText(v) /\ v = Num(v.num) /\ v.num = x
      BY <2>1, NumIsNoText
    <3>2. x \in Int32
      BY SMT, <2>1 DEF Int32
    <3> QED
      BY <1>6, <3>1, <3>2 DEF Holds
  <2>7. StoredOf(t, v) = v
    BY <1>6 DEF StoredOf
  <2> QED
    BY <1>3, <1>6, <2>1, <2>3, <2>4, <2>5, <2>6, <2>7, TypeSizes
<1>7. CASE t = "U8"
  <2>1. e.words = <<n % 256>>
    BY <1>2, <1>3, <1>7 DEF how
  <2>2. n \in Int
    BY <1>4, <1>7
  <2> DEFINE x == n % 256
  <2> HIDE DEF n
  <2>3. x \in Int /\ 0 <= x /\ x <= 255 /\ x % 256 = x
    BY <2>2, Wrapped
  <2>4. StoredOf(t, v) = Num(x * One)
    BY <1>7 DEF StoredOf, n
  <2> HIDE DEF x
  <2>5. Len(e.words) = 1 /\ e.words[1] = x
    BY <2>1 DEF x
  <2>6. FromWordsOf(t, e.words) = Num(Unsigned(<<x>>) * One)
    BY <1>7, <2>3, <2>5 DEF FromWordsOf, FromRaw
  <2>7. Unsigned(<<x>>) = x
    BY <2>3, UnsignedOfOne
  <2>8. Holds(t, Num(x * One), 16)
    BY <1>7, <2>3, Spans, IntegerHeld DEF Integers8
  <2> QED
    BY <1>3, <1>7, <2>4, <2>5, <2>6, <2>7, <2>8, TypeSizes
<1>8. CASE t \in {"U16", "PACKED"}
  <2>1. e.words = <<n % 65536>>
    BY <1>2, <1>3, <1>8 DEF how
  <2>2. n \in Int
    BY <1>4, <1>8
  <2> DEFINE x == n % 65536
  <2>4. StoredOf(t, v) = Num(x * One)
    BY <1>8 DEF StoredOf
  <2> HIDE DEF n
  <2>3. x \in Int /\ 0 <= x /\ x <= 65535
    BY <2>2, Wrapped
  <2> HIDE DEF x
  <2>5. e.words = <<x>> /\ Len(e.words) = 1
    BY <2>1 DEF x
  <2>6. FromWordsOf(t, e.words) = Num(Unsigned(Bytes(x, 2)) * One)
    BY <1>8, <2>3, <2>5, BytesOfWord DEF FromWordsOf, FromRaw
  <2>7. Unsigned(Bytes(x, 2)) = x
    BY SMT, <2>3, TwoBytes
  <2>8. Holds(t, Num(x * One), 16)
    <3>1. x \in Span(t) /\ t \in Integers8
      BY <1>8, <2>3, Spans DEF Integers8
    <3> QED
      BY <2>3, <3>1, IntegerHeld
  <2> QED
    BY <1>3, <1>8, <2>4, <2>5, <2>6, <2>7, <2>8, TypeSizes
<1>9. CASE t = "S16"
  <2>1. /\ -32768 <= n /\ n <= 32767
        /\ e.words = Words(Bytes(n, octets)) /\ octets = 2
    <3>1. octets = 2
      BY <1>9, TypeSizes
    <3>2. how = IF ~(-32768 <= n /\ n <= 32767) THEN Encoding("raw", <<>>)
                ELSE Encoding("ok", Words(Bytes(n, octets)))
      <4> HIDE DEF n
      <4> QED
        BY <1>9 DEF how
    <3> HIDE DEF n, octets
    <3> QED
      BY <1>2, <1>3, <3>1, <3>2
  <2>2. n \in Int
    BY <1>4, <1>9
  <2>4. StoredOf(t, v) = Num(n * One)
    BY <1>9 DEF StoredOf
  <2> HIDE DEF n
  <2>5. BytesOf(e.words) = Bytes(n, 2) /\ Len(e.words) = 1
    BY <2>1, <2>2, TwoInWords
  <2>6. FromWordsOf(t, e.words) = Num(Twos(BytesOf(e.words)) * One)
    BY <1>9 DEF FromWordsOf, FromRaw
  <2>7. Twos(Bytes(n, 2)) = n
    BY SMT, <2>1, <2>2, TwoBytes
  <2>8. Holds(t, Num(n * One), 16)
    <3>1. n \in Span(t) /\ t \in Integers8
      BY <1>9, <2>1, <2>2, Spans DEF Integers8
    <3> QED
      BY <2>2, <3>1, IntegerHeld
  <2> QED
    BY <1>3, <1>9, <2>4, <2>5, <2>6, <2>7, <2>8, TypeSizes
<1>10. CASE t \in {"S32", "U32"}
  <2>1. /\ t = "U32" => 0 <= n
        /\ e.words = Words(Bytes(n, octets)) /\ octets = 4
    <3>1. octets = 4
      BY <1>10, TypeSizes
    <3>2. how = IF t = "U32" /\ n < 0 THEN Encoding("raw", <<>>)
                ELSE Encoding("ok", Words(Bytes(n, octets)))
      <4> HIDE DEF n
      <4> QED
        BY <1>10 DEF how
    <3>3. n \in Int
      BY <1>4, <1>10
    <3> HIDE DEF n, octets
    <3>4. n < 0 \/ 0 <= n
      BY <3>3
    <3> QED
      BY <1>2, <1>3, <3>1, <3>2, <3>4
  <2>2. n \in Int /\ -2147483647 - 1 <= n /\ n <= 2147483647
    BY <1>4, <1>10
  <2>4. StoredOf(t, v) = Num(n * One)
    BY <1>10 DEF StoredOf
  <2> HIDE DEF n
  <2>5. BytesOf(e.words) = Bytes(n, 4) /\ Len(e.words) = 2
    BY <2>1, <2>2, FourInWords
  <2>6. /\ t = "S32" => FromWordsOf(t, e.words) = Num(Twos(BytesOf(e.words)) * One)
        /\ t = "U32" => FromWordsOf(t, e.words) = Num(Unsigned(BytesOf(e.words)) * One)
    BY <1>10 DEF FromWordsOf, FromRaw
  <2>7. Twos(Bytes(n, 4)) = n /\ (0 <= n => Unsigned(Bytes(n, 4)) = n)
    BY SMT, <2>2, FourBytes
  <2>8. Holds(t, Num(n * One), 16)
    <3>1. n \in Span(t) /\ t \in Integers8
      BY <1>10, <2>1, <2>2, Spans DEF Integers8
    <3> QED
      BY <2>2, <3>1, IntegerHeld
  <2> QED
    BY <1>3, <1>10, <2>1, <2>4, <2>5, <2>6, <2>7, <2>8, TypeSizes
<1> QED
  BY <1>5, <1>6, <1>7, <1>8, <1>9, <1>10 DEF Types, Integers8

-----------------------------------------------------------------------------
(***************************************************************************)
(* Scales.                                                                 *)
(***************************************************************************)

\* What registers hold, read at a scale
MeantAt(t, v, scale) ==
    IF IsText(v) THEN Text(Stripped(v.text))
    ELSE IF t = "FLOAT" THEN v
    ELSE Num((v.num \div One) * scale)

\* Kept and Wraps, of a type
KeptAt(t, asked, meant, scale) ==
    LET diff == asked.num - meant.num
    IN  IF IsText(asked) THEN meant = Text(Stripped(asked.text))
        ELSE IF t = "FLOAT" THEN diff = 0
        ELSE IF scale = One THEN diff \in 1 - One..One - 1
        ELSE 2 * diff \in -scale..scale
WrapsAt(t, asked, scale) ==
    LET count == Trunc(ScaledDown(asked, scale))
    IN  \/ t = "U8" /\ count \notin 0..255
        \/ t \in {"U16", "PACKED"} /\ count \notin Word

\* What rounding is off by: half a step at most.
LEMMA Rounded ==
    ASSUME NEW x \in Int, NEW d \in Int, d >= 1
    PROVE  /\ Round(x, d) \in Int
           /\ -d <= 2 * (x - Round(x, d) * d) /\ 2 * (x - Round(x, d) * d) <= d
<1> DEFINE q == x \div d
           r == x % d
           c == Round(x, d)
<1>1. q \in Int /\ r \in Int /\ 0 <= r /\ r < d /\ x = d * q + r
  BY SMT
<1>2. /\ c = q \/ c = q + 1
      /\ c = q => 2 * r <= d
      /\ c = q + 1 => 2 * r >= d
  <2>1. c = IF 2 * r < d \/ (2 * r = d /\ q % 2 = 0) THEN q ELSE q + 1
    BY DEF Round
  <2> HIDE DEF c, q, r
  <2> QED
    BY SMT, <1>1, <2>1
<1> HIDE DEF q, r, c
<1>3. CASE c = q
  <2>1. x - c * d = r
    BY SMT, <1>1, <1>3
  <2> QED
    BY SMT, <1>1, <1>2, <1>3, <2>1 DEF c
<1>4. CASE c = q + 1
  <2>1. x - c * d = r - d
    BY SMT, <1>1, <1>4
  <2>2. c \in Int
    BY <1>1, <1>4
  <2>3. 2 * (r - d) >= -d /\ 2 * (r - d) <= d
    BY SMT, <1>1, <1>2, <1>4
  <2> QED
    BY <2>1, <2>2, <2>3 DEF c
<1> QED
  BY <1>2, <1>3, <1>4

\* So what is rounded is not larger than what it was, but for fractions.
LEMMA RoundBounds ==
    ASSUME NEW x \in Int, NEW d \in Int, d >= 1, NEW lo \in Int, NEW hi \in Int,
           lo <= x, x <= hi, lo <= 0, 0 <= hi
    PROVE  Round(x, d) \in Int /\ lo <= Round(x, d) /\ Round(x, d) <= hi
<1> DEFINE c == Round(x, d)
<1>1. c \in Int /\ -d <= 2 * (x - c * d) /\ 2 * (x - c * d) <= d
  BY Rounded
<1> HIDE DEF c
<1>2. CASE d = 1
  <2>1. c = x
    BY SMT, <1>1, <1>2
  <2> QED
    BY <2>1 DEF c
<1>3. CASE d >= 2
  <2>1. c <= hi
    <3>1. SUFFICES ASSUME c >= hi + 1 PROVE FALSE
      BY <1>1
    <3>2. c * d >= (hi + 1) * d
      BY SMT, <1>1, <3>1
    <3>3. 2 * ((hi + 1) * d) <= 2 * x + d
      BY SMT, <1>1, <3>2
    <3>4. (hi + 1) * d = hi * d + d
      BY SMT
    <3>5. hi * d >= 2 * hi
      BY SMT, <1>3
    <3> QED
      BY SMT, <1>3, <3>3, <3>4, <3>5
  <2>2. lo <= c
    <3>1. SUFFICES ASSUME c <= lo - 1 PROVE FALSE
      BY <1>1
    <3>2. c * d <= (lo - 1) * d
      BY SMT, <1>1, <3>1
    <3>3. 2 * ((lo - 1) * d) >= 2 * x - d
      BY SMT, <1>1, <3>2
    <3>4. (lo - 1) * d = lo * d - d
      BY SMT
    <3>5. lo * d <= 2 * lo
      BY SMT, <1>3
    <3> QED
      BY SMT, <1>3, <3>3, <3>4, <3>5
  <2> QED
    BY <1>1, <2>1, <2>2 DEF c
<1> QED
  BY <1>2, <1>3

\* What cutting off is off by: less than one.
LEMMA CutOff ==
    ASSUME NEW v, v.num \in Int
    PROVE  /\ Trunc(v) \in Int
           /\ 1 - One <= v.num - Trunc(v) * One /\ v.num - Trunc(v) * One <= One - 1
<1> DEFINE x == v.num
           n == Trunc(v)
<1>1. n = IF x >= 0 THEN x \div 1000 ELSE -((-x) \div 1000)
  BY DEF Trunc, One
<1> HIDE DEF x, n
<1>2. x \in Int
  BY DEF x
<1>3. n \in Int /\ 1 - 1000 <= x - n * 1000 /\ x - n * 1000 <= 1000 - 1
  BY SMT, <1>1, <1>2
<1> QED
  BY <1>3 DEF x, n, One

\* A whole number is not rounded.
LEMMA TruncWhole ==
    ASSUME NEW n \in Int
    PROVE  Trunc(Num(n * One)) = n /\ (n * One) \div One = n /\ n * One \in Int
<1>1. Num(n * One).num = n * One
  BY NumIsNoText
<1>2. n * 1000 \in Int /\ (n * 1000) \div 1000 = n /\ (-(n * 1000)) \div 1000 = -n
      /\ (n >= 0 <=> n * 1000 >= 0)
  BY SMT
<1>3. Trunc(Num(n * One)) = IF n * 1000 >= 0 THEN (n * 1000) \div 1000
                            ELSE -((-(n * 1000)) \div 1000)
  BY <1>1 DEF Trunc, One
<1>4. Trunc(Num(n * One)) = n
  BY SMT, <1>2, <1>3
<1> QED
  BY <1>2, <1>4 DEF One

\* Between two bounds is in their interval.
LEMMA InInterval ==
    ASSUME NEW lo \in Int, NEW hi \in Int, NEW x \in Int, lo <= x, x <= hi
    PROVE  x \in lo..hi
OBVIOUS

\* What is asked for can be counted in the steps of a scale.
LEMMA ScaledCounts ==
    ASSUME NEW t, NEW v, Askable(v), NEW scale \in Int, 1 <= scale,
           t = "FLOAT" => scale = One
    PROVE  Countable(t, ScaledDown(v, scale)) /\ (IsText(ScaledDown(v, scale)) <=> IsText(v))
<1>1. CASE IsText(v)
  <2>1. ScaledDown(v, scale) = v
    BY <1>1 DEF ScaledDown
  <2> QED
    BY <1>1, <2>1 DEF Countable, Askable
<1>2. CASE ~IsText(v)
  <2>1. /\ v = Num(v.num) /\ v.num \in Int
        /\ -2147483647 - 1 <= v.num /\ v.num <= 2147483647
    BY <1>2 DEF Askable
  <2>2. CASE scale = One
    <3>1. ScaledDown(v, scale) = v
      BY <2>2 DEF ScaledDown
    <3>2. -2147483647 - 1 <= Trunc(v) /\ Trunc(v) <= 2147483647
      BY <2>1, TruncBounds
    <3> QED
      BY <1>2, <2>1, <3>1, <3>2 DEF Countable
  <2>3. CASE scale # One
    <3> DEFINE c == Round(v.num, scale)
               w == Num(c * One)
    <3>1. ScaledDown(v, scale) = w
      BY <1>2, <2>3 DEF ScaledDown
    <3>2. c \in Int /\ -2147483647 - 1 <= c /\ c <= 2147483647
      <4> DEFINE x == v.num
                 lo == -2147483647 - 1
                 hi == 2147483647
      <4>1. /\ x \in Int /\ lo \in Int /\ hi \in Int /\ lo <= x /\ x <= hi
            /\ lo <= 0 /\ 0 <= hi
        BY <2>1
      <4> HIDE DEF x, lo, hi
      <4>2. Round(x, scale) \in Int /\ lo <= Round(x, scale) /\ Round(x, scale) <= hi
        BY <4>1, RoundBounds
      <4> QED
        BY <4>2 DEF x, lo, hi
    <3> HIDE DEF c
    <3>3. Trunc(w) = c /\ c * One \in Int
      BY <3>2, TruncWhole
    <3>4. ~IsText(w) /\ w.num = c * One
      BY NumIsNoText
    <3>5. t # "FLOAT"
      BY <2>3
    <3> HIDE DEF w
    <3>6. w = Num(w.num)
      BY <3>4 DEF w
    <3> QED
      BY <1>2, <3>1, <3>2, <3>3, <3>4, <3>5, <3>6 DEF Countable
  <2> QED
    BY <2>2, <2>3
<1> QED
  BY <1>1, <1>2

\* A number in steps is what was asked for, cut off or rounded.
LEMMA CountKept ==
    ASSUME NEW t, t # "FLOAT", NEW v, Askable(v), ~IsText(v), NEW scale \in Int, 1 <= scale,
           NEW meant, meant = Num(Trunc(ScaledDown(v, scale)) * scale)
    PROVE  KeptAt(t, v, meant, scale)
<1>1. v = Num(v.num) /\ v.num \in Int
  BY DEF Askable
<1> DEFINE x == v.num
           n == Trunc(ScaledDown(v, scale))
           diff == x - n * scale
<1>2. meant.num = n * scale
  BY NumIsNoText
<1>3. KeptAt(t, v, meant, scale) <=> IF scale = One THEN diff \in 1 - One..One - 1
                                     ELSE 2 * diff \in -scale..scale
  <2>1. v.num - meant.num = diff
    BY <1>2
  <2> HIDE DEF diff
  <2> QED
    BY <2>1 DEF KeptAt
<1>4. CASE scale = One
  <2>1. ScaledDown(v, scale) = v
    BY <1>4 DEF ScaledDown
  <2>2. n \in Int /\ 1 - One <= diff /\ diff <= One - 1
    BY <1>1, <1>4, <2>1, CutOff
  <2>3. x \in Int /\ One \in Int
    BY <1>1 DEF One
  <2> DEFINE lo == 1 - One
             hi == One - 1
  <2>4. diff \in Int /\ lo \in Int /\ hi \in Int
    BY <1>4, <2>2, <2>3
  <2>5. lo <= diff /\ diff <= hi
    BY <2>2
  <2> HIDE DEF lo, hi, diff
  <2>6. diff \in lo..hi
    BY <2>4, <2>5, InInterval
  <2> QED
    BY <1>3, <1>4, <2>6 DEF lo, hi
<1>5. CASE scale # One
  <2> DEFINE c == Round(x, scale)
  <2>1. ScaledDown(v, scale) = Num(c * One)
    BY <1>5 DEF ScaledDown
  <2>2. /\ c \in Int /\ -scale <= 2 * (x - c * scale) /\ 2 * (x - c * scale) <= scale
    <3> HIDE DEF x
    <3>1. x \in Int
      BY <1>1 DEF x
    <3> QED
      BY <3>1, Rounded
  <2> HIDE DEF c
  <2>3. n = c
    BY <2>1, <2>2, TruncWhole
  <2> DEFINE twice == 2 * diff
             lo == -scale
  <2>4. twice = 2 * (x - c * scale)
    BY <2>3
  <2>5. twice \in Int /\ lo \in Int
    <3>1. c * scale \in Int /\ x \in Int
      BY <1>1, <2>2
    <3> DEFINE y == c * scale
    <3>2. twice = 2 * (x - y) /\ y \in Int
      BY <2>4, <3>1
    <3> HIDE DEF y, twice
    <3> QED
      BY <3>1, <3>2
  <2>6. lo <= twice /\ twice <= scale
    BY <2>2, <2>4
  <2> HIDE DEF twice, lo
  <2>7. twice \in lo..scale
    BY <2>5, <2>6, InInterval
  <2> QED
    BY <1>3, <1>5, <2>7 DEF twice, lo
<1> QED
  BY <1>4, <1>5

\* What a Modbus write leaves in the device, read at the parameter's scale, is what was
\* asked for, unless it wraps; and it is something the parameter can hold.
THEOREM WriteInWords ==
    ASSUME NEW t \in Types, NEW v, Askable(v), NEW scale \in Int, 1 <= scale,
           t = "FLOAT" => scale = One, NEW e,
           e = EncodeValueToWords(ScaledDown(v, scale), t, RegisterCountFor(t)), e.how = "ok",
           NEW stored, stored = FromWordsOf(t, e.words)
    PROVE  /\ Len(e.words) = RegisterCountFor(t)
           /\ Holds(t, stored, 16)
           /\ KeptAt(t, v, MeantAt(t, stored, scale), scale) \/ WrapsAt(t, v, scale)
<1> DEFINE d == ScaledDown(v, scale)
           n == Trunc(d)
<1>1. Countable(t, d) /\ (IsText(d) <=> IsText(v))
  BY ScaledCounts
<1>2. e = EncodeValueToWords(d, t, RegisterCountFor(t))
  OBVIOUS
<1> HIDE DEF d
<1>3. /\ stored = StoredOf(t, d) /\ Len(e.words) = RegisterCountFor(t)
      /\ Holds(t, StoredOf(t, d), 16) /\ (IsText(d) <=> t = "STRING")
      /\ IsText(d) => Len(d.text) <= 16
  BY <1>1, <1>2, WordsStored
<1>4. KeptAt(t, v, MeantAt(t, stored, scale), scale) \/ WrapsAt(t, v, scale)
  <2>1. CASE t = "STRING"
    <3>1. IsText(v) /\ d = v
      BY <1>1, <1>3, <2>1 DEF d, ScaledDown
    <3> DEFINE s == v.text
    <3>2. stored = Text(Padded(s, 16))
      BY <1>3, <2>1, <3>1 DEF StoredOf
    <3>3. s \in Seq(0..255)
      BY <3>1 DEF Askable
    <3>4. Len(s) <= 16
      BY <1>3, <3>1
    <3> HIDE DEF s
    <3>5. Stripped(Padded(s, 16)) = Stripped(s)
      <4> DEFINE k == 16
                 len == Len(s)
      <4>1. k \in Nat /\ len \in Nat /\ len <= k
        BY <3>3, <3>4
      <4> HIDE DEF k, len
      <4>2. Stripped(Padded(s, k)) = Stripped(s)
        BY <4>1, PaddedStripped DEF len
      <4> QED
        BY <4>2 DEF k
    <3>6. MeantAt(t, stored, scale) = Text(Stripped(s))
      BY <3>2, <3>5, TextIsText DEF MeantAt
    <3> QED
      BY <3>1, <3>6 DEF KeptAt, s
  <2>2. CASE t = "FLOAT"
    <3>1. d = v /\ ~IsText(v)
      BY <1>1, <1>3, <2>2 DEF d, ScaledDown
    <3>2. stored = v
      BY <1>3, <2>2, <3>1 DEF StoredOf
    <3>3. v.num \in Int
      BY <3>1 DEF Askable
    <3> QED
      BY <2>2, <3>1, <3>2, <3>3 DEF KeptAt, MeantAt
  <2>3. CASE t \notin {"STRING", "FLOAT"} /\ ~WrapsAt(t, v, scale)
    <3>1. ~IsText(v) /\ ~IsText(d)
      BY <1>1, <1>3, <2>3
    <3>2. n \in Int
      <4>1. d.num \in Int
        BY <1>1, <3>1 DEF Countable
      <4> QED
        BY <4>1, CutOff
    <3>3. stored = Num(n * One)
      <4>1. CASE t = "U8"
        <5>1. n \in 0..255
          BY <2>3, <4>1 DEF WrapsAt, d
        <5>2. stored = Num((n % 256) * One)
          BY <1>3, <4>1 DEF StoredOf
        <5> HIDE DEF n
        <5>3. n % 256 = n
          BY <5>1
        <5> QED
          BY <5>2, <5>3
      <4>2. CASE t \in {"U16", "PACKED"}
        <5>1. 0 <= n /\ n <= 65535
          <6>1. n \in Word
            BY <2>3, <4>2 DEF WrapsAt, d
          <6> HIDE DEF n
          <6> QED
            BY <6>1 DEF Word
        <5>2. stored = Num((n % 65536) * One)
          BY <1>3, <4>2 DEF StoredOf
        <5>3. n % 65536 = n
          <6> HIDE DEF n
          <6> QED
            BY SMT, <3>2, <5>1
        <5> HIDE DEF n
        <5> QED
          BY <5>2, <5>3
      <4>3. CASE t \notin {"U8", "U16", "PACKED"}
        BY <1>3, <2>3, <4>3 DEF StoredOf
      <4> QED
        BY <4>1, <4>2, <4>3
    <3>4. MeantAt(t, stored, scale) = Num(n * scale)
      <4> HIDE DEF n
      <4>1. (n * One) \div One = n
        BY <3>2, TruncWhole
      <4>2. ~IsText(Num(n * One)) /\ Num(n * One).num = n * One
        BY NumIsNoText
      <4> QED
        BY <2>3, <3>3, <4>1, <4>2 DEF MeantAt
    <3> HIDE DEF n
    <3>5. MeantAt(t, stored, scale) = Num(Trunc(ScaledDown(v, scale)) * scale)
      BY <3>4 DEF n, d
    <3> QED
      BY <2>3, <3>1, <3>5, CountKept
  <2> QED
    BY <2>1, <2>2, <2>3
<1> QED
  BY <1>3, <1>4

\* What a Modbus read makes of the registers is what they mean at the scale.
THEOREM ReadInWords ==
    ASSUME NEW t \in Types, NEW v, Holds(t, v, 16), NEW w \in WordsFor(t, v),
           NEW scale, t = "FLOAT" => scale = One
    PROVE  DecodableWords(w, t) /\ ScaledUp(DecodeWords(w, t), scale) = MeantAt(t, v, scale)
<1>1. DecodableWords(w, t) /\ DecodeWords(w, t) = Plain(v)
  BY WordsRead
<1>2. CASE t = "STRING"
  <2>1. IsText(v)
    BY <1>2, HeldText
  <2>2. Plain(v) = Text(Stripped(v.text)) /\ IsText(Plain(v))
    BY <2>1, TextIsText DEF Plain
  <2> QED
    BY <1>1, <2>1, <2>2 DEF ScaledUp, MeantAt
<1>3. CASE t = "FLOAT"
  <2>1. ~IsText(v)
    BY <1>3, HeldFloat
  <2> QED
    BY <1>1, <1>3, <2>1 DEF Plain, ScaledUp, MeantAt
<1>4. CASE t \in Integers8
  <2>1. ~IsText(v) /\ v = Num((v.num \div One) * One)
    BY <1>4, HeldInteger
  <2>2. t # "FLOAT"
    BY <1>4 DEF Integers8
  <2> QED
    BY <1>1, <2>1, <2>2 DEF Plain, ScaledUp, MeantAt
<1> QED
  BY <1>2, <1>3, <1>4 DEF Types

-----------------------------------------------------------------------------
(***************************************************************************)
(* Ranges.                                                                 *)
(***************************************************************************)

\* The numbers the first digits make
ThenDigit(n, d) == 10 * n + d
WholeUpTo(digits) ==
    CHOOSE f : f = [k \in 0..Len(digits) |-> IF k = 0 THEN 0 ELSE ThenDigit(f[k - 1], digits[k])]

\* They are had by taking one digit after another.
LEMMA WholeSteps ==
    ASSUME NEW digits, NEW n \in Nat, Len(digits) = n
    PROVE  /\ Whole(digits) = WholeUpTo(digits)[n] * One /\ WholeUpTo(digits)[0] = 0
           /\ \A k \in 1..n : WholeUpTo(digits)[k] = ThenDigit(WholeUpTo(digits)[k - 1], digits[k])
<1> DEFINE R(m, f) == f = [k \in 0..m |-> IF k = 0 THEN 0 ELSE ThenDigit(f[k - 1], digits[k])]
           S == {m \in Nat : \E f : R(m, f)}
           F == WholeUpTo(digits)
<1>1. 0 \in S
  <2> DEFINE f == [k \in 0..0 |-> 0]
  <2>1. R(0, f)
    OBVIOUS
  <2> QED
    BY <2>1
<1>2. \A m \in S : m + 1 \in S
  <2> TAKE m \in S
  <2>1. m \in Nat /\ m + 1 \in Nat
    OBVIOUS
  <2>2. PICK g : R(m, g)
    OBVIOUS
  <2> DEFINE f == [k \in 0..m + 1 |-> IF k <= m THEN g[k] ELSE ThenDigit(g[m], digits[m + 1])]
  <2>3. \A k \in 0..m : f[k] = g[k]
    BY <2>1
  <2>4. f[m + 1] = ThenDigit(g[m], digits[m + 1])
    BY <2>1
  <2>5. f = [k \in 0..m + 1 |-> f[k]]
    OBVIOUS
  <2> HIDE DEF f
  <2>6. \A k \in 0..m + 1 : f[k] = IF k = 0 THEN 0 ELSE ThenDigit(f[k - 1], digits[k])
    <3> TAKE k \in 0..m + 1
    <3>1. CASE k = 0
      BY <2>1, <2>2, <2>3, <3>1
    <3>2. CASE k \in 1..m
      <4>1. k \in 0..m /\ k - 1 \in 0..m /\ k # 0
        BY <2>1, <3>2
      <4>2. f[k] = g[k] /\ f[k - 1] = g[k - 1]
        BY <2>3, <4>1
      <4>3. g[k] = ThenDigit(g[k - 1], digits[k])
        BY <2>2, <4>1
      <4> QED
        BY <4>1, <4>2, <4>3
    <3>3. CASE k = m + 1
      <4>1. k - 1 = m /\ m \in 0..m /\ k # 0
        BY <2>1, <3>3
      <4> QED
        BY <2>3, <2>4, <3>3, <4>1
    <3> QED
      BY <2>1, <3>1, <3>2, <3>3
  <2>7. R(m + 1, f)
    BY <2>5, <2>6
  <2> QED
    BY <2>1, <2>7
<1>3. S = Nat
  <2>1. S \in SUBSET Nat
    OBVIOUS
  <2> HIDE DEF S
  <2> QED
    BY <1>1, <1>2, <2>1, SetInduction
<1>4. PICK f : R(n, f)
  BY <1>3
<1>5. R(n, F)
  BY <1>4 DEF WholeUpTo
<1> HIDE DEF F
<1>6. F[0] = 0 /\ \A k \in 1..n : F[k] = ThenDigit(F[k - 1], digits[k])
  BY <1>5
<1>7. Whole(digits) = F[n] * One
  BY DEF F, WholeUpTo, Whole, ThenDigit
<1> QED
  BY <1>6, <1>7 DEF F

\* One digit more makes a number no smaller.
LEMMA DigitThen ==
    ASSUME NEW n \in Nat, NEW d \in 0..9
    PROVE  ThenDigit(n, d) \in Nat /\ n <= ThenDigit(n, d)
BY DEF ThenDigit

\* More digits make no smaller number.
LEMMA WholeGrows ==
    ASSUME NEW s \in Seq(0..9), NEW n \in Nat, Len(s) = n
    PROVE  /\ \A k \in 0..n : WholeUpTo(s)[k] \in Nat
           /\ \A m \in 0..n : \A k \in m..n : WholeUpTo(s)[m] <= WholeUpTo(s)[k]
<1> DEFINE F == WholeUpTo(s)
<1>1. F[0] = 0 /\ \A k \in 1..n : F[k] = ThenDigit(F[k - 1], s[k])
  BY WholeSteps
<1>2. \A k \in 1..n : s[k] \in 0..9
  OBVIOUS
<1> HIDE DEF F
<1>3. \A k \in 0..n : F[k] \in Nat
  <2> DEFINE S == {k \in 0..n : F[k] \in Nat}
  <2>1. 0 \in S
    BY <1>1
  <2>2. \A k \in 0..n - 1 : k \in S => k + 1 \in S
    <3> TAKE k \in 0..n - 1
    <3> HAVE k \in S
    <3>1. k + 1 \in 1..n /\ (k + 1) - 1 = k /\ k + 1 \in 0..n
      OBVIOUS
    <3>2. F[k + 1] = ThenDigit(F[k], s[k + 1]) /\ s[k + 1] \in 0..9
      BY <1>1, <1>2, <3>1
    <3>3. F[k + 1] \in Nat
      BY <3>2, DigitThen
    <3> QED
      BY <3>1, <3>3
  <2>3. \A k \in 0..n : k \in S
    <3> HIDE DEF S
    <3> QED
      BY <2>1, <2>2, Induction
  <2> QED
    BY <2>3
<1>4. ASSUME NEW k \in 1..n PROVE F[k - 1] <= F[k]
  <2>1. k - 1 \in 0..n
    OBVIOUS
  <2>2. F[k - 1] \in Nat
    BY <1>3, <2>1
  <2>3. F[k] = ThenDigit(F[k - 1], s[k]) /\ s[k] \in 0..9
    BY <1>1, <1>2
  <2> QED
    BY <2>2, <2>3, DigitThen
<1>5. ASSUME NEW m \in 0..n PROVE \A k \in m..n : F[m] <= F[k]
  <2> DEFINE S == {k \in 0..n : m <= k => F[m] <= F[k]}
  <2>1. 0 \in S
    <3>1. F[m] \in Nat
      BY <1>3
    <3>2. m <= 0 => m = 0
      OBVIOUS
    <3> QED
      BY <3>1, <3>2
  <2>2. \A k \in 0..n - 1 : k \in S => k + 1 \in S
    <3> TAKE k \in 0..n - 1
    <3> HAVE k \in S
    <3>1. k + 1 \in 1..n /\ (k + 1) - 1 = k /\ k + 1 \in 0..n /\ k \in 0..n
      OBVIOUS
    <3>2. F[k] <= F[k + 1]
      BY <1>4, <3>1
    <3>3. F[m] \in Nat /\ F[k] \in Nat /\ F[k + 1] \in Nat
      BY <1>3, <3>1
    <3>4. CASE m <= k
      BY <3>1, <3>2, <3>3, <3>4
    <3>5. CASE ~(m <= k)
      <4>1. m <= k + 1 => m = k + 1
        BY <3>5
      <4> QED
        BY <3>1, <3>3, <4>1
    <3> QED
      BY <3>4, <3>5
  <2>3. \A k \in 0..n : k \in S
    <3> HIDE DEF S
    <3> QED
      BY <2>1, <2>2, Induction
  <2> QED
    BY <2>3
<1> QED
  BY <1>3, <1>5 DEF F

\* The first three digits of a number are no greater than the number.
LEMMA WholePrefix ==
    ASSUME NEW s \in Seq(0..9)
    PROVE  /\ Whole(s) \in Int /\ 0 <= Whole(s)
           /\ Len(s) > 3 =>
                /\ Whole(SubSeq(s, 1, 3)) \in Int
                /\ 0 <= Whole(SubSeq(s, 1, 3)) /\ Whole(SubSeq(s, 1, 3)) <= Whole(s)
<1> DEFINE n == Len(s)
           F == WholeUpTo(s)
<1>1. n \in Nat
  OBVIOUS
<1>2. /\ Whole(s) = F[n] * One /\ F[0] = 0
      /\ \A k \in 1..n : F[k] = ThenDigit(F[k - 1], s[k])
  BY <1>1, WholeSteps
<1>3. /\ \A k \in 0..n : F[k] \in Nat
      /\ \A m \in 0..n : \A k \in m..n : F[m] <= F[k]
  BY <1>1, WholeGrows
<1>4. Whole(s) \in Int /\ 0 <= Whole(s)
  <2>1. F[n] \in Nat
    BY <1>1, <1>3
  <2> HIDE DEF F, n
  <2> QED
    BY <1>2, <2>1 DEF One
<1>5. ASSUME n > 3
      PROVE  /\ Whole(SubSeq(s, 1, 3)) \in Int
             /\ 0 <= Whole(SubSeq(s, 1, 3)) /\ Whole(SubSeq(s, 1, 3)) <= Whole(s)
  <2> DEFINE p == SubSeq(s, 1, 3)
             G == WholeUpTo(p)
             m == 3
  <2>1. p \in Seq(0..9) /\ Len(p) = 3 /\ p[1] = s[1] /\ p[2] = s[2] /\ p[3] = s[3]
    <3>1. p = [i \in 1..3 |-> s[i]]
      BY SMT
    <3>2. s[1] \in 0..9 /\ s[2] \in 0..9 /\ s[3] \in 0..9
      BY <1>5
    <3> DEFINE X == 0..9
               k == 3
    <3>3. p \in [1..k -> X] /\ k \in Nat
      <4>1. \A i \in 1..3 : s[i] \in X
        BY <3>2
      <4> HIDE DEF X, p
      <4>2. p \in [1..3 -> X]
        BY <3>1, <4>1
      <4> QED
        BY <4>2
    <3>4. p[1] = s[1] /\ p[2] = s[2] /\ p[3] = s[3]
      BY <3>1
    <3> HIDE DEF p, X, k
    <3>5. p \in Seq(X) /\ Len(p) = k
      BY <3>3, FunctionIsSeq
    <3> QED
      BY <3>4, <3>5 DEF X, k
  <2> HIDE DEF p
  <2>2. /\ Whole(p) = G[m] * One /\ G[0] = 0
        /\ \A k \in 1..m : G[k] = ThenDigit(G[k - 1], p[k])
    <3>1. m \in Nat /\ Len(p) = m
      BY <2>1
    <3> HIDE DEF m
    <3> QED
      BY <3>1, WholeSteps
  <2> HIDE DEF F, G, n
  <2>3. G[1] = F[1]
    BY <1>1, <1>2, <1>5, <2>1, <2>2
  <2>4. G[2] = F[2]
    BY <1>1, <1>2, <1>5, <2>1, <2>2, <2>3
  <2>5. G[3] = F[3]
    BY <1>1, <1>2, <1>5, <2>1, <2>2, <2>4
  <2>6. F[3] <= F[n] /\ F[3] \in Nat /\ F[n] \in Nat
    BY <1>1, <1>3, <1>5
  <2>7. Whole(p) = F[3] * One
    BY <2>2, <2>5
  <2> QED
    BY <1>2, <2>6, <2>7 DEF One, p
<1> QED
  BY <1>4, <1>5

\* The upper end of a range is never read as a larger one.
THEOREM UpperEndBelow ==
    ASSUME NEW e, e.digits \in Seq(0..9), e.frac \in 0..One - 1,
           e.neg => e.commas \/ Len(e.digits) <= 3
    PROVE  /\ Printed(e) \in Int /\ UpperEnd(e) \in Int /\ UpperEnd(e) <= Printed(e)
           /\ ~(~e.commas /\ Len(e.digits) > 3) => UpperEnd(e) = Printed(e)
<1> DEFINE d == e.digits
           w == Whole(d)
           p == Whole(SubSeq(d, 1, 3))
           f == e.frac
<1>1. /\ w \in Int /\ 0 <= w
      /\ Len(d) > 3 => p \in Int /\ 0 <= p /\ p <= w
  BY WholePrefix
<1>2. f \in Int /\ 0 <= f
  <2> DEFINE last == One - 1
  <2>1. last \in Int /\ f \in 0..last
    BY DEF One
  <2> HIDE DEF f, last
  <2> QED
    BY <2>1
<1>3. Len(d) \in Nat
  OBVIOUS
<1>4. Printed(e) = IF e.neg THEN -(w + f) ELSE w + f
  BY DEF Printed, Signed
<1>5. /\ e.commas \/ Len(d) <= 3 => UpperEnd(e) = Printed(e)
      /\ ~(e.commas \/ Len(d) <= 3) => UpperEnd(e) = IF e.neg THEN -p ELSE p
  BY DEF UpperEnd, Signed
<1> HIDE DEF w, p, f, d
<1>6. Printed(e) \in Int
  BY <1>1, <1>2, <1>4
<1>7. CASE e.commas \/ Len(d) <= 3
  BY <1>5, <1>6, <1>7 DEF d
<1>8. CASE ~(e.commas \/ Len(d) <= 3)
  <2>1. ~e.neg /\ Len(d) > 3
    BY <1>3, <1>8 DEF d
  <2>2. UpperEnd(e) = p /\ p \in Int /\ p <= w /\ Printed(e) = w + f
    BY <1>1, <1>4, <1>5, <1>8, <2>1
  <2> QED
    BY <1>1, <1>2, <1>6, <1>8, <2>1, <2>2 DEF d
<1> QED
  BY <1>7, <1>8

-----------------------------------------------------------------------------
(***************************************************************************)
(* Calls: what is sent, and what is refused.                               *)
(***************************************************************************)

\* TypeOf, Documents, Misread, NoRoom, Unjustified and LaterLoop, of an installation
TypeIn(plant, id) == DataTypeMap[RowOf(plant, id).type]
DocumentsIn(plant, id, v) ==
    LET range == RowOf(plant, id).range IN
    IsText(v) \/ range = NA \/ v.num \in Printed(range.lo)..Printed(range.hi)
MisreadIn(plant, id) ==
    LET range == RowOf(plant, id).range
    IN  range # NA /\ ~range.hi.commas /\ Len(range.hi.digits) > 3
NoRoomIn(plant, id, v) ==
    IF IsText(v) THEN ~Ascii(v.text) \/ Len(v.text) > 255
    ELSE Trunc(ScaledDown(v, Scale(RowOf(plant, id)))) \notin Span(TypeIn(plant, id))
LaterLoopIn(plant, q) == plant.proto # "std" /\ q.instance # 1
UnjustifiedIn(plant, q) ==
    /\ AskedOf(plant, q.ref) # {}
    /\ \A id \in AskedOf(plant, q.ref) :
         /\ q.instance \in 1..RowOf(plant, id).max
         /\ Writes(q) =>
              /\ RowOf(plant, id).rwes # "R"
              /\ DocumentsIn(plant, id, q.value)
              /\ IsText(q.value) <=> TypeIn(plant, id) = "STRING"
              /\ IsText(q.value) => plant.proto = "std" \/ Len(q.value.text) <= 16

\* The registers a value becomes, a request's wire, and a request that is sent
WordsIn(plant, id, v) ==
    EncodeValueToWords(ScaledDown(v, Scale(RowOf(plant, id))), TypeIn(plant, id),
                       RegisterCountFor(TypeIn(plant, id)))
PayloadOf(plant, id, q) ==
    IF Writes(q) THEN EncodeWriteRequest(id, TypeIn(plant, id), q.value, q.instance)
    ELSE EncodeReadRequest(id, q.instance)
WireOf(plant, id, q) ==
    IF plant.proto = "std" THEN EncodeFrame(5, AddrToMac(1), 0, PayloadOf(plant, id, q))
    ELSE IF Writes(q) THEN WriteOp(CoerceInt(RowOf(plant, id).addr),
                                   WordsIn(plant, id, q.value).words)
    ELSE ReadOp(CoerceInt(RowOf(plant, id).addr), RegisterCountFor(TypeIn(plant, id)))
CallSound(plant, id, q) ==
    /\ q \in plant.requests /\ id \in IdsOf(plant) /\ AskedOf(plant, q.ref) = {id}
    /\ plant.proto # "std" => q.instance = 1
    /\ Writes(q) =>
         /\ RowOf(plant, id).rwes # "R" /\ DocumentsIn(plant, id, q.value)
         /\ IF plant.proto = "std" THEN Encodable(TypeIn(plant, id), q.value)
            ELSE WordsIn(plant, id, q.value).how = "ok"

\* An installation that is assumed
Sound(plant) == \E l \in DOMAIN Plant : plant = Plant[l]

\* What is assumed of every installation is so of each.
LEMMA SoundPlant ==
    ASSUME NEW plant, Sound(plant)
    PROVE  /\ Tabled(plant)
           /\ \A q \in plant.requests : RequestAssumption(plant, q)
BY RowsAssumption, RequestsAssumption DEF Sound, Tabled

\* What there is to a row
LEMMA RowFacts ==
    ASSUME NEW plant, Sound(plant), NEW id \in IdsOf(plant)
    PROVE  LET row == RowOf(plant, id)
               t == TypeIn(plant, id)
           IN  /\ row \in LoadableRows(plant) /\ row.id = id /\ id \in Nat
               /\ RowAssumption(plant, row)
               /\ t \in Types /\ Loadable(row)
               /\ Scale(row) \in Int /\ 1 <= Scale(row)
               /\ t = "FLOAT" => Scale(row) = One /\ row.decimal = NA
               /\ row.decimal # NA => Scale(row) = One /\ row.rwes = "R"
               /\ RegisterCountFor(t) \in {1, 2, 8}
               /\ RwesNormalise[row.rwes] # "R" => row.rwes # "R"
               /\ row.rwes # "R" => RwesNormalise[row.rwes] # "R"
<1> DEFINE row == RowOf(plant, id)
           t == TypeIn(plant, id)
<1>1. row \in LoadableRows(plant) /\ row.id = id
  BY SoundPlant, IdDocumented
<1>2. RowAssumption(plant, row)
  BY <1>1, SoundPlant DEF Tabled
<1>3. Loadable(row)
  BY <1>1 DEF LoadableRows
<1>4. t \in Types
  BY <1>3, TypeOfRow DEF TypeIn
<1>5. t = DataTypeMap[row.type]
  BY DEF TypeIn
<1> HIDE DEF row
<1>6. id \in Nat
  BY <1>1, <1>2 DEF RowAssumption
<1>7. Scale(row) \in Int /\ 1 <= Scale(row)
  <2>1. row.scale = NA \/ row.scale \in 1..One
    BY <1>2 DEF RowAssumption
  <2>2. One \in Int /\ 1 <= One
    BY DEF One
  <2> QED
    BY <2>1, <2>2 DEF Scale
<1>8. t = "FLOAT" => Scale(row) = One /\ row.decimal = NA
  BY <1>2, <1>5 DEF RowAssumption, Scale
<1>9. row.decimal # NA => Scale(row) = One /\ row.rwes = "R"
  BY <1>2 DEF RowAssumption, Scale
<1> HIDE DEF t
<1>10. RegisterCountFor(t) \in {1, 2, 8}
  BY <1>4, TypeSizes DEF Types, Integers8
<1>11. /\ RwesNormalise[row.rwes] # "R" => row.rwes # "R"
       /\ row.rwes # "R" => RwesNormalise[row.rwes] # "R"
  <2>1. row.rwes \in {"R", "W", "RW", "R/W", "RWE", "RWES"}
    BY <1>3 DEF Loadable, RwesNormalise
  <2> QED
    BY <2>1 DEF RwesNormalise
<1> QED
  BY <1>1, <1>2, <1>3, <1>4, <1>6, <1>7, <1>8, <1>9, <1>10, <1>11 DEF row, t

\* The spec of a parameter, by its row
LEMMA SpecFacts ==
    ASSUME NEW plant, Sound(plant), NEW id \in IdsOf(plant), NEW p
    PROVE  LET spec == SpecAt(plant, id, p)
               row == RowOf(plant, id)
           IN  /\ spec.id = id /\ spec.type = TypeIn(plant, id) /\ spec.kind = row.kind
               /\ spec.rwes = RwesNormalise[row.rwes] /\ spec.instance = 1 /\ spec.max = row.max
               /\ spec.addr = CoerceInt(row.addr)
               /\ spec.count = RegisterCountFor(TypeIn(plant, id))
               /\ EncodingFor(spec) = RegisterCountFor(TypeIn(plant, id))
               /\ spec.range = ParseRange(row.range)
               /\ spec.scale = IF row.decimal = NA THEN Scale(row) ELSE ScaleOf(p)
<1> DEFINE spec == SpecAt(plant, id, p)
           row == RowOf(plant, id)
<1>1. /\ spec.id = row.id /\ spec.type = DataTypeMap[row.type] /\ spec.kind = row.kind
      /\ spec.rwes = RwesNormalise[row.rwes] /\ spec.instance = 1 /\ spec.max = row.max
      /\ spec.addr = CoerceInt(row.addr) /\ spec.count = RegisterCountFor(DataTypeMap[row.type])
      /\ spec.range = ParseRange(row.range)
      /\ spec.scale = IF row.decimal = NA THEN Scale(row) ELSE ScaleOf(p)
  BY SpecFields DEF SpecAt
<1>2. row.id = id /\ RegisterCountFor(TypeIn(plant, id)) \in {1, 2, 8}
  BY RowFacts
<1> HIDE DEF spec
<1>3. EncodingFor(spec) = RegisterCountFor(TypeIn(plant, id))
  BY <1>1, <1>2 DEF EncodingFor, TypeIn
<1> QED
  BY <1>1, <1>2, <1>3 DEF TypeIn, spec

\* What the code admits is documented.
LEMMA ReadRange ==
    ASSUME NEW plant, Sound(plant), NEW id \in IdsOf(plant), NEW p, NEW v,
           ~IsText(v) => v.num \in Int
    PROVE  /\ ValidValue(SpecAt(plant, id, p), v) => DocumentsIn(plant, id, v)
           /\ DocumentsIn(plant, id, v) /\ ~MisreadIn(plant, id)
                => ValidValue(SpecAt(plant, id, p), v)
<1> DEFINE spec == SpecAt(plant, id, p)
           row == RowOf(plant, id)
           range == row.range
<1>1. spec.range = ParseRange(range)
  BY SpecFacts
<1> HIDE DEF spec
<1>2. CASE IsText(v)
  BY <1>2 DEF ValidValue, DocumentsIn, spec
<1>3. CASE range = NA
  <2>1. spec.range = NA
    BY <1>1, <1>3 DEF ParseRange
  <2> QED
    BY <1>3, <2>1 DEF ValidValue, DocumentsIn, spec
<1>4. CASE ~IsText(v) /\ range # NA
  <2> DEFINE lo == range.lo
             hi == range.hi
             top == UpperEnd(hi)
             x == v.num
  <2>1. RowAssumption(plant, row)
    BY RowFacts
  <2>2. /\ lo.digits \in Seq(0..9) /\ lo.frac \in 0..One - 1
        /\ hi.digits \in Seq(0..9) /\ hi.frac \in 0..One - 1
        /\ hi.neg => hi.commas \/ Len(hi.digits) <= 3
    BY <1>4, <2>1 DEF RowAssumption
  <2>3. spec.range = [lo |-> LowerEnd(lo), hi |-> top]
    BY <1>1, <1>4 DEF ParseRange
  <2>4. ValidValue(spec, v) <=> x \in Printed(lo)..top
    <3>1. spec.range.lo = Printed(lo) /\ spec.range.hi = top
      BY <2>3 DEF LowerEnd
    <3>2. spec.range # NA
      BY <1>1, <1>4, <2>1 DEF RowAssumption
    <3> HIDE DEF top, lo
    <3> QED
      BY <1>4, <3>1, <3>2 DEF ValidValue
  <2>5. DocumentsIn(plant, id, v) <=> x \in Printed(lo)..Printed(hi)
    BY <1>4 DEF DocumentsIn
  <2>6. MisreadIn(plant, id) <=> ~hi.commas /\ Len(hi.digits) > 3
    BY <1>4 DEF MisreadIn
  <2> HIDE DEF lo, hi
  <2>7. /\ Printed(hi) \in Int /\ top \in Int /\ top <= Printed(hi)
        /\ ~(~hi.commas /\ Len(hi.digits) > 3) => top = Printed(hi)
    BY <2>2, UpperEndBelow
  <2>8. x \in Int
    BY <1>4
  <2> DEFINE bottom == Printed(lo)
             last == Printed(hi)
  <2>9. bottom \in Int
    <3>1. Whole(lo.digits) \in Int
      BY <2>2, WholePrefix
    <3>2. lo.frac \in Int
      <4> DEFINE m == One - 1
      <4>1. m \in Int /\ lo.frac \in 0..m
        BY <2>2 DEF One
      <4> HIDE DEF m
      <4> QED
        BY <4>1
    <3> QED
      BY <3>1, <3>2 DEF Printed, Signed
  <2> HIDE DEF top, x, bottom, last
  <2>10. x \in bottom..top => x \in bottom..last
    BY <2>7, <2>8, <2>9 DEF last
  <2> QED
    BY <2>4, <2>5, <2>6, <2>7, <2>10 DEF bottom, last, spec
<1> QED
  BY <1>2, <1>3, <1>4

\* The state's operators are those of its installation.
LEMMA Here ==
    LET plant == Plant[link] IN
    /\ Ids = IdsOf(plant)
    /\ \A id : /\ Documented(id) = RowOf(plant, id) /\ TypeOf(id) = TypeIn(plant, id)
               /\ Addressed(id) <=> RowOf(plant, id).addr # NA
               /\ Misread(id) <=> MisreadIn(plant, id)
    /\ \A id, v : /\ Documents(id, v) <=> DocumentsIn(plant, id, v)
                  /\ NoRoom(id, v) <=> NoRoomIn(plant, id, v)
    /\ \A ref : Asked(ref) = AskedOf(plant, ref)
    /\ \A q : /\ Unjustified(q) <=> UnjustifiedIn(plant, q)
              /\ LaterLoop(q) <=> LaterLoopIn(plant, q)
    /\ Std <=> plant.proto = "std"
<1> DEFINE plant == Plant[link]
<1>1. Ids = IdsOf(plant)
  BY DEF Ids, IdsOf, Rows, LoadableRows
<1>2. \A id : Documented(id) = RowOf(plant, id)
  BY DEF Documented, RowOf, Rows
<1>3. \A id : TypeOf(id) = TypeIn(plant, id)
  BY <1>2 DEF TypeOf, TypeIn
<1>4. Std <=> plant.proto = "std"
  BY DEF Std
<1>5. \A ref : Asked(ref) = AskedOf(plant, ref)
  <2> TAKE ref
  <2> DEFINE name == Public(ref.name)
             P == {id \in Ids : /\ Plant[link].family = "pm"
                                /\ id \in DOMAIN NameOverrides /\ NameOverrides[id] = name}
             Q == {id \in IdsOf(plant) : /\ id \in DOMAIN Overrides(plant.family)
                                         /\ Overrides(plant.family)[id] = name}
             A == {id \in Ids : CanonicalName(Documented(id)) = name}
             B == {id \in IdsOf(plant) : CanonicalName(RowOf(plant, id)) = name}
  <2>1. P = Q
    <3>1. CASE plant.family = "pm"
      BY <1>1, <3>1 DEF Overrides
    <3>2. CASE plant.family # "pm"
      <4>1. DOMAIN Overrides(plant.family) = {}
        BY <3>2 DEF Overrides
      <4> QED
        BY <3>2, <4>1
    <3> QED
      BY <3>1, <3>2
  <2>2. A = B
    BY <1>1, <1>2
  <2>3. Asked(ref) = IF "id" \in DOMAIN ref THEN {ref.id} \cap Ids
                     ELSE IF P # {} THEN P ELSE A
    BY DEF Asked
  <2>4. AskedOf(plant, ref) = IF "id" \in DOMAIN ref THEN {ref.id} \cap IdsOf(plant)
                              ELSE IF Q # {} THEN Q ELSE B
    BY DEF AskedOf
  <2> HIDE DEF P, Q, A, B, plant
  <2> QED
    BY <1>1, <2>1, <2>2, <2>3, <2>4 DEF plant
<1>6. \A id, v : Documents(id, v) <=> DocumentsIn(plant, id, v)
  BY <1>2 DEF Documents, DocumentsIn
<1>7. \A id : /\ Addressed(id) <=> RowOf(plant, id).addr # NA
              /\ Misread(id) <=> MisreadIn(plant, id)
  BY <1>2 DEF Addressed, Misread, MisreadIn
<1>8. \A q : Unjustified(q) <=> UnjustifiedIn(plant, q)
  <2> HIDE DEF plant
  <2> QED
    BY <1>2, <1>3, <1>4, <1>5, <1>6 DEF Unjustified, UnjustifiedIn
<1>9. \A q : LaterLoop(q) <=> LaterLoopIn(plant, q)
  BY <1>4 DEF LaterLoop, LaterLoopIn
<1>10. \A id, v : NoRoom(id, v) <=> NoRoomIn(plant, id, v)
  <2> HIDE DEF plant
  <2> QED
    BY <1>2, <1>3 DEF NoRoom, NoRoomIn
<1> QED
  BY <1>1, <1>2, <1>3, <1>4, <1>5, <1>6, <1>7, <1>8, <1>9, <1>10

\* What encoding a value comes to
LEMMA EncodingHow ==
    ASSUME NEW v, NEW t \in Types, NEW n
    PROVE  /\ EncodeValueToWords(v, t, n).how \in {"ok", "raw", "refused"}
           /\ EncodeValueToWords(v, t, n).how = "refused" =>
                \/ (t = "STRING") # IsText(v)
                \/ IsText(v) /\ Len(v.text) > 2 * n
           /\ EncodeValueToWords(v, t, n).how = "raw" =>
                IF t = "STRING" THEN ~Ascii(v.text) ELSE Trunc(v) \notin Span(t)
<1> DEFINE e == EncodeValueToWords(v, t, n)
<1>1. \A x, y : Encoding(x, y).how = x
  BY DEF Encoding
<1>2. IsText(v) \in BOOLEAN
  BY DEF IsText
<1>3. CASE (t = "STRING") # IsText(v)
  BY <1>1, <1>3 DEF EncodeValueToWords
<1>4. CASE ~((t = "STRING") # IsText(v))
  <2> DEFINE padded == [i \in 1..2 * n |-> IF i <= Len(v.text) THEN v.text[i] ELSE 0]
             a == <<Trunc(v) % 256>>
             b == <<Trunc(v) % 65536>>
             c == Words(Bytes(Trunc(v), 2 * n))
             small == -32768 <= Trunc(v) /\ Trunc(v) <= 32767
  <2>1. e = CASE t = "STRING" -> IF ~Ascii(v.text) THEN Encoding("raw", <<>>)
                                 ELSE IF Len(v.text) > 2 * n THEN Encoding("refused", <<>>)
                                 ELSE Encoding("ok", Words(padded))
              [] t = "FLOAT" -> Encoding("ok", Words(FloatBytes(v.num)))
              [] t = "U8" -> Encoding("ok", a)
              [] t \in {"U16", "PACKED"} -> Encoding("ok", b)
              [] t = "S16" /\ ~small -> Encoding("raw", <<>>)
              [] t = "U32" /\ Trunc(v) < 0 -> Encoding("raw", <<>>)
              [] OTHER -> Encoding("ok", c)
    BY <1>4 DEF EncodeValueToWords
  <2> DEFINE full == Len(v.text) > 2 * n
             odd == ~Ascii(v.text)
             wide == Trunc(v) \notin Span(t)
  <2> SUFFICES /\ e.how \in {"ok", "raw", "refused"}
               /\ e.how = "refused" => IsText(v) /\ full
               /\ e.how = "raw" => IF t = "STRING" THEN odd ELSE wide
    OBVIOUS
  <2>0. t = "STRING" => e = IF odd THEN Encoding("raw", <<>>)
                            ELSE IF full THEN Encoding("refused", <<>>)
                            ELSE Encoding("ok", Words(padded))
    BY <2>1
  <2> HIDE DEF e, padded, a, b, c, small, full, odd, wide
  <2>2. CASE t = "STRING"
    <3>1. IsText(v)
      BY <1>2, <1>4, <2>2
    <3> DEFINE w == Words(padded)
    <3>2. e = IF odd THEN Encoding("raw", <<>>)
              ELSE IF full THEN Encoding("refused", <<>>) ELSE Encoding("ok", w)
      BY <2>0, <2>2
    <3> HIDE DEF w
    <3>3. e.how \in {"ok", "raw", "refused"}
      BY <1>1, <3>2
    <3>4. (e.how = "refused" => full) /\ (e.how = "raw" => odd)
      BY <1>1, <3>2
    <3> QED
      BY <2>2, <3>1, <3>3, <3>4
  <2>3. CASE t \in {"FLOAT", "U8", "U16", "PACKED"}
    <3>1. e.how = "ok"
      BY <1>1, <2>1, <2>3
    <3> QED
      BY <3>1
  <2>4. CASE t = "S16"
    <3>1. e = IF ~small THEN Encoding("raw", <<>>) ELSE Encoding("ok", c)
      BY <2>1, <2>4
    <3>2. e.how \in {"ok", "raw"} /\ (e.how = "raw" => ~small)
      BY <1>1, <3>1
    <3>3. ~small => wide
      BY <2>4 DEF small, wide, Span, Int16
    <3> QED
      BY <2>4, <3>2, <3>3
  <2>5. CASE t = "U32"
    <3>1. e = IF Trunc(v) < 0 THEN Encoding("raw", <<>>) ELSE Encoding("ok", c)
      BY <2>1, <2>5
    <3>2. e.how \in {"ok", "raw"} /\ (e.how = "raw" => Trunc(v) < 0)
      BY <1>1, <3>1
    <3>3. Trunc(v) < 0 => wide
      <4>1. Span(t) = {i \in Int32 : i >= 0}
        BY <2>5 DEF Span
      <4> QED
        BY <4>1 DEF wide, Int32
    <3> QED
      BY <2>5, <3>2, <3>3
  <2>6. CASE t = "S32"
    <3>1. e = Encoding("ok", c)
      BY <2>1, <2>6
    <3>2. e.how = "ok"
      BY <1>1, <3>1
    <3> QED
      BY <3>2
  <2> QED
    BY <2>2, <2>3, <2>4, <2>5, <2>6 DEF Types, Integers8
<1> QED
  BY <1>3, <1>4

\* A value a caller may write is one of its own range.
LEMMA AskedValues ==
    ASSUME NEW plant, Sound(plant), NEW q \in plant.requests, Writes(q)
    PROVE  Askable(q.value)
<1>1. RequestAssumption(plant, q)
  BY SoundPlant
<1>2. IF IsText(q.value)
      THEN q.value = Text(q.value.text) /\ q.value.text \in Seq(0..255)
      ELSE q.value = Num(q.value.num) /\ q.value.num \in Int32
  BY <1>1 DEF RequestAssumption, Writes
<1>3. \A x \in Int32 : x \in Int /\ -2147483647 - 1 <= x /\ x <= 2147483647
  BY SMT DEF Int32
<1> QED
  BY <1>2, <1>3 DEF Askable

\* A call the code sends is of one parameter, that is asked for, and a write that is
\* sent is one the documentation allows.
THEOREM Accepts ==
    ASSUME link \in DOMAIN Plant, RegistrySound(Plant[link], registry, places),
           NEW q \in Plant[link].requests, Accepted(q), ~Raises(q)
    PROVE  \E id \in IdsOf(Plant[link]) :
             /\ CallSound(Plant[link], id, q)
             /\ Encoded(q) = WireOf(Plant[link], id, q) /\ Known(registry, q.ref)
<1> DEFINE plant == Plant[link]
           spec == SpecOf(q)
<1>1. Sound(plant)
  BY DEF Sound
<1>2. Tabled(plant) /\ RequestAssumption(plant, q)
  BY <1>1, SoundPlant
<1>3. Admitted(q) /\ Known(registry, q.ref)
  BY DEF Accepted, Admitted
<1> HIDE DEF plant
<1>4. PICK id \in IdsOf(plant) :
        Resolve(registry, q.ref) = SpecAt(plant, id, places) /\ AskedOf(plant, q.ref) = {id}
  BY <1>2, <1>3, ResolvedIsAsked DEF plant
<1> DEFINE row == RowOf(plant, id)
           t == TypeIn(plant, id)
<1>5. spec = SpecAt(plant, id, places)
  BY <1>4 DEF SpecOf
<1> HIDE DEF spec, row, t
<1>6. /\ spec.id = id /\ spec.type = t /\ spec.rwes = RwesNormalise[row.rwes]
      /\ spec.instance = 1 /\ spec.addr = CoerceInt(row.addr)
      /\ EncodingFor(spec) = RegisterCountFor(t)
      /\ spec.scale = IF row.decimal = NA THEN Scale(row) ELSE ScaleOf(places)
  BY <1>1, <1>5, SpecFacts DEF row, t
<1>7. /\ t \in Types /\ (row.decimal # NA => row.rwes = "R")
      /\ RwesNormalise[row.rwes] # "R" => row.rwes # "R"
  BY <1>1, RowFacts DEF row, t
<1>8. Std <=> plant.proto = "std"
  BY DEF Std, plant
<1>9. ASSUME Writes(q)
      PROVE  /\ row.rwes # "R" /\ DocumentsIn(plant, id, q.value) /\ spec.scale = Scale(row)
             /\ InRegisters(q) = WordsIn(plant, id, q.value)
  <2>1. Writable(spec) /\ ValidValue(spec, q.value)
    BY <1>3, <1>9 DEF Admitted, spec
  <2>2. row.rwes # "R" /\ spec.scale = Scale(row)
    BY <1>6, <1>7, <2>1 DEF Writable
  <2>3. Askable(q.value)
    BY <1>1, <1>9, AskedValues DEF plant
  <2>4. DocumentsIn(plant, id, q.value)
    BY <1>1, <1>5, <2>1, <2>3, ReadRange DEF Askable
  <2>5. InRegisters(q) = EncodeValueToWords(ScaledDown(q.value, spec.scale), spec.type,
                                            EncodingFor(spec))
    BY DEF InRegisters, spec
  <2>6. InRegisters(q) = WordsIn(plant, id, q.value)
    BY <1>6, <2>2, <2>5 DEF WordsIn, row, t
  <2> QED
    BY <2>2, <2>4, <2>6
<1>10. plant.proto # "std" => q.instance = 1
  BY <1>6, <1>8 DEF Accepted, spec
<1>11. Writes(q) /\ plant.proto = "std" => Encodable(t, q.value)
  BY <1>6, <1>8 DEF Raises, spec
<1>12. Writes(q) /\ plant.proto # "std" => WordsIn(plant, id, q.value).how = "ok"
  <2> HAVE Writes(q) /\ plant.proto # "std"
  <2>1. InRegisters(q).how # "refused" /\ InRegisters(q).how # "raw"
    BY <1>8 DEF Accepted, Raises
  <2>2. WordsIn(plant, id, q.value).how \in {"ok", "raw", "refused"}
    <3> DEFINE d == ScaledDown(q.value, Scale(RowOf(plant, id)))
               n == RegisterCountFor(t)
    <3>1. WordsIn(plant, id, q.value) = EncodeValueToWords(d, t, n)
      BY DEF WordsIn, t
    <3> HIDE DEF d, n
    <3> QED
      BY <1>7, <3>1, EncodingHow
  <2> QED
    BY <1>9, <2>1, <2>2
<1>13. CallSound(plant, id, q)
  BY <1>4, <1>9, <1>10, <1>11, <1>12 DEF CallSound, row, t, plant
<1>14. Encoded(q) = WireOf(plant, id, q)
  <2>1. Encoded(q) = IF Std
           THEN EncodeFrame(5, AddrToMac(1), 0,
                     IF Writes(q) THEN EncodeWriteRequest(id, t, q.value, q.instance)
                     ELSE EncodeReadRequest(id, q.instance))
           ELSE IF Writes(q) THEN WriteOp(CoerceInt(row.addr), InRegisters(q).words)
                ELSE ReadOp(CoerceInt(row.addr), RegisterCountFor(t))
    <3>1. Encoded(q) = IF Std
             THEN EncodeFrame(5, AddrToMac(1), 0,
                       IF Writes(q)
                       THEN EncodeWriteRequest(spec.id, spec.type, q.value, q.instance)
                       ELSE EncodeReadRequest(spec.id, q.instance))
             ELSE IF Writes(q) THEN WriteOp(spec.addr, InRegisters(q).words)
                  ELSE ReadOp(spec.addr, EncodingFor(spec))
      BY DEF Encoded, spec
    <3> QED
      BY <1>6, <3>1
  <2> QED
    BY <1>8, <1>9, <2>1 DEF WireOf, PayloadOf, row, t
<1> QED
  BY <1>3, <1>13, <1>14 DEF plant

\* A call that is refused is one the documentation does not allow, but for ranges
\* misread and for the later loops over Modbus, which it allows and the code refuses.
THEOREM NotRefused ==
    ASSUME link \in DOMAIN Plant, RegistrySound(Plant[link], registry, places),
           NEW q \in Plant[link].requests, ~Accepted(q)
    PROVE  \/ ~UnjustifiedIn(Plant[link], q)
           \/ LaterLoopIn(Plant[link], q)
           \/ \E id \in AskedOf(Plant[link], q.ref) : MisreadIn(Plant[link], id)
<1> DEFINE plant == Plant[link]
           spec == SpecOf(q)
<1>1. Sound(plant)
  BY DEF Sound
<1>2. Tabled(plant) /\ RequestAssumption(plant, q)
  BY <1>1, SoundPlant
<1> HIDE DEF plant
<1>3. SUFFICES ASSUME UnjustifiedIn(plant, q), ~LaterLoopIn(plant, q),
                      \A id \in AskedOf(plant, q.ref) : ~MisreadIn(plant, id)
               PROVE  Accepted(q)
  BY DEF plant
<1>4. Known(registry, q.ref)
  BY <1>2, <1>3, AskedIsKnown DEF UnjustifiedIn, plant
<1>5. PICK id \in IdsOf(plant) :
        Resolve(registry, q.ref) = SpecAt(plant, id, places) /\ AskedOf(plant, q.ref) = {id}
  BY <1>2, <1>4, ResolvedIsAsked DEF plant
<1> DEFINE row == RowOf(plant, id)
           t == TypeIn(plant, id)
<1>6. spec = SpecAt(plant, id, places)
  BY <1>5 DEF SpecOf
<1> HIDE DEF spec, row, t
<1>7. /\ spec.id = id /\ spec.type = t /\ spec.rwes = RwesNormalise[row.rwes]
      /\ spec.instance = 1 /\ spec.max = row.max
      /\ EncodingFor(spec) = RegisterCountFor(t)
      /\ spec.scale = IF row.decimal = NA THEN Scale(row) ELSE ScaleOf(places)
  BY <1>1, <1>6, SpecFacts DEF row, t
<1>8. /\ t \in Types /\ (row.decimal # NA => row.rwes = "R")
      /\ row.rwes # "R" => RwesNormalise[row.rwes] # "R"
      /\ t = "FLOAT" => Scale(row) = One
      /\ Scale(row) \in Int /\ 1 <= Scale(row)
  BY <1>1, RowFacts DEF row, t
<1>9. Std <=> plant.proto = "std"
  BY DEF Std, plant
<1>10. /\ q.instance \in 1..row.max
       /\ plant.proto = "std" \/ q.instance = 1
       /\ Writes(q) =>
            /\ row.rwes # "R" /\ DocumentsIn(plant, id, q.value)
            /\ IsText(q.value) <=> t = "STRING"
            /\ IsText(q.value) => plant.proto = "std" \/ Len(q.value.text) <= 16
       /\ ~MisreadIn(plant, id)
  BY <1>3, <1>5 DEF UnjustifiedIn, LaterLoopIn, row, t
<1>11. ValidInstance(spec, IF q.instance = 0 THEN spec.instance ELSE q.instance)
  <2>1. q.instance # 0
    BY <1>10
  <2> QED
    BY <1>7, <1>10, <2>1 DEF ValidInstance
<1>12. Writes(q) => Writable(spec) /\ ValidValue(spec, q.value)
  <2> HAVE Writes(q)
  <2>1. Askable(q.value)
    BY <1>1, AskedValues DEF plant
  <2>2. ValidValue(spec, q.value)
    BY <1>1, <1>6, <1>10, <2>1, ReadRange DEF Askable
  <2> QED
    BY <1>7, <1>8, <1>10, <2>2 DEF Writable
<1>13. Admitted(q)
  BY <1>4, <1>11, <1>12 DEF Admitted, spec
<1>14. CASE Std
  BY <1>7, <1>10, <1>13, <1>14 DEF Accepted, spec
<1>15. CASE ~Std
  <2>1. q.instance = spec.instance
    BY <1>7, <1>9, <1>10, <1>15
  <2>2. ASSUME Writes(q) PROVE InRegisters(q).how # "refused"
    <3> DEFINE d == ScaledDown(q.value, spec.scale)
    <3>1. InRegisters(q) = EncodeValueToWords(d, t, RegisterCountFor(t))
      BY <1>7 DEF InRegisters, spec
    <3>2. Askable(q.value)
      BY <1>1, <2>2, AskedValues DEF plant
    <3>3. spec.scale = Scale(row)
      BY <1>7, <1>8, <1>10, <2>2
    <3>4. IsText(d) <=> IsText(q.value)
      BY <1>8, <3>2, <3>3, ScaledCounts
    <3>5. (t = "STRING") <=> IsText(d)
      BY <1>10, <2>2, <3>4
    <3>6. IsText(d) => ~(Len(d.text) > 2 * RegisterCountFor(t))
      <4> HAVE IsText(d)
      <4>1. d = q.value
        BY <3>4 DEF ScaledDown
      <4>2. 2 * RegisterCountFor(t) = 16
        BY <3>5, TypeSizes
      <4>3. Len(q.value.text) <= 16 /\ q.value.text \in Seq(0..255)
        BY <1>9, <1>10, <1>15, <2>2, <3>2, <3>4 DEF Askable
      <4>4. ~(Len(q.value.text) > 16)
        <5>1. Len(q.value.text) \in Nat
          BY <4>3
        <5> QED
          BY <4>3, <5>1
      <4> HIDE DEF d
      <4> QED
        BY <4>1, <4>2, <4>4
    <3> HIDE DEF d
    <3>7. ~((t = "STRING") # IsText(d))
      BY <3>5 DEF IsText
    <3> DEFINE n == RegisterCountFor(t)
    <3>8. InRegisters(q) = EncodeValueToWords(d, t, n) /\ (IsText(d) => ~(Len(d.text) > 2 * n))
      BY <3>1, <3>6
    <3> HIDE DEF n
    <3>9. EncodeValueToWords(d, t, n).how # "refused"
      BY <1>8, <3>7, <3>8, EncodingHow
    <3> QED
      BY <3>8, <3>9
  <2> QED
    BY <1>13, <1>15, <2>1, <2>2 DEF Accepted, spec
<1> QED
  BY <1>14, <1>15

\* What does not fit a 16-bit type is no word.
LEMMA UnfitWord ==
    ASSUME NEW t \in {"U16", "PACKED"}, NEW n \in Int, ~Fits(t, n)
    PROVE  ~(0 <= n /\ n <= 65535)
BY SMT DEF Fits

\* An integer within a type's span fits it.
LEMMA SpanFits ==
    ASSUME NEW t \in Integers8, t # "S16", NEW n \in Int, n \in Span(t)
    PROVE  Fits(t, n)
<1>1. CASE t = "U8"
  <2>1. 0 <= n /\ n <= 255
    BY SMT, <1>1, Spans
  <2> QED
    BY SMT, <1>1, <2>1 DEF Fits
<1>2. CASE t \in {"U16", "PACKED"}
  <2>1. 0 <= n /\ n <= 65535
    BY SMT, <1>2, Spans
  <2> QED
    BY <1>2, <2>1, UnfitWord
<1>3. CASE t = "U32"
  <2>1. 0 <= n
    BY SMT, <1>3, Spans
  <2> QED
    BY SMT, <1>3, <2>1 DEF Fits
<1>4. CASE t = "S32"
  BY SMT, <1>4 DEF Fits
<1> QED
  BY <1>1, <1>2, <1>3, <1>4 DEF Integers8

\* What Standard Bus cannot encode, a text for a text and a number for a number, is a
\* text too long or not ASCII, or a number outside the type's span.
LEMMA NotEncodable ==
    ASSUME NEW t \in Types, NEW v, Askable(v), t # "S16", (t = "STRING") <=> IsText(v),
           ~Encodable(t, v)
    PROVE  IF IsText(v) THEN ~Ascii(v.text) \/ Len(v.text) > 255 ELSE Trunc(v) \notin Span(t)
<1>1. CASE IsText(v)
  <2>1. v.text \in Seq(0..255) /\ Len(v.text) \in Nat
    BY <1>1 DEF Askable
  <2>2. ~(Ascii(v.text) /\ Len(v.text) <= 255)
    BY <1>1 DEF Encodable
  <2> QED
    BY <1>1, <2>1, <2>2
<1>2. CASE ~IsText(v)
  <2>1. t \in Integers8 /\ ~Fits(t, Trunc(v))
    BY <1>2 DEF Encodable, Types, Integers8
  <2>2. Trunc(v) \in Int
    <3>1. v.num \in Int
      BY <1>2 DEF Askable
    <3> QED
      BY <3>1, TruncTyped
  <2>3. Trunc(v) \notin Span(t)
    BY <2>1, <2>2, SpanFits
  <2> QED
    BY <1>2, <2>3
<1> QED
  BY <1>1, <1>2

\* A call that ends in a bare error is a write that the documentation does not allow, or
\* of a value for which the parameter's type has no room.
THEOREM RaisedForNoRoom ==
    ASSUME link \in DOMAIN Plant, RegistrySound(Plant[link], registry, places),
           NEW q \in Plant[link].requests, Raises(q)
    PROVE  \/ ~UnjustifiedIn(Plant[link], q)
           \/ \E id \in AskedOf(Plant[link], q.ref) : NoRoomIn(Plant[link], id, q.value)
<1> DEFINE plant == Plant[link]
           spec == SpecOf(q)
<1>1. Sound(plant)
  BY DEF Sound
<1>2. Tabled(plant) /\ RequestAssumption(plant, q)
  BY <1>1, SoundPlant
<1> HIDE DEF plant
<1>3. SUFFICES ASSUME UnjustifiedIn(plant, q)
               PROVE  \E id \in AskedOf(plant, q.ref) : NoRoomIn(plant, id, q.value)
  BY DEF plant
<1>4. Accepted(q) /\ Writes(q) /\ Known(registry, q.ref)
  BY DEF Raises, Accepted, Admitted
<1>5. PICK id \in IdsOf(plant) :
        Resolve(registry, q.ref) = SpecAt(plant, id, places) /\ AskedOf(plant, q.ref) = {id}
  BY <1>2, <1>4, ResolvedIsAsked DEF plant
<1> DEFINE row == RowOf(plant, id)
           t == TypeIn(plant, id)
<1>6. spec = SpecAt(plant, id, places)
  BY <1>5 DEF SpecOf
<1> HIDE DEF spec, row, t
<1>7. /\ spec.type = t /\ EncodingFor(spec) = RegisterCountFor(t)
      /\ spec.scale = IF row.decimal = NA THEN Scale(row) ELSE ScaleOf(places)
  BY <1>1, <1>6, SpecFacts DEF row, t
<1>8. /\ t \in Types /\ (row.decimal # NA => row.rwes = "R")
      /\ t = "FLOAT" => Scale(row) = One
      /\ Scale(row) \in Int /\ 1 <= Scale(row) /\ RowAssumption(plant, row)
  BY <1>1, RowFacts DEF row, t
<1>9. row.rwes # "R" /\ (IsText(q.value) <=> t = "STRING")
  BY <1>3, <1>4, <1>5 DEF UnjustifiedIn, row, t
<1>10. Askable(q.value) /\ spec.scale = Scale(row)
  <2>1. Askable(q.value)
    BY <1>1, <1>4, AskedValues DEF plant
  <2>2. spec.scale = Scale(row)
    BY <1>7, <1>8, <1>9
  <2> QED
    BY <2>1, <2>2
<1> DEFINE d == ScaledDown(q.value, Scale(row))
<1>11. SUFFICES NoRoomIn(plant, id, q.value)
  BY <1>5
<1>12. CASE Std
  <2>1. plant.proto = "std"
    BY <1>12 DEF Std, plant
  <2>2. Scale(row) = One /\ t # "S16"
    BY <1>8, <2>1 DEF RowAssumption, Scale, TypeIn, row, t
  <2>3. ~Encodable(t, q.value)
    BY <1>7, <1>12 DEF Raises, spec
  <2>4. d = q.value
    BY <2>2 DEF ScaledDown
  <2>5. IF IsText(q.value) THEN ~Ascii(q.value.text) \/ Len(q.value.text) > 255
        ELSE Trunc(q.value) \notin Span(t)
    BY <1>8, <1>9, <1>10, <2>2, <2>3, NotEncodable
  <2> QED
    BY <2>4, <2>5 DEF NoRoomIn, row, t
<1>13. CASE ~Std
  <2> DEFINE n == RegisterCountFor(t)
  <2>1. EncodeValueToWords(d, t, n).how = "raw"
    BY <1>7, <1>10, <1>13 DEF Raises, InRegisters, spec
  <2>2. IsText(d) <=> IsText(q.value)
    BY <1>8, <1>10, ScaledCounts
  <2> HIDE DEF d, n
  <2>3. IF t = "STRING" THEN ~Ascii(d.text) ELSE Trunc(d) \notin Span(t)
    BY <1>8, <2>1, EncodingHow
  <2>4. CASE t = "STRING"
    <3>1. d = q.value /\ IsText(q.value)
      BY <1>9, <2>4 DEF ScaledDown, d
    <3>2. ~Ascii(q.value.text)
      BY <2>3, <2>4, <3>1
    <3> QED
      BY <3>1, <3>2 DEF NoRoomIn
  <2>5. CASE t # "STRING"
    <3>1. ~IsText(q.value)
      BY <1>9, <2>5
    <3>2. Trunc(d) \notin Span(t)
      BY <2>3, <2>5
    <3> QED
      BY <3>1, <3>2 DEF NoRoomIn, d, row, t
  <2> QED
    BY <2>4, <2>5
<1> QED
  BY <1>12, <1>13

-----------------------------------------------------------------------------
(***************************************************************************)
(* The device over Modbus.                                                 *)
(***************************************************************************)

\* TrueScale, of an installation
TrueScaleIn(plant, id, memory) ==
    LET decimal == RowOf(plant, id).decimal
    IN  IF decimal = NA THEN Scale(RowOf(plant, id))
        ELSE ScaleOf(memory[<<decimal, 1>>].num \div One)

\* A memory holds what its parameters can hold; what is read only is as it was set.
HeldSound(plant, memory) ==
    /\ DOMAIN memory = DOMAIN plant.memory
    /\ \A cell \in DOMAIN memory :
         /\ Holds(TypeIn(plant, cell[1]), memory[cell], Room(plant))
         /\ RowOf(plant, cell[1]).rwes = "R" => memory[cell] \in Settings(plant, cell)

\* What an answer is noted as
AnswerOf(reply, junk, whole) ==
    IF reply.cell \in DOMAIN held
    THEN [cell |-> reply.cell, says |-> reply.says, junk |-> junk, whole |-> whole,
          meant |-> Meant(reply.cell, reply.memory),
          scale |-> TrueScale(reply.cell[1], reply.memory)]
    ELSE [Unanswered EXCEPT !.cell = reply.cell, !.says = reply.says,
                            !.junk = junk, !.whole = whole]

\* An answer's registers are those of the parameter asked for; a write has left in the
\* device what was asked for, unless it wraps.
ReadSound(plant, id, answered) ==
    \E v : /\ Holds(TypeIn(plant, id), v, 16)
           /\ RowOf(plant, id).rwes = "R" => v \in Settings(plant, <<id, 1>>)
           /\ answered.cell = <<id, 1>>
           /\ answered.says.words \in WordsFor(TypeIn(plant, id), v)
           /\ answered.meant = MeantAt(TypeIn(plant, id), v, answered.scale)
           /\ RowOf(plant, id).decimal = NA => answered.scale = Scale(RowOf(plant, id))
WriteSound(plant, id, q, answered) ==
    /\ answered.cell = <<id, 1>> /\ answered.scale = Scale(RowOf(plant, id))
    /\ \/ KeptAt(TypeIn(plant, id), q.value, answered.meant, answered.scale)
       \/ WrapsAt(TypeIn(plant, id), q.value, answered.scale)
ModbusSound(plant, id, q, answered) ==
    IF "exception" \in DOMAIN answered.says
    THEN answered.says.exception \in DOMAIN Remapped
    ELSE /\ ~Writes(q) /\ RowOf(plant, id).addr # NA => ReadSound(plant, id, answered)
         /\ Writes(q) => WriteSound(plant, id, q, answered)

\* What the device's memory means, by the rows of its installation
LEMMA MeantHere ==
    ASSUME NEW cell, NEW memory
    PROVE  /\ TrueScale(cell[1], memory) = TrueScaleIn(Plant[link], cell[1], memory)
           /\ Meant(cell, memory) = MeantAt(TypeIn(Plant[link], cell[1]), memory[cell],
                                            TrueScaleIn(Plant[link], cell[1], memory))
<1> DEFINE plant == Plant[link]
           id == cell[1]
           v == memory[cell]
<1>1. Documented(id) = RowOf(plant, id) /\ TypeOf(id) = TypeIn(plant, id)
  BY Here
<1>2. TrueScale(id, memory) = TrueScaleIn(plant, id, memory)
  BY <1>1 DEF TrueScale, TrueScaleIn
<1>3. Meant(cell, memory) = IF IsText(v) THEN Text(Stripped(v.text))
                            ELSE IF TypeOf(id) = "FLOAT" THEN v
                            ELSE Num((v.num \div One) * TrueScale(id, memory))
  BY DEF Meant
<1> QED
  BY <1>1, <1>2, <1>3 DEF MeantAt

\* The device's registers are those of the type.
LEMMA RegistersHere ==
    ASSUME NEW id
    PROVE  /\ \A v : InWords(id, v) = WordsFor(TypeIn(Plant[link], id), v)
           /\ \A words : FromWords(id, words) = FromWordsOf(TypeIn(Plant[link], id), words)
<1>1. TypeOf(id) = TypeIn(Plant[link], id)
  BY Here
<1>2. \A v : InWords(id, v) = WordsFor(TypeIn(Plant[link], id), v)
  BY <1>1 DEF InWords, WordsFor, Padded
<1>3. \A words : FromWords(id, words) = FromWordsOf(TypeIn(Plant[link], id), words)
  BY <1>1 DEF FromWords, FromWordsOf
<1> QED
  BY <1>2, <1>3

\* Blocks of registers that are the same start at the same one and are as long.
LEMMA SameBlock ==
    ASSUME NEW a \in Int, NEW b \in Int, NEW m \in Int, NEW n \in Int, m >= 1, n >= 1,
           a..a + m - 1 = b..b + n - 1
    PROVE  a = b /\ m = n
<1>1. a \in b..b + n - 1 /\ b \in a..a + m - 1
  OBVIOUS
<1>2. a + m - 1 \in a..a + m - 1 /\ b + n - 1 \in b..b + n - 1
  OBVIOUS
<1>3. a + m - 1 \in b..b + n - 1 /\ b + n - 1 \in a..a + m - 1
  BY <1>2
<1> QED
  BY <1>1, <1>3

\* A cell is of a row that is there, and holds what its type can.
LEMMA CellFacts ==
    ASSUME NEW plant, Sound(plant), NEW cell \in DOMAIN plant.memory
    PROVE  /\ cell = <<cell[1], cell[2]>> /\ cell[1] \in IdsOf(plant) /\ cell[2] \in 0..255
           /\ \A v \in Settings(plant, cell) : Holds(TypeIn(plant, cell[1]), v, Room(plant))
           /\ cell \in DOMAIN plant.panel => plant.panel[cell] \subseteq Settings(plant, cell)
           /\ plant.memory[cell] \in Settings(plant, cell)
<1>1. /\ cell \in Nat \X (0..255)
      /\ \E row \in LoadableRows(plant) : row.id = cell[1]
      /\ \A row \in LoadableRows(plant), v \in Settings(plant, cell) :
            row.id = cell[1] => Holds(DataTypeMap[row.type], v, Room(plant))
  BY MemoryAssumption DEF Sound
<1>2. cell[1] \in IdsOf(plant)
  BY <1>1 DEF IdsOf
<1>3. RowOf(plant, cell[1]) \in LoadableRows(plant) /\ RowOf(plant, cell[1]).id = cell[1]
  BY <1>2, RowFacts
<1>4. \A v \in Settings(plant, cell) : Holds(TypeIn(plant, cell[1]), v, Room(plant))
  BY <1>1, <1>3 DEF TypeIn
<1>5. cell = <<cell[1], cell[2]>> /\ cell[2] \in 0..255
  BY <1>1
<1> QED
  BY <1>2, <1>4, <1>5 DEF Settings

\* What has been written over Modbus, by registers, is a parameter's of its own.
THEOREM BlockIsOne ==
    ASSUME NEW plant, Sound(plant), plant.proto # "std",
           NEW id \in IdsOf(plant), NEW other \in IdsOf(plant),
           RowOf(plant, other).addr # NA,
           NEW address \in Nat, address = CoerceInt(RowOf(plant, id).addr),
           NEW m \in Int, m >= 1, NEW n \in Int, n >= 1,
           m = RegisterCountFor(TypeIn(plant, id)),
           n = RegisterCountFor(TypeIn(plant, other)),
           RowOf(plant, other).addr..RowOf(plant, other).addr + n - 1
             = address..address + m - 1
    PROVE  /\ RowOf(plant, id).addr # NA => other = id
           /\ RowOf(plant, id).addr = NA => RowOf(plant, other).rwes = "R"
<1> DEFINE row == RowOf(plant, id)
           row2 == RowOf(plant, other)
<1>1. /\ row \in LoadableRows(plant) /\ row.id = id
      /\ row2 \in LoadableRows(plant) /\ row2.id = other /\ RowAssumption(plant, row2)
  BY RowFacts
<1> HIDE DEF row, row2
<1>2. row2.addr \in Nat /\ (row2.addr = 0 => row2.rwes = "R")
  BY <1>1 DEF RowAssumption, row2
<1>3. row2.addr = address /\ n = m
  <2> DEFINE a == row2.addr
  <2>1. a \in Int /\ address \in Int /\ a..a + n - 1 = address..address + m - 1
    BY <1>2 DEF row2
  <2> HIDE DEF a
  <2> QED
    BY <2>1, SameBlock DEF a
<1>4. CASE row.addr # NA
  <2>1. address = row.addr
    BY <1>4 DEF CoerceInt, row
  <2>2. row2.addr # NA /\ row2.addr = row.addr
    BY <1>3, <2>1 DEF row2
  <2>3. RegisterCountFor(DataTypeMap[row2.type]) = RegisterCountFor(DataTypeMap[row.type])
    BY <1>3 DEF TypeIn, row, row2
  <2>4. row2.id = row.id
    BY <1>1, <2>2, <2>3, MemoryAssumption DEF Sound
  <2> QED
    BY <1>1, <1>4, <2>4 DEF row
<1>5. CASE row.addr = NA
  <2>1. address = 0
    BY <1>5 DEF CoerceInt, row
  <2> QED
    BY <1>2, <1>3, <1>5, <2>1 DEF row, row2
<1> QED
  BY <1>4, <1>5


\* The cells whose registers an operation names
CellsAt(op) ==
    {cell \in DOMAIN held : /\ cell[1] \in Mapped /\ cell[2] = 1
                            /\ Block(cell[1]) = op.address..op.address + op.count - 1}

\* The answers to an operation
LEMMA RepliesTo ==
    ASSUME NEW op, NEW reply \in ModbusReplies(op)
    PROVE  \/ \E exc \in DOMAIN Remapped : reply = Excepted(NONE, exc, held)
           \/ op.fn = "read" /\ CellsAt(op) = {} /\ reply = Registered(NONE, Stray(op), held)
           \/ op.fn = "read" /\ \E cell \in CellsAt(op) : \E words \in InWords(cell[1], held[cell]) :
                reply = Registered(cell, words, held)
           \/ op.fn # "read" /\ \E cell \in CellsAt(op) :
                /\ Documented(cell[1]).rwes # "R"
                /\ LET stored == [held EXCEPT ![cell] = FromWords(cell[1], op.values)]
                   IN  reply \in {Registered(cell, <<>>, stored),
                                  Excepted(cell, "FrameTimeout", stored)}
<1> DEFINE cells == CellsAt(op)
           block == op.address..op.address + op.count - 1
           stored(cell) == [held EXCEPT ![cell] = FromWords(cell[1], op.values)]
           Y == {Registered(NONE, Stray(op), held)}
           Z == UNION {{Registered(cell, words, held) : words \in InWords(cell[1], held[cell])} :
                         cell \in cells}
           W == UNION {{Registered(cell, <<>>, stored(cell)), Excepted(cell, "FrameTimeout", stored(cell))} :
                         cell \in {c \in cells : Documented(c[1]).rwes # "R"}}
<1>1. reply \in {Excepted(NONE, exc, held) : exc \in DOMAIN Remapped}
                \cup IF op.fn = "read" THEN IF cells = {} THEN Y ELSE Z ELSE W
  BY Zenon DEF ModbusReplies, CellsAt
<1> HIDE DEF cells
<1>2. reply \in Z => \E cell \in cells : \E words \in InWords(cell[1], held[cell]) :
                       reply = Registered(cell, words, held)
  BY Zenon
<1>3. reply \in W => \E cell \in cells :
        /\ Documented(cell[1]).rwes # "R"
        /\ reply \in {Registered(cell, <<>>, stored(cell)), Excepted(cell, "FrameTimeout", stored(cell))}
  BY Zenon
<1>4. reply \in Y => reply = Registered(NONE, Stray(op), held)
  BY Zenon
<1>5. reply \in {Excepted(NONE, exc, held) : exc \in DOMAIN Remapped} =>
        \E exc \in DOMAIN Remapped : reply = Excepted(NONE, exc, held)
  BY Zenon
<1> DEFINE A == {Excepted(NONE, exc, held) : exc \in DOMAIN Remapped}
<1> HIDE DEF Y, Z, W, A
<1>6. \/ reply \in A
      \/ op.fn = "read" /\ cells = {} /\ reply \in Y
      \/ op.fn = "read" /\ reply \in Z
      \/ op.fn # "read" /\ reply \in W
  BY <1>1, Zenon DEF A
<1>7. CASE reply \in A
  BY <1>5, <1>7, Zenon DEF A
<1>8. CASE op.fn = "read" /\ cells = {} /\ reply \in Y
  BY <1>4, <1>8, Zenon DEF cells
<1>9. CASE op.fn = "read" /\ reply \in Z
  BY <1>2, <1>9, Zenon DEF cells
<1>10. CASE op.fn # "read" /\ reply \in W
  <2>1. PICK cell \in cells :
        /\ Documented(cell[1]).rwes # "R"
        /\ reply \in {Registered(cell, <<>>, stored(cell)), Excepted(cell, "FrameTimeout", stored(cell))}
    BY <1>3, <1>10, Zenon
  <2> QED
    BY <1>10, <2>1, Zenon DEF cells
<1> QED
  BY <1>6, <1>7, <1>8, <1>9, <1>10, Zenon

\* The one cell an operation on a parameter names
LEMMA CellIsOne ==
    ASSUME link \in DOMAIN Plant, NEW id \in IdsOf(Plant[link]),
           DOMAIN held = DOMAIN Plant[link].memory, Plant[link].proto # "std",
           NEW op, op.address = CoerceInt(RowOf(Plant[link], id).addr),
           op.count = RegisterCountFor(TypeIn(Plant[link], id)),
           NEW cell \in CellsAt(op)
    PROVE  /\ cell \in DOMAIN held /\ cell = <<cell[1], 1>> /\ cell[1] \in IdsOf(Plant[link])
           /\ RowOf(Plant[link], id).addr # NA => cell = <<id, 1>>
           /\ RowOf(Plant[link], id).addr = NA => RowOf(Plant[link], cell[1]).rwes = "R"
<1> DEFINE plant == Plant[link]
           other == cell[1]
           m == op.count
           n == RegisterCountFor(TypeIn(plant, other))
           address == op.address
<1>1. Sound(plant)
  BY DEF Sound
<1>2. cell \in DOMAIN held /\ other \in Mapped /\ cell[2] = 1 /\ Block(other) = address..address + m - 1
  BY DEF CellsAt
<1>3. other \in IdsOf(plant) /\ RowOf(plant, other).addr # NA
  BY <1>2, Here DEF Mapped
<1>4. Block(other) = RowOf(plant, other).addr..RowOf(plant, other).addr + n - 1
  BY Here DEF Block
<1>5. m \in {1, 2, 8} /\ n \in {1, 2, 8}
  BY <1>1, <1>3, RowFacts
<1>6. cell = <<cell[1], 1>>
  BY <1>1, <1>2, CellFacts
<1>7. address \in Nat
  <2>1. RowAssumption(plant, RowOf(plant, id))
    BY <1>1, RowFacts
  <2> QED
    BY <2>1 DEF RowAssumption, CoerceInt
<1>8. m \in Int /\ m >= 1 /\ n \in Int /\ n >= 1
  BY <1>5
<1>9. m = RegisterCountFor(TypeIn(plant, id)) /\ n = RegisterCountFor(TypeIn(plant, other))
  OBVIOUS
<1>10. address = CoerceInt(RowOf(plant, id).addr)
  OBVIOUS
<1>11. plant.proto # "std"
  OBVIOUS
<1> HIDE DEF plant, other, m, n, address
<1>12. /\ RowOf(plant, id).addr # NA => other = id
       /\ RowOf(plant, id).addr = NA => RowOf(plant, other).rwes = "R"
  <2>1. id \in IdsOf(plant)
    BY DEF plant
  <2>2. RowOf(plant, other).addr..RowOf(plant, other).addr + n - 1 = address..address + m - 1
    BY <1>2, <1>4
  <2> QED
    BY <1>1, <1>3, <1>7, <1>8, <1>9, <1>10, <1>11, <2>1, <2>2, BlockIsOne
<1> QED
  BY <1>2, <1>3, <1>6, <1>12 DEF plant, other

\* What is noted of an answer
NotedAs(reply, answered) ==
    LET plant == Plant[link]
        scale == TrueScaleIn(plant, reply.cell[1], reply.memory)
    IN  /\ answered.says = reply.says /\ answered.cell = reply.cell
        /\ reply.cell \in DOMAIN held =>
             /\ answered.scale = scale
             /\ answered.meant = MeantAt(TypeIn(plant, reply.cell[1]),
                                         reply.memory[reply.cell], scale)

\* What is noted of an answer is what it says, and what the memory then means.
LEMMA Noted ==
    ASSUME NEW reply, NEW junk, NEW whole
    PROVE  NotedAs(reply, AnswerOf(reply, junk, whole))
<1> DEFINE answered == AnswerOf(reply, junk, whole)
<1>1. CASE reply.cell \in DOMAIN held
  <2>1. /\ answered.cell = reply.cell /\ answered.says = reply.says
        /\ answered.meant = Meant(reply.cell, reply.memory)
        /\ answered.scale = TrueScale(reply.cell[1], reply.memory)
    BY <1>1 DEF AnswerOf
  <2> QED
    BY <2>1, MeantHere DEF NotedAs
<1>2. CASE reply.cell \notin DOMAIN held
  <2>1. answered = [Unanswered EXCEPT !.cell = reply.cell, !.says = reply.says,
                                      !.junk = junk, !.whole = whole]
    BY <1>2 DEF AnswerOf
  <2> QED
    BY <1>2, <2>1 DEF Unanswered, NotedAs
<1> QED
  BY <1>1, <1>2

\* Reply's fields
LEMMA ReplyFields ==
    ASSUME NEW cell, NEW x, NEW memory
    PROVE  /\ Excepted(cell, x, memory).cell = cell
           /\ Excepted(cell, x, memory).memory = memory
           /\ "exception" \in DOMAIN Excepted(cell, x, memory).says
           /\ Excepted(cell, x, memory).says.exception = x
           /\ Registered(cell, x, memory).cell = cell
           /\ Registered(cell, x, memory).memory = memory
           /\ "exception" \notin DOMAIN Registered(cell, x, memory).says
           /\ Registered(cell, x, memory).says.words = x
BY DEF Excepted, Registered, Reply

\* The operation a call becomes
LEMMA OpFields ==
    ASSUME NEW plant, NEW id, NEW q, plant.proto # "std"
    PROVE  LET op == WireOf(plant, id, q)
               words == WordsIn(plant, id, q.value).words
           IN  /\ op.address = CoerceInt(RowOf(plant, id).addr)
               /\ ~Writes(q) => op.fn = "read" /\ op.count = RegisterCountFor(TypeIn(plant, id))
               /\ Writes(q) => op.fn # "read" /\ op.count = Len(words) /\ op.values = words
<1>1. CASE Writes(q)
  <2> DEFINE words == WordsIn(plant, id, q.value).words
             address == CoerceInt(RowOf(plant, id).addr)
             n == Len(words)
  <2>1. WireOf(plant, id, q) = [fn |-> IF n = 1 THEN "write_register" ELSE "write_registers",
                                address |-> address, count |-> n, values |-> words]
    BY <1>1 DEF WireOf, WriteOp
  <2> HIDE DEF words, address, n
  <2>2. /\ WireOf(plant, id, q).fn # "read" /\ WireOf(plant, id, q).address = address
        /\ WireOf(plant, id, q).count = n /\ WireOf(plant, id, q).values = words
    BY <2>1
  <2> QED
    BY <1>1, <2>2 DEF words, address, n
<1>2. CASE ~Writes(q)
  <2>1. WireOf(plant, id, q) = ReadOp(CoerceInt(RowOf(plant, id).addr),
                                      RegisterCountFor(TypeIn(plant, id)))
    BY <1>2 DEF WireOf
  <2> QED
    BY <1>2, <2>1 DEF ReadOp
<1> QED
  BY <1>1, <1>2

\* A read is answered with registers of the parameter that is asked for.
THEOREM ModbusRead ==
    ASSUME link \in DOMAIN Plant, NEW id, NEW q, CallSound(Plant[link], id, q),
           Plant[link].proto # "std", HeldSound(Plant[link], held), ~Writes(q),
           NEW reply \in ModbusReplies(WireOf(Plant[link], id, q))
    PROVE  /\ reply.memory = held
           /\ ModbusSound(Plant[link], id, q, AnswerOf(reply, <<>>, TRUE))
<1> DEFINE plant == Plant[link]
           op == WireOf(plant, id, q)
           row == RowOf(plant, id)
           t == TypeIn(plant, id)
           answered == AnswerOf(reply, <<>>, TRUE)
<1>1. Sound(plant) /\ id \in IdsOf(plant)
  BY DEF Sound, CallSound
<1>2. op.address = CoerceInt(row.addr) /\ op.count = RegisterCountFor(t) /\ op.fn = "read"
  BY OpFields
<1>3. NotedAs(reply, answered)
  BY Noted, Zenon
<1>0. answered.says = reply.says /\ answered.cell = reply.cell
  BY <1>3 DEF NotedAs
<1>4. DOMAIN held = DOMAIN plant.memory
  BY DEF HeldSound
<1> HIDE DEF op, answered, row, t
<1>5. CASE \E exc \in DOMAIN Remapped : reply = Excepted(NONE, exc, held)
  <2>1. PICK exc \in DOMAIN Remapped : reply = Excepted(NONE, exc, held)
    BY <1>5
  <2>2. reply.memory = held /\ "exception" \in DOMAIN reply.says /\ reply.says.exception = exc
    BY <2>1, ReplyFields
  <2> HIDE DEF plant
  <2>3. ModbusSound(plant, id, q, answered)
    BY <1>0, <2>1, <2>2, Zenon DEF ModbusSound
  <2> QED
    BY <2>2, <2>3 DEF answered, plant
<1>6. CASE /\ CellsAt(op) = {} /\ reply = Registered(NONE, Stray(op), held)
  <2>1. row.addr = NA
    <3> SUFFICES ASSUME row.addr # NA PROVE FALSE
      OBVIOUS
    <3> DEFINE cell == <<id, 1>>
    <3>1. row \in LoadableRows(plant) /\ row.id = id
      BY <1>1, RowFacts DEF row
    <3>2. cell \in DOMAIN held
      BY <1>4, <3>1, MemoryAssumption
    <3>3. id \in Mapped
      BY <1>1, Here DEF Mapped, row
    <3>4. Block(id) = op.address..op.address + op.count - 1
      <4>1. Block(id) = row.addr..row.addr + RegisterCountFor(t) - 1
        BY Here DEF Block, row, t
      <4> QED
        BY <1>2, <4>1 DEF CoerceInt
    <3>5. cell \in CellsAt(op)
      BY <3>2, <3>3, <3>4 DEF CellsAt
    <3> QED
      BY <1>6, <3>5
  <2>2. reply.memory = held /\ "exception" \notin DOMAIN reply.says
    BY <1>6, ReplyFields
  <2> HIDE DEF plant
  <2>3. ModbusSound(plant, id, q, answered)
    BY <1>0, <2>1, <2>2 DEF ModbusSound, row
  <2> QED
    BY <2>2, <2>3 DEF answered, plant
<1>7. CASE \E cell \in CellsAt(op) : \E words \in InWords(cell[1], held[cell]) :
             reply = Registered(cell, words, held)
  <2>1. PICK cell \in CellsAt(op) : \E words \in InWords(cell[1], held[cell]) :
               reply = Registered(cell, words, held)
    BY <1>7
  <2>2. PICK words \in InWords(cell[1], held[cell]) : reply = Registered(cell, words, held)
    BY <2>1
  <2>3. /\ reply.memory = held /\ reply.cell = cell /\ "exception" \notin DOMAIN reply.says
        /\ reply.says.words = words
    BY <2>2, ReplyFields
  <2>4. ASSUME row.addr # NA
        PROVE  ReadSound(plant, id, answered)
    <3> DEFINE v == held[<<id, 1>>]
               scale == TrueScaleIn(plant, id, held)
    <3>1. cell = <<id, 1>> /\ cell \in DOMAIN held
      <4>1. id \in IdsOf(Plant[link])
        BY <1>1
      <4> HIDE DEF plant
      <4> QED
        BY <1>1, <1>2, <1>4, <2>4, <4>1, CellIsOne DEF row, t, plant
    <3>2. Holds(t, v, 16) /\ (row.rwes = "R" => v \in Settings(plant, <<id, 1>>))
      <4>1. Room(plant) = 16
        BY DEF Room
      <4>2. cell[1] = id
        BY <3>1
      <4> QED
        BY <3>1, <4>1, <4>2 DEF HeldSound, row, t
    <3>3. answered.cell = <<id, 1>> /\ answered.says.words = words
      BY <1>0, <2>3, <3>1
    <3>4. words \in WordsFor(t, v)
      BY <2>2, <3>1, RegistersHere DEF t
    <3>5. answered.scale = scale /\ answered.meant = MeantAt(t, v, scale)
      <4>1. reply.cell \in DOMAIN held /\ reply.cell[1] = id /\ reply.memory = held
        BY <2>3, <3>1
      <4> QED
        BY <1>3, <2>3, <3>1, <4>1 DEF NotedAs, t
    <3>6. row.decimal = NA => scale = Scale(row)
      BY DEF TrueScaleIn, row
    <3> HIDE DEF plant, v, scale
    <3> QED
      BY <3>2, <3>3, <3>4, <3>5, <3>6 DEF ReadSound, row, t
  <2> HIDE DEF plant
  <2>5. ModbusSound(plant, id, q, answered)
    BY <1>0, <2>3, <2>4 DEF ModbusSound, row
  <2> QED
    BY <2>3, <2>5 DEF answered, plant
<1> QED
  BY <1>2, <1>5, <1>6, <1>7, RepliesTo DEF op

\* An acknowledged write has left in the device what it was for; so it may have when it
\* is not acknowledged.
THEOREM ModbusWrite ==
    ASSUME link \in DOMAIN Plant, NEW id, NEW q, CallSound(Plant[link], id, q),
           Plant[link].proto # "std", HeldSound(Plant[link], held), Writes(q),
           NEW reply \in ModbusReplies(WireOf(Plant[link], id, q))
    PROVE  /\ HeldSound(Plant[link], reply.memory)
           /\ ModbusSound(Plant[link], id, q, AnswerOf(reply, <<>>, TRUE))
<1> DEFINE plant == Plant[link]
           op == WireOf(plant, id, q)
           row == RowOf(plant, id)
           t == TypeIn(plant, id)
           answered == AnswerOf(reply, <<>>, TRUE)
           e == WordsIn(plant, id, q.value)
           scale == Scale(row)
           new == FromWordsOf(t, e.words)
<1>1. Sound(plant) /\ id \in IdsOf(plant) /\ q \in plant.requests /\ e.how = "ok"
  BY DEF Sound, CallSound
<1>2. /\ t \in Types /\ scale \in Int /\ 1 <= scale /\ (t = "FLOAT" => scale = One)
      /\ row.decimal # NA => row.rwes = "R"
  BY <1>1, RowFacts
<1>3. Askable(q.value)
  BY <1>1, AskedValues
<1>4. e = EncodeValueToWords(ScaledDown(q.value, scale), t, RegisterCountFor(t))
  BY DEF WordsIn
<1>5. /\ op.address = CoerceInt(row.addr) /\ op.count = Len(e.words) /\ op.fn # "read"
      /\ op.values = e.words
  BY OpFields
<1>6. NotedAs(reply, answered)
  BY Noted, Zenon
<1>0. answered.says = reply.says /\ answered.cell = reply.cell
  BY <1>6 DEF NotedAs
<1>7. DOMAIN held = DOMAIN plant.memory
  BY DEF HeldSound
<1> HIDE DEF op, answered, row, t, e, scale, new
<1>8. /\ Len(e.words) = RegisterCountFor(t) /\ Holds(t, new, 16)
      /\ KeptAt(t, q.value, MeantAt(t, new, scale), scale) \/ WrapsAt(t, q.value, scale)
  BY <1>1, <1>2, <1>3, <1>4, WriteInWords DEF new
<1>9. CASE \E exc \in DOMAIN Remapped : reply = Excepted(NONE, exc, held)
  <2>1. PICK exc \in DOMAIN Remapped : reply = Excepted(NONE, exc, held)
    BY <1>9
  <2>2. reply.memory = held /\ "exception" \in DOMAIN reply.says /\ reply.says.exception = exc
    BY <2>1, ReplyFields
  <2> HIDE DEF plant
  <2>3. ModbusSound(plant, id, q, answered)
    BY <1>0, <2>1, <2>2, Zenon DEF ModbusSound
  <2> QED
    BY <2>2, <2>3 DEF answered, plant
<1>10. CASE \E cell \in CellsAt(op) :
              /\ Documented(cell[1]).rwes # "R"
              /\ LET stored == [held EXCEPT ![cell] = FromWords(cell[1], op.values)]
                 IN  reply \in {Registered(cell, <<>>, stored),
                                Excepted(cell, "FrameTimeout", stored)}
  <2> DEFINE stored(cell) == [held EXCEPT ![cell] = FromWords(cell[1], op.values)]
  <2>1. PICK cell \in CellsAt(op) :
              /\ Documented(cell[1]).rwes # "R"
              /\ reply \in {Registered(cell, <<>>, stored(cell)),
                            Excepted(cell, "FrameTimeout", stored(cell))}
    BY <1>10
  <2>2. cell = <<id, 1>> /\ cell \in DOMAIN held /\ row.rwes # "R"
    <3>1. id \in IdsOf(Plant[link])
      BY <1>1
    <3>2. RowOf(plant, cell[1]).rwes # "R"
      BY <2>1, Here
    <3> HIDE DEF plant
    <3>3. /\ cell \in DOMAIN held /\ cell = <<cell[1], 1>>
          /\ row.addr # NA => cell = <<id, 1>>
          /\ row.addr = NA => RowOf(plant, cell[1]).rwes = "R"
      BY <1>1, <1>5, <1>7, <1>8, <3>1, CellIsOne DEF row, t, plant
    <3>4. cell = <<id, 1>>
      BY <3>2, <3>3
    <3>5. cell[1] = id
      BY <3>4
    <3> QED
      BY <3>2, <3>3, <3>4, <3>5 DEF row
  <2>3. cell[1] = id
    BY <2>2
  <2> DEFINE after == [held EXCEPT ![cell] = new]
  <2>4. FromWords(cell[1], op.values) = new
    BY <1>5, <2>3, RegistersHere DEF new, t
  <2>5. stored(cell) = after
    BY <2>4
  <2>6. after[cell] = new /\ DOMAIN after = DOMAIN held /\ \A c \in DOMAIN held \ {cell} : after[c] = held[c]
    BY <2>2
  <2> HIDE DEF after, stored
  <2>7. HeldSound(plant, after)
    <3>1. ASSUME NEW c \in DOMAIN after
          PROVE  /\ Holds(TypeIn(plant, c[1]), after[c], Room(plant))
                 /\ RowOf(plant, c[1]).rwes = "R" => after[c] \in Settings(plant, c)
      <4>1. CASE c = cell
        <5>1. Room(plant) = 16
          BY DEF Room
        <5> HIDE DEF plant
        <5> QED
          BY <1>8, <2>2, <2>3, <2>6, <4>1, <5>1 DEF t, row
      <4>2. CASE c # cell
        <5>1. c \in DOMAIN held /\ after[c] = held[c]
          BY <2>6, <4>2
        <5> QED
          BY <5>1 DEF HeldSound
      <4> QED
        BY <4>1, <4>2
    <3> QED
      BY <1>7, <2>6, <3>1 DEF HeldSound
  <2>8. reply.cell = cell /\ reply.memory = after
    BY <2>1, <2>5, ReplyFields
  <2>9. /\ answered.cell = <<id, 1>> /\ answered.scale = scale
        /\ answered.meant = MeantAt(t, new, scale)
    <3>1. TrueScaleIn(plant, id, after) = scale
      BY <1>2, <2>2 DEF TrueScaleIn, row, scale
    <3>2. /\ answered.cell = reply.cell
          /\ answered.scale = TrueScaleIn(plant, reply.cell[1], reply.memory)
          /\ answered.meant = MeantAt(TypeIn(plant, reply.cell[1]), reply.memory[reply.cell],
                                      TrueScaleIn(plant, reply.cell[1], reply.memory))
      BY <1>6, <2>2, <2>8 DEF NotedAs
    <3> HIDE DEF plant
    <3> QED
      BY <2>2, <2>3, <2>6, <2>8, <3>1, <3>2 DEF t
  <2> HIDE DEF plant
  <2>10. WriteSound(plant, id, q, answered)
    BY <1>8, <2>9 DEF WriteSound, t, row, scale
  <2>11. ModbusSound(plant, id, q, answered)
    <3>1. "FrameTimeout" \in DOMAIN Remapped
      BY Zenon DEF Remapped
    <3>2. "exception" \in DOMAIN reply.says => reply.says.exception = "FrameTimeout"
      BY <2>1, ReplyFields
    <3> QED
      BY <1>0, <2>10, <3>1, <3>2 DEF ModbusSound
  <2> QED
    BY <2>7, <2>8, <2>11 DEF answered, plant
<1> QED
  BY <1>5, <1>9, <1>10, RepliesTo DEF op
-----------------------------------------------------------------------------
(***************************************************************************)
(* Frames are made of bytes.                                               *)
(***************************************************************************)

\* A number with one more bit; the numbers the first bits make
ThenBit(n, bits, k) == 2 * n + (IF 16 - k \in bits THEN 1 ELSE 0)
NumberUpTo(bits) ==
    CHOOSE f : f = [k \in 0..16 |-> IF k = 0 THEN 0 ELSE ThenBit(f[k - 1], bits, k)]

\* They are had by taking one bit after another.
LEMMA NumberSteps ==
    ASSUME NEW bits, NEW n \in Nat, n = 16
    PROVE  /\ Number(bits) = NumberUpTo(bits)[n] /\ NumberUpTo(bits)[0] = 0
           /\ \A k \in 1..n : NumberUpTo(bits)[k] = ThenBit(NumberUpTo(bits)[k - 1], bits, k)
<1> DEFINE R(m, f) == f = [k \in 0..m |-> IF k = 0 THEN 0 ELSE ThenBit(f[k - 1], bits, k)]
           S == {m \in Nat : \E f : R(m, f)}
           F == NumberUpTo(bits)
<1>1. 0 \in S
  <2> DEFINE f == [k \in 0..0 |-> 0]
  <2>1. R(0, f)
    OBVIOUS
  <2> QED
    BY <2>1
<1>2. \A m \in S : m + 1 \in S
  <2> TAKE m \in S
  <2>1. m \in Nat /\ m + 1 \in Nat
    OBVIOUS
  <2>2. PICK g : R(m, g)
    OBVIOUS
  <2> DEFINE f == [k \in 0..m + 1 |-> IF k <= m THEN g[k] ELSE ThenBit(g[m], bits, m + 1)]
  <2>3. \A k \in 0..m : f[k] = g[k]
    BY <2>1
  <2>4. f[m + 1] = ThenBit(g[m], bits, m + 1)
    BY <2>1
  <2>5. f = [k \in 0..m + 1 |-> f[k]]
    OBVIOUS
  <2> HIDE DEF f
  <2>6. \A k \in 0..m + 1 : f[k] = IF k = 0 THEN 0 ELSE ThenBit(f[k - 1], bits, k)
    <3> TAKE k \in 0..m + 1
    <3>1. CASE k = 0
      BY <2>1, <2>2, <2>3, <3>1
    <3>2. CASE k \in 1..m
      <4>1. k \in 0..m /\ k - 1 \in 0..m /\ k # 0
        BY <2>1, <3>2
      <4>2. f[k] = g[k] /\ f[k - 1] = g[k - 1]
        BY <2>3, <4>1
      <4>3. g[k] = ThenBit(g[k - 1], bits, k)
        BY <2>2, <4>1
      <4> QED
        BY <4>1, <4>2, <4>3
    <3>3. CASE k = m + 1
      <4>1. k - 1 = m /\ m \in 0..m /\ k # 0
        BY <2>1, <3>3
      <4> QED
        BY <2>3, <2>4, <3>3, <4>1
    <3> QED
      BY <2>1, <3>1, <3>2, <3>3
  <2>7. R(m + 1, f)
    BY <2>5, <2>6
  <2> QED
    BY <2>1, <2>7
<1>3. S = Nat
  <2>1. S \in SUBSET Nat
    OBVIOUS
  <2> HIDE DEF S
  <2> QED
    BY <1>1, <1>2, <2>1, SetInduction
<1>4. PICK f : R(n, f)
  BY <1>3
<1>5. R(n, F)
  BY <1>4 DEF NumberUpTo
<1> HIDE DEF F
<1>6. F[0] = 0 /\ \A k \in 1..n : F[k] = ThenBit(F[k - 1], bits, k)
  BY <1>5
<1>7. Number(bits) = F[n]
  BY DEF F, NumberUpTo, Number, ThenBit
<1> QED
  BY <1>6, <1>7 DEF F

\* Eight bits are a byte, sixteen of them a word.
LEMMA NumberTyped ==
    ASSUME NEW bits
    PROVE  /\ Number(bits) \in Int /\ 0 <= Number(bits) /\ Number(bits) <= 65535
           /\ bits \subseteq 0..7 => Number(bits) <= 255
<1> DEFINE F == NumberUpTo(bits)
           n == 16
<1>1. n \in Nat /\ n = 16
  OBVIOUS
<1> HIDE DEF n
<1>2. /\ Number(bits) = F[n] /\ F[0] = 0
      /\ \A k \in 1..n : F[k] = ThenBit(F[k - 1], bits, k)
  BY <1>1, NumberSteps
<1> HIDE DEF F
<1>s1. F[1] = ThenBit(F[0], bits, 1)
  BY <1>1, <1>2
<1>s2. F[2] = ThenBit(F[1], bits, 2)
  BY <1>1, <1>2
<1>s3. F[3] = ThenBit(F[2], bits, 3)
  BY <1>1, <1>2
<1>s4. F[4] = ThenBit(F[3], bits, 4)
  BY <1>1, <1>2
<1>s5. F[5] = ThenBit(F[4], bits, 5)
  BY <1>1, <1>2
<1>s6. F[6] = ThenBit(F[5], bits, 6)
  BY <1>1, <1>2
<1>s7. F[7] = ThenBit(F[6], bits, 7)
  BY <1>1, <1>2
<1>s8. F[8] = ThenBit(F[7], bits, 8)
  BY <1>1, <1>2
<1>s9. F[9] = ThenBit(F[8], bits, 9)
  BY <1>1, <1>2
<1>s10. F[10] = ThenBit(F[9], bits, 10)
  BY <1>1, <1>2
<1>s11. F[11] = ThenBit(F[10], bits, 11)
  BY <1>1, <1>2
<1>s12. F[12] = ThenBit(F[11], bits, 12)
  BY <1>1, <1>2
<1>s13. F[13] = ThenBit(F[12], bits, 13)
  BY <1>1, <1>2
<1>s14. F[14] = ThenBit(F[13], bits, 14)
  BY <1>1, <1>2
<1>s15. F[15] = ThenBit(F[14], bits, 15)
  BY <1>1, <1>2
<1>s16. F[16] = ThenBit(F[15], bits, 16)
  BY <1>1, <1>2
<1>a0. F[0] \in Int /\ 0 <= F[0] /\ F[0] <= 0
  BY <1>2
<1>a1. F[1] \in Int /\ 0 <= F[1] /\ F[1] <= 1
  BY <1>s1, <1>a0 DEF ThenBit
<1>a2. F[2] \in Int /\ 0 <= F[2] /\ F[2] <= 3
  BY <1>s2, <1>a1 DEF ThenBit
<1>a3. F[3] \in Int /\ 0 <= F[3] /\ F[3] <= 7
  BY <1>s3, <1>a2 DEF ThenBit
<1>a4. F[4] \in Int /\ 0 <= F[4] /\ F[4] <= 15
  BY <1>s4, <1>a3 DEF ThenBit
<1>a5. F[5] \in Int /\ 0 <= F[5] /\ F[5] <= 31
  BY <1>s5, <1>a4 DEF ThenBit
<1>a6. F[6] \in Int /\ 0 <= F[6] /\ F[6] <= 63
  BY <1>s6, <1>a5 DEF ThenBit
<1>a7. F[7] \in Int /\ 0 <= F[7] /\ F[7] <= 127
  BY <1>s7, <1>a6 DEF ThenBit
<1>a8. F[8] \in Int /\ 0 <= F[8] /\ F[8] <= 255
  BY <1>s8, <1>a7 DEF ThenBit
<1>a9. F[9] \in Int /\ 0 <= F[9] /\ F[9] <= 511
  BY <1>s9, <1>a8 DEF ThenBit
<1>a10. F[10] \in Int /\ 0 <= F[10] /\ F[10] <= 1023
  BY <1>s10, <1>a9 DEF ThenBit
<1>a11. F[11] \in Int /\ 0 <= F[11] /\ F[11] <= 2047
  BY <1>s11, <1>a10 DEF ThenBit
<1>a12. F[12] \in Int /\ 0 <= F[12] /\ F[12] <= 4095
  BY <1>s12, <1>a11 DEF ThenBit
<1>a13. F[13] \in Int /\ 0 <= F[13] /\ F[13] <= 8191
  BY <1>s13, <1>a12 DEF ThenBit
<1>a14. F[14] \in Int /\ 0 <= F[14] /\ F[14] <= 16383
  BY <1>s14, <1>a13 DEF ThenBit
<1>a15. F[15] \in Int /\ 0 <= F[15] /\ F[15] <= 32767
  BY <1>s15, <1>a14 DEF ThenBit
<1>a16. F[16] \in Int /\ 0 <= F[16] /\ F[16] <= 65535
  BY <1>s16, <1>a15 DEF ThenBit
<1>3. ASSUME bits \subseteq 0..7 PROVE F[16] <= 255
  <2>z0. F[0] = 0
    BY <1>2
  <2>z1. F[1] = 0
    BY <1>3, <1>s1, <2>z0 DEF ThenBit
  <2>z2. F[2] = 0
    BY <1>3, <1>s2, <2>z1 DEF ThenBit
  <2>z3. F[3] = 0
    BY <1>3, <1>s3, <2>z2 DEF ThenBit
  <2>z4. F[4] = 0
    BY <1>3, <1>s4, <2>z3 DEF ThenBit
  <2>z5. F[5] = 0
    BY <1>3, <1>s5, <2>z4 DEF ThenBit
  <2>z6. F[6] = 0
    BY <1>3, <1>s6, <2>z5 DEF ThenBit
  <2>z7. F[7] = 0
    BY <1>3, <1>s7, <2>z6 DEF ThenBit
  <2>z8. F[8] = 0
    BY <1>3, <1>s8, <2>z7 DEF ThenBit
  <2>b8. F[8] \in Int /\ 0 <= F[8] /\ F[8] <= 0
    BY <2>z8
  <2>b9. F[9] \in Int /\ 0 <= F[9] /\ F[9] <= 1
    BY <1>s9, <2>b8 DEF ThenBit
  <2>b10. F[10] \in Int /\ 0 <= F[10] /\ F[10] <= 3
    BY <1>s10, <2>b9 DEF ThenBit
  <2>b11. F[11] \in Int /\ 0 <= F[11] /\ F[11] <= 7
    BY <1>s11, <2>b10 DEF ThenBit
  <2>b12. F[12] \in Int /\ 0 <= F[12] /\ F[12] <= 15
    BY <1>s12, <2>b11 DEF ThenBit
  <2>b13. F[13] \in Int /\ 0 <= F[13] /\ F[13] <= 31
    BY <1>s13, <2>b12 DEF ThenBit
  <2>b14. F[14] \in Int /\ 0 <= F[14] /\ F[14] <= 63
    BY <1>s14, <2>b13 DEF ThenBit
  <2>b15. F[15] \in Int /\ 0 <= F[15] /\ F[15] <= 127
    BY <1>s15, <2>b14 DEF ThenBit
  <2>b16. F[16] \in Int /\ 0 <= F[16] /\ F[16] <= 255
    BY <1>s16, <2>b15 DEF ThenBit
  <2> QED
    BY <2>b16
<1> QED
  BY <1>1, <1>2, <1>a16, <1>3

-----------------------------------------------------------------------------
(***************************************************************************)
(* Sequences put together and taken apart.                                 *)
(***************************************************************************)

\* One sequence, then the other
Follow(s, a, b, m) == /\ Len(s) = m + Len(b)
                      /\ \A i \in 1..m : s[i] = a[i]
                      /\ \A i \in 1..Len(b) : s[m + i] = b[i]

\* Joined sequences follow each other.
LEMMA Joined ==
    ASSUME NEW X, NEW a \in Seq(X), NEW b \in Seq(X), NEW m, m = Len(a)
    PROVE  a \o b \in Seq(X) /\ Follow(a \o b, a, b, m)
<1>1. a \o b \in Seq(X) /\ Len(a \o b) = Len(a) + Len(b)
  OBVIOUS
<1>2. \A i \in 1..Len(a) : (a \o b)[i] = a[i]
  OBVIOUS
<1>3. \A i \in 1..Len(b) : (a \o b)[Len(a) + i] = b[i]
  OBVIOUS
<1> QED
  BY <1>1, <1>2, <1>3 DEF Follow

\* What was put behind a sequence is what is behind it.
LEMMA TakenTail ==
    ASSUME NEW X, NEW a \in Seq(X), NEW b \in Seq(X)
    PROVE  SubSeq(a \o b, Len(a) + 1, Len(a) + Len(b)) = b
OBVIOUS

\* What was put between two sequences is what is between them.
LEMMA Middle ==
    ASSUME NEW X, NEW a \in Seq(X), NEW b \in Seq(X), NEW c \in Seq(X)
    PROVE  SubSeq((a \o b) \o c, Len(a) + 1, Len(a) + Len(b)) = b
OBVIOUS

\* Two elements taken out of a sequence
LEMMA TakenTwo ==
    ASSUME NEW s, NEW m \in Int, NEW n \in Int, n = m + 1
    PROVE  SubSeq(s, m, n) = <<s[m], s[n]>>
<1> DEFINE X == {s[m], s[n]}
           t == SubSeq(s, m, n)
<1>1. \A i \in m..n : s[i] \in X
  <2>1. \A i \in m..n : i = m \/ i = n
    OBVIOUS
  <2> QED
    BY <2>1
<1> HIDE DEF X
<1>2. /\ t \in Seq(X) /\ Len(t) = IF m <= n THEN n - m + 1 ELSE 0
      /\ \A i \in 1..n - m + 1 : t[i] = s[m + i - 1]
  BY <1>1, SubSeqProperties
<1>3. 1 \in 1..n - m + 1 /\ 2 \in 1..n - m + 1 /\ m + 1 - 1 = m /\ m + 2 - 1 = n
  OBVIOUS
<1>4. t \in Seq(X) /\ Len(t) = 2 /\ t[1] = s[m] /\ t[2] = s[n]
  BY <1>2, <1>3
<1> HIDE DEF t
<1>5. t = <<s[m], s[n]>>
  BY <1>4
<1> QED
  BY <1>5 DEF t

-----------------------------------------------------------------------------
(***************************************************************************)
(* Frames: the library's and the device's are laid out the same.           *)
(***************************************************************************)
Byte == 0..255
Framed(head, check, payload, tail) ==
    Preamble \o head \o <<check>> \o payload \o tail

\* The preamble, and what follows it
LEMMA PreambleThen ==
    ASSUME NEW head, head \in Seq(Byte)
    PROVE  /\ Preamble \o head \in Seq(Byte) /\ Follow(Preamble \o head, Preamble, head, 2)
           /\ Preamble[1] = 85 /\ Preamble[2] = 255
<1> DEFINE m == 2
<1>1. Preamble \in Seq(Byte) /\ m = Len(Preamble)
  BY DEF Preamble, Byte
<1>2. Preamble[1] = 85 /\ Preamble[2] = 255
  BY DEF Preamble
<1> HIDE DEF m
<1>3. Preamble \o head \in Seq(Byte) /\ Follow(Preamble \o head, Preamble, head, m)
  BY <1>1, Joined
<1> QED
  BY <1>2, <1>3 DEF m

\* The two bytes a frame's length is in
LEMMA TakenLength ==
    ASSUME NEW frame
    PROVE  SubSeq(frame, 6, 7) = <<frame[6], frame[7]>>
<1> DEFINE i == 6
           j == 7
<1>1. i \in Int /\ j \in Int /\ j = i + 1
  OBVIOUS
<1> HIDE DEF i, j
<1>2. SubSeq(frame, i, j) = <<frame[i], frame[j]>>
  BY <1>1, TakenTwo
<1> QED
  BY <1>2 DEF i, j

\* A frame of these parts, the payload of n bytes
Parts(frame, head, check, payload, tail, n) ==
    /\ frame \in Seq(Byte) /\ Len(frame) = 10 + n
    /\ SubSeq(frame, 1, 2) = Preamble
    /\ \A i \in 1..5 : frame[2 + i] = head[i]
    /\ frame[1] = 85 /\ frame[2] = 255 /\ frame[8] = check
    /\ SubSeq(frame, 9, 8 + n) = payload
    /\ SubSeq(frame, 9 + n, 10 + n) = tail

\* A frame has its parts at their places.
LEMMA FrameParts ==
    ASSUME NEW head \in Seq(Byte), Len(head) = 5, NEW check \in Byte,
           NEW payload \in Seq(Byte), NEW tail \in Seq(Byte), Len(tail) = 2,
           NEW n, n = Len(payload)
    PROVE  Parts(Framed(head, check, payload, tail), head, check, payload, tail, n)
<1> DEFINE a == Preamble \o head
           b == a \o <<check>>
           c == b \o payload
           frame == c \o tail
<1>1. frame = Framed(head, check, payload, tail)
  BY DEF Framed
<1>2. Preamble \in Seq(Byte) /\ Len(Preamble) = 2 /\ Preamble[1] = 85 /\ Preamble[2] = 255
  BY DEF Preamble, Byte
<1>3. <<check>> \in Seq(Byte) /\ Len(<<check>>) = 1 /\ <<check>>[1] = check
  OBVIOUS
<1>4. n \in Nat
  OBVIOUS
<1> HIDE DEF Byte, Preamble
<1>5. /\ a \in Seq(Byte) /\ Len(a) = 7 /\ \A i \in 1..2 : a[i] = Preamble[i]
      /\ \A i \in 1..5 : a[2 + i] = head[i]
  <2>1. Preamble \o head \in Seq(Byte) /\ Follow(Preamble \o head, Preamble, head, 2)
    BY PreambleThen
  <2> QED
    BY <2>1 DEF Follow
<1> HIDE DEF a
<1>6. /\ b \in Seq(Byte) /\ Len(b) = 8 /\ \A i \in 1..7 : b[i] = a[i]
      /\ b[8] = check
  <2> DEFINE e == <<check>>
  <2>1. e \in Seq(Byte) /\ Len(e) = 1 /\ e[1] = check
    BY <1>3
  <2> HIDE DEF e
  <2>2. a \o e \in Seq(Byte) /\ Follow(a \o e, a, e, 7)
    BY <1>5, <2>1, Joined
  <2>3. b = a \o e
    BY DEF e
  <2> HIDE DEF b
  <2> QED
    <3>1. /\ Len(b) = 7 + Len(e) /\ \A i \in 1..7 : b[i] = a[i]
          /\ \A i \in 1..Len(e) : b[7 + i] = e[i]
      BY <2>2, <2>3, Zenon DEF Follow
    <3>2. b[7 + 1] = e[1]
      BY <2>1, <3>1
    <3>3. b \in Seq(Byte) /\ Len(b) = 8
      BY <2>1, <2>2, <2>3, <3>1
    <3>4. b[8] = check
      BY <2>1, <3>2
    <3> QED
      BY <3>1, <3>3, <3>4
<1> HIDE DEF b
<1>7. c \in Seq(Byte) /\ Len(c) = 8 + n /\ \A i \in 1..8 : c[i] = b[i]
  <2>1. c \in Seq(Byte) /\ Follow(c, b, payload, 8)
    BY <1>4, <1>6, Joined
  <2> QED
    BY <2>1 DEF Follow
<1>8. SubSeq(frame, 9, 8 + n) = payload
  <2>1. SubSeq(frame, Len(b) + 1, Len(b) + Len(payload)) = payload
    BY <1>6, Middle
  <2>2. Len(b) + 1 = 9 /\ Len(b) + Len(payload) = 8 + n
    BY <1>6
  <2> HIDE DEF frame
  <2> QED
    BY <2>1, <2>2
<1> HIDE DEF c
<1>9. frame \in Seq(Byte) /\ Len(frame) = 10 + n /\ \A i \in 1..8 : frame[i] = c[i]
  <2> DEFINE m == 8 + n
  <2>1. m \in Nat /\ m >= 8 /\ m + 2 = 10 + n
    BY <1>4
  <2>2. c \in Seq(Byte) /\ m = Len(c)
    BY <1>7
  <2> HIDE DEF m
  <2>3. frame \in Seq(Byte) /\ Follow(frame, c, tail, m)
    BY <2>2, Joined
  <2>4. \A i \in 1..8 : i \in 1..m
    BY <2>1
  <2> HIDE DEF frame
  <2> QED
    BY <2>1, <2>3, <2>4 DEF Follow
<1>10. SubSeq(frame, 9 + n, 10 + n) = tail
  <2>1. SubSeq(frame, Len(c) + 1, Len(c) + Len(tail)) = tail
    BY <1>7, TakenTail
  <2>2. Len(c) + 1 = 9 + n /\ Len(c) + Len(tail) = 10 + n
    BY <1>4, <1>7
  <2> HIDE DEF frame, c
  <2> QED
    BY <2>1, <2>2
<1> HIDE DEF frame
<1>11. \A i \in 1..8 : frame[i] = b[i]
  BY <1>7, <1>9
<1>12. \A i \in 1..7 : frame[i] = a[i]
  BY <1>6, <1>11
<1>13. frame[1] = 85 /\ frame[2] = 255 /\ frame[8] = check
  BY <1>2, <1>5, <1>6, <1>11, <1>12
<1>14. \A i \in 1..5 : frame[2 + i] = head[i]
  <2> TAKE i \in 1..5
  <2>1. 2 + i \in 1..7
    OBVIOUS
  <2>2. frame[2 + i] = a[2 + i]
    BY <1>12, <2>1
  <2> QED
    BY <1>5, <2>2
<1>15. SubSeq(frame, 1, 2) = Preamble
  <2>1. SubSeq(frame, 1, 2) = <<frame[1], frame[2]>>
    <3>1. 1 \in Int /\ 2 \in Int /\ 2 = 1 + 1
      OBVIOUS
    <3> QED
      BY <3>1, TakenTwo
  <2> QED
    BY <1>13, <2>1 DEF Preamble
<1> QED
  BY <1>1, <1>8, <1>9, <1>10, <1>13, <1>14, <1>15 DEF Parts

\* The number a frame announces is the length of its payload.
UpTo(frame, n) == SubSeq(frame, 9, 8 + n)

\* The payload of a frame is found by its length.
LEMMA FramePayloadBack ==
    ASSUME NEW frame, NEW n \in Nat, n <= 65535,
           frame[6] = Bytes(n, 2)[1], frame[7] = Bytes(n, 2)[2]
    PROVE  Unsigned(SubSeq(frame, 6, 7)) = n /\ FramePayload(frame) = UpTo(frame, n)
<1>1. SubSeq(frame, 6, 7) = <<frame[6], frame[7]>>
  BY TakenLength
<1>2. n \in Int /\ 0 <= n
  OBVIOUS
<1>3. SubSeq(frame, 6, 7) = Bytes(n, 2)
  BY <1>1, <1>2, BytesOfTwo
<1>4. Unsigned(SubSeq(frame, 6, 7)) = n
  <2>1. 0 <= n /\ n <= 65535 => Unsigned(Bytes(n, 2)) = n
    BY <1>2, TwoBytes
  <2>2. Unsigned(Bytes(n, 2)) = n
    BY <1>2, <2>1
  <2> QED
    <3> DEFINE u == SubSeq(frame, 6, 7)
               w == Bytes(n, 2)
    <3>1. u = w /\ Unsigned(w) = n
      BY <1>3, <2>2
    <3> HIDE DEF u, w
    <3>2. Unsigned(u) = n
      BY <3>1
    <3> QED
      BY <3>2 DEF u
<1> QED
  BY <1>4 DEF FramePayload, UpTo

\* Checksums are bytes.
LEMMA ChecksAreBytes ==
    ASSUME NEW data
    PROVE  /\ HeaderCrc8(data) \in Byte /\ Crc8(data) \in Byte
           /\ DataCrc16Le(data) \in Seq(Byte) /\ Len(DataCrc16Le(data)) = 2
           /\ DataCrc16Le(data) = <<DataCrc16(data) % 256, (DataCrc16(data) \div 256) % 256>>
           /\ <<Crc16(data) % 256, Crc16(data) \div 256>> \in Seq(Byte)
           /\ DataCrc16(data) \in Int /\ 0 <= DataCrc16(data) /\ DataCrc16(data) <= 65535
<1>1. HeaderCrc8(data) \in Byte
  <2>1. \E bits : HeaderCrc8(data) = Number((0..7) \ bits)
    BY Zenon DEF HeaderCrc8
  <2> QED
    BY <2>1, NumberTyped DEF Byte
<1>2. Crc8(data) \in Byte
  <2>1. \E bits : Crc8(data) = Number((0..7) \ bits)
    BY Zenon DEF Crc8, Crc
  <2> QED
    BY <2>1, NumberTyped DEF Byte
<1> DEFINE n == DataCrc16(data)
           m == Crc16(data)
<1>3. n \in Int /\ 0 <= n /\ n <= 65535
  <2>1. \E bits : n = Number(bits)
    BY Zenon DEF DataCrc16
  <2> QED
    BY <2>1, NumberTyped
<1>4. m \in Int /\ 0 <= m /\ m <= 65535
  <2>1. \E bits : m = Number(bits)
    BY Zenon DEF Crc16, Crc
  <2> QED
    BY <2>1, NumberTyped
<1>5. DataCrc16Le(data) = Reverse(Bytes(n, 2))
  BY DEF DataCrc16Le
<1> HIDE DEF n, m
<1> DEFINE a == (n \div 256) % 256
           b == n % 256
<1>6. Bytes(n, 2) = <<a, b>>
  BY <1>3, BytesOfTwo
<1>7. a \in 0..255 /\ b \in 0..255
  BY SMT, <1>3
<1> HIDE DEF a, b
<1>8. DataCrc16Le(data) = <<b, a>>
  <2>1. Reverse(<<a, b>>) = [i \in 1..2 |-> <<a, b>>[2 - i + 1]]
    BY DEF Reverse
  <2> QED
    BY <1>5, <1>6, <2>1
<1>9. <<b, a>> \in Seq(Byte) /\ Len(<<b, a>>) = 2
  BY <1>7 DEF Byte
<1> DEFINE c == m % 256
           d == m \div 256
<1>10. c \in 0..255 /\ d \in 0..255
  <2>1. m = 256 * d + c /\ d \in Int /\ c \in Int /\ 0 <= c /\ c <= 255
    BY <1>4, Halved
  <2> HIDE DEF c, d
  <2> QED
    BY <1>4, <2>1
<1> HIDE DEF c, d
<1>11. <<c, d>> \in Seq(Byte)
  BY <1>10 DEF Byte
<1> QED
  BY <1>1, <1>2, <1>3, <1>8, <1>9, <1>11 DEF a, b, c, d, n, m

\* A header: three bytes and a length
Headed(head, x, y, z, n) ==
    /\ head \in Seq(Byte) /\ Len(head) = 5 /\ head[1] = x /\ head[2] = y /\ head[3] = z
    /\ head[4] = Bytes(n, 2)[1] /\ head[5] = Bytes(n, 2)[2]

\* A header's bytes
LEMMA HeaderBytes ==
    ASSUME NEW x \in Byte, NEW y \in Byte, NEW z \in Byte, NEW n \in Int
    PROVE  Headed(<<x, y, z>> \o Bytes(n, 2), x, y, z, n)
<1> DEFINE a == (n \div 256) % 256
           b == n % 256
<1>1. a \in Byte /\ b \in Byte
  BY SMT DEF Byte
<1>2. Bytes(n, 2) = <<a, b>>
  BY BytesOfTwo
<1> HIDE DEF a, b
<1> DEFINE p == <<x, y, z>>
           q == <<a, b>>
           m == 3
           s == p \o q
<1>3. p \in Seq(Byte) /\ q \in Seq(Byte) /\ m = Len(p) /\ Len(q) = 2
  BY <1>1
<1>4. p[1] = x /\ p[2] = y /\ p[3] = z /\ q[1] = a /\ q[2] = b
  OBVIOUS
<1>5. s = <<x, y, z>> \o Bytes(n, 2)
  BY <1>2
<1> HIDE DEF p, q, m, s
<1>6. s \in Seq(Byte) /\ Follow(s, p, q, m)
  BY <1>3, Joined DEF s
<1>7. /\ Len(s) = 3 + Len(q) /\ \A i \in 1..3 : s[i] = p[i]
      /\ \A i \in 1..Len(q) : s[3 + i] = q[i]
  BY <1>6 DEF Follow, m
<1>8. s[3 + 1] = q[1] /\ s[3 + 2] = q[2]
  BY <1>3, <1>7
<1>9. Len(s) = 5 /\ s[1] = x /\ s[2] = y /\ s[3] = z /\ s[4] = a /\ s[5] = b
  BY <1>3, <1>4, <1>7, <1>8
<1>10. Bytes(n, 2)[1] = a /\ Bytes(n, 2)[2] = b
  BY <1>2
<1> QED
  BY <1>5, <1>6, <1>9, <1>10 DEF Headed

\* What a frame of the device's says is its payload.
LEMMA DeviceFrameParts ==
    ASSUME NEW payload \in Seq(Byte), Len(payload) <= 65535
    PROVE  /\ DeviceFrame(payload) \in Seq(Byte)
           /\ Len(DeviceFrame(payload)) = 10 + Len(payload)
           /\ FramePayload(DeviceFrame(payload)) = payload
<1> DEFINE n == Len(payload)
           head == <<6, 0, 16>> \o Bytes(n, 2)
           check == Crc8(head)
           tail == <<Crc16(payload) % 256, Crc16(payload) \div 256>>
           frame == DeviceFrame(payload)
<1>1. frame = Framed(head, check, payload, tail)
  BY DEF DeviceFrame, Framed, Preamble
<1>2. n \in Int /\ n \in Nat /\ n <= 65535
  OBVIOUS
<1>3. Headed(head, 6, 0, 16, n)
  <2> DEFINE x == 6
             y == 0
             z == 16
  <2>1. x \in Byte /\ y \in Byte /\ z \in Byte
    BY DEF Byte
  <2> HIDE DEF x, y, z, n
  <2>2. Headed(<<x, y, z>> \o Bytes(n, 2), x, y, z, n)
    BY <1>2, <2>1, HeaderBytes
  <2> QED
    BY <2>2 DEF x, y, z
<1>0. head \in Seq(Byte) /\ Len(head) = 5
  BY <1>3 DEF Headed
<1>4. check \in Byte /\ tail \in Seq(Byte) /\ Len(tail) = 2
  BY ChecksAreBytes
<1> HIDE DEF head, check, tail, frame, n
<1>5. Parts(frame, head, check, payload, tail, n)
  <2>1. n = Len(payload)
    BY DEF n
  <2> QED
    BY <1>1, <1>0, <1>4, <2>1, FrameParts
<1>6. frame[6] = Bytes(n, 2)[1] /\ frame[7] = Bytes(n, 2)[2]
  <2>1. frame[2 + 4] = head[4] /\ frame[2 + 5] = head[5]
    BY <1>5 DEF Parts
  <2>2. frame[6] = head[4] /\ frame[7] = head[5]
    BY <2>1
  <2> QED
    BY <1>3, <2>2 DEF Headed
<1>8. frame \in Seq(Byte) /\ Len(frame) = 10 + n /\ SubSeq(frame, 9, 8 + n) = payload
  BY <1>5 DEF Parts
<1>7. FramePayload(frame) = payload
  <2>1. FramePayload(frame) = UpTo(frame, n)
    BY <1>2, <1>6, FramePayloadBack
  <2> QED
    BY <1>8, <2>1 DEF UpTo
<1> QED
  BY <1>7, <1>8 DEF frame, n

\* What a request's frame carries is its payload.
LEMMA RequestFrameParts ==
    ASSUME NEW payload \in Seq(Byte), payload # <<>>, Len(payload) <= 65535
    PROVE  LET frame == EncodeFrame(5, AddrToMac(1), 0, payload)
           IN  frame \in Seq(Byte) /\ SubSeq(frame, 9, Len(frame) - 2) = payload
<1> DEFINE n == Len(payload)
           head == <<5, 16, 0>> \o Bytes(n, 2)
           check == HeaderCrc8(head)
           tail == DataCrc16Le(payload)
           frame == EncodeFrame(5, AddrToMac(1), 0, payload)
<1>1. frame = Framed(head, check, payload, tail)
  <2>1. AddrToMac(1) = 16
    BY DEF AddrToMac
  <2>2. Header(5, AddrToMac(1), 0, n) = head
    BY <2>1 DEF Header
  <2> HIDE DEF head, tail, n
  <2> QED
    BY <2>2 DEF EncodeFrame, Framed, n, tail
<1>2. n \in Int /\ n \in Nat /\ n <= 65535
  OBVIOUS
<1>3. Headed(head, 5, 16, 0, n)
  <2> DEFINE x == 5
             y == 16
             z == 0
  <2>1. x \in Byte /\ y \in Byte /\ z \in Byte
    BY DEF Byte
  <2> HIDE DEF x, y, z, n
  <2>2. Headed(<<x, y, z>> \o Bytes(n, 2), x, y, z, n)
    BY <1>2, <2>1, HeaderBytes
  <2> QED
    BY <2>2 DEF x, y, z
<1>0. head \in Seq(Byte) /\ Len(head) = 5
  BY <1>3 DEF Headed
<1>4. check \in Byte /\ tail \in Seq(Byte) /\ Len(tail) = 2
  BY ChecksAreBytes
<1> HIDE DEF head, check, tail, frame, n
<1>5. Parts(frame, head, check, payload, tail, n)
  <2>1. n = Len(payload)
    BY DEF n
  <2> QED
    BY <1>1, <1>0, <1>4, <2>1, FrameParts
<1>6. frame \in Seq(Byte) /\ Len(frame) = 10 + n /\ SubSeq(frame, 9, 8 + n) = payload
  BY <1>5 DEF Parts
<1>7. Len(frame) - 2 = 8 + n
  BY <1>2, <1>6
<1> QED
  BY <1>6, <1>7 DEF frame

-----------------------------------------------------------------------------
(***************************************************************************)
(* Tagged values: read back as what they are, written as what is asked.    *)
(***************************************************************************)

\* What is before a value's own bytes
Lead(t, n) == <<Tag[t]>> \o Prefix(t, n)

\* One byte and another
LEMMA Pair ==
    ASSUME NEW a, NEW b
    PROVE  <<a>> \o <<b>> = <<a, b>>
<1> DEFINE X == {a, b}
           p == <<a>>
           q == <<b>>
           m == 1
           s == p \o q
<1>1. p \in Seq(X) /\ q \in Seq(X) /\ m = Len(p) /\ Len(q) = 1
  OBVIOUS
<1>2. p[1] = a /\ q[1] = b
  OBVIOUS
<1> HIDE DEF X, p, q, m, s
<1>3. s \in Seq(X) /\ Follow(s, p, q, m)
  BY <1>1, Joined DEF s
<1>4. /\ Len(s) = 1 + Len(q) /\ \A i \in 1..1 : s[i] = p[i]
      /\ \A i \in 1..Len(q) : s[1 + i] = q[i]
  BY <1>3 DEF Follow, m
<1>5. s[1 + 1] = q[1]
  BY <1>1, <1>4
<1>6. Len(s) = 2 /\ s[1] = a /\ s[2] = b
  BY <1>1, <1>2, <1>4, <1>5
<1>7. s = <<a, b>>
  BY <1>3, <1>6
<1> QED
  BY <1>7 DEF s, p, q

\* The bytes before a value: its tag and, of a text or a packed word, its length
LEMMA LeadBytes ==
    ASSUME NEW t \in Types, t # "S16", NEW n \in Byte
    PROVE  /\ t = "STRING" => Lead(t, n) = <<9, n>>
           /\ t = "PACKED" => Lead(t, n) = <<15, 1>>
           /\ t = "U8" => Lead(t, n) = <<1>>
           /\ t = "U16" => Lead(t, n) = <<3>>
           /\ t = "U32" => Lead(t, n) = <<5>>
           /\ t = "S32" => Lead(t, n) = <<6>>
           /\ t = "FLOAT" => Lead(t, n) = <<8>>
<1>1. /\ Tag["U8"] = 1 /\ Tag["U16"] = 3 /\ Tag["U32"] = 5 /\ Tag["S32"] = 6
      /\ Tag["FLOAT"] = 8 /\ Tag["STRING"] = 9 /\ Tag["PACKED"] = 15
  BY DEF Tag
<1>2. \A k : <<k>> \o <<>> = <<k>>
  OBVIOUS
<1>3. \A k, m : <<k>> \o <<m>> = <<k, m>>
  BY Pair
<1>4. CASE t \in {"U8", "U16", "U32", "S32", "FLOAT"}
  <2>1. Lead(t, n) = <<Tag[t]>>
    BY <1>2, <1>4 DEF Lead, Prefix
  <2> QED
    BY <1>1, <1>4, <2>1
<1>5. CASE t = "STRING"
  BY <1>1, <1>3, <1>5 DEF Lead, Prefix
<1>6. CASE t = "PACKED"
  BY <1>1, <1>3, <1>6 DEF Lead, Prefix
<1> QED
  BY <1>4, <1>5, <1>6 DEF Types, Integers8

\* The tags, and the widths they stand for
LEMMA TagsApart ==
    /\ Tag.U8 = 1 /\ Tag.U16 = 3 /\ Tag.U32 = 5 /\ Tag.S32 = 6
    /\ Tag.FLOAT = 8 /\ Tag.STRING = 9 /\ Tag.PACKED = 15
    /\ DOMAIN Width = {1, 3, 5, 6, 8}
    /\ Width[1] = 1 /\ Width[3] = 2 /\ Width[5] = 4 /\ Width[6] = 4 /\ Width[8] = 4
BY DEF Tag, Width

\* A value of one of the fixed widths
LEMMA WideRead ==
    ASSUME NEW tag \in {1, 3, 5, 6, 8}, NEW raw \in Seq(Byte), Len(raw) = Width[tag]
    PROVE  LET buf == <<tag>> \o raw
           IN  /\ buf \in Seq(Byte) /\ Len(buf) = 1 + Len(raw) /\ buf[1] = tag
               /\ Decodable(buf) /\ Body(buf) = raw
<1> DEFINE buf == <<tag>> \o raw
           n == Len(raw)
<1>1. n \in {1, 2, 4}
  BY TagsApart
<1>2. <<tag>> \in Seq(Byte) /\ Len(<<tag>>) = 1
  BY DEF Byte
<1> HIDE DEF Byte
<1>3. buf \in Seq(Byte) /\ Len(buf) = 1 + n /\ buf[1] = tag
  BY <1>2
<1>4. SubSeq(buf, 2, 1 + n) = raw
  <2>1. SubSeq(buf, Len(<<tag>>) + 1, Len(<<tag>>) + Len(raw)) = raw
    BY <1>2, TakenTail
  <2>2. Len(<<tag>>) + 1 = 2 /\ Len(<<tag>>) + Len(raw) = 1 + n
    BY <1>2
  <2> HIDE DEF buf, n
  <2> QED
    BY <2>1, <2>2
<1> HIDE DEF buf
<1>5. Width[buf[1]] = n /\ buf[1] \in DOMAIN Width
  BY <1>3, TagsApart
<1> HIDE DEF n
<1>6. Body(buf) = raw
  BY <1>4, <1>5 DEF Body
<1>7. Decodable(buf)
  <2>1. Len(buf) > n /\ buf # <<>>
    BY <1>1, <1>3
  <2> QED
    BY <1>5, <2>1 DEF Decodable
<1> QED
  BY <1>3, <1>6, <1>7 DEF buf, n

\* A value that says how long it is
LEMMA LongRead ==
    ASSUME NEW tag \in {9, 15}, NEW k \in Byte, NEW raw \in Seq(Byte),
           Len(raw) = (IF tag = 15 THEN 2 ELSE 1) * k
    PROVE  LET buf == <<tag, k>> \o raw
           IN  /\ buf \in Seq(Byte) /\ Len(buf) = 2 + Len(raw) /\ buf[1] = tag
               /\ Decodable(buf) /\ Body(buf) = raw
<1> DEFINE lead == <<tag, k>>
           buf == lead \o raw
           n == Len(raw)
<1>1. n \in Nat
  OBVIOUS
<1>2. lead \in Seq(Byte) /\ Len(lead) = 2 /\ lead[1] = tag /\ lead[2] = k
  BY DEF Byte
<1> HIDE DEF lead
<1>0. tag \in Nat /\ (tag = 9 \/ tag = 15)
  OBVIOUS
<1> HIDE DEF Byte
<1>3. buf \in Seq(Byte) /\ Len(buf) = 2 + n /\ buf[1] = tag /\ buf[2] = k
  <2> DEFINE m == 2
  <2>1. m = Len(lead)
    BY <1>2
  <2> HIDE DEF m, buf, n
  <2>2. buf \in Seq(Byte) /\ Follow(buf, lead, raw, m)
    BY <1>2, <2>1, Joined DEF buf
  <2>3. Len(buf) = 2 + Len(raw) /\ \A i \in 1..2 : buf[i] = lead[i]
    BY <2>2 DEF Follow, m
  <2>4. buf[1] = lead[1] /\ buf[2] = lead[2]
    BY <2>3
  <2> QED
    BY <1>2, <2>2, <2>3, <2>4 DEF n
<1>4. SubSeq(buf, 3, 2 + n) = raw
  <2>1. SubSeq(buf, Len(lead) + 1, Len(lead) + Len(raw)) = raw
    BY <1>2, TakenTail
  <2>2. Len(lead) + 1 = 3 /\ Len(lead) + Len(raw) = 2 + n
    BY <1>2
  <2> HIDE DEF buf, n
  <2> QED
    BY <2>1, <2>2
<1>5. n = (IF tag = 15 THEN 2 ELSE 1) * k
  OBVIOUS
<1> HIDE DEF buf, n
<1>6. buf[1] \notin DOMAIN Width /\ (IF buf[1] = Tag.PACKED THEN 2 ELSE 1) * buf[2] = n
  BY <1>0, <1>3, <1>5, TagsApart
<1>7. Body(buf) = raw
  BY <1>4, <1>6 DEF Body
<1>8. Decodable(buf)
  <2>1. Len(buf) >= 2 /\ Len(buf) >= 2 + n /\ buf # <<>>
    BY <1>1, <1>3
  <2>2. buf[1] \in {Tag.STRING, Tag.PACKED}
    BY <1>0, <1>3, TagsApart
  <2> QED
    BY <1>6, <2>1, <2>2 DEF Decodable
<1> QED
  BY <1>3, <1>7, <1>8 DEF buf, n, lead

\* The bytes of a number are as many as are asked for.
LEMMA NumberBytes ==
    ASSUME NEW n \in Int
    PROVE  /\ Bytes(n, 1) \in Seq(Byte) /\ Len(Bytes(n, 1)) = 1
           /\ Bytes(n, 2) \in Seq(Byte) /\ Len(Bytes(n, 2)) = 2
           /\ Bytes(n, 4) \in Seq(Byte) /\ Len(Bytes(n, 4)) = 4
<1>1. n % 256 \in Byte
  BY SMT DEF Byte
<1>2. (n \div 256) % 256 \in Byte
  BY SMT DEF Byte
<1>3. Bytes(n, 1) = <<n % 256>>
  BY BytesOfOne
<1>4. Bytes(n, 2) = <<(n \div 256) % 256, n % 256>>
  BY BytesOfTwo
<1> DEFINE f == Bytes(n, 4)
           k == 4
           X == 0..255
<1>5. f = [i \in 1..k |-> f[i]] /\ Len(f) = k /\ \A i \in 1..k : f[i] \in X
  BY FourAreBytes
<1>6. k \in Nat
  OBVIOUS
<1> HIDE DEF f, k, X
<1>7. f \in [1..k -> X]
  BY <1>5
<1>8. f \in Seq(X)
  BY <1>6, <1>7, FunctionIsSeq
<1>9. Bytes(n, 4) \in Seq(Byte) /\ Len(Bytes(n, 4)) = 4
  BY <1>5, <1>8 DEF f, k, X, Byte
<1> DEFINE a == n % 256
           b == (n \div 256) % 256
<1>10. a \in Byte /\ b \in Byte /\ Bytes(n, 1) = <<a>> /\ Bytes(n, 2) = <<b, a>>
  BY <1>1, <1>2, <1>3, <1>4
<1> HIDE DEF a, b
<1>11. <<a>> \in Seq(Byte) /\ Len(<<a>>) = 1 /\ <<b, a>> \in Seq(Byte) /\ Len(<<b, a>>) = 2
  BY <1>10
<1> QED
  BY <1>9, <1>10, <1>11

\* A float read back from its bytes
LEMMA FloatBack ==
    ASSUME NEW v, NEW room, Holds("FLOAT", v, room)
    PROVE  FloatOf(Bytes(v.num, 4)) = v.num
<1> DEFINE x == v.num
<1>1. x \in Int /\ -2147483647 - 1 <= x /\ x <= 2147483647
  BY SMT, HeldFloat
<1> HIDE DEF x
<1>2. FloatOf(Bytes(x, 4)) = x
  BY SMT, <1>1, FourBytes DEF FloatOf
<1> QED
  BY SMT, <1>2 DEF x

\* The bytes a value has on the wire, and what they say
LEMMA RawBytes ==
    ASSUME NEW t \in Types, t # "S16", NEW v, Holds(t, v, 255)
    PROVE  LET raw == Raw(t, v)
           IN  /\ raw \in Seq(Byte) /\ Len(raw) \in Byte
               /\ t # "STRING" => v = Num(v.num) /\ ~IsText(v) /\ v.num \in Int
               /\ t \in {"U16", "PACKED"} => Len(raw) = 2
               /\ t \in {"U32", "S32", "FLOAT"} => Len(raw) = 4
               /\ t = "U8" => Len(raw) = 1
               /\ t = "STRING" => v = Text(raw) /\ IsText(v)
               /\ t \in {"U8", "U16", "PACKED", "U32"} => Num(Unsigned(raw) * One) = v
               /\ t = "S32" => Num(Twos(raw) * One) = v
               /\ t = "FLOAT" => Num(FloatOf(raw)) = v
<1> DEFINE n == v.num \div One
           raw == Raw(t, v)
<1>0. 1 \in Byte /\ 2 \in Byte /\ 4 \in Byte
  BY DEF Byte
<1>1. CASE t \in {"U8", "U16", "PACKED", "U32"}
  <2>1. v = Num(n * One) /\ ~IsText(v) /\ n \in Int /\ n \in Span(t)
    BY <1>1, HeldInteger DEF Integers8
  <2>2. /\ t = "U8" => raw = Bytes(n, 1) /\ 0 <= n /\ n <= 255
        /\ t \in {"U16", "PACKED"} => raw = Bytes(n, 2) /\ 0 <= n /\ n <= 65535
        /\ t = "U32" => raw = Bytes(n, 4) /\ 0 <= n /\ n <= 2147483647
    BY <1>1, <2>1, TypeSizes, Spans, SMT DEF Raw
  <2>3. v.num = n * One /\ n * One \in Int
    <3> HIDE DEF n
    <3>1. Num(n * One).num = n * One /\ n * One \in Int
      BY <2>1, NumIsNoText DEF One
    <3> QED
      BY <2>1, <3>1
  <2> HIDE DEF n, raw
  <2>4. Unsigned(raw) = n
    <3>1. CASE t = "U8"
      <4>1. raw = <<n % 256>> /\ n % 256 = n
        BY <2>1, <2>2, <3>1, BytesOfOne, SMT
      <4> QED
        BY <2>1, <4>1, UnsignedOfOne
    <3>2. CASE t \in {"U16", "PACKED"}
      BY SMT, <2>1, <2>2, <3>2, TwoBytes
    <3>3. CASE t = "U32"
      BY SMT, <2>1, <2>2, <3>3, FourBytes
    <3> QED
      BY <1>1, <3>1, <3>2, <3>3
  <2>5. raw \in Seq(Byte) /\ Len(raw) = CASE t = "U8" -> 1 [] t = "U32" -> 4 [] OTHER -> 2
    BY <1>1, <2>1, <2>2, NumberBytes
  <2>6. /\ Len(raw) \in Byte /\ (t \in {"U16", "PACKED"} => Len(raw) = 2)
        /\ (t = "U8" => Len(raw) = 1) /\ (t = "U32" => Len(raw) = 4)
    BY <1>0, <1>1, <2>5
  <2>7. Num(Unsigned(raw) * One) = v
    BY <2>1, <2>4
  <2> QED
    BY <1>1, <2>1, <2>3, <2>5, <2>6, <2>7 DEF raw
<1>2. CASE t = "S32"
  <2>1. v = Num(n * One) /\ ~IsText(v) /\ n \in Int /\ n \in Span(t)
    BY <1>2, HeldInteger DEF Integers8
  <2>2. raw = Bytes(n, 4) /\ -2147483647 - 1 <= n /\ n <= 2147483647
    BY <1>2, <2>1, TypeSizes, Spans, SMT DEF Raw
  <2>3. v.num = n * One /\ n * One \in Int
    <3> HIDE DEF n
    <3>1. Num(n * One).num = n * One /\ n * One \in Int
      BY <2>1, NumIsNoText DEF One
    <3> QED
      BY <2>1, <3>1
  <2> HIDE DEF n, raw
  <2>4. Twos(raw) = n
    BY SMT, <2>1, <2>2, FourBytes
  <2>5. raw \in Seq(Byte) /\ Len(raw) = 4
    BY <2>1, <2>2, NumberBytes
  <2> QED
    BY <1>0, <1>2, <2>1, <2>3, <2>4, <2>5 DEF raw
<1>3. CASE t = "FLOAT"
  <2> DEFINE x == v.num
  <2>1. v = Num(x) /\ ~IsText(v) /\ x \in Int
    BY SMT, <1>3, HeldFloat
  <2>2. raw = Bytes(x, 4)
    BY Zenon, <1>3 DEF Raw, FloatBytes
  <2>3. FloatOf(Bytes(x, 4)) = x
    BY SMT, <1>3, FloatBack
  <2> HIDE DEF x, raw
  <2>4. raw \in Seq(Byte) /\ Len(raw) = 4
    BY <2>1, <2>2, NumberBytes
  <2>5. Num(FloatOf(raw)) = v
    BY <2>1, <2>2, <2>3
  <2> QED
    BY <1>0, <1>3, <2>1, <2>4, <2>5 DEF raw, x
<1>4. CASE t = "STRING"
  <2>1. IsText(v) /\ v = Text(v.text) /\ v.text \in Seq(0..127) /\ Len(v.text) <= 255
    BY <1>4, HeldText
  <2>2. raw = v.text
    BY <1>4 DEF Raw
  <2> HIDE DEF raw
  <2>3. raw \in Seq(Byte)
    <3> DEFINE s == v.text
               X == 0..127
    <3>1. s \in Seq(X) /\ \A x \in X : x \in Byte
      BY <2>1 DEF Byte
    <3> HIDE DEF s, X
    <3>2. s \in Seq(Byte)
      BY <3>1
    <3> QED
      BY <2>2, <3>2 DEF s
  <2>4. Len(raw) \in Byte
    <3> DEFINE len == Len(raw)
    <3>1. len \in Nat /\ len <= 255
      BY <2>1, <2>2, <2>3
    <3> HIDE DEF len
    <3>2. len \in Byte
      BY <3>1 DEF Byte
    <3> QED
      BY <3>2 DEF len
  <2> QED
    BY <1>4, <2>1, <2>2, <2>3, <2>4 DEF raw
<1> QED
  BY <1>1, <1>2, <1>3, <1>4 DEF Types, Integers8

\* The length of two sequences joined
LEMMA JoinedLength ==
    ASSUME NEW X, NEW a \in Seq(X), NEW b \in Seq(X)
    PROVE  Len(a \o b) = Len(a) + Len(b)
OBVIOUS

\* What is behind one byte, and behind two
LEMMA TailOfOne ==
    ASSUME NEW a \in Byte, NEW b \in Seq(Byte)
    PROVE  SubSeq(<<a>> \o b, 2, Len(<<a>> \o b)) = b
<1> DEFINE p == <<a>>
<1>1. p \in Seq(Byte) /\ Len(p) = 1
  OBVIOUS
<1> HIDE DEF p
<1>2. SubSeq(p \o b, Len(p) + 1, Len(p) + Len(b)) = b
  BY <1>1, TakenTail
<1>5. Len(p) + 1 = 2
  BY <1>1
<1>6. Len(p \o b) = Len(p) + Len(b)
  BY <1>1, JoinedLength
<1>3. Len(p \o b) = Len(p) + Len(b) /\ Len(p) + 1 = 2
  BY <1>5, <1>6
<1>4. SubSeq(p \o b, 2, Len(p \o b)) = b
  BY <1>2, <1>3
<1> QED
  BY <1>4 DEF p

\* What is behind two bytes
LEMMA TailOfTwo ==
    ASSUME NEW a \in Byte, NEW c \in Byte, NEW b \in Seq(Byte)
    PROVE  SubSeq(<<a, c>> \o b, 3, Len(<<a, c>> \o b)) = b
<1> DEFINE p == <<a, c>>
<1>1. p \in Seq(Byte) /\ Len(p) = 2
  OBVIOUS
<1> HIDE DEF p
<1>2. SubSeq(p \o b, Len(p) + 1, Len(p) + Len(b)) = b
  BY <1>1, TakenTail
<1>5. Len(p) + 1 = 3
  BY <1>1
<1>6. Len(p \o b) = Len(p) + Len(b)
  BY <1>1, JoinedLength
<1>3. Len(p \o b) = Len(p) + Len(b) /\ Len(p) + 1 = 3
  BY <1>5, <1>6
<1>4. SubSeq(p \o b, 3, Len(p \o b)) = b
  BY <1>2, <1>3
<1> QED
  BY <1>4 DEF p

\* A tagged value is read back as the value, with and without what fills a text up.
THEOREM TagRead ==
    ASSUME NEW t \in Types, t # "S16", NEW v, Holds(t, v, 255)
    PROVE  LET buf == Tagged(t, v)
           IN  /\ buf \in Seq(Byte) /\ Len(buf) >= 1 /\ Len(buf) <= 257
               /\ Decodable(buf) /\ DecodeValue(buf) = Plain(v) /\ Untagged(t, buf) = v
<1> DEFINE raw == Raw(t, v)
           n == Len(raw)
           lead == Lead(t, n)
           tag == Tag[t]
           buf == lead \o raw
<1>1. /\ raw \in Seq(Byte) /\ n \in Byte
      /\ t # "STRING" => v = Num(v.num) /\ ~IsText(v) /\ v.num \in Int
      /\ t \in {"U16", "PACKED"} => n = 2
      /\ t \in {"U32", "S32", "FLOAT"} => n = 4
      /\ t = "U8" => n = 1
      /\ t = "STRING" => v = Text(raw) /\ IsText(v)
      /\ t \in {"U8", "U16", "PACKED", "U32"} => Num(Unsigned(raw) * One) = v
      /\ t = "S32" => Num(Twos(raw) * One) = v
      /\ t = "FLOAT" => Num(FloatOf(raw)) = v
  BY RawBytes
<1>2. Tagged(t, v) = buf
  BY DEF Tagged, Lead
<1> HIDE DEF raw
<1>3. n \in Nat /\ n <= 255
  <2> HIDE DEF n
  <2> QED
    BY <1>1 DEF Byte
<1>4. /\ t = "STRING" => lead = <<9, n>>
      /\ t = "PACKED" => lead = <<15, 1>>
      /\ t = "U8" => lead = <<1>>
      /\ t = "U16" => lead = <<3>>
      /\ t = "U32" => lead = <<5>>
      /\ t = "S32" => lead = <<6>>
      /\ t = "FLOAT" => lead = <<8>>
  BY <1>1, LeadBytes
<1>5. /\ t = "STRING" => tag = 9
      /\ t = "PACKED" => tag = 15
      /\ t = "U8" => tag = 1
      /\ t = "U16" => tag = 3
      /\ t = "U32" => tag = 5
      /\ t = "S32" => tag = 6
      /\ t = "FLOAT" => tag = 8
  BY DEF Tag
<1> HIDE DEF tag, lead, n
<1>6. t \in {"STRING", "PACKED", "U8", "U16", "U32", "S32", "FLOAT"}
  BY DEF Types, Integers8
<1>7. CASE t \in {"STRING", "PACKED"}
  <2> DEFINE k == IF t = "STRING" THEN n ELSE 1
  <2>0. tag \in Byte
    BY <1>5, <1>7 DEF Byte
  <2>1. lead = <<tag, k>> /\ tag \in {9, 15}
    BY <1>4, <1>5, <1>7
  <2>2. k \in Byte /\ n = (IF tag = 15 THEN 2 ELSE 1) * k
    <3>1. 1 \in Byte
      BY DEF Byte
    <3>2. CASE t = "STRING"
      <4>1. k = n /\ tag = 9 /\ n \in Int
        BY <1>3, <1>5, <3>2
      <4> QED
        BY <1>1, <4>1
    <3>3. CASE t = "PACKED"
      <4>1. k = 1 /\ tag = 15 /\ n = 2
        BY <1>1, <1>5, <3>3
      <4> QED
        BY <3>1, <4>1
    <3> QED
      BY <1>7, <3>2, <3>3
  <2>3. t = "PACKED" => tag # 9 /\ tag # 8 /\ tag # 6
    BY <1>5
  <2> HIDE DEF k
  <2>4. /\ buf \in Seq(Byte) /\ Len(buf) = 2 + n /\ buf[1] = tag
        /\ Decodable(buf) /\ Body(buf) = raw
    BY <1>1, <2>1, <2>2, LongRead DEF n
  <2>5. DecodeValue(buf) = Plain(v)
    <3> HIDE DEF buf
    <3>1. DecodeValue(buf) = CASE tag = 9 -> Text(Stripped(raw))
                               [] tag = 8 -> Num(FloatOf(raw))
                               [] tag = 6 -> Num(Twos(raw) * One)
                               [] OTHER -> Num(Unsigned(raw) * One)
      BY <2>4, TagsApart DEF DecodeValue
    <3>2. CASE t = "STRING"
      <4>1. DecodeValue(buf) = Text(Stripped(raw))
        BY <1>5, <3>1, <3>2
      <4> QED
        BY <1>1, <3>2, <4>1, TextIsText DEF Plain
    <3>3. CASE t = "PACKED"
      <4>1. DecodeValue(buf) = Num(Unsigned(raw) * One)
        BY <2>3, <3>1, <3>3
      <4> QED
        BY <1>1, <3>3, <4>1 DEF Plain
    <3> QED
      BY <1>7, <3>2, <3>3
  <2>6. SubSeq(buf, 3, Len(buf)) = raw
    BY <2>0, <2>1, <2>2, <1>1, TailOfTwo
  <2>7. Untagged(t, buf) = v
    <3>1. Len(Prefix(t, 0)) = 1
      BY <1>7 DEF Prefix
    <3> DEFINE j == Len(Prefix(t, 0))
    <3>2. 2 + j = 3
      <4>1. j = 1
        BY <3>1
      <4> HIDE DEF j
      <4> QED
        BY <4>1
    <3> HIDE DEF buf
    <3>3. Untagged(t, buf) = FromRaw(t, raw)
      BY <2>6, <3>2 DEF Untagged
    <3> QED
      BY <1>1, <1>7, <3>3 DEF FromRaw
  <2> HIDE DEF buf
  <2>8. Len(buf) >= 1 /\ Len(buf) <= 257
    BY <1>3, <2>4
  <2> QED
    BY <1>2, <2>4, <2>5, <2>7, <2>8
<1>8. CASE t \in {"U8", "U16", "U32", "S32", "FLOAT"}
  <2>0. tag \in Byte
    BY <1>5, <1>8 DEF Byte
  <2>1. lead = <<tag>> /\ tag \in {1, 3, 5, 6, 8}
    BY <1>4, <1>5, <1>8
  <2>2. n = Width[tag]
    BY <1>1, <1>5, <1>8, TagsApart
  <2>3. /\ t \in {"U8", "U16", "U32"} => tag # 9 /\ tag # 8 /\ tag # 6
        /\ t = "S32" => tag = 6
        /\ t = "FLOAT" => tag = 8
    BY <1>5
  <2>4. /\ buf \in Seq(Byte) /\ Len(buf) = 1 + n /\ buf[1] = tag
        /\ Decodable(buf) /\ Body(buf) = raw
    BY <1>1, <2>1, <2>2, WideRead DEF n
  <2>5. DecodeValue(buf) = Plain(v)
    <3> HIDE DEF buf
    <3>1. DecodeValue(buf) = CASE tag = 9 -> Text(Stripped(raw))
                               [] tag = 8 -> Num(FloatOf(raw))
                               [] tag = 6 -> Num(Twos(raw) * One)
                               [] OTHER -> Num(Unsigned(raw) * One)
      BY <2>4, TagsApart DEF DecodeValue
    <3>2. CASE t = "S32"
      <4>1. DecodeValue(buf) = Num(Twos(raw) * One)
        BY <2>3, <3>1, <3>2
      <4> QED
        BY <1>1, <3>2, <4>1 DEF Plain
    <3>3. CASE t = "FLOAT"
      <4>1. DecodeValue(buf) = Num(FloatOf(raw))
        BY <2>3, <3>1, <3>3
      <4> QED
        BY <1>1, <3>3, <4>1 DEF Plain
    <3>4. CASE t \in {"U8", "U16", "U32"}
      <4>1. DecodeValue(buf) = Num(Unsigned(raw) * One)
        BY <2>3, <3>1, <3>4
      <4> QED
        BY <1>1, <3>4, <4>1 DEF Plain
    <3> QED
      BY <1>8, <3>2, <3>3, <3>4
  <2>6. SubSeq(buf, 2, Len(buf)) = raw
    BY <2>0, <2>1, <1>1, TailOfOne
  <2>7. Untagged(t, buf) = v
    <3>1. Len(Prefix(t, 0)) = 0
      BY <1>8 DEF Prefix
    <3> DEFINE j == Len(Prefix(t, 0))
    <3>2. 2 + j = 2
      <4>1. j = 0
        BY <3>1
      <4> HIDE DEF j
      <4> QED
        BY <4>1
    <3> HIDE DEF buf
    <3>3. Untagged(t, buf) = FromRaw(t, raw)
      BY <2>6, <3>2 DEF Untagged
    <3> QED
      BY <1>1, <1>8, <3>3 DEF FromRaw
  <2> HIDE DEF buf
  <2>8. Len(buf) >= 1 /\ Len(buf) <= 257
    BY <1>3, <2>4
  <2> QED
    BY <1>2, <2>4, <2>5, <2>7, <2>8
<1> QED
  BY <1>6, <1>7, <1>8

\* What a value is on Standard Bus: a number is cut off to a whole one.
Sent(t, v) == IF t \in {"STRING", "FLOAT"} THEN v ELSE Num(Trunc(v) * One)

\* What fits a 16-bit type is a word.
LEMMA FitsWord ==
    ASSUME NEW t \in {"U16", "PACKED"}, NEW n \in Int, Fits(t, n)
    PROVE  n \in Int /\ 0 <= n /\ n <= 65535
BY SMT DEF Fits

\* An integer the encoder accepts can be held.
LEMMA WholeSent ==
    ASSUME NEW t \in Integers8, t # "S16", NEW v, Askable(v), ~IsText(v), Fits(t, Trunc(v))
    PROVE  Trunc(v) \in Int /\ Trunc(v) \in Span(t)
<1> DEFINE n == Trunc(v)
<1>1. n \in Int /\ n \in Int32
  <2>1. v.num \in Int /\ -2147483647 - 1 <= v.num /\ v.num <= 2147483647
    BY SMT DEF Askable
  <2>2. n \in Int /\ -2147483647 - 1 <= n /\ n <= 2147483647
    BY SMT, <2>1, TruncBounds
  <2> HIDE DEF n
  <2> QED
    BY SMT, <2>2 DEF Int32
<1> HIDE DEF n
<1>2. Fits(t, n)
  BY DEF n
<1>3. CASE t = "U8"
  <2>1. n \in 0..255
    BY <1>2, <1>3 DEF Fits
  <2> QED
    BY <1>1, <1>3, <2>1 DEF Span, n
<1>4. CASE t \in {"U16", "PACKED"}
  <2>1. n \in Int /\ 0 <= n /\ n <= 65535
    BY <1>1, <1>2, <1>4, FitsWord
  <2>2. n \in Span("U16") /\ n \in Span("PACKED")
    BY SMT, <2>1, Spans
  <2> QED
    BY <1>1, <1>4, <2>2 DEF n
<1>5. CASE t = "U32"
  <2>1. n >= 0
    BY <1>2, <1>5 DEF Fits
  <2> QED
    BY <1>1, <1>5, <2>1 DEF Span, n
<1>6. CASE t = "S32"
  BY <1>1, <1>6 DEF Span, n
<1> QED
  BY <1>3, <1>4, <1>5, <1>6 DEF Integers8

\* What goes out is what the device would say of it; and it is what was asked for.
THEOREM TagWritten ==
    ASSUME NEW t \in Types, NEW v, Askable(v), Encodable(t, v)
    PROVE  /\ t # "S16" /\ Holds(t, Sent(t, v), 255)
           /\ EncodeValue(t, v) = Tagged(t, Sent(t, v))
           /\ KeptAt(t, v, MeantAt(t, Sent(t, v), One), One)
<1> DEFINE raw == Raw(t, Sent(t, v))
<1>1. CASE t = "STRING"
  <2> DEFINE s == v.text
  <2>1. IsText(v) /\ Ascii(s) /\ Len(s) <= 255
    BY <1>1 DEF Encodable
  <2>2. v = Text(s) /\ s \in Seq(0..255)
    BY <2>1 DEF Askable
  <2>3. Sent(t, v) = v
    BY <1>1 DEF Sent
  <2> HIDE DEF s
  <2>4. Holds("STRING", Text(s), 255)
    BY <2>1, <2>2, AsciiBytes, TextHeld
  <2>5. raw = s /\ EncodeValue(t, v) = <<Tag.STRING, Len(s)>> \o s
    BY <1>1, <2>3 DEF Raw, EncodeValue, s
  <2>6. Tagged(t, v) = Lead(t, Len(s)) \o s
    BY <1>1, <2>3, <2>5 DEF Tagged, Lead
  <2>7. Len(s) \in Byte
    <3> DEFINE n == Len(s)
    <3>1. n \in Nat /\ n <= 255
      BY <2>1, <2>2
    <3> HIDE DEF n
    <3>2. n \in Byte
      BY <3>1 DEF Byte
    <3> QED
      BY <3>2 DEF n
  <2>8. Lead(t, Len(s)) = <<Tag.STRING, Len(s)>>
    BY <1>1, <2>7, LeadBytes, TagsApart
  <2>9. KeptAt(t, v, MeantAt(t, v, One), One)
    BY <2>1 DEF KeptAt, MeantAt
  <2> QED
    BY <1>1, <2>2, <2>3, <2>4, <2>5, <2>6, <2>8, <2>9
<1>2. CASE t = "FLOAT"
  <2>1. ~IsText(v) /\ Sent(t, v) = v
    BY <1>2 DEF Encodable, Sent
  <2>2. v = Num(v.num) /\ v.num \in Int
    BY <2>1 DEF Askable
  <2>3. Holds("FLOAT", v, 255)
    <3>1. v.num \in Int32
      BY SMT, <2>1 DEF Askable, Int32
    <3> QED
      BY <2>1, <2>2, <3>1 DEF Holds
  <2>4. raw = FloatBytes(v.num)
    BY <1>2, <2>1 DEF Raw
  <2>5. Len(raw) \in Byte
    BY <1>2, <2>1, <2>3, RawBytes
  <2>6. EncodeValue(t, v) = <<Tag.FLOAT>> \o raw
    BY <1>2, <2>4 DEF EncodeValue
  <2>7. Tagged(t, v) = Lead(t, Len(raw)) \o raw
    BY <2>1 DEF Tagged, Lead
  <2> HIDE DEF raw
  <2>8. Lead(t, Len(raw)) = <<Tag.FLOAT>>
    BY <1>2, <2>5, LeadBytes, TagsApart
  <2>9. KeptAt(t, v, MeantAt(t, v, One), One)
    BY <1>2, <2>1, <2>2 DEF KeptAt, MeantAt
  <2> QED
    BY <1>2, <2>1, <2>3, <2>6, <2>7, <2>8, <2>9
<1>3. CASE t \in Integers8
  <2> DEFINE n == Trunc(v)
             x == Num(n * One)
  <2>1. t # "STRING" /\ t # "FLOAT"
    BY <1>3 DEF Integers8
  <2>2. ~IsText(v) /\ Sent(t, v) = x /\ Fits(t, n) /\ t # "S16"
    BY <2>1 DEF Encodable, Sent
  <2>3. n \in Int /\ n \in Span(t)
    BY <1>3, <2>2, WholeSent
  <2>4. Holds(t, x, 255)
    BY <1>3, <2>3, IntegerHeld
  <2>5. x.num \div One = n /\ ~IsText(x) /\ ScaledDown(v, One) = v
    BY <2>3, NumIsNoText, TruncWhole DEF ScaledDown
  <2>6. raw = Bytes(n, Octets[t])
    BY <2>1, <2>2, <2>5 DEF Raw
  <2>7. Len(raw) \in Byte
    BY <2>2, <2>4, RawBytes
  <2>8. Tagged(t, x) = Lead(t, Len(raw)) \o raw
    BY <2>2 DEF Tagged, Lead
  <2>9. KeptAt(t, v, MeantAt(t, x, One), One)
    <3>1. MeantAt(t, x, One) = Num(Trunc(ScaledDown(v, One)) * One)
      BY <2>1, <2>5 DEF MeantAt
    <3>2. One \in Int /\ 1 <= One
      BY DEF One
    <3> HIDE DEF n, x
    <3> QED
      BY <2>1, <2>2, <3>1, <3>2, CountKept
  <2> HIDE DEF raw, n, x
  <2>10. EncodeValue(t, v) = Lead(t, Len(raw)) \o raw
    <3>1. CASE t = "U8"
      <4>1. raw = Bytes(n, 1)
        BY <2>6, <3>1 DEF Octets
      <4>2. n \in 0..255
        BY <2>3, <3>1 DEF Span
      <4>3. n % 256 = n
        BY <2>3, <4>2
      <4>4. raw = <<n>>
        BY <2>3, <4>1, <4>3, BytesOfOne
      <4>5. Lead(t, Len(raw)) = <<Tag.U8>>
        BY <2>7, <3>1, LeadBytes, TagsApart
      <4>6. <<Tag.U8>> \o <<n>> = <<Tag.U8, n>>
        BY Pair
      <4>7. EncodeValue(t, v) = <<Tag.U8, n>>
        BY <3>1 DEF EncodeValue, n
      <4> QED
        BY <4>4, <4>5, <4>6, <4>7
    <3>2. CASE t = "U16"
      <4>1. raw = Bytes(n, 2)
        BY <2>6, <3>2 DEF Octets
      <4>2. Lead(t, Len(raw)) = <<Tag.U16>>
        BY <2>7, <3>2, LeadBytes, TagsApart
      <4>3. EncodeValue(t, v) = <<Tag.U16>> \o Bytes(n, 2)
        BY <3>2 DEF EncodeValue, n
      <4> QED
        BY <4>1, <4>2, <4>3
    <3>3. CASE t = "PACKED"
      <4>1. raw = Bytes(n, 2)
        BY <2>6, <3>3 DEF Octets
      <4>2. Lead(t, Len(raw)) = <<Tag.PACKED, 1>>
        BY <2>7, <3>3, LeadBytes, TagsApart
      <4>3. EncodeValue(t, v) = <<Tag.PACKED, 1>> \o Bytes(n, 2)
        BY <3>3 DEF EncodeValue, n
      <4> QED
        BY <4>1, <4>2, <4>3
    <3>4. CASE t \in {"U32", "S32"}
      <4>1. raw = Bytes(n, 4)
        BY <2>6, <3>4 DEF Octets
      <4>2. Lead(t, Len(raw)) = <<Tag[t]>>
        BY <2>7, <3>4, LeadBytes, TagsApart
      <4>3. EncodeValue(t, v) = <<Tag[t]>> \o Bytes(n, 4)
        BY <3>4 DEF EncodeValue, n
      <4> QED
        BY <4>1, <4>2, <4>3
    <3> QED
      BY <1>3, <2>2, <3>1, <3>2, <3>3, <3>4 DEF Integers8
  <2> QED
    BY <2>2, <2>4, <2>8, <2>9, <2>10
<1> QED
  BY <1>1, <1>2, <1>3 DEF Types

-----------------------------------------------------------------------------
(***************************************************************************)
(* Payloads: what is asked for, what is answered.                          *)
(***************************************************************************)

\* Three elements taken out of a sequence
LEMMA TakenThree ==
    ASSUME NEW s, NEW m \in Int, NEW k \in Int, NEW n \in Int, k = m + 1, n = m + 2
    PROVE  SubSeq(s, m, n) = <<s[m], s[k], s[n]>>
<1> DEFINE X == {s[m], s[k], s[n]}
           t == SubSeq(s, m, n)
<1>1. \A i \in m..n : s[i] \in X
  <2>1. \A i \in m..n : i = m \/ i = k \/ i = n
    OBVIOUS
  <2> QED
    BY <2>1
<1> HIDE DEF X
<1>2. /\ t \in Seq(X) /\ Len(t) = IF m <= n THEN n - m + 1 ELSE 0
      /\ \A i \in 1..n - m + 1 : t[i] = s[m + i - 1]
  BY <1>1, SubSeqProperties
<1>3. /\ 1 \in 1..n - m + 1 /\ 2 \in 1..n - m + 1 /\ 3 \in 1..n - m + 1
      /\ m + 1 - 1 = m /\ m + 2 - 1 = k /\ m + 3 - 1 = n
  OBVIOUS
<1>4. t \in Seq(X) /\ Len(t) = 3 /\ t[1] = s[m] /\ t[2] = s[k] /\ t[3] = s[n]
  BY <1>2, <1>3
<1> HIDE DEF t
<1>5. t = <<s[m], s[k], s[n]>>
  BY <1>4
<1> QED
  BY <1>5 DEF t

\* What is behind a head of k bytes
Behind(s, lead, tail, k) ==
    /\ s \in Seq(Byte) /\ Follow(s, lead, tail, k) /\ SubSeq(s, k + 1, Len(s)) = tail

\* What was put behind a sequence is behind it.
LEMMA TailBehind ==
    ASSUME NEW lead \in Seq(Byte), NEW tail \in Seq(Byte), NEW k, k = Len(lead)
    PROVE  Behind(lead \o tail, lead, tail, k)
<1> DEFINE s == lead \o tail
<1>1. SubSeq(s, Len(lead) + 1, Len(lead) + Len(tail)) = tail
  BY TakenTail
<1>2. s \in Seq(Byte) /\ Follow(s, lead, tail, k)
  BY Joined
<1>3. Len(s) = Len(lead) + Len(tail)
  BY JoinedLength
<1> HIDE DEF s
<1> QED
  BY <1>1, <1>2, <1>3 DEF Behind, s

\* A payload: its first bytes, the parameter and the instance, and what is behind them
ReadHead(p, a, b, c) ==
    /\ p[2] = 3 /\ p[3] = 1 /\ p[4] = a /\ p[5] = b /\ p[6] = c
    /\ SubSeq(p, 4, 6) = <<a, b, c>>
WriteHead(p, a, b, c) ==
    /\ p[2] = 4 /\ p[3] = a /\ p[4] = b /\ p[5] = c
    /\ SubSeq(p, 3, 5) = <<a, b, c>>

\* The three bytes a read selects by
LEMMA ReadHeadTaken ==
    ASSUME NEW p, NEW a, NEW b, NEW c, p[2] = 3, p[3] = 1, p[4] = a, p[5] = b, p[6] = c
    PROVE  ReadHead(p, a, b, c)
<1> DEFINE m == 4
           k == 5
           n == 6
<1>1. m \in Int /\ k \in Int /\ n \in Int /\ k = m + 1 /\ n = m + 2
  OBVIOUS
<1> HIDE DEF m, k, n
<1>2. SubSeq(p, m, n) = <<p[m], p[k], p[n]>>
  BY <1>1, TakenThree
<1> QED
  BY <1>2 DEF ReadHead, m, k, n

\* The three bytes a write selects by
LEMMA WriteHeadTaken ==
    ASSUME NEW p, NEW a, NEW b, NEW c, p[2] = 4, p[3] = a, p[4] = b, p[5] = c
    PROVE  WriteHead(p, a, b, c)
<1> DEFINE m == 3
           k == 4
           n == 5
<1>1. m \in Int /\ k \in Int /\ n \in Int /\ k = m + 1 /\ n = m + 2
  OBVIOUS
<1> HIDE DEF m, k, n
<1>2. SubSeq(p, m, n) = <<p[m], p[k], p[n]>>
  BY <1>1, TakenThree
<1> QED
  BY <1>2 DEF WriteHead, m, k, n

\* A read, asked
LEMMA ReadAsked ==
    ASSUME NEW a \in Byte, NEW b \in Byte, NEW c \in Byte, NEW p, p = <<1, 3, 1, a, b, c>>
    PROVE  p \in Seq(Byte) /\ Len(p) = 6 /\ p # <<>> /\ ReadHead(p, a, b, c)
<1>1. 1 \in Byte /\ 3 \in Byte
  BY DEF Byte
<1>2. p \in Seq(Byte) /\ Len(p) = 6 /\ p # <<>>
  BY <1>1
<1>3. p[2] = 3 /\ p[3] = 1 /\ p[4] = a /\ p[5] = b /\ p[6] = c
  OBVIOUS
<1> QED
  BY <1>2, <1>3, ReadHeadTaken

\* A write, asked
WriteSent(p, a, b, c, buf) ==
    /\ p \in Seq(Byte) /\ Len(p) = 5 + Len(buf) /\ p # <<>>
    /\ WriteHead(p, a, b, c) /\ SubSeq(p, 6, Len(p)) = buf

\* A write request selects its parameter and carries the value behind.
LEMMA WriteAsked ==
    ASSUME NEW a \in Byte, NEW b \in Byte, NEW c \in Byte, NEW buf \in Seq(Byte),
           NEW p, p = <<1, 4, a, b, c>> \o buf
    PROVE  WriteSent(p, a, b, c, buf)
<1> DEFINE lead == <<1, 4, a, b, c>>
           k == 5
<1>1. 1 \in Byte /\ 4 \in Byte
  BY DEF Byte
<1>2. lead \in Seq(Byte) /\ k = Len(lead)
  BY <1>1
<1>3. lead[2] = 4 /\ lead[3] = a /\ lead[4] = b /\ lead[5] = c
  OBVIOUS
<1>4. p = lead \o buf
  OBVIOUS
<1> HIDE DEF lead, k
<1>5. Behind(p, lead, buf, k)
  BY <1>2, <1>4, TailBehind
<1>6. p \in Seq(Byte) /\ Follow(p, lead, buf, 5) /\ SubSeq(p, 5 + 1, Len(p)) = buf
  BY <1>5 DEF Behind, k
<1>7. Len(p) = 5 + Len(buf) /\ \A i \in 1..5 : p[i] = lead[i]
  BY <1>6 DEF Follow
<1>8. p[2] = 4 /\ p[3] = a /\ p[4] = b /\ p[5] = c
  BY <1>3, <1>7
<1>9. WriteHead(p, a, b, c)
  BY <1>8, WriteHeadTaken
<1>10. p # <<>>
  <2>1. Len(p) # 0
    BY <1>7
  <2> QED
    BY <2>1
<1> QED
  BY <1>6, <1>7, <1>9, <1>10 DEF WriteSent

\* A read, answered
ReadBack(p, a, b, c, buf) ==
    /\ p \in Seq(Byte) /\ Len(p) = 6 + Len(buf) /\ p[1] = 2
    /\ ReadHead(p, a, b, c) /\ SubSeq(p, 7, Len(p)) = buf

\* So does the answer to a read.
LEMMA ReadAnswered ==
    ASSUME NEW a \in Byte, NEW b \in Byte, NEW c \in Byte, NEW buf \in Seq(Byte),
           NEW p, p = <<2, 3, 1>> \o <<a, b, c>> \o buf
    PROVE  ReadBack(p, a, b, c, buf)
<1> DEFINE x == <<2, 3, 1>>
           y == <<a, b, c>>
           lead == x \o y
           j == 3
           k == 6
<1>1. 1 \in Byte /\ 2 \in Byte /\ 3 \in Byte
  BY DEF Byte
<1>2. x \in Seq(Byte) /\ j = Len(x) /\ y \in Seq(Byte) /\ Len(y) = 3
  BY <1>1
<1>3. x[1] = 2 /\ x[2] = 3 /\ x[3] = 1 /\ y[1] = a /\ y[2] = b /\ y[3] = c
  OBVIOUS
<1>4. p = lead \o buf
  OBVIOUS
<1> HIDE DEF x, y, j, k
<1>5. lead \in Seq(Byte) /\ Follow(lead, x, y, j)
  BY <1>2, Joined
<1> HIDE DEF lead
<1>6. /\ Len(lead) = 3 + Len(y) /\ \A i \in 1..3 : lead[i] = x[i]
      /\ \A i \in 1..Len(y) : lead[3 + i] = y[i]
  BY <1>5 DEF Follow, j
<1>7. lead[3 + 1] = y[1] /\ lead[3 + 2] = y[2] /\ lead[3 + 3] = y[3]
  BY <1>2, <1>6
<1>8. /\ Len(lead) = 6 /\ lead[1] = 2 /\ lead[2] = 3 /\ lead[3] = 1
      /\ lead[4] = a /\ lead[5] = b /\ lead[6] = c
  BY <1>2, <1>3, <1>6, <1>7
<1>9. Behind(p, lead, buf, k)
  <2>1. k = Len(lead)
    BY <1>8 DEF k
  <2> QED
    BY <1>4, <1>5, <2>1, TailBehind
<1>10. p \in Seq(Byte) /\ Follow(p, lead, buf, 6) /\ SubSeq(p, 6 + 1, Len(p)) = buf
  BY <1>9 DEF Behind, k
<1>11. Len(p) = 6 + Len(buf) /\ \A i \in 1..6 : p[i] = lead[i]
  BY <1>10 DEF Follow
<1>12. p[1] = 2 /\ p[2] = 3 /\ p[3] = 1 /\ p[4] = a /\ p[5] = b /\ p[6] = c
  BY <1>8, <1>11
<1>13. ReadHead(p, a, b, c)
  BY <1>12, ReadHeadTaken
<1> QED
  BY <1>10, <1>11, <1>12, <1>13 DEF ReadBack

\* A write, answered
WriteBack(p, a, b, c, buf) ==
    /\ p \in Seq(Byte) /\ Len(p) = 5 + Len(buf) /\ p[1] = 2
    /\ WriteHead(p, a, b, c) /\ SubSeq(p, 6, Len(p)) = buf

\* So does the answer to a write.
LEMMA WriteAnswered ==
    ASSUME NEW a \in Byte, NEW b \in Byte, NEW c \in Byte, NEW buf \in Seq(Byte),
           NEW p, p = <<2, 4>> \o <<a, b, c>> \o buf
    PROVE  WriteBack(p, a, b, c, buf)
<1> DEFINE x == <<2, 4>>
           y == <<a, b, c>>
           lead == x \o y
           j == 2
           k == 5
<1>1. 2 \in Byte /\ 4 \in Byte
  BY DEF Byte
<1>2. x \in Seq(Byte) /\ j = Len(x) /\ y \in Seq(Byte) /\ Len(y) = 3
  BY <1>1
<1>3. x[1] = 2 /\ x[2] = 4 /\ y[1] = a /\ y[2] = b /\ y[3] = c
  OBVIOUS
<1>4. p = lead \o buf
  OBVIOUS
<1> HIDE DEF x, y, j, k
<1>5. lead \in Seq(Byte) /\ Follow(lead, x, y, j)
  BY <1>2, Joined
<1> HIDE DEF lead
<1>6. /\ Len(lead) = 2 + Len(y) /\ \A i \in 1..2 : lead[i] = x[i]
      /\ \A i \in 1..Len(y) : lead[2 + i] = y[i]
  BY <1>5 DEF Follow, j
<1>7. lead[2 + 1] = y[1] /\ lead[2 + 2] = y[2] /\ lead[2 + 3] = y[3]
  BY <1>2, <1>6
<1>8. /\ Len(lead) = 5 /\ lead[1] = 2 /\ lead[2] = 4
      /\ lead[3] = a /\ lead[4] = b /\ lead[5] = c
  BY <1>2, <1>3, <1>6, <1>7
<1>9. Behind(p, lead, buf, k)
  <2>1. k = Len(lead)
    BY <1>8 DEF k
  <2> QED
    BY <1>4, <1>5, <2>1, TailBehind
<1>10. p \in Seq(Byte) /\ Follow(p, lead, buf, 5) /\ SubSeq(p, 5 + 1, Len(p)) = buf
  BY <1>9 DEF Behind, k
<1>11. Len(p) = 5 + Len(buf) /\ \A i \in 1..5 : p[i] = lead[i]
  BY <1>10 DEF Follow
<1>12. p[1] = 2 /\ p[2] = 4 /\ p[3] = a /\ p[4] = b /\ p[5] = c
  BY <1>8, <1>11
<1>13. WriteHead(p, a, b, c)
  BY <1>12, WriteHeadTaken
<1> QED
  BY <1>10, <1>11, <1>12, <1>13 DEF WriteBack

\* What the answers say
Says(p, kind, at, value) == DecodePayload(p) = Selector(kind, FALSE, at, value)

\* Decoded, the answer to a read says what was selected and the value behind.
LEMMA ReadSays ==
    ASSUME NEW p, NEW a, NEW b, NEW c, NEW buf, ReadBack(p, a, b, c, buf),
           buf \in Seq(Byte), Decodable(buf)
    PROVE  Says(p, "read", <<a, b, c>>, DecodeValue(buf))
<1>1. p[2] = 3 /\ p[3] = 1 /\ SubSeq(p, 4, 6) = <<a, b, c>>
  BY DEF ReadBack, ReadHead
<1>2. p[1] = 2 /\ SubSeq(p, 7, Len(p)) = buf /\ Len(p) = 6 + Len(buf)
  BY DEF ReadBack
<1>3. Len(p) >= 6 /\ ~(Len(p) < 2)
  BY <1>2
<1>4. ~(Len(p) < 2 \/ p[1] \notin {1, 2}) /\ ~(p[1] = 1) /\ ~(p[2] >= 128)
  BY <1>1, <1>2, <1>3
<1> QED
  BY <1>1, <1>2, <1>3, <1>4 DEF DecodePayload, Says

\* So does the answer to a write.
LEMMA WriteSays ==
    ASSUME NEW p, NEW a, NEW b, NEW c, NEW buf, WriteBack(p, a, b, c, buf),
           buf \in Seq(Byte), Len(buf) >= 1, Decodable(buf)
    PROVE  Says(p, "write", <<a, b, c>>, DecodeValue(buf))
<1>1. p[2] = 4 /\ SubSeq(p, 3, 5) = <<a, b, c>>
  BY DEF WriteBack, WriteHead
<1>2. p[1] = 2 /\ SubSeq(p, 6, Len(p)) = buf /\ Len(p) = 5 + Len(buf)
  BY DEF WriteBack
<1>3. Len(p) >= 6 /\ ~(Len(p) < 2)
  BY <1>2
<1>4. /\ ~(Len(p) < 2 \/ p[1] \notin {1, 2}) /\ ~(p[1] = 1) /\ ~(p[2] >= 128) /\ ~(p[2] = 3)
  BY <1>1, <1>2, <1>3
<1> QED
  BY <1>1, <1>2, <1>3, <1>4 DEF DecodePayload, Says

Fields(says, kind, at, value) ==
    /\ says.kind = kind /\ ~says.request /\ says.id = at[1] * 1000 + at[2]
    /\ says.instance = at[3] /\ says.value = value

\* What a decoded payload says, field by field
LEMMA SaysFields ==
    ASSUME NEW p, NEW kind, NEW a, NEW b, NEW c, NEW value, Says(p, kind, <<a, b, c>>, value)
    PROVE  Fields(DecodePayload(p), kind, <<a, b, c>>, value)
BY DEF Says, Selector, Fields

\* An error decodes to its code.
LEMMA ErrorSays ==
    ASSUME NEW code \in {129, 131, 132, 133}
    PROVE  /\ <<2, code>> \in Seq(Byte) /\ Len(<<2, code>>) = 2
           /\ DecodePayload(<<2, code>>) = [kind |-> "error", code |-> code]
<1> DEFINE p == <<2, code>>
<1>1. p \in Seq(Byte) /\ Len(p) = 2 /\ p[1] = 2 /\ p[2] = code
  BY DEF Byte
<1>2. code >= 128
  OBVIOUS
<1> HIDE DEF p
<1>3. DecodePayload(p) = [kind |-> "error", code |-> code]
  BY <1>1, <1>2 DEF DecodePayload
<1> QED
  BY <1>1, <1>3 DEF p

-----------------------------------------------------------------------------
(***************************************************************************)
(* The device on Standard Bus.                                             *)
(***************************************************************************)

\* What the device says is of the parameter and the instance asked for: on a read, what
\* its memory means; on a write, that it now means what was asked for.
StdSound(plant, id, q, answered) ==
    LET says == DecodePayload(FramePayload(answered.says))
    IN  \/ says.kind = "error"
        \/ /\ says.kind = IF Writes(q) THEN "write" ELSE "read"
           /\ ~says.request /\ says.id = id /\ says.instance = q.instance
           /\ answered.cell = <<id, q.instance>> /\ answered.scale = One
           /\ ~Writes(q) => says.value = answered.meant
           /\ Writes(q) => KeptAt(TypeIn(plant, id), q.value, answered.meant, One)

\* A text that a frame has room for is no longer than its length byte can say.
LEMMA RoomHeld ==
    ASSUME NEW plant, plant.proto = "std", NEW t, NEW v
    PROVE  /\ Holds(t, v, Room(plant)) => Holds(t, v, 255)
           /\ Holds(t, v, 255) /\ (t = "STRING" => Len(v.text) <= MaxPayloadLen - 8)
                => Holds(t, v, Room(plant))
<1> DEFINE r == Room(plant)
<1>1. r = IF MaxPayloadLen <= 263 THEN MaxPayloadLen - 8 ELSE 255
  BY DEF Room
<1>2. MaxPayloadLen \in Int
  BY BoundAssumption
<1>3. r <= 255 /\ r \in Int
  BY <1>1, <1>2
<1> HIDE DEF r
<1>4. CASE t = "STRING"
  <2>1. ASSUME Holds(t, v, r) PROVE Holds(t, v, 255)
    <3>1. v.text \in Seq(0..127) /\ Len(v.text) <= r /\ IsText(v) /\ v = Text(v.text)
      BY <1>4, <2>1, HeldText
    <3> DEFINE n == Len(v.text)
    <3>2. n \in Int
      BY <3>1
    <3>3. n <= 255
      <4> HIDE DEF n
      <4>1. n <= r
        BY <3>1 DEF n
      <4> QED
        BY <1>3, <3>2, <4>1
    <3> QED
      BY <1>4, <3>1, <3>3 DEF Holds
  <2>2. ASSUME Holds(t, v, 255), Len(v.text) <= MaxPayloadLen - 8 PROVE Holds(t, v, r)
    <3>1. v.text \in Seq(0..127) /\ Len(v.text) <= 255 /\ IsText(v) /\ v = Text(v.text)
      BY <1>4, <2>2, HeldText
    <3>2. Len(v.text) <= r
      BY <1>1, <2>2, <3>1
    <3> QED
      BY <1>4, <3>1, <3>2 DEF Holds
  <2> QED
    BY <1>4, <2>1, <2>2 DEF r
<1>5. CASE t # "STRING"
  <2>1. Holds(t, v, r) <=> Holds(t, v, 255)
    BY <1>5 DEF Holds
  <2> QED
    BY <1>5, <2>1 DEF r
<1> QED
  BY <1>4, <1>5

\* A number from 0 to 255 is a byte.
LEMMA IsByte ==
    ASSUME NEW x \in Int, 0 <= x, x <= 255
    PROVE  x \in Byte
BY DEF Byte

\* A parameter's number is two bytes.
LEMMA SelectorBytes ==
    ASSUME NEW plant, Sound(plant), plant.proto = "std", NEW id \in IdsOf(plant),
           NEW a, NEW b, a = id \div 1000, b = id % 1000
    PROVE  /\ a \in Byte /\ b \in Byte
           /\ a * 1000 + b = id /\ 1000 * a + b = id
           /\ TypeIn(plant, id) # "S16" /\ TypeIn(plant, id) \in Types
           /\ Scale(RowOf(plant, id)) = One /\ RowOf(plant, id).decimal = NA
<1>1. /\ id \in Nat /\ RowOf(plant, id).id = id /\ RowAssumption(plant, RowOf(plant, id))
      /\ TypeIn(plant, id) \in Types
  BY RowFacts
<1>2. /\ id \div 1000 <= 255 /\ id % 1000 <= 255
      /\ RowOf(plant, id).scale = NA /\ RowOf(plant, id).decimal = NA
      /\ TypeIn(plant, id) # "S16"
  BY <1>1 DEF RowAssumption, TypeIn
<1>3. a \in Int /\ b \in Int /\ 0 <= a /\ 0 <= b /\ 1000 * a + b = id /\ a * 1000 + b = id
  BY SMT, <1>1
<1>4. a <= 255 /\ b <= 255
  BY <1>2
<1>5. a \in Byte /\ b \in Byte
  BY <1>3, <1>4, IsByte
<1>6. Scale(RowOf(plant, id)) = One
  BY <1>2 DEF Scale
<1> QED
  BY <1>1, <1>2, <1>3, <1>5, <1>6

\* What the request carries
LEMMA StdPayload ==
    ASSUME NEW plant, Sound(plant), plant.proto = "std", NEW id, NEW q, CallSound(plant, id, q)
    PROVE  LET p == PayloadOf(plant, id, q)
               wire == WireOf(plant, id, q)
               a == id \div 1000
               b == id % 1000
           IN  /\ wire \in Seq(Byte) /\ SubSeq(wire, 9, Len(wire) - 2) = p
               /\ q.instance \in Byte
               /\ ~Writes(q) => ReadHead(p, a, b, q.instance)
               /\ Writes(q) => /\ WriteHead(p, a, b, q.instance)
                               /\ SubSeq(p, 6, Len(p)) = EncodeValue(TypeIn(plant, id), q.value)
<1> DEFINE p == PayloadOf(plant, id, q)
           wire == WireOf(plant, id, q)
           a == id \div 1000
           b == id % 1000
           c == q.instance
           t == TypeIn(plant, id)
           buf == EncodeValue(t, q.value)
<1>1. id \in IdsOf(plant) /\ q \in plant.requests
  BY DEF CallSound
<1>0. a = id \div 1000 /\ b = id % 1000
  OBVIOUS
<1>2. a \in Byte /\ b \in Byte /\ t \in Types
  <2> HIDE DEF a, b
  <2> QED
    BY <1>0, <1>1, SelectorBytes
<1>3. c \in Byte
  BY <1>1, SoundPlant DEF RequestAssumption, Byte
<1>4. wire = EncodeFrame(5, AddrToMac(1), 0, p)
  BY DEF WireOf
<1>5. p = IF Writes(q) THEN <<1, 4, a, b, c>> \o buf ELSE <<1, 3, 1, a, b, c>>
  BY DEF PayloadOf, EncodeReadRequest, EncodeWriteRequest
<1>6. ASSUME Writes(q) PROVE buf \in Seq(Byte) /\ Len(buf) <= 257
  <2>1. Askable(q.value) /\ Encodable(t, q.value)
    BY <1>1, <1>6, AskedValues DEF CallSound
  <2> HIDE DEF t, buf
  <2>2. /\ t # "S16" /\ Holds(t, Sent(t, q.value), 255)
        /\ EncodeValue(t, q.value) = Tagged(t, Sent(t, q.value))
    BY <1>2, <2>1, TagWritten
  <2>3. Tagged(t, Sent(t, q.value)) \in Seq(Byte) /\ Len(Tagged(t, Sent(t, q.value))) <= 257
    BY <1>2, <2>2, TagRead
  <2> QED
    BY <2>2, <2>3 DEF buf
<1> HIDE DEF p, wire, a, b, c, t, buf
<1>7. /\ p \in Seq(Byte) /\ p # <<>> /\ Len(p) <= 65535
      /\ ~Writes(q) => ReadHead(p, a, b, c)
      /\ Writes(q) => WriteHead(p, a, b, c) /\ SubSeq(p, 6, Len(p)) = buf
  <2>1. CASE Writes(q)
    <3>1. p = <<1, 4, a, b, c>> \o buf
      BY <1>5, <2>1
    <3>2. /\ p \in Seq(Byte) /\ Len(p) = 5 + Len(buf) /\ p # <<>>
          /\ WriteHead(p, a, b, c) /\ SubSeq(p, 6, Len(p)) = buf
      <4>1. buf \in Seq(Byte)
        BY <1>6, <2>1
      <4>2. WriteSent(p, a, b, c, buf)
        BY <1>2, <1>3, <3>1, <4>1, WriteAsked
      <4> QED
        BY <4>2 DEF WriteSent
    <3>3. Len(p) <= 65535
      BY <1>6, <2>1, <3>2
    <3> QED
      BY <2>1, <3>2, <3>3
  <2>2. CASE ~Writes(q)
    <3>1. p = <<1, 3, 1, a, b, c>>
      BY <1>5, <2>2
    <3>2. p \in Seq(Byte) /\ Len(p) = 6 /\ p # <<>> /\ ReadHead(p, a, b, c)
      BY <1>2, <1>3, <3>1, ReadAsked
    <3>3. Len(p) <= 65535
      BY <3>2
    <3> QED
      BY <2>2, <3>2, <3>3
  <2> QED
    BY <2>1, <2>2
<1>8. wire \in Seq(Byte) /\ SubSeq(wire, 9, Len(wire) - 2) = p
  BY <1>4, <1>7, RequestFrameParts
<1> QED
  BY <1>3, <1>7, <1>8 DEF p, wire, a, b, c, t, buf

\* The answers to a payload that selects a cell, of a type
StdRepliesFor(p, selector, cell, type) ==
    LET stored == [held EXCEPT ![cell] = Untagged(type, SubSeq(p, 6, Len(p)))]
    IN  IF cell \notin DOMAIN held
        THEN {Reply(cell, DeviceFrame(<<2, code>>), held) : code \in {129, 131, 132, 133}}
        ELSE IF p[2] = 3
        THEN {Reply(cell, DeviceFrame(<<2, 3, 1>> \o selector \o Tagged(type, held[cell])), held)}
        ELSE {Reply(cell, DeviceFrame(<<2, 4>> \o selector \o Tagged(type, stored[cell])), stored),
              Reply(cell, DeviceFrame(<<2, 133>>), held)}

RepliesAre(reply, p, selector, cell, t) ==
    \/ \E code \in {129, 131, 132, 133} : reply = Reply(cell, DeviceFrame(<<2, code>>), held)
    \/ /\ cell \in DOMAIN held /\ p[2] = 3
       /\ reply = Reply(cell, DeviceFrame(<<2, 3, 1>> \o selector
                                            \o Tagged(t, held[cell])), held)
    \/ /\ cell \in DOMAIN held /\ p[2] # 3
       /\ LET stored == [held EXCEPT ![cell] = Untagged(t, SubSeq(p, 6, Len(p)))]
          IN  reply = Reply(cell, DeviceFrame(<<2, 4>> \o selector
                                                \o Tagged(t, stored[cell])), stored)

\* A reply is an error, the value held, or the value stored.
LEMMA RepliesForCell ==
    ASSUME NEW p, NEW selector, NEW cell, NEW t, NEW reply \in StdRepliesFor(p, selector, cell, t)
    PROVE  RepliesAre(reply, p, selector, cell, t)
<1> DEFINE stored == [held EXCEPT ![cell] = Untagged(t, SubSeq(p, 6, Len(p)))]
           codes == {129, 131, 132, 133}
           E == {Reply(cell, DeviceFrame(<<2, code>>), held) : code \in codes}
           read == Reply(cell, DeviceFrame(<<2, 3, 1>> \o selector \o Tagged(t, held[cell])), held)
           written == Reply(cell, DeviceFrame(<<2, 4>> \o selector \o Tagged(t, stored[cell])),
                            stored)
           denied == Reply(cell, DeviceFrame(<<2, 133>>), held)
<1>1. reply \in IF cell \notin DOMAIN held THEN E
                ELSE IF p[2] = 3 THEN {read} ELSE {written, denied}
  BY Zenon DEF StdRepliesFor
<1>2. 133 \in codes
  OBVIOUS
<1> HIDE DEF codes
<1>3. reply \in E => \E code \in codes : reply = Reply(cell, DeviceFrame(<<2, code>>), held)
  BY Zenon
<1>4. denied \in E
  BY <1>2, Zenon
<1> HIDE DEF E, read, written, denied, stored
<1>5. \/ reply \in E
      \/ cell \in DOMAIN held /\ p[2] = 3 /\ reply = read
      \/ cell \in DOMAIN held /\ p[2] # 3 /\ reply = written
  BY <1>1, <1>4
<1>6. CASE reply \in E
  BY <1>3, <1>6, Zenon DEF codes, RepliesAre
<1>7. CASE cell \in DOMAIN held /\ p[2] = 3 /\ reply = read
  BY <1>7, Zenon DEF read, RepliesAre
<1>8. CASE cell \in DOMAIN held /\ p[2] # 3 /\ reply = written
  BY <1>8, Zenon DEF written, stored, RepliesAre
<1> QED
  BY <1>5, <1>6, <1>7, <1>8, Zenon

\* The device selects the parameter that the request names.
LEMMA StdRepliesTo ==
    ASSUME NEW p, NEW a, NEW b, NEW c, NEW id, 1000 * a + b = id,
           ReadHead(p, a, b, c) \/ WriteHead(p, a, b, c)
    PROVE  StdReplies(p) = StdRepliesFor(p, <<a, b, c>>, <<id, c>>, TypeIn(Plant[link], id))
<1> DEFINE selector == <<a, b, c>>
           t == TypeIn(Plant[link], id)
           at == IF p[2] = 3 THEN 3 ELSE 2
           found == SubSeq(p, at + 1, at + 3)
           cell == <<1000 * found[1] + found[2], found[3]>>
           type == TypeOf(cell[1])
<1>1. StdReplies(p) = StdRepliesFor(p, found, cell, type)
  BY DEF StdReplies, StdRepliesFor
<1>2. /\ ReadHead(p, a, b, c) => p[2] = 3 /\ SubSeq(p, 3 + 1, 3 + 3) = selector
      /\ WriteHead(p, a, b, c) => p[2] # 3 /\ SubSeq(p, 2 + 1, 2 + 3) = selector
  BY DEF ReadHead, WriteHead
<1>3. found = selector
  BY <1>2
<1> HIDE DEF found, selector
<1>4. selector[1] = a /\ selector[2] = b /\ selector[3] = c
  BY DEF selector
<1>5. 1000 * found[1] + found[2] = id /\ found[3] = c
  BY <1>3, <1>4
<1>6. cell = <<id, c>> /\ cell[1] = id
  BY <1>5
<1> HIDE DEF cell
<1>7. type = t
  BY <1>6, Here
<1> HIDE DEF type, t
<1> QED
  BY <1>1, <1>3, <1>6, <1>7 DEF selector, t

\* Reply's fields, on Standard Bus
LEMMA StdReplyFields ==
    ASSUME NEW cell, NEW says, NEW memory
    PROVE  /\ Reply(cell, says, memory).cell = cell /\ Reply(cell, says, memory).says = says
           /\ Reply(cell, says, memory).memory = memory
BY DEF Reply

\* At the scale of 1 a value means itself.
LEMMA MeantPlain ==
    ASSUME NEW t \in Types, NEW v, Holds(t, v, 255)
    PROVE  MeantAt(t, v, One) = Plain(v)
<1>1. CASE t = "STRING"
  BY <1>1, HeldText DEF MeantAt, Plain
<1>2. CASE t = "FLOAT"
  BY <1>2, HeldFloat DEF MeantAt, Plain
<1>3. CASE t \in Integers8
  <2>1. ~IsText(v) /\ v = Num((v.num \div One) * One) /\ t # "FLOAT"
    BY <1>3, HeldInteger DEF Integers8
  <2> QED
    BY <2>1 DEF MeantAt, Plain
<1> QED
  BY <1>1, <1>2, <1>3 DEF Types

\* An error, whatever was asked
LEMMA StdError ==
    ASSUME NEW plant, NEW id, NEW q, NEW code \in {129, 131, 132, 133}, NEW answered,
           answered.says = DeviceFrame(<<2, code>>)
    PROVE  StdSound(plant, id, q, answered) /\ answered.says \in Seq(Byte)
<1> DEFINE p == <<2, code>>
<1>1. /\ p \in Seq(Byte) /\ Len(p) <= 65535 /\ DecodePayload(p) = [kind |-> "error", code |-> code]
  <2>1. p \in Seq(Byte) /\ Len(p) = 2 /\ DecodePayload(p) = [kind |-> "error", code |-> code]
    BY ErrorSays
  <2> HIDE DEF p
  <2> QED
    BY <2>1
<1>2. answered.says = DeviceFrame(p)
  OBVIOUS
<1> HIDE DEF p
<1>3. DeviceFrame(p) \in Seq(Byte) /\ FramePayload(DeviceFrame(p)) = p
  BY <1>1, DeviceFrameParts
<1>4. DecodePayload(FramePayload(answered.says)) = [kind |-> "error", code |-> code]
  BY <1>1, <1>2, <1>3
<1>5. DecodePayload(FramePayload(answered.says)).kind = "error"
  BY <1>4
<1> QED
  BY <1>2, <1>3, <1>5 DEF StdSound

\* What the frame that answers a read says
LEMMA ReadFrameSays ==
    ASSUME NEW a \in Byte, NEW b \in Byte, NEW c \in Byte, NEW buf \in Seq(Byte),
           Len(buf) <= 257, Decodable(buf), NEW frame,
           frame = DeviceFrame(<<2, 3, 1>> \o <<a, b, c>> \o buf)
    PROVE  /\ frame \in Seq(Byte)
           /\ Fields(DecodePayload(FramePayload(frame)), "read", <<a, b, c>>, DecodeValue(buf))
<1> DEFINE p == <<2, 3, 1>> \o <<a, b, c>> \o buf
           says == DecodePayload(FramePayload(frame))
<1>1. p = <<2, 3, 1>> \o <<a, b, c>> \o buf /\ frame = DeviceFrame(p)
  OBVIOUS
<1> HIDE DEF p
<1>2. ReadBack(p, a, b, c, buf)
  BY <1>1, ReadAnswered
<1>3. p \in Seq(Byte) /\ Len(p) <= 65535
  <2>1. p \in Seq(Byte) /\ Len(p) = 6 + Len(buf) /\ Len(buf) \in Nat
    BY <1>2 DEF ReadBack
  <2> QED
    BY <2>1
<1>4. Says(p, "read", <<a, b, c>>, DecodeValue(buf))
  BY <1>2, ReadSays
<1>5. DeviceFrame(p) \in Seq(Byte) /\ FramePayload(DeviceFrame(p)) = p
  BY <1>3, DeviceFrameParts
<1>6. says = DecodePayload(p) /\ frame \in Seq(Byte)
  BY <1>1, <1>5
<1> HIDE DEF says
<1>7. Fields(DecodePayload(p), "read", <<a, b, c>>, DecodeValue(buf))
  BY <1>4, SaysFields, Zenon
<1> QED
  BY <1>6, <1>7 DEF says

\* What the frame that answers a write says
LEMMA WriteFrameSays ==
    ASSUME NEW a \in Byte, NEW b \in Byte, NEW c \in Byte, NEW buf \in Seq(Byte),
           Len(buf) >= 1, Len(buf) <= 257, Decodable(buf), NEW frame,
           frame = DeviceFrame(<<2, 4>> \o <<a, b, c>> \o buf)
    PROVE  /\ frame \in Seq(Byte)
           /\ Fields(DecodePayload(FramePayload(frame)), "write", <<a, b, c>>, DecodeValue(buf))
<1> DEFINE p == <<2, 4>> \o <<a, b, c>> \o buf
           says == DecodePayload(FramePayload(frame))
<1>1. p = <<2, 4>> \o <<a, b, c>> \o buf /\ frame = DeviceFrame(p)
  OBVIOUS
<1> HIDE DEF p
<1>2. WriteBack(p, a, b, c, buf)
  BY <1>1, WriteAnswered
<1>3. p \in Seq(Byte) /\ Len(p) <= 65535
  <2>1. p \in Seq(Byte) /\ Len(p) = 5 + Len(buf) /\ Len(buf) \in Nat
    BY <1>2 DEF WriteBack
  <2> QED
    BY <2>1
<1>4. Says(p, "write", <<a, b, c>>, DecodeValue(buf))
  BY <1>2, WriteSays
<1>5. DeviceFrame(p) \in Seq(Byte) /\ FramePayload(DeviceFrame(p)) = p
  BY <1>3, DeviceFrameParts
<1>6. says = DecodePayload(p) /\ frame \in Seq(Byte)
  BY <1>1, <1>5
<1> HIDE DEF says
<1>7. Fields(DecodePayload(p), "write", <<a, b, c>>, DecodeValue(buf))
  BY <1>4, SaysFields, Zenon
<1> QED
  BY <1>6, <1>7 DEF says

\* A payload that selects a parameter, with a value behind it
LEMMA StdReplySound ==
    ASSUME NEW plant, NEW id, NEW q, NEW a \in Byte, NEW b \in Byte, NEW c \in Byte,
           a * 1000 + b = id, c = q.instance,
           NEW t \in Types, t # "S16", NEW v, Holds(t, v, 255), t = TypeIn(plant, id),
           NEW answered, answered.cell = <<id, c>>, answered.scale = One,
           answered.meant = MeantAt(t, v, One),
           \/ /\ ~Writes(q)
              /\ answered.says = DeviceFrame(<<2, 3, 1>> \o <<a, b, c>> \o Tagged(t, v))
           \/ /\ Writes(q) /\ KeptAt(t, q.value, MeantAt(t, v, One), One)
              /\ answered.says = DeviceFrame(<<2, 4>> \o <<a, b, c>> \o Tagged(t, v))
    PROVE  StdSound(plant, id, q, answered) /\ answered.says \in Seq(Byte)
<1> DEFINE buf == Tagged(t, v)
           says == DecodePayload(FramePayload(answered.says))
<1>1. /\ buf \in Seq(Byte) /\ Len(buf) >= 1 /\ Len(buf) <= 257
      /\ Decodable(buf) /\ DecodeValue(buf) = Plain(v)
  BY TagRead
<1>2. MeantAt(t, v, One) = Plain(v)
  BY MeantPlain
<1> HIDE DEF buf
<1>3. CASE ~Writes(q)
  <2>1. answered.says = DeviceFrame(<<2, 3, 1>> \o <<a, b, c>> \o buf)
    BY <1>3 DEF buf
  <2>2. answered.says \in Seq(Byte) /\ Fields(says, "read", <<a, b, c>>, Plain(v))
    <3>1. /\ answered.says \in Seq(Byte)
          /\ Fields(DecodePayload(FramePayload(answered.says)), "read", <<a, b, c>>,
                    DecodeValue(buf))
      BY <1>1, <2>1, ReadFrameSays
    <3> QED
      BY <1>1, <3>1
  <2> HIDE DEF says
  <2>3. /\ says.kind = "read" /\ ~says.request /\ says.id = a * 1000 + b
        /\ says.instance = c /\ says.value = Plain(v)
    BY <2>2 DEF Fields
  <2>4. says.value = answered.meant
    BY <1>2, <2>3
  <2>5. says.id = id /\ says.instance = q.instance
    BY <2>3
  <2> QED
    BY <1>3, <2>2, <2>3, <2>4, <2>5 DEF StdSound, says
<1>4. CASE Writes(q)
  <2>1. answered.says = DeviceFrame(<<2, 4>> \o <<a, b, c>> \o buf)
    BY <1>4 DEF buf
  <2>2. answered.says \in Seq(Byte) /\ Fields(says, "write", <<a, b, c>>, Plain(v))
    <3>1. /\ answered.says \in Seq(Byte)
          /\ Fields(DecodePayload(FramePayload(answered.says)), "write", <<a, b, c>>,
                    DecodeValue(buf))
      BY <1>1, <2>1, WriteFrameSays
    <3> QED
      BY <1>1, <3>1
  <2> HIDE DEF says
  <2>3. /\ says.kind = "write" /\ ~says.request /\ says.id = a * 1000 + b
        /\ says.instance = c /\ says.value = Plain(v)
    BY <2>2 DEF Fields
  <2>4. KeptAt(t, q.value, answered.meant, One)
    BY <1>2, <1>4
  <2>5. says.id = id /\ says.instance = q.instance
    BY <2>3
  <2> QED
    BY <1>4, <2>2, <2>3, <2>4, <2>5 DEF StdSound, says
<1> QED
  BY <1>3, <1>4

\* The device's memory after a write holds what its parameters can.
LEMMA StdStored ==
    ASSUME NEW plant, NEW id, NEW c, HeldSound(plant, held), RowOf(plant, id).rwes # "R",
           NEW new, Holds(TypeIn(plant, id), new, Room(plant)), NEW cell, cell = <<id, c>>
    PROVE  HeldSound(plant, [held EXCEPT ![cell] = new])
<1> DEFINE after == [held EXCEPT ![cell] = new]
<1>0. cell[1] = id
  OBVIOUS
<1>1. DOMAIN after = DOMAIN held /\ \A d \in DOMAIN held : after[d] = IF d = cell THEN new ELSE held[d]
  OBVIOUS
<1> HIDE DEF after
<1>2. ASSUME NEW d \in DOMAIN after
      PROVE  /\ Holds(TypeIn(plant, d[1]), after[d], Room(plant))
             /\ RowOf(plant, d[1]).rwes = "R" => after[d] \in Settings(plant, d)
  <2>1. CASE d = cell
    BY <1>0, <1>1, <1>2, <2>1
  <2>2. CASE d # cell
    BY <1>1, <1>2, <2>2 DEF HeldSound
  <2> QED
    BY <2>1, <2>2
<1>3. HeldSound(plant, after)
  BY <1>1, <1>2 DEF HeldSound
<1> QED
  BY <1>3 DEF after

\* On Standard Bus the device's answers are about what was asked, and a write has left
\* in it what was asked for.
THEOREM StdAnswered ==
    ASSUME link \in DOMAIN Plant, NEW id, NEW q, CallSound(Plant[link], id, q),
           Plant[link].proto = "std", HeldSound(Plant[link], held),
           NEW p, p = PayloadOf(Plant[link], id, q), NEW reply \in StdReplies(p),
           NEW junk, NEW whole
    PROVE  /\ HeldSound(Plant[link], reply.memory) /\ reply.says \in Seq(Byte)
           /\ StdSound(Plant[link], id, q, AnswerOf(reply, junk, whole))
<1> DEFINE plant == Plant[link]
           a == id \div 1000
           b == id % 1000
           c == q.instance
           t == TypeIn(plant, id)
           row == RowOf(plant, id)
           cell == <<id, c>>
           answered == AnswerOf(reply, junk, whole)
<1>1. Sound(plant) /\ id \in IdsOf(plant) /\ q \in plant.requests
  BY DEF Sound, CallSound
<1>2. /\ q.instance \in Byte
      /\ ~Writes(q) => ReadHead(p, a, b, c)
      /\ Writes(q) => WriteHead(p, a, b, c) /\ SubSeq(p, 6, Len(p)) = EncodeValue(t, q.value)
  BY <1>1, StdPayload
<1>3. a = id \div 1000 /\ b = id % 1000 /\ c = q.instance
  OBVIOUS
<1>4. NotedAs(reply, answered)
  BY Noted
<1> HIDE DEF a, b
<1>5. /\ a \in Byte /\ b \in Byte /\ a * 1000 + b = id /\ 1000 * a + b = id
      /\ t # "S16" /\ t \in Types /\ Scale(row) = One /\ row.decimal = NA
  BY <1>1, <1>3, SelectorBytes
<1> HIDE DEF c
<1>6. reply \in StdRepliesFor(p, <<a, b, c>>, cell, t)
  <2>1. StdReplies(p) = StdRepliesFor(p, <<a, b, c>>, <<id, c>>, TypeIn(Plant[link], id))
    <3>1. ReadHead(p, a, b, c) \/ WriteHead(p, a, b, c)
      BY <1>2
    <3> HIDE DEF plant, t, row
    <3> QED
      BY <1>5, <3>1, StdRepliesTo
  <2> QED
    BY <2>1
<1>7. /\ ~Writes(q) => p[2] = 3
      /\ Writes(q) => p[2] # 3
  BY <1>2 DEF ReadHead, WriteHead
<1>8. answered.says = reply.says /\ answered.cell = reply.cell
  BY <1>4 DEF NotedAs
<1>9. cell[1] = id
  OBVIOUS
<1>10. \A memory : TrueScaleIn(plant, id, memory) = One
  BY <1>5 DEF TrueScaleIn
<1>11. ASSUME reply.cell = cell, cell \in DOMAIN held
       PROVE  answered.scale = One /\ answered.meant = MeantAt(t, reply.memory[cell], One)
  <2> HIDE DEF cell, answered
  <2> QED
    BY <1>4, <1>9, <1>10, <1>11 DEF NotedAs
<1> HIDE DEF answered, t, row
<1>12. CASE \E code \in {129, 131, 132, 133} :
              reply = Reply(cell, DeviceFrame(<<2, code>>), held)
  <2>1. PICK code \in {129, 131, 132, 133} : reply = Reply(cell, DeviceFrame(<<2, code>>), held)
    BY <1>12
  <2> DEFINE frame == DeviceFrame(<<2, code>>)
  <2>2. reply.memory = held /\ reply.says = frame
    BY <2>1, StdReplyFields
  <2>3. answered.says = frame
    BY <1>8, <2>2
  <2> HIDE DEF plant
  <2>4. StdSound(plant, id, q, answered) /\ answered.says \in Seq(Byte)
    BY <2>3, StdError
  <2> QED
    BY <1>8, <2>2, <2>4 DEF answered, plant
<1>13. CASE /\ cell \in DOMAIN held /\ p[2] = 3
            /\ reply = Reply(cell, DeviceFrame(<<2, 3, 1>> \o <<a, b, c>>
                                                 \o Tagged(t, held[cell])), held)
  <2> DEFINE v == held[cell]
             frame == DeviceFrame(<<2, 3, 1>> \o <<a, b, c>> \o Tagged(t, v))
  <2>1. reply = Reply(cell, frame, held)
    BY <1>13
  <2> HIDE DEF frame
  <2>2. reply.memory = held /\ reply.says = frame /\ reply.cell = cell
    BY <2>1, StdReplyFields
  <2>3. answered.says = frame /\ answered.cell = cell /\ ~Writes(q)
    BY <1>7, <1>8, <1>13, <2>2
  <2>4. answered.scale = One /\ answered.meant = MeantAt(t, v, One)
    BY <1>11, <1>13, <2>2
  <2>5. Holds(t, v, 255)
    <3>1. Holds(TypeIn(plant, cell[1]), v, Room(plant))
      BY <1>13 DEF HeldSound
    <3>2. Holds(t, v, Room(plant))
      BY <1>9, <3>1 DEF t
    <3> HIDE DEF v
    <3> QED
      BY <3>2, RoomHeld
  <2>6. StdSound(plant, id, q, answered) /\ answered.says \in Seq(Byte)
    <3>1. t = TypeIn(plant, id) /\ answered.cell = <<id, c>> /\ c = q.instance /\ c \in Byte
      BY <1>2, <2>3 DEF t, cell, c
    <3>2. answered.says = DeviceFrame(<<2, 3, 1>> \o <<a, b, c>> \o Tagged(t, v))
      BY <2>3 DEF frame
    <3> HIDE DEF plant, v, cell
    <3> QED
      BY <1>5, <2>3, <2>4, <2>5, <3>1, <3>2, StdReplySound
  <2> QED
    BY <1>8, <2>2, <2>6 DEF answered, plant
<1>14. CASE /\ cell \in DOMAIN held /\ p[2] # 3
            /\ LET stored == [held EXCEPT ![cell] = Untagged(t, SubSeq(p, 6, Len(p)))]
               IN  reply = Reply(cell, DeviceFrame(<<2, 4>> \o <<a, b, c>>
                                                     \o Tagged(t, stored[cell])), stored)
  <2> DEFINE v == Sent(t, q.value)
             new == Untagged(t, SubSeq(p, 6, Len(p)))
             stored == [held EXCEPT ![cell] = new]
             frame(x) == DeviceFrame(<<2, 4>> \o <<a, b, c>> \o Tagged(t, x))
  <2>1. reply = Reply(cell, frame(stored[cell]), stored)
    BY <1>14
  <2>2. stored[cell] = new
    BY <1>14
  <2>3. Writes(q) /\ Askable(q.value) /\ Encodable(t, q.value) /\ row.rwes # "R"
    <3>1. Writes(q)
      BY <1>7, <1>14
    <3>2. Askable(q.value)
      BY <1>1, <3>1, AskedValues
    <3> QED
      BY <3>1, <3>2 DEF CallSound, t, row
  <2>4. /\ Holds(t, v, 255) /\ EncodeValue(t, q.value) = Tagged(t, v)
        /\ KeptAt(t, q.value, MeantAt(t, v, One), One)
    BY <1>5, <2>3, TagWritten
  <2>5. new = v
    <3>1. SubSeq(p, 6, Len(p)) = Tagged(t, v)
      BY <1>2, <2>3, <2>4 DEF t
    <3>2. Untagged(t, Tagged(t, v)) = v
      BY <1>5, <2>4, TagRead
    <3> QED
      BY <3>1, <3>2
  <2>6. reply = Reply(cell, frame(v), stored)
    BY <2>1, <2>2, <2>5
  <2> HIDE DEF frame, v, stored, new
  <2>7. reply.memory = stored /\ reply.says = frame(v) /\ reply.cell = cell
    BY <2>6, StdReplyFields
  <2>8. answered.says = frame(v) /\ answered.cell = cell
    BY <1>8, <2>7
  <2>9. answered.scale = One /\ answered.meant = MeantAt(t, v, One)
    BY <1>11, <1>14, <2>2, <2>5, <2>7
  <2>10. Holds(t, v, Room(plant))
    <3>1. t = "STRING" => Len(v.text) <= MaxPayloadLen - 8
      <4> HAVE t = "STRING"
      <4>1. v = q.value /\ IsText(q.value)
        BY <2>3 DEF v, Sent, Encodable
      <4>2. Len(q.value.text) <= MaxPayloadLen - 8
        BY <1>1, <2>3, <4>1, SoundPlant DEF RequestAssumption, Writes
      <4> QED
        BY <4>1, <4>2
    <3> QED
      BY <2>4, <3>1, RoomHeld
  <2>11. HeldSound(plant, stored)
    <3>1. Holds(TypeIn(plant, id), v, Room(plant)) /\ RowOf(plant, id).rwes # "R"
      BY <2>3, <2>10 DEF t, row
    <3>2. HeldSound(plant, [held EXCEPT ![cell] = v])
      <4>1. cell = <<id, c>>
        OBVIOUS
      <4> HIDE DEF plant, cell
      <4> QED
        BY <3>1, <4>1, StdStored DEF plant
    <3> QED
      BY <2>5, <3>2 DEF stored
  <2>12. StdSound(plant, id, q, answered) /\ answered.says \in Seq(Byte)
    <3>1. t = TypeIn(plant, id) /\ answered.cell = <<id, c>> /\ c = q.instance /\ c \in Byte
      BY <1>2, <2>8 DEF t, cell, c
    <3>2. answered.says = DeviceFrame(<<2, 4>> \o <<a, b, c>> \o Tagged(t, v))
      BY <2>8 DEF frame
    <3> HIDE DEF plant, cell
    <3> QED
      BY <1>5, <2>3, <2>4, <2>9, <3>1, <3>2, StdReplySound
  <2> QED
    BY <1>8, <2>7, <2>11, <2>12 DEF answered, plant
<1> HIDE DEF plant, cell
<1>15. RepliesAre(reply, p, <<a, b, c>>, cell, t)
  BY <1>6, RepliesForCell, Zenon
<1> QED
  BY <1>12, <1>13, <1>14, <1>15, Zenon DEF RepliesAre
-----------------------------------------------------------------------------
(***************************************************************************)
(* What the client leaves on the line.                                     *)
(***************************************************************************)

\* What a search that has come to a place ends with; where it is after some steps
FoundAt(bytes, i) ==
    IF i - 1 > PreambleScanLimit THEN [how |-> "frame", next |-> i]
    ELSE IF i >= Len(bytes) THEN [how |-> "timeout", next |-> Len(bytes) + 1]
    ELSE [how |-> "found", next |-> i + 2]
SearchUpTo(bytes) ==
    CHOOSE f : f = [k \in 0..Len(bytes) |-> IF k = 0 THEN 1 ELSE Skipped(bytes, f[k - 1])]

\* It goes from place to place.
LEMMA SearchSteps ==
    ASSUME NEW bytes, NEW n \in Nat, Len(bytes) = n
    PROVE  /\ Found(bytes) = FoundAt(bytes, SearchUpTo(bytes)[n]) /\ SearchUpTo(bytes)[0] = 1
           /\ \A k \in 1..n : SearchUpTo(bytes)[k] = Skipped(bytes, SearchUpTo(bytes)[k - 1])
<1> DEFINE R(m, f) == f = [k \in 0..m |-> IF k = 0 THEN 1 ELSE Skipped(bytes, f[k - 1])]
           S == {m \in Nat : \E f : R(m, f)}
           F == SearchUpTo(bytes)
<1>1. 0 \in S
  <2> DEFINE f == [k \in 0..0 |-> 1]
  <2>1. R(0, f)
    OBVIOUS
  <2> QED
    BY <2>1
<1>2. \A m \in S : m + 1 \in S
  <2> TAKE m \in S
  <2>1. m \in Nat /\ m + 1 \in Nat
    OBVIOUS
  <2>2. PICK g : R(m, g)
    OBVIOUS
  <2> DEFINE f == [k \in 0..m + 1 |-> IF k <= m THEN g[k] ELSE Skipped(bytes, g[m])]
  <2>3. \A k \in 0..m : f[k] = g[k]
    BY <2>1
  <2>4. f[m + 1] = Skipped(bytes, g[m])
    BY <2>1
  <2>5. f = [k \in 0..m + 1 |-> f[k]]
    OBVIOUS
  <2> HIDE DEF f
  <2>6. \A k \in 0..m + 1 : f[k] = IF k = 0 THEN 1 ELSE Skipped(bytes, f[k - 1])
    <3> TAKE k \in 0..m + 1
    <3>1. CASE k = 0
      BY <2>1, <2>2, <2>3, <3>1
    <3>2. CASE k \in 1..m
      <4>1. k \in 0..m /\ k - 1 \in 0..m /\ k # 0
        BY <2>1, <3>2
      <4>2. f[k] = g[k] /\ f[k - 1] = g[k - 1]
        BY <2>3, <4>1
      <4>3. g[k] = Skipped(bytes, g[k - 1])
        BY <2>2, <4>1
      <4> QED
        BY <4>1, <4>2, <4>3
    <3>3. CASE k = m + 1
      <4>1. k - 1 = m /\ m \in 0..m /\ k # 0
        BY <2>1, <3>3
      <4> QED
        BY <2>3, <2>4, <3>3, <4>1
    <3> QED
      BY <2>1, <3>1, <3>2, <3>3
  <2>7. R(m + 1, f)
    BY <2>5, <2>6
  <2> QED
    BY <2>1, <2>7
<1>3. S = Nat
  <2>1. S \in SUBSET Nat
    OBVIOUS
  <2> HIDE DEF S
  <2> QED
    BY <1>1, <1>2, <2>1, SetInduction
<1>4. PICK f : R(n, f)
  BY <1>3
<1>5. R(n, F)
  BY <1>4 DEF SearchUpTo
<1> HIDE DEF F
<1>6. F[0] = 1 /\ \A k \in 1..n : F[k] = Skipped(bytes, F[k - 1])
  BY <1>5
<1>7. Found(bytes) = FoundAt(bytes, F[n])
  BY DEF F, SearchUpTo, Found, FoundAt
<1> QED
  BY <1>6, <1>7 DEF F

\* The search for a preamble goes on to the right: it ends at a place of the line or
\* behind it.
LEMMA FoundAhead ==
    ASSUME NEW bytes \in Seq(Byte)
    PROVE  /\ Found(bytes).next \in Nat /\ Found(bytes).next >= 1
           /\ Found(bytes).how \in {"frame", "timeout", "found"}
<1> DEFINE n == Len(bytes)
           at == SearchUpTo(bytes)
           Q(k) == at[k] \in Nat /\ at[k] >= 1
<1>1. n \in Nat
  OBVIOUS
<1> HIDE DEF n
<1>2. /\ Found(bytes) = FoundAt(bytes, at[n]) /\ at[0] = 1
      /\ \A k \in 1..n : at[k] = Skipped(bytes, at[k - 1])
  BY <1>1, SearchSteps DEF n
<1> HIDE DEF at
<1>3. \A k \in 0..n : Q(k)
  <2> DEFINE S == {k \in Nat : k <= n => Q(k)}
  <2>1. 0 \in S
    BY <1>2
  <2>2. \A k \in S : k + 1 \in S
    <3> TAKE k \in S
    <3>1. k \in Nat /\ k + 1 \in Nat
      OBVIOUS
    <3>2. ASSUME k + 1 <= n PROVE Q(k + 1)
      <4> DEFINE i == at[k]
      <4>1. i \in Nat /\ i >= 1
        BY <1>1, <3>1, <3>2
      <4>2. at[k + 1] = Skipped(bytes, i)
        <5> DEFINE j == k + 1
        <5>1. j \in 1..n /\ j - 1 = k
          BY <1>1, <3>1, <3>2
        <5> HIDE DEF j
        <5>2. at[j] = Skipped(bytes, at[j - 1])
          BY <1>2, <5>1
        <5>3. at[j] = Skipped(bytes, i)
          BY <5>1, <5>2
        <5> QED
          BY <5>3 DEF j
      <4> HIDE DEF i
      <4>3. Skipped(bytes, i) \in {i, i + 1, i + 2}
        BY DEF Skipped
      <4> QED
        BY <4>1, <4>2, <4>3
    <3> QED
      BY <3>1, <3>2
  <2>3. S = Nat
    <3>1. S \in SUBSET Nat
      OBVIOUS
    <3> HIDE DEF S
    <3> QED
      BY <2>1, <2>2, <3>1, SetInduction
  <2> QED
    BY <1>1, <2>3
<1> DEFINE i == at[n]
<1>4. i \in Nat /\ i >= 1
  BY <1>1, <1>3
<1> HIDE DEF i
<1>5. Found(bytes) = FoundAt(bytes, i)
  BY <1>2 DEF i
<1>6. FoundAt(bytes, i) \in {[how |-> "frame", next |-> i], [how |-> "timeout", next |-> n + 1],
                              [how |-> "found", next |-> i + 2]}
  BY DEF FoundAt, n
<1> QED
  BY <1>1, <1>4, <1>5, <1>6

\* What is left of a sequence from a place on
LEMMA LeftOver ==
    ASSUME NEW bytes \in Seq(Byte), NEW i \in Nat, i >= 1
    PROVE  SubSeq(bytes, i, Len(bytes)) \in Seq(Byte)
OBVIOUS

\* A byte is a number.
LEMMA ByteNumber ==
    ASSUME NEW x \in Byte
    PROVE  x \in Int /\ 0 <= x /\ x <= 255
BY DEF Byte

\* What two bytes say is a number.
LEMMA TwoBytesSay ==
    ASSUME NEW bytes, NEW i \in Nat, i >= 1, bytes \in Seq(Byte), Len(bytes) >= i + 5
    PROVE  LET header == SubSeq(bytes, i, i + 5)
           IN  Unsigned(SubSeq(header, 4, 5)) \in Nat
<1> DEFINE header == SubSeq(bytes, i, i + 5)
           two == SubSeq(header, 4, 5)
<1>1. header \in Seq(Byte) /\ Len(header) = 6
  OBVIOUS
<1> DEFINE u == 4
           w == 5
<1>2. u \in Int /\ w \in Int /\ w = u + 1
  OBVIOUS
<1>3. header[4] \in Byte /\ header[5] \in Byte
  BY <1>1
<1> HIDE DEF u, w, header
<1>4. SubSeq(header, u, w) = <<header[u], header[w]>>
  BY <1>2, TakenTwo
<1> DEFINE a == header[4]
           b == header[5]
<1>5. a \in Int /\ b \in Int /\ 0 <= a /\ 0 <= b
  BY <1>3, ByteNumber
<1>6. two = <<a, b>>
  BY <1>4 DEF u, w
<1> HIDE DEF a, b, two
<1>7. Unsigned(two) = 256 * a + b
  BY <1>5, <1>6, UnsignedOfTwo
<1>8. 256 * a + b \in Nat
  BY <1>5
<1> QED
  BY <1>7, <1>8 DEF two, header

\* Bytes are left on the line, whatever a call ends with.
LEMMA LineLeft ==
    ASSUME NEW bytes \in Seq(Byte)
    PROVE  /\ ReadFrame(bytes).line \in Seq(Byte)
           /\ ReadFrame(bytes).how \in {"frame", "timeout", "ok"}
<1> DEFINE at == Found(bytes)
           j == at.next
           header == SubSeq(bytes, j, j + 5)
           n == Unsigned(SubSeq(header, 4, 5))
           end == j + 5 + (IF n = 0 THEN 0 ELSE n + 2)
           after(i) == SubSeq(bytes, i, Len(bytes))
           raw == Preamble \o SubSeq(bytes, j, end)
<1>1. j \in Nat /\ j >= 1
  BY FoundAhead
<1>2. ReadFrame(bytes) =
        IF at.how = "frame" THEN [how |-> "frame", frame |-> <<>>, line |-> after(j)]
        ELSE IF at.how = "timeout" \/ Len(bytes) < j + 5
             THEN [how |-> "timeout", frame |-> <<>>, line |-> <<>>]
        ELSE IF n > MaxPayloadLen
             THEN [how |-> "frame", frame |-> <<>>, line |-> after(j + 6)]
        ELSE IF Len(bytes) < end THEN [how |-> "timeout", frame |-> <<>>, line |-> <<>>]
        ELSE IF FrameSound(raw) /\ DecodePayload(FramePayload(raw)) # Bad
             THEN [how |-> "ok", frame |-> raw, line |-> after(end + 1)]
             ELSE [how |-> "frame", frame |-> <<>>, line |-> after(end + 1)]
  BY Zenon DEF ReadFrame
<1> DEFINE sound == FrameSound(raw) /\ DecodePayload(FramePayload(raw)) # Bad
           found == at.how
<1>3. ~(Len(bytes) < j + 5) => n \in Nat
  <2> HAVE ~(Len(bytes) < j + 5)
  <2>1. Len(bytes) >= j + 5
    BY <1>1
  <2> QED
    BY <1>1, <2>1, TwoBytesSay
<1> HIDE DEF j, n, raw, found, sound, header
<1>4. ReadFrame(bytes) \in
        {[how |-> "frame", frame |-> <<>>, line |-> after(j)],
         [how |-> "timeout", frame |-> <<>>, line |-> <<>>],
         [how |-> "frame", frame |-> <<>>, line |-> after(j + 6)]}
      \/ /\ n \in Nat
         /\ ReadFrame(bytes) \in
              {[how |-> "ok", frame |-> raw, line |-> after(end + 1)],
               [how |-> "frame", frame |-> <<>>, line |-> after(end + 1)]}
  <2> HIDE DEF end, after
  <2> QED
    BY <1>2, <1>3 DEF found, sound
<1>5. /\ after(j) \in Seq(Byte) /\ after(j + 6) \in Seq(Byte) /\ <<>> \in Seq(Byte)
      /\ n \in Nat => after(end + 1) \in Seq(Byte)
  <2>1. j + 6 \in Nat /\ j + 6 >= 1 /\ (n \in Nat => end + 1 \in Nat /\ end + 1 >= 1)
    BY <1>1
  <2> DEFINE k == j + 6
             m == end + 1
  <2>2. k \in Nat /\ k >= 1 /\ (n \in Nat => m \in Nat /\ m >= 1)
    BY <2>1
  <2> HIDE DEF k, m, end
  <2>3. after(j) \in Seq(Byte) /\ after(k) \in Seq(Byte)
    BY <1>1, <2>2, LeftOver
  <2>4. n \in Nat => after(m) \in Seq(Byte)
    BY <2>2, LeftOver
  <2> QED
    BY <2>3, <2>4 DEF k, m
<1> DEFINE x == after(j)
           y == after(j + 6)
           z == after(end + 1)
           got == ReadFrame(bytes)
<1> HIDE DEF after, end
<1>6. x \in Seq(Byte) /\ y \in Seq(Byte) /\ <<>> \in Seq(Byte) /\ (n \in Nat => z \in Seq(Byte))
  BY <1>5
<1>7. \/ got \in {[how |-> "frame", frame |-> <<>>, line |-> x],
                  [how |-> "timeout", frame |-> <<>>, line |-> <<>>],
                  [how |-> "frame", frame |-> <<>>, line |-> y]}
      \/ /\ n \in Nat
         /\ got \in {[how |-> "ok", frame |-> raw, line |-> z],
                     [how |-> "frame", frame |-> <<>>, line |-> z]}
  BY <1>4
<1> HIDE DEF x, y, z, got
<1>8. got.line \in {x, y, <<>>} \/ (n \in Nat /\ got.line = z)
  BY <1>7
<1>9. got.how \in {"frame", "timeout", "ok"}
  BY <1>7
<1>10. got.line \in Seq(Byte)
  BY <1>6, <1>8
<1> QED
  BY <1>9, <1>10 DEF got

\* The bits of a byte
LEMMA BitsOfByte ==
    ASSUME NEW b \in Byte
    PROVE  Bits[b] \subseteq 0..7
<1> DEFINE X == {i \in 0..7 : (b \div 2^i) % 2 = 1}
<1>1. Bits[b] = X
  BY DEF Bits, Byte
<1>2. X \subseteq 0..7
  OBVIOUS
<1> QED
  BY <1>1, <1>2

\* Some bits of a frame flipped, it is still made of bytes.
LEMMA FlippedBytes ==
    ASSUME NEW frame \in Seq(Byte), NEW flips, flips \subseteq Nat
    PROVE  FlippedIn(frame, flips) \in Seq(Byte)
<1> DEFINE n == Len(frame)
           bit(i) == SymDiff(Bits[frame[i]], {f % 8 : f \in {b \in flips : b \div 8 = i - 1}})
           g == [i \in 1..n |-> Number(bit(i))]
<1>1. DOMAIN frame = 1..n /\ n \in Nat
  OBVIOUS
<1>2. FlippedIn(frame, flips) = g
  BY <1>1 DEF FlippedIn
<1> HIDE DEF bit
<1>3. \A i \in 1..n : Number(bit(i)) \in Byte
  <2> TAKE i \in 1..n
  <2>1. bit(i) \subseteq 0..7
    <3>1. frame[i] \in Byte
      BY <1>1
    <3>2. Bits[frame[i]] \subseteq 0..7
      BY <3>1, BitsOfByte
    <3>3. {f % 8 : f \in {b \in flips : b \div 8 = i - 1}} \subseteq 0..7
      <4> SUFFICES ASSUME NEW f \in flips PROVE f % 8 \in 0..7
        OBVIOUS
      <4> QED
        OBVIOUS
    <3> QED
      BY <3>2, <3>3 DEF bit, SymDiff
  <2> QED
    BY <2>1, NumberTyped, IsByte
<1> HIDE DEF n
<1>4. g \in Seq(Byte)
  BY <1>1, <1>3, FunctionIsSeq
<1> QED
  BY <1>2, <1>4
-----------------------------------------------------------------------------
(***************************************************************************)
(* The inductive invariant.                                                *)
(***************************************************************************)

\* A request is that of a call that is sound; an answer is about a call that is.
CallIs(plant, r) == \E id : CallSound(plant, id, r.q) /\ r.wire = WireOf(plant, id, r.q)
AnswerSound(plant, q, a) ==
    \E id : /\ CallSound(plant, id, q)
            /\ IF plant.proto = "std" THEN StdSound(plant, id, q, a)
               ELSE ModbusSound(plant, id, q, a)

\* What is refused is not allowed, or a later loop over Modbus, or a range is misread.
RefusalSound(plant, q) ==
    \/ ~UnjustifiedIn(plant, q)
    \/ LaterLoopIn(plant, q)
    \/ \E id \in AskedOf(plant, q.ref) : MisreadIn(plant, id)

\* What a bare error is raised for is not allowed, or there is no room for the value.
RaiseSound(plant, q) ==
    \/ ~UnjustifiedIn(plant, q)
    \/ \E id \in AskedOf(plant, q.ref) : NoRoomIn(plant, id, q.value)

\* A value comes with the unit of its parameter.
UnitIs(plant, id, r) ==
    IsText(r.value) \/
      r.unit = CASE RowOf(plant, id).kind = "temperature" -> plant.asserted
                 [] RowOf(plant, id).kind = "percent" -> "%"
                 [] OTHER -> NA

\* A successful call on Modbus is about the parameter asked for; what was read is what
\* the device meant, unless its decimal places were changed since they were identified.
ModbusEnds(plant, p, r, a) ==
    \E id :
       /\ CallSound(plant, id, r.q) /\ r.id = id /\ r.instance = r.q.instance
       /\ Writes(r.q) => WriteSound(plant, id, r.q, a)
       /\ ~Writes(r.q) /\ RowOf(plant, id).addr # NA =>
            /\ a.cell = <<id, 1>> /\ UnitIs(plant, id, r)
            /\ r.value = a.meant \/ (RowOf(plant, id).decimal # NA /\ a.scale # ScaleOf(p))

\* What a call ended with
ResultSound(plant, p, r, a) ==
    /\ r.q \in plant.requests
    /\ r.how = "refused" => RefusalSound(plant, r.q)
    /\ r.how = "raised" => RaiseSound(plant, r.q)
    /\ plant.proto = "std" /\ a # Unanswered => AnswerSound(plant, r.q, a)
    /\ plant.proto # "std" /\ r.how = "ok" => ModbusEnds(plant, p, r, a)

Bounded ==
    /\ link \in DOMAIN Plant /\ places \in 0..3 /\ calls \in 0..MaxCalls
    /\ line \in Seq(Byte)
Listed == RegistrySound(Plant[link], registry, places)
Memory == HeldSound(Plant[link], held)
Asking ==
    request # NONE =>
       /\ result = NONE /\ CallIs(Plant[link], request)
       /\ answer # Unanswered => AnswerSound(Plant[link], request.q, answer)
Ended == result # NONE => ResultSound(Plant[link], places, result, answer)

\* What the calls rest on: the registry is that of the rows, scaled as last identified;
\* the memory holds what the rows say; a request under way is of one documented
\* parameter, its answer is about it, and a call that has ended says what was answered.
IInv == Bounded /\ Listed /\ Memory /\ Asking /\ Ended

-----------------------------------------------------------------------------
\* At the start the registry is the one of the rows, and nothing is asked for.
LEMMA Started == Init => IInv
<1> SUFFICES ASSUME Init PROVE IInv
  OBVIOUS
<1> USE DEF Init
<1> DEFINE plant == Plant[link]
<1>1. Sound(plant)
  BY DEF Sound
<1>2. Bounded
  <2>1. places \in 0..3 /\ calls \in 0..MaxCalls
    BY BoundAssumption
  <2> QED
    BY <2>1 DEF Bounded
<1>3. Listed
  <2>1. registry = RegistryOf(plant.family, plant.rows)
    BY DEF Rows
  <2>2. Tabled(plant)
    BY <1>1, SoundPlant
  <2>3. RegistrySound(plant, RegistryOf(plant.family, plant.rows), 0)
    <3> HIDE DEF plant
    <3> QED
      BY <2>2, RegistryBuilt
  <2>4. RegistrySound(plant, registry, places)
    BY <2>1, <2>3
  <2> QED
    BY <2>4 DEF Listed
<1>4. Memory
  <2>1. held = plant.memory
    OBVIOUS
  <2> HIDE DEF plant, Init
  <2>2. ASSUME NEW cell \in DOMAIN held
        PROVE  /\ Holds(TypeIn(plant, cell[1]), held[cell], Room(plant))
               /\ held[cell] \in Settings(plant, cell)
    <3>1. cell \in DOMAIN plant.memory
      BY <2>1, <2>2
    <3>2. plant.memory[cell] \in Settings(plant, cell)
      BY <1>1, <3>1, CellFacts
    <3>3. Holds(TypeIn(plant, cell[1]), plant.memory[cell], Room(plant))
      BY <1>1, <3>1, <3>2, CellFacts
    <3> QED
      BY <2>1, <3>2, <3>3
  <2> QED
    BY <2>1, <2>2 DEF Memory, HeldSound, plant
<1>5. Asking /\ Ended
  BY DEF Asking, Ended
<1> QED
  BY <1>2, <1>3, <1>4, <1>5 DEF IInv

\* What nothing happens to stays.
LEMMA Stays ==
    ASSUME IInv, UNCHANGED vars
    PROVE  IInv'
BY DEF IInv, Bounded, Listed, Memory, Asking, Ended, vars

\* Somebody sets a parameter at the panel: to one of its settings.
LEMMA PanelKeeps ==
    ASSUME IInv, SetAtPanel
    PROVE  IInv'
<1> DEFINE plant == Plant[link]
<1>1. Sound(plant)
  BY DEF IInv, Bounded, Sound
<1>2. /\ UNCHANGED <<link, registry, places, request, line, answer, result, calls>>
  BY DEF SetAtPanel
<1>3. PICK cell \in DOMAIN plant.panel : \E v \in plant.panel[cell] :
        held' = [held EXCEPT ![cell] = v]
  BY DEF SetAtPanel
<1>4. PICK v \in plant.panel[cell] : held' = [held EXCEPT ![cell] = v]
  BY <1>3
<1>5. DOMAIN held = DOMAIN plant.memory
  BY DEF IInv, Memory, HeldSound
<1>6. HeldSound(plant, held)
  BY DEF IInv, Memory
<1>7. cell \in DOMAIN plant.memory
  BY <1>1, MemoryAssumption DEF Sound
<1>8. v \in Settings(plant, cell) /\ Holds(TypeIn(plant, cell[1]), v, Room(plant))
  <2> HIDE DEF plant
  <2>1. plant.panel[cell] \subseteq Settings(plant, cell)
    BY <1>1, <1>3, <1>7, CellFacts
  <2>2. \A w \in Settings(plant, cell) : Holds(TypeIn(plant, cell[1]), w, Room(plant))
    BY <1>1, <1>7, CellFacts
  <2> QED
    BY <1>4, <2>1, <2>2
<1>9. HeldSound(plant, held')
  <2> HIDE DEF plant
  <2>1. DOMAIN held' = DOMAIN held /\ held'[cell] = v
          /\ \A d \in DOMAIN held \ {cell} : held'[d] = held[d]
    BY <1>4, <1>5, <1>7
  <2>2. ASSUME NEW d \in DOMAIN held'
        PROVE  /\ Holds(TypeIn(plant, d[1]), held'[d], Room(plant))
               /\ RowOf(plant, d[1]).rwes = "R" => held'[d] \in Settings(plant, d)
    <3>1. CASE d = cell
      BY <1>8, <2>1, <3>1
    <3>2. CASE d # cell
      <4>1. d \in DOMAIN held /\ held'[d] = held[d]
        BY <2>1, <2>2, <3>2
      <4> QED
        BY <1>6, <4>1 DEF HeldSound
    <3> QED
      BY <3>1, <3>2
  <2> QED
    BY <1>5, <2>1, <2>2 DEF HeldSound
<1>10. Memory'
  BY <1>2, <1>9 DEF Memory
<1>11. Bounded' /\ Listed' /\ Asking' /\ Ended'
  BY <1>2 DEF IInv, Bounded, Listed, Asking, Ended
<1> QED
  BY <1>10, <1>11 DEF IInv

\* A call that is refused, or that the encoder raises on, ends there.
LEMMA RefuseKeeps ==
    ASSUME IInv, NEW q \in Plant[link].requests, Refuse(q) \/ Raise(q)
    PROVE  IInv'
<1> DEFINE plant == Plant[link]
<1>1. /\ request = NONE /\ calls < MaxCalls /\ calls' = calls + 1 /\ answer' = Unanswered
      /\ UNCHANGED <<link, registry, places, held, line>> /\ request' = request
  BY DEF Refuse, Raise, Call
<1>2. calls' \in 0..MaxCalls
  BY <1>1, BoundAssumption DEF IInv, Bounded
<1>3. Bounded' /\ Listed' /\ Memory' /\ Asking'
  BY <1>1, <1>2 DEF IInv, Bounded, Listed, Memory, Asking
<1>4. link \in DOMAIN Plant /\ RegistrySound(Plant[link], registry, places)
  BY DEF IInv, Bounded, Listed
<1>5. q \in plant.requests
  OBVIOUS
<1> HIDE DEF plant
<1>6. SUFFICES ResultSound(plant, places, result', Unanswered)
  <2>1. Ended'
    BY <1>1, <1>6 DEF Ended, plant
  <2> QED
    BY <1>3, <2>1 DEF IInv
<1>7. CASE Refuse(q)
  <2>1. result' = Failed(q, "refused") /\ ~Accepted(q)
    BY <1>7 DEF Refuse
  <2>2. RefusalSound(plant, q)
    BY <1>4, <1>5, <2>1, NotRefused DEF RefusalSound, plant
  <2>3. result'.q = q /\ result'.how = "refused"
    BY <2>1 DEF Failed
  <2> QED
    BY <1>5, <2>2, <2>3 DEF ResultSound
<1>8. CASE Raise(q)
  <2>1. result' = Failed(q, "raised") /\ Raises(q)
    BY <1>8 DEF Raise
  <2>2. RaiseSound(plant, q)
    BY <1>4, <1>5, <2>1, RaisedForNoRoom DEF RaiseSound, plant
  <2>3. result'.q = q /\ result'.how = "raised"
    BY <2>1 DEF Failed
  <2> QED
    BY <1>5, <2>2, <2>3 DEF ResultSound
<1> QED
  BY <1>7, <1>8

\* A request that goes out is of one parameter that is documented.
LEMMA SendKeeps ==
    ASSUME IInv, NEW q \in Plant[link].requests, Send(q)
    PROVE  IInv'
<1> DEFINE plant == Plant[link]
<1>1. /\ request = NONE /\ calls < MaxCalls /\ calls' = calls + 1 /\ answer' = Unanswered
      /\ UNCHANGED <<link, registry, places, held, line>> /\ result' = NONE
      /\ request' = [q |-> q, wire |-> Encoded(q)] /\ Accepted(q) /\ ~Raises(q)
  BY DEF Send, Call
<1>2. calls' \in 0..MaxCalls
  BY <1>1, BoundAssumption DEF IInv, Bounded
<1>3. Bounded' /\ Listed' /\ Memory' /\ Ended'
  BY <1>1, <1>2 DEF IInv, Bounded, Listed, Memory, Ended
<1>4. link \in DOMAIN Plant /\ RegistrySound(Plant[link], registry, places)
  BY DEF IInv, Bounded, Listed
<1>5. \E id : CallSound(plant, id, q) /\ Encoded(q) = WireOf(plant, id, q)
  BY <1>1, <1>4, Accepts
<1>6. request'.q = q /\ request'.wire = Encoded(q)
  BY <1>1
<1>7. CallIs(plant, request')
  BY <1>5, <1>6 DEF CallIs
<1>8. Asking'
  BY <1>1, <1>7 DEF Asking
<1> QED
  BY <1>3, <1>8 DEF IInv

\* What the device's answer leaves as it was
LEMMA Noting ==
    ASSUME NEW reply, NEW junk, NEW whole, Answers(reply, junk, whole)
    PROVE  /\ held' = reply.memory /\ answer' = AnswerOf(reply, junk, whole)
           /\ UNCHANGED <<link, registry, places, request, result, calls>>
BY DEF Answers, AnswerOf

\* Over Standard Bus the device answers what was asked.
LEMMA AnswerStdBusKeeps ==
    ASSUME IInv, AnswerStdBus
    PROVE  IInv'
<1> DEFINE plant == Plant[link]
           q == request.q
           wire == request.wire
<1>1. /\ link \in DOMAIN Plant /\ plant.proto = "std" /\ request # NONE
      /\ HeldSound(plant, held) /\ line \in Seq(Byte) /\ CallIs(plant, request)
  BY DEF IInv, Bounded, Memory, Asking, AnswerStdBus, Waiting, Std
<1>2. PICK id : CallSound(plant, id, q) /\ wire = WireOf(plant, id, q)
  BY <1>1 DEF CallIs
<1> DEFINE p == PayloadOf(plant, id, q)
<1>3. SubSeq(wire, 9, Len(wire) - 2) = p
  <2>1. Sound(plant)
    BY <1>1 DEF Sound
  <2> HIDE DEF plant, q, wire
  <2> QED
    BY <1>1, <1>2, <2>1, StdPayload
<1>4. PICK reply \in StdReplies(p), damage \in Damage :
        LET noise == damage.noise
            frame == FlippedIn(reply.says, damage.flips)
        IN  /\ line' = line \o noise \o frame
            /\ Answers(reply, line \o noise, frame = reply.says)
  BY <1>3, Zenon DEF AnswerStdBus
<1> DEFINE frame == FlippedIn(reply.says, damage.flips)
           junk == line \o damage.noise
           whole == frame = reply.says
<1>5. /\ line' = line \o damage.noise \o frame
      /\ held' = reply.memory /\ answer' = AnswerOf(reply, junk, whole)
      /\ UNCHANGED <<link, registry, places, request, result, calls>>
  <2>1. line' = line \o damage.noise \o frame /\ Answers(reply, junk, whole)
    BY <1>4
  <2> HIDE DEF frame, junk, whole
  <2> QED
    BY <2>1, Noting
<1> HIDE DEF junk, whole
<1>6. /\ HeldSound(plant, reply.memory) /\ reply.says \in Seq(Byte)
      /\ StdSound(plant, id, q, AnswerOf(reply, junk, whole))
  <2>1. p = PayloadOf(Plant[link], id, q) /\ reply \in StdReplies(p)
    BY <1>4
  <2> HIDE DEF p, q
  <2> QED
    BY <1>1, <1>2, <2>1, StdAnswered
<1>7. line' \in Seq(Byte)
  <2>1. damage.noise \in Seq(Byte) /\ damage.flips \subseteq Nat
    BY <1>4, DamageAssumption DEF Byte
  <2>2. frame \in Seq(Byte)
    BY <1>6, <2>1, FlippedBytes
  <2> HIDE DEF frame
  <2> QED
    BY <1>1, <1>5, <2>1, <2>2
<1>8. Bounded' /\ Listed' /\ Memory' /\ Ended'
  <2>1. result = NONE /\ result' = NONE
    BY <1>1, <1>5 DEF IInv, Asking
  <2> QED
    BY <1>5, <1>6, <1>7, <2>1 DEF IInv, Bounded, Listed, Memory, Ended
<1>9. AnswerSound(plant, q, answer')
  BY <1>1, <1>2, <1>5, <1>6 DEF AnswerSound
<1>10. Asking'
  BY <1>5, <1>9 DEF IInv, Asking
<1> QED
  BY <1>8, <1>10 DEF IInv

\* So it does over Modbus.
LEMMA AnswerModbusKeeps ==
    ASSUME IInv, AnswerModbus
    PROVE  IInv'
<1> DEFINE plant == Plant[link]
           q == request.q
           wire == request.wire
<1>1. /\ link \in DOMAIN Plant /\ plant.proto # "std" /\ request # NONE /\ line' = line
      /\ HeldSound(plant, held) /\ CallIs(plant, request)
  BY DEF IInv, Bounded, Memory, Asking, AnswerModbus, Waiting, Std
<1>2. PICK id : CallSound(plant, id, q) /\ wire = WireOf(plant, id, q)
  BY <1>1 DEF CallIs
<1>3. PICK reply \in ModbusReplies(wire) : Answers(reply, <<>>, TRUE)
  BY DEF AnswerModbus
<1>4. /\ held' = reply.memory /\ answer' = AnswerOf(reply, <<>>, TRUE)
      /\ UNCHANGED <<link, registry, places, request, result, calls>>
  BY <1>3, Noting, Zenon
<1>5. /\ HeldSound(plant, reply.memory)
      /\ ModbusSound(plant, id, q, AnswerOf(reply, <<>>, TRUE))
  <2>1. reply \in ModbusReplies(WireOf(Plant[link], id, q))
    BY <1>2, <1>3
  <2> HIDE DEF q
  <2>2. CASE Writes(q)
    BY <1>1, <1>2, <2>1, <2>2, ModbusWrite
  <2>3. CASE ~Writes(q)
    BY <1>1, <1>2, <2>1, <2>3, ModbusRead
  <2> QED
    BY <2>2, <2>3
<1>6. Bounded' /\ Listed' /\ Memory' /\ Ended'
  <2>1. result = NONE /\ result' = NONE
    BY <1>1, <1>4 DEF IInv, Asking
  <2> QED
    BY <1>1, <1>4, <1>5, <2>1 DEF IInv, Bounded, Listed, Memory, Ended
<1>7. AnswerSound(plant, q, answer')
  BY <1>1, <1>2, <1>4, <1>5 DEF AnswerSound
<1>8. Asking'
  BY <1>4, <1>7 DEF IInv, Asking
<1> QED
  BY <1>6, <1>8 DEF IInv

\* What a call ends with is about what it asked for, and is no refusal.
LEMMA StdEnds ==
    ASSUME NEW q, NEW got
    PROVE  LET r == IF got.how # "ok" THEN Failed(q, got.how)
                    ELSE StdResult(q, DecodePayload(FramePayload(got.frame)))
           IN  r.q = q /\ (got.how \in {"frame", "timeout", "ok"} => r.how \notin {"refused", "raised"})
<1> DEFINE says == DecodePayload(FramePayload(got.frame))
<1> HIDE DEF says
<1>1. \A how : Failed(q, how).q = q /\ Failed(q, how).how = how
  BY DEF Failed
<1>2. ErrorFor(says.code) \notin {"refused", "raised"}
  BY DEF ErrorFor
<1>3. \A id, i, v, k : Reading(q, id, i, v, k).q = q /\ Reading(q, id, i, v, k).how = "ok"
  BY DEF Reading
<1>4. StdResult(q, says).q = q /\ StdResult(q, says).how \notin {"refused", "raised"}
  BY <1>1, <1>2, <1>3 DEF StdResult
<1> QED
  BY <1>1, <1>4 DEF says

\* A call on Standard Bus ends, and leaves the line.
LEMMA ReceiveStdBusKeeps ==
    ASSUME IInv, ReceiveStdBus
    PROVE  IInv'
<1> DEFINE plant == Plant[link]
           q == request.q
           got == ReadFrame(line)
<1>1. /\ plant.proto = "std" /\ request # NONE /\ line \in Seq(Byte) /\ CallIs(plant, request)
      /\ answer # Unanswered => AnswerSound(plant, q, answer)
  BY DEF IInv, Bounded, Asking, ReceiveStdBus, Std
<1>2. /\ line' = got.line
      /\ result' = IF got.how # "ok" THEN Failed(q, got.how)
                   ELSE StdResult(q, DecodePayload(FramePayload(got.frame)))
      /\ request' = NONE /\ UNCHANGED <<link, registry, places, held, answer, calls>>
  BY DEF ReceiveStdBus, Ends
<1>3. got.line \in Seq(Byte) /\ got.how \in {"frame", "timeout", "ok"}
  BY <1>1, LineLeft
<1> HIDE DEF got
<1>4. result'.q = q /\ result'.how \notin {"refused", "raised"}
  BY <1>2, <1>3, StdEnds
<1>5. q \in plant.requests
  BY <1>1 DEF CallIs, CallSound
<1>6. ResultSound(plant, places', result', answer')
  BY <1>1, <1>2, <1>4, <1>5 DEF ResultSound
<1> QED
  BY <1>2, <1>3, <1>6 DEF IInv, Bounded, Listed, Memory, Asking, Ended

\* An error of the bus is an error of the library's own, and no refusal.
LEMMA ErrorsRemapped ==
    ASSUME NEW exc \in DOMAIN Remapped
    PROVE  Remapped[exc] \notin {"ok", "refused", "raised"}
<1>1. exc \in {"IllegalFunction", "UnsupportedFunction", "IllegalDataAddress", "IllegalDataValue",
              "SlaveDeviceFailure", "SlaveDeviceBusy", "FrameTimeout", "TimeoutError", "BusClosed", "ConnectionLost",
              "CRC", "Frame", "Configuration", "UnexpectedResponse", "Modbus"}
  BY Zenon DEF Remapped
<1>2. /\ Remapped.IllegalFunction = "illegal function"
      /\ Remapped.UnsupportedFunction = "illegal function"
      /\ Remapped.IllegalDataAddress = "illegal address"
      /\ Remapped.IllegalDataValue = "illegal value"
      /\ Remapped.SlaveDeviceFailure = "failure"
      /\ Remapped.SlaveDeviceBusy = "failure"
      /\ Remapped.FrameTimeout = "timeout"
      /\ Remapped.TimeoutError = "timeout"
      /\ Remapped.BusClosed = "connection"
      /\ Remapped.ConnectionLost = "connection"
      /\ Remapped.CRC = "frame"
      /\ Remapped.Frame = "frame"
      /\ Remapped.Configuration = "configuration"
      /\ Remapped.UnexpectedResponse = "protocol"
      /\ Remapped.Modbus = "modbus"
  BY Zenon DEF Remapped
<1> QED
  BY <1>1, <1>2

\* What a read on Modbus comes to: what the registers mean at the session's scale
ReadFrom(plant, id, p, r, a) ==
    \E v : /\ Holds(TypeIn(plant, id), v, 16)
           /\ RowOf(plant, id).rwes = "R" => v \in Settings(plant, <<id, 1>>)
           /\ a.cell = <<id, 1>> /\ a.meant = MeantAt(TypeIn(plant, id), v, a.scale)
           /\ RowOf(plant, id).decimal = NA => a.scale = Scale(RowOf(plant, id))
           /\ r.value = MeantAt(TypeIn(plant, id), v,
                                IF RowOf(plant, id).decimal = NA THEN Scale(RowOf(plant, id))
                                ELSE ScaleOf(p))

\* What a call on Modbus comes to
LEMMA ModbusResultIs ==
    ASSUME link \in DOMAIN Plant, Plant[link].proto # "std",
           RegistrySound(Plant[link], registry, places), NEW id, NEW q,
           CallSound(Plant[link], id, q), ModbusSound(Plant[link], id, q, answer)
    PROVE  LET r == ModbusResult(q)
               plant == Plant[link]
           IN  /\ r.q = q /\ r.how \notin {"refused", "raised"}
               /\ r.how = "ok" =>
                    /\ r.id = id /\ r.instance = q.instance /\ UnitIs(plant, id, r)
                    /\ Writes(q) => WriteSound(plant, id, q, answer)
                    /\ ~Writes(q) /\ RowOf(plant, id).addr # NA =>
                         ReadFrom(plant, id, places, r, answer)
<1> DEFINE plant == Plant[link]
           spec == SpecOf(q)
           row == RowOf(plant, id)
           t == TypeIn(plant, id)
           r == ModbusResult(q)
           words == answer.says.words
           scale == IF row.decimal = NA THEN Scale(row) ELSE ScaleOf(places)
<1>1. Sound(plant) /\ id \in IdsOf(plant) /\ q \in plant.requests /\ AskedOf(plant, q.ref) = {id}
  BY DEF Sound, CallSound
<1>2. spec = SpecAt(plant, id, places)
  <2> HIDE DEF plant, spec
  <2>1. Tabled(plant) /\ RequestAssumption(plant, q)
    BY <1>1, SoundPlant
  <2>2. RegistrySound(plant, registry, places) /\ AskedOf(plant, q.ref) # {}
    BY <1>1 DEF plant
  <2>3. Known(registry, q.ref)
    BY <2>1, <2>2, AskedIsKnown
  <2>4. PICK other \in IdsOf(plant) : /\ Resolve(registry, q.ref) = SpecAt(plant, other, places)
                                      /\ AskedOf(plant, q.ref) = {other}
    BY <2>1, <2>2, <2>3, ResolvedIsAsked
  <2>5. other = id
    BY <1>1, <2>4
  <2> QED
    BY <2>4, <2>5 DEF spec, SpecOf
<1> HIDE DEF plant, spec, row, t, scale
<1>3. spec.id = id /\ spec.type = t /\ spec.kind = row.kind /\ spec.scale = scale
  BY <1>1, <1>2, SpecFacts DEF row, t, scale
<1>4. t \in Types /\ (t = "FLOAT" => scale = One)
  BY <1>1, RowFacts DEF row, t, scale
<1>5. \A how : Failed(q, how).q = q /\ Failed(q, how).how = how
  BY DEF Failed
<1>6. ASSUME NEW v
      PROVE  LET reading == Reading(q, id, q.instance, v, row.kind)
             IN  /\ reading.q = q /\ reading.how = "ok" /\ reading.id = id
                 /\ reading.instance = q.instance /\ reading.value = v
                 /\ UnitIs(plant, id, reading)
  <2> DEFINE reading == Reading(q, id, q.instance, v, row.kind)
  <2>1. /\ reading.q = q /\ reading.how = "ok" /\ reading.id = id
        /\ reading.instance = q.instance /\ reading.value = v
        /\ reading.unit = IF IsText(v) THEN NA ELSE ResolveUnit(row.kind, plant.asserted)
    BY DEF Reading, plant
  <2> HIDE DEF reading
  <2>2. UnitIs(plant, id, reading)
    BY <2>1 DEF UnitIs, ResolveUnit, row
  <2> QED
    BY <2>1, <2>2 DEF reading
<1>7. CASE "exception" \in DOMAIN answer.says
  <2>1. r = Failed(q, Remapped[answer.says.exception])
    BY <1>7 DEF ModbusResult
  <2>2. answer.says.exception \in DOMAIN Remapped
    BY <1>7 DEF ModbusSound
  <2>3. \A exc \in DOMAIN Remapped : Remapped[exc] \notin {"ok", "refused", "raised"}
    BY ErrorsRemapped
  <2>4. r.q = q /\ r.how \notin {"ok", "refused", "raised"}
    BY <1>5, <2>1, <2>2, <2>3
  <2> QED
    BY <2>4 DEF plant
<1>8. CASE "exception" \notin DOMAIN answer.says /\ Writes(q)
  <2>1. r = Reading(q, id, q.instance, q.value, row.kind)
    BY <1>3, <1>8 DEF ModbusResult, spec
  <2>2. WriteSound(plant, id, q, answer)
    BY <1>8 DEF ModbusSound, plant
  <2> HIDE DEF r
  <2> QED
    BY <1>6, <1>8, <2>1, <2>2 DEF r, plant
<1>9. CASE "exception" \notin DOMAIN answer.says /\ ~Writes(q) /\ ~DecodableWords(words, t)
  <2>1. r = Failed(q, "protocol")
    BY <1>3, <1>9 DEF ModbusResult, spec
  <2>2. r.q = q /\ r.how = "protocol"
    BY <1>5, <2>1
  <2> QED
    BY <2>2 DEF plant
<1>10. CASE "exception" \notin DOMAIN answer.says /\ ~Writes(q) /\ DecodableWords(words, t)
  <2> DEFINE value == ScaledUp(DecodeWords(words, t), scale)
  <2>1. r = Reading(q, id, q.instance, value, row.kind)
    BY <1>3, <1>10 DEF ModbusResult, spec
  <2> HIDE DEF value, r
  <2>2. /\ r.q = q /\ r.how = "ok" /\ r.id = id /\ r.instance = q.instance
        /\ r.value = value /\ UnitIs(plant, id, r)
    BY <1>6, <2>1
  <2>3. ASSUME row.addr # NA PROVE ReadFrom(plant, id, places, r, answer)
    <3>1. ReadSound(plant, id, answer)
      BY <1>10, <2>3 DEF ModbusSound, plant, row
    <3>2. PICK v : /\ Holds(t, v, 16)
                   /\ row.rwes = "R" => v \in Settings(plant, <<id, 1>>)
                   /\ answer.cell = <<id, 1>> /\ words \in WordsFor(t, v)
                   /\ answer.meant = MeantAt(t, v, answer.scale)
                   /\ row.decimal = NA => answer.scale = Scale(row)
      BY <3>1 DEF ReadSound, t, row
    <3>3. value = MeantAt(t, v, scale)
      <4> HIDE DEF words
      <4> QED
        BY <1>4, <3>2, ReadInWords DEF value
    <3> HIDE DEF words
    <3> QED
      BY <2>2, <3>2, <3>3 DEF ReadFrom, t, row, scale
  <2> QED
    BY <1>10, <2>2, <2>3 DEF r, plant, row
<1> QED
  BY <1>7, <1>8, <1>9, <1>10

\* What a read on Modbus comes to is what was meant, unless the decimal places have
\* changed.
LEMMA ReadEnds ==
    ASSUME NEW plant, NEW id, NEW p, NEW r, NEW a, ReadFrom(plant, id, p, r, a)
    PROVE  /\ a.cell = <<id, 1>>
           /\ r.value = a.meant \/ (RowOf(plant, id).decimal # NA /\ a.scale # ScaleOf(p))
BY DEF ReadFrom

\* What a device is identified by: one of four settings
LEMMA IdentifiedPlaces ==
    ASSUME NEW plant, Sound(plant), plant.proto # "std", NEW id, NEW q, CallSound(plant, id, q),
           q.kind = "identify", NEW p, NEW r, NEW a
    PROVE  /\ RowOf(plant, id).addr # NA /\ RowOf(plant, id).decimal = NA /\ id \in Nat
           /\ \A row \in LoadableRows(plant) : row.decimal \in {NA, id}
           /\ ReadFrom(plant, id, p, r, a) => r.value.num \div One \in 0..3
<1> DEFINE row == RowOf(plant, id)
           t == TypeIn(plant, id)
<1>1. id \in IdsOf(plant) /\ q \in plant.requests /\ AskedOf(plant, q.ref) = {id}
  BY DEF CallSound
<1>2. Tabled(plant) /\ RequestAssumption(plant, q)
  BY <1>1, SoundPlant
<1>3. row \in LoadableRows(plant) /\ row.id = id /\ id \in Nat
  BY <1>1, RowFacts
<1>4. Refers(plant, q.ref, row)
  <2>1. CASE "id" \in DOMAIN q.ref
    BY <1>1, <1>3, <2>1 DEF AskedOf, Refers
  <2>2. CASE "id" \notin DOMAIN q.ref
    BY <1>1, <1>2, <2>2, AskedBears DEF Refers
  <2> QED
    BY <2>1, <2>2
<1> HIDE DEF row
<1>5. /\ row.addr # NA /\ row.scale = NA /\ row.decimal = NA /\ row.rwes = "R"
      /\ DataTypeMap[row.type] = "U16"
      /\ \A v \in Settings(plant, <<id, 1>>) : v.num \div One \in 0..3
      /\ \A other \in LoadableRows(plant) : other.decimal \in {NA, id}
  BY <1>2, <1>3, <1>4 DEF RequestAssumption
<1>6. ASSUME ReadFrom(plant, id, p, r, a)
      PROVE  r.value.num \div One \in 0..3
  <2>1. t = "U16" /\ t \in Integers8
    BY <1>5 DEF TypeIn, row, Integers8
  <2>2. PICK v : /\ Holds(t, v, 16) /\ v \in Settings(plant, <<id, 1>>)
                 /\ r.value = MeantAt(t, v, One)
    BY <1>5, <1>6 DEF ReadFrom, Scale, row
  <2>3. ~IsText(v) /\ v = Num((v.num \div One) * One)
    BY <2>1, <2>2, HeldInteger
  <2>4. r.value = v
    BY <2>1, <2>2, <2>3 DEF MeantAt
  <2> QED
    BY <1>5, <2>2, <2>4
<1> QED
  BY <1>3, <1>5, <1>6 DEF row

\* A call on Modbus ends; once the device is identified its decimal places are known.
LEMMA ReceiveModbusKeeps ==
    ASSUME IInv, ReceiveModbus
    PROVE  IInv'
<1> DEFINE plant == Plant[link]
           q == request.q
           r == ModbusResult(q)
<1>1. /\ link \in DOMAIN Plant /\ plant.proto # "std" /\ request # NONE
      /\ RegistrySound(plant, registry, places) /\ AnswerSound(plant, q, answer)
  BY DEF IInv, Bounded, Listed, Asking, ReceiveModbus, Std
<1>2. /\ result' = r /\ request' = NONE
      /\ UNCHANGED <<link, held, answer, calls, line>>
  BY DEF ReceiveModbus, Ends
<1>3. IF q.kind = "identify" /\ result'.how = "ok"
      THEN /\ places' = result'.value.num \div One
           /\ registry' = WithDecimalPlaces(RegistryOf(plant.family, plant.rows), result'.id,
                                            places')
      ELSE UNCHANGED <<registry, places>>
  BY DEF ReceiveModbus, Rows
<1>4. PICK id : CallSound(plant, id, q) /\ ModbusSound(plant, id, q, answer)
  BY <1>1 DEF AnswerSound
<1>5. Sound(plant)
  BY <1>1 DEF Sound
<1>6. /\ r.q = q /\ r.how \notin {"refused", "raised"}
      /\ r.how = "ok" =>
           /\ r.id = id /\ r.instance = q.instance /\ UnitIs(plant, id, r)
           /\ Writes(q) => WriteSound(plant, id, q, answer)
           /\ ~Writes(q) /\ RowOf(plant, id).addr # NA =>
                ReadFrom(plant, id, places, r, answer)
  <2> HIDE DEF q
  <2> QED
    BY <1>1, <1>4, ModbusResultIs
<1> HIDE DEF r, q, plant
<1>7. ASSUME q.kind = "identify", r.how = "ok"
      PROVE  /\ places' \in 0..3 /\ RegistrySound(plant, registry', places')
             /\ r.how = "ok" => ModbusEnds(plant, places', r, answer)
  <2>1. /\ RowOf(plant, id).addr # NA /\ RowOf(plant, id).decimal = NA /\ id \in Nat
        /\ \A row \in LoadableRows(plant) : row.decimal \in {NA, id}
        /\ ReadFrom(plant, id, places, r, answer) => r.value.num \div One \in 0..3
    BY <1>1, <1>4, <1>5, <1>7, IdentifiedPlaces
  <2>2. ReadFrom(plant, id, places, r, answer) /\ ~Writes(q)
    BY <1>6, <1>7, <2>1 DEF Writes
  <2>3. places' \in 0..3
    BY <1>2, <1>3, <1>7, <2>1, <2>2
  <2>4. RegistrySound(plant, registry', places')
    <3> DEFINE reg == RegistryOf(plant.family, plant.rows)
    <3>1. Tabled(plant)
      BY <1>5, SoundPlant
    <3>2. RegistrySound(plant, reg, 0)
      BY <3>1, RegistryBuilt
    <3>3. registry' = WithDecimalPlaces(reg, id, places')
      BY <1>2, <1>3, <1>6, <1>7
    <3> HIDE DEF reg
    <3>4. \A p : RegistrySound(plant, WithDecimalPlaces(reg, id, p), p)
      BY <2>1, <3>1, <3>2, RegistryIdentified
    <3> QED
      BY <3>3, <3>4
  <2>5. ModbusEnds(plant, places', r, answer)
    <3>1. answer.cell = <<id, 1>> /\ r.value = answer.meant
      BY <2>1, <2>2, ReadEnds
    <3> QED
      BY <1>4, <1>6, <1>7, <2>2, <3>1 DEF ModbusEnds
  <2> QED
    BY <2>3, <2>4, <2>5
<1>8. ASSUME ~(q.kind = "identify" /\ r.how = "ok")
      PROVE  /\ places' \in 0..3 /\ RegistrySound(plant, registry', places')
             /\ r.how = "ok" => ModbusEnds(plant, places', r, answer)
  <2>1. UNCHANGED <<registry, places>>
    BY <1>2, <1>3, <1>8
  <2>2. ASSUME r.how = "ok" PROVE ModbusEnds(plant, places, r, answer)
    <3>1. CASE Writes(q)
      BY <1>4, <1>6, <2>2, <3>1 DEF ModbusEnds
    <3>2. CASE ~Writes(q)
      <4>1. RowOf(plant, id).addr # NA =>
              /\ answer.cell = <<id, 1>>
              /\ \/ r.value = answer.meant
                 \/ RowOf(plant, id).decimal # NA /\ answer.scale # ScaleOf(places)
        BY <1>6, <2>2, <3>2, ReadEnds
      <4> QED
        BY <1>4, <1>6, <2>2, <3>2, <4>1 DEF ModbusEnds
    <3> QED
      BY <3>1, <3>2
  <2>3. places \in 0..3
    BY DEF IInv, Bounded
  <2> QED
    BY <1>1, <2>1, <2>2, <2>3
<1>9. /\ places' \in 0..3 /\ RegistrySound(plant, registry', places')
      /\ r.how = "ok" => ModbusEnds(plant, places', r, answer)
  <2>1. CASE q.kind = "identify" /\ r.how = "ok"
    BY <1>7, <2>1
  <2>2. CASE ~(q.kind = "identify" /\ r.how = "ok")
    BY <1>8, <2>2
  <2> QED
    BY <2>1, <2>2
<1>10. q \in plant.requests
  BY <1>4 DEF CallSound
<1>11. ResultSound(plant, places', result', answer')
  BY <1>1, <1>2, <1>6, <1>9, <1>10 DEF ResultSound
<1> QED
  BY <1>2, <1>9, <1>11 DEF IInv, Bounded, Listed, Memory, Asking, Ended, plant

-----------------------------------------------------------------------------
(***************************************************************************)
(* What follows.                                                           *)
(***************************************************************************)

\* Every step keeps the invariant.
LEMMA StepKeeps ==
    ASSUME IInv, [Next]_vars
    PROVE  IInv'
<1>1. CASE \E q \in Plant[link].requests : Refuse(q) \/ Raise(q) \/ Send(q)
  <2>1. PICK q \in Plant[link].requests : Refuse(q) \/ Raise(q) \/ Send(q)
    BY <1>1
  <2> QED
    BY <2>1, RefuseKeeps, SendKeeps
<1>2. CASE AnswerStdBus
  BY <1>2, AnswerStdBusKeeps
<1>3. CASE AnswerModbus
  BY <1>3, AnswerModbusKeeps
<1>4. CASE ReceiveStdBus
  BY <1>4, ReceiveStdBusKeeps
<1>5. CASE ReceiveModbus
  BY <1>5, ReceiveModbusKeeps
<1>6. CASE SetAtPanel
  BY <1>6, PanelKeeps
<1>7. CASE UNCHANGED vars
  BY <1>7, Stays
<1> QED
  BY <1>1, <1>2, <1>3, <1>4, <1>5, <1>6, <1>7 DEF Next

\* The registry, the memory, the call under way and the last one are always as the
\* invariant says, whatever is asked for, set at the panel, answered or lost.
THEOREM Invariance == Spec => []IInv
<1>1. Init => IInv
  BY Started
<1>2. IInv /\ [Next]_vars => IInv'
  BY StepKeeps
<1> QED
  BY <1>1, <1>2, PTL DEF Spec

\* The invariant has the types.
LEMMA TypesHold ==
    ASSUME IInv
    PROVE  TypeOK
<1> DEFINE plant == Plant[link]
<1>1. Sound(plant) /\ RegistrySound(plant, registry, places)
  BY DEF IInv, Bounded, Listed, Sound
<1>2. DOMAIN registry.by_id = Ids
  BY <1>1, Here DEF RegistrySound
<1>3. ASSUME NEW name \in DOMAIN registry.by_name
      PROVE  registry.by_name[name] = registry.by_id[registry.by_name[name].id]
  <2> HIDE DEF plant
  <2>1. PICK id \in IdsOf(plant) : registry.by_name[name] = SpecAt(plant, id, places)
    BY <1>1, <1>3 DEF RegistrySound
  <2>2. SpecAt(plant, id, places).id = id
    BY <1>1, SpecFacts
  <2>3. registry.by_id[id] = SpecAt(plant, id, places)
    BY <1>1 DEF RegistrySound
  <2> QED
    BY <2>1, <2>2, <2>3
<1>4. \A i \in DOMAIN line : line[i] \in 0..255
  <2>1. line \in Seq(Byte)
    BY DEF IInv, Bounded
  <2>2. \A i \in DOMAIN line : line[i] \in Byte
    BY <2>1
  <2> QED
    BY <2>2, Zenon DEF Byte
<1>5. DOMAIN held = DOMAIN Plant[link].memory
  BY DEF IInv, Memory, HeldSound
<1>6. link \in DOMAIN Plant /\ places \in 0..3 /\ calls \in 0..MaxCalls
  BY DEF IInv, Bounded
<1> QED
  BY <1>2, <1>3, <1>4, <1>5, <1>6 DEF TypeOK

\* The types hold: the decimal places identified are one of four settings whatever the
\* device's registers said, the line is bytes however they were damaged, and the
\* lookups of the session's registry by id and by name agree, before and after the
\* decimal places are identified.
THEOREM Typed == Spec => []TypeOK
<1>1. IInv => TypeOK
  BY TypesHold
<1> QED
  BY <1>1, Invariance, PTL

\* What a successful call on Standard Bus comes to, when the device's answer was taken
StdEnd(plant, id, r, a) ==
    /\ CallSound(plant, id, r.q) /\ r.id = id /\ r.instance = r.q.instance
    /\ UnitIs(plant, id, r)
    /\ a.cell = <<id, r.q.instance>> /\ a.scale = One
    /\ ~Writes(r.q) => r.value = a.meant
    /\ Writes(r.q) => KeptAt(TypeIn(plant, id), r.q.value, a.meant, One)

\* With nothing else taken, a successful call ends with what was answered.
LEMMA StdTaken ==
    ASSUME IInv, Std, Succeeded, NothingElseIsTaken
    PROVE  \E id : StdEnd(Plant[link], id, result, answer)
<1> DEFINE plant == Plant[link]
           q == result.q
           says == DecodePayload(FramePayload(answer.says))
<1>1. /\ result # NONE /\ result.how = "ok" /\ answer # Unanswered
      /\ result = StdResult(q, says)
  BY DEF Succeeded, NothingElseIsTaken
<1>2. /\ plant.proto = "std" /\ Sound(plant) /\ RegistrySound(plant, registry, places)
      /\ AnswerSound(plant, q, answer)
  BY <1>1 DEF IInv, Bounded, Listed, Ended, ResultSound, Std, Sound
<1>3. PICK id : CallSound(plant, id, q) /\ StdSound(plant, id, q, answer)
  BY <1>2 DEF AnswerSound
<1>4. id \in IdsOf(plant) /\ registry.by_id[id].kind = RowOf(plant, id).kind
  <2>1. id \in IdsOf(plant)
    BY <1>3 DEF CallSound
  <2> HIDE DEF plant
  <2>2. SpecAt(plant, id, places).kind = RowOf(plant, id).kind
    BY <1>2, <2>1, SpecFacts
  <2> QED
    BY <1>2, <2>1, <2>2 DEF RegistrySound
<1>5. \/ says.kind = "error"
      \/ /\ says.kind = IF Writes(q) THEN "write" ELSE "read"
         /\ ~says.request /\ says.id = id /\ says.instance = q.instance
         /\ answer.cell = <<id, q.instance>> /\ answer.scale = One
         /\ ~Writes(q) => says.value = answer.meant
         /\ Writes(q) => KeptAt(TypeIn(plant, id), q.value, answer.meant, One)
  BY <1>3 DEF StdSound
<1> HIDE DEF says, q
<1>6. says.kind # "error"
  <2> SUFFICES ASSUME says.kind = "error" PROVE FALSE
    OBVIOUS
  <2>1. result = Failed(q, ErrorFor(says.code))
    BY <1>1 DEF StdResult
  <2>2. ErrorFor(says.code) # "ok"
    BY DEF ErrorFor
  <2> QED
    BY <1>1, <2>1, <2>2 DEF Failed
<1> DEFINE kind == registry.by_id[says.id].kind
           value == says.value
<1>7. result = Reading(q, id, q.instance, value, kind) /\ kind = RowOf(plant, id).kind
  <2>1. says.id \in DOMAIN registry.by_id
    BY <1>2, <1>4, <1>5, <1>6 DEF RegistrySound
  <2>2. ~(says.request \/ (says.kind = "write") # Writes(q) \/ says.id \notin DOMAIN registry.by_id)
    BY <1>5, <1>6, <2>1 DEF Writes
  <2>3. result = Reading(q, says.id, says.instance, value, kind)
    BY <1>1, <1>6, <2>2 DEF StdResult
  <2> QED
    BY <1>4, <1>5, <1>6, <2>3
<1> HIDE DEF kind, value
<1>8. /\ result.id = id /\ result.instance = q.instance /\ result.value = value
      /\ result.unit = IF IsText(value) THEN NA ELSE ResolveUnit(kind, plant.asserted)
  BY <1>7 DEF Reading
<1>9. UnitIs(plant, id, result)
  BY <1>7, <1>8 DEF UnitIs, ResolveUnit
<1>10. StdEnd(plant, id, result, answer)
  BY <1>3, <1>5, <1>6, <1>8, <1>9 DEF StdEnd, q, value
<1> QED
  BY <1>10

\* A read that has ended is true.
LEMMA ReadsEndTrue ==
    ASSUME IInv, NothingElseIsTaken
    PROVE  ReadIsTrue
<1> DEFINE plant == Plant[link]
           q == result.q
<1>1. SUFFICES ASSUME Succeeded, ~Writes(q), Std \/ Addressed(result.id)
               PROVE  \/ TrueReading
                      \/ /\ Documented(result.id).decimal # NA
                         /\ answer.scale # ScaleOf(places)
  BY DEF ReadIsTrue
<1>2. result # NONE /\ result.how = "ok" /\ ResultSound(plant, places, result, answer)
  BY <1>1 DEF Succeeded, IInv, Ended
<1>3. /\ \A id : Documented(id) = RowOf(plant, id) /\ (Addressed(id) <=> RowOf(plant, id).addr # NA)
      /\ \A ref : Asked(ref) = AskedOf(plant, ref)
      /\ Std <=> plant.proto = "std"
  BY Here
<1>4. CASE Std
  <2>1. PICK id : StdEnd(plant, id, result, answer)
    BY <1>1, <1>4, StdTaken
  <2>2. AskedOf(plant, q.ref) = {id}
    BY <2>1 DEF StdEnd, CallSound
  <2> QED
    BY <1>1, <1>3, <2>1, <2>2 DEF StdEnd, UnitIs, TrueReading
<1>5. CASE ~Std
  <2>1. PICK id : /\ CallSound(plant, id, q) /\ result.id = id /\ result.instance = q.instance
                  /\ ~Writes(q) /\ RowOf(plant, id).addr # NA =>
                       /\ answer.cell = <<id, 1>> /\ UnitIs(plant, id, result)
                       /\ \/ result.value = answer.meant
                          \/ RowOf(plant, id).decimal # NA /\ answer.scale # ScaleOf(places)
    BY <1>2, <1>3, <1>5 DEF ResultSound, ModbusEnds
  <2>2. AskedOf(plant, q.ref) = {id} /\ q.instance = 1
    BY <1>3, <1>5, <2>1 DEF CallSound
  <2>3. RowOf(plant, id).addr # NA
    BY <1>1, <1>3, <1>5, <2>1
  <2> QED
    BY <1>1, <1>3, <2>1, <2>2, <2>3 DEF UnitIs, TrueReading
<1> QED
  BY <1>4, <1>5

\* A write that is acknowledged has been done; a refusal has a reason.
LEMMA WritesEndKept ==
    ASSUME IInv, NothingElseIsTaken
    PROVE  WriteIsKept
<1> DEFINE plant == Plant[link]
<1>1. /\ \A id : Documented(id) = RowOf(plant, id) /\ TypeOf(id) = TypeIn(plant, id)
      /\ \A id, v : /\ Documents(id, v) <=> DocumentsIn(plant, id, v)
                    /\ NoRoom(id, v) <=> NoRoomIn(plant, id, v)
      /\ \A id : Misread(id) <=> MisreadIn(plant, id)
      /\ \A ref : Asked(ref) = AskedOf(plant, ref)
      /\ \A q : /\ Unjustified(q) <=> UnjustifiedIn(plant, q)
                /\ LaterLoop(q) <=> LaterLoopIn(plant, q)
      /\ Std <=> plant.proto = "std"
  BY Here
<1>2. ASSUME request # NONE, Writes(request.q)
      PROVE  \A id \in Asked(request.q.ref) :
                Documented(id).rwes # "R" /\ Documents(id, request.q.value)
  <2>1. PICK id : CallSound(plant, id, request.q)
    BY <1>2 DEF IInv, Asking, CallIs
  <2>2. /\ AskedOf(plant, request.q.ref) = {id} /\ RowOf(plant, id).rwes # "R"
        /\ DocumentsIn(plant, id, request.q.value)
    BY <1>2, <2>1 DEF CallSound
  <2> HIDE DEF plant
  <2> QED
    BY <1>1, <2>2
<1>3. ASSUME result # NONE, result.how = "refused"
      PROVE  \/ ~Unjustified(result.q)
             \/ LaterLoop(result.q)
             \/ \E id \in Asked(result.q.ref) : Misread(id)
  <2>1. RefusalSound(plant, result.q)
    BY <1>3 DEF IInv, Ended, ResultSound
  <2> HIDE DEF plant
  <2> QED
    BY <1>1, <2>1 DEF RefusalSound
<1>4. ASSUME result # NONE, result.how = "raised"
      PROVE  \/ ~Unjustified(result.q)
             \/ \E id \in Asked(result.q.ref) : NoRoom(id, result.q.value)
  <2>1. RaiseSound(plant, result.q)
    BY <1>4 DEF IInv, Ended, ResultSound
  <2> HIDE DEF plant
  <2> QED
    BY <1>1, <2>1 DEF RaiseSound
<1>5. ASSUME Succeeded, Writes(result.q)
      PROVE  /\ {result.id} = Asked(result.q.ref)
             /\ answer.cell = <<result.id, result.q.instance>>
             /\ \/ Kept(result.id, result.q.value, answer.meant, answer.scale)
                \/ Wraps(result.id, result.q.value, answer.scale)
  <2>1. ASSUME NEW asked, NEW meant, NEW scale
        PROVE  /\ KeptAt(TypeOf(result.id), asked, meant, scale)
                    <=> Kept(result.id, asked, meant, scale)
               /\ ~Std /\ WrapsAt(TypeOf(result.id), asked, scale)
                    => Wraps(result.id, asked, scale)
    BY DEF KeptAt, Kept, WrapsAt, Wraps
  <2>2. CASE Std
    <3>1. PICK id : StdEnd(plant, id, result, answer)
      BY <1>5, <2>2, StdTaken
    <3>2. AskedOf(plant, result.q.ref) = {id}
      BY <3>1 DEF StdEnd, CallSound
    <3>3. result.id = id /\ answer.cell = <<id, result.q.instance>>
      BY <3>1 DEF StdEnd
    <3>4. KeptAt(TypeIn(plant, id), result.q.value, answer.meant, answer.scale)
      BY <1>5, <3>1 DEF StdEnd
    <3> HIDE DEF plant
    <3> QED
      BY <1>1, <2>1, <3>2, <3>3, <3>4
  <2>3. CASE ~Std
    <3>1. ResultSound(plant, places, result, answer) /\ result.how = "ok"
      BY <1>5 DEF Succeeded, IInv, Ended
    <3>2. PICK id : /\ CallSound(plant, id, result.q) /\ result.id = id
                    /\ WriteSound(plant, id, result.q, answer)
      BY <1>1, <1>5, <2>3, <3>1 DEF ResultSound, ModbusEnds
    <3>3. AskedOf(plant, result.q.ref) = {id} /\ result.q.instance = 1
      BY <1>1, <2>3, <3>2 DEF CallSound
    <3>4. /\ answer.cell = <<id, 1>>
          /\ \/ KeptAt(TypeIn(plant, id), result.q.value, answer.meant, answer.scale)
             \/ WrapsAt(TypeIn(plant, id), result.q.value, answer.scale)
      BY <3>2 DEF WriteSound
    <3> HIDE DEF plant
    <3> QED
      BY <1>1, <2>1, <2>3, <3>2, <3>3, <3>4
  <2> QED
    BY <2>2, <2>3
<1> QED
  BY <1>2, <1>3, <1>4, <1>5 DEF WriteIsKept

\* As long as on Standard Bus nothing but an intact answer is taken for one, a
\* successful read is true: of the parameter asked for, by id, name or alias, and what
\* the device's memory meant, through tags, registers, scales and texts, for every
\* table of rows, every memory and every sequence of calls and settings.
THEOREM ReadsAreTrue == Spec => [](NothingElseIsTaken => ReadIsTrue)
<1>1. IInv => (NothingElseIsTaken => ReadIsTrue)
  BY ReadsEndTrue
<1> QED
  BY <1>1, Invariance, PTL

\* So an acknowledged write has left what was asked for, rounded or wrapped as the
\* parameter's registers make it, nothing undocumented is sent, and nothing documented is
\* refused but where a range is misread and for the later loops over Modbus, which the
\* code refuses; a bare error is raised for nothing documented but values that the
\* parameter's type has no room for.
THEOREM WritesAreKept == Spec => [](NothingElseIsTaken => WriteIsKept)
<1>1. IInv => (NothingElseIsTaken => WriteIsKept)
  BY WritesEndKept
<1> QED
  BY <1>1, Invariance, PTL

\* Over Modbus both hold as they are.
THEOREM ModbusIsTrue == Spec => [](~Std => ReadIsTrue /\ WriteIsKept)
<1>1. IInv => (~Std => ReadIsTrue /\ WriteIsKept)
  <2> SUFFICES ASSUME IInv, ~Std PROVE ReadIsTrue /\ WriteIsKept
    OBVIOUS
  <2>1. NothingElseIsTaken
    BY DEF NothingElseIsTaken
  <2> QED
    BY <2>1, ReadsEndTrue, WritesEndKept
<1> QED
  BY <1>1, Invariance, PTL
=============================================================================
