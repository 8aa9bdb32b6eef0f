------------------------------ MODULE AluProofs ------------------------------
(***************************************************************************)
(* What the arithmetic of Alu computes for words of every width and for    *)
(* every operand.                                                          *)
(***************************************************************************)
EXTENDS Idioms, InductionProofs

(* Powers of two                                                           *)

Doubles(p, n) == p[0] = 1 /\ \A i \in 1..n : p[i] = 2 * p[i - 1]

(* The recursive function of Pow exists.                                   *)
LEMMA PowFunction ==
  ASSUME NEW n \in Nat
  PROVE  \E p \in [0..n -> Nat \ {0}] : Doubles(p, n) /\ Pow(n) = p[n]
  <1> DEFINE X == Nat \ {0}
             G == [i \in 1..n |-> [x \in X |-> 2 * x]]
             D(p) == p = [i \in 0..n |-> IF i = 0 THEN 1 ELSE 2 * p[i - 1]]
             c == CHOOSE p : D(p)
  <1>1. PICK f \in [0..n -> X] : Iterates(f, n, 1, G)
    <2>1. G \in [1..n -> [X -> X]] /\ 1 \in X
      OBVIOUS
    <2> HIDE DEF G, X
    <2> QED
      BY <2>1, Iteration
  <1>2. \A i \in 1..n : f[i] = 2 * f[i - 1]
    <2>1. \A i \in 1..n : f[i - 1] \in X
      OBVIOUS
    <2> QED
      BY <1>1, <2>1 DEF Iterates
  <1>3. f[0] = 1 /\ f = [i \in 0..n |-> f[i]]
    <2> HIDE DEF G, X
    <2> QED
      BY <1>1 DEF Iterates
  <1> HIDE DEF G
  <1>4. D(f)
    <2>1. \A i \in 0..n : f[i] = IF i = 0 THEN 1 ELSE 2 * f[i - 1]
      <3>1. \A i \in 0..n : i = 0 \/ i \in 1..n
        OBVIOUS
      <3> HIDE DEF X
      <3> QED
        BY <3>1, <1>2, <1>3
    <2> HIDE DEF X
    <2> QED
      BY <2>1, <1>3
  <1>5. D(c)
    <2> HIDE DEF D
    <2> QED
      BY <1>4
  <1>6. Pow(n) = c[n]
    BY DEF Pow
  <1> HIDE DEF c
  <1>7. DOMAIN c = 0..n /\ Doubles(c, n)
    BY <1>5 DEF Doubles
  <1>8. c \in [0..n -> X]
    <2> DEFINE T == {i \in 0..n : c[i] \in X}
    <2>1. 0 \in T
      BY <1>7 DEF Doubles
    <2>2. \A i \in 1..n : i - 1 \in T => i \in T
      BY <1>7 DEF Doubles
    <2>3. 0..n \subseteq T
      <3> HIDE DEF T
      <3> QED
        BY <2>1, <2>2, Upwards
    <2>4. c = [i \in 0..n |-> c[i]]
      BY <1>5
    <2>5. \A i \in 0..n : c[i] \in X
      BY <2>3
    <2> HIDE DEF T, X, D
    <2> QED
      BY <2>4, <2>5
  <1> HIDE DEF D
  <1> QED
    BY <1>6, <1>7, <1>8

LEMMA PowNext ==
  ASSUME NEW n \in Nat
  PROVE  Pow(n) \in Nat \ {0} /\ Pow(0) = 1 /\ Pow(n + 1) = 2 * Pow(n)
  <1>0. n + 1 \in Nat /\ 0 \in Nat
    OBVIOUS
  <1>1. PICK p \in [0..n -> Nat \ {0}] : Doubles(p, n) /\ Pow(n) = p[n]
    BY PowFunction
  <1>2. PICK q \in [0..(n + 1) -> Nat \ {0}] : Doubles(q, n + 1) /\ Pow(n + 1) = q[n + 1]
    BY <1>0, PowFunction
  <1>3. PICK z \in [0..0 -> Nat \ {0}] : Doubles(z, 0) /\ Pow(0) = z[0]
    BY <1>0, PowFunction
  <1>4. Pow(0) = 1
    BY <1>3 DEF Doubles
  <1> DEFINE T == {i \in 0..n : q[i] = p[i]}
  <1>5. 0 \in T
    BY <1>1, <1>2 DEF Doubles
  <1>6. \A i \in 1..n : i - 1 \in T => i \in T
    BY <1>1, <1>2 DEF Doubles
  <1>7. 0..n \subseteq T
    <2> HIDE DEF T
    <2> QED
      BY <1>5, <1>6, Upwards
  <1>8. q[n] = p[n]
    BY <1>7
  <1>9. q[n + 1] = 2 * q[n]
    <2>1. (n + 1) \in 1..(n + 1) /\ (n + 1) - 1 = n
      OBVIOUS
    <2> QED
      BY <1>2, <2>1 DEF Doubles
  <1> QED
    BY <1>1, <1>2, <1>4, <1>8, <1>9

LEMMA PowAdd ==
  ASSUME NEW m \in Nat, NEW n \in Nat
  PROVE  Pow(m + n) = Pow(m) * Pow(n)
  <1> DEFINE T == {i \in 0..n : Pow(m + i) = Pow(m) * Pow(i)}
  <1>1. 0 \in T
    BY PowNext
  <1>2. ASSUME NEW i \in 1..n, i - 1 \in T PROVE i \in T
    <2>1. i - 1 \in Nat /\ m + (i - 1) \in Nat /\ (i - 1) + 1 = i
          /\ (m + (i - 1)) + 1 = m + i
      OBVIOUS
    <2>2. Pow(m + i) = 2 * Pow(m + (i - 1)) /\ Pow(i) = 2 * Pow(i - 1)
      BY <2>1, PowNext
    <2>3. Pow(m + (i - 1)) = Pow(m) * Pow(i - 1)
      BY <1>2
    <2>4. Pow(m) \in Nat /\ Pow(i - 1) \in Nat
      BY <2>1, PowNext
    <2>5. 2 * (Pow(m) * Pow(i - 1)) = Pow(m) * (2 * Pow(i - 1))
      BY <2>4
    <2> QED
      BY <2>2, <2>3, <2>5
  <1>3. 0..n \subseteq T
    <2> HIDE DEF T
    <2> QED
      BY <1>1, <1>2, Upwards
  <1> QED
    BY <1>3

LEMMA PowGrows ==
  ASSUME NEW m \in Nat, NEW n \in Nat, m <= n
  PROVE  Pow(m) <= Pow(n)
  <1>1. n - m \in Nat /\ m + (n - m) = n
    OBVIOUS
  <1>2. Pow(n) = Pow(m) * Pow(n - m)
    BY <1>1, PowAdd
  <1>3. Pow(m) \in Nat \ {0} /\ Pow(n - m) \in Nat \ {0}
    BY <1>1, PowNext
  <1> QED
    BY <1>2, <1>3

-----------------------------------------------------------------------------
(* Sums                                                                    *)

Adds(s, f, n) == s[0] = 0 /\ \A i \in 1..n : s[i] = s[i - 1] + f[i]

(* The recursive function of Sum exists.                                   *)
LEMMA SumFunction ==
  ASSUME NEW n \in Nat, NEW f, \A i \in 1..n : f[i] \in Int
  PROVE  \E s \in [0..n -> Int] : Adds(s, f, n) /\ Sum(f, n) = s[n]
  <1> DEFINE G == [i \in 1..n |-> [x \in Int |-> x + f[i]]]
             D(s) == s = [i \in 0..n |-> IF i = 0 THEN 0 ELSE s[i - 1] + f[i]]
             c == CHOOSE s : D(s)
  <1>1. PICK g \in [0..n -> Int] : Iterates(g, n, 0, G)
    <2>1. G \in [1..n -> [Int -> Int]] /\ 0 \in Int
      OBVIOUS
    <2> HIDE DEF G
    <2> QED
      BY <2>1, Iteration
  <1>2. \A i \in 1..n : g[i] = g[i - 1] + f[i]
    <2>1. \A i \in 1..n : g[i - 1] \in Int
      OBVIOUS
    <2> QED
      BY <1>1, <2>1 DEF Iterates
  <1>3. g[0] = 0 /\ g = [i \in 0..n |-> g[i]]
    <2> HIDE DEF G
    <2> QED
      BY <1>1 DEF Iterates
  <1> HIDE DEF G
  <1>4. D(g)
    <2>1. \A i \in 0..n : i = 0 \/ i \in 1..n
      OBVIOUS
    <2>2. \A i \in 0..n : g[i] = IF i = 0 THEN 0 ELSE g[i - 1] + f[i]
      BY <2>1, <1>2, <1>3
    <2> QED
      BY <2>2, <1>3
  <1>5. D(c)
    <2> HIDE DEF D
    <2> QED
      BY <1>4
  <1>6. Sum(f, n) = c[n]
    BY DEF Sum
  <1> HIDE DEF c
  <1>7. DOMAIN c = 0..n /\ Adds(c, f, n)
    BY <1>5 DEF Adds
  <1>8. c \in [0..n -> Int]
    <2> DEFINE T == {i \in 0..n : c[i] \in Int}
    <2>1. 0 \in T
      BY <1>7 DEF Adds
    <2>2. \A i \in 1..n : i - 1 \in T => i \in T
      <3> SUFFICES ASSUME NEW i \in 1..n, c[i - 1] \in Int
                   PROVE  i \in 0..n /\ c[i] \in Int
        OBVIOUS
      <3>1. f[i] \in Int /\ c[i] = c[i - 1] + f[i]
        BY <1>7 DEF Adds
      <3> QED
        BY <3>1
    <2>3. 0..n \subseteq T
      <3> HIDE DEF T
      <3> QED
        BY <2>1, <2>2, Upwards
    <2>4. c = [i \in 0..n |-> c[i]]
      BY <1>5
    <2>5. \A i \in 0..n : c[i] \in Int
      BY <2>3
    <2> HIDE DEF T, D
    <2> QED
      BY <2>4, <2>5
  <1> HIDE DEF D
  <1> QED
    BY <1>6, <1>7, <1>8

LEMMA SumNext ==
  ASSUME NEW n \in Nat, NEW f, \A i \in 1..(n + 1) : f[i] \in Int
  PROVE  /\ Sum(f, 0) = 0
         /\ Sum(f, n) \in Int
         /\ Sum(f, n + 1) = Sum(f, n) + f[n + 1]
  <1>0. n + 1 \in Nat /\ 0 \in Nat /\ \A i \in 1..n : f[i] \in Int
    OBVIOUS
  <1>1. PICK p \in [0..n -> Int] : Adds(p, f, n) /\ Sum(f, n) = p[n]
    BY <1>0, SumFunction
  <1>2. PICK q \in [0..(n + 1) -> Int] : Adds(q, f, n + 1) /\ Sum(f, n + 1) = q[n + 1]
    BY <1>0, SumFunction
  <1>3. PICK z \in [0..0 -> Int] : Adds(z, f, 0) /\ Sum(f, 0) = z[0]
    <2>1. \A i \in 1..0 : f[i] \in Int
      OBVIOUS
    <2> QED
      BY <2>1, <1>0, SumFunction
  <1>4. Sum(f, 0) = 0
    BY <1>3 DEF Adds
  <1> DEFINE T == {i \in 0..n : q[i] = p[i]}
  <1>5. 0 \in T
    BY <1>1, <1>2 DEF Adds
  <1>6. \A i \in 1..n : i - 1 \in T => i \in T
    BY <1>1, <1>2 DEF Adds
  <1>7. 0..n \subseteq T
    <2> HIDE DEF T
    <2> QED
      BY <1>5, <1>6, Upwards
  <1>8. q[n] = p[n]
    BY <1>7
  <1>9. q[n + 1] = q[n] + f[n + 1]
    <2>1. (n + 1) \in 1..(n + 1) /\ (n + 1) - 1 = n
      OBVIOUS
    <2> QED
      BY <1>2, <2>1 DEF Adds
  <1> QED
    BY <1>1, <1>2, <1>4, <1>8, <1>9

LEMMA SumSteps ==
  ASSUME NEW n \in Nat, NEW f, \A i \in 1..n : f[i] \in Int
  PROVE  /\ Sum(f, 0) = 0
         /\ \A k \in 0..n : Sum(f, k) \in Int
         /\ \A k \in 1..n : Sum(f, k) = Sum(f, k - 1) + f[k]
  <1>1. ASSUME NEW k \in 1..n
        PROVE  /\ Sum(f, 0) = 0 /\ Sum(f, k - 1) \in Int
               /\ Sum(f, k) = Sum(f, k - 1) + f[k]
    <2>1. k - 1 \in Nat /\ (k - 1) + 1 = k /\ \A i \in 1..k : f[i] \in Int
      OBVIOUS
    <2> DEFINE j == k - 1
    <2>2. j \in Nat /\ \A i \in 1..(j + 1) : f[i] \in Int
      BY <2>1
    <2> HIDE DEF j
    <2>3. Sum(f, 0) = 0 /\ Sum(f, j) \in Int /\ Sum(f, j + 1) = Sum(f, j) + f[j + 1]
      BY <2>2, SumNext
    <2> QED
      BY <2>1, <2>3 DEF j
  <1>2. Sum(f, 0) = 0
    <2>1. \A i \in 1..0 : f[i] \in Int
      OBVIOUS
    <2>2. PICK z \in [0..0 -> Int] : Adds(z, f, 0) /\ Sum(f, 0) = z[0]
      BY <2>1, SumFunction
    <2> QED
      BY <2>2 DEF Adds
  <1>3. ASSUME NEW k \in 0..n PROVE Sum(f, k) \in Int
    <2>1. k = 0 \/ k \in 1..n
      OBVIOUS
    <2>2. CASE k \in 1..n
      <3>1. f[k] \in Int /\ Sum(f, k - 1) \in Int /\ Sum(f, k) = Sum(f, k - 1) + f[k]
        BY <1>1, <2>2
      <3> QED
        BY <3>1
    <2> QED
      BY <1>2, <2>1, <2>2
  <1> QED
    BY <1>1, <1>2, <1>3

-----------------------------------------------------------------------------
(* Words                                                                   *)

LEMMA Sizes ==
  /\ Width \in Nat /\ Half \in Nat \ {0} /\ Quarter \in Nat \ {0}
  /\ Width = 2 * Half /\ Half = 2 * Quarter /\ Width >= 4
  /\ \A n \in {0, 1, Quarter, Half - 1, Half, Width - 1, Width} :
       n \in Nat /\ Pow(n) \in Nat \ {0}
  /\ Pow(0) = 1 /\ Pow(1) = 2
  /\ Pow(Half) = Pow(Quarter) * Pow(Quarter)
  /\ Pow(Half) = 2 * Pow(Half - 1)
  /\ N = Pow(Half) * Pow(Half) /\ N = 2 * Pow(Width - 1)
  /\ Pow(Quarter) >= 2 /\ N >= 16
  <1>1. Width \in Nat /\ Width % 4 = 0 /\ Width > 0
    BY AluAssumption
  <1>2. PICK k \in Int : Width = 4 * k
    <2>1. Width \div 4 \in Int /\ Width = 4 * (Width \div 4)
      BY <1>1
    <2> QED
      BY <2>1
  <1>3. Half = 2 * k /\ Quarter = k /\ k \in Nat \ {0}
    BY <1>1, <1>2 DEF Half, Quarter
  <1>4. /\ Width \in Nat /\ Half \in Nat \ {0} /\ Quarter \in Nat \ {0}
        /\ Width = Half + Half /\ Half = Quarter + Quarter /\ Width >= 4
        /\ Half - 1 \in Nat /\ Width - 1 \in Nat
        /\ (Half - 1) + 1 = Half /\ (Width - 1) + 1 = Width
        /\ 0 + 1 = 1 /\ 2 \in Nat /\ 4 \in Nat /\ 2 <= Half /\ 1 <= Quarter
    BY <1>2, <1>3
  <1> HIDE DEF Half, Quarter
  <1>5. \A n \in {0, 1, Quarter, Half - 1, Half, Width - 1, Width} :
          n \in Nat /\ Pow(n) \in Nat \ {0}
    BY <1>4, PowNext
  <1>6. Pow(0) = 1 /\ Pow(1) = 2
    <2>1. Pow(0) = 1 /\ Pow(0 + 1) = 2 * Pow(0)
      BY PowNext
    <2> QED
      BY <2>1, <1>4
  <1>7. Pow(Half) = Pow(Quarter) * Pow(Quarter) /\ N = Pow(Half) * Pow(Half)
    BY <1>4, PowAdd DEF N
  <1>8. Pow(Half) = 2 * Pow(Half - 1)
    <2>1. Pow((Half - 1) + 1) = 2 * Pow(Half - 1)
      BY <1>4, PowNext
    <2> QED
      BY <2>1, <1>4
  <1>9. N = 2 * Pow(Width - 1)
    <2>1. Pow((Width - 1) + 1) = 2 * Pow(Width - 1)
      BY <1>4, PowNext
    <2> QED
      BY <2>1, <1>4 DEF N
  <1>10. Pow(Quarter) >= 2
    BY <1>4, <1>5, <1>6, PowGrows
  <1>11. Pow(Half) >= 4
    BY <1>5, <1>7, <1>10
  <1>12. N >= 16
    BY <1>5, <1>7, <1>11
  <1>13. Width = 2 * Half /\ Half = 2 * Quarter
    BY <1>4
  <1> QED
    BY <1>4, <1>5, <1>6, <1>7, <1>8, <1>9, <1>10, <1>12, <1>13

(* Quotient and remainder are the only ones that make the number.          *)
LEMMA DivMod ==
  ASSUME NEW n \in Nat \ {0}, NEW q \in Int, NEW r \in 0..(n - 1)
  PROVE  (n * q + r) % n = r /\ (n * q + r) \div n = q
  <1>1. ASSUME NEW x \in Int, x = n * q + r PROVE x % n = r /\ x \div n = q
    BY <1>1
  <1> QED
    BY <1>1

LEMMA DivisionLeaves ==
  ASSUME NEW u \in Nat, NEW v \in Nat \ {0}
  PROVE  u \div v \in Int /\ u % v \in 0..(v - 1) /\ u = v * (u \div v) + (u % v)
  OBVIOUS

LEMMA DivisionNat ==
  ASSUME NEW u \in Nat, NEW v \in Nat \ {0}
  PROVE  u \div v \in 0..u /\ (u < v => u \div v = 0)
  OBVIOUS

LEMMA OnceMore ==
  ASSUME NEW n \in Nat \ {0}, NEW r \in 0..(n - 1)
  PROVE  (n + r) % n = r /\ (n + r) \div n = 1
  OBVIOUS

LEMMA ModMultiple ==
  ASSUME NEW n \in Nat \ {0}, NEW x \in Int, NEW q \in Int
  PROVE  (x + n * q) % n = x % n
  <1> DEFINE d == x \div n
             r == x % n
  <1>1. d \in Int /\ r \in 0..(n - 1) /\ x = n * d + r
    OBVIOUS
  <1> HIDE DEF d, r
  <1>2. d + q \in Int /\ x + n * q = n * (d + q) + r
    BY <1>1
  <1>3. (n * (d + q) + r) % n = r
    BY <1>1, <1>2, DivMod
  <1> QED
    BY <1>2, <1>3 DEF r

LEMMA NIsNat == N \in Nat /\ N >= 16 /\ N % 2 = 0
  <1>1. N = 2 * Pow(Width - 1) /\ Pow(Width - 1) \in Nat /\ N >= 16
    BY Sizes
  <1> QED
    BY <1>1

LEMMA CutIsWord ==
  ASSUME NEW x \in Int
  PROVE  Cut(x) \in Word
  BY NIsNat DEF Cut, Word

(* What a sum, a difference or a sign extension is cut to.                 *)
LEMMA CutNear ==
  ASSUME NEW x \in Int
  PROVE  /\ x \in Word => Cut(x) = x
         /\ x >= N /\ x < 2 * N => Cut(x) = x - N
         /\ x < 0 /\ x >= -N => Cut(x) = x + N
  <1>1. N \in Nat /\ N > 0
    BY NIsNat
  <1>2. x \in Word => Cut(x) = x
    BY <1>1 DEF Cut, Word
  <1>3. x >= N /\ x < 2 * N => Cut(x) = x - N
    BY <1>1 DEF Cut
  <1>4. x < 0 /\ x >= -N => Cut(x) = x + N
    BY <1>1 DEF Cut
  <1> QED
    BY <1>2, <1>3, <1>4

LEMMA CutMultiple ==
  ASSUME NEW x \in Int, NEW q \in Int
  PROVE  Cut(x + N * q) = Cut(x)
  <1>1. N \in Nat \ {0}
    BY NIsNat
  <1> QED
    BY <1>1, ModMultiple, Zenon DEF Cut

LEMMA CutOf ==
  ASSUME NEW x \in Int
  PROVE  \E q \in Int : x = Cut(x) + N * q
  <1>1. N \in Nat /\ N > 0
    BY NIsNat
  <1>2. x = N * (x \div N) + (x % N) /\ x \div N \in Int
    BY <1>1
  <1> QED
    BY <1>2, <1>1 DEF Cut

LEMMA SignedIsInt ==
  ASSUME NEW w \in Word
  PROVE  /\ Signed(w) \in Int /\ 2 * Signed(w) >= -N /\ 2 * Signed(w) < N
         /\ Signed(w) \in {w, w - N}
         /\ Signed(w) >= 0 <=> 2 * w < N
         /\ Signed(w) = 0 <=> w = 0
  BY NIsNat DEF Signed, Word

(* Numbers that differ by a multiple of N are cut to the same word.        *)
LEMMA CutSame ==
  ASSUME NEW x \in Int, NEW y \in Int, NEW q \in Int, x = y + N * q
  PROVE  Cut(x) = Cut(y)
  BY CutMultiple

(* Sums and products may be cut before or after.                           *)
LEMMA CutInside ==
  ASSUME NEW x \in Int, NEW y \in Int
  PROVE  /\ Cut(Cut(x) + y) = Cut(x + y)
         /\ Cut(x + Cut(y)) = Cut(x + y)
         /\ Cut(Cut(x) * y) = Cut(x * y)
         /\ Cut(x * Cut(y)) = Cut(x * y)
         /\ Cut(x - Cut(y)) = Cut(x - y)
  <1>1. N \in Int /\ Cut(x) \in Int /\ Cut(y) \in Int
    BY NIsNat, CutIsWord DEF Word
  <1>2. PICK i \in Int : x = Cut(x) + N * i
    BY CutOf
  <1>3. PICK j \in Int : y = Cut(y) + N * j
    BY CutOf
  <1> DEFINE u == Cut(x)
             v == Cut(y)
  <1>4. u \in Int /\ v \in Int /\ x = u + N * i /\ y = v + N * j
    BY <1>1, <1>2, <1>3
  <1> HIDE DEF u, v
  <1>5. x + y = (u + y) + N * i /\ u + y \in Int /\ x + y \in Int
    BY <1>1, <1>4
  <1>6. x + y = (x + v) + N * j /\ x + v \in Int
    BY <1>1, <1>4
  <1>7. x * y = (u * y) + N * (i * y) /\ u * y \in Int /\ i * y \in Int /\ x * y \in Int
    BY <1>1, <1>4
  <1>8. x * y = (x * v) + N * (x * j) /\ x * v \in Int /\ x * j \in Int
    BY <1>1, <1>4
  <1>9. x - y = (x - v) + N * (-j) /\ x - v \in Int /\ -j \in Int /\ x - y \in Int
    BY <1>1, <1>4
  <1>10. Cut(u + y) = Cut(x + y) /\ Cut(x + v) = Cut(x + y)
    BY <1>5, <1>6, CutSame
  <1>11. Cut(u * y) = Cut(x * y) /\ Cut(x * v) = Cut(x * y)
    BY <1>7, <1>8, CutSame
  <1>12. Cut(x - v) = Cut(x - y)
    BY <1>9, CutSame
  <1> QED
    BY <1>10, <1>11, <1>12 DEF u, v

LEMMA SignedOfCut ==
  ASSUME NEW x \in Int, -N <= 2 * x, 2 * x < N
  PROVE  Signed(Cut(x)) = x
  <1>1. N \in Nat
    BY NIsNat
  <1>2. CASE x >= 0
    BY <1>1, <1>2, CutNear DEF Word, Signed
  <1>3. CASE x < 0
    BY <1>1, <1>3, CutNear DEF Signed
  <1> QED
    BY <1>2, <1>3

LEMMA CutOfSigned ==
  ASSUME NEW w \in Word
  PROVE  Cut(Signed(w)) = w
  BY NIsNat, CutNear DEF Word, Signed

LEMMA SxIsWord ==
  ASSUME NEW v \in Int, NEW bits \in Nat
  PROVE  Sx(v, bits) \in Word
  <1>1. Pow(bits) \in Nat \ {0}
    BY PowNext
  <1>2. v % Pow(bits) \in Int
    BY <1>1
  <1> QED
    BY <1>1, <1>2, CutIsWord DEF Sx

-----------------------------------------------------------------------------
(* Bits                                                                    *)

(* What the lowest k bits of a set are worth.                              *)
Worth(bits, k) ==
  Sum([i \in 1..Width |-> IF i - 1 \in bits THEN Pow(i - 1) ELSE 0], k)

LEMMA WorthSteps ==
  ASSUME NEW bits
  PROVE  /\ WordOf(bits) = Worth(bits, Width)
         /\ Worth(bits, 0) = 0
         /\ \A k \in 0..Width : Worth(bits, k) \in Int
         /\ \A k \in 1..Width :
              Worth(bits, k) =
                Worth(bits, k - 1) + (IF k - 1 \in bits THEN Pow(k - 1) ELSE 0)
  <1> DEFINE f == [i \in 1..Width |-> IF i - 1 \in bits THEN Pow(i - 1) ELSE 0]
  <1>1. WordOf(bits) = Worth(bits, Width) /\ \A k : Worth(bits, k) = Sum(f, k)
    BY DEF WordOf, Worth
  <1>2. Width \in Nat
    BY Sizes
  <1>3. \A i \in 1..Width : f[i] = (IF i - 1 \in bits THEN Pow(i - 1) ELSE 0) /\ f[i] \in Int
    <2>1. \A i \in 1..Width : i - 1 \in Nat /\ Pow(i - 1) \in Int
      BY <1>2, PowNext
    <2> QED
      BY <2>1
  <1> HIDE DEF f
  <1>4. /\ Sum(f, 0) = 0
        /\ \A k \in 0..Width : Sum(f, k) \in Int
        /\ \A k \in 1..Width : Sum(f, k) = Sum(f, k - 1) + f[k]
    BY <1>2, <1>3, SumSteps
  <1> QED
    BY <1>1, <1>3, <1>4

(* Different bits of a word are worth no more than a word.                 *)
LEMMA WorthBounds ==
  ASSUME NEW bits
  PROVE  /\ \A k \in 0..Width : Worth(bits, k) \in 0..(Pow(k) - 1)
         /\ WordOf(bits) \in Word
  <1> DEFINE T == {k \in 0..Width : Worth(bits, k) \in 0..(Pow(k) - 1)}
  <1>0. Width \in Nat
    BY Sizes
  <1>1. 0 \in T
    BY <1>0, WorthSteps, PowNext
  <1>2. ASSUME NEW k \in 1..Width, k - 1 \in T PROVE k \in T
    <2>1. k - 1 \in Nat /\ (k - 1) + 1 = k
      BY <1>0
    <2>2. Pow(k - 1) \in Nat /\ Pow(k) = 2 * Pow(k - 1)
      BY <2>1, PowNext
    <2>3. Worth(bits, k) = Worth(bits, k - 1) \/ Worth(bits, k) = Worth(bits, k - 1) + Pow(k - 1)
      <3>1. Worth(bits, k)
              = Worth(bits, k - 1) + (IF k - 1 \in bits THEN Pow(k - 1) ELSE 0)
        BY WorthSteps
      <3>2. Worth(bits, k - 1) \in Int
        BY <1>2
      <3> QED
        BY <2>2, <3>1, <3>2
    <2> QED
      BY <2>2, <2>3, <1>2
  <1>3. 0..Width \subseteq T
    <2> HIDE DEF T
    <2> QED
      BY <1>0, <1>1, <1>2, Upwards
  <1>4. Worth(bits, Width) \in 0..(Pow(Width) - 1)
    BY <1>0, <1>3
  <1> QED
    BY <1>3, <1>4, WorthSteps DEF Word, N

LEMMA WordOfIsWord ==
  ASSUME NEW bits
  PROVE  WordOf(bits) \in Word
  BY WorthBounds

(* The lowest bit of what is left of a number without its lowest i bits.   *)
LEMMA NextBit ==
  ASSUME NEW w \in Nat, NEW i \in Nat
  PROVE  w % Pow(i + 1) =
           (w % Pow(i)) + (IF (w \div Pow(i)) % 2 = 1 THEN Pow(i) ELSE 0)
  <1> DEFINE p == Pow(i)
             d == w \div p
             m == w % p
             h == d \div 2
             t == d % 2
  <1>1. p \in Nat \ {0} /\ Pow(i + 1) = 2 * p
    BY PowNext
  <1> HIDE DEF p
  <1>2. d \in Int /\ m \in 0..(p - 1) /\ w = p * d + m
    BY <1>1, DivisionLeaves
  <1>3. d \in Nat
    BY <1>1, DivisionNat
  <1> HIDE DEF d, m
  <1>4. h \in Int /\ t \in {0, 1} /\ d = 2 * h + t
    BY <1>3
  <1> HIDE DEF h, t
  <1>5. p * t + m \in 0..(2 * p - 1)
    BY <1>1, <1>2, <1>4
  <1>6. w = (2 * p) * h + (p * t + m)
    <2>1. w = p * (2 * h + t) + m
      BY <1>2, <1>4
    <2> QED
      BY <2>1, <1>1, <1>2, <1>4
  <1>7. 2 * p \in Nat \ {0}
    BY <1>1
  <1>8. ((2 * p) * h + (p * t + m)) % (2 * p) = p * t + m
    BY <1>4, <1>5, <1>7, DivMod
  <1>9. w % Pow(i + 1) = p * t + m
    BY <1>1, <1>6, <1>8
  <1>10. p * t = IF t = 1 THEN p ELSE 0
    BY <1>1, <1>4
  <1> QED
    BY <1>1, <1>2, <1>9, <1>10 DEF p, d, m, t

LEMMA WorthOfBitSet ==
  ASSUME NEW w \in Nat, NEW k \in 0..Width
  PROVE  Worth(BitSet(w), k) = w % Pow(k)
  <1> DEFINE T == {j \in 0..k : Worth(BitSet(w), j) = w % Pow(j)}
  <1>0. Width \in Nat /\ k \in Nat
    BY Sizes
  <1>1. 0 \in T
    BY WorthSteps, PowNext
  <1>2. ASSUME NEW j \in 1..k, j - 1 \in T PROVE j \in T
    <2>1. j - 1 \in Nat /\ (j - 1) + 1 = j /\ j \in 1..Width /\ j - 1 \in 0..(Width - 1)
      BY <1>0
    <2>2. j - 1 \in BitSet(w) <=> (w \div Pow(j - 1)) % 2 = 1
      BY <2>1 DEF BitSet
    <2>3. w % Pow(j) =
            (w % Pow(j - 1)) + (IF (w \div Pow(j - 1)) % 2 = 1 THEN Pow(j - 1) ELSE 0)
      <3> DEFINE i == j - 1
      <3>1. i \in Nat /\ j = i + 1
        BY <2>1
      <3> HIDE DEF i
      <3>2. w % Pow(i + 1) =
              (w % Pow(i)) + (IF (w \div Pow(i)) % 2 = 1 THEN Pow(i) ELSE 0)
        BY <3>1, NextBit
      <3> QED
        BY <3>1, <3>2 DEF i
    <2>4. Worth(BitSet(w), j) = Worth(BitSet(w), j - 1)
            + (IF j - 1 \in BitSet(w) THEN Pow(j - 1) ELSE 0)
      BY <2>1, WorthSteps
    <2>5. Worth(BitSet(w), j - 1) = w % Pow(j - 1)
      BY <1>2
    <2> QED
      BY <2>2, <2>3, <2>4, <2>5
  <1>3. 0..k \subseteq T
    <2> HIDE DEF T
    <2> QED
      BY <1>0, <1>1, <1>2, Upwards
  <1> QED
    BY <1>0, <1>3

(* A word is worth its bits.                                               *)
LEMMA WordOfBitSet ==
  ASSUME NEW w \in Word
  PROVE  WordOf(BitSet(w)) = w
  <1>1. w \in Nat /\ N \in Nat /\ w < N /\ Width \in 0..Width
    BY NIsNat, Sizes DEF Word
  <1>2. Worth(BitSet(w), Width) = w % Pow(Width)
    BY <1>1, WorthOfBitSet
  <1>3. w % N = w
    BY <1>1
  <1> QED
    BY <1>2, <1>3, WorthSteps DEF N

(* Together two sets of bits are worth what their union and their          *)
(* intersection are worth together.                                        *)
LEMMA UnionAndIntersection ==
  ASSUME NEW S, NEW U
  PROVE  WordOf(S \cup U) + WordOf(S \cap U) = WordOf(S) + WordOf(U)
  <1> DEFINE T == {k \in 0..Width :
               Worth(S \cup U, k) + Worth(S \cap U, k) = Worth(S, k) + Worth(U, k)}
  <1>0. Width \in Nat
    BY Sizes
  <1>1. 0 \in T
    BY <1>0, WorthSteps
  <1>2. ASSUME NEW k \in 1..Width, k - 1 \in T PROVE k \in T
    <2> DEFINE p == Pow(k - 1)
               V(X) == IF k - 1 \in X THEN p ELSE 0
    <2>1. k - 1 \in Nat /\ k - 1 \in 0..Width /\ p \in Nat
      BY <1>0, PowNext
    <2>2. \A X : Worth(X, k) = Worth(X, k - 1) + V(X) /\ Worth(X, k - 1) \in Int
      BY <2>1, WorthSteps
    <2>3. V(S \cup U) + V(S \cap U) = V(S) + V(U)
      <3>1. k - 1 \in S \cup U <=> k - 1 \in S \/ k - 1 \in U
        OBVIOUS
      <3>2. k - 1 \in S \cap U <=> k - 1 \in S /\ k - 1 \in U
        OBVIOUS
      <3> QED
        BY <2>1, <3>1, <3>2
    <2>4. \A X : V(X) \in Int
      BY <2>1
    <2>5. Worth(S \cup U, k - 1) + Worth(S \cap U, k - 1) = Worth(S, k - 1) + Worth(U, k - 1)
      BY <1>2
    <2> DEFINE E == S \cup U
               F == S \cap U
    <2>7. /\ Worth(E, k) = Worth(E, k - 1) + V(E) /\ Worth(F, k) = Worth(F, k - 1) + V(F)
          /\ Worth(S, k) = Worth(S, k - 1) + V(S) /\ Worth(U, k) = Worth(U, k - 1) + V(U)
          /\ Worth(E, k - 1) \in Int /\ Worth(F, k - 1) \in Int
          /\ Worth(S, k - 1) \in Int /\ Worth(U, k - 1) \in Int
          /\ V(E) \in Int /\ V(F) \in Int /\ V(S) \in Int /\ V(U) \in Int
      <3> HIDE DEF V
      <3> QED
        BY <2>2, <2>4
    <2>8. /\ Worth(E, k - 1) + Worth(F, k - 1) = Worth(S, k - 1) + Worth(U, k - 1)
          /\ V(E) + V(F) = V(S) + V(U)
      BY <2>3, <2>5
    <2> HIDE DEF V, E, F
    <2>9. Worth(E, k) + Worth(F, k) = Worth(S, k) + Worth(U, k)
      BY <2>7, <2>8
    <2>6. Worth(S \cup U, k) + Worth(S \cap U, k) = Worth(S, k) + Worth(U, k)
      BY <2>9 DEF E, F
    <2> QED
      BY <2>6
  <1>3. 0..Width \subseteq T
    <2> HIDE DEF T
    <2> QED
      BY <1>0, <1>1, <1>2, Upwards
  <1>4. Worth(S \cup U, Width) + Worth(S \cap U, Width) = Worth(S, Width) + Worth(U, Width)
    BY <1>0, <1>3
  <1> QED
    BY <1>4, WorthSteps

(* The bits above the lowest i make a multiple.                            *)
LEMMA WorthAbove ==
  ASSUME NEW bits, NEW i \in 0..Width
  PROVE  \E z \in Int : WordOf(bits) = Worth(bits, i) + Pow(i) * z
  <1> DEFINE n == Width - i
             T == {j \in 0..n : \E z \in Int : Worth(bits, i + j) = Worth(bits, i) + Pow(i) * z}
  <1>0. Width \in Nat /\ i \in Nat /\ n \in Nat /\ i + n = Width /\ Pow(i) \in Int
        /\ Worth(bits, i) \in Int
    <2>1. Width \in Nat
      BY Sizes
    <2>2. i \in Nat /\ n \in Nat /\ i + n = Width
      BY <2>1
    <2>3. Pow(i) \in Int
      BY <2>2, PowNext
    <2>4. Worth(bits, i) \in Int
      BY WorthSteps
    <2> QED
      BY <2>1, <2>2, <2>3, <2>4
  <1>1. 0 \in T
    <2>1. Worth(bits, i + 0) = Worth(bits, i) + Pow(i) * 0
      BY <1>0
    <2> QED
      BY <1>0, <2>1
  <1>2. ASSUME NEW j \in 1..n, j - 1 \in T PROVE j \in T
    <2>1. PICK z \in Int : Worth(bits, i + (j - 1)) = Worth(bits, i) + Pow(i) * z
      BY <1>2
    <2>2. /\ i + j \in 1..Width /\ (i + j) - 1 = i + (j - 1) /\ j - 1 \in Nat
          /\ i \in Nat
      BY <1>0
    <2>3. Pow(i + (j - 1)) = Pow(i) * Pow(j - 1) /\ Pow(j - 1) \in Int
      <3> DEFINE h == j - 1
      <3>1. h \in Nat /\ i \in Nat
        BY <2>2
      <3> HIDE DEF h
      <3>2. Pow(i + h) = Pow(i) * Pow(h)
        BY <3>1, PowAdd
      <3>3. Pow(h) \in Int
        BY <3>1, PowNext
      <3> QED
        BY <3>2, <3>3 DEF h
    <2>4. Worth(bits, i + j) = Worth(bits, i + (j - 1))
            + (IF i + (j - 1) \in bits THEN Pow(i + (j - 1)) ELSE 0)
      BY <2>2, WorthSteps
    <2> DEFINE y == IF i + (j - 1) \in bits THEN z + Pow(j - 1) ELSE z
    <2>5. y \in Int /\ Worth(bits, i + j) = Worth(bits, i) + Pow(i) * y
      <3>1. CASE i + (j - 1) \in bits
        <4>1. Pow(i) * (z + Pow(j - 1)) = Pow(i) * z + Pow(i) * Pow(j - 1)
          BY <1>0, <2>3
        <4>2. Pow(i) * z \in Int /\ Pow(i) * Pow(j - 1) \in Int
          BY <1>0, <2>3
        <4> QED
          BY <1>0, <2>1, <2>3, <2>4, <3>1, <4>1, <4>2
      <3>2. CASE i + (j - 1) \notin bits
        <4>1. Pow(i) * z \in Int
          BY <1>0
        <4> QED
          BY <1>0, <2>1, <2>4, <3>2, <4>1
      <3> QED
        BY <3>1, <3>2
    <2> HIDE DEF y
    <2> QED
      BY <2>5
  <1>3. n \in T
    <2>1. \A j \in 1..n : j - 1 \in T => j \in T
      BY <1>2
    <2> HIDE DEF T, n
    <2>2. 0..n \subseteq T
      BY <1>0, <1>1, <2>1, Upwards
    <2> QED
      BY <1>0, <2>2
  <1>4. WordOf(bits) = Worth(bits, i + n)
    BY <1>0, WorthSteps
  <1> QED
    BY <1>3, <1>4

(* The bits of the word that a set of bits makes.                          *)
LEMMA BitSetOfWord ==
  ASSUME NEW bits \in SUBSET (0..(Width - 1))
  PROVE  BitSet(WordOf(bits)) = bits
  <1>1. ASSUME NEW i \in 0..(Width - 1)
        PROVE  (WordOf(bits) \div Pow(i)) % 2 = (IF i \in bits THEN 1 ELSE 0)
    <2> DEFINE p == Pow(i)
               u == Worth(bits, i)
               t == IF i \in bits THEN 1 ELSE 0
    <2>1. i \in Nat /\ i + 1 \in 1..Width /\ i + 1 \in 0..Width /\ (i + 1) - 1 = i
          /\ i \in 0..Width
      BY Sizes
    <2>2. p \in Nat \ {0} /\ Pow(i + 1) = 2 * p
      BY <2>1, PowNext
    <2>3. u \in 0..(p - 1)
      BY <2>1, WorthBounds
    <2>4. Worth(bits, i + 1) = u + (IF i \in bits THEN p ELSE 0)
      <3> DEFINE j == i + 1
      <3>1. j \in 1..Width /\ j - 1 = i
        BY <2>1
      <3> HIDE DEF j
      <3>2. Worth(bits, j) = Worth(bits, j - 1) + (IF j - 1 \in bits THEN Pow(j - 1) ELSE 0)
        BY <3>1, WorthSteps
      <3> QED
        BY <3>1, <3>2 DEF j
    <2>5. PICK z \in Int : WordOf(bits) = Worth(bits, i + 1) + Pow(i + 1) * z
      BY <2>1, WorthAbove
    <2> HIDE DEF p, u
    <2>6. t \in {0, 1} /\ (IF i \in bits THEN p ELSE 0) = p * t
      BY <2>2
    <2> HIDE DEF t
    <2>7. WordOf(bits) = p * (2 * z + t) + u
      <3>1. p * (2 * z + t) = (2 * p) * z + p * t /\ (2 * p) * z \in Int /\ p * t \in Int
        BY <2>2, <2>6
      <3> QED
        BY <2>2, <2>3, <2>4, <2>5, <2>6, <3>1
    <2>8. 2 * z + t \in Int
      BY <2>6
    <2>9. (p * (2 * z + t) + u) \div p = 2 * z + t
      BY <2>2, <2>3, <2>8, DivMod
    <2>10. (2 * z + t) % 2 = t
      BY <2>6
    <2> QED
      BY <2>7, <2>9, <2>10 DEF p, t
  <1>2. \A i \in 0..(Width - 1) : i \in BitSet(WordOf(bits)) <=> i \in bits
    <2> DEFINE w == WordOf(bits)
    <2>1. \A i \in 0..(Width - 1) : i \in BitSet(w) <=> (w \div Pow(i)) % 2 = 1
      BY DEF BitSet
    <2> QED
      BY <1>1, <2>1
  <1>3. BitSet(WordOf(bits)) \subseteq 0..(Width - 1)
    BY DEF BitSet
  <1> QED
    BY <1>2, <1>3

(* The bits of a number less than a power of two, and of a multiple of it. *)
LEMMA LowBits ==
  ASSUME NEW k \in Nat, NEW y \in 0..(Pow(k) - 1)
  PROVE  \A i \in BitSet(y) : i < k
  <1>1. ASSUME NEW i \in 0..(Width - 1), i >= k PROVE (y \div Pow(i)) % 2 # 1
    <2>1. i \in Nat /\ y \in Nat
      OBVIOUS
    <2>2. Pow(k) <= Pow(i) /\ Pow(i) \in Nat \ {0} /\ Pow(k) \in Nat
      BY <1>1, <2>1, PowGrows, PowNext
    <2>3. y < Pow(i)
      BY <2>2
    <2>4. y \div Pow(i) = 0
      BY <2>1, <2>2, <2>3, DivisionNat
    <2> QED
      BY <2>4
  <1> QED
    BY <1>1, Sizes DEF BitSet

LEMMA HighBits ==
  ASSUME NEW k \in Nat, NEW m \in Int
  PROVE  \A i \in BitSet(Pow(k) * m) : i >= k
  <1>1. ASSUME NEW i \in 0..(Width - 1), i < k PROVE ((Pow(k) * m) \div Pow(i)) % 2 # 1
    <2> DEFINE p == Pow(i)
               e == Pow(k - i - 1)
    <2>1. i \in Nat /\ k - i - 1 \in Nat /\ (i + 1) + (k - i - 1) = k /\ i + 1 \in Nat
      BY <1>1
    <2>2. p \in Nat \ {0} /\ e \in Nat /\ Pow(i + 1) = 2 * p /\ Pow(k) = Pow(i + 1) * e
      <3>1. Pow((i + 1) + (k - i - 1)) = Pow(i + 1) * Pow(k - i - 1)
        BY <2>1, PowAdd
      <3> QED
        BY <2>1, <3>1, PowNext
    <2> HIDE DEF p, e
    <2>3. Pow(k) * m = p * (2 * (e * m)) + 0 /\ 2 * (e * m) \in Int /\ e * m \in Int
      BY <2>2
    <2>4. (p * (2 * (e * m)) + 0) \div p = 2 * (e * m)
      BY <2>2, <2>3, DivMod
    <2>5. \A x \in Int : (2 * x) % 2 = 0
      OBVIOUS
    <2> QED
      BY <2>3, <2>4, <2>5 DEF p
  <1> QED
    BY <1>1, Sizes DEF BitSet

LEMMA WordOfNone == WordOf({}) = 0
  <1>1. 0 \in Word /\ 0 \in 0..(Pow(0) - 1) /\ 0 \in Nat
    BY NIsNat, PowNext DEF Word
  <1>2. \A i \in BitSet(0) : i < 0 /\ i \in Nat
    BY <1>1, LowBits DEF BitSet
  <1>3. BitSet(0) = {}
    BY <1>2
  <1> QED
    BY <1>1, <1>3, WordOfBitSet

(* OR of a multiple of a power of two and of less than that is their sum.  *)
LEMMA OrIsSum ==
  ASSUME NEW k \in Nat, NEW m \in Int, NEW x \in Word, x = Pow(k) * m,
         NEW y \in Word, y < Pow(k)
  PROVE  WordOf(BitSet(x) \cup BitSet(y)) = x + y
  <1>1. y \in 0..(Pow(k) - 1)
    BY PowNext, NIsNat DEF Word
  <1>2. BitSet(x) \cap BitSet(y) = {}
    <2>1. \A i \in BitSet(x) : i >= k /\ i \in Int
      <3>1. \A i \in BitSet(Pow(k) * m) : i >= k
        BY HighBits
      <3>2. \A i \in BitSet(x) : i \in Int
        BY Sizes DEF BitSet
      <3> QED
        BY <3>1, <3>2
    <2>2. \A i \in BitSet(y) : i < k
      BY <1>1, LowBits
    <2> QED
      BY <2>1, <2>2
  <1>3. WordOf({}) = 0
    BY WordOfNone
  <1>4. WordOf(BitSet(x) \cup BitSet(y)) + WordOf({}) = WordOf(BitSet(x)) + WordOf(BitSet(y))
    BY <1>2, UnionAndIntersection
  <1>5. WordOf(BitSet(x) \cup BitSet(y)) \in Int
    BY WordOfIsWord, NIsNat DEF Word
  <1> QED
    BY <1>3, <1>4, <1>5, WordOfBitSet

(* The mask of the lowest k bits.                                          *)
LEMMA LowMask ==
  ASSUME NEW k \in 0..Width
  PROVE  BitSet(Pow(k) - 1) = 0..(k - 1)
  <1> DEFINE w == Pow(k) - 1
  <1>0. Width \in Nat /\ k \in Nat /\ w \in 0..(Pow(k) - 1)
    BY Sizes, PowNext
  <1>1. ASSUME NEW i \in 0..(k - 1) PROVE (w \div Pow(i)) % 2 = 1
    <2> DEFINE p == Pow(i)
               e == Pow(k - i - 1)
    <2>1. i \in Nat /\ k - i - 1 \in Nat /\ (i + 1) + (k - i - 1) = k /\ i + 1 \in Nat
      BY <1>0
    <2>2. p \in Nat \ {0} /\ e \in Nat /\ Pow(i + 1) = 2 * p /\ Pow(k) = Pow(i + 1) * e
      <3>1. Pow((i + 1) + (k - i - 1)) = Pow(i + 1) * Pow(k - i - 1)
        BY <2>1, PowAdd
      <3> QED
        BY <2>1, <3>1, PowNext
    <2> HIDE DEF p, e
    <2>3. w = p * (2 * e - 1) + (p - 1) /\ 2 * e - 1 \in Int /\ p - 1 \in 0..(p - 1)
      <3>1. p * (2 * e - 1) = (2 * p) * e - p
        BY <2>2
      <3> QED
        BY <2>2, <3>1
    <2>4. (p * (2 * e - 1) + (p - 1)) \div p = 2 * e - 1
      BY <2>2, <2>3, DivMod
    <2>5. \A x \in Int : (2 * x - 1) % 2 = 1
      OBVIOUS
    <2> QED
      BY <2>2, <2>3, <2>4, <2>5 DEF p
  <1> HIDE DEF w
  <1>2. \A i \in BitSet(w) : i < k /\ i \in Nat
    <2>1. \A i \in BitSet(w) : i < k
      BY <1>0, LowBits
    <2>2. \A i \in BitSet(w) : i \in Nat
      BY <1>0 DEF BitSet
    <2> QED
      BY <2>1, <2>2
  <1>3. 0..(k - 1) \subseteq BitSet(w)
    <2>1. 0..(k - 1) \subseteq 0..(Width - 1)
      BY <1>0
    <2> QED
      BY <1>1, <2>1 DEF BitSet
  <1>4. BitSet(w) \subseteq 0..(k - 1)
    BY <1>0, <1>2
  <1> QED
    BY <1>3, <1>4 DEF w

(* NOR is the difference to the word of ones.                              *)
LEMMA Complement ==
  ASSUME NEW bits \in SUBSET (0..(Width - 1))
  PROVE  /\ BitSet(N - 1) = 0..(Width - 1)
         /\ WordOf(BitSet(N - 1) \ bits) = N - 1 - WordOf(bits)
  <1> DEFINE all == 0..(Width - 1)
             rest == all \ bits
  <1>1. BitSet(N - 1) = all
    <2>1. Width \in 0..Width
      BY Sizes
    <2> QED
      BY <2>1, LowMask DEF N
  <1>2. bits \cup rest = all /\ bits \cap rest = {}
    OBVIOUS
  <1>3. WordOf(all) + WordOf({}) = WordOf(bits) + WordOf(rest)
    <2> HIDE DEF all, rest
    <2>1. WordOf(bits \cup rest) + WordOf(bits \cap rest) = WordOf(bits) + WordOf(rest)
      BY UnionAndIntersection, Zenon
    <2> QED
      BY <1>2, <2>1, Zenon
  <1>4. WordOf(all) = N - 1
    <2>1. N - 1 \in Word
      BY NIsNat DEF Word
    <2> QED
      BY <1>1, <2>1, WordOfBitSet
  <1>5. WordOf({}) = 0
    BY WordOfNone
  <1>6. WordOf(bits) \in Int /\ WordOf(rest) \in Int /\ N \in Int
    BY WordOfIsWord, NIsNat DEF Word
  <1>7. BitSet(N - 1) \ bits = rest
    BY <1>1
  <1> HIDE DEF all, rest
  <1>8. WordOf(rest) = N - 1 - WordOf(bits)
    BY <1>3, <1>4, <1>5, <1>6
  <1> QED
    BY <1>1, <1>7, <1>8, Zenon DEF all

(* AND with the mask of the lowest k bits is the rest modulo 2 to the k.   *)
LEMMA AndIsRest ==
  ASSUME NEW k \in 0..Width, NEW w \in Word
  PROVE  WordOf(BitSet(w) \cap BitSet(Pow(k) - 1)) = w % Pow(k)
  <1> DEFINE p == Pow(k)
             d == w \div p
             x == p * d
             y == w % p
  <1>1. p \in Nat \ {0} /\ k \in Nat /\ Width \in Nat
    BY PowNext, Sizes
  <1>2. w \in Nat /\ N \in Nat /\ w < N
    BY NIsNat DEF Word
  <1>3. d \in Nat /\ y \in 0..(p - 1) /\ w = p * d + y
    <2>1. d \in 0..w
      BY <1>1, <1>2, DivisionNat
    <2> HIDE DEF p
    <2>2. y \in 0..(p - 1) /\ w = p * d + y
      BY <1>1, <1>2, DivisionLeaves
    <2> QED
      BY <2>1, <2>2
  <1> HIDE DEF p, d, y
  <1>4. x \in Word /\ y \in Word /\ y < p /\ w = x + y
    BY <1>1, <1>2, <1>3 DEF Word
  <1>5. WordOf(BitSet(x) \cup BitSet(y)) = w
    BY <1>1, <1>3, <1>4, OrIsSum DEF p
  <1>6. BitSet(w) = BitSet(x) \cup BitSet(y)
    <2>1. BitSet(x) \cup BitSet(y) \in SUBSET (0..(Width - 1))
      BY DEF BitSet
    <2> QED
      BY <1>5, <2>1, BitSetOfWord
  <1>7. \A i \in BitSet(x) : i \notin 0..(k - 1)
    BY <1>1, <1>3, HighBits DEF p
  <1>8. \A i \in BitSet(y) : i \in 0..(k - 1)
    <2>1. \A i \in BitSet(y) : i < k
      BY <1>1, <1>3, LowBits DEF p
    <2>2. \A i \in BitSet(y) : i \in Nat
      BY <1>1 DEF BitSet
    <2> QED
      BY <1>1, <2>1, <2>2
  <1>9. BitSet(w) \cap BitSet(Pow(k) - 1) = BitSet(y)
    BY <1>6, <1>7, <1>8, LowMask
  <1> QED
    BY <1>4, <1>9, WordOfBitSet DEF y, p
-----------------------------------------------------------------------------
(* Types                                                                   *)

(* The code of the program and the operands it was given never change.     *)
TypeInv ==
  /\ TypeOK
  /\ program.code \in Seq(InstrType)
  /\ 4 * Len(program.code) < N
  /\ given \in [Reg -> Word]

(* The instruction at pc and its operands.                                 *)
LEMMA Fetched ==
  ASSUME TypeInv, pc < 4 * Len(program.code)
  PROVE  /\ pc \div 4 + 1 \in 1..Len(program.code)
         /\ ins \in InstrType
         /\ ins.d \in Reg /\ ins.imm \in Nat
         /\ rs \in Word /\ rt \in Word
  <1> DEFINE len == Len(program.code)
  <1>1. len \in Nat /\ pc \in Nat /\ pc < 4 * len
    BY DEF TypeInv, TypeOK, Word
  <1> HIDE DEF len
  <1>2. pc \div 4 + 1 \in 1..len
    BY <1>1
  <1>3. ins \in InstrType
    BY <1>2 DEF ins, TypeInv, len
  <1>4. ins.d \in Reg /\ ins.s \in Reg /\ ins.t \in Reg /\ ins.imm \in Nat
    BY <1>3 DEF InstrType
  <1>5. regs \in [Reg -> Word]
    BY DEF TypeInv, TypeOK
  <1> QED
    BY <1>2, <1>3, <1>4, <1>5 DEF rs, rt, len

(* An access to the memory of the model is to its bytes.                   *)
LEMMA Placed ==
  ASSUME TypeInv, pc < 4 * Len(program.code), NEW n \in {1, 2, 4}, Place(n) < 4
  PROVE  Place(n) \in 0..(4 - n)
  <1> DEFINE addr == Cut(rs + Sx(ins.imm, Half))
  <1>1. rs + Sx(ins.imm, Half) \in Int
    <2>1. Sx(ins.imm, Half) \in Word
      <3>1. ins.imm \in Int
        BY Fetched
      <3>2. Half \in Nat
        BY Sizes
      <3> QED
        BY <3>1, <3>2, SxIsWord
    <2> QED
      BY <2>1, Fetched, NIsNat DEF Word
  <1>2. addr \in Nat
    BY <1>1, CutIsWord, NIsNat DEF Word
  <1>3. Place(n) = addr - (addr % n)
    BY DEF Place
  <1> HIDE DEF addr
  <1>4. CASE n = 1
    BY <1>2, <1>3, <1>4
  <1>5. CASE n = 2
    BY <1>2, <1>3, <1>5
  <1>6. CASE n = 4
    BY <1>2, <1>3, <1>6
  <1> QED
    BY <1>4, <1>5, <1>6

(* Two digits make less than the product of their bases.                   *)
LEMMA TwoParts ==
  ASSUME NEW m \in Nat, NEW n \in Nat \ {0}, NEW x \in 0..(n - 1), NEW y \in 0..(m - 1)
  PROVE  x + y * n \in 0..(m * n - 1)
  <1>1. y * n <= (m - 1) * n /\ (m - 1) * n = m * n - n
    OBVIOUS
  <1>2. y * n \in Nat /\ m * n \in Nat
    OBVIOUS
  <1> QED
    BY <1>1, <1>2

(* Parts of a word, each less than q, make less than the power of q.       *)
LEMMA FourParts ==
  ASSUME NEW q \in Nat \ {0}, NEW x1 \in 0..(q - 1), NEW x2 \in 0..(q - 1),
         NEW x3 \in 0..(q - 1), NEW x4 \in 0..(q - 1)
  PROVE  x1 + x2 * q + x3 * (q * q) + x4 * (q * q * q)
           \in 0..((q * q) * (q * q) - 1)
  <1> DEFINE p == q * q
             low == x1 + x2 * q
             high == x3 + x4 * q
  <1>1. low \in 0..(p - 1) /\ high \in 0..(p - 1) /\ p \in Nat \ {0}
    BY TwoParts
  <1>2. high * p = x3 * (q * q) + x4 * (q * q * q)
    OBVIOUS
  <1>3. low + high * p \in 0..(p * p - 1)
    <2> HIDE DEF p, low, high
    <2> QED
      BY <1>1, TwoParts
  <1> QED
    BY <1>1, <1>2, <1>3

(* Byte k of an access of n bytes, counted from 1.                         *)
ByteOf(n, k) == bytes[Place(n) + k - 1]

(* A load puts its bytes together, the lowest one first.                   *)
LEMMA LoadedBytes ==
  ASSUME TypeInv, pc < 4 * Len(program.code), NEW n \in {1, 2, 4}, Place(n) < 4
  PROVE  LET Q == Pow(Quarter)
         IN  /\ \A k \in 1..n : ByteOf(n, k) \in 0..(Q - 1)
             /\ n = 1 => Loaded(n) = ByteOf(n, 1)
             /\ n = 2 => Loaded(n) = ByteOf(n, 1) + ByteOf(n, 2) * Q
             /\ n = 4 => Loaded(n) = ByteOf(n, 1) + ByteOf(n, 2) * Q
                           + ByteOf(n, 3) * (Q * Q) + ByteOf(n, 4) * (Q * Q * Q)
  <1> DEFINE Q == Pow(Quarter)
             byte(k) == bytes[Place(n) + k - 1]
             f == [k \in 1..n |-> bytes[Place(n) + k - 1] * Pow(Quarter * (k - 1))]
  <1>1. Place(n) \in 0..(4 - n)
    BY Placed
  <1>2. Q \in Nat \ {0} /\ N = (Q * Q) * (Q * Q)
    BY Sizes
  <1>3. \A k \in 1..n : byte(k) \in 0..(Q - 1)
    <2>1. bytes \in [0..3 -> 0..(Q - 1)]
      BY DEF TypeInv, TypeOK
    <2>2. \A k \in 1..n : Place(n) + k - 1 \in 0..3
      BY <1>1
    <2> HIDE DEF Q
    <2> QED
      BY <2>1, <2>2
  <1>4. /\ Pow(Quarter * (1 - 1)) = 1 /\ Pow(Quarter * (2 - 1)) = Q
        /\ Pow(Quarter * (3 - 1)) = Q * Q /\ Pow(Quarter * (4 - 1)) = Q * Q * Q
    <2>1. Quarter \in Nat /\ Pow(0) = 1
      BY Sizes
    <2>2. /\ Quarter * (1 - 1) = 0 /\ Quarter * (2 - 1) = Quarter
          /\ Quarter * (3 - 1) = Quarter + Quarter
          /\ Quarter * (4 - 1) = (Quarter + Quarter) + Quarter
          /\ Quarter + Quarter \in Nat
      BY <2>1
    <2> QED
      BY <2>1, <2>2, PowAdd
  <1>5. Loaded(n) = Sum(f, n)
    BY DEF Loaded
  <1>6. /\ f[1] = byte(1)
        /\ n > 1 => f[2] = byte(2) * Q
        /\ n > 2 => f[3] = byte(3) * (Q * Q) /\ f[4] = byte(4) * (Q * Q * Q)
    <2>1. \A k \in 1..n : f[k] = byte(k) * Pow(Quarter * (k - 1))
      OBVIOUS
    <2>2. f[1] = byte(1)
      <3>0. 1 \in 1..n /\ 0..(Q - 1) \subseteq Int
        BY <1>2
      <3>1. byte(1) \in Int
        <4> HIDE DEF byte, Q
        <4> QED
          BY <3>0, <1>3
      <3> HIDE DEF f, byte, Q
      <3> QED
        BY <2>1, <1>4, <3>1
    <2> HIDE DEF f, byte, Q
    <2> QED
      BY <2>1, <2>2, <1>4
  <1> HIDE DEF f, byte, Q
  <1>7. \A k \in 1..n : f[k] \in Int
    <2> SUFFICES ASSUME NEW k \in 1..n PROVE f[k] \in Int
      OBVIOUS
    <2>1. byte(k) \in Int
      BY <1>2, <1>3
    <2>2. Q \in Int /\ Q * Q \in Int /\ Q * Q * Q \in Int
      BY <1>2
    <2>3. f[k] \in {byte(k), byte(k) * Q, byte(k) * (Q * Q), byte(k) * (Q * Q * Q)}
      <3>1. k = 1 \/ (k = 2 /\ n > 1) \/ (k = 3 /\ n > 2) \/ (k = 4 /\ n > 2)
        OBVIOUS
      <3> QED
        BY <1>6, <3>1
    <2> QED
      BY <2>1, <2>2, <2>3
  <1>8. /\ Sum(f, 0) = 0 /\ \A k \in 1..n : Sum(f, k) = Sum(f, k - 1) + f[k]
    <2>1. n \in Nat
      OBVIOUS
    <2> QED
      BY <2>1, <1>7, SumSteps
  <1>9. n = 1 => Loaded(n) = byte(1)
    BY <1>5, <1>6, <1>7, <1>8
  <1>10. n = 2 => Loaded(n) = byte(1) + byte(2) * Q
    BY <1>5, <1>6, <1>7, <1>8
  <1>11. n = 4 => Loaded(n) = byte(1) + byte(2) * Q + byte(3) * (Q * Q) + byte(4) * (Q * Q * Q)
    BY <1>5, <1>6, <1>7, <1>8
  <1>12. \A k : byte(k) = ByteOf(n, k)
    BY DEF byte, ByteOf
  <1> QED
    BY <1>3, <1>9, <1>10, <1>11, <1>12 DEF Q

LEMMA LoadedIsWord ==
  ASSUME TypeInv, pc < 4 * Len(program.code), NEW n \in {1, 2, 4}, Place(n) < 4
  PROVE  Loaded(n) \in Word
  <1> DEFINE Q == Pow(Quarter)
             byte(k) == ByteOf(n, k)
  <1>1. /\ \A k \in 1..n : byte(k) \in 0..(Q - 1)
        /\ n = 1 => Loaded(n) = byte(1)
        /\ n = 2 => Loaded(n) = byte(1) + byte(2) * Q
        /\ n = 4 => Loaded(n) = byte(1) + byte(2) * Q
                      + byte(3) * (Q * Q) + byte(4) * (Q * Q * Q)
    BY LoadedBytes
  <1>2. Q \in Nat \ {0} /\ N = (Q * Q) * (Q * Q)
    BY Sizes
  <1> HIDE DEF byte, Q
  <1>3. CASE n = 1
    <2>1. Loaded(n) = byte(1) /\ byte(1) \in 0..(Q - 1)
      BY <1>1, <1>3
    <2>2. Q <= Q * Q /\ Q * Q \in Nat
      BY <1>2
    <2>3. Q * Q <= (Q * Q) * (Q * Q)
      BY <2>2
    <2> QED
      BY <2>1, <2>2, <2>3, <1>2 DEF Word
  <1>4. CASE n = 2
    <2>1. Loaded(n) = byte(1) + byte(2) * Q
      BY <1>1, <1>4
    <2>2. byte(1) + byte(2) * Q \in 0..(Q * Q - 1)
      <3>1. byte(1) \in 0..(Q - 1) /\ byte(2) \in 0..(Q - 1)
        BY <1>1, <1>4
      <3> QED
        BY <3>1, <1>2, TwoParts
    <2>3. Q * Q \in Nat /\ Q * Q <= (Q * Q) * (Q * Q)
      BY <1>2
    <2> QED
      BY <2>1, <2>2, <2>3, <1>2 DEF Word
  <1>5. CASE n = 4
    <2>1. Loaded(n) = byte(1) + byte(2) * Q + byte(3) * (Q * Q) + byte(4) * (Q * Q * Q)
      BY <1>1, <1>5
    <2>2. \A k \in {1, 2, 3, 4} : byte(k) \in 0..(Q - 1)
      BY <1>1, <1>5
    <2>3. byte(1) + byte(2) * Q + byte(3) * (Q * Q) + byte(4) * (Q * Q * Q)
            \in 0..((Q * Q) * (Q * Q) - 1)
      BY <2>2, <1>2, FourParts
    <2> QED
      BY <2>1, <2>3, <1>2 DEF Word
  <1> QED
    BY <1>3, <1>4, <1>5

LEMMA AdvanceTypes ==
  ASSUME TypeInv, Advance
  PROVE  /\ status' \in {"running", "exited", "aborted"}
         /\ pc' \in Word /\ npc' \in Word
         /\ program' = program /\ given' = given
  <1>1. pc \in Word /\ npc \in Word /\ npc + 4 \in Int
    BY NIsNat DEF TypeInv, TypeOK, Word
  <1>2. Cut(npc + 4) \in Word
    BY <1>1, CutIsWord
  <1> QED
    BY <1>1, <1>2 DEF Advance, TypeInv, TypeOK

LEMMA WritesTypes ==
  ASSUME TypeInv, NEW ops, NEW value \in Word, Writes(ops, value)
  PROVE  TypeInv'
  <1>1. Advance /\ pc < 4 * Len(program.code)
    BY DEF Writes, Running
  <1>2. ins.d \in Reg
    BY <1>1, Fetched
  <1>3. regs' \in [Reg -> Word]
    BY <1>2 DEF Writes, TypeInv, TypeOK
  <1>4. hi' \in Word /\ lo' \in Word /\ bytes' \in [0..3 -> 0..(Pow(Quarter) - 1)]
    BY DEF Writes, TypeInv, TypeOK
  <1> QED
    BY <1>1, <1>3, <1>4, AdvanceTypes DEF TypeInv, TypeOK

LEMMA OperandType ==
  ASSUME TypeInv, pc < 4 * Len(program.code)
  PROVE  Operand \in Int /\ (ins.op \notin {"andi", "ori"} => Operand \in Word)
  <1>1. ins.imm \in Nat /\ rt \in Word
    BY Fetched
  <1>2. Sx(ins.imm, Half) \in Word
    <2>1. ins.imm \in Int
      BY <1>1
    <2>2. Half \in Nat
      BY Sizes
    <2> QED
      BY <2>1, <2>2, SxIsWord
  <1>3. \A w \in Word : w \in Int
    BY NIsNat DEF Word
  <1> QED
    BY <1>1, <1>2, <1>3 DEF Operand

(* A right shift makes a word no greater.                                  *)
LEMMA ShiftedDown ==
  ASSUME NEW w \in Word, NEW n \in Nat
  PROVE  w \div Pow(n) \in Word
  <1> DEFINE p == Pow(n)
  <1>1. p \in Nat /\ p > 0
    BY PowNext
  <1>2. w \in Nat /\ w < N /\ N \in Nat
    BY NIsNat DEF Word
  <1> HIDE DEF p
  <1>3. w \div p \in 0..w
    BY <1>1, <1>2
  <1> QED
    BY <1>2, <1>3 DEF Word, p

LEMMA QuotientIsInt ==
  ASSUME NEW x \in Int, NEW y \in Int, y # 0
  PROVE  Quotient(x, y) \in Int
  <1>1. Magnitude(x) \in Nat /\ Magnitude(y) \in Nat \ {0}
    BY DEF Magnitude
  <1>2. Magnitude(x) \div Magnitude(y) \in Int
    BY <1>1
  <1> QED
    BY <1>2 DEF Quotient

LEMMA StepTypes ==
  ASSUME TypeInv, Next
  PROVE  TypeInv'
  <1>1. pc < 4 * Len(program.code)
    BY DEF Next, ShiftLeft, ShiftRight, Arithmetic, Logic, SetOnLess, LoadUpper,
           Add, MoveFrom, MoveTo, Multiply, Divide, Branch, Load, Store, Writes,
           Accesses, Running
  <1>2. /\ rs \in Word /\ rt \in Word /\ rs \in Int /\ rt \in Int /\ ins.imm \in Nat
        /\ Operand \in Int
        /\ ins.op \notin {"andi", "ori"} => Operand \in Word
    <2>1. \A w \in Word : w \in Int
      BY NIsNat DEF Word
    <2> QED
      BY <1>1, <2>1, Fetched, OperandType
  <1>3. 0 \in Word /\ 1 \in Word /\ N \in Nat /\ N > 0
    BY NIsNat DEF Word
  <1>4. /\ \A w \in Word : Signed(w) \in Int
        /\ \A n \in Nat : Pow(n) \in Nat /\ Pow(n) # 0
        /\ \A x \in Int : Cut(x) \in Word
    BY SignedIsInt, PowNext, CutIsWord
  <1>5. hi \in Word /\ lo \in Word
    BY DEF TypeInv, TypeOK
  <1>6. rs % Width \in Nat /\ rt % Width \in Nat
    BY <1>2, Sizes
  <1>7. \A x \in Int, n \in Nat : Cut(x * Pow(n)) \in Word
    <2>1. \A x \in Int, p \in Nat : x * p \in Int
      OBVIOUS
    <2> QED
      BY <1>4, <2>1
  <1>a. CASE ShiftLeft
    <2>1. Cut(rt * Pow(ins.imm)) \in Word /\ Cut(rt * Pow(rs % Width)) \in Word
      BY <1>2, <1>6, <1>7
    <2> QED
      BY <2>1, <1>a, WritesTypes DEF ShiftLeft
  <1>b. CASE ShiftRight
    <2>1. rt \div Pow(ins.imm) \in Word /\ rt \div Pow(rs % Width) \in Word
      BY <1>2, <1>6, ShiftedDown
    <2> QED
      BY <2>1, <1>b, WritesTypes DEF ShiftRight
  <1>c. CASE Arithmetic
    <2>1. Cut(rs + Operand) \in Word /\ Cut(rs - rt) \in Word
      BY <1>2, <1>4
    <2> QED
      BY <2>1, <1>c, WritesTypes DEF Arithmetic
  <1>d. CASE Logic
    BY <1>d, WordOfIsWord, WritesTypes DEF Logic
  <1>e. CASE SetOnLess
    BY <1>3, <1>e, WritesTypes DEF SetOnLess
  <1>f. CASE LoadUpper
    <2>1. Cut(ins.imm * Pow(Half)) \in Word
      <3>1. Half \in Nat /\ ins.imm \in Int
        BY <1>2, Sizes
      <3> QED
        BY <1>7, <3>1
    <2> QED
      BY <2>1, <1>f, WritesTypes DEF LoadUpper
  <1>g. CASE Add
    <2> DEFINE sum == rs + (IF ins.op = "addi" THEN Signed(Operand) ELSE rt)
    <2>1. CASE sum \in Word /\ Writes({"add", "addi"}, sum)
      <3> HIDE DEF sum
      <3> QED
        BY <2>1, WritesTypes
    <2>2. CASE status' = "exited" /\ UNCHANGED <<pc, npc, regs, hi, lo, bytes, program, given>>
      BY <2>2 DEF TypeInv, TypeOK
    <2> QED
      BY <1>g, <2>1, <2>2 DEF Add
  <1>h. CASE MoveFrom
    BY <1>5, <1>h, WritesTypes DEF MoveFrom
  <1>i. CASE MoveTo
    BY <1>2, <1>i, AdvanceTypes DEF MoveTo, TypeInv, TypeOK
  <1>j. CASE Multiply
    <2>1. Cut(rs * rt) \in Word
      <3>1. rs * rt \in Int
        BY <1>2
      <3> QED
        BY <3>1, <1>4
    <2> QED
      BY <2>1, <1>3, <1>j, AdvanceTypes DEF Multiply, TypeInv, TypeOK
  <1>k. CASE Divide
    <2> DEFINE x == IF ins.op = "div" THEN Signed(rs) ELSE rs
               y == IF ins.op = "div" THEN Signed(rt) ELSE rt
    <2>1. CASE /\ ~Traps /\ Advance /\ UNCHANGED <<regs, bytes>>
               /\ lo' = Cut(Quotient(x, y)) /\ hi' = Cut(x - Quotient(x, y) * y)
      <3>1. x \in Int /\ y \in Int
        BY <1>2, <1>4
      <3>2. y # 0
        <4>1. rt # 0
          BY <2>1 DEF Traps
        <4> QED
          BY <4>1, <1>2, SignedIsInt
      <3> HIDE DEF x, y
      <3>3. Quotient(x, y) \in Int
        BY <3>1, <3>2, QuotientIsInt
      <3>4. x - Quotient(x, y) * y \in Int
        BY <3>1, <3>3
      <3>5. lo' \in Word /\ hi' \in Word
        BY <2>1, <3>3, <3>4, CutIsWord
      <3> QED
        BY <2>1, <3>5, AdvanceTypes DEF TypeInv, TypeOK
    <2>2. CASE status' = "aborted" /\ UNCHANGED <<pc, npc, regs, hi, lo, bytes, program, given>>
      BY <2>2 DEF TypeInv, TypeOK
    <2> QED
      BY <1>k, <2>1, <2>2 DEF Divide
  <1>l. CASE Branch
    <2>1. npc \in Int
      BY NIsNat DEF TypeInv, TypeOK, Word
    <2>2. Displacement \in Int
      <3>1. ins.imm * 4 \in Int /\ Half \in Nat
        BY <1>2, Sizes
      <3>2. Sx(ins.imm * 4, Half) \in Word
        BY <3>1, SxIsWord
      <3> QED
        BY <3>2, NIsNat DEF Displacement, Word
    <2>3. npc + (IF Taken THEN Displacement ELSE 4) \in Int
      BY <2>1, <2>2
    <2>4. npc' \in Word
      BY <2>3, <1>l, CutIsWord DEF Branch
    <2> QED
      BY <2>4, <1>l DEF Branch, TypeInv, TypeOK
  <1>m. CASE Load
    <2>1. CASE /\ Place(1) < 4
               /\ \/ Writes({"lb"}, Sx(Loaded(1), Quarter)) \/ Writes({"lbu"}, Loaded(1))
      <3>1. Loaded(1) \in Word
        BY <1>1, <2>1, LoadedIsWord
      <3>2. Sx(Loaded(1), Quarter) \in Word
        <4>1. Loaded(1) \in Int /\ Quarter \in Nat
          BY <3>1, Sizes, NIsNat DEF Word
        <4> QED
          BY <4>1, SxIsWord
      <3> QED
        BY <2>1, <3>1, <3>2, WritesTypes
    <2>2. CASE /\ Place(2) < 4
               /\ \/ Writes({"lh"}, Sx(Loaded(2), Half)) \/ Writes({"lhu"}, Loaded(2))
      <3>1. Loaded(2) \in Word
        BY <1>1, <2>2, LoadedIsWord
      <3>2. Sx(Loaded(2), Half) \in Word
        <4>1. Loaded(2) \in Int /\ Half \in Nat
          BY <3>1, Sizes, NIsNat DEF Word
        <4> QED
          BY <4>1, SxIsWord
      <3> QED
        BY <2>2, <3>1, <3>2, WritesTypes
    <2>3. CASE Place(4) < 4 /\ Writes({"lw"}, Loaded(4))
      <3>1. Loaded(4) \in Word
        BY <1>1, <2>3, LoadedIsWord
      <3> QED
        BY <2>3, <3>1, WritesTypes
    <2> QED
      <3>1. Place(AccessSize[ins.op]) < 4
        BY <1>m DEF Load, Accesses
      <3>2. /\ ins.op \in {"lb", "lbu"} => AccessSize[ins.op] = 1
            /\ ins.op \in {"lh", "lhu"} => AccessSize[ins.op] = 2
            /\ ins.op \in {"lw"} => AccessSize[ins.op] = 4
        BY DEF AccessSize
      <3>3. \/ ins.op \in {"lb", "lbu"} /\ (Writes({"lb"}, Sx(Loaded(1), Quarter)) \/ Writes({"lbu"}, Loaded(1)))
            \/ ins.op \in {"lh", "lhu"} /\ (Writes({"lh"}, Sx(Loaded(2), Half)) \/ Writes({"lhu"}, Loaded(2)))
            \/ ins.op \in {"lw"} /\ Writes({"lw"}, Loaded(4))
        BY <1>m DEF Load, Writes
      <3> QED
        BY <3>1, <3>2, <3>3, <2>1, <2>2, <2>3
  <1>n. CASE Store
    <2> DEFINE n == AccessSize[ins.op]
               Stored(q) == (rt \div Pow(Quarter * (q - Place(n)))) % Pow(Quarter)
    <2>1. Advance /\ UNCHANGED <<regs, hi, lo>> /\ Place(n) < 4 /\ n \in {1, 2, 4}
          /\ bytes' = [q \in 0..3 |-> IF q \in Place(n)..(Place(n) + n - 1)
                                      THEN Stored(q) ELSE bytes[q]]
      BY <1>n DEF Store, Accesses, AccessSize
    <2> HIDE DEF n
    <2>2. ASSUME NEW q \in 0..3, q \in Place(n)..(Place(n) + n - 1)
          PROVE  Stored(q) \in 0..(Pow(Quarter) - 1)
      <3>1. Place(n) \in 0..3
        BY <1>1, <2>1, Placed
      <3>2. q - Place(n) \in Nat
        BY <2>2, <3>1
      <3>3. Quarter * (q - Place(n)) \in Nat
        BY <3>2, Sizes
      <3>4. rt \div Pow(Quarter * (q - Place(n))) \in Int
        BY <3>3, <1>2, PowNext
      <3>5. Pow(Quarter) \in Nat /\ Pow(Quarter) > 0
        BY Sizes
      <3> QED
        BY <3>4, <3>5
    <2>3. bytes' \in [0..3 -> 0..(Pow(Quarter) - 1)]
      <3> HIDE DEF Stored
      <3> QED
        BY <2>1, <2>2 DEF TypeInv, TypeOK
    <2> QED
      BY <2>1, <2>3, AdvanceTypes DEF TypeInv, TypeOK
  <1> QED
    BY <1>a, <1>b, <1>c, <1>d, <1>e, <1>f, <1>g, <1>h, <1>i, <1>j, <1>k, <1>l,
       <1>m, <1>n DEF Next

(* Whatever the operands, registers, hi, lo and program counters stay      *)
(* words, and memory holds bytes: no instruction leaves the width, the     *)
(* loads and the extended immediates included.                             *)
THEOREM AluTypes == Spec => []TypeInv /\ []TypeOK
  <1>1. Init => TypeInv
    <2> SUFFICES ASSUME Init PROVE TypeInv
      OBVIOUS
    <2>1. PICK s \in Starts : program = s.program /\ regs = s.regs /\ given = s.regs
      BY DEF Init
    <2>2. /\ regs \in [Reg -> Word] /\ given \in [Reg -> Word]
          /\ program.code \in Seq(InstrType) /\ 4 * Len(program.code) < N
      BY <2>1, AluAssumption
    <2>3. {0, 4} \subseteq Word
      BY NIsNat DEF Word
    <2>4. 0 \in 0..(Pow(Quarter) - 1)
      BY Sizes
    <2>5. bytes \in [0..3 -> 0..(Pow(Quarter) - 1)]
      BY <2>4 DEF Init
    <2> QED
      BY <2>2, <2>3, <2>5 DEF Init, TypeInv, TypeOK
  <1>2. TypeInv /\ [Next]_vars => TypeInv'
    <2>1. CASE UNCHANGED vars
      BY <2>1 DEF vars, TypeInv, TypeOK
    <2> QED
      BY <2>1, StepTypes
  <1>3. TypeInv => TypeOK
    BY DEF TypeInv
  <1> QED
    BY <1>1, <1>2, <1>3, PTL DEF Spec

-----------------------------------------------------------------------------
(* What an instruction does, in a sequence that does not branch            *)

(* Between instructions that do not branch, the next one follows.          *)
Straight == pc % 4 = 0 /\ npc = Cut(pc + 4)

Continues ==
  /\ pc' = pc + 4 /\ Straight'
  /\ UNCHANGED <<status, program, given>>

Halts(how) ==
  status' = how /\ UNCHANGED <<pc, npc, regs, hi, lo, bytes, program, given>>

Sets(d, value) ==
  Advance /\ regs' = [regs EXCEPT ![d] = value] /\ UNCHANGED <<hi, lo, bytes>>

LEMMA AdvanceContinues ==
  ASSUME TypeInv, Straight, Advance
  PROVE  Continues
  <1> DEFINE len == Len(program.code)
  <1>1. /\ len \in Nat /\ pc \in Nat /\ pc < 4 * len /\ 4 * len < N /\ pc % 4 = 0
        /\ N \in Nat
    <2>1. len \in Nat /\ 4 * len < N
      BY DEF TypeInv
    <2>2. pc \in Nat /\ N \in Nat
      BY NIsNat DEF TypeInv, TypeOK, Word
    <2>3. pc < 4 * len /\ pc % 4 = 0
      BY DEF Straight, Advance, Running
    <2> QED
      BY <2>1, <2>2, <2>3
  <1> HIDE DEF len
  <1>2. pc + 4 \in 0..(N - 1) /\ (pc + 4) % 4 = 0
    <2>1. pc + 4 < N
      <3>1. pc \div 4 + 1 <= len /\ pc = 4 * (pc \div 4)
        BY <1>1
      <3> QED
        BY <1>1, <3>1
    <2> QED
      BY <1>1, <2>1
  <1>3. pc' = pc + 4
    BY <1>2, CutNear DEF Advance, Straight, Word
  <1>4. npc' = Cut(pc' + 4)
    BY <1>3 DEF Advance, Straight
  <1> QED
    BY <1>2, <1>3, <1>4 DEF Continues, Straight, Advance

LEMMA WritesSets ==
  ASSUME NEW ops, NEW value, Writes(ops, value)
  PROVE  Sets(ins.d, value)
  BY DEF Writes, Sets

(* Which action there is for an instruction.                               *)
LEMMA Dispatch ==
  ASSUME Next
  PROVE  \/ ShiftLeft /\ ins.op \in {"sll", "sllv"}
         \/ ShiftRight /\ ins.op \in {"srl", "sra", "srav"}
         \/ Arithmetic /\ ins.op \in {"addu", "addiu", "subu"}
         \/ Logic /\ ins.op \in {"and", "andi", "or", "ori", "nor"}
         \/ SetOnLess /\ ins.op \in {"slt", "slti", "sltu", "sltiu"}
         \/ LoadUpper /\ ins.op = "lui"
         \/ Add /\ ins.op \in {"add", "addi"}
         \/ MoveFrom /\ ins.op \in {"mfhi", "mflo"}
         \/ MoveTo /\ ins.op \in {"mthi", "mtlo"}
         \/ Multiply /\ ins.op \in {"mult", "multu"}
         \/ Divide /\ ins.op \in {"div", "divu"}
         \/ Branch /\ ins.op \in {"beq", "bne", "blez", "bgtz", "bgez", "bltz"}
         \/ Load /\ ins.op \in {"lb", "lbu", "lh", "lhu", "lw"}
         \/ Store /\ ins.op \in {"sb", "sh", "sw"}
  BY DEF Next, ShiftLeft, ShiftRight, Arithmetic, Logic, SetOnLess, LoadUpper,
         Add, MoveFrom, MoveTo, Multiply, Divide, Branch, BranchOps, Load, Store,
         Writes, Accesses

(* The only step there is while the instruction is one of these.           *)
LEMMA Executes ==
  ASSUME Next
  PROVE  /\ ins.op = "sll" => Sets(ins.d, Cut(rt * Pow(ins.imm)))
         /\ ins.op = "sllv" => Sets(ins.d, Cut(rt * Pow(rs % Width)))
         /\ ins.op \in {"srl", "sra"} => Sets(ins.d, rt \div Pow(ins.imm))
         /\ ins.op = "srav" => Sets(ins.d, rt \div Pow(rs % Width))
         /\ ins.op = "addu" => Sets(ins.d, Cut(rs + rt))
         /\ ins.op = "addiu" => Sets(ins.d, Cut(rs + Sx(ins.imm, Half)))
         /\ ins.op = "subu" => Sets(ins.d, Cut(rs - rt))
         /\ ins.op = "and" => Sets(ins.d, WordOf(BitSet(rs) \cap BitSet(rt)))
         /\ ins.op = "andi" => Sets(ins.d, WordOf(BitSet(rs) \cap BitSet(ins.imm)))
         /\ ins.op = "or" => Sets(ins.d, WordOf(BitSet(rs) \cup BitSet(rt)))
         /\ ins.op = "ori" => Sets(ins.d, WordOf(BitSet(rs) \cup BitSet(ins.imm)))
         /\ ins.op = "nor" =>
              Sets(ins.d, WordOf(BitSet(N - 1) \ (BitSet(rs) \cup BitSet(rt))))
         /\ ins.op = "sltu" => Sets(ins.d, IF rs < rt THEN 1 ELSE 0)
         /\ ins.op = "sltiu" => Sets(ins.d, IF rs < Sx(ins.imm, Half) THEN 1 ELSE 0)
         /\ ins.op = "slt" => Sets(ins.d, IF Signed(rs) < Signed(rt) THEN 1 ELSE 0)
         /\ ins.op = "slti" =>
              Sets(ins.d, IF Signed(rs) < Signed(Sx(ins.imm, Half)) THEN 1 ELSE 0)
         /\ ins.op = "lui" => Sets(ins.d, Cut(ins.imm * Pow(Half)))
         /\ ins.op = "mfhi" => Sets(ins.d, hi)
         /\ ins.op = "mflo" => Sets(ins.d, lo)
  <1>1. ins.op \in {"addiu", "slti", "sltiu"} => Operand = Sx(ins.imm, Half)
    BY DEF Operand
  <1>2. ins.op \in {"andi", "ori"} => Operand = ins.imm
    BY DEF Operand
  <1>3. ins.op \in {"addu", "and", "or", "slt", "sltu"} => Operand = rt
    BY DEF Operand
  <1>a. ins.op \in {"sll", "sllv"} => ShiftLeft
    BY Dispatch
  <1>b. ins.op \in {"srl", "sra", "srav"} => ShiftRight
    BY Dispatch
  <1>c. ins.op \in {"addu", "addiu", "subu"} => Arithmetic
    BY Dispatch
  <1>d. ins.op \in {"and", "andi", "or", "ori", "nor"} => Logic
    BY Dispatch
  <1>e. ins.op \in {"slt", "slti", "sltu", "sltiu"} => SetOnLess
    BY Dispatch
  <1>f. ins.op = "lui" => LoadUpper
    BY Dispatch
  <1>g. ins.op \in {"mfhi", "mflo"} => MoveFrom
    BY Dispatch
  <1>4. \A ops, value : Writes(ops, value) => ins.op \in ops /\ Sets(ins.d, value)
    BY WritesSets DEF Writes
  <1>5. /\ ins.op = "sll" => Sets(ins.d, Cut(rt * Pow(ins.imm)))
        /\ ins.op = "sllv" => Sets(ins.d, Cut(rt * Pow(rs % Width)))
    BY <1>a, <1>4 DEF ShiftLeft
  <1>6. /\ ins.op \in {"srl", "sra"} => Sets(ins.d, rt \div Pow(ins.imm))
        /\ ins.op = "srav" => Sets(ins.d, rt \div Pow(rs % Width))
    BY <1>b, <1>4 DEF ShiftRight
  <1>7. /\ ins.op = "addu" => Sets(ins.d, Cut(rs + rt))
        /\ ins.op = "addiu" => Sets(ins.d, Cut(rs + Sx(ins.imm, Half)))
        /\ ins.op = "subu" => Sets(ins.d, Cut(rs - rt))
    BY <1>1, <1>3, <1>c, <1>4 DEF Arithmetic
  <1>8. /\ ins.op = "and" => Sets(ins.d, WordOf(BitSet(rs) \cap BitSet(rt)))
        /\ ins.op = "andi" => Sets(ins.d, WordOf(BitSet(rs) \cap BitSet(ins.imm)))
        /\ ins.op = "or" => Sets(ins.d, WordOf(BitSet(rs) \cup BitSet(rt)))
        /\ ins.op = "ori" => Sets(ins.d, WordOf(BitSet(rs) \cup BitSet(ins.imm)))
        /\ ins.op = "nor" =>
             Sets(ins.d, WordOf(BitSet(N - 1) \ (BitSet(rs) \cup BitSet(rt))))
    <2> DEFINE both == WordOf(BitSet(rs) \cap BitSet(Operand))
               either == WordOf(BitSet(rs) \cup BitSet(Operand))
               neither == WordOf(BitSet(N - 1) \ (BitSet(rs) \cup BitSet(rt)))
    <2>1. Logic => \/ Writes({"and", "andi"}, both) \/ Writes({"or", "ori"}, either)
                   \/ Writes({"nor"}, neither)
      BY DEF Logic
    <2>2. /\ ins.op = "and" => both = WordOf(BitSet(rs) \cap BitSet(rt))
          /\ ins.op = "andi" => both = WordOf(BitSet(rs) \cap BitSet(ins.imm))
      BY <1>2, <1>3, Zenon
    <2>3. /\ ins.op = "or" => either = WordOf(BitSet(rs) \cup BitSet(rt))
          /\ ins.op = "ori" => either = WordOf(BitSet(rs) \cup BitSet(ins.imm))
      BY <1>2, <1>3, Zenon
    <2> HIDE DEF both, either, neither
    <2>4. /\ ins.op \in {"and", "andi"} => Sets(ins.d, both)
          /\ ins.op \in {"or", "ori"} => Sets(ins.d, either)
          /\ ins.op = "nor" => Sets(ins.d, neither)
      BY <2>1, <1>d, <1>4
    <2>5. ins.op = "and" => Sets(ins.d, WordOf(BitSet(rs) \cap BitSet(rt)))
      BY <2>2, <2>4, Zenon
    <2>6. ins.op = "andi" => Sets(ins.d, WordOf(BitSet(rs) \cap BitSet(ins.imm)))
      BY <2>2, <2>4, Zenon
    <2>7. ins.op = "or" => Sets(ins.d, WordOf(BitSet(rs) \cup BitSet(rt)))
      BY <2>3, <2>4, Zenon
    <2>8. ins.op = "ori" => Sets(ins.d, WordOf(BitSet(rs) \cup BitSet(ins.imm)))
      BY <2>3, <2>4, Zenon
    <2>9. ins.op = "nor" =>
            Sets(ins.d, WordOf(BitSet(N - 1) \ (BitSet(rs) \cup BitSet(rt))))
      BY <2>4, Zenon DEF neither
    <2> QED
      BY <2>5, <2>6, <2>7, <2>8, <2>9, Zenon
  <1>9. /\ ins.op = "sltu" => Sets(ins.d, IF rs < rt THEN 1 ELSE 0)
        /\ ins.op = "sltiu" => Sets(ins.d, IF rs < Sx(ins.imm, Half) THEN 1 ELSE 0)
        /\ ins.op = "slt" => Sets(ins.d, IF Signed(rs) < Signed(rt) THEN 1 ELSE 0)
        /\ ins.op = "slti" =>
             Sets(ins.d, IF Signed(rs) < Signed(Sx(ins.imm, Half)) THEN 1 ELSE 0)
    BY <1>1, <1>3, <1>e, <1>4 DEF SetOnLess
  <1>10. /\ ins.op = "lui" => Sets(ins.d, Cut(ins.imm * Pow(Half)))
         /\ ins.op = "mfhi" => Sets(ins.d, hi)
         /\ ins.op = "mflo" => Sets(ins.d, lo)
    BY <1>f, <1>g, <1>4 DEF LoadUpper, MoveFrom
  <1> QED
    BY <1>5, <1>6, <1>7, <1>8, <1>9, <1>10

LEMMA ExecutesAdd ==
  ASSUME Next, ins.op \in {"add", "addi"},
         NEW sum, sum = rs + (IF ins.op = "addi" THEN Signed(Sx(ins.imm, Half)) ELSE rt)
  PROVE  \/ sum \in Word /\ Sets(ins.d, sum)
         \/ sum \notin Word /\ Halts("exited")
  <1>1. Add
    BY Dispatch
  <1>2. ins.op = "addi" => Operand = Sx(ins.imm, Half)
    BY DEF Operand
  <1>3. sum = rs + (IF ins.op = "addi" THEN Signed(Operand) ELSE rt)
    BY <1>2
  <1> QED
    BY <1>1, <1>3, WritesSets DEF Add, Halts

(* The results that go to hi and lo.                                       *)
SetsHiLo(upper, lower) ==
  Continues /\ hi' = upper /\ lo' = lower /\ UNCHANGED <<regs, bytes>>

LEMMA ExecutesHiLo ==
  ASSUME TypeInv, Straight, Next
  PROVE  /\ ins.op \in {"mult", "multu"} => SetsHiLo(0, Cut(rs * rt))
         /\ ins.op = "mthi" => SetsHiLo(rs, lo)
         /\ ins.op = "mtlo" => SetsHiLo(hi, rs)
  <1>1. ins.op \in {"mult", "multu"} => SetsHiLo(0, Cut(rs * rt))
    <2>1. ins.op \in {"mult", "multu"} => Multiply
      BY Dispatch
    <2> QED
      BY <2>1, AdvanceContinues DEF Multiply, SetsHiLo
  <1>2. /\ ins.op = "mthi" => SetsHiLo(rs, lo)
        /\ ins.op = "mtlo" => SetsHiLo(hi, rs)
    <2>1. ins.op \in {"mthi", "mtlo"} => MoveTo
      BY Dispatch
    <2> QED
      BY <2>1, AdvanceContinues DEF MoveTo, SetsHiLo
  <1> QED
    BY <1>1, <1>2

(* The dividend and the divisor as DIV and DIVU read them.                 *)
ReadAs(op, w) == IF op = "div" THEN Signed(w) ELSE w

LEMMA ExecutesDivide ==
  ASSUME TypeInv, Straight, Next, ins.op \in {"div", "divu"},
         NEW x, x = ReadAs(ins.op, rs), NEW y, y = ReadAs(ins.op, rt)
  PROVE  \/ ~Traps /\ SetsHiLo(Cut(x - Quotient(x, y) * y), Cut(Quotient(x, y)))
         \/ Traps /\ Halts("aborted")
  <1>1. Divide
    BY Dispatch
  <1>2. /\ x = IF ins.op = "div" THEN Signed(rs) ELSE rs
        /\ y = IF ins.op = "div" THEN Signed(rt) ELSE rt
    BY DEF ReadAs
  <1>3. CASE ~Traps
    <2>1. Advance /\ UNCHANGED <<regs, bytes>>
      BY <1>1, <1>3 DEF Divide
    <2>2. lo' = Cut(Quotient(x, y)) /\ hi' = Cut(x - Quotient(x, y) * y)
      BY <1>1, <1>2, <1>3, Zenon DEF Divide
    <2> QED
      BY <1>3, <2>1, <2>2, AdvanceContinues DEF SetsHiLo
  <1>4. CASE Traps
    BY <1>1, <1>4 DEF Divide, Halts
  <1> QED
    BY <1>3, <1>4

-----------------------------------------------------------------------------
(* The sequences                                                           *)

(* The machine runs a sequence of the library from its beginning.          *)
LEMMA Starting ==
  ASSUME Init
  PROVE  /\ Straight /\ pc = 0 /\ status = "running"
         /\ Library(program) /\ regs = given /\ regs[0] = 0
  <1>1. PICK s \in Starts : program = s.program /\ regs = s.regs /\ given = s.regs
    BY DEF Init
  <1>2. Library(program) /\ regs[0] = 0
    BY <1>1, IdiomsAssumption
  <1>3. Cut(0 + 4) = 4
    BY NIsNat DEF Cut
  <1> QED
    BY <1>1, <1>2, <1>3 DEF Init, Straight

LEMMA Fixed ==
  ASSUME Next
  PROVE  /\ program' = program /\ given' = given
         /\ status = "running" /\ pc < 4 * Len(program.code)
  BY DEF Next, ShiftLeft, ShiftRight, Arithmetic, Logic, SetOnLess, LoadUpper,
         Add, MoveFrom, MoveTo, Multiply, Divide, Branch, Load, Store,
         Writes, Accesses, Advance, Running

(* Registers 0 to 7 before and after one of them is set.                   *)
LEMMA SetsOne ==
  ASSUME TypeInv, NEW d \in 0..7, NEW value, Sets(d, value)
  PROVE  regs'[d] = value /\ \A r \in (0..7) \ {d} : regs'[r] = regs[r]
  <1>1. regs \in [Reg -> Word] /\ 0..7 \subseteq Reg
    BY IdiomsAssumption DEF TypeInv, TypeOK
  <1> QED
    BY <1>1 DEF Sets

LEMMA Operands ==
  ASSUME TypeInv
  PROVE  \A r \in 0..7 : regs[r] \in Word /\ given[r] \in Word
  BY IdiomsAssumption DEF TypeInv, TypeOK

(* The middle of the range of words, by its upper half.                    *)
Middle == Pow(Half - 1) * Pow(Half)

LEMMA MiddleOfRange == Middle \in Word /\ 2 * Middle = N
  <1>1. /\ Pow(Half - 1) \in Nat \ {0} /\ Pow(Half) \in Nat \ {0}
        /\ Pow(Half) = 2 * Pow(Half - 1) /\ N = Pow(Half) * Pow(Half)
    BY Sizes
  <1>2. 2 * Middle = N /\ Middle \in Nat
    BY <1>1 DEF Middle
  <1> QED
    BY <1>2, NIsNat DEF Word

CompareInv ==
  /\ Straight /\ pc \in {0, 4, 8, 12, 16, 20}
  /\ regs[1] = a /\ regs[3] = b
  /\ pc >= 4 => regs[4] = Middle
  /\ pc >= 8 => regs[5] = Cut(a + Middle)
  /\ pc >= 12 => regs[6] = Cut(b + Middle)
  /\ pc >= 16 => regs[7] = IF regs[5] < regs[6] THEN 1 ELSE 0
  /\ pc >= 20 => regs[2] = IF Signed(a) < Signed(b) THEN 1 ELSE 0

LEMMA CompareStep ==
  ASSUME TypeInv, program = Compare, CompareInv, Next
  PROVE  CompareInv'
  <1>1. /\ pc = 0 => ins.op = "lui" /\ ins.d = 4 /\ ins.imm = Pow(Half - 1) % Pow(Half)
        /\ pc = 4 => ins.op = "addu" /\ ins.d = 5 /\ ins.s = 1 /\ ins.t = 4
        /\ pc = 8 => ins.op = "addu" /\ ins.d = 6 /\ ins.s = 3 /\ ins.t = 4
        /\ pc = 12 => ins.op = "sltu" /\ ins.d = 7 /\ ins.s = 5 /\ ins.t = 6
        /\ pc = 16 => ins.op = "slt" /\ ins.d = 2 /\ ins.s = 1 /\ ins.t = 3
        /\ Len(program.code) = 5
    BY DEF ins, Compare, P, R, I
  <1>2. Cut(ins.imm * Pow(Half)) = Middle \/ pc # 0
    <2>1. Pow(Half - 1) \in Nat /\ Pow(Half) \in Nat /\ Pow(Half - 1) < Pow(Half)
      BY Sizes
    <2>2. Pow(Half - 1) % Pow(Half) = Pow(Half - 1)
      BY <2>1
    <2> QED
      BY <1>1, <2>2, MiddleOfRange, CutNear, NIsNat DEF Middle, Word
  <1>3. /\ pc = 0 => Sets(4, Middle)
        /\ pc = 4 => Sets(5, Cut(regs[1] + regs[4]))
        /\ pc = 8 => Sets(6, Cut(regs[3] + regs[4]))
        /\ pc = 12 => Sets(7, IF regs[5] < regs[6] THEN 1 ELSE 0)
        /\ pc = 16 => Sets(2, IF Signed(regs[1]) < Signed(regs[3]) THEN 1 ELSE 0)
    BY <1>1, <1>2, Executes DEF CompareInv, rs, rt
  <1>4. pc' = pc + 4 /\ Straight' /\ UNCHANGED given /\ pc \in {0, 4, 8, 12, 16}
    BY AdvanceContinues, <1>1, <1>3, Fixed DEF CompareInv, Sets, Continues
  <1>5. CASE pc = 0
    BY <1>3, <1>4, <1>5, SetsOne DEF CompareInv, a, b
  <1>6. CASE pc = 4
    BY <1>3, <1>4, <1>6, SetsOne DEF CompareInv, a, b
  <1>7. CASE pc = 8
    BY <1>3, <1>4, <1>7, SetsOne DEF CompareInv, a, b
  <1>8. CASE pc = 12
    BY <1>3, <1>4, <1>8, SetsOne DEF CompareInv, a, b
  <1>9. CASE pc = 16
    BY <1>3, <1>4, <1>9, SetsOne DEF CompareInv, a, b
  <1> QED
    BY <1>4, <1>5, <1>6, <1>7, <1>8, <1>9

(* An immediate as a signed number, and as the word it is extended to.     *)
LEMMA Immediate ==
  ASSUME NEW k \in 0..(Pow(Half) - 1)
  PROVE  /\ k % Pow(Half) = k
         /\ Sx(k, Half) \in Word
         /\ 2 * k < Pow(Half) => Sx(k, Half) = k /\ Signed(Sx(k, Half)) = k
         /\ 2 * k >= Pow(Half) => /\ Sx(k, Half) = N + k - Pow(Half)
                                  /\ Signed(Sx(k, Half)) = k - Pow(Half)
  <1> DEFINE p == Pow(Half)
  <1>1. p \in Nat /\ p >= 2 /\ N \in Nat /\ 4 * p <= N
    <2>1. /\ Pow(Quarter) >= 2 /\ Pow(Half) = Pow(Quarter) * Pow(Quarter)
          /\ Pow(Quarter) \in Nat /\ N = Pow(Half) * Pow(Half)
      BY Sizes
    <2>2. Pow(Half) >= 4
      BY <2>1
    <2> QED
      BY <2>1, <2>2
  <1>2. k \in Nat /\ k < p
    BY <1>1
  <1> HIDE DEF p
  <1>3. k % p = k
    BY <1>1, <1>2
  <1>4. 2 * k < p => Cut(k) = k
    BY <1>1, <1>2, CutNear DEF Word
  <1>5. 2 * k >= p => Cut(k - p) = N + k - p
    BY <1>1, <1>2, CutNear
  <1>6. /\ 2 * k < p => Sx(k, Half) = k
        /\ 2 * k >= p => Sx(k, Half) = N + k - p
    BY <1>1, <1>2, <1>3, <1>4, <1>5 DEF Sx, p
  <1>7. /\ 2 * k < p => Signed(k) = k
        /\ 2 * k >= p => Signed(N + k - p) = k - p
    BY <1>1, <1>2 DEF Signed
  <1> QED
    BY <1>1, <1>2, <1>3, <1>6, <1>7 DEF p, Word

CompareImmInv(k) ==
  /\ Straight /\ pc \in {0, 4, 8, 12, 16, 20}
  /\ regs[0] = 0 /\ regs[1] = a
  /\ pc >= 4 => regs[4] = Sx(k, Half)
  /\ pc >= 8 => regs[5] = IF Signed(a) < Signed(Sx(k, Half)) THEN 1 ELSE 0
  /\ pc >= 12 => regs[6] = regs[5]
  /\ pc >= 16 => regs[2] = IF a < Sx(k, Half) THEN 1 ELSE 0
  /\ pc >= 20 => regs[7] = regs[2]

LEMMA CompareImmStep ==
  ASSUME TypeInv, NEW k \in 0..(Pow(Half) - 1), program = CompareImm(k),
         CompareImmInv(k), Next
  PROVE  CompareImmInv(k)'
  <1>1. /\ pc = 0 => ins.op = "addiu" /\ ins.d = 4 /\ ins.s = 0 /\ ins.imm = k
        /\ pc = 4 => ins.op = "slt" /\ ins.d = 5 /\ ins.s = 1 /\ ins.t = 4
        /\ pc = 8 => ins.op = "slti" /\ ins.d = 6 /\ ins.s = 1 /\ ins.imm = k
        /\ pc = 12 => ins.op = "sltu" /\ ins.d = 2 /\ ins.s = 1 /\ ins.t = 4
        /\ pc = 16 => ins.op = "sltiu" /\ ins.d = 7 /\ ins.s = 1 /\ ins.imm = k
        /\ Len(program.code) = 5
    BY Immediate DEF ins, CompareImm, P, R, I
  <1> DEFINE w == Sx(k, Half)
  <1>2. Cut(0 + w) = w
    BY Immediate, CutNear, NIsNat DEF Word
  <1>3. /\ pc = 0 => Sets(4, Cut(regs[0] + w))
        /\ pc = 4 => Sets(5, IF Signed(regs[1]) < Signed(regs[4]) THEN 1 ELSE 0)
        /\ pc = 8 => Sets(6, IF Signed(regs[1]) < Signed(w) THEN 1 ELSE 0)
        /\ pc = 12 => Sets(2, IF regs[1] < regs[4] THEN 1 ELSE 0)
        /\ pc = 16 => Sets(7, IF regs[1] < w THEN 1 ELSE 0)
    BY <1>1, Executes DEF CompareImmInv, rs, rt
  <1>4. pc' = pc + 4 /\ Straight' /\ UNCHANGED given /\ pc \in {0, 4, 8, 12, 16}
    BY AdvanceContinues, <1>1, <1>3, Fixed DEF CompareImmInv, Sets, Continues
  <1> HIDE DEF w
  <1>5. CASE pc = 0
    BY <1>2, <1>3, <1>4, <1>5, SetsOne DEF CompareImmInv, a, w
  <1>6. CASE pc = 4
    BY <1>3, <1>4, <1>6, SetsOne DEF CompareImmInv, a, w
  <1>7. CASE pc = 8
    BY <1>3, <1>4, <1>7, SetsOne DEF CompareImmInv, a, w
  <1>8. CASE pc = 12
    BY <1>3, <1>4, <1>8, SetsOne DEF CompareImmInv, a, w
  <1>9. CASE pc = 16
    BY <1>3, <1>4, <1>9, SetsOne DEF CompareImmInv, a, w
  <1> QED
    BY <1>4, <1>5, <1>6, <1>7, <1>8, <1>9

(* A word moved by half the range is its signed number, moved likewise.    *)
LEMMA Moved ==
  ASSUME NEW w \in Word
  PROVE  Cut(w + Middle) = Signed(w) + Middle
  <1>1. N \in Nat /\ w \in Nat /\ w < N /\ Middle \in Nat /\ 2 * Middle = N
    BY NIsNat, MiddleOfRange DEF Word
  <1>2. CASE 2 * w < N
    <2>1. w + Middle \in Word
      BY <1>1, <1>2 DEF Word
    <2> QED
      BY <1>1, <1>2, <2>1, CutNear DEF Signed
  <1>3. CASE 2 * w >= N
    <2>1. w + Middle >= N /\ w + Middle < 2 * N /\ w + Middle \in Int
      BY <1>1, <1>3
    <2> QED
      BY <1>1, <1>3, <2>1, CutNear DEF Signed
  <1> QED
    BY <1>1, <1>2, <1>3

CheckedAddInv ==
  /\ Straight /\ pc \in {0, 4, 8, 12}
  /\ regs[1] = a /\ regs[3] = b
  /\ pc >= 4 => regs[5] = Cut(a + b)
  /\ pc >= 8 => regs[6] = IF regs[5] < b THEN 1 ELSE 0
  /\ pc >= 12 => a + b \in Word /\ regs[7] = a + b
  /\ status = "exited" => pc = 8 /\ a + b \notin Word

LEMMA CheckedAddStep ==
  ASSUME TypeInv, program = CheckedAdd, CheckedAddInv, Next
  PROVE  CheckedAddInv'
  <1>1. /\ pc = 0 => ins.op = "addu" /\ ins.d = 5 /\ ins.s = 1 /\ ins.t = 3
        /\ pc = 4 => ins.op = "sltu" /\ ins.d = 6 /\ ins.s = 5 /\ ins.t = 3
        /\ pc = 8 => ins.op = "add" /\ ins.d = 7 /\ ins.s = 1 /\ ins.t = 3
        /\ Len(program.code) = 3
    BY DEF ins, CheckedAdd, P, R
  <1>2. pc \in {0, 4, 8} /\ UNCHANGED given /\ status = "running"
    BY <1>1, Fixed DEF CheckedAddInv
  <1> DEFINE Goes == pc' = pc + 4 /\ Straight' /\ status' = "running"
  <1>0. \A d, v : Sets(d, v) => Goes
    BY <1>2, AdvanceContinues DEF Sets, Continues, CheckedAddInv
  <1>3. CASE pc = 0
    <2>1. Sets(5, Cut(regs[1] + regs[3]))
      BY <1>1, <1>3, Executes DEF CheckedAddInv, rs, rt
    <2>2. Goes
      BY <1>0, <2>1
    <2> QED
      BY <1>2, <1>3, <2>1, <2>2, SetsOne DEF CheckedAddInv, a, b
  <1>4. CASE pc = 4
    <2>1. Sets(6, IF regs[5] < regs[3] THEN 1 ELSE 0)
      BY <1>1, <1>4, Executes DEF CheckedAddInv, rs, rt
    <2>2. Goes
      BY <1>0, <2>1
    <2> QED
      BY <1>2, <1>4, <2>1, <2>2, SetsOne DEF CheckedAddInv, a, b
  <1>5. CASE pc = 8
    <2>1. \/ regs[1] + regs[3] \in Word /\ Sets(7, regs[1] + regs[3])
          \/ regs[1] + regs[3] \notin Word /\ Halts("exited")
      BY <1>1, <1>5, ExecutesAdd DEF CheckedAddInv, rs, rt
    <2>2. CASE regs[1] + regs[3] \in Word /\ Sets(7, regs[1] + regs[3])
      <3>1. Goes
        BY <1>0, <2>2
      <3> QED
        BY <1>2, <1>5, <2>2, <3>1, SetsOne DEF CheckedAddInv, a, b
    <2>3. CASE regs[1] + regs[3] \notin Word /\ Halts("exited")
      BY <1>2, <1>5, <2>3 DEF CheckedAddInv, a, b, Halts, Straight
    <2> QED
      BY <2>1, <2>2, <2>3
  <1> QED
    BY <1>2, <1>3, <1>4, <1>5

CheckedAddImmInv(k) ==
  LET sum == a + Signed(Sx(k, Half))
  IN  /\ Straight /\ pc \in {0, 4, 8}
      /\ regs[1] = a
      /\ pc >= 4 => regs[5] = Cut(a + Sx(k, Half))
      /\ pc >= 8 => sum \in Word /\ regs[7] = sum
      /\ status = "exited" => pc = 4 /\ sum \notin Word

LEMMA CheckedAddImmStep ==
  ASSUME TypeInv, NEW k \in 0..(Pow(Half) - 1), program = CheckedAddImm(k),
         CheckedAddImmInv(k), Next
  PROVE  CheckedAddImmInv(k)'
  <1>1. /\ pc = 0 => ins.op = "addiu" /\ ins.d = 5 /\ ins.s = 1 /\ ins.imm = k
        /\ pc = 4 => ins.op = "addi" /\ ins.d = 7 /\ ins.s = 1 /\ ins.imm = k
        /\ Len(program.code) = 2
    BY Immediate DEF ins, CheckedAddImm, P, I
  <1> DEFINE w == Sx(k, Half)
             v == Signed(Sx(k, Half))
             Goes == pc' = pc + 4 /\ Straight' /\ status' = "running"
  <1>2. pc \in {0, 4} /\ UNCHANGED given /\ status = "running"
    BY <1>1, Fixed DEF CheckedAddImmInv
  <1>0. \A d, value : Sets(d, value) => Goes
    BY <1>2, AdvanceContinues DEF Sets, Continues, CheckedAddImmInv
  <1>3. CASE pc = 0
    <2>1. Sets(5, Cut(regs[1] + w))
      BY <1>1, <1>3, Executes DEF CheckedAddImmInv, rs
    <2>2. Goes
      BY <1>0, <2>1
    <2> HIDE DEF w
    <2> QED
      BY <1>2, <1>3, <2>1, <2>2, SetsOne DEF CheckedAddImmInv, a, w
  <1>4. CASE pc = 4
    <2>1. \/ regs[1] + v \in Word /\ Sets(7, regs[1] + v)
          \/ regs[1] + v \notin Word /\ Halts("exited")
      BY <1>1, <1>4, ExecutesAdd DEF CheckedAddImmInv, rs, rt
    <2>2. CASE regs[1] + v \in Word /\ Sets(7, regs[1] + v)
      <3>1. Goes
        BY <1>0, <2>2
      <3> HIDE DEF v
      <3> QED
        BY <1>2, <1>4, <2>2, <3>1, SetsOne DEF CheckedAddImmInv, a, v
    <2>3. CASE regs[1] + v \notin Word /\ Halts("exited")
      BY <1>2, <1>4, <2>3 DEF CheckedAddImmInv, a, Halts, Straight
    <2> QED
      BY <2>1, <2>2, <2>3
  <1> QED
    BY <1>2, <1>3, <1>4

ProductInv ==
  /\ Straight /\ pc \in {0, 4, 8, 12}
  /\ regs[1] = a /\ regs[3] = b
  /\ pc >= 4 => hi = 0 /\ lo = Cut(a * b)
  /\ pc >= 8 => regs[5] = hi
  /\ pc >= 12 => regs[6] = lo

LEMMA ProductStep ==
  ASSUME TypeInv, program \in {Product("mult"), Product("multu")}, ProductInv, Next
  PROVE  ProductInv'
  <1>1. /\ pc = 0 => ins.op \in {"mult", "multu"} /\ ins.s = 1 /\ ins.t = 3
        /\ pc = 4 => ins.op = "mfhi" /\ ins.d = 5
        /\ pc = 8 => ins.op = "mflo" /\ ins.d = 6
        /\ Len(program.code) = 3
    BY DEF ins, Product, P, R
  <1>2. /\ pc = 0 => SetsHiLo(0, Cut(regs[1] * regs[3]))
        /\ pc = 4 => Sets(5, hi)
        /\ pc = 8 => Sets(6, lo)
    BY <1>1, Executes, ExecutesHiLo DEF ProductInv, rs, rt
  <1>3. /\ pc' = pc + 4 /\ Straight' /\ UNCHANGED given /\ pc \in {0, 4, 8}
        /\ pc > 0 => UNCHANGED <<hi, lo>>
    BY AdvanceContinues, <1>1, <1>2, Fixed DEF ProductInv, Sets, SetsHiLo, Continues
  <1>4. CASE pc = 0
    BY <1>2, <1>3, <1>4 DEF ProductInv, a, b, SetsHiLo
  <1>5. CASE pc = 4
    BY <1>2, <1>3, <1>5, SetsOne DEF ProductInv, a, b
  <1>6. CASE pc = 8
    BY <1>2, <1>3, <1>6, SetsOne DEF ProductInv, a, b
  <1> QED
    BY <1>3, <1>4, <1>5, <1>6

(* The operands of a division, its quotient and its remainder.             *)
Dividend(op) == ReadAs(op, a)
Divisor(op) == ReadAs(op, b)
QuotientOf(op) == Quotient(Dividend(op), Divisor(op))
RemainderOf(op) == Dividend(op) - QuotientOf(op) * Divisor(op)

DivisionInv(op) ==
  /\ Straight /\ pc \in {0, 4, 8, 12, 16, 20, 24, 28, 32}
  /\ regs[1] = a /\ regs[3] = b
  /\ pc > 0 => b # 0
  /\ pc \in {4, 8, 12, 32} => hi = Cut(RemainderOf(op))
  /\ pc \in {4, 8, 12, 28, 32} => lo = Cut(QuotientOf(op))
  /\ pc >= 8 => regs[5] = Cut(QuotientOf(op))
  /\ pc >= 12 => regs[6] = Cut(RemainderOf(op))
  /\ pc \in {16, 20, 24} => lo = Cut(regs[5] * b)
  /\ pc = 20 => regs[7] = lo
  /\ pc >= 24 => regs[7] = Cut(Cut(regs[5] * b) + regs[6])
  /\ status = "aborted" => /\ pc = 0
                           /\ b = 0 \/ (op = "div" /\ 2 * a = N /\ b = N - 1)

LEMMA DivisionStep ==
  ASSUME TypeInv, NEW op \in {"div", "divu"}, program = Division(op),
         DivisionInv(op), Next
  PROVE  DivisionInv(op)'
  <1>1. /\ pc = 0 => ins.op = op /\ ins.s = 1 /\ ins.t = 3
        /\ pc = 4 => ins.op = "mflo" /\ ins.d = 5
        /\ pc = 8 => ins.op = "mfhi" /\ ins.d = 6
        /\ pc = 12 => ins.op = "mult" /\ ins.s = 5 /\ ins.t = 3
        /\ pc = 16 => ins.op = "mflo" /\ ins.d = 7
        /\ pc = 20 => ins.op = "addu" /\ ins.d = 7 /\ ins.s = 7 /\ ins.t = 6
        /\ pc = 24 => ins.op = "mtlo" /\ ins.s = 5
        /\ pc = 28 => ins.op = "mthi" /\ ins.s = 6
        /\ Len(program.code) = 8
    BY DEF ins, Division, P, R
  <1> DEFINE q == QuotientOf(op)
             r == RemainderOf(op)
             Goes == pc' = pc + 4 /\ Straight' /\ status' = "running"
  <1>2. /\ pc \in {0, 4, 8, 12, 16, 20, 24, 28} /\ UNCHANGED given
        /\ status = "running" /\ Straight
    BY <1>1, Fixed DEF DivisionInv
  <1>3. /\ \A d, value : Sets(d, value) => Goes /\ UNCHANGED <<hi, lo>>
        /\ \A upper, lower : SetsHiLo(upper, lower) =>
             Goes /\ UNCHANGED regs /\ hi' = upper /\ lo' = lower
    BY <1>2, AdvanceContinues DEF Sets, SetsHiLo, Continues
  <1>4. QuotientOf(op)' = q /\ RemainderOf(op)' = r /\ UNCHANGED <<a, b>>
    BY <1>2 DEF a, b, QuotientOf, RemainderOf, Dividend, Divisor
  <1>5. CASE pc = 0
    <2>1. rs = a /\ rt = b
      BY <1>1, <1>5 DEF rs, rt, DivisionInv
    <2>2. \/ ~Traps /\ SetsHiLo(Cut(r), Cut(q))
          \/ Traps /\ Halts("aborted")
      BY <1>1, <1>2, <1>5, <2>1, ExecutesDivide
         DEF QuotientOf, RemainderOf, Dividend, Divisor
    <2>3. Traps <=> b = 0 \/ (op = "div" /\ 2 * a = N /\ b = N - 1)
      BY <1>1, <1>5, <2>1 DEF Traps
    <2>4. CASE ~Traps /\ SetsHiLo(Cut(r), Cut(q))
      <3>1. Goes /\ UNCHANGED regs /\ hi' = Cut(r) /\ lo' = Cut(q) /\ b # 0
        BY <1>3, <2>3, <2>4
      <3> HIDE DEF q, r
      <3> QED
        BY <1>4, <1>5, <3>1 DEF DivisionInv
    <2>5. CASE Traps /\ Halts("aborted")
      <3>1. UNCHANGED <<pc, regs, hi, lo>> /\ Straight'
        BY <1>2, <2>5 DEF Halts, Straight
      <3> QED
        BY <1>4, <1>5, <2>3, <2>5, <3>1 DEF DivisionInv
    <2> QED
      BY <2>2, <2>4, <2>5
  <1> HIDE DEF q, r
  <1>6. CASE pc = 4
    <2>1. Sets(5, lo)
      BY <1>1, <1>2, <1>6, Executes
    <2> QED
      BY <1>3, <1>4, <1>6, <2>1, SetsOne DEF DivisionInv, q, r
  <1>7. CASE pc = 8
    <2>1. Sets(6, hi)
      BY <1>1, <1>2, <1>7, Executes
    <2> QED
      BY <1>3, <1>4, <1>7, <2>1, SetsOne DEF DivisionInv, q, r
  <1>8. CASE pc = 12
    <2>1. SetsHiLo(0, Cut(regs[5] * regs[3]))
      BY <1>1, <1>2, <1>8, ExecutesHiLo DEF rs, rt
    <2> QED
      BY <1>3, <1>4, <1>8, <2>1 DEF DivisionInv, q, r
  <1>9. CASE pc = 16
    <2>1. Sets(7, lo)
      BY <1>1, <1>2, <1>9, Executes
    <2> QED
      BY <1>3, <1>4, <1>9, <2>1, SetsOne DEF DivisionInv, q, r
  <1>10. CASE pc = 20
    <2>1. Sets(7, Cut(regs[7] + regs[6]))
      BY <1>1, <1>2, <1>10, Executes DEF rs, rt
    <2> QED
      BY <1>3, <1>4, <1>10, <2>1, SetsOne DEF DivisionInv, q, r
  <1>11. CASE pc = 24
    <2>1. SetsHiLo(hi, regs[5])
      BY <1>1, <1>2, <1>11, ExecutesHiLo DEF rs
    <2> QED
      BY <1>3, <1>4, <1>11, <2>1 DEF DivisionInv, q, r
  <1>12. CASE pc = 28
    <2>1. SetsHiLo(regs[6], lo)
      BY <1>1, <1>2, <1>12, ExecutesHiLo DEF rs
    <2> QED
      BY <1>3, <1>4, <1>12, <2>1 DEF DivisionInv, q, r
  <1> QED
    BY <1>2, <1>5, <1>6, <1>7, <1>8, <1>9, <1>10, <1>11, <1>12

AddLongInv ==
  /\ Straight /\ pc \in {0, 4, 8, 12, 16}
  /\ \A r \in 1..4 : regs[r] = given[r]
  /\ pc >= 4 => regs[5] = Cut(a + b)
  /\ pc >= 8 => regs[6] = IF regs[5] < b THEN 1 ELSE 0
  /\ pc = 12 => regs[7] = Cut(given[2] + given[4])
  /\ pc >= 16 => regs[7] = Cut(Cut(given[2] + given[4]) + regs[6])

LEMMA AddLongStep ==
  ASSUME TypeInv, program = AddLong, AddLongInv, Next
  PROVE  AddLongInv'
  <1>1. /\ pc = 0 => ins.op = "addu" /\ ins.d = 5 /\ ins.s = 1 /\ ins.t = 3
        /\ pc = 4 => ins.op = "sltu" /\ ins.d = 6 /\ ins.s = 5 /\ ins.t = 3
        /\ pc = 8 => ins.op = "addu" /\ ins.d = 7 /\ ins.s = 2 /\ ins.t = 4
        /\ pc = 12 => ins.op = "addu" /\ ins.d = 7 /\ ins.s = 7 /\ ins.t = 6
        /\ Len(program.code) = 4
    BY DEF ins, AddLong, P, R
  <1>2. /\ pc = 0 => Sets(5, Cut(regs[1] + regs[3]))
        /\ pc = 4 => Sets(6, IF regs[5] < regs[3] THEN 1 ELSE 0)
        /\ pc = 8 => Sets(7, Cut(regs[2] + regs[4]))
        /\ pc = 12 => Sets(7, Cut(regs[7] + regs[6]))
    BY <1>1, Executes DEF AddLongInv, rs, rt
  <1>3. pc' = pc + 4 /\ Straight' /\ UNCHANGED given /\ pc \in {0, 4, 8, 12}
    BY AdvanceContinues, <1>1, <1>2, Fixed DEF AddLongInv, Sets, Continues
  <1>4. CASE pc = 0
    BY <1>2, <1>3, <1>4, SetsOne DEF AddLongInv, a, b
  <1>5. CASE pc = 4
    BY <1>2, <1>3, <1>5, SetsOne DEF AddLongInv, a, b
  <1>6. CASE pc = 8
    BY <1>2, <1>3, <1>6, SetsOne DEF AddLongInv, a, b
  <1>7. CASE pc = 12
    BY <1>2, <1>3, <1>7, SetsOne DEF AddLongInv, a, b
  <1> QED
    BY <1>3, <1>4, <1>5, <1>6, <1>7

SubLongInv ==
  /\ Straight /\ pc \in {0, 4, 8, 12, 16}
  /\ \A r \in 1..4 : regs[r] = given[r]
  /\ pc >= 4 => regs[6] = IF a < b THEN 1 ELSE 0
  /\ pc >= 8 => regs[5] = Cut(a - b)
  /\ pc = 12 => regs[7] = Cut(given[2] - given[4])
  /\ pc >= 16 => regs[7] = Cut(Cut(given[2] - given[4]) - regs[6])

LEMMA SubLongStep ==
  ASSUME TypeInv, program = SubLong, SubLongInv, Next
  PROVE  SubLongInv'
  <1>1. /\ pc = 0 => ins.op = "sltu" /\ ins.d = 6 /\ ins.s = 1 /\ ins.t = 3
        /\ pc = 4 => ins.op = "subu" /\ ins.d = 5 /\ ins.s = 1 /\ ins.t = 3
        /\ pc = 8 => ins.op = "subu" /\ ins.d = 7 /\ ins.s = 2 /\ ins.t = 4
        /\ pc = 12 => ins.op = "subu" /\ ins.d = 7 /\ ins.s = 7 /\ ins.t = 6
        /\ Len(program.code) = 4
    BY DEF ins, SubLong, P, R
  <1>2. /\ pc = 0 => Sets(6, IF regs[1] < regs[3] THEN 1 ELSE 0)
        /\ pc = 4 => Sets(5, Cut(regs[1] - regs[3]))
        /\ pc = 8 => Sets(7, Cut(regs[2] - regs[4]))
        /\ pc = 12 => Sets(7, Cut(regs[7] - regs[6]))
    BY <1>1, Executes DEF SubLongInv, rs, rt
  <1>3. pc' = pc + 4 /\ Straight' /\ UNCHANGED given /\ pc \in {0, 4, 8, 12}
    BY AdvanceContinues, <1>1, <1>2, Fixed DEF SubLongInv, Sets, Continues
  <1>4. CASE pc = 0
    BY <1>2, <1>3, <1>4, SetsOne DEF SubLongInv, a, b
  <1>5. CASE pc = 4
    BY <1>2, <1>3, <1>5, SetsOne DEF SubLongInv, a, b
  <1>6. CASE pc = 8
    BY <1>2, <1>3, <1>6, SetsOne DEF SubLongInv, a, b
  <1>7. CASE pc = 12
    BY <1>2, <1>3, <1>7, SetsOne DEF SubLongInv, a, b
  <1> QED
    BY <1>3, <1>4, <1>5, <1>6, <1>7

(* What AND and OR make of two words.                                      *)
Both(x, y) == WordOf(BitSet(x) \cap BitSet(y))
Either(x, y) == WordOf(BitSet(x) \cup BitSet(y))
Neither(x, y) == WordOf(BitSet(N - 1) \ (BitSet(x) \cup BitSet(y)))

LEMMA NotWord ==
  ASSUME NEW x \in Word
  PROVE  /\ Neither(x, x) = N - 1 - x
         /\ N - 1 - x \in Word
         /\ BitSet(N - 1 - x) = (0..(Width - 1)) \ BitSet(x)
  <1> DEFINE all == 0..(Width - 1)
  <1>1. BitSet(x) \in SUBSET all
    BY DEF BitSet
  <1>2. /\ BitSet(N - 1) = all
        /\ WordOf(BitSet(N - 1) \ BitSet(x)) = N - 1 - WordOf(BitSet(x))
    BY <1>1, Complement
  <1>3. BitSet(x) \cup BitSet(x) = BitSet(x) /\ WordOf(BitSet(x)) = x
    BY WordOfBitSet
  <1>4. WordOf(all \ BitSet(x)) = N - 1 - x
    BY <1>2, <1>3, Zenon
  <1>5. Neither(x, x) = N - 1 - x
    BY <1>2, <1>3, Zenon DEF Neither
  <1>6. BitSet(WordOf(all \ BitSet(x))) = all \ BitSet(x)
    <2>1. all \ BitSet(x) \in SUBSET (0..(Width - 1))
      OBVIOUS
    <2> HIDE DEF all
    <2> QED
      BY <2>1, BitSetOfWord
  <1>7. N - 1 - x \in Word
    BY NIsNat DEF Word
  <1> QED
    BY <1>4, <1>5, <1>6, <1>7, Zenon

(* De Morgan.                                                              *)
LEMMA NeitherOfNots ==
  ASSUME NEW x \in Word, NEW y \in Word
  PROVE  Neither(N - 1 - x, N - 1 - y) = Both(x, y)
  <1> DEFINE all == 0..(Width - 1)
             X == BitSet(x)
             Y == BitSet(y)
  <1>1. BitSet(N - 1 - x) = all \ X /\ BitSet(N - 1 - y) = all \ Y
    BY NotWord
  <1>2. BitSet(N - 1) = all
    <2>1. {} \in SUBSET (0..(Width - 1))
      OBVIOUS
    <2> QED
      BY <2>1, Complement
  <1>3. X \subseteq all /\ Y \subseteq all
    BY DEF BitSet
  <1> HIDE DEF all, X, Y
  <1>4. all \ ((all \ X) \cup (all \ Y)) = X \cap Y
    BY <1>3
  <1>5. Neither(N - 1 - x, N - 1 - y) = WordOf(all \ ((all \ X) \cup (all \ Y)))
    BY <1>1, <1>2, Zenon DEF Neither
  <1>6. Both(x, y) = WordOf(X \cap Y)
    BY Zenon DEF Both, X, Y
  <1> QED
    BY <1>4, <1>5, <1>6, Zenon

LEMMA BothAndEither ==
  ASSUME NEW x \in Word, NEW y \in Word
  PROVE  /\ Both(x, y) \in Word /\ Either(x, y) \in Word
         /\ Both(x, y) + Either(x, y) = x + y
  <1>1. /\ Both(x, y) \in Word /\ Either(x, y) \in Word
        /\ Both(x, y) \in Int /\ Either(x, y) \in Int
    BY WordOfIsWord, NIsNat DEF Both, Either, Word
  <1>2. Either(x, y) + Both(x, y) = WordOf(BitSet(x)) + WordOf(BitSet(y))
    BY UnionAndIntersection, Zenon DEF Both, Either
  <1> QED
    BY <1>1, <1>2, WordOfBitSet

CarrylessInv ==
  /\ Straight /\ pc \in {0, 4, 8, 12, 16, 20, 24, 28, 32}
  /\ regs[1] = a /\ regs[3] = b
  /\ pc \in 4..28 => regs[5] = N - 1 - a
  /\ pc \in 8..12 => regs[6] = N - 1 - b
  /\ pc \in 12..16 => regs[7] = Both(a, b)
  /\ pc >= 16 => regs[6] = Either(a, b)
  /\ pc >= 20 => regs[7] = Cut(a + b)
  /\ pc = 24 => regs[2] = Both(a, b)
  /\ pc >= 28 => regs[2] = Cut(a + b)
  /\ pc = 32 => regs[5] = Cut(-a)

LEMMA CarrylessStep ==
  ASSUME TypeInv, program = Carryless, CarrylessInv, Next
  PROVE  CarrylessInv'
  <1>1. /\ pc = 0 => ins.op = "nor" /\ ins.d = 5 /\ ins.s = 1 /\ ins.t = 1
        /\ pc = 4 => ins.op = "nor" /\ ins.d = 6 /\ ins.s = 3 /\ ins.t = 3
        /\ pc = 8 => ins.op = "nor" /\ ins.d = 7 /\ ins.s = 5 /\ ins.t = 6
        /\ pc = 12 => ins.op = "or" /\ ins.d = 6 /\ ins.s = 1 /\ ins.t = 3
        /\ pc = 16 => ins.op = "addu" /\ ins.d = 7 /\ ins.s = 7 /\ ins.t = 6
        /\ pc = 20 => ins.op = "and" /\ ins.d = 2 /\ ins.s = 1 /\ ins.t = 3
        /\ pc = 24 => ins.op = "addu" /\ ins.d = 2 /\ ins.s = 2 /\ ins.t = 6
        /\ pc = 28 => ins.op = "addiu" /\ ins.d = 5 /\ ins.s = 5 /\ ins.imm = 1 % Pow(Half)
        /\ Len(program.code) = 8
    BY DEF ins, Carryless, P, R, I
  <1>2. Straight /\ regs[1] = a /\ regs[3] = b
    BY DEF CarrylessInv
  <1>3. a \in Word /\ b \in Word /\ a \in Nat /\ N \in Nat
    BY Operands, NIsNat DEF a, b, Word
  <1>4. /\ \A x, y : WordOf(BitSet(N - 1) \ (BitSet(x) \cup BitSet(y))) = Neither(x, y)
        /\ \A x, y : WordOf(BitSet(x) \cup BitSet(y)) = Either(x, y)
        /\ \A x, y : WordOf(BitSet(x) \cap BitSet(y)) = Both(x, y)
    BY Zenon DEF Neither, Either, Both
  <1>5. pc \in {0, 4, 8, 12, 16, 20, 24, 28} /\ UNCHANGED <<a, b>>
    BY <1>1, Fixed DEF CarrylessInv, a, b
  <1> DEFINE Goes == pc' = pc + 4 /\ Straight'
  <1>6. \A d, v : Sets(d, v) => Goes
    BY AdvanceContinues DEF Sets, Continues, CarrylessInv
  <1>7. CASE pc = 0
    <2>1. Sets(5, Neither(regs[1], regs[1]))
      BY <1>1, <1>2, <1>4, <1>7, Executes DEF rs, rt
    <2>2. Sets(5, N - 1 - a)
      BY <1>2, <1>3, <2>1, NotWord
    <2> QED
      BY <1>5, <1>6, <1>7, <2>2, SetsOne DEF CarrylessInv
  <1>8. CASE pc = 4
    <2>1. Sets(6, Neither(regs[3], regs[3]))
      BY <1>1, <1>2, <1>4, <1>8, Executes DEF rs, rt
    <2>2. Sets(6, N - 1 - b)
      BY <1>2, <1>3, <2>1, NotWord
    <2> QED
      BY <1>5, <1>6, <1>8, <2>2, SetsOne DEF CarrylessInv
  <1>9. CASE pc = 8
    <2>1. Sets(7, Neither(regs[5], regs[6]))
      BY <1>1, <1>2, <1>4, <1>9, Executes DEF rs, rt
    <2>2. regs[5] = N - 1 - a /\ regs[6] = N - 1 - b
      BY <1>9 DEF CarrylessInv
    <2>3. Sets(7, Both(a, b))
      BY <1>3, <2>1, <2>2, NeitherOfNots
    <2> QED
      BY <1>5, <1>6, <1>9, <2>3, SetsOne DEF CarrylessInv
  <1>10. CASE pc = 12
    <2>1. Sets(6, Either(regs[1], regs[3]))
      BY <1>1, <1>2, <1>4, <1>10, Executes DEF rs, rt
    <2> QED
      BY <1>2, <1>5, <1>6, <1>10, <2>1, SetsOne DEF CarrylessInv
  <1>11. CASE pc = 16
    <2>1. Sets(7, Cut(regs[7] + regs[6]))
      BY <1>1, <1>2, <1>11, Executes DEF rs, rt
    <2>2. regs[7] + regs[6] = a + b
      BY <1>3, <1>11, BothAndEither DEF CarrylessInv
    <2> QED
      BY <1>5, <1>6, <1>11, <2>1, <2>2, SetsOne DEF CarrylessInv
  <1>12. CASE pc = 20
    <2>1. Sets(2, Both(regs[1], regs[3]))
      BY <1>1, <1>2, <1>4, <1>12, Executes DEF rs, rt
    <2> QED
      BY <1>2, <1>5, <1>6, <1>12, <2>1, SetsOne DEF CarrylessInv
  <1>13. CASE pc = 24
    <2>1. Sets(2, Cut(regs[2] + regs[6]))
      BY <1>1, <1>2, <1>13, Executes DEF rs, rt
    <2>2. regs[2] + regs[6] = a + b
      BY <1>3, <1>13, BothAndEither DEF CarrylessInv
    <2> QED
      BY <1>5, <1>6, <1>13, <2>1, <2>2, SetsOne DEF CarrylessInv
  <1>14. CASE pc = 28
    <2>0. 1 % Pow(Half) = 1 /\ Sx(1, Half) = 1
      <3>1. 1 \in 0..(Pow(Half) - 1) /\ 2 * 1 < Pow(Half)
        BY Sizes, IdiomsAssumption
      <3> QED
        BY <3>1, Immediate
    <2>1. Sets(5, Cut(regs[5] + 1))
      BY <1>1, <1>2, <1>14, <2>0, Executes DEF rs, rt
    <2>2. Cut(regs[5] + 1) = Cut(-a)
      <3>1. regs[5] + 1 = -a + N * 1 /\ regs[5] + 1 \in Int /\ -a \in Int
        BY <1>3, <1>14 DEF CarrylessInv
      <3> QED
        BY <3>1, CutSame
    <2> QED
      BY <1>5, <1>6, <1>14, <2>1, <2>2, SetsOne DEF CarrylessInv
  <1> QED
    BY <1>5, <1>7, <1>8, <1>9, <1>10, <1>11, <1>12, <1>13, <1>14

(* A word and the halves it is built from.                                 *)
UpperHalf(k) == k \div Pow(Half)
LowerPart(k) == k % Pow(Half)
Carried(k) == (2 * LowerPart(k)) \div Pow(Half)

LEMMA HalvesOfWord ==
  ASSUME NEW k \in Word
  PROVE  /\ UpperHalf(k) \in 0..(Pow(Half) - 1) /\ LowerPart(k) \in 0..(Pow(Half) - 1)
         /\ k = Pow(Half) * UpperHalf(k) + LowerPart(k)
         /\ Carried(k) = IF 2 * LowerPart(k) < Pow(Half) THEN 0 ELSE 1
  <1> DEFINE p == Pow(Half)
             u == UpperHalf(k)
             v == LowerPart(k)
  <1>1. p \in Nat \ {0} /\ N = p * p /\ k \in Nat /\ k < N
    BY Sizes, NIsNat DEF Word
  <1> HIDE DEF p
  <1>2. u \in 0..k /\ v \in 0..(p - 1) /\ k = p * u + v
    BY <1>1, DivisionLeaves, DivisionNat DEF UpperHalf, LowerPart, p
  <1>3. Carried(k) = IF 2 * v < p THEN 0 ELSE 1
    <2>1. Carried(k) = (2 * v) \div p
      BY DEF Carried, p
    <2> HIDE DEF v
    <2>2. CASE 2 * v < p
      BY <1>1, <1>2, <2>1, <2>2
    <2>3. CASE 2 * v >= p
      <3> DEFINE m == 2 * v - p
      <3>1. 2 * v = p + m /\ m \in 0..(p - 1)
        BY <1>1, <1>2, <2>3
      <3> HIDE DEF m
      <3>2. (p + m) \div p = 1
        BY <1>1, <3>1, OnceMore
      <3> QED
        BY <1>1, <1>2, <2>1, <2>3, <3>1, <3>2
    <2> QED
      BY <1>1, <1>2, <2>2, <2>3
  <1> HIDE DEF u, v
  <1>4. u < p
    <2>1. SUFFICES ASSUME u >= p PROVE FALSE
      BY <1>1, <1>2
    <2>2. p * u >= p * p
      BY <1>1, <1>2, <2>1
    <2> QED
      BY <1>1, <1>2, <2>2
  <1> QED
    BY <1>1, <1>2, <1>3, <1>4 DEF u, v, p

ConstantInv(k) ==
  /\ Straight /\ pc \in {0, 4, 8, 12, 16}
  /\ pc = 4 => regs[5] = UpperHalf(k) * Pow(Half)
  /\ pc >= 8 => regs[5] = k
  /\ pc = 12 => regs[6] = Cut((UpperHalf(k) + Carried(k)) * Pow(Half))
  /\ pc >= 16 => regs[6] = k

LEMMA ConstantStep ==
  ASSUME TypeInv, NEW k \in Word, program = Constant(k), ConstantInv(k), Next
  PROVE  ConstantInv(k)'
  <1> DEFINE p == Pow(Half)
             u == UpperHalf(k)
             v == LowerPart(k)
             c == Carried(k)
             Goes == pc' = pc + 4 /\ Straight'
  <1>1. /\ pc = 0 => ins.op = "lui" /\ ins.d = 5 /\ ins.imm = u % p
        /\ pc = 4 => ins.op = "ori" /\ ins.d = 5 /\ ins.s = 5 /\ ins.imm = v % p
        /\ pc = 8 => ins.op = "lui" /\ ins.d = 6 /\ ins.imm = (u + c) % p
        /\ pc = 12 => ins.op = "addiu" /\ ins.d = 6 /\ ins.s = 6 /\ ins.imm = v % p
        /\ Len(program.code) = 4
    BY DEF ins, Constant, P, I, UpperHalf, LowerPart, Carried
  <1>2. /\ u \in 0..(p - 1) /\ v \in 0..(p - 1) /\ k = p * u + v
        /\ c = IF 2 * v < p THEN 0 ELSE 1
    BY HalvesOfWord
  <1>3. /\ p \in Nat \ {0} /\ N = p * p /\ k \in Nat /\ k < N /\ N \in Nat
        /\ p < N /\ p \in Nat /\ p > 0
    <2>1. p \in Nat /\ p >= 2 /\ N = p * p /\ N >= 16
      BY Sizes
    <2>2. p < p * p
      <3> HIDE DEF p
      <3> QED
        BY <2>1
    <2> QED
      BY <2>1, <2>2, NIsNat DEF Word
  <1>4. Straight /\ pc \in {0, 4, 8, 12} /\ u % p = u /\ v % p = v
    BY <1>1, <1>2, Fixed, Immediate DEF ConstantInv
  <1>5. \A d, value : Sets(d, value) => Goes
    BY AdvanceContinues DEF Sets, Continues, ConstantInv
  <1>6. UNCHANGED <<u, v, c, p>>
    OBVIOUS
  <1>7. u * p \in Word /\ v \in Word /\ u * p = p * u
    <2> HIDE DEF p, u, v
    <2>1. u * p = p * u /\ u * p \in Nat /\ u * p <= k
      BY <1>2, <1>3
    <2> QED
      BY <1>2, <1>3, <2>1 DEF Word
  <1>8. CASE pc = 0
    <2>1. Sets(5, Cut(u * p))
      BY <1>1, <1>4, <1>8, Executes
    <2>2. Cut(u * p) = u * p
      BY <1>7, CutNear, NIsNat DEF Word
    <2> QED
      BY <1>5, <1>8, <2>1, <2>2, SetsOne DEF ConstantInv
  <1>9. CASE pc = 4
    <2>1. Sets(5, WordOf(BitSet(regs[5]) \cup BitSet(v)))
      BY <1>1, <1>4, <1>9, Executes DEF rs
    <2>2. regs[5] = u * p
      BY <1>9 DEF ConstantInv
    <2>3. WordOf(BitSet(u * p) \cup BitSet(v)) = u * p + v
      <3>1. Half \in Nat /\ u \in Int /\ v < Pow(Half)
        BY <1>2, <1>3, Sizes
      <3> HIDE DEF u, v
      <3> QED
        BY <3>1, <1>7, OrIsSum
    <2>4. u * p + v = k
      BY <1>2, <1>7
    <2>5. Sets(5, k)
      BY <2>1, <2>2, <2>3, <2>4, Zenon
    <2> QED
      BY <1>5, <1>9, <2>5, SetsOne DEF ConstantInv
  <1>10. CASE pc = 8
    <2>1. Sets(6, Cut(((u + c) % p) * p))
      BY <1>1, <1>4, <1>10, Executes
    <2>2. Cut(((u + c) % p) * p) = Cut((u + c) * p)
      <3> DEFINE s == u + c
                 d == s \div p
                 m == s % p
      <3>1. s \in Nat
        BY <1>2, <1>3
      <3> HIDE DEF s, p
      <3>2. d \in Int /\ m \in 0..(p - 1) /\ s = p * d + m
        BY <1>3, <3>1, DivisionLeaves
      <3> HIDE DEF d, m
      <3>3. s * p = m * p + N * d /\ s * p \in Int /\ m * p \in Int
        BY <1>3, <3>1, <3>2
      <3>4. Cut(s * p) = Cut(m * p)
        BY <3>2, <3>3, CutSame
      <3> QED
        BY <3>4 DEF s, m
    <2> QED
      BY <1>5, <1>10, <2>1, <2>2, SetsOne DEF ConstantInv
  <1>11. CASE pc = 12
    <2> DEFINE w == Sx(v, Half)
               t == (u + c) * p
    <2>1. Sets(6, Cut(regs[6] + w))
      BY <1>1, <1>4, <1>11, Executes DEF rs
    <2>2. regs[6] = Cut(t)
      BY <1>11 DEF ConstantInv
    <2>3. w \in Int /\ w = IF 2 * v < p THEN v ELSE N + v - p
      BY <1>2, <1>3, Immediate
    <2> HIDE DEF w, t, u, v, c, p
    <2>4. t \in Int
      BY <1>2, <1>3 DEF t
    <2>5. t + w = k + N * c
      <3>1. (u + c) * p = p * u + c * p /\ p * u \in Int
        BY <1>2, <1>3
      <3>2. CASE 2 * v < p
        <4>1. c * p = 0 /\ N * c = 0
          BY <1>2, <1>3, <3>2
        <4> QED
          BY <1>2, <1>3, <2>3, <3>1, <3>2, <4>1 DEF t
      <3>3. CASE 2 * v >= p
        <4>1. c * p = p /\ N * c = N
          BY <1>2, <1>3, <3>3
        <4> QED
          BY <1>2, <1>3, <2>3, <3>1, <3>3, <4>1 DEF t
      <3> QED
        BY <1>2, <1>3, <3>2, <3>3
    <2>6. Cut(Cut(t) + w) = k
      <3>1. t + w \in Int /\ k \in Int /\ c \in Int
        BY <1>2, <1>3, <2>3, <2>4
      <3>2. Cut(Cut(t) + w) = Cut(t + w)
        BY <2>3, <2>4, CutInside
      <3>3. Cut(t + w) = Cut(k)
        BY <2>5, <3>1, CutSame
      <3>4. Cut(k) = k
        BY <3>1, CutNear
      <3> QED
        BY <3>2, <3>3, <3>4
    <2> QED
      BY <1>5, <1>11, <2>1, <2>2, <2>6, SetsOne DEF ConstantInv
  <1> QED
    BY <1>4, <1>8, <1>9, <1>10, <1>11

(* The word a rotated by k.                                                *)
Rotated(k) == Cut(a * Pow(k)) + a \div Pow(Width - k)

LEMMA RotatedParts ==
  ASSUME TypeInv, NEW k \in 1..(Width - 1)
  PROVE  /\ Cut(a * Pow(k)) \in Word /\ a \div Pow(Width - k) \in Word
         /\ Either(Cut(a * Pow(k)), a \div Pow(Width - k)) = Rotated(k)
  <1> DEFINE p == Pow(k)
             q == Pow(Width - k)
             x == Cut(a * p)
             y == a \div q
  <1>1. k \in Nat /\ Width - k \in Nat /\ (Width - k) + k = Width
    BY Sizes
  <1>2. p \in Nat \ {0} /\ q \in Nat \ {0} /\ N = q * p
    BY <1>1, PowNext, PowAdd DEF N
  <1>3. a \in Nat /\ a < N /\ a \in Word /\ N \in Nat
    BY Operands, NIsNat DEF a, Word
  <1>4. x \in Word
    <2>1. a * p \in Int
      BY <1>2, <1>3
    <2> QED
      BY <2>1, CutIsWord
  <1>5. y \in Word
    BY <1>1, <1>3, ShiftedDown
  <1> HIDE DEF p, q
  <1>6. y < p
    <2> DEFINE m == a % q
    <2>1. y \in 0..a /\ m \in 0..(q - 1) /\ a = q * y + m
      BY <1>2, <1>3, DivisionLeaves, DivisionNat
    <2> HIDE DEF y, m
    <2>2. SUFFICES ASSUME y >= p PROVE FALSE
      BY <1>2, <2>1
    <2>3. q * y >= q * p
      BY <1>2, <2>1, <2>2
    <2>4. q * y \in Int /\ q * p \in Int
      BY <1>2, <2>1
    <2> QED
      BY <1>2, <1>3, <2>1, <2>3, <2>4
  <1>7. PICK i \in Int : a * p = x + N * i
    <2>1. a * p \in Int
      BY <1>2, <1>3
    <2> QED
      BY <2>1, CutOf
  <1> HIDE DEF x, y
  <1>8. x = p * (a - q * i) /\ a - q * i \in Int
    <2>1. p * (a - q * i) = a * p - (q * p) * i /\ a - q * i \in Int
      BY <1>2, <1>3
    <2>2. x \in Int /\ N * i \in Int /\ a * p \in Int
      BY <1>2, <1>3, <1>4 DEF Word
    <2> QED
      BY <1>2, <1>7, <2>1, <2>2
  <1>9. WordOf(BitSet(x) \cup BitSet(y)) = x + y
    BY <1>1, <1>4, <1>5, <1>6, <1>8, OrIsSum DEF p
  <1> QED
    BY <1>4, <1>5, <1>9, Zenon DEF Either, Rotated, x, y, p, q

(* The amount of a variable shift: an immediate with a bit above those     *)
(* that count.                                                             *)
LEMMA ShiftAmount ==
  ASSUME NEW m \in 0..(Width - 1)
  PROVE  /\ Cut(0 + Sx((Width + m) % Pow(Half), Half)) = Width + m
         /\ (Width + m) % Width = m
  <1> DEFINE n == Width + m
             p == Pow(Half)
  <1>1. Width \in Nat \ {0}
    BY Sizes
  <1>2. n % Width = m
    BY <1>1, OnceMore
  <1>3. p \in Nat /\ p = 2 * Pow(Half - 1) /\ 2 * n < p /\ n \in 0..(p - 1) /\ n \in Nat
    BY Sizes, IdiomsAssumption
  <1>4. n % p = n /\ Sx(n, Half) = n /\ Sx(n, Half) \in Word
    BY <1>3, Immediate
  <1>5. Cut(0 + Sx(n % p, Half)) = n
    BY <1>3, <1>4, CutNear
  <1> QED
    BY <1>2, <1>5

RotateInv(k) ==
  /\ Straight /\ pc \in {0, 4, 8, 12, 16, 20, 24}
  /\ regs[0] = 0 /\ regs[1] = a
  /\ pc >= 4 => regs[5] = Cut(a * Pow(k))
  /\ pc >= 8 => regs[6] = a \div Pow(Width - k)
  /\ pc >= 12 => regs[7] = Rotated(k)
  /\ pc = 16 => regs[4] % Width = k
  /\ pc >= 24 => regs[2] = Rotated(k)

LEMMA RotateStep ==
  ASSUME TypeInv, NEW k \in 1..(Width - 1), program = Rotate(k), RotateInv(k), Next
  PROVE  RotateInv(k)'
  <1> DEFINE x == Cut(a * Pow(k))
             y == a \div Pow(Width - k)
             p == Pow(Half)
             Goes == pc' = pc + 4 /\ Straight'
  <1>1. /\ pc = 0 => ins.op = "sll" /\ ins.d = 5 /\ ins.t = 1 /\ ins.imm = k
        /\ pc = 4 => ins.op = "srl" /\ ins.d = 6 /\ ins.t = 1 /\ ins.imm = Width - k
        /\ pc = 8 => ins.op = "or" /\ ins.d = 7 /\ ins.s = 5 /\ ins.t = 6
        /\ pc = 12 => ins.op = "addiu" /\ ins.d = 4 /\ ins.s = 0 /\ ins.imm = (k + Width) % p
        /\ pc = 16 => ins.op = "sllv" /\ ins.d = 5 /\ ins.s = 4 /\ ins.t = 1
        /\ pc = 20 => ins.op = "or" /\ ins.d = 2 /\ ins.s = 5 /\ ins.t = 6
        /\ Len(program.code) = 6
    BY DEF ins, Rotate, P, R, I, Sh
  <1>2. /\ Straight /\ regs[0] = 0 /\ regs[1] = a /\ UNCHANGED a
        /\ pc \in {0, 4, 8, 12, 16, 20}
    BY <1>1, Fixed DEF RotateInv, a
  <1>3. x \in Word /\ y \in Word /\ Either(x, y) = Rotated(k) /\ a \in Word
    BY Operands, RotatedParts DEF a
  <1>4. \A d, value : Sets(d, value) => Goes
    BY AdvanceContinues DEF Sets, Continues, RotateInv
  <1>5. /\ UNCHANGED <<x, y>> /\ Rotated(k)' = Rotated(k)
    BY <1>2 DEF Rotated
  <1>6. /\ Cut(0 + Sx((k + Width) % p, Half)) = k + Width
        /\ (k + Width) % Width = k
    <2>1. k + Width = Width + k /\ k \in 0..(Width - 1)
      BY Sizes
    <2> QED
      BY <2>1, ShiftAmount
  <1>7. CASE pc = 0
    <2>1. Sets(5, x)
      BY <1>1, <1>2, <1>7, Executes DEF rt
    <2> QED
      BY <1>2, <1>4, <1>5, <1>7, <2>1, SetsOne DEF RotateInv
  <1>8. CASE pc = 4
    <2>1. Sets(6, y)
      BY <1>1, <1>2, <1>8, Executes DEF rt
    <2> QED
      BY <1>2, <1>4, <1>5, <1>8, <2>1, SetsOne DEF RotateInv
  <1>9. CASE pc = 8
    <2>1. Sets(7, Either(regs[5], regs[6]))
      BY <1>1, <1>2, <1>9, Executes DEF rs, rt, Either
    <2>2. regs[5] = x /\ regs[6] = y
      BY <1>9 DEF RotateInv
    <2>3. Sets(7, Rotated(k))
      BY <1>3, <2>1, <2>2, Zenon
    <2> QED
      BY <1>2, <1>4, <1>5, <1>9, <2>3, SetsOne DEF RotateInv
  <1>10. CASE pc = 12
    <2>1. Sets(4, Cut(0 + Sx((k + Width) % p, Half)))
      BY <1>1, <1>2, <1>10, Executes DEF rs
    <2>2. Sets(4, k + Width)
      BY <1>6, <2>1
    <2> QED
      BY <1>2, <1>4, <1>5, <1>6, <1>10, <2>2, SetsOne DEF RotateInv
  <1>11. CASE pc = 16
    <2>1. Sets(5, Cut(a * Pow(regs[4] % Width)))
      BY <1>1, <1>2, <1>11, Executes DEF rs, rt
    <2>2. Sets(5, x)
      BY <1>11, <2>1 DEF RotateInv
    <2> QED
      BY <1>2, <1>4, <1>5, <1>11, <2>2, SetsOne DEF RotateInv
  <1>12. CASE pc = 20
    <2>1. Sets(2, Either(regs[5], regs[6]))
      BY <1>1, <1>2, <1>12, Executes DEF rs, rt, Either
    <2>2. regs[5] = x /\ regs[6] = y
      BY <1>12 DEF RotateInv
    <2>3. Sets(2, Rotated(k))
      BY <1>3, <2>1, <2>2, Zenon
    <2> QED
      BY <1>2, <1>4, <1>5, <1>12, <2>3, SetsOne DEF RotateInv
  <1> QED
    BY <1>2, <1>7, <1>8, <1>9, <1>10, <1>11, <1>12

-----------------------------------------------------------------------------
(* Branches                                                                *)

LEMMA ExecutesBranch ==
  ASSUME Next, ins.op \in BranchOps
  PROVE  /\ pc' = npc
         /\ npc' = Cut(npc + (IF Taken THEN Displacement ELSE 4))
         /\ UNCHANGED <<status, regs, hi, lo, bytes, program, given>>
  BY Dispatch DEF Branch, BranchOps

LEMMA TakenWhen ==
  /\ ins.op = "beq" => (Taken <=> rs = rt)
  /\ ins.op = "bne" => (Taken <=> rs # rt)
  /\ ins.op = "blez" => (Taken <=> Signed(rs) <= 0)
  /\ ins.op = "bgtz" => (Taken <=> Signed(rs) > 0)
  /\ ins.op = "bgez" => (Taken <=> Signed(rs) >= 0)
  /\ ins.op = "bltz" => (Taken <=> Signed(rs) < 0)
  BY DEF Taken

(* A distance of instructions that fits the immediate as bytes, signed, is *)
(* the distance of the branch.                                             *)
LEMMA Displaced ==
  ASSUME NEW k \in Int, -Pow(Half) <= 8 * k, 8 * k < Pow(Half), NEW n \in Int
  PROVE  Cut(n + Sx((k % Pow(Half)) * 4, Half)) = Cut(n + 4 * k)
  <1> DEFINE p == Pow(Half)
             v == (k % p) * 4
  <1>1. p \in Nat \ {0}
    BY Sizes
  <1>2. PICK j \in Int : v = p * j + 4 * k
    <2> HIDE DEF p
    <2>1. k = p * (k \div p) + (k % p) /\ k \div p \in Int /\ k % p \in Int
      BY <1>1
    <2> DEFINE q == k \div p
               r == k % p
    <2> HIDE DEF q, r
    <2>2. r * 4 = p * (-4 * q) + 4 * k /\ -4 * q \in Int
      BY <1>1, <2>1 DEF q, r
    <2> QED
      BY <2>2 DEF r
  <1> HIDE DEF v
  <1>3. Sx(v, Half) = Cut(4 * k)
    <2> HIDE DEF p
    <2>1. CASE k >= 0
      <3>1. 4 * k \in 0..(p - 1) /\ 2 * (4 * k) < p
        BY <1>1, <2>1 DEF p
      <3>2. v % p = 4 * k
        BY <1>1, <1>2, <3>1, DivMod
      <3> QED
        BY <3>1, <3>2 DEF Sx, p
    <2>2. CASE k < 0
      <3>1. 4 * k + p \in 0..(p - 1) /\ ~(2 * (4 * k + p) < p)
        BY <1>1, <2>2 DEF p
      <3>2. v = p * (j - 1) + (4 * k + p) /\ j - 1 \in Int
        BY <1>1, <1>2
      <3>3. v % p = 4 * k + p
        BY <1>1, <3>1, <3>2, DivMod
      <3>4. (4 * k + p) - p = 4 * k
        BY <1>1
      <3> QED
        BY <3>1, <3>3, <3>4 DEF Sx, p
    <2> QED
      BY <2>1, <2>2
  <1>4. Cut(n + Cut(4 * k)) = Cut(n + 4 * k)
    BY CutInside
  <1> QED
    BY <1>3, <1>4 DEF v

(* The positions in the code of a program are words.                       *)
LEMMA Positions ==
  ASSUME TypeInv, NEW n \in 0..(4 * Len(program.code))
  PROVE  Cut(n) = n
  <1>1. n \in Word
    BY NIsNat DEF TypeInv, Word
  <1> QED
    BY <1>1, CutNear, NIsNat DEF Word

(* Where an instruction that does not branch goes, in a slot or not.       *)
LEMMA GoesOn ==
  ASSUME NEW d, NEW value, Sets(d, value)
  PROVE  pc' = npc /\ npc' = Cut(npc + 4) /\ UNCHANGED <<program, given>>
  BY DEF Sets, Advance

LEMMA MinusOne ==
  /\ -1 % Pow(Half) = Pow(Half) - 1
  /\ Sx(-1 % Pow(Half), Half) = N - 1
  <1> DEFINE p == Pow(Half)
  <1>1. p \in Nat /\ p >= 2
    BY Sizes
  <1>2. -1 % p = p - 1
    <2> HIDE DEF p
    <2>1. -1 = p * (-1) + (p - 1) /\ p - 1 \in 0..(p - 1)
      BY <1>1
    <2> QED
      BY <1>1, <2>1, DivMod
  <1>3. p - 1 \in 0..(p - 1) /\ 2 * (p - 1) >= p /\ N + (p - 1) - p = N - 1
    BY <1>1, NIsNat
  <1> QED
    BY <1>2, <1>3, Immediate

LEMMA SmallImmediates ==
  /\ 0 % Pow(Half) = 0 /\ Sx(0, Half) = 0
  /\ 1 % Pow(Half) = 1 /\ Sx(1, Half) = 1
  <1>1. Pow(Half) \in Nat /\ Pow(Half) > 2
    <2>1. 2 * Width < Pow(Half - 1) /\ Pow(Half) = 2 * Pow(Half - 1) /\ Width >= 4
          /\ Width \in Nat /\ Pow(Half - 1) \in Nat
      BY Sizes, IdiomsAssumption
    <2> QED
      BY <2>1
  <1>2. 0 \in 0..(Pow(Half) - 1) /\ 1 \in 0..(Pow(Half) - 1)
    BY <1>1
  <1> QED
    BY <1>1, <1>2, Immediate

LEMMA FarEnough == Pow(Half) \in Nat /\ 48 < Pow(Half)
  <1>1. /\ 2 * Width < Pow(Half - 1) /\ Pow(Half) = 2 * Pow(Half - 1)
        /\ Width = 2 * Half /\ Half = 2 * Quarter
        /\ Quarter \in Nat \ {0} /\ Pow(Half - 1) \in Nat
    BY Sizes, IdiomsAssumption
  <1>2. Pow(1) = 2 /\ Pow(2) = 4 /\ Pow(3) = 8
    <2>1. Pow(1) = 2 /\ Pow(1 + 1) = 2 * Pow(1) /\ Pow(2 + 1) = 2 * Pow(2)
      BY Sizes, PowNext
    <2> QED
      BY <2>1
  <1>3. Quarter # 1
    <2> SUFFICES ASSUME Quarter = 1 PROVE FALSE
      OBVIOUS
    <2>1. Half - 1 = 1 /\ Width = 4
      BY <1>1
    <2> QED
      BY <1>1, <1>2, <2>1
  <1>4. Quarter # 2
    <2> SUFFICES ASSUME Quarter = 2 PROVE FALSE
      OBVIOUS
    <2>1. Half - 1 = 3 /\ Width = 8
      BY <1>1
    <2> QED
      BY <1>1, <1>2, <2>1
  <1> QED
    BY <1>1, <1>3, <1>4

LoopInv ==
  LET n == Signed(a)
      m == Signed(regs[1])
      sum(k) == regs[5] = Cut((n - k) * b)
  IN  /\ regs[0] = 0 /\ regs[3] = b
      /\ \/ pc = 0 /\ npc = 4 /\ regs[1] = a
         \/ pc = 4 /\ npc = (IF n <= 0 THEN 20 ELSE 8) /\ regs[1] = a
         \/ pc = 8 /\ npc = 12 /\ m > 0 /\ n > 0 /\ sum(m)
         \/ pc = 12 /\ npc = 16 /\ m >= 0 /\ n > 0 /\ sum(m + 1)
         \/ pc = 16 /\ npc = (IF m > 0 THEN 8 ELSE 20) /\ m >= 0 /\ n > 0 /\ sum(m + 1)
         \/ pc = 20 /\ regs[5] = IF n <= 0 THEN 0 ELSE Cut(n * b)

LEMMA LoopStep ==
  ASSUME TypeInv, program = Loop, LoopInv, Next
  PROVE  LoopInv'
  <1> DEFINE n == Signed(a)
             m == Signed(regs[1])
  <1>1. /\ pc = 0 => ins.op = "blez" /\ ins.s = 1 /\ ins.imm = 4 % Pow(Half)
        /\ pc = 4 => ins.op = "addiu" /\ ins.d = 5 /\ ins.s = 0 /\ ins.imm = 0 % Pow(Half)
        /\ pc = 8 => ins.op = "addiu" /\ ins.d = 1 /\ ins.s = 1 /\ ins.imm = -1 % Pow(Half)
        /\ pc = 12 => ins.op = "bgtz" /\ ins.s = 1 /\ ins.imm = -2 % Pow(Half)
        /\ pc = 16 => ins.op = "addu" /\ ins.d = 5 /\ ins.s = 5 /\ ins.t = 3
        /\ Len(program.code) = 5
    BY DEF ins, Loop, P, R, I, B
  <1>2. UNCHANGED <<a, b>> /\ pc < 20
    BY <1>1, Fixed DEF a, b
  <1>3. \A i \in 0..20 : Cut(i) = i
    BY <1>1, Positions
  <1>4. /\ a \in Word /\ b \in Word /\ \A r \in 0..7 : regs[r] \in Word
        /\ n \in Int /\ m \in Int /\ b \in Int
    BY Operands, SignedIsInt, NIsNat DEF a, b, Word
  <1>5. /\ Cut(4 + Sx((4 % Pow(Half)) * 4, Half)) = 20
        /\ Cut(16 + Sx((-2 % Pow(Half)) * 4, Half)) = 8
    <2>1. -Pow(Half) <= 8 * (-2) /\ 8 * 4 < Pow(Half)
      BY FarEnough
    <2>2. Cut(4 + Sx((4 % Pow(Half)) * 4, Half)) = Cut(4 + 4 * 4)
      BY <2>1, FarEnough, Displaced
    <2>3. Cut(16 + Sx((-2 % Pow(Half)) * 4, Half)) = Cut(16 + 4 * (-2))
      BY <2>1, FarEnough, Displaced
    <2>4. 4 + 4 * 4 = 20 /\ 16 + 4 * (-2) = 8
      OBVIOUS
    <2>5. Cut(20) = 20 /\ Cut(8) = 8
      BY <1>3
    <2> QED
      BY <2>2, <2>3, <2>4, <2>5
  <1>6. CASE pc = 0
    <2>1. npc = 4 /\ regs[1] = a
      BY <1>6 DEF LoopInv
    <2>2. pc' = 4 /\ npc' = (IF n <= 0 THEN 20 ELSE 8) /\ UNCHANGED regs
      BY <1>1, <1>3, <1>5, <1>6, <2>1, ExecutesBranch, TakenWhen
         DEF BranchOps, Displacement, rs
    <2> QED
      BY <1>2, <2>1, <2>2 DEF LoopInv
  <1>7. CASE pc = 4
    <2>1. npc = (IF n <= 0 THEN 20 ELSE 8) /\ regs[1] = a /\ regs[0] = 0
      BY <1>7 DEF LoopInv
    <2>2. Sets(5, 0)
      BY <1>1, <1>3, <1>7, <2>1, Executes, SmallImmediates DEF rs
    <2>3. pc' = npc /\ npc' = Cut(npc + 4) /\ regs'[5] = 0
          /\ \A r \in (0..7) \ {5} : regs'[r] = regs[r]
      BY <2>2, SetsOne, GoesOn
    <2>4. Cut((n - n) * b) = 0 /\ Cut(8 + 4) = 12
      BY <1>3, <1>4
    <2> QED
      BY <1>2, <1>4, <2>1, <2>3, <2>4 DEF LoopInv
  <1>8. CASE pc = 8
    <2>1. npc = 12 /\ m > 0 /\ regs[5] = Cut((n - m) * b)
      BY <1>8 DEF LoopInv
    <2>2. Sets(1, Cut(regs[1] + (N - 1)))
      BY <1>1, <1>8, Executes, MinusOne DEF rs
    <2>3. regs[1] = m /\ 2 * m < N /\ N \in Nat
      BY <1>4, <2>1, SignedIsInt, NIsNat DEF Word
    <2>4. Cut(regs[1] + (N - 1)) = m - 1 /\ Signed(m - 1) = m - 1
      <3>1. m - 1 \in Word /\ m + (N - 1) \in Int /\ m + (N - 1) >= N
            /\ m + (N - 1) < 2 * N /\ m + (N - 1) - N = m - 1
        BY <1>4, <2>1, <2>3 DEF Word
      <3> QED
        BY <1>4, <2>1, <2>3, <3>1, CutNear DEF Signed
    <2>5. pc' = 12 /\ npc' = 16 /\ regs'[1] = m - 1
          /\ \A r \in (0..7) \ {1} : regs'[r] = regs[r]
      BY <1>3, <2>1, <2>2, <2>4, SetsOne, GoesOn
    <2>6. n > 0
      BY <1>8 DEF LoopInv
    <2> QED
      BY <1>2, <1>4, <2>1, <2>4, <2>5, <2>6 DEF LoopInv
  <1>9. CASE pc = 12
    <2>1. npc = 16 /\ m >= 0 /\ n > 0 /\ regs[5] = Cut((n - (m + 1)) * b)
      BY <1>9 DEF LoopInv
    <2>2. pc' = 16 /\ npc' = (IF m > 0 THEN 8 ELSE 20) /\ UNCHANGED regs
      BY <1>1, <1>3, <1>5, <1>9, <2>1, ExecutesBranch, TakenWhen
         DEF BranchOps, Displacement, rs
    <2> QED
      BY <1>2, <2>1, <2>2 DEF LoopInv
  <1>10. CASE pc = 16
    <2>1. /\ npc = (IF m > 0 THEN 8 ELSE 20) /\ m >= 0 /\ n > 0
          /\ regs[5] = Cut((n - (m + 1)) * b) /\ regs[3] = b
      BY <1>10 DEF LoopInv
    <2>2. Sets(5, Cut(regs[5] + b))
      BY <1>1, <1>10, <2>1, Executes DEF rs, rt
    <2>3. Cut(regs[5] + b) = Cut((n - m) * b)
      <3>1. (n - (m + 1)) * b \in Int /\ (n - (m + 1)) * b + b = (n - m) * b
        BY <1>4
      <3> QED
        BY <1>4, <2>1, <3>1, CutInside
    <2>4. pc' = npc /\ npc' = Cut(npc + 4) /\ regs'[5] = Cut((n - m) * b)
          /\ \A r \in (0..7) \ {5} : regs'[r] = regs[r]
      BY <2>2, <2>3, SetsOne, GoesOn
    <2>5. Cut(8 + 4) = 12
      BY <1>3
    <2>6. CASE m > 0
      BY <1>2, <1>4, <2>1, <2>4, <2>5, <2>6 DEF LoopInv
    <2>7. CASE m = 0
      <3>1. n - m = n
        BY <1>4, <2>7
      <3> QED
        BY <1>2, <1>4, <2>1, <2>4, <2>7, <3>1 DEF LoopInv
    <2> QED
      BY <1>4, <2>1, <2>6, <2>7
  <1> QED
    BY <1>2, <1>6, <1>7, <1>8, <1>9, <1>10 DEF LoopInv

LeastInv ==
  LET less == Signed(a) < Signed(b)
  IN  /\ regs[0] = 0 /\ regs[1] = a /\ regs[3] = b
      /\ \/ pc = 0 /\ npc = 4
         \/ pc = 4 /\ npc = 8 /\ regs[6] = IF less THEN 1 ELSE 0
         \/ pc = 8 /\ npc = IF less THEN 16 ELSE 12
         \/ pc = 12 /\ npc = 16 /\ ~less
         \/ pc = 16 /\ regs[5] = IF less THEN a ELSE b

LEMMA LeastStep ==
  ASSUME TypeInv, program = Least, LeastInv, Next
  PROVE  LeastInv'
  <1> DEFINE less == Signed(a) < Signed(b)
  <1>1. /\ pc = 0 => ins.op = "slt" /\ ins.d = 6 /\ ins.s = 1 /\ ins.t = 3
        /\ pc = 4 => ins.op = "bne" /\ ins.s = 6 /\ ins.t = 0 /\ ins.imm = 2 % Pow(Half)
        /\ pc = 8 => ins.op = "addu" /\ ins.d = 5 /\ ins.s = 1 /\ ins.t = 0
        /\ pc = 12 => ins.op = "addu" /\ ins.d = 5 /\ ins.s = 3 /\ ins.t = 0
        /\ Len(program.code) = 4
    <2>1. /\ pc = 0 => ins = R("slt", 6, 1, 3)
          /\ pc = 4 => ins = B("bne", 6, 0, 2)
          /\ pc = 8 => ins = R("addu", 5, 1, 0)
          /\ pc = 12 => ins = R("addu", 5, 3, 0)
          /\ Len(program.code) = 4
      BY DEF ins, Least, P
    <2> QED
      BY <2>1 DEF R, B
  <1>2. UNCHANGED <<a, b>> /\ pc < 16
    BY <1>1, Fixed DEF a, b
  <1>3. \A i \in 0..16 : Cut(i) = i
    BY <1>1, Positions
  <1>4. a \in Word /\ b \in Word
    BY Operands DEF a, b
  <1>5. Cut(a + 0) = a /\ Cut(b + 0) = b
    BY <1>4, CutNear, NIsNat DEF Word
  <1>6. Cut(8 + Sx((2 % Pow(Half)) * 4, Half)) = 16
    <2>1. -Pow(Half) <= 8 * 2 /\ 8 * 2 < Pow(Half)
      BY FarEnough
    <2>2. Cut(8 + Sx((2 % Pow(Half)) * 4, Half)) = Cut(8 + 4 * 2)
      BY <2>1, Displaced
    <2> QED
      BY <2>2, <1>3
  <1>7. regs[0] = 0 /\ regs[1] = a /\ regs[3] = b
    BY DEF LeastInv
  <1>8. CASE pc = 0
    <2>1. Sets(6, IF less THEN 1 ELSE 0) /\ npc = 4
      BY <1>1, <1>7, <1>8, Executes DEF LeastInv, rs, rt
    <2>2. pc' = 4 /\ npc' = 8 /\ regs'[6] = (IF less THEN 1 ELSE 0)
          /\ \A r \in (0..7) \ {6} : regs'[r] = regs[r]
      BY <1>3, <2>1, SetsOne, GoesOn
    <2> QED
      BY <1>2, <1>7, <2>2 DEF LeastInv
  <1>9. CASE pc = 4
    <2>1. npc = 8 /\ regs[6] = IF less THEN 1 ELSE 0
      BY <1>9 DEF LeastInv
    <2>2. pc' = 8 /\ npc' = (IF less THEN 16 ELSE 12) /\ UNCHANGED regs
      BY <1>1, <1>3, <1>6, <1>7, <1>9, <2>1, ExecutesBranch, TakenWhen
         DEF BranchOps, Displacement, rs, rt
    <2> QED
      BY <1>2, <1>7, <2>2 DEF LeastInv
  <1>10. CASE pc = 8
    <2>1. Sets(5, a) /\ npc = IF less THEN 16 ELSE 12
      BY <1>1, <1>5, <1>7, <1>10, Executes DEF LeastInv, rs, rt
    <2>2. pc' = npc /\ npc' = Cut(npc + 4) /\ regs'[5] = a
          /\ \A r \in (0..7) \ {5} : regs'[r] = regs[r]
      BY <2>1, SetsOne, GoesOn
    <2>3. Cut(12 + 4) = 16
      BY <1>3
    <2> QED
      BY <1>2, <1>7, <2>1, <2>2, <2>3 DEF LeastInv
  <1>11. CASE pc = 12
    <2>1. Sets(5, b) /\ npc = 16 /\ ~less
      BY <1>1, <1>5, <1>7, <1>11, Executes DEF LeastInv, rs, rt
    <2>2. pc' = 16 /\ regs'[5] = b /\ \A r \in (0..7) \ {5} : regs'[r] = regs[r]
      BY <2>1, SetsOne, GoesOn
    <2> QED
      BY <1>2, <1>7, <2>1, <2>2 DEF LeastInv
  <1> QED
    BY <1>2, <1>8, <1>9, <1>10, <1>11 DEF LeastInv

AbsoluteInv ==
  LET negative == Signed(a) < 0
  IN  /\ regs[0] = 0 /\ regs[1] = a
      /\ \/ pc = 0 /\ npc = 4
         \/ pc = 4 /\ npc = IF negative THEN 8 ELSE 12
         \/ pc = 8 /\ npc = 12 /\ negative
         \/ pc = 12 /\ regs[5] = Magnitude(Signed(a))

LEMMA AbsoluteStep ==
  ASSUME TypeInv, program = Absolute, AbsoluteInv, Next
  PROVE  AbsoluteInv'
  <1> DEFINE negative == Signed(a) < 0
  <1>1. /\ pc = 0 => ins.op = "bgez" /\ ins.s = 1 /\ ins.imm = 2 % Pow(Half)
        /\ pc = 4 => ins.op = "addu" /\ ins.d = 5 /\ ins.s = 1 /\ ins.t = 0
        /\ pc = 8 => ins.op = "subu" /\ ins.d = 5 /\ ins.s = 0 /\ ins.t = 1
        /\ Len(program.code) = 3
    BY DEF ins, Absolute, P, R, B
  <1>2. UNCHANGED a /\ pc < 12
    BY <1>1, Fixed DEF a
  <1>3. \A i \in 0..12 : Cut(i) = i
    BY <1>1, Positions
  <1>4. a \in Word /\ a \in Int /\ N \in Nat /\ Signed(a) \in Int
    BY Operands, NIsNat, SignedIsInt DEF a, Word
  <1>5. /\ Cut(a + 0) = a
        /\ ~negative => Magnitude(Signed(a)) = a
        /\ negative => Magnitude(Signed(a)) = Cut(0 - a)
    <2>1. Cut(a + 0) = a
      BY <1>4, CutNear
    <2>2. ~negative => Signed(a) = a
      BY <1>4, SignedIsInt DEF Word
    <2>3. negative => Signed(a) = a - N /\ a > 0 /\ a < N
      BY <1>4, SignedIsInt DEF Word, Signed
    <2>4. negative => Cut(0 - a) = N - a
      BY <1>4, <2>3, CutNear
    <2> QED
      BY <1>4, <2>1, <2>2, <2>3, <2>4 DEF Magnitude
  <1>6. Cut(4 + Sx((2 % Pow(Half)) * 4, Half)) = 12
    <2>1. -Pow(Half) <= 8 * 2 /\ 8 * 2 < Pow(Half)
      BY FarEnough
    <2>2. Cut(4 + Sx((2 % Pow(Half)) * 4, Half)) = Cut(4 + 4 * 2)
      BY <2>1, Displaced
    <2> QED
      BY <2>2, <1>3
  <1>7. regs[0] = 0 /\ regs[1] = a
    BY DEF AbsoluteInv
  <1>8. CASE pc = 0
    <2>1. npc = 4
      BY <1>8 DEF AbsoluteInv
    <2>2. pc' = 4 /\ npc' = (IF negative THEN 8 ELSE 12) /\ UNCHANGED regs
      BY <1>1, <1>3, <1>4, <1>6, <1>7, <1>8, <2>1, ExecutesBranch, TakenWhen
         DEF BranchOps, Displacement, rs, rt
    <2> QED
      BY <1>2, <1>7, <2>2 DEF AbsoluteInv
  <1>9. CASE pc = 4
    <2>1. Sets(5, a) /\ npc = IF negative THEN 8 ELSE 12
      BY <1>1, <1>5, <1>7, <1>9, Executes DEF AbsoluteInv, rs, rt
    <2>2. pc' = npc /\ npc' = Cut(npc + 4) /\ regs'[5] = a
          /\ \A r \in (0..7) \ {5} : regs'[r] = regs[r]
      BY <2>1, SetsOne, GoesOn
    <2>3. Cut(8 + 4) = 12
      BY <1>3
    <2> QED
      BY <1>2, <1>5, <1>7, <2>1, <2>2, <2>3 DEF AbsoluteInv
  <1>10. CASE pc = 8
    <2>1. Sets(5, Cut(0 - a)) /\ npc = 12 /\ negative
      BY <1>1, <1>7, <1>10, Executes DEF AbsoluteInv, rs, rt
    <2>2. pc' = 12 /\ regs'[5] = Cut(0 - a) /\ \A r \in (0..7) \ {5} : regs'[r] = regs[r]
      BY <2>1, SetsOne, GoesOn
    <2> QED
      BY <1>2, <1>5, <1>7, <2>1, <2>2 DEF AbsoluteInv
  <1> QED
    BY <1>2, <1>8, <1>9, <1>10 DEF AbsoluteInv

SignInv ==
  LET negative == Signed(a) < 0
  IN  /\ regs[0] = 0 /\ regs[1] = a
      /\ \/ pc = 0 /\ npc = 4
         \/ pc = 4 /\ npc = IF negative THEN 20 ELSE 8
         \/ pc = 8 /\ npc = 12 /\ ~negative
         \/ pc = 12 /\ npc = (IF a = 0 THEN 20 ELSE 16) /\ ~negative
         \/ pc = 16 /\ npc = 20 /\ ~negative /\ a # 0
         \/ pc = 20 /\ regs[5] = IF negative THEN N - 1 ELSE IF a = 0 THEN 0 ELSE 1

LEMMA SignStep ==
  ASSUME TypeInv, program = Sign, SignInv, Next
  PROVE  SignInv'
  <1> DEFINE negative == Signed(a) < 0
  <1>1. /\ pc = 0 => ins.op = "bltz" /\ ins.s = 1 /\ ins.imm = 4 % Pow(Half)
        /\ pc = 4 => ins.op = "addiu" /\ ins.d = 5 /\ ins.s = 0 /\ ins.imm = -1 % Pow(Half)
        /\ pc = 8 => ins.op = "beq" /\ ins.s = 1 /\ ins.t = 0 /\ ins.imm = 2 % Pow(Half)
        /\ pc = 12 => ins.op = "addiu" /\ ins.d = 5 /\ ins.s = 0 /\ ins.imm = 0 % Pow(Half)
        /\ pc = 16 => ins.op = "addiu" /\ ins.d = 5 /\ ins.s = 0 /\ ins.imm = 1 % Pow(Half)
        /\ Len(program.code) = 5
    <2>1. /\ pc = 0 => ins = B("bltz", 1, 0, 4)
          /\ pc = 4 => ins = I("addiu", 5, 0, -1)
          /\ pc = 8 => ins = B("beq", 1, 0, 2)
          /\ pc = 12 => ins = I("addiu", 5, 0, 0)
          /\ pc = 16 => ins = I("addiu", 5, 0, 1)
          /\ Len(program.code) = 5
      BY DEF ins, Sign, P
    <2> QED
      BY <2>1 DEF I, B
  <1>2. UNCHANGED a /\ pc < 20
    BY <1>1, Fixed DEF a
  <1>3. \A i \in 0..20 : Cut(i) = i
    BY <1>1, Positions
  <1>4. Cut(0 + (N - 1)) = N - 1
    BY NIsNat, CutNear DEF Word
  <1>5. /\ Cut(4 + Sx((4 % Pow(Half)) * 4, Half)) = 20
        /\ Cut(12 + Sx((2 % Pow(Half)) * 4, Half)) = 20
    <2>1. -Pow(Half) <= 8 * 2 /\ 8 * 2 < Pow(Half) /\ -Pow(Half) <= 8 * 4 /\ 8 * 4 < Pow(Half)
      BY FarEnough
    <2>2. Cut(4 + Sx((4 % Pow(Half)) * 4, Half)) = Cut(4 + 4 * 4)
      BY <2>1, Displaced
    <2>3. Cut(12 + Sx((2 % Pow(Half)) * 4, Half)) = Cut(12 + 4 * 2)
      BY <2>1, Displaced
    <2> QED
      BY <2>2, <2>3, <1>3
  <1>6. regs[0] = 0 /\ regs[1] = a
    BY DEF SignInv
  <1>7. CASE pc = 0
    <2>1. npc = 4
      BY <1>7 DEF SignInv
    <2>2. pc' = 4 /\ npc' = (IF negative THEN 20 ELSE 8) /\ UNCHANGED regs
      BY <1>1, <1>3, <1>5, <1>6, <1>7, <2>1, ExecutesBranch, TakenWhen
         DEF BranchOps, Displacement, rs, rt
    <2> QED
      BY <1>2, <1>6, <2>2 DEF SignInv
  <1>8. CASE pc = 4
    <2>1. Sets(5, N - 1) /\ npc = IF negative THEN 20 ELSE 8
      BY <1>1, <1>4, <1>6, <1>8, Executes, MinusOne DEF SignInv, rs
    <2>2. pc' = npc /\ npc' = Cut(npc + 4) /\ regs'[5] = N - 1
          /\ \A r \in (0..7) \ {5} : regs'[r] = regs[r]
      BY <2>1, SetsOne, GoesOn
    <2>3. Cut(8 + 4) = 12
      BY <1>3
    <2> QED
      BY <1>2, <1>6, <2>1, <2>2, <2>3 DEF SignInv
  <1>9. CASE pc = 8
    <2>1. npc = 12 /\ ~negative
      BY <1>9 DEF SignInv
    <2>2. pc' = 12 /\ npc' = (IF a = 0 THEN 20 ELSE 16) /\ UNCHANGED regs
      BY <1>1, <1>3, <1>5, <1>6, <1>9, <2>1, ExecutesBranch, TakenWhen
         DEF BranchOps, Displacement, rs, rt
    <2> QED
      BY <1>2, <1>6, <2>1, <2>2 DEF SignInv
  <1>10. CASE pc = 12
    <2>1. Sets(5, 0) /\ npc = (IF a = 0 THEN 20 ELSE 16) /\ ~negative
      BY <1>1, <1>3, <1>6, <1>10, Executes, SmallImmediates DEF SignInv, rs
    <2>2. pc' = npc /\ npc' = Cut(npc + 4) /\ regs'[5] = 0
          /\ \A r \in (0..7) \ {5} : regs'[r] = regs[r]
      BY <2>1, SetsOne, GoesOn
    <2>3. Cut(16 + 4) = 20
      BY <1>3
    <2> QED
      BY <1>2, <1>6, <2>1, <2>2, <2>3 DEF SignInv
  <1>11. CASE pc = 16
    <2>1. Sets(5, 1) /\ npc = 20 /\ ~negative /\ a # 0
      BY <1>1, <1>3, <1>6, <1>11, Executes, SmallImmediates DEF SignInv, rs
    <2>2. pc' = 20 /\ regs'[5] = 1 /\ \A r \in (0..7) \ {5} : regs'[r] = regs[r]
      BY <2>1, SetsOne, GoesOn
    <2> QED
      BY <1>2, <1>6, <2>1, <2>2 DEF SignInv
  <1> QED
    BY <1>2, <1>7, <1>8, <1>9, <1>10, <1>11 DEF SignInv

(* The code of a skip.                                                     *)
LEMMA SkipCode ==
  ASSUME NEW k \in Nat \ {0}
  PROVE  /\ Len(Skip(k).code) = k + 1
         /\ Skip(k).code[1] = B("beq", 0, 0, k)
         /\ \A j \in 2..(k + 1) : Skip(k).code[j] = I("addiu", 5, 5, 1)
  <1> DEFINE x == B("beq", 0, 0, k)
             y == I("addiu", 5, 5, 1)
             rest == [n \in 1..k |-> y]
             both == <<x>> \o rest
  <1>1. Skip(k).code = both
    BY DEF Skip, P
  <1> HIDE DEF x, y
  <1>2. rest \in Seq({y}) /\ Len(rest) = k /\ \A n \in 1..k : rest[n] = y
    OBVIOUS
  <1>3. <<x>> \in Seq({x}) /\ Len(<<x>>) = 1 /\ <<x>>[1] = x
    OBVIOUS
  <1> HIDE DEF rest
  <1>4. Len(both) = k + 1 /\ both[1] = x /\ \A j \in 2..(k + 1) : both[j] = rest[j - 1]
    BY <1>2, <1>3
  <1>5. \A j \in 2..(k + 1) : both[j] = y
    <2>1. \A j \in 2..(k + 1) : j - 1 \in 1..k
      OBVIOUS
    <2> QED
      BY <1>2, <1>4, <2>1
  <1> QED
    BY <1>1, <1>4, <1>5 DEF x, y

Skips == {k \in 0..(Pow(Half) - 1) : k > 0 /\ 4 * k < Pow(Half - 1)}

SkipInv(k) ==
  /\ regs[0] = 0
  /\ \/ pc = 0 /\ npc = 4 /\ regs[5] = given[5]
     \/ pc = 4 /\ npc = 4 * (k + 1) /\ regs[5] = given[5]
     \/ pc = 4 * (k + 1) /\ regs[5] = Cut(given[5] + 1)

LEMMA SkipStep ==
  ASSUME TypeInv, NEW k \in Skips, program = Skip(k), SkipInv(k), Next
  PROVE  SkipInv(k)'
  <1>1. /\ k \in Nat \ {0} /\ -Pow(Half) <= 8 * k /\ 8 * k < Pow(Half)
        /\ 4 * (k + 1) \in Int /\ 4 * (k + 1) # 0 /\ 4 * (k + 1) # 4
    <2>1. k \in Nat \ {0} /\ 4 * k < Pow(Half - 1)
      BY Sizes DEF Skips
    <2> QED
      BY <2>1, Sizes
  <1>2. Len(program.code) = k + 1
    BY <1>1, SkipCode
  <1>3. UNCHANGED given /\ pc < 4 * (k + 1)
    BY <1>2, Fixed
  <1>4. Cut(4) = 4 /\ Cut(4 * (k + 1)) = 4 * (k + 1)
    <2>1. {4, 4 * (k + 1)} \subseteq 0..(4 * Len(program.code))
      BY <1>1, <1>2
    <2> QED
      BY <2>1, Positions
  <1>5. CASE pc = 0
    <2>1. ins = B("beq", 0, 0, k)
      <3>1. 0 \div 4 + 1 = 1
        OBVIOUS
      <3> QED
        BY <1>1, <1>5, <3>1, SkipCode DEF ins
    <2>2. ins.op = "beq" /\ ins.s = 0 /\ ins.t = 0 /\ ins.imm = k % Pow(Half)
      BY <2>1 DEF B
    <2>3. npc = 4 /\ regs[5] = given[5] /\ regs[0] = 0
      BY <1>1, <1>5 DEF SkipInv
    <2>4. Cut(4 + Sx(ins.imm * 4, Half)) = 4 * (k + 1)
      <3>1. Cut(4 + Sx((k % Pow(Half)) * 4, Half)) = Cut(4 + 4 * k)
        BY <1>1, Displaced
      <3>2. 4 + 4 * k = 4 * (k + 1)
        BY <1>1
      <3> QED
        BY <2>2, <3>1, <3>2, <1>4
    <2>5. Taken
      BY <2>2, TakenWhen DEF rs, rt
    <2>6. pc' = 4 /\ npc' = 4 * (k + 1) /\ UNCHANGED regs
      BY <2>2, <2>3, <2>4, <2>5, ExecutesBranch DEF BranchOps, Displacement
    <2> QED
      BY <1>3, <2>3, <2>6 DEF SkipInv
  <1>6. CASE pc = 4
    <2>1. ins = I("addiu", 5, 5, 1)
      <3>1. 4 \div 4 + 1 = 2 /\ 2 \in 2..(k + 1)
        BY <1>1
      <3> QED
        BY <1>1, <1>6, <3>1, SkipCode DEF ins
    <2>2. ins.op = "addiu" /\ ins.d = 5 /\ ins.s = 5 /\ ins.imm = 1 % Pow(Half)
      BY <2>1 DEF I
    <2>3. npc = 4 * (k + 1) /\ regs[5] = given[5] /\ regs[0] = 0
      BY <1>1, <1>6 DEF SkipInv
    <2>4. Sets(5, Cut(given[5] + 1))
      BY <2>2, <2>3, Executes, SmallImmediates DEF rs
    <2>5. pc' = 4 * (k + 1) /\ regs'[5] = Cut(given[5] + 1)
          /\ \A r \in (0..7) \ {5} : regs'[r] = regs[r]
      BY <2>3, <2>4, SetsOne, GoesOn
    <2> QED
      BY <1>3, <2>3, <2>5 DEF SkipInv
  <1> QED
    BY <1>1, <1>3, <1>5, <1>6 DEF SkipInv
-----------------------------------------------------------------------------
(* Memory                                                                  *)

LEMMA NestedDivision ==
  ASSUME NEW x \in Nat, NEW m \in Nat \ {0}, NEW n \in Nat \ {0}
  PROVE  (x \div m) \div n = x \div (m * n)
  <1> DEFINE y == x \div m
             u == x % m
             z == y \div n
             v == y % n
             p == m * n
             r == v * m + u
  <1>1. y \in Nat /\ u \in 0..(m - 1) /\ x = m * y + u
    <2>1. y \in 0..x
      BY DivisionNat
    <2> QED
      BY <2>1, DivisionLeaves
  <1> HIDE DEF y, u
  <1>2. z \in Int /\ v \in 0..(n - 1) /\ y = n * z + v
    BY <1>1, DivisionLeaves
  <1> HIDE DEF z, v
  <1>3. r \in 0..(p - 1) /\ p \in Nat \ {0}
    <2>1. u + v * m \in 0..(n * m - 1)
      BY <1>1, <1>2, TwoParts
    <2> QED
      BY <1>1, <1>2, <2>1
  <1>4. x = p * z + r
    BY <1>1, <1>2
  <1> HIDE DEF p, r
  <1>5. (p * z + r) \div p = z
    BY <1>2, <1>3, DivMod
  <1> QED
    BY <1>4, <1>5 DEF p, y, z

(* The two lowest digits of a number.                                      *)
LEMMA TwoDigits ==
  ASSUME NEW x \in Nat, NEW q \in Nat \ {0}
  PROVE  (x % q) + ((x \div q) % q) * q = x % (q * q)
  <1> DEFINE y == x \div q
             u == x % q
             z == y \div q
             v == y % q
             p == q * q
             r == u + v * q
  <1>1. y \in Nat /\ u \in 0..(q - 1) /\ x = q * y + u
    <2>1. y \in 0..x
      BY DivisionNat
    <2> QED
      BY <2>1, DivisionLeaves
  <1> HIDE DEF y, u
  <1>2. z \in Int /\ v \in 0..(q - 1) /\ y = q * z + v
    BY <1>1, DivisionLeaves
  <1> HIDE DEF z, v
  <1>3. r \in 0..(p - 1) /\ p \in Nat \ {0}
    BY <1>1, <1>2, TwoParts
  <1>4. x = p * z + r
    BY <1>1, <1>2
  <1> HIDE DEF p, r
  <1>5. (p * z + r) % p = r
    BY <1>2, <1>3, DivMod
  <1> QED
    BY <1>4, <1>5 DEF p, r, u, v, y

(* A shift to the left and back keeps the lower part.                      *)
LEMMA ShiftedBack ==
  ASSUME NEW m \in 0..Width, NEW x \in Word
  PROVE  /\ Cut(x * Pow(m)) \in Word
         /\ Cut(x * Pow(m)) \div Pow(m) = x % Pow(Width - m)
  <1> DEFINE p == Pow(m)
             q == Pow(Width - m)
             d == x \div q
             r == x % q
  <1>1. m \in Nat /\ Width - m \in Nat /\ m + (Width - m) = Width
    BY Sizes
  <1>2. p \in Nat \ {0} /\ q \in Nat \ {0} /\ N = p * q
    BY <1>1, PowNext, PowAdd DEF N
  <1>3. x \in Nat
    BY NIsNat DEF Word
  <1> HIDE DEF p, q
  <1>4. d \in Int /\ r \in 0..(q - 1) /\ x = q * d + r
    BY <1>2, <1>3, DivisionLeaves
  <1> HIDE DEF d, r
  <1>5. r * p \in 0..(N - 1)
    <2>1. 0 + r * p \in 0..(q * p - 1)
      BY <1>2, <1>4, TwoParts
    <2> QED
      BY <1>2, <1>4, <2>1
  <1>6. x * p = N * d + r * p
    BY <1>2, <1>4
  <1>7. Cut(x * p) = r * p
    <2> DEFINE s == r * p
    <2>1. N \in Nat \ {0} /\ s \in 0..(N - 1) /\ x * p = N * d + s
      BY <1>5, <1>6, NIsNat
    <2> HIDE DEF s
    <2>2. (N * d + s) % N = s
      BY <1>4, <2>1, DivMod
    <2> QED
      BY <2>1, <2>2 DEF Cut, s
  <1>8. (r * p) \div p = r
    <2>1. (p * r + 0) \div p = r
      BY <1>2, <1>4, DivMod
    <2>2. p * r + 0 = r * p
      BY <1>2, <1>4
    <2> QED
      BY <2>1, <2>2
  <1> QED
    BY <1>5, <1>7, <1>8 DEF Word, p, q, r

LEMMA ExecutesLoad ==
  ASSUME Next
  PROVE  /\ ins.op = "lb" => Sets(ins.d, Sx(Loaded(1), Quarter))
         /\ ins.op = "lbu" => Sets(ins.d, Loaded(1))
         /\ ins.op = "lh" => Sets(ins.d, Sx(Loaded(2), Half))
         /\ ins.op = "lhu" => Sets(ins.d, Loaded(2))
         /\ ins.op = "lw" => Sets(ins.d, Loaded(4))
  <1>1. ins.op \in {"lb", "lbu", "lh", "lhu", "lw"} => Load
    BY Dispatch
  <1>2. \A ops, value : Writes(ops, value) => ins.op \in ops /\ Sets(ins.d, value)
    BY WritesSets DEF Writes
  <1> QED
    BY <1>1, <1>2 DEF Load

LEMMA ExecutesStore ==
  ASSUME Next, NEW n, ins.op \in {"sb", "sh", "sw"}, AccessSize[ins.op] = n
  PROVE  /\ Advance /\ UNCHANGED <<regs, hi, lo>>
         /\ \A q \in 0..3 :
              bytes'[q] = IF q \in Place(n)..(Place(n) + n - 1)
                          THEN (rt \div Pow(Quarter * (q - Place(n)))) % Pow(Quarter)
                          ELSE bytes[q]
  <1>1. Store
    BY Dispatch
  <1> QED
    BY <1>1, Zenon DEF Store

(* The place of an access by register 0 and a small offset.                *)
LEMMA PlacedAt ==
  ASSUME ins.s = 0, regs[0] = 0, NEW i \in 0..3, ins.imm = i % Pow(Half)
  PROVE  /\ Place(1) = i
         /\ Place(2) = IF i < 2 THEN 0 ELSE 2
         /\ Place(4) = 0
  <1>1. i % Pow(Half) = i /\ Sx(i, Half) = i
    <2>1. i \in 0..(Pow(Half) - 1) /\ 2 * i < Pow(Half)
      BY FarEnough
    <2> QED
      BY <2>1, Immediate
  <1>2. Cut(rs + Sx(ins.imm, Half)) = i
    <2>1. i \in Word /\ 0 + i = i
      BY NIsNat DEF Word
    <2> QED
      BY <1>1, <2>1, CutNear DEF rs
  <1>3. \A n : Place(n) = i - (i % n)
    BY <1>2 DEF Place
  <1>4. /\ i - (i % 1) = i
        /\ i - (i % 2) = IF i < 2 THEN 0 ELSE 2
        /\ i - (i % 4) = 0
    OBVIOUS
  <1> QED
    BY <1>3, <1>4

(* A byte or a halfword, as a number and as a signed number.               *)
LEMMA LowerBits ==
  ASSUME NEW k \in {Quarter, Half}, NEW x \in Word
  PROVE  LET low == x % Pow(k)
         IN  /\ k \in 0..Width /\ Width - k \in 0..Width /\ Width - (Width - k) = k
             /\ low \in 0..(Pow(k) - 1) /\ low \in Word
             /\ Sx(low, k) \in Word
             /\ Signed(Sx(low, k)) = IF 2 * low < Pow(k) THEN low ELSE low - Pow(k)
             /\ (Pow(k) - 1) % Pow(Half) = Pow(k) - 1
  <1> DEFINE p == Pow(k)
             h == Pow(Half)
             low == x % p
  <1>1. k \in Nat /\ Width \in Nat /\ k <= Width /\ p \in Nat \ {0} /\ h \in Nat \ {0}
    BY Sizes
  <1>2. p <= h /\ 4 * h <= N /\ N \in Nat
    <2>1. /\ Pow(Quarter) >= 2 /\ Pow(Quarter) \in Nat
          /\ h = Pow(Quarter) * Pow(Quarter) /\ N = h * h
      BY Sizes
    <2>2. Pow(Quarter) <= h /\ h >= 4
      BY <2>1
    <2>3. 4 * h <= h * h
      BY <2>2, <1>1
    <2> QED
      BY <2>1, <2>2, <2>3, <1>1
  <1>3. x \in Nat
    BY NIsNat DEF Word
  <1> HIDE DEF p, h
  <1>4. low \in 0..(p - 1)
    BY <1>1, <1>3, DivisionLeaves
  <1> HIDE DEF low
  <1>5. low \in Word /\ low % p = low
    BY <1>1, <1>2, <1>4 DEF Word
  <1>6. (p - 1) % h = p - 1
    BY <1>1, <1>2
  <1> DEFINE y == IF 2 * low < p THEN low ELSE low - p
  <1>7. Sx(low, k) = Cut(y)
    BY <1>5 DEF Sx, p
  <1>8. y \in Int /\ -N <= 2 * y /\ 2 * y < N
    BY <1>1, <1>2, <1>4
  <1> HIDE DEF y
  <1>9. Signed(Cut(y)) = y /\ Cut(y) \in Word
    BY <1>8, SignedOfCut, CutIsWord
  <1>10. Width - k \in 0..Width /\ Width - (Width - k) = k /\ k \in 0..Width
    BY <1>1
  <1> QED
    BY <1>4, <1>5, <1>6, <1>7, <1>9, <1>10 DEF p, h, low, y

ExtendInv(k) ==
  /\ Straight /\ pc \in {0, 4, 8, 12, 16}
  /\ regs[0] = 0 /\ regs[1] = a
  /\ pc >= 4 => regs[5] = Cut(a * Pow(Width - k))
  /\ pc >= 8 => regs[6] = a % Pow(k)
  /\ pc >= 12 => regs[4] % Width = Width - k
  /\ pc >= 16 => regs[7] = a % Pow(k)

LEMMA ExtendStep ==
  ASSUME TypeInv, NEW k \in {Quarter, Half}, program = Extend(k), ExtendInv(k), Next
  PROVE  ExtendInv(k)'
  <1> DEFINE low == a % Pow(k)
             m == Width - k
             up == Cut(a * Pow(m))
             p == Pow(Half)
             Goes == pc' = pc + 4 /\ Straight'
  <1>1. /\ pc = 0 => ins.op = "sll" /\ ins.d = 5 /\ ins.t = 1 /\ ins.imm = m
        /\ pc = 4 => ins.op = "sra" /\ ins.d = 6 /\ ins.t = 5 /\ ins.imm = m
        /\ pc = 8 => ins.op = "addiu" /\ ins.d = 4 /\ ins.s = 0
                     /\ ins.imm = (2 * Width - k) % p
        /\ pc = 12 => ins.op = "srav" /\ ins.d = 7 /\ ins.s = 4 /\ ins.t = 5
        /\ Len(program.code) = 4
    BY DEF ins, Extend, P, R, I, Sh
  <1>2. /\ Straight /\ regs[0] = 0 /\ regs[1] = a /\ UNCHANGED <<a, low, up>>
        /\ pc \in {0, 4, 8, 12}
    BY <1>1, Fixed DEF ExtendInv, a
  <1>3. up \div Pow(m) = low
    <2>1. a \in Word
      BY Operands DEF a
    <2>2. m \in 0..Width /\ Width - m = k
      BY <2>1, LowerBits
    <2> QED
      BY <2>1, <2>2, ShiftedBack
  <1>4. \A d, value : Sets(d, value) => Goes
    BY AdvanceContinues DEF Sets, Continues, ExtendInv
  <1>5. m \in 0..(Width - 1) /\ 2 * Width - k = Width + m
    BY Sizes
  <1> HIDE DEF low, up, m
  <1>6. CASE pc = 0
    <2>1. Sets(5, up)
      BY <1>1, <1>2, <1>6, Executes DEF rt, up
    <2> QED
      BY <1>2, <1>4, <1>6, <2>1, SetsOne DEF ExtendInv, low, up, m
  <1>7. CASE pc = 4
    <2>1. regs[5] = up
      BY <1>7 DEF ExtendInv, up, m
    <2>2. Sets(6, low)
      BY <1>1, <1>3, <1>7, <2>1, Executes DEF rt
    <2> QED
      BY <1>2, <1>4, <1>7, <2>1, <2>2, SetsOne DEF ExtendInv, low, up, m
  <1>8. CASE pc = 8
    <2>1. Sets(4, Cut(0 + Sx((Width + m) % p, Half)))
      BY <1>1, <1>2, <1>5, <1>8, Executes DEF rs
    <2>2. Sets(4, Width + m) /\ (Width + m) % Width = m
      BY <1>5, <2>1, ShiftAmount
    <2> QED
      BY <1>2, <1>4, <1>8, <2>2, SetsOne DEF ExtendInv, low, up, m
  <1>9. CASE pc = 12
    <2>1. regs[5] = up /\ regs[4] % Width = m
      BY <1>9 DEF ExtendInv, up, m
    <2>2. Sets(7, low)
      BY <1>1, <1>3, <1>9, <2>1, Executes DEF rs, rt
    <2> QED
      BY <1>2, <1>4, <1>9, <2>1, <2>2, SetsOne DEF ExtendInv, low, up, m
  <1> QED
    BY <1>2, <1>6, <1>7, <1>8, <1>9

(* What of memory holds the lower byte, or the lower half.                 *)
Stored(k) == IF k = Quarter THEN bytes[3] ELSE bytes[2] + bytes[3] * Pow(Quarter)

PartInv(k) ==
  /\ Straight /\ pc \in {0, 4, 8, 12, 16, 20, 24}
  /\ regs[0] = 0 /\ regs[1] = a
  /\ pc >= 4 => Stored(k) = a % Pow(k)
  /\ pc >= 8 => regs[5] = Sx(a % Pow(k), k)
  /\ pc >= 12 => regs[6] = a % Pow(k)
  /\ pc = 16 => regs[7] = Cut(a * Pow(Width - k))
  /\ pc >= 20 => regs[7] = a % Pow(k)
  /\ pc >= 24 => regs[2] = a % Pow(k)

(* The store of either sequence.                                           *)
LEMMA PartStored ==
  ASSUME TypeInv, NEW k \in {Quarter, Half}, regs[0] = 0, regs[1] = a,
         Next, ins.s = 0, ins.t = 1,
         \/ k = Quarter /\ ins.op = "sb" /\ ins.imm = 3 % Pow(Half)
         \/ k = Half /\ ins.op = "sh" /\ ins.imm = 2 % Pow(Half)
  PROVE  /\ Stored(k)' = a % Pow(k)
         /\ Advance /\ UNCHANGED <<regs, hi, lo>>
  <1> DEFINE Q == Pow(Quarter)
             digit(i) == (a \div Pow(Quarter * i)) % Q
  <1>1. Quarter \in Nat \ {0} /\ Half = 2 * Quarter /\ Pow(Half) = Q * Q /\ Q \in Nat \ {0}
        /\ Pow(0) = 1
    BY Sizes
  <1>2. Quarter # Half /\ Quarter * 0 = 0 /\ Quarter * 1 = Quarter
    BY <1>1
  <1>3. a \in Nat /\ rt = a
    <2>1. a \in Word
      BY Operands DEF a
    <2> QED
      BY <2>1, NIsNat DEF Word, rt
  <1>4. digit(0) = a % Q /\ digit(1) = (a \div Q) % Q
    <2>1. a \div 1 = a
      BY <1>3
    <2> QED
      BY <1>1, <1>2, <2>1
  <1>5. CASE k = Quarter
    <2>1. ins.op = "sb" /\ AccessSize[ins.op] = 1
      BY <1>2, <1>5 DEF AccessSize
    <2>2. Place(1) = 3
      BY <1>2, <1>5, PlacedAt
    <2>3. Advance /\ UNCHANGED <<regs, hi, lo>>
      BY <2>1, ExecutesStore
    <2>4. \A q \in 0..3 :
             bytes'[q] = IF q \in Place(1)..(Place(1) + 1 - 1)
                         THEN (rt \div Pow(Quarter * (q - Place(1)))) % Pow(Quarter)
                         ELSE bytes[q]
      BY <2>1, ExecutesStore
    <2>5. bytes'[3] = digit(3 - 3)
      BY <2>2, <2>4, <1>3
    <2>6. bytes'[3] = a % Q
      BY <2>5, <1>4
    <2> QED
      BY <2>3, <2>6, <1>5 DEF Stored
  <1>6. CASE k = Half
    <2>1. ins.op = "sh" /\ AccessSize[ins.op] = 2
      BY <1>2, <1>6 DEF AccessSize
    <2>2. Place(2) = 2
      BY <1>2, <1>6, PlacedAt
    <2>3. Advance /\ UNCHANGED <<regs, hi, lo>>
      BY <2>1, ExecutesStore
    <2>4. \A q \in 0..3 :
             bytes'[q] = IF q \in Place(2)..(Place(2) + 2 - 1)
                         THEN (rt \div Pow(Quarter * (q - Place(2)))) % Pow(Quarter)
                         ELSE bytes[q]
      BY <2>1, ExecutesStore
    <2>5. bytes'[2] = digit(2 - 2) /\ bytes'[3] = digit(3 - 2)
      BY <2>2, <2>4, <1>3
    <2>6. bytes'[2] = a % Q /\ bytes'[3] = (a \div Q) % Q
      BY <2>5, <1>4
    <2>7. (a % Q) + ((a \div Q) % Q) * Q = a % Pow(Half)
      BY <1>1, <1>3, TwoDigits
    <2> QED
      BY <2>3, <2>6, <2>7, <1>2, <1>6 DEF Stored
  <1> QED
    BY <1>5, <1>6

(* The loads of either sequence.                                           *)
LEMMA PartLoaded ==
  ASSUME TypeInv, pc < 4 * Len(program.code), NEW k \in {Quarter, Half}, regs[0] = 0, ins.s = 0,
         \/ k = Quarter /\ ins.imm = 3 % Pow(Half)
         \/ k = Half /\ ins.imm \in {2 % Pow(Half), 3 % Pow(Half)}
  PROVE  Stored(k) = IF k = Quarter THEN Loaded(1) ELSE Loaded(2)
  <1>1. Quarter # Half
    BY Sizes
  <1>2. CASE k = Quarter
    <2>1. Place(1) = 3
      BY <1>1, <1>2, PlacedAt
    <2>2. Loaded(1) = bytes[3 + 1 - 1]
      BY <2>1, LoadedBytes DEF ByteOf
    <2> QED
      BY <1>2, <2>2 DEF Stored
  <1>3. CASE k = Half
    <2>1. Place(2) = 2
      BY <1>1, <1>3, PlacedAt
    <2>2. Loaded(2) = bytes[2 + 1 - 1] + bytes[2 + 2 - 1] * Pow(Quarter)
      BY <2>1, LoadedBytes DEF ByteOf
    <2> QED
      BY <1>1, <1>3, <2>2 DEF Stored
  <1> QED
    BY <1>2, <1>3

LEMMA PartStep ==
  ASSUME TypeInv, NEW k \in {Quarter, Half},
         \/ program = LowerByte /\ k = Quarter
         \/ program = LowerHalf /\ k = Half,
         PartInv(k), Next
  PROVE  PartInv(k)'
  <1> DEFINE low == a % Pow(k)
             Onwards == pc' = pc + 4 /\ Straight'
             h == Pow(Half)
  <1>1. /\ pc = 0 => ins.s = 0 /\ ins.t = 1 /\
             \/ k = Quarter /\ ins.op = "sb" /\ ins.imm = 3 % h
             \/ k = Half /\ ins.op = "sh" /\ ins.imm = 2 % h
        /\ pc = 4 => ins.s = 0 /\ ins.d = 5 /\
             \/ k = Quarter /\ ins.op = "lb" /\ ins.imm = 3 % h
             \/ k = Half /\ ins.op = "lh" /\ ins.imm = 3 % h
        /\ pc = 8 => ins.s = 0 /\ ins.d = 6 /\
             \/ k = Quarter /\ ins.op = "lbu" /\ ins.imm = 3 % h
             \/ k = Half /\ ins.op = "lhu" /\ ins.imm = 2 % h
        /\ pc = 12 => ins.op = "sll" /\ ins.d = 7 /\ ins.t = 1 /\ ins.imm = Width - k
        /\ pc = 16 => ins.op = "srl" /\ ins.d = 7 /\ ins.t = 7 /\ ins.imm = Width - k
        /\ pc = 20 => ins.op = "andi" /\ ins.d = 2 /\ ins.s = 1 /\ ins.imm = (Pow(k) - 1) % h
        /\ Len(program.code) = 6
    <2>1. Width - Quarter = 3 * Quarter /\ Width - Half = Half
      BY Sizes
    <2>2. CASE program = LowerByte /\ k = Quarter
      <3>1. /\ pc = 0 => ins = B("sb", 0, 1, 3)
            /\ pc = 4 => ins = I("lb", 5, 0, 3)
            /\ pc = 8 => ins = I("lbu", 6, 0, 3)
            /\ pc = 12 => ins = Sh("sll", 7, 1, 3 * Quarter)
            /\ pc = 16 => ins = Sh("srl", 7, 7, 3 * Quarter)
            /\ pc = 20 => ins = I("andi", 2, 1, Pow(Quarter) - 1)
            /\ Len(program.code) = 6
        BY <2>2 DEF ins, LowerByte, P
      <3> QED
        BY <2>1, <2>2, <3>1 DEF B, I, Sh
    <2>3. CASE program = LowerHalf /\ k = Half
      <3>1. /\ pc = 0 => ins = B("sh", 0, 1, 2)
            /\ pc = 4 => ins = I("lh", 5, 0, 3)
            /\ pc = 8 => ins = I("lhu", 6, 0, 2)
            /\ pc = 12 => ins = Sh("sll", 7, 1, Half)
            /\ pc = 16 => ins = Sh("srl", 7, 7, Half)
            /\ pc = 20 => ins = I("andi", 2, 1, Pow(Half) - 1)
            /\ Len(program.code) = 6
        BY <2>3 DEF ins, LowerHalf, P
      <3> QED
        BY <2>1, <2>3, <3>1 DEF B, I, Sh
    <2> QED
      BY <2>2, <2>3
  <1>2. /\ Straight /\ regs[0] = 0 /\ regs[1] = a /\ UNCHANGED <<a, low>>
        /\ pc \in {0, 4, 8, 12, 16, 20} /\ pc < 4 * Len(program.code)
    BY <1>1, Fixed DEF PartInv, a
  <1>3. /\ a \in Word /\ k \in 0..Width /\ Width - k \in 0..Width /\ Width - (Width - k) = k
        /\ (Pow(k) - 1) % h = Pow(k) - 1 /\ Quarter # Half
    <2>1. a \in Word
      BY Operands DEF a
    <2> QED
      BY <2>1, LowerBits, Sizes
  <1>4. \A d, value : Sets(d, value) => Onwards /\ UNCHANGED bytes /\ Stored(k)' = Stored(k)
    BY <1>2, AdvanceContinues DEF Sets, Continues, Stored
  <1> HIDE DEF h
  <1>5. CASE pc = 0
    <2>1. Stored(k)' = low /\ Advance /\ UNCHANGED regs
      BY <1>1, <1>2, <1>5, PartStored DEF h
    <2>2. Onwards
      BY <1>2, <2>1, AdvanceContinues DEF Continues
    <2> QED
      BY <1>2, <1>5, <2>1, <2>2 DEF PartInv
  <1>6. CASE pc = 4
    <2>1. Stored(k) = low
      BY <1>6 DEF PartInv
    <2>2. Stored(k) = IF k = Quarter THEN Loaded(1) ELSE Loaded(2)
      BY <1>1, <1>2, <1>6, PartLoaded DEF h
    <2>3. Sets(5, Sx(low, k))
      BY <1>1, <1>3, <1>6, <2>1, <2>2, ExecutesLoad
    <2> QED
      BY <1>2, <1>4, <1>6, <2>1, <2>3, SetsOne DEF PartInv
  <1>7. CASE pc = 8
    <2>1. Stored(k) = low /\ regs[5] = Sx(low, k)
      BY <1>7 DEF PartInv
    <2>2. Stored(k) = IF k = Quarter THEN Loaded(1) ELSE Loaded(2)
      BY <1>1, <1>2, <1>7, PartLoaded DEF h
    <2>3. Sets(6, low)
      BY <1>1, <1>3, <1>7, <2>1, <2>2, ExecutesLoad
    <2> QED
      BY <1>2, <1>4, <1>7, <2>1, <2>3, SetsOne DEF PartInv
  <1>8. CASE pc = 12
    <2>1. Sets(7, Cut(a * Pow(Width - k)))
      BY <1>1, <1>2, <1>8, Executes DEF rt
    <2> QED
      BY <1>2, <1>4, <1>8, <2>1, SetsOne DEF PartInv
  <1>9. CASE pc = 16
    <2>1. Sets(7, Cut(a * Pow(Width - k)) \div Pow(Width - k))
      BY <1>1, <1>9, Executes DEF rt, PartInv
    <2>2. Sets(7, low)
      BY <1>3, <2>1, ShiftedBack
    <2> QED
      BY <1>2, <1>4, <1>9, <2>2, SetsOne DEF PartInv
  <1>10. CASE pc = 20
    <2>1. Sets(2, WordOf(BitSet(a) \cap BitSet(Pow(k) - 1)))
      BY <1>1, <1>2, <1>3, <1>10, Executes DEF rs
    <2>2. Sets(2, low)
      BY <1>3, <2>1, AndIsRest
    <2> QED
      BY <1>2, <1>4, <1>10, <2>2, SetsOne DEF PartInv
  <1> QED
    BY <1>2, <1>5, <1>6, <1>7, <1>8, <1>9, <1>10

(* Two bytes of memory.                                                    *)
TwoBytes(i) == bytes[i] + bytes[i + 1] * Pow(Quarter)

HalvesInv ==
  /\ Straight /\ pc \in {0, 4, 8, 12, 16, 20, 24}
  /\ regs[0] = 0 /\ regs[1] = a
  /\ pc >= 4 => TwoBytes(0) = LowerPart(a) /\ TwoBytes(2) = UpperHalf(a)
  /\ pc >= 8 => regs[5] = UpperHalf(a)
  /\ pc >= 12 => regs[6] = LowerPart(a)
  /\ pc = 16 => regs[7] = UpperHalf(a) * Pow(Half)
  /\ pc >= 20 => regs[7] = a
  /\ pc >= 24 => regs[2] = a

(* The bytes of a word that is stored are those of its halves.             *)
LEMMA HalvesStored ==
  ASSUME TypeInv, regs[0] = 0, regs[1] = a, Next,
         ins.s = 0, ins.t = 1, ins.op = "sw", ins.imm = 3 % Pow(Half)
  PROVE  /\ TwoBytes(0)' = LowerPart(a) /\ TwoBytes(2)' = UpperHalf(a)
         /\ Advance /\ UNCHANGED <<regs, hi, lo>>
  <1> DEFINE Q == Pow(Quarter)
             u == UpperHalf(a)
             digit(i) == (a \div Pow(Quarter * i)) % Q
  <1>1. /\ Quarter \in Nat \ {0} /\ Half = 2 * Quarter /\ Pow(Half) = Q * Q
        /\ Q \in Nat \ {0} /\ Q * Q \in Nat \ {0} /\ Pow(0) = 1
    BY Sizes
  <1>2. /\ Pow(Quarter * 0) = 1 /\ Pow(Quarter * 1) = Q
        /\ Pow(Quarter * 2) = Q * Q /\ Pow(Quarter * 3) = (Q * Q) * Q
    <2>1. /\ Quarter * 0 = 0 /\ Quarter * 1 = Quarter
          /\ Quarter * 2 = Half /\ Quarter * 3 = Half + Quarter /\ Half \in Nat
      BY <1>1
    <2> QED
      BY <1>1, <2>1, PowAdd
  <1>3. a \in Nat /\ a \in Word /\ rt = a
    <2>1. a \in Word
      BY Operands DEF a
    <2> QED
      BY <2>1, NIsNat DEF Word, rt
  <1>4. u \in 0..(Q * Q - 1) /\ u = a \div (Q * Q)
    BY <1>1, <1>3, HalvesOfWord DEF UpperHalf
  <1>5. AccessSize[ins.op] = 4 /\ Place(4) = 0
    BY PlacedAt DEF AccessSize
  <1>6. Advance /\ UNCHANGED <<regs, hi, lo>>
    BY <1>5, ExecutesStore
  <1>7. \A q \in 0..3 :
           bytes'[q] = IF q \in Place(4)..(Place(4) + 4 - 1)
                       THEN (rt \div Pow(Quarter * (q - Place(4)))) % Pow(Quarter)
                       ELSE bytes[q]
    BY <1>5, ExecutesStore
  <1>8. /\ bytes'[0] = digit(0 - 0) /\ bytes'[1] = digit(1 - 0)
        /\ bytes'[2] = digit(2 - 0) /\ bytes'[3] = digit(3 - 0)
    BY <1>3, <1>5, <1>7
  <1>9. digit(0) = a % Q /\ digit(1) = (a \div Q) % Q
    <2>1. a \div 1 = a
      BY <1>3
    <2> QED
      BY <1>2, <2>1
  <1>10. digit(2) = u % Q /\ digit(3) = (u \div Q) % Q
    <2>1. (a \div (Q * Q)) \div Q = a \div ((Q * Q) * Q)
      BY <1>1, <1>3, NestedDivision
    <2> QED
      BY <1>2, <1>4, <2>1
  <1>11. /\ (a % Q) + ((a \div Q) % Q) * Q = a % (Q * Q)
         /\ (u % Q) + ((u \div Q) % Q) * Q = u % (Q * Q)
    <2>1. u \in Nat
      BY <1>1, <1>4
    <2> HIDE DEF u, Q
    <2> QED
      BY <1>1, <1>3, <2>1, TwoDigits
  <1>12. u % (Q * Q) = u
    <2> DEFINE p == Q * Q
    <2>1. p \in Nat \ {0} /\ u \in 0..(p - 1)
      BY <1>1, <1>4
    <2> HIDE DEF p, u
    <2>2. u % p = u
      BY <2>1
    <2> QED
      BY <2>2 DEF p
  <1>13. TwoBytes(0)' = bytes'[0] + bytes'[1] * Q /\ TwoBytes(2)' = bytes'[2] + bytes'[3] * Q
    BY DEF TwoBytes
  <1>14. TwoBytes(0)' = a % (Q * Q)
    BY <1>8, <1>9, <1>11, <1>13
  <1>15. TwoBytes(2)' = u
    <2> HIDE DEF u
    <2> QED
      BY <1>8, <1>10, <1>11, <1>12, <1>13
  <1> QED
    BY <1>1, <1>6, <1>14, <1>15 DEF LowerPart

LEMMA HalvesStep ==
  ASSUME TypeInv, program = Halves, HalvesInv, Next
  PROVE  HalvesInv'
  <1> DEFINE u == UpperHalf(a)
             v == LowerPart(a)
             h == Pow(Half)
             Q == Pow(Quarter)
             Onwards == pc' = pc + 4 /\ Straight'
  <1>1. /\ pc = 0 => ins.op = "sw" /\ ins.s = 0 /\ ins.t = 1 /\ ins.imm = 3 % h
        /\ pc = 4 => ins.op = "lhu" /\ ins.d = 5 /\ ins.s = 0 /\ ins.imm = 3 % h
        /\ pc = 8 => ins.op = "lhu" /\ ins.d = 6 /\ ins.s = 0 /\ ins.imm = 1 % h
        /\ pc = 12 => ins.op = "sll" /\ ins.d = 7 /\ ins.t = 5 /\ ins.imm = Half
        /\ pc = 16 => ins.op = "or" /\ ins.d = 7 /\ ins.s = 7 /\ ins.t = 6
        /\ pc = 20 => ins.op = "lw" /\ ins.d = 2 /\ ins.s = 0 /\ ins.imm = 2 % h
        /\ Len(program.code) = 6
    BY DEF ins, Halves, P, R, I, B, Sh
  <1>2. /\ Straight /\ regs[0] = 0 /\ regs[1] = a /\ UNCHANGED <<a, u, v>>
        /\ pc \in {0, 4, 8, 12, 16, 20} /\ pc < 4 * Len(program.code)
    BY <1>1, Fixed DEF HalvesInv, a, UpperHalf, LowerPart
  <1>3. /\ a \in Word /\ u \in 0..(h - 1) /\ v \in 0..(h - 1) /\ a = h * u + v
        /\ h \in Nat \ {0} /\ N = h * h /\ h = Q * Q /\ Q \in Nat \ {0}
    <2>1. a \in Word
      BY Operands DEF a
    <2> QED
      BY <2>1, HalvesOfWord, Sizes
  <1>4. \A d, value : Sets(d, value) => Onwards /\ UNCHANGED <<TwoBytes(0), TwoBytes(2)>>
    BY <1>2, AdvanceContinues DEF Sets, Continues, TwoBytes
  <1> HIDE DEF h, u, v
  <1>5. u * h \in Word /\ v \in Word /\ Cut(u * h) = u * h
    <2>1. 0 + u * h \in 0..(h * h - 1) /\ v + 0 * h \in 0..(h * h - 1)
      BY <1>3, TwoParts
    <2> QED
      BY <1>3, <2>1, CutNear DEF Word
  <1>6. CASE pc = 0
    <2>1. TwoBytes(0)' = v /\ TwoBytes(2)' = u /\ Advance /\ UNCHANGED regs
      BY <1>1, <1>2, <1>6, HalvesStored DEF h, u, v
    <2>2. Onwards
      BY <1>2, <2>1, AdvanceContinues DEF Continues
    <2> QED
      BY <1>2, <1>6, <2>1, <2>2 DEF HalvesInv, u, v
  <1>7. CASE pc = 4
    <2>1. Place(2) = 2
      BY <1>1, <1>2, <1>7, PlacedAt DEF h
    <2>2. Loaded(2) = bytes[2 + 1 - 1] + bytes[2 + 2 - 1] * Q
      BY <1>2, <2>1, LoadedBytes DEF ByteOf
    <2>3. Loaded(2) = u
      BY <1>7, <2>2 DEF HalvesInv, TwoBytes, u
    <2>4. Sets(5, u)
      BY <1>1, <1>7, <2>3, ExecutesLoad
    <2> QED
      BY <1>2, <1>4, <1>7, <2>4, SetsOne DEF HalvesInv, u, v
  <1>8. CASE pc = 8
    <2>1. Place(2) = 0
      BY <1>1, <1>2, <1>8, PlacedAt DEF h
    <2>2. Loaded(2) = bytes[0 + 1 - 1] + bytes[0 + 2 - 1] * Q
      BY <1>2, <2>1, LoadedBytes DEF ByteOf
    <2>3. Loaded(2) = v
      BY <1>8, <2>2 DEF HalvesInv, TwoBytes, v
    <2>4. Sets(6, v)
      BY <1>1, <1>8, <2>3, ExecutesLoad
    <2> QED
      BY <1>2, <1>4, <1>8, <2>4, SetsOne DEF HalvesInv, u, v
  <1>9. CASE pc = 12
    <2>1. regs[5] = u
      BY <1>9 DEF HalvesInv, u
    <2>2. Sets(7, Cut(u * h))
      BY <1>1, <1>9, <2>1, Executes DEF rt, h
    <2> QED
      BY <1>2, <1>4, <1>5, <1>9, <2>2, SetsOne DEF HalvesInv, u, v, h
  <1>10. CASE pc = 16
    <2>1. regs[7] = u * h /\ regs[6] = v
      BY <1>10 DEF HalvesInv, u, v, h
    <2>2. Sets(7, WordOf(BitSet(u * h) \cup BitSet(v)))
      BY <1>1, <1>10, <2>1, Executes DEF rs, rt
    <2>3. WordOf(BitSet(u * h) \cup BitSet(v)) = u * h + v
      <3>1. Half \in Nat /\ u \in Int /\ u * h = Pow(Half) * u /\ v < Pow(Half)
        BY <1>3, Sizes DEF h
      <3> QED
        BY <1>5, <3>1, OrIsSum
    <2>4. Sets(7, a)
      BY <1>3, <2>2, <2>3
    <2> QED
      BY <1>2, <1>4, <1>10, <2>4, SetsOne DEF HalvesInv, u, v
  <1>11. CASE pc = 20
    <2>1. Place(4) = 0
      BY <1>1, <1>2, <1>11, PlacedAt DEF h
    <2> DEFINE b0 == bytes[0 + 1 - 1]
               b1 == bytes[0 + 2 - 1]
               b2 == bytes[0 + 3 - 1]
               b3 == bytes[0 + 4 - 1]
    <2>2. /\ Loaded(4) = b0 + b1 * Q + b2 * (Q * Q) + b3 * (Q * Q * Q)
          /\ {b0, b1, b2, b3} \subseteq 0..(Q - 1)
      BY <1>2, <2>1, LoadedBytes DEF ByteOf
    <2>3. b0 + b1 * Q = v /\ b2 + b3 * Q = u
      BY <1>11 DEF HalvesInv, TwoBytes, u, v
    <2> HIDE DEF b0, b1, b2, b3, Q
    <2>4. Loaded(4) = v + u * (Q * Q)
      <3>1. {b0, b1, b2, b3} \subseteq Int /\ Q \in Int
        BY <1>3, <2>2
      <3>2. b2 * (Q * Q) + b3 * (Q * Q * Q) = (b2 + b3 * Q) * (Q * Q)
        BY <3>1
      <3> QED
        BY <2>2, <2>3, <3>1, <3>2
    <2>5. Loaded(4) = a
      <3>1. h * u = u * h
        BY <1>3
      <3> QED
        BY <1>3, <2>4, <3>1
    <2>6. Sets(2, a)
      BY <1>1, <1>11, <2>5, ExecutesLoad
    <2> QED
      BY <1>2, <1>4, <1>11, <2>6, SetsOne DEF HalvesInv, u, v
  <1> QED
    BY <1>2, <1>6, <1>7, <1>8, <1>9, <1>10, <1>11

-----------------------------------------------------------------------------
(* What the sequences have computed at their end                           *)

LEMMA CompareEnds ==
  ASSUME TypeInv, CompareInv, pc = 20
  PROVE  regs[2] = regs[7] /\ (regs[2] = 1 <=> Signed(a) < Signed(b))
  <1>1. a \in Word /\ b \in Word
    BY Operands DEF a, b
  <1>2. /\ regs[5] = Signed(a) + Middle /\ regs[6] = Signed(b) + Middle
        /\ Signed(a) \in Int /\ Signed(b) \in Int /\ Middle \in Int
    BY <1>1, Moved, SignedIsInt, MiddleOfRange, NIsNat DEF CompareInv, Word
  <1> QED
    BY <1>2 DEF CompareInv

(* The carry of a sum, as its comparison with an operand tells it.         *)
LEMMA CarryOfSum ==
  ASSUME NEW x \in Word, NEW y \in Word
  PROVE  /\ Cut(x + y) \in Word
         /\ Cut(x + y) < y <=> x + y >= N
         /\ x + y \in Word <=> x + y < N
         /\ x + y = Cut(x + y) + N * (IF Cut(x + y) < y THEN 1 ELSE 0)
  <1>1. N \in Nat /\ x \in Nat /\ y \in Nat /\ x < N /\ y < N
    BY NIsNat DEF Word
  <1>2. CASE x + y < N
    <2>1. x + y \in Word
      BY <1>1, <1>2 DEF Word
    <2> QED
      BY <1>1, <1>2, <2>1, CutNear
  <1>3. CASE x + y >= N
    <2>1. Cut(x + y) = x + y - N
      BY <1>1, <1>3, CutNear
    <2> QED
      BY <1>1, <1>3, <2>1 DEF Word
  <1> QED
    BY <1>1, <1>2, <1>3

LEMMA CheckedAddEnds ==
  ASSUME TypeInv, CheckedAddInv
  PROVE  /\ status = "exited" => regs[6] = 1
         /\ pc = 12 => regs[6] = 0 /\ regs[7] = regs[5]
  <1>1. a \in Word /\ b \in Word
    BY Operands DEF a, b
  <1>2. /\ Cut(a + b) < b <=> a + b >= N
        /\ a + b \in Word <=> a + b < N
        /\ a + b \in Word => Cut(a + b) = a + b
    BY <1>1, CarryOfSum, CutNear, NIsNat DEF Word
  <1>3. a + b \in Int /\ N \in Int
    BY <1>1, NIsNat DEF Word
  <1> QED
    BY <1>2, <1>3 DEF CheckedAddInv

LEMMA CheckedAddImmEnds ==
  ASSUME TypeInv, NEW k \in 0..(Pow(Half) - 1), CheckedAddImmInv(k)
  PROVE  LET wrapped == IF k < Pow(Half - 1) THEN regs[5] < a ELSE regs[5] > a
         IN  /\ status = "exited" => wrapped
             /\ pc = 8 => ~wrapped /\ regs[7] = regs[5]
  <1> DEFINE w == Sx(k, Half)
             v == Signed(Sx(k, Half))
             p == Pow(Half)
  <1>1. a \in Nat /\ a < N /\ N \in Nat
    BY Operands, NIsNat DEF a, Word
  <1>2. p \in Nat /\ p < N /\ p = 2 * Pow(Half - 1) /\ Pow(Half - 1) \in Nat
    <2>1. p \in Nat /\ p >= 2 /\ p = 2 * Pow(Half - 1) /\ Pow(Half - 1) \in Nat
          /\ N = p * p /\ N >= 16
      BY Sizes
    <2>2. p < p * p
      <3> HIDE DEF p
      <3> QED
        BY <2>1
    <2> QED
      BY <2>1, <2>2
  <1>3. /\ k \in Nat /\ k < p
        /\ 2 * k < p => w = k /\ v = k
        /\ 2 * k >= p => w = N + k - p /\ v = k - p
    BY <1>2, Immediate
  <1>4. /\ regs[5] = Cut(a + w) \/ pc = 0
        /\ pc = 8 => a + v \in Word /\ regs[7] = a + v
        /\ status = "exited" => pc = 4 /\ a + v \notin Word
    BY NIsNat DEF CheckedAddImmInv
  <1> HIDE DEF w, v, p
  <1>5. CASE 2 * k < p
    <2>1. a + k < N => Cut(a + w) = a + k /\ a + v \in Word
      BY <1>1, <1>3, <1>5, CutNear DEF Word
    <2>2. a + k >= N => Cut(a + w) = a + k - N /\ a + v \notin Word
      BY <1>1, <1>2, <1>3, <1>5, CutNear DEF Word
    <2>3. k < Pow(Half - 1)
      BY <1>2, <1>3, <1>5
    <2> QED
      BY <1>1, <1>2, <1>3, <1>4, <1>5, <2>1, <2>2, <2>3
  <1>6. CASE 2 * k >= p
    <2>1. a + v >= 0 => Cut(a + w) = a + k - p /\ a + v \in Word
      BY <1>1, <1>2, <1>3, <1>6, CutNear DEF Word
    <2>2. a + v < 0 => Cut(a + w) = a + N + k - p /\ a + v \notin Word
      <3>1. a + v < 0 => a + w \in Word
        BY <1>1, <1>2, <1>3, <1>6 DEF Word
      <3> QED
        BY <1>1, <1>2, <1>3, <1>6, <3>1, CutNear DEF Word
    <2>3. ~(k < Pow(Half - 1))
      BY <1>2, <1>3, <1>6
    <2> QED
      BY <1>1, <1>2, <1>3, <1>4, <1>6, <2>1, <2>2, <2>3
  <1> QED
    BY <1>2, <1>3, <1>5, <1>6

LEMMA ProductEnds ==
  ASSUME TypeInv, ProductInv, pc = 12
  PROVE  LET double == Long(regs[5], regs[6])
             signed == Signed(a) * Signed(b)
         IN  /\ regs[6] = Cut(a * b) /\ (double = a * b <=> a * b \in Word)
             /\ regs[6] = Cut(signed) /\ (signed \in Word => double = signed)
  <1>1. a \in Word /\ b \in Word
    BY Operands DEF a, b
  <1>2. N \in Nat /\ N >= 16 /\ a \in Nat /\ b \in Nat /\ a < N /\ b < N /\ a * b \in Int
    BY <1>1, NIsNat DEF Word
  <1>3. Long(regs[5], regs[6]) = Cut(a * b)
    <2>1. regs[5] = 0 /\ regs[6] = Cut(a * b) /\ Cut(a * b) \in Int
      BY <1>2, CutIsWord, NIsNat DEF ProductInv, Word
    <2> QED
      BY <1>2, <2>1 DEF Long
  <1>4. Cut(a * b) = a * b <=> a * b \in Word
    BY <1>2, CutIsWord, CutNear
  <1> DEFINE s == Signed(a) * Signed(b)
  <1>5. Cut(a * b) = Cut(s)
    <2>1. PICK i \in Int : Signed(a) = a - N * i
      <3>1. Signed(a) = a - N * 0 \/ Signed(a) = a - N * 1
        BY <1>1, <1>2, SignedIsInt
      <3> QED
        BY <3>1
    <2>2. PICK j \in Int : Signed(b) = b - N * j
      <3>1. Signed(b) = b - N * 0 \/ Signed(b) = b - N * 1
        BY <1>1, <1>2, SignedIsInt
      <3> QED
        BY <3>1
    <2>3. s = a * b + N * (N * (i * j) - a * j - b * i)
      BY <1>2, <2>1, <2>2
    <2>4. N * (i * j) - a * j - b * i \in Int
      BY <1>2
    <2> QED
      BY <1>2, <2>3, <2>4, CutMultiple
  <1>6. s \in Word => Cut(s) = s
    <2> HIDE DEF s
    <2> QED
      BY CutNear, NIsNat DEF Word
  <1>7. regs[6] = Cut(a * b)
    BY DEF ProductInv
  <1> QED
    BY <1>3, <1>4, <1>5, <1>6, <1>7, Zenon DEF s

(* What is left by a division that truncates is smaller than the divisor   *)
(* and has the sign of the dividend.                                       *)
LEMMA Truncated ==
  ASSUME NEW x \in Int, NEW y \in Int, y # 0
  PROVE  LET r == x - Quotient(x, y) * y
         IN  /\ Quotient(x, y) \in Int /\ r \in Int
             /\ Magnitude(r) < Magnitude(y)
             /\ r # 0 => (r < 0 <=> x < 0)
  <1> DEFINE u == Magnitude(x)
             v == Magnitude(y)
             d == u \div v
             m == u % v
             r == x - Quotient(x, y) * y
  <1>1. /\ u \in Nat /\ v \in Nat \ {0}
        /\ u = IF x < 0 THEN -x ELSE x
        /\ v = IF y < 0 THEN -y ELSE y
    BY DEF Magnitude
  <1>2. Quotient(x, y) = IF (x < 0) = (y < 0) THEN d ELSE -d
    BY DEF Quotient
  <1> HIDE DEF u, v
  <1>3. d \in Int /\ m \in 0..(v - 1) /\ u = v * d + m
    <2>1. u \in Nat /\ v \in Nat \ {0}
      BY <1>1
    <2>2. u \div v \in Int /\ u % v \in 0..(v - 1) /\ u = v * (u \div v) + (u % v)
      BY <2>1, DivisionLeaves
    <2> QED
      BY <2>2
  <1> HIDE DEF d, m
  <1>4. r = IF x < 0 THEN -m ELSE m
    <2>1. CASE x < 0 /\ y < 0
      <3>1. r = x - d * y /\ x = -u /\ y = -v
        BY <1>1, <1>2, <2>1
      <3>2. d * y = -(v * d)
        BY <1>1, <1>3, <3>1
      <3> HIDE DEF r
      <3> QED
        BY <1>1, <1>3, <2>1, <3>1, <3>2
    <2>2. CASE x < 0 /\ ~(y < 0)
      <3>1. r = x - (-d) * y /\ x = -u /\ y = v
        BY <1>1, <1>2, <2>2
      <3>2. (-d) * y = -(v * d)
        BY <1>1, <1>3, <3>1
      <3> HIDE DEF r
      <3> QED
        BY <1>1, <1>3, <2>2, <3>1, <3>2
    <2>3. CASE ~(x < 0) /\ y < 0
      <3>1. r = x - (-d) * y /\ x = u /\ y = -v
        BY <1>1, <1>2, <2>3
      <3>2. (-d) * y = v * d
        BY <1>1, <1>3, <3>1
      <3> HIDE DEF r
      <3> QED
        BY <1>1, <1>3, <2>3, <3>1, <3>2
    <2>4. CASE ~(x < 0) /\ ~(y < 0)
      <3>1. r = x - d * y /\ x = u /\ y = v
        BY <1>1, <1>2, <2>4
      <3>2. d * y = v * d
        BY <1>1, <1>3, <3>1
      <3> HIDE DEF r
      <3> QED
        BY <1>1, <1>3, <2>4, <3>1, <3>2
    <2> QED
      BY <2>1, <2>2, <2>3, <2>4
  <1>5. Quotient(x, y) \in Int
    BY <1>2, <1>3
  <1> HIDE DEF r
  <1>6. r \in Int /\ Magnitude(r) = m
    BY <1>1, <1>3, <1>4 DEF Magnitude
  <1>7. Magnitude(r) < v /\ (r # 0 => (r < 0 <=> x < 0))
    BY <1>1, <1>3, <1>4, <1>6
  <1> QED
    BY <1>5, <1>6, <1>7 DEF r, v

LEMMA DivisionEnds ==
  ASSUME TypeInv, NEW op \in {"div", "divu"}, DivisionInv(op)
  PROVE  /\ pc = 32 =>
              /\ regs[7] = a /\ hi = regs[6] /\ lo = regs[5]
              /\ op = "div" =>
                   /\ Magnitude(Signed(hi)) < Magnitude(Signed(b))
                   /\ hi # 0 => (Signed(hi) < 0 <=> Signed(a) < 0)
              /\ op = "divu" => hi < b
         /\ status = "aborted" => b = 0 \/ Signed(a) = Signed(b) * (N \div 2)
  <1> DEFINE x == Dividend(op)
             y == Divisor(op)
             q == QuotientOf(op)
             r == RemainderOf(op)
  <1>1. a \in Word /\ b \in Word /\ N \in Nat /\ N >= 16 /\ a \in Int /\ b \in Int
    BY Operands, NIsNat DEF a, b, Word
  <1>2. /\ x \in Int /\ y \in Int /\ Cut(x) = a /\ Cut(y) = b
        /\ x = ReadAs(op, a) /\ y = ReadAs(op, b)
    BY <1>1, CutNear, CutOfSigned, SignedIsInt DEF Dividend, Divisor, ReadAs
  <1>3. ASSUME pc = 32
        PROVE  /\ regs[7] = a /\ hi = regs[6] /\ lo = regs[5]
               /\ op = "div" =>
                    /\ Magnitude(Signed(hi)) < Magnitude(Signed(b))
                    /\ hi # 0 => (Signed(hi) < 0 <=> Signed(a) < 0)
               /\ op = "divu" => hi < b
    <2>1. y # 0
      <3>1. b # 0
        BY <1>3 DEF DivisionInv
      <3> QED
        BY <1>1, <1>2, <3>1, SignedIsInt DEF ReadAs
    <2>2. /\ q \in Int /\ r \in Int /\ r = x - q * y
          /\ Magnitude(r) < Magnitude(y) /\ (r # 0 => (r < 0 <=> x < 0))
      BY <1>2, <2>1, Truncated DEF QuotientOf, RemainderOf
    <2>3. /\ hi = Cut(r) /\ lo = Cut(q) /\ regs[5] = Cut(q) /\ regs[6] = Cut(r)
          /\ regs[7] = Cut(Cut(regs[5] * b) + regs[6])
      BY <1>3 DEF DivisionInv
    <2> HIDE DEF x, y, q, r
    <2>4. regs[7] = a
      <3>1. q * y \in Int /\ q * y + r = x /\ b \in Int /\ q * b \in Int /\ Cut(q) \in Int
            /\ Cut(q) * b \in Int
        <4>1. Cut(q) \in Int
          BY <2>2, CutIsWord, NIsNat DEF Word
        <4> QED
          BY <1>1, <1>2, <2>2, <4>1
      <3>2. Cut(Cut(q) * b) = Cut(q * y)
        <4>1. Cut(Cut(q) * b) = Cut(q * b)
          BY <2>2, <3>1, CutInside
        <4>2. Cut(q * Cut(y)) = Cut(q * y)
          BY <1>2, <2>2, CutInside
        <4> QED
          BY <1>2, <4>1, <4>2
      <3>3. Cut(Cut(q * y) + Cut(r)) = Cut(q * y + r)
        <4>1. Cut(q * y) \in Int
          BY <3>1, CutIsWord, NIsNat DEF Word
        <4>2. Cut(Cut(q * y) + Cut(r)) = Cut(Cut(q * y) + r)
          BY <2>2, <4>1, CutInside
        <4>3. Cut(Cut(q * y) + r) = Cut(q * y + r)
          BY <2>2, <3>1, CutInside
        <4> QED
          BY <4>2, <4>3
      <3> QED
        BY <1>2, <2>3, <3>1, <3>2, <3>3
    <2>5. ASSUME op = "div"
          PROVE  /\ Magnitude(Signed(hi)) < Magnitude(Signed(b))
                 /\ hi # 0 => (Signed(hi) < 0 <=> Signed(a) < 0)
      <3>1. x = Signed(a) /\ y = Signed(b)
        BY <1>2, <2>5 DEF ReadAs
      <3>2. -N <= 2 * y /\ 2 * y < N
        BY <1>1, <3>1, SignedIsInt
      <3>3. -N <= 2 * r /\ 2 * r < N
        BY <1>1, <1>2, <2>2, <3>2 DEF Magnitude
      <3>4. Signed(hi) = r
        BY <2>2, <2>3, <3>3, SignedOfCut
      <3>5. hi # 0 => r # 0
        BY <1>1, <2>3, CutNear DEF Word
      <3> QED
        BY <2>2, <3>1, <3>4, <3>5
    <2>6. ASSUME op = "divu" PROVE hi < b
      <3>1. x = a /\ y = b
        BY <1>2, <2>6 DEF ReadAs
      <3>2. 0 <= x /\ 0 < y /\ y < N
        BY <1>1, <2>1, <3>1 DEF Word
      <3>3. 0 <= r /\ r < y
        BY <1>2, <2>2, <3>2 DEF Magnitude
      <3>4. r \in Word
        BY <1>1, <1>2, <2>2, <3>2, <3>3 DEF Word
      <3> QED
        BY <2>2, <2>3, <3>1, <3>3, <3>4, CutNear
    <2> QED
      BY <2>3, <2>4, <2>5, <2>6
  <1>4. ASSUME status = "aborted"
        PROVE  b = 0 \/ Signed(a) = Signed(b) * (N \div 2)
    <2>1. b = 0 \/ (2 * a = N /\ b = N - 1)
      BY <1>4 DEF DivisionInv
    <2>2. CASE 2 * a = N /\ b = N - 1
      <3>1. Signed(a) = a - N /\ Signed(b) = -1 /\ N \div 2 = a
        BY <1>1, <2>2 DEF Signed
      <3> QED
        BY <1>1, <2>2, <3>1
    <2> QED
      BY <2>1, <2>2
  <1> QED
    BY <1>3, <1>4

(* Double words                                                            *)

LEMMA DoubleWord ==
  ASSUME NEW u \in Word, NEW v \in Word, NEW i \in Int
  PROVE  (Long(u, v) + (N * N) * i) % (N * N) = Long(u, v)
  <1> DEFINE m == N * N
             d == Long(u, v)
  <1>1. N \in Nat /\ N > 0 /\ u \in Nat /\ v \in Nat /\ u <= N - 1 /\ v <= N - 1
    BY NIsNat DEF Word
  <1>2. m \in Nat \ {0}
    BY <1>1
  <1>3. d \in 0..(m - 1)
    <2>1. u * N <= (N - 1) * N /\ u * N \in Nat /\ (N - 1) * N = N * N - N
      BY <1>1
    <2> QED
      BY <1>1, <2>1 DEF Long
  <1> HIDE DEF m, d
  <1>4. (m * i + d) % m = d
    BY <1>2, <1>3, DivMod
  <1>5. d + m * i = m * i + d
    BY <1>2, <1>3
  <1> QED
    BY <1>4, <1>5 DEF m, d

LEMMA AddLongEnds ==
  ASSUME TypeInv, AddLongInv, pc = 16
  PROVE  Long(regs[7], regs[5])
           = (Long(given[2], given[1]) + Long(given[4], given[3])) % (N * N)
  <1> DEFINE g2 == given[2]
             g4 == given[4]
             low == Cut(a + b)
             c == IF low < b THEN 1 ELSE 0
  <1>1. /\ a \in Word /\ b \in Word /\ g2 \in Word /\ g4 \in Word
        /\ a \in Int /\ b \in Int /\ g2 \in Int /\ g4 \in Int /\ N \in Nat
    BY Operands, NIsNat DEF a, b, Word
  <1>2. low \in Word /\ low \in Int /\ a + b = low + N * c
    BY <1>1, CarryOfSum, NIsNat DEF Word
  <1>3. regs[5] = low /\ regs[7] = Cut(Cut(g2 + g4) + c)
    BY DEF AddLongInv
  <1>4. c \in Int
    OBVIOUS
  <1>5. Long(given[2], given[1]) + Long(given[4], given[3]) = (g2 * N + a) + (g4 * N + b)
    BY DEF Long, a, b
  <1> HIDE DEF g2, g4, low, c
  <1>6. regs[7] = Cut(g2 + g4 + c)
    BY <1>1, <1>3, <1>4, CutInside
  <1>7. PICK i \in Int : g2 + g4 + c = regs[7] + N * i
    <2> DEFINE sum == g2 + g4 + c
    <2>1. sum \in Int
      BY <1>1, <1>4
    <2> HIDE DEF sum
    <2>2. \E i \in Int : sum = Cut(sum) + N * i
      BY <2>1, CutOf
    <2> QED
      BY <1>6, <2>2 DEF sum
  <1>8. regs[7] \in Word /\ regs[7] \in Int
    BY <1>1, <1>4, <1>6, CutIsWord, NIsNat DEF Word
  <1>9. (g2 * N + a) + (g4 * N + b) = (regs[7] * N + low) + (N * N) * i
    <2>1. (g2 * N + a) + (g4 * N + b) = (g2 + g4) * N + (low + N * c)
      BY <1>1, <1>2
    <2>2. (g2 + g4) * N + (low + N * c) = (g2 + g4 + c) * N + low
      BY <1>1, <1>2, <1>4
    <2>3. (regs[7] + N * i) * N + low = (regs[7] * N + low) + (N * N) * i
      BY <1>1, <1>2, <1>8
    <2> QED
      BY <2>1, <2>2, <2>3, <1>7
  <1>10. (Long(regs[7], low) + (N * N) * i) % (N * N) = Long(regs[7], low)
    BY <1>2, <1>8, DoubleWord
  <1> QED
    BY <1>3, <1>5, <1>9, <1>10 DEF Long

LEMMA SubLongEnds ==
  ASSUME TypeInv, SubLongInv, pc = 16
  PROVE  Long(regs[7], regs[5])
           = (Long(given[2], given[1]) - Long(given[4], given[3])) % (N * N)
  <1> DEFINE g2 == given[2]
             g4 == given[4]
             low == Cut(a - b)
             c == IF a < b THEN 1 ELSE 0
  <1>1. /\ a \in Word /\ b \in Word /\ g2 \in Word /\ g4 \in Word
        /\ a \in Int /\ b \in Int /\ g2 \in Int /\ g4 \in Int /\ N \in Nat
    BY Operands, NIsNat DEF a, b, Word
  <1>2. low \in Word /\ low \in Int /\ a - b = low - N * c
    <2>1. a - b \in Int
      BY <1>1
    <2>2. low \in Word /\ low \in Int
      BY <2>1, CutIsWord, NIsNat DEF Word
    <2>3. CASE a < b
      <3>1. a - b < 0 /\ a - b >= -N
        BY <1>1, <2>3 DEF Word
      <3> QED
        BY <1>1, <2>1, <2>2, <2>3, <3>1, CutNear
    <2>4. CASE ~(a < b)
      <3>1. a - b \in Word
        BY <1>1, <2>4 DEF Word
      <3> QED
        BY <1>1, <2>1, <2>2, <2>4, <3>1, CutNear
    <2> QED
      BY <2>2, <2>3, <2>4
  <1>3. regs[5] = low /\ regs[7] = Cut(Cut(g2 - g4) - c)
    BY DEF SubLongInv
  <1>4. c \in Int
    OBVIOUS
  <1>5. Long(given[2], given[1]) - Long(given[4], given[3]) = (g2 * N + a) - (g4 * N + b)
    BY DEF Long, a, b
  <1> HIDE DEF g2, g4, low, c
  <1>6. regs[7] = Cut(g2 - g4 - c)
    <2>1. g2 - g4 \in Int /\ -c \in Int
      BY <1>1, <1>4
    <2>2. Cut(Cut(g2 - g4) + (-c)) = Cut((g2 - g4) + (-c))
      BY <2>1, CutInside
    <2>3. Cut(g2 - g4) \in Int
      BY <2>1, CutIsWord, NIsNat DEF Word
    <2>4. Cut(g2 - g4) + (-c) = Cut(g2 - g4) - c /\ (g2 - g4) + (-c) = g2 - g4 - c
      BY <1>4, <2>1, <2>3
    <2> QED
      BY <1>3, <2>2, <2>4
  <1>7. PICK i \in Int : g2 - g4 - c = regs[7] + N * i
    <2> DEFINE sum == g2 - g4 - c
    <2>1. sum \in Int
      BY <1>1, <1>4
    <2> HIDE DEF sum
    <2>2. \E i \in Int : sum = Cut(sum) + N * i
      BY <2>1, CutOf
    <2> QED
      BY <1>6, <2>2 DEF sum
  <1>8. regs[7] \in Word /\ regs[7] \in Int
    BY <1>1, <1>4, <1>6, CutIsWord, NIsNat DEF Word
  <1>9. (g2 * N + a) - (g4 * N + b) = (regs[7] * N + low) + (N * N) * i
    <2>1. (g2 * N + a) - (g4 * N + b) = (g2 - g4) * N + (low - N * c)
      BY <1>1, <1>2
    <2>2. (g2 - g4) * N + (low - N * c) = (g2 - g4 - c) * N + low
      BY <1>1, <1>2, <1>4
    <2>3. (regs[7] + N * i) * N + low = (regs[7] * N + low) + (N * N) * i
      BY <1>1, <1>2, <1>8
    <2> QED
      BY <2>1, <2>2, <2>3, <1>7
  <1>10. (Long(regs[7], low) + (N * N) * i) % (N * N) = Long(regs[7], low)
    BY <1>2, <1>8, DoubleWord
  <1> QED
    BY <1>3, <1>5, <1>9, <1>10 DEF Long
-----------------------------------------------------------------------------
(* The theorems                                                            *)

(* Whatever sequence runs, how far it is.                                  *)
Progress ==
  /\ program = AddLong => AddLongInv
  /\ program = SubLong => SubLongInv
  /\ program = Carryless => CarrylessInv
  /\ \A op \in {"div", "divu"} : program = Division(op) => DivisionInv(op)
  /\ program \in {Product("mult"), Product("multu")} => ProductInv
  /\ \A k \in Word : program = Constant(k) => ConstantInv(k)
  /\ program = Compare => CompareInv
  /\ \A k \in 0..(Pow(Half) - 1) :
       /\ program = CompareImm(k) => CompareImmInv(k)
       /\ program = CheckedAddImm(k) => CheckedAddImmInv(k)
  /\ \A k \in 1..(Width - 1) : program = Rotate(k) => RotateInv(k)
  /\ \A k \in {Quarter, Half} : program = Extend(k) => ExtendInv(k)
  /\ program = CheckedAdd => CheckedAddInv
  /\ program = Loop => LoopInv
  /\ program = Least => LeastInv
  /\ program = Absolute => AbsoluteInv
  /\ program = Sign => SignInv
  /\ \A k \in Skips : program = Skip(k) => SkipInv(k)
  /\ program = LowerByte => PartInv(Quarter)
  /\ program = LowerHalf => PartInv(Half)
  /\ program = Halves => HalvesInv

(* Only the divisions divide, so that no other sequence aborts.            *)
LEMMA OnlyDivisionsDivide ==
  ASSUME Library(program), NEW j \in 1..Len(program.code),
         program.code[j].op \in {"div", "divu"}
  PROVE  program \in {Division("div"), Division("divu")}
  <1>1. program # AddLong /\ program # SubLong /\ program # Compare /\ program # CheckedAdd
    <2>1. /\ Len(AddLong.code) = 4
          /\ \A i \in 1..4 : AddLong.code[i].op \in {"addu", "sltu"}
      BY DEF AddLong, P, R
    <2>2. /\ Len(SubLong.code) = 4
          /\ \A i \in 1..4 : SubLong.code[i].op \in {"subu", "sltu"}
      BY DEF SubLong, P, R
    <2>3. /\ Len(Compare.code) = 5
          /\ \A i \in 1..5 : Compare.code[i].op \in {"lui", "addu", "sltu", "slt"}
      BY DEF Compare, P, R, I
    <2>4. /\ Len(CheckedAdd.code) = 3
          /\ \A i \in 1..3 : CheckedAdd.code[i].op \in {"add", "addu", "sltu"}
      BY DEF CheckedAdd, P, R
    <2> QED
      BY <2>1, <2>2, <2>3, <2>4
  <1>2. program # Carryless
    <2> SUFFICES ASSUME program = Carryless PROVE FALSE
      OBVIOUS
    <2>1. Len(program.code) = 8
      BY DEF Carryless, P, R, I
    <2>2. \A i \in 1..8 : program.code[i].op \in {"nor", "or", "addu", "and", "addiu"}
      BY DEF Carryless, P, R, I
    <2> QED
      BY <2>1, <2>2
  <1>3. program # Product("mult") /\ program # Product("multu")
    BY DEF Product, P, R
  <1>4. /\ program # Loop /\ program # Least /\ program # Absolute
        /\ program # Sign
    BY DEF Loop, Least, Absolute, Sign, P, R, I, B
  <1>5. /\ program # LowerByte /\ program # LowerHalf /\ program # Halves
        /\ program # Extend(Quarter) /\ program # Extend(Half)
    <2>1. program # LowerByte /\ program # LowerHalf /\ program # Halves
      BY DEF LowerByte, LowerHalf, Halves, P, R, I, B, Sh
    <2>2. program # Extend(Quarter)
      BY SMTT(20) DEF Extend, P, R, I, B, Sh
    <2>3. program # Extend(Half)
      BY SMTT(20) DEF Extend, P, R, I, B, Sh
    <2> QED
      BY <2>1, <2>2, <2>3
  <1>6. \A k \in 1..(Width - 1) : program # Rotate(k)
    <2> SUFFICES ASSUME NEW k \in 1..(Width - 1), program = Rotate(k) PROVE FALSE
      OBVIOUS
    <2>1. Len(program.code) = 6
      BY DEF Rotate, P, R, I, Sh
    <2>2. \A i \in 1..6 : program.code[i].op \in {"sll", "srl", "or", "addiu", "sllv"}
      BY DEF Rotate, P, R, I, Sh
    <2> QED
      BY <2>1, <2>2
  <1>7. \A k \in 0..(Pow(Half) - 1) : program # CompareImm(k) /\ program # CheckedAddImm(k)
    BY DEF CompareImm, CheckedAddImm, P, R, I
  <1>8. ASSUME NEW k \in 0..(Pow(Half) - 1), k > 0, program = Skip(k)
        PROVE  FALSE
    <2>1. k \in Nat \ {0}
      BY <1>8, Sizes
    <2> DEFINE skip == Skip(k)
    <2>2. /\ Len(skip.code) = k + 1 /\ skip.code[1] = B("beq", 0, 0, k)
          /\ \A i \in 2..(k + 1) : skip.code[i] = I("addiu", 5, 5, 1)
      BY <2>1, SkipCode
    <2> HIDE DEF skip
    <2>3. program = skip
      BY <1>8 DEF skip
    <2>4. j \in 1..(k + 1) /\ (j = 1 \/ j \in 2..(k + 1))
      BY <2>1, <2>2, <2>3
    <2>5. B("beq", 0, 0, k).op = "beq" /\ I("addiu", 5, 5, 1).op = "addiu"
      BY DEF B, I
    <2> QED
      BY <2>2, <2>3, <2>4, <2>5
  <1>9. \A k \in Word : program # Constant(k)
    <2> SUFFICES ASSUME NEW k \in Word, program = Constant(k) PROVE FALSE
      OBVIOUS
    <2>1. Len(program.code) = 4
      BY DEF Constant, P
    <2>2. \A i \in 1..4 : program.code[i].op \in {"lui", "ori", "addiu"}
      BY DEF Constant, P, I
    <2> QED
      BY <2>1, <2>2
  <1> QED
    BY <1>1, <1>2, <1>3, <1>4, <1>5, <1>6, <1>7, <1>8, <1>9 DEF Library

Aborts == status = "aborted" => program \in {Division("div"), Division("divu")}

LEMMA AbortsStep ==
  ASSUME TypeInv, Library(program), Next
  PROVE  Aborts'
  <1> SUFFICES ASSUME status' = "aborted"
               PROVE  program \in {Division("div"), Division("divu")}
    BY Fixed DEF Aborts
  <1>1. status = "running" /\ pc < 4 * Len(program.code)
    BY Fixed
  <1>2. \/ Add \/ ins.op \in {"div", "divu"}
        \/ UNCHANGED status
    BY DEF Next, ShiftLeft, ShiftRight, Arithmetic, Logic, SetOnLess, LoadUpper, MoveFrom,
       MoveTo, Multiply, Divide, Branch, Load, Store, Writes, Advance
  <1>3. Add => status' \in {"exited", status}
    BY DEF Add, Writes, Advance
  <1>4. ins.op \in {"div", "divu"}
    BY <1>1, <1>2, <1>3
  <1>5. pc \div 4 + 1 \in 1..Len(program.code)
    BY <1>1, Fetched
  <1> QED
    BY <1>4, <1>5, OnlyDivisionsDivide DEF ins

IdiomsInv == TypeInv /\ Library(program) /\ Progress /\ Aborts

LEMMA InitProgress ==
  ASSUME Init, TypeInv
  PROVE  Progress
  <1>1. Straight /\ pc = 0 /\ status = "running" /\ regs = given /\ regs[0] = 0
    BY Starting
  <1>2. \A r \in 1..4 : regs[r] = given[r]
    BY <1>1
  <1>3. /\ AddLongInv /\ SubLongInv /\ CarrylessInv /\ ProductInv /\ CompareInv
        /\ CheckedAddInv
    BY <1>1, <1>2 DEF AddLongInv, SubLongInv, CarrylessInv, ProductInv, CompareInv,
       CheckedAddInv, a, b
  <1>4. \A op \in {"div", "divu"} : DivisionInv(op)
    BY <1>1, <1>2 DEF DivisionInv, a, b
  <1>5. \A k : ConstantInv(k) /\ CompareImmInv(k) /\ CheckedAddImmInv(k) /\ RotateInv(k)
    BY <1>1, <1>2 DEF ConstantInv, CompareImmInv, CheckedAddImmInv, RotateInv, a
  <1>6. npc = 4
    BY DEF Init
  <1>7. LoopInv /\ LeastInv /\ AbsoluteInv /\ SignInv /\ HalvesInv
    BY <1>1, <1>2, <1>6 DEF LoopInv, LeastInv, AbsoluteInv, SignInv, HalvesInv, a, b
  <1>8. \A k : SkipInv(k) /\ PartInv(k) /\ ExtendInv(k)
    BY <1>1, <1>2, <1>6 DEF SkipInv, PartInv, ExtendInv, a
  <1> QED
    BY <1>3, <1>4, <1>5, <1>7, <1>8 DEF Progress

LEMMA NextProgress ==
  ASSUME TypeInv, Progress, Next
  PROVE  Progress'
  <1>1. program' = program
    BY Fixed
  <1>2. program = AddLong => AddLongInv'
    BY AddLongStep DEF Progress
  <1>3. program = SubLong => SubLongInv'
    BY SubLongStep DEF Progress
  <1>4. program = Carryless => CarrylessInv'
    BY CarrylessStep DEF Progress
  <1>5. \A op \in {"div", "divu"} : program = Division(op) => DivisionInv(op)'
    BY DivisionStep DEF Progress
  <1>6. program \in {Product("mult"), Product("multu")} => ProductInv'
    BY ProductStep DEF Progress
  <1>7. \A k \in Word : program = Constant(k) => ConstantInv(k)'
    BY ConstantStep DEF Progress
  <1>8. program = Compare => CompareInv'
    BY CompareStep DEF Progress
  <1>9. \A k \in 0..(Pow(Half) - 1) : program = CompareImm(k) => CompareImmInv(k)'
    BY CompareImmStep DEF Progress
  <1>10. \A k \in 0..(Pow(Half) - 1) : program = CheckedAddImm(k) => CheckedAddImmInv(k)'
    BY CheckedAddImmStep DEF Progress
  <1>11. \A k \in 1..(Width - 1) : program = Rotate(k) => RotateInv(k)'
    BY RotateStep DEF Progress
  <1>12. program = CheckedAdd => CheckedAddInv'
    BY CheckedAddStep DEF Progress
  <1>13. /\ program = Loop => LoopInv'
         /\ program = Least => LeastInv'
         /\ program = Absolute => AbsoluteInv'
         /\ program = Sign => SignInv'
    BY LoopStep, LeastStep, AbsoluteStep, SignStep DEF Progress
  <1>14. \A k \in Skips : program = Skip(k) => SkipInv(k)'
    BY SkipStep DEF Progress
  <1>15. /\ program = LowerByte => PartInv(Quarter)'
         /\ program = LowerHalf => PartInv(Half)'
    BY PartStep DEF Progress
  <1>16. program = Halves => HalvesInv'
    BY HalvesStep DEF Progress
  <1>17. \A k \in {Quarter, Half} : program = Extend(k) => ExtendInv(k)'
    BY ExtendStep DEF Progress
  <1> QED
    BY <1>1, <1>2, <1>3, <1>4, <1>5, <1>6, <1>7, <1>8, <1>9, <1>10, <1>11, <1>12,
       <1>13, <1>14, <1>15, <1>16, <1>17
       DEF Progress

(* How far each sequence is determines the registers, at every step.       *)
THEOREM IdiomsProgress == Spec => []IdiomsInv
  <1>1. Init => Library(program) /\ Aborts
    BY Starting DEF Aborts
  <1>2. Init /\ TypeInv => Progress
    BY InitProgress
  <1>3. TypeInv /\ IdiomsInv /\ [Next]_vars => Library(program)' /\ Progress' /\ Aborts'
    <2> SUFFICES ASSUME TypeInv, IdiomsInv, [Next]_vars
                 PROVE  Library(program)' /\ Progress' /\ Aborts'
      OBVIOUS
    <2>1. CASE Next
      <3>1. program' = program
        BY <2>1, Fixed
      <3>2. Library(program)'
        BY <3>1 DEF IdiomsInv, Library
      <3> QED
        BY <2>1, <3>2, NextProgress, AbortsStep DEF IdiomsInv
    <2>2. CASE UNCHANGED vars
      <3>1. Library(program)'
        BY <2>2 DEF IdiomsInv, Library, vars
      <3>2. UNCHANGED <<program, a, b, Straight>>
        BY <2>2 DEF vars, a, b, Straight
      <3>3. /\ AddLongInv => AddLongInv'
            /\ SubLongInv => SubLongInv'
            /\ CarrylessInv => CarrylessInv'
            /\ ProductInv => ProductInv'
            /\ CompareInv => CompareInv'
            /\ CheckedAddInv => CheckedAddInv'
        BY <2>2, <3>2 DEF vars, AddLongInv, SubLongInv, CarrylessInv, ProductInv,
           CompareInv, CheckedAddInv
      <3>4. \A op : DivisionInv(op) => DivisionInv(op)'
        BY <2>2, <3>2 DEF vars, DivisionInv, QuotientOf, RemainderOf, Dividend, Divisor
      <3>5. /\ \A k : ConstantInv(k) => ConstantInv(k)'
            /\ \A k : CompareImmInv(k) => CompareImmInv(k)'
            /\ \A k : CheckedAddImmInv(k) => CheckedAddImmInv(k)'
            /\ \A k : RotateInv(k) => RotateInv(k)'
            /\ \A k : ExtendInv(k) => ExtendInv(k)'
        BY <2>2, <3>2 DEF vars, ConstantInv, CompareImmInv, CheckedAddImmInv, RotateInv,
           Rotated, ExtendInv
      <3>6. /\ LoopInv => LoopInv'
            /\ LeastInv => LeastInv'
            /\ AbsoluteInv => AbsoluteInv'
            /\ SignInv => SignInv'
            /\ \A k : SkipInv(k) => SkipInv(k)'
        BY <2>2, <3>2 DEF vars, LoopInv, LeastInv, AbsoluteInv, SignInv, SkipInv
      <3>7. /\ \A k : PartInv(k) => PartInv(k)'
            /\ HalvesInv => HalvesInv'
        BY <2>2, <3>2 DEF vars, PartInv, Stored, HalvesInv, TwoBytes, UpperHalf, LowerPart
      <3>8. Progress'
        <4>1. program' = program /\ Progress
          BY <3>2 DEF IdiomsInv
        <4>2. /\ program = AddLong => AddLongInv'
              /\ program = SubLong => SubLongInv'
              /\ program = Carryless => CarrylessInv'
              /\ program \in {Product("mult"), Product("multu")} => ProductInv'
              /\ program = Compare => CompareInv'
              /\ program = CheckedAdd => CheckedAddInv'
          BY <3>3, <4>1 DEF Progress
        <4>3. \A op \in {"div", "divu"} : program = Division(op) => DivisionInv(op)'
          BY <3>4, <4>1 DEF Progress
        <4>4. \A k \in Word : program = Constant(k) => ConstantInv(k)'
          BY <3>5, <4>1 DEF Progress
        <4>5. \A k \in 0..(Pow(Half) - 1) :
                /\ program = CompareImm(k) => CompareImmInv(k)'
                /\ program = CheckedAddImm(k) => CheckedAddImmInv(k)'
          BY <3>5, <4>1 DEF Progress
        <4>6. /\ \A k \in 1..(Width - 1) : program = Rotate(k) => RotateInv(k)'
              /\ \A k \in {Quarter, Half} : program = Extend(k) => ExtendInv(k)'
          BY <3>5, <4>1 DEF Progress
        <4>7. /\ program = Loop => LoopInv'
              /\ program = Least => LeastInv'
              /\ program = Absolute => AbsoluteInv'
              /\ program = Sign => SignInv'
              /\ \A k \in Skips : program = Skip(k) => SkipInv(k)'
          BY <3>6, <4>1 DEF Progress
        <4>8. /\ program = LowerByte => PartInv(Quarter)'
              /\ program = LowerHalf => PartInv(Half)'
              /\ program = Halves => HalvesInv'
          BY <3>7, <4>1 DEF Progress
        <4> QED
          BY <4>1, <4>2, <4>3, <4>4, <4>5, <4>6, <4>7, <4>8 DEF Progress
      <3>9. Aborts'
        BY <2>2 DEF IdiomsInv, Aborts, vars
      <3> QED
        BY <3>1, <3>8, <3>9
    <2> QED
      BY <2>1, <2>2
  <1>4. Spec => []TypeInv
    BY AluTypes, PTL
  <1> QED
    BY <1>1, <1>2, <1>3, <1>4, PTL DEF Spec, IdiomsInv

(* The name and the parameter of each sequence.                            *)
LEMMA NamesOfFixed ==
  /\ AddLong.name = "addLong"
  /\ SubLong.name = "subLong"
  /\ Carryless.name = "carryless"
  /\ Compare.name = "compare"
  /\ Loop.name = "loop"
  /\ Least.name = "least"
  /\ Absolute.name = "absolute"
  /\ Sign.name = "sign"
  /\ LowerByte.name = "byte"
  /\ LowerHalf.name = "half"
  /\ Halves.name = "halves"
  /\ CheckedAdd.name = "add"
  BY DEF AddLong, SubLong, Carryless, Compare, Loop, Least, Absolute, Sign, LowerByte, LowerHalf, Halves, CheckedAdd, P

LEMMA NamesOfFamilies ==
  ASSUME NEW k
  PROVE  /\ Division(k).name = k /\ Product(k).name = k
         /\ Constant(k).name = "constant" /\ Constant(k).k = k
         /\ Rotate(k).name = "rotate" /\ Rotate(k).k = k
         /\ CompareImm(k).name = "compareImm" /\ CompareImm(k).k = k
         /\ CheckedAddImm(k).name = "addi" /\ CheckedAddImm(k).k = k
         /\ Skip(k).name = "skip" /\ Skip(k).k = k
         /\ Extend(k).name = "extend" /\ Extend(k).k = k
  BY DEF Division, Product, Constant, Rotate, CompareImm, CheckedAddImm, Skip, Extend, P

(* The sequence that a name stands for.                                    *)
LEMMA Named ==
  ASSUME Library(program)
  PROVE  /\ program.name = "addLong" => program = AddLong
         /\ program.name = "subLong" => program = SubLong
         /\ program.name = "carryless" => program = Carryless
         /\ program.name = "div" => program = Division("div")
         /\ program.name = "divu" => program = Division("divu")
         /\ program.name = "mult" => program = Product("mult")
         /\ program.name = "multu" => program = Product("multu")
         /\ program.name = "compare" => program = Compare
         /\ program.name = "add" => program = CheckedAdd
         /\ program.name = "loop" => program = Loop
         /\ program.name = "least" => program = Least
         /\ program.name = "absolute" => program = Absolute
         /\ program.name = "sign" => program = Sign
         /\ program.name = "byte" => program = LowerByte
         /\ program.name = "half" => program = LowerHalf
         /\ program.name = "halves" => program = Halves
  BY NamesOfFixed, NamesOfFamilies DEF Library

LEMMA NamedOfSome ==
  ASSUME Library(program)
  PROVE  /\ program.name = "constant" => \E k \in Word : program = Constant(k)
         /\ program.name = "rotate" => \E k \in 1..(Width - 1) : program = Rotate(k)
         /\ program.name = "compareImm" =>
              \E k \in 0..(Pow(Half) - 1) : program = CompareImm(k)
         /\ program.name = "addi" =>
              \E k \in 0..(Pow(Half) - 1) : program = CheckedAddImm(k)
         /\ program.name = "skip" => \E k \in Skips : program = Skip(k)
         /\ program.name = "extend" => \E k \in {Quarter, Half} : program = Extend(k)
  BY NamesOfFixed, NamesOfFamilies DEF Library, Skips

(* Where the sequences end.                                                *)
LEMMA LengthsOfFixed ==
  /\ Len(AddLong.code) = 4 /\ Len(SubLong.code) = 4 /\ Len(Carryless.code) = 8
  /\ Len(Compare.code) = 5 /\ Len(CheckedAdd.code) = 3
  /\ Len(Loop.code) = 5 /\ Len(Least.code) = 4
  /\ Len(Absolute.code) = 3 /\ Len(Sign.code) = 5
  /\ Len(LowerByte.code) = 6 /\ Len(LowerHalf.code) = 6 /\ Len(Halves.code) = 6
  BY DEF AddLong, SubLong, Carryless, Compare, CheckedAdd, Loop, Least, Absolute, Sign,
         LowerByte, LowerHalf, Halves, P

LEMMA LengthsOfFamilies ==
  ASSUME NEW k
  PROVE  /\ Len(Division(k).code) = 8 /\ Len(Product(k).code) = 3
         /\ Len(Constant(k).code) = 4 /\ Len(Rotate(k).code) = 6
         /\ Len(CompareImm(k).code) = 5 /\ Len(CheckedAddImm(k).code) = 2
         /\ Len(Extend(k).code) = 4
  BY DEF Division, Product, Constant, Rotate, CompareImm, CheckedAddImm, Extend, P

(* At the end of the code for long sums and differences, the double words  *)
(* of the registers are the sum and the difference, for every operand:     *)
(* SLTU tells the carry of ADDU and the borrow of SUBU, and the bitwise    *)
(* instructions agree with ADDU.                                           *)
THEOREM SumsHold == Spec => []Sums
  <1>1. IdiomsInv => Sums
    <2> SUFFICES ASSUME IdiomsInv PROVE Sums
      OBVIOUS
    <2>1. TypeInv /\ Library(program) /\ Progress
      BY DEF IdiomsInv
    <2>2. ASSUME Finished({"addLong"})
          PROVE  Long(regs[7], regs[5])
                   = (Long(given[2], given[1]) + Long(given[4], given[3])) % (N * N)
      <3>1. program = AddLong
        BY <2>1, <2>2, Named DEF Finished
      <3>2. pc = 16 /\ AddLongInv
        BY <2>1, <2>2, <3>1, LengthsOfFixed DEF Finished, Ended, Progress
      <3> QED
        BY <2>1, <3>2, AddLongEnds
    <2>3. ASSUME Finished({"subLong"})
          PROVE  Long(regs[7], regs[5])
                   = (Long(given[2], given[1]) - Long(given[4], given[3])) % (N * N)
      <3>1. program = SubLong
        BY <2>1, <2>3, Named DEF Finished
      <3>2. pc = 16 /\ SubLongInv
        BY <2>1, <2>3, <3>1, LengthsOfFixed DEF Finished, Ended, Progress
      <3> QED
        BY <2>1, <3>2, SubLongEnds
    <2>4. ASSUME Finished({"carryless"})
          PROVE  regs[7] = Cut(a + b) /\ regs[2] = regs[7] /\ regs[5] = Cut(-a)
      <3>1. program = Carryless
        BY <2>1, <2>4, Named DEF Finished
      <3>2. pc = 32 /\ CarrylessInv
        BY <2>1, <2>4, <3>1, LengthsOfFixed DEF Finished, Ended, Progress
      <3> QED
        BY <3>2 DEF CarrylessInv
    <2> QED
      BY <2>2, <2>3, <2>4 DEF Sums
  <1> QED
    BY <1>1, IdiomsProgress, PTL

(* DIV and DIVU give a quotient and a remainder that put the dividend      *)
(* together again, with the signs of a truncating division, and the        *)
(* process aborts only where there is no such quotient in a word.          *)
THEOREM DivisionsHold == Spec => []DivisionIdentity
  <1>1. IdiomsInv => DivisionIdentity
    <2> SUFFICES ASSUME IdiomsInv PROVE DivisionIdentity
      OBVIOUS
    <2>1. TypeInv /\ Library(program) /\ Progress /\ Aborts
      BY DEF IdiomsInv
    <2>2. ASSUME NEW op \in {"div", "divu"}, program = Division(op)
          PROVE  DivisionInv(op) /\ program.name = op /\ (Ended <=> pc = 32)
      <3>1. Len(program.code) = 8 /\ program.name = op
        BY <2>2, NamesOfFamilies, LengthsOfFamilies
      <3>2. Ended <=> pc = 32
        BY <3>1 DEF Ended
      <3> QED
        BY <2>1, <2>2, <3>1, <3>2 DEF Progress
    <2>3. ASSUME NEW op \in {"div", "divu"}, Finished({op})
          PROVE  /\ regs[7] = a /\ hi = regs[6] /\ lo = regs[5]
                 /\ op = "div" =>
                      /\ Magnitude(Signed(hi)) < Magnitude(Signed(b))
                      /\ hi # 0 => (Signed(hi) < 0 <=> Signed(a) < 0)
                 /\ op = "divu" => hi < b
      <3>1. program = Division(op)
        BY <2>1, <2>3, Named DEF Finished
      <3>2. DivisionInv(op) /\ pc = 32
        BY <2>2, <2>3, <3>1 DEF Finished
      <3> QED
        BY <2>1, <3>2, DivisionEnds
    <2>4. ASSUME status = "aborted"
          PROVE  b = 0 \/ Signed(a) = Signed(b) * (N \div 2)
      <3>1. PICK op \in {"div", "divu"} : program = Division(op)
        BY <2>1, <2>4 DEF Aborts
      <3> QED
        BY <2>1, <2>2, <2>4, <3>1, DivisionEnds
    <2> QED
      BY <2>3, <2>4 DEF DivisionIdentity, Finished
  <1> QED
    BY <1>1, IdiomsProgress, PTL

(* MULT and MULTU give the lower word of the product of the signed and of  *)
(* the unsigned words, and the whole product where that is a word.         *)
THEOREM ProductsHold == Spec => []ProductOfOneWord
  <1>1. IdiomsInv => ProductOfOneWord
    <2> SUFFICES ASSUME IdiomsInv PROVE ProductOfOneWord
      OBVIOUS
    <2>1. TypeInv /\ Library(program) /\ Progress
      BY DEF IdiomsInv
    <2>2. ASSUME Finished({"mult", "multu"})
          PROVE  pc = 12 /\ ProductInv
      <3>1. program \in {Product("mult"), Product("multu")}
        BY <2>1, <2>2, Named DEF Finished
      <3>2. Len(program.code) = 3
        BY <3>1, LengthsOfFamilies
      <3>3. pc = 12
        BY <2>2, <3>2 DEF Finished, Ended
      <3> QED
        BY <2>1, <3>1, <3>3 DEF Progress
    <2> QED
      BY <2>1, <2>2, ProductEnds DEF ProductOfOneWord, Finished
  <1> QED
    BY <1>1, IdiomsProgress, PTL

(* LUI and ORI, and LUI and ADDIU with the upper half corrected for the    *)
(* sign of the lower one, both build every word.                           *)
THEOREM ConstantsHold == Spec => []Constants
  <1>1. IdiomsInv => Constants
    <2> SUFFICES ASSUME IdiomsInv, Finished({"constant"})
                 PROVE  regs[5] = program.k /\ regs[6] = program.k
      BY DEF Constants
    <2>1. PICK k \in Word : program = Constant(k)
      BY NamedOfSome DEF IdiomsInv, Finished
    <2>2. ConstantInv(k)
      BY <2>1 DEF IdiomsInv, Progress
    <2>3. Len(program.code) = 4 /\ program.k = k
      BY <2>1, LengthsOfFamilies, NamesOfFamilies
    <2>4. pc = 16
      BY <2>3 DEF Finished, Ended
    <2> QED
      BY <2>2, <2>3, <2>4 DEF ConstantInv
  <1> QED
    BY <1>1, IdiomsProgress, PTL

(* SLT orders words as signed numbers, as SLTU does after moving both by   *)
(* half the range; and every immediate is compared as the word it is sign  *)
(* extended to, by SLTI and by SLTIU.                                      *)
THEOREM ComparisonsHold == Spec => []Comparisons
  <1>1. IdiomsInv => Comparisons
    <2> SUFFICES ASSUME IdiomsInv PROVE Comparisons
      OBVIOUS
    <2>1. TypeInv /\ Library(program) /\ Progress
      BY DEF IdiomsInv
    <2>2. ASSUME Finished({"compare"})
          PROVE  regs[2] = regs[7] /\ (regs[2] = 1 <=> Signed(a) < Signed(b))
      <3>1. program = Compare
        BY <2>1, <2>2, Named DEF Finished
      <3>2. pc = 20 /\ CompareInv
        BY <2>1, <2>2, <3>1, LengthsOfFixed DEF Finished, Ended, Progress
      <3> QED
        BY <2>1, <3>2, CompareEnds
    <2>3. ASSUME Finished({"compareImm"})
          PROVE  regs[6] = regs[5] /\ regs[7] = regs[2]
      <3>1. PICK k \in 0..(Pow(Half) - 1) : program = CompareImm(k)
        BY <2>1, <2>3, NamedOfSome DEF Finished
      <3>2. CompareImmInv(k)
        BY <2>1, <3>1 DEF Progress
      <3>3. Len(program.code) = 5
        BY <3>1, LengthsOfFamilies
      <3>4. pc = 20
        BY <2>3, <3>3 DEF Finished, Ended
      <3> QED
        BY <3>2, <3>4 DEF CompareImmInv
    <2> QED
      BY <2>2, <2>3 DEF Comparisons
  <1> QED
    BY <1>1, IdiomsProgress, PTL

(* A left and a right shift put a word together rotated, with a fixed left *)
(* shift and with a variable one, whose amount has bits that do not count. *)
THEOREM RotationsHold == Spec => []Rotations
  <1>1. IdiomsInv => Rotations
    <2> SUFFICES ASSUME IdiomsInv, Finished({"rotate"})
                 PROVE  regs[7] = Rotated(program.k) /\ regs[2] = Rotated(program.k)
      BY DEF Rotations, Rotated
    <2>1. PICK k \in 1..(Width - 1) : program = Rotate(k)
      BY NamedOfSome DEF IdiomsInv, Finished
    <2>2. RotateInv(k)
      BY <2>1 DEF IdiomsInv, Progress
    <2>3. Len(program.code) = 6 /\ program.k = k
      BY <2>1, LengthsOfFamilies, NamesOfFamilies
    <2>4. pc = 24
      BY <2>3 DEF Finished, Ended
    <2> QED
      BY <2>2, <2>3, <2>4 DEF RotateInv
  <1> QED
    BY <1>1, IdiomsProgress, PTL

(* ADD and ADDI never refuse a sum that is a word both as a signed and as  *)
(* an unsigned number, never let one through that is neither, and give     *)
(* what ADDU and ADDIU give otherwise.                                     *)
THEOREM CheckedSumsHold == Spec => []CheckedSums
  <1>1. IdiomsInv => CheckedSums
    <2> SUFFICES ASSUME IdiomsInv PROVE CheckedSums
      OBVIOUS
    <2>1. TypeInv /\ Library(program) /\ Progress
      BY DEF IdiomsInv
    <2>2. ASSUME program.name = "add"
          PROVE  /\ status = "exited" => regs[6] = 1
                 /\ Ended => regs[6] # 1 /\ regs[7] = regs[5]
      <3>1. program = CheckedAdd
        BY <2>1, <2>2, Named
      <3>2. CheckedAddInv /\ (Ended => pc = 12)
        BY <2>1, <3>1, LengthsOfFixed DEF Ended, Progress
      <3> QED
        BY <2>1, <3>2, CheckedAddEnds
    <2>3. ASSUME program.name = "addi"
          PROVE  LET wrapped == IF program.k < Pow(Half - 1) THEN regs[5] < a
                                                              ELSE regs[5] > a
                 IN  /\ status = "exited" => wrapped
                     /\ Ended => ~wrapped /\ regs[7] = regs[5]
      <3>1. PICK k \in 0..(Pow(Half) - 1) : program = CheckedAddImm(k)
        BY <2>1, <2>3, NamedOfSome
      <3>2. CheckedAddImmInv(k)
        BY <2>1, <3>1 DEF Progress
      <3>3. Len(program.code) = 2 /\ program.k = k
        BY <3>1, LengthsOfFamilies, NamesOfFamilies
      <3>4. Ended => pc = 8
        BY <3>3 DEF Ended
      <3> QED
        BY <2>1, <3>2, <3>3, <3>4, CheckedAddImmEnds
    <2>4. CASE program.name = "add"
      BY <2>2, <2>4, Zenon DEF CheckedSums, Finished
    <2>5. CASE program.name = "addi"
      BY <2>3, <2>5, Zenon DEF CheckedSums, Finished
    <2>6. CASE program.name \notin {"add", "addi"}
      BY <2>6 DEF CheckedSums, Finished
    <2> QED
      BY <2>4, <2>5, <2>6
  <1> QED
    BY <1>1, IdiomsProgress, PTL

(* Branches, backward and forward and each with its delay slot, make a     *)
(* loop that multiplies, the least and the absolute of signed words and    *)
(* their sign; and a skip lands where it says, as far as the byte offset   *)
(* is a positive immediate.                                                *)
THEOREM BranchesHold == Spec => []Branches
  <1>1. IdiomsInv => Branches
    <2> SUFFICES ASSUME IdiomsInv PROVE Branches
      OBVIOUS
    <2>1. TypeInv /\ Library(program) /\ Progress
      BY DEF IdiomsInv
    <2>2. Finished({"loop"}) =>
            regs[5] = IF Signed(a) <= 0 THEN 0 ELSE Cut(Signed(a) * b)
      <3> SUFFICES ASSUME Finished({"loop"})
                   PROVE  regs[5] = IF Signed(a) <= 0 THEN 0 ELSE Cut(Signed(a) * b)
        OBVIOUS
      <3>1. program = Loop
        BY <2>1, Named DEF Finished
      <3>2. pc = 20 /\ LoopInv
        BY <2>1, <3>1, LengthsOfFixed DEF Finished, Ended, Progress
      <3> QED
        BY <3>2 DEF LoopInv
    <2>3. Finished({"least"}) => regs[5] = IF Signed(a) < Signed(b) THEN a ELSE b
      <3> SUFFICES ASSUME Finished({"least"})
                   PROVE  regs[5] = IF Signed(a) < Signed(b) THEN a ELSE b
        OBVIOUS
      <3>1. program = Least
        BY <2>1, Named DEF Finished
      <3>2. pc = 16 /\ LeastInv
        BY <2>1, <3>1, LengthsOfFixed DEF Finished, Ended, Progress
      <3> QED
        BY <3>2 DEF LeastInv
    <2>4. Finished({"absolute"}) => regs[5] = Magnitude(Signed(a))
      <3> SUFFICES ASSUME Finished({"absolute"})
                   PROVE  regs[5] = Magnitude(Signed(a))
        OBVIOUS
      <3>1. program = Absolute
        BY <2>1, Named DEF Finished
      <3>2. pc = 12 /\ AbsoluteInv
        BY <2>1, <3>1, LengthsOfFixed DEF Finished, Ended, Progress
      <3> QED
        BY <3>2 DEF AbsoluteInv
    <2>5. Finished({"sign"}) =>
            regs[5] = IF Signed(a) < 0 THEN N - 1 ELSE IF a = 0 THEN 0 ELSE 1
      <3> SUFFICES ASSUME Finished({"sign"})
                   PROVE  regs[5] = IF Signed(a) < 0 THEN N - 1 ELSE IF a = 0 THEN 0 ELSE 1
        OBVIOUS
      <3>1. program = Sign
        BY <2>1, Named DEF Finished
      <3>2. pc = 20 /\ SignInv
        BY <2>1, <3>1, LengthsOfFixed DEF Finished, Ended, Progress
      <3> QED
        BY <3>2 DEF SignInv
    <2>6. Finished({"skip"}) => regs[5] = Cut(given[5] + 1)
      <3> SUFFICES ASSUME Finished({"skip"}) PROVE regs[5] = Cut(given[5] + 1)
        OBVIOUS
      <3>1. PICK k \in Skips : program = Skip(k)
        BY <2>1, NamedOfSome DEF Finished
      <3>2. k \in Nat \ {0}
        BY Sizes DEF Skips
      <3>3. SkipInv(k) /\ pc = 4 * (k + 1)
        BY <2>1, <3>1, <3>2, SkipCode DEF Finished, Ended, Progress
      <3> QED
        BY <3>2, <3>3 DEF SkipInv
    <2> QED
      BY <2>2, <2>3, <2>4, <2>5, <2>6 DEF Branches
  <1> QED
    BY <1>1, IdiomsProgress, PTL

(* A byte and a halfword come back from memory as they were stored, with   *)
(* the sign that LB and LH extend and without it; SLL and SRL, and ANDI,   *)
(* give them without; a word that is stored is its two halves; and SRA and *)
(* SRAV agree, keep the bits that remain and add none to a part that is    *)
(* not negative.                                                           *)
THEOREM PartsHold == Spec => []Parts
  <1>1. IdiomsInv => Parts
    <2> SUFFICES ASSUME IdiomsInv PROVE Parts
      OBVIOUS
    <2>1. TypeInv /\ Library(program) /\ Progress
      BY DEF IdiomsInv
    <2>2. ASSUME Finished({"byte", "half"})
          PROVE  /\ regs[6] = a % Pow(program.k)
                 /\ regs[2] = regs[6] /\ regs[7] = regs[6]
                 /\ Signed(regs[5]) = IF 2 * regs[6] < Pow(program.k) THEN regs[6]
                                      ELSE regs[6] - Pow(program.k)
      <3>1. \/ program = LowerByte /\ program.k = Quarter
            \/ program = LowerHalf /\ program.k = Half
        BY <2>1, <2>2, Named DEF Finished, LowerByte, LowerHalf, P
      <3>2. PICK k \in {Quarter, Half} : program.k = k /\ PartInv(k)
        BY <2>1, <3>1 DEF Progress
      <3>3. pc = 24
        <4>1. Len(program.code) = 6
          BY <3>1, LengthsOfFixed
        <4> QED
          BY <2>2, <4>1 DEF Finished, Ended
      <3>4. /\ regs[5] = Sx(a % Pow(k), k) /\ regs[6] = a % Pow(k)
            /\ regs[7] = regs[6] /\ regs[2] = regs[6]
        BY <3>2, <3>3 DEF PartInv
      <3>5. a \in Word
        BY <2>1, Operands DEF a
      <3> QED
        BY <3>2, <3>4, <3>5, LowerBits
    <2>3. ASSUME Finished({"halves"}) PROVE regs[7] = a /\ regs[2] = a
      <3>1. program = Halves
        BY <2>1, <2>3, Named DEF Finished
      <3>2. pc = 24 /\ HalvesInv
        BY <2>1, <2>3, <3>1, LengthsOfFixed DEF Finished, Ended, Progress
      <3> QED
        BY <3>2 DEF HalvesInv
    <2>4. ASSUME Finished({"extend"})
          PROVE  LET low == a % Pow(program.k)
                 IN  /\ regs[7] = regs[6] /\ regs[6] % Pow(program.k) = low
                     /\ 2 * low < Pow(program.k) => regs[6] = low
      <3>1. PICK k \in {Quarter, Half} : program = Extend(k)
        BY <2>1, <2>4, NamedOfSome DEF Finished
      <3>2. ExtendInv(k)
        BY <2>1, <3>1 DEF Progress
      <3>3. Len(program.code) = 4 /\ program.k = k
        BY <3>1, LengthsOfFamilies, NamesOfFamilies
      <3>4. pc = 16
        BY <2>4, <3>3 DEF Finished, Ended
      <3>5. a \in Word
        BY <2>1, Operands DEF a
      <3>6. a % Pow(k) \in 0..(Pow(k) - 1) /\ Pow(k) \in Nat
        BY <3>5, LowerBits, Sizes
      <3>7. (a % Pow(k)) % Pow(k) = a % Pow(k)
        <4> DEFINE p == Pow(k)
                   low == a % p
        <4>1. low \in 0..(p - 1) /\ p \in Nat
          BY <3>6
        <4> HIDE DEF p, low
        <4>2. low % p = low
          BY <4>1
        <4> QED
          BY <4>2 DEF p, low
      <3> QED
        BY <3>2, <3>3, <3>4, <3>7 DEF ExtendInv
    <2> QED
      BY <2>2, <2>3, <2>4 DEF Parts
  <1> QED
    BY <1>1, IdiomsProgress, PTL
=============================================================================
