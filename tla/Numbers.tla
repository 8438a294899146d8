------------------------------ MODULE Numbers ------------------------------
(***************************************************************************)
(* Facts about numbers that the proofs need in several places: remainders, *)
(* since every ring of the correlator takes an index modulo its length;    *)
(* multiples, as integrations and subints are steps of the same length;    *)
(* dealing out in turns, which is how the manager fills up the Cores; and  *)
(* that a set of numbers has a least one, hence induction over a set.      *)
(***************************************************************************)
EXTENDS Integers, FiniteSetTheorems, WellFoundedInduction, TLAPS

LEMMA Division ==
  ASSUME NEW n \in Nat \ {0}, NEW x \in Int
  PROVE  /\ x \div n \in Int /\ x % n \in 0 .. n - 1
         /\ x = n * (x \div n) + (x % n)
  BY SMT

\* A multiple of n that is smaller than n is 0.
LEMMA SmallMultiple ==
  ASSUME NEW n \in Nat \ {0}, NEW q \in Int, NEW d \in Int,
         d = n * q, -n < d, d < n
  PROVE  d = 0
  <1>1. CASE q >= 1
    <2>1. n * q >= n
      BY <1>1, SMT
    <2> QED BY <2>1
  <1>2. CASE q <= -1
    <2>1. n * q <= -n
      BY <1>2, SMT
    <2> QED BY <2>1
  <1>3. CASE q = 0
    BY <1>3
  <1> QED BY <1>1, <1>2, <1>3

\* The remainder of a number smaller than n, and of one smaller than 2 * n.
LEMMA ModOnce ==
  ASSUME NEW n \in Nat \ {0}, NEW x \in 0 .. 2 * n - 1
  PROVE  x % n = IF x < n THEN x ELSE x - n
  BY SMT

\* Numbers with the same remainder that differ by less than n are the same.
LEMMA SameRemainder ==
  ASSUME NEW n \in Nat \ {0}, NEW a \in Int, NEW b \in Int,
         a % n = b % n, -n < a - b, a - b < n
  PROVE  a = b
  <1> DEFINE p == a \div n
             q == b \div n
  <1>1. /\ p \in Int /\ q \in Int /\ a % n \in Int
        /\ a = n * p + (a % n) /\ b = n * q + (b % n)
    BY Division
  <1>2. a - b = n * (p - q)
    <2> HIDE DEF p, q
    <2>1. n * (p - q) = n * p - n * q
      BY <1>1, SMT
    <2> QED BY <1>1, <2>1
  <1>3. a - b \in Int /\ p - q \in Int
    BY <1>1
  <1>4. a - b = 0
    <2> HIDE DEF p, q
    <2> QED BY <1>2, <1>3, SmallMultiple
  <1> QED BY <1>4

\* Going round once changes nothing.
LEMMA OneTurn ==
  ASSUME NEW n \in Nat \ {0}, NEW x \in Int
  PROVE  (x + n) % n = x % n
  <1> DEFINE p == (x + n) \div n
             q == x \div n
             d == (x % n) - ((x + n) % n)
  <1>1. q \in Int /\ x % n \in 0 .. n - 1 /\ x = n * q + (x % n)
    BY Division
  <1>2. p \in Int /\ (x + n) % n \in 0 .. n - 1 /\ x + n = n * p + ((x + n) % n)
    <2>1. x + n \in Int
      OBVIOUS
    <2> HIDE DEF p, q
    <2>2. \A y \in Int : y \div n \in Int /\ y % n \in 0 .. n - 1
                           /\ y = n * (y \div n) + (y % n)
      BY Division
    <2> QED BY <2>1, <2>2 DEF p
  <1>3. d \in Int /\ -n < d /\ d < n
    <2> HIDE DEF p, q
    <2> QED BY <1>1, <1>2
  <1>4. d = n * (p - q - 1)
    <2> HIDE DEF p, q
    <2>1. n * (p - q - 1) = n * p - n * q - n
      BY <1>1, <1>2, SMT
    <2> DEFINE u == n * p
               v == n * q
               r == x % n
               t == (x + n) % n
    <2>2. u \in Int /\ v \in Int /\ r \in Int /\ t \in Int /\ x = v + r /\ x + n = u + t
      BY <1>1, <1>2, SMT
    <2>3. n * (p - q - 1) = u - v - n
      BY <2>1
    <2>4. d = r - t
      BY DEF d
    <2> HIDE DEF u, v, r, t
    <2> QED BY <2>2, <2>3, <2>4
  <1>5. d = 0
    <2>1. p - q - 1 \in Int
      BY <1>1, <1>2
    <2> HIDE DEF d, p, q
    <2> QED BY <1>3, <1>4, <2>1, SmallMultiple
  <1> QED BY <1>1, <1>2, <1>5

\* Quotient and remainder are the only such numbers.
LEMMA Divided ==
  ASSUME NEW n \in Nat \ {0}, NEW q \in Int, NEW r \in 0 .. n - 1
  PROVE  (n * q + r) \div n = q /\ (n * q + r) % n = r
  <1> DEFINE x == n * q + r
             p == x \div n
             t == x % n
  <1>1. n * q \in Int /\ x \in Int
    BY SMT
  <1>2. p \in Int /\ t \in 0 .. n - 1 /\ x = n * p + t
    <2> HIDE DEF x
    <2> QED BY <1>1, Division
  <1>3. n * (p - q) = n * p - n * q
    <2> HIDE DEF x, p, t
    <2> QED BY <1>2, SMT
  <1>4. p - q = 0
    <2> DEFINE d == n * (p - q)
               u == n * p
               v == n * q
    <2>1. u \in Int /\ v \in Int /\ u + t = v + r /\ d = u - v
      <3>1. u + t = v + r
        BY <1>2
      <3>2. u \in Int /\ v \in Int
        <4> HIDE DEF p, t, x
        <4> QED BY <1>2, SMT
      <3> QED BY <1>3, <3>1, <3>2
    <2>2. -n < d /\ d < n /\ d \in Int
      <3> HIDE DEF d, u, v, p, t, x
      <3> QED BY <1>2, <2>1
    <2>3. d = 0
      <3>1. p - q \in Int
        BY <1>2
      <3> HIDE DEF p, t, x
      <3> QED BY <2>2, <3>1, SmallMultiple
    <2> HIDE DEF p, t, x
    <2> QED BY <1>2, <2>3, SMT
  <1>5. p = q
    <2> HIDE DEF p, t, x
    <2> QED BY <1>2, <1>4
  <1>6. t = r
    <2> HIDE DEF p, t, x
    <2>1. x = n * q + r
      BY DEF x
    <2> QED BY <1>1, <1>2, <1>5, <2>1
  <1> QED BY <1>5, <1>6

-----------------------------------------------------------------------------
(* Multiples: all that is needed of them is that they are apart by n *)

\* A factor is smaller if the product is.
LEMMA SmallerFactor ==
  ASSUME NEW n \in Nat \ {0}, NEW p \in Int, NEW q \in Int
  PROVE  n * p \in Int /\ n * q \in Int /\ (n * p < n * q <=> p < q)
  <1>1. n * p \in Int /\ n * q \in Int
    BY SMT
  <1>2. ASSUME p < q PROVE n * p < n * q
    <2>1. n * (q - p) >= n
      BY <1>2, SMT
    <2>2. n * (q - p) = n * q - n * p
      BY SMT
    <2> QED BY <1>1, <2>1, <2>2
  <1>3. ASSUME q <= p PROVE n * q <= n * p
    <2>1. n * (p - q) >= 0
      BY <1>3, SMT
    <2>2. n * (p - q) = n * p - n * q
      BY SMT
    <2> QED BY <1>1, <2>1, <2>2
  <1>4. CASE p < q
    BY <1>2, <1>4
  <1>5. CASE q <= p
    <2>1. ~(n * p < n * q)
      BY <1>1, <1>3, <1>5
    <2> QED BY <1>1, <1>5, <2>1
  <1> QED BY <1>4, <1>5

\* A multiple is a product.
LEMMA MultipleIs ==
  ASSUME NEW n \in Nat \ {0}, NEW x \in Int
  PROVE  x % n = 0 <=> \E q \in Int : x = n * q
  <1>1. ASSUME x % n = 0 PROVE x \div n \in Int /\ x = n * (x \div n)
    BY <1>1, Division
  <1>2. ASSUME NEW q \in Int, x = n * q PROVE x % n = 0
    <2>1. n * q \in Int /\ 0 \in 0 .. n - 1
      BY SMT
    <2>2. (n * q + 0) % n = 0
      BY <2>1, Divided
    <2> QED BY <1>2, <2>1, <2>2
  <1> QED BY <1>1, <1>2

\* The sum and the difference of multiples are multiples.
LEMMA MultipleSum ==
  ASSUME NEW n \in Nat \ {0}, NEW x \in Int, NEW y \in Int, x % n = 0, y % n = 0
  PROVE  (x + y) % n = 0 /\ (x - y) % n = 0
  <1>1. PICK p \in Int : x = n * p
    BY MultipleIs
  <1>2. PICK q \in Int : y = n * q
    BY MultipleIs
  <1>3. x + y = n * (p + q) /\ x - y = n * (p - q)
    BY <1>1, <1>2, SMT
  <1>4. p + q \in Int /\ p - q \in Int /\ x + y \in Int /\ x - y \in Int
    OBVIOUS
  <1>5. \A z \in Int : (\E k \in Int : z = n * k) => z % n = 0
    BY MultipleIs
  <1> QED BY <1>3, <1>4, <1>5

\* A multiple greater than -n is not negative, and one greater than 0 is at
\* least n.
LEMMA MultipleApart ==
  ASSUME NEW n \in Nat \ {0}, NEW x \in Int, x % n = 0
  PROVE  (x > -n => x >= 0) /\ (x > 0 => x >= n)
  <1>1. PICK q \in Int : x = n * q
    BY MultipleIs
  <1>2. n * (-1) = -n /\ n * 0 = 0 /\ n * 1 = n
    OBVIOUS
  <1>3. (n * (-1) < n * q => -1 < q) /\ (n * 0 < n * q => 0 < q)
    BY SmallerFactor
  <1>4. (0 <= q => ~(n * q < n * 0)) /\ (1 <= q => ~(n * q < n * 1))
    BY SmallerFactor
  <1> QED BY <1>1, <1>2, <1>3, <1>4

\* Of two numbers in steps of n from f, the lower is lower by at least n.
LEMMA StepsApart ==
  ASSUME NEW n \in Nat \ {0}, NEW f \in Int, NEW a \in Int, NEW b \in Int,
         (a - f) % n = 0, (b - f) % n = 0
  PROVE  (a - b) % n = 0 /\ (b - a < n => b <= a) /\ (b < a => b + n <= a)
  <1> DEFINE x == a - f
             y == b - f
             d == a - b
  <1>1. x \in Int /\ y \in Int /\ x % n = 0 /\ y % n = 0 /\ d = x - y /\ d \in Int
    OBVIOUS
  <1> HIDE DEF x, y
  <1>2. (x - y) % n = 0
    BY <1>1, MultipleSum
  <1>3. d % n = 0
    BY <1>1, <1>2
  <1> HIDE DEF d
  <1>4. (d > -n => d >= 0) /\ (d > 0 => d >= n)
    BY <1>1, <1>3, MultipleApart
  <1>5. (b - a < n => b <= a) /\ (b < a => b + n <= a)
    BY <1>4 DEF d
  <1> QED BY <1>3, <1>5 DEF d

\* A multiple of a multiple is a multiple.
LEMMA MultipleTwice ==
  ASSUME NEW n \in Nat \ {0}, NEW m \in Nat \ {0}, NEW x \in Int, m % n = 0, x % m = 0
  PROVE  x % n = 0
  <1>1. PICK p \in Int : m = n * p
    BY MultipleIs
  <1>2. PICK q \in Int : x = m * q
    BY MultipleIs
  <1>3. x = n * (p * q) /\ p * q \in Int
    <2>1. p * q \in Int
      BY SMT
    <2>2. (n * p) * q = n * (p * q)
      BY SMT
    <2>3. m * q = (n * p) * q
      BY <1>1
    <2> QED BY <1>2, <2>1, <2>2, <2>3
  <1> QED BY <1>3, MultipleIs

\* A piece of n that begins before d, a multiple of n, ends by d.
LEMMA WholePieces ==
  ASSUME NEW n \in Nat \ {0}, NEW d \in Int, NEW t \in Int, d % n = 0
  PROVE  /\ n * (t \div n) \in Int /\ n * ((t \div n) + 1) = n * (t \div n) + n
         /\ n * (t \div n) <= t /\ t < n * (t \div n) + n
         /\ t = n * (t \div n) + (t % n) /\ t % n \in 0 .. n - 1
         /\ n * (t \div n) < d => n * (t \div n) + n <= d
  <1> DEFINE q == t \div n
             x == n * q
  <1>1. q \in Int /\ t % n \in 0 .. n - 1 /\ t = x + (t % n)
    BY Division
  <1>2. x \in Int /\ n * (q + 1) = x + n
    <2> HIDE DEF q
    <2> QED BY <1>1, SMT
  <1>3. (d - x) % n = 0 /\ d - x \in Int
    <2> HIDE DEF q
    <2>1. x % n = 0
      BY <1>1, <1>2, MultipleIs
    <2>2. x \in Int /\ d - x \in Int
      BY <1>2
    <2> HIDE DEF x
    <2> QED BY <2>1, <2>2, MultipleSum
  <1>4. x < d => x + n <= d
    <2> HIDE DEF x
    <2> DEFINE y == d - x
    <2>1. y \in Int /\ y % n = 0
      BY <1>3
    <2> HIDE DEF y
    <2>2. y > 0 => y >= n
      BY <2>1, MultipleApart
    <2> QED BY <1>2, <2>2 DEF y
  <1> HIDE DEF q
  <1>5. x <= t /\ t < x + n
    <2> HIDE DEF x
    <2> QED BY <1>1, <1>2
  <1> QED BY <1>1, <1>2, <1>4, <1>5 DEF q

\* How many pieces of n are left of q when x is cut off: the i-th is one of
\* them if it begins before the cut, and then ends before it if x is a
\* number of pieces.
LEMMA PiecesLeft ==
  ASSUME NEW n \in Nat \ {0}, NEW q \in Int, NEW i \in Int, NEW x \in Int
  PROVE  /\ n * i \in Int /\ n * q \in Int /\ q - (x \div n) \in Int
         /\ n * i + x < n * q => i < q - (x \div n)
         /\ x % n = 0 /\ i < q - (x \div n) => n * i + n + x <= n * q
  <1> DEFINE o == x \div n
             r == x % n
  <1>1. o \in Int /\ r \in 0 .. n - 1 /\ x = n * o + r
    BY Division
  <1> HIDE DEF o, r
  <1>2. /\ n * i \in Int /\ n * q \in Int /\ n * o \in Int
        /\ n * (i + o) = n * i + n * o /\ n * (i + o + 1) = n * i + n * o + n
    BY <1>1, SMT
  <1>3. i + o \in Int /\ i + o + 1 \in Int
    BY <1>1
  <1>4. /\ n * (i + o) < n * q => i + o < q
        /\ n * q < n * (i + o + 1) => q < i + o + 1
    BY <1>3, SmallerFactor
  <1> DEFINE a == n * i
             b == n * q
             c == n * o
  <1>5. a \in Int /\ b \in Int /\ c \in Int /\ x = c + r
        /\ (a + c < b => i + o < q) /\ (b < a + c + n => q < i + o + 1)
    BY <1>1, <1>2, <1>4
  <1> HIDE DEF a, b, c
  <1>6. (a + x < b => i < q - o) /\ (r = 0 /\ i < q - o => a + n + x <= b)
    BY <1>1, <1>5
  <1>7. q - o \in Int
    BY <1>1
  <1> QED BY <1>2, <1>6, <1>7 DEF a, b, o, r

-----------------------------------------------------------------------------
(* Dealing out in turns *)

\* How many of the first n numbers have the remainder c.
Turns(c, n, m) == (n \div m) + (IF c < n % m THEN 1 ELSE 0)

LEMMA TurnsType ==
  ASSUME NEW m \in Nat \ {0}, NEW n \in Nat, NEW c
  PROVE  Turns(c, n, m) \in Nat
  <1>1. n \div m \in Nat
    BY SMT
  <1> QED BY <1>1 DEF Turns

\* The one whose turn it is gets one more.
LEMMA TurnsStep ==
  ASSUME NEW m \in Nat \ {0}, NEW n \in Nat, NEW c \in 0 .. m - 1
  PROVE  Turns(c, n + 1, m) = Turns(c, n, m) + (IF n % m = c THEN 1 ELSE 0)
  <1> DEFINE q == n \div m
             r == n % m
  <1>1. q \in Int /\ r \in 0 .. m - 1 /\ n = m * q + r
    BY Division
  <1>2. CASE r = m - 1
    <2>1. n + 1 = m * (q + 1) + 0
      <3> HIDE DEF q, r
      <3>1. m * (q + 1) = m * q + m
        BY <1>1, SMT
      <3> QED BY <1>1, <1>2, <3>1, SMT
    <2>2. (n + 1) \div m = q + 1 /\ (n + 1) % m = 0
      <3>1. q + 1 \in Int /\ 0 \in 0 .. m - 1
        BY <1>1
      <3> HIDE DEF q, r
      <3>2. (m * (q + 1) + 0) \div m = q + 1 /\ (m * (q + 1) + 0) % m = 0
        BY <3>1, Divided
      <3> QED BY <2>1, <3>2
    <2>3. Turns(c, n + 1, m) = q + 1 /\ Turns(c, n, m) = q + (IF c < r THEN 1 ELSE 0)
      BY <1>1, <2>2 DEF Turns
    <2> HIDE DEF q
    <2> QED BY <1>1, <1>2, <2>3
  <1>3. CASE r # m - 1
    <2>1. n + 1 = m * q + (r + 1) /\ r + 1 \in 0 .. m - 1
      <3> HIDE DEF q, r
      <3>1. m * q \in Int
        BY <1>1, SMT
      <3> QED BY <1>1, <1>3, <3>1
    <2>2. (n + 1) \div m = q /\ (n + 1) % m = r + 1
      <3> HIDE DEF q, r
      <3>1. (m * q + (r + 1)) \div m = q /\ (m * q + (r + 1)) % m = r + 1
        BY <1>1, <2>1, Divided
      <3> QED BY <2>1, <3>1
    <2>3. Turns(c, n + 1, m) = q + (IF c < r + 1 THEN 1 ELSE 0)
            /\ Turns(c, n, m) = q + (IF c < r THEN 1 ELSE 0)
      BY <2>2 DEF Turns
    <2> HIDE DEF q
    <2> QED BY <1>1, <2>3
  <1> QED BY <1>2, <1>3

\* When fewer than k for each have been dealt out, the next one has fewer than k.
LEMMA TurnsBound ==
  ASSUME NEW m \in Nat \ {0}, NEW k \in Nat, NEW n \in Nat, n < k * m
  PROVE  Turns(n % m, n, m) < k
  <1> DEFINE q == n \div m
             r == n % m
  <1>1. q \in Int /\ r \in 0 .. m - 1 /\ n = m * q + r
    BY Division
  <1>2. Turns(r, n, m) = q
    BY <1>1 DEF Turns
  <1>3. q < k
    <2> HIDE DEF q, r
    <2> SUFFICES ASSUME q >= k PROVE FALSE
      BY <1>1
    <2>1. m * q >= m * k
      BY <1>1, SMT
    <2>2. m * q \in Int /\ m * k \in Int /\ m * k = k * m
      BY <1>1, SMT
    <2> QED BY <1>1, <2>1, <2>2
  <1> QED BY <1>2, <1>3

\* When k for each have been dealt out, everybody has k.
LEMMA TurnsFull ==
  ASSUME NEW m \in Nat \ {0}, NEW k \in Nat, NEW c \in 0 .. m - 1
  PROVE  Turns(c, k * m, m) = k
  <1>1. k * m = m * k + 0 /\ 0 \in 0 .. m - 1
    BY SMT
  <1>2. (m * k + 0) \div m = k /\ (m * k + 0) % m = 0
    BY <1>1, Divided
  <1> QED BY <1>1, <1>2 DEF Turns

-----------------------------------------------------------------------------
(* Least numbers *)

LEMMA Least ==
  ASSUME NEW T \in SUBSET Nat, T # {}
  PROVE  \E n \in T : \A m \in T : n <= m
  <1> DEFINE HasLeast(S) == \E n \in S : \A m \in S : n <= m
             Sets == FiniteSubsetsOf(Nat)
             Bad == {S \in Sets : S # {} /\ ~HasLeast(S)}
  <1>1. ASSUME Bad # {} PROVE FALSE
    <2>1. IsWellFoundedOn(StrictSubsetOrdering(Nat), Sets)
      BY FS_StrictSubsetOrderingWellFounded
    <2>2. PICK S \in Bad : \A U \in Bad : ~(<<U, S>> \in StrictSubsetOrdering(Nat))
      <3> HIDE DEF Bad
      <3>1. Bad \subseteq Sets
        BY DEF Bad
      <3> QED BY <1>1, <2>1, <3>1, WFMin
    <2>3. PICK b \in S : TRUE
      BY <2>2
    <2> DEFINE U == S \ {b}
    <2>4. U \in Sets /\ U # S
      BY <2>2, <2>3, FS_RemoveElement DEF FiniteSubsetsOf
    <2>5. U = {} \/ HasLeast(U)
      BY <2>2, <2>4 DEF StrictSubsetOrdering, FiniteSubsetsOf
    <2>6. S \subseteq Nat /\ b \in S
      BY <2>2, <2>3 DEF FiniteSubsetsOf
    <2>7. CASE U = {}
      BY <2>2, <2>6, <2>7
    <2>8. CASE HasLeast(U)
      BY <2>2, <2>6, <2>8
    <2> QED BY <2>5, <2>7, <2>8
  <1>2. PICK t \in T : TRUE
    OBVIOUS
  <1> DEFINE S == {n \in T : n <= t}
  <1>3. S \in Sets /\ S # {}
    <2>1. t \in Nat /\ T \subseteq Nat
      BY <1>2
    <2>2. S \subseteq 0 .. t
      <3>1. \A n \in T : n \in Nat
        BY <2>1
      <3>2. \A n \in S : n \in Nat /\ n <= t
        BY <3>1
      <3> HIDE DEF S
      <3> QED BY <2>1, <3>2
    <2>3. IsFiniteSet(0 .. t)
      BY <2>1, FS_Interval
    <2>4. IsFiniteSet(S)
      <3> HIDE DEF S
      <3> QED BY <2>2, <2>3, FS_Subset
    <2>5. S \subseteq Nat /\ t \in S
      <3>1. t <= t
        BY <2>1
      <3>2. S \subseteq T
        OBVIOUS
      <3> QED BY <2>1, <3>1, <3>2
    <2> HIDE DEF S
    <2> QED BY <2>4, <2>5 DEF FiniteSubsetsOf
  <1>4. HasLeast(S)
    BY <1>1, <1>3
  <1> QED BY <1>2, <1>4

\* Induction, for a set: what has 0, and the next of each it has, is all of Nat.
LEMMA SetInduction ==
  ASSUME NEW T \in SUBSET Nat, 0 \in T, \A n \in T : n + 1 \in T
  PROVE  T = Nat
  <1> SUFFICES ASSUME Nat \ T # {} PROVE FALSE
    OBVIOUS
  <1>1. PICK m \in Nat \ T : \A n \in Nat \ T : m <= n
    <2> DEFINE U == Nat \ T
    <2>1. U \in SUBSET Nat /\ U # {}
      OBVIOUS
    <2> HIDE DEF U
    <2>2. \E n \in U : \A k \in U : n <= k
      BY <2>1, Least
    <2> QED BY <2>2 DEF U
  <1>2. m \in Nat /\ m # 0 /\ m \notin T
    BY <1>1
  <1>3. m - 1 \in Nat /\ ~(m <= m - 1) /\ (m - 1) + 1 = m
    BY <1>2
  <1>4. m - 1 \in T
    BY <1>1, <1>3
  <1> QED BY <1>2, <1>3, <1>4
=============================================================================
