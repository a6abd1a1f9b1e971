---------------------------- MODULE Codec_proofs ----------------------------
(***************************************************************************)
(* What dec_varnat answers, for every width of the word and of its digits  *)
(* and every stream of bytes: it decodes what its digits spell, returns    *)
(* every word enc_varnat writes, and is torn exactly while the last digit  *)
(* may still come; and a verdict but torn of a number, a byte string or an *)
(* envelope is final.  And what the recovery scan of open_with makes of a  *)
(* journal of such envelopes: it finds the records that lie whole in it.   *)
(*                                                                         *)
(* The argument is one about places: the digits before the i-th make less  *)
(* than the place of the i-th (Bounds), so the digits of a word never make *)
(* more than a word, though the last one may have too many bits (LastSum). *)
(* What a loop or a recursion computes is had by climbing its positions    *)
(* (Climb), and that there is such a computation at all from Recursion.    *)
(*                                                                         *)
(* The scan stands on two facts about records: one is read back whatever   *)
(* follows it (RecordAhead), and a part of one is torn (RecordCut), which  *)
(* is FramesFinal again.  So what it has passed are the first records of   *)
(* the file (ScanInv), and it stops at a tear, at a gap or at the end.     *)
(***************************************************************************)
EXTENDS ByteStream, EnvelopeScan, WellFoundedInduction, TLAPS

\* Every set of naturals that is not empty has a least one.
LEMMA Least ==
  ASSUME NEW S \in SUBSET Nat, S # {}
  PROVE  \E k \in S : \A j \in S : k <= j
<1>1. PICK k \in S : \A j \in S : ~(<<j, k>> \in OpToRel(<, Nat))
  BY NatLessThanWellFounded, WFMin
<1>2. \A j \in S : ~(j < k)
  BY <1>1 DEF OpToRel
<1>3. \A j \in S : j \in Nat /\ k \in Nat
  OBVIOUS
<1>4. \A j \in S : k <= j
  BY <1>2, <1>3
<1> QED BY <1>4

\* Induction along 0..N, of a set of positions that is closed under the next one.
LEMMA Climb ==
  ASSUME NEW N \in Nat, NEW T, 0 \in T, \A n \in 0..(N - 1) : n \in T => n + 1 \in T
  PROVE  0..N \subseteq T
<1> DEFINE D == {n \in 0..N : n \notin T}
<1> SUFFICES ASSUME D # {} PROVE FALSE
  OBVIOUS
<1>1. PICK k \in D : \A j \in D : k <= j
  <2>1. D \in SUBSET Nat
    OBVIOUS
  <2> HIDE DEF D
  <2> QED BY <2>1, Least
<1>2. k \in 0..N /\ k # 0 /\ k - 1 \in 0..(N - 1) /\ k - 1 + 1 = k
  BY <1>1
<1>3. k - 1 \in T
  BY <1>1, <1>2
<1> QED BY <1>1, <1>2, <1>3

\* A function given by its first value and by how each follows from the one before.
Recurs(f, S, a, N, G) == /\ f \in [0..N -> S] /\ f[0] = a
                         /\ \A i \in 1..N : f[i] = G[<<i, f[i - 1]>>]
Rec(S, a, N, G) == CHOOSE f : Recurs(f, S, a, N, G)

LEMMA Recursion ==
  ASSUME NEW A, NEW a \in A, NEW N \in Nat, NEW G \in [(1..N) \X A -> A]
  PROVE  Recurs(Rec(A, a, N, G), A, a, N, G)
<1> DEFINE Good(f, m) == f \in [0..m -> A] /\ f[0] = a /\ \A n \in 1..m : f[n] = G[<<n, f[n - 1]>>]
           T == {m \in 0..N : \E f : Good(f, m)}
<1>1. 0 \in T
  <2> DEFINE g == [n \in 0..0 |-> a]
  <2>1. Good(g, 0)
    OBVIOUS
  <2> HIDE DEF g, Good
  <2> QED BY <2>1
<1>2. ASSUME NEW m \in 0..(N - 1), m \in T PROVE m + 1 \in T
  <2>1. PICK f : Good(f, m)
    BY <1>2
  <2> DEFINE g == [n \in 0..(m + 1) |-> IF n = m + 1 THEN G[<<m + 1, f[m]>>] ELSE f[n]]
  <2>2. m \in Nat /\ m + 1 \in 1..N /\ f[m] \in A
    BY <2>1
  <2>3. G[<<m + 1, f[m]>>] \in A
    BY <2>2
  <2>4. g \in [0..(m + 1) -> A] /\ g[0] = a
    BY <2>1, <2>2, <2>3
  <2>5. ASSUME NEW n \in 1..(m + 1) PROVE g[n] = G[<<n, g[n - 1]>>]
    <3>1. n - 1 \in 0..m /\ g[n - 1] = f[n - 1]
      BY <2>2
    <3>2. CASE n = m + 1
      BY SMTT(60), <2>2, <3>1, <3>2
    <3>3. CASE n # m + 1
      <4>1. n \in 1..m /\ g[n] = f[n]
        BY <2>2, <3>3
      <4> QED BY <2>1, <3>1, <4>1
    <3> QED BY <3>2, <3>3
  <2>6. Good(g, m + 1)
    BY <2>4, <2>5
  <2> HIDE DEF g, Good
  <2> QED BY <2>2, <2>6
<1> HIDE DEF Good, T
<1>3. N \in T
  BY <1>1, <1>2, Climb
<1>4. \E f : Recurs(f, A, a, N, G)
  BY <1>3 DEF Good, T, Recurs
<1> QED BY <1>4 DEF Rec

LEMMA RecType ==
  ASSUME NEW S, NEW a \in S, NEW N \in Nat, NEW G \in [(1..N) \X S -> S]
  PROVE  Rec(S, a, N, G) \in [0..N -> S]
BY Recursion DEF Recurs

LEMMA RecFirst ==
  ASSUME NEW S, NEW a \in S, NEW N \in Nat, NEW G \in [(1..N) \X S -> S]
  PROVE  Rec(S, a, N, G)[0] = a
BY SMTT(60), Recursion DEF Recurs

LEMMA RecNext ==
  ASSUME NEW S, NEW a \in S, NEW N \in Nat, NEW G \in [(1..N) \X S -> S]
  PROVE  \A i \in 1..N : Rec(S, a, N, G)[i] = G[<<i, Rec(S, a, N, G)[i - 1]>>]
<1> DEFINE r == Rec(S, a, N, G)
<1>1. Recurs(r, S, a, N, G)
  BY Recursion
<1> HIDE DEF r
<1>2. \A i \in 1..N : r[i] = G[<<i, r[i - 1]>>]
  BY <1>1 DEF Recurs
<1> QED BY <1>2 DEF r

-----------------------------------------------------------------------------
(* Powers of two and the places of digits.                                 *)

\* Pow2 computes the powers: the recursion is met here once.
LEMMA PowFacts ==
  /\ Pow2[0] = 1
  /\ \A n \in Nat : Pow2[n] \in Nat \ {0} /\ Pow2[n + 1] = 2 * Pow2[n]
<1> DEFINE Step(f, n) == IF n = 0 THEN 1 ELSE 2 * f[n - 1]
           Upto(f, N) == f \in [0..N -> Nat] /\ f[0] = 1 /\ \A n \in 1..N : f[n] = 2 * f[n - 1]
           Some(N) == CHOOSE f : Upto(f, N)
           pow == [n \in Nat |-> Some(n)[n]]
<1>1. ASSUME NEW N \in Nat PROVE Upto(Some(N), N)
  <2> DEFINE G == [p \in (1..N) \X Nat |-> 2 * p[2]]
  <2>1. G \in [(1..N) \X Nat -> Nat] /\ 1 \in Nat
    OBVIOUS
  <2> DEFINE f == Rec(Nat, 1, N, G)
  <2>2. f \in [0..N -> Nat] /\ f[0] = 1 /\ \A n \in 1..N : f[n] = G[<<n, f[n - 1]>>]
    <3> HIDE DEF G
    <3>1. f \in [0..N -> Nat]
      BY <2>1, RecType
    <3>2. f[0] = 1
      BY <2>1, RecFirst
    <3>3. \A n \in 1..N : f[n] = G[<<n, f[n - 1]>>]
      BY ZenonT(60), <2>1, RecNext
    <3> QED BY <3>1, <3>2, <3>3
  <2> HIDE DEF f
  <2>3. ASSUME NEW n \in 1..N PROVE f[n] = 2 * f[n - 1]
    <3>1. f[n - 1] \in Nat
      BY <2>2
    <3> QED BY <2>2, <3>1
  <2>4. Upto(f, N)
    BY <2>2, <2>3
  <2> HIDE DEF Upto
  <2> QED BY <2>4
<1>2. ASSUME NEW N \in Nat, NEW f, NEW g, Upto(f, N), Upto(g, N + 1) PROVE f[N] = g[N]
  <2> DEFINE T == {n \in 0..N : f[n] = g[n]}
  <2>1. 0 \in T
    BY <1>2
  <2>2. ASSUME NEW n \in 0..(N - 1), n \in T PROVE n + 1 \in T
    <3>1. n + 1 \in 1..N /\ n + 1 \in 1..(N + 1) /\ n + 1 \in 0..N /\ n + 1 - 1 = n
      OBVIOUS
    <3> QED BY <1>2, <2>2, <3>1
  <2>3. N \in T
    <3> HIDE DEF T
    <3> QED BY <2>1, <2>2, Climb
  <2> QED BY <2>3
<1> HIDE DEF Some
<1>3. ASSUME NEW n \in Nat PROVE pow[n] \in Nat /\ pow[n + 1] = 2 * pow[n] /\ pow[0] = 1
  <2>1. Upto(Some(n), n) /\ Upto(Some(n + 1), n + 1) /\ Upto(Some(0), 0)
    <3>1. n + 1 \in Nat /\ 0 \in Nat
      OBVIOUS
    <3> HIDE DEF Upto
    <3> QED BY <1>1, <3>1
  <2>2. Some(n)[n] = Some(n + 1)[n]
    <3> HIDE DEF Upto
    <3> QED BY <1>2, <2>1
  <2>3. Some(n + 1)[n + 1] = 2 * Some(n + 1)[n]
    <3>1. n + 1 \in 1..(n + 1) /\ n + 1 - 1 = n
      OBVIOUS
    <3> QED BY <2>1, <3>1
  <2> QED BY <2>1, <2>2, <2>3
<1>4. pow = [n \in Nat |-> Step(pow, n)]
  <2>1. ASSUME NEW n \in Nat PROVE pow[n] = Step(pow, n)
    <3>1. CASE n = 0
      BY <1>3, <3>1
    <3>2. CASE n # 0
      <4>1. n - 1 \in Nat /\ n - 1 + 1 = n
        BY <3>2
      <4>2. pow[n] = 2 * pow[n - 1]
        <5> HIDE DEF pow
        <5> QED BY <1>3, <4>1
      <4> HIDE DEF pow
      <4> QED BY <3>2, <4>2
    <3> QED BY <3>1, <3>2
  <2>2. pow = [n \in Nat |-> pow[n]]
    OBVIOUS
  <2> HIDE DEF pow, Step
  <2> QED BY <2>1, <2>2
<1> HIDE DEF pow
<1>5. Pow2 = [n \in Nat |-> Step(Pow2, n)]
  BY <1>4 DEF Pow2
<1>6. Pow2[0] = 1 /\ \A n \in Nat : Pow2[n + 1] = 2 * Pow2[n]
  <2>1. ASSUME NEW n \in Nat PROVE Pow2[n] = Step(Pow2, n)
    <3> HIDE DEF Step
    <3> QED BY <1>5
  <2>2. ASSUME NEW n \in Nat PROVE Pow2[n + 1] = 2 * Pow2[n]
    <3>1. n + 1 \in Nat /\ n + 1 # 0 /\ n + 1 - 1 = n
      OBVIOUS
    <3> QED BY <2>1, <3>1
  <2> QED BY <2>1, <2>2
<1>7. ASSUME NEW N \in Nat PROVE Pow2[N] \in Nat \ {0}
  <2> DEFINE T == {n \in 0..N : Pow2[n] \in Nat \ {0}}
  <2>1. 0 \in T
    BY <1>6
  <2>2. ASSUME NEW n \in 0..(N - 1), n \in T PROVE n + 1 \in T
    BY <1>6, <2>2
  <2>3. N \in T
    <3> HIDE DEF T
    <3> QED BY <2>1, <2>2, Climb
  <2> QED BY <2>3
<1> QED BY <1>6, <1>7

\* Powers add up in the exponent, and grow with it.
LEMMA PowSum ==
  ASSUME NEW a \in Nat, NEW b \in Nat
  PROVE  Pow2[a + b] = Pow2[a] * Pow2[b]
<1> DEFINE T == {n \in 0..b : Pow2[a + n] = Pow2[a] * Pow2[n]}
<1>1. 0 \in T
  <2>1. a + 0 = a /\ Pow2[a] * 1 = Pow2[a]
    BY PowFacts
  <2> QED BY <2>1, PowFacts
<1>2. ASSUME NEW n \in 0..(b - 1), n \in T PROVE n + 1 \in T
  <2>1. /\ a + n \in Nat /\ n \in Nat /\ a + (n + 1) = (a + n) + 1 /\ n + 1 \in 0..b
        /\ Pow2[a] \in Nat /\ Pow2[n] \in Nat
    BY PowFacts
  <2>2. Pow2[a + (n + 1)] = 2 * (Pow2[a] * Pow2[n])
    BY <1>2, <2>1, PowFacts
  <2>3. Pow2[n + 1] = 2 * Pow2[n]
    BY <2>1, PowFacts
  <2>4. 2 * (Pow2[a] * Pow2[n]) = Pow2[a] * (2 * Pow2[n])
    BY <2>1
  <2> QED BY <2>1, <2>2, <2>3, <2>4
<1>3. b \in T
  <2> HIDE DEF T
  <2> QED BY <1>1, <1>2, Climb
<1> QED BY <1>3

LEMMA PowGrows ==
  ASSUME NEW a \in Nat, NEW b \in Nat, a <= b
  PROVE  Pow2[a] <= Pow2[b]
<1>1. b - a \in Nat /\ a + (b - a) = b
  OBVIOUS
<1>2. Pow2[a] \in Nat /\ Pow2[b - a] \in Nat /\ Pow2[b - a] >= 1
  BY <1>1, PowFacts
<1>3. Pow2[b] = Pow2[a] * Pow2[b - a]
  BY <1>1, PowSum
<1>4. \A x, y \in Nat : y >= 1 => x <= x * y
  OBVIOUS
<1> QED BY <1>2, <1>3, <1>4

\* The digits a word can need reach the width of the word, and one fewer does not.
LEMMA Widths ==
  /\ DigitBits \in Nat \ {0} /\ WordBits \in Nat /\ WordBits > DigitBits
  /\ MaxDigits \in Nat /\ MaxDigits >= 2
  /\ (MaxDigits - 1) * DigitBits < WordBits
  /\ WordBits <= MaxDigits * DigitBits
<1> DEFINE a == WordBits + DigitBits - 1
           q == a \div DigitBits
<1>1. DigitBits \in Nat \ {0} /\ WordBits \in Nat /\ WordBits > DigitBits /\ a \in Nat
  BY WidthAssumption
<1>2. q \in Int /\ DigitBits * q <= a /\ a < DigitBits * q + DigitBits
  <2> HIDE DEF a
  <2> QED BY <1>1
<1> HIDE DEF q
<1>3. \A d, x \in Int : x <= 0 /\ d > 0 => d * x <= 0
  OBVIOUS
<1>4. DigitBits * (q - 1) = DigitBits * q - DigitBits
  BY <1>1, <1>2
<1>5. DigitBits * (q - 1) < WordBits /\ WordBits <= DigitBits * q
  BY <1>1, <1>2, <1>4
<1>6. q >= 2
  <2> SUFFICES ASSUME q - 1 <= 0 PROVE FALSE
    BY <1>2
  <2>1. DigitBits * (q - 1) <= 0
    BY <1>1, <1>2, <1>3
  <2> QED BY <1>1, <1>2, <1>4, <1>5, <2>1
<1>7. q = MaxDigits
  BY DEF q, MaxDigits
<1>8. DigitBits * (q - 1) = (q - 1) * DigitBits /\ DigitBits * q = q * DigitBits
  BY <1>1, <1>2
<1> QED BY <1>1, <1>2, <1>5, <1>6, <1>7, <1>8

LEMMA Bases == Base \in Nat /\ Base >= 2 /\ WordSize \in Nat \ {0}
<1>1. DigitBits - 1 \in Nat /\ DigitBits - 1 + 1 = DigitBits /\ DigitBits \in Nat /\ WordBits \in Nat
  BY Widths
<1>2. Pow2[DigitBits] = 2 * Pow2[DigitBits - 1] /\ Pow2[DigitBits - 1] \in Nat \ {0}
  BY <1>1, PowFacts
<1>3. WordSize \in Nat \ {0}
  BY <1>1, PowFacts DEF WordSize
<1> QED BY <1>2, <1>3 DEF Base

\* What a digit in position i counts for.
Place(i) == Pow2[(i - 1) * DigitBits]

LEMMA Places ==
  ASSUME NEW i \in Nat \ {0}
  PROVE  /\ Place(i) \in Nat \ {0}
         /\ Place(i + 1) = Base * Place(i)
         /\ (i - 1) * DigitBits \in Nat
<1>1. DigitBits \in Nat /\ i - 1 \in Nat
  BY Widths
<1>2. (i - 1) * DigitBits \in Nat
  BY <1>1
<1>3. (i + 1 - 1) * DigitBits = DigitBits + (i - 1) * DigitBits
  BY <1>1
<1>4. Place(i) \in Nat \ {0}
  BY <1>2, PowFacts DEF Place
<1>5. Pow2[DigitBits + (i - 1) * DigitBits] = Pow2[DigitBits] * Pow2[(i - 1) * DigitBits]
  BY <1>1, <1>2, PowSum
<1> QED BY <1>2, <1>3, <1>4, <1>5 DEF Place, Base

LEMMA FirstPlace == Place(1) = 1
<1>1. (1 - 1) * DigitBits = 0
  BY Widths
<1> QED BY <1>1, PowFacts DEF Place

\* A word ends within the last digit it can need.
LEMMA WordPlaces ==
  /\ \A i \in 1..(MaxDigits - 1) : Place(i + 1) <= WordSize
  /\ \A i \in 1..MaxDigits : ~ShiftRefused((i - 1) * DigitBits)
  /\ \E e \in Nat \ {0} : WordSize = Place(MaxDigits) * e
<1> USE Widths
<1>1. ASSUME NEW i \in 1..MaxDigits PROVE (i - 1) * DigitBits < WordBits
  <2>1. \A x, y, d \in Nat : x <= y => x * d <= y * d
    OBVIOUS
  <2>2. (i - 1) * DigitBits <= (MaxDigits - 1) * DigitBits
    BY <2>1
  <2>3. (i - 1) * DigitBits \in Nat /\ (MaxDigits - 1) * DigitBits \in Nat
    OBVIOUS
  <2> QED BY <2>2, <2>3
<1>2. ASSUME NEW i \in 1..(MaxDigits - 1) PROVE Place(i + 1) <= WordSize
  <2>1. i + 1 \in 1..MaxDigits /\ (i + 1 - 1) * DigitBits \in Nat
    OBVIOUS
  <2>2. (i + 1 - 1) * DigitBits < WordBits
    BY <1>1, <2>1
  <2> QED BY <2>1, <2>2, PowGrows DEF Place, WordSize
<1>3. \E e \in Nat \ {0} : WordSize = Place(MaxDigits) * e
  <2> DEFINE p == (MaxDigits - 1) * DigitBits
             r == WordBits - p
  <2>1. p \in Nat /\ r \in Nat /\ p + r = WordBits
    OBVIOUS
  <2>2. Pow2[r] \in Nat \ {0}
    BY <2>1, PowFacts
  <2>3. WordSize = Pow2[p] * Pow2[r]
    BY <2>1, PowSum DEF WordSize
  <2> QED BY <2>2, <2>3 DEF Place
<1> QED BY <1>1, <1>2, <1>3 DEF ShiftRefused

-----------------------------------------------------------------------------
(* Running sums.                                                           *)

LEMMA SumsFacts ==
  ASSUME NEW n \in Nat, NEW t \in [1..n -> Nat]
  PROVE  /\ Sums(t) \in [0..n -> Nat]
         /\ Sums(t)[0] = 0
         /\ \A i \in 1..n : Sums(t)[i] = Sums(t)[i - 1] + t[i]
<1> DEFINE G == [p \in (1..n) \X Nat |-> p[2] + t[p[1]]]
           r == Rec(Nat, 0, n, G)
           Body(f) == [i \in {0} \cup DOMAIN t |-> IF i = 0 THEN 0 ELSE f[i - 1] + t[i]]
           s == CHOOSE f : f = Body(f)
<1>1. G \in [(1..n) \X Nat -> Nat] /\ 0 \in Nat
  OBVIOUS
<1>2. /\ r \in [0..n -> Nat] /\ r[0] = 0
      /\ \A i \in 1..n : r[i] = G[<<i, r[i - 1]>>]
  <2> HIDE DEF G
  <2>1. r \in [0..n -> Nat]
    BY <1>1, RecType
  <2>2. r[0] = 0
    BY <1>1, RecFirst
  <2>3. \A i \in 1..n : r[i] = G[<<i, r[i - 1]>>]
    BY ZenonT(60), <1>1, RecNext
  <2> QED BY <2>1, <2>2, <2>3
<1> HIDE DEF r
<1>3. \A i \in 1..n : r[i] = r[i - 1] + t[i]
  <2> SUFFICES ASSUME NEW i \in 1..n PROVE r[i] = r[i - 1] + t[i]
    OBVIOUS
  <2>1. r[i - 1] \in Nat
    BY <1>2
  <2> QED BY <1>2, <2>1
<1>4. {0} \cup DOMAIN t = 0..n
  OBVIOUS
<1>5. r = Body(r)
  <2>1. \A i \in 0..n : r[i] = IF i = 0 THEN 0 ELSE r[i - 1] + t[i]
    BY <1>2, <1>3
  <2>2. r = [i \in 0..n |-> r[i]]
    BY <1>2
  <2> QED BY <1>4, <2>1, <2>2
<1>6. s = Body(s)
  <2> HIDE DEF Body
  <2> QED BY <1>5
<1>7. Sums(t) = s
  BY DEF Sums
<1> HIDE DEF s
<1>8. DOMAIN s = 0..n /\ \A i \in 0..n : s[i] = IF i = 0 THEN 0 ELSE s[i - 1] + t[i]
  BY <1>4, <1>6
<1>9. \A i \in 0..n : s[i] = r[i]
  <2> DEFINE T == {i \in 0..n : s[i] = r[i]}
  <2>1. 0 \in T
    BY <1>2, <1>8
  <2>2. ASSUME NEW i \in 0..(n - 1), i \in T PROVE i + 1 \in T
    <3>1. i + 1 \in 1..n /\ i + 1 \in 0..n /\ i + 1 # 0 /\ i + 1 - 1 = i
      OBVIOUS
    <3>2. s[i + 1] = s[i] + t[i + 1] /\ r[i + 1] = r[i] + t[i + 1]
      BY <1>3, <1>8, <3>1
    <3> QED BY <2>2, <3>1, <3>2
  <2>3. 0..n \subseteq T
    <3> HIDE DEF T
    <3> QED BY <2>1, <2>2, Climb
  <2> QED BY <2>3
<1>10. s = r
  <2>1. s = [i \in 0..n |-> s[i]]
    <3>1. s = Body(s) /\ DOMAIN s = 0..n
      BY <1>6, <1>8
    <3> QED BY <3>1, <1>4
  <2>2. r = [i \in 0..n |-> r[i]]
    BY <1>2
  <2> QED BY <1>9, <2>1, <2>2
<1> QED BY <1>2, <1>3, <1>7, <1>10

LEMMA SumsType ==
  ASSUME NEW n \in Nat, NEW t \in [1..n -> Nat]
  PROVE  Sums(t) \in [0..n -> Nat]
BY SumsFacts

LEMMA SumsNext ==
  ASSUME NEW n \in Nat, NEW t \in [1..n -> Nat], NEW i \in 1..n
  PROVE  Sums(t)[i] = Sums(t)[i - 1] + t[i]
BY SumsFacts

\* Sums of terms that agree up to a position agree up to it.
LEMMA SumsAgree ==
  ASSUME NEW n \in Nat, NEW t \in [1..n -> Nat], NEW m \in Nat, NEW u \in [1..m -> Nat],
         NEW k \in Nat, k <= n, k <= m, \A i \in 1..k : t[i] = u[i]
  PROVE  \A i \in 0..k : Sums(t)[i] = Sums(u)[i]
<1> DEFINE a == Sums(t)
           b == Sums(u)
           T == {i \in 0..k : a[i] = b[i]}
<1>1. a[0] = 0 /\ \A i \in 1..n : a[i] = a[i - 1] + t[i]
  BY SumsFacts
<1>2. b[0] = 0 /\ \A i \in 1..m : b[i] = b[i - 1] + u[i]
  BY SumsFacts
<1> HIDE DEF a, b
<1>3. 0 \in T
  BY <1>1, <1>2
<1>4. ASSUME NEW i \in 0..(k - 1), i \in T PROVE i + 1 \in T
  <2>1. i + 1 \in 1..n /\ i + 1 \in 1..m /\ i + 1 \in 1..k /\ i + 1 \in 0..k /\ i + 1 - 1 = i
    OBVIOUS
  <2> QED BY <1>1, <1>2, <1>4, <2>1
<1>5. 0..k \subseteq T
  <2> HIDE DEF T
  <2> QED BY <1>3, <1>4, Climb
<1> QED BY <1>5 DEF a, b

-----------------------------------------------------------------------------
(* The digits of a stream.                                                 *)

Full(s) == [i \in DOMAIN s |-> (s[i] % Base) * Pow2[(i - 1) * DigitBits]]
Kept(s) == [i \in DOMAIN s |-> Shifted(s[i] % Base, (i - 1) * DigitBits)]

LEMMA Remainders ==
  ASSUME NEW x \in Nat, NEW y \in Nat \ {0}
  PROVE  x % y \in Nat /\ x % y < y /\ x \div y \in Nat /\ x = y * (x \div y) + (x % y)
<1>1. x % y \in Nat /\ x % y < y
  OBVIOUS
<1>2. x \div y \in Int /\ x = y * (x \div y) + (x % y)
  OBVIOUS
<1>3. x \div y \in Nat
  <2> DEFINE q == x \div y
             r == x % y
  <2>1. q \in Int /\ r \in Nat /\ r < y /\ x = y * q + r
    BY <1>1, <1>2
  <2> HIDE DEF q, r
  <2> SUFFICES ASSUME q <= -1 PROVE FALSE
    BY <2>1 DEF q
  <2>2. \A a, b \in Int : a > 0 /\ b <= -1 => a * b <= -a
    OBVIOUS
  <2>3. y * q <= -y /\ y * q \in Int
    BY <2>1, <2>2
  <2> QED BY <2>1, <2>3
<1> QED BY <1>1, <1>2, <1>3

LEMMA SmallRemainder ==
  ASSUME NEW x \in Nat, NEW y \in Nat \ {0}, x < y
  PROVE  x % y = x /\ x \div y = 0
<1> DEFINE q == x \div y
           r == x % y
<1>1. r \in Nat /\ q \in Nat /\ x = y * q + r
  BY Remainders
<1> HIDE DEF q, r
<1>2. q = 0
  <2> SUFFICES ASSUME q >= 1 PROVE FALSE
    BY <1>1
  <2>1. y * q >= y
    BY <1>1
  <2> QED BY <1>1, <2>1
<1>3. y * q = 0
  BY <1>2
<1>4. r = x
  BY <1>1, <1>3
<1> QED BY <1>2, <1>4 DEF q, r

LEMMA DigitType ==
  ASSUME NEW s \in Seq(Byte), NEW i \in DOMAIN s
  PROVE  s[i] \in Nat /\ s[i] % Base \in 0..(Base - 1)
<1>1. s[i] \in Byte /\ Base \in Nat /\ Base >= 2
  BY Bases
<1>2. s[i] \in Nat
  BY <1>1 DEF Byte
<1> QED BY <1>1, <1>2, Remainders

LEMMA ShiftedKept ==
  ASSUME NEW s \in Seq(Byte), NEW i \in DOMAIN s
  PROVE  /\ Full(s)[i] \in Nat /\ Kept(s)[i] \in Nat
         /\ Full(s)[i] = (s[i] % Base) * Place(i)
         /\ Kept(s)[i] = Full(s)[i] % WordSize
         /\ Full(s)[i] <= (Base - 1) * Place(i)
<1>1. i \in Nat \ {0}
  OBVIOUS
<1>2. s[i] % Base \in Nat /\ s[i] % Base <= Base - 1 /\ Base \in Nat
  BY DigitType, Bases
<1>3. Place(i) \in Nat \ {0} /\ WordSize \in Nat \ {0}
  BY <1>1, Places, Bases
<1>4. Full(s)[i] = (s[i] % Base) * Place(i)
  BY DEF Full, Place
<1>5. Kept(s)[i] = Full(s)[i] % WordSize
  BY <1>4 DEF Kept, Shifted, Place
<1>6. Full(s)[i] \in Nat
  BY <1>2, <1>3, <1>4
<1>7. Kept(s)[i] \in Nat
  BY <1>3, <1>5, <1>6, Remainders
<1>8. \A x, y, p \in Nat : x <= y => x * p <= y * p
  OBVIOUS
<1>9. (s[i] % Base) * Place(i) <= (Base - 1) * Place(i)
  <2>1. Base - 1 \in Nat
    BY Bases
  <2> QED BY <1>2, <1>3, <1>8, <2>1
<1> QED BY <1>4, <1>5, <1>6, <1>7, <1>9

LEMMA TermTypes ==
  ASSUME NEW s \in Seq(Byte)
  PROVE  Full(s) \in [1..Len(s) -> Nat] /\ Kept(s) \in [1..Len(s) -> Nat] /\ Len(s) \in Nat
<1>1. DOMAIN s = 1..Len(s) /\ Len(s) \in Nat
  OBVIOUS
<1>2. DOMAIN Full(s) = 1..Len(s) /\ Full(s) = [i \in 1..Len(s) |-> Full(s)[i]]
  BY <1>1 DEF Full
<1>3. DOMAIN Kept(s) = 1..Len(s) /\ Kept(s) = [i \in 1..Len(s) |-> Kept(s)[i]]
  BY <1>1 DEF Kept
<1>4. \A i \in 1..Len(s) : Full(s)[i] \in Nat /\ Kept(s)[i] \in Nat
  BY <1>1, ShiftedKept
<1> QED BY <1>1, <1>2, <1>3, <1>4

LEMMA FullAt ==
  ASSUME NEW s \in Seq(Byte), NEW i \in 1..Len(s)
  PROVE  /\ Sums(Full(s))[i - 1] \in Nat /\ Sums(Full(s))[i] \in Nat
         /\ Sums(Full(s))[i] = Sums(Full(s))[i - 1] + Full(s)[i]
<1>1. i \in 0..Len(s) /\ i - 1 \in 0..Len(s)
  OBVIOUS
<1>2. Full(s) \in [1..Len(s) -> Nat] /\ Len(s) \in Nat
  BY TermTypes
<1>3. Sums(Full(s)) \in [0..Len(s) -> Nat]
  BY <1>2, SumsType
<1>4. Sums(Full(s))[i] = Sums(Full(s))[i - 1] + Full(s)[i]
  BY <1>2, SumsNext
<1> QED BY <1>1, <1>3, <1>4

LEMMA KeptAt ==
  ASSUME NEW s \in Seq(Byte), NEW i \in 1..Len(s)
  PROVE  /\ Sums(Kept(s))[i - 1] \in Nat /\ Sums(Kept(s))[i] \in Nat
         /\ Sums(Kept(s))[i] = Sums(Kept(s))[i - 1] + Kept(s)[i]
<1>1. i \in 0..Len(s) /\ i - 1 \in 0..Len(s)
  OBVIOUS
<1>2. Kept(s) \in [1..Len(s) -> Nat] /\ Len(s) \in Nat
  BY TermTypes
<1>3. Sums(Kept(s)) \in [0..Len(s) -> Nat]
  BY <1>2, SumsType
<1>4. Sums(Kept(s))[i] = Sums(Kept(s))[i - 1] + Kept(s)[i]
  BY <1>2, SumsNext
<1> QED BY <1>1, <1>3, <1>4

\* Nothing is spelled before the first digit.
LEMMA SumsZero ==
  ASSUME NEW s \in Seq(Byte)
  PROVE  Sums(Full(s))[0] = 0 /\ Sums(Kept(s))[0] = 0
<1>1. Full(s) \in [1..Len(s) -> Nat] /\ Kept(s) \in [1..Len(s) -> Nat] /\ Len(s) \in Nat
  BY TermTypes
<1>2. Sums(Full(s))[0] = 0
  BY <1>1, SumsFacts
<1>3. Sums(Kept(s))[0] = 0
  BY <1>1, SumsFacts
<1> QED BY <1>2, <1>3

\* The digits up to a position make less than the place after it.
LEMMA Bounds ==
  ASSUME NEW s \in Seq(Byte)
  PROVE  \A i \in 0..Len(s) : Sums(Full(s))[i] < Place(i + 1)
<1> DEFINE T == {i \in 0..Len(s) : Sums(Full(s))[i] < Place(i + 1)}
<1>0. Len(s) \in Nat
  OBVIOUS
<1>1. 0 \in T
  <2>1. Place(0 + 1) = 1
    BY FirstPlace
  <2> QED BY <1>0, <2>1, SumsZero
<1>2. ASSUME NEW i \in 0..(Len(s) - 1), i \in T PROVE i + 1 \in T
  <2>1. i + 1 \in 1..Len(s) /\ i + 1 \in 0..Len(s) /\ i + 1 \in Nat \ {0} /\ i + 1 - 1 = i
        /\ i + 1 \in DOMAIN s
    BY <1>0
  <2>2. /\ Sums(Full(s))[i] \in Nat /\ Sums(Full(s))[i + 1] \in Nat
        /\ Sums(Full(s))[i + 1] = Sums(Full(s))[i] + Full(s)[i + 1]
    BY <2>1, FullAt
  <2>3. Full(s)[i + 1] \in Nat /\ Full(s)[i + 1] <= (Base - 1) * Place(i + 1)
    BY <2>1, ShiftedKept
  <2>4. Place(i + 1) \in Nat /\ Place(i + 1 + 1) = Base * Place(i + 1)
    BY <2>1, Places
  <2>5. Sums(Full(s))[i] < Place(i + 1)
    BY <1>2
  <2>6. (Base - 1) * Place(i + 1) = Base * Place(i + 1) - Place(i + 1)
    BY <2>4, Bases
  <2>7. Base * Place(i + 1) \in Nat
    BY <2>4, Bases
  <2>8. Sums(Full(s))[i + 1] < Base * Place(i + 1)
    BY <2>2, <2>3, <2>4, <2>5, <2>6, <2>7
  <2> QED BY <2>1, <2>4, <2>8
<1>3. 0..Len(s) \subseteq T
  <2> HIDE DEF T
  <2> QED BY <1>0, <1>1, <1>2, Climb
<1> QED BY <1>3

\* Before the last digit a word can need, no bit of a digit is lost.
LEMMA NothingLost ==
  ASSUME NEW s \in Seq(Byte), NEW i \in 1..Len(s), i < MaxDigits
  PROVE  Kept(s)[i] = Full(s)[i]
<1>1. i \in DOMAIN s /\ i \in 1..(MaxDigits - 1) /\ i \in Nat \ {0}
  BY Widths
<1>2. Full(s)[i] \in Nat /\ Full(s)[i] <= (Base - 1) * Place(i) /\ Kept(s)[i] = Full(s)[i] % WordSize
  BY <1>1, ShiftedKept
<1>3. Place(i) \in Nat \ {0} /\ Place(i + 1) = Base * Place(i) /\ Place(i + 1) <= WordSize
  BY <1>1, Places, WordPlaces
<1>4. (Base - 1) * Place(i) = Base * Place(i) - Place(i) /\ Base * Place(i) \in Nat
  BY <1>3, Bases
<1>5. WordSize \in Nat \ {0}
  BY Bases
<1>6. Full(s)[i] < WordSize
  BY <1>2, <1>3, <1>4, <1>5
<1> QED BY <1>2, <1>5, <1>6, SmallRemainder

LEMMA SameBeforeLast ==
  ASSUME NEW s \in Seq(Byte)
  PROVE  \A i \in 0..Len(s) : i < MaxDigits => Sums(Kept(s))[i] = Sums(Full(s))[i]
<1> DEFINE T == {i \in 0..Len(s) : i < MaxDigits => Sums(Kept(s))[i] = Sums(Full(s))[i]}
<1>0. Len(s) \in Nat /\ MaxDigits \in Nat
  BY Widths
<1>1. 0 \in T
  BY <1>0, SumsZero
<1>2. ASSUME NEW i \in 0..(Len(s) - 1), i \in T PROVE i + 1 \in T
  <2> SUFFICES ASSUME i + 1 < MaxDigits PROVE Sums(Kept(s))[i + 1] = Sums(Full(s))[i + 1]
    BY <1>0
  <2>1. i + 1 \in 1..Len(s) /\ i + 1 - 1 = i /\ i < MaxDigits
    BY <1>0
  <2>2. Sums(Full(s))[i + 1] = Sums(Full(s))[i] + Full(s)[i + 1]
    BY <2>1, FullAt
  <2>3. Sums(Kept(s))[i + 1] = Sums(Kept(s))[i] + Kept(s)[i + 1]
    BY <2>1, KeptAt
  <2>4. Kept(s)[i + 1] = Full(s)[i + 1]
    BY <2>1, NothingLost
  <2> QED BY <1>2, <2>1, <2>2, <2>3, <2>4
<1>3. 0..Len(s) \subseteq T
  <2> HIDE DEF T
  <2> QED BY <1>0, <1>1, <1>2, Climb
<1> QED BY <1>3

\* What is left of a multiple of a place, past a word that is one too, leaves that place free.
LEMMA MultipleLeft ==
  ASSUME NEW d \in Nat, NEW p \in Nat \ {0}, NEW e \in Nat \ {0}
  PROVE  (d * p) % (p * e) <= p * e - p
<1> DEFINE q == (d * p) \div (p * e)
           r == (d * p) % (p * e)
           k == d - e * q
<1>1. d * p \in Nat /\ p * e \in Nat \ {0}
  OBVIOUS
<1>2. r \in Nat /\ r < p * e /\ q \in Nat /\ d * p = (p * e) * q + r
  BY <1>1, Remainders
<1> HIDE DEF q, r
<1>3. k \in Int /\ r = p * k
  <2>1. e * q \in Nat /\ (p * e) * q = p * (e * q)
    BY <1>2
  <2>2. p * (d - e * q) = p * d - p * (e * q)
    BY <2>1
  <2> QED BY <1>2, <2>1, <2>2
<1> HIDE DEF k
<1>4. k <= e - 1
  <2> SUFFICES ASSUME k >= e PROVE FALSE
    BY <1>3
  <2>1. \A a, b, c \in Int : c > 0 /\ a >= b => c * a >= c * b
    OBVIOUS
  <2>2. p * k >= p * e
    BY <1>3, <2>1
  <2> QED BY <1>1, <1>2, <1>3, <2>2
<1>5. p * k <= p * (e - 1)
  <2>1. \A a, b, c \in Int : c > 0 /\ a <= b => c * a <= c * b
    OBVIOUS
  <2> QED BY <1>3, <1>4, <2>1
<1>6. p * (e - 1) = p * e - p
  OBVIOUS
<1> QED BY <1>3, <1>5, <1>6 DEF r

\* Digits never make more than a word, though the last may have more bits than it has left:
\* those are dropped, and with none to drop the sum is exact.
LEMMA LastSum ==
  ASSUME NEW s \in Seq(Byte), MaxDigits \in 1..Len(s)
  PROVE  /\ Sums(Kept(s))[MaxDigits] \in Word
         /\ Sums(Full(s))[MaxDigits] \in Word => Sums(Kept(s))[MaxDigits] = Sums(Full(s))[MaxDigits]
<1> DEFINE M == MaxDigits
           before == Sums(Kept(s))[M - 1]
<1>1. M \in Nat \ {0} /\ M - 1 \in 0..Len(s) /\ M - 1 < M /\ M \in DOMAIN s /\ M - 1 + 1 = M
  BY Widths
<1>2. before = Sums(Full(s))[M - 1] /\ Sums(Full(s))[M - 1] < Place(M)
  <2>1. before = Sums(Full(s))[M - 1]
    BY <1>1, SameBeforeLast
  <2>2. Sums(Full(s))[M - 1] < Place(M - 1 + 1)
    BY <1>1, Bounds
  <2> QED BY <1>1, <2>1, <2>2
<1>3. /\ before \in Nat /\ Sums(Kept(s))[M] \in Nat
      /\ Sums(Kept(s))[M] = before + Kept(s)[M]
  BY KeptAt
<1>4. /\ Sums(Full(s))[M] \in Nat
      /\ Sums(Full(s))[M] = Sums(Full(s))[M - 1] + Full(s)[M]
  BY FullAt
<1>5. /\ Full(s)[M] \in Nat /\ Kept(s)[M] \in Nat
      /\ Full(s)[M] = (s[M] % Base) * Place(M)
      /\ Kept(s)[M] = Full(s)[M] % WordSize
  BY <1>1, ShiftedKept
<1>6. Place(M) \in Nat \ {0} /\ WordSize \in Nat \ {0} /\ s[M] % Base \in Nat
  BY <1>1, Places, Bases, DigitType
<1>7. Kept(s)[M] <= WordSize - Place(M)
  <2>1. PICK e \in Nat \ {0} : WordSize = Place(M) * e
    BY WordPlaces
  <2>2. ((s[M] % Base) * Place(M)) % (Place(M) * e) <= Place(M) * e - Place(M)
    BY <1>6, MultipleLeft
  <2> QED BY <1>5, <2>1, <2>2
<1> HIDE DEF before
<1>8. Sums(Kept(s))[M] \in Word
  <2> DEFINE k == Kept(s)[M]
             p == Place(M)
             w == WordSize
             sum == Sums(Kept(s))[M]
  <2>1. /\ k \in Nat /\ p \in Nat /\ w \in Nat /\ k <= w - p /\ before \in Nat /\ before < p
        /\ sum = before + k
    BY <1>2, <1>3, <1>5, <1>6, <1>7
  <2> HIDE DEF k, p, w, sum
  <2>2. sum \in Nat /\ sum <= w - 1
    BY <2>1
  <2> QED BY <2>1, <2>2, SMTT(60) DEF Word, sum, w
<1>9. ASSUME Sums(Full(s))[M] \in Word PROVE Sums(Kept(s))[M] = Sums(Full(s))[M]
  <2>1. Full(s)[M] < WordSize
    <3>1. Sums(Full(s))[M] < WordSize
      BY <1>6, <1>9 DEF Word
    <3>2. Full(s)[M] <= Sums(Full(s))[M]
      BY <1>2, <1>3, <1>4, <1>5
    <3> QED BY <1>4, <1>5, <1>6, <3>1, <3>2
  <2>2. Kept(s)[M] = Full(s)[M]
    BY <1>5, <1>6, <2>1, SmallRemainder
  <2> QED BY <1>2, <1>3, <1>4, <2>2
<1> QED BY <1>8, <1>9

\* What the loop has after a digit a word can need: a word, and what is spelled if that is one.
LEMMA LoopValue ==
  ASSUME NEW s \in Seq(Byte), NEW i \in 1..Len(s), i <= MaxDigits
  PROVE  /\ Sums(Kept(s))[i] \in Word
         /\ Spelled(s, i) \in Word => Sums(Kept(s))[i] = Spelled(s, i)
<1>0. Spelled(s, i) = Sums(Full(s))[i]
  BY DEF Spelled, Full
<1>1. CASE i = MaxDigits
  BY <1>0, <1>1, LastSum
<1>2. CASE i # MaxDigits
  <2>1. i < MaxDigits /\ i \in 0..Len(s) /\ i \in 1..(MaxDigits - 1)
    BY <1>2, Widths
  <2>2. Sums(Kept(s))[i] = Sums(Full(s))[i] /\ Sums(Full(s))[i] < Place(i + 1)
    BY <2>1, SameBeforeLast, Bounds
  <2>3. Place(i + 1) <= WordSize
    BY <2>1, WordPlaces
  <2>4. Place(i + 1) \in Nat /\ WordSize \in Nat /\ Sums(Full(s))[i] \in Nat
    <3>1. i + 1 \in Nat \ {0}
      OBVIOUS
    <3> QED BY <3>1, Places, Bases, FullAt
  <2> QED BY <1>0, <2>2, <2>3, <2>4 DEF Word
<1> QED BY <1>1, <1>2

-----------------------------------------------------------------------------
(* The answers of dec_varnat.                                              *)

Fails(s, i) == Refuses(Sums(Kept(s)), i)
Ends(s, i) == Fails(s, i) \/ s[i] < Base
Ending(s) == {i \in DOMAIN s : Ends(s, i)}

\* Every one of the first n bytes has the continuation bit.
Continued(s, n) == \A i \in 1..n : s[i] >= Base

LEMMA Decided ==
  ASSUME NEW s
  PROVE  DecVarnat(s) = IF Ending(s) = {} THEN Torn
                        ELSE IF Fails(s, Min(Ending(s))) THEN Corrupt
                        ELSE Ok(Sums(Kept(s))[Min(Ending(s))], Min(Ending(s)))
<1> DEFINE acc == Sums(Kept(s))
<1>1. Ending(s) = {i \in DOMAIN s : Refuses(acc, i) \/ s[i] < Base}
  BY DEF Ending, Ends, Fails
<1>2. DecVarnat(s) = IF Ending(s) = {} THEN Torn ELSE Answer(acc, Min(Ending(s)))
  BY <1>1 DEF DecVarnat, Loop, Kept
<1> QED BY <1>2 DEF Answer, Fails

\* The refused shift and the word that overflows are never met: a digit too many is first.
LEMMA OnlyDigitsFail ==
  ASSUME NEW s \in Seq(Byte), NEW i \in 1..Len(s)
  PROVE  Fails(s, i) <=> i > MaxDigits
<1>1. CASE i > MaxDigits
  BY <1>1 DEF Fails, Refuses
<1>2. CASE i <= MaxDigits
  <2>1. i \in 1..MaxDigits
    BY <1>2, Widths
  <2>2. ~ShiftRefused((i - 1) * DigitBits)
    BY <2>1, WordPlaces
  <2>3. Sums(Kept(s))[i] \in Word
    BY <1>2, LoopValue
  <2>4. ~(i > MaxDigits)
    BY <2>1, Widths
  <2> QED BY <2>2, <2>3, <2>4 DEF Fails, Refuses
<1>3. i > MaxDigits \/ i <= MaxDigits
  BY Widths
<1> QED BY <1>1, <1>2, <1>3

LEMMA EndsAt ==
  ASSUME NEW s \in Seq(Byte), NEW i \in 1..Len(s)
  PROVE  ~Ends(s, i) <=> i <= MaxDigits /\ s[i] >= Base
<1>1. s[i] \in Nat /\ Base \in Nat /\ MaxDigits \in Nat
  BY DigitType, Bases, Widths
<1>2. ~(i > MaxDigits) <=> i <= MaxDigits
  BY <1>1
<1>3. ~(s[i] < Base) <=> s[i] >= Base
  BY <1>1
<1> QED BY <1>2, <1>3, OnlyDigitsFail DEF Ends

LEMMA DecTorn ==
  ASSUME NEW s \in Seq(Byte), Len(s) <= MaxDigits, Continued(s, Len(s))
  PROVE  DecVarnat(s) = Torn
<1>1. ASSUME NEW i \in DOMAIN s PROVE ~Ends(s, i)
  <2>1. i \in 1..Len(s) /\ i <= MaxDigits /\ s[i] >= Base
    BY Widths DEF Continued
  <2> QED BY <2>1, EndsAt
<1>2. Ending(s) = {}
  BY <1>1 DEF Ending
<1> QED BY <1>2, Decided

LEMMA FirstIs ==
  ASSUME NEW s \in Seq(Byte), NEW k \in 1..Len(s), Ends(s, k), \A j \in 1..(k - 1) : ~Ends(s, j)
  PROVE  k \in Ending(s) /\ Min(Ending(s)) = k
<1> DEFINE E == Ending(s)
<1>1. k \in E /\ E \subseteq Nat /\ k \in Nat
  BY DEF Ending
<1>2. ASSUME NEW i \in E PROVE k <= i
  <2>1. i \in 1..Len(s) /\ Ends(s, i)
    BY DEF Ending
  <2> QED BY <2>1
<1> HIDE DEF E
<1>3. \A x \in E : (\A y \in E : x <= y) => x = k
  BY <1>1, <1>2
<1> QED BY <1>1, <1>2, <1>3 DEF Min, E

LEMMA DecEnds ==
  ASSUME NEW s \in Seq(Byte), NEW k \in 1..Len(s), Ends(s, k), \A j \in 1..(k - 1) : ~Ends(s, j)
  PROVE  DecVarnat(s) = IF k > MaxDigits THEN Corrupt ELSE Ok(Sums(Kept(s))[k], k)
<1>1. Ending(s) # {}
  BY FirstIs
<1>2. Min(Ending(s)) = k
  BY FirstIs
<1>3. Fails(s, k) <=> k > MaxDigits
  BY OnlyDigitsFail
<1> QED BY <1>1, <1>2, <1>3, Decided

LEMMA DecOk ==
  ASSUME NEW s \in Seq(Byte), NEW k \in 1..Len(s), k <= MaxDigits, s[k] < Base, Continued(s, k - 1)
  PROVE  DecVarnat(s) = Ok(Sums(Kept(s))[k], k)
<1>1. Ends(s, k)
  BY DEF Ends
<1>2. ASSUME NEW j \in 1..(k - 1) PROVE ~Ends(s, j)
  <2>1. j \in 1..Len(s) /\ j <= MaxDigits /\ s[j] >= Base
    BY Widths DEF Continued
  <2> QED BY <2>1, EndsAt
<1>3. ~(k > MaxDigits)
  BY Widths
<1> QED BY <1>1, <1>2, <1>3, DecEnds

LEMMA DecCorrupt ==
  ASSUME NEW s \in Seq(Byte), MaxDigits < Len(s), Continued(s, MaxDigits)
  PROVE  DecVarnat(s) = Corrupt
<1> DEFINE k == MaxDigits + 1
<1>1. k \in 1..Len(s) /\ k > MaxDigits /\ k - 1 = MaxDigits
  BY Widths
<1>2. Ends(s, k)
  BY <1>1 DEF Ends, Fails, Refuses
<1>3. ASSUME NEW j \in 1..(k - 1) PROVE ~Ends(s, j)
  <2>1. j \in 1..Len(s) /\ j <= MaxDigits /\ s[j] >= Base
    BY <1>1, Widths DEF Continued
  <2> QED BY <2>1, EndsAt
<1> HIDE DEF k
<1> QED BY <1>1, <1>2, <1>3, DecEnds

\* Every stream is one of the three: unfinished, a number, or one digit too long.
LEMMA ThreeCases ==
  ASSUME NEW s \in Seq(Byte)
  PROVE  \/ Len(s) <= MaxDigits /\ Continued(s, Len(s))
         \/ \E k \in 1..Len(s) : k <= MaxDigits /\ s[k] < Base /\ Continued(s, k - 1)
         \/ MaxDigits < Len(s) /\ Continued(s, MaxDigits)
<1> DEFINE D == {i \in 1..Len(s) : i <= MaxDigits /\ s[i] < Base}
<1>0. Len(s) \in Nat /\ MaxDigits \in Nat /\ Base \in Nat /\ \A i \in 1..Len(s) : s[i] \in Nat
  BY Widths, Bases, DigitType
<1>1. CASE D # {}
  <2>1. PICK k \in D : \A j \in D : k <= j
    <3>1. D \in SUBSET Nat
      OBVIOUS
    <3> HIDE DEF D
    <3> QED BY <1>1, <3>1, Least
  <2>2. Continued(s, k - 1)
    BY <1>0, <2>1 DEF Continued
  <2> QED BY <2>1, <2>2
<1>2. CASE D = {}
  <2>1. \A i \in 1..Len(s) : i <= MaxDigits => s[i] >= Base
    BY <1>0, <1>2
  <2> QED BY <1>0, <2>1 DEF Continued
<1> QED BY <1>1, <1>2

\* The answer names itself: of a number, the digits it used and its value.
LEMMA VarnatAnswer ==
  ASSUME NEW s \in Seq(Byte)
  PROVE  \/ DecVarnat(s) = Torn /\ Len(s) <= MaxDigits /\ Continued(s, Len(s))
         \/ DecVarnat(s) = Corrupt /\ MaxDigits < Len(s) /\ Continued(s, MaxDigits)
         \/ \E k \in 1..Len(s) : /\ k <= MaxDigits /\ s[k] < Base /\ Continued(s, k - 1)
                                 /\ DecVarnat(s) = Ok(Sums(Kept(s))[k], k)
<1>1. CASE Len(s) <= MaxDigits /\ Continued(s, Len(s))
  BY <1>1, DecTorn
<1>2. CASE MaxDigits < Len(s) /\ Continued(s, MaxDigits)
  BY <1>2, DecCorrupt
<1>3. ASSUME NEW k \in 1..Len(s), k <= MaxDigits, s[k] < Base, Continued(s, k - 1)
      PROVE  DecVarnat(s) = Ok(Sums(Kept(s))[k], k)
  BY <1>3, DecOk
<1> QED BY <1>1, <1>2, <1>3, ThreeCases

LEMMA Verdicts ==
  /\ Torn.verdict = "torn" /\ Corrupt.verdict = "corrupt"
  /\ \A v, n : Ok(v, n).verdict = "ok" /\ Ok(v, n).val = v /\ Ok(v, n).used = n
BY DEF Torn, Corrupt, Ok

\* A number decoded is a word, within the bytes there are.
LEMMA VarnatOk ==
  ASSUME NEW s \in Seq(Byte), DecVarnat(s).verdict = "ok"
  PROVE  DecVarnat(s).used \in 1..Len(s) /\ DecVarnat(s).val \in Word
<1>1. PICK k \in 1..Len(s) : k <= MaxDigits /\ DecVarnat(s) = Ok(Sums(Kept(s))[k], k)
  BY VarnatAnswer, Verdicts
<1>2. Sums(Kept(s))[k] \in Word
  BY <1>1, LoopValue
<1> QED BY <1>1, <1>2, Verdicts

LEMMA Exact ==
  ASSUME NEW s \in Seq(Byte), DecVarnat(s).verdict = "ok"
  PROVE  /\ \A i \in 1..DecVarnat(s).used : (s[i] >= Base) <=> (i < DecVarnat(s).used)
         /\ Spelled(s, DecVarnat(s).used) \in Word
              => DecVarnat(s).val = Spelled(s, DecVarnat(s).used)
<1>1. PICK k \in 1..Len(s) : /\ k <= MaxDigits /\ s[k] < Base /\ Continued(s, k - 1)
                             /\ DecVarnat(s) = Ok(Sums(Kept(s))[k], k)
  BY VarnatAnswer, Verdicts
<1>2. DecVarnat(s).used = k /\ DecVarnat(s).val = Sums(Kept(s))[k]
  BY <1>1, Verdicts
<1>3. Spelled(s, k) \in Word => Sums(Kept(s))[k] = Spelled(s, k)
  BY <1>1, LoopValue
<1>4. ASSUME NEW i \in 1..k PROVE (s[i] >= Base) <=> (i < k)
  <2>1. s[k] \in Nat /\ Base \in Nat
    BY DigitType, Bases
  <2>2. CASE i < k
    <3>1. i \in 1..(k - 1)
      BY <2>2
    <3> QED BY <1>1, <2>2, <3>1 DEF Continued
  <2>3. CASE i = k
    BY <1>1, <2>1, <2>3
  <2> QED BY <2>2, <2>3
<1> QED BY <1>2, <1>3, <1>4

LEMMA TornExactly ==
  ASSUME NEW s \in Seq(Byte)
  PROVE  DecVarnat(s).verdict = "torn" <=> Len(s) <= MaxDigits /\ \A i \in 1..Len(s) : s[i] >= Base
<1>0. Len(s) \in Nat /\ MaxDigits \in Nat /\ Base \in Nat /\ \A i \in 1..Len(s) : s[i] \in Nat
  BY Widths, Bases, DigitType
<1>1. CASE DecVarnat(s) = Torn /\ Len(s) <= MaxDigits /\ Continued(s, Len(s))
  BY <1>1, Verdicts DEF Continued
<1>2. CASE DecVarnat(s) = Corrupt /\ MaxDigits < Len(s) /\ Continued(s, MaxDigits)
  <2>1. ~(Len(s) <= MaxDigits)
    BY <1>0, <1>2
  <2> QED BY <1>2, <2>1, Verdicts
<1>3. ASSUME NEW k \in 1..Len(s), s[k] < Base, DecVarnat(s) = Ok(Sums(Kept(s))[k], k)
      PROVE  /\ DecVarnat(s).verdict # "torn"
             /\ ~(\A i \in 1..Len(s) : s[i] >= Base)
  <2>1. ~(s[k] >= Base)
    BY <1>0, <1>3
  <2> QED BY <1>3, <2>1, Verdicts
<1> QED BY <1>1, <1>2, <1>3, VarnatAnswer

-----------------------------------------------------------------------------
(* A verdict on a prefix.                                                  *)

Prefix(s, t) == Len(s) <= Len(t) /\ \A i \in 1..Len(s) : s[i] = t[i]

LEMMA SameSums ==
  ASSUME NEW s \in Seq(Byte), NEW t \in Seq(Byte), Prefix(s, t), NEW k \in 1..Len(s)
  PROVE  Sums(Kept(s))[k] = Sums(Kept(t))[k]
<1>1. /\ Kept(s) \in [1..Len(s) -> Nat] /\ Len(s) \in Nat
      /\ Kept(t) \in [1..Len(t) -> Nat] /\ Len(t) \in Nat
  BY TermTypes
<1>2. \A i \in 1..k : Kept(s)[i] = Kept(t)[i]
  <2> SUFFICES ASSUME NEW i \in 1..k PROVE Kept(s)[i] = Kept(t)[i]
    OBVIOUS
  <2>1. i \in DOMAIN s /\ i \in DOMAIN t /\ s[i] = t[i]
    BY DEF Prefix
  <2> QED BY <2>1 DEF Kept
<1>3. k \in Nat /\ k <= Len(s) /\ k <= Len(t) /\ k \in 0..k
  BY <1>1 DEF Prefix
<1>4. \A i \in 0..k : Sums(Kept(s))[i] = Sums(Kept(t))[i]
  <2> DEFINE n == Len(s)
             m == Len(t)
             a == Kept(s)
             b == Kept(t)
  <2>1. /\ a \in [1..n -> Nat] /\ n \in Nat /\ b \in [1..m -> Nat] /\ m \in Nat
        /\ k \in Nat /\ k <= n /\ k <= m /\ \A i \in 1..k : a[i] = b[i]
    BY <1>1, <1>2, <1>3
  <2> HIDE DEF n, m, a, b
  <2>2. \A i \in 0..k : Sums(a)[i] = Sums(b)[i]
    BY <2>1, SumsAgree, ZenonT(60)
  <2> QED BY <2>2 DEF a, b
<1> QED BY <1>3, <1>4

LEMMA VarnatFinal ==
  ASSUME NEW s \in Seq(Byte), NEW t \in Seq(Byte), Prefix(s, t), DecVarnat(s).verdict # "torn"
  PROVE  DecVarnat(t) = DecVarnat(s)
<1>1. CASE DecVarnat(s) = Corrupt /\ MaxDigits < Len(s) /\ Continued(s, MaxDigits)
  <2>1. MaxDigits < Len(t) /\ Continued(t, MaxDigits)
    BY <1>1, Widths DEF Prefix, Continued
  <2> QED BY <1>1, <2>1, DecCorrupt
<1>2. ASSUME NEW k \in 1..Len(s), k <= MaxDigits, s[k] < Base, Continued(s, k - 1),
             DecVarnat(s) = Ok(Sums(Kept(s))[k], k)
      PROVE  DecVarnat(t) = DecVarnat(s)
  <2>1. k \in 1..Len(t) /\ t[k] < Base /\ Continued(t, k - 1)
    BY <1>2 DEF Prefix, Continued
  <2>2. DecVarnat(t) = Ok(Sums(Kept(t))[k], k)
    BY <1>2, <2>1, DecOk
  <2>3. Sums(Kept(s))[k] = Sums(Kept(t))[k]
    BY SameSums
  <2> QED BY <1>2, <2>2, <2>3
<1> QED BY <1>1, <1>2, VarnatAnswer, Verdicts

LEMMA Slices ==
  ASSUME NEW s \in Seq(Byte), NEW t \in Seq(Byte), Prefix(s, t),
         NEW a \in Nat \ {0}, NEW b \in Nat, b <= Len(s)
  PROVE  SubSeq(s, a, b) = SubSeq(t, a, b)
<1>1. SubSeq(s, a, b) = [i \in 1..(b - a + 1) |-> s[i + a - 1]]
  BY DEF Prefix
<1>2. SubSeq(t, a, b) = [i \in 1..(b - a + 1) |-> t[i + a - 1]]
  BY DEF Prefix
<1>3. ASSUME NEW i \in 1..(b - a + 1) PROVE s[i + a - 1] = t[i + a - 1]
  BY DEF Prefix
<1> QED BY <1>1, <1>2, <1>3

LEMMA Tails ==
  ASSUME NEW s \in Seq(Byte), NEW n \in 0..Len(s)
  PROVE  From(s, n) \in Seq(Byte) /\ Len(From(s, n)) = Len(s) - n
         /\ \A i \in 1..(Len(s) - n) : From(s, n)[i] = s[n + i]
BY DEF From

LEMMA TailsFollow ==
  ASSUME NEW s \in Seq(Byte), NEW t \in Seq(Byte), Prefix(s, t), NEW n \in 0..Len(s)
  PROVE  n \in 0..Len(t) /\ Prefix(From(s, n), From(t, n))
<1>1. n \in 0..Len(t)
  BY DEF Prefix
<1>2. /\ Len(From(s, n)) = Len(s) - n
      /\ \A i \in 1..(Len(s) - n) : From(s, n)[i] = s[n + i]
  BY Tails
<1>3. /\ Len(From(t, n)) = Len(t) - n
      /\ \A i \in 1..(Len(t) - n) : From(t, n)[i] = t[n + i]
  BY <1>1, Tails
<1> QED BY <1>1, <1>2, <1>3 DEF Prefix

LEMMA BytesFinal ==
  ASSUME NEW s \in Seq(Byte), NEW t \in Seq(Byte), Prefix(s, t), DecBytes(s).verdict # "torn"
  PROVE  DecBytes(t) = DecBytes(s)
<1> DEFINE n == DecVarnat(s)
<1>1. n.verdict # "torn"
  BY DEF DecBytes
<1>2. DecVarnat(t) = n
  BY <1>1, VarnatFinal
<1>3. CASE n.verdict # "ok"
  BY <1>2, <1>3 DEF DecBytes
<1>4. CASE n.verdict = "ok"
  <2>1. n.used \in 1..Len(s) /\ n.val \in Nat
    BY <1>4, VarnatOk DEF Word
  <2>2. ~(Len(s) - n.used < n.val)
    BY <1>4, Verdicts DEF DecBytes
  <2>3. n.used + 1 \in Nat \ {0} /\ n.used + n.val \in Nat /\ n.used + n.val <= Len(s)
    <3> HIDE DEF n
    <3> QED BY <2>1, <2>2
  <2>4. SubSeq(s, n.used + 1, n.used + n.val) = SubSeq(t, n.used + 1, n.used + n.val)
    <3> HIDE DEF n
    <3> QED BY <2>3, Slices
  <2>5. ~(Len(t) - n.used < n.val)
    <3> HIDE DEF n
    <3> QED BY <2>1, <2>2 DEF Prefix
  <2>6. DecBytes(s) = Ok(SubSeq(s, n.used + 1, n.used + n.val), n.used + n.val)
    BY <1>4, <2>2 DEF DecBytes
  <2>7. DecBytes(t) = Ok(SubSeq(t, n.used + 1, n.used + n.val), n.used + n.val)
    BY <1>2, <1>4, <2>5 DEF DecBytes
  <2> QED BY <2>4, <2>6, <2>7
<1> QED BY <1>3, <1>4

LEMMA EnvelopeFinal ==
  ASSUME NEW s \in Seq(Byte), NEW t \in Seq(Byte), Prefix(s, t),
         DecEnvelopePrefix(s).verdict # "torn"
  PROVE  DecEnvelopePrefix(t) = DecEnvelopePrefix(s)
<1> DEFINE v == DecVarnat(s)
           f == DecVarnat(From(s, v.used))
           p == DecBytes(From(s, v.used + f.used))
           w == DecVarnat(t)
           g == DecVarnat(From(t, w.used))
           q == DecBytes(From(t, w.used + g.used))
           Whole(x, y, z) == Ok([version |-> x.val, fingerprint |-> y.val, payload |-> z.val],
                                x.used + y.used + z.used)
<1>1. DecEnvelopePrefix(s) = IF v.verdict # "ok" THEN v ELSE IF f.verdict # "ok" THEN f
                             ELSE IF p.verdict # "ok" THEN p ELSE Whole(v, f, p)
  BY DEF DecEnvelopePrefix
<1>2. DecEnvelopePrefix(t) = IF w.verdict # "ok" THEN w ELSE IF g.verdict # "ok" THEN g
                             ELSE IF q.verdict # "ok" THEN q ELSE Whole(w, g, q)
  BY DEF DecEnvelopePrefix
<1>3. v.verdict # "torn"
  <2> HIDE DEF v, f, p, Whole
  <2> QED BY <1>1
<1>4. w = v
  BY <1>3, VarnatFinal
<1>5. CASE v.verdict # "ok"
  <2> HIDE DEF v, f, p, w, g, q, Whole
  <2> QED BY <1>1, <1>2, <1>4, <1>5
<1>6. CASE v.verdict = "ok"
  <2>1. v.used \in 0..Len(s)
    <3>1. v.used \in 1..Len(s)
      BY <1>6, VarnatOk
    <3> HIDE DEF v
    <3> QED BY <3>1
  <2>2. f.verdict # "torn"
    <3> HIDE DEF v, f, p, Whole
    <3> QED BY <1>1, <1>6
  <2>3. /\ From(s, v.used) \in Seq(Byte) /\ From(t, v.used) \in Seq(Byte)
        /\ Prefix(From(s, v.used), From(t, v.used))
        /\ Len(From(s, v.used)) = Len(s) - v.used
    <3> HIDE DEF v
    <3>1. v.used \in 0..Len(t) /\ Prefix(From(s, v.used), From(t, v.used))
      BY <2>1, TailsFollow
    <3> QED BY <2>1, <3>1, Tails
  <2>4. g = f
    <3>1. DecVarnat(From(t, v.used)) = DecVarnat(From(s, v.used))
      <4> HIDE DEF v
      <4> QED BY <2>2, <2>3, VarnatFinal
    <3> QED BY <1>4, <3>1
  <2>5. CASE f.verdict # "ok"
    <3> HIDE DEF v, f, p, w, g, q, Whole
    <3> QED BY <1>1, <1>2, <1>4, <1>6, <2>4, <2>5
  <2>6. CASE f.verdict = "ok"
    <3>1. v.used + f.used \in 0..Len(s)
      <4>1. f.used \in 1..Len(From(s, v.used))
        <5> HIDE DEF v
        <5> QED BY <2>3, <2>6, VarnatOk
      <4> HIDE DEF v, f
      <4> QED BY <2>1, <2>3, <4>1
    <3>2. p.verdict # "torn"
      <4> HIDE DEF v, f, p, Whole
      <4> QED BY <1>1, <1>6, <2>6
    <3>3. q = p
      <4> DEFINE k == v.used + f.used
      <4>1. DecBytes(From(s, k)).verdict # "torn" /\ k \in 0..Len(s)
        BY <3>1, <3>2
      <4> HIDE DEF k
      <4>2. k \in 0..Len(t) /\ Prefix(From(s, k), From(t, k))
        BY <4>1, TailsFollow
      <4>3. From(s, k) \in Seq(Byte) /\ From(t, k) \in Seq(Byte)
        BY <4>1, <4>2, Tails
      <4>4. DecBytes(From(t, k)) = DecBytes(From(s, k))
        BY <4>1, <4>2, <4>3, BytesFinal
      <4>5. p = DecBytes(From(s, k))
        BY DEF k
      <4>6. q = DecBytes(From(t, k))
        <5>1. w.used + g.used = k
          <6> HIDE DEF v, f, w, g
          <6> QED BY <1>4, <2>4 DEF k
        <5> QED BY <5>1
      <4> HIDE DEF p, q
      <4> QED BY <4>4, <4>5, <4>6
    <3> HIDE DEF v, f, p, w, g, q, Whole
    <3> QED BY <1>1, <1>2, <1>4, <1>6, <2>4, <2>6, <3>3
  <2> QED BY <2>5, <2>6
<1> QED BY <1>5, <1>6

-----------------------------------------------------------------------------
(* What enc_varnat writes.                                                 *)

\* The bytes s are number k: they spell it, the last one is known, and none is to spare.
Writes(s, k) ==
  /\ s \in Seq(Byte) /\ Len(s) >= 1
  /\ \A i \in 1..Len(s) : s[i] >= Base <=> i < Len(s)
  /\ Sums(Full(s))[Len(s)] = k
  /\ Len(s) > 1 => Place(Len(s)) <= k

LEMMA ConsWrites ==
  ASSUME NEW b \in Byte, NEW s \in Seq(Byte)
  PROVE  /\ <<b>> \o s \in Seq(Byte)
         /\ Len(<<b>> \o s) = Len(s) + 1
         /\ (<<b>> \o s)[1] = b
         /\ \A i \in 1..Len(s) : (<<b>> \o s)[i + 1] = s[i]
OBVIOUS

\* A digit before the others makes each count for one place more.
LEMMA ConsSpells ==
  ASSUME NEW b \in Byte, NEW s \in Seq(Byte)
  PROVE  \A j \in 0..Len(s) :
           Sums(Full(<<b>> \o s))[j + 1] = (b % Base) + Base * Sums(Full(s))[j]
<1> DEFINE c == <<b>> \o s
<1>0. /\ c \in Seq(Byte) /\ Len(c) = Len(s) + 1 /\ c[1] = b
      /\ \A i \in 1..Len(s) : c[i + 1] = s[i]
  BY ConsWrites
<1> HIDE DEF c
<1> DEFINE a == Sums(Full(c))
           d == Sums(Full(s))
           T == {j \in 0..Len(s) : a[j + 1] = (b % Base) + Base * d[j]}
<1>1. Len(s) \in Nat /\ Base \in Nat /\ b \in Nat /\ b % Base \in Nat
  <2>1. Base \in Nat \ {0} /\ b \in Nat
    BY Bases DEF Byte
  <2> QED BY <2>1, Remainders
<1>2. 0 \in T
  <2>1. 1 \in 1..Len(c) /\ 1 - 1 = 0 /\ 1 \in DOMAIN c
    BY <1>0, <1>1
  <2>2. a[1] = a[0] + Full(c)[1] /\ a[0] = 0 /\ d[0] = 0
    <3>1. a[1] = a[1 - 1] + Full(c)[1]
      BY <1>0, <2>1, FullAt
    <3>2. a[0] = 0 /\ d[0] = 0
      BY <1>0, SumsZero
    <3> QED BY <3>1, <3>2
  <2>3. Full(c)[1] = (c[1] % Base) * Place(1)
    BY <1>0, <2>1, ShiftedKept
  <2>4. Full(c)[1] = b % Base
    BY <1>0, <1>1, <2>3, FirstPlace
  <2>5. Base * d[0] = 0
    BY <1>1, <2>2
  <2> HIDE DEF a, d
  <2> QED BY <1>1, <2>2, <2>4, <2>5
<1>3. ASSUME NEW j \in 0..(Len(s) - 1), j \in T PROVE j + 1 \in T
  <2> DEFINE i == j + 1
  <2>1. /\ i \in 1..Len(s) /\ i - 1 = j /\ i + 1 \in 1..Len(c) /\ i + 1 - 1 = i
        /\ i \in Nat \ {0} /\ i \in DOMAIN s /\ i + 1 \in DOMAIN c /\ i \in 0..Len(s)
    BY <1>0, <1>1
  <2> HIDE DEF i
  <2>2. /\ d[j] \in Nat /\ d[i] \in Nat /\ d[i] = d[j] + Full(s)[i]
    <3>1. d[i - 1] \in Nat /\ d[i] \in Nat /\ d[i] = d[i - 1] + Full(s)[i]
      BY <2>1, FullAt
    <3> QED BY <2>1, <3>1
  <2>3. a[i + 1] = a[i] + Full(c)[i + 1]
    <3>1. a[i + 1] = a[i + 1 - 1] + Full(c)[i + 1]
      BY <1>0, <2>1, FullAt
    <3> QED BY <2>1, <3>1
  <2>4. Full(s)[i] \in Nat /\ Full(s)[i] = (s[i] % Base) * Place(i) /\ s[i] % Base \in Nat
    <3>1. s[i] % Base \in Nat
      BY <2>1, DigitType
    <3> QED BY <2>1, <3>1, ShiftedKept
  <2>5. Full(c)[i + 1] = (s[i] % Base) * Place(i + 1)
    <3>1. Full(c)[i + 1] = (c[i + 1] % Base) * Place(i + 1)
      BY <1>0, <2>1, ShiftedKept
    <3>2. c[i + 1] = s[i]
      BY <1>0, <2>1
    <3> QED BY <3>1, <3>2
  <2>6. Place(i) \in Nat /\ Place(i + 1) = Base * Place(i)
    BY <2>1, Places
  <2>7. Full(c)[i + 1] = Base * Full(s)[i]
    <3>1. \A x, y, z \in Nat : x * (y * z) = y * (x * z)
      OBVIOUS
    <3> QED BY <1>1, <2>4, <2>5, <2>6, <3>1
  <2>8. a[i] = (b % Base) + Base * d[j]
    BY <1>3 DEF i
  <2>9. Base * (d[j] + Full(s)[i]) = Base * d[j] + Base * Full(s)[i]
    BY <1>1, <2>2, <2>4
  <2>10. Base * d[j] \in Nat /\ Base * Full(s)[i] \in Nat
    BY <1>1, <2>2, <2>4, SMTT(60)
  <2>11. a[i + 1] = (b % Base) + Base * d[i]
    <3> HIDE DEF a, d
    <3>1. a[i + 1] = ((b % Base) + Base * d[j]) + Base * Full(s)[i]
      BY <2>3, <2>7, <2>8
    <3>2. Base * d[i] = Base * d[j] + Base * Full(s)[i]
      BY <2>2, <2>9
    <3>3. \A x, y, z \in Nat : (x + y) + z = x + (y + z)
      OBVIOUS
    <3>4. ((b % Base) + Base * d[j]) + Base * Full(s)[i] = (b % Base) + (Base * d[j] + Base * Full(s)[i])
      BY <1>1, <2>10, <3>3
    <3> QED BY <3>1, <3>2, <3>4
  <2> QED BY <2>1, <2>11 DEF i
<1>4. 0..Len(s) \subseteq T
  <2> HIDE DEF T
  <2> QED BY <1>1, <1>2, <1>3, Climb
<1> QED BY <1>4 DEF c

LEMMA WritesOne ==
  ASSUME NEW k \in Nat, k < Base
  PROVE  Writes(<<k>>, k)
<1> DEFINE s == <<k>>
<1>1. Base \in Nat /\ Base >= 2
  BY Bases
<1>2. k \in Byte
  BY <1>1 DEF Byte
<1>3. s \in Seq(Byte) /\ Len(s) = 1 /\ s[1] = k /\ 1 \in DOMAIN s /\ 1 - 1 = 0 /\ 1 \in 1..Len(s)
  BY <1>2
<1> HIDE DEF s
<1>4. Full(s)[1] = (k % Base) * 1
  <2>1. Full(s)[1] = (s[1] % Base) * Place(1)
    BY <1>3, ShiftedKept
  <2> QED BY <1>3, <2>1, FirstPlace
<1>5. k % Base = k
  BY <1>1, SmallRemainder
<1>6. Sums(Full(s))[1] = k
  <2>1. Sums(Full(s))[1] = Sums(Full(s))[1 - 1] + Full(s)[1]
    BY <1>3, FullAt
  <2>2. Sums(Full(s))[0] = 0
    BY <1>3, SumsZero
  <2> QED BY <1>3, <1>4, <1>5, <2>1, <2>2
<1>7. \A i \in 1..Len(s) : s[i] >= Base <=> i < Len(s)
  BY <1>1, <1>3
<1> QED BY <1>3, <1>6, <1>7 DEF Writes, s

LEMMA WritesNext ==
  ASSUME NEW k \in Nat, k >= Base, NEW s, Writes(s, k \div Base)
  PROVE  Writes(<<Base + (k % Base)>> \o s, k)
<1> DEFINE q == k \div Base
           r == k % Base
           b == Base + r
           c == <<b>> \o s
<1>1. Base \in Nat /\ Base >= 2
  BY Bases
<1>2. r \in Nat /\ r < Base /\ q \in Nat /\ k = Base * q + r
  BY <1>1, Remainders
<1>3. Writes(s, q)
  OBVIOUS
<1> HIDE DEF q, r
<1>4. b \in Byte /\ b \in Nat /\ b >= Base
  BY <1>1, <1>2 DEF Byte
<1>5. b % Base = r
  <2> DEFINE x == b \div Base
             y == b % Base
  <2>1. y \in Nat /\ y < Base /\ x \in Nat /\ b = Base * x + y
    BY <1>1, <1>4, Remainders
  <2> HIDE DEF x, y
  <2>2. x = 1
    <3>1. \A u, v, w \in Nat : v <= w => u * v <= u * w
      OBVIOUS
    <3>2. CASE x = 0
      BY <1>1, <1>2, <2>1, <3>2
    <3>3. CASE x >= 2
      <4>1. Base * 2 <= Base * x
        BY <1>1, <2>1, <3>1, <3>3
      <4> QED BY <1>1, <1>2, <2>1, <4>1
    <3> QED BY <2>1, <3>2, <3>3
  <2>3. Base * x = Base
    BY <1>1, <2>2
  <2>4. y = r
    BY <1>1, <1>2, <2>1, <2>3
  <2> QED BY <2>4 DEF y
<1>6. s \in Seq(Byte) /\ Len(s) \in Nat \ {0}
  BY <1>3 DEF Writes
<1>7. /\ c \in Seq(Byte) /\ Len(c) = Len(s) + 1 /\ c[1] = b
      /\ \A i \in 1..Len(s) : c[i + 1] = s[i]
  <2> HIDE DEF b
  <2> QED BY <1>4, <1>6, ConsWrites
<1>8. Sums(Full(c))[Len(c)] = k
  <2>1. Len(s) \in 0..Len(s)
    BY <1>6
  <2>2. Sums(Full(c))[Len(s) + 1] = (b % Base) + Base * Sums(Full(s))[Len(s)]
    <3> HIDE DEF b
    <3> QED BY <1>4, <1>6, <2>1, ConsSpells
  <2>3. Sums(Full(s))[Len(s)] = q
    BY <1>3 DEF Writes
  <2>4. Base * q \in Nat
    BY <1>1, <1>2
  <2> HIDE DEF b, c
  <2> QED BY <1>2, <1>5, <1>7, <2>2, <2>3, <2>4
<1>9. \A i \in 1..Len(c) : c[i] >= Base <=> i < Len(c)
  <2> SUFFICES ASSUME NEW i \in 1..Len(c) PROVE c[i] >= Base <=> i < Len(c)
    OBVIOUS
  <2> HIDE DEF c, b
  <2>1. CASE i = 1
    BY <1>4, <1>6, <1>7, <2>1
  <2>2. CASE i # 1
    <3>1. i - 1 \in 1..Len(s) /\ i - 1 + 1 = i
      BY <1>6, <1>7, <2>2
    <3>2. c[i] = s[i - 1]
      BY <1>7, <3>1
    <3>3. s[i - 1] >= Base <=> i - 1 < Len(s)
      BY <1>3, <3>1 DEF Writes
    <3> QED BY <1>6, <1>7, <3>1, <3>2, <3>3
  <2> QED BY <2>1, <2>2
<1>10. Place(Len(c)) <= k
  <2>1. Place(Len(s)) \in Nat /\ Place(Len(s) + 1) = Base * Place(Len(s))
    BY <1>6, Places
  <2>2. Place(Len(s)) <= q
    <3>1. CASE Len(s) = 1
      <4>1. q # 0
        BY <1>1, <1>2
      <4> QED BY <1>2, <3>1, <4>1, FirstPlace
    <3>2. CASE Len(s) # 1
      <4>1. Len(s) > 1
        <5>1. \A x \in Nat \ {0} : x # 1 => x > 1
          OBVIOUS
        <5>2. Len(s) \in Nat \ {0}
          BY <1>6
        <5> QED BY <3>2, <5>1, <5>2
      <4> QED BY <1>3, <4>1 DEF Writes
    <3> QED BY <3>1, <3>2
  <2>3. \A x, y, z \in Nat : y <= z => x * y <= x * z
    OBVIOUS
  <2>4. Base * Place(Len(s)) <= Base * q
    BY <1>1, <1>2, <2>1, <2>2, <2>3
  <2>5. Base * q \in Nat /\ Base * Place(Len(s)) \in Nat
    BY <1>1, <1>2, <2>1
  <2>6. Base * Place(Len(s)) <= k
    BY <1>2, <2>4, <2>5
  <2> QED BY <1>7, <2>1, <2>6
<1>11. Len(c) >= 1
  BY <1>6, <1>7
<1>12. Writes(c, k)
  <2> HIDE DEF c
  <2> QED BY <1>7, <1>8, <1>9, <1>10, <1>11 DEF Writes
<1> QED BY <1>12 DEF r

\* The recursion of enc_varnat, up to N.
EncBody(f, N) == [m \in 0..N |-> IF m < Base THEN <<m>>
                                 ELSE <<Base + (m % Base)>> \o f[m \div Base]]

LEMMA SmallerQuotient ==
  ASSUME NEW m \in Nat, m >= Base
  PROVE  m \div Base \in 0..(m - 1)
<1> DEFINE q == m \div Base
           r == m % Base
<1>1. Base \in Nat /\ Base >= 2
  BY Bases
<1>2. r \in Nat /\ q \in Nat /\ m = Base * q + r
  BY <1>1, Remainders
<1> HIDE DEF q, r
<1>3. \A x, y \in Nat : x >= 2 => 2 * y <= x * y
  OBVIOUS
<1>4. 2 * q <= Base * q /\ Base * q \in Nat
  BY <1>1, <1>2, <1>3
<1>5. q < m
  <2>1. 2 * q <= m /\ m >= 2
    BY <1>1, <1>2, <1>4
  <2> QED BY <1>2, <2>1
<1> QED BY <1>2, <1>5 DEF q

LEMMA EncExists ==
  ASSUME NEW N \in Nat
  PROVE  \E f : f = EncBody(f, N)
<1> DEFINE T == {n \in 0..N : \E f : f = EncBody(f, n)}
<1>1. 0 \in T
  <2> DEFINE f == [m \in 0..0 |-> <<m>>]
  <2>1. f = EncBody(f, 0)
    <3>1. \A m \in 0..0 : m < Base
      BY Bases
    <3> QED BY <3>1 DEF EncBody
  <2> HIDE DEF f
  <2> QED BY <2>1
<1>2. ASSUME NEW n \in 0..(N - 1), n \in T PROVE n + 1 \in T
  <2>1. PICK f : f = EncBody(f, n)
    BY <1>2
  <2> DEFINE Item(h, m) == IF m < Base THEN <<m>> ELSE <<Base + (m % Base)>> \o h[m \div Base]
             g == [m \in 0..(n + 1) |-> Item(f, m)]
  <2>2. \A m \in 0..n : f[m] = Item(f, m)
    BY <2>1 DEF EncBody
  <2>3. \A m \in 0..n : g[m] = f[m]
    <3>1. \A m \in 0..n : m \in 0..(n + 1)
      OBVIOUS
    <3> HIDE DEF Item
    <3> QED BY <2>2, <3>1
  <2>4. ASSUME NEW m \in 0..(n + 1) PROVE Item(f, m) = Item(g, m)
    <3>1. CASE m < Base
      BY <3>1
    <3>2. CASE ~(m < Base)
      <4>1. m \in Nat /\ m >= Base
        BY <3>2, Bases
      <4>2. m \div Base \in 0..(m - 1)
        BY <4>1, SmallerQuotient
      <4>3. m \div Base \in 0..n
        BY <4>1, <4>2
      <4>4. g[m \div Base] = f[m \div Base]
        <5> HIDE DEF g
        <5> QED BY <2>3, <4>3
      <4> HIDE DEF g
      <4> QED BY <3>2, <4>4
    <3> QED BY <3>1, <3>2
  <2>5. g = EncBody(g, n + 1)
    <3>1. EncBody(g, n + 1) = [m \in 0..(n + 1) |-> Item(g, m)]
      <4> HIDE DEF g
      <4> QED BY DEF EncBody
    <3>2. [m \in 0..(n + 1) |-> Item(f, m)] = [m \in 0..(n + 1) |-> Item(g, m)]
      <4> HIDE DEF g, Item
      <4> QED BY <2>4
    <3> QED BY <3>1, <3>2
  <2>6. n + 1 \in 0..N
    OBVIOUS
  <2> HIDE DEF g
  <2> QED BY <2>5, <2>6
<1>3. N \in T
  <2> HIDE DEF T
  <2> QED BY <1>1, <1>2, Climb
<1> QED BY <1>3

\* enc_varnat writes its argument.
LEMMA EncWrites ==
  ASSUME NEW n \in Nat
  PROVE  Writes(EncVarnat(n), n)
<1> DEFINE f == CHOOSE h : h = EncBody(h, n)
<1>1. f = EncBody(f, n)
  BY EncExists
<1>2. EncVarnat(n) = f[n]
  BY DEF EncVarnat, EncBody
<1> HIDE DEF f
<1> DEFINE T == {m \in 0..n : \A k \in 0..m : Writes(f[k], k)}
<1>3. ASSUME NEW k \in 0..n, k < Base PROVE Writes(f[k], k)
  <2>1. f[k] = <<k>>
    BY <1>1, <1>3 DEF EncBody
  <2> QED BY <1>3, <2>1, WritesOne
<1>4. ASSUME NEW k \in 0..n, ~(k < Base), Writes(f[k \div Base], k \div Base)
      PROVE  Writes(f[k], k)
  <2>1. f[k] = <<Base + (k % Base)>> \o f[k \div Base]
    BY <1>1, <1>4 DEF EncBody
  <2>2. k \in Nat /\ k >= Base
    BY <1>4, Bases
  <2> QED BY <1>4, <2>1, <2>2, WritesNext
<1>5. 0 \in T
  <2>1. 0 \in 0..n /\ 0 < Base
    BY Bases
  <2>2. Writes(f[0], 0)
    BY <1>3, <2>1
  <2>3. \A k \in 0..0 : k = 0
    OBVIOUS
  <2> QED BY <2>1, <2>2, <2>3
<1>6. ASSUME NEW m \in 0..(n - 1), m \in T PROVE m + 1 \in T
  <2>1. m + 1 \in 0..n /\ m \in Nat
    OBVIOUS
  <2>2. \A k \in 0..m : Writes(f[k], k)
    BY <1>6
  <2>3. Writes(f[m + 1], m + 1)
    <3>1. CASE m + 1 < Base
      BY <1>3, <2>1, <3>1
    <3>2. CASE ~(m + 1 < Base)
      <4>1. m + 1 \in Nat /\ m + 1 >= Base
        BY <2>1, <3>2, Bases
      <4>2. (m + 1) \div Base \in 0..(m + 1 - 1)
        BY <4>1, SmallerQuotient
      <4>3. (m + 1) \div Base \in 0..m
        BY <2>1, <4>2
      <4> QED BY <1>4, <2>1, <2>2, <3>2, <4>3
    <3> QED BY <3>1, <3>2
  <2>4. \A k \in 0..(m + 1) : k \in 0..m \/ k = m + 1
    BY <2>1
  <2> QED BY <2>1, <2>2, <2>3, <2>4
<1>7. n \in T
  <2> HIDE DEF T
  <2> QED BY <1>5, <1>6, Climb
<1>8. Writes(f[n], n)
  BY <1>7
<1> QED BY <1>2, <1>8

\* A word needs no more digits than dec_varnat takes, so it returns.
LEMMA WordReturns ==
  ASSUME NEW n \in Word
  PROVE  DecVarnat(EncVarnat(n)) = Ok(n, Len(EncVarnat(n)))
<1> DEFINE s == EncVarnat(n)
           k == Len(s)
<1>1. n \in Nat /\ n < WordSize /\ WordSize \in Nat
  BY Bases DEF Word
<1>2. Writes(s, n)
  BY <1>1, EncWrites
<1> HIDE DEF s
<1>3. s \in Seq(Byte) /\ k \in 1..Len(s) /\ k \in Nat \ {0}
  BY <1>2 DEF Writes
<1>4. k <= MaxDigits
  <2> SUFFICES ASSUME k > MaxDigits PROVE FALSE
    BY <1>3, Widths
  <2>1. Place(k) <= n
    BY <1>2, <1>3, Widths DEF Writes
  <2>2. MaxDigits * DigitBits <= (k - 1) * DigitBits
    <3>1. \A x, y, z \in Nat : x <= y => x * z <= y * z
      OBVIOUS
    <3>2. MaxDigits <= k - 1 /\ k - 1 \in Nat /\ MaxDigits \in Nat /\ DigitBits \in Nat
      BY <1>3, Widths
    <3> QED BY <3>1, <3>2
  <2>3. WordBits <= (k - 1) * DigitBits /\ WordBits \in Nat /\ (k - 1) * DigitBits \in Nat
    <3>1. (k - 1) * DigitBits \in Nat
      BY <1>3, Places
    <3>2. MaxDigits * DigitBits \in Nat /\ WordBits <= MaxDigits * DigitBits /\ WordBits \in Nat
      BY Widths
    <3> QED BY <2>2, <3>1, <3>2
  <2>4. WordSize <= Place(k)
    BY <2>3, PowGrows DEF WordSize, Place
  <2>5. Place(k) \in Nat
    BY <1>3, Places
  <2> QED BY <1>1, <2>1, <2>4, <2>5
<1>5. s[k] < Base /\ Continued(s, k - 1)
  <2>1. \A i \in 1..Len(s) : s[i] >= Base <=> i < Len(s)
    BY <1>2 DEF Writes
  <2>2. s[k] \in Nat /\ Base \in Nat /\ ~(s[k] >= Base)
    BY <1>3, <2>1, DigitType, Bases
  <2>3. Continued(s, k - 1)
    BY <1>3, <2>1 DEF Continued
  <2> QED BY <2>2, <2>3
<1>6. DecVarnat(s) = Ok(Sums(Kept(s))[k], k)
  BY <1>3, <1>4, <1>5, DecOk
<1>7. Spelled(s, k) = n
  BY <1>2 DEF Writes, Spelled, Full
<1>8. Sums(Kept(s))[k] = n
  BY <1>3, <1>4, <1>7, LoopValue
<1> QED BY <1>6, <1>8 DEF s

-----------------------------------------------------------------------------
(* Records among other bytes.                                              *)

\* What enc_varnat writes is bytes, one at least.
LEMMA EncBytesType ==
  ASSUME NEW n \in Nat
  PROVE  EncVarnat(n) \in Seq(Byte) /\ Len(EncVarnat(n)) \in Nat \ {0}
<1>1. EncVarnat(n) \in Seq(Byte) /\ Len(EncVarnat(n)) >= 1
  BY EncWrites DEF Writes
<1> QED BY <1>1

\* A word is read off its bytes whatever follows them.
LEMMA WordAhead ==
  ASSUME NEW n \in Word, NEW s \in Seq(Byte), Prefix(EncVarnat(n), s)
  PROVE  DecVarnat(s) = Ok(n, Len(EncVarnat(n)))
<1>1. n \in Nat
  BY Bases DEF Word
<1>2. EncVarnat(n) \in Seq(Byte)
  BY <1>1, EncBytesType
<1>3. DecVarnat(EncVarnat(n)) = Ok(n, Len(EncVarnat(n)))
  BY WordReturns
<1>4. DecVarnat(EncVarnat(n)).verdict # "torn"
  BY <1>3, Verdicts
<1> QED BY <1>2, <1>3, <1>4, VarnatFinal

\* 0 is written as the byte 0.
LEMMA ZeroWord == 0 \in Word /\ EncVarnat(0) = <<0>>
<1>1. 0 \in Word
  BY Bases DEF Word
<1> DEFINE f == CHOOSE h : h = EncBody(h, 0)
<1>2. f = EncBody(f, 0)
  BY EncExists
<1>3. EncVarnat(0) = f[0]
  BY DEF EncVarnat, EncBody
<1> HIDE DEF f
<1>4. f[0] = <<0>>
  <2>1. 0 \in 0..0 /\ 0 < Base
    BY Bases
  <2> QED BY <1>2, <2>1 DEF EncBody
<1> QED BY <1>1, <1>3, <1>4

\* A zero byte reads as the word 0.
LEMMA ZeroAhead ==
  ASSUME NEW s \in Seq(Byte), Len(s) >= 1, s[1] = 0
  PROVE  DecVarnat(s) = Ok(0, 1)
<1>1. Prefix(EncVarnat(0), s)
  <2>1. Len(<<0>>) = 1 /\ <<0>>[1] = 0
    OBVIOUS
  <2>2. Prefix(<<0>>, s)
    BY <2>1 DEF Prefix
  <2> QED BY <2>2, ZeroWord
<1>2. DecVarnat(s) = Ok(0, Len(EncVarnat(0)))
  BY <1>1, ZeroWord, WordAhead
<1>3. Len(EncVarnat(0)) = 1
  BY ZeroWord
<1> QED BY <1>2, <1>3

\* An envelope read.
Read(a, b, p, n) == Ok([version |-> a, fingerprint |-> b, payload |-> p], n)

\* The fields of an envelope read.
LEMMA ReadFields ==
  ASSUME NEW a, NEW b, NEW p, NEW n
  PROVE  /\ Read(a, b, p, n).verdict = "ok" /\ Read(a, b, p, n).used = n
         /\ Read(a, b, p, n).val.version = a /\ Read(a, b, p, n).val.fingerprint = b
         /\ Read(a, b, p, n).val.payload = p
BY DEF Read, Ok

\* The three numbers an envelope begins with, and the bytes of each.
Numbers(s, a, i, b, j, c, k) ==
  /\ a \in Nat /\ b \in Nat /\ c \in Nat /\ i \in Nat /\ j \in Nat /\ k \in Nat
  /\ DecVarnat(s) = Ok(a, i) /\ DecVarnat(From(s, i)) = Ok(b, j)
  /\ DecVarnat(From(s, i + j)) = Ok(c, k)

\* What they make of the bytes from m on, behind the first two.
Assembly(s, m, a, b, c, k) ==
  IF Len(From(s, m)) - k < c THEN Torn
  ELSE Read(a, b, SubSeq(From(s, m), k + 1, k + c), m + (k + c))

\* An envelope from its three numbers: it is there when as many bytes follow the third
\* as it says.
LEMMA Assembled ==
  ASSUME NEW s \in Seq(Byte), NEW a, NEW i, NEW b, NEW j, NEW c, NEW k,
         Numbers(s, a, i, b, j, c, k)
  PROVE  DecEnvelopePrefix(s) = Assembly(s, i + j, a, b, c, k)
<1>0. /\ a \in Nat /\ b \in Nat /\ c \in Nat /\ i \in Nat /\ j \in Nat /\ k \in Nat
      /\ DecVarnat(s) = Ok(a, i) /\ DecVarnat(From(s, i)) = Ok(b, j)
      /\ DecVarnat(From(s, i + j)) = Ok(c, k)
  BY DEF Numbers
<1> DEFINE t == From(s, i + j)
           v == DecVarnat(s)
           f == DecVarnat(From(s, v.used))
           p == DecBytes(From(s, v.used + f.used))
<1>1. v.verdict = "ok" /\ v.val = a /\ v.used = i
  BY <1>0, Verdicts
<1>2. f.verdict = "ok" /\ f.val = b /\ f.used = j
  <2>1. f = DecVarnat(From(s, i))
    BY <1>1
  <2> QED BY <1>0, <2>1, Verdicts
<1>3. p = DecBytes(t)
  <2>1. v.used + f.used = i + j
    <3> HIDE DEF v, f
    <3> QED BY <1>1, <1>2
  <2> HIDE DEF v, f
  <2> QED BY <2>1
<1>4. DecBytes(t) = IF Len(t) - k < c THEN Torn ELSE Ok(SubSeq(t, k + 1, k + c), k + c)
  <2>1. DecVarnat(t).verdict = "ok" /\ DecVarnat(t).val = c /\ DecVarnat(t).used = k
    BY <1>0, Verdicts
  <2> HIDE DEF t
  <2> QED BY <2>1 DEF DecBytes
<1>5. DecEnvelopePrefix(s) =
        IF v.verdict # "ok" THEN v ELSE IF f.verdict # "ok" THEN f
        ELSE IF p.verdict # "ok" THEN p
        ELSE Ok([version |-> v.val, fingerprint |-> f.val, payload |-> p.val],
                v.used + f.used + p.used)
  BY DEF DecEnvelopePrefix
<1> HIDE DEF t, v, f, p
<1>6. DecEnvelopePrefix(s) =
        IF p.verdict # "ok" THEN p
        ELSE Ok([version |-> a, fingerprint |-> b, payload |-> p.val], i + j + p.used)
  BY <1>1, <1>2, <1>5
<1>7. CASE Len(t) - k < c
  BY <1>3, <1>4, <1>6, <1>7, Verdicts DEF t, Assembly
<1>8. CASE ~(Len(t) - k < c)
  <2> DEFINE x == SubSeq(t, k + 1, k + c)
             y == k + c
  <2>1. p = Ok(x, y)
    BY <1>3, <1>4, <1>8
  <2> HIDE DEF x, y
  <2>2. p.verdict = "ok" /\ p.val = x /\ p.used = y
    BY <2>1, Verdicts
  <2>3. DecEnvelopePrefix(s) =
          Ok([version |-> a, fingerprint |-> b, payload |-> x], i + j + y)
    BY <1>6, <2>2
  <2> QED BY <1>8, <2>3 DEF x, y, t, Read, Assembly
<1> QED BY <1>7, <1>8 DEF t

\* An envelope decoded lies within the bytes there are.
LEMMA EnvelopeUsed ==
  ASSUME NEW s \in Seq(Byte), DecEnvelopePrefix(s).verdict = "ok"
  PROVE  DecEnvelopePrefix(s).used <= Len(s)
<1> DEFINE v == DecVarnat(s)
           f == DecVarnat(From(s, v.used))
           t == From(s, v.used + f.used)
           n == DecVarnat(t)
           p == DecBytes(t)
<1>1. DecEnvelopePrefix(s) =
        IF v.verdict # "ok" THEN v ELSE IF f.verdict # "ok" THEN f
        ELSE IF p.verdict # "ok" THEN p
        ELSE Ok([version |-> v.val, fingerprint |-> f.val, payload |-> p.val],
                v.used + f.used + p.used)
  BY DEF DecEnvelopePrefix
<1>2. /\ v.verdict = "ok" /\ f.verdict = "ok" /\ p.verdict = "ok"
      /\ DecEnvelopePrefix(s).used = v.used + f.used + p.used
  <2> HIDE DEF v, f, p
  <2> QED BY <1>1, Verdicts
<1>3. v.used \in 1..Len(s)
  BY <1>2, VarnatOk
<1>4. From(s, v.used) \in Seq(Byte) /\ Len(From(s, v.used)) = Len(s) - v.used
  <2> HIDE DEF v
  <2> QED BY <1>3, Tails
<1>5. f.used \in 1..(Len(s) - v.used)
  <2>1. f.used \in 1..Len(From(s, v.used))
    <3> HIDE DEF v
    <3> QED BY <1>2, <1>4, VarnatOk
  <2> HIDE DEF v, f
  <2> QED BY <1>4, <2>1
<1>6. t \in Seq(Byte) /\ Len(t) = Len(s) - (v.used + f.used)
  <2>1. v.used + f.used \in 0..Len(s)
    <3> HIDE DEF v, f
    <3> QED BY <1>3, <1>5
  <2> HIDE DEF v, f
  <2> QED BY <2>1, Tails
<1>7. p = IF n.verdict # "ok" THEN n ELSE IF Len(t) - n.used < n.val THEN Torn
          ELSE Ok(SubSeq(t, n.used + 1, n.used + n.val), n.used + n.val)
  BY DEF DecBytes
<1>8. /\ n.verdict = "ok" /\ ~(Len(t) - n.used < n.val) /\ p.used = n.used + n.val
  <2> HIDE DEF n, p, t, v, f
  <2> QED BY <1>2, <1>7, Verdicts
<1>9. n.used \in 1..Len(t) /\ n.val \in Nat
  <2>1. n.used \in 1..Len(t) /\ n.val \in Word
    <3> HIDE DEF t, v, f
    <3> QED BY <1>6, <1>8, VarnatOk
  <2> HIDE DEF n
  <2> QED BY <2>1, Bases DEF Word
<1> HIDE DEF v, f, t, n, p
<1> QED BY <1>2, <1>3, <1>5, <1>6, <1>8, <1>9

\* A stream that begins with a \o b begins with a, and what follows that with b.
LEMMA PrefixSplit ==
  ASSUME NEW a \in Seq(Byte), NEW b \in Seq(Byte), NEW s \in Seq(Byte), Prefix(a \o b, s)
  PROVE  /\ Prefix(a, s) /\ Len(a) \in 0..Len(s)
         /\ From(s, Len(a)) \in Seq(Byte) /\ Prefix(b, From(s, Len(a)))
<1> DEFINE n == Len(a)
           t == From(s, n)
<1>1. /\ Len(a \o b) = n + Len(b) /\ n \in Nat /\ Len(b) \in Nat /\ Len(s) \in Nat
      /\ \A i \in 1..n : (a \o b)[i] = a[i]
      /\ \A i \in 1..Len(b) : (a \o b)[n + i] = b[i]
  OBVIOUS
<1>2. n + Len(b) <= Len(s) /\ \A i \in 1..(n + Len(b)) : (a \o b)[i] = s[i]
  BY <1>1 DEF Prefix
<1>3. n \in 0..Len(s)
  BY <1>1, <1>2
<1>4. \A i \in 1..n : i \in 1..(n + Len(b))
  BY <1>1
<1>5. \A i \in 1..Len(b) : n + i \in 1..(n + Len(b))
  BY <1>1
<1>6. Prefix(a, s)
  BY <1>1, <1>2, <1>3, <1>4 DEF Prefix
<1>7. t \in Seq(Byte) /\ Len(t) = Len(s) - n /\ \A i \in 1..(Len(s) - n) : t[i] = s[n + i]
  BY <1>3, Tails
<1>8. \A i \in 1..Len(b) : b[i] = s[n + i] /\ i \in 1..(Len(s) - n)
  BY <1>1, <1>2, <1>5, SMTT(60)
<1> HIDE DEF n, t
<1>9. Prefix(b, t)
  BY <1>1, <1>2, <1>7, <1>8 DEF Prefix
<1> QED BY <1>3, <1>6, <1>7, <1>9 DEF n, t

\* What is left of what is left.
LEMMA TailOfTail ==
  ASSUME NEW s \in Seq(Byte), NEW i \in 0..Len(s), NEW j \in 0..(Len(s) - i)
  PROVE  From(From(s, i), j) = From(s, i + j)
<1> DEFINE t == From(s, i)
<1>1. t \in Seq(Byte) /\ Len(t) = Len(s) - i /\ \A m \in 1..(Len(s) - i) : t[m] = s[i + m]
  BY Tails
<1> HIDE DEF t
<1>2. /\ From(t, j) \in Seq(Byte) /\ Len(From(t, j)) = Len(s) - i - j
      /\ \A m \in 1..(Len(s) - i - j) : From(t, j)[m] = t[j + m]
  <2>1. j \in 0..Len(t)
    BY <1>1
  <2> QED BY ZenonT(60), <1>1, <2>1, Tails
<1>3. i + j \in 0..Len(s)
  OBVIOUS
<1>4. /\ From(s, i + j) \in Seq(Byte) /\ Len(From(s, i + j)) = Len(s) - (i + j)
      /\ \A m \in 1..(Len(s) - (i + j)) : From(s, i + j)[m] = s[i + j + m]
  BY <1>3, Tails
<1>5. \A m \in 1..(Len(s) - i - j) : From(t, j)[m] = From(s, i + j)[m]
  <2> SUFFICES ASSUME NEW m \in 1..(Len(s) - i - j) PROVE From(t, j)[m] = From(s, i + j)[m]
    OBVIOUS
  <2>1. j + m \in 1..(Len(s) - i) /\ i + (j + m) = i + j + m /\ m \in 1..(Len(s) - (i + j))
    OBVIOUS
  <2> QED BY <1>1, <1>2, <1>4, <2>1
<1>6. Len(s) - i - j = Len(s) - (i + j)
  OBVIOUS
<1>7. From(t, j) = From(s, i + j)
  <2>1. \A x, y \in Seq(Byte) : Len(x) = Len(y) /\ (\A m \in 1..Len(x) : x[m] = y[m]) => x = y
    OBVIOUS
  <2> QED BY <1>2, <1>4, <1>5, <1>6, <2>1
<1> QED BY <1>7 DEF t

\* The first bytes of s are p, cut out of it.
LEMMA CutOut ==
  ASSUME NEW p \in Seq(Byte), NEW t \in Seq(Byte), NEW k \in 0..Len(t), Prefix(p, From(t, k))
  PROVE  SubSeq(t, k + 1, k + Len(p)) = p /\ k + Len(p) <= Len(t)
<1>1. /\ Len(From(t, k)) = Len(t) - k
      /\ \A i \in 1..(Len(t) - k) : From(t, k)[i] = t[k + i]
  BY Tails
<1>2. Len(p) <= Len(t) - k /\ \A i \in 1..Len(p) : p[i] = t[k + i]
  <2>1. Len(p) <= Len(t) - k /\ \A i \in 1..Len(p) : p[i] = From(t, k)[i]
    BY <1>1 DEF Prefix
  <2>2. \A i \in 1..Len(p) : i \in 1..(Len(t) - k)
    BY <2>1
  <2> QED BY <1>1, <2>1, <2>2
<1>3. SubSeq(t, k + 1, k + Len(p)) \in Seq(Byte) /\ Len(SubSeq(t, k + 1, k + Len(p))) = Len(p)
  BY <1>2
<1>4. \A i \in 1..Len(p) : SubSeq(t, k + 1, k + Len(p))[i] = p[i]
  BY <1>2
<1>5. \A x, y \in Seq(Byte) : Len(x) = Len(y) /\ (\A m \in 1..Len(x) : x[m] = y[m]) => x = y
  BY SMTT(60)
<1> QED BY <1>2, <1>3, <1>4, <1>5

\* A record's three numbers are words, and its parts are bytes.
LEMMA RecordParts ==
  ASSUME NEW e \in Entries
  PROVE  /\ VERSION \in Word \ {0} /\ Fingerprint \in Word /\ Len(EncEntry(e)) \in Word
         /\ EncVarnat(VERSION) \in Seq(Byte) /\ EncVarnat(Fingerprint) \in Seq(Byte)
         /\ EncVarnat(Len(EncEntry(e))) \in Seq(Byte) /\ EncEntry(e) \in Seq(Byte)
         /\ Len(EncVarnat(VERSION)) \in Nat \ {0} /\ Len(EncVarnat(Fingerprint)) \in Nat \ {0}
         /\ Len(EncVarnat(Len(EncEntry(e)))) \in Nat \ {0}
         /\ DecEntry(EncEntry(e)) = Ok(e, Len(EncEntry(e)))
<1>1. /\ VERSION \in Word \ {0} /\ Fingerprint \in Word /\ Len(EncEntry(e)) \in Word
      /\ EncEntry(e) \in Seq(Byte) /\ DecEntry(EncEntry(e)) = Ok(e, Len(EncEntry(e)))
  BY ScanAssumption
<1>2. \A w \in Word : w \in Nat
  BY Bases DEF Word
<1>3. VERSION \in Nat /\ Fingerprint \in Nat /\ Len(EncEntry(e)) \in Nat
  BY <1>1, <1>2
<1> QED BY <1>1, <1>3, EncBytesType

\* A record is its parts one behind the other.
LEMMA RecordIs ==
  ASSUME NEW e \in Entries
  PROVE  /\ Record(e) \in Seq(Byte)
         /\ Record(e) = EncVarnat(VERSION) \o (EncVarnat(Fingerprint)
                          \o (EncVarnat(Len(EncEntry(e))) \o EncEntry(e)))
         /\ Len(Record(e)) = Len(EncVarnat(VERSION)) + Len(EncVarnat(Fingerprint))
                               + Len(EncVarnat(Len(EncEntry(e)))) + Len(EncEntry(e))
         /\ Len(Record(e)) \in Nat \ {0}
<1> DEFINE v == EncVarnat(VERSION)
           f == EncVarnat(Fingerprint)
           n == EncVarnat(Len(EncEntry(e)))
           p == EncEntry(e)
<1>1. /\ v \in Seq(Byte) /\ f \in Seq(Byte) /\ n \in Seq(Byte) /\ p \in Seq(Byte)
      /\ Len(v) \in Nat \ {0} /\ Len(f) \in Nat \ {0} /\ Len(n) \in Nat \ {0}
  BY RecordParts
<1>2. Record(e) = v \o f \o (n \o p)
  BY DEF Record, EncEnvelope, EncBytes
<1> HIDE DEF v, f, n, p
<1>3. \A x, y, z \in Seq(Byte) : x \o y \o z = x \o (y \o z)
  OBVIOUS
<1>4. n \o p \in Seq(Byte) /\ Len(n \o p) = Len(n) + Len(p)
  BY <1>1
<1>5. v \o f \o (n \o p) = v \o (f \o (n \o p))
  BY ZenonT(60), <1>1, <1>3, <1>4
<1>6. f \o (n \o p) \in Seq(Byte) /\ Len(f \o (n \o p)) = Len(f) + (Len(n) + Len(p))
  BY <1>1, <1>4
<1>7. /\ v \o (f \o (n \o p)) \in Seq(Byte)
      /\ Len(v \o (f \o (n \o p))) = Len(v) + (Len(f) + (Len(n) + Len(p)))
  BY <1>1, <1>6
<1>8. Len(p) \in Nat
  BY <1>1
<1>9. Len(v) + (Len(f) + (Len(n) + Len(p))) = Len(v) + Len(f) + Len(n) + Len(p)
      /\ Len(v) + Len(f) + Len(n) + Len(p) \in Nat \ {0}
  BY <1>1, <1>8
<1>10. /\ Record(e) \in Seq(Byte) /\ Record(e) = v \o (f \o (n \o p))
       /\ Len(Record(e)) = Len(v) + Len(f) + Len(n) + Len(p) /\ Len(Record(e)) \in Nat \ {0}
  BY <1>2, <1>5, <1>7, <1>9
<1> QED BY <1>10 DEF v, f, n, p

\* What Envelope is of a record.
Written(e) == Read(VERSION, Fingerprint, EncEntry(e), Len(Record(e)))

\* A whole record is read back, whatever follows it.
LEMMA RecordAhead ==
  ASSUME NEW e \in Entries, NEW s \in Seq(Byte), Prefix(Record(e), s)
  PROVE  DecEnvelopePrefix(s) = Written(e)
<1> DEFINE v == EncVarnat(VERSION)
           f == EncVarnat(Fingerprint)
           p == EncEntry(e)
           n == EncVarnat(Len(p))
           i == Len(v)
           j == Len(f)
           k == Len(n)
           t == From(s, i + j)
<1>1. /\ v \in Seq(Byte) /\ f \in Seq(Byte) /\ n \in Seq(Byte) /\ p \in Seq(Byte)
      /\ Record(e) = v \o (f \o (n \o p)) /\ Len(Record(e)) = i + j + k + Len(p)
      /\ VERSION \in Word /\ Fingerprint \in Word /\ Len(p) \in Word
  BY RecordParts, RecordIs
<1>2. /\ DecVarnat(s) = Ok(VERSION, i)
      /\ i \in 0..Len(s) /\ From(s, i) \in Seq(Byte) /\ Prefix(f \o (n \o p), From(s, i))
  <2>1. f \o (n \o p) \in Seq(Byte)
    BY <1>1
  <2>2. Prefix(v, s) /\ i \in 0..Len(s) /\ From(s, i) \in Seq(Byte) /\ Prefix(f \o (n \o p), From(s, i))
    <3> HIDE DEF v, f, n, p
    <3> QED BY ZenonT(60), <1>1, <2>1, PrefixSplit
  <2>3. DecVarnat(s) = Ok(VERSION, Len(EncVarnat(VERSION)))
    BY <1>1, <2>2, WordAhead
  <2> QED BY <2>2, <2>3
<1>3. /\ DecVarnat(From(s, i)) = Ok(Fingerprint, j)
      /\ j \in 0..Len(From(s, i)) /\ From(From(s, i), j) \in Seq(Byte)
      /\ Prefix(n \o p, From(From(s, i), j))
  <2>1. n \o p \in Seq(Byte)
    BY <1>1
  <2>2. /\ Prefix(f, From(s, i)) /\ j \in 0..Len(From(s, i)) /\ From(From(s, i), j) \in Seq(Byte)
        /\ Prefix(n \o p, From(From(s, i), j))
    <3> DEFINE u == From(s, i)
    <3>1. u \in Seq(Byte) /\ Prefix(f \o (n \o p), u)
      BY <1>2
    <3> HIDE DEF u, f, n, p
    <3>2. Prefix(f, u) /\ Len(f) \in 0..Len(u) /\ From(u, Len(f)) \in Seq(Byte)
          /\ Prefix(n \o p, From(u, Len(f)))
      BY <1>1, <2>1, <3>1, PrefixSplit
    <3> QED BY <3>2 DEF u
  <2>3. DecVarnat(From(s, i)) = Ok(Fingerprint, Len(EncVarnat(Fingerprint)))
    <3> HIDE DEF i
    <3> QED BY <1>1, <1>2, <2>2, WordAhead
  <2> QED BY <2>2, <2>3
<1>4. From(From(s, i), j) = t /\ i + j \in 0..Len(s)
  <2>1. Len(From(s, i)) = Len(s) - i
    <3> HIDE DEF i
    <3> QED BY <1>2, Tails
  <2> HIDE DEF i, j
  <2>2. j \in 0..(Len(s) - i) /\ i \in 0..Len(s)
    BY <1>2, <1>3, <2>1
  <2>3. i + j \in 0..Len(s)
    BY <2>2
  <2> QED BY <2>2, <2>3, TailOfTail DEF t
<1>5. /\ DecVarnat(t) = Ok(Len(p), k) /\ t \in Seq(Byte)
      /\ k \in 0..Len(t) /\ Prefix(p, From(t, k))
  <2>1. t \in Seq(Byte) /\ Prefix(n \o p, t)
    BY <1>3, <1>4
  <2>2. Prefix(n, t) /\ k \in 0..Len(t) /\ Prefix(p, From(t, k))
    <3> HIDE DEF t, n, p
    <3> QED BY <1>1, <2>1, PrefixSplit
  <2>3. DecVarnat(t) = Ok(Len(p), Len(EncVarnat(Len(p))))
    <3> HIDE DEF t, p
    <3> QED BY <1>1, <2>1, <2>2, WordAhead DEF n
  <2> QED BY <2>1, <2>2, <2>3
<1>6. SubSeq(t, k + 1, k + Len(p)) = p /\ ~(Len(t) - k < Len(p))
  <2> HIDE DEF t, p, k
  <2>1. SubSeq(t, k + 1, k + Len(p)) = p /\ k + Len(p) <= Len(t)
    BY <1>1, <1>5, CutOut
  <2>2. k \in Nat /\ Len(p) \in Nat /\ Len(t) \in Nat
    BY <1>1, <1>5
  <2> QED BY <2>1, <2>2
<1>7. VERSION \in Nat /\ Fingerprint \in Nat /\ Len(p) \in Nat /\ i \in Nat /\ j \in Nat /\ k \in Nat
  <2>1. \A w \in Word : w \in Nat
    BY Bases DEF Word
  <2> QED BY <1>1, <2>1
<1> HIDE DEF v, f, p, n, i, j, k
<1>8. DecEnvelopePrefix(s) = Assembly(s, i + j, VERSION, Fingerprint, Len(p), k)
  <2>1. Numbers(s, VERSION, i, Fingerprint, j, Len(p), k)
    BY <1>2, <1>3, <1>5, <1>7 DEF Numbers, t
  <2> QED BY <2>1, Assembled
<1>9. i + j + (k + Len(p)) = i + j + k + Len(p)
  BY <1>7
<1> QED BY <1>1, <1>6, <1>8, <1>9 DEF t, p, Written, Assembly

\* A record cut short is torn.
LEMMA RecordCut ==
  ASSUME NEW e \in Entries, NEW s \in Seq(Byte), Prefix(s, Record(e)), Len(s) < Len(Record(e))
  PROVE  DecEnvelopePrefix(s).verdict = "torn"
<1> SUFFICES ASSUME DecEnvelopePrefix(s).verdict # "torn" PROVE FALSE
  OBVIOUS
<1>1. Record(e) \in Seq(Byte) /\ Len(Record(e)) \in Nat
  BY RecordIs
<1>2. Prefix(Record(e), Record(e))
  BY <1>1 DEF Prefix
<1>3. DecEnvelopePrefix(Record(e)) = Written(e)
  BY <1>1, <1>2, RecordAhead
<1>4. DecEnvelopePrefix(s) = Written(e)
  BY <1>1, <1>3, EnvelopeFinal
<1>5. DecEnvelopePrefix(s).verdict = "ok" /\ DecEnvelopePrefix(s).used = Len(Record(e))
  BY <1>4, ReadFields DEF Written
<1>6. Len(Record(e)) <= Len(s) /\ Len(s) \in Nat
  BY <1>5, EnvelopeUsed
<1> QED BY <1>1, <1>6

\* Bytes that begin with a zero are no record of this version.
LEMMA NoRecordInZeros ==
  ASSUME NEW s \in Seq(Byte), Len(s) >= 1, s[1] = 0, DecEnvelopePrefix(s).verdict = "ok"
  PROVE  DecEnvelopePrefix(s).val.version = 0
<1> DEFINE v == DecVarnat(s)
           f == DecVarnat(From(s, v.used))
           p == DecBytes(From(s, v.used + f.used))
           r == [version |-> v.val, fingerprint |-> f.val, payload |-> p.val]
<1>1. v.val = 0
  BY ZeroAhead, Verdicts
<1>2. DecEnvelopePrefix(s) = IF v.verdict # "ok" THEN v ELSE IF f.verdict # "ok" THEN f
                             ELSE IF p.verdict # "ok" THEN p ELSE Ok(r, v.used + f.used + p.used)
  BY DEF DecEnvelopePrefix
<1>3. r.version = 0
  BY <1>1
<1> HIDE DEF v, f, p, r
<1>4. DecEnvelopePrefix(s) = Ok(r, v.used + f.used + p.used)
  BY <1>2
<1> QED BY <1>3, <1>4, Verdicts

\* The verdict and the version of an assembly.
LEMMA AssemblyReads ==
  ASSUME NEW s, NEW m, NEW a, NEW b, NEW c, NEW k
  PROVE  LET d == Assembly(s, m, a, b, c, k)
         IN IF Len(From(s, m)) - k < c THEN d.verdict = "torn"
            ELSE d.verdict = "ok" /\ d.val.version = a
<1>1. CASE Len(From(s, m)) - k < c
  BY <1>1, Verdicts DEF Assembly
<1>2. CASE ~(Len(From(s, m)) - k < c)
  BY <1>2, ReadFields DEF Assembly
<1> QED BY <1>1, <1>2

\* Where a record's numbers stand when it is read behind other bytes.
LEMMA NumbersBehind ==
  ASSUME NEW e \in Entries, NEW s \in Seq(Byte), NEW z \in 0..Len(s), Prefix(Record(e), From(s, z))
  PROVE  /\ DecVarnat(From(s, z)) = Ok(VERSION, Len(EncVarnat(VERSION)))
         /\ DecVarnat(From(s, z + Len(EncVarnat(VERSION))))
              = Ok(Fingerprint, Len(EncVarnat(Fingerprint)))
         /\ z + Len(EncVarnat(VERSION)) + Len(EncVarnat(Fingerprint)) <= Len(s)
<1> DEFINE v == EncVarnat(VERSION)
           f == EncVarnat(Fingerprint)
           r == EncVarnat(Len(EncEntry(e))) \o EncEntry(e)
           t == From(s, z)
<1>1. /\ v \in Seq(Byte) /\ f \in Seq(Byte) /\ r \in Seq(Byte) /\ f \o r \in Seq(Byte)
      /\ Record(e) = v \o (f \o r) /\ VERSION \in Word /\ Fingerprint \in Word
  <2>1. EncVarnat(Len(EncEntry(e))) \in Seq(Byte) /\ EncEntry(e) \in Seq(Byte) /\ f \in Seq(Byte)
    BY RecordParts
  <2>2. r \in Seq(Byte)
    BY <2>1
  <2>3. f \o r \in Seq(Byte)
    <3> HIDE DEF f, r
    <3> QED BY <2>1, <2>2
  <2> QED BY <2>2, <2>3, RecordParts, RecordIs
<1>2. t \in Seq(Byte) /\ Len(t) = Len(s) - z
  BY Tails
<1> HIDE DEF v, f, r, t
<1>3. /\ Prefix(v, t) /\ Len(v) \in 0..Len(t) /\ From(t, Len(v)) \in Seq(Byte)
      /\ Prefix(f \o r, From(t, Len(v)))
  <2>1. Prefix(v \o (f \o r), t)
    BY <1>1 DEF t
  <2> QED BY <1>1, <1>2, <2>1, PrefixSplit
<1>4. DecVarnat(t) = Ok(VERSION, Len(v))
  BY <1>1, <1>2, <1>3, WordAhead DEF v
<1>5. Prefix(f, From(t, Len(v))) /\ Len(f) \in 0..Len(From(t, Len(v)))
  BY <1>1, <1>3, PrefixSplit
<1>6. DecVarnat(From(t, Len(v))) = Ok(Fingerprint, Len(f))
  BY <1>1, <1>3, <1>5, WordAhead DEF f
<1>7. From(t, Len(v)) = From(s, z + Len(v)) /\ Len(From(t, Len(v))) = Len(s) - z - Len(v)
  <2>1. Len(v) \in 0..(Len(s) - z)
    BY <1>2, <1>3
  <2>2. From(From(s, z), Len(v)) = From(s, z + Len(v))
    BY <2>1, TailOfTail
  <2>3. Len(From(t, Len(v))) = Len(t) - Len(v)
    BY <1>2, <1>3, Tails
  <2> QED BY <1>2, <2>2, <2>3 DEF t
<1>8. z + Len(v) + Len(f) <= Len(s)
  BY <1>3, <1>5, <1>7
<1> QED BY <1>4, <1>6, <1>7, <1>8 DEF v, f, t

\* What z zeros in front of a record make of its numbers.
Asks(z) == IF z = 1 THEN Fingerprint ELSE IF z = 2 THEN VERSION ELSE 0
Behind(z) == IF z = 1 THEN 1 + Len(EncVarnat(VERSION)) + Len(EncVarnat(Fingerprint))
             ELSE IF z = 2 THEN 2 + Len(EncVarnat(VERSION)) ELSE 3

\* Zeros are read for the first numbers of an envelope: its version is 0, unless it
\* asks for more bytes than there are.
LEMMA GapReads ==
  ASSUME NEW e \in Entries, NEW s \in Seq(Byte), NEW z \in 1..Len(s), \A i \in 1..z : s[i] = 0,
         Prefix(Record(e), From(s, z))
  PROVE  LET d == DecEnvelopePrefix(s)
         IN IF Len(s) - Behind(z) < Asks(z) THEN d.verdict = "torn"
            ELSE d.verdict = "ok" /\ d.val.version = 0
<1> DEFINE v == EncVarnat(VERSION)
           f == EncVarnat(Fingerprint)
<1>1. /\ DecVarnat(From(s, z)) = Ok(VERSION, Len(v))
      /\ DecVarnat(From(s, z + Len(v))) = Ok(Fingerprint, Len(f))
      /\ z + Len(v) + Len(f) <= Len(s)
  BY NumbersBehind
<1>2. VERSION \in Nat /\ Fingerprint \in Nat /\ Len(v) \in Nat \ {0} /\ Len(f) \in Nat \ {0}
  <2>1. \A w \in Word : w \in Nat
    BY Bases DEF Word
  <2> QED BY <2>1, RecordParts
<1> HIDE DEF v, f
<1>3. DecVarnat(s) = Ok(0, 1)
  BY ZeroAhead
<1>4. \A m \in 0..Len(s) : Len(From(s, m)) = Len(s) - m
  BY Tails
<1>5. ASSUME NEW m \in 0..(Len(s) - 1), m < z PROVE DecVarnat(From(s, m)) = Ok(0, 1)
  <2>1. /\ From(s, m) \in Seq(Byte) /\ Len(From(s, m)) = Len(s) - m
        /\ \A i \in 1..(Len(s) - m) : From(s, m)[i] = s[m + i]
    <3>1. m \in 0..Len(s)
      OBVIOUS
    <3> QED BY <3>1, Tails
  <2>2. From(s, m)[1] = s[m + 1] /\ m + 1 \in 1..z /\ Len(From(s, m)) >= 1
    BY <1>5, <2>1
  <2> QED BY <2>1, <2>2, ZeroAhead
<1>6. CASE z = 1
  <2>1. Numbers(s, 0, 1, VERSION, Len(v), Fingerprint, Len(f))
    BY <1>1, <1>2, <1>3, <1>6 DEF Numbers
  <2>2. DecEnvelopePrefix(s) = Assembly(s, 1 + Len(v), 0, VERSION, Fingerprint, Len(f))
    BY <2>1, Assembled
  <2>3. Len(From(s, 1 + Len(v))) = Len(s) - (1 + Len(v))
    BY <1>1, <1>2, <1>4, <1>6, SMTT(60)
  <2>4. Len(From(s, 1 + Len(v))) - Len(f) = Len(s) - Behind(z) /\ Asks(z) = Fingerprint
    BY <1>2, <1>6, <2>3 DEF Behind, Asks, v, f
  <2> QED BY <2>2, <2>4, AssemblyReads
<1>7. CASE z = 2
  <2>1. DecVarnat(From(s, 1)) = Ok(0, 1)
    BY <1>5, <1>7
  <2>2. Numbers(s, 0, 1, 0, 1, VERSION, Len(v))
    BY <1>1, <1>2, <1>3, <1>7, <2>1 DEF Numbers
  <2>3. DecEnvelopePrefix(s) = Assembly(s, 2, 0, 0, VERSION, Len(v))
    <3>1. DecEnvelopePrefix(s) = Assembly(s, 1 + 1, 0, 0, VERSION, Len(v))
      BY <2>2, Assembled
    <3> QED BY <3>1
  <2>4. Len(From(s, 2)) - Len(v) = Len(s) - Behind(z) /\ Asks(z) = VERSION
    <3>1. Len(From(s, 2)) = Len(s) - 2
      BY <1>4, <1>7
    <3> QED BY <1>2, <1>7, <3>1 DEF Behind, Asks, v
  <2> QED BY <2>3, <2>4, AssemblyReads
<1>8. CASE z > 2
  <2>1. DecVarnat(From(s, 1)) = Ok(0, 1) /\ DecVarnat(From(s, 2)) = Ok(0, 1)
    BY <1>5, <1>8
  <2>2. Numbers(s, 0, 1, 0, 1, 0, 1)
    BY <1>3, <2>1 DEF Numbers
  <2>3. DecEnvelopePrefix(s) = Assembly(s, 2, 0, 0, 0, 1)
    <3>1. DecEnvelopePrefix(s) = Assembly(s, 1 + 1, 0, 0, 0, 1)
      BY <2>2, Assembled
    <3> QED BY <3>1
  <2>4. Len(From(s, 2)) - 1 = Len(s) - Behind(z) /\ Asks(z) = 0
    <3>1. Len(From(s, 2)) = Len(s) - 2
      BY <1>4, <1>8
    <3> QED BY <1>8, <3>1 DEF Behind, Asks
  <2> QED BY <2>3, <2>4, AssemblyReads
<1> QED BY <1>6, <1>7, <1>8

-----------------------------------------------------------------------------
(* The scan.  What is in the file is where its records say (Layout,        *)
(* Contents), the scan has passed the records it found (Passed), and it    *)
(* stopped for a reason (Stopped).                                         *)

\* Where record i begins, if there is no gap in front of it.
Start(i) == IF i = 1 THEN 0 ELSE records[i - 1].end

\* The records as the model keeps them, and the types of the variables.
Spans == [entry : Entries, first : Nat, end : Nat]
ScanTypes ==
  /\ bytes \in Seq(Byte)
  /\ records \in Seq(Spans)
  /\ gap \in [at : Nat, len : Nat]
  /\ seen \in Nat /\ offset \in Nat
  /\ mode \in {"writing", "scanning", "recovered", "refused"}
  /\ found \in Seq(Entries)

\* Records follow one another, but for the gap in front of one of them.
Layout ==
  /\ \A i \in 1..Len(records) :
       /\ records[i].first = Start(i) + (IF gap.at = Start(i) THEN gap.len ELSE 0)
       /\ records[i].end = records[i].first + Len(Record(records[i].entry))
  /\ \A i, j \in 1..Len(records) : i < j => records[i].end <= records[j].first
  /\ gap.len > 0 => \E i \in 1..Len(records) : gap.at = Start(i)

\* What the file has of a record is the record's bytes, and what it has of the gap is zeros.
Contents ==
  /\ \A i \in 1..Len(records) : \A j \in 1..Len(Record(records[i].entry)) :
       records[i].first + j <= Len(bytes) => bytes[records[i].first + j] = Record(records[i].entry)[j]
  /\ \A j \in 1..gap.len : gap.at + j <= Len(bytes) => bytes[gap.at + j] = 0

\* How much of the file there is.
Extent ==
  /\ mode = "writing" => Len(bytes) = Start(Len(records) + 1) /\ found = <<>>
  /\ mode # "writing" => /\ records # <<>>
                         /\ seen \in records[Len(records)].first..records[Len(records)].end
  /\ mode \in {"scanning", "refused"} => Len(bytes) = seen
  /\ mode = "recovered" => Len(bytes) = offset

\* What the scan has passed are the records it found; it does not pass a gap.
Passed ==
  /\ Len(found) <= Len(records) /\ \A i \in 1..Len(found) : found[i] = records[i].entry
  /\ offset = Start(Len(found) + 1)
  /\ mode # "writing" => offset <= seen
  /\ gap.len > 0 => offset <= gap.at

\* The scan stands at the gap.
AtGap == gap.len > 0 /\ gap.at = offset

\* Why it stopped: at a gap for what the gap reads as, else at the first record that is
\* not whole.
Stopped ==
  mode \in {"recovered", "refused"} =>
    /\ AtGap /\ seen = records[Len(records)].end =>
         IF seen - GapPayload < GapLength
         THEN mode = "recovered" ELSE mode = "refused" /\ reason = DeltaError("version", gap.at)
    /\ ~AtGap => /\ mode = "recovered"
                 /\ Len(found) < Len(records) => seen < records[Len(found) + 1].end

\* The inductive invariant of the scan.
ScanInv == ScanTypes /\ Layout /\ Contents /\ Extent /\ Passed /\ Stopped

\* The numbers of a record in the file.
LEMMA RecordFacts ==
  ASSUME ScanTypes, Layout, NEW i \in 1..Len(records)
  PROVE  /\ records[i].entry \in Entries /\ records[i].first \in Nat /\ records[i].end \in Nat
         /\ Record(records[i].entry) \in Seq(Byte) /\ Len(Record(records[i].entry)) \in Nat \ {0}
         /\ records[i].end = records[i].first + Len(Record(records[i].entry))
         /\ Start(i) \in Nat /\ Start(i) <= records[i].first
         /\ records[i].first = Start(i) + (IF gap.at = Start(i) THEN gap.len ELSE 0)
<1>0. \A m \in 1..Len(records) : records[m].entry \in Entries /\ records[m].first \in Nat /\ records[m].end \in Nat
  <2>1. \A m \in 1..Len(records) : records[m] \in Spans
    BY DEF ScanTypes
  <2> QED BY <2>1 DEF Spans
<1>1. /\ records[i].entry \in Entries /\ records[i].first \in Nat /\ records[i].end \in Nat
      /\ gap.len \in Nat
  BY <1>0 DEF ScanTypes
<1>2. i # 1 => records[i - 1].end \in Nat
  <2>1. i # 1 => i - 1 \in 1..Len(records)
    BY DEF ScanTypes
  <2> QED BY <1>0, <2>1
<1>3. Start(i) \in Nat
  BY <1>2 DEF Start
<1>4. Record(records[i].entry) \in Seq(Byte) /\ Len(Record(records[i].entry)) \in Nat \ {0}
  BY <1>1, RecordIs
<1>5. /\ records[i].first = Start(i) + (IF gap.at = Start(i) THEN gap.len ELSE 0)
      /\ records[i].end = records[i].first + Len(Record(records[i].entry))
  BY DEF Layout
<1>6. Start(i) <= records[i].first
  BY <1>1, <1>3, <1>5
<1> QED BY <1>1, <1>3, <1>4, <1>5, <1>6

\* A record ends before the next ones begin.
LEMMA Starts ==
  ASSUME ScanTypes, Layout, NEW j \in 1..(Len(records) + 1), NEW i \in 1..(j - 1)
  PROVE  /\ i \in 1..Len(records) /\ records[i].end <= Start(j) /\ Start(i) < Start(j)
         /\ Start(j) \in Nat /\ Start(i) \in Nat /\ records[i].end \in Nat
<1>1. Len(records) \in Nat
  BY DEF ScanTypes
<1>2. i \in 1..Len(records) /\ j - 1 \in 1..Len(records) /\ j # 1
  BY <1>1
<1>3. Start(j) = records[j - 1].end
  BY <1>2 DEF Start
<1>4. records[i].end <= records[j - 1].end
  <2>0. records[j - 1].end \in Nat
    BY <1>2, RecordFacts
  <2>1. CASE i = j - 1
    BY <2>0, <2>1
  <2>2. CASE i < j - 1
    <3>1. records[i].end <= records[j - 1].first
      <4>1. \A a, b \in 1..Len(records) : a < b => records[a].end <= records[b].first
        BY DEF Layout
      <4> QED BY <1>2, <2>2, <4>1
    <3>2. records[i].end \in Nat
      BY <1>2, RecordFacts
    <3>3. records[j - 1].end = records[j - 1].first + Len(Record(records[j - 1].entry))
          /\ records[j - 1].first \in Nat /\ Len(Record(records[j - 1].entry)) \in Nat
      BY <1>2, RecordFacts
    <3> QED BY <3>1, <3>2, <3>3
  <2> QED BY <1>1, <2>1, <2>2
<1>5. /\ Start(i) \in Nat /\ Start(i) <= records[i].first /\ records[i].first \in Nat
      /\ records[i].end = records[i].first + Len(Record(records[i].entry))
      /\ Len(Record(records[i].entry)) \in Nat \ {0}
  BY <1>2, RecordFacts
<1>6. records[j - 1].end \in Nat
  BY <1>2, RecordFacts
<1> QED BY <1>2, <1>3, <1>4, <1>5, <1>6

\* The gap lies in front of a record that begins within the opened file.
LEMMA GapInside ==
  ASSUME ScanTypes, Layout, Extent, mode # "writing", gap.len > 0
  PROVE  /\ gap.at \in Nat /\ gap.len \in Nat /\ gap.at + gap.len <= seen
         /\ \A i \in 1..Len(records) : gap.at = Start(i) => gap.at + gap.len = records[i].first
<1> DEFINE n == Len(records)
<1>1. gap.at \in Nat /\ gap.len \in Nat /\ n \in Nat /\ seen \in Nat
  BY DEF ScanTypes
<1>2. PICK i \in 1..n : gap.at = Start(i)
  BY DEF Layout
<1>3. ASSUME NEW m \in 1..n, gap.at = Start(m) PROVE gap.at + gap.len = records[m].first
  BY <1>3, RecordFacts
<1>4. n \in 1..n /\ records[n].first \in Nat /\ records[n].first <= seen
  <2>1. n \in 1..n
    BY <1>1, <1>2
  <2>2. records[n].first \in Nat /\ records[n].end \in Nat
    BY <2>1, RecordFacts
  <2> QED BY <1>1, <2>1, <2>2 DEF Extent
<1>5. records[i].first <= seen
  <2>1. CASE i = n
    BY <1>4, <2>1
  <2>2. CASE i < n
    <3>1. records[i].end <= records[n].first
      BY <1>4, <2>2 DEF Layout
    <3>2. /\ records[i].first \in Nat /\ records[i].end \in Nat
          /\ records[i].end = records[i].first + Len(Record(records[i].entry))
          /\ Len(Record(records[i].entry)) \in Nat
      BY RecordFacts
    <3> QED BY <1>1, <1>4, <3>1, <3>2
  <2> QED BY <1>1, <2>1, <2>2
<1> QED BY <1>1, <1>2, <1>3, <1>5

\* The record the scan stands before, and what it looks at.
Ahead == Len(found) + 1
Rest == From(bytes, offset)

\* Where the scan stands while there are bytes left: before a record it has not found.
LEMMA Standing ==
  ASSUME ScanInv, BytesLeft
  PROVE  /\ Ahead \in 1..Len(records) /\ offset = Start(Ahead) /\ offset \in Nat
         /\ Len(bytes) = seen /\ offset < seen /\ seen \in Nat
         /\ Rest \in Seq(Byte) /\ Len(Rest) = seen - offset
         /\ \A i \in 1..(seen - offset) : Rest[i] = bytes[offset + i]
         /\ records[Len(records)].end \in Nat /\ seen <= records[Len(records)].end
         /\ ~AtGap => records[Ahead].first = offset
<1> DEFINE n == Len(records)
<1>1. mode = "scanning" /\ offset < Len(bytes)
  BY DEF BytesLeft
<1>2. ScanTypes /\ Layout /\ Extent /\ Passed
  BY DEF ScanInv
<1>3. /\ n \in Nat /\ Len(found) \in Nat /\ offset \in Nat /\ seen \in Nat /\ bytes \in Seq(Byte)
  BY <1>2 DEF ScanTypes
<1>4. /\ records # <<>> /\ Len(bytes) = seen
      /\ seen \in records[n].first..records[n].end
  BY <1>1, <1>2 DEF Extent
<1>5. n \in 1..n
  BY <1>3, <1>4, <1>2 DEF ScanTypes
<1>6. records[n].end \in Nat /\ records[n].first \in Nat
  BY <1>2, <1>5, RecordFacts
<1>7. Len(found) <= n /\ offset = Start(Ahead)
  BY <1>2 DEF Passed, Ahead
<1>8. Len(found) # n
  <2> SUFFICES ASSUME Len(found) = n PROVE FALSE
    OBVIOUS
  <2>1. offset = records[n].end
    BY <1>3, <1>5, <1>7 DEF Start, Ahead
  <2> QED BY <1>1, <1>3, <1>4, <1>6, <2>1
<1>9. Ahead \in 1..n
  BY <1>3, <1>7, <1>8 DEF Ahead
<1>10. offset \in 0..Len(bytes)
  BY <1>1, <1>3, <1>4
<1>11. Rest \in Seq(Byte) /\ Len(Rest) = Len(bytes) - offset
       /\ \A i \in 1..(Len(bytes) - offset) : Rest[i] = bytes[offset + i]
  BY <1>3, <1>10, Tails DEF Rest
<1>12. ~AtGap => records[Ahead].first = offset
  <2>1. /\ records[Ahead].first = Start(Ahead) + (IF gap.at = Start(Ahead) THEN gap.len ELSE 0)
    BY <1>2, <1>9, RecordFacts
  <2>2. gap.len \in Nat
    BY <1>2 DEF ScanTypes
  <2> QED BY <1>3, <1>7, <2>1, <2>2 DEF AtGap
<1> QED BY <1>1, <1>3, <1>4, <1>6, <1>7, <1>9, <1>11, <1>12

\* Away from a gap it looks at the record's own bytes.
LEMMA LooksAtRecord ==
  ASSUME ScanInv, BytesLeft, ~AtGap
  PROVE  LET r == records[Ahead]
         IN /\ r.entry \in Entries /\ r.end = offset + Len(Record(r.entry))
            /\ r.end <= seen => Prefix(Record(r.entry), Rest)
            /\ ~(r.end <= seen) => Prefix(Rest, Record(r.entry)) /\ Len(Rest) < Len(Record(r.entry))
<1> DEFINE r == records[Ahead]
           R == Record(r.entry)
<1>1. /\ Ahead \in 1..Len(records) /\ offset \in Nat /\ seen \in Nat /\ offset < seen
      /\ Len(bytes) = seen /\ Rest \in Seq(Byte) /\ Len(Rest) = seen - offset
      /\ \A i \in 1..(seen - offset) : Rest[i] = bytes[offset + i]
      /\ r.first = offset
  BY Standing
<1>2. /\ r.entry \in Entries /\ R \in Seq(Byte) /\ Len(R) \in Nat \ {0} /\ r.end = r.first + Len(R)
  BY <1>1, RecordFacts DEF ScanInv
<1>3. \A j \in 1..Len(R) : r.first + j <= Len(bytes) => bytes[r.first + j] = R[j]
  BY <1>1 DEF ScanInv, Contents
<1> HIDE DEF r, R
<1>4. \A j \in 1..Len(R) : j <= seen - offset => Rest[j] = R[j]
  <2> SUFFICES ASSUME NEW j \in 1..Len(R), j <= seen - offset PROVE Rest[j] = R[j]
    OBVIOUS
  <2>1. offset + j <= seen /\ j \in 1..(seen - offset)
    BY <1>1, <1>2
  <2> QED BY <1>1, <1>3, <2>1
<1>5. r.end <= seen => Prefix(R, Rest)
  <2> SUFFICES ASSUME r.end <= seen PROVE Prefix(R, Rest)
    OBVIOUS
  <2>1. Len(R) <= seen - offset
    BY <1>1, <1>2
  <2>2. \A j \in 1..Len(R) : R[j] = Rest[j]
    BY <1>1, <1>2, <1>4, <2>1
  <2> QED BY <1>1, <2>1, <2>2 DEF Prefix
<1>6. ~(r.end <= seen) => Prefix(Rest, R) /\ Len(Rest) < Len(R)
  <2> SUFFICES ASSUME ~(r.end <= seen) PROVE Prefix(Rest, R) /\ Len(Rest) < Len(R)
    OBVIOUS
  <2>1. Len(Rest) < Len(R)
    BY <1>1, <1>2
  <2>2. \A j \in 1..Len(Rest) : Rest[j] = R[j]
    BY <1>1, <1>2, <1>4, <2>1
  <2> QED BY <1>1, <1>2, <2>1, <2>2 DEF Prefix
<1> QED BY <1>1, <1>2, <1>5, <1>6 DEF r, R

\* At a gap it looks at zeros, with a whole record behind them if nothing was cut.
LEMMA LooksAtGap ==
  ASSUME ScanInv, BytesLeft, AtGap
  PROVE  /\ Len(Rest) >= 1 /\ Rest[1] = 0
         /\ seen = records[Len(records)].end =>
              /\ gap.len \in 1..Len(Rest) /\ \A i \in 1..gap.len : Rest[i] = 0
              /\ records[Ahead].entry \in Entries
              /\ Prefix(Record(records[Ahead].entry), From(Rest, gap.len))
<1> DEFINE r == records[Ahead]
           R == Record(r.entry)
           z == gap.len
<1>1. /\ Ahead \in 1..Len(records) /\ offset = Start(Ahead) /\ offset \in Nat
      /\ seen \in Nat /\ offset < seen
      /\ Len(bytes) = seen /\ Rest \in Seq(Byte) /\ Len(Rest) = seen - offset
      /\ \A i \in 1..(seen - offset) : Rest[i] = bytes[offset + i]
  BY Standing
<1>2. /\ r.entry \in Entries /\ R \in Seq(Byte) /\ Len(R) \in Nat \ {0} /\ r.end = r.first + Len(R)
      /\ r.first \in Nat
  BY <1>1, RecordFacts DEF ScanInv
<1>3. z > 0 /\ z \in Nat /\ gap.at = offset /\ offset + z <= seen /\ offset + z = r.first
  <2>1. mode # "writing" /\ z > 0 /\ gap.at = offset
    BY DEF BytesLeft, AtGap
  <2> QED BY <1>1, <2>1, GapInside DEF ScanInv
<1>4. \A j \in 1..z : offset + j <= Len(bytes) => bytes[offset + j] = 0
  BY <1>3 DEF ScanInv, Contents
<1>5. \A j \in 1..Len(R) : r.first + j <= Len(bytes) => bytes[r.first + j] = R[j]
  BY <1>1 DEF ScanInv, Contents
<1>6. seen = records[Len(records)].end => r.end <= seen
  <2>1. Len(records) \in Nat /\ Len(records) + 1 \in 1..(Len(records) + 1)
        /\ Ahead \in 1..(Len(records) + 1 - 1)
    BY <1>1 DEF ScanInv, ScanTypes
  <2>2. r.end <= Start(Len(records) + 1)
    BY <2>1, Starts DEF ScanInv
  <2>3. Start(Len(records) + 1) = records[Len(records)].end
    BY <1>1, <2>1 DEF Start
  <2> QED BY <2>2, <2>3
<1> HIDE DEF r, R, z
<1>7. z \in 1..Len(Rest) /\ \A i \in 1..z : Rest[i] = 0
  <2>1. z \in 1..Len(Rest)
    BY <1>1, <1>3
  <2>2. ASSUME NEW i \in 1..z PROVE Rest[i] = 0
    <3>1. i \in 1..(seen - offset) /\ offset + i <= Len(bytes)
      BY <1>1, <1>3
    <3> QED BY <1>1, <1>4, <3>1
  <2> QED BY <2>1, <2>2
<1>8. seen = records[Len(records)].end => Prefix(R, From(Rest, z))
  <2> SUFFICES ASSUME r.end <= seen PROVE Prefix(R, From(Rest, z))
    BY <1>6
  <2> DEFINE t == From(Rest, z)
  <2>1. /\ t \in Seq(Byte) /\ Len(t) = Len(Rest) - z
        /\ \A i \in 1..(Len(Rest) - z) : t[i] = Rest[z + i]
    <3>1. z \in 0..Len(Rest)
      BY <1>7
    <3> QED BY <1>1, <3>1, Tails
  <2> HIDE DEF t
  <2>2. Len(R) <= Len(t)
    BY SMTT(60), <1>1, <1>2, <1>3, <2>1
  <2>3. ASSUME NEW i \in 1..Len(R) PROVE R[i] = t[i]
    <3>1. /\ i \in 1..(Len(Rest) - z) /\ z + i \in 1..(seen - offset)
          /\ offset + (z + i) = r.first + i /\ r.first + i <= Len(bytes)
      <4>1. i \in Nat \ {0} /\ i <= Len(R) /\ Len(R) \in Nat /\ Len(t) \in Nat
        BY <1>2, <2>1
      <4>2. i <= Len(Rest) - z
        BY <2>1, <2>2, <4>1
      <4>3. Len(Rest) = seen - offset /\ Len(bytes) = seen
        BY <1>1
      <4>4. seen \in Nat /\ offset \in Nat /\ z \in Nat /\ z > 0 /\ offset + z = r.first
        BY <1>1, <1>3
      <4>5. \A a, b, c, d \in Nat : d >= 1 /\ d <= (a - b) - c =>
              d \in 1..((a - b) - c) /\ c + d \in 1..(a - b) /\ b + (c + d) = (b + c) + d /\ (b + c) + d <= a
        OBVIOUS
      <4>6. i >= 1 /\ i <= (seen - offset) - z
        BY <4>1, <4>2, <4>3
      <4>7. /\ i \in 1..((seen - offset) - z) /\ z + i \in 1..(seen - offset)
            /\ offset + (z + i) = (offset + z) + i /\ (offset + z) + i <= seen
        BY <4>1, <4>4, <4>5, <4>6
      <4> QED BY <4>3, <4>4, <4>7
    <3> QED BY ZenonT(60), <1>1, <1>5, <2>1, <3>1
  <2> QED BY <2>2, <2>3 DEF Prefix, t
<1>9. Len(Rest) >= 1 /\ Rest[1] = 0
  BY <1>1, <1>7
<1> QED BY <1>2, <1>7, <1>8, <1>9 DEF r, R, z

\* What the scan reads away from a gap.
LEMMA ReadsRecord ==
  ASSUME ScanInv, BytesLeft, ~AtGap
  PROVE  LET r == records[Ahead]
         IN /\ r.entry \in Entries /\ r.end = offset + Len(Record(r.entry))
            /\ r.end <= seen => /\ Envelope = Written(r.entry) /\ Envelope.verdict = "ok"
                                /\ Envelope.used = Len(Record(r.entry))
                                /\ Objection = "none" /\ Entry.val = r.entry
            /\ ~(r.end <= seen) => Envelope.verdict = "torn"
<1> DEFINE r == records[Ahead]
           e == r.entry
<1>1. /\ e \in Entries /\ r.end = offset + Len(Record(e))
      /\ r.end <= seen => Prefix(Record(e), Rest)
      /\ ~(r.end <= seen) => Prefix(Rest, Record(e)) /\ Len(Rest) < Len(Record(e))
  BY LooksAtRecord
<1>2. Rest \in Seq(Byte) /\ Envelope = DecEnvelopePrefix(Rest)
  BY Standing DEF Envelope, Rest
<1> HIDE DEF r, e
<1>3. ASSUME r.end <= seen
      PROVE  /\ Envelope = Written(e) /\ Envelope.verdict = "ok" /\ Envelope.used = Len(Record(e))
             /\ Objection = "none" /\ Entry.val = e
  <2>1. Envelope = Written(e)
    BY <1>1, <1>2, <1>3, RecordAhead
  <2>2. /\ Envelope.verdict = "ok" /\ Envelope.used = Len(Record(e))
        /\ Envelope.val.version = VERSION /\ Envelope.val.fingerprint = Fingerprint
        /\ Envelope.val.payload = EncEntry(e)
    BY <2>1, ReadFields DEF Written
  <2>3. Entry = Ok(e, Len(EncEntry(e)))
    BY <1>1, <2>2, RecordParts DEF Entry
  <2>4. Entry.verdict = "ok" /\ Entry.val = e
    BY <2>3, Verdicts
  <2> QED BY <2>1, <2>2, <2>4 DEF Objection
<1>4. ASSUME ~(r.end <= seen) PROVE Envelope.verdict = "torn"
  BY <1>1, <1>2, <1>4, RecordCut
<1> QED BY <1>1, <1>3, <1>4 DEF r, e

\* What it reads at a gap: no record, and when nothing was cut the one or the other.
LEMMA ReadsGap ==
  ASSUME ScanInv, BytesLeft, AtGap
  PROVE  /\ Envelope.verdict = "ok" => Objection # "none"
         /\ seen = records[Len(records)].end =>
              IF seen - GapPayload < GapLength THEN Envelope.verdict = "torn"
              ELSE Envelope.verdict = "ok" /\ Objection = "version"
<1>1. /\ Rest \in Seq(Byte) /\ Envelope = DecEnvelopePrefix(Rest) /\ Len(Rest) = seen - offset
      /\ seen \in Nat /\ offset \in Nat
  BY Standing DEF Envelope, Rest
<1>2. /\ Len(Rest) >= 1 /\ Rest[1] = 0
      /\ seen = records[Len(records)].end =>
           /\ gap.len \in 1..Len(Rest) /\ \A i \in 1..gap.len : Rest[i] = 0
           /\ records[Ahead].entry \in Entries
           /\ Prefix(Record(records[Ahead].entry), From(Rest, gap.len))
  BY LooksAtGap
<1>3. VERSION # 0
  BY ScanAssumption
<1>4. Envelope.verdict = "ok" => Envelope.val.version = 0
  BY <1>1, <1>2, NoRecordInZeros
<1>5. Envelope.verdict = "ok" => Objection = "version"
  <2>1. "ok" # "corrupt"
    OBVIOUS
  <2> QED BY <1>3, <1>4, <2>1 DEF Objection
<1>6. ASSUME seen = records[Len(records)].end
      PROVE  IF seen - GapPayload < GapLength THEN Envelope.verdict = "torn" ELSE Envelope.verdict = "ok"
  <2> DEFINE d == DecEnvelopePrefix(Rest)
             z == gap.len
  <2>1. IF Len(Rest) - Behind(z) < Asks(z) THEN d.verdict = "torn"
        ELSE d.verdict = "ok" /\ d.val.version = 0
    <3>1. z \in 1..Len(Rest) /\ (\A i \in 1..z : Rest[i] = 0)
          /\ records[Ahead].entry \in Entries
          /\ Prefix(Record(records[Ahead].entry), From(Rest, z))
      BY <1>2, <1>6
    <3> HIDE DEF z, d
    <3> QED BY <1>1, <3>1, GapReads DEF d
  <2>2. Asks(z) = GapLength
    BY DEF Asks, GapLength
  <2>3. GapPayload = gap.at + Behind(z)
    BY DEF GapPayload, Behind
  <2>4. gap.at = offset
    BY DEF AtGap
  <2>5. Behind(z) \in Nat
    <3>1. Len(EncVarnat(VERSION)) \in Nat /\ Len(EncVarnat(Fingerprint)) \in Nat
      BY <1>2, <1>6, RecordParts
    <3> QED BY <3>1 DEF Behind
  <2> HIDE DEF z, d
  <2>6. Len(Rest) - Behind(z) = seen - GapPayload
    BY <1>1, <2>3, <2>4, <2>5
  <2> QED BY <1>1, <2>1, <2>2, <2>6 DEF d
<1> QED BY <1>5, <1>6

\* A record written behind z zero bytes, which is how both writes end.
Grown(e, z) ==
  /\ bytes' = bytes \o Zeros(z) \o Record(e)
  /\ records' = Append(records,
       [entry |-> e, first |-> Len(bytes) + z, end |-> Len(bytes) + z + Len(Record(e))])

\* The bytes of three sequences one behind the other.
LEMMA Concatenated ==
  ASSUME NEW a \in Seq(Byte), NEW b \in Seq(Byte)
  PROVE  /\ a \o b \in Seq(Byte) /\ Len(a \o b) = Len(a) + Len(b)
         /\ \A i \in 1..Len(a) : (a \o b)[i] = a[i]
         /\ \A i \in 1..Len(b) : (a \o b)[Len(a) + i] = b[i]
OBVIOUS

\* A file that grew holds what it held, then the zeros, then the record.
LEMMA GrownBytes ==
  ASSUME bytes \in Seq(Byte), NEW e \in Entries, NEW z \in Nat, Grown(e, z)
  PROVE  /\ bytes' \in Seq(Byte) /\ Len(bytes') = Len(bytes) + z + Len(Record(e))
         /\ \A i \in 1..Len(bytes) : bytes'[i] = bytes[i]
         /\ \A i \in 1..z : bytes'[Len(bytes) + i] = 0
         /\ \A i \in 1..Len(Record(e)) : bytes'[Len(bytes) + z + i] = Record(e)[i]
<1> DEFINE R == Record(e)
           Z == Zeros(z)
           B == bytes \o Z
<1>1. R \in Seq(Byte) /\ Len(R) \in Nat
  BY RecordIs
<1>2. Z \in Seq(Byte) /\ Len(Z) = z /\ \A i \in 1..z : Z[i] = 0
  <2>1. 0 \in Byte
    BY Bases DEF Byte
  <2> QED BY <2>1 DEF Zeros
<1> HIDE DEF R, Z
<1>3. /\ B \in Seq(Byte) /\ Len(B) = Len(bytes) + z
      /\ \A i \in 1..Len(bytes) : B[i] = bytes[i]
      /\ \A i \in 1..z : B[Len(bytes) + i] = 0
  BY <1>2
<1> HIDE DEF B
<1>4. bytes' = B \o R
  BY DEF Grown, B, R, Z
<1>5. /\ bytes' \in Seq(Byte) /\ Len(bytes') = Len(B) + Len(R)
      /\ \A i \in 1..Len(B) : bytes'[i] = B[i]
      /\ \A i \in 1..Len(R) : bytes'[Len(B) + i] = R[i]
  BY ZenonT(60), <1>1, <1>3, <1>4, Concatenated
<1>6. \A i \in 1..Len(bytes) : i \in 1..Len(B)
  BY <1>3
<1>7. \A i \in 1..z : Len(bytes) + i \in 1..Len(B)
  BY <1>3
<1> QED BY <1>3, <1>5, <1>6, <1>7 DEF R

\* The records of a file that grew are the old ones and one that ends the file.
LEMMA GrownRecords ==
  ASSUME ScanTypes, NEW e \in Entries, NEW z \in Nat, Grown(e, z)
  PROVE  LET n == Len(records)
         IN /\ records' \in Seq(Spans) /\ n \in Nat /\ Len(records') = n + 1
            /\ \A i \in 1..n : records'[i] = records[i]
            /\ records'[n + 1].entry = e /\ records'[n + 1].first = Len(bytes) + z
            /\ records'[n + 1].end = Len(bytes) + z + Len(Record(e))
            /\ \A i \in 1..(n + 1) : Start(i)' = Start(i)
<1> DEFINE n == Len(records)
           r == [entry |-> e, first |-> Len(bytes) + z, end |-> Len(bytes) + z + Len(Record(e))]
<1>1. records \in Seq(Spans) /\ n \in Nat /\ records' = Append(records, r)
  BY DEF ScanTypes, Grown
<1>2. r \in Spans
  <2>1. Len(bytes) \in Nat /\ Len(Record(e)) \in Nat
    BY RecordIs DEF ScanTypes
  <2> QED BY <2>1 DEF Spans
<1>3. r.entry = e /\ r.first = Len(bytes) + z /\ r.end = Len(bytes) + z + Len(Record(e))
  OBVIOUS
<1> HIDE DEF r
<1>4. records' \in Seq(Spans) /\ Len(records') = n + 1 /\ records'[n + 1] = r
      /\ \A i \in 1..n : records'[i] = records[i]
  BY <1>1, <1>2
<1>5. ASSUME NEW i \in 1..(n + 1) PROVE Start(i)' = Start(i)
  <2>1. i # 1 => i - 1 \in 1..n
    BY <1>1
  <2> QED BY <1>4, <2>1 DEF Start
<1> QED BY <1>1, <1>3, <1>4, <1>5

\* Writing a record, behind a gap or not, keeps the invariant.
LEMMA GrownKeeps ==
  ASSUME ScanInv, mode = "writing", NEW e \in Entries, NEW z \in Nat, Grown(e, z),
         \/ z = 0 /\ gap' = gap
         \/ z > 0 /\ gap.len = 0 /\ gap' = [at |-> Len(bytes), len |-> z],
         UNCHANGED <<seen, mode, offset, found, reason>>
  PROVE  ScanInv'
<1> DEFINE n == Len(records)
           R == Record(e)
           B == Len(bytes)
<1>0. ScanTypes /\ Layout /\ Contents /\ Extent /\ Passed
  BY DEF ScanInv
<1>1. /\ bytes \in Seq(Byte) /\ B \in Nat /\ n \in Nat /\ R \in Seq(Byte) /\ Len(R) \in Nat \ {0}
      /\ gap.at \in Nat /\ gap.len \in Nat /\ gap \in [at : Nat, len : Nat]
  BY <1>0, RecordIs DEF ScanTypes
<1>2. /\ bytes' \in Seq(Byte) /\ Len(bytes') = B + z + Len(R)
      /\ \A i \in 1..B : bytes'[i] = bytes[i]
      /\ \A i \in 1..z : bytes'[B + i] = 0
      /\ \A i \in 1..Len(R) : bytes'[B + z + i] = R[i]
  BY <1>1, GrownBytes
<1>3. /\ records' \in Seq(Spans) /\ Len(records') = n + 1
      /\ \A i \in 1..n : records'[i] = records[i]
      /\ records'[n + 1].entry = e /\ records'[n + 1].first = B + z
      /\ records'[n + 1].end = B + z + Len(R)
      /\ \A i \in 1..(n + 1) : Start(i)' = Start(i)
  BY <1>0, GrownRecords
<1>4. B = Start(n + 1) /\ found = <<>>
  BY <1>0 DEF Extent
<1>5. \A i \in 1..n : /\ Start(i) \in Nat /\ Start(i) < B /\ records[i].end \in Nat /\ records[i].end <= B
                      /\ records[i].first \in Nat /\ records[i].end = records[i].first + Len(Record(records[i].entry))
                      /\ Len(Record(records[i].entry)) \in Nat \ {0} /\ Start(i) <= records[i].first
  <2> SUFFICES ASSUME NEW i \in 1..n
               PROVE  /\ Start(i) \in Nat /\ Start(i) < B /\ records[i].end \in Nat /\ records[i].end <= B
                      /\ records[i].first \in Nat /\ records[i].end = records[i].first + Len(Record(records[i].entry))
                      /\ Len(Record(records[i].entry)) \in Nat \ {0} /\ Start(i) <= records[i].first
    OBVIOUS
  <2>1. n + 1 \in 1..(n + 1) /\ i \in 1..(n + 1 - 1)
    BY <1>1
  <2>2. Start(i) \in Nat /\ Start(i) < B /\ records[i].end \in Nat /\ records[i].end <= B
    <3>1. records[i].end <= Start(n + 1) /\ Start(i) < Start(n + 1) /\ Start(i) \in Nat /\ records[i].end \in Nat
      BY <1>0, <2>1, Starts
    <3> QED BY <1>4, <3>1
  <2>3. /\ records[i].first \in Nat /\ records[i].end = records[i].first + Len(Record(records[i].entry))
        /\ Len(Record(records[i].entry)) \in Nat \ {0} /\ Start(i) <= records[i].first
    BY <1>0, RecordFacts
  <2> QED BY <2>2, <2>3
<1>6. gap.len > 0 => \E i \in 1..n : gap.at = Start(i)
  BY <1>0 DEF Layout
<1>7. gap.len > 0 => gap.at < B
  BY <1>5, <1>6
<1>8. /\ gap'.at \in Nat /\ gap'.len \in Nat /\ gap' \in [at : Nat, len : Nat]
      /\ z > 0 => gap'.at = B /\ gap'.len = z /\ gap.len = 0
      /\ z = 0 => gap' = gap
  BY <1>1
<1> HIDE DEF n, R, B
<1>9. ScanTypes'
  BY <1>0, <1>2, <1>3, <1>8 DEF ScanTypes
<1>10. Layout'
  <2>1. ASSUME NEW i \in 1..(n + 1)
        PROVE  /\ records'[i].first = Start(i) + (IF gap'.at = Start(i) THEN gap'.len ELSE 0)
               /\ records'[i].end = records'[i].first + Len(Record(records'[i].entry))
    <3>1. CASE i = n + 1
      <4>1. (IF gap'.at = Start(i) THEN gap'.len ELSE 0) = z
        BY <1>1, <1>4, <1>7, <1>8, <3>1
      <4>2. Start(i) = B /\ records'[i].first = B + z /\ records'[i].end = B + z + Len(R)
            /\ records'[i].entry = e
        BY <1>3, <1>4, <3>1
      <4> QED BY <4>1, <4>2 DEF R
    <3>2. CASE i # n + 1
      <4>1. i \in 1..n
        BY <1>1, <3>2
      <4>2. /\ records[i].first = Start(i) + (IF gap.at = Start(i) THEN gap.len ELSE 0)
            /\ records[i].end = records[i].first + Len(Record(records[i].entry))
        BY <1>0, <4>1 DEF Layout, n
      <4>3. (IF gap'.at = Start(i) THEN gap'.len ELSE 0) = (IF gap.at = Start(i) THEN gap.len ELSE 0)
        <5>1. CASE z = 0
          BY <1>8, <5>1
        <5>2. CASE z > 0
          <6>1. gap'.at # Start(i) /\ gap.len = 0
            BY <1>1, <1>5, <1>8, <4>1, <5>2
          <6> QED BY <6>1
        <5> QED BY <5>1, <5>2
      <4> QED BY <1>3, <4>1, <4>2, <4>3
    <3> QED BY <3>1, <3>2
  <2>2. ASSUME NEW i \in 1..(n + 1), NEW j \in 1..(n + 1), i < j
        PROVE  records'[i].end <= records'[j].first
    <3>1. i \in 1..n /\ records'[i] = records[i]
      BY <1>1, <1>3, <2>2
    <3>2. CASE j = n + 1
      <4>1. records[i].end \in Nat /\ records[i].end <= B /\ records'[j].first = B + z
        BY <1>3, <1>5, <3>1, <3>2
      <4> QED BY <1>1, <3>1, <4>1
    <3>3. CASE j # n + 1
      <4>1. j \in 1..n /\ records'[j] = records[j]
        BY <1>1, <1>3, <3>3
      <4>2. \A a, b \in 1..n : a < b => records[a].end <= records[b].first
        BY <1>0 DEF Layout, n
      <4> QED BY <2>2, <3>1, <4>1, <4>2
    <3> QED BY <3>2, <3>3
  <2>3. gap'.len > 0 => \E i \in 1..(n + 1) : gap'.at = Start(i)
    <3>1. CASE z = 0
      <4>1. \A i \in 1..n : i \in 1..(n + 1)
        BY <1>1
      <4> QED BY <1>6, <1>8, <3>1, <4>1 DEF n
    <3>2. CASE z > 0
      <4>1. n + 1 \in 1..(n + 1)
        BY <1>1
      <4> QED BY <1>4, <1>8, <3>2, <4>1
    <3> QED BY <3>1, <3>2
  <2>4. \A i \in 1..(n + 1) : Start(i)' = Start(i)
    BY <1>3
  <2> QED BY <1>3, <2>1, <2>2, <2>3, <2>4 DEF Layout
<1>11. Contents'
  <2>1. ASSUME NEW i \in 1..(n + 1), NEW j \in 1..Len(Record(records'[i].entry)),
               records'[i].first + j <= Len(bytes')
        PROVE  bytes'[records'[i].first + j] = Record(records'[i].entry)[j]
    <3>1. CASE i = n + 1
      <4>1. records'[i].first = B + z /\ records'[i].entry = e
        BY <1>3, <3>1
      <4> QED BY <1>2, <2>1, <4>1 DEF R
    <3>2. CASE i # n + 1
      <4>1. i \in 1..n /\ records'[i] = records[i]
        BY <1>1, <1>3, <3>2
      <4>2. j \in 1..Len(Record(records[i].entry))
        BY <4>1
      <4>3. records[i].first + j \in 1..B
        <5>1. /\ records[i].first \in Nat /\ records[i].end = records[i].first + Len(Record(records[i].entry))
              /\ Len(Record(records[i].entry)) \in Nat /\ records[i].end <= B /\ records[i].end \in Nat
          BY <1>5, <4>1
        <5> QED BY <1>1, <4>2, <5>1, SMTT(60)
      <4>4. bytes[records[i].first + j] = Record(records[i].entry)[j]
        <5>1. records[i].first + j <= Len(bytes)
          BY <1>1, <4>3 DEF B
        <5> QED BY <1>0, <4>1, <4>2, <5>1 DEF Contents, n
      <4> QED BY <1>2, <4>1, <4>3, <4>4
    <3> QED BY <3>1, <3>2
  <2>2. ASSUME NEW j \in 1..gap'.len, gap'.at + j <= Len(bytes') PROVE bytes'[gap'.at + j] = 0
    <3>1. CASE z > 0
      <4>1. j \in 1..z /\ gap'.at = B
        BY <1>8, <3>1
      <4> QED BY <1>2, <4>1
    <3>2. CASE z = 0
      <4>1. j \in 1..gap.len /\ gap'.at = gap.at /\ gap.len > 0
        BY <1>1, <1>8, <3>2
      <4>2. PICK i \in 1..n : gap.at = Start(i)
        BY <1>6, <4>1
      <4>3. records[i].first = gap.at + gap.len
        <5>1. records[i].first = Start(i) + (IF gap.at = Start(i) THEN gap.len ELSE 0)
          BY <1>0, <4>2 DEF Layout, n
        <5> QED BY <4>2, <5>1
      <4>4. gap.at + j \in 1..B
        <5>1. /\ records[i].first \in Nat /\ records[i].end = records[i].first + Len(Record(records[i].entry))
              /\ Len(Record(records[i].entry)) \in Nat /\ records[i].end <= B /\ records[i].end \in Nat
          BY <1>5, <4>2
        <5>2. records[i].first <= B
          BY <1>1, <5>1
        <5> QED BY SMTT(60), <1>1, <4>1, <4>3, <5>1, <5>2
      <4>5. bytes[gap.at + j] = 0
        <5>1. gap.at + j <= Len(bytes)
          BY <1>1, <4>4 DEF B
        <5> QED BY <1>0, <4>1, <5>1 DEF Contents
      <4> QED BY <1>2, <4>1, <4>4, <4>5
    <3> QED BY <3>1, <3>2
  <2> QED BY <1>3, <2>1, <2>2 DEF Contents
<1>12. Extent'
  <2>1. Len(bytes') = records'[n + 1].end /\ (n + 1) + 1 # 1 /\ (n + 1) + 1 - 1 = n + 1
    BY <1>1, <1>2, <1>3
  <2>2. Len(bytes') = Start(Len(records) + 1)'
    BY <1>1, <1>3, <2>1 DEF Start
  <2>3. found' = <<>> /\ mode' = "writing"
    BY <1>4
  <2> QED BY <2>2, <2>3 DEF Extent
<1>13. Passed'
  <2>1. found' = <<>> /\ offset' = offset /\ Len(found) = 0
    BY <1>4
  <2>2. offset = Start(1) /\ Start(1) = 0
    <3>1. offset = Start(Len(found) + 1)
      BY <1>0 DEF Passed
    <3> QED BY <2>1, <3>1 DEF Start
  <2>3. Start(Len(found) + 1)' = 0
    BY <2>1 DEF Start
  <2>4. gap'.len > 0 => offset' <= gap'.at
    BY <1>8, <2>1, <2>2
  <2>5. Len(found') <= Len(records')
    BY <1>1, <1>3, <2>1
  <2>6. \A i \in 1..Len(found') : found'[i] = records'[i].entry
    BY <2>1
  <2> QED BY <2>1, <2>2, <2>3, <2>4, <2>5, <2>6 DEF Passed
<1>14. Stopped'
  BY DEF Stopped
<1> QED BY <1>9, <1>10, <1>11, <1>12, <1>13, <1>14 DEF ScanInv

\* Cutting the file leaves what is before the cut.
LEMMA CutKeeps ==
  ASSUME ScanTypes, Layout, Contents, NEW n \in Nat, n <= Len(bytes), bytes' = SubSeq(bytes, 1, n),
         UNCHANGED <<records, gap>>
  PROVE  bytes' \in Seq(Byte) /\ Len(bytes') = n /\ Layout' /\ Contents'
<1>1. /\ bytes \in Seq(Byte) /\ Len(bytes) \in Nat /\ gap.at \in Nat
  BY DEF ScanTypes
<1>2. bytes' \in Seq(Byte) /\ Len(bytes') = n /\ \A i \in 1..n : bytes'[i] = bytes[i]
  BY <1>1
<1>3. \A i : Start(i)' = Start(i)
  BY DEF Start
<1>4. Layout'
  BY <1>3 DEF Layout
<1>5. Contents'
  <2>1. ASSUME NEW i \in 1..Len(records), NEW j \in 1..Len(Record(records[i].entry)),
               records[i].first + j <= n
        PROVE  bytes'[records[i].first + j] = Record(records[i].entry)[j]
    <3>1. records[i].first \in Nat /\ Len(Record(records[i].entry)) \in Nat
      BY RecordFacts
    <3>2. records[i].first + j \in 1..n /\ records[i].first + j <= Len(bytes)
      BY <1>1, <2>1, <3>1
    <3> QED BY <1>2, <3>2 DEF Contents
  <2>2. ASSUME NEW j \in 1..gap.len, gap.at + j <= n PROVE bytes'[gap.at + j] = 0
    <3>1. gap.at + j \in 1..n /\ gap.at + j <= Len(bytes)
      BY <1>1, <2>2
    <3> QED BY <1>2, <3>1 DEF Contents
  <2> QED BY ZenonT(60), <1>2, <2>1, <2>2 DEF Contents
<1> QED BY <1>2, <1>4, <1>5

\* Opening the log on what a crash left keeps the invariant.
LEMMA OpenKeeps ==
  ASSUME ScanInv, NEW n \in 0..Len(bytes), OpenAfter(n)
  PROVE  ScanInv'
<1>0. ScanTypes /\ Layout /\ Contents /\ Extent /\ Passed
  BY DEF ScanInv
<1> DEFINE N == Len(records)
<1>1. /\ mode = "writing" /\ records # <<>> /\ n \in records[N].first..Len(bytes)
      /\ bytes' = SubSeq(bytes, 1, n) /\ seen' = n /\ mode' = "scanning"
      /\ UNCHANGED <<records, gap, offset, found, reason>>
  BY DEF OpenAfter
<1>2. /\ N \in Nat /\ Len(bytes) \in Nat /\ n \in Nat /\ n <= Len(bytes)
  BY <1>0 DEF ScanTypes
<1>3. bytes' \in Seq(Byte) /\ Len(bytes') = n /\ Layout' /\ Contents'
  BY <1>0, <1>1, <1>2, CutKeeps
<1>4. ScanTypes'
  BY <1>0, <1>1, <1>2, <1>3 DEF ScanTypes
<1>5. Len(bytes) = records[N].end /\ found = <<>>
  <2>1. N # 0
    BY <1>0, <1>1 DEF ScanTypes
  <2>2. Len(bytes) = Start(N + 1) /\ found = <<>>
    BY <1>0, <1>1 DEF Extent
  <2> QED BY <1>2, <2>1, <2>2 DEF Start
<1>6. Extent'
  BY <1>1, <1>3, <1>5 DEF Extent
<1>7. Passed'
  <2>1. offset = Start(1) /\ Start(1) = 0 /\ Len(found) = 0
    <3>1. offset = Start(Len(found) + 1) /\ Len(found) = 0
      BY <1>0, <1>5 DEF Passed
    <3> QED BY <3>1 DEF Start
  <2>2. \A i : Start(i)' = Start(i)
    BY <1>1 DEF Start
  <2>3. offset' <= seen'
    BY <1>1, <1>2, <2>1
  <2> QED BY <1>0, <1>1, <2>2, <2>3 DEF Passed
<1>8. Stopped'
  BY <1>1 DEF Stopped
<1> QED BY <1>3, <1>4, <1>6, <1>7, <1>8 DEF ScanInv

\* A torn envelope is the last record's, or the gap's: cutting the file there keeps the invariant.
LEMMA TornKeeps ==
  ASSUME ScanInv, ScanTorn
  PROVE  ScanInv'
<1>0. ScanTypes /\ Layout /\ Contents /\ Extent /\ Passed
  BY DEF ScanInv
<1>1. /\ BytesLeft /\ Envelope.verdict = "torn" /\ bytes' = SubSeq(bytes, 1, offset)
      /\ mode' = "recovered" /\ mode = "scanning"
      /\ UNCHANGED <<records, gap, seen, offset, found, reason>>
  BY DEF ScanTorn, Truncated, BytesLeft
<1>2. Ahead \in 1..Len(records) /\ offset \in Nat /\ Len(bytes) = seen /\ offset < seen /\ seen \in Nat
      /\ offset = Start(Ahead)
  BY <1>1, Standing
<1>3. bytes' \in Seq(Byte) /\ Len(bytes') = offset /\ Layout' /\ Contents'
  BY <1>0, <1>1, <1>2, CutKeeps
<1>4. ScanTypes'
  BY <1>0, <1>1, <1>3 DEF ScanTypes
<1>5. Extent'
  BY <1>0, <1>1, <1>3 DEF Extent
<1>6. \A i : Start(i)' = Start(i)
  BY <1>1 DEF Start
<1>7. Passed'
  BY <1>0, <1>1, <1>6 DEF Passed
<1>8. Stopped'
  <2>1. CASE AtGap
    <3>1. seen = records[Len(records)].end => seen - GapPayload < GapLength
      <4>1. "torn" # "ok"
        OBVIOUS
      <4> QED BY <1>1, <2>1, <4>1, ReadsGap
    <3>2. AtGap' /\ GapPayload' = GapPayload /\ GapLength' = GapLength
      BY <1>1, <2>1 DEF AtGap, GapPayload, GapLength
    <3> QED BY <1>1, <3>1, <3>2 DEF Stopped
  <2>2. CASE ~AtGap
    <3>1. ~(records[Ahead].end <= seen)
      <4>1. "torn" # "ok"
        OBVIOUS
      <4> QED BY <1>1, <2>2, <4>1, ReadsRecord
    <3>2. records[Ahead].end \in Nat
      BY <1>0, <1>2, RecordFacts
    <3>3. seen < records[Len(found) + 1].end
      BY <1>2, <3>1, <3>2 DEF Ahead
    <3>4. ~AtGap'
      BY <1>1, <2>2 DEF AtGap
    <3> QED BY <1>1, <3>3, <3>4 DEF Stopped
  <2> QED BY <2>1, <2>2
<1> QED BY <1>3, <1>4, <1>5, <1>7, <1>8 DEF ScanInv

\* A file is refused only for what its gap is read as.
LEMMA RefusalKeeps ==
  ASSUME ScanInv, ScanRefuses
  PROVE  ScanInv'
<1>0. ScanTypes /\ Layout /\ Contents /\ Extent /\ Passed
  BY DEF ScanInv
<1>1. /\ BytesLeft /\ Envelope.verdict # "torn" /\ Objection # "none"
      /\ mode' = "refused" /\ reason' = DeltaError(Objection, offset) /\ mode = "scanning"
      /\ UNCHANGED <<bytes, records, gap, seen, offset, found>>
  BY DEF ScanRefuses, BytesLeft
<1>2. AtGap
  <2> SUFFICES ASSUME ~AtGap PROVE FALSE
    OBVIOUS
  <2> QED BY <1>1, ReadsRecord
<1>3. \A i : Start(i)' = Start(i)
  BY <1>1 DEF Start
<1>4. ScanTypes' /\ Layout' /\ Contents'
  <2>1. ScanTypes'
    BY <1>0, <1>1 DEF ScanTypes
  <2>2. Layout'
    BY <1>0, <1>1, <1>3 DEF Layout
  <2>3. Contents'
    BY <1>0, <1>1 DEF Contents
  <2> QED BY <2>1, <2>2, <2>3
<1>5. Extent'
  BY <1>0, <1>1 DEF Extent
<1>6. Passed'
  BY <1>0, <1>1, <1>3 DEF Passed
<1>7. Stopped'
  <2>1. seen = records[Len(records)].end =>
          ~(seen - GapPayload < GapLength) /\ Objection = "version"
    BY <1>1, <1>2, ReadsGap
  <2>2. AtGap' /\ GapPayload' = GapPayload /\ GapLength' = GapLength /\ gap.at = offset
    BY <1>1, <1>2 DEF AtGap, GapPayload, GapLength
  <2> QED BY <1>1, <2>1, <2>2 DEF Stopped
<1> QED BY <1>4, <1>5, <1>6, <1>7 DEF ScanInv

\* A scan that comes to the end of the file has found every record of it.
LEMMA EndKeeps ==
  ASSUME ScanInv, ScanEnd
  PROVE  ScanInv'
<1>0. ScanTypes /\ Layout /\ Contents /\ Extent /\ Passed
  BY DEF ScanInv
<1>1. /\ mode = "scanning" /\ offset = Len(bytes) /\ mode' = "recovered"
      /\ UNCHANGED <<bytes, records, gap, seen, offset, found, reason>>
  BY DEF ScanEnd
<1>2. offset = seen /\ seen \in Nat /\ Len(found) \in Nat /\ Len(records) \in Nat
  BY <1>0, <1>1 DEF Extent, ScanTypes
<1>3. \A i : Start(i)' = Start(i)
  BY <1>1 DEF Start
<1>4. ScanTypes' /\ Layout' /\ Contents'
  <2>1. ScanTypes'
    BY <1>0, <1>1 DEF ScanTypes
  <2>2. Layout'
    BY <1>0, <1>1, <1>3 DEF Layout
  <2>3. Contents'
    BY <1>0, <1>1 DEF Contents
  <2> QED BY <2>1, <2>2, <2>3
<1>5. Extent'
  BY <1>0, <1>1 DEF Extent
<1>6. Passed'
  BY <1>0, <1>1, <1>3 DEF Passed
<1>7. ~AtGap
  <2> SUFFICES ASSUME AtGap PROVE FALSE
    OBVIOUS
  <2>1. gap.len > 0 /\ gap.at = offset
    BY DEF AtGap
  <2>2. gap.at \in Nat /\ gap.len \in Nat /\ gap.at + gap.len <= seen
    BY <1>0, <1>1, <2>1, GapInside
  <2> QED BY <1>2, <2>1, <2>2
<1>8. Len(found) < Len(records) => seen < records[Len(found) + 1].end
  <2> SUFFICES ASSUME Len(found) < Len(records) PROVE seen < records[Len(found) + 1].end
    OBVIOUS
  <2>1. Len(found) + 1 \in 1..Len(records) /\ offset = Start(Len(found) + 1)
    BY <1>0, <1>2 DEF Passed
  <2> DEFINE k == Len(found) + 1
  <2>2. k \in 1..Len(records) /\ offset = Start(k)
    BY <2>1
  <2> HIDE DEF k
  <2>3. /\ Start(k) \in Nat /\ Start(k) <= records[k].first /\ records[k].first \in Nat
        /\ records[k].end = records[k].first + Len(Record(records[k].entry))
        /\ Len(Record(records[k].entry)) \in Nat \ {0}
    BY <1>0, <2>2, RecordFacts
  <2>4. seen < records[k].end
    BY <1>2, <2>2, <2>3
  <2> QED BY <2>4 DEF k
<1>9. Stopped'
  <2>1. ~AtGap'
    BY <1>1, <1>7 DEF AtGap
  <2> QED BY <1>1, <1>8, <2>1 DEF Stopped
<1> QED BY <1>4, <1>5, <1>6, <1>9 DEF ScanInv

\* An envelope taken is the next record: the scan is not led astray by a gap.
LEMMA RecordKeeps ==
  ASSUME ScanInv, ScanRecord
  PROVE  ScanInv'
<1>0. ScanTypes /\ Layout /\ Contents /\ Extent /\ Passed
  BY DEF ScanInv
<1> DEFINE k == Ahead
           r == records[k]
<1>1. /\ BytesLeft /\ Envelope.verdict = "ok" /\ Objection = "none" /\ mode = "scanning"
      /\ found' = Append(found, Entry.val) /\ offset' = offset + Envelope.used
      /\ UNCHANGED <<bytes, records, gap, seen, mode, reason>>
  BY DEF ScanRecord, BytesLeft
<1>2. ~AtGap
  BY <1>1, ReadsGap
<1>3. /\ r.entry \in Entries /\ r.end = offset + Len(Record(r.entry)) /\ r.end <= seen
      /\ Envelope.used = Len(Record(r.entry)) /\ Entry.val = r.entry
  <2>1. "torn" # "ok"
    OBVIOUS
  <2> QED BY <1>1, <1>2, <2>1, ReadsRecord
<1>4. /\ k \in 1..Len(records) /\ offset = Start(k) /\ offset \in Nat /\ Len(bytes) = seen
      /\ offset < seen /\ seen \in Nat /\ Len(records) \in Nat
  BY <1>0, <1>1, Standing DEF ScanTypes
<1>5. r.end \in Nat /\ offset' = r.end
  BY <1>0, <1>1, <1>3, <1>4, RecordFacts
<1>6. /\ found \in Seq(Entries) /\ k = Len(found) + 1
      /\ found' \in Seq(Entries) /\ Len(found') = k /\ found'[k] = r.entry
      /\ \A i \in 1..(k - 1) : found'[i] = found[i]
  <2>1. found \in Seq(Entries) /\ k = Len(found) + 1
    BY <1>0 DEF ScanTypes, Ahead
  <2> HIDE DEF k, r
  <2> QED BY <1>1, <1>3, <2>1
<1> HIDE DEF k, r
<1>7. \A i : Start(i)' = Start(i)
  BY <1>1 DEF Start
<1>8. ScanTypes' /\ Layout' /\ Contents'
  <2>1. ScanTypes'
    BY <1>0, <1>1, <1>5, <1>6 DEF ScanTypes
  <2>2. Layout'
    BY <1>0, <1>1, <1>7 DEF Layout
  <2>3. Contents'
    BY <1>0, <1>1 DEF Contents
  <2> QED BY <2>1, <2>2, <2>3
<1>9. Extent'
  BY <1>0, <1>1 DEF Extent
<1>10. Passed'
  <2>1. offset' = Start(k + 1)
    <3> DEFINE j == k + 1
    <3>1. j # 1 /\ j - 1 = k
      BY <1>4
    <3> HIDE DEF j
    <3>2. Start(j) = records[k].end
      BY <3>1 DEF Start
    <3> QED BY <1>5, <3>2 DEF r, j
  <2>2. offset' = Start(Len(found) + 1)'
    <3>1. (Start(Len(found) + 1))' = Start(Len(found') + 1)
      BY <1>1 DEF Start
    <3> QED BY <1>6, <2>1, <3>1
  <2>3. gap.len > 0 => offset' <= gap.at
    <3> SUFFICES ASSUME gap.len > 0 PROVE offset' <= gap.at
      OBVIOUS
    <3>1. PICK i \in 1..Len(records) : gap.at = Start(i)
      BY <1>0 DEF Layout
    <3>2. offset <= gap.at /\ gap.at # offset
      BY <1>0, <1>2 DEF Passed, AtGap
    <3>3. i # k
      BY <1>4, <3>1, <3>2
    <3>4. ~(i < k)
      <4> SUFFICES ASSUME i < k PROVE FALSE
        OBVIOUS
      <4>1. k \in 1..(Len(records) + 1) /\ i \in 1..(k - 1)
        BY <1>4
      <4>2. Start(i) < Start(k) /\ Start(i) \in Nat /\ Start(k) \in Nat
        BY <1>0, <4>1, Starts
      <4> QED BY <1>4, <3>1, <3>2, <4>2
    <3>5. i \in 1..(Len(records) + 1) /\ k \in 1..(i - 1)
      BY <1>4, <3>3, <3>4
    <3>6. records[k].end <= Start(i)
      BY <1>0, <3>5, Starts
    <3> QED BY <1>5, <3>1, <3>6 DEF r
  <2>4. \A i \in 1..Len(found') : found'[i] = records'[i].entry
    <3>1. \A i \in 1..(k - 1) : found[i] = records[i].entry
      BY <1>0, <1>4, <1>6 DEF Passed
    <3>2. \A i \in 1..k : i = k \/ i \in 1..(k - 1)
      BY <1>4
    <3> QED BY <1>1, <1>6, <3>1, <3>2 DEF r
  <2>5. Len(found') <= Len(records') /\ offset' <= seen'
    BY <1>1, <1>3, <1>4, <1>5, <1>6
  <2> QED BY <1>1, <2>2, <2>3, <2>4, <2>5 DEF Passed
<1>11. Stopped'
  BY <1>1 DEF Stopped
<1> QED BY <1>8, <1>9, <1>10, <1>11 DEF ScanInv

\* A record lay whole in the opened file, before its gap if it has one.
Whole(i) == records[i].end <= seen /\ (gap.len > 0 => records[i].end <= gap.at)
\* The first m records did, and no more of them.
WholeTo(m) == /\ m \in 0..Len(records) /\ \A i \in 1..m : Whole(i)
              /\ m < Len(records) => ~Whole(m + 1)

\* WholeRecords are the first m records, if no more of them lay whole.
LEMMA WholeAre ==
  ASSUME NEW m, WholeTo(m), Len(records) \in Nat
  PROVE  WholeRecords = [i \in 1..m |-> records[i].entry]
<1> DEFINE n == CHOOSE h : WholeTo(h)
           c == CHOOSE h \in 0..Len(records) :
                  /\ \A i \in 1..h : Whole(i)
                  /\ h < Len(records) => ~Whole(h + 1)
<1>1. ASSUME NEW h, WholeTo(h) PROVE h = m
  <2>1. m \in Nat /\ h \in Nat /\ m <= Len(records) /\ h <= Len(records)
    BY <1>1 DEF WholeTo
  <2>2. ~(h < m)
    <3> SUFFICES ASSUME h < m PROVE FALSE
      OBVIOUS
    <3>1. h + 1 \in 1..m /\ h < Len(records)
      BY <2>1
    <3> QED BY <1>1, <3>1 DEF WholeTo
  <2>3. ~(m < h)
    <3> SUFFICES ASSUME m < h PROVE FALSE
      OBVIOUS
    <3>1. m + 1 \in 1..h /\ m < Len(records)
      BY <2>1
    <3> QED BY <1>1, <3>1 DEF WholeTo
  <2> QED BY <2>1, <2>2, <2>3
<1>2. c \in 0..Len(records) /\ (\A i \in 1..c : Whole(i)) /\ (c < Len(records) => ~Whole(c + 1))
  <2>1. /\ m \in 0..Len(records) /\ \A i \in 1..m : Whole(i)
        /\ m < Len(records) => ~Whole(m + 1)
    BY DEF WholeTo
  <2> QED BY <2>1
<1>3. WholeRecords = [i \in 1..c |-> records[i].entry]
  BY DEF WholeRecords, Whole
<1> HIDE DEF c
<1>4. c = m
  BY <1>1, <1>2 DEF WholeTo
<1> QED BY <1>3, <1>4

\* A scan that stopped for a reason has found the whole records.
LEMMA FoundWhole ==
  ASSUME ScanInv, mode \in {"recovered", "refused"},
         \/ AtGap
         \/ ~AtGap /\ (Len(found) < Len(records) => seen < records[Len(found) + 1].end)
  PROVE  found = WholeRecords
<1> DEFINE m == Len(found)
           n == Len(records)
<1>0. ScanTypes /\ Layout /\ Extent /\ Passed
  BY DEF ScanInv
<1>1. /\ found \in Seq(Entries) /\ m \in Nat /\ n \in Nat /\ seen \in Nat /\ offset \in Nat
      /\ gap.at \in Nat /\ gap.len \in Nat
      /\ m <= n /\ (\A i \in 1..m : found[i] = records[i].entry)
      /\ offset = Start(m + 1) /\ offset <= seen /\ (gap.len > 0 => offset <= gap.at)
  BY <1>0 DEF ScanTypes, Passed
<1>2. found = [i \in 1..m |-> records[i].entry]
  BY <1>1
<1>3. ASSUME NEW i \in 1..m PROVE Whole(i)
  <2> DEFINE k == m + 1
  <2>1. k \in 1..(Len(records) + 1) /\ i \in 1..(k - 1) /\ offset = Start(k)
    BY <1>1
  <2> HIDE DEF k
  <2>2. records[i].end <= Start(k) /\ records[i].end \in Nat
    BY <1>0, <2>1, Starts
  <2> QED BY <1>1, <2>1, <2>2 DEF Whole
<1>4. ASSUME m < n PROVE ~Whole(m + 1)
  <2> DEFINE k == m + 1
  <2>1. k \in 1..n /\ offset = Start(k)
    BY <1>1, <1>4
  <2>2. /\ records[k].first \in Nat /\ records[k].end = records[k].first + Len(Record(records[k].entry))
        /\ Len(Record(records[k].entry)) \in Nat \ {0} /\ Start(k) <= records[k].first
        /\ records[k].end \in Nat
    <3> HIDE DEF k
    <3> QED BY <1>0, <2>1, RecordFacts
  <2>3. CASE AtGap
    <3>1. gap.len > 0 /\ gap.at = offset
      BY <2>3 DEF AtGap
    <3> HIDE DEF k
    <3>2. ~(records[k].end <= gap.at)
      BY <1>1, <2>1, <2>2, <3>1
    <3> QED BY <3>1, <3>2 DEF Whole, k
  <2>4. CASE ~AtGap
    <3>1. seen < records[k].end
      BY <1>4, <2>4
    <3> HIDE DEF k
    <3>2. ~(records[k].end <= seen)
      BY <1>1, <2>2, <3>1
    <3> QED BY <3>2 DEF Whole, k
  <2> QED BY <2>3, <2>4
<1>5. WholeTo(m)
  BY <1>1, <1>3, <1>4 DEF WholeTo
<1>6. WholeRecords = [i \in 1..m |-> records[i].entry]
  BY <1>1, <1>5, WholeAre
<1> QED BY <1>2, <1>6

\* The inductive invariant of the scan says what ScanExact promises.
LEMMA ScanInvExact == ScanInv => ScanExact
<1> SUFFICES ASSUME ScanInv PROVE ScanExact
  OBVIOUS
<1>0. ScanTypes /\ Layout /\ Extent /\ Passed /\ Stopped
  BY DEF ScanInv
<1>1. /\ Len(found) \in Nat /\ Len(records) \in Nat /\ seen \in Nat /\ gap.len \in Nat
      /\ mode \in {"writing", "scanning", "recovered", "refused"} /\ found \in Seq(Entries)
  BY <1>0 DEF ScanTypes
<1>2. RecoversPrefix
  <2> SUFFICES ASSUME gap.len = 0
               PROVE  /\ mode # "refused"
                      /\ mode = "recovered" =>
                           /\ found = WholeRecords
                           /\ Len(bytes) = (IF found = <<>> THEN 0 ELSE records[Len(found)].end)
    BY DEF RecoversPrefix
  <2>1. ~AtGap
    BY DEF AtGap
  <2>2. mode # "refused"
    BY <1>0, <2>1 DEF Stopped
  <2>3. ASSUME mode = "recovered"
        PROVE  /\ found = WholeRecords
               /\ Len(bytes) = (IF found = <<>> THEN 0 ELSE records[Len(found)].end)
    <3>1. Len(found) < Len(records) => seen < records[Len(found) + 1].end
      BY <1>0, <2>1, <2>3 DEF Stopped
    <3>2. found = WholeRecords
      BY <2>1, <2>3, <3>1, FoundWhole
    <3>3. Len(bytes) = Start(Len(found) + 1)
      BY <1>0, <2>3 DEF Extent, Passed
    <3>4. Start(Len(found) + 1) = (IF found = <<>> THEN 0 ELSE records[Len(found)].end)
      <4>1. CASE found = <<>>
        <5>1. Len(found) + 1 = 1
          BY <4>1
        <5> QED BY <4>1, <5>1 DEF Start
      <4>2. CASE found # <<>>
        <5>1. Len(found) + 1 # 1 /\ Len(found) + 1 - 1 = Len(found)
          BY <1>1, <4>2
        <5> QED BY <4>2, <5>1 DEF Start
      <4> QED BY <4>1, <4>2
    <3> QED BY <3>2, <3>3, <3>4
  <2> QED BY <2>2, <2>3
<1>3. GapVerdict
  <2> SUFFICES ASSUME gap.len > 0, mode \in {"recovered", "refused"},
                      seen = records[Len(records)].end
               PROVE  /\ found = WholeRecords
                      /\ IF seen - GapPayload < GapLength
                         THEN mode = "recovered" /\ Len(bytes) = gap.at
                         ELSE mode = "refused" /\ reason = DeltaError("version", gap.at)
    BY DEF GapVerdict
  <2>1. AtGap
    <3> SUFFICES ASSUME ~AtGap PROVE FALSE
      OBVIOUS
    <3>1. Len(found) < Len(records) => seen < records[Len(found) + 1].end
      BY <1>0 DEF Stopped
    <3>2. PICK i \in 1..Len(records) : gap.at = Start(i)
      BY <1>0 DEF Layout
    <3>3. offset = Start(Len(found) + 1) /\ offset <= gap.at /\ Len(found) <= Len(records)
      BY <1>0 DEF Passed
    <3>4. offset # gap.at
      BY DEF AtGap
    <3>5. Len(records) + 1 \in 1..(Len(records) + 1)
      BY <1>1
    <3>6. Start(Len(records) + 1) = records[Len(records)].end
      BY <1>1, <3>2 DEF Start
    <3>7. CASE Len(found) = Len(records)
      <4>1. i \in 1..(Len(records) + 1 - 1)
        BY <1>1
      <4>2. Start(i) < Start(Len(records) + 1) /\ Start(i) \in Nat /\ Start(Len(records) + 1) \in Nat
        BY <1>0, <3>5, <4>1, Starts
      <4> QED BY <3>2, <3>3, <3>7, <4>2
    <3>8. CASE Len(found) < Len(records)
      <4>1. Len(found) + 1 \in 1..(Len(records) + 1 - 1)
        BY <1>1, <3>8
      <4>2. records[Len(found) + 1].end <= Start(Len(records) + 1) /\ records[Len(found) + 1].end \in Nat
        BY <1>0, <3>5, <4>1, Starts
      <4> QED BY <1>1, <3>1, <3>6, <3>8, <4>2
    <3> QED BY <1>1, <3>3, <3>7, <3>8
  <2>2. found = WholeRecords
    BY <2>1, FoundWhole
  <2>3. gap.at = offset /\ (mode = "recovered" => Len(bytes) = offset)
    BY <1>0, <2>1 DEF AtGap, Extent
  <2> QED BY <1>0, <2>1, <2>2, <2>3 DEF Stopped
<1> QED BY <1>2, <1>3 DEF ScanExact

-----------------------------------------------------------------------------
(* The theorems.                                                           *)

\* The stream holds bytes and nothing else (one byte appended per step).
THEOREM StreamOfBytes == StreamSpec => [](bs \in Seq(Byte))
<1>1. StreamInit => bs \in Seq(Byte)
  BY DEF StreamInit
<1>2. bs \in Seq(Byte) /\ [StreamNext]_bs => (bs \in Seq(Byte))'
  BY DEF StreamNext, ByteArrives
<1> QED BY <1>1, <1>2, PTL DEF StreamSpec

\* dec_varnat and enc_varnat, whatever the widths: what dec_varnat accepts within the word is
\* what its digits spell, every word enc_varnat writes returns, and a number is torn exactly
\* while its terminating digit may still come.
THEOREM NumbersRight == StreamSpec => []NumbersExact
<1>1. bs \in Seq(Byte) => NumbersExact
  <2> SUFFICES ASSUME bs \in Seq(Byte) PROVE NumbersExact
    OBVIOUS
  <2>1. NumberExact
    BY Exact DEF NumberExact
  <2>2. EveryWordReturns
    BY WordReturns DEF EveryWordReturns
  <2>3. TornMeansUnfinished
    BY TornExactly DEF TornMeansUnfinished
  <2> QED BY <2>1, <2>2, <2>3 DEF NumbersExact
<1> QED BY <1>1, StreamOfBytes, PTL

\* A verdict but torn of a number, a byte string or an envelope, on the bytes a cut file
\* still has, is the verdict on the whole file (dec_varnat, dec_bytes, dec_envelope).
THEOREM FramesFinal == StreamSpec => [][FramesSharpen]_bs
<1>1. bs \in Seq(Byte) /\ [StreamNext]_bs => [FramesSharpen]_bs
  <2> SUFFICES ASSUME bs \in Seq(Byte), StreamNext PROVE FramesSharpen
    OBVIOUS
  <2>1. PICK b \in Byte : bs' = Append(bs, b)
    BY DEF StreamNext, ByteArrives
  <2>2. bs' \in Seq(Byte) /\ Prefix(bs, bs')
    BY <2>1 DEF Prefix
  <2>3. Sharpens(DecVarnat(bs), DecVarnat(bs'))
    BY <2>2, VarnatFinal DEF Sharpens
  <2>4. Sharpens(DecBytes(bs), DecBytes(bs'))
    BY <2>2, BytesFinal DEF Sharpens
  <2>5. Sharpens(DecEnvelopePrefix(bs), DecEnvelopePrefix(bs'))
    BY <2>2, EnvelopeFinal DEF Sharpens
  <2> QED BY <2>3, <2>4, <2>5 DEF FramesSharpen
<1> QED BY <1>1, StreamOfBytes, PTL DEF StreamSpec

\* The scan of open_with, for every version, fingerprint, set of entries with a codec that
\* returns them, and file of records with at most one gap: without a gap it is not refused,
\* finds the records that lay whole and cuts the file after them; a gap with its record
\* whole behind it is cut as a torn tail or refused for its version, as its bytes are read.
THEOREM ScanRight == Spec => []ScanExact
<1>1. Init => ScanInv
  <2> SUFFICES ASSUME Init PROVE ScanInv
    OBVIOUS
  <2>1. /\ bytes = <<>> /\ records = <<>> /\ gap = [at |-> 0, len |-> 0] /\ seen = 0
        /\ mode = "writing" /\ offset = 0 /\ found = <<>>
    BY DEF Init
  <2>2. Len(bytes) = 0 /\ Len(records) = 0 /\ Len(found) = 0 /\ gap.at = 0 /\ gap.len = 0
    BY <2>1
  <2>3. ScanTypes
    BY <2>1 DEF ScanTypes
  <2>4. Layout /\ Contents
    BY <2>2 DEF Layout, Contents
  <2>5. Start(1) = 0
    BY DEF Start
  <2>6. Extent
    BY <2>1, <2>2, <2>5 DEF Extent
  <2>7. Passed
    BY <2>1, <2>2, <2>5 DEF Passed
  <2>8. Stopped
    BY <2>1 DEF Stopped
  <2> QED BY <2>3, <2>4, <2>6, <2>7, <2>8 DEF ScanInv
<1>2. ScanInv /\ [Next]_vars => ScanInv'
  <2> SUFFICES ASSUME ScanInv, [Next]_vars PROVE ScanInv'
    OBVIOUS
  <2>1. ASSUME NEW e \in Entries, AppendRecord(e) PROVE ScanInv'
    <3>1. Grown(e, 0)
      <4>1. bytes \o Zeros(0) \o Record(e) = bytes \o Record(e)
        <5>1. bytes \in Seq(Byte) /\ Len(bytes) \in Nat
          BY DEF ScanInv, ScanTypes
        <5>2. Zeros(0) = <<>>
          BY DEF Zeros
        <5>3. bytes \o <<>> = bytes
          BY <5>1
        <5> QED BY <5>2, <5>3
      <4>2. Len(bytes) + 0 = Len(bytes)
        BY DEF ScanInv, ScanTypes
      <4> QED BY <2>1, <4>1, <4>2 DEF Grown, AppendRecord
    <3>2. mode = "writing" /\ gap' = gap /\ UNCHANGED <<seen, mode, offset, found, reason>>
      BY <2>1 DEF AppendRecord
    <3> QED BY <3>1, <3>2, GrownKeeps
  <2>2. ASSUME NEW e \in Entries, NEW n \in 1..MaxGap, AppendPastEnd(e, n) PROVE ScanInv'
    <3>1. Grown(e, n) /\ mode = "writing" /\ gap.len = 0 /\ gap' = [at |-> Len(bytes), len |-> n]
          /\ UNCHANGED <<seen, mode, offset, found, reason>>
      BY <2>2 DEF Grown, AppendPastEnd
    <3>2. n \in Nat /\ n > 0
      OBVIOUS
    <3> QED BY <3>1, <3>2, GrownKeeps
  <2>3. ASSUME NEW n \in 0..Len(bytes), OpenAfter(n) PROVE ScanInv'
    BY <2>3, OpenKeeps
  <2>4. CASE ScanTorn
    BY <2>4, TornKeeps
  <2>5. CASE ScanRefuses
    BY <2>5, RefusalKeeps
  <2>6. CASE ScanRecord
    BY <2>6, RecordKeeps
  <2>7. CASE ScanEnd
    BY <2>7, EndKeeps
  <2>8. CASE UNCHANGED vars
    <3>1. UNCHANGED <<bytes, records, gap, seen, mode, offset, found, reason>>
      BY <2>8 DEF vars
    <3>2. \A i : Start(i)' = Start(i)
      BY <3>1 DEF Start
    <3>3. ScanTypes' /\ Contents' /\ Stopped'
      BY <3>1 DEF ScanInv, ScanTypes, Contents, Stopped, AtGap, GapPayload, GapLength
    <3>4. Layout' /\ Extent' /\ Passed'
      <4>1. Layout'
        BY <3>1, <3>2 DEF ScanInv, Layout
      <4>2. Extent'
        BY <3>1, <3>2 DEF ScanInv, Extent, Start
      <4>3. Passed'
        BY <3>1, <3>2 DEF ScanInv, Passed, Start
      <4> QED BY <4>1, <4>2, <4>3
    <3> QED BY <3>3, <3>4 DEF ScanInv
  <2> QED BY <2>1, <2>2, <2>3, <2>4, <2>5, <2>6, <2>7, <2>8 DEF Next
<1> QED BY <1>1, <1>2, ScanInvExact, PTL DEF Spec
=============================================================================
