---------------------------- MODULE KeyerProofs ----------------------------
(***************************************************************************)
(* What a Keyer and an Index keep, for any terms, keys, hash functions and *)
(* candidates, any number of attempts, and any width of a word and of a    *)
(* block: the table is exact, the displacements read from packed words are *)
(* those that were packed, the ranks of the slots are all the ids, and so  *)
(* Lookup tells every term of the vocabulary from every other term.        *)
(***************************************************************************)
EXTENDS Keyer, FiniteSetTheorems, FunctionTheorems, SequenceTheorems, TLAPS

\* Induction, and loops as equations.
Ops == INSTANCE SetOpsProofs

\* The words of a table of m slots.
Words(m) == [0..(m + WordBits - 1) \div WordBits - 1 -> SUBSET (0..WordBits - 1)]

LEMMA Slots == \A n \in Nat : NB(n) \in Nat \ {0} /\ M(n) \in Nat \ {0}
  BY DEF NB, M

LEMMA Positive == WordBits \in Nat \ {0}
  BY MphfAssumption

\* A position is its word and its bit in it.
LEMMA DivMod ==
  \A s \in Nat : /\ s = WordBits * (s \div WordBits) + (s % WordBits)
                 /\ s \div WordBits \in Nat /\ s % WordBits \in 0..WordBits - 1
  BY Positive

LEMMA OneBit ==
  \A s, t \in Nat : s \div WordBits = t \div WordBits /\ s % WordBits = t % WordBits => s = t
  BY DivMod

\* Every slot of a table of m slots has its word.
LEMMA WordOfSlot ==
  \A m \in Nat, s \in Nat :
    s < m => s \div WordBits \in 0..(m + WordBits - 1) \div WordBits - 1
<1>1. ASSUME NEW m \in Nat, NEW s \in Nat, s < m
      PROVE  s \div WordBits <= (m + WordBits - 1) \div WordBits - 1
  BY <1>1, Positive, DivMod
<1>2. \A m \in Nat : (m + WordBits - 1) \div WordBits \in Int
  BY Positive
<1> QED BY <1>1, <1>2, DivMod

\* An empty table has no bit, and SetBits adds the bits of S and no other.
LEMMA EmptyTable ==
  ASSUME NEW m \in Nat
  PROVE  /\ NoWords(m) \in Words(m)
         /\ \A s \in 0..m - 1 : ~BitSet(NoWords(m), s)
<1>1. NoWords(m) \in Words(m)
  BY DEF NoWords, Words
<1>2. ASSUME NEW s \in 0..m - 1 PROVE ~BitSet(NoWords(m), s)
  <2>1. s \div WordBits \in 0..(m + WordBits - 1) \div WordBits - 1
    BY WordOfSlot
  <2> QED BY <2>1, Zenon DEF NoWords, BitSet
<1> QED BY <1>1, <1>2

LEMMA SetBitsExact ==
  ASSUME NEW m \in Nat, NEW w \in Words(m), NEW S \in SUBSET (0..m - 1)
  PROVE  /\ SetBits(w, S) \in Words(m)
         /\ \A s \in 0..m - 1 : BitSet(SetBits(w, S), s) <=> BitSet(w, s) \/ s \in S
<1>1. SetBits(w, S) \in Words(m)
  <2>1. \A i \in S : i % WordBits \in 0..WordBits - 1
    BY DivMod
  <2>2. ASSUME NEW x \in DOMAIN w
        PROVE  w[x] \cup {i % WordBits : i \in {s \in S : s \div WordBits = x}} \in SUBSET (0..WordBits - 1)
    BY <2>1 DEF Words
  <2>3. DOMAIN w = 0..(m + WordBits - 1) \div WordBits - 1
    BY DEF Words
  <2> QED BY <2>2, <2>3, Zenon DEF SetBits, Words
<1>2. ASSUME NEW s \in 0..m - 1
      PROVE  BitSet(SetBits(w, S), s) <=> BitSet(w, s) \/ s \in S
  <2> DEFINE x == s \div WordBits
             T == {t \in S : t \div WordBits = x}
  <2>1. x \in DOMAIN w
    BY WordOfSlot DEF Words
  <2>2. BitSet(SetBits(w, S), s) <=>
          s % WordBits \in w[x] \/ s % WordBits \in {i % WordBits : i \in T}
    BY <2>1 DEF BitSet, SetBits
  <2>3. s % WordBits \in {i % WordBits : i \in T} <=> s \in S
    BY OneBit
  <2> QED BY <2>2, <2>3 DEF BitSet
<1> QED BY <1>1, <1>2

-----------------------------------------------------------------------------
(* Numbers and their bits *)

\* A quotient and a remainder are the only ones.
LEMMA DivIs ==
  ASSUME NEW p \in Nat \ {0}, NEW q \in Nat, NEW r \in 0..p - 1, NEW a, a = p * q + r
  PROVE  a \div p = q /\ a % p = r
<1>1. a \in Nat
  OBVIOUS
<1>2. /\ a \div p \in Nat /\ a % p \in 0..p - 1
      /\ p * q + r = p * (a \div p) + (a % p)
  BY <1>1
<1>3. \A x, y \in Nat : x < y => p * x + p <= p * y
  OBVIOUS
<1>4. ~(q < a \div p)
  <2>1. ~(p * q + p <= p * (a \div p))
    BY <1>2
  <2> QED
    BY <1>2, <1>3, <2>1
<1>5. ~(a \div p < q)
  <2>1. ~(p * (a \div p) + p <= p * q)
    BY <1>2
  <2> QED
    BY <1>2, <1>3, <2>1
<1> QED
  BY <1>2, <1>4, <1>5

\* Powers of 2 as an equation.
LEMMA Powers ==
  /\ Pow2[0] = 1
  /\ \A i \in Nat : Pow2[i] \in Nat \ {0} /\ Pow2[i + 1] = 2 * Pow2[i]
<1> DEFINE body(g) == [i \in Nat |-> IF i = 0 THEN 1 ELSE 2 * g[i - 1]]
           step == [g \in [Nat -> Nat] |-> body(g)]
           m == [i \in Nat |-> i]
<1>1. \A g \in [Nat -> Nat] : body(g) \in [Nat -> Nat]
  OBVIOUS
<1>2. step \in [[Nat -> Nat] -> [Nat -> Nat]]
  <2> HIDE DEF body
  <2> QED
    BY <1>1
<1>3. ASSUME NEW g \in [Nat -> Nat], NEW h \in [Nat -> Nat], NEW i \in Nat,
             \A y \in Nat : m[y] < m[i] => g[y] = h[y]
      PROVE  step[g][i] = step[h][i]
  <2>1. i # 0 => g[i - 1] = h[i - 1]
    BY <1>3
  <2> QED
    BY <2>1
<1>4. \E f \in [Nat -> Nat] : f = body(f)
  <2>1. m \in [Nat -> Nat]
    OBVIOUS
  <2>2. Ops!Recursive(Nat, Nat, step, m)
    <3> HIDE DEF step, m
    <3> QED
      BY <1>2, <1>3, <2>1 DEF Ops!Recursive
  <2>3. PICK f \in [Nat -> Nat] : f = step[f]
    <3> HIDE DEF step, m
    <3> QED
      BY <2>2, Ops!Fixpoint DEF Ops!HasSolution
  <2>4. f = body(f)
    BY <2>3
  <2> QED
    BY <2>4
<1>5. Pow2 = body(Pow2)
  <2>1. Pow2 = CHOOSE f : f = body(f)
    BY DEF Pow2
  <2> HIDE DEF body
  <2> QED
    BY <1>4, <2>1
<1>6. Pow2[0] = 1 /\ \A i \in Nat : Pow2[i + 1] = 2 * Pow2[i]
  <2>1. \A i \in Nat : Pow2[i] = body(Pow2)[i]
    BY <1>5
  <2>2. \A i \in Nat : i + 1 \in Nat /\ i + 1 # 0 /\ (i + 1) - 1 = i
    OBVIOUS
  <2> QED
    BY <2>1, <2>2
<1> DEFINE S == {i \in Nat : Pow2[i] \in Nat \ {0}}
<1>7. 0 \in S /\ \A i \in Nat : i \in S => i + 1 \in S
  BY <1>6
<1>8. \A i \in Nat : i \in S
  <2> HIDE DEF S
  <2> QED
    BY <1>7, Ops!Induction
<1> QED
  BY <1>6, <1>8

\* Bit i of v.
Bit(v, i) == (v \div Pow2[i]) % 2

\* Without its lowest bit, a value has the bits above it.
LEMMA HalfBits ==
  ASSUME NEW v \in Nat, NEW i \in Nat
  PROVE  Bit(v \div 2, i) = Bit(v, i + 1)
<1> DEFINE p == Pow2[i]
           q == v \div (2 * p)
           r == v % (2 * p)
<1>1. p \in Nat \ {0} /\ 2 * p \in Nat \ {0} /\ Pow2[i + 1] = 2 * p
  BY Powers
<1> HIDE DEF p
<1>2. q \in Nat /\ r \in 0..2 * p - 1 /\ v = (2 * p) * q + r
  <2>1. \A d \in Nat \ {0} : v \div d \in Nat /\ v % d \in 0..d - 1 /\ v = d * (v \div d) + (v % d)
    OBVIOUS
  <2> QED
    BY <1>1, <2>1, Zenon
<1> HIDE DEF q, r
<1>3. r \div 2 \in 0..p - 1 /\ r = 2 * (r \div 2) + (r % 2) /\ r % 2 \in 0..1
  BY <1>1, <1>2
<1>4. v = 2 * (p * q + (r \div 2)) + (r % 2)
  <2>1. (2 * p) * q = 2 * (p * q)
    BY <1>1, <1>2
  <2>2. p * q \in Nat
    BY <1>1, <1>2
  <2> QED
    BY <1>2, <1>3, <2>1, <2>2
<1>5. v \div 2 = p * q + (r \div 2)
  <2>1. p * q + (r \div 2) \in Nat
    BY <1>1, <1>2, <1>3
  <2>2. r % 2 \in 0..2 - 1 /\ 2 \in Nat \ {0}
    BY <1>3
  <2> DEFINE k == p * q + (r \div 2)
             b == r % 2
  <2>3. k \in Nat /\ b \in 0..2 - 1 /\ v = 2 * k + b
    BY <1>4, <2>1, <2>2
  <2> HIDE DEF k, b
  <2>4. v \div 2 = k
    BY <2>3, DivIs
  <2> QED
    BY <2>4 DEF k
<1>6. (v \div 2) \div p = q
  BY <1>1, <1>2, <1>3, <1>5, DivIs
<1> QED
  BY <1>1, <1>6 DEF Bit, p, q

\* The n lowest bits of a value below 2^n are the value.
LEMMA BitsTell ==
  \A n \in Nat : \A u, v \in 0..Pow2[n] - 1 :
    (\A i \in 0..n - 1 : Bit(u, i) = Bit(v, i)) => u = v
<1> DEFINE S == {n \in Nat : \A u, v \in 0..Pow2[n] - 1 :
                   (\A i \in 0..n - 1 : Bit(u, i) = Bit(v, i)) => u = v}
<1>1. 0 \in S
  BY Powers
<1>2. ASSUME NEW n \in Nat, n \in S PROVE n + 1 \in S
  <2> SUFFICES ASSUME NEW u \in 0..Pow2[n + 1] - 1, NEW v \in 0..Pow2[n + 1] - 1,
                      \A i \in 0..n : Bit(u, i) = Bit(v, i)
               PROVE  u = v
    OBVIOUS
  <2>1. Pow2[n + 1] = 2 * Pow2[n] /\ Pow2[n] \in Nat
    BY Powers
  <2>2. u \div 2 \in 0..Pow2[n] - 1 /\ v \div 2 \in 0..Pow2[n] - 1
    BY <2>1
  <2>3. \A x \in Nat : Bit(x, 0) = x % 2
    BY Powers DEF Bit
  <2>4. u % 2 = v % 2
    BY <2>1, <2>3
  <2>5. ASSUME NEW i \in 0..n - 1 PROVE Bit(u \div 2, i) = Bit(v \div 2, i)
    <3>1. i \in Nat /\ i + 1 \in 0..n /\ u \in Nat /\ v \in Nat
      BY <2>1
    <3> QED
      BY <3>1, HalfBits
  <2>6. u \div 2 = v \div 2
    BY <1>2, <2>2, <2>5
  <2> QED
    BY <2>1, <2>4, <2>6
<1>3. \A n \in Nat : n \in S
  <2> HIDE DEF S
  <2> QED
    BY <1>1, <1>2, Ops!Induction
<1> QED
  BY <1>3

\* A value below 2^n has no bit from n on.
LEMMA HighBits ==
  ASSUME NEW n \in Nat, NEW v \in 0..Pow2[n] - 1, NEW i \in Nat, n <= i
  PROVE  Bit(v, i) = 0
<1> DEFINE S == {k \in Nat : Pow2[n] <= Pow2[n + k]}
<1>1. 0 \in S
  BY Powers
<1>2. ASSUME NEW k \in Nat, k \in S PROVE k + 1 \in S
  <2>1. Pow2[n + k] \in Nat /\ Pow2[(n + k) + 1] = 2 * Pow2[n + k] /\ Pow2[n] \in Nat
    BY Powers
  <2>2. n + (k + 1) = (n + k) + 1
    OBVIOUS
  <2> QED
    BY <1>2, <2>1, <2>2
<1>3. \A k \in Nat : k \in S
  <2> HIDE DEF S
  <2> QED
    BY <1>1, <1>2, Ops!Induction
<1>4. i - n \in Nat /\ n + (i - n) = i
  OBVIOUS
<1>5. Pow2[n] <= Pow2[i] /\ Pow2[n] \in Nat /\ Pow2[i] \in Nat \ {0}
  BY <1>3, <1>4, Powers
<1>6. v \div Pow2[i] = 0
  <2>1. v \in 0..Pow2[i] - 1 /\ v = Pow2[i] * 0 + v
    BY <1>5
  <2> QED
    BY <1>5, <2>1, DivIs
<1> QED
  BY <1>6 DEF Bit

\* A value of w bits is told by its set of bits.
LEMMA BitsOfValue ==
  ASSUME NEW w \in 1..WordBits, NEW v \in 0..Pow2[w] - 1
  PROVE  /\ Bits(v) \subseteq 0..w - 1
         /\ \A u \in 0..Pow2[w] - 1 : Bits(u) = Bits(v) => u = v
<1>1. w \in Nat /\ WordBits \in Nat /\ Pow2[w] \in Nat
  BY Positive, Powers
<1>2. \A i \in 0..WordBits - 1 : i \notin 0..w - 1 => Bit(v, i) = 0
  BY <1>1, HighBits
<1>3. \A x : Bits(x) = {i \in 0..WordBits - 1 : Bit(x, i) = 1}
  BY DEF Bits, Bit
<1>4. Bits(v) \subseteq 0..w - 1
  BY <1>2, <1>3
<1>5. ASSUME NEW u \in 0..Pow2[w] - 1, Bits(u) = Bits(v) PROVE u = v
  <2>1. ASSUME NEW i \in 0..w - 1 PROVE Bit(u, i) = Bit(v, i)
    <3>1. Bit(u, i) \in 0..1 /\ Bit(v, i) \in 0..1
      <4>1. Pow2[i] \in Nat \ {0}
        BY <1>1, Powers
      <4> QED
        BY <1>1, <4>1 DEF Bit
    <3>2. i \in 0..WordBits - 1
      BY <1>1
    <3>3. Bit(u, i) = 1 <=> Bit(v, i) = 1
      BY <1>3, <1>5, <3>2
    <3> QED
      BY <3>1, <3>3
  <2> QED
    BY <1>1, <2>1, BitsTell
<1> QED
  BY <1>4, <1>5

-----------------------------------------------------------------------------
(* Packed displacements *)

\* The bit at position a belongs to the value that begins at position b if it lies
\* in the same word, or in the next one and the value straddles both.
LEMMA Straddle ==
  ASSUME NEW a \in Nat, NEW b \in Nat, NEW w \in 1..WordBits, NEW B \in SUBSET (0..w - 1)
  PROVE  (\/ /\ b \div WordBits = a \div WordBits
             /\ (a % WordBits) - (b % WordBits) \in B
          \/ /\ b \div WordBits + 1 = a \div WordBits
             /\ (b % WordBits) + w > WordBits
             /\ (a % WordBits) + WordBits - (b % WordBits) \in B) <=> a - b \in B
<1> DEFINE x == a \div WordBits
           i == a % WordBits
           y == b \div WordBits
           o == b % WordBits
<1>1. /\ x \in Nat /\ i \in 0..WordBits - 1 /\ a = WordBits * x + i
      /\ y \in Nat /\ o \in 0..WordBits - 1 /\ b = WordBits * y + o
  BY DivMod
<1>2. WordBits \in Nat \ {0}
  BY Positive
<1> HIDE DEF x, i, y, o
<1>3. CASE x = y
  <2>1. a - b = i - o
    BY <1>1, <1>2, <1>3
  <2> QED
    BY <1>1, <1>3, <2>1 DEF x, i, y, o
<1>4. CASE x = y + 1
  <2>1. a - b = i + WordBits - o
    BY <1>1, <1>2, <1>4
  <2>2. i + WordBits - o \in B => o + w > WordBits
    BY <1>1, <1>2
  <2>3. y # x
    BY <1>1, <1>4
  <2> QED
    BY <1>1, <1>4, <2>1, <2>2, <2>3 DEF x, i, y, o
<1>5. CASE x # y /\ x # y + 1
  <2>1. a - b \notin B
    <3>1. CASE x < y
      <4>1. WordBits * x + WordBits <= WordBits * y
        BY <1>1, <1>2, <3>1
      <4> QED
        BY <1>1, <1>2, <4>1
    <3>2. CASE y + 2 <= x
      <4>1. WordBits * y + 2 * WordBits <= WordBits * x
        BY <1>1, <1>2, <3>2
      <4> QED
        BY <1>1, <1>2, <4>1
    <3> QED
      BY <1>1, <1>5, <3>1, <3>2
  <2> QED
    BY <1>1, <1>5, <2>1 DEF x, i, y, o
<1> QED
  BY <1>3, <1>4, <1>5

\* n values of w bits each.
Values(n, w) == [0..n - 1 -> 0..Pow2[w] - 1]

\* The words of the packed values.
PackedWords(n, w) == 0..(n * w + WordBits - 1) \div WordBits

\* Bit r of value j is in the packed words, at position j * w + r.
LEMMA PackedBit ==
  ASSUME NEW n \in Nat, NEW w \in 1..WordBits, NEW g \in Values(n, w),
         NEW j \in 0..n - 1, NEW r \in 0..w - 1, NEW a, a = j * w + r
  PROVE  /\ a \in Nat /\ a \div WordBits \in PackedWords(n, w)
         /\ a % WordBits \in Pack(g, w)[a \div WordBits] <=> r \in Bits(g[j])
<1>1. WordBits \in Nat \ {0} /\ w \in Nat \ {0} /\ j \in Nat /\ r \in Nat
  BY Positive
<1>2. a \in Nat /\ n * w \in Nat /\ a < n * w
  <2>1. j * w + w <= n * w
    BY <1>1
  <2>2. j * w \in Nat /\ n * w \in Nat
    BY <1>1
  <2> QED
    BY <1>1, <2>1, <2>2
<1>3. DOMAIN g = 0..n - 1 /\ Cardinality(DOMAIN g) = n
  <2>1. DOMAIN g = 0..n - 1
    BY DEF Values
  <2> QED
    BY <2>1, FS_Interval
<1>4. a \div WordBits \in PackedWords(n, w)
  <2>1. \A u, v \in Nat : u <= v => u \div WordBits <= v \div WordBits
    BY <1>1
  <2>2. n * w + WordBits - 1 \in Nat /\ a <= n * w + WordBits - 1
    BY <1>1, <1>2
  <2>3. a \div WordBits <= (n * w + WordBits - 1) \div WordBits
    BY <1>2, <2>1, <2>2
  <2>4. a \div WordBits \in Nat /\ (n * w + WordBits - 1) \div WordBits \in Nat
    BY <1>1, <1>2, <2>2
  <2> QED
    BY <2>3, <2>4 DEF PackedWords
<1> DEFINE x == a \div WordBits
           i == a % WordBits
           Has(k) == \/ /\ (k * w) \div WordBits = x
                        /\ i - ((k * w) % WordBits) \in Bits(g[k])
                     \/ /\ (k * w) \div WordBits + 1 = x
                        /\ ((k * w) % WordBits) + w > WordBits
                        /\ i + WordBits - ((k * w) % WordBits) \in Bits(g[k])
<1>5. i \in 0..WordBits - 1
  BY <1>2, DivMod
<1>6. i \in Pack(g, w)[x] <=> \E k \in 0..n - 1 : Has(k)
  <2>1. Pack(g, w)[x] =
          {z \in 0..WordBits - 1 : \E k \in 0..n - 1 :
             \/ (k * w) \div WordBits = x /\ z - ((k * w) % WordBits) \in Bits(g[k])
             \/ /\ (k * w) \div WordBits + 1 = x
                /\ ((k * w) % WordBits) + w > WordBits
                /\ z + WordBits - ((k * w) % WordBits) \in Bits(g[k])}
    BY <1>3, <1>4 DEF Pack, PackedWords
  <2> QED
    BY <1>5, <2>1
<1>7. ASSUME NEW k \in 0..n - 1 PROVE Has(k) <=> a - k * w \in Bits(g[k])
  <2>1. g[k] \in 0..Pow2[w] - 1
    BY DEF Values
  <2>2. Bits(g[k]) \in SUBSET (0..w - 1)
    BY <2>1, BitsOfValue
  <2>3. k * w \in Nat
    BY <1>1
  <2> QED
    BY <1>2, <2>2, <2>3, Straddle
<1>8. ASSUME NEW k \in 0..n - 1, a - k * w \in Bits(g[k]) PROVE k = j
  <2>1. g[k] \in 0..Pow2[w] - 1
    BY DEF Values
  <2>2. a - k * w \in 0..w - 1
    BY <1>8, <2>1, BitsOfValue
  <2> DEFINE s == a - k * w
  <2>3. k * w \in Nat /\ a = w * k + s /\ a = w * j + r /\ s \in 0..w - 1 /\ k \in Nat
    BY <1>1, <1>2, <2>2
  <2> HIDE DEF s
  <2>4. a \div w = k
    BY <1>1, <2>3, DivIs
  <2>5. a \div w = j
    BY <1>1, <2>3, DivIs
  <2> QED
    BY <2>4, <2>5
<1>9. a - j * w = r
  <2>1. j * w \in Nat
    BY <1>1
  <2> QED
    BY <1>1, <2>1
<1> HIDE DEF Has
<1>10. (\E k \in 0..n - 1 : Has(k)) <=> r \in Bits(g[j])
  BY <1>7, <1>8, <1>9
<1> QED
  BY <1>2, <1>4, <1>6, <1>10

\* What was packed is read back.
LEMMA PackedIsRead ==
  ASSUME NEW n \in Nat, NEW w \in 1..WordBits, NEW g \in Values(n, w), NEW j \in 0..n - 1
  PROVE  GVal(Pack(g, w), w, j) = g[j]
<1> DEFINE p == Pack(g, w)
           b == j * w
           x == b \div WordBits
           off == b % WordBits
           low == {i - off : i \in {k \in p[x] : k >= off}}
           high == IF off + w > WordBits THEN {i + WordBits - off : i \in p[x + 1]} ELSE {}
           read == {i \in low \cup high : i < w}
<1>1. WordBits \in Nat \ {0} /\ w \in Nat \ {0} /\ j \in Nat /\ b \in Nat
  BY Positive
<1>2. x \in Nat /\ off \in 0..WordBits - 1 /\ b = WordBits * x + off
  BY <1>1, DivMod
<1>3. DOMAIN g = 0..n - 1 /\ Cardinality(DOMAIN g) = n
  <2>1. DOMAIN g = 0..n - 1
    BY DEF Values
  <2> QED
    BY <2>1, FS_Interval
<1>4. g[j] \in 0..Pow2[w] - 1 /\ Bits(g[j]) \subseteq 0..w - 1
  <2>1. g[j] \in 0..Pow2[w] - 1
    BY DEF Values
  <2> QED
    BY <2>1, BitsOfValue
<1>5. \A y \in PackedWords(n, w) : p[y] \subseteq 0..WordBits - 1
  BY <1>3 DEF Pack, PackedWords
<1>6. ASSUME NEW r \in 0..w - 1
      PROVE  /\ off + r < WordBits => (off + r \in p[x] <=> r \in Bits(g[j]))
             /\ off + r >= WordBits => (off + r - WordBits \in p[x + 1] <=> r \in Bits(g[j]))
             /\ off + r < WordBits => x \in PackedWords(n, w)
             /\ off + r >= WordBits => x + 1 \in PackedWords(n, w)
  <2> DEFINE a == j * w + r
  <2>1. /\ a \in Nat /\ a \div WordBits \in PackedWords(n, w)
        /\ a % WordBits \in p[a \div WordBits] <=> r \in Bits(g[j])
    BY PackedBit
  <2>2. a = WordBits * x + (off + r)
    BY <1>1, <1>2
  <2> HIDE DEF a, x, off, p, b
  <2>3. CASE off + r < WordBits
    <3>1. off + r \in 0..WordBits - 1
      BY <1>1, <1>2, <2>3
    <3>2. a \div WordBits = x /\ a % WordBits = off + r
      <4> DEFINE d == off + r
      <4>1. d \in 0..WordBits - 1 /\ a = WordBits * x + d
        BY <2>2, <3>1
      <4> HIDE DEF d
      <4>2. a \div WordBits = x /\ a % WordBits = d
        BY <1>1, <1>2, <4>1, DivIs
      <4> QED
        BY <4>2 DEF d
    <3>3. (off + r \in p[x] <=> r \in Bits(g[j])) /\ x \in PackedWords(n, w)
      BY <2>1, <3>2, Zenon
    <3>4. ~(off + r >= WordBits)
      BY <1>1, <1>2, <2>3
    <3> QED
      BY <2>3, <3>3, <3>4, Zenon
  <2>4. CASE off + r >= WordBits
    <3>1. off + r - WordBits \in 0..WordBits - 1
      BY <1>1, <1>2, <2>4
    <3>2. a = WordBits * (x + 1) + (off + r - WordBits)
      BY <1>1, <1>2, <2>2
    <3>3. a \div WordBits = x + 1 /\ a % WordBits = off + r - WordBits
      <4> DEFINE q == x + 1
                 d == off + r - WordBits
      <4>1. q \in Nat /\ d \in 0..WordBits - 1 /\ a = WordBits * q + d
        BY <1>2, <3>1, <3>2
      <4> HIDE DEF q, d
      <4>2. a \div WordBits = q /\ a % WordBits = d
        BY <1>1, <4>1, DivIs
      <4> QED
        BY <4>2 DEF q, d
    <3>4. (off + r - WordBits \in p[x + 1] <=> r \in Bits(g[j])) /\ x + 1 \in PackedWords(n, w)
      BY <2>1, <3>3, Zenon
    <3>5. ~(off + r < WordBits)
      BY <1>1, <1>2, <2>4
    <3> QED
      BY <2>4, <3>4, <3>5, Zenon
  <2> QED
    BY <1>1, <1>2, <2>3, <2>4
<1>7. x \in PackedWords(n, w)
  <2> DEFINE a == j * w + 0
  <2>1. 0 \in 0..w - 1
    BY <1>1
  <2>2. a \div WordBits \in PackedWords(n, w)
    BY <2>1, PackedBit
  <2> QED
    BY <1>1, <2>2
<1>8. off + w > WordBits => x + 1 \in PackedWords(n, w)
  <2>1. w - 1 \in 0..w - 1
    BY <1>1
  <2> HIDE DEF x, off, p, b
  <2> QED
    BY <1>1, <1>2, <1>6, <2>1
<1>9. read = Bits(g[j])
  <2> HIDE DEF x, off, p, b
  <2>1. ASSUME NEW r \in read PROVE r \in Bits(g[j])
    <3>1. CASE r \in low
      <4>1. PICK i \in p[x] : i >= off /\ r = i - off
        BY <3>1
      <4>2. i \in 0..WordBits - 1
        BY <1>5, <1>7
      <4>3. r \in 0..w - 1 /\ off + r = i /\ off + r < WordBits
        BY <1>1, <1>2, <4>1, <4>2
      <4> QED
        BY <1>6, <4>1, <4>3
    <3>2. CASE r \in high
      <4>1. off + w > WordBits
        BY <3>2
      <4>2. PICK i \in p[x + 1] : r = i + WordBits - off
        BY <3>2
      <4>3. i \in 0..WordBits - 1
        BY <1>5, <1>8, <4>1
      <4>4. r \in 0..w - 1 /\ off + r - WordBits = i /\ off + r >= WordBits
        BY <1>1, <1>2, <4>2, <4>3
      <4> QED
        BY <1>6, <4>2, <4>4
    <3> QED
      BY <3>1, <3>2
  <2>2. ASSUME NEW r \in Bits(g[j]) PROVE r \in read
    <3>1. r \in 0..w - 1
      BY <1>4
    <3>2. CASE off + r < WordBits
      <4>1. off + r \in p[x] /\ off + r >= off /\ r = (off + r) - off /\ r < w
        BY <1>1, <1>2, <1>6, <3>1, <3>2
      <4> QED
        BY <4>1
    <3>3. CASE off + r >= WordBits
      <4>1. /\ off + r - WordBits \in p[x + 1] /\ off + w > WordBits /\ r < w
            /\ r = (off + r - WordBits) + WordBits - off
        BY <1>1, <1>2, <1>6, <3>1, <3>3
      <4> QED
        BY <4>1
    <3> QED
      BY <1>1, <1>2, <3>1, <3>2, <3>3
  <2> QED
    BY <2>1, <2>2
<1>10. GVal(p, w, j) = CHOOSE v \in 0..Pow2[w] - 1 : Bits(v) = read
  BY DEF GVal
<1> HIDE DEF read
<1> QED
  BY <1>4, <1>9, <1>10, BitsOfValue

-----------------------------------------------------------------------------
(* Ranks *)

\* The bits of the words of S, as pairs.
Ones(w, S) == UNION {{x} \X w[x] : x \in S \cap DOMAIN w}

\* The slots before pos that are occupied.
Occupied(w, pos) == {s \in 0..pos - 1 : BitSet(w, s)}

\* The two levels of the rank count the occupied slots before a position.
LEMMA RankCounts ==
  ASSUME NEW m \in Nat, NEW w \in Words(m), NEW pos \in 0..m - 1
  PROVE  Rank(w, BuildRank(w), pos) = Cardinality(Occupied(w, pos))
<1> DEFINE n == (m + WordBits - 1) \div WordBits
           x == pos \div WordBits
           off == pos % WordBits
           b == x \div BlockWords
           first == b * BlockWords
           rest == {i \in w[x] : i < off}
           P1 == Ones(w, 0..first - 1)
           P2 == Ones(w, first..x - 1)
           P3 == {x} \X rest
           Q == (P1 \cup P2) \cup P3
<1>1. WordBits \in Nat \ {0} /\ BlockWords \in Nat \ {0}
  BY MphfAssumption
<1>2. n \in Nat /\ w \in [0..n - 1 -> SUBSET (0..WordBits - 1)]
  <2>1. m + WordBits - 1 \in Nat
    BY <1>1
  <2> QED
    BY <1>1, <2>1 DEF Words
<1>3. x \in 0..n - 1 /\ off \in 0..WordBits - 1 /\ pos = WordBits * x + off /\ pos \in Nat
  BY WordOfSlot, DivMod
<1> HIDE DEF n
<1>4. b \in Nat /\ first \in Nat /\ first <= x
  <2> HIDE DEF x
  <2>1. /\ b \in Nat /\ x % BlockWords \in 0..BlockWords - 1
        /\ x = BlockWords * b + (x % BlockWords)
    BY <1>1, <1>3
  <2> HIDE DEF b
  <2> QED
    BY <1>1, <1>3, <2>1
<1>5. DOMAIN w = 0..n - 1 /\ Cardinality(DOMAIN w) = n
  <2>1. DOMAIN w = 0..n - 1
    BY <1>2
  <2> QED
    BY <1>2, <2>1, FS_Interval
<1>6. b \in 0..Blocks(w)
  <2> DEFINE k == (n + BlockWords - 1) \div BlockWords
             r == (n + BlockWords - 1) % BlockWords
  <2>1. /\ k \in Nat /\ r \in 0..BlockWords - 1
        /\ n + BlockWords - 1 = BlockWords * k + r
    <3> DEFINE d == n + BlockWords - 1
    <3>1. d \in Nat
      BY <1>1, <1>2
    <3> HIDE DEF d
    <3>2. /\ d \div BlockWords \in Nat /\ d % BlockWords \in 0..BlockWords - 1
          /\ d = BlockWords * (d \div BlockWords) + (d % BlockWords)
      BY <1>1, <3>1
    <3> QED
      BY <3>2 DEF d
  <2> HIDE DEF k, r, x, b
  <2>2. ~(k < b)
    <3>1. k < b => BlockWords * k + BlockWords <= BlockWords * b
      BY <1>1, <1>4, <2>1
    <3>2. BlockWords * b = first
      BY <1>1, <1>4
    <3>3. first <= n - 1
      BY <1>2, <1>3, <1>4
    <3> HIDE DEF first
    <3> QED
      BY <1>1, <1>2, <1>3, <1>4, <2>1, <3>1, <3>2, <3>3
  <2> QED
    BY <1>4, <1>5, <2>1, <2>2 DEF Blocks, k
<1>7. Rank(w, BuildRank(w), pos) = Cardinality(P1) + Cardinality(P2) + Cardinality(rest)
  <2>1. BuildRank(w)[b] = OnesIn(w, 0..b * BlockWords - 1)
    BY <1>6 DEF BuildRank
  <2> QED
    BY <2>1 DEF Rank, OnesIn, Ones
<1>8. /\ \A S : Ones(w, S) = {p \in (0..n - 1) \X (0..WordBits - 1) : p[1] \in S /\ p[2] \in w[p[1]]}
      /\ rest \subseteq 0..WordBits - 1
  <2>1. ASSUME NEW S
        PROVE  Ones(w, S) = {p \in (0..n - 1) \X (0..WordBits - 1) : p[1] \in S /\ p[2] \in w[p[1]]}
    <3>1. ASSUME NEW p \in Ones(w, S)
          PROVE  p \in (0..n - 1) \X (0..WordBits - 1) /\ p[1] \in S /\ p[2] \in w[p[1]]
      <4>1. PICK y \in S \cap DOMAIN w : p \in {y} \X w[y]
        BY DEF Ones
      <4>2. y \in 0..n - 1 /\ w[y] \subseteq 0..WordBits - 1 /\ p[1] = y /\ p[2] \in w[y]
            /\ p = <<p[1], p[2]>>
        BY <1>2, <1>5, <4>1
      <4> QED
        BY <4>1, <4>2
    <3>2. ASSUME NEW p \in (0..n - 1) \X (0..WordBits - 1), p[1] \in S, p[2] \in w[p[1]]
          PROVE  p \in Ones(w, S)
      <4>1. p \in {p[1]} \X w[p[1]] /\ p[1] \in S \cap DOMAIN w
        BY <1>5, <3>2
      <4> QED
        BY <4>1 DEF Ones
    <3> QED
      BY <3>1, <3>2
  <2> QED
    BY <1>2, <1>3, <2>1
<1> HIDE DEF x, off, b, first
<1>9. /\ P1 \cap P2 = {} /\ (P1 \cup P2) \cap P3 = {}
      /\ Q = {p \in (0..n - 1) \X (0..WordBits - 1) :
                p[2] \in w[p[1]] /\ (p[1] < x \/ (p[1] = x /\ p[2] < off))}
  <2>1. P1 = {p \in (0..n - 1) \X (0..WordBits - 1) : p[1] < first /\ p[2] \in w[p[1]]}
    BY <1>4, <1>8
  <2>2. P2 = {p \in (0..n - 1) \X (0..WordBits - 1) :
                first <= p[1] /\ p[1] < x /\ p[2] \in w[p[1]]}
    BY <1>3, <1>4, <1>8
  <2>3. P3 = {p \in (0..n - 1) \X (0..WordBits - 1) : p[1] = x /\ p[2] < off /\ p[2] \in w[p[1]]}
    BY <1>3, <1>8
  <2> HIDE DEF P1, P2, P3
  <2> QED
    BY <1>3, <1>4, <2>1, <2>2, <2>3
<1>10. IsFiniteSet(P1) /\ IsFiniteSet(P2) /\ IsFiniteSet(P3) /\ IsFiniteSet(rest)
  <2>1. IsFiniteSet((0..n - 1) \X (0..WordBits - 1))
    <3> DEFINE A == 0..n - 1
               B == 0..WordBits - 1
    <3>1. IsFiniteSet(A) /\ IsFiniteSet(B)
      BY <1>1, <1>2, FS_Interval
    <3> HIDE DEF A, B
    <3>2. IsFiniteSet(A \X B)
      BY <3>1, FS_Product
    <3> QED
      BY <3>2 DEF A, B
  <2>2. P1 \subseteq Q /\ P2 \subseteq Q /\ P3 \subseteq Q
    OBVIOUS
  <2>3. Q \subseteq (0..n - 1) \X (0..WordBits - 1)
    BY <1>9
  <2>4. IsFiniteSet(0..WordBits - 1)
    BY <1>1, FS_Interval
  <2> HIDE DEF P1, P2, P3, Q, rest
  <2> QED
    BY <1>8, <2>1, <2>2, <2>3, <2>4, FS_Subset
<1>11. Cardinality(P3) = Cardinality(rest)
  <2> DEFINE f == [i \in rest |-> <<x, i>>]
  <2>1. f \in Bijection(rest, P3)
    <3>1. f \in [rest -> P3]
      OBVIOUS
    <3>2. \A i, k \in rest : f[i] = f[k] => i = k
      OBVIOUS
    <3>3. \A p \in P3 : \E i \in rest : f[i] = p
      OBVIOUS
    <3> HIDE DEF f, rest, P3
    <3> QED
      BY <3>1, <3>2, <3>3, Fun_IsBij
  <2> HIDE DEF f, rest, P3
  <2> QED
    BY <1>10, <2>1, FS_Bijection DEF ExistsBijection
<1>12. Cardinality(Q) = Cardinality(P1) + Cardinality(P2) + Cardinality(rest)
  <2> DEFINE P12 == P1 \cup P2
  <2> HIDE DEF P1, P2, P3, rest
  <2>1. IsFiniteSet(P12) /\ Cardinality(P12) = Cardinality(P1) + Cardinality(P2)
    <3>1. Cardinality(P12) = Cardinality(P1) + Cardinality(P2) - Cardinality(P1 \cap P2)
      BY <1>10, FS_Union
    <3>2. Cardinality(P1 \cap P2) = 0
      BY <1>9, FS_EmptySet
    <3>3. Cardinality(P1) \in Nat /\ Cardinality(P2) \in Nat
      BY <1>10, FS_CardinalityType
    <3> QED
      BY <1>10, <3>1, <3>2, <3>3, FS_Union
  <2> HIDE DEF P12
  <2>2. Cardinality(P12 \cup P3) = Cardinality(P12) + Cardinality(P3) - Cardinality(P12 \cap P3)
    BY <1>10, <2>1, FS_Union
  <2>3. Cardinality(P12 \cap P3) = 0
    BY <1>9, FS_EmptySet DEF P12
  <2>4. Cardinality(P1) \in Nat /\ Cardinality(P2) \in Nat /\ Cardinality(P3) \in Nat
    BY <1>10, FS_CardinalityType
  <2> QED
    BY <1>11, <2>1, <2>2, <2>3, <2>4 DEF P12
<1> DEFINE g == [p \in Q |-> WordBits * p[1] + p[2]]
<1>13. ASSUME NEW p \in (0..n - 1) \X (0..WordBits - 1)
       PROVE  /\ WordBits * p[1] + p[2] \in Nat
              /\ (WordBits * p[1] + p[2]) \div WordBits = p[1]
              /\ (WordBits * p[1] + p[2]) % WordBits = p[2]
              /\ WordBits * p[1] + p[2] < pos <=> p[1] < x \/ (p[1] = x /\ p[2] < off)
  <2> DEFINE y == p[1]
             i == p[2]
  <2>1. y \in Nat /\ i \in 0..WordBits - 1
    BY <1>2
  <2> HIDE DEF y, i
  <2>2. WordBits * y \in Nat
    BY <1>1, <2>1
  <2>3. (WordBits * y + i) \div WordBits = y /\ (WordBits * y + i) % WordBits = i
    <3> DEFINE a == WordBits * y + i
    <3>1. a = WordBits * y + i
      OBVIOUS
    <3> HIDE DEF a
    <3>2. a \div WordBits = y /\ a % WordBits = i
      BY <1>1, <2>1, <3>1, DivIs
    <3> QED
      BY <3>2 DEF a
  <2>4. WordBits * y + i < pos <=> y < x \/ (y = x /\ i < off)
    <3>1. CASE y < x
      <4>1. WordBits * y + WordBits <= WordBits * x
        BY <1>1, <1>3, <2>1, <3>1
      <4>2. WordBits * x \in Nat
        BY <1>1, <1>3
      <4> QED
        BY <1>1, <1>3, <2>1, <2>2, <3>1, <4>1, <4>2
    <3>2. CASE x < y
      <4>1. WordBits * x + WordBits <= WordBits * y
        BY <1>1, <1>3, <2>1, <3>2
      <4>2. WordBits * x \in Nat
        BY <1>1, <1>3
      <4> QED
        BY <1>1, <1>3, <2>1, <2>2, <3>2, <4>1, <4>2
    <3>3. CASE x = y
      BY <1>1, <1>3, <2>1, <2>2, <3>3
    <3> QED
      BY <1>3, <2>1, <3>1, <3>2, <3>3
  <2> QED
    BY <2>1, <2>2, <2>3, <2>4 DEF y, i
<1>14. g \in Bijection(Q, Occupied(w, pos))
  <2>1. \A p \in Q : /\ p \in (0..n - 1) \X (0..WordBits - 1) /\ p[2] \in w[p[1]]
                     /\ (p[1] < x \/ (p[1] = x /\ p[2] < off)) /\ p = <<p[1], p[2]>>
    BY <1>9
  <2>2. \A p \in Q : g[p] = WordBits * p[1] + p[2]
    OBVIOUS
  <2>3. ASSUME NEW p \in Q PROVE g[p] \in Occupied(w, pos)
    <3>1. g[p] \in 0..pos - 1
      BY <1>3, <1>13, <2>1, <2>2
    <3>2. BitSet(w, g[p])
      BY <1>13, <2>1, <2>2 DEF BitSet
    <3> QED
      BY <3>1, <3>2 DEF Occupied
  <2>4. \A p, q \in Q : g[p] = g[q] => p = q
    <3> SUFFICES ASSUME NEW p \in Q, NEW q \in Q, g[p] = g[q] PROVE p = q
      OBVIOUS
    <3>1. p[1] = q[1] /\ p[2] = q[2]
      BY <1>13, <2>1, <2>2
    <3> QED
      BY <2>1, <3>1
  <2>5. ASSUME NEW s \in Occupied(w, pos) PROVE \E p \in Q : g[p] = s
    <3> DEFINE p == <<s \div WordBits, s % WordBits>>
    <3>1. s \in Nat /\ s < pos /\ s < m /\ BitSet(w, s)
      BY <1>3 DEF Occupied
    <3>2. p \in (0..n - 1) \X (0..WordBits - 1) /\ s = WordBits * p[1] + p[2]
      BY <3>1, WordOfSlot, DivMod DEF n
    <3>3. p[2] \in w[p[1]]
      BY <3>1 DEF BitSet
    <3> HIDE DEF p
    <3>4. p \in Q
      BY <1>9, <1>13, <3>1, <3>2, <3>3
    <3> QED
      BY <2>2, <3>2, <3>4
  <2>6. g \in [Q -> Occupied(w, pos)]
    <3> HIDE DEF Q
    <3> QED
      BY <2>3
  <2> HIDE DEF g, Q
  <2> QED
    BY <2>4, <2>5, <2>6, Fun_IsBij
<1>15. IsFiniteSet(Q)
  <2> HIDE DEF P1, P2, P3
  <2> QED
    BY <1>10, FS_Union
<1>16. Cardinality(Q) = Cardinality(Occupied(w, pos))
  <2> HIDE DEF Q, g
  <2> QED
    BY <1>14, <1>15, FS_Bijection DEF ExistsBijection
<1> QED
  BY <1>7, <1>12, <1>16

\* Among the numbers of a finite set, each has its own place, from 0 on.
Places(F) == [x \in F |-> Cardinality({y \in F : y < x})]

LEMMA PlacesAreAll ==
  ASSUME NEW F \in SUBSET Nat, IsFiniteSet(F)
  PROVE  /\ Cardinality(F) \in Nat
         /\ Places(F) \in [F -> 0..Cardinality(F) - 1]
         /\ \A x, z \in F : Places(F)[x] = Places(F)[z] => x = z
         /\ \A k \in 0..Cardinality(F) - 1 : \E x \in F : Places(F)[x] = k
<1> DEFINE n == Cardinality(F)
           D == 0..n - 1
           P == Places(F)
           Less(x) == {y \in F : y < x}
<1>1. n \in Nat
  BY FS_CardinalityType
<1>2. \A x \in F : /\ IsFiniteSet(Less(x)) /\ Cardinality(Less(x)) \in Nat
                   /\ P[x] = Cardinality(Less(x))
  <2> SUFFICES ASSUME NEW x \in F
               PROVE  /\ IsFiniteSet(Less(x)) /\ Cardinality(Less(x)) \in Nat
                      /\ P[x] = Cardinality(Less(x))
    OBVIOUS
  <2>1. P[x] = Cardinality(Less(x)) /\ Less(x) \subseteq F
    BY DEF Places
  <2> HIDE DEF Less
  <2> QED
    BY <2>1, FS_Subset, FS_CardinalityType
<1>3. ASSUME NEW x \in F PROVE P[x] \in D
  <2>1. Less(x) \subseteq F /\ x \notin Less(x)
    OBVIOUS
  <2> HIDE DEF Less, P
  <2>2. Cardinality(Less(x)) <= n /\ Cardinality(Less(x)) # n
    BY <2>1, FS_Subset
  <2> QED
    BY <1>1, <1>2, <2>2
<1>4. ASSUME NEW x \in F, NEW z \in F, x < z PROVE P[x] < P[z]
  <2>1. Less(x) \subseteq Less(z) /\ x \in Less(z) /\ x \notin Less(x)
    <3>1. x \in Nat /\ z \in Nat /\ \A y \in F : y \in Nat
      OBVIOUS
    <3>2. ASSUME NEW y \in Less(x) PROVE y \in Less(z)
      BY <1>4, <3>1
    <3>3. x \in Less(z) /\ x \notin Less(x)
      BY <1>4, <3>1
    <3> HIDE DEF Less
    <3> QED
      BY <3>2, <3>3
  <2> HIDE DEF Less, P
  <2>2. Cardinality(Less(x)) <= Cardinality(Less(z)) /\ Cardinality(Less(x)) # Cardinality(Less(z))
    BY <1>2, <2>1, FS_Subset
  <2> QED
    BY <1>2, <2>2
<1>5. \A x, z \in F : P[x] = P[z] => x = z
  <2> SUFFICES ASSUME NEW x \in F, NEW z \in F, P[x] = P[z] PROVE x = z
    OBVIOUS
  <2>1. P[x] \in Nat /\ P[z] \in Nat
    BY <1>2
  <2> HIDE DEF P
  <2> QED
    BY <1>4, <2>1
<1>6. P \in [F -> D]
  <2>1. P = [x \in F |-> P[x]]
    BY DEF Places
  <2> HIDE DEF P, D
  <2> QED
    BY <1>3, <2>1
<1>7. P \in Surjection(F, D)
  <2>1. IsFiniteSet(D) /\ Cardinality(D) = n
    <3> HIDE DEF n
    <3>1. 0 \in Int /\ n - 1 \in Int
      BY <1>1
    <3>2. IsFiniteSet(D) /\ Cardinality(D) = IF 0 > n - 1 THEN 0 ELSE (n - 1) - 0 + 1
      BY <3>1, FS_Interval
    <3> QED
      BY <1>1, <3>2
  <2> HIDE DEF P, D
  <2>2. P \in Injection(F, D)
    BY <1>5, <1>6 DEF Injection, IsInjective
  <2> QED
    BY <2>1, <2>2, FS_Injection
<1>8. \A k \in D : \E x \in F : P[x] = k
  <2> HIDE DEF P, D
  <2> QED
    BY <1>7 DEF Surjection
<1> QED
  BY <1>1, <1>5, <1>6, <1>8

\* A set of naturals that is not empty has a least one.
LEMMA Least ==
  ASSUME NEW F \in SUBSET Nat, F # {}
  PROVE  \E x \in F : \A y \in F : x <= y
<1> DEFINE S == {n \in Nat : n \in F => \E x \in F : \A y \in F : x <= y}
<1>1. ASSUME NEW n \in Nat, \A k \in 0..n - 1 : k \in S PROVE n \in S
  <2>1. CASE \E k \in F : k < n
    <3>1. PICK k \in F : k < n
      BY <2>1
    <3>2. k \in 0..n - 1
      BY <3>1
    <3> QED
      BY <1>1, <3>2
  <2>2. CASE ~\E k \in F : k < n
    <3>1. \A y \in F : n <= y
      BY <2>2
    <3> QED
      BY <3>1
  <2> QED
    BY <2>1, <2>2
<1>2. \A n \in Nat : n \in S
  <2> HIDE DEF S
  <2> QED
    BY <1>1, Ops!StrongInduction
<1> QED
  BY <1>2

-----------------------------------------------------------------------------
(* The invariant *)

Placed == {i \in DOMAIN keys : h1[keys[i]] \notin todo}
Slot(i) == At(i, disp[h1[keys[i]]])

Slotted == stage \in {"place", "built"} /\ keys # <<>>

\* The shape of the state while there is a table.
Shape ==
  /\ stage \in {"seed", "place"} => keys # <<>>
  /\ \E S : keys \in Seq(S)
  /\ stage # "none" => h1 \in [Elems(keys) -> 0..NB(Len(keys)) - 1]
  /\ Slotted => /\ h2 \in [Elems(keys) -> 0..M(Len(keys)) - 1]
                /\ disp \in [0..NB(Len(keys)) - 1 -> 0..MaxDisplacement - 1]
                /\ words \in Words(M(Len(keys)))

TableInv == Shape /\ TableExact

\* TableExact in terms of Placed and Slot.
LEMMA TableExactIs ==
  TableExact <=>
    (Slotted => /\ \A s \in 0..M(Len(keys)) - 1 :
                     BitSet(words, s) <=> \E i \in Placed : Slot(i) = s
                /\ \A i, k \in Placed : Slot(i) = Slot(k) => i = k)
  BY Zenon DEF TableExact, Slotted, Placed, Slot

LEMMA SlotInTable ==
  ASSUME Shape, Slotted, NEW i \in DOMAIN keys, NEW d \in Nat
  PROVE  At(i, d) \in 0..M(Len(keys)) - 1
<1>1. Len(keys) \in Nat /\ keys[i] \in Elems(keys)
  BY DEF Shape, Elems
<1>2. M(Len(keys)) \in Nat \ {0}
  BY <1>1, Slots
<1>3. h2[keys[i]] \in 0..M(Len(keys)) - 1
  BY <1>1 DEF Shape
<1> HIDE DEF M
<1> QED BY <1>2, <1>3 DEF At

LEMMA BuildKeeps ==
  ASSUME TableInv, NEW ks, \E S : ks \in Seq(S), Build(ks)
  PROVE  TableInv'
<1>1. Shape'
  BY DEF TableInv, Shape, Build, Slotted
<1>2. ~Slotted'
  BY DEF Build, Slotted
<1>3. TableExact'
  BY <1>2 DEF TableExact, Slotted
<1> QED BY <1>1, <1>3 DEF TableInv

LEMMA SeedKeeps ==
  ASSUME TableInv, Seed
  PROVE  TableInv'
<1> USE DEF Seed
<1>1. Len(keys) \in Nat /\ M(Len(keys)) \in Nat /\ NB(Len(keys)) \in Nat
  BY Slots DEF TableInv, Shape
<1>2. Shape'
  <2>1. words' \in Words(M(Len(keys)))
    BY <1>1, EmptyTable
  <2>2. disp' \in [0..NB(Len(keys)) - 1 -> 0..MaxDisplacement - 1]
    BY MphfAssumption
  <2> QED BY <2>1, <2>2 DEF TableInv, Shape, Slotted
<1>3. \A s \in 0..M(Len(keys)) - 1 : ~BitSet(words', s)
  BY <1>1, EmptyTable
<1>4. Placed' = {}
  BY DEF Placed, Elems
<1>5. TableExact'
  <2>1. \A s \in 0..M(Len(keys')) - 1 : ~BitSet(words', s)
    BY <1>3
  <2>2. TableExact' <=>
          (Slotted' => /\ \A s \in 0..M(Len(keys')) - 1 :
                            BitSet(words', s) <=> \E i \in Placed' : Slot(i)' = s
                       /\ \A i, k \in Placed' : Slot(i)' = Slot(k)' => i = k)
    BY Zenon DEF TableExact, Slotted, Placed, Slot, BitSet
  <2> QED BY <2>1, <2>2, <1>4
<1> QED BY <1>2, <1>5 DEF TableInv

\* A bucket that fits takes free and distinct slots; the others keep theirs.
LEMMA PlaceKeeps ==
  ASSUME TableInv, NEW j \in todo, Place(j)
  PROVE  TableInv'
<1>1. Len(keys) \in Nat /\ M(Len(keys)) \in Nat /\ NB(Len(keys)) \in Nat
  BY Slots DEF TableInv, Shape
<1>2. Slotted /\ stage = "place" /\ keys' = keys /\ h1' = h1
  BY DEF TableInv, Shape, Slotted, Place
<1>3. CASE stage' = "seed"
  <2>1. ~Slotted'
    BY <1>3 DEF Slotted
  <2>2. Shape'
    BY <1>2, <1>3, <2>1 DEF TableInv, Shape
  <2> QED BY <2>1, <2>2 DEF TableInv, TableExact, Slotted
<1>4. CASE stage' # "seed"
  <2>1. PICK d \in 0..MaxDisplacement - 1 :
          /\ Fits(j, d)
          /\ disp' = [disp EXCEPT ![j] = d]
          /\ words' = SetBits(words, {At(i, d) : i \in Bucket(j)})
          /\ todo' = todo \ {j}
          /\ stage' = stage /\ h2' = h2
    BY <1>4 DEF Place
  <2> DEFINE S == {At(i, d) : i \in Bucket(j)}
  <2>2. d \in Nat
    BY MphfAssumption
  <2>3. S \in SUBSET (0..M(Len(keys)) - 1)
    BY <1>2, <2>2, SlotInTable DEF Bucket, TableInv
  <2>4. /\ words' \in Words(M(Len(keys)))
        /\ \A s \in 0..M(Len(keys)) - 1 : BitSet(words', s) <=> BitSet(words, s) \/ s \in S
    <3>1. words \in Words(M(Len(keys)))
      BY <1>2 DEF TableInv, Shape
    <3> HIDE DEF S
    <3>2. words' = SetBits(words, S)
      BY <2>1 DEF S
    <3> QED BY <1>1, <2>3, <3>1, <3>2, SetBitsExact
  <2>5. Shape'
    BY <1>2, <2>1, <2>2, <2>4 DEF TableInv, Shape, Slotted
  <2>6. Placed' = Placed \cup Bucket(j) /\ Placed \cap Bucket(j) = {}
    BY <1>2, <2>1 DEF Placed, Bucket
  <2>7. \A i \in Bucket(j) : h1[keys[i]] = j /\ i \in DOMAIN keys
    BY DEF Bucket
  <2>8. \A i \in Placed : i \in DOMAIN keys /\ h1[keys[i]] # j
    BY DEF Placed
  <2>9. \A i \in Placed : Slot(i)' = Slot(i)
    BY <1>2, <2>1, <2>8 DEF Slot, At, TableInv, Shape
  <2>10. \A i \in Bucket(j) : Slot(i)' = At(i, d)
    <3> SUFFICES ASSUME NEW i \in Bucket(j) PROVE Slot(i)' = At(i, d)
      OBVIOUS
    <3>1. j \in 0..NB(Len(keys)) - 1
      BY <1>2, <2>7 DEF TableInv, Shape, Elems
    <3> QED BY <1>2, <2>1, <2>7, <3>1 DEF Slot, At, TableInv, Shape
  <2>11. TableExact
    BY DEF TableInv
  <2>12. \A s \in 0..M(Len(keys)) - 1 : BitSet(words', s) <=> \E i \in Placed' : Slot(i)' = s
    BY <1>2, <2>4, <2>6, <2>9, <2>10, <2>11, TableExactIs
  <2>13. ASSUME NEW i \in Placed', NEW k \in Placed', Slot(i)' = Slot(k)' PROVE i = k
    <3>1. CASE i \in Placed /\ k \in Placed
      BY <3>1, <2>13, <2>9, <2>11, <1>2, TableExactIs
    <3>2. CASE i \in Bucket(j) /\ k \in Bucket(j)
      BY <3>2, <2>13, <2>10, <2>1 DEF Fits
    <3>3. \A a \in Placed, b \in Bucket(j) : Slot(a)' # Slot(b)'
      <4> SUFFICES ASSUME NEW a \in Placed, NEW b \in Bucket(j), Slot(a) = At(b, d)
                   PROVE  FALSE
        BY <2>9, <2>10
      <4>1. BitSet(words, At(b, d))
        BY <1>2, <2>3, <2>11, TableExactIs
      <4> QED BY <4>1, <2>1 DEF Fits
    <3> QED BY <3>1, <3>2, <3>3, <2>6, <2>13
  <2>14. TableExact' <=>
           (Slotted' => /\ \A s \in 0..M(Len(keys')) - 1 :
                             BitSet(words', s) <=> \E i \in Placed' : Slot(i)' = s
                        /\ \A i, k \in Placed' : Slot(i)' = Slot(k)' => i = k)
    BY Zenon DEF TableExact, Slotted, Placed, Slot, BitSet
  <2>15. TableExact'
    BY <1>2, <2>12, <2>13, <2>14
  <2> QED BY <2>5, <2>15 DEF TableInv
<1> QED BY <1>3, <1>4

LEMMA PackKeeps ==
  ASSUME TableInv, PackAndRank
  PROVE  TableInv'
<1>1. Slotted /\ Slotted'
  BY DEF PackAndRank, TableInv, Shape, Slotted
<1>2. Shape'
  BY <1>1 DEF PackAndRank, TableInv, Shape
<1>3. TableExact'
  BY <1>1 DEF PackAndRank, TableInv, TableExact, Slotted, At, BitSet
<1> QED BY <1>2, <1>3 DEF TableInv

\* Once built, an index holds its packed displacements and the ranks of its blocks.
Packed ==
  stage = "built" /\ keys # <<>> =>
    todo = {} /\ width = Width(disp) /\ packed = Pack(disp, width) /\ before = BuildRank(words)

HashInv == TableInv /\ Packed

LEMMA UnchangedKeeps ==
  ASSUME HashInv, UNCHANGED mphfVars
  PROVE  HashInv'
<1>1. Shape'
  BY DEF mphfVars, HashInv, TableInv, Shape, Slotted
<1>2. TableExact'
  BY DEF mphfVars, HashInv, TableInv, TableExact, At, BitSet
<1>3. Packed'
  BY DEF mphfVars, HashInv, Packed
<1> QED BY <1>1, <1>2, <1>3 DEF HashInv, TableInv

LEMMA BuildKeepsHash ==
  ASSUME HashInv, NEW ks, \E S : ks \in Seq(S), Build(ks)
  PROVE  HashInv'
<1>1. TableInv'
  BY BuildKeeps DEF HashInv
<1>2. Packed'
  BY DEF Build, Packed
<1> QED BY <1>1, <1>2 DEF HashInv

LEMMA BuildStepKeeps ==
  ASSUME HashInv, BuildStep
  PROVE  HashInv'
<1> USE DEF HashInv
<1>1. CASE Seed
  BY <1>1, SeedKeeps DEF Seed, Packed
<1>2. CASE GiveUp
  <2>1. ~Slotted' /\ stage' = "failed"
    BY <1>2 DEF GiveUp, Slotted
  <2>2. Shape'
    BY <1>2, <2>1 DEF GiveUp, TableInv, Shape
  <2> QED BY <2>1, <2>2 DEF TableInv, TableExact, Packed
<1>3. ASSUME NEW j \in todo, Place(j) PROVE HashInv'
  <2>1. stage' # "built"
    BY <1>3 DEF Place
  <2> QED BY <1>3, <2>1, PlaceKeeps DEF Packed
<1>4. CASE PackAndRank
  <2>1. Packed'
    BY <1>4 DEF PackAndRank, Packed
  <2> QED BY <1>4, <2>1, PackKeeps
<1> QED BY <1>1, <1>2, <1>3, <1>4 DEF BuildStep

-----------------------------------------------------------------------------
(* The ids of a built index *)

\* The width fits every displacement.
LEMMA WidthFits ==
  ASSUME NEW n \in Nat, NEW g \in [0..n - 1 -> 0..MaxDisplacement - 1]
  PROVE  Width(g) \in 1..WordBits /\ g \in Values(n, Width(g))
<1> DEFINE fits == {w \in 1..WordBits : \A j \in 0..n - 1 : g[j] < Pow2[w]}
<1>1. WordBits \in Nat \ {0} /\ MaxDisplacement \in Nat /\ \A w \in Nat : Pow2[w] \in Nat
  BY MphfAssumption, Powers
<1>2. MaxDisplacement < Pow2[WordBits]
  BY DisplacementFits
<1>3. \A j \in 0..n - 1 : g[j] \in 0..MaxDisplacement - 1
  OBVIOUS
<1>4. WordBits \in fits
  BY <1>1, <1>2, <1>3
<1>5. \E w \in fits : \A v \in fits : w <= v
  <2>1. fits \subseteq Nat /\ fits # {}
    <3>1. fits \subseteq 1..WordBits /\ 1..WordBits \subseteq Nat
      BY <1>1
    <3> HIDE DEF fits
    <3> QED
      BY <1>4, <3>1
  <2> HIDE DEF fits
  <2> QED
    BY <2>1, Least
<1>6. Width(g) = CHOOSE w \in fits : \A v \in fits : w <= v
  <2>1. DOMAIN g = 0..n - 1
    OBVIOUS
  <2> QED
    BY <2>1 DEF Width
<1>7. Width(g) \in fits
  <2> HIDE DEF fits
  <2> QED
    BY <1>5, <1>6
<1>8. \A j \in 0..n - 1 : g[j] \in 0..Pow2[Width(g)] - 1
  BY <1>1, <1>3, <1>7
<1> QED
  BY <1>7, <1>8 DEF Values

\* A built index leads every key it was built from to its slot, and gives it the
\* rank of the slot among the occupied ones.
LEMMA IdsOfKeys ==
  ASSUME HashInv, stage = "built", keys # <<>>
  PROVE  /\ \A i \in DOMAIN keys : IdOf(keys[i]) \in 0..Len(keys) - 1
         /\ \A i, k \in DOMAIN keys : IdOf(keys[i]) = IdOf(keys[k]) => i = k
         /\ \A d \in 0..Len(keys) - 1 : \E i \in DOMAIN keys : IdOf(keys[i]) = d
<1> DEFINE n == Len(keys)
           m == M(n)
           F == {Slot(i) : i \in DOMAIN keys}
<1>1. /\ Slotted /\ Shape /\ TableExact /\ todo = {} /\ width = Width(disp)
      /\ packed = Pack(disp, width) /\ before = BuildRank(words)
  BY DEF HashInv, TableInv, Packed, Slotted
<1>2. /\ n \in Nat /\ DOMAIN keys = 1..n /\ m \in Nat \ {0} /\ NB(n) \in Nat
      /\ \A i \in DOMAIN keys : keys[i] \in Elems(keys)
  <2>1. n \in Nat /\ DOMAIN keys = 1..n
    BY <1>1 DEF Shape
  <2>2. \A i \in DOMAIN keys : keys[i] \in Elems(keys)
    BY DEF Elems
  <2> HIDE DEF n
  <2> QED
    BY <2>1, <2>2, Slots
<1>3. /\ h1 \in [Elems(keys) -> 0..NB(n) - 1] /\ h2 \in [Elems(keys) -> 0..m - 1]
      /\ disp \in [0..NB(n) - 1 -> 0..MaxDisplacement - 1] /\ words \in Words(m)
  BY <1>1 DEF Shape
<1>4. Placed = DOMAIN keys
  BY <1>1 DEF Placed
<1>5. /\ \A s \in 0..m - 1 : BitSet(words, s) <=> \E i \in DOMAIN keys : Slot(i) = s
      /\ \A i, k \in DOMAIN keys : Slot(i) = Slot(k) => i = k
  BY <1>1, <1>4, TableExactIs
<1>6. \A i \in DOMAIN keys : Slot(i) \in 0..m - 1
  <2> SUFFICES ASSUME NEW i \in DOMAIN keys PROVE Slot(i) \in 0..m - 1
    OBVIOUS
  <2>1. disp[h1[keys[i]]] \in Nat
    BY <1>2, <1>3, MphfAssumption
  <2> QED
    BY <1>1, <2>1, SlotInTable DEF Slot
<1> HIDE DEF n, m
<1>7. /\ F \subseteq Nat /\ IsFiniteSet(F) /\ Cardinality(F) = n
  <2> DEFINE g == [i \in 1..n |-> Slot(i)]
  <2>1. g \in Bijection(1..n, F)
    <3>1. g \in [1..n -> F]
      BY <1>2
    <3>2. \A i, k \in 1..n : g[i] = g[k] => i = k
      BY <1>2, <1>5
    <3>3. \A s \in F : \E i \in 1..n : g[i] = s
      BY <1>2
    <3> HIDE DEF g, F
    <3> QED
      BY <3>1, <3>2, <3>3, Fun_IsBij
  <2>2. IsFiniteSet(1..n) /\ Cardinality(1..n) = n
    BY <1>2, FS_Interval
  <2>3. F \subseteq Nat
    BY <1>2, <1>6
  <2> HIDE DEF g, F
  <2> QED
    BY <2>1, <2>2, <2>3, FS_Bijection DEF ExistsBijection
<1>8. ASSUME NEW i \in DOMAIN keys
      PROVE  IdOf(keys[i]) = Places(F)[Slot(i)]
  <2> DEFINE j == h1[keys[i]]
             s == Slot(i)
  <2>1. j \in 0..NB(n) - 1
    BY <1>2, <1>3
  <2>2. GVal(packed, width, j) = disp[j]
    <3> HIDE DEF j
    <3> QED
      BY <1>1, <1>2, <1>3, <2>1, WidthFits, PackedIsRead, ZenonT(30)
  <2>3. IdOf(keys[i]) = IdOfSlot(s)
    BY <2>2 DEF IdOf, Slot, At, n, m
  <2>4. s \in 0..m - 1 /\ BitSet(words, s)
    BY <1>5, <1>6
  <2> HIDE DEF j, s
  <2>5. IdOfSlot(s) = Rank(words, before, s)
    BY <2>4 DEF IdOfSlot
  <2>6. Rank(words, before, s) = Cardinality(Occupied(words, s))
    BY <1>1, <1>2, <1>3, <2>4, RankCounts
  <2>7. Occupied(words, s) = {y \in F : y < s}
    <3>1. \A y \in 0..m - 1 : BitSet(words, y) <=> y \in F
      BY <1>5
    <3>2. \A y \in F : y \in 0..m - 1
      BY <1>6
    <3>3. \A y \in 0..s - 1 : y \in 0..m - 1 /\ y < s
      BY <1>2, <2>4
    <3>4. \A y \in 0..m - 1 : y < s => y \in 0..s - 1
      BY <1>2, <2>4
    <3> HIDE DEF F
    <3> QED
      BY <3>1, <3>2, <3>3, <3>4 DEF Occupied
  <2>8. s \in F
    BY DEF s
  <2> HIDE DEF F
  <2>9. Places(F)[s] = Cardinality({y \in F : y < s})
    BY <2>8 DEF Places
  <2> QED
    BY <2>3, <2>5, <2>6, <2>7, <2>9 DEF s
<1>9. \A i \in DOMAIN keys : Slot(i) \in F
  OBVIOUS
<1>10. \A s \in F : \E i \in DOMAIN keys : Slot(i) = s
  OBVIOUS
<1> HIDE DEF F
<1>11. /\ Places(F) \in [F -> 0..n - 1]
       /\ \A x, z \in F : Places(F)[x] = Places(F)[z] => x = z
       /\ \A k \in 0..n - 1 : \E x \in F : Places(F)[x] = k
  BY <1>7, PlacesAreAll
<1>12. \A i \in DOMAIN keys : IdOf(keys[i]) \in 0..n - 1
  BY <1>8, <1>9, <1>11
<1>13. \A i, k \in DOMAIN keys : IdOf(keys[i]) = IdOf(keys[k]) => i = k
  BY <1>5, <1>8, <1>9, <1>11
<1>14. \A d \in 0..n - 1 : \E i \in DOMAIN keys : IdOf(keys[i]) = d
  BY <1>8, <1>10, <1>11
<1> QED
  BY <1>12, <1>13, <1>14 DEF n

LEMMA BuiltIsPerfect == HashInv => PerfectHash
<1> SUFFICES ASSUME HashInv, stage = "built"
             PROVE  {IdOf(k) : k \in Elems(keys)} = 0..Len(keys) - 1
  BY DEF PerfectHash
<1>1. CASE keys = <<>>
  BY <1>1 DEF Elems
<1>2. CASE keys # <<>>
  <2>1. \A k \in Elems(keys) : \E i \in DOMAIN keys : k = keys[i]
    BY DEF Elems
  <2>2. \A i \in DOMAIN keys : keys[i] \in Elems(keys)
    BY DEF Elems
  <2> QED
    BY <1>2, <2>1, <2>2, IdsOfKeys
<1> QED
  BY <1>1, <1>2

-----------------------------------------------------------------------------
(* Vocabularies *)

\* BuildKeyer drops repeated terms: each stays once (keyer.go:65-74).
LEMMA DedupKeepsEachOnce ==
  ASSUME NEW v \in Seq(Term)
  PROVE  /\ Dedup(v) \in Seq(Term)
         /\ Elems(Dedup(v)) = Elems(v)
         /\ \A i, k \in DOMAIN Dedup(v) : Dedup(v)[i] = Dedup(v)[k] => i = k
<1> DEFINE F == {i \in DOMAIN v : \A j \in 1..i - 1 : v[j] # v[i]}
           n == Cardinality(F)
           place(i) == Cardinality({j \in F : j <= i})
           pick(k) == CHOOSE i \in F : place(i) = k
           u == Dedup(v)
<1>1. Len(v) \in Nat /\ DOMAIN v = 1..Len(v) /\ \A i \in DOMAIN v : v[i] \in Term
  OBVIOUS
<1>2. F \in SUBSET Nat /\ F \subseteq DOMAIN v /\ IsFiniteSet(F)
  <2>1. F \subseteq 1..Len(v) /\ IsFiniteSet(1..Len(v))
    BY <1>1, FS_Interval
  <2>2. 1..Len(v) \subseteq Nat
    BY <1>1
  <2> HIDE DEF F
  <2> QED
    BY <1>1, <2>1, <2>2, FS_Subset
<1>3. u = [k \in 1..n |-> v[pick(k)]]
  BY DEF Dedup
<1>4. \A i \in DOMAIN v : i \in F <=> \A j \in 1..i - 1 : v[j] # v[i]
  OBVIOUS
<1> HIDE DEF F, u
<1>5. /\ n \in Nat /\ Places(F) \in [F -> 0..n - 1]
      /\ \A x, z \in F : Places(F)[x] = Places(F)[z] => x = z
      /\ \A k \in 0..n - 1 : \E x \in F : Places(F)[x] = k
  BY <1>2, PlacesAreAll
<1>6. ASSUME NEW i \in F PROVE place(i) = Places(F)[i] + 1
  <2> DEFINE L == {j \in F : j < i}
  <2>1. {j \in F : j <= i} = L \cup {i}
    <3>1. \A j \in F : j \in Nat
      BY <1>2
    <3> QED
      BY <1>6, <3>1
  <2>2. Places(F)[i] = Cardinality(L) /\ L \subseteq F /\ i \notin L
    BY <1>2 DEF Places
  <2> HIDE DEF L
  <2>3. IsFiniteSet(L)
    BY <1>2, <2>2, FS_Subset
  <2>4. Cardinality(L \cup {i}) = Cardinality(L) + 1
    BY <2>2, <2>3, FS_AddElement
  <2> QED
    BY <2>1, <2>2, <2>4
<1>7. ASSUME NEW k \in 1..n PROVE pick(k) \in F /\ place(pick(k)) = k
  <2>1. k - 1 \in 0..n - 1 /\ (k - 1) + 1 = k
    BY <1>5
  <2>2. PICK i \in F : Places(F)[i] = k - 1
    BY <1>5, <2>1
  <2>3. place(i) = k
    BY <1>6, <2>1, <2>2
  <2> HIDE DEF place
  <2> QED
    BY <2>3
<1>8. ASSUME NEW i \in F PROVE place(i) \in 1..n /\ pick(place(i)) = i
  <2>1. place(i) = Places(F)[i] + 1 /\ Places(F)[i] \in 0..n - 1
    BY <1>5, <1>6
  <2>2. place(i) \in 1..n
    BY <1>5, <2>1
  <2> DEFINE j == pick(place(i))
  <2>3. j \in F /\ place(j) = place(i)
    BY <1>7, <2>2
  <2> HIDE DEF j
  <2>4. Places(F)[j] + 1 = Places(F)[i] + 1 /\ Places(F)[j] \in Int /\ Places(F)[i] \in Int
    BY <1>5, <1>6, <2>1, <2>3
  <2>5. j = i
    BY <1>5, <2>3, <2>4
  <2> QED
    BY <2>2, <2>5 DEF j
<1> HIDE DEF pick, place, n
<1>9. u \in Seq(Term) /\ DOMAIN u = 1..n
  <2>1. \A k \in 1..n : v[pick(k)] \in Term
    BY <1>1, <1>2, <1>7
  <2> QED
    BY <1>3, <1>5, <2>1
<1>10. Elems(u) \subseteq Elems(v)
  BY <1>2, <1>3, <1>7, <1>9 DEF Elems
<1>11. ASSUME NEW x \in Elems(v) PROVE x \in Elems(u)
  <2> DEFINE G == {i \in DOMAIN v : v[i] = x}
  <2>1. G \in SUBSET Nat /\ G # {}
    BY <1>1 DEF Elems
  <2> HIDE DEF G
  <2>2. PICK i \in G : \A y \in G : i <= y
    BY <2>1, Least
  <2>3. i \in DOMAIN v /\ v[i] = x
    BY DEF G
  <2>4. \A j \in 1..i - 1 : v[j] # v[i]
    <3> SUFFICES ASSUME NEW j \in 1..i - 1, v[j] = v[i] PROVE FALSE
      OBVIOUS
    <3>1. j \in DOMAIN v /\ j < i
      BY <1>1, <2>3
    <3>2. j \in G
      BY <2>3, <3>1 DEF G
    <3> QED
      BY <1>1, <2>2, <2>3, <3>1, <3>2
  <2>5. i \in F
    BY <1>4, <2>3, <2>4
  <2>6. place(i) \in DOMAIN u /\ u[place(i)] = x
    BY <1>3, <1>8, <1>9, <2>3, <2>5
  <2> QED
    BY <2>6 DEF Elems
<1>12. ASSUME NEW a \in DOMAIN u, NEW b \in DOMAIN u, u[a] = u[b] PROVE a = b
  <2> DEFINE i == pick(a)
             k == pick(b)
  <2>1. i \in F /\ k \in F /\ place(i) = a /\ place(k) = b /\ v[i] = v[k]
    BY <1>3, <1>7, <1>9, <1>12
  <2> HIDE DEF i, k
  <2>2. i \in DOMAIN v /\ k \in DOMAIN v /\ i \in Nat /\ k \in Nat /\ i >= 1 /\ k >= 1
    BY <1>1, <1>2, <2>1
  <2>3. ~(i < k)
    <3>1. i < k => i \in 1..k - 1
      BY <2>2
    <3> QED
      BY <1>4, <2>1, <2>2, <3>1
  <2>4. ~(k < i)
    <3>1. k < i => k \in 1..i - 1
      BY <2>2
    <3> QED
      BY <1>4, <2>1, <2>2, <3>1
  <2>5. i = k
    BY <2>2, <2>3, <2>4
  <2> QED
    BY <2>1, <2>5
<1> QED
  BY <1>9, <1>10, <1>11, <1>12 DEF u

\* IDSet reports nobody when every term has an id.
LEMMA NobodyMissing ==
  ASSUME NEW ts, Len(ts) \in Nat, NEW f, \A k \in 1..Len(ts) : Lookup(ts[k], f) # NoId
  PROVE  IDSet(ts, f).missing = <<>>
<1> DEFINE n == Len(ts)
           body(g) == [k \in 0..n |->
             IF k = 0 THEN <<>>
             ELSE IF Lookup(ts[k], f) = NoId THEN Append(g[k - 1], ts[k]) ELSE g[k - 1]]
           without == CHOOSE g : g = body(g)
           nobody == [k \in 0..n |-> <<>>]
<1>1. IDSet(ts, f).missing = without[n]
  BY DEF IDSet
<1>2. nobody = body(nobody)
  <2>1. \A k \in 0..n : k # 0 => k \in 1..n /\ k - 1 \in 0..n
    OBVIOUS
  <2>2. \A k \in 0..n : body(nobody)[k] = <<>>
    BY <2>1
  <2> QED
    BY <2>2
<1>3. without = body(without)
  <2> HIDE DEF body, nobody
  <2> QED
    BY <1>2
<1> HIDE DEF without
<1> DEFINE S == {k \in 0..n : without[k] = <<>>}
<1>4. 0 \in S
  BY <1>3
<1>5. ASSUME NEW k \in 1..n, k - 1 \in S PROVE k \in S
  <2>1. k \in 0..n /\ k # 0
    OBVIOUS
  <2>2. without[k] = body(without)[k]
    BY <1>3
  <2>3. body(without)[k] = without[k - 1]
    BY <2>1
  <2> QED
    BY <1>5, <2>1, <2>2, <2>3
<1>6. n \in S
  <2>1. \A k \in 0..n : k \in S
    <3> HIDE DEF S
    <3> QED
      BY <1>4, <1>5, Ops!LoopInvariant
  <2> QED
    BY <2>1
<1> QED
  BY <1>1, <1>6

-----------------------------------------------------------------------------
(* The invariant of the Keyer *)

\* Which stages of the perfect hash each phase of BuildKeyer meets.
Stages ==
  /\ phase \in {"start", "probing"} => stage = "none"
  /\ phase = "ready" => stage \in {"none", "built"}

\* What BuildKeyer was given stays what it works with.
Given ==
  phase \notin {"start", "index"} =>
    /\ base \in Bases /\ chain \in Chains
    /\ vocab \in Vocabulary /\ unique = Dedup(vocab)
    /\ Len(chosen) <= Len(unique)

\* Every key taken is one that Lookup will try for its term.
Chosen ==
  /\ phase \in {"start", "index"} => chosen = <<>>
  /\ \A i \in DOMAIN chosen : \E p \in 0..probes : chosen[i] = Candidate(unique[i], p)

\* The perfect hash is built of the keys of all the terms.
Hashed ==
  /\ phase = "probing" => unique # <<>>
  /\ phase = "hashing" \/ (phase = "ready" /\ stage = "built") =>
       /\ stage # "none" /\ unique # <<>>
       /\ keys = chosen /\ Len(chosen) = Len(unique)

\* The table holds every term at its id.
Filled ==
  /\ phase # "ready" => terms = <<>>
  /\ phase = "ready" /\ stage = "none" => terms = unique
  /\ phase = "ready" /\ stage = "built" =>
       /\ Len(terms) = Len(unique)
       /\ \A i \in DOMAIN unique : terms[IdOf(chosen[i]) + 1] = unique[i]

KeyerInv ==
  HashInv /\ TypeOK /\ Stages /\ Given /\ Chosen /\ Hashed /\ Filled /\ NoTermLost

LEMMA CandidateIsHash ==
  ASSUME base \in Bases, chain \in Chains, NEW t \in Term, NEW p \in 0..MaxProbe
  PROVE  Candidate(t, p) \in Hash
<1>1. base[t] \in Hash
  BY KeyerAssumption
<1>2. p # 0 => p \in 1..MaxProbe
  BY KeyerAssumption
<1>3. p # 0 => chain[p] \in [Hash -> Hash]
  BY <1>2, KeyerAssumption
<1> QED
  BY <1>1, <1>3 DEF Candidate

\* The terms kept are terms of the vocabulary.
LEMMA UniqueIs ==
  ASSUME Given, phase \notin {"start", "index"}
  PROVE  /\ vocab \in Seq(Term) /\ unique \in Seq(Term)
         /\ Elems(unique) = Elems(vocab)
         /\ \A i, k \in DOMAIN unique : unique[i] = unique[k] => i = k
<1>1. vocab \in Seq(Term) /\ unique = Dedup(vocab)
  BY KeyerAssumption DEF Given
<1> QED
  BY <1>1, DedupKeepsEachOnce

LEMMA InitInv == Init => KeyerInv
<1> SUFFICES ASSUME Init PROVE KeyerInv
  OBVIOUS
<1> USE DEF Init, MphfInit
<1>1. HashInv
  <2>1. ~Slotted
    BY DEF Slotted
  <2>2. \E S : keys \in Seq(S)
    <3>1. keys \in Seq(Nat)
      OBVIOUS
    <3> QED
      BY <3>1
  <2>3. Shape
    BY <2>1, <2>2 DEF Shape
  <2>4. TableExact
    BY Zenon DEF TableExact
  <2>5. Packed
    BY DEF Packed
  <2> QED
    BY <2>3, <2>4, <2>5 DEF HashInv, TableInv
<1>2. TypeOK
  BY MphfAssumption, KeyerAssumption DEF TypeOK
<1>3. Stages /\ Given /\ Chosen /\ Hashed /\ Filled /\ NoTermLost
  BY DEF Stages, Given, Chosen, Hashed, Filled, NoTermLost
<1> QED
  BY <1>1, <1>2, <1>3 DEF KeyerInv

LEMMA BuildKeyerKeeps ==
  ASSUME KeyerInv, NEW v \in Vocabulary, BuildKeyer(v)
  PROVE  KeyerInv'
<1>1. HashInv'
  BY UnchangedKeeps DEF KeyerInv, BuildKeyer
<1>2. phase = "start" /\ phase' \in {"ready", "probing"} /\ stage' = stage /\ stage = "none"
  BY DEF KeyerInv, Stages, BuildKeyer, mphfVars
<1>3. v \in Seq(Term) /\ unique' = Dedup(v) /\ vocab' = v /\ unique' \in Seq(Term)
  BY KeyerAssumption, DedupKeepsEachOnce DEF BuildKeyer
<1>4. chosen = <<>> /\ chosen' = chosen /\ terms = <<>>
  BY <1>2 DEF KeyerInv, Chosen, Filled, BuildKeyer
<1>5. TypeOK'
  BY <1>2, <1>3, <1>4 DEF KeyerInv, TypeOK, BuildKeyer, mphfVars
<1>6. Given'
  <2>1. Len(chosen') <= Len(unique')
    BY <1>3, <1>4
  <2> QED
    BY <1>3, <2>1 DEF Given, BuildKeyer
<1>7. Hashed'
  <2>1. phase' = "probing" => unique' # <<>>
    BY <1>3, KeyerAssumption DEF BuildKeyer
  <2> QED
    BY <1>2, <2>1 DEF Hashed
<1>8. Stages' /\ Chosen' /\ NoTermLost'
  BY <1>2, <1>4 DEF Stages, Chosen, NoTermLost
<1>9. Filled'
  BY <1>2, <1>4 DEF BuildKeyer, Filled
<1> QED
  BY <1>1, <1>5, <1>6, <1>7, <1>8, <1>9 DEF KeyerInv

LEMMA BuildIndexKeeps ==
  ASSUME KeyerInv, NEW ks \in IndexKeys, BuildIndex(ks)
  PROVE  KeyerInv'
<1>1. ks \in Seq(Hash)
  BY KeyerAssumption
<1>2. HashInv'
  BY <1>1, BuildKeepsHash DEF KeyerInv, BuildIndex
<1>3. TypeOK'
  BY <1>1 DEF KeyerInv, TypeOK, BuildIndex, Build
<1>4. Stages' /\ Given' /\ Chosen' /\ Hashed' /\ Filled' /\ NoTermLost'
  BY DEF KeyerInv, Stages, Given, Chosen, Hashed, Filled, NoTermLost, BuildIndex
<1> QED
  BY <1>2, <1>3, <1>4 DEF KeyerInv

LEMMA ProbeKeeps ==
  ASSUME KeyerInv, Probe
  PROVE  KeyerInv'
<1> DEFINE n == Len(chosen)
           t == unique[n + 1]
<1>1. HashInv'
  BY UnchangedKeeps DEF KeyerInv, Probe
<1>2. /\ phase = "probing" /\ n < Len(unique)
      /\ UNCHANGED <<mphfVars, base, chain, vocab, unique, terms>>
  BY DEF Probe
<1>3. /\ chosen \in Seq(Hash) /\ n \in Nat /\ probes \in 0..MaxProbe
      /\ base \in Bases /\ chain \in Chains /\ unique \in Seq(Term)
  BY <1>2, UniqueIs DEF KeyerInv, TypeOK, Given
<1>4. t \in Term /\ n + 1 \in DOMAIN unique
  BY <1>2, <1>3
<1>5. stage' = stage /\ stage = "none" /\ terms' = terms /\ terms = <<>>
  BY <1>2 DEF KeyerInv, Stages, Filled, mphfVars
<1>6. CASE phase' = "error"
  <2>1. UNCHANGED <<chosen, probes>>
    BY <1>2, <1>6 DEF Probe
  <2>2. TypeOK'
    BY <1>2, <1>6, <2>1 DEF KeyerInv, TypeOK, mphfVars
  <2>3. Given'
    BY <1>2, <2>1 DEF KeyerInv, Given
  <2>4. Chosen'
    BY <1>2, <1>6, <2>1 DEF KeyerInv, Chosen, Candidate
  <2>5. Stages' /\ Hashed' /\ Filled' /\ NoTermLost'
    BY <1>5, <1>6 DEF Stages, Hashed, Filled, NoTermLost
  <2> QED
    BY <1>1, <2>2, <2>3, <2>4, <2>5 DEF KeyerInv
<1>7. CASE phase' # "error"
  <2>1. PICK p \in 0..MaxProbe :
          /\ chosen' = Append(chosen, Candidate(t, p))
          /\ probes' = IF p > probes THEN p ELSE probes
          /\ phase' = phase
    BY <1>7 DEF Probe
  <2> HIDE DEF t
  <2>2. Candidate(t, p) \in Hash
    BY <1>3, <1>4, CandidateIsHash
  <2>3. chosen' \in Seq(Hash) /\ Len(chosen') = n + 1
    BY <1>3, <2>1, <2>2
  <2>4. p \in Nat /\ probes \in Nat /\ probes' \in 0..MaxProbe /\ p \in 0..probes' /\ probes <= probes'
    BY <1>3, <2>1, KeyerAssumption
  <2>5. TypeOK'
    BY <1>2, <2>1, <2>3, <2>4 DEF KeyerInv, TypeOK, mphfVars
  <2>6. Given'
    <3>1. n + 1 <= Len(unique)
      BY <1>2, <1>3
    <3> QED
      BY <1>2, <2>1, <2>3, <3>1 DEF KeyerInv, Given
  <2>7. Chosen'
    <3> SUFFICES ASSUME NEW i \in DOMAIN chosen'
                 PROVE  \E q \in 0..probes' : chosen'[i] = Candidate(unique[i], q)
      BY <1>2, <2>1 DEF Chosen, Candidate
    <3>1. i \in 1..n + 1
      BY <2>3
    <3>2. CASE i = n + 1
      <4>1. chosen'[i] = Candidate(t, p)
        BY <1>3, <2>1, <2>2, <3>2
      <4> QED
        BY <2>4, <3>2, <4>1 DEF t
    <3>3. CASE i # n + 1
      <4>1. i \in DOMAIN chosen /\ chosen'[i] = chosen[i]
        BY <1>3, <2>1, <2>2, <3>1, <3>3
      <4>2. PICK q \in 0..probes : chosen[i] = Candidate(unique[i], q)
        BY <4>1 DEF KeyerInv, Chosen
      <4>3. q \in 0..probes'
        BY <2>4
      <4> QED
        BY <4>1, <4>2, <4>3
    <3> QED
      BY <3>2, <3>3
  <2>8. Stages' /\ Hashed' /\ Filled' /\ NoTermLost'
    BY <1>2, <1>5, <2>1 DEF KeyerInv, Stages, Hashed, Filled, NoTermLost
  <2> QED
    BY <1>1, <2>5, <2>6, <2>7, <2>8 DEF KeyerInv
<1> QED
  BY <1>6, <1>7

LEMMA HashKeysKeeps ==
  ASSUME KeyerInv, HashKeys
  PROVE  KeyerInv'
<1>1. chosen \in Seq(Hash) /\ Build(chosen) /\ phase = "probing" /\ phase' = "hashing"
      /\ Len(chosen) = Len(unique)
  BY DEF KeyerInv, TypeOK, HashKeys
<1>2. HashInv'
  BY <1>1, BuildKeepsHash DEF KeyerInv
<1>3. TypeOK'
  BY <1>1 DEF KeyerInv, TypeOK, HashKeys, Build
<1>4. Given'
  BY <1>1 DEF KeyerInv, Given, HashKeys
<1>5. Chosen'
  BY <1>1 DEF KeyerInv, Chosen, HashKeys, Candidate
<1>6. Hashed'
  BY <1>1 DEF KeyerInv, Hashed, HashKeys, Build
<1>7. Stages' /\ Filled' /\ NoTermLost'
  BY <1>1 DEF KeyerInv, Stages, Filled, NoTermLost, HashKeys
<1> QED
  BY <1>2, <1>3, <1>4, <1>5, <1>6, <1>7 DEF KeyerInv

\* The types of the perfect hash while it is built.
LEMMA BuildStepTypes ==
  ASSUME HashInv, BuildStep,
         attempt \in 0..MaxAttempts,
         \A j \in DOMAIN disp : disp[j] \in 0..MaxDisplacement - 1,
         \A x \in DOMAIN words : words[x] \subseteq 0..WordBits - 1
  PROVE  /\ stage' \in {"seed", "place", "built", "failed"} /\ keys' = keys
         /\ attempt' \in 0..MaxAttempts
         /\ \A j \in DOMAIN disp' : disp'[j] \in 0..MaxDisplacement - 1
         /\ \A x \in DOMAIN words' : words'[x] \subseteq 0..WordBits - 1
<1>1. CASE Seed
  <2>1. Len(keys) \in Nat /\ M(Len(keys)) \in Nat
    BY Slots DEF HashInv, TableInv, Shape
  <2>2. words' \in Words(M(Len(keys)))
    BY <1>1, <2>1, EmptyTable DEF Seed
  <2>3. \A x \in DOMAIN words' : words'[x] \subseteq 0..WordBits - 1
    BY <2>2 DEF Words
  <2>4. attempt' \in 0..MaxAttempts
    BY <1>1, MphfAssumption DEF Seed
  <2>5. \A j \in DOMAIN disp' : disp'[j] \in 0..MaxDisplacement - 1
    BY <1>1, MphfAssumption DEF Seed
  <2> QED
    BY <1>1, <2>3, <2>4, <2>5 DEF Seed
<1>2. CASE GiveUp
  BY <1>2 DEF GiveUp
<1>3. ASSUME NEW j \in todo, Place(j)
      PROVE  /\ stage' \in {"seed", "place", "built", "failed"} /\ keys' = keys
             /\ attempt' \in 0..MaxAttempts
             /\ \A k \in DOMAIN disp' : disp'[k] \in 0..MaxDisplacement - 1
             /\ \A x \in DOMAIN words' : words'[x] \subseteq 0..WordBits - 1
  <2>1. stage = "place" /\ keys' = keys /\ attempt' = attempt /\ Slotted
    BY <1>3 DEF Place, Slotted, HashInv, TableInv, Shape
  <2>2. CASE UNCHANGED <<todo, disp, words>> /\ stage' = "seed"
    BY <2>1, <2>2
  <2>3. CASE \E d \in 0..MaxDisplacement - 1 :
               /\ disp' = [disp EXCEPT ![j] = d]
               /\ words' = SetBits(words, {At(i, d) : i \in Bucket(j)})
               /\ UNCHANGED <<stage, h2>>
    <3>1. PICK d \in 0..MaxDisplacement - 1 :
               /\ disp' = [disp EXCEPT ![j] = d]
               /\ words' = SetBits(words, {At(i, d) : i \in Bucket(j)})
               /\ UNCHANGED <<stage, h2>>
      BY <2>3
    <3> DEFINE S == {At(i, d) : i \in Bucket(j)}
    <3>2. d \in Nat
      BY MphfAssumption
    <3>3. Len(keys) \in Nat /\ M(Len(keys)) \in Nat /\ words \in Words(M(Len(keys)))
      BY <2>1, Slots DEF HashInv, TableInv, Shape
    <3>4. S \in SUBSET (0..M(Len(keys)) - 1)
      BY <2>1, <3>2, SlotInTable DEF Bucket, HashInv, TableInv
    <3>5. words' \in Words(M(Len(keys)))
      <4> HIDE DEF S
      <4>1. words' = SetBits(words, S)
        BY <3>1 DEF S
      <4> QED
        BY <3>3, <3>4, <4>1, SetBitsExact
    <3>6. \A x \in DOMAIN words' : words'[x] \subseteq 0..WordBits - 1
      BY <3>5 DEF Words
    <3>7. \A k \in DOMAIN disp' : disp'[k] \in 0..MaxDisplacement - 1
      BY <3>1
    <3> QED
      BY <2>1, <3>1, <3>6, <3>7
  <2> QED
    BY <1>3, <2>2, <2>3 DEF Place
<1>4. CASE PackAndRank
  BY <1>4 DEF PackAndRank
<1> QED
  BY <1>1, <1>2, <1>3, <1>4 DEF BuildStep

LEMMA HashingKeeps ==
  ASSUME KeyerInv, Hashing
  PROVE  KeyerInv'
<1>1. /\ phase \in {"hashing", "index"} /\ BuildStep
      /\ UNCHANGED <<phase, base, chain, vocab, unique, chosen, probes, terms>>
  BY DEF Hashing
<1>2. HashInv'
  BY <1>1, BuildStepKeeps DEF KeyerInv
<1>3. stage' # "none" /\ keys' = keys
  BY <1>1, BuildStepTypes DEF KeyerInv, TypeOK
<1>4. TypeOK'
  BY <1>1, BuildStepTypes DEF KeyerInv, TypeOK
<1>5. Given'
  BY <1>1 DEF KeyerInv, Given
<1>6. Chosen'
  BY <1>1 DEF KeyerInv, Chosen, Candidate
<1>7. Stages' /\ Hashed' /\ Filled' /\ NoTermLost'
  BY <1>1, <1>3 DEF KeyerInv, Stages, Hashed, Filled, NoTermLost
<1> QED
  BY <1>2, <1>4, <1>5, <1>6, <1>7 DEF KeyerInv

\* The ids of the keys, and the table that they fill.
Ids == [i \in DOMAIN unique |-> IdOf(chosen[i])]
Table == [d \in 1..Len(unique) |->
            LET with == {i \in DOMAIN unique : Ids[i] + 1 = d}
            IN  IF with = {} THEN EmptyTerm ELSE unique[CHOOSE i \in with : TRUE]]

\* Every term of a built index has its id, and every id its term.
LEMMA TableIsFull ==
  ASSUME KeyerInv, phase = "hashing", stage = "built"
  PROVE  /\ NoId \notin Elems(Ids)
         /\ Table \in Seq(Term) /\ Len(Table) = Len(unique)
         /\ \A i \in DOMAIN unique : Ids[i] \in 0..Len(unique) - 1 /\ Table[Ids[i] + 1] = unique[i]
         /\ Elems(Table) = Elems(unique)
<1> DEFINE n == Len(unique)
<1>1. /\ unique \in Seq(Term) /\ n \in Nat /\ DOMAIN unique = 1..n
      /\ \A i \in DOMAIN unique : unique[i] \in Term
  BY UniqueIs DEF KeyerInv
<1>2. /\ HashInv /\ keys = chosen /\ Len(chosen) = n /\ keys # <<>>
      /\ DOMAIN keys = 1..n
  <2>1. HashInv /\ keys = chosen /\ Len(chosen) = n /\ unique # <<>> /\ chosen \in Seq(Hash)
    BY DEF KeyerInv, Hashed, TypeOK
  <2> QED
    BY <1>1, <2>1
<1>3. /\ \A i \in 1..n : IdOf(keys[i]) \in 0..n - 1
      /\ \A i, k \in 1..n : IdOf(keys[i]) = IdOf(keys[k]) => i = k
      /\ \A d \in 0..n - 1 : \E i \in 1..n : IdOf(keys[i]) = d
  BY <1>2, IdsOfKeys
<1>4. DOMAIN Ids = 1..n /\ \A i \in 1..n : Ids[i] = IdOf(keys[i])
  BY <1>1, <1>2 DEF Ids
<1>5. /\ \A i \in 1..n : Ids[i] \in 0..n - 1
      /\ \A i, k \in 1..n : Ids[i] = Ids[k] => i = k
      /\ \A d \in 0..n - 1 : \E i \in 1..n : Ids[i] = d
  BY <1>3, <1>4
<1>6. NoId \notin Elems(Ids)
  BY <1>1, <1>4, <1>5 DEF Elems, NoId
<1>7. ASSUME NEW i \in 1..n
      PROVE  Ids[i] + 1 \in 1..n /\ Table[Ids[i] + 1] = unique[i]
  <2> DEFINE d == Ids[i] + 1
             with == {k \in DOMAIN unique : Ids[k] + 1 = d}
  <2>1. d \in 1..n
    BY <1>1, <1>5
  <2>2. with = {i}
    <3>1. \A k \in 1..n : Ids[k] + 1 = d => k = i
      BY <1>5
    <3> QED
      BY <1>1, <3>1
  <2>3. Table[d] = IF with = {} THEN EmptyTerm ELSE unique[CHOOSE k \in with : TRUE]
    BY <2>1 DEF Table
  <2> HIDE DEF with, d
  <2>4. Table[d] = unique[i]
    BY <2>2, <2>3
  <2> QED
    BY <2>1, <2>4 DEF d
<1>8. \A d \in 1..n : \E i \in 1..n : Ids[i] + 1 = d
  <2> SUFFICES ASSUME NEW d \in 1..n PROVE \E i \in 1..n : Ids[i] + 1 = d
    OBVIOUS
  <2>1. d - 1 \in 0..n - 1 /\ (d - 1) + 1 = d
    BY <1>1
  <2> QED
    BY <1>5, <2>1
<1>9. \A d \in 1..n : \E i \in 1..n : Table[d] = unique[i]
  BY <1>7, <1>8
<1>10. DOMAIN Table = 1..n
  BY DEF Table
<1>11. Table \in [1..n -> Term]
  <2>1. \A d \in 1..n : Table[d] \in Term
    BY <1>1, <1>9
  <2>2. Table = [d \in 1..n |-> Table[d]]
    BY DEF Table
  <2> HIDE DEF n
  <2> QED
    BY <2>1, <2>2
<1>12. Table \in Seq(Term) /\ Len(Table) = n
  BY <1>1, <1>10, <1>11
<1>13. Elems(Table) = Elems(unique)
  <2>1. ASSUME NEW x \in Elems(Table) PROVE x \in Elems(unique)
    <3>1. PICK d \in 1..n : x = Table[d]
      BY <1>10 DEF Elems
    <3> QED
      BY <1>1, <1>9, <3>1 DEF Elems
  <2>2. ASSUME NEW x \in Elems(unique) PROVE x \in Elems(Table)
    <3>1. PICK i \in 1..n : x = unique[i]
      BY <1>1 DEF Elems
    <3>2. Ids[i] + 1 \in DOMAIN Table /\ Table[Ids[i] + 1] = x
      BY <1>7, <1>10, <3>1
    <3> QED
      BY <3>2 DEF Elems
  <2> QED
    BY <2>1, <2>2
<1> QED
  BY <1>1, <1>5, <1>6, <1>7, <1>12, <1>13

LEMMA FillTermsKeeps ==
  ASSUME KeyerInv, FillTerms
  PROVE  KeyerInv'
<1>1. /\ phase = "hashing" /\ stage \in {"built", "failed"}
      /\ UNCHANGED <<mphfVars, base, chain, vocab, unique, chosen, probes>>
  BY DEF FillTerms
<1>2. HashInv'
  BY <1>1, UnchangedKeeps DEF KeyerInv
<1>3. stage' = stage /\ keys' = keys
  BY <1>1 DEF mphfVars
<1>4. \/ stage = "failed" /\ phase' = "error" /\ terms' = terms
      \/ /\ stage = "built" /\ phase' = "lost" /\ terms' = terms
         /\ NoId \in Elems(Ids) \/ EmptyTerm \in Elems(Table)
      \/ stage = "built" /\ phase' = "ready" /\ terms' = Table
  BY Zenon DEF FillTerms, Ids, Table
<1>5. terms' \in Seq(Term) /\ (phase' # "ready" => terms' = <<>>)
  BY <1>1, <1>4, TableIsFull DEF KeyerInv, TypeOK, Filled
<1>6. TypeOK'
  BY <1>1, <1>4, <1>5 DEF KeyerInv, TypeOK, mphfVars
<1>7. Given'
  BY <1>1, <1>4 DEF KeyerInv, Given
<1>8. Chosen'
  BY <1>1, <1>4 DEF KeyerInv, Chosen, Candidate
<1>9. Stages' /\ Hashed'
  BY <1>1, <1>3, <1>4 DEF KeyerInv, Stages, Hashed
<1>10. Filled'
  <2>1. CASE phase' = "ready"
    <3>1. stage = "built" /\ terms' = Table
      BY <1>4, <2>1
    <3>2. \A i \in DOMAIN unique : Table[Ids[i] + 1] = unique[i] /\ Ids[i] = IdOf(chosen[i])
      BY <1>1, <3>1, TableIsFull DEF Ids
    <3>3. \A i \in DOMAIN unique : IdOf(chosen[i])' = IdOf(chosen[i])
      BY <1>1 DEF IdOf, IdOfSlot, BitSet, mphfVars
    <3>4. Len(terms') = Len(unique)
      BY <1>1, <3>1, TableIsFull
    <3> QED
      BY <1>1, <1>3, <2>1, <3>1, <3>2, <3>3, <3>4 DEF Filled
  <2>2. CASE phase' # "ready"
    BY <1>5, <2>2 DEF Filled
  <2> QED
    BY <2>1, <2>2
<1>11. NoTermLost'
  <2> SUFFICES ASSUME phase' = "lost" PROVE EmptyTerm \in Elems(vocab)
    BY <1>1 DEF NoTermLost, Elems
  <2>1. stage = "built" /\ (NoId \in Elems(Ids) \/ EmptyTerm \in Elems(Table))
    BY <1>4
  <2>2. EmptyTerm \in Elems(unique)
    BY <1>1, <2>1, TableIsFull
  <2> QED
    BY <1>1, <2>2, UniqueIs DEF KeyerInv
<1> QED
  BY <1>2, <1>6, <1>7, <1>8, <1>9, <1>10, <1>11 DEF KeyerInv

LEMMA NextInv == KeyerInv /\ [Next]_vars => KeyerInv'
<1> SUFFICES ASSUME KeyerInv, [Next]_vars PROVE KeyerInv'
  OBVIOUS
<1>1. CASE \E v \in Vocabulary : BuildKeyer(v)
  BY <1>1, BuildKeyerKeeps
<1>2. CASE \E ks \in IndexKeys : BuildIndex(ks)
  BY <1>2, BuildIndexKeeps
<1>3. CASE Probe
  BY <1>3, ProbeKeeps
<1>4. CASE HashKeys
  BY <1>4, HashKeysKeeps
<1>5. CASE Hashing
  BY <1>5, HashingKeeps
<1>6. CASE FillTerms
  BY <1>6, FillTermsKeeps
<1>7. CASE UNCHANGED vars
  <2>1. HashInv'
    BY <1>7, UnchangedKeeps DEF KeyerInv, vars
  <2>2. TypeOK'
    BY <1>7 DEF KeyerInv, TypeOK, vars, mphfVars
  <2>3. Stages' /\ Given' /\ NoTermLost' /\ Hashed'
    BY <1>7 DEF KeyerInv, Stages, Given, NoTermLost, Hashed, vars, mphfVars
  <2>4. Chosen'
    BY <1>7 DEF KeyerInv, Chosen, Candidate, vars
  <2>5. Filled'
    <3>1. \A i \in DOMAIN unique : IdOf(chosen[i])' = IdOf(chosen[i])
      BY <1>7 DEF IdOf, IdOfSlot, BitSet, vars, mphfVars
    <3>2. UNCHANGED <<phase, stage, terms, unique, chosen>>
      BY <1>7 DEF vars, mphfVars
    <3> QED
      BY <3>1, <3>2 DEF KeyerInv, Filled
  <2> QED
    BY <2>1, <2>2, <2>3, <2>4, <2>5 DEF KeyerInv
<1> QED
  BY <1>1, <1>2, <1>3, <1>4, <1>5, <1>6, <1>7 DEF Next

-----------------------------------------------------------------------------
(* Lookup *)

\* The table of an index that is ready holds every term of the vocabulary once.
LEMMA TermsAreTheVocabulary ==
  ASSUME KeyerInv, phase = "ready"
  PROVE  /\ terms \in Seq(Term)
         /\ Elems(terms) = Elems(vocab)
         /\ \A a, b \in DOMAIN terms : terms[a] = terms[b] => a = b
<1>1. /\ unique \in Seq(Term) /\ Elems(unique) = Elems(vocab)
      /\ \A i, k \in DOMAIN unique : unique[i] = unique[k] => i = k
  BY UniqueIs DEF KeyerInv
<1>2. terms \in Seq(Term)
  BY DEF KeyerInv, TypeOK
<1>3. CASE stage = "none"
  BY <1>1, <1>2, <1>3 DEF KeyerInv, Filled
<1>4. CASE stage = "built"
  <2> DEFINE n == Len(unique)
             at(i) == IdOf(chosen[i]) + 1
  <2>1. n \in Nat /\ DOMAIN unique = 1..n /\ DOMAIN terms = 1..n
    BY <1>1, <1>2, <1>4 DEF KeyerInv, Filled
  <2>2. HashInv /\ keys = chosen /\ Len(keys) = n /\ keys # <<>> /\ DOMAIN keys = 1..n
    <3>1. HashInv /\ keys = chosen /\ Len(chosen) = n /\ unique # <<>> /\ chosen \in Seq(Hash)
      BY <1>4 DEF KeyerInv, Hashed, TypeOK
    <3> QED
      BY <1>1, <2>1, <3>1
  <2>3. /\ \A i \in 1..n : IdOf(keys[i]) \in 0..n - 1
        /\ \A d \in 0..n - 1 : \E i \in 1..n : IdOf(keys[i]) = d
    BY <1>4, <2>2, IdsOfKeys
  <2>4. /\ \A i \in 1..n : at(i) \in 1..n
        /\ \A a \in 1..n : \E i \in 1..n : at(i) = a
    <3>1. \A i \in 1..n : at(i) \in 1..n
      BY <2>1, <2>2, <2>3
    <3>2. ASSUME NEW a \in 1..n PROVE \E i \in 1..n : at(i) = a
      <4>1. a - 1 \in 0..n - 1 /\ (a - 1) + 1 = a
        BY <2>1
      <4>2. PICK i \in 1..n : IdOf(keys[i]) = a - 1
        BY <2>3, <4>1
      <4> QED
        BY <2>2, <4>1, <4>2
    <3> QED
      BY <3>1, <3>2
  <2>5. \A i \in 1..n : terms[at(i)] = unique[i]
    BY <1>4, <2>1 DEF KeyerInv, Filled
  <2> HIDE DEF at, n
  <2>6. \A a, b \in 1..n : terms[a] = terms[b] => a = b
    <3> SUFFICES ASSUME NEW a \in 1..n, NEW b \in 1..n, terms[a] = terms[b] PROVE a = b
      OBVIOUS
    <3>1. PICK i \in 1..n : at(i) = a
      BY <2>4
    <3>2. PICK k \in 1..n : at(k) = b
      BY <2>4
    <3>3. unique[i] = unique[k]
      BY <2>5, <3>1, <3>2
    <3> QED
      BY <1>1, <2>1, <3>1, <3>2, <3>3
  <2>7. ASSUME NEW x \in Elems(terms) PROVE x \in Elems(unique)
    <3>1. PICK a \in 1..n : x = terms[a]
      BY <2>1 DEF Elems
    <3>2. PICK i \in 1..n : at(i) = a
      BY <2>4
    <3>3. x = unique[i]
      BY <2>5, <3>1, <3>2
    <3> QED
      BY <2>1, <3>3 DEF Elems
  <2>8. ASSUME NEW x \in Elems(unique) PROVE x \in Elems(terms)
    <3>1. PICK i \in 1..n : x = unique[i]
      BY <2>1 DEF Elems
    <3>2. at(i) \in DOMAIN terms /\ terms[at(i)] = x
      BY <2>1, <2>4, <2>5, <3>1
    <3> QED
      BY <3>2 DEF Elems
  <2> QED
    BY <1>1, <1>2, <2>1, <2>6, <2>7, <2>8
<1> QED
  BY <1>3, <1>4 DEF KeyerInv, Stages

\* Lookup finds the id of every term of the table, and of no other, whatever
\* slots foreign keys lead to.
LEMMA LookupFinds ==
  ASSUME KeyerInv, phase = "ready", NEW f \in Foreign, NEW t \in Term
  PROVE  /\ t \in Elems(terms) => Lookup(t, f) \in 0..Len(terms) - 1 /\ terms[Lookup(t, f) + 1] = t
         /\ t \notin Elems(terms) => Lookup(t, f) = NoId
<1>1. terms \in Seq(Term) /\ Len(terms) \in Nat /\ DOMAIN terms = 1..Len(terms)
  BY DEF KeyerInv, TypeOK
<1>2. CASE stage = "none"
  <2>1. Lookup(t, f) = IF t \in Elems(terms) THEN (CHOOSE i \in DOMAIN terms : terms[i] = t) - 1
                       ELSE NoId
    BY <1>2 DEF Lookup
  <2>2. CASE t \in Elems(terms)
    <3> DEFINE a == CHOOSE i \in DOMAIN terms : terms[i] = t
    <3>1. \E i \in DOMAIN terms : terms[i] = t
      BY <2>2 DEF Elems
    <3>2. a \in DOMAIN terms /\ terms[a] = t
      BY <3>1
    <3>3. Lookup(t, f) = a - 1
      BY <2>1, <2>2
    <3> HIDE DEF a
    <3>4. a - 1 \in 0..Len(terms) - 1 /\ (a - 1) + 1 = a
      BY <1>1, <3>2
    <3> QED
      BY <2>2, <3>2, <3>3, <3>4
  <2>3. CASE t \notin Elems(terms)
    BY <2>1, <2>3
  <2> QED
    BY <2>2, <2>3
<1>3. CASE stage = "built"
  <2> DEFINE id(p) == LET k == Candidate(t, p)
                      IN  IF k \in DOMAIN f THEN IdOfSlot(f[k]) ELSE IdOf(k)
             hits == {p \in 0..probes : id(p) \in 0..Len(terms) - 1 /\ terms[id(p) + 1] = t}
             best == CHOOSE p \in hits : \A q \in hits : p <= q
  <2>1. Lookup(t, f) = IF hits = {} THEN NoId ELSE id(best)
    BY <1>3 DEF Lookup
  <2>2. \A p \in hits : p \in 0..probes /\ id(p) \in 0..Len(terms) - 1 /\ terms[id(p) + 1] = t
    OBVIOUS
  <2>3. \A p \in 0..probes : id(p) \in 0..Len(terms) - 1 /\ terms[id(p) + 1] = t => p \in hits
    OBVIOUS
  <2>4. \A k \in DOMAIN f : k \notin Elems(chosen)
    BY DEF Foreign
  <2>5. \A p \in 0..probes : Candidate(t, p) \in Elems(chosen) => id(p) = IdOf(Candidate(t, p))
    BY <2>4
  <2> HIDE DEF id
  <2>6. hits \in SUBSET Nat
    <3>1. \A p \in 0..probes : p \in Nat
      BY DEF KeyerInv, TypeOK
    <3> QED
      BY <2>2, <3>1
  <2> HIDE DEF hits
  <2>7. hits # {} => best \in hits
    <3>1. hits # {} => \E p \in hits : \A q \in hits : p <= q
      BY <2>6, Least
    <3> QED
      BY <3>1
  <2> HIDE DEF best
  <2>8. CASE t \in Elems(terms)
    <3>1. /\ unique \in Seq(Term) /\ Elems(unique) = Elems(terms)
          /\ Len(terms) = Len(unique)
          /\ \A i \in DOMAIN unique : terms[IdOf(chosen[i]) + 1] = unique[i]
      BY <1>3, UniqueIs, TermsAreTheVocabulary DEF KeyerInv, Filled
    <3>2. PICK i \in DOMAIN unique : unique[i] = t
      BY <2>8, <3>1 DEF Elems
    <3>3. HashInv /\ keys = chosen /\ Len(chosen) = Len(unique) /\ chosen \in Seq(Hash) /\ unique # <<>>
      BY <1>3 DEF KeyerInv, Hashed, TypeOK
    <3>4. i \in DOMAIN keys /\ keys # <<>> /\ i \in DOMAIN chosen
      BY <3>1, <3>2, <3>3
    <3>5. IdOf(chosen[i]) \in 0..Len(terms) - 1
      BY <1>3, <3>1, <3>3, <3>4, IdsOfKeys
    <3>6. PICK p \in 0..probes : chosen[i] = Candidate(t, p)
      BY <3>2, <3>4 DEF KeyerInv, Chosen
    <3>7. Candidate(t, p) \in Elems(chosen)
      BY <3>4, <3>6 DEF Elems
    <3>8. id(p) = IdOf(chosen[i])
      BY <2>5, <3>6, <3>7
    <3>9. p \in hits
      BY <2>3, <3>1, <3>2, <3>5, <3>8
    <3> QED
      BY <2>1, <2>2, <2>7, <2>8, <3>9
  <2>9. CASE t \notin Elems(terms)
    <3>1. \A d \in 0..Len(terms) - 1 : terms[d + 1] \in Elems(terms)
      <4>1. \A d \in 0..Len(terms) - 1 : d + 1 \in DOMAIN terms
        BY <1>1
      <4> QED
        BY <4>1 DEF Elems
    <3>2. hits = {}
      BY <2>2, <2>9, <3>1
    <3> QED
      BY <2>1, <2>9, <3>2
  <2> QED
    BY <2>8, <2>9
<1> QED
  BY <1>2, <1>3 DEF KeyerInv, Stages

LEMMA LookupIsExact == KeyerInv => LookupExact
<1> SUFFICES ASSUME KeyerInv, phase = "ready"
             PROVE  /\ Elems(terms) = Elems(vocab) /\ Cardinality(Elems(vocab)) = Len(terms)
                    /\ \A f \in Foreign : \A t \in Term :
                         LET id == Lookup(t, f)
                         IN  IF t \in Elems(vocab) THEN id \in 0..Len(terms) - 1 /\ terms[id + 1] = t
                                                   ELSE id = NoId
                    /\ \A f \in Foreign : IDSet(vocab, f) = [ids |-> 0..Len(terms) - 1, missing |-> <<>>]
  BY Zenon DEF LookupExact
<1> DEFINE n == Len(terms)
<1>1. /\ terms \in Seq(Term) /\ n \in Nat /\ DOMAIN terms = 1..n
      /\ Elems(terms) = Elems(vocab)
      /\ \A a, b \in DOMAIN terms : terms[a] = terms[b] => a = b
  BY TermsAreTheVocabulary
<1>2. vocab \in Seq(Term) /\ \A t \in Elems(vocab) : t \in Term
  <2>1. vocab \in Seq(Term)
    BY UniqueIs DEF KeyerInv
  <2> QED
    BY <2>1 DEF Elems
<1>3. Cardinality(Elems(vocab)) = n
  <2> DEFINE g == [i \in 1..n |-> terms[i]]
  <2>1. g \in [1..n -> Elems(terms)]
    BY <1>1 DEF Elems
  <2>2. \A i, k \in 1..n : g[i] = g[k] => i = k
    BY <1>1
  <2>3. \A t \in Elems(terms) : \E i \in 1..n : g[i] = t
    BY <1>1 DEF Elems
  <2> HIDE DEF g
  <2>4. g \in Bijection(1..n, Elems(terms))
    BY <2>1, <2>2, <2>3, Fun_IsBij
  <2>5. IsFiniteSet(1..n) /\ Cardinality(1..n) = n
    <3>1. n \in Nat
      BY <1>1
    <3> HIDE DEF n
    <3> QED
      BY <3>1, FS_Interval
  <2> QED
    BY <1>1, <2>4, <2>5, FS_Bijection DEF ExistsBijection
<1>4. ASSUME NEW f \in Foreign, NEW t \in Term
      PROVE  LET id == Lookup(t, f)
             IN  IF t \in Elems(vocab) THEN id \in 0..n - 1 /\ terms[id + 1] = t ELSE id = NoId
  BY <1>1, LookupFinds
<1>5. ASSUME NEW f \in Foreign
      PROVE  IDSet(vocab, f) = [ids |-> 0..n - 1, missing |-> <<>>]
  <2> DEFINE I == {Lookup(t, f) : t \in Elems(vocab)} \ {NoId}
  <2>1. \A t \in Elems(vocab) : Lookup(t, f) \in 0..n - 1 /\ terms[Lookup(t, f) + 1] = t
    BY <1>2, <1>4
  <2>2. ASSUME NEW d \in 0..n - 1 PROVE \E t \in Elems(vocab) : Lookup(t, f) = d
    <3> DEFINE t == terms[d + 1]
               c == Lookup(t, f)
    <3>1. d + 1 \in 1..n /\ t \in Elems(vocab)
      <4>1. d + 1 \in 1..n
        BY <1>1
      <4>2. terms[d + 1] \in Elems(terms)
        BY <1>1, <4>1 DEF Elems
      <4> QED
        BY <1>1, <4>1, <4>2
    <3>2. c \in 0..n - 1 /\ terms[c + 1] = t
      BY <2>1, <3>1
    <3> HIDE DEF c
    <3>3. c + 1 \in 1..n
      BY <1>1, <3>2
    <3>4. c + 1 = d + 1
      BY <1>1, <3>1, <3>2, <3>3
    <3>5. c = d
      BY <3>2, <3>4
    <3> QED
      BY <3>1, <3>5 DEF c
  <2>3. \A d \in 0..n - 1 : d # NoId
    BY DEF NoId
  <2>4. I = 0..n - 1
    BY <2>1, <2>2, <2>3
  <2>5. \A k \in 1..Len(vocab) : Lookup(vocab[k], f) # NoId
    <3>1. \A k \in 1..Len(vocab) : vocab[k] \in Elems(vocab)
      BY <1>2 DEF Elems
    <3> QED
      BY <2>1, <2>3, <3>1
  <2>6. Len(vocab) \in Nat
    BY <1>2
  <2>7. IDSet(vocab, f).missing = <<>>
    BY <2>5, <2>6, NobodyMissing
  <2>8. IDSet(vocab, f) = [ids |-> I, missing |-> IDSet(vocab, f).missing]
    BY DEF IDSet
  <2> HIDE DEF I
  <2> QED
    BY <2>4, <2>7, <2>8
<1> QED
  BY <1>1, <1>3, <1>4, <1>5

-----------------------------------------------------------------------------
(* The theorems *)

\* The Keyer's invariant holds throughout.
LEMMA Invariant == Spec => []KeyerInv
  BY InitInv, NextInv, PTL DEF Spec

\* Types are kept by every build, of a vocabulary or of keys (BuildKeyer, Build).
THEOREM TypeCorrect == Spec => []TypeOK
<1>1. KeyerInv => TypeOK
  BY DEF KeyerInv
<1> QED
  BY <1>1, Invariant, PTL

\* Keys of placed buckets have slots of their own and no other slot is occupied,
\* through any number of attempts (mphf.go:113-119, 150-157).
THEOREM TablesAreExact == Spec => []TableExact
<1>1. KeyerInv => TableExact
  BY DEF KeyerInv, HashInv, TableInv
<1> QED
  BY <1>1, Invariant, PTL

\* A built index gives its n keys the ids 0 to n - 1, through displacements
\* packed at any width and a two-level rank of any block size (mphf.go:12).
THEOREM IndexIsPerfect == Spec => []PerfectHash
<1>1. KeyerInv => PerfectHash
  BY BuiltIsPerfect DEF KeyerInv
<1> QED
  BY <1>1, Invariant, PTL

\* Every term of the vocabulary has an id of its own that leads back to it, and
\* no other term has one, whatever hashes, candidates and foreign slots collide
\* (keyer.go:27-41, Lookup, Term and IDSet).
THEOREM LookupsAreExact == Spec => []LookupExact
<1>1. KeyerInv => LookupExact
  BY LookupIsExact
<1> QED
  BY <1>1, Invariant, PTL

\* The checks of keyer.go:128-136 fail only for a vocabulary that has the empty
\* term: the perfect hash loses none.
THEOREM NoTermIsLost == Spec => []NoTermLost
<1>1. KeyerInv => NoTermLost
  BY DEF KeyerInv
<1> QED
  BY <1>1, Invariant, PTL

=============================================================================
