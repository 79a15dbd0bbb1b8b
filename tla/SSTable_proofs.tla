---------------------------- MODULE SSTable_proofs ----------------------------
(***************************************************************************)
(* A Get finds a key if and only if it is in the table, and a walk of the  *)
(* iterator shows every entry, for any keys of any lengths, any hashes and *)
(* bits per key and any interval of the sparse index, as long as a Get and *)
(* a call of the iterator do not overlap (SerialTableSpec).  Before that,  *)
(* the round trips of the encodings and the Bloom filter.                  *)
(***************************************************************************)
EXTENDS SSTable, FiniteSetTheorems, SequenceTheorems, WellFoundedInduction, TLAPS

-----------------------------------------------------------------------------
(* Encodings. *)

\* What is left of a number after each division by the base, ...
Chopped(rest, base, n) ==
  rest \in [0 .. n -> Nat] /\ \A i \in 1 .. n : rest[i] = rest[i - 1] \div base

\* ... and the digits that go.
AreDigits(digits, rest, base, n) ==
  /\ digits \in [1 .. n -> Nat] /\ rest \in [0 .. n -> Nat] /\ rest[n] = 0
  /\ \A i \in 1 .. n : rest[i - 1] = rest[i] * base + digits[i]

\* A nonempty set of naturals has a least element.
LEMMA LeastOf ==
  ASSUME NEW S \in SUBSET Nat, S # {}
  PROVE  \E m \in S : \A x \in S : m <= x
<1>1. PICK m \in S : \A x \in S : ~(<<x, m>> \in OpToRel(<, Nat))
  BY NatLessThanWellFounded, WFMin
<1>2. \A x \in S : ~(x < m)
  BY <1>1 DEF OpToRel
<1> QED BY <1>2

\* Numbers of which each depends on the one before it: there are such numbers, ...
LEMMA ChainExists ==
  ASSUME NEW n \in Nat, NEW first \in Nat, NEW step \in [1 .. n -> [Nat -> Nat]]
  PROVE  \E f \in [0 .. n -> Nat] :
           f[0] = first /\ \A i \in 1 .. n : f[i] = step[i][f[i - 1]]
<1> DEFINE Ok(m, f) == f \in [0 .. m -> Nat] /\ f[0] = first
                         /\ \A i \in 1 .. m : f[i] = step[i][f[i - 1]]
           Bad == {m \in 0 .. n : ~ \E f : Ok(m, f)}
<1>1. Bad = {}
  <2> SUFFICES ASSUME Bad # {} PROVE FALSE
    OBVIOUS
  <2>1. PICK m \in Bad : \A x \in Bad : m <= x
    <3>1. Bad \in SUBSET Nat
      OBVIOUS
    <3> HIDE DEF Bad
    <3> QED BY <3>1, LeastOf
  <2>2. m \in 0 .. n
    BY <2>1
  <2>3. CASE m = 0
    <3>1. Ok(0, [i \in 0 .. 0 |-> first])
      OBVIOUS
    <3> QED BY <2>3, <3>1
  <2>4. CASE m # 0
    <3>1. m - 1 \in 0 .. n /\ m - 1 \notin Bad /\ m \in 1 .. n
      <4> HIDE DEF Bad
      <4> QED BY <2>1, <2>2, <2>4
    <3>2. PICK f : Ok(m - 1, f)
      BY <3>1
    <3> DEFINE g == [i \in 0 .. m |-> IF i = m THEN step[m][f[m - 1]] ELSE f[i]]
    <3>3. f[m - 1] \in Nat
      BY <3>1, <3>2
    <3>4. step[m][f[m - 1]] \in Nat
      BY <3>1, <3>3
    <3>5. g \in [0 .. m -> Nat]
      <4>1. f \in [0 .. m - 1 -> Nat]
        BY <3>2
      <4>2. ASSUME NEW i \in 0 .. m, i # m PROVE f[i] \in Nat
        <5>1. i \in 0 .. m - 1
          BY <3>1, <4>2
        <5> QED BY <4>1, <5>1
      <4> QED BY <4>2, <3>4
    <3>6. g[0] = first
      BY <3>1, <3>2
    <3>7. ASSUME NEW i \in 1 .. m PROVE g[i] = step[i][g[i - 1]]
      <4>1. g[i - 1] = f[i - 1]
        BY <3>1
      <4>2. CASE i = m
        <5>1. g[m] = step[m][f[m - 1]] /\ m - 1 = i - 1
          BY <4>2
        <5> HIDE DEF g
        <5> QED BY <4>1, <4>2, <5>1
      <4>3. CASE i # m
        <5>1. i \in 1 .. m - 1 /\ g[i] = f[i]
          BY <4>3, <3>1
        <5> QED BY <5>1, <4>1, <3>2
      <4> QED BY <4>2, <4>3
    <3>8. Ok(m, g)
      BY <3>5, <3>6, <3>7
    <3> QED BY <3>8, <2>1
  <2> QED BY <2>3, <2>4
<1>2. n \in 0 .. n /\ n \notin Bad
  <2> HIDE DEF Bad
  <2> QED BY <1>1
<1> QED BY <1>2

\* ... and no others.
LEMMA ChainUnique ==
  ASSUME NEW n \in Nat, NEW f \in [0 .. n -> Nat], NEW g,
         g[0] = f[0], \A i \in 1 .. n : g[i - 1] = f[i - 1] => g[i] = f[i]
  PROVE  \A i \in 0 .. n : g[i] = f[i]
<1> DEFINE Bad == {i \in 0 .. n : g[i] # f[i]}
<1>1. ASSUME Bad # {} PROVE FALSE
  <2>1. PICK m \in Bad : \A x \in Bad : m <= x
    <3>1. Bad \in SUBSET Nat
      OBVIOUS
    <3> HIDE DEF Bad
    <3> QED BY <3>1, <1>1, LeastOf
  <2>2. m \in 1 .. n
    BY <2>1
  <2>3. m - 1 \notin Bad /\ m - 1 \in 0 .. n
    <3> HIDE DEF Bad
    <3> QED BY <2>1, <2>2
  <2>4. g[m - 1] = f[m - 1]
    BY <2>3
  <2>5. g[m] = f[m]
    BY <2>2, <2>4
  <2> QED BY <2>1, <2>5
<1> QED BY <1>1

\* Each of the values of Shifted is what is left of the one before it.
LEMMA ShiftedIs ==
  ASSUME NEW v \in Nat, NEW base \in Nat \ {0}, NEW n \in Nat
  PROVE  Chopped(Shifted(v, base, n), base, n) /\ Shifted(v, base, n)[0] = v
<1> DEFINE step == [i \in 1 .. n |-> [x \in Nat |-> x \div base]]
           Is(r) == r = [i \in 0 .. n |-> IF i = 0 THEN v ELSE r[i - 1] \div base]
           s == Shifted(v, base, n)
<1>1. step \in [1 .. n -> [Nat -> Nat]]
  <2>1. \A x \in Nat : x \div base \in Nat
    OBVIOUS
  <2> QED BY <2>1
<1>2. PICK f \in [0 .. n -> Nat] : f[0] = v /\ \A i \in 1 .. n : f[i] = step[i][f[i - 1]]
  <2> HIDE DEF step
  <2> QED BY <1>1, ChainExists, ZenonT(60)
<1>3. ASSUME NEW i \in 1 .. n PROVE f[i] = f[i - 1] \div base
  <2>1. f[i - 1] \in Nat
    OBVIOUS
  <2> QED BY <2>1, <1>2
<1>4. Is(f)
  BY <1>2, <1>3
<1>5. s = CHOOSE r : Is(r)
  BY DEF Shifted
<1>6. Is(s)
  BY <1>4, <1>5
<1> HIDE DEF s
<1>7. s = [i \in 0 .. n |-> s[i]] /\ s[0] = v
  BY <1>6
<1>8. \A i \in 1 .. n : s[i] = s[i - 1] \div base
  BY <1>6
<1>9. s = f
  <2>1. s[0] = f[0]
    BY <1>2, <1>7
  <2>2. ASSUME NEW i \in 1 .. n, s[i - 1] = f[i - 1] PROVE s[i] = f[i]
    BY <1>3, <1>8, <2>2
  <2>3. \A i \in 0 .. n : s[i] = f[i]
    BY <2>1, <2>2, ChainUnique
  <2> QED BY <1>7, <2>3
<1>10. Chopped(f, base, n)
  BY <1>3 DEF Chopped
<1> QED BY <1>2, <1>9, <1>10 DEF s

\* FromDigits puts together what Shifted takes apart.
LEMMA FromDigitsIs ==
  ASSUME NEW n \in Nat, NEW base \in Nat, NEW digits, NEW rest,
         AreDigits(digits, rest, base, n)
  PROVE  FromDigits(digits, base) = rest[0]
<1> DEFINE f == [i \in 0 .. n |-> rest[n - i]]
           Is(h) == h = [i \in 0 .. n |-> IF i = 0 THEN 0
                                          ELSE h[i - 1] * base + digits[n + 1 - i]]
           high == CHOOSE h : Is(h)
<1>0. /\ digits \in [1 .. n -> Nat] /\ rest \in [0 .. n -> Nat] /\ rest[n] = 0
      /\ \A i \in 1 .. n : rest[i - 1] = rest[i] * base + digits[i]
  BY DEF AreDigits
<1>1. f \in [0 .. n -> Nat] /\ f[0] = 0 /\ f[n] = rest[0]
  BY <1>0
<1>2. ASSUME NEW i \in 1 .. n PROVE f[i] = f[i - 1] * base + digits[n + 1 - i]
  <2>1. n + 1 - i \in 1 .. n /\ (n + 1 - i) - 1 = n - i /\ n - (i - 1) = n + 1 - i
    OBVIOUS
  <2>2. rest[(n + 1 - i) - 1] = rest[n + 1 - i] * base + digits[n + 1 - i]
    BY <1>0, <2>1
  <2>3. f[i] = rest[n - i] /\ f[i - 1] = rest[n - (i - 1)]
    OBVIOUS
  <2> HIDE DEF f
  <2> QED BY <2>1, <2>2, <2>3
<1>3. Is(f)
  <2>1. f = [i \in 0 .. n |-> f[i]]
    OBVIOUS
  <2> DEFINE e(i) == IF i = 0 THEN 0 ELSE f[i - 1] * base + digits[n + 1 - i]
  <2>2. ASSUME NEW i \in 0 .. n PROVE f[i] = e(i)
    <3>1. CASE i = 0
      BY <1>1, <3>1
    <3>2. CASE i # 0
      <4>1. i \in 1 .. n
        BY <3>2
      <4> HIDE DEF f
      <4> QED BY <4>1, <3>2, <1>2
    <3> QED BY <3>1, <3>2
  <2> HIDE DEF f, e
  <2>3. f = [i \in 0 .. n |-> e(i)]
    BY <2>1, <2>2
  <2> QED BY <2>3 DEF e
<1>4. Is(high)
  <2> HIDE DEF f, Is
  <2> QED BY <1>3
<1>5. Len(digits) = n
  BY <1>0, LenProperties
<1>6. FromDigits(digits, base) = high[n]
  BY <1>5 DEF FromDigits
<1> HIDE DEF high
<1>7. high[0] = 0
  BY <1>4
<1>8. ASSUME NEW i \in 1 .. n PROVE high[i] = high[i - 1] * base + digits[n + 1 - i]
  <2> DEFINE e(j) == IF j = 0 THEN 0 ELSE high[j - 1] * base + digits[n + 1 - j]
  <2>1. high = [j \in 0 .. n |-> e(j)]
    BY <1>4
  <2>2. i \in 0 .. n /\ i # 0
    OBVIOUS
  <2>3. high[i] = e(i)
    <3> HIDE DEF e
    <3> QED BY <2>1, <2>2
  <2> QED BY <2>2, <2>3
<1>9. high[n] = f[n]
  <2> HIDE DEF f
  <2>1. high[0] = f[0]
    BY <1>1, <1>7
  <2>2. ASSUME NEW i \in 1 .. n, high[i - 1] = f[i - 1] PROVE high[i] = f[i]
    BY <1>2, <1>8, <2>2
  <2>3. \A i \in 0 .. n : high[i] = f[i]
    <3>1. f \in [0 .. n -> Nat] /\ n \in Nat
      BY <1>1
    <3> QED BY ONLY <3>1, <2>1, <2>2, ChainUnique
  <2> QED BY <2>3
<1> QED BY <1>1, <1>6, <1>9

\* A number is its lowest digit and the rest.
LEMMA DigitAndRest ==
  ASSUME NEW x \in Nat
  PROVE  /\ x % 128 \in Nat /\ x % 128 < 128 /\ x = (x \div 128) * 128 + (x % 128)
         /\ x % 256 \in Nat /\ x % 256 < 256 /\ x = (x \div 256) * 256 + (x % 256)
         /\ (x \div 256) \div 256 = x \div 65536
         /\ (x % 128) % 128 = x % 128 /\ ((x % 128) + 128) % 128 = x % 128
         /\ x < 65536 => x \div 65536 = 0
  OBVIOUS

\* What EncodeFixed64 writes, DecodeFixed64 reads (coding.cpp:21-51), for every number
\* of 64 bits: the offsets in index and footer come back as they were.
THEOREM Fixed64RoundTrip ==
  ASSUME NEW v, IsUint64(v)
  PROVE  DecodeFixed64(EncodeFixed64(v)) = v
<1> DEFINE rest == Shifted(v, 256, 8)
           digits == [i \in 1 .. 8 |-> rest[i - 1] % 256]
<1>0. v \in Nat /\ 256 \in Nat \ {0} /\ 8 \in Nat
  BY DEF IsUint64
<1>1. Chopped(rest, 256, 8) /\ rest[0] = v
  BY <1>0, ShiftedIs
<1>2. EncodeFixed64(v) = digits
  BY DEF EncodeFixed64
<1> HIDE DEF rest
<1>3. rest[8] = 0
  <2>1. ASSUME NEW i \in 1 .. 7 PROVE rest[i + 1] = rest[i - 1] \div 65536
    <3>1. i + 1 \in 1 .. 8 /\ (i + 1) - 1 = i /\ rest[i - 1] \in Nat
      BY <1>1 DEF Chopped
    <3>2. rest[i + 1] = rest[i] \div 256 /\ rest[i] = rest[i - 1] \div 256
      BY <1>1, <3>1 DEF Chopped
    <3>3. (rest[i - 1] \div 256) \div 256 = rest[i - 1] \div 65536
      BY <3>1, DigitAndRest
    <3> QED BY <3>2, <3>3
  <2>2. /\ rest[2] = rest[0] \div 65536 /\ rest[4] = rest[2] \div 65536
        /\ rest[6] = rest[4] \div 65536 /\ rest[8] = rest[6] \div 65536
    BY <2>1
  <2>3. rest[4] \div 65536 < 65536
    BY <1>1, <2>2 DEF IsUint64, IsUint32
  <2>4. rest[6] \in Nat
    BY <1>1 DEF Chopped
  <2> QED BY <2>2, <2>3, <2>4, DigitAndRest
<1>4. ASSUME NEW i \in 1 .. 8
      PROVE  digits[i] \in Nat /\ rest[i - 1] = rest[i] * 256 + digits[i]
  <2>1. rest[i - 1] \in Nat /\ rest[i] = rest[i - 1] \div 256
    BY <1>1 DEF Chopped
  <2>2. digits[i] = rest[i - 1] % 256
    OBVIOUS
  <2> HIDE DEF digits
  <2> QED BY <2>1, <2>2, DigitAndRest
<1>5. AreDigits(digits, rest, 256, 8)
  <2>1. digits = [i \in 1 .. 8 |-> digits[i]]
    OBVIOUS
  <2> HIDE DEF digits
  <2> QED BY <1>1, <1>3, <1>4, <2>1 DEF AreDigits, Chopped
<1>6. FromDigits(digits, 256) = v
  <2> HIDE DEF digits
  <2> QED BY <1>0, <1>1, <1>5, FromDigitsIs
<1>7. SubSeq(digits, 1, 8) = digits
  <2>1. digits \in Seq(Nat) /\ Len(digits) = 8
    <3>1. digits \in [1 .. 8 -> Nat]
      BY <1>5 DEF AreDigits
    <3> HIDE DEF digits
    <3>2. 8 \in Nat
      OBVIOUS
    <3>3. digits \in Seq(Nat)
      BY <3>1, <3>2, SeqDef
    <3> QED BY <3>1, <3>2, <3>3, LenProperties
  <2> HIDE DEF digits
  <2> QED BY <2>1
<1> QED BY <1>2, <1>6, <1>7 DEF DecodeFixed64

\* What EncodeVarint32 writes, DecodeVarint32 reads (coding.cpp:57-102), for every
\* number of 32 bits, and it takes as many bytes as were written, one to five.
THEOREM Varint32RoundTrip ==
  ASSUME NEW v, IsUint32(v)
  PROVE  /\ DecodeVarint32(EncodeVarint32(v))
              = [value |-> v, len |-> Len(EncodeVarint32(v))]
         /\ Len(EncodeVarint32(v)) \in 1 .. 5
<1> DEFINE rest == Shifted(v, 128, 5)
           IsFirst(i) == rest[i] = 0 /\ \A j \in 1 .. i - 1 : rest[j] # 0
           n == CHOOSE i \in 1 .. 5 : IsFirst(i)
           p == [i \in 1 .. n |-> (rest[i - 1] % 128) + (IF i < n THEN 128 ELSE 0)]
           last == {i \in 1 .. Len(p) : i <= 5 /\ p[i] < 128}
           digits == [i \in 1 .. n |-> p[i] % 128]
<1>0. v \in Nat /\ 128 \in Nat \ {0} /\ 5 \in Nat
  BY DEF IsUint32
<1>1. Chopped(rest, 128, 5) /\ rest[0] = v
  <2> HIDE DEF n
  <2> QED BY <1>0, ShiftedIs
<1>2. EncodeVarint32(v) = p
  BY DEF EncodeVarint32
<1>3. DecodeVarint32(p) =
        IF last = {} THEN [value |-> 0, len |-> 0]
        ELSE LET m == CHOOSE i \in last : \A j \in last : i <= j
             IN  [value |-> FromDigits([i \in 1 .. m |-> p[i] % 128], 128), len |-> m]
  BY DEF DecodeVarint32
<1> HIDE DEF rest
<1>4. rest[5] = 0
  <2>1. /\ rest[1] = rest[0] \div 128 /\ rest[2] = rest[1] \div 128
        /\ rest[3] = rest[2] \div 128 /\ rest[4] = rest[3] \div 128
        /\ rest[5] = rest[4] \div 128
    BY <1>1 DEF Chopped
  <2>2. \A i \in 0 .. 5 : rest[i] \in Nat
    BY <1>1 DEF Chopped
  <2>3. v \div 65536 < 65536
    BY DEF IsUint32
  <2>4. \A x \in Nat : x \div 65536 < 65536 => (x \div 128) \div 128 < 262144
    OBVIOUS
  <2>5. rest[2] \in Nat /\ rest[2] < 262144
    BY <2>1, <2>2, <2>3, <2>4, <1>0, <1>1
  <2>6. \A x \in Nat : x < 262144 => ((x \div 128) \div 128) \div 128 = 0
    OBVIOUS
  <2> QED BY <2>1, <2>5, <2>6
<1>5. n \in 1 .. 5 /\ IsFirst(n)
  <2>1. \E i \in 1 .. 5 : IsFirst(i)
    <3>1. CASE rest[1] = 0
      <4>1. IsFirst(1)
        BY <3>1
      <4> QED BY <4>1
    <3>2. CASE rest[1] # 0 /\ rest[2] = 0
      <4>1. IsFirst(2)
        BY <3>2
      <4> QED BY <4>1
    <3>3. CASE rest[1] # 0 /\ rest[2] # 0 /\ rest[3] = 0
      <4>1. IsFirst(3)
        BY <3>3
      <4> QED BY <4>1
    <3>4. CASE rest[1] # 0 /\ rest[2] # 0 /\ rest[3] # 0 /\ rest[4] = 0
      <4>1. IsFirst(4)
        BY <3>4
      <4> QED BY <4>1
    <3>5. CASE rest[1] # 0 /\ rest[2] # 0 /\ rest[3] # 0 /\ rest[4] # 0
      <4>1. IsFirst(5)
        BY <3>5, <1>4
      <4> QED BY <4>1
    <3> QED BY <3>1, <3>2, <3>3, <3>4, <3>5
  <2> HIDE DEF IsFirst
  <2> QED BY <2>1
<1> HIDE DEF n
<1>6. ASSUME NEW i \in 1 .. n
      PROVE  /\ rest[i - 1] = rest[i] * 128 + digits[i] /\ digits[i] \in Nat
             /\ i < n => p[i] >= 128
             /\ i = n => p[i] < 128
  <2>1. rest[i - 1] \in Nat /\ rest[i] = rest[i - 1] \div 128
    BY <1>1, <1>5 DEF Chopped
  <2>2. p[i] = (rest[i - 1] % 128) + (IF i < n THEN 128 ELSE 0) /\ digits[i] = p[i] % 128
    OBVIOUS
  <2> HIDE DEF p, digits
  <2>3. CASE i < n
    <3>1. p[i] = (rest[i - 1] % 128) + 128
      BY <2>2, <2>3
    <3> QED BY <1>5, <2>1, <2>2, <2>3, <3>1, DigitAndRest
  <2>4. CASE ~(i < n)
    <3>1. p[i] = rest[i - 1] % 128
      BY <2>1, <2>2, <2>4, DigitAndRest
    <3> QED BY <2>1, <2>2, <2>4, <3>1, DigitAndRest
  <2> QED BY <2>3, <2>4
<1>7. Len(p) = n
  BY <1>5
<1>8. n \in last /\ \A j \in last : j = n
  <2>1. p[n] < 128
    BY <1>5, <1>6
  <2>2. ASSUME NEW j \in last PROVE j = n
    <3>1. j \in 1 .. n /\ p[j] < 128
      BY <1>7
    <3>2. p[j] \in Int
      <4>1. rest[j - 1] \in Nat
        BY <1>1, <1>5, <3>1 DEF Chopped
      <4>2. p[j] = (rest[j - 1] % 128) + (IF j < n THEN 128 ELSE 0)
        BY <3>1
      <4> HIDE DEF p, last
      <4> QED BY <4>1, <4>2
    <3> HIDE DEF p, last
    <3> QED BY <1>5, <1>6, <3>1, <3>2
  <2> HIDE DEF p
  <2> QED BY <1>5, <1>7, <2>1, <2>2
<1>9. (CHOOSE i \in last : \A j \in last : i <= j) = n
  <2>1. last = {n}
    <3> HIDE DEF last
    <3> QED BY <1>8
  <2> HIDE DEF last
  <2> QED BY <1>5, <2>1
<1>10. FromDigits(digits, 128) = v
  <2> DEFINE r == [i \in 0 .. n |-> rest[i]]
  <2>1. r \in [0 .. n -> Nat] /\ r[n] = 0 /\ r[0] = v
    <3>1. \A i \in 0 .. n : rest[i] \in Nat
      BY <1>1, <1>5 DEF Chopped
    <3>2. 0 \in 0 .. n /\ n \in 0 .. n /\ rest[n] = 0
      BY <1>5
    <3> QED BY <1>1, <3>1, <3>2
  <2>2. ASSUME NEW i \in 1 .. n PROVE r[i - 1] = rest[i - 1] /\ r[i] = rest[i]
    BY <1>5
  <2>3. digits = [i \in 1 .. n |-> digits[i]]
    OBVIOUS
  <2> HIDE DEF r, digits
  <2>4. AreDigits(digits, r, 128, n)
    BY <1>6, <2>1, <2>2, <2>3 DEF AreDigits
  <2> QED BY <1>0, <1>5, <2>1, <2>4, FromDigitsIs
<1>11. DecodeVarint32(p) = [value |-> FromDigits(digits, 128), len |-> n]
  <2> HIDE DEF last, p
  <2> QED BY <1>3, <1>8, <1>9
<1> HIDE DEF p, digits
<1> QED BY <1>2, <1>5, <1>7, <1>10, <1>11

-----------------------------------------------------------------------------
(* The Bloom filter. *)

\* CreateFilter takes the bits of a key modulo a number of bits, MayContain modulo
\* eight times the number of bytes (bloom_filter.cpp:84-89, 117): the same number,
\* and above 0.
LEMMA SameModulus ==
  ASSUME NEW n \in Nat
  PROVE  /\ (AtLeast64(n) + 7) \div 8 \in Nat
         /\ (AtLeast64(n) + 7) \div 8 > 0
         /\ NumBits(n) = ((AtLeast64(n) + 7) \div 8) * 8
<1>1. n * BitsPerKey \in Nat
  BY BitsPerKeyAssumption
<1>2. AtLeast64(n) \in Nat /\ AtLeast64(n) >= 64
  BY <1>1 DEF AtLeast64
<1>3. \A m \in Nat : m >= 64 => (m + 7) \div 8 \in Nat /\ (m + 7) \div 8 > 0
  OBVIOUS
<1> QED
  BY <1>2, <1>3 DEF NumBits

\* MayContain (bloom_filter.cpp:114-131) never says of a key that CreateFilter
\* (bloom_filter.cpp:76-105) was given that it is not there: a Get that trusts the
\* filter misses no entry of its table.
THEOREM NoFalseNegatives ==
  ASSUME NEW keys \in SUBSET Key, IsFiniteSet(keys), NEW key \in keys
  PROVE  MayContain(CreateFilter(keys), key)
<1> DEFINE n == Cardinality(keys)
           num_bytes == (AtLeast64(n) + 7) \div 8
           bits == UNION {Bits(k, NumHashes, NumBits(n)) : k \in keys}
<1>1. n \in Nat
  BY FS_CardinalityType
<1>2. num_bytes > 0 /\ NumBits(n) = num_bytes * 8
  BY <1>1, SameModulus
<1>3. CreateFilter(keys) = [num_hashes |-> NumHashes, num_bytes |-> num_bytes,
                            bits |-> bits]
  BY DEF CreateFilter
<1>4. Bits(key, NumHashes, NumBits(n)) \subseteq bits
  OBVIOUS
<1> HIDE DEF num_bytes, bits, n
<1> QED
  BY <1>2, <1>3, <1>4 DEF MayContain

-----------------------------------------------------------------------------
(* What the writer lays out. *)

\* The readers compute the length of an entry from what they decode
\* (sstable.cpp:264-266); it is what the writer has advanced by.
LEMMA EncodeFacts ==
  ASSUME NEW key \in Key, NEW val
  PROVE  /\ Encode(key, val).key = key /\ Encode(key, val).val = val
         /\ EncodedSize(key) \in Nat /\ EncodedSize(key) > 0
         /\ Parses(Encode(key, val))
         /\ TotalLen(Encode(key, val)) = EncodedSize(key)
<1> DEFINE klen == EncodeVarint32(KeyLen[key])
           e == Encode(key, val)
<1>1. IsUint32(KeyLen[key]) /\ KeyLen[key] \in Nat
  BY KeyAssumption
<1>2. DecodeVarint32(klen) = [value |-> KeyLen[key], len |-> Len(klen)] /\ Len(klen) \in 1 .. 5
  BY <1>1, Varint32RoundTrip
<1>3. e.klen = klen /\ e.key = key /\ e.val = val
  BY DEF Encode
<1>4. EncodedSize(key) = Len(klen) + KeyLen[key] + 1 + 8 + 16
  BY DEF EncodedSize
<1> HIDE DEF e, klen
<1>5. Parses(e)
  BY <1>2, <1>3 DEF Parses
<1>6. TotalLen(e) = Len(klen) + KeyLen[key] + 1 + 8 + 16
  BY <1>2, <1>3 DEF TotalLen
<1>7. EncodedSize(key) \in Nat /\ EncodedSize(key) > 0
  BY <1>1, <1>2, <1>4
<1>8. TotalLen(e) = EncodedSize(key)
  BY <1>4, <1>6
<1> QED BY <1>3, <1>5, <1>7, <1>8 DEF e

\* Every entry is what it was when it was added.
LEMMA DataFacts ==
  ASSUME TableTypeOK, LayoutInv, NEW o \in DOMAIN data
  PROVE  /\ o \in Nat /\ o < data_offset /\ data_offset \in Nat
         /\ data[o].key \in Key /\ data[o].key \in Nat /\ data[o].key > 0
         /\ data[o].val \in Version[data[o].key]
         /\ Parses(data[o])
         /\ TotalLen(data[o]) \in Nat /\ TotalLen(data[o]) > 0
         /\ EndOfEntry(o) = o + TotalLen(data[o]) /\ EndOfEntry(o) \in Offsets
<1>1. PICK key \in Key : \E val \in Version[key] : data[o] = Encode(key, val)
  BY DEF LayoutInv
<1>2. PICK val \in Version[key] : data[o] = Encode(key, val)
  BY <1>1
<1>3. key \in Nat /\ key > 0
  BY KeyAssumption
<1>4. /\ data[o].key = key /\ data[o].val = val /\ Parses(data[o])
      /\ TotalLen(data[o]) = EncodedSize(key) /\ EncodedSize(key) \in Nat
      /\ EncodedSize(key) > 0
  BY <1>2, EncodeFacts
<1>5. o \in Nat /\ o < data_offset /\ data_offset \in Nat /\ EndOfEntry(o) \in Offsets
  BY DEF TableTypeOK, LayoutInv
<1>6. EndOfEntry(o) = o + EncodedSize(key)
  BY <1>4 DEF EndOfEntry
<1> QED BY <1>2, <1>3, <1>4, <1>5, <1>6

\* Offsets are in the order of the keys, and nothing begins inside an entry.
LEMMA OffsetOrder ==
  ASSUME TableTypeOK, LayoutInv, NEW o \in DOMAIN data, NEW n \in DOMAIN data
  PROVE  /\ o < n <=> data[o].key < data[n].key
         /\ o = n <=> data[o].key = data[n].key
         /\ n < EndOfEntry(o) <=> n <= o
<1>1. o \in Nat /\ data[o].key \in Nat /\ EndOfEntry(o) \in Nat /\ o < EndOfEntry(o)
  BY DataFacts
<1>2. n \in Nat /\ data[n].key \in Nat
  BY DataFacts
<1>3. o < n => data[o].key < data[n].key /\ EndOfEntry(o) <= n
  BY DEF LayoutInv
<1>4. n < o => data[n].key < data[o].key
  BY DEF LayoutInv
<1> QED BY <1>1, <1>2, <1>3, <1>4

\* An offset is a number, and it is that of an entry unless it is the end.
LEMMA OffsetFacts ==
  ASSUME TableTypeOK, LayoutInv, NEW o \in Offsets
  PROVE  /\ o \in Nat /\ o <= data_offset /\ data_offset \in Nat
         /\ o < data_offset => o \in DOMAIN data
         /\ \A n \in Offsets : o < n => o \in DOMAIN data
<1>1. data_offset \in Nat
  BY DEF TableTypeOK
<1>2. ASSUME NEW m \in Offsets PROVE m \in Nat /\ m <= data_offset
  <2>1. CASE m \in DOMAIN data
    BY <1>1, <2>1, DataFacts
  <2>2. CASE m = data_offset
    BY <1>1, <2>2
  <2> QED BY <2>1, <2>2 DEF Offsets
<1> QED BY <1>1, <1>2 DEF Offsets

\* The end of an entry separates what is up to it from what follows.
LEMMA NextOffset ==
  ASSUME TableTypeOK, LayoutInv, NEW o \in DOMAIN data
  PROVE  /\ o + TotalLen(data[o]) \in Offsets
         /\ \A n \in DOMAIN data : n < o + TotalLen(data[o]) <=> n < o \/ n = o
<1>1. o \in Nat /\ EndOfEntry(o) = o + TotalLen(data[o]) /\ EndOfEntry(o) \in Offsets
  BY DataFacts
<1>2. ASSUME NEW n \in DOMAIN data PROVE n < EndOfEntry(o) <=> n < o \/ n = o
  <2>1. n \in Nat /\ (n < EndOfEntry(o) <=> n <= o)
    BY DataFacts, OffsetOrder
  <2> QED BY <1>1, <2>1
<1> QED BY <1>1, <1>2

-----------------------------------------------------------------------------
(* What a step of a reader leaves alone. *)

Frame == UNCHANGED <<writerVars, file, table>>

\* All that a reader has but the position of the file.
Same(q) ==
  /\ rpc'[q] = rpc[q] /\ target'[q] = target[q]
  /\ left'[q] = left[q] /\ right'[q] = right[q] /\ block_idx'[q] = block_idx[q]
  /\ offset'[q] = offset[q] /\ end_offset'[q] = end_offset[q]
  /\ total_len'[q] = total_len[q]

ReaderOK(p) == ReaderInv(p) /\ SearchInv(p) /\ ScanInv(p)

\* What was written does not change any more.
LEMMA FrameKeeps ==
  ASSUME LayoutInv, IndexInv, FileInv, Frame
  PROVE  /\ LayoutInv' /\ IndexInv' /\ FileInv'
         /\ Entries' = Entries /\ Offsets' = Offsets
<1>1. /\ data' = data /\ data_offset' = data_offset /\ sparse_index' = sparse_index
      /\ key_storage' = key_storage /\ file' = file /\ table' = table
  BY DEF Frame, writerVars
<1>2. KeysAdded' = KeysAdded /\ Entries' = Entries /\ Offsets' = Offsets
  BY <1>1 DEF KeysAdded, Entries, Offsets
<1>3. LayoutInv'
  BY <1>1, <1>2 DEF LayoutInv, SizeFits, EndOfEntry
<1>4. IndexInv'
  BY <1>1 DEF IndexInv, Written
<1>5. FileInv'
  BY <1>1, <1>2 DEF FileInv, Loaded
<1> QED BY <1>2, <1>3, <1>4, <1>5

\* A reader whose locals stay and whose position of the file is not moved between
\* its seek and its read.
LEMMA ReaderKept ==
  ASSUME Frame, NEW q \in Proc, ReaderOK(q), Same(q), pos' = pos \/ rpc[q] # "read"
  PROVE  ReaderOK(q)'
<1>1. data' = data /\ data_offset' = data_offset /\ table' = table
  BY DEF Frame, writerVars
<1>2. Offsets' = Offsets
  BY <1>1 DEF Offsets
<1>3. ReaderInv(q)'
  BY <1>1 DEF ReaderOK, ReaderInv, Same
<1>4. SearchInv(q)'
  BY <1>1 DEF ReaderOK, SearchInv, Same, Block
<1>5. ScanInv(q)'
  BY <1>1, <1>2 DEF ReaderOK, ScanInv, Same
<1> QED BY <1>3, <1>4, <1>5 DEF ReaderOK

\* The walk, while the iterator does nothing.
LEMMA WalkKept ==
  ASSUME Frame, WalkInv, WalkIsComplete, Same("iter"), UNCHANGED iterVars
  PROVE  WalkInv' /\ WalkIsComplete'
<1>1. data' = data /\ data_offset' = data_offset /\ table' = table
  BY DEF Frame, writerVars
<1>2. valid' = valid /\ from' = from /\ seen' = seen
  BY DEF iterVars
<1>3. /\ Offsets' = Offsets /\ Shown' = Shown /\ Passed' = Passed /\ Entries' = Entries
      /\ {EntryAt(o) : o \in Passed}' = {EntryAt(o) : o \in Passed}
  BY <1>1, <1>2 DEF Offsets, Shown, Passed, Entries, EntryAt, Same
<1>4. WalkInv'
  BY <1>1, <1>2, <1>3 DEF WalkInv, Same
<1>5. WalkIsComplete'
  BY <1>2, <1>3 DEF WalkIsComplete, Same
<1> QED BY <1>4, <1>5

\* The result of a Get, while it does nothing.
LEMMA GetKept ==
  ASSUME Frame, GetFindsEntry, rpc'["get"] = rpc["get"], target'["get"] = target["get"],
         result' = result
  PROVE  GetFindsEntry'
<1>1. Entries' = Entries
  BY DEF Frame, writerVars, Entries
<1> QED BY <1>1 DEF GetFindsEntry

\* The steps of one reader put together.
LEMMA Assemble ==
  ASSUME TableInv, Frame, OneCall', TableTypeOK',
         NEW p \in Proc, NEW q \in Proc, p # q,
         ReaderOK(p)', ReaderOK(q)', WalkInv', GetFindsEntry', WalkIsComplete'
  PROVE  TableInv'
<1>1. LayoutInv' /\ IndexInv' /\ FileInv'
  BY FrameKeeps DEF TableInv
<1>2. \A r \in Proc : r = p \/ r = q
  BY DEF Proc
<1> QED BY <1>1, <1>2 DEF TableInv, ReaderOK

-----------------------------------------------------------------------------
(* The binary search. *)

\* The sparse index points at entries, in their order; the first is at the begin.
LEMMA BlockFacts ==
  ASSUME TableTypeOK, LayoutInv, FileInv, table # None, table.index # << >>
  PROVE  /\ Len(table.index) \in Nat /\ Len(table.index) > 0
         /\ \A i \in 0 .. Len(table.index) - 1 :
              /\ Block(i).data_offset \in DOMAIN data
              /\ Block(i).key = data[Block(i).data_offset].key
              /\ Block(i).key \in Nat
         /\ \A i, j \in 0 .. Len(table.index) - 1 : i < j => Block(i).key < Block(j).key
         /\ Block(0).data_offset = 0
<1> DEFINE index == table.index
           L == {Loaded(o) : o \in DOMAIN data}
<1>1. index \in Seq(L) /\ InOrder(index)
  BY DEF FileInv
<1>2. Len(index) \in Nat /\ Len(index) > 0 /\ DOMAIN index = 1 .. Len(index)
  BY <1>1, EmptySeq, LenProperties
<1>3. ASSUME NEW i \in 0 .. Len(index) - 1
      PROVE  /\ i + 1 \in DOMAIN index /\ Block(i) = index[i + 1]
             /\ Block(i).data_offset \in DOMAIN data
             /\ Block(i).key = data[Block(i).data_offset].key
             /\ Block(i).key \in Nat
  <2>1. i + 1 \in DOMAIN index /\ Block(i) = index[i + 1]
    BY <1>2 DEF Block
  <2>2. index[i + 1] \in L
    BY <1>1, <2>1, ElementOfSeq, <1>2
  <2>3. PICK o \in DOMAIN data : index[i + 1] = Loaded(o)
    BY <2>2
  <2>4. Block(i).data_offset = o /\ Block(i).key = data[o].key
    BY <2>1, <2>3 DEF Loaded
  <2>5. data[o].key \in Nat
    BY DataFacts
  <2> QED BY <2>1, <2>4, <2>5
<1>4. ASSUME NEW i \in 0 .. Len(index) - 1, NEW j \in 0 .. Len(index) - 1, i < j
      PROVE  Block(i).key < Block(j).key
  <2>1. i + 1 < j + 1
    BY <1>4
  <2> QED BY <1>1, <1>3, <2>1 DEF InOrder
<1>5. Block(0).data_offset = 0
  <2>1. 0 \in 0 .. Len(index) - 1
    BY <1>2
  <2>2. Block(0).data_offset \in DOMAIN data
    BY <1>3, <2>1
  <2>3. data_offset > 0
    BY <2>2, DataFacts
  <2>4. index[1] = Loaded(0)
    BY <2>3 DEF FileInv
  <2>5. Block(0) = index[1]
    BY DEF Block
  <2> QED BY <2>4, <2>5 DEF Loaded
<1> HIDE DEF index
<1> QED BY <1>2, <1>3, <1>4, <1>5 DEF index

\* The scan of the block that the search ends with misses nothing: the entries
\* before it are below the target, and those behind it above.
LEMMA BlockOfTarget ==
  ASSUME TableTypeOK, LayoutInv, FileInv, table # None, table.index # << >>,
         NEW p \in Proc, NEW t \in Nat, NEW b \in 0 .. Len(table.index) - 1,
         b = 0 \/ Block(b).key <= t,
         b + 1 < Len(table.index) => Block(b + 1).key > t
  PROVE  /\ Block(b).data_offset \in Offsets
         /\ \A o \in DOMAIN data : o < Block(b).data_offset => data[o].key < t
         /\ EndOfScan(p, b) \in Offsets
         /\ p = "iter" => EndOfScan(p, b) = data_offset
         /\ p = "get" => \A o \in DOMAIN data : o >= EndOfScan(p, b) => data[o].key > t
<1> DEFINE start == Block(b).data_offset
           end == EndOfScan(p, b)
<1>1. /\ Len(table.index) \in Nat /\ start \in DOMAIN data
      /\ Block(b).key = data[start].key /\ Block(b).key \in Nat
      /\ Block(0).data_offset = 0
  BY BlockFacts
<1>2. ASSUME NEW o \in DOMAIN data, o < start PROVE data[o].key < t
  <2>1. o \in Nat /\ data[o].key \in Nat /\ start \in Nat
    BY <1>1, DataFacts
  <2>2. b # 0
    BY <1>1, <1>2, <2>1
  <2>3. data[o].key < data[start].key
    BY <1>1, <1>2, OffsetOrder
  <2> QED BY <1>1, <2>1, <2>2, <2>3
<1>3. table.data_end_offset = data_offset
  BY DEF FileInv
<1>4. CASE p = "get" /\ b + 1 < Len(table.index)
  <2>1. b + 1 \in 0 .. Len(table.index) - 1
    BY <1>1, <1>4
  <2>2. end = Block(b + 1).data_offset
    BY <1>4 DEF EndOfScan
  <2>3. /\ end \in DOMAIN data /\ Block(b + 1).key = data[end].key
        /\ data[end].key \in Nat /\ data[end].key > t
    BY <1>4, <2>1, <2>2, BlockFacts
  <2>4. ASSUME NEW o \in DOMAIN data, o >= end PROVE data[o].key > t
    <3>1. o \in Nat /\ data[o].key \in Nat /\ end \in Nat
      BY <2>3, DataFacts
    <3>2. o = end \/ end < o
      BY <2>4, <3>1
    <3>3. data[o].key = data[end].key \/ data[end].key < data[o].key
      BY <2>3, <3>2, OffsetOrder
    <3> QED BY <2>3, <3>1, <3>3
  <2>5. p # "iter"
    BY <1>4
  <2> HIDE DEF start, end
  <2> QED BY <1>1, <1>2, <2>3, <2>4, <2>5 DEF Offsets, start, end
<1>5. CASE ~(p = "get" /\ b + 1 < Len(table.index))
  <2>1. end = data_offset
    BY <1>3, <1>5 DEF EndOfScan
  <2>2. ASSUME NEW o \in DOMAIN data, o >= end PROVE FALSE
    <3>1. o \in Nat /\ data_offset \in Nat /\ o < data_offset
      BY DataFacts
    <3> QED BY <2>1, <2>2, <3>1
  <2> HIDE DEF start, end
  <2> QED BY <1>1, <1>2, <2>1, <2>2 DEF Offsets, start, end
<1> QED BY <1>4, <1>5

\* The other reader.
Other(p) == IF p = "get" THEN "iter" ELSE "get"

\* There is exactly one other reader.
LEMMA OtherIs ==
  ASSUME NEW p \in Proc
  PROVE  Other(p) \in Proc /\ Other(p) # p /\ \A q \in Proc : q = p \/ q = Other(p)
BY DEF Proc, Other

\* A step that only one reader takes, with nothing of the other's in it.
LEMMA OtherKept ==
  ASSUME TableInv, Frame, NEW p \in Proc, Reading(p), Same(Other(p))
  PROVE  ReaderOK(Other(p))'
<1>1. Other(p) \in Proc /\ ReaderOK(Other(p))
  BY OtherIs DEF TableInv, ReaderOK
<1>2. rpc[Other(p)] # "read"
  BY DEF TableInv, OneCall, Reading, Other, Proc
<1> QED BY <1>1, <1>2, ReaderKept

\* The types of what the readers change.
LEMMA TypeKept ==
  ASSUME TableTypeOK, Frame,
         pos' \in Nat \cup {Behind},
         rpc' \in [Proc -> {"idle", "search", "seek", "read", "done"}],
         target' \in [Proc -> Key \cup {Lowest}],
         left' \in [Proc -> Int], right' \in [Proc -> Int], block_idx' \in [Proc -> Int],
         \A p \in Proc : rpc'[p] = "search" =>
           \/ /\ left'[p] \in 0 .. Len(table.index)
              /\ right'[p] \in -1 .. Len(table.index) - 1
              /\ block_idx'[p] \in 0 .. Len(table.index) - 1
           \/ /\ rpc[p] = "search" /\ left'[p] = left[p] /\ right'[p] = right[p]
              /\ block_idx'[p] = block_idx[p],
         offset' \in [Proc -> Nat], end_offset' \in [Proc -> Nat],
         total_len' \in [Proc -> Nat], result' \in Results, valid' \in BOOLEAN,
         from' \in Key \cup {Lowest, NoWalk}, seen' \in Seq(Entries)
  PROVE  TableTypeOK'
<1>1. /\ data' = data /\ data_offset' = data_offset /\ table' = table
      /\ entries_since_last_index' = entries_since_last_index
      /\ key_storage' = key_storage
  BY DEF Frame, writerVars
<1>2. Entries' = Entries /\ Results' = Results
  BY <1>1 DEF Entries, Results
<1> QED BY <1>1, <1>2 DEF TableTypeOK

-----------------------------------------------------------------------------
(* The scan. *)

\* What ReadEntryAt reads when nobody has moved the position of the file: the entry
\* at its offset.
LEMMA ReadFacts ==
  ASSUME TableInv, NEW p \in Proc, rpc[p] = "read"
  PROVE  /\ pos = offset[p] /\ offset[p] \in DOMAIN data /\ offset[p] \in Nat
         /\ EntryRead(p) = EntryAt(offset[p]) /\ EntryRead(p).status = "ok"
         /\ EntryRead(p).key = data[offset[p]].key
         /\ EntryRead(p) \in Entries /\ EntryRead(p) \in Results
<1>1. TableTypeOK /\ LayoutInv /\ ScanInv(p)
  BY DEF TableInv
<1>2. /\ pos = offset[p] /\ offset[p] < end_offset[p]
      /\ offset[p] \in Offsets /\ end_offset[p] \in Offsets
      /\ total_len[p] # 0 => total_len[p] = TotalLen(data[offset[p]])
  BY <1>1 DEF ScanInv
<1>3. offset[p] \in DOMAIN data
  BY <1>1, <1>2, OffsetFacts
<1>4. /\ offset[p] \in Nat /\ Parses(data[offset[p]]) /\ data[offset[p]].key \in Key
      /\ data[offset[p]].val \in Version[data[offset[p]].key]
  BY <1>1, <1>3, DataFacts
<1>5. EntryRead(p) = OK(data[offset[p]].key, data[offset[p]].val)
  BY <1>2, <1>3, <1>4 DEF EntryRead
<1>6. EntryRead(p) \in Entries
  BY <1>3, <1>5 DEF Entries
<1>7. EntryRead(p) \in Results
  BY <1>4, <1>5 DEF Results
<1>8. EntryRead(p).status = "ok" /\ EntryRead(p).key = data[offset[p]].key
  BY <1>5 DEF OK
<1> QED BY <1>2, <1>3, <1>4, <1>5, <1>6, <1>7, <1>8 DEF EntryAt

\* The walk, while the iterator moves between the seek and the read of one entry.
LEMMA WalkGoesOn ==
  ASSUME Frame, WalkInv, UNCHANGED iterVars,
         target' = target, offset' = offset, end_offset' = end_offset,
         rpc["iter"] \in {"seek", "read"} <=> rpc'["iter"] \in {"seek", "read"},
         rpc'["iter"] = rpc["iter"] \/ rpc'["iter"] \in {"seek", "read"}
  PROVE  WalkInv'
<1>1. data' = data /\ data_offset' = data_offset /\ table' = table
  BY DEF Frame, writerVars
<1>2. valid' = valid /\ from' = from /\ seen' = seen
  BY DEF iterVars
<1>3. /\ Offsets' = Offsets /\ Shown' = Shown /\ Passed' = Passed
      /\ {EntryAt(o) : o \in Passed}' = {EntryAt(o) : o \in Passed}
  BY <1>1, <1>2 DEF Offsets, Shown, Passed, EntryAt
<1> QED BY <1>1, <1>2, <1>3 DEF WalkInv

\* The seek of a positioned read sets the position to the offset of the scan.
LEMMA FileSeekKeeps ==
  ASSUME TableInv, NEW p \in Proc, FileSeek(p), OneCall'
  PROVE  TableInv'
<1>1. /\ Frame /\ pos' = offset[p] /\ rpc' = [rpc EXCEPT ![p] = "read"]
      /\ rpc[p] = "seek" /\ offset[p] < end_offset[p]
      /\ UNCHANGED scanVars /\ UNCHANGED <<result, iterVars>>
  BY DEF FileSeek, Goto, Frame
<1>2. /\ target' = target /\ left' = left /\ right' = right /\ block_idx' = block_idx
      /\ offset' = offset /\ end_offset' = end_offset /\ total_len' = total_len
      /\ result' = result /\ valid' = valid /\ from' = from /\ seen' = seen
  BY <1>1 DEF scanVars, iterVars
<1>3. TableTypeOK /\ ReaderOK(p) /\ WalkInv /\ GetFindsEntry /\ WalkIsComplete
  BY DEF TableInv, ReaderOK
<1>4. rpc'[p] = "read" /\ \A q \in Proc : q # p => rpc'[q] = rpc[q]
  BY <1>1, <1>3 DEF TableTypeOK
<1>5. TableTypeOK'
  BY <1>1, <1>2, <1>3, <1>4, TypeKept DEF TableTypeOK
<1>6. Same(Other(p)) /\ Other(p) \in Proc /\ Other(p) # p
  BY <1>2, <1>4, OtherIs DEF Same
<1>7. ReaderOK(Other(p))'
  BY <1>1, <1>6, OtherKept DEF Reading
<1>8. ReaderOK(p)'
  <2>1. data' = data /\ table' = table /\ Offsets' = Offsets
    BY <1>1 DEF Frame, writerVars, Offsets
  <2> QED BY <1>1, <1>2, <1>3, <1>4, <2>1 DEF ReaderOK, ReaderInv, SearchInv, ScanInv
<1>9. WalkInv' /\ WalkIsComplete'
  <2>1. CASE p = "get"
    <3>1. Same("iter")
      BY <1>6, <2>1 DEF Other
    <3> QED BY <1>1, <1>3, <3>1, WalkKept
  <2>2. CASE p = "iter"
    <3>1. WalkInv'
      BY <1>1, <1>2, <1>3, <1>4, <2>2, WalkGoesOn
    <3> QED BY <1>4, <2>2, <3>1 DEF WalkIsComplete
  <2> QED BY <2>1, <2>2 DEF Proc
<1>10. GetFindsEntry'
  <2>1. CASE p = "get"
    BY <1>4, <2>1 DEF GetFindsEntry
  <2>2. CASE p = "iter"
    BY <1>1, <1>2, <1>3, <1>4, <2>2, GetKept DEF Proc
  <2> QED BY <2>1, <2>2 DEF Proc
<1> QED BY <1>1, <1>5, <1>6, <1>7, <1>8, <1>9, <1>10, Assemble

\* A long entry: its length is known, and the seek comes again.
LEMMA ReadHeadKeeps ==
  ASSUME TableInv, NEW p \in Proc, ReadHead(p), OneCall'
  PROVE  TableInv'
<1>1. /\ Frame /\ pos' = Behind /\ rpc' = [rpc EXCEPT ![p] = "seek"]
      /\ rpc[p] = "read" /\ total_len' = [total_len EXCEPT ![p] = TotalLen(data[pos])]
      /\ UNCHANGED <<result, iterVars>>
  BY DEF ReadHead, Goto, Frame
<1>2. /\ target' = target /\ left' = left /\ right' = right /\ block_idx' = block_idx
      /\ offset' = offset /\ end_offset' = end_offset
      /\ result' = result /\ valid' = valid /\ from' = from /\ seen' = seen
  BY DEF ReadHead, iterVars
<1>3. /\ TableTypeOK /\ LayoutInv /\ ReaderOK(p) /\ WalkInv /\ GetFindsEntry
      /\ WalkIsComplete
  BY DEF TableInv, ReaderOK
<1>4. /\ rpc'[p] = "seek" /\ total_len'[p] = TotalLen(data[offset[p]])
      /\ \A q \in Proc : q # p => rpc'[q] = rpc[q] /\ total_len'[q] = total_len[q]
  BY <1>1, <1>3, ReadFacts DEF TableTypeOK
<1>5. /\ offset[p] \in DOMAIN data /\ offset[p] < end_offset[p]
      /\ TotalLen(data[offset[p]]) \in Nat /\ TotalLen(data[pos]) \in Nat
  BY <1>1, <1>3, ReadFacts, DataFacts DEF ReaderOK, ScanInv
<1>6. TableTypeOK'
  <2>1. total_len' \in [Proc -> Nat]
    BY <1>1, <1>3, <1>5 DEF TableTypeOK
  <2> QED BY <1>1, <1>2, <1>3, <1>4, <2>1, TypeKept DEF TableTypeOK
<1>7. Same(Other(p)) /\ Other(p) \in Proc /\ Other(p) # p
  BY <1>2, <1>4, OtherIs DEF Same
<1>8. ReaderOK(Other(p))'
  BY <1>1, <1>7, OtherKept DEF Reading
<1>9. ReaderOK(p)'
  <2>1. data' = data /\ table' = table /\ Offsets' = Offsets
    BY <1>1 DEF Frame, writerVars, Offsets
  <2>2. TotalLen(data[offset[p]])' = TotalLen(data[offset[p]])
    BY <1>2, <2>1
  <2> QED BY <1>1, <1>2, <1>3, <1>4, <1>5, <2>1, <2>2
          DEF ReaderOK, ReaderInv, SearchInv, ScanInv
<1>10. WalkInv' /\ WalkIsComplete'
  <2>1. CASE p = "get"
    <3>1. Same("iter")
      BY <1>7, <2>1 DEF Other
    <3> QED BY <1>1, <1>3, <3>1, WalkKept
  <2>2. CASE p = "iter"
    <3>1. WalkInv'
      BY <1>1, <1>2, <1>3, <1>4, <2>2, WalkGoesOn
    <3> QED BY <1>4, <2>2, <3>1 DEF WalkIsComplete
  <2> QED BY <2>1, <2>2 DEF Proc
<1>11. GetFindsEntry'
  <2>1. CASE p = "get"
    BY <1>4, <2>1 DEF GetFindsEntry
  <2>2. CASE p = "iter"
    BY <1>1, <1>2, <1>3, <1>4, <2>2, GetKept DEF Proc
  <2> QED BY <2>1, <2>2 DEF Proc
<1> QED BY <1>1, <1>6, <1>7, <1>8, <1>9, <1>10, <1>11, Assemble

\* Keys, and what stands in their place, are numbers.
LEMMA TargetFacts ==
  ASSUME TableTypeOK
  PROVE  /\ \A p \in Proc : target[p] \in Nat
         /\ from \in Int /\ (from # NoWalk => from \in Nat)
<1>1. \A k \in Key : k \in Nat
  BY KeyAssumption
<1>2. target \in [Proc -> Key \cup {Lowest}] /\ from \in Key \cup {Lowest, NoWalk}
  BY DEF TableTypeOK
<1>3. \A p \in Proc : target[p] \in Key \/ target[p] = 0
  BY <1>2 DEF Lowest
<1>4. from \in Key \/ from = 0 \/ from = -1
  BY <1>2 DEF Lowest, NoWalk
<1>5. from \in Int /\ (from # -1 => from \in Nat)
  BY <1>1, <1>4
<1>6. \A p \in Proc : target[p] \in Nat
  BY <1>1, <1>3
<1> QED BY <1>5, <1>6 DEF NoWalk

\* A step of Get is all about Get, one of the iterator about the iterator.
LEMMA GetSteps ==
  ASSUME TableInv, Frame, OneCall', TableTypeOK', Same("iter"), UNCHANGED iterVars,
         Reading("get") \/ pos' = pos, ReaderOK("get")', GetFindsEntry'
  PROVE  TableInv'
<1>1. "get" \in Proc /\ "iter" \in Proc /\ Other("get") = "iter"
  BY DEF Proc, Other
<1>2. ReaderOK("iter") /\ WalkInv /\ WalkIsComplete
  BY <1>1 DEF TableInv, ReaderOK
<1>3. ReaderOK("iter")'
  <2>1. CASE Reading("get")
    BY <1>1, <2>1, OtherKept
  <2>2. CASE pos' = pos
    BY <1>1, <1>2, <2>2, ReaderKept
  <2> QED BY <2>1, <2>2
<1>4. WalkInv' /\ WalkIsComplete'
  BY <1>2, WalkKept
<1> QED BY <1>1, <1>3, <1>4, Assemble

\* The same for the iterator.
LEMMA IterSteps ==
  ASSUME TableInv, Frame, OneCall', TableTypeOK', Same("get"), result' = result,
         Reading("iter") \/ pos' = pos, ReaderOK("iter")', WalkInv', WalkIsComplete'
  PROVE  TableInv'
<1>1. "get" \in Proc /\ "iter" \in Proc /\ Other("iter") = "get"
  BY DEF Proc, Other
<1>2. ReaderOK("get") /\ GetFindsEntry
  BY <1>1 DEF TableInv, ReaderOK
<1>3. ReaderOK("get")'
  <2>1. CASE Reading("iter")
    BY <1>1, <2>1, OtherKept
  <2>2. CASE pos' = pos
    BY <1>1, <1>2, <2>2, ReaderKept
  <2> QED BY <2>1, <2>2
<1>4. GetFindsEntry'
  BY <1>2, GetKept DEF Same
<1> QED BY <1>1, <1>3, <1>4, Assemble

\* The part that every read of an entry has (sstable.cpp:242-289): the reader goes
\* on behind the entry.
LEMMA FileReadFacts ==
  ASSUME TableInv, NEW p \in Proc, FileRead(p)
  PROVE  /\ Frame /\ rpc[p] = "read" /\ pos' = Behind /\ from' = from
         /\ target' = target /\ left' = left /\ right' = right
         /\ block_idx' = block_idx /\ end_offset' = end_offset
         /\ offset' \in [Proc -> Nat] /\ total_len' \in [Proc -> Nat]
         /\ total_len'[p] = 0 /\ offset'[p] \in Offsets
         /\ \A n \in DOMAIN data : n < offset'[p] <=> n < offset[p] \/ n = offset[p]
         /\ \A q \in Proc : q # p => offset'[q] = offset[q] /\ total_len'[q] = total_len[q]
<1>1. /\ Frame /\ rpc[p] = "read" /\ pos' = Behind /\ from' = from
      /\ target' = target /\ left' = left /\ right' = right
      /\ block_idx' = block_idx /\ end_offset' = end_offset
      /\ total_len' = [total_len EXCEPT ![p] = 0]
      /\ EntryRead(p).status = "ok" => offset' = [offset EXCEPT ![p] = @ + TotalLen(data[pos])]
  BY DEF FileRead, Frame
<1>2. TableTypeOK /\ LayoutInv /\ offset \in [Proc -> Nat] /\ total_len \in [Proc -> Nat]
  BY DEF TableInv, TableTypeOK
<1>3. pos = offset[p] /\ offset[p] \in DOMAIN data /\ EntryRead(p).status = "ok"
  BY <1>1, ReadFacts
<1>4. offset' = [offset EXCEPT ![p] = offset[p] + TotalLen(data[offset[p]])]
  BY <1>1, <1>3
<1>5. /\ TotalLen(data[offset[p]]) \in Nat
      /\ offset[p] + TotalLen(data[offset[p]]) \in Offsets
      /\ \A n \in DOMAIN data :
           n < offset[p] + TotalLen(data[offset[p]]) <=> n < offset[p] \/ n = offset[p]
  BY <1>2, <1>3, DataFacts, NextOffset
<1>6. offset'[p] = offset[p] + TotalLen(data[offset[p]]) /\ offset' \in [Proc -> Nat]
  BY <1>2, <1>4, <1>5
<1>7. /\ total_len'[p] = 0 /\ total_len' \in [Proc -> Nat]
      /\ \A q \in Proc : q # p => offset'[q] = offset[q] /\ total_len'[q] = total_len[q]
  BY <1>1, <1>2, <1>4
<1> QED BY <1>1, <1>5, <1>6, <1>7

\* An entry below the target is passed; a walk that looks for its first key shows
\* nothing yet.
LEMMA ReadBelowKeeps ==
  ASSUME TableInv, NEW p \in Proc, ReadBelow(p), OneCall'
  PROVE  TableInv'
<1>1. /\ FileRead(p) /\ Below(p, EntryRead(p)) /\ rpc' = [rpc EXCEPT ![p] = "seek"]
      /\ result' = result /\ valid' = valid /\ seen' = seen
  BY DEF ReadBelow, Goto
<1>2. /\ Frame /\ rpc[p] = "read" /\ pos' = Behind /\ from' = from
      /\ target' = target /\ left' = left /\ right' = right
      /\ block_idx' = block_idx /\ end_offset' = end_offset
      /\ offset' \in [Proc -> Nat] /\ total_len' \in [Proc -> Nat]
      /\ total_len'[p] = 0 /\ offset'[p] \in Offsets
      /\ \A n \in DOMAIN data : n < offset'[p] <=> n < offset[p] \/ n = offset[p]
      /\ \A q \in Proc : q # p => offset'[q] = offset[q] /\ total_len'[q] = total_len[q]
  BY <1>1, FileReadFacts
<1>3. TableTypeOK /\ LayoutInv /\ ReaderOK(p) /\ WalkInv
  BY DEF TableInv, ReaderOK
<1>4. rpc'[p] = "seek" /\ \A q \in Proc : q # p => rpc'[q] = rpc[q]
  BY <1>1, <1>3 DEF TableTypeOK
<1>5. offset[p] \in DOMAIN data /\ data[offset[p]].key < target[p]
  BY <1>1, <1>2, ReadFacts DEF Below
<1>6. TableTypeOK'
  BY <1>1, <1>2, <1>3, <1>4, TypeKept DEF TableTypeOK
<1>7. data' = data /\ data_offset' = data_offset /\ table' = table /\ Offsets' = Offsets
  BY <1>2 DEF Frame, writerVars, Offsets
<1>8. ReaderOK(p)'
  <2>1. ReaderInv(p)' /\ SearchInv(p)'
    BY <1>2, <1>3, <1>4, <1>7 DEF ReaderOK, ReaderInv, SearchInv
  <2>2. ScanInv(p)'
    BY <1>2, <1>3, <1>4, <1>5, <1>7 DEF ReaderOK, ScanInv
  <2> QED BY <2>1, <2>2 DEF ReaderOK
<1>9. CASE p = "get"
  <2>1. Same("iter") /\ UNCHANGED iterVars
    BY <1>1, <1>2, <1>4, <1>9 DEF Same, iterVars, Proc
  <2>2. GetFindsEntry'
    BY <1>4, <1>9 DEF GetFindsEntry
  <2> QED BY <1>2, <1>6, <1>8, <1>9, <2>1, <2>2, GetSteps DEF Reading
<1>10. CASE p = "iter"
  <2>1. Same("get")
    BY <1>1, <1>2, <1>4, <1>10 DEF Same, Proc
  <2>2. target["iter"] = from
    <3>1. data[offset["iter"]].key \in Nat /\ data[offset["iter"]].key < target["iter"]
      BY <1>3, <1>5, <1>10, DataFacts
    <3>2. target["iter"] # Lowest
      BY <3>1 DEF Lowest
    <3> QED BY <1>2, <1>3, <1>10, <3>2 DEF WalkInv
  <2>3. Passed' = Passed
    <3>1. ~(data[offset["iter"]].key >= from)
      <4>1. data[offset["iter"]].key \in Nat /\ data[offset["iter"]].key < target["iter"]
        BY <1>3, <1>5, <1>10, DataFacts
      <4>2. target["iter"] \in Int
        BY <1>3, <1>10, TargetFacts
      <4> QED BY <2>2, <4>1, <4>2
    <3> QED BY <1>2, <1>7, <1>10, <3>1 DEF Passed
  <2>4. Shown' = Shown /\ {EntryAt(o) : o \in Passed}' = {EntryAt(o) : o \in Passed}
    BY <1>1, <1>7, <2>3 DEF Shown, EntryAt
  <2>5. WalkInv'
    BY <1>1, <1>2, <1>3, <1>4, <1>7, <1>10, <2>3, <2>4 DEF WalkInv
  <2>6. WalkIsComplete'
    BY <1>4, <1>10 DEF WalkIsComplete
  <2> QED BY <1>1, <1>2, <1>6, <1>8, <1>10, <2>1, <2>5, <2>6, IterSteps DEF Reading
<1> QED BY <1>9, <1>10 DEF Proc

\* Get returns the entry under its key, or it has passed the place of the key.
LEMMA GetReadsKeeps ==
  ASSUME TableInv, GetReads, OneCall'
  PROVE  TableInv'
<1> DEFINE e == EntryRead("get")
           o == offset["get"]
<1>0. "get" \in Proc /\ "iter" \in Proc
  BY DEF Proc
<1>1. /\ FileRead("get") /\ ~Below("get", e) /\ rpc' = [rpc EXCEPT !["get"] = "done"]
      /\ result' = IF e.status = "ok" /\ e.key > target["get"] THEN NotFound ELSE e
      /\ valid' = valid /\ seen' = seen
  BY DEF GetReads, Goto
<1>2. /\ Frame /\ rpc["get"] = "read" /\ pos' = Behind /\ from' = from
      /\ target' = target /\ left' = left /\ right' = right
      /\ block_idx' = block_idx /\ end_offset' = end_offset
      /\ offset' \in [Proc -> Nat] /\ total_len' \in [Proc -> Nat]
      /\ total_len'["get"] = 0
      /\ offset'["iter"] = offset["iter"] /\ total_len'["iter"] = total_len["iter"]
  BY <1>0, <1>1, FileReadFacts
<1>3. TableTypeOK /\ LayoutInv /\ ReaderOK("get")
  BY <1>0 DEF TableInv, ReaderOK
<1>4. rpc'["get"] = "done" /\ rpc'["iter"] = rpc["iter"]
  BY <1>0, <1>1, <1>3 DEF TableTypeOK
<1>5. /\ o \in DOMAIN data /\ e = EntryAt(o) /\ e.status = "ok" /\ e.key = data[o].key
      /\ e \in Entries /\ e \in Results
  BY <1>0, <1>2, ReadFacts
<1>6. /\ data[o].key \in Nat /\ target["get"] \in Nat
      /\ result' = IF data[o].key > target["get"] THEN NotFound ELSE e
      /\ ~(data[o].key < target["get"])
  BY <1>0, <1>1, <1>3, <1>5, DataFacts, TargetFacts DEF Below
<1>7. TableTypeOK'
  <2>1. result' \in Results
    BY <1>5, <1>6 DEF Results
  <2> QED BY <1>0, <1>1, <1>2, <1>3, <1>4, <2>1, TypeKept DEF TableTypeOK, Proc
<1>8. data' = data /\ table' = table
  BY <1>2 DEF Frame, writerVars
<1>9. ReaderOK("get")'
  BY <1>2, <1>3, <1>4, <1>8 DEF ReaderOK, ReaderInv, SearchInv, ScanInv
<1>10. GetFindsEntry'
  <2>1. Entries' = Entries /\ target'["get"] = target["get"]
    BY <1>2, <1>8 DEF Entries
  <2>2. ASSUME NEW f \in Entries, f.key = target["get"]
        PROVE  ~(data[o].key > target["get"]) /\ f = e
    <3>1. PICK n \in DOMAIN data : f = OK(data[n].key, data[n].val)
      BY DEF Entries
    <3>2. n \in Nat /\ data[n].key \in Nat /\ o \in Nat /\ data[n].key = target["get"]
      BY <1>3, <1>5, <2>2, <3>1, DataFacts DEF OK
    <3>3. ~(n < o)
      BY <1>2, <1>3, <1>6, <3>2 DEF ReaderOK, ScanInv
    <3>4. ~(o < n)
      BY <1>3, <1>5, <1>6, <3>2, OffsetOrder
    <3>5. n = o
      BY <3>2, <3>3, <3>4
    <3> QED BY <1>5, <1>6, <3>1, <3>2, <3>5 DEF EntryAt
  <2>3. CASE data[o].key > target["get"]
    BY <1>6, <2>1, <2>2, <2>3 DEF GetFindsEntry
  <2>4. CASE ~(data[o].key > target["get"])
    <3>1. e \in Entries /\ e.key = target["get"] /\ result' = e
      BY <1>5, <1>6, <2>4
    <3>2. (CHOOSE f \in Entries : f.key = target["get"]) = e
      BY <2>2, <3>1
    <3> QED BY <2>1, <3>1, <3>2 DEF GetFindsEntry
  <2> QED BY <2>3, <2>4
<1>11. Same("iter") /\ UNCHANGED iterVars
  BY <1>1, <1>2, <1>4 DEF Same, iterVars
<1> QED BY <1>2, <1>7, <1>9, <1>10, <1>11, GetSteps DEF Reading

\* The iterator shows the entry, the next one in the order of the keys.
LEMMA IterReadsKeeps ==
  ASSUME TableInv, IterReads, OneCall'
  PROVE  TableInv'
<1> DEFINE e == EntryRead("iter")
           o == offset["iter"]
<1>0. "get" \in Proc /\ "iter" \in Proc
  BY DEF Proc
<1>1. /\ FileRead("iter") /\ ~Below("iter", e) /\ rpc' = [rpc EXCEPT !["iter"] = "idle"]
      /\ valid' = (e.status = "ok")
      /\ seen' = IF e.status = "ok" THEN Append(seen, e) ELSE seen
      /\ result' = result
  BY DEF IterReads, Goto
<1>2. /\ Frame /\ rpc["iter"] = "read" /\ pos' = Behind /\ from' = from
      /\ target' = target /\ left' = left /\ right' = right
      /\ block_idx' = block_idx /\ end_offset' = end_offset
      /\ offset' \in [Proc -> Nat] /\ total_len' \in [Proc -> Nat]
      /\ total_len'["iter"] = 0 /\ offset'["iter"] \in Offsets
      /\ \A n \in DOMAIN data : n < offset'["iter"] <=> n < o \/ n = o
      /\ offset'["get"] = offset["get"] /\ total_len'["get"] = total_len["get"]
  BY <1>0, <1>1, FileReadFacts
<1>3. TableTypeOK /\ LayoutInv /\ ReaderOK("iter") /\ WalkInv
  BY <1>0 DEF TableInv, ReaderOK
<1>4. rpc'["iter"] = "idle" /\ rpc'["get"] = rpc["get"]
  BY <1>0, <1>1, <1>3 DEF TableTypeOK
<1>5. /\ o \in DOMAIN data /\ e = EntryAt(o) /\ e.status = "ok" /\ e.key = data[o].key
      /\ e \in Entries
  BY <1>0, <1>2, ReadFacts
<1>6. valid' = TRUE /\ seen' = Append(seen, e) /\ ~(data[o].key < target["iter"])
  BY <1>1, <1>5 DEF Below
<1>7. seen \in Seq(Entries) /\ seen' \in Seq(Entries)
  BY <1>3, <1>5, <1>6, AppendProperties DEF TableTypeOK
<1>8. TableTypeOK'
  BY <1>0, <1>1, <1>2, <1>3, <1>4, <1>6, <1>7, TypeKept DEF TableTypeOK, Proc
<1>9. data' = data /\ table' = table /\ data_offset' = data_offset /\ Offsets' = Offsets
  BY <1>2 DEF Frame, writerVars, Offsets
<1>10. ReaderOK("iter")'
  BY <1>2, <1>3, <1>4, <1>9 DEF ReaderOK, ReaderInv, SearchInv, ScanInv
<1>11. Same("get")
  BY <1>2, <1>4 DEF Same
<1>12. /\ data[o].key \in Nat /\ target["iter"] \in Nat /\ from \in Int /\ from # NoWalk
       /\ end_offset["iter"] = data_offset /\ Shown = {EntryAt(n) : n \in Passed}
       /\ target["iter"] = from \/ Passed # {}
  BY <1>0, <1>2, <1>3, <1>5, DataFacts, TargetFacts DEF WalkInv
<1>13. data[o].key >= from
  <2>1. CASE target["iter"] = from
    BY <1>6, <1>12, <2>1
  <2>2. CASE Passed # {}
    <3>1. PICK n \in DOMAIN data : n < o /\ data[n].key >= from
      BY <2>2 DEF Passed
    <3>2. data[n].key < data[o].key /\ data[n].key \in Nat
      BY <1>3, <1>5, <3>1, OffsetOrder, DataFacts
    <3> QED BY <1>12, <3>1, <3>2
  <2> QED BY <1>12, <2>1, <2>2
<1>14. Passed' = Passed \cup {o}
  BY <1>2, <1>5, <1>9, <1>13 DEF Passed
<1>15. /\ Len(seen) \in Nat /\ DOMAIN seen = 1 .. Len(seen)
       /\ DOMAIN seen' = 1 .. Len(seen) + 1 /\ seen'[Len(seen) + 1] = e
       /\ \A i \in 1 .. Len(seen) : seen'[i] = seen[i]
  BY <1>5, <1>6, <1>7, AppendProperties, LenProperties
<1>16. Shown' = {EntryAt(n) : n \in Passed}'
  <2>1. Shown' = Shown \cup {e}
    BY <1>15 DEF Shown
  <2>2. {EntryAt(n) : n \in Passed}' = {EntryAt(n) : n \in Passed \cup {o}}
    BY <1>9, <1>14 DEF EntryAt
  <2> QED BY <1>5, <1>12, <2>1, <2>2
<1>17. ASSUME NEW i \in DOMAIN seen', NEW j \in DOMAIN seen', i < j
       PROVE  seen'[i].key < seen'[j].key
  <2>1. CASE j \in 1 .. Len(seen)
    <3>1. i \in DOMAIN seen /\ j \in DOMAIN seen
      BY <1>15, <1>17, <2>1
    <3>2. seen[i].key < seen[j].key
      BY <1>3, <1>17, <3>1 DEF WalkInv
    <3> QED BY <1>15, <3>1, <3>2
  <2>2. CASE j = Len(seen) + 1
    <3>1. i \in DOMAIN seen
      BY <1>15, <1>17, <2>2
    <3>2. seen[i] \in {EntryAt(n) : n \in Passed}
      BY <1>12, <3>1 DEF Shown
    <3>3. PICK n \in Passed : seen[i] = EntryAt(n)
      BY <3>2
    <3>4. n \in DOMAIN data /\ n < o /\ seen[i].key = data[n].key
      BY <3>3 DEF Passed, EntryAt, OK
    <3>5. data[n].key < data[o].key
      BY <1>3, <1>5, <3>4, OffsetOrder
    <3> QED BY <1>5, <1>15, <2>2, <3>1, <3>4, <3>5
  <2> QED BY <1>15, <2>1, <2>2
<1>18. WalkInv'
  <2>1. from' # NoWalk /\ table' # None
    BY <1>2, <1>3, <1>9, <1>12 DEF WalkInv
  <2>2. offset'["iter"] \in Offsets' /\ end_offset'["iter"] = data_offset'
    BY <1>2, <1>9, <1>12
  <2>3. Passed' # {}
    BY <1>14
  <2> QED BY <1>4, <1>16, <1>17, <2>1, <2>2, <2>3 DEF WalkInv
<1>19. WalkIsComplete'
  BY <1>6 DEF WalkIsComplete
<1> QED BY <1>1, <1>2, <1>8, <1>10, <1>11, <1>18, <1>19, IterSteps DEF Reading

\* At the end of its block a Get knows that there is no entry, at the end of the
\* data a walk has shown all.
LEMMA ScanEndsKeeps ==
  ASSUME TableInv, NEW p \in Proc, ScanEnds(p), OneCall'
  PROVE  TableInv'
<1>0. "get" \in Proc /\ "iter" \in Proc
  BY DEF Proc
<1>1. /\ Frame /\ pos' = pos /\ rpc[p] = "seek" /\ offset[p] >= end_offset[p]
      /\ target' = target /\ left' = left /\ right' = right /\ block_idx' = block_idx
      /\ offset' = offset /\ end_offset' = end_offset /\ total_len' = total_len
      /\ from' = from /\ seen' = seen
  BY DEF ScanEnds, Frame, scanVars
<1>2. TableTypeOK /\ LayoutInv /\ ReaderOK(p) /\ WalkInv
  BY DEF TableInv, ReaderOK
<1>3. data' = data /\ table' = table /\ data_offset' = data_offset
  BY <1>1 DEF Frame, writerVars
<1>4. Entries' = Entries
  BY <1>3 DEF Entries
<1>5. offset[p] \in Nat /\ end_offset[p] \in Nat /\ total_len[p] = 0 /\ table # None
  BY <1>1, <1>2 DEF ReaderOK, ScanInv, ReaderInv, TableTypeOK
<1>6. CASE p = "get"
  <2>1. result' = NotFound /\ rpc' = [rpc EXCEPT !["get"] = "done"] /\ valid' = valid
    BY <1>6 DEF ScanEnds, Goto
  <2>2. rpc'["get"] = "done" /\ rpc'["iter"] = rpc["iter"]
    BY <1>0, <1>2, <2>1 DEF TableTypeOK
  <2>3. TableTypeOK'
    <3>1. result' \in Results
      BY <2>1 DEF Results
    <3> QED BY <1>0, <1>1, <1>2, <2>1, <2>2, <3>1, TypeKept DEF TableTypeOK, Proc
  <2>4. ReaderOK("get")'
    BY <1>1, <1>3, <1>5, <1>6, <2>2 DEF ReaderOK, ReaderInv, SearchInv, ScanInv
  <2>5. ASSUME NEW e \in Entries PROVE e.key # target["get"]
    <3>1. PICK n \in DOMAIN data : e = OK(data[n].key, data[n].val)
      BY DEF Entries
    <3>2. n \in Nat /\ data[n].key \in Nat /\ target["get"] \in Nat /\ e.key = data[n].key
      BY <1>0, <1>2, <3>1, DataFacts, TargetFacts DEF OK
    <3>3. n < offset["get"] \/ n >= end_offset["get"]
      BY <1>1, <1>5, <1>6, <3>2
    <3>4. data[n].key < target["get"] \/ data[n].key > target["get"]
      BY <1>1, <1>2, <1>6, <3>3 DEF ReaderOK, ScanInv
    <3> QED BY <3>2, <3>4
  <2>6. GetFindsEntry'
    BY <1>1, <1>4, <2>1, <2>5 DEF GetFindsEntry
  <2>7. Same("iter") /\ UNCHANGED iterVars
    BY <1>1, <2>1, <2>2 DEF Same, iterVars
  <2> QED BY <1>1, <2>3, <2>4, <2>6, <2>7, GetSteps
<1>7. CASE p = "iter"
  <2>1. result' = result /\ rpc' = [rpc EXCEPT !["iter"] = "idle"] /\ valid' = FALSE
    BY <1>7 DEF ScanEnds, Goto
  <2>2. rpc'["iter"] = "idle" /\ rpc'["get"] = rpc["get"]
    BY <1>0, <1>2, <2>1 DEF TableTypeOK
  <2>3. TableTypeOK'
    BY <1>0, <1>1, <1>2, <2>1, <2>2, TypeKept DEF TableTypeOK, Proc
  <2>4. ReaderOK("iter")'
    BY <1>1, <1>3, <1>5, <1>7, <2>2 DEF ReaderOK, ReaderInv, SearchInv, ScanInv
  <2>5. Same("get")
    BY <1>1, <2>2 DEF Same
  <2>6. /\ from # NoWalk /\ end_offset["iter"] = data_offset
        /\ Shown = {EntryAt(n) : n \in Passed}
        /\ \A i, j \in DOMAIN seen : i < j => seen[i].key < seen[j].key
    BY <1>1, <1>2, <1>7 DEF WalkInv
  <2>7. WalkInv'
    BY <1>1, <1>3, <1>5, <2>1, <2>2, <2>6 DEF WalkInv
  <2>8. Shown = {e \in Entries : e.key >= from}
    <3>1. ASSUME NEW n \in DOMAIN data PROVE n < offset["iter"]
      <4>1. n \in Nat /\ n < data_offset /\ data_offset \in Nat
        BY <1>2, DataFacts
      <4> QED BY <1>1, <1>5, <1>7, <2>6, <4>1
    <3>2. Passed = {n \in DOMAIN data : data[n].key >= from}
      BY <3>1 DEF Passed
    <3>3. \A n \in DOMAIN data : EntryAt(n).key = data[n].key
      BY DEF EntryAt, OK
    <3>4. Entries = {EntryAt(n) : n \in DOMAIN data}
      BY DEF Entries, EntryAt
    <3> QED BY <2>6, <3>2, <3>3, <3>4
  <2>9. ASSUME NEW i \in 2 .. Len(seen) PROVE seen[i - 1].key < seen[i].key
    <3>1. Len(seen) \in Nat /\ DOMAIN seen = 1 .. Len(seen)
      BY <1>2, LenProperties DEF TableTypeOK
    <3>2. i - 1 \in DOMAIN seen /\ i \in DOMAIN seen /\ i - 1 < i
      BY <3>1
    <3> QED BY <2>6, <3>2
  <2>10. WalkIsComplete'
    BY <1>1, <1>4, <2>8, <2>9 DEF WalkIsComplete, Shown
  <2> QED BY <1>1, <2>1, <2>3, <2>4, <2>5, <2>7, <2>10, IterSteps
<1> QED BY <1>6, <1>7 DEF Proc

-----------------------------------------------------------------------------
(* Calls. *)

\* The filter is made from finitely many keys.
LEMMA KeysAddedFinite ==
  ASSUME TableTypeOK
  PROVE  KeysAdded \in SUBSET Key /\ IsFiniteSet(KeysAdded)
<1>1. key_storage \in Seq(Key)
  BY DEF TableTypeOK
<1>2. Len(key_storage) \in Nat /\ DOMAIN key_storage = 1 .. Len(key_storage)
  BY <1>1, LenProperties
<1>3. KeysAdded \in SUBSET Key
  BY <1>1, <1>2, ElementOfSeq DEF KeysAdded
<1>4. IsFiniteSet(1 .. Len(key_storage))
  BY <1>2, FS_Interval
<1>5. KeysAdded = {key_storage[i] : i \in 1 .. Len(key_storage)}
  BY <1>2 DEF KeysAdded
<1>6. IsFiniteSet({key_storage[i] : i \in 1 .. Len(key_storage)})
  <2> DEFINE S == 1 .. Len(key_storage)
             T == {key_storage[i] : i \in S}
             f == [i \in S |-> key_storage[i]]
  <2>1. f \in Surjection(S, T)
    BY DEF Surjection
  <2> HIDE DEF S, T, f
  <2> QED BY <1>4, <2>1, FS_Surjection DEF S, T
<1> QED BY <1>3, <1>5, <1>6

\* When the filter or an empty index rules a key out, the table has no entry of it.
LEMMA RuledOut ==
  ASSUME TableInv, table # None, NEW key \in Key, RulesOut(key), NEW e \in Entries
  PROVE  e.key # key
<1>1. TableTypeOK /\ LayoutInv /\ FileInv
  BY DEF TableInv
<1>2. PICK o \in DOMAIN data : e = OK(data[o].key, data[o].val)
  BY DEF Entries
<1>3. e.key = data[o].key /\ e.key \in KeysAdded
  BY <1>1, <1>2 DEF OK, LayoutInv
<1>4. CASE ~MayContain(table.bloom, key)
  <2>1. table.bloom = CreateFilter(KeysAdded)
    BY <1>1 DEF FileInv
  <2> QED BY <1>1, <1>3, <1>4, <2>1, KeysAddedFinite, NoFalseNegatives
<1>5. CASE table.index = << >>
  <2>1. o \in Nat /\ o < data_offset /\ data_offset \in Nat
    BY <1>1, DataFacts
  <2> QED BY <1>1, <1>5, <2>1 DEF FileInv
<1> QED BY <1>4, <1>5 DEF RulesOut

\* The first round of the binary search.
LEMMA BeginSearchFacts ==
  ASSUME TableTypeOK, FileInv, Frame, table # None, table.index # << >>,
         NEW p \in Proc, NEW key \in Key, BeginSearch(p, key), ReaderInv(p), rpc[p] = "idle"
  PROVE  /\ rpc'[p] = "search" /\ target'[p] = key
         /\ offset' = offset /\ end_offset' = end_offset /\ total_len' = total_len
         /\ \A q \in Proc : q # p => Same(q)
         /\ rpc' \in [Proc -> {"idle", "search", "seek", "read", "done"}]
         /\ target' \in [Proc -> Key \cup {Lowest}]
         /\ left' \in [Proc -> Int] /\ right' \in [Proc -> Int] /\ block_idx' \in [Proc -> Int]
         /\ left'[p] \in 0 .. Len(table.index) /\ right'[p] \in -1 .. Len(table.index) - 1
         /\ block_idx'[p] \in 0 .. Len(table.index) - 1
         /\ ReaderOK(p)'
<1>1. /\ target' = [target EXCEPT ![p] = key] /\ left' = [left EXCEPT ![p] = 0]
      /\ right' = [right EXCEPT ![p] = Len(table.index) - 1]
      /\ block_idx' = [block_idx EXCEPT ![p] = 0] /\ rpc' = [rpc EXCEPT ![p] = "search"]
      /\ offset' = offset /\ end_offset' = end_offset /\ total_len' = total_len
  BY DEF BeginSearch, Goto
<1>2. Len(table.index) \in Nat /\ Len(table.index) > 0
  BY EmptySeq, LenProperties DEF FileInv
<1>3. /\ rpc'[p] = "search" /\ target'[p] = key /\ left'[p] = 0
      /\ right'[p] = Len(table.index) - 1 /\ block_idx'[p] = 0
      /\ \A q \in Proc : q # p => Same(q)
  BY <1>1 DEF TableTypeOK, Same
<1>4. /\ rpc' \in [Proc -> {"idle", "search", "seek", "read", "done"}]
      /\ target' \in [Proc -> Key \cup {Lowest}]
      /\ left' \in [Proc -> Int] /\ right' \in [Proc -> Int] /\ block_idx' \in [Proc -> Int]
  BY <1>1, <1>2 DEF TableTypeOK
<1>5. table' = table
  BY DEF Frame
<1>6. ReaderOK(p)'
  <2>1. ReaderInv(p)'
    BY <1>1, <1>3, <1>5 DEF ReaderInv
  <2>2. ScanInv(p)'
    BY <1>3 DEF ScanInv
  <2>3. /\ left'[p] <= right'[p] + 1
        /\ block_idx'[p] = IF left'[p] = 0 THEN 0 ELSE left'[p] - 1
        /\ 0 .. left'[p] - 1 = {} /\ right'[p] + 1 .. Len(table'.index) - 1 = {}
    BY <1>2, <1>3, <1>5
  <2>4. SearchInv(p)'
    BY <1>5, <2>3 DEF SearchInv
  <2> QED BY <2>1, <2>2, <2>4 DEF ReaderOK
<1> QED BY <1>1, <1>2, <1>3, <1>4, <1>6

\* A Get that the filter does not answer begins its search.
LEMMA GetKeeps ==
  ASSUME TableInv, NEW key \in Key, Get(key), OneCall'
  PROVE  TableInv'
<1>0. "get" \in Proc /\ "iter" \in Proc
  BY DEF Proc
<1>1. /\ Frame /\ pos' = pos /\ valid' = valid /\ from' = from /\ seen' = seen
      /\ UNCHANGED iterVars /\ table # None /\ rpc["get"] = "idle"
  BY DEF Get, Frame, iterVars
<1>2. TableTypeOK /\ LayoutInv /\ FileInv /\ ReaderInv("get")
  BY <1>0 DEF TableInv
<1>3. data' = data /\ table' = table /\ Entries' = Entries
  BY <1>1 DEF Frame, writerVars, Entries
<1>4. CASE ~RulesOut(key)
  <2>1. BeginSearch("get", key) /\ result' = result /\ table.index # << >>
    BY <1>4 DEF Get, RulesOut
  <2>2. /\ rpc'["get"] = "search" /\ target'["get"] = key
        /\ offset' = offset /\ end_offset' = end_offset /\ total_len' = total_len
        /\ Same("iter")
        /\ rpc' \in [Proc -> {"idle", "search", "seek", "read", "done"}]
        /\ target' \in [Proc -> Key \cup {Lowest}]
        /\ left' \in [Proc -> Int] /\ right' \in [Proc -> Int] /\ block_idx' \in [Proc -> Int]
        /\ left'["get"] \in 0 .. Len(table.index) /\ right'["get"] \in -1 .. Len(table.index) - 1
        /\ block_idx'["get"] \in 0 .. Len(table.index) - 1
        /\ ReaderOK("get")'
    BY <1>0, <1>1, <1>2, <2>1, BeginSearchFacts
  <2>3. TableTypeOK'
    BY <1>0, <1>1, <1>2, <2>1, <2>2, TypeKept DEF TableTypeOK, Proc, Same
  <2>4. GetFindsEntry'
    BY <2>2 DEF GetFindsEntry
  <2> QED BY <1>1, <2>2, <2>3, <2>4, GetSteps
<1>5. CASE RulesOut(key)
  <2>1. /\ target' = [target EXCEPT !["get"] = key] /\ result' = NotFound
        /\ rpc' = [rpc EXCEPT !["get"] = "done"] /\ left' = left /\ right' = right
        /\ block_idx' = block_idx /\ offset' = offset /\ end_offset' = end_offset
        /\ total_len' = total_len
    BY <1>5 DEF Get, Goto
  <2>2. /\ rpc'["get"] = "done" /\ target'["get"] = key /\ Same("iter")
        /\ rpc' \in [Proc -> {"idle", "search", "seek", "read", "done"}]
        /\ target' \in [Proc -> Key \cup {Lowest}] /\ rpc'["iter"] = rpc["iter"]
    BY <1>0, <1>2, <2>1 DEF TableTypeOK, Same
  <2>3. TableTypeOK'
    <3>1. result' \in Results
      BY <2>1 DEF Results
    <3> QED BY <1>0, <1>1, <1>2, <2>1, <2>2, <3>1, TypeKept DEF TableTypeOK, Proc
  <2>4. ReaderOK("get")'
    BY <1>1, <1>2, <1>3, <2>1, <2>2 DEF ReaderOK, ReaderInv, SearchInv, ScanInv
  <2>5. GetFindsEntry'
    BY <1>1, <1>3, <1>5, <2>1, <2>2, RuledOut DEF GetFindsEntry
  <2> QED BY <1>1, <2>2, <2>3, <2>4, <2>5, GetSteps
<1> QED BY <1>4, <1>5

\* The locals of a call that is over.
LEMMA ResetTypes ==
  ASSUME TableTypeOK, NEW p \in Proc, Reset(p)
  PROVE  /\ target' \in [Proc -> Key \cup {Lowest}]
         /\ left' \in [Proc -> Int] /\ right' \in [Proc -> Int] /\ block_idx' \in [Proc -> Int]
         /\ offset' \in [Proc -> Nat] /\ end_offset' \in [Proc -> Nat]
<1>1. target \in [Proc -> Key \cup {Lowest}] /\ target' = [target EXCEPT ![p] = Lowest]
  BY DEF TableTypeOK, Reset
<1>2. /\ left \in [Proc -> Int] /\ left' = [left EXCEPT ![p] = 0]
      /\ right \in [Proc -> Int] /\ right' = [right EXCEPT ![p] = 0]
      /\ block_idx \in [Proc -> Int] /\ block_idx' = [block_idx EXCEPT ![p] = 0]
  BY DEF TableTypeOK, Reset
<1>3. /\ offset \in [Proc -> Nat] /\ offset' = [offset EXCEPT ![p] = 0]
      /\ end_offset \in [Proc -> Nat] /\ end_offset' = [end_offset EXCEPT ![p] = 0]
  BY DEF TableTypeOK, Reset
<1>4. target' \in [Proc -> Key \cup {Lowest}]
  BY <1>1
<1>5. left' \in [Proc -> Int] /\ right' \in [Proc -> Int] /\ block_idx' \in [Proc -> Int]
  BY <1>2
<1>6. offset' \in [Proc -> Nat] /\ end_offset' \in [Proc -> Nat]
  BY <1>3
<1> QED BY <1>4, <1>5, <1>6

\* A Get has returned.
LEMMA GetOverKeeps ==
  ASSUME TableInv, GetOver, OneCall'
  PROVE  TableInv'
<1>0. "get" \in Proc /\ "iter" \in Proc
  BY DEF Proc
<1>1. /\ Frame /\ pos' = pos /\ valid' = valid /\ from' = from /\ seen' = seen
      /\ UNCHANGED iterVars /\ rpc["get"] = "done" /\ result' = None
      /\ rpc' = [rpc EXCEPT !["get"] = "idle"]
      /\ target' = [target EXCEPT !["get"] = Lowest]
      /\ left' = [left EXCEPT !["get"] = 0] /\ right' = [right EXCEPT !["get"] = 0]
      /\ block_idx' = [block_idx EXCEPT !["get"] = 0]
      /\ offset' = [offset EXCEPT !["get"] = 0]
      /\ end_offset' = [end_offset EXCEPT !["get"] = 0] /\ total_len' = total_len
  BY DEF GetOver, Frame, iterVars, Reset, Goto
<1>2. TableTypeOK /\ ReaderInv("get")
  BY <1>0 DEF TableInv
<1>3. rpc'["get"] = "idle" /\ total_len'["get"] = 0 /\ Same("iter")
  BY <1>0, <1>1, <1>2 DEF TableTypeOK, Same, ReaderInv
<1>4. TableTypeOK'
  <2>1. result' \in Results
    BY <1>1 DEF Results
  <2>2. rpc' \in [Proc -> {"idle", "search", "seek", "read", "done"}]
    <3>1. rpc' = [rpc EXCEPT !["get"] = "idle"]
      BY <1>1
    <3> QED BY <1>2, <3>1 DEF TableTypeOK
  <2>3. /\ target' \in [Proc -> Key \cup {Lowest}]
        /\ left' \in [Proc -> Int] /\ right' \in [Proc -> Int] /\ block_idx' \in [Proc -> Int]
        /\ offset' \in [Proc -> Nat] /\ end_offset' \in [Proc -> Nat]
    BY <1>0, <1>2, ResetTypes DEF GetOver
  <2>4. \A q \in Proc : rpc'[q] = "search" =>
          /\ rpc[q] = "search" /\ left'[q] = left[q] /\ right'[q] = right[q]
          /\ block_idx'[q] = block_idx[q]
    BY <1>3 DEF Proc, Same
  <2>5. /\ Frame /\ pos' = pos /\ total_len' = total_len /\ valid' = valid
        /\ from' = from /\ seen' = seen
    BY <1>1
  <2>6. /\ pos' \in Nat \cup {Behind} /\ total_len' \in [Proc -> Nat]
        /\ valid' \in BOOLEAN /\ from' \in Key \cup {Lowest, NoWalk} /\ seen' \in Seq(Entries)
    BY <1>2, <2>5 DEF TableTypeOK
  <2> QED BY <1>2, <2>1, <2>2, <2>3, <2>4, <2>5, <2>6, TypeKept
<1>5. ReaderOK("get")' /\ GetFindsEntry'
  BY <1>3 DEF ReaderOK, ReaderInv, SearchInv, ScanInv, GetFindsEntry
<1> QED BY <1>1, <1>3, <1>4, <1>5, GetSteps

\* A walk from the begin of the data.
LEMMA SeekToFirstKeeps ==
  ASSUME TableInv, SeekToFirst, OneCall'
  PROVE  TableInv'
<1>0. "get" \in Proc /\ "iter" \in Proc
  BY DEF Proc
<1>1. /\ Frame /\ pos' = pos /\ valid' = valid /\ from = NoWalk /\ from' = Lowest
      /\ seen' = seen /\ rpc["iter"] = "idle" /\ table # None /\ result' = result
      /\ rpc' = [rpc EXCEPT !["iter"] = "seek"]
      /\ end_offset' = [end_offset EXCEPT !["iter"] = table.data_end_offset]
      /\ target' = target /\ left' = left /\ right' = right /\ block_idx' = block_idx
      /\ offset' = offset /\ total_len' = total_len
  BY DEF SeekToFirst, Frame, Goto
<1>2. TableTypeOK /\ LayoutInv /\ FileInv /\ ReaderInv("iter") /\ WalkInv
  BY <1>0 DEF TableInv
<1>3. data' = data /\ table' = table /\ data_offset' = data_offset /\ Offsets' = Offsets
  BY <1>1 DEF Frame, writerVars, Offsets
<1>4. table.data_end_offset = data_offset /\ data_offset \in Nat
  BY <1>1, <1>2 DEF FileInv, TableTypeOK
<1>5. /\ rpc'["iter"] = "seek" /\ end_offset'["iter"] = data_offset /\ Same("get")
      /\ rpc'["get"] = rpc["get"] /\ end_offset' \in [Proc -> Nat]
  BY <1>0, <1>1, <1>2, <1>4 DEF TableTypeOK, Same
<1>6. /\ offset'["iter"] = 0 /\ target'["iter"] = Lowest /\ total_len'["iter"] = 0
      /\ seen' = << >> /\ ~valid
  BY <1>1, <1>2 DEF WalkInv, ReaderInv
<1>7. TableTypeOK'
  BY <1>0, <1>1, <1>2, <1>5, TypeKept DEF TableTypeOK, Proc
<1>8. ReaderOK("iter")'
  <2>1. 0 \in Offsets /\ data_offset \in Offsets
    BY <1>2 DEF LayoutInv, Offsets
  <2> QED BY <1>1, <1>3, <1>5, <1>6, <2>1 DEF ReaderOK, ReaderInv, SearchInv, ScanInv
<1>9. Passed' = {}
  <2>1. \A n \in DOMAIN data : ~(n < 0)
    BY <1>2, DataFacts
  <2> QED BY <1>3, <1>6, <2>1 DEF Passed
<1>10. Shown' = {EntryAt(o) : o \in Passed}'
  BY <1>6, <1>9 DEF Shown
<1>11. WalkInv'
  <2>1. from' # NoWalk /\ target'["iter"] = from'
    BY <1>1, <1>6 DEF Lowest, NoWalk
  <2>2. offset'["iter"] \in Offsets' /\ end_offset'["iter"] = data_offset'
    BY <1>2, <1>3, <1>5, <1>6 DEF LayoutInv
  <2> QED BY <1>1, <1>3, <1>5, <1>6, <1>10, <2>1, <2>2 DEF WalkInv
<1>12. WalkIsComplete'
  BY <1>5 DEF WalkIsComplete
<1> QED BY <1>1, <1>5, <1>7, <1>8, <1>11, <1>12, IterSteps

\* A walk from a key on begins with a search.
LEMMA SeekKeeps ==
  ASSUME TableInv, NEW key \in Key, Seek(key), OneCall'
  PROVE  TableInv'
<1>0. "get" \in Proc /\ "iter" \in Proc
  BY DEF Proc
<1>1. /\ Frame /\ pos' = pos /\ valid' = valid /\ from = NoWalk /\ from' = key
      /\ seen' = seen /\ rpc["iter"] = "idle" /\ table # None /\ table.index # << >>
      /\ result' = result /\ BeginSearch("iter", key)
  BY DEF Seek, Frame
<1>2. TableTypeOK /\ LayoutInv /\ FileInv /\ ReaderInv("iter") /\ WalkInv
  BY <1>0 DEF TableInv
<1>3. data' = data /\ table' = table /\ data_offset' = data_offset /\ Offsets' = Offsets
  BY <1>1 DEF Frame, writerVars, Offsets
<1>4. /\ rpc'["iter"] = "search" /\ target'["iter"] = key
      /\ offset' = offset /\ end_offset' = end_offset /\ total_len' = total_len
      /\ Same("get")
      /\ rpc' \in [Proc -> {"idle", "search", "seek", "read", "done"}]
      /\ target' \in [Proc -> Key \cup {Lowest}]
      /\ left' \in [Proc -> Int] /\ right' \in [Proc -> Int] /\ block_idx' \in [Proc -> Int]
      /\ left'["iter"] \in 0 .. Len(table.index) /\ right'["iter"] \in -1 .. Len(table.index) - 1
      /\ block_idx'["iter"] \in 0 .. Len(table.index) - 1
      /\ ReaderOK("iter")'
  BY <1>0, <1>1, <1>2, BeginSearchFacts
<1>5. TableTypeOK'
  BY <1>0, <1>1, <1>2, <1>4, TypeKept DEF TableTypeOK, Proc, Same
<1>6. WalkInv'
  <2>1. from' # NoWalk
    BY <1>1, KeyAssumption DEF NoWalk
  <2>2. seen' = << >> /\ valid' = FALSE
    BY <1>1, <1>2 DEF WalkInv, TableTypeOK
  <2> QED BY <1>1, <1>3, <1>4, <2>1, <2>2 DEF WalkInv
<1>7. WalkIsComplete'
  BY <1>4 DEF WalkIsComplete
<1> QED BY <1>1, <1>4, <1>5, <1>6, <1>7, IterSteps

\* The walk goes on behind the last entry it has shown.
LEMMA IterNextKeeps ==
  ASSUME TableInv, IterNext, OneCall'
  PROVE  TableInv'
<1>0. "get" \in Proc /\ "iter" \in Proc
  BY DEF Proc
<1>1. /\ Frame /\ pos' = pos /\ valid /\ valid' = valid /\ from' = from
      /\ seen' = seen /\ rpc["iter"] = "idle" /\ result' = result
      /\ rpc' = [rpc EXCEPT !["iter"] = "seek"]
      /\ target' = [target EXCEPT !["iter"] = Lowest]
      /\ left' = left /\ right' = right /\ block_idx' = block_idx
      /\ offset' = offset /\ end_offset' = end_offset /\ total_len' = total_len
  BY DEF IterNext, Frame, Goto, iterVars
<1>2. TableTypeOK /\ LayoutInv /\ FileInv /\ ReaderInv("iter") /\ WalkInv
  BY <1>0 DEF TableInv
<1>3. data' = data /\ table' = table /\ data_offset' = data_offset /\ Offsets' = Offsets
  BY <1>1 DEF Frame, writerVars, Offsets
<1>4. /\ rpc'["iter"] = "seek" /\ target'["iter"] = Lowest /\ Same("get")
      /\ rpc'["get"] = rpc["get"] /\ target' \in [Proc -> Key \cup {Lowest}]
  BY <1>0, <1>1, <1>2 DEF TableTypeOK, Same
<1>5. /\ from # NoWalk /\ table # None /\ offset["iter"] \in Offsets
      /\ end_offset["iter"] = data_offset /\ Passed # {} /\ total_len["iter"] = 0
  BY <1>1, <1>2 DEF WalkInv, ReaderInv
<1>6. TableTypeOK'
  BY <1>0, <1>1, <1>2, <1>4, TypeKept DEF TableTypeOK, Proc
<1>7. ReaderOK("iter")'
  <2>1. data_offset \in Offsets
    BY DEF Offsets
  <2> QED BY <1>1, <1>3, <1>4, <1>5, <2>1 DEF ReaderOK, ReaderInv, SearchInv, ScanInv
<1>8. /\ Shown' = Shown /\ Passed' = Passed
      /\ {EntryAt(o) : o \in Passed}' = {EntryAt(o) : o \in Passed}
  BY <1>1, <1>3 DEF Shown, Passed, EntryAt
<1>9. WalkInv'
  BY <1>1, <1>2, <1>3, <1>4, <1>5, <1>8 DEF WalkInv
<1>10. WalkIsComplete'
  BY <1>4 DEF WalkIsComplete
<1> QED BY <1>1, <1>4, <1>6, <1>7, <1>9, <1>10, IterSteps

\* The iterator is destroyed.
LEMMA IterOverKeeps ==
  ASSUME TableInv, IterOver, OneCall'
  PROVE  TableInv'
<1>0. "get" \in Proc /\ "iter" \in Proc
  BY DEF Proc
<1>1. /\ Frame /\ pos' = pos /\ valid' = FALSE /\ from' = NoWalk /\ seen' = << >>
      /\ rpc["iter"] = "idle" /\ rpc' = rpc /\ result' = result
      /\ target' = [target EXCEPT !["iter"] = Lowest]
      /\ left' = [left EXCEPT !["iter"] = 0] /\ right' = [right EXCEPT !["iter"] = 0]
      /\ block_idx' = [block_idx EXCEPT !["iter"] = 0]
      /\ offset' = [offset EXCEPT !["iter"] = 0]
      /\ end_offset' = [end_offset EXCEPT !["iter"] = 0] /\ total_len' = total_len
  BY DEF IterOver, Frame, Reset
<1>2. TableTypeOK /\ ReaderInv("iter")
  BY <1>0 DEF TableInv
<1>3. /\ rpc'["iter"] = "idle" /\ total_len'["iter"] = 0 /\ Same("get")
      /\ offset'["iter"] = 0 /\ target'["iter"] = Lowest
  BY <1>0, <1>1, <1>2 DEF TableTypeOK, Same, ReaderInv
<1>4. TableTypeOK'
  <2>1. /\ target' \in [Proc -> Key \cup {Lowest}]
        /\ left' \in [Proc -> Int] /\ right' \in [Proc -> Int] /\ block_idx' \in [Proc -> Int]
        /\ offset' \in [Proc -> Nat] /\ end_offset' \in [Proc -> Nat]
    BY <1>0, <1>2, ResetTypes DEF IterOver
  <2>2. \A q \in Proc : rpc'[q] = "search" =>
          /\ rpc[q] = "search" /\ left'[q] = left[q] /\ right'[q] = right[q]
          /\ block_idx'[q] = block_idx[q]
    BY <1>3 DEF Proc, Same
  <2>3. /\ Frame /\ pos' = pos /\ rpc' = rpc /\ total_len' = total_len
        /\ result' = result /\ valid' = FALSE /\ from' = NoWalk /\ seen' = << >>
    BY <1>1
  <2>4. /\ pos' \in Nat \cup {Behind} /\ total_len' \in [Proc -> Nat]
        /\ rpc' \in [Proc -> {"idle", "search", "seek", "read", "done"}]
        /\ result' \in Results /\ valid' \in BOOLEAN
        /\ from' \in Key \cup {Lowest, NoWalk} /\ seen' \in Seq(Entries)
    BY <1>2, <2>3, EmptySeq DEF TableTypeOK
  <2> QED BY <1>2, <2>1, <2>2, <2>3, <2>4, TypeKept
<1>5. ReaderOK("iter")' /\ WalkInv' /\ WalkIsComplete'
  BY <1>1, <1>3 DEF ReaderOK, ReaderInv, SearchInv, ScanInv, WalkInv, WalkIsComplete
<1> QED BY <1>1, <1>3, <1>4, <1>5, IterSteps

-----------------------------------------------------------------------------
(* The rounds of the binary search. *)

\* The middle is between the ends.
LEMMA MidFacts ==
  ASSUME NEW l \in Int, NEW r \in Int, l <= r
  PROVE  LET mid == l + (r - l) \div 2
         IN  mid \in Int /\ l <= mid /\ mid <= r
<1> DEFINE h == (r - l) \div 2
<1>1. h \in Int /\ 0 <= h /\ h <= r - l
  OBVIOUS
<1> HIDE DEF h
<1>2. l + h \in Int /\ l <= l + h /\ l + h <= r
  BY <1>1
<1> QED BY <1>2 DEF h

\* The search has found the block: the scan of it begins.
LEMMA ScanBegins ==
  ASSUME TableInv, OneCall', NEW p \in Proc, rpc[p] = "search",
         NEW b \in 0 .. Len(table.index) - 1,
         b = 0 \/ Block(b).key <= target[p],
         b + 1 < Len(table.index) => Block(b + 1).key > target[p],
         Frame, pos' = pos, target' = target, total_len' = total_len, result' = result,
         UNCHANGED iterVars, left' = left, right' = right,
         block_idx' = [block_idx EXCEPT ![p] = b],
         offset' = [offset EXCEPT ![p] = Block(b).data_offset],
         end_offset' = [end_offset EXCEPT ![p] = EndOfScan(p, b)],
         rpc' = [rpc EXCEPT ![p] = "seek"]
  PROVE  TableInv'
<1>1. TableTypeOK /\ LayoutInv /\ FileInv /\ ReaderOK(p) /\ WalkInv
  BY DEF TableInv, ReaderOK
<1>2. table # None /\ table.index # << >> /\ target[p] \in Nat /\ total_len[p] = 0
  BY <1>1, TargetFacts DEF ReaderOK, ReaderInv, SearchInv
<1>3. /\ Block(b).data_offset \in Offsets
      /\ \A o \in DOMAIN data : o < Block(b).data_offset => data[o].key < target[p]
      /\ EndOfScan(p, b) \in Offsets
      /\ p = "iter" => EndOfScan(p, b) = data_offset
      /\ p = "get" => \A o \in DOMAIN data : o >= EndOfScan(p, b) => data[o].key > target[p]
  BY <1>1, <1>2, BlockOfTarget
<1>4. Block(b).data_offset \in Nat /\ EndOfScan(p, b) \in Nat
  BY <1>1, <1>3, OffsetFacts
<1>5. /\ rpc'[p] = "seek" /\ offset'[p] = Block(b).data_offset
      /\ end_offset'[p] = EndOfScan(p, b)
      /\ \A q \in Proc : q # p => Same(q)
  BY <1>1 DEF TableTypeOK, Same
<1>6. valid' = valid /\ from' = from /\ seen' = seen
  BY DEF iterVars
<1>7. TableTypeOK'
  <2>1. /\ rpc' \in [Proc -> {"idle", "search", "seek", "read", "done"}]
        /\ offset' \in [Proc -> Nat] /\ end_offset' \in [Proc -> Nat]
    BY <1>1, <1>4 DEF TableTypeOK
  <2>2. block_idx' \in [Proc -> Int]
    BY <1>1 DEF TableTypeOK
  <2>3. \A q \in Proc : rpc'[q] = "search" => q # p /\ Same(q)
    BY <1>5
  <2> QED BY <1>1, <1>6, <2>1, <2>2, <2>3, TypeKept DEF TableTypeOK, Same
<1>8. data' = data /\ table' = table /\ data_offset' = data_offset /\ Offsets' = Offsets
  BY DEF Frame, writerVars, Offsets
<1>9. ReaderOK(p)'
  <2>1. ReaderInv(p)' /\ SearchInv(p)'
    BY <1>2, <1>5, <1>8 DEF ReaderInv, SearchInv
  <2>2. ScanInv(p)'
    BY <1>2, <1>3, <1>5, <1>8 DEF ScanInv
  <2> QED BY <2>1, <2>2 DEF ReaderOK
<1>10. CASE p = "get"
  <2>1. Same("iter")
    BY <1>5, <1>10 DEF Proc
  <2>2. GetFindsEntry'
    BY <1>5, <1>10 DEF GetFindsEntry
  <2> QED BY <1>9, <1>7, <1>10, <2>1, <2>2, GetSteps
<1>11. CASE p = "iter"
  <2>1. Same("get")
    BY <1>5, <1>11 DEF Proc
  <2>2. seen = << >> /\ target["iter"] = from /\ from # NoWalk /\ from \in Int
    BY <1>1, <1>11, TargetFacts DEF WalkInv
  <2>3. Passed' = {}
    <3>1. ASSUME NEW o \in DOMAIN data, o < offset'["iter"] PROVE ~(data[o].key >= from)
      <4>1. data[o].key < from /\ data[o].key \in Nat
        BY <1>1, <1>3, <1>5, <1>11, <2>2, <3>1, DataFacts
      <4> QED BY <2>2, <4>1
    <3> QED BY <1>6, <1>8, <3>1 DEF Passed
  <2>4. Shown' = {EntryAt(o) : o \in Passed}'
    BY <1>6, <2>2, <2>3 DEF Shown
  <2>5. WalkInv'
    <3>1. from' # NoWalk /\ table' # None /\ target'["iter"] = from' /\ seen' = << >>
      BY <1>2, <1>6, <1>8, <2>2
    <3>2. offset'["iter"] \in Offsets' /\ end_offset'["iter"] = data_offset'
      BY <1>3, <1>5, <1>8, <1>11
    <3> QED BY <1>5, <1>11, <2>4, <3>1, <3>2 DEF WalkInv
  <2>6. WalkIsComplete'
    BY <1>5, <1>11 DEF WalkIsComplete
  <2> QED BY <1>7, <1>9, <1>11, <2>1, <2>5, <2>6, IterSteps
<1> QED BY <1>10, <1>11 DEF Proc

\* Another round.
LEMMA SearchGoesOn ==
  ASSUME TableInv, OneCall', NEW p \in Proc, rpc[p] = "search",
         Frame, pos' = pos, target' = target, total_len' = total_len, result' = result,
         UNCHANGED iterVars, rpc' = rpc, offset' = offset, end_offset' = end_offset,
         \A q \in Proc : q # p =>
           left'[q] = left[q] /\ right'[q] = right[q] /\ block_idx'[q] = block_idx[q],
         left' \in [Proc -> Int], right' \in [Proc -> Int], block_idx' \in [Proc -> Int],
         left'[p] \in 0 .. Len(table.index), right'[p] \in -1 .. Len(table.index) - 1,
         block_idx'[p] \in 0 .. Len(table.index) - 1, SearchInv(p)'
  PROVE  TableInv'
<1>1. TableTypeOK /\ ReaderOK(p) /\ WalkInv
  BY DEF TableInv, ReaderOK
<1>2. valid' = valid /\ from' = from /\ seen' = seen /\ table' = table
  BY DEF iterVars, Frame
<1>3. \A q \in Proc : q # p => Same(q)
  BY DEF Same
<1>4. TableTypeOK'
  <2>1. \A q \in Proc : q = p \/ (left'[q] = left[q] /\ right'[q] = right[q]
                                  /\ block_idx'[q] = block_idx[q])
    OBVIOUS
  <2> QED BY <1>1, <1>2, <2>1, TypeKept DEF TableTypeOK
<1>5. ReaderOK(p)'
  BY <1>1, <1>2 DEF ReaderOK, ReaderInv, ScanInv
<1>6. CASE p = "get"
  <2>1. Same("iter") /\ GetFindsEntry'
    BY <1>3, <1>6 DEF Proc, GetFindsEntry
  <2> QED BY <1>4, <1>5, <1>6, <2>1, GetSteps
<1>7. CASE p = "iter"
  <2>1. Same("get") /\ WalkIsComplete'
    BY <1>3, <1>7 DEF Proc, WalkIsComplete
  <2>2. WalkInv'
    BY <1>1, WalkGoesOn
  <2> QED BY <1>4, <1>5, <1>7, <2>1, <2>2, IterSteps
<1> QED BY <1>6, <1>7 DEF Proc

\* One round of the search: it halves what is between the keys below the target and
\* those above it, or has the block.
LEMMA SearchKeeps ==
  ASSUME TableInv, NEW p \in Proc, Search(p), OneCall'
  PROVE  TableInv'
<1> DEFINE mid == left[p] + (right[p] - left[p]) \div 2
           size == Len(table.index)
           StartScan(b) == /\ offset' = [offset EXCEPT ![p] = Block(b).data_offset]
                           /\ end_offset' = [end_offset EXCEPT ![p] = EndOfScan(p, b)]
                           /\ rpc' = [rpc EXCEPT ![p] = "seek"]
<1>1. /\ Frame /\ pos' = pos /\ target' = target /\ total_len' = total_len
      /\ result' = result /\ UNCHANGED iterVars /\ rpc[p] = "search"
  BY DEF Search, Frame
<1>2. TableTypeOK /\ LayoutInv /\ FileInv /\ ReaderInv(p) /\ SearchInv(p)
  BY DEF TableInv
<1>3. /\ left[p] \in 0 .. size /\ right[p] \in -1 .. size - 1 /\ block_idx[p] \in 0 .. size - 1
      /\ left \in [Proc -> Int] /\ right \in [Proc -> Int] /\ block_idx \in [Proc -> Int]
      /\ target[p] \in Nat
  BY <1>1, <1>2, TargetFacts DEF TableTypeOK
<1>4. /\ table # None /\ table.index # << >>
      /\ left[p] <= right[p] + 1
      /\ block_idx[p] = IF left[p] = 0 THEN 0 ELSE left[p] - 1
      /\ \A i \in 0 .. left[p] - 1 : Block(i).key < target[p]
      /\ \A i \in right[p] + 1 .. size - 1 : Block(i).key > target[p]
  BY <1>1, <1>2 DEF ReaderInv, SearchInv
<1>5. /\ size \in Nat /\ size > 0
      /\ \A i \in 0 .. size - 1 : Block(i).key \in Nat
      /\ \A i, j \in 0 .. size - 1 : i < j => Block(i).key < Block(j).key
  BY <1>2, <1>4, BlockFacts
<1>6. left[p] <= right[p] => mid \in 0 .. size - 1 /\ left[p] <= mid /\ mid <= right[p]
  <2>1. left[p] \in Int /\ right[p] \in Int
    BY <1>3, <1>5
  <2>2. left[p] <= right[p] => mid \in Int /\ left[p] <= mid /\ mid <= right[p]
    BY <2>1, MidFacts
  <2> HIDE DEF mid, size
  <2> QED BY <1>3, <1>5, <2>2
<1>7. \/ /\ left[p] > right[p] /\ StartScan(block_idx[p])
         /\ left' = left /\ right' = right /\ block_idx' = block_idx
      \/ /\ left[p] <= right[p] /\ Block(mid).key = target[p] /\ StartScan(mid)
         /\ left' = left /\ right' = right
         /\ block_idx' = [block_idx EXCEPT ![p] = mid]
      \/ /\ left[p] <= right[p] /\ Block(mid).key < target[p]
         /\ block_idx' = [block_idx EXCEPT ![p] = mid]
         /\ left' = [left EXCEPT ![p] = mid + 1] /\ right' = right
         /\ rpc' = rpc /\ offset' = offset /\ end_offset' = end_offset
      \/ /\ left[p] <= right[p] /\ Block(mid).key > target[p]
         /\ right' = [right EXCEPT ![p] = mid - 1]
         /\ left' = left /\ block_idx' = block_idx
         /\ rpc' = rpc /\ offset' = offset /\ end_offset' = end_offset
  BY DEF Search, Goto, AfterMid
<1>8. table' = table
  BY <1>1 DEF Frame
<1> HIDE DEF mid, size
<1>9. CASE /\ left[p] > right[p] /\ StartScan(block_idx[p])
           /\ left' = left /\ right' = right /\ block_idx' = block_idx
  <2> DEFINE b == block_idx[p]
  <2>1. b = 0 \/ Block(b).key <= target[p]
    <3>1. b # 0 => b \in 0 .. left[p] - 1 /\ b \in 0 .. size - 1
      BY <1>3, <1>4
    <3>2. b # 0 => Block(b).key < target[p] /\ Block(b).key \in Nat
      BY <1>4, <1>5, <3>1
    <3> QED BY <1>3, <3>2
  <2>2. b + 1 < size => Block(b + 1).key > target[p]
    <3>1. b + 1 < size => b + 1 \in right[p] + 1 .. size - 1
      BY <1>3, <1>4, <1>5, <1>9
    <3> QED BY <1>4, <3>1
  <2>3. block_idx' = [block_idx EXCEPT ![p] = b]
    BY <1>3, <1>9
  <2> QED BY <1>1, <1>3, <1>9, <2>1, <2>2, <2>3, ScanBegins DEF size
<1>10. CASE /\ left[p] <= right[p] /\ Block(mid).key = target[p] /\ StartScan(mid)
            /\ left' = left /\ right' = right
            /\ block_idx' = [block_idx EXCEPT ![p] = mid]
  <2>1. Block(mid).key <= target[p]
    BY <1>3, <1>10
  <2>2. mid + 1 < size => Block(mid + 1).key > target[p]
    <3>1. mid + 1 < size => mid + 1 \in 0 .. size - 1 /\ mid < mid + 1
      BY <1>5, <1>6, <1>10
    <3> QED BY <1>3, <1>5, <1>6, <1>10, <3>1
  <2> QED BY <1>1, <1>6, <1>10, <2>1, <2>2, ScanBegins DEF size
<1>11. CASE /\ left[p] <= right[p] /\ Block(mid).key < target[p]
            /\ block_idx' = [block_idx EXCEPT ![p] = mid]
            /\ left' = [left EXCEPT ![p] = mid + 1] /\ right' = right
            /\ rpc' = rpc /\ offset' = offset /\ end_offset' = end_offset
  <2>1. /\ left'[p] = mid + 1 /\ right'[p] = right[p] /\ block_idx'[p] = mid
        /\ left' \in [Proc -> Int] /\ right' \in [Proc -> Int] /\ block_idx' \in [Proc -> Int]
        /\ \A q \in Proc : q # p =>
             left'[q] = left[q] /\ right'[q] = right[q] /\ block_idx'[q] = block_idx[q]
    BY <1>3, <1>6, <1>11
  <2>2. /\ left'[p] \in 0 .. size /\ right'[p] \in -1 .. size - 1
        /\ block_idx'[p] \in 0 .. size - 1 /\ left'[p] <= right'[p] + 1
        /\ block_idx'[p] = IF left'[p] = 0 THEN 0 ELSE left'[p] - 1
    BY <1>3, <1>5, <1>6, <1>11, <2>1
  <2>3. ASSUME NEW i \in 0 .. left'[p] - 1 PROVE Block(i).key < target[p]
    <3>1. i \in 0 .. size - 1 /\ (i < mid \/ i = mid)
      BY <1>5, <1>6, <1>11, <2>1
    <3>2. i < mid => Block(i).key < Block(mid).key
      BY <1>5, <1>6, <1>11, <3>1
    <3>3. Block(i).key \in Nat /\ Block(mid).key \in Nat
      BY <1>5, <1>6, <1>11, <3>1
    <3> QED BY <1>3, <1>11, <3>1, <3>2, <3>3
  <2>4. SearchInv(p)'
    <3>1. \A i : Block(i)' = Block(i)
      BY <1>8 DEF Block
    <3> QED BY <1>1, <1>4, <1>8, <2>1, <2>2, <2>3, <3>1 DEF SearchInv, size
  <2> QED BY <1>1, <1>11, <2>1, <2>2, <2>4, SearchGoesOn DEF size
<1>12. CASE /\ left[p] <= right[p] /\ Block(mid).key > target[p]
            /\ right' = [right EXCEPT ![p] = mid - 1]
            /\ left' = left /\ block_idx' = block_idx
            /\ rpc' = rpc /\ offset' = offset /\ end_offset' = end_offset
  <2>1. /\ left'[p] = left[p] /\ right'[p] = mid - 1 /\ block_idx'[p] = block_idx[p]
        /\ left' \in [Proc -> Int] /\ right' \in [Proc -> Int] /\ block_idx' \in [Proc -> Int]
        /\ \A q \in Proc : q # p =>
             left'[q] = left[q] /\ right'[q] = right[q] /\ block_idx'[q] = block_idx[q]
    BY <1>3, <1>6, <1>12
  <2>2. /\ left'[p] \in 0 .. size /\ right'[p] \in -1 .. size - 1
        /\ block_idx'[p] \in 0 .. size - 1 /\ left'[p] <= right'[p] + 1
    BY <1>3, <1>5, <1>6, <1>12, <2>1
  <2>3. ASSUME NEW i \in right'[p] + 1 .. size - 1 PROVE Block(i).key > target[p]
    <3>1. i \in 0 .. size - 1 /\ (mid < i \/ i = mid)
      BY <1>5, <1>6, <1>12, <2>1
    <3>2. mid < i => Block(mid).key < Block(i).key
      BY <1>5, <1>6, <1>12, <3>1
    <3>3. Block(i).key \in Nat /\ Block(mid).key \in Nat
      BY <1>5, <1>6, <1>12, <3>1
    <3> QED BY <1>3, <1>12, <3>1, <3>2, <3>3
  <2>4. SearchInv(p)'
    <3>1. \A i : Block(i)' = Block(i)
      BY <1>8 DEF Block
    <3> QED BY <1>1, <1>4, <1>8, <2>1, <2>2, <2>3, <3>1 DEF SearchInv, size
  <2> QED BY <1>1, <1>12, <2>1, <2>2, <2>4, SearchGoesOn DEF size
<1> QED BY <1>7, <1>9, <1>10, <1>11, <1>12

-----------------------------------------------------------------------------
(* The writer, and Open. *)

\* Before Open there are no readers.
LEMMA NoReaders ==
  ASSUME TableInv, table = None
  PROVE  /\ \A p \in Proc : rpc[p] = "idle" /\ total_len[p] = 0
         /\ from = NoWalk /\ valid = FALSE /\ seen = << >>
         /\ offset["iter"] = 0 /\ target["iter"] = Lowest
<1>1. \A p \in Proc : ReaderInv(p)
  BY DEF TableInv
<1>2. \A p \in Proc : rpc[p] = "idle" /\ total_len[p] = 0
  BY <1>1 DEF ReaderInv
<1>3. from = NoWalk
  BY DEF TableInv, WalkInv
<1> QED BY <1>2, <1>3 DEF TableInv, WalkInv, TableTypeOK

\* A step of the writer, or of Open, is all about the file.
LEMMA WriterSteps ==
  ASSUME TableInv, table = None, UNCHANGED readVars,
         DOMAIN data' \subseteq Nat, data_offset' \in Nat,
         entries_since_last_index' \in 0 .. Interval, key_storage' \in Seq(Key),
         LayoutInv', IndexInv', FileInv'
  PROVE  TableInv'
<1>1. /\ pos' = pos /\ rpc' = rpc /\ target' = target /\ left' = left /\ right' = right
      /\ block_idx' = block_idx /\ offset' = offset /\ end_offset' = end_offset
      /\ total_len' = total_len /\ result' = result
      /\ valid' = valid /\ from' = from /\ seen' = seen
  BY DEF readVars, scanVars, iterVars
<1>2. /\ \A p \in Proc : rpc'[p] = "idle" /\ total_len'[p] = 0
      /\ from' = NoWalk /\ valid' = FALSE /\ seen' = << >>
      /\ offset'["iter"] = 0 /\ target'["iter"] = Lowest
  BY <1>1, NoReaders
<1>3. rpc'["iter"] = "idle" /\ rpc'["get"] = "idle"
  BY <1>2 DEF Proc
<1>4. TableTypeOK'
  <2>1. seen' \in Seq(Entries')
    BY <1>2, EmptySeq
  <2>2. TableTypeOK /\ Results' = Results
    BY DEF TableInv, Results
  <2> QED BY <1>1, <1>2, <2>1, <2>2 DEF TableTypeOK
<1>5. OneCall'
  BY <1>3 DEF OneCall, Reading
<1>6. \A p \in Proc : ReaderInv(p)' /\ SearchInv(p)' /\ ScanInv(p)'
  BY <1>2 DEF ReaderInv, SearchInv, ScanInv
<1>7. WalkInv'
  BY <1>2, <1>3 DEF WalkInv
<1>8. GetFindsEntry' /\ WalkIsComplete'
  BY <1>2, <1>3 DEF GetFindsEntry, WalkIsComplete
<1> QED BY <1>4, <1>5, <1>6, <1>7, <1>8 DEF TableInv

\* Finish writes index, filter and footer as they are.
LEMMA FinishKeeps ==
  ASSUME TableInv, Finish
  PROVE  TableInv'
<1>1. /\ data' = data /\ data_offset' = data_offset /\ sparse_index' = sparse_index
      /\ entries_since_last_index' = entries_since_last_index
      /\ key_storage' = key_storage /\ table' = table /\ file = None /\ UNCHANGED readVars
      /\ file' = [status |-> "finished", index |-> sparse_index,
                  bloom |-> CreateFilter(KeysAdded),
                  sparse_index_offset |-> EncodeFixed64(data_offset)]
  BY DEF Finish, writerVars
<1>2. TableTypeOK /\ LayoutInv /\ IndexInv /\ FileInv
  BY DEF TableInv
<1>3. KeysAdded' = KeysAdded /\ Offsets' = Offsets
  BY <1>1 DEF KeysAdded, Offsets
<1>4. LayoutInv'
  BY <1>1, <1>2, <1>3 DEF LayoutInv, SizeFits, EndOfEntry
<1>5. IndexInv'
  BY <1>1, <1>2 DEF IndexInv, Written
<1>6. table = None
  BY <1>1, <1>2 DEF FileInv
<1>7. FileInv'
  BY <1>1, <1>3, <1>6 DEF FileInv
<1> QED BY <1>1, <1>2, <1>4, <1>5, <1>6, <1>7, WriterSteps DEF TableTypeOK

\* The first entry is at offset 0.
LEMMA FirstEntry ==
  ASSUME TableTypeOK, LayoutInv
  PROVE  /\ key_storage = << >> => DOMAIN data = {} /\ data_offset = 0
         /\ key_storage # << >> => 0 \in DOMAIN data
<1>1. key_storage \in Seq(Key) /\ data_offset \in Nat
  BY DEF TableTypeOK
<1>2. 0 \in DOMAIN data \/ data_offset = 0
  BY DEF LayoutInv, Offsets
<1>3. KeysAdded = {data[o].key : o \in DOMAIN data}
  BY DEF LayoutInv
<1>4. CASE key_storage = << >>
  <2>1. KeysAdded = {}
    BY <1>4 DEF KeysAdded
  <2>2. DOMAIN data = {}
    BY <1>3, <2>1
  <2> QED BY <1>2, <1>4, <2>2
<1>5. CASE key_storage # << >>
  <2>1. Len(key_storage) \in Nat \ {0} /\ DOMAIN key_storage = 1 .. Len(key_storage)
    BY <1>1, <1>5, EmptySeq, LenProperties
  <2>2. 1 \in DOMAIN key_storage
    BY <2>1
  <2>3. KeysAdded # {}
    BY <2>2 DEF KeysAdded
  <2>4. PICK o \in DOMAIN data : TRUE
    BY <1>3, <2>3
  <2>5. o \in Nat /\ o < data_offset
    BY DataFacts
  <2> QED BY <1>1, <1>2, <1>5, <2>5
<1> QED BY <1>4, <1>5

\* What Add has written behind the entries that were there.
LEMMA AddFacts ==
  ASSUME TableInv, NEW key \in Key, NEW val \in Version[key], AddSorted(key, val)
  PROVE  /\ DOMAIN data' = DOMAIN data \cup {data_offset}
         /\ \A o \in DOMAIN data : data'[o] = data[o] /\ o < data_offset
         /\ data'[data_offset] = Encode(key, val)
         /\ data'[data_offset].key = key
         /\ data_offset' = data_offset + EncodedSize(key)
         /\ EncodedSize(key) \in Nat /\ EncodedSize(key) > 0
         /\ data_offset \in Nat /\ data_offset' \in Nat
         /\ key_storage' \in Seq(Key) /\ key_storage' # << >>
         /\ KeysAdded' = KeysAdded \cup {key}
         /\ \A o \in DOMAIN data : data[o].key < key
<1>1. /\ data' = [o \in DOMAIN data \cup {data_offset} |->
                    IF o = data_offset THEN Encode(key, val) ELSE data[o]]
      /\ data_offset' = data_offset + EncodedSize(key)
      /\ key_storage' = Append(key_storage, key)
      /\ \A k \in KeysAdded : k < key
  BY DEF AddSorted, Add
<1>2. TableTypeOK /\ LayoutInv /\ data_offset \in Nat /\ key_storage \in Seq(Key)
  BY DEF TableInv, TableTypeOK
<1>3. EncodedSize(key) \in Nat /\ EncodedSize(key) > 0 /\ Encode(key, val).key = key
  BY EncodeFacts
<1>4. ASSUME NEW o \in DOMAIN data
      PROVE  data'[o] = data[o] /\ o < data_offset /\ data[o].key < key
  <2>1. o \in Nat /\ o < data_offset
    BY <1>2, DataFacts
  <2>2. data[o].key \in KeysAdded
    BY <1>2 DEF LayoutInv
  <2> QED BY <1>1, <1>2, <2>1, <2>2
<1>5. /\ key_storage' \in Seq(Key) /\ key_storage' # << >>
      /\ Len(key_storage) \in Nat /\ DOMAIN key_storage = 1 .. Len(key_storage)
      /\ Len(key_storage') = Len(key_storage) + 1
      /\ \A i \in 1 .. Len(key_storage) : key_storage'[i] = key_storage[i]
      /\ key_storage'[Len(key_storage) + 1] = key
  BY <1>1, <1>2, AppendProperties, LenProperties
<1>6. DOMAIN key_storage' = 1 .. Len(key_storage) + 1
  BY <1>5, LenProperties
<1>7. KeysAdded' = KeysAdded \cup {key}
  BY <1>5, <1>6 DEF KeysAdded
<1>8. data_offset' \in Nat
  BY <1>1, <1>2, <1>3
<1> QED BY <1>1, <1>2, <1>3, <1>4, <1>5, <1>7, <1>8

\* The new entry begins where the last one ends, and its key is above all others.
LEMMA AddKeepsLayout ==
  ASSUME TableInv, NEW key \in Key, NEW val \in Version[key], AddSorted(key, val), SizeFits'
  PROVE  LayoutInv'
<1>1. /\ DOMAIN data' = DOMAIN data \cup {data_offset}
      /\ \A o \in DOMAIN data : data'[o] = data[o] /\ o < data_offset
      /\ data'[data_offset] = Encode(key, val)
      /\ data'[data_offset].key = key
      /\ data_offset' = data_offset + EncodedSize(key)
      /\ EncodedSize(key) \in Nat /\ EncodedSize(key) > 0
      /\ data_offset \in Nat /\ data_offset' \in Nat
      /\ KeysAdded' = KeysAdded \cup {key}
      /\ \A o \in DOMAIN data : data[o].key < key
  BY AddFacts
<1>2. TableTypeOK /\ LayoutInv
  BY DEF TableInv
<1>3. Offsets' = DOMAIN data \cup {data_offset, data_offset'} /\ 0 \in Offsets'
  BY <1>1, <1>2 DEF Offsets, LayoutInv
<1>4. \A o \in DOMAIN data : EndOfEntry(o) \in Offsets
  BY <1>2 DEF LayoutInv
<1>5. KeysAdded' = {data'[o].key : o \in DOMAIN data'}
  BY <1>1, <1>2 DEF LayoutInv
<1>6. ASSUME NEW o \in DOMAIN data'
      PROVE  /\ \E k \in Key : \E v \in Version[k] : data'[o] = Encode(k, v)
             /\ o < data_offset' /\ o + EncodedSize(data'[o].key) \in Offsets'
             /\ \A n \in DOMAIN data' :
                  o < n => data'[o].key < data'[n].key /\ o + EncodedSize(data'[o].key) <= n
  <2>1. CASE o = data_offset
    <3>1. \A n \in DOMAIN data' : ~(o < n)
      <4>1. \A n \in DOMAIN data : n \in Nat /\ n < data_offset
        BY <1>2, DataFacts
      <4> QED BY <1>1, <2>1, <4>1
    <3> QED BY <1>1, <1>3, <2>1, <3>1
  <2>2. CASE o \in DOMAIN data
    <3>1. \E k \in Key : \E v \in Version[k] : data'[o] = Encode(k, v)
      BY <1>1, <1>2, <2>2 DEF LayoutInv
    <3>2. o \in Nat /\ o < data_offset
      BY <1>2, <2>2, DataFacts
    <3>3. /\ o + EncodedSize(data'[o].key) = EndOfEntry(o)
          /\ EndOfEntry(o) \in Offsets /\ EndOfEntry(o) <= data_offset
      BY <1>1, <1>2, <1>4, <2>2, OffsetFacts DEF EndOfEntry
    <3>4. ASSUME NEW n \in DOMAIN data', o < n
          PROVE  data'[o].key < data'[n].key /\ EndOfEntry(o) <= n
      <4>1. CASE n = data_offset
        BY <1>1, <2>2, <3>3, <4>1
      <4>2. CASE n \in DOMAIN data
        BY <1>1, <1>2, <2>2, <3>4, <4>2 DEF LayoutInv
      <4> QED BY <1>1, <4>1, <4>2
    <3>5. EndOfEntry(o) \in Offsets' /\ o < data_offset'
      BY <1>1, <1>3, <3>2, <3>3 DEF Offsets
    <3> QED BY <3>1, <3>3, <3>4, <3>5
  <2> QED BY <1>1, <2>1, <2>2
<1> QED BY <1>3, <1>5, <1>6 DEF LayoutInv, EndOfEntry

\* The index gets the first entry of every block, and so the very first one.
LEMMA AddKeepsIndex ==
  ASSUME TableInv, NEW key \in Key, NEW val \in Version[key], AddSorted(key, val)
  PROVE  IndexInv'
<1> DEFINE W == {Written(o) : o \in DOMAIN data}
           V == {Written(o)' : o \in DOMAIN data'}
           new == [klen |-> EncodeVarint32(KeyLen[key]), key |-> key,
                   data_offset |-> EncodeFixed64(data_offset)]
<1>1. /\ DOMAIN data' = DOMAIN data \cup {data_offset}
      /\ \A o \in DOMAIN data : data'[o] = data[o] /\ o < data_offset
      /\ data'[data_offset].key = key
      /\ \A o \in DOMAIN data : data[o].key < key
  BY AddFacts
<1>2. TableTypeOK /\ LayoutInv /\ IndexInv
  BY DEF TableInv
<1>3. sparse_index' = IF NeedsIndex THEN Append(sparse_index, new) ELSE sparse_index
  BY DEF AddSorted, Add
<1>4. ASSUME NEW o \in DOMAIN data' PROVE Written(o)' = IF o = data_offset THEN new ELSE Written(o)
  BY <1>1 DEF Written
<1>5. W \subseteq V /\ new \in V
  <2>1. ASSUME NEW o \in DOMAIN data PROVE Written(o) \in V
    <3>1. o \in DOMAIN data' /\ o # data_offset
      BY <1>1, <1>2, DataFacts
    <3>2. Written(o)' = Written(o)
      BY <1>4, <3>1
    <3> QED BY <3>1, <3>2
  <2>2. new \in V
    BY <1>1, <1>4
  <2> QED BY <2>1, <2>2
<1>6. sparse_index \in Seq(W) /\ sparse_index \in Seq(V) /\ InOrder(sparse_index)
  <2>1. sparse_index \in Seq(W) /\ InOrder(sparse_index)
    BY <1>2 DEF IndexInv
  <2> HIDE DEF W, V
  <2> QED BY <1>5, <2>1
<1>7. sparse_index' \in Seq(V)
  <2> HIDE DEF W, V, new
  <2> QED BY <1>3, <1>5, <1>6, AppendProperties
<1>8. /\ Len(sparse_index) \in Nat /\ DOMAIN sparse_index = 1 .. Len(sparse_index)
      /\ \A i \in 1 .. Len(sparse_index) : sparse_index[i] \in W
  <2> HIDE DEF W
  <2> QED BY <1>6, LenProperties
<1>9. ASSUME NEW i \in 1 .. Len(sparse_index) PROVE sparse_index[i].key < key
  <2>1. PICK o \in DOMAIN data : sparse_index[i] = Written(o)
    BY <1>8
  <2>2. sparse_index[i].key = data[o].key
    BY <2>1 DEF Written
  <2> QED BY <1>1, <2>2
<1>10. new.key = key
  OBVIOUS
<1> HIDE DEF W, V, new
<1>11. NeedsIndex =>
         /\ DOMAIN sparse_index' = 1 .. Len(sparse_index) + 1
         /\ \A i \in 1 .. Len(sparse_index) : sparse_index'[i] = sparse_index[i]
         /\ sparse_index'[Len(sparse_index) + 1] = new
         /\ sparse_index' # << >>
  BY <1>3, <1>5, <1>6, <1>7, <1>8, AppendProperties, LenProperties
<1>12. InOrder(sparse_index')
  <2>1. CASE ~NeedsIndex
    BY <1>3, <1>6, <2>1
  <2>2. CASE NeedsIndex
    <3>1. ASSUME NEW i \in DOMAIN sparse_index', NEW j \in DOMAIN sparse_index', i < j
          PROVE  sparse_index'[i].key < sparse_index'[j].key
      <4>1. i \in 1 .. Len(sparse_index) /\ (j \in 1 .. Len(sparse_index) \/ j = Len(sparse_index) + 1)
        BY <1>8, <1>11, <2>2, <3>1
      <4>2. sparse_index'[i] = sparse_index[i]
        BY <1>11, <2>2, <4>1
      <4>3. CASE j \in 1 .. Len(sparse_index)
        <5>1. sparse_index'[j] = sparse_index[j] /\ sparse_index[i].key < sparse_index[j].key
          BY <1>6, <1>8, <1>11, <2>2, <3>1, <4>1, <4>3 DEF InOrder
        <5> QED BY <4>2, <5>1
      <4>4. CASE j = Len(sparse_index) + 1
        BY <1>9, <1>10, <1>11, <2>2, <4>1, <4>2, <4>4
      <4> QED BY <4>1, <4>3, <4>4
    <3> QED BY <3>1 DEF InOrder
  <2> QED BY <2>1, <2>2
<1>13. sparse_index' # << >> /\ sparse_index'[1] = Written(0)'
  <2>1. CASE key_storage = << >>
    <3>1. NeedsIndex /\ data_offset = 0 /\ DOMAIN data = {}
      BY <1>2, <2>1, FirstEntry DEF NeedsIndex
    <3>2. Written(0)' = new
      BY <1>1, <1>4, <3>1
    <3>3. Len(sparse_index) = 0
      <4>1. W = {}
        BY <3>1 DEF W
      <4>2. 1 \notin 1 .. Len(sparse_index)
        BY <1>8, <4>1
      <4> QED BY <1>8, <4>2
    <3> QED BY <1>11, <3>1, <3>2, <3>3
  <2>2. CASE key_storage # << >>
    <3>1. 0 \in DOMAIN data
      BY <1>2, <2>2, FirstEntry
    <3>2. sparse_index # << >> /\ sparse_index[1] = Written(0)
      BY <1>2, <2>2 DEF IndexInv
    <3>3. Written(0)' = Written(0)
      BY <1>1, <1>4, <3>1
    <3>4. 1 \in 1 .. Len(sparse_index)
      BY <1>6, <1>8, <3>2, EmptySeq
    <3> QED BY <1>3, <1>11, <3>2, <3>3, <3>4
  <2> QED BY <2>1, <2>2
<1> QED BY <1>7, <1>12, <1>13 DEF IndexInv, V, InOrder

\* Add, with keys in ascending order.
LEMMA AddSortedKeeps ==
  ASSUME TableInv, NEW key \in Key, NEW val \in Version[key], AddSorted(key, val), SizeFits'
  PROVE  TableInv'
<1>1. /\ file = None /\ file' = file /\ table' = table /\ UNCHANGED readVars
      /\ entries_since_last_index' = IF NeedsIndex THEN 1 ELSE entries_since_last_index + 1
  BY DEF AddSorted, Add
<1>2. TableTypeOK /\ LayoutInv /\ FileInv
  BY DEF TableInv
<1>3. table = None
  BY <1>1, <1>2 DEF FileInv
<1>4. FileInv'
  BY <1>1, <1>3 DEF FileInv
<1>5. entries_since_last_index' \in 0 .. Interval
  BY <1>1, <1>2, IntervalAssumption DEF TableTypeOK, NeedsIndex
<1>6. DOMAIN data' \subseteq Nat /\ data_offset' \in Nat /\ key_storage' \in Seq(Key)
  BY <1>2, AddFacts DEF TableTypeOK
<1>7. LayoutInv' /\ IndexInv'
  BY AddKeepsLayout, AddKeepsIndex
<1> QED BY <1>1, <1>3, <1>4, <1>5, <1>6, <1>7, WriterSteps

\* What fits below a number of 64 bits fits into 64 bits.
LEMMA SmallerFits ==
  ASSUME NEW m \in Nat, NEW n, IsUint64(n), m <= n
  PROVE  IsUint64(m)
<1> DEFINE D(a) == a \div 65536
<1>1. \A a \in Nat : D(a) \in Nat
  OBVIOUS
<1>2. \A a, b \in Nat : a <= b => D(a) <= D(b)
  OBVIOUS
<1>3. n \in Nat /\ D(D(n)) \in Nat /\ D(D(D(n))) < 65536
  BY DEF IsUint64, IsUint32
<1>4. \A a : IsUint64(a) <=> a \in Nat /\ D(D(a)) \in Nat /\ D(D(D(a))) < 65536
  BY DEF IsUint64, IsUint32
<1> HIDE DEF D
<1>5. D(m) \in Nat /\ D(n) \in Nat /\ D(m) <= D(n)
  BY <1>1, <1>2, <1>3
<1>6. D(D(m)) \in Nat /\ D(D(m)) <= D(D(n))
  BY <1>1, <1>2, <1>3, <1>5
<1>7. D(D(D(m))) \in Nat /\ D(D(D(n))) \in Nat /\ D(D(D(m))) <= D(D(D(n)))
  BY <1>1, <1>2, <1>3, <1>6
<1> QED BY <1>3, <1>4, <1>6, <1>7

\* Open decodes the offsets that were written.
LEMMA OpenKeeps ==
  ASSUME TableInv, Open
  PROVE  TableInv'
<1> DEFINE index == [i \in DOMAIN sparse_index |->
                       [key |-> sparse_index[i].key,
                        data_offset |-> DecodeFixed64(sparse_index[i].data_offset)]]
           W == {Written(o) : o \in DOMAIN data}
           L == {Loaded(o) : o \in DOMAIN data}
<1>1. /\ data' = data /\ data_offset' = data_offset /\ sparse_index' = sparse_index
      /\ entries_since_last_index' = entries_since_last_index
      /\ key_storage' = key_storage /\ file' = file /\ UNCHANGED readVars
      /\ file # None /\ table = None
  BY DEF Open, writerVars
<1>2. TableTypeOK /\ LayoutInv /\ IndexInv /\ FileInv
  BY DEF TableInv
<1>3. /\ file.index = sparse_index /\ file.bloom = CreateFilter(KeysAdded)
      /\ file.sparse_index_offset = EncodeFixed64(data_offset)
  <2>1. file = [status |-> "finished", index |-> sparse_index,
                bloom |-> CreateFilter(KeysAdded),
                sparse_index_offset |-> EncodeFixed64(data_offset)]
    BY <1>1, <1>2 DEF FileInv
  <2> QED BY <2>1
<1>4. DecodeFixed64(EncodeFixed64(data_offset)) = data_offset
  BY <1>2, Fixed64RoundTrip DEF LayoutInv, SizeFits
<1>5. table' = [status |-> "open", index |-> index, bloom |-> CreateFilter(KeysAdded),
                data_end_offset |-> data_offset]
  BY <1>3, <1>4 DEF Open
<1>6. ASSUME NEW o \in DOMAIN data
      PROVE  /\ Written(o).key = Loaded(o).key
             /\ DecodeFixed64(Written(o).data_offset) = Loaded(o).data_offset
             /\ Loaded(o) = [key |-> Loaded(o).key, data_offset |-> Loaded(o).data_offset]
  <2>1. o \in Nat /\ o <= data_offset
    BY <1>2, DataFacts
  <2>2. IsUint64(o)
    BY <1>2, <2>1, SmallerFits DEF LayoutInv, SizeFits
  <2>3. DecodeFixed64(EncodeFixed64(o)) = o
    BY <2>2, Fixed64RoundTrip
  <2>4. Written(o).data_offset = EncodeFixed64(o) /\ Written(o).key = data[o].key
    BY DEF Written
  <2> QED BY <2>3, <2>4 DEF Loaded
<1>7. /\ sparse_index \in Seq(W) /\ InOrder(sparse_index)
      /\ Len(sparse_index) \in Nat /\ DOMAIN sparse_index = 1 .. Len(sparse_index)
  <2>1. sparse_index \in Seq(W) /\ InOrder(sparse_index)
    BY <1>2 DEF IndexInv
  <2> QED BY <2>1, LenProperties
<1>8. ASSUME NEW i \in DOMAIN sparse_index, NEW o \in DOMAIN data, sparse_index[i] = Written(o)
      PROVE  index[i] = Loaded(o)
  BY <1>6, <1>8
<1>9. ASSUME NEW i \in DOMAIN sparse_index
      PROVE  index[i] \in L /\ index[i].key = sparse_index[i].key
  <2>1. sparse_index[i] \in W
    BY <1>7, ElementOfSeq
  <2>2. PICK o \in DOMAIN data : sparse_index[i] = Written(o)
    BY <2>1
  <2>3. index[i] = Loaded(o)
    BY <1>8, <2>2
  <2> QED BY <2>3
<1>10. index \in Seq(L) /\ DOMAIN index = DOMAIN sparse_index /\ Len(index) = Len(sparse_index)
  <2>1. index \in [1 .. Len(sparse_index) -> L]
    BY <1>7, <1>9
  <2> HIDE DEF index, L
  <2>2. index \in Seq(L)
    BY <1>7, <2>1
  <2>3. DOMAIN index = 1 .. Len(sparse_index) /\ DOMAIN index = 1 .. Len(index) /\ Len(index) \in Nat
    BY <2>1, <2>2, LenProperties
  <2>4. Len(index) = Len(sparse_index)
    BY <1>7, <2>3
  <2> QED BY <1>7, <2>2, <2>3, <2>4
<1>11. InOrder(index)
  BY <1>7, <1>9, <1>10 DEF InOrder
<1>12. data_offset > 0 => index # << >> /\ index[1] = Loaded(0)
  <2> SUFFICES ASSUME data_offset > 0 PROVE index # << >> /\ index[1] = Loaded(0)
    OBVIOUS
  <2>1. key_storage # << >> /\ 0 \in DOMAIN data
    BY <1>2, FirstEntry DEF TableTypeOK
  <2>2. sparse_index # << >> /\ sparse_index[1] = Written(0)
    BY <1>2, <2>1 DEF IndexInv
  <2>3. Len(sparse_index) # 0 /\ 1 \in DOMAIN sparse_index
    BY <1>7, <2>2, EmptySeq
  <2>4. index[1] = Loaded(0)
    BY <1>8, <2>1, <2>2, <2>3
  <2>5. index # << >>
    <3> HIDE DEF index
    <3> QED BY <1>10, <2>3
  <2> QED BY <2>4, <2>5
<1> HIDE DEF index
<1>13. KeysAdded' = KeysAdded /\ Offsets' = Offsets
  BY <1>1 DEF KeysAdded, Offsets
<1>14. LayoutInv'
  BY <1>1, <1>2, <1>13 DEF LayoutInv, SizeFits, EndOfEntry
<1>15. IndexInv'
  BY <1>1, <1>2 DEF IndexInv, Written
<1>16. FileInv'
  <2>1. /\ table'.index = index /\ table'.bloom = CreateFilter(KeysAdded)
        /\ table'.data_end_offset = data_offset
    BY <1>5
  <2>2. table'.index \in Seq({Loaded(o)' : o \in DOMAIN data'})
    BY <1>1, <1>10, <2>1 DEF Loaded
  <2>3. Loaded(0)' = Loaded(0)
    BY <1>1 DEF Loaded
  <2>4. InOrder(table'.index)
    BY <1>11, <2>1
  <2>5. file' # None /\ file' = [status |-> "finished", index |-> sparse_index',
                                 bloom |-> CreateFilter(KeysAdded'),
                                 sparse_index_offset |-> EncodeFixed64(data_offset')]
    BY <1>1, <1>2, <1>13 DEF FileInv
  <2>6. data_offset' > 0 => table'.index # << >> /\ table'.index[1] = Loaded(0)'
    BY <1>1, <1>12, <2>1, <2>3
  <2> QED BY <1>1, <1>13, <2>1, <2>2, <2>4, <2>5, <2>6 DEF FileInv, InOrder
<1> QED BY <1>1, <1>2, <1>14, <1>15, <1>16, WriterSteps DEF TableTypeOK

-----------------------------------------------------------------------------
(* The specification. *)

\* A new file.
LEMMA InitHolds ==
  ASSUME TableInit
  PROVE  TableInv
<1>1. /\ DOMAIN data = {} /\ data_offset = 0 /\ entries_since_last_index = 0
      /\ sparse_index = << >> /\ key_storage = << >> /\ file = None /\ table = None
      /\ pos = 0 /\ rpc = [p \in Proc |-> "idle"] /\ target = [p \in Proc |-> 0]
      /\ left = [p \in Proc |-> 0] /\ right = [p \in Proc |-> 0]
      /\ block_idx = [p \in Proc |-> 0] /\ offset = [p \in Proc |-> 0]
      /\ end_offset = [p \in Proc |-> 0] /\ total_len = [p \in Proc |-> 0]
      /\ result = None /\ valid = FALSE /\ from = NoWalk /\ seen = << >>
  BY DEF TableInit
<1>2. /\ \A p \in Proc : rpc[p] = "idle" /\ total_len[p] = 0
      /\ rpc["iter"] = "idle" /\ rpc["get"] = "idle"
      /\ offset["iter"] = 0 /\ target["iter"] = Lowest
  BY <1>1 DEF Proc, Lowest
<1>3. TableTypeOK
  <2>1. key_storage \in Seq(Key) /\ seen \in Seq(Entries)
    BY <1>1, EmptySeq
  <2>2. result \in Results
    BY <1>1 DEF Results
  <2>3. /\ rpc \in [Proc -> {"idle", "search", "seek", "read", "done"}]
        /\ target \in [Proc -> Key \cup {Lowest}]
        /\ left \in [Proc -> Int] /\ right \in [Proc -> Int] /\ block_idx \in [Proc -> Int]
        /\ offset \in [Proc -> Nat] /\ end_offset \in [Proc -> Nat]
        /\ total_len \in [Proc -> Nat]
    BY <1>1 DEF Lowest
  <2>4. entries_since_last_index \in 0 .. Interval /\ data_offset \in Nat
    BY <1>1, IntervalAssumption
  <2>5. /\ DOMAIN data \subseteq Nat /\ pos \in Nat \cup {Behind} /\ valid \in BOOLEAN
        /\ from \in Key \cup {Lowest, NoWalk}
    BY <1>1
  <2> QED BY <1>2, <2>1, <2>2, <2>3, <2>4, <2>5 DEF TableTypeOK
<1>4. LayoutInv
  <2>1. KeysAdded = {} /\ {data[o].key : o \in DOMAIN data} = {}
    BY <1>1 DEF KeysAdded
  <2>2. SizeFits
    BY <1>1 DEF SizeFits, IsUint64, IsUint32
  <2> QED BY <1>1, <2>1, <2>2 DEF LayoutInv, Offsets
<1>5. IndexInv
  BY <1>1, EmptySeq DEF IndexInv, InOrder
<1>6. FileInv
  BY <1>1 DEF FileInv
<1>7. OneCall
  BY <1>2 DEF OneCall, Reading
<1>8. \A p \in Proc : ReaderInv(p) /\ SearchInv(p) /\ ScanInv(p)
  BY <1>2 DEF ReaderInv, SearchInv, ScanInv
<1>9. WalkInv
  BY <1>1, <1>2 DEF WalkInv
<1>10. GetFindsEntry /\ WalkIsComplete
  BY <1>1, <1>2 DEF GetFindsEntry, WalkIsComplete
<1> QED BY <1>3, <1>4, <1>5, <1>6, <1>7, <1>8, <1>9, <1>10 DEF TableInv

\* A step that changes nothing.
LEMMA StutterKeeps ==
  ASSUME TableInv, UNCHANGED tableVars
  PROVE  TableInv'
<1>1. /\ Frame /\ pos' = pos /\ rpc' = rpc /\ target' = target /\ left' = left
      /\ right' = right /\ block_idx' = block_idx /\ offset' = offset
      /\ end_offset' = end_offset /\ total_len' = total_len /\ result' = result
      /\ valid' = valid /\ from' = from /\ seen' = seen /\ UNCHANGED iterVars
  BY DEF tableVars, readVars, scanVars, iterVars, Frame
<1>2. Same("get") /\ Same("iter")
  BY <1>1 DEF Same
<1>3. TableTypeOK'
  BY <1>1, TypeKept DEF TableInv, TableTypeOK
<1>4. OneCall' /\ GetFindsEntry'
  BY <1>1, GetKept DEF TableInv, OneCall, Reading
<1>5. ReaderOK("get")'
  BY <1>1, <1>2, ReaderKept DEF TableInv, ReaderOK, Proc
<1> QED BY <1>1, <1>2, <1>3, <1>4, <1>5, GetSteps

\* Every step of the writer and of the readers.
LEMMA StepKeeps ==
  ASSUME TableInv, Write \/ Readers, OneCall', SizeFits'
  PROVE  TableInv'
<1>1. CASE Finish
  BY <1>1, FinishKeeps
<1>2. ASSUME NEW key \in Key, NEW val \in Version[key], AddSorted(key, val) PROVE TableInv'
  BY <1>2, AddSortedKeeps
<1>3. CASE Open
  BY <1>3, OpenKeeps
<1>4. CASE Call
  <2>1. ASSUME NEW key \in Key, Get(key) \/ Seek(key) PROVE TableInv'
    BY <2>1, GetKeeps, SeekKeeps
  <2> QED BY <1>4, <2>1, SeekToFirstKeeps, IterNextKeeps, IterOverKeeps, GetOverKeeps DEF Call
<1>5. CASE ReadStep
  <2>1. ASSUME NEW p \in Proc, Step(p) PROVE TableInv'
    BY <2>1, SearchKeeps, ScanEndsKeeps, FileSeekKeeps, ReadHeadKeeps, ReadBelowKeeps DEF Step
  <2> QED BY <1>5, <2>1, GetReadsKeeps, IterReadsKeeps DEF ReadStep
<1> QED BY <1>1, <1>2, <1>3, <1>4, <1>5 DEF Write, Readers

\* Whatever the keys, their lengths and their hashes, the size of a block and the
\* number of bits per key: what SSTableWriter lays out (sstable.cpp:22-128), what Open
\* loads (139-240) and what Get and the iterator do with it (242-453) keep fitting
\* together, as long as a Get and a call of the iterator do not overlap.
THEOREM TableInvariant == SerialTableSpec => []TableInv
<1>1. TableInit => TableInv
  BY InitHolds
<1>2. TableInv /\ [(Write \/ Readers) /\ OneCall' /\ SizeFits']_tableVars => TableInv'
  BY StepKeeps, StutterKeeps
<1> QED BY <1>1, <1>2, PTL DEF SerialTableSpec

\* SSTableReader::Get (sstable.cpp:304-359) returns the entry that was added under its
\* key, and NotFound exactly if there was none, in a table of any size.
THEOREM GetFindsWhatWasAdded == SerialTableSpec => []GetFindsEntry
<1>1. TableInv => GetFindsEntry
  BY DEF TableInv
<1> QED BY <1>1, TableInvariant, PTL

\* An iterator (sstable.cpp:361-453) that has become invalid has shown every entry from
\* the key it began at, each once and in the order of the keys, so that a compaction
\* that takes it for one at its end loses nothing of the file it deletes.
THEOREM WalksAreComplete == SerialTableSpec => []WalkIsComplete
<1>1. TableInv => WalkIsComplete
  BY DEF TableInv
<1> QED BY <1>1, TableInvariant, PTL
=============================================================================
