------------------------------ MODULE WireProofs ------------------------------
(***************************************************************************)
(* Machine-checked proofs about Wire, for every number of values of a      *)
(* byte, all sizes of the fields, every plan and every way TCP cuts the    *)
(* stream into pieces.                                                     *)
(***************************************************************************)
EXTENDS Wire, InfostrProofs

-----------------------------------------------------------------------------
(***************************************************************************)
(* Integers and their bytes.                                               *)
(***************************************************************************)
Bytes == 0..(Byte - 1)
Sizes == {1, 2, 4}

\* A byte has more than three values.
LEMMA ByteFacts == Byte \in Nat /\ Byte > 3 /\ Byte # 0
  BY WireAssumption

\* The last digit and the ones before it.
LEMMA Digits ==
  ASSUME NEW q \in Nat, NEW r \in Bytes
  PROVE  /\ (Byte * q + r) \in Nat
         /\ (Byte * q + r) \div Byte = q /\ (Byte * q + r) % Byte = r
  BY ByteFacts DEF Bytes

\* An integer is its last digit and the ones before it.
LEMMA Split ==
  ASSUME NEW v \in Nat
  PROVE  /\ v \div Byte \in Nat /\ v % Byte \in Bytes
         /\ v = Byte * (v \div Byte) + (v % Byte)
<1>1. v \div Byte \in Nat /\ v % Byte \in Bytes
  BY ByteFacts DEF Bytes
<1>2. v % Byte = v - (v \div Byte) * Byte
  BY ByteFacts
<1>3. (v \div Byte) * Byte = Byte * (v \div Byte) /\ Byte * (v \div Byte) \in Nat
  BY <1>1, ByteFacts
<1> DEFINE m == Byte * (v \div Byte)
           r == v % Byte
<1>4. m \in Nat /\ r \in Nat /\ r = v - m
  BY <1>1, <1>2, <1>3, ByteFacts DEF Bytes
<1> HIDE DEF m, r
<1>5. v = m + r
  BY <1>4
<1> QED
  BY <1>1, <1>5, Zenon DEF m, r

\* Digit by digit.
LEMMA DivTwice ==
  ASSUME NEW v \in Nat, NEW c \in Nat \ {0}
  PROVE  v \div (Byte * c) = (v \div Byte) \div c
  BY ByteFacts

\* One more digit, one more weight.
LEMMA Room ==
  ASSUME NEW q \in Nat, NEW r \in Bytes, NEW c \in Nat, q < c
  PROVE  Byte * q + r < Byte * c
<1>1. Byte * q + Byte <= Byte * c
  <2>1. q + 1 <= c
    OBVIOUS
  <2>2. Byte * (q + 1) <= Byte * c
    BY <2>1, ByteFacts
  <2> QED
    BY <2>2, ByteFacts
<1> DEFINE m == Byte * q
           n == Byte * c
<1>2. m \in Nat /\ n \in Nat /\ m + Byte <= n
  BY <1>1, ByteFacts
<1> HIDE DEF m, n
<1>3. m + r < n
  BY <1>2, ByteFacts DEF Bytes
<1> QED
  BY <1>3 DEF m, n

\* The digits before the last one.
LEMMA Shorter ==
  ASSUME NEW v \in Nat, NEW c \in Nat, v < Byte * c
  PROVE  v \div Byte < c
<1> DEFINE q == v \div Byte
           r == v % Byte
<1>1. q \in Nat /\ r \in Bytes /\ v = Byte * q + r
  BY Split, Zenon
<1> HIDE DEF q, r
<1> SUFFICES ASSUME q >= c PROVE FALSE
  BY <1>1 DEF q
<1>2. Byte * q >= Byte * c
  BY <1>1, ByteFacts
<1> DEFINE m == Byte * q
           n == Byte * c
<1>3. m \in Nat /\ n \in Nat /\ m >= n /\ v = m + r /\ v < n
  BY <1>1, <1>2, ByteFacts
<1> HIDE DEF m, n
<1> QED
  BY <1>1, <1>3 DEF Bytes

\* The weights, one by one.
LEMMA WeightFacts ==
  /\ Weights[1] = 1 /\ Weights[2] = Byte /\ Weights[3] = Byte * Byte
  /\ Weights[4] = Byte * (Byte * Byte)
  /\ Weights[5] = Byte * (Byte * (Byte * Byte))
<1>1. /\ Weights[1] = 1 /\ Weights[2] = Byte /\ Weights[3] = Byte * Byte
      /\ Weights[4] = Byte * Byte * Byte
      /\ Weights[5] = Byte * Byte * Byte * Byte
  BY DEF Weights
<1>2. /\ Byte * Byte * Byte = Byte * (Byte * Byte)
      /\ Byte * Byte * Byte * Byte = Byte * (Byte * (Byte * Byte))
  BY ByteFacts
<1> QED
  BY <1>1, <1>2

\* An integer of one byte.
LEMMA OneByte ==
  ASSUME NEW v
  PROVE  /\ v \in Unsigned(1) <=> v \in Bytes
         /\ v \in Bytes => bytes(v, 1) = [i \in 1..1 |-> v]
<1>1. Unsigned(1) = Bytes
  BY WeightFacts DEF Unsigned, Bytes
<1>2. ASSUME v \in Bytes PROVE bytes(v, 1) = [i \in 1..1 |-> v]
  <2>1. v \in Nat /\ (v \div 1) % Byte = v
    BY <1>2, ByteFacts DEF Bytes
  <2>2. \A i \in 1..1 : 1 - i + 1 = 1
    OBVIOUS
  <2> QED
    BY <2>1, <2>2, WeightFacts DEF bytes
<1> QED
  BY <1>1, <1>2

\* The bytes of an integer of two bytes.
LEMMA TwoBytes ==
  ASSUME NEW v \in Nat
  PROVE  bytes(v, 2) = [i \in 1..2 |-> IF i = 1 THEN (v \div Byte) % Byte
                                       ELSE v % Byte]
<1>1. v \div 1 = v
  OBVIOUS
<1> DEFINE d(k) == v \div Weights[k]
<1>2. bytes(v, 2) = [i \in 1..2 |-> d(2 - i + 1) % Byte]
  BY Zenon DEF bytes
<1>3. d(1) = v /\ d(2) = v \div Byte
  BY <1>1, WeightFacts, Zenon
<1> HIDE DEF d
<1> QED
  BY <1>2, <1>3

\* The last digits of four integers.
Four(a, b, c, d) ==
  [i \in 1..4 |-> CASE i = 1 -> a % Byte [] i = 2 -> b % Byte
                    [] i = 3 -> c % Byte [] i = 4 -> d % Byte]

\* The bytes of an integer of four bytes.
LEMMA FourBytes ==
  ASSUME NEW v \in Nat, NEW x, x = v \div Byte, NEW y, y = x \div Byte
  PROVE  bytes(v, 4) = Four(y \div Byte, y, x, v)
<1>1. v \div 1 = v
  OBVIOUS
<1>2. v \div (Byte * Byte) = y /\ x \in Nat
  BY ByteFacts, DivTwice, Split
<1>3. Byte * Byte \in Nat \ {0}
  BY ByteFacts
<1>4. v \div (Byte * (Byte * Byte)) = x \div (Byte * Byte)
  BY <1>3, DivTwice, Zenon
<1>5. x \div (Byte * Byte) = y \div Byte
  BY <1>2, ByteFacts, DivTwice
<1>6. /\ v \div Weights[1] = v /\ v \div Weights[2] = x
      /\ v \div Weights[3] = y /\ v \div Weights[4] = y \div Byte
  BY <1>1, <1>2, <1>4, <1>5, WeightFacts, Zenon
<1> DEFINE d(k) == v \div Weights[k]
<1>7. bytes(v, 4) = [i \in 1..4 |-> d(4 - i + 1) % Byte]
  BY Zenon DEF bytes
<1>8. d(1) = v /\ d(2) = x /\ d(3) = y /\ d(4) = y \div Byte
  BY <1>6, Zenon
<1> HIDE DEF d
<1> QED
  BY <1>7, <1>8 DEF Four

\* Unsigned integers are natural numbers.
LEMMA UnsignedNat ==
  ASSUME NEW w \in Sizes, NEW v \in Unsigned(w)
  PROVE  /\ v \in Nat
         /\ w = 2 => v < Byte * Byte
         /\ w = 4 => v < Byte * (Byte * (Byte * Byte))
<1> DEFINE m == Byte * Byte
           n == Byte * (Byte * (Byte * Byte))
<1>1. m \in Nat /\ n \in Nat
  BY ByteFacts
<1>2. w \in {1, 2, 4} /\ v \in 0..(Weights[w + 1] - 1)
  BY DEF Sizes, Unsigned
<1>3. Weights[2] = Byte /\ Weights[3] = m /\ Weights[5] = n
  BY WeightFacts
<1> HIDE DEF m, n
<1>4. v \in Nat /\ (w = 2 => v < m) /\ (w = 4 => v < n)
  BY <1>1, <1>2, <1>3, ByteFacts
<1> QED
  BY <1>4 DEF m, n

\* The bytes of an integer.
LEMMA BytesType ==
  ASSUME NEW w \in Sizes, NEW v \in Unsigned(w)
  PROVE  bytes(v, w) \in [1..w -> Bytes]
<1>1. v \in Nat
  BY UnsignedNat
<1>2. \A u \in Nat : u \div Byte \in Nat /\ u % Byte \in Bytes
  BY Split
<1>3. PICK x : x = v \div Byte
  OBVIOUS
<1>4. PICK y : y = x \div Byte
  OBVIOUS
<1>5. x \in Nat /\ y \in Nat /\ y \div Byte \in Nat
  BY <1>1, <1>2, <1>3, <1>4
<1>6. CASE w = 1
  BY <1>6, OneByte
<1>7. CASE w = 2
  <2>1. x % Byte \in Bytes /\ v % Byte \in Bytes
    BY <1>1, <1>2, <1>5
  <2>2. bytes(v, 2) = [i \in 1..2 |-> IF i = 1 THEN x % Byte ELSE v % Byte]
    BY <1>1, <1>3, TwoBytes
  <2> QED
    BY <1>7, <2>1, <2>2
<1>8. CASE w = 4
  <2>1. PICK z : z = y \div Byte
    OBVIOUS
  <2>2. /\ x % Byte \in Bytes /\ v % Byte \in Bytes /\ y % Byte \in Bytes
        /\ z % Byte \in Bytes
    BY <1>1, <1>2, <1>5, <2>1
  <2>3. bytes(v, 4) = Four(z, y, x, v)
    BY <1>1, <1>3, <1>4, <2>1, FourBytes, Zenon
  <2> QED
    BY <1>8, <2>2, <2>3 DEF Four
<1> QED
  BY <1>6, <1>7, <1>8 DEF Sizes

\* Any bytes are those of an integer.
LEMMA Surjective ==
  ASSUME NEW w \in Sizes, NEW x \in [1..w -> Bytes]
  PROVE  \E v \in Unsigned(w) : bytes(v, w) = x
<1>1. CASE w = 1
  <2>1. x[1] \in Bytes /\ x = [i \in 1..1 |-> x[1]]
    BY <1>1
  <2>2. PICK d : d = x[1]
    OBVIOUS
  <2>3. d \in Unsigned(1) /\ bytes(d, 1) = x
    BY <2>1, <2>2, OneByte, Zenon
  <2> QED
    BY <1>1, <2>3
<1>2. CASE w = 2
  <2>1. PICK d \in Bytes, e \in Bytes : x[1] = d /\ x[2] = e
    BY <1>2
  <2>2. d \in Nat /\ d < Byte
    BY ByteFacts DEF Bytes
  <2>3. PICK v \in Nat : v = Byte * d + e
    BY <2>2, Digits, Zenon
  <2>4. v \div Byte = d /\ v % Byte = e /\ v < Byte * Byte
    BY <2>2, <2>3, ByteFacts, Digits, Room
  <2>5. d % Byte = d
    BY <2>2, ByteFacts
  <2>6. bytes(v, 2) = [i \in 1..2 |-> IF i = 1 THEN d ELSE e]
    BY <2>4, <2>5, TwoBytes, Zenon
  <2>7. x = [i \in 1..2 |-> IF i = 1 THEN d ELSE e]
    BY <1>2, <2>1
  <2>8. v \in Unsigned(2)
    <3> DEFINE m == Byte * Byte
    <3>1. v < m /\ m \in Nat /\ Weights[3] = m
      BY <2>4, ByteFacts, WeightFacts
    <3> HIDE DEF m
    <3> QED
      BY <3>1 DEF Unsigned
  <2> QED
    BY <1>2, <2>6, <2>7, <2>8
<1>3. CASE w = 4
  <2>1. PICK a \in Bytes, b \in Bytes, c \in Bytes, d \in Bytes :
          x[1] = a /\ x[2] = b /\ x[3] = c /\ x[4] = d
    BY <1>3
  <2>2. a \in Nat /\ a < Byte /\ a % Byte = a
    BY ByteFacts DEF Bytes
  <2>3. PICK p \in Nat : p = Byte * a + b
    BY <2>2, Digits, Zenon
  <2>4. p \div Byte = a /\ p % Byte = b /\ p < Byte * Byte
    BY <2>2, <2>3, ByteFacts, Digits, Room
  <2>5. PICK q \in Nat : q = Byte * p + c
    BY Digits, Zenon
  <2>6. q \div Byte = p /\ q % Byte = c /\ q < Byte * (Byte * Byte)
    <3>1. PICK m \in Nat : m = Byte * Byte
      BY ByteFacts
    <3>2. p < m
      BY <2>4, <3>1
    <3> QED
      BY <2>5, <3>1, <3>2, Digits, Room, Zenon
  <2>7. PICK v \in Nat : v = Byte * q + d
    BY Digits, Zenon
  <2>8. v \div Byte = q /\ v % Byte = d /\ v < Byte * (Byte * (Byte * Byte))
    <3>1. PICK m \in Nat : m = Byte * (Byte * Byte)
      BY ByteFacts
    <3>2. q < m
      BY <2>6, <3>1, Zenon
    <3> QED
      BY <2>7, <3>1, <3>2, Digits, Room, Zenon
  <2>9. bytes(v, 4) = [i \in 1..4 |->
                         CASE i = 1 -> a [] i = 2 -> b [] i = 3 -> c [] i = 4 -> d]
    <3>1. bytes(v, 4) = Four(p \div Byte, p, q, v)
      BY <2>6, <2>8, FourBytes, Zenon
    <3> QED
      BY <2>2, <2>4, <2>6, <2>8, <3>1, Zenon DEF Four
  <2>10. x = [i \in 1..4 |->
                CASE i = 1 -> a [] i = 2 -> b [] i = 3 -> c [] i = 4 -> d]
    BY <1>3, <2>1
  <2>11. v \in Unsigned(4)
    <3> DEFINE m == Byte * (Byte * (Byte * Byte))
    <3>1. m \in Nat
      BY ByteFacts
    <3>2. v < m /\ Weights[5] = m
      BY <2>8, WeightFacts, Zenon
    <3> HIDE DEF m
    <3> QED
      BY <3>1, <3>2 DEF Unsigned
  <2> QED
    BY <1>3, <2>9, <2>10, <2>11, Zenon
<1> QED
  BY <1>1, <1>2, <1>3 DEF Sizes

\* Different integers have different bytes.
LEMMA Injective ==
  ASSUME NEW w \in Sizes, NEW u \in Unsigned(w), NEW v \in Unsigned(w),
         bytes(u, w) = bytes(v, w)
  PROVE  u = v
<1>1. /\ u \in Nat /\ v \in Nat
  BY UnsignedNat
<1>2. ASSUME NEW a \in Nat, NEW b \in Nat, a \div Byte = b \div Byte,
             a % Byte = b % Byte
      PROVE  a = b
  BY <1>2, Split, Zenon
<1>3. ASSUME NEW a \in Nat, a < Byte PROVE a % Byte = a
  BY <1>3, ByteFacts
<1>4. CASE w = 1
  <2>1. u \in Bytes /\ v \in Bytes
    BY <1>4, OneByte, Zenon
  <2>2. [i \in 1..1 |-> u] = [i \in 1..1 |-> v]
    BY <1>4, <2>1, OneByte, Zenon
  <2>3. [i \in 1..1 |-> u][1] = [i \in 1..1 |-> v][1]
    BY <2>2, Zenon
  <2> QED
    BY <2>3
<1>5. CASE w = 2
  <2>1. PICK a : a = u \div Byte
    OBVIOUS
  <2>2. PICK b : b = v \div Byte
    OBVIOUS
  <2>3. a \in Nat /\ b \in Nat /\ a < Byte /\ b < Byte
    BY <1>1, <1>5, <2>1, <2>2, Split, Shorter, UnsignedNat, ByteFacts
  <2>4. bytes(u, 2)[1] = a /\ bytes(u, 2)[2] = u % Byte
    BY <1>1, <1>3, <2>1, <2>3, TwoBytes
  <2>5. bytes(v, 2)[1] = b /\ bytes(v, 2)[2] = v % Byte
    BY <1>1, <1>3, <2>2, <2>3, TwoBytes
  <2> QED
    BY <1>1, <1>2, <1>5, <2>1, <2>2, <2>4, <2>5, Zenon
<1>6. CASE w = 4
  <2> DEFINE x(k) == k \div Byte
             y(k) == x(k) \div Byte
             z(k) == y(k) \div Byte
  <2>1. ASSUME NEW k \in Unsigned(4)
        PROVE  /\ k \in Nat /\ x(k) \in Nat /\ y(k) \in Nat /\ z(k) \in Nat
               /\ bytes(k, 4)[1] = z(k) /\ bytes(k, 4)[2] = y(k) % Byte
               /\ bytes(k, 4)[3] = x(k) % Byte /\ bytes(k, 4)[4] = k % Byte
    <3>1. k \in Nat /\ k < Byte * (Byte * (Byte * Byte))
      BY <1>6, UnsignedNat, Zenon
    <3>2. Byte * Byte \in Nat /\ Byte * (Byte * Byte) \in Nat /\ Byte \in Nat
      BY ByteFacts
    <3>3. x(k) \in Nat /\ x(k) < Byte * (Byte * Byte)
      BY <3>1, <3>2, Split, Shorter, Zenon
    <3>4. y(k) \in Nat /\ y(k) < Byte * Byte
      BY <3>2, <3>3, Split, Shorter, Zenon
    <3>5. z(k) \in Nat /\ z(k) < Byte
      BY <3>2, <3>4, Split, Shorter, Zenon
    <3>6. z(k) % Byte = z(k)
      BY <1>3, <3>5, Zenon
    <3>7. bytes(k, 4) = Four(z(k), y(k), x(k), k)
      BY <3>1, FourBytes, Zenon
    <3> HIDE DEF x, y, z
    <3>8. PICK f : f = bytes(k, 4)
      OBVIOUS
    <3>9. /\ f[1] = z(k) % Byte /\ f[2] = y(k) % Byte
          /\ f[3] = x(k) % Byte /\ f[4] = k % Byte
      BY <3>7, <3>8 DEF Four
    <3> QED
      BY <3>1, <3>3, <3>4, <3>5, <3>6, <3>8, <3>9, Zenon
  <2>2. /\ z(u) = z(v) /\ y(u) % Byte = y(v) % Byte
        /\ x(u) % Byte = x(v) % Byte /\ u % Byte = v % Byte
        /\ x(u) \in Nat /\ y(u) \in Nat /\ x(v) \in Nat /\ y(v) \in Nat
    BY <1>6, <2>1, Zenon
  <2>3. y(u) = y(v)
    BY <1>2, <2>2, Zenon
  <2>4. x(u) = x(v)
    BY <1>2, <2>2, <2>3, Zenon
  <2> QED
    BY <1>1, <1>2, <2>2, <2>4, Zenon
<1> QED
  BY <1>4, <1>5, <1>6 DEF Sizes

\* Reversed twice, bytes are as they were.
LEMMA InOrder ==
  ASSUME NEW w \in Sizes, NEW x \in [1..w -> Bytes], NEW h
  PROVE  /\ inorder(h, x) \in [1..w -> Bytes]
         /\ inorder(h, inorder(h, x)) = x
         /\ w = 1 => inorder(h, x) = x
<1>1. w \in Nat
  BY DEF Sizes
<1>2. ASSUME NEW y \in [1..w -> Bytes]
      PROVE  Reverse(y) = [i \in 1..w |-> y[(w - i) + 1]]
  <2>1. Len(y) = w
    BY <1>1
  <2> QED
    BY <2>1, Zenon DEF Reverse
<1>3. \A i \in 1..w : (w - i) + 1 \in 1..w /\ (w - ((w - i) + 1)) + 1 = i
  BY <1>1
<1> DEFINE y == [i \in 1..w |-> x[(w - i) + 1]]
<1>4. y \in [1..w -> Bytes]
  BY <1>3
<1>5. Reverse(x) = y /\ Reverse(y) = [i \in 1..w |-> y[(w - i) + 1]]
  <2>1. Reverse(x) = y
    BY <1>2
  <2> HIDE DEF y
  <2> QED
    BY <1>2, <1>4, <2>1
<1>6. [i \in 1..w |-> y[(w - i) + 1]] = x
  BY <1>3
<1>7. w = 1 => y = x
  OBVIOUS
<1> HIDE DEF y
<1> QED
  BY <1>4, <1>5, <1>6, <1>7 DEF inorder

\* value() inverts bytes().
LEMMA ValueOf ==
  ASSUME NEW w \in Sizes, NEW x \in [1..w -> Bytes]
  PROVE  value(x) \in Unsigned(w) /\ bytes(value(x), w) = x
<1>1. w \in Nat
  BY DEF Sizes
<1>2. Len(x) = w
  BY <1>1
<1>3. value(x) = CHOOSE v \in Unsigned(w) : bytes(v, w) = x
  BY <1>2, Zenon DEF value
<1>4. \E v \in Unsigned(w) : bytes(v, w) = x
  BY Surjective
<1> QED
  BY <1>3, <1>4, Zenon

\* So bytes() inverts value().
LEMMA ValueBytes ==
  ASSUME NEW w \in Sizes, NEW v \in Unsigned(w)
  PROVE  value(bytes(v, w)) = v
  BY BytesType, ValueOf, Injective, Zenon

\* hton*() yields an integer whose bytes in memory are in network order.
LEMMA NetworkOrder ==
  ASSUME NEW w \in Sizes, NEW v \in Unsigned(w), NEW h
  PROVE  /\ hton(h, v, w) \in Unsigned(w)
         /\ store(h, hton(h, v, w), w) = bytes(v, w)
<1>1. PICK x : x = inorder(h, bytes(v, w))
  OBVIOUS
<1>2. /\ bytes(v, w) \in [1..w -> Bytes] /\ x \in [1..w -> Bytes]
      /\ inorder(h, x) = bytes(v, w)
  BY <1>1, BytesType, InOrder, Zenon
<1>3. hton(h, v, w) = value(x)
  BY <1>1, Zenon DEF hton, load
<1>4. value(x) \in Unsigned(w) /\ bytes(value(x), w) = x
  BY <1>2, ValueOf, Zenon
<1> QED
  BY <1>2, <1>3, <1>4, Zenon DEF store

\* ntoh*() takes them from there.
LEMMA HostOrder ==
  ASSUME NEW w \in Sizes, NEW v \in Unsigned(w), NEW h
  PROVE  value(store(h, load(h, bytes(v, w)), w)) = v
<1>1. hton(h, v, w) = load(h, bytes(v, w))
  BY Zenon DEF hton
<1> QED
  BY <1>1, NetworkOrder, ValueBytes, Zenon

\* A single byte is the same everywhere.
LEMMA SingleByte ==
  ASSUME NEW v \in Unsigned(1), NEW h
  PROVE  store(h, v, 1) = bytes(v, 1) /\ load(h, bytes(v, 1)) = v
<1>1. 1 \in Sizes
  BY DEF Sizes
<1>2. bytes(v, 1) \in [1..1 -> Bytes] /\ inorder(h, bytes(v, 1)) = bytes(v, 1)
  <2>1. bytes(v, 1) \in [1..1 -> Bytes]
    BY <1>1, BytesType, Zenon
  <2> QED
    BY <1>1, <2>1, InOrder, Zenon
<1> QED
  BY <1>1, <1>2, ValueBytes, Zenon DEF store, load

-----------------------------------------------------------------------------
(***************************************************************************)
(* Structures.                                                             *)
(***************************************************************************)
Types == {CAST, FLOW, SEND, RECV}

\* Where the fields start.
LEMMA OffsetFacts ==
  /\ Offsets[1] = 0 /\ Offsets[2] = 1 /\ Offsets[3] = 2 /\ Offsets[4] = 4
  /\ Offsets[5] = 8 /\ Offsets[6] = 10
  BY DEF Offsets

\* They go up.
LEMMA OffsetOrder ==
  /\ \A i \in 1..6 : Offsets[i] \in Nat
  /\ \A i, j \in 1..6 : i <= j => Offsets[i] <= Offsets[j]
<1>1. \A i \in 1..6 : Offsets[i] \in Nat
  BY OffsetFacts
<1>2. \A i, j \in 1..6 : i <= j => Offsets[i] <= Offsets[j]
  <2> TAKE i \in 1..6, j \in 1..6
  <2>1. i = 1 \/ i = 2 \/ i = 3 \/ i = 4 \/ i = 5 \/ i = 6
    OBVIOUS
  <2>2. j = 1 \/ j = 2 \/ j = 3 \/ j = 4 \/ j = 5 \/ j = 6
    OBVIOUS
  <2> QED
    BY <2>1, <2>2, OffsetFacts
<1> QED
  BY <1>1, <1>2

\* The fields of the four structures lie one behind the other.
LEMMA Layout ==
  ASSUME NEW type \in Types
  PROVE  LET w == Widths(type)  n == Len(w)
         IN  /\ w \in Seq(Sizes) /\ n \in 3..6 /\ sizeof(type) \in 4..12
             /\ w[1] = 1 /\ w[2] = 1 /\ w[3] = 2
             /\ \A i \in 1..n : Offsets[i] + w[i] <= sizeof(type)
             /\ \A i \in 1..(n - 1) : Offsets[i] + w[i] = Offsets[i + 1]
             /\ \A k \in 1..sizeof(type) :
                  \E i \in 1..n : k - Offsets[i] \in 1..w[i]
<1> DEFINE w == Widths(type)
           n == Len(w)
<1>0. sizeof(type) = Offsets[n] + w[n]
  BY DEF sizeof
<1>1. CASE type = CAST
  <2>1. w = <<1, 1, 2>>
    BY <1>1 DEF CAST, FLOW, SEND, RECV, Widths
  <2>2. /\ w \in Seq(Sizes) /\ n = 3
        /\ w[1] = 1 /\ w[2] = 1 /\ w[3] = 2
    BY <2>1 DEF Sizes
  <2>3. sizeof(type) = 4
    BY <1>0, <2>2, OffsetFacts
  <2> HIDE DEF w, n
  <2>4. ASSUME NEW i \in 1..n PROVE Offsets[i] + w[i] <= sizeof(type)
    <3>1. i = 1 \/ i = 2 \/ i = 3
      BY <2>2
    <3> QED
      BY <2>2, <2>3, <3>1, OffsetFacts
  <2>6. ASSUME NEW i \in 1..(n - 1) PROVE Offsets[i] + w[i] = Offsets[i + 1]
    <3>1. i = 1 \/ i = 2
      BY <2>2
    <3> QED
      BY <2>2, <3>1, OffsetFacts
  <2>5. ASSUME NEW k \in 1..sizeof(type)
        PROVE  \E i \in 1..n : k - Offsets[i] \in 1..w[i]
    <3>1. k \in 1..4
      BY <2>3
    <3>2. CASE k \in 1..1
      BY <3>2, <2>2, OffsetFacts
    <3>3. CASE k \in 2..2
      BY <3>3, <2>2, OffsetFacts
    <3>4. CASE k \in 3..4
      BY <3>4, <2>2, OffsetFacts
    <3> QED
      BY <3>1, <3>2, <3>3, <3>4
  <2> QED
    BY <2>2, <2>3, <2>4, <2>5, <2>6 DEF w, n
<1>2. CASE type = FLOW
  <2>1. w = <<1, 1, 2, 4, 4>>
    BY <1>2 DEF CAST, FLOW, SEND, RECV, Widths
  <2>2. /\ w \in Seq(Sizes) /\ n = 5
        /\ w[1] = 1 /\ w[2] = 1 /\ w[3] = 2 /\ w[4] = 4 /\ w[5] = 4
    BY <2>1 DEF Sizes
  <2>3. sizeof(type) = 12
    BY <1>0, <2>2, OffsetFacts
  <2> HIDE DEF w, n
  <2>4. ASSUME NEW i \in 1..n PROVE Offsets[i] + w[i] <= sizeof(type)
    <3>1. i = 1 \/ i = 2 \/ i = 3 \/ i = 4 \/ i = 5
      BY <2>2
    <3> QED
      BY <2>2, <2>3, <3>1, OffsetFacts
  <2>6. ASSUME NEW i \in 1..(n - 1) PROVE Offsets[i] + w[i] = Offsets[i + 1]
    <3>1. i = 1 \/ i = 2 \/ i = 3 \/ i = 4
      BY <2>2
    <3> QED
      BY <2>2, <3>1, OffsetFacts
  <2>5. ASSUME NEW k \in 1..sizeof(type)
        PROVE  \E i \in 1..n : k - Offsets[i] \in 1..w[i]
    <3>1. k \in 1..12
      BY <2>3
    <3>2. CASE k \in 1..1
      BY <3>2, <2>2, OffsetFacts
    <3>3. CASE k \in 2..2
      BY <3>3, <2>2, OffsetFacts
    <3>4. CASE k \in 3..4
      BY <3>4, <2>2, OffsetFacts
    <3>5. CASE k \in 5..8
      BY <3>5, <2>2, OffsetFacts
    <3>6. CASE k \in 9..12
      BY <3>6, <2>2, OffsetFacts
    <3> QED
      BY <3>1, <3>2, <3>3, <3>4, <3>5, <3>6
  <2> QED
    BY <2>2, <2>3, <2>4, <2>5, <2>6 DEF w, n
<1>3. CASE type = SEND
  <2>1. w = <<1, 1, 2, 4, 2, 2>>
    BY <1>3 DEF CAST, FLOW, SEND, RECV, Widths
  <2>2. /\ w \in Seq(Sizes) /\ n = 6
        /\ w[1] = 1 /\ w[2] = 1 /\ w[3] = 2 /\ w[4] = 4 /\ w[5] = 2 /\ w[6] = 2
    BY <2>1 DEF Sizes
  <2>3. sizeof(type) = 12
    BY <1>0, <2>2, OffsetFacts
  <2> HIDE DEF w, n
  <2>4. ASSUME NEW i \in 1..n PROVE Offsets[i] + w[i] <= sizeof(type)
    <3>1. i = 1 \/ i = 2 \/ i = 3 \/ i = 4 \/ i = 5 \/ i = 6
      BY <2>2
    <3> QED
      BY <2>2, <2>3, <3>1, OffsetFacts
  <2>6. ASSUME NEW i \in 1..(n - 1) PROVE Offsets[i] + w[i] = Offsets[i + 1]
    <3>1. i = 1 \/ i = 2 \/ i = 3 \/ i = 4 \/ i = 5
      BY <2>2
    <3> QED
      BY <2>2, <3>1, OffsetFacts
  <2>5. ASSUME NEW k \in 1..sizeof(type)
        PROVE  \E i \in 1..n : k - Offsets[i] \in 1..w[i]
    <3>1. k \in 1..12
      BY <2>3
    <3>2. CASE k \in 1..1
      BY <3>2, <2>2, OffsetFacts
    <3>3. CASE k \in 2..2
      BY <3>3, <2>2, OffsetFacts
    <3>4. CASE k \in 3..4
      BY <3>4, <2>2, OffsetFacts
    <3>5. CASE k \in 5..8
      BY <3>5, <2>2, OffsetFacts
    <3>6. CASE k \in 9..10
      BY <3>6, <2>2, OffsetFacts
    <3>7. CASE k \in 11..12
      BY <3>7, <2>2, OffsetFacts
    <3> QED
      BY <3>1, <3>2, <3>3, <3>4, <3>5, <3>6, <3>7
  <2> QED
    BY <2>2, <2>3, <2>4, <2>5, <2>6 DEF w, n
<1>4. CASE type = RECV
  <2>1. w = <<1, 1, 2, 4>>
    BY <1>4 DEF CAST, FLOW, SEND, RECV, Widths
  <2>2. /\ w \in Seq(Sizes) /\ n = 4
        /\ w[1] = 1 /\ w[2] = 1 /\ w[3] = 2 /\ w[4] = 4
    BY <2>1 DEF Sizes
  <2>3. sizeof(type) = 8
    BY <1>0, <2>2, OffsetFacts
  <2> HIDE DEF w, n
  <2>4. ASSUME NEW i \in 1..n PROVE Offsets[i] + w[i] <= sizeof(type)
    <3>1. i = 1 \/ i = 2 \/ i = 3 \/ i = 4
      BY <2>2
    <3> QED
      BY <2>2, <2>3, <3>1, OffsetFacts
  <2>6. ASSUME NEW i \in 1..(n - 1) PROVE Offsets[i] + w[i] = Offsets[i + 1]
    <3>1. i = 1 \/ i = 2 \/ i = 3
      BY <2>2
    <3> QED
      BY <2>2, <3>1, OffsetFacts
  <2>5. ASSUME NEW k \in 1..sizeof(type)
        PROVE  \E i \in 1..n : k - Offsets[i] \in 1..w[i]
    <3>1. k \in 1..8
      BY <2>3
    <3>2. CASE k \in 1..1
      BY <3>2, <2>2, OffsetFacts
    <3>3. CASE k \in 2..2
      BY <3>3, <2>2, OffsetFacts
    <3>4. CASE k \in 3..4
      BY <3>4, <2>2, OffsetFacts
    <3>5. CASE k \in 5..8
      BY <3>5, <2>2, OffsetFacts
    <3> QED
      BY <3>1, <3>2, <3>3, <3>4, <3>5
  <2> QED
    BY <2>2, <2>3, <2>4, <2>5, <2>6 DEF w, n
<1> QED
  BY <1>1, <1>2, <1>3, <1>4 DEF Types


\* No two fields overlap.
LEMMA Disjoint ==
  ASSUME NEW type \in Types, NEW i \in 1..Len(Widths(type)),
         NEW j \in 1..Len(Widths(type)), NEW k \in Nat,
         within(type, i, k), within(type, j, k)
  PROVE  i = j
<1> DEFINE w == Widths(type)
           n == Len(w)
<1>1. /\ n \in 3..6 /\ \A a \in 1..(n - 1) : Offsets[a] + w[a] = Offsets[a + 1]
  BY Layout
<1>2. k - Offsets[i] \in 1..w[i] /\ k - Offsets[j] \in 1..w[j]
  BY DEF within
<1>3. i \in 1..n /\ j \in 1..n /\ \A a \in 1..n : w[a] \in Nat
  <2>1. \A a \in 1..n : w[a] \in Sizes
    BY Layout, ElementOfSeq
  <2> QED
    BY <2>1 DEF Sizes
<1> HIDE DEF w, n
<1>4. ASSUME NEW a \in 1..n, NEW b \in 1..n, a < b,
             k - Offsets[a] \in 1..w[a], k - Offsets[b] \in 1..w[b]
      PROVE  FALSE
  <2>1. /\ a \in 1..(n - 1) /\ a \in 1..6 /\ b \in 1..6 /\ a + 1 \in 1..6
        /\ a + 1 <= b
    BY <1>1, <1>4
  <2>2. /\ Offsets[a] + w[a] <= Offsets[b] /\ Offsets[a] \in Nat
        /\ Offsets[b] \in Nat
    BY <1>1, <2>1, OffsetOrder
  <2> QED
    BY <1>3, <1>4, <2>2
<1> QED
  BY <1>1, <1>2, <1>3, <1>4

\* The memory of a packed structure is in network order, field by field.
LEMMA PackFields ==
  ASSUME NEW f, Fields(f), NEW h
  PROVE  LET p == pack(h, f)  w == Widths(f[1])
         IN  /\ Len(p) = Len(f) /\ p[1] = f[1]
             /\ \A i \in 1..Len(f) : store(h, p[i], w[i]) = bytes(f[i], w[i])
<1> DEFINE w == Widths(f[1])
           p == pack(h, f)
<1>1. /\ f[1] \in Types /\ Len(f) = Len(w)
      /\ \A k \in 1..Len(f) : f[k] \in Unsigned(w[k])
      /\ f[1] # RECV => f[2] = 0
  BY DEF Fields, Types
<1>2. 1 \in Sizes /\ 2 \in Sizes /\ 4 \in Sizes
  BY DEF Sizes
<1>3. ASSUME NEW v \in Unsigned(1) PROVE store(h, v, 1) = bytes(v, 1)
  BY SingleByte, Zenon
<1>4. ASSUME NEW v \in Unsigned(2) PROVE store(h, htons(h, v), 2) = bytes(v, 2)
  BY <1>2, NetworkOrder, Zenon DEF htons
<1>5. ASSUME NEW v \in Unsigned(4) PROVE store(h, htonl(h, v), 4) = bytes(v, 4)
  BY <1>2, NetworkOrder, Zenon DEF htonl
<1>6. CASE f[1] = CAST
  <2>1. w = <<1, 1, 2>>
    BY <1>6 DEF CAST, FLOW, SEND, RECV, Widths
  <2>2. p = <<CAST, 0, htons(h, f[3])>> /\ f[2] = 0
    BY <1>1, <1>6 DEF CAST, FLOW, SEND, RECV, pack, pack_RUFShare_CastPacket
  <2> HIDE DEF w, p
  <2>3. /\ w[1] = 1 /\ w[2] = 1 /\ w[3] = 2 /\ Len(f) = 3 /\ Len(p) = 3
        /\ p[1] = f[1] /\ p[2] = f[2] /\ p[3] = htons(h, f[3])
    BY <1>1, <1>6, <2>1, <2>2
  <2>4. f[1] \in Unsigned(1) /\ f[2] \in Unsigned(1) /\ f[3] \in Unsigned(2)
    BY <1>1, <2>3
  <2>5. /\ store(h, p[1], w[1]) = bytes(f[1], w[1])
        /\ store(h, p[2], w[2]) = bytes(f[2], w[2])
        /\ store(h, p[3], w[3]) = bytes(f[3], w[3])
    BY <1>3, <1>4, <2>3, <2>4, Zenon
  <2>6. \A i \in 1..Len(f) : i = 1 \/ i = 2 \/ i = 3
    BY <2>3
  <2> QED
    BY <2>3, <2>5, <2>6, Zenon DEF w, p
<1>7. CASE f[1] = FLOW
  <2>1. w = <<1, 1, 2, 4, 4>>
    BY <1>7 DEF CAST, FLOW, SEND, RECV, Widths
  <2>2. /\ p = <<FLOW, 0, htons(h, f[3]), htonl(h, f[4]), htonl(h, f[5])>>
        /\ f[2] = 0
    BY <1>1, <1>7 DEF CAST, FLOW, SEND, RECV, pack, pack_RUFShare_FlowPacket
  <2> HIDE DEF w, p
  <2>3. /\ w[1] = 1 /\ w[2] = 1 /\ w[3] = 2 /\ w[4] = 4 /\ w[5] = 4
        /\ Len(f) = 5 /\ Len(p) = 5
        /\ p[1] = f[1] /\ p[2] = f[2] /\ p[3] = htons(h, f[3])
        /\ p[4] = htonl(h, f[4]) /\ p[5] = htonl(h, f[5])
    BY <1>1, <1>7, <2>1, <2>2
  <2>4. /\ f[1] \in Unsigned(1) /\ f[2] \in Unsigned(1) /\ f[3] \in Unsigned(2)
        /\ f[4] \in Unsigned(4) /\ f[5] \in Unsigned(4)
    BY <1>1, <2>3
  <2>5. /\ store(h, p[1], w[1]) = bytes(f[1], w[1])
        /\ store(h, p[2], w[2]) = bytes(f[2], w[2])
        /\ store(h, p[3], w[3]) = bytes(f[3], w[3])
        /\ store(h, p[4], w[4]) = bytes(f[4], w[4])
        /\ store(h, p[5], w[5]) = bytes(f[5], w[5])
    BY <1>3, <1>4, <1>5, <2>3, <2>4, Zenon
  <2>6. \A i \in 1..Len(f) : i = 1 \/ i = 2 \/ i = 3 \/ i = 4 \/ i = 5
    BY <2>3
  <2> QED
    BY <2>3, <2>5, <2>6, Zenon DEF w, p
<1>8. CASE f[1] = SEND
  <2>1. w = <<1, 1, 2, 4, 2, 2>>
    BY <1>8 DEF CAST, FLOW, SEND, RECV, Widths
  <2>2. /\ p = <<SEND, 0, htons(h, f[3]), htonl(h, f[4]), htons(h, f[5]),
                 htons(h, f[6])>>
        /\ f[2] = 0
    BY <1>1, <1>8 DEF CAST, FLOW, SEND, RECV, pack, pack_RUFShare_SendPacket
  <2> HIDE DEF w, p
  <2>3. /\ w[1] = 1 /\ w[2] = 1 /\ w[3] = 2 /\ w[4] = 4 /\ w[5] = 2 /\ w[6] = 2
        /\ Len(f) = 6 /\ Len(p) = 6
        /\ p[1] = f[1] /\ p[2] = f[2] /\ p[3] = htons(h, f[3])
        /\ p[4] = htonl(h, f[4]) /\ p[5] = htons(h, f[5])
        /\ p[6] = htons(h, f[6])
    BY <1>1, <1>8, <2>1, <2>2
  <2>4. /\ f[1] \in Unsigned(1) /\ f[2] \in Unsigned(1) /\ f[3] \in Unsigned(2)
        /\ f[4] \in Unsigned(4) /\ f[5] \in Unsigned(2) /\ f[6] \in Unsigned(2)
    BY <1>1, <2>3
  <2>5. /\ store(h, p[1], w[1]) = bytes(f[1], w[1])
        /\ store(h, p[2], w[2]) = bytes(f[2], w[2])
        /\ store(h, p[3], w[3]) = bytes(f[3], w[3])
        /\ store(h, p[4], w[4]) = bytes(f[4], w[4])
        /\ store(h, p[5], w[5]) = bytes(f[5], w[5])
        /\ store(h, p[6], w[6]) = bytes(f[6], w[6])
    BY <1>3, <1>4, <1>5, <2>3, <2>4, Zenon
  <2>6. \A i \in 1..Len(f) :
          i = 1 \/ i = 2 \/ i = 3 \/ i = 4 \/ i = 5 \/ i = 6
    BY <2>3
  <2> QED
    BY <2>3, <2>5, <2>6, Zenon DEF w, p
<1>9. CASE f[1] = RECV
  <2>1. w = <<1, 1, 2, 4>>
    BY <1>9 DEF CAST, FLOW, SEND, RECV, Widths
  <2>2. p = <<RECV, f[2], htons(h, f[3]), htonl(h, f[4])>>
    BY <1>9 DEF CAST, FLOW, SEND, RECV, pack, pack_RUFShare_RecvPacket
  <2> HIDE DEF w, p
  <2>3. /\ w[1] = 1 /\ w[2] = 1 /\ w[3] = 2 /\ w[4] = 4
        /\ Len(f) = 4 /\ Len(p) = 4
        /\ p[1] = f[1] /\ p[2] = f[2] /\ p[3] = htons(h, f[3])
        /\ p[4] = htonl(h, f[4])
    BY <1>1, <1>9, <2>1, <2>2
  <2>4. /\ f[1] \in Unsigned(1) /\ f[2] \in Unsigned(1) /\ f[3] \in Unsigned(2)
        /\ f[4] \in Unsigned(4)
    BY <1>1, <2>3
  <2>5. /\ store(h, p[1], w[1]) = bytes(f[1], w[1])
        /\ store(h, p[2], w[2]) = bytes(f[2], w[2])
        /\ store(h, p[3], w[3]) = bytes(f[3], w[3])
        /\ store(h, p[4], w[4]) = bytes(f[4], w[4])
    BY <1>3, <1>4, <1>5, <2>3, <2>4, Zenon
  <2>6. \A i \in 1..Len(f) : i = 1 \/ i = 2 \/ i = 3 \/ i = 4
    BY <2>3
  <2> QED
    BY <2>3, <2>5, <2>6, Zenon DEF w, p
<1> QED
  BY <1>1, <1>6, <1>7, <1>8, <1>9 DEF Types

\* A part of a sequence.
LEMMA Piece ==
  ASSUME NEW S, NEW s \in Seq(S), NEW o \in Nat, NEW v \in Nat,
         o + v <= Len(s), NEW y, NEW T, y \in [1..v -> T],
         \A j \in 1..v : s[o + j] = y[j]
  PROVE  SubSeq(s, o + 1, o + v) = y
<1> DEFINE a == o + 1
           b == o + v
           x == SubSeq(s, a, b)
<1>1. Len(s) \in Nat /\ a \in Nat /\ b \in Nat /\ b <= Len(s) /\ a >= 1
  BY LenProperties
<1>2. \A k \in a..b : s[k] \in S
  <2> HIDE DEF a, b
  <2> QED
    BY <1>1, ElementOfSeq
<1>3. /\ x \in Seq(S) /\ Len(x) = IF a <= b THEN b - a + 1 ELSE 0
      /\ \A j \in 1..(b - a + 1) : x[j] = s[a + j - 1]
  <2> HIDE DEF a, b
  <2> QED
    BY <1>1, <1>2, SubSeqProperties
<1> HIDE DEF x
<1>4. Len(x) = v /\ b - a + 1 = v
  BY <1>1, <1>3
<1>5. \A j \in 1..v : x[j] = y[j]
  <2> TAKE j \in 1..v
  <2>1. a + j - 1 = o + j
    OBVIOUS
  <2> QED
    BY <1>3, <1>4, <2>1
<1>6. DOMAIN x = 1..v /\ x = [j \in 1..v |-> x[j]]
  BY <1>3, <1>4, LenProperties
<1>7. y = [j \in 1..v |-> y[j]]
  OBVIOUS
<1> QED
  BY <1>5, <1>6, <1>7 DEF x

\* What the memory of a packed structure holds.
LEMMA Image ==
  ASSUME NEW f, Fields(f), NEW h
  PROVE  LET m == image(h, pack(h, f))  w == Widths(f[1])
         IN  /\ m \in [1..sizeof(f[1]) -> Bytes]
             /\ \A i \in 1..Len(f) : \A j \in 1..w[i] :
                  /\ Offsets[i] + j \in 1..sizeof(f[1])
                  /\ m[Offsets[i] + j] = bytes(f[i], w[i])[j]
<1> DEFINE w == Widths(f[1])
           n == Len(f)
           p == pack(h, f)
           size == sizeof(f[1])
           field(k) == CHOOSE i \in 1..Len(p) : within(p[1], i, k)
           m == image(h, pack(h, f))
<1>1. /\ f[1] \in Types /\ n = Len(w)
      /\ \A i \in 1..n : f[i] \in Unsigned(w[i])
  BY DEF Fields, Types
<1>2. /\ n \in 3..6 /\ size \in 4..12
      /\ \A i \in 1..n : w[i] \in Sizes /\ Offsets[i] + w[i] <= size
      /\ \A k \in 1..size : \E i \in 1..n : within(f[1], i, k)
  <2>1. /\ w \in Seq(Sizes) /\ n \in 3..6 /\ size \in 4..12
        /\ \A i \in 1..n : Offsets[i] + w[i] <= size
        /\ \A k \in 1..size : \E i \in 1..n : k - Offsets[i] \in 1..w[i]
    BY <1>1, Layout
  <2>2. \A i \in 1..n : w[i] \in Sizes
    BY <1>1, <2>1, ElementOfSeq
  <2> HIDE DEF n, size
  <2> QED
    BY <2>1, <2>2 DEF within
<1>3. /\ Len(p) = n /\ p[1] = f[1]
      /\ \A i \in 1..n : store(h, p[i], w[i]) = bytes(f[i], w[i])
  BY PackFields, Zenon
<1>4. m = [k \in 1..sizeof(p[1]) |->
             store(h, p[field(k)], Widths(p[1])[field(k)])[k - Offsets[field(k)]]]
  BY Zenon DEF image
<1>5. ASSUME NEW k \in 1..size
      PROVE  field(k) \in 1..n /\ within(f[1], field(k), k)
  <2> HIDE DEF p, n, size
  <2> QED
    BY <1>2, <1>3, Zenon
<1>6. ASSUME NEW k \in 1..size
      PROVE  m[k] = bytes(f[field(k)], w[field(k)])[k - Offsets[field(k)]]
  <2>1. m[k] = store(h, p[field(k)], w[field(k)])[k - Offsets[field(k)]]
    <3> HIDE DEF field, m, p
    <3> QED
      BY <1>3, <1>4, Zenon
  <2> HIDE DEF field, m, p, size, n, w
  <2> QED
    BY <1>3, <1>5, <2>1, Zenon
<1>7. \A i \in 1..n : bytes(f[i], w[i]) \in [1..w[i] -> Bytes]
  BY <1>1, <1>2, BytesType, Zenon
<1>8. ASSUME NEW k \in 1..size PROVE m[k] \in Bytes
  <2>1. PICK i : i = field(k)
    OBVIOUS
  <2>2. i \in 1..n /\ k - Offsets[i] \in 1..w[i]
    BY <1>5, <2>1, Zenon DEF within
  <2> QED
    BY <1>6, <1>7, <2>1, <2>2, Zenon
<1>9. ASSUME NEW i \in 1..n, NEW j \in 1..w[i]
      PROVE  /\ Offsets[i] + j \in 1..size
             /\ m[Offsets[i] + j] = bytes(f[i], w[i])[j]
  <2>1. /\ Offsets[i] \in Nat /\ w[i] \in Nat /\ Offsets[i] + w[i] <= size
        /\ size \in Nat
    <3> HIDE DEF n, w, size
    <3>1. i \in 1..6
      BY <1>2
    <3> QED
      BY <1>2, <3>1, OffsetOrder DEF Sizes
  <2>2. PICK k : k = Offsets[i] + j
    OBVIOUS
  <2>3. k \in 1..size /\ k \in Nat /\ k - Offsets[i] = j
    <3> HIDE DEF w, size
    <3> QED
      BY <2>1, <2>2
  <2>4. within(f[1], i, k)
    BY <2>3 DEF within
  <2>5. field(k) = i
    BY <1>1, <1>5, <2>3, <2>4, Disjoint, Zenon
  <2> QED
    BY <1>6, <2>2, <2>3, <2>5, Zenon
<1>10. m \in [1..size -> Bytes]
  <2>1. m = [k \in 1..size |-> m[k]]
    <3> HIDE DEF field, p
    <3> QED
      BY <1>3, <1>4
  <2> HIDE DEF m, size
  <2> QED
    BY <1>8, <2>1
<1> QED
  BY <1>9, <1>10, Zenon

\* The structure is in front of bs.
Carries(h, f, bs) ==
  /\ Len(bs) >= sizeof(f[1])
  /\ \A k \in 1..sizeof(f[1]) : bs[k] = image(h, pack(h, f))[k]

\* The receiver finds the fields in the bytes, whatever the byte orders.
LEMMA Converted ==
  ASSUME NEW f, Fields(f), NEW h, NEW g, NEW S, NEW bs \in Seq(S),
         Carries(h, f, bs)
  PROVE  convert(g, structure(g, f[1], bs)) = f
<1> DEFINE w == Widths(f[1])
           n == Len(f)
           size == sizeof(f[1])
           m == image(h, pack(h, f))
           p == structure(g, f[1], bs)
<1>1. /\ f[1] \in Types /\ n = Len(w) /\ f \in Seq(Nat)
      /\ \A i \in 1..n : f[i] \in Unsigned(w[i])
      /\ f[1] # RECV => f[2] = 0
  BY DEF Fields, Types
<1>2. /\ n \in 3..6 /\ size \in 4..12
      /\ \A i \in 1..n : w[i] \in Sizes /\ Offsets[i] + w[i] <= size
                         /\ Offsets[i] \in Nat
  <2>1. /\ w \in Seq(Sizes) /\ n \in 3..6 /\ size \in 4..12
        /\ \A i \in 1..n : Offsets[i] + w[i] <= size
    BY <1>1, Layout
  <2>2. \A i \in 1..n : w[i] \in Sizes
    BY <1>1, <2>1, ElementOfSeq
  <2>3. \A i \in 1..n : i \in 1..6
    <3> HIDE DEF n
    <3> QED
      BY <2>1
  <2> QED
    BY <2>1, <2>2, <2>3, OffsetOrder, Zenon
<1>3. ASSUME NEW i \in 1..n
      PROVE  SubSeq(bs, Offsets[i] + 1, Offsets[i] + w[i]) = bytes(f[i], w[i])
  <2> DEFINE o == Offsets[i]
             v == w[i]
             y == bytes(f[i], v)
  <2>1. o \in Nat /\ v \in Nat /\ o + v <= size /\ v \in Sizes /\ size \in Nat
    <3> HIDE DEF size, w, n
    <3> QED
      BY <1>2 DEF Sizes
  <2>2. y \in [1..v -> Bytes]
    BY <1>1, <2>1, BytesType, Zenon
  <2>3. \A j \in 1..v : m[o + j] = y[j] /\ o + j \in 1..size
    BY Image, Zenon
  <2>4. Len(bs) \in Nat /\ Len(bs) >= size /\ \A k \in 1..size : bs[k] = m[k]
    BY LenProperties DEF Carries
  <2> HIDE DEF o, v, y, size, m
  <2>5. o + v <= Len(bs) /\ \A j \in 1..v : bs[o + j] = y[j]
    BY <2>1, <2>3, <2>4
  <2>6. SubSeq(bs, o + 1, o + v) = y
    BY <2>1, <2>2, <2>5, Piece
  <2> QED
    BY <2>6 DEF o, v, y
<1>4. p = [i \in 1..n |-> load(g, bytes(f[i], w[i]))]
  BY <1>1, <1>3, Zenon DEF structure
<1>5. 1 \in Sizes /\ 2 \in Sizes /\ 4 \in Sizes
  BY DEF Sizes
<1>6. ASSUME NEW v \in Unsigned(1) PROVE load(g, bytes(v, 1)) = v
  BY SingleByte, Zenon
<1>7. ASSUME NEW v \in Unsigned(2) PROVE ntohs(g, load(g, bytes(v, 2))) = v
  BY <1>5, HostOrder, Zenon DEF ntohs
<1>8. ASSUME NEW v \in Unsigned(4) PROVE ntohl(g, load(g, bytes(v, 4))) = v
  BY <1>5, HostOrder, Zenon DEF ntohl
<1> HIDE DEF p, size, m
<1>9. CASE f[1] = CAST
  <2>1. w = <<1, 1, 2>>
    BY <1>9 DEF CAST, FLOW, SEND, RECV, Widths
  <2> HIDE DEF w
  <2>2. n = 3 /\ w[1] = 1 /\ w[2] = 1 /\ w[3] = 2
    BY <1>1, <2>1
  <2>3. f[1] \in Unsigned(1) /\ f[3] \in Unsigned(2)
    BY <1>1, <2>2
  <2>4. p[1] = load(g, bytes(f[1], 1)) /\ p[3] = load(g, bytes(f[3], 2))
    BY <1>4, <2>2
  <2>5. p[1] = f[1] /\ ntohs(g, p[3]) = f[3]
    BY <1>6, <1>7, <2>3, <2>4, Zenon
  <2>6. convert(g, p) = <<p[1], 0, ntohs(g, p[3])>>
    BY <1>9, <2>5 DEF CAST, FLOW, SEND, RECV, convert, convert_CastPacket_byteorder
  <2>7. f[2] = 0
    BY <1>1, <1>9 DEF CAST, RECV
  <2>8. f = <<f[1], f[2], f[3]>>
    BY <1>1, <2>2
  <2> QED
    BY <2>5, <2>6, <2>7, <2>8, Zenon DEF p
<1>10. CASE f[1] = FLOW
  <2>1. w = <<1, 1, 2, 4, 4>>
    BY <1>10 DEF CAST, FLOW, SEND, RECV, Widths
  <2> HIDE DEF w
  <2>2. n = 5 /\ w[1] = 1 /\ w[2] = 1 /\ w[3] = 2 /\ w[4] = 4 /\ w[5] = 4
    BY <1>1, <2>1
  <2>3. /\ f[1] \in Unsigned(1) /\ f[3] \in Unsigned(2) /\ f[4] \in Unsigned(4)
        /\ f[5] \in Unsigned(4)
    BY <1>1, <2>2
  <2>4. /\ p[1] = load(g, bytes(f[1], 1)) /\ p[3] = load(g, bytes(f[3], 2))
        /\ p[4] = load(g, bytes(f[4], 4)) /\ p[5] = load(g, bytes(f[5], 4))
    BY <1>4, <2>2
  <2>5. /\ p[1] = f[1] /\ ntohs(g, p[3]) = f[3] /\ ntohl(g, p[4]) = f[4]
        /\ ntohl(g, p[5]) = f[5]
    BY <1>6, <1>7, <1>8, <2>3, <2>4, Zenon
  <2>6. convert(g, p) =
          <<p[1], 0, ntohs(g, p[3]), ntohl(g, p[4]), ntohl(g, p[5])>>
    BY <1>10, <2>5 DEF CAST, FLOW, SEND, RECV, convert, convert_FlowPacket_byteorder
  <2>7. f[2] = 0
    BY <1>1, <1>10 DEF FLOW, RECV
  <2>8. f = <<f[1], f[2], f[3], f[4], f[5]>>
    BY <1>1, <2>2
  <2> QED
    BY <2>5, <2>6, <2>7, <2>8, Zenon DEF p
<1>11. CASE f[1] = SEND
  <2>1. w = <<1, 1, 2, 4, 2, 2>>
    BY <1>11 DEF CAST, FLOW, SEND, RECV, Widths
  <2> HIDE DEF w
  <2>2. /\ n = 6 /\ w[1] = 1 /\ w[2] = 1 /\ w[3] = 2 /\ w[4] = 4 /\ w[5] = 2
        /\ w[6] = 2
    BY <1>1, <2>1
  <2>3. /\ f[1] \in Unsigned(1) /\ f[3] \in Unsigned(2) /\ f[4] \in Unsigned(4)
        /\ f[5] \in Unsigned(2) /\ f[6] \in Unsigned(2)
    BY <1>1, <2>2
  <2>4. /\ p[1] = load(g, bytes(f[1], 1)) /\ p[3] = load(g, bytes(f[3], 2))
        /\ p[4] = load(g, bytes(f[4], 4)) /\ p[5] = load(g, bytes(f[5], 2))
        /\ p[6] = load(g, bytes(f[6], 2))
    BY <1>4, <2>2
  <2>5. /\ p[1] = f[1] /\ ntohs(g, p[3]) = f[3] /\ ntohl(g, p[4]) = f[4]
        /\ ntohs(g, p[5]) = f[5] /\ ntohs(g, p[6]) = f[6]
    BY <1>6, <1>7, <1>8, <2>3, <2>4, Zenon
  <2>6. convert(g, p) =
          <<p[1], 0, ntohs(g, p[3]), ntohl(g, p[4]), ntohs(g, p[5]),
            ntohs(g, p[6])>>
    BY <1>11, <2>5 DEF CAST, FLOW, SEND, RECV, convert, convert_SendPacket_byteorder
  <2>7. f[2] = 0
    BY <1>1, <1>11 DEF SEND, RECV
  <2>8. f = <<f[1], f[2], f[3], f[4], f[5], f[6]>>
    BY <1>1, <2>2
  <2> QED
    BY <2>5, <2>6, <2>7, <2>8, Zenon DEF p
<1>12. CASE f[1] = RECV
  <2>1. w = <<1, 1, 2, 4>>
    BY <1>12 DEF CAST, FLOW, SEND, RECV, Widths
  <2> HIDE DEF w
  <2>2. n = 4 /\ w[1] = 1 /\ w[2] = 1 /\ w[3] = 2 /\ w[4] = 4
    BY <1>1, <2>1
  <2>3. /\ f[1] \in Unsigned(1) /\ f[2] \in Unsigned(1) /\ f[3] \in Unsigned(2)
        /\ f[4] \in Unsigned(4)
    BY <1>1, <2>2
  <2>4. /\ p[1] = load(g, bytes(f[1], 1)) /\ p[2] = load(g, bytes(f[2], 1))
        /\ p[3] = load(g, bytes(f[3], 2)) /\ p[4] = load(g, bytes(f[4], 4))
    BY <1>4, <2>2
  <2>5. /\ p[1] = f[1] /\ p[2] = f[2] /\ ntohs(g, p[3]) = f[3]
        /\ ntohl(g, p[4]) = f[4]
    BY <1>6, <1>7, <1>8, <2>3, <2>4, Zenon
  <2>6. convert(g, p) = <<p[1], p[2], ntohs(g, p[3]), ntohl(g, p[4])>>
    BY <1>12, <2>5 DEF CAST, FLOW, SEND, RECV, convert, convert_RecvPacket_byteorder
  <2>8. f = <<f[1], f[2], f[3], f[4]>>
    BY <1>1, <2>2
  <2> QED
    BY <2>5, <2>6, <2>8, Zenon DEF p
<1> QED
  BY <1>1, <1>9, <1>10, <1>11, <1>12 DEF Types

-----------------------------------------------------------------------------
(***************************************************************************)
(* The info string.                                                        *)
(***************************************************************************)
\* What the stream carries, and the characters of a string.
Cells == Nat \union Chars \union {NUL}
Letters == Chars \ {NUL}

\* What a packet announces.
Announces(a) ==
  /\ a \in Config /\ a.filename # << >> /\ a.name # << >> /\ a.port \in Ports
  /\ Len(a.ip) \in 1..(MAXIPV4SIZE - 1) /\ ~Contains(a.ip, ":")

\* The strings of an announcement.
LEMMA AnnouncedStrings ==
  ASSUME NEW a, Announces(a)
  PROVE  /\ a.filename \in Seq(Letters) /\ a.name \in Seq(Letters)
         /\ a.ip \in Seq(Letters) /\ a.port \in Letters
         /\ Spelled(a) /\ ":" \in Letters /\ "@" \in Letters
         /\ \E N : a \in [filename : N, name : N, ip : N, port : Ports]
<1>1. /\ a.filename \in Seq(STRING \ {NUL}) /\ a.name \in Seq(STRING \ {NUL})
      /\ a.ip \in Seq(STRING \ {NUL}) /\ a.port \in Ports
      /\ a \in [filename : Seq(STRING \ {NUL}), name : Seq(STRING \ {NUL}),
                ip : Seq(STRING \ {NUL}), port : Ports]
  BY DEF Announces, Config
<1>2. STRING \ {NUL} \subseteq Letters /\ Letters \subseteq Chars
  BY Zenon DEF Letters, Chars
<1>3. a.port \in Letters
  BY <1>1, <1>2, WireAssumption, Zenon
<1>4. /\ a.filename \in Seq(Letters) /\ a.name \in Seq(Letters)
      /\ a.ip \in Seq(Letters)
  BY <1>1, <1>2, SeqMonotonic, Zenon
<1>5. Spelled(a)
  BY <1>1, <1>2, <1>4, SeqMonotonic, Zenon DEF Spelled
<1>6. ":" \in Letters /\ "@" \in Letters
  BY DEF Letters, Chars, NUL
<1> QED
  BY <1>1, <1>3, <1>4, <1>5, <1>6, Zenon

\* The string of an announcement ends before the buffer does.
LEMMA AnnouncedLine ==
  ASSUME NEW a, Announces(a)
  PROVE  LET s == pack_into_infostring(stored(a))
             f == cut(a.filename, MAXFILENAMESIZE - 1)
             n == cut(a.name, MAXNAMESIZE - 1)
         IN  /\ s = Line(f, n, a.ip, a.port)
             /\ s \in Seq(Letters) /\ Len(s) <= INFOSTRSIZE - 1
<1>1. /\ a.filename \in Seq(Letters) /\ a.name \in Seq(Letters)
      /\ a.ip \in Seq(Letters) /\ a.port \in Letters
      /\ Spelled(a) /\ ":" \in Letters /\ "@" \in Letters
  BY AnnouncedStrings, Zenon
<1>2. PICK f \in Seq(Letters) : f = cut(a.filename, MAXFILENAMESIZE - 1)
  BY <1>1, FieldSizes, CutShort, Zenon
<1>3. PICK n \in Seq(Letters) : n = cut(a.name, MAXNAMESIZE - 1)
  BY <1>1, FieldSizes, CutShort, Zenon
<1>4. cut(a.ip, MAXIPV4SIZE - 1) = a.ip
  <2>1. Len(a.ip) <= MAXIPV4SIZE - 1 /\ MAXIPV4SIZE - 1 \in Nat
    BY FieldSizes DEF Announces
  <2> QED
    BY <1>1, <2>1, CutFacts, Zenon
<1>5. PICK N : a \in [filename : N, name : N, ip : N, port : Ports]
  BY AnnouncedStrings, Zenon
<1> DEFINE s == pack_into_infostring(stored(a))
<1>6. s = Line(f, n, a.ip, a.port) /\ Len(s) <= INFOSTRSIZE - 1
  BY <1>1, <1>2, <1>3, <1>4, <1>5, PackedCopy, Zenon
<1>7. Line(f, n, a.ip, a.port) \in Seq(Letters)
  <2>1. PICK i \in Seq(Letters) : i = a.ip
    BY <1>1, Zenon
  <2>2. \A c \in Letters : <<c>> \in Seq(Letters)
    OBVIOUS
  <2>3. PICK x \in Seq(Letters) : x = <<":">>
    BY <1>1, <2>2, Zenon
  <2>4. PICK y \in Seq(Letters) : y = <<"@">>
    BY <1>1, <2>2, Zenon
  <2>5. PICK p \in Seq(Letters) : p = <<a.port>>
    BY <1>1, <2>2, Zenon
  <2>6. (f \o x) \o ((n \o y) \o ((i \o x) \o p)) \in Seq(Letters)
    BY SMTT(30)
  <2> QED
    BY <2>1, <2>3, <2>4, <2>5, <2>6, Zenon DEF Line, Address
<1> QED
  BY <1>2, <1>3, <1>6, <1>7, Zenon

\* The receiver's buffer, read up to the first zero, is the string.
LEMMA InfoBuffer ==
  ASSUME NEW a, Announces(a)
  PROVE  /\ infobuf(a) \in Seq(Cells) /\ Len(infobuf(a)) = INFOSTRSIZE
         /\ scan(infobuf(a), NUL, INFOSTRSIZE) = pack_into_infostring(stored(a))
<1>1. PICK s : s = pack_into_infostring(stored(a))
  OBVIOUS
<1>2. s \in Seq(Letters) /\ Len(s) <= INFOSTRSIZE - 1 /\ Len(s) \in Nat
  BY <1>1, AnnouncedLine, LenProperties
<1>3. Letters \subseteq Cells /\ NUL \in Cells /\ NUL \notin Letters
  BY Zenon DEF Letters, Cells
<1>4. s \in Seq(Cells)
  BY <1>2, <1>3, SeqMonotonic, Zenon
<1>5. INFOSTRSIZE \in Nat
  BY FieldSizes
<1> DEFINE n == INFOSTRSIZE - Len(s)
           t == [k \in 1..n |-> NUL]
           u == [k \in 1..(n - 1) |-> NUL]
           b == s \o t
<1>6. n \in Nat /\ n >= 1 /\ n - 1 \in Nat /\ Len(s) + n = INFOSTRSIZE
  BY <1>2, <1>5
<1> HIDE DEF n
<1>7. t \in Seq(Cells) /\ Len(t) = n /\ \A k \in 1..n : t[k] = NUL
  BY <1>3, <1>6
<1>8. u \in Seq(Cells) /\ Len(u) = n - 1 /\ \A k \in 1..(n - 1) : u[k] = NUL
  BY <1>3, <1>6
<1> HIDE DEF t, u
<1>9. /\ b \in Seq(Cells) /\ Len(b) = Len(s) + Len(t)
      /\ \A i \in 1..(Len(s) + Len(t)) :
           b[i] = IF i <= Len(s) THEN s[i] ELSE t[i - Len(s)]
  BY <1>4, <1>7, ConcatProperties
<1> HIDE DEF b
<1>10. Len(b) = INFOSTRSIZE
  BY <1>6, <1>7, <1>9
<1>11. ~Contains(s, NUL)
  <2>1. \A i \in 1..Len(s) : s[i] \in Letters
    BY <1>2, ElementOfSeq
  <2> QED
    BY <1>3, <2>1 DEF Contains
<1>12. \A i \in 1..Len(s) : b[i] = s[i]
  BY <1>2, <1>6, <1>7, <1>9
<1>13. \A i \in 1..n : b[Len(s) + i] = NUL
  <2> TAKE i \in 1..n
  <2>1. PICK k : k = Len(s) + i
    OBVIOUS
  <2>2. k \in 1..(Len(s) + Len(t)) /\ ~(k <= Len(s)) /\ k - Len(s) = i
    BY <1>2, <1>6, <1>7, <2>1
  <2>3. b[k] = t[k - Len(s)]
    BY <1>9, <2>2
  <2> QED
    BY <1>7, <2>1, <2>2, <2>3
<1>14. Join(Cells, b, s, NUL, u)
  <2>1. Len(b) = Len(s) + 1 + Len(u)
    BY <1>2, <1>6, <1>8, <1>10
  <2>2. b[Len(s) + 1] = NUL
    BY <1>6, <1>13
  <2>3. \A i \in 1..Len(u) : b[Len(s) + 1 + i] = u[i]
    <3> TAKE i \in 1..Len(u)
    <3>1. i \in 1..(n - 1) /\ i + 1 \in 1..n /\ Len(s) + (i + 1) = Len(s) + 1 + i
      BY <1>2, <1>6, <1>8
    <3>2. b[Len(s) + (i + 1)] = NUL
      BY <1>13, <3>1
    <3> QED
      BY <1>8, <3>1, <3>2
  <2> QED
    BY <1>9, <1>12, <2>1, <2>2, <2>3, Zenon DEF Join
<1>15. Len(s) <= INFOSTRSIZE
  BY <1>2, <1>5
<1>16. Field(Cells, b, s, NUL, u, INFOSTRSIZE)
  BY <1>3, <1>4, <1>5, <1>8, <1>11, <1>14, <1>15, Zenon DEF Field
<1>17. scan(b, NUL, INFOSTRSIZE) = s
  <2>1. Reads(b, s, NUL, u, INFOSTRSIZE)
    BY <1>16, ScanField, Zenon
  <2> QED
    BY <2>1, Zenon DEF Reads
<1>18. infobuf(a) = b
  BY <1>1, Zenon DEF infobuf, b, t, n
<1> QED
  BY <1>1, <1>9, <1>10, <1>17, <1>18, Zenon

\* The receiver's structure has all its fields, and its names fit.
HeaderFields == {"filename", "name", "ip", "port"}
Tidy(h) ==
  /\ ~Contains(h.filename, ":") /\ ~Contains(h.name, "@")
  /\ Len(h.filename) \in 0..(MAXFILENAMESIZE - 1)
  /\ Len(h.name) \in 0..(MAXNAMESIZE - 1)
Holds(h) == DOMAIN h = HeaderFields /\ Tidy(h)

\* What the format finds of the names fits their fields.
LEMMA NamesFound ==
  ASSUME NEW s \in Seq(Letters)
  PROVE  LET r == sscanf(s)
         IN  /\ "filename" \in DOMAIN r =>
                  /\ ~Contains(r["filename"], ":")
                  /\ Len(r["filename"]) \in 1..(MAXFILENAMESIZE - 1)
             /\ "name" \in DOMAIN r =>
                  /\ ~Contains(r["name"], "@")
                  /\ Len(r["name"]) \in 1..(MAXNAMESIZE - 1)
<1>1. PICK f : f = scan(s, ":", MAXFILENAMESIZE - 1)
  OBVIOUS
<1>2. /\ f \in Seq(Letters) /\ Len(f) <= MAXFILENAMESIZE - 1
      /\ ~Contains(f, ":") /\ Len(f) \in Nat
  <2>1. /\ f \in Seq(Letters) /\ Len(f) <= MAXFILENAMESIZE - 1
        /\ ~Contains(f, ":")
    BY <1>1, FieldSizes, ScanResult, Zenon
  <2> QED
    BY <2>1, LenProperties, Zenon
<1>3. PICK s1 : s1 = rest(s, f)
  OBVIOUS
<1>4. s1 \in Seq(Letters)
  <2> DEFINE m == Len(f) + 2
  <2>1. m \in Nat /\ m >= 1 /\ Len(s) \in Nat
    BY <1>2, LenProperties
  <2> HIDE DEF m
  <2>2. \A k \in m..Len(s) : s[k] \in Letters
    BY <2>1, ElementOfSeq
  <2>3. SubSeq(s, m, Len(s)) \in Seq(Letters)
    BY <2>1, <2>2, SubSeqProperties
  <2> QED
    BY <1>3, <2>3 DEF rest, m
<1>5. PICK n : n = scan(s1, "@", MAXNAMESIZE - 1)
  OBVIOUS
<1>6. /\ Len(n) <= MAXNAMESIZE - 1 /\ ~Contains(n, "@") /\ Len(n) \in Nat
      /\ n \in Seq(Letters)
  <2>1. /\ n \in Seq(Letters) /\ Len(n) <= MAXNAMESIZE - 1
        /\ ~Contains(n, "@")
    BY <1>4, <1>5, FieldSizes, ScanResult, Zenon
  <2> QED
    BY <2>1, LenProperties, Zenon
<1> DEFINE s2 == rest(s1, n)
           a == scan(s2, ":", MAXIPV4SIZE - 1)
           s3 == rest(s2, a)
           hasname == f # << >> /\ follows(s, f, ":") /\ n # << >>
           hasip == hasname /\ follows(s1, n, "@") /\ a # << >>
           hasport == hasip /\ follows(s2, a, ":") /\ s3 # << >> /\ s3[1] \in Ports
           all == [filename |-> f, name |-> n, ip |-> a,
                   port |-> IF hasport THEN s3[1] ELSE ""]
           reads == [filename |-> f # << >>, name |-> hasname, ip |-> hasip,
                     port |-> hasport]
           D == {k \in DOMAIN all : reads[k]}
<1>7. sscanf(s) = Restrict(all, D)
  BY <1>1, <1>3, <1>5, Zenon DEF sscanf
<1>8. sscanf(s) = [k \in D |-> all[k]]
  BY <1>7, Zenon DEF Restrict
<1>9. ("filename" \in D => f # << >>) /\ ("name" \in D => n # << >>)
  <2> HIDE DEF all, hasip, hasport
  <2> QED
    OBVIOUS
<1>10. all["filename"] = f /\ all["name"] = n
  <2> HIDE DEF hasport, a
  <2> QED
    OBVIOUS
<1> HIDE DEF all, D
<1>11. PICK r : r = sscanf(s)
  OBVIOUS
<1>12. /\ "filename" \in DOMAIN r => r["filename"] = f /\ f # << >>
       /\ "name" \in DOMAIN r => r["name"] = n /\ n # << >>
  BY <1>8, <1>9, <1>10, <1>11
<1>13. /\ f # << >> => Len(f) \in 1..(MAXFILENAMESIZE - 1)
       /\ n # << >> => Len(n) \in 1..(MAXNAMESIZE - 1)
  <2>1. (f # << >> => Len(f) # 0) /\ (n # << >> => Len(n) # 0)
    BY <1>2, <1>6, EmptySeq
  <2>2. MAXFILENAMESIZE - 1 \in Nat /\ MAXNAMESIZE - 1 \in Nat
    BY FieldSizes
  <2> QED
    BY <1>2, <1>6, <2>1, <2>2
<1> QED
  BY <1>2, <1>6, <1>11, <1>12, <1>13, Zenon

\* So the receiver's structure still has names that fit.
LEMMA StillHolds ==
  ASSUME NEW s \in Seq(Letters), NEW h, Holds(h)
  PROVE  Holds(unpack_from_infostring(s, h))
<1>1. PICK r : r = sscanf(s)
  OBVIOUS
<1>2. /\ "filename" \in DOMAIN r =>
           /\ ~Contains(r["filename"], ":")
           /\ Len(r["filename"]) \in 0..(MAXFILENAMESIZE - 1)
      /\ "name" \in DOMAIN r =>
           /\ ~Contains(r["name"], "@")
           /\ Len(r["name"]) \in 0..(MAXNAMESIZE - 1)
  <2>1. /\ 1..(MAXFILENAMESIZE - 1) \subseteq 0..(MAXFILENAMESIZE - 1)
        /\ 1..(MAXNAMESIZE - 1) \subseteq 0..(MAXNAMESIZE - 1)
    BY FieldSizes
  <2> QED
    BY <1>1, <2>1, NamesFound, Zenon
<1>3. /\ DOMAIN h = HeaderFields
      /\ ~Contains(h.filename, ":") /\ ~Contains(h.name, "@")
      /\ Len(h.filename) \in 0..(MAXFILENAMESIZE - 1)
      /\ Len(h.name) \in 0..(MAXNAMESIZE - 1)
  BY Zenon DEF Holds, Tidy
<1>4. PICK g : g = unpack_from_infostring(s, h)
  OBVIOUS
<1>5. g = [k \in HeaderFields |-> IF k \in DOMAIN r THEN r[k] ELSE h[k]]
  BY <1>1, <1>3, <1>4, Zenon DEF unpack_from_infostring, keep
<1>6. /\ DOMAIN g = HeaderFields
      /\ g.filename = IF "filename" \in DOMAIN r THEN r["filename"] ELSE h.filename
      /\ g.name = IF "name" \in DOMAIN r THEN r["name"] ELSE h.name
  BY <1>5 DEF HeaderFields
<1>7. Tidy(g)
  BY <1>2, <1>3, <1>6, Zenon DEF Tidy
<1> QED
  BY <1>4, <1>6, <1>7, Zenon DEF Holds

\* A well-formed announcement is recovered.
LEMMA Recovered ==
  ASSUME NEW a, Announces(a), WellFormed(a), NEW h, Holds(h)
  PROVE  unpack_from_infostring(pack_into_infostring(stored(a)), h) = a
<1>1. PICK N : a \in [filename : N, name : N, ip : N, port : Ports]
  BY AnnouncedStrings, Zenon
<1>2. Fits(a)
  BY AnnouncedStrings, Zenon DEF Fits, Announces
<1>3. sscanf(pack_into_infostring(stored(a))) = a
  BY <1>1, <1>2, FieldsRead, Zenon
<1>4. DOMAIN h = HeaderFields
  BY Zenon DEF Holds
<1>5. unpack_from_infostring(pack_into_infostring(stored(a)), h) =
        [k \in HeaderFields |-> IF k \in DOMAIN a THEN a[k] ELSE h[k]]
  BY <1>3, <1>4, Zenon DEF unpack_from_infostring, keep
<1>6. DOMAIN a = HeaderFields /\ a = [k \in HeaderFields |-> a[k]]
  BY <1>1 DEF HeaderFields
<1> QED
  BY <1>5, <1>6

\* The parts of a string before and behind a colon.
LEMMA Cleft ==
  ASSUME NEW f \in Seq(Letters), NEW k \in 1..Len(f), f[k] = ":"
  PROVE  \E u \in Seq(Letters), v \in Seq(Letters) :
           /\ f = (u \o <<":">>) \o v
           /\ Len(u) = k - 1 /\ Len(v) = Len(f) - k
           /\ \A j \in 1..Len(u) : u[j] = f[j]
           /\ \A j \in 1..Len(v) : v[j] = f[k + j]
<1>1. Len(f) \in Nat /\ k \in Nat /\ k >= 1 /\ k <= Len(f) /\ \A j \in 1..Len(f) : f[j] \in Letters
  BY LenProperties, ElementOfSeq
<1> DEFINE m == k - 1
           n == Len(f) - k
           u == [j \in 1..m |-> f[j]]
           v == [j \in 1..n |-> f[k + j]]
<1>2. m \in Nat /\ n \in Nat /\ k = m + 1 /\ Len(f) = k + n
  BY <1>1
<1>3. /\ \A j \in 1..m : j \in 1..Len(f)
      /\ \A j \in 1..n : k + j \in 1..Len(f)
  BY <1>1
<1> HIDE DEF m, n
<1>4. /\ u \in Seq(Letters) /\ Len(u) = m /\ \A j \in 1..m : u[j] = f[j]
  BY <1>1, <1>2, <1>3
<1>5. /\ v \in Seq(Letters) /\ Len(v) = n /\ \A j \in 1..n : v[j] = f[k + j]
  BY <1>1, <1>2, <1>3
<1> HIDE DEF u, v
<1>6. ":" \in Letters
  BY DEF Letters, Chars, NUL
<1>7. PICK g : g = (u \o <<":">>) \o v
  OBVIOUS
<1>8. Join(Letters, g, u, ":", v)
  BY <1>4, <1>5, <1>6, <1>7, Joined, Zenon
<1>9. /\ g \in Seq(Letters) /\ Len(g) = m + 1 + n /\ g[m + 1] = ":"
      /\ \A j \in 1..m : g[j] = u[j]
      /\ \A j \in 1..n : g[m + 1 + j] = v[j]
  BY <1>4, <1>5, <1>8 DEF Join
<1>10. \A j \in 1..Len(f) : g[j] = f[j]
  <2> TAKE j \in 1..Len(f)
  <2>1. CASE j \in 1..m
    BY <1>4, <1>9, <2>1
  <2>2. CASE j = k
    BY <1>2, <1>9, <2>2
  <2>3. CASE j > k
    <3>1. PICK i : i = j - k
      OBVIOUS
    <3>2. i \in 1..n /\ m + 1 + i = j /\ k + i = j
      BY <1>1, <1>2, <2>3, <3>1
    <3> QED
      BY <1>5, <1>9, <3>2
  <2> QED
    BY <1>1, <1>2, <2>1, <2>2, <2>3
<1>11. g = f
  <2>1. Len(g) = Len(f)
    BY <1>1, <1>2, <1>9
  <2> QED
    BY <1>9, <1>10, <2>1, SeqEqual
<1> QED
  BY <1>4, <1>5, <1>7, <1>11 DEF m, n

\* A colon in the file name moves the border between the names and leaves the
\* address alone: the string has parts that fit.
LEMMA SeparableLine ==
  ASSUME NEW a, Announces(a), Separable(a), 1 <= MAXFILENAMESIZE - 1
  PROVE  \E f, n : /\ Parts(f, n, a.ip, a.port)
                   /\ pack_into_infostring(stored(a)) = Line(f, n, a.ip, a.port)
<1>1. /\ a.filename \in Seq(Letters) /\ a.name \in Seq(Letters)
      /\ a.ip \in Seq(Letters) /\ a.port \in Ports /\ a.port \in Letters
      /\ a.filename # << >> /\ a.name # << >>
      /\ Len(a.ip) \in 1..(MAXIPV4SIZE - 1) /\ ~Contains(a.ip, ":")
      /\ ":" \in Letters /\ "@" \in Letters
  BY AnnouncedStrings, Zenon DEF Announces
<1>a. PICK fn \in Seq(Letters), nm \in Seq(Letters) :
        fn = a.filename /\ nm = a.name /\ fn # << >> /\ nm # << >>
  BY <1>1, Zenon
<1>3. /\ Len(fn) \in Nat \ {0} /\ Len(nm) \in Nat \ {0}
  BY <1>a, LenProperties, EmptySeq
<1>4. PICK f, m : f = cut(fn, MAXFILENAMESIZE - 1) /\ m = cut(nm, MAXNAMESIZE - 1)
  OBVIOUS
<1>2. /\ f[1] # ":" /\ ~Contains(m, "@")
      /\ \A k \in 1..Len(f) : f[k] = ":" =>
           /\ Len(f) - k + 1 + Len(m) < MAXNAMESIZE
           /\ \A j \in k..Len(f) : f[j] # "@"
  <2>1. f = cut(a.filename, MAXFILENAMESIZE - 1) /\ m = cut(a.name, MAXNAMESIZE - 1)
    BY <1>a, <1>4, Zenon
  <2> QED
    BY <2>1, SMT DEF Separable
<1>5. /\ f \in Seq(Letters) /\ Len(f) \in 1..(MAXFILENAMESIZE - 1)
  <2>1. MAXFILENAMESIZE - 1 \in Nat
    BY FieldSizes
  <2>2. /\ f \in Seq(Letters)
        /\ Len(f) = IF Len(fn) < MAXFILENAMESIZE - 1
                    THEN Len(fn) ELSE MAXFILENAMESIZE - 1
    BY <1>4, <2>1, CutFacts
  <2> QED
    BY <1>3, <2>1, <2>2
<1>6. m \in Seq(Letters) /\ Len(m) \in 1..(MAXNAMESIZE - 1)
  <2>1. MAXNAMESIZE - 1 \in Nat /\ 1 <= MAXNAMESIZE - 1
    BY InfostrAssumption
  <2>2. /\ m \in Seq(Letters)
        /\ Len(m) = IF Len(nm) < MAXNAMESIZE - 1 THEN Len(nm) ELSE MAXNAMESIZE - 1
    BY <1>4, <2>1, CutFacts
  <2> QED
    BY <1>3, <2>1, <2>2
<1>7. pack_into_infostring(stored(a)) = Line(f, m, a.ip, a.port)
  BY <1>a, <1>4, AnnouncedLine, Zenon
<1>8. \A t : t \in Seq(Letters) => t \in Seq(Chars)
  <2>1. Letters \subseteq Chars
    BY Zenon DEF Letters
  <2> QED
    BY <2>1, SeqMonotonic, Zenon
<1>9. CASE ~Contains(f, ":")
  <2>1. Parts(f, m, a.ip, a.port)
    BY <1>1, <1>2, <1>5, <1>6, <1>8, <1>9, Zenon DEF Parts
  <2> QED
    BY <1>7, <2>1
<1>10. CASE Contains(f, ":")
  <2>1. PICK k \in 1..Len(f) : f[k] = ":" /\ \A j \in 1..(k - 1) : f[j] # ":"
    BY <1>5, <1>10, FirstPlace
  <2>2. PICK u \in Seq(Letters), v \in Seq(Letters) :
          /\ f = (u \o <<":">>) \o v
          /\ Len(u) = k - 1 /\ Len(v) = Len(f) - k
          /\ \A j \in 1..Len(u) : u[j] = f[j]
          /\ \A j \in 1..Len(v) : v[j] = f[k + j]
    BY <1>5, <2>1, Cleft
  <2>3. k > 1
    BY <1>2, <1>5, <2>1
  <2>4. Len(u) \in 1..(MAXFILENAMESIZE - 1) /\ ~Contains(u, ":")
    BY <1>5, <2>1, <2>2, <2>3, FieldSizes DEF Contains
  <2>5. \A j \in 1..Len(v) : v[j] # "@"
    <3> TAKE j \in 1..Len(v)
    <3>1. k + j \in k..Len(f)
      BY <1>5, <2>1, <2>2
    <3> QED
      BY <1>2, <2>1, <2>2, <3>1
  <2>6. PICK n : n = (v \o <<":">>) \o m
    OBVIOUS
  <2>7. Join(Letters, n, v, ":", m)
    BY <1>1, <1>6, <2>6, Joined, Zenon
  <2>8. /\ n \in Seq(Letters) /\ Len(n) = Len(v) + 1 + Len(m)
        /\ n[Len(v) + 1] = ":" /\ \A j \in 1..Len(v) : n[j] = v[j]
        /\ \A j \in 1..Len(m) : n[Len(v) + 1 + j] = m[j]
    BY <2>7, Zenon DEF Join
  <2>9. Len(n) \in 1..(MAXNAMESIZE - 1)
    <3>1. Len(f) - k + 1 + Len(m) < MAXNAMESIZE
      BY <1>2, <2>1
    <3> QED
      BY <1>5, <1>6, <2>1, <2>2, <2>8, <3>1, FieldSizes
  <2>10. ~Contains(n, "@")
    <3> SUFFICES ASSUME NEW j \in 1..Len(n) PROVE n[j] # "@"
      BY DEF Contains
    <3>1. Len(v) \in Nat
      BY LenProperties
    <3>2. CASE j \in 1..Len(v)
      BY <2>5, <2>8, <3>2
    <3>3. CASE j = Len(v) + 1
      BY <2>8, <3>3
    <3>4. CASE j > Len(v) + 1
      <4>1. PICK i : i = j - (Len(v) + 1)
        OBVIOUS
      <4>2. i \in 1..Len(m) /\ Len(v) + 1 + i = j
        BY <1>6, <2>8, <3>1, <3>4, <4>1
      <4> QED
        BY <1>2, <2>8, <4>2 DEF Contains
    <3> QED
      BY <3>1, <3>2, <3>3, <3>4
  <2>11. Parts(u, n, a.ip, a.port)
    BY <1>1, <1>8, <2>4, <2>8, <2>9, <2>10, Zenon DEF Parts
  <2>12. Line(f, m, a.ip, a.port) = Line(u, n, a.ip, a.port)
    <3>1. \A c \in Letters : <<c>> \in Seq(Letters)
      OBVIOUS
    <3>2. PICK x \in Seq(Letters) : x = <<":">>
      BY <1>1, <3>1, Zenon
    <3>3. PICK y \in Seq(Letters) : y = <<"@">>
      BY <1>1, <3>1, Zenon
    <3>4. PICK w \in Seq(Letters) : w = Address(a.ip, a.port)
      <4>1. PICK i \in Seq(Letters) : i = a.ip
        BY <1>1, Zenon
      <4>2. PICK p \in Seq(Letters) : p = <<a.port>>
        BY <1>1, <3>1, Zenon
      <4>3. (i \o x) \o p \in Seq(Letters)
        BY SMTT(30)
      <4> QED
        BY <3>2, <4>1, <4>2, <4>3, Zenon DEF Address
    <3>5. PICK b \in Seq(Letters) : b = m
      BY <1>6, Zenon
    <3>6. PICK d \in Seq(Letters) : d = u \o x
      <4>1. u \o x \in Seq(Letters)
        BY ConcatProperties
      <4> QED
        BY <4>1, Zenon
    <3>7. PICK e \in Seq(Letters) : e = (b \o y) \o w
      <4>1. (b \o y) \o w \in Seq(Letters)
        BY SMTT(30)
      <4> QED
        BY <4>1, Zenon
    <3>8. ((d \o v) \o x) \o e = d \o ((v \o x) \o e)
      BY SMTT(30)
    <3>9. (v \o x) \o ((b \o y) \o w) = (((v \o x) \o b) \o y) \o w
      BY SMTT(30)
    <3> QED
      BY <2>2, <2>6, <3>2, <3>3, <3>4, <3>5, <3>6, <3>7, <3>8, <3>9, Zenon
         DEF Line
  <2> QED
    BY <1>7, <2>11, <2>12, Zenon
<1> QED
  BY <1>9, <1>10

\* So the address is recovered.
LEMMA AddressRecovered ==
  ASSUME NEW a, Announces(a), Separable(a), NEW h, Holds(h)
  PROVE  LET g == unpack_from_infostring(pack_into_infostring(stored(a)), h)
         IN  g.ip = a.ip /\ g.port = a.port
<1>1. DOMAIN h = HeaderFields /\ 1 <= MAXFILENAMESIZE - 1
  BY FieldSizes, Zenon DEF Holds
<1>2. PICK f, n : /\ Parts(f, n, a.ip, a.port)
                  /\ pack_into_infostring(stored(a)) = Line(f, n, a.ip, a.port)
  BY <1>1, SeparableLine, Zenon
<1>3. PICK r : r = sscanf(pack_into_infostring(stored(a)))
  OBVIOUS
<1>4. r = [filename |-> f, name |-> n, ip |-> a.ip, port |-> a.port]
  BY <1>2, <1>3, PartsRead, Zenon
<1>5. PICK g : g = unpack_from_infostring(pack_into_infostring(stored(a)), h)
  OBVIOUS
<1>6. g = [k \in HeaderFields |-> IF k \in DOMAIN r THEN r[k] ELSE h[k]]
  BY <1>1, <1>3, <1>5, Zenon DEF unpack_from_infostring, keep
<1>7. g.ip = a.ip /\ g.port = a.port
  BY <1>4, <1>6 DEF HeaderFields
<1> QED
  BY <1>5, <1>7, Zenon

-----------------------------------------------------------------------------
(***************************************************************************)
(* Frames: what one send() hands to TCP.                                   *)
(***************************************************************************)
Sendable(p) == Fields(p.fields) /\ Announces(p.info)
Info(p) == pack_into_infostring(stored(p.info))

\* What the plans send.
LEMMA PlanFacts ==
  ASSUME NEW pl \in Plans, NEW i \in 1..Len(pl)
  PROVE  Len(pl) \in Nat /\ Sendable(pl[i])
<1>1. /\ pl \in Seq([fields : Seq(Nat), info : Config])
      /\ \A j \in 1..Len(pl) :
            LET a == pl[j].info
            IN  /\ Fields(pl[j].fields)
                /\ a.filename # << >> /\ a.name # << >> /\ a.port \in Ports
                /\ Len(a.ip) \in 1..(MAXIPV4SIZE - 1) /\ ~Contains(a.ip, ":")
  BY WireAssumption, Zenon
<1>2. Len(pl) \in Nat /\ pl[i] \in [fields : Seq(Nat), info : Config]
  BY <1>1, LenProperties, ElementOfSeq
<1>3. pl[i].info \in Config
  BY <1>2
<1> QED
  BY <1>1, <1>2, <1>3, Zenon DEF Sendable, Announces

\* The structure and the info string lie one behind the other.
LEMMA FrameFacts ==
  ASSUME NEW p, Sendable(p), NEW h
  PROVE  LET f == frame(h, p)  type == p.fields[1]  m == sizeof(type)
         IN  /\ type \in Types /\ f \in Seq(Cells) /\ m \in Nat /\ m >= 1
             /\ Len(f) = IF HasInfo(type) THEN m + INFOSTRSIZE ELSE m
             /\ f[1] = type
             /\ \A k \in 1..m : f[k] = image(h, pack(h, p.fields))[k]
             /\ HasInfo(type) =>
                  \A k \in 1..INFOSTRSIZE : f[m + k] = infobuf(p.info)[k]
<1>1. Fields(p.fields) /\ Announces(p.info) /\ p.fields[1] \in Types
  BY Zenon DEF Sendable, Fields, Types
<1> DEFINE type == p.fields[1]
           m == sizeof(type)
           x == image(h, pack(h, p.fields))
           y == infobuf(p.info)
           f == frame(h, p)
<1>2. m \in 4..12 /\ INFOSTRSIZE \in Nat
  BY <1>1, Layout, FieldSizes
<1>3. x \in [1..m -> Bytes]
  BY <1>1, Image, Zenon
<1>4. x[1] = type
  <2>1. /\ Len(p.fields) >= 1 /\ Widths(type)[1] = 1
        /\ type \in Unsigned(1)
    <3>1. /\ Len(p.fields) = Len(Widths(type)) /\ Widths(type)[1] = 1
          /\ Len(Widths(type)) \in 3..6
      BY <1>1, Layout, Zenon DEF Fields
    <3>2. 1 \in 1..Len(p.fields) /\ Len(p.fields) >= 1
      BY <3>1
    <3> QED
      BY <1>1, <3>1, <3>2, Zenon DEF Fields
  <2>2. 1 \in 1..Len(p.fields) /\ 1 \in 1..Widths(type)[1] /\ Offsets[1] + 1 = 1
    <3>1. Len(p.fields) \in Nat
      BY <1>1, LenProperties DEF Fields
    <3> QED
      BY <2>1, <3>1, OffsetFacts
  <2>3. x[Offsets[1] + 1] = bytes(p.fields[1], Widths(type)[1])[1]
    <3>1. \A i \in 1..Len(p.fields) : \A j \in 1..Widths(type)[i] :
            x[Offsets[i] + j] = bytes(p.fields[i], Widths(type)[i])[j]
      BY <1>1, Image
    <3> HIDE DEF x
    <3> QED
      BY <2>2, <3>1, Zenon
  <2>4. bytes(type, 1) = [i \in 1..1 |-> type]
    BY <2>1, OneByte, Zenon
  <2>5. bytes(type, 1)[1] = type
    BY <2>4
  <2> QED
    BY <2>1, <2>2, <2>3, <2>5, Zenon
<1>5. y \in Seq(Cells) /\ Len(y) = INFOSTRSIZE
  BY <1>1, InfoBuffer, Zenon
<1>6. f = x \o (IF HasInfo(type) THEN y ELSE << >>)
  BY Zenon DEF frame
<1> HIDE DEF x, y, f, m
<1>7. x \in Seq(Cells) /\ Len(x) = m
  <2>1. Bytes \subseteq Cells /\ m \in Nat
    BY <1>2, ByteFacts DEF Bytes, Cells
  <2>2. x \in Seq(Bytes) /\ Len(x) = m
    BY <1>3, <2>1
  <2> QED
    BY <2>1, <2>2, SeqMonotonic, Zenon
<1>8. CASE HasInfo(type)
  <2>1. f = x \o y
    BY <1>6, <1>8
  <2>2. /\ f \in Seq(Cells) /\ Len(f) = m + INFOSTRSIZE
        /\ \A k \in 1..(m + INFOSTRSIZE) :
             f[k] = IF k <= m THEN x[k] ELSE y[k - m]
    BY <1>5, <1>7, <2>1, ConcatProperties
  <2>3. \A k \in 1..m : f[k] = x[k]
    BY <1>2, <2>2
  <2>4. ASSUME NEW k \in 1..INFOSTRSIZE PROVE f[m + k] = y[k]
    <3>1. PICK j : j = m + k
      OBVIOUS
    <3>2. j \in 1..(m + INFOSTRSIZE) /\ ~(j <= m) /\ j - m = k
      BY <1>2, <3>1
    <3> QED
      BY <2>2, <3>1, <3>2
  <2>5. f[1] = type /\ m \in Nat /\ m >= 1
    BY <1>2, <1>4, <2>3
  <2> QED
    BY <1>1, <1>8, <2>2, <2>3, <2>4, <2>5, Zenon DEF f, m, x, y
<1>9. CASE ~HasInfo(type)
  <2>1. f = x \o << >>
    BY <1>6, <1>9
  <2>2. f = x
    BY <1>7, <2>1, ConcatEmptySeq
  <2>3. m \in Nat /\ m >= 1
    BY <1>2
  <2> QED
    BY <1>1, <1>4, <1>7, <1>9, <2>2, <2>3, Zenon DEF f, m, x
<1> QED
  BY <1>8, <1>9

\* The bytes of the structure give the fields.
LEMMA PacketPulled ==
  ASSUME NEW p, Sendable(p), NEW h, NEW g, NEW bs \in Seq(Cells),
         Len(bs) >= sizeof(p.fields[1]),
         \A k \in 1..sizeof(p.fields[1]) : bs[k] = frame(h, p)[k]
  PROVE  convert(g, structure(g, p.fields[1], bs)) = p.fields
<1>1. Fields(p.fields)
  BY Zenon DEF Sendable
<1>2. \A k \in 1..sizeof(p.fields[1]) :
        frame(h, p)[k] = image(h, pack(h, p.fields))[k]
  BY FrameFacts
<1>3. PICK f : f = p.fields
  OBVIOUS
<1>5. \A k \in 1..sizeof(f[1]) : bs[k] = image(h, pack(h, f))[k]
  BY <1>2, <1>3
<1>6. Fields(f) /\ Carries(h, f, bs)
  BY <1>1, <1>3, <1>5 DEF Carries
<1>7. convert(g, structure(g, f[1], bs)) = f
  BY <1>6, Converted, Zenon
<1> QED
  BY <1>3, <1>7, Zenon

\* The bytes behind it give the string.
LEMMA InfoPulled ==
  ASSUME NEW p, Sendable(p), HasInfo(p.fields[1]), NEW h, NEW bs \in Seq(Cells),
         Len(bs) >= INFOSTRSIZE,
         \A k \in 1..INFOSTRSIZE : bs[k] = frame(h, p)[sizeof(p.fields[1]) + k]
  PROVE  /\ scan(SubSeq(bs, 1, INFOSTRSIZE), NUL, INFOSTRSIZE) = Info(p)
         /\ Info(p) \in Seq(Letters)
<1>1. Announces(p.info)
  BY Zenon DEF Sendable
<1>2. PICK y : y = infobuf(p.info)
  OBVIOUS
<1>3. /\ y \in Seq(Cells) /\ Len(y) = INFOSTRSIZE /\ Len(bs) \in Nat
      /\ scan(y, NUL, INFOSTRSIZE) = Info(p) /\ INFOSTRSIZE \in Nat
  BY <1>1, <1>2, InfoBuffer, FieldSizes, LenProperties, Zenon DEF Info
<1>4. \A k \in 1..INFOSTRSIZE : bs[k] = y[k]
  <2>1. \A k \in 1..INFOSTRSIZE : frame(h, p)[sizeof(p.fields[1]) + k] = y[k]
    BY <1>2, FrameFacts, Zenon
  <2> QED
    BY <2>1, Zenon
<1>5. y \in [1..INFOSTRSIZE -> Cells]
  BY <1>3, LenProperties
<1>6. /\ 0 + INFOSTRSIZE = INFOSTRSIZE /\ 0 + 1 = 1
      /\ \A k \in 1..INFOSTRSIZE : 0 + k = k
  BY <1>3
<1>7. SubSeq(bs, 0 + 1, 0 + INFOSTRSIZE) = y
  BY <1>3, <1>4, <1>5, <1>6, Piece
<1>8. Info(p) \in Seq(Letters)
  BY <1>1, AnnouncedLine, Zenon DEF Info
<1> QED
  BY <1>3, <1>6, <1>7, <1>8

-----------------------------------------------------------------------------
(***************************************************************************)
(* The stream: T is everything that the first n send()s handed to TCP, and *)
(* the frame of packet i lies between s[i] and s[i + 1].                   *)
(***************************************************************************)
Stream(h, pl, n, s, T) ==
  /\ s \in [1..(n + 1) -> Nat] /\ s[1] = 0
  /\ T \in Seq(Cells) /\ Len(T) = s[n + 1]
  /\ \A i \in 1..n :
       /\ Len(frame(h, pl[i])) \in Nat
       /\ s[i + 1] = s[i] + Len(frame(h, pl[i]))
       /\ \A k \in 1..Len(frame(h, pl[i])) : T[s[i] + k] = frame(h, pl[i])[k]
  /\ \A i, j \in 1..(n + 1) : i < j => s[i] < s[j]

\* The stream u, U is s, T and the frame f behind it.
Extends(n, s, T, f, u, U) ==
  /\ \A i \in 1..(n + 1) : u[i] = s[i]
  /\ u[n + 2] = s[n + 1] + Len(f)
  /\ \A k \in 1..Len(T) : U[k] = T[k]
  /\ \A k \in 1..Len(f) : U[s[n + 1] + k] = f[k]

\* A send() extends the stream.
LEMMA Extended ==
  ASSUME NEW h, NEW pl, NEW n \in Nat, NEW s, NEW T, Stream(h, pl, n, s, T),
         Sendable(pl[n + 1])
  PROVE  \E u, U : /\ Stream(h, pl, n + 1, u, U)
                   /\ Extends(n, s, T, frame(h, pl[n + 1]), u, U)
<1> DEFINE fr(i) == frame(h, pl[i])
<1>1. fr(n + 1) \in Seq(Cells) /\ Len(fr(n + 1)) \in Nat /\ Len(fr(n + 1)) >= 1
  <2>1. PICK f : f = fr(n + 1)
    OBVIOUS
  <2>2. PICK m : m = sizeof(pl[n + 1].fields[1])
    OBVIOUS
  <2>3. /\ f \in Seq(Cells) /\ m \in Nat /\ m >= 1
        /\ Len(f) = IF HasInfo(pl[n + 1].fields[1]) THEN m + INFOSTRSIZE ELSE m
    BY <2>1, <2>2, FrameFacts, Zenon
  <2>4. Len(f) \in Nat /\ Len(f) >= 1
    BY <2>3, FieldSizes
  <2> QED
    BY <2>1, <2>3, <2>4, Zenon
<1>2. /\ s \in [1..(n + 1) -> Nat] /\ s[1] = 0
      /\ T \in Seq(Cells) /\ Len(T) = s[n + 1]
      /\ \A i \in 1..n : /\ Len(fr(i)) \in Nat
                         /\ s[i + 1] = s[i] + Len(fr(i))
                         /\ \A k \in 1..Len(fr(i)) : T[s[i] + k] = fr(i)[k]
      /\ \A i, j \in 1..(n + 1) : i < j => s[i] < s[j]
  BY Zenon DEF Stream
<1> HIDE DEF fr
<1>3. PICK f \in Seq(Cells) : f = fr(n + 1) /\ Len(f) \in Nat /\ Len(f) >= 1
  BY <1>1, Zenon
<1> DEFINE e == s[n + 1]
           u == [i \in 1..(n + 2) |-> IF i <= n + 1 THEN s[i] ELSE e + Len(f)]
           U == T \o f
<1>4. e \in Nat /\ Len(T) = e /\ \A i \in 1..(n + 1) : s[i] \in Nat
  BY <1>2
<1> HIDE DEF e
<1>5. /\ u \in [1..(n + 2) -> Nat] /\ u[n + 2] = e + Len(f)
      /\ \A i \in 1..(n + 1) : u[i] = s[i]
  BY <1>3, <1>4
<1>6. /\ U \in Seq(Cells) /\ Len(U) = e + Len(f)
      /\ \A k \in 1..(e + Len(f)) : U[k] = IF k <= e THEN T[k] ELSE f[k - e]
  BY <1>2, <1>4, ConcatProperties
<1> HIDE DEF u, U
<1>7. \A k \in 1..Len(T) : U[k] = T[k]
  BY <1>3, <1>4, <1>6
<1>8. ASSUME NEW k \in 1..Len(f) PROVE U[e + k] = f[k]
  <2>1. PICK j : j = e + k
    OBVIOUS
  <2>2. j \in 1..(e + Len(f)) /\ ~(j <= e) /\ j - e = k
    BY <1>3, <1>4, <2>1
  <2> QED
    BY <1>6, <2>1, <2>2
<1>9. ASSUME NEW i \in 1..(n + 1)
      PROVE  /\ Len(fr(i)) \in Nat
             /\ u[i + 1] = u[i] + Len(fr(i))
             /\ \A k \in 1..Len(fr(i)) : U[u[i] + k] = fr(i)[k]
  <2>1. CASE i \in 1..n
    <3>1. i + 1 \in 1..(n + 1) /\ i \in 1..(n + 1)
      BY <2>1
    <3>2. u[i + 1] = s[i + 1] /\ u[i] = s[i] /\ s[i + 1] = s[i] + Len(fr(i))
      BY <1>2, <1>5, <2>1, <3>1
    <3>3. s[i + 1] <= e
      <4>1. CASE i + 1 = n + 1
        BY <1>4, <4>1 DEF e
      <4>2. CASE i + 1 < n + 1
        <5>1. n + 1 \in 1..(n + 1)
          OBVIOUS
        <5>2. s[i + 1] < s[n + 1]
          BY <1>2, <3>1, <4>2, <5>1, Zenon
        <5> QED
          BY <1>4, <3>1, <5>2 DEF e
      <4> QED
        BY <3>1, <4>1, <4>2
    <3>4. ASSUME NEW k \in 1..Len(fr(i)) PROVE U[s[i] + k] = fr(i)[k]
      <4>1. s[i] \in Nat /\ s[i + 1] \in Nat
        BY <1>4, <3>1
      <4>2. s[i] + k \in 1..Len(T)
        <5>1. PICK a, b : a = s[i] /\ b = s[i + 1]
          OBVIOUS
        <5>2. PICK l : l = Len(fr(i))
          OBVIOUS
        <5>3. a \in Nat /\ b \in Nat /\ b = a + l /\ b <= Len(T) /\ k \in 1..l
          BY <1>4, <3>2, <3>3, <4>1, <5>1, <5>2
        <5>4. Len(T) \in Nat
          BY <1>4
        <5>5. k \in Nat /\ k >= 1 /\ a + k <= b
          BY <1>2, <2>1, <5>2, <5>3
        <5> QED
          BY <5>1, <5>3, <5>4, <5>5
      <4> QED
        BY <1>2, <1>7, <2>1, <4>2, Zenon
    <3> QED
      BY <1>2, <2>1, <3>2, <3>4, Zenon
  <2>2. CASE i = n + 1
    <3>1. u[i + 1] = e + Len(f) /\ u[i] = e /\ fr(i) = f
      BY <1>3, <1>5, <2>2 DEF e
    <3> QED
      BY <1>3, <1>8, <3>1, Zenon
  <2> QED
    BY <2>1, <2>2
<1>10. ASSUME NEW i \in 1..(n + 2), NEW j \in 1..(n + 2), i < j
       PROVE  u[i] < u[j]
  <2>1. i \in 1..(n + 1) /\ u[i] = s[i] /\ s[i] \in Nat
    BY <1>4, <1>5, <1>10
  <2>2. CASE j \in 1..(n + 1)
    BY <1>2, <1>5, <1>10, <2>1, <2>2, Zenon
  <2>3. CASE j = n + 2
    <3>1. s[i] <= e
      <4>1. CASE i = n + 1
        BY <2>1, <4>1 DEF e
      <4>2. CASE i < n + 1
        <5>1. n + 1 \in 1..(n + 1)
          OBVIOUS
        <5>2. s[i] < s[n + 1]
          BY <1>2, <2>1, <4>2, <5>1, Zenon
        <5> QED
          BY <1>4, <2>1, <5>2 DEF e
      <4> QED
        BY <2>1, <4>1, <4>2
    <3> QED
      BY <1>3, <1>4, <1>5, <2>1, <2>3, <3>1
  <2> QED
    BY <2>2, <2>3
<1>11. u[1] = 0 /\ Len(U) = u[n + 2] /\ n + 1 + 1 = n + 2
  BY <1>2, <1>5, <1>6
<1>12. Stream(h, pl, n + 1, u, U)
  BY <1>5, <1>6, <1>9, <1>10, <1>11, Zenon DEF Stream, fr
<1>13. Extends(n, s, T, f, u, U)
  BY <1>5, <1>7, <1>8, Zenon DEF Extends, e
<1> QED
  BY <1>3, <1>12, <1>13, Zenon DEF fr

\* The socket holds what lies between r and d.
InBuffer(b, T, r, d) ==
  /\ r \in Nat /\ d \in Nat /\ r <= d /\ d <= Len(T)
  /\ b \in Seq(Cells) /\ Len(b) = d - r
  /\ \A k \in 1..Len(b) : b[k] = T[r + k]

\* Of the frames behind e, the first is delivered up to d.
Low(s, d, e, i) == IF i = 1 THEN d ELSE s[e + i]

\* What lies behind d is in flight: the frames behind the first e.
Behind(fl, e, s, T, d) ==
  /\ s[e + 1] <= d
  /\ fl = << >> => d = s[e + 1]
  /\ fl # << >> => d < s[e + 2]
  /\ \A i \in 1..Len(fl) :
       /\ Len(fl[i]) = s[e + i + 1] - Low(s, d, e, i)
       /\ \A k \in 1..Len(fl[i]) : fl[i][k] = T[Low(s, d, e, i) + k]

\* The frames in flight are the last ones of n.
InFlight(fl, n, s, T, d) ==
  /\ fl \in Seq(Seq(Cells)) /\ Len(fl) <= n
  /\ Behind(fl, n - Len(fl), s, T, d)

\* recv() takes the first m bytes.
LEMMA Taken ==
  ASSUME NEW b, NEW T, NEW r, NEW d, InBuffer(b, T, r, d),
         NEW m \in Nat, m <= Len(b)
  PROVE  InBuffer(SubSeq(b, m + 1, Len(b)), T, r + m, d)
<1>1. /\ r \in Nat /\ d \in Nat /\ r <= d /\ d <= Len(T)
      /\ b \in Seq(Cells) /\ Len(b) = d - r
      /\ \A k \in 1..Len(b) : b[k] = T[r + k]
  BY DEF InBuffer
<1> DEFINE a == m + 1
           z == Len(b)
           x == SubSeq(b, a, z)
<1>2. a \in Nat /\ z \in Nat /\ a >= 1
  BY <1>1
<1>3. \A k \in a..z : b[k] \in Cells
  <2> HIDE DEF a
  <2> QED
    BY <1>1, <1>2, ElementOfSeq
<1>4. /\ x \in Seq(Cells) /\ Len(x) = IF a <= z THEN z - a + 1 ELSE 0
      /\ \A i \in 1..(z - a + 1) : x[i] = b[a + i - 1]
  <2> HIDE DEF a, z
  <2> QED
    BY <1>2, <1>3, SubSeqProperties
<1> HIDE DEF x
<1>5. Len(x) = d - (r + m) /\ r + m \in Nat /\ r + m <= d /\ z - a + 1 = Len(x)
  BY <1>1, <1>2, <1>4
<1>6. ASSUME NEW k \in 1..Len(x) PROVE x[k] = T[(r + m) + k]
  <2>1. a + k - 1 = m + k /\ m + k \in 1..Len(b) /\ r + (m + k) = (r + m) + k
    BY <1>1, <1>5
  <2>2. x[k] = b[m + k]
    BY <1>4, <1>5, <2>1
  <2> QED
    BY <1>1, <2>1, <2>2
<1>7. InBuffer(x, T, r + m, d)
  BY <1>1, <1>4, <1>5, <1>6 DEF InBuffer
<1> QED
  BY <1>7 DEF x

\* TCP appends what it delivers.
LEMMA Filled ==
  ASSUME NEW b, NEW T, NEW r, NEW d, InBuffer(b, T, r, d), Len(T) \in Nat,
         NEW x \in Seq(Cells), d + Len(x) <= Len(T),
         \A k \in 1..Len(x) : x[k] = T[d + k]
  PROVE  InBuffer(b \o x, T, r, d + Len(x))
<1>1. /\ r \in Nat /\ d \in Nat /\ r <= d /\ d <= Len(T)
      /\ b \in Seq(Cells) /\ Len(b) = d - r
      /\ \A k \in 1..Len(b) : b[k] = T[r + k]
  BY DEF InBuffer
<1>2. Len(b) \in Nat /\ Len(x) \in Nat /\ b \in Seq(Cells)
  BY <1>1, LenProperties
<1>3. PICK y : y = b \o x
  OBVIOUS
<1>4. /\ y \in Seq(Cells) /\ Len(y) = Len(b) + Len(x)
      /\ \A i \in 1..(Len(b) + Len(x)) :
           y[i] = IF i <= Len(b) THEN b[i] ELSE x[i - Len(b)]
  BY <1>2, <1>3, ConcatProperties
<1>5. ASSUME NEW k \in 1..Len(y) PROVE y[k] = T[r + k]
  <2>1. CASE k <= Len(b)
    BY <1>1, <1>2, <1>4, <2>1
  <2>2. CASE ~(k <= Len(b))
    <3>1. PICK j : j = k - Len(b)
      OBVIOUS
    <3>2. j \in 1..Len(x) /\ d + j = r + k
      BY <1>1, <1>2, <1>4, <2>2, <3>1
    <3>3. y[k] = x[j]
      BY <1>4, <2>2, <3>1
    <3> QED
      BY <3>2, <3>3
  <2> QED
    BY <2>1, <2>2
<1>6. d + Len(x) \in Nat /\ r <= d + Len(x) /\ Len(y) = d + Len(x) - r
  BY <1>1, <1>2, <1>4
<1> QED
  BY <1>1, <1>3, <1>4, <1>5, <1>6 DEF InBuffer

\* A send() puts its frame behind those in flight.
LEMMA Sent ==
  ASSUME NEW h, NEW pl, NEW n \in Nat, NEW s, NEW T, Stream(h, pl, n, s, T),
         NEW b, NEW r, NEW d, InBuffer(b, T, r, d),
         NEW fl, InFlight(fl, n, s, T, d),
         NEW f \in Seq(Cells), Len(f) >= 1,
         NEW u, NEW U, Extends(n, s, T, f, u, U), U \in Seq(Cells),
         Len(U) = u[n + 2]
  PROVE  InBuffer(b, U, r, d) /\ InFlight(Append(fl, f), n + 1, u, U, d)
<1>1. /\ s \in [1..(n + 1) -> Nat] /\ T \in Seq(Cells) /\ Len(T) = s[n + 1]
      /\ \A i, j \in 1..(n + 1) : i < j => s[i] < s[j]
  BY Zenon DEF Stream
<1>2. /\ r \in Nat /\ d \in Nat /\ r <= d /\ d <= Len(T)
      /\ b \in Seq(Cells) /\ Len(b) = d - r
      /\ \A k \in 1..Len(b) : b[k] = T[r + k]
  BY Zenon DEF InBuffer
<1>3. /\ \A i \in 1..(n + 1) : u[i] = s[i]
      /\ u[n + 2] = s[n + 1] + Len(f)
      /\ \A k \in 1..Len(T) : U[k] = T[k]
      /\ \A k \in 1..Len(f) : U[s[n + 1] + k] = f[k]
  BY Zenon DEF Extends
<1>4. Len(f) \in Nat /\ Len(T) \in Nat /\ s[n + 1] \in Nat
  BY <1>1, LenProperties
<1>5. InBuffer(b, U, r, d)
  <2>1. d <= Len(U)
    BY <1>1, <1>2, <1>3, <1>4
  <2>2. ASSUME NEW k \in 1..Len(b) PROVE b[k] = U[r + k]
    <3>1. r + k \in 1..Len(T)
      BY <1>2, <1>4
    <3> QED
      BY <1>2, <1>3, <3>1
  <2> QED
    BY <1>2, <2>1, <2>2, Zenon DEF InBuffer
<1> DEFINE e == n - Len(fl)
<1>6. /\ fl \in Seq(Seq(Cells)) /\ Len(fl) <= n /\ s[e + 1] <= d
      /\ fl = << >> => d = s[e + 1]
      /\ fl # << >> => d < s[e + 2]
      /\ \A i \in 1..Len(fl) :
           /\ Len(fl[i]) = s[e + i + 1] - Low(s, d, e, i)
           /\ \A k \in 1..Len(fl[i]) : fl[i][k] = T[Low(s, d, e, i) + k]
  BY Zenon DEF InFlight, Behind
<1>7. PICK g : g = Append(fl, f)
  OBVIOUS
<1>8. /\ g \in Seq(Seq(Cells)) /\ g # << >> /\ Len(g) = Len(fl) + 1
      /\ \A i \in 1..Len(fl) : g[i] = fl[i]
      /\ g[Len(fl) + 1] = f
  BY <1>6, <1>7, AppendProperties
<1>9. /\ Len(fl) \in Nat /\ e \in 0..n /\ n + 1 - Len(g) = e /\ Len(g) <= n + 1
      /\ e + Len(fl) = n
  BY <1>6, <1>8, LenProperties
<1> HIDE DEF e
<1>10. u[e + 1] = s[e + 1] /\ u[e + 1] <= d
  <2>1. e + 1 \in 1..(n + 1)
    BY <1>9
  <2> QED
    BY <1>3, <1>6, <2>1
<1>11. d < u[e + 2]
  <2>1. CASE fl = << >>
    <3>1. e = n /\ d = s[n + 1]
      BY <1>6, <1>9, <2>1, EmptySeq
    <3> QED
      BY <1>3, <1>4, <3>1
  <2>2. CASE fl # << >>
    <3>1. Len(fl) >= 1
      BY <1>6, <2>2, EmptySeq
    <3>2. e + 2 \in 1..(n + 1)
      BY <1>9, <3>1
    <3> QED
      BY <1>3, <1>6, <2>2, <3>2
  <2> QED
    BY <2>1, <2>2
<1>12. ASSUME NEW i \in 1..Len(g)
       PROVE  /\ Len(g[i]) = u[e + i + 1] - Low(u, d, e, i)
              /\ \A k \in 1..Len(g[i]) : g[i][k] = U[Low(u, d, e, i) + k]
  <2>1. CASE i \in 1..Len(fl)
    <3>1. e + i \in 1..(n + 1) /\ e + i + 1 \in 1..(n + 1) /\ i \in Nat
      BY <1>9, <2>1
    <3>2. Low(u, d, e, i) = Low(s, d, e, i) /\ u[e + i + 1] = s[e + i + 1]
      BY <1>3, <3>1 DEF Low
    <3>3. PICK l : l = Low(s, d, e, i)
      OBVIOUS
    <3>4. l \in Nat /\ s[e + i + 1] \in Nat /\ s[e + i + 1] <= Len(T)
      <4>1. l \in Nat /\ s[e + i + 1] \in Nat
        BY <1>1, <1>2, <3>1, <3>3 DEF Low
      <4>2. CASE e + i + 1 = n + 1
        BY <1>1, <1>4, <4>1, <4>2
      <4>3. CASE e + i + 1 < n + 1
        <5>1. n + 1 \in 1..(n + 1)
          OBVIOUS
        <5>2. s[e + i + 1] < s[n + 1]
          BY <1>1, <3>1, <4>3, <5>1, Zenon
        <5> QED
          BY <1>1, <1>4, <4>1, <5>2
      <4> QED
        BY <3>1, <4>1, <4>2, <4>3
    <3>5. PICK x \in Seq(Cells) : x = fl[i]
      BY <1>6, <2>1, ElementOfSeq
    <3>6. Len(x) = s[e + i + 1] - l /\ \A k \in 1..Len(x) : x[k] = T[l + k]
      BY <1>6, <2>1, <3>3, <3>5, Zenon
    <3>7. ASSUME NEW k \in 1..Len(x) PROVE x[k] = U[l + k]
      <4>1. l + k \in 1..Len(T)
        BY <1>4, <3>4, <3>6
      <4> QED
        BY <1>3, <3>6, <4>1, Zenon
    <3>8. g[i] = x
      BY <1>8, <2>1, <3>5
    <3> QED
      BY <3>2, <3>3, <3>6, <3>7, <3>8, Zenon
  <2>2. CASE i = Len(fl) + 1
    <3>1. g[i] = f /\ e + i = n + 1 /\ e + i + 1 = n + 2
      BY <1>8, <1>9, <2>2
    <3>2. Low(u, d, e, i) = s[n + 1]
      <4>1. CASE i = 1
        <5>1. fl = << >> /\ e = n
          BY <1>6, <1>9, <2>2, <4>1, EmptySeq
        <5> QED
          BY <1>6, <4>1, <5>1 DEF Low
      <4>2. CASE i # 1
        <5>1. n + 1 \in 1..(n + 1)
          OBVIOUS
        <5> QED
          BY <1>3, <3>1, <4>2, <5>1 DEF Low
      <4> QED
        BY <4>1, <4>2
    <3>3. Len(f) = u[n + 2] - s[n + 1]
      BY <1>3, <1>4
    <3> QED
      BY <1>3, <3>1, <3>2, <3>3, Zenon
  <2> QED
    BY <1>8, <1>9, <2>1, <2>2
<1>13. InFlight(g, n + 1, u, U, d)
  <2>1. Behind(g, e, u, U, d)
    BY <1>8, <1>10, <1>11, <1>12, Zenon DEF Behind
  <2> QED
    BY <1>8, <1>9, <2>1 DEF InFlight
<1> QED
  BY <1>5, <1>7, <1>13, Zenon

\* What stays in flight when m bytes are delivered.
Left(fl, m) ==
  IF m = Len(Head(fl)) THEN Tail(fl)
  ELSE <<SubSeq(Head(fl), m + 1, Len(Head(fl)))>> \o Tail(fl)

\* The first m bytes of the first frame in flight are x, and gl stays.
Moves(fl, m, x, gl) ==
  /\ fl # << >> /\ m \in 1..Len(Head(fl))
  /\ gl = Left(fl, m) /\ x = SubSeq(Head(fl), 1, m)

\* They are the next bytes of the stream.
Arrives(n, s, T, fl, d, m, x, gl) ==
  /\ InFlight(gl, n, s, T, d + m)
  /\ x \in Seq(Cells) /\ Len(x) = m /\ d + m <= Len(T)
  /\ \A k \in 1..m : x[k] = T[d + k]
  /\ m = Len(Head(fl)) => d + m = s[n - Len(gl) + 1]

\* TCP delivers m bytes of the first frame in flight.
LEMMA Delivered ==
  ASSUME NEW h, NEW pl, NEW n \in Nat, NEW s, NEW T, Stream(h, pl, n, s, T),
         NEW fl, NEW d \in Nat, InFlight(fl, n, s, T, d),
         NEW m, NEW x, NEW gl, Moves(fl, m, x, gl)
  PROVE  Arrives(n, s, T, fl, d, m, x, gl)
<1> SUFFICES /\ InFlight(gl, n, s, T, d + m)
             /\ x \in Seq(Cells) /\ Len(x) = m /\ d + m <= Len(T)
             /\ \A k \in 1..m : x[k] = T[d + k]
             /\ m = Len(Head(fl)) => d + m = s[n - Len(gl) + 1]
  BY Zenon DEF Arrives
<1> USE DEF Moves
<1>1. /\ s \in [1..(n + 1) -> Nat] /\ T \in Seq(Cells) /\ Len(T) = s[n + 1]
      /\ \A i, j \in 1..(n + 1) : i < j => s[i] < s[j]
  BY Zenon DEF Stream
<1> DEFINE e == n - Len(fl)
<1>2. /\ fl \in Seq(Seq(Cells)) /\ Len(fl) <= n /\ s[e + 1] <= d
      /\ d < s[e + 2]
      /\ \A i \in 1..Len(fl) :
           /\ Len(fl[i]) = s[e + i + 1] - Low(s, d, e, i)
           /\ \A k \in 1..Len(fl[i]) : fl[i][k] = T[Low(s, d, e, i) + k]
  BY Zenon DEF InFlight, Behind
<1>3. Len(fl) \in Nat /\ Len(fl) >= 1 /\ e \in 0..(n - 1) /\ e + Len(fl) = n
  BY <1>2, EmptySeq
<1> HIDE DEF e
<1>4. PICK y \in Seq(Cells) : y = Head(fl) /\ y = fl[1]
  <2>1. fl[1] \in Seq(Cells)
    BY <1>2, <1>3, ElementOfSeq
  <2> QED
    BY <2>1, <1>2
<1>5. Len(y) \in Nat /\ m \in Nat /\ 1 <= m /\ m <= Len(y)
  BY <1>4, LenProperties
<1>6. /\ Len(y) = s[e + 2] - d /\ \A k \in 1..Len(y) : y[k] = T[d + k]
      /\ s[e + 2] \in Nat /\ s[e + 1] \in Nat
  <2>1. 1 \in 1..Len(fl) /\ e + 1 + 1 = e + 2 /\ Low(s, d, e, 1) = d
        /\ e + 2 \in 1..(n + 1) /\ e + 1 \in 1..(n + 1)
    BY <1>3 DEF Low
  <2>2. /\ Len(fl[1]) = s[e + 1 + 1] - Low(s, d, e, 1)
        /\ \A k \in 1..Len(fl[1]) : fl[1][k] = T[Low(s, d, e, 1) + k]
    BY <1>2, <2>1, Zenon
  <2> QED
    BY <1>1, <1>4, <2>1, <2>2
<1>7. d + m <= s[e + 2] /\ (m = Len(y) => d + m = s[e + 2])
  <2>1. PICK q \in Nat, l \in Nat : q = s[e + 2] /\ l = Len(y)
    BY <1>5, <1>6, Zenon
  <2>2. l = q - d /\ m \in Nat /\ m <= l
    BY <1>5, <1>6, <2>1, Zenon
  <2>3. d + m <= q /\ (m = l => d + m = q)
    BY <2>2
  <2> QED
    BY <2>1, <2>3, Zenon
<1>8. s[e + 2] <= Len(T)
  <2>1. CASE e + 2 = n + 1
    BY <1>1, <1>6, <2>1
  <2>2. CASE e + 2 < n + 1
    <3>1. n + 1 \in 1..(n + 1) /\ e + 2 \in 1..(n + 1) /\ s[n + 1] \in Nat
      BY <1>1, <1>3
    <3>2. s[e + 2] < s[n + 1]
      BY <1>1, <2>2, <3>1, Zenon
    <3> QED
      BY <1>1, <1>6, <3>1, <3>2
  <2> QED
    BY <1>3, <2>1, <2>2
<1>9. x \in Seq(Cells) /\ Len(x) = m /\ \A k \in 1..m : x[k] = y[k]
  <2>1. \A k \in 1..m : y[k] \in Cells
    BY <1>5, ElementOfSeq
  <2>2. x = SubSeq(y, 1, m)
    BY <1>4, Zenon
  <2>3. /\ SubSeq(y, 1, m) \in Seq(Cells) /\ Len(SubSeq(y, 1, m)) = m
        /\ \A k \in 1..m : SubSeq(y, 1, m)[k] = y[k]
    BY <1>5, <2>1, SubSeqProperties
  <2> QED
    BY <2>2, <2>3, Zenon
<1>10. \A k \in 1..m : x[k] = T[d + k]
  BY <1>5, <1>6, <1>9
<1>11. PICK tl : tl = Tail(fl)
  OBVIOUS
<1>12. /\ tl \in Seq(Seq(Cells)) /\ Len(tl) = Len(fl) - 1
       /\ \A i \in 1..Len(tl) : tl[i] = fl[i + 1]
  BY <1>2, <1>11, HeadTailProperties
<1>13. ASSUME NEW i \in 2..Len(fl), NEW c
       PROVE  /\ Len(fl[i]) = s[e + i + 1] - Low(s, c, e, i)
              /\ \A k \in 1..Len(fl[i]) : fl[i][k] = T[Low(s, c, e, i) + k]
  <2>1. i \in 1..Len(fl) /\ i # 1
    BY <1>3
  <2>2. Low(s, c, e, i) = Low(s, d, e, i)
    BY <2>1, Zenon DEF Low
  <2> QED
    BY <1>2, <2>1, <2>2, Zenon
<1>14. CASE m = Len(y)
  <2>1. gl = tl
    BY <1>4, <1>11, <1>14, Zenon DEF Left
  <2>2. n - Len(gl) = e + 1 /\ Len(gl) <= n /\ d + m = s[e + 2]
    <3>1. Len(gl) = Len(fl) - 1
      BY <1>12, <2>1, Zenon
    <3>2. d + m = s[e + 2]
      BY <1>7, <1>14, Zenon
    <3>3. n - Len(gl) = e + 1 /\ Len(gl) <= n
      BY <1>3, <3>1
    <3> QED
      BY <3>2, <3>3, Zenon
  <2>3. Behind(tl, e + 1, s, T, d + m)
    <3>1. e + 1 + 1 = e + 2 /\ s[e + 2] <= d + m
      BY <1>3, <1>6, <2>2
    <3>2. tl # << >> => d + m < s[e + 1 + 2]
      <4> SUFFICES ASSUME tl # << >> PROVE d + m < s[e + 1 + 2]
        OBVIOUS
      <4>1. Len(tl) >= 1
        BY <1>12, EmptySeq
      <4>2. e + 1 + 2 \in 1..(n + 1) /\ e + 2 \in 1..(n + 1) /\ e + 2 < e + 1 + 2
        BY <1>3, <1>12, <4>1
      <4>3. s[e + 2] < s[e + 1 + 2]
        BY <1>1, <4>2, Zenon
      <4> QED
        BY <2>2, <4>3, Zenon
    <3>3. ASSUME NEW i \in 1..Len(tl)
          PROVE  /\ Len(tl[i]) = s[e + 1 + i + 1] - Low(s, d + m, e + 1, i)
                 /\ \A k \in 1..Len(tl[i]) :
                      tl[i][k] = T[Low(s, d + m, e + 1, i) + k]
      <4>1. /\ i + 1 \in 2..Len(fl) /\ e + (i + 1) + 1 = e + 1 + i + 1
            /\ e + (i + 1) = e + 1 + i /\ i + 1 # 1
        BY <1>3, <1>12
      <4>2. Low(s, d, e, i + 1) = s[e + 1 + i]
        BY <4>1 DEF Low
      <4>3. Low(s, d + m, e + 1, i) = s[e + 1 + i]
        <5>1. i = 1 => d + m = s[e + 1 + i]
          BY <1>3, <2>2
        <5> QED
          BY <5>1 DEF Low
      <4>4. tl[i] = fl[i + 1]
        BY <1>12
      <4>5. /\ Len(fl[i + 1]) = s[e + (i + 1) + 1] - Low(s, d, e, i + 1)
            /\ \A k \in 1..Len(fl[i + 1]) :
                 fl[i + 1][k] = T[Low(s, d, e, i + 1) + k]
        BY <1>13, <4>1, Zenon
      <4> QED
        BY <4>1, <4>2, <4>3, <4>4, <4>5, Zenon
    <3> QED
      BY <2>2, <3>1, <3>2, <3>3, Zenon DEF Behind
  <2>4. InFlight(gl, n, s, T, d + m)
    BY <1>12, <2>1, <2>2, <2>3 DEF InFlight
  <2>5. d + m = s[n - Len(gl) + 1]
    BY <1>3, <2>2
  <2>6. d + m <= Len(T)
    BY <1>8, <2>2
  <2> QED
    BY <1>9, <1>10, <2>4, <2>5, <2>6, Zenon
<1>15. CASE m # Len(y)
  <2>1. PICK z : z = SubSeq(y, m + 1, Len(y))
    OBVIOUS
  <2>2. /\ z \in Seq(Cells) /\ Len(z) = Len(y) - m
        /\ \A k \in 1..Len(z) : z[k] = y[m + k]
    <3> DEFINE a == m + 1
    <3>1. a \in Nat /\ a >= 1 /\ a <= Len(y) /\ Len(y) - a + 1 = Len(y) - m
      BY <1>5, <1>15
    <3>2. \A k \in a..Len(y) : y[k] \in Cells
      <4> HIDE DEF a
      <4> QED
        BY <1>5, <3>1, ElementOfSeq
    <3>3. /\ z \in Seq(Cells)
          /\ Len(z) = IF a <= Len(y) THEN Len(y) - a + 1 ELSE 0
          /\ \A k \in 1..(Len(y) - a + 1) : z[k] = y[a + k - 1]
      <4> HIDE DEF a
      <4> QED
        BY <1>5, <2>1, <3>1, <3>2, SubSeqProperties DEF a
    <3>4. \A k \in 1..(Len(y) - m) : a + k - 1 = m + k
      BY <1>5
    <3> QED
      BY <3>1, <3>3, <3>4
  <2>3. gl = <<z>> \o tl
    BY <1>4, <1>11, <1>15, <2>1, Zenon DEF Left
  <2>4. /\ gl \in Seq(Seq(Cells)) /\ Len(gl) = Len(fl) /\ gl[1] = z
        /\ \A i \in 2..Len(fl) : gl[i] = fl[i]
    <3>1. <<z>> \in Seq(Seq(Cells)) /\ Len(<<z>>) = 1 /\ <<z>>[1] = z
      BY <2>2
    <3>2. PICK v \in Seq(Seq(Cells)) : v = <<z>> /\ Len(v) = 1 /\ v[1] = z
      BY <3>1, Zenon
    <3>3. /\ gl \in Seq(Seq(Cells)) /\ Len(gl) = Len(v) + Len(tl)
          /\ \A i \in 1..(Len(v) + Len(tl)) :
               gl[i] = IF i <= Len(v) THEN v[i] ELSE tl[i - Len(v)]
      BY <1>12, <2>3, <3>2, ConcatProperties
    <3>4. Len(gl) = Len(fl) /\ gl[1] = z
      BY <1>3, <1>12, <3>2, <3>3
    <3>5. ASSUME NEW i \in 2..Len(fl) PROVE gl[i] = fl[i]
      <4>1. i \in 1..(Len(v) + Len(tl)) /\ ~(i <= Len(v)) /\ i - Len(v) = i - 1
            /\ i - 1 \in 1..Len(tl) /\ (i - 1) + 1 = i
        BY <1>3, <1>12, <3>2
      <4>2. gl[i] = tl[i - 1]
        BY <3>3, <4>1
      <4> QED
        BY <1>12, <4>1, <4>2
    <3> QED
      BY <3>3, <3>4, <3>5
  <2>5. Behind(gl, e, s, T, d + m)
    <3>1. s[e + 1] <= d + m /\ d + m < s[e + 2]
      BY <1>2, <1>5, <1>6, <1>15
    <3>2. gl # << >>
      BY <1>3, <2>4, EmptySeq
    <3>3. ASSUME NEW i \in 1..Len(gl)
          PROVE  /\ Len(gl[i]) = s[e + i + 1] - Low(s, d + m, e, i)
                 /\ \A k \in 1..Len(gl[i]) : gl[i][k] = T[Low(s, d + m, e, i) + k]
      <4>1. CASE i = 1
        <5>1. Low(s, d + m, e, i) = d + m /\ gl[i] = z /\ e + i + 1 = e + 2
          BY <1>3, <2>4, <4>1 DEF Low
        <5>2. Len(z) = s[e + 2] - (d + m)
          BY <1>5, <1>6, <2>2
        <5>3. ASSUME NEW k \in 1..Len(z) PROVE z[k] = T[(d + m) + k]
          <6>1. m + k \in 1..Len(y) /\ d + (m + k) = (d + m) + k
            BY <1>5, <2>2
          <6> QED
            BY <1>6, <2>2, <6>1
        <5> QED
          BY <5>1, <5>2, <5>3, Zenon
      <4>2. CASE i # 1
        <5>1. i \in 2..Len(fl)
          BY <1>3, <2>4, <4>2
        <5>2. /\ Len(fl[i]) = s[e + i + 1] - Low(s, d + m, e, i)
              /\ \A k \in 1..Len(fl[i]) : fl[i][k] = T[Low(s, d + m, e, i) + k]
          BY <1>13, <5>1
        <5>3. gl[i] = fl[i]
          BY <2>4, <5>1
        <5> QED
          BY <5>2, <5>3, Zenon
      <4> QED
        BY <4>1, <4>2
    <3> QED
      BY <3>1, <3>2, <3>3, Zenon DEF Behind
  <2>6. InFlight(gl, n, s, T, d + m)
    <3>1. n - Len(gl) = e /\ Len(gl) <= n
      BY <1>2, <1>3, <2>4
    <3> QED
      BY <2>4, <2>5, <3>1 DEF InFlight
  <2>7. d + m <= Len(T)
    BY <1>1, <1>5, <1>6, <1>7, <1>8
  <2> QED
    BY <1>4, <1>9, <1>10, <1>15, <2>6, <2>7, Zenon
<1> QED
  BY <1>14, <1>15

\* The receiver is c bytes inside the frame of packet g, and m bytes of the rest
\* are in the buffer.
WithinReach(h, pl, s, r, b, g, c, m) ==
  r = s[g] + c /\ m <= Len(b) /\ c + m <= Len(frame(h, pl[g]))

\* The buffer begins with these bytes.
Shows(h, pl, b, g, c, m) == \A k \in 1..m : b[k] = frame(h, pl[g])[c + k]

\* What the buffer begins with, from inside a frame on.
LEMMA Begins ==
  ASSUME NEW h, NEW pl, NEW n \in Nat, NEW s, NEW T, Stream(h, pl, n, s, T),
         NEW b, NEW r, NEW d, InBuffer(b, T, r, d),
         NEW g \in 1..n, NEW c \in Nat, NEW m \in Nat,
         WithinReach(h, pl, s, r, b, g, c, m)
  PROVE  Shows(h, pl, b, g, c, m)
<1> DEFINE f == frame(h, pl[g])
<1>1. /\ s \in [1..(n + 1) -> Nat] /\ Len(f) \in Nat
      /\ \A k \in 1..Len(f) : T[s[g] + k] = f[k]
  BY Zenon DEF Stream
<1>2. c + m <= Len(f) /\ m <= Len(b) /\ r = s[g] + c
  BY DEF WithinReach
<1> HIDE DEF f
<1>3. s[g] \in Nat
  BY <1>1
<1>4. Len(b) \in Nat /\ \A k \in 1..Len(b) : b[k] = T[r + k]
  BY LenProperties DEF InBuffer
<1>5. ASSUME NEW k \in 1..m PROVE b[k] = f[c + k]
  <2>1. k \in 1..Len(b) /\ c + k \in 1..Len(f) /\ r + k = s[g] + (c + k)
    BY <1>1, <1>2, <1>3, <1>4
  <2> QED
    BY <1>1, <1>4, <2>1
<1> QED
  BY <1>5, Zenon DEF f, Shows

\* A position inside the stream lies in a frame that has been sent.
LEMMA Inside ==
  ASSUME NEW h, NEW pl, NEW n \in Nat, NEW s, NEW T, Stream(h, pl, n, s, T),
         NEW g \in 1..(n + 1), NEW d \in Nat, d <= Len(T), s[g] < d
  PROVE  g <= n
<1>1. s \in [1..(n + 1) -> Nat] /\ Len(T) = s[n + 1]
  BY Zenon DEF Stream
<1> SUFFICES ASSUME g = n + 1 PROVE FALSE
  OBVIOUS
<1>2. s[g] \in Nat /\ d <= s[g]
  BY <1>1
<1> QED
  BY <1>2

\* If only whole frames are delivered, what has been begun is there.
LEMMA Whole ==
  ASSUME NEW h, NEW pl, NEW n \in Nat, NEW s, NEW T, Stream(h, pl, n, s, T),
         NEW g \in 1..n, NEW e \in 0..n, s[g] < s[e + 1]
  PROVE  s[g + 1] <= s[e + 1]
<1>1. /\ s \in [1..(n + 1) -> Nat]
      /\ \A i, j \in 1..(n + 1) : i < j => s[i] < s[j]
  BY Zenon DEF Stream
<1>2. /\ g \in 1..(n + 1) /\ g + 1 \in 1..(n + 1) /\ e + 1 \in 1..(n + 1)
  OBVIOUS
<1>3. s[g] \in Nat /\ s[g + 1] \in Nat /\ s[e + 1] \in Nat
  BY <1>1, <1>2
<1>4. CASE e + 1 = g
  BY <1>3, <1>4
<1>5. CASE e + 1 < g
  <2>1. s[e + 1] < s[g]
    BY <1>1, <1>2, <1>5, Zenon
  <2> QED
    BY <1>3, <2>1
<1>6. CASE e + 1 = g + 1
  BY <1>3, <1>6
<1>7. CASE g + 1 < e + 1
  <2>1. s[g + 1] < s[e + 1]
    BY <1>1, <1>2, <1>7, Zenon
  <2> QED
    BY <1>3, <2>1
<1> QED
  BY <1>4, <1>5, <1>6, <1>7

-----------------------------------------------------------------------------
(***************************************************************************)
(* The inductive invariant.                                                *)
(***************************************************************************)
Places == {"type", "packet", "info", "convert", "LOWSIZE"}

\* The packet g that was pulled is what was made of the packet p.
Right(g, p) ==
  /\ g.fields = p.fields
  /\ HasInfo(p.fields[1]) =>
       /\ Tidy(g.info)
       /\ WellFormed(p.info) => g.info = p.info
       /\ Separable(p.info) => g.info.ip = p.info.ip /\ g.info.port = p.info.port

\* What was pulled is right, and packets in one piece are never refused.
PulledInv ==
  /\ plan \in Plans /\ pushed \in 0..Len(plan)
  /\ at \in Places /\ (whole => at # "LOWSIZE")
  /\ Holds(header)
  /\ \E S : got \in Seq(S)
  /\ Len(got) <= pushed
  /\ \A i \in 1..Len(got) : Right(got[i], plan[i])

\* Where the receiver is: packet p is next, r bytes of the stream have been
\* read and d have been delivered.
At(g, p, s, r, d) ==
  /\ at # "type" => g <= pushed
  /\ at \in {"type", "packet"} => r = s[g]
  /\ at = "packet" => r < d
  /\ at = "info" => HasInfo(p.fields[1]) /\ r = s[g] + sizeof(p.fields[1])
  /\ at = "convert" => r = s[g + 1] /\ (HasInfo(p.fields[1]) => infostr = Info(p))
  /\ at \in {"info", "convert"} => convert(to, packet) = p.fields

\* The receiver is in step with the stream.
InStep(s, T, r, d) ==
  /\ Stream(from, plan, pushed, s, T)
  /\ InBuffer(buffer, T, r, d)
  /\ InFlight(flight, pushed, s, T, d)
  /\ At(Len(got) + 1, plan[Len(got) + 1], s, r, d)
  /\ whole => d = s[pushed - Len(flight) + 1]

\* It stays so until a packet is refused.
StreamInv == at # "LOWSIZE" => \E s, T, r, d : InStep(s, T, r, d)

\* The two parts together.
WireInv == PulledInv /\ StreamInv

\* Nothing has been sent.
LEMMA WireInit == Init => WireInv
<1> SUFFICES ASSUME Init PROVE WireInv
  OBVIOUS
<1>1. /\ plan \in Plans /\ pushed = 0 /\ flight = << >> /\ buffer = << >>
      /\ header \in Headers /\ got = << >> /\ at = "type"
  BY Zenon DEF Init
<1>2. Len(plan) \in Nat
  <2>1. plan \in Seq([fields : Seq(Nat), info : Config])
    BY <1>1, WireAssumption, Zenon
  <2> QED
    BY <2>1, LenProperties
<1>3. Holds(header)
  <2>1. header \in Config /\ Tidy(header)
    BY <1>1, WireAssumption, Zenon DEF Leftover, Tidy
  <2>2. DOMAIN header = HeaderFields
    BY <2>1 DEF Config, HeaderFields
  <2> QED
    BY <2>1, <2>2, Zenon DEF Holds
<1>4. PulledInv
  <2>1. got \in Seq({}) /\ Len(got) = 0 /\ pushed \in 0..Len(plan)
    BY <1>1, <1>2, EmptySeq
  <2>2. \A i \in 1..Len(got) : Right(got[i], plan[i])
    BY <2>1
  <2>3. at \in Places /\ at # "LOWSIZE" /\ Len(got) <= pushed
    BY <1>1, <2>1 DEF Places
  <2> QED
    BY <1>1, <1>3, <2>1, <2>2, <2>3, Zenon DEF PulledInv
<1>5. StreamInv
  <2> DEFINE s == [i \in 1..1 |-> 0]
             T == << >>
  <2>1. s \in [1..(0 + 1) -> Nat] /\ s[1] = 0 /\ T \in Seq(Cells) /\ Len(T) = 0
    OBVIOUS
  <2> HIDE DEF s
  <2>2. Stream(from, plan, pushed, s, T)
    BY <1>1, <2>1 DEF Stream
  <2>3. InBuffer(buffer, T, 0, 0)
    BY <1>1, <2>1 DEF InBuffer
  <2>4. flight \in Seq(Seq(Cells)) /\ Len(flight) = 0
    BY <1>1, EmptySeq
  <2>5. Behind(flight, 0, s, T, 0)
    BY <1>1, <2>1, <2>4 DEF Behind
  <2>6. InFlight(flight, pushed, s, T, 0)
    BY <1>1, <2>4, <2>5 DEF InFlight
  <2>7. At(Len(got) + 1, plan[Len(got) + 1], s, 0, 0)
    BY <1>1, <2>1 DEF At
  <2>8. 0 = s[pushed - Len(flight) + 1]
    BY <1>1, <2>1, <2>4
  <2>9. InStep(s, T, 0, 0)
    BY <2>2, <2>3, <2>6, <2>7, <2>8, Zenon DEF InStep
  <2> QED
    BY <2>9, Zenon DEF StreamInv
<1> QED
  BY <1>4, <1>5, Zenon DEF WireInv

\* push_*_header() extends the stream.
LEMMA PushStep == WireInv /\ push_header => WireInv'
<1> SUFFICES ASSUME WireInv, push_header PROVE WireInv'
  OBVIOUS
<1>1. /\ pushed < Len(plan) /\ pushed' = pushed + 1
      /\ flight' = Append(flight, frame(from, plan[pushed + 1]))
      /\ from' = from /\ to' = to /\ whole' = whole /\ plan' = plan
      /\ buffer' = buffer /\ packet' = packet /\ infostr' = infostr
      /\ header' = header /\ got' = got /\ at' = at
  BY Zenon DEF push_header, rvars, pvars
<1>2. /\ plan \in Plans /\ pushed \in 0..Len(plan)
      /\ at \in Places /\ (whole => at # "LOWSIZE") /\ Holds(header)
      /\ Len(got) <= pushed /\ \A i \in 1..Len(got) : Right(got[i], plan[i])
  BY Zenon DEF WireInv, PulledInv
<1>3. PICK S : got \in Seq(S)
  BY Zenon DEF WireInv, PulledInv
<1>4. Len(got) \in Nat /\ Len(plan) \in Nat
  <2>1. plan \in Seq([fields : Seq(Nat), info : Config])
    BY <1>2, WireAssumption, Zenon
  <2> QED
    BY <1>3, <2>1, LenProperties
<1>5. /\ pushed \in Nat /\ pushed + 1 \in 0..Len(plan) /\ pushed + 1 \in 1..Len(plan)
      /\ Len(got) <= pushed + 1
  BY <1>1, <1>2, <1>4
<1>6. PulledInv'
  BY <1>1, <1>2, <1>3, <1>5, Zenon DEF PulledInv
<1>7. ASSUME at # "LOWSIZE" PROVE \E s, T, r, d : InStep(s, T, r, d)'
  <2>1. PICK s, T, r, d : InStep(s, T, r, d)
    BY <1>7, Zenon DEF WireInv, StreamInv
  <2>2. /\ Stream(from, plan, pushed, s, T) /\ InBuffer(buffer, T, r, d)
        /\ InFlight(flight, pushed, s, T, d)
        /\ At(Len(got) + 1, plan[Len(got) + 1], s, r, d)
        /\ whole => d = s[pushed - Len(flight) + 1]
    BY <2>1, Zenon DEF InStep
  <2>3. PICK f : f = frame(from, plan[pushed + 1])
    OBVIOUS
  <2>4. Sendable(plan[pushed + 1])
    BY <1>2, <1>5, PlanFacts, Zenon
  <2>5. f \in Seq(Cells) /\ Len(f) >= 1
    <3>1. PICK m : m = sizeof(plan[pushed + 1].fields[1])
      OBVIOUS
    <3>2. /\ f \in Seq(Cells) /\ m \in Nat /\ m >= 1
          /\ Len(f) = IF HasInfo(plan[pushed + 1].fields[1])
                      THEN m + INFOSTRSIZE ELSE m
      BY <2>3, <2>4, <3>1, FrameFacts, Zenon
    <3> QED
      BY <3>2, FieldSizes
  <2>6. PICK u, U : /\ Stream(from, plan, pushed + 1, u, U)
                    /\ Extends(pushed, s, T, f, u, U)
    BY <1>5, <2>2, <2>3, <2>4, Extended, Zenon
  <2>7. U \in Seq(Cells) /\ Len(U) = u[pushed + 2]
    <3>1. U \in Seq(Cells) /\ Len(U) = u[pushed + 1 + 1]
      BY <2>6, Zenon DEF Stream
    <3>2. pushed + 1 + 1 = pushed + 2
      BY <1>5
    <3> QED
      BY <3>1, <3>2, Zenon
  <2>8. /\ InBuffer(buffer, U, r, d)
        /\ InFlight(Append(flight, f), pushed + 1, u, U, d)
    BY <1>5, <2>2, <2>5, <2>6, <2>7, Sent, Zenon
  <2>9. \A i \in 1..(pushed + 1) : u[i] = s[i]
    BY <2>6, Zenon DEF Extends
  <2>10. At(Len(got) + 1, plan[Len(got) + 1], u, r, d)'
    <3>1. PICK g : g = Len(got) + 1
      OBVIOUS
    <3>2. g \in 1..(pushed + 1) /\ u[g] = s[g]
      BY <1>2, <1>4, <1>5, <2>9, <3>1
    <3>3. PICK p : p = plan[g]
      OBVIOUS
    <3>4. At(g, p, s, r, d)
      BY <2>2, <3>1, <3>3, Zenon
    <3>5. at # "type" => g <= pushed + 1 /\ u[g + 1] = s[g + 1]
      <4> SUFFICES ASSUME at # "type" PROVE g <= pushed + 1 /\ u[g + 1] = s[g + 1]
        OBVIOUS
      <4>1. g <= pushed
        BY <3>4, Zenon DEF At
      <4>2. g + 1 \in 1..(pushed + 1) /\ g <= pushed + 1
        BY <1>5, <3>2, <4>1
      <4> QED
        BY <2>9, <4>2
    <3>6. at = "convert" => at # "type"
      OBVIOUS
    <3>7. At(g, p, u, r, d)'
      BY <1>1, <3>2, <3>4, <3>5, <3>6, Zenon DEF At
    <3> QED
      BY <1>1, <3>1, <3>3, <3>7, Zenon
  <2>11. whole => d = u[(pushed + 1) - Len(Append(flight, f)) + 1]
    <3>1. /\ flight \in Seq(Seq(Cells)) /\ Len(flight) <= pushed
      BY <2>2, Zenon DEF InFlight
    <3>2. Len(Append(flight, f)) = Len(flight) + 1 /\ Len(flight) \in Nat
      BY <2>5, <3>1, AppendProperties, LenProperties
    <3>3. /\ (pushed + 1) - Len(Append(flight, f)) + 1 = pushed - Len(flight) + 1
          /\ pushed - Len(flight) + 1 \in 1..(pushed + 1)
      BY <1>5, <3>1, <3>2
    <3> QED
      BY <2>2, <2>9, <3>3
  <2>12. InStep(u, U, r, d)'
    <3>1. flight' = Append(flight, f)
      BY <1>1, <2>3, Zenon
    <3>2. Stream(from, plan, pushed, u, U)'
      BY <1>1, <2>6, Zenon
    <3>3. InBuffer(buffer, U, r, d)'
      BY <1>1, <2>8, Zenon
    <3>4. InFlight(flight, pushed, u, U, d)'
      BY <1>1, <2>8, <3>1, Zenon
    <3>5. (whole => d = u[pushed - Len(flight) + 1])'
      BY <1>1, <2>11, <3>1, Zenon
    <3> QED
      BY <2>10, <3>2, <3>3, <3>4, <3>5, Zenon DEF InStep
  <2> QED
    BY <2>12, Zenon
<1>8. StreamInv'
  BY <1>1, <1>7, Zenon DEF StreamInv
<1> QED
  BY <1>6, <1>8, Zenon DEF WireInv


\* What the invariant says of the numbers.
LEMMA Counts ==
  ASSUME WireInv
  PROVE  /\ Len(got) \in Nat /\ pushed \in Nat /\ Len(got) <= pushed
         /\ pushed <= Len(plan) /\ Len(plan) \in Nat /\ plan \in Plans
         /\ Len(got) + 1 \in 1..(pushed + 1) /\ at \in Places
         /\ \A i \in 1..pushed : Sendable(plan[i])
<1>1. /\ plan \in Plans /\ pushed \in 0..Len(plan) /\ at \in Places
      /\ Len(got) <= pushed
  BY Zenon DEF WireInv, PulledInv
<1>2. PICK S : got \in Seq(S)
  BY Zenon DEF WireInv, PulledInv
<1>3. Len(got) \in Nat /\ Len(plan) \in Nat
  <2>1. plan \in Seq([fields : Seq(Nat), info : Config])
    BY <1>1, WireAssumption, Zenon
  <2> QED
    BY <1>2, <2>1, LenProperties
<1>4. /\ pushed \in Nat /\ pushed <= Len(plan)
      /\ Len(got) + 1 \in 1..(pushed + 1)
  BY <1>1, <1>3
<1>5. ASSUME NEW i \in 1..pushed PROVE Sendable(plan[i])
  <2>1. i \in 1..Len(plan)
    BY <1>3, <1>4
  <2> QED
    BY <1>1, <2>1, PlanFacts, Zenon
<1> QED
  BY <1>1, <1>3, <1>4, <1>5, Zenon

\* A step that pulls no packet.
LEMMA NothingPulled ==
  ASSUME WireInv, UNCHANGED <<whole, plan, pushed, header, got>>,
         at' \in Places, whole => at' # "LOWSIZE"
  PROVE  PulledInv'
<1>1. /\ plan \in Plans /\ pushed \in 0..Len(plan) /\ Holds(header)
      /\ Len(got) <= pushed /\ \A i \in 1..Len(got) : Right(got[i], plan[i])
  BY Zenon DEF WireInv, PulledInv
<1>2. PICK S : got \in Seq(S)
  BY Zenon DEF WireInv, PulledInv
<1>3. /\ whole' = whole /\ plan' = plan /\ pushed' = pushed /\ header' = header
      /\ got' = got /\ at' \in Places /\ (whole => at' # "LOWSIZE")
  OBVIOUS
<1>4. at' \in Places' /\ (whole' => at' # "LOWSIZE")
  BY <1>3 DEF Places
<1>5. /\ plan' \in Plans /\ pushed' \in 0..Len(plan') /\ Holds(header')
      /\ got' \in Seq(S) /\ Len(got') <= pushed'
      /\ \A i \in 1..Len(got') : Right(got'[i], plan'[i])
  BY <1>1, <1>2, <1>3, Zenon
<1> QED
  BY <1>4, <1>5, Zenon DEF PulledInv

\* TCP delivers what is next in the stream.
LEMMA DeliverStep == WireInv /\ Deliver => WireInv'
<1> SUFFICES ASSUME WireInv, Deliver PROVE WireInv'
  OBVIOUS
<1>1. PICK m \in 1..Len(Head(flight)) :
        /\ whole => m = Len(Head(flight))
        /\ buffer' = buffer \o SubSeq(Head(flight), 1, m)
        /\ flight' = Left(flight, m)
  BY Zenon DEF Deliver, Left
<1>2. /\ flight # << >> /\ from' = from /\ to' = to /\ whole' = whole
      /\ plan' = plan /\ pushed' = pushed /\ packet' = packet
      /\ infostr' = infostr /\ header' = header /\ got' = got /\ at' = at
  BY Zenon DEF Deliver, rvars, pvars
<1>3. PulledInv'
  <2>1. at \in Places /\ (whole => at # "LOWSIZE")
    BY Zenon DEF WireInv, PulledInv
  <2> QED
    BY <1>2, <2>1, NothingPulled, Zenon
<1>4. ASSUME at # "LOWSIZE" PROVE \E s, T, r, d : InStep(s, T, r, d)'
  <2>1. PICK s, T, r, d : InStep(s, T, r, d)
    BY <1>4, Zenon DEF WireInv, StreamInv
  <2>2. /\ Stream(from, plan, pushed, s, T) /\ InBuffer(buffer, T, r, d)
        /\ InFlight(flight, pushed, s, T, d)
        /\ At(Len(got) + 1, plan[Len(got) + 1], s, r, d)
    BY <2>1, Zenon DEF InStep
  <2>3. r \in Nat /\ d \in Nat /\ pushed \in Nat /\ Len(T) \in Nat
    <3>1. T \in Seq(Cells)
      BY <2>2, Zenon DEF Stream
    <3> QED
      BY <2>2, <3>1, Counts, LenProperties, Zenon DEF InBuffer
  <2>4. PICK x : x = SubSeq(Head(flight), 1, m)
    OBVIOUS
  <2>5. /\ InFlight(flight', pushed, s, T, d + m)
        /\ x \in Seq(Cells) /\ Len(x) = m /\ d + m <= Len(T)
        /\ \A k \in 1..m : x[k] = T[d + k]
        /\ m = Len(Head(flight)) => d + m = s[pushed - Len(flight') + 1]
    <3>1. PICK fl, n, gl : fl = flight /\ n = pushed /\ gl = flight'
      OBVIOUS
    <3>2. /\ Stream(from, plan, n, s, T) /\ InFlight(fl, n, s, T, d)
          /\ Moves(fl, m, x, gl) /\ n \in Nat
      BY <1>1, <1>2, <2>2, <2>3, <2>4, <3>1, Zenon DEF Moves
    <3>3. Arrives(n, s, T, fl, d, m, x, gl)
      BY <2>3, <3>2, Delivered, Zenon
    <3> QED
      BY <3>1, <3>3, Zenon DEF Arrives
  <2>6. InBuffer(buffer', T, r, d + m)
    <3>1. d + Len(x) <= Len(T) /\ \A k \in 1..Len(x) : x[k] = T[d + k]
      BY <2>5, Zenon
    <3>2. InBuffer(buffer \o x, T, r, d + Len(x))
      BY <2>2, <2>3, <2>5, <3>1, Filled, Zenon
    <3> QED
      BY <1>1, <2>4, <2>5, <3>2, Zenon
  <2>7. At(Len(got) + 1, plan[Len(got) + 1], s, r, d + m)'
    <3>1. PICK g, p : g = Len(got) + 1 /\ p = plan[g]
      OBVIOUS
    <3>2. At(g, p, s, r, d)
      BY <2>2, <3>1, Zenon
    <3>3. r < d => r < d + m
      BY <2>3, <2>5
    <3>4. At(g, p, s, r, d + m)'
      BY <1>2, <3>2, <3>3, Zenon DEF At
    <3> QED
      BY <1>2, <3>1, <3>4, Zenon
  <2>8. InStep(s, T, r, d + m)'
    <3>1. Stream(from, plan, pushed, s, T)'
      BY <1>2, <2>2, Zenon
    <3>2. InBuffer(buffer, T, r, d + m)'
      BY <2>6, Zenon
    <3>3. InFlight(flight, pushed, s, T, d + m)'
      BY <1>2, <2>5, Zenon
    <3>4. (whole => d + m = s[pushed - Len(flight) + 1])'
      BY <1>1, <1>2, <2>5, Zenon
    <3> QED
      BY <2>7, <3>1, <3>2, <3>3, <3>4, Zenon DEF InStep
  <2> QED
    BY <2>8, Zenon
<1>5. StreamInv'
  BY <1>2, <1>4, Zenon DEF StreamInv
<1> QED
  BY <1>3, <1>5, Zenon DEF WireInv

\* The packet p, the one numbered g, begins at s[g] and has been sent; whole
\* frames are there or not begun.
Upcoming(s, r, d, g, p) ==
  /\ g \in 1..pushed /\ Sendable(p) /\ p.fields[1] = expected
  /\ s[g] \in Nat /\ r \in Nat /\ d \in Nat /\ Len(frame(from, p)) \in Nat
  /\ s[g + 1] = s[g] + Len(frame(from, p))
  /\ whole /\ s[g] < d => s[g + 1] <= d

\* What the receiver is about to pull.
LEMMA NextFrame ==
  ASSUME WireInv, NEW s, NEW T, NEW r, NEW d, InStep(s, T, r, d),
         NEW g, g = Len(got) + 1, NEW p, p = plan[g], g <= pushed
  PROVE  Upcoming(s, r, d, g, p)
<1>1. /\ Stream(from, plan, pushed, s, T) /\ InBuffer(buffer, T, r, d)
      /\ InFlight(flight, pushed, s, T, d)
      /\ whole => d = s[pushed - Len(flight) + 1]
  BY Zenon DEF InStep
<1>2. g \in 1..pushed /\ pushed \in Nat
  BY Counts
<1>3. Sendable(p)
  BY <1>2, Counts, Zenon
<1>4. p.fields[1] = expected
  BY Zenon DEF expected
<1>5. r \in Nat /\ d \in Nat
  BY <1>1, Zenon DEF InBuffer
<1>6. /\ s \in [1..(pushed + 1) -> Nat]
      /\ Len(frame(from, p)) \in Nat
      /\ s[g + 1] = s[g] + Len(frame(from, p))
  BY <1>1, <1>2, Zenon DEF Stream
<1>7. s[g] \in Nat
  BY <1>2, <1>6
<1>8. ASSUME whole, s[g] < d PROVE s[g + 1] <= d
  <2>1. PICK e : e = pushed - Len(flight)
    OBVIOUS
  <2>2. flight \in Seq(Seq(Cells)) /\ Len(flight) <= pushed
    BY <1>1, Zenon DEF InFlight
  <2>3. e \in 0..pushed
    BY <1>2, <2>1, <2>2, LenProperties
  <2>4. d = s[e + 1]
    BY <1>1, <1>8, <2>1, Zenon
  <2> QED
    BY <1>1, <1>2, <1>8, <2>3, <2>4, Whole, Zenon
<1> QED
  BY <1>2, <1>3, <1>4, <1>5, <1>6, <1>7, <1>8, Zenon DEF Upcoming


\* The type that recv() peeks at is the one the receiver waits for.
LEMMA PullTypeStep == WireInv /\ pull_type => WireInv'
<1> SUFFICES ASSUME WireInv, pull_type PROVE WireInv'
  OBVIOUS
<1>1. /\ at = "type" /\ buffer # << >>
      /\ at' = IF buffer[1] = expected THEN "packet" ELSE "BADTYPE"
      /\ from' = from /\ to' = to /\ whole' = whole /\ plan' = plan
      /\ pushed' = pushed /\ flight' = flight /\ buffer' = buffer
      /\ packet' = packet /\ infostr' = infostr /\ header' = header /\ got' = got
  BY Zenon DEF pull_type, rvars, pvars
<1>2. at # "LOWSIZE"
  BY <1>1
<1>3. PICK s, T, r, d : InStep(s, T, r, d)
  BY <1>2, Zenon DEF WireInv, StreamInv
<1>4. /\ Stream(from, plan, pushed, s, T) /\ InBuffer(buffer, T, r, d)
      /\ InFlight(flight, pushed, s, T, d)
      /\ At(Len(got) + 1, plan[Len(got) + 1], s, r, d)
      /\ whole => d = s[pushed - Len(flight) + 1]
  BY <1>3, Zenon DEF InStep
<1>5. PICK g, p : g = Len(got) + 1 /\ p = plan[g]
  OBVIOUS
<1>6. At(g, p, s, r, d)
  BY <1>4, <1>5, Zenon
<1>7. r = s[g]
  BY <1>1, <1>6 DEF At
<1>8. /\ r \in Nat /\ d \in Nat /\ d <= Len(T) /\ Len(buffer) = d - r
      /\ buffer \in Seq(Cells)
  BY <1>4, Zenon DEF InBuffer
<1>9. Len(buffer) \in Nat /\ Len(buffer) >= 1 /\ r < d
  BY <1>1, <1>8, EmptySeq, LenProperties
<1>10. pushed \in Nat /\ g \in 1..(pushed + 1)
  BY <1>5, Counts
<1>11. g <= pushed /\ g \in 1..pushed
  <2>1. g <= pushed
    BY <1>4, <1>7, <1>8, <1>9, <1>10, Inside
  <2> QED
    BY <1>10, <2>1
<1>12. /\ Sendable(p) /\ p.fields[1] = expected /\ s[g] \in Nat
       /\ Len(frame(from, p)) \in Nat
  <2>1. Upcoming(s, r, d, g, p)
    BY <1>3, <1>5, <1>11, NextFrame, Zenon
  <2> QED
    BY <2>1, Zenon DEF Upcoming
<1>13. frame(from, p)[1] = expected /\ Len(frame(from, p)) >= 1
  <2>1. PICK m, f, type : /\ m = sizeof(type) /\ f = frame(from, p)
                          /\ type = p.fields[1]
    OBVIOUS
  <2>2. /\ m \in Nat /\ m >= 1 /\ f[1] = type
        /\ Len(f) = IF HasInfo(type) THEN m + INFOSTRSIZE ELSE m
    BY <1>12, <2>1, FrameFacts, Zenon
  <2> QED
    BY <1>12, <2>1, <2>2, FieldSizes
<1>14. buffer[1] = expected
  <2>1. WithinReach(from, plan, s, r, buffer, g, 0, 1)
    BY <1>5, <1>7, <1>9, <1>12, <1>13 DEF WithinReach
  <2>2. 0 \in Nat /\ 1 \in Nat
    OBVIOUS
  <2>3. Shows(from, plan, buffer, g, 0, 1)
    BY <1>4, <1>10, <1>11, <2>1, <2>2, Begins, Zenon
  <2> QED
    BY <1>5, <1>13, <2>3 DEF Shows
<1>15. at' = "packet"
  BY <1>1, <1>14, Zenon
<1>16. PulledInv'
  BY <1>1, <1>15, NothingPulled DEF Places
<1>17. At(Len(got) + 1, plan[Len(got) + 1], s, r, d)'
  <2>1. At(g, p, s, r, d)'
    BY <1>1, <1>7, <1>9, <1>11, <1>15 DEF At
  <2> QED
    BY <1>1, <1>5, <2>1, Zenon
<1>18. InStep(s, T, r, d)'
  BY <1>1, <1>4, <1>17, Zenon DEF InStep
<1>19. StreamInv'
  BY <1>18, Zenon DEF StreamInv
<1> QED
  BY <1>16, <1>19, Zenon DEF WireInv

\* A packet is taken whole, or refused.
LEMMA PullPacketStep == WireInv /\ pull_packet => WireInv'
<1> SUFFICES ASSUME WireInv, pull_packet PROVE WireInv'
  OBVIOUS
<1>1. /\ at = "packet"
      /\ from' = from /\ to' = to /\ whole' = whole /\ plan' = plan
      /\ pushed' = pushed /\ flight' = flight
      /\ infostr' = infostr /\ header' = header /\ got' = got
  BY Zenon DEF pull_packet, rvars
<1>2. at # "LOWSIZE" /\ at # "type"
  BY <1>1
<1>3. PICK s, T, r, d : InStep(s, T, r, d)
  BY <1>2, Zenon DEF WireInv, StreamInv
<1>4. /\ Stream(from, plan, pushed, s, T) /\ InBuffer(buffer, T, r, d)
      /\ InFlight(flight, pushed, s, T, d)
      /\ At(Len(got) + 1, plan[Len(got) + 1], s, r, d)
      /\ whole => d = s[pushed - Len(flight) + 1]
  BY <1>3, Zenon DEF InStep
<1>5. PICK g, p : g = Len(got) + 1 /\ p = plan[g]
  OBVIOUS
<1>6. At(g, p, s, r, d)
  BY <1>4, <1>5, Zenon
<1>7. r = s[g] /\ r < d /\ g <= pushed
  BY <1>1, <1>6 DEF At
<1>8. /\ g \in 1..pushed /\ Sendable(p) /\ p.fields[1] = expected
      /\ s[g] \in Nat /\ r \in Nat /\ d \in Nat /\ Len(frame(from, p)) \in Nat
      /\ s[g + 1] = s[g] + Len(frame(from, p))
      /\ whole /\ s[g] < d => s[g + 1] <= d
  <2>1. g <= pushed
    BY <1>7, Zenon
  <2>2. Upcoming(s, r, d, g, p)
    BY <1>3, <1>5, <2>1, NextFrame, Zenon
  <2> QED
    BY <2>2, Zenon DEF Upcoming
<1>9. PICK m, type : m = sizeof(type) /\ type = p.fields[1]
  OBVIOUS
<1>10. /\ m \in Nat /\ m >= 1
       /\ Len(frame(from, p)) = IF HasInfo(type) THEN m + INFOSTRSIZE ELSE m
  BY <1>8, <1>9, FrameFacts, Zenon
<1>11. m <= Len(frame(from, p))
  BY <1>10, FieldSizes
<1>12. /\ Len(buffer) = d - r /\ buffer \in Seq(Cells) /\ Len(buffer) \in Nat
  BY <1>4, LenProperties DEF InBuffer
<1>13. CASE Len(buffer) >= m
  <2>1. ~(Len(buffer) < m)
    BY <1>10, <1>12, <1>13
  <2>2. /\ buffer' = SubSeq(buffer, m + 1, Len(buffer))
        /\ packet' = structure(to, type, buffer)
        /\ at' = IF HasInfo(type) THEN "info" ELSE "convert"
    BY <1>8, <1>9, <2>1, Zenon DEF pull_packet
  <2>3. at' \in Places /\ at' # "LOWSIZE" /\ at' \in {"info", "convert"}
        /\ at' # "type" /\ at' # "packet"
    BY <2>2 DEF Places
  <2>4. PulledInv'
    BY <1>1, <2>3, NothingPulled
  <2>5. convert(to, structure(to, type, buffer)) = p.fields
    <3>1. WithinReach(from, plan, s, r, buffer, g, 0, m) /\ 0 \in Nat
      BY <1>5, <1>7, <1>8, <1>10, <1>11, <1>12, <1>13 DEF WithinReach
    <3>2. Shows(from, plan, buffer, g, 0, m)
      BY <1>4, <1>8, <1>10, <3>1, Begins, Counts, Zenon
    <3>3. \A k \in 1..m : buffer[k] = frame(from, p)[k]
      BY <1>5, <1>10, <3>2 DEF Shows
    <3> QED
      BY <1>8, <1>9, <1>12, <1>13, <3>3, PacketPulled
  <2>6. InBuffer(buffer', T, r + m, d)
    BY <1>4, <1>10, <1>12, <1>13, <2>2, Taken
  <2>7. convert(to', packet') = p.fields
    BY <1>1, <2>2, <2>5, Zenon
  <2>8. r + m = s[g] + sizeof(p.fields[1])
    BY <1>7, <1>9, Zenon
  <2>9. ~HasInfo(type) => r + m = s[g + 1]
    BY <1>7, <1>8, <1>10
  <2>10. At(Len(got) + 1, plan[Len(got) + 1], s, r + m, d)'
    <3>1. at' = "info" => HasInfo(p.fields[1])
      BY <1>9, <2>2
    <3>2. at' = "convert" => ~HasInfo(p.fields[1]) /\ r + m = s[g + 1]
      BY <1>9, <2>2, <2>9
    <3>3. At(g, p, s, r + m, d)'
      BY <1>1, <1>7, <2>3, <2>7, <2>8, <3>1, <3>2, Zenon DEF At
    <3> QED
      BY <1>1, <1>5, <3>3, Zenon
  <2>11. InStep(s, T, r + m, d)'
    BY <1>1, <1>4, <2>6, <2>10, Zenon DEF InStep
  <2>12. StreamInv'
    BY <2>11, Zenon DEF StreamInv
  <2> QED
    BY <2>4, <2>12, Zenon DEF WireInv
<1>14. CASE ~(Len(buffer) >= m)
  <2>1. at' = "LOWSIZE"
    BY <1>8, <1>9, <1>14, Zenon DEF pull_packet
  <2>2. ~whole
    BY <1>7, <1>8, <1>10, <1>11, <1>12, <1>14
  <2>3. PulledInv'
    BY <1>1, <2>1, <2>2, NothingPulled DEF Places
  <2>4. StreamInv'
    BY <2>1, Zenon DEF StreamInv
  <2> QED
    BY <2>3, <2>4, Zenon DEF WireInv
<1> QED
  BY <1>13, <1>14, Zenon


\* So is the info string.
LEMMA PullInfoStep == WireInv /\ pull_info => WireInv'
<1> SUFFICES ASSUME WireInv, pull_info PROVE WireInv'
  OBVIOUS
<1>1. /\ at = "info" /\ buffer # << >>
      /\ from' = from /\ to' = to /\ whole' = whole /\ plan' = plan
      /\ pushed' = pushed /\ flight' = flight
      /\ packet' = packet /\ header' = header /\ got' = got
  BY Zenon DEF pull_info, rvars
<1>2. at # "LOWSIZE" /\ at # "type"
  BY <1>1
<1>3. PICK s, T, r, d : InStep(s, T, r, d)
  BY <1>2, Zenon DEF WireInv, StreamInv
<1>4. /\ Stream(from, plan, pushed, s, T) /\ InBuffer(buffer, T, r, d)
      /\ InFlight(flight, pushed, s, T, d)
      /\ At(Len(got) + 1, plan[Len(got) + 1], s, r, d)
      /\ whole => d = s[pushed - Len(flight) + 1]
  BY <1>3, Zenon DEF InStep
<1>5. PICK g, p : g = Len(got) + 1 /\ p = plan[g]
  OBVIOUS
<1>6. At(g, p, s, r, d)
  BY <1>4, <1>5, Zenon
<1>7. PICK m : m = sizeof(p.fields[1])
  OBVIOUS
<1>8. /\ g <= pushed /\ HasInfo(p.fields[1]) /\ r = s[g] + m
      /\ convert(to, packet) = p.fields
  BY <1>1, <1>6, <1>7 DEF At
<1>9. /\ g \in 1..pushed /\ Sendable(p)
      /\ s[g] \in Nat /\ r \in Nat /\ d \in Nat /\ Len(frame(from, p)) \in Nat
      /\ s[g + 1] = s[g] + Len(frame(from, p))
      /\ whole /\ s[g] < d => s[g + 1] <= d
  <2>1. g <= pushed
    BY <1>8, Zenon
  <2>2. Upcoming(s, r, d, g, p)
    BY <1>3, <1>5, <2>1, NextFrame, Zenon
  <2> QED
    BY <2>2, Zenon DEF Upcoming
<1>10. m \in Nat /\ Len(frame(from, p)) = m + INFOSTRSIZE
  BY <1>7, <1>8, <1>9, FrameFacts, Zenon
<1>11. /\ Len(buffer) = d - r /\ buffer \in Seq(Cells) /\ Len(buffer) \in Nat
       /\ Len(buffer) >= 1 /\ INFOSTRSIZE \in Nat
  BY <1>1, <1>4, EmptySeq, LenProperties, FieldSizes DEF InBuffer
<1>12. CASE Len(buffer) >= INFOSTRSIZE
  <2>1. ~(Len(buffer) < INFOSTRSIZE)
    BY <1>11, <1>12
  <2>2. /\ at' = "convert"
        /\ infostr' = scan(SubSeq(buffer, 1, INFOSTRSIZE), NUL, INFOSTRSIZE)
        /\ buffer' = SubSeq(buffer, INFOSTRSIZE + 1, Len(buffer))
    BY <2>1, Zenon DEF pull_info
  <2>3. PulledInv'
    BY <1>1, <2>2, NothingPulled DEF Places
  <2>4. infostr' = Info(p)
    <3>1. WithinReach(from, plan, s, r, buffer, g, m, INFOSTRSIZE)
      BY <1>5, <1>8, <1>10, <1>11, <1>12 DEF WithinReach
    <3>2. Shows(from, plan, buffer, g, m, INFOSTRSIZE)
      BY <1>4, <1>9, <1>10, <1>11, <3>1, Begins, Counts, Zenon
    <3>3. \A k \in 1..INFOSTRSIZE :
            buffer[k] = frame(from, p)[sizeof(p.fields[1]) + k]
      BY <1>5, <1>7, <3>2, Zenon DEF Shows
    <3> QED
      BY <1>8, <1>9, <1>11, <1>12, <2>2, <3>3, InfoPulled
  <2>5. InBuffer(buffer', T, r + INFOSTRSIZE, d)
    BY <1>4, <1>11, <1>12, <2>2, Taken
  <2>6. r + INFOSTRSIZE = s[g + 1]
    BY <1>8, <1>9, <1>10, <1>11
  <2>7. At(Len(got) + 1, plan[Len(got) + 1], s, r + INFOSTRSIZE, d)'
    <3>1. /\ at' # "type" /\ at' # "packet" /\ at' # "info"
          /\ ~(at' \in {"type", "packet"})
      BY <2>2
    <3>2. At(g, p, s, r + INFOSTRSIZE, d)'
      BY <1>1, <1>8, <2>4, <2>6, <3>1, Zenon DEF At
    <3> QED
      BY <1>1, <1>5, <3>2, Zenon
  <2>8. InStep(s, T, r + INFOSTRSIZE, d)'
    BY <1>1, <1>4, <2>5, <2>7, Zenon DEF InStep
  <2>9. StreamInv'
    BY <2>8, Zenon DEF StreamInv
  <2> QED
    BY <2>3, <2>9, Zenon DEF WireInv
<1>13. CASE ~(Len(buffer) >= INFOSTRSIZE)
  <2>1. at' = "LOWSIZE"
    BY <1>13, Zenon DEF pull_info
  <2>2. ~whole
    BY <1>8, <1>9, <1>10, <1>11, <1>13
  <2>3. PulledInv'
    BY <1>1, <2>1, <2>2, NothingPulled DEF Places
  <2>4. StreamInv'
    BY <2>1, Zenon DEF StreamInv
  <2> QED
    BY <2>3, <2>4, Zenon DEF WireInv
<1> QED
  BY <1>12, <1>13, Zenon

\* What is handed to the caller is what was sent.
LEMMA PullConvertStep == WireInv /\ pull_convert => WireInv'
<1> SUFFICES ASSUME WireInv, pull_convert PROVE WireInv'
  OBVIOUS
<1>1. /\ at = "convert" /\ at' = "type"
      /\ header' = IF HasInfo(expected)
                     THEN unpack_from_infostring(infostr, header) ELSE header
      /\ got' = Append(got, [fields |-> convert(to, packet), info |-> header'])
      /\ from' = from /\ to' = to /\ whole' = whole /\ plan' = plan
      /\ pushed' = pushed /\ flight' = flight /\ buffer' = buffer
  BY Zenon DEF pull_convert, rvars
<1>2. at # "LOWSIZE" /\ at # "type"
  BY <1>1
<1>3. PICK s, T, r, d : InStep(s, T, r, d)
  BY <1>2, Zenon DEF WireInv, StreamInv
<1>4. /\ Stream(from, plan, pushed, s, T) /\ InBuffer(buffer, T, r, d)
      /\ InFlight(flight, pushed, s, T, d)
      /\ At(Len(got) + 1, plan[Len(got) + 1], s, r, d)
      /\ whole => d = s[pushed - Len(flight) + 1]
  BY <1>3, Zenon DEF InStep
<1>5. PICK g, p : g = Len(got) + 1 /\ p = plan[g]
  OBVIOUS
<1>6. At(g, p, s, r, d)
  BY <1>4, <1>5, Zenon
<1>7. /\ g <= pushed /\ r = s[g + 1] /\ convert(to, packet) = p.fields
      /\ HasInfo(p.fields[1]) => infostr = Info(p)
  BY <1>1, <1>6 DEF At
<1>8. g \in 1..pushed /\ Sendable(p) /\ p.fields[1] = expected
  <2>1. g <= pushed
    BY <1>7, Zenon
  <2>2. Upcoming(s, r, d, g, p)
    BY <1>3, <1>5, <2>1, NextFrame, Zenon
  <2> QED
    BY <2>2, Zenon DEF Upcoming
<1>9. /\ plan \in Plans /\ pushed \in 0..Len(plan) /\ Holds(header)
      /\ \A i \in 1..Len(got) : Right(got[i], plan[i])
  BY Zenon DEF WireInv, PulledInv
<1>10. PICK S : got \in Seq(S)
  BY Zenon DEF WireInv, PulledInv
<1>11. PICK x : x = [fields |-> convert(to, packet), info |-> header']
  OBVIOUS
<1>12. x.fields = p.fields /\ x.info = header'
  BY <1>7, <1>11
<1>13. Announces(p.info)
  BY <1>8, Zenon DEF Sendable
<1>14. /\ Holds(header') /\ Right(x, p)
  <2>1. CASE HasInfo(p.fields[1])
    <3>1. header' = unpack_from_infostring(Info(p), header)
      BY <1>1, <1>7, <1>8, <2>1, Zenon
    <3>2. Info(p) \in Seq(Letters)
      BY <1>13, AnnouncedLine, Zenon DEF Info
    <3>3. Holds(header')
      BY <1>9, <3>1, <3>2, StillHolds, Zenon
    <3>4. Tidy(header')
      BY <3>3, Zenon DEF Holds
    <3>5. WellFormed(p.info) => header' = p.info
      BY <1>9, <1>13, <3>1, Recovered, Zenon DEF Info
    <3>6. Separable(p.info) =>
            header'.ip = p.info.ip /\ header'.port = p.info.port
      BY <1>9, <1>13, <3>1, AddressRecovered, Zenon DEF Info
    <3> QED
      BY <1>12, <3>3, <3>4, <3>5, <3>6, Zenon DEF Right
  <2>2. CASE ~HasInfo(p.fields[1])
    <3>1. header' = header
      BY <1>1, <1>8, <2>2, Zenon
    <3> QED
      BY <1>9, <1>12, <2>2, <3>1, Zenon DEF Right
  <2> QED
    BY <2>1, <2>2, Zenon
<1>15. PICK R : R = S \union {x}
  OBVIOUS
<1>16. /\ got' \in Seq(R) /\ Len(got') = g /\ got'[g] = x
       /\ \A i \in 1..Len(got) : got'[i] = got[i]
  <2>1. got \in Seq(R) /\ x \in R
    BY <1>10, <1>15, SeqMonotonic
  <2>2. got' = Append(got, x)
    BY <1>1, <1>11, Zenon
  <2>3. /\ Append(got, x) \in Seq(R) /\ Len(Append(got, x)) = Len(got) + 1
        /\ \A i \in 1..Len(got) : Append(got, x)[i] = got[i]
        /\ Append(got, x)[Len(got) + 1] = x
    BY <2>1, AppendProperties
  <2> QED
    BY <1>5, <2>2, <2>3, Zenon
<1>17. ASSUME NEW i \in 1..g PROVE Right(got'[i], plan[i])
  <2>1. CASE i = g
    BY <1>5, <1>14, <1>16, <2>1, Zenon
  <2>2. CASE i # g
    <3>1. i \in 1..Len(got)
      BY <1>5, <2>2, Counts
    <3> QED
      BY <1>9, <1>16, <3>1, Zenon
  <2> QED
    BY <2>1, <2>2, Zenon
<1>18. PulledInv'
  <2>1. /\ plan' \in Plans /\ pushed' \in 0..Len(plan') /\ Holds(header')
        /\ got' \in Seq(R) /\ Len(got') <= pushed'
        /\ \A i \in 1..Len(got') : Right(got'[i], plan'[i])
    BY <1>1, <1>7, <1>9, <1>14, <1>16, <1>17, Zenon
  <2>2. at' \in Places' /\ (whole' => at' # "LOWSIZE")
    BY <1>1 DEF Places
  <2> QED
    BY <2>1, <2>2, Zenon DEF PulledInv
<1>19. At(Len(got) + 1, plan[Len(got) + 1], s, r, d)'
  <2>1. PICK q, c : c = Len(got') + 1 /\ q = plan'[c]
    OBVIOUS
  <2>2. r = s[c]
    BY <1>7, <1>16, <2>1, Zenon
  <2>3. At(c, q, s, r, d)'
    BY <1>1, <2>2 DEF At
  <2> QED
    BY <2>1, <2>3, Zenon
<1>20. InStep(s, T, r, d)'
  BY <1>1, <1>4, <1>19, Zenon DEF InStep
<1>21. StreamInv'
  BY <1>20, Zenon DEF StreamInv
<1> QED
  BY <1>18, <1>21, Zenon DEF WireInv

\* Every step.
LEMMA WireStep == WireInv /\ [Next]_vars => WireInv'
<1> SUFFICES ASSUME WireInv, [Next]_vars PROVE WireInv'
  OBVIOUS
<1>1. CASE push_header
  BY <1>1, PushStep, Zenon
<1>2. CASE Deliver
  BY <1>2, DeliverStep, Zenon
<1>3. CASE pull_type
  BY <1>3, PullTypeStep, Zenon
<1>4. CASE pull_packet
  BY <1>4, PullPacketStep, Zenon
<1>5. CASE pull_info
  BY <1>5, PullInfoStep, Zenon
<1>6. CASE pull_convert
  BY <1>6, PullConvertStep, Zenon
<1>7. CASE UNCHANGED vars
  <2>1. /\ from' = from /\ to' = to /\ whole' = whole /\ plan' = plan
        /\ pushed' = pushed /\ flight' = flight /\ buffer' = buffer
        /\ packet' = packet /\ infostr' = infostr /\ header' = header
        /\ got' = got /\ at' = at
    BY <1>7, Zenon DEF vars
  <2>2. at \in Places /\ (whole => at # "LOWSIZE")
    BY Zenon DEF WireInv, PulledInv
  <2>3. PulledInv'
    BY <2>1, <2>2, NothingPulled, Zenon
  <2>4. ASSUME at # "LOWSIZE" PROVE \E s, T, r, d : InStep(s, T, r, d)'
    <3>1. PICK s, T, r, d : InStep(s, T, r, d)
      BY <2>4, Zenon DEF WireInv, StreamInv
    <3>2. InStep(s, T, r, d)'
      BY <2>1, <3>1, Zenon DEF InStep, At
    <3> QED
      BY <3>2, Zenon
  <2>5. StreamInv'
    BY <2>1, <2>4, Zenon DEF StreamInv
  <2> QED
    BY <2>3, <2>5, Zenon DEF WireInv
<1> QED
  BY <1>1, <1>2, <1>3, <1>4, <1>5, <1>6, <1>7, Zenon DEF Next


-----------------------------------------------------------------------------
(***************************************************************************)
(* The theorems.                                                           *)
(***************************************************************************)

\* Whatever the plans, the byte orders and the pieces TCP delivers, the receiver
\* of pull_*_header() stays in step with the stream of push_*_header() until it
\* refuses a short read.
THEOREM WireSafe == Spec => []WireInv
<1> QED
  BY WireInit, WireStep, PTL DEF Spec

\* A packet that is pulled and converted carries the fields of the next one that
\* was packed and pushed: a short read never shifts the stream, and no type is
\* ever refused.
THEOREM WireFramed == Spec => []InFrame
<1>1. WireInv => InFrame
  <2> SUFFICES ASSUME WireInv PROVE InFrame
    OBVIOUS
  <2>1. /\ at \in Places /\ Len(got) <= pushed
        /\ \A i \in 1..Len(got) : Right(got[i], plan[i])
    BY Zenon DEF WireInv, PulledInv
  <2>2. at # "BADTYPE"
    BY <2>1 DEF Places
  <2>3. \A i \in 1..Len(got) : got[i].fields = plan[i].fields
    BY <2>1, Zenon DEF Right
  <2> QED
    BY <2>1, <2>2, <2>3, Zenon DEF InFrame
<1> QED
  BY <1>1, WireSafe, PTL

\* unpack_from_infostring() gives back what pack_into_infostring() was given for
\* exactly the well-formed configurations, whatever the receiver's structure
\* held before.
THEOREM WireRoundTrip == Spec => []RoundTrip
<1>1. WireInv => RoundTrip
  <2> SUFFICES ASSUME WireInv, NEW i \in Infos
               PROVE  got[i].info = plan[i].info <=> WellFormed(plan[i].info)
    BY Zenon DEF RoundTrip
  <2>1. i \in 1..Len(got) /\ HasInfo(plan[i].fields[1])
    BY Zenon DEF Infos
  <2>2. Right(got[i], plan[i])
    BY <2>1, Zenon DEF WireInv, PulledInv
  <2>3. /\ Tidy(got[i].info)
        /\ WellFormed(plan[i].info) => got[i].info = plan[i].info
    BY <2>1, <2>2, Zenon DEF Right
  <2>4. ASSUME got[i].info = plan[i].info PROVE WellFormed(plan[i].info)
    <3>1. PICK a : a = plan[i].info
      OBVIOUS
    <3>2. Announces(a)
      <4>1. /\ plan \in Plans /\ pushed \in 0..Len(plan) /\ Len(got) <= pushed
            /\ \E S : got \in Seq(S)
        BY Zenon DEF WireInv, PulledInv
      <4>2. Len(plan) \in Nat /\ Len(got) \in Nat
        <5>1. plan \in Seq([fields : Seq(Nat), info : Config])
          BY <4>1, WireAssumption, Zenon
        <5> QED
          BY <4>1, <5>1, LenProperties, Zenon
      <4>3. i \in 1..Len(plan)
        BY <2>1, <4>1, <4>2
      <4> QED
        BY <3>1, <4>1, <4>3, PlanFacts, Zenon DEF Sendable
    <3>3. Tidy(a)
      BY <2>3, <2>4, <3>1, Zenon
    <3>4. Len(a.filename) # 0 /\ Len(a.name) # 0
      BY <3>2, AnnouncedStrings, EmptySeq, Zenon DEF Announces
    <3>5. /\ Len(a.filename) \in 1..(MAXFILENAMESIZE - 1)
          /\ Len(a.name) \in 1..(MAXNAMESIZE - 1)
      <4>1. /\ Len(a.filename) \in 0..(MAXFILENAMESIZE - 1)
            /\ Len(a.name) \in 0..(MAXNAMESIZE - 1)
        BY <3>3, Zenon DEF Tidy
      <4> QED
        BY <3>4, <4>1, FieldSizes
    <3> QED
      BY <3>1, <3>3, <3>5, Zenon DEF Tidy, WellFormed
  <2> QED
    BY <2>3, <2>4, Zenon
<1> QED
  BY <1>1, WireSafe, PTL

\* sscanf() reads the address and the port that were packed although colons inside
\* the file name move the border of the names, provided that the file name does
\* not start with one and that what stands in the place of the name has no at
\* sign and fits its field. Nothing is said of the other configurations.
THEOREM WireAddress == Spec => []AddressSurvives
<1>1. WireInv => AddressSurvives
  <2> SUFFICES ASSUME WireInv, NEW i \in Infos, Separable(plan[i].info)
               PROVE  /\ got[i].info.ip = plan[i].info.ip
                      /\ got[i].info.port = plan[i].info.port
    BY Zenon DEF AddressSurvives
  <2>1. i \in 1..Len(got) /\ HasInfo(plan[i].fields[1])
    BY Zenon DEF Infos
  <2>2. Right(got[i], plan[i])
    BY <2>1, Zenon DEF WireInv, PulledInv
  <2> QED
    BY <2>1, <2>2, Zenon DEF Right
<1> QED
  BY <1>1, WireSafe, PTL

\* If TCP delivers whole packets no read of pull_*_header() is short, and once
\* the stream has run dry every packet pushed has been pulled.
THEOREM WireWhole == Spec => []WholePacketsPulled
<1>1. WireInv => WholePacketsPulled
  <2> SUFFICES ASSUME WireInv, whole
               PROVE  /\ at # "LOWSIZE"
                      /\ flight = << >> /\ buffer = << >> /\ at # "convert" =>
                           Len(got) = pushed /\ at = "type"
    BY Zenon DEF WholePacketsPulled
  <2>1. at # "LOWSIZE"
    BY Zenon DEF WireInv, PulledInv
  <2>2. ASSUME flight = << >>, buffer = << >>, at # "convert"
        PROVE  Len(got) = pushed /\ at = "type"
    <3>1. PICK s, T, r, d : InStep(s, T, r, d)
      BY <2>1, Zenon DEF WireInv, StreamInv
    <3>2. /\ Stream(from, plan, pushed, s, T) /\ InBuffer(buffer, T, r, d)
          /\ InFlight(flight, pushed, s, T, d)
          /\ At(Len(got) + 1, plan[Len(got) + 1], s, r, d)
          /\ d = s[pushed - Len(flight) + 1]
      BY <3>1, Zenon DEF InStep
    <3>3. Len(flight) = 0 /\ Len(buffer) = 0
      BY <2>2, EmptySeq
    <3>4. /\ pushed \in Nat /\ Len(got) \in Nat /\ Len(got) <= pushed
          /\ at \in Places
      BY Counts, Zenon
    <3>5. d = s[pushed + 1]
      BY <3>2, <3>3, <3>4
    <3>6. r \in Nat /\ d \in Nat /\ r = d
      BY <3>2, <3>3 DEF InBuffer
    <3>7. PICK g, p : g = Len(got) + 1 /\ p = plan[g]
      OBVIOUS
    <3>8. At(g, p, s, r, d)
      BY <3>2, <3>7, Zenon
    <3>9. at # "packet"
      BY <3>6, <3>8 DEF At
    <3>10. at # "info"
      <4> SUFFICES ASSUME at = "info" PROVE FALSE
        OBVIOUS
      <4>1. PICK m : m = sizeof(p.fields[1])
        OBVIOUS
      <4>2. g <= pushed /\ HasInfo(p.fields[1]) /\ r = s[g] + m
        BY <3>8, <4>1 DEF At
      <4>3. g <= pushed
        BY <4>2, Zenon
      <4>4. Upcoming(s, r, d, g, p)
        BY <3>1, <3>7, <4>3, NextFrame, Zenon
      <4>5. /\ Sendable(p) /\ s[g] \in Nat /\ Len(frame(from, p)) \in Nat
            /\ s[g + 1] = s[g] + Len(frame(from, p))
            /\ s[g] < d => s[g + 1] <= d
        BY <4>4, Zenon DEF Upcoming
      <4>6. m \in Nat /\ m >= 1 /\ Len(frame(from, p)) = m + INFOSTRSIZE
        BY <4>1, <4>2, <4>5, FrameFacts, Zenon
      <4> QED
        BY <3>6, <4>2, <4>5, <4>6, FieldSizes
    <3>11. at = "type"
      BY <2>1, <2>2, <3>4, <3>9, <3>10 DEF Places
    <3>12. s[g] = s[pushed + 1]
      BY <3>5, <3>6, <3>8, <3>11 DEF At
    <3>13. g = pushed + 1
      <4>1. /\ s \in [1..(pushed + 1) -> Nat]
            /\ \A i, j \in 1..(pushed + 1) : i < j => s[i] < s[j]
        BY <3>2, Zenon DEF Stream
      <4>2. g \in 1..(pushed + 1) /\ pushed + 1 \in 1..(pushed + 1)
        BY <3>4, <3>7
      <4>3. s[pushed + 1] \in Nat
        BY <4>1, <4>2
      <4> SUFFICES ASSUME g < pushed + 1 PROVE FALSE
        BY <3>4, <4>2
      <4>4. s[g] < s[pushed + 1]
        BY <4>1, <4>2, Zenon
      <4> QED
        BY <3>12, <4>3, <4>4
    <3> QED
      BY <3>4, <3>7, <3>11, <3>13
  <2> QED
    BY <2>1, <2>2, Zenon
<1> QED
  BY <1>1, WireSafe, PTL
=============================================================================
