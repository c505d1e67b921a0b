---------------------------- MODULE ChunkingProofs ----------------------------
(***************************************************************************)
(* Machine-checked proofs about Chunking, for every file size, chunk size  *)
(* and width of the integers.                                              *)
(***************************************************************************)
EXTENDS Chunking, TLAPS

USE CalcAssumption, ChunkingAssumption

-----------------------------------------------------------------------------
(***************************************************************************)
(* Arithmetic, and the operators of Calc.                                  *)
(***************************************************************************)
\* A remainder is below its divisor, and a number below it is its own.
LEMMA Mod ==
  ASSUME NEW a \in Int, NEW b \in Nat \ {0}
  PROVE  /\ a % b \in Nat
         /\ a % b < b
         /\ a \in 0..(b - 1) => a % b = a
  BY SMT

\* What is left of a after taking out all the b's is less than b.
LEMMA Div ==
  ASSUME NEW a \in Nat, NEW b \in Nat \ {0}
  PROVE  /\ a \div b \in Nat
         /\ (a \div b) * b <= a
         /\ a < (a \div b) * b + b
  BY SMT

\* Multiplication keeps the order.
LEMMA Monotone ==
  ASSUME NEW a \in Nat, NEW b \in Nat, NEW c \in Nat, a <= b
  PROVE  a * c <= b * c /\ a * c \in Nat /\ b * c \in Nat
  BY SMT

\* The multiple of b below a names the quotient.
LEMMA DivIs ==
  ASSUME NEW a \in Nat, NEW b \in Nat \ {0}, NEW k \in Nat,
         k * b <= a, a < k * b + b
  PROVE  a \div b = k
<1>1. PICK d \in Nat : d = a \div b /\ d * b <= a /\ a < d * b + b
  BY Div
<1>2. CASE d < k
  <2>1. (d + 1) * b <= k * b
    BY <1>2, Monotone
  <2> QED
    BY <1>1, <2>1
<1>3. CASE k < d
  <2>1. (k + 1) * b <= d * b
    BY <1>3, Monotone
  <2> QED
    BY <1>1, <2>1
<1> QED
  BY <1>1, <1>2, <1>3

\* A segment of a chunk that is not empty is not empty.
LEMMA SegmentNumber ==
  ASSUME NEW size \in Nat
  PROVE  calc_segment_size(size) \in Nat /\ (size # 0 => calc_segment_size(size) # 0)
  BY SegmentAssumption DEF calc_segment_size

\* A segment is never longer than what is left of the chunk.
LEMMA SegmentBound ==
  ASSUME NEW c, c.chsize \in Nat, c.pchsize \in Nat, NEW rest \in Nat
  PROVE  LET n == segment_size(segsize_of(c), rest)
         IN  n \in Nat /\ n <= rest
<1>1. segsize_of(c) \in Nat
  BY SegmentNumber DEF segsize_of
<1> QED
  BY <1>1 DEF segment_size

-----------------------------------------------------------------------------
(***************************************************************************)
(* The inductive invariants.                                               *)
(***************************************************************************)
Sizes == file_size \in FileSizes /\ chsize \in 1..(U16 - 1)

TypesOK ==
  /\ Sizes
  /\ seq \in 0..(U32 - 1) /\ at \in {"chunk", "segments", "done", "EMFSEEK"}
  /\ pos \in Nat /\ rsize \in Nat

\* The walk never ends: its sequence number wraps.
Endless == conf.chcount = U32 - 1 /\ file_size >= U32

\* Within a chunk the position is as far from its start as bytes are sent.
\* Unless the walk is endless the sequence number is that of a chunk, or the
\* next one behind the last.
PlaceInv ==
  /\ at = "segments" =>
       /\ seq <= conf.chcount /\ start_pos(conf, seq) < file_size
       /\ rsize <= chunk_size_of(conf, seq)
       /\ pos = start_pos(conf, seq) + (chunk_size_of(conf, seq) - rsize)
  /\ IF Endless THEN at \in {"chunk", "segments"} ELSE seq \in 1..(conf.chcount + 1)

\* The position of chunk s, without the cut to 32 bits.
Before(s) == (s - 1) * chsize

\* What is sent when chunk s begins: everything before it, if the chunk before
\* it started below 2^32, and otherwise not the last byte before it.
Reached(s) ==
  /\ sent \subseteq 0..(Before(s) - 1)
  /\ Before(s) < U32 + chsize => sent = 0..(Before(s) - 1)
  /\ Before(s) >= U32 + chsize => Before(s) - 1 \notin sent

\* What is sent at the end of the last chunk, if there is a chunk.
Ended ==
  /\ conf.chcount = 0 => sent = {}
  /\ conf.chcount # 0 =>
       /\ start_pos(conf, conf.chcount) < file_size
       /\ IF Before(conf.chcount) < U32
          THEN sent = 0..(Before(conf.chcount) + conf.pchsize - 1)
          ELSE Reached(conf.chcount)

Multiple == Chunks < U32 /\ file_size < U32 /\ file_size % chsize = 0

SentInv ==
  ~Endless =>
    /\ at = "chunk" /\ seq <= conf.chcount => Reached(seq)
    /\ at = "segments" =>
         IF Before(seq) < U32 THEN sent = 0..(pos - 1) ELSE Reached(seq)
    /\ at = "chunk" /\ seq > conf.chcount => Ended
    /\ at = "done" => Ended
    /\ at = "EMFSEEK" => Multiple /\ sent = Everything

ChunkInv == TypesOK /\ PlaceInv /\ SentInv

-----------------------------------------------------------------------------
(***************************************************************************)
(* The numbers of a SEND packet.                                           *)
(***************************************************************************)
\* The sizes and their quotient.
LEMMA Quotient ==
  ASSUME Sizes
  PROVE  LET q == file_size \div chsize
         IN  /\ file_size \in Nat \ {0} /\ chsize \in Nat \ {0}
             /\ chsize < U16 /\ 2 * file_size <= U64
             /\ q \in Nat /\ q * chsize \in Nat
             /\ q * chsize <= file_size /\ file_size < q * chsize + chsize
             /\ q % U32 \in Nat /\ q % U32 < U32 /\ q % U32 <= q
<1>1. /\ file_size \in Nat \ {0} /\ chsize \in Nat \ {0} /\ chsize < U16
      /\ file_size <= U64 \div 2
  BY DEF Sizes
<1>2. 2 * file_size <= U64
  BY <1>1
<1> DEFINE q == file_size \div chsize
<1>3. q \in Nat /\ q * chsize <= file_size /\ file_size < q * chsize + chsize
  BY <1>1, Div
<1> HIDE DEF q
<1>4. q * chsize \in Nat
  BY <1>1, <1>3
<1>5. q % U32 \in Nat /\ q % U32 < U32 /\ q % U32 <= q
  <2>1. U32 \in Nat \ {0}
    OBVIOUS
  <2> QED
    BY <1>3, <2>1
<1> QED
  BY <1>1, <1>2, <1>3, <1>4, <1>5 DEF q

\* The chunk count, and the partial chunk, where the count fits.
LEMMA Count ==
  ASSUME Sizes
  PROVE  LET q == file_size \div chsize
             Q == q % U32
         IN  /\ conf.chsize = chsize
             /\ conf.chcount = (Q + 1) % U32
             /\ conf.pchsize = (file_size - Q * chsize) % U16
             /\ conf.chcount \in Nat /\ conf.chcount < U32
             /\ conf.pchsize \in Nat /\ conf.pchsize < U16
             /\ conf.chcount = IF Q + 1 = U32 THEN 0 ELSE Q + 1
             /\ Q * chsize \in Nat /\ Q * chsize <= file_size
             /\ conf.pchsize <= file_size - Q * chsize
<1> DEFINE q == file_size \div chsize
           Q == q % U32
<1>1. /\ file_size \in Nat /\ chsize \in Nat /\ q \in Nat
      /\ q * chsize <= file_size /\ q * chsize \in Nat
      /\ Q \in Nat /\ Q < U32 /\ Q <= q
  BY Quotient
<1>2. /\ conf.chsize = chsize /\ conf.chcount = (Q + 1) % U32
      /\ conf.pchsize = (file_size - Q * chsize) % U16
  BY DEF conf, push_conf, calc_chunk_count, calc_partial_chunk_size, quotient32
<1> HIDE DEF q, Q
<1>3. Q * chsize \in Nat /\ Q * chsize <= file_size
  BY <1>1, Monotone
<1>4. file_size - Q * chsize \in Nat
  BY <1>1, <1>3
<1> DEFINE d == file_size - Q * chsize
<1> HIDE DEF d
<1>5. d % U16 \in Nat /\ d % U16 < U16 /\ d % U16 <= d
  BY <1>4 DEF d
<1>6. /\ (Q + 1) % U32 \in Nat /\ (Q + 1) % U32 < U32
      /\ (Q + 1) % U32 = IF Q + 1 = U32 THEN 0 ELSE Q + 1
  <2>1. CASE Q + 1 = U32
    BY <1>1, <2>1
  <2>2. CASE Q + 1 # U32
    <3>1. Q + 1 \in 0..(U32 - 1)
      BY <1>1, <2>2
    <3> QED
      BY <1>1, <2>2, <3>1, Mod
  <2> QED
    BY <2>1, <2>2
<1> QED
  BY <1>1, <1>2, <1>3, <1>5, <1>6 DEF q, Q, d

\* The same when the chunks can be counted.
LEMMA CountFits ==
  ASSUME Sizes, Chunks < U32
  PROVE  LET q == file_size \div chsize
         IN  /\ conf.chcount = q + 1 /\ q + 1 <= U32 - 1
             /\ conf.pchsize = file_size - q * chsize
             /\ conf.pchsize < chsize
<1> DEFINE q == file_size \div chsize
<1>1. /\ file_size \in Nat /\ chsize \in Nat /\ q \in Nat /\ chsize < U16
      /\ q * chsize <= file_size /\ q * chsize \in Nat
      /\ file_size < q * chsize + chsize
  BY Quotient
<1>2. q + 1 < U32
  BY DEF Chunks
<1>3. /\ conf.chcount = IF (q % U32) + 1 = U32 THEN 0 ELSE (q % U32) + 1
      /\ conf.pchsize = (file_size - (q % U32) * chsize) % U16
  BY Count
<1> HIDE DEF q
<1>4. q % U32 = q
  <2>1. q \in 0..(U32 - 1)
    BY <1>1, <1>2
  <2> QED
    BY <2>1, Mod
<1>5. (file_size - q * chsize) \in 0..(U16 - 1)
  BY <1>1
<1>6. (file_size - q * chsize) % U16 = file_size - q * chsize
  BY <1>5, Mod
<1> QED
  BY <1>1, <1>2, <1>3, <1>4, <1>5, <1>6 DEF q

\* Where the count was cut, at least 2^32 chunks are missing.
LEMMA Missing ==
  ASSUME Sizes, ~(Chunks < U32), ((file_size \div chsize) % U32) + 1 # U32
  PROVE  ((file_size \div chsize) % U32) * chsize + U32 <= file_size
<1>1. PICK q \in Nat : q = file_size \div chsize
  BY Quotient
<1>2. PICK Q \in Nat : Q = q % U32
  BY <1>1, Quotient
<1>3. /\ file_size \in Nat /\ chsize \in Nat \ {0} /\ Q < U32
      /\ q * chsize \in Nat /\ q * chsize <= file_size /\ Q * chsize \in Nat
  BY <1>1, <1>2, Quotient, Count
<1>4. q + 1 >= U32 /\ Q + 1 # U32
  BY <1>1, <1>2 DEF Chunks
<1>5. q >= U32
  <2>1. q # U32 - 1
    BY <1>2, <1>4, Mod
  <2> QED
    BY <1>4, <2>1
<1>6. Q + U32 <= q
  BY <1>2, <1>5
<1>7. (Q + U32) * chsize <= q * chsize
  BY <1>3, <1>6, Monotone
<1>8. (Q + U32) * chsize = Q * chsize + U32 * chsize
  BY <1>3
<1>9. 1 * U32 <= chsize * U32 /\ chsize * U32 = U32 * chsize
  BY <1>3, Monotone
<1>10. Q * chsize + U32 <= file_size
  BY <1>3, <1>7, <1>8, <1>9
<1> QED
  BY <1>1, <1>2, <1>10

\* Exactly the sizes whose chunks can be counted in 32 bits come back.
LEMMA Rebuilt == Sizes => SizeRebuilt
<1> SUFFICES ASSUME Sizes PROVE SizeRebuilt
  OBVIOUS
<1> DEFINE q == file_size \div chsize
           Q == q % U32
           p == conf.pchsize
           n == conf.chcount
           v == (n - 1) * chsize + p
<1>1. /\ file_size \in Nat \ {0} /\ chsize \in Nat \ {0} /\ chsize < U16
      /\ 2 * file_size <= U64 /\ q \in Nat /\ q * chsize \in Nat
      /\ q * chsize <= file_size
      /\ Q \in Nat /\ Q < U32 /\ Q <= q
  BY Quotient
<1>2. /\ conf.chsize = chsize /\ n \in Nat /\ p \in Nat /\ p < U16
      /\ n = IF Q + 1 = U32 THEN 0 ELSE Q + 1
      /\ Q * chsize \in Nat /\ Q * chsize <= file_size
  BY Count
<1>3. calc_file_size(conf.chcount, conf.chsize, conf.pchsize) = v % U64
  BY <1>2 DEF calc_file_size
<1>4. CASE q + 1 < U32
  <2>1. n = q + 1 /\ p = file_size - q * chsize
    BY <1>4, CountFits DEF Chunks
  <2> HIDE DEF q, p, n
  <2>2. v = file_size
    BY <1>1, <2>1
  <2>3. file_size \in 0..(U64 - 1)
    BY <1>1
  <2>4. file_size % U64 = file_size
    BY <2>3, Mod
  <2>5. Chunks < U32
    BY <1>4 DEF Chunks, q
  <2> QED
    BY <1>3, <2>2, <2>4, <2>5 DEF SizeRebuilt, p, n
<1>5. CASE ~(q + 1 < U32)
  <2>1. ~(Chunks < U32)
    BY <1>5 DEF Chunks
  <2>2. q >= U32 - 1 /\ U32 - 1 \in Nat
    BY <1>1, <1>5
  <2> HIDE DEF q, Q, p, n
  \* The count is zero: the product is the negative of one chunk.
  <2>3. CASE Q + 1 = U32
    <3>1. v = p - chsize
      BY <1>1, <1>2, <2>3
    <3>2. CASE p >= chsize
      <4>1. v \in 0..(U64 - 1) /\ v < U32 - 1
        BY <1>1, <1>2, <3>1, <3>2
      <4>2. v % U64 = v
        BY <4>1, Mod
      <4>3. (U32 - 1) * 1 <= q * chsize
        <5>1. (U32 - 1) * chsize <= q * chsize
          BY <1>1, <2>2, Monotone
        <5>2. 1 * (U32 - 1) <= chsize * (U32 - 1)
          BY <1>1, <2>2, Monotone
        <5> QED
          BY <1>1, <2>2, <5>1, <5>2
      <4>4. v # file_size
        BY <1>1, <2>2, <4>1, <4>3
      <4> QED
        BY <1>3, <2>1, <4>2, <4>4 DEF SizeRebuilt, p, n
    <3>3. CASE p < chsize
      <4>1. v + U64 \in 0..(U64 - 1) /\ v \in Int /\ v + U64 > file_size
        BY <1>1, <1>2, <3>1, <3>3
      <4>2. v % U64 = v + U64
        <5> HIDE DEF v
        <5> QED
          BY <4>1
      <4>3. v % U64 # file_size
        BY <1>1, <4>1, <4>2
      <4> QED
        BY <1>3, <2>1, <4>3 DEF SizeRebuilt, p, n
    <3> QED
      BY <1>1, <1>2, <3>2, <3>3
  \* The quotient was cut: at least 2^32 chunks are missing.
  <2>4. CASE Q + 1 # U32
    <3>1. v = Q * chsize + p
      BY <1>1, <1>2, <2>4
    <3>2. Q * chsize + U32 <= file_size
      BY <2>1, <2>4, Missing DEF q, Q
    <3>4. v < file_size /\ v \in 0..(U64 - 1)
      BY <1>1, <1>2, <3>1, <3>2
    <3>5. v % U64 = v
      BY <3>4, Mod
    <3>6. v # file_size
      BY <1>1, <3>4
    <3> QED
      BY <1>3, <2>1, <3>5, <3>6 DEF SizeRebuilt, p, n
  <2> QED
    BY <2>3, <2>4
<1> QED
  BY <1>4, <1>5

-----------------------------------------------------------------------------
(***************************************************************************)
(* The walk.                                                               *)
(***************************************************************************)
\* A chunk has a size, below 2^32.
LEMMA ChunkSizes ==
  ASSUME Sizes, NEW s \in Nat
  PROVE  /\ chunk_size_of(conf, s) \in Nat /\ chunk_size_of(conf, s) < U32
         /\ chunk_size_of(conf, s) =
              IF s = conf.chcount THEN conf.pchsize ELSE chsize
         /\ chsize \in Nat \ {0} /\ chsize < U32 /\ conf.chcount \in Nat
         /\ conf.chcount < U32 /\ conf.pchsize \in Nat
         /\ file_size \in Nat \ {0}
<1>1. /\ conf.chsize = chsize /\ conf.pchsize \in Nat /\ conf.pchsize < U16
      /\ conf.chcount \in Nat /\ conf.chcount < U32
  BY Count
<1>2. chsize \in Nat \ {0} /\ chsize < U16 /\ file_size \in Nat \ {0}
  BY DEF Sizes
<1> QED
  BY <1>1, <1>2 DEF chunk_size_of

\* A position is cut by at least 2^32 or not at all.
LEMMA Cut ==
  ASSUME NEW a \in Nat
  PROVE  /\ a % U32 \in Nat /\ a % U32 < U32 /\ a % U32 <= a
         /\ a < U32 => a % U32 = a
         /\ a >= U32 => a % U32 <= a - U32
<1>1. a % U32 \in Nat /\ a % U32 < U32 /\ a % U32 <= a
  OBVIOUS
<1>2. a < U32 => a % U32 = a
  BY Mod
<1>3. ASSUME a >= U32 PROVE a % U32 <= a - U32
  BY <1>3
<1> QED
  BY <1>1, <1>2, <1>3

\* Where the chunks start, and that they end in the file.
LEMMA Inside ==
  ASSUME Sizes, NEW s \in 1..conf.chcount
  PROVE  LET a == start_pos(conf, s)
         IN  /\ a \in Nat /\ a < U32 /\ Before(s) \in Nat
             /\ Before(s) < U32 => a = Before(s)
             /\ Before(s) >= U32 => a <= Before(s) - U32
             /\ a + chunk_size_of(conf, s) <= file_size
             /\ Before(s) + chunk_size_of(conf, s) <= file_size
<1>1. PICK Q \in Nat : Q = (file_size \div chsize) % U32
  BY Quotient
<1>2. /\ conf.chsize = chsize /\ conf.pchsize \in Nat /\ conf.chcount \in Nat
      /\ conf.chcount = IF Q + 1 = U32 THEN 0 ELSE Q + 1
      /\ Q * chsize \in Nat /\ Q * chsize <= file_size
      /\ conf.pchsize <= file_size - Q * chsize
      /\ chsize \in Nat /\ file_size \in Nat
  BY <1>1, Count, Quotient
<1>3. conf.chcount = Q + 1 /\ s \in 1..(Q + 1) /\ s \in Nat
  BY <1>2
<1>4. PICK p \in Nat : p = (s - 1) * chsize
  BY <1>2, <1>3
<1>5. start_pos(conf, s) = p % U32 /\ Before(s) = p
  BY <1>2, <1>4 DEF start_pos, Before
<1>6. p + chunk_size_of(conf, s) <= file_size
  <2>1. CASE s = Q + 1
    BY <1>2, <1>3, <1>4, <2>1 DEF chunk_size_of
  <2>2. CASE s # Q + 1
    <3>1. s * chsize <= Q * chsize
      BY <1>2, <1>3, <2>2, Monotone
    <3>2. p + chsize = s * chsize
      BY <1>2, <1>3, <1>4
    <3> QED
      BY <1>2, <1>3, <2>2, <3>1, <3>2 DEF chunk_size_of
  <2> QED
    BY <2>1, <2>2
<1> QED
  BY <1>2, <1>3, <1>5, <1>6, Cut, ChunkSizes

\* The chunk with the number zero of an endless walk lies in the file.
LEMMA InsideZero ==
  ASSUME Sizes, Endless
  PROVE  /\ start_pos(conf, 0) \in Nat /\ start_pos(conf, 0) < U32
         /\ start_pos(conf, 0) + chunk_size_of(conf, 0) <= file_size
<1>1. /\ conf.chsize = chsize /\ chsize \in Nat \ {0} /\ chsize < U32
      /\ file_size >= U32 /\ file_size \in Nat /\ conf.chcount # 0
  BY Count, ChunkSizes DEF Endless
<1>2. start_pos(conf, 0) = (0 - chsize) % U32
  BY <1>1 DEF start_pos
<1>3. (0 - chsize) % U32 = U32 - chsize
  BY <1>1
<1>4. chunk_size_of(conf, 0) = chsize
  BY <1>1 DEF chunk_size_of
<1> QED
  BY <1>1, <1>2, <1>3, <1>4

\* Every chunk the loop looks at lies in the file.
LEMMA InsideAny ==
  ASSUME TypesOK, PlaceInv, at \in {"chunk", "segments"}, seq <= conf.chcount
  PROVE  /\ start_pos(conf, seq) \in Nat /\ start_pos(conf, seq) < U32
         /\ start_pos(conf, seq) + chunk_size_of(conf, seq) <= file_size
<1>1. Sizes /\ seq \in Nat /\ conf.chcount \in Nat
  BY ChunkSizes DEF TypesOK
<1>2. CASE Endless /\ seq = 0
  BY <1>1, <1>2, InsideZero
<1>3. CASE ~(Endless /\ seq = 0)
  <2>1. seq \in 1..conf.chcount
    BY <1>1, <1>3 DEF PlaceInv
  <2> QED
    BY <1>1, <2>1, Inside
<1> QED
  BY <1>2, <1>3

\* push_transfer() begins with the first chunk.
LEMMA ChunkInit == Init => ChunkInv
<1> SUFFICES ASSUME Init PROVE ChunkInv
  OBVIOUS
<1>1. /\ Sizes /\ seq = 1 /\ at = "chunk" /\ pos = 0 /\ rsize = 0 /\ sent = {}
  BY DEF Init, Sizes
<1>2. /\ conf.chcount \in Nat /\ conf.chcount < U32 /\ chsize \in Nat \ {0}
  BY <1>1, ChunkSizes
<1>3. TypesOK
  BY <1>1 DEF TypesOK
<1>4. PlaceInv
  BY <1>1, <1>2 DEF PlaceInv
<1>5. SentInv
  <2>1. Before(1) = 0
    BY <1>2 DEF Before
  <2>2. Reached(1)
    BY <1>1, <1>2, <2>1 DEF Reached
  <2>3. 1 > conf.chcount => Ended
    BY <1>1, <1>2 DEF Ended
  <2> QED
    BY <1>1, <2>2, <2>3 DEF SentInv
<1> QED
  BY <1>3, <1>4, <1>5 DEF ChunkInv

\* What a step that changes neither of the sizes leaves alone.
LEMMA SameFile ==
  ASSUME UNCHANGED <<file_size, chsize>>
  PROVE  /\ conf' = conf /\ Chunks' = Chunks /\ Sizes' = Sizes
         /\ Endless' = Endless /\ Multiple' = Multiple /\ Everything' = Everything
         /\ \A s : Before(s)' = Before(s)
  BY DEF conf, Chunks, Sizes, Endless, Multiple, Everything, Before

\* The chunk that mfseek() refuses is the empty one at the end of a file.
LEMMA Refused ==
  ASSUME TypesOK, PlaceInv, at = "chunk", seq <= conf.chcount,
         ~(start_pos(conf, seq) < file_size)
  PROVE  Multiple /\ ~Endless /\ Before(seq) = file_size
<1>1. /\ Sizes /\ seq \in Nat /\ conf.chcount \in Nat /\ file_size \in Nat \ {0}
      /\ chsize \in Nat \ {0} /\ conf.chsize = chsize
      /\ chunk_size_of(conf, seq) \in Nat
      /\ chunk_size_of(conf, seq) = IF seq = conf.chcount THEN conf.pchsize ELSE chsize
  BY ChunkSizes, Count DEF TypesOK
<1>2. /\ start_pos(conf, seq) \in Nat /\ start_pos(conf, seq) < U32
      /\ start_pos(conf, seq) + chunk_size_of(conf, seq) <= file_size
  BY InsideAny
<1>3. /\ start_pos(conf, seq) = file_size /\ file_size < U32
      /\ seq = conf.chcount /\ ~Endless
  BY <1>1, <1>2 DEF Endless
<1>4. seq \in 1..conf.chcount
  BY <1>1, <1>3 DEF PlaceInv
<1>5. PICK q \in Nat : q = file_size \div chsize
  BY <1>1, Quotient
<1>6. q * chsize <= file_size /\ q * chsize \in Nat /\ q <= file_size
  <2>1. q * chsize <= file_size /\ q * chsize \in Nat
    BY <1>1, <1>5, Quotient
  <2>2. 1 * q <= chsize * q
    BY <1>1, Monotone
  <2> QED
    BY <1>1, <2>1, <2>2
<1>7. q % U32 = q
  <2>1. q \in 0..(U32 - 1)
    BY <1>1, <1>3, <1>6
  <2> QED
    BY <2>1, Mod
<1>8. conf.chcount = IF q + 1 = U32 THEN 0 ELSE q + 1
  BY <1>1, <1>5, <1>7, Count
<1>9. q + 1 < U32 /\ seq = q + 1
  BY <1>1, <1>3, <1>4, <1>6, <1>8
<1>10. Before(seq) = q * chsize
  BY <1>1, <1>9 DEF Before
<1>11. q * chsize = file_size
  <2>1. Before(seq) < U32 => start_pos(conf, seq) = Before(seq)
    BY <1>1, <1>4, Inside
  <2> QED
    BY <1>1, <1>3, <1>6, <1>10, <2>1
<1>12. file_size % chsize = 0
  BY <1>1, <1>5, <1>11
<1> QED
  BY <1>3, <1>5, <1>9, <1>10, <1>11, <1>12 DEF Multiple, Chunks

\* push_chunk_data() goes to the chunk, or refuses the one at the end of the
\* file.
LEMMA SeekStep == ChunkInv /\ Seek => ChunkInv'
<1> SUFFICES ASSUME ChunkInv, Seek PROVE ChunkInv'
  OBVIOUS
<1>1. /\ at = "chunk" /\ seq <= conf.chcount
      /\ UNCHANGED <<file_size, chsize, seq, sent>>
  BY DEF Seek
<1>2. /\ conf' = conf /\ Sizes' = Sizes /\ Endless' = Endless
      /\ Multiple' = Multiple /\ Everything' = Everything
      /\ Before(seq)' = Before(seq)
  BY <1>1, SameFile
<1>3. TypesOK /\ PlaceInv /\ SentInv
  BY DEF ChunkInv
<1>4. /\ Sizes /\ seq \in Nat /\ chunk_size_of(conf, seq) \in Nat
      /\ conf.chcount \in Nat /\ chsize \in Nat \ {0}
  BY <1>3, ChunkSizes DEF TypesOK
<1>5. start_pos(conf, seq) \in Nat
  BY <1>1, <1>3, InsideAny
<1>6. ~Endless => seq \in 1..conf.chcount /\ Reached(seq)
  BY <1>1, <1>3, <1>4 DEF PlaceInv, SentInv
<1>7. CASE start_pos(conf, seq) < file_size
  <2>1. /\ at' = "segments" /\ pos' = start_pos(conf, seq)
        /\ rsize' = chunk_size_of(conf, seq)
    BY <1>7 DEF Seek
  <2>2. TypesOK'
    BY <1>1, <1>2, <1>3, <1>4, <1>5, <2>1 DEF TypesOK
  <2>3. PlaceInv'
    BY <1>1, <1>2, <1>3, <1>4, <1>5, <1>7, <2>1 DEF PlaceInv
  <2>4. SentInv'
    <3> SUFFICES ASSUME ~Endless
                 PROVE  (IF Before(seq) < U32 THEN sent = 0..(pos - 1)
                         ELSE Reached(seq))'
      BY <1>2, <2>1 DEF SentInv
    <3>1. Reached(seq)' = Reached(seq)
      BY <1>1, <1>2 DEF Reached
    <3>2. Before(seq) \in Nat /\ (Before(seq) < U32 => pos' = Before(seq))
      BY <1>4, <1>6, <2>1, Inside
    <3>3. Before(seq) < U32 => sent = 0..(Before(seq) - 1)
      BY <1>4, <1>6, <3>2 DEF Reached
    <3> QED
      BY <1>1, <1>2, <1>6, <3>1, <3>2, <3>3
  <2> QED
    BY <2>2, <2>3, <2>4 DEF ChunkInv
<1>8. CASE ~(start_pos(conf, seq) < file_size)
  <2>1. at' = "EMFSEEK" /\ UNCHANGED <<pos, rsize>>
    BY <1>8 DEF Seek
  <2>2. Multiple /\ ~Endless /\ Before(seq) = file_size
    BY <1>1, <1>3, <1>8, Refused
  <2>3. TypesOK'
    BY <1>1, <1>2, <1>3, <2>1 DEF TypesOK
  <2>4. PlaceInv'
    BY <1>1, <1>2, <1>3, <2>1, <2>2 DEF PlaceInv
  <2>5. sent = Everything
    <3>1. file_size \in Nat /\ file_size < U32
      BY <1>4, <2>2, ChunkSizes DEF Multiple
    <3> QED
      BY <1>4, <1>6, <2>2, <3>1 DEF Reached, Everything
  <2>6. SentInv'
    BY <1>1, <1>2, <2>1, <2>2, <2>5 DEF SentInv
  <2> QED
    BY <2>3, <2>4, <2>6 DEF ChunkInv
<1> QED
  BY <1>7, <1>8

\* A turn of push_chunk_data() sends the bytes at the position and moves it.
LEMMA SegmentStep == ChunkInv /\ Segment => ChunkInv'
<1> SUFFICES ASSUME ChunkInv, Segment PROVE ChunkInv'
  OBVIOUS
<1>1. at = "segments" /\ UNCHANGED <<file_size, chsize, seq, at>>
  BY DEF Segment
<1>2. /\ conf' = conf /\ Sizes' = Sizes /\ Endless' = Endless
      /\ Before(seq)' = Before(seq)
  BY <1>1, SameFile
<1>3. TypesOK /\ PlaceInv /\ SentInv
  BY DEF ChunkInv
<1>4. PICK z \in Nat : z = chunk_size_of(conf, seq)
  BY <1>3, ChunkSizes DEF TypesOK
<1>5. /\ Sizes /\ seq \in Nat /\ z < U32 /\ conf.chcount \in Nat
      /\ chsize \in Nat \ {0} /\ file_size \in Nat
  BY <1>3, <1>4, ChunkSizes DEF TypesOK
<1>6. PICK a \in Nat : a = start_pos(conf, seq)
  BY <1>1, <1>3, InsideAny DEF PlaceInv
<1>7. /\ a + z <= file_size /\ seq <= conf.chcount /\ a < file_size
      /\ rsize \in Nat /\ rsize <= z /\ pos \in Nat /\ pos = a + (z - rsize)
  BY <1>1, <1>3, <1>4, <1>6, InsideAny DEF PlaceInv, TypesOK
<1>8. PICK n \in Nat : n = segment_size(segsize_of(conf), rsize) /\ n <= rsize
  <2>1. conf.chsize \in Nat /\ conf.pchsize \in Nat
    BY <1>5, Count
  <2> QED
    BY <1>7, <2>1, SegmentBound
<1>9. pos + n <= file_size
  BY <1>5, <1>7, <1>8
<1>10. /\ rsize' = rsize - n /\ pos' = pos + n
       /\ sent' = sent \union pos..(pos + n - 1)
  <2>1. PICK end : /\ end = IF pos + n <= file_size THEN pos + n ELSE file_size
                   /\ rsize' = rsize - n /\ pos' = end
                   /\ sent' = sent \union pos..(end - 1)
    BY <1>8, Zenon DEF Segment
  <2>2. end = pos + n
    BY <1>9, <2>1
  <2>3. sent' = sent \union pos..((pos + n) - 1)
    BY <2>1, <2>2, Zenon
  <2> QED
    BY <1>7, <1>8, <2>1, <2>2, <2>3
<1>11. TypesOK'
  BY <1>1, <1>2, <1>3, <1>7, <1>8, <1>10 DEF TypesOK
<1>12. PlaceInv'
  BY <1>1, <1>2, <1>3, <1>4, <1>6, <1>7, <1>8, <1>10 DEF PlaceInv
<1>13. SentInv'
  <2> SUFFICES ASSUME ~Endless
               PROVE  (IF Before(seq) < U32 THEN sent = 0..(pos - 1)
                       ELSE Reached(seq))'
    BY <1>1, <1>2 DEF SentInv
  <2>1. seq \in 1..conf.chcount
    BY <1>3, <1>5, <1>7 DEF PlaceInv
  <2>2. PICK p \in Nat : p = Before(seq) /\ (p >= U32 => a <= p - U32)
    BY <1>5, <1>6, <2>1, Inside
  <2>3. CASE p < U32
    <3>1. sent = 0..(pos - 1)
      BY <1>1, <1>3, <2>2, <2>3 DEF SentInv
    <3>2. sent' = 0..(pos + n - 1)
      BY <1>7, <1>8, <1>10, <3>1
    <3>3. (sent = 0..(pos - 1))'
      BY <1>7, <1>8, <1>10, <3>2
    <3> QED
      BY <1>2, <2>2, <2>3, <3>3
  <2>4. CASE ~(p < U32)
    <3>1. Reached(seq)
      BY <1>1, <1>3, <2>2, <2>4 DEF SentInv
    <3>2. /\ sent \subseteq 0..(p - 1) /\ (p < U32 + chsize => sent = 0..(p - 1))
          /\ (p >= U32 + chsize => p - 1 \notin sent)
      BY <2>2, <3>1 DEF Reached
    <3>3. pos + n - 1 < p - 1
      BY <1>5, <1>7, <1>8, <2>2, <2>4
    <3>4. \A x \in pos..(pos + n - 1) : x \in 0..(p - 1) /\ x # p - 1
      BY <1>7, <1>8, <3>3
    <3>5. /\ sent' \subseteq 0..(p - 1) /\ (p < U32 + chsize => sent' = 0..(p - 1))
          /\ (p >= U32 + chsize => p - 1 \notin sent')
      BY <1>10, <3>2, <3>4, Zenon
    <3>6. Reached(seq)'
      BY <1>1, <1>2, <2>2, <3>5 DEF Reached
    <3> QED
      BY <1>2, <2>2, <2>4, <3>6
  <2> QED
    BY <2>3, <2>4
<1> QED
  BY <1>11, <1>12, <1>13 DEF ChunkInv

\* Behind a chunk comes the next one or, behind the last, the end; only an
\* endless walk comes to the number zero.
LEMMA NextChunkStep == ChunkInv /\ NextChunk => ChunkInv'
<1> SUFFICES ASSUME ChunkInv, NextChunk PROVE ChunkInv'
  OBVIOUS
<1>1. /\ at = "segments" /\ rsize = 0 /\ at' = "chunk" /\ seq' = (seq + 1) % U32
      /\ UNCHANGED <<file_size, chsize, pos, rsize, sent>>
  BY DEF NextChunk
<1>2. /\ conf' = conf /\ Sizes' = Sizes /\ Endless' = Endless
      /\ \A s : Before(s)' = Before(s)
  BY <1>1, SameFile
<1>3. TypesOK /\ PlaceInv /\ SentInv
  BY DEF ChunkInv
<1>4. PICK z \in Nat : z = chunk_size_of(conf, seq)
  BY <1>3, ChunkSizes DEF TypesOK
<1>5. /\ Sizes /\ seq \in Nat /\ conf.chcount \in Nat /\ conf.chcount < U32
      /\ chsize \in Nat \ {0} /\ file_size \in Nat /\ conf.pchsize \in Nat
      /\ z = IF seq = conf.chcount THEN conf.pchsize ELSE chsize
  BY <1>3, <1>4, ChunkSizes DEF TypesOK
<1>6. seq' \in 0..(U32 - 1) /\ (seq + 1 < U32 => seq' = seq + 1)
  BY <1>1, <1>5, Mod
<1>7. TypesOK'
  BY <1>1, <1>2, <1>3, <1>6 DEF TypesOK
<1>8. CASE Endless
  <2>1. PlaceInv' /\ SentInv'
    BY <1>1, <1>2, <1>8 DEF PlaceInv, SentInv
  <2> QED
    BY <1>7, <2>1 DEF ChunkInv
<1>9. CASE ~Endless
  <2>1. /\ seq \in 1..conf.chcount /\ start_pos(conf, seq) < file_size
        /\ pos = start_pos(conf, seq) + z
    BY <1>1, <1>3, <1>4, <1>5, <1>9, Inside DEF PlaceInv
  <2>2. PICK p \in Nat : /\ p = Before(seq) /\ p + z <= file_size
                         /\ p < U32 => start_pos(conf, seq) = p
    BY <1>4, <1>5, <2>1, Inside
  \* With 2^32 - 1 chunks below 2^32 bytes the last one has been refused.
  <2>3. seq + 1 < U32
    <3> SUFFICES ASSUME ~(seq + 1 < U32) PROVE FALSE
      OBVIOUS
    <3>1. seq = U32 - 1 /\ conf.chcount = U32 - 1 /\ file_size < U32
      BY <1>5, <1>9, <2>1 DEF Endless
    <3>2. p = (U32 - 2) * chsize
      BY <1>5, <2>2, <3>1 DEF Before
    <3>3. U32 - 2 \in Nat /\ p < U32
      BY <1>5, <2>2, <3>1
    <3>4. chsize = 1
      <4>1. CASE chsize >= 2
        <5>1. 2 * (U32 - 2) <= chsize * (U32 - 2)
          BY <1>5, <3>3, <4>1, Monotone
        <5>2. chsize * (U32 - 2) = (U32 - 2) * chsize
          BY <1>5
        <5> QED
          BY <3>2, <3>3, <5>1, <5>2
      <4> QED
        BY <1>5, <4>1
    <3>5. p = U32 - 2
      BY <3>2, <3>4
    <3>6. p < file_size
      BY <2>1, <2>2, <3>3
    <3>7. file_size = U32 - 1
      BY <1>5, <3>1, <3>5, <3>6
    <3>8. file_size \div chsize = U32 - 1
      BY <3>4, <3>7
    <3>9. (U32 - 1) % U32 = U32 - 1
      BY Mod
    <3>10. conf.chcount = 0
      BY <1>5, <3>8, <3>9, Count
    <3> QED
      BY <3>1, <3>10
  <2>4. seq' = seq + 1 /\ seq' \in 1..(conf.chcount + 1)
    BY <1>5, <1>6, <2>1, <2>3
  <2>5. PlaceInv'
    BY <1>1, <1>2, <1>9, <2>4 DEF PlaceInv
  <2>6. IF p < U32 THEN sent = 0..(pos - 1) ELSE Reached(seq)
    BY <1>1, <1>3, <1>9, <2>2 DEF SentInv
  <2>7. ASSUME seq < conf.chcount PROVE Reached(seq)'
    <3>1. z = chsize
      BY <1>5, <2>7
    <3>2. Before(seq)' = p + chsize
      <4>1. Before(seq + 1) = seq * chsize
        BY <1>5 DEF Before
      <4>2. seq * chsize = (seq - 1) * chsize + chsize
        BY <1>5
      <4>3. Before(seq)' = Before(seq + 1)
        BY <1>1, <2>4 DEF Before
      <4> QED
        BY <2>2, <4>1, <4>2, <4>3 DEF Before
    <3>3. CASE p < U32
      <4>1. sent = 0..(p + chsize - 1)
        BY <2>1, <2>2, <2>6, <3>1, <3>3
      <4> QED
        BY <1>1, <1>5, <2>2, <3>2, <3>3, <4>1 DEF Reached
    <3>4. CASE ~(p < U32)
      <4>1. sent \subseteq 0..(p - 1)
        BY <2>2, <2>6, <3>4 DEF Reached
      <4>2. /\ 0..(p - 1) \subseteq 0..((p + chsize) - 1)
            /\ (p + chsize) - 1 \notin 0..(p - 1)
        BY <1>5, <2>2
      <4>3. p + chsize >= U32 + chsize /\ ~(p + chsize < U32 + chsize)
        BY <1>5, <2>2, <3>4
      <4>4. sent \subseteq 0..((p + chsize) - 1) /\ (p + chsize) - 1 \notin sent
        BY <4>1, <4>2, Zenon
      <4>5. (sent \subseteq 0..(Before(seq) - 1) /\ Before(seq) - 1 \notin sent)'
        BY <1>1, <3>2, <4>4
      <4>6. (~(Before(seq) < U32 + chsize))'
        BY <1>1, <3>2, <4>3
      <4> QED
        BY <4>5, <4>6, Zenon DEF Reached
    <3> QED
      BY <3>3, <3>4
  <2>8. ASSUME seq = conf.chcount PROVE Ended'
    <3>1. z = conf.pchsize /\ conf.chcount # 0
      BY <1>5, <2>1, <2>8
    <3>2. p < U32 => sent = 0..(p + conf.pchsize - 1)
      BY <2>1, <2>2, <2>6, <3>1
    <3>3. Ended
      BY <2>1, <2>2, <2>6, <2>8, <3>1, <3>2 DEF Ended
    <3>4. Ended' = Ended
      BY <1>1, <1>2 DEF Ended, Reached
    <3> QED
      BY <3>3, <3>4
  <2>9. SentInv'
    <3>1. seq' <= conf.chcount => seq < conf.chcount
      BY <1>5, <2>4
    <3>2. seq' > conf.chcount => seq = conf.chcount
      BY <1>5, <2>1, <2>4
    <3> QED
      BY <1>1, <1>2, <2>7, <2>8, <3>1, <3>2 DEF SentInv
  <2> QED
    BY <1>7, <2>5, <2>9 DEF ChunkInv
<1> QED
  BY <1>8, <1>9

\* The loop ends, unless its test cannot fail.
LEMMA FinishStep == ChunkInv /\ Finish => ChunkInv'
<1> SUFFICES ASSUME ChunkInv, Finish PROVE ChunkInv'
  OBVIOUS
<1>1. /\ at = "chunk" /\ seq > conf.chcount /\ at' = "done"
      /\ UNCHANGED <<file_size, chsize, seq, pos, rsize, sent>>
  BY DEF Finish
<1>2. /\ conf' = conf /\ Sizes' = Sizes /\ Endless' = Endless
  BY <1>1, SameFile
<1>3. TypesOK /\ PlaceInv /\ SentInv
  BY DEF ChunkInv
<1>4. ~Endless
  BY <1>1, <1>3 DEF TypesOK, Endless
<1>5. Ended' = Ended
  BY <1>1, <1>2, SameFile DEF Ended, Reached
<1>6. TypesOK' /\ PlaceInv'
  BY <1>1, <1>2, <1>3, <1>4 DEF TypesOK, PlaceInv
<1>7. SentInv'
  BY <1>1, <1>2, <1>3, <1>4, <1>5 DEF SentInv
<1> QED
  BY <1>6, <1>7 DEF ChunkInv

\* Every turn of the loop keeps the invariant.
LEMMA ChunkStep == ChunkInv /\ [Next]_vars => ChunkInv'
<1> SUFFICES ASSUME ChunkInv, [Next]_vars PROVE ChunkInv'
  OBVIOUS
<1>1. CASE UNCHANGED vars
  BY <1>1 DEF vars, ChunkInv, TypesOK, Sizes, PlaceInv, SentInv, Reached, Ended,
     Endless, Multiple, Everything, Before, Chunks, conf
<1> QED
  BY <1>1, SeekStep, SegmentStep, NextChunkStep, FinishStep DEF Next

-----------------------------------------------------------------------------
(***************************************************************************)
(* The theorems.                                                           *)
(***************************************************************************)
\* push_transfer() and push_chunk_data() keep the invariant of the walk: the
\* place of the loops says which bytes have been sent.
THEOREM WalkSafe == Spec => []ChunkInv
  BY ChunkInit, ChunkStep, PTL DEF Spec

\* The puller's calc_file_size() gives the size of the file exactly if
\* calc_chunk_count() did not cut the number of chunks.
THEOREM SizeSurvives == Spec => []SizeRebuilt
<1>1. ChunkInv => SizeRebuilt
  BY Rebuilt DEF ChunkInv, TypesOK
<1> QED
  BY <1>1, WalkSafe, PTL

\* calc_chunk_crc32() reads within the mapping, although start_pos and the
\* sequence number may wrap.
THEOREM InsideFile == Spec => []ChunkInsideFile
<1>1. ChunkInv => ChunkInsideFile
  BY InsideAny DEF ChunkInv, ChunkInsideFile
<1> QED
  BY <1>1, WalkSafe, PTL

\* The chunk of the last byte is the last chunk, or the one before an empty
\* last chunk.
LEMMA LastByte ==
  ASSUME Sizes
  PROVE  LET b == (file_size \div chsize) * chsize
         IN  LastStart = IF b < file_size THEN b ELSE b - chsize
<1>1. PICK q \in Nat : q = file_size \div chsize
  BY Quotient
<1>2. /\ file_size \in Nat \ {0} /\ chsize \in Nat \ {0} /\ q * chsize \in Nat
      /\ q * chsize <= file_size /\ file_size < q * chsize + chsize
  BY <1>1, Quotient
<1>3. CASE q * chsize < file_size
  <2>1. (file_size - 1) \div chsize = q
    BY <1>2, <1>3, DivIs
  <2> QED
    BY <1>1, <1>3, <2>1 DEF LastStart
<1>4. CASE ~(q * chsize < file_size)
  <2>1. q # 0 /\ q - 1 \in Nat
    BY <1>2, <1>4
  <2>2. (q - 1) * chsize = q * chsize - chsize
    BY <1>2
  <2>3. (file_size - 1) \div chsize = q - 1
    BY <1>2, <1>4, <2>1, <2>2, DivIs
  <2> QED
    BY <1>1, <1>4, <2>2, <2>3 DEF LastStart
<1> QED
  BY <1>3, <1>4

\* What a walk that ended has sent, when the chunks could be counted.
LEMMA EndCounted ==
  ASSUME Sizes, Ended, Chunks < U32
  PROVE  sent = Everything <=> LastStart < U32
<1>1. PICK q \in Nat : q = file_size \div chsize
  BY Quotient
<1>2. /\ file_size \in Nat \ {0} /\ chsize \in Nat \ {0}
      /\ q * chsize <= file_size /\ file_size < q * chsize + chsize
      /\ conf.chcount = q + 1 /\ conf.pchsize = file_size - q * chsize
  BY <1>1, Quotient, CountFits
<1>3. PICK b \in Nat : b = q * chsize
  BY <1>1, Quotient
<1>4. Before(conf.chcount) = b /\ b + conf.pchsize = file_size
  BY <1>2, <1>3 DEF Before
<1>5. LastStart = IF b < file_size THEN b ELSE b - chsize
  BY <1>1, <1>3, LastByte
<1>6. IF b < U32 THEN sent = 0..(file_size - 1) ELSE Reached(conf.chcount)
  <2>1. b + (conf.pchsize - 1) = file_size - 1
    BY <1>2, <1>3, <1>4
  <2> QED
    BY <1>2, <1>4, <2>1 DEF Ended
<1>7. CASE b < U32
  BY <1>2, <1>5, <1>6, <1>7 DEF Everything
<1>8. CASE ~(b < U32)
  <2>1. /\ sent \subseteq 0..(b - 1)
        /\ b < U32 + chsize => sent = 0..(b - 1)
        /\ b >= U32 + chsize => b - 1 \notin sent
    BY <1>4, <1>6, <1>8 DEF Reached
  <2>2. CASE b < file_size
    <3>1. file_size - 1 \notin 0..(b - 1) /\ file_size - 1 \in Everything
      BY <1>2, <2>2 DEF Everything
    <3> QED
      BY <1>5, <1>8, <2>1, <2>2, <3>1
  <2>3. CASE ~(b < file_size)
    <3>1. b = file_size /\ b - 1 \in Everything
      BY <1>2, <1>3, <2>3 DEF Everything
    <3>2. CASE b < U32 + chsize
      BY <1>2, <1>5, <2>1, <2>3, <3>1, <3>2 DEF Everything
    <3>3. CASE ~(b < U32 + chsize)
      <4>1. sent # Everything
        BY <1>2, <2>1, <3>1, <3>3
      <4>2. ~(LastStart < U32)
        BY <1>2, <1>5, <2>3, <3>3
      <4> QED
        BY <4>1, <4>2
    <3> QED
      BY <3>2, <3>3
  <2> QED
    BY <2>2, <2>3
<1> QED
  BY <1>7, <1>8

\* And when the count was cut: the last byte is missing.
LEMMA EndCut ==
  ASSUME Sizes, Ended, ~(Chunks < U32)
  PROVE  sent # Everything
<1>1. PICK Q \in Nat : Q = (file_size \div chsize) % U32
  BY Quotient
<1>2. /\ file_size \in Nat \ {0} /\ chsize \in Nat \ {0} /\ Q * chsize \in Nat
      /\ conf.chcount = IF Q + 1 = U32 THEN 0 ELSE Q + 1
      /\ conf.pchsize \in Nat /\ conf.pchsize < U16
  BY <1>1, Quotient, Count
<1>3. file_size - 1 \in Everything
  BY <1>2 DEF Everything
<1>4. CASE Q + 1 = U32
  BY <1>2, <1>3, <1>4 DEF Ended
<1>5. CASE Q + 1 # U32
  <2>1. PICK b \in Nat : b = Q * chsize
    BY <1>2
  <2>2. b + U32 <= file_size
    BY <1>1, <1>5, <2>1, Missing
  <2>3. Before(conf.chcount) = b
    BY <1>2, <1>5, <2>1 DEF Before
  <2>4. IF b < U32 THEN sent = 0..(b + conf.pchsize - 1) ELSE sent \subseteq 0..(b - 1)
    BY <1>2, <1>5, <2>3 DEF Ended, Reached
  <2>5. file_size - 1 \notin sent
    BY <1>2, <2>2, <2>4
  <2> QED
    BY <1>3, <2>5
<1> QED
  BY <1>4, <1>5

\* push_transfer() has sent every byte of the file when its loop ends exactly if
\* the chunks can be counted in 32 bits and none that holds bytes starts at
\* 2^32 or beyond; below 2^32 bytes the segments follow each other without gap
\* or overlap.
THEOREM WholeFile == Spec => []CoversFile
<1>1. ChunkInv => CoversFile
  <2> SUFFICES ASSUME ChunkInv PROVE CoversFile
    OBVIOUS
  <2>1. TypesOK /\ PlaceInv /\ SentInv /\ Sizes
    BY DEF ChunkInv, TypesOK
  <2>2. ASSUME at = "done"
        PROVE  sent = Everything <=> Chunks < U32 /\ LastStart < U32
    <3>1. Ended
      BY <2>1, <2>2 DEF PlaceInv, SentInv
    <3> QED
      BY <2>1, <3>1, EndCounted, EndCut
  <2>3. ASSUME at = "segments", file_size < U32 PROVE sent = 0..(pos - 1)
    <3>1. /\ seq \in Nat /\ file_size \in Nat /\ conf.chcount \in Nat
          /\ chunk_size_of(conf, seq) \in Nat
      BY <2>1, ChunkSizes DEF TypesOK
    <3>2. ~Endless
      BY <2>3, <3>1 DEF Endless
    <3>3. seq \in 1..conf.chcount
      BY <2>1, <2>3, <3>1, <3>2 DEF PlaceInv
    <3>4. Before(seq) < U32
      BY <2>1, <2>3, <3>1, <3>3, Inside
    <3> QED
      BY <2>1, <2>3, <3>2, <3>4 DEF SentInv
  <2> QED
    BY <2>2, <2>3 DEF CoversFile
<1> QED
  BY <1>1, WalkSafe, PTL

\* mfseek() refuses the last chunk of push_transfer() exactly for the multiples
\* of the chunk size below 2^32 bytes, when everything has been sent.
THEOREM MultiplesRefused == Spec => []RefusesMultiples
<1>1. ChunkInv => RefusesMultiples
  <2> SUFFICES ASSUME ChunkInv PROVE RefusesMultiples
    OBVIOUS
  <2>1. TypesOK /\ PlaceInv /\ SentInv /\ Sizes
    BY DEF ChunkInv, TypesOK
  <2>2. at = "EMFSEEK" => Multiple /\ sent = Everything
    BY <2>1 DEF PlaceInv, SentInv
  <2>3. ASSUME at = "done", Multiple PROVE FALSE
    <3>1. Ended
      BY <2>1, <2>3 DEF PlaceInv, SentInv
    <3>2. PICK q \in Nat : q = file_size \div chsize
      BY <2>1, Quotient
    <3>3. /\ file_size \in Nat \ {0} /\ chsize \in Nat \ {0}
          /\ conf.chcount = q + 1
      BY <2>1, <2>3, <3>2, Quotient, CountFits DEF Multiple
    <3>4. q * chsize = file_size
      BY <2>3, <3>2, <3>3 DEF Multiple
    <3>5. Before(conf.chcount) = file_size
      BY <3>3, <3>4 DEF Before
    <3>6. conf.chcount \in 1..conf.chcount /\ file_size < U32
      BY <2>3, <3>3 DEF Multiple
    <3>7. start_pos(conf, conf.chcount) = file_size
      BY <2>1, <3>5, <3>6, Inside
    <3> QED
      BY <3>1, <3>3, <3>7 DEF Ended
  <2> QED
    BY <2>2, <2>3 DEF RefusesMultiples, Multiple
<1> QED
  BY <1>1, WalkSafe, PTL
=============================================================================
