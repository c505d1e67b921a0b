--------------------------- MODULE TransferCourse ---------------------------
(***************************************************************************)
(* What becomes of a transfer that nothing or little disturbs.             *)
(***************************************************************************)
EXTENDS TransferProofs

USE CalcAssumption, TransferAssumption

-----------------------------------------------------------------------------
(***************************************************************************)
(* Positions.                                                              *)
(***************************************************************************)
\* A remainder is not above the number.
LEMMA ModBelow ==
  ASSUME NEW a \in Nat, NEW b \in Nat \ {0}
  PROVE  a % b <= a /\ a % b \in Nat /\ a % b < b
BY SMT

\* The remainder is what the quotient leaves.
LEMMA ModDiv ==
  ASSUME NEW a \in Nat, NEW b \in Nat \ {0}
  PROVE  a % b = a - (a \div b) * b
BY SMT

\* A multiple of b that is above c times b is above it by b or more.
LEMMA MultipleAbove ==
  ASSUME NEW b \in Nat \ {0}, NEW k \in Nat, NEW c \in Nat, c * b < k * b
  PROVE  c * b + b <= k * b
<1>1. c < k
  <2> SUFFICES ASSUME k <= c PROVE FALSE
    OBVIOUS
  <2>1. k * b <= c * b /\ k * b \in Nat /\ c * b \in Nat
    BY Monotone
  <2> QED
    BY <2>1
<1>2. (c + 1) * b <= k * b
  BY <1>1, Monotone
<1>3. (c + 1) * b = c * b + b
  OBVIOUS
<1> QED
  BY <1>2, <1>3

\* One more segment is one segment size more.
LEMMA OneMore ==
  ASSUME NEW d \in Nat, NEW b \in Nat
  PROVE  (d + 1) * b = d * b + b /\ d * b \in Nat /\ (d + 1) * b \in Nat
BY SMT

\* The size of the segments of this transfer.
LEMMA SegSize ==
  ASSUME src \in Files
  PROVE  segsize_of(conf) \in Nat \ {0}
<1>1. conf.chsize = ChSize /\ ChSize \in Nat \ {0}
  BY ConfFacts DEF conf
<1> QED
  BY <1>1, SegmentNumber DEF segsize_of

\* A chunk lies in the file, where its position wraps as well.
LEMMA ChunkInFile ==
  ASSUME src \in Files, NEW q \in 1..conf.chcount
  PROVE  /\ start_pos(conf, q) \in Nat /\ chunk_size_of(conf, q) \in Nat
         /\ start_pos(conf, q) < U32
         /\ start_pos(conf, q) + chunk_size_of(conf, q) <= Len(src)
         /\ start_pos(conf, q) = ((q - 1) * ChSize) % U32
<1> DEFINE n == Len(src) \div ChSize
<1>1. Len(src) \in Nat /\ ChSize \in Nat \ {0}
  BY LenProperties
<1>2. n \in Nat /\ n * ChSize <= Len(src)
  BY <1>1, Div
<1>3. /\ conf.chsize = ChSize /\ conf.chcount = n + 1
      /\ conf.pchsize = Len(src) - n * ChSize
  BY ConfFacts DEF conf
<1> HIDE DEF n
<1>4. q - 1 \in Nat /\ q \in Nat /\ q - 1 <= n
  BY <1>2, <1>3
<1>5. (q - 1) * ChSize \in Nat /\ n * ChSize \in Nat
  BY <1>1, <1>2, <1>4, Monotone
<1>6. /\ start_pos(conf, q) = ((q - 1) * ChSize) % U32
      /\ start_pos(conf, q) <= (q - 1) * ChSize
      /\ start_pos(conf, q) \in Nat /\ start_pos(conf, q) < U32
  BY <1>3, <1>5, ModBelow DEF start_pos
<1>7. CASE q = conf.chcount
  <2>1. q - 1 = n /\ chunk_size_of(conf, q) = Len(src) - n * ChSize
    BY <1>2, <1>3, <1>7 DEF chunk_size_of
  <2> QED
    BY <1>1, <1>2, <1>5, <1>6, <2>1
<1>8. CASE q # conf.chcount
  <2>1. q \in Nat /\ q <= n /\ chunk_size_of(conf, q) = ChSize
    BY <1>2, <1>3, <1>4, <1>8 DEF chunk_size_of
  <2>2. q * ChSize <= n * ChSize
    BY <1>1, <1>2, <1>4, <2>1, Monotone
  <2>3. q * ChSize = (q - 1) * ChSize + ChSize
    BY <1>1, <1>4
  <2>4. start_pos(conf, q) + ChSize <= q * ChSize
    <3> HIDE TransferAssumption, CalcAssumption
    <3> QED
      BY <1>1, <1>5, <1>6, <2>3
  <2>5. start_pos(conf, q) + ChSize <= Len(src)
    <3>1. q * ChSize \in Nat /\ start_pos(conf, q) + ChSize \in Nat
      BY <1>1, <1>6, <2>1, Monotone
    <3> HIDE TransferAssumption, CalcAssumption
    <3> QED
      BY <1>1, <1>2, <1>5, <2>2, <2>4, <3>1
  <2> QED
    BY <1>1, <1>6, <2>1, <2>5
<1> QED
  BY <1>6, <1>7, <1>8

\* The bytes Carried speaks of are those of the chunks.
LEMMA CarriedByChunks ==
  ASSUME src \in Files, NEW i
  PROVE  Carried(i) <=> \E q \in 1..conf.chcount : Covers(q, i)
<1> DEFINE n == Len(src) \div ChSize
           pos(q) == (q * ChSize) % U32
           size(q) == IF q = n THEN Len(src) % ChSize ELSE ChSize
<1>1. Len(src) \in Nat /\ ChSize \in Nat \ {0}
  BY LenProperties
<1>n. n \in Nat
  BY <1>1, Div
<1>2. /\ conf.chsize = ChSize /\ conf.chcount = n + 1
      /\ conf.pchsize = Len(src) - n * ChSize
  BY ConfFacts DEF conf
<1>3. Len(src) % ChSize = Len(src) - n * ChSize /\ Len(src) % ChSize \in Nat
  BY <1>1, ModDiv, ModBelow
<1>4. n * ChSize \in Nat
  BY <1>1, Monotone
<1>5. conf.pchsize = Len(src) % ChSize
  BY <1>2, <1>3
<1>6. Carried(i) <=> \E q \in 0..n : pos(q) < i /\ i <= pos(q) + size(q)
  BY DEF Carried
<1> HIDE DEF n
<1>7. \A q \in 0..n : /\ q + 1 \in 1..conf.chcount
                      /\ start_pos(conf, q + 1) = pos(q)
                      /\ chunk_size_of(conf, q + 1) = size(q)
  <2> TAKE q \in 0..n
  <2>1. q + 1 \in 1..conf.chcount /\ (q + 1) - 1 = q /\ (q + 1 = conf.chcount <=> q = n)
    BY <1>n, <1>2
  <2> QED
    BY <1>2, <1>5, <2>1 DEF start_pos, chunk_size_of
<1>8. \A p \in 1..conf.chcount : p - 1 \in 0..n /\ (p - 1) + 1 = p
  BY <1>n, <1>2
<1> HIDE DEF pos, size
<1>9. ASSUME Carried(i) PROVE \E q \in 1..conf.chcount : Covers(q, i)
  <2>1. PICK q \in 0..n : pos(q) < i /\ i <= pos(q) + size(q)
    BY <1>6, <1>9
  <2> QED
    BY <1>7, <2>1 DEF Covers
<1>10. ASSUME NEW p \in 1..conf.chcount, Covers(p, i) PROVE Carried(i)
  <2>1. /\ p - 1 \in 0..n /\ start_pos(conf, p) = pos(p - 1)
        /\ chunk_size_of(conf, p) = size(p - 1)
    BY <1>7, <1>8
  <2>2. pos(p - 1) < i /\ i <= pos(p - 1) + size(p - 1)
    BY <1>10, <2>1 DEF Covers
  <2> QED
    BY <1>6, <2>1, <2>2
<1> QED
  BY <1>9, <1>10

\* In a file that can be delivered mfseek() finds the start of every chunk; only
\* the last can start at the end of the file.
LEMMA SeekFinds ==
  ASSUME src \in Files, NEW q \in 1..conf.chcount,
         Len(src) < U32 => Len(src) % ChSize # 0
  PROVE  start_pos(conf, q) < Len(src)
<1> DEFINE n == Len(src) \div ChSize
<1>1. Len(src) \in Nat /\ ChSize \in Nat \ {0}
  BY LenProperties
<1>n. n \in Nat
  BY <1>1, Div
<1>2. start_pos(conf, q) \in Nat /\ start_pos(conf, q) < U32
      /\ start_pos(conf, q) = ((q - 1) * ChSize) % U32
  BY ChunkInFile
<1>3. Len(src) % ChSize = Len(src) - n * ChSize /\ Len(src) % ChSize \in Nat
  BY <1>1, ModDiv, ModBelow
<1>4. conf.chcount = n + 1
  BY ConfFacts DEF conf
<1>5. CASE Len(src) >= U32
  BY <1>1, <1>2, <1>5
<1>6. CASE Len(src) < U32
  <2> HIDE DEF n
  <2>1. (q - 1) * ChSize <= n * ChSize /\ (q - 1) * ChSize \in Nat
        /\ n * ChSize \in Nat
    BY <1>1, <1>n, <1>4, Monotone
  <2>2. n * ChSize < Len(src)
    BY <1>1, <1>3, <1>6, <2>1
  <2>3. start_pos(conf, q) <= (q - 1) * ChSize
    BY <1>2, <2>1, ModBelow
  <2> QED
    BY <1>1, <1>2, <2>1, <2>2, <2>3
<1> QED
  BY <1>1, <1>5, <1>6

\* The last chunk of a file whose last chunk is empty starts at its end, unless
\* its position wraps.
LEMMA SeekFails ==
  ASSUME src \in Files, Len(src) < U32, Len(src) % ChSize = 0
  PROVE  start_pos(conf, conf.chcount) = Len(src)
<1> DEFINE n == Len(src) \div ChSize
<1>1. Len(src) \in Nat /\ ChSize \in Nat \ {0}
  BY LenProperties
<1>n. n \in Nat
  BY <1>1, Div
<1>2. Len(src) % ChSize = Len(src) - n * ChSize
  BY <1>1, ModDiv
<1>3. conf.chcount = n + 1 /\ conf.chsize = ChSize
  BY ConfFacts DEF conf
<1>4. Len(src) % U32 = Len(src)
  BY <1>1, Mod
<1> HIDE DEF n
<1>5. n * ChSize \in Nat /\ (conf.chcount - 1) = n
  BY <1>n, <1>3, Monotone
<1>6. n * ChSize = Len(src)
  BY <1>1, <1>2, <1>5
<1> QED
  BY <1>3, <1>4, <1>5, <1>6 DEF start_pos

-----------------------------------------------------------------------------
(***************************************************************************)
(* Both sides walk through a chunk from its start to its end.              *)
(***************************************************************************)
\* A segment is not empty, and not longer than what remains.
LEMMA SegmentStep ==
  ASSUME src \in Files, NEW rsize \in Nat, rsize > 0
  PROVE  LET n == segment_size(segsize_of(conf), rsize)
         IN  n \in Nat /\ n > 0 /\ n <= rsize
<1>1. segsize_of(conf) \in Nat \ {0}
  BY SegSize
<1> QED
  BY <1>1 DEF segment_size

\* Moving on by a part of what remains.
LEMMA MoveOn ==
  ASSUME src \in Files, NEW q \in 1..conf.chcount, NEW pos \in Nat,
         NEW rsize \in Nat, Within(q, pos, rsize), NEW n \in Nat, n <= rsize,
         NEW buf, Len(buf) = Len(src)
  PROVE  /\ mfadvance(buf, pos, n) = pos + n
         /\ Within(q, pos + n, rsize - n)
         /\ rsize - n \in Nat
<1> DEFINE start == start_pos(conf, q)
           size == chunk_size_of(conf, q)
<1>1. /\ start \in Nat /\ size \in Nat /\ start + size <= Len(src)
      /\ Len(src) \in Nat
  BY ChunkInFile, LenProperties
<1>2. pos + rsize = start + size /\ rsize <= size
  BY DEF Within
<1> HIDE DEF start, size
<1>3. pos + n <= Len(src)
  BY <1>1, <1>2
<1>4. (pos + n) + (rsize - n) = start + size /\ rsize - n <= size
      /\ rsize - n \in Nat
  BY <1>1, <1>2
<1> QED
  BY <1>3, <1>4 DEF mfadvance, Within, start, size

\* A chunk begins with all of it.
LEMMA BeginWithin ==
  ASSUME src \in Files, NEW q \in 1..conf.chcount
  PROVE  Within(q, start_pos(conf, q), chunk_size_of(conf, q))
<1>1. chunk_size_of(conf, q) \in Nat
  BY ChunkInFile
<1> QED
  BY <1>1 DEF Within

\* A step that leaves the pusher's place in the chunk alone.
SendKept ==
  \/ push_pc' \notin {"data", "data_ack"}
  \/ UNCHANGED <<push_pc, push_seq, push_pos, push_rsize>>

\* Every step but three of the pusher is of that kind.
LEMMA SendSteps ==
  ASSUME [Next]_vars
  PROVE  SendKept \/ PushFlowAck \/ PushSegment \/ PushChunkAck
<1> USE DEF SendKept, push_vars
<1>1. CASE Pusher
  BY <1>1 DEF Pusher, PushOpen, PushConnect, PushHandshake, PushHandshakeAck,
     PushStartData, PushFlow, PushVerify, PushVerifyAck, PushEnd,
     PushHeaderError, PushTimeout, PushReset, PushGoto, PushReturn
<1>2. CASE Puller
  BY <1>2 DEF Puller, PullStart, PullAccept, PullHandshake, PullStartData,
     PullFlow, PullSegment, PullChunkEnd, PullVerify, PullEnd,
     PullHeaderError, PullTimeout, PullReset
<1>3. CASE Network
  BY <1>3 DEF Network, Lose, Duplicate, Reorder, Corrupt
<1>4. CASE Fault
  BY <1>4 DEF Fault, PushFault, PullFault, PushReturn
<1>5. CASE UNCHANGED vars
  BY <1>5 DEF vars
<1> QED
  BY <1>1, <1>2, <1>3, <1>4, <1>5 DEF Next, Terminated

\* push_chunk_data() begins at the start of the chunk.
LEMMA PushBegins ==
  ASSUME src \in Files, src' = src, push_seq \in 1..conf.chcount, NEW try,
         PushChunk(try)
  PROVE  SendLayout'
<1>1. conf' = conf
  BY DEF conf
<1>2. CASE PushReturn("EMFSEEK")
  BY <1>2 DEF PushReturn, SendLayout
<1>3. CASE ~PushReturn("EMFSEEK")
  <2>1. /\ push_pc' = IF chunk_size_of(conf, push_seq) = 0
                      THEN "data_ack" ELSE "data"
        /\ push_pos' = start_pos(conf, push_seq)
        /\ push_rsize' = chunk_size_of(conf, push_seq)
        /\ push_seq' = push_seq
    BY <1>3 DEF PushChunk
  <2>2. Within(push_seq, push_pos', push_rsize')
    BY <2>1, BeginWithin
  <2>3. Within(push_seq, push_pos, push_rsize)'
    BY <1>1, <2>1, <2>2 DEF Within
  <2>4. chunk_size_of(conf, push_seq) \in Nat
    BY ChunkInFile
  <2> QED
    BY <2>1, <2>3, <2>4 DEF SendLayout
<1> QED
  BY <1>2, <1>3

\* SendLayout is inductive relative to IInv.
LEMMA SendLayoutStep ==
  ASSUME IInv, SendLayout, [Next]_vars
  PROVE  SendLayout'
<1>1. src \in Files /\ src' = src /\ conf' = conf /\ push_pos \in Nat
      /\ push_rsize \in Nat
  BY SrcFixed DEF IInv, TypeInv, TypeOK, PushTypeOK
<1>2. CASE SendKept
  BY <1>1, <1>2 DEF SendKept, SendLayout, Within
<1>3. CASE PushFlowAck
  <2>1. push_seq \in 1..conf.chcount
    BY <1>3 DEF IInv, TypeInv, PushRange, PushFlowAck
  <2>2. CASE Head(toPusher).ack = 1
    BY <1>1, <1>3, <2>1, <2>2, PushBegins DEF PushFlowAck
  <2>3. CASE Head(toPusher).ack # 1
    BY <1>3, <2>3 DEF PushFlowAck, PushReturn, SendLayout
  <2> QED
    BY <2>2, <2>3
<1>4. CASE PushChunkAck
  <2>1. push_seq \in 1..conf.chcount
    BY <1>4 DEF IInv, TypeInv, PushRange, PushChunkAck
  <2>2. CASE PushAccepted
    BY <2>2 DEF PushAccepted, SendLayout
  <2>3. CASE PushRetry
    <3>1. CASE push_try = 1
      BY <2>3, <3>1 DEF PushRetry, PushReturn, SendLayout
    <3>2. CASE push_try # 1
      BY <1>1, <2>1, <2>3, <3>2, PushBegins DEF PushRetry
    <3> QED
      BY <3>1, <3>2
  <2> QED
    BY <1>4, <2>2, <2>3 DEF PushChunkAck
<1>5. CASE PushSegment
  <2> DEFINE n == segment_size(segsize_of(conf), push_rsize)
  <2>1. /\ push_seq \in 1..conf.chcount /\ Within(push_seq, push_pos, push_rsize)
        /\ push_rsize > 0
    BY <1>5 DEF IInv, TypeInv, PushRange, PushSegment, SendLayout
  <2>2. n \in Nat /\ n > 0 /\ n <= push_rsize
    BY <1>1, <2>1, SegmentStep
  <2>3. /\ push_pos' = mfadvance(src, push_pos, n) /\ push_rsize' = push_rsize - n
        /\ push_pc' = (IF push_rsize = n THEN "data_ack" ELSE "data")
        /\ push_seq' = push_seq
    BY <1>5 DEF PushSegment
  <2> HIDE DEF n
  <2>4. /\ mfadvance(src, push_pos, n) = push_pos + n
        /\ Within(push_seq, push_pos + n, push_rsize - n)
    BY <1>1, <2>1, <2>2, MoveOn
  <2>5. Within(push_seq, push_pos, push_rsize)'
    BY <1>1, <2>3, <2>4 DEF Within
  <2>6. push_pc' = "data" => push_rsize' > 0
    BY <1>1, <2>2, <2>3
  <2> QED
    BY <2>5, <2>6 DEF SendLayout
<1> QED
  BY <1>2, <1>3, <1>4, <1>5, SendSteps

\* A step that leaves the puller's place in the chunk alone.
RecvKept ==
  /\ pull_file' = pull_file
  /\ pull_seq' = pull_seq
  /\ \/ pull_pc' \notin {"data", "chunk_end"}
     \/ UNCHANGED <<pull_pc, pull_pos, pull_rsize>>

\* Every step but four of the puller is of that kind.
LEMMA RecvSteps ==
  ASSUME [Next]_vars
  PROVE  RecvKept \/ PullHandshake \/ PullFlow \/ PullSegment \/ PullChunkEnd
<1> USE DEF RecvKept, pull_vars
<1>1. CASE Pusher
  BY <1>1 DEF Pusher, PushOpen, PushConnect, PushHandshake, PushHandshakeAck,
     PushStartData, PushFlow, PushFlowAck, PushSegment, PushChunkAck,
     PushVerify, PushVerifyAck, PushEnd, PushHeaderError, PushTimeout, PushReset
<1>2. CASE PullStart \/ PullAccept \/ PullStartData \/ PullVerify
  BY <1>2 DEF PullStart, PullAccept, PullStartData, PullVerify, PullGoto
<1>3. CASE PullEnd \/ PullHeaderError \/ PullTimeout \/ PullReset
  BY <1>3 DEF PullEnd, PullHeaderError, PullTimeout, PullReset, PullReturn
<1>4. CASE Network
  BY <1>4 DEF Network, Lose, Duplicate, Reorder, Corrupt
<1>5. CASE Fault
  BY <1>5 DEF Fault, PushFault, PullFault, PullReturn
<1>6. CASE UNCHANGED vars
  BY <1>6 DEF vars
<1> QED
  BY <1>1, <1>2, <1>3, <1>4, <1>5, <1>6 DEF Next, Puller, Terminated

\* pull_chunk_data() begins at the start of a chunk that starts in the file.
LEMMA PullBegins ==
  ASSUME src \in Files, src' = src, pull_conf = conf,
         pull_seq \in 1..conf.chcount, Len(pull_file) \in Nat \ {0},
         NEW try, NEW crc, PullChunk(try, crc)
  PROVE  /\ RecvLayout'
         /\ pull_file' = pull_file /\ pull_seq' = pull_seq
         /\ pull_pc' # "done" => start_pos(conf, pull_seq) < Len(pull_file)
<1>1. conf' = conf /\ start_pos(conf, pull_seq) \in Nat
  BY ChunkInFile DEF conf
<1>2. CASE PullReturn("EMFSEEK")
  BY <1>2 DEF PullReturn, RecvLayout
<1>3. CASE ~PullReturn("EMFSEEK")
  <2>1. /\ pull_pc' = IF chunk_size_of(conf, pull_seq) = 0
                      THEN "chunk_end" ELSE "data"
        /\ pull_pos' = start_pos(conf, pull_seq)
        /\ pull_rsize' = chunk_size_of(conf, pull_seq)
        /\ pull_seq' = pull_seq /\ pull_file' = pull_file
    BY <1>3 DEF PullChunk
  <2>2. Within(pull_seq, pull_pos', pull_rsize')
    BY <2>1, BeginWithin
  <2>3. Within(pull_seq, pull_pos, pull_rsize)'
    BY <1>1, <2>1, <2>2 DEF Within
  <2>4. chunk_size_of(conf, pull_seq) \in Nat
    BY ChunkInFile
  <2>5. RecvLayout'
    BY <2>1, <2>3, <2>4 DEF RecvLayout
  <2>6. mfseek(pull_file, start_pos(conf, pull_seq)) = start_pos(conf, pull_seq)
    BY <1>3 DEF PullChunk
  <2> QED
    BY <1>1, <2>1, <2>5, <2>6 DEF mfseek
<1> QED
  BY <1>2, <1>3

\* A file that was created is not empty.
LEMMA NotEmpty ==
  ASSUME IInv, pull_file # << >>
  PROVE  Len(pull_file) = Len(src) /\ Len(pull_file) \in Nat \ {0}
<1>1. /\ pull_file \in Seq(Byte) /\ Len(pull_file) = Len(src)
  BY DEF IInv, TypeInv, TypeOK, PullTypeOK, InStep, PullFile
<1>2. Len(pull_file) \in Nat
  BY <1>1, LenProperties
<1>3. Len(pull_file) # 0
  BY <1>1, EmptySeq
<1> QED
  BY <1>1, <1>2, <1>3

\* One segment is written where the puller is, and it moves on behind it.
LEMMA SegmentWritten ==
  ASSUME IInv, RecvLayout, PullSegment, pull_pc' # "done"
  PROVE  LET n == segment_size(segsize_of(conf), pull_rsize)
         IN  /\ n \in Nat /\ n > 0 /\ n <= pull_rsize
             /\ n <= Len(Head(udp))
             /\ Head(udp) \in Seq(Byte)
             /\ pull_file' = mfwrite(pull_file, pull_pos,
                                     [i \in 1..n |-> Head(udp)[i]])
             /\ pull_pos' = pull_pos + n
             /\ pull_rsize' = pull_rsize - n
             /\ pull_pc' = (IF pull_rsize = n THEN "chunk_end" ELSE "data")
             /\ Within(pull_seq, pull_pos', pull_rsize')
             /\ pull_seq' = pull_seq
<1> DEFINE n == segment_size(segsize_of(conf), pull_rsize)
<1>1. /\ src \in Files /\ pull_pos \in Nat /\ pull_rsize \in Nat
      /\ udp \in Seq(Seq(Byte)) /\ udp # << >>
      /\ pull_seq \in 1..conf.chcount /\ pull_conf = conf
      /\ Within(pull_seq, pull_pos, pull_rsize) /\ pull_rsize > 0
      /\ pull_file # << >>
  BY DEF IInv, TypeInv, TypeOK, PullTypeOK, NetTypeOK, InStep, PullRange,
     PullFile, PullSegment, RecvLayout
<1>2. n \in Nat /\ n > 0 /\ n <= pull_rsize
  BY <1>1, SegmentStep
<1>3. Head(udp) \in Seq(Byte) /\ Len(Head(udp)) \in Nat
  BY <1>1, HeadTailProperties, LenProperties
<1>4. /\ ~(Len(Head(udp)) < n)
      /\ pull_file' = mfwrite(pull_file, pull_pos, [i \in 1..n |-> Head(udp)[i]])
      /\ pull_pos' = mfadvance(pull_file, pull_pos, n)
      /\ pull_rsize' = pull_rsize - n
      /\ pull_pc' = (IF pull_rsize = n THEN "chunk_end" ELSE "data")
      /\ pull_seq' = pull_seq
  BY <1>1 DEF PullSegment, PullReturn
<1> HIDE DEF n
<1>5. n <= Len(Head(udp))
  BY <1>2, <1>3, <1>4
<1>6. Len(pull_file) = Len(src)
  BY <1>1, NotEmpty
<1>7. mfadvance(pull_file, pull_pos, n) = pull_pos + n
      /\ Within(pull_seq, pull_pos + n, pull_rsize - n)
  BY <1>1, <1>2, <1>6, MoveOn
<1> QED
  BY <1>2, <1>3, <1>4, <1>5, <1>7 DEF n

\* What the puller does with a FLOW packet and with a chunk it refuses.
LEMMA PullRestarts ==
  ASSUME IInv, [Next]_vars, PullFlow \/ (PullChunkEnd /\ PullRefused),
         pull_pc' # "done"
  PROVE  /\ \E try, crc : PullChunk(try, crc)
         /\ src \in Files /\ src' = src /\ pull_conf = conf
         /\ pull_seq \in 1..conf.chcount
         /\ Len(pull_file) = Len(src) /\ Len(pull_file) \in Nat \ {0}
<1>1. src \in Files /\ src' = src
  BY SrcFixed DEF IInv, TypeInv, TypeOK
<1>2. CASE PullFlow
  <2>1. /\ pull_conf = conf /\ pull_seq \in 1..conf.chcount /\ pull_file # << >>
    BY <1>2 DEF IInv, InStep, PullRange, PullFile, PullFlow, pull_FLOW_header,
       header_status
  <2>2. \E try, crc : PullChunk(try, crc)
    BY <1>2 DEF PullFlow, PullReturn
  <2> QED
    BY <1>1, <2>1, <2>2, NotEmpty
<1>3. CASE PullChunkEnd /\ PullRefused
  <2>1. /\ pull_conf = conf /\ pull_seq \in 1..conf.chcount /\ pull_file # << >>
    BY <1>3 DEF IInv, InStep, PullRange, PullFile, PullChunkEnd
  <2>2. \E try, crc : PullChunk(try, crc)
    BY <1>3 DEF PullRefused, PullReturn
  <2> QED
    BY <1>1, <2>1, <2>2, NotEmpty
<1> QED
  BY <1>2, <1>3

\* RecvLayout is inductive relative to IInv.
LEMMA RecvLayoutStep ==
  ASSUME IInv, RecvLayout, [Next]_vars
  PROVE  RecvLayout'
<1>1. src' = src /\ conf' = conf
  BY SrcFixed
<1>2. CASE RecvKept
  BY <1>1, <1>2 DEF RecvKept, RecvLayout, Within
<1>3. CASE pull_pc' \notin {"data", "chunk_end"}
  BY <1>3 DEF RecvLayout
<1>4. CASE (PullFlow \/ (PullChunkEnd /\ PullRefused)) /\ pull_pc' # "done"
  <2>1. PICK try, crc : PullChunk(try, crc)
    BY <1>4, PullRestarts
  <2> QED
    BY <1>4, <2>1, PullRestarts, PullBegins
<1>5. CASE PullSegment /\ pull_pc' # "done"
  <2> DEFINE n == segment_size(segsize_of(conf), pull_rsize)
  <2>1. /\ n \in Nat /\ n <= pull_rsize /\ pull_rsize \in Nat
        /\ pull_rsize' = pull_rsize - n
        /\ pull_pc' = (IF pull_rsize = n THEN "chunk_end" ELSE "data")
        /\ Within(pull_seq, pull_pos', pull_rsize') /\ pull_seq' = pull_seq
    BY <1>5, SegmentWritten DEF IInv, TypeInv, TypeOK, PullTypeOK
  <2> HIDE DEF n
  <2>2. Within(pull_seq, pull_pos, pull_rsize)'
    BY <1>1, <2>1 DEF Within
  <2>3. pull_pc' = "data" => pull_rsize' > 0
    BY <2>1
  <2>4. pull_pc' = "chunk_end" => pull_rsize' = 0
    BY <2>1
  <2> QED
    BY <2>2, <2>3, <2>4 DEF RecvLayout
<1>6. CASE PullHandshake \/ (PullChunkEnd /\ ~PullRefused)
  BY <1>3, <1>6 DEF PullHandshake, PullChunkEnd, PullAccepted
<1> QED
  BY <1>2, <1>3, <1>4, <1>5, <1>6, RecvSteps

\* Only the bytes of a chunk are written.
LEMMA UntouchedStep ==
  ASSUME IInv, RecvLayout, Untouched, [Next]_vars
  PROVE  Untouched'
<1>1. src \in Files /\ src' = src /\ conf' = conf
  BY SrcFixed DEF IInv, TypeInv, TypeOK
<1>2. \A i : Carried(i)' <=> Carried(i)
  BY <1>1 DEF Carried
<1>3. CASE pull_file' = pull_file
  BY <1>2, <1>3 DEF Untouched
<1>4. CASE PullHandshake
  <2>1. PICK size : pull_file' = create_file(size)
    BY <1>4 DEF PullHandshake
  <2>2. CASE pull_file' = << >>
    BY <2>2 DEF Untouched
  <2>3. CASE pull_file' # << >>
    <3>1. pull_file' = [i \in 1..size |-> 0]
      BY <2>1, <2>3 DEF create_file
    <3>2. pull_file' \in Seq(Byte)
      <4>1. IInv'
        BY IInvStep
      <4> QED
        BY <4>1 DEF IInv, TypeInv, TypeOK, PullTypeOK
    <3>3. 1..Len(pull_file') = 1..size
      BY <3>1, <3>2, LenProperties
    <3>4. \A i \in 1..Len(pull_file') : pull_file'[i] = 0
      BY <3>1, <3>3
    <3> QED
      BY <3>4 DEF Untouched
  <2> QED
    BY <2>2, <2>3
<1>5. CASE PullSegment /\ pull_pc' # "done"
  <2> DEFINE n == segment_size(segsize_of(conf), pull_rsize)
             data == [i \in 1..n |-> Head(udp)[i]]
  <2>1. /\ n \in Nat /\ n <= pull_rsize /\ pull_pos \in Nat /\ pull_rsize \in Nat
        /\ pull_file \in Seq(Byte) /\ pull_seq \in 1..conf.chcount
        /\ pull_file' = mfwrite(pull_file, pull_pos, data)
        /\ Within(pull_seq, pull_pos, pull_rsize)
    BY <1>5, SegmentWritten
    DEF IInv, TypeInv, TypeOK, PullTypeOK, InStep, PullRange, PullSegment,
        RecvLayout
  <2>2. data \in Seq(Byte) /\ Len(data) = n
    <3>1. Head(udp) \in Seq(Byte) /\ n <= Len(Head(udp))
      BY <1>5, SegmentWritten
    <3>2. Len(Head(udp)) \in Nat /\ \A i \in 1..Len(Head(udp)) : Head(udp)[i] \in Byte
      BY <3>1, LenProperties, ElementOfSeq
    <3>3. data \in [1..n -> Byte]
      BY <2>1, <3>1, <3>2
    <3> QED
      BY <2>1, <3>3, FunctionIsSeq
  <2> HIDE DEF n, data
  <2>3. Len(pull_file') = Len(pull_file) /\ Len(pull_file) \in Nat
    BY <2>1, <2>2, WriteTypes, LenProperties
  <2>4. ASSUME NEW i \in 1..Len(pull_file), pull_pos < i, i <= pull_pos + n
        PROVE  Carried(i)
    <3>1. /\ start_pos(conf, pull_seq) \in Nat /\ chunk_size_of(conf, pull_seq) \in Nat
      BY <1>1, <2>1, ChunkInFile
    <3>2. Covers(pull_seq, i)
      BY <2>1, <2>3, <2>4, <3>1 DEF Covers, Within
    <3> QED
      BY <1>1, <2>1, <3>2, CarriedByChunks
  <2>5. \A i \in 1..Len(pull_file) :
          ~(pull_pos < i /\ i <= pull_pos + n) => pull_file'[i] = pull_file[i]
    BY <2>1, <2>2 DEF mfwrite
  <2> QED
    BY <1>2, <2>3, <2>4, <2>5 DEF Untouched
<1>6. CASE PullFlow \/ PullChunkEnd \/ (PullSegment /\ pull_pc' = "done")
  <2>1. pull_file' = pull_file
    BY <1>6 DEF PullFlow, PullChunkEnd, PullSegment, PullAccepted, PullRefused,
       PullChunk, PullReturn
  <2> QED
    BY <1>3, <2>1
<1> QED
  BY <1>3, <1>4, <1>5, <1>6, RecvSteps DEF RecvKept

\* The last chunk is entered through mfseek().
LEMMA LastReachedStep ==
  ASSUME IInv, LastReached, [Next]_vars
  PROVE  LastReached'
<1>1. src \in Files /\ src' = src /\ conf' = conf /\ conf.chcount \in Nat \ {0}
  BY SrcFixed, ConfOK DEF IInv, TypeInv, TypeOK
<1>2. CASE RecvKept
  BY <1>1, <1>2 DEF RecvKept, LastReached
<1>3. CASE PullHandshake
  BY <1>1, <1>3 DEF PullHandshake, LastReached
<1>4. CASE (PullFlow \/ (PullChunkEnd /\ PullRefused)) /\ pull_pc' # "done"
  <2>1. PICK try, crc : PullChunk(try, crc)
    BY <1>4, PullRestarts
  <2>2. pull_seq' = pull_seq /\ start_pos(conf, pull_seq) < Len(src)
        /\ pull_seq \in 1..conf.chcount
    BY <1>4, <2>1, PullRestarts, PullBegins
  <2> QED
    BY <1>1, <2>2 DEF LastReached
<1>5. CASE PullSegment
  BY <1>1, <1>5 DEF PullSegment, PullReturn, LastReached
<1>6. CASE PullChunkEnd /\ ~PullRefused
  <2>1. pull_seq \in 1..conf.chcount /\ pull_seq' = pull_seq + 1
        /\ pull_pc = "chunk_end"
    BY <1>1, <1>6, NextSeq
    DEF PullChunkEnd, PullAccepted, IInv, InStep, PullRange
  <2>2. pull_seq' > conf.chcount => pull_seq = conf.chcount
    BY <1>1, <2>1
  <2>3. pull_pc' \notin {"data", "chunk_end"}
    BY <1>6 DEF PullChunkEnd, PullAccepted
  <2> QED
    BY <1>1, <2>1, <2>2, <2>3 DEF LastReached
<1>7. CASE (PullFlow \/ (PullChunkEnd /\ PullRefused)) /\ pull_pc' = "done"
  <2>1. pull_seq' = pull_seq
    BY <1>7 DEF PullFlow, PullRefused, PullChunk, PullReturn
  <2> QED
    BY <1>1, <1>7, <2>1 DEF LastReached
<1> QED
  BY <1>2, <1>3, <1>4, <1>5, <1>6, <1>7, RecvSteps

\* Both sides walk through every chunk from its start to its end, nothing is
\* written outside the chunks, and the last chunk is entered through mfseek():
\* whatever the network does, and where positions wrap as well.
THEOREM BytesPlaced == Spec => []Placed
<1>1. Init => Placed
  <2> SUFFICES ASSUME Init PROVE Placed
    OBVIOUS
  <2>1. conf.chcount \in 1..(U32 - 2)
    BY ConfOK DEF Init
  <2>2. LastReached
    BY <2>1 DEF Init, LastReached
  <2>3. Untouched
    BY DEF Init, Untouched
  <2> QED
    BY <2>2, <2>3 DEF Init, Placed, SendLayout, RecvLayout
<1>2. IInv /\ Placed /\ [Next]_vars => Placed'
  BY SendLayoutStep, RecvLayoutStep, UntouchedStep, LastReachedStep DEF Placed
<1> QED
  BY <1>1, <1>2, StaysInStep, PTL DEF Spec

\* No file but a deliverable one arrives, whatever the network does.
LEMMA OnlyDeliverable == IInv /\ Placed /\ Delivered => Deliverable
<1> SUFFICES ASSUME IInv, Placed, Delivered PROVE Deliverable
  OBVIOUS
<1>1. src \in Files /\ conf.chcount \in 1..(U32 - 2)
  BY ConfOK DEF IInv, TypeInv, TypeOK
<1>2. pull_seq = conf.chcount + 1 /\ pull_file = src
  BY DEF Delivered, IInv, InStep, Outcomes, PullFile
<1>3. start_pos(conf, conf.chcount) < Len(src)
  BY <1>1, <1>2 DEF Placed, LastReached
<1>4. Len(src) < U32 => Len(src) % ChSize # 0
  <2> SUFFICES ASSUME Len(src) < U32, Len(src) % ChSize = 0 PROVE FALSE
    OBVIOUS
  <2>1. Len(src) \in Nat
    BY <1>1, LenProperties
  <2> QED
    BY <1>1, <1>3, <2>1, SeekFails
<1>5. \A i \in 1..Len(src) : src[i] = 0 \/ Carried(i)
  BY <1>2 DEF Placed, Untouched
<1> QED
  BY <1>4, <1>5 DEF Deliverable

-----------------------------------------------------------------------------
(***************************************************************************)
(* What the environment has done so far.                                   *)
(***************************************************************************)
\* The counts only grow, one kind at a time.
LEMMA UsedSteps ==
  ASSUME IInv, [Next]_vars
  PROVE  /\ used \in [Kinds -> Nat] /\ used' \in [Kinds -> Nat]
         /\ \A k \in Kinds : used[k] <= used'[k]
         /\ Fault => used'["fault"] > 0
         /\ Lose => used'["lose"] > 0
         /\ Duplicate => used'["duplicate"] > 0
         /\ Reorder => used' = [used EXCEPT !["reorder"] = @ + 1]
         /\ Corrupt => used' = [used EXCEPT !["corrupt"] = @ + 1]
<1>1. used \in [Kinds -> Nat]
  BY DEF IInv, TypeInv, TypeOK, NetTypeOK
<1>2. ASSUME NEW k \in Kinds, Spend(k)
      PROVE  /\ used' \in [Kinds -> Nat] /\ used'[k] = used[k] + 1
             /\ \A j \in Kinds : used[j] <= used'[j]
             /\ used' = [used EXCEPT ![k] = @ + 1]
  BY <1>1, <1>2 DEF Spend
<1>3. "fault" \in Kinds /\ "lose" \in Kinds /\ "duplicate" \in Kinds
      /\ "reorder" \in Kinds /\ "corrupt" \in Kinds
  BY DEF Kinds
<1>4. \/ \E k \in Kinds : Spend(k)
      \/ used' = used
  <2>1. CASE Pusher
    BY <2>1 DEF Pusher, PushOpen, PushConnect, PushHandshake,
       PushHandshakeAck, PushStartData, PushFlow, PushFlowAck, PushSegment,
       PushChunkAck, PushVerify, PushVerifyAck, PushEnd, PushHeaderError,
       PushTimeout, PushReset
  <2>2. CASE Puller
    BY <2>2 DEF Puller, PullStart, PullAccept, PullHandshake, PullStartData,
       PullFlow, PullSegment, PullChunkEnd, PullVerify, PullEnd,
       PullHeaderError, PullTimeout, PullReset
  <2>3. CASE Network \/ Fault
    BY <1>3, <2>3 DEF Network, Lose, Duplicate, Reorder, Corrupt, Fault,
       PushFault, PullFault
  <2> QED
    BY <2>1, <2>2, <2>3 DEF Next, Terminated, vars
<1>5. used' \in [Kinds -> Nat] /\ \A k \in Kinds : used[k] <= used'[k]
  <2>1. CASE used' = used
    BY <1>1, <2>1
  <2> QED
    BY <1>2, <1>4, <2>1
<1>6. Fault => used'["fault"] > 0
  <2> SUFFICES ASSUME Fault PROVE used'["fault"] > 0
    OBVIOUS
  <2>1. used'["fault"] = used["fault"] + 1
    BY <1>2, <1>3 DEF Fault, PushFault, PullFault
  <2> QED
    BY <1>1, <1>3, <2>1
<1>7. Lose => used'["lose"] > 0
  <2> SUFFICES ASSUME Lose PROVE used'["lose"] > 0
    OBVIOUS
  <2>1. used'["lose"] = used["lose"] + 1
    BY <1>2, <1>3 DEF Lose
  <2> QED
    BY <1>1, <1>3, <2>1
<1>8. Duplicate => used'["duplicate"] > 0
  <2> SUFFICES ASSUME Duplicate PROVE used'["duplicate"] > 0
    OBVIOUS
  <2>1. used'["duplicate"] = used["duplicate"] + 1
    BY <1>2, <1>3 DEF Duplicate
  <2> QED
    BY <1>1, <1>3, <2>1
<1>9. /\ Reorder => used' = [used EXCEPT !["reorder"] = @ + 1]
      /\ Corrupt => used' = [used EXCEPT !["corrupt"] = @ + 1]
  BY DEF Reorder, Corrupt, Spend
<1> QED
  BY <1>1, <1>5, <1>6, <1>7, <1>8, <1>9

\* What is tolerable after a step was tolerable before it, and the step was not
\* one of those that no transfer is made to stand.
LEMMA TolerableBefore ==
  ASSUME IInv, [Next]_vars, Tolerable'
  PROVE  /\ Tolerable /\ ~Fault /\ ~Lose /\ ~Duplicate
         /\ Reorder => EqualSegments
         /\ Damage \in Nat /\ Damage' \in Nat /\ Damage <= Damage'
         /\ Reorder \/ Corrupt => Damage' = Damage + 1
         /\ Damage' < PullTry /\ Damage' < PushTry
<1>1. /\ used \in [Kinds -> Nat] /\ used' \in [Kinds -> Nat]
      /\ \A k \in Kinds : used[k] <= used'[k]
      /\ Fault => used'["fault"] > 0
      /\ Lose => used'["lose"] > 0
      /\ Duplicate => used'["duplicate"] > 0
      /\ Reorder => used' = [used EXCEPT !["reorder"] = @ + 1]
      /\ Corrupt => used' = [used EXCEPT !["corrupt"] = @ + 1]
  BY UsedSteps
<1>2. EqualSegments' <=> EqualSegments
  BY SrcFixed DEF EqualSegments
<1>3. "fault" \in Kinds /\ "lose" \in Kinds /\ "duplicate" \in Kinds
      /\ "reorder" \in Kinds /\ "corrupt" \in Kinds
  BY DEF Kinds
<1> DEFINE K == {"corrupt"} \cup IF EqualSegments THEN {"reorder"} ELSE {}
<1>4. \A k \in Kinds \ K : used'[k] = 0
  BY <1>2 DEF Tolerable, OnlyUsed
<1>5. \A k \in Kinds \ K : used[k] = 0
  BY <1>1, <1>4
<1>6. "fault" \notin K /\ "lose" \notin K /\ "duplicate" \notin K
  OBVIOUS
<1>7. ~EqualSegments => "reorder" \notin K
  OBVIOUS
<1>8. /\ used["corrupt"] \in Nat /\ used["reorder"] \in Nat
      /\ used'["corrupt"] \in Nat /\ used'["reorder"] \in Nat
      /\ used["corrupt"] <= used'["corrupt"]
      /\ used["reorder"] <= used'["reorder"]
  BY <1>1, <1>3
<1>9. Damage' = used'["corrupt"] + used'["reorder"]
      /\ Damage = used["corrupt"] + used["reorder"]
  BY DEF Damage
<1>10. Damage' < PullTry /\ Damage' < PushTry
  BY <1>9 DEF Tolerable
<1>11. Damage \in Nat /\ Damage' \in Nat /\ Damage <= Damage'
  BY <1>8, <1>9
<1>12. Damage < PullTry /\ Damage < PushTry
  BY <1>10, <1>11
<1>13. Tolerable
  BY <1>5, <1>9, <1>12 DEF Tolerable, OnlyUsed
<1>14. ~Fault /\ ~Lose /\ ~Duplicate
  <2>1. used'["fault"] = 0 /\ used'["lose"] = 0 /\ used'["duplicate"] = 0
    BY <1>3, <1>4, <1>6
  <2>2. ~(used'["fault"] > 0) /\ ~(used'["lose"] > 0) /\ ~(used'["duplicate"] > 0)
    BY <2>1
  <2> QED
    BY <1>1, <2>2, Zenon
<1>15. Reorder => EqualSegments
  <2> SUFFICES ASSUME Reorder, ~EqualSegments PROVE FALSE
    OBVIOUS
  <2>1. used'["reorder"] = used["reorder"] + 1
    BY <1>1, <1>3
  <2> QED
    BY <1>3, <1>4, <1>7, <1>8, <2>1
<1>16. Reorder \/ Corrupt => Damage' = Damage + 1
  <2>1. CASE Reorder
    <3>1. used'["reorder"] = used["reorder"] + 1 /\ used'["corrupt"] = used["corrupt"]
      BY <1>1, <1>3, <2>1
    <3> QED
      BY <1>8, <1>9, <3>1
  <2>2. CASE Corrupt
    <3>1. used'["corrupt"] = used["corrupt"] + 1 /\ used'["reorder"] = used["reorder"]
      BY <1>1, <1>3, <2>2
    <3> QED
      BY <1>8, <1>9, <3>1
  <2> QED
    BY <2>1, <2>2
<1> QED
  BY <1>10, <1>11, <1>13, <1>14, <1>15, <1>16

\* A run that is undisturbed is a tolerable one.
LEMMA CleanTolerable ==
  ASSUME IInv, OnlyUsed({})
  PROVE  Tolerable /\ Damage = 0
<1>1. "corrupt" \in Kinds /\ "reorder" \in Kinds
  BY DEF Kinds
<1>2. used["corrupt"] = 0 /\ used["reorder"] = 0
  BY <1>1 DEF OnlyUsed
<1> QED
  BY <1>2 DEF OnlyUsed, Tolerable, Damage

\* A run that is undisturbed was so before.
LEMMA CleanBefore ==
  ASSUME IInv, [Next]_vars, OnlyUsed({})'
  PROVE  OnlyUsed({})
<1>1. /\ used \in [Kinds -> Nat] /\ \A k \in Kinds : used[k] <= used'[k]
  BY UsedSteps
<1>2. \A k \in Kinds : used'[k] = 0
  BY DEF OnlyUsed
<1> QED
  BY <1>1, <1>2 DEF OnlyUsed

-----------------------------------------------------------------------------
(***************************************************************************)
(* Nobody gives up.                                                        *)
(***************************************************************************)
\* A deliverable file on its way, with damage that can be tolerated.
Sound ==
  IInv /\ Paced /\ Placed /\ Deliverable /\ Tolerable /\ OnCourse

\* The file has been created and the two sides are on their course.
Underway ==
  Lasting /\ Alternating /\ Flowing /\ Accounted /\ Settled

\* Once the file has been created, neither side has returned before the verdict
\* and both are past the handshake's first packet.
LEMMA BothThere ==
  ASSUME Sound, pull_file # << >>
  PROVE  /\ Underway
         /\ verdict = "none" => push_pc # "done" /\ pull_pc # "done"
         /\ push_pc = "done" => pull_pc \in {"end", "done"} /\ verdict # "none"
         /\ pull_pc = "done" =>
              push_pc \in {"verify_ack", "end", "done"} /\ verdict # "none"
         /\ pull_pc \notin {"start", "accept", "handshake"}
         /\ push_pc \notin {"open", "connect", "send"}
<1>1. Underway
  BY DEF Sound, OnCourse, Underway
<1>2. pull_pc \notin {"start", "accept", "handshake"}
  BY DEF Sound, OnCourse, Meeting
<1>3. push_pc = "done" => pull_pc \in {"end", "done"} /\ verdict # "none"
  <2> SUFFICES ASSUME push_pc = "done"
               PROVE  pull_pc \in {"end", "done"} /\ verdict # "none"
    OBVIOUS
  <2>1. verdict = "match"
    BY <1>1 DEF Underway, Lasting, Sound, IInv, InStep, Outcomes
  <2> QED
    BY <2>1 DEF Sound, IInv, InStep, PullFile
<1>4. pull_pc = "done" =>
        push_pc \in {"verify_ack", "end", "done"} /\ verdict # "none"
  <2> SUFFICES ASSUME pull_pc = "done"
               PROVE  push_pc \in {"verify_ack", "end", "done"} /\ verdict # "none"
    OBVIOUS
  <2>1. verdict # "none"
    BY <1>1 DEF Underway, Lasting, Sound, IInv, InStep, Outcomes
  <2> QED
    BY <2>1 DEF Sound, IInv, InStep, PushVerifyView
<1>5. push_pc \notin {"open", "connect", "send"}
  BY <1>2, <1>4 DEF Sound, IInv, InStep, PushHandshakeView
<1> QED
  BY <1>1, <1>2, <1>3, <1>4, <1>5

\* While the puller waits for a segment one is on the way, or is still to come.
LEMMA NeverStarved ==
  ASSUME Sound, pull_file # << >>
  PROVE  ~Starved
<1> SUFFICES ASSUME Starved PROVE FALSE
  OBVIOUS
<1>1. pull_pc = "data" /\ udp = << >> /\ push_pc # "done"
  BY BothThere DEF Starved
<1>2. push_pc = "data_ack" /\ toPusher = << >>
  BY <1>1 DEF Starved
<1>3. pull_rsize <= Len(udp) * segsize_of(conf)
  BY <1>1, <1>2, BothThere DEF Underway, Flowing
<1>4. pull_rsize \in Nat /\ pull_rsize > 0 /\ segsize_of(conf) \in Nat \ {0}
  BY <1>1, SegSize
  DEF Sound, Placed, RecvLayout, IInv, TypeInv, TypeOK, PullTypeOK
<1>5. Len(udp) = 0
  BY <1>1
<1> QED
  BY <1>3, <1>4, <1>5

\* No call fails on either side once the file has been created.
LEMMA NobodyGivesUp ==
  ASSUME Sound, Patient, pull_file # << >>
  PROVE  /\ ~PushHeaderError /\ ~PushTimeout /\ ~PushReset
         /\ ~PullHeaderError /\ ~PullTimeout /\ ~PullReset
<1>1. /\ push_pc = "done" => pull_pc \in {"end", "done"}
      /\ pull_pc = "done" =>
           push_pc \in {"verify_ack", "end", "done"} /\ verdict # "none"
      /\ pull_pc # "handshake" /\ push_pc # "send"
  BY BothThere
<1>2. pull_pc = "done" /\ push_pc = "verify_ack" => toPusher # << >>
  BY <1>1 DEF Sound, IInv, InStep, PushVerifyView
<1>3. ~PushTimeout /\ ~PullTimeout
  BY NeverStarved DEF PushTimeout, PullTimeout
<1>4. ~PushReset /\ ~PullReset
  BY <1>1, <1>2 DEF PushReset, PullReset, PushWaits, PullWaits
<1>5. toPusher # << >> => pull_RECV_header = "SUCCESS"
  <2> SUFFICES ASSUME toPusher # << >> PROVE pull_RECV_header = "SUCCESS"
    OBVIOUS
  <2>1. toPusher \in Seq(RecvPackets)
    BY DEF Sound, IInv, TypeInv, TypeOK, NetTypeOK
  <2>2. Head(toPusher) \in RecvPackets
    BY <2>1, HeadTailProperties
  <2> QED
    BY <2>2 DEF pull_RECV_header, header_status, RecvPackets
<1>6. ~PushHeaderError
  BY <1>1, <1>2, <1>5 DEF PushHeaderError, PushWaits
<1>7. pull_pc = "flow" /\ toPuller # << >> => pull_header = "SUCCESS"
  BY Single
  DEF Sound, IInv, InStep, PullQueue, FlowOf, FLOW, pull_header,
      pull_FLOW_header, header_status
<1>8. pull_pc = "verify" /\ toPuller # << >> => pull_header = "SUCCESS"
  BY Single
  DEF Sound, IInv, InStep, PullQueue, SEND, pull_header,
      pull_SEND_header, header_status
<1>9. ~PullHeaderError
  BY <1>1, <1>7, <1>8 DEF PullHeaderError, PullWaits
<1> QED
  BY <1>3, <1>4, <1>6, <1>9

\* The pusher that has connected waits until the handshake is answered.
LEMMA MeetingStep ==
  ASSUME Sound, Patient, [Next]_vars, ~Fault
  PROVE  Meeting'
<1>1. Meeting /\ PushHandshakeView
  BY DEF Sound, OnCourse, IInv, InStep
<1>2. CASE Pusher
  <2>1. UNCHANGED pull_vars
    BY <1>2 DEF Pusher, PushOpen, PushConnect, PushHandshake,
       PushHandshakeAck, PushStartData, PushFlow, PushFlowAck, PushSegment,
       PushChunkAck, PushVerify, PushVerifyAck, PushEnd, PushHeaderError,
       PushTimeout, PushReset
  <2>2. CASE PushConnect
    BY <1>1, <2>1, <2>2
    DEF PushConnect, PushGoto, PushReturn, Meeting, PushHandshakeView, pull_vars
  <2>3. CASE ~PushConnect
    <3>1. conn' = conn
      BY <1>2, <2>3 DEF Pusher, PushOpen, PushHandshake, PushHandshakeAck,
         PushStartData, PushFlow, PushFlowAck, PushSegment, PushChunkAck,
         PushVerify, PushVerifyAck, PushEnd, PushHeaderError, PushTimeout,
         PushReset, tcp_vars
    <3>2. pull_pc \in {"start", "accept", "handshake"} => udp' = udp
      BY <1>2, <2>3 DEF Pusher, PushOpen, PushHandshake, PushHandshakeAck,
         PushStartData, PushFlow, PushFlowAck, PushSegment, PushChunkAck,
         PushVerify, PushVerifyAck, PushEnd, PushHeaderError, PushTimeout,
         PushReset, DataSocketOpen
    <3>3. ASSUME conn, pull_pc \in {"accept", "handshake"}
          PROVE  push_pc' # "done"
      <4>1. push_pc \in {"send", "send_ack"}
        <5>1. push_pc # "done" /\ push_pc \in PushPCs
          BY <1>1, <3>3 DEF Meeting, Sound, IInv, TypeInv, TypeOK, PushTypeOK
        <5>2. push_pc \notin {"open", "connect"}
          BY <1>1, <3>3 DEF PushHandshakeView
        <5>3. push_pc \notin {"start_data", "flow", "flow_ack", "data",
                              "data_ack"}
          BY <3>3 DEF Sound, IInv, InStep, PushTransferView, ChunkPhase
        <5>4. push_pc \notin {"verify", "verify_ack"}
          BY <3>3 DEF Sound, IInv, InStep, PushVerifyView
        <5>5. push_pc # "end"
          BY <3>3 DEF Sound, IInv, InStep, PushVerifyView, PullFile
        <5> QED
          BY <5>1, <5>2, <5>3, <5>4, <5>5 DEF PushPCs
      <4>2. toPusher = << >>
        BY <1>1, <3>3, <4>1 DEF PushHandshakeView, Quiet
      <4>3. pull_RECV_header # "SUCCESS"
        BY <4>2 DEF pull_RECV_header, header_status
      <4>4. ~PushHeaderError /\ ~PushTimeout /\ ~PushReset
        BY <3>3, <4>2 DEF PushHeaderError, PushTimeout, PushReset, Starved
      <4> QED
        BY <1>2, <2>3, <4>1, <4>3, <4>4
        DEF Pusher, PushOpen, PushHandshake, PushHandshakeAck, PushStartData,
            PushFlow, PushFlowAck, PushSegment, PushChunkAck, PushVerify,
            PushVerifyAck, PushEnd, PushGoto
    <3> QED
      BY <1>1, <2>1, <3>1, <3>2, <3>3 DEF Meeting, pull_vars
  <2> QED
    BY <2>2, <2>3
<1>3. CASE PullStart \/ PullAccept
  BY <1>1, <1>3
  DEF PullStart, PullAccept, PullGoto, Meeting, push_vars, tcp_vars
<1>4. CASE Puller /\ ~PullStart /\ ~PullAccept
  <2>1. pull_pc' \notin {"start", "accept", "handshake"}
    BY <1>4 DEF Puller, PullHandshake, PullStartData, PullFlow, PullSegment,
       PullChunkEnd, PullAccepted, PullRefused, PullChunk, PullVerify, PullEnd,
       PullHeaderError, PullTimeout, PullReset, PullReturn
  <2> QED
    BY <2>1 DEF Meeting
<1>5. CASE Network
  <2>1. UNCHANGED <<push_vars, pull_vars, tcp_vars>>
    BY <1>5 DEF Network, Lose, Duplicate, Reorder, Corrupt
  <2>2. udp # << >>
    BY <1>5 DEF Network, Lose, Duplicate, Reorder, Corrupt
  <2> QED
    BY <1>1, <2>1, <2>2 DEF Meeting, push_vars, pull_vars, tcp_vars
<1>6. CASE UNCHANGED vars
  BY <1>1, <1>6 DEF Meeting, vars, push_vars, pull_vars, tcp_vars
<1> QED
  BY <1>2, <1>3, <1>4, <1>5, <1>6 DEF Next, Terminated

-----------------------------------------------------------------------------
(***************************************************************************)
(* The pusher stays on its course.                                         *)
(***************************************************************************)
\* The handshake creates the file and is answered with an ACK.
LEMMA CourseBegins ==
  ASSUME Sound, PullHandshake, pull_file' # << >>
  PROVE  Underway'
<1>1. /\ pull_pc = "handshake" /\ pull_pc' = "start_data" /\ pull_seq' = 1
      /\ toPuller # << >> /\ UNCHANGED <<push_vars, udp, verdict>>
  BY DEF PullHandshake, pull_SEND_header, header_status
<1>2. push_pc # "done" /\ udp = << >> /\ verdict = "none"
  BY <1>1 DEF Sound, OnCourse, Meeting, IInv, InStep, PullFile
<1>3. push_pc = "send_ack"
  <2>1. push_pc \in PushPCs /\ push_pc \notin {"open", "connect", "send"}
    BY <1>1
    DEF Sound, IInv, TypeInv, TypeOK, PushTypeOK, InStep, PushHandshakeView, Quiet
  <2>2. push_pc \notin {"start_data", "flow", "flow_ack", "data", "data_ack"}
    BY <1>1 DEF Sound, IInv, InStep, PushTransferView, ChunkPhase
  <2>3. push_pc \notin {"verify", "verify_ack", "end"}
    BY <1>1, <1>2 DEF Sound, IInv, InStep, PushVerifyView
  <2> QED
    BY <1>2, <2>1, <2>2, <2>3 DEF PushPCs
<1>4. toPusher = << >>
  BY <1>1, <1>3 DEF Sound, IInv, InStep, PushHandshakeView
<1>5. toPusher' = <<RECV(1, 0)>>
  BY <1>4 DEF PullHandshake, push_RECV_header, mfopen
<1>6. toPusher'[1].ack = 1
  BY <1>5 DEF RECV
<1>7. Lasting'
  BY <1>1, <1>2, <1>3, <1>6 DEF Lasting, push_vars
<1>8. Alternating' /\ Flowing' /\ Accounted'
  BY <1>1, <1>2, <1>3 DEF Alternating, Flowing, Accounted, push_vars
<1>9. Settled'
  BY <1>1 DEF Settled
<1> QED
  BY <1>7, <1>8, <1>9 DEF Underway

\* A step of the pusher that sends no segment.
LEMMA PullSideKept ==
  ASSUME Accounted, Settled, src' = src, UNCHANGED <<pull_vars, udp, used>>
  PROVE  Accounted' /\ Settled'
<1>1. conf' = conf
  BY DEF conf
<1>2. Undamaged' <=> Undamaged
  BY <1>1 DEF Undamaged, Segment, SegmentSize, pull_vars
<1>3. Accounted'
  BY <1>2 DEF Accounted, Damage, pull_vars
<1>4. Settled'
  BY <1>1 DEF Settled, Covers, pull_vars
<1> QED
  BY <1>3, <1>4

\* Before the first segment and behind the last the two sides only exchange
\* packets.
LEMMA QuietCourse ==
  ASSUME Underway, src' = src, UNCHANGED <<pull_vars, udp, used>>,
         pull_pc \notin {"data", "chunk_end"},
         push_pc' \notin {"data", "send_ack"},
         push_pc' = "data_ack" => Len(toPusher') <= 1,
         push_pc' = "flow_ack" => Len(toPusher') <= 1,
         push_pc' = "done" => push_stat' = "SUCCESS"
  PROVE  Underway'
<1>1. Accounted' /\ Settled'
  BY PullSideKept DEF Underway
<1>2. Lasting'
  BY DEF Underway, Lasting, pull_vars
<1>3. Alternating'
  BY DEF Underway, Alternating, pull_vars
<1>4. Flowing'
  BY DEF Underway, Flowing, pull_vars
<1> QED
  BY <1>1, <1>2, <1>3, <1>4 DEF Underway

\* The pusher begins to send a chunk, for the first time or again.
LEMMA SendingBegins ==
  ASSUME Sound, Underway, src' = src, UNCHANGED <<pull_vars, udp, used>>,
         pull_pc = "data", udp = << >>, toPusher' = << >>,
         pull_rsize = chunk_size_of(conf, pull_seq),
         push_seq \in 1..conf.chcount, NEW try, PushChunk(try)
  PROVE  Underway'
<1>1. /\ pull_seq = push_seq /\ pull_rsize > 0 /\ src \in Files
      /\ pull_rsize \in Nat /\ Len(udp) = 0
  BY DEF Sound, Paced, Placed, RecvLayout, IInv, TypeInv, TypeOK, PullTypeOK
<1>2. start_pos(conf, push_seq) < Len(src)
  BY <1>1, SeekFinds DEF Sound, Deliverable
<1>3. push_pc' = "data" /\ push_rsize' = pull_rsize
  BY <1>1, <1>2 DEF PushChunk, mfseek
<1>4. conf' = conf /\ segsize_of(conf) \in Nat \ {0}
  BY <1>1, SegSize DEF conf
<1>5. Accounted' /\ Settled'
  BY PullSideKept DEF Underway
<1>6. Lasting'
  BY <1>3 DEF Underway, Lasting, pull_vars
<1>7. Alternating'
  BY <1>3 DEF Underway, Alternating, pull_vars
<1>8. push_rsize' = pull_rsize - Len(udp) * segsize_of(conf)
  BY <1>1, <1>3, <1>4
<1>9. /\ chunk_size_of(conf, pull_seq) % segsize_of(conf) = 0 =>
           \E k \in 0..pull_rsize : pull_rsize = k * segsize_of(conf)
  BY DEF Underway, Flowing
<1>10. Flowing'
  BY <1>1, <1>3, <1>4, <1>8, <1>9 DEF Flowing, SegmentSize, pull_vars
<1> QED
  BY <1>5, <1>6, <1>7, <1>10 DEF Underway

\* The answer to a FLOW packet.
LEMMA FlowAckCourse ==
  ASSUME Sound, pull_file # << >>, PushFlowAck
  PROVE  Underway'
<1>1. /\ src' = src /\ UNCHANGED <<pull_vars, udp, used>>
      /\ push_pc = "flow_ack" /\ toPusher' = Tail(toPusher)
      /\ pull_RECV_header = "SUCCESS"
  BY DEF PushFlowAck
<1>2. /\ toPusher # << >> /\ toPusher \in Seq(RecvPackets) /\ src \in Files
      /\ push_seq \in 1..conf.chcount /\ pull_seq \in Nat
  BY <1>1, RecvHeader
  DEF Sound, IInv, TypeInv, TypeOK, NetTypeOK, PullTypeOK, PushRange
<1>3. toPusher[1].ack = 1 /\ ChunkPhase(Tail(toPusher), 0)
  BY <1>1, <1>2 DEF Sound, IInv, InStep, PushTransferView
<1>4. PushChunk(PushTry)
  BY <1>2, <1>3, Pop DEF PushFlowAck
<1>5. Len(Tail(toPusher)) = Len(toPusher) - 1 /\ Len(toPusher) \in Nat
      /\ Tail(toPusher) \in Seq(RecvPackets)
  BY <1>2, HeadTailProperties, LenProperties
<1>6. Underway /\ pull_pc \notin {"start", "accept", "handshake"}
  BY BothThere
<1>7. verdict = "none"
  BY <1>1 DEF Sound, IInv, InStep, PushVerifyView
<1>8. pull_pc # "done"
  BY <1>7, BothThere
<1>9. start_pos(conf, push_seq) < Len(src)
  BY <1>2, SeekFinds DEF Sound, Deliverable
<1>10. \/ Len(toPusher) <= 1
       \/ Len(toPusher) = 2 /\ chunk_size_of(conf, push_seq) = 0
  BY <1>1, <1>6 DEF Underway, Alternating
<1>11. CASE pull_pc = "data"
  <2>1. Len(toPusher) = 1 /\ udp = << >>
        /\ pull_rsize = chunk_size_of(conf, pull_seq)
    BY <1>1, <1>6, <1>11 DEF Underway, Alternating, Flowing
  <2>2. toPusher' = << >>
    BY <1>1, <1>5, <2>1, EmptySeq
  <2> QED
    BY <1>1, <1>2, <1>4, <1>6, <1>11, <2>1, <2>2, SendingBegins
<1>12. CASE pull_pc = "chunk_end"
  \* An empty chunk is sent as soon as it is announced.
  <2>1. Len(toPusher) = 1 /\ chunk_size_of(conf, pull_seq) = 0
    BY <1>1, <1>6, <1>12 DEF Underway, Alternating
  <2>2. toPusher' = << >>
    BY <1>1, <1>5, <2>1, EmptySeq
  <2>3. pull_seq = push_seq
    BY <1>12 DEF Sound, Paced
  <2>4. push_pc' = "data_ack"
    BY <1>4, <1>9, <2>1, <2>3 DEF PushChunk, mfseek
  <2>5. Accounted' /\ Settled'
    BY <1>1, <1>6, PullSideKept DEF Underway
  <2>6. Lasting' /\ Alternating' /\ Flowing'
    BY <1>1, <1>6, <1>12, <2>2, <2>4
    DEF Underway, Lasting, Alternating, Flowing, pull_vars
  <2> QED
    BY <2>5, <2>6 DEF Underway
<1>13. CASE pull_pc \notin {"data", "chunk_end"}
  \* The puller is past the chunk already: it was empty.
  <2>1. pull_seq = push_seq + 1 /\ Tail(toPusher) # << >>
    BY <1>3, <1>8, <1>13 DEF ChunkPhase
  <2>2. Len(Tail(toPusher)) # 0
    BY <1>5, <2>1, EmptySeq
  <2>3. Len(toPusher) = 2 /\ chunk_size_of(conf, push_seq) = 0
    BY <1>5, <1>10, <2>2
  <2>4. push_pc' = "data_ack" /\ Len(toPusher') = 1
    BY <1>1, <1>4, <1>5, <1>9, <2>3 DEF PushChunk, mfseek
  <2>5. Len(toPusher') <= 1
    BY <2>4
  <2> QED
    BY <1>1, <1>6, <1>13, <2>4, <2>5, QuietCourse
<1> QED
  BY <1>11, <1>12, <1>13

\* The answer to a chunk.
LEMMA ChunkAckCourse ==
  ASSUME Sound, pull_file # << >>, PushChunkAck
  PROVE  Underway'
<1>1. /\ src' = src /\ UNCHANGED <<pull_vars, udp, used>>
      /\ push_pc = "data_ack" /\ toPusher' = Tail(toPusher)
      /\ pull_RECV_header = "SUCCESS"
  BY DEF PushChunkAck
<1>2. /\ toPusher # << >> /\ toPusher \in Seq(RecvPackets) /\ src \in Files
      /\ push_seq \in 1..conf.chcount /\ pull_seq \in Nat
      /\ push_try \in 1..PushTry /\ pull_try \in 1..PullTry
  BY <1>1, RecvHeader
  DEF Sound, IInv, TypeInv, TypeOK, NetTypeOK, PullTypeOK, PushTypeOK, PushRange
<1>3. ChunkPhase(toPusher, PushTry - push_try)
  BY <1>1 DEF Sound, IInv, InStep, PushTransferView
<1>4. Len(toPusher) = 1
  <2>1. Len(toPusher) <= 1
    BY <1>1, BothThere DEF Underway, Alternating
  <2>2. Len(toPusher) \in Nat /\ Len(toPusher) # 0
    BY <1>2, LenProperties, EmptySeq
  <2>3. \A n \in Nat : n <= 1 /\ n # 0 => n = 1
    OBVIOUS
  <2> QED
    BY <2>1, <2>2, <2>3, Zenon
<1>5. toPusher' = << >>
  <2>1. Tail(toPusher) \in Seq(RecvPackets) /\ Len(Tail(toPusher)) = 0
    BY <1>2, <1>4, HeadTailProperties
  <2> QED
    BY <1>1, <2>1, EmptySeq
<1>6. Underway
  BY BothThere
<1>7. Head(toPusher) = toPusher[1] /\ 1 \in 1..Len(toPusher)
  BY <1>2, Pop
<1>8. toPusher[1].ack = 1 <=> pull_seq = push_seq + 1
  BY <1>3, <1>4, <1>7, Zenon DEF ChunkPhase
<1>9. CASE toPusher[1].ack = 1
  <2>1. pull_pc \in {"flow", "verify", "done"}
    BY <1>3, <1>8, <1>9 DEF ChunkPhase
  <2>2. PushAccepted
    BY <1>7, <1>9 DEF PushChunkAck
  <2>3. push_pc' \in {"flow", "verify"}
    BY <2>2 DEF PushAccepted
  <2> QED
    BY <1>1, <1>6, <2>1, <2>3, QuietCourse
<1>10. CASE toPusher[1].ack # 1
  <2>1. pull_seq = push_seq /\ pull_pc \in {"data", "chunk_end", "done"}
    BY <1>3, <1>8, <1>10 DEF ChunkPhase
  <2>2. pull_pc = "data"
    <3>1. verdict = "none"
      BY <1>1 DEF Sound, IInv, InStep, PushVerifyView
    <3>2. pull_pc # "done"
      BY <3>1, BothThere
    <3>3. pull_pc # "chunk_end"
      BY <1>1, <1>2, <1>6 DEF Underway, Alternating
    <3> QED
      BY <2>1, <3>2, <3>3
  <2>3. udp = << >> /\ pull_rsize = chunk_size_of(conf, pull_seq)
    BY <1>1, <1>2, <1>6, <2>2 DEF Underway, Flowing
  \* The tries used up so far are those damage has cost, and it has cost fewer
  \* than the pusher has.
  <2>4. (PushTry - push_try) + Len(toPusher) = PullTry - pull_try
    BY <1>3, <2>2 DEF ChunkPhase
  <2>5. PullTry - pull_try <= Damage /\ Damage < PushTry /\ Damage \in Nat
    <3>1. PullTry - pull_try <= Damage
      BY <1>6, <2>2 DEF Underway, Accounted
    <3>2. Damage < PushTry
      BY DEF Sound, Tolerable, Damage
    <3>3. used["corrupt"] \in Nat /\ used["reorder"] \in Nat
      BY DEF Sound, IInv, TypeInv, TypeOK, NetTypeOK, Kinds
    <3> QED
      BY <3>1, <3>2, <3>3 DEF Damage
  <2>6. push_try # 1
    BY <1>2, <1>4, <2>4, <2>5
  <2>7. PushChunk(push_try - 1)
    BY <1>7, <1>10, <2>6 DEF PushChunkAck, PushRetry
  <2> QED
    BY <1>1, <1>2, <1>5, <1>6, <2>2, <2>3, <2>7, SendingBegins
<1> QED
  BY <1>9, <1>10

\* While the puller receives a chunk the pusher is at that chunk.
LEMMA PusherAtChunk ==
  ASSUME Sound, pull_pc \in {"data", "chunk_end"}
  PROVE  /\ push_pc \in {"flow_ack", "data", "data_ack"}
         /\ pull_seq = push_seq /\ verdict = "none" /\ pull_file # << >>
<1>1. pull_file # << >> /\ verdict = "none" /\ pull_seq = push_seq
  BY DEF Sound, IInv, InStep, PullFile, Paced
<1>2. push_pc \in PushPCs \ {"open", "connect", "send", "done"}
  BY <1>1, BothThere DEF Sound, IInv, TypeInv, TypeOK, PushTypeOK
<1>3. push_pc \notin {"send_ack", "start_data", "flow"}
  BY DEF Sound, IInv, InStep, PushHandshakeView, PushTransferView
<1>4. push_pc \notin {"verify", "verify_ack", "end"}
  BY <1>1 DEF Sound, IInv, InStep, PushVerifyView
<1> QED
  BY <1>1, <1>2, <1>3, <1>4 DEF PushPCs

\* The pusher's position is behind the segments on the way.
LEMMA PusherAhead ==
  ASSUME Sound, push_pc = "data"
  PROVE  /\ pull_pc = "data" /\ toPusher = << >> /\ pull_seq = push_seq
         /\ push_rsize = pull_rsize - Len(udp) * segsize_of(conf)
         /\ push_pos = pull_pos + Len(udp) * segsize_of(conf)
         /\ Len(udp) * segsize_of(conf) \in Nat /\ Len(udp) \in Nat
         /\ push_rsize \in Nat /\ push_rsize > 0 /\ push_pos \in Nat
         /\ pull_rsize \in Nat /\ pull_pos \in Nat
         /\ push_seq \in 1..conf.chcount
<1>1. pull_file # << >>
  BY DEF Sound, IInv, InStep, PushVerifyView
<1>2. pull_pc = "data" /\ toPusher = << >>
  BY <1>1, BothThere DEF Underway, Alternating
<1>3. push_rsize = pull_rsize - Len(udp) * segsize_of(conf)
  BY <1>1, <1>2, BothThere DEF Underway, Flowing
<1>4. pull_seq = push_seq
  BY <1>2 DEF Sound, Paced
<1>5. /\ Within(push_seq, push_pos, push_rsize) /\ push_rsize > 0
      /\ Within(push_seq, pull_pos, pull_rsize)
  BY <1>2, <1>4 DEF Sound, Placed, SendLayout, RecvLayout
<1>6. /\ push_rsize \in Nat /\ push_pos \in Nat /\ pull_rsize \in Nat
      /\ pull_pos \in Nat /\ udp \in Seq(Seq(Byte)) /\ src \in Files
      /\ push_seq \in 1..conf.chcount
  BY DEF Sound, IInv, TypeInv, TypeOK, PushTypeOK, PullTypeOK, NetTypeOK,
     PushRange
<1>7. Len(udp) \in Nat /\ segsize_of(conf) \in Nat
  BY <1>6, LenProperties, SegSize
<1>8. Len(udp) * segsize_of(conf) \in Nat
  BY <1>7, OneMore
<1>9. push_pos + push_rsize = pull_pos + pull_rsize
  BY <1>5 DEF Within
<1>10. push_pos = pull_pos + Len(udp) * segsize_of(conf)
  <2> DEFINE e == Len(udp) * segsize_of(conf)
  <2>1. push_rsize = pull_rsize - e /\ e \in Nat
    BY <1>3, <1>8
  <2> HIDE DEF e
  <2>2. push_pos = pull_pos + e
    BY <1>6, <1>9, <2>1
  <2> QED
    BY <2>2 DEF e
<1> QED
  BY <1>2, <1>3, <1>4, <1>5, <1>6, <1>7, <1>8, <1>10

\* One more segment is on the way, and it is the one the puller will wait for.
LEMMA SegmentCourse ==
  ASSUME Sound, pull_file # << >>, PushSegment
  PROVE  Underway'
<1> DEFINE S == segsize_of(conf)
           d == Len(udp)
           n == segment_size(S, push_rsize)
           sent == mfread(src, push_pos, n)
           e == d * S
<1>1. /\ src' = src /\ UNCHANGED <<pull_vars, toPusher, used>>
      /\ push_pc = "data" /\ push_rsize' = push_rsize - n
      /\ push_pc' = IF push_rsize = n THEN "data_ack" ELSE "data"
  BY DEF PushSegment, tcp_vars
<1>2. /\ pull_pc = "data" /\ toPusher = << >> /\ pull_seq = push_seq
      /\ push_rsize = pull_rsize - e /\ push_pos = pull_pos + e
      /\ e \in Nat /\ d \in Nat /\ push_rsize \in Nat /\ push_rsize > 0
      /\ push_pos \in Nat /\ pull_rsize \in Nat /\ pull_pos \in Nat
  BY <1>1, PusherAhead
<1>3. Underway
  BY BothThere
<1>4. /\ src \in Files /\ src \in Seq(Byte) /\ udp \in Seq(Seq(Byte))
      /\ S \in Nat \ {0}
  BY SegSize DEF Sound, IInv, TypeInv, TypeOK, NetTypeOK
<1>5. conf' = conf
  BY <1>1 DEF conf
<1>6. n \in Nat /\ n > 0 /\ n <= push_rsize
  BY <1>2, <1>4, SegmentStep
<1>7. n <= S /\ (n # push_rsize => n = S)
  BY <1>2, <1>4 DEF segment_size
<1>8. udp' = Append(udp, sent)
  BY <1>2 DEF PushSegment, DataSocketOpen
<1>9. sent \in Seq(Byte) /\ Len(sent) = n
  <2>1. sent \in Seq(Byte)
    BY <1>2, <1>4, <1>6, MFileTypes
  <2>2. DOMAIN sent = 1..n
    BY DEF mfread
  <2> QED
    BY <1>6, <2>1, <2>2, LenProperties
<1>10. /\ Len(udp') = d + 1 /\ udp'[d + 1] = sent
       /\ \A j \in 1..d : udp'[j] = udp[j]
  BY <1>4, <1>8, <1>9, AppendProperties
<1>11. (d + 1) * S = e + S
  BY <1>2, <1>4, OneMore
<1>12. (d + 1) - 1 = d
  BY <1>2
<1>13. SegmentSize(d + 1) = n /\ Segment(d + 1) = sent
  BY <1>2, <1>12 DEF SegmentSize, Segment
<1>14. \A j : SegmentSize(j)' = SegmentSize(j) /\ Segment(j)' = Segment(j)
  BY <1>1, <1>5 DEF SegmentSize, Segment, pull_vars
<1> HIDE DEF S, d, n, sent, e
<1>15. \A j \in 1..(d + 1) : j \in 1..d \/ j = d + 1
  BY <1>2
<1>16. \A j \in 1..d : (j - 1) * S < pull_rsize /\ Len(udp[j]) = SegmentSize(j)
  BY <1>2, <1>3 DEF Underway, Flowing, S, d
<1>17. e < pull_rsize
  BY <1>2
<1>18. \A j \in 1..Len(udp') :
         (j - 1) * S < pull_rsize /\ Len(udp'[j]) = SegmentSize(j)
  <2> TAKE j \in 1..Len(udp')
  <2>1. CASE j \in 1..d
    BY <1>10, <1>16, <2>1
  <2>2. CASE j = d + 1
    BY <1>9, <1>10, <1>12, <1>13, <1>17, <2>2 DEF e
  <2> QED
    BY <1>10, <1>15, <2>1, <2>2
<1>19. push_pc' = "data" => push_rsize' = pull_rsize - Len(udp') * S
  <2> SUFFICES ASSUME push_pc' = "data"
               PROVE  push_rsize' = pull_rsize - (d + 1) * S
    BY <1>10
  <2>1. n = S
    BY <1>1, <1>7
  <2> QED
    BY <1>1, <1>2, <1>4, <1>6, <1>11, <2>1
<1>20. push_pc' = "data_ack" => pull_rsize <= Len(udp') * S
  <2> SUFFICES ASSUME push_pc' = "data_ack"
               PROVE  pull_rsize <= (d + 1) * S
    BY <1>10
  <2>1. n = push_rsize
    BY <1>1
  <2> QED
    BY <1>2, <1>4, <1>6, <1>7, <1>11, <2>1
<1>21. chunk_size_of(conf, pull_seq) % S = 0 =>
         \E k \in 0..pull_rsize : pull_rsize = k * S
  BY <1>2, <1>3 DEF Underway, Flowing, S
<1>22. pull_pc' = "data" /\ pull_rsize' = pull_rsize /\ pull_seq' = pull_seq
       /\ toPusher' = << >> /\ push_pc' \in {"data", "data_ack"}
  BY <1>1, <1>2 DEF pull_vars
<1>23. segsize_of(conf)' = S
  BY <1>5 DEF S
<1>24. chunk_size_of(conf, pull_seq)' = chunk_size_of(conf, pull_seq)
  BY <1>5, <1>22
<1>25. Flowing'
  BY <1>14, <1>18, <1>19, <1>20, <1>21, <1>22, <1>23, <1>24 DEF Flowing
<1>26. Lasting' /\ Alternating'
  BY <1>3, <1>1, <1>22 DEF Underway, Lasting, Alternating, pull_vars
<1>27. Settled'
  BY <1>1, <1>3, <1>5 DEF Underway, Settled, Covers, pull_vars
<1>28. Undamaged => Undamaged'
  <2> SUFFICES ASSUME Undamaged PROVE Undamaged'
    OBVIOUS
  <2>1. \A j \in 1..Len(udp') : udp'[j] = Segment(j)
    <3> TAKE j \in 1..Len(udp')
    <3>1. CASE j \in 1..d
      BY <1>10, <3>1 DEF Undamaged, d
    <3>2. CASE j = d + 1
      BY <1>10, <1>13, <3>2
    <3> QED
      BY <1>10, <1>15, <3>1, <3>2
  <2>2. \A i \in 1..Len(src) :
          start_pos(conf, pull_seq) < i /\ i <= pull_pos => pull_file[i] = src[i]
    BY DEF Undamaged
  <2> QED
    BY <1>1, <1>5, <1>14, <2>1, <2>2 DEF Undamaged, pull_vars
<1>29. Accounted'
  BY <1>1, <1>2, <1>3, <1>28 DEF Underway, Accounted, Damage, pull_vars
<1> QED
  BY <1>25, <1>26, <1>27, <1>29 DEF Underway

\* Every step of the pusher.
LEMMA PusherCourse ==
  ASSUME Sound, Patient, pull_file # << >>, Pusher
  PROVE  Underway'
<1>1. Underway /\ push_pc \notin {"open", "connect", "send"}
  BY BothThere
<1>2. src' = src /\ UNCHANGED pull_vars
  BY DEF Pusher, PushOpen, PushConnect, PushHandshake, PushHandshakeAck,
     PushStartData, PushFlow, PushFlowAck, PushSegment, PushChunkAck,
     PushVerify, PushVerifyAck, PushEnd, PushHeaderError, PushTimeout, PushReset
<1>3. CASE PushHandshakeAck
  <2>1. toPusher # << >> /\ toPusher[1].ack = 1
        /\ pull_pc \notin {"data", "chunk_end"}
    BY <1>1, <1>3, RecvHeader
    DEF Sound, IInv, TypeInv, InStep, PushHandshakeView, PushHandshakeAck,
        Underway, Lasting
  <2>2. Head(toPusher) = toPusher[1]
    BY <2>1, Pop DEF Sound, IInv, TypeInv, TypeOK, NetTypeOK
  <2>3. push_pc' = "start_data" /\ UNCHANGED <<udp, used>>
    BY <1>3, <2>1, <2>2 DEF PushHandshakeAck
  <2> QED
    BY <1>1, <1>2, <2>1, <2>3, QuietCourse
<1>4. CASE PushStartData
  <2>1. pull_pc \notin {"data", "chunk_end"}
    BY <1>4 DEF Sound, IInv, InStep, PushTransferView, PushStartData
  <2>2. push_pc' \in {"flow", "verify"} /\ UNCHANGED <<udp, used>>
    BY <1>4 DEF PushStartData
  <2> QED
    BY <1>1, <1>2, <2>1, <2>2, QuietCourse
<1>5. CASE PushFlow
  <2>1. pull_pc \notin {"data", "chunk_end"} /\ toPusher = << >>
    BY <1>5 DEF Sound, IInv, InStep, PushTransferView, PushFlow, Quiet
  <2>2. push_pc' = "flow_ack" /\ UNCHANGED <<udp, used, toPusher>>
    BY <1>5 DEF PushFlow, PushGoto
  <2>3. Len(toPusher') <= 1
    BY <2>1, <2>2
  <2> QED
    BY <1>1, <1>2, <2>1, <2>2, <2>3, QuietCourse
<1>6. CASE PushVerify
  <2>1. pull_pc \notin {"data", "chunk_end"}
    BY <1>6 DEF Sound, IInv, InStep, PushVerifyView, PushVerify
  <2>2. push_pc' = "verify_ack" /\ UNCHANGED <<udp, used>>
    BY <1>6 DEF PushVerify, PushGoto
  <2> QED
    BY <1>1, <1>2, <2>1, <2>2, QuietCourse
<1>7. CASE PushVerifyAck
  <2>1. toPusher # << >> /\ pull_pc \notin {"data", "chunk_end"}
        /\ verdict # "none" /\ (toPusher[1].ack = 1 <=> verdict = "match")
    BY <1>7, RecvHeader
    DEF Sound, IInv, TypeInv, InStep, PushVerifyView, PushVerifyAck
  <2>2. Head(toPusher) = toPusher[1]
    BY <2>1, Pop DEF Sound, IInv, TypeInv, TypeOK, NetTypeOK
  <2>3. verdict = "match"
    BY <1>1, <2>1 DEF Underway, Lasting
  <2>4. push_pc' = "end" /\ UNCHANGED <<udp, used>>
    BY <1>7, <2>1, <2>2, <2>3 DEF PushVerifyAck, PushGoto
  <2> QED
    BY <1>1, <1>2, <2>1, <2>4, QuietCourse
<1>8. CASE PushEnd
  <2>1. verdict # "none"
    BY <1>8 DEF Sound, IInv, InStep, PushVerifyView, PushEnd
  <2>2. pull_pc \notin {"data", "chunk_end"}
    BY <2>1 DEF Sound, IInv, InStep, PullFile
  <2>3. push_pc' = "done" /\ push_stat' = "SUCCESS" /\ UNCHANGED <<udp, used>>
    BY <1>8 DEF PushEnd, PushReturn
  <2> QED
    BY <1>1, <1>2, <2>2, <2>3, QuietCourse
<1>9. ~PushOpen /\ ~PushConnect /\ ~PushHandshake
  BY <1>1 DEF PushOpen, PushConnect, PushHandshake
<1> QED
  BY <1>3, <1>4, <1>5, <1>6, <1>7, <1>8, <1>9, FlowAckCourse, SegmentCourse,
     ChunkAckCourse, NobodyGivesUp
  DEF Pusher

-----------------------------------------------------------------------------
(***************************************************************************)
(* The puller stays on its course.                                         *)
(***************************************************************************)
\* A number is not above its multiples.
LEMMA MultipleBound ==
  ASSUME NEW k \in Nat, NEW b \in Nat \ {0}
  PROVE  k <= k * b /\ k * b \in Nat
<1>1. 1 * k <= b * k /\ b * k \in Nat
  BY Monotone
<1> QED
  BY <1>1

\* What leaves no remainder is a multiple.
LEMMA MultipleOf ==
  ASSUME NEW a \in Nat, NEW b \in Nat \ {0}, a % b = 0
  PROVE  \E k \in 0..a : a = k * b
<1> DEFINE k == a \div b
<1>1. k \in Nat /\ a % b = a - k * b
  BY Div, ModDiv
<1> HIDE DEF k
<1>2. k * b \in Nat /\ k <= k * b
  BY <1>1, MultipleBound
<1>3. a = k * b
  BY <1>1, <1>2
<1> QED
  BY <1>1, <1>2, <1>3

\* The puller begins to receive a chunk, for the first time or again.
LEMMA ReceivingBegins ==
  ASSUME Sound, Settled, src' = src, UNCHANGED <<push_vars, udp, used>>,
         pull_file # << >>, verdict = "none", pull_conf = conf,
         pull_seq \in 1..conf.chcount, pull_seq = push_seq, udp = << >>,
         push_pc \in {"flow_ack", "data_ack"},
         push_pc = "data_ack" => chunk_size_of(conf, pull_seq) # 0,
         Len(toPusher') = 1, toPusher' # << >>,
         NEW try \in 1..PullTry, PullTry - try <= Damage,
         NEW crc, PullChunk(try, crc)
  PROVE  Underway'
<1> DEFINE size == chunk_size_of(conf, pull_seq)
           S == segsize_of(conf)
<1>1. /\ src \in Files /\ Len(pull_file) = Len(src) /\ conf' = conf
      /\ S \in Nat \ {0} /\ size \in Nat
  BY NotEmpty, SegSize, ChunkInFile DEF Sound, IInv, TypeInv, TypeOK, conf
<1>2. start_pos(conf, pull_seq) < Len(pull_file)
  BY <1>1, SeekFinds DEF Sound, Deliverable
<1>3. /\ pull_pc' = (IF size = 0 THEN "chunk_end" ELSE "data")
      /\ pull_pos' = start_pos(conf, pull_seq) /\ pull_rsize' = size
      /\ pull_try' = try /\ UNCHANGED <<pull_seq, pull_file, verdict>>
  BY <1>2 DEF PullChunk, mfseek
<1>4. size % S = 0 => \E k \in 0..size : size = k * S
  BY <1>1, MultipleOf
<1>5. segsize_of(conf)' = S /\ chunk_size_of(conf, pull_seq)' = size
      /\ start_pos(conf, pull_seq)' = start_pos(conf, pull_seq)
  BY <1>1, <1>3
<1>6. push_pc' = push_pc /\ udp' = << >> /\ used' = used
  BY DEF push_vars
<1>7. Lasting'
  BY <1>3, <1>6 DEF Lasting
<1>8. Alternating'
  BY <1>3, <1>5, <1>6 DEF Alternating
<1>9. Flowing'
  BY <1>3, <1>4, <1>5, <1>6 DEF Flowing
<1>10. Undamaged'
  <2>1. \A i \in 1..Len(src) :
          ~(start_pos(conf, pull_seq) < i /\ i <= start_pos(conf, pull_seq))
    BY <1>1, ChunkInFile
  <2> QED
    BY <1>3, <1>5, <1>6, <2>1 DEF Undamaged
<1>11. Accounted'
  BY <1>3, <1>6, <1>10 DEF Accounted, Damage
<1>12. \A q, i : Covers(q, i)' <=> Covers(q, i)
  BY <1>1 DEF Covers
<1>13. pull_pc' \in {"data", "chunk_end"} /\ Len(src)' = Len(src)
  BY <1>3
<1>14. ASSUME NEW q \in 1..(pull_seq - 1), NEW i \in 1..Len(src), Covers(q, i)
       PROVE  pull_file[i] = src[i] \/ Covers(pull_seq, i)
  BY <1>14 DEF Settled
<1>15. Settled'
  BY <1>1, <1>3, <1>12, <1>13, <1>14 DEF Settled, Covers
<1> QED
  BY <1>7, <1>8, <1>9, <1>11, <1>15 DEF Underway

\* A FLOW packet announces the chunk the puller expects.
LEMMA FlowCourse ==
  ASSUME Sound, pull_file # << >>, PullFlow
  PROVE  Underway'
<1>1. /\ src' = src /\ UNCHANGED <<push_vars, udp, used>> /\ pull_pc = "flow"
      /\ toPuller # << >>
  BY DEF PullFlow, pull_FLOW_header, header_status
<1>2. /\ pull_conf = conf /\ pull_seq \in 1..conf.chcount /\ pull_try = PullTry
      /\ verdict = "none" /\ toPuller = <<FlowOf(pull_seq)>> /\ pull_seq = push_seq
  BY <1>1 DEF Sound, IInv, InStep, PullRange, PullFile, PullQueue, Paced
<1>3. Head(toPuller) = FlowOf(pull_seq)
  BY <1>2, Single
<1>4. match_flow(Head(toPuller))
  BY <1>2, <1>3 DEF match_flow, FlowOf, FLOW
<1>5. push_pc = "flow_ack" /\ toPusher = << >>
  <2>1. push_pc \in PushPCs \ {"open", "connect", "send", "done"}
    BY <1>2, BothThere DEF Sound, IInv, TypeInv, TypeOK, PushTypeOK
  <2>2. push_pc # "send_ack"
    BY <1>1 DEF Sound, IInv, InStep, PushHandshakeView
  <2>3. push_pc \notin {"start_data", "flow", "data", "data_ack"}
    BY <1>1 DEF Sound, IInv, InStep, PushTransferView, Quiet
  <2>4. push_pc \notin {"verify", "verify_ack", "end"}
    BY <1>1, <1>2 DEF Sound, IInv, InStep, PushVerifyView
  <2>5. push_pc = "flow_ack"
    BY <2>1, <2>2, <2>3, <2>4 DEF PushPCs
  <2> QED
    BY <1>1, <2>5 DEF Sound, IInv, InStep, PushTransferView
<1>6. Underway
  BY BothThere
<1>7. udp = << >> /\ Settled
  BY <1>1, <1>6 DEF Underway, Flowing
<1>8. toPusher' = <<RECV(1, pull_seq)>>
  BY <1>4, <1>5 DEF PullFlow, push_RECV_header
<1>9. Len(toPusher') = 1 /\ toPusher' # << >>
  BY <1>8, Single
<1>10. PullTry - PullTry <= Damage /\ PullTry \in 1..PullTry
  <2>1. used["corrupt"] \in Nat /\ used["reorder"] \in Nat
    BY DEF Sound, IInv, TypeInv, TypeOK, NetTypeOK, Kinds
  <2> QED
    BY <2>1 DEF Damage
<1>11. PullChunk(PullTry, Head(toPuller).crc)
  BY <1>2, <1>4 DEF PullFlow
<1> QED
  BY <1>1, <1>2, <1>5, <1>7, <1>9, <1>10, <1>11, ReceivingBegins

\* The chunk as received is the chunk as sent when its bytes are.
LEMMA ChunkFromBytes ==
  ASSUME src \in Files, NEW f \in Seq(Byte), Len(f) = Len(src),
         NEW q \in 1..conf.chcount
  PROVE  chunk(f, q) = chunk(src, q) <=>
           \A i \in 1..Len(src) : Covers(q, i) => f[i] = src[i]
<1> DEFINE pos == start_pos(conf, q)
           size == chunk_size_of(conf, q)
<1>1. /\ pos \in Nat /\ size \in Nat /\ pos + size <= Len(src)
      /\ Len(src) \in Nat
  BY ChunkInFile, LenProperties
<1>2. /\ chunk(f, q) = [k \in 1..size |-> IF pos + k <= Len(f) THEN f[pos + k] ELSE 0]
      /\ chunk(src, q) =
           [k \in 1..size |-> IF pos + k <= Len(src) THEN src[pos + k] ELSE 0]
  BY DEF chunk, mfread
<1>3. \A i : Covers(q, i) <=> pos < i /\ i <= pos + size
  BY DEF Covers
<1> HIDE DEF pos, size
<1>4. \A k \in 1..size : pos + k <= Len(src) /\ pos + k \in 1..Len(src)
  BY <1>1
<1>5. /\ chunk(f, q) = [k \in 1..size |-> f[pos + k]]
      /\ chunk(src, q) = [k \in 1..size |-> src[pos + k]]
  BY <1>2, <1>4
<1>6. ASSUME chunk(f, q) = chunk(src, q), NEW i \in 1..Len(src), Covers(q, i)
      PROVE  f[i] = src[i]
  <2>1. i - pos \in 1..size /\ pos + (i - pos) = i
    BY <1>1, <1>3, <1>6
  <2>2. chunk(f, q)[i - pos] = f[i] /\ chunk(src, q)[i - pos] = src[i]
    BY <1>5, <2>1
  <2> QED
    BY <1>6, <2>2
<1>7. ASSUME \A i \in 1..Len(src) : Covers(q, i) => f[i] = src[i]
      PROVE  chunk(f, q) = chunk(src, q)
  <2>1. \A k \in 1..size : Covers(q, pos + k)
    BY <1>1, <1>3
  <2>2. \A k \in 1..size : f[pos + k] = src[pos + k]
    BY <1>4, <1>7, <2>1
  <2> QED
    BY <1>5, <2>2
<1> QED
  BY <1>6, <1>7

\* The segments behind the first are those that follow a full one.
LEMMA SegmentShift ==
  ASSUME NEW S \in Nat \ {0}, NEW r \in Nat, NEW j \in Nat \ {0}, j * S < r
  PROVE  /\ (j - 1) * S < r - S
         /\ segment_size(S, (r - S) - (j - 1) * S) = segment_size(S, r - j * S)
         /\ \A p \in Nat : (p + S) + (j - 1) * S = p + j * S
<1> DEFINE e == (j - 1) * S
<1>1. e \in Nat /\ j * S = e + S
  <2>1. ((j - 1) + 1) * S = (j - 1) * S + S /\ (j - 1) * S \in Nat
    BY OneMore
  <2> QED
    BY <2>1
<1> HIDE DEF e
<1>2. e < r - S /\ (r - S) - e = r - j * S /\ \A p \in Nat : (p + S) + e = p + j * S
  BY <1>1
<1> QED
  BY <1>2 DEF e

\* A segment is received: the first of those on the way, of the size the puller
\* waits for.
LEMMA FirstSegment ==
  ASSUME Sound, pull_file # << >>, PullSegment
  PROVE  LET n == segment_size(segsize_of(conf), pull_rsize)
         IN  /\ Len(Head(udp)) = n /\ Head(udp) = udp[1]
             /\ Segment(1) = mfread(src, pull_pos, n)
             /\ pull_pc' # "done"
<1> DEFINE S == segsize_of(conf)
           n == segment_size(S, pull_rsize)
<1>1. /\ pull_pc = "data" /\ udp # << >> /\ udp \in Seq(Seq(Byte))
      /\ S \in Nat \ {0} /\ pull_rsize \in Nat /\ pull_pos \in Nat
      /\ pull_conf = conf
  BY SegSize
  DEF PullSegment, Sound, IInv, TypeInv, TypeOK, NetTypeOK, PullTypeOK, InStep,
      PullRange
<1>2. 1 \in 1..Len(udp) /\ Head(udp) = udp[1]
  BY <1>1, Pop
<1>3. Len(udp[1]) = SegmentSize(1)
  BY <1>1, <1>2, BothThere DEF Underway, Flowing
<1>4. (1 - 1) * S = 0
  BY <1>1
<1>5. pull_rsize - 0 = pull_rsize /\ pull_pos + 0 = pull_pos
  BY <1>1
<1>6. SegmentSize(1) = n /\ Segment(1) = mfread(src, pull_pos, n)
  BY <1>4, <1>5 DEF SegmentSize, Segment
<1>7. n \in Nat
  BY <1>1 DEF segment_size
<1>8. ~(Len(Head(udp)) < n)
  BY <1>2, <1>3, <1>6, <1>7
<1>9. pull_pc' # "done"
  BY <1>1, <1>8 DEF PullSegment
<1> QED
  BY <1>2, <1>3, <1>6, <1>9

\* The bytes of the file after a segment was written.
LEMMA FileAfterSegment ==
  ASSUME Sound, pull_file # << >>, PullSegment
  PROVE  LET n == segment_size(segsize_of(conf), pull_rsize)
         IN  /\ \A i \in 1..Len(src) :
                  ~(pull_pos < i /\ i <= pull_pos + n) =>
                    pull_file'[i] = pull_file[i]
             /\ \A i \in 1..Len(src) :
                  pull_pos < i /\ i <= pull_pos + n => Covers(pull_seq, i)
             /\ udp[1] = Segment(1) =>
                  \A i \in 1..Len(src) :
                    pull_pos < i /\ i <= pull_pos + n => pull_file'[i] = src[i]
             /\ pull_file' # << >>
<1> DEFINE n == segment_size(segsize_of(conf), pull_rsize)
           data == [i \in 1..n |-> Head(udp)[i]]
<1>1. /\ Len(Head(udp)) = n /\ Head(udp) = udp[1] /\ pull_pc' # "done"
      /\ Segment(1) = mfread(src, pull_pos, n)
  BY FirstSegment
<1>2. /\ IInv /\ RecvLayout /\ src \in Files /\ src \in Seq(Byte)
      /\ pull_pos \in Nat /\ pull_rsize \in Nat /\ pull_file \in Seq(Byte)
      /\ pull_seq \in 1..conf.chcount /\ Within(pull_seq, pull_pos, pull_rsize)
  BY DEF Sound, Placed, IInv, TypeInv, TypeOK, PullTypeOK, InStep, PullRange,
     RecvLayout, PullSegment
<1>3. /\ n \in Nat /\ n <= pull_rsize /\ Head(udp) \in Seq(Byte)
      /\ pull_file' = mfwrite(pull_file, pull_pos, data)
  BY <1>1, <1>2, SegmentWritten
<1>4. data \in Seq(Byte) /\ Len(data) = n
  <2>1. \A i \in 1..n : Head(udp)[i] \in Byte
    BY <1>1, <1>3, ElementOfSeq
  <2>2. data \in [1..n -> Byte]
    BY <2>1
  <2> QED
    BY <1>3, <2>2, FunctionIsSeq
<1>5. Len(pull_file) = Len(src) /\ Len(src) \in Nat \ {0}
  BY <1>2, NotEmpty
<1>6. pull_file' \in Seq(Byte) /\ Len(pull_file') = Len(src)
  BY <1>2, <1>3, <1>4, <1>5, WriteTypes
<1>7. pull_file' # << >>
  BY <1>5, <1>6
<1>8. \A k \in 1..n : data[k] = Head(udp)[k]
  OBVIOUS
<1> HIDE DEF n, data
<1>9. \A i \in 1..Len(src) :
        pull_file'[i] = IF pull_pos < i /\ i <= pull_pos + n
                        THEN data[i - pull_pos] ELSE pull_file[i]
  BY <1>3, <1>4, <1>5 DEF mfwrite
<1>10. \A i \in 1..Len(src) :
         pull_pos < i /\ i <= pull_pos + n => Covers(pull_seq, i)
  <2>1. /\ start_pos(conf, pull_seq) \in Nat
        /\ chunk_size_of(conf, pull_seq) \in Nat
    BY <1>2, ChunkInFile
  <2> QED
    BY <1>2, <1>3, <1>5, <2>1 DEF Covers, Within
<1>11. ASSUME udp[1] = Segment(1), NEW i \in 1..Len(src), pull_pos < i,
              i <= pull_pos + n
       PROVE  pull_file'[i] = src[i]
  <2>1. i - pull_pos \in 1..n /\ pull_pos + (i - pull_pos) = i /\ i <= Len(src)
    BY <1>2, <1>3, <1>5, <1>11
  <2>2. Head(udp) = mfread(src, pull_pos, n)
    BY <1>1, <1>11
  <2>3. Head(udp)[i - pull_pos] = src[i]
    BY <2>1, <2>2 DEF mfread
  <2> QED
    BY <1>8, <1>9, <1>11, <2>1, <2>3
<1> QED
  BY <1>7, <1>9, <1>10, <1>11 DEF n

\* The puller moves on by the segment, and the others move up.
LEMMA ReceiveCourse ==
  ASSUME Sound, pull_file # << >>, PullSegment
  PROVE  Underway'
<1> DEFINE S == segsize_of(conf)
           n == segment_size(S, pull_rsize)
           d == Len(udp)
           start == start_pos(conf, pull_seq)
<1>1. /\ src' = src /\ UNCHANGED <<push_vars, toPusher, used>>
      /\ pull_pc = "data" /\ udp # << >> /\ udp' = Tail(udp)
  BY DEF PullSegment, tcp_vars
<1>2. /\ IInv /\ RecvLayout /\ src \in Files /\ S \in Nat \ {0}
      /\ pull_pos \in Nat /\ pull_rsize \in Nat /\ pull_rsize > 0
      /\ udp \in Seq(Seq(Byte)) /\ conf' = conf
  BY <1>1, SegSize
  DEF Sound, Placed, IInv, TypeInv, TypeOK, PullTypeOK, NetTypeOK, RecvLayout,
      conf
<1>3. /\ Underway /\ verdict = "none" /\ pull_seq = push_seq
      /\ push_pc \in {"flow_ack", "data", "data_ack"}
  BY <1>1, BothThere, PusherAtChunk
<1>4. /\ pull_pc' # "done" /\ Len(Head(udp)) = n /\ Head(udp) = udp[1]
  BY FirstSegment
<1>5. /\ n \in Nat /\ n > 0 /\ n <= pull_rsize
      /\ pull_pos' = pull_pos + n /\ pull_rsize' = pull_rsize - n
      /\ pull_pc' = (IF pull_rsize = n THEN "chunk_end" ELSE "data")
      /\ pull_seq' = pull_seq
  BY <1>2, <1>4, SegmentWritten
<1>6. UNCHANGED <<pull_stat, pull_try, verdict>>
  BY <1>4 DEF PullSegment, PullReturn
<1>7. /\ d \in Nat \ {0} /\ udp' \in Seq(Seq(Byte)) /\ Len(udp') = d - 1
      /\ \A j \in 1..(d - 1) : udp'[j] = udp[j + 1]
  <2>1. d \in Nat /\ d # 0
    BY <1>1, <1>2, LenProperties, EmptySeq
  <2> QED
    BY <1>1, <1>2, <2>1, HeadTailProperties
<1>8. \A j \in 1..d : (j - 1) * S < pull_rsize /\ Len(udp[j]) = SegmentSize(j)
  BY <1>1, <1>3 DEF Underway, Flowing
<1>9. push_pc # "flow_ack" /\ (push_pc = "data_ack" => toPusher = << >>)
  BY <1>1, <1>3 DEF Underway, Flowing
<1>10. push_pc = "data" => toPusher = << >>
  BY <1>3 DEF Underway, Alternating
<1>11. push_pc = "data" => push_rsize = pull_rsize - d * S
  BY <1>1, <1>3 DEF Underway, Flowing
<1>12. push_pc = "data_ack" => pull_rsize <= d * S
  BY <1>1, <1>3, <1>9 DEF Underway, Flowing
<1>13. n = S \/ (n = pull_rsize /\ pull_rsize < S)
  BY <1>2 DEF segment_size
<1>14. d * S = (d - 1) * S + S /\ (d - 1) * S \in Nat
  <2> HIDE DEF S, d
  <2>1. d - 1 \in Nat /\ (d - 1) + 1 = d
    BY <1>7
  <2>2. ((d - 1) + 1) * S = (d - 1) * S + S /\ (d - 1) * S \in Nat
    BY <1>2, <2>1, OneMore
  <2> QED
    BY <2>1, <2>2
<1>15. push_pc = "data" => push_rsize > 0 /\ push_rsize \in Nat
  BY DEF Sound, Placed, SendLayout, IInv, TypeInv, TypeOK, PushTypeOK
<1>16. /\ segsize_of(conf)' = S
       /\ chunk_size_of(conf, pull_seq)' = chunk_size_of(conf, pull_seq)
       /\ start_pos(conf, pull_seq)' = start /\ Len(src)' = Len(src)
  BY <1>1, <1>2, <1>5
<1>17. push_pc' = push_pc /\ push_rsize' = push_rsize /\ push_stat' = push_stat
       /\ push_seq' = push_seq /\ toPusher' = toPusher
  BY <1>1 DEF push_vars
<1>18. Lasting'
  BY <1>3, <1>4, <1>6, <1>9, <1>17 DEF Lasting
\* The last segment of the chunk: nothing is behind it, and nothing to come.
<1>19. ASSUME pull_rsize = n PROVE Alternating' /\ Flowing'
  <2> HIDE DEF S, n, d
  <2>1. pull_pc' = "chunk_end" /\ pull_rsize <= S
    BY <1>2, <1>5, <1>13, <1>19
  <2>2. d = 1
    <3> SUFFICES ASSUME d # 1 PROVE FALSE
      OBVIOUS
    <3>1. 2 \in 1..d
      BY <1>7
    <3>2. (2 - 1) * S < pull_rsize
      BY <1>8, <3>1
    <3> QED
      BY <1>2, <2>1, <3>2
  <2>3. udp' = << >>
    BY <1>7, <2>2, EmptySeq
  <2>4. push_pc # "data"
    BY <1>2, <1>11, <1>15, <2>1, <2>2
  <2>5. push_pc = "data_ack" /\ toPusher = << >>
    BY <1>3, <1>9, <2>4
  <2>6. Alternating'
    BY <1>17, <2>1, <2>5 DEF Alternating
  <2>7. Flowing'
    BY <2>1, <2>3 DEF Flowing
  <2> QED
    BY <2>6, <2>7
\* A segment before the last is a full one.
<1>20. ASSUME pull_rsize # n PROVE n = S /\ S < pull_rsize /\ pull_pc' = "data"
  <2> HIDE DEF S, n
  <2> QED
    BY <1>2, <1>5, <1>13, <1>20
<1>21. ASSUME pull_rsize # n, NEW j \in 1..(d - 1)
       PROVE  /\ j + 1 \in 1..d /\ (j - 1) * S < pull_rsize'
              /\ SegmentSize(j)' = SegmentSize(j + 1)
              /\ Segment(j)' = Segment(j + 1)
  <2>1. j + 1 \in 1..d /\ (j + 1) - 1 = j /\ j \in Nat \ {0}
    BY <1>7
  <2>2. j * S < pull_rsize
    BY <1>8, <2>1
  <2>3. n = S
    BY <1>20, <1>21
  <2>4. /\ (j - 1) * S < pull_rsize - S
        /\ segment_size(S, (pull_rsize - S) - (j - 1) * S)
             = segment_size(S, pull_rsize - j * S)
        /\ \A p \in Nat : (p + S) + (j - 1) * S = p + j * S
    BY <1>2, <2>1, <2>2, SegmentShift
  <2>5. (pull_pos + S) + (j - 1) * S = pull_pos + j * S
    BY <1>2, <2>4
  <2>6. SegmentSize(j)' = segment_size(S, (pull_rsize - S) - (j - 1) * S)
    BY <1>5, <1>16, <2>3 DEF SegmentSize
  <2>7. SegmentSize(j + 1) = segment_size(S, pull_rsize - j * S)
    BY <2>1 DEF SegmentSize
  <2>8. SegmentSize(j)' = SegmentSize(j + 1)
    BY <2>4, <2>6, <2>7
  <2>9. Segment(j)' = mfread(src, (pull_pos + S) + (j - 1) * S, SegmentSize(j)')
    BY <1>1, <1>5, <1>16, <2>3 DEF Segment
  <2>10. Segment(j + 1) = mfread(src, pull_pos + j * S, SegmentSize(j + 1))
    BY <2>1 DEF Segment
  <2>11. Segment(j)' = Segment(j + 1)
    BY <2>5, <2>8, <2>9, <2>10
  <2> QED
    BY <1>5, <2>1, <2>3, <2>4, <2>8, <2>11
<1>22. ASSUME pull_rsize # n PROVE Alternating' /\ Flowing'
  <2>1. n = S /\ S < pull_rsize /\ pull_pc' = "data"
    BY <1>20, <1>22
  <2>2. \A j \in 1..Len(udp') :
          (j - 1) * S < pull_rsize' /\ Len(udp'[j]) = SegmentSize(j)'
    BY <1>7, <1>8, <1>21, <1>22
  <2>3. Alternating'
    BY <1>3, <1>9, <1>10, <1>17, <2>1 DEF Underway, Alternating
  <2> DEFINE e == (d - 1) * S
  <2>4. d * S = e + S /\ e \in Nat /\ Len(udp') * S = e
    BY <1>7, <1>14
  <2>5. chunk_size_of(conf, pull_seq) % S = 0 =>
          \E k \in 0..pull_rsize : pull_rsize = k * S
    BY <1>1, <1>3 DEF Underway, Flowing
  <2> HIDE DEF S, n, d, e
  <2>6. push_pc = "data" => push_rsize = pull_rsize' - e
    BY <1>2, <1>5, <1>11, <2>1, <2>4
  <2>7. push_pc = "data_ack" => pull_rsize' <= e
    BY <1>2, <1>5, <1>12, <2>1, <2>4
  <2>8. ASSUME chunk_size_of(conf, pull_seq) % S = 0
        PROVE  \E k \in 0..pull_rsize' : pull_rsize' = k * S
    <3>1. PICK k \in 0..pull_rsize : pull_rsize = k * S
      BY <2>5, <2>8
    <3>2. k \in Nat \ {0}
      BY <1>2, <3>1
    <3>3. (k - 1) \in Nat /\ ((k - 1) + 1) * S = (k - 1) * S + S /\ (k - 1) + 1 = k
      BY <1>2, <3>2, OneMore
    <3>4. k - 1 <= (k - 1) * S /\ (k - 1) * S \in Nat
      BY <1>2, <3>3, MultipleBound
    <3>5. pull_rsize' = (k - 1) * S
      BY <1>2, <1>5, <2>1, <3>1, <3>3, <3>4
    <3> QED
      BY <3>3, <3>4, <3>5
  <2>9. Flowing'
    BY <1>9, <1>16, <1>17, <2>1, <2>2, <2>4, <2>6, <2>7, <2>8 DEF Flowing
  <2> QED
    BY <2>3, <2>9
<1>23. /\ \A i \in 1..Len(src) :
            ~(pull_pos < i /\ i <= pull_pos + n) => pull_file'[i] = pull_file[i]
       /\ \A i \in 1..Len(src) :
            pull_pos < i /\ i <= pull_pos + n => Covers(pull_seq, i)
       /\ udp[1] = Segment(1) =>
            \A i \in 1..Len(src) :
              pull_pos < i /\ i <= pull_pos + n => pull_file'[i] = src[i]
  BY FileAfterSegment
<1>24. \A q, i : Covers(q, i)' <=> Covers(q, i)
  BY <1>2 DEF Covers
<1>25. Settled'
  <2> SUFFICES ASSUME NEW q \in 1..(pull_seq - 1), NEW i \in 1..Len(src),
                      Covers(q, i)
               PROVE  pull_file'[i] = src[i] \/ Covers(pull_seq, i)
    BY <1>1, <1>5, <1>16, <1>24 DEF Settled, Covers
  <2>1. pull_file[i] = src[i] \/ Covers(pull_seq, i)
    BY <1>3 DEF Underway, Settled
  <2> QED
    BY <1>23, <2>1
<1>26. ASSUME Undamaged PROVE Undamaged'
  <2>1. udp[1] = Segment(1)
    BY <1>7, <1>26 DEF Undamaged
  <2>2. ASSUME NEW i \in 1..Len(src), start < i, i <= pull_pos'
        PROVE  pull_file'[i] = src[i]
    <3>1. CASE pull_pos < i /\ i <= pull_pos + n
      BY <1>23, <2>1, <3>1
    <3>2. CASE ~(pull_pos < i /\ i <= pull_pos + n)
      <4>1. i \in Nat /\ i <= pull_pos
        BY <1>2, <1>5, <2>2, <3>2
      <4>2. pull_file[i] = src[i]
        BY <1>26, <2>2, <4>1 DEF Undamaged
      <4> QED
        BY <1>23, <3>2, <4>2
    <3> QED
      BY <3>1, <3>2
  <2>3. \A j \in 1..Len(udp') : udp'[j] = Segment(j)'
    <3>1. CASE pull_rsize = n
      <4>1. udp' = << >>
        BY <1>5, <1>19, <3>1 DEF Flowing
      <4> QED
        BY <4>1
    <3>2. CASE pull_rsize # n
      BY <1>7, <1>21, <1>26, <3>2 DEF Undamaged
    <3> QED
      BY <3>1, <3>2
  <2> QED
    BY <1>1, <1>16, <2>2, <2>3 DEF Undamaged
<1>27. Accounted'
  BY <1>1, <1>3, <1>6, <1>26 DEF Underway, Accounted, Damage
<1> QED
  BY <1>18, <1>19, <1>22, <1>25, <1>27 DEF Underway

\* At the end of a chunk that is undamaged all its bytes are right.
LEMMA UndamagedChunk ==
  ASSUME Sound, pull_pc = "chunk_end"
  PROVE  /\ pull_file \in Seq(Byte) /\ Len(pull_file) = Len(src)
         /\ src \in Files /\ pull_conf = conf
         /\ pull_seq \in 1..conf.chcount
         /\ pull_pos = start_pos(conf, pull_seq) + chunk_size_of(conf, pull_seq)
         /\ Undamaged => chunk(pull_file, pull_seq) = chunk(src, pull_seq)
         /\ pull_crc = Crc32(chunk(src, pull_seq))
         /\ calc_chunk_crc32(pull_file, pull_conf, pull_seq)
              = Crc32(chunk(pull_file, pull_seq))
<1>1. /\ pull_file \in Seq(Byte) /\ src \in Files /\ pull_pos \in Nat
      /\ pull_rsize = 0 /\ pull_conf = conf /\ pull_seq \in 1..conf.chcount
      /\ Within(pull_seq, pull_pos, pull_rsize) /\ pull_file # << >>
      /\ pull_crc = calc_chunk_crc32(src, conf, pull_seq)
  BY DEF Sound, Placed, RecvLayout, IInv, TypeInv, TypeOK, PullTypeOK, InStep,
     PullRange, PullQueue, PullFile
<1>2. Len(pull_file) = Len(src)
  BY <1>1, NotEmpty DEF Sound
<1>3. pull_pos = start_pos(conf, pull_seq) + chunk_size_of(conf, pull_seq)
  BY <1>1 DEF Within
<1>4. ASSUME Undamaged PROVE chunk(pull_file, pull_seq) = chunk(src, pull_seq)
  <2>1. \A i \in 1..Len(src) : Covers(pull_seq, i) => pull_file[i] = src[i]
    BY <1>3, <1>4 DEF Undamaged, Covers
  <2> QED
    BY <1>1, <1>2, <2>1, ChunkFromBytes
<1> QED
  BY <1>1, <1>2, <1>3, <1>4 DEF calc_chunk_crc32, chunk

\* A chunk is accepted that is right.
LEMMA AcceptCourse ==
  ASSUME Sound, pull_file # << >>, PullChunkEnd, PullAccepted,
         chunk(pull_file, pull_seq) = chunk(src, pull_seq)
  PROVE  Underway'
<1>1. /\ src' = src /\ UNCHANGED <<push_vars, udp, used, pull_file>>
      /\ pull_pc = "chunk_end" /\ UNCHANGED <<pull_stat, verdict>>
      /\ toPusher' = Append(toPusher, RECV(1, pull_seq))
  BY DEF PullChunkEnd, PullAccepted, push_RECV_header
<1>2. /\ pull_file \in Seq(Byte) /\ Len(pull_file) = Len(src)
      /\ src \in Files /\ pull_conf = conf /\ pull_seq \in 1..conf.chcount
  BY <1>1, UndamagedChunk
<1>3. pull_seq' = pull_seq + 1 /\ pull_pc' \in {"flow", "verify"}
  BY <1>2, NextSeq DEF PullAccepted
<1>4. /\ Underway /\ verdict = "none" /\ pull_seq = push_seq
      /\ push_pc \in {"flow_ack", "data", "data_ack"}
      /\ toPusher \in Seq(RecvPackets)
  BY <1>1, BothThere, PusherAtChunk
  DEF Sound, IInv, TypeInv, TypeOK, NetTypeOK
<1>5. conf' = conf /\ push_pc' = push_pc /\ push_stat' = push_stat
      /\ push_seq' = push_seq
  BY <1>1 DEF conf, push_vars
<1>6. Len(toPusher') = Len(toPusher) + 1 /\ Len(toPusher) \in Nat
  BY <1>1, <1>4, AppendProperties, LenProperties DEF RECV, RecvPackets
<1>7. /\ push_pc = "data_ack" => Len(toPusher) = 0
      /\ push_pc = "flow_ack" =>
           Len(toPusher) = 1 /\ chunk_size_of(conf, pull_seq) = 0
      /\ push_pc # "data"
  <2>1. push_pc = "data_ack" => toPusher = << >>
    BY <1>1, <1>4 DEF Underway, Alternating
  <2>2. push_pc # "data"
    BY <1>1, <1>4 DEF Underway, Alternating
  <2>3. push_pc = "flow_ack" =>
          Len(toPusher) = 1 /\ chunk_size_of(conf, pull_seq) = 0
    BY <1>1, <1>4 DEF Underway, Alternating
  <2> QED
    BY <2>1, <2>2, <2>3
<1>8. Lasting'
  BY <1>1, <1>3, <1>4, <1>5 DEF Lasting
<1>9. Alternating'
  <2>1. push_pc = "data_ack" => Len(toPusher') <= 1
    BY <1>6, <1>7
  <2>2. push_pc = "flow_ack" => Len(toPusher') = 2
    <3> SUFFICES ASSUME push_pc = "flow_ack" PROVE Len(toPusher') = 2
      OBVIOUS
    <3>1. Len(toPusher) = 1
      BY <1>7
    <3> QED
      BY <1>6, <3>1
  <2>3. push_pc = "flow_ack" => chunk_size_of(conf, push_seq) = 0
    BY <1>4, <1>7
  <2>4. chunk_size_of(conf, push_seq)' = chunk_size_of(conf, push_seq)
    BY <1>5
  <2> QED
    BY <1>3, <1>5, <1>7, <2>1, <2>2, <2>3, <2>4 DEF Alternating
<1>10. Flowing' /\ Accounted'
  BY <1>1, <1>3, <1>4 DEF Underway, Flowing, Accounted
<1>11. \A i \in 1..Len(src) : Covers(pull_seq, i) => pull_file[i] = src[i]
  BY <1>2, ChunkFromBytes
<1>12. ASSUME NEW q \in 1..pull_seq, NEW i \in 1..Len(src), Covers(q, i)
       PROVE  pull_file[i] = src[i]
  <2>1. CASE q = pull_seq
    BY <1>11, <1>12, <2>1
  <2>2. CASE q # pull_seq
    <3>1. q \in 1..(pull_seq - 1)
      BY <1>2, <2>2
    <3>2. pull_file[i] = src[i] \/ Covers(pull_seq, i)
      BY <1>4, <1>12, <3>1 DEF Underway, Settled
    <3> QED
      BY <1>11, <3>2
  <2> QED
    BY <2>1, <2>2
<1>13. (pull_seq + 1) - 1 = pull_seq
  BY <1>2
<1>14. \A q, i : Covers(q, i)' <=> Covers(q, i)
  BY <1>5 DEF Covers
<1>15. Settled'
  BY <1>1, <1>3, <1>12, <1>13, <1>14 DEF Settled
<1> QED
  BY <1>8, <1>9, <1>10, <1>15 DEF Underway

\* A chunk that is refused was damaged, and there are tries left.
LEMMA RefuseCourse ==
  ASSUME Sound, pull_file # << >>, PullChunkEnd, PullRefused,
         chunk(pull_file, pull_seq) # chunk(src, pull_seq)
  PROVE  Underway'
<1>1. /\ src' = src /\ UNCHANGED <<push_vars, udp, used>>
      /\ pull_pc = "chunk_end"
      /\ toPusher' = Append(toPusher, RECV(0, pull_seq))
  BY DEF PullChunkEnd, PullRefused, push_RECV_header
<1>2. /\ pull_file \in Seq(Byte) /\ Len(pull_file) = Len(src)
      /\ src \in Files /\ pull_conf = conf /\ pull_seq \in 1..conf.chcount
      /\ ~Undamaged
  BY <1>1, UndamagedChunk
<1>3. /\ Underway /\ verdict = "none" /\ pull_seq = push_seq
      /\ push_pc \in {"flow_ack", "data", "data_ack"}
  BY <1>1, BothThere, PusherAtChunk
<1>4. PullTry - pull_try < Damage /\ udp = << >> /\ Settled
  BY <1>1, <1>2, <1>3 DEF Underway, Accounted, Flowing
<1>5. /\ Damage \in Nat /\ Damage < PullTry /\ pull_try \in 1..PullTry
  <2>1. used["corrupt"] \in Nat /\ used["reorder"] \in Nat
        /\ pull_try \in 1..PullTry
    BY DEF Sound, IInv, TypeInv, TypeOK, NetTypeOK, PullTypeOK, Kinds
  <2> QED
    BY <2>1 DEF Damage, Sound, Tolerable
<1>6. pull_try # 1 /\ pull_try - 1 \in 1..PullTry
      /\ PullTry - (pull_try - 1) <= Damage
  <2> HIDE DEF Damage
  <2> QED
    BY <1>4, <1>5
<1>7. PullChunk(pull_try - 1, pull_crc)
  BY <1>6 DEF PullRefused
\* Only a chunk with bytes can be wrong.
<1>8. chunk_size_of(conf, pull_seq) # 0
  <2> SUFFICES ASSUME chunk_size_of(conf, pull_seq) = 0 PROVE FALSE
    OBVIOUS
  <2>1. start_pos(conf, pull_seq) \in Nat
    BY <1>2, ChunkInFile
  <2>2. \A i \in 1..Len(src) : ~Covers(pull_seq, i)
    BY <2>1 DEF Covers
  <2> QED
    BY <1>2, <2>2, ChunkFromBytes
<1>9. push_pc = "data_ack" /\ toPusher = << >>
  BY <1>1, <1>3, <1>8 DEF Underway, Alternating
<1>10. Len(toPusher') = 1 /\ toPusher' # << >>
  BY <1>1, <1>9, Single
<1> QED
  BY <1>1, <1>2, <1>3, <1>4, <1>6, <1>7, <1>8, <1>9, <1>10, ReceivingBegins

\* A chunk has come to its end, and what was damaged is not accepted.
LEMMA ChunkEndCourse ==
  ASSUME Sound, pull_file # << >>, PullChunkEnd, ChecksumsTell' \/ OnlyUsed({})
  PROVE  Underway'
<1>1. pull_pc = "chunk_end" /\ src' = src
  BY DEF PullChunkEnd
<1>2. /\ pull_conf = conf /\ pull_seq \in 1..conf.chcount
      /\ Undamaged => chunk(pull_file, pull_seq) = chunk(src, pull_seq)
      /\ pull_crc = Crc32(chunk(src, pull_seq))
      /\ calc_chunk_crc32(pull_file, pull_conf, pull_seq)
           = Crc32(chunk(pull_file, pull_seq))
  BY <1>1, UndamagedChunk
<1>3. CASE Crc32(chunk(pull_file, pull_seq)) = Crc32(chunk(src, pull_seq))
  <2>1. PullAccepted
    BY <1>2, <1>3 DEF PullChunkEnd
  <2>2. chunk(pull_file, pull_seq) = chunk(src, pull_seq)
    <3>1. CASE ChecksumsTell'
      <4>1. pull_seq' = pull_seq + 1 /\ pull_file' = pull_file /\ conf' = conf
        BY <1>1, <1>2, <2>1, NextSeq DEF PullAccepted, conf, Sound, IInv,
           TypeInv, TypeOK
      <4>2. pull_seq \in 1..(pull_seq' - 1)
        BY <1>2, <4>1
      <4>3. \A q \in 1..(pull_seq' - 1) :
              Crc32(chunk(pull_file, q)) = Crc32(chunk(src, q)) =>
                chunk(pull_file, q) = chunk(src, q)
        BY <1>1, <3>1, <4>1 DEF ChecksumsTell, chunk
      <4> QED
        BY <1>3, <4>2, <4>3
    <3>2. CASE OnlyUsed({})
      <4>1. Damage = 0
        BY <3>2, CleanTolerable DEF Sound
      <4>2. pull_try \in 1..PullTry
        BY DEF Sound, IInv, TypeInv, TypeOK, PullTypeOK
      <4>3. Undamaged \/ PullTry - pull_try < Damage
        BY <1>1, BothThere DEF Underway, Accounted
      <4>4. Undamaged
        BY <4>1, <4>2, <4>3
      <4> QED
        BY <1>2, <4>4
    <3> QED
      BY <3>1, <3>2
  <2> QED
    BY <2>1, <2>2, AcceptCourse
<1>4. CASE Crc32(chunk(pull_file, pull_seq)) # Crc32(chunk(src, pull_seq))
  <2>1. PullRefused
    BY <1>2, <1>4 DEF PullChunkEnd
  <2> QED
    BY <1>4, <2>1, RefuseCourse
<1> QED
  BY <1>3, <1>4

\* A puller that comes to the verification of a deliverable file has all of it:
\* what the chunks carry, and zeros where they carry nothing.
LEMMA WholeFile ==
  ASSUME Sound, pull_pc = "verify"
  PROVE  pull_file = src
<1>1. /\ src \in Files /\ src \in Seq(Byte) /\ pull_file \in Seq(Byte)
      /\ pull_file # << >> /\ pull_seq = conf.chcount + 1
      /\ conf.chcount \in Nat
  BY ConfOK
  DEF Sound, IInv, TypeInv, TypeOK, PullTypeOK, InStep, PullRange, PullFile
<1>2. Len(pull_file) = Len(src)
  BY <1>1, NotEmpty DEF Sound
<1>3. \A q \in 1..conf.chcount : q \in 1..(pull_seq - 1)
  BY <1>1
<1>4. ASSUME NEW i \in 1..Len(src) PROVE pull_file[i] = src[i]
  <2>1. CASE Carried(i)
    <3>1. PICK q \in 1..conf.chcount : Covers(q, i)
      BY <1>1, <2>1, CarriedByChunks
    <3> QED
      BY <1>1, <1>3, <3>1, BothThere DEF Underway, Settled
  <2>2. CASE ~Carried(i)
    <3>1. src[i] = 0
      BY <2>2 DEF Sound, Deliverable
    <3>2. pull_file[i] = 0
      BY <1>2, <2>2 DEF Sound, Placed, Untouched
    <3> QED
      BY <3>1, <3>2
  <2> QED
    BY <2>1, <2>2
<1> QED
  BY <1>1, <1>2, <1>4, SeqEqual

\* The verdict on the file is a match.
LEMMA VerifyCourse ==
  ASSUME Sound, pull_file # << >>, PullVerify
  PROVE  Underway'
<1>1. /\ src' = src /\ UNCHANGED <<push_vars, udp, used, pull_file, pull_seq>>
      /\ pull_pc = "verify" /\ pull_pc' = "end" /\ toPuller # << >>
  BY DEF PullVerify, pull_SEND_header, header_status
<1>2. pull_file = src /\ toPuller = <<SEND(conf, Crc16(src))>> /\ verdict = "none"
  BY <1>1, WholeFile DEF Sound, IInv, InStep, PullQueue, PullFile
<1>3. Head(toPuller).crc = Crc16(pull_file)
  BY <1>2, Single DEF SEND
<1>4. verdict' = "match"
  BY <1>3 DEF PullVerify
<1>5. push_pc \notin {"done", "send_ack", "data", "data_ack", "flow_ack"}
  <2>1. push_pc # "done"
    BY <1>2, BothThere
  <2>2. push_pc # "send_ack"
    BY <1>1 DEF Sound, IInv, InStep, PushHandshakeView
  <2>3. push_pc \notin {"data", "data_ack", "flow_ack"}
    BY <1>1 DEF Sound, IInv, InStep, PushTransferView
  <2> QED
    BY <2>1, <2>2, <2>3
<1>6. Lasting' /\ Alternating'
  BY <1>1, <1>2, <1>4, <1>5 DEF Lasting, Alternating, push_vars
<1>7. Flowing' /\ Accounted'
  BY <1>1, BothThere DEF Underway, Flowing, Accounted
<1>8. Settled'
  BY <1>1, <1>2 DEF Settled
<1> QED
  BY <1>6, <1>7, <1>8 DEF Underway

\* A step of the puller that neither reads nor writes.
LEMMA PullQuietCourse ==
  ASSUME Underway, src' = src,
         UNCHANGED <<push_vars, toPusher, udp, used, pull_file, pull_seq, verdict>>,
         pull_pc \notin {"data", "chunk_end"},
         pull_pc' \notin {"data", "chunk_end"},
         pull_pc' = "done" => pull_stat' = "SUCCESS"
  PROVE  Underway'
<1>1. conf' = conf /\ push_pc' = push_pc /\ push_stat' = push_stat
      /\ push_seq' = push_seq
  BY DEF conf, push_vars
<1>2. Lasting'
  BY <1>1 DEF Underway, Lasting
<1>3. Alternating'
  BY <1>1 DEF Underway, Alternating
<1>4. Flowing' /\ Accounted'
  BY DEF Underway, Flowing, Accounted
<1>5. \A q, i : Covers(q, i)' <=> Covers(q, i)
  BY <1>1 DEF Covers
<1>6. Settled'
  BY <1>5 DEF Underway, Settled
<1> QED
  BY <1>2, <1>3, <1>4, <1>6 DEF Underway

\* Every step of the puller.
LEMMA PullerCourse ==
  ASSUME Sound, Patient, pull_file # << >>, Puller, ChecksumsTell' \/ OnlyUsed({})
  PROVE  Underway'
<1>1. Underway /\ pull_pc \notin {"start", "accept", "handshake"}
  BY BothThere
<1>2. ~PullStart /\ ~PullAccept /\ ~PullHandshake
  BY <1>1 DEF PullStart, PullAccept, PullHandshake
<1>3. CASE PullStartData
  BY <1>1, <1>3, PullQuietCourse DEF PullStartData, tcp_vars
<1>4. CASE PullEnd
  BY <1>1, <1>4, PullQuietCourse DEF PullEnd, PullReturn, tcp_vars
<1> QED
  BY <1>2, <1>3, <1>4, FlowCourse, ReceiveCourse, ChunkEndCourse, VerifyCourse,
     NobodyGivesUp
  DEF Puller

-----------------------------------------------------------------------------
(***************************************************************************)
(* Damage is accounted for.                                                *)
(***************************************************************************)
\* Where no segment is shorter than the others, those on the way are equally
\* long.
LEMMA EquallyLong ==
  ASSUME Sound, EqualSegments, pull_pc = "data", Underway,
         NEW j \in 1..Len(udp), Len(udp) > 1
  PROVE  Len(udp[j]) = segsize_of(conf)
<1> DEFINE S == segsize_of(conf)
           size == chunk_size_of(conf, pull_seq)
<1>1. /\ S \in Nat \ {0} /\ pull_rsize \in Nat /\ pull_seq \in 1..conf.chcount
      /\ pull_rsize <= size /\ src \in Files /\ Len(udp) \in Nat
  BY SegSize, LenProperties
  DEF Sound, IInv, TypeInv, TypeOK, PullTypeOK, NetTypeOK, InStep, PullRange,
      Placed, RecvLayout, Within
<1>2. size \in Nat
  BY <1>1, ChunkInFile
<1>3. /\ \A n \in 1..Len(udp) : (n - 1) * S < pull_rsize
      /\ Len(udp[j]) = segment_size(S, pull_rsize - (j - 1) * S)
      /\ size % S = 0 => \E k \in 0..pull_rsize : pull_rsize = k * S
  BY DEF Underway, Flowing, SegmentSize
<1>4. size <= S \/ size % S = 0
  BY <1>1 DEF EqualSegments
<1>5. (2 - 1) * S < pull_rsize
  <2>1. 2 \in 1..Len(udp)
    BY <1>1
  <2> QED
    BY <1>3, <2>1
<1> HIDE DEF S, size
<1>6. S < size
  BY <1>1, <1>2, <1>5
<1>7. PICK k \in 0..pull_rsize : pull_rsize = k * S
  BY <1>1, <1>2, <1>3, <1>4, <1>6
<1> DEFINE e == (j - 1) * S
<1>8. e \in Nat /\ e < pull_rsize
  <2>1. j - 1 \in Nat
    BY <1>1
  <2>2. (j - 1) * S \in Nat
    BY <1>1, <2>1, OneMore
  <2> QED
    BY <1>3, <2>2
<1>9. e + S <= pull_rsize
  <2>1. j - 1 \in Nat /\ k \in Nat
    BY <1>1
  <2> QED
    BY <1>1, <1>7, <1>8, <2>1, MultipleAbove
<1>10. Len(udp[j]) = segment_size(S, pull_rsize - e)
  BY <1>3
<1> HIDE DEF e
<1>11. pull_rsize - e >= S /\ pull_rsize - e \in Nat
  BY <1>1, <1>8, <1>9
<1>12. segment_size(S, pull_rsize - e) = S
  BY <1>1, <1>11 DEF segment_size
<1> QED
  BY <1>10, <1>12 DEF S

\* The network changes bytes or the order, and no length.
LEMMA LengthsKept ==
  ASSUME Sound, Underway, pull_pc = "data",
         Corrupt \/ (Reorder /\ EqualSegments)
  PROVE  /\ Len(udp') = Len(udp)
         /\ \A j \in 1..Len(udp) : Len(udp'[j]) = Len(udp[j])
<1> DEFINE B == Seq(Byte)
<1>1. udp \in Seq(B)
  BY DEF Sound, IInv, TypeInv, TypeOK, NetTypeOK
<1>2. CASE Corrupt
  <2>1. PICK i \in 1..Len(udp) : \E k \in 1..Len(udp[i]) : \E b \in Byte :
          udp' = [udp EXCEPT ![i] = [udp[i] EXCEPT ![k] = b]]
    BY <1>2 DEF Corrupt
  <2>2. PICK k \in 1..Len(udp[i]), b \in Byte :
          udp' = [udp EXCEPT ![i] = [udp[i] EXCEPT ![k] = b]]
    BY <2>1
  <2>3. udp[i] \in Seq(Byte)
    <3> HIDE DEF B
    <3>1. udp[i] \in B
      BY <1>1, ElementOfSeq
    <3> QED
      BY <3>1 DEF B
  <2> DEFINE new == [udp[i] EXCEPT ![k] = b]
  <2>4. new \in Seq(Byte) /\ Len(new) = Len(udp[i])
    BY <2>3, ExceptSeq
  <2> HIDE DEF new, B
  <2>5. udp' = [udp EXCEPT ![i] = new]
    BY <2>2 DEF new
  <2>6. new \in B
    BY <2>4 DEF B
  <2>7. /\ Len(udp') = Len(udp)
        /\ \A j \in 1..Len(udp) : udp'[j] = IF j = i THEN new ELSE udp[j]
    BY <1>1, <2>5, <2>6, ExceptSeq
  <2> QED
    BY <2>4, <2>7
<1>3. CASE Reorder /\ EqualSegments
  <2>1. PICK i \in 1..(Len(udp) - 1) :
          udp' = [udp EXCEPT ![i] = udp[i + 1], ![i + 1] = udp[i]]
    BY <1>3 DEF Reorder
  <2>2. /\ i \in 1..Len(udp) /\ i + 1 \in 1..Len(udp) /\ Len(udp) > 1
        /\ Len(udp) \in Nat
    <3>1. Len(udp) \in Nat
      BY <1>1, LenProperties
    <3>2. i \in 1..(Len(udp) - 1)
      BY <2>1
    <3> HIDE DEF B
    <3> QED
      BY <3>1, <3>2
  <2>3. udp \in [1..Len(udp) -> B]
    BY <1>1, LenProperties
  <2> HIDE DEF B
  <2>4. udp' \in [1..Len(udp) -> B]
    BY <2>1, <2>2, <2>3
  <2>5. Len(udp') = Len(udp)
    BY <2>2, <2>4, FunctionIsSeq
  <2>6. \A j \in 1..Len(udp) : \E n \in 1..Len(udp) : udp'[j] = udp[n]
    BY <2>1, <2>2, <2>3
  <2>7. \A j \in 1..Len(udp) : Len(udp[j]) = segsize_of(conf)
    BY <1>3, <2>2, EquallyLong
  <2> QED
    BY <2>5, <2>6, <2>7
<1> QED
  BY <1>2, <1>3

\* An act of damage is one more than the tries it can cost.
LEMMA DamageCourse ==
  ASSUME Sound, pull_file # << >>, Corrupt \/ (Reorder /\ EqualSegments),
         Damage \in Nat, Damage' = Damage + 1
  PROVE  Underway'
<1>1. /\ src' = src /\ UNCHANGED <<push_vars, pull_vars, tcp_vars>>
      /\ udp # << >>
  BY DEF Corrupt, Reorder
<1>2. Underway
  BY BothThere
<1>3. pull_pc = "data"
  BY <1>1, <1>2 DEF Underway, Flowing
<1>4. /\ Len(udp') = Len(udp)
      /\ \A j \in 1..Len(udp) : Len(udp'[j]) = Len(udp[j])
  BY <1>2, <1>3, LengthsKept
<1>5. conf' = conf
  BY <1>1 DEF conf
<1>6. push_pc' = push_pc /\ push_rsize' = push_rsize /\ push_stat' = push_stat
      /\ push_seq' = push_seq /\ toPusher' = toPusher
  BY <1>1 DEF push_vars, tcp_vars
<1>7. /\ pull_pc' = pull_pc /\ pull_rsize' = pull_rsize /\ pull_seq' = pull_seq
      /\ pull_stat' = pull_stat /\ pull_try' = pull_try /\ verdict' = verdict
      /\ pull_file' = pull_file
  BY <1>1 DEF pull_vars
<1>8. Lasting' /\ Alternating'
  BY <1>1, <1>2, <1>5, <1>6, <1>7 DEF Underway, Lasting, Alternating
<1>9. /\ push_pc # "flow_ack" /\ (push_pc = "data_ack" => toPusher = << >>)
  BY <1>1, <1>2, <1>3 DEF Underway, Flowing
<1>10. Flowing'
  <2>1. \A j : SegmentSize(j)' = SegmentSize(j)
    BY <1>5, <1>7 DEF SegmentSize
  <2> QED
    BY <1>2, <1>3, <1>4, <1>5, <1>6, <1>7, <1>9, <2>1 DEF Underway, Flowing
<1>11. Accounted'
  <2>1. PullTry - pull_try <= Damage /\ pull_try \in 1..PullTry
    BY <1>2, <1>3
    DEF Underway, Accounted, Sound, IInv, TypeInv, TypeOK, PullTypeOK
  <2> HIDE DEF Damage
  <2>2. PullTry - pull_try < Damage' /\ PullTry - pull_try <= Damage'
    BY <2>1
  <2> QED
    BY <1>7, <2>2 DEF Accounted
<1>12. \A q, i : Covers(q, i)' <=> Covers(q, i)
  BY <1>5 DEF Covers
<1>13. Settled'
  BY <1>1, <1>2, <1>5, <1>7, <1>12 DEF Underway, Settled, Covers
<1> QED
  BY <1>8, <1>10, <1>11, <1>13 DEF Underway

-----------------------------------------------------------------------------
(***************************************************************************)
(* The outcome.                                                            *)
(***************************************************************************)
\* What can be delivered does not change on the way.
LEMMA DeliverableFixed ==
  ASSUME [Next]_vars
  PROVE  Deliverable' <=> Deliverable
<1>1. src' = src
  BY SrcFixed
<1>2. \A i : Carried(i)' <=> Carried(i)
  BY <1>1 DEF Carried
<1> QED
  BY <1>1, <1>2 DEF Deliverable

\* Every step of a transfer that is on its course leaves it there, as long as
\* the damage is tolerable.
LEMMA CourseStep ==
  ASSUME IInv, Paced, Placed, Deliverable, OnCourse, Patient, [Next]_vars,
         Tolerable', ChecksumsTell' \/ OnlyUsed({})
  PROVE  OnCourse'
<1>1. /\ Tolerable /\ ~Fault /\ ~Lose /\ ~Duplicate
      /\ Reorder => EqualSegments
      /\ Damage \in Nat
      /\ Reorder \/ Corrupt => Damage' = Damage + 1
  BY TolerableBefore
<1>2. Sound
  BY <1>1 DEF Sound
<1>3. Meeting'
  BY <1>1, <1>2, MeetingStep
<1>4. ASSUME pull_file' # << >> PROVE Underway'
  <2>1. CASE pull_file # << >>
    <3>1. CASE Pusher
      BY <1>2, <2>1, <3>1, PusherCourse
    <3>2. CASE Puller
      BY <1>2, <2>1, <3>2, PullerCourse
    <3>3. CASE Network
      BY <1>1, <1>2, <2>1, <3>3, DamageCourse DEF Network
    <3>4. CASE UNCHANGED vars
      <4>1. Underway
        BY <1>2, <2>1, BothThere
      <4>2. src' = src /\ UNCHANGED <<pull_vars, udp, used>>
        BY <3>4 DEF vars
      <4>3. Accounted' /\ Settled'
        BY <4>1, <4>2, PullSideKept DEF Underway
      <4>4. conf' = conf
        BY <4>2 DEF conf
      <4>5. Lasting' /\ Alternating'
        BY <3>4, <4>1, <4>4
        DEF Underway, Lasting, Alternating, vars, push_vars, pull_vars, tcp_vars
      <4>6. Flowing'
        BY <3>4, <4>1, <4>4
        DEF Underway, Flowing, SegmentSize, vars, push_vars, pull_vars, tcp_vars
      <4> QED
        BY <4>3, <4>5, <4>6 DEF Underway
    <3> QED
      BY <1>1, <3>1, <3>2, <3>3, <3>4 DEF Next, Terminated
  <2>2. CASE pull_file = << >>
    <3>1. PullHandshake
      <4>1. ~PullSegment
        BY <2>2 DEF PullSegment, IInv, InStep, PullFile
      <4> QED
        BY <1>1, <1>4, <2>2, <4>1
        DEF Next, Pusher, PushOpen, PushConnect, PushHandshake,
            PushHandshakeAck, PushStartData, PushFlow, PushFlowAck, PushSegment,
            PushChunkAck, PushVerify, PushVerifyAck, PushEnd, PushHeaderError,
            PushTimeout, PushReset, Puller, PullStart, PullAccept,
            PullStartData, PullFlow, PullChunkEnd, PullAccepted, PullRefused,
            PullChunk, PullVerify, PullEnd, PullHeaderError, PullTimeout,
            PullReset, PullReturn, PullGoto, Network, Reorder, Corrupt,
            Terminated, vars, pull_vars
    <3> QED
      BY <1>2, <1>4, <3>1, CourseBegins
  <2> QED
    BY <2>1, <2>2
<1> QED
  BY <1>3, <1>4 DEF OnCourse, Underway

\* A transfer begins on its course.
LEMMA CourseInit == Init => OnCourse
  BY DEF Init, OnCourse, Meeting

\* The course ends in success.
LEMMA CourseEnds ==
  ASSUME IInv, OnCourse, BothDone, mfopen(pull_file)
  PROVE  Delivered
<1>1. Lasting
  BY DEF OnCourse, mfopen
<1>2. push_stat = "SUCCESS" /\ pull_stat = "SUCCESS"
  BY <1>1 DEF Lasting, BothDone
<1>3. verdict # "none"
  BY <1>2 DEF IInv, InStep, Outcomes
<1> QED
  BY <1>1, <1>2, <1>3 DEF Lasting, Delivered

\* With timeouts that are longer than any delay of the peer, an undisturbed
\* transfer that was accepted succeeds exactly for the deliverable files,
\* whatever the checksums are: for every file size, chunk size and try count.
THEOREM CleanOutcome ==
  ASSUME Patient
  PROVE  Spec => []CleanTransferOutcome
<1>1. Init => CleanCourse
  BY CourseInit DEF CleanCourse
<1>2. ASSUME IInv, Paced, Placed, CleanCourse, [Next]_vars PROVE CleanCourse'
  <2> SUFFICES ASSUME Deliverable', OnlyUsed({})' PROVE OnCourse'
    BY DEF CleanCourse
  <2>1. Deliverable /\ OnlyUsed({})
    BY <1>2, DeliverableFixed, CleanBefore
  <2>2. OnCourse
    BY <1>2, <2>1 DEF CleanCourse
  <2>3. Tolerable'
    <3>1. \A k \in Kinds : used'[k] = 0
      BY DEF OnlyUsed
    <3>2. used'["corrupt"] = 0 /\ used'["reorder"] = 0
      BY <3>1 DEF Kinds
    <3> QED
      BY <3>1, <3>2 DEF Tolerable, OnlyUsed
  <2> QED
    BY <1>2, <2>1, <2>2, <2>3, CourseStep
<1>3. IInv /\ Placed /\ CleanCourse => CleanTransferOutcome
  BY CourseEnds, OnlyDeliverable DEF CleanCourse, CleanTransferOutcome
<1> QED
  BY <1>1, <1>2, <1>3, StaysInStep, KeepsPace, BytesPlaced, PTL DEF Spec

\* With such timeouts, and if no wrong chunk passes the CRC32, a deliverable
\* file arrives although segments were damaged or swapped, fewer times than
\* either side has tries: no chunk is refused without an act of damage, so
\* neither side runs out of tries.
THEOREM DamageIsRepaired ==
  ASSUME Patient
  PROVE  Spec /\ []ChecksumsTell => []DamageRepaired
<1>1. Init => RepairCourse
  BY CourseInit DEF RepairCourse
<1>2. ASSUME IInv, Paced, Placed, RepairCourse, [Next]_vars, ChecksumsTell'
      PROVE  RepairCourse'
  <2> SUFFICES ASSUME Deliverable', Tolerable' PROVE OnCourse'
    BY DEF RepairCourse
  <2>1. Deliverable /\ Tolerable
    BY <1>2, DeliverableFixed, TolerableBefore
  <2>2. OnCourse
    BY <1>2, <2>1 DEF RepairCourse
  <2> QED
    BY <1>2, <2>1, <2>2, CourseStep
<1>3. IInv /\ RepairCourse => DamageRepaired
  BY CourseEnds DEF RepairCourse, DamageRepaired
<1> QED
  BY <1>1, <1>2, <1>3, StaysInStep, KeepsPace, BytesPlaced, PTL DEF Spec
=============================================================================
