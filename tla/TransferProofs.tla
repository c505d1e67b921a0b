--------------------------- MODULE TransferProofs ---------------------------
(***************************************************************************)
(* Machine-checked proofs about Transfer, for every file, chunk size,      *)
(* checksum, number of tries and budget of the environment.                *)
(***************************************************************************)
EXTENDS TransferInv, TLAPS, SequenceTheorems

USE CalcAssumption, TransferAssumption

-----------------------------------------------------------------------------
(***************************************************************************)
(* Arithmetic and the operators of Calc and MFile.                         *)
(***************************************************************************)
\* A remainder is below its divisor, and a number below it is its own.
LEMMA Mod ==
  ASSUME NEW a \in Int, NEW b \in Nat \ {0}
  PROVE  /\ a % b \in Nat
         /\ a % b < b
         /\ a \in 0..(b - 1) => a % b = a
  BY SMT

\* The second fact alone.
LEMMA Below ==
  ASSUME NEW b \in Nat \ {0}, NEW a \in 0..(b - 1)
  PROVE  a % b = a
  BY SMT

\* What is left of a after taking out all the b's is less than b.
LEMMA Div ==
  ASSUME NEW a \in Nat, NEW b \in Nat \ {0}
  PROVE  /\ a \div b \in Nat
         /\ (a \div b) * b <= a
         /\ a < (a \div b) * b + b
  BY SMT

\* Multiplication keeps the order.
LEMMA Monotone ==
  ASSUME NEW a \in Nat, NEW b \in Nat, NEW c \in Nat, a <= b
  PROVE  a * c <= b * c /\ a * c \in Nat /\ b * c \in Nat
  BY SMT

\* A segment of a chunk that is not empty is not empty.
LEMMA SegmentNumber ==
  ASSUME NEW size \in Nat
  PROVE  calc_segment_size(size) \in Nat /\ (size # 0 => calc_segment_size(size) # 0)
  BY SegmentAssumption DEF calc_segment_size

\* A segment is never longer than what is left of the chunk.
LEMMA SegmentBound ==
  ASSUME NEW c, c.chsize \in Nat, c.pchsize \in Nat, NEW rsize \in Nat
  PROVE  LET n == segment_size(segsize_of(c), rsize)
         IN  n \in Nat /\ n <= rsize
<1>1. segsize_of(c) \in Nat
  BY SegmentNumber DEF segsize_of
<1> QED
  BY <1>1 DEF segment_size

\* push_handshake() computes a chunk count that leaves room in 32 bits for
\* the sequence number behind the last chunk, and a partial chunk that is
\* shorter than a chunk.
LEMMA ConfFacts ==
  ASSUME NEW f \in Files
  PROVE  LET c == push_conf(Len(f), ChSize)
         IN  /\ c \in ConfType
             /\ c.chsize = ChSize
             /\ c.chcount = Len(f) \div ChSize + 1
             /\ c.chcount \in 1..(U32 - 2)
             /\ c.pchsize = Len(f) - (Len(f) \div ChSize) * ChSize
             /\ c.pchsize \in 0..(ChSize - 1)
<1> DEFINE q == Len(f) \div ChSize
<1>1. Len(f) \in Nat /\ ChSize \in Nat \ {0}
  BY LenProperties
<1>2. q \in Nat /\ q * ChSize <= Len(f) /\ Len(f) < q * ChSize + ChSize
  BY <1>1, Div
<1>3. q + 2 < U32
  BY FileSizeAssumption
<1> HIDE DEF q
<1>4. quotient32(Len(f), ChSize) = q
  <2>1. q \in 0..(U32 - 1)
    BY <1>2, <1>3
  <2>2. q % U32 = q
    BY <2>1, Below, CalcAssumption, Zenon
  <2> QED
    BY <2>2 DEF quotient32, q
<1>5. calc_chunk_count(Len(f), ChSize) = q + 1
  <2>1. q + 1 \in 0..(U32 - 1)
    BY <1>2, <1>3
  <2>2. (q + 1) % U32 = q + 1
    BY <2>1, Below, CalcAssumption, Zenon
  <2> QED
    BY <2>2, <1>4 DEF calc_chunk_count
<1>6. calc_partial_chunk_size(Len(f), ChSize) = Len(f) - q * ChSize
  <2>1. q * ChSize \in Nat
    BY <1>1, <1>2
  <2>2. Len(f) - q * ChSize \in 0..(U16 - 1)
    BY <1>1, <1>2, <2>1
  <2>3. (Len(f) - q * ChSize) % U16 = Len(f) - q * ChSize
    BY <2>2, Below, CalcAssumption, Zenon
  <2> QED
    BY <2>3, <1>4 DEF calc_partial_chunk_size
<1>7. Len(f) - q * ChSize \in 0..(ChSize - 1)
  <2>1. q * ChSize \in Nat
    BY <1>1, <1>2
  <2> QED
    BY <1>1, <1>2, <2>1
<1>8. q + 1 \in 1..(U32 - 2)
  BY <1>2, <1>3
<1> QED
  BY <1>1, <1>5, <1>6, <1>7, <1>8 DEF push_conf, ConfType, q

\* The puller rebuilds the length of the file from a SEND packet.
LEMMA SizeRebuilt ==
  ASSUME NEW f \in Files
  PROVE  LET c == push_conf(Len(f), ChSize)
         IN  calc_file_size(c.chcount, c.chsize, c.pchsize) = Len(f)
<1> DEFINE q == Len(f) \div ChSize
           c == push_conf(Len(f), ChSize)
<1>1. Len(f) \in 0..(U64 - 1) /\ q \in Nat /\ ChSize \in Nat
  BY LenProperties, Div, FileSizeAssumption
<1>2. /\ c.chcount = q + 1
      /\ c.chsize = ChSize
      /\ c.pchsize = Len(f) - q * ChSize
  BY ConfFacts
<1> HIDE DEF q, c
<1>3. (c.chcount - 1) * c.chsize + c.pchsize = Len(f)
  BY <1>1, <1>2
<1>4. Len(f) % U64 = Len(f)
  BY <1>1, Mod
<1> QED
  BY <1>3, <1>4 DEF calc_file_size, c

\* A file position is a natural number, and so are the sizes of a chunk and
\* of a segment.
LEMMA ChunkTypes ==
  ASSUME NEW c \in ConfType, NEW seq \in Nat
  PROVE  /\ start_pos(c, seq) \in Nat
         /\ chunk_size_of(c, seq) \in Nat
<1>1. c.chsize \in Nat /\ c.pchsize \in Nat
  BY DEF ConfType
<1>2. (seq - 1) * c.chsize \in Int
  BY <1>1
<1> QED
  BY <1>1, <1>2, Mod DEF start_pos, chunk_size_of

\* A segment is never longer than what is left of the chunk.
LEMMA SegmentTypes ==
  ASSUME NEW c \in ConfType, NEW rsize \in Nat
  PROVE  LET n == segment_size(segsize_of(c), rsize)
         IN  n \in Nat /\ n <= rsize
  BY SegmentBound DEF ConfType

\* A function from 1..n to S is a sequence over S.
LEMMA FunctionIsSeq ==
  ASSUME NEW S, NEW n \in Nat, NEW f \in [1..n -> S]
  PROVE  f \in Seq(S) /\ Len(f) = n
  BY SeqDef, LenProperties

\* What is read is bytes, and the position stays a number.
LEMMA MFileTypes ==
  ASSUME NEW buf \in Seq(Byte), NEW pos \in Nat, NEW n \in Nat
  PROVE  /\ mfread(buf, pos, n) \in Seq(Byte)
         /\ mfadvance(buf, pos, n) \in Nat
<1>1. Len(buf) \in Nat /\ \A i \in 1..Len(buf) : buf[i] \in Byte
  BY LenProperties, ElementOfSeq
<1>2. mfread(buf, pos, n) \in [1..n -> Byte]
  BY <1>1 DEF mfread
<1> QED
  BY <1>1, <1>2, FunctionIsSeq DEF mfadvance

\* Writing keeps the length of the mapping.
LEMMA WriteTypes ==
  ASSUME NEW buf \in Seq(Byte), NEW pos \in Nat, NEW data \in Seq(Byte)
  PROVE  /\ mfwrite(buf, pos, data) \in Seq(Byte)
         /\ Len(mfwrite(buf, pos, data)) = Len(buf)
<1>1. Len(buf) \in Nat /\ \A i \in 1..Len(buf) : buf[i] \in Byte
  BY LenProperties, ElementOfSeq
<1>2. Len(data) \in Nat /\ \A i \in 1..Len(data) : data[i] \in Byte
  BY LenProperties, ElementOfSeq
<1>3. mfwrite(buf, pos, data) \in [1..Len(buf) -> Byte]
  BY <1>1, <1>2 DEF mfwrite
<1> QED
  BY <1>1, <1>3, FunctionIsSeq

\* The puller creates a file of the size asked for, or none.
LEMMA CreateTypes ==
  ASSUME NEW size \in Nat
  PROVE  /\ create_file(size) \in Seq(Byte)
         /\ create_file(size) # << >> => Len(create_file(size)) = size
<1>1. CASE size # 0 /\ size < Avail
  <2>1. create_file(size) \in [1..size -> Byte]
    BY <1>1 DEF create_file
  <2> QED
    BY <2>1, FunctionIsSeq
<1>2. CASE ~(size # 0 /\ size < Avail)
  BY <1>2 DEF create_file
<1> QED
  BY <1>1, <1>2

-----------------------------------------------------------------------------
(***************************************************************************)
(* Type correctness.  The checksum in a FLOW packet is that of a chunk of  *)
(* the file only because the pusher's sequence number stays in range, so   *)
(* PushRange belongs to the induction.                                     *)
(***************************************************************************)
LEMMA ConfOK ==
  ASSUME src \in Files
  PROVE  /\ conf \in ConfType
         /\ conf.chcount \in 1..(U32 - 2)
  BY ConfFacts DEF conf

\* The sequence number behind a chunk's is the next number.
LEMMA NextSeq ==
  ASSUME src \in Files, NEW seq \in 1..conf.chcount
  PROVE  (seq + 1) % U32 = seq + 1 /\ seq + 1 \in 1..(conf.chcount + 1)
<1>1. conf.chcount \in 1..(U32 - 2)
  BY ConfOK
<1>2. seq + 1 \in 0..(U32 - 1) /\ seq + 1 \in 1..(conf.chcount + 1)
  BY <1>1
<1>3. \A n \in 0..(U32 - 1) : n % U32 = n
  BY Mod
<1> QED
  BY <1>2, <1>3

\* What pull_RECV_header() hands over.
LEMMA RecvHeader ==
  ASSUME TypeOK, pull_RECV_header = "SUCCESS"
  PROVE  /\ toPusher # << >>
         /\ Head(toPusher) \in RecvPackets
         /\ Head(toPusher).ack \in {0, 1}
         /\ Tail(toPusher) \in Seq(RecvPackets)
<1>1. toPusher # << >> /\ toPusher \in Seq(RecvPackets)
  BY DEF TypeOK, NetTypeOK, pull_RECV_header, header_status
<1>2. Head(toPusher) \in RecvPackets /\ Tail(toPusher) \in Seq(RecvPackets)
  BY <1>1, HeadTailProperties
<1> QED
  BY <1>1, <1>2 DEF RecvPackets

\* What pull_SEND_header() hands over.
LEMMA SendHeader ==
  ASSUME TypeOK, pull_SEND_header = "SUCCESS"
  PROVE  /\ toPuller # << >>
         /\ Head(toPuller) \in SendPackets
         /\ Head(toPuller).conf \in ConfType
         /\ Tail(toPuller) \in Seq(SendPackets \cup FlowPackets)
<1>1. /\ toPuller # << >>
      /\ toPuller \in Seq(SendPackets \cup FlowPackets)
      /\ Head(toPuller).type = "SEND"
  BY DEF TypeOK, NetTypeOK, pull_SEND_header, header_status
<1>2. /\ Head(toPuller) \in SendPackets \cup FlowPackets
      /\ Tail(toPuller) \in Seq(SendPackets \cup FlowPackets)
  BY <1>1, HeadTailProperties
<1>3. Head(toPuller) \in SendPackets
  BY <1>1, <1>2 DEF FlowPackets
<1> QED
  BY <1>1, <1>2, <1>3 DEF SendPackets

\* What pull_FLOW_header() hands over.
LEMMA FlowHeader ==
  ASSUME TypeOK, pull_FLOW_header = "SUCCESS"
  PROVE  /\ toPuller # << >>
         /\ Head(toPuller) \in FlowPackets
         /\ Head(toPuller).crc \in Checksums
         /\ Tail(toPuller) \in Seq(SendPackets \cup FlowPackets)
<1>1. /\ toPuller # << >>
      /\ toPuller \in Seq(SendPackets \cup FlowPackets)
      /\ Head(toPuller).type = "FLOW"
  BY DEF TypeOK, NetTypeOK, pull_FLOW_header, header_status
<1>2. /\ Head(toPuller) \in SendPackets \cup FlowPackets
      /\ Tail(toPuller) \in Seq(SendPackets \cup FlowPackets)
  BY <1>1, HeadTailProperties
<1>3. Head(toPuller) \in FlowPackets
  BY <1>1, <1>2 DEF SendPackets
<1> QED
  BY <1>1, <1>2, <1>3 DEF FlowPackets

\* A RECV packet about any sequence number may be queued for the pusher.
LEMMA RecvAppended ==
  ASSUME TypeOK, NEW ack \in {0, 1}, NEW seq \in Nat,
         push_RECV_header(ack, seq)
  PROVE  toPusher' \in Seq(RecvPackets)
<1>1. RECV(ack, seq) \in RecvPackets
  BY DEF RECV, RecvPackets
<1> QED
  BY <1>1, AppendProperties DEF TypeOK, NetTypeOK, push_RECV_header

\* start_pusher() and start_puller() leave their types alone when they return.
LEMMA PushReturnTypes ==
  ASSUME TypeOK, NEW stat \in PushStats, PushReturn(stat)
  PROVE  PushTypeOK'
  BY DEF TypeOK, PushTypeOK, PushReturn, PushPCs

\* start_puller() leaves its types alone when it returns.
LEMMA PullReturnTypes ==
  ASSUME TypeOK, src' = src, NEW stat \in PullStats, PullReturn(stat)
  PROVE  PullTypeOK'
<1>1. Checksums' = Checksums
  BY DEF Checksums, conf
<1> QED
  BY <1>1 DEF TypeOK, PullTypeOK, PullReturn, PullPCs

\* So they do when they start on a chunk.
LEMMA PushChunkTypes ==
  ASSUME TypeOK, NEW try \in 1..PushTry, PushChunk(try)
  PROVE  PushTypeOK'
<1>1. /\ start_pos(conf, push_seq) \in Nat
      /\ chunk_size_of(conf, push_seq) \in Nat
  BY ConfOK, ChunkTypes DEF TypeOK, PushTypeOK
<1> QED
  BY <1>1, PushReturnTypes
  DEF TypeOK, PushTypeOK, PushChunk, PushReturn, PushPCs, PushStats

\* Preparing to receive a chunk keeps the puller's types.
LEMMA PullChunkTypes ==
  ASSUME TypeOK, src' = src, NEW try \in 1..PullTry, NEW crc \in Checksums,
         PullChunk(try, crc)
  PROVE  PullTypeOK'
<1>1. /\ start_pos(pull_conf, pull_seq) \in Nat
      /\ chunk_size_of(pull_conf, pull_seq) \in Nat
  BY ChunkTypes DEF TypeOK, PullTypeOK
<1>2. Checksums' = Checksums
  BY DEF Checksums, conf
<1> QED
  BY <1>1, <1>2
  DEF TypeOK, PullTypeOK, PullChunk, PullReturn, PullPCs, PullStats

\* The types hold when the two calls begin.
LEMMA TypeInit == Init => TypeInv
<1> SUFFICES ASSUME Init PROVE TypeInv
  OBVIOUS
<1>1. src \in Files
  BY DEF Init
<1>2. PushTypeOK
  BY DEF Init, PushTypeOK, PushPCs, PushStats
<1>3. PullTypeOK
  BY EmptySeq
  DEF Init, PullTypeOK, PullPCs, PullStats, ConfType, Checksums
<1>4. NetTypeOK
  BY EmptySeq DEF Init, NetTypeOK
<1>5. PushRange
  BY DEF Init, PushRange
<1> QED
  BY <1>1, <1>2, <1>3, <1>4, <1>5 DEF TypeInv, TypeOK

\* A step that leaves a part of the state alone keeps its types.
LEMMA TypesKept ==
  ASSUME TypeInv, src' = src
  PROVE  /\ src' \in Files /\ conf' = conf
         /\ Checksums' = Checksums
         /\ SendPackets' = SendPackets /\ FlowPackets' = FlowPackets
         /\ UNCHANGED push_vars => PushTypeOK' /\ PushRange'
         /\ UNCHANGED pull_vars => PullTypeOK'
         /\ UNCHANGED <<tcp_vars, udp, used>> => NetTypeOK'
<1>1. src' \in Files /\ conf' = conf
  BY DEF TypeInv, TypeOK, conf
<1>2. Checksums' = Checksums
  BY DEF Checksums, conf
<1>3. SendPackets' = SendPackets /\ FlowPackets' = FlowPackets
  BY <1>2 DEF SendPackets, FlowPackets
<1>4. UNCHANGED push_vars => PushTypeOK' /\ PushRange'
  BY <1>1 DEF TypeInv, TypeOK, PushTypeOK, PushRange, push_vars
<1>5. UNCHANGED pull_vars => PullTypeOK'
  BY <1>2 DEF TypeInv, TypeOK, PullTypeOK, pull_vars
<1>6. UNCHANGED <<tcp_vars, udp, used>> => NetTypeOK'
  BY <1>3 DEF TypeInv, TypeOK, NetTypeOK, tcp_vars
<1> QED
  BY <1>1, <1>2, <1>3, <1>4, <1>5, <1>6

\* Every step of the pusher keeps the types.
LEMMA PusherTypes == TypeInv /\ Pusher => TypeInv'
<1> SUFFICES ASSUME TypeInv, Pusher PROVE TypeInv'
  OBVIOUS
<1> USE DEF TypeInv, TypeOK
<1>a. src' = src
  BY DEF Pusher, PushOpen, PushConnect, PushHandshake, PushHandshakeAck,
         PushStartData, PushFlow, PushFlowAck, PushSegment, PushChunkAck,
         PushVerify, PushVerifyAck, PushEnd, PushHeaderError, PushTimeout,
         PushReset
<1>b. UNCHANGED pull_vars
  BY DEF Pusher, PushOpen, PushConnect, PushHandshake, PushHandshakeAck,
         PushStartData, PushFlow, PushFlowAck, PushSegment, PushChunkAck,
         PushVerify, PushVerifyAck, PushEnd, PushHeaderError, PushTimeout,
         PushReset
<1>c. src' \in Files /\ conf' = conf /\ PullTypeOK'
  BY <1>a, <1>b, TypesKept
<1>d. conf \in ConfType /\ conf.chcount \in 1..(U32 - 2)
  BY ConfOK
<1>1. CASE PushOpen
  <2>1. PushTypeOK' /\ PushRange'
    BY <1>1 DEF PushOpen, PushGoto, PushReturn, PushTypeOK, PushRange,
                PushPCs, PushStats
  <2> QED
    BY <1>1, <1>a, <1>c, <2>1, TypesKept DEF PushOpen
<1>2. CASE PushConnect
  <2>1. PushTypeOK' /\ PushRange'
    BY <1>2 DEF PushConnect, PushGoto, PushReturn, PushTypeOK, PushRange,
                PushPCs, PushStats
  <2>2. NetTypeOK'
    BY <1>2, <1>a, TypesKept DEF PushConnect, NetTypeOK
  <2> QED
    BY <1>c, <2>1, <2>2
<1>3. CASE PushHandshake
  <2>1. PushTypeOK' /\ PushRange'
    BY <1>3 DEF PushHandshake, PushGoto, PushTypeOK, PushRange, PushPCs
  <2>2. SEND(conf, 0) \in SendPackets
    BY <1>d DEF SEND, SendPackets, Checksums
  <2>3. toPuller' \in Seq(SendPackets \cup FlowPackets)
    BY <1>3, <2>2, AppendProperties
    DEF PushHandshake, push_SEND_header, NetTypeOK
  <2>4. NetTypeOK'
    BY <1>3, <1>a, <2>3, TypesKept DEF PushHandshake, NetTypeOK
  <2> QED
    BY <1>c, <2>1, <2>4
<1>4. CASE PushHandshakeAck
  <2>1. PushTypeOK' /\ PushRange'
    BY <1>4 DEF PushHandshakeAck, PushTypeOK, PushRange, PushPCs, PushStats
  <2>2. NetTypeOK'
    BY <1>4, <1>a, TypesKept, RecvHeader DEF PushHandshakeAck, NetTypeOK
  <2> QED
    BY <1>c, <2>1, <2>2
<1>5. CASE PushStartData
  <2>1. PushTypeOK' /\ PushRange'
    BY <1>5, <1>c, <1>d DEF PushStartData, PushTypeOK, PushRange, PushPCs
  <2> QED
    BY <1>5, <1>a, <1>c, <2>1, TypesKept DEF PushStartData
<1>6. CASE PushFlow
  <2>1. PushTypeOK' /\ PushRange'
    BY <1>6, <1>c DEF PushFlow, PushGoto, PushTypeOK, PushRange, PushPCs
  <2>2. calc_chunk_crc32(src, conf, push_seq) \in Checksums
    BY <1>6 DEF PushFlow, PushRange, Checksums
  <2>3. chunk_size_of(conf, push_seq) \in Nat /\ push_seq \in Nat
    BY <1>d, ChunkTypes DEF PushTypeOK
  <2>4. FLOW(chunk_size_of(conf, push_seq), push_seq,
             calc_chunk_crc32(src, conf, push_seq)) \in FlowPackets
    BY <2>2, <2>3 DEF FLOW, FlowPackets
  <2>5. toPuller' \in Seq(SendPackets \cup FlowPackets)
    BY <1>6, <2>4, AppendProperties DEF PushFlow, push_FLOW_header, NetTypeOK
  <2>6. NetTypeOK'
    BY <1>6, <1>a, <2>5, TypesKept DEF PushFlow, NetTypeOK
  <2> QED
    BY <1>c, <2>1, <2>6
<1>7. CASE PushFlowAck
  <2>1. PushTypeOK'
    <3>1. CASE Head(toPusher).ack = 1
      <4>1. PushChunk(PushTry)
        BY <1>7, <3>1 DEF PushFlowAck
      <4> QED
        BY <4>1, PushChunkTypes
    <3>2. CASE Head(toPusher).ack # 1 /\ push_try = 1
      BY <1>7, <3>2, PushReturnTypes DEF PushFlowAck, PushStats
    <3>3. CASE Head(toPusher).ack # 1 /\ push_try # 1
      BY <1>7, <3>3 DEF PushFlowAck, PushTypeOK, PushPCs
    <3> QED
      BY <3>1, <3>2, <3>3
  <2>2. PushRange'
    BY <1>7, <1>c DEF PushFlowAck, PushRange, PushChunk, PushReturn
  <2>3. NetTypeOK'
    BY <1>7, <1>a, TypesKept, RecvHeader DEF PushFlowAck, NetTypeOK
  <2> QED
    BY <1>c, <2>1, <2>2, <2>3
<1>8. CASE PushSegment
  <2> DEFINE n == segment_size(segsize_of(conf), push_rsize)
  <2>1. n \in Nat /\ n <= push_rsize
    BY <1>d, SegmentTypes DEF PushTypeOK
  <2>2. src \in Seq(Byte)
    OBVIOUS
  <2>3. /\ mfread(src, push_pos, n) \in Seq(Byte)
        /\ mfadvance(src, push_pos, n) \in Nat
    BY <2>1, <2>2, MFileTypes DEF PushTypeOK
  <2> HIDE DEF n
  <2>4. /\ udp' \in {udp, Append(udp, mfread(src, push_pos, n))}
        /\ push_pos' = mfadvance(src, push_pos, n)
        /\ push_rsize' = push_rsize - n
        /\ push_pc' \in {"data", "data_ack"}
    BY <1>8 DEF PushSegment, n
  <2>5. PushTypeOK' /\ PushRange'
    BY <1>8, <1>c, <2>1, <2>3, <2>4
    DEF PushSegment, PushTypeOK, PushRange, PushPCs
  <2>6. udp' \in Seq(Seq(Byte))
    <3> DEFINE S == Seq(Byte)
               segment == mfread(src, push_pos, n)
    <3>1. udp \in Seq(S) /\ segment \in S
      BY <2>3 DEF NetTypeOK
    <3> HIDE DEF S, segment
    <3>2. Append(udp, segment) \in Seq(S)
      BY <3>1, AppendProperties
    <3> QED
      BY <2>4, <3>1, <3>2 DEF S, segment
  <2>7. NetTypeOK'
    BY <1>8, <1>a, <2>6, TypesKept DEF PushSegment, NetTypeOK, tcp_vars
  <2> QED
    BY <1>c, <2>5, <2>7
<1>9. CASE PushChunkAck
  <2>1. push_seq \in 1..conf.chcount
    BY <1>9 DEF PushChunkAck, PushRange
  <2>2. (push_seq + 1) % U32 = push_seq + 1
    BY <2>1, NextSeq
  <2>3. PushTypeOK' /\ PushRange'
    <3>1. CASE Head(toPusher).ack = 1
      <4>1. PushTypeOK'
        BY <1>9, <1>c, <1>d, <2>1, <2>2, <3>1
        DEF PushChunkAck, PushAccepted, PushTypeOK, PushRange, PushPCs
      <4>2. PushRange'
        BY <1>9, <1>c, <1>d, <2>1, <2>2, <3>1
        DEF PushChunkAck, PushAccepted, PushTypeOK, PushRange, PushPCs
      <4> QED
        BY <4>1, <4>2
    <3>2. CASE Head(toPusher).ack # 1 /\ push_try = 1
      BY <1>9, <3>2, PushReturnTypes
      DEF PushChunkAck, PushRetry, PushReturn, PushRange, PushStats
    <3>3. CASE Head(toPusher).ack # 1 /\ push_try # 1
      <4>1. push_try - 1 \in 1..PushTry
        BY <3>3 DEF PushTypeOK
      <4>2. PushChunk(push_try - 1)
        BY <1>9, <3>3 DEF PushChunkAck, PushRetry
      <4>3. PushTypeOK'
        BY <4>1, <4>2, PushChunkTypes
      <4>4. PushRange'
        BY <1>c, <2>1, <4>2 DEF PushChunk, PushReturn, PushRange
      <4> QED
        BY <4>3, <4>4
    <3> QED
      BY <3>1, <3>2, <3>3
  <2>4. NetTypeOK'
    BY <1>9, <1>a, TypesKept, RecvHeader DEF PushChunkAck, NetTypeOK
  <2> QED
    BY <1>c, <2>3, <2>4
<1>10. CASE PushVerify
  <2>1. PushTypeOK' /\ PushRange'
    BY <1>10, <1>c DEF PushVerify, PushGoto, PushTypeOK, PushRange, PushPCs
  <2>2. SEND(conf, Crc16(src)) \in SendPackets
    BY <1>d DEF SEND, SendPackets, Checksums
  <2>3. toPuller' \in Seq(SendPackets \cup FlowPackets)
    BY <1>10, <2>2, AppendProperties
    DEF PushVerify, push_SEND_header, NetTypeOK
  <2>4. NetTypeOK'
    BY <1>10, <1>a, <2>3, TypesKept DEF PushVerify, NetTypeOK
  <2> QED
    BY <1>c, <2>1, <2>4
<1>11. CASE PushVerifyAck
  <2>1. PushTypeOK' /\ PushRange'
    BY <1>11, <1>c
    DEF PushVerifyAck, PushGoto, PushReturn, PushTypeOK, PushRange, PushPCs,
        PushStats
  <2>2. NetTypeOK'
    BY <1>11, <1>a, TypesKept, RecvHeader DEF PushVerifyAck, NetTypeOK
  <2> QED
    BY <1>c, <2>1, <2>2
<1>12. CASE PushEnd \/ PushHeaderError \/ PushTimeout \/ PushReset
  <2>1. PICK stat \in PushStats : PushReturn(stat)
    BY <1>12
    DEF PushEnd, PushHeaderError, PushTimeout, PushReset, PushStats,
        pull_RECV_header, header_status
  <2>2. PushTypeOK'
    BY <2>1, PushReturnTypes
  <2>3. PushRange'
    BY <2>1 DEF PushReturn, PushRange
  <2>4. UNCHANGED <<tcp_vars, udp, used>>
    BY <1>12 DEF PushEnd, PushHeaderError, PushTimeout, PushReset
  <2> QED
    BY <1>a, <1>c, <2>2, <2>3, <2>4, TypesKept
<1> QED
  BY <1>1, <1>2, <1>3, <1>4, <1>5, <1>6, <1>7, <1>8, <1>9, <1>10, <1>11,
     <1>12 DEF Pusher

\* Every step of the puller keeps the types.
LEMMA PullerTypes == TypeInv /\ Puller => TypeInv'
<1> SUFFICES ASSUME TypeInv, Puller PROVE TypeInv'
  OBVIOUS
<1> USE DEF TypeInv, TypeOK
<1>a. src' = src /\ UNCHANGED push_vars
  BY DEF Puller, PullStart, PullAccept, PullHandshake, PullStartData,
         PullFlow, PullSegment, PullChunkEnd, PullVerify, PullEnd,
         PullHeaderError, PullTimeout, PullReset
<1>b. src' \in Files /\ PushTypeOK' /\ PushRange' /\ Checksums' = Checksums
  BY <1>a, TypesKept
<1>1. CASE PullStart \/ PullAccept
  <2>1. PICK pc \in PullPCs : PullGoto(pc)
    BY <1>1 DEF PullStart, PullAccept, PullPCs
  <2>2. PullTypeOK'
    BY <1>b, <2>1 DEF PullGoto, PullTypeOK
  <2> QED
    BY <1>1, <1>a, <1>b, <2>2, TypesKept DEF PullStart, PullAccept
<1>2. CASE PullHandshake
  <2> DEFINE c    == Head(toPuller).conf
             size == calc_file_size(c.chcount, c.chsize, c.pchsize)
  <2>1. c \in ConfType
    BY <1>2, SendHeader DEF PullHandshake
  <2>2. size \in Nat
    <3>1. c.chcount \in Nat /\ c.chsize \in Nat /\ c.pchsize \in Nat
      BY <2>1 DEF ConfType
    <3> HIDE DEF c
    <3>2. (c.chcount - 1) * c.chsize + c.pchsize \in Int
      BY <3>1
    <3> QED
      BY <3>2, Mod DEF calc_file_size
  <2>3. create_file(size) \in Seq(Byte)
    BY <2>2, CreateTypes
  <2>4. PullTypeOK'
    BY <1>2, <1>b, <2>1, <2>3 DEF PullHandshake, PullTypeOK, PullPCs
  <2>5. PICK ack \in {0, 1} : push_RECV_header(ack, 0)
    BY <1>2 DEF PullHandshake
  <2>6. toPusher' \in Seq(RecvPackets)
    BY <2>5, RecvAppended
  <2>7. NetTypeOK'
    BY <1>2, <1>a, <2>6, TypesKept, SendHeader DEF PullHandshake, NetTypeOK
  <2> QED
    BY <1>b, <2>4, <2>7
<1>3. CASE PullStartData
  <2>1. PullTypeOK'
    BY <1>3, <1>b DEF PullStartData, PullTypeOK, PullPCs
  <2> QED
    BY <1>3, <1>a, <1>b, <2>1, TypesKept DEF PullStartData
<1>4. CASE PullFlow
  <2>1. pull_seq \in Nat /\ pull_try \in 1..PullTry
    BY DEF PullTypeOK
  <2>2. Head(toPuller).crc \in Checksums
    BY <1>4, FlowHeader DEF PullFlow
  <2>3. PullTypeOK'
    <3>1. CASE match_flow(Head(toPuller))
      <4>1. PullChunk(pull_try, Head(toPuller).crc)
        BY <1>4, <3>1 DEF PullFlow
      <4> QED
        BY <1>a, <2>1, <2>2, <4>1, PullChunkTypes
    <3>2. CASE ~match_flow(Head(toPuller))
      BY <1>4, <1>a, <3>2, PullReturnTypes DEF PullFlow, PullStats
    <3> QED
      BY <3>1, <3>2
  <2>4. PICK ack \in {0, 1} : push_RECV_header(ack, pull_seq)
    BY <1>4 DEF PullFlow
  <2>5. toPusher' \in Seq(RecvPackets)
    BY <2>1, <2>4, RecvAppended
  <2>6. NetTypeOK'
    BY <1>4, <1>a, <2>5, TypesKept, FlowHeader DEF PullFlow, NetTypeOK
  <2> QED
    BY <1>b, <2>3, <2>6
<1>5. CASE PullSegment
  <2> DEFINE n    == segment_size(segsize_of(pull_conf), pull_rsize)
             data == [i \in 1..n |-> Head(udp)[i]]
  <2>1. udp # << >> /\ udp \in Seq(Seq(Byte))
    BY <1>5 DEF PullSegment, NetTypeOK
  <2>2. Head(udp) \in Seq(Byte) /\ Tail(udp) \in Seq(Seq(Byte))
    BY <2>1, HeadTailProperties
  <2>3. n \in Nat /\ n <= pull_rsize
    BY SegmentTypes DEF PullTypeOK
  <2>4. PullTypeOK'
    <3>1. CASE Len(Head(udp)) < n
      BY <1>5, <1>a, <3>1, PullReturnTypes DEF PullSegment, PullStats
    <3>2. CASE ~(Len(Head(udp)) < n)
      <4>1. data \in [1..n -> Byte]
        <5>1. Len(Head(udp)) \in Nat
          BY <2>2, LenProperties
        <5>2. \A i \in 1..n : i \in 1..Len(Head(udp))
          BY <2>3, <3>2, <5>1
        <5> QED
          BY <2>2, <5>2, ElementOfSeq
      <4>2. data \in Seq(Byte)
        BY <2>3, <4>1, FunctionIsSeq
      <4>3. /\ mfwrite(pull_file, pull_pos, data) \in Seq(Byte)
            /\ mfadvance(pull_file, pull_pos, n) \in Nat
        BY <2>3, <4>2, WriteTypes, MFileTypes DEF PullTypeOK
      <4>4. /\ pull_file' = mfwrite(pull_file, pull_pos, data)
            /\ pull_pos' = mfadvance(pull_file, pull_pos, n)
            /\ pull_rsize' = pull_rsize - n
            /\ pull_pc' \in {"chunk_end", "data"}
            /\ UNCHANGED <<pull_stat, pull_conf, pull_seq, pull_try, pull_crc,
                           verdict>>
        BY <1>5, <3>2 DEF PullSegment
      <4> HIDE DEF n, data
      <4> QED
        BY <1>b, <2>3, <4>3, <4>4 DEF PullTypeOK, PullPCs
    <3> QED
      BY <3>1, <3>2
  <2>5. NetTypeOK'
    BY <1>5, <1>a, <2>2, TypesKept DEF PullSegment, NetTypeOK, tcp_vars
  <2> QED
    BY <1>b, <2>4, <2>5
<1>6. CASE PullChunkEnd
  <2>1. pull_seq \in Nat /\ (pull_seq + 1) % U32 \in Nat
    BY Mod DEF PullTypeOK
  <2>2. PullTypeOK'
    <3> DEFINE match ==
                 calc_chunk_crc32(pull_file, pull_conf, pull_seq) = pull_crc
    <3>1. CASE match
      BY <1>6, <1>b, <2>1, <3>1
      DEF PullChunkEnd, PullAccepted, PullTypeOK, PullPCs
    <3>2. CASE ~match /\ pull_try = 1
      <4>1. PullReturn("EXPTRY0")
        BY <1>6, <3>2 DEF PullChunkEnd, PullRefused
      <4> QED
        BY <1>a, <4>1, PullReturnTypes DEF PullStats
    <3>3. CASE ~match /\ pull_try # 1
      <4>1. PullChunk(pull_try - 1, pull_crc)
        BY <1>6, <3>3 DEF PullChunkEnd, PullRefused
      <4>2. pull_try - 1 \in 1..PullTry /\ pull_crc \in Checksums
        BY <3>3 DEF PullTypeOK
      <4> QED
        BY <1>a, <4>1, <4>2, PullChunkTypes
    <3> QED
      BY <3>1, <3>2, <3>3
  <2>3. PICK ack \in {0, 1} : push_RECV_header(ack, pull_seq)
    BY <1>6 DEF PullChunkEnd, PullAccepted, PullRefused
  <2>4. toPusher' \in Seq(RecvPackets)
    BY <2>1, <2>3, RecvAppended
  <2>5. NetTypeOK'
    BY <1>6, <1>a, <2>4, TypesKept DEF PullChunkEnd, NetTypeOK
  <2> QED
    BY <1>b, <2>2, <2>5
<1>7. CASE PullVerify
  <2>1. PullTypeOK'
    BY <1>7, <1>b DEF PullVerify, PullTypeOK, PullPCs
  <2>2. PICK ack \in {0, 1} : push_RECV_header(ack, pull_seq)
    BY <1>7 DEF PullVerify
  <2>3. toPusher' \in Seq(RecvPackets)
    BY <2>2, RecvAppended DEF PullTypeOK
  <2>4. NetTypeOK'
    BY <1>7, <1>a, <2>3, TypesKept, SendHeader DEF PullVerify, NetTypeOK
  <2> QED
    BY <1>b, <2>1, <2>4
<1>8. CASE PullEnd \/ PullHeaderError \/ PullTimeout \/ PullReset
  <2>1. PICK stat \in PullStats : PullReturn(stat)
    BY <1>8
    DEF PullEnd, PullHeaderError, PullTimeout, PullReset, PullStats,
        pull_header, pull_FLOW_header, pull_SEND_header, header_status
  <2>2. PullTypeOK'
    BY <1>a, <2>1, PullReturnTypes
  <2>3. UNCHANGED <<tcp_vars, udp, used>>
    BY <1>8 DEF PullEnd, PullHeaderError, PullTimeout, PullReset
  <2> QED
    BY <1>a, <1>b, <2>2, <2>3, TypesKept
<1> QED
  BY <1>1, <1>2, <1>3, <1>4, <1>5, <1>6, <1>7, <1>8 DEF Puller

\* The environment is charged for what it does.
LEMMA SpendTypes ==
  ASSUME TypeOK, NEW kind \in Kinds, Spend(kind)
  PROVE  used' \in [Kinds -> Nat]
  BY DEF TypeOK, NetTypeOK, Spend

\* So does the environment.
LEMMA NetworkTypes == TypeInv /\ Network => TypeInv'
<1> SUFFICES ASSUME TypeInv, Network PROVE TypeInv'
  OBVIOUS
<1> DEFINE S == Seq(Byte)
<1>1. /\ src' = src /\ UNCHANGED push_vars /\ UNCHANGED pull_vars
      /\ UNCHANGED tcp_vars
  BY DEF Network, Lose, Duplicate, Reorder, Corrupt
<1>2. used' \in [Kinds -> Nat]
  BY SpendTypes DEF Network, Lose, Duplicate, Reorder, Corrupt, Kinds, TypeInv
<1>3. udp \in Seq(S) /\ Len(udp) \in Nat /\ \A i \in 1..Len(udp) : udp[i] \in S
  <2>1. udp \in Seq(S)
    BY DEF TypeInv, TypeOK, NetTypeOK
  <2> HIDE DEF S
  <2> QED
    BY <2>1, LenProperties, ElementOfSeq
<1>4. udp' \in Seq(S)
  <2> HIDE DEF S
  <2>1. CASE Lose
    <3>1. PICK i \in 1..Len(udp) :
            udp' = [j \in 1..(Len(udp) - 1) |->
                      IF j < i THEN udp[j] ELSE udp[j + 1]]
      BY <2>1 DEF Lose
    <3>2. udp' \in [1..(Len(udp) - 1) -> S] /\ Len(udp) - 1 \in Nat
      BY <1>3, <3>1
    <3> QED
      BY <3>2, FunctionIsSeq
  <2>2. CASE Duplicate
    <3>1. PICK i \in 1..Len(udp) : \E k \in i..Len(udp) :
            udp' = [j \in 1..(Len(udp) + 1) |->
                      IF j <= k THEN udp[j]
                      ELSE IF j = k + 1 THEN udp[i] ELSE udp[j - 1]]
      BY <2>2 DEF Duplicate
    <3>2. udp' \in [1..(Len(udp) + 1) -> S] /\ Len(udp) + 1 \in Nat
      BY <1>3, <3>1
    <3> QED
      BY <3>2, FunctionIsSeq
  <2>3. CASE Reorder
    <3>1. PICK i \in 1..(Len(udp) - 1) :
            udp' = [udp EXCEPT ![i] = udp[i + 1], ![i + 1] = udp[i]]
      BY <2>3 DEF Reorder
    <3>2. i \in 1..Len(udp) /\ i + 1 \in 1..Len(udp)
      BY <1>3, <3>1
    <3>3. udp \in [1..Len(udp) -> S]
      BY <1>3, LenProperties
    <3>4. udp' \in [1..Len(udp) -> S]
      BY <1>3, <3>1, <3>2, <3>3
    <3> QED
      BY <1>3, <3>4, FunctionIsSeq
  <2>4. CASE Corrupt
    <3>a. PICK i \in 1..Len(udp) : \E j \in 1..Len(udp[i]) : \E b \in Byte :
            udp' = [udp EXCEPT ![i] = [udp[i] EXCEPT ![j] = b]]
      BY <2>4 DEF Corrupt
    <3>1. PICK j \in 1..Len(udp[i]), b \in Byte :
            udp' = [udp EXCEPT ![i] = [udp[i] EXCEPT ![j] = b]]
      BY <3>a
    <3>2. [udp[i] EXCEPT ![j] = b] \in S
      BY <1>3, ExceptSeq DEF S
    <3> QED
      BY <1>3, <3>1, <3>2, ExceptSeq
  <2> QED
    BY <2>1, <2>2, <2>3, <2>4 DEF Network
<1>5. NetTypeOK'
  BY <1>1, <1>2, <1>4, TypesKept DEF NetTypeOK, tcp_vars, TypeInv, TypeOK
<1> QED
  BY <1>1, <1>5, TypesKept DEF TypeInv, TypeOK

\* A failing process keeps the types.
LEMMA FaultTypes == TypeInv /\ Fault => TypeInv'
<1> SUFFICES ASSUME TypeInv, Fault PROVE TypeInv'
  OBVIOUS
<1>1. src' = src /\ UNCHANGED tcp_vars /\ UNCHANGED udp
  BY DEF Fault, PushFault, PullFault
<1>2. used' \in [Kinds -> Nat]
  BY SpendTypes DEF Fault, PushFault, PullFault, Kinds, TypeInv
<1>3. NetTypeOK'
  BY <1>1, <1>2, TypesKept DEF NetTypeOK, tcp_vars, TypeInv, TypeOK
<1>4. CASE PushFault
  <2>1. PushTypeOK' /\ PushRange'
    BY <1>4, PushReturnTypes
    DEF PushFault, PushReturn, PushRange, PushStats, TypeInv
  <2> QED
    BY <1>1, <1>3, <1>4, <2>1, TypesKept DEF PushFault, TypeInv, TypeOK
<1>5. CASE PullFault
  <2>1. PullTypeOK'
    BY <1>1, <1>5, PullReturnTypes DEF PullFault, PullStats, TypeInv
  <2> QED
    BY <1>1, <1>3, <1>5, <2>1, TypesKept DEF PullFault, TypeInv, TypeOK
<1> QED
  BY <1>4, <1>5 DEF Fault

\* Every step keeps the types and the range of the sequence number.
LEMMA TypeStep == TypeInv /\ [Next]_vars => TypeInv'
<1>1. TypeInv /\ UNCHANGED vars => TypeInv'
  BY TypesKept DEF vars, TypeInv, TypeOK
<1> QED
  BY <1>1, PusherTypes, PullerTypes, NetworkTypes, FaultTypes
  DEF Next, Terminated

\* Every reachable state of a transfer is well typed, and the pusher's
\* sequence number stays within the chunks of the file: for every set of
\* files, chunk size, checksum, number of tries and hostility of the network.
THEOREM TypeCorrect == Spec => [](TypeOK /\ PushRange)
<1>1. Spec => []TypeInv
  BY TypeInit, TypeStep, PTL DEF Spec
<1> QED
  BY <1>1, PTL DEF TypeInv

-----------------------------------------------------------------------------
(***************************************************************************)
(* The two sides of a transfer stay in step, and what follows from it:     *)
(* success is reported only for a verified file, no packet arrives where   *)
(* another is expected, and answers are matched to the right chunk.        *)
(***************************************************************************)

\* The empty queue, and the queue with one packet.
LEMMA NoElements == Len(<< >>) = 0 /\ ~\E i \in 1..Len(<< >>) : TRUE
<1>1. Len(<< >>) = 0
  OBVIOUS
<1>2. ~\E i \in 1..0 : TRUE
  OBVIOUS
<1> QED
  BY <1>1, <1>2, Zenon

\* A queue with one packet.
LEMMA Single ==
  ASSUME NEW x
  PROVE  /\ Head(<<x>>) = x /\ Tail(<<x>>) = << >> /\ Append(<< >>, x) = <<x>>
         /\ <<x>> # << >> /\ Len(<<x>>) = 1 /\ <<x>>[1] = x
  OBVIOUS

\* A sequence loses its head, and the rest moves up.
LEMMA Pop ==
  ASSUME NEW S, NEW q \in Seq(S), q # << >>
  PROVE  /\ Head(q) = q[1] /\ Len(q) \in Nat \ {0}
         /\ Tail(q) \in Seq(S) /\ Len(Tail(q)) = Len(q) - 1
         /\ \A i \in 1..Len(Tail(q)) : Tail(q)[i] = q[i + 1]
         /\ Len(q) = 1 <=> Tail(q) = << >>
<1>1. Len(q) \in Nat \ {0}
  BY EmptySeq
<1>2. /\ Tail(q) \in Seq(S) /\ Len(Tail(q)) = Len(q) - 1
      /\ \A i \in 1..Len(Tail(q)) : Tail(q)[i] = q[i + 1]
  BY HeadTailProperties
<1>3. Head(q) = q[1]
  BY SMT
<1>4. Len(q) = 1 <=> Tail(q) = << >>
  <2>1. Tail(q) = << >> => Len(Tail(q)) = 0
    BY EmptySeq
  <2>2. Tail(q) # << >> => Len(Tail(q)) # 0
    BY <1>2, EmptySeq
  <2> QED
    BY <1>1, <1>2, <2>1, <2>2
<1> QED
  BY <1>1, <1>2, <1>3, <1>4

\* The views depend on the pusher's and the puller's variables and on the
\* queues; UDP and the budget do not matter.
LEMMA InStepKept ==
  ASSUME InStep, src' = src, UNCHANGED push_vars, UNCHANGED pull_vars,
         UNCHANGED tcp_vars
  PROVE  InStep'
<1>1. conf' = conf /\ \A seq : FlowOf(seq)' = FlowOf(seq)
  BY DEF conf, FlowOf, calc_chunk_crc32
<1>2. PullRange' /\ PullQueue' /\ PullFile'
  BY <1>1 DEF InStep, PullRange, PullQueue, PullFile, pull_vars, tcp_vars,
              FlowOf, calc_chunk_crc32
<1>3. PushHandshakeView' /\ PushTransferView' /\ PushVerifyView' /\ Outcomes'
  BY <1>1 DEF InStep, PushHandshakeView, PushTransferView, PushVerifyView,
              Outcomes, Quiet, ChunkPhase, push_vars, pull_vars, tcp_vars
<1> QED
  BY <1>2, <1>3 DEF InStep

\* Before anything happens the two sides are in step.
LEMMA InStepInit == Init => InStep
  BY ConfOK
  DEF Init, InStep, PullRange, PullQueue, PullFile, PushHandshakeView,
      PushTransferView, PushVerifyView, Outcomes, Quiet

\* When the pusher returns, only the puller's view is left to keep.
LEMMA PushReturnInStep ==
  ASSUME IInv, src' = src, UNCHANGED pull_vars, toPuller' = toPuller,
         NEW stat, stat \notin {"BADTYPE", "EXPTRY0"},
         stat = "SUCCESS" => verdict = "match",
         push_pc' = "done", push_stat' = stat
  PROVE  InStep'
<1>1. conf' = conf
  BY DEF conf
<1>2. PullRange' /\ PullQueue' /\ PullFile'
  BY <1>1 DEF IInv, InStep, PullRange, PullQueue, PullFile, pull_vars,
              FlowOf, calc_chunk_crc32
<1>3. PushHandshakeView' /\ PushTransferView' /\ PushVerifyView' /\ Outcomes'
  BY DEF IInv, InStep, PushHandshakeView, PushTransferView, PushVerifyView,
         Outcomes, pull_vars
<1> QED
  BY <1>2, <1>3 DEF InStep

\* When the puller returns, and has said nothing more, every view allows it.
LEMMA PullReturnInStep ==
  ASSUME IInv, src' = src, UNCHANGED push_vars, UNCHANGED tcp_vars,
         NEW stat, stat \notin {"BADTYPE", "BADFLOW"},
         stat = "SUCCESS" => verdict # "none",
         PullReturn(stat)
  PROVE  InStep'
<1>1. conf' = conf
  BY DEF conf
<1>2. PullRange' /\ PullQueue' /\ PullFile'
  BY <1>1 DEF IInv, InStep, PullRange, PullQueue, PullFile, PullReturn
<1>3. PushHandshakeView' /\ PushVerifyView' /\ Outcomes'
  BY DEF IInv, InStep, PushHandshakeView, PushVerifyView, Outcomes, Quiet,
         PullReturn, push_vars, tcp_vars
<1>4. PushTransferView'
  BY DEF IInv, InStep, PushTransferView, Quiet, ChunkPhase, PullReturn,
         push_vars, tcp_vars
<1> QED
  BY <1>2, <1>3, <1>4 DEF InStep

-----------------------------------------------------------------------------
(***************************************************************************)
(* The pusher's steps.                                                     *)
(***************************************************************************)
\* A step of the pusher that leaves the queue of the puller alone keeps the
\* puller's view.
LEMMA PullViewKept ==
  ASSUME InStep, src' = src, UNCHANGED pull_vars, toPuller' = toPuller
  PROVE  PullRange' /\ PullQueue' /\ PullFile' /\ conf' = conf
  BY DEF InStep, PullRange, PullQueue, PullFile, pull_vars, FlowOf,
         calc_chunk_crc32, conf

\* Opening the file, or failing to.
LEMMA OpenInStep == IInv /\ PushOpen => InStep'
<1> SUFFICES ASSUME IInv, PushOpen PROVE InStep'
  OBVIOUS
<1>1. CASE mfopen(src)
  <2>1. PullRange' /\ PullQueue' /\ PullFile'
    BY PullViewKept DEF IInv, PushOpen, tcp_vars
  <2>2. PushHandshakeView' /\ PushTransferView' /\ PushVerifyView' /\ Outcomes'
    BY <1>1 DEF IInv, InStep, PushOpen, PushGoto, PushHandshakeView,
                PushTransferView, PushVerifyView, Outcomes, Quiet, pull_vars,
                tcp_vars
  <2> QED
    BY <2>1, <2>2 DEF InStep
<1>2. CASE ~mfopen(src)
  BY <1>2, PushReturnInStep DEF PushOpen, PushReturn, tcp_vars
<1> QED
  BY <1>1, <1>2

\* Connecting: the puller listens and has said nothing.
LEMMA ConnectInStep == IInv /\ PushConnect => InStep'
<1> SUFFICES ASSUME IInv, PushConnect PROVE InStep'
  OBVIOUS
<1>1. CASE pull_pc = "accept"
  <2>1. PullRange' /\ PullQueue' /\ PullFile'
    BY PullViewKept DEF IInv, PushConnect
  <2>2. PushHandshakeView' /\ PushTransferView' /\ PushVerifyView' /\ Outcomes'
    BY <1>1 DEF IInv, InStep, PushConnect, PushGoto, PushHandshakeView,
                PushTransferView, PushVerifyView, Outcomes, Quiet, pull_vars
  <2> QED
    BY <2>1, <2>2 DEF InStep
<1>2. CASE pull_pc # "accept"
  BY <1>2, PushReturnInStep DEF PushConnect, PushReturn
<1> QED
  BY <1>1, <1>2

\* The first SEND packet is the only one on the way.
LEMMA HandshakeInStep == IInv /\ PushHandshake => InStep'
<1> SUFFICES ASSUME IInv, PushHandshake PROVE InStep'
  OBVIOUS
<1>1. /\ toPuller = << >> /\ toPusher = << >>
      /\ pull_pc \in {"accept", "handshake", "done"}
  BY DEF IInv, InStep, PushHandshake, PushHandshakeView, Quiet
<1>2. toPuller' = <<SEND(conf, 0)>>
  BY <1>1, Single DEF PushHandshake, push_SEND_header
<1>3. conf' = conf /\ SEND(conf, 0)' = SEND(conf, 0)
  BY DEF PushHandshake, conf, SEND
<1>4. PullRange' /\ PullQueue' /\ PullFile'
  BY <1>1, <1>2, <1>3
  DEF IInv, InStep, PushHandshake, PullRange, PullQueue, PullFile, pull_vars
<1>5. PushHandshakeView' /\ PushTransferView' /\ PushVerifyView' /\ Outcomes'
  BY <1>1
  DEF IInv, InStep, PushHandshake, PushGoto, PushHandshakeView,
      PushTransferView, PushVerifyView, Outcomes, pull_vars
<1> QED
  BY <1>4, <1>5 DEF InStep

\* An accepted handshake finds the puller at chunk 1 with its file mapped.
LEMMA HandshakeAckInStep == IInv /\ PushHandshakeAck => InStep'
<1> SUFFICES ASSUME IInv, PushHandshakeAck PROVE InStep'
  OBVIOUS
<1>1. /\ toPusher # << >> /\ toPusher \in Seq(RecvPackets)
      /\ Head(toPusher).ack \in {0, 1}
  BY RecvHeader DEF IInv, TypeInv, TypeOK, NetTypeOK, PushHandshakeAck
<1>2. /\ Len(toPusher) = 1
      /\ toPusher[1].ack = 1 => pull_file # << >>
      /\ toPuller = << >>
      /\ pull_pc \in {"start_data", "flow", "done"}
      /\ pull_seq = 1
  BY <1>1 DEF IInv, InStep, PushHandshakeAck, PushHandshakeView
<1>3. Head(toPusher) = toPusher[1] /\ toPusher' = << >>
  BY <1>1, <1>2, Pop DEF PushHandshakeAck
<1>4. CASE Head(toPusher).ack = 0
  BY <1>4, PushReturnInStep DEF PushHandshakeAck
<1>5. CASE Head(toPusher).ack = 1
  <2>1. PullRange' /\ PullQueue' /\ PullFile'
    BY PullViewKept DEF IInv, PushHandshakeAck
  <2>2. PushHandshakeView' /\ PushTransferView' /\ PushVerifyView' /\ Outcomes'
    BY <1>2, <1>3, <1>5
    DEF IInv, InStep, PushHandshakeAck, PushHandshakeView, PushTransferView,
        PushVerifyView, Outcomes, Quiet, pull_vars
  <2> QED
    BY <2>1, <2>2 DEF InStep
<1> QED
  BY <1>1, <1>4, <1>5

\* There is at least one chunk, so the loop is entered.
LEMMA StartDataInStep == IInv /\ PushStartData => InStep'
<1> SUFFICES ASSUME IInv, PushStartData PROVE InStep'
  OBVIOUS
<1>1. push_seq = 1 /\ conf.chcount \in Nat \ {0}
  BY ConfOK DEF IInv, TypeInv, TypeOK, PushRange, PushStartData
<1>2. push_pc' = "flow"
  BY <1>1 DEF PushStartData
<1>3. PullRange' /\ PullQueue' /\ PullFile'
  BY PullViewKept DEF IInv, PushStartData, tcp_vars
<1>4. PushHandshakeView' /\ PushTransferView' /\ PushVerifyView' /\ Outcomes'
  BY <1>2
  DEF IInv, InStep, PushStartData, PushHandshakeView, PushTransferView,
      PushVerifyView, Outcomes, Quiet, pull_vars, tcp_vars
<1> QED
  BY <1>3, <1>4 DEF InStep

\* The FLOW packet announces the chunk the puller is at.
LEMMA FlowInStep == IInv /\ PushFlow => InStep'
<1> SUFFICES ASSUME IInv, PushFlow PROVE InStep'
  OBVIOUS
<1>1. /\ toPuller = << >> /\ toPusher = << >>
      /\ pull_pc \in {"start_data", "flow", "done"}
      /\ pull_seq = push_seq
  BY DEF IInv, InStep, PushFlow, PushTransferView, Quiet
<1>2. toPuller' = <<FlowOf(pull_seq)>>
  BY <1>1, Single DEF PushFlow, push_FLOW_header, FlowOf
<1>3. conf' = conf /\ FlowOf(pull_seq)' = FlowOf(pull_seq)
  BY DEF PushFlow, conf, FlowOf, calc_chunk_crc32, pull_vars
<1>4. pull_file # << >>
  BY DEF IInv, InStep, PushFlow, PushVerifyView
<1>5. PullRange' /\ PullQueue' /\ PullFile'
  BY <1>1, <1>2, <1>3, <1>4
  DEF IInv, InStep, PushFlow, PullRange, PullQueue, PullFile, pull_vars
<1>6. PushHandshakeView' /\ PushTransferView' /\ PushVerifyView' /\ Outcomes'
  BY <1>1
  DEF IInv, InStep, PushFlow, PushGoto, PushHandshakeView, PushTransferView,
      PushVerifyView, Outcomes, pull_vars
<1> QED
  BY <1>5, <1>6 DEF InStep

\* Sending a chunk, for the first time or again, leaves the answers queued
\* for it as they are.
LEMMA PushChunkInStep ==
  ASSUME IInv, src' = src, UNCHANGED pull_vars, conn' = conn,
         toPuller' = toPuller, toPuller = << >>,
         push_pc \in {"flow_ack", "data_ack"},
         NEW try, PushChunk(try),
         ChunkPhase(toPusher', PushTry - try)
  PROVE  InStep'
<1>1. CASE PushReturn("EMFSEEK")
  BY <1>1, PushReturnInStep DEF PushReturn
<1>2. CASE /\ push_pc' \in {"data", "data_ack"}
           /\ push_try' = try
           /\ UNCHANGED <<push_stat, push_seq>>
  <2>1. PullRange' /\ PullQueue' /\ PullFile'
    BY PullViewKept DEF IInv
  <2>2. ChunkPhase(toPusher, PushTry - push_try)'
    BY <1>2 DEF ChunkPhase, pull_vars
  <2>3. PushHandshakeView' /\ PushTransferView' /\ PushVerifyView' /\ Outcomes'
    BY <1>2, <2>2
    DEF IInv, InStep, PushHandshakeView, PushTransferView, PushVerifyView,
        Outcomes, pull_vars
  <2> QED
    BY <2>1, <2>3 DEF InStep
<1> QED
  BY <1>1, <1>2 DEF PushChunk

\* The answer to a FLOW packet is an ACK, and the chunk's answers follow it.
LEMMA FlowAckInStep == IInv /\ PushFlowAck => InStep'
<1> SUFFICES ASSUME IInv, PushFlowAck PROVE InStep'
  OBVIOUS
<1>1. toPusher # << >> /\ toPusher \in Seq(RecvPackets)
  BY RecvHeader DEF IInv, TypeInv, TypeOK, NetTypeOK, PushFlowAck
<1>2. /\ toPusher[1].ack = 1
      /\ toPuller = << >>
      /\ ChunkPhase(Tail(toPusher), 0)
  BY <1>1 DEF IInv, InStep, PushFlowAck, PushTransferView
<1>3. Head(toPusher) = toPusher[1]
  BY <1>1, Pop
<1>4. PushChunk(PushTry)
  BY <1>2, <1>3 DEF PushFlowAck
<1>5. ChunkPhase(toPusher', PushTry - PushTry)
  <2>1. PushTry - PushTry = 0
    OBVIOUS
  <2>2. toPusher' = Tail(toPusher)
    BY DEF PushFlowAck
  <2> QED
    BY <1>2, <2>1, <2>2
<1> QED
  BY <1>2, <1>4, <1>5, PushChunkInStep DEF PushFlowAck

\* Sending a segment changes nothing between the two state machines.
LEMMA SegmentInStep == IInv /\ PushSegment => InStep'
<1> SUFFICES ASSUME IInv, PushSegment PROVE InStep'
  OBVIOUS
<1>1. push_pc' \in {"data", "data_ack"} /\ push_pc = "data"
  BY DEF PushSegment
<1>2. PullRange' /\ PullQueue' /\ PullFile'
  BY PullViewKept DEF IInv, PushSegment, tcp_vars
<1>3. ChunkPhase(toPusher, PushTry - push_try)' /\ toPuller' = << >>
  BY <1>1
  DEF IInv, InStep, PushSegment, PushTransferView, ChunkPhase, pull_vars,
      tcp_vars
<1>4. PushHandshakeView' /\ PushTransferView' /\ PushVerifyView' /\ Outcomes'
  BY <1>1, <1>3
  DEF IInv, InStep, PushSegment, PushHandshakeView, PushTransferView,
      PushVerifyView, Outcomes, pull_vars, tcp_vars
<1> QED
  BY <1>2, <1>4 DEF InStep

\* An ACK means the puller is one ahead and the queue behind it empty; a NACK
\* costs the pusher the try it has already cost the puller.
LEMMA ChunkAckInStep == IInv /\ PushChunkAck => InStep'
<1> SUFFICES ASSUME IInv, PushChunkAck PROVE InStep'
  OBVIOUS
<1>1. toPusher # << >> /\ toPusher \in Seq(RecvPackets)
  BY RecvHeader DEF IInv, TypeInv, TypeOK, NetTypeOK, PushChunkAck
<1>2. toPuller = << >> /\ ChunkPhase(toPusher, PushTry - push_try)
  BY DEF IInv, InStep, PushChunkAck, PushTransferView
<1>3. /\ Head(toPusher) = toPusher[1] /\ Len(toPusher) \in Nat \ {0}
      /\ Tail(toPusher) \in Seq(RecvPackets)
      /\ Len(Tail(toPusher)) = Len(toPusher) - 1
      /\ \A i \in 1..Len(Tail(toPusher)) : Tail(toPusher)[i] = toPusher[i + 1]
      /\ Len(toPusher) = 1 <=> Tail(toPusher) = << >>
  BY <1>1, Pop
<1>a. \A i \in 1..Len(toPusher) :
        /\ toPusher[i].sequence = push_seq
        /\ toPusher[i].ack = 1 <=>
             (i = Len(toPusher) /\ pull_seq = push_seq + 1)
  BY <1>2 DEF ChunkPhase
<1>4. toPusher[1].ack = 1 <=> (1 = Len(toPusher) /\ pull_seq = push_seq + 1)
  <2>1. 1 \in 1..Len(toPusher)
    BY <1>3
  <2> QED
    BY <1>a, <2>1, Zenon
<1>5. /\ src' = src /\ UNCHANGED pull_vars /\ conn' = conn
      /\ toPuller' = toPuller /\ toPusher' = Tail(toPusher)
  BY DEF PushChunkAck
<1>6. CASE Head(toPusher).ack = 1
  <2>1. /\ toPusher' = << >>
        /\ pull_seq = push_seq + 1
        /\ pull_pc \in {"flow", "verify", "done"}
    BY <1>2, <1>3, <1>4, <1>5, <1>6 DEF ChunkPhase
  <2>2. push_seq \in 1..conf.chcount /\ conf.chcount \in Nat
    BY ConfOK DEF IInv, TypeInv, TypeOK, PushRange, PushChunkAck
  <2>3. push_seq' = pull_seq
    BY <1>6, <2>1, <2>2, NextSeq
    DEF PushChunkAck, PushAccepted, IInv, TypeInv, TypeOK
  <2>4. PullRange' /\ PullQueue' /\ PullFile'
    BY <1>5, PullViewKept DEF IInv
  <2>5. /\ push_pc' = IF pull_seq <= conf.chcount THEN "flow" ELSE "verify"
        /\ push_stat' = push_stat
    BY <1>6, <2>3 DEF PushChunkAck, PushAccepted
  <2>6. /\ push_pc' = "flow" => pull_pc \in {"flow", "done"}
        /\ push_pc' = "verify" => pull_pc \in {"verify", "done"}
    BY <2>1, <2>2, <2>5 DEF IInv, InStep, PullRange
  <2>7. PushHandshakeView' /\ PushTransferView' /\ PushVerifyView' /\ Outcomes'
    BY <1>2, <1>5, <2>1, <2>3, <2>5, <2>6
    DEF IInv, InStep, PushChunkAck, PushHandshakeView, PushTransferView,
        PushVerifyView, Outcomes, Quiet, pull_vars
  <2> QED
    BY <2>4, <2>7 DEF InStep
<1>7. CASE Head(toPusher).ack # 1 /\ push_try = 1
  BY <1>5, <1>7, PushReturnInStep
  DEF PushChunkAck, PushRetry, PushReturn
<1>8. CASE Head(toPusher).ack # 1 /\ push_try # 1
  <2>1. PushChunk(push_try - 1)
    BY <1>8 DEF PushChunkAck, PushRetry
  <2>2. push_try \in Nat /\ pull_try \in Nat
    BY DEF IInv, TypeInv, TypeOK, PushTypeOK, PullTypeOK
  <2>3. \A i \in 1..Len(Tail(toPusher)) :
          /\ Tail(toPusher)[i].sequence = push_seq
          /\ Tail(toPusher)[i].ack = 1 <=>
               (i = Len(Tail(toPusher)) /\ pull_seq = push_seq + 1)
    <3> TAKE i \in 1..Len(Tail(toPusher))
    <3>1. /\ i + 1 \in 1..Len(toPusher)
          /\ i + 1 = Len(toPusher) <=> i = Len(Tail(toPusher))
      BY <1>3
    <3>2. /\ toPusher[i + 1].sequence = push_seq
          /\ toPusher[i + 1].ack = 1 <=>
               (i + 1 = Len(toPusher) /\ pull_seq = push_seq + 1)
      BY <1>a, <3>1, Zenon
    <3>3. Tail(toPusher)[i] = toPusher[i + 1]
      BY <1>3, Zenon
    <3> QED
      BY <3>1, <3>2, <3>3, Zenon
  <2>4. pull_pc \in {"data", "chunk_end"} =>
          (PushTry - (push_try - 1)) + Len(Tail(toPusher)) = PullTry - pull_try
    <3>1. pull_pc \in {"data", "chunk_end"} =>
            (PushTry - push_try) + Len(toPusher) = PullTry - pull_try
      BY <1>2 DEF ChunkPhase
    <3> QED
      BY <1>3, <2>2, <3>1
  <2>5. pull_seq = push_seq + 1 => Tail(toPusher) # << >>
    BY <1>3, <1>4, <1>8
  <2>6. ChunkPhase(Tail(toPusher), PushTry - (push_try - 1))
    BY <1>2, <2>3, <2>4, <2>5 DEF ChunkPhase
  <2>7. push_pc = "data_ack"
    BY DEF PushChunkAck
  <2> QED
    BY <1>2, <1>5, <2>1, <2>6, <2>7, PushChunkInStep
<1> QED
  BY <1>6, <1>7, <1>8

\* The second SEND packet meets a puller past its last chunk.
LEMMA VerifyInStep == IInv /\ PushVerify => InStep'
<1> SUFFICES ASSUME IInv, PushVerify PROVE InStep'
  OBVIOUS
<1>1. /\ toPuller = << >> /\ toPusher = << >> /\ verdict = "none"
      /\ pull_pc \in {"verify", "done"}
  BY DEF IInv, InStep, PushVerify, PushVerifyView, Quiet
<1>2. toPuller' = <<SEND(conf, Crc16(src))>>
  BY <1>1, Single DEF PushVerify, push_SEND_header
<1>3. conf' = conf /\ SEND(conf, Crc16(src))' = SEND(conf, Crc16(src))
  BY DEF PushVerify, conf, SEND
<1>4. PullRange' /\ PullQueue' /\ PullFile'
  BY <1>1, <1>2, <1>3
  DEF IInv, InStep, PushVerify, PullRange, PullQueue, PullFile, pull_vars
<1>5. PushHandshakeView' /\ PushTransferView' /\ PushVerifyView' /\ Outcomes'
  BY <1>1
  DEF IInv, InStep, PushVerify, PushGoto, PushHandshakeView,
      PushTransferView, PushVerifyView, Outcomes, pull_vars
<1> QED
  BY <1>4, <1>5 DEF InStep

\* The last answer is the puller's verdict.
LEMMA VerifyAckInStep == IInv /\ PushVerifyAck => InStep'
<1> SUFFICES ASSUME IInv, PushVerifyAck PROVE InStep'
  OBVIOUS
<1>1. /\ toPusher # << >> /\ toPusher \in Seq(RecvPackets)
      /\ Head(toPusher).ack \in {0, 1}
  BY RecvHeader DEF IInv, TypeInv, TypeOK, NetTypeOK, PushVerifyAck
<1>2. toPusher[1].ack = 1 <=> verdict = "match"
  BY <1>1 DEF IInv, InStep, PushVerifyAck, PushVerifyView
<1>3. Head(toPusher) = toPusher[1]
  BY <1>1, Pop
<1>4. CASE Head(toPusher).ack = 0
  BY <1>4, PushReturnInStep DEF PushVerifyAck, PushReturn
<1>5. CASE Head(toPusher).ack = 1
  <2>1. PullRange' /\ PullQueue' /\ PullFile'
    BY PullViewKept DEF IInv, PushVerifyAck
  <2>2. PushHandshakeView' /\ PushTransferView' /\ PushVerifyView' /\ Outcomes'
    BY <1>2, <1>3, <1>5
    DEF IInv, InStep, PushVerifyAck, PushGoto, PushHandshakeView,
        PushTransferView, PushVerifyView, Outcomes, pull_vars
  <2> QED
    BY <2>1, <2>2 DEF InStep
<1> QED
  BY <1>1, <1>4, <1>5

\* Every step of the pusher.
LEMMA PusherInStep == IInv /\ Pusher => InStep'
<1> SUFFICES ASSUME IInv, Pusher PROVE InStep'
  OBVIOUS
<1>1. CASE PushEnd
  BY <1>1, PushReturnInStep
  DEF IInv, InStep, PushVerifyView, PushEnd, PushReturn, tcp_vars
<1>2. CASE PushHeaderError
  <2>1. toPusher # << >> => Head(toPusher) \in RecvPackets
    BY HeadTailProperties DEF IInv, TypeInv, TypeOK, NetTypeOK
  <2>2. pull_RECV_header = "LOWSIZE"
    BY <1>2, <2>1
    DEF PushHeaderError, pull_RECV_header, header_status, RecvPackets
  <2> QED
    BY <1>2, <2>2, PushReturnInStep DEF PushHeaderError, PushReturn, tcp_vars
<1>3. CASE PushTimeout \/ PushReset
  BY <1>3, PushReturnInStep DEF PushTimeout, PushReset, PushReturn, tcp_vars
<1> QED
  BY <1>1, <1>2, <1>3, OpenInStep, ConnectInStep, HandshakeInStep,
     HandshakeAckInStep, StartDataInStep, FlowInStep, FlowAckInStep,
     SegmentInStep, ChunkAckInStep, VerifyInStep, VerifyAckInStep
  DEF Pusher

-----------------------------------------------------------------------------
(***************************************************************************)
(* The puller's steps.                                                     *)
(***************************************************************************)
LEMMA PullStartInStep == IInv /\ (PullStart \/ PullAccept) => InStep'
<1> SUFFICES ASSUME IInv, PullStart \/ PullAccept PROVE InStep'
  OBVIOUS
<1>1. conf' = conf
  BY DEF PullStart, PullAccept, conf
<1>2. PullRange' /\ PullQueue' /\ PullFile'
  BY <1>1
  DEF IInv, InStep, PullStart, PullAccept, PullGoto, PullRange, PullQueue,
      PullFile, tcp_vars, SEND
<1>3. PushHandshakeView' /\ PushTransferView' /\ PushVerifyView' /\ Outcomes'
  BY DEF IInv, InStep, PullStart, PullAccept, PullGoto, PushHandshakeView,
         PushTransferView, PushVerifyView, Outcomes, Quiet, ChunkPhase,
         push_vars, tcp_vars
<1> QED
  BY <1>2, <1>3 DEF InStep

\* The puller creates a file of the pusher's size, or refuses it.
LEMMA PullHandshakeInStep == IInv /\ PullHandshake => InStep'
<1> SUFFICES ASSUME IInv, PullHandshake PROVE InStep'
  OBVIOUS
<1>1. src \in Files /\ conf' = conf /\ src' = src
  BY DEF IInv, TypeInv, TypeOK, PullHandshake, conf
<1>2. toPuller = <<SEND(conf, 0)>>
  BY DEF IInv, InStep, PullHandshake, PullQueue, pull_SEND_header,
         header_status
<1>3. Head(toPuller).conf = conf /\ toPuller' = << >>
  BY <1>2, Single DEF PullHandshake, SEND
<1>4. calc_file_size(conf.chcount, conf.chsize, conf.pchsize) = Len(src)
  BY <1>1, SizeRebuilt DEF conf
<1>5. /\ pull_conf' = conf /\ pull_file' = create_file(Len(src))
      /\ pull_seq' = 1 /\ pull_pc' = "start_data"
      /\ UNCHANGED <<pull_try, verdict, pull_stat>>
  BY <1>3, <1>4 DEF PullHandshake
<1>6. pull_file' # << >> => Len(pull_file') = Len(src)
  BY <1>1, <1>5, CreateTypes, LenProperties
<1>7. PICK ack \in {0, 1} :
        /\ toPusher' = Append(toPusher, RECV(ack, 0))
        /\ ack = 1 => pull_file' # << >>
  BY <1>3, <1>4, <1>5 DEF PullHandshake, push_RECV_header, mfopen
<1>8. verdict = "none"
  BY DEF IInv, InStep, PullHandshake, PullFile
<1>9. PullRange' /\ PullQueue' /\ PullFile'
  BY <1>1, <1>3, <1>5, <1>6, <1>8 DEF PullRange, PullQueue, PullFile
<1>10. push_pc \in {"send_ack", "done"}
  BY <1>2, <1>8, Single
  DEF IInv, InStep, TypeInv, TypeOK, PushTypeOK, PushPCs, PullHandshake,
      PushHandshakeView, PushTransferView, PushVerifyView, Quiet, ChunkPhase
<1>11. CASE push_pc = "done"
  <2>1. push_pc' = "done" /\ push_stat' = push_stat
    BY <1>11 DEF PullHandshake, push_vars
  <2> QED
    BY <1>5, <1>8, <1>9, <2>1
    DEF IInv, InStep, PullHandshake, PushHandshakeView, PushTransferView,
        PushVerifyView, Outcomes
<1>12. CASE push_pc = "send_ack"
  <2>1. toPusher = << >>
    BY <1>2, <1>12, Single DEF IInv, InStep, PushHandshakeView, PullHandshake
  <2>2. toPusher' = <<RECV(ack, 0)>>
    BY <1>7, <2>1, Single
  <2>3. Len(toPusher') = 1 /\ (toPusher'[1].ack = 1 => pull_file' # << >>)
    <3>1. Len(toPusher') = 1 /\ toPusher'[1] = RECV(ack, 0)
      BY <2>2, Single, Zenon
    <3>2. RECV(ack, 0).ack = ack
      BY DEF RECV
    <3> QED
      BY <1>7, <3>1, <3>2, Zenon
  <2>4. push_pc' = "send_ack" /\ push_stat' = push_stat /\ conn' = conn
    BY <1>12 DEF PullHandshake, push_vars
  <2>5. PushHandshakeView'
    BY <1>3, <1>5, <1>12, <2>3, <2>4
    DEF IInv, InStep, PushHandshakeView
  <2>6. PushTransferView' /\ PushVerifyView' /\ Outcomes'
    BY <1>5, <1>8, <1>12, <2>4
    DEF IInv, InStep, PullHandshake, PushTransferView, PushVerifyView,
        Outcomes
  <2> QED
    BY <1>9, <2>5, <2>6 DEF InStep
<1> QED
  BY <1>10, <1>11, <1>12

\* The puller enters its loop at chunk 1.
LEMMA PullStartDataInStep == IInv /\ PullStartData => InStep'
<1> SUFFICES ASSUME IInv, PullStartData PROVE InStep'
  OBVIOUS
<1>1. /\ conf' = conf /\ conf.chcount \in Nat \ {0}
      /\ pull_seq = 1 /\ pull_conf = conf
  BY ConfOK DEF IInv, InStep, TypeInv, TypeOK, PullStartData, PullRange, conf
<1>2. pull_pc' = "flow"
  BY <1>1 DEF PullStartData
<1>3. FlowOf(pull_seq)' = FlowOf(pull_seq)
  BY <1>1 DEF PullStartData, FlowOf, calc_chunk_crc32
<1>4. PullRange' /\ PullQueue' /\ PullFile'
  BY <1>1, <1>2, <1>3
  DEF IInv, InStep, PullStartData, PullRange, PullQueue, PullFile, tcp_vars
<1>5. PushHandshakeView' /\ PushTransferView' /\ PushVerifyView' /\ Outcomes'
  BY <1>2
  DEF IInv, InStep, PullStartData, PushHandshakeView, PushTransferView,
      PushVerifyView, Outcomes, Quiet, ChunkPhase, push_vars, tcp_vars
<1> QED
  BY <1>4, <1>5 DEF InStep

\* A FLOW packet is the one for the puller's chunk, so it is acknowledged.
LEMMA PullFlowInStep == IInv /\ PullFlow => InStep'
<1> SUFFICES ASSUME IInv, PullFlow PROVE InStep'
  OBVIOUS
<1>1. /\ pull_pc = "flow" /\ src' = src /\ conf' = conf
      /\ UNCHANGED push_vars /\ conn' = conn
  BY DEF PullFlow, conf
<1>2. toPuller = <<FlowOf(pull_seq)>>
  BY DEF IInv, InStep, PullFlow, PullQueue, pull_FLOW_header, header_status
<1>3. Head(toPuller) = FlowOf(pull_seq) /\ toPuller' = << >>
  BY <1>2, Single DEF PullFlow
<1>4. /\ pull_conf = conf /\ pull_try = PullTry /\ pull_file # << >>
      /\ pull_seq \in 1..conf.chcount /\ verdict = "none"
      /\ pull_file # << >> => Len(pull_file) = Len(src)
  BY <1>1, <1>2, Single DEF IInv, InStep, PullRange, PullFile
<1>5. match_flow(Head(toPuller))
  BY <1>3, <1>4 DEF match_flow, FlowOf, FLOW
<1>6. /\ toPusher' = Append(toPusher, RECV(1, pull_seq))
      /\ PullChunk(pull_try, Head(toPuller).crc)
  BY <1>5 DEF PullFlow, push_RECV_header
<1>7. Head(toPuller).crc = calc_chunk_crc32(src, conf, pull_seq)
  BY <1>3 DEF FlowOf, FLOW
<1>8. /\ UNCHANGED <<pull_conf, pull_seq, pull_try, pull_file, verdict>>
      /\ \/ pull_pc' = "done" /\ pull_stat' = "EMFSEEK"
         \/ /\ pull_pc' \in {"chunk_end", "data"} /\ pull_stat' = pull_stat
            /\ pull_crc' = calc_chunk_crc32(src, conf, pull_seq)
  BY <1>6, <1>7 DEF PullChunk, PullReturn
<1>9. PullRange' /\ PullQueue' /\ PullFile'
  <2>1. calc_chunk_crc32(src, conf, pull_seq)' =
          calc_chunk_crc32(src, conf, pull_seq)
    BY <1>1, <1>8 DEF calc_chunk_crc32
  <2> QED
    BY <1>1, <1>3, <1>4, <1>8, <2>1 DEF PullRange, PullQueue, PullFile
<1>10. push_pc \in {"flow_ack", "done"}
  BY <1>1, <1>2, <1>4, Single
  DEF IInv, InStep, TypeInv, TypeOK, PushTypeOK, PushPCs,
      PushHandshakeView, PushTransferView, PushVerifyView, Quiet
<1>11. Outcomes'
  BY <1>1, <1>4, <1>8 DEF IInv, InStep, Outcomes, push_vars
<1>12. CASE push_pc = "done"
  BY <1>1, <1>4, <1>8, <1>9, <1>11, <1>12
  DEF InStep, PushHandshakeView, PushTransferView, PushVerifyView, push_vars
<1>13. CASE push_pc = "flow_ack"
  <2>1. toPusher = << >> /\ pull_seq = push_seq /\ conn
    BY <1>1, <1>2, <1>13, Single
    DEF IInv, InStep, PushHandshakeView, PushTransferView
  <2>2. toPusher' = <<RECV(1, pull_seq)>>
    BY <1>6, <2>1, Single
  <2>3. /\ toPusher' # << >> /\ toPusher'[1].ack = 1
        /\ Tail(toPusher') = << >>
    BY <2>2, Single DEF RECV
  <2>4. push_seq \in Int /\ push_seq' = push_seq /\ push_pc' = "flow_ack"
    BY <1>1, <1>13 DEF IInv, TypeInv, TypeOK, PushTypeOK, push_vars
  <2>5. ChunkPhase(Tail(toPusher), 0)'
    <3>1. pull_seq' = push_seq' /\ pull_seq' # push_seq' + 1
      BY <1>8, <2>1, <2>4
    <3>2. Len(Tail(toPusher')) = 0 /\ ~\E i \in 1..Len(Tail(toPusher')) : TRUE
      BY <2>3, NoElements, Zenon
    <3>3. 0 + Len(Tail(toPusher')) = PullTry - pull_try'
      BY <1>4, <1>8, <3>2
    <3> QED
      BY <1>8, <3>1, <3>2, <3>3 DEF ChunkPhase
  <2>6. PushHandshakeView' /\ PushTransferView' /\ PushVerifyView'
    BY <1>1, <1>3, <1>4, <1>8, <2>1, <2>3, <2>4, <2>5
    DEF PushHandshakeView, PushTransferView, PushVerifyView
  <2> QED
    BY <1>9, <1>11, <2>6 DEF InStep
<1> QED
  BY <1>10, <1>12, <1>13

(***************************************************************************)
(* The puller's answer joins the queue of the pusher: all answers are about *)
(* the same chunk, and only the last may be an ACK.                        *)
(***************************************************************************)
LEMMA AppendAnswers ==
  ASSUME NEW q \in Seq(RecvPackets), NEW a \in {0, 1}, NEW s \in Nat,
         \A i \in 1..Len(q) : q[i].sequence = s /\ q[i].ack # 1
  PROVE  LET r == Append(q, RECV(a, s))
         IN  /\ r # << >>
             /\ Len(r) = Len(q) + 1
             /\ \A i \in 1..Len(r) :
                  /\ r[i].sequence = s
                  /\ r[i].ack = 1 <=> (i = Len(r) /\ a = 1)
<1> DEFINE r == Append(q, RECV(a, s))
<1>1. RECV(a, s) \in RecvPackets
  BY DEF RECV, RecvPackets
<1>2. /\ r # << >> /\ Len(r) = Len(q) + 1 /\ r[Len(q) + 1] = RECV(a, s)
      /\ \A i \in 1..Len(q) : r[i] = q[i]
  BY <1>1, AppendProperties
<1>3. Len(q) \in Nat
  BY LenProperties
<1> HIDE DEF r
<1>4. ASSUME NEW i \in 1..Len(r)
      PROVE  r[i].sequence = s /\ (r[i].ack = 1 <=> (i = Len(r) /\ a = 1))
  <2>1. CASE i = Len(q) + 1
    <3>1. RECV(a, s).sequence = s /\ RECV(a, s).ack = a
      BY DEF RECV
    <3> QED
      BY <1>2, <2>1, <3>1, Zenon
  <2>2. CASE i # Len(q) + 1
    <3>1. i \in 1..Len(q) /\ i # Len(r)
      BY <1>2, <1>3, <2>2
    <3> QED
      BY <1>2, <3>1, Zenon
  <2> QED
    BY <2>1, <2>2
<1> QED
  BY <1>2, <1>4 DEF r

\* A segment is written into the file, which keeps its length.
LEMMA PullSegmentInStep == IInv /\ PullSegment => InStep'
<1> SUFFICES ASSUME IInv, PullSegment PROVE InStep'
  OBVIOUS
<1> DEFINE n == segment_size(segsize_of(pull_conf), pull_rsize)
<1>1. CASE Len(Head(udp)) < n
  BY <1>1, PullReturnInStep DEF PullSegment
<1>2. CASE ~(Len(Head(udp)) < n)
  <2>1. /\ pull_pc = "data" /\ pull_pc' \in {"data", "chunk_end"}
        /\ src' = src /\ UNCHANGED push_vars /\ UNCHANGED tcp_vars
        /\ UNCHANGED <<pull_stat, pull_conf, pull_seq, pull_try, pull_crc,
                        verdict>>
    BY <1>2 DEF PullSegment
  <2>2. TypeInv'
    BY PullerTypes DEF Puller, IInv
  <2>3. pull_file' \in Seq(Byte) /\ pull_file \in Seq(Byte)
    BY <2>2 DEF IInv, TypeInv, TypeOK, PullTypeOK
  <2>4. Len(pull_file') = Len(pull_file)
    <3>1. Len(pull_file) \in Nat
      BY <2>3, LenProperties
    <3>2. PICK data : pull_file' = mfwrite(pull_file, pull_pos, data)
      BY <1>2 DEF PullSegment
    <3> QED
      BY <3>1, <3>2 DEF mfwrite
  <2>5. pull_file # << >> /\ Len(pull_file) = Len(src)
    BY <2>1 DEF IInv, InStep, PullFile
  <2>6. pull_file' # << >>
    BY <2>3, <2>4, <2>5, EmptySeq
  <2>7. /\ conf' = conf
        /\ calc_chunk_crc32(src, conf, pull_seq)' =
             calc_chunk_crc32(src, conf, pull_seq)
    BY <2>1 DEF conf, calc_chunk_crc32
  <2>8. PullRange' /\ PullQueue' /\ PullFile'
    BY <2>1, <2>4, <2>5, <2>6, <2>7
    DEF IInv, InStep, PullRange, PullQueue, PullFile, tcp_vars
  <2>9. PushHandshakeView' /\ PushVerifyView' /\ Outcomes'
    BY <2>1, <2>6
    DEF IInv, InStep, PushHandshakeView, PushVerifyView, Outcomes, Quiet,
        push_vars, tcp_vars
  <2>10. PushTransferView'
    BY <2>1
    DEF IInv, InStep, PushTransferView, Quiet, ChunkPhase, push_vars,
        tcp_vars
  <2> QED
    BY <2>8, <2>9, <2>10 DEF InStep
<1> QED
  BY <1>1, <1>2

(***************************************************************************)
(* The puller answers a chunk: an ACK goes with the step to the next chunk, *)
(* a NACK with one try less or with giving up.                             *)
(***************************************************************************)
ChunkAnswered(ack) ==
  /\ ack = 1 => pull_seq' = pull_seq + 1 /\ pull_pc' \in {"flow", "verify"}
  /\ ack = 0 =>
       /\ pull_seq' = pull_seq
       /\ pull_pc' \in {"data", "chunk_end", "done"}
       /\ pull_pc' # "done" => pull_try' = pull_try - 1

\* ChunkPhase in the next state, with queue and tries as they are now.
PhaseAfter(queue, tries) ==
  /\ queue # << >>
  /\ pull_seq' = push_seq' \/ pull_seq' = push_seq' + 1
  /\ pull_seq' = push_seq' => pull_pc' \in {"data", "chunk_end", "done"}
  /\ pull_seq' = push_seq' + 1 => pull_pc' \in {"flow", "verify"}
  /\ \A i \in 1..Len(queue) :
       /\ queue[i].sequence = push_seq'
       /\ queue[i].ack = 1 <=> (i = Len(queue) /\ pull_seq' = push_seq' + 1)
  /\ pull_pc' \in {"data", "chunk_end"} =>
       tries + Len(queue) = PullTry - pull_try'

\* ChunkPhase survives the answer; q stands for the queue before it.
LEMMA AnswerPhase ==
  ASSUME NEW q \in Seq(RecvPackets), NEW tries \in Int, NEW ack \in {0, 1},
         ChunkPhase(q, tries), pull_pc = "chunk_end", push_seq' = push_seq,
         push_seq \in Nat, pull_try \in Nat, ChunkAnswered(ack)
  PROVE  PhaseAfter(Append(q, RECV(ack, pull_seq)), tries)
<1> DEFINE r == Append(q, RECV(ack, pull_seq))
<1>1. pull_seq = push_seq /\ pull_seq \in Nat /\ pull_seq # push_seq + 1
  BY DEF ChunkPhase
<1>2. \A i \in 1..Len(q) : q[i].sequence = pull_seq /\ q[i].ack # 1
  BY <1>1, Zenon DEF ChunkPhase
<1>3. /\ r # << >>
      /\ Len(r) = Len(q) + 1
      /\ \A i \in 1..Len(r) :
           /\ r[i].sequence = pull_seq
           /\ r[i].ack = 1 <=> (i = Len(r) /\ ack = 1)
  BY <1>1, <1>2, AppendAnswers
<1> HIDE DEF r
<1>4. pull_seq' = push_seq' + 1 <=> ack = 1
  BY <1>1 DEF ChunkAnswered
<1>5. pull_seq' = push_seq' <=> ack = 0
  BY <1>1 DEF ChunkAnswered
<1>6. \A i \in 1..Len(r) :
        /\ r[i].sequence = push_seq'
        /\ r[i].ack = 1 <=> (i = Len(r) /\ pull_seq' = push_seq' + 1)
  BY <1>1, <1>3, <1>4, Zenon
<1>7. pull_pc' \in {"data", "chunk_end"} =>
        tries + Len(r) = PullTry - pull_try'
  <2>1. Len(q) \in Nat /\ tries + Len(q) = PullTry - pull_try
    BY LenProperties DEF ChunkPhase
  <2>2. pull_pc' \in {"data", "chunk_end"} => pull_try' = pull_try - 1
    BY DEF ChunkAnswered
  <2> QED
    BY <1>3, <2>1, <2>2
<1>8. /\ ack = 0 => pull_pc' \in {"data", "chunk_end", "done"}
      /\ ack = 1 => pull_pc' \in {"flow", "verify"}
  BY DEF ChunkAnswered
<1> QED
  BY <1>1, <1>3, <1>4, <1>5, <1>6, <1>7, <1>8 DEF r, PhaseAfter

\* The queue moves up the same way whether the answer to the FLOW packet has
\* been taken off it or not.
LEMMA TailAppend ==
  ASSUME NEW S, NEW q \in Seq(S), q # << >>, NEW x \in S
  PROVE  /\ Tail(Append(q, x)) = Append(Tail(q), x)
         /\ Append(q, x)[1] = q[1]
         /\ Append(q, x) # << >>
<1>1. Len(q) \in Nat \ {0}
  BY EmptySeq, LenProperties
<1>2. 1 \in 1..Len(q)
  BY <1>1
<1> QED
  BY <1>2, HeadTailAppend, AppendProperties

\* The answer to a chunk joins the queue in either place the pusher may be.
LEMMA PullChunkEndInStep == IInv /\ PullChunkEnd => InStep'
<1> SUFFICES ASSUME IInv, PullChunkEnd PROVE InStep'
  OBVIOUS
<1>1. /\ pull_pc = "chunk_end" /\ src' = src /\ conf' = conf
      /\ UNCHANGED push_vars /\ conn' = conn /\ toPuller' = toPuller
  BY DEF PullChunkEnd, conf
<1>2. /\ pull_conf = conf /\ pull_seq \in 1..conf.chcount
      /\ toPuller = << >>
      /\ pull_crc = calc_chunk_crc32(src, conf, pull_seq)
      /\ pull_file # << >> /\ Len(pull_file) = Len(src) /\ verdict = "none"
  BY <1>1 DEF IInv, InStep, PullRange, PullQueue, PullFile
<1>3. /\ src \in Files /\ conf.chcount \in Nat /\ pull_seq \in Nat
      /\ push_seq \in Nat /\ push_seq' = push_seq /\ pull_try \in Nat
      /\ push_try \in Nat /\ toPusher \in Seq(RecvPackets)
  BY <1>1, ConfOK
  DEF IInv, TypeInv, TypeOK, PushTypeOK, PullTypeOK, NetTypeOK, push_vars
<1>4. PICK ack \in {0, 1} :
        /\ toPusher' = Append(toPusher, RECV(ack, pull_seq))
        /\ ChunkAnswered(ack)
        /\ UNCHANGED <<pull_conf, pull_crc, pull_file, verdict>>
        /\ pull_pc' # "done" => pull_stat' = pull_stat
        /\ pull_pc' = "done" => pull_stat' \in {"EXPTRY0", "EMFSEEK"}
        /\ pull_pc' = "flow" => pull_seq' \in 1..conf.chcount
                                 /\ pull_try' = PullTry
        /\ pull_pc' = "verify" => pull_seq' = conf.chcount + 1
  <2>1. CASE calc_chunk_crc32(pull_file, pull_conf, pull_seq) = pull_crc
    <3>1. (pull_seq + 1) % U32 = pull_seq + 1
      BY <1>2, <1>3, NextSeq
    <3>2. /\ toPusher' = Append(toPusher, RECV(1, pull_seq))
          /\ pull_seq' = pull_seq + 1 /\ pull_try' = PullTry
          /\ pull_pc' = IF pull_seq' <= conf.chcount
                        THEN "flow" ELSE "verify"
          /\ UNCHANGED <<pull_stat, pull_conf, pull_crc, pull_file, verdict>>
      BY <1>2, <2>1, <3>1
      DEF PullChunkEnd, PullAccepted, push_RECV_header
    <3>3. ChunkAnswered(1)
      BY <3>2 DEF ChunkAnswered
    <3> QED
      BY <1>2, <1>3, <3>2, <3>3
  <2>2. CASE calc_chunk_crc32(pull_file, pull_conf, pull_seq) # pull_crc
    <3>1. /\ toPusher' = Append(toPusher, RECV(0, pull_seq))
          /\ \/ PullReturn("EXPTRY0")
             \/ PullChunk(pull_try - 1, pull_crc)
      BY <2>2 DEF PullChunkEnd, PullRefused, push_RECV_header
    <3>2. /\ ChunkAnswered(0)
          /\ UNCHANGED <<pull_conf, pull_crc, pull_file, verdict>>
          /\ pull_pc' # "done" => pull_stat' = pull_stat
          /\ pull_pc' = "done" => pull_stat' \in {"EXPTRY0", "EMFSEEK"}
          /\ pull_pc' \in {"data", "chunk_end", "done"}
      BY <3>1 DEF PullReturn, PullChunk, ChunkAnswered
    <3> QED
      BY <3>1, <3>2
  <2> QED
    BY <2>1, <2>2
<1>5. pull_pc' \in {"data", "chunk_end", "flow", "verify", "done"}
  BY <1>4 DEF ChunkAnswered
<1>6. pull_pc' \in {"data", "chunk_end"} => pull_seq' = pull_seq
  BY <1>4 DEF ChunkAnswered
<1>7. PullRange' /\ PullQueue' /\ PullFile'
  <2>1. pull_seq' = pull_seq =>
          calc_chunk_crc32(src, conf, pull_seq)' =
            calc_chunk_crc32(src, conf, pull_seq)
    BY <1>1 DEF calc_chunk_crc32
  <2>2. PullRange'
    BY <1>1, <1>2, <1>4, <1>5, <1>6 DEF PullRange
  <2>3. PullQueue'
    BY <1>1, <1>2, <1>4, <1>5, <1>6, <2>1 DEF PullQueue
  <2>4. PullFile'
    BY <1>1, <1>2, <1>4, <1>5 DEF PullFile
  <2> QED
    BY <2>2, <2>3, <2>4
<1>8. push_pc \in {"flow_ack", "data", "data_ack", "done"}
  BY <1>1, <1>2
  DEF IInv, InStep, TypeInv, TypeOK, PushTypeOK, PushPCs,
      PushHandshakeView, PushTransferView, PushVerifyView
<1>9. /\ Outcomes'
      /\ push_pc' = push_pc /\ push_try' = push_try
  BY <1>1, <1>2, <1>4 DEF IInv, InStep, Outcomes, push_vars
<1>10. CASE push_pc = "done"
  BY <1>1, <1>2, <1>4, <1>7, <1>9, <1>10
  DEF InStep, PushHandshakeView, PushTransferView, PushVerifyView
<1>11. CASE push_pc = "flow_ack"
  <2>1. /\ toPusher # << >> /\ toPusher[1].ack = 1
        /\ ChunkPhase(Tail(toPusher), 0) /\ conn
    BY <1>1, <1>11 DEF IInv, InStep, PushHandshakeView, PushTransferView
  <2>2. RECV(ack, pull_seq) \in RecvPackets
    BY <1>3 DEF RECV, RecvPackets
  <2>3. /\ Tail(toPusher') = Append(Tail(toPusher), RECV(ack, pull_seq))
        /\ toPusher' # << >> /\ toPusher'[1].ack = 1
    BY <1>3, <1>4, <2>1, <2>2, TailAppend
  <2>4. Tail(toPusher) \in Seq(RecvPackets)
    BY <1>3, <2>1, Pop
  <2>5. ChunkPhase(Tail(toPusher), 0)'
    <3>1. PhaseAfter(Append(Tail(toPusher), RECV(ack, pull_seq)), 0)
      <4>1. 0 \in Int
        OBVIOUS
      <4> QED
        BY <1>1, <1>3, <1>4, <2>1, <2>4, <4>1, AnswerPhase, Zenon
    <3>2. PhaseAfter(Tail(toPusher'), 0)
      BY <2>3, <3>1
    <3> QED
      BY <3>2 DEF ChunkPhase, PhaseAfter
  <2>6. PushHandshakeView' /\ PushTransferView' /\ PushVerifyView'
    BY <1>1, <1>2, <1>4, <1>9, <1>11, <2>1, <2>3, <2>5
    DEF PushHandshakeView, PushTransferView, PushVerifyView
  <2> QED
    BY <1>7, <1>9, <2>6 DEF InStep
<1>12. CASE push_pc \in {"data", "data_ack"}
  <2>1. ChunkPhase(toPusher, PushTry - push_try) /\ conn
    BY <1>1, <1>12 DEF IInv, InStep, PushHandshakeView, PushTransferView
  <2>2. PushTry - push_try \in Int
    BY <1>3
  <2>3. ChunkPhase(toPusher, PushTry - push_try)'
    <3>1. PhaseAfter(Append(toPusher, RECV(ack, pull_seq)), PushTry - push_try)
      BY <1>1, <1>3, <1>4, <2>1, <2>2, AnswerPhase
    <3>2. PhaseAfter(toPusher', PushTry - push_try')
      BY <1>4, <1>9, <3>1
    <3> QED
      BY <3>2 DEF ChunkPhase, PhaseAfter
  <2>4. PushHandshakeView' /\ PushTransferView' /\ PushVerifyView'
    BY <1>1, <1>2, <1>4, <1>9, <1>12, <2>1, <2>3
    DEF PushHandshakeView, PushTransferView, PushVerifyView
  <2> QED
    BY <1>7, <1>9, <2>4 DEF InStep
<1> QED
  BY <1>8, <1>10, <1>11, <1>12

\* The verdict and the packet that carries it are decided together.
LEMMA PullVerifyInStep == IInv /\ PullVerify => InStep'
<1> SUFFICES ASSUME IInv, PullVerify PROVE InStep'
  OBVIOUS
<1>1. /\ pull_pc = "verify" /\ pull_pc' = "end"
      /\ src' = src /\ conf' = conf /\ UNCHANGED push_vars /\ conn' = conn
      /\ UNCHANGED <<pull_stat, pull_conf, pull_seq, pull_try, pull_crc,
                     pull_file>>
  BY DEF PullVerify, conf
<1>2. toPuller = <<SEND(conf, Crc16(src))>>
  BY DEF IInv, InStep, PullVerify, PullQueue, pull_SEND_header, header_status
<1>3. Head(toPuller).crc = Crc16(src) /\ toPuller' = << >>
  BY <1>2, Single DEF PullVerify, SEND
<1>4. /\ pull_conf = conf /\ pull_seq = conf.chcount + 1
      /\ pull_file # << >> /\ Len(pull_file) = Len(src) /\ verdict = "none"
  BY <1>1 DEF IInv, InStep, PullRange, PullFile
<1>5. PICK ack \in {0, 1} :
        /\ toPusher' = Append(toPusher, RECV(ack, pull_seq))
        /\ verdict' \in {"match", "mismatch"}
        /\ ack = 1 <=> verdict' = "match"
        /\ verdict' = "match" => Crc16(src) = Crc16(pull_file)
  BY <1>3 DEF PullVerify, push_RECV_header
<1>6. PullRange' /\ PullQueue' /\ PullFile'
  BY <1>1, <1>3, <1>4, <1>5 DEF PullRange, PullQueue, PullFile
<1>7. Outcomes'
  BY <1>1, <1>4, <1>5 DEF IInv, InStep, Outcomes, push_vars
<1>8. push_pc' = push_pc /\ push_seq' = push_seq
  BY <1>1 DEF push_vars
<1>9. push_pc \in {"verify_ack", "done"}
  <2>1. toPuller # << >>
    BY <1>2, Single
  <2> QED
    BY <1>1, <1>4, <2>1
    DEF IInv, InStep, TypeInv, TypeOK, PushTypeOK, PushPCs,
        PushHandshakeView, PushTransferView, PushVerifyView, Quiet
<1>10. CASE push_pc = "done"
  BY <1>6, <1>7, <1>8, <1>10
  DEF InStep, PushHandshakeView, PushTransferView, PushVerifyView
<1>11. CASE push_pc = "verify_ack"
  <2>1. toPusher = << >> /\ conn /\ pull_seq = push_seq
    BY <1>1, <1>4, <1>11 DEF IInv, InStep, PushHandshakeView, PushVerifyView
  <2>2. toPusher' = <<RECV(ack, pull_seq)>>
    BY <1>5, <2>1, Single
  <2>3. Len(toPusher') = 1 /\ toPusher'[1].ack = ack
    BY <2>2, Single DEF RECV
  <2>4. PushHandshakeView' /\ PushTransferView' /\ PushVerifyView'
    BY <1>1, <1>4, <1>5, <1>8, <1>11, <2>1, <2>3
    DEF PushHandshakeView, PushTransferView, PushVerifyView
  <2> QED
    BY <1>6, <1>7, <2>4 DEF InStep
<1> QED
  BY <1>9, <1>10, <1>11

\* Every step of the puller.
LEMMA PullerInStep == IInv /\ Puller => InStep'
<1> SUFFICES ASSUME IInv, Puller PROVE InStep'
  OBVIOUS
<1>1. CASE PullEnd
  BY <1>1, PullReturnInStep DEF IInv, InStep, PullFile, PullEnd
<1>2. CASE PullHeaderError
  \* Every packet in the queue has the type the puller waits for.
  <2>1. toPuller # << >> => pull_header = "SUCCESS"
    BY <1>2, Single
    DEF IInv, InStep, PullQueue, PullHeaderError, PullWaits, pull_header,
        pull_SEND_header, pull_FLOW_header, header_status, FlowOf, FLOW, SEND
  <2>2. pull_header = "LOWSIZE"
    BY <1>2, <2>1
    DEF PullHeaderError, pull_header, pull_SEND_header, pull_FLOW_header,
        header_status
  <2> QED
    BY <1>2, <2>2, PullReturnInStep DEF PullHeaderError
<1>3. CASE PullTimeout \/ PullReset
  BY <1>3, PullReturnInStep DEF PullTimeout, PullReset
<1> QED
  BY <1>1, <1>2, <1>3, PullStartInStep, PullHandshakeInStep,
     PullStartDataInStep, PullFlowInStep, PullSegmentInStep,
     PullChunkEndInStep, PullVerifyInStep
  DEF Puller

-----------------------------------------------------------------------------
(***************************************************************************)
(* The theorems.                                                           *)
(***************************************************************************)
\* Every step of the two calls, of the network and of a failing process
\* keeps the inductive invariant.
LEMMA IInvStep == IInv /\ [Next]_vars => IInv'
<1> SUFFICES ASSUME IInv, [Next]_vars PROVE InStep'
  BY TypeStep DEF IInv
<1>1. CASE Network
  BY <1>1, InStepKept DEF IInv, Network, Lose, Duplicate, Reorder, Corrupt
<1>2. CASE PushFault
  BY <1>2, PushReturnInStep DEF PushFault, PushReturn, tcp_vars
<1>3. CASE PullFault
  BY <1>3, PullReturnInStep DEF PullFault
<1>4. CASE UNCHANGED vars
  BY <1>4, InStepKept DEF IInv, vars
<1> QED
  BY <1>1, <1>2, <1>3, <1>4, PusherInStep, PullerInStep
  DEF Next, Fault, Terminated

\* The two sides of a transfer stay in step: at every place of one, the other
\* is where it should be and only the packets it waits for are on the way.
THEOREM StaysInStep == Spec => []IInv
<1>1. Init => IInv
  BY TypeInit, InStepInit DEF IInv
<1> QED
  BY <1>1, IInvStep, PTL DEF Spec

\* push_file() reports success only for a file that arrived in full and was
\* verified, whatever the network does and whichever process fails.
THEOREM PushSuccess == Spec => []SuccessVerified
<1>1. IInv => SuccessVerified
  BY DEF IInv, InStep, Outcomes, PullFile, SuccessVerified, TypeInv, TypeOK,
         PullTypeOK, PullPCs
<1> QED
  BY <1>1, StaysInStep, PTL

\* pull_file() reports success only after the last chunk and the verdict.
THEOREM PullSuccess == Spec => []PullSuccessComplete
<1>1. IInv => PullSuccessComplete
  BY DEF IInv, InStep, Outcomes, PullFile, PullSuccessComplete
<1> QED
  BY <1>1, StaysInStep, PTL

\* No packet ever meets a peer that expects another type or another chunk.
THEOREM NoDesync == Spec => []NeverDesynchronised
<1>1. IInv => NeverDesynchronised
  BY DEF IInv, InStep, Outcomes, NeverDesynchronised
<1> QED
  BY <1>1, StaysInStep, PTL

\* The pusher may take any RECV packet as the answer to the chunk it sent.
THEOREM AnswersInOrder == Spec => []RepliesInOrder
<1>1. IInv => RepliesInOrder
  <2> SUFFICES ASSUME IInv PROVE RepliesInOrder
    OBVIOUS
  <2>1. CASE push_pc = "flow_ack" /\ toPusher = << >>
    <3>1. ChunkAnswers = << >> /\ pull_seq = push_seq /\ push_seq \in Nat
      BY <2>1
      DEF IInv, InStep, PushTransferView, ChunkAnswers, TypeInv, TypeOK,
          PushTypeOK
    <3>2. pull_seq # push_seq + 1
      BY <3>1
    <3> QED
      BY <2>1, <3>1, <3>2, NoElements, Zenon DEF RepliesInOrder
  <2>2. CASE push_pc = "flow_ack" /\ toPusher # << >>
    <3>1. ChunkPhase(Tail(toPusher), 0) /\ ChunkAnswers = Tail(toPusher)
      BY <2>2 DEF IInv, InStep, PushTransferView, ChunkAnswers
    <3> QED
      BY <3>1 DEF ChunkPhase, RepliesInOrder
  <2>3. CASE push_pc \in {"data", "data_ack"}
    <3>1. /\ ChunkPhase(toPusher, PushTry - push_try)
          /\ ChunkAnswers = toPusher
      BY <2>3 DEF IInv, InStep, PushTransferView, ChunkAnswers
    <3> QED
      BY <3>1 DEF ChunkPhase, RepliesInOrder
  <2> QED
    BY <2>1, <2>2, <2>3 DEF RepliesInOrder
<1> QED
  BY <1>1, StaysInStep, PTL

\* The two try counts differ by the NACKs on the way, and by no more.
THEOREM TriesInLockstep == Spec => []RetryLockstep
<1>1. IInv => RetryLockstep
  BY DEF IInv, InStep, PushTransferView, ChunkPhase, RetryLockstep
<1> QED
  BY <1>1, StaysInStep, PTL

\* No segment is sent before the puller has bound its data socket.
THEOREM SocketBound == Spec => []SegmentsHaveASocket
<1>1. IInv => SegmentsHaveASocket
  BY DEF IInv, InStep, PushTransferView, ChunkPhase, SegmentsHaveASocket,
         DataSocketOpen
<1> QED
  BY <1>1, StaysInStep, PTL

-----------------------------------------------------------------------------
(***************************************************************************)
(* What a transfer delivers.  It implements Delivery: chunks are accepted  *)
(* and confirmed one at a time, the file is judged after the last, and     *)
(* success is reported as Delivery allows.  And a chunk that was           *)
(* acknowledged is not written again and keeps the CRC32 announced for it. *)
(***************************************************************************)

-----------------------------------------------------------------------------
(***************************************************************************)
(* The pusher is as far as the puller's place says.                        *)
(***************************************************************************)
\* A step of the pusher that sends nothing and leaves its sequence number
\* alone does not disturb the pace.
LEMMA PaceKept ==
  ASSUME Paced, src' = src, UNCHANGED <<pull_pc, pull_seq, toPuller, push_seq>>,
         push_pc' \in {"open", "connect", "send", "send_ack"} =>
           push_pc \in {"open", "connect", "send", "send_ack"}
  PROVE  Paced'
  BY DEF Paced, conf

\* Neither does the end of the puller.
LEMMA PaceAtEnd ==
  ASSUME Paced, UNCHANGED push_vars, pull_pc' \in {"end", "done"}
  PROVE  Paced'
  BY DEF Paced, push_vars

\* A step of the pusher keeps the pace.
LEMMA PusherPaced == IInv /\ Paced /\ Pusher => Paced'
<1> SUFFICES ASSUME IInv, Paced, Pusher PROVE Paced'
  OBVIOUS
<1>1. CASE PushOpen \/ PushConnect \/ PushStartData \/ PushSegment
  BY <1>1, PaceKept
  DEF PushOpen, PushConnect, PushStartData, PushSegment, PushGoto, PushReturn,
      pull_vars, tcp_vars
<1>2. CASE PushHandshake
  <2>1. pull_pc \in {"accept", "handshake", "done"}
    BY <1>2 DEF IInv, InStep, PushHandshakeView, PushHandshake
  <2> QED
    BY <1>2, <2>1 DEF Paced, PushHandshake, PushGoto, pull_vars
<1>3. CASE PushHandshakeAck
  \* The answer has been sent: the puller is behind the handshake and has
  \* nothing to read.
  <2>1. /\ toPuller = << >> /\ pull_seq = 1
        /\ pull_pc \in {"start_data", "flow", "done"}
    BY <1>3, RecvHeader
    DEF IInv, TypeInv, InStep, PushHandshakeView, PushHandshakeAck
  <2> QED
    BY <1>3, <2>1 DEF Paced, PushHandshakeAck, pull_vars
<1>4. CASE PushFlow
  <2>1. pull_pc \in {"start_data", "flow", "done"} /\ pull_seq = push_seq
    BY <1>4 DEF IInv, InStep, PushTransferView, PushFlow
  <2> QED
    BY <1>4, <2>1 DEF Paced, PushFlow, PushGoto, pull_vars
<1>5. CASE PushFlowAck
  BY <1>5, PaceKept
  DEF PushFlowAck, PushChunk, PushReturn, pull_vars
<1>6. CASE PushChunkAck /\ Head(toPusher).ack = 1
  \* An ACK is the last answer, and the puller past the chunk.
  <2>1. toPuller = << >> /\ pull_seq = push_seq + 1 /\ push_seq \in Nat
    <3>1. toPusher # << >> /\ toPusher \in Seq(RecvPackets)
      BY <1>6, RecvHeader
      DEF IInv, TypeInv, TypeOK, NetTypeOK, PushChunkAck
    <3>2. 1 \in 1..Len(toPusher) /\ Head(toPusher) = toPusher[1]
      BY <3>1, Pop
    <3>3. toPuller = << >> /\ ChunkPhase(toPusher, PushTry - push_try)
      BY <1>6 DEF IInv, InStep, PushTransferView, PushChunkAck
    <3>4. toPusher[1].ack = 1 => pull_seq = push_seq + 1
      BY <3>2, <3>3, Zenon DEF ChunkPhase
    <3> QED
      BY <1>6, <3>2, <3>3, <3>4 DEF IInv, TypeInv, TypeOK, PushTypeOK
  <2>2. pull_pc \notin {"data", "chunk_end"}
    BY <2>1 DEF Paced
  <2> QED
    BY <1>6, <2>1, <2>2 DEF Paced, PushChunkAck, PushAccepted, pull_vars
<1>7. CASE PushChunkAck /\ Head(toPusher).ack # 1
  BY <1>7, PaceKept
  DEF PushChunkAck, PushRetry, PushChunk, PushReturn, pull_vars
<1>8. CASE PushVerify
  <2>1. push_seq = conf.chcount + 1 /\ pull_pc \in {"verify", "done"}
    BY <1>8
    DEF IInv, TypeInv, InStep, PushRange, PushVerifyView, PushVerify
  <2> QED
    BY <1>8, <2>1 DEF Paced, PushVerify, PushGoto, pull_vars, conf
<1>9. CASE PushVerifyAck \/ PushEnd
  BY <1>9, PaceKept
  DEF PushVerifyAck, PushEnd, PushGoto, PushReturn, pull_vars, tcp_vars
<1>10. CASE PushHeaderError \/ PushTimeout \/ PushReset
  BY <1>10, PaceKept
  DEF PushHeaderError, PushTimeout, PushReset, PushReturn, pull_vars, tcp_vars
<1> QED
  BY <1>1, <1>2, <1>3, <1>4, <1>5, <1>6, <1>7, <1>8, <1>9, <1>10 DEF Pusher

\* A step of the puller keeps the pace.
LEMMA PullerPaced == IInv /\ Paced /\ Puller => Paced'
<1> SUFFICES ASSUME IInv, Paced, Puller PROVE Paced'
  OBVIOUS
<1>1. CASE PullStart \/ PullAccept
  BY <1>1 DEF Paced, PullStart, PullAccept, PullGoto, push_vars, tcp_vars
<1>2. CASE PullHandshake
  <2>1. toPuller' = << >>
    BY <1>2, Single
    DEF IInv, InStep, PullQueue, PullHandshake, pull_SEND_header, header_status
  <2> QED
    BY <1>2, <2>1 DEF Paced, PullHandshake, push_vars
<1>3. CASE PullStartData
  <2>1. pull_pc' = "flow"
    BY <1>3, ConfOK
    DEF IInv, TypeInv, TypeOK, InStep, PullRange, PullStartData
  <2> QED
    BY <1>3, <2>1 DEF Paced, PullStartData, push_vars, tcp_vars
<1>4. CASE PullFlow
  <2>1. pull_seq = push_seq
    BY <1>4 DEF Paced, PullFlow, pull_FLOW_header, header_status
  <2>2. /\ toPuller' = << >> /\ UNCHANGED push_vars /\ pull_seq' = pull_seq
        /\ pull_pc' \in {"data", "chunk_end", "done"}
    BY <1>4, Single
    DEF IInv, InStep, PullQueue, PullFlow, pull_FLOW_header, header_status,
        PullChunk, PullReturn
  <2> QED
    BY <1>4, <2>1, <2>2 DEF Paced, push_vars
<1>5. CASE PullSegment
  BY <1>5 DEF Paced, PullSegment, PullReturn, push_vars, tcp_vars
<1>6. CASE PullChunkEnd
  <2>1. toPuller = << >>
    BY <1>6 DEF IInv, InStep, PullQueue, PullChunkEnd
  <2>2. \/ pull_pc' \in {"flow", "verify", "done"}
        \/ pull_pc' \in {"data", "chunk_end"} /\ pull_seq' = pull_seq
    BY <1>6
    DEF PullChunkEnd, PullAccepted, PullRefused, PullChunk, PullReturn
  <2> QED
    BY <1>6, <2>1, <2>2 DEF Paced, PullChunkEnd, push_vars
<1>7. CASE PullVerify \/ PullEnd
  BY <1>7, PaceAtEnd DEF PullVerify, PullEnd, PullReturn
<1>8. CASE PullHeaderError \/ PullTimeout \/ PullReset
  BY <1>8, PaceAtEnd DEF PullHeaderError, PullTimeout, PullReset, PullReturn
<1> QED
  BY <1>1, <1>2, <1>3, <1>4, <1>5, <1>6, <1>7, <1>8 DEF Puller

\* Whoever takes a step, the pace is kept.
LEMMA PacedStep == IInv /\ Paced /\ [Next]_vars => Paced'
<1> SUFFICES ASSUME IInv, Paced, [Next]_vars PROVE Paced'
  OBVIOUS
<1>1. CASE Network
  BY <1>1, PaceKept
  DEF Network, Lose, Duplicate, Reorder, Corrupt, push_vars, pull_vars, tcp_vars
<1>2. CASE PushFault
  BY <1>2, PaceKept DEF PushFault, PushReturn, pull_vars, tcp_vars
<1>3. CASE PullFault
  BY <1>3, PaceAtEnd DEF PullFault, PullReturn
<1>4. CASE UNCHANGED vars
  BY <1>4, PaceKept DEF vars, push_vars, pull_vars, tcp_vars
<1> QED
  BY <1>1, <1>2, <1>3, <1>4, PusherPaced, PullerPaced
  DEF Next, Fault, Terminated

\* The puller is about to accept or to judge only when the pusher has come as
\* far, although nothing tells it whether the pusher still runs.
THEOREM KeepsPace == Spec => []Paced
<1>1. Init => Paced
  BY DEF Init, Paced
<1> QED
  BY <1>1, PacedStep, StaysInStep, PTL DEF Spec

-----------------------------------------------------------------------------
(***************************************************************************)
(* Every step of a transfer is a step of Delivery, or leaves it unchanged. *)
(***************************************************************************)
\* A step that accepts, confirms, judges and reports nothing is invisible.
LEMMA Invisible ==
  ASSUME src' = src, verdict' = verdict,
         Before(push_seq') = Before(push_seq),
         Before(pull_seq') = Before(pull_seq),
         \/ push_pc # "done" /\ push_pc' # "done"
         \/ UNCHANGED <<push_pc, push_stat>>,
         \/ pull_pc # "done" /\ pull_pc' # "done"
         \/ UNCHANGED <<pull_pc, pull_stat>>
  PROVE  UNCHANGED Abstract!vars
  BY DEF Abstract!vars, Reported, conf, Before

\* The pusher returns.
LEMMA PusherReports ==
  ASSUME src' = src, UNCHANGED pull_vars, push_pc # "done", push_pc' = "done",
         Before(push_seq') = Before(push_seq),
         push_stat' = "SUCCESS" => verdict = "match"
  PROVE  Abstract!SenderReturns
  BY DEF Abstract!SenderReturns, Reported, conf, pull_vars, Before

\* The puller returns.
LEMMA PullerReports ==
  ASSUME src' = src, UNCHANGED push_vars, pull_pc # "done", pull_pc' = "done",
         UNCHANGED <<pull_seq, verdict>>,
         pull_stat' = "SUCCESS" => verdict # "none"
  PROVE  Abstract!ReceiverReturns
  BY DEF Abstract!ReceiverReturns, Reported, conf, push_vars, Before

\* An ACK for a chunk is a confirmation.
LEMMA AckConfirms ==
  ASSUME IInv, Paced, PushChunkAck, Head(toPusher).ack = 1
  PROVE  Abstract!Confirm
<1>1. pull_seq = push_seq + 1 /\ push_seq \in 1..conf.chcount
  <2>1. toPusher # << >> /\ toPusher \in Seq(RecvPackets)
    BY RecvHeader DEF IInv, TypeInv, TypeOK, NetTypeOK, PushChunkAck
  <2>2. 1 \in 1..Len(toPusher) /\ Head(toPusher) = toPusher[1]
    BY <2>1, Pop
  <2>3. ChunkPhase(toPusher, PushTry - push_try) /\ push_seq \in 1..conf.chcount
    BY DEF IInv, TypeInv, PushRange, InStep, PushTransferView, PushChunkAck
  <2>4. toPusher[1].ack = 1 => pull_seq = push_seq + 1
    BY <2>2, <2>3, Zenon DEF ChunkPhase
  <2> QED
    BY <2>2, <2>3, <2>4
<1>2. push_seq' = push_seq + 1 /\ conf.chcount \in Nat
  BY <1>1, NextSeq, ConfOK
  DEF PushChunkAck, PushAccepted, IInv, TypeInv, TypeOK
<1>3. /\ Before(push_seq) = push_seq - 1 /\ Before(pull_seq) = push_seq
      /\ Before(push_seq') = push_seq /\ push_seq - 1 < push_seq
  BY <1>1, <1>2 DEF Before
<1>4. /\ push_pc = "data_ack" /\ push_pc' # "done"
      /\ src' = src /\ UNCHANGED pull_vars
  BY DEF PushChunkAck, PushAccepted
<1> QED
  BY <1>3, <1>4 DEF Abstract!Confirm, Reported, conf, pull_vars

\* A step of the pusher.
LEMMA PusherDelivers ==
  IInv /\ Paced /\ Pusher => [Abstract!Next]_(Abstract!vars)
<1> SUFFICES ASSUME IInv, Paced, Pusher
             PROVE  Abstract!SenderReturns \/ Abstract!Confirm
                    \/ UNCHANGED Abstract!vars
  BY DEF Abstract!Next
<1>1. CASE PushOpen \/ PushConnect
  BY <1>1, Invisible, PusherReports
  DEF PushOpen, PushConnect, PushGoto, PushReturn, pull_vars
<1>2. CASE PushHandshake \/ PushFlow \/ PushVerify
  BY <1>2, Invisible
  DEF PushHandshake, PushFlow, PushVerify, PushGoto, pull_vars
<1>3. CASE PushHandshakeAck
  <2>1. Before(push_seq') = Before(push_seq)
    BY <1>3 DEF Paced, PushHandshakeAck, Before
  <2> QED
    BY <1>3, <2>1, Invisible, PusherReports DEF PushHandshakeAck, pull_vars
<1>4. CASE PushStartData \/ PushSegment
  BY <1>4, Invisible DEF PushStartData, PushSegment, pull_vars
<1>5. CASE PushFlowAck
  BY <1>5, Invisible, PusherReports
  DEF PushFlowAck, PushChunk, PushReturn, pull_vars
<1>6. CASE PushChunkAck /\ Head(toPusher).ack = 1
  BY <1>6, AckConfirms
<1>7. CASE PushChunkAck /\ Head(toPusher).ack # 1
  BY <1>7, Invisible, PusherReports
  DEF PushChunkAck, PushRetry, PushChunk, PushReturn, pull_vars
<1>8. CASE PushVerifyAck
  BY <1>8, Invisible, PusherReports
  DEF PushVerifyAck, PushGoto, PushReturn, pull_vars
<1>9. CASE PushEnd
  BY <1>9, PusherReports
  DEF PushEnd, PushReturn, IInv, InStep, PushVerifyView
<1>10. CASE PushHeaderError \/ PushTimeout \/ PushReset
  <2>1. pull_RECV_header # "SUCCESS" => pull_RECV_header \in {"LOWSIZE", "BADTYPE"}
    BY DEF pull_RECV_header, header_status
  <2> QED
    BY <1>10, <2>1, PusherReports
    DEF PushHeaderError, PushTimeout, PushReset, PushReturn, PushWaits
<1> QED
  BY <1>1, <1>2, <1>3, <1>4, <1>5, <1>6, <1>7, <1>8, <1>9, <1>10 DEF Pusher

\* A chunk whose CRC32 is right is accepted, and all before it are confirmed.
LEMMA ChunkAccepted ==
  ASSUME IInv, Paced, PullChunkEnd,
         calc_chunk_crc32(pull_file, pull_conf, pull_seq) = pull_crc
  PROVE  Abstract!Accept
<1>1. /\ pull_seq = push_seq /\ pull_seq \in 1..conf.chcount
      /\ conf.chcount \in Nat
  BY ConfOK DEF IInv, TypeInv, TypeOK, InStep, PullRange, Paced, PullChunkEnd
<1>2. pull_seq' = pull_seq + 1
  BY <1>1, NextSeq DEF PullChunkEnd, PullAccepted, IInv, TypeInv, TypeOK
<1>3. /\ Before(pull_seq) = Before(push_seq) /\ Before(pull_seq) < conf.chcount
      /\ Before(pull_seq') = Before(pull_seq) + 1
  BY <1>1, <1>2 DEF Before
<1>4. /\ pull_pc = "chunk_end" /\ pull_pc' # "done" /\ verdict' = verdict
      /\ src' = src /\ UNCHANGED push_vars
  BY DEF PullChunkEnd, PullAccepted
<1> QED
  BY <1>3, <1>4 DEF Abstract!Accept, Reported, conf, push_vars

\* The file is judged once every chunk is confirmed.
LEMMA FileJudged ==
  ASSUME IInv, Paced, PullVerify
  PROVE  Abstract!Judge
<1>1. /\ push_seq = conf.chcount + 1 /\ conf.chcount \in Nat
      /\ verdict = "none"
  BY ConfOK
  DEF IInv, TypeInv, TypeOK, InStep, PullFile, Paced, PullVerify,
      pull_SEND_header, header_status
<1>2. Before(push_seq) = conf.chcount
  BY <1>1 DEF Before
<1>3. /\ pull_pc = "verify" /\ pull_pc' = "end" /\ pull_seq' = pull_seq
      /\ verdict' \in {"match", "mismatch"}
      /\ src' = src /\ UNCHANGED push_vars
  BY DEF PullVerify
<1> QED
  BY <1>1, <1>2, <1>3 DEF Abstract!Judge, Reported, conf, push_vars

\* A step of the puller.
LEMMA PullerDelivers ==
  IInv /\ Paced /\ Puller => [Abstract!Next]_(Abstract!vars)
<1> SUFFICES ASSUME IInv, Paced, Puller
             PROVE  Abstract!ReceiverReturns \/ Abstract!Accept \/ Abstract!Judge
                    \/ UNCHANGED Abstract!vars
  BY DEF Abstract!Next
<1>1. CASE PullStart \/ PullAccept \/ PullStartData
  BY <1>1, Invisible
  DEF PullStart, PullAccept, PullStartData, PullGoto, push_vars
<1>2. CASE PullHandshake
  <2>1. Before(pull_seq') = Before(pull_seq)
    BY <1>2 DEF IInv, InStep, PullRange, PullHandshake, Before
  <2> QED
    BY <1>2, <2>1, Invisible DEF PullHandshake, push_vars
<1>3. CASE PullFlow
  BY <1>3, Invisible, PullerReports
  DEF PullFlow, PullChunk, PullReturn, push_vars
<1>4. CASE PullSegment
  BY <1>4, Invisible, PullerReports DEF PullSegment, PullReturn, push_vars
<1>5. CASE PullChunkEnd
        /\ calc_chunk_crc32(pull_file, pull_conf, pull_seq) = pull_crc
  BY <1>5, ChunkAccepted
<1>6. CASE PullChunkEnd
        /\ calc_chunk_crc32(pull_file, pull_conf, pull_seq) # pull_crc
  BY <1>6, Invisible, PullerReports
  DEF PullChunkEnd, PullRefused, PullChunk, PullReturn, push_vars
<1>7. CASE PullVerify
  BY <1>7, FileJudged
<1>8. CASE PullEnd
  BY <1>8, PullerReports DEF PullEnd, PullReturn, IInv, InStep, PullFile
<1>9. CASE PullHeaderError \/ PullTimeout \/ PullReset
  <2>1. pull_header # "SUCCESS" => pull_header \in {"LOWSIZE", "BADTYPE"}
    BY DEF pull_header, pull_FLOW_header, pull_SEND_header, header_status
  <2> QED
    BY <1>9, <2>1, PullerReports
    DEF PullHeaderError, PullTimeout, PullReset, PullReturn, PullWaits
<1> QED
  BY <1>1, <1>2, <1>3, <1>4, <1>5, <1>6, <1>7, <1>8, <1>9 DEF Puller

\* Every step of a transfer, of the network and of a failing process.
LEMMA DeliveryStep ==
  IInv /\ Paced /\ [Next]_vars => [Abstract!Next]_(Abstract!vars)
<1> SUFFICES ASSUME IInv, Paced, [Next]_vars
             PROVE  [Abstract!Next]_(Abstract!vars)
  OBVIOUS
<1>1. CASE Network \/ UNCHANGED vars
  <2>1. src' = src /\ UNCHANGED push_vars /\ UNCHANGED pull_vars
    BY <1>1 DEF Network, Lose, Duplicate, Reorder, Corrupt, vars
  <2> QED
    BY <2>1, Invisible DEF push_vars, pull_vars
<1>2. CASE PushFault
  <2>1. Abstract!SenderReturns
    BY <1>2, PusherReports DEF PushFault, PushReturn
  <2> QED
    BY <2>1 DEF Abstract!Next
<1>3. CASE PullFault
  <2>1. Abstract!ReceiverReturns
    BY <1>3, PullerReports DEF PullFault, PullReturn
  <2> QED
    BY <2>1 DEF Abstract!Next
<1> QED
  BY <1>1, <1>2, <1>3, PusherDelivers, PullerDelivers
  DEF Next, Fault, Terminated

\* A transfer implements Delivery, whatever the network does and whichever
\* process fails: chunks are accepted and confirmed one at a time and in order,
\* and both calls report only what Delivery allows.
THEOREM Delivers == Spec => ImplementsDelivery
<1>1. Init => Abstract!Init
  <2> SUFFICES ASSUME Init PROVE Abstract!Init
    OBVIOUS
  <2>1. conf.chcount \in Nat \ {0}
    BY ConfOK DEF Init
  <2> QED
    BY <2>1 DEF Init, Abstract!Init, Before, Reported
<1> QED
  BY <1>1, DeliveryStep, StaysInStep, KeepsPace, PTL
  DEF Spec, ImplementsDelivery, Abstract!Spec

-----------------------------------------------------------------------------
(***************************************************************************)
(* The bytes of a chunk.                                                   *)
(***************************************************************************)
\* A sum that ends at b lies before whatever lies behind b.
LEMMA Chain ==
  ASSUME NEW a, NEW n, NEW b \in Nat, NEW c \in Nat, NEW d \in Nat,
         a + n = b, b <= c, d >= c
  PROVE  a + n <= d
BY SMT

\* Every chunk starts in the file or at its end.
LEMMA ChunkStart ==
  ASSUME src \in Files, NEW seq \in 1..conf.chcount
  PROVE  (seq - 1) * ChSize \in Nat /\ (seq - 1) * ChSize <= Len(src)
<1> DEFINE q == Len(src) \div ChSize
<1>1. Len(src) \in Nat /\ ChSize \in Nat \ {0}
  BY LenProperties
<1>2. q \in Nat /\ q * ChSize <= Len(src)
  BY <1>1, Div
<1>3. conf.chcount = q + 1
  BY ConfFacts DEF conf
<1> HIDE DEF q
<1>4. seq - 1 \in Nat /\ seq - 1 <= q
  BY <1>2, <1>3
<1>5. (seq - 1) * ChSize <= q * ChSize /\ (seq - 1) * ChSize \in Nat
      /\ q * ChSize \in Nat
  BY <1>1, <1>2, <1>4, Monotone
<1> QED
  BY <1>1, <1>2, <1>5

\* Below 4 GiB a chunk that is not empty starts behind the full chunks before
\* it: the 32-bit product does not wrap.
LEMMA Position ==
  ASSUME src \in Files, Len(src) <= U32, NEW seq \in 1..conf.chcount,
         chunk_size_of(conf, seq) # 0
  PROVE  /\ start_pos(conf, seq) = (seq - 1) * ChSize
         /\ (seq - 1) * ChSize <= Len(src)
<1> DEFINE q == Len(src) \div ChSize
<1>1. Len(src) \in Nat /\ ChSize \in Nat \ {0}
  BY LenProperties
<1>2. q \in Nat /\ q * ChSize <= Len(src) /\ Len(src) < q * ChSize + ChSize
  BY <1>1, Div
<1>3. /\ conf.chsize = ChSize /\ conf.chcount = q + 1
      /\ conf.pchsize = Len(src) - q * ChSize
  BY ConfFacts DEF conf
<1> HIDE DEF q
<1>4. q * ChSize \in Nat
  BY <1>1, <1>2, Monotone
<1>5. (seq - 1) * ChSize \in Nat /\ (seq - 1) * ChSize <= q * ChSize
  BY <1>1, <1>2, <1>3, Monotone
<1>6. (seq - 1) * ChSize < Len(src)
  <2>1. CASE seq = conf.chcount
    BY <2>1, <1>1, <1>2, <1>3, <1>4 DEF chunk_size_of
  <2>2. CASE seq # conf.chcount
    <3>1. seq \in Nat /\ seq <= q
      BY <1>2, <1>3, <2>2
    <3>2. seq * ChSize <= q * ChSize
      BY <1>1, <1>2, <3>1, Monotone
    <3>3. seq * ChSize = (seq - 1) * ChSize + ChSize
      BY <1>1, <3>1
    <3> QED
      BY <1>1, <1>2, <1>4, <1>5, <3>2, <3>3
  <2> QED
    BY <2>1, <2>2
<1>7. (seq - 1) * ChSize \in 0..(U32 - 1)
  BY <1>1, <1>5, <1>6
<1>8. ((seq - 1) * ChSize) % U32 = (seq - 1) * ChSize
  BY <1>7, Mod
<1> QED
  BY <1>1, <1>3, <1>5, <1>6, <1>8 DEF start_pos

\* A chunk before the last ends where the next one starts.
LEMMA FullChunk ==
  ASSUME src \in Files, Len(src) <= U32, NEW seq \in 1..(conf.chcount - 1)
  PROVE  /\ start_pos(conf, seq) = (seq - 1) * ChSize
         /\ chunk_size_of(conf, seq) = ChSize
         /\ start_pos(conf, seq) \in Nat
         /\ start_pos(conf, seq) + ChSize = seq * ChSize
<1>1. conf.chsize = ChSize /\ conf.chcount \in Nat /\ ChSize \in Nat \ {0}
  BY ConfFacts DEF conf
<1>2. chunk_size_of(conf, seq) = ChSize
  BY <1>1 DEF chunk_size_of
<1>3. start_pos(conf, seq) = (seq - 1) * ChSize
  BY <1>1, <1>2, Position
<1>4. seq - 1 \in Nat /\ (seq - 1) * ChSize \in Nat
  BY <1>1, Monotone
<1> QED
  BY <1>1, <1>2, <1>3, <1>4

\* What is written behind a range does not change it.
LEMMA WriteBehind ==
  ASSUME NEW buf \in Seq(Byte), NEW pos \in Nat, NEW data \in Seq(Byte),
         NEW p \in Nat, NEW n \in Nat, p + n <= pos
  PROVE  mfread(mfwrite(buf, pos, data), p, n) = mfread(buf, p, n)
<1> DEFINE w == mfwrite(buf, pos, data)
<1>1. Len(w) = Len(buf) /\ Len(buf) \in Nat
  BY WriteTypes, LenProperties
<1>2. \A i \in 1..Len(buf) : i <= pos => w[i] = buf[i]
  BY <1>1 DEF mfwrite
<1> HIDE DEF w
<1>3. \A i \in 1..n : p + i <= Len(w) => w[p + i] = buf[p + i]
  BY <1>1, <1>2
<1> QED
  BY <1>1, <1>3 DEF mfread, w

\* A step of the pusher, of UDP, of the clock or of the end leaves the puller's
\* file and place in it alone.
PlaceKept ==
  /\ src' = src
  /\ UNCHANGED <<pull_file, pull_seq>>
  /\ pull_pc' # "data" \/ UNCHANGED <<pull_pc, pull_pos>>

\* Every step is of that kind, or a step of the puller that is not.
LEMMA PlaceSteps ==
  ASSUME [Next]_vars
  PROVE  PlaceKept \/ PullHandshake \/ PullFlow \/ PullSegment \/ PullChunkEnd
<1> USE DEF PlaceKept, pull_vars
<1>1. CASE Pusher
  BY <1>1 DEF Pusher, PushOpen, PushConnect, PushHandshake, PushHandshakeAck,
     PushStartData, PushFlow, PushFlowAck, PushSegment, PushChunkAck,
     PushVerify, PushVerifyAck, PushEnd, PushHeaderError, PushTimeout, PushReset
<1>2. CASE PullStart \/ PullAccept \/ PullStartData \/ PullVerify
  BY <1>2 DEF PullStart, PullAccept, PullStartData, PullVerify, PullGoto
<1>3. CASE PullEnd \/ PullHeaderError \/ PullTimeout \/ PullReset
  BY <1>3 DEF PullEnd, PullHeaderError, PullTimeout, PullReset, PullReturn
<1>4. CASE Network
  BY <1>4 DEF Network, Lose, Duplicate, Reorder, Corrupt
<1>5. CASE Fault
  BY <1>5 DEF Fault, PushFault, PullFault, PullReturn
<1>6. CASE UNCHANGED vars
  BY <1>6 DEF vars
<1> QED
  BY <1>1, <1>2, <1>3, <1>4, <1>5, <1>6 DEF Next, Puller, Terminated

\* The file that is sent does not change, and so neither does its layout.
LEMMA SrcFixed == [Next]_vars => src' = src /\ conf' = conf
<1> SUFFICES ASSUME [Next]_vars PROVE src' = src
  BY DEF conf
<1>1. CASE PullHandshake \/ PullFlow \/ PullSegment \/ PullChunkEnd
  BY <1>1 DEF PullHandshake, PullFlow, PullSegment, PullChunkEnd
<1> QED
  BY <1>1, PlaceSteps DEF PlaceKept

\* pull_chunk_data() seeks to the start of the chunk.
LEMMA SeekAhead ==
  ASSUME src \in Files, src' = src, pull_conf = conf,
         pull_seq \in 1..conf.chcount, NEW try, NEW crc, PullChunk(try, crc)
  PROVE  WritesAhead'
<1> SUFFICES ASSUME Len(src) <= U32, pull_pc' = "data"
             PROVE  pull_pos' >= (pull_seq' - 1) * ChSize
  BY DEF WritesAhead
<1>1. /\ pull_pos' = start_pos(conf, pull_seq) /\ pull_seq' = pull_seq
      /\ chunk_size_of(conf, pull_seq) # 0
  BY DEF PullChunk, PullReturn
<1>2. start_pos(conf, pull_seq) = (pull_seq - 1) * ChSize
  BY <1>1, Position
<1>3. start_pos(conf, pull_seq) \in Nat
  BY <1>2, ChunkStart
<1> QED
  BY <1>1, <1>2, <1>3

\* A segment is written where the one before it ended, inside the file.
LEMMA SegmentFacts ==
  ASSUME IInv, PullSegment, pull_file' # pull_file \/ pull_pc' = "data"
  PROVE  \E n \in Nat : \E data \in Seq(Byte) :
           /\ pull_file' = mfwrite(pull_file, pull_pos, data)
           /\ pull_pos' = mfadvance(pull_file, pull_pos, n)
<1> DEFINE n == segment_size(segsize_of(pull_conf), pull_rsize)
           data == [i \in 1..n |-> Head(udp)[i]]
<1>1. /\ pull_conf \in ConfType /\ pull_rsize \in Nat
      /\ udp \in Seq(Seq(Byte)) /\ udp # << >>
  BY DEF IInv, TypeInv, TypeOK, PullTypeOK, NetTypeOK, PullSegment
<1>2. n \in Nat
  BY <1>1, SegmentTypes
<1>3. Head(udp) \in Seq(Byte)
  BY <1>1, HeadTailProperties
<1>4. ~(Len(Head(udp)) < n)
  BY DEF PullSegment, PullReturn
<1>5. data \in Seq(Byte)
  <2>1. Len(Head(udp)) \in Nat
    BY <1>3, LenProperties
  <2>2. \A i \in 1..n : Head(udp)[i] \in Byte
    BY <1>2, <1>3, <1>4, <2>1, ElementOfSeq
  <2>3. data \in [1..n -> Byte]
    BY <2>2
  <2> QED
    BY <1>2, <2>3, FunctionIsSeq
<1>6. /\ pull_file' = mfwrite(pull_file, pull_pos, data)
      /\ pull_pos' = mfadvance(pull_file, pull_pos, n)
  BY <1>4 DEF PullSegment
<1> QED
  BY <1>2, <1>5, <1>6

\* WritesAhead is inductive relative to IInv.
LEMMA WritesAheadStep ==
  ASSUME IInv, WritesAhead, [Next]_vars
  PROVE  WritesAhead'
<1>1. src \in Files
  BY DEF IInv, TypeInv, TypeOK
<1>2. CASE PlaceKept
  BY <1>2 DEF PlaceKept, WritesAhead
<1>3. CASE PullHandshake
  BY <1>3 DEF PullHandshake, WritesAhead
<1>4. CASE PullFlow
  <2>1. /\ pull_conf = conf /\ pull_seq \in 1..conf.chcount /\ src' = src
    BY <1>4 DEF PullFlow, IInv, InStep, PullRange
  <2>2. CASE match_flow(Head(toPuller))
    BY <1>1, <1>4, <2>1, <2>2, SeekAhead DEF PullFlow
  <2>3. CASE ~match_flow(Head(toPuller))
    BY <1>4, <2>3 DEF PullFlow, PullReturn, WritesAhead
  <2> QED
    BY <2>2, <2>3
<1>5. CASE PullChunkEnd
  <2>1. /\ pull_conf = conf /\ pull_seq \in 1..conf.chcount /\ src' = src
    BY <1>5 DEF PullChunkEnd, IInv, InStep, PullRange
  <2>2. PullAccepted \/ PullRefused
    BY <1>5 DEF PullChunkEnd
  <2>3. CASE PullAccepted
    BY <2>3 DEF PullAccepted, WritesAhead
  <2>4. CASE PullRefused
    <3>1. CASE pull_try = 1
      BY <2>4, <3>1 DEF PullRefused, PullReturn, WritesAhead
    <3>2. CASE pull_try # 1
      BY <1>1, <2>1, <2>4, <3>2, SeekAhead DEF PullRefused
    <3> QED
      BY <3>1, <3>2
  <2> QED
    BY <2>2, <2>3, <2>4
<1>6. CASE PullSegment
  <2> SUFFICES ASSUME Len(src) <= U32, pull_pc' = "data"
               PROVE  pull_pos' >= (pull_seq' - 1) * ChSize
    BY <1>6 DEF PullSegment, WritesAhead
  <2>1. PICK n \in Nat : pull_pos' = mfadvance(pull_file, pull_pos, n)
    BY <1>6, SegmentFacts
  <2>2. pull_pc = "data" /\ pull_seq' = pull_seq
    BY <1>6 DEF PullSegment, PullReturn
  <2>3. /\ pull_pos >= (pull_seq - 1) * ChSize /\ pull_pos \in Nat
        /\ pull_seq \in 1..conf.chcount
        /\ Len(pull_file) = Len(src) /\ Len(src) \in Nat
    BY <1>1, <2>2, LenProperties
       DEF WritesAhead, IInv, TypeInv, TypeOK, PullTypeOK, InStep, PullRange, PullFile
  <2>4. (pull_seq - 1) * ChSize \in Nat /\ (pull_seq - 1) * ChSize <= Len(src)
    BY <1>1, <2>3, ChunkStart
  <2> QED
    BY <2>1, <2>2, <2>3, <2>4 DEF mfadvance
<1> QED
  BY <1>2, <1>3, <1>4, <1>5, <1>6, PlaceSteps

\* Before the puller has a chunk it has none to spoil; afterwards no step
\* changes a chunk before the one it is at.
LEMMA ChunksKept ==
  ASSUME IInv, WritesAhead, [Next]_vars, Len(src) <= U32, pull_seq > 0,
         NEW q \in 1..(pull_seq - 1)
  PROVE  chunk(pull_file', q) = chunk(pull_file, q)
<1>1. src \in Files /\ pull_seq \in Nat /\ pull_pos \in Nat
      /\ pull_file \in Seq(Byte)
  BY DEF IInv, TypeInv, TypeOK, PullTypeOK
<1>2. CASE PlaceKept
  BY <1>2 DEF PlaceKept
<1>3. CASE PullHandshake
  BY <1>3 DEF PullHandshake, IInv, InStep, PullRange
<1>4. CASE PullFlow \/ PullChunkEnd
  BY <1>4 DEF PullFlow, PullChunkEnd, PullAccepted, PullRefused, PullChunk,
     PullReturn
<1>5. CASE PullSegment
  <2> SUFFICES ASSUME pull_file' # pull_file
               PROVE  chunk(pull_file', q) = chunk(pull_file, q)
    OBVIOUS
  <2>1. PICK data \in Seq(Byte) : pull_file' = mfwrite(pull_file, pull_pos, data)
    BY <1>5, SegmentFacts
  <2>2. /\ pull_seq \in 1..conf.chcount
        /\ pull_pos >= (pull_seq - 1) * ChSize
    BY <1>5 DEF PullSegment, IInv, InStep, PullRange, WritesAhead
  <2>3. q \in 1..(conf.chcount - 1) /\ q <= pull_seq - 1 /\ q \in Nat
    BY <1>1, <2>2, ConfOK
  <2>4. /\ start_pos(conf, q) \in Nat /\ chunk_size_of(conf, q) = ChSize
        /\ start_pos(conf, q) + ChSize = q * ChSize
    BY <1>1, <2>3, FullChunk
  <2>5. q * ChSize <= (pull_seq - 1) * ChSize /\ (pull_seq - 1) * ChSize \in Nat
        /\ q * ChSize \in Nat
    BY <1>1, <2>2, <2>3, Monotone
  <2>6. start_pos(conf, q) + chunk_size_of(conf, q) <= pull_pos
    <3> HIDE CalcAssumption, TransferAssumption
    <3> QED
      BY <1>1, <2>2, <2>4, <2>5, Chain
  <2> QED
    BY <1>1, <2>1, <2>4, <2>6, WriteBehind DEF chunk
<1> QED
  BY <1>2, <1>3, <1>4, <1>5, PlaceSteps

\* The puller keeps its sequence number, or counts one on from a chunk whose
\* CRC32 is the announced one.
LEMMA SeqSteps ==
  ASSUME IInv, [Next]_vars, pull_seq > 0
  PROVE  \/ pull_seq' = pull_seq
         \/ /\ pull_seq' = pull_seq + 1
            /\ pull_file' = pull_file
            /\ Crc32(chunk(pull_file, pull_seq)) = Crc32(chunk(src, pull_seq))
<1>1. CASE PlaceKept
  BY <1>1 DEF PlaceKept
<1>2. CASE PullHandshake
  BY <1>2 DEF PullHandshake, IInv, InStep, PullRange
<1>3. CASE PullFlow
  BY <1>3 DEF PullFlow, PullChunk, PullReturn
<1>4. CASE PullSegment
  BY <1>4 DEF PullSegment, PullReturn
<1>5. CASE PullChunkEnd /\ PullRefused
  BY <1>5 DEF PullRefused, PullChunk, PullReturn
<1>6. CASE PullChunkEnd /\ ~PullRefused
  <2>1. PullAccepted /\ calc_chunk_crc32(pull_file, pull_conf, pull_seq) = pull_crc
    BY <1>6 DEF PullChunkEnd
  <2>2. /\ pull_conf = conf /\ pull_seq \in 1..conf.chcount
        /\ pull_crc = calc_chunk_crc32(src, conf, pull_seq)
    BY <1>6 DEF PullChunkEnd, IInv, InStep, PullRange, PullQueue
  <2>3. (pull_seq + 1) % U32 = pull_seq + 1
    BY <2>2, NextSeq DEF IInv, TypeInv, TypeOK
  <2> QED
    BY <2>1, <2>2, <2>3 DEF PullAccepted, calc_chunk_crc32, chunk
<1> QED
  BY <1>1, <1>2, <1>3, <1>4, <1>5, <1>6, PlaceSteps

\* No chunk is accepted before the handshake.
LEMMA NoneAccepted ==
  ASSUME IInv, [Next]_vars, pull_seq = 0
  PROVE  pull_seq' \in {0, 1}
<1>1. CASE PlaceKept
  BY <1>1 DEF PlaceKept
<1>2. CASE PullHandshake
  BY <1>2 DEF PullHandshake
<1>3. CASE PullFlow \/ PullSegment \/ PullChunkEnd
  BY <1>3, ConfOK DEF PullFlow, PullSegment, PullChunkEnd, IInv, InStep,
     PullRange
<1> QED
  BY <1>1, <1>2, <1>3, PlaceSteps

\* AcceptedChunksMatch is inductive relative to IInv and WritesAhead.
LEMMA ChunksMatchStep ==
  ASSUME IInv, WritesAhead, AcceptedChunksMatch, [Next]_vars
  PROVE  AcceptedChunksMatch'
<1>1. src' = src /\ conf' = conf /\ pull_seq \in Nat
  BY SrcFixed DEF conf, IInv, TypeInv, TypeOK, PullTypeOK
<1> SUFFICES ASSUME Len(src) <= U32, NEW q \in 1..(pull_seq' - 1)
             PROVE  Crc32(chunk(pull_file', q)) = Crc32(chunk(src, q))
  BY <1>1 DEF AcceptedChunksMatch, chunk
<1>2. pull_seq > 0
  BY <1>1, NoneAccepted
<1>3. CASE q \in 1..(pull_seq - 1)
  BY <1>2, <1>3, ChunksKept DEF AcceptedChunksMatch
<1>4. CASE q \notin 1..(pull_seq - 1)
  <2>1. pull_seq' # pull_seq
    BY <1>4
  <2>2. /\ pull_seq' = pull_seq + 1 /\ pull_file' = pull_file
        /\ Crc32(chunk(pull_file, pull_seq)) = Crc32(chunk(src, pull_seq))
    BY <1>2, <2>1, SeqSteps
  <2>3. q = pull_seq
    BY <1>1, <1>2, <1>4, <2>2
  <2> QED
    BY <2>2, <2>3
<1> QED
  BY <1>3, <1>4

\* The puller never writes before the chunk it is receiving: pull_chunk_data()
\* seeks to its start for every try, and a segment is written where the one
\* before it ended.
THEOREM NeverBehind == Spec => []WritesAhead
<1>1. Init => WritesAhead
  BY DEF Init, WritesAhead
<1> QED
  BY <1>1, WritesAheadStep, StaysInStep, PTL DEF Spec

\* The puller's sequence number never goes back, and a chunk it has accepted
\* is never written again, whatever UDP delivers and however often a later
\* chunk is sent again.
THEOREM ChunksStable == Spec => AcceptedChunksStable
<1>1. ASSUME IInv, WritesAhead, [Next]_vars
      PROVE  [Len(src) <= U32 /\ pull_seq > 0 =>
               /\ pull_seq' \in {pull_seq, pull_seq + 1}
               /\ \A q \in 1..(pull_seq - 1) :
                    chunk(pull_file', q) = chunk(pull_file, q)]_vars
  BY <1>1, SeqSteps, ChunksKept
<1> QED
  BY <1>1, NeverBehind, StaysInStep, PTL DEF Spec, AcceptedChunksStable

\* Every chunk the puller has acknowledged still has the CRC32 the pusher
\* announced for it, until the file is complete and after it.
THEOREM ChunksMatch == Spec => []AcceptedChunksMatch
<1>1. Init => AcceptedChunksMatch
  BY DEF Init, AcceptedChunksMatch
<1> QED
  BY <1>1, ChunksMatchStep, NeverBehind, StaysInStep, PTL DEF Spec

-----------------------------------------------------------------------------
(***************************************************************************)
(* The two calls agree, if no timeout is too short and no CRC32 misses a   *)
(* wrong chunk.                                                            *)
(***************************************************************************)
\* Every byte of the file lies in one of the chunks.
LEMMA ByteInChunk ==
  ASSUME src \in Files, Len(src) <= U32, NEW i \in 1..Len(src)
  PROVE  \E q \in 1..conf.chcount : \E k \in 1..chunk_size_of(conf, q) :
           start_pos(conf, q) + k = i /\ start_pos(conf, q) \in Nat
<1> DEFINE n == Len(src) \div ChSize
           b == (i - 1) \div ChSize
           k == i - b * ChSize
<1>1. Len(src) \in Nat /\ ChSize \in Nat \ {0} /\ i - 1 \in Nat /\ i \in Nat
  BY LenProperties
<1>2. n \in Nat /\ n * ChSize <= Len(src) /\ Len(src) < n * ChSize + ChSize
  BY <1>1, Div
<1>3. b \in Nat /\ b * ChSize <= i - 1 /\ i - 1 < b * ChSize + ChSize
  BY <1>1, Div
<1>4. /\ conf.chsize = ChSize /\ conf.chcount = n + 1
      /\ conf.pchsize = Len(src) - n * ChSize
  BY ConfFacts DEF conf
<1> HIDE DEF n, b
<1>5. n * ChSize \in Nat /\ b * ChSize \in Nat
  BY <1>1, <1>2, <1>3, Monotone
<1>6. b <= n
  <2> SUFFICES ASSUME n + 1 <= b PROVE FALSE
    BY <1>2, <1>3
  <2>1. (n + 1) * ChSize <= b * ChSize
    BY <1>1, <1>2, <1>3, Monotone
  <2>2. (n + 1) * ChSize = n * ChSize + ChSize
    BY <1>1, <1>2
  <2> QED
    BY <1>1, <1>2, <1>3, <1>5, <2>1, <2>2
<1>7. k \in 1..ChSize
  BY <1>1, <1>3, <1>5
<1>8. k \in 1..chunk_size_of(conf, b + 1)
  <2>1. CASE b = n
    BY <1>1, <1>2, <1>4, <1>5, <1>7, <2>1 DEF chunk_size_of
  <2>2. CASE b # n
    <3>1. b + 1 # conf.chcount
      BY <1>2, <1>3, <1>4, <2>2
    <3> QED
      BY <1>4, <1>7, <3>1 DEF chunk_size_of
  <2> QED
    BY <2>1, <2>2
<1>9. b + 1 \in 1..conf.chcount
  BY <1>2, <1>3, <1>4, <1>6
<1>10. start_pos(conf, b + 1) = b * ChSize
  <2>1. chunk_size_of(conf, b + 1) # 0
    BY <1>8
  <2>2. start_pos(conf, b + 1) = ((b + 1) - 1) * ChSize
    BY <1>9, <2>1, Position
  <2> QED
    BY <1>3, <2>2
<1>11. start_pos(conf, b + 1) + k = i /\ start_pos(conf, b + 1) \in Nat
  BY <1>1, <1>5, <1>10
<1> QED
  BY <1>8, <1>9, <1>11

\* A file of the right length whose chunks are right is right.
LEMMA WholeFromChunks ==
  ASSUME src \in Files, Len(src) <= U32, NEW f \in Seq(Byte),
         Len(f) = Len(src),
         \A q \in 1..conf.chcount : chunk(f, q) = chunk(src, q)
  PROVE  f = src
<1>1. src \in Seq(Byte) /\ Len(src) \in Nat
  BY LenProperties
<1>2. ASSUME NEW i \in 1..Len(src)
      PROVE  f[i] = src[i]
  <2>1. PICK q \in 1..conf.chcount : \E k \in 1..chunk_size_of(conf, q) :
          start_pos(conf, q) + k = i
    BY ByteInChunk
  <2>2. PICK k \in 1..chunk_size_of(conf, q) : start_pos(conf, q) + k = i
    BY <2>1
  <2>3. chunk(f, q)[k] = f[i]
    BY <1>1, <2>2 DEF chunk, mfread
  <2>4. chunk(src, q)[k] = src[i]
    BY <1>1, <2>2 DEF chunk, mfread
  <2> QED
    BY <2>3, <2>4
<1> QED
  BY <1>1, <1>2, SeqEqual

\* When the puller judges the file it has every chunk, and the file is whole.
LEMMA WholeAtVerify ==
  ASSUME IInv, AcceptedChunksMatch, ChecksumsTell, Len(src) <= U32,
         pull_pc = "verify"
  PROVE  pull_file = src
<1>1. /\ src \in Files /\ pull_file \in Seq(Byte) /\ Len(pull_file) = Len(src)
      /\ pull_seq = conf.chcount + 1
  BY DEF IInv, TypeInv, TypeOK, PullTypeOK, InStep, PullRange, PullFile
<1>2. \A q \in 1..conf.chcount : q \in 1..(pull_seq - 1)
  BY <1>1, ConfOK
<1>3. \A q \in 1..conf.chcount : chunk(pull_file, q) = chunk(src, q)
  BY <1>2 DEF AcceptedChunksMatch, ChecksumsTell
<1> QED
  BY <1>1, <1>3, WholeFromChunks

\* A step in which nothing fails leaves the count of failures alone, and none
\* takes one back.
LEMMA FaultsCounted ==
  ASSUME IInv, [Next]_vars, used'["fault"] = 0
  PROVE  used["fault"] = 0 /\ ~Fault
<1>1. used \in [Kinds -> Nat] /\ "fault" \in Kinds
  BY DEF IInv, TypeInv, TypeOK, NetTypeOK, Kinds
<1>2. ~Fault
  <2> SUFFICES ASSUME Fault PROVE FALSE
    OBVIOUS
  <2>1. used'["fault"] = used["fault"] + 1
    BY <1>1 DEF Fault, PushFault, PullFault, Spend
  <2> QED
    BY <1>1, <2>1
<1>3. CASE Network
  BY <1>1, <1>2, <1>3 DEF Network, Lose, Duplicate, Reorder, Corrupt, Spend
<1>4. CASE Pusher
  <2>1. used' = used
    BY <1>4 DEF Pusher, PushOpen, PushConnect, PushHandshake,
       PushHandshakeAck, PushStartData, PushFlow, PushFlowAck, PushSegment,
       PushChunkAck, PushVerify, PushVerifyAck, PushEnd, PushHeaderError,
       PushTimeout, PushReset
  <2> QED
    BY <1>2, <2>1
<1>5. CASE Puller
  <2>1. used' = used
    BY <1>5 DEF Puller, PullStart, PullAccept, PullHandshake, PullStartData,
       PullFlow, PullSegment, PullChunkEnd, PullVerify, PullEnd,
       PullHeaderError, PullTimeout, PullReset
  <2> QED
    BY <1>2, <2>1
<1> QED
  BY <1>2, <1>3, <1>4, <1>5 DEF Next, Terminated, vars

\* The pusher waits for the verdict until it comes, and reports what it says.
LEMMA PusherAgrees ==
  ASSUME IInv, Agreement, Patient, Pusher, used["fault"] = 0
  PROVE  Agreement'
<1>1. src' = src /\ UNCHANGED pull_vars
  BY DEF Pusher, PushOpen, PushConnect, PushHandshake, PushHandshakeAck,
     PushStartData, PushFlow, PushFlowAck, PushSegment, PushChunkAck,
     PushVerify, PushVerifyAck, PushEnd, PushHeaderError, PushTimeout, PushReset
<1> SUFFICES ASSUME Len(src) <= U32
             PROVE  /\ pull_pc = "verify" /\ toPuller' # << >> =>
                         push_pc' = "verify_ack"
                    /\ verdict # "none" =>
                         /\ verdict = "match" /\ pull_file = src
                         /\ pull_pc = "done" => pull_stat = "SUCCESS"
                         /\ push_pc' = "done" => push_stat' = "SUCCESS"
  BY <1>1, Zenon DEF Agreement, pull_vars
<1>2. ASSUME pull_pc = "verify", toPuller' # << >>
      PROVE  push_pc' = "verify_ack"
  <2>1. CASE PushVerify
    BY <2>1 DEF PushVerify, PushGoto
  <2>2. CASE PushHandshake
    BY <1>2, <2>2 DEF PushHandshake, IInv, InStep, PushHandshakeView
  <2>3. CASE PushFlow
    BY <1>2, <2>3 DEF PushFlow, IInv, InStep, PushTransferView
  <2>4. CASE ~PushVerify /\ ~PushHandshake /\ ~PushFlow
    <3>1. toPuller' = toPuller
      BY <2>4 DEF Pusher, PushOpen, PushConnect, PushHandshakeAck,
         PushStartData, PushFlowAck, PushSegment, PushChunkAck,
         PushVerifyAck, PushEnd, PushHeaderError, PushTimeout, PushReset,
         tcp_vars
    <3>2. push_pc = "verify_ack"
      BY <1>2, <3>1 DEF Agreement
    <3>3. toPusher = << >>
      BY <1>2, <3>2 DEF IInv, InStep, PushVerifyView
    <3>4. pull_RECV_header # "SUCCESS"
      BY <3>3 DEF pull_RECV_header, header_status
    <3>5. ~PushHeaderError /\ ~PushTimeout /\ ~PushReset
      BY <1>2, <3>3 DEF PushHeaderError, PushTimeout, PushReset, Starved
    <3> QED
      BY <2>4, <3>2, <3>4, <3>5
      DEF Pusher, PushOpen, PushConnect, PushHandshakeAck, PushStartData,
          PushFlowAck, PushSegment, PushChunkAck, PushVerifyAck, PushEnd
  <2> QED
    BY <2>1, <2>2, <2>3, <2>4
<1>3. ASSUME verdict # "none"
      PROVE  /\ verdict = "match" /\ pull_file = src
             /\ pull_pc = "done" => pull_stat = "SUCCESS"
             /\ push_pc' = "done" => push_stat' = "SUCCESS"
  <2>1. /\ verdict = "match" /\ pull_file = src
        /\ pull_pc = "done" => pull_stat = "SUCCESS"
    BY <1>3 DEF Agreement
  <2>2. push_pc \in {"verify_ack", "end", "done"}
    BY <1>3 DEF IInv, InStep, PushVerifyView
  <2>3. push_pc' = "done" => push_stat' = "SUCCESS"
    <3>1. CASE push_pc = "verify_ack"
      <4>1. Len(toPusher) = 1 /\ toPusher[1].ack = 1 /\ toPusher # << >>
        <5>1. Len(toPusher) = 1 /\ toPusher[1].ack = 1
          BY <1>3, <2>1, <3>1, Zenon DEF IInv, InStep, PushVerifyView
        <5>2. toPusher # << >>
          <6>1. toPusher = << >> => Len(toPusher) = 0
            BY NoElements, Zenon
          <6> QED
            BY <5>1, <6>1
        <5> QED
          BY <5>1, <5>2, Zenon
      <4>2. Head(toPusher) = toPusher[1] /\ Head(toPusher).type = "RECV"
        <5>1. toPusher \in Seq(RecvPackets)
          BY DEF IInv, TypeInv, TypeOK, NetTypeOK
        <5>2. Head(toPusher) \in RecvPackets /\ Head(toPusher) = toPusher[1]
          BY <4>1, <5>1, HeadTailProperties, Pop
        <5> QED
          BY <5>2 DEF RecvPackets
      <4>3. pull_RECV_header = "SUCCESS"
        BY <4>1, <4>2 DEF pull_RECV_header, header_status
      <4> QED
        BY <3>1, <4>1, <4>2, <4>3
        DEF Pusher, PushOpen, PushConnect, PushHandshake, PushHandshakeAck,
            PushStartData, PushFlow, PushFlowAck, PushSegment, PushChunkAck,
            PushVerify, PushVerifyAck, PushEnd, PushHeaderError, PushTimeout,
            PushReset, PushGoto
    <3>2. CASE push_pc = "end"
      BY <3>2
      DEF Pusher, PushOpen, PushConnect, PushHandshake, PushHandshakeAck,
          PushStartData, PushFlow, PushFlowAck, PushSegment, PushChunkAck,
          PushVerify, PushVerifyAck, PushEnd, PushHeaderError, PushTimeout,
          PushReset, PushReturn, PushWaits
    <3>3. CASE push_pc = "done"
      BY <3>3
      DEF Pusher, PushOpen, PushConnect, PushHandshake, PushHandshakeAck,
          PushStartData, PushFlow, PushFlowAck, PushSegment, PushChunkAck,
          PushVerify, PushVerifyAck, PushEnd, PushHeaderError, PushTimeout,
          PushReset, PushWaits
    <3> QED
      BY <2>2, <3>1, <3>2, <3>3
  <2> QED
    BY <2>1, <2>3
<1> QED
  BY <1>2, <1>3

\* The puller judges a whole file, and then returns success.
LEMMA PullerAgrees ==
  ASSUME IInv, AcceptedChunksMatch, ChecksumsTell, Agreement, Puller,
         used["fault"] = 0
  PROVE  Agreement'
<1>1. src' = src /\ UNCHANGED push_vars
  BY DEF Puller, PullStart, PullAccept, PullHandshake, PullStartData,
     PullFlow, PullSegment, PullChunkEnd, PullVerify, PullEnd,
     PullHeaderError, PullTimeout, PullReset
<1> SUFFICES ASSUME Len(src) <= U32
             PROVE  /\ pull_pc' = "verify" /\ toPuller' # << >> =>
                         push_pc = "verify_ack"
                    /\ verdict' # "none" =>
                         /\ verdict' = "match" /\ pull_file' = src
                         /\ pull_pc' = "done" => pull_stat' = "SUCCESS"
                         /\ push_pc = "done" => push_stat = "SUCCESS"
  BY <1>1, Zenon DEF Agreement, push_vars
<1>2. CASE PullVerify
  <2>1. pull_file = src
    BY <1>2, WholeAtVerify DEF PullVerify
  <2>2. toPuller # << >> /\ toPuller = <<SEND(conf, Crc16(src))>>
    BY <1>2
    DEF PullVerify, pull_SEND_header, header_status, IInv, InStep, PullQueue
  <2>3. Head(toPuller).crc = Crc16(pull_file)
    BY <2>1, <2>2, Single DEF SEND
  <2>4. push_pc = "verify_ack"
    BY <1>2, <2>2 DEF Agreement, PullVerify
  <2> QED
    BY <1>2, <2>1, <2>3, <2>4 DEF PullVerify
<1>3. CASE PullEnd
  BY <1>3 DEF PullEnd, PullReturn, Agreement, IInv, InStep, PullFile
<1>4. CASE ~PullVerify /\ ~PullEnd
  <2>1. verdict' = "none"
    <3>1. verdict' = verdict
      BY <1>4 DEF Puller, PullStart, PullAccept, PullHandshake, PullStartData,
         PullFlow, PullSegment, PullChunkEnd, PullAccepted, PullRefused,
         PullChunk, PullHeaderError, PullTimeout, PullReset, PullGoto,
         PullReturn
    <3>2. pull_pc \notin {"end", "done"}
      BY <1>4 DEF Puller, PullStart, PullAccept, PullHandshake, PullStartData,
         PullFlow, PullSegment, PullChunkEnd, PullHeaderError, PullTimeout,
         PullReset, PullWaits
    <3> QED
      BY <3>1, <3>2 DEF IInv, InStep, PullFile
  <2>2. CASE PullStartData
    <3>1. pull_pc' = "flow"
      BY <2>2, ConfOK
      DEF IInv, TypeInv, TypeOK, InStep, PullRange, PullStartData
    <3> QED
      BY <2>1, <3>1
  <2>3. CASE PullChunkEnd
    <3>1. toPuller' = << >>
      BY <2>3 DEF PullChunkEnd, IInv, InStep, PullQueue
    <3> QED
      BY <2>1, <3>1
  <2>4. CASE ~PullStartData /\ ~PullChunkEnd
    <3>1. pull_pc' # "verify"
      BY <1>4, <2>4
      DEF Puller, PullStart, PullAccept, PullHandshake, PullFlow, PullSegment,
          PullChunk, PullHeaderError, PullTimeout, PullReset, PullGoto,
          PullReturn
    <3> QED
      BY <2>1, <3>1
  <2> QED
    BY <2>2, <2>3, <2>4
<1> QED
  BY <1>2, <1>3, <1>4

\* Agreement is inductive relative to IInv and what the checksums tell.
LEMMA AgreementStep ==
  ASSUME IInv, AcceptedChunksMatch, ChecksumsTell, Agreement, Patient,
         [Next]_vars
  PROVE  Agreement'
<1>1. CASE used'["fault"] # 0
  BY <1>1 DEF Agreement
<1>2. CASE used'["fault"] = 0
  <2>1. used["fault"] = 0 /\ ~Fault
    BY <1>2, FaultsCounted
  <2>2. CASE Network \/ UNCHANGED vars
    <3>1. /\ src' = src /\ UNCHANGED push_vars /\ UNCHANGED pull_vars
          /\ UNCHANGED tcp_vars
      BY <2>2 DEF Network, Lose, Duplicate, Reorder, Corrupt, vars
    <3> QED
      BY <2>1, <3>1 DEF Agreement, push_vars, pull_vars, tcp_vars
  <2> QED
    BY <2>1, <2>2, PusherAgrees, PullerAgrees DEF Next, Terminated
<1> QED
  BY <1>1, <1>2

\* Whatever UDP does, the two calls report the same, and success means that the
\* file arrived, if the timeouts are longer than any delay of the peer
\* (Patient) and no wrong chunk passes the CRC32 (ChecksumsTell).  Neither a
\* try count that runs out on one side first nor the unacknowledged last
\* answer separates them.
THEOREM CallsAgree ==
  ASSUME Patient
  PROVE  Spec /\ []ChecksumsTell => []OutcomesAgree
<1>1. Init => Agreement
  BY DEF Init, Agreement
<1>2. IInv /\ AcceptedChunksMatch /\ ChecksumsTell /\ Agreement /\ [Next]_vars
        => Agreement'
  BY AgreementStep
<1>3. IInv /\ Agreement => OutcomesAgree
  BY DEF IInv, InStep, Outcomes, Agreement, OutcomesAgree, BothDone, Delivered
<1> QED
  BY <1>1, <1>2, <1>3, StaysInStep, ChunksMatch, PTL DEF Spec
=============================================================================
