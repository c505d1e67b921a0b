--------------------------- MODULE TransferProps ----------------------------
(***************************************************************************)
(* What a transfer keeps true, may never do and eventually does, and the   *)
(* abstract specification it implements.                                   *)
(***************************************************************************)
EXTENDS Transfer

(***************************************************************************)
(* Types.                                                                  *)
(***************************************************************************)
ConfType == [chsize : Nat, pchsize : Nat, chcount : Nat]

\* The checksums a packet of this transfer can carry.
Checksums ==
  {0, Crc16(src)} \cup {calc_chunk_crc32(src, conf, q) : q \in 1..conf.chcount}

SendPackets == [type : {"SEND"}, conf : ConfType, crc : Checksums]
FlowPackets ==
  [type : {"FLOW"}, chunk_size : Nat, sequence : Nat, crc : Checksums]
RecvPackets == [type : {"RECV"}, ack : {0, 1}, sequence : Nat]

PushTypeOK ==
  /\ push_pc \in PushPCs /\ push_stat \in PushStats
  /\ push_seq \in Nat /\ push_try \in 1..PushTry
  /\ push_pos \in Nat /\ push_rsize \in Nat

PullTypeOK ==
  /\ pull_pc \in PullPCs /\ pull_stat \in PullStats
  /\ pull_conf \in ConfType
  /\ pull_seq \in Nat /\ pull_try \in 1..PullTry
  /\ pull_pos \in Nat /\ pull_rsize \in Nat
  /\ pull_crc \in Checksums
  /\ pull_file \in Seq(Byte)
  /\ verdict \in {"none", "match", "mismatch"}

NetTypeOK ==
  /\ conn \in BOOLEAN
  /\ toPuller \in Seq(SendPackets \cup FlowPackets)
  /\ toPusher \in Seq(RecvPackets)
  /\ udp \in Seq(Seq(Byte))
  /\ used \in [Kinds -> Nat]

\* Every variable has its type; a packet carries a checksum of this file and
\* a try count never leaves 1 .. tf_trycount.
TypeOK == src \in Files /\ PushTypeOK /\ PullTypeOK /\ NetTypeOK

-----------------------------------------------------------------------------
(***************************************************************************)
(* Safety.                                                                 *)
(***************************************************************************)
\* push_file() reports success only for a file the puller has received in
\* full, has verified and will not touch again: the two files have the same
\* length and the same CRC16, whatever the network did on the way.
SuccessVerified ==
  push_stat = "SUCCESS" =>
    /\ verdict = "match"
    /\ pull_pc \in {"end", "done"}
    /\ pull_seq = conf.chcount + 1
    /\ Len(pull_file) = Len(src)
    /\ Crc16(pull_file) = Crc16(src)

\* pull_file() reports success only after every chunk was accepted and the
\* verification packet answered.
PullSuccessComplete ==
  pull_stat = "SUCCESS" =>
    /\ pull_seq = conf.chcount + 1
    /\ verdict # "none"
    /\ Len(pull_file) = Len(src)

\* The two state machines never fall out of step: no packet arrives where
\* another type is expected, no FLOW packet announces a chunk that is not the
\* next one, and so the pusher never repeats a FLOW packet.
NeverDesynchronised ==
  /\ push_stat \notin {"BADTYPE", "EXPTRY0"}
  /\ pull_stat \notin {"BADTYPE", "BADFLOW"}

\* The data answers queued for the pusher: behind the answer to a FLOW packet
\* while the pusher still waits for that one.
ChunkAnswers ==
  IF push_pc = "flow_ack" /\ toPusher # << >> THEN Tail(toPusher) ELSE toPusher

\* The pusher never checks the sequence number of a RECV packet.  It need
\* not: while it sends chunk push_seq, every queued answer is about that
\* chunk, an ACK is the last of them, and one is queued exactly when the
\* puller has moved on to the next chunk.
RepliesInOrder ==
  push_pc \in {"flow_ack", "data", "data_ack"} =>
    /\ pull_seq = push_seq \/ pull_seq = push_seq + 1
    /\ pull_seq = push_seq + 1 => ChunkAnswers # << >>
    /\ \A i \in 1..Len(ChunkAnswers) :
         /\ ChunkAnswers[i].sequence = push_seq
         /\ ChunkAnswers[i].ack = 1 <=>
              (i = Len(ChunkAnswers) /\ pull_seq = push_seq + 1)

\* Each side counts its own tries.  The counts differ by the NACKs still on
\* the way, so with equal tf_trycount neither gives up on a chunk the other
\* still counts on.
RetryLockstep ==
  push_pc \in {"data", "data_ack"} /\ pull_pc \in {"data", "chunk_end"} =>
    (PushTry - push_try) + Len(toPusher) = PullTry - pull_try

\* Segments are only sent to a puller that has bound its data socket: the
\* handshake is acknowledged before start_data() but the FLOW packet after.
SegmentsHaveASocket ==
  push_pc = "data" /\ pull_pc # "done" => DataSocketOpen

chunk(buf, seq) == mfread(buf, start_pos(conf, seq), chunk_size_of(conf, seq))

\* What an ACK promised stays true: every chunk accepted so far still has the
\* CRC32 announced for it, whatever was written since.  (Below 4 GiB, where
\* file positions do not wrap.)
AcceptedChunksMatch ==
  Len(src) <= U32 =>
    \A q \in 1..(pull_seq - 1) :
      Crc32(chunk(pull_file, q)) = Crc32(chunk(src, q))

\* Both calls returned success and the file arrived.
Delivered ==
  /\ push_stat = "SUCCESS"
  /\ pull_stat = "SUCCESS"
  /\ pull_file = src

\* The environment kept its hands off all but the given kinds.
OnlyUsed(kinds) == \A k \in Kinds \ kinds : used[k] = 0

BothDone == push_pc = "done" /\ pull_pc = "done" /\ conn

\* Undisturbed, a transfer that was accepted succeeds.
CleanTransferSucceeds ==
  BothDone /\ OnlyUsed({}) /\ mfopen(pull_file) => Delivered

\* Byte i lies in one of the chunks, at their 32-bit positions.
Carried(i) ==
  \E q \in 0..(Len(src) \div ChSize) :
    LET pos  == (q * ChSize) % U32
        last == q = Len(src) \div ChSize
    IN  pos < i /\ i <= pos + (IF last THEN Len(src) % ChSize ELSE ChSize)

\* The files the code can deal with: an empty last chunk starts in the file,
\* which it does only where its position wraps, and no chunk has to carry a
\* byte that the puller's file does not have from the start.
Deliverable ==
  /\ Len(src) < U32 => Len(src) % ChSize # 0
  /\ \A i \in 1..Len(src) : src[i] = 0 \/ Carried(i)

\* Undisturbed, with timeouts that are long enough, a transfer succeeds for
\* exactly these: a multiple of the chunk size ends in mfseek(), and the end of
\* a file beyond 2^32 is never sent.
CleanTransferOutcome ==
  BothDone /\ OnlyUsed({}) /\ mfopen(pull_file) => (Delivered <=> Deliverable)

\* No chunk ends in a segment that is shorter than the others.
EqualSegments ==
  \A q \in 1..conf.chcount :
    \/ chunk_size_of(conf, q) <= segsize_of(conf)
    \/ chunk_size_of(conf, q) % segsize_of(conf) = 0

\* The damage a transfer is made to stand: segments damaged or swapped fewer
\* times than either side has tries.  A short segment must stay the last one:
\* read before it is due it ends both calls with LOWSIZE.
Tolerable ==
  /\ OnlyUsed({"corrupt"} \cup IF EqualSegments THEN {"reorder"} ELSE {})
  /\ used["corrupt"] + used["reorder"] < PushTry
  /\ used["corrupt"] + used["reorder"] < PullTry

\* Damaged chunks are sent again until they are right.
DamageRepaired ==
  BothDone /\ mfopen(pull_file) /\ Deliverable /\ Tolerable => Delivered

\* Whatever UDP does, the two calls report the same: although the last answer
\* is not acknowledged and either side may give up first, success on one side
\* is success on the other, and then the file is intact.  (Timeouts are long
\* enough, checksums exact, and positions do not wrap.)
OutcomesAgree ==
  BothDone /\ used["fault"] = 0 /\ Len(src) <= U32 =>
    \/ push_stat # "SUCCESS" /\ pull_stat # "SUCCESS"
    \/ Delivered

\* One lost segment is sent again.
LossRepaired ==
  BothDone /\ OnlyUsed({"lose"}) /\ used["lose"] < PushTry => Delivered

\* A puller that reports success has found the CRC16 it was sent.
PullSuccessVerified == pull_stat = "SUCCESS" => verdict = "match"

-----------------------------------------------------------------------------
(***************************************************************************)
(* Action properties and liveness.                                         *)
(***************************************************************************)
\* The puller never goes back, and never writes into a chunk it has accepted.
AcceptedChunksStable ==
  [][Len(src) <= U32 /\ pull_seq > 0 =>
       /\ pull_seq' \in {pull_seq, pull_seq + 1}
       /\ \A q \in 1..(pull_seq - 1) :
            chunk(pull_file', q) = chunk(pull_file, q)]_vars

\* push_file() returns, whatever the network and the puller do.
PusherTerminates == <>(push_pc = "done")

\* pull_file() returns once a pusher has connected: its time limits are positive,
\* which only push_file() checks, and before the connection it may wait for ever.
PullerTerminates == conn ~> (pull_pc = "done")

-----------------------------------------------------------------------------
(***************************************************************************)
(* The transfer implements Delivery.                                       *)
(***************************************************************************)
Before(seq) == IF seq = 0 THEN 0 ELSE seq - 1

Reported(pc, stat) ==
  IF pc # "done" THEN "running"
  ELSE IF stat = "SUCCESS" THEN "success" ELSE "failure"

Abstract ==
  INSTANCE Delivery WITH
    total     <- conf.chcount,
    accepted  <- Before(pull_seq),
    confirmed <- Before(push_seq),
    sender    <- Reported(push_pc, push_stat),
    receiver  <- Reported(pull_pc, pull_stat)

\* Chunks are accepted and confirmed one at a time and in order, the file is
\* judged after the last, and success is reported as Delivery allows.
ImplementsDelivery == Abstract!Spec
=============================================================================
