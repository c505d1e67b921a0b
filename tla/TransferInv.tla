---------------------------- MODULE TransferInv -----------------------------
(***************************************************************************)
(* The inductive invariant behind the safety properties of a transfer: for *)
(* every place one side may be in, where the other can be and what is on   *)
(* the way between them.  The pusher's view holds until it returns, the    *)
(* puller's view until it returns, so that each survives the other.        *)
(***************************************************************************)
EXTENDS TransferProps

\* The pusher's sequence number, place by place.
PushRange ==
  /\ push_pc = "start_data" => push_seq = 1
  /\ push_pc \in {"flow", "flow_ack", "data", "data_ack"} =>
       push_seq \in 1..conf.chcount
  /\ push_pc \in {"verify", "verify_ack", "end"} =>
       push_seq = conf.chcount + 1

\* The puller's sequence number, and what the handshake taught it.
PullRange ==
  /\ pull_pc \in {"start", "accept", "handshake"} => pull_seq = 0
  /\ pull_pc = "start_data" => pull_seq = 1
  /\ pull_pc \in {"flow", "data", "chunk_end"} => pull_seq \in 1..conf.chcount
  /\ pull_pc \in {"verify", "end"} => pull_seq = conf.chcount + 1
  /\ pull_pc \in {"start_data", "flow", "data", "chunk_end", "verify", "end"}
       => pull_conf = conf
  /\ pull_pc = "flow" => pull_try = PullTry

\* The FLOW packet the pusher sends for a chunk.
FlowOf(seq) ==
  FLOW(chunk_size_of(conf, seq), seq, calc_chunk_crc32(src, conf, seq))

\* What the puller may find in its queue.
PullQueue ==
  /\ pull_pc = "start" => toPuller = << >>
  /\ pull_pc \in {"accept", "handshake"} =>
       toPuller \in {<< >>, <<SEND(conf, 0)>>}
  /\ pull_pc \in {"start_data", "flow"} =>
       toPuller \in {<< >>, <<FlowOf(pull_seq)>>}
  /\ pull_pc \in {"data", "chunk_end"} =>
       /\ toPuller = << >>
       /\ pull_crc = calc_chunk_crc32(src, conf, pull_seq)
  /\ pull_pc = "verify" => toPuller \in {<< >>, <<SEND(conf, Crc16(src))>>}

\* The file on the puller's side, and its judgement of it.
PullFile ==
  /\ pull_file # << >> => Len(pull_file) = Len(src)
  /\ pull_pc \in {"data", "chunk_end", "verify", "end"} => pull_file # << >>
  /\ pull_pc \in {"start_data", "flow"} /\ toPuller # << >> =>
       pull_file # << >>
  /\ pull_pc \notin {"end", "done"} => verdict = "none"
  /\ pull_pc = "end" => verdict # "none"
  /\ verdict # "none" => pull_seq = conf.chcount + 1 /\ pull_file # << >>
  /\ verdict = "match" => Crc16(pull_file) = Crc16(src)

(***************************************************************************)
(* While the pusher is at chunk push_seq and has used up some tries, queue *)
(* holds the answers to that chunk: NACKs, and an ACK behind them once the *)
(* puller is past the chunk.                                               *)
(***************************************************************************)
ChunkPhase(queue, tries) ==
  /\ pull_seq = push_seq \/ pull_seq = push_seq + 1
  /\ pull_seq = push_seq => pull_pc \in {"data", "chunk_end", "done"}
  /\ pull_seq = push_seq + 1 =>
       pull_pc \in {"flow", "verify", "done"} /\ queue # << >>
  /\ \A i \in 1..Len(queue) :
       /\ queue[i].sequence = push_seq
       /\ queue[i].ack = 1 <=> (i = Len(queue) /\ pull_seq = push_seq + 1)
  /\ pull_pc \in {"data", "chunk_end"} =>
       tries + Len(queue) = PullTry - pull_try

Quiet == toPuller = << >> /\ toPusher = << >>

\* Handshake: nothing is answered before it is asked.
PushHandshakeView ==
  /\ push_pc \in {"open", "connect"} =>
       ~conn /\ Quiet /\ pull_pc \in {"start", "accept", "done"}
  /\ push_pc \notin {"open", "connect", "done"} => conn
  /\ push_pc = "send" => Quiet /\ pull_pc \in {"accept", "handshake", "done"}
  /\ push_pc = "send_ack" =>
       \/ toPusher = << >> /\ pull_pc \in {"accept", "handshake", "done"}
       \/ /\ Len(toPusher) = 1
          /\ toPusher[1].ack = 1 => pull_file # << >>
          /\ toPuller = << >>
          /\ pull_pc \in {"start_data", "flow", "done"}
          /\ pull_seq = 1

\* Transfer: the two sides are at the same chunk, or the puller is one ahead
\* and its ACK on the way.
PushTransferView ==
  /\ push_pc \in {"start_data", "flow"} =>
       /\ Quiet
       /\ pull_pc \in {"start_data", "flow", "done"}
       /\ pull_seq = push_seq
  /\ push_pc = "flow_ack" =>
       \/ /\ toPusher = << >>
          /\ pull_pc \in {"start_data", "flow", "done"}
          /\ pull_seq = push_seq
       \/ /\ toPusher # << >>
          /\ toPusher[1].ack = 1
          /\ toPuller = << >>
          /\ ChunkPhase(Tail(toPusher), 0)
  /\ push_pc \in {"data", "data_ack"} =>
       /\ toPuller = << >>
       /\ ChunkPhase(toPusher, PushTry - push_try)

\* Verification: the only answer on the way is the puller's verdict.
PushVerifyView ==
  /\ push_pc = "verify" => Quiet /\ pull_pc \in {"verify", "done"}
  /\ push_pc \in {"verify", "verify_ack"} => pull_seq = push_seq
  /\ push_pc = "verify_ack" =>
       \/ /\ toPusher = << >>
          /\ verdict = "none"
          /\ pull_pc \in {"verify", "done"}
       \/ /\ Len(toPusher) = 1
          /\ toPusher[1].ack = 1 <=> verdict = "match"
          /\ pull_pc \in {"end", "done"}
          /\ verdict # "none"
  /\ push_pc \notin {"verify_ack", "end", "done"} => verdict = "none"
  /\ push_pc \in {"start_data", "flow", "flow_ack", "data", "data_ack",
                  "verify", "verify_ack", "end"} => pull_file # << >>
  /\ push_pc = "end" => verdict = "match"

\* What the two calls may have returned.
Outcomes ==
  /\ push_pc # "done" => push_stat = "RUNNING"
  /\ pull_pc # "done" => pull_stat = "RUNNING"
  /\ push_stat = "SUCCESS" => verdict = "match"
  /\ pull_stat = "SUCCESS" => verdict # "none"
  /\ push_stat \notin {"BADTYPE", "EXPTRY0"}
  /\ pull_stat \notin {"BADTYPE", "BADFLOW"}

\* The two state machines stay in step.
InStep ==
  /\ PullRange /\ PullQueue /\ PullFile
  /\ PushHandshakeView /\ PushTransferView /\ PushVerifyView
  /\ Outcomes

TypeInv == TypeOK /\ PushRange

IInv == TypeInv /\ InStep

\* How far the pusher has come where the puller is about to accept or to judge,
\* whether or not the pusher still runs.  IInv says nothing of a pusher that
\* has returned.
Paced ==
  /\ push_pc \in {"open", "connect", "send", "send_ack"} => push_seq = 0
  /\ pull_pc \in {"data", "chunk_end"} => pull_seq = push_seq
  /\ toPuller # << >> =>
       /\ pull_pc \in {"start_data", "flow"} => pull_seq = push_seq
       /\ pull_pc = "verify" => push_seq = conf.chcount + 1

\* While the puller receives chunk pull_seq it writes at or behind its start.
WritesAhead ==
  Len(src) <= U32 /\ pull_pc = "data" => pull_pos >= (pull_seq - 1) * ChSize

\* No wrong chunk that was accepted has the CRC32 of the right one.
ChecksumsTell ==
  \A q \in 1..(pull_seq - 1) :
    Crc32(chunk(pull_file, q)) = Crc32(chunk(src, q)) =>
      chunk(pull_file, q) = chunk(src, q)

\* Once the puller has the whole file nothing but a failing process keeps the
\* two calls from success: its verdict is a match, it answers, and the pusher
\* is there to read the answer.
Agreement ==
  Len(src) <= U32 /\ used["fault"] = 0 =>
    /\ pull_pc = "verify" /\ toPuller # << >> => push_pc = "verify_ack"
    /\ verdict # "none" =>
         /\ verdict = "match"
         /\ pull_file = src
         /\ pull_pc = "done" => pull_stat = "SUCCESS"
         /\ push_pc = "done" => push_stat = "SUCCESS"

-----------------------------------------------------------------------------
(***************************************************************************)
(* Where the bytes are.                                                    *)
(***************************************************************************)
Covers(q, i) ==
  start_pos(conf, q) < i /\ i <= start_pos(conf, q) + chunk_size_of(conf, q)

\* A position in a chunk and the bytes that remain from there add up to its
\* end, and neither side goes on once none remain.
Within(q, pos, rsize) ==
  /\ pos + rsize = start_pos(conf, q) + chunk_size_of(conf, q)
  /\ rsize <= chunk_size_of(conf, q)

SendLayout ==
  /\ push_pc \in {"data", "data_ack"} => Within(push_seq, push_pos, push_rsize)
  /\ push_pc = "data" => push_rsize > 0

RecvLayout ==
  /\ pull_pc \in {"data", "chunk_end"} => Within(pull_seq, pull_pos, pull_rsize)
  /\ pull_pc = "data" => pull_rsize > 0
  /\ pull_pc = "chunk_end" => pull_rsize = 0

\* What no chunk carries is zero.
Untouched == \A i \in 1..Len(pull_file) : pull_file[i] = 0 \/ Carried(i)

\* mfseek() let the puller into the last chunk.
LastReached ==
  \/ pull_seq = conf.chcount /\ pull_pc \in {"data", "chunk_end"}
  \/ pull_seq > conf.chcount
  => start_pos(conf, conf.chcount) < Len(src)

Placed == SendLayout /\ RecvLayout /\ Untouched /\ LastReached

(***************************************************************************)
(* A transfer on its course, when the damage is tolerable: neither side    *)
(* gives up, the segments on the way are those the puller waits for, and   *)
(* every chunk that was refused has cost the network one act of damage.    *)
(***************************************************************************)
\* The pusher that has connected is there when the file is created.
Meeting ==
  /\ pull_pc \in {"start", "accept", "handshake"} =>
       pull_file = << >> /\ udp = << >>
  /\ pull_pc = "start" => ~conn
  /\ pull_pc = "handshake" => conn
  /\ conn /\ pull_pc \in {"accept", "handshake"} => push_pc # "done"

\* Both go on to the end, where the file is right.
Lasting ==
  /\ push_pc = "send_ack" /\ toPusher # << >> => toPusher[1].ack = 1
  /\ push_pc = "done" => push_stat = "SUCCESS"
  /\ pull_pc = "done" => pull_stat = "SUCCESS"
  /\ verdict # "none" => verdict = "match" /\ pull_file = src

\* One answer at a time, and none while segments are sent.
Alternating ==
  /\ push_pc = "data" => pull_pc = "data" /\ toPusher = << >>
  /\ push_pc = "data_ack" => Len(toPusher) <= 1
  /\ push_pc = "flow_ack" =>
       Len(toPusher) <= 1 \/ (Len(toPusher) = 2 /\ chunk_size_of(conf, push_seq) = 0)
  /\ push_pc = "flow_ack" /\ pull_pc \in {"data", "chunk_end"} =>
       Len(toPusher) = 1
  /\ pull_pc = "chunk_end" /\ push_pc = "data_ack" => toPusher = << >>
  /\ pull_pc = "chunk_end" /\ push_pc # "data_ack" =>
       chunk_size_of(conf, pull_seq) = 0

\* Segment j of those on the way, counted from the puller's position.
SegmentSize(j) ==
  segment_size(segsize_of(conf), pull_rsize - (j - 1) * segsize_of(conf))

Segment(j) ==
  mfread(src, pull_pos + (j - 1) * segsize_of(conf), SegmentSize(j))

\* What is on the way and what is still to be sent is what the puller waits
\* for.
Flowing ==
  /\ pull_pc # "data" => udp = << >>
  /\ pull_pc = "data" =>
       /\ \A j \in 1..Len(udp) :
            /\ (j - 1) * segsize_of(conf) < pull_rsize
            /\ Len(udp[j]) = SegmentSize(j)
       /\ push_pc = "data" =>
            push_rsize = pull_rsize - Len(udp) * segsize_of(conf)
       /\ push_pc = "data_ack" /\ toPusher = << >> =>
            pull_rsize <= Len(udp) * segsize_of(conf)
       /\ push_pc = "flow_ack" \/ (push_pc = "data_ack" /\ toPusher # << >>) =>
            udp = << >> /\ pull_rsize = chunk_size_of(conf, pull_seq)
       /\ chunk_size_of(conf, pull_seq) % segsize_of(conf) = 0 =>
            \E k \in 0..pull_rsize : pull_rsize = k * segsize_of(conf)

\* The chunk as far as it has come, and what is on the way, are undamaged.
Undamaged ==
  /\ \A j \in 1..Len(udp) : udp[j] = Segment(j)
  /\ \A i \in 1..Len(src) :
       start_pos(conf, pull_seq) < i /\ i <= pull_pos => pull_file[i] = src[i]

Damage == used["corrupt"] + used["reorder"]

\* Every try that was used up, and the one under way if it will be, goes back
\* to an act of damage.
Accounted ==
  pull_pc \in {"data", "chunk_end"} =>
    /\ PullTry - pull_try <= Damage
    /\ Undamaged \/ PullTry - pull_try < Damage

\* The bytes of the chunks accepted are right, but for those the chunk under
\* way writes again.
Settled ==
  \A q \in 1..(pull_seq - 1) : \A i \in 1..Len(src) :
    Covers(q, i) =>
      \/ pull_file[i] = src[i]
      \/ pull_pc \in {"data", "chunk_end"} /\ Covers(pull_seq, i)

OnCourse ==
  /\ Meeting
  /\ pull_file # << >> =>
       Lasting /\ Alternating /\ Flowing /\ Accounted /\ Settled

\* Whatever the checksums, if nothing is damaged.
CleanCourse == Deliverable /\ OnlyUsed({}) => OnCourse

\* Damage included, if the checksums tell it.
RepairCourse == Deliverable /\ Tolerable => OnCourse
=============================================================================
