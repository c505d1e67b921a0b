------------------------------ MODULE Transfer ------------------------------
(***************************************************************************)
(* One file transfer: start_pusher() in one process, start_puller() in     *)
(* another, the TCP connection that carries their control packets and the  *)
(* UDP socket that carries the segments of a chunk.                        *)
(*                                                                         *)
(* The pusher opens the file, connects and offers it with a SEND packet.   *)
(* Every chunk is announced by a FLOW packet, sent as UDP segments and     *)
(* answered by a RECV packet: ACK when the chunk's CRC32 is the announced  *)
(* one, NACK to have it sent again.  A second SEND packet carries the      *)
(* CRC16 of the file, and the last RECV packet says whether it matched.    *)
(*                                                                         *)
(* The network may lose, duplicate, reorder and damage segments, and a     *)
(* process may fail at any point; Budget bounds how often each happens.    *)
(***************************************************************************)
EXTENDS Calc, MFile

CONSTANTS
  Byte,       \* the values of a byte, zero among them
  Files,      \* the files that may be sent
  ChSize,     \* conf->chsize of the pusher
  Avail,      \* free bytes on the puller's file system
  PushTry,    \* conf->tf_trycount of the pusher
  PullTry,    \* conf->tf_trycount of the puller
  Crc16(_),   \* crc_16()
  Crc32(_),   \* crc_32()
  Patient,    \* TRUE when a timeout is longer than any delay of the peer
  Budget      \* how often the environment may act, by kind

Kinds == {"lose", "duplicate", "reorder", "corrupt", "fault"}

ASSUME TransferAssumption ==
  /\ Byte \subseteq Nat
  /\ 0 \in Byte
  /\ Files \subseteq Seq(Byte)
  /\ ChSize \in 1..(U16 - 1)
  /\ Avail \in Nat
  /\ PushTry \in Nat \ {0}
  /\ PullTry \in Nat \ {0}
  /\ Patient \in BOOLEAN
  /\ Budget \in [Kinds -> Nat]

\* A size_t holds the file's size, and 32 bits hold its chunk count and the
\* sequence number one past it.
ASSUME FileSizeAssumption ==
  \A f \in Files : Len(f) < U64 /\ Len(f) \div ChSize + 2 < U32

VARIABLES
  src,         \* the file the pusher maps
  push_pc,     \* where start_pusher() is
  push_stat,   \* what start_pusher() returned
  push_seq,    \* the pusher's conf->seq
  push_try,    \* trycount of push_transfer()
  push_pos,    \* position of the pusher's mapping
  push_rsize,  \* bytes of the chunk still to send
  pull_pc,     \* where start_puller() is
  pull_stat,   \* what start_puller() returned
  pull_conf,   \* the puller's conf->chsize, pchsize and chcount
  pull_seq,    \* the puller's conf->seq
  pull_try,    \* trycount of pull_transfer()
  pull_pos,    \* position of the puller's mapping
  pull_rsize,  \* bytes of the chunk still to receive
  pull_crc,    \* the CRC32 of the last FLOW packet
  pull_file,   \* the file the puller writes; << >> when it is not mapped
  verdict,     \* what pull_verification() found
  conn,        \* the TCP connection exists
  toPuller,    \* control packets on their way to the puller
  toPusher,    \* control packets on their way to the pusher
  udp,         \* segments on their way to the puller
  used         \* how often the environment has acted, by kind

push_vars == <<push_pc, push_stat, push_seq, push_try, push_pos, push_rsize>>
pull_vars == <<pull_pc, pull_stat, pull_conf, pull_seq, pull_try, pull_pos,
               pull_rsize, pull_crc, pull_file, verdict>>
tcp_vars  == <<conn, toPuller, toPusher>>
vars == <<src, push_vars, pull_vars, tcp_vars, udp, used>>

PushPCs == {"open", "connect", "send", "send_ack", "start_data", "flow",
            "flow_ack", "data", "data_ack", "verify", "verify_ack", "end",
            "done"}
PullPCs == {"start", "accept", "handshake", "start_data", "flow", "data",
            "chunk_end", "verify", "end", "done"}

(***************************************************************************)
(* ERRSOCK stands for the ERRSEND, ERRRECV and ERRPOLL of a socket whose   *)
(* peer has gone, FAULT for any other failing call and for a crash.        *)
(***************************************************************************)
PushStats == {"RUNNING", "SUCCESS", "NOMFILE", "ERRCONN", "ZEROACK",
              "EXPTRY0", "EXPTRY1", "EMFSEEK", "TIMEOUT", "LOWSIZE",
              "BADTYPE", "ERRSOCK", "FAULT"}
PullStats == {"RUNNING", "SUCCESS", "BADFLOW", "EXPTRY0", "EMFSEEK",
              "TIMEOUT", "LOWSIZE", "BADTYPE", "ERRSOCK", "FAULT"}

-----------------------------------------------------------------------------
(***************************************************************************)
(* Control packets and the functions of cntl.c that move them.  The info   *)
(* string of a SEND packet and the unused CRC of a RECV packet are left    *)
(* out.                                                                    *)
(***************************************************************************)
SEND(c, crc) == [type |-> "SEND", conf |-> c, crc |-> crc]

FLOW(chunk_size, sequence, crc) ==
  [type |-> "FLOW", chunk_size |-> chunk_size, sequence |-> sequence,
   crc |-> crc]

RECV(ack, sequence) == [type |-> "RECV", ack |-> ack, sequence |-> sequence]

push_SEND_header(c, crc) == toPuller' = Append(toPuller, SEND(c, crc))

push_FLOW_header(chunk_size, sequence, crc) ==
  toPuller' = Append(toPuller, FLOW(chunk_size, sequence, crc))

push_RECV_header(ack, sequence) ==
  toPusher' = Append(toPusher, RECV(ack, sequence))

\* What a pull_*_header() returns: an empty queue that is readable is the
\* end of the stream, and the type is peeked at before the packet is read.
header_status(queue, type) ==
  IF queue = << >> THEN "LOWSIZE"
  ELSE IF Head(queue).type # type THEN "BADTYPE"
  ELSE "SUCCESS"

pull_RECV_header == header_status(toPusher, "RECV")
pull_SEND_header == header_status(toPuller, "SEND")
pull_FLOW_header == header_status(toPuller, "FLOW")

-----------------------------------------------------------------------------
(***************************************************************************)
(* Pusher.                                                                 *)
(***************************************************************************)
conf == push_conf(Len(src), ChSize)

calc_chunk_crc32(buf, c, seq) ==
  Crc32(mfread(buf, start_pos(c, seq), chunk_size_of(c, seq)))

PushReturn(stat) ==
  /\ push_pc' = "done"
  /\ push_stat' = stat
  /\ UNCHANGED <<push_seq, push_try, push_pos, push_rsize>>

PushGoto(pc) ==
  /\ push_pc' = pc
  /\ UNCHANGED <<push_stat, push_seq, push_try, push_pos, push_rsize>>

\* start_file_stream(MRD): an empty file cannot be mapped.
PushOpen ==
  /\ push_pc = "open"
  /\ IF mfopen(src) THEN PushGoto("connect") ELSE PushReturn("NOMFILE")
  /\ UNCHANGED <<src, pull_vars, tcp_vars, udp, used>>

\* start_cntl(conn = true): refused unless the puller listens.
PushConnect ==
  /\ push_pc = "connect"
  /\ IF pull_pc = "accept"
     THEN conn' = TRUE /\ PushGoto("send")
     ELSE conn' = conn /\ PushReturn("ERRCONN")
  /\ UNCHANGED <<src, pull_vars, toPuller, toPusher, udp, used>>

\* push_handshake() up to the SEND packet.
PushHandshake ==
  /\ push_pc = "send"
  /\ push_SEND_header(conf, 0)
  /\ PushGoto("send_ack")
  /\ UNCHANGED <<src, pull_vars, conn, toPusher, udp, used>>

\* Mutant: the first chunk has sequence number zero.
PushHandshakeAck_from_zero ==
  /\ push_pc = "send_ack"
  /\ pull_RECV_header = "SUCCESS"
  /\ toPusher' = Tail(toPusher)
  /\ push_seq' = 0
  /\ IF Head(toPusher).ack = 0
     THEN push_pc' = "done" /\ push_stat' = "ZEROACK"
     ELSE push_pc' = "start_data" /\ push_stat' = push_stat
  /\ UNCHANGED <<src, push_try, push_pos, push_rsize, pull_vars, conn,
                 toPuller, udp, used>>

\* The rest of push_handshake(); start_pusher() returns on a refusal.
PushHandshakeAck ==
  /\ push_pc = "send_ack"
  /\ pull_RECV_header = "SUCCESS"
  /\ toPusher' = Tail(toPusher)
  /\ push_seq' = 1
  /\ IF Head(toPusher).ack = 0
     THEN push_pc' = "done" /\ push_stat' = "ZEROACK"
     ELSE push_pc' = "start_data" /\ push_stat' = push_stat
  /\ UNCHANGED <<src, push_try, push_pos, push_rsize, pull_vars, conn,
                 toPuller, udp, used>>

\* start_data(), and push_transfer() up to the test of its loop.
PushStartData ==
  /\ push_pc = "start_data"
  /\ push_try' = PushTry
  /\ push_pc' = IF push_seq <= conf.chcount THEN "flow" ELSE "verify"
  /\ UNCHANGED <<src, push_stat, push_seq, push_pos, push_rsize, pull_vars,
                 tcp_vars, udp, used>>

\* push_chunk_data() up to its loop, with the given trycount.
PushChunk(try) ==
  LET pos  == start_pos(conf, push_seq)
      size == chunk_size_of(conf, push_seq)
  IN  IF mfseek(src, pos) # pos
      THEN PushReturn("EMFSEEK")
      ELSE /\ push_pc' = IF size = 0 THEN "data_ack" ELSE "data"
           /\ push_pos' = pos
           /\ push_rsize' = size
           /\ push_try' = try
           /\ UNCHANGED <<push_stat, push_seq>>

\* Mutant: the chunk is sent without waiting for the answer to its FLOW.
PushFlow_no_wait ==
  /\ push_pc = "flow"
  /\ push_FLOW_header(chunk_size_of(conf, push_seq), push_seq,
                      calc_chunk_crc32(src, conf, push_seq))
  /\ PushChunk(PushTry)
  /\ UNCHANGED <<src, pull_vars, conn, toPusher, udp, used>>

\* A FLOW packet announces the chunk and its CRC32.
PushFlow ==
  /\ push_pc = "flow"
  /\ push_FLOW_header(chunk_size_of(conf, push_seq), push_seq,
                      calc_chunk_crc32(src, conf, push_seq))
  /\ PushGoto("flow_ack")
  /\ UNCHANGED <<src, pull_vars, conn, toPusher, udp, used>>

\* The answer to a FLOW packet.
PushFlowAck ==
  /\ push_pc = "flow_ack"
  /\ pull_RECV_header = "SUCCESS"
  /\ toPusher' = Tail(toPusher)
  /\ IF Head(toPusher).ack = 1 THEN PushChunk(PushTry)
     ELSE IF push_try = 1 THEN PushReturn("EXPTRY0")
     ELSE /\ push_pc' = "flow"
          /\ push_try' = push_try - 1
          /\ UNCHANGED <<push_stat, push_seq, push_pos, push_rsize>>
  /\ UNCHANGED <<src, pull_vars, conn, toPuller, udp, used>>

\* The puller's data socket is bound from start_data() to its end.
DataSocketOpen == pull_pc \in {"flow", "data", "chunk_end", "verify", "end"}

\* One turn of the loop of push_chunk_data(); a segment sent to a port
\* nobody has bound is gone.
PushSegment ==
  /\ push_pc = "data"
  /\ LET n == segment_size(segsize_of(conf), push_rsize)
     IN  /\ udp' = IF DataSocketOpen
                   THEN Append(udp, mfread(src, push_pos, n)) ELSE udp
         /\ push_pos' = mfadvance(src, push_pos, n)
         /\ push_rsize' = push_rsize - n
         /\ push_pc' = IF push_rsize = n THEN "data_ack" ELSE "data"
  /\ UNCHANGED <<src, push_stat, push_seq, push_try, pull_vars, tcp_vars,
                 used>>

\* The chunk was accepted: on to the next, or to the verification.
PushAccepted ==
  /\ push_seq' = (push_seq + 1) % U32
  /\ push_try' = PushTry
  /\ push_pc' = IF push_seq' <= conf.chcount THEN "flow" ELSE "verify"
  /\ UNCHANGED <<push_stat, push_pos, push_rsize>>

\* Mutant: the tries are counted but not limited.
PushRetry_unlimited == PushChunk(push_try - 1)

\* The chunk was refused: send it again, or give up.
PushRetry ==
  IF push_try = 1 THEN PushReturn("EXPTRY1") ELSE PushChunk(push_try - 1)

\* Mutant: a NACK is taken for an ACK.
PushChunkAck_any_answer ==
  /\ push_pc = "data_ack"
  /\ pull_RECV_header = "SUCCESS"
  /\ toPusher' = Tail(toPusher)
  /\ PushAccepted
  /\ UNCHANGED <<src, pull_vars, conn, toPuller, udp, used>>

\* The answer to a chunk.
PushChunkAck ==
  /\ push_pc = "data_ack"
  /\ pull_RECV_header = "SUCCESS"
  /\ toPusher' = Tail(toPusher)
  /\ IF Head(toPusher).ack = 1 THEN PushAccepted ELSE PushRetry
  /\ UNCHANGED <<src, pull_vars, conn, toPuller, udp, used>>

\* push_verification() up to the SEND packet.
PushVerify ==
  /\ push_pc = "verify"
  /\ push_SEND_header(conf, Crc16(src))
  /\ PushGoto("verify_ack")
  /\ UNCHANGED <<src, pull_vars, conn, toPusher, udp, used>>

\* Mutant: the verdict of the puller is not looked at.
PushVerifyAck_any_answer ==
  /\ push_pc = "verify_ack"
  /\ pull_RECV_header = "SUCCESS"
  /\ toPusher' = Tail(toPusher)
  /\ PushGoto("end")
  /\ UNCHANGED <<src, pull_vars, conn, toPuller, udp, used>>

\* The rest of push_verification().
PushVerifyAck ==
  /\ push_pc = "verify_ack"
  /\ pull_RECV_header = "SUCCESS"
  /\ toPusher' = Tail(toPusher)
  /\ IF Head(toPusher).ack = 0 THEN PushReturn("ZEROACK") ELSE PushGoto("end")
  /\ UNCHANGED <<src, pull_vars, conn, toPuller, udp, used>>

\* end_file_stream(), end_cntl() and end_data().
PushEnd ==
  /\ push_pc = "end"
  /\ PushReturn("SUCCESS")
  /\ UNCHANGED <<src, pull_vars, tcp_vars, udp, used>>

\* Mutant: a failing read of the last RECV packet goes unnoticed.
PushWaits_not_verify == push_pc \in {"send_ack", "flow_ack", "data_ack"}

\* The pusher is in pull_RECV_header().
PushWaits == push_pc \in {"send_ack", "flow_ack", "data_ack", "verify_ack"}

\* pull_RECV_header() fails: the end of the stream, or another packet.
PushHeaderError ==
  /\ PushWaits
  /\ toPusher # << >> \/ pull_pc = "done"
  /\ pull_RECV_header # "SUCCESS"
  /\ PushReturn(pull_RECV_header)
  /\ UNCHANGED <<src, pull_vars, tcp_vars, udp, used>>

\* Both sides wait, and no packet or segment will come.
Starved ==
  /\ pull_pc = "data"
  /\ udp = << >>
  /\ \/ push_pc = "done"
     \/ push_pc = "data_ack" /\ toPusher = << >>

\* poll() expires in pull_RECV_header().
PushTimeout ==
  /\ PushWaits
  /\ toPusher = << >>
  /\ Patient => Starved
  /\ PushReturn("TIMEOUT")
  /\ UNCHANGED <<src, pull_vars, tcp_vars, udp, used>>

\* The puller has gone and a socket call of the pusher fails; what was
\* received before is still read first.
PushReset ==
  /\ pull_pc = "done"
  /\ \/ push_pc \in {"send", "flow", "data", "verify"}
     \/ PushWaits /\ toPusher = << >>
  /\ PushReturn("ERRSOCK")
  /\ UNCHANGED <<src, pull_vars, tcp_vars, udp, used>>

-----------------------------------------------------------------------------
(***************************************************************************)
(* Puller.                                                                 *)
(***************************************************************************)
PullReturn(stat) ==
  /\ pull_pc' = "done"
  /\ pull_stat' = stat
  /\ UNCHANGED <<pull_conf, pull_seq, pull_try, pull_pos, pull_rsize,
                 pull_crc, pull_file, verdict>>

PullGoto(pc) ==
  /\ pull_pc' = pc
  /\ UNCHANGED <<pull_stat, pull_conf, pull_seq, pull_try, pull_pos,
                 pull_rsize, pull_crc, pull_file, verdict>>

\* start_cntl(conn = false), and the listen() of accept_new_connection().
PullStart ==
  /\ pull_pc = "start"
  /\ PullGoto("accept")
  /\ UNCHANGED <<src, push_vars, tcp_vars, udp, used>>

\* accept_cntl() waits FOREVER_TIMEOUT.
PullAccept ==
  /\ pull_pc = "accept"
  /\ conn
  /\ PullGoto("handshake")
  /\ UNCHANGED <<src, push_vars, tcp_vars, udp, used>>

\* The file of the given size, or << >> when create_file() refuses.
create_file(size) ==
  IF size # 0 /\ size < Avail THEN [i \in 1..size |-> 0] ELSE << >>

\* pull_handshake(): a file that cannot be created is refused in the RECV
\* packet, and the puller goes on all the same.
PullHandshake ==
  /\ pull_pc = "handshake"
  /\ pull_SEND_header = "SUCCESS"
  /\ toPuller' = Tail(toPuller)
  /\ LET c    == Head(toPuller).conf
         size == calc_file_size(c.chcount, c.chsize, c.pchsize)
     IN  /\ pull_conf' = c
         /\ pull_file' = create_file(size)
         /\ push_RECV_header(IF mfopen(create_file(size)) THEN 1 ELSE 0, 0)
  /\ pull_seq' = 1
  /\ pull_pc' = "start_data"
  /\ UNCHANGED <<src, push_vars, pull_stat, pull_try, pull_pos, pull_rsize,
                 pull_crc, verdict, conn, udp, used>>

\* start_data(), and pull_transfer() up to the test of its loop.
PullStartData ==
  /\ pull_pc = "start_data"
  /\ pull_try' = PullTry
  /\ pull_pc' = IF pull_seq <= pull_conf.chcount THEN "flow" ELSE "verify"
  /\ UNCHANGED <<src, push_vars, pull_stat, pull_conf, pull_seq, pull_pos,
                 pull_rsize, pull_crc, pull_file, verdict, tcp_vars, udp,
                 used>>

match_flow(packet) ==
  /\ packet.sequence = pull_seq
  /\ packet.chunk_size = chunk_size_of(pull_conf, pull_seq)

\* Mutant: a chunk is received where the one before it ended.
PullChunk_no_seek(try, crc) ==
  LET size == chunk_size_of(pull_conf, pull_seq)
  IN  /\ pull_pc' = IF size = 0 THEN "chunk_end" ELSE "data"
      /\ pull_rsize' = size
      /\ pull_try' = try
      /\ pull_crc' = crc
      /\ UNCHANGED <<pull_stat, pull_conf, pull_seq, pull_pos, pull_file,
                     verdict>>

\* pull_chunk_data() up to its loop, with the given trycount and CRC32.
PullChunk(try, crc) ==
  LET pos  == start_pos(pull_conf, pull_seq)
      size == chunk_size_of(pull_conf, pull_seq)
  IN  IF mfseek(pull_file, pos) # pos
      THEN PullReturn("EMFSEEK")
      ELSE /\ pull_pc' = IF size = 0 THEN "chunk_end" ELSE "data"
           /\ pull_pos' = pos
           /\ pull_rsize' = size
           /\ pull_try' = try
           /\ pull_crc' = crc
           /\ UNCHANGED <<pull_stat, pull_conf, pull_seq, pull_file, verdict>>

\* A FLOW packet is acknowledged when it announces the chunk expected.
PullFlow ==
  /\ pull_pc = "flow"
  /\ pull_FLOW_header = "SUCCESS"
  /\ toPuller' = Tail(toPuller)
  /\ IF match_flow(Head(toPuller))
     THEN /\ push_RECV_header(1, pull_seq)
          /\ PullChunk(pull_try, Head(toPuller).crc)
     ELSE push_RECV_header(0, pull_seq) /\ PullReturn("BADFLOW")
  /\ UNCHANGED <<src, push_vars, conn, udp, used>>

\* One turn of the loop of pull_chunk_data(): a datagram that is too short
\* is an error, one that is too long is cut.
PullSegment ==
  /\ pull_pc = "data"
  /\ udp # << >>
  /\ udp' = Tail(udp)
  /\ LET n == segment_size(segsize_of(pull_conf), pull_rsize)
     IN  IF Len(Head(udp)) < n
         THEN PullReturn("LOWSIZE")
         ELSE /\ pull_file' = mfwrite(pull_file, pull_pos,
                                      [i \in 1..n |-> Head(udp)[i]])
              /\ pull_pos' = mfadvance(pull_file, pull_pos, n)
              /\ pull_rsize' = pull_rsize - n
              /\ pull_pc' = IF pull_rsize = n THEN "chunk_end" ELSE "data"
              /\ UNCHANGED <<pull_stat, pull_conf, pull_seq, pull_try,
                             pull_crc, verdict>>
  /\ UNCHANGED <<src, push_vars, tcp_vars, used>>

\* Mutant: the tries used on a chunk are missing for the next.
PullAccepted_keep_tries ==
  /\ push_RECV_header(1, pull_seq)
  /\ pull_seq' = (pull_seq + 1) % U32
  /\ pull_pc' = IF pull_seq' <= pull_conf.chcount THEN "flow" ELSE "verify"
  /\ UNCHANGED <<pull_stat, pull_conf, pull_try, pull_pos, pull_rsize,
                 pull_crc, pull_file, verdict>>

\* ACK: on to the next chunk, or to the verification.
PullAccepted ==
  /\ push_RECV_header(1, pull_seq)
  /\ pull_seq' = (pull_seq + 1) % U32
  /\ pull_try' = PullTry
  /\ pull_pc' = IF pull_seq' <= pull_conf.chcount THEN "flow" ELSE "verify"
  /\ UNCHANGED <<pull_stat, pull_conf, pull_pos, pull_rsize, pull_crc,
                 pull_file, verdict>>

\* NACK: the same chunk again, or giving up.
PullRefused ==
  /\ push_RECV_header(0, pull_seq)
  /\ IF pull_try = 1 THEN PullReturn("EXPTRY0")
     ELSE PullChunk(pull_try - 1, pull_crc)

\* Mutant: the CRC32 of a chunk is not compared.
PullChunkEnd_no_crc ==
  /\ pull_pc = "chunk_end"
  /\ PullAccepted
  /\ UNCHANGED <<src, push_vars, conn, toPuller, udp, used>>

\* The chunk has been written: its CRC32 decides on the answer.
PullChunkEnd ==
  /\ pull_pc = "chunk_end"
  /\ IF calc_chunk_crc32(pull_file, pull_conf, pull_seq) = pull_crc
     THEN PullAccepted ELSE PullRefused
  /\ UNCHANGED <<src, push_vars, conn, toPuller, udp, used>>

\* Mutant: the last RECV packet is an ACK whatever the CRC16.
PullVerify_always_ack ==
  /\ pull_pc = "verify"
  /\ pull_SEND_header = "SUCCESS"
  /\ toPuller' = Tail(toPuller)
  /\ verdict' = IF Head(toPuller).crc = Crc16(pull_file)
                THEN "match" ELSE "mismatch"
  /\ push_RECV_header(1, pull_seq)
  /\ pull_pc' = "end"
  /\ UNCHANGED <<src, push_vars, pull_stat, pull_conf, pull_seq, pull_try,
                 pull_pos, pull_rsize, pull_crc, pull_file, conn, udp, used>>

\* pull_verification(): the FAILCRC it sets on a mismatch is overwritten by
\* the status of push_RECV_header(), so both verdicts go on to the end.
PullVerify ==
  /\ pull_pc = "verify"
  /\ pull_SEND_header = "SUCCESS"
  /\ toPuller' = Tail(toPuller)
  /\ LET match == Head(toPuller).crc = Crc16(pull_file)
     IN  /\ verdict' = IF match THEN "match" ELSE "mismatch"
         /\ push_RECV_header(IF match THEN 1 ELSE 0, pull_seq)
  /\ pull_pc' = "end"
  /\ UNCHANGED <<src, push_vars, pull_stat, pull_conf, pull_seq, pull_try,
                 pull_pos, pull_rsize, pull_crc, pull_file, conn, udp, used>>

\* end_file_stream(), end_cntl() and end_data().
PullEnd ==
  /\ pull_pc = "end"
  /\ PullReturn("SUCCESS")
  /\ UNCHANGED <<src, push_vars, tcp_vars, udp, used>>

\* The control packet the puller waits for, and what reading it returns.
PullWaits == pull_pc \in {"handshake", "flow", "verify"}

pull_header ==
  IF pull_pc = "flow" THEN pull_FLOW_header ELSE pull_SEND_header

\* pull_SEND_header() or pull_FLOW_header() fails.
PullHeaderError ==
  /\ PullWaits
  /\ toPuller # << >> \/ push_pc = "done"
  /\ pull_header # "SUCCESS"
  /\ PullReturn(pull_header)
  /\ UNCHANGED <<src, push_vars, tcp_vars, udp, used>>

\* Mutant: no time limit on the data socket.
PullTimeout_not_data ==
  /\ pull_pc \in {"flow", "verify"} /\ toPuller = << >>
  /\ Patient => Starved
  /\ PullReturn("TIMEOUT")
  /\ UNCHANGED <<src, push_vars, tcp_vars, udp, used>>

\* poll() expires; the first SEND packet is waited for without a limit.
PullTimeout ==
  /\ \/ pull_pc \in {"flow", "verify"} /\ toPuller = << >>
     \/ pull_pc = "data" /\ udp = << >>
  /\ Patient => Starved
  /\ PullReturn("TIMEOUT")
  /\ UNCHANGED <<src, push_vars, tcp_vars, udp, used>>

\* The pusher has gone and a call on the TCP socket fails: reading a packet
\* or answering the one that was read.
PullReset ==
  /\ push_pc = "done"
  /\ conn
  /\ PullWaits \/ pull_pc = "chunk_end"
  /\ PullReturn("ERRSOCK")
  /\ UNCHANGED <<src, push_vars, tcp_vars, udp, used>>

-----------------------------------------------------------------------------
(***************************************************************************)
(* Environment.                                                            *)
(***************************************************************************)
Spend(kind) ==
  /\ used[kind] < Budget[kind]
  /\ used' = [used EXCEPT ![kind] = @ + 1]

\* A segment is dropped.
Lose ==
  /\ Spend("lose")
  /\ \E i \in 1..Len(udp) :
       udp' = [j \in 1..(Len(udp) - 1) |->
                 IF j < i THEN udp[j] ELSE udp[j + 1]]
  /\ UNCHANGED <<src, push_vars, pull_vars, tcp_vars>>

\* A second copy of a segment arrives somewhere behind the first.
Duplicate ==
  /\ Spend("duplicate")
  /\ \E i \in 1..Len(udp) : \E k \in i..Len(udp) :
       udp' = [j \in 1..(Len(udp) + 1) |->
                 IF j <= k THEN udp[j]
                 ELSE IF j = k + 1 THEN udp[i] ELSE udp[j - 1]]
  /\ UNCHANGED <<src, push_vars, pull_vars, tcp_vars>>

\* Two segments change places.
Reorder ==
  /\ Spend("reorder")
  /\ \E i \in 1..(Len(udp) - 1) :
       udp' = [udp EXCEPT ![i] = udp[i + 1], ![i + 1] = udp[i]]
  /\ UNCHANGED <<src, push_vars, pull_vars, tcp_vars>>

\* A byte of a segment changes.
Corrupt ==
  /\ Spend("corrupt")
  /\ \E i \in 1..Len(udp) : \E j \in 1..Len(udp[i]) :
       \E b \in Byte \ {udp[i][j]} : udp' = [udp EXCEPT ![i][j] = b]
  /\ UNCHANGED <<src, push_vars, pull_vars, tcp_vars>>

\* A call of the pusher fails, or the process is killed.
PushFault ==
  /\ Spend("fault")
  /\ push_pc # "done"
  /\ PushReturn("FAULT")
  /\ UNCHANGED <<src, pull_vars, tcp_vars, udp>>

\* A call of the puller fails, or the process is killed.
PullFault ==
  /\ Spend("fault")
  /\ pull_pc # "done"
  /\ PullReturn("FAULT")
  /\ UNCHANGED <<src, push_vars, tcp_vars, udp>>

-----------------------------------------------------------------------------
Init ==
  /\ src \in Files
  /\ push_pc = "open" /\ push_stat = "RUNNING"
  /\ push_seq = 0 /\ push_try = PushTry /\ push_pos = 0 /\ push_rsize = 0
  /\ pull_pc = "start" /\ pull_stat = "RUNNING"
  /\ pull_conf = [chsize |-> 0, pchsize |-> 0, chcount |-> 0]
  /\ pull_seq = 0 /\ pull_try = PullTry /\ pull_pos = 0 /\ pull_rsize = 0
  /\ pull_crc = 0 /\ pull_file = << >> /\ verdict = "none"
  /\ conn = FALSE /\ toPuller = << >> /\ toPusher = << >>
  /\ udp = << >> /\ used = [k \in Kinds |-> 0]

Pusher ==
  \/ PushOpen \/ PushConnect \/ PushHandshake \/ PushHandshakeAck
  \/ PushStartData \/ PushFlow \/ PushFlowAck \/ PushSegment \/ PushChunkAck
  \/ PushVerify \/ PushVerifyAck \/ PushEnd
  \/ PushHeaderError \/ PushTimeout \/ PushReset

Puller ==
  \/ PullStart \/ PullAccept \/ PullHandshake \/ PullStartData \/ PullFlow
  \/ PullSegment \/ PullChunkEnd \/ PullVerify \/ PullEnd
  \/ PullHeaderError \/ PullTimeout \/ PullReset

Network == Lose \/ Duplicate \/ Reorder \/ Corrupt

Fault == PushFault \/ PullFault

\* Both have returned, or the puller waits for a pusher that never came.
Terminated ==
  /\ push_pc = "done"
  /\ pull_pc = "done" \/ (pull_pc = "accept" /\ ~conn)
  /\ UNCHANGED vars

Next == Pusher \/ Puller \/ Network \/ Fault \/ Terminated

Fairness == WF_vars(Pusher) /\ WF_vars(Puller)

Spec == Init /\ [][Next]_vars /\ Fairness
=============================================================================
