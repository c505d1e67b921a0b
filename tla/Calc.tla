-------------------------------- MODULE Calc --------------------------------
(***************************************************************************)
(* The arithmetic of a transfer: how a file is cut into chunks and a chunk *)
(* into segments.  Translated from include/utils/calc.h and from the two   *)
(* places that turn a sequence number into a file position (push_transfer  *)
(* and pull_transfer).  The C integer widths are constants: U16, U32 and   *)
(* U64 stand for 2^16, 2^32 and 2^64 and are scaled down for model         *)
(* checking, so that wrap-around is reached by small files.                *)
(***************************************************************************)
EXTENDS Integers

CONSTANTS
  U16,          \* number of values of RUFShareChunkSize
  U32,          \* number of values of RUFShareChunkCount and RUFShareSequence
  U64,          \* number of values of size_t
  SEGMENT_SIZE0, SEGMENT_SIZE1, SEGMENT_SIZE2, SEGMENT_SIZE3

ASSUME CalcAssumption ==
  /\ U16 \in Nat \ {0}
  /\ U32 \in Nat \ {0}
  /\ U64 \in Nat \ {0}

ASSUME SegmentAssumption ==
  {SEGMENT_SIZE0, SEGMENT_SIZE1, SEGMENT_SIZE2, SEGMENT_SIZE3} \subseteq Nat \ {0}

(***************************************************************************)
(* The value of calc_chunk_count and what it stores through its third      *)
(* argument.  The quotient is cast to 32 bits before one is added.         *)
(***************************************************************************)
quotient32(file_size, chunk_size) == (file_size \div chunk_size) % U32

\* Mutant: the chunk count without the partial chunk.
calc_chunk_count_no_tail(file_size, chunk_size) ==
  quotient32(file_size, chunk_size)

calc_chunk_count(file_size, chunk_size) ==
  (quotient32(file_size, chunk_size) + 1) % U32

calc_partial_chunk_size(file_size, chunk_size) ==
  (file_size - quotient32(file_size, chunk_size) * chunk_size) % U16

\* Mutant: the partial chunk counted as a full one.
calc_file_size_rounded(chunk_count, chunk_size, partial_chunk_size) ==
  (chunk_count * chunk_size) % U64

\* The size the receiver rebuilds from the three fields of a SEND packet.
calc_file_size(chunk_count, chunk_size, partial_chunk_size) ==
  ((chunk_count - 1) * chunk_size + partial_chunk_size) % U64

\* The largest threshold strictly below size, or size itself.
calc_segment_size(size) ==
  IF size > SEGMENT_SIZE3 THEN SEGMENT_SIZE3
  ELSE IF size > SEGMENT_SIZE2 THEN SEGMENT_SIZE2
  ELSE IF size > SEGMENT_SIZE1 THEN SEGMENT_SIZE1
  ELSE IF size > SEGMENT_SIZE0 THEN SEGMENT_SIZE0
  ELSE size

\* The size of the next segment when rsize bytes of the chunk remain.
segment_size(segsize, rsize) == IF segsize <= rsize THEN segsize ELSE rsize

(***************************************************************************)
(* The fields chsize, pchsize and chcount of InitConfig, as push_handshake *)
(* computes them and as pull_handshake copies them from the SEND packet.   *)
(***************************************************************************)
push_conf(file_size, chunk_size) ==
  [chsize  |-> chunk_size,
   pchsize |-> calc_partial_chunk_size(file_size, chunk_size),
   chcount |-> calc_chunk_count(file_size, chunk_size)]

\* Mutant: sequence numbers taken to start at zero.
start_pos_zero_based(conf, seq) == (seq * conf.chsize) % U32

\* (conf->seq - 1) * conf->chsize, computed in 32 bits and then widened.
start_pos(conf, seq) == ((seq - 1) * conf.chsize) % U32

\* Mutant: the last chunk is taken for a full one.
chunk_size_of_full(conf, seq) == conf.chsize

\* The size of chunk seq: the last one is the partial chunk.
chunk_size_of(conf, seq) ==
  IF seq = conf.chcount THEN conf.pchsize ELSE conf.chsize

\* conf->segsize, chosen once per transfer.
segsize_of(conf) ==
  calc_segment_size(IF conf.chsize # 0 THEN conf.chsize ELSE conf.pchsize)
=============================================================================
