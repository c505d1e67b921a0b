------------------------------ MODULE Chunking ------------------------------
(***************************************************************************)
(* The walk of push_transfer() and push_chunk_data() over a file, without  *)
(* the network: every chunk is acknowledged at once.  Which bytes each     *)
(* chunk and each segment covers, for every file size and chunk size of    *)
(* the instance.                                                           *)
(***************************************************************************)
EXTENDS Calc

CONSTANT FileSizes

\* The widths are ordered, and a size comes from st_size, which is signed: it
\* uses half of the values of a size_t.
ASSUME ChunkingAssumption ==
  /\ U16 <= U32 /\ 4 <= U32 /\ 2 * U32 <= U64
  /\ FileSizes \subseteq 1..(U64 \div 2 - 1)

VARIABLES
  file_size,  \* conf->filec.size
  chsize,     \* conf->chsize
  seq,        \* conf->seq
  at,         \* where push_transfer() is, or how it ended
  pos,        \* the position of the mapped file
  rsize,      \* bytes of the chunk still to send
  sent        \* positions of the bytes sent so far

vars == <<file_size, chsize, seq, at, pos, rsize, sent>>

conf == push_conf(file_size, chsize)

\* The chunks of the file, before their number is cut to 32 bits.
Chunks == file_size \div chsize + 1

Init ==
  /\ file_size \in FileSizes
  /\ chsize \in 1..(U16 - 1)
  /\ seq = 1
  /\ at = "chunk"
  /\ pos = 0 /\ rsize = 0
  /\ sent = {}

\* Mutant: mfseek() accepts the end of the file.
Seek_end ==
  /\ at = "chunk" /\ seq <= conf.chcount
  /\ LET start == start_pos(conf, seq)
     IN  IF start <= file_size
         THEN /\ at' = "segments"
              /\ pos' = start /\ rsize' = chunk_size_of(conf, seq)
         ELSE at' = "EMFSEEK" /\ UNCHANGED <<pos, rsize>>
  /\ UNCHANGED <<file_size, chsize, seq, sent>>

\* The chunk is chosen and push_chunk_data() called, which goes to its start:
\* mfseek() does not go to the end of the file.
Seek ==
  /\ at = "chunk" /\ seq <= conf.chcount
  /\ LET start == start_pos(conf, seq)
     IN  IF start < file_size
         THEN /\ at' = "segments"
              /\ pos' = start /\ rsize' = chunk_size_of(conf, seq)
         ELSE at' = "EMFSEEK" /\ UNCHANGED <<pos, rsize>>
  /\ UNCHANGED <<file_size, chsize, seq, sent>>

\* One turn of the loop of push_chunk_data(): mfread() reads the segment as far
\* as there is a file, and it is sent.
Segment ==
  /\ at = "segments" /\ rsize # 0
  /\ LET n == segment_size(segsize_of(conf), rsize)
         end == IF pos + n <= file_size THEN pos + n ELSE file_size
     IN  /\ rsize' = rsize - n
         /\ pos' = end
         /\ sent' = sent \union pos..(end - 1)
  /\ UNCHANGED <<file_size, chsize, seq, at>>

\* Mutant: the sequence number is a 16-bit integer.
NextChunk_short ==
  /\ at = "segments" /\ rsize = 0
  /\ seq' = (seq + 1) % U16
  /\ at' = "chunk"
  /\ UNCHANGED <<file_size, chsize, pos, rsize, sent>>

\* The chunk is acknowledged: conf->seq++.
NextChunk ==
  /\ at = "segments" /\ rsize = 0
  /\ seq' = (seq + 1) % U32
  /\ at' = "chunk"
  /\ UNCHANGED <<file_size, chsize, pos, rsize, sent>>

\* The test of the loop of push_transfer() fails.
Finish ==
  /\ at = "chunk" /\ seq > conf.chcount
  /\ at' = "done"
  /\ UNCHANGED <<file_size, chsize, seq, pos, rsize, sent>>

Next == Seek \/ Segment \/ NextChunk \/ Finish

Spec == Init /\ [][Next]_vars

\* The loops go on until they end.
FairSpec == Spec /\ WF_vars(Next)

-----------------------------------------------------------------------------
\* The puller rebuilds the size of the file from the three numbers a SEND
\* packet carries, each cut to its own width, exactly if the chunks can be
\* counted in 32 bits.
SizeRebuilt ==
  calc_file_size(conf.chcount, conf.chsize, conf.pchsize) = file_size
    <=> Chunks < U32

Everything == 0..(file_size - 1)

\* Where the chunk with the last byte of the file starts.
LastStart == ((file_size - 1) \div chsize) * chsize

\* A walk that ends as it should has sent every byte of the file exactly if the
\* chunks can be counted in 32 bits and the last byte lies in a chunk that
\* starts below 2^32; otherwise positions have wrapped and the tail was never
\* read.  In a file below 2^32 bytes each segment starts where the one before it
\* ended, so that no byte is sent twice.
CoversFile ==
  /\ at = "done" => (sent = Everything <=> Chunks < U32 /\ LastStart < U32)
  /\ at = "segments" /\ file_size < U32 => sent = 0..(pos - 1)

\* mfseek() refuses a walk exactly if the file is a multiple of the chunk size
\* and below 2^32 bytes: its last chunk is empty and starts at the end of the
\* file.  By then the whole file has been sent.  A larger multiple passes, since
\* the position of the empty chunk has wrapped.
RefusesMultiples ==
  LET multiple == Chunks < U32 /\ file_size < U32 /\ file_size % chsize = 0
  IN  /\ at = "EMFSEEK" => multiple /\ sent = Everything
      /\ at = "done" => ~multiple

\* calc_chunk_crc32() reads start_pos .. start_pos + chunk_size of the mapping
\* without a test and before mfseek(); that range lies in the file, even where
\* start_pos or the sequence number has wrapped.
ChunkInsideFile ==
  at \in {"chunk", "segments"} /\ seq <= conf.chcount =>
    start_pos(conf, seq) + chunk_size_of(conf, seq) <= file_size

\* The loop of push_transfer() ends unless a file of 2^32 bytes or more has the
\* chunk count 2^32 - 1: then the sequence number wraps to zero before the test
\* can fail.
WalkEnds ==
  conf.chcount # U32 - 1 \/ file_size < U32 => <>(at \in {"done", "EMFSEEK"})
=============================================================================
