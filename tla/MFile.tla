------------------------------- MODULE MFile --------------------------------
(***************************************************************************)
(* The memory-mapped file of source/mfile.c, as operators on its contents: *)
(* a sequence of bytes.  The stream that mfopen failed to open is the      *)
(* empty sequence; a mapping is never empty because mmap() refuses length  *)
(* zero.  The position (MFILE.pos) is kept by the caller.                  *)
(***************************************************************************)
EXTENDS Integers, Sequences

\* mmap() fails on a file of size zero, and mfile.open stays 0.
mfopen(contents) == contents # << >>

\* The value mfseek returns; it moves the position only when pos < size.
mfseek(buf, pos) == IF pos < Len(buf) THEN pos ELSE 0

\* What the caller's zeroed buffer of n bytes holds after mfread at pos.
mfread(buf, pos, n) ==
  [i \in 1..n |-> IF pos + i <= Len(buf) THEN buf[pos + i] ELSE 0]

\* Mutant: every segment is written at the start of the mapping.
mfwrite_at_start(buf, pos, data) ==
  [i \in 1..Len(buf) |-> IF i <= Len(data) THEN data[i] ELSE buf[i]]

\* The mapping after mfwrite of data at pos, cut at the end of the mapping.
mfwrite(buf, pos, data) ==
  [i \in 1..Len(buf) |->
     IF pos < i /\ i <= pos + Len(data) THEN data[i - pos] ELSE buf[i]]

\* The position after n bytes are read or written at pos.
mfadvance(buf, pos, n) == IF pos + n <= Len(buf) THEN pos + n ELSE Len(buf)
=============================================================================
