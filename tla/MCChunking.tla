----------------------------- MODULE MCChunking -----------------------------
(***************************************************************************)
(* Every file size that st_size can hold, far beyond U32 = 16, in chunks   *)
(* of 1 to 7 bytes.                                                        *)
(***************************************************************************)
EXTENDS Chunking

MCFileSizes == 1..(U64 \div 2 - 1)
=============================================================================
