------------------------------ MODULE MCLogger ------------------------------
(***************************************************************************)
(* Two threads, as in a puller and its broadcaster, and logs of up to two  *)
(* entries that wrap twice and come up again; the proofs cover any number  *)
(* of threads and entries.                                                 *)
(***************************************************************************)
EXTENDS Logger, TLC

MCSymmetry == Permutations(Threads)
MCCounts == {0, 1, 2}
=============================================================================
