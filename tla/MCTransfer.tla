----------------------------- MODULE MCTransfer -----------------------------
(***************************************************************************)
(* Small instances of Transfer.  Bytes are zero and one.                   *)
(***************************************************************************)
EXTENDS TransferInv

(***************************************************************************)
(* For ChSize 2 and U32 6: the empty file, a file of one partial chunk,    *)
(* files of one and two full chunks and a partial one, a multiple of the   *)
(* chunk size, and a file longer than U32.  For ChSize 3 the file of three *)
(* bytes is the multiple, and the file of exactly U32 bytes has an empty   *)
(* last chunk that starts at zero.  For ChSize 4, U32 8 and segments of    *)
(* two bytes a full chunk has two equal segments, and the last chunk has   *)
(* one, or a short one behind a full one; it is empty in the files of four *)
(* and of eight bytes, and only in the second does its position wrap.  Of  *)
(* the nine bytes of the longest files the last is never sent; in one of   *)
(* them it is zero.                                                        *)
(***************************************************************************)
MCEmpty      == << >>
MCPartial    == <<1>>
MCTwoChunks  == <<0, 1, 1>>
MCThree      == <<1, 0, 1, 1, 0>>
MCMultiple   == <<1, 0, 1, 1>>
MCFull32     == <<1, 0, 0, 1, 1, 0>>
MCBeyond32   == <<1, 0, 1, 1, 0, 1, 1>>
MCEight      == <<1, 0, 0, 1, 1, 0, 1, 0>>
MCNine       == <<0, 1, 0, 1, 1, 0, 1, 0, 1>>
MCNineZero   == <<0, 1, 0, 1, 1, 0, 1, 1, 0>>

MCBoundaryFile == {MCEmpty, MCPartial, MCTwoChunks, MCThree, MCFull32,
                   MCBeyond32}
MCShortFile  == {MCEmpty, MCPartial, MCTwoChunks, MCMultiple}
MCEveryFile  == {MCPartial, MCMultiple, MCFull32, MCBeyond32, MCEight, MCNine,
                 MCNineZero}
MCOnlyTwo    == {MCTwoChunks}
MCOnlyMultiple == {MCMultiple}
MCOnlyBeyond == {MCBeyond32}

\* The bytes of s read as a number: no two files of the instance share it.
MCStrongCrc(s) ==
  LET value[i \in 0..Len(s)] ==
        IF i = 0 THEN 1 ELSE 2 * value[i - 1] + s[i]
  IN  value[Len(s)]

\* A checksum that misses swapped bytes: the sum of the bytes.
MCWeakCrc(s) ==
  LET sum[i \in 0..Len(s)] == IF i = 0 THEN 0 ELSE sum[i - 1] + s[i]
  IN  sum[Len(s)]

MCNone == [k \in Kinds |-> 0]
MCHostile == [k \in Kinds |-> IF k = "fault" THEN 0 ELSE 2]
MCAll == [k \in Kinds |-> 1]
MCDamage == [MCAll EXCEPT !["corrupt"] = 2, !["reorder"] = 2, !["fault"] = 0]
MCLose == [MCNone EXCEPT !["lose"] = 1]
=============================================================================
