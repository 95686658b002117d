------------------------------ MODULE Fft1Ring ------------------------------
(***************************************************************************)
(* Pointers into the circular buffers of z_BUFFERS.txt.  A buffer of M     *)
(* blocks has the positions 0 .. M-1.  The code writes (p + block) & mask  *)
(* and (p - q + size) & mask; in units of one block these are:             *)
(***************************************************************************)
EXTENDS Naturals

Positions(M) == 0 .. M - 1

\* Mutant: the mask is forgotten.
NextPosNoMask(p, M) == p + 1

\* (p + block) & mask
NextPos(p, M) == IF p + 1 = M THEN 0 ELSE p + 1

\* (p - block + size) & mask
PrevPos(p, M) == IF p = 0 THEN M - 1 ELSE p - 1

\* (p - q + size) & mask: how many blocks q lies behind p.
Behind(q, p, M) == IF p >= q THEN p - q ELSE p + M - q
=============================================================================
