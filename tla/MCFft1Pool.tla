----------------------------- MODULE MCFft1Pool -----------------------------
(***************************************************************************)
(* Model-checking instances of Fft1Pool.                                   *)
(*                                                                         *)
(* Nothing in the model depends on where in a ring the pointers are, only  *)
(* on their distances, and nothing reads a slot that is not between        *)
(* fft1_pa and fft1_pt.  States that differ in nothing else are the same   *)
(* to TLC in the runs that check safety.                                   *)
(***************************************************************************)
EXTENDS Fft1Pool

FromPx(p) == IF p = Invalid THEN Invalid ELSE Behind(p, timf1p_px, InBlocks)
FromPa(s) == IF s = NoSlot THEN NoSlot ELSE Behind(fft1_pa, s, OutSlots)

HandedOut == {s \in Slots : FromPa(s) < FromPa(fft1_pt)}

PoolView ==
  <<wbvars, threads, event, kill_all_flag, computation_pause_flag, txtest,
    lirerr, ptrchk, FromPx(timf1p_pb), FromPa(fft1_pt),
    [w \in Workers |-> <<FromPx(inptr[w]), FromPa(out[w])>>],
    {<<FromPa(s), FromPx(fft1_float[s])>> : s \in HandedOut},
    [n \in 1 .. Len(issued) |-> FromPx(issued[n])]>>
=============================================================================
