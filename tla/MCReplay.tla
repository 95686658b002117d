------------------------------ MODULE MCReplay ------------------------------
(***************************************************************************)
(* Model-checking instances of Replay: wideband_dsp alone, without and     *)
(* with AFC, and with a worker and AFC.                                    *)
(***************************************************************************)
EXTENDS Replay

MCSetups == {<<0, FALSE>>, <<1, TRUE>>}
OneSetup == {<<0, FALSE>>}
AfcSetup == {<<0, TRUE>>}

\* Of the count of passes only this much is asked for.
PassesAskedFor ==
  LET m == IF afc /\ afc_tpts > Refill THEN afc_tpts ELSE Refill
  IN  IF fft1_nm < m THEN fft1_nm ELSE m

\* Nothing depends on where in the rings the pointers are, and without AFC nobody reads
\* fft1_nc.
ReplayView ==
  <<setup, audio_dump_flag, user, event, fpc, wpc, cpc, npc, pool, posted, timf3, baseb,
    fftx_flag, new_baseb_flag, reset, filled, ahead, PassesAskedFor,
    Behind(timf1p_px, timf1p_pa, Timf1N), Behind(timf1p_px, timf1p_pb, Timf1N),
    npc = "input_wait" /\ last_pb = timf1p_pb, Behind(fft1_nx, fft1_na, max_fft1n),
    Behind(fft1_nx, fft1_nb, max_fft1n),
    IF afc THEN Behind(fft1_nx, fft1_nc, max_fft1n) ELSE 0>>
=============================================================================
