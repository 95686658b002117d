------------------------------- MODULE Replay -------------------------------
(***************************************************************************)
(* A recording is played back, in real time or, after F3, as fast as       *)
(* possible: the path of the samples from rx_file_input (rxin.c) through   *)
(* wideband_dsp, its workers and do_fft1c to narrowband_dsp (wcw.c).       *)
(*                                                                         *)
(* Two rings lie between the threads, timf1 for samples and fft1 for       *)
(* transforms, and nobody tests whether they are full.  After F3 the       *)
(* reader of the file looks at both before it reads on, and wideband_dsp   *)
(* waits for narrowband_dsp before it goes on: these waits, and the three  *)
(* events, are what this module is about.  The order in which the workers  *)
(* deliver is in Fft1Pool.                                                 *)
(*                                                                         *)
(* Units: a block of samples, the input of one fft1_b, and a transform.    *)
(***************************************************************************)
EXTENDS Integers, Fft1Ring, LirEvent

CONSTANTS
  Timf1N,        \* blocks of the ring timf1
  max_fft1n,     \* transforms of the ring fft1
  fft1_muln,     \* transforms made of one block
  Setups,        \* pairs of a value of no_of_fft1b and whether AFC is in use
  Delay,         \* afct_delay_points: transforms that AFC keeps back
  afc_tpts,      \* transforms that AFC wants to have seen before it begins
  Refill,        \* transforms that are mixed again after a reset in real time
  Timf3N, BasebN,  \* transforms for which timf3, and fft3 and baseb, have room
  Disturbances   \* "overrun": the threads do not keep up with real time; "reset": a
                 \* reset while the file is read as fast as possible, or transforms
                 \* wait for do_fft1c; "early": F3 before AFC has begun; "slow": RX_OUTPUT
                 \* is slower than narrowband_dsp; "stop": X or ESC while the file is read
                 \* as fast as possible; with "early" and "stop" a counted wait may run out

ASSUME ReplayAssumption ==
  /\ Timf1N \in Nat /\ Timf1N > 1 /\ max_fft1n \in Nat /\ max_fft1n > 1
  /\ fft1_muln \in Nat \ {0} /\ fft1_muln < max_fft1n
  /\ Setups \subseteq Nat \X BOOLEAN
  /\ Delay \in Nat /\ afc_tpts \in Nat /\ Refill \in 0 .. max_fft1n - 1
  /\ Timf3N \in Nat \ {0} /\ BasebN \in Nat \ {0}
  /\ Disturbances \subseteq {"overrun", "reset", "early", "slow", "stop"}

Events  == {"TIMF1", "DO_FFT1C", "FFT1_READY"}
Threads == {"FILE", "NARROWBAND", "WIDEBAND", "DO_FFT1C"}

VARIABLES
  no_of_fft1b, afc,        \* of this session
  audio_dump_flag,
  cmd, kill_all_flag,
  output,                  \* RX_OUTPUT has not been stopped
  event,
  fpc, wpc, cpc, npc, mpc, \* where the threads are, and the main thread
  timf1p_pa, timf1p_pb, timf1p_px,
  fft1_na, fft1_nb, fft1_nc, fft1_nx,
  fft1_nm,                 \* passes of wideband_dsp, counted up to the size of fft1
  working, finished,       \* blocks with the workers, and transformed but not collected
  leaving,                 \* workers without a block that do not wait for one yet
  posted,                  \* transforms of do_fft1c since its last event
  timf3, baseb,            \* transforms in timf3, and in fft3 and baseb
  fftx_flag, new_baseb_flag,
  reset,                   \* baseb_reset_counter differs from its local copy
  last_pb,                 \* timf1p_pb when narrowband_dsp began to wait for input
  filled, ahead            \* history: true distances from timf1p_px to timf1p_pa, and
                           \* from fft1_nx to fft1_na

pool   == <<working, finished, leaving>>
timf1  == <<timf1p_pa, timf1p_pb, timf1p_px, filled>>
fft1   == <<fft1_na, fft1_nb, fft1_nc, fft1_nx, fft1_nm, ahead>>
narrow == <<npc, timf3, fftx_flag, new_baseb_flag, last_pb>>
user   == <<mpc, cmd, kill_all_flag, output>>
setup  == <<no_of_fft1b, afc>>
vars   == <<setup, audio_dump_flag, user, event, fpc, wpc, cpc, pool, timf1, fft1, posted,
            narrow, baseb, reset>>

Kept      == IF afc THEN Delay ELSE 0
Threshold == (no_of_fft1b + 2) * fft1_muln

\* Without workers wideband_dsp has a block in its own hands.
Slots(n) == IF n = 0 THEN 1 ELSE n

TypeOK ==
  /\ <<no_of_fft1b, afc>> \in Setups /\ audio_dump_flag \in BOOLEAN
  /\ cmd \in [Threads -> {"ACTIVE", "KILL"}] /\ kill_all_flag \in BOOLEAN
  /\ output \in BOOLEAN /\ event \in [Events -> BOOLEAN]
  /\ fpc \in {"paced", "wait", "settle_wide", "settle_narrow", "read", "returned"}
  /\ wpc \in {"await", "asleep", "hold", "work", "collect", "stop", "returned"}
  /\ cpc \in {"await", "work", "returned"}
  /\ npc \in {"asleep", "mix", "flag", "input_wait", "returned"}
  /\ mpc \in {"run", "FILE", "NARROWBAND", "WIDEBAND", "end"}
  /\ timf1p_pa \in Positions(Timf1N) /\ timf1p_pb \in Positions(Timf1N)
  /\ timf1p_px \in Positions(Timf1N) /\ last_pb \in Positions(Timf1N)
  /\ fft1_na \in Positions(max_fft1n) /\ fft1_nb \in Positions(max_fft1n)
  /\ fft1_nc \in Positions(max_fft1n) /\ fft1_nx \in Positions(max_fft1n)
  /\ fft1_nm \in Positions(max_fft1n)
  /\ working \in 0 .. no_of_fft1b /\ leaving \in 0 .. no_of_fft1b
  /\ finished \in 0 .. Slots(no_of_fft1b)
  /\ posted \in 0 .. fft1_muln - 1
  /\ timf3 \in 0 .. Timf3N /\ baseb \in 0 .. BasebN
  /\ fftx_flag \in BOOLEAN /\ new_baseb_flag \in {-1, 0, 3} /\ reset \in BOOLEAN
  /\ filled \in Int /\ ahead \in Int

\* Before a frequency is selected, narrowband_dsp does nothing with the transforms.
Init ==
  /\ \E s \in Setups : no_of_fft1b = s[1] /\ afc = s[2]
  /\ audio_dump_flag = FALSE
  /\ cmd = [t \in Threads |-> "ACTIVE"] /\ kill_all_flag = FALSE /\ output = TRUE
  /\ event = [e \in Events |-> FALSE]
  /\ fpc = "paced" /\ wpc = "await" /\ cpc = "await" /\ npc = "asleep" /\ mpc = "run"
  /\ timf1p_pa = 0 /\ timf1p_pb = 0 /\ timf1p_px = 0 /\ last_pb = 0 /\ filled = 0
  /\ fft1_na = 0 /\ fft1_nb = 0 /\ fft1_nc = 0 /\ fft1_nx = 0 /\ ahead = 0
  /\ fft1_nm = 0 /\ working = 0 /\ finished = 0 /\ leaving = 0 /\ posted = 0
  /\ timf3 = 0 /\ baseb = 0 /\ fftx_flag = FALSE /\ new_baseb_flag = -1 /\ reset = FALSE

\* (p + k * block) & mask
Forward(p, k, M) == IF p + k < M THEN p + k ELSE p + k - M

Active(t)  == cmd[t] = "ACTIVE" /\ ~kill_all_flag
Post(e)    == event' = SetEvent(event, e)
Take(e)    == MayWake(event, e, FALSE) /\ event' = TakeEvent(event, e)
-----------------------------------------------------------------------------
(* rx_file_input                                                            *)

others_F == <<setup, user, wpc, cpc, pool, fft1, posted, narrow, baseb, reset>>
F(from, to) == fpc = from /\ fpc' = to

\* AFC has not begun: narrowband_dsp goes round and leaves the transforms where they are.
NoAfcYet == afc /\ new_baseb_flag >= 0 /\ fft1_nm < afc_tpts

\* In real time the other threads have done their work before the next block.
KeepsUp ==
  /\ mpc = "run" /\ wpc = "asleep" /\ ~event["TIMF1"] /\ working = 0 /\ leaving = 0
  /\ cpc = "await" /\ ~event["DO_FFT1C"]
  /\ \/ npc = "asleep" /\ ~event["FFT1_READY"]
     \/ npc = "input_wait" /\ last_pb = timf1p_pb
     \/ npc \in {"mix", "flag"} /\ NoAfcYet /\ ~reset /\ fft1_nc = fft1_nb

\* F3 was pressed too early.
TooEarly == "early" \in Disturbances /\ NoAfcYet /\ audio_dump_flag

FilePaced ==
  /\ F("paced", "read")
  /\ KeepsUp \/ TooEarly \/ "overrun" \in Disturbances \/ ~Active("FILE")
  /\ UNCHANGED <<others_F, audio_dump_flag, event, timf1>>

\* Mutant: the ring of the samples is forgotten.
CrowdedFft1 == 4 * Behind(fft1_nx, fft1_na, max_fft1n) > max_fft1n

\* One of the rings is filled to a quarter.
Crowded ==
  \/ 4 * Behind(timf1p_px, timf1p_pa, Timf1N) >= Timf1N
  \/ 4 * Behind(fft1_nx, fft1_na, max_fft1n) > max_fft1n

\* Four times per second, on a computer with few processors, the threads have to
\* come to rest first.
FileWait ==
  /\ fpc = "wait" /\ Post("TIMF1")
  /\ IF ~Active("FILE") THEN fpc' = "returned" /\ audio_dump_flag' = FALSE
     ELSE /\ IF Crowded THEN fpc' = "wait" ELSE fpc' \in {"read", "settle_wide"}
          /\ UNCHANGED audio_dump_flag
  /\ UNCHANGED <<others_F, timf1>>

\* A wait that is counted: after four seconds it is a fatal error.
Settled(quiet) ==
  /\ quiet \/ kill_all_flag \/ Disturbances \cap {"early", "stop"} # {}
  /\ kill_all_flag' = (kill_all_flag \/ ~quiet)
  /\ UNCHANGED <<setup, mpc, cmd, output, wpc, cpc, pool, fft1, posted, narrow, baseb, reset,
                 audio_dump_flag, event, timf1>>

SettleWide == F("settle_wide", "settle_narrow") /\ Settled(wpc = "asleep")

SettleNarrow ==
  F("settle_narrow", "read") /\ Settled(new_baseb_flag > 0 \/ npc \in {"asleep", "input_wait"})

\* finish_rx_read: what was read before is now announced.
FileRead ==
  /\ F("read", IF ~Active("FILE") THEN "returned"
               ELSE IF audio_dump_flag THEN "wait" ELSE "paced")
  /\ audio_dump_flag' = (audio_dump_flag /\ Active("FILE"))
  /\ timf1p_pb' = timf1p_pa
  /\ IF timf1p_pb # timf1p_pa THEN Post("TIMF1") ELSE UNCHANGED event
  /\ timf1p_pa' = NextPos(timf1p_pa, Timf1N) /\ filled' = filled + 1
  /\ UNCHANGED <<others_F, timf1p_px>>

File == FilePaced \/ FileWait \/ SettleWide \/ SettleNarrow \/ FileRead
-----------------------------------------------------------------------------
(* wideband_dsp and its workers                                             *)

others_W == <<setup, audio_dump_flag, mpc, kill_all_flag, output, fpc, timf1p_pa, timf1p_pb,
              fft1_nb, fft1_nc, fft1_nx, posted, narrow, baseb, reset>>
W(from, to) == wpc = from /\ wpc' = to

AllBusy == no_of_fft1b > 0 /\ working = no_of_fft1b

Await ==
  /\ W("await", IF ~Active("WIDEBAND") THEN "stop"
                ELSE IF timf1p_pb = timf1p_px \/ AllBusy THEN "asleep"
                ELSE IF audio_dump_flag THEN "hold" ELSE "work")
  /\ UNCHANGED <<others_W, cmd, event, cpc, pool, timf1p_px, filled, fft1_na, fft1_nm, ahead>>

WideWake ==
  /\ W("asleep", "await") /\ Take("TIMF1")
  /\ UNCHANGED <<others_W, cmd, cpc, pool, timf1p_px, filled, fft1_na, fft1_nm, ahead>>

\* The loop that waits for narrowband_dsp, and looks at nothing else.
Hold ==
  /\ W("hold", "work") /\ Behind(fft1_nx, fft1_na, max_fft1n) <= Threshold
  /\ UNCHANGED <<others_W, cmd, event, cpc, pool, timf1p_px, filled, fft1_na, fft1_nm, ahead>>

\* The next threads are woken up, do_fft1c if there is something new for it.
Publish(k) ==
  /\ fft1_na' = Forward(fft1_na, k * fft1_muln, max_fft1n) /\ ahead' = ahead + k * fft1_muln
  /\ fft1_nm' = IF fft1_nm = max_fft1n - 1 THEN fft1_nm ELSE fft1_nm + 1
  /\ event' = [e \in Events |-> e = "FFT1_READY" \/ event[e] \/ (e = "DO_FFT1C" /\ k > 0)]

\* Without workers wideband_dsp makes the transforms itself.
Transform ==
  /\ W("work", "collect") /\ no_of_fft1b = 0
  /\ timf1p_px' = NextPos(timf1p_px, Timf1N) /\ filled' = filled - 1 /\ finished' = 1
  /\ UNCHANGED <<others_W, cmd, event, cpc, working, leaving, fft1_na, fft1_nm, ahead>>

\* Each worker that waits is given a block, as long as there are any.
Assign ==
  /\ W("work", IF Active("WIDEBAND") THEN "collect" ELSE "stop") /\ no_of_fft1b > 0
  /\ LET blocks == Behind(timf1p_px, timf1p_pb, Timf1N)
         free   == no_of_fft1b - working - finished - leaving
         k      == IF ~Active("WIDEBAND") THEN 0 ELSE IF blocks < free THEN blocks ELSE free
     IN  /\ working' = working + k /\ filled' = filled - k
         /\ timf1p_px' = Forward(timf1p_px, k, Timf1N)
  /\ UNCHANGED <<others_W, cmd, event, cpc, finished, leaving, fft1_na, fft1_nm, ahead>>

\* The finished ones are collected, up to the oldest that is not.
Collect ==
  /\ W("collect", "await")
  /\ \E k \in 0 .. finished :
       /\ working = 0 => k = finished
       /\ finished' = finished - k /\ Publish(k)
       /\ leaving' = IF no_of_fft1b = 0 THEN leaving ELSE leaving + k
  /\ UNCHANGED <<others_W, cmd, cpc, working, timf1p_px, filled>>

\* do_fft1c is stopped and joined (the workers: Fft1Pool).
StopFft1c ==
  /\ wpc = "stop"
  /\ IF cpc = "returned" THEN wpc' = "returned" /\ UNCHANGED <<cmd, event>>
     ELSE /\ cmd' = [cmd EXCEPT !["DO_FFT1C"] = "KILL"] /\ Post("DO_FFT1C")
          /\ UNCHANGED wpc
  /\ UNCHANGED <<others_W, cpc, pool, timf1p_px, filled, fft1_na, fft1_nm, ahead>>

Wide == Await \/ WideWake \/ Hold \/ Transform \/ Assign \/ Collect \/ StopFft1c

\* do_fft1b: a block is done, ...
WorkDone ==
  /\ working > 0 /\ working' = working - 1 /\ finished' = finished + 1 /\ Post("TIMF1")
  /\ UNCHANGED <<others_W, cmd, wpc, cpc, leaving, timf1p_px, filled, fft1_na, fft1_nm, ahead>>

\* ... and a worker that has been told so waits for the next.
WorkAwait ==
  /\ leaving > 0 /\ leaving' = leaving - 1
  /\ UNCHANGED <<others_W, cmd, event, wpc, cpc, working, finished, timf1p_px, filled,
                 fft1_na, fft1_nm, ahead>>

Worker == WorkDone \/ WorkAwait
-----------------------------------------------------------------------------
(* do_fft1c                                                                 *)

others_C == <<setup, audio_dump_flag, user, fpc, wpc, pool, timf1, fft1_na, fft1_nc, fft1_nx,
              fft1_nm, ahead, narrow, baseb, reset>>
C(from, to) == cpc = from /\ cpc' = to

Fft1cWake ==
  /\ C("await", "work") /\ Take("DO_FFT1C")
  /\ UNCHANGED <<others_C, fft1_nb, posted>>

\* Mutant: the event of wideband_dsp is relied on, which comes before the transform.
Fft1cDoneSilent ==
  /\ C("work", "work") /\ fft1_nb # fft1_na /\ fft1_nb' = NextPos(fft1_nb, max_fft1n)
  /\ UNCHANGED <<others_C, event, posted>>

\* fft1_muln transforms, or the last one, are announced.
Fft1cDone ==
  /\ C("work", "work") /\ fft1_nb # fft1_na /\ fft1_nb' = NextPos(fft1_nb, max_fft1n)
  /\ IF posted + 1 = fft1_muln \/ fft1_nb' = fft1_na
     THEN posted' = 0 /\ Post("FFT1_READY")
     ELSE posted' = posted + 1 /\ UNCHANGED event
  /\ UNCHANGED others_C

Fft1cRest ==
  /\ C("work", IF Active("DO_FFT1C") THEN "await" ELSE "returned") /\ fft1_nb = fft1_na
  /\ UNCHANGED <<others_C, event, fft1_nb, posted>>

Fft1c == Fft1cWake \/ Fft1cDone \/ Fft1cRest
-----------------------------------------------------------------------------
(* narrowband_dsp                                                           *)

others_N == <<setup, audio_dump_flag, user, fpc, wpc, cpc, pool, timf1, fft1_na, fft1_nm,
              posted>>
N(from, to) == npc = from /\ npc' = to

NarrowWake ==
  /\ N("asleep", IF Active("NARROWBAND") THEN "mix" ELSE "returned") /\ Take("FFT1_READY")
  /\ UNCHANGED <<others_N, fft1_nb, fft1_nc, fft1_nx, ahead, timf3, baseb, fftx_flag,
                 new_baseb_flag, last_pb, reset>>

\* At the end of a round.
Onward(fftx) ==
  IF ~Active("NARROWBAND") THEN "returned" ELSE IF fftx THEN "mix" ELSE "asleep"

\* As many as there are of the transforms that are to be mixed again.
Again == IF fft1_nm < Refill THEN fft1_nm ELSE Refill

\* clear_baseb, when RX_OUTPUT has been led to its wait: the last transforms are to be
\* mixed again, or else all are skipped and fft1_nc is not.
Reset ==
  /\ N("mix", Onward(fftx_flag)) /\ reset /\ reset' = FALSE
  /\ "reset" \in Disturbances \/ Behind(fft1_nb, fft1_na, max_fft1n) <= Again
  /\ new_baseb_flag' = 3 /\ timf3' = 0 /\ baseb' = 0
  /\ fft1_nc' = (fft1_na - Again) % max_fft1n
  /\ IF audio_dump_flag
     THEN fft1_nb' = fft1_na /\ fft1_nx' = fft1_na /\ ahead' = 0
     ELSE fft1_nx' = fft1_nc' /\ ahead' = Again /\ UNCHANGED fft1_nb
  /\ UNCHANGED <<others_N, event, fftx_flag, last_pb>>

SkipAll ==
  /\ N("mix", Onward(FALSE)) /\ ~reset /\ new_baseb_flag < 0
  /\ fft1_nx' = fft1_nb /\ fft1_nc' = fft1_nb
  /\ ahead' = ahead - Behind(fft1_nx, fft1_nb, max_fft1n)
  /\ fftx_flag' = FALSE
  /\ UNCHANGED <<others_N, event, fft1_nb, timf3, baseb, new_baseb_flag, last_pb, reset>>

\* One transform is mixed if it may be, and all that there is room for goes from timf3
\* to baseb: make_fft3_all and fft3_mix2.  Nothing is kept for an output that waits.
Mix(mixed, fftx) ==
  /\ N("mix", IF new_baseb_flag > 0 THEN "flag" ELSE Onward(fftx))
  /\ ~reset /\ new_baseb_flag >= 0
  /\ output /\ new_baseb_flag = 0 => baseb = 0 \/ "slow" \in Disturbances
  /\ fft1_nx' = IF mixed THEN NextPos(fft1_nx, max_fft1n) ELSE fft1_nx
  /\ ahead' = IF mixed THEN ahead - 1 ELSE ahead
  /\ fftx_flag' = fftx
  /\ LET all  == IF mixed THEN timf3 + 1 ELSE timf3
         room == BasebN - baseb
         k    == IF all < room THEN all ELSE room
     IN  IF new_baseb_flag > 0 THEN timf3' = 0 /\ baseb' = 0
         ELSE timf3' = all - k /\ baseb' = baseb + k
  /\ UNCHANGED <<others_N, event, fft1_nb, new_baseb_flag, last_pb, reset>>

\* fft1_mix1_fixed.  Who finds no room does not come back by itself.
MixFixed ==
  /\ ~afc /\ UNCHANGED fft1_nc
  /\ LET mixed == fft1_nb # fft1_nx /\ timf3 < Timf3N
     IN  Mix(mixed, mixed /\ (NextPos(fft1_nx, max_fft1n) # fft1_nb \/ timf3 + 1 = Timf3N))

\* make_afc and fft1_mix1_afc.  Before AFC begins nothing is mixed, and yet narrowband_dsp
\* comes back.
MixAfc ==
  /\ afc
  /\ fft1_nc' = IF fft1_nb # fft1_nc THEN NextPos(fft1_nc, max_fft1n) ELSE fft1_nc
  /\ LET mixed == /\ fft1_nm >= afc_tpts /\ timf3 < Timf3N
                  /\ Behind(fft1_nx, fft1_nc', max_fft1n) > Delay
         next  == IF mixed THEN NextPos(fft1_nx, max_fft1n) ELSE fft1_nx
     IN  Mix(mixed, \/ Behind(next, fft1_nb, max_fft1n) > Delay
                    \/ (IF mixed THEN timf3 + 1 ELSE timf3) = Timf3N)

\* In real time a wait for enough data comes before the wait for input.
Flag ==
  /\ \/ N("flag", "input_wait") /\ last_pb' = timf1p_pb
     \/ N("flag", Onward(fftx_flag)) /\ ~audio_dump_flag /\ UNCHANGED last_pb
  /\ UNCHANGED <<others_N, event, fft1_nb, fft1_nc, fft1_nx, ahead, timf3, baseb, fftx_flag,
                 new_baseb_flag, reset>>

\* Mutant: the wait for input does not look at the command.
InputWaitBlind ==
  /\ npc = "input_wait"
  /\ IF timf1p_pb # last_pb THEN npc' = "mix" /\ new_baseb_flag' = 0
     ELSE kill_all_flag /\ npc' = "returned" /\ UNCHANGED new_baseb_flag
  /\ UNCHANGED <<others_N, event, fft1_nb, fft1_nc, fft1_nx, ahead, timf3, baseb, fftx_flag,
                 last_pb, reset>>

\* Then RX_OUTPUT is started.
InputWait ==
  /\ npc = "input_wait"
  /\ IF timf1p_pb # last_pb THEN npc' = "mix" /\ new_baseb_flag' = 0
     ELSE /\ UNCHANGED new_baseb_flag
          /\ \/ cmd["NARROWBAND"] # "ACTIVE" /\ npc' = "returned"
             \/ kill_all_flag /\ npc' = "returned"
  /\ UNCHANGED <<others_N, event, fft1_nb, fft1_nc, fft1_nx, ahead, timf3, baseb, fftx_flag,
                 last_pb, reset>>

Narrow == NarrowWake \/ Reset \/ SkipAll \/ MixFixed \/ MixAfc \/ Flag \/ InputWait
-----------------------------------------------------------------------------
(* RX_OUTPUT, the user, and the main thread                                 *)

Output ==
  /\ output /\ new_baseb_flag = 0 /\ baseb > 0 /\ baseb' = baseb - 1
  /\ UNCHANGED <<setup, audio_dump_flag, user, event, fpc, wpc, cpc, pool, timf1, fft1,
                 posted, narrow, reset>>

\* The reader reads as fast as possible, or has not yet seen that it should not.
Fast == audio_dump_flag \/ fpc \in {"wait", "settle_wide", "settle_narrow"}

others_U == <<setup, output, fpc, wpc, cpc, pool, timf1, fft1, posted, narrow, baseb>>

F3 ==
  /\ mpc = "run" /\ ~kill_all_flag /\ fpc # "returned"
  /\ (new_baseb_flag <= 0 /\ ~reset) \/ "reset" \in Disturbances
  /\ ~NoAfcYet \/ ("early" \in Disturbances /\ ~audio_dump_flag)
  /\ audio_dump_flag' = ~audio_dump_flag
  /\ UNCHANGED <<others_U, cmd, kill_all_flag, mpc, event, reset>>

\* A frequency is selected, or whatever else leads to a reset; a move of the mouse
\* wakes narrowband_dsp up.
AskReset ==
  /\ mpc = "run" /\ ~kill_all_flag
  /\ ~Fast \/ "reset" \in Disturbances
  /\ reset' = TRUE /\ Post("FFT1_READY")
  /\ UNCHANGED <<others_U, audio_dump_flag, cmd, kill_all_flag, mpc>>

CalmEnd == (~Fast /\ fpc = "paced" /\ KeepsUp) \/ "stop" \in Disturbances

Esc ==
  /\ CalmEnd /\ mpc = "run" /\ ~kill_all_flag /\ kill_all_flag' = TRUE
  /\ UNCHANGED <<others_U, audio_dump_flag, cmd, mpc, event, reset>>

Alive(t) == CASE t = "FILE" -> fpc # "returned"       [] t = "NARROWBAND" -> npc # "returned"
              [] t = "WIDEBAND" -> wpc # "returned"   [] t = "DO_FFT1C" -> cpc # "returned"

WaitsFor(e) == CASE e = "TIMF1" -> "WIDEBAND" [] e = "DO_FFT1C" -> "DO_FFT1C"
                 [] e = "FFT1_READY" -> "NARROWBAND"

KillRound ==
  /\ kill_all_flag
  /\ cmd' = [t \in Threads |-> IF Alive(t) THEN "KILL" ELSE cmd[t]]
  /\ event' = [e \in Events |-> Alive(WaitsFor(e)) \/ event[e]]
  /\ UNCHANGED <<others_U, audio_dump_flag, kill_all_flag, mpc, reset>>

\* X: after RX_OUTPUT the other threads are stopped one by one.
PressX ==
  /\ CalmEnd /\ mpc = "run" /\ ~kill_all_flag /\ mpc' = "FILE" /\ output' = FALSE
  /\ UNCHANGED <<setup, audio_dump_flag, cmd, kill_all_flag, event, fpc, wpc, cpc, pool,
                 timf1, fft1, posted, narrow, baseb, reset>>

StopPost ==
  /\ mpc \in Threads /\ Alive(mpc) /\ cmd' = [cmd EXCEPT ![mpc] = "KILL"]
  /\ event' = [e \in Events |-> WaitsFor(e) = mpc \/ event[e]]
  /\ UNCHANGED <<others_U, audio_dump_flag, kill_all_flag, mpc, reset>>

After == [FILE |-> "NARROWBAND", NARROWBAND |-> "WIDEBAND", WIDEBAND |-> "end"]

StopNext ==
  /\ mpc \in Threads /\ ~Alive(mpc) /\ mpc' = After[mpc]
  /\ UNCHANGED <<others_U, audio_dump_flag, cmd, kill_all_flag, event, reset>>

Main == StopPost \/ StopNext

Next == File \/ Wide \/ Worker \/ Fft1c \/ Narrow \/ Output \/ F3 \/ AskReset \/ Esc
          \/ KillRound \/ PressX \/ Main

Spec == Init /\ [][Next]_vars

\* All threads run, and what is repeated goes on.
FairSpec ==
  /\ Spec
  /\ WF_vars(File) /\ WF_vars(Wide) /\ WF_vars(Worker) /\ WF_vars(Fft1c) /\ WF_vars(Narrow)
  /\ WF_vars(Output) /\ WF_vars(KillRound) /\ WF_vars(Main)
-----------------------------------------------------------------------------
(* Properties                                                               *)

\* No thread writes where another has still to read, though nobody tests whether a
\* ring is full: not the input where a worker or wideband_dsp reads samples, and not a
\* worker where narrowband_dsp reads transforms.  The pointers tell true distances.
Intact ==
  /\ filled + working + finished < Timf1N
  /\ ahead + (working + finished) * fft1_muln < max_fft1n
  /\ Behind(timf1p_px, timf1p_pa, Timf1N) = filled
  /\ Behind(fft1_nx, fft1_na, max_fft1n) = ahead

Ending == mpc # "run" \/ kill_all_flag

\* The waits that keep the threads in step, and their events, never stop the file.
PlaysOn == []<>(fpc = "read" \/ reset \/ Ending)

\* X and ESC end all threads.
Ends == Ending ~> \A t \in Threads : ~Alive(t)
=============================================================================
