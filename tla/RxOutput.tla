------------------------------- MODULE RxOutput -------------------------------
(***************************************************************************)
(* The loudspeaker: thread RX_OUTPUT (rxout.c) and the threads that start, *)
(* stop and restart it.                                                    *)
(*                                                                         *)
(* rx_output resamples the baseband signal and plays it.  When the user    *)
(* selects another frequency or filter, narrowband_dsp (wcw.c) sends it to *)
(* wait on EVENT_RX_START_DA, changes the sizes and the memory of the      *)
(* baseband buffers, which both threads use without a lock, fills them     *)
(* with as much data as the delay asked for and starts the output again.   *)
(* The main thread (menu.c) starts RX_OUTPUT, puts it on its event for     *)
(* narrowband_dsp to find, and stops it first of all threads.              *)
(***************************************************************************)
EXTENDS Integers

CONSTANT Overlaps    \* what may overlap, see below

(***************************************************************************)
(* "early": a reset is asked for before all threads are started            *)
(* "again": a reset is asked for when the output has been, or is about to  *)
(*          be, told to start, and does not play yet: from the last look   *)
(*          at the counter through the wait for the next input block       *)
(*          (wcw.c:1774) until rx_output has woken up and, if the format   *)
(*          has changed, opened the soundcard again                        *)
(* "late":  X ends the receiver while narrowband_dsp resets the output, or *)
(*          a reset is asked for when the output is being stopped          *)
(* "fatal": ESC or a fatal error, but for its own, while narrowband_dsp is *)
(*          in halt_rx_output for a mouse task                             *)
(* "slow":  threads, input or soundcard take longer than a counted wait    *)
(*          lasts: the soundcard a second to open (menu.c:702), the main   *)
(*          thread's pause 0.5 s (ui.c:510), the baseband 3 s more than    *)
(*          the delay to be filled (wcw.c:1746), the soundcard 2 s to take *)
(*          what it has (rxout.c:376)                                      *)
(***************************************************************************)
ASSUME RxOutputAssumption == Overlaps \subseteq {"early", "again", "late", "fatal", "slow"}

VARIABLES
  rpc,              \* where rx_output is
  cmd, status,      \* thread_command_flag and thread_status_flag[THREAD_RX_OUTPUT]
  start, baseb,     \* the flags of EVENT_RX_START_DA and EVENT_BASEB
  npc, task, back,  \* where narrowband_dsp is, for what, and who paused
  ncmd, nstatus,    \* its command and status flags
  new_baseb_flag,   \* -1 no signal selected, 3 2 1 being filled, 0 complete
  reset,            \* baseb_reset_counter differs from narrowband_dsp's copy
  selected,         \* mix1_selfreq[0] >= 0
  mpc,              \* where the main thread is
  all_threads_started, kill_all_flag,
  lirerr            \* the fatal error, if any

output == <<rpc, cmd, status>>
events == <<start, baseb>>
narrow == <<npc, task, back, ncmd, nstatus, new_baseb_flag, reset>>
global == <<selected, mpc, all_threads_started, kill_all_flag, lirerr>>
vars   == <<output, events, narrow, global>>

\* The fatal errors of the waits that are counted.
IdleError  == 1167
StateError == 672954
HaltError  == 564292
PauseError == 1224
FillError  == 1058
PlayError  == 1199
Errors == {IdleError, StateError, HaltError, PauseError, FillError, PlayError}

CmdFlags    == {"NOT_ACTIVE", "ACTIVE", "IDLE", "SEMCLEAR", "KILL"}
StatusFlags == {"NOT_ACTIVE", "INIT", "ACTIVE", "IDLE", "SEMCLEAR", "RETURNED"}

TypeOK ==
  /\ rpc \in {"none", "init", "open", "hold", "stop", "idle", "semtest", "semwait", "decide",
              "resume", "play", "bwait", "failed", "exit", "returned", "ended"}
  /\ cmd \in CmdFlags /\ status \in StatusFlags
  /\ start \in BOOLEAN /\ baseb \in BOOLEAN
  /\ npc \in {"top", "mouse", "check", "control", "pause", "poll", "post", "semwait",
              "dasem", "halt", "sizes", "halt2", "memory", "clear", "process", "flag",
              "inwait", "start", "signal", "error", "exit", "returned", "ended"}
  /\ task \in {"reset", "mouse"} /\ back \in {"control", "halt", "halt2"}
  /\ ncmd \in CmdFlags /\ nstatus \in StatusFlags
  /\ new_baseb_flag \in -1 .. 3
  /\ reset \in BOOLEAN /\ selected \in BOOLEAN
  /\ mpc \in {"create", "active", "idlewait", "semwait", "run", "failed", "stop",
              "stopping", "join", "stopN", "stoppingN", "joinN", "done"}
  /\ all_threads_started \in BOOLEAN /\ kill_all_flag \in BOOLEAN
  /\ lirerr \in {0} \cup Errors

\* narrowband_dsp runs, and the main thread is about to create RX_OUTPUT.
Init ==
  /\ rpc = "none" /\ cmd = "NOT_ACTIVE" /\ status = "NOT_ACTIVE"
  /\ start = FALSE /\ baseb = FALSE
  /\ npc = "top" /\ task = "reset" /\ back = "control"
  /\ ncmd = "ACTIVE" /\ nstatus = "ACTIVE"
  /\ new_baseb_flag = -1 /\ reset = FALSE /\ selected = FALSE
  /\ mpc = "create" /\ all_threads_started = FALSE
  /\ kill_all_flag = FALSE /\ lirerr = 0

\* Told to start, or about to be, and not yet playing.
Starting ==
  \/ new_baseb_flag = 1 /\ npc \in {"process", "flag"}
  \/ npc \in {"inwait", "start", "signal"}
  \/ cmd = "ACTIVE" /\ rpc \in {"semwait", "semtest", "decide"}
  \/ rpc = "resume"

Stopping == mpc \in {"stop", "stopping", "join", "stopN", "stoppingN", "joinN", "done"}

-----------------------------------------------------------------------------
(* rx_output                                                                *)

R(from, to) == rpc = from /\ rpc' = to
r_same == <<cmd, baseb, npc, task, back, ncmd, nstatus, new_baseb_flag, global>>

Begin ==
  /\ R("init", "open") /\ status' = "ACTIVE"
  /\ UNCHANGED <<r_same, start, reset>>

\* The soundcard has been opened; the thread waits to be told what to do.
Open ==
  /\ R("open", IF kill_all_flag THEN "exit" ELSE "hold")
  /\ UNCHANGED <<r_same, status, start, reset>>

Hold ==
  /\ kill_all_flag \/ cmd # "ACTIVE"
  /\ R("hold", "stop")
  /\ UNCHANGED <<r_same, status, start, reset>>

\* Only a pause can be resumed: anything else ends the thread.
Stop ==
  /\ IF cmd = "IDLE" THEN R("stop", "idle") /\ status' = "IDLE"
                     ELSE R("stop", "exit") /\ UNCHANGED status
  /\ UNCHANGED <<r_same, start, reset>>

\* Each round looks at the command, sleeps and then looks at kill_all_flag.
Idle ==
  /\ \/ kill_all_flag /\ R("idle", "exit")
     \/ cmd # "IDLE" /\ R("idle", "semtest")
  /\ UNCHANGED <<r_same, status, start, reset>>

SemTest ==
  /\ IF cmd = "SEMCLEAR"
     THEN R("semtest", "semwait") /\ status' = "SEMCLEAR"
     ELSE R("semtest", "decide") /\ UNCHANGED status
  /\ UNCHANGED <<r_same, start, reset>>

SemWait ==
  /\ start /\ start' = FALSE
  /\ R("semwait", IF kill_all_flag THEN "exit" ELSE "semtest")
  /\ UNCHANGED <<r_same, status, reset>>

Decide ==
  /\ R("decide", IF cmd = "ACTIVE" THEN "resume" ELSE "exit")
  /\ UNCHANGED <<r_same, status, start, reset>>

\* The soundcard is closed and opened again if the format has changed.
Resume ==
  /\ IF kill_all_flag THEN R("resume", "exit") /\ UNCHANGED status
                      ELSE R("resume", "play") /\ status' = "ACTIVE"
  /\ UNCHANGED <<r_same, start, reset>>

Play ==
  /\ R("play", IF kill_all_flag \/ cmd # "ACTIVE" THEN "stop" ELSE "bwait")
  /\ UNCHANGED <<r_same, status, start, reset>>

BasebWait ==
  /\ baseb /\ baseb' = FALSE
  /\ R("bwait", "play")
  /\ UNCHANGED <<cmd, status, start, narrow, global>>

\* The delay has drifted by half a second.
DaSyncError ==
  /\ rpc = "play" /\ new_baseb_flag = 0
  /\ "late" \in Overlaps \/ ~Stopping
  /\ reset' = TRUE
  /\ UNCHANGED <<rpc, r_same, status, start>>

\* The soundcard does not take what there is for it; lirerr holds the thread.
PlayTooSlow ==
  /\ "slow" \in Overlaps /\ ~kill_all_flag
  /\ R("play", "failed") /\ lirerr' = PlayError
  /\ UNCHANGED <<cmd, status, events, narrow, selected, mpc, all_threads_started, kill_all_flag>>

PlayFailed ==
  /\ kill_all_flag /\ R("failed", "exit")
  /\ UNCHANGED <<r_same, status, start, reset>>

Exit ==
  /\ R("exit", "returned") /\ status' = "RETURNED"
  /\ UNCHANGED <<r_same, start, reset>>

End ==
  /\ cmd \in {"NOT_ACTIVE", "KILL"}
  /\ R("returned", "ended")
  /\ UNCHANGED <<r_same, status, start, reset>>

RxOut ==
  \/ Begin \/ Open \/ Hold \/ Stop \/ Idle \/ SemTest \/ SemWait \/ Decide \/ Resume
  \/ Play \/ BasebWait \/ PlayFailed \/ Exit \/ End
-----------------------------------------------------------------------------
(* narrowband_dsp, and halt_rx_output and pause_thread as it calls them     *)

N(from, to) == npc = from /\ npc' = to
others == <<rpc, status, ncmd, selected, mpc, all_threads_started, kill_all_flag>>
n_same == <<others, nstatus, lirerr>>
signal == <<cmd, start, baseb>>
context == <<task, back, new_baseb_flag, reset>>

\* Since it called lirerr, narrowband_dsp waits there for kill_all_flag.
Held(err) == lirerr = err /\ ~kill_all_flag

Top ==
  /\ N("top", IF ncmd = "ACTIVE" /\ ~kill_all_flag THEN "mouse" ELSE "exit")
  /\ UNCHANGED <<n_same, signal, context>>

\* A mouse task changes the parameters of the baseband window.
MouseTask ==
  /\ new_baseb_flag <= 0
  /\ "again" \in Overlaps \/ ~Starting
  /\ "early" \in Overlaps \/ all_threads_started
  /\ "late" \in Overlaps \/ ~Stopping
  /\ "fatal" \in Overlaps \/ ~kill_all_flag
  /\ N("mouse", "halt") /\ task' = "mouse"
  /\ UNCHANGED <<n_same, signal, back, new_baseb_flag, reset>>

NoMouseTask ==
  /\ N("mouse", "check")
  /\ UNCHANGED <<n_same, signal, context>>

Check ==
  /\ N("check", IF reset THEN "control" ELSE "process") /\ reset' = FALSE
  /\ UNCHANGED <<n_same, signal, task, back, new_baseb_flag>>

\* Mutant: it is left to halt_rx_output to stop the output.
ControlOmitsPause ==
  /\ N("control", "dasem")
  /\ UNCHANGED <<n_same, signal, context>>

\* Find RX_OUTPUT on its event, or send it there.
Control ==
  /\ \/ status = "SEMCLEAR" /\ N("control", "dasem") /\ UNCHANGED back
     \/ status = "IDLE" /\ N("control", "post") /\ back' = "control"
     \/ /\ status = "ACTIVE" \/ (kill_all_flag /\ status \notin {"SEMCLEAR", "IDLE"})
        /\ N("control", "pause") /\ back' = "control"
  /\ UNCHANGED <<n_same, signal, task, new_baseb_flag, reset>>

\* It has been in no known state for 182 ms, which is time enough for one
\* that has been created to begin.
ControlGiveUp ==
  /\ ~kill_all_flag /\ status \notin {"SEMCLEAR", "IDLE", "ACTIVE"}
  /\ "slow" \in Overlaps \/ rpc # "init"
  /\ N("control", "error") /\ lirerr' = StateError
  /\ UNCHANGED <<others, nstatus, signal, context>>

\* pause_thread waits up to 0.5 s for the main thread's own pause to end.
Pause ==
  /\ ~Held(PauseError)
  /\ IF cmd = "NOT_ACTIVE" \/ status = "RETURNED" \/ kill_all_flag
     THEN N("pause", "post") /\ UNCHANGED signal
     ELSE /\ cmd # "IDLE" /\ cmd' = "IDLE" /\ baseb' = TRUE /\ UNCHANGED start
          /\ N("pause", "poll")
  /\ UNCHANGED <<n_same, context>>

PauseGiveUp ==
  /\ "slow" \in Overlaps /\ ~kill_all_flag
  /\ npc = "pause" /\ cmd = "IDLE" /\ lirerr' = PauseError
  /\ UNCHANGED <<others, npc, nstatus, signal, context>>

Poll ==
  /\ IF status = "IDLE" \/ kill_all_flag
     THEN N("poll", "post") /\ UNCHANGED signal
     ELSE npc = "poll" /\ baseb' = TRUE /\ UNCHANGED <<npc, cmd, start>>
  /\ UNCHANGED <<n_same, context>>

Post ==
  /\ N("post", "semwait") /\ cmd' = "SEMCLEAR"
  /\ UNCHANGED <<n_same, start, baseb, context>>

\* Where the wait for the output leads to.
Onward == IF back = "control" THEN "dasem" ELSE IF back = "halt" THEN "sizes" ELSE "memory"

\* Mutant: the wait for the output does not end when all threads are killed.
SemClearUnkillable ==
  /\ status = "SEMCLEAR"
  /\ N("semwait", Onward)
  /\ reset' = (reset \/ back # "control")
  /\ UNCHANGED <<n_same, signal, task, back, new_baseb_flag>>

\* halt_rx_output asks for a reset, and does not look at kill_all_flag.
SemClear ==
  /\ \/ /\ status = "SEMCLEAR"
        /\ N("semwait", Onward)
        /\ reset' = (reset \/ back # "control")
     \/ status # "SEMCLEAR" /\ kill_all_flag /\ back = "control"
        /\ N("semwait", "exit") /\ UNCHANGED reset
  /\ UNCHANGED <<n_same, signal, task, back, new_baseb_flag>>

DaSem ==
  /\ IF selected THEN N("dasem", "halt") /\ new_baseb_flag' = 3 /\ task' = "reset"
                 ELSE N("dasem", "check") /\ new_baseb_flag' = -1 /\ UNCHANGED task
  /\ UNCHANGED <<n_same, signal, back, reset>>

\* Where halt_rx_output returns to.
HaltReturns == npc' = IF npc = "halt" THEN "sizes" ELSE "memory"

\* Mutant: a complete buffer is taken for one that is not in use.
HaltWhileFilling ==
  /\ npc \in {"halt", "halt2"} /\ ~Held(HaltError)
  /\ IF status = "SEMCLEAR" \/ ~all_threads_started \/ new_baseb_flag = 0
     THEN HaltReturns /\ UNCHANGED back
     ELSE npc' = "pause" /\ back' = npc
  /\ UNCHANGED <<n_same, signal, task, new_baseb_flag, reset>>

\* halt_rx_output, called for new sizes and again for new memory.
Halt ==
  /\ npc \in {"halt", "halt2"} /\ ~Held(HaltError)
  /\ IF status = "SEMCLEAR" \/ ~all_threads_started
     THEN HaltReturns /\ UNCHANGED back
     ELSE new_baseb_flag = 0 /\ npc' = "pause" /\ back' = npc
  /\ UNCHANGED <<n_same, signal, task, new_baseb_flag, reset>>

\* 4 s have not been enough, unless RX_OUTPUT is on its way.  lirerr holds
\* the thread until kill_all; then halt_rx_output returns, and no more.
HaltGiveUp ==
  /\ npc \in {"halt", "halt2"}
  /\ all_threads_started /\ status # "SEMCLEAR" /\ new_baseb_flag # 0
  /\ "slow" \in Overlaps \/ ~(rpc \in {"idle", "semtest"} /\ cmd = "SEMCLEAR")
  /\ IF kill_all_flag THEN HaltReturns /\ UNCHANGED lirerr
                      ELSE lirerr' = HaltError /\ UNCHANGED npc
  /\ UNCHANGED <<others, nstatus, signal, context>>

\* init_baseband_sizes; the memory is allocated again if a size has changed.
Sizes ==
  /\ npc = "sizes" /\ npc' \in {"halt2", "clear"}
  /\ UNCHANGED <<n_same, signal, context>>

Memory ==
  /\ N("memory", "clear")
  /\ UNCHANGED <<n_same, signal, context>>

\* clear_baseb ends a reset; a mouse task ends with the request for one.
Clear ==
  /\ IF task = "reset" THEN N("clear", "flag") /\ reset' = FALSE
                       ELSE N("clear", "check") /\ reset' = TRUE
  /\ UNCHANGED <<n_same, signal, task, back, new_baseb_flag>>

\* make_fft3_all, fft3_mix2: there may be enough for the output to go on.
Process ==
  /\ N("process", "flag")
  /\ baseb' \in {baseb, TRUE}
  /\ UNCHANGED <<n_same, cmd, start, context>>

\* Mutant: the state goes on downwards when the output plays.
FlagBelow ==
  /\ ~Held(FillError)
  /\ IF kill_all_flag THEN N("flag", "exit") /\ UNCHANGED new_baseb_flag
     ELSE /\ N("flag", IF new_baseb_flag = 1 THEN "inwait" ELSE "top")
          /\ new_baseb_flag' = IF new_baseb_flag # 1 THEN new_baseb_flag - 1
                               ELSE new_baseb_flag
  /\ UNCHANGED <<n_same, signal, task, back, reset>>

\* There are data for the whole delay, then not more than that.
Flag ==
  /\ ~Held(FillError)
  /\ IF kill_all_flag THEN N("flag", "exit") /\ UNCHANGED new_baseb_flag
     ELSE /\ N("flag", IF new_baseb_flag = 1 THEN "inwait" ELSE "top")
          /\ new_baseb_flag' = IF new_baseb_flag > 1 THEN new_baseb_flag - 1
                               ELSE new_baseb_flag
  /\ UNCHANGED <<n_same, signal, task, back, reset>>

\* The data for the delay come too slowly.
FillTooSlow ==
  /\ "slow" \in Overlaps /\ ~kill_all_flag
  /\ npc = "inwait" \/ (npc = "flag" /\ new_baseb_flag = 2)
  /\ lirerr' = FillError
  /\ UNCHANGED <<others, npc, nstatus, signal, context>>

\* Mutant: the output is started and the buffers are still marked as filling.
InputWaitKeepsFlag ==
  /\ ~Held(FillError)
  /\ \/ kill_all_flag /\ N("inwait", "exit")
     \/ ~kill_all_flag /\ ncmd # "ACTIVE" /\ N("inwait", "top")
     \/ mpc \notin {"stopN", "stoppingN", "joinN", "done"} /\ N("inwait", "start")
  /\ UNCHANGED <<n_same, signal, context>>

\* Wait for the next block of input, which is stopped after RX_OUTPUT.
InputWait ==
  /\ ~Held(FillError)
  /\ \/ kill_all_flag /\ N("inwait", "exit") /\ UNCHANGED new_baseb_flag
     \/ ~kill_all_flag /\ ncmd # "ACTIVE" /\ N("inwait", "top") /\ UNCHANGED new_baseb_flag
     \/ mpc \notin {"stopN", "stoppingN", "joinN", "done"}
        /\ N("inwait", "start") /\ new_baseb_flag' = 0
  /\ UNCHANGED <<n_same, signal, task, back, reset>>

StartOutput ==
  /\ N("start", "signal") /\ cmd' = "ACTIVE"
  /\ UNCHANGED <<n_same, start, baseb, context>>

\* Mutant: the output is told to start, and not woken.
SignalForgotten ==
  /\ N("signal", "check")
  /\ UNCHANGED <<n_same, signal, context>>

SignalStart ==
  /\ N("signal", "check") /\ start' = TRUE
  /\ UNCHANGED <<n_same, cmd, baseb, context>>

AfterError ==
  /\ kill_all_flag /\ N("error", "exit")
  /\ UNCHANGED <<n_same, signal, context>>

NExit ==
  /\ N("exit", "returned") /\ nstatus' = "RETURNED"
  /\ UNCHANGED <<others, lirerr, signal, context>>

NEnd ==
  /\ ncmd = "NOT_ACTIVE" /\ N("returned", "ended")
  /\ UNCHANGED <<n_same, signal, context>>

Narrowband ==
  \/ Top \/ MouseTask \/ NoMouseTask \/ Check \/ Control \/ ControlGiveUp
  \/ Pause \/ Poll \/ Post \/ SemClear \/ DaSem \/ Halt \/ HaltGiveUp \/ Sizes
  \/ Memory \/ Clear \/ Process \/ Flag \/ InputWait \/ StartOutput \/ SignalStart
  \/ AfterError \/ NExit \/ NEnd
-----------------------------------------------------------------------------
(* The main thread: normal_rx_routine                                       *)

M(from, to) == mpc = from /\ mpc' = to
m_same == <<npc, task, back, new_baseb_flag, reset, nstatus, selected, kill_all_flag>>
narrow_same == <<m_same, ncmd>>

Create ==
  /\ ~kill_all_flag /\ M("create", "active")
  /\ rpc' = "init" /\ status' = "INIT" /\ cmd' = "ACTIVE"
  /\ UNCHANGED <<events, narrow_same, all_threads_started, lirerr>>

SeenActive ==
  /\ ~kill_all_flag /\ status = "ACTIVE" /\ M("active", "idlewait")
  /\ cmd' = "IDLE"
  /\ UNCHANGED <<rpc, status, events, narrow_same, all_threads_started, lirerr>>

SeenIdle ==
  /\ status = "IDLE" /\ M("idlewait", "semwait")
  /\ cmd' = "SEMCLEAR"
  /\ UNCHANGED <<rpc, status, events, narrow_same, all_threads_started, lirerr>>

\* A second has been enough for RX_OUTPUT, but its IDLE has not been seen.
IdleGiveUp ==
  /\ ~kill_all_flag /\ status # "IDLE"
  /\ "slow" \in Overlaps \/ rpc \notin {"open", "hold", "stop"}
  /\ M("idlewait", "failed") /\ lirerr' = IdleError
  /\ UNCHANGED <<output, events, narrow_same, all_threads_started>>

SeenSemClear ==
  /\ ~kill_all_flag /\ status = "SEMCLEAR" /\ M("semwait", "run")
  /\ all_threads_started' = TRUE
  /\ UNCHANGED <<output, events, narrow_same, lirerr>>

\* An error at the start ends the routine and leaves the rest to kill_all.
StartFails ==
  /\ kill_all_flag
  /\ M(mpc, IF mpc = "active" THEN "stop" ELSE "done")
  /\ mpc \in {"create", "active", "idlewait", "semwait", "failed"}
  /\ UNCHANGED <<output, events, narrow_same, all_threads_started, lirerr>>

\* Nothing is asked for or under way.
Settled ==
  /\ ~reset /\ new_baseb_flag <= 0 /\ ~Starting
  /\ npc \in {"top", "mouse", "check", "process", "flag"}

\* X ends the thread USER_COMMAND, which this one waits for.
UserExit ==
  /\ kill_all_flag \/ "late" \in Overlaps \/ Settled
  /\ M("run", "stop")
  /\ UNCHANGED <<output, events, narrow_same, all_threads_started, lirerr>>

\* Mutant: only the event by which RX_OUTPUT is started is posted, once.
StopOutputOneEvent ==
  /\ IF cmd = "NOT_ACTIVE" /\ kill_all_flag
     THEN M("stop", "stopN") /\ UNCHANGED <<cmd, events>>
     ELSE M("stop", "stopping") /\ cmd' = "KILL" /\ start' = TRUE /\ UNCHANGED baseb
  /\ UNCHANGED <<rpc, status, narrow_same, all_threads_started, lirerr>>

\* Both events on which RX_OUTPUT may wait, the second one only once.
StopOutput ==
  /\ IF cmd = "NOT_ACTIVE" /\ kill_all_flag
     THEN M("stop", "stopN") /\ UNCHANGED <<cmd, events>>
     ELSE M("stop", "stopping") /\ cmd' = "KILL" /\ start' = TRUE /\ baseb' = TRUE
  /\ UNCHANGED <<rpc, status, narrow_same, all_threads_started, lirerr>>

StopAgain ==
  /\ mpc = "stopping"
  /\ IF status = "RETURNED"
     THEN mpc' = "join" /\ cmd' = "NOT_ACTIVE" /\ UNCHANGED start
     ELSE start' = TRUE /\ UNCHANGED <<mpc, cmd>>
  /\ UNCHANGED <<rpc, status, baseb, narrow_same, all_threads_started, lirerr>>

JoinOutput ==
  /\ rpc = "ended" /\ M("join", "stopN")
  /\ status' = "NOT_ACTIVE"
  /\ UNCHANGED <<rpc, cmd, events, narrow_same, all_threads_started, lirerr>>

StopNarrowband ==
  /\ \/ M("stopN", "stoppingN") /\ ncmd # "NOT_ACTIVE" /\ ncmd' = "KILL"
     \/ M("stopN", "done") /\ ncmd = "NOT_ACTIVE" /\ UNCHANGED ncmd
     \/ M("stoppingN", "joinN") /\ nstatus = "RETURNED" /\ ncmd' = "NOT_ACTIVE"
     \/ M("joinN", "done") /\ npc = "ended" /\ UNCHANGED ncmd
  /\ UNCHANGED <<output, events, m_same, all_threads_started, lirerr>>

Main ==
  \/ Create \/ SeenActive \/ SeenIdle \/ IdleGiveUp \/ SeenSemClear \/ StartFails
  \/ StopOutput \/ StopAgain \/ JoinOutput \/ StopNarrowband
-----------------------------------------------------------------------------
(* Everybody else                                                           *)

k_same == <<rpc, status, npc, task, back, new_baseb_flag, nstatus, mpc, all_threads_started, lirerr>>

\* The user selects another frequency or mode on a wide graph, with a key or
\* over the network.
AskReset ==
  /\ "early" \in Overlaps \/ all_threads_started
  /\ "again" \in Overlaps \/ ~Starting
  /\ "late" \in Overlaps \/ ~Stopping
  /\ reset' = TRUE /\ selected' \in BOOLEAN
  /\ UNCHANGED <<k_same, cmd, events, ncmd, kill_all_flag>>

Halting ==
  \/ npc \in {"halt", "sizes", "halt2"} /\ task = "mouse"
  \/ npc \in {"pause", "poll", "post", "semwait"} /\ back # "control"

KillAll ==
  /\ ~kill_all_flag /\ kill_all_flag' = TRUE
  /\ "fatal" \in Overlaps \/ ~Halting \/ lirerr = HaltError
  /\ UNCHANGED <<k_same, cmd, events, ncmd, reset, selected>>

\* kill_all, over and over.
KillOutput ==
  /\ kill_all_flag /\ cmd # "NOT_ACTIVE"
  /\ IF status \in {"RETURNED", "NOT_ACTIVE"}
     THEN cmd' = "NOT_ACTIVE" /\ UNCHANGED events
     ELSE cmd' = "KILL" /\ start' = TRUE /\ baseb' = TRUE
  /\ UNCHANGED <<k_same, ncmd, reset, selected, kill_all_flag>>

KillNarrowband ==
  /\ kill_all_flag /\ ncmd # "NOT_ACTIVE"
  /\ ncmd' = IF nstatus = "RETURNED" THEN "NOT_ACTIVE" ELSE "KILL"
  /\ UNCHANGED <<k_same, cmd, events, reset, selected, kill_all_flag>>

TooSlow == PlayTooSlow \/ PauseGiveUp \/ FillTooSlow

Next ==
  \/ RxOut \/ TooSlow \/ DaSyncError \/ Narrowband \/ Main \/ UserExit
  \/ AskReset \/ KillAll \/ KillOutput \/ KillNarrowband

Spec == Init /\ [][Next]_vars

\* Every thread runs, the input goes on until it is stopped, and lirerr has
\* kill_all called.
FairSpec ==
  /\ Spec
  /\ WF_vars(RxOut) /\ WF_vars(Narrowband) /\ WF_vars(Main)
  /\ WF_vars(KillOutput) /\ WF_vars(KillNarrowband)
  /\ WF_vars(kill_all_flag /\ UserExit) /\ WF_vars(lirerr # 0 /\ KillAll)
-----------------------------------------------------------------------------
(* Properties                                                               *)

Playing == rpc \in {"resume", "play", "bwait"}

\* "memory areas may become re-allocated and [...] no other threads may try to
\* acces the narrowband arrays in the meantime" (wcw.c:1393): while
\* narrowband_dsp changes the baseband buffers, rx_output does not use them.
AtRest == npc \in {"sizes", "memory", "clear"} => ~Playing

\* None of the waits that are counted ends in a fatal error.
NoError == lirerr = 0

\* The output starts only when narrowband_dsp has filled the buffers for the
\* delay that the user has asked for (wcw.c:1747-1791).
StartsFilled == [][rpc # "resume" /\ rpc' = "resume" => new_baseb_flag = 0]_vars

\* A signal that has been selected gets to the loudspeaker, if nothing else
\* is asked for meanwhile.
SoundReturns ==
  new_baseb_flag = 3 ~>
    rpc = "play" \/ reset \/ ~selected \/ mpc # "run" \/ kill_all_flag

\* "X = Exit from current mode to menu" (help.lir:13).
StopReturns == mpc = "stop" ~> mpc = "done"

\* kill_all ends both threads.
KillReturns ==
  kill_all_flag ~> rpc \in {"none", "returned", "ended"} /\ npc \in {"returned", "ended"}
=============================================================================
