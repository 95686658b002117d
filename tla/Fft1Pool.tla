------------------------------ MODULE Fft1Pool ------------------------------
(***************************************************************************)
(* wideband_dsp and the pool of do_fft1b worker threads (wcw.c).           *)
(*                                                                         *)
(* wideband_dsp takes blocks of samples from the ring timf1, hands each    *)
(* one to a free worker together with a slot of the ring fft1_float, and   *)
(* publishes the slots to the rest of the receiver by moving fft1_pa.  The *)
(* workers finish in any order; the transforms must come out in the order  *)
(* of the input.                                                           *)
(*                                                                         *)
(* The threads share plain variables (thread_status_flag,                  *)
(* thread_command_flag, ptrchk_fft1b, ...) and wake each other with        *)
(* events; there is no lock.  One action here is the code between two      *)
(* points where another thread can see or change something.                *)
(*                                                                         *)
(* Positions count blocks, and the "sample data" of a block is its         *)
(* position in timf1: fft1_float[s] is the position of the block whose     *)
(* transform slot s holds, or Invalid while it is being computed.          *)
(***************************************************************************)
EXTENDS Naturals, Sequences, Fft1Ring, LirEvent

CONSTANTS
  no_of_fft1b,   \* number of worker threads
  InBlocks,      \* timf1_bytes / timf1_blockbytes
  OutSlots,      \* size of fft1_float in units of fft1_mulblock
  Disturbances   \* what may happen besides steady reception, see below

(***************************************************************************)
(* "kill":     ESC or a fatal error runs kill_all                          *)
(* "stop":     X in the user interface ends wideband_dsp                   *)
(* "f5":       F5 toggles computation_pause_flag                           *)
(* "txtest":   G in the TX test makes it pause and resume wideband_dsp     *)
(* "hasty":    G comes before wideband_dsp has its first input             *)
(* "mouse":    a mouse task on a wideband graph is pending                 *)
(* "overrun":  the input laps wideband_dsp (a live A/D does not wait)      *)
(* "spurious": pthread_cond_wait may return without a signal               *)
(* "slow":     a transform may take longer than timf1 holds data for, one  *)
(*             second or more (buf.c:688-705)                              *)
(***************************************************************************)
AllDisturbances ==
  {"kill", "stop", "f5", "txtest", "hasty", "mouse", "overrun", "spurious", "slow"}

\* Each worker owns one slot and one block; timf1 is several times as long
\* (buf.c:683-706) and fft1_float holds the transforms of seconds.
ASSUME PoolAssumption ==
  /\ no_of_fft1b \in Nat \ {0}
  /\ InBlocks \in Nat /\ InBlocks > no_of_fft1b
  /\ OutSlots \in Nat /\ OutSlots > no_of_fft1b
  /\ Disturbances \subseteq AllDisturbances

Workers == 1 .. no_of_fft1b
InPos   == Positions(InBlocks)
Slots   == Positions(OutSlots)
Invalid == InBlocks      \* not the position of any block
NoSlot  == OutSlots      \* out_fft1b[] as it is before its first use: NULL
Timf1   == 0             \* EVENT_TIMF1; EVENT_DO_FFT1B1+w-1 is w

VARIABLES
  \* thread WIDEBAND_DSP
  pc,                      \* where it is in wideband_dsp
  i,                       \* its loop variable i
  cmd,                     \* thread_command_flag[THREAD_WIDEBAND_DSP]
  wstat,                   \* thread_status_flag[THREAD_WIDEBAND_DSP]
  timf1p_px, fft1_pt, fft1_pa,
  \* the workers
  wpc,                     \* where each one is in do_fft1b
  status, command,         \* their thread_status_flag, thread_command_flag
  ptrchk, inptr, out,      \* ptrchk_fft1b, inptr_fft1b, out_fft1b
  \* shared with everybody
  event,
  fft1_float,
  timf1p_pb,               \* moved by the input thread
  kill_all_flag, computation_pause_flag,
  txtest,                  \* the TX test thread's use of wideband_dsp
  lirerr,                  \* lirerr(765934) has been called
  issued                   \* history: blocks handed out and not yet published

wbvars   == <<pc, i, cmd, wstat>>
ptrs     == <<timf1p_px, fft1_pt, fft1_pa>>
threads  == <<wpc, status, command>>
tasks    == <<ptrchk, inptr, out>>
env      == <<timf1p_pb, kill_all_flag, computation_pause_flag, txtest>>
vars     == <<wbvars, ptrs, threads, tasks, event, fft1_float, env, lirerr,
              issued>>

CmdFlags    == {"NOT_ACTIVE", "ACTIVE", "IDLE", "KILL"}
StatusFlags == {"NOT_ACTIVE", "INIT", "ACTIVE", "IDLE", "SEM_WAIT", "RETURNED"}
WbPcs == {"first", "create", "created", "restart", "settle", "await", "asleep",
          "assign", "collect", "leave", "idle", "idleawait", "stop", "join",
          "returned"}
WorkerPcs == {"none", "top", "wait1", "fft", "done", "wait2", "exit",
              "returned", "ended"}

TypeOK ==
  /\ pc \in WbPcs /\ i \in 1 .. no_of_fft1b + 1
  /\ cmd \in CmdFlags /\ wstat \in StatusFlags
  /\ timf1p_px \in InPos /\ timf1p_pb \in InPos
  /\ fft1_pt \in Slots /\ fft1_pa \in Slots
  /\ wpc \in [Workers -> WorkerPcs]
  /\ status \in [Workers -> StatusFlags]
  /\ command \in [Workers -> CmdFlags]
  /\ ptrchk \in [Workers -> BOOLEAN]
  /\ inptr \in [Workers -> InPos]
  /\ out \in [Workers -> Slots \cup {NoSlot}]
  /\ event \in [Workers \cup {Timf1} -> BOOLEAN]
  /\ fft1_float \in [Slots -> InPos \cup {Invalid}]
  /\ kill_all_flag \in BOOLEAN /\ computation_pause_flag \in BOOLEAN
  /\ txtest \in {"run", "asked", "wait", "held"}
  /\ lirerr \in BOOLEAN
  /\ issued \in Seq(InPos)

\* The thread has just been created; timf1 is empty.
Init ==
  /\ pc = "first" /\ i = 1 /\ cmd = "ACTIVE" /\ wstat = "INIT"
  /\ timf1p_px = 0 /\ timf1p_pb = 0 /\ fft1_pt = 0 /\ fft1_pa = 0
  /\ wpc = [w \in Workers |-> "none"]
  /\ status = [w \in Workers |-> "NOT_ACTIVE"]
  /\ command = [w \in Workers |-> "NOT_ACTIVE"]
  /\ ptrchk = [w \in Workers |-> FALSE]
  /\ inptr = [w \in Workers |-> 0]
  /\ out = [w \in Workers |-> NoSlot]
  /\ event = [e \in Workers \cup {Timf1} |-> FALSE]
  /\ fft1_float = [s \in Slots |-> Invalid]
  /\ kill_all_flag = FALSE /\ computation_pause_flag = FALSE
  /\ txtest = "run" /\ lirerr = FALSE /\ issued = <<>>

Spurious == "spurious" \in Disturbances
Awake(e) == MayWake(event, e, Spurious)

-----------------------------------------------------------------------------
(* wideband_dsp: start                                                      *)

Running == ~kill_all_flag /\ cmd = "ACTIVE"
Goto(p) == pc' = p

\* Wait for the first samples, then start the other DSP threads.  Leaving
\* because of the command alone does not skip what follows.
FirstInput ==
  /\ pc = "first"
  /\ IF Running /\ timf1p_px = timf1p_pb
     THEN /\ Awake(Timf1) /\ event' = TakeEvent(event, Timf1)
          /\ UNCHANGED <<pc, i, ptrchk>>
     ELSE /\ i' = 1
          /\ IF Running
             THEN Goto("create") /\ ptrchk' = [w \in Workers |-> FALSE]
             ELSE Goto("stop") /\ UNCHANGED ptrchk
          /\ UNCHANGED event
  /\ UNCHANGED <<cmd, wstat, ptrs, threads, inptr, out, fft1_float, env,
                 lirerr, issued>>

\* linrad_thread_create(THREAD_FFT1B1+i).
CreateWorker ==
  /\ pc = "create"
  /\ status' = [status EXCEPT ![i] = "INIT"]
  /\ command' = [command EXCEPT ![i] = "ACTIVE"]
  /\ wpc' = [wpc EXCEPT ![i] = "top"]
  /\ Goto("created")
  /\ UNCHANGED <<i, cmd, wstat, ptrs, tasks, event, fft1_float, env, lirerr,
                 issued>>

\* One worker at a time: it has claimed its place in the pool when it waits.
WorkerReady ==
  /\ pc = "created" /\ status[i] \in {"SEM_WAIT", "RETURNED"}
  /\ IF i < no_of_fft1b
     THEN i' = i + 1 /\ Goto("create")
     ELSE i' = 1 /\ Goto(IF Running THEN "restart" ELSE "stop")
  /\ UNCHANGED <<cmd, wstat, ptrs, threads, tasks, event, fft1_float, env,
                 lirerr, issued>>

\* restart: drop the input that has piled up ...
Restart ==
  /\ pc = "restart"
  /\ timf1p_px' = timf1p_pb /\ fft1_pt' = fft1_pa
  /\ Goto("settle")
  /\ UNCHANGED <<i, cmd, wstat, fft1_pa, threads, tasks, event, fft1_float,
                 env, lirerr, issued>>

\* ... until new samples come in, and drop those too.
Settle ==
  /\ pc = "settle"
  /\ IF Running /\ timf1p_px = timf1p_pb
     THEN /\ Awake(Timf1) /\ event' = TakeEvent(event, Timf1)
          /\ UNCHANGED <<pc, wstat, timf1p_px>>
     ELSE /\ timf1p_px' = timf1p_pb /\ wstat' = "ACTIVE" /\ Goto("await")
          /\ UNCHANGED event
  /\ UNCHANGED <<i, cmd, fft1_pt, fft1_pa, threads, tasks, fft1_float, env,
                 lirerr, issued>>

-----------------------------------------------------------------------------
(* wideband_dsp: the loop                                                   *)

NoInput  == timf1p_px = timf1p_pb
AllBusy  == \A w \in Workers : status[w] = "ACTIVE"

\* await_event: nothing to transform, or nobody to do it.
GoToSleep ==
  /\ pc = "await" /\ Running /\ (NoInput \/ AllBusy)
  /\ Goto("asleep") /\ wstat' = "SEM_WAIT"
  /\ UNCHANGED <<i, cmd, ptrs, threads, tasks, event, fft1_float, env, lirerr,
                 issued>>

WakeUp ==
  /\ pc = "asleep" /\ Awake(Timf1)
  /\ event' = TakeEvent(event, Timf1)
  /\ Goto("await") /\ wstat' = "ACTIVE"
  /\ UNCHANGED <<i, cmd, ptrs, threads, tasks, fft1_float, env, lirerr, issued>>

\* With a mouse task the thread polls instead of sleeping, serves the mouse
\* and goes on to the results without new input.
ServeMouse ==
  /\ pc = "await" /\ Running /\ NoInput /\ "mouse" \in Disturbances
  /\ Goto("collect")
  /\ UNCHANGED <<i, cmd, wstat, ptrs, threads, tasks, event, fft1_float, env,
                 lirerr, issued>>

\* Age of the block given to w: how far timf1p_px has moved past it.
Age(w) == Behind(inptr[w], timf1p_px, InBlocks)

\* A worker that has a block to transform and is not done with it.
Transforming(w) == ptrchk[w] /\ status[w] # "IDLE"

\* F5: the block is skipped.  Nothing in the code looks after the workers that
\* are still busy; they finish long before timf1p_px comes round to them.
SkipBlock ==
  /\ pc = "await" /\ Running /\ ~NoInput /\ ~AllBusy /\ computation_pause_flag
  /\ "slow" \in Disturbances \/
       \A w \in Workers : Transforming(w) => Age(w) + no_of_fft1b < InBlocks
  /\ timf1p_px' = NextPos(timf1p_px, InBlocks)
  /\ UNCHANGED <<wbvars, fft1_pt, fft1_pa, threads, tasks, event, fft1_float,
                 env, lirerr, issued>>

StartAssigning ==
  /\ pc = "await" /\ Running /\ ~NoInput /\ ~AllBusy /\ ~computation_pause_flag
  /\ i' = 1 /\ Goto("assign")
  /\ UNCHANGED <<cmd, wstat, ptrs, threads, tasks, event, fft1_float, env,
                 lirerr, issued>>

Free(w) == ~ptrchk[w] /\ status[w] = "SEM_WAIT"

\* Give the block at timf1p_px and the slot at fft1_pt to worker i.
Assign ==
  /\ pc = "assign" /\ i <= no_of_fft1b /\ ~NoInput /\ Free(i)
  /\ ptrchk' = [ptrchk EXCEPT ![i] = TRUE]
  /\ inptr' = [inptr EXCEPT ![i] = timf1p_px]
  /\ out' = [out EXCEPT ![i] = fft1_pt]
  /\ timf1p_px' = NextPos(timf1p_px, InBlocks)
  /\ fft1_pt' = NextPos(fft1_pt, OutSlots)
  /\ event' = SetEvent(event, i)
  /\ issued' = Append(issued, timf1p_px)
  /\ i' = i + 1
  /\ UNCHANGED <<pc, cmd, wstat, fft1_pa, threads, fft1_float, env, lirerr>>

\* Worker i is not free.
PassOver ==
  /\ pc = "assign" /\ i <= no_of_fft1b /\ ~NoInput /\ ~Free(i)
  /\ i' = i + 1
  /\ UNCHANGED <<pc, cmd, wstat, ptrs, threads, tasks, event, fft1_float, env,
                 lirerr, issued>>

AssignedAll ==
  /\ pc = "assign" /\ (i > no_of_fft1b \/ NoInput)
  /\ Goto("collect")
  /\ UNCHANGED <<i, cmd, wstat, ptrs, threads, tasks, event, fft1_float, env,
                 lirerr, issued>>

\* Mutant: the ages are not compared.
FirstFinished ==
  IF \E w \in Workers : ptrchk[w] /\ status[w] = "IDLE"
  THEN CHOOSE w \in Workers : ptrchk[w] /\ status[w] = "IDLE"
  ELSE 1

\* The first worker with the largest age, whether it has a task or not.
Oldest == CHOOSE w \in Workers :
            \A v \in Workers : /\ Age(v) <= Age(w)
                               /\ v < w => Age(v) < Age(w)

\* Mutant: the result is taken without a look at the thread's status.
CollectableEarly == ptrchk[Oldest]

Collectable == ptrchk[Oldest] /\ status[Oldest] = "IDLE"

\* fft1_b_results: release the oldest worker and publish the next slot.
Collect ==
  /\ pc = "collect" /\ Running /\ Collectable
  /\ ptrchk' = [ptrchk EXCEPT ![Oldest] = FALSE]
  /\ event' = SetEvent(event, Oldest)
  /\ fft1_pa' = NextPos(fft1_pa, OutSlots)
  /\ issued' = IF issued = <<>> THEN <<>> ELSE Tail(issued)
  /\ UNCHANGED <<wbvars, timf1p_px, fft1_pt, threads, inptr, out, fft1_float,
                 env, lirerr>>

CollectedAll ==
  /\ pc = "collect" /\ Running /\ ~Collectable
  /\ Goto("await")
  /\ UNCHANGED <<i, cmd, wstat, ptrs, threads, tasks, event, fft1_float, env,
                 lirerr, issued>>

\* wideend, with the loop condition false.
LeaveLoop ==
  /\ pc \in {"await", "collect"} /\ ~Running
  /\ Goto("leave")
  /\ UNCHANGED <<i, cmd, wstat, ptrs, threads, tasks, event, fft1_float, env,
                 lirerr, issued>>

-----------------------------------------------------------------------------
(* wideband_dsp: paused by the TX test, and the end                         *)

\* Mutant: the status is not set on the way into the pause.
BecomeIdleUnseen ==
  /\ pc = "leave"
  /\ IF cmd = "IDLE" THEN Goto("idle") /\ UNCHANGED i
                     ELSE Goto("stop") /\ i' = 1
  /\ UNCHANGED <<cmd, wstat, ptrs, threads, tasks, event, fft1_float, env,
                 lirerr, issued>>

BecomeIdle ==
  /\ pc = "leave"
  /\ IF cmd = "IDLE" THEN Goto("idle") /\ wstat' = "IDLE" /\ UNCHANGED i
                     ELSE Goto("stop") /\ i' = 1 /\ UNCHANGED wstat
  /\ UNCHANGED <<cmd, ptrs, threads, tasks, event, fft1_float, env, lirerr,
                 issued>>

StayIdle ==
  /\ pc = "idle"
  /\ IF cmd = "IDLE"   THEN Goto("idleawait") /\ UNCHANGED i ELSE
     IF cmd = "ACTIVE" THEN Goto("restart") /\ UNCHANGED i
                       ELSE Goto("stop") /\ i' = 1
  /\ UNCHANGED <<cmd, wstat, ptrs, threads, tasks, event, fft1_float, env,
                 lirerr, issued>>

SkipWhileIdle ==
  /\ pc = "idleawait" /\ Awake(Timf1)
  /\ event' = TakeEvent(event, Timf1)
  /\ timf1p_px' = NextPos(timf1p_px, InBlocks)
  /\ Goto("idle")
  /\ UNCHANGED <<i, cmd, wstat, fft1_pt, fft1_pa, threads, tasks, fft1_float,
                 env, lirerr, issued>>

\* Mutant: a thread that does not exist is waited for, too.
StopWorkerAlways ==
  /\ pc = "stop" /\ i <= no_of_fft1b
  /\ command' = [command EXCEPT ![i] = "KILL"]
  /\ event' = SetEvent(event, i)
  /\ Goto("join")
  /\ UNCHANGED <<i, lirerr, cmd, wstat, ptrs, wpc, status, tasks, fft1_float,
                 env, issued>>

\* linrad_thread_stop_and_join(worker i), up to its loop.  For a thread that
\* has not been started it calls lirerr, which returns after kill_all.
StopWorker ==
  /\ pc = "stop" /\ i <= no_of_fft1b
  /\ IF command[i] = "NOT_ACTIVE"
     THEN /\ lirerr' = (lirerr \/ ~kill_all_flag)
          /\ i' = IF kill_all_flag THEN i + 1 ELSE i
          /\ UNCHANGED <<pc, command, event>>
     ELSE /\ command' = [command EXCEPT ![i] = "KILL"]
          /\ event' = SetEvent(event, i)
          /\ Goto("join")
          /\ UNCHANGED <<i, lirerr>>
  /\ UNCHANGED <<cmd, wstat, ptrs, wpc, status, tasks, fft1_float, env, issued>>

\* Mutant: post only to a worker that waits for a task.
PostAgainIfWaiting ==
  /\ pc = "join" /\ status[i] = "SEM_WAIT"
  /\ event' = SetEvent(event, i)
  /\ UNCHANGED <<wbvars, ptrs, threads, tasks, fft1_float, env, lirerr, issued>>

\* Post to the worker until it has returned, then let the thread end.
PostAgain ==
  /\ pc = "join" /\ status[i] # "RETURNED"
  /\ event' = SetEvent(event, i)
  /\ UNCHANGED <<wbvars, ptrs, threads, tasks, fft1_float, env, lirerr, issued>>

ReleaseWorker ==
  /\ pc = "join" /\ status[i] = "RETURNED" /\ wpc[i] # "ended"
  /\ command[i] # "NOT_ACTIVE"
  /\ command' = [command EXCEPT ![i] = "NOT_ACTIVE"]
  /\ UNCHANGED <<wbvars, ptrs, wpc, status, tasks, event, fft1_float, env,
                 lirerr, issued>>

\* lir_join has returned.
JoinWorker ==
  /\ pc = "join" /\ wpc[i] = "ended"
  /\ status' = [status EXCEPT ![i] = "NOT_ACTIVE"]
  /\ i' = i + 1 /\ Goto("stop")
  /\ UNCHANGED <<cmd, wstat, ptrs, wpc, command, tasks, event, fft1_float, env,
                 lirerr, issued>>

Return ==
  /\ pc = "stop" /\ i > no_of_fft1b
  /\ Goto("returned") /\ wstat' = "RETURNED"
  /\ UNCHANGED <<i, cmd, ptrs, threads, tasks, event, fft1_float, env, lirerr,
                 issued>>

Wideband ==
  \/ FirstInput \/ CreateWorker \/ WorkerReady \/ Restart \/ Settle
  \/ GoToSleep \/ WakeUp \/ ServeMouse \/ SkipBlock
  \/ StartAssigning \/ Assign \/ PassOver \/ AssignedAll
  \/ Collect \/ CollectedAll \/ LeaveLoop
  \/ BecomeIdle \/ StayIdle \/ SkipWhileIdle
  \/ StopWorker \/ PostAgain \/ ReleaseWorker \/ JoinWorker \/ Return

-----------------------------------------------------------------------------
(* do_fft1b                                                                 *)

\* The head of the loop.
WorkerTop(w) ==
  /\ wpc[w] = "top"
  /\ IF command[w] = "ACTIVE"
     THEN /\ status' = [status EXCEPT ![w] = "SEM_WAIT"]
          /\ wpc' = [wpc EXCEPT ![w] = IF kill_all_flag THEN "exit" ELSE "wait1"]
     ELSE wpc' = [wpc EXCEPT ![w] = "exit"] /\ UNCHANGED status
  /\ UNCHANGED <<wbvars, ptrs, command, tasks, event, fft1_float, env, lirerr,
                 issued>>

\* Until fft1_b returns, the slot it writes to holds no transform.
StartFft(w) ==
  /\ wpc[w] = "wait1" /\ Awake(w)
  /\ event' = TakeEvent(event, w)
  /\ IF kill_all_flag
     THEN /\ wpc' = [wpc EXCEPT ![w] = "exit"]
          /\ UNCHANGED <<status, fft1_float>>
     ELSE /\ wpc' = [wpc EXCEPT ![w] = "fft"]
          /\ status' = [status EXCEPT ![w] = "ACTIVE"]
          /\ fft1_float' = IF out[w] = NoSlot THEN fft1_float
                           ELSE [fft1_float EXCEPT ![out[w]] = Invalid]
  /\ UNCHANGED <<wbvars, ptrs, command, tasks, env, lirerr, issued>>

FinishFft(w) ==
  /\ wpc[w] = "fft"
  /\ fft1_float' = IF out[w] = NoSlot THEN fft1_float
                   ELSE [fft1_float EXCEPT ![out[w]] = inptr[w]]
  /\ status' = [status EXCEPT ![w] = "IDLE"]
  /\ wpc' = [wpc EXCEPT ![w] = "done"]
  /\ UNCHANGED <<wbvars, ptrs, command, tasks, event, env, lirerr, issued>>

ReportDone(w) ==
  /\ wpc[w] = "done"
  /\ IF kill_all_flag
     THEN wpc' = [wpc EXCEPT ![w] = "exit"] /\ UNCHANGED event
     ELSE /\ wpc' = [wpc EXCEPT ![w] = "wait2"]
          /\ event' = SetEvent(event, Timf1)
  /\ UNCHANGED <<wbvars, ptrs, status, command, tasks, fft1_float, env, lirerr,
                 issued>>

\* The second await: the result has been collected.
Released(w) ==
  /\ wpc[w] = "wait2" /\ Awake(w)
  /\ event' = TakeEvent(event, w)
  /\ wpc' = [wpc EXCEPT ![w] = "top"]
  /\ UNCHANGED <<wbvars, ptrs, status, command, tasks, fft1_float, env, lirerr,
                 issued>>

WorkerExit(w) ==
  /\ wpc[w] = "exit"
  /\ status' = [status EXCEPT ![w] = "RETURNED"]
  /\ wpc' = [wpc EXCEPT ![w] = "returned"]
  /\ UNCHANGED <<wbvars, ptrs, command, tasks, event, fft1_float, env, lirerr,
                 issued>>

WorkerEnd(w) ==
  /\ wpc[w] = "returned" /\ command[w] = "NOT_ACTIVE"
  /\ wpc' = [wpc EXCEPT ![w] = "ended"]
  /\ UNCHANGED <<wbvars, ptrs, status, command, tasks, event, fft1_float, env,
                 lirerr, issued>>

Worker(w) ==
  \/ WorkerTop(w) \/ StartFft(w) \/ FinishFft(w) \/ ReportDone(w)
  \/ Released(w) \/ WorkerExit(w) \/ WorkerEnd(w)

-----------------------------------------------------------------------------
(* The rest of the program                                                  *)

\* finish_rx_read: one more block of samples.  It never looks at timf1p_px.
Input ==
  /\ "overrun" \in Disturbances \/ NextPos(timf1p_pb, InBlocks) # timf1p_px
  /\ timf1p_pb' = NextPos(timf1p_pb, InBlocks)
  /\ event' = SetEvent(event, Timf1)
  /\ UNCHANGED <<wbvars, ptrs, threads, tasks, fft1_float, kill_all_flag,
                 computation_pause_flag, txtest, lirerr, issued>>

\* The F5 key.
ToggleF5 ==
  /\ "f5" \in Disturbances /\ ~kill_all_flag
  /\ computation_pause_flag' = ~computation_pause_flag
  /\ UNCHANGED <<wbvars, ptrs, threads, tasks, event, fft1_float, timf1p_pb,
                 kill_all_flag, txtest, lirerr, issued>>

\* linrad_thread_stop_and_join(THREAD_WIDEBAND_DSP), from the menu thread: the
\* command once, the event again and again.
StopWideband ==
  /\ "stop" \in Disturbances /\ cmd # "KILL" /\ cmd # "NOT_ACTIVE"
  /\ kill_all_flag \/ txtest \notin {"asked", "wait"}   \* the user's thread has ended
  /\ cmd' = "KILL" /\ event' = SetEvent(event, Timf1)
  /\ UNCHANGED <<pc, i, wstat, ptrs, threads, tasks, fft1_float, env, lirerr,
                 issued>>

PostWideband ==
  /\ cmd = "KILL" /\ wstat # "RETURNED"
  /\ event' = SetEvent(event, Timf1)
  /\ UNCHANGED <<wbvars, ptrs, threads, tasks, fft1_float, env, lirerr, issued>>

JoinWideband ==
  /\ "stop" \in Disturbances /\ cmd = "KILL" /\ wstat = "RETURNED"
  /\ cmd' = "NOT_ACTIVE"
  /\ UNCHANGED <<pc, i, wstat, ptrs, threads, tasks, event, fft1_float, env,
                 lirerr, issued>>

\* kill_all raises the flag ...
KillAll ==
  /\ ("kill" \in Disturbances \/ lirerr) /\ ~kill_all_flag
  /\ kill_all_flag' = TRUE
  /\ UNCHANGED <<wbvars, ptrs, threads, tasks, event, fft1_float, timf1p_pb,
                 computation_pause_flag, txtest, lirerr, issued>>

\* ... and visits every thread, over and over, until all have returned.
KillWorker(w) ==
  /\ kill_all_flag /\ command[w] # "NOT_ACTIVE"
  /\ IF status[w] \in {"RETURNED", "NOT_ACTIVE"}
     THEN command' = [command EXCEPT ![w] = "NOT_ACTIVE"] /\ UNCHANGED event
     ELSE /\ command' = [command EXCEPT ![w] = "KILL"]
          /\ event' = SetEvent(event, w)
  /\ UNCHANGED <<wbvars, ptrs, wpc, status, tasks, fft1_float, env, lirerr,
                 issued>>

KillWideband ==
  /\ kill_all_flag /\ cmd # "NOT_ACTIVE"
  /\ IF wstat = "RETURNED"
     THEN cmd' = "NOT_ACTIVE" /\ UNCHANGED event
     ELSE cmd' = "KILL" /\ event' = SetEvent(event, Timf1)
  /\ UNCHANGED <<pc, i, wstat, ptrs, threads, tasks, fft1_float, env, lirerr,
                 issued>>

\* pause_thread(THREAD_TXTEST), for a picture of the screen.
TxTestAsk ==
  /\ "txtest" \in Disturbances /\ txtest = "run" /\ ~kill_all_flag
  /\ cmd = "ACTIVE" /\ ("hasty" \in Disturbances \/ wstat \in {"ACTIVE", "SEM_WAIT"})
  /\ txtest' = "asked"
  /\ UNCHANGED <<wbvars, ptrs, threads, tasks, event, fft1_float, timf1p_pb,
                 kill_all_flag, computation_pause_flag, lirerr, issued>>

\* txtest: stop the wideband thread, unless kill_all has been faster, ...
TxTestPause ==
  /\ txtest = "asked"
  /\ \/ cmd' = "IDLE" /\ txtest' = "wait"
     \/ kill_all_flag /\ txtest' = "run" /\ UNCHANGED cmd
  /\ UNCHANGED <<pc, i, wstat, ptrs, threads, tasks, event, fft1_float,
                 timf1p_pb, kill_all_flag, computation_pause_flag, lirerr,
                 issued>>

TxTestPaused ==
  /\ txtest = "wait" /\ wstat = "IDLE" /\ txtest' = "held"
  /\ UNCHANGED <<wbvars, ptrs, threads, tasks, event, fft1_float, timf1p_pb,
                 kill_all_flag, computation_pause_flag, lirerr, issued>>

\* ... and start it again, whatever its command says by then.
TxTestResume ==
  /\ txtest = "held" /\ txtest' = "run" /\ cmd' = "ACTIVE"
  /\ UNCHANGED <<pc, i, wstat, ptrs, threads, tasks, event, fft1_float,
                 timf1p_pb, kill_all_flag, computation_pause_flag, lirerr,
                 issued>>

\* Nothing is left to do after the receiver has been stopped.
Stopped ==
  /\ pc = "returned" /\ \A w \in Workers : wpc[w] \in {"none", "ended"}
  /\ UNCHANGED vars

Environment ==
  \/ Input \/ ToggleF5 \/ StopWideband \/ PostWideband \/ JoinWideband
  \/ KillAll \/ (\E w \in Workers : KillWorker(w)) \/ KillWideband
  \/ TxTestAsk \/ TxTestPause \/ TxTestPaused \/ TxTestResume

Next == Wideband \/ (\E w \in Workers : Worker(w)) \/ Environment \/ Stopped

Spec == Init /\ [][Next]_vars

-----------------------------------------------------------------------------
(* Safety                                                                   *)

\* The worker that is released holds the oldest of the blocks that are under
\* way ("Find the oldest fft1_b computation", wcw.c:1046), and the slot that
\* becomes visible with it is the one that worker filled.
OldestFirst ==
  [][ \A w \in Workers : pc = "collect" /\ ptrchk[w] /\ ~ptrchk'[w] =>
        /\ issued # <<>> /\ inptr[w] = Head(issued)
        /\ out[w] = fft1_pa ]_vars

\* Whatever is published is the finished transform of the oldest block that
\* was handed out and not yet published: nothing is lost, doubled, reordered
\* or shown too early.
PublishesInOrder ==
  [][ fft1_pa' # fft1_pa =>
        /\ issued # <<>>
        /\ fft1_float[fft1_pa] = Head(issued) ]_vars

\* "Valid data are stored in the interval px to pa" (z_BUFFERS.txt:30): a slot that
\* consumers get to see holds a finished transform.
PublishesValid ==
  [][ fft1_pa' # fft1_pa => fft1_float[fft1_pa] # Invalid ]_vars

\* In the same words: the workers change only slots between fft1_pa and fft1_pt,
\* which no consumer reads.
WritesUnpublished ==
  [][ \A s \in Slots : fft1_float'[s] # fft1_float[s] =>
        Behind(fft1_pa, s, OutSlots) < Behind(fft1_pa, fft1_pt, OutSlots) ]_vars

\* A worker transforms only a block it has been given (wcw.c:1016-1018).
ComputesOnlyAssigned ==
  \A w \in Workers : wpc[w] = "fft" => ptrchk[w]

\* The one event per worker carries two messages, "here is a task" and "your
\* result has been taken".  A post is never still pending when the other one
\* is made, and a task never waits for a post that is not there.
PostsMatch ==
  kill_all_flag \/ pc \in {"stop", "join", "returned"} \/
  \A w \in Workers :
    /\ event[w] => wpc[w] \in (IF ptrchk[w] THEN {"wait1"} ELSE {"done", "wait2"})
    /\ ptrchk[w] /\ wpc[w] \in {"top", "wait1"} => event[w]

-----------------------------------------------------------------------------
(* Liveness                                                                 *)

(***************************************************************************)
(* Every thread keeps running, the input keeps coming, and kill_all and    *)
(* stop_and_join repeat their posts: each is a loop that only sleeps for   *)
(* milliseconds.  lirerr has kill_all called.  The user, and hence         *)
(* otherwise KillAll, StopWideband, ToggleF5, TxTestAsk and TxTestResume,  *)
(* promise nothing.                                                        *)
(***************************************************************************)
Fairness ==
  /\ WF_vars(Wideband)
  /\ \A w \in Workers : WF_vars(Worker(w)) /\ WF_vars(KillWorker(w))
  /\ WF_vars(Input) /\ WF_vars(PostWideband) /\ WF_vars(KillWideband)
  /\ WF_vars(lirerr /\ KillAll) /\ WF_vars(TxTestPause \/ TxTestPaused)

FairSpec == Spec /\ Fairness

\* The pool implements the ordered stream of Fft1Stream: every block that is
\* handed out comes out, complete and in its turn.
Stream == INSTANCE Fft1Stream WITH
            Length <- InBlocks, Depth <- no_of_fft1b,
            next <- timf1p_px, queue <- issued,
            shown <- fft1_float[PrevPos(fft1_pa, OutSlots)]

ImplementsStream == Stream!Spec

\* X: wideband_dsp ends, and has stopped every worker first, unless the TX test
\* has to do with it.
StopReturns == (cmd = "KILL" /\ txtest = "run") ~> (wstat = "RETURNED")

\* "X = Exit from current mode to menu" (help.lir:13): the command KILL brings
\* wideband_dsp to its end, whatever the TX test does.
StopSticks == (cmd = "KILL") ~> (wstat = "RETURNED")

\* G in the TX test: wideband_dsp comes to rest when it is told to pause, with
\* its workers busy or not, if the program is not ended meanwhile.
PauseReturns == (txtest = "asked") ~> (txtest = "held" \/ kill_all_flag)

\* "Then stop all processing threads so main can write any error code/message
\* and exit" (lxsys.c:746-747): kill_all gets the TX test out of its wait.
KillFreesTxTest == kill_all_flag ~> (txtest # "wait")

\* ESC: after kill_all wideband_dsp ends, whatever else goes on.
KillReturns == kill_all_flag ~> (wstat = "RETURNED")
=============================================================================
