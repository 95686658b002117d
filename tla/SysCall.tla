------------------------------- MODULE SysCall -------------------------------
(***************************************************************************)
(* The thread SYSCALL and the threads that give it work.                   *)
(*                                                                         *)
(* Everything that opens, closes or sets hardware and may block is done by *)
(* one thread, do_syscall (ui.c).  Other threads have it done by sys_func, *)
(* which waits until the work is finished, or, where waiting would cost    *)
(* samples, by polling the same two flags from the loop that reads the     *)
(* samples (sdrip.c, afedri.c): a change of a setting is noticed by a      *)
(* counter, posted when the thread is free and collected when it is done.  *)
(***************************************************************************)
EXTENDS Naturals

CONSTANTS
  Callers,      \* threads that call sys_func; each has one job to be done
  Settings,     \* attenuation and frequency of the radio
  MaxChanges,   \* how often the user changes each setting: a bound for TLC
  Overlaps      \* what may overlap, see below

(***************************************************************************)
(* "crowd":  a thread takes the thread SYSCALL for free while the command  *)
(*           of another has been, or is just being, given and has not been *)
(*           seen (status is still SEM_WAIT): sys_func looks at the status *)
(*           only (ui.c:176)                                               *)
(* "retune": the user changes a setting while the last change of it is     *)
(*           carried out, which takes 0.1 or 0.2 s (sdrip.c:583-589)       *)
(* "leave":  the input thread is stopped before it has collected           *)
(***************************************************************************)
AllOverlaps == {"crowd", "retune", "leave"}

Jobs == Callers \cup Settings

ASSUME SysCallAssumption ==
  /\ Callers \cap Settings = {}
  /\ {"ACTIVE", "KILL"} \cap Jobs = {}
  /\ MaxChanges \in Nat
  /\ Overlaps \subseteq AllOverlaps

VARIABLES
  pc, job,          \* where do_syscall is, and the case of its switch
  cpc,              \* where each caller is in sys_func
  performed,        \* the callers whose job has been done since they called
  input,            \* the input thread: out, in its loop, or about to set the event there
  wanted,           \* sdr_att_counter, sdr_nco_counter: the user's settings
  local,            \* local_att_counter, local_nco_counter
  applied,          \* history: the settings the hardware has been sent
  main,             \* the end of the program
  cmd, status,      \* thread_command_flag and thread_status_flag[THREAD_SYSCALL]
  event,            \* the flag of EVENT_SYSCALL
  kill_all_flag

radio == <<input, wanted, local, applied>>
flags == <<cmd, status, event>>
vars  == <<pc, job, cpc, performed, radio, main, flags, kill_all_flag>>

Pcs       == {"begin", "top", "wait", "switch", "work", "idle", "asleep", "returned"}
CallerPcs == {"out", "ready", "post", "wake", "reply", "release", "signal"}

TypeOK ==
  /\ pc \in Pcs /\ job \in Jobs \cup {"ACTIVE"}
  /\ cpc \in [Callers -> CallerPcs]
  /\ performed \subseteq Callers
  /\ input \in {"out", "in", "signal"}
  /\ wanted \in [Settings -> 0 .. MaxChanges]
  /\ local \in [Settings -> 0 .. MaxChanges]
  /\ applied \in [Settings -> 0 .. MaxChanges]
  /\ main \in {"run", "stop", "done"}
  /\ cmd \in Jobs \cup {"ACTIVE", "KILL"}
  /\ status \in {"INIT", "ACTIVE", "SEM_WAIT", "SEMCLEAR", "IDLE", "RETURNED"}
  /\ event \in BOOLEAN /\ kill_all_flag \in BOOLEAN

\* The thread has just been created; the input does not run.
Init ==
  /\ pc = "begin" /\ job = "ACTIVE"
  /\ cpc = [c \in Callers |-> "out"] /\ performed = {}
  /\ input = "out"
  /\ wanted = [s \in Settings |-> 0] /\ local = wanted /\ applied = wanted
  /\ main = "run"
  /\ cmd = "ACTIVE" /\ status = "INIT" /\ event = FALSE
  /\ kill_all_flag = FALSE

-----------------------------------------------------------------------------
(* do_syscall                                                               *)

others == <<cpc, input, wanted, local, main, cmd, kill_all_flag>>

Begin ==
  /\ pc = "begin" /\ pc' = "top" /\ status' = "ACTIVE"
  /\ UNCHANGED <<others, job, performed, applied, event>>

Top ==
  /\ pc = "top"
  /\ IF cmd # "KILL"
     THEN pc' = "wait" /\ status' = "SEM_WAIT"
     ELSE pc' = "returned" /\ status' = "RETURNED"
  /\ UNCHANGED <<others, job, performed, applied, event>>

WakeUp ==
  /\ pc = "wait" /\ event
  /\ pc' = "switch" /\ status' = "SEMCLEAR" /\ event' = FALSE
  /\ UNCHANGED <<others, job, performed, applied>>

\* Work on a setting begins with reading what the user wants; an event that
\* is left over from the last command finds nothing to do.
Switch ==
  /\ pc = "switch"
  /\ IF cmd \in Jobs
     THEN /\ pc' = "work" /\ job' = cmd
          /\ applied' = [s \in Settings |-> IF s = cmd THEN wanted[s] ELSE applied[s]]
     ELSE pc' = "top" /\ UNCHANGED <<job, applied>>
  /\ UNCHANGED <<others, performed, status, event>>

\* Mutant: the work is reported as a number that no flag stands for.
FinishOdd ==
  /\ pc = "work"
  /\ pc' = "idle" /\ status' = job
  /\ performed' = performed \cup (Callers \cap {job})
  /\ UNCHANGED <<others, job, applied, event>>

Finish ==
  /\ pc = "work"
  /\ pc' = "idle" /\ status' = "IDLE"
  /\ performed' = performed \cup (Callers \cap {job})
  /\ UNCHANGED <<others, job, applied, event>>

\* Mutant: only the caller ends the wait.
IdleTestNoKill ==
  /\ pc = "idle"
  /\ pc' = IF cmd = "ACTIVE" THEN "top" ELSE "asleep"
  /\ UNCHANGED <<others, job, performed, applied, status, event>>

\* Wait until the result has been taken note of.
IdleTest ==
  /\ pc = "idle"
  /\ pc' = IF cmd \in {"KILL", "ACTIVE"} THEN "top" ELSE "asleep"
  /\ UNCHANGED <<others, job, performed, applied, status, event>>

IdleWake ==
  /\ pc = "asleep" /\ event
  /\ pc' = "idle" /\ event' = FALSE
  /\ UNCHANGED <<others, job, performed, applied, status>>

DoSyscall == Begin \/ Top \/ WakeUp \/ Switch \/ Finish \/ IdleTest \/ IdleWake
-----------------------------------------------------------------------------
(* sys_func                                                                 *)

others2 == <<pc, job, radio, main, status, kill_all_flag>>

Go(c, from, to) == cpc[c] = from /\ cpc' = [cpc EXCEPT ![c] = to]

\* Nobody else's command is under way.
Quiet == cmd = "ACTIVE" /\ \A c \in Callers : cpc[c] \notin {"post", "wake"}

Call(c) ==
  /\ main = "run"
  /\ Go(c, "out", "ready")
  /\ performed' = performed \ {c}
  /\ UNCHANGED <<others2, cmd, event>>

Ready(c) ==
  /\ status = "SEM_WAIT" /\ ("crowd" \in Overlaps \/ Quiet)
  /\ Go(c, "ready", "post")
  /\ UNCHANGED <<others2, performed, cmd, event>>

Post(c) ==
  /\ Go(c, "post", "wake")
  /\ cmd' = c
  /\ UNCHANGED <<others2, performed, event>>

Wake(c) ==
  /\ Go(c, "wake", "reply")
  /\ event' = TRUE
  /\ UNCHANGED <<others2, performed, cmd>>

\* Mutant: that the thread has left its wait is taken for the result.
ReplyEarly(c) ==
  /\ status # "SEM_WAIT"
  /\ Go(c, "reply", "release")
  /\ UNCHANGED <<others2, performed, cmd, event>>

Reply(c) ==
  /\ status = "IDLE"
  /\ Go(c, "reply", "release")
  /\ UNCHANGED <<others2, performed, cmd, event>>

Release(c) ==
  /\ Go(c, "release", "signal")
  /\ cmd' = "ACTIVE"
  /\ UNCHANGED <<others2, performed, event>>

\* Mutant: the thread is not woken after the command.
SignalForgotten(c) ==
  /\ Go(c, "signal", "out")
  /\ UNCHANGED <<others2, performed, cmd, event>>

Signal(c) ==
  /\ Go(c, "signal", "out")
  /\ event' = TRUE
  /\ UNCHANGED <<others2, performed, cmd>>

\* Neither wait survives kill_all.
Abandon(c) ==
  /\ kill_all_flag
  /\ \/ Go(c, "ready", "out") /\ status # "SEM_WAIT"
     \/ Go(c, "reply", "out") /\ status # "IDLE"
  /\ UNCHANGED <<others2, performed, cmd, event>>

CallerStep(c) ==
  \/ Ready(c) \/ Post(c) \/ Wake(c) \/ Reply(c) \/ Release(c) \/ Signal(c)
  \/ Abandon(c)
-----------------------------------------------------------------------------
(* The input thread of a radio on the network                               *)

others3 == <<pc, job, cpc, performed, main, status, kill_all_flag>>

\* Its start sends the radio the present settings.
StartInput ==
  /\ input = "out" /\ main = "run" /\ ~kill_all_flag
  /\ input' = "in" /\ local' = wanted /\ applied' = wanted
  /\ UNCHANGED <<others3, wanted, cmd, event>>

ChangeSetting(s) ==
  /\ wanted[s] < MaxChanges
  /\ "retune" \in Overlaps \/ cmd # s
  /\ wanted' = [wanted EXCEPT ![s] = @ + 1]
  /\ UNCHANGED <<others3, input, local, applied, cmd, event>>

PollPost(s) ==
  /\ input = "in" /\ local[s] # wanted[s]
  /\ status = "SEM_WAIT" /\ cmd = "ACTIVE" /\ ("crowd" \in Overlaps \/ Quiet)
  /\ cmd' = s /\ input' = "signal"
  /\ UNCHANGED <<others3, wanted, local, applied, event>>

\* Mutant: the thread is not woken to see that its result has been taken.
PollCollectUnsignalled(s) ==
  /\ input = "in" /\ local[s] # wanted[s]
  /\ status = "IDLE" /\ cmd = s
  /\ local' = [local EXCEPT ![s] = wanted[s]]
  /\ cmd' = "ACTIVE"
  /\ UNCHANGED <<others3, input, wanted, applied, event>>

PollCollect(s) ==
  /\ input = "in" /\ local[s] # wanted[s]
  /\ status = "IDLE" /\ cmd = s
  /\ local' = [local EXCEPT ![s] = wanted[s]]
  /\ cmd' = "ACTIVE" /\ input' = "signal"
  /\ UNCHANGED <<others3, wanted, applied, event>>

\* Both times the event is set behind the command.
PollSignal ==
  /\ input = "signal" /\ input' = "in" /\ event' = TRUE
  /\ UNCHANGED <<others3, wanted, local, applied, cmd>>

StopInput ==
  /\ input = "in"
  /\ "leave" \in Overlaps \/ kill_all_flag \/ cmd \notin Settings
  /\ input' = "out"
  /\ UNCHANGED <<others3, wanted, local, applied, cmd, event>>

Poll(s) == PollPost(s) \/ PollCollect(s)
-----------------------------------------------------------------------------
(* The end of the program (menu.c); kill_all leaves this thread alone       *)

others4 == <<pc, job, cpc, performed, radio, status>>

CallKillAll ==
  /\ ~kill_all_flag
  /\ kill_all_flag' = TRUE
  /\ UNCHANGED <<others4, main, cmd, event>>

StopSyscall ==
  /\ main = "run" /\ input = "out" /\ \A c \in Callers : cpc[c] = "out"
  /\ main' = "stop" /\ cmd' = "KILL" /\ event' = TRUE
  /\ UNCHANGED <<others4, kill_all_flag>>

StopAgain ==
  /\ main = "stop"
  /\ IF status = "RETURNED"
     THEN main' = "done" /\ UNCHANGED event
     ELSE event' = TRUE /\ UNCHANGED main
  /\ UNCHANGED <<others4, cmd, kill_all_flag>>
-----------------------------------------------------------------------------
Next ==
  \/ DoSyscall
  \/ \E c \in Callers : Call(c) \/ CallerStep(c)
  \/ StartInput \/ StopInput \/ PollSignal
  \/ \E s \in Settings : ChangeSetting(s) \/ Poll(s)
  \/ CallKillAll \/ StopSyscall \/ StopAgain

Spec == Init /\ [][Next]_vars

\* Every thread runs.  The waits for SEM_WAIT sample a flag every 3 ms, or at
\* every packet, and commands come seconds apart: a flag that is up again and
\* again is seen.
FairSpec ==
  /\ Spec
  /\ WF_vars(DoSyscall) /\ WF_vars(StopAgain)
  /\ \A c \in Callers : WF_vars(CallerStep(c)) /\ SF_vars(Ready(c))
  /\ WF_vars(PollSignal)
  /\ \A s \in Settings : WF_vars(PollCollect(s)) /\ SF_vars(PollPost(s))
-----------------------------------------------------------------------------
(* Properties                                                               *)

\* When sys_func returns, what it was called for has been done: what its
\* callers go on with (snd[RXDA].open_flag, rxad_status) rests on that.
Served == \A c \in Callers : cpc[c] \in {"release", "signal"} => c \in performed

\* The thread works for a caller only while that one waits for it: nothing is
\* opened or closed twice, or when the caller has gone on.
WorksForCaller ==
  pc = "work" /\ job \in Callers => cpc[job] \in {"wake", "reply"} \/ kill_all_flag

\* A call comes to its end, whatever the other threads have done.
CallReturns == \A c \in Callers : cpc[c] = "ready" ~> cpc[c] = "out"

\* "Left click this box, then enter a new center frequency in MHz for your
\* receiver hardware" (help.lir:702): a new setting gets to the hardware, if
\* the input goes on.  One that is made while the last is being sent does not: when
\* that is done both count as done (sdrip.c:851).
SettingsReachHardware ==
  \A s \in Settings :
    input # "out" /\ applied[s] # wanted[s] ~>
      applied[s] = wanted[s] \/ input = "out" \/ kill_all_flag

\* The program ends, also after a fatal error in the middle of a call.
StopReturns == main = "stop" ~> main = "done"
=============================================================================
