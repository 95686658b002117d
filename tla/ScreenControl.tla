---------------------------- MODULE ScreenControl ----------------------------
(***************************************************************************)
(* How the other threads of Linrad pause, resume and stop the thread that  *)
(* draws: thread_screen (screen.c), pause_thread, resume_thread,           *)
(* linrad_thread_stop_and_join and kill_all (ui.c).                        *)
(*                                                                         *)
(* Whoever wants to draw a whole window pauses the screen thread, draws    *)
(* and resumes it: the keyboard thread, the mouse thread, the DSP threads. *)
(* All of it goes through two plain variables, the command the others      *)
(* write and the status the screen thread writes.  One action is one       *)
(* access, or a group of accesses between which the others see no change.  *)
(***************************************************************************)
EXTENDS Naturals

CONSTANTS
  Pausers,       \* threads that pause the screen thread
  Overlaps       \* windows of a few instructions that may be hit, see below

(***************************************************************************)
(* "abreast": a thread tests the command in pause_thread between another   *)
(*            thread's test and its assignment (ui.c:508-522)              *)
(* "hasty":   a pause falls between the two reads of the command by which  *)
(*            the screen thread leaves its pause (screen.c:2933, 2938), or *)
(*            a resume between those by which it enters it (2438, 2930)    *)
(* "late":    a thread pauses the screen thread while it is being stopped  *)
(*            (menu.c:908 stops it before the DSP threads)                 *)
(***************************************************************************)
AllOverlaps == {"abreast", "hasty", "late"}

ASSUME OverlapAssumption == Overlaps \subseteq AllOverlaps

VARIABLES
  spc,             \* where thread_screen is
  ppc,             \* where each pauser is, in pause_thread or outside
  stop,            \* where normal_rx_routine is in stopping the screen
  kill,            \* where the thread kill_all is
  cmd,             \* thread_command_flag[THREAD_SCREEN]
  status,          \* thread_status_flag[THREAD_SCREEN]
  event,           \* the flag of EVENT_SCREEN
  kill_all_flag

flags == <<cmd, status, event, kill_all_flag>>
vars  == <<spc, ppc, stop, kill, flags>>

CmdFlags    == {"NOT_ACTIVE", "ACTIVE", "IDLE", "KILL"}
StatusFlags == {"NOT_ACTIVE", "INIT", "ACTIVE", "IDLE", "SEM_WAIT", "RETURNED"}
ScreenPcs   == {"restart", "loop", "draw", "wait", "test", "mark", "idle",
                "second", "exit", "returned", "ended"}
PauserPcs   == {"out", "check", "busy", "claim", "poll", "lirerr", "inside",
                "resume"}

TypeOK ==
  /\ spc \in ScreenPcs
  /\ ppc \in [Pausers -> PauserPcs]
  /\ stop \in {"run", "wait", "join", "done"}
  /\ kill \in {"asleep", "called", "rounds", "done"}
  /\ cmd \in CmdFlags
  /\ status \in StatusFlags
  /\ event \in BOOLEAN
  /\ kill_all_flag \in BOOLEAN

\* linrad_thread_create(THREAD_SCREEN) has been called.
Init ==
  /\ spc = "restart"
  /\ ppc = [p \in Pausers |-> "out"]
  /\ stop = "run" /\ kill = "asleep"
  /\ cmd = "ACTIVE" /\ status = "INIT"
  /\ event = FALSE /\ kill_all_flag = FALSE

-----------------------------------------------------------------------------
(* thread_screen                                                            *)

others == <<ppc, stop, kill, cmd, kill_all_flag>>   \* what it never writes

\* Mutant: the thread runs again, and its status still says that it is idle.
RestartUnmarked ==
  /\ spc = "restart"
  /\ spc' = "loop"
  /\ UNCHANGED <<others, status, event>>

Restart ==
  /\ spc = "restart"
  /\ status' = "ACTIVE" /\ spc' = "loop"
  /\ UNCHANGED <<others, event>>

LoopTest ==
  /\ spc = "loop"
  /\ spc' = IF cmd = "ACTIVE" THEN "draw" ELSE "test"
  /\ UNCHANGED <<others, status, event>>

\* The body of the loop.  It looks at kill_all_flag after every long part.
Draw ==
  /\ spc = "draw"
  /\ IF kill_all_flag
     THEN spc' = "exit" /\ UNCHANGED status
     ELSE spc' = "wait" /\ status' = "SEM_WAIT"
  /\ UNCHANGED <<others, event>>

WakeUp ==
  /\ spc = "wait" /\ event
  /\ event' = FALSE
  /\ IF kill_all_flag
     THEN spc' = "exit" /\ UNCHANGED status
     ELSE spc' = "loop" /\ status' = "ACTIVE"
  /\ UNCHANGED others

\* Out of the loop: a pause, or the end?
PauseTest ==
  /\ spc = "test"
  /\ spc' = IF cmd = "IDLE" THEN "mark" ELSE "exit"
  /\ UNCHANGED <<others, status, event>>

\* Mutant: the thread is idle and does not say so.
BecomeIdleUnseen ==
  /\ spc = "mark"
  /\ spc' = "idle"
  /\ UNCHANGED <<others, status, event>>

BecomeIdle ==
  /\ spc = "mark"
  /\ status' = "IDLE" /\ spc' = "idle"
  /\ UNCHANGED <<others, event>>

\* Mutant: only a resume ends the pause.
LeaveIdleOnResume ==
  /\ spc = "idle" /\ cmd = "ACTIVE"
  /\ spc' = IF kill_all_flag THEN "exit" ELSE "second"
  /\ UNCHANGED <<others, status, event>>

LeaveIdle ==
  /\ spc = "idle" /\ cmd # "IDLE"
  /\ spc' = IF kill_all_flag THEN "exit" ELSE "second"
  /\ UNCHANGED <<others, status, event>>

\* Mutant: the test for a resume is the wrong way round.
SecondTestInverted ==
  /\ spc = "second"
  /\ spc' = IF cmd = "ACTIVE" THEN "exit" ELSE "restart"
  /\ UNCHANGED <<others, status, event>>

\* The command is read again to find out why the pause ended.
SecondTest ==
  /\ spc = "second"
  /\ spc' = IF cmd = "ACTIVE" THEN "restart" ELSE "exit"
  /\ UNCHANGED <<others, status, event>>

Exit ==
  /\ spc = "exit"
  /\ status' = "RETURNED" /\ spc' = "returned"
  /\ UNCHANGED <<others, event>>

\* Mutant: the thread ends without being allowed to, with a flag of its own.
EndUnknown ==
  /\ spc = "returned"
  /\ spc' = "ended" /\ status' = "ENDED"
  /\ UNCHANGED <<others, event>>

End ==
  /\ spc = "returned" /\ cmd = "NOT_ACTIVE"
  /\ spc' = "ended"
  /\ UNCHANGED <<others, status, event>>

Screen ==
  \/ Restart \/ LoopTest \/ Draw \/ WakeUp
  \/ PauseTest \/ BecomeIdle \/ LeaveIdle \/ SecondTest \/ Exit \/ End

\* awake_screen by the input and the DSP threads, ten times a second or more.
Awake ==
  /\ event' = TRUE
  /\ UNCHANGED <<spc, ppc, stop, kill, cmd, status, kill_all_flag>>
-----------------------------------------------------------------------------
(* A thread that pauses the screen thread, draws, and resumes it            *)

others2 == <<spc, stop, kill, status, kill_all_flag>>

Go(p, from, to) == ppc[p] = from /\ ppc' = [ppc EXCEPT ![p] = to]

CallPause(p) ==
  /\ "late" \in Overlaps \/ stop \in {"run", "done"}
  /\ Go(p, "out", "check")
  /\ UNCHANGED <<others2, cmd, event>>

\* The tests at the top of pause_thread.  A thread that need not be paused
\* counts as paused.
Check(p) ==
  /\ "abreast" \in Overlaps \/ \A q \in Pausers : ppc[q] # "claim"
  /\ Go(p, "check",
        IF cmd = "NOT_ACTIVE" \/ status = "RETURNED" \/ kill_all_flag
        THEN "inside" ELSE IF cmd = "IDLE" THEN "busy" ELSE "claim")
  /\ UNCHANGED <<others2, cmd, event>>

\* Somebody else has paused the thread: wait for half a second at most.
BusyWait(p) ==
  /\ cmd # "IDLE" \/ kill_all_flag
  /\ "abreast" \in Overlaps \/ \A q \in Pausers : ppc[q] # "claim"
  /\ Go(p, "busy", IF kill_all_flag THEN "inside" ELSE "claim")
  /\ UNCHANGED <<others2, cmd, event>>

GiveUp(p) ==
  /\ cmd = "IDLE" /\ ~kill_all_flag
  /\ Go(p, "busy", "lirerr")
  /\ UNCHANGED <<others2, cmd, event>>

\* lirerr(1224) wakes the thread kill_all and waits for it.
FatalError(p) ==
  /\ kill_all_flag
  /\ Go(p, "lirerr", "inside")
  /\ UNCHANGED <<others2, cmd, event>>

Claim(p) ==
  /\ "hasty" \in Overlaps \/ spc # "second"
  /\ Go(p, "claim", "poll")
  /\ cmd' = "IDLE"
  /\ UNCHANGED <<others2, event>>

Poll(p) ==
  /\ status = "IDLE" \/ kill_all_flag
  /\ Go(p, "poll", "inside")
  /\ UNCHANGED <<others2, cmd, event>>

\* The screen thread sleeps on its event and would not see the command.
PollAwake(p) ==
  /\ ppc[p] = "poll" /\ status = "SEM_WAIT" /\ ~kill_all_flag
  /\ event' = TRUE
  /\ UNCHANGED <<others2, ppc, cmd>>

\* resume_thread: test, then assign.
Resume(p) ==
  /\ Go(p, "inside", IF cmd # "IDLE" \/ kill_all_flag THEN "out" ELSE "resume")
  /\ UNCHANGED <<others2, cmd, event>>

SetActive(p) ==
  /\ "hasty" \in Overlaps \/ spc # "test"
  /\ Go(p, "resume", "out")
  /\ cmd' = "ACTIVE"
  /\ UNCHANGED <<others2, event>>

PauserStep(p) ==
  \/ Check(p) \/ BusyWait(p) \/ GiveUp(p) \/ FatalError(p)
  \/ Claim(p) \/ Poll(p) \/ PollAwake(p) \/ Resume(p) \/ SetActive(p)

Pauser(p) == CallPause(p) \/ PauserStep(p)
-----------------------------------------------------------------------------
(* X: normal_rx_routine stops the screen thread                             *)

StopScreen ==
  /\ stop = "run"
  /\ "late" \in Overlaps \/ \A p \in Pausers : ppc[p] = "out"
  /\ IF cmd = "NOT_ACTIVE"
     THEN kill_all_flag /\ stop' = "done" /\ UNCHANGED <<cmd, event>>
     ELSE stop' = "wait" /\ cmd' = "KILL" /\ event' = TRUE
  /\ UNCHANGED <<spc, ppc, kill, status, kill_all_flag>>

\* The post is repeated, the command is not.
StopAgain ==
  /\ stop = "wait" /\ status # "RETURNED"
  /\ event' = TRUE
  /\ UNCHANGED <<spc, ppc, stop, kill, cmd, status, kill_all_flag>>

StopReturned ==
  /\ stop = "wait" /\ status = "RETURNED"
  /\ stop' = "join" /\ cmd' = "NOT_ACTIVE"
  /\ UNCHANGED <<spc, ppc, kill, status, event, kill_all_flag>>

Join ==
  /\ stop = "join" /\ spc = "ended"
  /\ stop' = "done" /\ status' = "NOT_ACTIVE"
  /\ UNCHANGED <<spc, ppc, kill, cmd, event, kill_all_flag>>

Stop == StopAgain \/ StopReturned \/ Join
-----------------------------------------------------------------------------
(* ESC or a fatal error: thread_kill_all                                    *)

CallKillAll ==
  /\ kill = "asleep"
  /\ kill' = "called" /\ kill_all_flag' = TRUE
  /\ UNCHANGED <<spc, ppc, stop, cmd, status, event>>

KillFirst ==
  /\ kill = "called"
  /\ IF cmd = "NOT_ACTIVE"
     THEN kill' = "done" /\ UNCHANGED <<cmd, event>>
     ELSE kill' = "rounds" /\ cmd' = "KILL" /\ event' = TRUE
  /\ UNCHANGED <<spc, ppc, stop, status, kill_all_flag>>

\* Mutant: kill_all repeats its posts but not the command.
KillRoundOnce ==
  /\ kill = "rounds"
  /\ IF status \in {"RETURNED", "NOT_ACTIVE"}
     THEN kill' = "done" /\ cmd' = "NOT_ACTIVE" /\ UNCHANGED event
     ELSE event' = TRUE /\ UNCHANGED <<kill, cmd>>
  /\ UNCHANGED <<spc, ppc, stop, status, kill_all_flag>>

\* Here the command is repeated, too, until the thread has returned.
KillRound ==
  /\ kill = "rounds"
  /\ IF cmd = "NOT_ACTIVE" \/ status \in {"RETURNED", "NOT_ACTIVE"}
     THEN kill' = "done" /\ cmd' = "NOT_ACTIVE" /\ UNCHANGED event
     ELSE cmd' = "KILL" /\ event' = TRUE /\ UNCHANGED kill
  /\ UNCHANGED <<spc, ppc, stop, status, kill_all_flag>>

KillAll == KillFirst \/ KillRound
-----------------------------------------------------------------------------
Next ==
  \/ Screen \/ Awake
  \/ \E p \in Pausers : Pauser(p)
  \/ StopScreen \/ Stop
  \/ CallKillAll \/ KillAll

Spec == Init /\ [][Next]_vars

\* Every thread runs; the input posts the screen thread; a thread that has
\* paused it comes to an end with its drawing; a fatal error is acted upon.
\* Nobody has to press X or ESC, or to pause anything.  The tests are strongly
\* fair: the wait for another pauser is counted and ends even if that one
\* keeps coming back, and a window that is not hit is nothing to wait for.
FairSpec ==
  /\ Spec
  /\ WF_vars(Screen) /\ WF_vars(Awake) /\ WF_vars(Stop) /\ WF_vars(KillAll)
  /\ \A p \in Pausers :
       WF_vars(PauserStep(p)) /\ SF_vars(Check(p) \/ BusyWait(p) \/ GiveUp(p))
  /\ WF_vars((\E p \in Pausers : ppc[p] = "lirerr") /\ CallKillAll)
-----------------------------------------------------------------------------
(* Properties                                                               *)

Drawing    == spc \in {"draw", "wait"}   \* may write to the screen
Holding(p) == ppc[p] \in {"poll", "inside", "resume"}

\* While a thread that has called pause_thread draws, the screen thread does
\* not: neither a stale status nor a pause that comes before the end of the
\* last one has been noticed lets a caller through too early.
AtRest ==
  \A p \in Pausers : ppc[p] \in {"inside", "resume"} /\ ~kill_all_flag => ~Drawing

\* "Attempt to pause a thread that was already paused" is an error
\* (errors.lir:610): two threads never both have it paused.  Two that pass the
\* test for it (ui.c:508) abreast do, and nobody reports it.
OnePauser ==
  \A p, q \in Pausers :
    Holding(p) /\ Holding(q) /\ ~kill_all_flag /\ stop = "run" => p = q

\* Who calls pause_thread gets to draw, also when it has to wait for another
\* thread, and whatever becomes of the screen thread meanwhile.
PauseReturns == \A p \in Pausers : ppc[p] = "check" ~> ppc[p] = "inside"

\* "We arrive here at least 10 times per second" (screen.c:2440): the screen
\* is drawn again and again by its thread or by one that has paused it, until
\* X or ESC.  In particular no pause makes the thread give up.
KeepsDrawing ==
  []<>(spc = "draw" \/ stop # "run" \/ kill_all_flag
         \/ \E p \in Pausers : ppc[p] = "inside")

\* X ends the screen thread, whether it is drawing, asleep or just leaving a
\* pause, and with kill_all in between.
StopReturns == stop = "wait" ~> stop = "done"

\* "X = Exit from current mode to menu" (help.lir:13), whatever thread pauses or
\* resumes the screen thread at that time.
XEnds == stop = "wait" ~> stop = "done" \/ kill_all_flag

\* kill_all gets hold of the screen thread even if a thread that is about to
\* pause or to resume it overwrites the command.
KillReturns == kill = "called" ~> kill = "done"
=============================================================================
