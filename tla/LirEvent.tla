------------------------------ MODULE LirEvent ------------------------------
(***************************************************************************)
(* The event of lxsys.c that every Linrad thread sleeps on: a flag guarded *)
(* by a mutex and a condition variable.  Setting it twice before anybody   *)
(* wakes up is the same as setting it once, and the thread that wakes up   *)
(* clears it.  lir_await_event tests the flag with an "if", not a loop, so *)
(* a spurious return of pthread_cond_wait lets the caller through with the *)
(* flag down: a module that allows that passes spurious = TRUE.            *)
(***************************************************************************)

\* lir_set_event: raise the flag of e and signal the sleeper.
SetEvent(ev, e) == [ev EXCEPT ![e] = TRUE]

\* lir_await_event may return now, ...
MayWake(ev, e, spurious) == ev[e] \/ spurious

\* ... and takes the flag down as it does.
TakeEvent(ev, e) == [ev EXCEPT ![e] = FALSE]
=============================================================================
