----------------------------- MODULE ScreenProof -----------------------------
(***************************************************************************)
(* AtRest of ScreenControl, for every set of threads that pause the screen *)
(* thread. No thread waits for another by a lock, so the argument is about *)
(* the two flags: a claim stays in the command until its owner takes it    *)
(* back, and the screen thread does not draw between the moment its status *)
(* is IDLE and the moment it has seen the command ACTIVE.                  *)
(***************************************************************************)
EXTENDS ScreenControl, TLAPS

\* The thread has left its loop for good.
Gone == spc \in {"exit", "returned", "ended"}

Claimed(p) == ppc[p] \in {"claim", "poll", "inside", "resume"}

\* What the status says of where the screen thread is.
StatusTrue ==
  /\ status = "IDLE" => spc \in {"idle", "second", "restart", "exit"}
  /\ status \in {"RETURNED", "NOT_ACTIVE"} => spc \in {"returned", "ended"}

\* Who else may have written the command.
EndTrue ==
  /\ kill # "asleep" => kill_all_flag
  /\ stop \in {"wait", "join"} => \A p \in Pausers : ppc[p] = "out"
  /\ stop \in {"join", "done"} => kill_all_flag \/ Gone
  /\ cmd = "NOT_ACTIVE" => kill_all_flag \/ Gone

\* As long as the screen thread lives, one thread at most is on its way from
\* the test in pause_thread to the assignment in resume_thread, its claim
\* stands, and behind the wait for the status the screen is at rest.
ClaimsTrue ==
  ~kill_all_flag /\ ~Gone =>
    /\ \A p, q \in Pausers : Claimed(p) /\ Claimed(q) => p = q
    /\ \A p \in Pausers : Holding(p) => cmd = "IDLE"
    /\ \A p \in Pausers : ppc[p] \in {"inside", "resume"} => ~Drawing

IInv == TypeOK /\ StatusTrue /\ EndTrue /\ ClaimsTrue
-----------------------------------------------------------------------------
USE DEF flags, others, others2, Go

LEMMA TypeInductive ==
  /\ Init => TypeOK
  /\ TypeOK /\ [Next]_vars => TypeOK'
<1> USE DEF TypeOK, CmdFlags, StatusFlags, ScreenPcs, PauserPcs
<1>1. Init => TypeOK
  BY DEF Init
<1>2. TypeOK /\ [Next]_vars => TypeOK'
  <2> SUFFICES ASSUME TypeOK, [Next]_vars PROVE TypeOK'
    OBVIOUS
  <2>1. CASE Screen
    BY <2>1 DEF Screen, Restart, LoopTest, Draw, WakeUp, PauseTest, BecomeIdle,
                LeaveIdle, SecondTest, Exit, End
  <2>2. CASE Awake \/ StopScreen \/ Stop \/ CallKillAll \/ KillAll
    BY <2>2 DEF Awake, StopScreen, Stop, StopAgain, StopReturned, Join,
                CallKillAll, KillAll, KillFirst, KillRound
  <2>3. ASSUME NEW p \in Pausers, Pauser(p) PROVE TypeOK'
    BY <2>3 DEF Pauser, PauserStep, CallPause, Check, BusyWait, GiveUp, FatalError,
                Claim, Poll, PollAwake, Resume, SetActive
  <2>4. CASE UNCHANGED vars
    BY <2>4 DEF vars
  <2> QED
    BY <2>1, <2>2, <2>3, <2>4 DEF Next
<1> QED
  BY <1>1, <1>2

\* Every variable of ScreenControl keeps its type.
THEOREM TypeCorrect == Spec => []TypeOK
  BY TypeInductive, PTL DEF Spec
-----------------------------------------------------------------------------
\* The windows that the invariant cannot do without being closed.
Closed == "abreast" \notin Overlaps /\ "late" \notin Overlaps

LEMMA InvInitial == Init => IInv
<1> SUFFICES ASSUME Init PROVE IInv
  OBVIOUS
<1>1. TypeOK
  BY TypeInductive
<1> QED
  BY <1>1 DEF Init, IInv, StatusTrue, EndTrue, ClaimsTrue, Claimed, Holding

\* The screen thread writes its status and moves; it does not touch a command.
LEMMA ScreenPreserves ==
  ASSUME IInv, Screen
  PROVE  StatusTrue' /\ EndTrue' /\ ClaimsTrue'
<1> USE DEF IInv
<1>1. UNCHANGED others
  BY DEF Screen, Restart, LoopTest, Draw, WakeUp, PauseTest, BecomeIdle,
         LeaveIdle, SecondTest, Exit, End
<1>2. Gone => Gone'
  BY DEF Screen, Restart, LoopTest, Draw, WakeUp, PauseTest, BecomeIdle,
         LeaveIdle, SecondTest, Exit, End, Gone
<1>3. StatusTrue'
  BY DEF Screen, Restart, LoopTest, Draw, WakeUp, PauseTest, BecomeIdle,
         LeaveIdle, SecondTest, Exit, End, StatusTrue
<1>4. EndTrue'
  BY <1>1, <1>2 DEF EndTrue
<1>5. ClaimsTrue'
  <2> SUFFICES ASSUME ~kill_all_flag, ~Gone'
               PROVE  /\ \A p, q \in Pausers : Claimed(p) /\ Claimed(q) => p = q
                      /\ \A p \in Pausers : Holding(p) => cmd = "IDLE"
                      /\ \A p \in Pausers : ppc[p] \in {"inside", "resume"} => ~Drawing'
    BY <1>1 DEF ClaimsTrue, Claimed, Holding
  <2>1. /\ \A p, q \in Pausers : Claimed(p) /\ Claimed(q) => p = q
        /\ \A p \in Pausers : Holding(p) => cmd = "IDLE"
        /\ \A p \in Pausers : ppc[p] \in {"inside", "resume"} => ~Drawing
    BY <1>2 DEF ClaimsTrue
  <2>2. ASSUME NEW p \in Pausers, ppc[p] \in {"inside", "resume"} PROVE ~Drawing'
    <3>1. cmd = "IDLE" /\ ~Drawing
      BY <2>1, <2>2 DEF Holding
    <3> QED
      BY <3>1 DEF Screen, Restart, LoopTest, Draw, WakeUp, PauseTest, BecomeIdle,
                  LeaveIdle, SecondTest, Exit, End, Drawing
  <2> QED
    BY <2>1, <2>2
<1> QED
  BY <1>3, <1>4, <1>5

\* One thread passes the test, and nobody else has a claim then.
LEMMA PauserPreserves ==
  ASSUME Closed, IInv, NEW p \in Pausers, Pauser(p)
  PROVE  StatusTrue' /\ EndTrue' /\ ClaimsTrue'
<1> USE DEF IInv
<1>1. UNCHANGED <<spc, stop, kill, status, kill_all_flag>>
  BY DEF Pauser, PauserStep, CallPause, Check, BusyWait, GiveUp, FatalError,
         Claim, Poll, PollAwake, Resume, SetActive
<1>2. StatusTrue'
  BY <1>1 DEF StatusTrue
<1>3. cmd' = cmd \/ cmd' \in {"IDLE", "ACTIVE"}
  BY DEF Pauser, PauserStep, CallPause, Check, BusyWait, GiveUp, FatalError,
         Claim, Poll, PollAwake, Resume, SetActive
<1>4. stop \in {"wait", "join"} => \A q \in Pausers : ppc'[q] = "out"
  <2> SUFFICES ASSUME stop \in {"wait", "join"} PROVE FALSE
    OBVIOUS
  <2>1. ppc[p] = "out"
    BY DEF EndTrue
  <2> QED
    BY <2>1 DEF Pauser, PauserStep, CallPause, Check, BusyWait, GiveUp, FatalError,
                Claim, Poll, PollAwake, Resume, SetActive, Closed
<1>5. EndTrue'
  BY <1>1, <1>3, <1>4 DEF EndTrue, Gone
<1>6. ClaimsTrue'
  <2> SUFFICES ASSUME ~kill_all_flag, ~Gone PROVE ClaimsTrue'
    BY <1>1 DEF ClaimsTrue, Gone
  <2>0. ppc \in [Pausers -> PauserPcs]
    BY DEF TypeOK
  <2>1. /\ \A q, r \in Pausers : Claimed(q) /\ Claimed(r) => q = r
        /\ \A q \in Pausers : Holding(q) => cmd = "IDLE"
        /\ \A q \in Pausers : ppc[q] \in {"inside", "resume"} => ~Drawing
    BY DEF ClaimsTrue
  <2>2. status # "RETURNED" /\ cmd # "NOT_ACTIVE"
    BY DEF StatusTrue, EndTrue, Gone
  <2>3. CASE CallPause(p) \/ GiveUp(p) \/ FatalError(p) \/ PollAwake(p)
    BY <2>0, <2>1, <2>3, <1>1 DEF CallPause, GiveUp, FatalError, PollAwake,
                                  ClaimsTrue, Claimed, Holding, Drawing
  <2>4. CASE Check(p) \/ BusyWait(p)
    <3>1. \/ ppc' = [ppc EXCEPT ![p] = "busy"]
          \/ ppc' = [ppc EXCEPT ![p] = "claim"] /\ cmd # "IDLE"
      BY <2>2, <2>4 DEF Check, BusyWait
    <3>2. cmd' = cmd /\ \A q \in Pausers : ppc[q] # "claim"
      BY <2>4 DEF Check, BusyWait, Closed
    <3>3. cmd # "IDLE" => \A q \in Pausers : ~Claimed(q)
      BY <2>1, <3>2 DEF Claimed, Holding
    <3> QED
      BY <2>0, <2>1, <3>1, <3>2, <3>3, <1>1 DEF ClaimsTrue, Claimed, Holding, Drawing
  <2>5. CASE Claim(p)
    BY <2>0, <2>1, <2>5, <1>1 DEF Claim, ClaimsTrue, Claimed, Holding, Drawing
  <2>6. CASE Poll(p)
    <3>1. ~Drawing
      BY <2>6 DEF Poll, StatusTrue, Drawing
    <3> QED
      BY <2>0, <2>1, <2>6, <3>1, <1>1 DEF Poll, ClaimsTrue, Claimed, Holding, Drawing
  <2>7. CASE Resume(p)
    BY <2>0, <2>1, <2>7, <1>1 DEF Resume, ClaimsTrue, Claimed, Holding, Drawing
  <2>8. CASE SetActive(p)
    <3>1. \A q \in Pausers : Claimed(q) => q = p
      BY <2>1, <2>8 DEF SetActive, Claimed
    <3> QED
      BY <2>0, <2>1, <2>8, <3>1, <1>1 DEF SetActive, ClaimsTrue, Claimed, Holding, Drawing
  <2> QED
    BY <2>3, <2>4, <2>5, <2>6, <2>7, <2>8 DEF Pauser, PauserStep
<1> QED
  BY <1>2, <1>5, <1>6

\* X and ESC write the command over a claim only if nobody holds one or
\* kill_all_flag is up.
LEMMA EndPreserves ==
  ASSUME Closed, IInv, Awake \/ StopScreen \/ Stop \/ CallKillAll \/ KillAll
  PROVE  StatusTrue' /\ EndTrue' /\ ClaimsTrue'
<1> USE DEF IInv
<1>1. CASE Awake
  BY <1>1 DEF Awake, StatusTrue, EndTrue, ClaimsTrue, Gone, Claimed, Holding, Drawing
<1>2. CASE StopScreen
  BY <1>2 DEF StopScreen, Closed, StatusTrue, EndTrue, ClaimsTrue, Gone, Claimed,
              Holding, Drawing
<1>3. CASE StopAgain
  BY <1>3 DEF StopAgain, StatusTrue, EndTrue, ClaimsTrue, Gone, Claimed, Holding, Drawing
<1>4. CASE StopReturned
  BY <1>4 DEF StopReturned, StatusTrue, EndTrue, ClaimsTrue, Gone
<1>5. CASE Join
  BY <1>5 DEF Join, StatusTrue, EndTrue, ClaimsTrue, Gone
<1>6. CASE CallKillAll
  BY <1>6 DEF CallKillAll, StatusTrue, EndTrue, ClaimsTrue, Gone
<1>7. CASE KillAll
  BY <1>7 DEF KillAll, KillFirst, KillRound, StatusTrue, EndTrue, ClaimsTrue, Gone
<1> QED
  BY <1>1, <1>2, <1>3, <1>4, <1>5, <1>6, <1>7 DEF Stop

LEMMA InvInductive ==
  ASSUME Closed
  PROVE  IInv /\ [Next]_vars => IInv'
<1> SUFFICES ASSUME IInv, [Next]_vars PROVE IInv'
  OBVIOUS
<1>1. TypeOK'
  BY TypeInductive DEF IInv
<1>2. CASE UNCHANGED vars
  BY <1>1, <1>2 DEF vars, IInv, StatusTrue, EndTrue, ClaimsTrue, Gone, Claimed,
                    Holding, Drawing
<1> QED
  BY <1>1, <1>2, ScreenPreserves, PauserPreserves, EndPreserves DEF Next, IInv

\* AtRest holds for any number of threads that pause the screen thread, at
\* any pace, as long as they do not pass the test in pause_thread abreast and
\* leave it alone while it is being stopped: what pause_thread takes for the
\* answer to its command may be left over from the last pause, and yet the
\* screen thread does not draw before the command is taken back.
THEOREM AtRestAlways ==
  ASSUME Closed
  PROVE  Spec => []AtRest
<1>1. IInv => AtRest
  BY DEF IInv, ClaimsTrue, AtRest, Drawing, Gone
<1> QED
  BY <1>1, InvInitial, InvInductive, PTL DEF Spec
=============================================================================
