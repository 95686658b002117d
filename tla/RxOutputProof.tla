----------------------------- MODULE RxOutputProof -----------------------------
(***************************************************************************)
(* StartsFilled, AtRest and NoError of RxOutput, each with the windows     *)
(* that have to stay closed for it and no others.  rx_output and           *)
(* narrowband_dsp share the baseband buffers without a lock; what keeps    *)
(* them apart is that only narrowband_dsp can take rx_output out of its    *)
(* wait, since nothing but the command ACTIVE leads from there to the      *)
(* loudspeaker, and narrowband_dsp gives it only with buffers that are     *)
(* filled.                                                                 *)
(***************************************************************************)
EXTENDS RxOutput, TLAPS

NoAgain == "again" \notin Overlaps
NoEarly == "early" \notin Overlaps
NoLate  == "late"  \notin Overlaps
NoSlow  == "slow"  \notin Overlaps

Leaving == {"failed", "exit", "returned", "ended"}

\* rx_output does not play, and as long as it is not told to, it never will.
Silent == ~Playing /\ (cmd = "ACTIVE" => rpc \in {"init", "open", "hold", "stop"} \cup Leaving)

\* It is in its wait for EVENT_RX_START_DA, or goes round it, or is on its way out.
Parked ==
  /\ rpc \in {"semwait", "semtest", "decide"} \cup Leaving
  /\ cmd = "ACTIVE" => rpc \in Leaving

\* narrowband_dsp has been asked for a reset, or does a mouse task.
Resetting == npc \in {"control", "pause", "poll", "post", "semwait", "dasem", "halt", "sizes",
                      "halt2", "memory", "clear"}

\* rx_output has been told to start, and does not play yet.
Told == rpc = "resume" \/ (cmd = "ACTIVE" /\ rpc \in {"semwait", "semtest", "decide"})

StartsUp == (new_baseb_flag = 1 /\ npc \in {"process", "flag"}) \/ npc \in {"inwait", "start"} \/ Told

\* What the status SEMCLEAR tells, and that ACTIVE is not given to one that pauses.
OutputTrue ==
  /\ status = "SEMCLEAR" => rpc \in {"semwait", "semtest", "decide", "resume", "exit"}
  /\ cmd = "ACTIVE" => rpc # "idle"
  /\ mpc = "create" => rpc = "none"

\* The buffers are complete whenever rx_output may play.
FilledTrue ==
  /\ new_baseb_flag # 0 => Silent
  /\ new_baseb_flag > 0 \/ npc \in {"dasem", "start"} => Parked
  /\ npc = "inwait" => new_baseb_flag = 1
  /\ npc = "start"  => new_baseb_flag = 0

\* A reset does not begin, and is not asked for, between the last look at the
\* counter and the first sample played.
ResetTrue == (Resetting => ~Told) /\ (StartsUp => ~reset)

IInv == TypeOK /\ OutputTrue /\ FilledTrue /\ ResetTrue

\* What AtRest needs beyond that: narrowband_dsp is left alone during the start.
Waiting == npc \in {"top", "mouse", "check", "process", "flag", "exit", "returned", "ended"}

EarlyTrue == ~all_threads_started => new_baseb_flag = -1 /\ ~reset /\ Waiting

RestTrue == npc \in {"sizes", "halt2", "memory", "clear"} => Silent

\* What NoError needs beyond that: the steps of both threads are in time with
\* each other, until kill_all.
Parks  == cmd = "SEMCLEAR" /\ rpc = "semwait" /\ status = "SEMCLEAR" /\ ~start
Plays  == cmd = "ACTIVE" /\ rpc \in {"play", "bwait"} /\ status = "ACTIVE" /\ ~start
Starts == /\ cmd = "ACTIVE" /\ status = "SEMCLEAR"
          /\ (rpc = "semwait" /\ start) \/ (rpc \in {"semtest", "decide", "resume"} /\ ~start)
Sleeps == cmd = "ACTIVE" /\ rpc = "semwait" /\ status = "SEMCLEAR" /\ ~start
Pauses == cmd = "IDLE" /\ rpc \in {"play", "bwait", "stop"} /\ status = "ACTIVE" /\ ~start
Opens  == cmd = "IDLE" /\ rpc \in {"open", "hold", "stop"} /\ status = "ACTIVE" /\ ~start
Idles  == cmd = "IDLE" /\ rpc = "idle" /\ status = "IDLE" /\ ~start
Clears == /\ cmd = "SEMCLEAR" /\ ~start
          /\ (rpc \in {"idle", "semtest"} /\ status = "IDLE") \/ (rpc = "semwait" /\ status = "SEMCLEAR")

\* The start: the main thread leads rx_output to its wait.
StartTrue ==
  ~kill_all_flag =>
    /\ all_threads_started <=> mpc \notin {"create", "active", "idlewait", "semwait"}
    /\ mpc # "failed"
    /\ ~all_threads_started => ~start
    /\ mpc = "active" => /\ cmd = "ACTIVE"
                         /\ (rpc = "init" /\ status = "INIT") \/ (rpc \in {"open", "hold"} /\ status = "ACTIVE")
    /\ mpc = "idlewait" => Idles \/ Opens
    /\ mpc = "semwait" => Clears

\* From then on, the steps of a reset.
StepsTrue ==
  ~kill_all_flag /\ mpc = "run" =>
    /\ new_baseb_flag # 0 => Parks
    /\ npc \in {"dasem", "sizes", "halt2", "memory", "clear", "start"} => Parks
    /\ npc = "signal" => Sleeps
    /\ npc \in {"control", "halt"} => Parks \/ Plays
    /\ npc = "pause" => Plays
    /\ npc = "poll" => Idles \/ Pauses
    /\ npc = "post" => Idles
    /\ npc = "semwait" => Clears
    /\ npc \in {"top", "mouse", "check", "process", "flag", "inwait"} => Parks \/ Starts \/ Plays

\* The stop: nothing is asked for any more.
StopTrue == ~kill_all_flag /\ Stopping => new_baseb_flag <= 0 /\ ~reset /\ Waiting
-----------------------------------------------------------------------------
(* Types                                                                    *)

USE DEF output, events, narrow, global, r_same, others, n_same, signal, context, m_same,
        narrow_same, k_same, R, N, M

Kill == KillAll \/ KillOutput \/ KillNarrowband

LEMMA TypeInductive ==
  /\ Init => TypeOK
  /\ TypeOK /\ [Next]_vars => TypeOK'
<1> USE DEF TypeOK, CmdFlags, StatusFlags
<1>1. Init => TypeOK
  <2>1. -1 \in -1 .. 3
    OBVIOUS
  <2> QED
    BY <2>1 DEF Init
<1>2. ASSUME TypeOK, RxOut \/ DaSyncError PROVE TypeOK'
  <2>1. CASE Begin \/ Open \/ Hold \/ Stop \/ Idle \/ SemTest
    BY <1>2, <2>1 DEF Begin, Open, Hold, Stop, Idle, SemTest
  <2>2. CASE SemWait \/ Decide \/ Resume \/ Play \/ BasebWait
    BY <1>2, <2>2 DEF SemWait, Decide, Resume, Play, BasebWait
  <2>3. CASE PlayFailed \/ Exit \/ End \/ DaSyncError
    BY <1>2, <2>3 DEF PlayFailed, Exit, End, DaSyncError
  <2> QED
    BY <1>2, <2>1, <2>2, <2>3 DEF RxOut
<1>3. ASSUME TypeOK, Narrowband PROVE TypeOK'
  <2>1. new_baseb_flag' \in -1 .. 3
    <3>1. \/ new_baseb_flag' \in {new_baseb_flag, -1, 3, 0}
          \/ new_baseb_flag > 1 /\ new_baseb_flag' = new_baseb_flag - 1
      BY <1>3 DEF Narrowband, Top, MouseTask, NoMouseTask, Check, Control, ControlGiveUp, Pause,
         Poll, Post, SemClear, DaSem, Halt, HaltReturns, HaltGiveUp, Sizes, Memory, Clear,
         Process, Flag, InputWait, StartOutput, SignalStart, AfterError, NExit, NEnd
    <3>2. new_baseb_flag \in -1 .. 3
      BY <1>3
    <3> HIDE DEF TypeOK
    <3> QED
      BY <3>1, <3>2
  <2>2. CASE Top \/ MouseTask \/ NoMouseTask
    BY <1>3, <2>1, <2>2 DEF Top, MouseTask, NoMouseTask
  <2>3. CASE Check
    <3>1. (npc' = "control" \/ npc' = "process") /\ reset' = FALSE
      BY <2>3 DEF Check
    <3>2. UNCHANGED <<rpc, cmd, status, start, baseb, task, back, ncmd, nstatus, selected, mpc,
                      all_threads_started, kill_all_flag, lirerr>>
      BY <2>3 DEF Check
    <3>3. npc' \in {"top", "mouse", "check", "control", "pause", "poll", "post", "semwait",
                    "dasem", "halt", "sizes", "halt2", "memory", "clear", "process", "flag",
                    "inwait", "start", "signal", "error", "exit", "returned", "ended"}
      BY <3>1
    <3>4. reset' \in BOOLEAN
      BY <3>1
    <3> QED
      BY <1>3, <2>1, <3>2, <3>3, <3>4
  <2>4. CASE Control \/ ControlGiveUp
    BY <1>3, <2>1, <2>4 DEF Control, ControlGiveUp, Errors
  <2>5. CASE Pause \/ Poll \/ Post
    BY <1>3, <2>1, <2>5 DEF Pause, Poll, Post
  <2>6. CASE DaSem
    BY <1>3, <2>1, <2>6 DEF DaSem
  <2>7. CASE Halt
    BY <1>3, <2>1, <2>7 DEF Halt, HaltReturns
  <2>8. CASE HaltGiveUp
    BY <1>3, <2>1, <2>8 DEF HaltGiveUp, HaltReturns, Errors
  <2>9. CASE SemClear
    <3>1. Onward \in {"dasem", "sizes", "memory"}
      BY DEF Onward
    <3>2. reset' \in BOOLEAN
      BY <1>3, <2>9 DEF SemClear
    <3> QED
      BY <1>3, <2>1, <2>9, <3>1, <3>2 DEF SemClear
  <2>10. CASE Sizes \/ Memory \/ Clear \/ Process \/ InputWait
    BY <1>3, <2>1, <2>10 DEF Sizes, Memory, Clear, Process, InputWait
  <2>11. CASE Flag
    BY <1>3, <2>1, <2>11 DEF Flag
  <2>12. CASE StartOutput \/ SignalStart \/ AfterError \/ NExit \/ NEnd
    BY <1>3, <2>1, <2>12 DEF StartOutput, SignalStart, AfterError, NExit, NEnd
  <2> QED
    BY <1>3, <2>2, <2>5, <2>9, <2>10, <2>11, <2>12, <2>3, <2>4, <2>6, <2>7, <2>8
       DEF Narrowband
<1>4. ASSUME TypeOK, Main \/ UserExit PROVE TypeOK'
  BY <1>4 DEF Errors, Main, UserExit, Create, SeenActive, SeenIdle, IdleGiveUp, SeenSemClear,
     StartFails, StopOutput, StopAgain, JoinOutput, StopNarrowband
<1>5. ASSUME TypeOK, AskReset \/ Kill PROVE TypeOK'
  BY <1>5 DEF AskReset, Kill, KillAll, KillOutput, KillNarrowband
<1>6. ASSUME TypeOK, UNCHANGED vars PROVE TypeOK'
  BY <1>6 DEF vars
<1>7. ASSUME TypeOK, TooSlow PROVE TypeOK'
  BY <1>7 DEF TooSlow, PlayTooSlow, PauseGiveUp, FillTooSlow, Errors
<1> QED
  BY <1>1, <1>2, <1>3, <1>4, <1>5, <1>6, <1>7 DEF Next, Kill

\* Every variable keeps its type, with all windows open.
THEOREM TypeCorrect == Spec => []TypeOK
  BY TypeInductive, PTL DEF Spec
-----------------------------------------------------------------------------
(* The output starts with filled buffers                                    *)

LEMMA InvInitial == Init => IInv
  BY TypeInductive
     DEF Init, IInv, OutputTrue, FilledTrue, ResetTrue, Silent, Parked, Resetting, StartsUp, Told,
         Playing, Leaving

\* rx_output does not leave its wait for the loudspeaker without the command.
LEMMA OutputStep ==
  ASSUME IInv, RxOut
  PROVE  OutputTrue' /\ FilledTrue' /\ ResetTrue'
<1> USE DEF IInv, TypeOK, Leaving
<1>1. UNCHANGED <<cmd, npc, new_baseb_flag, reset, mpc>>
  BY DEF RxOut, Begin, Open, Hold, Stop, Idle, SemTest, SemWait, Decide, Resume, Play, BasebWait,
     PlayFailed, Exit, End
<1>2. OutputTrue'
  BY DEF OutputTrue, RxOut, Begin, Open, Hold, Stop, Idle, SemTest, SemWait, Decide, Resume, Play,
     BasebWait, PlayFailed, Exit, End
<1>3. Silent => Silent'
  BY DEF Silent, Playing, RxOut, Begin, Open, Hold, Stop, Idle, SemTest, SemWait, Decide, Resume,
     Play, BasebWait, PlayFailed, Exit, End
<1>4. Parked => Parked'
  BY DEF Parked, RxOut, Begin, Open, Hold, Stop, Idle, SemTest, SemWait, Decide, Resume, Play,
     BasebWait, PlayFailed, Exit, End
<1>5. Told' => Told
  BY DEF OutputTrue, Told, RxOut, Begin, Open, Hold, Stop, Idle, SemTest, SemWait, Decide, Resume,
     Play, BasebWait, PlayFailed, Exit, End
<1>6. FilledTrue' /\ ResetTrue'
  BY <1>1, <1>3, <1>4, <1>5 DEF FilledTrue, ResetTrue, Resetting, StartsUp
<1> QED
  BY <1>2, <1>6

\* A status SEMCLEAR, when rx_output has not been told to start, means that it is parked.
LEMMA SemClearParks ==
  ASSUME IInv, status = "SEMCLEAR", ~Told
  PROVE  Parked /\ Silent
BY DEF IInv, OutputTrue, Told, Parked, Silent, Playing, Leaving

LEMMA NarrowbandStep ==
  ASSUME IInv, NoAgain, Narrowband
  PROVE  OutputTrue' /\ FilledTrue' /\ ResetTrue'
<1> USE DEF IInv, TypeOK
<1>1. CASE Top \/ NoMouseTask \/ Check \/ ControlGiveUp \/ HaltGiveUp
  BY <1>1 DEF Top, NoMouseTask, Check, ControlGiveUp, HaltGiveUp, HaltReturns, OutputTrue,
     FilledTrue, ResetTrue, Silent, Parked, Resetting, StartsUp, Told, Playing
<1>2. CASE MouseTask
  BY <1>2 DEF MouseTask, NoAgain, OutputTrue, FilledTrue, ResetTrue,
     Silent, Parked, Resetting, StartsUp, Told, Playing, Starting, Leaving
<1>3. CASE Control \/ SemClear
  BY <1>3, SemClearParks DEF Control, SemClear, Onward, OutputTrue, FilledTrue, ResetTrue,
     Silent, Parked, Resetting, StartsUp, Told, Playing
<1>4. CASE Pause \/ Poll \/ Post
  BY <1>4 DEF Pause, Poll, Post, OutputTrue, FilledTrue, ResetTrue,
     Silent, Parked, Resetting, StartsUp, Told, Playing
<1>5. CASE DaSem
  <2>1. Parked /\ Silent /\ ~Told
    BY <1>5 DEF DaSem, FilledTrue, ResetTrue, Resetting, Parked, Silent, Playing, Leaving
  <2>2. /\ npc' \in {"halt", "check"}
        /\ UNCHANGED <<rpc, cmd, status, mpc, reset>>
    BY <1>5 DEF DaSem
  <2>3. Parked' /\ Silent' /\ ~Told'
    BY <2>1, <2>2 DEF Parked, Silent, Playing, Told
  <2> QED
    BY <2>2, <2>3 DEF OutputTrue, FilledTrue, ResetTrue, Resetting, StartsUp
<1>6. CASE Halt \/ Sizes \/ Memory \/ Clear
  BY <1>6 DEF Halt, HaltReturns, Sizes, Memory, Clear, OutputTrue, FilledTrue, ResetTrue,
     Silent, Parked, Resetting, StartsUp, Told, Playing
<1>7. CASE Process
  BY <1>7 DEF Process, OutputTrue, FilledTrue, ResetTrue,
     Silent, Parked, Resetting, StartsUp, Told, Playing
<1>8. CASE InputWait
  <2>1. /\ Parked /\ ~reset /\ new_baseb_flag = 1
        /\ new_baseb_flag' \in {0, 1} /\ npc' \in {"exit", "top", "start"}
        /\ npc' = "start" => new_baseb_flag' = 0
        /\ UNCHANGED <<rpc, cmd, status, mpc, reset>>
    BY <1>8 DEF InputWait, FilledTrue, ResetTrue, StartsUp
  <2>2. Parked' /\ Silent'
    BY <2>1 DEF Parked, Silent, Playing, Leaving
  <2> QED
    BY <2>1, <2>2 DEF OutputTrue, FilledTrue, ResetTrue, Resetting, StartsUp
<1>9. CASE Flag
  <2>1. /\ new_baseb_flag' > 0 <=> new_baseb_flag > 0
        /\ new_baseb_flag' = 0 <=> new_baseb_flag = 0
        /\ npc' = "inwait" => new_baseb_flag = 1 /\ new_baseb_flag' = 1 /\ ~reset
        /\ npc' \in {"exit", "inwait", "top"}
        /\ UNCHANGED <<rpc, cmd, status, mpc, reset>>
    BY <1>9 DEF Flag, ResetTrue, StartsUp
  <2> QED
    BY <1>9, <2>1 DEF Flag, OutputTrue, FilledTrue, ResetTrue,
       Silent, Parked, Resetting, StartsUp, Told, Playing
<1>10. CASE StartOutput
  BY <1>10 DEF StartOutput, OutputTrue, FilledTrue, ResetTrue,
     Silent, Parked, Resetting, StartsUp, Told, Playing, Leaving
<1>11. CASE SignalStart \/ AfterError \/ NExit \/ NEnd
  BY <1>11 DEF SignalStart, AfterError, NExit, NEnd, OutputTrue, FilledTrue, ResetTrue,
     Silent, Parked, Resetting, StartsUp, Told, Playing
<1> QED
  BY <1>1, <1>2, <1>3, <1>4, <1>5, <1>6, <1>7, <1>10, <1>11, <1>9, <1>8
     DEF Narrowband

\* The other threads only take the command ACTIVE away, but for the creation.
LEMMA OthersStep ==
  ASSUME IInv, NoAgain, TooSlow \/ Main \/ UserExit \/ DaSyncError \/ AskReset \/ Kill
  PROVE  OutputTrue' /\ FilledTrue' /\ ResetTrue'
<1> USE DEF IInv, TypeOK
<1>1. CASE Create
  BY <1>1 DEF Create, OutputTrue, FilledTrue, ResetTrue, Silent, Parked, Resetting, StartsUp, Told,
     Playing, Leaving
<1>2. CASE AskReset \/ DaSyncError
  BY <1>2 DEF AskReset, DaSyncError, NoAgain, OutputTrue, FilledTrue, ResetTrue, Silent, Parked,
     Resetting, StartsUp, Told, Playing, Starting, Leaving
<1>3. ASSUME UNCHANGED <<rpc, npc, new_baseb_flag, reset, status>>, UNCHANGED cmd \/ cmd' # "ACTIVE",
             mpc' # "create"
      PROVE  OutputTrue' /\ FilledTrue' /\ ResetTrue'
  BY <1>3 DEF OutputTrue, FilledTrue, ResetTrue, Silent, Parked, Resetting, StartsUp, Told, Playing
<1>4. CASE JoinOutput
  BY <1>4 DEF JoinOutput, OutputTrue, FilledTrue, ResetTrue, Silent, Parked, Resetting, StartsUp,
     Told, Playing
<1>5. CASE (Main /\ ~Create /\ ~JoinOutput) \/ UserExit
  BY <1>3, <1>5 DEF Main, UserExit, SeenActive, SeenIdle, IdleGiveUp, SeenSemClear, StartFails,
     StopOutput, StopAgain, StopNarrowband
<1>6. CASE Kill
  BY <1>6 DEF Kill, KillAll, KillOutput, KillNarrowband, OutputTrue, FilledTrue, ResetTrue, Silent,
     Parked, Resetting, StartsUp, Told, Playing
<1>7. CASE TooSlow
  <2>1. UNCHANGED rpc \/ (rpc = "play" /\ rpc' = "failed")
    BY <1>7 DEF TooSlow, PlayTooSlow, PauseGiveUp, FillTooSlow
  <2>2. UNCHANGED <<cmd, status, npc, new_baseb_flag, reset, mpc>>
    BY <1>7 DEF TooSlow, PlayTooSlow, PauseGiveUp, FillTooSlow
  <2> QED
    BY <2>1, <2>2 DEF OutputTrue, FilledTrue, ResetTrue, Silent, Parked, Resetting, StartsUp, Told,
       Playing, Leaving
<1> QED
  BY <1>1, <1>2, <1>4, <1>5, <1>6, <1>7

LEMMA InvInductive ==
  ASSUME NoAgain, IInv, [Next]_vars
  PROVE  IInv'
<1>1. TypeOK'
  BY TypeInductive DEF IInv
<1>2. CASE UNCHANGED vars
  BY <1>1, <1>2 DEF vars, IInv, OutputTrue, FilledTrue, ResetTrue, Silent, Parked, Resetting,
     StartsUp, Told, Playing
<1> QED
  BY <1>1, <1>2, OutputStep, NarrowbandStep, OthersStep DEF Next, IInv, Kill

\* rx_output begins to play only with buffers that narrowband_dsp has filled, if no
\* reset is asked for between the last look at the counter and the first sample.
THEOREM StartsFilledAlways == NoAgain => (Spec => StartsFilled)
<1> SUFFICES ASSUME NoAgain PROVE Spec => StartsFilled
  OBVIOUS
<1>1. IInv /\ [Next]_vars => [rpc # "resume" /\ rpc' = "resume" => new_baseb_flag = 0]_vars
  <2> SUFFICES ASSUME IInv, Next, rpc # "resume", rpc' = "resume" PROVE new_baseb_flag = 0
    OBVIOUS
  <2>1. CASE RxOut
    BY <2>1 DEF IInv, FilledTrue, Silent, Playing, Leaving, RxOut, Begin, Open, Hold, Stop, Idle,
       SemTest, SemWait, Decide, Resume, Play, BasebWait, PlayFailed, Exit, End
  <2>2. CASE TooSlow \/ DaSyncError \/ AskReset \/ Main \/ UserExit \/ Kill
    BY <2>2 DEF TooSlow, PlayTooSlow, PauseGiveUp, FillTooSlow, DaSyncError, AskReset, Main,
       UserExit, Kill, Create, SeenActive, SeenIdle, IdleGiveUp, SeenSemClear, StartFails,
       StopOutput, StopAgain, JoinOutput, StopNarrowband, KillAll, KillOutput, KillNarrowband
  <2>3. CASE Narrowband
    BY <2>3 DEF Narrowband, Top, MouseTask, NoMouseTask, Check, Control, ControlGiveUp, Pause,
       Poll, Post, SemClear, DaSem, Halt, HaltReturns, HaltGiveUp, Sizes, Memory, Clear, Process,
       Flag, InputWait, StartOutput, SignalStart, AfterError, NExit, NEnd
  <2> QED
    BY <2>1, <2>2, <2>3 DEF Next, Kill
<1> QED
  BY <1>1, InvInitial, InvInductive, PTL DEF Spec, StartsFilled
-----------------------------------------------------------------------------
(* narrowband_dsp and rx_output do not use the buffers at the same time     *)

RInv == IInv /\ EarlyTrue /\ RestTrue

LEMMA SilentKept ==
  ASSUME TypeOK, RxOut \/ TooSlow \/ DaSyncError \/ Main \/ UserExit \/ AskReset \/ Kill, Silent
  PROVE  Silent'
<1>1. CASE RxOut
  BY <1>1 DEF Silent, Playing, Leaving, RxOut, Begin, Open, Hold, Stop, Idle, SemTest, SemWait,
     Decide, Resume, Play, BasebWait, PlayFailed, Exit, End
<1>2. CASE Create
  BY <1>2 DEF Create, Silent, Playing
<1>3. CASE DaSyncError \/ (Main /\ ~Create) \/ UserExit \/ AskReset \/ Kill
  <2>1. UNCHANGED rpc /\ (cmd' = cmd \/ cmd' # "ACTIVE")
    BY <1>3 DEF DaSyncError, Main, UserExit, AskReset, Kill, SeenActive, SeenIdle, IdleGiveUp,
       SeenSemClear, StartFails, StopOutput, StopAgain, JoinOutput, StopNarrowband, KillAll,
       KillOutput, KillNarrowband
  <2> QED
    BY <2>1 DEF Silent, Playing, Leaving
<1>4. CASE TooSlow
  <2>1. (UNCHANGED rpc \/ (rpc = "play" /\ rpc' = "failed")) /\ UNCHANGED cmd
    BY <1>4 DEF TooSlow, PlayTooSlow, PauseGiveUp, FillTooSlow
  <2> QED
    BY <2>1 DEF Silent, Playing, Leaving
<1> QED
  BY <1>1, <1>2, <1>3, <1>4

\* During the start narrowband_dsp is left alone.
LEMMA EarlyKept ==
  ASSUME IInv, NoEarly, EarlyTrue, Next
  PROVE  EarlyTrue'
<1>1. CASE Narrowband
  <2> SUFFICES ASSUME ~all_threads_started, new_baseb_flag = -1, ~reset, Waiting
               PROVE  new_baseb_flag' = -1 /\ ~reset' /\ Waiting'
    <3>1. all_threads_started' = all_threads_started
      BY <1>1 DEF Narrowband, Top, MouseTask, NoMouseTask, Check, Control, ControlGiveUp, Pause,
         Poll, Post, SemClear, DaSem, Halt, HaltReturns, HaltGiveUp, Sizes, Memory, Clear,
         Process, Flag, InputWait, StartOutput, SignalStart, AfterError, NExit, NEnd
    <3> QED
      BY <3>1 DEF EarlyTrue
  <2>1. CASE Top
    BY <2>1 DEF Top, Waiting
  <2>2. CASE NoMouseTask
    BY <2>2 DEF NoMouseTask, Waiting
  <2>3. CASE Process
    BY <2>3 DEF Process, Waiting
  <2>4. CASE NExit \/ NEnd
    BY <2>4 DEF NExit, NEnd, Waiting
  <2>5. CASE Check
    BY <2>5 DEF Check, Waiting
  <2>6. CASE Flag
    BY <2>6 DEF Flag, Waiting
  <2>7. ~MouseTask
    BY DEF MouseTask, NoEarly
  <2>8. CASE Control \/ ControlGiveUp \/ Pause \/ Poll \/ Post \/ SemClear \/ DaSem \/ Halt
             \/ HaltGiveUp \/ Sizes \/ Memory \/ Clear \/ InputWait \/ StartOutput \/ SignalStart
             \/ AfterError
    BY <2>8 DEF Control, ControlGiveUp, Pause, Poll, Post, SemClear, DaSem, Halt, HaltReturns,
       HaltGiveUp, Sizes, Memory, Clear, InputWait, StartOutput, SignalStart, AfterError, Waiting
  <2> QED
    BY <1>1, <2>1, <2>5, <2>6, <2>7, <2>8, <2>2, <2>3, <2>4 DEF Narrowband
<1>2. CASE DaSyncError \/ AskReset
  BY <1>2 DEF DaSyncError, AskReset, NoEarly, EarlyTrue, Waiting
<1>3. CASE RxOut \/ TooSlow \/ Main \/ UserExit \/ Kill
  <2>1. /\ UNCHANGED <<new_baseb_flag, reset, npc>>
        /\ all_threads_started' = all_threads_started \/ all_threads_started' = TRUE
    BY <1>3 DEF TooSlow, PlayTooSlow, PauseGiveUp, FillTooSlow, RxOut, Begin, Open, Hold, Stop,
       Idle, SemTest, SemWait, Decide, Resume, Play, BasebWait, PlayFailed, Exit, End, Main,
       UserExit, Create, SeenActive, SeenIdle, IdleGiveUp, SeenSemClear, StartFails, StopOutput,
       StopAgain, JoinOutput, StopNarrowband, Kill, KillAll, KillOutput, KillNarrowband
  <2> QED
    BY <2>1 DEF EarlyTrue, Waiting
<1> QED
  BY <1>1, <1>2, <1>3 DEF Next, Kill

LEMMA RestKept ==
  ASSUME RInv, Next
  PROVE  RestTrue'
<1> USE DEF RInv
<1>1. CASE Narrowband
  <2>1. CASE Halt
    <3>1. npc \in {"halt", "halt2"} /\ UNCHANGED <<rpc, cmd>>
      BY <2>1 DEF Halt, HaltReturns
    <3>2. all_threads_started
      BY <3>1 DEF EarlyTrue, Waiting
    <3>3. ~Told
      BY <3>1 DEF IInv, ResetTrue, Resetting
    <3>4. npc' # "pause" => Silent
      BY <2>1, <3>2, <3>3, SemClearParks DEF Halt, HaltReturns
    <3> QED
      BY <3>1, <3>4 DEF RestTrue, Silent, Playing
  <2>2. CASE SemClear
    <3>1. ~Told
      BY <2>2 DEF SemClear, IInv, ResetTrue, Resetting
    <3>2. npc' # "exit" => Silent
      BY <2>2, <3>1, SemClearParks DEF SemClear
    <3>3. UNCHANGED <<rpc, cmd>>
      BY <2>2 DEF SemClear
    <3> QED
      BY <3>2, <3>3 DEF RestTrue, Silent, Playing
  <2>3. CASE Sizes \/ Memory
    BY <2>3 DEF Sizes, Memory, RestTrue, Silent, Playing
  <2>4. CASE HaltGiveUp
    BY <2>4 DEF HaltGiveUp, IInv, FilledTrue, RestTrue, Silent, Playing
  <2>5. CASE Narrowband /\ ~Halt /\ ~SemClear /\ ~Sizes /\ ~Memory /\ ~HaltGiveUp
    <3>1. npc' \notin {"sizes", "halt2", "memory", "clear"}
      BY <2>5 DEF Narrowband, Top, MouseTask, NoMouseTask, Check, Control, ControlGiveUp, Pause,
         Poll, Post, DaSem, Clear, Process, Flag, InputWait, StartOutput, SignalStart, AfterError,
         NExit, NEnd
    <3> QED
      BY <3>1 DEF RestTrue
  <2> QED
    BY <1>1, <2>1, <2>2, <2>3, <2>5, <2>4
<1>2. CASE RxOut \/ TooSlow \/ DaSyncError \/ Main \/ UserExit \/ AskReset \/ Kill
  <2>1. UNCHANGED npc
    BY <1>2 DEF TooSlow, PlayTooSlow, PauseGiveUp, FillTooSlow, RxOut, Begin, Open, Hold, Stop,
       Idle, SemTest, SemWait, Decide, Resume, Play, BasebWait, PlayFailed, Exit, End, Main,
       UserExit, Create, SeenActive, SeenIdle, IdleGiveUp, SeenSemClear, StartFails, StopOutput,
       StopAgain, JoinOutput, StopNarrowband, Kill, KillAll, KillOutput, KillNarrowband,
       DaSyncError, AskReset
  <2>2. Silent => Silent'
    BY <1>2, SilentKept DEF IInv
  <2> QED
    BY <2>1, <2>2 DEF RestTrue
<1> QED
  BY <1>1, <1>2 DEF Next, Kill

\* narrowband_dsp changes the sizes and the memory of the baseband buffers only while
\* rx_output does not use them, if no reset is asked for before all threads are started
\* or between the last look at the counter and the first sample.
THEOREM AtRestAlways == NoAgain /\ NoEarly => (Spec => []AtRest)
<1> SUFFICES ASSUME NoAgain, NoEarly PROVE Spec => []AtRest
  OBVIOUS
<1>1. Init => RInv
  BY InvInitial DEF Init, RInv, EarlyTrue, RestTrue, Waiting
<1>2. RInv /\ [Next]_vars => RInv'
  <2> SUFFICES ASSUME RInv, [Next]_vars PROVE RInv'
    OBVIOUS
  <2>1. IInv'
    BY InvInductive DEF RInv
  <2>2. CASE UNCHANGED vars
    BY <2>1, <2>2 DEF vars, RInv, EarlyTrue, RestTrue, Waiting, Silent, Playing
  <2> QED
    BY <2>1, <2>2, EarlyKept, RestKept DEF RInv
<1>3. RInv => AtRest
  BY DEF RInv, RestTrue, Silent, AtRest
<1> QED
  BY <1>1, <1>2, <1>3, PTL DEF Spec
-----------------------------------------------------------------------------
(* No wait that is counted runs out                                         *)

SInv == IInv /\ EarlyTrue /\ StartTrue /\ StepsTrue /\ StopTrue /\ NoError

\* What rx_output does in each of its states, as long as not all threads are killed.
LEMMA OutputSteps ==
  ASSUME TypeOK, RxOut, ~kill_all_flag
  PROVE  /\ Parks => Parks'
         /\ Plays => Plays'
         /\ Starts => Starts' \/ Plays'
         /\ Sleeps => Sleeps'
         /\ Pauses => Pauses' \/ Idles'
         /\ Opens => Opens' \/ Idles'
         /\ Idles => Idles'
         /\ Clears => Clears'
         /\ start' => start
         /\ UNCHANGED <<cmd, npc, new_baseb_flag, mpc>>
         /\ reset' => reset
         /\ (all_threads_started' <=> all_threads_started) /\ ~kill_all_flag'
         /\ UNCHANGED lirerr
<1> USE DEF RxOut, Begin, Open, Hold, Stop, Idle, SemTest, SemWait, Decide, Resume, Play,
   BasebWait, PlayFailed, Exit, End
<1>1. Parks => Parks'
  BY DEF Parks
<1>2. Plays => Plays'
  BY DEF Plays
<1>3. Starts => Starts' \/ Plays'
  BY DEF Starts, Plays
<1>4. Idles => Idles'
  BY DEF Idles
<1>5. Clears => Clears'
  BY DEF Clears
<1>6. Sleeps => Sleeps'
  BY DEF Sleeps
<1>7. (Pauses => Pauses' \/ Idles') /\ (Opens => Opens' \/ Idles')
  BY DEF Pauses, Opens, Idles
<1>8. start' => start
  OBVIOUS
<1>9. UNCHANGED <<cmd, npc, new_baseb_flag, mpc>>
  OBVIOUS
<1>10. reset' => reset
  OBVIOUS
<1>11. (all_threads_started' <=> all_threads_started) /\ ~kill_all_flag'
  OBVIOUS
<1>12. UNCHANGED lirerr
  OBVIOUS
<1> QED
  BY <1>1, <1>2, <1>3, <1>4, <1>5, <1>8, <1>9, <1>10, <1>11, <1>12, <1>6, <1>7

LEMMA NoErrorOutput ==
  ASSUME SInv, RxOut
  PROVE  StartTrue' /\ StepsTrue' /\ StopTrue' /\ NoError'
<1> USE DEF SInv, IInv
<1>1. CASE kill_all_flag
  <2>1. kill_all_flag' /\ UNCHANGED lirerr
    BY <1>1 DEF RxOut, Begin, Open, Hold, Stop, Idle, SemTest, SemWait, Decide, Resume, Play,
       BasebWait, PlayFailed, Exit, End
  <2> QED
    BY <2>1 DEF StartTrue, StepsTrue, StopTrue, NoError
<1>2. CASE ~kill_all_flag
  <2>1. StartTrue'
    <3>1. mpc = "active" => /\ cmd' = "ACTIVE"
                            /\ \/ rpc' = "init" /\ status' = "INIT"
                               \/ rpc' \in {"open", "hold"} /\ status' = "ACTIVE"
      BY <1>2 DEF StartTrue, RxOut, Begin, Open, Hold, Stop, Idle, SemTest, SemWait, Decide,
         Resume, Play, BasebWait, PlayFailed, Exit, End
    <3> QED
      BY <1>2, <3>1, OutputSteps DEF StartTrue
  <2>2. StepsTrue'
    BY <1>2, OutputSteps DEF StepsTrue
  <2>3. StopTrue' /\ NoError'
    BY <1>2, OutputSteps DEF StopTrue, Stopping, Waiting, NoError
  <2> QED
    BY <2>1, <2>2, <2>3
<1> QED
  BY <1>1, <1>2

\* As long as the receiver does not run, narrowband_dsp only goes round.
LEMMA CalmStep ==
  ASSUME SInv, NoEarly, NoLate, Narrowband, ~kill_all_flag, mpc # "run"
  PROVE  UNCHANGED <<cmd, start, new_baseb_flag, lirerr>> /\ (reset' => reset) /\ Waiting'
<1> USE DEF SInv, IInv
<1>1. ~all_threads_started \/ Stopping
  BY DEF StartTrue, TypeOK, Stopping
<1>2. new_baseb_flag <= 0 /\ ~reset /\ Waiting
  BY <1>1 DEF EarlyTrue, StopTrue
<1>3. ~MouseTask
  BY <1>1 DEF MouseTask, NoEarly, NoLate
<1>4. CASE Top
  BY <1>4 DEF Top, Waiting
<1>5. CASE NoMouseTask
  BY <1>2, <1>5 DEF NoMouseTask, Waiting
<1>6. CASE Process
  BY <1>2, <1>6 DEF Process, Waiting
<1>7. CASE NExit \/ NEnd
  BY <1>2, <1>7 DEF NExit, NEnd, Waiting
<1>8. CASE Check
  BY <1>2, <1>8 DEF Check, Waiting
<1>9. CASE Flag
  <2>1. ~(new_baseb_flag > 1) /\ ~(new_baseb_flag = 1)
    BY <1>2 DEF TypeOK
  <2> QED
    BY <1>9, <2>1 DEF Flag, Waiting
<1>10. npc \notin {"control", "pause", "poll", "post", "semwait", "dasem", "halt", "halt2", "sizes",
                  "memory", "clear", "inwait", "start", "signal", "error"}
  BY <1>2 DEF Waiting
<1> QED
  BY <1>3, <1>4, <1>5, <1>6, <1>7, <1>8, <1>9, <1>10 DEF Narrowband, Control, ControlGiveUp,
     Pause, Poll, Post, SemClear, DaSem, Halt, HaltReturns, HaltGiveUp, Sizes, Memory, Clear,
     InputWait, StartOutput, SignalStart, AfterError

\* The steps of a reset and of a mouse task.
LEMMA NoErrorNarrowband ==
  ASSUME SInv, NoAgain, NoEarly, NoLate, NoSlow, Narrowband, ~kill_all_flag
  PROVE  StartTrue' /\ StepsTrue' /\ StopTrue' /\ NoError'
<1> USE DEF SInv, IInv
<1>1. /\ UNCHANGED <<rpc, status, mpc>> /\ ~kill_all_flag'
      /\ (all_threads_started' <=> all_threads_started)
  <2>1. UNCHANGED others
    BY DEF Narrowband, Top, MouseTask, NoMouseTask, Check, Control, ControlGiveUp, Pause, Poll,
       Post, SemClear, DaSem, Halt, HaltReturns, HaltGiveUp, Sizes, Memory, Clear, Process, Flag,
       InputWait, StartOutput, SignalStart, AfterError, NExit, NEnd
  <2> QED
    BY <2>1
<1>2. CASE mpc # "run"
  <2>1. UNCHANGED <<cmd, start, new_baseb_flag, lirerr>> /\ (reset' => reset) /\ Waiting'
    BY <1>2, CalmStep
  <2>2. StartTrue'
    BY <1>1, <2>1 DEF StartTrue, Idles, Opens, Clears
  <2>3. StepsTrue'
    BY <1>1, <1>2 DEF StepsTrue
  <2>4. StopTrue' /\ NoError'
    BY <1>1, <2>1 DEF StopTrue, Stopping, NoError
  <2> QED
    BY <2>2, <2>3, <2>4
<1>3. CASE mpc = "run"
  <2> DEFINE Rounds == {"top", "mouse", "check", "process", "flag", "inwait"}
  <2>1. StartTrue' /\ StopTrue'
    BY <1>1, <1>3 DEF StartTrue, StopTrue, Stopping
  <2> SUFFICES StepsTrue' /\ NoError'
    BY <2>1
  <2>2. ASSUME UNCHANGED <<cmd, start>>
        PROVE  /\ Parks => Parks'
               /\ Plays => Plays'
               /\ Starts => Starts'
               /\ Pauses => Pauses'
               /\ Idles => Idles'
               /\ Clears => Clears'
    BY <1>1, <2>2 DEF Parks, Plays, Starts, Pauses, Idles, Clears
  <2>3. CASE Top \/ NoMouseTask \/ Process \/ NExit \/ NEnd
    <3>1. UNCHANGED <<cmd, start, new_baseb_flag, lirerr>>
      BY <2>3 DEF Top, NoMouseTask, Process, NExit, NEnd
    <3>2. npc' \in {"mouse", "exit", "check", "flag", "returned", "ended"}
      BY <2>3 DEF Top, NoMouseTask, Process, NExit, NEnd
    <3>3. npc' \in {"mouse", "check", "flag"} => npc \in Rounds
      BY <2>3 DEF Top, NoMouseTask, Process, NExit, NEnd
    <3> QED
      BY <1>1, <1>3, <2>2, <3>1, <3>2, <3>3 DEF StepsTrue, NoError
  <2>4. CASE MouseTask
    <3>1. UNCHANGED <<cmd, start, new_baseb_flag, lirerr>> /\ npc' = "halt" /\ npc = "mouse"
      BY <2>4 DEF MouseTask
    <3>2. ~Starts
      BY <2>4 DEF MouseTask, NoAgain, Starting, Starts
    <3> QED
      BY <1>1, <1>3, <2>2, <3>1, <3>2 DEF StepsTrue, NoError
  <2>5. CASE Check
    <3>1. UNCHANGED <<cmd, start, new_baseb_flag, lirerr>> /\ npc = "check"
      BY <2>5 DEF Check
    <3>2. reset => ~Starts
      BY DEF ResetTrue, StartsUp, Told, Starts
    <3>3. npc' = "process" \/ (npc' = "control" /\ reset)
      BY <2>5 DEF Check
    <3> QED
      BY <1>1, <1>3, <2>2, <3>1, <3>2, <3>3 DEF StepsTrue, NoError
  <2>6. CASE Control
    <3>1. npc = "control" /\ UNCHANGED <<cmd, start, new_baseb_flag, lirerr>>
      BY <2>6 DEF Control
    <3>2. Parks \/ Plays
      BY <1>3, <3>1 DEF StepsTrue
    <3>3. (npc' = "dasem" /\ Parks) \/ (npc' = "pause" /\ Plays)
      BY <2>6, <3>2 DEF Control, Parks, Plays
    <3> QED
      BY <1>1, <1>3, <2>2, <3>1, <3>3 DEF StepsTrue, NoError
  <2>7. ~ControlGiveUp
    BY <1>3 DEF ControlGiveUp, StepsTrue, Parks, Plays
  <2>8. CASE Pause
    <3>1. Plays
      BY <1>3, <2>8 DEF Pause, StepsTrue
    <3>2. npc' = "poll" /\ cmd' = "IDLE" /\ UNCHANGED <<start, new_baseb_flag, lirerr>>
      BY <2>8, <3>1 DEF Pause, Plays
    <3>3. new_baseb_flag = 0
      BY <1>3, <3>1 DEF StepsTrue, Plays, Parks
    <3> QED
      BY <1>1, <1>3, <3>1, <3>2, <3>3 DEF StepsTrue, NoError, Plays, Pauses
  <2>9. CASE Poll
    <3>1. npc = "poll" /\ UNCHANGED <<cmd, start, new_baseb_flag, lirerr>>
      BY <2>9 DEF Poll
    <3>2. npc' = "poll" \/ (npc' = "post" /\ status = "IDLE")
      BY <2>9 DEF Poll
    <3>3. status = "IDLE" => Idles
      BY <1>3, <3>1 DEF StepsTrue, Pauses
    <3> QED
      BY <1>1, <1>3, <2>2, <3>1, <3>2, <3>3 DEF StepsTrue, NoError
  <2>10. CASE Post
    <3>1. Idles /\ npc' = "semwait" /\ cmd' = "SEMCLEAR" /\ UNCHANGED <<start, new_baseb_flag, lirerr>>
      BY <1>3, <2>10 DEF Post, StepsTrue
    <3>2. new_baseb_flag = 0
      BY <1>3, <3>1 DEF StepsTrue, Idles, Parks
    <3> QED
      BY <1>1, <1>3, <3>1, <3>2 DEF StepsTrue, NoError, Idles, Clears
  <2>11. CASE SemClear
    <3>1. /\ npc = "semwait" /\ status = "SEMCLEAR" /\ UNCHANGED <<cmd, start, new_baseb_flag, lirerr>>
          /\ npc' = Onward
      BY <2>11 DEF SemClear
    <3>2. Parks
      BY <1>3, <3>1 DEF StepsTrue, Clears, Parks
    <3>3. Onward \in {"dasem", "sizes", "memory"}
      BY DEF Onward
    <3> QED
      BY <1>1, <1>3, <2>2, <3>1, <3>2, <3>3 DEF StepsTrue, NoError
  <2>12. CASE DaSem
    <3>1. npc = "dasem" /\ UNCHANGED <<cmd, start, lirerr>> /\ npc' \in {"halt", "check"}
      BY <2>12 DEF DaSem
    <3>2. Parks
      BY <1>3, <3>1 DEF StepsTrue
    <3> QED
      BY <1>1, <1>3, <2>2, <3>1, <3>2 DEF StepsTrue, NoError
  <2>13. CASE Halt
    <3>1. npc \in {"halt", "halt2"} /\ UNCHANGED <<cmd, start, new_baseb_flag, lirerr>>
      BY <2>13 DEF Halt, HaltReturns
    <3>2. /\ Parks \/ Plays
          /\ npc = "halt2" => Parks
      BY <1>3, <3>1 DEF StepsTrue
    <3>3. (npc' \in {"sizes", "memory"} /\ Parks) \/ (npc' = "pause" /\ Plays)
      BY <1>3, <2>13, <3>2 DEF Halt, HaltReturns, Parks, Plays, StartTrue
    <3> QED
      BY <1>1, <1>3, <2>2, <3>1, <3>3 DEF StepsTrue, NoError
  <2>14. ~HaltGiveUp
    BY <1>3 DEF HaltGiveUp, StepsTrue, Parks
  <2>15. CASE Sizes \/ Memory \/ Clear
    <3>1. /\ npc \in {"sizes", "memory", "clear"} /\ npc' \in {"halt2", "clear", "flag", "check"}
          /\ UNCHANGED <<cmd, start, new_baseb_flag, lirerr>>
      BY <2>15 DEF Sizes, Memory, Clear
    <3>2. Parks
      BY <1>3, <3>1 DEF StepsTrue
    <3> QED
      BY <1>1, <1>3, <2>2, <3>1, <3>2 DEF StepsTrue, NoError
  <2>16. CASE Flag
    <3>1. npc = "flag" /\ UNCHANGED <<cmd, start, lirerr>> /\ npc' \in {"inwait", "top"}
      BY <2>16 DEF Flag
    <3>2. new_baseb_flag' # 0 => new_baseb_flag # 0
      BY <2>16 DEF Flag
    <3> QED
      BY <1>1, <1>3, <2>2, <3>1, <3>2 DEF StepsTrue, NoError
  <2>17. CASE InputWait
    <3>1. npc = "inwait" /\ UNCHANGED <<cmd, start, lirerr>> /\ npc' \in {"top", "start"}
      BY <2>17 DEF InputWait
    <3>2. Parks
      BY <1>3, <3>1 DEF StepsTrue, FilledTrue
    <3> QED
      BY <1>1, <1>3, <2>2, <3>1, <3>2 DEF StepsTrue, NoError
  <2>18. CASE StartOutput
    <3>1. npc = "start" /\ npc' = "signal" /\ cmd' = "ACTIVE" /\ UNCHANGED <<start, new_baseb_flag, lirerr>>
      BY <2>18 DEF StartOutput
    <3>2. Parks /\ new_baseb_flag = 0
      BY <1>3, <3>1 DEF StepsTrue, FilledTrue
    <3> QED
      BY <1>1, <1>3, <3>1, <3>2 DEF StepsTrue, NoError, Parks, Sleeps
  <2>19. CASE SignalStart
    <3>1. npc = "signal" /\ npc' = "check" /\ start' /\ UNCHANGED <<cmd, new_baseb_flag, lirerr>>
      BY <2>19 DEF SignalStart
    <3>2. Sleeps /\ new_baseb_flag = 0
      BY <1>3, <3>1 DEF StepsTrue, Parks, Sleeps
    <3> QED
      BY <1>1, <1>3, <3>1, <3>2 DEF StepsTrue, NoError, Starts, Sleeps
  <2>20. ~AfterError
    BY DEF AfterError
  <2> QED
    BY <2>3, <2>4, <2>5, <2>6, <2>7, <2>8, <2>9, <2>10, <2>11, <2>12, <2>13, <2>14, <2>15, <2>16,
       <2>17, <2>18, <2>19, <2>20 DEF Narrowband
<1> QED
  BY <1>2, <1>3

\* The start and the stop.
LEMMA NoErrorOthers ==
  ASSUME SInv, NoEarly, NoLate, NoSlow, Main \/ UserExit \/ DaSyncError \/ AskReset \/ Kill,
         ~kill_all_flag, ~kill_all_flag'
  PROVE  StartTrue' /\ StepsTrue' /\ StopTrue' /\ NoError'
<1> USE DEF SInv, IInv
<1>1. CASE Create
  BY <1>1 DEF Create, StartTrue, StepsTrue, StopTrue, Stopping, NoError
<1>2. CASE SeenActive
  BY <1>2 DEF SeenActive, StartTrue, Opens, StepsTrue, StopTrue, Stopping, NoError
<1>3. CASE SeenIdle
  <2>1. Idles
    BY <1>3 DEF SeenIdle, StartTrue, Opens
  <2> QED
    BY <1>3, <2>1 DEF SeenIdle, StartTrue, StepsTrue, StopTrue, Stopping, NoError, Idles, Clears
<1>4. ~IdleGiveUp
  BY DEF NoSlow, IdleGiveUp, StartTrue, Idles, Opens
<1>5. CASE SeenSemClear
  <2>1. /\ mpc = "semwait" /\ mpc' = "run" /\ all_threads_started'
        /\ UNCHANGED <<rpc, cmd, status, start, npc, new_baseb_flag, lirerr>>
    BY <1>5 DEF SeenSemClear
  <2>2. Parks' /\ Waiting
    BY <1>5, <2>1 DEF SeenSemClear, StartTrue, EarlyTrue, Clears, Parks
  <2> QED
    BY <2>1, <2>2 DEF StartTrue, StepsTrue, StopTrue, Stopping, NoError, Waiting
<1>6. ~StartFails
  BY DEF StartFails
<1>7. CASE UserExit
  <2>1. /\ mpc = "run" /\ mpc' = "stop" /\ (all_threads_started' <=> all_threads_started)
        /\ Settled /\ UNCHANGED <<npc, new_baseb_flag, lirerr>> /\ (reset' => reset)
    BY <1>7 DEF UserExit, NoLate
  <2>2. StopTrue'
    BY <2>1 DEF Settled, StopTrue, Waiting
  <2> QED
    BY <2>1, <2>2 DEF StartTrue, StepsTrue, NoError
<1>8. CASE StopOutput \/ StopAgain \/ JoinOutput \/ StopNarrowband
  <2>1. /\ Stopping /\ mpc' \in {"stop", "stopping", "join", "stopN", "stoppingN", "joinN", "done"}
        /\ (all_threads_started' <=> all_threads_started)
        /\ UNCHANGED <<npc, new_baseb_flag, lirerr>> /\ (reset' => reset)
    BY <1>8 DEF StopOutput, StopAgain, JoinOutput, StopNarrowband, Stopping
  <2> QED
    BY <2>1 DEF StartTrue, StepsTrue, StopTrue, Stopping, Waiting, NoError
<1>9. CASE DaSyncError \/ AskReset
  <2>1. /\ ~Stopping /\ (all_threads_started' <=> all_threads_started)
        /\ UNCHANGED <<rpc, cmd, status, start, npc, new_baseb_flag, mpc, lirerr>>
    BY <1>9 DEF DaSyncError, AskReset, NoLate
  <2> QED
    BY <2>1 DEF StartTrue, StepsTrue, StopTrue, Stopping, NoError, Parks, Plays, Starts, Sleeps,
       Pauses, Opens, Idles, Clears
<1>10. ~Kill
  BY DEF Kill, KillAll, KillOutput, KillNarrowband
<1> QED
  BY <1>1, <1>2, <1>3, <1>4, <1>5, <1>6, <1>7, <1>8, <1>9, <1>10 DEF Main

\* kill_all ends the counting: from then on only the error itself has to be kept.
LEMMA NoErrorKilled ==
  ASSUME SInv, NoSlow, Next, kill_all_flag'
  PROVE  StartTrue' /\ StepsTrue' /\ StopTrue' /\ NoError'
<1>1. StartTrue' /\ StepsTrue' /\ StopTrue'
  BY DEF StartTrue, StepsTrue, StopTrue
<1>2. ~IdleGiveUp /\ ~ControlGiveUp
  BY DEF IdleGiveUp, ControlGiveUp
<1>3. HaltGiveUp => UNCHANGED lirerr
  BY DEF HaltGiveUp, HaltReturns
<1>4. UNCHANGED lirerr
  <2>1. CASE RxOut
    BY <2>1 DEF RxOut, Begin, Open, Hold, Stop, Idle, SemTest, SemWait, Decide, Resume, Play,
       BasebWait, PlayFailed, Exit, End
  <2>2. CASE Main
    BY <1>2, <2>2 DEF Main, Create, SeenActive, SeenIdle, SeenSemClear, StartFails, StopOutput,
       StopAgain, JoinOutput, StopNarrowband
  <2>3. CASE DaSyncError \/ UserExit \/ AskReset \/ Kill
    BY <2>3 DEF DaSyncError, UserExit, AskReset, Kill, KillAll, KillOutput, KillNarrowband
  <2>4. CASE Narrowband
    BY <1>2, <1>3, <2>4 DEF Narrowband, Top, MouseTask, NoMouseTask, Check, Control, Pause, Poll,
       Post, SemClear, DaSem, Halt, HaltReturns, Sizes, Memory, Clear, Process, Flag, InputWait,
       StartOutput, SignalStart, AfterError, NExit, NEnd
  <2>5. ~TooSlow
    BY DEF NoSlow, TooSlow, PlayTooSlow, PauseGiveUp, FillTooSlow
  <2> QED
    BY <2>1, <2>2, <2>3, <2>4, <2>5 DEF Next, Kill
<1> QED
  BY <1>1, <1>4 DEF SInv, NoError

\* None of the waits that are counted ends in a fatal error, if besides the windows of
\* AtRest the user does not end the receiver in the middle of a reset, and no thread
\* or device takes longer than the wait for it lasts.
THEOREM NoErrorAlways == NoAgain /\ NoEarly /\ NoLate /\ NoSlow => (Spec => []NoError)
<1> SUFFICES ASSUME NoAgain, NoEarly, NoLate, NoSlow PROVE Spec => []NoError
  OBVIOUS
<1>1. Init => SInv
  BY InvInitial DEF Init, SInv, EarlyTrue, StartTrue, StepsTrue, StopTrue, Stopping, NoError,
     Waiting
<1>2. SInv /\ [Next]_vars => SInv'
  <2> SUFFICES ASSUME SInv, [Next]_vars PROVE SInv'
    OBVIOUS
  <2>1. IInv'
    BY InvInductive DEF SInv
  <2>2. CASE UNCHANGED vars
    BY <2>1, <2>2 DEF vars, SInv, EarlyTrue, StartTrue, StepsTrue, StopTrue, Stopping, NoError,
       Waiting, Parks, Plays, Starts, Sleeps, Pauses, Opens, Idles, Clears
  <2>3. CASE Next
    <3>1. EarlyTrue'
      BY <2>3, EarlyKept DEF SInv
    <3>2. ~TooSlow
      BY DEF NoSlow, TooSlow, PlayTooSlow, PauseGiveUp, FillTooSlow
    <3>3. StartTrue' /\ StepsTrue' /\ StopTrue' /\ NoError'
      <4>1. kill_all_flag => kill_all_flag'
        BY <2>3, <3>2 DEF Next, RxOut, Begin, Open, Hold, Stop, Idle, SemTest, SemWait, Decide,
           Resume, Play, BasebWait, PlayFailed, Exit, End, Main, UserExit, Create, SeenActive,
           SeenIdle, IdleGiveUp, SeenSemClear, StartFails, StopOutput, StopAgain, JoinOutput,
           StopNarrowband, KillAll, KillOutput, KillNarrowband, DaSyncError, AskReset, Narrowband,
           Top, MouseTask, NoMouseTask, Check, Control, ControlGiveUp, Pause, Poll, Post,
           SemClear, DaSem, Halt, HaltReturns, HaltGiveUp, Sizes, Memory, Clear, Process, Flag,
           InputWait, StartOutput, SignalStart, AfterError, NExit, NEnd
      <4> QED
        BY <2>3, <3>2, <4>1, NoErrorKilled, NoErrorOutput, NoErrorNarrowband, NoErrorOthers DEF
           Next, Kill
    <3> QED
      BY <2>1, <3>1, <3>3 DEF SInv
  <2> QED
    BY <2>2, <2>3
<1>3. SInv => NoError
  BY DEF SInv
<1> QED
  BY <1>1, <1>2, <1>3, PTL DEF Spec
=============================================================================
