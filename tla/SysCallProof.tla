---------------------------- MODULE SysCallProof ----------------------------
(***************************************************************************)
(* Served and WorksForCaller of SysCall, for every set of callers and of   *)
(* settings and any number of changes: one status flag is enough to tell a *)
(* caller that its own job, not the last one, is done, if no two commands  *)
(* are under way at the same time.                                         *)
(***************************************************************************)
EXTENDS SysCall, TLAPS

InCall(c) == cpc[c] \in {"post", "wake", "reply", "release"}

\* One caller at a time, and from Post to Release the command is its own.
OneCommand ==
  /\ \A c, d \in Callers : InCall(c) /\ InCall(d) => c = d
  /\ \A c \in Callers : cpc[c] = "post" => cmd = "ACTIVE"
  /\ \A c \in Callers : cpc[c] \in {"wake", "reply", "release"} => cmd = c
  /\ main # "run" => \A c \in Callers : cpc[c] = "out"

\* How far the thread has got with the job of a caller, or that it has not
\* begun.  The IDLE of the last job is gone before a caller can post.
Progress ==
  \A c \in Callers :
    /\ cpc[c] = "post" => pc \in {"top", "wait", "switch"} /\ status # "IDLE"
    /\ cpc[c] \in {"wake", "reply"} =>
         \/ pc \in {"top", "wait", "switch"} /\ status # "IDLE"
         \/ pc = "work" /\ job = c /\ status # "IDLE"
         \/ pc \in {"idle", "asleep"} /\ c \in performed
    /\ cpc[c] = "release" => pc \in {"idle", "asleep"}

\* A command of a caller stands for a caller in sys_func.
Backed ==
  /\ cmd \in Callers => cpc[cmd] \in {"wake", "reply", "release"} \/ kill_all_flag
  /\ WorksForCaller

IdleTrue ==
  /\ status = "SEM_WAIT" => pc \in {"wait"}
  /\ pc \in {"wait", "switch", "work"} => status # "IDLE"

IInv == TypeOK /\ OneCommand /\ Progress /\ Backed /\ Served /\ IdleTrue

\* The window that has to stay closed.
NoCrowd == "crowd" \notin Overlaps
-----------------------------------------------------------------------------
USE DEF flags, radio, others, others2, others3, others4, Go, Jobs

LEMMA TypeInductive ==
  /\ Init => TypeOK
  /\ TypeOK /\ [Next]_vars => TypeOK'
<1> USE SysCallAssumption DEF TypeOK, Pcs, CallerPcs
<1>1. Init => TypeOK
  <2> SUFFICES ASSUME Init PROVE TypeOK
    OBVIOUS
  <2>1. 0 \in 0 .. MaxChanges
    OBVIOUS
  <2>2. wanted \in [Settings -> 0 .. MaxChanges] /\ cpc \in [Callers -> CallerPcs]
    BY <2>1 DEF Init
  <2>3. /\ local \in [Settings -> 0 .. MaxChanges]
        /\ applied \in [Settings -> 0 .. MaxChanges]
    BY <2>2 DEF Init
  <2>4. /\ pc \in Pcs /\ job \in Jobs \cup {"ACTIVE"} /\ performed \subseteq Callers
        /\ input \in {"out", "in", "signal"} /\ main \in {"run", "stop", "done"}
        /\ cmd \in Jobs \cup {"ACTIVE", "KILL"} /\ event \in BOOLEAN
        /\ status \in {"INIT", "ACTIVE", "SEM_WAIT", "SEMCLEAR", "IDLE", "RETURNED"}
        /\ kill_all_flag \in BOOLEAN
    BY DEF Init
  <2> QED
    BY <2>2, <2>3, <2>4
<1>2. TypeOK /\ [Next]_vars => TypeOK'
  <2> SUFFICES ASSUME TypeOK, [Next]_vars PROVE TypeOK'
    OBVIOUS
  <2>1. CASE DoSyscall
    BY <2>1 DEF DoSyscall, Begin, Top, WakeUp, Switch, Finish, IdleTest, IdleWake
  <2>2. ASSUME NEW c \in Callers, Call(c) \/ CallerStep(c) PROVE TypeOK'
    <3>1. UNCHANGED others2
      BY <2>2 DEF Call, CallerStep, Ready, Post, Wake, Reply, Release, Signal, Abandon
    <3>2. performed' \subseteq Callers /\ cmd' \in Jobs \cup {"ACTIVE", "KILL"}
          /\ event' \in BOOLEAN
      BY <2>2 DEF Call, CallerStep, Ready, Post, Wake, Reply, Release, Signal, Abandon
    <3>3. \E p \in CallerPcs : cpc' = [cpc EXCEPT ![c] = p]
      BY <2>2 DEF Call, CallerStep, Ready, Post, Wake, Reply, Release, Signal, Abandon
    <3>4. cpc' \in [Callers -> CallerPcs]
      BY <3>3
    <3> QED
      BY <3>1, <3>2, <3>4
  <2>3. CASE StartInput \/ StopInput \/ PollSignal \/ CallKillAll \/ StopSyscall \/ StopAgain
    <3>1. UNCHANGED <<pc, job, cpc, performed, wanted, status>>
      BY <2>3 DEF StartInput, StopInput, PollSignal, CallKillAll, StopSyscall, StopAgain
    <3>2. /\ local' \in [Settings -> 0 .. MaxChanges]
          /\ applied' \in [Settings -> 0 .. MaxChanges]
      BY <2>3 DEF StartInput, StopInput, PollSignal, CallKillAll, StopSyscall, StopAgain
    <3>3. /\ input' \in {"out", "in", "signal"} /\ main' \in {"run", "stop", "done"}
          /\ cmd' \in Jobs \cup {"ACTIVE", "KILL"} /\ event' \in BOOLEAN
          /\ kill_all_flag' \in BOOLEAN
      BY <2>3 DEF StartInput, StopInput, PollSignal, CallKillAll, StopSyscall, StopAgain
    <3> QED
      BY <3>1, <3>2, <3>3
  <2>4. ASSUME NEW s \in Settings, ChangeSetting(s) \/ Poll(s) PROVE TypeOK'
    <3>1. CASE ChangeSetting(s)
      <4>1. wanted[s] + 1 \in 0 .. MaxChanges
        BY <3>1 DEF ChangeSetting
      <4>2. wanted' \in [Settings -> 0 .. MaxChanges]
        BY <3>1, <4>1 DEF ChangeSetting
      <4> QED
        BY <3>1, <4>2 DEF ChangeSetting
    <3>2. CASE PollPost(s)
      BY <3>2 DEF PollPost
    <3>3. CASE PollCollect(s)
      <4>1. local' \in [Settings -> 0 .. MaxChanges]
        BY <3>3 DEF PollCollect
      <4> QED
        BY <3>3, <4>1 DEF PollCollect
    <3> QED
      BY <2>4, <3>1, <3>2, <3>3 DEF Poll
  <2>5. CASE UNCHANGED vars
    BY <2>5 DEF vars
  <2> QED
    BY <2>1, <2>2, <2>3, <2>4, <2>5 DEF Next
<1> QED
  BY <1>1, <1>2

\* Every variable of SysCall keeps its type.
THEOREM TypeCorrect == Spec => []TypeOK
  BY TypeInductive, PTL DEF Spec
-----------------------------------------------------------------------------
LEMMA InvInitial == Init => IInv
<1> SUFFICES ASSUME Init PROVE IInv
  OBVIOUS
<1>1. TypeOK
  BY TypeInductive
<1> QED
  BY <1>1, SysCallAssumption
     DEF Init, IInv, OneCommand, Progress, Backed, Served, IdleTrue, InCall, WorksForCaller

\* The thread works on the command it finds and changes no caller.
LEMMA ThreadPreserves ==
  ASSUME IInv, DoSyscall
  PROVE  OneCommand' /\ Progress' /\ Backed' /\ Served' /\ IdleTrue'
<1> USE SysCallAssumption DEF IInv
<1>1. UNCHANGED others /\ performed \subseteq performed'
  BY DEF DoSyscall, Begin, Top, WakeUp, Switch, Finish, IdleTest, IdleWake
<1>2. OneCommand' /\ Served'
  BY <1>1 DEF OneCommand, Served, InCall
<1>3. IdleTrue'
  BY DEF DoSyscall, Begin, Top, WakeUp, Switch, Finish, IdleTest, IdleWake, IdleTrue
<1>4. Progress'
  <2> SUFFICES ASSUME NEW c \in Callers
               PROVE  /\ cpc[c] = "post" => pc' \in {"top", "wait", "switch"} /\ status' # "IDLE"
                      /\ cpc[c] \in {"wake", "reply"} =>
                           \/ pc' \in {"top", "wait", "switch"} /\ status' # "IDLE"
                           \/ pc' = "work" /\ job' = c /\ status' # "IDLE"
                           \/ pc' \in {"idle", "asleep"} /\ c \in performed'
                      /\ cpc[c] = "release" => pc' \in {"idle", "asleep"}
    BY <1>1 DEF Progress
  <2>1. CASE cpc[c] = "post"
    <3>1. cmd = "ACTIVE" /\ pc \in {"top", "wait", "switch"} /\ status # "IDLE"
      BY <2>1 DEF OneCommand, Progress
    <3> QED
      BY <2>1, <3>1 DEF DoSyscall, Begin, Top, WakeUp, Switch, Finish, IdleTest, IdleWake
  <2>2. CASE cpc[c] \in {"wake", "reply"}
    <3>1. cmd = c /\ c \notin {"ACTIVE", "KILL"}
      BY <2>2 DEF OneCommand
    <3>2. \/ pc \in {"top", "wait", "switch"} /\ status # "IDLE"
          \/ pc = "work" /\ job = c /\ status # "IDLE"
          \/ pc \in {"idle", "asleep"} /\ c \in performed
      BY <2>2 DEF Progress
    <3> QED
      BY <1>1, <2>2, <3>1, <3>2
         DEF DoSyscall, Begin, Top, WakeUp, Switch, Finish, IdleTest, IdleWake
  <2>3. CASE cpc[c] = "release"
    <3>1. cmd = c /\ c \notin {"ACTIVE", "KILL"} /\ pc \in {"idle", "asleep"}
      BY <2>3 DEF OneCommand, Progress
    <3> QED
      BY <2>3, <3>1 DEF DoSyscall, Begin, Top, WakeUp, Switch, Finish, IdleTest, IdleWake
  <2> QED
    BY <2>1, <2>2, <2>3
<1>5. Backed'
  <2>1. CASE Switch /\ cmd \in Callers /\ ~kill_all_flag
    <3>1. cpc[cmd] \in {"wake", "reply"}
      BY <2>1 DEF Backed, Switch, Progress
    <3> QED
      BY <1>1, <2>1, <3>1 DEF Switch, Backed, WorksForCaller
  <2>2. CASE ~(Switch /\ cmd \in Callers /\ ~kill_all_flag)
    BY <1>1, <2>2 DEF DoSyscall, Begin, Top, WakeUp, Switch, Finish, IdleTest, IdleWake,
                      Backed, WorksForCaller
  <2> QED
    BY <2>1, <2>2
<1> QED
  BY <1>2, <1>3, <1>4, <1>5

\* A caller posts when no other has, and takes only its own result.
LEMMA CallerPreserves ==
  ASSUME NoCrowd, IInv, NEW c \in Callers, Call(c) \/ CallerStep(c)
  PROVE  OneCommand' /\ Progress' /\ Backed' /\ Served' /\ IdleTrue'
<1> USE SysCallAssumption DEF IInv
<1>0. cpc \in [Callers -> CallerPcs] /\ UNCHANGED others2
  BY DEF TypeOK, Call, CallerStep, Ready, Post, Wake, Reply, Release, Signal, Abandon
<1>1. main = "run"
  BY DEF OneCommand, Call, CallerStep, Ready, Post, Wake, Reply, Release, Signal, Abandon
<1>2. CASE Call(c)
  BY <1>0, <1>1, <1>2 DEF Call, OneCommand, Progress, Backed, Served, IdleTrue, InCall,
                          WorksForCaller
<1>3. CASE Ready(c)
  <2>1. cmd = "ACTIVE" /\ \A d \in Callers : ~InCall(d)
    BY <1>3 DEF Ready, NoCrowd, Quiet, OneCommand, InCall
  <2>2. pc = "wait" /\ status # "IDLE"
    BY <1>3 DEF Ready, IdleTrue
  <2> QED
    BY <1>0, <1>1, <1>3, <2>1, <2>2
       DEF Ready, OneCommand, Progress, Backed, Served, IdleTrue, InCall, WorksForCaller
<1>4. CASE Post(c)
  <2>1. \A d \in Callers : InCall(d) => d = c
    BY <1>4 DEF Post, OneCommand, InCall
  <2>2. pc \in {"top", "wait", "switch"} /\ status # "IDLE"
    BY <1>4 DEF Post, Progress
  <2> QED
    BY <1>0, <1>1, <1>4, <2>1, <2>2
       DEF Post, OneCommand, Progress, Backed, Served, IdleTrue, InCall, WorksForCaller
<1>5. CASE Wake(c)
  BY <1>0, <1>1, <1>5 DEF Wake, OneCommand, Progress, Backed, Served, IdleTrue, InCall,
                          WorksForCaller
<1>6. CASE Reply(c)
  <2>1. pc \in {"idle", "asleep"} /\ c \in performed
    BY <1>6 DEF Reply, Progress
  <2> QED
    BY <1>0, <1>1, <1>6, <2>1 DEF Reply, OneCommand, Progress, Backed, Served, IdleTrue,
                                  InCall, WorksForCaller
<1>7. CASE Release(c)
  <2>1. \A d \in Callers : InCall(d) => d = c
    BY <1>7 DEF Release, OneCommand, InCall
  <2>2. pc \in {"idle", "asleep"}
    BY <1>7 DEF Release, Progress
  <2> QED
    BY <1>0, <1>1, <1>7, <2>1, <2>2
       DEF Release, OneCommand, Progress, Backed, Served, IdleTrue, InCall, WorksForCaller
<1>8. CASE Signal(c)
  BY <1>0, <1>1, <1>8 DEF Signal, OneCommand, Progress, Backed, Served, IdleTrue, InCall,
                          WorksForCaller
<1>9. CASE Abandon(c)
  BY <1>0, <1>1, <1>9 DEF Abandon, OneCommand, Progress, Backed, Served, IdleTrue, InCall,
                          WorksForCaller
<1> QED
  BY <1>2, <1>3, <1>4, <1>5, <1>6, <1>7, <1>8, <1>9 DEF CallerStep

\* The input thread posts when no caller has, and takes only its own result.
LEMMA InputPreserves ==
  ASSUME NoCrowd, IInv,
         \/ StartInput \/ StopInput \/ PollSignal \/ CallKillAll \/ StopSyscall \/ StopAgain
         \/ \E s \in Settings : ChangeSetting(s) \/ Poll(s)
  PROVE  OneCommand' /\ Progress' /\ Backed' /\ Served' /\ IdleTrue'
<1> USE SysCallAssumption DEF IInv
<1>1. CASE StartInput \/ StopInput \/ PollSignal \/ CallKillAll \/ StopAgain
           \/ \E s \in Settings : ChangeSetting(s)
  <2>1. UNCHANGED <<pc, job, cpc, performed, cmd, status>> /\ (kill_all_flag => kill_all_flag')
        /\ (main # "run" <=> main' # "run")
    BY <1>1 DEF StartInput, StopInput, PollSignal, CallKillAll, StopAgain, ChangeSetting, TypeOK
  <2> QED
    BY <2>1 DEF OneCommand, Progress, Backed, Served, IdleTrue, InCall, WorksForCaller
<1>2. CASE StopSyscall
  BY <1>2 DEF StopSyscall, OneCommand, Progress, Backed, Served, IdleTrue, InCall,
              WorksForCaller
<1>3. ASSUME NEW s \in Settings, PollPost(s)
      PROVE  OneCommand' /\ Progress' /\ Backed' /\ Served' /\ IdleTrue'
  <2>1. \A c \in Callers : ~InCall(c)
    BY <1>3 DEF PollPost, NoCrowd, Quiet, OneCommand, InCall
  <2>2. cmd' \notin Callers
    BY <1>3 DEF PollPost
  <2> QED
    BY <1>3, <2>1, <2>2 DEF PollPost, OneCommand, Progress, Backed, Served, IdleTrue,
                            InCall, WorksForCaller
<1>4. ASSUME NEW s \in Settings, PollCollect(s)
      PROVE  OneCommand' /\ Progress' /\ Backed' /\ Served' /\ IdleTrue'
  <2>1. \A c \in Callers : ~InCall(c)
    BY <1>4 DEF PollCollect, OneCommand, InCall
  <2>2. cmd' \notin Callers
    BY <1>4 DEF PollCollect
  <2> QED
    BY <1>4, <2>1, <2>2 DEF PollCollect, OneCommand, Progress, Backed, Served, IdleTrue,
                            InCall, WorksForCaller
<1> QED
  BY <1>1, <1>2, <1>3, <1>4 DEF Poll

LEMMA InvInductive ==
  ASSUME NoCrowd
  PROVE  IInv /\ [Next]_vars => IInv'
<1> SUFFICES ASSUME IInv, [Next]_vars PROVE IInv'
  OBVIOUS
<1>1. TypeOK'
  BY TypeInductive DEF IInv
<1>2. CASE UNCHANGED vars
  BY <1>1, <1>2 DEF vars, IInv, OneCommand, Progress, Backed, Served, IdleTrue, InCall,
                    WorksForCaller
<1> QED
  BY <1>1, <1>2, ThreadPreserves, CallerPreserves, InputPreserves DEF Next, IInv

\* Served and WorksForCaller hold for any number of callers and settings, with
\* events left over from earlier commands, a polling input thread that comes
\* and goes, and kill_all at any moment, as long as a command that has been
\* given is seen before another thread takes SYSCALL for free.
THEOREM ServedAlways ==
  ASSUME NoCrowd
  PROVE  Spec => [](Served /\ WorksForCaller)
<1>1. IInv => Served /\ WorksForCaller
  BY DEF IInv, Backed
<1> QED
  BY <1>1, InvInitial, InvInductive, PTL DEF Spec
=============================================================================
