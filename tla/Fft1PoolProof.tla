--------------------------- MODULE Fft1PoolProof ---------------------------
(***************************************************************************)
(* Type correctness of Fft1Pool, for every number of workers, every size   *)
(* of the rings and every set of disturbances.                             *)
(***************************************************************************)
EXTENDS Fft1Pool, TLAPS

USE DEF Workers, InPos, Slots, Invalid, NoSlot, Timf1, Positions

LEMMA NextPosType ==
  ASSUME NEW M \in Nat, NEW p \in Positions(M)
  PROVE  NextPos(p, M) \in Positions(M)
  BY DEF NextPos

LEMMA EventType ==
  ASSUME NEW S, NEW ev \in [S -> BOOLEAN], NEW e
  PROVE  SetEvent(ev, e) \in [S -> BOOLEAN] /\ TakeEvent(ev, e) \in [S -> BOOLEAN]
  BY DEF SetEvent, TakeEvent

\* The worker that wideband_dsp creates or joins exists.
InRange == pc \in {"create", "created", "join"} => i \in Workers

LEMMA TypeInductive ==
  /\ Init => TypeOK /\ InRange
  /\ TypeOK /\ InRange /\ [Next]_vars => TypeOK' /\ InRange'
<1> USE PoolAssumption
<1>1. Init => TypeOK /\ InRange
  <2> SUFFICES ASSUME Init PROVE TypeOK /\ InRange
    OBVIOUS
  <2>1. InRange /\ pc \in WbPcs /\ i \in 1 .. no_of_fft1b + 1
    BY DEF Init, InRange, WbPcs
  <2>2. cmd \in CmdFlags /\ wstat \in StatusFlags /\ txtest \in {"run", "asked", "wait", "held"}
    BY DEF Init, CmdFlags, StatusFlags
  <2>3. timf1p_px \in InPos /\ timf1p_pb \in InPos /\ fft1_pt \in Slots /\ fft1_pa \in Slots
    BY DEF Init
  <2>4. /\ wpc \in [Workers -> WorkerPcs]
        /\ status \in [Workers -> StatusFlags]
        /\ command \in [Workers -> CmdFlags]
    BY DEF Init, WorkerPcs, StatusFlags, CmdFlags
  <2>5. /\ ptrchk \in [Workers -> BOOLEAN]
        /\ inptr \in [Workers -> InPos]
        /\ out \in [Workers -> Slots \cup {NoSlot}]
        /\ issued \in Seq(InPos)
    BY DEF Init
  <2>6. /\ event \in [Workers \cup {Timf1} -> BOOLEAN]
        /\ fft1_float \in [Slots -> InPos \cup {Invalid}]
        /\ kill_all_flag \in BOOLEAN /\ computation_pause_flag \in BOOLEAN
        /\ lirerr \in BOOLEAN
    BY DEF Init
  <2> QED
    BY <2>1, <2>2, <2>3, <2>4, <2>5, <2>6 DEF TypeOK
<1>2. TypeOK /\ InRange /\ [Next]_vars => TypeOK' /\ InRange'
  <2> SUFFICES ASSUME TypeOK, InRange, [Next]_vars PROVE TypeOK' /\ InRange'
    OBVIOUS
  <2> USE DEF TypeOK, InRange, CmdFlags, StatusFlags, WbPcs, WorkerPcs, ptrs, wbvars,
              threads, tasks, env, Goto
  <2>e. /\ SetEvent(event, Timf1) \in [Workers \cup {Timf1} -> BOOLEAN]
        /\ SetEvent(event, i) \in [Workers \cup {Timf1} -> BOOLEAN]
        /\ SetEvent(event, Oldest) \in [Workers \cup {Timf1} -> BOOLEAN]
        /\ TakeEvent(event, Timf1) \in [Workers \cup {Timf1} -> BOOLEAN]
    BY EventType
  <2>p. /\ NextPos(timf1p_px, InBlocks) \in InPos
        /\ NextPos(timf1p_pb, InBlocks) \in InPos
        /\ NextPos(fft1_pt, OutSlots) \in Slots
        /\ NextPos(fft1_pa, OutSlots) \in Slots
    BY NextPosType
  <2> HIDE DEF InPos, Slots, Positions, Timf1
  <2>1. CASE Wideband
    <3>1. CASE FirstInput
      <4>1. CASE Running /\ timf1p_px = timf1p_pb
        BY <3>1, <4>1, <2>e DEF FirstInput
      <4>2. CASE ~(Running /\ timf1p_px = timf1p_pb)
        <5>1. ptrchk' \in [Workers -> BOOLEAN] /\ pc' \in {"create", "stop"} /\ i' = 1
          BY <3>1, <4>2 DEF FirstInput
        <5> QED
          BY <3>1, <4>2, <5>1 DEF FirstInput
      <4> QED
        BY <4>1, <4>2
    <3>2. CASE CreateWorker
      BY <3>2 DEF CreateWorker
    <3>3. CASE WorkerReady
      BY <3>3 DEF WorkerReady
    <3>4. CASE Restart
      BY <3>4 DEF Restart
    <3>5. CASE Settle
      BY <3>5, <2>e DEF Settle
    <3>6. CASE GoToSleep
      BY <3>6 DEF GoToSleep
    <3>7. CASE WakeUp
      BY <3>7, <2>e DEF WakeUp
    <3>8. CASE ServeMouse
      BY <3>8 DEF ServeMouse
    <3>9. CASE SkipBlock
      BY <3>9, <2>p DEF SkipBlock
    <3>10. CASE StartAssigning
      BY <3>10 DEF StartAssigning
    <3>11. CASE Assign
      BY <3>11, <2>e, <2>p DEF Assign
    <3>12. CASE PassOver
      BY <3>12 DEF PassOver
    <3>13. CASE AssignedAll
      BY <3>13 DEF AssignedAll
    <3>14. CASE Collect
      <4>1. issued' \in Seq(InPos)
        BY <3>14 DEF Collect
      <4> QED
        BY <3>14, <4>1, <2>e, <2>p DEF Collect
    <3>15. CASE CollectedAll
      BY <3>15 DEF CollectedAll
    <3>16. CASE LeaveLoop
      BY <3>16 DEF LeaveLoop
    <3>17. CASE BecomeIdle
      BY <3>17 DEF BecomeIdle
    <3>18. CASE StayIdle
      BY <3>18 DEF StayIdle
    <3>19. CASE SkipWhileIdle
      BY <3>19, <2>e, <2>p DEF SkipWhileIdle
    <3>20. CASE StopWorker
      <4>1. CASE command[i] = "NOT_ACTIVE"
        BY <3>20, <4>1 DEF StopWorker
      <4>2. CASE command[i] # "NOT_ACTIVE"
        BY <3>20, <4>2, <2>e DEF StopWorker
      <4> QED
        BY <4>1, <4>2
    <3>21. CASE PostAgain
      BY <3>21, <2>e DEF PostAgain
    <3>22. CASE ReleaseWorker
      BY <3>22 DEF ReleaseWorker
    <3>23. CASE JoinWorker
      BY <3>23 DEF JoinWorker
    <3>24. CASE Return
      BY <3>24 DEF Return
    <3> QED
      BY <2>1, <3>1, <3>2, <3>3, <3>4, <3>5, <3>6, <3>7, <3>8, <3>9, <3>10, <3>11, <3>12, <3>13, <3>14, <3>15, <3>16, <3>17, <3>18, <3>19, <3>20, <3>21, <3>22, <3>23, <3>24 DEF Wideband
  <2>2. ASSUME NEW w \in Workers, Worker(w) PROVE TypeOK' /\ InRange'
    <3>e. /\ SetEvent(event, w) \in [Workers \cup {Timf1} -> BOOLEAN]
          /\ TakeEvent(event, w) \in [Workers \cup {Timf1} -> BOOLEAN]
      BY EventType
    <3>1. CASE WorkerTop(w)
      <4>1. wpc' \in [Workers -> WorkerPcs] /\ status' \in [Workers -> StatusFlags]
        BY <3>1 DEF WorkerTop
      <4> QED
        BY <3>1, <4>1 DEF WorkerTop
    <3>2. CASE StartFft(w)
      <4>1. CASE kill_all_flag
        BY <3>2, <4>1, <3>e DEF StartFft
      <4>2. CASE ~kill_all_flag
        <5>1. fft1_float' \in [Slots -> InPos \cup {Invalid}]
          BY <3>2, <4>2 DEF StartFft
        <5>2. wpc' \in [Workers -> WorkerPcs] /\ status' \in [Workers -> StatusFlags]
          BY <3>2, <4>2 DEF StartFft
        <5>3. event' \in [Workers \cup {Timf1} -> BOOLEAN]
          BY <3>2, <3>e DEF StartFft
        <5> QED
          BY <3>2, <5>1, <5>2, <5>3 DEF StartFft
      <4> QED
        BY <4>1, <4>2
    <3>3. CASE FinishFft(w)
      BY <3>3 DEF FinishFft
    <3>4. CASE ReportDone(w)
      BY <3>4, <2>e DEF ReportDone
    <3>5. CASE Released(w)
      BY <3>5, <3>e DEF Released
    <3>6. CASE WorkerExit(w)
      BY <3>6 DEF WorkerExit
    <3>7. CASE WorkerEnd(w)
      BY <3>7 DEF WorkerEnd
    <3> QED
      BY <2>2, <3>1, <3>2, <3>3, <3>4, <3>5, <3>6, <3>7 DEF Worker
  <2>3. CASE Environment
    <3>1. CASE Input
      BY <3>1, <2>e, <2>p DEF Input
    <3>2. CASE ToggleF5
      BY <3>2 DEF ToggleF5
    <3>3. CASE StopWideband
      BY <3>3, <2>e DEF StopWideband
    <3>4. CASE PostWideband
      BY <3>4, <2>e DEF PostWideband
    <3>5. CASE JoinWideband
      BY <3>5 DEF JoinWideband
    <3>6. CASE KillAll
      BY <3>6 DEF KillAll
    <3>7. CASE KillWideband
      BY <3>7, <2>e DEF KillWideband
    <3>8. CASE TxTestAsk \/ TxTestPause
      BY <3>8 DEF TxTestAsk, TxTestPause
    <3>9. CASE TxTestPaused
      BY <3>9 DEF TxTestPaused
    <3>10. CASE TxTestResume
      BY <3>10 DEF TxTestResume
    <3>11. ASSUME NEW w \in Workers, KillWorker(w) PROVE TypeOK' /\ InRange'
      <4>1. SetEvent(event, w) \in [Workers \cup {Timf1} -> BOOLEAN]
        BY EventType
      <4>2. CASE status[w] \in {"RETURNED", "NOT_ACTIVE"}
        BY <3>11, <4>2 DEF KillWorker
      <4>3. CASE status[w] \notin {"RETURNED", "NOT_ACTIVE"}
        BY <3>11, <4>1, <4>3 DEF KillWorker
      <4> QED
        BY <4>2, <4>3
    <3> QED
      BY <2>3, <3>1, <3>2, <3>3, <3>4, <3>5, <3>6, <3>7, <3>8, <3>9, <3>10, <3>11 DEF Environment
  <2>4. CASE UNCHANGED vars
    BY <2>4 DEF vars
  <2> QED
    BY <2>1, <2>2, <2>3, <2>4 DEF Next, Stopped
<1> QED
  BY <1>1, <1>2

\* Every variable keeps its type, whatever is allowed to happen.
THEOREM TypeCorrect == Spec => []TypeOK
  BY TypeInductive, PTL DEF Spec
=============================================================================
