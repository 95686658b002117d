--------------------------- MODULE Fft1PoolOrder ---------------------------
(***************************************************************************)
(* The transforms come out in order: proofs about Fft1Pool for every       *)
(* number of workers and every size of the rings.                          *)
(*                                                                         *)
(* The invariant relates the three places where a block under way is       *)
(* recorded: the history issued, the interval from fft1_pa to fft1_pt, and *)
(* the tasks of the workers.  It holds in Calm reception, which ESC may    *)
(* end; with "f5", "txtest", "stop" or "spurious" some part of it fails.   *)
(***************************************************************************)
EXTENDS Fft1PoolProof, FiniteSetTheorems, WellFoundedInduction

Calm == Disturbances \subseteq {"kill", "mouse", "overrun", "slow"}

Starting == {"first", "create", "created", "restart", "settle"}

\* How many slots the slot of worker w is ahead of fft1_pa.
Off(w) == Behind(fft1_pa, out[w], OutSlots)

Undisturbed ==
  /\ pc \notin {"idle", "idleawait"}
  /\ cmd # "IDLE" /\ (cmd = "ACTIVE" \/ kill_all_flag)
  /\ pc \in {"leave", "stop", "join", "returned"} => kill_all_flag
  /\ txtest = "run" /\ computation_pause_flag = FALSE

\* Nothing is under way before the loop.
NothingYet == pc \in Starting => issued = <<>> /\ \A w \in Workers : ~ptrchk[w]

\* The slots between fft1_pa and fft1_pt belong to the blocks under way, ...
SlotsMatch == Behind(fft1_pa, fft1_pt, OutSlots) = Len(issued)

\* ... which are the last ones before timf1p_px, ...
BlocksMatch ==
  \A k \in 1 .. Len(issued) :
    Behind(issued[k], timf1p_px, InBlocks) = Len(issued) - k + 1

\* ... and each has exactly one worker.
TaskOf(w) == /\ out[w] \in Slots /\ Off(w) < Len(issued)
             /\ inptr[w] = issued[Off(w) + 1]

TasksMatch ==
  /\ \A w \in Workers : ptrchk[w] => TaskOf(w)
  /\ \A v, w \in Workers : ptrchk[v] /\ ptrchk[w] /\ v # w => Off(v) # Off(w)
  /\ \A k \in 0 .. Len(issued) - 1 : \E w \in Workers : ptrchk[w] /\ Off(w) = k

\* A worker computes its own task, and leaves the transform in its slot.
WorkOf(w) ==
  /\ wpc[w] = "fft" => ptrchk[w] /\ status[w] = "ACTIVE"
  /\ ptrchk[w] /\ status[w] = "IDLE" => fft1_float[out[w]] = inptr[w]

WorkMatches == \A w \in Workers : WorkOf(w)

\* The use of the event, until kill_all.
HandshakeOf(w) ==
  /\ wpc[w] # "none" => command[w] = "ACTIVE"
  /\ \/ wpc[w] = "none" /\ status[w] = "NOT_ACTIVE" /\ ~event[w] /\ ~ptrchk[w]
     \/ wpc[w] = "top" /\ status[w] \in {"INIT", "IDLE"} /\ ~event[w] /\ ~ptrchk[w]
     \/ wpc[w] = "wait1" /\ status[w] = "SEM_WAIT" /\ (event[w] <=> ptrchk[w])
     \/ wpc[w] = "fft" /\ status[w] = "ACTIVE" /\ ~event[w] /\ ptrchk[w]
     \/ /\ wpc[w] \in {"done", "wait2"} /\ status[w] = "IDLE"
        /\ (event[w] <=> ~ptrchk[w]) /\ pc \notin Starting

Handshake == ~kill_all_flag => \A w \in Workers : HandshakeOf(w)

Ring == NothingYet /\ SlotsMatch /\ BlocksMatch /\ TasksMatch

RingInv == Ring /\ WorkMatches

IInv == Undisturbed /\ RingInv /\ Handshake

-----------------------------------------------------------------------------
(* Distances in a ring                                                      *)

USE DEF Workers, InPos, Slots, Invalid, NoSlot, Timf1, Positions

LEMMA BehindType ==
  ASSUME NEW M \in Nat, NEW p \in Positions(M), NEW q \in Positions(M)
  PROVE  Behind(q, p, M) \in 0 .. M - 1
  BY DEF Behind

LEMMA BehindSelf ==
  ASSUME NEW M \in Nat, NEW p \in Positions(M)
  PROVE  Behind(p, p, M) = 0
  BY DEF Behind

LEMMA BehindInjective ==
  ASSUME NEW M \in Nat, NEW q \in Positions(M),
         NEW p \in Positions(M), NEW r \in Positions(M),
         Behind(q, p, M) = Behind(q, r, M)
  PROVE  p = r
  BY DEF Behind

LEMMA BehindAhead ==
  ASSUME NEW M \in Nat, NEW q \in Positions(M), NEW p \in Positions(M),
         Behind(q, p, M) + 1 < M
  PROVE  Behind(q, NextPos(p, M), M) = Behind(q, p, M) + 1
  BY DEF Behind, NextPos

LEMMA BehindFollow ==
  ASSUME NEW M \in Nat, NEW q \in Positions(M), NEW p \in Positions(M),
         Behind(q, p, M) > 0
  PROVE  Behind(NextPos(q, M), p, M) = Behind(q, p, M) - 1
  BY DEF Behind, NextPos

-----------------------------------------------------------------------------
(* There are no more blocks under way than workers                          *)

LEMMA OneEach ==
  ASSUME NEW L \in Nat, NEW T, IsFiniteSet(T), NEW f \in [0 .. L - 1 -> T],
         \A j, k \in 0 .. L - 1 : f[j] = f[k] => j = k
  PROVE  L <= Cardinality(T)
<1>1. IsFiniteSet(0 .. L - 1) /\ Cardinality(0 .. L - 1) = L
  BY FS_Interval
<1>2. Cardinality(T) \in Nat
  BY FS_CardinalityType
<1>3. ~(Cardinality(T) < Cardinality(0 .. L - 1))
  BY <1>1, FS_PigeonHole
<1> QED
  BY <1>1, <1>2, <1>3

LEMMA FewIssued ==
  ASSUME TypeOK, TasksMatch
  PROVE  /\ Len(issued) \in Nat /\ Len(issued) <= no_of_fft1b
         /\ \A w \in Workers : ~ptrchk[w] => Len(issued) < no_of_fft1b
<1> USE PoolAssumption
<1> DEFINE L == Len(issued)
           Holder == [k \in 0 .. L - 1 |->
                        CHOOSE w \in Workers : ptrchk[w] /\ Off(w) = k]
<1>1. L \in Nat
  BY DEF TypeOK
<1>2. \A k \in 0 .. L - 1 : /\ Holder[k] \in Workers
                            /\ ptrchk[Holder[k]] /\ Off(Holder[k]) = k
  BY DEF TasksMatch
<1>3. \A j, k \in 0 .. L - 1 : Holder[j] = Holder[k] => j = k
  BY <1>2
<1>4. IsFiniteSet(Workers) /\ Cardinality(Workers) = no_of_fft1b
  BY FS_Interval
<1>5. L <= no_of_fft1b
  <2>1. Holder \in [0 .. L - 1 -> Workers]
    BY <1>2
  <2> HIDE DEF Holder
  <2> QED
    BY <1>1, <1>3, <1>4, <2>1, OneEach
<1>6. ASSUME NEW w \in Workers, ~ptrchk[w] PROVE L < no_of_fft1b
  <2>1. Holder \in [0 .. L - 1 -> Workers \ {w}]
    BY <1>2, <1>6
  <2>2. /\ IsFiniteSet(Workers \ {w})
        /\ Cardinality(Workers \ {w}) = no_of_fft1b - 1
    <3> HIDE DEF Workers
    <3> QED
      BY <1>4, FS_RemoveElement
  <2>3. L <= Cardinality(Workers \ {w})
    <3> HIDE DEF Holder, Workers
    <3> QED
      BY <1>1, <1>3, <2>1, <2>2, OneEach
  <2> QED
    BY <1>1, <2>2, <2>3
<1> QED
  BY <1>1, <1>5, <1>6
-----------------------------------------------------------------------------
(* Nobody disturbs                                                          *)

LEMMA UndisturbedStep ==
  ASSUME Calm, TypeOK, Undisturbed, [Next]_vars
  PROVE  Undisturbed'
<1> USE DEF Undisturbed, Calm, Running, Goto, wbvars, ptrs, threads, tasks, env
<1>1. ASSUME Wideband PROVE Undisturbed'
  <2>1. CASE FirstInput \/ CreateWorker \/ WorkerReady \/ Restart \/ Settle \/
           GoToSleep \/ WakeUp \/ ServeMouse
    BY <2>1 DEF FirstInput, CreateWorker, WorkerReady, Restart, Settle,
       GoToSleep, WakeUp, ServeMouse
  <2>2. CASE SkipBlock \/ StartAssigning \/ Assign \/ PassOver \/
           AssignedAll \/ Collect \/ CollectedAll \/ LeaveLoop
    BY <2>2 DEF SkipBlock, StartAssigning, Assign, PassOver, AssignedAll,
       Collect, CollectedAll, LeaveLoop
  <2>3. CASE BecomeIdle \/ StayIdle \/ SkipWhileIdle \/ StopWorker \/
           PostAgain \/ ReleaseWorker \/ JoinWorker \/ Return
    BY <2>3 DEF BecomeIdle, StayIdle, SkipWhileIdle, StopWorker, PostAgain,
       ReleaseWorker, JoinWorker, Return
  <2> QED
    BY <1>1, <2>1, <2>2, <2>3 DEF Wideband
<1>2. ASSUME NEW w \in Workers, Worker(w) PROVE Undisturbed'
  <2>1. CASE WorkerTop(w) \/ StartFft(w) \/ FinishFft(w) \/ ReportDone(w) \/
           Released(w) \/ WorkerExit(w) \/ WorkerEnd(w)
    BY <2>1 DEF WorkerTop, StartFft, FinishFft, ReportDone, Released,
       WorkerExit, WorkerEnd
  <2> QED
    BY <1>2, <2>1 DEF Worker
<1>3. ASSUME Environment PROVE Undisturbed'
  <2>1. CASE Input \/ ToggleF5 \/ StopWideband \/ PostWideband \/
           JoinWideband \/ KillAll \/ KillWideband \/ TxTestAsk \/ TxTestPause
    BY <2>1 DEF Input, ToggleF5, StopWideband, PostWideband, JoinWideband,
       KillAll, KillWideband, TxTestAsk, TxTestPause
  <2>2. CASE TxTestPaused \/ TxTestResume
    BY <2>2 DEF TxTestPaused, TxTestResume
  <2>3. ASSUME NEW w \in Workers, KillWorker(w) PROVE Undisturbed'
    BY <2>3 DEF KillWorker
  <2> QED
    BY <1>3, <2>1, <2>2, <2>3 DEF Environment
<1>4. CASE UNCHANGED vars
    BY <1>4 DEF vars
<1> QED
  BY <1>1, <1>2, <1>3, <1>4 DEF Next, Stopped

LEMMA HandshakeStep ==
  ASSUME Calm, TypeOK, InRange, Undisturbed, NothingYet, Handshake, [Next]_vars
  PROVE  Handshake'
<1> USE DEF TypeOK, Calm, Undisturbed, Running, Goto, SetEvent, TakeEvent, Awake, MayWake,
           Spurious, wbvars, ptrs, threads, tasks, env
<1> SUFFICES ASSUME ~kill_all_flag', NEW v \in Workers PROVE HandshakeOf(v)'
  BY DEF Handshake
<1>h. ~kill_all_flag => HandshakeOf(v)
  BY DEF Handshake
<1> USE DEF Starting
<1>f. ~kill_all_flag /\ UNCHANGED <<wpc, status, command, ptrchk>> /\ event'[v] = event[v]
        /\ (pc' \in Starting => pc \in Starting) => HandshakeOf(v)'
  BY <1>h DEF HandshakeOf
<1>1. ASSUME Wideband PROVE HandshakeOf(v)'
  <2>1. CASE FirstInput
    <3>1. ptrchk[v] = FALSE
      BY <2>1 DEF HandshakeOf, FirstInput, NothingYet
    <3>2. ptrchk'[v] = FALSE
      BY <2>1, <3>1 DEF HandshakeOf, FirstInput
    <3>3. event'[v] = event[v]
      BY <2>1 DEF HandshakeOf, FirstInput
    <3> QED
      BY <2>1, <1>h, <3>1, <3>2, <3>3 DEF HandshakeOf, FirstInput
  <2>2. CASE CreateWorker
    <3>1. ptrchk[v] = FALSE /\ ~kill_all_flag
      BY <2>2 DEF HandshakeOf, CreateWorker, NothingYet
    <3>2. CASE v = i
      BY <2>2, <1>h, <3>1, <3>2 DEF HandshakeOf, CreateWorker, InRange
    <3>3. CASE v # i
      BY <2>2, <1>h, <3>1, <3>3 DEF HandshakeOf, CreateWorker
    <3> QED
      BY <3>2, <3>3
  <2>3. CASE Assign
    <3>1. ~kill_all_flag /\ v # 0
      BY <2>3 DEF HandshakeOf, Assign
    <3>2. CASE v = i
      BY <2>3, <1>h, <3>1, <3>2 DEF HandshakeOf, Assign, Free
    <3>3. CASE v # i
      BY <2>3, <1>h, <3>1, <3>3 DEF HandshakeOf, Assign, Free
    <3> QED
      BY <3>2, <3>3
  <2>4. CASE Collect
    <3>1. ~kill_all_flag /\ v # 0
      BY <2>4 DEF HandshakeOf, Collect
    <3>2. CASE v = Oldest
      BY <2>4, <1>h, <3>1, <3>2 DEF HandshakeOf, Collect, Collectable
    <3>3. CASE v # Oldest
      BY <2>4, <1>h, <3>1, <3>3 DEF HandshakeOf, Collect, Collectable
    <3> QED
      BY <3>2, <3>3
  <2>5. CASE WorkerReady \/ Restart \/ Settle \/ GoToSleep \/ WakeUp \/
           ServeMouse \/ SkipBlock \/ StartAssigning
    BY <2>5, <1>f DEF WorkerReady, Restart, Settle, GoToSleep, WakeUp,
       ServeMouse, SkipBlock, StartAssigning
  <2>6. CASE PassOver \/ AssignedAll \/ CollectedAll \/ LeaveLoop \/
           BecomeIdle \/ StayIdle \/ SkipWhileIdle \/ StopWorker
    BY <2>6, <1>f DEF PassOver, AssignedAll, CollectedAll, LeaveLoop,
       BecomeIdle, StayIdle, SkipWhileIdle, StopWorker
  <2>7. CASE PostAgain \/ ReleaseWorker \/ JoinWorker \/ Return
    BY <2>7, <1>f DEF PostAgain, ReleaseWorker, JoinWorker, Return
  <2> QED
    BY <1>1, <2>1, <2>2, <2>3, <2>4, <2>5, <2>6, <2>7 DEF Wideband
<1>2. ASSUME NEW w \in Workers, Worker(w) PROVE HandshakeOf(v)'
  <2>1. CASE WorkerTop(w)
    BY <2>1, <1>h DEF HandshakeOf, WorkerTop
  <2>2. CASE StartFft(w)
    BY <2>2, <1>h DEF HandshakeOf, StartFft
  <2>3. CASE FinishFft(w)
    <3>1. ~kill_all_flag /\ v # 0
      BY <2>3 DEF HandshakeOf, FinishFft
    <3>2. CASE v = w
      BY <2>3, <1>h, <3>1, <3>2 DEF HandshakeOf, FinishFft, NothingYet
    <3>3. CASE v # w
      BY <2>3, <1>h, <3>1, <3>3 DEF HandshakeOf, FinishFft, NothingYet
    <3> QED
      BY <3>2, <3>3
  <2>4. CASE ReportDone(w)
    <3>1. ~kill_all_flag /\ v # 0
      BY <2>4 DEF HandshakeOf, ReportDone
    <3>2. CASE v = w
      BY <2>4, <1>h, <3>1, <3>2 DEF HandshakeOf, ReportDone
    <3>3. CASE v # w
      BY <2>4, <1>h, <3>1, <3>3 DEF HandshakeOf, ReportDone
    <3> QED
      BY <3>2, <3>3
  <2>5. CASE Released(w)
    BY <2>5, <1>h DEF HandshakeOf, Released
  <2>6. CASE WorkerExit(w)
    BY <2>6, <1>h DEF HandshakeOf, WorkerExit
  <2>7. CASE WorkerEnd(w)
    BY <2>7, <1>h DEF HandshakeOf, WorkerEnd
  <2> QED
    BY <1>2, <2>1, <2>2, <2>3, <2>4, <2>5, <2>6, <2>7 DEF Worker
<1>3. ASSUME Environment PROVE HandshakeOf(v)'
  <2>1. CASE Input \/ ToggleF5 \/ StopWideband \/ PostWideband \/
           JoinWideband \/ KillAll \/ KillWideband \/ TxTestAsk \/ TxTestPause
    BY <2>1, <1>f DEF Input, ToggleF5, StopWideband, PostWideband,
       JoinWideband, KillAll, KillWideband, TxTestAsk, TxTestPause
  <2>2. CASE TxTestPaused \/ TxTestResume
    BY <2>2, <1>f DEF TxTestPaused, TxTestResume
  <2>3. ASSUME NEW w \in Workers, KillWorker(w) PROVE HandshakeOf(v)'
    BY <2>3, <1>f DEF KillWorker
  <2> QED
    BY <1>3, <2>1, <2>2, <2>3 DEF Environment
<1>4. CASE UNCHANGED vars
    BY <1>4, <1>f DEF vars
<1> QED
  BY <1>1, <1>2, <1>3, <1>4 DEF Next, Stopped

LEMMA WorkStep ==
  ASSUME Calm, TypeOK, Undisturbed, RingInv, Handshake, [Next]_vars
  PROVE  WorkMatches'
<1> USE DEF RingInv, Ring, TypeOK, Goto, wbvars, ptrs, threads, tasks, env
<1> SUFFICES ASSUME NEW v \in Workers PROVE WorkOf(v)'
  BY DEF WorkMatches
<1>h. WorkOf(v)
  BY DEF WorkMatches
<1>d. ASSUME NEW w \in Workers, ptrchk[v], ptrchk[w], v # w
      PROVE  out[w] \in Slots /\ out[v] \in Slots /\ out[w] # out[v]
  BY <1>d DEF TasksMatch, TaskOf, Off
<1> USE DEF WorkOf
<1>1. ASSUME Wideband PROVE WorkOf(v)'
  <2>1. CASE FirstInput
    <3>1. ptrchk[v] = FALSE
      BY <2>1 DEF FirstInput, NothingYet, Starting
    <3> QED
      BY <2>1, <1>h, <3>1 DEF FirstInput
  <2>2. CASE Assign
    <3>2. CASE v = i
      BY <2>2, <1>h, <3>2 DEF Assign, Free
    <3>3. CASE v # i
      BY <2>2, <1>h, <3>3 DEF Assign, Free
    <3> QED
      BY <3>2, <3>3
  <2>3. CASE Collect
    <3>2. CASE v = Oldest
      BY <2>3, <1>h, <3>2 DEF Collect, Collectable
    <3>3. CASE v # Oldest
      BY <2>3, <1>h, <3>3 DEF Collect, Collectable
    <3> QED
      BY <3>2, <3>3
  <2>4. CASE CreateWorker \/ WorkerReady \/ Restart \/ Settle \/ GoToSleep \/
           WakeUp \/ ServeMouse \/ SkipBlock
    BY <2>4, <1>h DEF CreateWorker, WorkerReady, Restart, Settle, GoToSleep,
       WakeUp, ServeMouse, SkipBlock
  <2>5. CASE StartAssigning \/ PassOver \/ AssignedAll \/ CollectedAll \/
           LeaveLoop \/ BecomeIdle \/ StayIdle \/ SkipWhileIdle
    BY <2>5, <1>h DEF StartAssigning, PassOver, AssignedAll, CollectedAll,
       LeaveLoop, BecomeIdle, StayIdle, SkipWhileIdle
  <2>6. CASE StopWorker \/ PostAgain \/ ReleaseWorker \/ JoinWorker \/ Return
    BY <2>6, <1>h DEF StopWorker, PostAgain, ReleaseWorker, JoinWorker, Return
  <2> QED
    BY <1>1, <2>1, <2>2, <2>3, <2>4, <2>5, <2>6 DEF Wideband
<1>2. ASSUME NEW w \in Workers, Worker(w) PROVE WorkOf(v)'
  <2>1. CASE StartFft(w)
    <3>1. ptrchk[w] \/ kill_all_flag
      BY <2>1 DEF StartFft, Handshake, HandshakeOf, Awake, MayWake, Spurious, Calm
    <3>2. CASE kill_all_flag
      BY <2>1, <1>h, <3>2 DEF StartFft
    <3>3. CASE ~kill_all_flag /\ v = w
      BY <2>1, <1>h, <3>1, <3>3 DEF StartFft
    <3>4. CASE ~kill_all_flag /\ v # w
      <4>1. ptrchk[v] => fft1_float'[out[v]] = fft1_float[out[v]]
        BY <2>1, <3>1, <3>4, <1>d DEF StartFft
      <4> QED
        BY <2>1, <1>h, <3>4, <4>1 DEF StartFft
    <3> QED
      BY <3>2, <3>3, <3>4
  <2>2. CASE FinishFft(w)
    <3>1. ptrchk[w] /\ out[w] \in Slots
      BY <2>2 DEF FinishFft, WorkMatches, TasksMatch, TaskOf
    <3>2. CASE v = w
      BY <2>2, <1>h, <3>1, <3>2 DEF FinishFft
    <3>3. CASE v # w
      <4>1. ptrchk[v] => fft1_float'[out[v]] = fft1_float[out[v]]
        BY <2>2, <3>1, <3>3, <1>d DEF FinishFft
      <4> QED
        BY <2>2, <1>h, <3>3, <4>1 DEF FinishFft
    <3> QED
      BY <3>2, <3>3
  <2>3. CASE WorkerTop(w) \/ ReportDone(w)
    BY <2>3, <1>h DEF WorkerTop, ReportDone
  <2>4. CASE Released(w)
    BY <2>4, <1>h DEF Released
  <2>5. CASE WorkerExit(w) \/ WorkerEnd(w)
    BY <2>5, <1>h DEF WorkerExit, WorkerEnd
  <2> QED
    BY <1>2, <2>1, <2>2, <2>3, <2>4, <2>5 DEF Worker
<1>3. ASSUME Environment PROVE WorkOf(v)'
  <2>1. CASE Input \/ ToggleF5 \/ StopWideband \/ PostWideband \/
           JoinWideband \/ KillAll \/ KillWideband \/ TxTestAsk \/ TxTestPause
    BY <2>1, <1>h DEF Input, ToggleF5, StopWideband, PostWideband,
       JoinWideband, KillAll, KillWideband, TxTestAsk, TxTestPause
  <2>2. CASE TxTestPaused \/ TxTestResume
    BY <2>2, <1>h DEF TxTestPaused, TxTestResume
  <2>3. ASSUME NEW w \in Workers, KillWorker(w) PROVE WorkOf(v)'
    BY <2>3, <1>h DEF KillWorker
  <2> QED
    BY <1>3, <2>1, <2>2, <2>3 DEF Environment
<1>4. CASE UNCHANGED vars
    BY <1>4, <1>h DEF vars
<1> QED
  BY <1>1, <1>2, <1>3, <1>4 DEF Next, Stopped

LEMMA RingFrame ==
  ASSUME Ring, pc' \in Starting => pc \in Starting,
         UNCHANGED <<timf1p_px, fft1_pt, fft1_pa, ptrchk, inptr, out, issued>>
  PROVE  Ring'
<1>1. NothingYet'
  BY DEF Ring, NothingYet
<1>2. SlotsMatch' /\ BlocksMatch'
  BY DEF Ring, SlotsMatch, BlocksMatch
<1>3. TasksMatch'
  BY DEF Ring, TasksMatch, TaskOf, Off
<1> QED
  BY <1>1, <1>2, <1>3 DEF Ring

\* A block is handed out.
LEMMA RingAssign ==
  ASSUME TypeOK, Ring, Assign
  PROVE  Ring'
<1> DEFINE L == Len(issued)
<1>0. /\ no_of_fft1b \in Nat /\ InBlocks \in Nat /\ OutSlots \in Nat
      /\ no_of_fft1b < InBlocks /\ no_of_fft1b < OutSlots
      /\ timf1p_px \in InPos /\ fft1_pa \in Slots /\ fft1_pt \in Slots
      /\ issued \in Seq(InPos)
  BY PoolAssumption DEF TypeOK
<1>j. PICK j \in Workers : j = i
  BY PoolAssumption DEF Assign, TypeOK
<1>1. /\ j = i /\ ~ptrchk[j] /\ pc = "assign" /\ pc' = "assign"
      /\ fft1_pa' = fft1_pa
      /\ fft1_pt' = NextPos(fft1_pt, OutSlots)
      /\ timf1p_px' = NextPos(timf1p_px, InBlocks)
      /\ issued' = Append(issued, timf1p_px)
  BY <1>j DEF Assign, Free
<1>2. L \in Nat /\ L < no_of_fft1b
  BY <1>1, FewIssued DEF Ring
<1>3. /\ Len(issued') = L + 1
      /\ \A k \in 1 .. L : issued'[k] = issued[k]
      /\ issued'[L + 1] = timf1p_px
  BY <1>0, <1>1, <1>2
<1>4. /\ \A w \in Workers : w # j => /\ ptrchk'[w] = ptrchk[w]
                                     /\ out'[w] = out[w] /\ inptr'[w] = inptr[w]
      /\ ptrchk'[j] /\ out'[j] = fft1_pt /\ inptr'[j] = timf1p_px
  BY <1>1 DEF Assign, TypeOK
<1>5. ASSUME NEW w \in Workers, w # j PROVE Off(w)' = Off(w)
  BY <1>1, <1>4, <1>5 DEF Off
<1>6. Off(j)' = L
  BY <1>1, <1>4 DEF Off, Ring, SlotsMatch
<1>7. NothingYet'
  BY <1>1 DEF NothingYet, Starting
<1>8. SlotsMatch'
  <2>1. Behind(fft1_pa, fft1_pt, OutSlots) = L
    BY DEF Ring, SlotsMatch
  <2>2. Behind(fft1_pa, NextPos(fft1_pt, OutSlots), OutSlots) = L + 1
    BY <1>0, <1>2, <2>1, BehindAhead
  <2> QED
    BY <1>1, <1>3, <2>2 DEF SlotsMatch
<1>9. BlocksMatch'
  <2> SUFFICES ASSUME NEW k \in 1 .. L + 1
               PROVE  Behind(issued'[k], timf1p_px', InBlocks) = L + 1 - k + 1
    BY <1>2, <1>3 DEF BlocksMatch
  <2>1. CASE k = L + 1
    <3>1. Behind(timf1p_px, timf1p_px, InBlocks) = 0
      BY <1>0, BehindSelf
    <3>2. Behind(timf1p_px, NextPos(timf1p_px, InBlocks), InBlocks) = 1
      BY <1>0, <1>2, <3>1, BehindAhead
    <3> QED
      BY <1>1, <1>2, <1>3, <2>1, <3>2
  <2>2. CASE k \in 1 .. L
    <3>1. issued[k] \in InPos /\ Behind(issued[k], timf1p_px, InBlocks) = L - k + 1
      BY <1>0, <2>2 DEF Ring, BlocksMatch
    <3>2. Behind(issued[k], timf1p_px, InBlocks) + 1 < InBlocks
      BY <1>0, <1>2, <2>2, <3>1
    <3>3. Behind(issued[k], NextPos(timf1p_px, InBlocks), InBlocks) = L - k + 1 + 1
      BY <1>0, <3>1, <3>2, BehindAhead
    <3> QED
      BY <1>1, <1>2, <1>3, <2>2, <3>3
  <2> QED
    BY <1>2, <2>1, <2>2
<1>10. \A w \in Workers : ptrchk'[w] => TaskOf(w)'
  <2> SUFFICES ASSUME NEW w \in Workers, ptrchk'[w] PROVE TaskOf(w)'
    OBVIOUS
  <2>1. CASE w = j
    BY <1>0, <1>2, <1>3, <1>4, <1>6, <2>1 DEF TaskOf
  <2>2. CASE w # j
    <3>1. TaskOf(w) /\ Off(w)' = Off(w)
      BY <1>4, <1>5, <2>2 DEF Ring, TasksMatch
    <3>2. Off(w) \in 0 .. L - 1
      <4>1. Off(w) \in 0 .. OutSlots - 1
        BY <1>0, <3>1, BehindType DEF TaskOf, Off
      <4> QED
        BY <1>0, <1>2, <3>1, <4>1 DEF TaskOf
    <3>3. issued'[Off(w) + 1] = issued[Off(w) + 1]
      BY <1>2, <1>3, <3>2
    <3> QED
      BY <1>2, <1>3, <1>4, <2>2, <3>1, <3>2, <3>3 DEF TaskOf
  <2> QED
    BY <2>1, <2>2
<1>11. \A w \in Workers : w # j /\ ptrchk'[w] => Off(w) < L /\ Off(w)' = Off(w)
  BY <1>4, <1>5 DEF Ring, TasksMatch, TaskOf
<1>12. \A v, w \in Workers : ptrchk'[v] /\ ptrchk'[w] /\ v # w => Off(v)' # Off(w)'
  <2> SUFFICES ASSUME NEW v \in Workers, NEW w \in Workers,
                      ptrchk'[v], ptrchk'[w], v # w
               PROVE  Off(v)' # Off(w)'
    OBVIOUS
  <2>1. CASE v = j
    BY <1>2, <1>6, <1>11, <2>1
  <2>2. CASE w = j
    BY <1>2, <1>6, <1>11, <2>2
  <2>3. CASE v # j /\ w # j
    BY <1>4, <1>11, <2>3 DEF Ring, TasksMatch
  <2> QED
    BY <2>1, <2>2, <2>3
<1>13. \A k \in 0 .. L : \E w \in Workers : ptrchk'[w] /\ Off(w)' = k
  <2> SUFFICES ASSUME NEW k \in 0 .. L
               PROVE  \E w \in Workers : ptrchk'[w] /\ Off(w)' = k
    OBVIOUS
  <2>1. CASE k = L
    <3> WITNESS j \in Workers
    <3> QED
      BY <1>4, <1>6, <2>1
  <2>2. CASE k \in 0 .. L - 1
    <3>1. PICK w \in Workers : ptrchk[w] /\ Off(w) = k
      BY <2>2 DEF Ring, TasksMatch
    <3>2. ptrchk'[w] /\ Off(w)' = k
      BY <1>1, <1>4, <1>5, <3>1
    <3> QED
      BY <3>2
  <2> QED
    BY <1>2, <2>1, <2>2
<1>14. TasksMatch'
  <2>1. Len(issued') - 1 = L
    BY <1>2, <1>3
  <2> QED
    BY <1>10, <1>12, <1>13, <2>1 DEF TasksMatch
<1> QED
  BY <1>7, <1>8, <1>9, <1>14 DEF Ring

LEMMA Smallest ==
  ASSUME NEW T, T \subseteq Nat, T # {}
  PROVE  \E x \in T : \A y \in T : x <= y
<1>1. PICK x \in T : \A y \in T : ~ (<<y, x>> \in OpToRel(<, Nat))
  <2> HIDE DEF OpToRel
  <2> QED
    BY NatLessThanWellFounded, WFMin
<1>2. \A y \in T : ~ (y < x)
  BY <1>1 DEF OpToRel
<1> QED
  BY <1>2

\* The oldest worker is one of the workers, and none is older.
LEMMA OldestExists ==
  ASSUME TypeOK
  PROVE  Oldest \in Workers /\ \A v \in Workers : Age(v) <= Age(Oldest)
<1>1. \A w \in Workers : Age(w) \in 0 .. InBlocks - 1
  BY PoolAssumption, BehindType DEF Age, TypeOK
<1>2. InBlocks \in Nat /\ no_of_fft1b \in Nat \ {0}
  BY PoolAssumption
<1> DEFINE Youth(w) == InBlocks - Age(w)
<1>3. \A w \in Workers : Youth(w) \in Nat
  BY <1>1, <1>2
<1>4. PICK m \in Workers : \A v \in Workers : Age(v) <= Age(m)
  <2> DEFINE T == {Youth(w) : w \in Workers}
  <2>1. T \subseteq Nat /\ T # {}
    BY <1>2, <1>3
  <2>2. PICK x \in T : \A y \in T : x <= y
    <3> HIDE DEF T
    <3> QED
      BY <2>1, Smallest
  <2>3. PICK m \in Workers : x = Youth(m)
    BY <2>2
  <2>4. \A v \in Workers : Youth(m) <= Youth(v)
    BY <2>2, <2>3
  <2>5. \A v \in Workers : Age(v) <= Age(m)
    BY <1>1, <1>2, <2>4
  <2> QED
    BY <2>5
<1>5. PICK f \in {w \in Workers : Age(w) = Age(m)} :
        \A v \in {w \in Workers : Age(w) = Age(m)} : f <= v
  <2> DEFINE T == {w \in Workers : Age(w) = Age(m)}
  <2>1. T \subseteq Nat /\ T # {}
    OBVIOUS
  <2> HIDE DEF T
  <2>2. \E x \in T : \A y \in T : x <= y
    BY <2>1, Smallest
  <2> QED
    BY <2>2 DEF T
<1>6. ASSUME NEW v \in Workers
      PROVE  Age(v) <= Age(f) /\ (v < f => Age(v) < Age(f))
  BY <1>1, <1>4, <1>5
<1>7. \E w \in Workers : \A v \in Workers :
        Age(v) <= Age(w) /\ (v < w => Age(v) < Age(w))
  BY <1>5, <1>6
<1> QED
  BY <1>7 DEF Oldest

\* What is collected is the first of the blocks under way.
LEMMA CollectsFirst ==
  ASSUME TypeOK, Ring, ptrchk[Oldest]
  PROVE  /\ issued # <<>> /\ Off(Oldest) = 0
         /\ out[Oldest] = fft1_pa /\ inptr[Oldest] = issued[1]
<1> DEFINE L == Len(issued)
<1>0. /\ InBlocks \in Nat /\ OutSlots \in Nat /\ fft1_pa \in Slots /\ L \in Nat
      /\ timf1p_px \in InPos
  BY PoolAssumption DEF TypeOK
<1>1. Oldest \in Workers
  BY OldestExists
<1>2. ASSUME NEW w \in Workers, ptrchk[w]
      PROVE  /\ out[w] \in Slots /\ Off(w) \in 0 .. L - 1
             /\ inptr[w] = issued[Off(w) + 1] /\ Age(w) = L - Off(w)
  <2>1. TaskOf(w)
    BY <1>2 DEF Ring, TasksMatch
  <2>2. Off(w) \in 0 .. L - 1
    <3>1. Off(w) \in 0 .. OutSlots - 1
      BY <1>0, <2>1, BehindType DEF TaskOf, Off
    <3> QED
      BY <1>0, <2>1, <3>1 DEF TaskOf
  <2>3. Behind(issued[Off(w) + 1], timf1p_px, InBlocks) = L - (Off(w) + 1) + 1
    <3>1. Off(w) + 1 \in 1 .. Len(issued)
      BY <1>0, <2>2
    <3> QED
      BY <3>1 DEF Ring, BlocksMatch
  <2> QED
    BY <1>0, <2>1, <2>2, <2>3 DEF TaskOf, Age
<1>3. L > 0
  BY <1>0, <1>1, <1>2
<1>4. PICK v \in Workers : ptrchk[v] /\ Off(v) = 0
  BY <1>0, <1>3 DEF Ring, TasksMatch
<1>5. Age(v) <= Age(Oldest)
  BY OldestExists
<1>6. Off(Oldest) = 0
  <2>1. Age(v) = L /\ Age(Oldest) = L - Off(Oldest) /\ Off(Oldest) \in 0 .. L - 1
    <3> HIDE DEF Oldest
    <3> QED
      BY <1>0, <1>1, <1>2, <1>4
  <2> QED
    BY <1>0, <1>5, <2>1
<1>7. out[Oldest] \in Slots /\ inptr[Oldest] = issued[1]
  <2> HIDE DEF Oldest
  <2> QED
    BY <1>1, <1>2, <1>6
<1>8. out[Oldest] = fft1_pa
  <2>1. Behind(fft1_pa, out[Oldest], OutSlots) = Behind(fft1_pa, fft1_pa, OutSlots)
    BY <1>0, <1>6, BehindSelf DEF Off
  <2> QED
    BY <1>0, <1>7, <2>1, BehindInjective
<1> QED
  BY <1>0, <1>3, <1>6, <1>7, <1>8

\* The first block under way is published.
LEMMA RingCollect ==
  ASSUME TypeOK, Ring, Collect
  PROVE  Ring'
<1> DEFINE L == Len(issued)
<1>0. /\ no_of_fft1b \in Nat /\ InBlocks \in Nat /\ OutSlots \in Nat
      /\ timf1p_px \in InPos /\ fft1_pa \in Slots /\ fft1_pt \in Slots
      /\ issued \in Seq(InPos) /\ L \in Nat
  BY PoolAssumption DEF TypeOK
<1>1. PICK j \in Workers : j = Oldest
  BY OldestExists
<1>2. ptrchk[j] /\ issued # <<>> /\ Off(j) = 0
  <2>1. ptrchk[Oldest]
    BY DEF Collect, Collectable
  <2> QED
    BY <1>1, <2>1, CollectsFirst
<1>3. /\ pc = "collect" /\ UNCHANGED <<pc, fft1_pt, timf1p_px, inptr, out>>
      /\ fft1_pa' = NextPos(fft1_pa, OutSlots)
      /\ issued' = Tail(issued)
  BY <1>2 DEF Collect, wbvars
<1>4. /\ ~ptrchk'[j]
      /\ \A w \in Workers : w # j => ptrchk'[w] = ptrchk[w]
  BY <1>1 DEF Collect, TypeOK
<1>5. /\ L > 0 /\ Len(issued') = L - 1
      /\ \A k \in 1 .. L - 1 : issued'[k] = issued[k + 1]
  BY <1>0, <1>2, <1>3
<1>6. ASSUME NEW w \in Workers, ptrchk'[w]
      PROVE  /\ w # j /\ ptrchk[w] /\ TaskOf(w)
             /\ Off(w) \in 1 .. L - 1 /\ Off(w)' = Off(w) - 1
  <2>1. w # j /\ ptrchk[w] /\ TaskOf(w) /\ Off(w) # 0
    BY <1>2, <1>4, <1>6 DEF Ring, TasksMatch
  <2>2. Off(w) \in 1 .. L - 1
    <3>1. Off(w) \in 0 .. OutSlots - 1
      BY <1>0, <2>1, BehindType DEF TaskOf, Off
    <3> QED
      BY <1>0, <2>1, <3>1 DEF TaskOf
  <2>3. Off(w)' = Off(w) - 1
    <3>1. Off(w)' = Behind(NextPos(fft1_pa, OutSlots), out[w], OutSlots)
      BY <1>3 DEF Off
    <3>2. fft1_pa \in Slots /\ out[w] \in Slots /\ Behind(fft1_pa, out[w], OutSlots) > 0
      BY <1>0, <2>1, <2>2 DEF TaskOf, Off
    <3>3. Behind(NextPos(fft1_pa, OutSlots), out[w], OutSlots)
            = Behind(fft1_pa, out[w], OutSlots) - 1
      BY <1>0, <3>2, BehindFollow
    <3> QED
      BY <3>1, <3>3 DEF Off
  <2> QED
    BY <2>1, <2>2, <2>3
<1>7. NothingYet'
  BY <1>3 DEF NothingYet, Starting
<1>8. SlotsMatch'
  <2>1. Behind(fft1_pa, fft1_pt, OutSlots) = L
    BY DEF Ring, SlotsMatch
  <2>2. Behind(NextPos(fft1_pa, OutSlots), fft1_pt, OutSlots) = L - 1
    BY <1>0, <1>5, <2>1, BehindFollow
  <2> QED
    BY <1>3, <1>5, <2>2 DEF SlotsMatch
<1>9. BlocksMatch'
  <2> SUFFICES ASSUME NEW k \in 1 .. L - 1
               PROVE  Behind(issued'[k], timf1p_px', InBlocks) = L - 1 - k + 1
    BY <1>5 DEF BlocksMatch
  <2>1. k + 1 \in 1 .. Len(issued)
    BY <1>0
  <2>2. Behind(issued[k + 1], timf1p_px, InBlocks) = L - (k + 1) + 1
    BY <2>1 DEF Ring, BlocksMatch
  <2> QED
    BY <1>0, <1>3, <1>5, <2>2
<1>10. \A w \in Workers : ptrchk'[w] => TaskOf(w)'
  <2> SUFFICES ASSUME NEW w \in Workers, ptrchk'[w] PROVE TaskOf(w)'
    OBVIOUS
  <2>1. TaskOf(w) /\ Off(w) \in 1 .. L - 1 /\ Off(w)' = Off(w) - 1
    BY <1>6
  <2>2. Off(w)' + 1 = Off(w) /\ issued'[Off(w)] = issued[Off(w) + 1]
    BY <1>0, <1>5, <2>1
  <2> QED
    BY <1>0, <1>3, <1>5, <2>1, <2>2 DEF TaskOf
<1>11. \A v, w \in Workers : ptrchk'[v] /\ ptrchk'[w] /\ v # w => Off(v)' # Off(w)'
  <2> SUFFICES ASSUME NEW v \in Workers, NEW w \in Workers,
                      ptrchk'[v], ptrchk'[w], v # w
               PROVE  Off(v)' # Off(w)'
    OBVIOUS
  <2>1. Off(v) # Off(w)
    BY <1>6 DEF Ring, TasksMatch
  <2>2. /\ Off(v) \in 1 .. L - 1 /\ Off(v)' = Off(v) - 1
        /\ Off(w) \in 1 .. L - 1 /\ Off(w)' = Off(w) - 1
    BY <1>6
  <2> QED
    BY <1>0, <2>1, <2>2
<1>12. \A k \in 0 .. L - 2 : \E w \in Workers : ptrchk'[w] /\ Off(w)' = k
  <2> SUFFICES ASSUME NEW k \in 0 .. L - 2
               PROVE  \E w \in Workers : ptrchk'[w] /\ Off(w)' = k
    OBVIOUS
  <2>1. k + 1 \in 0 .. Len(issued) - 1
    BY <1>0
  <2>2. PICK w \in Workers : ptrchk[w] /\ Off(w) = k + 1
    BY <2>1 DEF Ring, TasksMatch
  <2>3. ptrchk'[w]
    BY <1>2, <1>4, <2>2
  <2>4. Off(w)' = k
    BY <1>6, <2>2, <2>3
  <2> QED
    BY <2>3, <2>4
<1>13. TasksMatch'
  <2>1. Len(issued') - 1 = L - 2
    BY <1>0, <1>5
  <2> QED
    BY <1>10, <1>11, <1>12, <2>1 DEF TasksMatch
<1> QED
  BY <1>7, <1>8, <1>9, <1>13 DEF Ring

LEMMA RingStep ==
  ASSUME TypeOK, Undisturbed, RingInv, [Next]_vars
  PROVE  Ring'
<1> USE RingFrame DEF RingInv, Goto, wbvars, ptrs, threads, tasks, env, Starting
<1>1. ASSUME Wideband PROVE Ring'
  <2>1. CASE FirstInput
    <3>1. issued = <<>> /\ \A w \in Workers : ~ptrchk[w]
      BY <2>1 DEF FirstInput, Ring, NothingYet
    <3>2. issued' = <<>> /\ (\A w \in Workers : ~ptrchk'[w]) /\ Len(issued') = 0
      BY <2>1, <3>1 DEF FirstInput
    <3>3. Behind(fft1_pa', fft1_pt', OutSlots) = 0
      BY <2>1, <3>1, BehindSelf, PoolAssumption DEF FirstInput, Ring, SlotsMatch, TypeOK
    <3> QED
      BY <3>2, <3>3 DEF Ring, NothingYet, SlotsMatch, BlocksMatch, TasksMatch
  <2>2. CASE Restart
    <3>1. issued = <<>> /\ \A w \in Workers : ~ptrchk[w]
      BY <2>2 DEF Restart, Ring, NothingYet
    <3>2. issued' = <<>> /\ (\A w \in Workers : ~ptrchk'[w]) /\ Len(issued') = 0
      BY <2>2, <3>1 DEF Restart
    <3>3. Behind(fft1_pa', fft1_pt', OutSlots) = 0
      BY <2>2, <3>1, BehindSelf, PoolAssumption DEF Restart, Ring, SlotsMatch, TypeOK
    <3> QED
      BY <3>2, <3>3 DEF Ring, NothingYet, SlotsMatch, BlocksMatch, TasksMatch
  <2>3. CASE Settle
    <3>1. issued = <<>> /\ \A w \in Workers : ~ptrchk[w]
      BY <2>3 DEF Settle, Ring, NothingYet
    <3>2. issued' = <<>> /\ (\A w \in Workers : ~ptrchk'[w]) /\ Len(issued') = 0
      BY <2>3, <3>1 DEF Settle
    <3>3. Behind(fft1_pa', fft1_pt', OutSlots) = 0
      BY <2>3, <3>1, BehindSelf, PoolAssumption DEF Settle, Ring, SlotsMatch, TypeOK
    <3> QED
      BY <3>2, <3>3 DEF Ring, NothingYet, SlotsMatch, BlocksMatch, TasksMatch
  <2>4. CASE SkipBlock
    BY <2>4 DEF SkipBlock, Undisturbed
  <2>5. CASE Assign
    BY <2>5, RingAssign
  <2>6. CASE Collect
    BY <2>6, RingCollect
  <2>7. CASE StayIdle
    BY <2>7 DEF StayIdle, Undisturbed
  <2>8. CASE SkipWhileIdle
    BY <2>8 DEF SkipWhileIdle, Undisturbed
  <2>9. CASE CreateWorker \/ WorkerReady \/ GoToSleep \/ WakeUp \/
           ServeMouse \/ StartAssigning \/ PassOver \/ AssignedAll
    BY <2>9 DEF CreateWorker, WorkerReady, GoToSleep, WakeUp, ServeMouse,
       StartAssigning, PassOver, AssignedAll
  <2>10. CASE CollectedAll \/ LeaveLoop \/ BecomeIdle \/ StopWorker \/
           PostAgain \/ ReleaseWorker \/ JoinWorker \/ Return
    BY <2>10 DEF CollectedAll, LeaveLoop, BecomeIdle, StopWorker, PostAgain,
       ReleaseWorker, JoinWorker, Return
  <2> QED
    BY <1>1, <2>1, <2>2, <2>3, <2>4, <2>5, <2>6, <2>7, <2>8, <2>9, <2>10 DEF Wideband
<1>2. ASSUME NEW w \in Workers, Worker(w) PROVE Ring'
  <2>1. CASE WorkerTop(w) \/ StartFft(w) \/ FinishFft(w) \/ ReportDone(w) \/
           Released(w) \/ WorkerExit(w) \/ WorkerEnd(w)
    BY <2>1 DEF WorkerTop, StartFft, FinishFft, ReportDone, Released,
       WorkerExit, WorkerEnd
  <2> QED
    BY <1>2, <2>1 DEF Worker
<1>3. ASSUME Environment PROVE Ring'
  <2>1. CASE Input \/ ToggleF5 \/ StopWideband \/ PostWideband \/
           JoinWideband \/ KillAll \/ KillWideband \/ TxTestAsk \/ TxTestPause
    BY <2>1 DEF Input, ToggleF5, StopWideband, PostWideband, JoinWideband,
       KillAll, KillWideband, TxTestAsk, TxTestPause
  <2>2. CASE TxTestPaused \/ TxTestResume
    BY <2>2 DEF TxTestPaused, TxTestResume
  <2>3. ASSUME NEW w \in Workers, KillWorker(w) PROVE Ring'
    BY <2>3 DEF KillWorker
  <2> QED
    BY <1>3, <2>1, <2>2, <2>3 DEF Environment
<1>4. CASE UNCHANGED vars
    BY <1>4 DEF vars
<1> QED
  BY <1>1, <1>2, <1>3, <1>4 DEF Next, Stopped

-----------------------------------------------------------------------------
(* Who changes what                                                         *)

WhoseStep ==
  /\ fft1_pa' # fft1_pa => Collect
  /\ pc = "collect" /\ ptrchk' # ptrchk => Collect
  /\ fft1_float' # fft1_float => \E w \in Workers : StartFft(w) \/ FinishFft(w)
  /\ issued' # issued => Assign \/ Collect
  /\ timf1p_px' # timf1p_px =>
       Assign \/ Restart \/ Settle \/ SkipBlock \/ SkipWhileIdle

LEMMA WhoDoesWhat ==
  ASSUME TypeOK, Next
  PROVE  WhoseStep
<1> USE DEF WhoseStep, Goto, wbvars, ptrs, threads, tasks, env
<1>1. ASSUME Wideband PROVE WhoseStep
  <2>1. CASE FirstInput \/ CreateWorker \/ WorkerReady \/ Restart \/ Settle \/
           GoToSleep \/ WakeUp \/ ServeMouse
    BY <2>1 DEF FirstInput, CreateWorker, WorkerReady, Restart, Settle,
       GoToSleep, WakeUp, ServeMouse
  <2>2. CASE SkipBlock \/ StartAssigning \/ Assign \/ PassOver \/
           AssignedAll \/ Collect \/ CollectedAll \/ LeaveLoop
    BY <2>2 DEF SkipBlock, StartAssigning, Assign, PassOver, AssignedAll,
       Collect, CollectedAll, LeaveLoop
  <2>3. CASE BecomeIdle \/ StayIdle \/ SkipWhileIdle \/ StopWorker \/
           PostAgain \/ ReleaseWorker \/ JoinWorker \/ Return
    BY <2>3 DEF BecomeIdle, StayIdle, SkipWhileIdle, StopWorker, PostAgain,
       ReleaseWorker, JoinWorker, Return
  <2> QED
    BY <1>1, <2>1, <2>2, <2>3 DEF Wideband
<1>2. ASSUME NEW w \in Workers, Worker(w) PROVE WhoseStep
  <2>1. CASE WorkerTop(w) \/ StartFft(w) \/ FinishFft(w) \/ ReportDone(w) \/
           Released(w) \/ WorkerExit(w) \/ WorkerEnd(w)
    BY <2>1 DEF WorkerTop, StartFft, FinishFft, ReportDone, Released,
       WorkerExit, WorkerEnd
  <2> QED
    BY <1>2, <2>1 DEF Worker
<1>3. ASSUME Environment PROVE WhoseStep
  <2>1. CASE Input \/ ToggleF5 \/ StopWideband \/ PostWideband \/
           JoinWideband \/ KillAll \/ KillWideband \/ TxTestAsk \/ TxTestPause
    BY <2>1 DEF Input, ToggleF5, StopWideband, PostWideband, JoinWideband,
       KillAll, KillWideband, TxTestAsk, TxTestPause
  <2>2. CASE TxTestPaused \/ TxTestResume
    BY <2>2 DEF TxTestPaused, TxTestResume
  <2>3. ASSUME NEW w \in Workers, KillWorker(w) PROVE WhoseStep
    BY <2>3 DEF KillWorker
  <2> QED
    BY <1>3, <2>1, <2>2, <2>3 DEF Environment
<1>4. CASE Stopped
    BY <1>4 DEF Stopped, vars
<1> QED
  BY <1>1, <1>2, <1>3, <1>4 DEF Next

-----------------------------------------------------------------------------
(* The invariant and what follows from it                                   *)

LEMMA InvariantHolds ==
  ASSUME Calm
  PROVE  Spec => [](TypeOK /\ InRange /\ IInv)
<1>1. Init => IInv
  <2> SUFFICES ASSUME Init PROVE IInv
    OBVIOUS
  <2> USE PoolAssumption DEF Init
  <2>1. Undisturbed
    BY DEF Undisturbed
  <2>2. Len(issued) = 0 /\ \A w \in Workers : ~ptrchk[w] /\ ~event[w]
    OBVIOUS
  <2>3. SlotsMatch
    BY <2>2, BehindSelf DEF SlotsMatch
  <2>4. Ring
    BY <2>2, <2>3 DEF Ring, NothingYet, BlocksMatch, TasksMatch
  <2>5. WorkMatches /\ Handshake
    BY <2>2 DEF WorkMatches, WorkOf, Handshake, HandshakeOf
  <2> QED
    BY <2>1, <2>4, <2>5 DEF IInv, RingInv
<1>2. TypeOK /\ InRange /\ IInv /\ [Next]_vars => IInv'
  <2> SUFFICES ASSUME TypeOK, InRange, IInv, [Next]_vars PROVE IInv'
    OBVIOUS
  <2>1. Undisturbed'
    BY UndisturbedStep DEF IInv
  <2>2. Ring' /\ WorkMatches'
    BY RingStep, WorkStep DEF IInv
  <2>3. Handshake'
    BY HandshakeStep DEF IInv, RingInv, Ring
  <2> QED
    BY <2>1, <2>2, <2>3 DEF IInv, RingInv
<1> QED
  BY <1>1, <1>2, TypeInductive, PTL DEF Spec

\* In Calm reception the worker released first holds the oldest block.
THEOREM CollectsOldest ==
  ASSUME Calm
  PROVE  Spec => OldestFirst
<1>1. TypeOK /\ IInv /\ [Next]_vars =>
        [ \A w \in Workers : pc = "collect" /\ ptrchk[w] /\ ~ptrchk'[w] =>
            /\ issued # <<>> /\ inptr[w] = Head(issued)
            /\ out[w] = fft1_pa ]_vars
  <2> SUFFICES ASSUME TypeOK, IInv, Next,
                      NEW w \in Workers, pc = "collect", ptrchk[w], ~ptrchk'[w]
               PROVE  issued # <<>> /\ inptr[w] = Head(issued) /\ out[w] = fft1_pa
    BY DEF vars, tasks
  <2>1. Collect
    BY WhoDoesWhat DEF WhoseStep
  <2>2. w = Oldest /\ ptrchk[Oldest]
    BY <2>1 DEF Collect, Collectable, TypeOK
  <2>3. /\ issued # <<>> /\ out[w] = fft1_pa /\ inptr[w] = issued[1]
    BY <2>2, CollectsFirst DEF IInv, RingInv
  <2> QED
    BY <2>3 DEF TypeOK
<1> QED
  BY <1>1, InvariantHolds, PTL DEF OldestFirst, Spec

\* In Calm reception what is published is the transform of the oldest block.
THEOREM PublishesOldest ==
  ASSUME Calm
  PROVE  Spec => PublishesInOrder
<1>1. TypeOK /\ IInv /\ [Next]_vars =>
        [ fft1_pa' # fft1_pa => /\ issued # <<>>
                                /\ fft1_float[fft1_pa] = Head(issued) ]_vars
  <2> SUFFICES ASSUME TypeOK, IInv, Next, fft1_pa' # fft1_pa
               PROVE  issued # <<>> /\ fft1_float[fft1_pa] = Head(issued)
    BY DEF vars, ptrs
  <2>1. ptrchk[Oldest] /\ status[Oldest] = "IDLE" /\ Oldest \in Workers
    BY WhoDoesWhat, OldestExists DEF WhoseStep, Collect, Collectable
  <2>2. issued # <<>> /\ out[Oldest] = fft1_pa /\ inptr[Oldest] = issued[1]
    BY <2>1, CollectsFirst DEF IInv, RingInv
  <2>3. fft1_float[out[Oldest]] = inptr[Oldest]
    BY <2>1 DEF IInv, RingInv, WorkMatches, WorkOf
  <2> QED
    BY <2>2, <2>3 DEF TypeOK
<1> QED
  BY <1>1, InvariantHolds, PTL DEF PublishesInOrder, Spec

\* In Calm reception no worker touches a slot that consumers may read.
THEOREM WritesOnlyUnpublished ==
  ASSUME Calm
  PROVE  Spec => WritesUnpublished
<1>1. TypeOK /\ IInv /\ [Next]_vars =>
        [ \A s \in Slots : fft1_float'[s] # fft1_float[s] =>
            Behind(fft1_pa, s, OutSlots) < Behind(fft1_pa, fft1_pt, OutSlots) ]_vars
  <2> SUFFICES ASSUME TypeOK, IInv, Next, NEW s \in Slots,
                      fft1_float'[s] # fft1_float[s]
               PROVE  Behind(fft1_pa, s, OutSlots) < Behind(fft1_pa, fft1_pt, OutSlots)
    BY DEF vars
  <2>1. PICK w \in Workers : StartFft(w) \/ FinishFft(w)
    BY WhoDoesWhat DEF WhoseStep
  <2>2. ptrchk[w] /\ out[w] = s
    <3>1. CASE StartFft(w)
      BY <3>1 DEF StartFft, IInv, Handshake, HandshakeOf, Awake, MayWake, Spurious,
                  Calm, TypeOK
    <3>2. CASE FinishFft(w)
      BY <3>2 DEF FinishFft, IInv, RingInv, WorkMatches, WorkOf, TypeOK
    <3> QED
      BY <2>1, <3>1, <3>2
  <2>3. Off(w) < Len(issued)
    BY <2>2 DEF IInv, RingInv, Ring, TasksMatch, TaskOf
  <2> QED
    BY <2>2, <2>3 DEF Off, IInv, RingInv, Ring, SlotsMatch
<1> QED
  BY <1>1, InvariantHolds, PTL DEF WritesUnpublished, Spec

\* In Calm reception workers compute what they were given, and no post of an
\* event is lost in another one.
THEOREM TasksArrive ==
  ASSUME Calm
  PROVE  Spec => [](ComputesOnlyAssigned /\ PostsMatch)
<1>1. IInv => ComputesOnlyAssigned
  BY DEF IInv, RingInv, WorkMatches, WorkOf, ComputesOnlyAssigned
<1>2. IInv => PostsMatch
  BY DEF IInv, Handshake, HandshakeOf, PostsMatch
<1> QED
  BY <1>1, <1>2, InvariantHolds, PTL

-----------------------------------------------------------------------------
(* The pool implements the ordered stream                                   *)

LEMMA PrevPosFar ==
  ASSUME NEW M \in Nat \ {0}, NEW p \in Positions(M)
  PROVE  /\ PrevPos(p, M) \in Positions(M)
         /\ Behind(p, PrevPos(p, M), M) = M - 1
         /\ PrevPos(NextPos(p, M), M) = p
  BY DEF PrevPos, NextPos, Behind

\* In Calm reception every step of the pool hands out the next block, shows the
\* oldest one, drops input while nothing is under way, or changes nothing that
\* the consumers of the transforms can see (the safety part of ImplementsStream).
THEOREM StreamSafety ==
  ASSUME Calm
  PROVE  Spec => Stream!Init /\ [][Stream!Next]_(Stream!vars)
<1>0. /\ InBlocks \in Nat /\ OutSlots \in Nat \ {0} /\ no_of_fft1b \in Nat \ {0}
      /\ no_of_fft1b < OutSlots /\ no_of_fft1b < InBlocks
  BY PoolAssumption
<1>1. Init => Stream!Init
  <2> SUFFICES ASSUME Init PROVE Stream!Init
    OBVIOUS
  <2>1. PrevPos(fft1_pa, OutSlots) \in Slots
    BY <1>0, PrevPosFar DEF Init
  <2> QED
    BY <1>0, <2>1 DEF Init, Stream!Init, Stream!Positions
<1>2. TypeOK /\ IInv /\ [Next]_vars => [Stream!Next]_(Stream!vars)
  <2> DEFINE last == PrevPos(fft1_pa, OutSlots)
  <2> SUFFICES ASSUME TypeOK, IInv, [Next]_vars
               PROVE  [Stream!Next]_(Stream!vars)
    OBVIOUS
  <2> USE DEF Stream!Next, Stream!vars
  <2>1. fft1_pa \in Slots /\ last \in Slots /\ issued \in Seq(InPos)
    BY <1>0, PrevPosFar DEF TypeOK
  <2>2. CASE Assign
    <3>1. Len(issued) < no_of_fft1b
      BY <2>2, FewIssued DEF Assign, Free, TypeOK, IInv, RingInv, Ring
    <3>2. Stream!HandOut
      BY <2>2, <3>1 DEF Assign, Stream!HandOut, Stream!NextPos, NextPos
    <3> QED
      BY <3>2
  <2>3. CASE Collect
    <3>1. ptrchk[Oldest] /\ status[Oldest] = "IDLE" /\ Oldest \in Workers
      BY <2>3, OldestExists DEF Collect, Collectable
    <3>2. issued # <<>> /\ out[Oldest] = fft1_pa /\ inptr[Oldest] = issued[1]
      BY <3>1, CollectsFirst DEF IInv, RingInv
    <3>3. fft1_float[fft1_pa] = Head(issued)
      BY <2>1, <3>1, <3>2 DEF IInv, RingInv, WorkMatches, WorkOf
    <3>4. PrevPos(fft1_pa', OutSlots) = fft1_pa
      BY <1>0, <2>1, <2>3, PrevPosFar DEF Collect
    <3>5. Stream!Show
      BY <2>3, <3>2, <3>3, <3>4 DEF Collect, Stream!Show
    <3> QED
      BY <3>5
  <2>4. CASE Restart \/ Settle
    <3>1. issued = <<>>
      BY <2>4 DEF Restart, Settle, IInv, RingInv, Ring, NothingYet, Starting
    <3>2. timf1p_px' \in InPos
      BY <2>4 DEF Restart, Settle, TypeOK
    <3>3. Stream!Drop
      BY <2>4, <3>1, <3>2 DEF Restart, Settle, Stream!Drop, Stream!Positions, ptrs
    <3> QED
      BY <3>3
  <2>5. CASE Next /\ ~Assign /\ ~Collect /\ ~Restart /\ ~Settle
    <3>1. UNCHANGED <<timf1p_px, issued, fft1_pa>>
      BY <2>5, WhoDoesWhat DEF WhoseStep, SkipBlock, SkipWhileIdle, IInv, Undisturbed
    <3>2. fft1_float'[last] = fft1_float[last]
      <4>1. SUFFICES ASSUME NEW w \in Workers, StartFft(w) \/ FinishFft(w)
                     PROVE  fft1_float'[last] = fft1_float[last]
        BY <2>5, WhoDoesWhat DEF WhoseStep
      <4>2. kill_all_flag \/ ptrchk[w] \/ FinishFft(w)
        BY <4>1 DEF StartFft, IInv, Handshake, HandshakeOf, Awake, MayWake, Spurious, Calm
      <4>3. FinishFft(w) => ptrchk[w]
        BY DEF FinishFft, IInv, RingInv, WorkMatches, WorkOf
      <4>4. ptrchk[w] => out[w] # last
        <5>1. SUFFICES ASSUME ptrchk[w], out[w] = last PROVE FALSE
          OBVIOUS
        <5>2. OutSlots - 1 < Len(issued)
          <6>1. Behind(fft1_pa, last, OutSlots) = OutSlots - 1
            BY <1>0, <2>1, PrevPosFar
          <6>2. Off(w) < Len(issued)
            BY <5>1 DEF IInv, RingInv, Ring, TasksMatch, TaskOf
          <6> QED
            BY <5>1, <6>1, <6>2 DEF Off
        <5>3. Len(issued) \in Nat /\ Len(issued) <= no_of_fft1b
          BY FewIssued DEF IInv, RingInv, Ring
        <5> QED
          BY <1>0, <5>2, <5>3
      <4> QED
        BY <2>1, <4>1, <4>2, <4>3, <4>4 DEF StartFft, FinishFft, TypeOK
    <3> QED
      BY <3>1, <3>2
  <2>6. CASE UNCHANGED vars
    BY <2>6 DEF vars, ptrs
  <2> QED
    BY <2>2, <2>3, <2>4, <2>5, <2>6
<1> QED
  BY <1>1, <1>2, InvariantHolds, PTL DEF Spec

=============================================================================
