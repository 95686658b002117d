---------------------------- MODULE ReplayProof ----------------------------
(***************************************************************************)
(* Nobody tests whether timf1 or fft1 is full, and yet Intact holds for    *)
(* every size of the rings that leaves room for what may be under way.     *)
(*                                                                         *)
(* The argument: Load counts what is in the rings and with the workers, in *)
(* transforms.  Transforms leave it as it is and mixing lowers it; only a  *)
(* block that is read and a reset raise it.  A block is read when the      *)
(* rings are nearly empty, because the reader looks (F3) or because the    *)
(* others sleep (real time), and they sleep only when they have nothing    *)
(* left to do, because no event is ever lost.                              *)
(***************************************************************************)
EXTENDS Replay, TLAPS

\* What AFC before it begins, with n workers, or the reader, or a delay or a reset of
\* narrowband_dsp, leaves in fft1, ...
Larger(a, b) == IF a >= b THEN a ELSE b
Early(n)  == fft1_muln * (afc_tpts * Slots(n))
InFft1(n) == Larger(max_fft1n \div 4, Larger(Early(n), Larger(Delay, Refill)))

\* ... and in timf1, when the next block is read.
InTimf1 == Larger((Timf1N - 1) \div 4, 1)

\* What is left then, and up to three more blocks: the one that is read, the one that
\* ends a wait for input, and the last one before the reader ends.
Base  == InFft1(no_of_fft1b) + fft1_muln * (InTimf1 + Slots(no_of_fft1b))
Roomy ==
  /\ Disturbances = {}
  /\ \A s \in Setups :
       /\ InTimf1 + 2 + Slots(s[1]) < Timf1N
       /\ InFft1(s[1]) + fft1_muln * (InTimf1 + Slots(s[1])) + 3 * fft1_muln < max_fft1n

Load == ahead + fft1_muln * (filled + working + finished)

\* Distances from the heads of the rings.
AheadPb == Behind(timf1p_pb, timf1p_pa, Timf1N)
AheadNb == Behind(fft1_nb, fft1_na, max_fft1n)
AheadNc == Behind(fft1_nc, fft1_na, max_fft1n)

\* The pointers tell true distances and keep their order.
InOrder ==
  /\ filled \in Nat /\ ahead \in Nat
  /\ working + finished + leaving <= Slots(no_of_fft1b)
  /\ no_of_fft1b = 0 /\ finished > 0 => wpc = "collect"
  /\ Behind(timf1p_px, timf1p_pa, Timf1N) = filled
  /\ AheadPb <= filled /\ AheadPb <= 1
  /\ wpc \in {"hold", "work"} => AheadPb < filled
  /\ Behind(fft1_nx, fft1_na, max_fft1n) = ahead
  /\ AheadNb <= ahead /\ (afc => AheadNb <= AheadNc /\ AheadNc <= ahead)

\* Who sleeps with no event set has nothing to do.
WideRests == wpc = "asleep" /\ ~event["TIMF1"] => timf1p_pb = timf1p_px \/ AllBusy
Fft1cRests ==
  /\ cpc = "await" /\ ~event["DO_FFT1C"] => AheadNb = 0
  /\ AheadNb = 0 => posted = 0
Unmixed == ahead - AheadNb
NarrowRests ==
  /\ mpc = "run" => timf3 = 0 /\ output
  /\ (npc = "asleep" \/ (npc = "flag" /\ ~fftx_flag)) /\ ~event["FFT1_READY"] /\ mpc = "run" =>
       Unmixed <= Kept + posted \/ Unmixed <= Refill + posted
  /\ npc \in {"flag", "input_wait"} => new_baseb_flag = 3
  /\ reset => ~audio_dump_flag

\* A wait for input ends with the next block.
WaitOver == npc = "returned" \/ (npc = "input_wait" /\ timf1p_pb # last_pb)

FewFilled ==
  /\ filled <= InTimf1 + 2
  /\ fpc # "returned" => filled <= InTimf1 + 1
  /\ AheadPb = 0 => filled = 0 /\ working = 0 /\ finished = 0 /\ ahead <= Refill

LittleLoad ==
  /\ Load <= Base + 3 * fft1_muln
  /\ fpc # "returned" => Load <= Base + 2 * fft1_muln
  /\ fpc # "returned" /\ new_baseb_flag # 0 /\ ~WaitOver => Load <= Base + fft1_muln
  /\ fpc \in {"settle_wide", "settle_narrow", "read"} =>
       \/ ~Active("FILE")
       \/ filled <= InTimf1 /\ Load <= Base
       \/ /\ filled <= InTimf1 /\ Load <= Base + fft1_muln
          /\ npc = "returned" \/ (npc = "input_wait" /\ timf1p_pb = last_pb)

\* No pass of wideband_dsp brings more transforms than it has threads to make them.
Counted == fft1_nm < max_fft1n - 1 => ahead <= fft1_muln * (fft1_nm * Slots(no_of_fft1b))

IInv ==
  /\ TypeOK /\ InOrder /\ WideRests /\ Fft1cRests /\ NarrowRests /\ FewFilled /\ LittleLoad
  /\ Counted

-----------------------------------------------------------------------------
(* Distances in a ring of M positions                                       *)

LEMMA RingType ==
  ASSUME NEW M \in Nat \ {0}, NEW p \in Positions(M), NEW h \in Positions(M)
  PROVE  /\ Behind(p, h, M) \in 0 .. M - 1 /\ NextPos(p, M) \in Positions(M)
         /\ (Behind(p, h, M) = 0 <=> p = h)
BY DEF Positions, Behind, NextPos

\* The tail moves on.
LEMMA RingTail ==
  ASSUME NEW M \in Nat \ {0}, NEW p \in Positions(M), NEW h \in Positions(M), p # h
  PROVE  Behind(NextPos(p, M), h, M) = Behind(p, h, M) - 1
BY DEF Positions, Behind, NextPos

\* The head moves on, and does not meet the tail.
LEMMA RingHead ==
  ASSUME NEW M \in Nat \ {0}, NEW p \in Positions(M), NEW h \in Positions(M),
         Behind(p, h, M) + 1 < M
  PROVE  Behind(p, NextPos(h, M), M) = Behind(p, h, M) + 1
BY DEF Positions, Behind, NextPos

LEMMA RingForward ==
  ASSUME NEW M \in Nat \ {0}, NEW p \in Positions(M), NEW h \in Positions(M),
         NEW k \in 0 .. M - 1
  PROVE  /\ Forward(p, k, M) \in Positions(M)
         /\ k <= Behind(p, h, M) => Behind(Forward(p, k, M), h, M) = Behind(p, h, M) - k
         /\ Behind(p, h, M) + k < M => Behind(p, Forward(h, k, M), M) = Behind(p, h, M) + k
BY DEF Positions, Behind, Forward

\* Between two positions that lie behind a head in this order.
LEMMA RingBetween ==
  ASSUME NEW M \in Nat \ {0}, NEW p \in Positions(M), NEW q \in Positions(M),
         NEW h \in Positions(M), Behind(q, h, M) <= Behind(p, h, M)
  PROVE  Behind(p, q, M) = Behind(p, h, M) - Behind(q, h, M)
BY DEF Positions, Behind

LEMMA RingBack ==
  ASSUME NEW M \in Nat \ {0}, NEW h \in Positions(M), NEW k \in 0 .. M - 1
  PROVE  (h - k) % M \in Positions(M) /\ Behind((h - k) % M, h, M) = k
<1>1. (h - k) % M = IF h >= k THEN h - k ELSE h - k + M
  BY DEF Positions
<1> QED BY <1>1 DEF Positions, Behind

-----------------------------------------------------------------------------
(* Sizes                                                                    *)

LEMMA Sizes ==
  /\ Timf1N \in Nat \ {0} /\ max_fft1n \in Nat \ {0} /\ fft1_muln \in Nat \ {0}
  /\ Timf1N > 1 /\ fft1_muln < max_fft1n /\ Delay \in Nat /\ Refill \in 0 .. max_fft1n - 1
  /\ Timf3N \in Nat \ {0} /\ BasebN \in Nat \ {0} /\ Refill \in Nat /\ afc_tpts \in Nat
BY ReplayAssumption

LEMMA Quarter ==
  ASSUME NEW a \in Nat, NEW M \in Nat
  PROVE  4 * a <= M => a <= M \div 4
OBVIOUS

LEMMA ProductType ==
  ASSUME NEW a \in Int
  PROVE  fft1_muln * a \in Int /\ (a \in Nat => fft1_muln * a \in Nat)
BY Sizes

LEMMA Product ==
  ASSUME NEW a \in Int, NEW b \in Int
  PROVE  /\ fft1_muln * (a + b) = fft1_muln * a + fft1_muln * b
         /\ a * fft1_muln = fft1_muln * a
         /\ a <= b => fft1_muln * a <= fft1_muln * b
BY Sizes

LEMMA Leaves ==
  ASSUME NEW n \in Nat
  PROVE  /\ InFft1(n) \in Nat /\ InTimf1 \in Nat /\ InTimf1 >= 1
         /\ max_fft1n \div 4 <= InFft1(n) /\ Delay <= InFft1(n) /\ Refill <= InFft1(n)
         /\ Early(n) <= InFft1(n) /\ Early(n) \in Nat /\ Slots(n) \in Nat /\ Slots(n) >= 1
         /\ afc_tpts * Slots(n) \in Nat /\ afc_tpts <= Early(n)
         /\ (Timf1N - 1) \div 4 <= InTimf1
<1>1. max_fft1n \div 4 \in Nat /\ (Timf1N - 1) \div 4 \in Nat BY Sizes
<1>2. Slots(n) \in Nat /\ Slots(n) >= 1 BY DEF Slots
<1> DEFINE t == afc_tpts * Slots(n)
<1>3. t \in Nat /\ afc_tpts <= t
  <2> DEFINE m == Slots(n)
  <2>1. m \in Nat /\ m >= 1 /\ afc_tpts \in Nat BY <1>2, Sizes
  <2> HIDE DEF m
  <2>2. afc_tpts * m \in Nat /\ afc_tpts * 1 <= afc_tpts * m BY <2>1
  <2> QED BY <2>1, <2>2 DEF m
<1> HIDE DEF t
<1>4. fft1_muln * t \in Nat /\ 1 * t <= fft1_muln * t BY <1>3, ProductType, Sizes
<1>5. Early(n) = fft1_muln * t BY DEF Early, t
<1>6. Early(n) \in Nat /\ afc_tpts <= Early(n) BY <1>3, <1>4, <1>5, Sizes
<1> QED BY <1>1, <1>2, <1>3, <1>6, Sizes DEF InFft1, InTimf1, Larger, t

LEMMA Types ==
  ASSUME TypeOK
  PROVE  /\ no_of_fft1b \in Nat /\ afc \in BOOLEAN /\ <<no_of_fft1b, afc>> \in Setups
         /\ working \in Nat /\ finished \in Nat /\ filled \in Int /\ ahead \in Int
         /\ AheadPb \in 0 .. Timf1N - 1 /\ AheadNb \in 0 .. max_fft1n - 1
         /\ AheadNc \in 0 .. max_fft1n - 1 /\ posted \in Nat /\ leaving \in Nat
         /\ fft1_nm \in 0 .. max_fft1n - 1
         /\ Slots(no_of_fft1b) \in Nat /\ Slots(no_of_fft1b) >= 1
         /\ no_of_fft1b = 0 => working = 0 /\ leaving = 0
<1>1. <<no_of_fft1b, afc>> \in Nat \X BOOLEAN BY ReplayAssumption DEF TypeOK
<1>2. AheadPb \in 0 .. Timf1N - 1 BY Sizes, RingType DEF TypeOK, AheadPb
<1>3. AheadNb \in 0 .. max_fft1n - 1 BY Sizes, RingType DEF TypeOK, AheadNb
<1>4. AheadNc \in 0 .. max_fft1n - 1 BY Sizes, RingType DEF TypeOK, AheadNc
<1>5. posted \in Nat BY Sizes DEF TypeOK
<1>6. working \in Nat /\ finished \in Nat /\ leaving \in Nat
      /\ (no_of_fft1b = 0 => working = 0 /\ leaving = 0)
  BY <1>1 DEF TypeOK, Slots
<1>7. Slots(no_of_fft1b) \in Nat /\ Slots(no_of_fft1b) >= 1 BY <1>1 DEF Slots
<1>8. fft1_nm \in 0 .. max_fft1n - 1 BY DEF TypeOK, Positions
<1> QED BY <1>1, <1>2, <1>3, <1>4, <1>5, <1>6, <1>7, <1>8 DEF TypeOK

LEMMA Room ==
  ASSUME Roomy, TypeOK
  PROVE  /\ InTimf1 + 2 + Slots(no_of_fft1b) < Timf1N
         /\ Base \in Nat /\ Base + 3 * fft1_muln < max_fft1n /\ InFft1(no_of_fft1b) \in Nat
         /\ InTimf1 \in Nat /\ InTimf1 >= 1 /\ InFft1(no_of_fft1b) <= Base
<1>1. <<no_of_fft1b, afc>> \in Setups /\ no_of_fft1b \in Nat BY Types
<1>2. fft1_muln * (InTimf1 + Slots(no_of_fft1b)) \in Nat BY <1>1, Leaves, ProductType
<1>3. /\ InTimf1 + 2 + Slots(no_of_fft1b) < Timf1N
      /\ InFft1(no_of_fft1b) + fft1_muln * (InTimf1 + Slots(no_of_fft1b)) + 3 * fft1_muln
           < max_fft1n
  BY <1>1 DEF Roomy
<1>4. InFft1(no_of_fft1b) \in Nat /\ InTimf1 \in Nat /\ InTimf1 >= 1 BY <1>1, Leaves
<1> QED BY <1>2, <1>3, <1>4, Sizes DEF Base

LEMMA LoadType ==
  ASSUME TypeOK
  PROVE  /\ Load \in Int
         /\ InOrder => Load \in Nat /\ ahead + fft1_muln * (working + finished) <= Load
<1>1. fft1_muln * (filled + working + finished) \in Int BY Types, ProductType
<1>2. ASSUME InOrder
      PROVE  /\ fft1_muln * (filled + working + finished) \in Nat
             /\ fft1_muln * (working + finished) <= fft1_muln * (filled + working + finished)
  <2>1. working + finished \in Nat /\ filled \in Nat BY <1>2, Types DEF InOrder
  <2>2. filled + working + finished \in Nat /\ working + finished <= filled + working + finished
    BY <2>1, Types
  <2> QED BY <2>1, <2>2, Product, ProductType
<1>3. fft1_muln * (working + finished) \in Int BY Types, ProductType
<1> QED BY <1>1, <1>2, <1>3, Types DEF Load, InOrder

LEMMA Safe ==
  ASSUME Roomy, IInv
  PROVE  Intact
<1>1. TypeOK /\ InOrder /\ FewFilled /\ LittleLoad BY DEF IInv
<1>2. filled + working + finished < Timf1N
  BY <1>1, Room, Types, Leaves, Sizes DEF InOrder, FewFilled
<1>3. ahead + fft1_muln * (working + finished) < max_fft1n
  <2>1. fft1_muln * (working + finished) \in Int BY <1>1, Types, ProductType
  <2> QED BY <1>1, <2>1, Room, LoadType, Types, Sizes DEF LittleLoad
<1>4. (working + finished) * fft1_muln = fft1_muln * (working + finished)
  BY <1>1, Types, Product
<1> QED BY <1>1, <1>2, <1>3, <1>4 DEF InOrder, Intact

-----------------------------------------------------------------------------
(* Types                                                                    *)

LEMMA EventType ==
  ASSUME event \in [Events -> BOOLEAN], NEW e
  PROVE  SetEvent(event, e) \in [Events -> BOOLEAN] /\ TakeEvent(event, e) \in [Events -> BOOLEAN]
BY DEF SetEvent, TakeEvent

LEMMA TypeFile ==
  ASSUME TypeOK, File
  PROVE  TypeOK'
<1> USE DEF TypeOK, others_F, setup, user, pool, fft1, narrow, timf1, F
<1>1. CASE FilePaced BY <1>1 DEF FilePaced
<1>2. CASE FileWait
  <2>1. event' \in [Events -> BOOLEAN] BY <1>2, EventType DEF FileWait, Post
  <2>2. fpc' \in {"wait", "read", "settle_wide", "returned"} /\ audio_dump_flag' \in BOOLEAN
    BY <1>2 DEF FileWait
  <2> QED BY <1>2, <2>1, <2>2 DEF FileWait
<1>3. CASE SettleWide \/ SettleNarrow
  <2>1. kill_all_flag' \in BOOLEAN BY <1>3 DEF SettleWide, SettleNarrow, Settled
  <2>2. fpc' \in {"settle_narrow", "read"} BY <1>3 DEF SettleWide, SettleNarrow
  <2> QED BY <1>3, <2>1, <2>2 DEF SettleWide, SettleNarrow, Settled
<1>4. CASE FileRead
  <2>1. event' \in [Events -> BOOLEAN] BY <1>4, EventType DEF FileRead, Post
  <2>2. timf1p_pa' \in Positions(Timf1N) BY <1>4, Sizes, RingType DEF FileRead
  <2>3. audio_dump_flag' \in BOOLEAN BY <1>4 DEF FileRead, Active
  <2>4. timf1p_pb' \in Positions(Timf1N) /\ filled' \in Int BY <1>4 DEF FileRead
  <2>5. fpc' \in {"wait", "paced", "returned"} BY <1>4 DEF FileRead
  <2> QED BY <1>4, <2>1, <2>2, <2>3, <2>4, <2>5 DEF FileRead
<1> QED BY <1>1, <1>2, <1>3, <1>4 DEF File

\* What wideband_dsp announces fits into fft1.
LEMMA PublishFits ==
  ASSUME Roomy, IInv, NEW k \in Nat, k <= filled + finished
  PROVE  /\ k * fft1_muln = fft1_muln * k /\ fft1_muln * k \in Nat
         /\ ahead + fft1_muln * k < max_fft1n
<1>1. TypeOK /\ InOrder /\ LittleLoad BY DEF IInv
<1>2. filled + working + finished \in Nat /\ k <= filled + working + finished
  BY <1>1, Types DEF InOrder
<1>3. fft1_muln * k <= fft1_muln * (filled + working + finished) BY <1>2, Product
<1>4. fft1_muln * k \in Nat /\ fft1_muln * (filled + working + finished) \in Nat
  BY <1>2, ProductType
<1>5. ahead + fft1_muln * k <= Load BY <1>1, <1>3, <1>4, Types DEF Load
<1>6. Load <= Base + 3 * fft1_muln BY <1>1 DEF LittleLoad
<1> QED BY <1>1, <1>4, <1>5, <1>6, Room, LoadType, Product, Types, Sizes

LEMMA Published ==
  ASSUME Roomy, IInv, NEW k \in Nat, k <= filled + finished, Publish(k),
         UNCHANGED <<fft1_nb, fft1_nc, fft1_nx>>
  PROVE  /\ fft1_na' \in Positions(max_fft1n) /\ event' \in [Events -> BOOLEAN]
         /\ fft1_nm' \in Positions(max_fft1n) /\ ahead' = ahead + fft1_muln * k
         /\ Behind(fft1_nx, fft1_na', max_fft1n) = ahead'
         /\ AheadNb' = AheadNb + fft1_muln * k
         /\ afc => AheadNc' = AheadNc + fft1_muln * k
<1>1. TypeOK /\ InOrder BY DEF IInv
<1> DEFINE d == fft1_muln * k
<1>2. d \in Nat /\ ahead + d < max_fft1n /\ k * fft1_muln = d BY PublishFits
<1> HIDE DEF d
<1>3. fft1_na' = Forward(fft1_na, d, max_fft1n) /\ ahead' = ahead + d BY <1>2 DEF Publish
<1>4. ahead \in Nat /\ d \in 0 .. max_fft1n - 1 BY <1>1, <1>2, Sizes DEF InOrder
<1>5. fft1_na \in Positions(max_fft1n) /\ fft1_nb \in Positions(max_fft1n)
      /\ fft1_nc \in Positions(max_fft1n) /\ fft1_nx \in Positions(max_fft1n)
  BY <1>1 DEF TypeOK
<1>6. fft1_na' \in Positions(max_fft1n) BY <1>3, <1>4, <1>5, RingForward, Sizes
<1>7. Behind(fft1_nx, fft1_na', max_fft1n) = ahead + d
  BY <1>1, <1>2, <1>3, <1>4, <1>5, RingForward, Sizes DEF InOrder
<1>8. AheadNb' = AheadNb + d
  <2>1. AheadNb + d < max_fft1n BY <1>1, <1>2, <1>4, Types, Sizes DEF InOrder
  <2> QED BY <1>3, <1>4, <1>5, <2>1, RingForward, Sizes DEF AheadNb
<1>9. ASSUME afc PROVE AheadNc' = AheadNc + d
  <2>1. AheadNc + d < max_fft1n BY <1>1, <1>2, <1>4, <1>9, Types, Sizes DEF InOrder
  <2> QED BY <1>3, <1>4, <1>5, <2>1, RingForward, Sizes DEF AheadNc
<1>10. event' \in [Events -> BOOLEAN] BY <1>1 DEF TypeOK, Publish
<1>11. fft1_nm' \in Positions(max_fft1n) BY <1>1, Types, Sizes DEF Publish, Positions
<1> QED BY <1>11, <1>3, <1>6, <1>7, <1>8, <1>9, <1>10 DEF d

\* wideband_dsp, about to work, has a block.
LEMMA HasBlock ==
  ASSUME IInv, wpc \in {"hold", "work"}
  PROVE  /\ filled \in Nat /\ filled >= 1 /\ timf1p_px # timf1p_pa
         /\ no_of_fft1b = 0 => finished = 0
<1>1. TypeOK /\ InOrder BY DEF IInv
<1>2. filled \in Nat /\ filled >= 1 /\ timf1p_px # timf1p_pa
  BY <1>1, Types, RingType, Sizes DEF TypeOK, InOrder
<1>3. no_of_fft1b = 0 => finished = 0 BY <1>1, Types DEF InOrder
<1> QED BY <1>2, <1>3

\* ... and gives free workers what has been announced.
LEMMA Assigned ==
  ASSUME IInv, Assign
  PROVE  \E k \in 0 .. filled - AheadPb :
           /\ working' = working + k /\ filled' = filled - k
           /\ working + k + finished + leaving <= no_of_fft1b
           /\ timf1p_px' \in Positions(Timf1N)
           /\ Behind(timf1p_px', timf1p_pa, Timf1N) = filled - k
<1>1. TypeOK /\ InOrder BY DEF IInv
<1> DEFINE blocks == Behind(timf1p_px, timf1p_pb, Timf1N)
           free   == no_of_fft1b - working - finished - leaving
           k      == IF ~Active("WIDEBAND") THEN 0 ELSE IF blocks < free THEN blocks ELSE free
<1>2. blocks = filled - AheadPb
  BY <1>1, RingBetween, Sizes DEF TypeOK, InOrder, AheadPb
<1>3. free \in Nat /\ filled \in Nat /\ filled - AheadPb \in Nat
  <2>1. Slots(no_of_fft1b) = no_of_fft1b BY DEF Assign, Slots
  <2> QED BY <1>1, <2>1, Types DEF InOrder
<1>4. k \in 0 .. filled - AheadPb /\ k <= free BY <1>2, <1>3
<1>5. /\ working' = working + k /\ filled' = filled - k
      /\ timf1p_px' = Forward(timf1p_px, k, Timf1N)
  BY DEF Assign
<1> HIDE DEF blocks, k
<1>6. k \in 0 .. Timf1N - 1 /\ k <= filled
  <2>1. filled \in 0 .. Timf1N - 1 BY <1>1, RingType, Sizes DEF TypeOK, InOrder
  <2>2. AheadPb \in Nat BY <1>1, Types
  <2> QED BY <1>3, <1>4, <2>1, <2>2, Sizes
<1>7. timf1p_px' \in Positions(Timf1N) /\ Behind(timf1p_px', timf1p_pa, Timf1N) = filled - k
  <2>1. timf1p_px \in Positions(Timf1N) /\ timf1p_pa \in Positions(Timf1N)
        /\ Behind(timf1p_px, timf1p_pa, Timf1N) = filled
    BY <1>1 DEF TypeOK, InOrder
  <2> QED BY <1>5, <1>6, <2>1, RingForward, Sizes
<1>8. working + k + finished + leaving <= no_of_fft1b BY <1>1, <1>4, Types
<1> QED BY <1>4, <1>5, <1>7, <1>8

LEMMA TypeWide ==
  ASSUME Roomy, IInv, Wide \/ Worker
  PROVE  TypeOK'
<1>1. TypeOK /\ InOrder BY DEF IInv
<1> USE DEF TypeOK, others_W, setup, pool, narrow, W
<1>2. CASE Await BY <1>1, <1>2 DEF Await
<1>3. CASE WideWake BY <1>1, <1>3, EventType DEF WideWake, Take
<1>4. CASE Hold BY <1>1, <1>4 DEF Hold
<1>5. CASE Transform
  <2>1. timf1p_px' \in Positions(Timf1N) /\ filled' \in Int
    BY <1>1, <1>5, RingType, Sizes DEF Transform
  <2>2. finished' \in 0 .. Slots(no_of_fft1b) BY <1>5 DEF Transform, Slots
  <2>3. wpc' = "collect"
        /\ UNCHANGED <<others_W, cmd, event, cpc, working, leaving, fft1_na, fft1_nm, ahead>>
    BY <1>5 DEF Transform
  <2> QED BY <1>1, <2>1, <2>2, <2>3
<1>6. CASE Assign
  <2>1. /\ working' \in 0 .. no_of_fft1b /\ filled' \in Int /\ timf1p_px' \in Positions(Timf1N)
    BY <1>1, <1>6, Assigned, Types DEF InOrder
  <2>2. wpc' \in {"collect", "stop"} BY <1>6 DEF Assign
  <2> QED BY <1>1, <1>6, <2>1, <2>2 DEF Assign
<1>7. CASE Collect
  <2>1. PICK k \in 0 .. finished :
          /\ finished' = finished - k /\ Publish(k)
          /\ leaving' = IF no_of_fft1b = 0 THEN leaving ELSE leaving + k
    BY <1>7 DEF Collect
  <2>2. finished' \in 0 .. Slots(no_of_fft1b) /\ k \in Nat /\ k <= filled + finished
        /\ leaving' \in 0 .. no_of_fft1b
    <3>1. /\ finished \in 0 .. Slots(no_of_fft1b) /\ Slots(no_of_fft1b) \in Nat
          /\ filled \in Nat /\ working \in Nat /\ leaving \in 0 .. no_of_fft1b
          /\ no_of_fft1b \in Nat /\ working + finished + leaving <= Slots(no_of_fft1b)
      BY <1>1, Types DEF InOrder
    <3>2. no_of_fft1b # 0 => Slots(no_of_fft1b) = no_of_fft1b BY DEF Slots
    <3>3. leaving' \in 0 .. no_of_fft1b BY <2>1, <3>1, <3>2
    <3>4. finished' \in 0 .. Slots(no_of_fft1b) BY <2>1, <3>1
    <3> QED BY <2>1, <3>1, <3>3, <3>4
  <2>3. fft1_na' \in Positions(max_fft1n) /\ event' \in [Events -> BOOLEAN]
        /\ fft1_nm' \in Positions(max_fft1n)
    BY <1>7, <2>1, <2>2, Published DEF Collect
  <2>4. ahead' \in Int
    <3>1. ahead' = ahead + k * fft1_muln BY <2>1 DEF Publish
    <3>2. k * fft1_muln \in Int BY <2>2, PublishFits
    <3> QED BY <1>1, <3>1, <3>2
  <2>5. wpc' = "await" /\ UNCHANGED <<others_W, cmd, cpc, working, timf1p_px, filled>>
    BY <1>7 DEF Collect
  <2> QED BY <1>1, <2>2, <2>3, <2>4, <2>5
<1>8. CASE StopFft1c
  <2>1. cmd' \in [Threads -> {"ACTIVE", "KILL"}] BY <1>1, <1>8 DEF StopFft1c
  <2>2. event' \in [Events -> BOOLEAN] BY <1>1, <1>8, EventType DEF StopFft1c, Post
  <2>3. wpc' \in {"stop", "returned"} BY <1>8 DEF StopFft1c
  <2> QED BY <1>1, <1>8, <2>1, <2>2, <2>3 DEF StopFft1c
<1>9. CASE WorkDone
  <2>1. working' \in 0 .. no_of_fft1b /\ finished' \in 0 .. Slots(no_of_fft1b)
    BY <1>1, <1>9, Types DEF WorkDone, InOrder
  <2> QED BY <1>1, <1>9, <2>1, EventType DEF WorkDone, Post
<1>10. CASE WorkAwait
  <2>1. leaving' \in 0 .. no_of_fft1b BY <1>1, <1>10, Types DEF WorkAwait
  <2> QED BY <1>1, <1>10, <2>1 DEF WorkAwait
<1> QED BY <1>2, <1>3, <1>4, <1>5, <1>6, <1>7, <1>8, <1>9, <1>10 DEF Wide, Worker

LEMMA TypeFft1c ==
  ASSUME TypeOK, Fft1c
  PROVE  TypeOK'
<1> USE DEF TypeOK, others_C, setup, user, pool, timf1, narrow, C
<1>1. CASE Fft1cWake BY <1>1, EventType DEF Fft1cWake, Take
<1>2. CASE Fft1cDone
  <2>1. event' \in [Events -> BOOLEAN] BY <1>2, EventType DEF Fft1cDone, Post
  <2>2. fft1_nb' \in Positions(max_fft1n) BY <1>2, RingType, Sizes DEF Fft1cDone
  <2>3. posted' \in 0 .. fft1_muln - 1 BY <1>2, Sizes DEF Fft1cDone
  <2> QED BY <1>2, <2>1, <2>2, <2>3 DEF Fft1cDone
<1>3. CASE Fft1cRest BY <1>3 DEF Fft1cRest
<1> QED BY <1>1, <1>2, <1>3 DEF Fft1c

\* Where narrowband_dsp goes at the end of a round.
LEMMA OnwardType == \A fftx : Onward(fftx) \in {"returned", "mix", "asleep"}
BY DEF Onward

\* Of a round that mixes: timf3 and baseb are not overrun, and fft1_nx goes on.
LEMMA Mixed ==
  ASSUME TypeOK, NEW mixed \in BOOLEAN, NEW fftx \in BOOLEAN, Mix(mixed, fftx),
         mixed => timf3 < Timf3N
  PROVE  /\ timf3' \in 0 .. Timf3N /\ baseb' \in 0 .. BasebN
         /\ npc' \in {"returned", "mix", "asleep", "flag"}
         /\ fft1_nx' \in Positions(max_fft1n) /\ ahead' \in Int /\ fftx_flag' \in BOOLEAN
<1> DEFINE all  == IF mixed THEN timf3 + 1 ELSE timf3
           room == BasebN - baseb
           k    == IF all < room THEN all ELSE room
<1>1. all \in 0 .. Timf3N /\ room \in 0 .. BasebN BY Sizes DEF TypeOK
<1>2. k \in Nat /\ all - k \in 0 .. Timf3N /\ baseb + k \in 0 .. BasebN
  BY <1>1, Sizes DEF TypeOK
<1>3. IF new_baseb_flag > 0 THEN timf3' = 0 /\ baseb' = 0
      ELSE timf3' = all - k /\ baseb' = baseb + k
  BY DEF Mix
<1> HIDE DEF all, room, k
<1>4. timf3' \in 0 .. Timf3N /\ baseb' \in 0 .. BasebN BY <1>2, <1>3, Sizes
<1>5. npc' \in {"returned", "mix", "asleep", "flag"} BY OnwardType DEF Mix, N
<1>6. fft1_nx' \in Positions(max_fft1n) BY RingType, Sizes DEF Mix, TypeOK
<1> QED BY <1>4, <1>5, <1>6 DEF Mix, TypeOK

LEMMA AgainType ==
  ASSUME TypeOK
  PROVE  Again \in 0 .. max_fft1n - 1 /\ Again <= Refill /\ Again <= fft1_nm
BY Types, Sizes DEF Again

LEMMA TypeNarrow ==
  ASSUME TypeOK, Narrow
  PROVE  TypeOK'
<1> USE DEF TypeOK, others_N, setup, user, pool, timf1, N
<1>1. CASE NarrowWake BY <1>1, EventType DEF NarrowWake, Take
<1>2. CASE Reset
  <2>1. fft1_nc' \in Positions(max_fft1n) /\ Again \in Nat
    BY <1>2, AgainType, RingBack, Sizes DEF Reset
  <2>2. fft1_nb' \in Positions(max_fft1n) /\ fft1_nx' \in Positions(max_fft1n) /\ ahead' \in Int
    BY <1>2, <2>1, Sizes DEF Reset
  <2>3. npc' \in {"returned", "mix", "asleep"} BY <1>2, OnwardType DEF Reset
  <2>4. timf3' \in 0 .. Timf3N /\ baseb' \in 0 .. BasebN BY <1>2, Sizes DEF Reset
  <2>5. reset' \in BOOLEAN /\ new_baseb_flag' = 3
        /\ UNCHANGED <<others_N, event, fftx_flag, last_pb>>
    BY <1>2 DEF Reset
  <2> QED BY <2>1, <2>2, <2>3, <2>4, <2>5
<1>3. CASE SkipAll
  <2>1. npc' \in {"returned", "mix", "asleep"} BY <1>3, OnwardType DEF SkipAll
  <2>2. Behind(fft1_nx, fft1_nb, max_fft1n) \in Int BY RingType, Sizes
  <2>3. /\ fft1_nx' = fft1_nb /\ fft1_nc' = fft1_nb /\ fftx_flag' \in BOOLEAN
        /\ ahead' = ahead - Behind(fft1_nx, fft1_nb, max_fft1n)
        /\ UNCHANGED <<others_N, event, fft1_nb, timf3, baseb, new_baseb_flag, last_pb, reset>>
    BY <1>3 DEF SkipAll
  <2>4. ahead' \in Int BY <2>2, <2>3
  <2> QED BY <2>1, <2>3, <2>4
<1>4. CASE MixFixed \/ MixAfc
  <2>1. /\ timf3' \in 0 .. Timf3N /\ baseb' \in 0 .. BasebN
        /\ npc' \in {"returned", "mix", "asleep", "flag"}
        /\ fft1_nx' \in Positions(max_fft1n) /\ ahead' \in Int /\ fftx_flag' \in BOOLEAN
    BY <1>4, Mixed DEF MixFixed, MixAfc
  <2>2. fft1_nc' = fft1_nc \/ fft1_nc' = NextPos(fft1_nc, max_fft1n)
    BY <1>4 DEF MixFixed, MixAfc
  <2>3. fft1_nc' \in Positions(max_fft1n) BY <2>2, RingType, Sizes
  <2>4. UNCHANGED <<others_N, event, fft1_nb, new_baseb_flag, last_pb, reset>>
    BY <1>4 DEF MixFixed, MixAfc, Mix
  <2> QED BY <2>1, <2>3, <2>4
<1>5. CASE Flag
  <2>1. npc' \in {"returned", "mix", "asleep", "input_wait"} BY <1>5, OnwardType DEF Flag
  <2>2. last_pb' \in Positions(Timf1N) BY <1>5 DEF Flag
  <2> QED BY <1>5, <2>1, <2>2 DEF Flag
<1>6. CASE InputWait BY <1>6 DEF InputWait
<1> QED BY <1>1, <1>2, <1>3, <1>4, <1>5, <1>6 DEF Narrow

LEMMA TypeRest ==
  ASSUME TypeOK, Output \/ F3 \/ AskReset \/ Esc \/ KillRound \/ PressX \/ Main \/ UNCHANGED vars
  PROVE  TypeOK'
<1> USE DEF TypeOK, others_U, setup, user, pool, timf1, fft1, narrow
<1>1. CASE Output
  <2>1. baseb' \in 0 .. BasebN BY <1>1, Sizes DEF Output
  <2>2. UNCHANGED <<setup, audio_dump_flag, user, event, fpc, wpc, cpc, pool, timf1, fft1,
                    posted, narrow, reset>>
    BY <1>1 DEF Output
  <2> QED BY <2>1, <2>2
<1>2. CASE F3 BY <1>2 DEF F3
<1>3. CASE AskReset BY <1>3, EventType DEF AskReset, Post
<1>4. CASE Esc BY <1>4 DEF Esc
<1>5. CASE KillRound
  <2>1. cmd' \in [Threads -> {"ACTIVE", "KILL"}] BY <1>5 DEF KillRound
  <2>2. event' \in [Events -> BOOLEAN] BY <1>5 DEF KillRound, Alive
  <2> QED BY <1>5, <2>1, <2>2 DEF KillRound
<1>6. CASE PressX
  <2>1. mpc' = "FILE" /\ output' \in BOOLEAN
        /\ UNCHANGED <<setup, audio_dump_flag, cmd, kill_all_flag, event, fpc, wpc, cpc, pool,
                       timf1, fft1, posted, narrow, baseb, reset>>
    BY <1>6 DEF PressX
  <2> QED BY <2>1
<1>7. CASE StopPost
  <2>1. cmd' \in [Threads -> {"ACTIVE", "KILL"}] BY <1>7 DEF StopPost
  <2>2. event' \in [Events -> BOOLEAN] BY <1>7 DEF StopPost
  <2> QED BY <1>7, <2>1, <2>2 DEF StopPost
<1>8. CASE StopNext
  <2>1. mpc' \in {"NARROWBAND", "WIDEBAND", "end"} BY <1>8 DEF StopNext, After, Threads
  <2>2. UNCHANGED <<others_U, audio_dump_flag, cmd, kill_all_flag, event, reset>>
    BY <1>8 DEF StopNext
  <2> QED BY <2>1, <2>2
<1>9. CASE UNCHANGED vars BY <1>9 DEF vars
<1> QED BY <1>1, <1>2, <1>3, <1>4, <1>5, <1>6, <1>7, <1>8, <1>9 DEF Main

LEMMA TypeStep ==
  ASSUME Roomy, IInv, [Next]_vars
  PROVE  TypeOK'
BY TypeFile, TypeWide, TypeFft1c, TypeNarrow, TypeRest DEF IInv, Next

-----------------------------------------------------------------------------
(* What the steps do to the distances                                       *)

LEMMA Read ==
  ASSUME Roomy, IInv, FileRead
  PROVE  /\ filled' = filled + 1 /\ Behind(timf1p_px, timf1p_pa', Timf1N) = filled + 1
         /\ AheadPb' = 1
         /\ AheadPb # 0 => timf1p_pb' # timf1p_pb
<1>1. TypeOK /\ InOrder /\ FewFilled BY DEF IInv
<1>2. /\ timf1p_pa \in Positions(Timf1N) /\ timf1p_pb \in Positions(Timf1N)
      /\ timf1p_px \in Positions(Timf1N)
  BY <1>1 DEF TypeOK
<1>3. /\ timf1p_pb' = timf1p_pa /\ timf1p_pa' = NextPos(timf1p_pa, Timf1N)
      /\ filled' = filled + 1 /\ fpc # "returned"
  BY DEF FileRead, F
<1>4. filled + 1 < Timf1N BY <1>1, <1>3, Room, Types, Leaves, Sizes DEF FewFilled
<1>5. Behind(timf1p_px, timf1p_pa', Timf1N) = filled + 1
  BY <1>1, <1>2, <1>3, <1>4, RingHead, Sizes DEF InOrder
<1>6. Behind(timf1p_pa, timf1p_pa, Timf1N) = 0 BY <1>2, RingType, Sizes
<1>7. AheadPb' = 1 BY <1>2, <1>3, <1>6, RingHead, Sizes DEF AheadPb
<1>8. AheadPb # 0 => timf1p_pb' # timf1p_pb BY <1>2, <1>3, RingType, Sizes DEF AheadPb
<1> QED BY <1>3, <1>5, <1>7, <1>8

LEMMA ResetBack ==
  ASSUME Roomy, IInv, Reset
  PROVE  /\ ahead' = Again /\ Behind(fft1_nx', fft1_na', max_fft1n) = Again
         /\ AheadNb <= Again /\ AheadNb' = AheadNb /\ AheadNc' = Again
         /\ Again \in Nat /\ Again <= Refill /\ Again <= fft1_nm
<1>1. TypeOK /\ ~audio_dump_flag /\ fft1_na' = fft1_na
  BY DEF IInv, NarrowRests, Reset, others_N
<1>2. /\ ahead' = Again /\ fft1_nc' = (fft1_na - Again) % max_fft1n /\ fft1_nx' = fft1_nc'
      /\ fft1_nb' = fft1_nb
  BY <1>1 DEF Reset
<1>3. AheadNb <= Again BY DEF Reset, Roomy, AheadNb
<1>4. Again \in 0 .. max_fft1n - 1 /\ Again <= Refill /\ Again <= fft1_nm
  BY <1>1, AgainType
<1>5. Behind((fft1_na - Again) % max_fft1n, fft1_na, max_fft1n) = Again
  BY <1>1, <1>4, RingBack, Sizes DEF TypeOK
<1> QED BY <1>1, <1>2, <1>3, <1>4, <1>5, Sizes DEF AheadNb, AheadNc

LEMMA Skipped ==
  ASSUME IInv, SkipAll
  PROVE  /\ ahead' = AheadNb /\ Behind(fft1_nx', fft1_na', max_fft1n) = AheadNb
         /\ AheadNb' = AheadNb /\ AheadNc' = AheadNb
<1>1. TypeOK /\ InOrder BY DEF IInv
<1>2. /\ fft1_nx' = fft1_nb /\ fft1_nc' = fft1_nb /\ fft1_nb' = fft1_nb /\ fft1_na' = fft1_na
      /\ ahead' = ahead - Behind(fft1_nx, fft1_nb, max_fft1n)
  BY DEF SkipAll, others_N
<1>3. Behind(fft1_nx, fft1_nb, max_fft1n) = ahead - AheadNb
  BY <1>1, RingBetween, Sizes DEF TypeOK, InOrder, AheadNb
<1>4. ahead \in Int /\ AheadNb \in Int BY <1>1, Types
<1> QED BY <1>2, <1>3, <1>4 DEF AheadNb, AheadNc

\* If narrowband_dsp is not to come back, it has mixed all but what AFC keeps.
LEMMA MixedFixed ==
  ASSUME Roomy, IInv, MixFixed
  PROVE  /\ ahead' \in {ahead, ahead - 1} /\ Behind(fft1_nx', fft1_na', max_fft1n) = ahead'
         /\ AheadNb' = AheadNb /\ AheadNb <= ahead'
         /\ mpc = "run" /\ ~fftx_flag' => ahead' = AheadNb
<1>1. TypeOK /\ InOrder /\ NarrowRests BY DEF IInv
<1> DEFINE mixed == fft1_nb # fft1_nx /\ timf3 < Timf3N
<1>2. /\ fft1_nb' = fft1_nb /\ fft1_na' = fft1_na
      /\ fft1_nx' = IF mixed THEN NextPos(fft1_nx, max_fft1n) ELSE fft1_nx
      /\ ahead' = IF mixed THEN ahead - 1 ELSE ahead
      /\ fftx_flag' = (mixed /\ (NextPos(fft1_nx, max_fft1n) # fft1_nb \/ timf3 + 1 = Timf3N))
  BY DEF MixFixed, Mix, others_N
<1>3. /\ fft1_na \in Positions(max_fft1n) /\ fft1_nb \in Positions(max_fft1n)
      /\ fft1_nx \in Positions(max_fft1n)
  BY <1>1 DEF TypeOK
<1>4. Behind(fft1_nx, fft1_na, max_fft1n) = ahead /\ AheadNb <= ahead BY <1>1 DEF InOrder
<1>5. AheadNb' = AheadNb BY <1>2 DEF AheadNb
<1>6. mpc = "run" => timf3 = 0 /\ timf3 < Timf3N BY <1>1, Sizes DEF NarrowRests
<1>7. ahead \in Int /\ AheadNb \in Int /\ AheadNb >= 0 BY <1>1, Types
<1>8. fft1_nb # fft1_nx => AheadNb < ahead
  <2>1. fft1_nb # fft1_nx => AheadNb # ahead
    <3>1. AheadNb = Behind(fft1_nb, fft1_na, max_fft1n) BY DEF AheadNb
    <3> QED BY <1>3, <1>4, <3>1, Sizes DEF Behind, Positions
  <2> QED BY <1>4, <1>7, <2>1
<1>9. CASE mixed
  <2>1. fft1_nx # fft1_na BY <1>3, <1>4, <1>7, <1>8, <1>9, RingType, Sizes
  <2>2. ahead' = ahead - 1 /\ fft1_nx' = NextPos(fft1_nx, max_fft1n) BY <1>2, <1>9
  <2>3. Behind(fft1_nx', fft1_na, max_fft1n) = ahead'
    BY <1>3, <1>4, <2>1, <2>2, RingTail, Sizes
  <2>4. AheadNb <= ahead' BY <1>7, <1>8, <1>9, <2>2
  <2>5. fft1_nx' = fft1_nb => ahead' = AheadNb BY <1>2, <2>3 DEF AheadNb
  <2>6. ~fftx_flag' => fft1_nx' = fft1_nb BY <1>2, <1>9, <2>2
  <2> QED BY <1>2, <1>5, <2>2, <2>3, <2>4, <2>5, <2>6
<1>10. CASE ~mixed
  <2>1. ahead' = ahead /\ fft1_nx' = fft1_nx BY <1>2, <1>10
  <2>2. mpc = "run" => fft1_nb = fft1_nx BY <1>6, <1>10
  <2>3. fft1_nb = fft1_nx => AheadNb = ahead BY <1>4 DEF AheadNb
  <2> QED BY <1>2, <1>4, <1>5, <2>1, <2>2, <2>3
<1> QED BY <1>9, <1>10

LEMMA MixedAfc ==
  ASSUME Roomy, IInv, MixAfc
  PROVE  /\ ahead' \in {ahead, ahead - 1} /\ Behind(fft1_nx', fft1_na', max_fft1n) = ahead'
         /\ AheadNb' = AheadNb /\ AheadNb <= AheadNc' /\ AheadNc' <= ahead' /\ AheadNc' \in Nat
         /\ ~fftx_flag' => ahead' - AheadNb <= Delay
<1>1. TypeOK /\ InOrder BY DEF IInv
<1> DEFINE mixed == /\ fft1_nm >= afc_tpts /\ timf3 < Timf3N
                    /\ Behind(fft1_nx, fft1_nc', max_fft1n) > Delay
           next  == IF mixed THEN NextPos(fft1_nx, max_fft1n) ELSE fft1_nx
<1>2. /\ fft1_nb' = fft1_nb /\ fft1_na' = fft1_na /\ fft1_nx' = next
      /\ fft1_nc' = IF fft1_nb # fft1_nc THEN NextPos(fft1_nc, max_fft1n) ELSE fft1_nc
      /\ ahead' = IF mixed THEN ahead - 1 ELSE ahead
      /\ afc
  BY DEF MixAfc, Mix, others_N
<1>3. fftx_flag' = ( \/ Behind(next, fft1_nb, max_fft1n) > Delay
                     \/ (IF mixed THEN timf3 + 1 ELSE timf3) = Timf3N)
  BY DEF MixAfc, Mix
<1>4. /\ fft1_na \in Positions(max_fft1n) /\ fft1_nb \in Positions(max_fft1n)
      /\ fft1_nc \in Positions(max_fft1n) /\ fft1_nx \in Positions(max_fft1n)
  BY <1>1 DEF TypeOK
<1>5. /\ Behind(fft1_nx, fft1_na, max_fft1n) = ahead /\ AheadNb <= AheadNc
      /\ AheadNc <= ahead
  BY <1>1, <1>2 DEF InOrder
<1>6. ahead \in Int /\ AheadNb \in Nat /\ AheadNc \in Nat /\ Delay \in Nat
  BY <1>1, Types, Sizes
<1>7. AheadNb' = AheadNb /\ AheadNc' = Behind(fft1_nc', fft1_na, max_fft1n)
  BY <1>2 DEF AheadNb, AheadNc
<1>8. AheadNb <= AheadNc' /\ AheadNc' <= AheadNc /\ AheadNc' \in Nat
      /\ fft1_nc' \in Positions(max_fft1n)
  <2>1. CASE fft1_nb = fft1_nc BY <1>2, <1>4, <1>5, <1>6, <2>1 DEF AheadNc
  <2>2. CASE fft1_nb # fft1_nc
    <3>1. AheadNb # AheadNc BY <1>4, <2>2, Sizes DEF AheadNb, AheadNc, Behind, Positions
    <3>2. AheadNc # 0 BY <1>5, <1>6, <3>1
    <3>3. fft1_nc # fft1_na BY <1>4, <3>2, RingType, Sizes DEF AheadNc
    <3>4. fft1_nc' = NextPos(fft1_nc, max_fft1n) BY <1>2, <2>2
    <3>5. AheadNc' = AheadNc - 1 BY <1>4, <1>7, <3>3, <3>4, RingTail, Sizes DEF AheadNc
    <3>6. fft1_nc' \in Positions(max_fft1n) BY <1>4, <3>4, RingType, Sizes
    <3> QED BY <1>5, <1>6, <3>1, <3>2, <3>5, <3>6
  <2> QED BY <2>1, <2>2
<1>9. Behind(fft1_nx, fft1_nc', max_fft1n) = ahead - AheadNc'
  BY <1>4, <1>5, <1>6, <1>7, <1>8, RingBetween, Sizes
<1>10. /\ ahead' \in {ahead, ahead - 1} /\ Behind(fft1_nx', fft1_na, max_fft1n) = ahead'
       /\ AheadNc' <= ahead' /\ ahead' \in Int /\ fft1_nx' \in Positions(max_fft1n)
  <2>1. CASE mixed
    <3>1. ahead - AheadNc' > Delay BY <1>9, <2>1
    <3> DEFINE c == AheadNc'
    <3>2. c \in Nat /\ ahead \in Int /\ Delay \in Nat /\ ahead - c > Delay BY <1>6, <1>8, <3>1
    <3> HIDE DEF c
    <3>3. c <= ahead - 1 /\ ahead # 0 BY <3>2
    <3>4. AheadNc' <= ahead - 1 /\ ahead # 0 BY <3>3 DEF c
    <3>5. fft1_nx # fft1_na BY <1>4, <1>5, <3>4, RingType, Sizes
    <3>6. ahead' = ahead - 1 /\ fft1_nx' = NextPos(fft1_nx, max_fft1n) BY <1>2, <2>1
    <3>7. Behind(fft1_nx', fft1_na, max_fft1n) = ahead - 1
      BY <1>4, <1>5, <3>5, <3>6, RingTail, Sizes
    <3>8. fft1_nx' \in Positions(max_fft1n) BY <1>4, <3>6, RingType, Sizes
    <3> QED BY <1>6, <3>4, <3>6, <3>7, <3>8
  <2>2. CASE ~mixed
    <3>1. ahead' = ahead /\ fft1_nx' = fft1_nx BY <1>2, <2>2
    <3> QED BY <1>4, <1>5, <1>6, <1>8, <3>1
  <2> QED BY <2>1, <2>2
<1>11. Behind(fft1_nx', fft1_nb, max_fft1n) = ahead' - AheadNb
  <2>1. AheadNb = Behind(fft1_nb, fft1_na, max_fft1n) BY DEF AheadNb
  <2>2. AheadNb <= ahead' BY <1>6, <1>8, <1>10
  <2> QED BY <1>4, <1>10, <2>1, <2>2, RingBetween, Sizes
<1>12. ~fftx_flag' => ~(Behind(fft1_nx', fft1_nb, max_fft1n) > Delay) BY <1>2, <1>3
<1> HIDE DEF mixed, next
<1>13. ~fftx_flag' => ahead' - AheadNb <= Delay
  <2>1. ahead' - AheadNb \in Int /\ Delay \in Int BY <1>6, <1>10
  <2>2. ahead' - AheadNb > Delay \/ ahead' - AheadNb <= Delay BY <2>1
  <2> QED BY <1>11, <1>12, <2>2
<1> QED BY <1>2, <1>7, <1>8, <1>10, <1>13

LEMMA Transformed ==
  ASSUME Roomy, IInv, fft1_nb' = NextPos(fft1_nb, max_fft1n), fft1_nb # fft1_na,
         UNCHANGED fft1_na
  PROVE  AheadNb >= 1 /\ AheadNb' = AheadNb - 1
<1>1. fft1_na \in Positions(max_fft1n) /\ fft1_nb \in Positions(max_fft1n)
  BY DEF IInv, TypeOK
<1>2. AheadNb # 0 BY <1>1, RingType, Sizes DEF AheadNb
<1>3. AheadNb' = AheadNb - 1 BY <1>1, RingTail, Sizes DEF AheadNb
<1> QED BY <1>2, <1>3, Types DEF IInv

LEMMA OrderStep ==
  ASSUME Roomy, IInv, [Next]_vars
  PROVE  InOrder'
<1>1. TypeOK /\ InOrder BY DEF IInv
<1>2. TypeOK' BY TypeStep
<1>3. ASSUME UNCHANGED <<setup, timf1, fft1, pool>>,
             wpc' \in {"hold", "work"} => wpc \in {"hold", "work"} \/ timf1p_pb # timf1p_px,
             wpc = "collect" => wpc' = "collect"
      PROVE  InOrder'
  <2>1. AheadPb' = AheadPb /\ AheadNb' = AheadNb /\ AheadNc' = AheadNc
    BY <1>3 DEF AheadPb, AheadNb, AheadNc, timf1, fft1
  <2>2. wpc' \in {"hold", "work"} => AheadPb < filled
    <3>1. timf1p_pb # timf1p_px => AheadPb # filled
      BY <1>1, Sizes DEF AheadPb, InOrder, TypeOK, Behind, Positions
    <3> QED BY <1>1, <1>3, <3>1, Types DEF InOrder
  <2> QED BY <1>1, <1>3, <2>1, <2>2 DEF InOrder, setup, timf1, fft1, pool
<1>4. CASE File
  <2>1. CASE FileRead
    <3>1. /\ filled' = filled + 1 /\ Behind(timf1p_px, timf1p_pa', Timf1N) = filled + 1
          /\ AheadPb' = 1
      BY <2>1, Read
    <3>2. UNCHANGED <<timf1p_px, fft1_na, fft1_nb, fft1_nc, fft1_nx, ahead, pool,
                      no_of_fft1b, afc, wpc>>
      BY <2>1 DEF FileRead, others_F, fft1, pool, setup
    <3>3. AheadNb' = AheadNb /\ AheadNc' = AheadNc BY <3>2 DEF AheadNb, AheadNc
    <3>4. filled' \in Nat /\ AheadPb' <= filled' BY <1>1, <3>1 DEF InOrder
    <3>5. wpc' \in {"hold", "work"} => AheadPb' < filled'
      BY <1>1, <3>1, <3>2, Types DEF InOrder
    <3> QED BY <1>1, <3>1, <3>2, <3>3, <3>4, <3>5 DEF InOrder, pool
  <2>2. CASE FilePaced BY <1>3, <2>2 DEF FilePaced, others_F
  <2>3. CASE FileWait BY <1>3, <2>3 DEF FileWait, others_F
  <2>4. CASE SettleWide BY <1>3, <2>4 DEF SettleWide, Settled
  <2>5. CASE SettleNarrow BY <1>3, <2>5 DEF SettleNarrow, Settled
  <2> QED BY <1>4, <2>1, <2>2, <2>3, <2>4, <2>5 DEF File
<1>5. CASE Wide \/ Worker
  <2>1. CASE Await BY <1>3, <2>1 DEF Await, W, others_W, timf1, fft1
  <2>2. CASE WideWake BY <1>3, <2>2 DEF WideWake, W, others_W, timf1, fft1
  <2>3. CASE Hold BY <1>3, <2>3 DEF Hold, W, others_W, timf1, fft1
  <2>4. CASE StopFft1c BY <1>3, <2>4 DEF StopFft1c, others_W, timf1, fft1
  <2>5. CASE WorkDone
    <3>1. working > 0 /\ working' = working - 1 /\ finished' = finished + 1
          /\ UNCHANGED <<setup, leaving, timf1, fft1, wpc>>
      BY <2>5 DEF WorkDone, others_W, timf1, fft1
    <3>2. AheadPb' = AheadPb /\ AheadNb' = AheadNb /\ AheadNc' = AheadNc
      BY <3>1 DEF AheadPb, AheadNb, AheadNc, timf1, fft1
    <3>3. working' + finished' + leaving' <= Slots(no_of_fft1b)
      BY <1>1, <3>1, Types DEF InOrder
    <3>4. no_of_fft1b # 0 BY <1>1, <3>1, Types
    <3> QED BY <1>1, <3>1, <3>2, <3>3, <3>4 DEF InOrder, setup, timf1, fft1
  <2>6. CASE WorkAwait
    <3>1. leaving' = leaving - 1 /\ UNCHANGED <<setup, working, finished, timf1, fft1, wpc>>
      BY <2>6 DEF WorkAwait, others_W, timf1, fft1
    <3>2. AheadPb' = AheadPb /\ AheadNb' = AheadNb /\ AheadNc' = AheadNc
      BY <3>1 DEF AheadPb, AheadNb, AheadNc, timf1, fft1
    <3>3. working' + finished' + leaving' <= Slots(no_of_fft1b)
      BY <1>1, <3>1, Types DEF InOrder
    <3> QED BY <1>1, <3>1, <3>2, <3>3 DEF InOrder, setup, timf1, fft1
  <2>7. ASSUME NEW k \in Nat, k <= filled + finished, Publish(k),
               UNCHANGED <<afc, fft1_nb, fft1_nc, fft1_nx>>
        PROVE  /\ ahead' \in Nat /\ Behind(fft1_nx', fft1_na', max_fft1n) = ahead'
               /\ AheadNb' <= ahead' /\ (afc' => AheadNb' <= AheadNc' /\ AheadNc' <= ahead')
    <3> DEFINE d == fft1_muln * k
    <3>1. d \in Nat BY <2>7, PublishFits
    <3>2. /\ ahead' = ahead + d /\ Behind(fft1_nx, fft1_na', max_fft1n) = ahead'
          /\ AheadNb' = AheadNb + d /\ (afc => AheadNc' = AheadNc + d)
      BY <2>7, Published
    <3> HIDE DEF d
    <3> QED BY <1>1, <2>7, <3>1, <3>2, Types DEF InOrder
  <2>8. CASE Transform
    <3>1. filled \in Nat /\ filled >= 1 /\ timf1p_px # timf1p_pa
      BY <2>8, HasBlock DEF Transform, W
    <3>2. /\ filled' = filled - 1 /\ timf1p_px' = NextPos(timf1p_px, Timf1N)
          /\ wpc' = "collect" /\ finished' = 1 /\ no_of_fft1b = 0
          /\ UNCHANGED <<setup, working, leaving, fft1, timf1p_pa, timf1p_pb>>
      BY <2>8 DEF Transform, others_W, W, fft1
    <3>3. Behind(timf1p_px', timf1p_pa, Timf1N) = filled - 1
      BY <1>1, <3>1, <3>2, RingTail, Sizes DEF TypeOK, InOrder
    <3>4. AheadPb' = AheadPb /\ AheadPb < filled
      <4>1. wpc = "work" BY <2>8 DEF Transform, W
      <4> QED BY <1>1, <3>2, <4>1 DEF AheadPb, InOrder
    <3>5. filled' \in Nat /\ AheadPb' <= filled' BY <1>1, <3>1, <3>2, <3>4, Types
    <3>6. AheadNb' = AheadNb /\ AheadNc' = AheadNc BY <3>2 DEF AheadNb, AheadNc, fft1
    <3>7. working' + finished' + leaving' <= Slots(no_of_fft1b) BY <1>1, <3>2, Types
    <3> QED BY <1>1, <3>2, <3>3, <3>4, <3>5, <3>6, <3>7 DEF InOrder, setup, fft1
  <2>9. CASE Assign
    <3>1. PICK k \in 0 .. filled - AheadPb :
            /\ working' = working + k /\ filled' = filled - k
            /\ working + k + finished + leaving <= no_of_fft1b
            /\ Behind(timf1p_px', timf1p_pa, Timf1N) = filled - k
      BY <2>9, Assigned
    <3>2. wpc' \notin {"hold", "work"}
          /\ UNCHANGED <<setup, finished, leaving, timf1p_pa, timf1p_pb, fft1>>
          /\ no_of_fft1b # 0
      BY <2>9 DEF Assign, others_W, W, fft1
    <3>3. AheadPb' = AheadPb /\ AheadNb' = AheadNb /\ AheadNc' = AheadNc
      BY <3>2 DEF AheadPb, AheadNb, AheadNc, fft1
    <3>4. /\ filled' \in Nat /\ AheadPb' <= filled'
          /\ working' + finished' + leaving' <= Slots(no_of_fft1b)
      <4>1. Slots(no_of_fft1b) = no_of_fft1b BY <3>2 DEF Slots
      <4> QED BY <1>1, <3>1, <3>2, <3>3, <4>1, Types DEF InOrder
    <3> QED BY <1>1, <3>1, <3>2, <3>3, <3>4 DEF InOrder, setup, fft1
  <2>10. CASE Collect
    <3>1. PICK k \in 0 .. finished :
            /\ working = 0 => k = finished
            /\ finished' = finished - k /\ Publish(k)
            /\ leaving' = IF no_of_fft1b = 0 THEN leaving ELSE leaving + k
      BY <2>10 DEF Collect
    <3>2. wpc' = "await"
          /\ UNCHANGED <<setup, working, timf1, fft1_nb, fft1_nc, fft1_nx>>
      BY <2>10 DEF Collect, others_W, W, timf1
    <3>3. /\ k \in Nat /\ k <= filled + finished
          /\ working' + finished' + leaving' <= Slots(no_of_fft1b)
          /\ no_of_fft1b = 0 => finished' = 0
      <4>1. /\ working \in Nat /\ finished \in Nat /\ leaving \in Nat /\ filled \in Nat
            /\ Slots(no_of_fft1b) \in Nat /\ working + finished + leaving <= Slots(no_of_fft1b)
        BY <1>1, Types DEF InOrder
      <4>2. no_of_fft1b = 0 => working = 0 /\ leaving = 0 BY <1>1, Types
      <4>3. working' + finished' + leaving' <= Slots(no_of_fft1b) BY <3>1, <3>2, <4>1
      <4>4. no_of_fft1b = 0 => finished' = 0 BY <3>1, <4>1, <4>2
      <4> QED BY <3>1, <4>1, <4>3, <4>4
    <3>4. /\ ahead' \in Nat /\ Behind(fft1_nx', fft1_na', max_fft1n) = ahead'
          /\ AheadNb' <= ahead' /\ (afc' => AheadNb' <= AheadNc' /\ AheadNc' <= ahead')
      BY <2>7, <3>1, <3>2, <3>3 DEF setup
    <3>5. AheadPb' = AheadPb BY <3>2 DEF AheadPb, timf1
    <3> QED BY <1>1, <3>2, <3>3, <3>4, <3>5 DEF InOrder, setup, timf1
  <2> QED BY <1>5, <2>1, <2>2, <2>3, <2>4, <2>5, <2>8, <2>9, <2>10, <2>6 DEF Wide, Worker
<1>6. CASE Fft1c
  <2>1. CASE Fft1cDone
    <3>1. AheadNb >= 1 /\ AheadNb' = AheadNb - 1
      BY <2>1, Transformed DEF Fft1cDone, others_C
    <3>2. UNCHANGED <<setup, pool, timf1, wpc, fft1_na, fft1_nc, fft1_nx, ahead>>
      BY <2>1 DEF Fft1cDone, others_C
    <3>3. AheadPb' = AheadPb /\ AheadNc' = AheadNc
      BY <3>2 DEF AheadPb, AheadNc, timf1
    <3> QED BY <1>1, <3>1, <3>2, <3>3, Types DEF InOrder, setup, pool, timf1
  <2>2. CASE Fft1cWake BY <1>3, <2>2 DEF Fft1cWake, others_C, fft1
  <2>3. CASE Fft1cRest BY <1>3, <2>3 DEF Fft1cRest, others_C, fft1
  <2> QED BY <1>6, <2>1, <2>2, <2>3 DEF Fft1c
<1>7. CASE Narrow
  <2>1. ASSUME UNCHANGED <<setup, pool, timf1, wpc>>,
               ahead' \in Nat, Behind(fft1_nx', fft1_na', max_fft1n) = ahead',
               AheadNb' <= ahead', afc => AheadNb' <= AheadNc' /\ AheadNc' <= ahead'
        PROVE  InOrder'
    <3>1. AheadPb' = AheadPb BY <2>1 DEF AheadPb, timf1
    <3> QED BY <1>1, <2>1, <3>1 DEF InOrder, setup, pool, timf1
  <2>2. CASE Reset
    <3>1. UNCHANGED <<setup, pool, timf1, wpc>> BY <2>2 DEF Reset, others_N
    <3>2. /\ ahead' \in Nat /\ Behind(fft1_nx', fft1_na', max_fft1n) = ahead'
          /\ AheadNb' <= ahead' /\ AheadNb' <= AheadNc' /\ AheadNc' <= ahead'
      BY <2>2, ResetBack
    <3> QED BY <2>1, <3>1, <3>2
  <2>3. CASE SkipAll
    <3>1. UNCHANGED <<setup, pool, timf1, wpc>> BY <2>3 DEF SkipAll, others_N
    <3>2. AheadNb \in Nat BY <1>1, Types
    <3> QED BY <2>1, <2>3, <3>1, <3>2, Skipped
  <2>4. CASE MixFixed
    <3>1. UNCHANGED <<setup, pool, timf1, wpc>> /\ ~afc BY <2>4 DEF MixFixed, Mix, others_N
    <3>2. AheadNb \in Nat /\ ahead \in Int BY <1>1, Types
    <3>3. /\ ahead' \in {ahead, ahead - 1} /\ Behind(fft1_nx', fft1_na', max_fft1n) = ahead'
          /\ AheadNb' = AheadNb /\ AheadNb <= ahead'
      BY <2>4, MixedFixed
    <3>4. ahead' \in Nat BY <3>2, <3>3
    <3> QED BY <2>1, <3>1, <3>3, <3>4
  <2>5. CASE MixAfc
    <3>1. UNCHANGED <<setup, pool, timf1, wpc>> BY <2>5 DEF MixAfc, Mix, others_N
    <3>2. AheadNb \in Nat /\ ahead \in Int BY <1>1, Types
    <3>3. /\ ahead' \in {ahead, ahead - 1} /\ Behind(fft1_nx', fft1_na', max_fft1n) = ahead'
          /\ AheadNb' = AheadNb /\ AheadNb <= AheadNc' /\ AheadNc' <= ahead' /\ AheadNc' \in Nat
      BY <2>5, MixedAfc
    <3>4. ahead' \in Nat /\ AheadNb' <= ahead' BY <3>2, <3>3
    <3> QED BY <2>1, <3>1, <3>3, <3>4
  <2>6. CASE NarrowWake BY <1>3, <2>6 DEF NarrowWake, others_N, fft1
  <2>7. CASE Flag BY <1>3, <2>7 DEF Flag, others_N, fft1
  <2>8. CASE InputWait BY <1>3, <2>8 DEF InputWait, others_N, fft1
  <2> QED BY <1>7, <2>2, <2>3, <2>4, <2>5, <2>6, <2>7, <2>8 DEF Narrow
<1>8. CASE Output BY <1>3, <1>8 DEF Output
<1>9. CASE F3 BY <1>3, <1>9 DEF F3, others_U
<1>10. CASE AskReset BY <1>3, <1>10 DEF AskReset, others_U
<1>11. CASE Esc BY <1>3, <1>11 DEF Esc, others_U
<1>12. CASE KillRound BY <1>3, <1>12 DEF KillRound, others_U
<1>13. CASE PressX BY <1>3, <1>13 DEF PressX
<1>14. CASE Main BY <1>3, <1>14 DEF Main, StopPost, StopNext, others_U
<1>15. CASE UNCHANGED vars BY <1>3, <1>15 DEF vars
<1> QED
  BY <1>4, <1>5, <1>6, <1>7, <1>8, <1>9, <1>10, <1>11, <1>12, <1>13, <1>14, <1>15 DEF Next

-----------------------------------------------------------------------------
(* Who sleeps has nothing to do                                             *)

\* Who changes what.
LEMMA Frames ==
  ASSUME [Next]_vars
  PROVE  /\ UNCHANGED setup
         /\ File \/ UNCHANGED <<fpc, timf1p_pa, timf1p_pb>>
         /\ Wide \/ Worker \/ UNCHANGED <<wpc, pool, timf1p_px, fft1_na, fft1_nm>>
         /\ Fft1c \/ UNCHANGED <<cpc, posted>>
         /\ Fft1c \/ Reset \/ UNCHANGED fft1_nb
         /\ Narrow \/ UNCHANGED narrow
<1> USE DEF pool, timf1, fft1
<1>1. CASE File
  <2>1. UNCHANGED <<setup, wpc, cpc, pool, fft1, posted, narrow>>
    BY <1>1 DEF File, FilePaced, FileWait, SettleWide, SettleNarrow, Settled, FileRead, others_F
  <2>2. UNCHANGED timf1p_px
    BY <1>1 DEF File, FilePaced, FileWait, SettleWide, SettleNarrow, Settled, FileRead
  <2> QED BY <1>1, <2>1, <2>2
<1>2. CASE Wide \/ Worker
  <2>1. UNCHANGED others_W
    BY <1>2 DEF Wide, Await, WideWake, Hold, Transform, Assign, Collect, StopFft1c, Worker,
         WorkDone, WorkAwait
  <2>2. UNCHANGED cpc
    BY <1>2 DEF Wide, Await, WideWake, Hold, Transform, Assign, Collect, StopFft1c, Worker,
         WorkDone, WorkAwait
  <2> QED BY <1>2, <2>1, <2>2 DEF others_W
<1>3. CASE Fft1c
  <2>1. UNCHANGED others_C BY <1>3 DEF Fft1c, Fft1cWake, Fft1cDone, Fft1cRest
  <2> QED BY <1>3, <2>1 DEF others_C
<1>4. CASE Narrow
  <2>1. UNCHANGED others_N
    BY <1>4 DEF Narrow, NarrowWake, Reset, SkipAll, MixFixed, MixAfc, Mix, Flag, InputWait
  <2>2. Reset \/ UNCHANGED fft1_nb
    BY <1>4 DEF Narrow, NarrowWake, SkipAll, MixFixed, MixAfc, Mix, Flag, InputWait
  <2> QED BY <1>4, <2>1, <2>2 DEF others_N
<1>5. CASE Output BY <1>5 DEF Output
<1>6. CASE PressX BY <1>6 DEF PressX
<1>7. CASE F3 \/ AskReset \/ Esc \/ KillRound \/ Main
  <2>1. UNCHANGED others_U BY <1>7 DEF F3, AskReset, Esc, KillRound, Main, StopPost, StopNext
  <2> QED BY <2>1 DEF others_U
<1>8. CASE UNCHANGED vars BY <1>8 DEF vars
<1> QED BY <1>1, <1>2, <1>3, <1>4, <1>5, <1>6, <1>7, <1>8 DEF Next

\* An event stays set until the thread that sleeps on it wakes up.
Stays(e) == event[e] => event'[e]

LEMMA Posted ==
  ASSUME TypeOK, NEW e \in Events
  PROVE  /\ Post(e) => event'[e] /\ \A o \in Events : Stays(o)
         /\ Take(e) => \A o \in Events : o # e => Stays(o)
BY DEF TypeOK, Post, Take, SetEvent, TakeEvent, Stays

LEMMA EventsStay ==
  ASSUME TypeOK, [Next]_vars, NEW e \in Events
  PROVE  \/ Stays(e)
         \/ WideWake /\ e = "TIMF1"
         \/ Fft1cWake /\ e = "DO_FFT1C"
         \/ NarrowWake /\ e = "FFT1_READY"
<1>1. "TIMF1" \in Events /\ "DO_FFT1C" \in Events /\ "FFT1_READY" \in Events BY DEF Events
<1>2. ASSUME UNCHANGED event PROVE Stays(e) BY <1>2 DEF Stays
<1>3. CASE File
  <2>1. CASE FileWait BY <1>1, <2>1, Posted DEF FileWait
  <2>2. CASE FileRead
    <3>1. Post("TIMF1") \/ UNCHANGED event BY <2>2 DEF FileRead
    <3> QED BY <1>1, <1>2, <3>1, Posted
  <2> QED BY <1>2, <1>3, <2>1, <2>2 DEF File, FilePaced, SettleWide, SettleNarrow, Settled
<1>4. CASE Wide
  <2>1. CASE WideWake BY <1>1, <2>1, Posted DEF WideWake
  <2>2. ASSUME NEW k, Publish(k) PROVE Stays(e) BY <2>2 DEF Publish, Stays
  <2>3. CASE Collect BY <2>2, <2>3 DEF Collect
  <2>4. CASE StopFft1c
    <3>1. Post("DO_FFT1C") \/ UNCHANGED event BY <2>4 DEF StopFft1c
    <3> QED BY <1>1, <1>2, <3>1, Posted
  <2> QED BY <1>2, <1>4, <2>1, <2>3, <2>4 DEF Wide, Await, Hold, Assign, Transform
<1>5. CASE Worker
  <2>1. CASE WorkDone BY <1>1, <2>1, Posted DEF WorkDone
  <2> QED BY <1>2, <1>5, <2>1 DEF Worker, WorkAwait
<1>6. CASE Fft1c
  <2>1. CASE Fft1cWake BY <1>1, <2>1, Posted DEF Fft1cWake
  <2>2. CASE Fft1cDone
    <3>1. Post("FFT1_READY") \/ UNCHANGED event BY <2>2 DEF Fft1cDone
    <3> QED BY <1>1, <1>2, <3>1, Posted
  <2> QED BY <1>2, <1>6, <2>1, <2>2 DEF Fft1c, Fft1cRest
<1>7. CASE Narrow
  <2>1. CASE NarrowWake BY <1>1, <2>1, Posted DEF NarrowWake
  <2> QED
    BY <1>2, <1>7, <2>1 DEF Narrow, Reset, SkipAll, MixFixed, MixAfc, Mix, Flag, InputWait
<1>8. CASE Output \/ F3 \/ Esc \/ PressX \/ StopNext
  BY <1>2, <1>8 DEF Output, F3, Esc, PressX, StopNext
<1>9. CASE AskReset BY <1>1, <1>9, Posted DEF AskReset
<1>10. CASE KillRound BY <1>10 DEF KillRound, Stays
<1>11. CASE StopPost BY <1>11 DEF StopPost, Stays
<1>12. CASE UNCHANGED vars BY <1>2, <1>12 DEF vars
<1> QED BY <1>3, <1>4, <1>5, <1>6, <1>7, <1>8, <1>9, <1>10, <1>11, <1>12 DEF Next, Main

LEMMA WideRestsStep ==
  ASSUME Roomy, IInv, [Next]_vars
  PROVE  WideRests'
<1>1. TypeOK /\ WideRests /\ "TIMF1" \in Events BY DEF IInv, Events
<1>2. CASE FileRead
  <2>1. CASE timf1p_pb # timf1p_pa
    <3>1. event'["TIMF1"] BY <1>1, <1>2, <2>1, Posted DEF FileRead
    <3> QED BY <3>1 DEF WideRests
  <2>2. CASE timf1p_pb = timf1p_pa
    <3>1. UNCHANGED <<no_of_fft1b, working, timf1p_pb, timf1p_px, event, wpc>>
      BY <1>2, <2>2 DEF FileRead, others_F, setup, pool
    <3> QED BY <1>1, <3>1 DEF WideRests, AllBusy
  <2> QED BY <2>1, <2>2
<1>3. CASE Await
  <2>1. wpc' = "asleep" => timf1p_pb = timf1p_px \/ AllBusy BY <1>3 DEF Await, W
  <2>2. UNCHANGED <<no_of_fft1b, working, timf1p_pb, timf1p_px>>
    BY <1>3 DEF Await, others_W, setup, pool
  <2> QED BY <2>1, <2>2 DEF WideRests, AllBusy
<1>4. CASE WideWake \/ Transform \/ Assign \/ Collect \/ Hold \/ StopFft1c
  <2>1. wpc' # "asleep"
    BY <1>4 DEF WideWake, Transform, Assign, Collect, Hold, StopFft1c, W
  <2> QED BY <2>1 DEF WideRests
<1>5. CASE Worker
  <2>1. CASE WorkDone
    <3>1. event'["TIMF1"] BY <1>1, <2>1, Posted DEF WorkDone
    <3> QED BY <3>1 DEF WideRests
  <2>2. CASE WorkAwait
    <3>1. UNCHANGED <<no_of_fft1b, working, timf1p_pb, timf1p_px, event, wpc>>
      BY <2>2 DEF WorkAwait, others_W, setup
    <3> QED BY <1>1, <3>1 DEF WideRests, AllBusy
  <2> QED BY <1>5, <2>1, <2>2 DEF Worker
<1>6. CASE ~(FileRead \/ Wide \/ Worker)
  <2>1. UNCHANGED <<no_of_fft1b, working, timf1p_px, wpc>> BY <1>6, Frames DEF setup, pool
  <2>2. UNCHANGED timf1p_pb
    BY <1>6, Frames DEF File, FilePaced, FileWait, SettleWide, SettleNarrow, Settled, timf1
  <2>3. Stays("TIMF1") BY <1>1, <1>6, EventsStay DEF Wide
  <2> QED BY <1>1, <2>1, <2>2, <2>3 DEF WideRests, AllBusy, Stays
<1> QED BY <1>2, <1>3, <1>4, <1>5, <1>6 DEF Wide

LEMMA Fft1cRestsStep ==
  ASSUME Roomy, IInv, [Next]_vars
  PROVE  Fft1cRests'
<1>1. TypeOK /\ InOrder /\ Fft1cRests /\ NarrowRests /\ "DO_FFT1C" \in Events
  BY DEF IInv, Events
<1>2. CASE Fft1cDone
  <2>1. cpc' = "work" /\ fft1_na' = fft1_na BY <1>2 DEF Fft1cDone, C, others_C
  <2>2. posted' = 0 \/ fft1_nb' # fft1_na BY <1>2 DEF Fft1cDone
  <2>3. fft1_nb' # fft1_na => AheadNb' # 0
    <3>1. TypeOK' BY TypeStep
    <3> QED BY <2>1, <3>1, RingType, Sizes DEF TypeOK, AheadNb
  <2> QED BY <2>1, <2>2, <2>3 DEF Fft1cRests
<1>3. CASE Fft1cWake
  <2>1. cpc' = "work" /\ UNCHANGED <<fft1_na, fft1_nb, posted>>
    BY <1>3 DEF Fft1cWake, C, others_C
  <2> QED BY <1>1, <2>1 DEF Fft1cRests, AheadNb
<1>4. CASE Fft1cRest
  <2>1. fft1_nb = fft1_na /\ UNCHANGED <<fft1_na, fft1_nb, posted>>
    BY <1>4 DEF Fft1cRest, others_C
  <2>2. AheadNb = 0 /\ AheadNb' = 0 BY <1>1, <2>1, RingType, Sizes DEF TypeOK, AheadNb
  <2> QED BY <1>1, <2>1, <2>2 DEF Fft1cRests
<1>5. ASSUME NEW k \in Nat, k <= filled + finished, Publish(k),
             UNCHANGED <<cpc, posted, fft1_nb, fft1_nc, fft1_nx>>
      PROVE  Fft1cRests'
  <2>1. CASE k = 0
    <3>1. fft1_na' = Forward(fft1_na, 0, max_fft1n)
      BY <2>1, <1>5, PublishFits, Sizes DEF Publish
    <3>2. fft1_na' = fft1_na BY <1>1, <3>1, Sizes DEF Forward, TypeOK, Positions
    <3>3. Stays("DO_FFT1C") BY <1>1, <1>5 DEF Publish, Stays
    <3> QED BY <1>1, <1>5, <3>2, <3>3 DEF Fft1cRests, AheadNb, Stays
  <2>2. CASE k > 0
    <3>1. event'["DO_FFT1C"] BY <1>1, <1>5, <2>2 DEF Publish
    <3>2. fft1_muln * k >= 1 BY <1>5, <2>2, Sizes
    <3>3. AheadNb' = AheadNb + fft1_muln * k BY <1>5, Published
    <3>4. AheadNb' # 0
      <4> DEFINE d == fft1_muln * k
      <4>1. d \in Nat /\ d >= 1 BY <1>5, <3>2, PublishFits
      <4>2. AheadNb' = AheadNb + d BY <3>3
      <4> HIDE DEF d
      <4> QED BY <1>1, <4>1, <4>2, Types
    <3> QED BY <3>1, <3>4 DEF Fft1cRests
  <2> QED BY <1>5, <2>1, <2>2
<1>6. CASE Collect
  <2>1. PICK k \in 0 .. finished : Publish(k) BY <1>6 DEF Collect
  <2>2. k \in Nat /\ k <= filled + finished BY <1>1, <2>1, Types DEF InOrder
  <2>3. UNCHANGED <<cpc, posted, fft1_nb, fft1_nc, fft1_nx>> BY <1>6 DEF Collect, others_W
  <2> QED BY <1>5, <2>1, <2>2, <2>3
<1>7. CASE Reset
  <2>1. UNCHANGED <<fft1_na, fft1_nb, event, cpc, posted>>
    BY <1>1, <1>7 DEF Reset, others_N, NarrowRests
  <2> QED BY <1>1, <2>1 DEF Fft1cRests, AheadNb
<1>8. CASE ~(Fft1c \/ Collect \/ Reset)
  <2>1. UNCHANGED <<cpc, posted, fft1_nb>> BY <1>8, Frames
  <2>2. UNCHANGED fft1_na
    BY <1>8, Frames DEF Wide, Worker, WorkDone, WorkAwait, Await, WideWake, Hold, Transform,
         Assign, StopFft1c
  <2>3. Stays("DO_FFT1C") BY <1>1, <1>8, EventsStay DEF Fft1c
  <2> QED BY <1>1, <2>1, <2>2, <2>3 DEF Fft1cRests, AheadNb, Stays
<1> QED BY <1>2, <1>3, <1>4, <1>6, <1>7, <1>8 DEF Fft1c

LEMMA NarrowRestsStep ==
  ASSUME Roomy, IInv, [Next]_vars
  PROVE  NarrowRests'
<1>1. TypeOK /\ InOrder /\ Fft1cRests /\ NarrowRests /\ "FFT1_READY" \in Events
  BY DEF IInv, Events
<1>2. mpc' = "run" => mpc = "run" /\ output' = output
  <2>1. CASE File \/ Wide \/ Worker \/ Fft1c \/ Narrow
    <3>1. UNCHANGED <<mpc, output>>
      BY <2>1 DEF File, FilePaced, FileWait, SettleWide, SettleNarrow, Settled, FileRead, others_F,
           Wide, Await, WideWake, Hold, Transform, Assign, Collect, StopFft1c, Worker, WorkDone,
              WorkAwait, others_W,
           Fft1c, Fft1cWake, Fft1cDone, Fft1cRest, others_C,
           Narrow, NarrowWake, Reset, SkipAll, MixFixed, MixAfc, Mix, Flag, InputWait, others_N,
           user
    <3> QED BY <3>1
  <2>2. CASE Output \/ F3 \/ AskReset \/ Esc \/ KillRound \/ PressX
    BY <2>2 DEF Output, F3, AskReset, Esc, KillRound, PressX, others_U, user
  <2>3. CASE StopPost BY <2>3 DEF StopPost, others_U
  <2>4. CASE StopNext
    <3>1. mpc' \in {"NARROWBAND", "WIDEBAND", "end"}
      BY <1>1, <2>4 DEF StopNext, After, Threads, TypeOK
    <3> QED BY <3>1
  <2>5. CASE UNCHANGED vars BY <2>5 DEF vars, user
  <2> QED BY <2>1, <2>2, <2>3, <2>4, <2>5 DEF Next, Main
<1>3. mpc' = "run" => timf3' = 0
  <2>1. CASE MixFixed \/ MixAfc
    <3>1. PICK mixed \in BOOLEAN, fftx \in BOOLEAN :
            Mix(mixed, fftx) /\ (mixed => timf3 < Timf3N)
      BY <2>1 DEF MixFixed, MixAfc
    <3>2. SUFFICES ASSUME mpc' = "run", new_baseb_flag <= 0 PROVE timf3' = 0
      BY <1>1, <3>1 DEF Mix, TypeOK
    <3>3. timf3 = 0 /\ output /\ new_baseb_flag = 0 /\ baseb = 0
      BY <1>1, <1>2, <3>1, <3>2 DEF NarrowRests, Mix, TypeOK, Roomy
    <3> DEFINE all  == IF mixed THEN timf3 + 1 ELSE timf3
               room == BasebN - baseb
               k    == IF all < room THEN all ELSE room
    <3>4. timf3' = all - k BY <3>1, <3>3 DEF Mix
    <3>5. all \in 0 .. 1 /\ room >= 1 /\ room \in Nat BY <3>3, Sizes
    <3>6. all - k = 0 BY <3>5
    <3> QED BY <3>4, <3>6
  <2>2. CASE Reset BY <2>2 DEF Reset
  <2>3. CASE NarrowWake \/ SkipAll \/ Flag \/ InputWait
    BY <1>1, <1>2, <2>3 DEF NarrowRests, NarrowWake, SkipAll, Flag, InputWait
  <2>4. CASE ~Narrow BY <1>1, <1>2, <2>4, Frames DEF NarrowRests, narrow
  <2> QED BY <2>1, <2>2, <2>3, <2>4 DEF Narrow
<1>4. npc' \in {"flag", "input_wait"} => new_baseb_flag' = 3
  <2>1. CASE MixFixed \/ MixAfc
    <3>1. PICK mixed, fftx : Mix(mixed, fftx) BY <2>1 DEF MixFixed, MixAfc
    <3>2. UNCHANGED new_baseb_flag /\ npc' = IF new_baseb_flag > 0 THEN "flag" ELSE Onward(fftx)
      BY <3>1 DEF Mix, N
    <3>3. new_baseb_flag > 0 => new_baseb_flag = 3 BY <1>1 DEF TypeOK
    <3> QED BY <3>2, <3>3, OnwardType
  <2>2. CASE NarrowWake \/ Reset \/ SkipAll \/ InputWait
    BY <2>2, OnwardType DEF NarrowWake, Reset, SkipAll, InputWait, N
  <2>3. CASE Flag BY <1>1, <2>3 DEF Flag, N, NarrowRests
  <2>4. CASE ~Narrow BY <1>1, <2>4, Frames DEF NarrowRests, narrow
  <2> QED BY <2>1, <2>2, <2>3, <2>4 DEF Narrow
<1>5. reset' => ~audio_dump_flag'
  <2>1. CASE File
    <3>1. UNCHANGED reset /\ (audio_dump_flag' => audio_dump_flag)
      BY <1>1, <2>1 DEF File, FilePaced, FileWait, SettleWide, SettleNarrow, Settled, FileRead,
         others_F,
                        TypeOK
    <3> QED BY <1>1, <3>1 DEF NarrowRests
  <2>2. CASE Reset BY <2>2 DEF Reset
  <2>3. CASE AskReset BY <2>3 DEF AskReset, Roomy, Fast, others_U
  <2>4. CASE F3 BY <2>4 DEF F3, Roomy, others_U
  <2>5. CASE ~(File \/ Reset \/ AskReset \/ F3)
    <3>1. UNCHANGED <<reset, audio_dump_flag>>
      BY <2>5 DEF Next, vars, Wide, Await, WideWake, Hold, Transform, Assign, Collect, StopFft1c,
           Worker, WorkDone, WorkAwait, others_W, Fft1c, Fft1cWake, Fft1cDone, Fft1cRest, others_C,
           Narrow, NarrowWake, SkipAll, MixFixed, MixAfc, Mix, Flag, InputWait, others_N,
           Output, Esc, KillRound, PressX, Main, StopPost, StopNext, others_U
    <3> QED BY <1>1, <3>1 DEF NarrowRests
  <2> QED BY <2>1, <2>2, <2>3, <2>4, <2>5
<1>6. ASSUME npc' = "asleep" \/ (npc' = "flag" /\ ~fftx_flag'), ~event'["FFT1_READY"],
             mpc' = "run"
      PROVE  (Unmixed <= Kept + posted \/ Unmixed <= Refill + posted)'
  <2> DEFINE u == Unmixed'
             k == Kept'
             p == posted'
  <2> SUFFICES u <= k + p \/ u <= Refill + p OBVIOUS
  <2>1. mpc = "run" BY <1>2, <1>6
  <2>2. p \in Nat /\ k = Kept /\ k \in Nat
    <3>1. posted' \in 0 .. fft1_muln - 1 BY TypeStep DEF TypeOK
    <3>2. p \in 0 .. fft1_muln - 1 BY <3>1
    <3>3. afc' = afc BY Frames DEF setup
    <3>4. k = Kept BY <3>3 DEF Kept
    <3>5. Kept \in Nat BY Sizes DEF Kept
    <3> HIDE DEF p, k
    <3> QED BY <3>2, <3>4, <3>5, Sizes
  <2>3. ahead \in Int /\ AheadNb \in Nat /\ posted \in Nat BY <1>1, Types
  <2> HIDE DEF u, k, p
  <2>4. CASE Fft1cDone
    <3>1. AheadNb' = AheadNb - 1 /\ ahead' = ahead /\ UNCHANGED <<npc, fftx_flag>>
      BY <2>4, Transformed DEF Fft1cDone, others_C, narrow
    <3>2. posted' = posted + 1 /\ event' = event
      BY <1>1, <1>6, <2>4, Posted DEF Fft1cDone
    <3>3. u = Unmixed + 1 BY <2>3, <3>1 DEF u, Unmixed
    <3>4. p = posted + 1 BY <3>2 DEF p
    <3>5. Unmixed <= Kept + posted \/ Unmixed <= Refill + posted
      BY <1>1, <1>6, <2>1, <3>1, <3>2 DEF NarrowRests
    <3>6. Unmixed \in Int BY <2>3 DEF Unmixed
    <3> QED BY <2>2, <2>3, <3>3, <3>4, <3>5, <3>6, Sizes
  <2>5. CASE Reset
    <3>1. ahead' = Again /\ AheadNb' = AheadNb /\ Again \in Nat /\ Again <= Refill
      BY <2>5, ResetBack
    <3>2. u = Again - AheadNb BY <3>1 DEF u, Unmixed
    <3> QED BY <2>2, <2>3, <3>1, <3>2, Sizes
  <2>6. CASE SkipAll
    <3>1. ahead' = AheadNb /\ AheadNb' = AheadNb BY <2>6, Skipped
    <3>2. u = 0 BY <2>3, <3>1 DEF u, Unmixed
    <3> QED BY <2>2, <3>2, Sizes
  <2>7. CASE MixFixed \/ MixAfc
    <3>1. ~fftx_flag'
      <4>1. PICK mixed \in BOOLEAN, fftx \in BOOLEAN : Mix(mixed, fftx)
        BY <2>7 DEF MixFixed, MixAfc
      <4>2. fftx_flag' = fftx /\ npc' = IF new_baseb_flag > 0 THEN "flag" ELSE Onward(fftx)
        BY <4>1 DEF Mix, N
      <4>3. fftx => Onward(fftx) \in {"returned", "mix"} BY DEF Onward
      <4> QED BY <1>6, <4>2, <4>3
    <3>2. CASE MixFixed
      <4>1. ahead' = AheadNb /\ AheadNb' = AheadNb BY <2>1, <3>1, <3>2, MixedFixed
      <4>2. u = 0 BY <2>3, <4>1 DEF u, Unmixed
      <4> QED BY <2>2, <4>2, Sizes
    <3>3. CASE MixAfc
      <4>1. /\ ahead' - AheadNb <= Delay /\ AheadNb' = AheadNb
            /\ ahead' \in {ahead, ahead - 1}
        BY <3>1, <3>3, MixedAfc
      <4>2. u <= Delay /\ u \in Int BY <2>3, <4>1 DEF u, Unmixed
      <4>3. k = Delay BY <2>2, <3>3 DEF Kept, MixAfc
      <4> QED BY <2>2, <4>2, <4>3, Sizes
    <3> QED BY <2>7, <3>2, <3>3
  <2>8. CASE NarrowWake \/ InputWait
    BY <1>6, <2>8 DEF NarrowWake, InputWait, N
  <2>9. CASE Collect
    <3>1. event'["FFT1_READY"] BY <1>1, <2>9 DEF Collect, Publish
    <3> QED BY <1>6, <3>1
  <2>10. CASE ~(Fft1cDone \/ Narrow \/ Collect) \/ Flag
    <3>1. UNCHANGED <<posted, ahead, fft1_na, fft1_nb, fftx_flag>>
      BY <2>10 DEF Next, vars, File, FilePaced, FileWait, SettleWide, SettleNarrow, Settled,
         FileRead,
           others_F, Wide, Await, WideWake, Hold, Transform, Assign, StopFft1c, Worker, WorkDone,
              WorkAwait, others_W,
           Fft1c, Fft1cWake, Fft1cRest, others_C, Flag, others_N,
           Output, F3, AskReset, Esc, KillRound, PressX, Main, StopPost, StopNext, others_U,
           fft1, narrow
    <3>2. npc = "asleep" \/ (npc = "flag" /\ ~fftx_flag)
      <4>1. CASE Flag
        <5>1. npc' = "asleep" /\ npc = "flag" /\ npc' = Onward(fftx_flag)
          BY <1>6, <4>1, OnwardType DEF Flag, N
        <5> QED BY <5>1 DEF Onward
      <4>2. CASE ~(Fft1cDone \/ Narrow \/ Collect)
        BY <1>6, <3>1, <4>2, Frames DEF narrow
      <4> QED BY <2>10, <4>1, <4>2
    <3>3. ~event["FFT1_READY"]
      <4>1. ~NarrowWake BY <2>10, <1>6 DEF Narrow, NarrowWake, Flag, N
      <4> QED BY <1>1, <1>6, <4>1, EventsStay DEF Stays
    <3>4. Unmixed <= Kept + posted \/ Unmixed <= Refill + posted
      BY <1>1, <2>1, <3>2, <3>3 DEF NarrowRests
    <3>5. u = Unmixed /\ p = posted BY <3>1 DEF u, p, Unmixed, AheadNb
    <3> QED BY <2>2, <3>4, <3>5
  <2> QED BY <2>4, <2>5, <2>6, <2>7, <2>8, <2>9, <2>10 DEF Narrow
<1>7. (mpc = "run" => timf3 = 0 /\ output)' BY <1>1, <1>2, <1>3 DEF NarrowRests
<1> QED BY <1>4, <1>5, <1>6, <1>7 DEF NarrowRests

-----------------------------------------------------------------------------
(* How much there is                                                        *)

LEMMA LoadRead ==
  ASSUME Roomy, IInv, FileRead
  PROVE  Load' = Load + fft1_muln
<1>1. TypeOK /\ InOrder BY DEF IInv
<1>2. filled' = filled + 1 /\ UNCHANGED <<ahead, working, finished>>
  BY DEF FileRead, others_F, fft1, pool
<1> DEFINE n == filled + working + finished
<1>3. n \in Int /\ filled' + working' + finished' = n + 1 BY <1>1, <1>2, Types
<1>4. Load' = ahead + fft1_muln * (n + 1) BY <1>2, <1>3 DEF Load
<1> HIDE DEF n
<1>5. fft1_muln * (n + 1) = fft1_muln * n + fft1_muln * 1 /\ fft1_muln * n \in Int
  BY <1>3, Sizes
<1>6. fft1_muln * 1 = fft1_muln BY Sizes
<1> QED BY <1>1, <1>4, <1>5, <1>6, Types, Sizes DEF Load, n

\* Only a reset raises the load else.
LEMMA NoMore ==
  ASSUME Roomy, IInv, [Next]_vars, ~FileRead
  PROVE  /\ filled' \in Int /\ filled' <= filled /\ AheadPb' = AheadPb
         /\ (Load' \in Int /\ Load' <= Load) \/ Reset
         /\ AheadPb = 0 => filled' = 0 /\ working' = 0 /\ finished' = 0 /\ ahead' <= Refill
<1>1. TypeOK /\ InOrder /\ FewFilled BY DEF IInv
<1>2. filled \in Nat /\ ahead \in Nat /\ working \in Nat /\ finished \in Nat /\ AheadPb \in Nat
      /\ AheadNb \in Nat
  BY <1>1, Types DEF InOrder
<1>3. Load \in Int BY <1>1, LoadType
<1>4. AheadPb' = AheadPb
  BY Frames DEF AheadPb, File, FilePaced, FileWait, SettleWide, SettleNarrow, Settled, timf1
<1>5. AheadPb = 0 => filled = 0 /\ working = 0 /\ finished = 0 /\ ahead <= Refill
  BY <1>1 DEF FewFilled
<1>6. ASSUME NEW a \in Int, a <= ahead, ahead' = a, UNCHANGED <<filled, working, finished>>
      PROVE  /\ Load' \in Int /\ Load' <= Load
             /\ AheadPb = 0 => filled' = 0 /\ working' = 0 /\ finished' = 0 /\ ahead' <= Refill
  <2> DEFINE q == fft1_muln * (filled + working + finished)
  <2>1. filled + working + finished \in Int BY <1>2
  <2>2. q \in Int BY <2>1, ProductType
  <2>3. Load = ahead + q /\ Load' = a + q BY <1>6 DEF Load
  <2> HIDE DEF q
  <2>4. a <= Refill \/ ~(ahead <= Refill) BY <1>2, <1>6, Sizes
  <2> QED BY <1>2, <1>5, <1>6, <2>2, <2>3, <2>4
<1>7. ASSUME UNCHANGED ahead, filled' + working' + finished' = filled + working + finished
      PROVE  Load' = Load
  BY <1>7 DEF Load
<1>8. ASSUME NEW k \in Nat, k <= filled + finished, Publish(k),
             filled' + working' + finished' = filled + working + finished - k
      PROVE  Load' = Load
  <2> DEFINE n == filled + working + finished
  <2>1. n \in Int /\ n - k \in Int BY <1>2, <1>8
  <2>2. ahead' = ahead + fft1_muln * k BY <1>8, PublishFits DEF Publish
  <2>3. Load' = ahead + fft1_muln * k + fft1_muln * (n - k)
    <3>1. Load' = ahead' + fft1_muln * (filled' + working' + finished') BY DEF Load
    <3>2. filled' + working' + finished' = n - k BY <1>2, <1>8
    <3> QED BY <2>2, <3>1, <3>2
  <2> HIDE DEF n
  <2>4. fft1_muln * (k + (n - k)) = fft1_muln * k + fft1_muln * (n - k)
        /\ fft1_muln * k \in Int /\ fft1_muln * (n - k) \in Int
    BY <1>8, <2>1, Sizes
  <2>5. k + (n - k) = n BY <1>8, <2>1
  <2>6. Load = ahead + fft1_muln * n BY DEF Load, n
  <2> QED BY <1>2, <2>3, <2>4, <2>5, <2>6
<1>9. CASE Transform
  <2>1. filled >= 1 /\ finished = 0 BY <1>1, <1>9, HasBlock DEF Transform, W
  <2>2. filled' = filled - 1 /\ finished' = 1 /\ UNCHANGED <<working, ahead>>
    BY <1>9 DEF Transform
  <2>3. filled' + working' + finished' = filled + working + finished BY <1>2, <2>1, <2>2
  <2>4. Load' = Load BY <1>7, <2>2, <2>3
  <2>5. filled' \in Int /\ filled' <= filled BY <1>2, <2>2
  <2>6. AheadPb # 0 BY <1>2, <1>5, <2>1
  <2> QED BY <1>3, <1>4, <2>4, <2>5, <2>6
<1>10. CASE Assign
  <2>1. PICK k \in 0 .. filled - AheadPb : working' = working + k /\ filled' = filled - k
    BY <1>10, Assigned
  <2>2. UNCHANGED <<finished, ahead>> /\ wpc = "work" BY <1>10 DEF Assign, W
  <2>3. filled' + working' + finished' = filled + working + finished BY <1>2, <2>1, <2>2
  <2>4. filled' \in Int /\ filled' <= filled BY <1>2, <2>1
  <2>5. AheadPb # 0 BY <1>1, <1>2, <1>5, <2>2 DEF InOrder
  <2> QED BY <1>3, <1>4, <1>7, <2>2, <2>3, <2>4, <2>5
<1>11. CASE Collect
  <2>1. PICK k \in 0 .. finished : finished' = finished - k /\ Publish(k) BY <1>11 DEF Collect
  <2>2. UNCHANGED <<filled, working>> BY <1>11 DEF Collect
  <2>3. /\ filled' + working' + finished' = filled + working + finished - k
        /\ k \in Nat /\ k <= filled + finished
    BY <1>2, <2>1, <2>2
  <2>4. Load' = Load BY <1>8, <2>1, <2>3
  <2>5. AheadPb = 0 => finished' = 0 /\ ahead' = ahead
    <3>1. AheadPb = 0 => k = 0 BY <1>5, <2>1
    <3>2. ahead' = ahead + fft1_muln * k BY <2>1, <2>3, PublishFits DEF Publish
    <3>3. fft1_muln * 0 = 0 BY Sizes
    <3> QED BY <1>2, <1>5, <2>1, <3>1, <3>2, <3>3
  <2> QED BY <1>2, <1>3, <1>4, <1>5, <2>2, <2>4, <2>5
<1>12. CASE WorkDone
  <2>1. working > 0 /\ working' = working - 1 /\ finished' = finished + 1
        /\ UNCHANGED <<filled, ahead>>
    BY <1>12 DEF WorkDone
  <2>2. filled' + working' + finished' = filled + working + finished BY <1>2, <2>1
  <2>3. AheadPb # 0 BY <1>2, <1>5, <2>1
  <2> QED BY <1>2, <1>3, <1>4, <1>7, <2>1, <2>2, <2>3
<1>13. CASE Reset
  <2>1. UNCHANGED <<filled, working, finished>> BY <1>13 DEF Reset, others_N, timf1, pool
  <2>2. ahead' <= Refill BY <1>13, ResetBack
  <2> QED BY <1>2, <1>4, <1>5, <1>13, <2>1, <2>2
<1>14. CASE SkipAll
  <2>1. UNCHANGED <<filled, working, finished>> BY <1>14 DEF SkipAll, others_N, timf1, pool
  <2>2. ahead' = AheadNb /\ AheadNb <= ahead BY <1>1, <1>14, Skipped DEF InOrder
  <2> QED BY <1>2, <1>4, <1>6, <2>1, <2>2
<1>15. CASE MixFixed \/ MixAfc
  <2>1. UNCHANGED <<filled, working, finished>>
    BY <1>15 DEF MixFixed, MixAfc, Mix, others_N, timf1, pool
  <2>2. ahead' \in {ahead, ahead - 1} BY <1>15, MixedFixed, MixedAfc
  <2>3. ahead' = ahead \/ ahead' = ahead - 1 BY <2>2
  <2>4. ahead \in Int /\ ahead - 1 \in Int /\ ahead <= ahead /\ ahead - 1 <= ahead BY <1>2
  <2> QED BY <1>2, <1>4, <1>6, <2>1, <2>3, <2>4
<1>16. CASE ~(\/ Transform \/ Assign \/ Collect \/ WorkDone
              \/ Reset \/ SkipAll \/ MixFixed \/ MixAfc)
  <2>1. UNCHANGED <<filled, working, finished, ahead>>
    BY <1>16 DEF Next, vars, File, FilePaced, FileWait, SettleWide, SettleNarrow, Settled, others_F,
         Wide, Await, WideWake, Hold, StopFft1c, Worker, WorkAwait, others_W,
         Fft1c, Fft1cWake, Fft1cDone, Fft1cRest, others_C, Narrow, NarrowWake, Flag, InputWait,
            others_N,
         Output, F3, AskReset, Esc, KillRound, PressX, Main, StopPost, StopNext, others_U,
         pool, timf1, fft1
  <2>2. ahead \in Int /\ ahead <= ahead /\ filled <= filled BY <1>2
  <2> QED BY <1>2, <1>4, <1>6, <2>1, <2>2
<1> QED BY <1>9, <1>10, <1>11, <1>12, <1>13, <1>14, <1>15, <1>16

\* The reader of the file comes to its end once.
LEMMA FileEnds ==
  ASSUME [Next]_vars, fpc = "returned"
  PROVE  fpc' = "returned" /\ ~FileRead
BY Frames DEF File, FilePaced, FileWait, SettleWide, SettleNarrow, Settled, FileRead, F

LEMMA FewFilledStep ==
  ASSUME Roomy, IInv, [Next]_vars
  PROVE  FewFilled'
<1>1. TypeOK /\ InOrder /\ FewFilled /\ LittleLoad BY DEF IInv
<1>2. filled \in Nat /\ AheadPb \in Nat /\ InTimf1 \in Nat BY <1>1, Types, Leaves DEF InOrder
<1>3. CASE FileRead
  <2>1. filled' = filled + 1 /\ AheadPb' = 1 BY <1>3, Read
  <2>2. fpc = "read" /\ (fpc' # "returned" => Active("FILE")) BY <1>3 DEF FileRead, F
  <2>3. filled <= InTimf1 + 1 BY <1>1, <2>2 DEF FewFilled
  <2>4. fpc' # "returned" => filled <= InTimf1 BY <1>1, <2>2 DEF LittleLoad
  <2>5. filled + 1 <= InTimf1 + 2 /\ (fpc' # "returned" => filled + 1 <= InTimf1 + 1)
    BY <1>2, <2>3, <2>4
  <2> QED BY <2>1, <2>5 DEF FewFilled
<1>4. CASE ~FileRead
  <2> DEFINE f == filled'
  <2>1. /\ f \in Int /\ f <= filled /\ AheadPb' = AheadPb
        /\ AheadPb = 0 => filled' = 0 /\ working' = 0 /\ finished' = 0 /\ ahead' <= Refill
    BY <1>4, NoMore
  <2>2. fpc' # "returned" => fpc # "returned" BY FileEnds
  <2>3. filled <= InTimf1 + 2 /\ (fpc # "returned" => filled <= InTimf1 + 1)
    BY <1>1 DEF FewFilled
  <2>4. (AheadPb = 0 => filled = 0 /\ working = 0 /\ finished = 0 /\ ahead <= Refill)'
    BY <2>1
  <2> HIDE DEF f
  <2>5. f <= InTimf1 + 2 /\ (fpc' # "returned" => f <= InTimf1 + 1)
    BY <1>2, <2>1, <2>2, <2>3
  <2> QED BY <2>4, <2>5 DEF FewFilled, f
<1> QED BY <1>3, <1>4

\* A command to end is not taken back.
LEMMA Stopped ==
  ASSUME TypeOK, [Next]_vars, ~Active("FILE")
  PROVE  ~Active("FILE")'
<1>1. kill_all_flag => kill_all_flag'
  BY DEF Next, vars, File, FilePaced, FileWait, SettleWide, SettleNarrow, Settled, FileRead,
     others_F,
     Wide, Await, WideWake, Hold, Transform, Assign, Collect, StopFft1c, Worker, WorkDone,
        WorkAwait, others_W,
     Fft1c, Fft1cWake, Fft1cDone, Fft1cRest, others_C,
     Narrow, NarrowWake, Reset, SkipAll, MixFixed, MixAfc, Mix, Flag, InputWait, others_N,
     Output, F3, AskReset, Esc, KillRound, PressX, Main, StopPost, StopNext, user
<1>2. cmd["FILE"] # "ACTIVE" => cmd'["FILE"] # "ACTIVE"
  <2>1. "FILE" \in Threads BY DEF Threads
  <2>2. CASE StopFft1c BY <2>1, <2>2 DEF TypeOK, StopFft1c
  <2>3. CASE KillRound BY <2>1, <2>3 DEF KillRound
  <2>4. CASE StopPost BY <2>1, <2>4 DEF TypeOK, StopPost
  <2>5. CASE ~(StopFft1c \/ KillRound \/ StopPost)
    <3>1. UNCHANGED cmd
      BY <2>5 DEF Next, vars, File, FilePaced, FileWait, SettleWide, SettleNarrow, Settled,
         FileRead,
         others_F, Wide, Await, WideWake, Hold, Transform, Assign, Collect,
         Worker, WorkDone, WorkAwait, others_W, Fft1c, Fft1cWake, Fft1cDone, Fft1cRest, others_C,
         Narrow, NarrowWake, Reset, SkipAll, MixFixed, MixAfc, Mix, Flag, InputWait, others_N,
         Output, F3, AskReset, Esc, PressX, Main, StopNext, user
    <3> QED BY <3>1
  <2> QED BY <2>2, <2>3, <2>4, <2>5
<1> QED BY <1>1, <1>2 DEF Active

LEMMA BaseLoad ==
  ASSUME TypeOK, InOrder, filled <= InTimf1, NEW a \in Nat, a <= InFft1(no_of_fft1b)
  PROVE  a + fft1_muln * (filled + working + finished) <= Base
<1>1. filled \in Nat /\ working \in Nat /\ finished \in Nat /\ no_of_fft1b \in Nat
      /\ Slots(no_of_fft1b) \in Nat /\ leaving \in Nat
  BY Types DEF InOrder
<1>2. /\ filled + working + finished <= InTimf1 + Slots(no_of_fft1b)
      /\ filled + working + finished \in Int /\ InTimf1 + Slots(no_of_fft1b) \in Int
  BY <1>1, Leaves DEF InOrder
<1>3. /\ fft1_muln * (filled + working + finished)
            <= fft1_muln * (InTimf1 + Slots(no_of_fft1b))
      /\ fft1_muln * (filled + working + finished) \in Int
      /\ fft1_muln * (InTimf1 + Slots(no_of_fft1b)) \in Int
  BY <1>2, Product, ProductType
<1>4. InFft1(no_of_fft1b) \in Nat BY <1>1, Leaves
<1> QED BY <1>3, <1>4 DEF Base

\* Before AFC begins only what has been counted is in fft1.
LEMMA BeforeAfc ==
  ASSUME Roomy, TypeOK, InOrder, Counted, fft1_nm < afc_tpts
  PROVE  ahead <= InFft1(no_of_fft1b)
<1>1. no_of_fft1b \in Nat /\ fft1_nm \in Nat /\ Slots(no_of_fft1b) \in Nat /\ ahead \in Nat
  BY Types, Sizes DEF InOrder
<1>2. afc_tpts <= InFft1(no_of_fft1b) /\ InFft1(no_of_fft1b) < max_fft1n - 1
  BY <1>1, Leaves, Room, Sizes
<1>3. ahead <= fft1_muln * (fft1_nm * Slots(no_of_fft1b))
  BY <1>1, <1>2, Leaves, Sizes DEF Counted
<1> DEFINE c == fft1_nm * Slots(no_of_fft1b)
           t == afc_tpts * Slots(no_of_fft1b)
<1>4. c \in Nat /\ t \in Nat /\ c <= t
  <2> DEFINE m == Slots(no_of_fft1b)
  <2>1. m \in Nat /\ fft1_nm <= afc_tpts /\ afc_tpts \in Nat BY <1>1, Sizes
  <2> HIDE DEF m
  <2>2. fft1_nm * m \in Nat /\ afc_tpts * m \in Nat /\ fft1_nm * m <= afc_tpts * m
    BY <1>1, <2>1
  <2> QED BY <2>2 DEF m
<1> HIDE DEF c, t
<1>5. fft1_muln * c <= fft1_muln * t /\ fft1_muln * c \in Nat /\ fft1_muln * t \in Nat
  BY <1>4, Product, ProductType
<1>6. Early(no_of_fft1b) = fft1_muln * t BY DEF Early, t
<1>7. Early(no_of_fft1b) <= InFft1(no_of_fft1b) /\ InFft1(no_of_fft1b) \in Nat
  BY <1>1, Leaves
<1> QED BY <1>1, <1>3, <1>5, <1>6, <1>7 DEF c

\* In real time a block is read when the rings are nearly empty, ...
LEMMA CalmLoad ==
  ASSUME Roomy, IInv, KeepsUp
  PROVE  /\ filled <= InTimf1
         /\ Load <= Base \/ (npc = "input_wait" /\ last_pb = timf1p_pb)
<1>1. TypeOK /\ InOrder /\ WideRests /\ Fft1cRests /\ NarrowRests BY DEF IInv
<1>2. /\ mpc = "run" /\ wpc = "asleep" /\ ~event["TIMF1"] /\ working = 0
      /\ cpc = "await" /\ ~event["DO_FFT1C"]
      /\ \/ npc = "asleep" /\ ~event["FFT1_READY"]
         \/ npc = "input_wait" /\ last_pb = timf1p_pb
         \/ NoAfcYet
  BY DEF KeepsUp
<1>3. timf1p_pb = timf1p_px BY <1>1, <1>2, Types DEF WideRests, AllBusy
<1>4. filled = AheadPb BY <1>1, <1>3 DEF InOrder, AheadPb
<1>5. filled <= InTimf1 BY <1>1, <1>4, Room, Types DEF InOrder
<1>6. ASSUME npc = "asleep" /\ ~event["FFT1_READY"] PROVE Load <= Base
  <2>1. AheadNb = 0 /\ posted = 0 BY <1>1, <1>2 DEF Fft1cRests
  <2>2. Unmixed <= Kept + posted \/ Unmixed <= Refill + posted
    BY <1>1, <1>2, <1>6 DEF NarrowRests
  <2>3. ahead \in Nat /\ Unmixed = ahead BY <1>1, <2>1 DEF InOrder, Unmixed
  <2>4. Kept \in Nat /\ Kept <= Delay BY Sizes DEF Kept
  <2>5. ahead <= InFft1(no_of_fft1b)
    <3>1. /\ InFft1(no_of_fft1b) \in Nat
          /\ Delay <= InFft1(no_of_fft1b) /\ Refill <= InFft1(no_of_fft1b)
      BY <1>1, Types, Leaves
    <3> QED BY <2>1, <2>2, <2>3, <2>4, <3>1, Sizes
  <2>6. ahead + fft1_muln * (filled + working + finished) <= Base
    BY <1>1, <1>5, <2>3, <2>5, BaseLoad
  <2> QED BY <2>6 DEF Load
<1>7. ASSUME NoAfcYet PROVE Load <= Base
  <2>1. ahead <= InFft1(no_of_fft1b) BY <1>1, <1>7, BeforeAfc DEF IInv, NoAfcYet
  <2>2. ahead + fft1_muln * (filled + working + finished) <= Base
    BY <1>1, <1>5, <2>1, BaseLoad DEF InOrder
  <2> QED BY <2>2 DEF Load
<1> QED BY <1>2, <1>5, <1>6, <1>7

\* The reader is about to read: it has been told to end, or there is little in the rings,
\* or narrowband_dsp waits for what is read.
Ready ==
  \/ ~Active("FILE")
  \/ filled <= InTimf1 /\ Load <= Base
  \/ /\ filled <= InTimf1 /\ Load <= Base + fft1_muln
     /\ npc = "returned" \/ (npc = "input_wait" /\ timf1p_pb = last_pb)

LEMMA ReadyStep ==
  ASSUME Roomy, IInv, [Next]_vars, Ready, ~FileRead
  PROVE  Ready'
<1>1. TypeOK /\ InOrder /\ NarrowRests BY DEF IInv
<1>2. Load \in Int /\ filled \in Int /\ Base \in Nat /\ InTimf1 \in Nat /\ fft1_muln \in Nat
  BY <1>1, LoadType, Types, Room, Sizes
<1>3. Base' = Base BY Frames DEF Base, InFft1, Early, Slots, setup
<1> DEFINE l == Load'
           f == filled'
<1>4. f \in Int /\ f <= filled /\ ((l \in Int /\ l <= Load) \/ Reset) BY NoMore
<1>5. CASE ~Active("FILE")
  <2>1. ~Active("FILE")' BY <1>1, <1>5, Stopped
  <2> QED BY <2>1 DEF Ready
<1>6. CASE Reset /\ filled <= InTimf1
  <2>1. ahead' = Again /\ Again \in Nat /\ Again <= InFft1(no_of_fft1b)
    <3>1. Refill <= InFft1(no_of_fft1b) /\ InFft1(no_of_fft1b) \in Nat BY <1>1, Types, Leaves
    <3> QED BY <1>6, <3>1, ResetBack, Sizes
  <2>2. UNCHANGED <<filled, working, finished>> BY <1>6 DEF Reset, others_N, timf1, pool
  <2>3. Again + fft1_muln * (filled + working + finished) <= Base
    BY <1>1, <1>6, <2>1, BaseLoad
  <2>4. Load' <= Base BY <2>1, <2>2, <2>3 DEF Load
  <2> QED BY <1>3, <1>6, <2>2, <2>4 DEF Ready
<1>7. CASE ~Reset /\ filled <= InTimf1 /\ Load <= Base
  <2> HIDE DEF l, f
  <2>1. f <= InTimf1 /\ l <= Base BY <1>2, <1>4, <1>7
  <2> QED BY <1>3, <2>1 DEF Ready, l, f
<1>8. CASE /\ ~Reset /\ filled <= InTimf1 /\ Load <= Base + fft1_muln
           /\ npc = "returned" \/ (npc = "input_wait" /\ timf1p_pb = last_pb)
  <2>1. f <= InTimf1 /\ l <= Base + fft1_muln
    <3> HIDE DEF l, f
    <3> QED BY <1>2, <1>4, <1>8
  <2>2. UNCHANGED timf1p_pb
    BY Frames DEF File, FilePaced, FileWait, SettleWide, SettleNarrow, Settled, timf1
  <2>3. npc' = "returned" \/ (npc' = npc /\ last_pb' = last_pb)
    <3>1. CASE Narrow
      <4>1. InputWait /\ timf1p_pb = last_pb
        BY <1>8, <3>1 DEF Narrow, NarrowWake, SkipAll, MixFixed, MixAfc, Mix, Flag, InputWait, N
      <4> QED BY <4>1 DEF InputWait
    <3>2. CASE ~Narrow BY <1>8, <3>2, Frames DEF narrow
    <3> QED BY <3>1, <3>2
  <2>4. npc' = "returned" \/ (npc' = "input_wait" /\ timf1p_pb' = last_pb')
    BY <1>8, <2>2, <2>3
  <2>5. filled' <= InTimf1 /\ Load' <= Base' + fft1_muln BY <1>3, <2>1
  <2> QED BY <2>4, <2>5 DEF Ready
<1> QED BY <1>5, <1>6, <1>7, <1>8 DEF Ready

LEMMA ReadyAtOnce ==
  ASSUME Roomy, IInv, FilePaced \/ FileWait \/ SettleWide \/ SettleNarrow,
         fpc' \in {"settle_wide", "settle_narrow", "read"}
  PROVE  Ready
<1>1. TypeOK /\ InOrder /\ NarrowRests /\ LittleLoad BY DEF IInv
<1>2. CASE SettleWide \/ SettleNarrow
  BY <1>1, <1>2 DEF SettleWide, SettleNarrow, F, LittleLoad, Ready
<1>3. CASE FilePaced /\ Active("FILE")
  <2>1. KeepsUp /\ fpc = "paced" BY <1>3 DEF FilePaced, TooEarly, Roomy, F
  <2>2. filled <= InTimf1 /\ (Load <= Base \/ (npc = "input_wait" /\ last_pb = timf1p_pb))
    BY <2>1, CalmLoad
  <2>3. npc = "input_wait" /\ last_pb = timf1p_pb => Load <= Base + fft1_muln
    BY <1>1, <2>1 DEF NarrowRests, LittleLoad, WaitOver
  <2> QED BY <2>2, <2>3 DEF Ready
<1>4. CASE FileWait /\ Active("FILE")
  <2>1. ~Crowded BY <1>4 DEF FileWait
  <2>2. Behind(timf1p_px, timf1p_pa, Timf1N) = filled
        /\ Behind(fft1_nx, fft1_na, max_fft1n) = ahead /\ filled \in Nat /\ ahead \in Nat
    BY <1>1 DEF InOrder
  <2>3. 4 * filled <= Timf1N - 1 /\ 4 * ahead <= max_fft1n
    BY <2>1, <2>2, Sizes DEF Crowded
  <2>4. filled <= (Timf1N - 1) \div 4 /\ ahead <= max_fft1n \div 4
    BY <2>2, <2>3, Quarter, Sizes
  <2>5. filled <= InTimf1 /\ ahead <= InFft1(no_of_fft1b)
    <3>1. (Timf1N - 1) \div 4 \in Int /\ max_fft1n \div 4 \in Int BY Sizes
    <3>2. /\ (Timf1N - 1) \div 4 <= InTimf1 /\ InTimf1 \in Nat
          /\ max_fft1n \div 4 <= InFft1(no_of_fft1b) /\ InFft1(no_of_fft1b) \in Nat
      BY <1>1, Types, Leaves
    <3> QED BY <2>2, <2>4, <3>1, <3>2
  <2>6. ahead + fft1_muln * (filled + working + finished) <= Base
    BY <1>1, <2>2, <2>5, BaseLoad
  <2> QED BY <2>5, <2>6 DEF Ready, Load
<1>5. CASE ~Active("FILE") BY <1>5 DEF Ready
<1> QED BY <1>2, <1>3, <1>4, <1>5

\* What is there after a reset.
LEMMA FullLoad ==
  ASSUME Roomy, TypeOK, InOrder, NEW a \in Nat, a <= Refill
  PROVE  /\ a + fft1_muln * (filled + working + finished) \in Int
         /\ filled <= InTimf1 + 2 =>
              a + fft1_muln * (filled + working + finished) <= Base + 2 * fft1_muln
         /\ filled <= InTimf1 + 1 =>
              a + fft1_muln * (filled + working + finished) <= Base + fft1_muln
<1> DEFINE n == filled + working + finished
           b == InTimf1 + Slots(no_of_fft1b)
<1>1. n \in Int /\ b \in Int /\ InTimf1 \in Nat /\ filled \in Nat
  BY Types, Room DEF InOrder
<1>2. (filled <= InTimf1 + 2 => n <= b + 2) /\ (filled <= InTimf1 + 1 => n <= b + 1)
  BY <1>1, Types DEF InOrder
<1> HIDE DEF n, b
<1>3. fft1_muln * n \in Int /\ fft1_muln * b \in Int
      /\ fft1_muln * (b + 2) = fft1_muln * b + 2 * fft1_muln
      /\ fft1_muln * (b + 1) = fft1_muln * b + fft1_muln
  BY <1>1, Sizes
<1>4. /\ n <= b + 2 => fft1_muln * n <= fft1_muln * (b + 2)
      /\ n <= b + 1 => fft1_muln * n <= fft1_muln * (b + 1)
  <2>1. n \in Int /\ b + 2 \in Int /\ b + 1 \in Int BY <1>1
  <2>2. n <= b + 2 => fft1_muln * n <= fft1_muln * (b + 2) BY <2>1, Product
  <2>3. n <= b + 1 => fft1_muln * n <= fft1_muln * (b + 1) BY <2>1, Product
  <2> QED BY <2>2, <2>3
<1>5. Base = InFft1(no_of_fft1b) + fft1_muln * b BY DEF Base, b
<1>6. InFft1(no_of_fft1b) \in Nat /\ a <= InFft1(no_of_fft1b)
  <2>1. InFft1(no_of_fft1b) \in Nat /\ Refill <= InFft1(no_of_fft1b) BY Types, Leaves
  <2> QED BY <2>1, Sizes
<1>7. /\ a + fft1_muln * n \in Int
      /\ filled <= InTimf1 + 2 => a + fft1_muln * n <= Base + 2 * fft1_muln
      /\ filled <= InTimf1 + 1 => a + fft1_muln * n <= Base + fft1_muln
  BY <1>2, <1>3, <1>4, <1>5, <1>6, Sizes
<1> QED BY <1>7 DEF n

LEMMA LittleLoadStep ==
  ASSUME Roomy, IInv, [Next]_vars
  PROVE  LittleLoad'
<1>1. TypeOK /\ InOrder /\ NarrowRests /\ FewFilled /\ LittleLoad BY DEF IInv
<1>2. Load \in Int /\ filled \in Int /\ Base \in Nat /\ InTimf1 \in Nat /\ fft1_muln \in Nat
  BY <1>1, LoadType, Types, Room, Sizes
<1>3. Base' = Base BY Frames DEF Base, InFft1, Early, Slots, setup
<1> DEFINE l == Load'
<1>4. CASE FileRead
  <2>1. l = Load + fft1_muln BY <1>4, LoadRead
  <2>2. fpc = "read" /\ (fpc' # "returned" => Active("FILE"))
        /\ fpc' \notin {"settle_wide", "settle_narrow", "read"}
        /\ UNCHANGED <<npc, last_pb, new_baseb_flag>>
    BY <1>4 DEF FileRead, F, others_F, narrow
  <2>3. Load <= Base + 2 * fft1_muln BY <1>1, <2>2 DEF LittleLoad
  <2>4. fpc' # "returned" => Ready BY <1>1, <2>2 DEF LittleLoad, Ready
  <2>5. fpc' # "returned" => Load <= Base + fft1_muln BY <1>2, <2>2, <2>4 DEF Ready
  <2>6. fpc' # "returned" /\ ~WaitOver' => Load <= Base
    <3>1. SUFFICES ASSUME fpc' # "returned", ~(Load <= Base) PROVE WaitOver' OBVIOUS
    <3>2. npc = "returned" \/ (npc = "input_wait" /\ timf1p_pb = last_pb)
      BY <2>2, <2>4, <3>1 DEF Ready
    <3>3. AheadPb # 0
      <4>1. SUFFICES ASSUME AheadPb = 0 PROVE FALSE OBVIOUS
      <4>2. filled = 0 /\ working = 0 /\ finished = 0 /\ ahead <= Refill
        BY <1>1, <4>1 DEF FewFilled
      <4>3. filled <= InTimf1 /\ ahead \in Nat /\ ahead <= InFft1(no_of_fft1b)
        <5>1. Refill <= InFft1(no_of_fft1b) /\ InFft1(no_of_fft1b) \in Nat
          BY <1>1, Types, Leaves
        <5> QED BY <1>1, <1>2, <4>2, <5>1, Sizes DEF InOrder
      <4>4. ahead + fft1_muln * (filled + working + finished) <= Base
        BY <1>1, <4>3, BaseLoad
      <4> QED BY <3>1, <4>4 DEF Load
    <3>4. timf1p_pb' # timf1p_pb BY <1>4, <3>3, Read
    <3> QED BY <2>2, <3>2, <3>4 DEF WaitOver
  <2> HIDE DEF l
  <2>7. /\ l <= Base + 3 * fft1_muln /\ (fpc' # "returned" => l <= Base + 2 * fft1_muln)
        /\ fpc' # "returned" /\ ~WaitOver' => l <= Base + fft1_muln
    BY <1>2, <2>1, <2>3, <2>5, <2>6
  <2> QED BY <1>3, <2>2, <2>7 DEF LittleLoad, l
<1>5. CASE ~FileRead
  <2>1. fpc' # "returned" => fpc # "returned" BY FileEnds
  <2>2. fpc' \in {"settle_wide", "settle_narrow", "read"} => Ready'
    <3>1. SUFFICES ASSUME fpc' \in {"settle_wide", "settle_narrow", "read"} PROVE Ready
      BY <1>5, ReadyStep
    <3>2. CASE File BY <1>5, <3>1, <3>2, ReadyAtOnce DEF File
    <3>3. CASE ~File
      <4>1. fpc \in {"settle_wide", "settle_narrow", "read"} BY <3>1, <3>3, Frames
      <4> QED BY <1>1, <4>1 DEF LittleLoad, Ready
    <3> QED BY <3>2, <3>3
  <2>3. CASE Reset
    <3>1. /\ ahead' = Again /\ Again \in Nat /\ Again <= Refill
          /\ UNCHANGED <<filled, working, finished, fpc>>
      BY <2>3, ResetBack DEF Reset, others_N, timf1, pool
    <3>2. l = Again + fft1_muln * (filled + working + finished) BY <3>1 DEF Load
    <3>3. filled <= InTimf1 + 2 /\ (fpc # "returned" => filled <= InTimf1 + 1)
      BY <1>1 DEF FewFilled
    <3>4. l \in Int /\ l <= Base + 2 * fft1_muln /\ (fpc # "returned" => l <= Base + fft1_muln)
      BY <1>1, <3>1, <3>2, <3>3, FullLoad
    <3> HIDE DEF l
    <3>5. /\ l <= Base + 3 * fft1_muln /\ (fpc # "returned" => l <= Base + 2 * fft1_muln)
          /\ fpc # "returned" => l <= Base + fft1_muln
      BY <1>2, <3>4
    <3> QED BY <1>3, <2>2, <3>1, <3>5 DEF LittleLoad, Ready, l
  <2>4. CASE ~Reset
    <3>1. l \in Int /\ l <= Load BY <1>5, <2>4, NoMore
    <3>2. new_baseb_flag' # 0 /\ ~WaitOver' => new_baseb_flag # 0 /\ ~WaitOver
      <4>1. UNCHANGED timf1p_pb
        BY <1>5, Frames DEF File, FilePaced, FileWait, SettleWide, SettleNarrow, Settled, timf1
      <4>2. CASE InputWait BY <4>1, <4>2 DEF InputWait, WaitOver
      <4>3. CASE Narrow /\ ~InputWait
        <5>1. new_baseb_flag' = new_baseb_flag /\ npc \notin {"returned", "input_wait"}
          BY <2>4, <4>3 DEF Narrow, NarrowWake, SkipAll, MixFixed, MixAfc, Mix, Flag, N
        <5> QED BY <5>1 DEF WaitOver
      <4>4. CASE ~Narrow BY <4>1, <4>4, Frames DEF WaitOver, narrow
      <4> QED BY <4>2, <4>3, <4>4
    <3>3. /\ Load <= Base + 3 * fft1_muln
          /\ fpc # "returned" => Load <= Base + 2 * fft1_muln
          /\ fpc # "returned" /\ new_baseb_flag # 0 /\ ~WaitOver => Load <= Base + fft1_muln
      BY <1>1 DEF LittleLoad
    <3> HIDE DEF l
    <3>4. /\ l <= Base + 3 * fft1_muln
          /\ fpc' # "returned" => l <= Base + 2 * fft1_muln
          /\ fpc' # "returned" /\ new_baseb_flag' # 0 /\ ~WaitOver' => l <= Base + fft1_muln
      BY <1>2, <2>1, <3>1, <3>2, <3>3
    <3> QED BY <1>3, <2>2, <3>4 DEF LittleLoad, Ready, l
  <2> QED BY <2>3, <2>4
<1> QED BY <1>4, <1>5

LEMMA CountedStep ==
  ASSUME Roomy, IInv, [Next]_vars
  PROVE  Counted'
<1>1. TypeOK /\ InOrder /\ Counted BY DEF IInv
<1> DEFINE m == Slots(no_of_fft1b)
<1>2. m \in Nat /\ m >= 1 /\ fft1_nm \in 0 .. max_fft1n - 1 /\ ahead \in Nat
      /\ working \in Nat /\ finished \in 0 .. m /\ leaving \in Nat /\ filled \in Nat
  BY <1>1, Types DEF InOrder, TypeOK
<1>3. Slots(no_of_fft1b)' = m BY Frames DEF setup, Slots
<1> HIDE DEF m
<1>4. CASE Collect
  <2>1. PICK k \in 0 .. finished : Publish(k) BY <1>4 DEF Collect
  <2>2. /\ k \in Nat /\ k <= m /\ k <= filled + finished BY <1>2, <2>1
  <2>3. ahead' = ahead + fft1_muln * k /\ fft1_muln * k \in Nat
    BY <2>1, <2>2, PublishFits DEF Publish
  <2>4. SUFFICES ASSUME fft1_nm # max_fft1n - 1, fft1_nm' = fft1_nm + 1
                 PROVE  ahead' <= fft1_muln * ((fft1_nm + 1) * m)
    BY <1>2, <1>3, <2>1, Sizes DEF Publish, Counted
  <2>5. ahead <= fft1_muln * (fft1_nm * m) BY <1>1, <1>2, <2>4, Sizes DEF Counted, m
  <2> DEFINE c == fft1_nm * m
  <2>6. c \in Nat /\ (fft1_nm + 1) * m = c + m BY <1>2, Sizes
  <2> HIDE DEF c
  <2>7. fft1_muln * (c + m) = fft1_muln * c + fft1_muln * m /\ fft1_muln * k <= fft1_muln * m
    <3>1. c \in Int /\ m \in Int /\ k \in Int /\ k <= m BY <1>2, <2>2, <2>6
    <3>2. fft1_muln * (c + m) = fft1_muln * c + fft1_muln * m BY <3>1, Product
    <3>3. fft1_muln * k <= fft1_muln * m BY <3>1, Product
    <3> QED BY <3>2, <3>3
  <2>8. fft1_muln * c \in Nat /\ fft1_muln * m \in Nat BY <1>2, <2>6, ProductType
  <2> QED BY <1>2, <2>3, <2>5, <2>6, <2>7, <2>8 DEF c
<1>5. CASE Reset
  <2>1. ahead' = Again /\ Again \in Nat /\ Again <= fft1_nm /\ UNCHANGED fft1_nm
    BY <1>5, ResetBack DEF Reset, others_N
  <2>2. fft1_nm <= fft1_muln * (fft1_nm * m)
    <3> DEFINE c == fft1_nm * m
    <3>1. c \in Nat /\ fft1_nm * 1 <= c BY <1>2, Sizes
    <3> HIDE DEF c
    <3>2. fft1_muln * c \in Nat /\ 1 * c <= fft1_muln * c BY <3>1, ProductType, Sizes
    <3> QED BY <1>2, <3>1, <3>2 DEF c
  <2>3. fft1_muln * (fft1_nm * m) \in Nat
    <3>1. fft1_nm * m \in Nat BY <1>2, Sizes
    <3> QED BY <3>1, ProductType
  <2>4. ahead' <= fft1_muln * (fft1_nm * m) BY <1>2, <2>1, <2>2, <2>3, Sizes
  <2> QED BY <1>3, <2>1, <2>4 DEF Counted
<1>6. CASE ~(Collect \/ Reset)
  <2>1. UNCHANGED fft1_nm
    BY <1>6, Frames DEF Wide, Worker, WorkDone, WorkAwait, Await, WideWake, Hold, Transform,
         Assign, StopFft1c
  <2>2. ahead' \in Int /\ ahead' <= ahead
    <3>1. CASE SkipAll
      <4>1. ahead' = AheadNb /\ AheadNb <= ahead /\ AheadNb \in Int
        BY <1>1, <3>1, Skipped, Types DEF InOrder
      <4> QED BY <4>1
    <3>2. CASE MixFixed \/ MixAfc
      <4>1. ahead' \in {ahead, ahead - 1} BY <3>2, MixedFixed, MixedAfc
      <4> QED BY <1>2, <4>1
    <3>3. CASE ~(SkipAll \/ MixFixed \/ MixAfc)
      <4>1. UNCHANGED ahead
        BY <1>6, <3>3 DEF Next, vars, File, FilePaced, FileWait, SettleWide, SettleNarrow,
           Settled, FileRead, others_F, Wide, Await, WideWake, Hold, Transform, Assign,
           StopFft1c, Worker, WorkDone, WorkAwait, others_W,
           Fft1c, Fft1cWake, Fft1cDone, Fft1cRest, others_C,
           Narrow, NarrowWake, Flag, InputWait, others_N,
           Output, F3, AskReset, Esc, KillRound, PressX, Main, StopPost, StopNext, others_U, fft1
      <4> QED BY <1>2, <4>1
    <3> QED BY <3>1, <3>2, <3>3
  <2>3. fft1_muln * (fft1_nm * m) \in Nat
    <3>1. fft1_nm * m \in Nat BY <1>2, Sizes
    <3> QED BY <3>1, ProductType
  <2> DEFINE a == ahead'
             b == fft1_muln * (fft1_nm * m)
  <2>4. fft1_nm < max_fft1n - 1 => ahead <= b BY <1>1 DEF Counted, m
  <2> HIDE DEF a, b
  <2>5. fft1_nm < max_fft1n - 1 => a <= b BY <1>2, <2>2, <2>3, <2>4 DEF a, b
  <2> QED BY <1>3, <2>1, <2>5 DEF Counted, a, b
<1> QED BY <1>4, <1>5, <1>6

-----------------------------------------------------------------------------
(* The theorems                                                             *)

LEMMA InitIInv ==
  ASSUME Roomy, Init
  PROVE  IInv
<1>1. TypeOK
  <2>1. PICK s \in Setups : no_of_fft1b = s[1] /\ afc = s[2] BY DEF Init
  <2>2. <<no_of_fft1b, afc>> \in Setups BY <2>1, ReplayAssumption
  <2>3. no_of_fft1b \in Nat BY <2>2, ReplayAssumption
  <2>4. 0 \in Positions(Timf1N) /\ 0 \in Positions(max_fft1n) BY Sizes DEF Positions
  <2>5. /\ 0 \in 0 .. no_of_fft1b /\ 0 \in 0 .. fft1_muln - 1 /\ 0 \in 0 .. Slots(no_of_fft1b)
        /\ 0 \in 0 .. Timf3N /\ 0 \in 0 .. BasebN
    BY <2>3, Sizes DEF Slots
  <2>6. cmd \in [Threads -> {"ACTIVE", "KILL"}] /\ event \in [Events -> BOOLEAN] BY DEF Init
  <2>7. /\ audio_dump_flag \in BOOLEAN /\ kill_all_flag \in BOOLEAN /\ output \in BOOLEAN
        /\ fftx_flag \in BOOLEAN /\ reset \in BOOLEAN
    BY DEF Init
  <2>8. /\ fpc = "paced" /\ wpc = "await" /\ cpc = "await" /\ npc = "asleep" /\ mpc = "run"
        /\ timf1p_pa = 0 /\ timf1p_pb = 0 /\ timf1p_px = 0 /\ last_pb = 0 /\ filled = 0
        /\ fft1_na = 0 /\ fft1_nb = 0 /\ fft1_nc = 0 /\ fft1_nx = 0 /\ ahead = 0
        /\ fft1_nm = 0 /\ working = 0 /\ finished = 0 /\ leaving = 0 /\ posted = 0
        /\ timf3 = 0 /\ baseb = 0 /\ new_baseb_flag = -1
    BY DEF Init
  <2> QED BY <2>2, <2>4, <2>5, <2>6, <2>7, <2>8 DEF TypeOK
<1>2. AheadPb = 0 /\ AheadNb = 0 /\ AheadNc = 0
      /\ Behind(timf1p_px, timf1p_pa, Timf1N) = 0 /\ Behind(fft1_nx, fft1_na, max_fft1n) = 0
  BY <1>1, RingType, Sizes DEF Init, TypeOK, AheadPb, AheadNb, AheadNc
<1>3. no_of_fft1b \in Nat /\ Base \in Nat /\ InTimf1 \in Nat /\ InTimf1 >= 1 /\ Refill \in Nat
      /\ fft1_muln \in Nat /\ Slots(no_of_fft1b) \in Nat
  BY <1>1, Types, Room, Sizes
<1>4. InOrder BY <1>2, <1>3 DEF Init, InOrder
<1>5. WideRests BY DEF Init, WideRests
<1>6. Fft1cRests BY <1>2 DEF Init, Fft1cRests
<1>7. NarrowRests
  <2>1. Unmixed = 0 /\ Kept \in Nat BY <1>2, Sizes DEF Init, Unmixed, Kept
  <2>2. Unmixed <= Kept + posted BY <2>1 DEF Init
  <2> QED BY <2>2 DEF Init, NarrowRests
<1>8. FewFilled BY <1>2, <1>3 DEF Init, FewFilled
<1>9. LittleLoad
  <2>1. Load = 0 BY Sizes DEF Init, Load
  <2> QED BY <1>3, <2>1 DEF Init, LittleLoad
<1>10. Counted
  <2>1. 0 * Slots(no_of_fft1b) = 0 /\ fft1_muln * 0 = 0 BY <1>3
  <2> QED BY <2>1 DEF Init, Counted
<1> QED BY <1>1, <1>4, <1>5, <1>6, <1>7, <1>8, <1>9, <1>10 DEF IInv

LEMMA NextIInv ==
  ASSUME Roomy, IInv, [Next]_vars
  PROVE  IInv'
BY TypeStep, OrderStep, WideRestsStep, Fft1cRestsStep, NarrowRestsStep, FewFilledStep,
   LittleLoadStep, CountedStep DEF IInv

\* IInv is inductive.
LEMMA RoomyReplay ==
  ASSUME Roomy
  PROVE  Spec => []IInv
<1>1. Init => IInv BY InitIInv
<1>2. IInv /\ [Next]_vars => IInv' BY NextIInv
<1> QED BY <1>1, <1>2, PTL DEF Spec

\* The variables keep their types, whatever the sizes of the rings that Roomy admits.
THEOREM TypeCorrect == Roomy => (Spec => []TypeOK)
<1> SUFFICES ASSUME Roomy PROVE Spec => []TypeOK OBVIOUS
<1>1. IInv => TypeOK BY DEF IInv
<1> QED BY <1>1, RoomyReplay, PTL

\* When the rings are large enough for what the threads may have under way, nobody writes
\* where another has still to read, in real time and when the file is read as fast as
\* possible, although no writer tests whether a ring is full.
THEOREM NothingOverrun == Roomy => (Spec => []Intact)
<1> SUFFICES ASSUME Roomy PROVE Spec => []Intact OBVIOUS
<1>1. IInv => Intact BY Safe
<1> QED BY <1>1, RoomyReplay, PTL
=============================================================================
