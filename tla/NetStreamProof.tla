---------------------------- MODULE NetStreamProof ----------------------------
(***************************************************************************)
(* While the network delivers every packet once and in order, each sample  *)
(* of a stream gets to its place in the block, for all sizes of blocks and *)
(* packets.                                                                *)
(***************************************************************************)
EXTENDS NetStream, SequenceTheorems, TLAPS

Cong(a, b) == (a - b) % Block = 0

LEMMA CongMult ==
  ASSUME NEW a \in Int, NEW b \in Int
  PROVE  Cong(a, b) <=> \E q \in Int : a = b + q * Block
<1>1. Block \in Int /\ Block > 0 BY NetStreamAssumption
<1>2. ASSUME Cong(a, b) PROVE \E q \in Int : a = b + q * Block
  <2>1. /\ ((a - b) \div Block) \in Int
        /\ a - b = Block * ((a - b) \div Block) + ((a - b) % Block)
    BY <1>1
  <2>2. a = b + ((a - b) \div Block) * Block BY <1>1, <1>2, <2>1 DEF Cong
  <2> QED BY <2>1, <2>2
<1>3. ASSUME NEW q \in Int, a = b + q * Block PROVE Cong(a, b)
  <2> DEFINE d == (a - b) \div Block  m == (a - b) % Block
  <2>1. d \in Int /\ m \in Int /\ a - b = Block * d + m /\ 0 <= m /\ m < Block BY <1>1
  <2>2. m = Block * (q - d) BY <1>1, <1>3, <2>1
  <2> HIDE DEF d, m
  <2>3. q - d < 1
    <3>1. SUFFICES ASSUME q - d >= 1 PROVE FALSE BY <2>1
    <3>2. Block * (q - d) >= Block BY <1>1, <2>1, <3>1
    <3> QED BY <1>1, <2>1, <2>2, <3>2
  <2>4. q - d > -1
    <3>1. SUFFICES ASSUME q - d <= -1 PROVE FALSE BY <2>1
    <3>2. Block * (q - d) <= -Block BY <1>1, <2>1, <3>1
    <3> QED BY <1>1, <2>1, <2>2, <3>2
  <2>5. q - d = 0 BY <2>1, <2>3, <2>4
  <2>6. m = 0 BY <1>1, <2>1, <2>2, <2>5
  <2> QED BY <2>6 DEF Cong, m
<1> QED BY <1>2, <1>3

LEMMA CongTrans ==
  ASSUME NEW a \in Int, NEW b \in Int, NEW c \in Int, Cong(a, b), Cong(b, c)
  PROVE  Cong(a, c)
<1>1. Block \in Int BY NetStreamAssumption
<1>2. PICK q \in Int : a = b + q * Block BY CongMult
<1>3. PICK r \in Int : b = c + r * Block BY CongMult
<1>4. a = c + (q + r) * Block BY <1>1, <1>2, <1>3
<1> QED BY <1>4, CongMult

LEMMA CongSym ==
  ASSUME NEW a \in Int, NEW b \in Int, Cong(a, b)
  PROVE  Cong(b, a)
<1>1. Block \in Int BY NetStreamAssumption
<1>2. PICK q \in Int : a = b + q * Block BY CongMult
<1>3. b = a + (-q) * Block BY <1>1, <1>2
<1> QED BY <1>3, CongMult

LEMMA CongShift ==
  ASSUME NEW a \in Int, NEW b \in Int, NEW c \in Int, NEW d \in Int,
         a - b = c - d, Cong(a, b)
  PROVE  Cong(c, d)
BY DEF Cong

LEMMA CongBlock ==
  ASSUME NEW a \in Int
  PROVE  Cong(a, a) /\ Cong(a - Block, a) /\ Cong(a, a - Block)
<1>1. Block \in Int BY NetStreamAssumption
<1>2. Cong(a, a)
  <2>1. a = a + 0 * Block BY <1>1
  <2> QED BY <2>1, CongMult
<1>3. Cong(a, a - Block)
  <2>1. a - (a - Block) = Block BY <1>1
  <2>2. Block > 0 BY NetStreamAssumption
  <2>3. Block % Block = 0 BY <1>1, <2>2
  <2> QED BY <2>1, <2>3 DEF Cong
<1>4. Cong(a - Block, a) BY <1>1, <1>3, CongSym
<1> QED BY <1>2, <1>3, <1>4

\* Two positions in a block that agree up to whole blocks are the same.
LEMMA CongEq ==
  ASSUME NEW a \in 0 .. Block - 1, NEW b \in 0 .. Block - 1, Cong(a, b)
  PROVE  a = b
<1>1. Block \in Int /\ Block > 0 BY NetStreamAssumption
<1>2. PICK q \in Int : a = b + q * Block BY CongMult
<1>3. q < 1
  <2>1. SUFFICES ASSUME q >= 1 PROVE FALSE OBVIOUS
  <2>2. q * Block >= Block BY <1>1, <2>1
  <2> QED BY <1>1, <1>2, <2>2
<1>4. q > -1
  <2>1. SUFFICES ASSUME q <= -1 PROVE FALSE OBVIOUS
  <2>2. q * Block <= -Block BY <1>1, <2>1
  <2> QED BY <1>1, <1>2, <2>2
<1>5. q = 0 BY <1>3, <1>4
<1> QED BY <1>1, <1>2, <1>5

-----------------------------------------------------------------------------
(* Types                                                                    *)

\* A packet that is waited for, or a gap that is filled, begins anew.
Types == TypeOK /\ (pc = "recv" => netrd_ia = 0) /\ (pc = "fill" => netrd_ia < Payload)

LEMMA Widths ==
  ASSUME NEW f \in Formats
  PROVE  \/ Packed[f] = 2 /\ Stored[f] = 2 /\ Turns[f] = 2
         \/ Packed[f] = 3 /\ Stored[f] = 4 /\ Turns[f] = 2
         \/ Packed[f] = 4 /\ Stored[f] = 4 /\ Turns[f] = 2
         \/ Packed[f] = 1 /\ Stored[f] = 1 /\ Turns[f] = 1
<1>1. f \in AllFormats BY NetStreamAssumption
<1> QED BY <1>1 DEF Packed, Stored, Turns, AllFormats

LEMMA NumberStep ==
  ASSUME NEW n \in 0 .. Numbers - 1
  PROVE  Next16(n) \in 0 .. Numbers - 1
BY NetStreamAssumption DEF Next16

\* What remains to be filled is bounded by the gap that is still filled.
LEMMA LeftBound ==
  ASSUME NEW f \in Formats, NEW i \in Int, i > 0, i < Limit * Stored[f]
  PROVE  (i * Turns[f]) \div Stored[f] \in 0 .. 2 * Limit
<1>1. Limit \in Nat BY NetStreamAssumption
<1> QED BY <1>1, Widths

LEMMA InitTypes == Init => Types
<1> SUFFICES ASSUME Init PROVE Types OBVIOUS
<1>1. j \in 0 .. Block - 1
  <2>1. PICK k \in 0 .. Block - 1 : j = (k * Payload) % Block BY DEF Init
  <2>2. Payload \in Int /\ Block \in Int /\ Block > 0 /\ k * Payload \in Int
    BY NetStreamAssumption
  <2> QED BY <2>1, <2>2
<1>2. wire \in Seq(Packet) /\ Len(wire) = 0 BY DEF Init
<1>3. packet \in Packet BY NetStreamAssumption DEF Init, Packet
<1>4. /\ blknum \in 0 .. Numbers - 1 /\ netsend_ptr \in 0 .. Payload - 1
      /\ netrd_ia \in 0 .. Payload /\ netrd_ib \in 0 .. Block - 1
      /\ block_cnt \in 0 .. Numbers - 1 /\ left \in 0 .. 2 * Limit
      /\ faults \in 0 .. MaxFaults /\ Len(wire) <= Depth + faults
  BY <1>2, NetStreamAssumption DEF Init
<1>5. TypeOK BY <1>1, <1>2, <1>3, <1>4 DEF Init, TypeOK
<1> QED BY <1>5 DEF Init, Types

LEMMA MasterTypes ==
  ASSUME Types, Master
  PROVE  Types'
<1> USE NetStreamAssumption DEF Types, TypeOK
<1>1. CASE Pack
  BY <1>1 DEF Pack, env, place
<1>2. ASSUME NEW p \in 0 .. Block - 1, Send(p, AfterPacket) PROVE Types'
  <2>1. AfterPacket \in 0 .. Block - 1 BY <1>2 DEF Send, AfterPacket
  <2>2. Next16(blknum) \in 0 .. Numbers - 1 BY NumberStep
  <2>3. [no |-> Next16(blknum), ptr |-> p] \in Packet BY <2>2 DEF Packet
  <2>4. wire' \in Seq(Packet) /\ Len(wire') = Len(wire) + 1 BY <1>2, <2>3 DEF Send
  <2>5. Len(wire') <= Depth + faults BY <1>2, <2>4 DEF Send
  <2> QED BY <1>2, <2>1, <2>2, <2>4, <2>5 DEF Send, env, place
<1>3. AfterPacket \in 0 .. Block - 1 \/ ~(Payload - netsend_ptr <= Block - j)
  BY DEF AfterPacket
<1>4. CASE SendRaw BY <1>2, <1>4 DEF SendRaw
<1>5. CASE SendFft1 BY <1>2, <1>5 DEF SendFft1
<1>6. CASE SendBaseb BY <1>2, <1>6 DEF SendBaseb
<1>7. CASE SendTimf2
  <2>1. Send(AfterPacket, AfterPacket) BY <1>7 DEF SendTimf2
  <2>2. AfterPacket \in 0 .. Block - 1 BY <1>3, <2>1 DEF Send
  <2> QED BY <1>2, <2>1, <2>2
<1> QED BY <1>1, <1>4, <1>5, <1>6, <1>7 DEF Master

LEMMA NetworkTypes ==
  ASSUME Types, Network
  PROVE  Types'
<1> USE NetStreamAssumption DEF Types, TypeOK
<1>1. ASSUME Fault, wire' \in Seq(Packet), Len(wire') <= Len(wire) + 1 PROVE Types'
  BY <1>1 DEF Fault, place, master
<1>2. wire \in Seq(Packet) /\ Len(wire) \in Nat OBVIOUS
<1>3. \A k \in 1 .. Len(wire) : wire[k] \in Packet BY <1>2, ElementOfSeq
<1>4. \A m, n \in Int : 1 <= m /\ n <= Len(wire) =>
        /\ SubSeq(wire, m, n) \in Seq(Packet)
        /\ Len(SubSeq(wire, m, n)) = IF m <= n THEN n - m + 1 ELSE 0
  <2>1. TAKE m \in Int, n \in Int
  <2>2. HAVE 1 <= m /\ n <= Len(wire)
  <2>3. \A i \in m .. n : wire[i] \in Packet BY <1>2, <1>3, <2>2
  <2> QED BY <2>3, SubSeqProperties
<1> HIDE DEF Types, TypeOK
<1>5. CASE Lose
  <2>1. PICK k \in 1 .. Len(wire) : wire' = RemoveAt(wire, k) BY <1>2, <1>5 DEF Lose
  <2>2. wire' = SubSeq(wire, 1, k - 1) \o SubSeq(wire, k + 1, Len(wire))
    BY <2>1 DEF RemoveAt
  <2>3. /\ SubSeq(wire, 1, k - 1) \in Seq(Packet)
        /\ SubSeq(wire, k + 1, Len(wire)) \in Seq(Packet)
        /\ Len(SubSeq(wire, 1, k - 1)) = k - 1
        /\ Len(SubSeq(wire, k + 1, Len(wire))) = Len(wire) - k
    BY <1>2, <1>4, <2>1
  <2>4. wire' \in Seq(Packet) /\ Len(wire') = (k - 1) + (Len(wire) - k)
    BY <2>2, <2>3, ConcatProperties
  <2> QED BY <1>1, <1>2, <1>5, <2>1, <2>4 DEF Lose
<1>6. CASE Double
  <2>1. PICK k \in 1 .. Len(wire) : wire' = InsertAt(wire, k, wire[k])
    BY <1>2, <1>6 DEF Double
  <2> DEFINE s == SubSeq(wire, 1, k - 1)  t == SubSeq(wire, k, Len(wire))
             u == s \o <<wire[k]>>
  <2>2. wire' = u \o t BY <2>1 DEF InsertAt
  <2>3. /\ s \in Seq(Packet) /\ t \in Seq(Packet)
        /\ Len(s) = k - 1 /\ Len(t) = Len(wire) - k + 1
    BY <1>2, <1>4, <2>1
  <2>4. <<wire[k]>> \in Seq(Packet) /\ Len(<<wire[k]>>) = 1 BY <1>3, <2>1
  <2> HIDE DEF s, t
  <2>5. u \in Seq(Packet) /\ Len(u) = k BY <2>1, <2>3, <2>4, ConcatProperties
  <2> HIDE DEF u
  <2>6. wire' \in Seq(Packet) /\ Len(wire') = Len(u) + Len(t)
    BY <2>2, <2>3, <2>5, ConcatProperties
  <2> QED BY <1>1, <1>2, <1>6, <2>1, <2>3, <2>5, <2>6 DEF Double
<1>7. CASE Swap
  <2>1. PICK k \in 1 .. Len(wire) - 1 :
          wire' = [wire EXCEPT ![k] = wire[k + 1], ![k + 1] = wire[k]]
    BY <1>7 DEF Swap
  <2>2. k \in 1 .. Len(wire) /\ k + 1 \in 1 .. Len(wire) BY <1>2, <2>1
  <2>3. wire[k] \in Packet /\ wire[k + 1] \in Packet BY <1>3, <2>2
  <2> DEFINE s == [wire EXCEPT ![k] = wire[k + 1]]
  <2>4. s \in Seq(Packet) /\ Len(s) = Len(wire) BY <1>2, <2>2, <2>3, ExceptSeq
  <2>5. wire' = [s EXCEPT ![k + 1] = wire[k]] BY <2>1
  <2> HIDE DEF s
  <2>6. wire' \in Seq(Packet) /\ Len(wire') = Len(s) BY <2>2, <2>3, <2>4, <2>5, ExceptSeq
  <2> QED BY <1>1, <1>2, <1>7, <2>4, <2>6 DEF Swap
<1> QED BY <1>5, <1>6, <1>7 DEF Network

LEMMA HeadTail ==
  ASSUME NEW s \in Seq(Packet), s # <<>>
  PROVE  /\ Head(s) \in Packet /\ Tail(s) \in Seq(Packet)
         /\ Head(s) = s[1] /\ Len(Tail(s)) = Len(s) - 1
         /\ \A k \in 1 .. Len(Tail(s)) : Tail(s)[k] = s[k + 1]
OBVIOUS

LEMMA SlaveTypes ==
  ASSUME Types, Slave
  PROVE  Types'
<1> USE NetStreamAssumption DEF Types, TypeOK
<1>1. ASSUME Received \/ Killed
      PROVE  /\ packet' \in Packet /\ wire' \in Seq(Packet) /\ Len(wire') <= Len(wire)
             /\ packet'.no \in 0 .. Numbers - 1 /\ packet'.ptr \in 0 .. Block - 1
  <2>1. packet' \in Packet /\ wire' \in Seq(Packet) /\ Len(wire') <= Len(wire)
    BY <1>1, HeadTail DEF Received, Killed
  <2> QED BY <2>1 DEF Packet
<1>2. CASE First
  <2>1. Received \/ Killed BY <1>2 DEF First
  <2> QED BY <1>1, <1>2, <2>1 DEF First, P, others, env, master
<1>3. CASE Top BY <1>3 DEF Top, P, others, env, master, place
<1>4. CASE CopyBlockEnds BY <1>4 DEF CopyBlockEnds, P, others, env, master
<1>5. CASE CopyPacketEnds BY <1>5 DEF CopyPacketEnds, P, others, env, master
<1>6. CASE RecvExpected
  <2>1. Received BY <1>6 DEF RecvExpected
  <2> QED BY <1>1, <1>6, <2>1 DEF RecvExpected, P, others, env, master
<1>7. CASE RecvGap
  <2>1. Received BY <1>7 DEF RecvGap
  <2>2. Next16(block_cnt) \in 0 .. Numbers - 1 BY NumberStep
  <2>3. Distance(packet') \in Int
    <3>1. packet'.no - Next16(block_cnt) \in Int BY <1>1, <2>1, <2>2
    <3>2. (packet'.no - Next16(block_cnt)) % Numbers \in Int BY <3>1
    <3>3. packet'.ptr - netrd_ib \in Int BY <1>1, <2>1
    <3>4. Packed[format] \in Int /\ Stored[format] \in Int BY Widths
    <3> HIDE DEF TypeOK
    <3> DEFINE n == (packet'.no - Next16(block_cnt)) % Numbers
               p == packet'.ptr - netrd_ib
    <3>5. /\ Packed[format] * Payload * n \in Int
          /\ Stored[format] * p \in Int
      BY <3>2, <3>3, <3>4
    <3> QED BY <3>5 DEF Distance
  <2>4. left' \in 0 .. 2 * Limit
    <3>1. Distance(packet') > 0 /\ Distance(packet') < Limit * Stored[format]
      BY <1>7 DEF RecvGap
    <3>2. Limit >= 1
      <4>1. Limit = 0 => Limit * Stored[format] = 0 BY Widths
      <4> QED BY <2>3, <3>1, <4>1
    <3>3. (Distance(packet') * Turns[format]) \div Stored[format] \in 0 .. 2 * Limit
      BY <2>3, <3>1, LeftBound
    <3> QED BY <1>7, <3>2, <3>3 DEF RecvGap
  <2> QED BY <1>1, <1>7, <2>1, <2>2, <2>4 DEF RecvGap, P, others, env, master
<1>8. CASE RecvJump
  <2>1. Received BY <1>8 DEF RecvJump
  <2> QED BY <1>1, <1>8, <2>1 DEF RecvJump, P, others, env, master
<1>9. CASE RecvKilled
  <2>1. Killed BY <1>9 DEF RecvKilled
  <2> QED BY <1>1, <1>9, <2>1 DEF RecvKilled, P, others, env, master
<1>10. CASE Fill
  <2>1. Next16(block_cnt) \in 0 .. Numbers - 1 BY NumberStep
  <2>2. netrd_ia < Payload BY <1>10 DEF Fill
  <2> QED BY <1>10, <2>1, <2>2 DEF Fill, others, env, master
<1>11. CASE Filled BY <1>11 DEF Filled, P, others, env, master, place
<1>12. CASE Exit BY <1>12 DEF Exit, P, others, env, master, place
<1>13. CASE End BY <1>13 DEF End, P, others, env, master, place
<1> QED BY <1>2, <1>3, <1>4, <1>5, <1>6, <1>7, <1>8, <1>9, <1>10, <1>11, <1>12, <1>13 DEF Slave

LEMMA NextTypes ==
  ASSUME Types, [Next]_vars
  PROVE  Types'
<1>1. CASE Stop BY <1>1 DEF Types, TypeOK, Stop, env, master, place
<1>2. CASE KillAll BY <1>2 DEF Types, TypeOK, KillAll, env, master, place
<1>3. CASE UNCHANGED vars BY <1>3 DEF Types, TypeOK, vars, master, place
<1> QED BY <1>1, <1>2, <1>3, MasterTypes, NetworkTypes, SlaveTypes DEF Next

\* Types of everything, and the bounds of the channel and of what is filled.
THEOREM TypeCorrect == Spec => []TypeOK
<1>1. Types /\ [Next]_vars => Types' BY NextTypes
<1>2. Types => TypeOK BY DEF Types
<1> QED BY InitTypes, <1>1, <1>2, PTL DEF Spec

-----------------------------------------------------------------------------
(* The invariant                                                            *)

\* The position, up to whole blocks, that the next packet will be sent with.
Ahead == IF format = "timf2" THEN next_blkptr + Payload ELSE next_blkptr

\* The position that the slave expects in the packet after the present one.
Wanted == IF pc = "recv" THEN netrd_ib ELSE netrd_ib + (Payload - netrd_ia)

\* The master's packet begins at the position it has been given.
Sending == Cong(next_blkptr + netsend_ptr, j)

Follows(p, q) == q.no = Next16(p.no) /\ Cong(q.ptr, p.ptr + Payload)

\* The packets on their way continue each other, and the master the last one.
Chained ==
  /\ \A k \in 1 .. Len(wire) - 1 : Follows(wire[k], wire[k + 1])
  /\ wire # <<>> => /\ wire[Len(wire)].no = blknum
                    /\ Cong(Ahead, wire[Len(wire)].ptr + Payload)

\* What the slave expects is what comes next.
Awaited ==
  IF wire = <<>> THEN block_cnt = blknum /\ Cong(Ahead, Wanted)
                 ELSE wire[1].no = Next16(block_cnt) /\ Cong(wire[1].ptr, Wanted)

Receiving == pc \in {"copy", "recv"} \/ (pc = "top" /\ ~kill_all_flag)

InOrder ==
  faults = 0 /\ format # "fft1" =>
    /\ Sending /\ Chained
    /\ ~net_error /\ pc # "fill"
    /\ Receiving => Awaited
    /\ Receiving /\ pc # "recv" => Cong(packet.ptr + netrd_ia, netrd_ib)

IInv == Types /\ InOrder

LEMMA InitOrder == Init => InOrder
<1> SUFFICES ASSUME Init PROVE InOrder OBVIOUS
<1>1. j \in Int /\ next_blkptr + netsend_ptr = j
  BY InitTypes DEF Init, Types, TypeOK
<1>2. Sending BY <1>1, CongBlock DEF Sending
<1>3. Chained BY DEF Init, Chained
<1> QED BY <1>2, <1>3 DEF Init, InOrder, Receiving

\* A step that leaves the master and the channel alone.
LEMMA QuietOrder ==
  ASSUME Types, InOrder, UNCHANGED <<format, master, wire, faults>>
  PROVE  faults' = 0 /\ format' # "fft1" => Sending' /\ Chained'
BY DEF InOrder, Sending, Chained, Ahead, master

LEMMA PackOrder ==
  ASSUME IInv, Pack
  PROVE  InOrder'
<1> SUFFICES ASSUME faults = 0, format # "fft1" PROVE InOrder'
  BY DEF Pack, env, InOrder
<1>1. Block \in Nat /\ Payload \in Nat BY NetStreamAssumption
<1>2. j \in Int /\ netsend_ptr \in Int /\ next_blkptr \in Int BY DEF IInv, Types, TypeOK
<1>3. Sending'
  <2>1. Cong((next_blkptr + netsend_ptr) + (Block - j), j + (Block - j))
    BY <1>1, <1>2, CongShift DEF IInv, InOrder, Sending
  <2>2. j + (Block - j) = Block /\ Cong(Block, 0)
    <3>1. Cong(Block, Block - Block) BY <1>1, CongBlock
    <3> QED BY <1>1, <1>2, <3>1
  <2>3. Cong((next_blkptr + netsend_ptr) + (Block - j), 0)
    BY <1>1, <1>2, <2>1, <2>2, CongTrans
  <2>4. (next_blkptr + netsend_ptr) + (Block - j) = next_blkptr' + netsend_ptr'
    BY <1>1, <1>2 DEF Pack
  <2> QED BY <2>3, <2>4 DEF Pack, Sending
<1>4. Chained' BY DEF IInv, InOrder, Pack, env, Chained, Ahead
<1> QED BY <1>3, <1>4 DEF IInv, InOrder, Pack, env, place, Receiving, Awaited, Ahead, Wanted

\* The position after the packet is where the next one begins.
LEMMA AfterCong ==
  ASSUME Types, Sending, Payload - netsend_ptr <= Block - j
  PROVE  AfterPacket \in 0 .. Block - 1 /\ Cong(AfterPacket, next_blkptr + Payload)
<1>1. /\ Block \in Nat /\ Payload \in Nat
      /\ j \in 0 .. Block - 1 /\ netsend_ptr \in 0 .. Payload - 1 /\ next_blkptr \in Int
  BY NetStreamAssumption DEF Types, TypeOK
<1> DEFINE n == j + (Payload - netsend_ptr)
<1>2. Cong(next_blkptr + Payload, n)
  <2>1. Cong((next_blkptr + netsend_ptr) + (Payload - netsend_ptr), n)
    BY <1>1, CongShift DEF Sending
  <2>2. (next_blkptr + netsend_ptr) + (Payload - netsend_ptr) = next_blkptr + Payload
    BY <1>1
  <2> QED BY <2>1, <2>2
<1>3. n \in Int /\ n <= Block BY <1>1
<1>4. Cong(n, AfterPacket)
  <2>1. CASE n >= Block
    <3>1. n = Block /\ AfterPacket = n - Block BY <1>1, <1>3, <2>1 DEF AfterPacket
    <3> QED BY <1>3, <3>1, CongBlock
  <2>2. CASE ~(n >= Block) BY <1>3, <2>2, CongBlock DEF AfterPacket
  <2> QED BY <2>1, <2>2
<1>5. AfterPacket \in 0 .. Block - 1 BY <1>1 DEF AfterPacket
<1>6. Cong(next_blkptr + Payload, AfterPacket)
  BY <1>1, <1>2, <1>3, <1>4, <1>5, CongTrans
<1> QED BY <1>1, <1>5, <1>6, CongSym

\* Every packet is sent with the position Ahead and leaves the next one ahead.
LEMMA SendOrder ==
  ASSUME IInv, NEW p \in 0 .. Block - 1, Send(p, AfterPacket),
         faults = 0 /\ format # "fft1" => Cong(p, Ahead)
  PROVE  InOrder'
<1> SUFFICES ASSUME faults = 0, format # "fft1" PROVE InOrder'
  BY DEF Send, env, InOrder
<1> USE DEF IInv
<1>1. /\ Payload \in Nat /\ next_blkptr \in Int /\ next_blkptr' = AfterPacket
      /\ p \in Int /\ wire \in Seq(Packet) /\ Len(wire) \in Nat
  BY NetStreamAssumption DEF Types, TypeOK, Send
<1>2. AfterPacket \in Int /\ Cong(AfterPacket, next_blkptr + Payload)
  BY AfterCong DEF Send, InOrder
<1>3. Sending'
  <2>1. next_blkptr' + netsend_ptr' = j' /\ j' \in Int BY <1>1, <1>2 DEF Send
  <2> QED BY <2>1, CongBlock DEF Sending
<1>4. Ahead \in Int /\ Ahead' \in Int /\ Cong(Ahead', Ahead + Payload)
  <2>1. CASE format = "timf2"
    <3>1. Ahead = next_blkptr + Payload /\ Ahead' = AfterPacket + Payload
      BY <1>1, <2>1 DEF Ahead, Send, env
    <3> QED BY <1>1, <1>2, <3>1, CongShift
  <2>2. CASE format # "timf2"
    <3>1. Ahead = next_blkptr /\ Ahead' = AfterPacket BY <1>1, <2>2 DEF Ahead, Send, env
    <3> QED BY <1>1, <1>2, <3>1
  <2> QED BY <2>1, <2>2
<1>5. Cong(Ahead', p + Payload)
  <2>1. Cong(Ahead + Payload, p + Payload) BY <1>1, <1>4, CongSym, CongShift
  <2> QED BY <1>1, <1>4, <2>1, CongTrans
<1> DEFINE new == [no |-> Next16(blknum), ptr |-> p]
<1>6. new \in Packet BY NumberStep DEF Packet, Types, TypeOK
<1>7. /\ wire' \in Seq(Packet) /\ Len(wire') = Len(wire) + 1
      /\ wire'[Len(wire) + 1] = new
      /\ \A k \in 1 .. Len(wire) : wire'[k] = wire[k]
  BY <1>1, <1>6 DEF Send
<1> HIDE DEF new
<1>8. Chained'
  <2>1. wire'[Len(wire')].no = blknum' /\ Cong(Ahead', wire'[Len(wire')].ptr + Payload)
    BY <1>1, <1>5, <1>7 DEF Send, new
  <2>2. ASSUME NEW k \in 1 .. Len(wire') - 1 PROVE Follows(wire'[k], wire'[k + 1])
    <3>1. CASE k < Len(wire)
      <4>1. k \in 1 .. Len(wire) - 1 /\ wire'[k] = wire[k] /\ wire'[k + 1] = wire[k + 1]
        BY <1>1, <1>7, <2>2, <3>1
      <4> QED BY <4>1 DEF InOrder, Chained
    <3>2. CASE k = Len(wire)
      <4>1. wire'[k] = wire[Len(wire)] /\ wire'[k + 1] = new /\ wire # <<>>
        BY <1>1, <1>7, <2>2, <3>2
      <4>2. wire[Len(wire)].no = blknum /\ Cong(Ahead, wire[Len(wire)].ptr + Payload)
        BY <4>1 DEF InOrder, Chained
      <4>3. wire[Len(wire)].ptr \in Int
        <5>1. wire[Len(wire)] \in Packet BY <1>1, <2>2, <3>2, ElementOfSeq
        <5> QED BY <5>1 DEF Packet
      <4>4. Cong(p, wire[Len(wire)].ptr + Payload)
        BY <1>1, <1>4, <4>2, <4>3, CongTrans
      <4> QED BY <4>1, <4>2, <4>4 DEF Follows, new
    <3> QED BY <1>1, <1>7, <2>2, <3>1, <3>2
  <2> QED BY <1>1, <2>1, <2>2 DEF Chained, Follows, Next16
<1>9. Receiving => Awaited'
  <2> SUFFICES ASSUME Receiving PROVE Awaited' OBVIOUS
  <2>1. Awaited /\ Wanted' = Wanted BY DEF InOrder, Send, place, Wanted
  <2>2. wire' # <<>> BY <1>1, <1>7
  <2>3. Wanted \in Int BY <1>1 DEF Wanted, Types, TypeOK
  <2>4. CASE wire = <<>>
    <3>1. wire'[1] = new /\ Len(wire) = 0 BY <1>1, <1>7, <2>4
    <3>2. Cong(p, Wanted) BY <1>1, <1>4, <2>1, <2>3, <2>4, CongTrans DEF Awaited
    <3> QED BY <2>1, <2>2, <2>4, <3>1, <3>2 DEF Awaited, new, Send, place, Next16
  <2>5. CASE wire # <<>>
    <3>1. wire'[1] = wire[1] BY <1>1, <1>7, <2>5
    <3> QED BY <2>1, <2>2, <2>5, <3>1 DEF Awaited, Send, place, Next16
  <2> QED BY <2>4, <2>5
<1> QED BY <1>3, <1>8, <1>9 DEF InOrder, Send, env, place, Receiving

LEMMA MasterOrder ==
  ASSUME IInv, Master
  PROVE  InOrder'
<1>1. CASE Pack BY <1>1, PackOrder
<1>2. next_blkptr \in 0 .. Block - 1 BY DEF IInv, Types, TypeOK
<1>3. ASSUME Send(next_blkptr, AfterPacket), format # "timf2" PROVE InOrder'
  <2>1. Cong(next_blkptr, Ahead) BY <1>2, <1>3, CongBlock DEF Ahead
  <2> QED BY <1>2, <1>3, <2>1, SendOrder
<1>4. CASE SendRaw BY <1>3, <1>4 DEF SendRaw
<1>5. CASE SendFft1 BY <1>3, <1>5 DEF SendFft1
<1>6. CASE SendBaseb BY <1>3, <1>6 DEF SendBaseb
<1>7. CASE SendTimf2
  <2>1. Send(AfterPacket, AfterPacket) /\ format = "timf2" BY <1>7 DEF SendTimf2
  <2>2. AfterPacket \in 0 .. Block - 1
    BY <2>1, NetStreamAssumption DEF IInv, Types, TypeOK, Send, AfterPacket
  <2>3. faults = 0 => Cong(AfterPacket, Ahead)
    BY <2>1, AfterCong DEF IInv, InOrder, Send, Ahead
  <2> QED BY <2>1, <2>2, <2>3, SendOrder
<1> QED BY <1>1, <1>4, <1>5, <1>6, <1>7 DEF Master

LEMMA NetworkOrder ==
  ASSUME IInv, Network
  PROVE  InOrder'
<1>1. Fault BY DEF Network, Lose, Double, Swap
<1>2. faults' # 0 BY <1>1, NetStreamAssumption DEF Fault, IInv, Types, TypeOK
<1> QED BY <1>2 DEF InOrder

\* When the first packet is taken, the rest continues it.
LEMMA TailOrder ==
  ASSUME Types, Chained, Received, UNCHANGED <<format, master>>
  PROVE  /\ Chained' /\ packet' = wire[1]
         /\ packet'.no \in 0 .. Numbers - 1 /\ packet'.ptr \in 0 .. Block - 1
         /\ wire' = <<>> => packet'.no = blknum' /\ Cong(Ahead', packet'.ptr + Payload)
         /\ wire' # <<>> => Follows(packet', wire'[1])
<1>1. /\ wire \in Seq(Packet) /\ wire # <<>> /\ Len(wire) \in Nat
      /\ wire' = Tail(wire) /\ packet' = Head(wire) /\ Ahead' = Ahead /\ blknum' = blknum
  BY DEF Types, TypeOK, Received, Ahead, master
<1>2. /\ packet' \in Packet /\ packet' = wire[1]
      /\ wire' \in Seq(Packet) /\ Len(wire') = Len(wire) - 1
      /\ \A k \in 1 .. Len(wire') : wire'[k] = wire[k + 1]
  BY <1>1, HeadTail
<1>3. packet'.no \in 0 .. Numbers - 1 /\ packet'.ptr \in 0 .. Block - 1
  BY <1>2 DEF Packet
<1>4. ASSUME NEW k \in 1 .. Len(wire') - 1 PROVE Follows(wire'[k], wire'[k + 1])
  <2>1. /\ k + 1 \in 1 .. Len(wire) - 1
        /\ wire'[k] = wire[k + 1] /\ wire'[k + 1] = wire[(k + 1) + 1]
    BY <1>1, <1>2, <1>4
  <2> QED BY <2>1 DEF Chained
<1>5. ASSUME wire' # <<>>
      PROVE  /\ wire'[Len(wire')] = wire[Len(wire)] /\ Follows(packet', wire'[1])
  <2>1. Len(wire') \in Nat /\ Len(wire') # 0 BY <1>2, <1>5
  <2>2. wire'[Len(wire')] = wire[Len(wire)] /\ wire'[1] = wire[2] /\ 1 \in 1 .. Len(wire) - 1
    BY <1>1, <1>2, <2>1
  <2>3. Follows(wire[1], wire[1 + 1]) BY <2>2 DEF Chained
  <2> QED BY <1>2, <2>2, <2>3
<1>6. ASSUME wire' = <<>>
      PROVE  packet'.no = blknum' /\ Cong(Ahead', packet'.ptr + Payload)
  <2>1. Len(wire) = 1 BY <1>1, <1>2, <1>6
  <2> QED BY <1>1, <1>2, <2>1 DEF Chained
<1>7. Chained'
  <2>1. wire' # <<>> => /\ wire'[Len(wire')].no = blknum'
                        /\ Cong(Ahead', wire'[Len(wire')].ptr + Payload)
    BY <1>1, <1>5 DEF Chained
  <2> QED BY <1>4, <2>1 DEF Chained, Follows, Next16
<1> QED BY <1>2, <1>3, <1>5, <1>6, <1>7

\* The packet that comes is the one that is expected.
LEMMA Expectation ==
  ASSUME IInv, faults = 0, format # "fft1", pc = "recv", Received
  PROVE  Expected(packet')
<1>1. /\ wire \in Seq(Packet) /\ wire # <<>> /\ netrd_ib \in 0 .. Block - 1
      /\ packet' = Head(wire)
  BY DEF IInv, Types, TypeOK, Received
<1>2. packet' = wire[1] /\ packet' \in Packet BY <1>1, HeadTail
<1>3. packet'.ptr \in 0 .. Block - 1 BY <1>2 DEF Packet
<1>4. packet'.no = Next16(block_cnt) /\ Cong(packet'.ptr, netrd_ib)
  BY <1>1, <1>2 DEF IInv, InOrder, Receiving, Awaited, Wanted
<1>5. packet'.ptr = netrd_ib BY <1>1, <1>3, <1>4, CongEq
<1> QED BY <1>4, <1>5 DEF Expected

LEMMA SlaveOrder ==
  ASSUME IInv, Slave
  PROVE  InOrder'
<1> SUFFICES ASSUME faults' = 0, format' # "fft1" PROVE InOrder' BY DEF InOrder
<1> USE DEF IInv
<1>0. faults = 0 /\ format # "fft1" /\ UNCHANGED <<format, master, faults>>
  BY DEF Slave, First, Top, CopyBlockEnds, CopyPacketEnds, RecvExpected, RecvGap, RecvJump,
         RecvKilled, Fill, Filled, Exit, End, others, env
<1>1. Sending /\ Chained /\ ~net_error /\ pc # "fill" BY <1>0 DEF InOrder
<1>2. Sending' BY <1>0, <1>1 DEF Sending, master
<1>3. /\ Block \in Nat /\ Payload \in Nat /\ netrd_ia \in Int /\ netrd_ib \in Int
      /\ packet.ptr \in Int /\ Ahead \in Int
      /\ wire # <<>> => wire[1].ptr \in Int
  <2>1. wire # <<>> => wire[1] \in Packet BY HeadTail DEF Types, TypeOK
  <2> QED BY <2>1, NetStreamAssumption DEF Types, TypeOK, Packet, Ahead
<1>4. ASSUME UNCHANGED wire, ~net_error', pc' # "fill", ~Receiving' PROVE InOrder'
  <2>1. Chained' BY <1>0, <1>1, <1>4 DEF Chained, Ahead, master
  <2> QED BY <1>2, <1>4, <2>1 DEF InOrder
<1>5. ASSUME UNCHANGED <<wire, block_cnt, net_error>>, pc' # "fill", Receiving,
             Wanted' \in Int, Cong(Wanted, Wanted'),
             pc' # "recv" => Cong(packet'.ptr + netrd_ia', netrd_ib')
      PROVE  InOrder'
  <2>1. Chained' BY <1>0, <1>1, <1>5 DEF Chained, Ahead, master
  <2>2. Awaited /\ Ahead' = Ahead /\ Wanted \in Int
    BY <1>0, <1>3, <1>5 DEF InOrder, Ahead, master, Wanted
  <2>3. Awaited'
    <3>1. CASE wire = <<>>
      BY <1>0, <1>3, <1>5, <2>2, <3>1, CongTrans DEF Awaited, master
    <3>2. CASE wire # <<>>
      BY <1>0, <1>3, <1>5, <2>2, <3>2, CongTrans DEF Awaited, Next16
    <3> QED BY <3>1, <3>2
  <2> QED BY <1>1, <1>2, <1>5, <2>1, <2>3 DEF InOrder
<1>6. ASSUME Received, netrd_ib' = packet'.ptr, netrd_ia' = 0, block_cnt' = packet'.no,
             pc' \in {"top", "copy"}, ~net_error'
      PROVE  InOrder'
  <2>1. /\ Chained'
        /\ packet'.ptr \in 0 .. Block - 1
        /\ wire' = <<>> => packet'.no = blknum' /\ Cong(Ahead', packet'.ptr + Payload)
        /\ wire' # <<>> => Follows(packet', wire'[1])
    BY <1>0, <1>1, <1>6, TailOrder
  <2>2. Wanted' = packet'.ptr + Payload BY <1>3, <1>6, <2>1 DEF Wanted
  <2>3. Awaited' BY <1>6, <2>1, <2>2 DEF Awaited, Follows, Next16
  <2>4. Cong(packet'.ptr + netrd_ia', netrd_ib')
    <3>1. packet'.ptr + netrd_ia' = netrd_ib' /\ netrd_ib' \in Int BY <1>6, <2>1
    <3> QED BY <3>1, CongBlock
  <2> QED BY <1>2, <1>6, <2>1, <2>3, <2>4 DEF InOrder
<1>7. CASE First
  <2>1. CASE Received BY <1>0, <1>1, <1>6, <1>7, <2>1 DEF First, P
  <2>2. CASE Killed
    BY <1>1, <1>4, <1>7, <2>2 DEF First, P, Killed, others, Receiving
  <2> QED BY <1>7, <2>1, <2>2 DEF First
<1>8. CASE Top
  <2>1. CASE cmd = "ACTIVE" /\ ~kill_all_flag
    <3>1. Receiving /\ Wanted' = Wanted /\ Wanted \in Int
      BY <1>3, <1>8, <2>1 DEF Top, P, Receiving, Wanted, place
    <3>2. Cong(packet.ptr + netrd_ia, netrd_ib)
      BY <1>0, <1>8, <3>1 DEF Top, P, InOrder
    <3> QED BY <1>5, <1>8, <2>1, <3>1, <3>2, CongBlock DEF Top, P, place
  <2>2. CASE ~(cmd = "ACTIVE" /\ ~kill_all_flag)
    BY <1>1, <1>4, <1>8, <2>2 DEF Top, P, place, Receiving
  <2> QED BY <2>1, <2>2
<1>9. CASE CopyBlockEnds
  <2>1. /\ Receiving /\ Wanted \in Int /\ Wanted' = Wanted - Block
        /\ Cong(packet.ptr + netrd_ia, netrd_ib)
    BY <1>0, <1>3, <1>9 DEF CopyBlockEnds, P, Receiving, Wanted, InOrder
  <2>2. Cong(Wanted, Wanted') BY <1>3, <2>1, CongBlock
  <2>3. Cong(packet'.ptr + netrd_ia', netrd_ib')
    <3>1. packet'.ptr + netrd_ia' = packet.ptr + netrd_ia + (Block - netrd_ib) /\ netrd_ib' = 0
      BY <1>3, <1>9 DEF CopyBlockEnds
    <3>2. (packet.ptr + netrd_ia) - netrd_ib = (packet.ptr + netrd_ia + (Block - netrd_ib)) - Block
      BY <1>3
    <3>3. Cong(packet.ptr + netrd_ia + (Block - netrd_ib), Block)
      BY <1>3, <2>1, <3>2, CongShift
    <3>4. Cong(Block, 0)
      <4>1. Cong(Block, Block - Block) BY <1>3, CongBlock
      <4> QED BY <1>3, <4>1
    <3> QED BY <1>3, <3>1, <3>3, <3>4, CongTrans
  <2> QED BY <1>3, <1>5, <1>9, <2>1, <2>2, <2>3 DEF CopyBlockEnds, P
<1>10. CASE CopyPacketEnds
  <2>1. Receiving /\ Wanted \in Int /\ Wanted' = Wanted
    BY <1>3, <1>10 DEF CopyPacketEnds, P, Receiving, Wanted
  <2> QED BY <1>5, <1>10, <2>1, CongBlock DEF CopyPacketEnds, P
<1>11. CASE RecvExpected
  <2>1. Received /\ Expected(packet') /\ netrd_ia = 0 BY <1>11 DEF RecvExpected, P, Types
  <2> QED BY <1>1, <1>6, <1>11, <2>1 DEF RecvExpected, P, Expected
<1>12. CASE RecvGap
  BY <1>0, <1>12, Expectation DEF RecvGap, P
<1>13. CASE RecvJump
  BY <1>0, <1>13, Expectation DEF RecvJump, P
<1>14. CASE RecvKilled
  BY <1>1, <1>4, <1>14 DEF RecvKilled, P, Killed, Receiving
<1>15. CASE Fill BY <1>1, <1>15 DEF Fill
<1>16. CASE Filled BY <1>1, <1>16 DEF Filled, P
<1>17. CASE Exit BY <1>1, <1>4, <1>17 DEF Exit, P, place, Receiving
<1>18. CASE End BY <1>1, <1>4, <1>18 DEF End, P, place, Receiving
<1> QED BY <1>7, <1>8, <1>9, <1>10, <1>11, <1>12, <1>13, <1>14, <1>15, <1>16, <1>17, <1>18
        DEF Slave

LEMMA NextOrder ==
  ASSUME IInv, [Next]_vars
  PROVE  InOrder'
<1>1. ASSUME UNCHANGED <<format, master, wire, pc, place, faults>>,
             kill_all_flag => kill_all_flag'
      PROVE  InOrder'
  <2> SUFFICES ASSUME faults' = 0, format' # "fft1" PROVE InOrder' BY DEF InOrder
  <2>1. Receiving' => Receiving BY <1>1 DEF Receiving
  <2>2. Sending' /\ Chained' BY <1>1, QuietOrder DEF IInv
  <2>3. Awaited => Awaited' BY <1>1 DEF Awaited, Ahead, Wanted, master, place, Next16
  <2> QED BY <1>1, <2>1, <2>2, <2>3 DEF IInv, InOrder, place
<1>2. CASE Stop BY <1>1, <1>2 DEF Stop, env
<1>3. CASE KillAll BY <1>1, <1>3 DEF KillAll, env
<1>4. CASE UNCHANGED vars BY <1>1, <1>4 DEF vars
<1> QED BY <1>2, <1>3, <1>4, MasterOrder, NetworkOrder, SlaveOrder DEF Next

\* While no packet is lost, doubled or moved, whatever the sizes of blocks and
\* packets and wherever in the stream the slave has come in, each sample gets
\* to its place and no error is reported.
THEOREM StreamExact == Spec => []Exact
<1>1. Init => IInv BY InitTypes, InitOrder DEF IInv
<1>2. IInv /\ [Next]_vars => IInv' BY NextTypes, NextOrder DEF IInv
<1>3. IInv => Exact
  <2> SUFFICES ASSUME IInv, faults = 0, format # "fft1"
               PROVE  ~net_error /\ (pc = "copy" => Aligned)
    BY DEF Exact
  <2>1. ~net_error BY DEF IInv, InOrder
  <2>2. ASSUME pc = "copy" PROVE Aligned
    <3>1. Cong(packet.ptr + netrd_ia, netrd_ib) BY <2>2 DEF IInv, InOrder, Receiving
    <3> QED BY <3>1 DEF Cong, Aligned
  <2> QED BY <2>1, <2>2
<1> QED BY <1>1, <1>2, <1>3, PTL DEF Spec

-----------------------------------------------------------------------------
(* Late packets                                                             *)

\* The numbers wrap so late that a packet that is late by as much as can be
\* looks like a gap of more than two transforms.
Roomy ==
  \A f \in Formats :
    Packed[f] * (Payload * (Numbers - (Depth + MaxFaults)))
      >= Stored[f] * Limit + Stored[f] * Block

LEMMA Modulo ==
  ASSUME NEW a \in Int, NEW n \in Int, n > 0
  PROVE  \E q \in Int : a % n = a - n * q /\ a % n >= 0 /\ a % n < n
<1>1. (a \div n) \in Int /\ a = n * (a \div n) + (a % n) /\ (a % n) \in 0 .. n - 1
  OBVIOUS
<1> QED BY <1>1

\* Behind by k is ahead by the rest of the circle.
LEMMA Circle ==
  ASSUME NEW a \in Int, NEW n \in Int, n > 0, a % n > 0
  PROVE  (-a) % n = n - (a % n)
<1>1. PICK q \in Int : a % n = a - n * q /\ a % n < n BY Modulo
<1>2. PICK r \in Int : (-a) % n = -a - n * r /\ (-a) % n >= 0 /\ (-a) % n < n BY Modulo
<1> DEFINE x == a % n  y == (-a) % n
<1>3. x \in Int /\ y \in Int /\ x + y = n * (-(q + r)) BY <1>1, <1>2
<1>4. x > 0 /\ x < n /\ y >= 0 /\ y < n BY <1>1, <1>2
<1> HIDE DEF x, y
<1> DEFINE z == -(q + r)
<1>5. z \in Int /\ n * z > 0 /\ n * z < 2 * n BY <1>1, <1>2, <1>3, <1>4
<1> HIDE DEF z
<1>6. z > 0
  <2>1. SUFFICES ASSUME z <= 0 PROVE FALSE BY <1>5
  <2>2. n * z <= 0 BY <1>5, <2>1
  <2> QED BY <1>5, <2>2
<1>7. z < 2
  <2>1. SUFFICES ASSUME z >= 2 PROVE FALSE BY <1>5
  <2>2. n * z >= 2 * n BY <1>5, <2>1
  <2> QED BY <1>5, <2>2
<1>8. z = 1 BY <1>5, <1>6, <1>7
<1>9. x + y = n BY <1>3, <1>8 DEF z
<1> QED BY <1>3, <1>9 DEF x, y

LEMMA LateStep ==
  ASSUME Types, Roomy, RecvGap, Late(packet')
  PROVE  FALSE
<1>1. /\ Numbers \in Nat /\ Numbers > 0 /\ Payload \in Nat /\ Block \in Nat /\ Limit \in Nat
      /\ Depth \in Nat /\ MaxFaults \in Nat /\ format \in Formats
      /\ netrd_ib \in 0 .. Block - 1 /\ block_cnt \in 0 .. Numbers - 1
  BY NetStreamAssumption DEF Types, TypeOK
<1>2. packet'.no \in 0 .. Numbers - 1 /\ packet'.ptr \in 0 .. Block - 1
  <2>1. packet' \in Packet BY HeadTail DEF RecvGap, Received, Types, TypeOK
  <2> QED BY <2>1 DEF Packet
<1> DEFINE a == Next16(block_cnt) - packet'.no
           d == (packet'.no - Next16(block_cnt)) % Numbers
<1>3. Next16(block_cnt) \in 0 .. Numbers - 1 BY <1>1, NumberStep
<1>4. a \in Int /\ a % Numbers > 0 /\ a % Numbers <= Depth + MaxFaults
  BY <1>1, <1>2, <1>3 DEF Late
<1>5. packet'.no - Next16(block_cnt) = -a BY <1>2, <1>3
<1>6. d = Numbers - (a % Numbers) BY <1>1, <1>4, <1>5, Circle
<1>7. a % Numbers \in Int BY <1>1, <1>4
<1> HIDE DEF a
<1>8. d \in Int /\ d >= Numbers - (Depth + MaxFaults) BY <1>1, <1>4, <1>6, <1>7
<1> HIDE DEF d
<1>9. Distance(packet') = Packed[format] * Payload * d + Stored[format] * (packet'.ptr - netrd_ib)
  BY DEF Distance, d
<1>10. Payload * d >= Payload * (Numbers - (Depth + MaxFaults))
  <2> DEFINE m == Numbers - (Depth + MaxFaults)
  <2>1. m \in Int /\ d >= m BY <1>1, <1>8
  <2> HIDE DEF m
  <2>2. Payload * (d - m) >= 0 BY <1>1, <1>8, <2>1
  <2>3. Payload * (d - m) = Payload * d - Payload * m BY <1>1, <1>8, <2>1
  <2>4. Payload * d \in Int /\ Payload * m \in Int BY <1>1, <1>8, <2>1
  <2>5. Payload * d >= Payload * m BY <2>2, <2>3, <2>4
  <2> QED BY <2>5 DEF m
<1> DEFINE x == Payload * d  y == Payload * (Numbers - (Depth + MaxFaults))
           p == packet'.ptr - netrd_ib
<1>11. x \in Int /\ y \in Int /\ x >= y /\ p \in Int /\ p > -Block
  BY <1>1, <1>2, <1>8, <1>10
<1>12. Packed[format] * Payload * d = Packed[format] * x BY <1>1, <1>8, Widths
<1>13. Packed[format] * y >= Stored[format] * Limit + Stored[format] * Block
  BY <1>1 DEF Roomy
<1> HIDE DEF x, y, p
<1>14. Packed[format] * x + Stored[format] * p >= Stored[format] * Limit
  BY <1>1, <1>11, <1>13, Widths
<1>15. Packed[format] * Payload * d + Stored[format] * (packet'.ptr - netrd_ib) >= Limit * Stored[format]
  BY <1>1, <1>11, <1>12, <1>14, Widths DEF p
<1>16. Distance(packet') < Limit * Stored[format] BY DEF RecvGap
<1>17. Distance(packet') \in Int
  <2>1. Packed[format] * x \in Int /\ Stored[format] * p \in Int
    BY <1>1, <1>11, Widths
  <2>2. Distance(packet') = Packed[format] * x + Stored[format] * p
    BY <1>9, <1>12 DEF p
  <2> QED BY <2>1, <2>2
<1>18. Limit * Stored[format] \in Int BY <1>1, Widths
<1> QED BY <1>9, <1>15, <1>16, <1>17, <1>18

\* Zeros are never filled in for a packet that is late, whatever was lost,
\* doubled or moved before.
THEOREM LateIgnored == ASSUME Roomy PROVE Spec => LateNotFilled
<1>1. Types /\ [Next]_vars => Types' BY NextTypes
<1>2. Types /\ [Next]_vars => [pc = "recv" /\ pc' = "fill" => ~Late(packet')]_vars
  <2> SUFFICES ASSUME Types, Next, pc = "recv", pc' = "fill", Late(packet')
               PROVE  FALSE
    OBVIOUS
  <2>1. RecvGap
    BY DEF Next, Master, Pack, SendRaw, SendFft1, SendBaseb, SendTimf2, Send, Network, Lose,
           Double, Swap, Fault, Slave, First, Top, CopyBlockEnds, CopyPacketEnds, RecvExpected,
           RecvJump, RecvKilled, Fill, Filled, Exit, End, P, Stop, KillAll
  <2> QED BY <2>1, LateStep
<1> QED BY InitTypes, <1>1, <1>2, PTL DEF Spec, LateNotFilled
=============================================================================
