------------------------------ MODULE NetStream ------------------------------
(***************************************************************************)
(* The data stream between two Linrads: finish_rx_read of the master       *)
(* (rxin.c) packs what it has read into multicast packets, the input       *)
(* thread of the slave (network.c) puts the packets together again.        *)
(*                                                                         *)
(* A packet has a number of 16 bits and the position of its first sample   *)
(* in the master's block.  The slave counts packets and samples; when a    *)
(* packet is not the one it expects it fills a short gap with zeros, or    *)
(* else goes on from where the packet says.  Nothing is ever sent again.   *)
(*                                                                         *)
(* The unit of all positions is one sample.                                *)
(***************************************************************************)
EXTENDS Integers, SequencesExt

CONSTANTS
  Formats,       \* formats that may be sent
  Block,         \* samples of a block: block_bytes, fft1_block
  Payload,       \* samples of a packet: NET_MULTICAST_PAYLOAD
  Limit,         \* a gap of this size is not filled: two transforms
  Numbers,       \* packet numbers: 2^16
  Depth,         \* bound: packets on their way
  MaxFaults,     \* bound: packets lost, doubled or out of order
  Disturbances   \* "raw24": packets may be lost in the formats of 24 bits, too

AllFormats == {"raw16", "raw18", "raw24", "fft1", "baseb", "basebraw", "timf2"}

ASSUME NetStreamAssumption ==
  /\ Formats \subseteq AllFormats
  /\ Block \in Nat \ {0} /\ Payload \in Nat \ {0}
  /\ Limit \in Nat /\ Numbers \in Nat \ {0} /\ Depth \in Nat /\ MaxFaults \in Nat
  /\ Disturbances \subseteq {"raw24"}

VARIABLES
  format,        \* what is sent
  j,             \* position in the master's block
  netsend_ptr,   \* samples in the packet that is being filled
  next_blkptr,   \* position of its first sample
  blknum,        \* number of the last packet
  wire,          \* packets on their way
  pc,            \* where the slave's input thread is
  packet,        \* the packet it has received last
  netrd_ia,      \* its position in the packet
  netrd_ib,      \* its position in the block
  block_cnt,     \* the number it expects the packet to have
  left,          \* samples of the gap that are still to be filled
  cmd, kill_all_flag,
  faults,        \* packets lost, doubled or moved
  net_error      \* net_input_error has been called

master == <<j, netsend_ptr, next_blkptr, blknum>>
place  == <<packet, netrd_ia, netrd_ib, block_cnt, left, net_error>>
env    == <<format, faults>>
vars   == <<format, master, wire, pc, place, cmd, kill_all_flag, faults>>

Packet == [no : 0 .. Numbers - 1, ptr : 0 .. Block - 1]

\* Bytes of a sample in a packet, and in the block (18 bits are packed in both).
Packed == [f \in AllFormats |-> CASE f \in {"raw24", "basebraw"} -> 3
                                  [] f = "fft1" -> 1 [] f = "timf2" -> 4 [] OTHER -> 2]
Stored == [f \in AllFormats |-> CASE f \in {"raw24", "basebraw", "timf2"} -> 4
                                  [] f = "fft1" -> 1 [] OTHER -> 2]

\* Samples written for each one of the gap: the gap is counted in bytes (in
\* floats for fft1), and each turn of the loop writes two bytes (one float).
Turns == [f \in AllFormats |-> IF f = "fft1" THEN 1 ELSE 2]

\* The loop for 24 bits does not count.
Endless == format \in {"raw24", "basebraw"}

TypeOK ==
  /\ format \in Formats
  /\ j \in 0 .. Block - 1 /\ next_blkptr \in 0 .. Block - 1
  /\ netsend_ptr \in 0 .. Payload - 1 /\ blknum \in 0 .. Numbers - 1
  /\ wire \in Seq(Packet) /\ Len(wire) <= Depth + faults
  /\ pc \in {"start", "top", "copy", "recv", "fill", "exit", "returned", "ended"}
  /\ packet \in Packet
  /\ netrd_ia \in 0 .. Payload /\ netrd_ib \in 0 .. Block - 1
  /\ block_cnt \in 0 .. Numbers - 1 /\ left \in 0 .. 2 * Limit
  /\ cmd \in {"ACTIVE", "KILL", "NOT_ACTIVE"} /\ kill_all_flag \in BOOLEAN
  /\ faults \in 0 .. MaxFaults /\ net_error \in BOOLEAN

\* The slave joins when the master has just sent a packet.
Init ==
  /\ format \in Formats
  /\ j \in {(k * Payload) % Block : k \in 0 .. Block - 1} /\ next_blkptr = j
  /\ netsend_ptr = 0 /\ blknum \in 0 .. Numbers - 1
  /\ wire = <<>>
  /\ pc = "start" /\ packet = [no |-> 0, ptr |-> 0]
  /\ netrd_ia = 0 /\ netrd_ib = 0 /\ block_cnt = 0 /\ left = 0
  /\ cmd = "ACTIVE" /\ kill_all_flag = FALSE
  /\ faults = 0 /\ net_error = FALSE

Next16(n) == IF n = Numbers - 1 THEN 0 ELSE n + 1
-----------------------------------------------------------------------------
(* The master                                                               *)

\* The end of the block, and of finish_rx_read, comes before that of the packet.
Pack ==
  /\ Block - j < Payload - netsend_ptr
  /\ netsend_ptr' = netsend_ptr + (Block - j) /\ j' = 0
  /\ UNCHANGED <<next_blkptr, blknum, env, wire, pc, place, cmd, kill_all_flag>>

\* The packet is full and is sent with the position ptr.
Send(ptr, next) ==
  /\ Payload - netsend_ptr <= Block - j
  /\ Len(wire) < Depth
  /\ j' = next
  /\ netsend_ptr' = 0 /\ next_blkptr' = next /\ blknum' = Next16(blknum)
  /\ wire' = Append(wire, [no |-> Next16(blknum), ptr |-> ptr])
  /\ UNCHANGED <<env, pc, place, cmd, kill_all_flag>>

\* Mutant: the end of the block is not taken for the begin of the next one.
AfterPacketNoWrap ==
  IF j + (Payload - netsend_ptr) > Block THEN 0 ELSE j + (Payload - netsend_ptr)

\* Position after the samples of this packet, in this block or the next.
AfterPacket ==
  IF j + (Payload - netsend_ptr) >= Block THEN 0 ELSE j + (Payload - netsend_ptr)

SendRaw   == format \in {"raw16", "raw18", "raw24"} /\ Send(next_blkptr, AfterPacket)
SendFft1  == format = "fft1" /\ Send(next_blkptr, AfterPacket)
SendBaseb == format \in {"baseb", "basebraw"} /\ Send(next_blkptr, AfterPacket)

\* This packet has the position of its end.
SendTimf2 == format = "timf2" /\ Send(AfterPacket, AfterPacket)

Master == Pack \/ SendRaw \/ SendFft1 \/ SendBaseb \/ SendTimf2
-----------------------------------------------------------------------------
(* The network: chk_send gives up, and UDP does what it may                 *)

Fault ==
  /\ faults < MaxFaults /\ faults' = faults + 1
  /\ ~Endless \/ "raw24" \in Disturbances
  /\ UNCHANGED <<format, master, pc, place, cmd, kill_all_flag>>

Lose   == Fault /\ \E k \in DOMAIN wire : wire' = RemoveAt(wire, k)
Double == Fault /\ \E k \in DOMAIN wire : wire' = InsertAt(wire, k, wire[k])
Swap   == Fault /\ \E k \in 1 .. Len(wire) - 1 :
            wire' = [wire EXCEPT ![k] = wire[k + 1], ![k + 1] = wire[k]]

Network == Lose \/ Double \/ Swap
-----------------------------------------------------------------------------
(* The slave: thread_rx_raw_netinput and thread_rx_fft1_netinput            *)

P(from, to) == pc = from /\ pc' = to
others == <<env, master, cmd, kill_all_flag>>

\* lir_netread_rxin waits for a packet or the end of the program.
Received == wire # <<>> /\ packet' = Head(wire) /\ wire' = Tail(wire)
Killed   == kill_all_flag /\ UNCHANGED <<packet, wire>>

\* The first packet says where its samples belong, but not to fft1.
First ==
  /\ P("start", "top") /\ (Received \/ Killed)
  /\ netrd_ib' = IF format = "fft1" THEN 0 ELSE packet'.ptr
  /\ netrd_ia' = 0 /\ block_cnt' = packet'.no
  /\ UNCHANGED <<others, left, net_error>>

\* Mutant: only the end of the program is looked at.
TopIgnoresCommand ==
  /\ P("top", IF ~kill_all_flag THEN "copy" ELSE "exit")
  /\ UNCHANGED <<others, wire, place>>

Top ==
  /\ P("top", IF cmd = "ACTIVE" /\ ~kill_all_flag THEN "copy" ELSE "exit")
  /\ UNCHANGED <<others, wire, place>>

\* A block is complete: finish_rx_read, or the next transform for fft1.
CopyBlockEnds ==
  /\ P("copy", "top") /\ Block - netrd_ib <= Payload - netrd_ia
  /\ netrd_ia' = netrd_ia + (Block - netrd_ib) /\ netrd_ib' = 0
  /\ UNCHANGED <<others, wire, packet, block_cnt, left, net_error>>

CopyPacketEnds ==
  /\ P("copy", "recv") /\ Payload - netrd_ia < Block - netrd_ib
  /\ netrd_ib' = netrd_ib + (Payload - netrd_ia) /\ netrd_ia' = 0
  /\ UNCHANGED <<others, wire, packet, block_cnt, left, net_error>>

\* Mutant: the numbers are subtracted the other way round.
DistanceReversed(p) ==
  Packed[format] * Payload * ((Next16(block_cnt) - p.no) % Numbers)
    + Stored[format] * (p.ptr - netrd_ib)

\* The distance from what is expected to a packet: of the numbers, taken as
\* unsigned, and of the positions.
Distance(p) ==
  Packed[format] * Payload * ((p.no - Next16(block_cnt)) % Numbers)
    + Stored[format] * (p.ptr - netrd_ib)

Expected(p) == p.no = Next16(block_cnt) /\ p.ptr = netrd_ib

RecvExpected ==
  /\ P("recv", "copy") /\ Received /\ Expected(packet')
  /\ block_cnt' = packet'.no
  /\ UNCHANGED <<others, netrd_ia, netrd_ib, left, net_error>>

\* A short gap: to be filled, also when the numbers agree.
RecvGap ==
  /\ P("recv", "fill") /\ Received /\ ~Expected(packet')
  /\ LET i == Distance(packet')
     IN  /\ i > 0 /\ i < Limit * Stored[format]
         /\ left' = IF Endless THEN 1 ELSE (i * Turns[format]) \div Stored[format]
  /\ block_cnt' = Next16(block_cnt) /\ net_error' = TRUE
  /\ UNCHANGED <<others, netrd_ia, netrd_ib>>

\* Mutant: the count goes on from the packet, and the position does not.
RecvJumpKeepsPlace ==
  /\ P("recv", "copy") /\ Received /\ ~Expected(packet')
  /\ ~ (Distance(packet') > 0 /\ Distance(packet') < Limit * Stored[format])
  /\ block_cnt' = packet'.no /\ net_error' = TRUE
  /\ UNCHANGED <<others, netrd_ia, netrd_ib, left>>

\* A long one, or a packet that is late: go on from there.
RecvJump ==
  /\ P("recv", "copy") /\ Received /\ ~Expected(packet')
  /\ ~ (Distance(packet') > 0 /\ Distance(packet') < Limit * Stored[format])
  /\ block_cnt' = packet'.no /\ netrd_ib' = packet'.ptr /\ net_error' = TRUE
  /\ UNCHANGED <<others, netrd_ia, left>>

RecvKilled ==
  /\ P("recv", "exit") /\ Killed
  /\ UNCHANGED <<others, netrd_ia, netrd_ib, block_cnt, left, net_error>>

\* Mutant: the end of the block is seen one sample too late.
FillPastBlock ==
  /\ pc = "fill" /\ left > 0
  /\ left' = IF Endless THEN left ELSE left - 1
  /\ netrd_ib' = IF netrd_ib + 1 > Block THEN 0 ELSE netrd_ib + 1
  /\ IF netrd_ia + 1 = Payload
     THEN netrd_ia' = 0 /\ block_cnt' = Next16(block_cnt)
     ELSE netrd_ia' = netrd_ia + 1 /\ UNCHANGED block_cnt
  /\ UNCHANGED <<others, wire, pc, packet, net_error>>

\* One sample of zeros; packets and blocks are counted on the way.
Fill ==
  /\ pc = "fill" /\ left > 0
  /\ left' = IF Endless THEN left ELSE left - 1
  /\ netrd_ib' = IF netrd_ib + 1 = Block THEN 0 ELSE netrd_ib + 1
  /\ IF netrd_ia + 1 = Payload
     THEN netrd_ia' = 0 /\ block_cnt' = Next16(block_cnt)
     ELSE netrd_ia' = netrd_ia + 1 /\ UNCHANGED block_cnt
  /\ UNCHANGED <<others, wire, pc, packet, net_error>>

Filled ==
  /\ P("fill", "copy") /\ left = 0
  /\ UNCHANGED <<others, wire, place>>

Exit ==
  /\ P("exit", "returned")
  /\ UNCHANGED <<others, wire, place>>

End ==
  /\ P("returned", "ended") /\ cmd = "NOT_ACTIVE"
  /\ UNCHANGED <<others, wire, place>>

Slave ==
  \/ First \/ Top \/ CopyBlockEnds \/ CopyPacketEnds \/ RecvExpected \/ RecvGap
  \/ RecvJump \/ RecvKilled \/ Fill \/ Filled \/ Exit \/ End
-----------------------------------------------------------------------------
(* The others                                                               *)

\* X, when all threads run: linrad_thread_stop_and_join.
Stop ==
  /\ \/ cmd = "ACTIVE" /\ cmd' = "KILL"
     \/ cmd = "KILL" /\ pc = "returned" /\ cmd' = "NOT_ACTIVE"
  /\ UNCHANGED <<env, master, wire, pc, place, kill_all_flag>>

KillAll ==
  /\ ~kill_all_flag /\ kill_all_flag' = TRUE
  /\ UNCHANGED <<env, master, wire, pc, place, cmd>>

Next == Master \/ Network \/ Slave \/ Stop \/ KillAll

Spec == Init /\ [][Next]_vars

\* Both programs run.  With a master that has stopped X would wait for ever.
FairSpec == Spec /\ WF_vars(Master) /\ WF_vars(Slave)
-----------------------------------------------------------------------------
(* Properties                                                               *)

\* Each sample that is copied gets the place in the block that it had.
Aligned == ((packet.ptr + netrd_ia) - netrd_ib) % Block = 0

\* While no packet is lost, doubled or moved, each sample comes to its place,
\* and net_input_error (network.c:432) is not called; fft1 has to be lucky
\* with its first packet.
Exact ==
  faults = 0 /\ format # "fft1" =>
    ~net_error /\ (pc = "copy" => Aligned)

\* A packet that is late is not taken for a gap of almost 65536 packets, and
\* nothing is filled in for it.
Late(p) == (Next16(block_cnt) - p.no) % Numbers \in 1 .. Depth + MaxFaults
LateNotFilled == [][pc = "recv" /\ pc' = "fill" => ~Late(packet')]_vars

\* The slave finds back: from some time on after the last fault each sample
\* comes to its place.
Recovers == <>[](pc = "copy" => Aligned)

\* X and ESC end the thread.
StopReturns == cmd = "KILL" \/ kill_all_flag ~> pc \in {"returned", "ended"}

\* "Fill in zeroes and update pointers" (network.c:1059) comes to an end.
FillEnds == pc = "fill" ~> pc # "fill"
=============================================================================
