----------------------------- MODULE Fft1Stream -----------------------------
(***************************************************************************)
(* What the first FFT promises to the rest of the receiver: the transforms *)
(* of the input blocks, each one once, in the order of the input, with at  *)
(* most Depth blocks under way and none of them kept back for ever.  Input *)
(* is dropped only between two runs of blocks: while nothing is under way. *)
(***************************************************************************)
EXTENDS Naturals, Sequences, Fft1Ring

CONSTANTS Length,  \* blocks in the input ring
          Depth

VARIABLES next,    \* position of the next input block
          queue,   \* blocks under way, oldest first
          shown    \* the transform made visible last

vars == <<next, queue, shown>>

Init == next \in Positions(Length) /\ queue = <<>> /\ shown = Length

Drop == /\ queue = <<>>
        /\ next' \in Positions(Length)
        /\ UNCHANGED <<queue, shown>>

HandOut == /\ Len(queue) < Depth
           /\ queue' = Append(queue, next)
           /\ next' = NextPos(next, Length)
           /\ UNCHANGED shown

Show == /\ queue # <<>>
        /\ shown' = Head(queue)
        /\ queue' = Tail(queue)
        /\ UNCHANGED next

Next == Drop \/ HandOut \/ Show

Spec == Init /\ [][Next]_vars /\ WF_vars(Show)
=============================================================================
