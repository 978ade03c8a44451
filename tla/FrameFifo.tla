------------------------------ MODULE FrameFifo ------------------------------
(***************************************************************************)
(* What the tester expects of the ring between the receive interrupt and   *)
(* its main loop (tester_app.c:409-437): a bounded FIFO that hands out one *)
(* frame at a time and leaves that frame alone until it is done with.      *)
(***************************************************************************)
EXTENDS Naturals, Sequences

CONSTANTS
    Capacity    \* frames that wait at most

VARIABLES
    waiting,    \* frames accepted and not handed out, in order of arrival
    given       \* the frame being processed: a sequence of one, or empty

vars == <<waiting, given>>

Init == waiting = <<>> /\ given = <<>>

Put ==
    /\ Len(waiting) < Capacity
    /\ Len(waiting') = Len(waiting) + 1
    /\ SubSeq(waiting', 1, Len(waiting)) = waiting
    /\ UNCHANGED given

Get ==
    /\ given = <<>> /\ waiting /= <<>>
    /\ given' = <<Head(waiting)>> /\ waiting' = Tail(waiting)

Done == given /= <<>> /\ given' = <<>> /\ UNCHANGED waiting

Next == Put \/ Get \/ Done
Spec == Init /\ [][Next]_vars
=============================================================================
