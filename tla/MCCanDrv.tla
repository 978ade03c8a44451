------------------------------ MODULE MCCanDrv ------------------------------
(* The delay of the code, 10 calls, and the FIFO of the controller, 3 frames. *)
(* Three bus-offs: one alone, one in the delay that its rejoining starts, and *)
(* one more on top.                                                          *)
EXTENDS CanDrv
=============================================================================
