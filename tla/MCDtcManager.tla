---------------------------- MODULE MCDtcManager ----------------------------
(* Two DTCs: one confirmed by its second failure in a row, one with the     *)
(* unset threshold 0.  FailMax = 2 makes failCount saturate, as 0xFF does.  *)
EXTENDS DtcManager, TLC

MCThreshold == 0 :> 2 @@ 1 :> 0

\* The query, as the code computes it, lists what it should, whatever the table.
ASSUME QueryMeaning ==
    \A st \in [Index -> SUBSET {"TF", "CDTC", "WIR"}], mask \in SUBSET {"TF", "CDTC", "WIR"} :
        Lists(st, GetByStatusMask(st, mask, Count), mask, Count)
=============================================================================
