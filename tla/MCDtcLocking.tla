---------------------------- MODULE MCDtcLocking ----------------------------
(* The monitor task reports and queries, the receive task clears, queries   *)
(* and starts cycles: the callers in control_app.c, diag_app.c and          *)
(* uds_server.c.                                                            *)
EXTENDS DtcLocking, TLC

CONSTANTS monitor, comRx

MCTasks == {monitor, comRx}
MCThreshold == 0 :> 2 @@ 1 :> 0
MCCalls ==
    monitor :> Reports
               \union {[name |-> "GetByStatusMask", mask |-> {"CDTC"}, maxRecords |-> Count]}
    @@ comRx :> Queries \union {[name |-> "StartOperationCycle"], [name |-> "ClearAll"]}
=============================================================================
