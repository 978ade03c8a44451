---------------------------- MODULE MCIsoTpPair ----------------------------
(* Frames of 4 bytes.  The first request is segmented (FF and two CFs), the  *)
(* next ones too or single; every response is segmented.  One side grants    *)
(* all CFs at once (BS 0, STmin 0: diag_app.c:335-336), the other one at a   *)
(* time, with a pause (the self-test link has BS 2 and STmin 1) or without.  *)
(* Frames are lost, or delayed beyond every timeout.                         *)
EXTENDS IsoTpPair

Granting(bs, stMin) == [blockSize |-> bs, stMin |-> stMin, rxSize |-> 9, txSize |-> 9]

MCSetups ==
    {[cfg |-> [tester |-> Granting(1, 1), ecu |-> Granting(0, 0)], losses |-> 0, prompt |-> FALSE],
     [cfg |-> [tester |-> Granting(0, 0), ecu |-> Granting(1, 0)], losses |-> 3, prompt |-> TRUE]}

MCRequests == <<7, 8, 2>>
MCResponses == <<7, 5, 8>>
=============================================================================
