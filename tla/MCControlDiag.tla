--------------------------- MODULE MCControlDiag ---------------------------
(* Frames, sequence numbers, response lengths and the reset, session and     *)
(* DID services as in the code; time in units of half an N_Bs.               *)
EXTENDS ControlDiag, TLC

MCCfg == [blockSize |-> 0, stMin |-> 0, rxSize |-> 256, txSize |-> 256]
MCDidLength == "F195" :> 10 @@ "0100" :> 2

Request(sid, length, sub, suppress) ==
    [sid |-> sid, length |-> length, sub |-> sub, suppress |-> suppress, dids |-> <<>>,
     allGroups |-> TRUE, matching |-> 2, listed |-> 2]

Default    == Request(16, 2, 1, FALSE)
Extended   == Request(16, 2, 3, FALSE)
HardReset  == Request(17, 2, 1, FALSE)
SoftReset  == Request(17, 2, 3, FALSE)
QuietReset == Request(17, 2, 3, TRUE)
Present    == Request(62, 2, 0, TRUE)
ReadVersion == [Request(34, 3, 0, FALSE) EXCEPT !.dids = <<"F195">>]
ReadUnknown == [Request(34, 3, 0, FALSE) EXCEPT !.dids = <<"1234">>]
ListDtcs   == Request(25, 3, 2, FALSE)
ClearDtcs  == Request(20, 4, 0, FALSE)

MCRequests == {Default, Extended, HardReset, SoftReset, QuietReset, Present, ReadUnknown, ListDtcs,
               ClearDtcs}
MCTruncated == {SoftReset}
MCAnswered == {Extended, SoftReset, ReadVersion}
MCHard == {Extended, HardReset}
=============================================================================
