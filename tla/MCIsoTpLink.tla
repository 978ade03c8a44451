---------------------------- MODULE MCIsoTpLink ----------------------------
(* Frames of 4 bytes (SF up to 3 bytes, FF 2, CF 3) and 4 sequence numbers:  *)
(* a message of 15 bytes needs 5 CFs, enough for the numbers to wrap and for  *)
(* three blocks, in both directions; 16 bytes overflow the buffers.           *)
EXTENDS IsoTpLink

Bytes(n) == [k \in 1 .. n |-> Pad]
AnyDlc == {0, 1, 3, CanDl, CanDl + 1}
MCCfg == [blockSize |-> 2, stMin |-> 1, rxSize |-> 15, txSize |-> 15]

MCFrames ==
    [pci : {"SF"}, dlc : AnyDlc, length : {0, 2, 3, 5}, data : {Bytes(SfMax)}]
    \union [pci : {"FF"}, dlc : {3, CanDl}, length : {3, 4, 15, 16}, data : {Bytes(FfData)}]
    \union [pci : {"CF"}, dlc : {2, CanDl}, sn : 0 .. SeqMod - 1, data : {Bytes(CfMax)}]
    \union [pci : {"FC"}, dlc : {2, CanDl}, status : {"CTS", "WAIT", "OVFLW", "reserved"},
            bs : {0, 2}, stMin : {0, 241}]
    \union [pci : {"reserved"}, dlc : {CanDl}]
=============================================================================
