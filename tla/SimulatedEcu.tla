----------------------------- MODULE SimulatedEcu -----------------------------
(***************************************************************************)
(* The host-side Control ECU (src/tester/src/simulated_ecu.cpp): the UDS   *)
(* server and the DTC manager of common/ behind ITransport, as operators   *)
(* on their joint state, the record [server, status, failCount, faults].   *)
(*                                                                         *)
(* A response is [type |-> "pos", sid, body] or [type |-> "neg", sid, nrc].*)
(* body is what follows the first byte; a DTC record keeps its four places,*)
(* with the table index for each byte of the code and the set of bits for  *)
(* the status.  A DID is the pair of its bytes.                            *)
(***************************************************************************)
EXTENDS UdsServer, SequencesExt

CONSTANTS
    Threshold,    \* confirm threshold of each DTC
    FailMax,      \* largest value of failCount
    Version,      \* kVersion, a sequence of bytes
    Speed,        \* m_speedX10, two bytes
    None

Dtc == INSTANCE DtcManager WITH
           Count <- DtcCount, MaxResults <- 0, MaxCycle <- 0,
           status <- None, failCount <- None, cycle <- None, log <- None

kDidSoftwareVersion == <<241, 149>>
kDidVehicleSpeed    == <<1, 0>>
kDidActiveFaults    == <<1, 1>>

\* powerOn: everything the restart resets.
powerOn ==
    [server |-> InitialServer,
     status |-> [i \in Dtc!Index |-> Dtc!StatusInitial],
     failCount |-> [i \in Dtc!Index |-> 0],
     faults |-> [i \in Dtc!Index |-> FALSE]]

reportMonitor(ecu, i, failed) ==
    [ecu EXCEPT !.faults[i] = failed,
                !.status[i] = Dtc!StatusAfterResult(i, @, ecu.failCount[i], failed),
                !.failCount[i] = Dtc!FailCountAfter(@, failed)]

advanceTime(ecu) == [ecu EXCEPT !.server = ServerMain(ServerAged(@))]

-----------------------------------------------------------------------------
(* What the services answer, beyond what UdsServer says of it.             *)

cbReadFaults(ecu) == MapThenSumSet(LAMBDA i : 2 ^ i, {i \in Dtc!Index : ecu.faults[i]})

DidData(ecu, d) ==
    CASE d = kDidSoftwareVersion -> Version
      [] d = kDidVehicleSpeed -> Speed
      [] d = kDidActiveFaults -> <<cbReadFaults(ecu)>>
      [] OTHER -> <<>>

\* A DID takes the length the table of the server gives it, whatever its read
\* function wrote (0 stands for a byte it did not).
DidBlock(ecu, d) ==
    LET data == DidData(ecu, d)
    IN  d \o [j \in 1 .. DidLength[d] |-> IF j \in DOMAIN data THEN data[j] ELSE 0]

Listed(ecu, r) == Dtc!GetByStatusMask(ecu.status, r.mask, DtcCount)

Body(ecu, r) ==
    CASE r.sid = 16 -> <<r.sub, 0, 50, 1, 244>>
      [] r.sid = 17 -> <<r.sub>>
      [] r.sid = 20 -> <<>>
      [] r.sid = 25 /\ r.sub = 1 ->
            <<1, Dtc!AvailabilityMask, 1, 0, Len(Listed(ecu, r))>>
      [] r.sid = 25 /\ r.sub = 2 ->
            <<2, Dtc!AvailabilityMask>> \o
            FlattenSeq([k \in DOMAIN Listed(ecu, r) |->
                          LET d == Listed(ecu, r)[k] IN <<d.code, d.code, d.code, d.status>>])
      [] r.sid = 34 ->
            FlattenSeq([k \in DOMAIN KnownDids(r) |-> DidBlock(ecu, KnownDids(r)[k])])
      [] r.sid = 62 -> <<0>>

\* Uds_ProcessRequest over the whole ECU: its state after the request r, and
\* the response or None.
Processed(ecu, r, functional) ==
    LET n == Len(Listed(ecu, r))
        o == ProcessRequest(ecu.server, [r EXCEPT !.matching = n, !.listed = n], functional)
    IN  [ecu |-> IF r.sid = 20 /\ o.nrc = 0
                 THEN [powerOn EXCEPT !.server = o.server, !.faults = ecu.faults]
                 ELSE [ecu EXCEPT !.server = o.server],
         response |-> IF o.length = 0 THEN None
                      ELSE IF o.nrc /= 0 THEN [type |-> "neg", sid |-> r.sid, nrc |-> o.nrc]
                      ELSE [type |-> "pos", sid |-> r.sid, body |-> Body(ecu, r)]]

\* Uds_ExecutePendingReset and what cbEcuReset asked for.
AfterReset(ecu) ==
    CASE ecu.server.pendingReset = "none" -> ecu
      [] ecu.server.pendingReset = "hard" -> powerOn
      [] ecu.server.pendingReset = "soft" ->
            [ecu EXCEPT !.server = ServerReset(@),
                        !.status = [i \in Dtc!Index |-> Dtc!StatusNextCycle(@[i])]]

\* send, for a request that is neither empty nor too long.
send(ecu, r, functional) ==
    LET p == Processed(ecu, r, functional)
    IN  [ecu |-> AfterReset(p.ecu), response |-> p.response]
=============================================================================
