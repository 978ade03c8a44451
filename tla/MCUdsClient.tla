---------------------------- MODULE MCUdsClient ----------------------------
EXTENDS UdsClient, TLC

\* The table of the server.
MCDidLength == (<<241, 149>> :> 10) @@ (<<1, 0>> :> 2) @@ (<<1, 1>> :> 1)
MCThreshold == (0 :> 1) @@ (1 :> 2)
MCVersion == <<67, 84, 82, 76, 45, 48, 46, 51, 46, 48>>
MCSpeed == <<1, 1>>     \* the data of one DID looks like the name of another
Unknown == DidSpec(<<18, 52>>, 1)

AllCalls ==
    {startSession(1), startSession(3), ecuReset(1), ecuReset(3), clearAllDtcs,
     testerPresent, testerPresentSuppressed, readDtcCount({"TF"}), readDtcs({"CDTC", "TF"}),
     Functional(unknownService), readDids(<<kAllDids[2], Unknown, kAllDids[3]>>),
     readDids(<<kAllDids[3], kAllDids[2], kAllDids[2]>>)}

SomeCalls ==
    {startSession(3), ecuReset(1), testerPresentSuppressed, readDtcCount({"TF"}),
     Functional(unknownService), readDids(<<kAllDids[2], Unknown, kAllDids[3]>>)}

Simulated(steps, n) ==
    [simulated |-> TRUE, prompt |-> TRUE, losses |-> 0, reports |-> 3,
     calls |-> AllCalls, maxCalls |-> n, scenario |-> steps]
Remote(inTime, n, lost) ==
    [simulated |-> FALSE, prompt |-> inTime, losses |-> lost, reports |-> 0,
     calls |-> SomeCalls, maxCalls |-> n, scenario |-> <<>>]
Scenarios == runRegressionScenario \o runResetScenario

MCSetups ==
    {Simulated(<<>>, 3), Simulated(Scenarios, 0), Remote(TRUE, 3, 1), Remote(FALSE, 2, 1),
     [Remote(TRUE, 0, 0) EXCEPT !.reports = 2, !.scenario = Scenarios]}
=============================================================================
