----------------------------- MODULE MCTesterApp -----------------------------
(* Frames of 4 bytes and a ring of 3 slots, so that one response of three     *)
(* frames and a late answer overflow it.  One sequence has a segmented answer *)
(* and a step with a delay, the other the functional steps of key 'f'.  A     *)
(* unit of time is half a RESPONSE_TIMEOUT_MS.                               *)
EXTENDS TesterApp, TLC

MCConfig == [blockSize |-> 0, stMin |-> 0, rxSize |-> 9, txSize |-> 9]

StepOf(req, expect, delay, functional) ==
    [req |-> req, expect |-> expect, delay |-> delay, functional |-> functional]

MCTestSequences ==
    {<<StepOf("version", "version", 0, FALSE), StepOf("present", "present", 1, FALSE),
       StepOf("version", "version", 0, FALSE)>>,
     <<StepOf("present", "present", 0, TRUE), StepOf("bad", None, 0, TRUE)>>}

Answer(kind, length) == [kind |-> kind, length |-> length]
MCAnswers ==
    <<"version", FALSE>> :> {Answer("version", 7), Answer("nrc", 3), Silent}
    @@ <<"present", FALSE>> :> {Answer("present", 2), Silent}
    @@ <<"present", TRUE>> :> {Answer("present", 2), Silent}
    @@ <<"bad", TRUE>> :> {Answer("nrc", 3), Silent}

MCSetups == {[prompt |-> TRUE, losses |-> 1, starts |-> 2],
             [prompt |-> FALSE, losses |-> 1, starts |-> 1]}
=============================================================================
