------------------------------ MODULE TesterApp ------------------------------
(***************************************************************************)
(* The UDS tester of the Sensor ECU (tester_app.c): the receive interrupt  *)
(* puts the frames of the Control ECU into a ring, TesterApp_Task drains   *)
(* the ring into its ISO-TP link, reads a key, polls the link and runs the *)
(* steps of a test sequence, each a request and the verdict on what came   *)
(* back in time.                                                           *)
(*                                                                         *)
(* The Control ECU is external here: it answers requests in order, with    *)
(* any of the answers it may give, soon or late, or not at all.            *)
(***************************************************************************)
EXTENDS IsoTp, FiniteSets

CONSTANTS
    RingLen,          \* RING_LEN
    ResponseTimeout,  \* RESPONSE_TIMEOUT_MS
    NoResponseWait,   \* NO_RESPONSE_WAIT_MS
    Config,           \* IsoTp_Config_t of the tester's link
    TestSequences,    \* the sequences of the keys: sequences of steps
    Answers,          \* Answers[<<req, functional>>]: [kind, length] or Silent
    Setups,           \* circumstances: records [prompt, losses, starts], the last
                      \* two bounds on the frames lost and the keys pressed
    None, Silent

ASSUME TesterAssumption ==
    /\ RingLen \in Nat \ {0, 1}
    /\ ResponseTimeout \in Nat \ {0} /\ NoResponseWait \in Nat \ {0}
    /\ \A u \in Setups : u.prompt \in BOOLEAN /\ u.losses \in Nat /\ u.starts \in Nat

\* The tables of the steps are not empty, and the answers to their requests fit
\* the tester's receive buffer, which is half as long as the ECU's transmit buffer
\* (TESTER_BUFFER_SIZE 128, DIAG_BUFFER_SIZE 256).  None is no response.
ASSUME StepsAssumption ==
    /\ Config.rxSize \in Nat /\ Config.blockSize \in Nat
    /\ \A s \in TestSequences :
          Len(s) \in Nat \ {0} /\ \A k \in 1 .. Len(s) : <<s[k].req, s[k].functional>> \in DOMAIN Answers
    /\ \A q \in DOMAIN Answers : \A a \in Answers[q] :
          \/ a = Silent
          \/ /\ a.length \in 1 .. Config.rxSize
             /\ a.kind /= None /\ None \notin [id : Nat, kind : {a.kind}]

VARIABLES
    ring, head, tail,   \* s_ring, s_head, s_tail
    overflow,           \* s_ringOverflow /= 0
    pc,                 \* the next statement of TesterApp_Task
    link,               \* s_link
    resp,               \* s_resp; None stands for s_gotResp = false
    state, seq, step,   \* s_state, s_seq, s_step
    passed,             \* s_passed
    timer,              \* age of s_timer
    wire,               \* frames on their way to the tester
    ecu, ecuRest,       \* requests the ECU has not answered; CFs it may not yet send
    sent,               \* ghost: requests sent so far
    answer,             \* ghost: kind of the ECU's answer to the last one, or None
    verdict,            \* ghost: the last verdict of Finish, and what it is about
    losses, starts, setup

ringVars == <<ring, head, tail, overflow>>
stepVars == <<state, seq, step, passed, timer>>
ecuVars == <<wire, ecu, ecuRest>>
ghostVars == <<sent, answer, verdict>>
vars == <<ringVars, pc, link, resp, stepVars, ecuVars, ghostVars, losses, starts, setup>>

MaxTime ==
    LET times == {ResponseTimeout, NoResponseWait}
                 \cup UNION {{s[k].delay : k \in DOMAIN s} : s \in TestSequences}
    IN  CHOOSE t \in times : \A u \in times : u <= t

Init ==
    /\ ring = [k \in 0 .. RingLen - 1 |-> None] /\ head = 0 /\ tail = 0 /\ overflow = FALSE
    /\ pc = "test" /\ link = InitialLink /\ resp = None
    /\ state = "IDLE" /\ seq = <<>> /\ step = 1 /\ passed = 0 /\ timer = 0
    /\ wire = <<>> /\ ecu = <<>> /\ ecuRest = <<>>
    /\ sent = 0 /\ answer = None /\ verdict = None
    /\ losses = 0 /\ starts = 0 /\ setup \in Setups

-----------------------------------------------------------------------------
(* The receive interrupt.                                                  *)

\* Faulty variant: the ring is never full.
RingNeverFull == FALSE
RingFull == (head + 1) % RingLen = tail

\* TesterApp_OnCanFrameIsr with a frame of the Control ECU's responses.
OnCanFrameIsr ==
    /\ wire /= <<>>
    /\ wire' = Tail(wire)
    /\ IF RingFull
       THEN overflow' = TRUE /\ UNCHANGED <<ring, head>>
       ELSE /\ ring' = [ring EXCEPT ![head] = Head(wire)]
            /\ head' = (head + 1) % RingLen
            /\ UNCHANGED overflow
    /\ UNCHANGED <<tail, pc, link, resp, stepVars, ecu, ecuRest, ghostVars, losses, starts, setup>>

-----------------------------------------------------------------------------
(* TesterApp_Task.                                                         *)

\* What the driver may accept: when not prompt it may be busy.
Rooms == IF setup.prompt THEN {2} ELSE {0, 2}

\* The ECU gets the frames of a call: a request, or the Flow Control that lets
\* it send the rest of its response.
Deliver(out) ==
    LET asked == {k \in DOMAIN out : out[k].pci = "SF"}
        goOn  == \E k \in DOMAIN out : out[k].pci = "FC"
    IN  /\ ecu' = IF asked = {} THEN ecu
                  ELSE Append(ecu, out[CHOOSE k \in asked : TRUE].data[1])
        /\ wire' = IF goOn THEN wire \o ecuRest ELSE wire
        /\ ecuRest' = IF goOn THEN <<>> ELSE ecuRest

\* OnResponse for the calls of rxIndication; errors are only printed.
ResponseAfter(ind) ==
    LET ok == {k \in DOMAIN ind : ind[k].result = "OK"}
    IN  IF ok = {} THEN resp ELSE ind[CHOOSE k \in ok : \A j \in ok : j <= k].data[1]

\* The drain loop: test, process the frame in its slot, free the slot.
Test ==
    /\ pc = "test"
    /\ pc' = IF tail /= head THEN "take" ELSE "key"
    /\ UNCHANGED <<ringVars, link, resp, stepVars, ecuVars, ghostVars, losses, starts, setup>>

Take ==
    /\ pc = "take"
    /\ \E room \in Rooms : \E o \in {RxFrame(link, Config, ring[tail], room)} :
          link' = o.link /\ resp' = ResponseAfter(o.ind) /\ Deliver(o.out)
    /\ pc' = "advance"
    /\ UNCHANGED <<ringVars, stepVars, ghostVars, losses, starts, setup>>

Advance ==
    /\ pc = "advance"
    /\ tail' = (tail + 1) % RingLen
    /\ pc' = "test"
    /\ UNCHANGED <<ring, head, overflow, link, resp, stepVars, ecuVars, ghostVars,
                   losses, starts, setup>>

Started ==
    /\ seq' \in TestSequences
    /\ step' = 1 /\ passed' = 0 /\ state' = "DELAY" /\ timer' = 0

\* HandleKey and Start: a key while a sequence runs is refused ("busy").
HandleKey ==
    /\ pc = "key"
    /\ pc' = "poll"
    /\ \/ UNCHANGED <<stepVars, starts>>
       \/ /\ starts < setup.starts /\ starts' = starts + 1
          /\ IF state /= "IDLE" THEN UNCHANGED stepVars ELSE Started
    /\ UNCHANGED <<ringVars, link, resp, ecuVars, ghostVars, losses, setup>>

Poll ==
    /\ pc = "poll"
    /\ \E room \in Rooms : \E o \in {MainFunction(link, Config, room, room)} :
          link' = o.link /\ resp' = ResponseAfter(o.ind) /\ Deliver(o.out)
    /\ pc' = "run"
    /\ UNCHANGED <<ringVars, stepVars, ghostVars, losses, starts, setup>>

\* RunSequence: one pass of the step sequencer.
Stay == UNCHANGED <<stepVars, link, resp, ecuVars, ghostVars>>

DelayStep ==
    /\ state = "DELAY"
    /\ IF timer >= seq[step].delay
       THEN state' = "SEND" /\ UNCHANGED <<seq, step, passed, timer, link, resp, ecuVars, ghostVars>>
       ELSE Stay

\* Faulty variant: the response of the step before stays.
ClearedKept == resp
Cleared == None

\* SendStep: a functional request bypasses the link, and the driver may drop it.
SendStep ==
    LET request == [id |-> sent + 1, req |-> seq[step].req,
                    functional |-> seq[step].functional]
        msg == <<request>>
    IN  /\ state = "SEND"
        /\ IF link.tx.state /= "IDLE" THEN Stay
           ELSE /\ state' = "WAIT" /\ timer' = 0 /\ resp' = Cleared
                /\ sent' = sent + 1 /\ answer' = None
                /\ \E room \in Rooms :
                      IF seq[step].functional
                      THEN /\ UNCHANGED link
                           /\ Deliver(IF room > 0 THEN <<SingleFrame(msg)>> ELSE <<>>)
                      ELSE \E o \in {Transmit(link, msg, room)} :
                              link' = o.link /\ Deliver(o.out)
                /\ UNCHANGED <<seq, step, passed, verdict>>

\* Finish.
Finish(pass) ==
    /\ verdict' = [request |-> sent, expect |-> seq[step].expect, answer |-> answer,
                   resp |-> resp, pass |-> pass]
    /\ passed' = IF pass THEN passed + 1 ELSE passed
    /\ step' = step + 1
    /\ IF step < Len(seq) THEN state' = "DELAY" /\ timer' = 0 ELSE state' = "IDLE" /\ UNCHANGED timer
    /\ UNCHANGED <<seq, link, resp, ecuVars, sent, answer>>

\* Faulty variant: a response is waited for for ever.
WaitForResponseEver ==
    /\ state = "WAIT" /\ seq[step].expect /= None
    /\ IF resp /= None THEN Finish(resp.kind = seq[step].expect) ELSE Stay

WaitForSilence ==
    /\ state = "WAIT" /\ seq[step].expect = None
    /\ IF resp /= None THEN Finish(FALSE)
       ELSE IF timer >= NoResponseWait THEN Finish(TRUE) ELSE Stay

WaitForResponse ==
    /\ state = "WAIT" /\ seq[step].expect /= None
    /\ IF resp /= None THEN Finish(resp.kind = seq[step].expect)
       ELSE IF timer >= ResponseTimeout THEN Finish(FALSE) ELSE Stay

RunSequence ==
    /\ pc = "run"
    /\ pc' = "test"
    /\ \/ state = "IDLE" /\ Stay
       \/ DelayStep
       \/ SendStep
       \/ WaitForSilence
       \/ WaitForResponse
    /\ UNCHANGED <<ringVars, losses, starts, setup>>

TesterTask == Test \/ Take \/ Advance \/ HandleKey \/ Poll \/ RunSequence

-----------------------------------------------------------------------------
(* The Control ECU, the bus and time.                                      *)

Response(id, a) == [k \in 1 .. a.length |-> [id |-> id, kind |-> a.kind]]

\* The Consecutive Frames of the message msg.
Rests(msg) ==
    [k \in 1 .. (Len(msg) - FfData + CfMax - 1) \div CfMax |->
        ConsecutiveFrame(k % SeqMod, SubSeq(msg, 1, CfMax))]

\* The ECU answers its oldest request: a response of more than a frame begins
\* with a First Frame and goes on at the Flow Control.
EcuAnswers ==
    /\ ecu /= <<>>
    /\ ecu' = Tail(ecu)
    /\ \E a \in Answers[<<Head(ecu).req, Head(ecu).functional>>] :
         IF a = Silent THEN UNCHANGED <<wire, ecuRest, answer>>
         ELSE LET id  == Head(ecu).id
                  msg == Response(id, a)
              IN  /\ answer' = IF id = sent THEN a.kind ELSE answer
                  /\ IF a.length <= SfMax
                     THEN wire' = Append(wire, SingleFrame(msg)) /\ UNCHANGED ecuRest
                     ELSE /\ wire' = Append(wire, FirstFrame(msg))
                          /\ ecuRest' = Rests(msg)
    /\ UNCHANGED <<ringVars, pc, link, resp, stepVars, sent, verdict, losses, starts, setup>>

Lose ==
    /\ losses < setup.losses /\ wire /= <<>>
    /\ losses' = losses + 1 /\ wire' = Tail(wire)
    /\ UNCHANGED <<ringVars, pc, link, resp, stepVars, ecu, ecuRest, ghostVars, starts, setup>>

\* Nothing is under way and the main loop has only to wait.
Quiet ==
    /\ wire = <<>> /\ ecu = <<>> /\ head = tail
    /\ state = "DELAY" => timer < seq[step].delay
    /\ state /= "SEND"
    /\ state = "WAIT" =>
         resp = None /\ timer < (IF seq[step].expect = None THEN NoResponseWait ELSE ResponseTimeout)

Tick ==
    /\ setup.prompt => Quiet
    /\ timer' = Least(MaxTime, timer + 1)
    /\ link' = Aged(link)
    /\ UNCHANGED <<ringVars, pc, resp, state, seq, step, passed, ecuVars, ghostVars,
                   losses, starts, setup>>

Next == OnCanFrameIsr \/ TesterTask \/ EcuAnswers \/ Lose \/ Tick

\* The main loop runs, the interrupt is served, time passes, and the ECU
\* decides at last what to do with a request (it may decide to stay silent).
Fairness ==
    WF_vars(OnCanFrameIsr) /\ WF_vars(TesterTask) /\ WF_vars(EcuAnswers) /\ WF_vars(Tick)

Spec == Init /\ [][Next]_vars /\ Fairness

-----------------------------------------------------------------------------
(* Properties.                                                             *)

\* The slots that wait, from the tail on, without the one being processed.
Waiting ==
    LET taken == IF pc = "advance" THEN 1 ELSE 0
        used  == (head + RingLen - tail) % RingLen
    IN  [k \in 1 .. used - taken |-> ring[(tail + taken + k - 1) % RingLen]]

Fifo == INSTANCE FrameFifo WITH
            Capacity <- RingLen - 1,
            waiting  <- Waiting,
            given    <- IF pc = "advance" THEN <<ring[tail]>> ELSE <<>>

\* The ring is a FIFO of RING_LEN - 1 frames: the interrupt may come anywhere in
\* the drain loop, no frame is lost, doubled or overtaken, and the slot that
\* IsoTp_RxFrame reads through its pointer is not written meanwhile.
RingIsFifo == Fifo!Spec

\* When the ECU answers in time, a step is judged by the response to its own
\* request, or by none: never by that of the step before.  When besides no frame
\* is lost, the verdict is right: a step passes exactly if the ECU gave the answer
\* it expects, or stayed silent as it expects.
VerdictTrue ==
    setup.prompt /\ verdict /= None =>
        /\ verdict.resp /= None => verdict.resp.id = verdict.request
        /\ losses = 0 /\ ~overflow => (verdict.pass <=> verdict.answer = verdict.expect)

\* Whatever is lost, late or refused, a sequence comes to its end.
SequenceEnds == state /= "IDLE" ~> state = "IDLE"
=============================================================================
