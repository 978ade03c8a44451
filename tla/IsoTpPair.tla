----------------------------- MODULE IsoTpPair -----------------------------
(***************************************************************************)
(* A tester and an ECU, each with one ISO-TP link, over a CAN bus: the     *)
(* tester transmits requests, the ECU transmits a response from inside the *)
(* rxIndication of each request, as DiagApp (diag_app.c:103-120) does.     *)
(*                                                                         *)
(* chan[s] holds the frames on their way to side s: the peer's TX FIFO,    *)
(* the wire and the RX queue of s.  CAN keeps the order of one identifier; *)
(* a frame is lost when a queue overflows or its sender restarts.          *)
(***************************************************************************)
EXTENDS IsoTp, FiniteSets

CONSTANTS
    Setups,       \* circumstances of a behaviour: records [cfg, losses, prompt]
    Depth,        \* frames in flight to one side at most
    Requests,     \* lengths of the requests the tester sends, in order
    Responses     \* Responses[i]: length of the ECU's response to request i

Sides == {"tester", "ecu"}
Peer(s) == IF s = "tester" THEN "ecu" ELSE "tester"

ASSUME PairAssumption ==
    /\ Depth \in Nat \ {0}
    /\ Requests \in Seq(Nat) /\ Responses \in Seq(Nat) /\ Len(Requests) = Len(Responses)
    /\ \A u \in Setups :
          /\ u.losses \in Nat /\ u.prompt \in BOOLEAN
          /\ \A s \in Sides : u.cfg[s].blockSize \in Nat /\ u.cfg[s].rxSize \in Nat

VARIABLES
    link,         \* IsoTp_Link_t of each side
    chan,         \* frames in flight to each side
    sent,         \* ghost: messages IsoTp_Transmit accepted at each side
    delivered,    \* ghost: messages given to rxIndication with ISOTP_OK
    confirmed,    \* ghost: results given to txConfirmation
    losses,       \* frames lost so far
    setup         \* the circumstances, chosen at the start: the configuration of
                  \* each side (cfg), how many frames may be lost (losses), and
                  \* whether frames and polls are faster than a unit of time (prompt)

vars == <<link, chan, sent, delivered, confirmed, losses, setup>>

Cfg == setup.cfg

\* Byte k of a message is told from all others.
Message(s, id, n) == [k \in 1 .. n |-> <<s, id, k>>]
IdOf(m) == m[1][2]

Init ==
    /\ link = [s \in Sides |-> InitialLink]
    /\ chan = [s \in Sides |-> <<>>]
    /\ sent = [s \in Sides |-> <<>>]
    /\ delivered = [s \in Sides |-> <<>>]
    /\ confirmed = [s \in Sides |-> <<>>]
    /\ losses = 0
    /\ setup \in Setups

\* The frames the driver of side s accepts, used of the room already gone: it
\* may refuse although there is room (bus-off, status frames of others).
Rooms(s, used) == 0 .. Depth - Len(chan[Peer(s)]) - used

\* The messages a call indicates with ISOTP_OK; it makes two indications at most,
\* of a reception it interrupts and of the frame's own.
OkData(o) ==
    LET ok(i) == IF i.result = "OK" THEN <<i.data>> ELSE <<>>
    IN  CASE Len(o.ind) = 0 -> <<>>
          [] Len(o.ind) = 1 -> ok(o.ind[1])
          [] Len(o.ind) = 2 -> ok(o.ind[1]) \o ok(o.ind[2])

\* Side s performed a call with outcome o; rest is what remains to be received.
Perform(s, o, rest) ==
    /\ link' = [link EXCEPT ![s] = o.link]
    /\ chan' = [chan EXCEPT ![s] = rest, ![Peer(s)] = @ \o o.out]
    /\ delivered' = [delivered EXCEPT ![s] = @ \o OkData(o)]
    /\ confirmed' = [confirmed EXCEPT ![s] = @ \o o.conf]

\* The tester's application sends its next request.
SendRequest ==
    LET id  == Len(sent["tester"]) + 1
        msg == Message("tester", id, Requests[id])
    IN  /\ id <= Len(Requests)
        /\ CanTransmit(link["tester"], Cfg["tester"], msg)
        /\ \E room \in Rooms("tester", 0) :
              Perform("tester", Transmit(link["tester"], msg, room), chan["tester"])
        /\ sent' = [sent EXCEPT !["tester"] = Append(@, msg)]
        /\ UNCHANGED <<losses, setup>>

\* Side s takes a frame from its queue.  When it completes a request the ECU
\* transmits the response; IsoTp_Transmit refuses it (BUSY) while an earlier
\* response is still being sent, and the refusal is ignored.
Receive(s) ==
    /\ chan[s] /= <<>>
    /\ \E room \in Rooms(s, 0) :
         LET o == RxFrame(link[s], Cfg[s], Head(chan[s]), room)
             request  == s = "ecu" /\ OkData(o) /= <<>>
             id       == IdOf(OkData(o)[1])
             response == Message("ecu", id, Responses[id])
         IN  IF request /\ CanTransmit(o.link, Cfg[s], response)
             THEN /\ Perform(s, Then(o, Transmit(o.link, response, room)), Tail(chan[s]))
                  /\ sent' = [sent EXCEPT ![s] = Append(@, response)]
             ELSE Perform(s, o, Tail(chan[s])) /\ UNCHANGED sent
    /\ UNCHANGED <<losses, setup>>

Poll(s) ==
    /\ \E fcRoom \in Rooms(s, 0) :
         LET used == IF fcRoom > 0 /\ link[s].fcPending /= NoFc THEN 1 ELSE 0
         IN  \E room \in Rooms(s, used) :
                Perform(s, MainFunction(link[s], Cfg[s], fcRoom, room), chan[s])
    /\ UNCHANGED <<sent, losses, setup>>

\* A frame on its way to side s is lost.
Lose(s) ==
    /\ losses < setup.losses
    /\ \E k \in 1 .. Len(chan[s]) :
          chan' = [chan EXCEPT ![s] = SubSeq(@, 1, k - 1) \o SubSeq(@, k + 1, Len(@))]
    /\ losses' = losses + 1
    /\ UNCHANGED <<link, sent, delivered, confirmed, setup>>

\* A poll of side s has something to do.
PollDue(s) ==
    \E fcRoom, room \in Rooms(s, 0) : MainFunction(link[s], Cfg[s], fcRoom, room).link /= link[s]

\* Nothing left for the bus or for a poll to do but wait.
Settled == \A s \in Sides : chan[s] = <<>> /\ ~PollDue(s)

Tick ==
    /\ setup.prompt => Settled
    /\ link' = [s \in Sides |-> Aged(link[s])]
    /\ UNCHANGED <<chan, sent, delivered, confirmed, losses, setup>>

Next ==
    \/ SendRequest
    \/ \E s \in Sides : Receive(s) \/ Poll(s) \/ Lose(s)
    \/ Tick

\* The main loop of each side runs and empties its RX queue, and time passes;
\* nothing obliges the application to send nor the bus to lose.  Weak fairness
\* of Receive and Poll is written out (chan[s] /= <<>> and PollDue are their
\* ENABLED), which TLC evaluates much faster.
Fairness ==
    /\ WF_vars(Tick)
    /\ \A s \in Sides :
         /\ []<>(chan[s] = <<>>) \/ []<><<Receive(s)>>_vars
         /\ []<>~PollDue(s) \/ []<><<Poll(s)>>_vars

Spec == Init /\ [][Next]_vars /\ Fairness

-----------------------------------------------------------------------------
(* Properties.                                                             *)

\* What a side is given with ISOTP_OK is, byte for byte, a message the peer
\* transmitted, and messages arrive in the order sent, each at most once: a
\* reception never mixes two messages nor skips a frame.
Integrity ==
    \A s \in Sides :
        /\ \A k \in 1 .. Len(delivered[s]) :
              \E j \in 1 .. Len(sent[Peer(s)]) : delivered[s][k] = sent[Peer(s)][j]
        /\ \A j, k \in 1 .. Len(delivered[s]) :
              j < k => IdOf(delivered[s][j]) < IdOf(delivered[s][k])

\* With nothing lost and no delay, a message confirmed with ISOTP_OK arrives:
\* once the channel is empty, the peer was given every one of them.
ConfirmedArrives ==
    \A s \in Sides :
        setup.prompt /\ losses = 0 /\ chan[Peer(s)] = <<>> =>
            Len(delivered[Peer(s)]) = Cardinality({k \in DOMAIN confirmed[s] : confirmed[s][k] = "OK"})

\* A receiver never gets a CF beyond the block it allowed: counting from the
\* first CF after its Flow Control, at most blockSize are on their way (a delayed
\* Flow Control of an earlier message would break it, see the README).
BlockRespected ==
    \A s \in Sides :
        LET bs == Cfg[s].blockSize
            cfs == Cardinality({k \in DOMAIN chan[s] : chan[s][k].pci = "CF"})
        IN  setup.prompt /\ bs /= 0 /\ link[s].rx.state = "RECEIVING" =>
                link[s].rx.blockCount + cfs <= bs

\* Whatever is lost, both links come to rest: nobody waits for ever for a frame
\* that will not come.
ComesToRest ==
    []<>(\A s \in Sides : link[s].tx.state = "IDLE" /\ link[s].rx.state = "IDLE")
=============================================================================
