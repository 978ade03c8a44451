---------------------------- MODULE ControlDiag ----------------------------
(***************************************************************************)
(* Diagnostics of the Control ECU: the ComRx task (control_app.c:173-214)  *)
(* takes frames from the RX queue, DiagApp feeds them to the ISO-TP link   *)
(* and the UDS server, and the responses leave through the TX FIFO of the  *)
(* FDCAN, which they share with the status frame of the Monitor task.      *)
(*                                                                         *)
(* One iteration of the ComRx loop is one action: the queue's consumer end, *)
(* the link and the server belong to that task alone.  A request is one    *)
(* byte that stands for the whole request, so every request is a single    *)
(* frame (IsoTpPair has the segmented ones); responses have their length.  *)
(***************************************************************************)
EXTENDS IsoTp, UdsServer, FiniteSets

CONSTANTS
    Cfg,          \* configuration of the ECU link
    Requests,     \* requests a tester may send, without their number
    Truncated,    \* those of them whose frame may be cut short
    FifoDepth,    \* TX buffers of the FDCAN
    QueueLength,  \* RX_QUEUE_LEN
    MaxRequests,  \* bound: requests sent
    MaxFcs        \* bound: Flow Controls the tester sends

ASSUME QueueAssumption ==
    {FifoDepth, QueueLength, MaxRequests, MaxFcs} \subseteq Nat /\ FifoDepth > 0

\* The receive buffer of the link holds at least a request of one byte.
ASSUME CfgAssumption == Cfg.rxSize \in Nat \ {0}

\* A padding byte is none of the bytes that ResponseTo numbers.
ASSUME PadAssumption == Pad \notin Nat \X Nat \X Nat

VARIABLES
    link,         \* s_ecuLink
    server,       \* state of the UDS server
    fifo,         \* frames in the TX FIFO
    queue,        \* s_rxQueue
    cycle,        \* DtcMgr_StartOperationCycle calls since the core started
    sent, fcs,    \* requests and Flow Controls the tester sent
    accepted,     \* ghost: numbers of the 0x11 requests answered positively
    pendingBy,    \* ghost: the request behind pendingReset
    onBus,        \* ghost: responses whose last frame has left the FIFO
    resets,       \* ghost: resets executed, oldest first
    silence,      \* ghost: time since the ECU took a request, up to S3
    open,         \* ghost: the response whose FF is the last one on the bus
    givenUp       \* ghost: responses confirmed with an error

\* What the ComRx task may change in one iteration, as one record.
State == [link |-> link, server |-> server, fifo |-> fifo, cycle |-> cycle,
          accepted |-> accepted, pendingBy |-> pendingBy, resets |-> resets,
          givenUp |-> givenUp, restarted |-> FALSE]

vars == <<link, server, fifo, queue, cycle, sent, fcs, accepted, pendingBy, onBus, resets, silence,
          open, givenUp>>

Init ==
    /\ link = InitialLink /\ server = InitialServer
    /\ fifo = <<>> /\ queue = <<>> /\ cycle = 0
    /\ sent = 0 /\ fcs = 0
    /\ accepted = {} /\ pendingBy = 0 /\ onBus = {} /\ resets = <<>> /\ open = 0
    /\ silence = 0 /\ givenUp = {}

-----------------------------------------------------------------------------
(* Responses.  Byte k of the n bytes of the response to request id.        *)

ResponseTo(id, n) == [k \in 1 .. n |-> <<id, k, n>>]
IdOf(frame) == frame.data[1][1]
IsLast(frame) == \E k \in 1 .. Len(frame.data) :
                    frame.data[k] /= Pad /\ frame.data[k][2] = frame.data[k][3]

\* The last frame of a response, and the response left open by frame f when
\* it was o before.
Completes(f) == f.pci \in {"SF", "CF"} /\ IsLast(f)
OpenAfter(f, o) ==
    CASE f.pci = "FF" -> IdOf(f)
      [] f.pci = "SF" -> 0
      [] OTHER -> o

Room(s) == FifoDepth - Len(s.fifo)

\* DiagApp's EcuReset: a soft reset starts an operation cycle (and
\* resynchronises the E2E receivers); a hard one restarts the core: the RAM is
\* initialised again and the FDCAN, reset as well, forgets its FIFO.
Reset(s, by) ==
    LET type  == s.server.pendingReset
        entry == [by |-> s.pendingBy, confirmed |-> by, onBus |-> s.pendingBy \in onBus]
        done  == [s EXCEPT !.resets = Append(@, entry), !.pendingBy = 0]
    IN  IF type = "soft"
        THEN [done EXCEPT !.server = ServerReset(s.server), !.cycle = @ + 1]
        ELSE [done EXCEPT !.server = InitialServer, !.link = InitialLink, !.fifo = <<>>,
                          !.cycle = 0, !.restarted = TRUE]

\* The outcome o of a call on the link: frames enter the FIFO, and a response
\* confirmed with ISOTP_OK (OnEcuResponseSent) lets a pending reset run.
AfterLink(s, o) ==
    LET sending == s.link.tx.msg
        failed == o.conf /= <<>> /\ o.conf /= <<"OK">>
        queued == [s EXCEPT !.link = o.link, !.fifo = @ \o o.out,
                            !.givenUp = IF failed THEN @ \union {sending[1][1]} ELSE @]
    IN  IF o.conf = <<"OK">> /\ s.server.pendingReset /= "none"
        THEN Reset(queued, sending[1][1])
        ELSE queued

\* RespondTo: the result of IsoTp_Transmit is ignored, so a response is dropped
\* while an earlier one is being sent.
RespondTo(s, r, functional) ==
    LET p == ProcessRequest(s.server, r, functional)
        response == ResponseTo(r.id, p.length)
        isReset  == r.sid = 17 /\ p.nrc = 0
        served == [s EXCEPT !.server = p.server,
                            !.accepted = IF isReset THEN @ \union {r.id} ELSE @,
                            !.pendingBy = IF isReset THEN r.id ELSE @]
        begun  == [served EXCEPT !.link.tx.msg = response]
    IN  IF CanTransmit(s.link, Cfg, response)
        THEN AfterLink(begun, Transmit(s.link, response, Room(s)))
        ELSE served

\* A Single Frame that is as long as it says.
IsWhole(f) == f.pci = "SF" /\ f.length > 0 /\ f.length < f.dlc

\* DiagApp_OnFrame.  Functional frames do not pass the link.
OnFrame(s, f) ==
    LET o == RxFrame(s.link, Cfg, f, Room(s))
    IN  CASE f.functional /\ IsWhole(f) -> RespondTo(s, f.data[1], TRUE)
          [] f.functional /\ ~IsWhole(f) -> s
          [] ~f.functional /\ f.pci = "SF" /\ o.ind /= <<>> ->
                RespondTo([s EXCEPT !.link = o.link], o.ind[1].data[1], FALSE)
          [] OTHER -> AfterLink(s, o)

\* DiagApp_MainFunction.  Only one of its two sends can find the FIFO full
\* first, as the link never has a Flow Control pending here.
DiagMain(s) ==
    LET polled == AfterLink(s, MainFunction(s.link, Cfg, Room(s), Room(s)))
    IN  IF polled.restarted THEN polled ELSE [polled EXCEPT !.server = ServerMain(@)]

-----------------------------------------------------------------------------
(* The Control ECU.                                                        *)

\* An iteration ends in the state s, the last request being quiet old; a restart
\* loses what the queue holds.
Becomes(s, rest, quiet) ==
    /\ link' = s.link /\ server' = s.server /\ fifo' = s.fifo /\ cycle' = s.cycle
    /\ accepted' = s.accepted /\ pendingBy' = s.pendingBy /\ resets' = s.resets
    /\ queue' = IF s.restarted THEN <<>> ELSE rest
    /\ open' = IF s.restarted THEN 0 ELSE open
    /\ silence' = IF s.restarted THEN 0 ELSE quiet
    /\ givenUp' = s.givenUp
    /\ UNCHANGED <<sent, fcs, onBus>>

\* osMessageQueueGet returned a frame.
ComRxFrame ==
    /\ queue /= <<>>
    /\ \E s \in {OnFrame(State, Head(queue))} :
          \E t \in {IF s.restarted THEN s ELSE DiagMain(s)} :
             Becomes(t, Tail(queue), IF IsWhole(Head(queue)) THEN 0 ELSE silence)

\* ... or nothing for 2 ms.
ComRxTimeout ==
    /\ queue = <<>>
    /\ \E s \in {DiagMain(State)} : Becomes(s, <<>>, silence)

ComRx == ComRxFrame \/ ComRxTimeout

\* The Monitor task sends the cyclic status frame; a full FIFO drops it.
MonitorStatus ==
    /\ Len(fifo) < FifoDepth
    /\ fifo' = Append(fifo, [pci |-> "STATUS"])
    /\ UNCHANGED <<link, server, queue, cycle, sent, fcs, accepted, pendingBy, onBus, resets, silence,
                   open, givenUp>>

-----------------------------------------------------------------------------
(* The environment.                                                        *)

\* The FDCAN sends the oldest frame.
BusSend ==
    /\ fifo /= <<>>
    /\ fifo' = Tail(fifo)
    /\ LET f == Head(fifo)
       IN  /\ onBus' = IF Completes(f) THEN onBus \union {IdOf(f)} ELSE onBus
           /\ open' = OpenAfter(f, open)
    /\ UNCHANGED <<link, server, queue, cycle, sent, fcs, accepted, pendingBy, resets, silence,
                   givenUp>>

\* OnCanRx in the receive interrupt: a full queue drops the frame.
OnCanRx(f) ==
    /\ queue' = IF Len(queue) < QueueLength THEN Append(queue, f) ELSE queue
    /\ UNCHANGED <<link, server, fifo, cycle, accepted, pendingBy, onBus, resets, silence, open,
                   givenUp>>

\* What the tester sends: a request, with its number, and a Flow Control.
Numbered(r, id) ==
    [id |-> id, sid |-> r.sid, length |-> r.length, sub |-> r.sub, suppress |-> r.suppress,
     dids |-> r.dids, allGroups |-> r.allGroups, matching |-> r.matching, listed |-> r.listed]
RequestFrame(request, functional, dlc) ==
    [pci |-> "SF", dlc |-> dlc, length |-> 1, functional |-> functional,
     data |-> Padded(<<request>>, SfMax)]
TesterFc == [pci |-> "FC", dlc |-> CanDl, functional |-> FALSE, status |-> "CTS", bs |-> 0,
             stMin |-> 0]

\* The tester sends a request to the ECU's address or to all ECUs; the frame may
\* be shorter than the length it announces.
TesterRequest(r, functional, dlc) ==
    /\ sent < MaxRequests
    /\ dlc = CanDl \/ r \in Truncated
    /\ sent' = sent + 1
    /\ UNCHANGED fcs
    /\ OnCanRx(RequestFrame(Numbered(r, sent + 1), functional, dlc))

TesterFlowControl ==
    /\ fcs < MaxFcs
    /\ fcs' = fcs + 1
    /\ UNCHANGED sent
    /\ OnCanRx(TesterFc)

Tick ==
    /\ link' = Aged(link) /\ server' = ServerAged(server)
    /\ silence' = IF silence < S3 THEN silence + 1 ELSE silence
    /\ UNCHANGED <<fifo, queue, cycle, sent, fcs, accepted, pendingBy, onBus, resets, open,
                   givenUp>>

Next ==
    \/ ComRxFrame
    \/ ComRxTimeout
    \/ MonitorStatus
    \/ BusSend
    \/ \E r \in Requests, functional \in BOOLEAN, dlc \in {1, CanDl} :
          TesterRequest(r, functional, dlc)
    \/ TesterFlowControl
    \/ Tick

\* The receive task has something to do.  Weak fairness of ComRx is written out
\* with it (it is ENABLED <<ComRx>>_vars), which TLC evaluates much faster.
ComRxDue == queue /= <<>> \/ DiagMain(State) /= State

\* The receive task runs at least every 2 ms, the bus sends what is queued and
\* time passes.  A status frame comes every CONTROL_STATUS_CYCLE_MS only, so
\* that the receive task finds room in the FIFO again and again.  The tester
\* owes nothing.
Fairness ==
    /\ []<>~ComRxDue \/ []<><<ComRx>>_vars
    /\ <>[]~(Room(State) > 0 /\ ComRxDue) \/ []<><<Room(State) > 0 /\ ComRx>>_vars
    /\ WF_vars(BusSend) /\ WF_vars(Tick)

Spec == Init /\ [][Next]_vars /\ Fairness

-----------------------------------------------------------------------------
(* Properties.                                                             *)

\* Each accepted 0x11 request resets the ECU at most once, and nothing else
\* resets it: a reset that ran is not pending any more, whatever response is
\* confirmed later.
ResetAtMostOnce ==
    /\ \A k \in DOMAIN resets : resets[k].by \in accepted
    /\ \A j, k \in DOMAIN resets : resets[j].by = resets[k].by => j = k

\* Responses reach the bus whole and one after the other, although physical and
\* functional requests share link and buffer: a CF continues the response whose
\* FF went out last, and no other response begins before that one is complete
\* or has been given up.
ResponsesWhole ==
    fifo /= <<>> =>
        LET f == Head(fifo)
        IN  /\ f.pci = "CF" => IdOf(f) = open
            /\ f.pci \in {"SF", "FF"} => open = 0 \/ open \in onBus \union givenUp

\* The frame that the receive task takes next asks for the default session.
AsksDefault ==
    /\ queue /= <<>> /\ IsWhole(Head(queue))
    /\ Head(queue).data[1].sid = 16 /\ Head(queue).data[1].sub = 1

\* S3 ends an extended session neither late nor early: an iteration of the receive
\* task never leaves one open when no request has come for S3, and never closes one
\* before, a refused, suppressed or unanswered request counting as one, unless a
\* reset runs or the tester asks for the default session.
S3Respected ==
    [][ComRx =>
          /\ server'.session = "extended" => silence' < S3
          /\ server.session = "extended" /\ server'.session = "default" =>
                silence' = S3 \/ resets' /= resets \/ AsksDefault]_vars

\* A tester that goes away leaves the ECU with a link that can answer the next
\* one: no response holds it for ever.
LinkRecovers == []<>(link.tx.state = "IDLE")

\* uds_server.h:82: a reset runs "once its response has been transmitted": the
\* confirmation that runs it is that of its own response.
ResetConfirmedByOwnResponse == \A k \in DOMAIN resets : resets[k].confirmed = resets[k].by

\* diag_app.c:127: "a reset only after its response is on the bus".
ResetAfterResponseOnBus == \A k \in DOMAIN resets : resets[k].onBus
=============================================================================
