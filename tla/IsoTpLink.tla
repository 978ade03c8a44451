----------------------------- MODULE IsoTpLink -----------------------------
(***************************************************************************)
(* One ISO-TP link in an environment that may do anything: the application *)
(* transmits messages of any length, the bus delivers any frame, truncated *)
(* and out-of-place ones included, and the CAN driver is busy whenever it  *)
(* likes.  Only lengths matter here: every byte is Pad.                    *)
(***************************************************************************)
EXTENDS IsoTp, FiniteSets

CONSTANTS
    Cfg,          \* [blockSize, stMin, rxSize, txSize] of the IsoTp_Config_t
    Lengths,      \* message lengths the application passes to IsoTp_Transmit
    Frames,       \* frames the bus may deliver on cfg.rxId
    MaxRoom       \* frames the driver accepts at most during one call

ASSUME CfgAssumption ==
    /\ Cfg.blockSize \in Nat /\ Cfg.stMin \in Nat
    /\ Cfg.rxSize \in Nat /\ Cfg.txSize \in Nat

\* The driver pads what it delivers, so that the data fill the frame whatever
\* dlc says.
ASSUME FramesAssumption ==
    \A f \in Frames :
        /\ f.dlc \in Nat
        /\ f.pci \in {"SF", "FF", "CF"} => f.data \in Seq({Pad})
        /\ f.pci \in {"SF", "FF"} => f.length \in Nat
        /\ f.pci = "SF" => Len(f.data) = SfMax
        /\ f.pci = "FF" => Len(f.data) = FfData
        /\ f.pci = "CF" => Len(f.data) = CfMax
        /\ f.pci = "FC" => f.bs \in Nat

ASSUME BoundsAssumption == Lengths \subseteq Nat /\ MaxRoom \in Nat

VARIABLES
    link,         \* IsoTp_Link_t
    unconfirmed,  \* ghost: accepted IsoTp_Transmit calls not confirmed yet
    unreported,   \* ghost: receptions begun that rxIndication has not reported
    credit        \* ghost: CFs the peer's last Flow Control still allows

vars == <<link, unconfirmed, unreported, credit>>

Message(n) == [k \in 1 .. n |-> Pad]

Init ==
    /\ link = InitialLink
    /\ unconfirmed = 0
    /\ unreported = 0
    /\ credit = 0

CfsIn(frames) == Cardinality({k \in DOMAIN frames : frames[k].pci = "CF"})

\* A call with outcome o that begins tx transmissions and rx receptions and
\* before whose frames the peer allows c more CFs.
Perform(o, tx, rx, c) ==
    /\ link' = o.link
    /\ unconfirmed' = unconfirmed + tx - Len(o.conf)
    /\ unreported' = unreported + rx - Len(o.ind)
    /\ credit' = c - CfsIn(o.out)

\* What a frame announces: a whole message, or the start of one that fits.
Begins(f) ==
    \/ /\ f.pci = "SF" /\ f.dlc <= CanDl
       /\ f.length \in 1 .. Least(Least(SfMax, f.dlc - 1), Cfg.rxSize)
    \/ f.pci = "FF" /\ f.dlc = CanDl /\ f.length > SfMax /\ f.length <= Cfg.rxSize

Allows(f) ==
    f.pci = "FC" /\ f.dlc \in 3 .. CanDl /\ f.status = "CTS" /\ link.tx.state = "WAIT_FC"

AppTransmit(n) ==
    /\ CanTransmit(link, Cfg, Message(n))
    /\ \E room \in 0 .. 1 : Perform(Transmit(link, Message(n), room), 1, 0, 0)

BusFrame(f) ==
    \E room \in 0 .. MaxRoom :
        Perform(RxFrame(link, Cfg, f, room), 0, IF Begins(f) THEN 1 ELSE 0,
                IF Allows(f) THEN (IF f.bs = 0 THEN MaxMessage ELSE f.bs) ELSE credit)

Poll(fcRoom, room) == Perform(MainFunction(link, Cfg, fcRoom, room), 0, 0, credit)

Tick ==
    /\ link' = Aged(link)
    /\ UNCHANGED <<unconfirmed, unreported, credit>>

Next ==
    \/ \E n \in Lengths : AppTransmit(n)
    \/ \E f \in Frames : BusFrame(f)
    \/ \E fcRoom \in 0 .. 1, room \in 0 .. MaxRoom : Poll(fcRoom, room)
    \/ Tick

\* A poll with room has something to do.  Strong fairness of that poll is
\* written out with it (it is ENABLED <<Poll(1, MaxRoom)>>_vars), which TLC
\* evaluates much faster.
PollDue == MainFunction(link, Cfg, 1, MaxRoom).link /= link

\* IsoTp_MainFunction is called for ever and finds room in the driver again
\* and again; time passes.
Fairness ==
    /\ WF_vars(Tick)
    /\ <>[]~PollDue \/ []<><<Poll(1, MaxRoom)>>_vars

Spec == Init /\ [][Next]_vars /\ Fairness

-----------------------------------------------------------------------------
(* Properties.                                                             *)

\* No memcpy leaves its buffer, whatever lengths the frames announce: that of
\* the next CF into rxBuffer takes at most the bytes still missing of a message
\* that fits, that out of txBuffer stays inside the message; and a block that is
\* being sent has a frame left: txBlockCount cannot run past txBlockSize.
InBuffers ==
    /\ link.rx.state = "RECEIVING" =>
          /\ FfData <= link.rx.offset /\ link.rx.offset < link.rx.length
          /\ link.rx.length <= Cfg.rxSize
          /\ Len(link.rx.data) = link.rx.offset
    /\ Len(link.tx.msg) <= Cfg.txSize
    /\ link.tx.state = "SEND_FIRST" => link.tx.msg /= <<>>
    /\ link.tx.state \in {"WAIT_FC", "SEND_CF"} =>
          FfData <= link.tx.offset /\ link.tx.offset < Len(link.tx.msg)
    /\ link.tx.state = "SEND_CF" =>
          link.tx.blockSize = 0 \/ link.tx.blockCount < link.tx.blockSize

\* Sequence numbers count the CFs of the message, through the wrap at 16, in
\* both directions; a retried CF keeps its number.
SeqOf(offset) == ((offset - FfData) \div CfMax + 1) % SeqMod
SeqFollowsOffset ==
    /\ link.tx.state \in {"WAIT_FC", "SEND_CF"} => link.tx.seq = SeqOf(link.tx.offset)
    /\ link.rx.state = "RECEIVING" => link.rx.seq = SeqOf(link.rx.offset)

\* txConfirmation is called exactly once for each accepted transmission, when
\* the link gets idle (isotp.h: "fully sent, or sending failed"); rxIndication
\* exactly once for each message begun, also when another one interrupts it, and
\* never for a frame that begins nothing.
CallbacksOnce ==
    /\ unconfirmed = IF link.tx.state = "IDLE" THEN 0 ELSE 1
    /\ unreported = IF link.rx.state = "IDLE" THEN 0 ELSE 1

\* No CF goes out beyond what the peer's last Flow Control allows.
WithinCredit ==
    /\ credit >= 0
    /\ link.tx.state = "SEND_CF" /\ link.tx.blockSize /= 0 =>
          credit = link.tx.blockSize - link.tx.blockCount

\* Every accepted transmission ends: N_Bs bounds the wait for the driver or a
\* Flow Control, N_WFT the waits a peer asks for, the message length the rest.
TransmissionEnds == link.tx.state /= "IDLE" ~> unconfirmed = 0

\* N_Cr: a reception whose sender has gone silent does not last; it is ended
\* or a late CF resumes it.
ReceptionEnds ==
    link.rx.state = "RECEIVING" /\ link.rx.timer > 0
        ~> link.rx.state = "IDLE" \/ link.rx.timer = 0
=============================================================================
