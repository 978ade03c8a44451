------------------------------- MODULE IsoTp -------------------------------
(***************************************************************************)
(* The ISO 15765-2 transport layer (src/common/isotp/isotp.c) as operators *)
(* on the record of one link.  Every entry point of the C module returns   *)
(* an outcome: the new link, the frames the CAN driver accepted, the calls *)
(* of rxIndication and those of txConfirmation, each in order.             *)
(*                                                                         *)
(* A byte of a message is any value; a message is a sequence of bytes.     *)
(* The millisecond timestamps (txTimerStart, txLastCfTime, rxTimerStart)   *)
(* are kept as ages, which is all Elapsed() reads of them, so that the     *)
(* wrap of the uint32_t clock needs no model.                              *)
(***************************************************************************)
EXTENDS Naturals, Sequences

CONSTANTS
    CanDl,        \* bytes of a frame (ISOTP_CAN_DL)
    SeqMod,       \* sequence numbers (SEQ_MASK + 1)
    MaxMessage,   \* ISOTP_MAX_MESSAGE_LEN
    MaxWft,       \* ISOTP_MAX_WFT
    NBs, NCr,     \* N_Bs and N_Cr timeouts
    Pad           \* ISOTP_PADDING_BYTE

ASSUME SizeAssumption ==
    /\ CanDl \in Nat /\ CanDl >= 3
    /\ SeqMod \in Nat /\ SeqMod >= 2
    /\ MaxMessage \in Nat /\ MaxWft \in Nat
ASSUME TimeoutAssumption == NBs \in Nat \ {0} /\ NCr \in Nat \ {0}

SfMax  == CanDl - 1      \* SF_MAX_DATA
FfData == CanDl - 2      \* FF_DATA
CfMax  == CanDl - 1      \* CF_MAX_DATA

Least(a, b) == IF a <= b THEN a ELSE b

-----------------------------------------------------------------------------
(* Frames.  data is the payload after the PCI bytes, padded to the frame.  *)

Padded(bytes, n) == [k \in 1 .. n |-> IF k <= Len(bytes) THEN bytes[k] ELSE Pad]

SingleFrame(msg) ==
    [pci |-> "SF", dlc |-> CanDl, length |-> Len(msg), data |-> Padded(msg, SfMax)]
FirstFrame(msg) ==
    [pci |-> "FF", dlc |-> CanDl, length |-> Len(msg), data |-> SubSeq(msg, 1, FfData)]
ConsecutiveFrame(sn, bytes) ==
    [pci |-> "CF", dlc |-> CanDl, sn |-> sn, data |-> Padded(bytes, CfMax)]
FlowControl(status, cfg) ==
    [pci |-> "FC", dlc |-> CanDl, status |-> status, bs |-> cfg.blockSize, stMin |-> cfg.stMin]

\* STmin encoding of a Flow Control: ms up to 127, then 100..900 us rounded up
\* to 1 ms, everything else the maximum.
DecodeStMin(raw) == CASE raw <= 127 -> raw
                      [] raw \in 241 .. 249 -> 1
                      [] OTHER -> 127

-----------------------------------------------------------------------------
(* Link state.  A field that the code always writes before it reads it     *)
(* again has its initial value whenever the side is idle.                  *)

IdleTx == [state |-> "IDLE", msg |-> <<>>, offset |-> 0, seq |-> 0, blockSize |-> 0,
           blockCount |-> 0, stMin |-> 0, timer |-> 0, lastCf |-> 0, waitCount |-> 0]
IdleRx == [state |-> "IDLE", length |-> 0, offset |-> 0, data |-> <<>>, seq |-> 0,
           blockCount |-> 0, timer |-> 0]

\* The pending Flow Control outlives the reception that caused it: RxFinish
\* does not touch rxFcPending.
NoFc == "none"

InitialLink == [tx |-> IdleTx, rx |-> IdleRx, fcPending |-> NoFc]

Unchanged(l) == [link |-> l, out |-> <<>>, ind |-> <<>>, conf |-> <<>>]

\* What o did followed by what p did.
Then(o, p) == [link |-> p.link, out |-> o.out \o p.out, ind |-> o.ind \o p.ind,
               conf |-> o.conf \o p.conf]

-----------------------------------------------------------------------------
(* Sender side.                                                            *)

TxFinish(l, result) ==
    [Unchanged([l EXCEPT !.tx = IdleTx]) EXCEPT !.conf = <<result>>]

\* SF or FF; accepted tells whether the driver takes the frame.
TxSendFirst(l, accepted) ==
    LET msg == l.tx.msg
    IN  CASE ~accepted -> Unchanged(l)
          [] accepted /\ Len(msg) <= SfMax ->
                [TxFinish(l, "OK") EXCEPT !.out = <<SingleFrame(msg)>>]
          [] OTHER ->
                [Unchanged([l EXCEPT !.tx.offset = FfData, !.tx.seq = 1, !.tx.waitCount = 0,
                                     !.tx.state = "WAIT_FC", !.tx.timer = 0])
                   EXCEPT !.out = <<FirstFrame(msg)>>]

CfsLeft(tx) == (Len(tx.msg) - tx.offset + CfMax - 1) \div CfMax

\* Faulty variant: the block size is ignored.
CfsNowUnblocked(tx, room) ==
    LET paced == IF tx.stMin = 0 THEN CfsLeft(tx)
                 ELSE IF tx.lastCf > tx.stMin THEN 1 ELSE 0
    IN  Least(paced, Least(CfsLeft(tx), room))

\* Frames that one run of the send loop gets out, the driver having room for
\* so many: STmin > 0 lets one out per call, a block stops at its size.
CfsNow(tx, room) ==
    LET paced == IF tx.stMin = 0 THEN CfsLeft(tx)
                 ELSE IF tx.lastCf > tx.stMin THEN 1 ELSE 0
        block == IF tx.blockSize = 0 THEN CfsLeft(tx) ELSE tx.blockSize - tx.blockCount
    IN  Least(Least(paced, block), Least(CfsLeft(tx), room))

CfChunk(tx, k) ==
    SubSeq(tx.msg, tx.offset + (k - 1) * CfMax + 1, Least(Len(tx.msg), tx.offset + k * CfMax))

TxSendConsecutiveFrames(l, room) ==
    LET tx == l.tx
        n  == CfsNow(tx, room)
        frames == [k \in 1 .. n |-> ConsecutiveFrame((tx.seq + k - 1) % SeqMod, CfChunk(tx, k))]
        sent == [tx EXCEPT !.offset = Least(Len(tx.msg), @ + n * CfMax),
                           !.seq = (@ + n) % SeqMod,
                           !.lastCf = IF n = 0 THEN @ ELSE 0,
                           !.blockCount = IF tx.blockSize = 0 THEN @ ELSE @ + n]
        blockDone == tx.blockSize /= 0 /\ n > 0 /\ sent.blockCount >= tx.blockSize
    IN  [ (CASE sent.offset >= Len(tx.msg) -> TxFinish(l, "OK")
             [] sent.offset < Len(tx.msg) /\ blockDone ->
                   Unchanged([l EXCEPT !.tx = [sent EXCEPT !.state = "WAIT_FC", !.timer = 0]])
             [] OTHER -> Unchanged([l EXCEPT !.tx = sent]))
          EXCEPT !.out = frames]

\* FS = 1: the peer asks for time, N_WFTmax times at most.
TxOnWait(l) ==
    IF l.tx.waitCount + 1 > MaxWft THEN TxFinish(l, "ERR_WFT_OVRN")
    ELSE Unchanged([l EXCEPT !.tx.waitCount = @ + 1, !.tx.timer = 0])

TxOnFlowControl(l, f, room) ==
    CASE l.tx.state /= "WAIT_FC" \/ f.dlc < 3 -> Unchanged(l)
      [] l.tx.state = "WAIT_FC" /\ f.dlc >= 3 /\ f.status = "CTS" ->
            LET st == DecodeStMin(f.stMin)
            IN  TxSendConsecutiveFrames(
                  [l EXCEPT !.tx.blockSize = f.bs, !.tx.blockCount = 0, !.tx.waitCount = 0,
                            !.tx.stMin = st, !.tx.lastCf = st + 1, !.tx.timer = 0,
                            !.tx.state = "SEND_CF"], room)
      [] l.tx.state = "WAIT_FC" /\ f.dlc >= 3 /\ f.status = "WAIT" ->
            TxOnWait(l)
      [] l.tx.state = "WAIT_FC" /\ f.dlc >= 3 /\ f.status = "OVFLW" ->
            TxFinish(l, "ERR_OVERFLOW")
      [] OTHER -> TxFinish(l, "ERR_INVALID_FS")

-----------------------------------------------------------------------------
(* Receiver side.                                                          *)

\* rxIndication gets the whole message, or what had arrived of a failed one.
RxFinish(l, result) ==
    [Unchanged([l EXCEPT !.rx = IdleRx]) EXCEPT !.ind =
        <<[result |-> result,
           data   |-> SubSeq(l.rx.data, 1, IF result = "OK" THEN l.rx.length ELSE l.rx.offset)]>>]

\* Faulty variant: the interrupted reception is not reported.
RxInterruptSilent(l) == Unchanged([l EXCEPT !.rx = IdleRx])

\* A reception that a new SF or FF interrupts is reported and lost.
RxInterrupt(l) ==
    IF l.rx.state = "RECEIVING" THEN RxFinish(l, "ERR_UNEXP_PDU") ELSE Unchanged(l)

RxSendFlowControl(l, cfg, status, accepted) ==
    IF accepted
    THEN [Unchanged([l EXCEPT !.fcPending = NoFc]) EXCEPT !.out = <<FlowControl(status, cfg)>>]
    ELSE Unchanged([l EXCEPT !.fcPending = status])

RxOnSingleFrame(l, cfg, f) ==
    IF f.length = 0 \/ f.length > SfMax \/ f.length > f.dlc - 1 \/ f.length > cfg.rxSize
    THEN Unchanged(l)
    ELSE LET o == RxInterrupt(l)
         IN  Then(o, RxFinish([o.link EXCEPT !.rx.data = SubSeq(f.data, 1, f.length),
                                             !.rx.length = f.length], "OK"))

\* The reception of the message that the FF f announces.
RxBegun(f) == [IdleRx EXCEPT !.state = "RECEIVING", !.length = f.length, !.offset = FfData,
                             !.data = f.data, !.seq = 1]

\* Faulty variants: the buffer size is not checked; a reception in progress is
\* not interrupted.
RxOnFirstFrameAnySize(l, cfg, f, accepted) ==
    LET o == RxInterrupt(l)
    IN  IF f.dlc < CanDl \/ f.length <= SfMax THEN Unchanged(l)
        ELSE Then(o, RxSendFlowControl([o.link EXCEPT !.rx = RxBegun(f)], cfg, "CTS", accepted))

RxOnFirstFrameIfIdle(l, cfg, f, accepted) ==
    IF f.dlc < CanDl \/ f.length <= SfMax \/ f.length > cfg.rxSize THEN Unchanged(l)
    ELSE RxSendFlowControl(IF l.rx.state = "IDLE" THEN [l EXCEPT !.rx = RxBegun(f)] ELSE l,
                           cfg, "CTS", accepted)

RxOnFirstFrame(l, cfg, f, accepted) ==
    LET o == RxInterrupt(l)
    IN  CASE f.dlc < CanDl \/ f.length <= SfMax -> Unchanged(l)
          [] f.dlc >= CanDl /\ f.length > SfMax /\ f.length > cfg.rxSize ->
                Then(o, RxSendFlowControl(o.link, cfg, "OVFLW", accepted))
          [] OTHER ->
                Then(o, RxSendFlowControl([o.link EXCEPT !.rx = RxBegun(f)], cfg, "CTS", accepted))

\* The bytes a CF must bring, and (RxTaken) the reception with those of f.
CfChunkExpected(rx) == Least(rx.length - rx.offset, CfMax)

\* Faulty variants: the sequence number does not wrap; it does not move.
RxTakenNoWrap(rx, f) ==
    LET chunk == CfChunkExpected(rx)
    IN  [rx EXCEPT !.data = @ \o SubSeq(f.data, 1, chunk), !.offset = @ + chunk,
                   !.seq = @ + 1, !.timer = 0]
RxTakenSameSn(rx, f) ==
    LET chunk == CfChunkExpected(rx)
    IN  [rx EXCEPT !.data = @ \o SubSeq(f.data, 1, chunk), !.offset = @ + chunk, !.timer = 0]

RxTaken(rx, f) ==
    LET chunk == CfChunkExpected(rx)
    IN  [rx EXCEPT !.data = @ \o SubSeq(f.data, 1, chunk), !.offset = @ + chunk,
                   !.seq = (@ + 1) % SeqMod, !.timer = 0]

\* f is the next CF.
NextCf(rx, f) == f.sn = rx.seq

RxOnConsecutiveFrame(l, cfg, f, accepted) ==
    LET rx    == l.rx
        got   == RxTaken(rx, f)
        count == rx.blockCount + 1
    IN  CASE rx.state /= "RECEIVING" -> Unchanged(l)
          [] rx.state = "RECEIVING" /\ ~NextCf(rx, f) -> RxFinish(l, "ERR_WRONG_SN")
          [] rx.state = "RECEIVING" /\ NextCf(rx, f) /\ CfChunkExpected(rx) > f.dlc - 1 ->
                Unchanged(l)
          [] OTHER ->
                IF got.offset >= rx.length THEN RxFinish([l EXCEPT !.rx = got], "OK")
                ELSE IF cfg.blockSize = 0 THEN Unchanged([l EXCEPT !.rx = got])
                ELSE IF count < cfg.blockSize
                     THEN Unchanged([l EXCEPT !.rx = [got EXCEPT !.blockCount = count]])
                     ELSE RxSendFlowControl([l EXCEPT !.rx = [got EXCEPT !.blockCount = 0]],
                                            cfg, "CTS", accepted)

-----------------------------------------------------------------------------
(* Entry points.  room is the number of frames the driver accepts during   *)
(* the call, before it reports that it is busy.                            *)

\* Faulty variant: IsoTp_Transmit does not ask for an idle link.
CanTransmitAnyTime(l, cfg, msg) ==
    Len(msg) /= 0 /\ Len(msg) <= MaxMessage /\ Len(msg) <= cfg.txSize

CanTransmit(l, cfg, msg) ==
    /\ Len(msg) /= 0 /\ Len(msg) <= MaxMessage /\ Len(msg) <= cfg.txSize
    /\ l.tx.state = "IDLE"

Transmit(l, msg, room) ==
    TxSendFirst([l EXCEPT !.tx = [IdleTx EXCEPT !.msg = msg, !.state = "SEND_FIRST"]], room > 0)

RxFrame(l, cfg, f, room) ==
    CASE f.dlc = 0 \/ f.dlc > CanDl -> Unchanged(l)
      [] f.dlc \in 1 .. CanDl /\ f.pci = "SF" -> RxOnSingleFrame(l, cfg, f)
      [] f.dlc \in 1 .. CanDl /\ f.pci = "FF" -> RxOnFirstFrame(l, cfg, f, room > 0)
      [] f.dlc \in 1 .. CanDl /\ f.pci = "CF" -> RxOnConsecutiveFrame(l, cfg, f, room > 0)
      [] f.dlc \in 1 .. CanDl /\ f.pci = "FC" -> TxOnFlowControl(l, f, room)
      [] OTHER -> Unchanged(l)

\* Faulty variant: no N_Cr.
MainReceiverPatient(l, cfg, fcRoom) ==
    IF l.fcPending = NoFc THEN Unchanged(l) ELSE RxSendFlowControl(l, cfg, l.fcPending, fcRoom > 0)

\* The driver may be busy for the Flow Control and, a moment later, have room
\* for the sender: the two get a room of their own.
MainReceiver(l, cfg, fcRoom) ==
    LET o == IF l.fcPending = NoFc THEN Unchanged(l)
             ELSE RxSendFlowControl(l, cfg, l.fcPending, fcRoom > 0)
    IN  IF o.link.rx.state = "RECEIVING" /\ o.link.rx.timer >= NCr
        THEN Then(o, RxFinish(o.link, "ERR_TIMEOUT_CR"))
        ELSE o

\* Faulty variant: no N_Bs.
MainSenderPatient(l, room) ==
    CASE l.tx.state = "SEND_FIRST" -> TxSendFirst(l, room > 0)
      [] l.tx.state = "SEND_CF" -> TxSendConsecutiveFrames(l, room)
      [] OTHER -> Unchanged(l)

MainSender(l, room) ==
    CASE l.tx.state = "SEND_FIRST" ->
            IF room = 0 /\ l.tx.timer >= NBs THEN TxFinish(l, "ERR_TIMEOUT_BS")
            ELSE TxSendFirst(l, room > 0)
      [] l.tx.state = "WAIT_FC" ->
            IF l.tx.timer >= NBs THEN TxFinish(l, "ERR_TIMEOUT_BS") ELSE Unchanged(l)
      [] l.tx.state = "SEND_CF" -> TxSendConsecutiveFrames(l, room)
      [] OTHER -> Unchanged(l)

MainFunction(l, cfg, fcRoom, room) ==
    LET o == MainReceiver(l, cfg, fcRoom)
    IN  Then(o, MainSender(o.link, room))

\* One unit of time passes: the ages that a state reads grow, up to the value
\* from which growing makes no difference.
Aged(l) ==
    LET txTimed == l.tx.state \in {"SEND_FIRST", "WAIT_FC"}
        paced   == l.tx.state = "SEND_CF"
    IN  [l EXCEPT !.tx.timer  = IF txTimed THEN Least(NBs, @ + 1) ELSE @,
                  !.tx.lastCf = IF paced THEN Least(l.tx.stMin + 1, @ + 1) ELSE @,
                  !.rx.timer  = IF l.rx.state = "RECEIVING" THEN Least(NCr, @ + 1) ELSE @]
=============================================================================
